---------------------------- MODULE MCRunStore ----------------------------
(* Model-checking instance of RunStore. *)
EXTENDS RunStore

CONSTANTS s1, s2

Event(kind, steps, flag) == [kind |-> kind, steps |-> steps, flag |-> flag]

Created == Event("RunCreated", <<>>, FALSE)

Executed(s, out) ==
    <<Event("EffectIntentCommitted", <<s>>, out),
      Event("EffectExecutionStarted", <<s>>, FALSE)>>

\* A new run; a first start whose outcome is in doubt, and a step planned alone;
\* two steps planned together of which the second already succeeded; a run of
\* an older version.
MCHistories ==
    {<<>>,
     <<Created, Event("StepPlanned", <<s2>>, FALSE), Event("PlanAccepted", <<s1>>, FALSE)>>
        \o Executed(s1, TRUE)
        \o <<Event("EffectBecameUnknown", <<s1>>, FALSE),
             Event("ReconciliationStarted", <<s1>>, FALSE)>>,
     <<Created, Event("PlanAccepted", <<s1, s2>>, FALSE)>>
        \o Executed(s1, TRUE) \o Executed(s2, TRUE)
        \o <<Event("EffectSucceeded", <<s2>>, TRUE), Event("EffectSucceeded", <<s1>>, TRUE)>>,
     <<Created, Event("StepPlanned", <<s1>>, FALSE)>>
        \o Executed(s1, FALSE)
        \o <<Event("EffectSucceeded", <<s1>>, FALSE), Event("VerificationPassed", <<s1>>, FALSE)>>}

Symmetry == Permutations(Conns)
===========================================================================
