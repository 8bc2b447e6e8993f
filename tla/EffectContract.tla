--------------------------- MODULE EffectContract ---------------------------
(***************************************************************************)
(* What the effect runtime promises for every step, told without journals, *)
(* leases, crashes or queries: the outside world sees the effect at most   *)
(* once; a step is Completed only after the world saw it; once a step is   *)
(* Completed or Failed the world is quiet.  Only a step that was handed to *)
(* a person may still take effect late.                                    *)
(***************************************************************************)
EXTENDS Naturals

CONSTANT Steps

VARIABLES
    world,      \* times the effect of a step took place
    verdict     \* what the run says of the step

vars == <<world, verdict>>

Verdicts == {"Open", "Completed", "Failed", "Manual"}

Init ==
    /\ world = [s \in Steps |-> 0]
    /\ verdict = [s \in Steps |-> "Open"]

Apply(s) ==
    /\ verdict[s] \in {"Open", "Manual"}
    /\ world[s] = 0
    /\ world' = [world EXCEPT ![s] = 1]
    /\ UNCHANGED verdict

Conclude(s, v) ==
    /\ verdict[s] = "Open"
    /\ v = "Completed" => world[s] = 1
    /\ verdict' = [verdict EXCEPT ![s] = v]
    /\ UNCHANGED world

Next == \E s \in Steps : Apply(s) \/ \E v \in Verdicts \ {"Open"} : Conclude(s, v)

Spec == Init /\ [][Next]_vars
=============================================================================
