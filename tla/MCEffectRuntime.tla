-------------------------- MODULE MCEffectRuntime --------------------------
(* Model-checking instances of EffectRuntime. *)
EXTENDS EffectRuntime

Write(guarantee, out) ==
    [class |-> "NonIdempotent", guarantee |-> guarantee, key |-> TRUE,
     provenance |-> TRUE, output |-> out, bound |-> TRUE]

\* A sink without guarantees, whose call may outlive the process; a sink that
\* can be queried, without and with an output to deliver.
MCShapes == {Write("None", TRUE), Write("QueryByKey", FALSE), Write("QueryByKey", TRUE)}

\* One host has everything; the other lost an adapter of one step, and the
\* instance and the verifier of the rest.
MCLacks ==
    LET complete == CHOOSE p \in Procs : TRUE
        first == CHOOSE s \in Steps : TRUE
    IN  [p \in Procs |-> IF p = complete THEN {} ELSE
            {t \in Steps \X Stages : t[1] = first <=> t[2] = "execute"}]
=============================================================================
