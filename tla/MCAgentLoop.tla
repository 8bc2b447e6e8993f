---------------------------- MODULE MCAgentLoop ----------------------------
(* Model-checking instances of AgentLoop. *)
EXTENDS AgentLoop

\* The one kind of intent local admission issues for a read.
MCShapes ==
    {[class |-> "ReadOnly", guarantee |-> "None", key |-> FALSE,
      provenance |-> TRUE, output |-> TRUE, bound |-> TRUE]}
=============================================================================
