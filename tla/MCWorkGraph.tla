---------------------------- MODULE MCWorkGraph ----------------------------
(* Model-checking instance of WorkGraph. *)
EXTENDS WorkGraph, TLC

Shaped(class, guarantee, key, provenance, out, bound) ==
    [class |-> class, guarantee |-> guarantee, key |-> key,
     provenance |-> provenance, output |-> out, bound |-> bound]

\* A queryable write, a write that owes an output record, a read, and an intent
\* that claims a guarantee without a key.
MCShapes ==
    {Shaped("NonIdempotent", "QueryByKey", TRUE, TRUE, FALSE, TRUE),
     Shaped("Idempotent", "DeduplicateByKey", TRUE, TRUE, TRUE, TRUE),
     Shaped("ReadOnly", "None", FALSE, TRUE, FALSE, TRUE),
     Shaped("NonIdempotent", "QueryByKey", FALSE, FALSE, FALSE, FALSE)}

\* Step ids, effect ids and action digests are opaque.
Symmetry == Permutations(Steps) \cup Permutations(Effects) \cup Permutations(Actions)
=============================================================================
