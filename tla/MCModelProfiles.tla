--------------------------- MODULE MCModelProfiles ---------------------------
(***************************************************************************)
(* ModelProfiles for TLC: one more name than the file may hold, two        *)
(* servers and a plain http one.                                           *)
(***************************************************************************)
EXTENDS ModelProfiles, TLC

CONSTANTS r1, r2, r3

Saving(u, r) == [url |-> u, ref |-> r]

\* No file, one left empty, and files with one or two profiles.
MCSaved ==
    {None, Empty} \cup
    {[active |-> 1, profiles |-> p] :
        p \in {1 :> Saving("a", r1)}
               \cup {1 :> Saving("a", r1) @@ 2 :> second :
                        second \in {Saving("a", r2), Saving("b", None), Saving("http", None)}}}

\* The URL of one server is longer: two profiles with secrets fill the file.
MCLength == [u \in Urls |-> IF u = "b" THEN 2 ELSE 1]

Symmetry == Permutations(Procs)
=============================================================================
