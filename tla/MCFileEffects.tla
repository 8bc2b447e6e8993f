----------------------------- MODULE MCFileEffects -----------------------------
(***************************************************************************)
(* A workspace with a directory, a file beside it whose name sorts between *)
(* the directory and what is in it, and a file below; two hosts, one of    *)
(* them built for Unix.                                                    *)
(***************************************************************************)
EXTENDS FileEffects

MCPaths == {<<>>, <<"d">>, <<"d-e">>, <<"d", "f">>, <<"a:b">>}
MCDisplayOrder == << <<>>, <<"a:b">>, <<"d">>, <<"d-e">>, <<"d", "f">> >>
MCNameOrder == <<"a:b", "d", "d-e", "f">>

Dir == [kind |-> "dir", text |-> <<>>, mode |-> 1, synced |-> TRUE]
File(text, mode) == [kind |-> "file", text |-> text, mode |-> mode, synced |-> TRUE]
Link == [kind |-> "link", text |-> <<>>, mode |-> 1, synced |-> TRUE]

T1 == <<"x", "y", "x">>
T2 == <<"y">>
T3 == <<"x", "x", "x">>

MCTexts == UNION {[1..n -> {"x", "y", "\n", "bad"}] : n \in 0..MaxText}

Tree(de, f, odd) ==
    (<<>> :> Dir) @@ (<<"d">> :> Dir) @@ (<<"d-e">> :> de) @@ (<<"d", "f">> :> f) @@ (<<"a:b">> :> odd)

MCTrees == {Tree(File(<<"\n", "x">>, 1), File(T1, 2), Absent),
            Tree(File(<<"x", "x">>, 1), File(T3, 1), Absent),
            Tree(Link, Absent, File(T2, 1)),
            Tree(File(T3, 1), File(<<"\n", "x", "x">>, 1), Absent)}

MCEditNodes == {File(T1, 1), File(T1, 2), File(<<"bad">>, 2), Absent}

Ask(op, parts) ==
    [op |-> op, capability |-> op, binding |-> [workspace |-> This, operation |-> op],
     syncOnly |-> TRUE, class |-> IF op \in Mutations THEN "Idempotent" ELSE "ReadOnly",
     keyed |-> op \in Mutations, path |-> [root |-> This, parts |-> parts],
     rules |-> <<"output-schema", "postcondition">>]

Write(parts, expected, text) == Ask("write-atomic", parts) @@ [expected |-> expected, text |-> text]
Patch(parts, expected, edits) == Ask("apply-patch", parts) @@ [expected |-> expected, edits |-> edits]
Search(parts, query) == Ask("search-text", parts) @@ [query |-> query]

F == <<"d", "f">>

MCRequests ==
    {Write(F, None, T2), Write(F, T1, T2),
     Patch(F, T1, <<[old |-> <<"y", "x">>, new |-> <<"y">>], [old |-> <<"x", "y">>, new |-> <<>>]>>),
     Patch(F, T1, <<[old |-> <<"y">>, new |-> <<"x">>]>>),
     Patch(F, T1, <<[old |-> <<"x">>, new |-> <<"y">>]>>),
     Patch(<<"d-e">>, <<"\n", "x">>,
           <<[old |-> <<"x">>, new |-> <<"y">>], [old |-> <<"\n">>, new |-> <<>>]>>),
     Ask("read-text", F), [Ask("stat", <<>>) EXCEPT !.rules = <<"output-schema">>], Ask("stat", F), Ask("stat", <<"d">>),
     Ask("list-directory", <<>>), Ask("list-directory", <<"d">>),
     Search(<<>>, <<"x">>), Search(<<>>, <<"x", "x">>),
     [Write(F, T1, T2) EXCEPT !.binding.workspace = "other"],
     [Write(F, T1, T2) EXCEPT !.path.root = "other"],
     Write(<<>>, None, T2), Search(<<>>, <<"\n">>), Search(F, <<"x">>)}

\* Checked for every patch of MCRequests on every text.
ASSUME EditsAreExactHere == EditsAreExact
===============================================================================
