------------------------------ MODULE MCLocalRun ------------------------------
(***************************************************************************)
(* A run that may write below d and use one tool, resumed with the same    *)
(* flags, without consent to egress or to writing, with a second directory *)
(* or with other limits, while the endpoint plans, completes, times out,   *)
(* limits the rate or proposes a step outside what is authorized.          *)
(***************************************************************************)
EXTENDS LocalRun, TLC

Endpoint ==
    [scheme |-> "https", loopback |-> FALSE, path |-> "/v1", credential |-> TRUE,
     model |-> "m", format |-> "schema", artifact |-> "none", thinking |-> "default",
     tokens |-> 1024, timeout |-> 60]

Full ==
    [egress |-> TRUE, read |-> TRUE, write |-> TRUE, execute |-> TRUE, goal |-> TRUE,
     workspace |-> "w", files |-> <<>>, dirs |-> << <<"d">> >>, executables |-> {"tool"},
     session |-> None, endpoint |-> Endpoint, turns |-> 2, ticks |-> 7]

Quiet == [Full EXCEPT !.egress = FALSE, !.write = FALSE]

\* A limit of no turns is refused for a new run and ignored by a resume, so the
\* last two only ever resume.
Wider == [Full EXCEPT !.dirs = << <<"d">>, <<"o">> >>, !.turns = 0]

Other == [Full EXCEPT !.endpoint.tokens = 2048, !.turns = 0]

MCRequests == {Full, Quiet, Wider, Other}

-----------------------------------------------------------------------------

Planned(key, cap, path, deps) ==
    [key |-> key, cap |-> cap, path |-> path, shape |-> TRUE, artifact |-> TRUE, deps |-> deps]

After(key) == [kind |-> "proposed", step |-> <<>>, key |-> key]

Text == [parses |-> TRUE, unique |-> TRUE, depth |-> 6, typed |-> TRUE]

Content(kind, steps) ==
    [long |-> FALSE, json |-> Text, version |-> 1, kind |-> kind,
     summary |-> kind = "complete", steps |-> steps]

Reached(content) ==
    [sent |-> "ok", status |-> 200, long |-> FALSE, read |-> "ok",
     body |-> [json |-> Text, model |-> "m", models |-> <<"m">>,
               choices |-> <<[index |-> 0, role |-> "assistant", finish |-> "stop",
                              clean |-> TRUE, content |-> content]>>]]

Complete == Reached(Content("complete", <<>>))

Write == Reached(Content("plan", <<Planned("a", "write", <<"d", "x">>, <<>>)>>))

Chain ==
    Reached(Content("plan", <<Planned("a", "process", "tool", <<>>),
                              Planned("b", "read", <<"d">>, <<After("a")>>)>>))

Outside == Reached(Content("plan", <<Planned("a", "write", <<"o", "x">>, <<>>)>>))

Lost == [Complete EXCEPT !.sent = "timeout"]

Limited == [Complete EXCEPT !.status = 429]

MCExchanges == {Complete, Write, Chain, Outside, Lost, Limited}

Symmetry == Permutations(Actors)
=============================================================================
