--------------------------- MODULE MCProcessExecution ---------------------------
(***************************************************************************)
(* One executable, a leader with one descendant, a stream longer than the  *)
(* capture limit and one that is shorter.                                  *)
(***************************************************************************)
EXTENDS ProcessExecution, TLC

Pinned == [target |-> "tool", content |-> "v1", exec |-> TRUE]

MCWorkspace ==
    [id |-> "ws", environment |-> {"LANG"}, executables |-> {"cargo"}]

Snapshot == [id |-> "ws", content |-> "v1", environment |-> {"LANG"}]

MCImages == {Pinned, [Pinned EXCEPT !.content = "v2"]}

Good ==
    [capability |-> "execute", binding |-> Snapshot, syncOnly |-> TRUE, class |-> "NonIdempotent",
     keyed |-> TRUE, executable |-> [workspace |-> "ws", id |-> "cargo"], args |-> <<1, 2>>,
     cwd |-> "dir", env |-> {"CI"}, limits |-> TRUE]

MCRequests ==
    {Good, [Good EXCEPT !.binding.environment = {}], [Good EXCEPT !.executable.id = "rm"],
     [Good EXCEPT !.executable.workspace = "other"], [Good EXCEPT !.args = <<3, 3>>],
     [Good EXCEPT !.cwd = "link"], [Good EXCEPT !.env = {"PATH"}], [Good EXCEPT !.env = {"LANG"}]}

MCChunks == {<<"a", "bad">>, <<"a", "a">>}

MCWritten == [stdout |-> 3, stderr |-> 1]
===============================================================================
