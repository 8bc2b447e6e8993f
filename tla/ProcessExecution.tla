--------------------------- MODULE ProcessExecution ---------------------------
(***************************************************************************)
(* The process adapter: one shell-free execution (xgeny-adapter-process/   *)
(* src/execution.rs) on a workspace with a pinned executable catalog       *)
(* (catalog.rs, lib.rs, path.rs), and the verifier's view of its output    *)
(* (verifier.rs).                                                          *)
(*                                                                         *)
(* Four parties move independently: the process and its descendants, which *)
(* fork, leave the process group, close their output and exit; two reader  *)
(* threads; the thread that polls, kills and waits; and the clock, which   *)
(* is the deadline and the grace period and nothing else.  A byte "bad" is *)
(* not UTF-8 and becomes a replacement of three bytes.                     *)
(***************************************************************************)
EXTENDS Integers, Sequences, FiniteSets, SequencesExt

CONSTANTS Descendants,  \* processes the leader may have below it
          Requests,     \* invocations: contract facts and arguments
          Workspace,    \* the host's choice: [id, executables, environment]
          Images,       \* what may stand at the launch path of an executable
          Chunks,       \* what a process may write at once
          None,
          MaxCapture,   \* maxOutputBytes of the invocation
          MaxWritten,   \* length of a stream after which the processes write no more
          MaxArgs, MaxArgBytes, MaxEnv  \* argument and environment limits

ASSUME ProcessAssumption ==
    /\ {MaxCapture, MaxArgs, MaxArgBytes, MaxEnv} \subseteq Nat
    /\ "leader" \notin Descendants /\ None \notin {"exited", "timed_out"}
    /\ Chunks \subseteq Seq(STRING)

Streams == {"stdout", "stderr"}
Procs == {"leader"} \union Descendants

VARIABLES image,    \* what stands at the launch path: [target, content, exec]
          pinned,   \* the opened workspace: what the catalog pinned, or None
          pc,       \* the polling thread
          req,      \* the prepared invocation
          proc,     \* per process: [state, group, open]
          code,     \* the exit code of the leader: None for a signal
          ran,      \* history: the content that was started
          written,  \* bytes written to each stream
          taken,    \* bytes each reader has read
          reader,   \* each reader thread: "off", "reading", "eof" or "error"
          late,     \* the deadline has passed
          grace,    \* the grace period of the current receive has passed
          ended,    \* Termination: None, "exited" or "timed_out"
          result,   \* what execute returns
          verdict,  \* what the verifier says of it
          replaced, \* history: the image changed after it was verified
          killFails \* history: a kill was refused by the system

vars == <<image, pinned, pc, req, proc, code, ran, written, taken, reader, late, grace, ended, result,
          verdict, replaced, killFails>>

os == <<proc, code, written>>
observed == <<image, pinned, req, ran, replaced, verdict>>

Unborn == [state |-> "unborn", group |-> FALSE, open |-> {}]

Dead == [Unborn EXCEPT !.state = "dead"]

Init ==
    /\ image \in Images /\ pinned = None /\ verdict = None
    /\ pc = "idle" /\ req = None
    /\ proc = [p \in Procs |-> Unborn]
    /\ code = None /\ ran = None
    /\ written = [s \in Streams |-> <<>>]
    /\ taken = [s \in Streams |-> 0]
    /\ reader = [s \in Streams |-> "off"]
    /\ late = FALSE /\ grace = FALSE
    /\ ended = None /\ result = None
    /\ replaced = FALSE /\ killFails = FALSE

-----------------------------------------------------------------------------
(* Catalog, environment and preparation *)

\* open_ambient and ExecutableCatalog::from_paths: the host's executables are
\* resolved, must be executable, and are pinned by target and content.
OpenWorkspace ==
    /\ pc = "idle" /\ pinned = None
    /\ Workspace.executables # {} /\ image.exec
    /\ pinned' = [target |-> image.target, content |-> image.content]
    /\ UNCHANGED <<image, req, ran, replaced, verdict, pc, os, taken, reader, late, grace, ended,
                   result, killFails>>

\* process_binding: the workspace, the content of its executables and the
\* environment they inherit; where an alias leads is not part of it.
Binding == [id |-> Workspace.id, content |-> pinned.content, environment |-> Workspace.environment]

\* ExecutableEntry::verified_path: the alias leads to the pinned target, which
\* is executable and has the pinned content.
VerifiedPath(id) ==
    /\ id \in Workspace.executables
    /\ image.target = pinned.target
    /\ image.exec
    /\ image.content = pinned.content

\* parse_resource: a bare identifier, or one under this workspace.
ExecutableResource(r) == r.workspace \in {None, Workspace.id} /\ r.id # ""

ArgsOk(args) ==
    /\ Len(args) <= MaxArgs
    /\ FoldLeft(LAMBDA n, a : n + a, 0, args) <= MaxArgBytes

Protected == {"PATH", "HOME", "LD_PRELOAD"}

\* merge_model_environment adds names, and never touches the host's own.
EnvironmentOk(env) ==
    /\ Cardinality(env) <= MaxEnv
    /\ env \intersect (Protected \union Workspace.environment) = {}

\* resolve_cwd: no link on the way, and the path leads to the same directory.
CwdOk(cwd) == cwd = "dir"

\* verify_adapter_contract.
ContractOk(r) ==
    /\ r.capability = "execute"
    /\ r.binding = Binding
    /\ r.syncOnly /\ r.class = "NonIdempotent" /\ r.keyed

\* parse_arguments.
ArgumentsOk(r) ==
    /\ ExecutableResource(r.executable) /\ VerifiedPath(r.executable.id)
    /\ ArgsOk(r.args) /\ CwdOk(r.cwd) /\ EnvironmentOk(r.env)
    /\ r.limits

Prepare ==
    /\ pc = "idle" /\ pinned # None
    /\ \E r \in Requests :
         /\ ContractOk(r) /\ ArgumentsOk(r)
         /\ req' = r
    /\ pc' = "spawn"
    /\ replaced' = FALSE
    /\ UNCHANGED <<image, pinned, verdict, os, ran, taken, reader, late, grace, ended, result, killFails>>

\* Someone installs another file under the launch path.
Replace ==
    /\ pc \in {"idle", "spawn"} /\ ~replaced
    /\ image' \in Images \ {image}
    /\ replaced' = TRUE
    /\ UNCHANGED <<pinned, verdict, pc, req, os, ran, taken, reader, late, grace, ended, result,
                   killFails>>

-----------------------------------------------------------------------------
(* The processes *)

Live(p) == proc[p].state = "live"
Holders(s) == {p \in Procs : Live(p) /\ s \in proc[p].open}

Fork(d) ==
    /\ proc[d].state = "unborn"
    /\ \E p \in Procs : Live(p) /\ proc' = [proc EXCEPT ![d] = proc[p]]
    /\ UNCHANGED <<observed, pc, code, written, taken, reader, late, grace, ended, result, killFails>>

\* setsid: a kill of the group does not reach this process any more.
LeaveGroup(d) ==
    /\ Live(d) /\ proc[d].group
    /\ proc' = [proc EXCEPT ![d].group = FALSE]
    /\ UNCHANGED <<observed, pc, code, written, taken, reader, late, grace, ended, result, killFails>>

CloseOutput(p) ==
    /\ Live(p) /\ proc[p].open # {}
    /\ proc' = [proc EXCEPT ![p].open = {}]
    /\ UNCHANGED <<observed, pc, code, written, taken, reader, late, grace, ended, result, killFails>>

WriteOutput(s) ==
    /\ Holders(s) # {} /\ Len(written[s]) < MaxWritten[s]
    /\ \E c \in Chunks : written' = [written EXCEPT ![s] = @ \o c]
    /\ UNCHANGED <<observed, pc, proc, code, taken, reader, late, grace, ended, result, killFails>>

Exit(p) ==
    /\ Live(p)
    /\ proc' = [proc EXCEPT ![p] = Dead]
    /\ \E c \in {0, 1} : code' = IF p = "leader" THEN c ELSE code
    /\ UNCHANGED <<observed, pc, written, taken, reader, late, grace, ended, result, killFails>>

DeadlinePasses ==
    /\ pc \in {"start", "poll"} /\ ~late
    /\ late' = TRUE
    /\ UNCHANGED <<observed, pc, os, taken, reader, grace, ended, result, killFails>>

-----------------------------------------------------------------------------
(* The reader threads *)

\* capture_reader takes everything there is, and ends when no process has the
\* stream open any more.
ReadMore(s) ==
    /\ reader[s] = "reading" /\ taken[s] < Len(written[s])
    /\ taken' = [taken EXCEPT ![s] = Len(written[s])]
    /\ UNCHANGED <<observed, pc, os, reader, late, grace, ended, result, killFails>>

ReadEnds(s) ==
    /\ reader[s] = "reading"
    /\ \/ /\ taken[s] = Len(written[s]) /\ Holders(s) = {}
          /\ reader' = [reader EXCEPT ![s] = "eof"]
       \/ reader' = [reader EXCEPT ![s] = "error"]
    /\ UNCHANGED <<observed, pc, os, taken, late, grace, ended, result, killFails>>

Lossy(bytes) == FlattenSeq([i \in DOMAIN bytes |->
                    IF bytes[i] = "bad" THEN <<"r1", "r2", "r3">> ELSE <<bytes[i]>>])

\* A cut may not fall inside a replacement.
Boundary(content, n) == n = 0 \/ n = Len(content) \/ content[n + 1] \notin {"r2", "r3"}

\* What capture_reader keeps of the bytes it took: the first MaxCapture, as
\* text that is cut again when the replacements make it longer.
Captured(bytes) ==
    LET kept == SubSeq(bytes, 1, IF Len(bytes) > MaxCapture THEN MaxCapture ELSE Len(bytes))
        content == Lossy(kept)
        ends == {n \in 0..MaxCapture : n <= Len(content) /\ Boundary(content, n)}
        cut == CHOOSE n \in ends : \A m \in ends : m <= n
    IN [content |-> SubSeq(content, 1, cut),
        truncated |-> Len(bytes) > MaxCapture \/ Len(content) > MaxCapture]

-----------------------------------------------------------------------------
(* run_process *)

Output(outcome, exit, out, err) ==
    [outcome |-> outcome, success |-> exit = 0, exitCode |-> exit, stdout |-> out,
     stderr |-> err]

\* inspect_output, for build_output and for the verifier.
OutputAccepted(o) ==
    /\ o.outcome \in {"exited", "timed_out", "launch_failed"}
    /\ o.outcome = "exited" => o.success = (o.exitCode = 0)
    /\ o.outcome # "exited" => ~o.success /\ o.exitCode = None
    /\ \A s \in {o.stdout, o.stderr} : Len(s.content) <= MaxCapture

Returned(r) == pc' = "returned" /\ result' = r
Unknown(reason) == [kind |-> "Unknown", reason |-> reason, output |-> None]
Accepted(o) ==
    IF OutputAccepted(o) THEN [kind |-> "Succeeded", reason |-> None, output |-> o]
    ELSE Unknown("ResponseUnverifiable")

Nothing == Captured(<<>>)

Spawn ==
    /\ pc = "spawn"
    /\ \/ /\ Returned(Accepted(Output("launch_failed", None, Nothing, Nothing)))
          /\ UNCHANGED <<proc, ran>>
       \/ /\ pc' = "start"
          /\ proc' = [proc EXCEPT !["leader"] = [state |-> "live", group |-> TRUE, open |-> Streams]]
          /\ ran' = image.content
          /\ UNCHANGED result
    /\ UNCHANGED <<image, pinned, verdict, req, replaced, code, written, taken, reader, late, grace,
                   ended, killFails>>

\* start_kill reaches every member of the group or is refused; wait collects
\* the leader.
Killed == [p \in Procs |-> IF Live(p) /\ proc[p].group THEN Dead ELSE proc[p]]
CodeAfterKill == IF Live("leader") THEN None ELSE code

KillSucceeds == proc' = Killed /\ code' = CodeAfterKill /\ UNCHANGED killFails
KillRefused == \E p \in Procs : Live(p) /\ proc[p].group /\ killFails' = TRUE /\ UNCHANGED <<proc, code>>

\* Slip: the tree is left alone.
NoTerminate == UNCHANGED <<proc, code, killFails>>

TerminateProcessTree == KillSucceeds \/ KillRefused

\* Both readers are started; a thread that cannot be started ends the call.
StartCapture ==
    /\ pc = "start"
    /\ \/ /\ reader' = [s \in Streams |-> "reading"]
          /\ pc' = "poll"
          /\ UNCHANGED <<proc, code, result, killFails>>
       \/ /\ TerminateProcessTree
          /\ Returned(Unknown("AdapterTerminated"))
          /\ \E started \in {{}, {"stdout"}} :
               reader' = [s \in Streams |-> IF s \in started THEN "reading" ELSE "off"]
    /\ UNCHANGED <<observed, written, taken, late, grace, ended>>

\* Slip: the loop waits for the leader however long it takes.
PollForever ==
    /\ pc = "poll"
    /\ ~Live("leader") /\ pc' = "reap"
    /\ UNCHANGED <<observed, os, taken, reader, late, grace, ended, result, killFails>>

\* try_wait finds the leader gone, or still there with the deadline passed.
Poll ==
    /\ pc = "poll"
    /\ \/ ~Live("leader") /\ pc' = "reap"
       \/ Live("leader") /\ late /\ pc' = "kill"
    /\ UNCHANGED <<observed, os, taken, reader, late, grace, ended, result, killFails>>

\* try_wait cannot tell.
PollFails ==
    /\ pc = "poll"
    /\ TerminateProcessTree
    /\ Returned(Unknown("TransportOutcomeUnknown"))
    /\ UNCHANGED <<observed, written, taken, reader, late, grace, ended>>

\* The leader is gone: its descendants do not outlive it.
ReapTree ==
    /\ pc = "reap"
    /\ TerminateProcessTree
    /\ ended' = "exited" /\ pc' = "receive stdout"
    /\ UNCHANGED <<observed, written, taken, reader, late, grace, result>>

\* The deadline has passed, though the leader may have ended since the poll.  When
\* the kill or its wait fails, try_wait is asked once more.
KillTree ==
    /\ pc = "kill"
    /\ \/ /\ KillSucceeds
          /\ \E waits \in BOOLEAN : ended' = IF waits THEN "timed_out" ELSE "exited"
          /\ pc' = "receive stdout" /\ UNCHANGED result
       \/ /\ KillRefused /\ ~Live("leader")
          /\ ended' = "exited" /\ pc' = "receive stdout" /\ UNCHANGED result
       \/ /\ KillRefused /\ Live("leader")
          /\ Returned(Unknown("TransportOutcomeUnknown")) /\ UNCHANGED ended
    /\ UNCHANGED <<observed, written, taken, reader, late, grace>>

Receiving == [stdout |-> "receive stdout", stderr |-> "receive stderr"]

GracePasses ==
    /\ pc \in Range(Receiving) /\ ~grace
    /\ grace' = TRUE
    /\ UNCHANGED <<observed, pc, os, taken, reader, late, ended, result, killFails>>

Capture(s) == Captured(SubSeq(written[s], 1, taken[s]))

Finished ==
    Accepted(IF ended = "exited" THEN Output("exited", code, Capture("stdout"), Capture("stderr"))
             ELSE Output("timed_out", None, Capture("stdout"), Capture("stderr")))

\* Slip: after the grace period what was read so far is taken for the output.
ReceivePartial(s) ==
    /\ pc = Receiving[s]
    /\ \/ /\ (reader[s] = "eof" \/ grace)
          /\ IF s = "stdout" THEN pc' = "receive stderr" /\ UNCHANGED result
             ELSE Returned(Finished)
       \/ /\ reader[s] = "error"
          /\ Returned(Unknown("ResponseUnverifiable"))
    /\ grace' = FALSE
    /\ UNCHANGED <<observed, os, taken, reader, late, ended, killFails>>

\* recv_timeout: the capture, its error, or the end of the grace period.
Receive(s) ==
    /\ pc = Receiving[s]
    /\ \/ /\ reader[s] = "eof"
          /\ IF s = "stdout" THEN pc' = "receive stderr" /\ UNCHANGED result
             ELSE Returned(Finished)
       \/ /\ (reader[s] = "error" \/ grace)
          /\ Returned(Unknown("ResponseUnverifiable"))
    /\ grace' = FALSE
    /\ UNCHANGED <<observed, os, taken, reader, late, ended, killFails>>

\* ProcessExecuteVerifier: the stored output must be there and have the shape
\* an execution produces; there is one required rule, the output schema.
Verify ==
    /\ pc = "returned" /\ result.kind = "Succeeded" /\ verdict = None
    /\ verdict' = IF ~ContractOk(req) THEN "UnsupportedStrategy"
                  ELSE IF OutputAccepted(result.output) THEN "Passed" ELSE "ResponseUnverifiable"
    /\ UNCHANGED <<image, pinned, req, ran, replaced, pc, os, taken, reader, late, grace, ended, result,
                   killFails>>

\* What the thread does by itself.  That try_wait fails is nothing it is owed.
Thread == Spawn \/ StartCapture \/ Poll \/ ReapTree \/ KillTree \/ \E s \in Streams : Receive(s)

Next ==
    \/ OpenWorkspace \/ Prepare \/ Replace \/ Verify
    \/ \E d \in Descendants : Fork(d) \/ LeaveGroup(d)
    \/ \E p \in Procs : CloseOutput(p) \/ Exit(p)
    \/ \E s \in Streams : WriteOutput(s) \/ ReadMore(s) \/ ReadEnds(s)
    \/ DeadlinePasses \/ GracePasses
    \/ Spawn \/ StartCapture \/ Poll \/ PollFails \/ ReapTree \/ KillTree
    \/ \E s \in Streams : Receive(s)

\* The polling thread and the clock go on; the processes owe nothing, and the
\* readers may be stuck behind them.
Spec == Init /\ [][Next]_vars /\ WF_vars(Thread) /\ WF_vars(DeadlinePasses) /\ WF_vars(GracePasses)

-----------------------------------------------------------------------------
(* Properties *)

\* An accepted output says what happened: an exit code is the leader's own, a
\* timeout passed the deadline, a stream that is not marked truncated is all
\* that was ever written to it, and what ran is the content the admitted request
\* was bound to, unless the file was replaced after it was verified.  What is
\* accepted the verifier confirms.
ResultIsTrue ==
    result # None /\ result.kind = "Succeeded" =>
        LET o == result.output IN
        /\ verdict \in {None, "Passed"}
        /\ o.exitCode # None => ~Live("leader") /\ code = o.exitCode
        /\ o.outcome = "timed_out" => late
        /\ o.outcome # "launch_failed" =>
             /\ ~o.stdout.truncated => o.stdout.content = Lossy(written["stdout"])
             /\ ~o.stderr.truncated => o.stderr.content = Lossy(written["stderr"])
             /\ ran = req.binding.content \/ replaced

\* Once the call has returned, with whatever result, no process of the group
\* is left, unless the system refused the kill.
NoStragglers ==
    pc = "returned" => killFails \/ \A p \in Procs : Live(p) => ~proc[p].group

\* An execution that was prepared returns, whatever its processes do: the
\* deadline ends the wait for the leader, the grace period that for its output.
ExecutionReturns == pc = "spawn" ~> pc = "returned"
===============================================================================
