------------------------ MODULE ProcessExecutionProofs ------------------------
(***************************************************************************)
(* Theorems about the process adapter, for any number of descendants and   *)
(* any output: what an execution returns is what happened, and no process  *)
(* of the group outlives the call unless the system refused the kill.      *)
(***************************************************************************)
EXTENDS ProcessExecution, WellFoundedInduction, SequenceTheorems, TLAPS

-----------------------------------------------------------------------------
(* The inductive invariant *)

Receives == {"receive stdout", "receive stderr"}
Running == {"start", "poll", "reap", "kill"} \cup Receives

\* The bytes of a stream and of its text.
Char == STRING \cup {"r1", "r2", "r3"}

Processes == [state : {"unborn", "live", "dead"}, group : BOOLEAN, open : SUBSET Streams]

TypeOK ==
    /\ proc \in [Procs -> Processes]
    /\ written \in [Streams -> Seq(Char)]
    /\ taken \in [Streams -> Nat]
    /\ reader \in [Streams -> {"off", "reading", "eof", "error"}]
    /\ pc \in {"idle", "spawn", "returned"} \cup Running

\* Before the spawn there is no process, and before the readers are started
\* none of them has read anything.
BeforeStart ==
    /\ pc \in {"idle", "spawn"} => code = None /\ \A p \in Procs : proc[p].state = "unborn"
    /\ pc \in {"idle", "spawn", "start"} => reader = [s \in Streams |-> "off"]

\* A reader at its end has read everything, and nobody is left to write more.
ReadersInv ==
    /\ \A s \in Streams : reader[s] = "eof" =>
         /\ taken[s] = Len(written[s])
         /\ \A p \in Procs : proc[p].state = "live" => s \notin proc[p].open
    /\ pc = "receive stderr" => reader["stdout"] = "eof"

\* An exit code is that of a leader that is gone, and a timeout comes after the
\* deadline.
ExitInv ==
    /\ code # None => proc["leader"].state = "dead"
    /\ pc = "kill" \/ ended = "timed_out" => late
    /\ pc \in Receives => ended \in {"exited", "timed_out"}

\* What is started is what was verified, or it was replaced since.
BoundInv ==
    /\ pc # "idle" => ContractOk(req)
    /\ pc = "spawn" => replaced \/ image.content = req.binding.content
    /\ pc \in Running => replaced \/ ran = req.binding.content

\* Once the tree is terminated the group stays empty.
GroupGone == \A p \in Procs : proc[p].state = "live" => ~proc[p].group
GroupInv == pc \in Receives \cup {"returned"} => killFails \/ GroupGone

\* A result exists once the call has returned; an accepted one has both streams
\* to their end.
ReturnInv ==
    /\ pc # "returned" => result = None /\ verdict = None
    /\ pc = "returned" => result.kind \in {"Succeeded", "Unknown"}
    /\ pc = "returned" /\ result.kind = "Succeeded" =>
         /\ OutputAccepted(result.output)
         /\ result.output.outcome # "launch_failed" => \A s \in Streams : reader[s] = "eof"

Inv == BeforeStart /\ ReadersInv /\ ExitInv /\ BoundInv /\ GroupInv /\ ReturnInv

-----------------------------------------------------------------------------
(* The text of a stream *)

\* A nonempty set of numbers has a least one.
LEMMA LeastNumber ==
  ASSUME NEW N, N \subseteq Nat, N # {}
  PROVE  \E x \in N : \A y \in N : x <= y
  <1>1. PICK x \in N : \A y \in N : ~ (<<y, x>> \in OpToRel(<, Nat))
    BY NatLessThanWellFounded, WFMin
  <1>2. \A y \in N : <<y, x>> \in Nat \X Nat
    OBVIOUS
  <1>3. \A y \in N : ~ (y < x)
    BY <1>1, <1>2 DEF OpToRel
  <1> QED
    BY <1>3

\* g satisfies the recursion of FlattenSeq(seqs) up to n.
FlatRec(seqs, n, g) == g = [i \in 1..n |-> IF i = 1 THEN seqs[i] ELSE g[i - 1] \o seqs[i]]

\* The recursion has a solution.
LEMMA FlatExists ==
  ASSUME NEW T, NEW seqs, NEW N \in Nat, \A i \in 1..N : seqs[i] \in Seq(T)
  PROVE  \E g : FlatRec(seqs, N, g)
  <1> DEFINE Bad == {n \in 0..N : ~ \E g : FlatRec(seqs, n, g)}
  <1>1. SUFFICES ASSUME Bad # {} PROVE FALSE
    OBVIOUS
  <1>2. PICK n \in Bad : \A m \in Bad : n <= m
    <2>1. Bad \subseteq Nat
      OBVIOUS
    <2> HIDE DEF Bad
    <2> QED
      BY <1>1, <2>1, LeastNumber
  <1>3. n # 0
    <2>1. FlatRec(seqs, 0, [i \in 1..0 |-> 0])
      BY DEF FlatRec
    <2> QED
      BY <1>2, <2>1
  <1>4. n - 1 \in 0..N /\ n - 1 \notin Bad
    BY <1>2, <1>3
  <1>5. PICK g : FlatRec(seqs, n - 1, g)
    BY <1>4
  <1> DEFINE h == [i \in 1..n |-> IF i = n THEN (IF n = 1 THEN seqs[n] ELSE g[n - 1] \o seqs[n]) ELSE g[i]]
  <1>6. h = [i \in 1..n |-> IF i = 1 THEN seqs[i] ELSE h[i - 1] \o seqs[i]]
    <2>1. g = [i \in 1..(n - 1) |-> IF i = 1 THEN seqs[i] ELSE g[i - 1] \o seqs[i]]
      BY <1>5 DEF FlatRec
    <2>2. ASSUME NEW i \in 1..n
          PROVE  h[i] = IF i = 1 THEN seqs[i] ELSE h[i - 1] \o seqs[i]
      <3>1. CASE i = n
        BY <1>2, <1>3, <3>1
      <3>2. CASE i # n
        <4>1. i \in 1..(n - 1) /\ (i # 1 => i - 1 \in 1..n /\ i - 1 # n)
          BY <1>2, <3>2
        <4>2. g[i] = IF i = 1 THEN seqs[i] ELSE g[i - 1] \o seqs[i]
          BY <2>1, <4>1
        <4> QED
          BY <3>2, <4>1, <4>2
      <3> QED
        BY <3>1, <3>2
    <2> QED
      BY <2>2
  <1>7. FlatRec(seqs, n, h)
    BY <1>6 DEF FlatRec
  <1> QED
    BY <1>2, <1>7

\* Flattening sequences of texts gives a text.
LEMMA FlattenType ==
  ASSUME NEW T, NEW seqs \in Seq(Seq(T))
  PROVE  FlattenSeq(seqs) \in Seq(T)
  <1> DEFINE n == Len(seqs)
  <1> DEFINE f == CHOOSE g : g = [i \in 1..n |-> IF i = 1 THEN seqs[i] ELSE g[i - 1] \o seqs[i]]
  <1>1. n \in Nat /\ \A i \in 1..n : seqs[i] \in Seq(T)
    OBVIOUS
  <1>2. CASE n = 0
    <2>1. FlattenSeq(seqs) = seqs /\ seqs = << >>
      BY <1>2 DEF FlattenSeq
    <2> QED
      BY <2>1
  <1>3. CASE n # 0
    <2>1. FlattenSeq(seqs) = f[n]
      BY <1>3 DEF FlattenSeq
    <2>2. \E g : g = [i \in 1..n |-> IF i = 1 THEN seqs[i] ELSE g[i - 1] \o seqs[i]]
      <3>1. PICK g : FlatRec(seqs, n, g)
        <4> HIDE DEF n
        <4> QED
          BY <1>1, FlatExists
      <3>2. g = [i \in 1..n |-> IF i = 1 THEN seqs[i] ELSE g[i - 1] \o seqs[i]]
        BY <3>1 DEF FlatRec
      <3> QED
        BY <3>2
    <2>3. f = [i \in 1..n |-> IF i = 1 THEN seqs[i] ELSE f[i - 1] \o seqs[i]]
      BY <2>2
    <2> HIDE DEF f
    <2> DEFINE Bad == {i \in 1..n : f[i] \notin Seq(T)}
    <2>4. Bad = {}
      <3>0. SUFFICES ASSUME Bad # {} PROVE FALSE
        OBVIOUS
      <3>1. PICK i \in Bad : \A m \in Bad : i <= m
        <4>1. Bad \subseteq Nat
          BY <1>1
        <4> HIDE DEF Bad
        <4> QED
          BY <3>0, <4>1, LeastNumber
      <3>2. i \in 1..n /\ f[i] \notin Seq(T) /\ f[i] = IF i = 1 THEN seqs[i] ELSE f[i - 1] \o seqs[i]
        BY <2>3, <3>1
      <3>3. i # 1
        BY <1>1, <3>2
      <3>4. i - 1 \in 1..n /\ i - 1 \notin Bad
        BY <1>1, <3>1, <3>2, <3>3
      <3>5. f[i - 1] \in Seq(T) /\ seqs[i] \in Seq(T)
        BY <1>1, <3>2, <3>4
      <3> QED
        BY <3>2, <3>3, <3>5
    <2>5. n \in 1..n
      BY <1>1, <1>3
    <2> QED
      BY <2>1, <2>4, <2>5
  <1> QED
    BY <1>2, <1>3

\* Lossy decoding gives a text.
LEMMA LossyType ==
  ASSUME NEW bytes \in Seq(Char)
  PROVE  Lossy(bytes) \in Seq(Char)
  <1> DEFINE seqs == [i \in DOMAIN bytes |->
                        IF bytes[i] = "bad" THEN <<"r1", "r2", "r3">> ELSE <<bytes[i]>>]
  <1>1. DOMAIN bytes = 1..Len(bytes) /\ \A i \in DOMAIN bytes : bytes[i] \in Char
    OBVIOUS
  <1>2. ASSUME NEW i \in DOMAIN bytes PROVE seqs[i] \in Seq(Char)
    <2>1. <<"r1", "r2", "r3">> \in Seq(Char)
      BY DEF Char
    <2>2. <<bytes[i]>> \in Seq(Char)
      BY <1>1
    <2> QED
      BY <2>1, <2>2
  <1>3. seqs \in Seq(Seq(Char))
    <2>1. seqs \in [1..Len(bytes) -> Seq(Char)] /\ Len(bytes) \in Nat
      BY <1>1, <1>2
    <2> HIDE DEF seqs
    <2> QED
      BY <2>1
  <1>4. FlattenSeq(seqs) \in Seq(Char)
    <2> HIDE DEF seqs
    <2> QED
      BY <1>3, FlattenType
  <1> QED
    BY <1>4 DEF Lossy

\* A capture that is not marked truncated is the whole text.
LEMMA CapturedWhole ==
  ASSUME NEW bytes \in Seq(Char), ~Captured(bytes).truncated
  PROVE  Captured(bytes).content = Lossy(bytes)
  <1> DEFINE kept == SubSeq(bytes, 1, IF Len(bytes) > MaxCapture THEN MaxCapture ELSE Len(bytes))
  <1> DEFINE content == Lossy(kept)
  <1> DEFINE ends == {n \in 0..MaxCapture : n <= Len(content) /\ Boundary(content, n)}
  <1> DEFINE cut == CHOOSE n \in ends : \A m \in ends : m <= n
  <1>1. /\ Captured(bytes).content = SubSeq(content, 1, cut)
        /\ Captured(bytes).truncated = (Len(bytes) > MaxCapture \/ Len(content) > MaxCapture)
    BY DEF Captured
  <1>2. MaxCapture \in Nat
    BY ProcessAssumption
  <1>3. ~(Len(bytes) > MaxCapture)
    BY <1>1
  <1>4. kept = bytes
    BY <1>3
  <1>5. content \in Seq(Char) /\ content = Lossy(bytes)
    BY <1>4, LossyType
  <1>6. ~(Len(content) > MaxCapture)
    BY <1>1
  <1> HIDE DEF content, kept
  <1>7. Len(content) \in 0..MaxCapture /\ Len(content) \in Nat
    BY <1>2, <1>5, <1>6
  <1>8. Len(content) \in ends /\ \A m \in ends : m <= Len(content)
    BY <1>7 DEF Boundary
  <1>9. cut \in ends /\ \A m \in ends : m <= cut
    BY <1>8
  <1>10. cut = Len(content)
    BY <1>7, <1>8, <1>9
  <1>11. SubSeq(content, 1, Len(content)) = content
    BY <1>5
  <1> QED
    BY <1>1, <1>5, <1>10, <1>11

-----------------------------------------------------------------------------
(* Types *)

\* A chunk is a text.
LEMMA ChunkType ==
  ASSUME NEW c \in Chunks
  PROVE  c \in Seq(Char)
  <1>1. c \in Seq(STRING)
    BY ProcessAssumption
  <1> QED
    BY <1>1 DEF Char

\* A kill, or its refusal, leaves every process well formed.
LEMMA KillType ==
  ASSUME TypeOK, TerminateProcessTree
  PROVE  proc' \in [Procs -> Processes]
  <1>1. CASE KillSucceeds
    BY <1>1 DEF TypeOK, KillSucceeds, Killed, Processes, Unborn, Dead, Live
  <1>2. CASE KillRefused
    BY <1>2 DEF TypeOK, KillRefused
  <1> QED
    BY <1>1, <1>2 DEF TerminateProcessTree

\* Initially nothing has been started, written or read.
LEMMA TypeInit == Init => TypeOK
  <1> SUFFICES ASSUME Init PROVE TypeOK
    OBVIOUS
  <1>1. << >> \in Seq(Char)
    OBVIOUS
  <1> QED
    BY <1>1 DEF Init, TypeOK, Unborn, Processes

\* The steps of the processes keep the types.
LEMMA ProcessesType ==
  ASSUME TypeOK,
         \/ \E d \in Descendants : Fork(d) \/ LeaveGroup(d)
         \/ \E p \in Procs : CloseOutput(p) \/ Exit(p)
         \/ \E s \in Streams : WriteOutput(s)
  PROVE  TypeOK'
  <1>1. ASSUME NEW d \in Descendants, Fork(d) PROVE TypeOK'
    <2>1. PICK p \in Procs : proc' = [proc EXCEPT ![d] = proc[p]]
      BY <1>1 DEF Fork
    <2> QED
      BY <1>1, <2>1 DEF Fork, TypeOK, Procs
  <1>2. ASSUME NEW d \in Descendants, LeaveGroup(d) PROVE TypeOK'
    BY <1>2 DEF LeaveGroup, TypeOK, Procs, Processes
  <1>3. ASSUME NEW p \in Procs, CloseOutput(p) PROVE TypeOK'
    BY <1>3 DEF CloseOutput, TypeOK, Processes
  <1>4. ASSUME NEW p \in Procs, Exit(p) PROVE TypeOK'
    BY <1>4 DEF Exit, TypeOK, Processes, Unborn, Dead
  <1>5. ASSUME NEW s \in Streams, WriteOutput(s) PROVE TypeOK'
    <2>1. PICK c \in Chunks : written' = [written EXCEPT ![s] = @ \o c]
      BY <1>5 DEF WriteOutput
    <2>2. c \in Seq(Char)
      BY ChunkType
    <2>3. written' \in [Streams -> Seq(Char)]
      BY <2>1, <2>2 DEF TypeOK
    <2> QED
      BY <1>5, <2>3 DEF WriteOutput, TypeOK
  <1> QED
    BY <1>1, <1>2, <1>3, <1>4, <1>5

\* So do those of the readers and of the polling thread.
LEMMA TypeNext == TypeOK /\ [Next]_vars => TypeOK'
  <1> SUFFICES ASSUME TypeOK, [Next]_vars PROVE TypeOK'
    OBVIOUS
  <1>1. CASE OpenWorkspace
    BY <1>1 DEF OpenWorkspace, TypeOK, os
  <1>2. CASE Prepare
    BY <1>2 DEF Prepare, TypeOK, os
  <1>3. CASE Replace
    BY <1>3 DEF Replace, TypeOK, os
  <1>4. CASE Verify
    BY <1>4 DEF Verify, TypeOK, os
  <1>5. CASE \/ \E d \in Descendants : Fork(d) \/ LeaveGroup(d)
             \/ \E p \in Procs : CloseOutput(p) \/ Exit(p)
             \/ \E s \in Streams : WriteOutput(s)
    BY <1>5, ProcessesType
  <1>6. ASSUME NEW s \in Streams, ReadMore(s) PROVE TypeOK'
    <2>1. Len(written[s]) \in Nat
      BY DEF TypeOK
    <2> QED
      BY <1>6, <2>1 DEF ReadMore, TypeOK, os
  <1>7. ASSUME NEW s \in Streams, ReadEnds(s) PROVE TypeOK'
    BY <1>7 DEF ReadEnds, TypeOK, os
  <1>8. CASE DeadlinePasses
    BY <1>8 DEF DeadlinePasses, TypeOK, os
  <1>9. CASE GracePasses
    BY <1>9 DEF GracePasses, TypeOK, os
  <1>10. CASE Spawn
    <2>1. proc' \in [Procs -> Processes]
      <3>1. [state |-> "live", group |-> TRUE, open |-> Streams] \in Processes
        BY DEF Processes
      <3> QED
        BY <1>10, <3>1 DEF Spawn, TypeOK
    <2> QED
      BY <1>10, <2>1 DEF Spawn, TypeOK, Returned, Running
  <1>11. CASE StartCapture
    <2>1. proc' \in [Procs -> Processes]
      BY <1>11, KillType DEF StartCapture, TypeOK
    <2>2. reader' \in [Streams -> {"off", "reading", "eof", "error"}]
      <3>1. CASE reader' = [s \in Streams |-> "reading"]
        BY <3>1
      <3>2. ASSUME NEW started,
                   reader' = [s \in Streams |-> IF s \in started THEN "reading" ELSE "off"]
            PROVE  reader' \in [Streams -> {"off", "reading", "eof", "error"}]
        BY <3>2
      <3> QED
        BY <1>11, <3>1, <3>2 DEF StartCapture
    <2> QED
      BY <1>11, <2>1, <2>2 DEF StartCapture, TypeOK, Returned, Running
  <1>12. CASE Poll \/ PollFails
    <2>1. proc' \in [Procs -> Processes]
      BY <1>12, KillType DEF Poll, PollFails, TypeOK, os
    <2>2. CASE Poll
      BY <1>12, <2>1, <2>2 DEF Poll, TypeOK, Running, os
    <2>3. CASE PollFails
      BY <1>12, <2>1, <2>3 DEF PollFails, TypeOK, Returned, Running
    <2> QED
      BY <1>12, <2>2, <2>3
  <1>13. CASE ReapTree
    <2>1. proc' \in [Procs -> Processes]
      BY <1>13, KillType DEF ReapTree
    <2> QED
      BY <1>13, <2>1 DEF ReapTree, TypeOK, Running, Receives
  <1>14. CASE KillTree
    <2>1. proc' \in [Procs -> Processes]
      BY <1>14, KillType DEF KillTree, TerminateProcessTree
    <2> QED
      BY <1>14, <2>1 DEF KillTree, TypeOK, Running, Receives, Returned
  <1>15. ASSUME NEW s \in Streams, Receive(s) PROVE TypeOK'
    BY <1>15 DEF Receive, TypeOK, Running, Receives, Returned, os
  <1>16. CASE UNCHANGED vars
    BY <1>16 DEF vars, TypeOK
  <1> QED
    BY <1>1, <1>2, <1>3, <1>4, <1>5, <1>6, <1>7, <1>8, <1>9, <1>10, <1>11, <1>12, <1>13, <1>14, <1>15,
       <1>16 DEF Next

-----------------------------------------------------------------------------
(* The processes, the readers and the thread keep the invariant *)

\* A terminated tree has no member left, or its kill was refused; either way no
\* process appears, and a process that is left is as it was.
LEMMA KillOutcome ==
  ASSUME TypeOK, TerminateProcessTree
  PROVE  /\ killFails' \/ GroupGone'
         /\ killFails => killFails'
         /\ \A p \in Procs : proc'[p].state = "live" => proc'[p] = proc[p]
         /\ \A p \in Procs : proc[p].state = "dead" => proc'[p].state = "dead"
         /\ code' # None => code' = code /\ (proc'["leader"] = proc["leader"])
  <1>1. CASE KillSucceeds
    <2>1. ASSUME NEW p \in Procs
          PROVE  proc'[p] = IF proc[p].state = "live" /\ proc[p].group
                            THEN Dead ELSE proc[p]
      <3>2. proc' = [q \in Procs |-> IF Live(q) /\ proc[q].group THEN Dead ELSE proc[q]]
        BY <1>1, Zenon DEF KillSucceeds, Killed
      <3>3. proc'[p] = IF Live(p) /\ proc[p].group THEN Dead ELSE proc[p]
        BY <3>2
      <3> QED
        BY <3>3, Zenon DEF Live
    <2>2. "leader" \in Procs /\ Dead.state = "dead"
      BY DEF Procs, Dead, Unborn
    <2>3. code' = (IF proc["leader"].state = "live" THEN None ELSE code) /\ killFails' = killFails
      BY <1>1 DEF KillSucceeds, CodeAfterKill, Live
    <2>4. \A p \in Procs : proc'[p].state = "live" => proc'[p] = proc[p] /\ ~proc'[p].group
      BY <2>1, <2>2
    <2>5. \A p \in Procs : proc[p].state = "dead" => proc'[p].state = "dead"
      BY <2>1, <2>2
    <2>6. code' # None => code' = code /\ (proc'["leader"] = proc["leader"])
      BY <2>1, <2>2, <2>3
    <2> QED
      BY <2>3, <2>4, <2>5, <2>6 DEF GroupGone
  <1>2. CASE KillRefused
    BY <1>2 DEF KillRefused
  <1> QED
    BY <1>1, <1>2 DEF TerminateProcessTree

\* Initially nothing runs.
LEMMA InvInit == Init => Inv
  <1> SUFFICES ASSUME Init PROVE Inv
    OBVIOUS
  <1>1. \A p \in Procs : proc[p].state = "unborn"
    BY DEF Init, Unborn
  <1>2. \A s \in Streams : reader[s] = "off"
    BY DEF Init
  <1> QED
    BY <1>1, <1>2, ProcessAssumption DEF Init, Inv, BeforeStart, ReadersInv, ExitInv, BoundInv, GroupInv, ReturnInv, Running,
                      Receives

\* What a step of the processes may do: it changes no process that has ended,
\* opens no stream and joins no group that a live process has not.
Grows ==
    /\ \E p \in Procs : proc[p].state = "live"
    /\ \A q \in Procs : proc'[q].state = "live" =>
         \E p \in Procs : /\ proc[p].state = "live"
                          /\ proc'[q].open \subseteq proc[p].open
                          /\ proc'[q].group => proc[p].group
    /\ \A q \in Procs : proc[q].state = "dead" => proc'[q].state = "dead"
    /\ code' # code => proc["leader"].state = "live"
    /\ code' # None => code' = code \/ proc'["leader"].state = "dead"
    /\ UNCHANGED <<observed, pc, taken, reader, late, grace, ended, result, killFails>>

\* A fork copies a live process.
LEMMA ForkGrows ==
  ASSUME TypeOK, NEW d \in Descendants, Fork(d)
  PROVE  Grows /\ written' = written
  <1>1. PICK p \in Procs : proc[p].state = "live" /\ proc' = [proc EXCEPT ![d] = proc[p]]
    BY DEF Fork, Live
  <1>2. \A q \in Procs : proc'[q] = IF q = d THEN proc[p] ELSE proc[q]
    BY <1>1 DEF TypeOK
  <1> QED
    BY <1>1, <1>2 DEF Fork, Grows

\* Leaving the group opens nothing.
LEMMA LeaveGrows ==
  ASSUME TypeOK, NEW d \in Descendants, LeaveGroup(d)
  PROVE  Grows /\ written' = written
  <1>1. d \in Procs /\ proc' = [proc EXCEPT ![d].group = FALSE]
    BY DEF LeaveGroup, Procs
  <1>2. \A q \in Procs : /\ proc'[q].state = proc[q].state
                         /\ proc'[q].open = proc[q].open
                         /\ proc'[q].group => proc[q].group
    BY <1>1 DEF TypeOK, Processes
  <1>3. proc[d].state = "live"
    BY DEF LeaveGroup, Live
  <1> QED
    BY <1>1, <1>2, <1>3 DEF LeaveGroup, Grows

\* Closing the output opens nothing.
LEMMA CloseGrows ==
  ASSUME TypeOK, NEW p \in Procs, CloseOutput(p)
  PROVE  Grows /\ written' = written
  <1>1. proc' = [proc EXCEPT ![p].open = {}]
    BY DEF CloseOutput
  <1>2. \A q \in Procs : /\ proc'[q].state = proc[q].state
                         /\ proc'[q].open \subseteq proc[q].open
                         /\ proc'[q].group => proc[q].group
    BY <1>1 DEF TypeOK, Processes
  <1>3. proc[p].state = "live"
    BY DEF CloseOutput, Live
  <1> QED
    BY <1>2, <1>3 DEF CloseOutput, Grows

\* An exit ends one process, and sets the code when it is the leader.
LEMMA ExitGrows ==
  ASSUME TypeOK, NEW p \in Procs, Exit(p)
  PROVE  Grows /\ written' = written
  <1>1. proc' = [proc EXCEPT ![p] = Dead] /\ proc[p].state = "live"
    BY DEF Exit, Live
  <1>2. \A q \in Procs : IF q = p THEN proc'[q].state = "dead" ELSE proc'[q] = proc[q]
    BY <1>1 DEF TypeOK, Processes, Unborn, Dead
  <1>3. code' # code => p = "leader"
    BY DEF Exit
  <1>4. "leader" \in Procs
    BY DEF Procs
  <1>5. \A q \in Procs : proc'[q].state = "live" => proc'[q] = proc[q]
    BY <1>2
  <1>6. \A q \in Procs : proc[q].state = "dead" => proc'[q].state = "dead"
    BY <1>2
  <1> QED
    BY <1>1, <1>2, <1>3, <1>4, <1>5, <1>6 DEF Exit, Grows

\* The processes cannot disturb what the thread relies on.
LEMMA GrowsKeeps ==
  ASSUME TypeOK, Inv, Grows, written' = written
  PROVE  Inv'
  <1>1. BeforeStart'
    BY DEF Inv, BeforeStart, Grows, Procs
  <1>2. ReadersInv'
    BY DEF Inv, ReadersInv, Grows
  <1>3. ExitInv'
    BY DEF Inv, ExitInv, Grows, Procs
  <1>4. BoundInv'
    BY DEF Inv, BoundInv, Grows, observed, ContractOk, Binding
  <1>5. GroupInv'
    BY DEF Inv, GroupInv, GroupGone, Grows
  <1>6. ReturnInv'
    BY DEF Inv, ReturnInv, Grows, observed, OutputAccepted
  <1> QED
    BY <1>1, <1>2, <1>3, <1>4, <1>5, <1>6 DEF Inv

\* Nobody writes to a stream whose reader has seen its end.
LEMMA WriteKeeps ==
  ASSUME TypeOK, Inv, NEW s \in Streams, WriteOutput(s)
  PROVE  Inv' /\ reader[s] # "eof"
  <1>1. PICK p \in Procs : proc[p].state = "live" /\ s \in proc[p].open
    BY DEF WriteOutput, Holders, Live
  <1>2. reader[s] # "eof"
    BY <1>1 DEF Inv, ReadersInv
  <1>3. \A t \in Streams : t # s => written'[t] = written[t]
    BY DEF WriteOutput, TypeOK
  <1>4. UNCHANGED <<proc, code, taken, reader, pc, late, ended, result, killFails, observed>>
    BY DEF WriteOutput
  <1>5. BeforeStart'
    BY <1>4 DEF Inv, BeforeStart
  <1>6. ReadersInv'
    BY <1>2, <1>3, <1>4 DEF Inv, ReadersInv
  <1>7. ExitInv' /\ GroupInv'
    BY <1>4 DEF Inv, ExitInv, GroupInv, GroupGone
  <1>8. BoundInv'
    BY <1>4 DEF Inv, BoundInv, observed, ContractOk, Binding
  <1>9. ReturnInv'
    BY <1>4 DEF Inv, ReturnInv, observed, OutputAccepted
  <1> QED
    BY <1>2, <1>5, <1>6, <1>7, <1>8, <1>9 DEF Inv

\* A reader only moves forward, to the end when there is nothing more to come.
LEMMA ReadKeeps ==
  ASSUME TypeOK, Inv, NEW s \in Streams, ReadMore(s) \/ ReadEnds(s)
  PROVE  Inv'
  <1>1. /\ \A t \in Streams : t # s => reader'[t] = reader[t] /\ taken'[t] = taken[t]
        /\ reader[s] = "reading"
        /\ reader'[s] = "eof" => /\ taken'[s] = Len(written[s])
                                 /\ \A p \in Procs : proc[p].state = "live" => s \notin proc[p].open
    BY DEF ReadMore, ReadEnds, TypeOK, Holders, Live
  <1>2. UNCHANGED <<proc, code, written, pc, late, ended, result, killFails, observed>>
    BY DEF ReadMore, ReadEnds, os
  <1>3. pc \notin {"idle", "spawn", "start"}
    BY <1>1 DEF Inv, BeforeStart
  <1>4. BeforeStart'
    BY <1>2, <1>3 DEF BeforeStart
  <1>5. ReadersInv'
    <2>1. \A t \in Streams : reader[t] = "eof" => reader'[t] = "eof"
      BY <1>1
    <2>2. "stdout" \in Streams
      BY DEF Streams
    <2>3. ASSUME NEW t \in Streams, reader'[t] = "eof"
          PROVE  /\ taken'[t] = Len(written[t])
                 /\ \A p \in Procs : proc[p].state = "live" => t \notin proc[p].open
      BY <1>1, <2>3 DEF Inv, ReadersInv
    <2> QED
      BY <1>2, <2>1, <2>2, <2>3 DEF Inv, ReadersInv
  <1>6. ExitInv' /\ GroupInv'
    BY <1>2 DEF Inv, ExitInv, GroupInv, GroupGone
  <1>7. BoundInv'
    BY <1>2 DEF Inv, BoundInv, observed, ContractOk, Binding
  <1>8. ReturnInv'
    BY <1>1, <1>2 DEF Inv, ReturnInv, observed, OutputAccepted
  <1> QED
    BY <1>4, <1>5, <1>6, <1>7, <1>8 DEF Inv

\* What happens before the spawn keeps the invariant.
LEMMA EarlyKeeps ==
  ASSUME TypeOK, Inv, OpenWorkspace \/ Prepare \/ Replace
  PROVE  Inv'
  <1>1. CASE OpenWorkspace
    BY <1>1 DEF OpenWorkspace, os, Inv, BeforeStart, ReadersInv, ExitInv, BoundInv, GroupInv, GroupGone,
                ReturnInv, Running, Receives
  <1>2. CASE Prepare
    <2>1. PICK r : ContractOk(r) /\ VerifiedPath(r.executable.id) /\ req' = r
      BY <1>2 DEF Prepare, ArgumentsOk
    <2>2. ContractOk(req)'
      BY <1>2, <2>1 DEF Prepare, ContractOk, Binding
    <2>3. image'.content = req'.binding.content
      BY <1>2, <2>1 DEF Prepare, ContractOk, Binding, VerifiedPath
    <2>4. BoundInv'
      BY <1>2, <2>2, <2>3 DEF Prepare, BoundInv, Running, Receives
    <2> QED
      BY <1>2, <2>4 DEF Prepare, os, Inv, BeforeStart, ReadersInv, ExitInv, GroupInv, ReturnInv, Receives
  <1>3. CASE Replace
    <2>1. BoundInv'
      BY <1>3 DEF Replace, Inv, BoundInv, ContractOk, Binding, Running, Receives
    <2> QED
      BY <1>3, <2>1 DEF Replace, os, Inv, BeforeStart, ReadersInv, ExitInv, GroupInv, GroupGone, ReturnInv,
                        Receives
  <1> QED
    BY <1>1, <1>2, <1>3

\* The clock and the verifier keep the invariant.
LEMMA ClockKeeps ==
  ASSUME TypeOK, Inv, DeadlinePasses \/ GracePasses \/ Verify
  PROVE  Inv'
  <1>1. UNCHANGED <<image, pinned, pc, req, proc, code, ran, written, taken, reader, ended, result, replaced,
                    killFails>>
    BY DEF DeadlinePasses, GracePasses, Verify, os, observed
  <1>2. (late => late') /\ (pc # "returned" => verdict' = verdict)
    BY DEF DeadlinePasses, GracePasses, Verify, observed
  <1>3. BeforeStart' /\ ReadersInv' /\ ExitInv' /\ GroupInv'
    BY <1>1, <1>2 DEF Inv, BeforeStart, ReadersInv, ExitInv, GroupInv, GroupGone
  <1>4. BoundInv'
    BY <1>1 DEF Inv, BoundInv, ContractOk, Binding
  <1>5. ReturnInv'
    BY <1>1, <1>2 DEF Inv, ReturnInv, OutputAccepted
  <1> QED
    BY <1>3, <1>4, <1>5 DEF Inv

\* Only an output that inspect_output accepts is a success.
LEMMA AcceptedResult ==
  ASSUME NEW o
  PROVE  /\ Accepted(o).kind \in {"Succeeded", "Unknown"}
         /\ Accepted(o).kind = "Succeeded" => OutputAccepted(o) /\ Accepted(o).output = o
  BY DEF Accepted, Unknown

\* A spawn that fails has left no process; one that succeeds starts the leader
\* from what stands at the launch path.
LEMMA SpawnKeeps ==
  ASSUME TypeOK, Inv, Spawn
  PROVE  Inv'
  <1>1. pc = "spawn" /\ UNCHANGED <<image, pinned, verdict, req, replaced, code, written, taken, reader,
                                    late, ended, killFails>>
    BY DEF Spawn
  <1>2. /\ code = None
        /\ \A p \in Procs : proc[p].state = "unborn"
        /\ \A s \in Streams : reader[s] = "off"
    BY <1>1 DEF Inv, BeforeStart
  <1>3. CASE pc' = "returned"
    <2> DEFINE o == Output("launch_failed", None, Nothing, Nothing)
    <2>1. result' = Accepted(o) /\ proc' = proc
      BY <1>3 DEF Spawn, Returned
    <2>2. o.outcome = "launch_failed"
      BY DEF Output
    <2>3. BeforeStart' /\ ReadersInv' /\ ExitInv' /\ GroupInv'
      BY <1>1, <1>2, <1>3, <2>1 DEF Inv, BeforeStart, ReadersInv, ExitInv, GroupInv, GroupGone, Receives
    <2>4. BoundInv'
      BY <1>1, <1>3 DEF Inv, BoundInv, ContractOk, Binding, Running, Receives
    <2>5. ReturnInv'
      <3> HIDE DEF o
      <3> QED
        BY <1>3, <2>1, <2>2, AcceptedResult DEF ReturnInv, OutputAccepted
    <2> QED
      BY <2>3, <2>4, <2>5 DEF Inv
  <1>4. CASE pc' = "start"
    <2>1. ran' = image.content /\ result' = result
      BY <1>4 DEF Spawn, Returned
    <2>2. BeforeStart' /\ ReadersInv' /\ ExitInv' /\ GroupInv'
      BY <1>1, <1>2, <1>4 DEF Inv, BeforeStart, ReadersInv, ExitInv, GroupInv, Receives
    <2>3. BoundInv'
      BY <1>1, <1>4, <2>1 DEF Inv, BoundInv, ContractOk, Binding, Running, Receives
    <2>4. ReturnInv'
      BY <1>1, <1>4, <2>1 DEF Inv, ReturnInv
    <2> QED
      BY <2>2, <2>3, <2>4 DEF Inv
  <1> QED
    BY <1>3, <1>4 DEF Spawn, Returned

\* What a step of the thread between the spawn and the receives may do.
Goes(next) ==
    /\ pc' = next /\ UNCHANGED <<observed, written, taken>>
    /\ late' = late
    /\ \/ UNCHANGED <<proc, code, killFails>> \/ TerminateProcessTree

\* Such a step disturbs neither the readers nor the exit code, and it leaves the
\* group empty when it terminates the tree.
LEMMA GoesKeeps ==
  ASSUME TypeOK, Inv, NEW next, Goes(next), pc \in {"start", "poll", "reap", "kill"},
         next \in Running \cup {"returned"}, next \notin {"start", "receive stderr"},
         \A s \in Streams : reader'[s] = "eof" => reader[s] = "eof",
         next \in Receives \cup {"returned"} => TerminateProcessTree,
         next = "kill" \/ ended' = "timed_out" => late,
         next \in Receives => ended' \in {"exited", "timed_out"}
  PROVE  BeforeStart' /\ ReadersInv' /\ ExitInv' /\ BoundInv' /\ GroupInv'
  <1>1. /\ \A p \in Procs : proc'[p].state = "live" => proc'[p] = proc[p]
        /\ \A p \in Procs : proc[p].state = "dead" => proc'[p].state = "dead"
        /\ code' # None => code' = code /\ (proc'["leader"] = proc["leader"])
    BY KillOutcome DEF Goes
  <1>2. BeforeStart'
    BY DEF Goes, BeforeStart, Running, Receives
  <1>3. ReadersInv'
    BY <1>1 DEF Inv, ReadersInv, Goes
  <1>4. ExitInv'
    BY <1>1 DEF Inv, ExitInv, Goes
  <1>5. BoundInv'
    BY DEF Inv, BoundInv, Goes, observed, ContractOk, Binding, Running, Receives
  <1>6. GroupInv'
    BY KillOutcome DEF GroupInv, Goes
  <1> QED
    BY <1>2, <1>3, <1>4, <1>5, <1>6

\* Starting the readers, polling, reaping and killing keep the invariant.
LEMMA ThreadKeeps ==
  ASSUME TypeOK, Inv, StartCapture \/ Poll \/ PollFails \/ ReapTree \/ KillTree
  PROVE  Inv'
  <1>1. ASSUME NEW reason, Returned(Unknown(reason)) PROVE ReturnInv'
    BY <1>1 DEF Returned, Unknown, ReturnInv
  <1>2. ASSUME pc # "returned", pc' # "returned", result' = result, verdict' = verdict PROVE ReturnInv'
    BY <1>2 DEF Inv, ReturnInv
  <1>3. ended = "timed_out" => late
    BY DEF Inv, ExitInv
  <1>4. CASE StartCapture
    <2>1. \A s \in Streams : reader'[s] # "eof"
      BY <1>4 DEF StartCapture
    <2>2. CASE pc' = "poll"
      <3>1. Goes("poll") /\ pc = "start" /\ ended' = ended
        BY <1>4, <2>2 DEF StartCapture, Goes, Returned
      <3>2. ReturnInv'
        BY <1>2, <1>4, <2>2 DEF StartCapture, Returned, observed
      <3> QED
        BY <1>3, <2>1, <3>1, <3>2, GoesKeeps DEF Inv, Running, Receives
    <2>3. CASE pc' = "returned"
      <3>1. /\ Goes("returned") /\ pc = "start" /\ ended' = ended /\ TerminateProcessTree
            /\ Returned(Unknown("AdapterTerminated"))
        BY <1>4, <2>3 DEF StartCapture, Goes
      <3> QED
        BY <1>1, <1>3, <2>1, <3>1, GoesKeeps DEF Inv, Running, Receives
    <2> QED
      BY <1>4, <2>2, <2>3 DEF StartCapture, Returned
  <1>5. CASE Poll \/ PollFails
    <2>1. pc = "poll" /\ reader' = reader /\ ended' = ended
      BY <1>5 DEF Poll, PollFails
    <2>2. CASE pc' = "reap"
      <3>1. Goes("reap")
        BY <1>5, <2>2 DEF Poll, PollFails, Goes, Returned, os
      <3>2. ReturnInv'
        BY <1>2, <1>5, <2>2 DEF Poll, PollFails, Returned, observed, os
      <3> QED
        BY <1>3, <2>1, <3>1, <3>2, GoesKeeps DEF Inv, Running, Receives
    <2>3. CASE pc' = "kill"
      <3>1. Goes("kill") /\ late
        BY <1>5, <2>3 DEF Poll, PollFails, Goes, Returned, os
      <3>2. ReturnInv'
        BY <1>2, <1>5, <2>3 DEF Poll, PollFails, Returned, observed, os
      <3> QED
        BY <1>3, <2>1, <3>1, <3>2, GoesKeeps DEF Inv, Running, Receives
    <2>4. CASE pc' = "returned"
      <3>1. Goes("returned") /\ TerminateProcessTree /\ Returned(Unknown("TransportOutcomeUnknown"))
        BY <1>5, <2>4 DEF Poll, PollFails, Goes
      <3> QED
        BY <1>1, <1>3, <2>1, <3>1, GoesKeeps DEF Inv, Running, Receives
    <2> QED
      BY <1>5, <2>2, <2>3, <2>4 DEF Poll, PollFails, Returned
  <1>6. CASE ReapTree
    <2>1. /\ Goes("receive stdout") /\ TerminateProcessTree /\ ended' = "exited" /\ pc = "reap"
          /\ reader' = reader
      BY <1>6 DEF ReapTree, Goes
    <2>2. ReturnInv'
      BY <1>2, <1>6 DEF ReapTree, observed
    <2> QED
      BY <2>1, <2>2, GoesKeeps DEF Inv, Running, Receives
  <1>7. CASE KillTree
    <2>1. pc = "kill" /\ reader' = reader /\ late
      BY <1>7 DEF KillTree, Inv, ExitInv
    <2>2. CASE pc' = "receive stdout"
      <3>1. Goes("receive stdout") /\ TerminateProcessTree /\ ended' \in {"exited", "timed_out"}
        BY <1>7, <2>2 DEF KillTree, Goes, TerminateProcessTree, Returned
      <3>2. ReturnInv'
        BY <1>2, <1>7, <2>2 DEF KillTree, Returned, observed
      <3> QED
        BY <2>1, <3>1, <3>2, GoesKeeps DEF Inv, Running, Receives
    <2>3. CASE pc' = "returned"
      <3>1. /\ Goes("returned") /\ TerminateProcessTree /\ ended' = ended
            /\ Returned(Unknown("TransportOutcomeUnknown"))
        BY <1>7, <2>3 DEF KillTree, Goes, TerminateProcessTree
      <3> QED
        BY <1>1, <2>1, <3>1, GoesKeeps DEF Inv, Running, Receives
    <2> QED
      BY <1>7, <2>2, <2>3 DEF KillTree, Returned
  <1> QED
    BY <1>4, <1>5, <1>6, <1>7

\* The receives: the first goes on when its reader has ended, the second builds
\* the output when both have.
LEMMA ReceiveKeeps ==
  ASSUME TypeOK, Inv, NEW s \in Streams, Receive(s)
  PROVE  Inv'
  <1>0. pc \in Receives
    <2>1. CASE s = "stdout"
      BY <2>1 DEF Receive, Receiving, Receives
    <2>2. CASE s = "stderr"
      BY <2>2 DEF Receive, Receiving, Receives
    <2> QED
      BY <2>1, <2>2 DEF Streams
  <1>1. /\ pc \in Receives
        /\ UNCHANGED <<observed, proc, code, written, taken, reader, late, ended, killFails>>
        /\ pc' \in {"receive stderr", "returned"}
    BY <1>0 DEF Receive, Returned, os
  <1>2. pc' = "receive stderr" => s = "stdout" /\ reader["stdout"] = "eof" /\ result' = result
    BY DEF Receive, Returned
  <1>3. BeforeStart' /\ ExitInv' /\ GroupInv'
    BY <1>1 DEF Inv, BeforeStart, ExitInv, GroupInv, GroupGone, Receives
  <1>4. ReadersInv'
    BY <1>1, <1>2 DEF Inv, ReadersInv
  <1>5. BoundInv'
    BY <1>1 DEF Inv, BoundInv, observed, ContractOk, Binding, Running, Receives
  <1>6. ReturnInv'
    <2>1. CASE pc' = "receive stderr"
      BY <1>1, <1>2, <2>1 DEF Inv, ReturnInv, observed, Receives
    <2>2. CASE pc' = "returned" /\ result' = Unknown("ResponseUnverifiable")
      BY <2>2 DEF ReturnInv, Unknown
    <2>3. CASE pc' = "returned" /\ s = "stderr" /\ reader["stderr"] = "eof" /\ result' = Finished
      <3>1. \A t \in Streams : reader'[t] = "eof"
        BY <1>1, <2>3 DEF Receive, Receiving, Inv, ReadersInv, Streams
      <3>2. PICK o : result' = Accepted(o)
        BY <2>3 DEF Finished
      <3> QED
        BY <2>3, <3>1, <3>2, AcceptedResult DEF ReturnInv, OutputAccepted
    <2> QED
      BY <1>1, <2>1, <2>2, <2>3 DEF Receive, Returned, Streams
  <1> QED
    BY <1>3, <1>4, <1>5, <1>6 DEF Inv

\* Every step keeps the invariant.
LEMMA InvNext == TypeOK /\ Inv /\ [Next]_vars => Inv'
  <1> SUFFICES ASSUME TypeOK, Inv, [Next]_vars PROVE Inv'
    OBVIOUS
  <1>1. CASE UNCHANGED vars
    <2>1. BeforeStart' /\ ReadersInv' /\ ExitInv' /\ GroupInv'
      BY <1>1 DEF vars, Inv, BeforeStart, ReadersInv, ExitInv, GroupInv, GroupGone
    <2>2. BoundInv' /\ ReturnInv'
      BY <1>1 DEF vars, Inv, BoundInv, ContractOk, Binding, ReturnInv, OutputAccepted
    <2> QED
      BY <2>1, <2>2 DEF Inv
  <1>2. CASE OpenWorkspace \/ Prepare \/ Replace
    BY <1>2, EarlyKeeps
  <1>3. CASE Verify \/ DeadlinePasses \/ GracePasses
    BY <1>3, ClockKeeps
  <1>4. CASE \E d \in Descendants : Fork(d) \/ LeaveGroup(d)
    BY <1>4, ForkGrows, LeaveGrows, GrowsKeeps
  <1>5. CASE \E p \in Procs : CloseOutput(p) \/ Exit(p)
    BY <1>5, CloseGrows, ExitGrows, GrowsKeeps
  <1>6. CASE \E s \in Streams : WriteOutput(s) \/ ReadMore(s) \/ ReadEnds(s)
    BY <1>6, WriteKeeps, ReadKeeps
  <1>7. CASE Spawn \/ StartCapture \/ Poll \/ PollFails \/ ReapTree \/ KillTree
    BY <1>7, SpawnKeeps, ThreadKeeps
  <1>8. CASE \E s \in Streams : Receive(s)
    BY <1>8, ReceiveKeeps
  <1> QED
    BY <1>1, <1>2, <1>3, <1>4, <1>5, <1>6, <1>7, <1>8 DEF Next

\* Both invariants hold in every behaviour.
LEMMA InvAlways == Spec => [](TypeOK /\ Inv)
  <1>1. Init => TypeOK /\ Inv
    BY TypeInit, InvInit
  <1>2. TypeOK /\ Inv /\ [Next]_vars => (TypeOK /\ Inv)'
    BY TypeNext, InvNext
  <1> QED
    BY <1>1, <1>2, PTL DEF Spec

\* run_process leaves nobody behind: once it has returned, with whatever result,
\* no process of the group is alive, unless the system refused the kill; and no
\* process forked after the kill can join the group again.
THEOREM NobodyOutlivesTheCall == Spec => []NoStragglers
  <1>1. TypeOK /\ Inv => NoStragglers
    BY DEF Inv, GroupInv, GroupGone, NoStragglers, Live
  <1> QED
    BY <1>1, InvAlways, PTL

-----------------------------------------------------------------------------
(* The result is what happened *)

\* What build_output is given when both readers have ended.
LEMMA FinishedTrue ==
  ASSUME TypeOK, Inv, Receive("stderr"), reader["stderr"] = "eof", result' = Finished,
         pc' = "returned"
  PROVE  ResultIsTrue'
  <1>1. /\ pc = "receive stderr"
        /\ UNCHANGED <<observed, proc, code, written, late>>
    BY DEF Receive, Receiving, os
  <1>2. \A s \in Streams : /\ taken[s] = Len(written[s])
                           /\ written[s] \in Seq(Char)
    BY <1>1 DEF Inv, ReadersInv, TypeOK, Streams
  <1>3. ASSUME NEW s \in Streams, ~Capture(s).truncated PROVE Capture(s).content = Lossy(written[s])
    <2>1. SubSeq(written[s], 1, taken[s]) = written[s]
      BY <1>2
    <2> QED
      BY <1>2, <1>3, <2>1, CapturedWhole DEF Capture
  <1>4. verdict' = None /\ ended \in {"exited", "timed_out"} /\ (ended = "timed_out" => late)
    BY <1>1 DEF Inv, ReturnInv, ExitInv, observed, Receives
  <1> DEFINE o == IF ended = "exited" THEN Output("exited", code, Capture("stdout"), Capture("stderr"))
                  ELSE Output("timed_out", None, Capture("stdout"), Capture("stderr"))
  <1>5. result' = Accepted(o)
    BY DEF Finished
  <1>6. /\ o.stdout = Capture("stdout") /\ o.stderr = Capture("stderr")
        /\ o.exitCode # None => o.exitCode = code
    BY DEF Output
  <1>7. o.outcome = "timed_out" => late
    BY <1>4 DEF Output
  <1>8. code # None => proc'["leader"].state # "live"
    BY <1>1 DEF Inv, ExitInv
  <1>9. ran' = req'.binding.content \/ replaced'
    BY <1>1 DEF Inv, BoundInv, Running, Receives, observed
  <1> HIDE DEF o
  <1>10. result'.kind = "Succeeded" => result'.output = o
    BY <1>5, AcceptedResult
  <1>11. /\ ~o.stdout.truncated => o.stdout.content = Lossy(written["stdout"])
         /\ ~o.stderr.truncated => o.stderr.content = Lossy(written["stderr"])
    BY <1>3, <1>6 DEF Streams
  <1> QED
    BY <1>1, <1>4, <1>6, <1>7, <1>8, <1>9, <1>10, <1>11 DEF ResultIsTrue, Live

\* A result, once returned, stays true: its exit code is that of a leader that
\* is gone, and its streams can grow no more.
LEMMA ResultStays ==
  ASSUME TypeOK, Inv, ResultIsTrue, pc = "returned", result' = result,
         UNCHANGED <<ran, req, replaced>>,
         verdict' \in {verdict, "Passed"},
         proc["leader"].state = "dead" => proc'["leader"].state = "dead" /\ code' = code,
         late => late',
         \A s \in Streams : reader[s] = "eof" => written'[s] = written[s]
  PROVE  ResultIsTrue'
  <1> SUFFICES ASSUME result' # None, result'.kind = "Succeeded" PROVE ResultIsTrue'
    BY DEF ResultIsTrue
  <1> DEFINE o == result.output
  <1>1. result # None /\ result.kind = "Succeeded"
    OBVIOUS
  <1>2. verdict' \in {None, "Passed"}
    BY <1>1 DEF ResultIsTrue
  <1>3. o.exitCode # None => proc'["leader"].state # "live" /\ code' = o.exitCode
    BY <1>1 DEF ResultIsTrue, Live, Inv, ExitInv
  <1>4. o.outcome = "timed_out" => late'
    BY <1>1 DEF ResultIsTrue
  <1>5. o.outcome # "launch_failed" => \A s \in Streams : written'[s] = written[s]
    BY <1>1 DEF Inv, ReturnInv
  <1>6. o.outcome # "launch_failed" =>
             /\ ~o.stdout.truncated => o.stdout.content = Lossy(written'["stdout"])
             /\ ~o.stderr.truncated => o.stderr.content = Lossy(written'["stderr"])
             /\ ran' = req'.binding.content \/ replaced'
    BY <1>1, <1>5 DEF ResultIsTrue, Streams
  <1> QED
    BY <1>2, <1>3, <1>4, <1>6 DEF ResultIsTrue, Live

\* Every step keeps the result true.
LEMMA ResultNext ==
  ASSUME TypeOK, Inv, ResultIsTrue, [Next]_vars
  PROVE  ResultIsTrue'
  <1>1. Inv'
    BY InvNext
  <1>2. CASE pc' # "returned"
    BY <1>1, <1>2 DEF Inv, ReturnInv, ResultIsTrue
  <1>3. CASE pc' = "returned" /\ pc # "returned"
    <2>1. CASE Spawn
      <3> DEFINE o == Output("launch_failed", None, Nothing, Nothing)
      <3>1. result' = Accepted(o) /\ verdict' = verdict
        BY <1>3, <2>1 DEF Spawn, Returned
      <3>2. o.outcome = "launch_failed" /\ o.exitCode = None /\ verdict = None
        BY <1>3 DEF Output, Inv, ReturnInv
      <3> HIDE DEF o
      <3>3. result'.kind = "Succeeded" => result'.output = o
        BY <3>1, AcceptedResult
      <3> QED
        BY <3>1, <3>2, <3>3 DEF ResultIsTrue
    <2>2. ASSUME NEW reason, result' = Unknown(reason) PROVE ResultIsTrue'
      BY <2>2 DEF Unknown, ResultIsTrue
    <2>3. CASE StartCapture
      BY <1>3, <2>2, <2>3 DEF StartCapture, Returned
    <2>4. CASE PollFails
      BY <1>3, <2>2, <2>4 DEF PollFails, Returned
    <2>5. CASE KillTree
      BY <1>3, <2>2, <2>5 DEF KillTree, Returned
    <2>6. ASSUME NEW s \in Streams, Receive(s) PROVE ResultIsTrue'
      <3>1. CASE result' = Unknown("ResponseUnverifiable")
        BY <2>2, <3>1
      <3>2. CASE s = "stderr" /\ reader["stderr"] = "eof" /\ result' = Finished
        BY <1>3, <2>6, <3>2, FinishedTrue
      <3> QED
        BY <1>3, <2>6, <3>1, <3>2 DEF Receive, Returned, Streams
    <2>7. Spawn \/ StartCapture \/ PollFails \/ KillTree \/ \E s \in Streams : Receive(s)
      <3>1. pc' # pc
        BY <1>3
      <3> QED
        BY <1>3, <3>1 DEF Next, vars, OpenWorkspace, Prepare, Replace, Verify, Fork, LeaveGroup, CloseOutput, Exit,
                        WriteOutput, ReadMore, ReadEnds, DeadlinePasses, GracePasses, ReapTree, Poll
    <2> QED
      BY <2>1, <2>3, <2>4, <2>5, <2>6, <2>7
  <1>4. CASE pc = "returned"
    <2>1. CASE UNCHANGED vars \/ GracePasses
      BY <1>4, <2>1, ResultStays DEF vars, GracePasses, os, observed
    <2>2. CASE Verify
      <3>1. ContractOk(req) /\ OutputAccepted(result.output) /\ result.kind = "Succeeded"
        BY <1>4, <2>2 DEF Inv, BoundInv, ReturnInv, Verify
      <3>2. verdict' = "Passed" /\ UNCHANGED <<ran, req, replaced, result, proc, code, late, written>>
        BY <2>2, <3>1 DEF Verify, os
      <3> QED
        BY <1>4, <3>2, ResultStays
    <2>3. CASE Grows /\ written' = written
      <3>1. UNCHANGED <<ran, req, replaced, result, late, verdict>>
        BY <2>3 DEF Grows, observed
      <3>2. proc["leader"].state = "dead" => proc'["leader"].state = "dead" /\ code' = code
        BY <2>3 DEF Grows, Procs
      <3> QED
        BY <1>4, <2>3, <3>1, <3>2, ResultStays
    <2>4. ASSUME NEW s \in Streams, WriteOutput(s) PROVE ResultIsTrue'
      <3>1. \A t \in Streams : reader[t] = "eof" => written'[t] = written[t]
        BY <2>4, WriteKeeps DEF WriteOutput, TypeOK
      <3>2. UNCHANGED <<ran, req, replaced, result, late, verdict, proc, code>>
        BY <2>4 DEF WriteOutput, observed
      <3> QED
        BY <1>4, <3>1, <3>2, ResultStays
    <2>5. ASSUME NEW s \in Streams, ReadMore(s) \/ ReadEnds(s) PROVE ResultIsTrue'
      <3>1. UNCHANGED <<ran, req, replaced, result, late, verdict, proc, code, written>>
        BY <2>5 DEF ReadMore, ReadEnds, observed, os
      <3> QED
        BY <1>4, <3>1, ResultStays
    <2>6. \/ UNCHANGED vars \/ Verify \/ GracePasses
          \/ \E d \in Descendants : Fork(d) \/ LeaveGroup(d)
          \/ \E p \in Procs : CloseOutput(p) \/ Exit(p)
          \/ \E s \in Streams : WriteOutput(s) \/ ReadMore(s) \/ ReadEnds(s)
      <3>1. ASSUME NEW s \in Streams, Receive(s) PROVE FALSE
        <4>1. CASE s = "stdout"
          BY <1>4, <3>1, <4>1 DEF Receive, Receiving
        <4>2. CASE s = "stderr"
          BY <1>4, <3>1, <4>2 DEF Receive, Receiving
        <4> QED
          BY <4>1, <4>2 DEF Streams
      <3> QED
        BY <1>4, <3>1 DEF Next, OpenWorkspace, Prepare, Replace, DeadlinePasses, Spawn, StartCapture, Poll, PollFails,
                        ReapTree, KillTree
    <2> QED
      BY <2>1, <2>2, <2>3, <2>4, <2>5, <2>6, ForkGrows, LeaveGrows, CloseGrows, ExitGrows
  <1> QED
    BY <1>2, <1>3, <1>4

\* What execute returns is what happened: the exit code is the leader's own, a
\* timeout passed the deadline, a stream that is not marked truncated is all that
\* was ever written to it, what ran is what the request was bound to, and the
\* verifier confirms what was accepted.
THEOREM ResultsAreTrue == Spec => []ResultIsTrue
  <1>1. Init => ResultIsTrue
    BY DEF Init, ResultIsTrue
  <1>2. TypeOK /\ Inv /\ ResultIsTrue /\ [Next]_vars => ResultIsTrue'
    BY ResultNext
  <1> QED
    BY <1>1, <1>2, InvAlways, PTL DEF Spec
=============================================================================
