-------------------------- MODULE FileEffectsProofs --------------------------
(***************************************************************************)
(* Theorems about FileEffects, for every workspace, every set of requests, *)
(* any number of hosts and any interleaving of their system calls with     *)
(* editors, crashes and power losses: what a call reports about its target *)
(* is true, a commit only ever loses a change that races with its rename,  *)
(* and what was acknowledged survives a power loss.                        *)
(***************************************************************************)
EXTENDS FileEffects, TLAPS

-----------------------------------------------------------------------------
(* The inductive invariant *)

Fields == {"pc", "req", "source", "want", "seen", "outcome", "walk", "touched", "raced", "stale"}

\* commit_atomic up to its rename, and after it.
Replacing == {"temp", "write", "inspect", "rename"}
Replaced == {"sync", "confirm"}
Working == {"read", "source", "open", "stat", "enter", "list", "search"} \cup Replacing \cup Replaced
Ended == {"done", "verified", "refuted", "unavailable", "unverifiable", "unsupported"}

\* Every entry ever seen, and every entry a power loss leaves, is one of Node: a
\* file is synced before it is renamed, so no torn one appears.
TypeOK ==
    /\ tree \in [Paths -> Node]
    /\ disk \in [Paths -> Node]
    /\ DOMAIN temp = Hosts
    /\ DOMAIN call = Hosts
    /\ \A h \in Hosts : DOMAIN call[h] = Fields

\* An ended call says what became of its target unless it says Unknown.
Honest(c) == c.outcome.status # "Unknown" => c.touched = c.outcome.changed

\* A call c has an outcome when it ended, and replaced its target when it is
\* past the rename.
Progress(c) ==
    /\ c.pc \in {"idle", "gone"} \cup Working \cup Ended
    /\ c.touched \in BOOLEAN /\ c.raced \in BOOLEAN
    /\ c.pc \in {"idle", "gone"} => c.outcome = None /\ ~c.touched
    /\ c.pc \in Working \cup Ended => c.req \in Requests
    /\ c.pc \in Working => c.outcome = None /\ (c.touched <=> c.pc \in Replaced)
    /\ c.pc \in Ended => Honest(c)

\* It knows its text from the moment it opens the target, and goes on only when
\* what it saw there meets the precondition.
Planned(c) ==
    /\ c.pc = "source" => c.req.op = "apply-patch"
    /\ c.pc \in {"open"} \cup Replacing \cup Replaced => c.want \in Texts
    /\ c.pc \in Replacing =>
         c.seen \in {None} \cup [text: Texts, mode: Nat] /\ PreconditionHolds(c.seen, c.req)

\* Its temporary file t has the permissions it saw; it is complete and synced
\* before the second inspection.
TempNode(c, text, synced) ==
    [kind |-> "file", text |-> text, mode |-> IF c.seen = None THEN 1 ELSE c.seen.mode,
     synced |-> synced]

Temporary(c, t) ==
    /\ c.pc = "write" => t = TempNode(c, <<>>, FALSE)
    /\ c.pc \in {"inspect", "rename"} => t = TempNode(c, c.want, TRUE)

\* inspect_target on the tree tr.
InspectedIn(tr, path) ==
    IF tr[path].kind = "absent" THEN None ELSE [text |-> tr[path].text, mode |-> tr[path].mode]

\* Unless someone changed the target since, at the rename it is as it was seen.
Unraced(c, tr) ==
    c.pc = "rename" /\ ~c.raced => InspectedIn(tr, c.req.path.parts) = c.seen

\* Unless someone changed the target since the second inspection, it holds the
\* text from the rename on, and on Unix the disk does from the sync on.
Durable(h, c, tr, di) ==
    h \in UnixHosts =>
        /\ c.pc = "sync" /\ ~c.raced => tr[c.req.path.parts].text = c.want
        /\ (c.pc = "confirm" \/ (c.pc \in Ended /\ c.outcome.changed)) /\ ~c.raced =>
             tr[c.req.path.parts].text = c.want /\ di[c.req.path.parts].text = c.want

Good(h, c, t, tr, di) ==
    Progress(c) /\ Planned(c) /\ Temporary(c, t) /\ Unraced(c, tr) /\ Durable(h, c, tr, di)

Inv == \A h \in Hosts : Good(h, call[h], temp[h], tree, disk)

-----------------------------------------------------------------------------
(* What keeps a call good *)

\* inspect_target looks at the tree as it is.
LEMMA InspectedIs == ASSUME NEW path PROVE Inspected(path) = InspectedIn(tree, path)
  BY DEF Inspected, InspectedIn

\* Entries are synced, so what is written back is what is seen.
LEMMA SyncedBack == ASSUME NEW n \in Node PROVE WrittenBack(n) = n
  BY DEF Node, WrittenBack

\* The target of a request is an entry of the workspace.
LEMMA TargetKnown == ASSUME NEW r \in Requests PROVE r.path.parts \in Paths
  BY FilesAssumption

\* Writing entries back harms no call.
LEMMA WriteBackGood ==
  ASSUME NEW h, NEW c, NEW t, NEW tr, NEW di, NEW dj, Good(h, c, t, tr, di),
         \A p \in Paths : dj[p] = di[p] \/ dj[p] = tr[p]
  PROVE  Good(h, c, t, tr, dj)
  <1>1. Durable(h, c, tr, dj)
    <2>1. c.pc \in Working \cup Ended => c.req.path.parts \in Paths
      BY TargetKnown DEF Good, Progress
    <2> QED
      BY <2>1 DEF Good, Durable, Working, Replacing, Replaced
  <1> QED
    BY <1>1 DEF Good

\* d is the call c, ended with the outcome o.
Finished(c, d, o) ==
    /\ d.pc = "done" /\ d.outcome = o
    /\ d.req = c.req /\ d.touched = c.touched /\ d.raced = c.raced
    /\ d.want = c.want /\ d.source = c.source

\* A call may end in doubt at any point, and without a change before the rename.
LEMMA FinishedGood ==
  ASSUME NEW h, NEW c, NEW d, NEW t, NEW u, NEW o, NEW tr, NEW di,
         Good(h, c, t, tr, di), c.pc \in Working, Finished(c, d, o),
         o.changed = FALSE, o.status = "Unknown" \/ c.pc \notin Replaced
  PROVE  Good(h, d, u, tr, di)
  <1>1. Honest(d)
    <2>1. c.pc \notin Replaced => c.touched = FALSE
      BY DEF Good, Progress
    <2> QED
      BY <2>1 DEF Finished, Honest
  <1>4. Progress(d)
    <2>1. c.req \in Requests /\ c.touched \in BOOLEAN /\ c.raced \in BOOLEAN
      BY DEF Good, Progress
    <2>2. d.pc \in Ended /\ d.pc \notin Working /\ d.pc \notin {"idle", "gone"}
      BY DEF Finished, Ended, Working, Replacing, Replaced
    <2> QED
      BY <1>1, <2>1, <2>2 DEF Progress, Finished
  <1>2. Planned(d) /\ Temporary(d, u) /\ Unraced(d, tr)
    BY DEF Finished, Planned, Temporary, Unraced, Replacing, Replaced
  <1>3. Durable(h, d, tr, di)
    BY DEF Finished, Durable
  <1> QED
    BY <1>2, <1>3, <1>4 DEF Good

\* A query changes nothing a commit relies on.
LEMMA WalkGood ==
  ASSUME NEW h, NEW c, NEW d, NEW t, NEW tr, NEW di, Good(h, c, t, tr, di),
         c.pc \in {"enter", "list", "search"}, d.pc \in {"enter", "list", "search"},
         d.req = c.req, d.touched = c.touched, d.raced = c.raced, d.outcome = c.outcome
  PROVE  Good(h, d, t, tr, di)
  <1>1. Progress(d)
    BY DEF Good, Progress, Working, Ended, Replacing, Replaced
  <1>2. Planned(d) /\ Temporary(d, t) /\ Unraced(d, tr) /\ Durable(h, d, tr, di)
    BY DEF Planned, Temporary, Unraced, Durable, Replacing, Replaced, Ended
  <1> QED
    BY <1>1, <1>2 DEF Good

\* A verifier reports about an ended call and changes nothing of it.
LEMMA VerifiedGood ==
  ASSUME NEW h, NEW c, NEW d, NEW t, NEW tr, NEW di, Good(h, c, t, tr, di),
         c.pc \in Ended, d.pc \in Ended, d.req = c.req, d.touched = c.touched,
         d.raced = c.raced, d.outcome = c.outcome, d.want = c.want
  PROVE  Good(h, d, t, tr, di)
  <1>1. Progress(d)
    BY DEF Good, Progress, Honest, Working, Ended, Replacing, Replaced
  <1>2. Planned(d) /\ Temporary(d, t) /\ Unraced(d, tr)
    BY DEF Planned, Temporary, Unraced, Replacing, Replaced, Ended
  <1>3. Durable(h, d, tr, di)
    BY DEF Good, Durable, Ended
  <1> QED
    BY <1>1, <1>2, <1>3 DEF Good

\* A call that has not begun, or that ended with its host.
Resting(c) ==
    /\ c.pc \in {"idle", "gone"} /\ c.outcome = None /\ c.source = None
    /\ c.touched = FALSE /\ c.raced = FALSE

\* Nothing is asked of it.
LEMMA RestGood ==
  ASSUME NEW h, NEW c, NEW t, NEW tr, NEW di, Resting(c)
  PROVE  Good(h, c, t, tr, di)
  <1>1. c.pc \notin Working /\ c.pc \notin Ended
    BY DEF Resting, Working, Ended, Replacing, Replaced
  <1>2. Progress(c)
    BY <1>1 DEF Resting, Progress
  <1>3. Planned(c) /\ Temporary(c, t) /\ Unraced(c, tr) /\ Durable(h, c, tr, di)
    BY <1>1 DEF Resting, Planned, Temporary, Unraced, Durable, Replacing, Replaced, Ended
  <1> QED
    BY <1>2, <1>3 DEF Good

\* Idle and Gone are such calls.
LEMMA RestFields == DOMAIN Idle = Fields /\ DOMAIN Gone = Fields /\ Resting(Idle) /\ Resting(Gone)
  BY DEF Idle, Gone, Fields, Resting

\* Someone changed an entry: the calls on it know, and the others see what they
\* saw.
LEMMA NoticedGood ==
  ASSUME NEW h, NEW c, NEW d, NEW t, NEW tr, NEW di, NEW ts, NEW ds, NEW path,
         Good(h, c, t, tr, di), d.raced = (c.raced \/ c.req.path.parts = path),
         d.pc = c.pc, d.req = c.req, d.want = c.want, d.seen = c.seen, d.outcome = c.outcome,
         d.touched = c.touched,
         \A p \in Paths \ {path} : ts[p] = tr[p] /\ ds[p] = di[p]
  PROVE  Good(h, d, t, ts, ds)
  <1>1. Progress(d)
    BY DEF Good, Progress, Honest
  <1>2. Planned(d) /\ Temporary(d, t)
    BY DEF Good, Planned, Temporary, TempNode
  <1>3. c.pc \in Working \cup Ended => c.req.path.parts \in Paths
    BY TargetKnown DEF Good, Progress
  <1>4. Unraced(d, ts)
    BY <1>3 DEF Good, Progress, Unraced, InspectedIn, Working, Replacing
  <1>5. Durable(h, d, ts, ds)
    BY <1>3, ZenonT(40) DEF Good, Progress, Durable, Working, Replaced
  <1> QED
    BY <1>1, <1>2, <1>4, <1>5 DEF Good

-----------------------------------------------------------------------------
(* Steps of one host *)

\* A step of h changes the calls and the temporary files of nobody else, sees
\* the tree and at most writes entries back.
StepOf(h) ==
    /\ DOMAIN call' = Hosts /\ DOMAIN call'[h] = Fields
    /\ \A g \in Hosts \ {h} : call'[g] = call[g]
    /\ DOMAIN temp' = Hosts
    /\ \A g \in Hosts \ {h} : temp'[g] = temp[g]
    /\ tree' = tree
    /\ disk' \in [Paths -> Node] /\ \A p \in Paths : disk'[p] = disk[p] \/ disk'[p] = tree[p]

\* So it keeps the invariant as soon as its own call stays good.
LEMMA StepKeeps ==
  ASSUME TypeOK, Inv, NEW h \in Hosts, StepOf(h), Good(h, call'[h], temp'[h], tree, disk')
  PROVE  TypeOK' /\ Inv'
  <1>1. TypeOK'
    BY DEF TypeOK, StepOf
  <1>2. ASSUME NEW g \in Hosts \ {h} PROVE Good(g, call'[g], temp'[g], tree, disk')
    <2>1. Good(g, call[g], temp[g], tree, disk)
      BY DEF Inv
    <2>2. Good(g, call[g], temp[g], tree, disk')
      BY <2>1, WriteBackGood DEF StepOf
    <2> QED
      BY <2>2 DEF StepOf
  <1>3. \A g \in Hosts : Good(g, call'[g], temp'[g], tree', disk')
    BY <1>2 DEF StepOf
  <1> QED
    BY <1>1, <1>3 DEF Inv

\* What Done changes.
LEMMA DoneIs ==
  ASSUME TypeOK, NEW h \in Hosts, NEW o
  PROVE  /\ DOMAIN Done(h, o) = Hosts /\ DOMAIN Done(h, o)[h] = Fields
         /\ \A g \in Hosts \ {h} : Done(h, o)[g] = call[g]
         /\ Finished(call[h], Done(h, o)[h], o)
  <1> DEFINE d == [call[h] EXCEPT !.pc = "done", !.outcome = o, !.walk = None]
  <1>1. Done(h, o) = [call EXCEPT ![h] = d]
    BY DEF Done, TypeOK
  <1>2. DOMAIN d = Fields /\ Finished(call[h], d, o)
    BY DEF TypeOK, Fields, Finished
  <1> HIDE DEF d
  <1> QED
    BY <1>1, <1>2 DEF TypeOK

\* A call that ends in doubt, or before its rename and without a change.
LEMMA DoneKeeps ==
  ASSUME TypeOK, Inv, NEW h \in Hosts, NEW o, call[h].pc \in Working, call' = Done(h, o),
         o.changed = FALSE, o.status = "Unknown" \/ call[h].pc \notin Replaced,
         DOMAIN temp' = Hosts, \A g \in Hosts \ {h} : temp'[g] = temp[g],
         UNCHANGED <<tree, disk>>
  PROVE  TypeOK' /\ Inv'
  <1>1. StepOf(h)
    BY DoneIs DEF StepOf, TypeOK
  <1>2. Good(h, call[h], temp[h], tree, disk) /\ Finished(call[h], call'[h], o)
    BY DoneIs DEF Inv
  <1>3. Good(h, call'[h], temp'[h], tree, disk)
    BY <1>2, FinishedGood
  <1> QED
    BY <1>1, <1>3, StepKeeps

\* Failures and answers of the read-only operations claim no change.
LEMMA OutcomeFacts ==
  ASSUME NEW x
  PROVE  /\ Failed(x).changed = FALSE /\ Answered(x).changed = FALSE
         /\ ReadSucceeded(x).changed = FALSE
         /\ CommitOutcome(x).changed = FALSE
         /\ x \in {"CommitRenameUnknown", "CommitSyncUnknown", "CommitVerifyUnknown"} =>
               CommitOutcome(x).status = "Unknown"
  BY DEF Failed, Unknown, Succeeded, Answered, ReadSucceeded, CommitOutcome

\* What committing reports.
LEMMA CommittedFacts ==
  ASSUME NEW h, NEW b
  PROVE  Committed(h, b).changed = b /\ Committed(h, b).status = "Succeeded"
  BY DEF Committed, Succeeded

\* prepare: the call has its request, and a write its text.
LEMMA PrepareKeeps ==
  ASSUME TypeOK, Inv, NEW h \in Hosts, Prepare(h)
  PROVE  TypeOK' /\ Inv'
  <1>1. PICK r \in Requests :
          call' = [call EXCEPT ![h] = [Idle EXCEPT
                        !.req = r,
                        !.pc = CASE r.op = "write-atomic" -> "open"
                                 [] r.op = "apply-patch" -> "source"
                                 [] r.op = "read-text" -> "read"
                                 [] r.op = "stat" -> "stat"
                                 [] OTHER -> "enter",
                        !.want = IF r.op = "write-atomic" THEN r.text ELSE None]]
    BY DEF Prepare
  <1> DEFINE d == call'[h]
  <1>2. /\ d.req = r /\ d.outcome = None /\ d.touched = FALSE /\ d.raced = FALSE
        /\ d.pc \in {"open", "source", "read", "stat", "enter"}
        /\ d.pc = "open" => r.op = "write-atomic" /\ d.want = r.text
        /\ d.pc = "source" => r.op = "apply-patch"
        /\ DOMAIN d = Fields
    BY <1>1 DEF Idle, TypeOK, Fields
  <1>3. StepOf(h)
    BY <1>1, <1>2 DEF StepOf, TypeOK, Prepare
  <1> HIDE DEF d
  <1>4. d.pc \in Working /\ d.pc \notin Ended /\ d.pc \notin Replacing /\ d.pc \notin Replaced
    BY <1>2 DEF Working, Ended, Replacing, Replaced
  <1>5. Progress(d)
    BY <1>2, <1>4 DEF Progress
  <1>6. Planned(d)
    BY <1>2, <1>4, FilesAssumption DEF Planned
  <1>7. ASSUME NEW t PROVE Temporary(d, t) /\ Unraced(d, tree) /\ Durable(h, d, tree, disk)
    BY <1>2, <1>4 DEF Temporary, Unraced, Durable
  <1>8. Good(h, d, temp'[h], tree, disk')
    BY <1>5, <1>6, <1>7 DEF Good, Prepare
  <1> QED
    BY <1>3, <1>8, StepKeeps DEF d

\* read-text, stat, and the end of a listing or a search.
LEMMA ReadingKeeps ==
  ASSUME TypeOK, Inv, NEW h \in Hosts, Read(h) \/ Stat(h) \/ ListFinish(h) \/ SearchFinish(h)
  PROVE  TypeOK' /\ Inv'
  <1>1. \E o : call' = Done(h, o) /\ o.changed = FALSE
    BY OutcomeFacts DEF Read, Stat, ListFinish, SearchFinish
  <1>2. /\ call[h].pc \in {"read", "stat", "list", "search"}
        /\ UNCHANGED <<tree, disk, temp>>
    BY DEF Read, Stat, ListFinish, SearchFinish
  <1>3. call[h].pc \in Working /\ call[h].pc \notin Replaced
    BY <1>2 DEF Working, Replaced
  <1> QED
    BY <1>1, <1>2, <1>3, DoneKeeps DEF TypeOK

\* A step of h that goes on with a query.
WalksOn(h) ==
    /\ DOMAIN call' = Hosts /\ DOMAIN call'[h] = Fields
    /\ \A g \in Hosts \ {h} : call'[g] = call[g]
    /\ call[h].pc \in {"enter", "list", "search"} /\ call'[h].pc \in {"enter", "list", "search"}
    /\ call'[h].req = call[h].req /\ call'[h].touched = call[h].touched
    /\ call'[h].raced = call[h].raced /\ call'[h].outcome = call[h].outcome
    /\ UNCHANGED <<tree, disk, temp>>

\* It keeps the invariant.
LEMMA WalksOnKeeps ==
  ASSUME TypeOK, Inv, NEW h \in Hosts, WalksOn(h)
  PROVE  TypeOK' /\ Inv'
  <1>1. StepOf(h)
    BY DEF StepOf, WalksOn, TypeOK
  <1>2. Good(h, call[h], temp[h], tree, disk)
    BY DEF Inv
  <1>3. Good(h, call'[h], temp'[h], tree, disk')
    BY <1>2, WalkGood DEF WalksOn
  <1> QED
    BY <1>1, <1>3, StepKeeps

\* list-directory and search-text up to their end.
LEMMA WalkKeeps ==
  ASSUME TypeOK, Inv, NEW h \in Hosts,
         ListEnter(h) \/ ListEntry(h) \/ SearchEnter(h) \/ SearchNext(h)
  PROVE  TypeOK' /\ Inv'
  <1>1. call[h].pc \in {"enter", "list", "search"} /\ UNCHANGED <<tree, disk, temp>>
    BY DEF ListEnter, ListEntry, SearchEnter, SearchNext
  <1>2. CASE \E o : call' = Done(h, Failed(o))
    <2>1. call[h].pc \in Working /\ call[h].pc \notin Replaced
      BY <1>1 DEF Working, Replaced
    <2> QED
      BY <1>1, <1>2, <2>1, DoneKeeps, OutcomeFacts DEF TypeOK
  <1>3. ASSUME NEW pc \in {"list", "search"}, NEW w,
               call' = [call EXCEPT ![h].pc = pc, ![h].walk = w, ![h].stale = FALSE]
        PROVE  TypeOK' /\ Inv'
    <2> DEFINE d == [call[h] EXCEPT !.pc = pc, !.walk = w, !.stale = FALSE]
    <2>1. call' = [call EXCEPT ![h] = d]
      BY <1>3 DEF TypeOK
    <2>2. /\ DOMAIN d = Fields /\ d.pc = pc /\ d.req = call[h].req
          /\ d.touched = call[h].touched /\ d.raced = call[h].raced /\ d.outcome = call[h].outcome
      BY DEF TypeOK, Fields
    <2> HIDE DEF d
    <2>3. WalksOn(h)
      BY <1>1, <2>1, <2>2 DEF TypeOK, WalksOn
    <2> QED
      BY <2>3, WalksOnKeeps
  <1>4. ASSUME NEW w, call' = [call EXCEPT ![h].walk = w] PROVE TypeOK' /\ Inv'
    <2> DEFINE d == [call[h] EXCEPT !.walk = w]
    <2>1. call' = [call EXCEPT ![h] = d]
      BY <1>4 DEF TypeOK
    <2>2. /\ DOMAIN d = Fields /\ d.pc = call[h].pc /\ d.req = call[h].req
          /\ d.touched = call[h].touched /\ d.raced = call[h].raced /\ d.outcome = call[h].outcome
      BY DEF TypeOK, Fields
    <2> HIDE DEF d
    <2>3. WalksOn(h)
      BY <1>1, <2>1, <2>2 DEF TypeOK, WalksOn
    <2> QED
      BY <2>3, WalksOnKeeps
  <1>5. CASE ListEnter(h)
    <2>1. \/ \E o : call' = Done(h, Failed(o))
          \/ \E w : call' = [call EXCEPT ![h].pc = "list", ![h].stale = FALSE, ![h].walk = w]
      BY <1>5 DEF ListEnter
    <2>2. ASSUME NEW w, call' = [call EXCEPT ![h].pc = "list", ![h].stale = FALSE, ![h].walk = w]
          PROVE  TypeOK' /\ Inv'
      <3>1. call' = [call EXCEPT ![h].pc = "list", ![h].walk = w, ![h].stale = FALSE]
        BY <2>2 DEF TypeOK, Fields
      <3> QED
        BY <3>1, <1>3
    <2> QED
      BY <1>2, <2>1, <2>2
  <1>6. CASE SearchEnter(h)
    <2>1. \/ \E o : call' = Done(h, Failed(o))
          \/ \E w : call' = [call EXCEPT ![h].pc = "search", ![h].walk = w, ![h].stale = FALSE]
      BY <1>6 DEF SearchEnter
    <2> QED
      BY <1>2, <1>3, <2>1
  <1>7. CASE ListEntry(h)
    <2>1. \E w : call' = [call EXCEPT ![h].walk = w]
      BY <1>7 DEF ListEntry
    <2> QED
      BY <1>4, <2>1
  <1>8. CASE SearchNext(h)
    <2>1. \E w : call' = [call EXCEPT ![h].walk = w]
      BY <1>8 DEF SearchNext
    <2> QED
      BY <1>4, <2>1
  <1> QED
    BY <1>5, <1>6, <1>7, <1>8

\* apply_patch_to_file: the text of an accepted patch is a text.
LEMMA ReadSourceKeeps ==
  ASSUME TypeOK, Inv, NEW h \in Hosts, ReadSource(h)
  PROVE  TypeOK' /\ Inv'
  <1> DEFINE c == call[h]
             source == tree[Path(h)].text
             w == ApplyExactEdits(source, c.req.edits)
  <1>1. c.pc = "source" /\ UNCHANGED <<tree, disk, temp>>
    BY DEF ReadSource
  <1>2. Good(h, c, temp[h], tree, disk)
    BY DEF Inv
  <1>3. c.req \in Requests /\ c.req.op = "apply-patch"
    BY <1>1, <1>2 DEF Good, Progress, Planned, Working
  <1>4. CASE \E o : call' = Done(h, Failed(o))
    <2>1. c.pc \in Working /\ c.pc \notin Replaced
      BY <1>1 DEF Working, Replaced
    <2> QED
      BY <1>1, <1>4, <2>1, DoneKeeps, OutcomeFacts DEF TypeOK
  <1>5. CASE /\ EditsError(source, c.req.edits) = None
             /\ call' = [call EXCEPT ![h].pc = "open", ![h].source = source, ![h].want = w]
    <2>1. source \in Texts
      BY <1>3, TargetKnown DEF TypeOK, Node, Path
    <2>2. w \in Texts
      BY <1>3, <1>5, <2>1, FilesAssumption
    <2> DEFINE d == [c EXCEPT !.pc = "open", !.source = source, !.want = w]
    <2> HIDE DEF w, source
    <2>3. call' = [call EXCEPT ![h] = d]
      BY <1>5 DEF TypeOK
    <2>4. /\ DOMAIN d = Fields /\ d.pc = "open" /\ d.req = c.req /\ d.want = w
          /\ d.touched = c.touched /\ d.raced = c.raced /\ d.outcome = c.outcome
      BY DEF TypeOK, Fields
    <2> HIDE DEF d
    <2>5. StepOf(h) /\ call'[h] = d
      BY <1>1, <2>3, <2>4 DEF TypeOK, StepOf
    <2>6. /\ d.pc \in Working /\ c.pc \in Working
          /\ d.pc \notin Replaced /\ c.pc \notin Replaced /\ d.pc \notin Replacing
          /\ d.pc \notin Ended
      BY <1>1, <2>4 DEF Working, Replaced, Replacing, Ended
    <2>7. Progress(d)
      BY <1>2, <2>4, <2>6 DEF Good, Progress
    <2>8. Planned(d) /\ Temporary(d, temp[h]) /\ Unraced(d, tree) /\ Durable(h, d, tree, disk)
      BY <2>2, <2>4, <2>6 DEF Planned, Temporary, Unraced, Durable
    <2>9. Good(h, call'[h], temp'[h], tree, disk')
      BY <1>1, <2>5, <2>7, <2>8 DEF Good
    <2> QED
      BY <2>5, <2>9, StepKeeps
  <1>6. "ReadSource" # None /\ "PreconditionConflict" # None
    BY FilesAssumption DEF Refusals
  <1> DEFINE code == IF ReadFailure(tree, Path(h)) # None THEN "ReadSource"
                     ELSE IF source # c.req.expected THEN "PreconditionConflict"
                     ELSE EditsError(source, c.req.edits)
  <1>7. call' = IF code # None THEN Done(h, Failed(code))
                ELSE [call EXCEPT ![h].pc = "open", ![h].source = source, ![h].want = w]
    BY DEF ReadSource
  <1>8. code = None => EditsError(source, c.req.edits) = None
    BY <1>6
  <1> HIDE DEF code
  <1> QED
    BY <1>4, <1>5, <1>7, <1>8

\* The first inspection: a call goes on only from what its precondition names.
LEMMA InspectTargetKeeps ==
  ASSUME TypeOK, Inv, NEW h \in Hosts, InspectTarget(h)
  PROVE  TypeOK' /\ Inv'
  <1> DEFINE c == call[h]
             seen == Inspected(Path(h))
  <1>1. c.pc = "open" /\ UNCHANGED <<tree, disk, temp>>
    BY DEF InspectTarget
  <1>2. Good(h, c, temp[h], tree, disk)
    BY DEF Inv
  <1>3. c.req \in Requests /\ c.want \in Texts
    BY <1>1, <1>2 DEF Good, Progress, Planned, Working
  <1>4. CASE \E o : call' = Done(h, o) /\ o.changed = FALSE
    <2>1. c.pc \in Working /\ c.pc \notin Replaced
      BY <1>1 DEF Working, Replaced
    <2> QED
      BY <1>1, <1>4, <2>1, DoneKeeps DEF TypeOK
  <1>5. CASE /\ PreconditionHolds(seen, c.req)
             /\ call' = [call EXCEPT ![h].pc = "temp", ![h].seen = seen]
    <2>1. seen \in {None} \cup [text: Texts, mode: Nat]
      BY <1>3, TargetKnown DEF TypeOK, Node, Path, Inspected
    <2> DEFINE d == [c EXCEPT !.pc = "temp", !.seen = seen]
    <2> HIDE DEF seen
    <2>3. call' = [call EXCEPT ![h] = d]
      BY <1>5 DEF TypeOK
    <2>4. /\ DOMAIN d = Fields /\ d.pc = "temp" /\ d.req = c.req /\ d.want = c.want /\ d.seen = seen
          /\ d.touched = c.touched /\ d.raced = c.raced /\ d.outcome = c.outcome
      BY DEF TypeOK, Fields
    <2> HIDE DEF d
    <2>5. StepOf(h) /\ call'[h] = d
      BY <1>1, <2>3, <2>4 DEF TypeOK, StepOf
    <2>6. /\ d.pc \in Working /\ c.pc \in Working
          /\ d.pc \notin Replaced /\ c.pc \notin Replaced
          /\ d.pc \notin Ended
      BY <1>1, <2>4 DEF Working, Replaced, Replacing, Ended
    <2>7. Progress(d)
      BY <1>2, <2>4, <2>6 DEF Good, Progress
    <2>8. Planned(d) /\ Temporary(d, temp[h]) /\ Unraced(d, tree) /\ Durable(h, d, tree, disk)
      BY <1>3, <1>5, <2>1, <2>4, <2>6 DEF Planned, Temporary, Unraced, Durable
    <2>9. Good(h, call'[h], temp'[h], tree, disk')
      BY <1>1, <2>5, <2>7, <2>8 DEF Good
    <2> QED
      BY <2>5, <2>9, StepKeeps
  <1>6. "OpenParent" # None /\ "InspectTarget" # None /\ "Conflict" # None
    BY FilesAssumption DEF Refusals
  <1>7. Committed(h, FALSE).changed = FALSE
    BY CommittedFacts
  <1> DEFINE code == IF ~ParentOpens(tree, Path(h)) THEN "OpenParent"
                     ELSE IF InspectFails(Path(h)) THEN "InspectTarget"
                     ELSE IF ~IsText(seen, c.want) /\ ~PreconditionHolds(seen, c.req)
                     THEN "Conflict" ELSE None
  <1>8. \/ call' = Done(h, CommitOutcome(code))
        \/ /\ code = None
           /\ call' = IF IsText(seen, c.want) THEN Done(h, Committed(h, FALSE))
                      ELSE [call EXCEPT ![h].pc = "temp", ![h].seen = seen]
    BY DEF InspectTarget
  <1>9. code = None => IsText(seen, c.want) \/ PreconditionHolds(seen, c.req)
    BY <1>6
  <1> HIDE DEF code, seen
  <1>10. CASE call' = Done(h, CommitOutcome(code))
    BY <1>4, <1>10, OutcomeFacts
  <1>11. CASE call' = Done(h, Committed(h, FALSE))
    BY <1>4, <1>7, <1>11
  <1> QED
    BY <1>5, <1>8, <1>9, <1>10, <1>11

\* d is the call c at another step of the commit.
Onward(c, d, pc) ==
    /\ DOMAIN d = Fields /\ d.pc = pc /\ d.req = c.req /\ d.want = c.want /\ d.seen = c.seen
    /\ d.touched = c.touched /\ d.outcome = c.outcome

\* Until the rename nothing is promised about the disk.
LEMMA OnwardGood ==
  ASSUME NEW h, NEW c, NEW d, NEW t, NEW u, NEW tr, NEW di, NEW pc \in {"write", "inspect", "rename"},
         Good(h, c, t, tr, di), c.pc \in Replacing, Onward(c, d, pc), d.raced \in BOOLEAN,
         Temporary(d, u), Unraced(d, tr)
  PROVE  Good(h, d, u, tr, di)
  <1>1. /\ d.pc \in Working /\ c.pc \in Working /\ d.pc \in Replacing
        /\ d.pc \notin Replaced /\ c.pc \notin Replaced /\ d.pc \notin Ended
        /\ d.pc \notin {"idle", "gone", "source", "open", "sync", "confirm"}
    BY DEF Working, Replaced, Replacing, Ended, Onward
  <1>2. Progress(d)
    BY <1>1 DEF Good, Progress, Onward
  <1>3. Planned(d)
    BY <1>1 DEF Good, Planned, Onward
  <1>4. Durable(h, d, tr, di)
    BY <1>1 DEF Durable
  <1> QED
    BY <1>2, <1>3, <1>4 DEF Good

\* A host that takes a commit one step further keeps the invariant.
LEMMA OnwardKeeps ==
  ASSUME TypeOK, Inv, NEW h \in Hosts, NEW d, NEW pc \in {"write", "inspect", "rename"},
         call[h].pc \in Replacing, call' = [call EXCEPT ![h] = d], Onward(call[h], d, pc),
         d.raced \in BOOLEAN, DOMAIN temp' = Hosts, \A g \in Hosts \ {h} : temp'[g] = temp[g],
         UNCHANGED <<tree, disk>>, Temporary(d, temp'[h]), Unraced(d, tree)
  PROVE  TypeOK' /\ Inv'
  <1>1. StepOf(h) /\ call'[h] = d
    BY DEF StepOf, TypeOK, Onward
  <1>2. Good(h, call[h], temp[h], tree, disk)
    BY DEF Inv
  <1>3. Good(h, d, temp'[h], tree, disk)
    BY <1>2, OnwardGood
  <1>4. Good(h, call'[h], temp'[h], tree, disk')
    BY <1>1, <1>3
  <1> QED
    BY <1>1, <1>4, StepKeeps

\* The temporary file is created with the permissions of the target.
LEMMA CreateTemporaryKeeps ==
  ASSUME TypeOK, Inv, NEW h \in Hosts, CreateTemporary(h)
  PROVE  TypeOK' /\ Inv'
  <1> DEFINE c == call[h]
             empty == TempNode(c, <<>>, FALSE)
  <1>1. c.pc = "temp" /\ c.raced \in BOOLEAN /\ UNCHANGED <<tree, disk>>
    BY DEF CreateTemporary, Inv, Good, Progress
  <1>2. /\ DOMAIN temp' = Hosts /\ \A g \in Hosts \ {h} : temp'[g] = temp[g]
        /\ \/ temp' = [temp EXCEPT ![h] = empty] /\ call' = [call EXCEPT ![h].pc = "write"]
           \/ call' = Done(h, CommitOutcome("CreateTemporary"))
           \/ call' = Done(h, CommitOutcome("WriteTemporary"))
    BY DEF CreateTemporary, TempNode, TypeOK
  <1>3. c.pc \in Working /\ c.pc \notin Replaced /\ c.pc \in Replacing
    BY <1>1 DEF Working, Replaced, Replacing
  <1>4. ASSUME NEW o, call' = Done(h, CommitOutcome(o)) PROVE TypeOK' /\ Inv'
    BY <1>1, <1>2, <1>3, <1>4, DoneKeeps, OutcomeFacts
  <1>5. CASE temp' = [temp EXCEPT ![h] = empty] /\ call' = [call EXCEPT ![h].pc = "write"]
    <2> DEFINE d == [c EXCEPT !.pc = "write"]
    <2>1. call' = [call EXCEPT ![h] = d]
      BY <1>5 DEF TypeOK
    <2>2. Onward(c, d, "write") /\ d.raced = c.raced
      BY DEF TypeOK, Fields, Onward
    <2>3. temp'[h] = TempNode(d, <<>>, FALSE)
      BY <1>5, <2>2 DEF TypeOK, Onward, TempNode
    <2> HIDE DEF d
    <2>4. Temporary(d, temp'[h]) /\ Unraced(d, tree)
      BY <2>2, <2>3 DEF Temporary, Unraced, Onward
    <2> HIDE DEF c
    <2> QED
      BY <1>1, <1>2, <1>3, <2>1, <2>2, <2>4, OnwardKeeps DEF c
  <1> QED
    BY <1>2, <1>4, <1>5

\* It is complete and synced before the commit goes on.
LEMMA WriteTemporaryKeeps ==
  ASSUME TypeOK, Inv, NEW h \in Hosts, WriteTemporary(h)
  PROVE  TypeOK' /\ Inv'
  <1> DEFINE c == call[h]
             full == [temp[h] EXCEPT !.text = c.want, !.synced = TRUE]
  <1>1. /\ c.pc = "write" /\ c.raced \in BOOLEAN /\ UNCHANGED <<tree, disk>>
        /\ temp[h] = TempNode(c, <<>>, FALSE)
    BY DEF WriteTemporary, Inv, Good, Progress, Temporary
  <1>2. /\ DOMAIN temp' = Hosts /\ \A g \in Hosts \ {h} : temp'[g] = temp[g]
        /\ \/ temp' = [temp EXCEPT ![h] = full] /\ call' = [call EXCEPT ![h].pc = "inspect"]
           \/ call' = Done(h, CommitOutcome("WriteTemporary"))
    BY DEF WriteTemporary, TypeOK
  <1>3. c.pc \in Working /\ c.pc \notin Replaced /\ c.pc \in Replacing
    BY <1>1 DEF Working, Replaced, Replacing
  <1>4. CASE call' = Done(h, CommitOutcome("WriteTemporary"))
    BY <1>1, <1>2, <1>3, <1>4, DoneKeeps, OutcomeFacts
  <1>5. CASE temp' = [temp EXCEPT ![h] = full] /\ call' = [call EXCEPT ![h].pc = "inspect"]
    <2> DEFINE d == [c EXCEPT !.pc = "inspect"]
    <2>1. call' = [call EXCEPT ![h] = d]
      BY <1>5 DEF TypeOK
    <2>2. Onward(c, d, "inspect") /\ d.raced = c.raced
      BY DEF TypeOK, Fields, Onward
    <2>3. full = TempNode(c, c.want, TRUE)
      <3>1. PICK m : m = IF c.seen = None THEN 1 ELSE c.seen.mode
        OBVIOUS
      <3>2. PICK w : w = c.want
        OBVIOUS
      <3>3. PICK e : e = <<>>
        OBVIOUS
      <3>4. temp[h] = [kind |-> "file", text |-> e, mode |-> m, synced |-> FALSE]
        BY <1>1, <3>1, <3>3 DEF TempNode
      <3>5. full = [temp[h] EXCEPT !.text = w, !.synced = TRUE]
        BY <3>2
      <3>6. TempNode(c, c.want, TRUE) = [kind |-> "file", text |-> w, mode |-> m, synced |-> TRUE]
        BY <3>1, <3>2 DEF TempNode
      <3> HIDE <3>1, <3>2, <3>3 DEF full, c
      <3>7. PICK b : b = temp[h]
        OBVIOUS
      <3>8. b \in [kind : {"file"}, text : {e}, mode : {m}, synced : {FALSE}]
        BY <3>4, <3>7
      <3>9. [b EXCEPT !.text = w, !.synced = TRUE] \in [kind : {"file"}, text : {w}, mode : {m}, synced : {TRUE}]
        BY <3>8
      <3>10. ASSUME NEW x \in [kind : {"file"}, text : {w}, mode : {m}, synced : {TRUE}]
            PROVE  x = [kind |-> "file", text |-> w, mode |-> m, synced |-> TRUE]
        OBVIOUS
      <3> QED
        BY <3>5, <3>6, <3>7, <3>9, <3>10
    <2>4. temp'[h] = TempNode(d, d.want, TRUE)
      BY <1>5, <2>2, <2>3 DEF TypeOK, Onward, TempNode
    <2> HIDE DEF d
    <2>5. Temporary(d, temp'[h]) /\ Unraced(d, tree)
      BY <2>2, <2>4 DEF Temporary, Unraced, Onward
    <2> QED
      BY <1>1, <1>2, <1>3, <2>1, <2>2, <2>5, OnwardKeeps
  <1> QED
    BY <1>2, <1>4, <1>5

\* The second inspection saw what the first one saw: that starts the race.
LEMMA ReinspectKeeps ==
  ASSUME TypeOK, Inv, NEW h \in Hosts, Reinspect(h)
  PROVE  TypeOK' /\ Inv'
  <1> DEFINE c == call[h]
             seen == Inspected(Path(h))
  <1>1. /\ c.pc = "inspect" /\ UNCHANGED <<tree, disk>>
        /\ temp[h] = TempNode(c, c.want, TRUE)
    BY DEF Reinspect, Inv, Good, Temporary
  <1>2. /\ DOMAIN temp' = Hosts /\ \A g \in Hosts \ {h} : temp'[g] = temp[g]
        /\ \/ call' = Done(h, Committed(h, FALSE))
           \/ \E o : call' = Done(h, CommitOutcome(o))
           \/ /\ temp' = temp /\ SameObservation(c.seen, seen)
              /\ call' = [call EXCEPT ![h].pc = "rename", ![h].raced = FALSE]
    <2>1. "InspectTarget" # None /\ "Conflict" # None
      BY FilesAssumption DEF Refusals
    <2> DEFINE code == IF InspectFails(Path(h)) THEN "InspectTarget"
                       ELSE IF ~SameObservation(c.seen, seen) THEN "Conflict" ELSE None
    <2>2. \/ temp' = [temp EXCEPT ![h] = None] /\ call' = Done(h, Committed(h, FALSE))
          \/ temp' = [temp EXCEPT ![h] = None] /\ call' = Done(h, CommitOutcome(code))
          \/ /\ code = None /\ temp' = temp
             /\ call' = [call EXCEPT ![h].pc = "rename", ![h].raced = FALSE]
      BY DEF Reinspect
    <2>3. code = None => SameObservation(c.seen, seen)
      BY <2>1
    <2>4. temp' = temp \/ temp' = [temp EXCEPT ![h] = None]
      BY <2>2
    <2>5. DOMAIN temp' = Hosts /\ \A g \in Hosts \ {h} : temp'[g] = temp[g]
      BY <2>4 DEF TypeOK
    <2> HIDE DEF seen, code
    <2> QED
      BY <2>2, <2>3, <2>5
  <1>3. c.pc \in Working /\ c.pc \notin Replaced /\ c.pc \in Replacing
    BY <1>1 DEF Working, Replaced, Replacing
  <1>4. ASSUME NEW o, call' = Done(h, o), o.changed = FALSE PROVE TypeOK' /\ Inv'
    BY <1>1, <1>2, <1>3, <1>4, DoneKeeps
  <1>5. CASE /\ temp' = temp /\ SameObservation(c.seen, seen)
             /\ call' = [call EXCEPT ![h].pc = "rename", ![h].raced = FALSE]
    <2> DEFINE d == [c EXCEPT !.pc = "rename", !.raced = FALSE]
    <2>1. call' = [call EXCEPT ![h] = d]
      BY <1>5 DEF TypeOK
    <2>2. Onward(c, d, "rename") /\ d.raced = FALSE
      BY DEF TypeOK, Fields, Onward
    <2> HIDE DEF d
    <2>3. Temporary(d, temp'[h])
      BY <1>1, <1>5, <2>2 DEF Temporary, Onward, TempNode
    <2>4. Unraced(d, tree)
      BY <1>5, <2>2, InspectedIs DEF Unraced, Onward, SameObservation, Path
    <2> QED
      BY <1>1, <1>2, <1>3, <2>1, <2>2, <2>3, <2>4, OnwardKeeps
  <1> HIDE DEF seen
  <1> QED
    BY <1>2, <1>4, <1>5, OutcomeFacts, CommittedFacts

-----------------------------------------------------------------------------
(* Steps that others see *)

\* What noticing a change does to a call.
LEMMA NoticedIs ==
  ASSUME NEW calls, NEW path, NEW by, NEW g \in Hosts, DOMAIN calls[g] = Fields
  PROVE  /\ DOMAIN Noticed(calls, path, by) = Hosts
         /\ calls[g].req = None \/ g \in by => Noticed(calls, path, by)[g] = calls[g]
         /\ ~(calls[g].req = None \/ g \in by) =>
              LET d == Noticed(calls, path, by)[g] IN
              /\ DOMAIN d = Fields
              /\ d.raced = (calls[g].raced \/ calls[g].req.path.parts = path)
              /\ d.pc = calls[g].pc /\ d.req = calls[g].req /\ d.want = calls[g].want
              /\ d.seen = calls[g].seen /\ d.outcome = calls[g].outcome
              /\ d.touched = calls[g].touched /\ d.source = calls[g].source
  BY DEF Noticed, Fields

\* Whoever is not the author of a change of one entry stays good.
LEMMA OthersNotice ==
  ASSUME TypeOK, Inv, NEW calls, NEW path, NEW by, NEW g \in Hosts \ by, calls[g] = call[g],
         call' = Noticed(calls, path, by), temp'[g] = temp[g],
         \A p \in Paths \ {path} : tree'[p] = tree[p] /\ disk'[p] = disk[p]
  PROVE  DOMAIN call'[g] = Fields /\ Good(g, call'[g], temp'[g], tree', disk')
  <1>1. DOMAIN call[g] = Fields /\ Good(g, call[g], temp[g], tree, disk)
    BY DEF TypeOK, Inv
  <1>2. CASE call[g].req = None
    <2>1. call'[g] = call[g]
      BY <1>1, <1>2, NoticedIs
    <2>2. call[g].pc \notin Working \cup Ended
      BY <1>1, <1>2, FilesAssumption DEF Good, Progress
    <2>3. Planned(call[g]) /\ Temporary(call[g], temp[g]) /\ Progress(call[g])
      BY <1>1 DEF Good
    <2>4. Unraced(call[g], tree') /\ Durable(g, call[g], tree', disk')
      BY <2>2 DEF Unraced, Durable, Working, Replacing, Replaced
    <2> QED
      BY <1>1, <2>1, <2>3, <2>4 DEF Good
  <1>3. CASE call[g].req # None
    <2> DEFINE d == call'[g]
    <2>1. /\ DOMAIN d = Fields
          /\ d.raced = (call[g].raced \/ call[g].req.path.parts = path)
          /\ d.pc = call[g].pc /\ d.req = call[g].req /\ d.want = call[g].want
          /\ d.seen = call[g].seen /\ d.outcome = call[g].outcome
          /\ d.touched = call[g].touched
      BY <1>1, <1>3, NoticedIs
    <2> HIDE DEF d
    <2>2. Good(g, d, temp[g], tree', disk')
      BY <1>1, <2>1, NoticedGood, SMTT(30)
    <2> QED
      BY <2>1, <2>2 DEF d
  <1> QED
    BY <1>2, <1>3

\* The rename puts a complete, synced file in place of the target, and whoever
\* works on the same entry knows.
LEMMA RenameKeeps ==
  ASSUME TypeOK, Inv, NEW h \in Hosts, Rename(h)
  PROVE  TypeOK' /\ Inv'
  <1> DEFINE c == call[h]
  <1>1. /\ c.pc = "rename" /\ temp' = [temp EXCEPT ![h] = None] /\ UNCHANGED disk
        /\ Good(h, c, temp[h], tree, disk)
    BY DEF Rename, Inv
  <1>2. DOMAIN temp' = Hosts /\ \A g \in Hosts \ {h} : temp'[g] = temp[g]
    BY <1>1 DEF TypeOK
  <1>3. c.pc \in Working /\ c.pc \in Replacing
    BY <1>1 DEF Working, Replacing
  <1>4. c.req \in Requests /\ c.raced \in BOOLEAN /\ c.outcome = None /\ c.want \in Texts
    BY <1>1, <1>3 DEF Good, Progress, Planned
  <1>5. temp[h] \in Node /\ temp[h].text = c.want
    <2>1. temp[h] = TempNode(c, c.want, TRUE)
      BY <1>1 DEF Good, Temporary
    <2>2. c.seen = None \/ c.seen \in [text: Texts, mode: Nat]
      BY <1>1, <1>3 DEF Good, Planned
    <2>3. (IF c.seen = None THEN 1 ELSE c.seen.mode) \in Nat
      BY <2>2
    <2> QED
      BY <1>4, <2>1, <2>3 DEF TempNode, Node
  <1>6. CASE UNCHANGED tree /\ call' = Done(h, CommitOutcome("CommitRenameUnknown"))
    BY <1>1, <1>2, <1>3, <1>6, DoneKeeps, OutcomeFacts
  <1>7. ASSUME NEW ok \in BOOLEAN, tree' = [tree EXCEPT ![Path(h)] = temp[h]],
               call' = Noticed([call EXCEPT ![h].touched = TRUE,
                                  ![h].pc = IF ok THEN "sync" ELSE "done",
                                  ![h].outcome = IF ok THEN @ ELSE CommitOutcome("CommitRenameUnknown")],
                               Path(h), {h})
        PROVE  TypeOK' /\ Inv'
    <2>1. PICK path \in Paths : path = Path(h)
      BY <1>4, TargetKnown DEF Path
    <2>2. tree' \in [Paths -> Node] /\ disk' \in [Paths -> Node]
      BY <1>1, <1>5, <1>7 DEF TypeOK
    <2>3. /\ tree'[path].text = c.want
          /\ \A p \in Paths \ {path} : tree'[p] = tree[p] /\ disk'[p] = disk[p]
      BY <1>1, <1>5, <1>7, <2>1 DEF TypeOK
    <2> DEFINE o == IF ok THEN c.outcome ELSE CommitOutcome("CommitRenameUnknown")
               d == [c EXCEPT !.touched = TRUE, !.pc = IF ok THEN "sync" ELSE "done", !.outcome = o]
               calls == [call EXCEPT ![h] = d]
    <2>4. call' = Noticed(calls, path, {h})
      <3>1. calls = [call EXCEPT ![h].touched = TRUE,
                                 ![h].pc = IF ok THEN "sync" ELSE "done",
                                 ![h].outcome = IF ok THEN @ ELSE CommitOutcome("CommitRenameUnknown")]
        BY DEF TypeOK, Fields
      <3> QED
        BY <1>7, <2>1, <3>1
    <2>5. /\ DOMAIN d = Fields /\ d.touched = TRUE /\ d.req = c.req /\ d.want = c.want
          /\ d.raced = c.raced /\ d.outcome = o
          /\ IF ok THEN d.pc = "sync" ELSE d.pc = "done"
      BY DEF TypeOK, Fields
    <2>6. /\ o.changed = FALSE \/ ok
          /\ ~ok => o.status = "Unknown"
          /\ ok => o = None
      BY <1>4, OutcomeFacts
    <2> HIDE DEF d, o
    <2>7. /\ DOMAIN calls = Hosts /\ calls[h] = d
          /\ \A g \in Hosts \ {h} : calls[g] = call[g]
      BY DEF TypeOK
    <2> HIDE DEF calls
    <2>8. DOMAIN call' = Hosts /\ call'[h] = d
      BY <2>4, <2>5, <2>7, NoticedIs
    <2>9. Good(h, d, temp'[h], tree', disk')
      <3>1. /\ d.pc \notin Replacing /\ d.pc \notin {"idle", "gone", "source", "open", "confirm"}
            /\ ok => d.pc \in Working /\ d.pc \in Replaced /\ d.pc \notin Ended
            /\ ~ok => d.pc \in Ended /\ d.pc \notin Working /\ d.pc \notin Replaced /\ d.pc # "sync"
            /\ d.pc \in Working \cup Ended
        BY <2>5 DEF Working, Replaced, Replacing, Ended
      <3>2. Progress(d)
        BY <1>4, <2>5, <2>6, <3>1 DEF Progress, Honest
      <3>3. Planned(d) /\ Temporary(d, temp'[h]) /\ Unraced(d, tree')
        BY <1>4, <2>5, <3>1 DEF Planned, Temporary, Unraced, Replacing
      <3>4. d.req.path.parts = path
        BY <2>1, <2>5 DEF Path
      <3>5. Durable(h, d, tree', disk')
        BY <2>3, <2>5, <2>6, <3>1, <3>4 DEF Durable
      <3> QED
        BY <3>2, <3>3, <3>5 DEF Good
    <2>10. ASSUME NEW g \in Hosts \ {h}
           PROVE  DOMAIN call'[g] = Fields /\ Good(g, call'[g], temp'[g], tree', disk')
      BY <1>2, <2>3, <2>4, <2>7, OthersNotice
    <2>11. \A g \in Hosts : DOMAIN call'[g] = Fields /\ Good(g, call'[g], temp'[g], tree', disk')
      BY <2>5, <2>8, <2>9, <2>10
    <2> QED
      BY <1>2, <2>2, <2>8, <2>11 DEF TypeOK, Inv
  <1> QED
    BY <1>6, <1>7 DEF Rename

\* The sync of the directory brings the target to the disk; a host that is not
\* on Unix promises nothing.
LEMMA SyncParentKeeps ==
  ASSUME TypeOK, Inv, NEW h \in Hosts, SyncParent(h)
  PROVE  TypeOK' /\ Inv'
  <1> DEFINE c == call[h]
  <1>1. c.pc = "sync" /\ UNCHANGED <<tree, temp>> /\ Good(h, c, temp[h], tree, disk)
    BY DEF SyncParent, Inv
  <1>2. c.pc \in Working /\ c.pc \in Replaced
    BY <1>1 DEF Working, Replaced
  <1>3. c.req \in Requests /\ c.raced \in BOOLEAN /\ c.want \in Texts /\ c.touched \in BOOLEAN
    BY <1>1, <1>2 DEF Good, Progress, Planned
  <1>4. CASE UNCHANGED disk /\ call' = Done(h, CommitOutcome("CommitSyncUnknown"))
    BY <1>1, <1>2, <1>4, DoneKeeps, OutcomeFacts DEF TypeOK
  <1>5. CASE /\ \/ disk' = [disk EXCEPT ![Path(h)] = WrittenBack(tree[Path(h)])]
                \/ h \notin UnixHosts /\ UNCHANGED disk
             /\ call' = [call EXCEPT ![h].pc = "confirm"]
    <2>1. PICK path \in Paths : path = c.req.path.parts
      BY <1>3, TargetKnown
    <2>2. disk' = [disk EXCEPT ![path] = tree[path]] \/ (h \notin UnixHosts /\ UNCHANGED disk)
      BY <1>5, <2>1, SyncedBack DEF TypeOK, Path
    <2> DEFINE d == [c EXCEPT !.pc = "confirm"]
    <2>3. call' = [call EXCEPT ![h] = d]
      BY <1>5 DEF TypeOK
    <2>4. /\ DOMAIN d = Fields /\ d.pc = "confirm" /\ d.req = c.req /\ d.want = c.want
          /\ d.touched = c.touched /\ d.raced = c.raced /\ d.outcome = c.outcome
      BY DEF TypeOK, Fields
    <2> HIDE DEF d
    <2>5. StepOf(h) /\ call'[h] = d
      BY <1>1, <2>2, <2>3, <2>4 DEF TypeOK, StepOf
    <2>6. /\ d.pc \in Working /\ d.pc \in Replaced /\ d.pc \notin Ended /\ d.pc \notin Replacing
      BY <2>4 DEF Working, Replaced, Replacing, Ended
    <2>7. Progress(d)
      BY <1>1, <1>2, <2>4, <2>6 DEF Good, Progress
    <2>8. Planned(d) /\ Temporary(d, temp'[h]) /\ Unraced(d, tree)
      BY <1>3, <2>4, <2>6 DEF Planned, Temporary, Unraced
    <2>9. Durable(h, d, tree, disk')
      <3>1. h \in UnixHosts => disk'[path] = tree[path]
        BY <2>2 DEF TypeOK
      <3>2. h \in UnixHosts /\ ~c.raced => tree[path].text = c.want
        BY <1>1, <2>1 DEF Good, Durable
      <3> QED
        BY <2>1, <2>4, <3>1, <3>2 DEF Durable
    <2>10. Good(h, call'[h], temp'[h], tree, disk')
      BY <2>5, <2>7, <2>8, <2>9 DEF Good
    <2> QED
      BY <2>5, <2>10, StepKeeps
  <1> QED
    BY <1>4, <1>5 DEF SyncParent

\* A change is claimed only past the sync.
LEMMA ConfirmKeeps ==
  ASSUME TypeOK, Inv, NEW h \in Hosts, Confirm(h)
  PROVE  TypeOK' /\ Inv'
  <1> DEFINE c == call[h]
             o == Committed(h, TRUE)
             d == call'[h]
  <1>1. c.pc = "confirm" /\ UNCHANGED <<tree, disk, temp>> /\ Good(h, c, temp[h], tree, disk)
    BY DEF Confirm, Inv
  <1>2. c.pc \in Working /\ c.pc \in Replaced
    BY <1>1 DEF Working, Replaced
  <1>3. CASE call' = Done(h, CommitOutcome("CommitVerifyUnknown"))
    BY <1>1, <1>2, <1>3, DoneKeeps, OutcomeFacts DEF TypeOK
  <1>4. CASE call' = Done(h, o)
    <2>1. StepOf(h) /\ Finished(c, d, o)
      BY <1>1, <1>4, DoneIs DEF StepOf, TypeOK
    <2>2. o.changed = TRUE
      BY CommittedFacts
    <2> HIDE DEF d, o
    <2>3. c.touched = TRUE /\ c.req \in Requests /\ c.raced \in BOOLEAN
      BY <1>1, <1>2 DEF Good, Progress
    <2>4. d.pc \in Ended /\ d.pc \notin Working /\ d.pc \notin {"idle", "gone"} /\ d.pc \notin Replacing
          /\ d.pc \notin Replaced
      BY <2>1 DEF Finished, Ended, Working, Replacing, Replaced
    <2>5. Progress(d)
      BY <2>1, <2>2, <2>3, <2>4 DEF Finished, Progress, Honest
    <2>6. Planned(d) /\ Temporary(d, temp'[h]) /\ Unraced(d, tree)
      BY <2>1, <2>4 DEF Finished, Planned, Temporary, Unraced
    <2>7. Durable(h, d, tree, disk)
      BY <1>1, <2>1 DEF Finished, Good, Durable
    <2>8. Good(h, call'[h], temp'[h], tree, disk')
      BY <1>1, <2>5, <2>6, <2>7 DEF Good, d
    <2> QED
      BY <2>1, <2>8, StepKeeps
  <1> QED
    BY <1>3, <1>4 DEF Confirm

\* A verifier's report is the next step of the call, and only that changes.
LEMMA VerifyKeeps ==
  ASSUME TypeOK, Inv, NEW h \in Hosts,
         VerifyWrite(h) \/ VerifyPatch(h) \/ VerifyRead(h) \/ VerifyQuery(h)
  PROVE  TypeOK' /\ Inv'
  <1> DEFINE c == call[h]
  <1>1. c.pc = "done" /\ UNCHANGED <<tree, disk, temp>> /\ Good(h, c, temp[h], tree, disk)
    BY DEF VerifyWrite, VerifyPatch, VerifyRead, VerifyQuery, Verifying, Inv
  <1>2. \E pc \in Ended : call' = [call EXCEPT ![h].pc = pc]
    <2>1. \A b, i \in BOOLEAN : VerifiedMutation(h, b, i) \in Ended
      BY DEF VerifiedMutation, Ended
    <2>2. CASE VerifyWrite(h) \/ VerifyPatch(h)
      <3>1. /\ WriteContract(c.req) \in BOOLEAN /\ PatchContract(c.req) \in BOOLEAN
            /\ InspectWrite(c.outcome.output, c.outcome.evidence) \in BOOLEAN
            /\ InspectPatch(c.outcome.output, c.outcome.evidence) \in BOOLEAN
        BY DEF WriteContract, PatchContract, InspectWrite, InspectPatch
      <3> QED
        BY <2>1, <2>2, <3>1 DEF VerifyWrite, VerifyPatch
    <2>3. CASE VerifyRead(h)
      BY <2>3 DEF VerifyRead, Ended
    <2>4. CASE VerifyQuery(h)
      BY <2>4 DEF VerifyQuery, Ended
    <2> QED
      BY <2>2, <2>3, <2>4
  <1>3. PICK pc \in Ended : call' = [call EXCEPT ![h].pc = pc]
    BY <1>2
  <1> DEFINE d == [c EXCEPT !.pc = pc]
  <1>4. call' = [call EXCEPT ![h] = d]
    BY <1>3 DEF TypeOK
  <1>5. /\ DOMAIN d = Fields /\ d.pc = pc /\ d.req = c.req /\ d.want = c.want
        /\ d.touched = c.touched /\ d.raced = c.raced /\ d.outcome = c.outcome
    BY DEF TypeOK, Fields
  <1> HIDE DEF d
  <1>6. StepOf(h) /\ call'[h] = d
    BY <1>1, <1>4, <1>5 DEF TypeOK, StepOf
  <1>7. c.pc \in Ended
    BY <1>1 DEF Ended
  <1>8. Good(h, d, temp[h], tree, disk)
    BY <1>1, <1>5, <1>7, VerifiedGood
  <1> QED
    BY <1>1, <1>6, <1>8, StepKeeps

\* An editor replaces one entry with a sound one.
LEMMA EditKeeps ==
  ASSUME TypeOK, Inv, Edit
  PROVE  TypeOK' /\ Inv'
  <1>1. PICK path \in Paths, n \in EditNodes :
          /\ tree' = [tree EXCEPT ![path] = n] /\ disk' = [disk EXCEPT ![path] = n]
          /\ call' = Noticed(call, path, {}) /\ temp' = temp
    BY DEF Edit
  <1>2. n \in Node
    BY FilesAssumption
  <1>3. tree' \in [Paths -> Node] /\ disk' \in [Paths -> Node]
    BY <1>1, <1>2 DEF TypeOK
  <1>4. \A p \in Paths \ {path} : tree'[p] = tree[p] /\ disk'[p] = disk[p]
    BY <1>1 DEF TypeOK
  <1>5. ASSUME NEW g \in Hosts
        PROVE  DOMAIN call'[g] = Fields /\ Good(g, call'[g], temp'[g], tree', disk')
    <2>1. PICK by : by = {}
      OBVIOUS
    <2>2. g \in Hosts \ by /\ call' = Noticed(call, path, by)
      BY <1>1, <2>1
    <2> HIDE <2>1
    <2> QED
      BY <1>1, <1>4, <2>2, OthersNotice
  <1>6. DOMAIN call' = Hosts
    BY <1>1 DEF Noticed
  <1> QED
    BY <1>1, <1>3, <1>5, <1>6 DEF TypeOK, Inv

\* The system writes entries back.
LEMMA WriteBackKeeps ==
  ASSUME TypeOK, Inv, WriteBack
  PROVE  TypeOK' /\ Inv'
  <1>1. PICK path \in Paths : disk' = [disk EXCEPT ![path] = WrittenBack(tree[path])]
    BY DEF WriteBack
  <1>2. disk' = [disk EXCEPT ![path] = tree[path]] /\ UNCHANGED <<tree, temp, call>>
    BY <1>1, SyncedBack DEF TypeOK, WriteBack
  <1>3. disk' \in [Paths -> Node] /\ \A p \in Paths : disk'[p] = disk[p] \/ disk'[p] = tree[p]
    BY <1>2 DEF TypeOK
  <1>4. ASSUME NEW g \in Hosts PROVE Good(g, call[g], temp[g], tree, disk')
    BY <1>3, WriteBackGood DEF Inv
  <1> QED
    BY <1>2, <1>3, <1>4 DEF TypeOK, Inv

\* A host that ends leaves a call that claims nothing.
LEMMA CrashKeeps ==
  ASSUME TypeOK, Inv, NEW h \in Hosts, Crash(h)
  PROVE  TypeOK' /\ Inv'
  <1>1. call' = [call EXCEPT ![h] = Gone] /\ UNCHANGED <<tree, disk, temp>>
    BY DEF Crash
  <1>2. StepOf(h) /\ call'[h] = Gone
    BY <1>1, RestFields DEF TypeOK, StepOf
  <1>3. Good(h, call'[h], temp'[h], tree, disk')
    BY <1>2, RestFields, RestGood
  <1> QED
    BY <1>2, <1>3, StepKeeps

\* A power loss leaves of the ended calls what they acknowledged.
LEMMA PowerLossKeeps ==
  ASSUME TypeOK, Inv, PowerLoss
  PROVE  TypeOK' /\ Inv'
  <1>1. tree' = disk /\ UNCHANGED <<disk, temp>> /\ DOMAIN call' = Hosts
    BY DEF PowerLoss
  <1>2. ASSUME NEW g \in Hosts
        PROVE  DOMAIN call'[g] = Fields /\ Good(g, call'[g], temp[g], disk, disk)
    <2> DEFINE c == call[g]
    <2>1. call'[g] = Idle \/ call'[g] = Gone
            \/ (c.outcome # None /\ call'[g] = [c EXCEPT !.stale = TRUE])
      BY DEF PowerLoss
    <2>2. CASE call'[g] = Idle \/ call'[g] = Gone
      BY <2>2, RestFields, RestGood
    <2>3. CASE c.outcome # None /\ call'[g] = [c EXCEPT !.stale = TRUE]
      <3> DEFINE d == call'[g]
      <3>1. /\ DOMAIN d = Fields /\ d.pc = c.pc /\ d.req = c.req /\ d.want = c.want
            /\ d.touched = c.touched /\ d.raced = c.raced /\ d.outcome = c.outcome
        BY <2>3 DEF TypeOK, Fields
      <3> HIDE DEF d
      <3>2. Good(g, c, temp[g], tree, disk)
        BY DEF Inv
      <3>3. c.pc \in Ended
        BY <2>3, <3>2 DEF Good, Progress
      <3>4. Good(g, d, temp[g], tree, disk)
        BY <3>1, <3>2, <3>3, VerifiedGood
      <3>5. Unraced(d, disk) /\ Durable(g, d, disk, disk)
        BY <3>1, <3>3, <3>4 DEF Good, Unraced, Durable, Ended
      <3> QED
        BY <3>1, <3>4, <3>5 DEF Good, d
    <2> QED
      BY <2>1, <2>2, <2>3
  <1> QED
    BY <1>1, <1>2 DEF TypeOK, Inv

-----------------------------------------------------------------------------
(* The theorems *)

\* A workspace before the first call.
LEMMA InvInit == Init => TypeOK /\ Inv
  <1> SUFFICES ASSUME Init PROVE TypeOK /\ Inv
    OBVIOUS
  <1>1. TypeOK
    BY FilesAssumption, RestFields DEF Init, TypeOK
  <1>2. ASSUME NEW h \in Hosts PROVE Good(h, call[h], temp[h], tree, disk)
    <2>1. call[h] = Idle
      BY DEF Init
    <2> QED
      BY <2>1, RestFields, RestGood
  <1> QED
    BY <1>1, <1>2 DEF Inv

\* Every system call of every host, and everything else that happens to the
\* workspace, keeps the invariant.
LEMMA InvNext == TypeOK /\ Inv /\ [Next]_vars => TypeOK' /\ Inv'
  <1> SUFFICES ASSUME TypeOK, Inv, [Next]_vars PROVE TypeOK' /\ Inv'
    OBVIOUS
  <1>1. ASSUME NEW h \in Hosts,
               Prepare(h) \/ Read(h) \/ ReadSource(h) \/ InspectTarget(h) \/ CreateTemporary(h)
                 \/ WriteTemporary(h) \/ Reinspect(h) \/ Rename(h) \/ SyncParent(h) \/ Confirm(h)
        PROVE  TypeOK' /\ Inv'
    BY <1>1, PrepareKeeps, ReadingKeeps, ReadSourceKeeps, InspectTargetKeeps, CreateTemporaryKeeps,
       WriteTemporaryKeeps, ReinspectKeeps, RenameKeeps, SyncParentKeeps, ConfirmKeeps
  <1>2. ASSUME NEW h \in Hosts,
               Stat(h) \/ ListEnter(h) \/ ListEntry(h) \/ ListFinish(h) \/ SearchEnter(h)
                 \/ SearchNext(h) \/ SearchFinish(h) \/ VerifyWrite(h) \/ VerifyPatch(h)
                 \/ VerifyRead(h) \/ VerifyQuery(h) \/ Crash(h)
        PROVE  TypeOK' /\ Inv'
    BY <1>2, ReadingKeeps, WalkKeeps, VerifyKeeps, CrashKeeps
  <1>3. CASE Edit \/ WriteBack \/ PowerLoss
    BY <1>3, EditKeeps, WriteBackKeeps, PowerLossKeeps
  <1>4. CASE UNCHANGED vars
    BY <1>4 DEF vars, TypeOK, Inv
  <1> QED
    BY <1>1, <1>2, <1>3, <1>4 DEF Next

\* The invariant holds in every state of the workspace.
THEOREM InvAlways == Spec => [](TypeOK /\ Inv)
  BY InvInit, InvNext, PTL DEF Spec

\* A failure, or a success that changed nothing, never replaced its target, and
\* one that claims a change did: commit_atomic reports every error from the
\* rename on as unknown.
THEOREM OutcomeIsHonestAlways == Spec => []OutcomeIsHonest
  <1>1. TypeOK /\ Inv => OutcomeIsHonest
    <2> SUFFICES ASSUME Inv, NEW h \in Hosts,
                        call[h].outcome # None /\ call[h].outcome.status # "Unknown"
                 PROVE  call[h].touched = call[h].outcome.changed
      BY DEF OutcomeIsHonest
    <2>1. Progress(call[h])
      BY DEF Inv, Good
    <2>2. call[h].pc \in Ended
      BY <2>1 DEF Progress
    <2> QED
      BY <2>1, <2>2 DEF Progress, Honest
  <1> QED
    BY <1>1, InvAlways, PTL

\* A step of the call from c to d does not replace its target, and leaves the text
\* it asks for.
Settled(c, d) ==
    /\ d.touched => c.touched
    /\ d.source = None \/ (d.source = c.source /\ d.want = c.want /\ d.req = c.req)

\* Nor does it with any other call: only a rename replaces a target, and only the
\* reading of a source changes what is asked for.
Untouched == \A g \in Hosts : Settled(call[g], call'[g])

\* Ending a call does not.
LEMMA DoneUntouched ==
  ASSUME TypeOK, NEW h \in Hosts, NEW o, call' = Done(h, o) PROVE Untouched
  <1>1. ASSUME NEW g \in Hosts PROVE Settled(call[g], call'[g])
    BY DoneIs DEF Finished, Settled
  <1> QED
    BY <1>1 DEF Untouched

\* Nor does any other step of a host.
LEMMA HostUntouched ==
  ASSUME TypeOK, Inv, NEW h \in Hosts,
         \/ Prepare(h) \/ Read(h)
         \/ InspectTarget(h) \/ CreateTemporary(h) \/ WriteTemporary(h) \/ Reinspect(h)
         \/ SyncParent(h) \/ Confirm(h)
         \/ Stat(h) \/ ListEnter(h) \/ ListEntry(h) \/ ListFinish(h)
         \/ SearchEnter(h) \/ SearchNext(h) \/ SearchFinish(h)
         \/ VerifyWrite(h) \/ VerifyPatch(h) \/ VerifyRead(h) \/ VerifyQuery(h)
         \/ Crash(h)
  PROVE  Untouched
  <1>1. CASE Prepare(h)
    <2>1. PICK r \in Requests :
            call' = [call EXCEPT ![h] = [Idle EXCEPT
                        !.req = r,
                        !.pc = CASE r.op = "write-atomic" -> "open"
                                 [] r.op = "apply-patch" -> "source"
                                 [] r.op = "read-text" -> "read"
                                 [] r.op = "stat" -> "stat"
                                 [] OTHER -> "enter",
                        !.want = IF r.op = "write-atomic" THEN r.text ELSE None]]
      BY <1>1 DEF Prepare
    <2>2. call'[h].touched = FALSE /\ call'[h].source = None
      BY <2>1 DEF Idle, TypeOK
    <2>3. ASSUME NEW g \in Hosts \ {h} PROVE call'[g] = call[g]
      BY <2>1 DEF TypeOK
    <2> QED
      BY <2>2, <2>3 DEF Untouched, Settled
  <1>11. CASE Crash(h)
    <2>1. call' = [call EXCEPT ![h] = Gone] /\ Gone.touched = FALSE /\ Gone.source = None
      BY <1>11, RestFields DEF Crash, Resting
    <2> QED
      BY <2>1 DEF TypeOK, Untouched, Settled
  <1>2. CASE Read(h) \/ ListFinish(h) \/ SearchFinish(h) \/ Confirm(h)
    <2>1. \E o : call' = Done(h, o)
      BY <1>2 DEF Read, ListFinish, SearchFinish, Confirm
    <2> QED
      BY <2>1, DoneUntouched
  <1>3. CASE Stat(h)
    <2>1. \E o : call' = Done(h, o)
      BY <1>3 DEF Stat
    <2> QED
      BY <2>1, DoneUntouched
  <1>4. ASSUME NEW pc, NEW w, NEW x,
               \/ call' = [call EXCEPT ![h].pc = pc]
               \/ call' = [call EXCEPT ![h].walk = w]
               \/ call' = [call EXCEPT ![h].pc = pc, ![h].walk = w, ![h].stale = FALSE]
               \/ call' = [call EXCEPT ![h].pc = pc, ![h].stale = FALSE, ![h].walk = w]
               \/ call' = [call EXCEPT ![h].pc = pc, ![h].raced = FALSE]
               \/ call' = [call EXCEPT ![h].pc = pc, ![h].seen = x]
        PROVE  Untouched
    <2>1. ASSUME NEW g \in Hosts
          PROVE  /\ call'[g].touched = call[g].touched /\ call'[g].source = call[g].source
                 /\ call'[g].want = call[g].want /\ call'[g].req = call[g].req
      BY <1>4 DEF TypeOK, Fields
    <2> QED
      BY <2>1 DEF Untouched, Settled
  <1>5. CASE InspectTarget(h)
    <2>1. \/ \E o : call' = Done(h, o)
          \/ \E x : call' = [call EXCEPT ![h].pc = "temp", ![h].seen = x]
      BY <1>5 DEF InspectTarget
    <2> QED
      BY <1>4, <2>1, DoneUntouched
  <1>6. CASE CreateTemporary(h) \/ WriteTemporary(h) \/ SyncParent(h)
    <2>1. \/ \E o : call' = Done(h, o)
          \/ \E pc : call' = [call EXCEPT ![h].pc = pc]
      BY <1>6 DEF CreateTemporary, WriteTemporary, SyncParent
    <2> QED
      BY <1>4, <2>1, DoneUntouched
  <1>7. CASE Reinspect(h)
    <2>1. \/ \E o : call' = Done(h, o)
          \/ call' = [call EXCEPT ![h].pc = "rename", ![h].raced = FALSE]
      BY <1>7 DEF Reinspect
    <2> QED
      BY <1>4, <2>1, DoneUntouched
  <1>8. CASE ListEnter(h) \/ SearchEnter(h)
    <2>1. \/ \E o : call' = Done(h, o)
          \/ \E w : call' = [call EXCEPT ![h].pc = "list", ![h].stale = FALSE, ![h].walk = w]
          \/ \E w : call' = [call EXCEPT ![h].pc = "search", ![h].walk = w, ![h].stale = FALSE]
      BY <1>8 DEF ListEnter, SearchEnter
    <2> QED
      BY <1>4, <2>1, DoneUntouched
  <1>9. CASE ListEntry(h) \/ SearchNext(h)
    <2>1. \E w : call' = [call EXCEPT ![h].walk = w]
      BY <1>9 DEF ListEntry, SearchNext
    <2> QED
      BY <1>4, <2>1
  <1>10. CASE VerifyWrite(h) \/ VerifyPatch(h) \/ VerifyRead(h) \/ VerifyQuery(h)
    <2>1. \E pc : call' = [call EXCEPT ![h].pc = pc]
      BY <1>10 DEF VerifyWrite, VerifyPatch, VerifyRead, VerifyQuery
    <2> QED
      BY <1>4, <2>1
  <1> QED
    BY <1>1, <1>2, <1>3, <1>5, <1>6, <1>7, <1>8, <1>9, <1>10, <1>11

\* Nor does anything else in the workspace.
LEMMA OthersUntouched ==
  ASSUME TypeOK, Edit \/ WriteBack \/ PowerLoss PROVE Untouched
  <1>1. ASSUME NEW g \in Hosts, NEW path PROVE Settled(call[g], Noticed(call, path, {})[g])
    <2>1. DOMAIN call[g] = Fields
      BY DEF TypeOK
    <2> QED
      BY <2>1 DEF Noticed, Fields, Settled
  <1>2. CASE Edit
    BY <1>1, <1>2 DEF Edit, Untouched
  <1>3. CASE WriteBack
    BY <1>3 DEF WriteBack, Untouched, Settled
  <1>4. CASE PowerLoss
    <2>1. ASSUME NEW g \in Hosts PROVE Settled(call[g], call'[g])
      <3>1. call'[g] = Idle \/ call'[g] = Gone \/ call'[g] = [call[g] EXCEPT !.stale = TRUE]
        BY <1>4 DEF PowerLoss
      <3>2. CASE call'[g] = [call[g] EXCEPT !.stale = TRUE]
        BY <3>2 DEF TypeOK, Fields, Settled
      <3> QED
        BY <3>1, <3>2, RestFields DEF Resting, Settled
    <2> QED
      BY <2>1 DEF Untouched
  <1> QED
    BY <1>2, <1>3, <1>4

\* The source of a patch: the text is derived from it, and nothing is replaced.
LEMMA SourceUntouched ==
  ASSUME TypeOK, NEW h \in Hosts, ReadSource(h) PROVE \A g \in Hosts : call'[g].touched => call[g].touched
  <1>1. \/ \E o : call' = Done(h, o)
        \/ \E y, z : call' = [call EXCEPT ![h].pc = "open", ![h].source = y, ![h].want = z]
    BY DEF ReadSource
  <1>2. ASSUME NEW y, NEW z, call' = [call EXCEPT ![h].pc = "open", ![h].source = y, ![h].want = z],
               NEW g \in Hosts
        PROVE  call'[g].touched = call[g].touched
    BY <1>2 DEF TypeOK, Fields
  <1> QED
    BY <1>1, <1>2, DoneUntouched DEF Untouched, Settled

\* A rename replaces the target of its own call only.
LEMMA RenameTouches ==
  ASSUME TypeOK, Inv, NEW g \in Hosts, Rename(g), NEW h \in Hosts, ~call[h].touched, call'[h].touched
  PROVE  call[h].pc = "rename" /\ tree' = [tree EXCEPT ![Path(h)] = temp[h]]
  <1>1. CASE call' = Done(g, CommitOutcome("CommitRenameUnknown"))
    BY <1>1, DoneUntouched DEF Untouched, Settled
  <1>2. ASSUME NEW ok \in BOOLEAN, tree' = [tree EXCEPT ![Path(g)] = temp[g]],
               call' = Noticed([call EXCEPT ![g].touched = TRUE,
                                  ![g].pc = IF ok THEN "sync" ELSE "done",
                                  ![g].outcome = IF ok THEN @ ELSE CommitOutcome("CommitRenameUnknown")],
                               Path(g), {g}),
               h # g
        PROVE  FALSE
    <2> DEFINE calls == [call EXCEPT ![g].touched = TRUE,
                                  ![g].pc = IF ok THEN "sync" ELSE "done",
                                  ![g].outcome = IF ok THEN @ ELSE CommitOutcome("CommitRenameUnknown")]
    <2>1. calls[h] = call[h] /\ DOMAIN call[h] = Fields
      BY <1>2 DEF TypeOK
    <2>2. call' = Noticed(calls, Path(g), {g})
      BY <1>2
    <2> HIDE DEF calls
    <2>3. call'[h].touched = call[h].touched
      BY <2>1, <2>2, NoticedIs
    <2> QED
      BY <2>3
  <1> QED
    BY <1>1, <1>2 DEF Rename

\* A commit replaces what its precondition names and keeps its permissions unless
\* someone else changed the target between its second inspection and its rename:
\* that is the only window of commit_atomic, for any number of hosts and editors.
THEOREM OnlyRacesAreLostAlways == Spec => OnlyRacesAreLost
  <1> DEFINE Lost(h) ==
        ~call[h].touched /\ call'[h].touched =>
            \/ call[h].raced
            \/ /\ PreconditionHolds(Inspected(Path(h)), call[h].req)
               /\ tree[Path(h)].kind = "file" => tree'[Path(h)].mode = tree[Path(h)].mode
  <1>1. ASSUME TypeOK, Inv, Next, NEW h \in Hosts PROVE Lost(h)
    <2> SUFFICES ASSUME ~call[h].touched, call'[h].touched, ~call[h].raced
                 PROVE  /\ PreconditionHolds(Inspected(Path(h)), call[h].req)
                        /\ tree[Path(h)].kind = "file" => tree'[Path(h)].mode = tree[Path(h)].mode
      OBVIOUS
    <2> DEFINE c == call[h]
    <2>1. c.pc = "rename" /\ tree' = [tree EXCEPT ![Path(h)] = temp[h]]
      BY <1>1, HostUntouched, OthersUntouched, SourceUntouched, RenameTouches DEF Next, Untouched, Settled
    <2>2. Good(h, c, temp[h], tree, disk)
      BY <1>1 DEF Inv
    <2>3. Inspected(Path(h)) = c.seen
      BY <2>1, <2>2, InspectedIs DEF Good, Unraced, Path
    <2>4. PreconditionHolds(c.seen, c.req) /\ c.req \in Requests
      BY <2>1, <2>2 DEF Good, Planned, Progress, Replacing, Working
    <2>5. Path(h) \in Paths
      BY <2>4, TargetKnown DEF Path
    <2>6. temp[h].mode = IF c.seen = None THEN 1 ELSE c.seen.mode
      BY <2>1, <2>2 DEF Good, Temporary, TempNode
    <2>7. tree[Path(h)] \in Node
      BY <1>1, <2>5 DEF TypeOK
    <2>8. ASSUME tree[Path(h)].kind = "file" PROVE tree'[Path(h)].mode = tree[Path(h)].mode
      <3>1. c.seen = [text |-> tree[Path(h)].text, mode |-> tree[Path(h)].mode]
        BY <2>3, <2>8 DEF Inspected
      <3>2. c.seen \in [text: Texts, mode: Nat]
        <4>1. PICK n \in Node : n = tree[Path(h)]
          BY <2>7
        <4>2. n.text \in Texts /\ n.mode \in Nat
          BY DEF Node
        <4> QED
          BY <3>1, <4>1, <4>2
      <3>3. c.seen # None /\ c.seen.mode = tree[Path(h)].mode
        BY <3>1, <3>2, FilesAssumption
      <3> QED
        BY <1>1, <2>1, <2>5, <2>6, <3>3 DEF TypeOK
    <2> QED
      BY <2>3, <2>4, <2>8
  <1>2. ASSUME TypeOK, Inv, UNCHANGED vars, NEW h \in Hosts PROVE Lost(h)
    BY <1>2 DEF vars
  <1>3. TypeOK /\ Inv /\ [Next]_vars => [\A h \in Hosts : Lost(h)]_vars
    BY <1>1, <1>2
  <1> QED
    BY <1>3, InvAlways, PTL DEF Spec, OnlyRacesAreLost

\* The text of a call that read a source is what its edits make of the source.
Derived(c) ==
    c.source # None =>
        /\ c.req \in Requests /\ c.req.op = "apply-patch" /\ c.source \in Texts
        /\ EditsError(c.source, c.req.edits) = None
        /\ c.want = ApplyExactEdits(c.source, c.req.edits)

TextInv == \A h \in Hosts : Derived(call[h])

\* Reading the source establishes it.
LEMMA SourceDerives ==
  ASSUME TypeOK, Inv, TextInv, NEW h \in Hosts, ReadSource(h)
  PROVE  TextInv'
  <1> DEFINE c == call[h]
             source == tree[Path(h)].text
             w == ApplyExactEdits(source, c.req.edits)
             code == IF ReadFailure(tree, Path(h)) # None THEN "ReadSource"
                     ELSE IF source # c.req.expected THEN "PreconditionConflict"
                     ELSE EditsError(source, c.req.edits)
  <1>1. c.pc = "source" /\ Good(h, c, temp[h], tree, disk)
    BY DEF ReadSource, Inv
  <1>2. c.req \in Requests /\ c.req.op = "apply-patch"
    BY <1>1 DEF Good, Progress, Planned, Working
  <1>3. source \in Texts
    BY <1>2, TargetKnown DEF TypeOK, Node, Path
  <1>4. call' = IF code # None THEN Done(h, Failed(code))
                ELSE [call EXCEPT ![h].pc = "open", ![h].source = source, ![h].want = w]
    BY DEF ReadSource
  <1>5. code = None => EditsError(source, c.req.edits) = None
    BY FilesAssumption DEF Refusals
  <1> HIDE DEF code
  <1>6. CASE call' = Done(h, Failed(code))
    <2>1. Untouched
      BY <1>6, DoneUntouched
    <2> QED
      BY <2>1 DEF Untouched, Settled, TextInv, Derived
  <1>7. CASE /\ EditsError(source, c.req.edits) = None
             /\ call' = [call EXCEPT ![h].pc = "open", ![h].source = source, ![h].want = w]
    <2> DEFINE d == [c EXCEPT !.pc = "open", !.source = source, !.want = w]
    <2>1. call' = [call EXCEPT ![h] = d]
      BY <1>7 DEF TypeOK
    <2>2. d.req = c.req /\ d.source = source /\ d.want = ApplyExactEdits(source, c.req.edits)
      BY DEF TypeOK, Fields
    <2> HIDE DEF d, source, w, c
    <2>3. Derived(d)
      BY <1>2, <1>3, <1>7, <2>2 DEF Derived
    <2>4. call'[h] = d /\ \A g \in Hosts \ {h} : call'[g] = call[g]
      BY <2>1 DEF TypeOK
    <2> QED
      BY <2>3, <2>4 DEF TextInv
  <1> QED
    BY <1>4, <1>5, <1>6, <1>7

\* A rename leaves the text of every call.
LEMMA RenameDerives ==
  ASSUME TypeOK, TextInv, NEW h \in Hosts, Rename(h)
  PROVE  TextInv'
  <1>1. CASE call' = Done(h, CommitOutcome("CommitRenameUnknown"))
    BY <1>1, DoneUntouched DEF Untouched, Settled, TextInv, Derived
  <1>2. ASSUME NEW ok \in BOOLEAN, NEW g \in Hosts,
               call' = Noticed([call EXCEPT ![h].touched = TRUE,
                                  ![h].pc = IF ok THEN "sync" ELSE "done",
                                  ![h].outcome = IF ok THEN @ ELSE CommitOutcome("CommitRenameUnknown")],
                               Path(h), {h})
        PROVE  Derived(call'[g])
    <2> DEFINE calls == [call EXCEPT ![h].touched = TRUE,
                                  ![h].pc = IF ok THEN "sync" ELSE "done",
                                  ![h].outcome = IF ok THEN @ ELSE CommitOutcome("CommitRenameUnknown")]
    <2>1. /\ DOMAIN calls[g] = Fields /\ calls[g].req = call[g].req
          /\ calls[g].source = call[g].source /\ calls[g].want = call[g].want
      BY DEF TypeOK, Fields
    <2>2. call' = Noticed(calls, Path(h), {h})
      BY <1>2
    <2> HIDE DEF calls
    <2>3. /\ call'[g].req = call[g].req /\ call'[g].source = call[g].source
          /\ call'[g].want = call[g].want
      BY <2>1, <2>2, NoticedIs
    <2> QED
      BY <2>3 DEF TextInv, Derived
  <1> QED
    BY <1>1, <1>2 DEF Rename, TextInv

\* Nothing else changes what a call asks for.
LEMMA TextNext == TypeOK /\ Inv /\ TextInv /\ [Next]_vars => TextInv'
  <1> SUFFICES ASSUME TypeOK, Inv, TextInv, [Next]_vars PROVE TextInv'
    OBVIOUS
  <1>1. CASE Untouched
    BY <1>1 DEF Untouched, Settled, TextInv, Derived
  <1>2. CASE UNCHANGED vars
    BY <1>2 DEF vars, TextInv
  <1> QED
    BY <1>1, <1>2, HostUntouched, OthersUntouched, SourceDerives, RenameDerives DEF Next

\* Once a host on Unix has acknowledged a change, a power loss at any moment
\* leaves the text that was asked for, unless someone else changed the target;
\* a host elsewhere may lose it, but no power loss ever leaves a torn file.
\* This holds for any hosts of both kinds, requests and interleavings, provided
\* only that the edits of the patches do to a text what they mean.
THEOREM SurvivesPowerLossAlways ==
  ASSUME EditsAreExact PROVE Spec => []SurvivesPowerLoss
  <1>1. Init => TextInv
    BY RestFields DEF Init, TextInv, Derived, Resting
  <1>2. TypeOK /\ Inv /\ TextInv => SurvivesPowerLoss
    <2> SUFFICES ASSUME TypeOK, Inv, TextInv PROVE SurvivesPowerLoss
      OBVIOUS
    <2>1. \A path \in Paths : disk[path].kind # "torn"
      <3>1. \A n \in Node : n.kind # "torn"
        BY DEF Node
      <3> QED
        BY <3>1 DEF TypeOK
    <2>2. ASSUME NEW h \in UnixHosts, call[h].outcome # None, call[h].outcome.changed, ~call[h].raced
          PROVE  disk[Path(h)].text = Asked(h)
      <3> DEFINE c == call[h]
      <3>5. h \in Hosts
        BY FilesAssumption
      <3>1. Good(h, c, temp[h], tree, disk) /\ Derived(c)
        BY <3>5 DEF Inv, TextInv
      <3>2. c.pc \in Ended
        BY <2>2, <3>1 DEF Good, Progress
      <3>3. disk[Path(h)].text = c.want
        BY <2>2, <3>1, <3>2 DEF Good, Durable, Path
      <3>4. Asked(h) = c.want
        BY <3>1, EditsAreExact DEF Derived, Asked, EditsAreExact
      <3> QED
        BY <3>3, <3>4
    <2> QED
      BY <2>1, <2>2 DEF SurvivesPowerLoss
  <1> QED
    BY <1>1, <1>2, TextNext, InvAlways, PTL DEF Spec
=============================================================================
