------------------------------ MODULE FileEffects ------------------------------
(***************************************************************************)
(* The filesystem adapter at work: write-atomic and apply-patch through    *)
(* commit_atomic (atomic_commit.rs), read-text, list-directory, stat and   *)
(* search-text (query.rs), and the verifiers that look at the file again.  *)
(*                                                                         *)
(* Several hosts may work in one workspace, an editor changes files at any *)
(* moment, a host may end and the machine may lose power between any two   *)
(* system calls.  tree is what system calls see, disk what a power loss    *)
(* would leave: a rename reaches it when the system writes it back or when *)
(* the directory is synced, and brings a torn file when the data of the    *)
(* file was not synced before.                                             *)
(***************************************************************************)
EXTENDS Workspace, TLC

CONSTANTS Hosts,      \* processes with an adapter
          UnixHosts,  \* those built for Unix, where a directory can be synced
          Requests,   \* invocations: contract facts and arguments
          Texts,      \* what a file may hold
          Trees,      \* workspaces to start from
          EditNodes,  \* what an editor may leave at a path
          MaxChanges  \* edits an editor makes

\* An entry as others leave it: no editor leaves a torn or an unsynced file.
Node == [kind: {"absent", "dir", "file", "link"}, text: Texts, mode: Nat, synced: {TRUE}]

\* What a mutation is refused for before it creates a file.
Refusals == {"ReadSource", "PreconditionConflict", "OpenParent", "InspectTarget", "Conflict"}

\* Requests name entries of the workspace, and what they ask for is a text.
ASSUME FilesAssumption ==
    /\ UnixHosts \subseteq Hosts
    /\ None \notin Refusals /\ None \notin Requests /\ None \notin [text: Texts, mode: Nat]
    /\ Trees \subseteq [Paths -> Node] /\ EditNodes \subseteq Node
    /\ \A r \in Requests :
         /\ r.path.parts \in Paths
         /\ r.op = "write-atomic" => r.text \in Texts
         /\ r.op = "apply-patch" => \A source \in Texts :
                EditsError(source, r.edits) = None => ApplyExactEdits(source, r.edits) \in Texts
    /\ MaxChanges \in Nat

VARIABLES tree, disk, \* nodes as seen, and as a power loss would leave them
          temp,       \* the temporary file of each host, or None
          call,       \* the invocation of each host
          changes     \* edits made so far

vars == <<tree, disk, temp, call, changes>>

Torn == [kind |-> "torn", text |-> <<>>, mode |-> 0, synced |-> TRUE]

\* What reaches the disk with a directory entry.
WrittenBack(node) == IF node.synced THEN node ELSE Torn

\* Once the host is at work: pc the next system call, want the desired text,
\* seen the last observation of the target, outcome what execute returns;
\* walk is the state of a listing or a search.  touched, raced and stale are
\* history: the target was renamed over, changed by someone else after the
\* last inspection, and the tree changed while a query walked it.
Idle == [pc |-> "idle", req |-> None, source |-> None, want |-> None, seen |-> None,
         outcome |-> None, walk |-> None, touched |-> FALSE, raced |-> FALSE, stale |-> FALSE]

Init ==
    /\ tree \in Trees
    /\ disk = tree
    /\ temp = [h \in Hosts |-> None]
    /\ call = [h \in Hosts |-> Idle]
    /\ changes = 0

Path(h) == call[h].req.path.parts

\* Every call but those of by notes, in its history only, that path changed.
Noticed(calls, path, by) ==
    [g \in Hosts |->
        IF calls[g].req = None \/ g \in by THEN calls[g]
        ELSE [calls[g] EXCEPT !.raced = @ \/ calls[g].req.path.parts = path, !.stale = TRUE]]

Done(h, outcome) == [call EXCEPT ![h].pc = "done", ![h].outcome = outcome, ![h].walk = None]

Gone == [Idle EXCEPT !.pc = "gone"]

Failed(code) ==
    [status |-> "Failed", code |-> code, changed |-> FALSE, output |-> None, evidence |-> None]
Unknown(code) ==
    [status |-> "Unknown", code |-> code, changed |-> FALSE, output |-> None, evidence |-> None]
Succeeded(changed, output, evidence) ==
    [status |-> "Succeeded", code |-> None, changed |-> changed, output |-> output,
     evidence |-> evidence]

\* Slip: an error of the directory sync is reported as a definite failure.
SyncIsDefinite(code) == IF code = "CommitSyncUnknown" THEN Failed(code) ELSE
    IF code \in {"CommitRenameUnknown", "CommitVerifyUnknown"} THEN Unknown(code) ELSE Failed(code)

\* outcome_is_unknown decides how a failed commit is reported.
CommitOutcome(code) ==
    IF code \in {"CommitRenameUnknown", "CommitSyncUnknown", "CommitVerifyUnknown"}
    THEN Unknown(code) ELSE Failed(code)

-----------------------------------------------------------------------------
(* Preparation *)

Mutations == {"write-atomic", "apply-patch"}

\* What every verify_contract demands of intent and instance.
Bound(r, class, keyed) ==
    /\ r.capability = r.op /\ r.binding = [workspace |-> This, operation |-> r.op]
    /\ r.syncOnly /\ r.class = class /\ r.keyed = keyed

WriteContract(r) == r.op = "write-atomic" /\ Bound(r, "Idempotent", TRUE)
PatchContract(r) == r.op = "apply-patch" /\ Bound(r, "Idempotent", TRUE)
ReadContract(r) == r.op = "read-text" /\ Bound(r, "ReadOnly", FALSE)
QueryContract(r) == r.op \in {"list-directory", "stat", "search-text"} /\ Bound(r, "ReadOnly", FALSE)

ContractOk(r) == WriteContract(r) \/ PatchContract(r) \/ ReadContract(r) \/ QueryContract(r)

WriteArguments(r) == r.path.parts # <<>> /\ Len(r.text) <= MaxText

PatchArguments(r) ==
    /\ r.path.parts # <<>> /\ r.expected # None
    /\ Len(r.edits) \in 1..MaxEdits
    /\ \A i \in DOMAIN r.edits : r.edits[i].old # <<>> /\ r.edits[i].old # r.edits[i].new
    /\ FoldLeft(LAMBDA n, e : n + Len(e.old) + Len(e.new), 0, r.edits) <= MaxText

SearchArguments(r) ==
    /\ Len(r.query) \in 1..MaxQuery
    /\ "\n" \notin ToSet(r.query)

ArgumentsOk(r) ==
    /\ ParseCanonical(r.path)
    /\ r.op = "write-atomic" => WriteArguments(r)
    /\ r.op = "apply-patch" => PatchArguments(r)
    /\ r.op = "search-text" => SearchArguments(r)

\* prepare touches no file; execute starts with the first system call.
Prepare(h) ==
    /\ call[h].pc = "idle"
    /\ \E r \in Requests :
         /\ ContractOk(r) /\ ArgumentsOk(r)
         /\ call' = [call EXCEPT ![h] = [Idle EXCEPT
                        !.req = r,
                        !.pc = CASE r.op = "write-atomic" -> "open"
                                 [] r.op = "apply-patch" -> "source"
                                 [] r.op = "read-text" -> "read"
                                 [] r.op = "stat" -> "stat"
                                 [] OTHER -> "enter",
                        !.want = IF r.op = "write-atomic" THEN r.text ELSE None]]
    /\ UNCHANGED <<tree, disk, temp, changes>>

-----------------------------------------------------------------------------
(* Reading *)

\* The text with its digest, which is the evidence too.
ReadSucceeded(text) == Succeeded(FALSE, [content |-> text, digest |-> text], text)

Read(h) ==
    /\ call[h].pc = "read"
    /\ LET f == ReadFailure(tree, Path(h)) IN
       \/ f # None /\ call' = Done(h, Failed(f))
       \/ f = None /\ call' = Done(h, ReadSucceeded(tree[Path(h)].text))
       \/ f = None /\ call' = Done(h, Failed("Read"))
    /\ UNCHANGED <<tree, disk, temp, changes>>

\* apply_patch_to_file up to the commit: the source, its digest, the edits.
ReadSource(h) ==
    /\ call[h].pc = "source"
    /\ LET r == call[h].req
           source == tree[Path(h)].text
           code == IF ReadFailure(tree, Path(h)) # None THEN "ReadSource"
                   ELSE IF source # r.expected THEN "PreconditionConflict"
                   ELSE EditsError(source, r.edits)
       IN call' = IF code # None THEN Done(h, Failed(code))
                  ELSE [call EXCEPT ![h].pc = "open", ![h].source = source,
                                    ![h].want = ApplyExactEdits(source, r.edits)]
    /\ UNCHANGED <<tree, disk, temp, changes>>

-----------------------------------------------------------------------------
(* commit_atomic *)

\* The outputs of execute once the target holds the desired text.
WriteOutput(h, changed) ==
    [path |-> call[h].req.path, digest |-> call[h].want, size |-> Len(call[h].want), changed |-> changed]

PatchOutput(h, changed) == WriteOutput(h, changed) @@ [editCount |-> Len(call[h].req.edits)]

Committed(h, changed) ==
    Succeeded(changed,
              IF call[h].req.op = "write-atomic" THEN WriteOutput(h, changed) ELSE PatchOutput(h, changed),
              call[h].want)

\* inspect_target fails on what is no regular file, and on a large one.
InspectFails(path) ==
    \/ tree[path].kind \notin {"absent", "file"}
    \/ Len(tree[path].text) > MaxText

\* Otherwise it yields None for no entry, or the text and the permissions.
Inspected(path) ==
    IF tree[path].kind = "absent" THEN None
    ELSE [text |-> tree[path].text, mode |-> tree[path].mode]

IsText(observation, text) == observation # None /\ observation.text = text

\* verify_precondition.
PreconditionHolds(observation, r) ==
    IF observation = None THEN r.expected = None ELSE observation.text = r.expected

\* Slip: only the presence of the target is compared, not its content.
SamePresence(initial, current) == (initial = None) = (current = None)

\* verify_same_observation: digest and permissions.
SameObservation(initial, current) == initial = current

\* open_parent, and the first inspection with its precondition.  An entry that
\* cannot be opened for another reason is an inspection error as well.
InspectTarget(h) ==
    /\ call[h].pc = "open"
    /\ LET r == call[h].req
           seen == Inspected(Path(h))
           code == IF ~ParentOpens(tree, Path(h)) THEN "OpenParent"
                   ELSE IF InspectFails(Path(h)) THEN "InspectTarget"
                   ELSE IF ~IsText(seen, call[h].want) /\ ~PreconditionHolds(seen, r)
                   THEN "Conflict" ELSE None
       IN \/ code # None /\ call' = Done(h, CommitOutcome(code))
          \/ /\ code = None
             /\ call' = IF IsText(seen, call[h].want)
                        THEN Done(h, Committed(h, FALSE))
                        ELSE [call EXCEPT ![h].pc = "temp", ![h].seen = seen]
    /\ UNCHANGED <<tree, disk, temp, changes>>

\* A new file under a random name, with the permissions of the target.  When
\* these cannot be copied the temporary file stays behind.
CreateTemporary(h) ==
    /\ call[h].pc = "temp"
    /\ LET mode == IF call[h].seen = None THEN 1 ELSE call[h].seen.mode
           empty == [kind |-> "file", text |-> <<>>, mode |-> mode, synced |-> FALSE]
       IN \/ temp' = [temp EXCEPT ![h] = empty] /\ call' = [call EXCEPT ![h].pc = "write"]
          \/ UNCHANGED temp /\ call' = Done(h, CommitOutcome("CreateTemporary"))
          \/ /\ call[h].seen # None
             /\ temp' = [temp EXCEPT ![h] = empty]
             /\ call' = Done(h, CommitOutcome("WriteTemporary"))
    /\ UNCHANGED <<tree, disk, changes>>

\* Slip: the content is written and never synced.
WriteUnsynced(h) ==
    /\ call[h].pc = "write"
    /\ temp' = [temp EXCEPT ![h].text = call[h].want]
    /\ call' = [call EXCEPT ![h].pc = "inspect"]
    /\ UNCHANGED <<tree, disk, changes>>

\* write_all and sync_all; on an error the temporary file is removed, where it
\* can be.
WriteTemporary(h) ==
    /\ call[h].pc = "write"
    /\ \/ /\ temp' = [temp EXCEPT ![h].text = call[h].want, ![h].synced = TRUE]
          /\ call' = [call EXCEPT ![h].pc = "inspect"]
       \/ /\ temp' = [temp EXCEPT ![h] = None]
          /\ call' = Done(h, CommitOutcome("WriteTemporary"))
    /\ UNCHANGED <<tree, disk, changes>>

\* The second inspection decides whether the target may be replaced.
Reinspect(h) ==
    /\ call[h].pc = "inspect"
    /\ LET seen == Inspected(Path(h))
           code == IF InspectFails(Path(h)) THEN "InspectTarget"
                   ELSE IF ~SameObservation(call[h].seen, seen) THEN "Conflict" ELSE None
       IN IF ~InspectFails(Path(h)) /\ IsText(seen, call[h].want)
          THEN /\ temp' = [temp EXCEPT ![h] = None]
               /\ call' = Done(h, Committed(h, FALSE))
          ELSE IF code # None
          THEN /\ temp' = [temp EXCEPT ![h] = None]
               /\ call' = Done(h, CommitOutcome(code))
          ELSE /\ call' = [call EXCEPT ![h].pc = "rename", ![h].raced = FALSE]
               /\ UNCHANGED temp
    /\ UNCHANGED <<tree, disk, changes>>

\* A rename that reports an error may have taken effect all the same.
Rename(h) ==
    /\ call[h].pc = "rename"
    /\ \/ /\ tree' = [tree EXCEPT ![Path(h)] = temp[h]]
          /\ \E ok \in BOOLEAN :
               call' = Noticed([call EXCEPT ![h].touched = TRUE,
                                  ![h].pc = IF ok THEN "sync" ELSE "done",
                                  ![h].outcome = IF ok THEN @ ELSE CommitOutcome("CommitRenameUnknown")],
                               Path(h), {h})
       \/ UNCHANGED tree /\ call' = Done(h, CommitOutcome("CommitRenameUnknown"))
    /\ temp' = [temp EXCEPT ![h] = None]
    /\ UNCHANGED <<disk, changes>>

\* sync_parent: the directory is synced or it fails; a build for another system
\* goes on without either.
SyncParent(h) ==
    /\ call[h].pc = "sync"
    /\ \/ /\ h \in UnixHosts
          /\ disk' = [disk EXCEPT ![Path(h)] = WrittenBack(tree[Path(h)])]
          /\ call' = [call EXCEPT ![h].pc = "confirm"]
       \/ /\ h \in UnixHosts
          /\ UNCHANGED disk /\ call' = Done(h, CommitOutcome("CommitSyncUnknown"))
       \/ /\ h \notin UnixHosts
          /\ UNCHANGED disk /\ call' = [call EXCEPT ![h].pc = "confirm"]
    /\ UNCHANGED <<tree, temp, changes>>

Confirm(h) ==
    /\ call[h].pc = "confirm"
    /\ call' = Done(h, IF ~InspectFails(Path(h)) /\ IsText(Inspected(Path(h)), call[h].want)
                       THEN Committed(h, TRUE)
                       ELSE CommitOutcome("CommitVerifyUnknown"))
    /\ UNCHANGED <<tree, disk, temp, changes>>

-----------------------------------------------------------------------------
(* Queries *)

\* finish: the digest of the payload is part of the output, and the evidence.
Answered(payload) == Succeeded(FALSE, payload, payload)

Entries(path) ==
    {q \in Paths : q # <<>> /\ Front(q) = path /\ tree[q].kind # "absent"}

Sorted(paths) ==
    SetToSortSeq(paths, LAMBDA p, q : NameIndex(Last(p)) < NameIndex(Last(q)))

\* stat_path: the root and directories, then regular files, nothing else.
Stat(h) ==
    /\ call[h].pc = "stat"
    /\ call' = Done(h, CASE Path(h) # <<>> /\ RegularFileOpens(tree, Path(h)) ->
                                Answered(StatOutput("file", Len(tree[Path(h)].text)))
                         [] DirectoryOpens(tree, Path(h)) -> Answered(StatOutput("dir", None))
                         [] OTHER -> Failed("Open"))
    /\ UNCHANGED <<tree, disk, temp, changes>>

\* One level of names: what the scan limit, other encodings and unportable
\* names leave of a directory, in any order the system lists it.
ListEnter(h) ==
    /\ call[h].pc = "enter" /\ call[h].req.op = "list-directory"
    /\ LET all == Entries(Path(h))
           named == {q \in all : Portable(q)}
       IN call' = IF ~DirectoryOpens(tree, Path(h)) THEN Done(h, Failed("Open"))
                  ELSE IF Cardinality(all) > MaxScan THEN Done(h, Failed("TooManyEntries"))
                  ELSE [call EXCEPT ![h].pc = "list", ![h].stale = FALSE,
                            ![h].walk = [todo |-> Sorted(named), items |-> <<>>,
                                         truncated |-> named # all]]
    /\ UNCHANGED <<tree, disk, temp, changes>>

\* The kind of one entry; a file or directory that does not open is "other".
ListEntry(h) ==
    /\ call[h].pc = "list" /\ call[h].walk.todo # <<>>
    /\ LET w == call[h].walk
           q == Head(w.todo)
       IN \E opens \in BOOLEAN :
            call' = [call EXCEPT ![h].walk =
                [todo |-> Tail(w.todo), items |-> Append(w.items, ListedEntry(tree, q, opens)),
                 truncated |-> w.truncated \/ (~opens /\ tree[q].kind \in {"dir", "file"})]]
    /\ UNCHANGED <<tree, disk, temp, changes>>

ListFinish(h) ==
    /\ call[h].pc = "list" /\ call[h].walk.todo = <<>>
    /\ LET w == call[h].walk
           items == SortSeq(w.items, LAMBDA a, b : DisplayIndex(a.path) < DisplayIndex(b.path))
           kept == SubSeq(items, 1, IF Len(items) > MaxListed THEN MaxListed ELSE Len(items))
       IN call' = Done(h, Answered(BoundedCollectionOutput("entries", kept,
                            w.truncated \/ Len(items) > MaxListed)))
    /\ UNCHANGED <<tree, disk, temp, changes>>

\* search_directory on one directory, below whatever was still to be walked:
\* every entry counts as visited, and the limit may cut the listing anywhere.
EnterDirectory(w, path) ==
    IF w.visited = MaxScan THEN {[w EXCEPT !.truncated = TRUE]}
    ELSE LET all == Entries(path)
             room == MaxScan - w.visited
             cut == IF Cardinality(all) <= room THEN {all}
                    ELSE {s \in SUBSET all : Cardinality(s) = room}
         IN {[w EXCEPT !.visited = @ + Cardinality(s),
                       !.todo = Sorted({q \in s : Portable(q)}) \o @,
                       !.truncated = @ \/ s # all \/ \E q \in s : ~Portable(q)] : s \in cut}

\* search_regular_file and collect_matches.
SearchFile(w, path, query) ==
    LET text == tree[path].text
        left == MaxSearchTotal - w.scanned
        found == MatchesIn(path, text, query)
        room == MaxMatches - Len(w.items)
        kept == SubSeq(found, 1, IF Len(found) > room THEN room ELSE Len(found))
        full == w.scanned + Len(text) = MaxSearchTotal
    IN IF ~RegularFileOpens(tree, path) \/ Len(text) > MaxSearchFile
       THEN [w EXCEPT !.truncated = TRUE]
       ELSE IF left = 0 \/ Len(text) > left
       THEN [w EXCEPT !.truncated = TRUE, !.exhausted = TRUE]
       ELSE IF ~Utf8(text)
       THEN [w EXCEPT !.scanned = @ + Len(text), !.truncated = TRUE, !.exhausted = @ \/ full]
       ELSE [w EXCEPT !.scanned = @ + Len(text), !.items = @ \o kept,
                      !.truncated = @ \/ full \/ Len(found) > room, !.exhausted = @ \/ full]

\* Slip: running into the match limit is not reported.
StopSilently(w) == [w EXCEPT !.todo = <<>>]

\* What is left is not looked at, and that is reported.
StopTruncated(w) == [w EXCEPT !.todo = <<>>, !.truncated = TRUE]

SearchEnter(h) ==
    /\ call[h].pc = "enter" /\ call[h].req.op = "search-text"
    /\ LET w == [todo |-> <<>>, items |-> <<>>, visited |-> 0, scanned |-> 0,
                 truncated |-> FALSE, exhausted |-> FALSE]
       IN IF ~DirectoryOpens(tree, Path(h)) THEN call' = Done(h, Failed("Open"))
          ELSE \E v \in EnterDirectory(w, Path(h)) :
                 call' = [call EXCEPT ![h].pc = "search", ![h].walk = v, ![h].stale = FALSE]
    /\ UNCHANGED <<tree, disk, temp, changes>>

\* The next name of the walk, or the end of every loop around it.
SearchNext(h) ==
    /\ call[h].pc = "search" /\ call[h].walk.todo # <<>>
    /\ LET w == call[h].walk
           q == Head(w.todo)
           rest == [w EXCEPT !.todo = Tail(@)]
       IN \E v \in IF w.exhausted \/ Len(w.items) = MaxMatches THEN {StopTruncated(w)}
                   ELSE IF Last(q) = ".git" THEN {[rest EXCEPT !.truncated = TRUE]}
                   ELSE IF DirectoryOpens(tree, q) THEN EnterDirectory(rest, q)
                   ELSE {SearchFile(rest, q, call[h].req.query)} :
            call' = [call EXCEPT ![h].walk = v]
    /\ UNCHANGED <<tree, disk, temp, changes>>

SearchFinish(h) ==
    /\ call[h].pc = "search" /\ call[h].walk.todo = <<>>
    /\ LET w == call[h].walk IN
       call' = Done(h, Answered(BoundedCollectionOutput("matches", SortMatches(w.items), w.truncated)))
    /\ UNCHANGED <<tree, disk, temp, changes>>

-----------------------------------------------------------------------------
(* Verification, and everyone else *)

\* verify_verifier_contract: the contract again, and exactly the two rules.
RulesOk(r) == r.rules = <<"output-schema", "postcondition">>

InspectWrite(out, evidence) == out.size <= MaxText /\ out.digest = evidence
InspectPatch(out, evidence) == InspectWrite(out, evidence) /\ out.editCount \in 1..MaxEdits
InspectRead(out) == Len(out.content) <= MaxText

\* The verifier of a mutation reads the target again and compares it with the
\* output and with the evidence of the outcome.
Postcondition(out, evidence) ==
    LET text == tree[out.path.parts].text IN
    out.digest = text /\ out.size = Len(text) /\ evidence = text

VerifiedMutation(h, contract, inspected) ==
    LET r == call[h].req
        o == call[h].outcome
    IN IF ~contract \/ ~RulesOk(r) THEN "unsupported"
       ELSE IF ~inspected \/ ~ParseCanonical(o.output.path) THEN "unverifiable"
       ELSE IF ReadFailure(tree, o.output.path.parts) # None THEN "unavailable"
       ELSE IF ~Postcondition(o.output, o.evidence) THEN "refuted"
       ELSE "verified"

Verifying(h, op) ==
    call[h].pc = "done" /\ call[h].outcome.status = "Succeeded" /\ call[h].req.op \in op

\* The report of a verifier is recorded as the next pc.
VerifyWrite(h) ==
    /\ Verifying(h, {"write-atomic"})
    /\ call' = [call EXCEPT ![h].pc =
            VerifiedMutation(h, WriteContract(call[h].req), InspectWrite(call[h].outcome.output, call[h].outcome.evidence))]
    /\ UNCHANGED <<tree, disk, temp, changes>>

VerifyPatch(h) ==
    /\ Verifying(h, {"apply-patch"})
    /\ call' = [call EXCEPT ![h].pc =
            VerifiedMutation(h, PatchContract(call[h].req), InspectPatch(call[h].outcome.output, call[h].outcome.evidence))]
    /\ UNCHANGED <<tree, disk, temp, changes>>

\* A text that was read, and an answer to a query, are judged by themselves.
VerifyRead(h) ==
    /\ Verifying(h, {"read-text"})
    /\ LET r == call[h].req
           o == call[h].outcome
       IN call' = [call EXCEPT ![h].pc =
            IF ~ReadContract(r) \/ ~RulesOk(r) THEN "unsupported"
            ELSE IF ~InspectRead(o.output) THEN "unverifiable"
            ELSE IF o.output.digest # o.output.content \/ o.evidence # o.output.content THEN "refuted"
            ELSE "verified"]
    /\ UNCHANGED <<tree, disk, temp, changes>>

VerifyQuery(h) ==
    /\ Verifying(h, {"list-directory", "stat", "search-text"})
    /\ LET r == call[h].req
           o == call[h].outcome
       IN call' = [call EXCEPT ![h].pc =
            IF ~QueryContract(r) \/ ~RulesOk(r) THEN "unsupported"
            ELSE IF ~OutputAccepted(o.output) THEN "unverifiable"
            ELSE IF o.evidence # o.output THEN "refuted"
            ELSE "verified"]
    /\ UNCHANGED <<tree, disk, temp, changes>>

\* Another program replaces an entry, durably.
Edit ==
    /\ changes < MaxChanges
    /\ \E path \in Paths \ {<<>>}, n \in EditNodes :
         /\ tree[path].kind # "dir" /\ ParentOpens(tree, path) /\ n # tree[path]
         /\ tree' = [tree EXCEPT ![path] = n]
         /\ disk' = [disk EXCEPT ![path] = n]
         /\ call' = Noticed(call, path, {})
    /\ changes' = changes + 1
    /\ UNCHANGED temp

\* The system writes directory entries back when it likes.
WriteBack ==
    /\ \E path \in Paths :
         /\ disk[path] # WrittenBack(tree[path])
         /\ disk' = [disk EXCEPT ![path] = WrittenBack(tree[path])]
    /\ UNCHANGED <<tree, temp, call, changes>>

\* The host ends in the middle of a call; its temporary file stays.
Crash(h) ==
    /\ call[h].pc \notin {"idle", "done", "gone", "verified", "refuted", "unavailable", "unverifiable",
                            "unsupported"}
    /\ call' = [call EXCEPT ![h] = Gone]
    /\ UNCHANGED <<tree, disk, temp, changes>>

\* Power is lost: what is not on disk is gone, and so is every running call.
PowerLoss ==
    /\ tree # disk
    /\ tree' = disk
    /\ call' = [h \in Hosts |->
                  IF call[h].pc = "idle" THEN Idle
                  ELSE IF call[h].outcome = None THEN Gone
                  ELSE [call[h] EXCEPT !.stale = TRUE]]
    /\ UNCHANGED <<disk, temp, changes>>

Next ==
    \/ \E h \in Hosts :
         \/ Prepare(h) \/ Read(h) \/ ReadSource(h)
         \/ InspectTarget(h) \/ CreateTemporary(h) \/ WriteTemporary(h) \/ Reinspect(h)
         \/ Rename(h) \/ SyncParent(h) \/ Confirm(h)
         \/ Stat(h) \/ ListEnter(h) \/ ListEntry(h) \/ ListFinish(h)
         \/ SearchEnter(h) \/ SearchNext(h) \/ SearchFinish(h)
         \/ VerifyWrite(h) \/ VerifyPatch(h) \/ VerifyRead(h) \/ VerifyQuery(h)
         \/ Crash(h)
    \/ Edit \/ WriteBack \/ PowerLoss

Spec == Init /\ [][Next]_vars

-----------------------------------------------------------------------------
(* Properties *)

\* A commit replaces what its precondition names and keeps its permissions:
\* of what others do to the target, only a change that falls between the
\* second inspection and the rename can be lost.
OnlyRacesAreLost ==
    [][\A h \in Hosts :
         ~call[h].touched /\ call'[h].touched =>
            \/ call[h].raced
            \/ /\ PreconditionHolds(Inspected(Path(h)), call[h].req)
               /\ tree[Path(h)].kind = "file" => tree'[Path(h)].mode = tree[Path(h)].mode]_vars

\* A call that ends as a failure, or as a success that changed nothing, never
\* replaced its target; one that claims a change did.
OutcomeIsHonest ==
    \A h \in Hosts :
        call[h].outcome # None /\ call[h].outcome.status # "Unknown" =>
            call[h].touched = call[h].outcome.changed

\* The text a request asks for: its own, or its source with each old text
\* replaced and nothing else.
Asked(h) ==
    IF call[h].source = None THEN call[h].want
    ELSE EditedText(call[h].source, call[h].req.edits)

\* The two readings of a patch agree: replacing from the last range to the first
\* does to a text what the list of edits means.
EditsAreExact ==
    \A r \in Requests, source \in Texts :
        r.op = "apply-patch" /\ EditsError(source, r.edits) = None =>
            ApplyExactEdits(source, r.edits) = EditedText(source, r.edits)

\* Once a host on Unix has acknowledged a change, a power loss at any moment
\* leaves the text that was asked for unless someone else changed the target.
\* Elsewhere sync_parent syncs nothing and an acknowledged change may be lost,
\* but only as a whole: no power loss ever leaves a torn file.
SurvivesPowerLoss ==
    /\ \A path \in Paths : disk[path].kind # "torn"
    /\ \A h \in UnixHosts :
         call[h].outcome # None /\ call[h].outcome.changed /\ ~call[h].raced =>
            disk[Path(h)].text = Asked(h)

\* Everything a complete answer to a query over this tree must hold.
Complete(h) ==
    LET r == call[h].req
        out == call[h].outcome.output
        below == {q \in Paths : IsPrefix(Path(h), q) /\ tree[q].kind = "file"}
    IN IF r.op = "list-directory" THEN {e.path : e \in ToSet(out.items)} = Entries(Path(h))
       ELSE ToSet(out.items) = UNION {ToSet(MatchesIn(q, tree[q].text, r.query)) : q \in below}

\* An answer that is not marked truncated leaves nothing out, when nobody
\* changed the tree during the walk, and every answer passes the verifier.
QueriesAreComplete ==
    \A h \in Hosts :
        /\ call[h].pc # "unverifiable"
        /\ call[h].pc = "done" /\ call[h].outcome.status = "Succeeded"
             /\ call[h].req.op \in {"list-directory", "search-text"} =>
                call[h].outcome.output.truncated \/ call[h].stale \/ Complete(h)
===============================================================================
