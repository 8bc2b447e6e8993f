# XGENy in TLA+

A formal development of XGENy: the run journal's reducer, the work graph and its
frontier, the effect runtime that drives a step through an outside sink, the agent
loop that asks a model for the next steps, the store that keeps the journal, the
decisions an invocation passes before it has an effect, the adapters that have the
effects, and the commands a person gives. TLC checks the modules on small instances;
TLAPS proves, for every value of the constants, the safety results about the reducer,
the frontier's derivation, the effect runtime, the agent loop, the store, admission, the
two adapters, the profiles and the commands on a run.

Source paths below are relative to `crates/`.

## 1. Inventory

XGENy runs an agent's work as a *run*: an append-only journal of events, folded by
a reducer into a graph of steps. A *driver* takes the first actionable step of the
graph's *frontier*, has it admitted (policy, approval), executed through an
adapter and verified. When nothing is actionable a *coordinator* (the agent loop)
asks a model for more steps or for a completion.

| Component | State | Operations | Talks to |
|---|---|---|---|
| Reducer (`xgeny-workgraph`, `apply_body`) | `RunState`: steps, intents, evidence, grants consumed, budgets, model calls, completion candidate, sequence | one per `RunEventBody` | called by the store on every append and replay |
| Frontier (`xgeny-workgraph`, `derive_frontier`) | none, derived from the graph | derive, next action | driver, loop, reducer (before a plan is accepted) |
| Run store (`xgeny-local-store`) | SQLite tables, verified cache, sidecars | create, open, append with `ExpectedHead`, audited reads | everything |
| Lease (`xgeny-runtime/lease.rs`) | lock file | try_acquire, drop | one per process |
| Effect runtime (`runtime.rs`, `executor.rs`, `material.rs`) | what one `drive_step` holds in memory | execute, recover, reconcile, give up, mark material unavailable | store, adapter |
| Admission (`admission.rs`, `router.rs`, `xgeny-policy`) | a prepared request bound to a head | prepare, authorize_and_commit | store, registry, person |
| Verification (`verification.rs`) | none | drive_step: verify, receipt, terminal event | store, verifier |
| Agent loop (`agent_loop.rs`, `frontier.rs`) | what one `tick` holds | configure, reserve, plan, decide, resolve a conflict, abandon | store, planner |
| CLI runs (`composition.rs`, `driver.rs`, `run_layout.rs`, `manifest.rs`, `material_catalog.rs`) | run directory, manifest, recipes of planned steps | run, resume, inspect, discard, drive | all of the above |
| CLI allow lists (`allow_file.rs`, `allow_path.rs`, `allow_process.rs`) | none, from the flags of a command | authorize a path, an executable | composition, policy |
| Model profiles (`model_profile.rs`, `main.rs`) | profile file, lock file, the platform's secure store | setup, use, logout, remove, resolve | endpoint, runs |
| Filesystem adapter | the workspace | write, patch, read, list, stat, search, verify | effect runtime |
| Process adapter | child processes, two reader threads, pinned executables | prepare, execute, verify | effect runtime |
| Reference adapter | none | execute | effect runtime |
| Provider (`xgeny-provider-openai`) | HTTP | plan, list models, probe | agent loop |
| Protocol, domain | none | validation, types | all |

What is hard to test here:

* a process may die between any two durable points, in particular between the
  record that an execution started, the outside call and the record of its
  outcome; the next process must not repeat an effect nor lose one;
* `ExpectedHead` makes every append optimistic: what was loaded, prepared or asked
  of a model may be stale when it is written;
* an outside call can time out and still take effect; a model can answer after its
  call was declared interrupted;
* budgets, grants and model-call counters are moved by many different records;
* the graph is grown by batches, one step at a time and by legacy records, and a
  single inconsistent addition would make the run impossible to continue;
* between planning, approval, a restart and the call, contracts, instances, names and
  recovered arguments may all have changed;
* files, processes and the secure store are shared with programs that know nothing of
  XGENy's locks, and no transaction joins them.

`PROJECT.json` lists these hazards at their lines, with the properties that cover
them.

What makes each part correct:

* *Reducer*: the frontier of any reachable graph can be derived; a pause is always
  explained; one grant authorises one effect; budgets bound what they count; no
  retry without a proof; no verdict without evidence; terminal and completed are final.
* *Frontier*: the loop ends, reaches no `expect`, and returns what the definition
  of the frontier says, whatever the visiting order.
* *Effect runtime*: the world sees each effect at most once; what the run reports
  agrees with the world; a committed intent is settled in the end.
* *Agent loop*: one durable reservation per provider request; answers are
  committed only for the graph they were asked about; a reservation is resolved.
* *Store*: a journal that only grows, by callers that know all of it; what is durable
  passes the audit; a cache that never shows anything the audit would not; binaries
  of different ages converge on one schema.
* *Admission*: an adapter is called only with what every policy layer allowed for the
  very resources, contract and instance of the plan.
* *Adapters*: an outcome says what happened, also after a race, a timeout or a power
  loss; a call returns and leaves no process behind.
* *CLI*: nothing leaves the machine and nothing is changed beyond what the flags of
  some command consented to; a report agrees with the journal; a discard acts on what
  the operator was shown.
* *Profiles*: a secret goes to the server it was entered for; file and secure store
  agree; no update is lost.

## 2. Modules

| Module | Role |
|---|---|
| `Frontier` | the frontier as definitions: block reasons, waiting, actionable, ranks, next action |
| `FrontierDerivation` | `derive_frontier_with_metrics` as an algorithm, against `Frontier` |
| `WorkGraph` | the reducer; extends `Frontier` |
| `EffectContract` | what the effect runtime promises, abstractly |
| `EffectRuntime` | processes, lease, sink, crashes; extends `WorkGraph`, implements `EffectContract` |
| `AgentLoop` | coordinators, planner, operator; extends `WorkGraph` |
| `JournalContract` | what the store promises, abstractly |
| `StoreIndex` | the store's tables, the cold audit and the index it builds, `apply_committed`, the checks of each sidecar, the planning snapshot, as definitions |
| `StoreSchema` | schema versions, their tables and the migrations between them; extends `StoreIndex` |
| `RunStore` | SQLite connections, opening and migrating, transaction stages, verified cache, crashes; extends `StoreSchema`, implements `JournalContract` |
| `Capability` | registry checks, resource resolution, policy layers, routing, as definitions |
| `Admission` | the path of an invocation from its plan to its receipt; extends `Capability` |
| `Workspace` | what the filesystem adapter computes from one look at a tree |
| `FileEffects` | the filesystem adapter's system calls, an editor, power loss; extends `Workspace` |
| `ProcessExecution` | the process adapter with its processes, threads and clock |
| `ModelProvider` | configuration and answers of the OpenAI-compatible planner, as definitions |
| `LocalAuthority` | what the flags of a command authorize; extends `ModelProvider` |
| `PlanProposal` | what the loop accepts of a proposed plan; extends `LocalAuthority` and `Frontier` |
| `LocalRun` | the commands on one run directory; extends `PlanProposal` |
| `ModelProfiles` | the commands on the profile file and the secure store |
| `RuntimeProofs` | theorems about `WorkGraph` (types, life of a step, ledgers, graph) and, on top of them, about the two modules that extend it, `EffectRuntime` and `AgentLoop` |
| `RunStoreProofs` | theorems about `RunStore` and the definitions of `StoreIndex` and `StoreSchema` |
| `FrontierDerivationProofs`, `AdmissionProofs`, `FileEffectsProofs`, `ProcessExecutionProofs`, `ModelProfilesProofs`, `LocalRunProofs` | theorems about the module of that name |
| `MC*` | instances for TLC |

### Correspondence with the code

**WorkGraph.** Each variable is a field of `RunState` or, as a function of the
step, of `StepState`. `sequence` stands for the head: the code's head is a
sequence number with a digest, and the digest chain makes the number identify the
prefix. Every action is one `RunEventBody`: its guards are the errors the code
returns, in one conjunction, and `Record` is the sequence increment of
`apply_record`. An event that the code refuses is an action that is not enabled.
Abstractions:

* an `Action` is an action digest together with the once-grant issued for it; the
  grant ledger (`consumption`) is indexed by it;
* an intent's `shape` holds what the reducer tells apart: effect class, sink
  guarantee, whether it has an idempotency key, authorization provenance, an
  output profile and the binding to a planned invocation;
* evidence is abstracted to what it proves;
* the journal's head that authorization was bound to ranges over `LoadedHeads`,
  an older head being refused.

Dependencies, plan batches with internal edges (`AcceptPlan`), steps planned
without the loop (`StepPlanned`) and the older verification record
(`LegacyVerification`) are all included, since a journal may mix them.

**FrontierDerivation.** The state of the loop (remaining counters, ready set,
verdicts). The code's ready set is ordered by step id; the model takes any ready
step, so its result does not lean on the order.

**EffectRuntime.** `pc` says where a process is in `drive_step` or in admission.
A step of the model ends where the code has made something durable or is about to
call out: `StartExecution` is the append of `EffectExecutionStarted`,
`SinkApplies`/`SinkReturns` the call, `CommitOutcome` the classification and the
append. `Stop` is a crash, an error exit or a tick limit, at every `pc`;
`StoreFails` an append that fails in the store and leaves the process running.
`Refuse` is the rest of what `drive_step`, the verification runner and the loop can say:
an error before anything is appended or called (no receipt provenance; no attempts left;
material, definition, instance, health, adapter, preparation or verifier not as they
must be), or a pause because the tool-call budget is spent. The command ends and the
lock is released. What depends on the host is the constant `Lacks`: for each process,
the steps it cannot execute, query or verify; the rest is read off the run. A run gets its
budgets when a process ticks an agent loop on it (`ConfigureLoop`), or never.
The sink is external. It may apply the effect or not, may answer Unknown whatever
happened, and, when it cannot be queried, may apply the effect after the caller
has gone (`OrphanLands`). A queryable sink answers about finished calls only.
That assumption is the contract of `SinkGuarantee::QueryByKey`; without it no
retry after `NotApplied` could be right.

**AgentLoop.** `tick` is where a coordinator is in the function of that name: `Reserved`
after the durable reservation, `Waiting` in `planner.plan`, `Reporting` with a decision or
failure to append, `Resolving` after `HeadConflict`. `tick` checks only that the lease
belongs to the run, so the coordinators of the model are not exclusive: what keeps them
apart is the head check and the call lifecycle. The proposal is abstracted to its kind;
the steps of a plan are chosen when `PlanAccepted` fires, which gives every batch the
validation admits. `BreakOff` is an error exit or a crash. `HostDrives` is the driver
between ticks: the frontier's next action, or a seeded step.

**StoreIndex, RunStore.** The database is the journal, the projection (the length it
was computed from) and one set of rows per sidecar table. An event is its kind, its
steps and the one bit the store looks at: an output profile, an output, a passed
verification. The reducer is reduced to the order of a step's records (`Follows`),
enough to know which sidecars may exist; `WorkGraph` has all of it. `IndexOf` is what
a full audit computes from the whole database, `ApplyCommitted` what the hot path
does with one record; index fields that repeat another (digests and identifiers of
the same row) are left out, and the byte equality of rows and journal is taken as
one comparison of rows. A receipt row keeps the receipt it chains to.
`BeginAppend` is `append_internal` up to the first write, under `BEGIN IMMEDIATE`;
`WriteStage` is each of the nine writes in the order of `CommitStage`;
`CommitDurable` the commit and `Acknowledge` the update of the cache, between which a
process can die or another one commit. `StageFails` may happen at every stage and at
the commit. `data_version` is the bit the code compares it for (`foreign`). The
caller holds what the store last told it (`held`): the head by any read, the receipt
head only by the verifier's read, so that the two can be of different age. SQLite is
external, and so is `Damage`: the changes by another SQLite client that ADR 0013
lists. Changes to the file behind SQLite's back are excluded there and here.
A connection opens in steps: the file is created or found, its version read, the
lock taken, the version read again and the migrations run (`StoreSchema`), while
`OlderBinary` may take the database through an earlier version of its own.

**Capability, Admission.** One capability reference whose contract may have several
contents: a restart of the host takes another catalogue, and a name may come to
denote another resource. A digest is the value it commits to, so that every
comparison the code makes is an equality of what was bound. `Prepare` and
`AuthorizeAndCommit` are the two halves of admission on either side of the person; `Recover` is the
material provider, which may answer with other arguments; the adapter call and its
observation are one step here, their durable points being `EffectRuntime`'s.
Verification is the evaluation of the contract's rules, the receipt and its checks.

**Workspace, FileEffects.** `tree` is what system calls see, `disk` what a power loss
would leave. `commit_atomic` is one action per system call that others can come
between: inspect, create, write and sync, inspect again, rename, sync the directory,
confirm. `SyncParent` is the build's: outside Unix it answers without synchronising, so
`UnixHosts` says which hosts a Unix build runs on (ADR 0025 and 0026 promise durability for
Unix only). The queries walk entry by entry while the tree changes. Texts are short
sequences of one-byte symbols, so that limits, line numbers, overlapping matches and
invalid UTF-8 all occur. The editor, the write-back and the power loss are external.

**ProcessExecution.** The leader and its descendants fork, leave the group, write,
close and exit on their own; two readers capture up to the limit; the waiting thread
polls, kills and waits (a poll that fails, `PollFails`, is the operating system's doing and
owed by nobody); the clock is two events, the deadline and the end of the
grace period. Pinning, preparation and the verifier are included. A process that left
its group with the pipe open is what the grace period is for.

**ModelProvider, LocalAuthority, PlanProposal, LocalRun.** An exchange with the endpoint
is what the network did, and the definitions say what it becomes: a proposal or one of the
closed failures, each with its consequence for the loop. A command is a request with
its flags. `LocalRun` takes `run`, `resume`, `inspect` and `discard` from their first
look at the directory to their report: layout, manifest, catalogue, lease, database,
seed, preflight, the marking of what an earlier process left open, ticks with the
decision about egress, plans with their recipes, admission by the flags of the
command at hand (a resumed run asks the model its manifest names, with the limits and
options of the command, which must agree with the profile it pins), effects, cancellation by the observer, failures of the driver at any
point, and crashes. One append is one step.

**ModelProfiles.** A secret is the URL it was entered for, the digest of the file its
contents. `setup` reads the file and asks the endpoint without the lock, then takes it
and compares; the old secret is deleted, the new one stored, the file replaced in the
four stages of `save`, and a failed save is cleaned up. The commands that only use a
profile read the file and the secret in two steps without a lock. `save` refuses a document
over `MaxFileBytes` (`Oversized`; `Length` is the size of a profile, which its URL makes up)
and `upsert` a profile beyond the limit, each after the secure store was changed: `surplus` and
`missing` record which references that concerns. A new reference is
any that nobody remembers. The secure store and the editor of the file are external.

## 3. Runs

| Run | Instance | Distinct states | Shows |
|---|---|---|---|
| `workgraph` | 2 steps, 2 actions, 2 effects, 4 intent shapes, 2 turns, 2 calls, 2 tool calls, batches of 2 with 2 edges, 2 attempts | 680 144 | the reducer's nine properties |
| `frontier_derivation` | every graph of 3 steps with one status of each kind | 188 481 | the loop computes the frontier, ends, reaches no `expect` |
| `effect_runtime` | 2 processes, 2 steps, 3 intent shapes, 2 execution attempts, 2 tool calls, 2 stops, a host without some adapters and verifiers | 512 957 | at most once, contract implemented, `IntentSettles` |
| `owed_output` | 2 processes, 1 step | violation | see section 5 |
| `agent_loop` | 2 coordinators, 2 steps, 2 calls, 1 break-off | 787 626 | requests reserved, answers fresh, `ReservationResolved` |
| `run_store` | 2 connections, 2 steps, 3 durable appends on 4 kinds of journal in 5 schema versions | 180 670 | schemas converge, the cache is the audit, what is durable is auditable, the planner sees journal order, contract implemented |
| `admission` | 2 steps, several contracts, instances, names and policies | 777 008 | calls are authorized, effects distinct, completion verified |
| `file_effects` | 2 hosts, 19 requests on 4 trees, texts of up to 4 symbols, 1 edit, small limits, one host of either build | 1 444 083 | honest outcomes, exact and durable changes, complete queries, only races lost |
| `process_execution` | a leader, 1 descendant, 8 requests, capture of 3 bytes | 335 640 | true results, no stragglers, `ExecutionReturns` |
| `local_run` | 2 processes, 4 requests, 6 answers, 4 commands, 2 faults | 488 856 | consent bounds egress and effects, reports are true, discards informed |
| `cancelled_doubt` | 1 process, 2 commands | violation | see section 5 |
| `model_profiles` | 2 processes, 6 files, 3 names for 2 places, 3 URLs, 3 references, files of 4 bytes, 2 commands, 2 kinds of trouble | 500 518 | secrets stay home, store and file agree, no update lost |

**Bounds.** Two steps give a dependency, a batch with an internal edge and a
competitor for a grant; three give diamonds and chains in the frontier, which is
all its transitive rules need. Two calls let one be in doubt while the next is
answered, and the last call of a budget be interrupted. Two attempts (of
`MaxExecutionAttempts` 2 and `MaxAttempts` 3) let a retry happen and a third
start be refused; two tool calls are spent by one step tried twice or by two steps,
so that the budget can be short for either. One host of `effect_runtime` has everything, the
other lacks the execution of one step and the query and verification of the other: since
the lease lets one of them work at a time, each stage meets a refusal and a success. Two stops suffice for a crash in the call and one in
reconciliation. `run_store` starts from an empty run, one in reconciliation, one with
two steps awaiting verification and one with a legacy verification, so that three
appends reach the two receipts and the completion, a second start and the first
records of a run; its versions are the oldest that can be opened, those around each
table that was added, and the current one. `file_effects` has a request of every
operation, a text at each limit and one beyond, and a directory whose name is a
prefix of a file's, the case in which two orders differ. In `process_execution` one
stream is longer than the capture and one is not. The six answers of `local_run` are
one of each class that the code treats differently and that leads on: complete, a
write, two dependent steps, a step outside the authority, a timeout, a refusal. Two
profile commands at once, from files as earlier commands leave them, are every race
of a writer with a writer or a reader.
`MaxAttempts`, `MaxStops`, `MaxBreaks`, `MaxAppends`, `MaxChanges`, `MaxCommands`, `MaxFaults` and
`MaxTroubles` bound the model only; every other constant is a limit of the code, made
small. Steps, effects, actions and processes are opaque to the runs that use symmetry,
which have no liveness property; hosts of different builds are not interchanged.

Deadlock is not checked: a run whose budget is spent or whose graph is complete
really stops, commands end, and a store that was changed from outside cannot be opened
again.

**Fairness.** `effect_runtime`: someone resumes a run whose lease is free,
and the holder keeps driving (`WF` on acquiring and on the steps of `drive_step`).
The driver loops until it pauses, and adapter calls are bounded, so the sink's
return is included. Approval, seeding and late effects have no fairness; a
stopped process is not fair to come back, another may. A host that refuses is not owed
to give way to a better one: the property then says that it refuses. `agent_loop`: a tick
under way runs to its end, the planner call being bounded by its timeout, and the
driver ticks again while a call is open (`WF` on `TickNext` and
`FindReservedCall`). `process_execution`: the calling thread runs, and time passes
(`WF` on the thread's own steps, the deadline and the grace period); the processes owe
nothing, and a poll that fails is none of the thread's fair steps, so that it is the deadline
and the kill that end the call. `frontier_derivation`: the loop goes on.

Every property has a *mutant*: a definition of the model changed as a slip in the
code would change it (the operators whose comments begin with "Slip"), under which
TLC finds the property violated.

## 4. Proofs

TLAPS checks every theorem to the last leaf, for every value of the constants: any sets
of steps, effects, actions, processes, commands, names and descendants, any catalogues
and policies, any budgets and any bound on stops, faults and troubles. The theorems use
the named assumptions of the modules and nothing else. Most of these say that limits are
numbers, that `Steps` is finite and that `None` is not one of the values it stands beside.
Those that say more say it of what the code is given:

* `ShapesAssumption`, `GraphAssumption`: intents and statuses are of the kinds the
  types of the code have;
* `AdmissionAssumption`: a contract has the fields of `CapabilityDefinition`, a policy
  layer answers Allow, Ask or Deny, and a report has one of three results per rule;
* `SavedAssumption`: the profile file a command finds first was written by the commands,
  which give each stored secret a reference of its own;
* `RuntimeAssumption`: `Lacks` names steps and stages;
* `ProcessAssumption`: the leader is not one of its descendants, and what is written is
  a sequence of symbols;
* `StoreAssumption`: a database is absent at first or holds what a supported version wrote,
  a journal that replays. A verification without a receipt in it is older than the
  tool-output profile, as the reducer of those versions had none to owe;
* `FilesAssumption`: requests name paths of the workspace, and trees and patches keep to
  the texts there are.

`TypeCorrect`, `LoopTypeCorrect` and `RuntimeTypeCorrect` are the type invariants. Of the
other theorems the argument is as follows.

**`RuntimeProofs`: the reducer.**

* `TerminalNeverChanges`, `NeverRetriedBlindly`, `VerifiedOnEvidence`: `NextEdge`
  shows that any step of the specification moves each work step along one of a few
  edges (`StepEdge`: admitted, committed, executed, observed, uncertain, resolved,
  verified) or leaves it as it was. The three theorems are then arguments about
  edges. The retry and verification invariants are not inductive alone:
  `EvidenceInv` adds what each status says about the evidence gathered so far, so
  that an old `NotApplied` cannot be mistaken for the proof a verdict needs.
* `FrontierAlwaysDerivable`: the graph grows only by steps whose dependencies
  lie in the old graph or form an acyclic batch on top of it (`GraphEdge`);
  `JoinedAcyclic` shows that such a union has no cycle, `ReleaseKept` and
  `BypassedKept` that no record takes back a release a started step relied on.
* `QuiescenceAlwaysExplained` follows from derivability: in an acyclic graph
  without block roots a minimal unfinished step is actionable.
* `GrantsUsedOnce`, `ModelCallsAccounted`, `CandidateIsFinal`: the ledger, the
  call counters and the frozen graph, each with its inductive strengthening
  (`GrantInv`, `CallInv`, `CandidateInv`), the first with the library's theorems on
  cardinality.
* `ToolCallsBounded`: the budget is a sum over the steps. `SumExists` shows that the
  recursive sum has a value on finite sets, by a minimal set without one
  (`MinimalSubset`), and `SumIncrement` that one more attempt of one step adds one.

**`RuntimeProofs`: the effect runtime.** `RuntimeImplementsWorkGraph`: each action of the
runtime is a record of the reducer or leaves the run alone, so all of the above holds of
it. `EffectsAtMostOnce` and `RuntimeImplementsContract` need to know what a process holds
in memory: `ProcInv` says that who is up has the lease, so the head it loaded is the head
and what the sink told it is still so; `StepInv` what each status says of the world, in
particular that a call which may still land belongs to a step that cannot be queried and
will not be executed again. Without the last part a reconciled retry could meet the first
attempt.

**`RuntimeProofs`: the agent loop.** `LoopImplementsWorkGraph` as above. The coordinators do not
exclude each other, so `SendInv` says that a reservation held unsent has one holder and was
not sent, and `FreshInv` that what a coordinator asked about is the graph *as long as* its
head is the head. `RequestsAlwaysReserved` and `AcceptedAnswersAreFresh` (an action
property) follow from them and the append's head check.

**`FrontierDerivationProofs`.** `TraversalInv`: what was visited is closed under
dependencies and acyclic (`Ordered`), its outcomes are determined by status, receipt and the
outcomes of its dependencies (`Classified`), the lists hold what was visited
(`ListsExact`), and the counters are exact. `CountersAlwaysExact` is what the two `expect`s
of the loop rely on. `DerivationCorrect` adds that the outcomes, a fixed point, agree with
the transitive definitions of `Frontier`, and that a set on which the loop is stuck has a
cycle; both by minimal elements of acyclic sets.

**`RunStoreProofs`.** The core is `IndexAdvances`: applying one accepted record to the index
of a journal gives, field by field, the index of the longer journal. It needs no induction
over the journal, since both sides are defined by positions, and the induction the code's
loop makes is the one over steps of the specification. Its companions say the same of the
audit: the rows of the nine stages on top of a sound database are a sound database. The
invariant (`InvAlways`) has four parts.

* `SchemaInv`: the tables are those of the version, and where a connection is in opening
  says what the version may have become since it read it. `SchemaConvergesAlways` is not
  inductive without it: two binaries read version 0 and both go on to write.
* `DataInv`: data is sound until someone outside changes it; then the audit fails, nobody
  writes, and every index is known to be foreign.
* `CacheInv`: an index is that of *some* journal, and of the stored one unless another
  connection committed since, also between the commit and its acknowledgement. From it
  `HotIndexIsAuditedAlways`.
* `WriterInv`: the draft of the writer at stage *n* is the database with the first *n* - 1
  writes of an append that was checked against this very journal, so that whatever stage
  fails there is nothing half-written to see and what is committed is sound:
  `CommittedIsAuditableAlways`.

`ImplementsJournalAlways` is the refinement, action by action: only a commit moves the log,
by an event of a connection that holds its length, and a read tells the length it audited.
`PlanningFollowsJournalAlways` shows that the order the index sorts by is that of the
journal, for any length, and that every output shown has its row and its passed receipt; it
needs `LegacyInv`, that a verification without a receipt never concerns a step that owes an
output.

**`AdmissionProofs`.** `PendingInv` binds a prepared request to the resources its
arguments name and to the plan, `IntentInv` an intent to what every layer allowed, `CallInv` a
call to its intent. `CallsAlwaysAuthorized`, `EffectsAlwaysDistinct` and
`CompletedAlwaysVerified` follow although catalogue, resolver, instances and recovered
material change at any time: every comparison is with what was bound.

**`FileEffectsProofs`.** The invariant speaks of one call at a time and is kept by the call's
own system calls, by those of other hosts, by the editor and by the power loss.
`Progress`: a call replaced its target exactly when it is past the rename, and has an outcome
exactly when it ended. `Planned`: it goes on only while what it saw meets the precondition.
`Temporary`: the temporary file has the permissions that were seen and is complete and synced
before the second inspection. `Unraced`: unless someone came between, the target at the rename
is as it was seen. `Durable`: from the rename on the tree has the text, from the sync of the
directory on the disk has it if the host is Unix. `OutcomeIsHonestAlways` follows from the first,
`OnlyRacesAreLostAlways` (an action property) from `Planned`, `Temporary` and `Unraced`, and
`SurvivesPowerLossAlways` from `Durable` with `TextInv`, that the text of a patch was computed
from its source. What a patch computes is a fold over sorted ranges, out of the prover's reach:
the theorem has `EditsAreExact` as its hypothesis, which TLC evaluates as an assumption of
`MCFileEffects`, for every patch of the instance and every text.

**`ProcessExecutionProofs`.** `NobodyOutlivesTheCall`: once the group was killed it stays
empty, since only a live member adds one (`GroupInv`). `ResultsAreTrue`: a reader at its end
has everything and nobody has the stream open (`ReadersInv`), an exit code is that of a
leader that is gone (`ExitInv`), what runs is what was verified unless it was replaced
(`BoundInv`); the lossy text of a stream that was not cut is that of the whole.

**`ModelProfilesProofs`.** `UpdatesAreKept` (an action property) from the lock (`LockInv`)
and the recheck before the rename (`BaseInv`). `SecretsAlwaysStayHome` needs that *every*
reference belongs to one URL for as long as anyone remembers it, in the store, the file and
the memory of each command: `HomeInv`, an assignment that grows with each new reference.
`KeyringAlwaysMatches` needs what the store holds between its change and that of the file
(`StoreInv`), for each kind of trouble that has not happened and but for what `surplus` and
`missing` name: the secret that is over is the one of the refused profile, the one that is
missing was deleted for the file that could not be written.

**`LocalRunProofs`.** The argument is the lease: of all that a command knows about the run
it works on, nothing can change under it. `LeaseInv` is mutual exclusion, `AloneInv` covers
the one command that works without the lease, a new run before its database, which is alone
because a directory is made once; `KnowsInv` says what the holder knows at each point of its
program, `BoundInv` that its flags agree with the manifest, `SentInv` and `GrantInv` what was
sent and granted, `ReportInv` what its result says of the journal, `ShownInv` that an inspected
run is this one or an earlier state of it, told apart by the head. From this invariant
(`LocalRunInvariant`) follow `EgressNeedsConsent`, `EffectsNeedConsent`, `ReportsAreTrue` and the
action property `DiscardsAreInformed`. Actions are treated in three classes: a command at
work (`WorkKeeps`), one that comes or goes (`OutsideKeeps`), and one that sets the run up
(`LayoutKeeps`).

**Only model-checked.** Liveness and termination (`IntentSettles`, `ReservationResolved`,
`ExecutionReturns`, `Terminates`), which is out of the prover's reach. `QueriesAreComplete`
and `EditsAreExact`: what a walk collects and what a list of edits does are folds over sorted
sequences, and to know their value for every input is an induction over data. The two
violations of section 5.

## 5. What the checks found

`owed_output`: for an effect with an output profile whose reconciliation proves it
applied, `docs/adr/0027-non-idempotent-durable-tool-output.md:82` says the result
is closed as unknown or manual. The reducer refuses the record
(`xgeny-workgraph/src/lib.rs:4317`, `ToolOutputRecordRequired`),
`finish_reconciliation` returns the error, and the step stays `Reconciling`. Since
reconciliation ranks before new work, the run does nothing else from then on.
Local admission issues only sinks without a query, so the case needs a host that
registers one.

`IntentSettles` says of every open intent, at every moment, that it is settled in the
end or the run is found parked (`Parked`): by this case, or because the process that drives
refuses the first action of the frontier. Each reason is needed: for lack of an adapter,
an instance or a verifier, at the attempt limit, with the tool budget spent, or on an owed
output, the property is violated when `Parked` leaves it out. Since it holds from every
moment, an intent stays open only if refusals never cease.

`cancelled_doubt`: `docs/development/interactive-repl.md:72` says that an outcome that
is already uncertain takes precedence over `user_cancelled`. When the observer cancels
behind an effect (`xgeny-cli/src/driver.rs:446`) the driver ends as cancelled whatever
was just recorded, so a command can report `user_cancelled` over an `EffectUnknown`
step. The next `resume` reports the doubt; nothing is executed twice.

`KeyringMatchesProfiles` has two exceptions that are not failures of anything outside, and
gives them exactly.

* `try_model_setup` stores the new secret before `upsert` refuses a profile beyond the
  limit (`xgeny-cli/src/main.rs:933`) and returns without deleting it, where
  `docs/adr/0032` (lines 46 to 49) says that a new credential is deleted when the profile
  commit fails. The secret is left in the secure store under a reference nobody has
  (`surplus`, in the action `LimitReached`).
* `save` refuses a document over 256 KiB (`xgeny-cli/src/model_profile.rs:530`) after setup
  or logout deleted the old secret (`xgeny-cli/src/main.rs:916`). The file on disk then
  names a secret that is gone (`missing`, in `Oversized`). The ADR accepts that a failed
  commit may require the secret to be entered again.

Without either exception TLC finds the property violated; with them, the secrets without a
profile are those of the first kind only, and the profiles without a secret of the second.

## 6. Plan

Order of work, most important first; 1 to 9 are done.

1. `Frontier`, `FrontierDerivation`.
2. `WorkGraph`.
3. `EffectContract`, `EffectRuntime`.
4. `AgentLoop`.
5. `JournalContract`, `StoreIndex`, `StoreSchema`, `RunStore`.
6. `Capability`, `Admission`.
7. `ModelProvider`, `LocalAuthority`, `PlanProposal`, `LocalRun`.
8. `Workspace`, `FileEffects`, `ProcessExecution`.
9. `ModelProfiles`.

The proofs followed the modules, the store and the filesystem adapter last. Every safety
property of a run is now a theorem but `QueriesAreComplete`. What would come next: the
in-memory store as a second implementation of `JournalContract`, and the byte budget of the
planning snapshot.

## 7. Not modelled

* JSON encoding, canonical digests and schema validation: a digest is the equality it
  stands for, a document the fields something depends on.
* The HTTP client and the terminal: argument parsing, REPL input and output, wording.
  What the commands of the REPL do is modelled under the commands they call.
* Path and permission checks of the run directory and the configuration root; the
  private copy that the read-only preflight of a database makes; the byte budget of
  the planning snapshot; the in-memory store, which has neither crashes nor a second
  process.
* Redactions, timestamps and artifact lists of receipts; wording of diagnostics.
* Windows job objects and platform descriptors beyond the process group.
* The reference adapter, a sample without state.
