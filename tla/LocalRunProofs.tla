---------------------------- MODULE LocalRunProofs ----------------------------
(***************************************************************************)
(* Proofs about the commands on one run: consent bounds what is sent and   *)
(* done, a report is true of the journal, a discard is informed.           *)
(*                                                                         *)
(* The argument is the lease.  Of all that a command knows about the run   *)
(* it works on, nothing can change under it: only the holder of the lease  *)
(* appends, and the one command that works without it, a run that is not   *)
(* seeded yet, is alone because a directory is made once.  What the holder *)
(* knows at each point of its program is Knows; what its result says of    *)
(* the journal is Reports.                                                 *)
(***************************************************************************)
EXTENDS LocalRun, WellFoundedInduction, TLAPS

Driving ==
    {"tick", "call", "answer", "commit", "admit", "effect", "perform", "record", "verify",
     "observe"}

\* Points at which a command has seen the run, and at which it holds the lease.
Past == Driving \union {"mark_call", "mark_effect", "reopen", "abandon"}
Holding == Past \union {"database", "seed", "preflight"}

Early(a) == host[a].kind = "Run" /\ host[a].pc \in {"lease", "database", "seed"}

Discarding(a) == host[a].kind = "Discard" /\ host[a].pc \in {"lease", "preflight", "abandon"}

-----------------------------------------------------------------------------
(* The inductive invariant *)

Asked(r) == r.call \in [id : Nat, status : CallStatus]

RunShape(r) ==
    /\ DOMAIN r = {"seq", "conf", "call", "reserved", "turns", "steps", "candidate"}
    /\ r.seq \in Nat /\ r.reserved \in Nat /\ r.turns \in Nat
    /\ r.candidate \in {"none", "output", "legacy"}
    /\ r.call = None \/ Asked(r)
    /\ \A s \in DOMAIN r.steps :
        /\ DOMAIN r.steps[s] = {"id", "cap", "path", "shape", "once", "deps", "status", "attempts", "receipt"}
        /\ s[1] \in Nat /\ s[1] <= r.turns

Shape ==
    /\ DOMAIN dir = {"made", "manifest", "catalog", "db"}
    /\ DOMAIN host = Actors
    /\ \A a \in Actors :
        /\ DOMAIN host[a] = {"pc", "kind", "c", "target", "seen", "ticks", "step", "exchange",
                             "outcome", "result"}
        /\ host[a].pc \in Holding \union {"idle", "lease", "done"}
        /\ host[a].pc \in Holding \union {"lease"} =>
            host[a].kind \in {"Run", "Resume", "Inspect", "Discard"}
    /\ run = None \/ RunShape(run)

\* Before the directory is made nobody works on the run, and while a command
\* sets it up nobody else does.
Untouched == run = None /\ inspected = None /\ acted = {} /\ sent = {}

AloneInv ==
    /\ ~dir.made =>
        /\ Untouched /\ dir.manifest = None
        /\ \A a \in Actors : host[a].pc \in {"idle", "done"}
    /\ \A a \in Actors : Early(a) =>
        /\ Untouched
        /\ \A b \in Actors \ {a} : ~Early(b) /\ ~Discarding(b) /\ host[b].pc \notin Past

LeaseInv ==
    \A a \in Actors :
        /\ host[a].pc \in Holding => lease = a
        /\ lease = a => host[a].pc \in Holding \union {"done"}

\* The flags of a command that works on the run agree with the manifest, which
\* its first command wrote.
Bound(a) == dir.manifest # None /\ ~dir.manifest.torn /\ ResumeOk(dir.manifest.m, host[a].c)

Sized(m) == m.budget.turns \in Nat /\ m.budget.calls \in Nat

BoundInv ==
    /\ dir.manifest # None /\ ~dir.manifest.torn => Sized(dir.manifest.m)
    /\ \A a \in Actors :
        /\ host[a].pc \in {"database", "seed"} => host[a].kind = "Run" /\ dir.manifest # None
        /\ Early(a) =>
            /\ ResumeOk(Manifest(host[a].c), host[a].c) /\ Sized(Manifest(host[a].c))
            /\ dir.manifest # None =>
                dir.manifest = [torn |-> FALSE, m |-> Manifest(host[a].c)]
        /\ host[a].pc \in Driving \union {"reopen"} => Bound(a)

\* What a command knows of the run at each point.
Knows(a) ==
    LET pc == host[a].pc
        s == host[a].step IN
    /\ pc \in Past => RunShape(run)
    /\ pc \in {"tick", "admit", "effect", "perform", "record", "verify", "observe", "reopen"} =>
        run.call = None /\ run.candidate = "none"
    /\ pc \in {"call", "answer", "commit"} => host[a].c.egress
    /\ pc \in {"call", "answer", "commit", "mark_call"} =>
        /\ Asked(run) /\ run.call.status = "Reserved" /\ run.candidate = "none"
    /\ pc \in {"answer", "commit"} => \E x \in sent : x.id = run.call.id
    /\ pc \in {"admit", "effect", "perform", "record", "verify"} => s \in DOMAIN run.steps
    /\ pc \in {"perform", "record", "verify"} => s \in granted
    /\ pc = "perform" => WithinManifest(dir.manifest.m, run.steps[s])
    /\ pc \in {"mark_call", "mark_effect", "reopen", "abandon"} => host[a].seen = run
    /\ pc = "abandon" => host[a].kind = "Discard" /\ Discards(host[a].target, run)

KnowsInv == \A a \in Actors : Knows(a)

Seeded == run # None \/ \E a \in Actors : host[a].pc \in Past

Answered ==
    run.call # None /\ run.call.status \in {"Timeout", "TransportUnavailable"} =>
        \E x \in sent : x.id = run.call.id

SentInv ==
    /\ sent # {} => dir.manifest # None
    /\ \A x \in sent : x.request = dir.manifest.m.request
    /\ Seeded => Answered

Covered == \A s \in DOMAIN run.steps : run.steps[s].status # "Planned" => s \in granted

GrantInv ==
    /\ Seeded => Covered
    /\ acted # {} => RunShape(run) /\ dir.manifest # None
    /\ \A s \in acted :
        /\ s \in granted /\ s \in DOMAIN run.steps
        /\ WithinManifest(dir.manifest.m, run.steps[s])

\* What a result says of the run its command leaves.
Reports(r, c) ==
    /\ r.class = "Completed" => run.candidate = "output"
    /\ r.class = "RecoveryRequired" /\ r.reason = "Effect" => Doubtful(run)
    /\ r.class = "RecoveryRequired" /\ r.reason # "Effect" =>
        /\ run.call # None
        /\ run.call.status = r.reason \/ (CallReserved(run) /\ r.reason = "Interrupted")
    /\ r.class = "Paused" =>
        /\ run.call = None /\ run.candidate = "none"
        /\ r.reason = "Egress" => ~c.egress /\ NextSteps(run.steps) = {}
    /\ r.class = "Rejected" => run.call = None
    /\ r = Failure("Internal") => run.call = None /\ ~Doubtful(run)

ReportInv ==
    \A a \in Actors :
        /\ host[a].pc = "done" /\ lease = a => Reports(host[a].result, host[a].c)
        /\ host[a].pc = "done" /\ host[a].kind = "Probe" /\ host[a].result = Shown =>
            Reply(host[a].c.endpoint, host[a].exchange) = "ok"

\* A run that was shown is this one or an earlier state of it, and the head
\* tells which.
Earlier(shown) ==
    /\ RunShape(run) /\ shown.seq \in Nat /\ shown.seq <= run.seq
    /\ shown.seq = run.seq => shown = run

ShownInv ==
    /\ inspected # None => Earlier(inspected)
    /\ \A a \in Actors : Discarding(a) =>
        LET target == host[a].target IN
        /\ Earlier(target.shown)
        /\ target.call = target.shown.call.id
        /\ target.head # None => target.head = target.shown.seq

Inv ==
    /\ Shape /\ AloneInv /\ LeaseInv /\ BoundInv /\ KnowsInv /\ SentInv /\ GrantInv
    /\ ReportInv /\ ShownInv

-----------------------------------------------------------------------------
(* What the definitions of the model amount to *)

\* A new run that is not refused agrees with the manifest it writes, in all that
\* a resume will be asked for, and the budget it writes is one.
LEMMA FirstCommandIsBound ==
    ASSUME NEW c, RunRefusal(c) = Completed
    PROVE  ResumeOk(Manifest(c), c) /\ Sized(Manifest(c))
<1>1. ProcessFlagsOk(c) /\ RequestOk(c)
    BY DEF RunRefusal, Completed, Failure, Paused
<1>2. ResumeOk(Manifest(c), c)
    <2>1. PlannerRequest(Manifest(c), c) = Manifest(c).request
        BY DEF PlannerRequest, RequestProfile, Manifest
    <2> QED BY <1>1, <2>1 DEF ProcessFlagsOk, RequestOk, ResumeOk, Manifest
<1>3. c.turns # None => c.turns \in Nat
    <2>1. BudgetOk(c)
        BY <1>1 DEF RequestOk
    <2>2. c.turns # None => c.turns \in 1..MaxHostModelTurns
        BY <2>1 DEF BudgetOk
    <2>3. PICK n : n = c.turns
        OBVIOUS
    <2>4. n \in 1..MaxHostModelTurns => n \in Nat
        BY DEF MaxHostModelTurns
    <2> QED BY <2>2, <2>3, <2>4
<1>4. Sized(Manifest(c))
    <2>1. ASSUME NEW n \in Nat
          PROVE  TurnsBudget(n).turns \in Nat /\ TurnsBudget(n).calls \in Nat
        BY DEF TurnsBudget
    <2>2. SingleShotBudget.turns \in Nat /\ SingleShotBudget.calls \in Nat
        BY DEF SingleShotBudget
    <2>3. ManifestBudget(c).turns \in Nat /\ ManifestBudget(c).calls \in Nat
        BY <1>3, <2>1, <2>2 DEF ManifestBudget
    <2> QED BY <2>3 DEF Sized, Manifest
<1> QED BY <1>2, <1>4

\* What the flags of a command can materialize lies within the manifest the flags
\* agree with.
LEMMA MaterialIsWithinManifest ==
    ASSUME NEW m, NEW c, NEW s, ResumeOk(m, c), Materializes(c, s)
    PROVE  WithinManifest(m, s)
<1>1. /\ m.profile = <<Discovery(c), Tooling(c)>>
      /\ m.catalog = <<Discovery(c), ToSet(c.files), ToSet(c.dirs)>>
    BY DEF ResumeOk, ExecutionProfile, CatalogDigest
<1>2. m.profile[2] = Tooling(c) /\ m.catalog[2] = ToSet(c.files) /\ m.catalog[3] = ToSet(c.dirs)
    BY <1>1
<1>3. CASE s.cap = "process"
    BY <1>2, <1>3 DEF Materializes, AuthorizesProcess, WithinManifest
<1>4. ASSUME s.cap # "process", InDirectories(c, s.path)
      PROVE  WithinManifest(m, s)
    <2>1. PICK i \in DOMAIN c.dirs : ContainsResource(c.dirs[i], s.path)
        BY <1>4 DEF InDirectories
    <2>2. c.dirs[i] \in ToSet(c.dirs)
        BY DEF ToSet
    <2> QED BY <1>2, <1>4, <2>1, <2>2 DEF WithinManifest
<1>5. ASSUME s.cap # "process", s.path \in ToSet(c.files)
      PROVE  WithinManifest(m, s)
    BY <1>2, <1>5 DEF WithinManifest
<1> QED BY <1>3, <1>4, <1>5 DEF Materializes, AuthorizesMaterial, AuthorizesResource

\* The next actions of a graph are steps of it.
LEMMA NextStepsAreSteps ==
    ASSUME NEW g
    PROVE  NextSteps(g) \subseteq DOMAIN g
BY DEF NextSteps, NextActions, Actionable, Admissible

\* The class of an effect is one of three names.
LEMMA EffectClasses ==
    ASSUME NEW cap
    PROVE  EffectClass(cap) \in {"ReadOnly", "Idempotent", "NonIdempotent"}
BY DEF EffectClass

-----------------------------------------------------------------------------
(* What an append does to a run *)

\* The journal goes on from the run, and what a step may touch stays.
Grows(old, new) ==
    /\ RunShape(new) /\ old.seq < new.seq
    /\ \A s \in DOMAIN old.steps :
        /\ s \in DOMAIN new.steps
        /\ new.steps[s].cap = old.steps[s].cap /\ new.steps[s].path = old.steps[s].path

\* One append adds one to the head and is otherwise the new run.
LEMMA JournalFacts ==
    ASSUME NEW r, RunShape(r), Journal(r)
    PROVE  /\ RunShape(run') /\ run'.seq = r.seq + 1 /\ run'.call = r.call
           /\ run'.steps = r.steps /\ run'.candidate = r.candidate
BY DEF Journal, RunShape, Asked

\* What changes when a step gets a new status.
LEMMA StatusFacts ==
    ASSUME NEW r, RunShape(r), NEW s \in DOMAIN r.steps, NEW status
    PROVE  LET n == SetStatus(r, s, status) IN
           /\ RunShape(n) /\ n.seq = r.seq /\ n.call = r.call /\ n.candidate = r.candidate
           /\ DOMAIN n.steps = DOMAIN r.steps
           /\ \A t \in DOMAIN r.steps :
                /\ n.steps[t].cap = r.steps[t].cap /\ n.steps[t].path = r.steps[t].path
                /\ n.steps[t].status = IF t = s THEN status ELSE r.steps[t].status
BY DEF SetStatus, RunShape, Asked

\* What changes with the call.
LEMMA CallFacts ==
    ASSUME NEW r, RunShape(r), NEW call, call = None \/ call \in [id : Nat, status : CallStatus]
    PROVE  LET n == [r EXCEPT !.call = call] IN
           /\ RunShape(n) /\ n.seq = r.seq /\ n.call = call /\ n.candidate = r.candidate
           /\ n.steps = r.steps
BY DEF RunShape, Asked

\* An append that keeps the steps lets the run grow.
LEMMA SameStepsGrow ==
    ASSUME NEW r, RunShape(r), Journal(r), RunShape(run), r.seq = run.seq,
           DOMAIN r.steps = DOMAIN run.steps,
           \A s \in DOMAIN run.steps :
               r.steps[s].cap = run.steps[s].cap /\ r.steps[s].path = run.steps[s].path
    PROVE  Grows(run, run')
BY JournalFacts DEF Grows, RunShape

-----------------------------------------------------------------------------
(* A command at work: it holds the lease and has got past it *)

Working == Past \union {"preflight"}

\* Nothing of another command moves, and of this one what it was started with
\* stays.
Moves(b) ==
    /\ DOMAIN host' = Actors
    /\ \A a \in Actors \ {b} : host'[a] = host[a]
    /\ DOMAIN host'[b] = DOMAIN host[b]
    /\ host'[b].kind = host[b].kind /\ host'[b].c = host[b].c /\ host'[b].target = host[b].target
    /\ host'[b].pc \in Past \union {"done"}
    /\ host'[b].pc = "abandon" => host[b].pc = "preflight"

\* A step of a command at work on what the commands share.
Works(b) ==
    /\ UNCHANGED <<dir, lease>>
    /\ run' = run \/ (host[b].pc \in Past /\ Grows(run, run') /\ Covered' /\ Answered')
    /\ inspected' = inspected \/ (RunShape(run') /\ inspected' = run')
    /\ host[b].pc = "preflight" /\ run = None => host'[b].pc = "done" /\ UNCHANGED inspected
    /\ \/ UNCHANGED sent
       \/ /\ host[b].pc = "call" /\ sent \subseteq sent'
          /\ \A x \in sent' \ sent : x.request = dir.manifest.m.request
    /\ granted \subseteq granted'
    /\ acted' = acted \/ (host[b].pc = "perform" /\ acted' = acted \union {host[b].step})

\* Where a step of a command at work leaves it.
Arrives(b) ==
    /\ host'[b].pc \in Driving \union {"reopen"} => Bound(b)
    /\ Knows(b)'
    /\ host'[b].pc = "done" => Reports(host[b].result, host[b].c)'

\* Such a step keeps the invariant: it holds the lease, so what the others know
\* is not about a run that changes.
LEMMA WorkKeeps ==
    ASSUME Inv, NEW b \in Actors, host[b].pc \in Working, Moves(b), Works(b), Arrives(b)
    PROVE  Inv'
<1> USE DEF Working
<1>l. lease = b /\ \A a \in Actors \ {b} : host[a].pc \notin Holding /\ lease # a
    BY DEF Inv, LeaseInv, Holding
<1>k. host[b].kind \in {"Run", "Resume", "Inspect", "Discard"}
    BY DEF Inv, Shape, Holding
<1>0. run' = run \/ Grows(run, run')
    BY DEF Works
<1>p. "call" \in Past /\ "perform" \in Past /\ "idle" \notin Working /\ "lease" \notin Working
      /\ "done" \notin Working /\ "database" \notin Working /\ "seed" \notin Working
    BY DEF Past, Driving
<1>1. Shape'
    BY <1>0, <1>k, <1>p DEF Inv, Shape, Moves, Works, Grows, Holding
<1>e. ~Early(b) /\ ~Early(b)'
    BY <1>p DEF Early, Moves
<1>2. AloneInv'
    <2>1. dir.made
        BY <1>p DEF Inv, AloneInv
    <2>2. ASSUME NEW a \in Actors, Early(a)'
          PROVE  /\ Untouched'
                 /\ \A d \in Actors \ {a} : ~Early(d)' /\ ~Discarding(d)' /\ host'[d].pc \notin Past
        <3>1. a # b /\ Early(a)
            BY <1>e, <2>2 DEF Early, Moves
        <3>2. Untouched /\ host[b].pc = "preflight"
            BY <3>1 DEF Inv, AloneInv
        <3>3. host'[b].pc = "done" /\ inspected' = inspected /\ run' = run /\ sent' = sent /\ acted' = acted
            BY <3>2 DEF Works, Untouched, Past, Driving
        <3>4. Untouched'
            BY <3>2, <3>3 DEF Untouched
        <3>5. ASSUME NEW d \in Actors \ {a}
              PROVE  ~Early(d)' /\ ~Discarding(d)' /\ host'[d].pc \notin Past
            <4>1. CASE d = b
                BY <3>3, <4>1 DEF Early, Discarding, Past, Driving
            <4>2. CASE d # b
                BY <3>1, <4>2 DEF Inv, AloneInv, Moves, Early, Discarding
            <4> QED BY <4>1, <4>2
        <3> QED BY <3>4, <3>5
    <2> QED BY <2>1, <2>2 DEF AloneInv, Works
<1>3. LeaseInv'
    BY <1>l DEF Inv, LeaseInv, Moves, Works, Holding
<1>4. BoundInv'
    BY <1>e, <1>p DEF Inv, BoundInv, Bound, Moves, Works, Early, Arrives
<1>5. KnowsInv'
    <2>1. ASSUME NEW a \in Actors, a # b
          PROVE  Knows(a)'
        BY <1>l, <2>1 DEF Inv, KnowsInv, Knows, Holding, Past, Driving, Moves
    <2> QED BY <2>1 DEF KnowsInv, Arrives
<1>s. ASSUME run' = run, Seeded'
      PROVE  Seeded
    <2>1. ASSUME NEW a \in Actors, host'[a].pc \in Past, a # b
          PROVE  Seeded
        BY <2>1 DEF Seeded, Moves
    <2>2. host'[b].pc \in Past => Seeded
        <3>1. "done" \notin Past
            BY DEF Past, Driving
        <3> QED BY <3>1 DEF Seeded, Works
    <2> QED BY <1>s, <2>1, <2>2 DEF Seeded
<1>6. SentInv'
    <2>1. host[b].pc = "call" => dir.manifest # None
        BY DEF Inv, BoundInv, Bound, Driving
    <2>2. Seeded' => Answered'
        <3>1. CASE run' = run
            BY <1>s, <3>1 DEF Inv, SentInv, Works, Answered
        <3>2. CASE run' # run
            BY <3>2 DEF Works
        <3> QED BY <3>1, <3>2
    <2> QED BY <2>1, <2>2 DEF Inv, SentInv, Works
<1>7. GrantInv'
    <2>1. acted' # {} => dir'.manifest # None
        BY <1>p DEF Inv, GrantInv, BoundInv, Bound, Works, Driving
    <2>2. acted' # {} => RunShape(run')
        BY DEF Inv, GrantInv, KnowsInv, Knows, Works, Grows, Past, Driving
    <2>3. ASSUME NEW s \in acted'
          PROVE  /\ s \in granted' /\ s \in DOMAIN run'.steps
                 /\ WithinManifest(dir'.manifest.m, run'.steps[s])
        <3>1. /\ s \in granted /\ s \in DOMAIN run.steps
              /\ WithinManifest(dir.manifest.m, run.steps[s])
            BY <2>3 DEF Inv, GrantInv, KnowsInv, Knows, Works
        <3>2. s \in DOMAIN run'.steps /\ run'.steps[s].cap = run.steps[s].cap
              /\ run'.steps[s].path = run.steps[s].path
            BY <1>0, <3>1 DEF Grows
        <3> QED BY <3>1, <3>2 DEF Works, WithinManifest
    <2>4. Seeded' => Covered'
        <3>1. CASE run' = run
            BY <1>s, <3>1 DEF Inv, GrantInv, Works, Covered
        <3>2. CASE run' # run
            BY <3>2 DEF Works
        <3> QED BY <3>1, <3>2
    <2> QED BY <2>1, <2>2, <2>3, <2>4 DEF GrantInv
<1>8. ReportInv'
    <2>1. ASSUME NEW a \in Actors, a # b
          PROVE  lease' # a /\ host'[a] = host[a]
        BY <1>l, <2>1 DEF Moves, Works
    <2> QED BY <1>k, <2>1 DEF Inv, ReportInv, Arrives, Moves
<1>9. ShownInv'
    <2>1. ASSUME NEW shown, Earlier(shown)
          PROVE  Earlier(shown)'
        BY <1>0, <2>1 DEF Earlier, Grows, RunShape
    <2>2. inspected' # None => Earlier(inspected)'
        <3>1. CASE inspected' = inspected
            <4>1. inspected # None => Earlier(inspected)
                BY DEF Inv, ShownInv
            <4> QED BY <2>1, <3>1, <4>1 DEF Earlier
        <3>2. CASE RunShape(run') /\ inspected' = run'
            BY <3>2 DEF Earlier, RunShape
        <3> QED BY <3>1, <3>2 DEF Works
    <2>3. ASSUME NEW a \in Actors, Discarding(a)'
          PROVE  Discarding(a) /\ host'[a].target = host[a].target
        BY <2>3, <1>p DEF Discarding, Moves, Past, Driving
    <2>4. ASSUME NEW a \in Actors, Discarding(a)'
          PROVE  /\ Earlier(host[a].target.shown)'
                 /\ host'[a].target.call = host'[a].target.shown.call.id
                 /\ host'[a].target.head # None => host'[a].target.head = host'[a].target.shown.seq
        <3> DEFINE t == host[a].target
        <3>1. /\ Earlier(t.shown) /\ t.call = t.shown.call.id
              /\ t.head # None => t.head = t.shown.seq
            BY <2>3, <2>4 DEF Inv, ShownInv
        <3>2. PICK u : u = t
            OBVIOUS
        <3>3. Earlier(u.shown)'
            BY <2>1, <3>1, <3>2
        <3> QED BY <2>3, <2>4, <3>1, <3>2, <3>3 DEF Earlier
    <2> QED BY <2>2, <2>4 DEF ShownInv
<1> QED BY <1>1, <1>2, <1>3, <1>4, <1>5, <1>6, <1>7, <1>8, <1>9 DEF Inv

\* A command that has its result is done with it and nothing else of it changed.
LEMMA FinishMoves ==
    ASSUME Inv, NEW b \in Actors, host[b].pc \in Working, NEW result, Finish(b, result)
    PROVE  /\ Moves(b) /\ host'[b].pc = "done" /\ host'[b].result = result
           /\ host'[b].c = host[b].c
BY DEF Inv, Shape, Finish, Moves

\* A command that goes on is where it was sent and nothing else of it changed.
LEMMA GotoMoves ==
    ASSUME Inv, NEW b \in Actors, host[b].pc \in Working, NEW pc \in Past \ {"abandon"}, Goto(b, pc)
    PROVE  /\ Moves(b) /\ host'[b].pc = pc
           /\ host'[b].c = host[b].c /\ host'[b].step = host[b].step
           /\ host'[b].exchange = host[b].exchange /\ host'[b].outcome = host[b].outcome
BY DEF Inv, Shape, Goto, Moves

\* A result that is true when the command gets it may be returned.
LEMMA DoneArrives ==
    ASSUME NEW b \in Actors, NEW result, NEW c, Reports(result, c)',
           host'[b].pc = "done", host'[b].result = result, host'[b].c = c
    PROVE  Arrives(b)
<1>1. Knows(b)'
    BY DEF Knows, Past, Driving
<1>2. Reports(host[b].result, host[b].c)'
    BY DEF Reports
<1> QED BY <1>1, <1>2 DEF Arrives, Driving

\* A command that stops without an append keeps the invariant when its result is
\* true.
LEMMA FinishKeeps ==
    ASSUME Inv, NEW b \in Actors, host[b].pc \in Working, NEW result, Finish(b, result),
           UNCHANGED <<dir, run, lease, inspected, sent, granted, acted>>,
           Reports(result, host[b].c)
    PROVE  Inv'
<1>1. /\ Moves(b) /\ host'[b].pc = "done" /\ host'[b].result = result
      /\ host'[b].c = host[b].c
    BY FinishMoves
<1>2. PICK c : c = host[b].c
    OBVIOUS
<1>3. Reports(result, c)'
    BY <1>2 DEF Reports, Doubtful, Executing, EffectUncertain, CallReserved
<1>4. Arrives(b)
    BY <1>1, <1>2, <1>3, DoneArrives
<1>5. Works(b)
    BY <1>1 DEF Works
<1> QED BY <1>1, <1>4, <1>5, WorkKeeps

\* The result an error of the driver is turned into is true of the journal.
LEMMA ClassifyIsTrue ==
    ASSUME RunShape(run), NEW c
    PROVE  Reports(Classify(run), c)
<1>1. CASE CallUnknown(run)
    <2>1. run.call.status # "Effect"
        BY <1>1 DEF CallUnknown, RunShape, Asked, CallStatus
    <2> QED BY <1>1, <2>1 DEF Classify, Reports, Recovery, Failure, CallUnknown
<1>2. CASE ~CallUnknown(run) /\ CallReserved(run)
    BY <1>2 DEF Classify, Reports, Recovery, Failure, CallReserved
<1>3. CASE ~CallUnknown(run) /\ ~CallReserved(run) /\ Doubtful(run)
    BY <1>3 DEF Classify, Reports, Recovery, Failure
<1>4. CASE ~CallUnknown(run) /\ ~CallReserved(run) /\ ~Doubtful(run)
    BY <1>4 DEF Classify, Reports, Failure, CallUnknown, CallReserved
<1> QED BY <1>1, <1>2, <1>3, <1>4

-----------------------------------------------------------------------------
(* Steps that stop a command *)

\* A driver that fails reports from the journal, whatever it was doing.
LEMMA DriverFailsKeeps ==
    ASSUME Inv, NEW b \in Actors, DriverFails(b)
    PROVE  Inv'
<1>1. host[b].pc \in Driving
    BY DEF DriverFails, Driving
<1>2. RunShape(run)
    BY <1>1 DEF Inv, KnowsInv, Knows, Past
<1>3. Reports(Classify(run), host[b].c)
    BY <1>2, ClassifyIsTrue
<1>4. PICK result : result = Classify(run)
    OBVIOUS
<1> QED BY <1>1, <1>3, <1>4, FinishKeeps DEF DriverFails, Working, Past

\* A driver that pauses says so, and nothing about the steps.
LEMMA PauseKeeps ==
    ASSUME Inv, NEW b \in Actors, NEW reason, Finish(b, Paused(reason)),
           UNCHANGED <<dir, run, lease, inspected, sent, granted, acted>>,
           host[b].pc \in {"tick", "observe", "admit", "effect", "verify"},
           reason = "Egress" => ~host[b].c.egress /\ NextSteps(run.steps) = {}
    PROVE  Inv'
<1>1. run.call = None /\ run.candidate = "none"
    BY DEF Inv, KnowsInv, Knows
<1>2. Reports(Paused(reason), host[b].c)
    BY <1>1 DEF Reports, Paused, Failure
<1> QED BY <1>2, FinishKeeps DEF Working, Past, Driving

\* The observer's cancellation is such a pause.
LEMMA CancelKeeps ==
    ASSUME Inv, NEW b \in Actors, Cancel(b)
    PROVE  Inv'
<1>1. host[b].pc \in {"tick", "observe", "admit", "effect", "verify"}
    BY DEF Cancel, Pc, Ticks
<1> QED BY <1>1, PauseKeeps DEF Cancel

\* So is the tick limit of the command.
LEMMA TickBudgetKeeps ==
    ASSUME Inv, NEW b \in Actors, TickBudgetExhausted(b)
    PROVE  Inv'
BY PauseKeeps DEF TickBudgetExhausted, Pc

\* So is a model call that the command did not consent to.
LEMMA AskEgressKeeps ==
    ASSUME Inv, NEW b \in Actors, AskEgress(b)
    PROVE  Inv'
BY PauseKeeps DEF AskEgress, Pc, ModelCallMayBeNext

\* A driver with nothing left to do reports a true reason.
LEMMA QuiesceKeeps ==
    ASSUME Inv, NEW b \in Actors, Quiesce(b)
    PROVE  Inv'
<1>1. host[b].pc = "tick" /\ run.call = None /\ run.candidate = "none"
    BY DEF Inv, KnowsInv, Knows, Quiesce, Ticks, Pc
<1>2. CASE WithStatus(run.steps, "ManualRequired") # {}
    <2>1. Doubtful(run)
        BY <1>2 DEF Doubtful, EffectUncertain, WithStatus, InDoubt
    <2> QED BY <1>1, <1>2, <2>1, FinishKeeps
            DEF Quiesce, Quiescence, Reports, Recovery, Failure, Working, Past, Driving
<1>3. CASE WithStatus(run.steps, "ManualRequired") = {} /\ WithStatus(run.steps, "Failed") # {}
    BY <1>1, <1>3, FinishKeeps
    DEF Quiesce, Quiescence, Reports, Rejected, Failure, Working, Past, Driving
<1>4. CASE WithStatus(run.steps, "ManualRequired") = {} /\ WithStatus(run.steps, "Failed") = {}
    BY <1>1, <1>4, PauseKeeps DEF Quiesce, Quiescence
<1> QED BY <1>2, <1>3, <1>4

-----------------------------------------------------------------------------
(* Steps of resume and of the driver without an append *)

\* A resume reports a run at its end or in doubt as what it is, or goes on.
LEMMA PreflightResumeKeeps ==
    ASSUME Inv, NEW b \in Actors, PreflightResume(b)
    PROVE  Inv'
<1> DEFINE Says(r) == Finish(b, r) /\ Reports(r, host[b].c)
           Goes(pc) == host' = [host EXCEPT ![b].pc = pc, ![b].seen = run]
<1>0. host[b].pc = "preflight" /\ host[b].pc \in Working /\ host[b].kind = "Resume"
    BY DEF PreflightResume, Pc, Working
<1>f. UNCHANGED <<dir, run, lease, inspected, sent, granted, acted>>
    BY DEF PreflightResume
<1>1. ASSUME NEW r, Says(r)
      PROVE  Inv'
    BY <1>0, <1>1, <1>f, FinishKeeps
<1>2. CASE ~Readable \/ run.candidate = "legacy"
    <2>1. Reports(Failure("Integrity"), host[b].c)
        BY DEF Reports, Failure
    <2> QED BY <1>1, <1>2, <2>1 DEF PreflightResume
<1>3. CASE ~(~Readable \/ run.candidate = "legacy")
    <2> USE <1>3
    <2>0. RunShape(run) /\ run # None /\ dir.manifest # None /\ ~dir.manifest.torn
        BY DEF Readable, Inv, Shape
    <2>1. CASE run.candidate = "output"
        <3>1. Reports(Completed, host[b].c)
            BY <2>1 DEF Reports, Completed, Failure
        <3> QED BY <1>1, <2>1, <3>1 DEF PreflightResume
    <2>2. CASE run.candidate # "output" /\ CallUnknown(run)
        <3>1. Reports(Recovery(run.call.status), host[b].c)
            BY <2>0, <2>2 DEF Reports, Recovery, Failure, CallUnknown, RunShape, Asked, CallStatus
        <3>2. PICK r : r = Recovery(run.call.status)
            OBVIOUS
        <3>3. Says(r)
            BY <2>2, <3>1, <3>2 DEF PreflightResume
        <3> QED BY <1>1, <3>3
    <2>3. ASSUME NEW pc \in {"mark_call", "mark_effect", "reopen"}, Goes(pc),
                 pc = "mark_call" => CallReserved(run) /\ run.candidate = "none",
                 pc = "reopen" => run.call = None /\ run.candidate = "none"
                                  /\ ResumeOk(dir.manifest.m, host[b].c)
          PROVE  Inv'
        <3>1. Moves(b) /\ host'[b].pc = pc /\ host'[b].seen = run /\ host'[b].c = host[b].c
            BY <1>0, <2>3 DEF Inv, Shape, Moves, Past
        <3>2. Works(b)
            BY <2>0, <1>f DEF Works
        <3>3. Knows(b)'
            BY <1>f, <2>0, <2>3, <3>1
            DEF Knows, Past, Driving, RunShape, Asked, CallReserved
        <3>4. Arrives(b)
            BY <1>f, <2>0, <2>3, <3>1, <3>3 DEF Arrives, Bound, Driving
        <3> QED BY <1>0, <3>1, <3>2, <3>4, WorkKeeps
    <2>4. CASE run.candidate # "output" /\ ~CallUnknown(run)
        <3> USE <2>4
        <3>0. run.candidate = "none"
            BY <2>0 DEF RunShape
        <3>1. CASE CallReserved(run)
            BY <2>3, <3>0, <3>1 DEF PreflightResume
        <3>2. CASE ~CallReserved(run)
            <4>0. run.call = None
                BY <3>2 DEF CallUnknown, CallReserved
            <4>1. CASE Executing(run) # {}
                BY <2>3, <3>2, <4>1 DEF PreflightResume
            <4>2. CASE Executing(run) = {} /\ EffectUncertain(run)
                <5>1. Reports(Recovery("Effect"), host[b].c)
                    BY <4>2 DEF Reports, Recovery, Failure, Doubtful
                <5> QED BY <1>1, <3>2, <4>2, <5>1 DEF PreflightResume
            <4>3. CASE Executing(run) = {} /\ ~EffectUncertain(run)
                <5>1. CASE ~host[b].c.egress /\ NextSteps(run.steps) = {}
                    <6>1. Reports(Paused("Egress"), host[b].c)
                        BY <3>0, <4>0, <5>1 DEF Reports, Paused, Failure
                    <6> QED BY <1>1, <3>2, <4>3, <5>1, <6>1 DEF PreflightResume
                <5>2. CASE ~ResumeOk(dir.manifest.m, host[b].c) /\ ~(~host[b].c.egress /\ NextSteps(run.steps) = {})
                    <6>1. Reports(Failure("Configuration"), host[b].c)
                        BY DEF Reports, Failure
                    <6> QED BY <1>1, <3>2, <4>3, <5>2, <6>1 DEF PreflightResume
                <5>3. CASE ResumeOk(dir.manifest.m, host[b].c) /\ ~(~host[b].c.egress /\ NextSteps(run.steps) = {})
                    BY <2>3, <3>0, <3>2, <4>0, <4>3, <5>3 DEF PreflightResume
                <5> QED BY <5>1, <5>2, <5>3
            <4> QED BY <4>1, <4>2, <4>3
        <3> QED BY <3>1, <3>2
    <2> QED BY <2>1, <2>2, <2>4
<1> QED BY <1>2, <1>3

\* A resume opens the store to write and goes on to its first tick, or fails.
LEMMA ReopenKeeps ==
    ASSUME Inv, NEW b \in Actors, Reopen(b)
    PROVE  Inv'
<1>0. host[b].pc = "reopen" /\ host[b].pc \in Working
    BY DEF Reopen, Pc, Working, Past
<1>1. CASE Finish(b, Failure("Integrity"))
    <2>1. Reports(Failure("Integrity"), host[b].c)
        BY DEF Reports, Failure
    <2> QED BY <1>0, <1>1, <2>1, FinishKeeps DEF Reopen
<1>2. CASE host' = [host EXCEPT ![b].pc = "tick", ![b].ticks = host[b].c.ticks, ![b].seen = None]
    <2>1. Moves(b) /\ host'[b].pc = "tick"
        BY <1>0, <1>2 DEF Inv, Shape, Moves, Past, Driving
    <2>2. Works(b)
        BY <1>0 DEF Works, Reopen
    <2>3. Knows(b)'
        BY <1>0, <2>1 DEF Reopen, Inv, KnowsInv, Knows, Past, Driving
    <2>4. Arrives(b)
        BY <1>0, <2>1, <2>3 DEF Arrives, Inv, BoundInv
    <2> QED BY <1>0, <2>1, <2>2, <2>4, WorkKeeps
<1> QED BY <1>1, <1>2 DEF Reopen

\* The driver takes a step that the frontier offers.
LEMMA TakeActionKeeps ==
    ASSUME Inv, NEW b \in Actors, TakeAction(b)
    PROVE  Inv'
<1>0. host[b].pc = "tick" /\ host[b].pc \in Working
    BY DEF TakeAction, Ticks, Pc, Working, Past, Driving
<1>f. UNCHANGED <<dir, run, lease, inspected, sent, granted, acted>>
    BY DEF TakeAction
<1>1. PICK s \in NextSteps(run.steps) :
        Finish(b, Paused("Quiescent")) \/ TickTo(b, Handler(run.steps[s].status), s)
    BY DEF TakeAction
<1>2. CASE Finish(b, Paused("Quiescent"))
    BY <1>0, <1>f, <1>2, PauseKeeps
<1>3. CASE TickTo(b, Handler(run.steps[s].status), s)
    <2>1. Handler(run.steps[s].status) \in {"admit", "verify", "effect"}
        BY DEF Handler
    <2>2. Moves(b) /\ host'[b].pc = Handler(run.steps[s].status) /\ host'[b].step = s
        BY <1>0, <1>3, <2>1 DEF TickTo, Inv, Shape, Moves, Past, Driving
    <2>3. Works(b)
        BY <1>0, <1>f DEF Works
    <2>4. s \in DOMAIN run.steps
        BY NextStepsAreSteps
    <2>5. host'[b].pc = "verify" => s \in granted
        <3>1. Covered
            BY <1>0 DEF Inv, Past, Driving, GrantInv, Seeded
        <3> QED BY <2>2, <2>4, <3>1 DEF Handler, Covered
    <2>6. Knows(b)'
        BY <1>0, <1>f, <2>1, <2>2, <2>4, <2>5 DEF Inv, KnowsInv, Knows, Past, Driving
    <2>7. Arrives(b)
        BY <1>0, <2>1, <2>2, <2>6 DEF Arrives, Inv, BoundInv, Driving
    <2> QED BY <1>0, <2>2, <2>3, <2>7, WorkKeeps
<1> QED BY <1>1, <1>2, <1>3

\* The observer lets the command go on to the next tick.
LEMMA ContinueKeeps ==
    ASSUME Inv, NEW b \in Actors, Continue(b)
    PROVE  Inv'
<1>0. host[b].pc = "observe" /\ host[b].pc \in Working
    BY DEF Continue, Pc, Working, Past, Driving
<1>f. UNCHANGED <<dir, run, lease, inspected, sent, granted, acted>>
    BY DEF Continue
<1>1. Moves(b) /\ host'[b].pc = "tick"
    BY <1>0 DEF Continue, Inv, Shape, Moves, Past, Driving
<1>2. Works(b)
    BY <1>0, <1>f DEF Works
<1>3. Knows(b)'
    BY <1>0, <1>f, <1>1 DEF Inv, KnowsInv, Knows, Past, Driving
<1>4. Arrives(b)
    BY <1>0, <1>1, <1>3 DEF Arrives, Inv, BoundInv, Driving
<1> QED BY <1>0, <1>1, <1>2, <1>4, WorkKeeps

-----------------------------------------------------------------------------
(* Steps that append *)

\* An append of a command at work that leaves the steps it has what they are.
LEMMA AppendWorks ==
    ASSUME Inv, NEW b \in Actors, host[b].pc \in Past, NEW r, RunShape(r), Journal(r),
           r.seq = run.seq, DOMAIN r.steps = DOMAIN run.steps,
           \A s \in DOMAIN run.steps :
               /\ r.steps[s].cap = run.steps[s].cap /\ r.steps[s].path = run.steps[s].path
               /\ r.steps[s].status # "Planned" =>
                    s \in granted' \/ r.steps[s].status = run.steps[s].status,
           r.call # None /\ r.call.status \in {"Timeout", "TransportUnavailable"} =>
               r.call = run.call \/ \E x \in sent : x.id = r.call.id,
           UNCHANGED <<dir, lease, sent, acted>>, granted \subseteq granted',
           inspected' = inspected \/ inspected' = run'
    PROVE  Works(b)
<1>1. RunShape(run) /\ host[b].pc # "preflight"
    BY DEF Inv, KnowsInv, Knows, Past, Driving
<1>2. Grows(run, run')
    BY <1>1, SameStepsGrow
<1>3. Covered
    BY DEF Inv, GrantInv, Seeded
<1>4. Covered'
    BY <1>3, JournalFacts DEF Covered
<1>5. Answered
    BY DEF Inv, SentInv, Seeded
<1>6. Answered'
    BY <1>5, JournalFacts DEF Answered
<1> QED BY <1>1, <1>2, <1>4, <1>6 DEF Works, Grows

\* The records that configure the loop change no step and no call.
LEMMA ConfigureKeeps ==
    ASSUME Inv, NEW b \in Actors, Configure(b)
    PROVE  Inv'
<1>0. host[b].pc = "tick" /\ host[b].pc \in Past
    BY DEF Configure, Ticks, Pc, Past, Driving
<1>1. RunShape(run) /\ run.call = None /\ run.candidate = "none"
    BY <1>0 DEF Inv, KnowsInv, Knows
<1>2. PICK r : r = [run EXCEPT !.conf = @ + 1]
    OBVIOUS
<1>3. /\ RunShape(r) /\ r.seq = run.seq /\ r.steps = run.steps /\ r.call = run.call
      /\ r.candidate = run.candidate /\ Journal(r)
    BY <1>1, <1>2 DEF Configure, RunShape, Asked
<1>4. Works(b)
    BY <1>0, <1>3, AppendWorks DEF Configure
<1>5. Moves(b) /\ host'[b].pc = "tick"
    BY <1>0 DEF Configure, TickTo, Inv, Shape, Moves, Past, Driving
<1>6. Knows(b)'
    BY <1>1, <1>3, <1>5, JournalFacts DEF Knows, Past, Driving
<1>7. Arrives(b)
    BY <1>0, <1>5, <1>6 DEF Arrives, Inv, BoundInv, Driving
<1> QED BY <1>0, <1>4, <1>5, <1>7, WorkKeeps DEF Working

\* A call is reserved only where the driver expects one, and so only with consent.
LEMMA ReserveCallKeeps ==
    ASSUME Inv, NEW b \in Actors, ReserveCall(b)
    PROVE  Inv'
<1>0. host[b].pc = "tick" /\ host[b].pc \in Past
    BY DEF ReserveCall, Ticks, Pc, Past, Driving
<1>1. RunShape(run) /\ run.call = None /\ run.candidate = "none"
    BY <1>0 DEF Inv, KnowsInv, Knows
<1>2. host[b].c.egress
    <2>1. /\ WithStatus(run.steps, "ManualRequired") = {} /\ WithStatus(run.steps, "Failed") = {}
          /\ ~(run.turns >= Budget.turns) /\ ~(run.reserved >= Budget.calls)
        BY LocalRunAssumption DEF ReserveCall, Quiescence, Recovery, Rejected, Paused
    <2>2. Budget.turns \in Nat /\ Budget.calls \in Nat
        BY <1>0 DEF Inv, BoundInv, Bound, Sized, Budget, Driving
    <2>3. run.turns < Budget.turns /\ run.reserved < Budget.calls
        BY <1>1, <2>1, <2>2 DEF RunShape
    <2>4. ModelCallMayBeNext(run)
        BY <1>1, <2>1, <2>3 DEF ModelCallMayBeNext, ReserveCall
    <2> QED BY <2>4 DEF ReserveCall, Ticks
<1>3. PICK r : r = [run EXCEPT !.reserved = @ + 1,
                              !.call = [id |-> run.reserved + 1, status |-> "Reserved"]]
    OBVIOUS
<1>4. /\ RunShape(r) /\ r.seq = run.seq /\ r.steps = run.steps /\ Asked(r)
      /\ r.call.status = "Reserved" /\ r.candidate = run.candidate /\ Journal(r)
    BY <1>1, <1>3 DEF ReserveCall, RunShape, Asked, CallStatus
<1>5. Works(b)
    BY <1>0, <1>4, AppendWorks DEF ReserveCall
<1>6. Moves(b) /\ host'[b].pc = "call" /\ host'[b].c = host[b].c
    BY <1>0 DEF ReserveCall, TickTo, Inv, Shape, Moves, Past, Driving
<1>7. Knows(b)'
    BY <1>1, <1>2, <1>4, <1>6, JournalFacts DEF Knows, Past, Driving, Asked
<1>8. Arrives(b)
    BY <1>0, <1>6, <1>7 DEF Arrives, Inv, BoundInv, Driving
<1> QED BY <1>0, <1>5, <1>6, <1>8, WorkKeeps DEF Working

\* A request is sent with the profile the manifest pins.
LEMMA CallModelKeeps ==
    ASSUME Inv, NEW b \in Actors, NEW x, CallModel(b, x)
    PROVE  Inv'
<1>0. host[b].pc = "call" /\ host[b].pc \in Past
    BY DEF CallModel, Pc, Past, Driving
<1>1. /\ RunShape(run) /\ host[b].c.egress /\ Asked(run) /\ run.call.status = "Reserved"
      /\ run.candidate = "none"
    BY <1>0 DEF Inv, KnowsInv, Knows
<1>2. Bound(b)
    BY <1>0 DEF Inv, BoundInv, Driving
<1>3. PICK y : y = [id |-> run.call.id,
                    request |-> PlannerRequest(dir.manifest.m, host[b].c)]
    OBVIOUS
<1>4. sent' = sent \union {y} /\ y.id = run.call.id /\ y.request = dir.manifest.m.request
    BY <1>1, <1>2, <1>3 DEF CallModel, Bound, ResumeOk
<1>5. Moves(b) /\ host'[b].pc = "answer" /\ host'[b].c = host[b].c
    BY <1>0 DEF CallModel, Inv, Shape, Moves, Past, Driving
<1>6. Works(b)
    BY <1>0, <1>4 DEF CallModel, Works
<1>7. Knows(b)'
    BY <1>1, <1>4, <1>5 DEF CallModel, Knows, Past, Driving, Asked, RunShape
<1>8. Arrives(b)
    BY <1>2, <1>5, <1>7 DEF Arrives
<1> QED BY <1>0, <1>5, <1>6, <1>8, WorkKeeps DEF Working

\* An append that ends a command, with what its result says of the new run.
LEMMA AppendAndFinish ==
    ASSUME Inv, NEW b \in Actors, host[b].pc \in Past, Works(b), NEW result, Finish(b, result),
           NEW c, c = host[b].c, Reports(result, c)'
    PROVE  Inv'
<1>1. /\ Moves(b) /\ host'[b].pc = "done" /\ host'[b].result = result /\ host'[b].c = c
    BY FinishMoves DEF Working
<1>2. Arrives(b)
    BY <1>1, DoneArrives
<1> QED BY <1>1, <1>2, WorkKeeps DEF Working

\* Settling the call with nothing else.
LEMMA SettleKeeps ==
    ASSUME Inv, NEW b \in Actors, host[b].pc \in {"answer", "commit"}, NEW reason,
           Journal([run EXCEPT !.call = None]), Finish(b, Rejected(reason)),
           UNCHANGED <<dir, lease, inspected, sent, granted, acted>>
    PROVE  Inv'
<1>0. host[b].pc \in Past
    BY DEF Past, Driving
<1>1. RunShape(run)
    BY <1>0 DEF Inv, KnowsInv, Knows
<1>2. PICK r : r = [run EXCEPT !.call = None]
    OBVIOUS
<1>3. /\ RunShape(r) /\ r.seq = run.seq /\ r.steps = run.steps /\ r.call = None /\ Journal(r)
    BY <1>1, <1>2, CallFacts
<1>4. Works(b)
    BY <1>0, <1>3, AppendWorks
<1>5. PICK c : c = host[b].c
    OBVIOUS
<1>6. Reports(Rejected(reason), c)'
    BY <1>3, JournalFacts DEF Reports, Rejected, Failure
<1> QED BY <1>0, <1>4, <1>5, <1>6, AppendAndFinish

\* A request that fails leaves its call in doubt, or settles it.
LEMMA RecordFailureKeeps ==
    ASSUME Inv, NEW b \in Actors, RecordFailure(b)
    PROVE  Inv'
<1> DEFINE status == IF AnswerOf(b) = "Timeout" THEN "Timeout" ELSE "TransportUnavailable"
<1>0. host[b].pc = "answer" /\ host[b].pc \in Past
    BY DEF RecordFailure, Pc, Past, Driving
<1>1. /\ RunShape(run) /\ Asked(run) /\ run.candidate = "none"
      /\ \E x \in sent : x.id = run.call.id
    BY <1>0 DEF Inv, KnowsInv, Knows
<1>2. CASE AnswerOf(b) \in {"Timeout", "Unavailable"}
    <2>1. PICK st \in {"Timeout", "TransportUnavailable"} : st = status
        OBVIOUS
    <2>2. PICK r : r = [run EXCEPT !.call.status = st]
        OBVIOUS
    <2>3. Journal(r) /\ Finish(b, Recovery(st))
        BY <1>2, <2>1, <2>2 DEF RecordFailure
    <2>4. /\ RunShape(r) /\ r.seq = run.seq /\ r.steps = run.steps /\ Asked(r)
          /\ r.call.status = st /\ r.call.id = run.call.id
        BY <1>1, <2>1, <2>2 DEF RunShape, Asked, CallStatus
    <2>5. Works(b)
        BY <1>0, <1>1, <2>3, <2>4, AppendWorks DEF RecordFailure
    <2>6. PICK c : c = host[b].c
        OBVIOUS
    <2>7. Reports(Recovery(st), c)'
        BY <2>1, <2>3, <2>4, JournalFacts, LocalRunAssumption DEF Reports, Recovery, Failure, Asked
    <2> QED BY <1>0, <2>3, <2>5, <2>6, <2>7, AppendAndFinish
<1>3. CASE AnswerOf(b) \notin {"Timeout", "Unavailable"}
    BY <1>0, <1>3, SettleKeeps DEF RecordFailure
<1> QED BY <1>2, <1>3

\* A completion is recorded only over steps that all have their receipt.
LEMMA RecordCompletionKeeps ==
    ASSUME Inv, NEW b \in Actors, RecordCompletion(b)
    PROVE  Inv'
<1>0. host[b].pc = "answer" /\ host[b].pc \in Past
    BY DEF RecordCompletion, Pc, Past, Driving
<1>1. RunShape(run)
    BY <1>0 DEF Inv, KnowsInv, Knows
<1>2. CASE AllReceipted(run.steps)
    <2>1. PICK r : r = [run EXCEPT !.call = None, !.turns = @ + 1, !.candidate = "output"]
        OBVIOUS
    <2>2. /\ RunShape(r) /\ r.seq = run.seq /\ r.steps = run.steps /\ r.call = None
          /\ r.candidate = "output"
        BY <1>1, <2>1 DEF RunShape, Asked
    <2>3. Journal(r) /\ Finish(b, Completed)
        BY <1>2, <2>1 DEF RecordCompletion
    <2>4. Works(b)
        BY <1>0, <2>2, <2>3, AppendWorks DEF RecordCompletion
    <2>5. PICK c : c = host[b].c
        OBVIOUS
    <2>6. Reports(Completed, c)'
        BY <2>2, <2>3, JournalFacts DEF Reports, Completed, Failure
    <2> QED BY <1>0, <2>3, <2>4, <2>5, <2>6, AppendAndFinish
<1>3. CASE ~AllReceipted(run.steps)
    BY <1>0, <1>3, SettleKeeps DEF RecordCompletion
<1> QED BY <1>2, <1>3

\* A refused plan settles its call and adds nothing.
LEMMA RejectPlanKeeps ==
    ASSUME Inv, NEW b \in Actors, RejectPlan(b)
    PROVE  Inv'
BY SettleKeeps DEF RejectPlan, Pc

\* The recipes that are written are of steps the command authorizes.
LEMMA MaterializeKeeps ==
    ASSUME Inv, NEW b \in Actors, Materialize(b)
    PROVE  Inv'
<1>0. host[b].pc = "answer" /\ host[b].pc \in Past
    BY DEF Materialize, Pc, Past, Driving
<1>1. CASE Goto(b, "commit") /\ run' = run
    <2>1. Moves(b) /\ host'[b].pc = "commit" /\ host'[b].c = host[b].c
        BY <1>0, <1>1, GotoMoves DEF Working, Past, Driving
    <2>2. Works(b)
        BY <1>0, <1>1 DEF Materialize, Works
    <2>3. Knows(b)'
        BY <1>0, <1>1, <2>1 DEF Materialize, Inv, KnowsInv, Knows, Past, Driving, Asked
    <2>4. Arrives(b)
        BY <1>0, <2>1, <2>3 DEF Arrives, Inv, BoundInv, Driving
    <2> QED BY <1>0, <2>1, <2>2, <2>4, WorkKeeps DEF Working
<1>2. CASE Journal([run EXCEPT !.call = None]) /\ Finish(b, Rejected("Material"))
    BY <1>0, <1>2, SettleKeeps DEF Materialize
<1> QED BY <1>1, <1>2 DEF Materialize

\* A planned step is that: a step of its turn in the status Planned.
LEMMA PlannedFacts ==
    ASSUME NEW turn, NEW steps, NEW s \in DOMAIN PlannedSteps(turn, steps)
    PROVE  LET step == PlannedSteps(turn, steps)[s] IN
           /\ DOMAIN step = {"id", "cap", "path", "shape", "once", "deps", "status", "attempts", "receipt"}
           /\ step.status = "Planned" /\ s[1] = turn
<1>1. PICK j \in DOMAIN steps : s = StepId(turn, steps[j].key)
    BY DEF PlannedSteps
<1>2. PICK p : PlannedSteps(turn, steps)[s] = PlannedStep(turn, p)
    BY DEF PlannedSteps
<1>3. /\ DOMAIN PlannedStep(turn, p) =
            {"id", "cap", "path", "shape", "once", "deps", "status", "attempts", "receipt"}
      /\ PlannedStep(turn, p).status = "Planned"
    BY DEF PlannedStep
<1> QED BY <1>1, <1>2, <1>3 DEF StepId

\* The steps of a turn have ids no earlier turn gave, so a commit adds steps and
\* replaces none.
LEMMA CommitPlanKeeps ==
    ASSUME Inv, NEW b \in Actors, CommitPlan(b)
    PROVE  Inv'
<1> DEFINE g == ProposedSteps(b)
           n == [run EXCEPT !.call = None, !.turns = @ + 1, !.steps = Extended(g, run.steps)]
<1>0. host[b].pc = "commit" /\ host[b].pc \in Past /\ host[b].pc # "preflight"
    BY DEF CommitPlan, Pc, Past, Driving
<1>1. RunShape(run) /\ run.candidate = "none"
    BY <1>0 DEF Inv, KnowsInv, Knows
<1>2. ASSUME NEW s \in DOMAIN g
      PROVE  /\ DOMAIN g[s] = {"id", "cap", "path", "shape", "once", "deps", "status", "attempts", "receipt"}
             /\ g[s].status = "Planned" /\ s[1] = run.turns + 1
    BY PlannedFacts DEF ProposedSteps
<1>3. \A s \in DOMAIN run.steps : s \notin DOMAIN g
    BY <1>1, <1>2 DEF RunShape
<1>4. PICK r : r = n
    OBVIOUS
<1>5. /\ r.seq = run.seq /\ r.call = None /\ r.candidate = "none" /\ r.turns = run.turns + 1
      /\ r.steps = Extended(g, run.steps) /\ r.reserved = run.reserved
      /\ DOMAIN r = DOMAIN run
    BY <1>1, <1>4 DEF RunShape
<1>h. HIDE DEF g, n
<1>6. /\ DOMAIN r.steps = DOMAIN g \union DOMAIN run.steps
      /\ \A s \in DOMAIN g : r.steps[s] = g[s]
      /\ \A s \in DOMAIN run.steps : r.steps[s] = run.steps[s]
    BY <1>3, <1>5 DEF Extended
<1>7. RunShape(r)
    BY <1>1, <1>2, <1>5, <1>6 DEF RunShape
<1>8. Journal(r) /\ Goto(b, "observe")
    BY <1>4 DEF CommitPlan, n, g
<1>9. /\ RunShape(run') /\ run'.seq = run.seq + 1 /\ run'.call = None
      /\ run'.steps = r.steps /\ run'.candidate = "none"
    BY <1>5, <1>7, <1>8, JournalFacts
<1>10. Grows(run, run')
    BY <1>1, <1>6, <1>9 DEF Grows, RunShape
<1>11. Covered
    BY <1>0 DEF Inv, GrantInv, Seeded
<1>12. Covered' /\ Answered'
    BY <1>2, <1>6, <1>9, <1>11 DEF CommitPlan, Covered, Answered
<1>13. Works(b)
    BY <1>0, <1>10, <1>12 DEF CommitPlan, Works
<1>14. Moves(b) /\ host'[b].pc = "observe"
    BY <1>0, <1>8, GotoMoves DEF Working, Past, Driving
<1>15. Knows(b)'
    BY <1>9, <1>14 DEF Knows, Past, Driving
<1>16. Arrives(b)
    BY <1>0, <1>14, <1>15 DEF Arrives, Inv, BoundInv, Driving
<1> QED BY <1>0, <1>13, <1>14, <1>16, WorkKeeps DEF Working

\* Going on to the observer after an append that leaves no call.
LEMMA ObserveKeeps ==
    ASSUME Inv, NEW b \in Actors, host[b].pc \in Driving, Works(b), Goto(b, "observe"),
           RunShape(run'), run'.call = None, run'.candidate = "none"
    PROVE  Inv'
<1>1. Moves(b) /\ host'[b].pc = "observe"
    BY GotoMoves DEF Working, Past, Driving
<1>2. Knows(b)'
    BY <1>1 DEF Knows, Past, Driving
<1>3. Arrives(b)
    BY <1>1, <1>2 DEF Arrives, Inv, BoundInv
<1> QED BY <1>1, <1>3, WorkKeeps DEF Working, Past

\* A new status for a step whose admission was granted.
LEMMA StatusKeeps ==
    ASSUME Inv, NEW b \in Actors, host[b].pc \in {"admit", "effect", "record", "verify"}, NEW status,
           Journal(SetStatus(run, host[b].step, status)), Goto(b, "observe"),
           host[b].step \in granted', granted \subseteq granted',
           UNCHANGED <<dir, lease, inspected, sent, acted>>
    PROVE  Inv'
<1>0. host[b].pc \in Past /\ host[b].pc \in Driving
    BY DEF Past, Driving
<1>1. /\ RunShape(run) /\ run.call = None /\ run.candidate = "none"
      /\ host[b].step \in DOMAIN run.steps
    BY <1>0 DEF Inv, KnowsInv, Knows
<1>2. PICK s : s = host[b].step
    OBVIOUS
<1>3. PICK r : r = SetStatus(run, s, status)
    OBVIOUS
<1>4. /\ RunShape(r) /\ r.seq = run.seq /\ r.call = None /\ r.candidate = "none"
      /\ DOMAIN r.steps = DOMAIN run.steps
      /\ \A t \in DOMAIN run.steps :
            /\ r.steps[t].cap = run.steps[t].cap /\ r.steps[t].path = run.steps[t].path
            /\ r.steps[t].status = IF t = s THEN status ELSE run.steps[t].status
    BY <1>1, <1>2, <1>3, StatusFacts
<1>5. Journal(r)
    BY <1>2, <1>3
<1>6. Works(b)
    BY <1>0, <1>2, <1>4, <1>5, AppendWorks
<1> QED BY <1>0, <1>4, <1>5, <1>6, JournalFacts, ObserveKeeps

\* Admission commits an intent only for a command that has the flag.
LEMMA AdmitKeeps ==
    ASSUME Inv, NEW b \in Actors, Admit(b)
    PROVE  Inv'
<1> DEFINE c == host[b].c
           s == host[b].step
           step == run.steps[s]
<1>0. host[b].pc = "admit" /\ host[b].pc \in Past
    BY DEF Admit, Pc, Past, Driving
<1>1. RunShape(run) /\ run.call = None /\ run.candidate = "none"
    BY <1>0 DEF Inv, KnowsInv, Knows
<1>2. CASE ~Routes(c, step) \/ ~Reconstructs(c, step, recipes)
    <2>1. PICK result : result = Classify(run)
        OBVIOUS
    <2>2. Reports(result, host[b].c)
        BY <1>1, <2>1, ClassifyIsTrue
    <2> QED BY <1>0, <1>2, <2>1, <2>2, FinishKeeps DEF Admit, Working
<1>3. CASE /\ ~(~Routes(c, step) \/ ~Reconstructs(c, step, recipes))
           /\ Decide(c, step) = "Denied"
    <2>1. Reports(Rejected("ApprovalDenied"), host[b].c)
        BY <1>1 DEF Reports, Rejected, Failure
    <2> QED BY <1>0, <1>3, <2>1, FinishKeeps DEF Admit, Working
<1>4. CASE /\ ~(~Routes(c, step) \/ ~Reconstructs(c, step, recipes))
           /\ Decide(c, step) = "Pending"
    <2>1. PICK class : class = EffectClass(step.cap)
        OBVIOUS
    <2>2. class # "Egress"
        BY <2>1, EffectClasses
    <2>3. Finish(b, Paused(class)) /\ UNCHANGED <<dir, run, lease, inspected, sent, granted, acted>>
        BY <1>4, <2>1 DEF Admit
    <2> QED BY <1>0, <2>2, <2>3, PauseKeeps
<1>5. CASE /\ ~(~Routes(c, step) \/ ~Reconstructs(c, step, recipes))
           /\ Decide(c, step) \notin {"Denied", "Pending"}
    <2>1. Flag(c, step.cap)
        BY <1>5 DEF Decide
    <2>2. /\ Journal(SetStatus(run, s, "IntentCommitted")) /\ granted' = granted \union {s}
          /\ Goto(b, "observe")
        BY <1>5, <2>1 DEF Admit
    <2> QED BY <1>0, <2>2, StatusKeeps DEF Admit
<1> QED BY <1>2, <1>3, <1>4, <1>5

\* An effect in doubt is left to a person.
LEMMA GiveUpKeeps ==
    ASSUME Inv, NEW b \in Actors, GiveUp(b)
    PROVE  Inv'
<1>1. host[b].pc = "effect" /\ host[b].pc \in Past /\ host[b].step \in DOMAIN run.steps
    BY DEF GiveUp, Pc, Past, Driving, Inv, KnowsInv, Knows
<1>2. Covered
    BY <1>1 DEF Inv, GrantInv, Seeded
<1>3. host[b].step \in granted
    BY <1>1, <1>2 DEF GiveUp, Covered
<1> QED BY <1>1, <1>3, StatusKeeps DEF GiveUp

\* The outcome of a granted step is recorded.
LEMMA RecordOutcomeKeeps ==
    ASSUME Inv, NEW b \in Actors, RecordOutcome(b)
    PROVE  Inv'
<1>1. host[b].pc = "record" /\ host[b].step \in granted
    BY DEF RecordOutcome, Pc, Inv, KnowsInv, Knows
<1>2. PICK status : status = host[b].outcome
    OBVIOUS
<1> QED BY <1>1, <1>2, StatusKeeps DEF RecordOutcome

\* A verdict moves a validating step to its end.
LEMMA VerifyKeeps ==
    ASSUME Inv, NEW b \in Actors, NEW passed, Verify(b, passed)
    PROVE  Inv'
<1>0. host[b].pc = "verify" /\ host[b].pc \in Past /\ host[b].pc \in Driving
    BY DEF Verify, Pc, Past, Driving
<1>1. /\ RunShape(run) /\ run.call = None /\ run.candidate = "none"
      /\ host[b].step \in DOMAIN run.steps /\ host[b].step \in granted
    BY <1>0 DEF Inv, KnowsInv, Knows
<1>2. PICK s : s = host[b].step
    OBVIOUS
<1>3. PICK q : q = SetStatus(run, s, IF passed THEN "Completed" ELSE "Failed")
    OBVIOUS
<1>4. /\ RunShape(q) /\ q.seq = run.seq /\ q.call = None /\ q.candidate = "none"
      /\ DOMAIN q.steps = DOMAIN run.steps
      /\ \A t \in DOMAIN run.steps :
            /\ q.steps[t].cap = run.steps[t].cap /\ q.steps[t].path = run.steps[t].path
            /\ t # s => q.steps[t].status = run.steps[t].status
    BY <1>1, <1>2, <1>3, StatusFacts
<1>5. PICK r : r = [q EXCEPT !.steps[s].receipt = passed]
    OBVIOUS
<1>6. /\ RunShape(r) /\ r.seq = q.seq /\ r.call = q.call /\ r.candidate = q.candidate
      /\ DOMAIN r.steps = DOMAIN q.steps
      /\ \A t \in DOMAIN q.steps :
            /\ r.steps[t].cap = q.steps[t].cap /\ r.steps[t].path = q.steps[t].path
            /\ r.steps[t].status = q.steps[t].status
    BY <1>1, <1>2, <1>4, <1>5 DEF RunShape, Asked
<1>7. Journal(r) /\ Goto(b, "observe")
    BY <1>2, <1>3, <1>5 DEF Verify
<1>8. Works(b)
    BY <1>0, <1>1, <1>2, <1>4, <1>6, <1>7, AppendWorks DEF Verify
<1> QED BY <1>0, <1>4, <1>6, <1>7, <1>8, JournalFacts, ObserveKeeps

\* An effect is started only on material the flags of this command authorize,
\* which lies within the manifest.
LEMMA StartEffectKeeps ==
    ASSUME Inv, NEW b \in Actors, StartEffect(b)
    PROVE  Inv'
<1>0. host[b].pc = "effect" /\ host[b].pc \in Past /\ host[b].pc \in Driving
    BY DEF StartEffect, Pc, Past, Driving
<1>1. /\ RunShape(run) /\ run.call = None /\ run.candidate = "none"
      /\ host[b].step \in DOMAIN run.steps
    BY <1>0 DEF Inv, KnowsInv, Knows
<1>2. PICK s : s = host[b].step
    OBVIOUS
<1>3. CASE ~Reconstructs(host[b].c, run.steps[s], recipes)
    <2>1. PICK result : result = Classify(run)
        OBVIOUS
    <2>2. Reports(result, host[b].c)
        BY <1>1, <2>1, ClassifyIsTrue
    <2> QED BY <1>0, <1>2, <1>3, <2>1, <2>2, FinishKeeps DEF StartEffect, Working
<1>4. CASE Reconstructs(host[b].c, run.steps[s], recipes)
    <2>1. Bound(b)
        BY <1>0 DEF Inv, BoundInv
    <2>2. WithinManifest(dir.manifest.m, run.steps[s])
        BY <1>4, <2>1, MaterialIsWithinManifest DEF Bound, Reconstructs
    <2>3. Covered
        BY <1>0 DEF Inv, GrantInv, Seeded
    <2>4. s \in granted
        BY <1>1, <1>2, <2>3 DEF StartEffect, Covered
    <2>5. PICK q : q = SetStatus(run, s, "Executing")
        OBVIOUS
    <2>6. /\ RunShape(q) /\ q.seq = run.seq /\ q.call = None /\ q.candidate = "none"
          /\ DOMAIN q.steps = DOMAIN run.steps
          /\ \A t \in DOMAIN run.steps :
                /\ q.steps[t].cap = run.steps[t].cap /\ q.steps[t].path = run.steps[t].path
                /\ t # s => q.steps[t].status = run.steps[t].status
        BY <1>1, <1>2, <2>5, StatusFacts
    <2>7. PICK r : r = [q EXCEPT !.steps[s].attempts = @ + 1]
        OBVIOUS
    <2>8. /\ RunShape(r) /\ r.seq = q.seq /\ r.call = q.call /\ r.candidate = q.candidate
          /\ DOMAIN r.steps = DOMAIN q.steps
          /\ \A t \in DOMAIN q.steps :
                /\ r.steps[t].cap = q.steps[t].cap /\ r.steps[t].path = q.steps[t].path
                /\ r.steps[t].status = q.steps[t].status
        BY <1>1, <1>2, <2>6, <2>7 DEF RunShape, Asked
    <2>9. Journal(r) /\ Goto(b, "perform")
        BY <1>2, <1>4, <2>5, <2>7 DEF StartEffect
    <2>10. Works(b)
        BY <1>0, <1>1, <1>2, <2>4, <2>6, <2>8, <2>9, AppendWorks DEF StartEffect
    <2>11. Moves(b) /\ host'[b].pc = "perform" /\ host'[b].step = s
        BY <1>0, <1>2, <2>9, GotoMoves DEF Working, Past, Driving
    <2>12. WithinManifest(dir'.manifest.m, run'.steps[s])
        <3>1. run'.steps[s].cap = run.steps[s].cap /\ run'.steps[s].path = run.steps[s].path
            BY <1>1, <1>2, <2>6, <2>8, <2>9, JournalFacts
        <3> QED BY <2>2, <3>1 DEF WithinManifest, StartEffect
    <2>13. Knows(b)'
        BY <1>1, <1>2, <2>4, <2>6, <2>8, <2>9, <2>11, <2>12, JournalFacts
        DEF StartEffect, Knows, Past, Driving
    <2>14. Arrives(b)
        BY <2>1, <2>11, <2>13 DEF Arrives
    <2> QED BY <1>0, <2>10, <2>11, <2>14, WorkKeeps DEF Working
<1> QED BY <1>3, <1>4

\* The effect is performed for a step granted by the same command.
LEMMA PerformEffectKeeps ==
    ASSUME Inv, NEW b \in Actors, NEW outcome, PerformEffect(b, outcome)
    PROVE  Inv'
<1>0. host[b].pc = "perform" /\ host[b].pc \in Past
    BY DEF PerformEffect, Pc, Past, Driving
<1>1. Moves(b) /\ host'[b].pc = "record" /\ host'[b].step = host[b].step
    BY <1>0 DEF PerformEffect, Inv, Shape, Moves, Past, Driving
<1>2. Works(b)
    BY <1>0 DEF PerformEffect, Works
<1>3. Knows(b)'
    BY <1>0, <1>1 DEF PerformEffect, Inv, KnowsInv, Knows, Past, Driving
<1>4. Arrives(b)
    BY <1>0, <1>1, <1>3 DEF Arrives, Inv, BoundInv, Driving
<1> QED BY <1>0, <1>1, <1>2, <1>4, WorkKeeps DEF Working

-----------------------------------------------------------------------------
(* What a resume marks, and the recovery of a call *)

\* A refusal that leaves everything is true.
LEMMA IntegrityKeeps ==
    ASSUME Inv, NEW b \in Actors, host[b].pc \in Working,
           NEW error \in {"Integrity", "Configuration"}, Finish(b, Failure(error)),
           UNCHANGED <<dir, run, lease, inspected, sent, granted, acted>>
    PROVE  Inv'
<1>1. Reports(Failure(error), host[b].c)
    BY DEF Reports, Failure
<1> QED BY <1>1, FinishKeeps

\* A resume marks the call that an earlier process left open.
LEMMA MarkCallKeeps ==
    ASSUME Inv, NEW b \in Actors, MarkCall(b)
    PROVE  Inv'
<1>0. host[b].pc = "mark_call" /\ host[b].pc \in Past /\ host[b].pc \in Working
    BY DEF MarkCall, Pc, Past, Working
<1>1. RunShape(run) /\ Asked(run)
    BY <1>0 DEF Inv, KnowsInv, Knows
<1>2. CASE Finish(b, Failure("Integrity")) /\ UNCHANGED run
    BY <1>0, <1>2, IntegrityKeeps DEF MarkCall
<1>3. CASE /\ Journal([run EXCEPT !.call.status = "Interrupted"])
           /\ Finish(b, Recovery("Interrupted"))
    <2>1. PICK r : r = [run EXCEPT !.call.status = "Interrupted"]
        OBVIOUS
    <2>2. /\ RunShape(r) /\ r.seq = run.seq /\ r.steps = run.steps /\ Asked(r)
          /\ r.call.status = "Interrupted" /\ Journal(r)
        BY <1>1, <1>3, <2>1 DEF RunShape, Asked, CallStatus
    <2>3. Works(b)
        BY <1>0, <2>2, AppendWorks DEF MarkCall
    <2>4. PICK c : c = host[b].c
        OBVIOUS
    <2>5. Reports(Recovery("Interrupted"), c)'
        BY <2>2, JournalFacts, LocalRunAssumption DEF Reports, Recovery, Failure, Asked
    <2> QED BY <1>0, <1>3, <2>3, <2>4, <2>5, AppendAndFinish
<1> QED BY <1>2, <1>3 DEF MarkCall

\* A resume marks the effects that an earlier process left open.
LEMMA MarkEffectKeeps ==
    ASSUME Inv, NEW b \in Actors, MarkEffect(b)
    PROVE  Inv'
<1>0. host[b].pc = "mark_effect" /\ host[b].pc \in Past /\ host[b].pc \in Working
    BY DEF MarkEffect, Pc, Past, Working
<1>1. RunShape(run)
    BY <1>0 DEF Inv, KnowsInv, Knows
<1>2. CASE Finish(b, Failure("Integrity")) /\ UNCHANGED run
    BY <1>0, <1>2, IntegrityKeeps DEF MarkEffect
<1>3. CASE \E s \in Executing(run) :
            Journal(SetStatus(run, s, "EffectUnknown")) /\ Finish(b, Recovery("Effect"))
    <2>1. PICK s \in Executing(run) :
            Journal(SetStatus(run, s, "EffectUnknown")) /\ Finish(b, Recovery("Effect"))
        BY <1>3
    <2>2. s \in DOMAIN run.steps /\ run.steps[s].status = "Executing"
        BY DEF Executing, WithStatus
    <2>3. PICK r : r = SetStatus(run, s, "EffectUnknown")
        OBVIOUS
    <2>4. /\ RunShape(r) /\ r.seq = run.seq /\ r.call = run.call
          /\ DOMAIN r.steps = DOMAIN run.steps
          /\ \A t \in DOMAIN run.steps :
                /\ r.steps[t].cap = run.steps[t].cap /\ r.steps[t].path = run.steps[t].path
                /\ r.steps[t].status = IF t = s THEN "EffectUnknown" ELSE run.steps[t].status
        BY <1>1, <2>2, <2>3, StatusFacts
    <2>5. Journal(r)
        BY <2>1, <2>3
    <2>6. Covered
        BY <1>0 DEF Inv, GrantInv, Seeded
    <2>7. Works(b)
        BY <1>0, <2>2, <2>4, <2>5, <2>6, AppendWorks DEF MarkEffect, Covered
    <2>8. PICK c : c = host[b].c
        OBVIOUS
    <2>9. s \in DOMAIN run'.steps /\ run'.steps[s].status = "EffectUnknown"
        BY <2>2, <2>4, <2>5, JournalFacts
    <2>10. Reports(Recovery("Effect"), c)'
        BY <2>9 DEF Reports, Recovery, Failure, Doubtful, EffectUncertain, InDoubt
    <2> QED BY <1>0, <2>1, <2>7, <2>8, <2>10, AppendAndFinish
<1> QED BY <1>2, <1>3 DEF MarkEffect

\* A discard goes on only with the call and the head it was given.
LEMMA PreflightRecoveryKeeps ==
    ASSUME Inv, NEW b \in Actors, PreflightRecovery(b)
    PROVE  Inv'
<1>0. host[b].pc = "preflight" /\ host[b].pc \in Working
    BY DEF PreflightRecovery, Pc, Working
<1>f. UNCHANGED <<dir, run, lease, sent, granted, acted>>
    BY DEF PreflightRecovery
<1>1. CASE Finish(b, Failure("Integrity")) /\ UNCHANGED inspected
    BY <1>0, <1>1, <1>f, IntegrityKeeps
<1>2. CASE Finish(b, Failure("Configuration")) /\ UNCHANGED inspected
    BY <1>0, <1>2, <1>f, IntegrityKeeps
<1>3. CASE Readable /\ Finish(b, Shown) /\ inspected' = run
    <2>1. RunShape(run) /\ run # None
        BY <1>3 DEF Readable, Inv, Shape
    <2>2. /\ Moves(b) /\ host'[b].pc = "done" /\ host'[b].result = Shown
          /\ host'[b].c = host[b].c
        BY <1>0, <1>3, FinishMoves
    <2>3. Works(b)
        BY <1>f, <1>3, <2>1 DEF Works
    <2>4. PICK c : c = host[b].c
        OBVIOUS
    <2>5. Reports(Shown, c)'
        BY DEF Reports, Shown, Failure
    <2>6. Arrives(b)
        BY <2>2, <2>4, <2>5, DoneArrives
    <2> QED BY <1>0, <2>2, <2>3, <2>6, WorkKeeps
<1>4. CASE /\ Readable /\ host[b].kind = "Discard" /\ Discards(host[b].target, run)
           /\ host' = [host EXCEPT ![b].pc = "abandon", ![b].seen = run] /\ UNCHANGED inspected
    <2>1. RunShape(run) /\ run # None
        BY <1>4 DEF Readable, Inv, Shape
    <2>2. /\ Moves(b) /\ host'[b].pc = "abandon" /\ host'[b].seen = run
          /\ host'[b].kind = "Discard" /\ host'[b].target = host[b].target
        BY <1>0, <1>4 DEF Inv, Shape, Moves, Past
    <2>3. Works(b)
        BY <1>f, <1>4, <2>1 DEF Works
    <2>4. Knows(b)'
        BY <1>f, <1>4, <2>1, <2>2 DEF Knows, Past, Driving, RunShape, Asked, Discards
    <2>5. Arrives(b)
        BY <2>2, <2>4 DEF Arrives, Driving
    <2> QED BY <1>0, <2>2, <2>3, <2>5, WorkKeeps
<1> QED BY <1>1, <1>2, <1>3, <1>4 DEF PreflightRecovery

\* The call that was shown is discarded, at the head that was shown.
LEMMA AbandonKeeps ==
    ASSUME Inv, NEW b \in Actors, Abandon(b)
    PROVE  Inv'
<1>0. host[b].pc = "abandon" /\ host[b].pc \in Past /\ host[b].pc \in Working
    BY DEF Abandon, Pc, Past, Working
<1>1. RunShape(run)
    BY <1>0 DEF Inv, KnowsInv, Knows
<1>2. CASE Finish(b, Failure("Integrity")) /\ UNCHANGED <<run, inspected>>
    BY <1>0, <1>2, IntegrityKeeps DEF Abandon
<1>3. CASE Journal([run EXCEPT !.call = None]) /\ inspected' = run' /\ Finish(b, Shown)
    <2>1. PICK r : r = [run EXCEPT !.call = None]
        OBVIOUS
    <2>2. /\ RunShape(r) /\ r.seq = run.seq /\ r.steps = run.steps /\ r.call = None /\ Journal(r)
        BY <1>1, <1>3, <2>1, CallFacts
    <2>3. Works(b)
        BY <1>0, <1>3, <2>2, AppendWorks DEF Abandon
    <2>4. PICK c : c = host[b].c
        OBVIOUS
    <2>5. Reports(Shown, c)'
        BY DEF Reports, Shown, Failure
    <2> QED BY <1>0, <1>3, <2>3, <2>4, <2>5, AppendAndFinish
<1> QED BY <1>2, <1>3 DEF Abandon

-----------------------------------------------------------------------------
(* Setting up a run *)

\* A step of the command that sets up the run, which is alone with it.
LEMMA EarlyFacts ==
    ASSUME Inv, NEW b \in Actors, Early(b)
    PROVE  /\ Untouched /\ dir.made
           /\ \A a \in Actors \ {b} :
                ~Early(a) /\ ~Discarding(a) /\ host[a].pc \notin Past
           /\ ResumeOk(Manifest(host[b].c), host[b].c) /\ Sized(Manifest(host[b].c))
           /\ dir.manifest # None => dir.manifest = [torn |-> FALSE, m |-> Manifest(host[b].c)]
           /\ host[b].pc \notin Past
<1>1. dir.made
    BY DEF Inv, AloneInv, Early
<1>2. host[b].pc \notin Past
    BY DEF Early, Past, Driving
<1> QED BY <1>1, <1>2 DEF Inv, AloneInv, BoundInv

\* It may write the manifest and make the catalog and the database.
LEMMA LayoutKeeps ==
    ASSUME Inv, NEW b \in Actors, Early(b), UNCHANGED <<run, lease, inspected, sent, granted, acted>>,
           DOMAIN dir' = DOMAIN dir, dir'.made = dir.made,
           \/ dir'.manifest = dir.manifest
           \/ dir.manifest = None /\ dir'.manifest = [torn |-> FALSE, m |-> Manifest(host[b].c)],
           \/ UNCHANGED host
           \/ host[b].pc = "database" /\ Goto(b, "seed")
    PROVE  Inv'
<1>1. /\ Untouched /\ dir.made
      /\ \A a \in Actors \ {b} : ~Early(a) /\ ~Discarding(a) /\ host[a].pc \notin Past
      /\ ResumeOk(Manifest(host[b].c), host[b].c) /\ Sized(Manifest(host[b].c))
      /\ dir.manifest # None => dir.manifest = [torn |-> FALSE, m |-> Manifest(host[b].c)]
      /\ host[b].pc \notin Past
    BY EarlyFacts
<1>2. /\ DOMAIN host' = Actors
      /\ \A a \in Actors : /\ DOMAIN host'[a] = DOMAIN host[a] /\ host'[a].kind = host[a].kind
                           /\ host'[a].c = host[a].c /\ host'[a].result = host[a].result
                           /\ host'[a].exchange = host[a].exchange
                           /\ a # b => host'[a] = host[a]
                           /\ host'[a].pc # host[a].pc =>
                                a = b /\ host[a].pc = "database" /\ host'[a].pc = "seed"
    BY DEF Inv, Shape, Goto
<1>3. Shape'
    BY <1>1, <1>2 DEF Inv, Shape, Untouched, Holding
<1>4. AloneInv'
    BY <1>1, <1>2 DEF AloneInv, Early, Discarding, Untouched, Past, Driving
<1>5. LeaseInv'
    BY <1>2 DEF Inv, LeaseInv, Holding
<1>6. BoundInv'
    <2>1. dir'.manifest # None => dir'.manifest = [torn |-> FALSE, m |-> Manifest(host[b].c)]
        BY <1>1
    <2>2. dir'.manifest # None /\ ~dir'.manifest.torn => Sized(dir'.manifest.m)
        BY <1>1, <2>1
    <2>3. ASSUME NEW a \in Actors, host'[a].pc \in Driving \union {"reopen"}
          PROVE  FALSE
        BY <1>1, <1>2, <2>3 DEF Past, Driving
    <2>4. ASSUME NEW a \in Actors, host'[a].pc \in {"database", "seed"}
          PROVE  host'[a].kind = "Run" /\ dir'.manifest # None
        <3>1. host[a].pc \in {"database", "seed"}
            BY <1>2, <2>4
        <3>2. host[a].kind = "Run" /\ dir.manifest # None
            BY <3>1 DEF Inv, BoundInv
        <3> QED BY <1>2, <3>2
    <2>5. ASSUME NEW a \in Actors, Early(a)'
          PROVE  a = b
        BY <1>1, <1>2, <2>5 DEF Early
    <2> QED BY <1>1, <1>2, <2>1, <2>2, <2>3, <2>4, <2>5, ZenonT(40) DEF BoundInv
<1>7. KnowsInv'
    BY <1>1, <1>2 DEF KnowsInv, Knows, Past, Driving
<1>8. SentInv' /\ GrantInv'
    <2>1. Seeded' = FALSE
        BY <1>1, <1>2 DEF Seeded, Untouched, Past, Driving
    <2> QED BY <1>1, <2>1 DEF SentInv, GrantInv, Untouched
<1>9. ReportInv'
    <2>1. \A r, c : Reports(r, c)' = Reports(r, c)
        BY DEF Reports, Doubtful, Executing, EffectUncertain, CallReserved
    <2> QED BY <1>2 DEF Inv, ReportInv, Reports, Doubtful, Executing, EffectUncertain, CallReserved
<1>10. ShownInv'
    BY <1>1, <1>2 DEF ShownInv, Untouched, Discarding, Early
<1> QED BY <1>3, <1>4, <1>5, <1>6, <1>7, <1>8, <1>9, <1>10 DEF Inv

\* The manifest is written by the process alone in the directory.
LEMMA WriteManifestKeeps ==
    ASSUME Inv, NEW b \in Actors, WriteManifest(b)
    PROVE  Inv'
BY LayoutKeeps DEF WriteManifest, Pc, Early, Inv, Shape

\* The catalogue is created by the process alone in the directory.
LEMMA CreateCatalogKeeps ==
    ASSUME Inv, NEW b \in Actors, CreateCatalog(b)
    PROVE  Inv'
BY LayoutKeeps DEF CreateCatalog, Pc, Early, Inv, Shape

\* The database is created by the process alone in the directory.
LEMMA CreateDatabaseKeeps ==
    ASSUME Inv, NEW b \in Actors, CreateDatabase(b)
    PROVE  Inv'
<1>1. Early(b) /\ host[b].pc = "database"
    BY DEF CreateDatabase, Pc, Early, Inv, BoundInv
<1> QED BY <1>1, LayoutKeeps DEF CreateDatabase, Inv, Shape

\* The run is seeded once, by the command that made its directory.
LEMMA SeedRunKeeps ==
    ASSUME Inv, NEW b \in Actors, SeedRun(b)
    PROVE  Inv'
<1>0. host[b].pc = "seed" /\ Early(b) /\ dir.manifest # None
    BY DEF SeedRun, Pc, Early, Inv, BoundInv
<1>1. /\ Untouched /\ dir.made
      /\ \A a \in Actors \ {b} : ~Early(a) /\ ~Discarding(a) /\ host[a].pc \notin Past
      /\ ResumeOk(Manifest(host[b].c), host[b].c) /\ Sized(Manifest(host[b].c))
      /\ dir.manifest = [torn |-> FALSE, m |-> Manifest(host[b].c)]
      /\ host[b].pc \notin Past
    BY <1>0, EarlyFacts
<1>2. /\ DOMAIN host' = Actors /\ host'[b].pc = "tick" /\ DOMAIN host'[b] = DOMAIN host[b]
      /\ host'[b].kind = host[b].kind /\ host'[b].c = host[b].c
      /\ \A a \in Actors \ {b} : host'[a] = host[a]
    BY DEF SeedRun, Inv, Shape
<1>3. /\ RunShape(run') /\ run'.call = None /\ run'.candidate = "none" /\ DOMAIN run'.steps = {}
    BY DEF SeedRun, NewRun, RunShape
<1>4. UNCHANGED <<dir, lease, inspected, sent, granted, acted>>
    BY DEF SeedRun
<1>l. lease = b /\ \A a \in Actors \ {b} : host[a].pc \notin Holding /\ lease # a
    BY <1>0 DEF Inv, LeaseInv, Holding
<1>5. Shape'
    BY <1>0, <1>2, <1>3, <1>4 DEF Inv, Shape, Early, Holding, Past, Driving
<1>6. AloneInv'
    BY <1>1, <1>2, <1>4 DEF AloneInv, Early
<1>7. LeaseInv'
    BY <1>l, <1>2, <1>4 DEF Inv, LeaseInv, Holding, Past, Driving
<1>8. BoundInv'
    <2>1. Bound(b)'
        BY <1>0, <1>1, <1>2, <1>4 DEF Bound
    <2>2. ~Early(b)' /\ host'[b].pc \notin {"database", "seed"}
        BY <1>2 DEF Early
    <2>3. ASSUME NEW a \in Actors \ {b}
          PROVE  /\ host'[a].pc \notin {"database", "seed"} /\ ~Early(a)'
                 /\ host'[a].pc \notin Driving \union {"reopen"}
        BY <1>1, <1>2, <1>l, <2>3 DEF Early, Past, Holding
    <2> QED BY <1>1, <1>4, <2>1, <2>2, <2>3 DEF BoundInv
<1>9. KnowsInv'
    <2>1. Knows(b)'
        BY <1>2, <1>3 DEF Knows, Past, Driving
    <2>2. ASSUME NEW a \in Actors \ {b}
          PROVE  Knows(a)'
        BY <1>1, <1>2, <2>2 DEF Knows, Past, Driving
    <2> QED BY <2>1, <2>2 DEF KnowsInv
<1>10. SentInv' /\ GrantInv'
    BY <1>1, <1>3, <1>4 DEF SentInv, Answered, GrantInv, Covered, Untouched
<1>11. ReportInv'
    BY <1>l, <1>2, <1>4 DEF Inv, ReportInv
<1>12. ShownInv'
    BY <1>1, <1>2, <1>4 DEF ShownInv, Untouched, Discarding
<1> QED BY <1>5, <1>6, <1>7, <1>8, <1>9, <1>10, <1>11, <1>12 DEF Inv

-----------------------------------------------------------------------------
(* Commands begin and end, and take the lease *)

\* A step that neither appends nor leaves its command at work.
Outside(b) ==
    /\ UNCHANGED <<run, inspected, sent, granted, acted>>
    /\ DOMAIN dir' = DOMAIN dir /\ (dir.made => dir'.made)
    /\ \/ dir'.manifest = dir.manifest
       \/ dir.manifest = None /\ Early(b) /\ ~Early(b)' /\ dir'.manifest.torn
    /\ DOMAIN host' = Actors /\ DOMAIN host'[b] = DOMAIN host[b]
    /\ \A a \in Actors \ {b} : host'[a] = host[a] /\ (lease' = a <=> lease = a)
    /\ host'[b].pc \in {"idle", "lease", "done", "database", "preflight"}
    /\ host'[b].pc \in Holding \union {"lease"} =>
        host'[b].kind \in {"Run", "Resume", "Inspect", "Discard"} /\ dir'.made
    /\ host'[b].pc \in Holding <=> lease' = b
    /\ host'[b].pc = "database" => host'[b].kind = "Run" /\ dir'.manifest # None

\* What such a step says of its command.
Begins(b) ==
    /\ Early(b)' =>
        \/ Early(b) /\ host'[b].c = host[b].c
        \/ ~dir.made /\ RunRefusal(host'[b].c) = Completed
    /\ Discarding(b)' =>
        LET target == host'[b].target IN
        \/ Discarding(b) /\ target = host[b].target
        \/ /\ inspected # None /\ target.shown = inspected
           /\ target.call = inspected.call.id
           /\ target.head # None => target.head = inspected.seq
    /\ host'[b].pc = "done" /\ host'[b].kind = "Probe" /\ host'[b].result = Shown =>
        Reply(host'[b].c.endpoint, host'[b].exchange) = "ok"

\* What a process does without the run at hand keeps the invariant.
LEMMA OutsideKeeps ==
    ASSUME Inv, NEW b \in Actors, Outside(b), Begins(b)
    PROVE  Inv'
<1>p. host'[b].pc \notin Past
    BY DEF Outside, Past, Driving
<1>1. Shape'
    BY <1>p DEF Inv, Shape, Outside, Holding
<1>2. AloneInv'
    <2>1. ~dir'.made => /\ Untouched' /\ dir'.manifest = None
                        /\ \A a \in Actors : host'[a].pc \in {"idle", "done"}
        <3>1. ASSUME ~dir'.made
              PROVE  /\ Untouched /\ dir.manifest = None
                     /\ \A a \in Actors : host[a].pc \in {"idle", "done"}
            BY <3>1 DEF Inv, AloneInv, Outside
        <3>2. ~dir'.made => ~Early(b)
            BY <3>1 DEF Early
        <3>3. ~dir'.made => host'[b].pc \in {"idle", "done"}
            BY DEF Outside, Holding
        <3> QED BY <3>1, <3>2, <3>3 DEF Outside, Untouched
    <2>2. ASSUME NEW a \in Actors \ {b}, Early(a)'
          PROVE  /\ Untouched'
                 /\ \A d \in Actors \ {a} : ~Early(d)' /\ ~Discarding(d)' /\ host'[d].pc \notin Past
        <3>1. Early(a)
            BY <2>2 DEF Early, Outside
        <3>2. /\ Untouched /\ dir.made
              /\ \A d \in Actors \ {a} : ~Early(d) /\ ~Discarding(d) /\ host[d].pc \notin Past
            BY <3>1, EarlyFacts
        <3>3. ~Early(b)' /\ ~Discarding(b)'
            BY <3>2 DEF Begins, Untouched
        <3>4. ASSUME NEW d \in Actors \ {a}, d # b
              PROVE  ~Early(d)' /\ ~Discarding(d)' /\ host'[d].pc \notin Past
            BY <3>2, <3>4 DEF Outside, Early, Discarding
        <3> QED BY <1>p, <3>2, <3>3, <3>4 DEF Outside, Untouched
    <2>3. ASSUME Early(b)'
          PROVE  /\ Untouched'
                 /\ \A d \in Actors \ {b} : ~Early(d)' /\ ~Discarding(d)' /\ host'[d].pc \notin Past
        <3>1. CASE Early(b)
            <4>1. /\ Untouched
                  /\ \A d \in Actors \ {b} : ~Early(d) /\ ~Discarding(d) /\ host[d].pc \notin Past
                BY <3>1, EarlyFacts
            <4> QED BY <4>1 DEF Outside, Untouched, Early, Discarding
        <3>2. CASE ~dir.made
            <4>1. Untouched /\ \A d \in Actors : host[d].pc \in {"idle", "done"}
                BY <3>2 DEF Inv, AloneInv
            <4> QED BY <4>1 DEF Outside, Untouched, Early, Discarding, Past, Driving
        <3> QED BY <2>3, <3>1, <3>2 DEF Begins
    <2> QED BY <2>1, <2>2, <2>3 DEF AloneInv
<1>3. LeaseInv'
    BY DEF Inv, LeaseInv, Outside
<1>m. dir.manifest # None => dir'.manifest = dir.manifest
    BY DEF Outside
<1>4. BoundInv'
    <2>1. dir'.manifest # None /\ ~dir'.manifest.torn => Sized(dir'.manifest.m)
        BY DEF Inv, BoundInv, Outside
    <2>2. ASSUME NEW a \in Actors \ {b}
          PROVE  /\ host'[a].pc \in {"database", "seed"} => host'[a].kind = "Run" /\ dir'.manifest # None
                 /\ host'[a].pc \in Driving \union {"reopen"} => Bound(a)'
        BY <1>m, <2>2 DEF Inv, BoundInv, Bound, Outside
    <2>3. ASSUME NEW a \in Actors \ {b}, Early(a)'
          PROVE  /\ ResumeOk(Manifest(host'[a].c), host'[a].c) /\ Sized(Manifest(host'[a].c))
                 /\ dir'.manifest # None => dir'.manifest = [torn |-> FALSE, m |-> Manifest(host'[a].c)]
        <3>1. Early(a) /\ host'[a] = host[a]
            BY <2>3 DEF Early, Outside
        <3>2. dir'.manifest = dir.manifest
            BY <3>1, EarlyFacts DEF Outside
        <3> QED BY <3>1, <3>2, EarlyFacts
    <2>4. ASSUME Early(b)'
          PROVE  /\ ResumeOk(Manifest(host'[b].c), host'[b].c) /\ Sized(Manifest(host'[b].c))
                 /\ dir'.manifest # None => dir'.manifest = [torn |-> FALSE, m |-> Manifest(host'[b].c)]
        <3>1. dir'.manifest = dir.manifest
            BY <2>4 DEF Outside
        <3>2. CASE Early(b) /\ host'[b].c = host[b].c
            BY <3>1, <3>2, EarlyFacts
        <3>3. CASE ~dir.made /\ RunRefusal(host'[b].c) = Completed
            BY <3>1, <3>3, FirstCommandIsBound DEF Inv, AloneInv
        <3> QED BY <2>4, <3>2, <3>3 DEF Begins
    <2>5. /\ host'[b].pc \in {"database", "seed"} => host'[b].kind = "Run" /\ dir'.manifest # None
          /\ host'[b].pc \notin Driving \union {"reopen"}
        BY <1>p DEF Outside, Past
    <2> QED BY <2>1, <2>2, <2>3, <2>4, <2>5 DEF BoundInv
<1>5. KnowsInv'
    <2>1. Knows(b)'
        BY <1>p DEF Knows, Past, Driving
    <2>2. ASSUME NEW a \in Actors \ {b}
          PROVE  Knows(a)'
        <3>1. host'[a] = host[a] /\ Knows(a) /\ run' = run /\ sent' = sent /\ granted' = granted
            BY <2>2 DEF Inv, KnowsInv, Outside
        <3>2. host[a].pc = "perform" => dir'.manifest = dir.manifest
            BY <1>m, <2>2 DEF Inv, BoundInv, Bound, Driving
        <3> QED BY <3>1, <3>2 DEF Knows, RunShape, Asked, Discards
    <2> QED BY <2>1, <2>2 DEF KnowsInv
<1>s. Seeded' => Seeded
    BY <1>p DEF Seeded, Outside
<1>6. SentInv'
    BY <1>m, <1>s DEF Inv, SentInv, Answered, Outside
<1>7. GrantInv'
    BY <1>m, <1>s DEF Inv, GrantInv, Covered, Outside
<1>8. ReportInv'
    <2>1. ASSUME NEW a \in Actors \ {b}, host'[a].pc = "done", lease' = a
          PROVE  Reports(host[a].result, host[a].c)'
        <3>1. host'[a] = host[a] /\ run' = run /\ Reports(host[a].result, host[a].c)
            BY <2>1 DEF Inv, ReportInv, Outside
        <3> QED BY <3>1 DEF Reports, Doubtful, Executing, EffectUncertain, CallReserved
    <2>2. host'[b].pc = "done" => lease' # b
        BY DEF Outside, Holding, Past, Driving
    <2>3. ASSUME NEW a \in Actors, host'[a].pc = "done" /\ host'[a].kind = "Probe" /\ host'[a].result = Shown
          PROVE  Reply(host'[a].c.endpoint, host'[a].exchange) = "ok"
        BY <2>3 DEF Inv, ReportInv, Outside, Begins
    <2> QED BY <2>1, <2>2, <2>3 DEF ReportInv
<1>9. ShownInv'
    <2>1. ASSUME NEW shown, Earlier(shown)
          PROVE  Earlier(shown)'
        BY <2>1 DEF Earlier, RunShape, Asked, Outside
    <2>2. inspected' # None => Earlier(inspected)'
        BY DEF Inv, ShownInv, Earlier, RunShape, Asked, Outside
    <2>3. ASSUME NEW a \in Actors, Discarding(a)'
          PROVE  LET target == host'[a].target IN
                 /\ Earlier(target.shown)
                 /\ target.call = target.shown.call.id
                 /\ target.head # None => target.head = target.shown.seq
        <3>1. CASE Discarding(a) /\ host'[a].target = host[a].target
            BY <3>1 DEF Inv, ShownInv
        <3>2. CASE a = b /\ ~(Discarding(a) /\ host'[a].target = host[a].target)
            BY <2>3, <3>2 DEF Inv, ShownInv, Begins
        <3>3. CASE a # b
            BY <2>3, <3>1, <3>3 DEF Discarding, Outside
        <3> QED BY <3>1, <3>2, <3>3
    <2>4. ASSUME NEW a \in Actors, Discarding(a)'
          PROVE  Earlier(host[a].target.shown)'
        <3>1. PICK shown : shown = host'[a].target.shown
            OBVIOUS
        <3>2. Earlier(shown)
            BY <2>3, <2>4, <3>1
        <3> QED BY <2>1, <3>1, <3>2 DEF Earlier
    <2> QED BY <2>2, <2>3, <2>4 DEF ShownInv
<1> QED BY <1>1, <1>2, <1>3, <1>4, <1>5, <1>6, <1>7, <1>8, <1>9 DEF Inv

\* The lease goes to a process only when nobody has it.
LEMMA AcquireLeaseKeeps ==
    ASSUME Inv, NEW b \in Actors, AcquireLease(b)
    PROVE  Inv'
<1>0. /\ host[b].pc = "lease" /\ lease # b /\ dir.made
      /\ host[b].kind \in {"Run", "Resume", "Inspect", "Discard"}
    BY DEF AcquireLease, Pc, Inv, LeaseInv, Holding, Past, Driving, AloneInv, Shape
<1>f. UNCHANGED <<dir, run, inspected, sent, granted, acted>>
    BY DEF AcquireLease
<1>1. CASE lease # None
    <2>1. lease' = lease /\ Finish(b, Failure("Busy"))
        BY <1>1 DEF AcquireLease
    <2>2. /\ DOMAIN host' = Actors /\ DOMAIN host'[b] = DOMAIN host[b] /\ host'[b].pc = "done"
          /\ host'[b].kind = host[b].kind /\ \A a \in Actors \ {b} : host'[a] = host[a]
        BY <2>1 DEF Finish, Inv, Shape
    <2>3. Outside(b)
        BY <1>0, <1>f, <2>1, <2>2 DEF Outside, Holding, Past, Driving
    <2>4. Begins(b)
        BY <1>0, <2>2 DEF Begins, Early, Discarding
    <2> QED BY <2>3, <2>4, OutsideKeeps
<1>2. CASE lease = None
    <2>1. lease' = b /\ Goto(b, IF host[b].kind = "Run" THEN "database" ELSE "preflight")
        BY <1>2 DEF AcquireLease
    <2>2. /\ DOMAIN host' = Actors /\ DOMAIN host'[b] = DOMAIN host[b]
          /\ host'[b].pc = IF host[b].kind = "Run" THEN "database" ELSE "preflight"
          /\ host'[b].kind = host[b].kind /\ host'[b].c = host[b].c /\ host'[b].target = host[b].target
          /\ \A a \in Actors \ {b} : host'[a] = host[a]
        BY <2>1 DEF Goto, Inv, Shape
    <2>3. \A a \in Actors \ {b} : lease' = a <=> lease = a
        BY <1>2, <2>1, LocalRunAssumption
    <2>4. Outside(b)
        BY <1>0, <1>f, <2>1, <2>2, <2>3 DEF Outside, Holding, Past, Driving, AcquireLease, LayoutReady
    <2>5. Begins(b)
        BY <1>0, <2>2 DEF Begins, Early, Discarding
    <2> QED BY <2>4, <2>5, OutsideKeeps
<1> QED BY <1>1, <1>2

\* The lease goes with its process.
LEMMA EndKeeps ==
    ASSUME Inv, NEW b \in Actors, host' = [host EXCEPT ![b] = Idle],
           lease' = IF lease = b THEN None ELSE lease,
           UNCHANGED <<run, inspected, sent, granted, acted>>,
           \/ UNCHANGED dir
           \/ /\ Early(b) /\ dir.manifest = None
              /\ dir' = [dir EXCEPT !.manifest = [torn |-> TRUE, m |-> None]]
    PROVE  Inv'
<1>1. /\ DOMAIN host' = Actors /\ DOMAIN host'[b] = DOMAIN host[b] /\ host'[b].pc = "idle"
      /\ \A a \in Actors \ {b} : host'[a] = host[a]
    BY DEF Idle, Inv, Shape
<1>2. ~Early(b)' /\ ~Discarding(b)'
    BY <1>1 DEF Early, Discarding
<1>3. lease' # b /\ \A a \in Actors \ {b} : lease' = a <=> lease = a
    BY LocalRunAssumption
<1>4. /\ DOMAIN dir' = DOMAIN dir /\ dir'.made = dir.made
      /\ dir'.manifest = dir.manifest \/ (dir.manifest = None /\ Early(b) /\ dir'.manifest.torn)
    BY DEF Inv, Shape
<1>5. Outside(b)
    BY <1>1, <1>2, <1>3, <1>4 DEF Outside, Holding, Past, Driving
<1>6. Begins(b)
    BY <1>1, <1>2 DEF Begins
<1> QED BY <1>5, <1>6, OutsideKeeps

\* A crash frees the lease and leaves the journal as it is.
LEMMA CrashKeeps ==
    ASSUME Inv, NEW b \in Actors, Crash(b)
    PROVE  Inv'
BY EndKeeps DEF Crash, Pc, Early

\* A command that ends frees the lease and keeps its report.
LEMMA ExitKeeps ==
    ASSUME Inv, NEW b \in Actors, Exit(b)
    PROVE  Inv'
BY EndKeeps DEF Exit

\* A command refused at once has touched nothing.
LEMMA RefusalKeeps ==
    ASSUME Inv, NEW b \in Actors, host[b].pc = "idle", NEW h, host' = [host EXCEPT ![b] = h],
           DOMAIN h = DOMAIN Idle, h.pc = "done",
           h.kind = "Probe" /\ h.result = Shown => Reply(h.c.endpoint, h.exchange) = "ok",
           UNCHANGED <<dir, run, lease, inspected, sent, granted, acted>>
    PROVE  Inv'
<1>1. /\ DOMAIN host' = Actors /\ DOMAIN host'[b] = DOMAIN host[b] /\ host'[b] = h
      /\ \A a \in Actors \ {b} : host'[a] = host[a]
    BY DEF Idle, Inv, Shape
<1>2. lease # b
    BY DEF Inv, LeaseInv, Holding, Past, Driving
<1>3. Outside(b)
    BY <1>1, <1>2 DEF Outside, Holding, Past, Driving
<1>4. Begins(b)
    BY <1>1 DEF Begins, Early, Discarding
<1> QED BY <1>3, <1>4, OutsideKeeps

\* A refused command sends, grants and does nothing.
LEMMA RefuseKeeps ==
    ASSUME Inv, NEW b \in Actors, NEW c, RefuseRun(b, c) \/ RefuseResume(b, c)
    PROVE  Inv'
<1>1. CASE RefuseRun(b, c)
    <2>1. PICK h : h = [Idle EXCEPT !.kind = "Run", !.c = c, !.pc = "done", !.result = RunRefusal(c)]
        OBVIOUS
    <2>2. DOMAIN h = DOMAIN Idle /\ h.pc = "done" /\ h.kind = "Run"
        BY <2>1 DEF Idle
    <2> QED BY <1>1, <2>1, <2>2, RefusalKeeps DEF RefuseRun, Pc
<1>2. CASE RefuseResume(b, c)
    <2>1. PICK h : h = [Idle EXCEPT !.kind = "Resume", !.c = c, !.pc = "done",
                                    !.result = Failure("Configuration")]
        OBVIOUS
    <2>2. DOMAIN h = DOMAIN Idle /\ h.pc = "done" /\ h.kind = "Resume"
        BY <2>1 DEF Idle
    <2> QED BY <1>2, <2>1, <2>2, RefusalKeeps DEF RefuseResume, Pc
<1> QED BY <1>1, <1>2

\* What the start of a command does.
LEMMA StartFacts ==
    ASSUME Inv, NEW b \in Actors, NEW kind, NEW c, NEW target, Start(b, kind, c, target)
    PROVE  /\ host[b].pc = "idle" /\ lease # b
           /\ DOMAIN host' = Actors /\ DOMAIN host'[b] = DOMAIN host[b] /\ host'[b].pc = "lease"
           /\ host'[b].kind = kind /\ host'[b].c = c /\ host'[b].target = target
           /\ \A a \in Actors \ {b} : host'[a] = host[a]
BY DEF Start, Pc, Idle, Inv, Shape, LeaseInv, Holding, Past, Driving

\* A new run starts in a directory that it makes.
LEMMA StartRunKeeps ==
    ASSUME Inv, NEW b \in Actors, NEW c, StartRun(b, c)
    PROVE  Inv'
<1>1. /\ host[b].pc = "idle" /\ lease # b
      /\ DOMAIN host' = Actors /\ DOMAIN host'[b] = DOMAIN host[b] /\ host'[b].pc = "lease"
      /\ host'[b].kind = "Run" /\ host'[b].c = c
      /\ \A a \in Actors \ {b} : host'[a] = host[a]
    BY StartFacts DEF StartRun
<1>2. DOMAIN dir' = DOMAIN dir /\ dir'.made /\ dir'.manifest = dir.manifest
    BY DEF StartRun, Inv, Shape
<1>3. Outside(b)
    BY <1>1, <1>2 DEF StartRun, Outside, Holding, Past, Driving
<1>4. Begins(b)
    BY <1>1 DEF StartRun, Begins, Discarding
<1> QED BY <1>3, <1>4, OutsideKeeps

\* The other commands start on a directory that is made.
LEMMA StartKeeps ==
    ASSUME Inv, NEW b \in Actors, NEW kind \in {"Resume", "Inspect", "Discard"}, NEW c, NEW target,
           dir.made, Start(b, kind, c, target),
           kind = "Discard" =>
               /\ inspected # None /\ target.shown = inspected /\ target.call = inspected.call.id
               /\ target.head # None => target.head = inspected.seq,
           UNCHANGED <<dir, run, lease, inspected, sent, granted, acted>>
    PROVE  Inv'
<1>1. /\ host[b].pc = "idle" /\ lease # b
      /\ DOMAIN host' = Actors /\ DOMAIN host'[b] = DOMAIN host[b] /\ host'[b].pc = "lease"
      /\ host'[b].kind = kind /\ host'[b].target = target
      /\ \A a \in Actors \ {b} : host'[a] = host[a]
    BY StartFacts
<1>2. Outside(b)
    BY <1>1 DEF Outside, Holding, Past, Driving
<1>3. Begins(b)
    BY <1>1 DEF Begins, Early, Discarding
<1> QED BY <1>2, <1>3, OutsideKeeps

\* A resume starts outside of the run.
LEMMA StartResumeKeeps ==
    ASSUME Inv, NEW b \in Actors, NEW c, StartResume(b, c)
    PROVE  Inv'
BY StartKeeps DEF StartResume

\* An inspection starts outside of the run.
LEMMA StartInspectKeeps ==
    ASSUME Inv, NEW b \in Actors, StartInspect(b)
    PROVE  Inv'
BY StartKeeps DEF StartInspect

\* A discard starts from what an inspection has shown.
LEMMA StartDiscardKeeps ==
    ASSUME Inv, NEW b \in Actors, NEW atHead, StartDiscard(b, atHead)
    PROVE  Inv'
<1>1. PICK target : target = [call |-> inspected.call.id, head |-> IF atHead THEN inspected.seq ELSE None,
                              shown |-> inspected]
    OBVIOUS
<1>2. /\ target.shown = inspected /\ target.call = inspected.call.id
      /\ target.head # None => target.head = inspected.seq
    BY <1>1
<1>3. dir.made
    BY DEF StartDiscard, Inv, AloneInv, Untouched
<1> QED BY <1>1, <1>2, <1>3, StartKeeps DEF StartDiscard

-----------------------------------------------------------------------------
(* A probe tells what the planner would say *)

\* A nonempty set of numbers has a least one.
LEMMA LeastNumber ==
    ASSUME NEW N, N \subseteq Nat, N # {}
    PROVE  \E x \in N : \A y \in N : x <= y
<1>1. PICK x \in N : \A y \in N : ~(<<y, x>> \in OpToRel(<, Nat))
    BY NatLessThanWellFounded, WFMin
<1>2. \A y \in N : <<y, x>> \in Nat \X Nat
    OBVIOUS
<1>3. \A y \in N : ~(y < x)
    BY <1>1, <1>2 DEF OpToRel
<1> QED BY <1>3

\* A list of checks is passed when none fails; otherwise its result is the failure
\* of one that fails.
LEMMA FirstFailureFacts ==
    ASSUME NEW checks, Len(checks) \in Nat
    PROVE  /\ (\A i \in 1..Len(checks) : ~checks[i][1]) => FirstFailure(checks) = "ok"
           /\ \/ FirstFailure(checks) = "ok"
              \/ \E i \in 1..Len(checks) : checks[i][1] /\ FirstFailure(checks) = checks[i][2]
<1> DEFINE I == {i \in 1..Len(checks) : checks[i][1]}
<1>1. CASE I = {}
    BY <1>1 DEF FirstFailure, SelectInSeq
<1>2. CASE I # {}
    <2>1. \E x \in I : \A y \in I : x <= y
        <3>1. I \subseteq Nat
            OBVIOUS
        <3> HIDE DEF I
        <3> QED BY <1>2, <3>1, LeastNumber
    <2>2. Min(I) \in I
        <3> HIDE DEF I
        <3> QED BY <2>1 DEF Min
    <2>3. SelectInSeq(checks, LAMBDA c : c[1]) = Min(I)
        BY <1>2 DEF SelectInSeq
    <2>4. FirstFailure(checks) = checks[Min(I)][2]
        BY <2>2, <2>3 DEF FirstFailure
    <2> QED BY <2>2, <2>4
<1> QED BY <1>1, <1>2

\* What sending can come to, other than a body.
LEMMA SendFacts ==
    ASSUME NEW x
    PROVE  Send(x) \in {"ok", "Timeout", "InvalidResponse", "Unavailable", "RequestTooLarge",
                        "RateLimited", "ProviderRejected"}
<1>1. ASSUME NEW e
      PROVE  MapTransportError(e) \in {"Timeout", "InvalidResponse", "Unavailable"}
    BY DEF MapTransportError
<1>2. ASSUME NEW s
      PROVE  MapStatus(s) \in {"Timeout", "RequestTooLarge", "RateLimited", "ProviderRejected", "Unavailable"}
    BY DEF MapStatus
<1> DEFINE checks == << <<x.sent # "ok", MapTransportError(x.sent)>>,
                        <<x.status # 200, MapStatus(x.status)>>,
                        <<x.long, "InvalidResponse">>,
                        <<x.read # "ok", MapTransportError(x.read)>> >>
<1>3. Len(checks) = 4
    OBVIOUS
<1>4. \A i \in 1..4 :
        checks[i][2] \in {"Timeout", "InvalidResponse", "Unavailable", "RequestTooLarge",
                          "RateLimited", "ProviderRejected"}
    BY <1>1, <1>2
<1>5. Send(x) = FirstFailure(checks)
    BY DEF Send
<1> HIDE DEF checks
<1> QED BY <1>3, <1>4, <1>5, FirstFailureFacts

\* A compatibility check that passes saw an answer the planner would accept.
LEMMA ProbeIsHonest ==
    ASSUME NEW e, NEW x, CheckCompatibility(e, x) = "ok"
    PROVE  Reply(e, x) = "ok"
<1>1. Send(x) = "ok"
    <2>1. ASSUME Send(x) # "ok"
          PROVE  MapCompatibilityFailure(Send(x)) # "ok"
        <3>1. ASSUME NEW f \in {"Timeout", "InvalidResponse", "Unavailable", "RequestTooLarge",
                                "RateLimited", "ProviderRejected"}
              PROVE  MapCompatibilityFailure(f) # "ok"
            BY DEF MapCompatibilityFailure
        <3> QED BY <2>1, <3>1, SendFacts
    <2> QED BY <2>1 DEF CheckCompatibility
<1> DEFINE body == x.body
           c == body.choices[1]
           d == c.content
<1>2. /\ Envelope(body, e.model) = "ok" /\ Choice(c) = "ok"
      /\ d.version = 1 /\ d.kind = "complete" /\ d.steps = <<>> /\ d.summary
    BY <1>1 DEF CheckCompatibility, DecodeCompatibility
<1>3. Document(e, d) = "ok"
    <2> DEFINE checks ==
                << <<d.version # 1, "InvalidResponse">>,
                   <<d.kind = "plan" /\ d.summary, "InvalidResponse">>,
                   <<d.kind = "plan" /\ \E i \in DOMAIN d.steps :
                        \/ ~AtomicArgumentsOk(e, d.steps[i])
                        \/ \E k \in DOMAIN d.steps[i].deps : ~DependencyOk(d.steps[i].deps[k]),
                     "InvalidResponse">>,
                   <<d.kind = "complete" /\ (d.steps # <<>> \/ ~d.summary), "InvalidResponse">> >>
    <2>a. /\ checks[1] = <<FALSE, "InvalidResponse">> /\ checks[2] = <<FALSE, "InvalidResponse">>
          /\ checks[3] = <<FALSE, "InvalidResponse">> /\ checks[4] = <<FALSE, "InvalidResponse">>
        BY <1>2
    <2>l. Len(checks) = 4
        OBVIOUS
    <2> HIDE DEF checks
    <2>b. /\ checks[1][1] = FALSE /\ checks[2][1] = FALSE
          /\ checks[3][1] = FALSE /\ checks[4][1] = FALSE
        BY <2>a
    <2>1. Len(checks) = 4 /\ \A i \in 1..4 : ~checks[i][1]
        <3>1. ASSUME NEW i \in 1..4
              PROVE  checks[i][1] = FALSE
            BY <2>b
        <3> QED BY <2>l, <3>1
    <2>2. Document(e, d) = FirstFailure(checks)
        BY DEF Document, checks
    <2> QED BY <2>1, <2>2, FirstFailureFacts
<1>4. ValidateArtifact(e, d) = "ok"
    BY <1>2 DEF ValidateArtifact
<1>5. Decode(e, body) = "ok"
    <2> DEFINE checks == << <<Document(e, d) # "ok", Document(e, d)>>,
                            <<ValidateArtifact(e, d) # "ok", "InvalidResponse">> >>
    <2>a. checks[1] = <<FALSE, "ok">> /\ checks[2] = <<FALSE, "InvalidResponse">>
        BY <1>3, <1>4
    <2>l. Len(checks) = 2
        OBVIOUS
    <2> HIDE DEF checks
    <2>b. checks[1][1] = FALSE /\ checks[2][1] = FALSE
        BY <2>a
    <2>1. Len(checks) = 2 /\ \A i \in 1..2 : ~checks[i][1]
        <3>1. ASSUME NEW i \in 1..2
              PROVE  checks[i][1] = FALSE
            BY <2>b
        <3> QED BY <2>l, <3>1
    <2>2. Decode(e, body) = FirstFailure(checks)
        BY <1>2 DEF Decode, checks
    <2> QED BY <2>1, <2>2, FirstFailureFacts
<1> QED BY <1>1, <1>5 DEF Reply

\* The endpoint check reports no more than the endpoint answered.
LEMMA CheckKeeps ==
    ASSUME Inv, NEW b \in Actors, NEW c, NEW probe, NEW x, Check(b, c, probe, x)
    PROVE  Inv'
<1> DEFINE checked == CheckEndpoint(probe, c.endpoint, x)
<1>1. PICK h : h = [Idle EXCEPT !.kind = IF probe THEN "Probe" ELSE "Check", !.c = c, !.exchange = x,
                                !.pc = "done", !.result = IF checked = "ok" THEN Shown ELSE Failure(checked)]
    OBVIOUS
<1>2. /\ DOMAIN h = DOMAIN Idle /\ h.pc = "done" /\ h.c = c /\ h.exchange = x
      /\ h.kind = IF probe THEN "Probe" ELSE "Check"
      /\ h.result = IF checked = "ok" THEN Shown ELSE Failure(checked)
    BY <1>1 DEF Idle
<1>3. ASSUME h.kind = "Probe", h.result = Shown
      PROVE  Reply(h.c.endpoint, h.exchange) = "ok"
    <2>1. probe /\ checked = "ok"
        <3>1. Failure(checked) # Shown
            BY DEF Failure, Shown
        <3> QED BY <1>2, <1>3, <3>1
    <2>2. CheckCompatibility(c.endpoint, x) = "ok"
        BY <2>1 DEF CheckEndpoint
    <2> QED BY <1>2, <2>2, ProbeIsHonest
<1> QED BY <1>1, <1>2, <1>3, RefusalKeeps DEF Check, Pc

-----------------------------------------------------------------------------
(* The invariant holds *)

\* The invariant holds before the first command.
LEMMA InitHolds ==
    ASSUME Init
    PROVE  Inv
<1>1. /\ DOMAIN host = Actors /\ lease = None /\ inspected = None /\ sent = {} /\ acted = {}
      /\ \A a \in Actors : /\ host[a].pc = "idle"
                           /\ DOMAIN host[a] = {"pc", "kind", "c", "target", "seen", "ticks", "step",
                                                "exchange", "outcome", "result"}
    BY DEF Init, Idle
<1>2. /\ DOMAIN dir = {"made", "manifest", "catalog", "db"}
      /\ \/ ~dir.made /\ dir.manifest = None /\ run = None
         \/ /\ dir.made /\ RunShape(run) /\ run.call = None /\ DOMAIN run.steps = {}
            /\ ~dir.manifest.torn => Sized(dir.manifest.m)
    <2>1. CASE dir = [made |-> FALSE, manifest |-> None, catalog |-> FALSE, db |-> FALSE] /\ run = None
        BY <2>1
    <2>2. ASSUME NEW c, RunRefusal(c) = Completed,
                 dir = [made |-> TRUE, manifest |-> [torn |-> FALSE, m |-> Manifest(c)],
                        catalog |-> ConstraintsRequired(c), db |-> TRUE],
                 run = [NewRun EXCEPT !.conf = 1, !.turns = 1, !.candidate = "legacy"]
          PROVE  /\ DOMAIN dir = {"made", "manifest", "catalog", "db"}
                 /\ dir.made /\ RunShape(run) /\ run.call = None /\ DOMAIN run.steps = {}
                 /\ ~dir.manifest.torn => Sized(dir.manifest.m)
        <3>1. RunShape(run) /\ run.call = None /\ DOMAIN run.steps = {}
            BY <2>2 DEF NewRun, RunShape
        <3>2. Sized(Manifest(c))
            BY <2>2, FirstCommandIsBound
        <3>3. dir.manifest.m = Manifest(c) /\ dir.made /\ DOMAIN dir = {"made", "manifest", "catalog", "db"}
            BY <2>2
        <3> QED BY <3>1, <3>2, <3>3
    <2> QED BY <2>1, <2>2 DEF Init
<1>p. "idle" \notin Holding /\ "idle" \notin Past
    BY DEF Holding, Past, Driving
<1>3. Shape
    BY <1>1, <1>2, <1>p DEF Shape
<1>4. \A a \in Actors : ~Early(a) /\ ~Discarding(a) /\ lease # a
    BY <1>1, LocalRunAssumption DEF Early, Discarding
<1>5. AloneInv /\ LeaseInv
    BY <1>1, <1>2, <1>4, <1>p DEF AloneInv, LeaseInv, Untouched
<1>6. BoundInv
    BY <1>1, <1>2, <1>4, <1>p DEF BoundInv, Past
<1>7. KnowsInv
    BY <1>1, <1>p DEF KnowsInv, Knows
<1>8. SentInv /\ GrantInv
    BY <1>1, <1>2, <1>p DEF SentInv, GrantInv, Seeded, Answered, Covered
<1>9. ReportInv /\ ShownInv
    BY <1>1, <1>4 DEF ReportInv, ShownInv
<1> QED BY <1>3, <1>5, <1>6, <1>7, <1>8, <1>9 DEF Inv

\* Every step of every command keeps the invariant.
LEMMA NextKeeps ==
    ASSUME Inv, [Next]_vars
    PROVE  Inv'
<1>1. CASE UNCHANGED vars
    <2>1. UNCHANGED <<dir, run, lease, host, inspected, sent, granted, acted>>
        BY <1>1 DEF vars
    <2> QED BY <2>1
        DEF Inv, Shape, AloneInv, LeaseInv, BoundInv, KnowsInv, SentInv, GrantInv, ReportInv, ShownInv,
            Early, Discarding, Untouched, Bound, Knows, RunShape, Asked, Seeded, Answered, Covered,
            Reports, Doubtful, Executing, EffectUncertain, CallReserved, Earlier
<1>2. ASSUME NEW b \in Actors, Command(b)
      PROVE  Inv'
    BY <1>2, RefuseKeeps, StartRunKeeps, StartResumeKeeps, CheckKeeps, StartInspectKeeps,
       StartDiscardKeeps DEF Command
<1>3. ASSUME NEW b \in Actors, Step(b)
      PROVE  Inv'
    <2>1. CASE WriteManifest(b) \/ CreateCatalog(b) \/ AcquireLease(b) \/ CreateDatabase(b) \/ SeedRun(b)
        BY <2>1, WriteManifestKeeps, CreateCatalogKeeps, AcquireLeaseKeeps, CreateDatabaseKeeps, SeedRunKeeps
    <2>2. CASE \/ PreflightResume(b) \/ MarkCall(b) \/ MarkEffect(b) \/ Reopen(b)
               \/ PreflightRecovery(b) \/ Abandon(b)
        BY <2>2, PreflightResumeKeeps, MarkCallKeeps, MarkEffectKeeps, ReopenKeeps,
           PreflightRecoveryKeeps, AbandonKeeps
    <2>3. CASE \/ TickBudgetExhausted(b) \/ AskEgress(b) \/ Configure(b) \/ TakeAction(b) \/ Quiesce(b)
               \/ ReserveCall(b)
        BY <2>3, TickBudgetKeeps, AskEgressKeeps, ConfigureKeeps, TakeActionKeeps, QuiesceKeeps,
           ReserveCallKeeps
    <2>4. CASE \/ \E x \in Exchanges : CallModel(b, x)
               \/ RecordFailure(b) \/ RecordCompletion(b) \/ RejectPlan(b) \/ Materialize(b) \/ CommitPlan(b)
        BY <2>4, CallModelKeeps, RecordFailureKeeps, RecordCompletionKeeps, RejectPlanKeeps,
           MaterializeKeeps, CommitPlanKeeps
    <2>5. CASE \/ Admit(b) \/ StartEffect(b) \/ GiveUp(b)
               \/ \E outcome \in {"Validating", "Failed", "EffectUnknown"} : PerformEffect(b, outcome)
               \/ RecordOutcome(b) \/ \E passed \in BOOLEAN : Verify(b, passed)
        BY <2>5, AdmitKeeps, StartEffectKeeps, GiveUpKeeps, PerformEffectKeeps, RecordOutcomeKeeps,
           VerifyKeeps
    <2>6. CASE Continue(b) \/ Exit(b)
        BY <2>6, ContinueKeeps, ExitKeeps
    <2> QED BY <1>3, <2>1, <2>2, <2>3, <2>4, <2>5, <2>6 DEF Step
<1>4. ASSUME NEW b \in Actors, Cancel(b) \/ DriverFails(b) \/ Crash(b)
      PROVE  Inv'
    BY <1>4, CancelKeeps, DriverFailsKeeps, CrashKeeps
<1> QED BY <1>1, <1>2, <1>3, <1>4 DEF Next

\* The invariant of the commands.
THEOREM LocalRunInvariant == Spec => []Inv
BY InitHolds, NextKeeps, PTL DEF Spec

\* For every number of processes and every set of requests and answers: a call is
\* reserved, and a request sent, only by a command given consent to egress, with
\* the profile of the manifest (ReserveCall, CallModel).
THEOREM EgressNeedsConsent == Spec => []ConsentBoundsEgress
<1>1. ASSUME Inv
      PROVE  ConsentBoundsEgress
    <2>1. \A a \in Actors : host[a].pc \in {"call", "answer", "commit"} => host[a].c.egress
        BY <1>1 DEF Inv, KnowsInv, Knows
    <2>2. run # None => Answered
        BY <1>1 DEF Inv, SentInv, Seeded
    <2> QED BY <1>1, <2>1, <2>2 DEF Inv, SentInv, Answered, ConsentBoundsEgress
<1> QED BY <1>1, LocalRunInvariant, PTL

\* Every effect was admitted under the flag for its class and lies within the
\* manifest, whichever commands with whichever flags planned, admitted and
\* performed it.
THEOREM EffectsNeedConsent == Spec => []ActsWithinConsent
<1>1. ASSUME Inv
      PROVE  ActsWithinConsent
    BY <1>1 DEF Inv, GrantInv, ActsWithinConsent
<1> QED BY <1>1, LocalRunInvariant, PTL

\* What a command reports when it returns is so in the journal it leaves.
THEOREM ReportsAreTrue == Spec => []ReportIsTrue
<1>1. ASSUME Inv
      PROVE  ReportIsTrue
    BY <1>1 DEF Inv, ReportInv, Reports, ReportIsTrue, Pc
<1> QED BY <1>1, LocalRunInvariant, PTL

\* A call is discarded from the run the operator was shown.
THEOREM DiscardsAreInformed == Spec => DiscardIsInformed
<1>1. ASSUME Inv, NEW a \in Actors, Pc(a, "abandon")
      PROVE  LET target == host[a].target IN
             /\ run.call.id = target.shown.call.id
             /\ target.head # None => run = target.shown
    <2>1. Discarding(a) /\ Discards(host[a].target, run)
        BY <1>1 DEF Pc, Discarding, Inv, KnowsInv, Knows
    <2> QED BY <1>1, <2>1 DEF Inv, ShownInv, Earlier, Discards
<1>2. ASSUME Inv
      PROVE  [\A a \in Actors :
                Pc(a, "abandon") /\ run' # run /\ host'[a].pc = "done" =>
                    LET target == host[a].target IN
                    /\ run.call.id = target.shown.call.id
                    /\ target.head # None => run = target.shown]_vars
    BY <1>1, <1>2
<1> QED BY <1>2, LocalRunInvariant, PTL DEF DiscardIsInformed
=============================================================================
