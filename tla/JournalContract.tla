--------------------------- MODULE JournalContract ---------------------------
(***************************************************************************)
(* What the run store promises to the processes that share a run, told     *)
(* without tables, transactions, caches or versions: one log that only     *)
(* grows, by an event of a process that knows its whole length; what a     *)
(* process is told is the log of that moment; and a store that was changed *)
(* from outside says nothing and takes nothing any more.                   *)
(***************************************************************************)
EXTENDS Naturals, Sequences, SequencesExt

CONSTANTS
    Conns,
    Events,
    Histories,
    None

VARIABLES
    log,
    known,      \* the length of the log that a process last learnt, or None
    damaged     \* someone changed the store behind the program's back

vars == <<log, known, damaged>>

Init ==
    /\ log \in Histories
    /\ known = [c \in Conns |-> None]
    /\ damaged = FALSE

Learn(c) ==
    /\ ~damaged
    /\ known' = [known EXCEPT ![c] = Len(log)]
    /\ UNCHANGED <<log, damaged>>

Extend(c, e) ==
    /\ ~damaged
    /\ known[c] = Len(log)
    /\ log' = Append(log, e)
    /\ known' = [known EXCEPT ![c] = Len(log')]
    /\ UNCHANGED damaged

Forget(c) ==
    /\ known' = [known EXCEPT ![c] = None]
    /\ UNCHANGED <<log, damaged>>

Damage ==
    /\ log' \in {log} \cup (IF log = <<>> THEN {} ELSE {Front(log)})
    /\ damaged' = TRUE
    /\ UNCHANGED known

Next ==
    \/ \E c \in Conns : Learn(c) \/ Forget(c) \/ \E e \in Events : Extend(c, e)
    \/ Damage

Spec == Init /\ [][Next]_vars
=============================================================================
