-------------------------- MODULE ModelProfilesProofs --------------------------
(***************************************************************************)
(* Theorems about the model profiles, for any number of processes, names,  *)
(* URLs, references, commands and troubles: stored secrets go only where   *)
(* they were entered for, the secure store and the file agree but for what *)
(* failures and two limits leave behind, and no update is lost.            *)
(***************************************************************************)
EXTENDS ModelProfiles, WellFoundedInduction, TLAPS

-----------------------------------------------------------------------------
(* The parts of the inductive invariant *)

Commands == {"setup", "use", "logout", "remove", "resolve"}
Unsaved == {"Credential", "Storing", "Changing", "Written", "Rechecked"}
Writing == Unsaved \cup {"Renamed", "Failing"}
Quiet == {"Idle", "Asking", "Checking", "Resolving", "Sending"}

Operations ==
    [cmd : Commands \cup {None}, pc : Quiet \cup Writing, name : Names \cup {None},
     url : Urls \cup {None}, base : Collections \cup {None},
     plan : {"retain", "store", "drop", None}, secret : Urls \cup {None}, ref : Refs \cup {None}]

TypeOK ==
    /\ file \in Collections \cup {None}
    /\ keyring \in UNION {[refs -> Urls] : refs \in SUBSET Refs}
    /\ lock \in Procs \cup {None}
    /\ op \in [Procs -> Operations]

ProcStep(p) ==
    \/ Setup(p) \/ ChangeLocks(p) \/ Credentials(p) \/ Save(p) \/ Resolve(p)
    \/ GivesUp(p) \/ Dies(p)

\* What a command is in the middle of.
Sound(o) ==
    /\ o.pc \in Writing => o.cmd \in {"setup", "use", "logout", "remove"}
    /\ o.pc \in {"Asking", "Checking"} => o.cmd = "setup"
    /\ o.pc = "Storing" => o.cmd = "setup"
    /\ o.pc = "Credential" => o.cmd # "use"
    /\ o.pc = "Resolving" => o.plan = None
    /\ o.cmd = "setup" => o.name \in Names /\ o.url \in Urls
    /\ o.cmd \in {"use", "logout", "remove"} =>
         o.base # None /\ o.name \in DOMAIN o.base.profiles /\ o.plan = None
    /\ o.cmd = "setup" /\ o.pc \in Writing \cup {"Checking"} => o.plan # None
    /\ o.plan = "retain" => Existing(o) # None /\ Existing(o).url = o.url
    /\ o.plan = "store" => o.secret = o.url
    /\ o.ref # None => o.plan = "store" /\ o.cmd = "setup" /\ o.ref \notin RefsOf(o.base)
    /\ o.pc \in {"Asking", "Checking", "Credential", "Storing"} => o.ref = None

OpInv == \A p \in Procs : Sound(op[p]) /\ OwnRefs(op[p].base)

\* The lock is exclusive.
LockInv == \A p \in Procs : op[p].pc \in Writing => lock = p

\* Until it renames, a command that writes has read the file as it is, but for
\* an edit by hand, and such an edit changes no profile.
BaseInv ==
    \A p \in Procs : op[p].pc \in Unsaved =>
        /\ Contents(file).profiles = Contents(op[p].base).profiles
        /\ file = op[p].base \/ "edit" \in troubles

\* Every reference belongs to one URL, in the secure store, in the file and in
\* what the commands remember of it.
Agrees(home, f) ==
    \A n \in DOMAIN Contents(f).profiles :
        Contents(f).profiles[n].ref # None =>
            Contents(f).profiles[n].url = home[Contents(f).profiles[n].ref]
Homes(home) ==
    /\ Agrees(home, file)
    /\ \A r \in DOMAIN keyring : keyring[r] = home[r]
    /\ \A p \in Procs :
         /\ Agrees(home, op[p].base)
         /\ op[p].ref # None => op[p].url = home[op[p].ref]
HomeInv == \E home \in [Refs -> Urls \cup {None}] : Homes(home)

\* What the secure store holds while a command has changed it and not yet the
\* file.
Wanted(o) == (RefsOf(o.base) \ Deleted(o)) \cup ({o.ref} \ {None})
Tidy == troubles \cap {"crash", "keyring"} = {}
Whole == troubles = {}
Matches(refs) ==
    /\ Tidy => DOMAIN keyring \subseteq refs \cup surplus
    /\ Whole => refs \subseteq DOMAIN keyring \cup missing
StoreClaim(o) ==
    /\ o.pc = "Credential" => Matches(RefsOf(o.base))
    /\ o.pc \in {"Storing", "Changing", "Written", "Rechecked"} => Matches(Wanted(o))
    /\ o.pc = "Renamed" => Matches(RefsOf(file)) /\ (file = Changed(o) \/ "edit" \in troubles)
    /\ o.pc = "Failing" =>
         /\ Whole => RefsOf(file) \subseteq (DOMAIN keyring \ {o.ref}) \cup missing
         /\ Tidy => DOMAIN keyring \subseteq RefsOf(file) \cup {o.ref} \cup surplus
StoreInv ==
    /\ (\A p \in Procs : op[p].pc \in Quiet) => Matches(RefsOf(file))
    /\ \A p \in Procs : StoreClaim(op[p])

ProfileInv == OpInv /\ LockInv /\ BaseInv /\ OwnRefs(file)

-----------------------------------------------------------------------------
(* Collections of profiles *)

\* A nonempty set of numbers has a least one.
LEMMA LeastIsMember ==
  ASSUME NEW S, S \subseteq Nat, S # {}
  PROVE  Min(S) \in S
  <1>1. PICK x \in S : \A y \in S : ~ (<<y, x>> \in OpToRel(<, Nat))
    BY NatLessThanWellFounded, WFMin
  <1>2. \A y \in S : <<y, x>> \in Nat \X Nat
    OBVIOUS
  <1>3. \A y \in S : ~ (y < x)
    BY <1>1, <1>2 DEF OpToRel
  <1>4. \A y \in S : x =< y
    BY <1>3
  <1> QED
    BY <1>4 DEF Min

\* The shape of a collection, taken apart and put together.
LEMMA CollectionParts ==
  ASSUME NEW c \in Collections
  PROVE  /\ c = [active |-> c.active, profiles |-> c.profiles]
         /\ c.active \in Names \cup {None}
         /\ DOMAIN c.profiles \in SUBSET Names
         /\ \A n \in DOMAIN c.profiles : c.profiles[n] \in Profile
         /\ c # None
  <1>1. c.profiles \in UNION {[names -> Profile] : names \in SUBSET Names}
    BY DEF Collections
  <1>2. PICK D \in SUBSET Names : c.profiles \in [D -> Profile]
    BY <1>1
  <1> QED
    BY <1>2, SavedAssumption DEF Collections

\* A collection from its parts.
LEMMA CollectionOf ==
  ASSUME NEW a \in Names \cup {None}, NEW D \in SUBSET Names, NEW f \in [D -> Profile]
  PROVE  [active |-> a, profiles |-> f] \in Collections
  BY DEF Collections

\* A missing file counts as an empty collection.
LEMMA ContentsIsCollection ==
  ASSUME NEW f \in Collections \cup {None}
  PROVE  Contents(f) \in Collections
  <1>1. [n \in {} |-> None] \in [{} -> Profile]
    OBVIOUS
  <1>2. Empty \in Collections
    BY <1>1, CollectionOf DEF Empty
  <1> QED
    BY <1>2 DEF Contents

\* A command that writes changes the profile it is about and no other.
LEMMA ChangedShape ==
  ASSUME NEW o \in Operations, Sound(o), o.pc \in Writing
  PROVE  /\ Changed(o) \in Collections
         /\ \A n : n # o.name =>
              /\ n \in DOMAIN Changed(o).profiles <=> n \in DOMAIN Contents(o.base).profiles
              /\ n \in DOMAIN Contents(o.base).profiles =>
                   Changed(o).profiles[n] = Contents(o.base).profiles[n]
         /\ o.cmd = "setup" =>
              /\ o.name \in DOMAIN Changed(o).profiles
              /\ Changed(o).profiles[o.name] =
                   [url |-> o.url, ref |-> IF o.plan = "retain" THEN OldRef(o) ELSE o.ref]
         /\ o.cmd = "use" => Changed(o).profiles = Contents(o.base).profiles
         /\ o.cmd = "logout" =>
              /\ o.name \in DOMAIN Changed(o).profiles
              /\ Changed(o).profiles[o.name].ref = None
         /\ o.cmd = "remove" => o.name \notin DOMAIN Changed(o).profiles
  <1> DEFINE b == Contents(o.base)
  <1>1. b \in Collections
    BY ContentsIsCollection DEF Operations
  <1>2. /\ b = [active |-> b.active, profiles |-> b.profiles]
        /\ b.active \in Names \cup {None}
        /\ DOMAIN b.profiles \in SUBSET Names
        /\ \A n \in DOMAIN b.profiles : b.profiles[n] \in Profile
    BY <1>1, CollectionParts
  <1>3. o.cmd \in {"setup", "use", "logout", "remove"}
    BY DEF Sound
  <1>4. ASSUME o.cmd # "setup"
        PROVE  b = o.base /\ o.name \in DOMAIN b.profiles
    BY <1>3, <1>4 DEF Sound, Contents
  <1>5. CASE o.cmd = "setup"
    <2>1. Changed(o) = Put(b, o.name,
              [url |-> o.url, ref |-> IF o.plan = "retain" THEN OldRef(o) ELSE o.ref])
      BY <1>5 DEF Changed
    <2>2. o.name \in Names /\ o.url \in Urls
      BY <1>5 DEF Sound
    <2>3. OldRef(o) \in Refs \cup {None}
      BY <1>2 DEF OldRef, Existing, Profile
    <2>4. [url |-> o.url, ref |-> IF o.plan = "retain" THEN OldRef(o) ELSE o.ref] \in Profile
      BY <2>2, <2>3 DEF Profile, Operations
    <2> DEFINE pr == [url |-> o.url, ref |-> IF o.plan = "retain" THEN OldRef(o) ELSE o.ref]
    <2> DEFINE f == [m \in DOMAIN b.profiles \cup {o.name} |-> IF m = o.name THEN pr ELSE b.profiles[m]]
    <2>5. Changed(o) = [active |-> o.name, profiles |-> f]
      BY <2>1 DEF Put
    <2> HIDE DEF pr, b
    <2>6. f \in [DOMAIN b.profiles \cup {o.name} -> Profile]
      BY <1>2, <2>4 DEF pr
    <2>7. Changed(o) \in Collections
      BY <1>2, <2>2, <2>5, <2>6, CollectionOf
    <2> QED
      BY <1>5, <2>5, <2>7 DEF pr, b
  <1>6. CASE o.cmd = "use"
    <2>1. Changed(o) = [o.base EXCEPT !.active = o.name]
      BY <1>6 DEF Changed
    <2>2. Changed(o) = [active |-> o.name, profiles |-> b.profiles]
      BY <1>2, <1>4, <1>6, <2>1
    <2> HIDE DEF b
    <2>3. Changed(o) \in Collections
      BY <1>1, <1>2, <1>4, <1>6, <2>2 DEF Collections
    <2> QED
      BY <1>6, <2>2, <2>3 DEF b
  <1>7. CASE o.cmd = "logout"
    <2>1. Changed(o) = [o.base EXCEPT !.profiles[o.name].ref = None]
      BY <1>7 DEF Changed
    <2> DEFINE f == [b.profiles EXCEPT ![o.name].ref = None]
    <2>2. Changed(o) = [active |-> b.active, profiles |-> f]
      BY <1>2, <1>4, <1>7, <2>1
    <2> HIDE DEF b
    <2>3. f \in [DOMAIN b.profiles -> Profile]
      BY <1>1, <1>2, <1>4, <1>7 DEF Profile, Collections
    <2>4. Changed(o) \in Collections
      BY <1>2, <2>2, <2>3, CollectionOf
    <2>5. f[o.name].ref = None
      BY <1>2, <1>4, <1>7, <2>3 DEF Profile
    <2> QED
      BY <1>4, <1>7, <2>2, <2>3, <2>4, <2>5 DEF b
  <1>8. CASE o.cmd = "remove"
    <2>1. Changed(o) = Take(b, o.name)
      BY <1>4, <1>8 DEF Changed
    <2> DEFINE rest == DOMAIN b.profiles \ {o.name}
    <2> DEFINE f == Restrict(b.profiles, rest)
    <2> DEFINE a == IF b.active # o.name THEN b.active ELSE IF rest = {} THEN None ELSE Min(rest)
    <2>2. Changed(o) = [active |-> a, profiles |-> f]
      BY <2>1 DEF Take
    <2> HIDE DEF b
    <2>3. f \in [rest -> Profile]
      BY <1>2 DEF Restrict
    <2>4. rest \subseteq Nat /\ rest \subseteq Names
      BY <1>2, ProfilesAssumption
    <2>5. a \in Names \cup {None}
      BY <1>2, <2>4, LeastIsMember
    <2>6. Changed(o) \in Collections
      <3> HIDE DEF a, f, rest
      <3> QED
        BY <2>2, <2>3, <2>4, <2>5, CollectionOf
    <2> QED
      BY <1>8, <2>2, <2>6 DEF b, Restrict
  <1> QED
    BY <1>3, <1>5, <1>6, <1>7, <1>8

\* The reference of the profile a command is about.
LEMMA OldRefOf ==
  ASSUME NEW o, Contents(o.base) \in Collections
  PROVE  OldRef(o) = IF o.name \in DOMAIN Contents(o.base).profiles
                     THEN Contents(o.base).profiles[o.name].ref ELSE None
  <1>1. \A n \in DOMAIN Contents(o.base).profiles : Contents(o.base).profiles[n] # None
    BY CollectionParts, SavedAssumption
  <1> QED
    BY <1>1 DEF OldRef, Existing

\* The saved collection refers to what is left of the old references and to the
\* new one, and no two of its profiles share a reference.
LEMMA ChangedRefs ==
  ASSUME NEW o \in Operations, Sound(o), o.pc \in Writing, OwnRefs(o.base)
  PROVE  /\ RefsOf(Changed(o)) = Wanted(o)
         /\ OwnRefs(Changed(o))
  <1> DEFINE B == Contents(o.base).profiles
  <1> DEFINE C == Changed(o).profiles
  <1>1. Changed(o) \in Collections /\ Contents(o.base) \in Collections
    BY ChangedShape, ContentsIsCollection DEF Operations
  <1>2. Contents(Changed(o)) = Changed(o)
    BY <1>1, CollectionParts DEF Contents
  <1>3. /\ \A n : n # o.name =>
              /\ n \in DOMAIN C <=> n \in DOMAIN B
              /\ n \in DOMAIN B => C[n] = B[n]
        /\ o.cmd = "setup" =>
              /\ o.name \in DOMAIN C
              /\ C[o.name].ref = IF o.plan = "retain" THEN OldRef(o) ELSE o.ref
        /\ o.cmd = "use" => C = B
        /\ o.cmd = "logout" => o.name \in DOMAIN C /\ C[o.name].ref = None
        /\ o.cmd = "remove" => o.name \notin DOMAIN C
    <2>1. \A n : n # o.name =>
              /\ n \in DOMAIN C <=> n \in DOMAIN B
              /\ n \in DOMAIN B => C[n] = B[n]
      BY ChangedShape
    <2>2. ASSUME o.cmd = "setup"
          PROVE  /\ o.name \in DOMAIN C
                 /\ C[o.name] =
                      [url |-> o.url, ref |-> IF o.plan = "retain" THEN OldRef(o) ELSE o.ref]
      BY ChangedShape, <2>2
    <2>3. /\ o.cmd = "use" => C = B
          /\ o.cmd = "logout" => o.name \in DOMAIN C /\ C[o.name].ref = None
          /\ o.cmd = "remove" => o.name \notin DOMAIN C
      BY ChangedShape
    <2> HIDE DEF B, C
    <2> QED
      BY <2>1, <2>2, <2>3
  <1>4. /\ RefsOf(Changed(o)) = {C[n].ref : n \in DOMAIN C} \ {None}
        /\ RefsOf(o.base) = {B[n].ref : n \in DOMAIN B} \ {None}
    BY <1>2 DEF RefsOf
  <1>5. OldRef(o) = IF o.name \in DOMAIN B THEN B[o.name].ref ELSE None
    BY <1>1, OldRefOf
  <1>6. /\ o.cmd \in {"setup", "use", "logout", "remove"}
        /\ o.cmd # "setup" => o.ref = None /\ o.plan = None /\ o.name \in DOMAIN B
        /\ o.plan = "retain" => o.name \in DOMAIN B
        /\ o.plan = "retain" => o.ref = None
        /\ o.ref \notin {B[n].ref : n \in DOMAIN B} \/ o.ref = None
    BY <1>4, SavedAssumption DEF Sound, Existing, Contents
  <1>7. \A m, n \in DOMAIN B : m # n /\ B[m].ref # None => B[m].ref # B[n].ref
    BY DEF OwnRefs
  <1>8. OwnRefs(Changed(o)) <=>
          \A m, n \in DOMAIN C : m # n /\ C[m].ref # None => C[m].ref # C[n].ref
    BY <1>2 DEF OwnRefs
  <1>9. Wanted(o) = (RefsOf(o.base) \ (IF o.plan = "retain" \/ o.cmd = "use" THEN {} ELSE {OldRef(o)} \ {None}))
                      \cup ({o.ref} \ {None})
    BY DEF Wanted, Deleted
  <1> HIDE DEF B, C
  <1>10. RefsOf(Changed(o)) = Wanted(o)
    <2>1. ASSUME NEW r PROVE r \in RefsOf(Changed(o)) <=> r # None /\ \E n \in DOMAIN C : C[n].ref = r
      BY <1>4
    <2>2. ASSUME NEW r PROVE r \in RefsOf(o.base) <=> r # None /\ \E n \in DOMAIN B : B[n].ref = r
      BY <1>4
    <2>3. CASE o.cmd = "use"
      BY <1>3, <1>4, <1>6, <1>9, <2>3
    <2>4. CASE o.cmd = "setup" /\ o.plan = "retain"
      <3>1. C[o.name].ref = B[o.name].ref /\ DOMAIN B = DOMAIN C
        BY <1>3, <1>5, <1>6, <2>4
      <3>2. \A n \in DOMAIN C : C[n].ref = B[n].ref
        BY <1>3, <3>1
      <3> QED
        BY <1>4, <1>6, <1>9, <2>4, <3>1, <3>2
    <2>5. CASE o.cmd = "setup" /\ o.plan # "retain"
      <3>1. ASSUME NEW r PROVE r \in RefsOf(Changed(o)) <=> r \in Wanted(o)
        <4>1. C[o.name].ref = o.ref /\ o.name \in DOMAIN C
          BY <1>3, <2>5
        <4>2. r \in Wanted(o) <=>
                \/ r # None /\ r = o.ref
                \/ r # OldRef(o) /\ r # None /\ \E n \in DOMAIN B : B[n].ref = r
          BY <1>9, <2>2, <2>5
        <4>3. CASE r = o.ref
          BY <2>1, <4>1, <4>2, <4>3
        <4>4. CASE r # o.ref
          BY <1>3, <1>5, <1>7, <2>1, <4>1, <4>2, <4>4
        <4> QED
          BY <4>3, <4>4
      <3> QED
        BY <3>1
    <2>6. CASE o.cmd \in {"logout", "remove"}
      <3>1. ASSUME NEW r PROVE r \in RefsOf(Changed(o)) <=> r \in Wanted(o)
        <4>1. r \in Wanted(o) <=> r # OldRef(o) /\ r # None /\ \E n \in DOMAIN B : B[n].ref = r
          <5>1. o.ref = None /\ o.plan # "retain" /\ o.cmd # "use"
            BY <1>6, <2>6, ProfilesAssumption
          <5>2. Wanted(o) = RefsOf(o.base) \ ({OldRef(o)} \ {None})
            BY <1>9, <5>1
          <5> QED
            BY <2>2, <5>2
        <4>2. OldRef(o) = B[o.name].ref
          BY <1>5, <1>6, <2>6
        <4>3. CASE o.cmd = "logout"
          <5>1. DOMAIN C = DOMAIN B /\ o.name \in DOMAIN B /\ C[o.name].ref = None
            BY <1>3, <1>6, <4>3
          <5>2. \A n \in DOMAIN B : n # o.name => C[n].ref = B[n].ref
            BY <1>3
          <5>3. r # None => ((\E n \in DOMAIN C : C[n].ref = r)
                              <=> \E n \in DOMAIN B : n # o.name /\ B[n].ref = r)
            BY <5>1, <5>2
          <5>4. r # OldRef(o) /\ r # None => ((\E n \in DOMAIN B : B[n].ref = r)
                              <=> \E n \in DOMAIN B : n # o.name /\ B[n].ref = r)
            BY <4>2
          <5>5. r = OldRef(o) /\ r # None => ~ \E n \in DOMAIN B : n # o.name /\ B[n].ref = r
            BY <1>7, <4>2, <5>1
          <5> QED
            BY <2>1, <4>1, <5>3, <5>4, <5>5
        <4>4. CASE o.cmd = "remove"
          BY <1>3, <1>6, <1>7, <2>1, <4>1, <4>2, <4>4
        <4> QED
          BY <2>6, <4>3, <4>4
      <3> QED
        BY <3>1
    <2> QED
      BY <1>6, <2>3, <2>4, <2>5, <2>6
  <1>11. OwnRefs(Changed(o))
    <2> SUFFICES ASSUME NEW m \in DOMAIN C, NEW n \in DOMAIN C, m # n, C[m].ref # None
                 PROVE  C[m].ref # C[n].ref
      BY <1>8
    <2>1. CASE m # o.name /\ n # o.name
      BY <1>3, <1>7, <2>1
    <2>2. CASE m = o.name \/ n = o.name
      BY <1>3, <1>5, <1>6, <1>7, <2>2
    <2> QED
      BY <2>1, <2>2
  <1> QED
    BY <1>10, <1>11

\* The saved collection keeps every reference with its URL.
LEMMA ChangedAgrees ==
  ASSUME NEW o \in Operations, Sound(o), o.pc \in Writing, NEW home, Agrees(home, o.base),
         o.ref # None => o.url = home[o.ref]
  PROVE  Agrees(home, Changed(o))
  <1> DEFINE B == Contents(o.base).profiles
  <1> DEFINE C == Changed(o).profiles
  <1>1. Changed(o) \in Collections /\ Contents(o.base) \in Collections
    BY ChangedShape, ContentsIsCollection DEF Operations
  <1>2. Contents(Changed(o)) = Changed(o)
    BY <1>1, CollectionParts DEF Contents
  <1>3. /\ \A n : n # o.name =>
              /\ n \in DOMAIN C <=> n \in DOMAIN B
              /\ n \in DOMAIN B => C[n] = B[n]
        /\ o.cmd = "setup" =>
              /\ o.name \in DOMAIN C
              /\ C[o.name].ref = IF o.plan = "retain" THEN OldRef(o) ELSE o.ref
              /\ C[o.name].url = o.url
        /\ o.cmd = "use" => C = B
        /\ o.cmd = "logout" => o.name \in DOMAIN C /\ C[o.name].ref = None
        /\ o.cmd = "remove" => o.name \notin DOMAIN C
    <2>1. \A n : n # o.name =>
              /\ n \in DOMAIN C <=> n \in DOMAIN B
              /\ n \in DOMAIN B => C[n] = B[n]
      BY ChangedShape
    <2>2. ASSUME o.cmd = "setup"
          PROVE  /\ o.name \in DOMAIN C
                 /\ C[o.name] =
                      [url |-> o.url, ref |-> IF o.plan = "retain" THEN OldRef(o) ELSE o.ref]
      BY ChangedShape, <2>2
    <2>3. /\ o.cmd = "use" => C = B
          /\ o.cmd = "logout" => o.name \in DOMAIN C /\ C[o.name].ref = None
          /\ o.cmd = "remove" => o.name \notin DOMAIN C
      BY ChangedShape
    <2> HIDE DEF B, C
    <2> QED
      BY <2>1, <2>2, <2>3
  <1>4. \A n \in DOMAIN B : B[n].ref # None => B[n].url = home[B[n].ref]
    BY DEF Agrees
  <1>5. OldRef(o) = IF o.name \in DOMAIN B THEN B[o.name].ref ELSE None
    BY <1>1, OldRefOf
  <1>6. /\ o.cmd \in {"setup", "use", "logout", "remove"}
        /\ o.plan = "retain" => o.name \in DOMAIN B /\ B[o.name].url = o.url
    BY DEF Sound, Existing
  <1> HIDE DEF B, C
  <1>7. ASSUME NEW n \in DOMAIN C, C[n].ref # None PROVE C[n].url = home[C[n].ref]
    <2>1. CASE n # o.name
      BY <1>3, <1>4, <1>7, <2>1
    <2>2. CASE n = o.name
      BY <1>3, <1>4, <1>5, <1>6, <1>7, <2>2
    <2> QED
      BY <2>1, <2>2
  <1> QED
    BY <1>2, <1>7 DEF Agrees, C

-----------------------------------------------------------------------------
(* One step of one command *)

\* The profile a command is about does not change with the place it is at.
LEMMA SameExisting ==
  ASSUME NEW o, NEW q, q.base = o.base, q.name = o.name
  PROVE  Existing(q) = Existing(o) /\ OldRef(q) = OldRef(o)
  BY DEF Existing, OldRef

\* A command that has not changed its inputs changes the file in the same way.
LEMMA SameChange ==
  ASSUME NEW o, NEW q, q.base = o.base, q.name = o.name, q.cmd = o.cmd, q.url = o.url,
         q.plan = o.plan, q.ref = o.ref
  PROVE  Changed(q) = Changed(o) /\ Wanted(q) = Wanted(o)
  BY SameExisting DEF Changed, Wanted, Deleted

\* The end of a command.
LEMMA IdleSound == Idle \in Operations /\ Sound(Idle) /\ OwnRefs(Idle.base) /\ Idle.ref = None
  <1>1. Idle \in Operations
    BY DEF Idle, Operations, Quiet
  <1>2. Sound(Idle)
    BY ProfilesAssumption DEF Idle, Sound, Writing, Unsaved
  <1>3. OwnRefs(None)
    BY DEF OwnRefs, Contents, Empty
  <1> QED
    BY <1>1, <1>2, <1>3 DEF Idle

\* A command that writes goes on.
LEMMA GotoSound ==
  ASSUME NEW o \in Operations, Sound(o), NEW x \in Writing, o.pc \in Writing \cup {"Checking"},
         x = "Storing" => o.cmd = "setup",
         x \in {"Credential", "Storing"} => o.pc \in {"Checking", "Credential"}
  PROVE  /\ [o EXCEPT !.pc = x] \in Operations
         /\ Sound([o EXCEPT !.pc = x])
         /\ [o EXCEPT !.pc = x].base = o.base
         /\ [o EXCEPT !.pc = x].pc = x
  <1> DEFINE q == [o EXCEPT !.pc = x]
  <1>1. q \in Operations
    BY DEF Operations
  <1>2. /\ q.cmd = o.cmd /\ q.pc = x /\ q.name = o.name /\ q.url = o.url /\ q.base = o.base
        /\ q.plan = o.plan /\ q.secret = o.secret /\ q.ref = o.ref
    BY DEF Operations
  <1> HIDE DEF q
  <1>3. Existing(q) = Existing(o)
    BY <1>2, SameExisting
  <1>4. Sound(q)
    BY <1>2, <1>3 DEF Sound, Writing, Unsaved
  <1> QED
    BY <1>1, <1>2, <1>4 DEF q

\* A command begins.
LEMMA StartSound ==
  ASSUME NEW o, o.cmd \in Commands, o.pc \in {"Asking", "Credential", "Changing", "Resolving"},
         o.cmd = "setup" => o.pc = "Asking" /\ o.name \in Names /\ o.url \in Urls,
         o.cmd = "resolve" <=> o.pc = "Resolving",
         o.pc = "Asking" => o.cmd = "setup",
         o.pc = "Credential" => o.cmd # "use",
         o.cmd \in {"use", "logout", "remove"} => o.base # None /\ o.name \in DOMAIN o.base.profiles,
         o.plan = None, o.ref = None
  PROVE  Sound(o)
  BY ProfilesAssumption DEF Sound, Writing, Unsaved, Commands

\* A profile of the file is one of an existing file.
LEMMA LoadedName ==
  ASSUME TypeOK, NEW n \in DOMAIN Load.profiles
  PROVE  file # None /\ Load = file /\ n \in DOMAIN file.profiles /\ n \in Names
  <1>1. file # None
    BY DEF Load, Contents, Empty
  <1>2. file \in Collections
    BY <1>1 DEF TypeOK
  <1> QED
    BY <1>1, <1>2, CollectionParts DEF Load, Contents

\* A secret is taken from the secure store only for the URL of its profile.
LEMMA StoredOrigin ==
  ASSUME TypeOK, NEW o, NEW input \in {"stdin", "env", "prompt", "empty", "none"},
         SecretOrigin(o, input) = "SecureStore"
  PROVE  Existing(o) # None /\ Existing(o).url = o.url /\ OldRef(o) \in DOMAIN keyring
  <1> DEFINE stored == IF Existing(o) # None /\ Existing(o).url = o.url THEN OldRef(o) ELSE None
  <1>1. None \notin DOMAIN keyring
    BY ProfilesAssumption DEF TypeOK
  <1>2. stored \in DOMAIN keyring
    <2>1. CASE o.url \notin Https
      <3>1. SecretOrigin(o, input) = IF input = "stdin" THEN "Refused" ELSE "None"
        BY <2>1, Zenon DEF SecretOrigin
      <3> QED
        BY <3>1
    <2>2. CASE o.url \in Https /\ input = "stdin"
      <3>1. SecretOrigin(o, input) = "StandardInput"
        BY <2>2, Zenon DEF SecretOrigin
      <3> QED
        BY <3>1
    <2>3. CASE o.url \in Https /\ input = "env"
      <3>1. SecretOrigin(o, input) = "Environment"
        BY <2>3, Zenon DEF SecretOrigin
      <3> QED
        BY <3>1
    <2>4. CASE o.url \in Https /\ input \in {"prompt", "empty", "none"}
      <3>1. SecretOrigin(o, input) =
              IF stored \in DOMAIN keyring THEN "SecureStore"
              ELSE IF stored # None /\ input = "none" THEN "Refused"
              ELSE IF input = "prompt" THEN "Interactive" ELSE "None"
        BY <2>4, Zenon DEF SecretOrigin
      <3> QED
        BY <3>1
    <2> QED
      BY <2>1, <2>2, <2>3, <2>4
  <1> QED
    BY <1>1, <1>2

\* What setup settles when it asks for the secret.
LEMMA AskedPlan ==
  ASSUME TypeOK, NEW p \in Procs, Sound(op[p]), SetupAsks(p)
  PROVE  \E plan \in {"retain", "store", "drop"}, secret \in Urls \cup {None} :
           /\ op' = [op EXCEPT ![p] = [op[p] EXCEPT !.pc = "Checking", !.plan = plan,
                                                    !.secret = secret]]
           /\ plan = "retain" =>
                /\ Existing(op[p]) # None /\ Existing(op[p]).url = op[p].url
                /\ OldRef(op[p]) \in DOMAIN keyring /\ secret = keyring[OldRef(op[p])]
           /\ plan = "store" => secret = op[p].url
           /\ plan = "drop" => secret = None
  <1> DEFINE Plan(origin, store_token) ==
               IF origin = "SecureStore" THEN "retain"
               ELSE IF store_token \/ origin = "Interactive" THEN "store" ELSE "drop"
  <1> DEFINE Secret(plan) == CASE plan = "retain" -> keyring[OldRef(op[p])]
                                [] plan = "store" -> op[p].url
                                [] plan = "drop" -> None
  <1>1. PICK input \in {"stdin", "env", "prompt", "empty", "none"}, store_token \in BOOLEAN :
          op' = [op EXCEPT ![p].pc = "Checking",
                           ![p].plan = Plan(SecretOrigin(op[p], input), store_token),
                           ![p].secret = Secret(Plan(SecretOrigin(op[p], input), store_token))]
    BY Zenon DEF SetupAsks
  <1> DEFINE origin == SecretOrigin(op[p], input)
  <1> DEFINE plan == Plan(origin, store_token)
  <1> DEFINE secret == Secret(plan)
  <1>2. plan \in {"retain", "store", "drop"} /\ (plan = "retain" => origin = "SecureStore")
    <2> HIDE DEF origin
    <2> QED
      OBVIOUS
  <1>3. plan = "retain" =>
          /\ Existing(op[p]) # None /\ Existing(op[p]).url = op[p].url
          /\ OldRef(op[p]) \in DOMAIN keyring
    BY <1>2, StoredOrigin
  <1> HIDE DEF plan
  <1>4. /\ plan = "retain" => secret = keyring[OldRef(op[p])]
        /\ plan = "store" => secret = op[p].url
        /\ plan = "drop" => secret = None
    BY Zenon
  <1>5. op[p] \in Operations /\ op[p].url \in Urls
    BY DEF TypeOK, SetupAsks, At, Sound
  <1>6. \A r \in DOMAIN keyring : keyring[r] \in Urls
    BY DEF TypeOK
  <1>7. op' = [op EXCEPT ![p].pc = "Checking", ![p].plan = plan, ![p].secret = secret]
    BY <1>1 DEF plan
  <1> HIDE DEF secret
  <1>8. op' = [op EXCEPT ![p] = [op[p] EXCEPT !.pc = "Checking", !.plan = plan, !.secret = secret]]
    BY <1>5, <1>7 DEF TypeOK, Operations
  <1>9. secret \in Urls \cup {None}
    BY <1>2, <1>3, <1>4, <1>5, <1>6
  <1> QED
    BY <1>2, <1>3, <1>4, <1>8, <1>9

\* f has no profile that g does not have.
PartOf(f, g) ==
    \A n \in DOMAIN Contents(f).profiles :
        /\ n \in DOMAIN Contents(g).profiles
        /\ Contents(f).profiles[n] = Contents(g).profiles[n]

\* A command in state o follows from the state of the command in process p.
Follows(p, o) ==
    /\ o \in Operations
    /\ Sound(o)
    /\ PartOf(o.base, op[p].base) \/ PartOf(o.base, file)
    /\ o.pc \in Unsaved => o.base = file \/ (op[p].pc \in Unsaved /\ o.base = op[p].base)

\* Ending a command is a sound move.
LEMMA IdleFollows == ASSUME NEW p PROVE Follows(p, Idle)
  <1>1. PartOf(Idle.base, op[p].base)
    BY DEF PartOf, Contents, Empty, Idle
  <1> QED
    BY <1>1, IdleSound DEF Follows, Idle, Unsaved

\* So is moving on within a command that has the lock.
LEMMA GotoFollows ==
  ASSUME TypeOK, NEW p \in Procs, Sound(op[p]), NEW x \in Writing,
         op[p].pc \in Writing,
         x = "Storing" => op[p].cmd = "setup",
         x \in {"Credential", "Storing"} => op[p].pc \in {"Checking", "Credential"},
         x \in Unsaved => op[p].pc \in Unsaved,
         Goto(p, x)
  PROVE  /\ Follows(p, [op[p] EXCEPT !.pc = x])
         /\ op' = [op EXCEPT ![p] = [op[p] EXCEPT !.pc = x]]
  <1>1. op[p] \in Operations
    BY DEF TypeOK
  <1> DEFINE o == [op[p] EXCEPT !.pc = x]
  <1>2. o \in Operations /\ Sound(o) /\ o.base = op[p].base /\ o.pc = x
    BY <1>1, GotoSound
  <1>3. op' = [op EXCEPT ![p] = o]
    BY DEF Goto
  <1> HIDE DEF o
  <1>4. PartOf(o.base, op[p].base)
    BY <1>2 DEF PartOf
  <1>5. Follows(p, o)
    BY <1>2, <1>4 DEF Follows
  <1> QED
    BY <1>3, <1>5 DEF o

\* Every step of a process takes its command to a state that follows.
LEMMA StepFollows ==
  ASSUME TypeOK, OpInv, NEW p \in Procs, ProcStep(p)
  PROVE  \E o : Follows(p, o) /\ op' = [op EXCEPT ![p] = o]
  <1>1. op[p] \in Operations /\ Sound(op[p])
    BY DEF TypeOK, OpInv
  <1>2. ASSUME Exit(p) PROVE \E o : Follows(p, o) /\ op' = [op EXCEPT ![p] = o]
    BY <1>2, IdleFollows DEF Exit
  <1>3. ASSUME NEW x \in Writing, op[p].pc \in Writing,
               x = "Storing" => op[p].cmd = "setup",
               x \in {"Credential", "Storing"} => op[p].pc \in {"Checking", "Credential"},
               x \in Unsaved => op[p].pc \in Unsaved,
               Goto(p, x)
        PROVE \E o : Follows(p, o) /\ op' = [op EXCEPT ![p] = o]
    BY <1>1, <1>3, GotoFollows
  <1>4. CASE SetupLoads(p)
    <2>1. PICK n \in Names, u \in Urls : Start(p, "setup", "Asking", n, u, file)
      BY <1>4 DEF SetupLoads
    <2> DEFINE o == [Idle EXCEPT !.cmd = "setup", !.pc = "Asking", !.name = n, !.url = u, !.base = file]
    <2>2. op' = [op EXCEPT ![p] = o]
      BY <2>1 DEF Start
    <2>g. file \in Collections \cup {None}
      BY DEF TypeOK
    <2>f. /\ o.cmd = "setup" /\ o.pc = "Asking" /\ o.name = n /\ o.url = u /\ o.base = file
          /\ o.plan = None /\ o.ref = None
      BY DEF Idle
    <2>o. o \in Operations
      BY <2>g DEF Operations, Idle, Quiet, Writing, Unsaved, Commands
    <2> HIDE DEF o
    <2>3. o \in Operations /\ Sound(o) /\ o.base = file /\ o.pc = "Asking"
      BY <2>f, <2>o, StartSound DEF Commands
    <2>4. Follows(p, o)
      BY <2>3 DEF Follows, PartOf, Unsaved
    <2> QED
      BY <2>2, <2>4
  <1>5. CASE SetupAsks(p)
    <2>1. PICK plan \in {"retain", "store", "drop"}, secret \in Urls \cup {None} :
           /\ op' = [op EXCEPT ![p] = [op[p] EXCEPT !.pc = "Checking", !.plan = plan,
                                                    !.secret = secret]]
           /\ plan = "retain" => Existing(op[p]) # None /\ Existing(op[p]).url = op[p].url
           /\ plan = "store" => secret = op[p].url
      BY <1>1, <1>5, AskedPlan
    <2> DEFINE o == [op[p] EXCEPT !.pc = "Checking", !.plan = plan, !.secret = secret]
    <2>2. o \in Operations
      BY <1>1 DEF Operations, Quiet
    <2>3. /\ o.cmd = op[p].cmd /\ o.name = op[p].name /\ o.url = op[p].url /\ o.base = op[p].base
          /\ o.ref = op[p].ref /\ o.pc = "Checking" /\ o.plan = plan /\ o.secret = secret
      BY <1>1 DEF Operations
    <2>4. op[p].pc = "Asking"
      BY <1>5 DEF SetupAsks, At
    <2> HIDE DEF o
    <2>5. Existing(o) = Existing(op[p])
      BY <2>3, SameExisting
    <2>6. Sound(o)
      BY <1>1, <2>1, <2>3, <2>4, <2>5, ProfilesAssumption DEF Sound, Writing, Unsaved
    <2>7. PartOf(o.base, op[p].base)
      BY <2>3 DEF PartOf
    <2>8. Follows(p, o)
      BY <2>2, <2>3, <2>6, <2>7 DEF Follows, Unsaved
    <2> QED
      BY <2>1, <2>8 DEF o
  <1>6. CASE SetupLocks(p)
    <2>1. Goto(p, "Credential") /\ op[p].pc = "Checking" /\ file = op[p].base
      BY <1>6 DEF SetupLocks, At
    <2> DEFINE o == [op[p] EXCEPT !.pc = "Credential"]
    <2>2. o \in Operations /\ Sound(o) /\ o.base = op[p].base /\ o.pc = "Credential"
      BY <1>1, <2>1, GotoSound DEF Writing, Unsaved
    <2>3. op' = [op EXCEPT ![p] = o]
      BY <2>1 DEF Goto
    <2> HIDE DEF o
    <2>4. PartOf(o.base, op[p].base)
      BY <2>2 DEF PartOf
    <2>5. Follows(p, o)
      BY <2>1, <2>2, <2>4 DEF Follows
    <2> QED
      BY <2>3, <2>5
  <1>7. CASE ChangeLocks(p)
    <2>1. PICK cmd \in {"use", "logout", "remove"}, n \in DOMAIN Load.profiles :
            Start(p, cmd, IF cmd = "use" THEN "Changing" ELSE "Credential", n, None, file)
      BY <1>7 DEF ChangeLocks
    <2> DEFINE pc == IF cmd = "use" THEN "Changing" ELSE "Credential"
    <2> DEFINE o == [Idle EXCEPT !.cmd = cmd, !.pc = pc, !.name = n, !.url = None, !.base = file]
    <2>2. op' = [op EXCEPT ![p] = o]
      BY <2>1 DEF Start
    <2>3. file # None /\ n \in DOMAIN file.profiles /\ n \in Names /\ file \in Collections
      BY LoadedName DEF TypeOK
    <2>4. pc \in {"Changing", "Credential"} /\ (pc = "Credential" => cmd # "use")
      OBVIOUS
    <2> HIDE DEF pc
    <2>f. /\ o.cmd = cmd /\ o.pc = pc /\ o.name = n /\ o.url = None /\ o.base = file
          /\ o.plan = None /\ o.ref = None
      BY DEF Idle
    <2>o. o \in Operations
      BY <2>3, <2>4 DEF Operations, Idle, Quiet, Writing, Unsaved, Commands
    <2> HIDE DEF o
    <2>5. o \in Operations /\ Sound(o) /\ o.base = file
      BY <2>3, <2>4, <2>f, <2>o, StartSound DEF Commands
    <2>6. Follows(p, o)
      BY <2>5 DEF Follows, PartOf
    <2> QED
      BY <2>2, <2>6
  <1>8. CASE DeleteSecret(p)
    <2>1. op[p].pc = "Credential" /\ Goto(p, IF op[p].cmd = "setup" THEN "Storing" ELSE "Changing")
      BY <1>8 DEF DeleteSecret, At
    <2> QED
      BY <1>3, <2>1 DEF Writing, Unsaved
  <1>9. CASE StoreSecret(p)
    <2>1. op[p].pc = "Storing"
      BY <1>9 DEF StoreSecret, At
    <2>2. CASE Goto(p, "Changing")
      BY <1>3, <2>1, <2>2 DEF Writing, Unsaved
    <2>3. CASE \E r \in NewReferences(op[p]) :
                 /\ op[p].plan = "store"
                 /\ op' = [op EXCEPT ![p].ref = r, ![p].pc = "Changing"]
      <3>1. PICK r \in NewReferences(op[p]) :
                 /\ op[p].plan = "store"
                 /\ op' = [op EXCEPT ![p].ref = r, ![p].pc = "Changing"]
        BY <2>3
      <3> DEFINE o == [op[p] EXCEPT !.ref = r, !.pc = "Changing"]
      <3>2. op' = [op EXCEPT ![p] = o]
        BY <1>1, <3>1 DEF TypeOK, Operations
      <3>3. r \in Refs /\ r \notin RefsOf(op[p].base)
        BY <3>1 DEF NewReferences, Unremembered
      <3>4. o \in Operations
        BY <1>1, <3>3 DEF Operations, Writing, Unsaved
      <3>5. /\ o.cmd = op[p].cmd /\ o.name = op[p].name /\ o.url = op[p].url
            /\ o.base = op[p].base /\ o.secret = op[p].secret /\ o.plan = op[p].plan
            /\ o.ref = r /\ o.pc = "Changing"
        BY <1>1 DEF Operations
      <3> HIDE DEF o
      <3>6. Existing(o) = Existing(op[p])
        BY <3>5, SameExisting
      <3>7. Sound(o)
        BY <1>1, <2>1, <3>1, <3>3, <3>5, <3>6, ProfilesAssumption DEF Sound, Writing, Unsaved
      <3>8. Follows(p, o)
        BY <2>1, <3>4, <3>5, <3>7 DEF Follows, PartOf, Unsaved
      <3> QED
        BY <3>2, <3>8
    <2> QED
      BY <1>9, <2>2, <2>3 DEF StoreSecret
  <1>10. CASE KeyringFails(p) \/ LimitReached(p) \/ Send(p) \/ GivesUp(p) \/ Dies(p) \/ CleanUp(p)
    BY <1>2, <1>10 DEF KeyringFails, LimitReached, Send, GivesUp, Dies, CleanUp
  <1>11. CASE BeginSave(p)
    <2>1. op[p].pc = "Changing"
      BY <1>11 DEF BeginSave, At
    <2>2. Exit(p) \/ Goto(p, IF file # op[p].base THEN "Failing" ELSE "Written")
      BY <1>11 DEF BeginSave
    <2> QED
      BY <1>2, <1>3, <2>1, <2>2 DEF Writing, Unsaved
  <1>12. CASE Oversized(p) \/ Recheck(p)
    BY <1>3, <1>12 DEF Oversized, Recheck, At, Writing, Unsaved
  <1>13. CASE Rename(p)
    BY <1>3, <1>13 DEF Rename, At, Writing, Unsaved
  <1>14. CASE VerifySaved(p)
    BY <1>2, <1>3, <1>14 DEF VerifySaved, At, Writing, Unsaved
  <1>15. CASE DiskFails(p)
    BY <1>3, <1>15 DEF DiskFails, Writing, Unsaved
  <1>16. CASE ResolveLoads(p)
    <2>1. PICK n \in DOMAIN Load.profiles, u \in Urls :
            Start(p, "resolve", "Resolving", n, u,
                  [active |-> None, profiles |-> Restrict(file.profiles, {n})])
      BY <1>16 DEF ResolveLoads
    <2> DEFINE f == [active |-> None, profiles |-> Restrict(file.profiles, {n})]
    <2> DEFINE o == [Idle EXCEPT !.cmd = "resolve", !.pc = "Resolving", !.name = n, !.url = u, !.base = f]
    <2>2. op' = [op EXCEPT ![p] = o]
      BY <2>1 DEF Start
    <2>3. file \in Collections /\ Contents(file) = file /\ n \in DOMAIN file.profiles /\ n \in Names
      BY LoadedName DEF TypeOK, Load
    <2>4. Restrict(file.profiles, {n}) \in [{n} -> Profile]
      BY <2>3, CollectionParts DEF Restrict
    <2>5. f \in Collections
      BY <2>3, <2>4, CollectionOf
    <2>6. PartOf(f, file)
      <3>1. Contents(f) = f
        BY <2>5, CollectionParts DEF Contents
      <3> QED
        BY <2>3, <3>1 DEF PartOf, Restrict
    <2> HIDE DEF f
    <2>f. /\ o.cmd = "resolve" /\ o.pc = "Resolving" /\ o.name = n /\ o.url = u /\ o.base = f
          /\ o.plan = None /\ o.ref = None
      BY DEF Idle
    <2>o. o \in Operations
      BY <2>3, <2>5 DEF Operations, Idle, Quiet, Writing, Unsaved, Commands
    <2> HIDE DEF o
    <2>7. o \in Operations /\ Sound(o) /\ o.base = f /\ o.pc = "Resolving"
      BY <2>f, <2>o, StartSound DEF Commands
    <2>8. Follows(p, o)
      BY <2>6, <2>7 DEF Follows, Unsaved
    <2> QED
      BY <2>2, <2>8
  <1>17. CASE ResolveCredential(p)
    <2>1. /\ op[p].pc = "Resolving" /\ OldRef(op[p]) \in DOMAIN keyring
          /\ op' = [op EXCEPT ![p].secret = keyring[OldRef(op[p])], ![p].pc = "Sending"]
      BY <1>17 DEF ResolveCredential, At
    <2> DEFINE o == [op[p] EXCEPT !.secret = keyring[OldRef(op[p])], !.pc = "Sending"]
    <2>2. op' = [op EXCEPT ![p] = o]
      BY <1>1, <2>1 DEF TypeOK, Operations
    <2>3. keyring[OldRef(op[p])] \in Urls
      BY <2>1 DEF TypeOK
    <2>4. o \in Operations
      BY <1>1, <2>3 DEF Operations, Quiet
    <2>5. /\ o.cmd = op[p].cmd /\ o.name = op[p].name /\ o.url = op[p].url
          /\ o.base = op[p].base /\ o.plan = op[p].plan /\ o.ref = op[p].ref /\ o.pc = "Sending"
      BY <1>1 DEF Operations
    <2> HIDE DEF o
    <2>6. Existing(o) = Existing(op[p])
      BY <2>5, SameExisting
    <2>7. Sound(o)
      BY <1>1, <2>1, <2>5, <2>6, ProfilesAssumption DEF Sound, Writing, Unsaved
    <2>8. Follows(p, o)
      BY <2>4, <2>5, <2>7 DEF Follows, PartOf, Unsaved
    <2> QED
      BY <2>2, <2>8
  <1> QED
    BY <1>4, <1>5, <1>6, <1>7, <1>8, <1>9, <1>10, <1>11, <1>12, <1>13, <1>14, <1>15, <1>16, <1>17
    DEF ProcStep, Setup, Credentials, Save, Resolve

\* A process takes the lock when nobody has it, releases only its own, and is
\* in a writing command only with the lock.
LEMMA StepLocks ==
  ASSUME TypeOK, LockInv, NEW p \in Procs, ProcStep(p)
  PROVE  /\ lock' \in Procs \cup {None}
         /\ \A q \in Procs : q # p /\ lock = q => lock' = q
         /\ op'[p].pc \in Writing => lock' = p
  <1>1. op[p] \in Operations /\ op \in [Procs -> Operations] /\ lock \in Procs \cup {None}
    BY DEF TypeOK
  <1>2. op[p].pc \in Writing => lock = p
    BY DEF LockInv
  <1>3. None \notin Procs
    BY ProfilesAssumption
  <1> DEFINE Good == /\ lock' \in Procs \cup {None}
                     /\ \A q \in Procs : q # p /\ lock = q => lock' = q
                     /\ op'[p].pc \in Writing => lock' = p
  <1>4. ASSUME Exit(p) PROVE Good
    <2>1. op'[p].pc = "Idle"
      BY <1>1, <1>4 DEF Exit, Idle
    <2> QED
      BY <1>1, <1>4, <2>1 DEF Exit, Writing, Unsaved
  <1>5. ASSUME TryLock(p) PROVE Good
    BY <1>1, <1>3, <1>5 DEF TryLock
  <1>6. ASSUME UNCHANGED lock, op[p].pc \in Writing \/ op'[p].pc \notin Writing PROVE Good
    BY <1>1, <1>2, <1>6
  <1> SUFFICES Good
    OBVIOUS
  <1> HIDE DEF Good
  <1>7. CASE SetupLocks(p) \/ ChangeLocks(p)
    BY <1>5, <1>7 DEF SetupLocks, ChangeLocks
  <1>8. CASE KeyringFails(p) \/ LimitReached(p) \/ Send(p) \/ GivesUp(p) \/ Dies(p) \/ CleanUp(p)
    BY <1>4, <1>8 DEF KeyringFails, LimitReached, Send, GivesUp, Dies, CleanUp
  <1>9. CASE BeginSave(p) \/ VerifySaved(p)
    BY <1>4, <1>6, <1>9 DEF BeginSave, VerifySaved, At, Writing, Unsaved
  <1>10. CASE DeleteSecret(p) \/ StoreSecret(p) \/ Oversized(p) \/ Recheck(p) \/ Rename(p) \/ DiskFails(p)
    BY <1>6, <1>10 DEF DeleteSecret, StoreSecret, Oversized, Recheck, Rename, DiskFails, At, Writing, Unsaved
  <1>11. CASE SetupLoads(p) \/ ResolveLoads(p)
    <2>1. \E cmd, n, u, f : \E pc \in {"Asking", "Resolving"} : Start(p, cmd, pc, n, u, f)
      BY <1>11 DEF SetupLoads, ResolveLoads
    <2>2. op'[p].pc \in {"Asking", "Resolving"}
      BY <1>1, <2>1 DEF Start, Idle
    <2>3. UNCHANGED lock
      BY <1>11 DEF SetupLoads, ResolveLoads
    <2> QED
      BY <1>6, <2>2, <2>3 DEF Writing, Unsaved
  <1>12. CASE SetupAsks(p)
    <2>1. op'[p].pc = "Checking"
      BY <1>1, <1>12 DEF SetupAsks, Operations
    <2> QED
      BY <1>6, <1>12, <2>1 DEF SetupAsks, Writing, Unsaved
  <1>13. CASE ResolveCredential(p)
    <2>1. op'[p].pc = "Sending"
      BY <1>1, <1>13 DEF ResolveCredential, Operations
    <2> QED
      BY <1>6, <1>13, <2>1 DEF ResolveCredential, Writing, Unsaved
  <1> QED
    BY <1>7, <1>8, <1>9, <1>10, <1>11, <1>12, <1>13 DEF ProcStep, Setup, Credentials, Save, Resolve

\* Only the rename replaces the file, and troubles are never forgotten.
LEMMA StepFile ==
  ASSUME NEW p, ProcStep(p)
  PROVE  /\ UNCHANGED file \/ Rename(p)
         /\ troubles \subseteq troubles'
  BY DEF ProcStep, Setup, Credentials, Save, Resolve, SetupLoads, SetupAsks, SetupLocks, ChangeLocks,
         DeleteSecret, StoreSecret, KeyringFails, LimitReached, Oversized, BeginSave, Recheck, Rename, VerifySaved,
         DiskFails, CleanUp, ResolveLoads, ResolveCredential, Send, GivesUp, Dies, Trouble

\* An edit by hand changes no profile.
LEMMA EditParts ==
  ASSUME TypeOK, EditFile
  PROVE  /\ file \in Collections /\ file' \in Collections
         /\ file'.profiles = file.profiles
         /\ Contents(file).profiles = Contents(file').profiles
         /\ "edit" \in troubles'
         /\ troubles \subseteq troubles'
         /\ UNCHANGED <<keyring, lock, op>>
  <1>1. file \in Collections /\ UNCHANGED <<keyring, lock, op>>
    BY DEF EditFile, TypeOK
  <1>2. PICK n \in DOMAIN file.profiles \cup {None} : file' = [file EXCEPT !.active = n]
    BY DEF EditFile
  <1>3. n \in Names \cup {None}
    BY <1>1, CollectionParts
  <1>4. file' \in Collections /\ file'.profiles = file.profiles
    BY <1>1, <1>2, <1>3 DEF Collections
  <1>5. file # None /\ file' # None
    BY <1>1, <1>4, CollectionParts
  <1> QED
    BY <1>1, <1>4, <1>5 DEF EditFile, Trouble, Contents

\* An entry of the secure store is deleted, or a new one made, or nothing.
StoresNew(p, r) ==
    /\ op[p].pc = "Storing" /\ op[p].plan = "store"
    /\ keyring' = [e \in DOMAIN keyring \cup {r} |-> IF e = r THEN op[p].secret ELSE keyring[e]]
    /\ op' = [op EXCEPT ![p].ref = r, ![p].pc = "Changing"]

\* A step of a process leaves the keyring, deletes from it, or stores a secret under a new reference.
LEMMA StepKeyring ==
  ASSUME NEW p, ProcStep(p)
  PROVE  \/ UNCHANGED keyring
         \/ \E X : keyring' = Restrict(keyring, DOMAIN keyring \ X)
         \/ \E r \in NewReferences(op[p]) : StoresNew(p, r)
  BY DEF ProcStep, Setup, Credentials, Save, Resolve, SetupLoads, SetupAsks, SetupLocks, ChangeLocks,
         DeleteSecret, StoreSecret, KeyringFails, LimitReached, Oversized, BeginSave, Recheck, Rename, VerifySaved,
         DiskFails, CleanUp, ResolveLoads, ResolveCredential, Send, GivesUp, Dies, StoresNew, At

-----------------------------------------------------------------------------
(* Types, commands and the lock *)

\* The shape of the secure store.
LEMMA KeyringParts ==
  ASSUME TypeOK
  PROVE  /\ DOMAIN keyring \in SUBSET Refs
         /\ \A r \in DOMAIN keyring : keyring[r] \in Urls
  BY DEF TypeOK

\* A keyring from its parts.
LEMMA KeyringOf ==
  ASSUME NEW D \in SUBSET Refs, NEW f \in [D -> Urls]
  PROVE  f \in UNION {[refs -> Urls] : refs \in SUBSET Refs}
  OBVIOUS

\* A part of a collection keeps what holds of all its profiles.
LEMMA PartKeeps ==
  ASSUME NEW f, NEW g, PartOf(f, g)
  PROVE  /\ OwnRefs(g) => OwnRefs(f)
         /\ \A home : Agrees(home, g) => Agrees(home, f)
  BY DEF PartOf, OwnRefs, Agrees

\* The rename saves the change of the process that holds the lock.
LEMMA RenameSaves ==
  ASSUME TypeOK, ProfileInv, NEW p \in Procs, Rename(p)
  PROVE  /\ file' = Changed(op[p]) /\ file' \in Collections /\ OwnRefs(file')
         /\ lock = p /\ op[p].pc = "Rechecked"
         /\ op[p] \in Operations /\ Sound(op[p]) /\ OwnRefs(op[p].base)
  <1>1. op[p].pc = "Rechecked" /\ file' = Changed(op[p])
    BY DEF Rename, At
  <1>2. op[p] \in Operations /\ Sound(op[p]) /\ OwnRefs(op[p].base) /\ op[p].pc \in Writing
    BY <1>1 DEF TypeOK, ProfileInv, OpInv, Writing, Unsaved
  <1>3. lock = p
    BY <1>2 DEF ProfileInv, LockInv
  <1>4. Changed(op[p]) \in Collections /\ OwnRefs(Changed(op[p]))
    BY <1>2, ChangedShape, ChangedRefs
  <1> QED
    BY <1>1, <1>2, <1>3, <1>4

\* In the first state no command runs and the file is a collection.
LEMMA ProfileInit == Init => TypeOK /\ ProfileInv
  <1> SUFFICES ASSUME Init PROVE TypeOK /\ ProfileInv
    OBVIOUS
  <1>1. file \in Collections \cup {None} /\ OwnRefs(file)
    BY SavedAssumption DEF Init
  <1>2. \A r \in RefsOf(file) : /\ r \in Refs
                                /\ \E profile \in Range(file.profiles) : profile.ref = r
                                /\ \A profile \in Range(file.profiles) : profile.url \in Urls
    <2>1. CASE file = None
      BY <2>1 DEF RefsOf, Contents, Empty
    <2>2. CASE file # None
      <3>1. Contents(file) = file /\ \A n \in DOMAIN file.profiles : file.profiles[n] \in Profile
        BY <1>1, <2>2, CollectionParts DEF Contents
      <3> QED
        BY <3>1 DEF RefsOf, Range, Profile
    <2> QED
      BY <2>1, <2>2
  <1>3. keyring \in [RefsOf(file) -> Urls] /\ RefsOf(file) \in SUBSET Refs
    BY <1>2 DEF Init
  <1>4. keyring \in UNION {[refs -> Urls] : refs \in SUBSET Refs}
    BY <1>3, KeyringOf
  <1>5. op = [p \in Procs |-> Idle] /\ lock = None
    BY DEF Init
  <1>6. TypeOK
    BY <1>1, <1>4, <1>5, IdleSound DEF TypeOK
  <1>7. Idle.pc = "Idle"
    BY DEF Idle
  <1> QED
    BY <1>1, <1>5, <1>6, <1>7, IdleSound DEF ProfileInv, OpInv, LockInv, BaseInv, Writing, Unsaved

\* Every step keeps the types.
LEMMA TypeNext == ASSUME TypeOK, ProfileInv, [Next]_vars PROVE TypeOK'
  <1>1. ASSUME NEW p \in Procs, ProcStep(p) PROVE TypeOK'
    <2>1. PICK o : Follows(p, o) /\ op' = [op EXCEPT ![p] = o]
      BY <1>1, StepFollows DEF ProfileInv
    <2>2. op' \in [Procs -> Operations]
      BY <2>1 DEF Follows, TypeOK
    <2>3. lock' \in Procs \cup {None}
      BY <1>1, StepLocks DEF ProfileInv
    <2>4. file' \in Collections \cup {None}
      BY <1>1, StepFile, RenameSaves DEF TypeOK
    <2>5. keyring' \in UNION {[refs -> Urls] : refs \in SUBSET Refs}
      <3>1. CASE UNCHANGED keyring
        BY <3>1 DEF TypeOK
      <3>2. CASE \E X : keyring' = Restrict(keyring, DOMAIN keyring \ X)
        <4>1. PICK X : keyring' = Restrict(keyring, DOMAIN keyring \ X)
          BY <3>2
        <4>2. keyring' \in [DOMAIN keyring \ X -> Urls] /\ DOMAIN keyring \ X \in SUBSET Refs
          BY <4>1, KeyringParts DEF Restrict
        <4> QED
          BY <4>2, KeyringOf
      <3>3. CASE \E r \in NewReferences(op[p]) : StoresNew(p, r)
        <4>1. PICK r \in NewReferences(op[p]) : StoresNew(p, r)
          BY <3>3
        <4>2. r \in Refs
          BY DEF NewReferences, Unremembered
        <4>3. op[p].secret \in Urls
          <5>1. Sound(op[p]) /\ op[p].pc = "Storing" /\ op[p].plan = "store"
            BY <4>1 DEF ProfileInv, OpInv, StoresNew
          <5> QED
            BY <5>1 DEF Sound
        <4>4. keyring' \in [DOMAIN keyring \cup {r} -> Urls] /\ DOMAIN keyring \cup {r} \in SUBSET Refs
          BY <4>1, <4>2, <4>3, KeyringParts DEF StoresNew
        <4> QED
          BY <4>4, KeyringOf
      <3> QED
        BY <1>1, <3>1, <3>2, <3>3, StepKeyring
    <2> QED
      BY <2>2, <2>3, <2>4, <2>5 DEF TypeOK
  <1>2. ASSUME EditFile PROVE TypeOK'
    BY <1>2, EditParts DEF TypeOK
  <1>3. ASSUME UNCHANGED vars PROVE TypeOK'
    BY <1>3 DEF vars, TypeOK
  <1> QED
    BY <1>1, <1>2, <1>3 DEF Next, ProcStep

\* Every step keeps the invariant of locks, snapshots and references.
LEMMA ProfileNext == ASSUME TypeOK, ProfileInv, [Next]_vars PROVE ProfileInv'
  <1>1. ASSUME NEW p \in Procs, ProcStep(p) PROVE ProfileInv'
    <2>1. PICK o : Follows(p, o) /\ op' = [op EXCEPT ![p] = o]
      BY <1>1, StepFollows DEF ProfileInv
    <2>2. op'[p] = o /\ \A q \in Procs : q # p => op'[q] = op[q]
      BY <2>1 DEF TypeOK
    <2>3. OwnRefs(o.base)
      BY <2>1, PartKeeps DEF Follows, ProfileInv, OpInv
    <2>4. OpInv'
      <3>1. \A q \in Procs : Sound(op'[q]) /\ OwnRefs(op'[q].base)
        BY <2>1, <2>2, <2>3 DEF Follows, ProfileInv, OpInv
      <3> QED
        BY <3>1 DEF OpInv, Sound, OwnRefs, Existing, RefsOf, Contents
    <2>5. LockInv'
      BY <1>1, <2>2, StepLocks DEF ProfileInv, LockInv
    <2>6. OwnRefs(file)'
      <3>1. OwnRefs(file')
        BY <1>1, StepFile, RenameSaves DEF ProfileInv
      <3> QED
        BY <3>1 DEF OwnRefs, Contents
    <2>7. BaseInv'
      <3> SUFFICES ASSUME NEW q \in Procs, op'[q].pc \in Unsaved
                   PROVE  /\ Contents(file').profiles = Contents(op'[q].base).profiles
                          /\ file' = op'[q].base \/ "edit" \in troubles'
        BY DEF BaseInv, Contents
      <3>1. CASE UNCHANGED file
        <4>1. CASE q = p
          BY <1>1, <2>1, <2>2, <3>1, <4>1, StepFile DEF Follows, ProfileInv, BaseInv
        <4>2. CASE q # p
          BY <1>1, <2>2, <3>1, <4>2, StepFile DEF ProfileInv, BaseInv
        <4> QED
          BY <4>1, <4>2
      <3>2. CASE Rename(p)
        <4>1. lock = p
          BY <3>2, RenameSaves
        <4>2. op'[p].pc = "Renamed"
          BY <3>2 DEF Rename, Goto, TypeOK, Operations
        <4>3. q # p
          BY <4>2 DEF Unsaved
        <4>4. op[q].pc \in Writing
          BY <2>2, <4>3 DEF Writing
        <4> QED
          BY <4>1, <4>3, <4>4 DEF ProfileInv, LockInv
      <3> QED
        BY <1>1, <3>1, <3>2, StepFile
    <2> QED
      BY <2>4, <2>5, <2>6, <2>7 DEF ProfileInv
  <1>2. ASSUME EditFile PROVE ProfileInv'
    <2>1. /\ Contents(file).profiles = Contents(file').profiles
          /\ "edit" \in troubles'
          /\ UNCHANGED <<keyring, lock, op>>
      BY <1>2, EditParts DEF EditFile, history
    <2>2. OpInv' /\ LockInv'
      BY <2>1 DEF ProfileInv, OpInv, LockInv, Sound, OwnRefs, Existing, RefsOf, Contents
    <2>3. OwnRefs(file)'
      BY <2>1 DEF ProfileInv, OwnRefs, Contents
    <2>4. BaseInv'
      BY <2>1 DEF ProfileInv, BaseInv, Contents
    <2> QED
      BY <2>2, <2>3, <2>4 DEF ProfileInv
  <1>3. ASSUME UNCHANGED vars PROVE ProfileInv'
    BY <1>3 DEF vars, ProfileInv, OpInv, LockInv, BaseInv, Sound, OwnRefs, Existing, RefsOf, Contents
  <1> QED
    BY <1>1, <1>2, <1>3 DEF Next, ProcStep

\* The commands, the lock and what the commands have read, at every moment.
LEMMA ProfileAlways == Spec => [](TypeOK /\ ProfileInv)
  BY ProfileInit, TypeNext, ProfileNext, PTL DEF Spec

\* A command replaces only the revision of the file it read, so that no update of
\* another command is lost; only an edit by hand can be (ModelProfileStore::save).
THEOREM UpdatesAreKept == Spec => NoUpdateLost
  <1>1. ASSUME TypeOK, ProfileInv, [Next]_vars, NEW p \in Procs, file' # file, op'[p] # op[p]
        PROVE  file = op[p].base \/ "edit" \in troubles
    <2>1. PICK q \in Procs : ProcStep(q)
      BY <1>1, EditParts DEF Next, ProcStep, vars
    <2>2. Rename(q)
      BY <1>1, <2>1, StepFile
    <2>3. q = p
      BY <1>1, <2>2 DEF Rename, Goto, TypeOK
    <2> QED
      BY <1>1, <2>2, <2>3 DEF Rename, At, ProfileInv, BaseInv, Unsaved
  <1>2. TypeOK /\ ProfileInv /\ [Next]_vars =>
          [\A p \in Procs : file' # file /\ op'[p] # op[p] => file = op[p].base \/ "edit" \in troubles]_vars
    BY <1>1
  <1> QED
    BY <1>2, ProfileAlways, PTL DEF Spec, NoUpdateLost

-----------------------------------------------------------------------------
(* Secrets and the URLs they belong to *)

\* A command keeps its reference and its secret, drops them, makes a new
\* reference, or takes a secret that was entered or that is stored for its URL.
LEMMA StepSecret ==
  ASSUME TypeOK, ProfileInv, NEW p \in Procs, ProcStep(p)
  PROVE  /\ \/ op'[p].ref = None
            \/ op'[p].ref = op[p].ref /\ op'[p].url = op[p].url
            \/ \E r \in NewReferences(op[p]) : StoresNew(p, r)
         /\ \/ op'[p].secret = None
            \/ op'[p].secret = op[p].secret /\ op'[p].url = op[p].url
            \/ op'[p].secret = op'[p].url
            \/ /\ op'[p].url = op[p].url /\ op'[p].secret = keyring[OldRef(op[p])]
               /\ OldRef(op[p]) \in DOMAIN keyring
               /\ Existing(op[p]) # None /\ Existing(op[p]).url = op[p].url
  <1> DEFINE Good ==
         /\ \/ op'[p].ref = None
            \/ op'[p].ref = op[p].ref /\ op'[p].url = op[p].url
            \/ \E r \in NewReferences(op[p]) : StoresNew(p, r)
         /\ \/ op'[p].secret = None
            \/ op'[p].secret = op[p].secret /\ op'[p].url = op[p].url
            \/ op'[p].secret = op'[p].url
            \/ /\ op'[p].url = op[p].url /\ op'[p].secret = keyring[OldRef(op[p])]
               /\ OldRef(op[p]) \in DOMAIN keyring
               /\ Existing(op[p]) # None /\ Existing(op[p]).url = op[p].url
  <1> SUFFICES Good
    OBVIOUS
  <1>1. op[p] \in Operations /\ op \in [Procs -> Operations] /\ Sound(op[p])
    BY DEF TypeOK, ProfileInv, OpInv
  <1>2. ASSUME Exit(p) \/ \E cmd, pc, n, u, f : Start(p, cmd, pc, n, u, f) PROVE Good
    <2>1. op'[p].ref = None /\ op'[p].secret = None
      <3>1. CASE Exit(p)
        BY <1>1, <3>1 DEF Exit, Idle
      <3>2. CASE \E cmd, pc, n, u, f : Start(p, cmd, pc, n, u, f)
        <4>1. PICK cmd, pc, n, u, f : Start(p, cmd, pc, n, u, f)
          BY <3>2
        <4> QED
          BY <1>1, <4>1 DEF Start, Idle
      <3> QED
        BY <1>2, <3>1, <3>2
    <2> QED
      BY <2>1
  <1>3. ASSUME NEW x, Goto(p, x) PROVE Good
    <2>1. op'[p].ref = op[p].ref /\ op'[p].secret = op[p].secret /\ op'[p].url = op[p].url
      BY <1>1, <1>3 DEF Goto, Operations
    <2> QED
      BY <2>1
  <1>4. CASE SetupAsks(p)
    <2>1. PICK plan \in {"retain", "store", "drop"}, secret \in Urls \cup {None} :
           /\ op' = [op EXCEPT ![p] = [op[p] EXCEPT !.pc = "Checking", !.plan = plan,
                                                    !.secret = secret]]
           /\ plan = "retain" =>
                /\ Existing(op[p]) # None /\ Existing(op[p]).url = op[p].url
                /\ OldRef(op[p]) \in DOMAIN keyring /\ secret = keyring[OldRef(op[p])]
           /\ plan = "store" => secret = op[p].url
           /\ plan = "drop" => secret = None
      BY <1>1, <1>4, AskedPlan
    <2>2. op'[p].secret = secret /\ op'[p].url = op[p].url /\ op'[p].ref = op[p].ref
      BY <1>1, <2>1 DEF Operations
    <2> QED
      BY <2>1, <2>2
  <1>5. CASE ResolveCredential(p)
    <2>1. /\ op' = [op EXCEPT ![p].secret = keyring[OldRef(op[p])], ![p].pc = "Sending"]
          /\ OldRef(op[p]) \in DOMAIN keyring /\ Existing(op[p]).url = op[p].url
      BY <1>5 DEF ResolveCredential
    <2>2. /\ op'[p].secret = keyring[OldRef(op[p])] /\ op'[p].url = op[p].url
          /\ op'[p].ref = op[p].ref
      BY <1>1, <2>1 DEF Operations
    <2>3. Existing(op[p]) # None
      BY <2>1, KeyringParts, ProfilesAssumption DEF OldRef
    <2> QED
      BY <2>1, <2>2, <2>3
  <1>6. CASE StoreSecret(p)
    <2>1. CASE Goto(p, "Changing")
      BY <1>3, <2>1
    <2>2. CASE \E r \in NewReferences(op[p]) : StoresNew(p, r)
      <3>1. op'[p].secret = op[p].secret /\ op'[p].url = op[p].url
        BY <1>1, <2>2 DEF StoresNew, Operations
      <3> QED
        BY <2>2, <3>1
    <2> QED
      BY <1>6, <2>1, <2>2 DEF StoreSecret, StoresNew, At
  <1> HIDE DEF Good
  <1>7. CASE SetupLoads(p) \/ ChangeLocks(p) \/ ResolveLoads(p)
    BY <1>2, <1>7 DEF SetupLoads, ChangeLocks, ResolveLoads
  <1>8. CASE KeyringFails(p) \/ LimitReached(p) \/ Send(p) \/ GivesUp(p) \/ Dies(p) \/ CleanUp(p)
    BY <1>2, <1>8 DEF KeyringFails, LimitReached, Send, GivesUp, Dies, CleanUp
  <1>9. CASE BeginSave(p) \/ VerifySaved(p)
    BY <1>2, <1>3, <1>9 DEF BeginSave, VerifySaved
  <1>10. CASE SetupLocks(p) \/ DeleteSecret(p) \/ Oversized(p) \/ Recheck(p) \/ Rename(p) \/ DiskFails(p)
    BY <1>3, <1>10 DEF SetupLocks, DeleteSecret, Oversized, Recheck, Rename, DiskFails
  <1> QED
    BY <1>4, <1>5, <1>6, <1>7, <1>8, <1>9, <1>10 DEF ProcStep, Setup, Credentials, Save, Resolve

\* In the first state the keyring itself is the home of every reference.
LEMMA HomeInit == ASSUME Init PROVE HomeInv /\ SecretsStayHome
  <1>1. file \in Collections \cup {None} /\ OwnRefs(file) /\ TypeOK
    BY SavedAssumption, ProfileInit DEF Init
  <1> DEFINE home == [r \in Refs |-> IF r \in DOMAIN keyring THEN keyring[r] ELSE None]
  <1>2. home \in [Refs -> Urls \cup {None}] /\ \A r \in DOMAIN keyring : r \in Refs /\ keyring[r] = home[r]
    BY <1>1, KeyringParts
  <1>3. \A p \in Procs : op[p].base = None /\ op[p].ref = None /\ op[p].secret = None
    BY DEF Init, Idle
  <1>4. Agrees(home, None)
    BY DEF Agrees, Contents, Empty
  <1>5. Agrees(home, file)
    <2>1. CASE file = None
      BY <1>4, <2>1
    <2>2. CASE file # None
      <3>1. Contents(file) = file /\ \A n \in DOMAIN file.profiles : file.profiles[n] \in Profile
        BY <1>1, <2>2, CollectionParts DEF Contents
      <3>2. ASSUME NEW n \in DOMAIN file.profiles, file.profiles[n].ref # None
            PROVE  file.profiles[n].url = home[file.profiles[n].ref]
        <4> DEFINE r == file.profiles[n].ref
        <4> DEFINE c == CHOOSE profile \in Range(file.profiles) : profile.ref = r
        <4>1. r \in RefsOf(file) /\ r \in Refs
          BY <3>1, <3>2 DEF RefsOf, Profile
        <4>2. c \in Range(file.profiles) /\ c.ref = r
          BY DEF Range
        <4>3. keyring[r] = c.url /\ r \in DOMAIN keyring
          BY <4>1 DEF Init
        <4> HIDE DEF c
        <4>4. c = file.profiles[n]
          BY <1>1, <3>1, <3>2, <4>2 DEF OwnRefs, Range
        <4> QED
          BY <1>2, <4>1, <4>3, <4>4
      <3> QED
        BY <3>1, <3>2 DEF Agrees
    <2> QED
      BY <2>1, <2>2
  <1>6. Homes(home)
    BY <1>2, <1>3, <1>4, <1>5 DEF Homes
  <1> QED
    BY <1>2, <1>3, <1>6 DEF HomeInv, SecretsStayHome

\* Every step keeps a home for every reference.
LEMMA HomeNext ==
  ASSUME TypeOK, ProfileInv, HomeInv, SecretsStayHome, [Next]_vars
  PROVE  HomeInv' /\ SecretsStayHome'
  <1>0. PICK home \in [Refs -> Urls \cup {None}] : Homes(home)
    BY DEF HomeInv
  <1>1. ASSUME NEW p \in Procs, ProcStep(p) PROVE HomeInv' /\ SecretsStayHome'
    <2>1. PICK o : Follows(p, o) /\ op' = [op EXCEPT ![p] = o]
      BY <1>1, StepFollows DEF ProfileInv
    <2>2. op'[p] = o /\ \A q \in Procs : q # p => op'[q] = op[q]
      BY <2>1 DEF TypeOK
    <2>3. op[p] \in Operations /\ Sound(op[p]) /\ Contents(op[p].base) \in Collections
      BY ContentsIsCollection DEF TypeOK, ProfileInv, OpInv, Operations
    <2>4. SecretsStayHome'
      <3>1. ASSUME op'[p].secret # None PROVE op'[p].secret = op'[p].url
        <4>1. CASE \/ op'[p].secret = op[p].secret /\ op'[p].url = op[p].url
                   \/ op'[p].secret = op'[p].url
          BY <3>1, <4>1 DEF SecretsStayHome
        <4>2. CASE /\ op'[p].url = op[p].url /\ op'[p].secret = keyring[OldRef(op[p])]
                   /\ OldRef(op[p]) \in DOMAIN keyring
                   /\ Existing(op[p]) # None /\ Existing(op[p]).url = op[p].url
          <5>1. keyring[OldRef(op[p])] = home[OldRef(op[p])] /\ OldRef(op[p]) # None
            BY <1>0, <4>2, KeyringParts, ProfilesAssumption DEF Homes
          <5>2. Agrees(home, op[p].base)
            BY <1>0 DEF Homes
          <5>3. Existing(op[p]).url = home[OldRef(op[p])]
            BY <4>2, <5>1, <5>2 DEF Agrees, OldRef, Existing
          <5> QED
            BY <4>2, <5>1, <5>3
        <4> QED
          BY <1>1, <3>1, <4>1, <4>2, StepSecret
      <3> QED
        BY <2>2, <3>1 DEF SecretsStayHome
    <2>5. ASSUME NEW h, Agrees(h, file), \A q \in Procs : Agrees(h, op[q].base),
                 op[p].ref # None => op[p].url = h[op[p].ref]
          PROVE  Agrees(h, file') /\ \A q \in Procs : Agrees(h, op'[q].base)
      <3>1. Agrees(h, o.base)
        BY <2>1, <2>5, PartKeeps DEF Follows
      <3>2. CASE UNCHANGED file
        BY <2>2, <2>5, <3>1, <3>2
      <3>3. CASE Rename(p)
        <4>1. file' = Changed(op[p]) /\ op[p].pc \in Writing
          BY <3>3, RenameSaves DEF Writing, Unsaved
        <4>2. Agrees(h, file')
          BY <2>3, <2>5, <4>1, ChangedAgrees
        <4> QED
          BY <2>2, <2>5, <3>1, <4>2
      <3> QED
        BY <1>1, <3>2, <3>3, StepFile
    <2>6. CASE ~ \E r \in NewReferences(op[p]) : StoresNew(p, r)
      <3>1. \A r \in DOMAIN keyring' : keyring'[r] = home[r]
        BY <1>0, <1>1, <2>6, StepKeyring DEF Homes, Restrict
      <3>2. \A q \in Procs : op'[q].ref # None => op'[q].url = home[op'[q].ref]
        BY <1>0, <1>1, <2>2, <2>6, StepSecret DEF Homes
      <3>3. Agrees(home, file') /\ \A q \in Procs : Agrees(home, op'[q].base)
        BY <1>0, <2>5 DEF Homes
      <3>4. Homes(home)'
        BY <3>1, <3>2, <3>3 DEF Homes, Agrees, Contents
      <3> QED
        BY <2>4, <3>4 DEF HomeInv
    <2>7. CASE \E r \in NewReferences(op[p]) : StoresNew(p, r)
      <3>1. PICK r \in NewReferences(op[p]) : StoresNew(p, r)
        BY <2>7
      <3>2. /\ r \in Refs /\ r \notin DOMAIN keyring /\ r \notin RefsOf(file)
            /\ \A q \in Procs : r \notin RefsOf(op[q].base) /\ r # op[q].ref
        BY DEF NewReferences, Unremembered
      <3>n. PICK new : new = [home EXCEPT ![r] = op[p].url]
        OBVIOUS
      <3>3. new \in [Refs -> Urls \cup {None}] /\ new[r] = op[p].url
              /\ \A s : s # r /\ s \in Refs => new[s] = home[s]
        BY <1>0, <2>3, <3>2, <3>n DEF Operations
      <3>4. ASSUME NEW f \in Collections \cup {None}, Agrees(home, f), r \notin RefsOf(f)
            PROVE  Agrees(new, f)
        <4>1. \A n \in DOMAIN Contents(f).profiles : Contents(f).profiles[n].ref \in Refs \cup {None}
          BY ContentsIsCollection, CollectionParts DEF Profile
        <4> QED
          BY <3>3, <3>4, <4>1 DEF Agrees, RefsOf
      <3>5. Agrees(new, file) /\ \A q \in Procs : Agrees(new, op[q].base)
        <4>1. file \in Collections \cup {None} /\ \A q \in Procs : op[q].base \in Collections \cup {None}
          BY DEF TypeOK, Operations
        <4>2. Agrees(home, file) /\ \A q \in Procs : Agrees(home, op[q].base)
          BY <1>0 DEF Homes
        <4> QED
          BY <3>2, <3>4, <4>1, <4>2
      <3>6. \A q \in Procs : op[q].ref # None => op[q].ref \in Refs /\ op[q].url = new[op[q].ref]
        <4>1. \A q \in Procs : op[q].ref \in Refs \cup {None}
          BY DEF TypeOK, Operations
        <4>2. \A q \in Procs : op[q].ref # None => op[q].url = home[op[q].ref]
          BY <1>0 DEF Homes
        <4> QED
          BY <3>2, <3>3, <4>1, <4>2
      <3>7. Agrees(new, file') /\ \A q \in Procs : Agrees(new, op'[q].base)
        BY <2>5, <3>5, <3>6
      <3>8. op'[p].ref = r /\ op'[p].url = op[p].url
        BY <2>3, <3>1 DEF StoresNew, TypeOK, Operations
      <3>9. op[p].secret = op[p].url
        BY <2>3, <3>1 DEF StoresNew, Sound
      <3>10. \A s \in DOMAIN keyring' : keyring'[s] = new[s]
        BY <1>0, <3>1, <3>2, <3>3, <3>9, KeyringParts DEF StoresNew, Homes
      <3>11. \A q \in Procs : op'[q].ref # None => op'[q].url = new[op'[q].ref]
        BY <2>2, <3>3, <3>6, <3>8
      <3>12. Homes(new)'
        BY <3>7, <3>10, <3>11 DEF Homes, Agrees, Contents
      <3> QED
        BY <2>4, <3>3, <3>12 DEF HomeInv
    <2> QED
      BY <2>6, <2>7
  <1>2. ASSUME EditFile PROVE HomeInv' /\ SecretsStayHome'
    <2>1. /\ Contents(file).profiles = Contents(file').profiles
          /\ UNCHANGED <<keyring, lock, op>>
      BY <1>2, EditParts DEF EditFile, history
    <2>2. Agrees(home, file')
      BY <1>0, <2>1 DEF Homes, Agrees
    <2>3. Homes(home)'
      BY <1>0, <2>1, <2>2 DEF Homes, Agrees, Contents
    <2> QED
      BY <2>1, <2>3 DEF HomeInv, SecretsStayHome
  <1>3. ASSUME UNCHANGED vars PROVE HomeInv' /\ SecretsStayHome'
    BY <1>0, <1>3 DEF vars, HomeInv, Homes, Agrees, Contents, SecretsStayHome
  <1> QED
    BY <1>1, <1>2, <1>3 DEF Next, ProcStep

\* A stored secret is used with the URL it was entered for and no other, however
\* profiles, URLs and secrets were replaced between the moment a command read
\* the profile and the moment it read the secret (resolve_credential,
\* resolve_setup_secret).
THEOREM SecretsAlwaysStayHome == Spec => []SecretsStayHome
  BY HomeInit, HomeNext, ProfileAlways, PTL DEF Spec

-----------------------------------------------------------------------------
(* The secure store and the file *)

\* While a process holds the lock, every other is in a command that writes
\* nothing.
LEMMA OthersQuiet ==
  ASSUME TypeOK, LockInv, NEW p \in Procs, lock = p
  PROVE  \A q \in Procs : q # p => op[q].pc \in Quiet
  BY DEF TypeOK, LockInv, Operations

\* So what a step of that process does to the two stores is up to its own claims.
LEMMA WriterDecides ==
  ASSUME TypeOK, NEW p \in Procs,
         \A q \in Procs : q # p => op[q].pc \in Quiet /\ op'[q] = op[q],
         StoreClaim(op[p])',
         op'[p].pc \in Quiet => Matches(RefsOf(file))'
  PROVE  StoreInv'
  <1>1. ASSUME NEW q \in Procs, q # p PROVE StoreClaim(op[q])'
    <2>1. op'[q].pc \in Quiet
      BY <1>1
    <2> QED
      BY <2>1 DEF StoreClaim, Quiet
  <1> QED
    BY <1>1 DEF StoreInv

\* The same command at another place.
LEMMA GotoKeeps ==
  ASSUME TypeOK, NEW p \in Procs, NEW x, Goto(p, x)
  PROVE  /\ op'[p].pc = x /\ op'[p].base = op[p].base /\ op'[p].ref = op[p].ref
         /\ Wanted(op'[p]) = Wanted(op[p]) /\ Changed(op'[p]) = Changed(op[p])
  <1>1. /\ op'[p].pc = x /\ op'[p].base = op[p].base /\ op'[p].ref = op[p].ref
        /\ op'[p].name = op[p].name /\ op'[p].cmd = op[p].cmd /\ op'[p].url = op[p].url
        /\ op'[p].plan = op[p].plan
    BY DEF TypeOK, Goto, Operations
  <1> QED
    BY <1>1, SameChange

\* Facts about a command that has not renamed yet.
LEMMA UnsavedFacts ==
  ASSUME TypeOK, ProfileInv, NEW p \in Procs, op[p].pc \in Unsaved
  PROVE  /\ RefsOf(file) = RefsOf(op[p].base)
         /\ RefsOf(Changed(op[p])) = Wanted(op[p])
         /\ Wanted(op[p]) \subseteq RefsOf(file) \cup {op[p].ref}
         /\ None \notin RefsOf(file)
         /\ file = op[p].base \/ "edit" \in troubles
  <1>1. op[p] \in Operations /\ Sound(op[p]) /\ OwnRefs(op[p].base) /\ op[p].pc \in Writing
    BY DEF TypeOK, ProfileInv, OpInv, Writing
  <1>2. /\ Contents(file).profiles = Contents(op[p].base).profiles
        /\ file = op[p].base \/ "edit" \in troubles
    BY DEF ProfileInv, BaseInv
  <1>3. RefsOf(file) = RefsOf(op[p].base) /\ None \notin RefsOf(file)
    BY <1>2 DEF RefsOf
  <1> QED
    BY <1>1, <1>2, <1>3, ChangedRefs DEF Wanted

\* In the first state the keyring has exactly the file's references.
LEMMA StoreInit == ASSUME Init PROVE StoreInv
  <1>1. DOMAIN keyring = RefsOf(file) /\ \A p \in Procs : op[p].pc = "Idle"
    BY DEF Init, Idle
  <1> QED
    BY <1>1 DEF StoreInv, StoreClaim, Matches

\* Every step keeps the keyring in line with the file.
LEMMA StoreNext ==
  ASSUME TypeOK, ProfileInv, StoreInv, [Next]_vars
  PROVE  StoreInv'
  <1>1. ASSUME NEW p \in Procs, ProcStep(p) PROVE StoreInv'
    <2>1. \A q \in Procs : q # p => op'[q] = op[q]
      BY <1>1, StepFollows DEF ProfileInv, TypeOK
    <2>2. op[p] \in Operations /\ Sound(op[p]) /\ StoreClaim(op[p])
      BY DEF TypeOK, ProfileInv, OpInv, StoreInv
    <2>3. op[p].pc \in Writing => lock = p
      BY DEF ProfileInv, LockInv
    <2>4. ASSUME lock = p \/ op[p].pc \in Writing, StoreClaim(op[p])',
                 op'[p].pc \in Quiet => Matches(RefsOf(file))'
          PROVE  StoreInv'
      BY <2>1, <2>3, <2>4, OthersQuiet, WriterDecides DEF ProfileInv
    <2>5. ASSUME lock = p \/ op[p].pc \in Writing, Exit(p), Matches(RefsOf(file))' PROVE StoreInv'
      <3>1. op'[p].pc = "Idle"
        BY <2>5 DEF Exit, Idle, TypeOK
      <3>2. StoreClaim(op[p])'
        BY <3>1 DEF StoreClaim
      <3> QED
        BY <2>4, <2>5, <3>2
    <2>6. CASE SetupLoads(p) \/ SetupAsks(p) \/ ResolveLoads(p) \/ ResolveCredential(p) \/ Send(p) \/ GivesUp(p)
      <3>1. UNCHANGED <<file, keyring, troubles, surplus, missing>>
        BY <2>6 DEF SetupLoads, SetupAsks, ResolveLoads, ResolveCredential, Send, GivesUp, history
      <3>2. op[p].pc \in Quiet
        BY <2>6 DEF SetupLoads, SetupAsks, ResolveLoads, ResolveCredential, Send, GivesUp, Start, At, Quiet
      <3>3. op'[p].pc \in Quiet
        <4>1. CASE SetupLoads(p) \/ ResolveLoads(p)
          <5>1. PICK cmd, n, u, f : \E pc \in {"Asking", "Resolving"} : Start(p, cmd, pc, n, u, f)
            BY <4>1 DEF SetupLoads, ResolveLoads
          <5> QED
            BY <5>1 DEF Start, Idle, TypeOK, Quiet
        <4>2. CASE SetupAsks(p)
          BY <4>2 DEF SetupAsks, TypeOK, Operations, Quiet
        <4>3. CASE ResolveCredential(p)
          BY <4>3 DEF ResolveCredential, TypeOK, Operations, Quiet
        <4>4. CASE Send(p) \/ GivesUp(p)
          BY <4>4 DEF Send, GivesUp, Exit, Idle, TypeOK, Quiet
        <4> QED
          BY <2>6, <4>1, <4>2, <4>3, <4>4
      <3>4. ASSUME NEW q \in Procs PROVE StoreClaim(op[q])'
        <4>1. CASE q = p
          BY <3>3, <4>1 DEF StoreClaim, Quiet
        <4>2. CASE q # p
          <5>1. op'[q] = op[q] /\ StoreClaim(op[q])
            BY <2>1, <4>2 DEF StoreInv
          <5> QED
            BY <3>1, <5>1 DEF StoreClaim, Matches, Tidy, Whole
        <4> QED
          BY <4>1, <4>2
      <3>5. ASSUME \A q \in Procs : op'[q].pc \in Quiet PROVE Matches(RefsOf(file))'
        <4>1. \A q \in Procs : op[q].pc \in Quiet
          BY <2>1, <3>2, <3>5
        <4> QED
          BY <3>1, <4>1 DEF StoreInv, Matches, Tidy, Whole
      <3> QED
        BY <3>4, <3>5 DEF StoreInv
    <2>7. CASE SetupLocks(p) \/ ChangeLocks(p)
      <3>1. lock = None /\ UNCHANGED <<file, keyring, troubles, surplus, missing>>
        BY <2>7 DEF SetupLocks, ChangeLocks, TryLock, history
      <3>2. \A q \in Procs : op[q].pc \in Quiet
        BY <3>1, ProfilesAssumption DEF ProfileInv, LockInv, TypeOK, Operations
      <3>3. Matches(RefsOf(file))
        BY <3>2 DEF StoreInv
      <3>4. /\ op'[p].base = file
            /\ \/ op'[p].pc = "Credential"
               \/ op'[p].pc = "Changing" /\ op'[p].cmd = "use" /\ op'[p].ref = None
        <4>1. CASE SetupLocks(p)
          BY <4>1, GotoKeeps DEF SetupLocks
        <4>2. CASE ChangeLocks(p)
          <5>1. PICK cmd \in {"use", "logout", "remove"}, n \in DOMAIN Load.profiles :
                  Start(p, cmd, IF cmd = "use" THEN "Changing" ELSE "Credential", n, None, file)
            BY <4>2 DEF ChangeLocks
          <5> QED
            BY <5>1 DEF Start, Idle, TypeOK
        <4> QED
          BY <2>7, <4>1, <4>2
      <3>5. op'[p].cmd = "use" /\ op'[p].ref = None => Wanted(op'[p]) = RefsOf(op'[p].base)
        BY DEF Wanted, Deleted
      <3>6. StoreClaim(op[p])'
        BY <3>1, <3>3, <3>4, <3>5 DEF StoreClaim, Matches, Tidy, Whole
      <3>7. op'[p].pc \notin Quiet
        BY <3>4 DEF Quiet
      <3> QED
        BY <2>1, <3>2, <3>6, <3>7, WriterDecides
    <2>8. CASE DeleteSecret(p)
      <3>1. /\ op[p].pc = "Credential" /\ UNCHANGED <<file, troubles, surplus, missing>>
            /\ Goto(p, IF op[p].cmd = "setup" THEN "Storing" ELSE "Changing")
        BY <2>8 DEF DeleteSecret, At, history
      <3>2. /\ op'[p].pc \in {"Storing", "Changing"} /\ Wanted(op'[p]) = Wanted(op[p])
        BY <3>1, GotoKeeps
      <3>3. DOMAIN keyring' = DOMAIN keyring \ Deleted(op[p])
        <4>1. op[p].cmd # "use"
          BY <2>2, <3>1 DEF Sound
        <4> QED
          BY <2>8, <4>1 DEF DeleteSecret, Restrict, Deleted
      <3>4. Wanted(op[p]) = RefsOf(op[p].base) \ Deleted(op[p])
        BY <2>2, <3>1 DEF Wanted, Sound
      <3>5. Matches(RefsOf(op[p].base))
        BY <2>2, <3>1 DEF StoreClaim
      <3>6. StoreClaim(op[p])'
        BY <3>1, <3>2, <3>3, <3>4, <3>5 DEF StoreClaim, Matches, Tidy, Whole
      <3> QED
        BY <2>4, <3>1, <3>2, <3>6 DEF Writing, Unsaved, Quiet
    <2>9. CASE StoreSecret(p)
      <3>1. op[p].pc = "Storing" /\ UNCHANGED <<file, troubles, surplus, missing>> /\ Matches(Wanted(op[p])) /\ op[p].ref = None
        BY <2>2, <2>9 DEF StoreSecret, At, StoreClaim, Sound, history
      <3>2. CASE Goto(p, "Changing") /\ UNCHANGED keyring
        <4>1. op'[p].pc = "Changing" /\ Wanted(op'[p]) = Wanted(op[p])
          BY <3>2, GotoKeeps
        <4>2. StoreClaim(op[p])'
          BY <3>1, <3>2, <4>1 DEF StoreClaim, Matches, Tidy, Whole
        <4> QED
          BY <2>4, <3>1, <4>1, <4>2 DEF Writing, Unsaved, Quiet
      <3>3. CASE \E r \in NewReferences(op[p]) : StoresNew(p, r)
        <4>1. PICK r \in NewReferences(op[p]) : StoresNew(p, r)
          BY <3>3
        <4>2. r \in Refs /\ r # None
          BY ProfilesAssumption DEF NewReferences, Unremembered
        <4>3. /\ op'[p].pc = "Changing" /\ op'[p].ref = r /\ op'[p].base = op[p].base
              /\ op'[p].name = op[p].name /\ op'[p].plan = op[p].plan /\ op'[p].cmd = op[p].cmd
          BY <2>2, <4>1 DEF StoresNew, TypeOK, Operations
        <4>4. Deleted(op'[p]) = Deleted(op[p])
          BY <4>3, SameExisting DEF Deleted
        <4>5. Wanted(op'[p]) = Wanted(op[p]) \cup {r}
          BY <3>1, <4>2, <4>3, <4>4 DEF Wanted
        <4>6. DOMAIN keyring' = DOMAIN keyring \cup {r}
          BY <4>1 DEF StoresNew
        <4>7. StoreClaim(op[p])'
          BY <3>1, <4>3, <4>5, <4>6 DEF StoreClaim, Matches, Tidy, Whole
        <4> QED
          BY <2>4, <3>1, <4>3, <4>7 DEF Writing, Unsaved, Quiet
      <3> QED
        BY <2>9, <3>2, <3>3 DEF StoreSecret, StoresNew, At
    <2>10. CASE KeyringFails(p) \/ Dies(p)
      <3>1. \E kind \in {"keyring", "crash"} : kind \in troubles'
        BY <2>10 DEF KeyringFails, Dies, Trouble
      <3>2. Matches(RefsOf(file))'
        BY <3>1 DEF Matches, Tidy, Whole
      <3> QED
        BY <2>5, <2>10, <3>2 DEF KeyringFails, Dies, At, Writing, Unsaved
    <2>11. CASE LimitReached(p)
      <3>1. /\ op[p].pc = "Changing" /\ UNCHANGED <<file, keyring, troubles, missing>>
            /\ surplus' = surplus \cup ({op[p].ref} \ {None}) /\ Existing(op[p]) = None /\ Exit(p)
        BY <2>11 DEF LimitReached, At, TooManyProfiles
      <3>2. Matches(Wanted(op[p])) /\ op[p].pc \in Unsaved /\ op[p].pc \in Writing
        BY <2>2, <3>1 DEF StoreClaim, Unsaved, Writing
      <3>3. RefsOf(file) = RefsOf(op[p].base) /\ None \notin RefsOf(file)
        BY <3>2, UnsavedFacts
      <3>4. Wanted(op[p]) = RefsOf(file) \cup ({op[p].ref} \ {None})
        BY <3>1, <3>3 DEF Wanted, Deleted, OldRef
      <3>5. Matches(RefsOf(file))'
        BY <3>1, <3>2, <3>4 DEF Matches, Tidy, Whole
      <3> QED
        BY <2>5, <3>1, <3>2, <3>5
    <2>12. ASSUME op[p].pc \in {"Changing", "Written", "Rechecked"}, UNCHANGED <<file, keyring>>,
                  Goto(p, "Failing"), troubles \subseteq troubles', surplus' = surplus,
                  Whole' => RefsOf(file) \subseteq Wanted(op[p]) \cup missing' /\ missing \subseteq missing' /\ Whole
           PROVE  StoreInv'
      <3>1. op'[p].pc = "Failing" /\ op'[p].ref = op[p].ref
        BY <2>12, GotoKeeps
      <3>2. Matches(Wanted(op[p])) /\ op[p].pc \in Unsaved /\ op[p].pc \in Writing
        BY <2>2, <2>12 DEF StoreClaim, Unsaved, Writing
      <3>3. Wanted(op[p]) \subseteq RefsOf(file) \cup {op[p].ref}
        BY <3>2, UnsavedFacts
      <3>4. Tidy' => Tidy
        BY <2>12 DEF Tidy
      <3>5. Tidy' => DOMAIN keyring \subseteq RefsOf(file) \cup {op[p].ref} \cup surplus
        BY <3>2, <3>3, <3>4 DEF Matches
      <3>6. op[p].ref # None => op[p].ref \notin RefsOf(file)
        BY <2>2, <3>2, UnsavedFacts DEF Sound
      <3>7. op[p].ref \notin RefsOf(file)
        BY <3>2, <3>6, UnsavedFacts
      <3>8. Whole' => RefsOf(file) \subseteq (DOMAIN keyring \ {op[p].ref}) \cup missing'
        BY <2>12, <3>2, <3>7 DEF Matches
      <3>9. StoreClaim(op[p])'
        BY <2>12, <3>1, <3>5, <3>8 DEF StoreClaim
      <3> QED
        BY <2>4, <3>1, <3>2, <3>9 DEF Quiet
    <2>13. ASSUME op[p].pc \in {"Changing", "Written"}, UNCHANGED <<file, keyring, troubles, surplus, missing>>,
                  NEW x \in {"Written", "Rechecked"}, Goto(p, x)
           PROVE  StoreInv'
      <3>1. op'[p].pc = x /\ Wanted(op'[p]) = Wanted(op[p])
        BY <2>13, GotoKeeps
      <3>2. Matches(Wanted(op[p])) /\ op[p].pc \in Writing
        BY <2>2, <2>13 DEF StoreClaim, Unsaved, Writing
      <3>3. StoreClaim(op[p])'
        BY <2>13, <3>1, <3>2 DEF StoreClaim, Matches, Tidy, Whole
      <3> QED
        BY <2>4, <2>13, <3>1, <3>2, <3>3 DEF Quiet
    <2>14. CASE BeginSave(p)
      <3>1. op[p].pc = "Changing" /\ UNCHANGED <<file, keyring, troubles, surplus, missing>>
        BY <2>14 DEF BeginSave, At, history
      <3>2. Matches(Wanted(op[p])) /\ op[p].pc \in Unsaved /\ op[p].pc \in Writing
        BY <2>2, <3>1 DEF StoreClaim, Unsaved, Writing
      <3>3. CASE file = Changed(op[p])
        <4>1. Exit(p)
          BY <2>14, <3>3 DEF BeginSave
        <4>2. RefsOf(file) = Wanted(op[p])
          BY <3>2, <3>3, UnsavedFacts
        <4>3. Matches(RefsOf(file))'
          BY <3>1, <3>2, <4>2 DEF Matches, Tidy, Whole
        <4> QED
          BY <2>5, <3>2, <4>1, <4>3
      <3>4. CASE file # Changed(op[p]) /\ file # op[p].base
        <4>1. Goto(p, "Failing")
          BY <2>14, <3>4 DEF BeginSave
        <4>2. "edit" \in troubles
          BY <3>2, <3>4, UnsavedFacts
        <4>3. ~Whole'
          BY <3>1, <4>2 DEF Whole
        <4> QED
          BY <2>12, <3>1, <4>1, <4>3
      <3>5. CASE file # Changed(op[p]) /\ file = op[p].base
        <4>1. Goto(p, "Written")
          BY <2>14, <3>5 DEF BeginSave
        <4> QED
          BY <2>13, <3>1, <4>1
      <3> QED
        BY <3>3, <3>4, <3>5
    <2>15. CASE Recheck(p)
      <3>1. op[p].pc = "Written" /\ UNCHANGED <<file, keyring, troubles, surplus, missing>>
        BY <2>15 DEF Recheck, At, history
      <3>2. CASE file = op[p].base
        BY <2>13, <2>15, <3>1, <3>2 DEF Recheck
      <3>3. CASE file # op[p].base
        <4>1. "edit" \in troubles
          BY <3>1, <3>3, UnsavedFacts DEF Unsaved
        <4>2. ~Whole'
          BY <3>1, <4>1 DEF Whole
        <4> QED
          BY <2>12, <2>15, <3>1, <3>3, <4>2 DEF Recheck
      <3> QED
        BY <3>2, <3>3
    <2>16. CASE Rename(p)
      <3>1. /\ op[p].pc = "Rechecked" /\ UNCHANGED <<keyring, troubles, surplus, missing>> /\ Goto(p, "Renamed")
            /\ file' = Changed(op[p])
        BY <2>16 DEF Rename, At, history
      <3>2. op'[p].pc = "Renamed" /\ Changed(op'[p]) = Changed(op[p])
        BY <3>1, GotoKeeps
      <3>3. Matches(Wanted(op[p])) /\ op[p].pc \in Unsaved /\ op[p].pc \in Writing
        BY <2>2, <3>1 DEF StoreClaim, Unsaved, Writing
      <3>4. RefsOf(file') = Wanted(op[p])
        BY <3>1, <3>3, UnsavedFacts
      <3>5. StoreClaim(op[p])'
        BY <3>1, <3>2, <3>3, <3>4 DEF StoreClaim, Matches, Tidy, Whole
      <3> QED
        BY <2>4, <3>2, <3>3, <3>5 DEF Quiet
    <2>17. CASE VerifySaved(p)
      <3>1. op[p].pc = "Renamed" /\ UNCHANGED <<file, keyring, troubles, surplus, missing>>
        BY <2>17 DEF VerifySaved, At, history
      <3>2. Matches(RefsOf(file)) /\ (file = Changed(op[p]) \/ "edit" \in troubles)
        BY <2>2, <3>1 DEF StoreClaim
      <3>3. CASE file = Changed(op[p])
        <4>1. Matches(RefsOf(file))'
          BY <3>1, <3>2 DEF Matches, Tidy, Whole
        <4> QED
          BY <2>5, <2>17, <3>1, <3>3, <4>1 DEF VerifySaved, Writing
      <3>4. CASE file # Changed(op[p])
        <4>1. op'[p].pc = "Failing"
          BY <2>17, <3>4, GotoKeeps DEF VerifySaved
        <4>2. StoreClaim(op[p])'
          BY <3>1, <3>2, <3>4, <4>1 DEF StoreClaim, Matches, Tidy, Whole
        <4> QED
          BY <2>4, <3>1, <4>1, <4>2 DEF Writing, Quiet
      <3> QED
        BY <3>3, <3>4
    <2>18. CASE DiskFails(p)
      <3>1. /\ op[p].pc \in {"Written", "Rechecked", "Renamed"} /\ UNCHANGED <<file, keyring, surplus, missing>>
            /\ troubles \subseteq troubles' /\ "disk" \in troubles' /\ Goto(p, "Failing")
        BY <2>18 DEF DiskFails, Trouble, history
      <3>4. ~Whole'
        BY <3>1 DEF Whole
      <3>2. CASE op[p].pc # "Renamed"
        BY <2>12, <3>1, <3>2, <3>4
      <3>3. CASE op[p].pc = "Renamed"
        <4>1. Matches(RefsOf(file))
          BY <2>2, <3>3 DEF StoreClaim
        <4>2. op'[p].pc = "Failing"
          BY <3>1, GotoKeeps
        <4>3. Tidy' => Tidy
          BY <3>1 DEF Tidy
        <4>4. StoreClaim(op[p])'
          BY <3>1, <3>4, <4>1, <4>2, <4>3 DEF StoreClaim, Matches
        <4> QED
          BY <2>4, <3>3, <4>2, <4>4 DEF Writing, Quiet
      <3> QED
        BY <3>2, <3>3
    <2>19. CASE CleanUp(p)
      <3>1. op[p].pc = "Failing" /\ Exit(p) /\ UNCHANGED <<file, surplus, missing>>
        BY <2>19 DEF CleanUp, At, history
      <3>2. /\ Whole => RefsOf(file) \subseteq (DOMAIN keyring \ {op[p].ref}) \cup missing
            /\ Tidy => DOMAIN keyring \subseteq RefsOf(file) \cup {op[p].ref} \cup surplus
        BY <2>2, <3>1 DEF StoreClaim
      <3>3. troubles \subseteq troubles'
        BY <1>1, StepFile
      <3>4. ASSUME Tidy' PROVE DOMAIN keyring' = DOMAIN keyring \ {op[p].ref} /\ Tidy
        BY <2>19, <3>3, <3>4 DEF CleanUp, Trouble, Tidy, Restrict
      <3>5. Whole' => Tidy' /\ Whole
        BY <3>3 DEF Whole, Tidy
      <3>6. Matches(RefsOf(file))'
        BY <3>1, <3>2, <3>4, <3>5 DEF Matches
      <3> QED
        BY <2>5, <3>1, <3>6 DEF Writing
    <2>20. CASE Oversized(p)
      <3>1. /\ op[p].pc = "Changing" /\ UNCHANGED <<file, keyring, troubles, surplus>> /\ Goto(p, "Failing")
            /\ missing' = missing \cup Deleted(op[p])
        BY <2>20 DEF Oversized, At
      <3>2. RefsOf(file) \subseteq Wanted(op[p]) \cup missing'
        BY <3>1, UnsavedFacts DEF Wanted, Unsaved
      <3> QED
        BY <2>12, <3>1, <3>2 DEF Whole
    <2> QED
      BY <1>1, <2>6, <2>7, <2>8, <2>9, <2>10, <2>11, <2>14, <2>15, <2>16, <2>17, <2>18, <2>19, <2>20
      DEF ProcStep, Setup, Credentials, Save, Resolve
  <1>2. ASSUME EditFile PROVE StoreInv'
    <2>1. /\ Contents(file).profiles = Contents(file').profiles
          /\ "edit" \in troubles' /\ troubles \subseteq troubles' /\ UNCHANGED <<keyring, op, surplus, missing>>
      BY <1>2, EditParts DEF EditFile, history
    <2>2. RefsOf(file') = RefsOf(file)
      BY <2>1 DEF RefsOf
    <2>3. ~Whole' /\ (Tidy' => Tidy)
      BY <2>1 DEF Whole, Tidy
    <2>5. ASSUME NEW p \in Procs PROVE StoreClaim(op[p])'
      <3>1. StoreClaim(op[p])
        BY DEF StoreInv
      <3> QED
        BY <2>1, <2>2, <2>3, <3>1 DEF StoreClaim, Matches
    <2>6. ASSUME \A p \in Procs : op'[p].pc \in Quiet PROVE Matches(RefsOf(file))'
      BY <2>1, <2>2, <2>3, <2>6 DEF StoreInv, Matches
    <2> QED
      BY <2>5, <2>6 DEF StoreInv
  <1>3. ASSUME UNCHANGED vars PROVE StoreInv'
    BY <1>3 DEF vars, history, StoreInv, StoreClaim, Matches, Tidy, Whole
  <1> QED
    BY <1>1, <1>2, <1>3 DEF Next, ProcStep

\* Between commands that write, the secure store and the file agree: unless a
\* process died or the secure store refused, the only secrets that no profile
\* refers to are those setup left behind at the profile limit; and unless
\* something failed or the file was edited, the only profiles that refer to a
\* secret that is gone are those whose new version made the file too large
\* (try_model_setup, model_logout, model_remove, save).
THEOREM KeyringAlwaysMatches == Spec => []KeyringMatchesProfiles
  <1>1. StoreInv => KeyringMatchesProfiles
    BY DEF StoreInv, KeyringMatchesProfiles, Matches, Tidy, Whole, Quiet
  <1>2. Init => StoreInv
    BY StoreInit
  <1>3. TypeOK /\ ProfileInv /\ StoreInv /\ [Next]_vars => StoreInv'
    BY StoreNext
  <1> QED
    BY <1>1, <1>2, <1>3, ProfileAlways, PTL DEF Spec
=============================================================================
