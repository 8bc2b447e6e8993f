----------------------------- MODULE ModelProfiles -----------------------------
(***************************************************************************)
(* Model profiles and their credentials (xgeny-cli: model_profile.rs and   *)
(* the model commands of main.rs).  The profile file and the platform's    *)
(* secure store are two places that no transaction joins: a command        *)
(* deletes and stores secrets, then replaces the file, and may stop or be  *)
(* refused between any two of these.  Commands that write hold a lock file *)
(* except while setup talks to the endpoint; commands that only use a      *)
(* profile hold nothing.                                                   *)
(*                                                                         *)
(* A secret is the URL it was entered for; the digest of the file is its   *)
(* contents.  Model, tokenizer and request limits are left out: they are   *)
(* copied along with the URL.  The size of the file is that of its URLs    *)
(* and references, a reference counting as one.                            *)
(***************************************************************************)
EXTENDS Naturals, FiniteSets, FiniteSetsExt, Functions

CONSTANTS
    Procs,         \* processes
    Names,         \* profile names, as numbers in the order names sort
    Urls,          \* base URLs
    Https,         \* those that a credential may be sent to
    Refs,          \* references to entries of the secure store
    None,
    Saved,         \* the contents the file may start with
    MaxProfiles,
    Length,        \* how long a URL is
    MaxFileBytes,  \* the largest file that is written
    MaxCommands,   \* modelling bound: commands started
    MaxTroubles    \* modelling bound: kinds of trouble in one behaviour

ASSUME ProfilesAssumption ==
    /\ Names \subseteq Nat /\ Https \subseteq Urls /\ None \notin Refs \cup Names \cup Procs
    /\ None \notin Urls
    /\ None \notin {"setup", "use", "logout", "remove", "resolve", "retain", "store", "drop"}
    /\ Length \in [Urls -> Nat] /\ MaxFileBytes \in Nat
    /\ MaxProfiles \in Nat /\ MaxCommands \in Nat /\ MaxTroubles \in Nat

VARIABLES
    file,          \* the profile file, None when there is none
    keyring,       \* the secure store: a secret for each reference it has
    lock,          \* the process that holds the lock file, or None
    op,            \* the command each process is in
    commands,      \* commands started so far
    troubles,      \* what has gone wrong so far
    surplus,       \* references that setup stored a secret for at the profile limit
    missing        \* references whose secret was deleted for a file that was too large

history == <<surplus, missing>>
vars == <<file, keyring, lock, op, commands, troubles, history>>

\* ModelProfiles: the profiles by name, and the one that is active.
Profile == [url : Urls, ref : Refs \cup {None}]
Collections ==
    [active : Names \cup {None}, profiles : UNION {[names -> Profile] : names \in SUBSET Names}]

Empty == [active |-> None, profiles |-> [n \in {} |-> None]]

Idle ==
    [cmd |-> None, pc |-> "Idle", name |-> None, url |-> None, base |-> None, plan |-> None,
     secret |-> None, ref |-> None]

-----------------------------------------------------------------------------
(* Collections of profiles *)

Contents(f) == IF f = None THEN Empty ELSE f
Load == Contents(file)
RefsOf(f) == {Contents(f).profiles[n].ref : n \in DOMAIN Contents(f).profiles} \ {None}

\* No two profiles share an entry of the secure store.
OwnRefs(f) ==
    LET profiles == Contents(f).profiles
    IN \A m, n \in DOMAIN profiles :
         m # n /\ profiles[m].ref # None => profiles[m].ref # profiles[n].ref

\* The size of the file that holds a collection.
Size(c) ==
    MapThenSumSet(LAMBDA n : Length[c.profiles[n].url] + (IF c.profiles[n].ref = None THEN 0 ELSE 1),
                  DOMAIN c.profiles)

\* The file was written by earlier commands, which give every stored secret a
\* reference of its own and write no file that is too large.
ASSUME SavedAssumption ==
    /\ Saved \subseteq Collections \cup {None} /\ None \notin Collections /\ None \notin Profile
    /\ \A f \in Saved : OwnRefs(f) /\ Size(Contents(f)) =< MaxFileBytes

\* The profile a command is about, as it was when the command read the file.
Existing(o) ==
    LET profiles == Contents(o.base).profiles
    IN IF o.name \in DOMAIN profiles THEN profiles[o.name] ELSE None
OldRef(o) == IF Existing(o) = None THEN None ELSE Existing(o).ref

Unremembered ==
    Refs \ (DOMAIN keyring \cup RefsOf(file)
             \cup missing \cup UNION {RefsOf(op[p].base) \cup {op[p].ref} : p \in Procs})

\* Slip: the new secret of a profile replaces the old one in its entry.
OldReference(o) == IF OldRef(o) # None THEN {OldRef(o)} ELSE Unremembered

\* new_credential_reference: 16 random bytes, so a reference nobody remembers.
NewReferences(o) == Unremembered

Put(c, n, profile) ==
    [active |-> n,
     profiles |-> [m \in DOMAIN c.profiles \cup {n} |-> IF m = n THEN profile ELSE c.profiles[m]]]
Take(c, n) ==
    LET rest == DOMAIN c.profiles \ {n}
    IN [profiles |-> Restrict(c.profiles, rest),
        active |-> IF c.active # n THEN c.active ELSE IF rest = {} THEN None ELSE Min(rest)]

TooManyProfiles(o) ==
    /\ o.cmd = "setup" /\ Existing(o) = None
    /\ Cardinality(DOMAIN Contents(o.base).profiles) >= MaxProfiles

\* upsert, set_active, clear_credential and remove: the collection that is saved.
Changed(o) ==
    CASE o.cmd = "setup" ->
           Put(Contents(o.base), o.name,
               [url |-> o.url, ref |-> IF o.plan = "retain" THEN OldRef(o) ELSE o.ref])
      [] o.cmd = "use" -> [o.base EXCEPT !.active = o.name]
      [] o.cmd = "logout" -> [o.base EXCEPT !.profiles[o.name].ref = None]
      [] o.cmd = "remove" -> Take(o.base, o.name)

-----------------------------------------------------------------------------
(* Steps *)

At(p, pc) == op[p].pc = pc
Goto(p, pc) == op' = [op EXCEPT ![p].pc = pc]

\* The command ends and drops what it holds, the lock with it.
Exit(p) ==
    /\ op' = [op EXCEPT ![p] = Idle]
    /\ lock' = IF lock = p THEN None ELSE lock

Start(p, cmd, pc, n, u, f) ==
    /\ At(p, "Idle") /\ commands < MaxCommands
    /\ commands' = commands + 1
    /\ op' = [op EXCEPT ![p] = [Idle EXCEPT !.cmd = cmd, !.pc = pc, !.name = n, !.url = u,
                                            !.base = f]]

\* Each kind of trouble happens once.
Trouble(kind) ==
    /\ kind \notin troubles
    /\ Cardinality(troubles) < MaxTroubles
    /\ troubles' = troubles \cup {kind}

\* resolve_setup_secret: where the secret of a setup comes from.  "prompt" and
\* "empty" are the answers of a person at a terminal.
SecretOrigin(o, input) ==
    LET stored == IF Existing(o) # None /\ Existing(o).url = o.url THEN OldRef(o) ELSE None
    IN CASE o.url \notin Https -> IF input = "stdin" THEN "Refused" ELSE "None"
         [] o.url \in Https /\ input = "stdin" -> "StandardInput"
         [] o.url \in Https /\ input = "env" -> "Environment"
         [] o.url \in Https /\ input \in {"prompt", "empty", "none"} ->
              IF stored \in DOMAIN keyring THEN "SecureStore"
              ELSE IF stored # None /\ input = "none" THEN "Refused"
              ELSE IF input = "prompt" THEN "Interactive" ELSE "None"

\* try_model_setup, up to the credential: the profiles are read without the
\* lock.
SetupLoads(p) ==
    /\ \E n \in Names, u \in Urls : Start(p, "setup", "Asking", n, u, file)
    /\ UNCHANGED <<file, keyring, lock, troubles, history>>

\* The secret is chosen and goes to the endpoint with the two checks.  It will
\* be kept as it is stored, stored anew, or the profile has none.
SetupAsks(p) ==
    /\ At(p, "Asking")
    /\ \E input \in {"stdin", "env", "prompt", "empty", "none"}, store_token \in BOOLEAN :
         LET origin == SecretOrigin(op[p], input)
             plan == IF origin = "SecureStore" THEN "retain"
                     ELSE IF store_token \/ origin = "Interactive" THEN "store" ELSE "drop"
         IN /\ origin # "Refused"
            /\ store_token => origin # "None"
            /\ op' = [op EXCEPT ![p].pc = "Checking", ![p].plan = plan,
                                ![p].secret = CASE plan = "retain" -> keyring[OldRef(op[p])]
                                                [] plan = "store" -> op[p].url
                                                [] plan = "drop" -> None]
    /\ UNCHANGED <<file, keyring, lock, commands, troubles, history>>

\* An input or answer is missing, the endpoint refuses, or the environment
\* supplies the token: nothing was changed.
GivesUp(p) ==
    /\ op[p].pc \in {"Asking", "Checking", "Resolving"}
    /\ Exit(p)
    /\ UNCHANGED <<file, keyring, commands, troubles, history>>

\* Slip: the lock file is opened and never locked.
TryLockUnheld(p) == lock' = p

TryLock(p) == lock = None /\ lock' = p

\* Slip: setup goes on with the profiles it read before it had the lock.
SetupLocksBlindly(p) ==
    /\ At(p, "Checking")
    /\ TryLock(p)
    /\ Goto(p, "Credential")
    /\ UNCHANGED <<file, keyring, commands, troubles, history>>

\* The lock is taken after the endpoint answered; the profiles must still be
\* the ones setup was asked about.
SetupLocks(p) ==
    /\ At(p, "Checking")
    /\ file = op[p].base
    /\ TryLock(p)
    /\ Goto(p, "Credential")
    /\ UNCHANGED <<file, keyring, commands, troubles, history>>

\* try_model_use, model_logout and model_remove read the profiles under the lock.
ChangeLocks(p) ==
    /\ TryLock(p)
    /\ \E cmd \in {"use", "logout", "remove"}, n \in DOMAIN Load.profiles :
         Start(p, cmd, IF cmd = "use" THEN "Changing" ELSE "Credential", n, None, file)
    /\ UNCHANGED <<file, keyring, troubles, history>>

\* The reference whose secret a command deletes: setup keeps the one it was
\* told to retain, and use touches none.
Deleted(o) == IF o.plan = "retain" \/ o.cmd = "use" THEN {} ELSE {OldRef(o)} \ {None}

\* The old secret goes first, whatever replaces it; an absent entry is as good.
DeleteSecret(p) ==
    /\ At(p, "Credential")
    /\ keyring' = Restrict(keyring, DOMAIN keyring \ Deleted(op[p]))
    /\ Goto(p, IF op[p].cmd = "setup" THEN "Storing" ELSE "Changing")
    /\ UNCHANGED <<file, lock, commands, troubles, history>>

\* The new secret, if there is one to store, gets an entry of its own.
StoreSecret(p) ==
    /\ At(p, "Storing")
    /\ \/ /\ op[p].plan = "store"
          /\ \E r \in NewReferences(op[p]) :
               /\ keyring' = [e \in DOMAIN keyring \cup {r} |-> IF e = r THEN op[p].secret ELSE keyring[e]]
               /\ op' = [op EXCEPT ![p].ref = r, ![p].pc = "Changing"]
       \/ /\ op[p].plan # "store"
          /\ Goto(p, "Changing")
          /\ UNCHANGED keyring
    /\ UNCHANGED <<file, lock, commands, troubles, history>>

\* The secure store refuses: the command returns at once.
KeyringFails(p) ==
    /\ \/ At(p, "Credential") /\ op[p].plan # "retain" /\ OldRef(op[p]) # None
       \/ At(p, "Storing") /\ op[p].plan = "store"
    /\ Trouble("keyring")
    /\ Exit(p)
    /\ UNCHANGED <<file, keyring, commands, history>>

\* upsert refuses a new name beyond the limit.  It comes after put and returns
\* without the clean-up that a failed save gets.
LimitReached(p) ==
    /\ At(p, "Changing") /\ TooManyProfiles(op[p])
    /\ surplus' = surplus \cup ({op[p].ref} \ {None})
    /\ Exit(p)
    /\ UNCHANGED <<file, keyring, commands, troubles, missing>>

\* save refuses a file that is too large, though the old secret is gone.
Oversized(p) ==
    /\ At(p, "Changing") /\ ~TooManyProfiles(op[p])
    /\ Size(Changed(op[p])) > MaxFileBytes
    /\ missing' = missing \cup Deleted(op[p])
    /\ Goto(p, "Failing")
    /\ UNCHANGED <<file, keyring, lock, commands, troubles, surplus>>

\* save, up to the temporary file: nothing to do, another revision, or the new
\* contents written and synchronised beside the file.
BeginSave(p) ==
    /\ At(p, "Changing") /\ ~TooManyProfiles(op[p])
    /\ Size(Changed(op[p])) =< MaxFileBytes
    /\ IF file = Changed(op[p]) THEN Exit(p)
       ELSE Goto(p, IF file # op[p].base THEN "Failing" ELSE "Written") /\ UNCHANGED lock
    /\ UNCHANGED <<file, keyring, commands, troubles, history>>

\* The revision is compared once more.
Recheck(p) ==
    /\ At(p, "Written")
    /\ Goto(p, IF file = op[p].base THEN "Rechecked" ELSE "Failing")
    /\ UNCHANGED <<file, keyring, lock, commands, troubles, history>>

Rename(p) ==
    /\ At(p, "Rechecked")
    /\ file' = Changed(op[p])
    /\ Goto(p, "Renamed")
    /\ UNCHANGED <<keyring, lock, commands, troubles, history>>

\* The directory is synchronised and the file read back.
VerifySaved(p) ==
    /\ At(p, "Renamed")
    /\ IF file = Changed(op[p]) THEN Exit(p) ELSE Goto(p, "Failing") /\ UNCHANGED lock
    /\ UNCHANGED <<file, keyring, commands, troubles, history>>

\* The temporary file, the rename or the synchronisation fails; in the last
\* case the file has been replaced all the same.
DiskFails(p) ==
    /\ op[p].pc \in {"Written", "Rechecked", "Renamed"}
    /\ Trouble("disk")
    /\ Goto(p, "Failing")
    /\ UNCHANGED <<file, keyring, lock, commands, history>>

\* A failed save: setup deletes the secret it stored, and does not look whether
\* that worked.
CleanUp(p) ==
    /\ At(p, "Failing")
    /\ \/ keyring' = Restrict(keyring, DOMAIN keyring \ {op[p].ref}) /\ UNCHANGED troubles
       \/ op[p].ref # None /\ Trouble("keyring") /\ UNCHANGED keyring
    /\ Exit(p)
    /\ UNCHANGED <<file, commands, history>>

\* resolve_model and resolve_endpoint: the named or the active profile, with its
\* own URL or another, is all that is kept.
ResolveLoads(p) ==
    /\ \E n \in DOMAIN Load.profiles, u \in Urls :
         Start(p, "resolve", "Resolving", n, u,
               [active |-> None, profiles |-> Restrict(file.profiles, {n})])
    /\ UNCHANGED <<file, keyring, lock, troubles, history>>

\* resolve_credential: the secret of the profile, for the URL of the profile
\* only.  A reference without an entry is an error.
ResolveCredential(p) ==
    /\ At(p, "Resolving")
    /\ op[p].url \in Https /\ Existing(op[p]).url = op[p].url
    /\ OldRef(op[p]) \in DOMAIN keyring
    /\ op' = [op EXCEPT ![p].secret = keyring[OldRef(op[p])], ![p].pc = "Sending"]
    /\ UNCHANGED <<file, keyring, lock, commands, troubles, history>>

\* The request leaves with the secret.
Send(p) ==
    /\ At(p, "Sending")
    /\ Exit(p)
    /\ UNCHANGED <<file, keyring, commands, troubles, history>>

\* The process dies and the operating system releases its lock.  Without the
\* lock there is nothing to lose: that is GivesUp.
Dies(p) ==
    /\ lock = p
    /\ Trouble("crash")
    /\ Exit(p)
    /\ UNCHANGED <<file, keyring, commands, history>>

\* A person edits the file, which no lock prevents.
EditFile ==
    /\ file # None
    /\ Trouble("edit")
    /\ \E n \in DOMAIN file.profiles \cup {None} :
         n # file.active /\ file' = [file EXCEPT !.active = n]
    /\ UNCHANGED <<keyring, lock, op, commands, history>>

Init ==
    /\ file \in Saved
    /\ keyring = [r \in RefsOf(file) |->
                   (CHOOSE profile \in Range(file.profiles) : profile.ref = r).url]
    /\ lock = None
    /\ op = [p \in Procs |-> Idle]
    /\ commands = 0
    /\ troubles = {}
    /\ surplus = {} /\ missing = {}

Setup(p) == SetupLoads(p) \/ SetupAsks(p) \/ SetupLocks(p)
Credentials(p) == DeleteSecret(p) \/ StoreSecret(p) \/ KeyringFails(p) \/ LimitReached(p)
Save(p) == Oversized(p) \/ BeginSave(p) \/ Recheck(p) \/ Rename(p) \/ VerifySaved(p) \/ DiskFails(p) \/ CleanUp(p)
Resolve(p) == ResolveLoads(p) \/ ResolveCredential(p) \/ Send(p)

Next ==
    \/ \E p \in Procs :
         Setup(p) \/ ChangeLocks(p) \/ Credentials(p) \/ Save(p) \/ Resolve(p)
           \/ GivesUp(p) \/ Dies(p)
    \/ EditFile

Spec == Init /\ [][Next]_vars

-----------------------------------------------------------------------------
(* Properties *)

\* A stored secret is used with the URL it was entered for and no other,
\* however profiles, URLs and secrets were replaced between the moment a command
\* read the profile and the moment it read the secret (resolve_credential,
\* resolve_setup_secret).
SecretsStayHome == \A p \in Procs : op[p].secret # None => op[p].secret = op[p].url

\* Between commands that write, the secure store and the file agree.  Unless a
\* process died or the secure store refused, a secret that no profile refers to
\* is one that setup stored and left behind at the profile limit.  Unless
\* something failed or the file was edited, a profile that refers to a secret
\* that is gone is one whose new version made the file too large to be written
\* (try_model_setup, model_logout, model_remove, save).
KeyringMatchesProfiles ==
    (\A p \in Procs : op[p].pc \in {"Idle", "Asking", "Checking", "Resolving", "Sending"}) =>
        /\ troubles \cap {"crash", "keyring"} = {} => DOMAIN keyring \ RefsOf(file) \subseteq surplus
        /\ troubles = {} => RefsOf(file) \ DOMAIN keyring \subseteq missing

\* A command replaces only the revision of the file it read, so that no update
\* of another command is lost; only an edit by hand can be (save).
NoUpdateLost ==
    [][\A p \in Procs :
          file' # file /\ op'[p] # op[p] => file = op[p].base \/ "edit" \in troubles]_vars
=============================================================================
