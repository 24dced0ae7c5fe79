------------------------------- MODULE Leases -------------------------------
(***************************************************************************)
(* Attempts of different results directories that contend for claims.     *)
(* Every claim has one Kubernetes Lease with a deterministic name; an      *)
(* attempt owns a claim while that Lease carries its identity.  Preparing  *)
(* an attempt acquires the Leases of its claims in claim order, then       *)
(* reserves its run trees and starts its workload; rolling back and        *)
(* collecting undo this in the opposite order, from the local records of   *)
(* the attempt, and are repeated after a death.                            *)
(*                                                                         *)
(* Claims are numbered in the order of the identity (namespace, then       *)
(* claim), the same for all attempts.  The create request of a Lease is    *)
(* sent once per attempt and claim and never retried, so the attempt that  *)
(* a Lease names stands for its UID too.  A request whose response was     *)
(* lost stays with the API server and may be applied at any later time.    *)
(* The other objects of an attempt are its transfer helpers, its workers   *)
(* and its Jobs; a lost create of theirs takes effect within the creation  *)
(* ambiguity horizon.                                                      *)
(***************************************************************************)
EXTENDS Integers

CONSTANTS
    Attempts,
    Free,               \* no Lease of that name exists
    N,                  \* claims
    Uses,               \* the claims of every attempt
    NameDeletesLinger   \* a timed-out delete by name may be applied later

ASSUME FreeAssumption == Free \notin Attempts
ASSUME NAssumption == N \in Nat \ {0}
ASSUME UsesAssumption ==
    /\ Uses \in [Attempts -> SUBSET (1..N)]
    /\ \A a \in Attempts : Uses[a] # {}
ASSUME LingerAssumption == NameDeletesLinger \in BOOLEAN

VARIABLES
    lease,              \* the holder of every claim's Lease
    creates,            \* Lease creations whose response was lost
    deletes,            \* Lease deletions whose response was lost
    intents,            \* creation-intents/pvc-lease*.sh of every attempt
    journal,            \* resources/pvc-lease*.sh
    released,           \* cleanup/release-pvc-lease*
    absent,             \* ambiguous-absence/pvc-lease*.sh
    state,              \* state.sh
    published,          \* attempts with a verified local collected-state
    trees,              \* attempts with a reserved run tree
    objects,            \* the other live objects of every attempt
    late,               \* their creations whose response was lost
    gap,                \* submitters between their two uses of the lock
    at, claim           \* the command that holds the lock: its step, its claim

api == <<lease, creates, deletes>>
records == <<intents, journal, released, absent>>
external == <<trees, objects, late>>
command == <<at, claim>>
vars == <<api, records, state, published, external, gap, command>>

Claims == 1..N
Kinds == {"helper", "workers", "jobs"}
Workloads == {"workers", "jobs"}
States == {"NEW", "PREPARED", "SUBMITTED", "SUBMISSION_FAILED", "TERMINAL",
           "COLLECTION_IN_PROGRESS", "COLLECTED"}
AcquireSteps == {"intent", "create", "observe", "journal", "clear"}
SubmitSteps == {"reserve", "workers", "bundle", "jobs", "commit"}
CollectSteps == {"gate", "stream", "import"}
UndoSteps == {"quiesce", "untree", "sweep"}
ReleaseSteps == {"release", "probe", "recheck", "identify", "owned", "erase", "gone",
                 "unintent", "see", "verify", "delete", "confirm", "mark"}
AtClaim == AcquireSteps \union ReleaseSteps \union {"reconcile"}
AllSteps == AtClaim \union SubmitSteps \union CollectSteps \union UndoSteps
              \union {"idle", "end"}

Least(T) == CHOOSE c \in T : \A d \in T : c <= d
Greatest(T) == CHOOSE c \in T : \A d \in T : d <= c
First(a) == Least(Uses[a])
Last(a) == Greatest(Uses[a])
Later(a, c) == {d \in Uses[a] : d > c}
Earlier(a, c) == {d \in Uses[a] : d < c}

Goto(a, s, c) ==
    /\ at' = [at EXCEPT ![a] = s]
    /\ claim' = [claim EXCEPT ![a] = c]
Stop(a) == Goto(a, "idle", 0)

\* The claim loops: upwards in preparation, downwards in release and
\* reconciliation, leaving to step s after the last claim.
Upwards(a, s, t) ==
    IF Later(a, claim[a]) # {} THEN Goto(a, s, Least(Later(a, claim[a]))) ELSE Goto(a, t, 0)
Downwards(a, s, t) ==
    IF Earlier(a, claim[a]) # {} THEN Goto(a, s, Greatest(Earlier(a, claim[a]))) ELSE Goto(a, t, 0)

Record(log, a, c) == [log EXCEPT ![a] = log[a] \union {c}]
Erase(log, a, c) == [log EXCEPT ![a] = log[a] \ {c}]

Init ==
    /\ lease = [c \in Claims |-> Free]
    /\ creates = {} /\ deletes = {}
    /\ intents = [a \in Attempts |-> {}]
    /\ journal = [a \in Attempts |-> {}]
    /\ released = [a \in Attempts |-> {}]
    /\ absent = [a \in Attempts |-> {}]
    /\ state = [a \in Attempts |-> "NEW"]
    /\ published = {}
    /\ trees = {} /\ objects = {} /\ late = {}
    /\ gap = {}
    /\ at = [a \in Attempts |-> "idle"]
    /\ claim = [a \in Attempts |-> 0]

-----------------------------------------------------------------------------
(* The API server applies, or drops, a request whose response was lost.    *)

CreateArrives(a, c) ==
    /\ <<a, c>> \in creates
    /\ creates' = creates \ {<<a, c>>}
    /\ lease' = IF lease[c] = Free THEN [lease EXCEPT ![c] = a] ELSE lease
    /\ UNCHANGED <<deletes, records, state, published, external, gap, command>>

\* Mutant: the deletion carries no UID precondition.
DeleteArrivesByName(a, c, how) ==
    /\ <<a, c, how>> \in deletes
    /\ deletes' = deletes \ {<<a, c, how>>}
    /\ lease' = [lease EXCEPT ![c] = Free]
    /\ UNCHANGED <<creates, records, state, published, external, gap, command>>

\* A deletion with a UID precondition removes only that Lease, a deletion by
\* name whatever Lease has the name by then.
DeleteArrives(a, c, how) ==
    /\ <<a, c, how>> \in deletes
    /\ deletes' = deletes \ {<<a, c, how>>}
    /\ lease' = IF how = "name" \/ lease[c] = a THEN [lease EXCEPT ![c] = Free] ELSE lease
    /\ UNCHANGED <<creates, records, state, published, external, gap, command>>

ObjectArrives(a, k) ==
    /\ <<a, k>> \in late
    /\ late' = late \ {<<a, k>>}
    /\ objects' \in {objects, objects \union {<<a, k>>}}
    /\ UNCHANGED <<api, records, state, published, trees, gap, command>>

-----------------------------------------------------------------------------
(* Preparation and submission (kubectl_prepare_attempt_lifecycle and       *)
(* _kubectl_submit_segments).                                              *)

\* Identity, PREPARED and the current pointer are published before anything
\* external is touched; the transfer helpers come before the Leases.
Prepare(a) ==
    /\ at[a] = "idle" /\ state[a] = "NEW"
    /\ state' = [state EXCEPT ![a] = "PREPARED"]
    /\ objects' = objects \union {<<a, "helper">>}
    /\ Goto(a, "intent", First(a))
    /\ UNCHANGED <<api, records, published, trees, late, gap>>

WriteIntent(a) ==
    /\ at[a] = "intent"
    /\ intents' = Record(intents, a, claim[a])
    /\ Goto(a, "create", claim[a])
    /\ UNCHANGED <<api, journal, released, absent, state, published, external, gap>>

\* Created, refused (AlreadyExists or an error before it was applied), or of
\* unknown outcome.
CreateLease(a) ==
    /\ at[a] = "create"
    /\ \/ /\ lease[claim[a]] = Free
          /\ lease' = [lease EXCEPT ![claim[a]] = a]
          /\ UNCHANGED creates
       \/ UNCHANGED <<lease, creates>>
       \/ /\ creates' = creates \union {<<a, claim[a]>>}
          /\ UNCHANGED lease
    /\ Goto(a, "observe", claim[a])
    /\ UNCHANGED <<deletes, records, state, published, external, gap>>

\* Ours: journal it.  Foreign: forget the intent and roll back.  Absent: keep
\* the intent and roll back.
ObserveLease(a) ==
    /\ at[a] = "observe"
    /\ IF lease[claim[a]] = a
         THEN Goto(a, "journal", claim[a]) /\ UNCHANGED intents
         ELSE /\ Goto(a, "quiesce", 0)
              /\ intents' = IF lease[claim[a]] = Free THEN intents
                                                     ELSE Erase(intents, a, claim[a])
    /\ UNCHANGED <<api, journal, released, absent, state, published, external, gap>>

JournalLease(a) ==
    /\ at[a] = "journal"
    /\ journal' = Record(journal, a, claim[a])
    /\ Goto(a, "clear", claim[a])
    /\ UNCHANGED <<api, intents, released, absent, state, published, external, gap>>

ClearIntent(a) ==
    /\ at[a] = "clear"
    /\ intents' = Erase(intents, a, claim[a])
    /\ Upwards(a, "intent", "reserve")
    /\ UNCHANGED <<api, journal, released, absent, state, published, external, gap>>

\* A failed reservation may have left a tree behind.
ReserveTrees(a) ==
    /\ at[a] = "reserve"
    /\ \/ trees' = trees \union {a} /\ Goto(a, "workers", 0)
       \/ trees' \in {trees, trees \union {a}} /\ Goto(a, "quiesce", 0)
    /\ UNCHANGED <<api, records, state, published, objects, late, gap>>

\* Creates workload k, then goes to step s; a failed creation rolls back, and
\* its request may still be with the API server.
CreateObjects(a, k, s) ==
    /\ \/ objects' = objects \union {<<a, k>>} /\ Goto(a, s, 0) /\ UNCHANGED late
       \/ /\ objects' \in {objects, objects \union {<<a, k>>}}
          /\ Goto(a, "quiesce", 0)
          /\ UNCHANGED late
       \/ late' = late \union {<<a, k>>} /\ Goto(a, "quiesce", 0) /\ UNCHANGED objects
    /\ UNCHANGED <<api, records, state, published, trees>>

\* Preparation ends with the workers and gives the lock up.
StartWorkers(a) ==
    /\ at[a] = "workers"
    /\ CreateObjects(a, "workers", "idle")
    /\ gap' = IF at'[a] = "idle" THEN gap \union {a} ELSE gap

\* Submission takes the lock again; it does not look at the state.
Submit(a) ==
    /\ a \in gap /\ at[a] = "idle"
    /\ gap' = gap \ {a}
    /\ Goto(a, "bundle", 0)
    /\ UNCHANGED <<api, records, state, published, external>>

\* The bundle goes into the run tree through the transfer helper, both of
\* which a rollback may have removed; the helper is deleted after it.
UploadBundle(a) ==
    /\ at[a] = "bundle"
    /\ \/ /\ a \in trees /\ <<a, "helper">> \in objects
          /\ objects' = objects \ {<<a, "helper">>}
          /\ Goto(a, "jobs", 0)
       \/ Goto(a, "quiesce", 0) /\ UNCHANGED objects
    /\ UNCHANGED <<api, records, state, published, trees, late, gap>>

CreateJobs(a) ==
    /\ at[a] = "jobs"
    /\ CreateObjects(a, "jobs", "commit")
    /\ UNCHANGED gap

Commit(a) ==
    /\ at[a] = "commit"
    /\ state[a] = "PREPARED"
    /\ state' = [state EXCEPT ![a] = "SUBMITTED"]
    /\ Stop(a)
    /\ UNCHANGED <<api, records, published, external, gap>>

\* Whether or not the attempt is still PREPARED: the objects are deleted as
\* far as possible before the ordinary rollback.
CommitFails(a) ==
    /\ at[a] = "commit"
    /\ \E K \in SUBSET Kinds : objects' = objects \ ({a} \X K)
    /\ Goto(a, "quiesce", 0)
    /\ UNCHANGED <<api, records, state, published, trees, late, gap>>

\* Any other failure of a phase rolls back in the same command.
PhaseFails(a) ==
    /\ at[a] \in AcquireSteps
    /\ Goto(a, "quiesce", 0)
    /\ UNCHANGED <<api, records, state, published, external, gap>>

-----------------------------------------------------------------------------
(* Rolling back and tearing down.  A failed command, a later --status,     *)
(* --cancel or --collect of a PREPARED attempt, and collection after its   *)
(* import share these steps.                                               *)

\* kubectl_recover_prepared_attempt, from any lifecycle command.
Recover(a) ==
    /\ at[a] = "idle" /\ state[a] = "PREPARED"
    /\ Goto(a, "quiesce", 0)
    /\ UNCHANGED <<api, records, state, published, external, gap>>

\* Deletions of workloads wait for the ambiguity horizon of a lost creation.
NothingLate(a) == \A k \in Kinds : <<a, k>> \notin late

\* The workloads stop before the run trees go; the helpers stay.
Quiesce(a) ==
    /\ at[a] = "quiesce"
    /\ NothingLate(a)
    /\ objects' = objects \ ({a} \X Workloads)
    /\ Goto(a, "untree", 0)
    /\ UNCHANGED <<api, records, state, published, trees, late, gap>>

\* The tree is removed and its release step journaled.
ReleaseTrees(a) ==
    /\ at[a] = "untree"
    /\ trees' = trees \ {a}
    /\ Goto(a, "sweep", 0)
    /\ UNCHANGED <<api, records, state, published, objects, late, gap>>

\* Mutant: the rollback goes on to the Leases whatever failed before.
SweepAnywayReleases(a) ==
    /\ \/ at[a] = "sweep"
       \/ at[a] \in {"quiesce", "untree"} /\ state[a] # "COLLECTION_IN_PROGRESS"
    /\ \E K \in SUBSET Kinds : objects' = objects \ ({a} \X K)
    /\ Goto(a, "release", Last(a))
    /\ UNCHANGED <<api, records, state, published, trees, late, gap>>

\* A rollback that could not quiesce or release the trees still deletes what
\* it can; a deletion that failed keeps the Leases.
SweepAnyway(a) ==
    /\ \/ at[a] = "sweep"
       \/ at[a] \in {"quiesce", "untree"} /\ state[a] # "COLLECTION_IN_PROGRESS"
    /\ \E K \in SUBSET Kinds : objects' = objects \ ({a} \X K)
    /\ Stop(a)
    /\ UNCHANGED <<api, records, state, published, trees, late, gap>>

\* Mutant: the release loop starts one past the last claim.
SweepPastLast(a) ==
    /\ at[a] = "sweep"
    /\ NothingLate(a)
    /\ objects' = objects \ ({a} \X Kinds)
    /\ Goto(a, "release", Last(a) + 1)
    /\ UNCHANGED <<api, records, state, published, trees, late, gap>>

\* kubectl_cleanup_journaled_resources: every other object is deleted.
Sweep(a) ==
    /\ at[a] = "sweep"
    /\ NothingLate(a)
    /\ objects' = objects \ ({a} \X Kinds)
    /\ Goto(a, "release", Last(a))
    /\ UNCHANGED <<api, records, state, published, trees, late, gap>>

\* Mutant: a claim without a journaled Lease counts as released.
ReleaseIgnoresIntent(a) ==
    /\ at[a] = "release"
    /\ IF claim[a] \in released[a] THEN Downwards(a, "release", "end")
       ELSE Goto(a, IF claim[a] \in journal[a] THEN "see" ELSE "mark", claim[a])
    /\ UNCHANGED <<api, records, state, published, external, gap>>

\* kubectl_release_pvc_lease: which records are left of this claim.
Release(a) ==
    /\ at[a] = "release"
    /\ IF claim[a] \in released[a] THEN Downwards(a, "release", "end") /\ UNCHANGED intents
       ELSE IF claim[a] \in journal[a] THEN
            Goto(a, "see", claim[a]) /\ intents' = Erase(intents, a, claim[a])
       ELSE Goto(a, IF claim[a] \in intents[a] THEN "probe" ELSE "mark", claim[a])
            /\ UNCHANGED intents
    /\ UNCHANGED <<api, journal, released, absent, state, published, external, gap>>

\* kubectl_cleanup_creation_intent, for a Lease that was never journaled.
Probe(a) ==
    /\ at[a] = "probe"
    /\ Goto(a, IF lease[claim[a]] = Free THEN "recheck" ELSE "identify", claim[a])
    /\ UNCHANGED <<api, records, state, published, external, gap>>

\* After the horizon a second absence is believed and recorded.
Recheck(a) ==
    /\ at[a] = "recheck"
    /\ IF lease[claim[a]] = Free
         THEN absent' = Record(absent, a, claim[a]) /\ Goto(a, "unintent", claim[a])
         ELSE UNCHANGED absent /\ Goto(a, "identify", claim[a])
    /\ UNCHANGED <<api, intents, journal, released, state, published, external, gap>>

Identify(a) ==
    /\ at[a] = "identify"
    /\ IF lease[claim[a]] = a THEN Goto(a, "owned", claim[a]) ELSE Stop(a)
    /\ UNCHANGED <<api, records, state, published, external, gap>>

\* kubectl_delete_owned_object verifies once more; that may fail for any
\* reason, and an absence seen after it means done.
VerifyOwned(a) ==
    /\ at[a] = "owned"
    /\ \/ lease[claim[a]] = a /\ Goto(a, "erase", claim[a])
       \/ Goto(a, "gone", claim[a])
    /\ UNCHANGED <<api, records, state, published, external, gap>>

SeeGone(a) ==
    /\ at[a] = "gone"
    /\ IF lease[claim[a]] = Free THEN Goto(a, "unintent", claim[a]) ELSE Stop(a)
    /\ UNCHANGED <<api, records, state, published, external, gap>>

\* ... and deletes by name.  A timed-out deletion ends the command.
EraseOwned(a) ==
    /\ at[a] = "erase"
    /\ \/ /\ lease' = [lease EXCEPT ![claim[a]] = Free]
          /\ \/ Goto(a, "unintent", claim[a])
             \/ Stop(a)
          /\ UNCHANGED deletes
       \/ /\ NameDeletesLinger
          /\ deletes' = deletes \union {<<a, claim[a], "name">>}
          /\ Stop(a)
          /\ UNCHANGED lease
    /\ UNCHANGED <<creates, records, state, published, external, gap>>

DropIntent(a) ==
    /\ at[a] = "unintent"
    /\ intents' = Erase(intents, a, claim[a])
    /\ Goto(a, "mark", claim[a])
    /\ UNCHANGED <<api, journal, released, absent, state, published, external, gap>>

\* A journaled Lease: nothing there, or its identity is verified first.
SeeLease(a) ==
    /\ at[a] = "see"
    /\ Goto(a, IF lease[claim[a]] = Free THEN "confirm" ELSE "verify", claim[a])
    /\ UNCHANGED <<api, records, state, published, external, gap>>

VerifyLease(a) ==
    /\ at[a] = "verify"
    /\ IF lease[claim[a]] = a THEN Goto(a, "delete", claim[a]) ELSE Stop(a)
    /\ UNCHANGED <<api, records, state, published, external, gap>>

\* The UID-preconditioned deletion; its outcome is observed, not trusted.
DeleteLease(a) ==
    /\ at[a] = "delete"
    /\ \/ /\ lease' = IF lease[claim[a]] = a THEN [lease EXCEPT ![claim[a]] = Free] ELSE lease
          /\ UNCHANGED deletes
       \/ deletes' = deletes \union {<<a, claim[a], "uid">>} /\ UNCHANGED lease
    /\ Goto(a, "confirm", claim[a])
    /\ UNCHANGED <<creates, records, state, published, external, gap>>

\* Mutant: the outcome of the deletion is not observed.
ConfirmGoneUnchecked(a) ==
    /\ at[a] = "confirm"
    /\ Goto(a, "mark", claim[a])
    /\ UNCHANGED <<api, records, state, published, external, gap>>

ConfirmGone(a) ==
    /\ at[a] = "confirm"
    /\ IF lease[claim[a]] = a THEN Stop(a) ELSE Goto(a, "mark", claim[a])
    /\ UNCHANGED <<api, records, state, published, external, gap>>

MarkReleased(a) ==
    /\ at[a] = "mark"
    /\ released' = Record(released, a, claim[a])
    /\ Downwards(a, "release", "end")
    /\ UNCHANGED <<api, intents, journal, absent, state, published, external, gap>>

\* SUBMISSION_FAILED after a rollback, COLLECTED after a collection; a
\* submitter that finds its attempt already rolled back changes nothing.
End(a) ==
    /\ at[a] = "end"
    /\ state' = [state EXCEPT ![a] = CASE @ = "PREPARED" -> "SUBMISSION_FAILED"
                                       [] @ = "COLLECTION_IN_PROGRESS" -> "COLLECTED"
                                       [] OTHER -> @]
    /\ Stop(a)
    /\ UNCHANGED <<api, records, published, external, gap>>

-----------------------------------------------------------------------------
(* Collection (kubectl_lifecycle_operation and kubectl_collect_attempt).   *)

\* kubectl_verify_journaled_pvc_lease of every claim opens the command.
Collect(a) ==
    /\ at[a] = "idle" /\ state[a] \in {"SUBMITTED", "TERMINAL"}
    /\ \A c \in Uses[a] : c \in journal[a] /\ (lease[c] = a <=> c \notin released[a])
    /\ Goto(a, "gate", 0)
    /\ UNCHANGED <<api, records, state, published, external, gap>>

CollectGate(a) ==
    /\ at[a] = "gate"
    /\ state' = [state EXCEPT ![a] = IF @ = "SUBMITTED" THEN "TERMINAL" ELSE @]
    /\ Goto(a, "stream", 0)
    /\ UNCHANGED <<api, records, published, external, gap>>

CollectStream(a) ==
    /\ at[a] = "stream"
    /\ state' = [state EXCEPT ![a] = IF @ = "TERMINAL" THEN "COLLECTION_IN_PROGRESS" ELSE @]
    /\ Goto(a, "import", 0)
    /\ UNCHANGED <<api, records, published, external, gap>>

CollectImport(a) ==
    /\ at[a] = "import"
    /\ published' = published \union {a}
    /\ Goto(a, "untree", 0)
    /\ UNCHANGED <<api, records, state, external, gap>>

CollectAgain(a) ==
    /\ at[a] = "idle" /\ state[a] = "COLLECTION_IN_PROGRESS"
    /\ Goto(a, "reconcile", Last(a))
    /\ UNCHANGED <<api, records, state, published, external, gap>>

\* kubectl_collection_cleanup_precedes_lease_release.
CleanupPrecedes(a, c, done) ==
    /\ a \in published
    /\ a \notin trees
    /\ \A k \in Kinds : <<a, k>> \notin objects
    /\ Later(a, c) \subseteq done[a]

\* The first step of the repeated collection once the Leases are reconciled.
ResumeStep(a, done) ==
    CASE a \notin published -> "gate"
      [] a \in published /\ First(a) \notin done[a] -> "untree"
      [] a \in published /\ First(a) \in done[a] ->
            IF CleanupPrecedes(a, First(a), done) THEN "end" ELSE "idle"

\* A Lease that is gone, or whose name has a new owner, was released by this
\* attempt if everything before it was.
Reconcile(a) ==
    /\ at[a] = "reconcile"
    /\ \/ /\ lease[claim[a]] = a /\ claim[a] \notin released[a]
          /\ Downwards(a, "reconcile", ResumeStep(a, released))
          /\ UNCHANGED released
       \/ /\ lease[claim[a]] # a /\ CleanupPrecedes(a, claim[a], released)
          /\ released' = Record(released, a, claim[a])
          /\ Downwards(a, "reconcile", ResumeStep(a, released'))
    /\ UNCHANGED <<api, intents, journal, absent, state, published, external, gap>>

-----------------------------------------------------------------------------
\* The command is killed, an API call of a rollback or collection fails, or a
\* check refuses: it ends with what it has done so far.
Die(a) ==
    /\ at[a] # "idle"
    /\ Stop(a)
    /\ UNCHANGED <<api, records, state, published, external, gap>>

\* The submitter is killed between its two uses of the lock, or finds the lock
\* taken by another command and gives up without a rollback.
SubmitterDies(a) ==
    /\ a \in gap
    /\ gap' = gap \ {a}
    /\ UNCHANGED <<api, records, state, published, external, command>>

Step(a) ==
    \/ Prepare(a) \/ WriteIntent(a) \/ CreateLease(a) \/ ObserveLease(a)
    \/ JournalLease(a) \/ ClearIntent(a) \/ ReserveTrees(a) \/ StartWorkers(a)
    \/ Submit(a) \/ UploadBundle(a) \/ CreateJobs(a) \/ Commit(a)
    \/ CommitFails(a) \/ PhaseFails(a)
    \/ Recover(a) \/ Quiesce(a) \/ ReleaseTrees(a) \/ SweepAnyway(a) \/ Sweep(a)
    \/ Release(a) \/ Probe(a) \/ Recheck(a) \/ Identify(a) \/ VerifyOwned(a)
    \/ SeeGone(a) \/ EraseOwned(a) \/ DropIntent(a) \/ SeeLease(a) \/ VerifyLease(a)
    \/ DeleteLease(a) \/ ConfirmGone(a) \/ MarkReleased(a) \/ End(a)
    \/ Collect(a) \/ CollectGate(a) \/ CollectStream(a) \/ CollectImport(a)
    \/ CollectAgain(a) \/ Reconcile(a) \/ Die(a) \/ SubmitterDies(a)

Next ==
    \/ \E a \in Attempts : Step(a)
    \/ \E a \in Attempts, k \in Workloads : ObjectArrives(a, k)
    \/ \E a \in Attempts, c \in Claims : CreateArrives(a, c)
    \/ \E a \in Attempts, c \in Claims, how \in {"uid", "name"} : DeleteArrives(a, c, how)

Spec == Init /\ [][Next]_vars

-----------------------------------------------------------------------------
\* The records name claims of their attempt and every step that works on a
\* claim has one.
TypeOK ==
    /\ lease \in [Claims -> Attempts \union {Free}]
    /\ creates \subseteq Attempts \X Claims
    /\ deletes \subseteq Attempts \X Claims \X {"uid", "name"}
    /\ intents \in [Attempts -> SUBSET Claims]
    /\ journal \in [Attempts -> SUBSET Claims]
    /\ released \in [Attempts -> SUBSET Claims]
    /\ absent \in [Attempts -> SUBSET Claims]
    /\ state \in [Attempts -> States]
    /\ published \subseteq Attempts
    /\ trees \subseteq Attempts
    /\ objects \subseteq Attempts \X Kinds
    /\ late \subseteq Attempts \X Workloads
    /\ gap \subseteq Attempts
    /\ at \in [Attempts -> AllSteps]
    /\ claim \in [Attempts -> 0..N]
    /\ \A a \in Attempts : at[a] \in AtClaim => claim[a] \in Uses[a]

\* The attempt may read or write its claims.
Active(a) == a \in trees \/ \E k \in Workloads : <<a, k>> \in objects \union late

\* Claim ownership (invariant 4 of the lifecycle document, "One active sweep
\* may own a claim"): while an attempt has a run tree or a workload, or one
\* may still appear, every claim it uses is reserved by its own Lease,
\* whatever other attempts, late requests and repeated rollbacks do.
ClaimsHeld ==
    \A a \in Attempts : Active(a) => \A c \in Uses[a] : lease[c] = a

\* The order that keeps attempts from waiting for each other in a circle: the
\* journaled Leases that an attempt still holds are its lowest claims.
HeldInOrder ==
    \A a \in Attempts : \A c, d \in Uses[a] :
        c < d /\ d \in journal[a] /\ lease[d] = a => c \in journal[a] /\ lease[c] = a

\* Invariant 15, and SUBMISSION_FAILED alike: an ended attempt has no run
\* tree, no object and no creation intent left, every claim is recorded as
\* released, and no Lease that it journaled exists any more.
EndedIsClean ==
    \A a \in Attempts :
        state[a] \in {"SUBMISSION_FAILED", "COLLECTED"} =>
            /\ ~Active(a) /\ <<a, "helper">> \notin objects
            /\ intents[a] = {}
            /\ released[a] = Uses[a]
            /\ \A c \in journal[a] : lease[c] # a

\* Whatever step removes a Lease, its holder has no run tree and no workload
\* left, and a collection has published its results locally before.
ReleasedLast ==
    [][\A c \in Claims : LET a == lease[c] IN
          a # Free /\ lease'[c] # a =>
            /\ ~Active(a)
            /\ state[a] = "COLLECTION_IN_PROGRESS" => a \in published]_vars
=============================================================================
