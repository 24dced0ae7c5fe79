---------------------------- MODULE LeasesProofs ----------------------------
(***************************************************************************)
(* Claim ownership of Leases, the order of the claims, and what an ended   *)
(* attempt leaves behind, for every number of attempts and claims.         *)
(***************************************************************************)
EXTENDS Leases, WellFoundedInduction, TLAPS

-----------------------------------------------------------------------------
(* The claim loops. *)

\* Every set of claims that is not empty has a lowest one.
LEMMA LeastIsLowest ==
    ASSUME NEW T, T \subseteq Claims, T # {}
    PROVE  Least(T) \in T /\ \A d \in T : Least(T) <= d
<1>1. T \subseteq Nat
  BY NAssumption DEF Claims
<1>2. PICK m \in T : \A y \in T : ~ (<<y, m>> \in OpToRel(<, Nat))
  BY <1>1, WFMin, NatLessThanWellFounded
<1>3. \A y \in T : ~ (y < m)
  BY <1>1, <1>2 DEF OpToRel
<1>4. \A y \in T : m <= y
  BY <1>1, <1>3
<1> QED BY <1>4 DEF Least

\* ... and a highest one, the lowest counted down from N.
LEMMA GreatestIsHighest ==
    ASSUME NEW T, T \subseteq Claims, T # {}
    PROVE  Greatest(T) \in T /\ \A d \in T : d <= Greatest(T)
<1> DEFINE R == {N - c : c \in T}
<1>0. \A c \in T : N - c \in Nat
  BY NAssumption DEF Claims
<1>1. R \subseteq Nat /\ R # {}
  BY <1>0
<1>2. PICK m \in R : \A y \in R : ~ (<<y, m>> \in OpToRel(<, Nat))
  <2> HIDE DEF R
  <2> QED BY <1>1, WFMin, NatLessThanWellFounded
<1>3. \A y \in R : ~ (y < m)
  <2> HIDE DEF R
  <2> QED BY <1>1, <1>2 DEF OpToRel
<1>4. PICK c \in T : m = N - c
  BY <1>2
<1>5. \A d \in T : d <= c
  <2> SUFFICES ASSUME NEW d \in T PROVE d <= c
    OBVIOUS
  <2>1. N - d \in R
    OBVIOUS
  <2>2. ~ (N - d < N - c)
    BY <1>3, <1>4, <2>1
  <2> QED BY <2>2, NAssumption DEF Claims
<1> QED BY <1>5 DEF Greatest

\* Both loops stay on claims of the attempt.
LEMMA LoopClaims ==
    ASSUME NEW a \in Attempts, NEW c \in Claims
    PROVE  /\ Uses[a] \subseteq Claims
           /\ First(a) \in Uses[a] /\ Last(a) \in Uses[a]
           /\ \A d \in Uses[a] : First(a) <= d
           /\ Later(a, c) # {} =>
                /\ Least(Later(a, c)) \in Later(a, c)
                /\ \A d \in Later(a, c) : Least(Later(a, c)) <= d
           /\ Earlier(a, c) # {} => Greatest(Earlier(a, c)) \in Earlier(a, c)
<1>1. Uses[a] \subseteq Claims /\ Uses[a] # {}
  BY UsesAssumption DEF Claims
<1>2. Later(a, c) \subseteq Claims /\ Earlier(a, c) \subseteq Claims
  BY <1>1 DEF Later, Earlier
<1> QED BY <1>1, <1>2, LeastIsLowest, GreatestIsHighest DEF First, Last

-----------------------------------------------------------------------------
(* Type correctness. *)

CommandOK ==
    /\ at \in [Attempts -> AllSteps]
    /\ claim \in [Attempts -> 0..N]
    /\ \A a \in Attempts : at[a] \in AtClaim => claim[a] \in Uses[a]

\* Going to a step keeps the types when a step on a claim gets a claim.
LEMMA GotoOK ==
    ASSUME CommandOK, NEW a \in Attempts, NEW s \in AllSteps, NEW c \in 0..N,
           s \in AtClaim => c \in Uses[a], Goto(a, s, c)
    PROVE  CommandOK'
<1>1. at' \in [Attempts -> AllSteps] /\ claim' \in [Attempts -> 0..N]
  BY DEF CommandOK, Goto
<1>2. \A b \in Attempts : at'[b] \in AtClaim => claim'[b] \in Uses[b]
  BY DEF CommandOK, Goto
<1> QED BY <1>1, <1>2 DEF CommandOK

\* Every step is one of the command; those on a claim are listed.
LEMMA StepNames ==
    /\ AtClaim \subseteq AllSteps
    /\ {"idle", "end", "untree", "sweep", "quiesce", "reserve", "workers", "bundle",
        "jobs", "commit", "gate", "stream", "import"} \subseteq AllSteps \ AtClaim
    /\ {"intent", "create", "observe", "journal", "clear", "release", "probe", "recheck",
        "identify", "owned", "erase", "gone", "unintent", "see", "verify", "delete", "confirm",
        "mark", "reconcile"} \subseteq AtClaim
  BY DEF AllSteps, AtClaim, AcquireSteps, ReleaseSteps, SubmitSteps, CollectSteps, UndoSteps

\* A step without a claim, or on the claim at hand.
LEMMA GotoPlain ==
    ASSUME CommandOK, NEW a \in Attempts, NEW s \in AllSteps \ AtClaim, Goto(a, s, 0)
    PROVE  CommandOK'
<1>1. 0 \in 0..N
  BY NAssumption
<1> QED BY <1>1, GotoOK

\* A command that keeps its claim goes to a step on a claim.
LEMMA GotoHere ==
    ASSUME CommandOK, NEW a \in Attempts, NEW s \in AtClaim, at[a] \in AtClaim,
           Goto(a, s, claim[a])
    PROVE  CommandOK'
<1>1. s \in AllSteps /\ claim[a] \in 0..N /\ claim[a] \in Uses[a]
  BY StepNames DEF CommandOK
<1> QED BY <1>1, GotoOK

\* A command goes to a step on another claim it uses.
LEMMA GotoClaim ==
    ASSUME CommandOK, NEW a \in Attempts, NEW s \in AtClaim, NEW c \in Uses[a], Goto(a, s, c)
    PROVE  CommandOK'
<1>1. s \in AllSteps /\ c \in 0..N
  BY StepNames, UsesAssumption, NAssumption
<1> QED BY <1>1, GotoOK

\* The loop that takes the claims upwards keeps to the claims it uses ...
LEMMA UpwardsOK ==
    ASSUME CommandOK, NEW a \in Attempts, at[a] \in AtClaim,
           NEW s \in AtClaim, NEW t \in AllSteps \ AtClaim, Upwards(a, s, t)
    PROVE  CommandOK'
<1>1. claim[a] \in Claims
  BY LoopClaims, UsesAssumption DEF CommandOK, Claims
<1>2. Later(a, claim[a]) # {} => Least(Later(a, claim[a])) \in Uses[a]
  BY <1>1, LoopClaims DEF Later
<1> QED BY <1>2, GotoClaim, GotoPlain DEF Upwards

\* ... and so does the one that gives them back downwards.
LEMMA DownwardsOK ==
    ASSUME CommandOK, NEW a \in Attempts, at[a] \in AtClaim,
           NEW s \in AtClaim, NEW t \in AllSteps \ AtClaim, Downwards(a, s, t)
    PROVE  CommandOK'
<1>1. claim[a] \in Claims
  BY LoopClaims, UsesAssumption DEF CommandOK, Claims
<1>2. Earlier(a, claim[a]) # {} => Greatest(Earlier(a, claim[a])) \in Uses[a]
  BY <1>1, LoopClaims DEF Earlier
<1> QED BY <1>2, GotoClaim, GotoPlain DEF Downwards

\* The rest of TypeOK: the API server, the records and the objects.
DataOK ==
    /\ lease \in [Claims -> Attempts \union {Free}]
    /\ creates \subseteq Attempts \X Claims
    /\ deletes \subseteq Attempts \X Claims \X {"uid", "name"}
    /\ intents \in [Attempts -> SUBSET Claims]
    /\ journal \in [Attempts -> SUBSET Claims]
    /\ released \in [Attempts -> SUBSET Claims]
    /\ absent \in [Attempts -> SUBSET Claims]
    /\ state \in [Attempts -> States]
    /\ published \subseteq Attempts
    /\ trees \subseteq Attempts
    /\ objects \subseteq Attempts \X Kinds
    /\ late \subseteq Attempts \X Workloads
    /\ gap \subseteq Attempts

\* The types are those of the data and those of the commands.
LEMMA TypeParts == (TypeOK <=> DataOK /\ CommandOK) /\ (TypeOK' <=> DataOK' /\ CommandOK')
  BY DEF TypeOK, DataOK, CommandOK

\* The claim at hand is one.
LEMMA ClaimAtHand ==
    ASSUME CommandOK, NEW a \in Attempts, at[a] \in AtClaim
    PROVE  claim[a] \in Claims /\ claim[a] \in Uses[a]
  BY UsesAssumption DEF CommandOK, Claims

\* One step of a command keeps the types.
LEMMA StepTypes ==
    ASSUME TypeOK, NEW a \in Attempts, Step(a)
    PROVE  TypeOK'
<1>0. DataOK /\ CommandOK
  BY TypeParts
<1>1. CASE Prepare(a)
  <2>5. First(a) \in Uses[a] /\ Last(a) \in Uses[a]
    BY UsesAssumption, GreatestIsHighest, LeastIsLowest DEF First, Last, Claims
  <2>1. CommandOK'
    BY <1>0, <1>1, GotoClaim, <2>5, StepNames DEF Prepare
  <2>2. DataOK'
    BY <1>0, <1>1 DEF DataOK, Prepare, api, records, external, States, Kinds
  <2> QED BY <2>1, <2>2, TypeParts
<1>2. CASE WriteIntent(a)
  <2>0. at[a] \in AtClaim /\ claim[a] \in Claims
    BY <1>0, <1>2, StepNames, ClaimAtHand DEF WriteIntent
  <2>1. CommandOK'
    BY <1>0, <2>0, <1>2, GotoHere, StepNames DEF WriteIntent
  <2>2. DataOK'
    BY <1>0, <2>0, <1>2 DEF DataOK, WriteIntent, api, records, external, Record
  <2> QED BY <2>1, <2>2, TypeParts
<1>3. CASE CreateLease(a)
  <2>0. at[a] \in AtClaim /\ claim[a] \in Claims
    BY <1>0, <1>3, StepNames, ClaimAtHand DEF CreateLease
  <2>1. CommandOK'
    BY <1>0, <2>0, <1>3, GotoHere, StepNames DEF CreateLease
  <2>2. DataOK'
    BY <1>0, <2>0, <1>3 DEF DataOK, CreateLease, api, records, external
  <2> QED BY <2>1, <2>2, TypeParts
<1>4. CASE ObserveLease(a)
  <2>0. at[a] \in AtClaim /\ claim[a] \in Claims
    BY <1>0, <1>4, StepNames, ClaimAtHand DEF ObserveLease
  <2>1. CommandOK'
    BY <1>0, <2>0, <1>4, GotoHere, GotoPlain, StepNames DEF ObserveLease
  <2>2. DataOK'
    BY <1>0, <2>0, <1>4 DEF DataOK, ObserveLease, api, records, external, Erase
  <2> QED BY <2>1, <2>2, TypeParts
<1>5. CASE JournalLease(a)
  <2>0. at[a] \in AtClaim /\ claim[a] \in Claims
    BY <1>0, <1>5, StepNames, ClaimAtHand DEF JournalLease
  <2>1. CommandOK'
    BY <1>0, <2>0, <1>5, GotoHere, StepNames DEF JournalLease
  <2>2. DataOK'
    BY <1>0, <2>0, <1>5 DEF DataOK, JournalLease, api, records, external, Record
  <2> QED BY <2>1, <2>2, TypeParts
<1>6. CASE ClearIntent(a)
  <2>0. at[a] \in AtClaim /\ claim[a] \in Claims
    BY <1>0, <1>6, StepNames, ClaimAtHand DEF ClearIntent
  <2>1. CommandOK'
    BY <1>0, <2>0, <1>6, UpwardsOK, StepNames DEF ClearIntent
  <2>2. DataOK'
    BY <1>0, <2>0, <1>6 DEF DataOK, ClearIntent, api, records, external, Erase
  <2> QED BY <2>1, <2>2, TypeParts
<1>7. CASE ReserveTrees(a)
  <2>1. CommandOK'
    BY <1>0, <1>7, GotoPlain, StepNames DEF ReserveTrees
  <2>2. DataOK'
    BY <1>0, <1>7 DEF DataOK, ReserveTrees, api, records, external
  <2> QED BY <2>1, <2>2, TypeParts
<1>8. CASE StartWorkers(a)
  <2>1. CommandOK'
    BY <1>0, <1>8, GotoPlain, StepNames DEF StartWorkers, CreateObjects
  <2>2. DataOK'
    BY <1>0, <1>8 DEF DataOK, StartWorkers, api, records, external, CreateObjects, Kinds, Workloads
  <2> QED BY <2>1, <2>2, TypeParts
<1>9. CASE Submit(a)
  <2>1. CommandOK'
    BY <1>0, <1>9, GotoPlain, StepNames DEF Submit
  <2>2. DataOK'
    BY <1>0, <1>9 DEF DataOK, Submit, api, records, external
  <2> QED BY <2>1, <2>2, TypeParts
<1>10. CASE UploadBundle(a)
  <2>1. CommandOK'
    BY <1>0, <1>10, GotoPlain, StepNames DEF UploadBundle
  <2>2. DataOK'
    BY <1>0, <1>10 DEF DataOK, UploadBundle, api, records, external
  <2> QED BY <2>1, <2>2, TypeParts
<1>11. CASE CreateJobs(a)
  <2>1. CommandOK'
    BY <1>0, <1>11, GotoPlain, StepNames DEF CreateJobs, CreateObjects
  <2>2. DataOK'
    BY <1>0, <1>11 DEF DataOK, CreateJobs, api, records, external, CreateObjects, Kinds, Workloads
  <2> QED BY <2>1, <2>2, TypeParts
<1>12. CASE Commit(a)
  <2>1. CommandOK'
    BY <1>0, <1>12, GotoPlain, StepNames DEF Commit, Stop
  <2>2. DataOK'
    BY <1>0, <1>12 DEF DataOK, Commit, api, records, external, States
  <2> QED BY <2>1, <2>2, TypeParts
<1>13. CASE CommitFails(a)
  <2>1. CommandOK'
    BY <1>0, <1>13, GotoPlain, StepNames DEF CommitFails
  <2>2. DataOK'
    BY <1>0, <1>13 DEF DataOK, CommitFails, api, records, external
  <2> QED BY <2>1, <2>2, TypeParts
<1>14. CASE PhaseFails(a)
  <2>1. CommandOK'
    BY <1>0, <1>14, GotoPlain, StepNames DEF PhaseFails
  <2>2. DataOK'
    BY <1>0, <1>14 DEF DataOK, PhaseFails, api, records, external
  <2> QED BY <2>1, <2>2, TypeParts
<1>15. CASE Recover(a)
  <2>1. CommandOK'
    BY <1>0, <1>15, GotoPlain, StepNames DEF Recover
  <2>2. DataOK'
    BY <1>0, <1>15 DEF DataOK, Recover, api, records, external
  <2> QED BY <2>1, <2>2, TypeParts
<1>16. CASE Quiesce(a)
  <2>1. CommandOK'
    BY <1>0, <1>16, GotoPlain, StepNames DEF Quiesce
  <2>2. DataOK'
    BY <1>0, <1>16 DEF DataOK, Quiesce, api, records, external
  <2> QED BY <2>1, <2>2, TypeParts
<1>17. CASE ReleaseTrees(a)
  <2>1. CommandOK'
    BY <1>0, <1>17, GotoPlain, StepNames DEF ReleaseTrees
  <2>2. DataOK'
    BY <1>0, <1>17 DEF DataOK, ReleaseTrees, api, records, external
  <2> QED BY <2>1, <2>2, TypeParts
<1>18. CASE SweepAnyway(a)
  <2>1. CommandOK'
    BY <1>0, <1>18, GotoPlain, StepNames DEF SweepAnyway, Stop
  <2>2. DataOK'
    BY <1>0, <1>18 DEF DataOK, SweepAnyway, api, records, external
  <2> QED BY <2>1, <2>2, TypeParts
<1>19. CASE Sweep(a)
  <2>5. First(a) \in Uses[a] /\ Last(a) \in Uses[a]
    BY UsesAssumption, GreatestIsHighest, LeastIsLowest DEF First, Last, Claims
  <2>1. CommandOK'
    BY <1>0, <1>19, GotoClaim, <2>5, StepNames DEF Sweep
  <2>2. DataOK'
    BY <1>0, <1>19 DEF DataOK, Sweep, api, records, external
  <2> QED BY <2>1, <2>2, TypeParts
<1>20. CASE Release(a)
  <2>0. at[a] \in AtClaim /\ claim[a] \in Claims
    BY <1>0, <1>20, StepNames, ClaimAtHand DEF Release
  <2>1. CommandOK'
    BY <1>0, <2>0, <1>20, GotoHere, DownwardsOK, StepNames DEF Release
  <2>2. DataOK'
    BY <1>0, <2>0, <1>20 DEF DataOK, Release, api, records, external, Erase
  <2> QED BY <2>1, <2>2, TypeParts
<1>21. CASE Probe(a)
  <2>0. at[a] \in AtClaim /\ claim[a] \in Claims
    BY <1>0, <1>21, StepNames, ClaimAtHand DEF Probe
  <2>1. CommandOK'
    BY <1>0, <2>0, <1>21, GotoHere, StepNames DEF Probe
  <2>2. DataOK'
    BY <1>0, <2>0, <1>21 DEF DataOK, Probe, api, records, external
  <2> QED BY <2>1, <2>2, TypeParts
<1>22. CASE Recheck(a)
  <2>0. at[a] \in AtClaim /\ claim[a] \in Claims
    BY <1>0, <1>22, StepNames, ClaimAtHand DEF Recheck
  <2>1. CommandOK'
    BY <1>0, <2>0, <1>22, GotoHere, StepNames DEF Recheck
  <2>2. DataOK'
    BY <1>0, <2>0, <1>22 DEF DataOK, Recheck, api, records, external, Record
  <2> QED BY <2>1, <2>2, TypeParts
<1>23. CASE Identify(a)
  <2>0. at[a] \in AtClaim /\ claim[a] \in Claims
    BY <1>0, <1>23, StepNames, ClaimAtHand DEF Identify
  <2>1. CommandOK'
    BY <1>0, <2>0, <1>23, GotoHere, GotoPlain, StepNames DEF Identify, Stop
  <2>2. DataOK'
    BY <1>0, <2>0, <1>23 DEF DataOK, Identify, api, records, external
  <2> QED BY <2>1, <2>2, TypeParts
<1>24. CASE VerifyOwned(a)
  <2>0. at[a] \in AtClaim /\ claim[a] \in Claims
    BY <1>0, <1>24, StepNames, ClaimAtHand DEF VerifyOwned
  <2>1. CommandOK'
    BY <1>0, <2>0, <1>24, GotoHere, GotoPlain, StepNames DEF VerifyOwned, Stop
  <2>2. DataOK'
    BY <1>0, <2>0, <1>24 DEF DataOK, VerifyOwned, api, records, external
  <2> QED BY <2>1, <2>2, TypeParts
<1>25. CASE SeeGone(a)
  <2>0. at[a] \in AtClaim /\ claim[a] \in Claims
    BY <1>0, <1>25, StepNames, ClaimAtHand DEF SeeGone
  <2>1. CommandOK'
    BY <1>0, <2>0, <1>25, GotoHere, GotoPlain, StepNames DEF SeeGone, Stop
  <2>2. DataOK'
    BY <1>0, <2>0, <1>25 DEF DataOK, SeeGone, api, records, external
  <2> QED BY <2>1, <2>2, TypeParts
<1>26. CASE EraseOwned(a)
  <2>0. at[a] \in AtClaim /\ claim[a] \in Claims
    BY <1>0, <1>26, StepNames, ClaimAtHand DEF EraseOwned
  <2>1. CommandOK'
    BY <1>0, <2>0, <1>26, GotoHere, GotoPlain, StepNames DEF EraseOwned, Stop
  <2>2. DataOK'
    BY <1>0, <2>0, <1>26 DEF DataOK, EraseOwned, api, records, external
  <2> QED BY <2>1, <2>2, TypeParts
<1>27. CASE DropIntent(a)
  <2>0. at[a] \in AtClaim /\ claim[a] \in Claims
    BY <1>0, <1>27, StepNames, ClaimAtHand DEF DropIntent
  <2>1. CommandOK'
    BY <1>0, <2>0, <1>27, GotoHere, StepNames DEF DropIntent
  <2>2. DataOK'
    BY <1>0, <2>0, <1>27 DEF DataOK, DropIntent, api, records, external, Erase
  <2> QED BY <2>1, <2>2, TypeParts
<1>28. CASE SeeLease(a)
  <2>0. at[a] \in AtClaim /\ claim[a] \in Claims
    BY <1>0, <1>28, StepNames, ClaimAtHand DEF SeeLease
  <2>1. CommandOK'
    BY <1>0, <2>0, <1>28, GotoHere, StepNames DEF SeeLease
  <2>2. DataOK'
    BY <1>0, <2>0, <1>28 DEF DataOK, SeeLease, api, records, external
  <2> QED BY <2>1, <2>2, TypeParts
<1>29. CASE VerifyLease(a)
  <2>0. at[a] \in AtClaim /\ claim[a] \in Claims
    BY <1>0, <1>29, StepNames, ClaimAtHand DEF VerifyLease
  <2>1. CommandOK'
    BY <1>0, <2>0, <1>29, GotoHere, GotoPlain, StepNames DEF VerifyLease, Stop
  <2>2. DataOK'
    BY <1>0, <2>0, <1>29 DEF DataOK, VerifyLease, api, records, external
  <2> QED BY <2>1, <2>2, TypeParts
<1>30. CASE DeleteLease(a)
  <2>0. at[a] \in AtClaim /\ claim[a] \in Claims
    BY <1>0, <1>30, StepNames, ClaimAtHand DEF DeleteLease
  <2>1. CommandOK'
    BY <1>0, <2>0, <1>30, GotoHere, StepNames DEF DeleteLease
  <2>2. DataOK'
    BY <1>0, <2>0, <1>30 DEF DataOK, DeleteLease, api, records, external
  <2> QED BY <2>1, <2>2, TypeParts
<1>31. CASE ConfirmGone(a)
  <2>0. at[a] \in AtClaim /\ claim[a] \in Claims
    BY <1>0, <1>31, StepNames, ClaimAtHand DEF ConfirmGone
  <2>1. CommandOK'
    BY <1>0, <2>0, <1>31, GotoHere, GotoPlain, StepNames DEF ConfirmGone, Stop
  <2>2. DataOK'
    BY <1>0, <2>0, <1>31 DEF DataOK, ConfirmGone, api, records, external
  <2> QED BY <2>1, <2>2, TypeParts
<1>32. CASE MarkReleased(a)
  <2>0. at[a] \in AtClaim /\ claim[a] \in Claims
    BY <1>0, <1>32, StepNames, ClaimAtHand DEF MarkReleased
  <2>1. CommandOK'
    BY <1>0, <2>0, <1>32, DownwardsOK, StepNames DEF MarkReleased
  <2>2. DataOK'
    BY <1>0, <2>0, <1>32 DEF DataOK, MarkReleased, api, records, external, Record
  <2> QED BY <2>1, <2>2, TypeParts
<1>33. CASE End(a)
  <2>1. CommandOK'
    BY <1>0, <1>33, GotoPlain, StepNames DEF End, Stop
  <2>2. DataOK'
    BY <1>0, <1>33 DEF DataOK, End, api, records, external, States
  <2> QED BY <2>1, <2>2, TypeParts
<1>34. CASE Collect(a)
  <2>1. CommandOK'
    BY <1>0, <1>34, GotoPlain, StepNames DEF Collect
  <2>2. DataOK'
    BY <1>0, <1>34 DEF DataOK, Collect, api, records, external
  <2> QED BY <2>1, <2>2, TypeParts
<1>35. CASE CollectGate(a)
  <2>1. CommandOK'
    BY <1>0, <1>35, GotoPlain, StepNames DEF CollectGate
  <2>2. DataOK'
    BY <1>0, <1>35 DEF DataOK, CollectGate, api, records, external, States
  <2> QED BY <2>1, <2>2, TypeParts
<1>36. CASE CollectStream(a)
  <2>1. CommandOK'
    BY <1>0, <1>36, GotoPlain, StepNames DEF CollectStream
  <2>2. DataOK'
    BY <1>0, <1>36 DEF DataOK, CollectStream, api, records, external, States
  <2> QED BY <2>1, <2>2, TypeParts
<1>37. CASE CollectImport(a)
  <2>1. CommandOK'
    BY <1>0, <1>37, GotoPlain, StepNames DEF CollectImport
  <2>2. DataOK'
    BY <1>0, <1>37 DEF DataOK, CollectImport, api, records, external
  <2> QED BY <2>1, <2>2, TypeParts
<1>38. CASE CollectAgain(a)
  <2>5. First(a) \in Uses[a] /\ Last(a) \in Uses[a]
    BY UsesAssumption, GreatestIsHighest, LeastIsLowest DEF First, Last, Claims
  <2>1. CommandOK'
    BY <1>0, <1>38, GotoClaim, <2>5, StepNames DEF CollectAgain
  <2>2. DataOK'
    BY <1>0, <1>38 DEF DataOK, CollectAgain, api, records, external
  <2> QED BY <2>1, <2>2, TypeParts
<1>39. CASE Reconcile(a)
  <2>0. at[a] \in AtClaim /\ claim[a] \in Claims
    BY <1>0, <1>39, StepNames, ClaimAtHand DEF Reconcile
  <2>1. CommandOK'
    BY <1>0, <2>0, <1>39, DownwardsOK, StepNames DEF Reconcile, ResumeStep
  <2>2. DataOK'
    BY <1>0, <2>0, <1>39 DEF DataOK, Reconcile, api, records, external, Record
  <2> QED BY <2>1, <2>2, TypeParts
<1>40. CASE Die(a)
  <2>1. CommandOK'
    BY <1>0, <1>40, GotoPlain, StepNames DEF Die, Stop
  <2>2. DataOK'
    BY <1>0, <1>40 DEF DataOK, Die, api, records, external
  <2> QED BY <2>1, <2>2, TypeParts
<1>41. CASE SubmitterDies(a)
  <2>1. CommandOK'
    BY <1>0, <1>41 DEF SubmitterDies, CommandOK, command
  <2>2. DataOK'
    BY <1>0, <1>41 DEF DataOK, SubmitterDies, api, records, external
  <2> QED BY <2>1, <2>2, TypeParts
<1> QED BY <1>1, <1>2, <1>3, <1>4, <1>5, <1>6, <1>7, <1>8, <1>9, <1>10, <1>11, <1>12, <1>13, <1>14, <1>15, <1>16, <1>17, <1>18, <1>19, <1>20, <1>21, <1>22, <1>23, <1>24, <1>25, <1>26, <1>27, <1>28, <1>29, <1>30, <1>31, <1>32, <1>33, <1>34, <1>35, <1>36, <1>37, <1>38, <1>39, <1>40, <1>41 DEF Step

\* A late request keeps the types.
LEMMA ArrivalTypes ==
    ASSUME TypeOK, NEW a \in Attempts,
           \/ \E k \in Workloads : ObjectArrives(a, k)
           \/ \E c \in Claims : CreateArrives(a, c)
           \/ \E c \in Claims, how \in {"uid", "name"} : DeleteArrives(a, c, how)
    PROVE  TypeOK'
<1>1. CASE \E k \in Workloads : ObjectArrives(a, k)
  BY <1>1 DEF TypeOK, ObjectArrives, api, records, command, Workloads, Kinds
<1>2. CASE \E c \in Claims : CreateArrives(a, c)
  BY <1>2 DEF TypeOK, CreateArrives, records, external, command
<1>3. CASE \E c \in Claims, how \in {"uid", "name"} : DeleteArrives(a, c, how)
  BY <1>3 DEF TypeOK, DeleteArrives, records, external, command
<1> QED BY <1>1, <1>2, <1>3

\* The types hold at the beginning ...
LEMMA InitTypes == Init => TypeOK
  BY NAssumption DEF Init, TypeOK, Claims, States, AllSteps, AtClaim, AcquireSteps, ReleaseSteps,
     SubmitSteps, CollectSteps, UndoSteps

\* ... and every step keeps them.
LEMMA NextTypes == TypeOK /\ [Next]_vars => TypeOK'
<1> SUFFICES ASSUME TypeOK, [Next]_vars PROVE TypeOK'
  OBVIOUS
<1>1. CASE UNCHANGED vars
  BY <1>1 DEF TypeOK, vars, api, records, external, command
<1>2. CASE Next
  BY <1>2, StepTypes, ArrivalTypes DEF Next
<1> QED BY <1>1, <1>2

\* Every reachable state is well typed; every step on a claim (of the loops of
\* kubectl_prepare_attempt_lifecycle, _kubectl_release_attempt_leases and the
\* reconciliation) works on a claim of its attempt.
THEOREM LeasesTypeCorrect == Spec => []TypeOK
  BY InitTypes, NextTypes, PTL DEF Spec

-----------------------------------------------------------------------------
(* Claim ownership.  ClaimsHeld is not inductive: it does not say why an   *)
(* active attempt cannot lose a Lease.  The invariant adds what the        *)
(* attempt holds at every step, and that whoever deletes a Lease, now or   *)
(* by a request that is still under way, is done with its claims for good. *)

Holding(a) == \A c \in Uses[a] : c \in journal[a] /\ lease[c] = a

BusySteps == AcquireSteps \union {"reserve", "workers", "jobs", "commit"}

\* Preparation and submission are over for good.
Retired(a) ==
    /\ ~Active(a)
    /\ at[a] \notin BusySteps
    /\ state[a] # "NEW"

IntentSteps == {"probe", "recheck", "identify", "owned", "erase", "gone", "unintent"}

\* What is known of one attempt: it acquires from below, is active only while
\* it holds everything, and releases only when it is retired.
Good(a) ==
    /\ Active(a) => Holding(a)
    /\ at[a] \in {"reserve", "workers"} => Holding(a)
    /\ at[a] \in {"jobs", "commit"} => a \in trees
    /\ at[a] \in AcquireSteps =>
         \A d \in Earlier(a, claim[a]) : d \in journal[a] /\ lease[d] = a
    /\ at[a] \in {"journal", "clear"} => lease[claim[a]] = a
    /\ at[a] = "clear" => claim[a] \in journal[a]
    /\ at[a] = "sweep" => a \notin trees
    /\ at[a] \in ReleaseSteps => Retired(a)
    /\ at[a] \in IntentSteps => claim[a] \notin journal[a]
    /\ at[a] \in {"see", "verify", "delete"} => claim[a] \in journal[a]
    /\ at[a] = "erase" => lease[claim[a]] = a
    /\ state[a] = "NEW" => at[a] = "idle" /\ a \notin gap /\ ~Active(a)

\* A deletion whose response was lost is that of a journaled Lease of a
\* retired attempt.
GoodDeletes ==
    \A a \in Attempts, c \in Claims, how \in {"uid", "name"} :
        <<a, c, how>> \in deletes => how = "uid" /\ c \in journal[a] /\ Retired(a)

Ownership == TypeOK /\ (\A a \in Attempts : Good(a)) /\ GoodDeletes

\* A step of another attempt changes nothing of this one.
Same(b) ==
    /\ at'[b] = at[b] /\ claim'[b] = claim[b]
    /\ journal'[b] = journal[b] /\ state'[b] = state[b]
    /\ b \in trees' <=> b \in trees
    /\ Active(b)' => Active(b)
    /\ b \in gap' <=> b \in gap

\* What is known of an attempt stays true while nothing of it changes and it
\* loses no Lease.
LEMMA SameStaysGood ==
    ASSUME CommandOK, NEW b \in Attempts, Good(b), Same(b),
           \A c \in Claims : lease[c] = b => lease'[c] = b
    PROVE  Good(b)' /\ (Retired(b) => Retired(b)')
<1>1. Uses[b] \subseteq Claims
  BY UsesAssumption DEF Claims
<1>2. Holding(b) => Holding(b)'
  BY <1>1 DEF Holding, Same
<1>3. Retired(b) => Retired(b)'
  BY DEF Retired, Same
<1>4. at[b] \in AtClaim => claim[b] \in Claims
  BY <1>1 DEF CommandOK
<1>5. /\ AcquireSteps \subseteq AtClaim
      /\ "journal" \in AtClaim /\ "clear" \in AtClaim /\ "erase" \in AtClaim
  BY DEF AtClaim, AcquireSteps, ReleaseSteps
<1>6. at'[b] \in AcquireSteps =>
         \A d \in Earlier(b, claim'[b]) : d \in journal'[b] /\ lease'[d] = b
  BY <1>1 DEF Good, Same, Earlier
<1>7. at'[b] \in {"journal", "clear", "erase"} => claim[b] \in Claims
  BY <1>4, <1>5 DEF Same
<1> QED BY <1>2, <1>3, <1>6, <1>7 DEF Good, Same

\* A step of one attempt changes nothing of another.
LEMMA OthersAreSame ==
    ASSUME TypeOK, NEW a \in Attempts, NEW b \in Attempts, a # b, Step(a)
    PROVE  Same(b)
<1>1. CASE Prepare(a)
  BY <1>1 DEF TypeOK, Same, Active, Prepare, Goto, Stop, api, records, external, command
<1>2. CASE WriteIntent(a)
  BY <1>2 DEF TypeOK, Same, Active, WriteIntent, Goto, Stop, api, records, external, command, Record
<1>3. CASE CreateLease(a)
  BY <1>3 DEF TypeOK, Same, Active, CreateLease, Goto, Stop, api, records, external, command
<1>4. CASE ObserveLease(a)
  BY <1>4 DEF TypeOK, Same, Active, ObserveLease, Goto, Stop, api, records, external, command, Erase
<1>5. CASE JournalLease(a)
  BY <1>5 DEF TypeOK, Same, Active, JournalLease, Goto, Stop, api, records, external, command, Record
<1>6. CASE ClearIntent(a)
  BY <1>6 DEF TypeOK, Same, Active, ClearIntent, Goto, Stop, api, records, external, command, Upwards
<1>7. CASE ReserveTrees(a)
  BY <1>7 DEF TypeOK, Same, Active, ReserveTrees, Goto, Stop, api, records, external, command
<1>8. CASE StartWorkers(a)
  BY <1>8 DEF TypeOK, Same, Active, StartWorkers, Goto, Stop, api, records, external, command, CreateObjects
<1>9. CASE Submit(a)
  BY <1>9 DEF TypeOK, Same, Active, Submit, Goto, Stop, api, records, external, command
<1>10. CASE UploadBundle(a)
  BY <1>10 DEF TypeOK, Same, Active, UploadBundle, Goto, Stop, api, records, external, command
<1>11. CASE CreateJobs(a)
  BY <1>11 DEF TypeOK, Same, Active, CreateJobs, Goto, Stop, api, records, external, command, CreateObjects
<1>12. CASE Commit(a)
  BY <1>12 DEF TypeOK, Same, Active, Commit, Goto, Stop, api, records, external, command
<1>13. CASE CommitFails(a)
  BY <1>13 DEF TypeOK, Same, Active, CommitFails, Goto, Stop, api, records, external, command
<1>14. CASE PhaseFails(a)
  BY <1>14 DEF TypeOK, Same, Active, PhaseFails, Goto, Stop, api, records, external, command
<1>15. CASE Recover(a)
  BY <1>15 DEF TypeOK, Same, Active, Recover, Goto, Stop, api, records, external, command
<1>16. CASE Quiesce(a)
  BY <1>16 DEF TypeOK, Same, Active, Quiesce, Goto, Stop, api, records, external, command
<1>17. CASE ReleaseTrees(a)
  BY <1>17 DEF TypeOK, Same, Active, ReleaseTrees, Goto, Stop, api, records, external, command
<1>18. CASE SweepAnyway(a)
  BY <1>18 DEF TypeOK, Same, Active, SweepAnyway, Goto, Stop, api, records, external, command
<1>19. CASE Sweep(a)
  BY <1>19 DEF TypeOK, Same, Active, Sweep, Goto, Stop, api, records, external, command
<1>20. CASE Release(a)
  BY <1>20 DEF TypeOK, Same, Active, Release, Goto, Stop, api, records, external, command, Downwards, Erase
<1>21. CASE Probe(a)
  BY <1>21 DEF TypeOK, Same, Active, Probe, Goto, Stop, api, records, external, command
<1>22. CASE Recheck(a)
  BY <1>22 DEF TypeOK, Same, Active, Recheck, Goto, Stop, api, records, external, command, Record
<1>23. CASE Identify(a)
  BY <1>23 DEF TypeOK, Same, Active, Identify, Goto, Stop, api, records, external, command
<1>24. CASE VerifyOwned(a)
  BY <1>24 DEF TypeOK, Same, Active, VerifyOwned, Goto, Stop, api, records, external, command
<1>25. CASE SeeGone(a)
  BY <1>25 DEF TypeOK, Same, Active, SeeGone, Goto, Stop, api, records, external, command
<1>26. CASE EraseOwned(a)
  BY <1>26 DEF TypeOK, Same, Active, EraseOwned, Goto, Stop, api, records, external, command
<1>27. CASE DropIntent(a)
  BY <1>27 DEF TypeOK, Same, Active, DropIntent, Goto, Stop, api, records, external, command, Erase
<1>28. CASE SeeLease(a)
  BY <1>28 DEF TypeOK, Same, Active, SeeLease, Goto, Stop, api, records, external, command
<1>29. CASE VerifyLease(a)
  BY <1>29 DEF TypeOK, Same, Active, VerifyLease, Goto, Stop, api, records, external, command
<1>30. CASE DeleteLease(a)
  BY <1>30 DEF TypeOK, Same, Active, DeleteLease, Goto, Stop, api, records, external, command
<1>31. CASE ConfirmGone(a)
  BY <1>31 DEF TypeOK, Same, Active, ConfirmGone, Goto, Stop, api, records, external, command
<1>32. CASE MarkReleased(a)
  BY <1>32 DEF TypeOK, Same, Active, MarkReleased, Goto, Stop, api, records, external, command, Record, Downwards
<1>33. CASE End(a)
  BY <1>33 DEF TypeOK, Same, Active, End, Goto, Stop, api, records, external, command
<1>34. CASE Collect(a)
  BY <1>34 DEF TypeOK, Same, Active, Collect, Goto, Stop, api, records, external, command
<1>35. CASE CollectGate(a)
  BY <1>35 DEF TypeOK, Same, Active, CollectGate, Goto, Stop, api, records, external, command
<1>36. CASE CollectStream(a)
  BY <1>36 DEF TypeOK, Same, Active, CollectStream, Goto, Stop, api, records, external, command
<1>37. CASE CollectImport(a)
  BY <1>37 DEF TypeOK, Same, Active, CollectImport, Goto, Stop, api, records, external, command
<1>38. CASE CollectAgain(a)
  BY <1>38 DEF TypeOK, Same, Active, CollectAgain, Goto, Stop, api, records, external, command
<1>39. CASE Reconcile(a)
  BY <1>39 DEF TypeOK, Same, Active, Reconcile, Goto, Stop, api, records, external, command, Record, Downwards
<1>40. CASE Die(a)
  BY <1>40 DEF TypeOK, Same, Active, Die, Goto, Stop, api, records, external, command
<1>41. CASE SubmitterDies(a)
  BY <1>41 DEF TypeOK, Same, Active, SubmitterDies, Goto, Stop, api, records, external, command
<1> QED BY <1>1, <1>2, <1>3, <1>4, <1>5, <1>6, <1>7, <1>8, <1>9, <1>10, <1>11, <1>12, <1>13, <1>14, <1>15, <1>16, <1>17, <1>18, <1>19, <1>20, <1>21, <1>22, <1>23, <1>24, <1>25, <1>26, <1>27, <1>28, <1>29, <1>30, <1>31, <1>32, <1>33, <1>34, <1>35, <1>36, <1>37, <1>38, <1>39, <1>40, <1>41 DEF Step

\* ... and takes no Lease from it: a deletion by name follows a verification
\* that nobody can invalidate, all others carry the UID.
LEMMA OthersKeepLeases ==
    ASSUME Ownership, NEW a \in Attempts, NEW b \in Attempts, a # b, Step(a)
    PROVE  \A c \in Claims : lease[c] = b => lease'[c] = b
<1>0. TypeOK /\ Good(a)
  BY DEF Ownership
<1>1. CASE CreateLease(a)
  BY <1>0, <1>1, FreeAssumption DEF CreateLease, TypeOK
<1>2. CASE EraseOwned(a)
  BY <1>0, <1>2 DEF EraseOwned, TypeOK, Good
<1>3. CASE DeleteLease(a)
  BY <1>0, <1>3 DEF DeleteLease, TypeOK
<1>4. CASE lease' = lease
  BY <1>4
<1>5. Step(a) => CreateLease(a) \/ EraseOwned(a) \/ DeleteLease(a) \/ lease' = lease
  <2>1. Prepare(a) => lease' = lease
    BY DEF Prepare, api
  <2>2. WriteIntent(a) => lease' = lease
    BY DEF WriteIntent, api
  <2>3. ObserveLease(a) => lease' = lease
    BY DEF ObserveLease, api
  <2>4. JournalLease(a) => lease' = lease
    BY DEF JournalLease, api
  <2>5. ClearIntent(a) => lease' = lease
    BY DEF ClearIntent, api
  <2>6. ReserveTrees(a) => lease' = lease
    BY DEF ReserveTrees, api
  <2>7. StartWorkers(a) => lease' = lease
    BY DEF StartWorkers, api, CreateObjects
  <2>8. Submit(a) => lease' = lease
    BY DEF Submit, api
  <2>9. UploadBundle(a) => lease' = lease
    BY DEF UploadBundle, api
  <2>10. CreateJobs(a) => lease' = lease
    BY DEF CreateJobs, api, CreateObjects
  <2>11. Commit(a) => lease' = lease
    BY DEF Commit, api
  <2>12. CommitFails(a) => lease' = lease
    BY DEF CommitFails, api
  <2>13. PhaseFails(a) => lease' = lease
    BY DEF PhaseFails, api
  <2>14. Recover(a) => lease' = lease
    BY DEF Recover, api
  <2>15. Quiesce(a) => lease' = lease
    BY DEF Quiesce, api
  <2>16. ReleaseTrees(a) => lease' = lease
    BY DEF ReleaseTrees, api
  <2>17. SweepAnyway(a) => lease' = lease
    BY DEF SweepAnyway, api
  <2>18. Sweep(a) => lease' = lease
    BY DEF Sweep, api
  <2>19. Release(a) => lease' = lease
    BY DEF Release, api
  <2>20. Probe(a) => lease' = lease
    BY DEF Probe, api
  <2>21. Recheck(a) => lease' = lease
    BY DEF Recheck, api
  <2>22. Identify(a) => lease' = lease
    BY DEF Identify, api
  <2>23. VerifyOwned(a) => lease' = lease
    BY DEF VerifyOwned, api
  <2>24. SeeGone(a) => lease' = lease
    BY DEF SeeGone, api
  <2>25. DropIntent(a) => lease' = lease
    BY DEF DropIntent, api
  <2>26. SeeLease(a) => lease' = lease
    BY DEF SeeLease, api
  <2>27. VerifyLease(a) => lease' = lease
    BY DEF VerifyLease, api
  <2>28. ConfirmGone(a) => lease' = lease
    BY DEF ConfirmGone, api
  <2>29. MarkReleased(a) => lease' = lease
    BY DEF MarkReleased, api
  <2>30. End(a) => lease' = lease
    BY DEF End, api
  <2>31. Collect(a) => lease' = lease
    BY DEF Collect, api
  <2>32. CollectGate(a) => lease' = lease
    BY DEF CollectGate, api
  <2>33. CollectStream(a) => lease' = lease
    BY DEF CollectStream, api
  <2>34. CollectImport(a) => lease' = lease
    BY DEF CollectImport, api
  <2>35. CollectAgain(a) => lease' = lease
    BY DEF CollectAgain, api
  <2>36. Reconcile(a) => lease' = lease
    BY DEF Reconcile, api
  <2>37. Die(a) => lease' = lease
    BY DEF Die, api
  <2>38. SubmitterDies(a) => lease' = lease
    BY DEF SubmitterDies, api
  <2> QED BY <2>1, <2>2, <2>3, <2>4, <2>5, <2>6, <2>7, <2>8, <2>9, <2>10, <2>11, <2>12, <2>13, <2>14, <2>15, <2>16, <2>17, <2>18, <2>19, <2>20, <2>21, <2>22, <2>23, <2>24, <2>25, <2>26, <2>27, <2>28, <2>29, <2>30, <2>31, <2>32, <2>33, <2>34, <2>35, <2>36, <2>37, <2>38 DEF Step
<1> QED BY <1>1, <1>2, <1>3, <1>4, <1>5

\* A step that moves on without touching Leases, journal or workload.
LEMMA MovingOn ==
    ASSUME NEW a \in Attempts, Good(a), at[a] # "idle",
           UNCHANGED <<lease, journal, state, trees, objects, late, gap>>,
           at'[a] \notin BusySteps \union {"sweep"},
           at'[a] \in ReleaseSteps => at[a] \in ReleaseSteps,
           at'[a] \in IntentSteps => claim'[a] \notin journal[a],
           at'[a] \in {"see", "verify", "delete"} => claim'[a] \in journal[a],
           at'[a] = "erase" => lease[claim'[a]] = a
    PROVE  Good(a)' /\ (Retired(a) => Retired(a)')
<1>1. (Active(a)' <=> Active(a)) /\ (Holding(a)' <=> Holding(a))
  BY DEF Active, Holding
<1>2. Retired(a) => Retired(a)'
  BY <1>1 DEF Retired
<1>3. state[a] # "NEW"
  BY DEF Good
<1> QED BY <1>1, <1>2, <1>3 DEF Good, BusySteps, AcquireSteps

\* A step of an attempt keeps what is known of it, and it stays retired.
LEMMA OwnStep ==
    ASSUME TypeOK, ~NameDeletesLinger, NEW a \in Attempts, Good(a), Step(a)
    PROVE  Good(a)' /\ (Retired(a) => Retired(a)')
<1>0. /\ Uses[a] \subseteq Claims
      /\ First(a) \in Uses[a] /\ Last(a) \in Uses[a] /\ \A d \in Uses[a] : First(a) <= d
  BY UsesAssumption, LeastIsLowest, GreatestIsHighest DEF First, Last, Claims
<1>1. CASE Prepare(a)
  <2>1. /\ state[a] = "NEW" /\ state'[a] = "PREPARED" /\ at'[a] = "intent" /\ claim'[a] = First(a)
        /\ UNCHANGED <<lease, journal, trees, late, gap>>
    BY <1>1 DEF TypeOK, Prepare, Goto, Stop, api, records, external, command
  <2>2. ~Active(a) /\ (Active(a)' <=> Active(a))
    BY <1>1, <2>1 DEF Good, Active, Workloads, Prepare
  <2>3. \A d \in Uses[a] : d \in Int /\ First(a) <= d
    BY <1>0 DEF Claims
  <2>4. Earlier(a, First(a)) = {}
    BY <1>0, <2>3 DEF Earlier
  <2> QED BY <2>1, <2>2, <2>4 DEF Good, Retired, AcquireSteps, ReleaseSteps, IntentSteps
<1>2. CASE WriteIntent(a)
  BY <1>0, <1>2, FreeAssumption DEF TypeOK, Good, Retired, Holding, Active, BusySteps, AcquireSteps, ReleaseSteps, IntentSteps, WriteIntent, Goto, Stop, api, records, external, command, Record
<1>3. CASE CreateLease(a)
  BY <1>0, <1>3, FreeAssumption DEF TypeOK, Good, Retired, Holding, Active, BusySteps, AcquireSteps, ReleaseSteps, IntentSteps, CreateLease, Goto, Stop, api, records, external, command
<1>4. CASE ObserveLease(a)
  <2>1. at[a] = "observe" /\ UNCHANGED <<lease, journal, state, trees, objects, late, gap>>
    BY <1>4 DEF ObserveLease, Goto, Stop, api, records, external, command, Erase
  <2>2. (Active(a)' <=> Active(a)) /\ (Holding(a)' <=> Holding(a)) /\ ~Retired(a) /\ state[a] # "NEW"
    BY <2>1 DEF Active, Holding, Retired, BusySteps, AcquireSteps, Good
  <2>3. CASE lease[claim[a]] = a
    <3>1. at'[a] = "journal" /\ claim'[a] = claim[a]
      BY <1>4, <2>3 DEF TypeOK, ObserveLease, Goto
    <3>2. \A e \in Earlier(a, claim[a]) : e \in journal[a] /\ lease[e] = a
      BY <2>1 DEF Good, AcquireSteps
    <3> QED BY <2>1, <2>2, <2>3, <3>1, <3>2 DEF Good, AcquireSteps, ReleaseSteps, IntentSteps
  <2>4. CASE lease[claim[a]] # a
    <3>1. at'[a] = "quiesce"
      BY <1>4, <2>4 DEF TypeOK, ObserveLease, Goto
    <3> QED BY <2>1, <2>2, <3>1 DEF Good, AcquireSteps, ReleaseSteps, IntentSteps
  <2> QED BY <2>3, <2>4
<1>5. CASE JournalLease(a)
  BY <1>0, <1>5, FreeAssumption DEF TypeOK, Good, Retired, Holding, Active, BusySteps, AcquireSteps, ReleaseSteps, IntentSteps, JournalLease, Goto, Stop, api, records, external, command, Record
<1>6. CASE ClearIntent(a)
  <2>1. /\ state[a] # "NEW" /\ claim[a] \in journal[a] /\ lease[claim[a]] = a
        /\ at[a] = "clear" /\ claim[a] \in Uses[a] /\ claim[a] \in Int
        /\ UNCHANGED <<lease, journal, state, trees, objects, late, gap>>
    BY <1>0, <1>6 DEF Good, TypeOK, AtClaim, AcquireSteps, Claims, ClearIntent, Goto, Stop, api, records, external, command, Upwards
  <2>2. (Active(a)' <=> Active(a)) /\ (Holding(a)' <=> Holding(a)) /\ ~Retired(a)
    BY <2>1 DEF Active, Holding, Retired, BusySteps, AcquireSteps
  <2>3. \A d \in Earlier(a, claim[a]) : d \in journal[a] /\ lease[d] = a
    BY <2>1 DEF Good, AcquireSteps
  <2>4. CASE Later(a, claim[a]) = {}
    <3>1. \A d \in Uses[a] : d \in Earlier(a, claim[a]) \/ d = claim[a]
      BY <1>0, <2>1, <2>4 DEF Earlier, Later, Claims
    <3>2. Holding(a) /\ at'[a] = "reserve"
      BY <1>6, <2>1, <2>3, <2>4, <3>1 DEF Holding, TypeOK, ClearIntent, Goto, Stop, api, records, external, command, Upwards
    <3> QED BY <2>1, <2>2, <3>2 DEF Good, AcquireSteps, ReleaseSteps, IntentSteps
  <2>5. CASE Later(a, claim[a]) # {}
    <3> DEFINE m == Least(Later(a, claim[a]))
    <3>1. Later(a, claim[a]) \subseteq Claims
      BY <1>0 DEF Later
    <3>2. m \in Later(a, claim[a]) /\ \A d \in Later(a, claim[a]) : m <= d
      BY <2>5, <3>1, LeastIsLowest DEF Claims
    <3>3. at'[a] = "intent" /\ claim'[a] = m
      BY <1>6, <2>5 DEF TypeOK, ClearIntent, Goto, Stop, api, records, external, command, Upwards
    <3>4. m \in Int /\ \A d \in Uses[a] : d \in Int
      BY <1>0, <3>1, <3>2 DEF Claims
    <3>5. \A d \in Earlier(a, m) : d \in Earlier(a, claim[a]) \/ d = claim[a]
      BY <2>1, <3>2, <3>4 DEF Earlier, Later
    <3>6. \A d \in Earlier(a, m) : d \in journal[a] /\ lease[d] = a
      BY <2>1, <2>3, <3>5
    <3> HIDE DEF m
    <3> QED BY <2>1, <2>2, <3>3, <3>6 DEF Good, AcquireSteps, ReleaseSteps, IntentSteps
  <2> QED BY <2>4, <2>5
<1>7. CASE ReserveTrees(a)
  BY <1>0, <1>7, FreeAssumption DEF TypeOK, Good, Retired, Holding, Active, BusySteps, AcquireSteps, ReleaseSteps, IntentSteps, ReserveTrees, Goto, Stop, api, records, external, command
<1>8. CASE StartWorkers(a)
  BY <1>0, <1>8, FreeAssumption DEF TypeOK, Good, Retired, Holding, Active, BusySteps, AcquireSteps, ReleaseSteps, IntentSteps, StartWorkers, Goto, Stop, api, records, external, command, CreateObjects
<1>9. CASE Submit(a)
  BY <1>0, <1>9, FreeAssumption DEF TypeOK, Good, Retired, Holding, Active, BusySteps, AcquireSteps, ReleaseSteps, IntentSteps, Submit, Goto, Stop, api, records, external, command
<1>10. CASE UploadBundle(a)
  <2>1. /\ state[a] # "NEW" /\ UNCHANGED <<lease, journal, state, trees, late, gap>>
        /\ \/ at'[a] = "jobs" /\ a \in trees
           \/ at'[a] = "quiesce"
    BY <1>10 DEF Good, TypeOK, UploadBundle, Goto, Stop, api, records, external, command
  <2>2. Active(a)' <=> Active(a)
    BY <1>10, <2>1 DEF Active, Workloads, UploadBundle
  <2>3. Holding(a)' <=> Holding(a)
    BY <2>1 DEF Holding
  <2>4. Retired(a) => Retired(a)'
    BY <2>1, <2>2 DEF Retired, Active, BusySteps, AcquireSteps
  <2> QED BY <2>1, <2>2, <2>3, <2>4 DEF Good, AcquireSteps, ReleaseSteps, IntentSteps
<1>11. CASE CreateJobs(a)
  BY <1>0, <1>11, FreeAssumption DEF TypeOK, Good, Retired, Holding, Active, BusySteps, AcquireSteps, ReleaseSteps, IntentSteps, CreateJobs, Goto, Stop, api, records, external, command, CreateObjects
<1>12. CASE Commit(a)
  BY <1>0, <1>12, FreeAssumption DEF TypeOK, Good, Retired, Holding, Active, BusySteps, AcquireSteps, ReleaseSteps, IntentSteps, Commit, Goto, Stop, api, records, external, command
<1>13. CASE CommitFails(a)
  BY <1>0, <1>13, FreeAssumption DEF TypeOK, Good, Retired, Holding, Active, BusySteps, AcquireSteps, ReleaseSteps, IntentSteps, CommitFails, Goto, Stop, api, records, external, command
<1>14. CASE PhaseFails(a)
  BY <1>0, <1>14, FreeAssumption DEF TypeOK, Good, Retired, Holding, Active, BusySteps, AcquireSteps, ReleaseSteps, IntentSteps, PhaseFails, Goto, Stop, api, records, external, command
<1>15. CASE Recover(a)
  BY <1>0, <1>15, FreeAssumption DEF TypeOK, Good, Retired, Holding, Active, BusySteps, AcquireSteps, ReleaseSteps, IntentSteps, Recover, Goto, Stop, api, records, external, command
<1>16. CASE Quiesce(a)
  BY <1>0, <1>16, FreeAssumption DEF TypeOK, Good, Retired, Holding, Active, BusySteps, AcquireSteps, ReleaseSteps, IntentSteps, Quiesce, Goto, Stop, api, records, external, command
<1>17. CASE ReleaseTrees(a)
  BY <1>0, <1>17, FreeAssumption DEF TypeOK, Good, Retired, Holding, Active, BusySteps, AcquireSteps, ReleaseSteps, IntentSteps, ReleaseTrees, Goto, Stop, api, records, external, command
<1>18. CASE SweepAnyway(a)
  BY <1>0, <1>18, FreeAssumption DEF TypeOK, Good, Retired, Holding, Active, BusySteps, AcquireSteps, ReleaseSteps, IntentSteps, SweepAnyway, Goto, Stop, api, records, external, command
<1>19. CASE Sweep(a)
  <2>1. /\ state[a] # "NEW" /\ at'[a] = "release" /\ a \notin trees /\ trees' = trees /\ state' = state
    BY <1>19 DEF Good, TypeOK, Sweep, Goto, Stop, api, records, external, command
  <2>2. \A k \in Workloads : k \in Kinds /\ <<a, k>> \notin late' /\ <<a, k>> \notin objects'
    BY <1>19 DEF Sweep, NothingLate, Workloads, Kinds
  <2>3. ~Active(a)'
    BY <2>1, <2>2 DEF Active
  <2>4. Retired(a)'
    BY <2>1, <2>3 DEF Retired, BusySteps, AcquireSteps
  <2> QED BY <2>1, <2>3, <2>4 DEF Good, AcquireSteps, IntentSteps
<1>20. CASE Release(a)
  <2>1. at[a] = "release" /\ UNCHANGED <<lease, journal, state, trees, objects, late, gap>>
    BY <1>20 DEF Release, Goto, Stop, api, records, external, command, Downwards, Erase
  <2>2. at[a] # "idle" /\ at[a] \in ReleaseSteps
    BY <2>1 DEF ReleaseSteps
  <2>3. CASE claim[a] \in released[a]
    <3>1. at'[a] \in {"release", "end"}
      BY <1>20, <2>3 DEF TypeOK, Release, Downwards, Goto
    <3> QED BY <2>1, <2>2, <3>1, MovingOn DEF BusySteps, AcquireSteps, IntentSteps
  <2>4. CASE claim[a] \notin released[a] /\ claim[a] \in journal[a]
    <3>1. at'[a] = "see" /\ claim'[a] = claim[a]
      BY <1>20, <2>4 DEF TypeOK, Release, Goto
    <3> QED BY <2>1, <2>2, <2>4, <3>1, MovingOn DEF BusySteps, AcquireSteps, IntentSteps
  <2>5. CASE claim[a] \notin released[a] /\ claim[a] \notin journal[a]
    <3>1. at'[a] \in {"probe", "mark"} /\ claim'[a] = claim[a]
      BY <1>20, <2>5 DEF TypeOK, Release, Goto
    <3> QED BY <2>1, <2>2, <2>5, <3>1, MovingOn DEF BusySteps, AcquireSteps, IntentSteps
  <2> QED BY <2>3, <2>4, <2>5
<1>21. CASE Probe(a)
  BY <1>0, <1>21, FreeAssumption DEF TypeOK, Good, Retired, Holding, Active, BusySteps, AcquireSteps, ReleaseSteps, IntentSteps, Probe, Goto, Stop, api, records, external, command
<1>22. CASE Recheck(a)
  <2>1. claim[a] \notin journal[a] /\ claim'[a] = claim[a] /\ at'[a] \in {"unintent", "identify"}
    BY <1>0, <1>22 DEF Good, TypeOK, IntentSteps, Recheck, Goto, Stop, api, records, external, command, Record
  <2>2. at[a] # "idle" /\ UNCHANGED <<lease, journal, state, trees, objects, late, gap>>
    BY <1>22 DEF Recheck, Goto, Stop, api, records, external, command, Record
  <2>3. at'[a] \notin BusySteps \union {"sweep"} /\ (at'[a] \in ReleaseSteps => at[a] \in ReleaseSteps)
    BY <1>22, <2>1 DEF BusySteps, AcquireSteps, ReleaseSteps, Recheck
  <2> QED BY <2>1, <2>2, <2>3, MovingOn DEF IntentSteps
<1>23. CASE Identify(a)
  <2>1. claim[a] \notin journal[a] /\ (\/ at'[a] = "owned" /\ claim'[a] = claim[a]
           \/ at'[a] = "idle")
    BY <1>0, <1>23 DEF Good, TypeOK, IntentSteps, Identify, Goto, Stop, api, records, external, command
  <2>2. at[a] # "idle" /\ UNCHANGED <<lease, journal, state, trees, objects, late, gap>>
    BY <1>23 DEF Identify, Goto, Stop, api, records, external, command
  <2>3. at'[a] \notin BusySteps \union {"sweep"} /\ (at'[a] \in ReleaseSteps => at[a] \in ReleaseSteps)
    BY <1>23, <2>1 DEF BusySteps, AcquireSteps, ReleaseSteps, Identify
  <2> QED BY <2>1, <2>2, <2>3, MovingOn DEF IntentSteps
<1>24. CASE VerifyOwned(a)
  <2>1. claim[a] \notin journal[a]
    BY <1>24 DEF Good, IntentSteps, VerifyOwned
  <2>2. claim'[a] = claim[a] /\ (at'[a] = "gone" \/ (at'[a] = "erase" /\ lease[claim[a]] = a))
    BY <1>24 DEF TypeOK, VerifyOwned, Goto
  <2>3. at[a] = "owned" /\ UNCHANGED <<lease, journal, state, trees, objects, late, gap>>
    BY <1>24 DEF VerifyOwned, Goto, Stop, api, records, external, command
  <2>4. at'[a] \notin BusySteps \union {"sweep"} /\ at[a] \in ReleaseSteps
    BY <2>2, <2>3 DEF BusySteps, AcquireSteps, ReleaseSteps
  <2> QED BY <2>1, <2>2, <2>3, <2>4, MovingOn DEF IntentSteps
<1>25. CASE SeeGone(a)
  <2>1. claim[a] \notin journal[a] /\ (\/ at'[a] = "unintent" /\ claim'[a] = claim[a]
           \/ at'[a] = "idle")
    BY <1>0, <1>25 DEF Good, TypeOK, IntentSteps, SeeGone, Goto, Stop, api, records, external, command
  <2>2. at[a] # "idle" /\ UNCHANGED <<lease, journal, state, trees, objects, late, gap>>
    BY <1>25 DEF SeeGone, Goto, Stop, api, records, external, command
  <2>3. at'[a] \notin BusySteps \union {"sweep"} /\ (at'[a] \in ReleaseSteps => at[a] \in ReleaseSteps)
    BY <1>25, <2>1 DEF BusySteps, AcquireSteps, ReleaseSteps, SeeGone
  <2> QED BY <2>1, <2>2, <2>3, MovingOn DEF IntentSteps
<1>26. CASE EraseOwned(a)
  <2>1. /\ state[a] # "NEW" /\ claim[a] \notin journal[a] /\ Retired(a)
        /\ UNCHANGED <<journal, state, trees, objects, late, gap>>
        /\ \/ at'[a] = "unintent" /\ claim'[a] = claim[a]
           \/ at'[a] = "idle"
    BY <1>26 DEF Good, TypeOK, IntentSteps, ReleaseSteps, EraseOwned, Goto, Stop, api, records, external, command
  <2>2. Active(a)' <=> Active(a)
    BY <2>1 DEF Active
  <2>3. Retired(a)'
    BY <2>1, <2>2 DEF Retired, BusySteps, AcquireSteps
  <2> QED BY <2>1, <2>2, <2>3 DEF Good, Retired, AcquireSteps, IntentSteps
<1>27. CASE DropIntent(a)
  BY <1>0, <1>27, FreeAssumption DEF TypeOK, Good, Retired, Holding, Active, BusySteps, AcquireSteps, ReleaseSteps, IntentSteps, DropIntent, Goto, Stop, api, records, external, command, Erase
<1>28. CASE SeeLease(a)
  BY <1>0, <1>28, FreeAssumption DEF TypeOK, Good, Retired, Holding, Active, BusySteps, AcquireSteps, ReleaseSteps, IntentSteps, SeeLease, Goto, Stop, api, records, external, command
<1>29. CASE VerifyLease(a)
  <2>1. claim[a] \in journal[a] /\ (\/ at'[a] = "delete" /\ claim'[a] = claim[a]
           \/ at'[a] \in {"idle"})
    BY <1>0, <1>29 DEF Good, TypeOK, IntentSteps, VerifyLease, Goto, Stop, api, records, external, command
  <2>2. at[a] # "idle" /\ UNCHANGED <<lease, journal, state, trees, objects, late, gap>>
    BY <1>29 DEF VerifyLease, Goto, Stop, api, records, external, command
  <2>3. at'[a] \notin BusySteps \union {"sweep"} /\ (at'[a] \in ReleaseSteps => at[a] \in ReleaseSteps)
    BY <1>29, <2>1 DEF BusySteps, AcquireSteps, ReleaseSteps, VerifyLease
  <2> QED BY <2>1, <2>2, <2>3, MovingOn DEF IntentSteps
<1>30. CASE DeleteLease(a)
  BY <1>0, <1>30, FreeAssumption DEF TypeOK, Good, Retired, Holding, Active, BusySteps, AcquireSteps, ReleaseSteps, IntentSteps, DeleteLease, Goto, Stop, api, records, external, command
<1>31. CASE ConfirmGone(a)
  <2>1. at'[a] \in {"idle", "mark"}
    BY <1>0, <1>31 DEF Good, TypeOK, IntentSteps, ConfirmGone, Goto, Stop, api, records, external, command
  <2>2. at[a] # "idle" /\ UNCHANGED <<lease, journal, state, trees, objects, late, gap>>
    BY <1>31 DEF ConfirmGone, Goto, Stop, api, records, external, command
  <2>3. at'[a] \notin BusySteps \union {"sweep"} /\ (at'[a] \in ReleaseSteps => at[a] \in ReleaseSteps)
    BY <1>31, <2>1 DEF BusySteps, AcquireSteps, ReleaseSteps, ConfirmGone
  <2> QED BY <2>1, <2>2, <2>3, MovingOn DEF IntentSteps
<1>32. CASE MarkReleased(a)
  <2>1. at'[a] \in {"release", "end"}
    BY <1>0, <1>32 DEF Good, TypeOK, IntentSteps, MarkReleased, Goto, Stop, api, records, external, command, Record, Downwards
  <2>2. at[a] # "idle" /\ UNCHANGED <<lease, journal, state, trees, objects, late, gap>>
    BY <1>32 DEF MarkReleased, Goto, Stop, api, records, external, command, Record, Downwards
  <2>3. at'[a] \notin BusySteps \union {"sweep"} /\ (at'[a] \in ReleaseSteps => at[a] \in ReleaseSteps)
    BY <1>32, <2>1 DEF BusySteps, AcquireSteps, ReleaseSteps, MarkReleased
  <2> QED BY <2>1, <2>2, <2>3, MovingOn DEF IntentSteps
<1>33. CASE End(a)
  BY <1>0, <1>33, FreeAssumption DEF TypeOK, Good, Retired, Holding, Active, BusySteps, AcquireSteps, ReleaseSteps, IntentSteps, End, Goto, Stop, api, records, external, command
<1>34. CASE Collect(a)
  BY <1>0, <1>34, FreeAssumption DEF TypeOK, Good, Retired, Holding, Active, BusySteps, AcquireSteps, ReleaseSteps, IntentSteps, Collect, Goto, Stop, api, records, external, command
<1>35. CASE CollectGate(a)
  BY <1>0, <1>35, FreeAssumption DEF TypeOK, Good, Retired, Holding, Active, BusySteps, AcquireSteps, ReleaseSteps, IntentSteps, CollectGate, Goto, Stop, api, records, external, command
<1>36. CASE CollectStream(a)
  BY <1>0, <1>36, FreeAssumption DEF TypeOK, Good, Retired, Holding, Active, BusySteps, AcquireSteps, ReleaseSteps, IntentSteps, CollectStream, Goto, Stop, api, records, external, command
<1>37. CASE CollectImport(a)
  BY <1>0, <1>37, FreeAssumption DEF TypeOK, Good, Retired, Holding, Active, BusySteps, AcquireSteps, ReleaseSteps, IntentSteps, CollectImport, Goto, Stop, api, records, external, command
<1>38. CASE CollectAgain(a)
  BY <1>0, <1>38, FreeAssumption DEF TypeOK, Good, Retired, Holding, Active, BusySteps, AcquireSteps, ReleaseSteps, IntentSteps, CollectAgain, Goto, Stop, api, records, external, command
<1>39. CASE Reconcile(a)
  <2>1. at'[a] \in {"reconcile", "gate", "end", "untree", "idle"}
    BY <1>0, <1>39 DEF Good, TypeOK, IntentSteps, Reconcile, Goto, Stop, api, records, external, command, Record, Downwards, ResumeStep
  <2>2. at[a] # "idle" /\ UNCHANGED <<lease, journal, state, trees, objects, late, gap>>
    BY <1>39 DEF Reconcile, Goto, Stop, api, records, external, command, Record, Downwards, ResumeStep
  <2>3. at'[a] \notin BusySteps \union {"sweep"} /\ (at'[a] \in ReleaseSteps => at[a] \in ReleaseSteps)
    BY <1>39, <2>1 DEF BusySteps, AcquireSteps, ReleaseSteps, Reconcile
  <2> QED BY <2>1, <2>2, <2>3, MovingOn DEF IntentSteps
<1>40. CASE Die(a)
  BY <1>0, <1>40, FreeAssumption DEF TypeOK, Good, Retired, Holding, Active, BusySteps, AcquireSteps, ReleaseSteps, IntentSteps, Die, Goto, Stop, api, records, external, command
<1>41. CASE SubmitterDies(a)
  BY <1>0, <1>41, FreeAssumption DEF TypeOK, Good, Retired, Holding, Active, BusySteps, AcquireSteps, ReleaseSteps, IntentSteps, SubmitterDies, Goto, Stop, api, records, external, command
<1> QED BY <1>1, <1>2, <1>3, <1>4, <1>5, <1>6, <1>7, <1>8, <1>9, <1>10, <1>11, <1>12, <1>13, <1>14, <1>15, <1>16, <1>17, <1>18, <1>19, <1>20, <1>21, <1>22, <1>23, <1>24, <1>25, <1>26, <1>27, <1>28, <1>29, <1>30, <1>31, <1>32, <1>33, <1>34, <1>35, <1>36, <1>37, <1>38, <1>39, <1>40, <1>41 DEF Step

\* The journals only grow, and a deletion is left behind only of a journaled
\* Lease of a retired attempt.
LEMMA StepDeletes ==
    ASSUME TypeOK, ~NameDeletesLinger, NEW a \in Attempts, Good(a), Step(a)
    PROVE  /\ \A b \in Attempts : journal[b] \subseteq journal'[b]
           /\ \A e \in deletes' : \/ e \in deletes
                                  \/ e = <<a, claim[a], "uid">> /\ claim[a] \in journal[a] /\ Retired(a)
<1>1. CASE JournalLease(a)
  BY <1>1 DEF JournalLease, Record, TypeOK, api
<1>2. CASE EraseOwned(a)
  BY <1>2 DEF EraseOwned, records
<1>3. CASE DeleteLease(a)
  <2>1. claim[a] \in journal[a] /\ Retired(a) /\ journal' = journal
    BY <1>3 DEF DeleteLease, Good, ReleaseSteps, records
  <2> QED BY <1>3, <2>1 DEF DeleteLease
<1>4. CASE journal' = journal /\ deletes' = deletes
  BY <1>4
<1>5. Step(a) => \/ JournalLease(a) \/ EraseOwned(a) \/ DeleteLease(a)
                 \/ journal' = journal /\ deletes' = deletes
  <2>1. Prepare(a) => journal' = journal /\ deletes' = deletes
    BY DEF Prepare, api, records
  <2>2. WriteIntent(a) => journal' = journal /\ deletes' = deletes
    BY DEF WriteIntent, api, records
  <2>3. CreateLease(a) => journal' = journal /\ deletes' = deletes
    BY DEF CreateLease, api, records
  <2>4. ObserveLease(a) => journal' = journal /\ deletes' = deletes
    BY DEF ObserveLease, api, records
  <2>5. ClearIntent(a) => journal' = journal /\ deletes' = deletes
    BY DEF ClearIntent, api, records
  <2>6. ReserveTrees(a) => journal' = journal /\ deletes' = deletes
    BY DEF ReserveTrees, api, records
  <2>7. StartWorkers(a) => journal' = journal /\ deletes' = deletes
    BY DEF StartWorkers, api, records, CreateObjects
  <2>8. Submit(a) => journal' = journal /\ deletes' = deletes
    BY DEF Submit, api, records
  <2>9. UploadBundle(a) => journal' = journal /\ deletes' = deletes
    BY DEF UploadBundle, api, records
  <2>10. CreateJobs(a) => journal' = journal /\ deletes' = deletes
    BY DEF CreateJobs, api, records, CreateObjects
  <2>11. Commit(a) => journal' = journal /\ deletes' = deletes
    BY DEF Commit, api, records
  <2>12. CommitFails(a) => journal' = journal /\ deletes' = deletes
    BY DEF CommitFails, api, records
  <2>13. PhaseFails(a) => journal' = journal /\ deletes' = deletes
    BY DEF PhaseFails, api, records
  <2>14. Recover(a) => journal' = journal /\ deletes' = deletes
    BY DEF Recover, api, records
  <2>15. Quiesce(a) => journal' = journal /\ deletes' = deletes
    BY DEF Quiesce, api, records
  <2>16. ReleaseTrees(a) => journal' = journal /\ deletes' = deletes
    BY DEF ReleaseTrees, api, records
  <2>17. SweepAnyway(a) => journal' = journal /\ deletes' = deletes
    BY DEF SweepAnyway, api, records
  <2>18. Sweep(a) => journal' = journal /\ deletes' = deletes
    BY DEF Sweep, api, records
  <2>19. Release(a) => journal' = journal /\ deletes' = deletes
    BY DEF Release, api, records
  <2>20. Probe(a) => journal' = journal /\ deletes' = deletes
    BY DEF Probe, api, records
  <2>21. Recheck(a) => journal' = journal /\ deletes' = deletes
    BY DEF Recheck, api, records
  <2>22. Identify(a) => journal' = journal /\ deletes' = deletes
    BY DEF Identify, api, records
  <2>23. VerifyOwned(a) => journal' = journal /\ deletes' = deletes
    BY DEF VerifyOwned, api, records
  <2>24. SeeGone(a) => journal' = journal /\ deletes' = deletes
    BY DEF SeeGone, api, records
  <2>25. DropIntent(a) => journal' = journal /\ deletes' = deletes
    BY DEF DropIntent, api, records
  <2>26. SeeLease(a) => journal' = journal /\ deletes' = deletes
    BY DEF SeeLease, api, records
  <2>27. VerifyLease(a) => journal' = journal /\ deletes' = deletes
    BY DEF VerifyLease, api, records
  <2>28. ConfirmGone(a) => journal' = journal /\ deletes' = deletes
    BY DEF ConfirmGone, api, records
  <2>29. MarkReleased(a) => journal' = journal /\ deletes' = deletes
    BY DEF MarkReleased, api, records
  <2>30. End(a) => journal' = journal /\ deletes' = deletes
    BY DEF End, api, records
  <2>31. Collect(a) => journal' = journal /\ deletes' = deletes
    BY DEF Collect, api, records
  <2>32. CollectGate(a) => journal' = journal /\ deletes' = deletes
    BY DEF CollectGate, api, records
  <2>33. CollectStream(a) => journal' = journal /\ deletes' = deletes
    BY DEF CollectStream, api, records
  <2>34. CollectImport(a) => journal' = journal /\ deletes' = deletes
    BY DEF CollectImport, api, records
  <2>35. CollectAgain(a) => journal' = journal /\ deletes' = deletes
    BY DEF CollectAgain, api, records
  <2>36. Reconcile(a) => journal' = journal /\ deletes' = deletes
    BY DEF Reconcile, api, records
  <2>37. Die(a) => journal' = journal /\ deletes' = deletes
    BY DEF Die, api, records
  <2>38. SubmitterDies(a) => journal' = journal /\ deletes' = deletes
    BY DEF SubmitterDies, api, records
  <2> QED BY <2>1, <2>2, <2>3, <2>4, <2>5, <2>6, <2>7, <2>8, <2>9, <2>10, <2>11, <2>12, <2>13, <2>14, <2>15, <2>16, <2>17, <2>18, <2>19, <2>20, <2>21, <2>22, <2>23, <2>24, <2>25, <2>26, <2>27, <2>28, <2>29, <2>30, <2>31, <2>32, <2>33, <2>34, <2>35, <2>36, <2>37, <2>38 DEF Step
<1> QED BY <1>1, <1>2, <1>3, <1>4, <1>5

\* One step of one attempt.
LEMMA StepOwnership ==
    ASSUME Ownership, ~NameDeletesLinger, NEW a \in Attempts, Step(a)
    PROVE  (\A b \in Attempts : Good(b)') /\ GoodDeletes'
<1>0. TypeOK /\ CommandOK /\ Good(a)
  BY TypeParts DEF Ownership
<1>1. \A b \in Attempts : Good(b)' /\ (Retired(b) => Retired(b)')
  <2> SUFFICES ASSUME NEW b \in Attempts
               PROVE  Good(b)' /\ (Retired(b) => Retired(b)')
    OBVIOUS
  <2>1. CASE b = a
    BY <1>0, <2>1, OwnStep
  <2>2. CASE b # a
    <3>1. Good(b) /\ Same(b) /\ \A c \in Claims : lease[c] = b => lease'[c] = b
      BY <1>0, <2>2, OthersAreSame, OthersKeepLeases DEF Ownership
    <3> QED BY <1>0, <3>1, SameStaysGood
  <2> QED BY <2>1, <2>2
<1>2. GoodDeletes'
  <2> SUFFICES ASSUME NEW b \in Attempts, NEW c \in Claims, NEW how \in {"uid", "name"},
                      <<b, c, how>> \in deletes'
               PROVE  how = "uid" /\ c \in journal'[b] /\ Retired(b)'
    BY DEF GoodDeletes
  <2>1. how = "uid" /\ c \in journal[b] /\ Retired(b)
    BY <1>0, StepDeletes DEF Ownership, GoodDeletes
  <2>2. journal[b] \subseteq journal'[b]
    BY <1>0, StepDeletes
  <2> QED BY <1>1, <2>1, <2>2
<1> QED BY <1>1, <1>2

\* One late arrival.  A deletion finds its sender retired, and no Lease of
\* anybody else.
LEMMA ArrivalOwnership ==
    ASSUME Ownership,
           \/ \E a \in Attempts, k \in Workloads : ObjectArrives(a, k)
           \/ \E a \in Attempts, c \in Claims : CreateArrives(a, c)
           \/ \E a \in Attempts, c \in Claims, how \in {"uid", "name"} : DeleteArrives(a, c, how)
    PROVE  (\A b \in Attempts : Good(b)') /\ GoodDeletes'
<1>0. TypeOK /\ CommandOK /\ \A b \in Attempts : Good(b)
  BY TypeParts DEF Ownership
<1>1. \A b \in Attempts : Same(b)
  BY DEF Same, Active, ObjectArrives, CreateArrives, DeleteArrives, api, records, external, command
<1>2. /\ \A b \in Attempts, c \in Claims, how \in {"uid", "name"} :
            <<b, c, how>> \in deletes' => <<b, c, how>> \in deletes
      /\ journal' = journal
  BY DEF ObjectArrives, CreateArrives, DeleteArrives, api, records
<1>3. \A b \in Attempts : Retired(b) => Retired(b)'
  BY <1>1 DEF Same, Retired
<1>4. GoodDeletes'
  BY <1>2, <1>3 DEF Ownership, GoodDeletes
<1>5. \A b \in Attempts : Good(b)'
  <2> SUFFICES ASSUME NEW b \in Attempts PROVE Good(b)'
    OBVIOUS
  <2>1. CASE \A c \in Claims : lease[c] = b => lease'[c] = b
    BY <1>0, <1>1, <2>1, SameStaysGood
  <2>2. CASE \E c \in Claims : lease[c] = b /\ lease'[c] # b
    <3>1. PICK c \in Claims : lease[c] = b /\ lease'[c] # b
      BY <2>2
    <3>2. PICK x \in Attempts, y \in Claims, how \in {"uid", "name"} : DeleteArrives(x, y, how)
      BY <1>0, <3>1, FreeAssumption DEF ObjectArrives, CreateArrives, TypeOK, api
    <3>3. how = "uid" /\ y \in journal[x] /\ Retired(x)
      BY <3>2 DEF DeleteArrives, Ownership, GoodDeletes
    <3>4. x = b /\ y = c
      BY <1>0, <3>1, <3>2, <3>3 DEF DeleteArrives, TypeOK
    <3>5. Retired(b)' /\ at'[b] \notin BusySteps /\ ~Active(b)' /\ state'[b] # "NEW"
      BY <1>3, <3>3, <3>4 DEF Retired
    <3>6. at'[b] = "erase" => lease'[claim'[b]] = b
      <4>1. SUFFICES ASSUME at'[b] = "erase" PROVE lease'[claim'[b]] = b
        OBVIOUS
      <4>2. claim'[b] = claim[b] /\ claim[b] \notin journal[b] /\ lease[claim[b]] = b
        BY <1>0, <1>1, <4>1 DEF Same, Good, IntentSteps
      <4> QED BY <1>0, <3>2, <3>3, <3>4, <4>2 DEF DeleteArrives, TypeOK
    <3> QED BY <1>0, <1>1, <3>5, <3>6 DEF Good, Same, BusySteps, AcquireSteps
  <2> QED BY <2>1, <2>2
<1> QED BY <1>4, <1>5

\* At the beginning nothing is held and nothing is being deleted.
LEMMA InitOwnership == Init => Ownership
<1> SUFFICES ASSUME Init PROVE Ownership
  OBVIOUS
<1>1. TypeOK
  BY InitTypes
<1>2. \A a \in Attempts : Good(a)
  BY DEF Init, Good, Active, AcquireSteps, ReleaseSteps, IntentSteps
<1>3. GoodDeletes
  BY DEF Init, GoodDeletes
<1> QED BY <1>1, <1>2, <1>3 DEF Ownership

\* Ownership is inductive as long as no deletion by name outlives its command.
LEMMA NextOwnership ==
    ASSUME ~NameDeletesLinger, Ownership, [Next]_vars
    PROVE  Ownership'
<1>1. TypeOK'
  BY NextTypes DEF Ownership
<1>2. (\A b \in Attempts : Good(b)') /\ GoodDeletes'
  <2>1. CASE \E a \in Attempts : Step(a)
    BY <2>1, StepOwnership
  <2>2. CASE Next /\ ~(\E a \in Attempts : Step(a))
    BY <2>2, ArrivalOwnership DEF Next
  <2>3. CASE UNCHANGED vars
    <3>1. TypeOK /\ CommandOK /\ GoodDeletes /\ \A b \in Attempts : Good(b)
      BY TypeParts DEF Ownership
    <3>2. \A b \in Attempts : Same(b) /\ \A c \in Claims : lease[c] = b => lease'[c] = b
      BY <2>3 DEF vars, api, records, external, command, Same, Active
    <3>3. \A b \in Attempts : Good(b)' /\ (Retired(b) => Retired(b)')
      BY <3>1, <3>2, SameStaysGood
    <3>4. deletes' = deletes /\ journal' = journal
      BY <2>3 DEF vars, api, records
    <3> QED BY <3>1, <3>3, <3>4 DEF GoodDeletes
  <2> QED BY <2>1, <2>2, <2>3
<1> QED BY <1>1, <1>2 DEF Ownership

\* Claim ownership, for any number of attempts and claims: as long as every
\* deletion by name takes effect within its command, a run tree, a workload or
\* a possible late workload of an attempt means that the attempt holds the
\* Lease of every claim it uses, through all deaths, failed requests, repeated
\* rollbacks and contention.
THEOREM ClaimsAreHeld ==
    ASSUME ~NameDeletesLinger
    PROVE  Spec => []ClaimsHeld
<1>1. Init => Ownership
  BY InitOwnership
<1>2. Ownership /\ [Next]_vars => Ownership'
  BY NextOwnership
<1>3. Ownership => ClaimsHeld
  BY DEF Ownership, ClaimsHeld, Good, Holding
<1> QED BY <1>1, <1>2, <1>3, PTL DEF Spec

-----------------------------------------------------------------------------
(* The order in which attempts take and give back their claims, what an    *)
(* ended attempt leaves behind, and when a Lease may go.                   *)
(*                                                                         *)
(* None of the three properties is inductive.  That Leases go downwards    *)
(* follows from what the records say, and the records can be trusted only  *)
(* because they are written in the right phase, because a creation is sent *)
(* once, and because a late deletion was sent in the same order.  The      *)
(* invariant names these four: Phases, Logged, Reserved, Undone.           *)

Ended == {"SUBMISSION_FAILED", "COLLECTED"}

\* A creation of a workload was lost.
Pending(a) == \E k \in Workloads : <<a, k>> \in late

\* The Leases may go: the attempt was rolled back, or its results are
\* published.
MayRelease(a) ==
    \/ state[a] \in {"PREPARED", "SUBMISSION_FAILED", "COLLECTED"}
    \/ state[a] = "COLLECTION_IN_PROGRESS" /\ a \in published

\* The claim was not requested yet.
Untouched(a, c) == c \notin journal[a] /\ <<a, c>> \notin creates /\ lease[c] # a

\* Where a command of the attempt can be in each state, and what of its
\* workload exists then.
Phases(a) ==
    /\ at[a] \in AcquireSteps \union {"reserve", "workers"} =>
         state[a] = "PREPARED" /\ a \notin gap
    /\ at[a] \in {"bundle", "jobs", "commit"} =>
         state[a] \in {"PREPARED", "SUBMISSION_FAILED"} /\ a \notin gap
    /\ a \in gap => state[a] \in {"PREPARED", "SUBMISSION_FAILED"}
    /\ at[a] \in UndoSteps \union ReleaseSteps \union {"end"} => MayRelease(a)
    /\ at[a] = "gate" => state[a] \in {"SUBMITTED", "TERMINAL", "COLLECTION_IN_PROGRESS"}
    /\ at[a] = "stream" => state[a] \in {"TERMINAL", "COLLECTION_IN_PROGRESS"}
    /\ at[a] \in {"import", "reconcile"} => state[a] = "COLLECTION_IN_PROGRESS"
    /\ at[a] \in AcquireSteps \union {"reserve", "end"} => ~Active(a)
    /\ at[a] = "workers" => a \in trees
    /\ Pending(a) =>
         state[a] = "PREPARED" /\ a \notin gap /\ at[a] \notin BusySteps \union {"bundle"}
    /\ at[a] \in ReleaseSteps \union {"end"} => <<a, "helper">> \notin objects
    /\ state[a] \in Ended => ~Active(a) /\ <<a, "helper">> \notin objects

\* What the intents and the release records of the attempt say: intents are
\* left by a broken preparation only, and releases go downwards.
Logged(a) ==
    /\ intents[a] \subseteq Uses[a] /\ released[a] \subseteq Uses[a]
    /\ \A c \in released[a] : c \notin intents[a]
    /\ state[a] = "NEW" => intents[a] = {} /\ released[a] = {}
    /\ at[a] \in AcquireSteps \union {"reserve", "workers"} => released[a] = {}
    /\ at[a] \in AcquireSteps => intents[a] \subseteq {claim[a]}
    /\ at[a] \in {"intent", "reserve"} => intents[a] = {}
    /\ Active(a) => intents[a] = {}
    /\ state[a] \in {"SUBMITTED", "TERMINAL", "COLLECTION_IN_PROGRESS"} => intents[a] = {}
    /\ at[a] \in {"see", "verify", "delete", "confirm", "mark"} => claim[a] \notin intents[a]
    /\ at[a] \in ReleaseSteps => Later(a, claim[a]) \subseteq released[a]
    /\ at[a] = "end" => released[a] = Uses[a]
    /\ state[a] \in Ended => released[a] = Uses[a]

\* Which Leases the attempt has, had, and may still get: a creation is sent
\* once, so a journaled Lease that is gone does not come back.
Reserved(a) ==
    /\ journal[a] \subseteq Uses[a]
    /\ state[a] = "NEW" => journal[a] = {} /\ \A c \in Uses[a] : Untouched(a, c)
    /\ at[a] \in AcquireSteps => \A c \in Later(a, claim[a]) : Untouched(a, c)
    /\ at[a] \in {"intent", "create"} => Untouched(a, claim[a])
    /\ \A c \in Claims : <<a, c>> \in creates => c \notin journal[a] /\ lease[c] # a
    /\ \A c \in released[a] : c \in journal[a] => lease[c] # a
    /\ at[a] = "mark" /\ claim[a] \in journal[a] => lease[claim[a]] # a
    /\ \A c, d \in Uses[a] :
          c < d /\ d \in journal[a] /\ lease[d] = a => c \in journal[a] /\ lease[c] = a

\* A deletion that is still under way was sent after everything above it was
\* released, and after the results were published.
Undone(a) ==
    \A c \in Claims : <<a, c, "uid">> \in deletes =>
        Later(a, c) \subseteq released[a] /\ MayRelease(a)

-----------------------------------------------------------------------------
(* The claim loops. *)

\* The release loop visits every claim: what is above its next claim is what
\* was above the last one and that claim.
LEMMA NextBelow ==
    ASSUME NEW a \in Attempts, NEW c \in Uses[a]
    PROVE  /\ Earlier(a, c) = {} => Uses[a] \subseteq Later(a, c) \union {c}
           /\ Earlier(a, c) # {} =>
                /\ Greatest(Earlier(a, c)) \in Uses[a]
                /\ Later(a, Greatest(Earlier(a, c))) \subseteq Later(a, c) \union {c}
           /\ Later(a, Last(a)) = {}
<1>1. Uses[a] \subseteq Claims /\ Uses[a] # {} /\ \A d \in Uses[a] : d \in Int
  BY UsesAssumption DEF Claims
<1>2. Earlier(a, c) \subseteq Claims
  BY <1>1 DEF Earlier
<1>3. Earlier(a, c) = {} => Uses[a] \subseteq Later(a, c) \union {c}
  BY <1>1 DEF Earlier, Later
<1>4. Later(a, Last(a)) = {}
  BY <1>1, GreatestIsHighest DEF Later, Last
<1>5. ASSUME Earlier(a, c) # {}
      PROVE  /\ Greatest(Earlier(a, c)) \in Uses[a]
             /\ Later(a, Greatest(Earlier(a, c))) \subseteq Later(a, c) \union {c}
  <2> DEFINE m == Greatest(Earlier(a, c))
  <2>1. m \in Earlier(a, c) /\ \A d \in Earlier(a, c) : d <= m
    BY <1>2, <1>5, GreatestIsHighest
  <2> HIDE DEF m
  <2>2. m \in Uses[a] /\ m \in Int
    BY <1>1, <2>1 DEF Earlier
  <2>3. ASSUME NEW d \in Uses[a], d > m PROVE d > c \/ d = c
    <3>1. d \notin Earlier(a, c)
      BY <1>1, <2>1, <2>2, <2>3
    <3> QED BY <1>1, <2>3, <3>1 DEF Earlier
  <2>4. Later(a, m) \subseteq Later(a, c) \union {c}
    BY <2>3 DEF Later
  <2> QED BY <2>2, <2>4 DEF m
<1> QED BY <1>3, <1>4, <1>5

\* The preparation loop goes upwards.
LEMMA NextAbove ==
    ASSUME NEW a \in Attempts, NEW c \in Uses[a], Later(a, c) # {}
    PROVE  /\ Least(Later(a, c)) \in Later(a, c)
           /\ Later(a, Least(Later(a, c))) \subseteq Later(a, c)
<1>1. Uses[a] \subseteq Claims /\ \A d \in Uses[a] : d \in Int
  BY UsesAssumption DEF Claims
<1>2. Later(a, c) \subseteq Claims
  BY <1>1 DEF Later
<1> DEFINE m == Least(Later(a, c))
<1>3. m \in Later(a, c)
  BY <1>2, LeastIsLowest
<1> HIDE DEF m
<1>4. Later(a, m) \subseteq Later(a, c)
  BY <1>1, <1>3 DEF Later
<1> QED BY <1>3, <1>4 DEF m

\* Where the end of a loop body goes.
LEMMA GoesDown ==
    ASSUME CommandOK, NEW a \in Attempts, at[a] \in AtClaim, NEW s, NEW t, Downwards(a, s, t)
    PROVE  \/ /\ at'[a] = s /\ claim'[a] \in Uses[a]
              /\ Later(a, claim'[a]) \subseteq Later(a, claim[a]) \union {claim[a]}
           \/ /\ at'[a] = t /\ claim'[a] = 0
              /\ Uses[a] \subseteq Later(a, claim[a]) \union {claim[a]}
<1>1. claim[a] \in Uses[a]
  BY DEF CommandOK
<1>2. CASE Earlier(a, claim[a]) # {}
  <2>1. at'[a] = s /\ claim'[a] = Greatest(Earlier(a, claim[a]))
    BY <1>2 DEF CommandOK, Downwards, Goto
  <2> QED BY <1>1, <1>2, <2>1, NextBelow
<1>3. CASE Earlier(a, claim[a]) = {}
  <2>1. at'[a] = t /\ claim'[a] = 0
    BY <1>3 DEF CommandOK, Downwards, Goto
  <2> QED BY <1>1, <1>3, <2>1, NextBelow
<1> QED BY <1>2, <1>3

\* ... and of the preparation loop.
LEMMA GoesUp ==
    ASSUME CommandOK, NEW a \in Attempts, at[a] \in AtClaim, NEW s, NEW t, Upwards(a, s, t)
    PROVE  \/ /\ at'[a] = s /\ claim'[a] \in Later(a, claim[a])
              /\ Later(a, claim'[a]) \subseteq Later(a, claim[a])
           \/ at'[a] = t /\ claim'[a] = 0
<1>1. claim[a] \in Uses[a]
  BY DEF CommandOK
<1>2. CASE Later(a, claim[a]) # {}
  <2>1. at'[a] = s /\ claim'[a] = Least(Later(a, claim[a]))
    BY <1>2 DEF CommandOK, Upwards, Goto
  <2> QED BY <1>1, <1>2, <2>1, NextAbove
<1>3. CASE Later(a, claim[a]) = {}
  BY <1>3 DEF CommandOK, Upwards, Goto
<1> QED BY <1>2, <1>3

-----------------------------------------------------------------------------
(* A step of the attempt itself. *)

\* The states of the attempt and the steps of its commands agree.
LEMMA OwnPhases ==
    ASSUME TypeOK, NEW a \in Attempts, Good(a), Phases(a), Step(a)
    PROVE  Phases(a)'
<1> USE DEF TypeOK, Good, Phases, MayRelease, Ended, Pending, Retired, Active, BusySteps,
    AcquireSteps, ReleaseSteps, UndoSteps, Workloads, Kinds
<1>1. CASE Prepare(a)
  BY <1>1 DEF Prepare, Goto, api, records
<1>2. CASE WriteIntent(a)
  BY <1>2 DEF WriteIntent, Goto, Record, api, external
<1>3. CASE CreateLease(a)
  BY <1>3 DEF CreateLease, Goto, records, external
<1>4. CASE ObserveLease(a)
  BY <1>4 DEF ObserveLease, Goto, Erase, api, external
<1>5. CASE JournalLease(a)
  BY <1>5 DEF JournalLease, Goto, Record, api, external
<1>6. CASE ClearIntent(a)
  BY <1>6 DEF ClearIntent, Goto, Upwards, Erase, api, external
<1>7. CASE ReserveTrees(a)
  BY <1>7 DEF ReserveTrees, Goto, api, records
<1>8. CASE StartWorkers(a)
  BY <1>8 DEF StartWorkers, Goto, CreateObjects, api, records
<1>9. CASE Submit(a)
  BY <1>9 DEF Submit, Goto, api, records, external
<1>10. CASE UploadBundle(a)
  BY <1>10 DEF UploadBundle, Goto, api, records
<1>11. CASE CreateJobs(a)
  BY <1>11 DEF CreateJobs, Goto, CreateObjects, api, records
<1>12. CASE Commit(a)
  BY <1>12 DEF Commit, Goto, Stop, api, records, external
<1>13. CASE CommitFails(a)
  BY <1>13 DEF CommitFails, Goto, api, records
<1>14. CASE PhaseFails(a)
  BY <1>14 DEF PhaseFails, Goto, api, records, external
<1>15. CASE Recover(a)
  BY <1>15 DEF Recover, Goto, api, records, external
<1>16. CASE Quiesce(a)
  BY <1>16 DEF Quiesce, Goto, NothingLate, api, records
<1>17. CASE ReleaseTrees(a)
  BY <1>17 DEF ReleaseTrees, Goto, api, records
<1>18. CASE SweepAnyway(a)
  BY <1>18 DEF SweepAnyway, Goto, Stop, api, records
<1>19. CASE Sweep(a)
  BY <1>19 DEF Sweep, Goto, NothingLate, api, records
<1>20. CASE Release(a)
  BY <1>20 DEF Release, Goto, Downwards, Erase, api, external
<1>21. CASE Probe(a)
  BY <1>21 DEF Probe, Goto, api, records, external
<1>22. CASE Recheck(a)
  BY <1>22 DEF Recheck, Goto, Record, api, external
<1>23. CASE Identify(a)
  BY <1>23 DEF Identify, Goto, Stop, api, records, external
<1>24. CASE VerifyOwned(a)
  BY <1>24 DEF VerifyOwned, Goto, api, records, external
<1>25. CASE SeeGone(a)
  BY <1>25 DEF SeeGone, Goto, Stop, api, records, external
<1>26. CASE EraseOwned(a)
  BY <1>26 DEF EraseOwned, Goto, Stop, records, external
<1>27. CASE DropIntent(a)
  BY <1>27 DEF DropIntent, Goto, Erase, api, external
<1>28. CASE SeeLease(a)
  BY <1>28 DEF SeeLease, Goto, api, records, external
<1>29. CASE VerifyLease(a)
  BY <1>29 DEF VerifyLease, Goto, Stop, api, records, external
<1>30. CASE DeleteLease(a)
  BY <1>30 DEF DeleteLease, Goto, records, external
<1>31. CASE ConfirmGone(a)
  BY <1>31 DEF ConfirmGone, Goto, Stop, api, records, external
<1>32. CASE MarkReleased(a)
  BY <1>32 DEF MarkReleased, Goto, Downwards, Record, api, external
<1>33. CASE End(a)
  BY <1>33 DEF End, Goto, Stop, api, records, external
<1>34. CASE Collect(a)
  BY <1>34 DEF Collect, Goto, api, records, external
<1>35. CASE CollectGate(a)
  BY <1>35 DEF CollectGate, Goto, api, records, external
<1>36. CASE CollectStream(a)
  BY <1>36 DEF CollectStream, Goto, api, records, external
<1>37. CASE CollectImport(a)
  BY <1>37 DEF CollectImport, Goto, api, records, external
<1>38. CASE CollectAgain(a)
  BY <1>38 DEF CollectAgain, Goto, api, records, external
<1>39. CASE Reconcile(a)
  BY <1>39 DEF Reconcile, Goto, Downwards, Record, CleanupPrecedes, ResumeStep, api,
     external
<1>40. CASE Die(a)
  BY <1>40 DEF Die, Goto, Stop, api, records, external
<1>41. CASE SubmitterDies(a)
  BY <1>41 DEF SubmitterDies, api, records, external, command
<1> HIDE DEF TypeOK, Good, Phases, MayRelease, Ended, Pending, Retired, Active, BusySteps,
    AcquireSteps, ReleaseSteps, UndoSteps, Workloads, Kinds
<1> QED BY <1>1, <1>2, <1>3, <1>4, <1>5, <1>6, <1>7, <1>8, <1>9, <1>10, <1>11, <1>12, <1>13,
    <1>14, <1>15, <1>16, <1>17, <1>18, <1>19, <1>20, <1>21, <1>22, <1>23, <1>24, <1>25,
    <1>26, <1>27, <1>28, <1>29, <1>30, <1>31, <1>32, <1>33, <1>34, <1>35, <1>36, <1>37,
    <1>38, <1>39, <1>40, <1>41 DEF Step

\* Every step keeps the records of intents and releases true.
LEMMA OwnLogged ==
    ASSUME TypeOK, NEW a \in Attempts, Good(a), Phases(a), Logged(a), Step(a)
    PROVE  Logged(a)'
<1>0. TypeOK /\ CommandOK /\ Last(a) \in Uses[a]
  BY TypeParts, UsesAssumption, GreatestIsHighest DEF Last, Claims
<1>1. CASE WriteIntent(a)
  <2>1. at[a] = "intent" /\ claim[a] \in Uses[a] /\ intents[a] = {} /\ released[a] = {}
    BY <1>0, <1>1, ClaimAtHand DEF WriteIntent, Logged, AcquireSteps, AtClaim
  <2>2. /\ intents'[a] = {claim[a]} /\ at'[a] = "create" /\ claim'[a] = claim[a]
        /\ UNCHANGED <<released, state, trees, objects, late>>
    BY <1>1, <2>1 DEF WriteIntent, Goto, Record, TypeOK, external
  <2>3. state[a] = "PREPARED" /\ ~Active(a) /\ ~Active(a)'
    BY <2>1, <2>2 DEF Phases, AcquireSteps, Active
  <2> QED BY <2>1, <2>2, <2>3 DEF Logged, Ended, AcquireSteps, ReleaseSteps
<1>2. CASE Sweep(a)
  <2>1. /\ at[a] = "sweep" /\ at'[a] = "release" /\ claim'[a] = Last(a)
        /\ UNCHANGED <<intents, released, state, trees, late>>
        /\ Active(a)' => Active(a)
    BY <1>2 DEF Sweep, Goto, TypeOK, records, Active
  <2>2. Later(a, claim'[a]) = {}
    BY <1>0, <2>1, NextBelow
  <2> QED BY <2>1, <2>2 DEF Logged, AcquireSteps, ReleaseSteps
<1>3. CASE Release(a)
  <2>1. /\ at[a] = "release" /\ claim[a] \in Uses[a]
        /\ UNCHANGED <<released, state, trees, objects, late>>
    BY <1>0, <1>3, ClaimAtHand DEF Release, AtClaim, ReleaseSteps, external
  <2>2. Active(a)' <=> Active(a)
    BY <2>1 DEF Active
  <2>3. CASE claim[a] \in released[a]
    <3>1. Downwards(a, "release", "end") /\ intents' = intents
      BY <1>3, <2>3 DEF Release
    <3>2. Later(a, claim[a]) \union {claim[a]} \subseteq released[a]
      BY <2>1, <2>3 DEF Logged, ReleaseSteps
    <3>3. \/ at'[a] = "release" /\ Later(a, claim'[a]) \subseteq released[a]
          \/ at'[a] = "end" /\ Uses[a] \subseteq released[a]
      BY <1>0, <2>1, <3>1, <3>2, GoesDown DEF AtClaim, ReleaseSteps
    <3> QED BY <2>1, <2>2, <3>1, <3>3 DEF Logged, AcquireSteps, ReleaseSteps
  <2>4. CASE claim[a] \notin released[a] /\ claim[a] \in journal[a]
    <3>1. /\ at'[a] = "see" /\ claim'[a] = claim[a]
          /\ intents'[a] = intents[a] \ {claim[a]}
      BY <1>3, <2>4 DEF Release, Goto, Erase, TypeOK
    <3> QED BY <2>1, <2>2, <3>1 DEF Logged, AcquireSteps, ReleaseSteps
  <2>5. CASE claim[a] \notin released[a] /\ claim[a] \notin journal[a]
    <3>1. /\ intents' = intents
          /\ Goto(a, IF claim[a] \in intents[a] THEN "probe" ELSE "mark", claim[a])
      BY <1>3, <2>5 DEF Release
    <3>2. /\ claim'[a] = claim[a]
          /\ \/ at'[a] = "probe"
             \/ at'[a] = "mark" /\ claim[a] \notin intents[a]
      BY <1>0, <3>1 DEF Goto, CommandOK
    <3> QED BY <2>1, <2>2, <3>1, <3>2 DEF Logged, AcquireSteps, ReleaseSteps
  <2> QED BY <2>3, <2>4, <2>5
<1>4. CASE MarkReleased(a)
  <2>1. /\ at[a] = "mark" /\ claim[a] \in Uses[a]
        /\ UNCHANGED <<intents, state, trees, objects, late>>
        /\ released'[a] = released[a] \union {claim[a]}
    BY <1>0, <1>4, ClaimAtHand DEF MarkReleased, AtClaim, ReleaseSteps, external, Record,
       TypeOK
  <2>2. Active(a)' <=> Active(a)
    BY <2>1 DEF Active
  <2>3. Later(a, claim[a]) \union {claim[a]} \subseteq released'[a]
    BY <2>1 DEF Logged, ReleaseSteps
  <2>4. \/ at'[a] = "release" /\ Later(a, claim'[a]) \subseteq released'[a]
        \/ at'[a] = "end" /\ Uses[a] \subseteq released'[a]
    BY <1>0, <1>4, <2>1, <2>3, GoesDown DEF MarkReleased, AtClaim, ReleaseSteps
  <2>5. state[a] # "NEW" /\ claim[a] \notin intents[a]
    BY <2>1 DEF Good, Logged
  <2> QED BY <2>1, <2>2, <2>4, <2>5 DEF Logged, AcquireSteps, ReleaseSteps
<1>5. CASE Reconcile(a)
  <2>1. /\ at[a] = "reconcile" /\ claim[a] \in Uses[a] /\ state[a] = "COLLECTION_IN_PROGRESS"
        /\ intents[a] = {} /\ UNCHANGED <<intents, state, trees, objects, late>>
    BY <1>0, <1>5, ClaimAtHand DEF Reconcile, AtClaim, external, Phases, Logged
  <2>2. Active(a)' <=> Active(a)
    BY <2>1 DEF Active
  <2>3. released'[a] = released[a] \/ released'[a] = released[a] \union {claim[a]}
    BY <1>5 DEF Reconcile, Record, TypeOK
  <2>4. \E t : /\ Downwards(a, "reconcile", t)
               /\ \/ t \in {"gate", "untree", "idle"}
                  \/ t = "end" /\ {First(a)} \union Later(a, First(a)) \subseteq released'[a]
    <3>1. CASE a \notin published
      <4>1. Downwards(a, "reconcile", "gate")
        BY <1>5, <3>1 DEF Reconcile, ResumeStep
      <4> QED BY <4>1
    <3>2. CASE a \in published /\ First(a) \notin released'[a]
      <4>1. Downwards(a, "reconcile", "untree")
        BY <1>5, <3>2 DEF Reconcile, ResumeStep
      <4> QED BY <4>1
    <3>3. CASE a \in published /\ First(a) \in released'[a]
      <4>1. CASE CleanupPrecedes(a, First(a), released')
        <5>1. Downwards(a, "reconcile", "end")
          BY <1>5, <3>3, <4>1 DEF Reconcile, ResumeStep, CleanupPrecedes
        <5> QED BY <3>3, <4>1, <5>1 DEF CleanupPrecedes
      <4>2. CASE ~CleanupPrecedes(a, First(a), released')
        <5>1. Downwards(a, "reconcile", "idle")
          BY <1>5, <3>3, <4>2 DEF Reconcile, ResumeStep, CleanupPrecedes
        <5> QED BY <5>1
      <4> QED BY <4>1, <4>2
    <3> QED BY <3>1, <3>2, <3>3
  <2>6. Uses[a] \subseteq {First(a)} \union Later(a, First(a))
    BY LeastIsLowest, UsesAssumption DEF First, Later, Claims
  <2>7. \/ at'[a] \in {"reconcile", "gate", "untree", "idle"}
        \/ at'[a] = "end" /\ Uses[a] \subseteq released'[a]
    BY <1>0, <2>1, <2>4, <2>6, GoesDown DEF AtClaim
  <2> QED BY <2>1, <2>2, <2>3, <2>7 DEF Logged, Ended, AcquireSteps, ReleaseSteps
<1> USE DEF TypeOK, Good, Phases, Logged, Ended, Retired, Active, BusySteps, AcquireSteps,
    ReleaseSteps, UndoSteps, Workloads, Kinds
<1>6. CASE Prepare(a)
  BY <1>6 DEF Prepare, Goto, api, records
<1>7. CASE CreateLease(a)
  BY <1>7 DEF CreateLease, Goto, records, external
<1>8. CASE ObserveLease(a)
  BY <1>8 DEF ObserveLease, Goto, Erase, api, external
<1>9. CASE JournalLease(a)
  BY <1>9 DEF JournalLease, Goto, Record, api, external
<1>10. CASE ClearIntent(a)
  BY <1>10 DEF ClearIntent, Goto, Upwards, Erase, api, external
<1>11. CASE ReserveTrees(a)
  BY <1>11 DEF ReserveTrees, Goto, api, records
<1>12. CASE StartWorkers(a)
  BY <1>12 DEF StartWorkers, Goto, CreateObjects, api, records
<1>13. CASE Submit(a)
  BY <1>13 DEF Submit, Goto, api, records, external
<1>14. CASE UploadBundle(a)
  BY <1>14 DEF UploadBundle, Goto, api, records
<1>15. CASE CreateJobs(a)
  BY <1>15 DEF CreateJobs, Goto, CreateObjects, api, records
<1>16. CASE Commit(a)
  BY <1>16 DEF Commit, Goto, Stop, api, records, external
<1>17. CASE CommitFails(a)
  BY <1>17 DEF CommitFails, Goto, api, records
<1>18. CASE PhaseFails(a)
  BY <1>18 DEF PhaseFails, Goto, api, records, external
<1>19. CASE Recover(a)
  BY <1>19 DEF Recover, Goto, api, records, external
<1>20. CASE Quiesce(a)
  BY <1>20 DEF Quiesce, Goto, NothingLate, api, records
<1>21. CASE ReleaseTrees(a)
  BY <1>21 DEF ReleaseTrees, Goto, api, records
<1>22. CASE SweepAnyway(a)
  BY <1>22 DEF SweepAnyway, Goto, Stop, api, records
<1>23. CASE Probe(a)
  BY <1>23 DEF Probe, Goto, api, records, external
<1>24. CASE Recheck(a)
  BY <1>24 DEF Recheck, Goto, Record, api, external
<1>25. CASE Identify(a)
  BY <1>25 DEF Identify, Goto, Stop, api, records, external
<1>26. CASE VerifyOwned(a)
  BY <1>26 DEF VerifyOwned, Goto, api, records, external
<1>27. CASE SeeGone(a)
  BY <1>27 DEF SeeGone, Goto, Stop, api, records, external
<1>28. CASE EraseOwned(a)
  BY <1>28 DEF EraseOwned, Goto, Stop, records, external
<1>29. CASE DropIntent(a)
  BY <1>29 DEF DropIntent, Goto, Erase, api, external
<1>30. CASE SeeLease(a)
  BY <1>30 DEF SeeLease, Goto, api, records, external
<1>31. CASE VerifyLease(a)
  BY <1>31 DEF VerifyLease, Goto, Stop, api, records, external
<1>32. CASE DeleteLease(a)
  BY <1>32 DEF DeleteLease, Goto, records, external
<1>33. CASE ConfirmGone(a)
  BY <1>33 DEF ConfirmGone, Goto, Stop, api, records, external
<1>34. CASE End(a)
  BY <1>34 DEF End, Goto, Stop, api, records, external
<1>35. CASE Collect(a)
  BY <1>35 DEF Collect, Goto, api, records, external
<1>36. CASE CollectGate(a)
  BY <1>36 DEF CollectGate, Goto, api, records, external
<1>37. CASE CollectStream(a)
  BY <1>37 DEF CollectStream, Goto, api, records, external
<1>38. CASE CollectImport(a)
  BY <1>38 DEF CollectImport, Goto, api, records, external
<1>39. CASE CollectAgain(a)
  BY <1>39 DEF CollectAgain, Goto, api, records, external
<1>40. CASE Die(a)
  BY <1>40 DEF Die, Goto, Stop, api, records, external
<1>41. CASE SubmitterDies(a)
  BY <1>41 DEF SubmitterDies, api, records, external, command
<1> HIDE DEF TypeOK, Good, Phases, Logged, Ended, Retired, Active, BusySteps, AcquireSteps,
    ReleaseSteps, UndoSteps, Workloads, Kinds
<1> QED BY <1>1, <1>2, <1>3, <1>4, <1>5, <1>6, <1>7, <1>8, <1>9, <1>10, <1>11, <1>12, <1>13,
    <1>14, <1>15, <1>16, <1>17, <1>18, <1>19, <1>20, <1>21, <1>22, <1>23, <1>24, <1>25,
    <1>26, <1>27, <1>28, <1>29, <1>30, <1>31, <1>32, <1>33, <1>34, <1>35, <1>36, <1>37,
    <1>38, <1>39, <1>40, <1>41 DEF Step

\* A claim is requested once, from below, and given back from above.
LEMMA OwnReserved ==
    ASSUME TypeOK, ~NameDeletesLinger, NEW a \in Attempts, Good(a), Phases(a), Logged(a),
           Reserved(a), Step(a)
    PROVE  Reserved(a)'
<1>0. TypeOK /\ CommandOK /\ Uses[a] \subseteq Claims /\ \A c \in Uses[a] : c \in Int
  BY TypeParts, UsesAssumption DEF Claims
<1>1. CASE Prepare(a)
  <2>1. /\ state[a] = "NEW" /\ state'[a] = "PREPARED" /\ at'[a] = "intent" /\ claim'[a] = First(a)
        /\ UNCHANGED <<lease, creates, journal, released>>
    BY <1>1 DEF Prepare, Goto, TypeOK, api, records
  <2>2. First(a) \in Uses[a] /\ \A c \in Uses[a] : Untouched(a, c) /\ Untouched(a, c)'
    BY <1>0, <2>1, LoopClaims, UsesAssumption DEF Reserved, Untouched
  <2> QED BY <2>1, <2>2 DEF Reserved, Later, AcquireSteps
<1>2. CASE CreateLease(a)
  <2>1. /\ at[a] = "create" /\ at'[a] = "observe" /\ claim'[a] = claim[a] /\ claim[a] \in Uses[a]
        /\ claim[a] \in Claims /\ released[a] = {} /\ Untouched(a, claim[a]) /\ state[a] # "NEW"
        /\ UNCHANGED <<journal, released, state>>
    BY <1>0, <1>2, ClaimAtHand DEF CreateLease, Goto, TypeOK, records, AtClaim,
       AcquireSteps, Logged, Reserved, Good
  <2>2. \A c \in Claims : c # claim[a] => /\ <<a, c>> \in creates' <=> <<a, c>> \in creates
                                          /\ lease'[c] = lease[c]
    BY <1>2, <2>1 DEF CreateLease, TypeOK
  <2>3. lease'[claim[a]] # a \/ <<a, claim[a]>> \notin creates'
    BY <1>2, <2>1 DEF CreateLease, Untouched
  <2>4. claim[a] \notin journal[a]
    BY <2>1 DEF Untouched
  <2>5. \A c \in Later(a, claim[a]) : c \in Claims /\ c # claim[a] /\ Untouched(a, c)
    BY <1>0, <2>1 DEF Later, Reserved, AcquireSteps, Claims
  <2>6. \A c \in Later(a, claim[a]) : Untouched(a, c)'
    BY <2>1, <2>2, <2>5 DEF Untouched
  <2>7. \A c \in Claims : <<a, c>> \in creates' => c \notin journal[a] /\ lease'[c] # a
    BY <2>2, <2>3, <2>4 DEF Reserved
  <2>8. \A c, d \in Uses[a] :
          c < d /\ d \in journal[a] /\ lease'[d] = a => c \in journal[a] /\ lease'[c] = a
    BY <1>0, <2>2, <2>4 DEF Reserved
  <2> QED BY <2>1, <2>6, <2>7, <2>8 DEF Reserved, AcquireSteps
<1>3. CASE JournalLease(a)
  <2>1. /\ at[a] = "journal" /\ at'[a] = "clear" /\ claim'[a] = claim[a] /\ claim[a] \in Uses[a]
        /\ claim[a] \in Claims /\ released[a] = {} /\ state[a] # "NEW" /\ lease[claim[a]] = a
        /\ journal'[a] = journal[a] \union {claim[a]}
        /\ UNCHANGED <<lease, creates, released, state>>
    BY <1>0, <1>3, ClaimAtHand DEF JournalLease, Goto, Record, TypeOK, api, AtClaim,
       AcquireSteps, Logged, Good
  <2>2. \A c \in Later(a, claim[a]) : c # claim[a] /\ Untouched(a, c)
    BY <1>0, <2>1 DEF Later, Reserved, AcquireSteps, Claims
  <2>3. \A c \in Later(a, claim[a]) : Untouched(a, c)'
    BY <2>1, <2>2 DEF Untouched
  <2>4. \A c \in Claims : <<a, c>> \in creates => c \notin journal'[a] /\ lease[c] # a
    BY <2>1 DEF Reserved
  <2>5. \A c \in Uses[a] : c < claim[a] => c \in journal[a] /\ lease[c] = a
    BY <2>1 DEF Good, Earlier, AcquireSteps
  <2>6. \A c, d \in Uses[a] :
          c < d /\ d \in journal'[a] /\ lease[d] = a => c \in journal'[a] /\ lease[c] = a
    BY <2>1, <2>5 DEF Reserved
  <2> QED BY <2>1, <2>3, <2>4, <2>6 DEF Reserved, AcquireSteps
<1>4. CASE ClearIntent(a)
  <2>1. /\ at[a] = "clear" /\ claim[a] \in Uses[a] /\ state[a] # "NEW"
        /\ Upwards(a, "intent", "reserve") /\ UNCHANGED <<lease, creates, journal, released, state>>
    BY <1>0, <1>4, ClaimAtHand DEF ClearIntent, AtClaim, AcquireSteps, Good, api
  <2>2. \A c \in Later(a, claim[a]) : Untouched(a, c) /\ Untouched(a, c)'
    BY <1>0, <2>1 DEF Reserved, AcquireSteps, Untouched
  <2>3. \/ /\ at'[a] = "intent" /\ claim'[a] \in Later(a, claim[a])
           /\ Later(a, claim'[a]) \subseteq Later(a, claim[a])
        \/ at'[a] = "reserve"
    BY <1>0, <2>1, GoesUp DEF AtClaim, AcquireSteps
  <2> QED BY <2>1, <2>2, <2>3 DEF Reserved, AcquireSteps
<1>5. CASE DeleteLease(a)
  <2>1. /\ at[a] = "delete" /\ at'[a] = "confirm" /\ claim[a] \in Uses[a] /\ claim[a] \in Claims
        /\ state[a] # "NEW" /\ UNCHANGED <<creates, journal, released, state>>
    BY <1>0, <1>5, ClaimAtHand DEF DeleteLease, Goto, TypeOK, records, AtClaim,
       ReleaseSteps, Good
  <2>6. \A c \in Claims : lease'[c] = lease[c] \/ (c = claim[a] /\ lease'[c] = Free)
    BY <1>0, <1>5, <2>1 DEF DeleteLease, TypeOK
  <2>7. released[a] \subseteq Claims
    BY <1>0 DEF Logged
  <2>2. \A c \in Uses[a] : c > claim[a] => c \in released[a]
    BY <2>1 DEF Logged, ReleaseSteps, Later
  <2>3. \A c \in Claims : lease'[c] = a => lease[c] = a
    BY <2>6, FreeAssumption
  <2>4. \A c, d \in Uses[a] :
          c < d /\ d \in journal[a] /\ lease'[d] = a => c \in journal[a] /\ lease'[c] = a
    BY <1>0, <2>1, <2>2, <2>3, <2>6 DEF Reserved, Claims
  <2> QED BY <1>0, <2>1, <2>3, <2>4, <2>7 DEF Reserved, AcquireSteps
<1> USE DEF TypeOK, Good, Phases, Logged, Reserved, Untouched, Retired, Active, BusySteps,
    IntentSteps, AcquireSteps, ReleaseSteps
<1>6. CASE WriteIntent(a)
  BY <1>6 DEF WriteIntent, Goto, Record, api, external
<1>7. CASE ObserveLease(a)
  BY <1>7 DEF ObserveLease, Goto, Erase, api, external
<1>8. CASE ReserveTrees(a)
  BY <1>8 DEF ReserveTrees, Goto, api, records
<1>9. CASE StartWorkers(a)
  BY <1>9 DEF StartWorkers, Goto, CreateObjects, api, records
<1>10. CASE Submit(a)
  BY <1>10 DEF Submit, Goto, api, records, external
<1>11. CASE UploadBundle(a)
  BY <1>11 DEF UploadBundle, Goto, api, records
<1>12. CASE CreateJobs(a)
  BY <1>12 DEF CreateJobs, Goto, CreateObjects, api, records
<1>13. CASE Commit(a)
  BY <1>13 DEF Commit, Goto, Stop, api, records, external
<1>14. CASE CommitFails(a)
  BY <1>14 DEF CommitFails, Goto, api, records
<1>15. CASE PhaseFails(a)
  BY <1>15 DEF PhaseFails, Goto, api, records, external
<1>16. CASE Recover(a)
  BY <1>16 DEF Recover, Goto, api, records, external
<1>17. CASE Quiesce(a)
  BY <1>17 DEF Quiesce, Goto, NothingLate, api, records
<1>18. CASE ReleaseTrees(a)
  BY <1>18 DEF ReleaseTrees, Goto, api, records
<1>19. CASE SweepAnyway(a)
  BY <1>19 DEF SweepAnyway, Goto, Stop, api, records
<1>20. CASE Sweep(a)
  BY <1>20 DEF Sweep, Goto, NothingLate, api, records
<1>21. CASE Release(a)
  BY <1>21 DEF Release, Goto, Downwards, Erase, api, external
<1>22. CASE Probe(a)
  BY <1>22 DEF Probe, Goto, api, records, external
<1>23. CASE Recheck(a)
  BY <1>23 DEF Recheck, Goto, Record, api, external
<1>24. CASE Identify(a)
  BY <1>24 DEF Identify, Goto, Stop, api, records, external
<1>25. CASE VerifyOwned(a)
  BY <1>25 DEF VerifyOwned, Goto, api, records, external
<1>26. CASE SeeGone(a)
  BY <1>26 DEF SeeGone, Goto, Stop, api, records, external
<1>27. CASE EraseOwned(a)
  BY <1>27 DEF EraseOwned, Goto, Stop, records, external
<1>28. CASE DropIntent(a)
  BY <1>28 DEF DropIntent, Goto, Erase, api, external
<1>29. CASE SeeLease(a)
  BY <1>29 DEF SeeLease, Goto, api, records, external
<1>30. CASE VerifyLease(a)
  BY <1>30 DEF VerifyLease, Goto, Stop, api, records, external
<1>31. CASE ConfirmGone(a)
  BY <1>31 DEF ConfirmGone, Goto, Stop, api, records, external
<1>32. CASE MarkReleased(a)
  BY <1>32 DEF MarkReleased, Goto, Downwards, Record, api, external
<1>33. CASE End(a)
  BY <1>33 DEF End, Goto, Stop, api, records, external
<1>34. CASE Collect(a)
  BY <1>34 DEF Collect, Goto, api, records, external
<1>35. CASE CollectGate(a)
  BY <1>35 DEF CollectGate, Goto, api, records, external
<1>36. CASE CollectStream(a)
  BY <1>36 DEF CollectStream, Goto, api, records, external
<1>37. CASE CollectImport(a)
  BY <1>37 DEF CollectImport, Goto, api, records, external
<1>38. CASE CollectAgain(a)
  BY <1>38 DEF CollectAgain, Goto, api, records, external
<1>39. CASE Reconcile(a)
  BY <1>39 DEF Reconcile, Goto, Downwards, Record, CleanupPrecedes, ResumeStep, api,
     external
<1>40. CASE Die(a)
  BY <1>40 DEF Die, Goto, Stop, api, records, external
<1>41. CASE SubmitterDies(a)
  BY <1>41 DEF SubmitterDies, api, records, external, command
<1> HIDE DEF TypeOK, Good, Phases, Logged, Reserved, Untouched, Retired, Active, BusySteps,
    IntentSteps, AcquireSteps, ReleaseSteps
<1> QED BY <1>1, <1>2, <1>3, <1>4, <1>5, <1>6, <1>7, <1>8, <1>9, <1>10, <1>11, <1>12, <1>13,
    <1>14, <1>15, <1>16, <1>17, <1>18, <1>19, <1>20, <1>21, <1>22, <1>23, <1>24, <1>25,
    <1>26, <1>27, <1>28, <1>29, <1>30, <1>31, <1>32, <1>33, <1>34, <1>35, <1>36, <1>37,
    <1>38, <1>39, <1>40, <1>41 DEF Step

\* What is under way stays behind what is released.
LEMMA OwnUndone ==
    ASSUME TypeOK, ~NameDeletesLinger, GoodDeletes, NEW a \in Attempts, Good(a), Phases(a),
           Logged(a), Undone(a), Step(a)
    PROVE  Undone(a)'
<1>0. TypeOK /\ \A c \in Claims : <<a, c, "uid">> \in deletes => Retired(a)
  BY DEF GoodDeletes
<1> USE DEF TypeOK, Good, Phases, MayRelease, Logged, Undone, Retired, BusySteps,
    AcquireSteps, ReleaseSteps
<1>1. CASE Prepare(a)
  BY <1>0, <1>1 DEF Prepare, Goto, api, records
<1>2. CASE WriteIntent(a)
  BY <1>0, <1>2 DEF WriteIntent, Goto, Record, api, external
<1>3. CASE CreateLease(a)
  BY <1>0, <1>3 DEF CreateLease, Goto, records, external
<1>4. CASE ObserveLease(a)
  BY <1>0, <1>4 DEF ObserveLease, Goto, Erase, api, external
<1>5. CASE JournalLease(a)
  BY <1>0, <1>5 DEF JournalLease, Goto, Record, api, external
<1>6. CASE ClearIntent(a)
  BY <1>0, <1>6 DEF ClearIntent, Goto, Upwards, Erase, api, external
<1>7. CASE ReserveTrees(a)
  BY <1>0, <1>7 DEF ReserveTrees, Goto, api, records
<1>8. CASE StartWorkers(a)
  BY <1>0, <1>8 DEF StartWorkers, Goto, CreateObjects, api, records
<1>9. CASE Submit(a)
  BY <1>0, <1>9 DEF Submit, Goto, api, records, external
<1>10. CASE UploadBundle(a)
  BY <1>0, <1>10 DEF UploadBundle, Goto, api, records
<1>11. CASE CreateJobs(a)
  BY <1>0, <1>11 DEF CreateJobs, Goto, CreateObjects, api, records
<1>12. CASE Commit(a)
  BY <1>0, <1>12 DEF Commit, Goto, Stop, api, records, external
<1>13. CASE CommitFails(a)
  BY <1>0, <1>13 DEF CommitFails, Goto, api, records
<1>14. CASE PhaseFails(a)
  BY <1>0, <1>14 DEF PhaseFails, Goto, api, records, external
<1>15. CASE Recover(a)
  BY <1>0, <1>15 DEF Recover, Goto, api, records, external
<1>16. CASE Quiesce(a)
  BY <1>0, <1>16 DEF Quiesce, Goto, NothingLate, api, records
<1>17. CASE ReleaseTrees(a)
  BY <1>0, <1>17 DEF ReleaseTrees, Goto, api, records
<1>18. CASE SweepAnyway(a)
  BY <1>0, <1>18 DEF SweepAnyway, Goto, Stop, api, records
<1>19. CASE Sweep(a)
  BY <1>0, <1>19 DEF Sweep, Goto, NothingLate, api, records
<1>20. CASE Release(a)
  BY <1>0, <1>20 DEF Release, Goto, Downwards, Erase, api, external
<1>21. CASE Probe(a)
  BY <1>0, <1>21 DEF Probe, Goto, api, records, external
<1>22. CASE Recheck(a)
  BY <1>0, <1>22 DEF Recheck, Goto, Record, api, external
<1>23. CASE Identify(a)
  BY <1>0, <1>23 DEF Identify, Goto, Stop, api, records, external
<1>24. CASE VerifyOwned(a)
  BY <1>0, <1>24 DEF VerifyOwned, Goto, api, records, external
<1>25. CASE SeeGone(a)
  BY <1>0, <1>25 DEF SeeGone, Goto, Stop, api, records, external
<1>26. CASE EraseOwned(a)
  BY <1>0, <1>26 DEF EraseOwned, Goto, Stop, records, external
<1>27. CASE DropIntent(a)
  BY <1>0, <1>27 DEF DropIntent, Goto, Erase, api, external
<1>28. CASE SeeLease(a)
  BY <1>0, <1>28 DEF SeeLease, Goto, api, records, external
<1>29. CASE VerifyLease(a)
  BY <1>0, <1>29 DEF VerifyLease, Goto, Stop, api, records, external
<1>30. CASE DeleteLease(a)
  BY <1>0, <1>30 DEF DeleteLease, Goto, records, external
<1>31. CASE ConfirmGone(a)
  BY <1>0, <1>31 DEF ConfirmGone, Goto, Stop, api, records, external
<1>32. CASE MarkReleased(a)
  BY <1>0, <1>32 DEF MarkReleased, Goto, Downwards, Record, api, external
<1>33. CASE End(a)
  BY <1>0, <1>33 DEF End, Goto, Stop, api, records, external
<1>34. CASE Collect(a)
  BY <1>0, <1>34 DEF Collect, Goto, api, records, external
<1>35. CASE CollectGate(a)
  BY <1>0, <1>35 DEF CollectGate, Goto, api, records, external
<1>36. CASE CollectStream(a)
  BY <1>0, <1>36 DEF CollectStream, Goto, api, records, external
<1>37. CASE CollectImport(a)
  BY <1>0, <1>37 DEF CollectImport, Goto, api, records, external
<1>38. CASE CollectAgain(a)
  BY <1>0, <1>38 DEF CollectAgain, Goto, api, records, external
<1>39. CASE Reconcile(a)
  BY <1>0, <1>39 DEF Reconcile, Goto, Downwards, Record, CleanupPrecedes, ResumeStep, api,
     external
<1>40. CASE Die(a)
  BY <1>0, <1>40 DEF Die, Goto, Stop, api, records, external
<1>41. CASE SubmitterDies(a)
  BY <1>0, <1>41 DEF SubmitterDies, api, records, external, command
<1> HIDE DEF TypeOK, Good, Phases, MayRelease, Logged, Undone, Retired, BusySteps,
    AcquireSteps, ReleaseSteps
<1> QED BY <1>1, <1>2, <1>3, <1>4, <1>5, <1>6, <1>7, <1>8, <1>9, <1>10, <1>11, <1>12, <1>13,
    <1>14, <1>15, <1>16, <1>17, <1>18, <1>19, <1>20, <1>21, <1>22, <1>23, <1>24, <1>25,
    <1>26, <1>27, <1>28, <1>29, <1>30, <1>31, <1>32, <1>33, <1>34, <1>35, <1>36, <1>37,
    <1>38, <1>39, <1>40, <1>41 DEF Step

\* A Lease of the attempt goes only where it works on its claim, having
\* released all above.
LEMMA OwnLeases ==
    ASSUME TypeOK, NEW a \in Attempts, Good(a), Step(a), NEW c \in Claims,
           lease[c] = a, lease'[c] # a
    PROVE  at[a] \in {"erase", "delete"} /\ c = claim[a]
<1>0. a # Free
  BY FreeAssumption
<1> USE DEF TypeOK
<1>1. CASE Prepare(a)
  BY <1>0, <1>1 DEF Prepare, Goto, api, records
<1>2. CASE WriteIntent(a)
  BY <1>0, <1>2 DEF WriteIntent, Goto, Record, api, external
<1>3. CASE CreateLease(a)
  BY <1>0, <1>3 DEF CreateLease, Goto, records, external
<1>4. CASE ObserveLease(a)
  BY <1>0, <1>4 DEF ObserveLease, Goto, Erase, api, external
<1>5. CASE JournalLease(a)
  BY <1>0, <1>5 DEF JournalLease, Goto, Record, api, external
<1>6. CASE ClearIntent(a)
  BY <1>0, <1>6 DEF ClearIntent, Goto, Upwards, Erase, api, external
<1>7. CASE ReserveTrees(a)
  BY <1>0, <1>7 DEF ReserveTrees, Goto, api, records
<1>8. CASE StartWorkers(a)
  BY <1>0, <1>8 DEF StartWorkers, Goto, CreateObjects, api, records
<1>9. CASE Submit(a)
  BY <1>0, <1>9 DEF Submit, Goto, api, records, external
<1>10. CASE UploadBundle(a)
  BY <1>0, <1>10 DEF UploadBundle, Goto, api, records
<1>11. CASE CreateJobs(a)
  BY <1>0, <1>11 DEF CreateJobs, Goto, CreateObjects, api, records
<1>12. CASE Commit(a)
  BY <1>0, <1>12 DEF Commit, Goto, Stop, api, records, external
<1>13. CASE CommitFails(a)
  BY <1>0, <1>13 DEF CommitFails, Goto, api, records
<1>14. CASE PhaseFails(a)
  BY <1>0, <1>14 DEF PhaseFails, Goto, api, records, external
<1>15. CASE Recover(a)
  BY <1>0, <1>15 DEF Recover, Goto, api, records, external
<1>16. CASE Quiesce(a)
  BY <1>0, <1>16 DEF Quiesce, Goto, NothingLate, api, records
<1>17. CASE ReleaseTrees(a)
  BY <1>0, <1>17 DEF ReleaseTrees, Goto, api, records
<1>18. CASE SweepAnyway(a)
  BY <1>0, <1>18 DEF SweepAnyway, Goto, Stop, api, records
<1>19. CASE Sweep(a)
  BY <1>0, <1>19 DEF Sweep, Goto, NothingLate, api, records
<1>20. CASE Release(a)
  BY <1>0, <1>20 DEF Release, Goto, Downwards, Erase, api, external
<1>21. CASE Probe(a)
  BY <1>0, <1>21 DEF Probe, Goto, api, records, external
<1>22. CASE Recheck(a)
  BY <1>0, <1>22 DEF Recheck, Goto, Record, api, external
<1>23. CASE Identify(a)
  BY <1>0, <1>23 DEF Identify, Goto, Stop, api, records, external
<1>24. CASE VerifyOwned(a)
  BY <1>0, <1>24 DEF VerifyOwned, Goto, api, records, external
<1>25. CASE SeeGone(a)
  BY <1>0, <1>25 DEF SeeGone, Goto, Stop, api, records, external
<1>26. CASE EraseOwned(a)
  BY <1>0, <1>26 DEF EraseOwned, Goto, Stop, records, external
<1>27. CASE DropIntent(a)
  BY <1>0, <1>27 DEF DropIntent, Goto, Erase, api, external
<1>28. CASE SeeLease(a)
  BY <1>0, <1>28 DEF SeeLease, Goto, api, records, external
<1>29. CASE VerifyLease(a)
  BY <1>0, <1>29 DEF VerifyLease, Goto, Stop, api, records, external
<1>30. CASE DeleteLease(a)
  BY <1>0, <1>30 DEF DeleteLease, Goto, records, external
<1>31. CASE ConfirmGone(a)
  BY <1>0, <1>31 DEF ConfirmGone, Goto, Stop, api, records, external
<1>32. CASE MarkReleased(a)
  BY <1>0, <1>32 DEF MarkReleased, Goto, Downwards, Record, api, external
<1>33. CASE End(a)
  BY <1>0, <1>33 DEF End, Goto, Stop, api, records, external
<1>34. CASE Collect(a)
  BY <1>0, <1>34 DEF Collect, Goto, api, records, external
<1>35. CASE CollectGate(a)
  BY <1>0, <1>35 DEF CollectGate, Goto, api, records, external
<1>36. CASE CollectStream(a)
  BY <1>0, <1>36 DEF CollectStream, Goto, api, records, external
<1>37. CASE CollectImport(a)
  BY <1>0, <1>37 DEF CollectImport, Goto, api, records, external
<1>38. CASE CollectAgain(a)
  BY <1>0, <1>38 DEF CollectAgain, Goto, api, records, external
<1>39. CASE Reconcile(a)
  BY <1>0, <1>39 DEF Reconcile, Goto, Downwards, Record, CleanupPrecedes, ResumeStep, api,
     external
<1>40. CASE Die(a)
  BY <1>0, <1>40 DEF Die, Goto, Stop, api, records, external
<1>41. CASE SubmitterDies(a)
  BY <1>0, <1>41 DEF SubmitterDies, api, records, external, command
<1> HIDE DEF TypeOK
<1> QED BY <1>1, <1>2, <1>3, <1>4, <1>5, <1>6, <1>7, <1>8, <1>9, <1>10, <1>11, <1>12, <1>13,
    <1>14, <1>15, <1>16, <1>17, <1>18, <1>19, <1>20, <1>21, <1>22, <1>23, <1>24, <1>25,
    <1>26, <1>27, <1>28, <1>29, <1>30, <1>31, <1>32, <1>33, <1>34, <1>35, <1>36, <1>37,
    <1>38, <1>39, <1>40, <1>41 DEF Step

-----------------------------------------------------------------------------
(* Steps of others and late arrivals. *)

\* Nothing of the attempt changes that Same does not name, except that its
\* lost requests may be applied.
Alike(b) ==
    /\ Same(b)
    /\ intents'[b] = intents[b] /\ released'[b] = released[b]
    /\ b \in published' <=> b \in published
    /\ <<b, "helper">> \in objects' => <<b, "helper">> \in objects
    /\ Pending(b)' => Pending(b)
    /\ \A c \in Claims : <<b, c>> \in creates' => <<b, c>> \in creates
    /\ \A c \in Claims : <<b, c, "uid">> \in deletes' => <<b, c, "uid">> \in deletes

\* A step of another attempt leaves the records of this one alone and gives
\* it no Lease.
LEMMA OthersAreAlike ==
    ASSUME TypeOK, ~NameDeletesLinger, NEW a \in Attempts, NEW b \in Attempts, a # b, Step(a)
    PROVE  /\ Alike(b)
           /\ \A c \in Claims : lease'[c] = b => lease[c] = b
<1>0. Same(b) /\ b # Free
  BY OthersAreSame, FreeAssumption
<1> USE DEF TypeOK, Alike, Pending, Workloads
<1>1. CASE Prepare(a)
  BY <1>0, <1>1 DEF Prepare, Goto, api, records
<1>2. CASE WriteIntent(a)
  BY <1>0, <1>2 DEF WriteIntent, Goto, Record, api, external
<1>3. CASE CreateLease(a)
  BY <1>0, <1>3 DEF CreateLease, Goto, records, external
<1>4. CASE ObserveLease(a)
  BY <1>0, <1>4 DEF ObserveLease, Goto, Erase, api, external
<1>5. CASE JournalLease(a)
  BY <1>0, <1>5 DEF JournalLease, Goto, Record, api, external
<1>6. CASE ClearIntent(a)
  BY <1>0, <1>6 DEF ClearIntent, Goto, Upwards, Erase, api, external
<1>7. CASE ReserveTrees(a)
  BY <1>0, <1>7 DEF ReserveTrees, Goto, api, records
<1>8. CASE StartWorkers(a)
  BY <1>0, <1>8 DEF StartWorkers, Goto, CreateObjects, api, records
<1>9. CASE Submit(a)
  BY <1>0, <1>9 DEF Submit, Goto, api, records, external
<1>10. CASE UploadBundle(a)
  BY <1>0, <1>10 DEF UploadBundle, Goto, api, records
<1>11. CASE CreateJobs(a)
  BY <1>0, <1>11 DEF CreateJobs, Goto, CreateObjects, api, records
<1>12. CASE Commit(a)
  BY <1>0, <1>12 DEF Commit, Goto, Stop, api, records, external
<1>13. CASE CommitFails(a)
  BY <1>0, <1>13 DEF CommitFails, Goto, api, records
<1>14. CASE PhaseFails(a)
  BY <1>0, <1>14 DEF PhaseFails, Goto, api, records, external
<1>15. CASE Recover(a)
  BY <1>0, <1>15 DEF Recover, Goto, api, records, external
<1>16. CASE Quiesce(a)
  BY <1>0, <1>16 DEF Quiesce, Goto, NothingLate, api, records
<1>17. CASE ReleaseTrees(a)
  BY <1>0, <1>17 DEF ReleaseTrees, Goto, api, records
<1>18. CASE SweepAnyway(a)
  BY <1>0, <1>18 DEF SweepAnyway, Goto, Stop, api, records
<1>19. CASE Sweep(a)
  BY <1>0, <1>19 DEF Sweep, Goto, NothingLate, api, records
<1>20. CASE Release(a)
  BY <1>0, <1>20 DEF Release, Goto, Downwards, Erase, api, external
<1>21. CASE Probe(a)
  BY <1>0, <1>21 DEF Probe, Goto, api, records, external
<1>22. CASE Recheck(a)
  BY <1>0, <1>22 DEF Recheck, Goto, Record, api, external
<1>23. CASE Identify(a)
  BY <1>0, <1>23 DEF Identify, Goto, Stop, api, records, external
<1>24. CASE VerifyOwned(a)
  BY <1>0, <1>24 DEF VerifyOwned, Goto, api, records, external
<1>25. CASE SeeGone(a)
  BY <1>0, <1>25 DEF SeeGone, Goto, Stop, api, records, external
<1>26. CASE EraseOwned(a)
  BY <1>0, <1>26 DEF EraseOwned, Goto, Stop, records, external
<1>27. CASE DropIntent(a)
  BY <1>0, <1>27 DEF DropIntent, Goto, Erase, api, external
<1>28. CASE SeeLease(a)
  BY <1>0, <1>28 DEF SeeLease, Goto, api, records, external
<1>29. CASE VerifyLease(a)
  BY <1>0, <1>29 DEF VerifyLease, Goto, Stop, api, records, external
<1>30. CASE DeleteLease(a)
  BY <1>0, <1>30 DEF DeleteLease, Goto, records, external
<1>31. CASE ConfirmGone(a)
  BY <1>0, <1>31 DEF ConfirmGone, Goto, Stop, api, records, external
<1>32. CASE MarkReleased(a)
  BY <1>0, <1>32 DEF MarkReleased, Goto, Downwards, Record, api, external
<1>33. CASE End(a)
  BY <1>0, <1>33 DEF End, Goto, Stop, api, records, external
<1>34. CASE Collect(a)
  BY <1>0, <1>34 DEF Collect, Goto, api, records, external
<1>35. CASE CollectGate(a)
  BY <1>0, <1>35 DEF CollectGate, Goto, api, records, external
<1>36. CASE CollectStream(a)
  BY <1>0, <1>36 DEF CollectStream, Goto, api, records, external
<1>37. CASE CollectImport(a)
  BY <1>0, <1>37 DEF CollectImport, Goto, api, records, external
<1>38. CASE CollectAgain(a)
  BY <1>0, <1>38 DEF CollectAgain, Goto, api, records, external
<1>39. CASE Reconcile(a)
  BY <1>0, <1>39 DEF Reconcile, Goto, Downwards, Record, CleanupPrecedes, ResumeStep, api,
     external
<1>40. CASE Die(a)
  BY <1>0, <1>40 DEF Die, Goto, Stop, api, records, external
<1>41. CASE SubmitterDies(a)
  BY <1>0, <1>41 DEF SubmitterDies, api, records, external, command
<1> HIDE DEF TypeOK, Alike, Pending, Workloads
<1> QED BY <1>1, <1>2, <1>3, <1>4, <1>5, <1>6, <1>7, <1>8, <1>9, <1>10, <1>11, <1>12, <1>13,
    <1>14, <1>15, <1>16, <1>17, <1>18, <1>19, <1>20, <1>21, <1>22, <1>23, <1>24, <1>25,
    <1>26, <1>27, <1>28, <1>29, <1>30, <1>31, <1>32, <1>33, <1>34, <1>35, <1>36, <1>37,
    <1>38, <1>39, <1>40, <1>41 DEF Step

\* What changes nothing of the attempt keeps what is known of it.
LEMMA AlikeKeeps ==
    ASSUME TypeOK, NEW b \in Attempts, Alike(b), Phases(b), Logged(b), Undone(b)
    PROVE  Phases(b)' /\ Logged(b)' /\ Undone(b)'
<1>1. MayRelease(b)' <=> MayRelease(b)
  BY DEF Alike, Same, MayRelease
<1>2. Phases(b)'
  BY <1>1 DEF Alike, Same, Phases
<1>3. Logged(b)'
  BY DEF Alike, Same, Logged, Later
<1>4. Undone(b)'
  BY <1>1 DEF Alike, Same, Undone, Later
<1> QED BY <1>2, <1>3, <1>4

\* A Lease that was never journaled, or above which everything is released,
\* may go.
LEMMA AlikeReserved ==
    ASSUME TypeOK, NEW b \in Attempts, Alike(b), Logged(b), Reserved(b),
           \A c \in Claims : lease'[c] = b => lease[c] = b,
           \A c \in Claims : lease[c] = b /\ lease'[c] # b =>
               c \notin journal[b] \/ Later(b, c) \subseteq released[b]
    PROVE  Reserved(b)'
<1>1. /\ Uses[b] \subseteq Claims /\ released[b] \subseteq Claims
      /\ at[b] \in AtClaim => claim[b] \in Claims
  BY UsesAssumption, TypeParts, ClaimAtHand DEF Logged, Claims
<1>2. \A c \in Claims : Untouched(b, c) => Untouched(b, c)'
  BY DEF Alike, Same, Untouched
<1>3. /\ at'[b] = at[b] /\ claim'[b] = claim[b] /\ journal'[b] = journal[b]
      /\ released'[b] = released[b] /\ state'[b] = state[b]
  BY DEF Alike, Same
<1>4. Later(b, claim[b]) \subseteq Claims /\ Later(b, claim'[b]) = Later(b, claim[b])
  BY <1>1, <1>3 DEF Later
<1>5. \A c, d \in Uses[b] :
         c < d /\ d \in journal[b] /\ lease'[d] = b => c \in journal[b] /\ lease'[c] = b
  <2> SUFFICES ASSUME NEW c \in Uses[b], NEW d \in Uses[b],
                      c < d, d \in journal[b], lease'[d] = b
               PROVE  c \in journal[b] /\ lease'[c] = b
    OBVIOUS
  <2>1. lease[d] = b
    BY <1>1
  <2>2. c \in journal[b] /\ lease[c] = b
    BY <2>1 DEF Reserved
  <2>3. d \notin released[b]
    BY <2>1 DEF Reserved
  <2>4. d \in Later(b, c)
    BY <1>1 DEF Later, Claims
  <2> QED BY <1>1, <2>2, <2>3, <2>4
<1>6. \A c \in Claims : <<b, c>> \in creates' => c \notin journal[b] /\ lease'[c] # b
  BY DEF Alike, Reserved
<1>7. \A c \in released[b] : c \in journal[b] => lease'[c] # b
  BY <1>1 DEF Reserved
<1>8. at[b] = "mark" /\ claim[b] \in journal[b] => lease'[claim[b]] # b
  BY <1>1 DEF Reserved, AtClaim, ReleaseSteps
<1>9. at[b] \in {"intent", "create"} => Untouched(b, claim[b])'
  BY <1>1, <1>2, <1>3 DEF Reserved, AtClaim, AcquireSteps
<1>10. at[b] \in AcquireSteps => \A c \in Later(b, claim[b]) : Untouched(b, c)'
  BY <1>2, <1>4 DEF Reserved
<1>11. state[b] = "NEW" => journal[b] = {} /\ \A c \in Uses[b] : Untouched(b, c)'
  BY <1>1, <1>2 DEF Reserved
<1> QED BY <1>3, <1>4, <1>5, <1>6, <1>7, <1>8, <1>9, <1>10, <1>11 DEF Reserved

\* A late creation: the claim was never journaled.
LEMMA CreationArrives ==
    ASSUME TypeOK, NEW a \in Attempts, NEW c \in Claims, CreateArrives(a, c), Logged(a),
           Reserved(a), lease[c] = Free
    PROVE  Reserved(a)'
<1>1. /\ UNCHANGED <<journal, released, state, at, claim>>
      /\ <<a, c>> \in creates /\ creates' = creates \ {<<a, c>>}
      /\ lease'[c] = a /\ \A d \in Claims : d # c => lease'[d] = lease[d]
  BY DEF CreateArrives, records, command, TypeOK
<1>2. c \notin journal[a]
  BY <1>1 DEF Reserved
<1>3. \A d : Untouched(a, d) => d # c
  BY <1>1 DEF Untouched
<1>4. \A d \in Claims : Untouched(a, d) => Untouched(a, d)'
  BY <1>1, <1>3 DEF Untouched
<1>5. /\ Uses[a] \subseteq Claims /\ released[a] \subseteq Claims
      /\ at[a] \in AtClaim => claim[a] \in Claims
      /\ Later(a, claim[a]) \subseteq Claims
  BY UsesAssumption, TypeParts, ClaimAtHand DEF Logged, Claims, Later
<1>6. \A d \in Claims : d \in journal[a] => (lease'[d] = a <=> lease[d] = a)
  BY <1>1, <1>2
<1>7. \A d, e \in Uses[a] :
         d < e /\ e \in journal[a] /\ lease'[e] = a => d \in journal[a] /\ lease'[d] = a
  BY <1>5, <1>6 DEF Reserved
<1>8. \A d \in released[a] : d \in journal[a] => lease'[d] # a
  BY <1>5, <1>6 DEF Reserved
<1>9. at[a] = "mark" /\ claim[a] \in journal[a] => lease'[claim[a]] # a
  BY <1>5, <1>6 DEF Reserved, AtClaim, ReleaseSteps
<1>10. \A d \in Claims : <<a, d>> \in creates' => d \notin journal[a] /\ lease'[d] # a
  BY <1>1 DEF Reserved
<1>11. at[a] \in {"intent", "create"} => Untouched(a, claim[a])'
  BY <1>1, <1>4, <1>5 DEF Reserved, AtClaim, AcquireSteps
<1>12. at[a] \in AcquireSteps => \A d \in Later(a, claim[a]) : Untouched(a, d)'
  BY <1>4, <1>5 DEF Reserved
<1>13. state[a] = "NEW" => journal[a] = {} /\ \A d \in Uses[a] : Untouched(a, d)'
  BY <1>4, <1>5 DEF Reserved
<1> QED BY <1>1, <1>7, <1>8, <1>9, <1>10, <1>11, <1>12, <1>13 DEF Reserved, Later

-----------------------------------------------------------------------------
(* The invariant. *)

Orderly ==
    /\ Ownership
    /\ \A a \in Attempts : Phases(a) /\ Logged(a) /\ Reserved(a) /\ Undone(a)

\* Initially nothing was requested.
LEMMA InitOrderly == Init => Orderly
<1> SUFFICES ASSUME Init PROVE Orderly
  OBVIOUS
<1>1. \A a \in Attempts : ~Active(a) /\ ~Pending(a) /\ \A c \in Uses[a] : Untouched(a, c)
  BY FreeAssumption, UsesAssumption DEF Init, Active, Pending, Untouched, Claims
<1>2. \A a \in Attempts : Phases(a)
  BY <1>1 DEF Init, Phases, AcquireSteps, UndoSteps, ReleaseSteps, Ended
<1>3. \A a \in Attempts : Logged(a)
  BY <1>1 DEF Init, Logged, AcquireSteps, ReleaseSteps, Ended
<1>4. \A a \in Attempts : Reserved(a)
  BY <1>1 DEF Init, Reserved, AcquireSteps
<1>5. \A a \in Attempts : Undone(a)
  BY DEF Init, Undone
<1> QED BY <1>2, <1>3, <1>4, <1>5, InitOwnership DEF Orderly

\* One step of one attempt, as seen by any attempt.
LEMMA StepOrderly ==
    ASSUME Orderly, ~NameDeletesLinger, NEW a \in Attempts, Step(a), NEW b \in Attempts
    PROVE  Phases(b)' /\ Logged(b)' /\ Reserved(b)' /\ Undone(b)'
<1>0. /\ Ownership /\ TypeOK /\ GoodDeletes /\ Good(a)
      /\ Phases(a) /\ Logged(a) /\ Reserved(a) /\ Undone(a)
      /\ Phases(b) /\ Logged(b) /\ Reserved(b) /\ Undone(b)
  BY DEF Orderly, Ownership
<1>1. CASE b = a
  BY <1>0, <1>1, OwnPhases, OwnLogged, OwnReserved, OwnUndone
<1>2. CASE b # a
  <2>1. Alike(b) /\ \A c \in Claims : lease'[c] = b => lease[c] = b
    BY <1>0, <1>2, OthersAreAlike
  <2>2. \A c \in Claims : lease[c] = b => lease'[c] = b
    BY <1>0, <1>2, OthersKeepLeases
  <2> QED BY <1>0, <2>1, <2>2, AlikeKeeps, AlikeReserved
<1> QED BY <1>1, <1>2

\* One late arrival, as seen by any attempt.
LEMMA ArrivalOrderly ==
    ASSUME Orderly, NEW b \in Attempts,
           \/ \E a \in Attempts, k \in Workloads : ObjectArrives(a, k)
           \/ \E a \in Attempts, c \in Claims : CreateArrives(a, c)
           \/ \E a \in Attempts, c \in Claims, how \in {"uid", "name"} : DeleteArrives(a, c, how)
    PROVE  Phases(b)' /\ Logged(b)' /\ Reserved(b)' /\ Undone(b)'
<1>0. /\ TypeOK /\ GoodDeletes /\ b # Free
      /\ Phases(b) /\ Logged(b) /\ Reserved(b) /\ Undone(b)
  BY FreeAssumption DEF Orderly, Ownership
<1>1. Same(b)
  BY DEF Same, Active, ObjectArrives, CreateArrives, DeleteArrives, api, records, external,
     command
<1>2. Alike(b)
  BY <1>1 DEF Alike, Pending, Workloads, ObjectArrives, CreateArrives, DeleteArrives, api,
     records, external, command
<1>3. Phases(b)' /\ Logged(b)' /\ Undone(b)'
  BY <1>0, <1>2, AlikeKeeps
<1>4. Reserved(b)'
  <2>1. CASE \E a \in Attempts, k \in Workloads : ObjectArrives(a, k)
    <3>1. lease' = lease
      BY <2>1 DEF ObjectArrives, api
    <3> QED BY <1>0, <1>2, <3>1, AlikeReserved
  <2>2. CASE \E a \in Attempts, c \in Claims : CreateArrives(a, c)
    <3>1. PICK a \in Attempts, c \in Claims : CreateArrives(a, c)
      BY <2>2
    <3>2. CASE lease[c] = Free /\ a = b
      BY <1>0, <3>1, <3>2, CreationArrives
    <3>3. CASE lease[c] # Free \/ a # b
      <4>1. \A d \in Claims : lease'[d] = b <=> lease[d] = b
        BY <1>0, <3>1, <3>3 DEF CreateArrives, TypeOK
      <4> QED BY <1>0, <1>2, <4>1, AlikeReserved
    <3> QED BY <3>2, <3>3
  <2>3. CASE \E a \in Attempts, c \in Claims, how \in {"uid", "name"} : DeleteArrives(a, c, how)
    <3>1. PICK a \in Attempts, c \in Claims, how \in {"uid", "name"} : DeleteArrives(a, c, how)
      BY <2>3
    <3>2. how = "uid" /\ <<a, c, "uid">> \in deletes
      BY <1>0, <3>1 DEF DeleteArrives, GoodDeletes
    <3>3. \A d \in Claims : /\ lease'[d] = b => lease[d] = b
                            /\ lease[d] = b /\ lease'[d] # b => a = b /\ d = c
      BY <1>0, <3>1, <3>2 DEF DeleteArrives, TypeOK
    <3>4. \A d \in Claims : lease[d] = b /\ lease'[d] # b => Later(b, d) \subseteq released[b]
      BY <1>0, <3>2, <3>3 DEF Undone
    <3> QED BY <1>0, <1>2, <3>3, <3>4, AlikeReserved
  <2> QED BY <2>1, <2>2, <2>3
<1> QED BY <1>3, <1>4

\* Orderly is inductive as long as no deletion by name outlives its command.
LEMMA NextOrderly ==
    ASSUME ~NameDeletesLinger, Orderly, [Next]_vars
    PROVE  Orderly'
<1>1. Ownership'
  BY NextOwnership DEF Orderly
<1>2. ASSUME NEW b \in Attempts
      PROVE  Phases(b)' /\ Logged(b)' /\ Reserved(b)' /\ Undone(b)'
  <2>1. CASE \E a \in Attempts : Step(a)
    BY <2>1, StepOrderly
  <2>2. CASE Next /\ ~(\E a \in Attempts : Step(a))
    BY <2>2, ArrivalOrderly DEF Next
  <2>3. CASE UNCHANGED vars
    <3>1. TypeOK /\ Phases(b) /\ Logged(b) /\ Reserved(b) /\ Undone(b)
      BY DEF Orderly, Ownership
    <3>2. Alike(b) /\ lease' = lease
      BY <2>3 DEF vars, api, records, external, command, Alike, Same, Active, Pending
    <3> QED BY <3>1, <3>2, AlikeKeeps, AlikeReserved
  <2> QED BY <2>1, <2>2, <2>3
<1> QED BY <1>1, <1>2 DEF Orderly

\* A Lease goes when nothing of its holder runs and its results are published.
LEMMA NextReleases ==
    ASSUME ~NameDeletesLinger, Orderly, [Next]_vars, NEW c \in Claims, NEW a,
           a = lease[c], a # Free, lease'[c] # a
    PROVE  ~Active(a) /\ (state[a] = "COLLECTION_IN_PROGRESS" => a \in published)
<1>0. /\ Ownership /\ TypeOK /\ GoodDeletes /\ a \in Attempts
      /\ Good(a) /\ Phases(a) /\ Undone(a)
  BY DEF Orderly, Ownership, TypeOK
<1>1. Retired(a) /\ MayRelease(a)
  <2>1. CASE \E b \in Attempts : Step(b)
    <3>1. PICK b \in Attempts : Step(b)
      BY <2>1
    <3>2. b = a
      BY <1>0, <3>1, OthersKeepLeases
    <3>3. at[a] \in {"erase", "delete"}
      BY <1>0, <3>1, <3>2, OwnLeases
    <3> QED BY <1>0, <3>3 DEF Good, Phases, ReleaseSteps
  <2>2. CASE Next /\ ~(\E b \in Attempts : Step(b))
    <3>1. PICK b \in Attempts, d \in Claims, how \in {"uid", "name"} : DeleteArrives(b, d, how)
      BY <1>0, <2>2 DEF Next, ObjectArrives, CreateArrives, TypeOK, api
    <3>2. how = "uid" /\ <<b, d, "uid">> \in deletes /\ Retired(b)
      BY <1>0, <3>1 DEF DeleteArrives, GoodDeletes
    <3>3. b = a
      BY <1>0, <3>1, <3>2 DEF DeleteArrives, TypeOK
    <3> QED BY <1>0, <3>2, <3>3 DEF Undone
  <2>3. CASE UNCHANGED vars
    BY <2>3 DEF vars, api
  <2> QED BY <2>1, <2>2, <2>3
<1> QED BY <1>1 DEF Retired, MayRelease

\* The journaled Leases that an attempt still holds are its lowest claims, so
\* attempts never wait for each other in a circle: the acquisition loop of
\* kubectl_prepare_attempt_lifecycle goes up, _kubectl_release_attempt_leases
\* and every repeated rollback or collection goes down.
THEOREM LeasesHeldInOrder ==
    ASSUME ~NameDeletesLinger
    PROVE  Spec => []HeldInOrder
<1>1. Init => Orderly
  BY InitOrderly
<1>2. Orderly /\ [Next]_vars => Orderly'
  BY NextOrderly
<1>3. Orderly => HeldInOrder
  BY DEF Orderly, HeldInOrder, Reserved
<1> QED BY <1>1, <1>2, <1>3, PTL DEF Spec

\* An attempt that reached SUBMISSION_FAILED or COLLECTED has left nothing:
\* no run tree, no object, no intent, and no Lease that it journaled.
THEOREM EndedAttemptsAreClean ==
    ASSUME ~NameDeletesLinger
    PROVE  Spec => []EndedIsClean
<1>1. Init => Orderly
  BY InitOrderly
<1>2. Orderly /\ [Next]_vars => Orderly'
  BY NextOrderly
<1>3. Orderly => EndedIsClean
  <2> SUFFICES ASSUME Orderly, NEW a \in Attempts, state[a] \in Ended
               PROVE  /\ ~Active(a) /\ <<a, "helper">> \notin objects
                      /\ intents[a] = {}
                      /\ released[a] = Uses[a]
                      /\ \A c \in journal[a] : lease[c] # a
    BY DEF EndedIsClean, Ended
  <2>1. Phases(a) /\ Logged(a) /\ Reserved(a)
    BY DEF Orderly
  <2>2. journal[a] \subseteq Uses[a]
    BY <2>1 DEF Reserved
  <2>3. released[a] = Uses[a] /\ intents[a] = {}
    BY <2>1 DEF Logged
  <2> QED BY <2>1, <2>2, <2>3 DEF Phases, Reserved
<1> QED BY <1>1, <1>2, <1>3, PTL DEF Spec

\* Whatever removes a Lease, at once or as a late request, its holder has no
\* run tree and no workload left, and a collection has published its results.
THEOREM LeasesReleasedLast ==
    ASSUME ~NameDeletesLinger
    PROVE  Spec => ReleasedLast
<1>1. Init => Orderly
  BY InitOrderly
<1>2. Orderly /\ [Next]_vars => Orderly'
  BY NextOrderly
<1>3. Orderly /\ [Next]_vars =>
        [\A c \in Claims : LET a == lease[c] IN
            a # Free /\ lease'[c] # a =>
              /\ ~Active(a)
              /\ state[a] = "COLLECTION_IN_PROGRESS" => a \in published]_vars
  BY NextReleases
<1> QED BY <1>1, <1>2, <1>3, PTL DEF Spec, ReleasedLast

=============================================================================
