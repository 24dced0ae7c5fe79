------------------------------ MODULE Segments ------------------------------
(***************************************************************************)
(* An attempt that spans several namespaces: one suspended coordinator Job *)
(* per segment, the in-cluster sequencer that unsuspends them one after    *)
(* the other, and --status, --cancel and --collect, which may start the    *)
(* next segment themselves, stop the sequencer, delete Jobs and record     *)
(* what they proved in the local journal.                                  *)
(*                                                                         *)
(* A segment's run tree is reduced to its run.status; what moves it is     *)
(* the contract that Coordinator establishes: a Complete Job has published *)
(* SUCCESS, recovery ends an open run, and no helper changes a terminal    *)
(* one.  Lifecycle commands exclude each other by the local lock, and each *)
(* of their Kubernetes calls and journal writes is a step of its own.      *)
(***************************************************************************)
EXTENDS Naturals

CONSTANTS
    S,                  \* segments (namespaces) of the attempt
    Drift,              \* worker drift may be observed
    MaxDeaths           \* bound: lifecycle commands that die midway

ASSUME SAssumption == S \in Nat \ {0, 1}
ASSUME DriftAssumption == Drift \in BOOLEAN
ASSUME DeathsAssumption == MaxDeaths \in Nat

VARIABLES
    job,                \* every segment's exact coordinator Job
    ledger,             \* every segment's run.status
    started,            \* history: the Job was ever unsuspended
    steps,              \* journal steps of every segment
    drifted,            \* journal step stopped-by-drift
    cancelled,          \* history: a user asked for cancellation
    seq,                \* the sequencer: its step and its segment
    local,              \* state.sh
    cmd, op,            \* the lifecycle command that holds the lock, its step
    at,                 \* the segment the command works on
    view,               \* its classification of the segments
    seen,               \* the run.status it read
    imported,           \* collection-published
    deaths              \* lifecycle commands that died

cluster == <<job, ledger, started>>
journal == <<steps, drifted, cancelled, local, imported>>
command == <<cmd, op, at, view, seen>>
vars == <<cluster, journal, seq, command, deaths>>

Segs == 1..S
JobStates == {"SUSPENDED", "ACTIVE", "COMPLETE", "FAILED", "GONE"}
\* EMPTY is run.status PREPARED before the coordinator initialized its cells.
Open == {"EMPTY", "PREPARED", "RUNNING"}
Terminal == {"SUCCESS", "FAILED", "CANCELLED"}
Observed == {"NOT_STARTED", "SUSPENDED", "ACTIVE", "COMPLETE", "FAILED", "DELETED", "MISSING"}
Steps == {"notStarted", "succeeded", "deleted"}
SeqSteps == {"observe", "patch", "exited", "gone"}
LocalStates == {"SUBMITTED", "CANCEL_REQUESTED", "TERMINAL", "COLLECTION_IN_PROGRESS"}
Ops == {"idle", "classify", "classified", "statusRead", "statusJob", "statusRecord",
        "driftStop", "driftCheck", "driftDelete", "driftJournal", "driftRecover", "driftRecord",
        "abandon", "abandonDelete", "cancelStop", "cancelRead", "cancelObserve",
        "cancelDelete", "cancelJournal", "cancelFinalize", "cancelRecord",
        "gate", "gateWait", "collectStop", "import"}
NoView == [k \in Segs |-> "none"]

TypeOK ==
    /\ job \in [Segs -> JobStates]
    /\ ledger \in [Segs -> Open \cup Terminal]
    /\ started \in [Segs -> BOOLEAN]
    /\ steps \in [Segs -> SUBSET Steps]
    /\ drifted \in BOOLEAN
    /\ cancelled \in BOOLEAN
    /\ seq \in [step : SeqSteps, at : Segs]
    /\ local \in LocalStates
    /\ cmd \in {"none", "status", "cancel", "collect"}
    /\ op \in Ops
    /\ at \in 0..(S + 1)
    /\ view \in [Segs -> Observed \cup {"none"}]
    /\ seen \in Open \cup Terminal \cup {"none"}
    /\ imported \in BOOLEAN
    /\ deaths \in 0..MaxDeaths

(***************************************************************************)
(* _kubectl_submit_segments has published SUBMITTED: every Job is          *)
(* suspended and the sequencer's Job exists.                               *)
(***************************************************************************)
Init ==
    /\ job = [k \in Segs |-> "SUSPENDED"]
    /\ ledger = [k \in Segs |-> "EMPTY"]
    /\ started = [k \in Segs |-> FALSE]
    /\ steps = [k \in Segs |-> {}]
    /\ drifted = FALSE
    /\ cancelled = FALSE
    /\ seq = [step |-> "observe", at |-> 1]
    /\ local = "SUBMITTED"
    /\ cmd = "none"
    /\ op = "idle"
    /\ at = 0
    /\ view = NoView
    /\ seen = "none"
    /\ imported = FALSE
    /\ deaths = 0

-----------------------------------------------------------------------------
(***************************************************************************)
(* The coordinator Job of one segment.  Its Pod may be killed, and a user  *)
(* may delete the running Job, in any state of its run tree.               *)
(***************************************************************************)
Coordinate(k) ==
    /\ job[k] = "ACTIVE"
    /\ \/ ledger[k] = "EMPTY" /\ ledger' = [ledger EXCEPT ![k] = "PREPARED"]
       \/ ledger[k] = "PREPARED" /\ ledger' = [ledger EXCEPT ![k] = "RUNNING"]
       \/ ledger[k] = "PREPARED" /\ ledger' = [ledger EXCEPT ![k] = "FAILED"]
       \/ ledger[k] = "RUNNING" /\ ledger' = [ledger EXCEPT ![k] = "SUCCESS"]
       \/ ledger[k] = "RUNNING" /\ ledger' = [ledger EXCEPT ![k] = "FAILED"]
    /\ UNCHANGED <<job, started, journal, seq, command, deaths>>

JobEnds(k) ==
    /\ job[k] = "ACTIVE"
    /\ \/ ledger[k] = "SUCCESS" /\ job' = [job EXCEPT ![k] = "COMPLETE"]
       \/ ledger[k] = "FAILED" /\ job' = [job EXCEPT ![k] = "FAILED"]
    /\ UNCHANGED <<ledger, started, journal, seq, command, deaths>>

JobLost(k) ==
    /\ job[k] = "ACTIVE"
    /\ \E outcome \in {"FAILED", "GONE"} : job' = [job EXCEPT ![k] = outcome]
    /\ UNCHANGED <<ledger, started, journal, seq, command, deaths>>

\* The UID-tested patch: a suspended Job starts, a started one stays as it is.
Unsuspend(k) ==
    /\ job' = [job EXCEPT ![k] = IF @ = "SUSPENDED" THEN "ACTIVE" ELSE @]
    /\ started' = [started EXCEPT ![k] = @ \/ job[k] = "SUSPENDED"]

\* Mutant: the sequencer looks for one segment more than there are.
SequencerPollsPastLast ==
    /\ seq.step = "observe"
    /\ \/ /\ job[seq.at] = "COMPLETE"
          /\ seq' = IF seq.at <= S THEN [seq EXCEPT !.at = @ + 1]
                                  ELSE [seq EXCEPT !.step = "exited"]
       \/ job[seq.at] \in {"FAILED", "GONE"} /\ seq' = [seq EXCEPT !.step = "exited"]
       \/ job[seq.at] = "SUSPENDED" /\ seq' = [seq EXCEPT !.step = "patch"]
    /\ UNCHANGED <<cluster, journal, command, deaths>>

(***************************************************************************)
(* The sequencer: run_segment polls the Job of its segment and patches it  *)
(* when it saw it suspended.  A failed segment, and an absent Job, end it. *)
(***************************************************************************)
SequencerPolls ==
    /\ seq.step = "observe"
    /\ \/ /\ job[seq.at] = "COMPLETE"
          /\ seq' = IF seq.at < S THEN [seq EXCEPT !.at = @ + 1]
                                 ELSE [seq EXCEPT !.step = "exited"]
       \/ job[seq.at] \in {"FAILED", "GONE"} /\ seq' = [seq EXCEPT !.step = "exited"]
       \/ job[seq.at] = "SUSPENDED" /\ seq' = [seq EXCEPT !.step = "patch"]
    /\ UNCHANGED <<cluster, journal, command, deaths>>

SequencerPatches ==
    /\ seq.step = "patch"
    /\ Unsuspend(seq.at)
    /\ seq' = [seq EXCEPT !.step = "observe"]
    /\ UNCHANGED <<ledger, journal, command, deaths>>

\* A replacement Pod starts again at the first segment; after backoffLimit
\* failures, or a deletion of its Job, there is none.
SequencerLost ==
    /\ seq.step \in {"observe", "patch"}
    /\ \/ seq' = [step |-> "observe", at |-> 1]
       \/ seq' = [seq EXCEPT !.step = "exited"]
    /\ UNCHANGED <<cluster, journal, command, deaths>>

-----------------------------------------------------------------------------
\* Where the command goes on; it keeps its classification until it ends.
Go(step, k) ==
    /\ op' = step
    /\ at' = k
    /\ UNCHANGED <<cmd, view>>

Ends ==
    /\ cmd' = "none"
    /\ op' = "idle"
    /\ at' = 0
    /\ view' = NoView
    /\ seen' = "none"

Begin(name, step) ==
    /\ op = "idle"
    /\ cmd' = name
    /\ op' = step
    /\ at' = S
    /\ view' = NoView
    /\ seen' = "none"

Record(k, step) == steps' = [steps EXCEPT ![k] = @ \cup {step}]

\* kubectl_delete_owned_object: a foreground deletion, idempotent.
DeleteJob(k) == job' = [job EXCEPT ![k] = "GONE"]

\* _kubectl_stop_sequencer: its exact Job and its Pod are gone.
StopSequencer == seq' = [seq EXCEPT !.step = "gone"]

(***************************************************************************)
(* _coordinator_recover_lost through a helper Pod: an open run ends, with  *)
(* SUCCESS only when its last cell had committed; a terminal run keeps its *)
(* outcome.                                                                *)
(***************************************************************************)
RecoverLost(k) ==
    \E outcome \in Terminal :
        /\ ledger[k] \in Terminal => outcome = ledger[k]
        /\ ledger[k] \in {"EMPTY", "PREPARED"} => outcome = "FAILED"
        /\ ledger[k] = "RUNNING" => outcome \in {"SUCCESS", "FAILED"}
        /\ ledger' = [ledger EXCEPT ![k] = outcome]

\* _kubectl_observe_selected_segment: the journal first, then the exact Job.
Observe(k) ==
    CASE "notStarted" \in steps[k] -> "NOT_STARTED"
      [] "notStarted" \notin steps[k] /\ "succeeded" \in steps[k] -> "COMPLETE"
      [] steps[k] = {"deleted"} -> "DELETED"
      [] steps[k] = {} -> IF job[k] = "GONE" THEN "MISSING" ELSE job[k]

\* _kubectl_classify_segments: one observation per step, last to first.
Classify ==
    /\ op = "classify"
    /\ view' = [view EXCEPT ![at] = Observe(at)]
    /\ at' = at - 1
    /\ op' = IF at = 1 THEN "classified" ELSE op
    /\ UNCHANGED <<cluster, journal, seq, cmd, seen, deaths>>

\* _kubectl_current_segment: the first segment that is not Complete.
Current ==
    CHOOSE k \in 1..(S + 1) :
        /\ k \in Segs => view[k] # "COMPLETE"
        /\ \A d \in 1..(k - 1) : view[d] = "COMPLETE"

InOrder == \A k \in Segs : k > Current => view[k] \in {"SUSPENDED", "NOT_STARTED"}

\* The last segment that --collect gates.
Last ==
    IF Current > S THEN S
    ELSE IF Current > 1 /\ view[Current] = "NOT_STARTED" THEN Current - 1 ELSE Current

\* The order of the segments is refused: LEDGER_INCONSISTENT.
ClassifyRefused ==
    /\ op = "classified"
    /\ ~InOrder
    /\ Ends
    /\ UNCHANGED <<cluster, journal, seq, deaths>>

-----------------------------------------------------------------------------
(***************************************************************************)
(* --status: _kubectl_multi_segment_status starts the current segment when *)
(* its Job is still suspended, then recovers a lost coordinator, and goes  *)
(* on with the next segment when the recovered one succeeded.              *)
(***************************************************************************)
StatusBegins ==
    /\ local = "SUBMITTED"
    /\ Begin("status", "classify")
    /\ UNCHANGED <<cluster, journal, seq, deaths>>

\* Mutant: the next segment starts although the current one failed.
StatusAdvancesPastFailure ==
    /\ op = "classified"
    /\ cmd = "status"
    /\ InOrder
    /\ \/ Current > S /\ Ends /\ UNCHANGED <<job, started>>
       \/ /\ Current <= S
          /\ IF view[Current] = "SUSPENDED" THEN Unsuspend(Current)
             ELSE IF view[Current] = "FAILED" /\ Current < S THEN Unsuspend(Current + 1)
             ELSE UNCHANGED <<job, started>>
          /\ Go("statusRead", Current)
          /\ UNCHANGED seen
    /\ UNCHANGED <<ledger, journal, seq, deaths>>

StatusAdvances ==
    /\ op = "classified"
    /\ cmd = "status"
    /\ InOrder
    /\ \/ Current > S /\ Ends /\ UNCHANGED <<job, started>>
       \/ /\ Current <= S
          /\ \/ view[Current] = "SUSPENDED" /\ Unsuspend(Current)
             \/ view[Current] # "SUSPENDED" /\ UNCHANGED <<job, started>>
          /\ Go("statusRead", Current)
          /\ UNCHANGED seen
    /\ UNCHANGED <<ledger, journal, seq, deaths>>

StatusReads ==
    /\ op = "statusRead"
    /\ seen' = ledger[at]
    /\ Go("statusJob", at)
    /\ UNCHANGED <<cluster, journal, seq, deaths>>

\* A terminal Job is newer than the first read of run.status, so that is
\* refreshed; drift is looked for while the run is open.
StatusSeen == IF job[at] \in {"COMPLETE", "FAILED"} THEN ledger[at] ELSE seen

StatusRecovers ==
    /\ op = "statusJob"
    /\ job[at] \in {"FAILED", "GONE"}
    /\ RecoverLost(at)
    /\ seen' = ledger'[at]
    /\ Go("statusRecord", at)
    /\ UNCHANGED <<job, started, journal, seq, deaths>>

StatusWatches ==
    /\ op = "statusJob"
    /\ job[at] \notin {"FAILED", "GONE"}
    /\ seen' = StatusSeen
    /\ Go("statusRecord", at)
    /\ UNCHANGED <<cluster, journal, seq, deaths>>

StatusDrifts ==
    /\ Drift
    /\ op = "statusJob"
    /\ StatusSeen \in Open
    /\ Go("driftStop", at)
    /\ UNCHANGED <<cluster, journal, seq, seen, deaths>>

\* Mutant: a recovered success is reported and not recorded.
StatusRecordsNothing ==
    /\ op = "statusRecord"
    /\ Ends
    /\ UNCHANGED <<cluster, journal, seq, deaths>>

\* _kubectl_record_recovered_segment, by the classification's Job state.
StatusRecords ==
    /\ op = "statusRecord"
    /\ \/ /\ seen = "SUCCESS"
          /\ view[at] \in {"FAILED", "MISSING"}
          /\ at < S
          /\ Record(at, "succeeded")
          /\ op' = "classify" /\ at' = S /\ view' = NoView /\ seen' = "none" /\ UNCHANGED cmd
       \/ /\ seen # "SUCCESS" \/ view[at] \notin {"FAILED", "MISSING"} \/ at = S
          /\ Ends
          /\ UNCHANGED steps
    /\ UNCHANGED <<cluster, drifted, cancelled, local, imported, seq, deaths>>

(***************************************************************************)
(* _kubectl_fail_drifted_attempt: the sequencer is stopped, the current    *)
(* Job observed once more and deleted, its run recovered, and the later    *)
(* segments are abandoned.                                                 *)
(***************************************************************************)
DriftStops ==
    /\ op = "driftStop"
    /\ StopSequencer
    /\ Go("driftCheck", at)
    /\ UNCHANGED <<cluster, journal, seen, deaths>>

DriftChecks ==
    /\ op = "driftCheck"
    /\ \/ /\ "deleted" \notin steps[at]
          /\ job[at] = "COMPLETE"
          /\ Ends
          /\ UNCHANGED drifted
       \/ /\ "deleted" \in steps[at] \/ job[at] # "COMPLETE"
          /\ drifted' = TRUE
          /\ Go("driftDelete", at)
          /\ UNCHANGED seen
    /\ UNCHANGED <<cluster, steps, cancelled, local, imported, seq, deaths>>

DriftDeletes ==
    /\ op = "driftDelete"
    /\ DeleteJob(at)
    /\ Go("driftJournal", at)
    /\ UNCHANGED <<ledger, started, journal, seq, seen, deaths>>

DriftJournals ==
    /\ op = "driftJournal"
    /\ Record(at, "deleted")
    /\ Go("driftRecover", at)
    /\ UNCHANGED <<cluster, drifted, cancelled, local, imported, seq, seen, deaths>>

DriftRecovers ==
    /\ op = "driftRecover"
    /\ RecoverLost(at)
    /\ Go("driftRecord", at)
    /\ UNCHANGED <<job, started, journal, seq, seen, deaths>>

DriftRecords ==
    /\ op = "driftRecord"
    /\ \/ ledger[at] = "SUCCESS" /\ Record(at, "succeeded") /\ Ends
       \/ ledger[at] = "FAILED" /\ Go("abandon", at + 1) /\ UNCHANGED <<steps, seen>>
       \/ ledger[at] = "CANCELLED" /\ Ends /\ UNCHANGED steps
    /\ UNCHANGED <<cluster, drifted, cancelled, local, imported, seq, deaths>>

-----------------------------------------------------------------------------

(***************************************************************************)
(* _kubectl_abandon_later_segments: each later Job that is still suspended *)
(* is recorded as never started, then deleted.                             *)
(***************************************************************************)
Abandon ==
    /\ op = "abandon"
    /\ at <= S
    /\ \/ "deleted" \in steps[at] /\ Go("abandon", at + 1) /\ UNCHANGED <<steps, seen>>
       \/ /\ "deleted" \notin steps[at]
          /\ Observe(at) \in {"NOT_STARTED", "SUSPENDED"}
          /\ Record(at, "notStarted")
          /\ Go("abandonDelete", at)
          /\ UNCHANGED seen
       \/ /\ "deleted" \notin steps[at]
          /\ Observe(at) \notin {"NOT_STARTED", "SUSPENDED"}
          /\ Ends
          /\ UNCHANGED steps
    /\ UNCHANGED <<cluster, drifted, cancelled, local, imported, seq, deaths>>

AbandonDeletes ==
    /\ op = "abandonDelete"
    /\ DeleteJob(at)
    /\ Record(at, "deleted")
    /\ Go("abandon", at + 1)
    /\ UNCHANGED <<ledger, started, drifted, cancelled, local, imported, seq, seen, deaths>>

\* Every later segment is abandoned: the attempt is terminal.
AbandonEnds ==
    /\ op = "abandon"
    /\ at > S
    /\ local' = IF local \in {"SUBMITTED", "CANCEL_REQUESTED"} THEN "TERMINAL" ELSE local
    /\ \/ cmd = "collect" /\ Go("import", at) /\ UNCHANGED seen
       \/ cmd # "collect" /\ Ends
    /\ UNCHANGED <<cluster, steps, drifted, cancelled, imported, seq, deaths>>

-----------------------------------------------------------------------------
(***************************************************************************)
(* --cancel: _kubectl_begin_multi_segment_cancel, the classification, then *)
(* _kubectl_cancel_selected_multi_segment for the first segment that has   *)
(* not succeeded, and for the next one when it succeeds meanwhile.         *)
(***************************************************************************)
CancelBegins ==
    /\ Begin("cancel", "cancelStop")
    /\ ~imported
    /\ local' = IF local = "SUBMITTED" THEN "CANCEL_REQUESTED" ELSE local
    /\ cancelled' = TRUE
    /\ UNCHANGED <<cluster, steps, drifted, imported, seq, deaths>>

\* Mutant: the sequencer is left running.
CancelKeepsSequencer ==
    /\ op = "cancelStop"
    /\ Go("classify", S)
    /\ UNCHANGED <<cluster, journal, seq, seen, deaths>>

CancelStops ==
    /\ op = "cancelStop"
    /\ StopSequencer
    /\ Go("classify", S)
    /\ UNCHANGED <<cluster, journal, seen, deaths>>

CancelSelects ==
    /\ op = "classified"
    /\ cmd = "cancel"
    /\ InOrder
    /\ \/ Current > S /\ Go("abandon", S + 1)
       \/ Current <= S /\ Go("cancelRead", Current)
    /\ UNCHANGED <<cluster, journal, seq, seen, deaths>>

CancelReads ==
    /\ op = "cancelRead"
    /\ \/ ledger[at] \in Open /\ Go("cancelObserve", at)
       \/ ledger[at] \in Terminal /\ Go("cancelRecord", at)
    /\ UNCHANGED <<cluster, journal, seq, seen, deaths>>

CancelObserves ==
    /\ op = "cancelObserve"
    /\ \/ "deleted" \in steps[at] /\ Go("cancelFinalize", at)
       \/ "deleted" \notin steps[at] /\ job[at] = "COMPLETE" /\ Go("cancelRecord", at)
       \/ "deleted" \notin steps[at] /\ job[at] # "COMPLETE" /\ Go("cancelDelete", at)
    /\ UNCHANGED <<cluster, journal, seq, seen, deaths>>

CancelDeletes ==
    /\ op = "cancelDelete"
    /\ DeleteJob(at)
    /\ Go("cancelJournal", at)
    /\ UNCHANGED <<ledger, started, journal, seq, seen, deaths>>

CancelJournals ==
    /\ op = "cancelJournal"
    /\ Record(at, "deleted")
    /\ Go("cancelFinalize", at)
    /\ UNCHANGED <<cluster, drifted, cancelled, local, imported, seq, seen, deaths>>

\* Mutant: cancellation replaces an outcome that was reached meanwhile.
CancelFinalizesAll ==
    /\ op = "cancelFinalize"
    /\ ledger' = [ledger EXCEPT ![at] = "CANCELLED"]
    /\ Go("cancelRecord", at)
    /\ UNCHANGED <<job, started, journal, seq, seen, deaths>>

\* _coordinator_finalize_cancelled in a helper Pod: it needs initialized
\* cells, and it never replaces an outcome.
CancelFinalizes ==
    /\ op = "cancelFinalize"
    /\ \/ ledger[at] = "EMPTY" /\ Ends /\ UNCHANGED ledger
       \/ /\ ledger[at] # "EMPTY"
          /\ ledger' = [ledger EXCEPT ![at] = IF @ \in Open THEN "CANCELLED" ELSE @]
          /\ Go("cancelRecord", at)
          /\ UNCHANGED seen
    /\ UNCHANGED <<job, started, journal, seq, deaths>>

CancelRecords ==
    /\ op = "cancelRecord"
    /\ steps' = [steps EXCEPT ![at] =
                    IF ledger[at] = "SUCCESS" /\ "deleted" \in @ THEN @ \cup {"succeeded"} ELSE @]
    /\ \/ ledger[at] = "SUCCESS" /\ at < S /\ Go("cancelRead", at + 1) /\ UNCHANGED seen
       \/ ledger[at] \in Terminal /\ (at = S \/ ledger[at] # "SUCCESS")
             /\ Go("abandon", at + 1) /\ UNCHANGED seen
       \/ ledger[at] \in Open /\ Ends
    /\ UNCHANGED <<cluster, drifted, cancelled, local, imported, seq, deaths>>

-----------------------------------------------------------------------------
(***************************************************************************)
(* --collect: every segment that started is gated by                       *)
(* _kubectl_collect_segment_gate; then nothing may start any more, and the *)
(* segments are imported together.                                         *)
(***************************************************************************)
CollectBegins ==
    /\ Begin("collect", "classify")
    /\ ~imported
    /\ local \in {"SUBMITTED", "TERMINAL", "COLLECTION_IN_PROGRESS"}
    /\ UNCHANGED <<cluster, journal, seq, deaths>>

CollectSelects ==
    /\ op = "classified"
    /\ cmd = "collect"
    /\ InOrder
    /\ Go("gate", 1)
    /\ UNCHANGED <<cluster, journal, seq, seen, deaths>>

CollectGate ==
    /\ op = "gate"
    /\ \/ job[at] \in {"FAILED", "GONE"} /\ RecoverLost(at)
       \/ job[at] \notin {"FAILED", "GONE"} /\ UNCHANGED ledger
    /\ seen' = ledger'[at]
    /\ Go("gateWait", at)
    /\ UNCHANGED <<job, started, journal, seq, deaths>>

\* The outcome of a gated segment lets the collection go on.
GateOpens ==
    /\ seen \in Terminal
    /\ at < Last => seen = "SUCCESS"
    /\ at = Last /\ Last < S /\ seen = "SUCCESS" => local # "SUBMITTED"

\* Mutant: a successful segment before an unstarted one is accepted.
CollectWaitsTooLittle ==
    /\ op = "gateWait"
    /\ \/ /\ seen \in Terminal /\ (at < Last => seen = "SUCCESS")
          /\ job[at] # "ACTIVE"
          /\ IF at < Last THEN Go("gate", at + 1) ELSE Go("collectStop", at)
          /\ UNCHANGED seen
       \/ (seen \notin Terminal \/ job[at] = "ACTIVE") /\ Ends
    /\ UNCHANGED <<cluster, journal, seq, deaths>>

\* The wait for the exact Job to be quiescent may time out.
CollectWaits ==
    /\ op = "gateWait"
    /\ \/ /\ GateOpens
          /\ job[at] # "ACTIVE"
          /\ IF at < Last THEN Go("gate", at + 1) ELSE Go("collectStop", at)
          /\ UNCHANGED seen
       \/ (~GateOpens \/ job[at] = "ACTIVE") /\ Ends
    /\ UNCHANGED <<cluster, journal, seq, deaths>>

CollectStops ==
    /\ op = "collectStop"
    /\ StopSequencer
    /\ Go("abandon", Last + 1)
    /\ UNCHANGED <<cluster, journal, seen, deaths>>

CollectImports ==
    /\ op = "import"
    /\ local' = "COLLECTION_IN_PROGRESS"
    /\ imported' = TRUE
    /\ Ends
    /\ UNCHANGED <<cluster, steps, drifted, cancelled, seq, deaths>>

(***************************************************************************)
(* _kubectl_collected_segments_outcome: the first segment that did not     *)
(* succeed decides; unstarted segments after successes only mean that the  *)
(* attempt was abandoned.                                                  *)
(***************************************************************************)
CollectedOutcome ==
    LET failing == {k \in Segs : "notStarted" \notin steps[k] /\ ledger[k] # "SUCCESS"}
    IN  IF failing # {} THEN ledger[CHOOSE k \in failing : \A d \in failing : k <= d]
        ELSE IF \A k \in Segs : "notStarted" \notin steps[k] THEN "SUCCESS"
        ELSE IF drifted THEN "FAILED" ELSE "CANCELLED"

CommandDies ==
    /\ op # "idle"
    /\ deaths < MaxDeaths
    /\ deaths' = deaths + 1
    /\ Ends
    /\ UNCHANGED <<cluster, journal, seq>>

-----------------------------------------------------------------------------
\* The attempt is collected: nothing is left to do.
Done == imported /\ UNCHANGED vars

JobNext == \E k \in Segs : Coordinate(k) \/ JobEnds(k) \/ JobLost(k)

SequencerNext == SequencerPolls \/ SequencerPatches \/ SequencerLost

StatusNext ==
    \/ StatusAdvances \/ StatusReads \/ StatusRecovers \/ StatusWatches \/ StatusDrifts
    \/ StatusRecords \/ DriftStops \/ DriftChecks \/ DriftDeletes \/ DriftJournals
    \/ DriftRecovers \/ DriftRecords

CancelNext ==
    \/ CancelStops \/ CancelSelects \/ CancelReads \/ CancelObserves \/ CancelDeletes
    \/ CancelJournals \/ CancelFinalizes \/ CancelRecords

CollectNext == CollectSelects \/ CollectGate \/ CollectWaits \/ CollectStops \/ CollectImports

CommandNext ==
    \/ Classify \/ ClassifyRefused \/ StatusNext \/ CancelNext \/ CollectNext
    \/ Abandon \/ AbandonDeletes \/ AbandonEnds

UserNext == StatusBegins \/ CancelBegins \/ CollectBegins

Next == JobNext \/ SequencerNext \/ CommandNext \/ UserNext \/ CommandDies \/ Done

(***************************************************************************)
(* Fairness: a running Job and a running command go on, and a user repeats *)
(* --status while the attempt is submitted and --cancel once it is         *)
(* requested.  Nothing is assumed of the sequencer, which may be lost.     *)
(***************************************************************************)
Fairness ==
    /\ \A k \in Segs : WF_vars(Coordinate(k)) /\ WF_vars(JobEnds(k))
    /\ WF_vars(CommandNext)
    /\ SF_vars(StatusBegins)
    /\ SF_vars(local = "CANCEL_REQUESTED" /\ CancelBegins)

Spec == Init /\ [][Next]_vars /\ Fairness

-----------------------------------------------------------------------------
(***************************************************************************)
(* Safety.                                                                 *)
(***************************************************************************)
\* Nothing starts after a segment that did not succeed (T-12): a segment that
\* was ever unsuspended, by the sequencer or by --status, has only successful
\* predecessors, keeps them through cancellation, drift and recovery, and is never
\* recorded as segment-not-started, which would leave its run tree uncollected.
SegmentsInOrder ==
    \A k \in Segs : started[k] =>
        /\ \A d \in 1..(k - 1) : ledger[d] = "SUCCESS"
        /\ "notStarted" \notin steps[k]

\* Observed last to first, an attempt that nobody cancels never looks out of order,
\* although segments complete, are recovered and start between two observations
\* (_kubectl_classify_segments), so --status and --collect never refuse it.
ClassifiedInOrder == op = "classified" /\ ~cancelled => InOrder

\* Every segment's run ended, or is recorded as never started.
Settled == \A k \in Segs : ledger[k] \in Terminal \/ "notStarted" \in steps[k]

\* Local TERMINAL means that every segment has a final outcome, so nothing is left
\* for --status and --cancel, and --collect finds every outcome it needs.
TerminalIsSettled == local \in {"TERMINAL", "COLLECTION_IN_PROGRESS"} => Settled

\* The aggregate outcome of a collected attempt is SUCCESS exactly when every
\* segment succeeded, and an attempt that was cut short after successes only was
\* cancelled by a user or stopped by drift (R-25).
CollectedOutcomeAgrees ==
    imported =>
        /\ CollectedOutcome = "SUCCESS" <=> \A k \in Segs : ledger[k] = "SUCCESS"
        /\ CollectedOutcome = "CANCELLED" => cancelled
        /\ CollectedOutcome = "FAILED" => drifted \/ \E k \in Segs : ledger[k] = "FAILED"

\* The journal of a multi-segment attempt is true, however its commands and the
\* sequencer interleave: observation never looks out of order, a local TERMINAL
\* is settled, and the collected outcome is that of the segments.
JournalSound == ClassifiedInOrder /\ TerminalIsSettled /\ CollectedOutcomeAgrees

\* No command replaces the outcome of a segment (T-15: "overwrite a terminal ledger").
OutcomeKept == [][\A k \in Segs : ledger[k] \in Terminal => ledger'[k] = ledger[k]]_vars

\* Cancellation stops the sequencer before it classifies, "so no segment can start
\* after that observation".
NothingStartsDuringCancel == [][cmd = "cancel" /\ op # "cancelStop" => started' = started]_vars

-----------------------------------------------------------------------------
(***************************************************************************)
(* Liveness.                                                               *)
(***************************************************************************)
\* Every segment has ended, or one ended without success, so none after it starts.
Over == Settled \/ \E k \in Segs : ledger[k] \in Terminal \ {"SUCCESS"}

\* A cancellation that reached a segment whose coordinator never initialized its
\* cells, which --finalize-cancelled refuses.
CancelStuck == local = "CANCEL_REQUESTED" /\ \E k \in Segs : job[k] = "GONE" /\ ledger[k] = "EMPTY"

\* Drift handling died after it journaled a deletion: the segment turns out to
\* have succeeded, and --status records that only for a Job it did not delete.
DriftStuck == \E k \in Segs : steps[k] = {"deleted"} /\ ledger[k] = "SUCCESS"

\* A repeated --status, or a repeated --cancel, brings the attempt to its end,
\* also without the sequencer (T-11, T-14), but for the two dead ends above.
EventuallyOver == <>[](Over \/ CancelStuck \/ DriftStuck)
=============================================================================
