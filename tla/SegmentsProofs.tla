--------------------------- MODULE SegmentsProofs ---------------------------
(***************************************************************************)
(* Theorems about Segments for every number of segments and of interrupted *)
(* commands, with and without drift.                                       *)
(***************************************************************************)
EXTENDS Segments, WellFoundedInduction, TLAPS

\* _kubectl_current_segment has a result: some segment is the first that is not
\* Complete, or all are.
LEMMA CurrentIsFirst ==
    /\ Current \in 1..(S + 1)
    /\ Current \in Segs => view[Current] # "COMPLETE"
    /\ \A d \in 1..(Current - 1) : view[d] = "COMPLETE"
<1> DEFINE T == {k \in 1..(S + 1) : k \in Segs => view[k] # "COMPLETE"}
<1>1. S + 1 \in T /\ T \subseteq Nat
  BY SAssumption DEF Segs
<1>2. PICK m \in T : \A y \in T : ~ (<<y, m>> \in OpToRel(<, Nat))
  <2> HIDE DEF T
  <2> QED BY <1>1, WFMin, NatLessThanWellFounded
<1>3. \A y \in T : ~ (y < m)
  BY <1>1, <1>2 DEF OpToRel
<1>4. \A d \in 1..(m - 1) : view[d] = "COMPLETE"
  BY <1>3, SAssumption DEF Segs
<1>5. \E k \in 1..(S + 1) : /\ k \in Segs => view[k] # "COMPLETE"
                            /\ \A d \in 1..(k - 1) : view[d] = "COMPLETE"
  BY <1>4
<1> QED BY <1>5 DEF Current

\* The last segment that --collect gates is a segment.
LEMMA LastIsSegment == Last \in Segs
  BY CurrentIsFirst, SAssumption DEF Last, Segs

\* An observation is one of the states that a classification reports.
LEMMA ObserveType ==
    ASSUME TypeOK, NEW k \in Segs
    PROVE  Observe(k) \in Observed
<1>1. steps[k] \in SUBSET Steps /\ job[k] \in JobStates
  BY DEF TypeOK
<1>2. CASE "notStarted" \in steps[k]
  BY <1>2, <1>1 DEF Observe, Observed
<1>3. CASE "notStarted" \notin steps[k] /\ "succeeded" \in steps[k]
  BY <1>3, <1>1 DEF Observe, Observed
<1>4. CASE steps[k] = {"deleted"}
  BY <1>4, <1>1 DEF Observe, Observed
<1>5. CASE steps[k] = {}
  BY <1>5, <1>1 DEF Observe, Observed, JobStates
<1> QED BY <1>1, <1>2, <1>3, <1>4, <1>5 DEF Steps

\* A segment observed as Complete has a Complete Job, or a journaled success.
LEMMA ObserveComplete ==
    ASSUME TypeOK, NEW k \in Segs, Observe(k) = "COMPLETE"
    PROVE  job[k] = "COMPLETE" \/ "succeeded" \in steps[k]
<1>1. steps[k] \in SUBSET Steps
  BY DEF TypeOK
<1>2. CASE "notStarted" \in steps[k]
  BY <1>2 DEF Observe
<1>3. CASE steps[k] = {"deleted"}
  BY <1>3 DEF Observe
<1>4. CASE steps[k] = {}
  BY <1>4 DEF Observe
<1> QED BY <1>1, <1>2, <1>3, <1>4 DEF Steps

\* A segment observed as suspended has a suspended Job and no journal step; one
\* observed as never started has the step that says so.
LEMMA ObserveSuspended ==
    ASSUME TypeOK, NEW k \in Segs
    PROVE  /\ Observe(k) = "SUSPENDED" => job[k] = "SUSPENDED" /\ steps[k] = {}
           /\ Observe(k) = "NOT_STARTED" => "notStarted" \in steps[k]
<1>1. steps[k] \in SUBSET Steps /\ job[k] \in JobStates
  BY DEF TypeOK
<1>2. CASE "notStarted" \in steps[k]
  BY <1>2 DEF Observe
<1>3. CASE "notStarted" \notin steps[k] /\ "succeeded" \in steps[k]
  BY <1>3 DEF Observe
<1>4. CASE steps[k] = {"deleted"}
  BY <1>4 DEF Observe
<1>5. CASE steps[k] = {}
  BY <1>1, <1>5 DEF Observe, JobStates
<1> QED BY <1>1, <1>2, <1>3, <1>4, <1>5 DEF Steps

\* The UID-tested patch keeps the types of what it writes.
LEMMA UnsuspendType ==
    ASSUME TypeOK, NEW k \in Segs, Unsuspend(k)
    PROVE  job' \in [Segs -> JobStates] /\ started' \in [Segs -> BOOLEAN]
<1>1. job \in [Segs -> JobStates] /\ started \in [Segs -> BOOLEAN]
  BY DEF TypeOK
<1>2. job' \in [Segs -> JobStates]
  BY <1>1 DEF Unsuspend, JobStates
<1>3. (started[k] \/ job[k] = "SUSPENDED") \in BOOLEAN
  OBVIOUS
<1>4. started' \in [Segs -> BOOLEAN]
  BY <1>1, <1>3 DEF Unsuspend
<1> QED BY <1>2, <1>4

(***************************************************************************)
(* Type correctness needs to know that a command at work on a segment      *)
(* names one.                                                              *)
(***************************************************************************)
SegmentOps == Ops \ {"idle", "classified", "abandon", "import"}

AtSegment ==
    /\ op \in SegmentOps => at \in Segs
    /\ op = "abandon" => at # 0

\* Every step keeps the types and the segment that a command names.
LEMMA TypeStep ==
    ASSUME TypeOK, AtSegment, [Next]_vars
    PROVE  TypeOK' /\ AtSegment'
<1> USE SAssumption, DriftAssumption, DeathsAssumption DEF TypeOK, AtSegment, SegmentOps
<1> USE DEF Segs, Ops, Steps, SeqSteps, JobStates, LocalStates, Open, Terminal, Observed
<1>0. CASE UNCHANGED vars
  BY <1>0 DEF vars, cluster, journal, command
<1>1. CASE \E k \in Segs : Coordinate(k)
  <2>1. ledger' \in [Segs -> Open \cup Terminal]
    BY <1>1 DEF Coordinate
  <2> QED BY <1>1, <2>1 DEF Coordinate, journal, command
<1>2. CASE \E k \in Segs : JobEnds(k)
  BY <1>2 DEF JobEnds, journal, command
<1>3. CASE \E k \in Segs : JobLost(k)
  BY <1>3 DEF JobLost, journal, command
<1>4. CASE SequencerPolls
  BY <1>4 DEF SequencerPolls, cluster, journal, command
<1>5. CASE SequencerPatches
  <2>1. seq.at \in Segs
    BY <1>5
  <2>2. job' \in [Segs -> JobStates] /\ started' \in [Segs -> BOOLEAN]
    BY <1>5, <2>1, UnsuspendType DEF SequencerPatches
  <2>3. seq' \in [step : SeqSteps, at : Segs]
    BY <1>5 DEF SequencerPatches
  <2> QED BY <1>5, <2>2, <2>3 DEF SequencerPatches, journal, command
<1>6. CASE SequencerLost
  BY <1>6 DEF SequencerLost, cluster, journal, command
<1>7. CASE Classify
  BY <1>7, ObserveType DEF Classify, cluster, journal
<1>8. CASE ClassifyRefused
  BY <1>8 DEF ClassifyRefused, Ends, NoView, cluster, journal
<1>9. CASE StatusAdvances
  <2>1. Current \in 1..(S + 1)
    BY CurrentIsFirst
  <2>2. job' \in [Segs -> JobStates] /\ started' \in [Segs -> BOOLEAN]
    BY <1>9, <2>1, UnsuspendType DEF StatusAdvances
  <2> QED BY <1>9, <2>1, <2>2 DEF StatusAdvances, Go, Ends, NoView, journal
<1>10. CASE StatusReads
  BY <1>10 DEF StatusReads, Go, cluster, journal
<1>11. CASE StatusRecovers
  BY <1>11 DEF StatusRecovers, Go, RecoverLost, journal
<1>12. CASE StatusWatches
  BY <1>12 DEF StatusWatches, Go, StatusSeen, cluster, journal
<1>13. CASE StatusDrifts
  BY <1>13 DEF StatusDrifts, Go, StatusSeen, cluster, journal
<1>14. CASE StatusRecords
  BY <1>14 DEF StatusRecords, Ends, Record, NoView, cluster
<1>15. CASE DriftStops
  BY <1>15, ZenonT(90) DEF DriftStops, Go, StopSequencer, cluster, journal
<1>16. CASE DriftChecks
  <2>1. drifted' \in BOOLEAN
    BY <1>16 DEF DriftChecks
  <2> QED BY <1>16, <2>1 DEF DriftChecks, Go, Ends, NoView, cluster
<1>17. CASE DriftDeletes
  BY <1>17 DEF DriftDeletes, Go, DeleteJob, journal
<1>18. CASE DriftJournals
  BY <1>18 DEF DriftJournals, Go, Record, cluster
<1>19. CASE DriftRecovers
  BY <1>19 DEF DriftRecovers, Go, RecoverLost, journal
<1>20. CASE DriftRecords
  <2>1. CASE Record(at, "succeeded") /\ Ends
    BY <1>20, <2>1 DEF DriftRecords, Record, Ends, NoView, cluster
  <2>2. CASE Go("abandon", at + 1) /\ UNCHANGED <<steps, seen>>
    BY <1>20, <2>2 DEF DriftRecords, Go, cluster
  <2>3. CASE Ends /\ UNCHANGED steps
    BY <1>20, <2>3 DEF DriftRecords, Ends, NoView, cluster
  <2> QED BY <1>20, <2>1, <2>2, <2>3 DEF DriftRecords
<1>21. CASE CancelStops
  <2>1. seq' \in [step : SeqSteps, at : Segs]
    BY <1>21 DEF CancelStops, StopSequencer
  <2> QED BY <1>21, <2>1 DEF CancelStops, Go, cluster, journal
<1>22. CASE CancelSelects
  BY <1>22, CurrentIsFirst DEF CancelSelects, Go, cluster, journal
<1>23. CASE CancelReads
  BY <1>23 DEF CancelReads, Go, cluster, journal
<1>24. CASE CancelObserves
  BY <1>24 DEF CancelObserves, Go, cluster, journal
<1>25. CASE CancelDeletes
  BY <1>25 DEF CancelDeletes, Go, DeleteJob, journal
<1>26. CASE CancelJournals
  BY <1>26 DEF CancelJournals, Go, Record, cluster
<1>27. CASE CancelFinalizes
  BY <1>27 DEF CancelFinalizes, Go, Ends, NoView, journal
<1>28. CASE CancelRecords
  BY <1>28 DEF CancelRecords, Go, Ends, NoView, cluster
<1>29. CASE CollectSelects
  BY <1>29 DEF CollectSelects, Go, cluster, journal
<1>30. CASE CollectGate
  BY <1>30 DEF CollectGate, Go, RecoverLost, journal
<1>31. CASE CollectWaits
  BY <1>31, LastIsSegment DEF CollectWaits, Go, Ends, NoView, cluster, journal
<1>32. CASE CollectStops
  <2>1. seq' \in [step : SeqSteps, at : Segs]
    BY <1>32 DEF CollectStops, StopSequencer
  <2>2. Last + 1 \in 1..(S + 1)
    BY LastIsSegment
  <2> QED BY <1>32, <2>1, <2>2 DEF CollectStops, Go, cluster, journal
<1>33. CASE CollectImports
  BY <1>33 DEF CollectImports, Ends, NoView, cluster
<1>34. CASE Abandon
  BY <1>34 DEF Abandon, Go, Ends, Record, NoView, cluster
<1>35. CASE AbandonDeletes
  BY <1>35 DEF AbandonDeletes, Go, Record, DeleteJob
<1>36. CASE AbandonEnds
  BY <1>36 DEF AbandonEnds, Go, Ends, NoView, cluster
<1>37. CASE StatusBegins
  BY <1>37 DEF StatusBegins, Begin, NoView, cluster, journal
<1>38. CASE CancelBegins
  BY <1>38 DEF CancelBegins, Begin, NoView, cluster
<1>39. CASE CollectBegins
  BY <1>39 DEF CollectBegins, Begin, NoView, cluster, journal
<1>40. CASE CommandDies
  BY <1>40 DEF CommandDies, Ends, NoView, cluster, journal
<1>41. CASE Done
  BY <1>41 DEF Done, vars, cluster, journal, command
<1> QED
  BY <1>0, <1>1, <1>2, <1>3, <1>4, <1>5, <1>6, <1>7, <1>8, <1>9, <1>10, <1>11,
     <1>12, <1>13, <1>14, <1>15, <1>16, <1>17, <1>18, <1>19, <1>20, <1>21,
     <1>22, <1>23, <1>24, <1>25, <1>26, <1>27, <1>28, <1>29, <1>30, <1>31,
     <1>32, <1>33, <1>34, <1>35, <1>36, <1>37, <1>38, <1>39, <1>40, <1>41
  DEF Next, JobNext, SequencerNext, CommandNext, StatusNext, CancelNext, CollectNext, UserNext

\* The state after submission is well typed.
LEMMA InitType == Init => TypeOK /\ AtSegment
<1> SUFFICES ASSUME Init PROVE TypeOK /\ AtSegment
  OBVIOUS
<1> USE DEF Init
<1>1. /\ job \in [Segs -> JobStates] /\ ledger \in [Segs -> Open \cup Terminal]
      /\ view \in [Segs -> Observed \cup {"none"}]
  BY DEF JobStates, Open, Observed, NoView
<1>2. started \in [Segs -> BOOLEAN] /\ drifted \in BOOLEAN /\ cancelled \in BOOLEAN
      /\ imported \in BOOLEAN
  OBVIOUS
<1>3. steps \in [Segs -> SUBSET Steps] /\ seq \in [step : SeqSteps, at : Segs]
  BY SAssumption DEF SeqSteps, Segs
<1>4. /\ local \in LocalStates /\ cmd \in {"none", "status", "cancel", "collect"}
      /\ op \in Ops /\ at \in 0..(S + 1) /\ seen \in Open \cup Terminal \cup {"none"}
      /\ deaths \in 0..MaxDeaths
  BY SAssumption, DeathsAssumption DEF LocalStates, Ops
<1>5. AtSegment
  BY DEF AtSegment, SegmentOps
<1> QED BY <1>1, <1>2, <1>3, <1>4, <1>5 DEF TypeOK

\* Every reachable state of an attempt over several namespaces is well typed.
THEOREM SegmentsTypeCorrect == Spec => []TypeOK
<1>1. Init => TypeOK /\ AtSegment
  BY InitType
<1>2. TypeOK /\ AtSegment /\ [Next]_vars => (TypeOK /\ AtSegment)'
  BY TypeStep
<1> QED BY <1>1, <1>2, PTL DEF Spec

(***************************************************************************)
(* Outcomes.  Only the coordinator of an active Job and the two helpers    *)
(* write run.status, and none of them writes a terminal one.               *)
(***************************************************************************)
Kept == \A k \in Segs : ledger[k] \in Terminal => ledger'[k] = ledger[k]

\* Every step keeps the outcome of every segment.
LEMMA OutcomeStep ==
    ASSUME TypeOK, [Next]_vars
    PROVE  Kept
<1> USE DEF TypeOK, Kept, Open, Terminal
<1>0. CASE UNCHANGED vars
  BY <1>0 DEF vars, cluster, journal, command
<1>1. CASE \E k \in Segs : Coordinate(k)
  BY <1>1 DEF Coordinate
<1>2. CASE \E k \in Segs : JobEnds(k)
  BY <1>2 DEF JobEnds
<1>3. CASE \E k \in Segs : JobLost(k)
  BY <1>3 DEF JobLost
<1>4. CASE SequencerPolls
  BY <1>4 DEF SequencerPolls, cluster
<1>5. CASE SequencerPatches
  BY <1>5 DEF SequencerPatches
<1>6. CASE SequencerLost
  BY <1>6 DEF SequencerLost, cluster
<1>7. CASE Classify
  BY <1>7 DEF Classify, cluster
<1>8. CASE ClassifyRefused
  BY <1>8 DEF ClassifyRefused, cluster
<1>9. CASE StatusAdvances
  BY <1>9 DEF StatusAdvances
<1>10. CASE StatusReads
  BY <1>10 DEF StatusReads, cluster
<1>11. CASE StatusRecovers
  BY <1>11 DEF StatusRecovers, RecoverLost
<1>12. CASE StatusWatches
  BY <1>12 DEF StatusWatches, cluster
<1>13. CASE StatusDrifts
  BY <1>13 DEF StatusDrifts, cluster
<1>14. CASE StatusRecords
  BY <1>14 DEF StatusRecords, cluster
<1>15. CASE DriftStops
  BY <1>15 DEF DriftStops, cluster
<1>16. CASE DriftChecks
  BY <1>16 DEF DriftChecks, cluster
<1>17. CASE DriftDeletes
  BY <1>17 DEF DriftDeletes
<1>18. CASE DriftJournals
  BY <1>18 DEF DriftJournals, cluster
<1>19. CASE DriftRecovers
  BY <1>19 DEF DriftRecovers, RecoverLost
<1>20. CASE DriftRecords
  BY <1>20 DEF DriftRecords, cluster
<1>21. CASE CancelStops
  BY <1>21 DEF CancelStops, cluster
<1>22. CASE CancelSelects
  BY <1>22 DEF CancelSelects, cluster
<1>23. CASE CancelReads
  BY <1>23 DEF CancelReads, cluster
<1>24. CASE CancelObserves
  BY <1>24 DEF CancelObserves, cluster
<1>25. CASE CancelDeletes
  BY <1>25 DEF CancelDeletes
<1>26. CASE CancelJournals
  BY <1>26 DEF CancelJournals, cluster
<1>27. CASE CancelFinalizes
  BY <1>27 DEF CancelFinalizes
<1>28. CASE CancelRecords
  BY <1>28 DEF CancelRecords, cluster
<1>29. CASE CollectSelects
  BY <1>29 DEF CollectSelects, cluster
<1>30. CASE CollectGate
  BY <1>30 DEF CollectGate, RecoverLost
<1>31. CASE CollectWaits
  BY <1>31 DEF CollectWaits, cluster
<1>32. CASE CollectStops
  BY <1>32 DEF CollectStops, cluster
<1>33. CASE CollectImports
  BY <1>33 DEF CollectImports, cluster
<1>34. CASE Abandon
  BY <1>34 DEF Abandon, cluster
<1>35. CASE AbandonDeletes
  BY <1>35 DEF AbandonDeletes
<1>36. CASE AbandonEnds
  BY <1>36 DEF AbandonEnds, cluster
<1>37. CASE StatusBegins
  BY <1>37 DEF StatusBegins, cluster
<1>38. CASE CancelBegins
  BY <1>38 DEF CancelBegins, cluster
<1>39. CASE CollectBegins
  BY <1>39 DEF CollectBegins, cluster
<1>40. CASE CommandDies
  BY <1>40 DEF CommandDies, cluster
<1>41. CASE Done
  BY <1>41 DEF Done, vars, cluster, journal, command
<1> QED
  BY <1>0, <1>1, <1>2, <1>3, <1>4, <1>5, <1>6, <1>7, <1>8, <1>9, <1>10, <1>11,
     <1>12, <1>13, <1>14, <1>15, <1>16, <1>17, <1>18, <1>19, <1>20, <1>21,
     <1>22, <1>23, <1>24, <1>25, <1>26, <1>27, <1>28, <1>29, <1>30, <1>31,
     <1>32, <1>33, <1>34, <1>35, <1>36, <1>37, <1>38, <1>39, <1>40, <1>41
  DEF Next, JobNext, SequencerNext, CommandNext, StatusNext, CancelNext, CollectNext, UserNext

\* No coordinator, recovery, cancellation or collection replaces the outcome of a
\* segment, for every number of segments.
THEOREM OutcomesAreKept == Spec => OutcomeKept
<1>1. TypeOK /\ [Next]_vars => [Kept]_vars
  BY OutcomeStep
<1> QED BY <1>1, SegmentsTypeCorrect, PTL DEF Spec, OutcomeKept, Kept

(***************************************************************************)
(* The sequencer.  A command stops it before it deletes, abandons or       *)
(* cancels anything, and nothing starts it again.                          *)
(***************************************************************************)
StoppedOps ==
    {"driftCheck", "driftDelete", "driftJournal", "driftRecover", "driftRecord", "abandon",
     "abandonDelete", "cancelRead", "cancelObserve", "cancelDelete", "cancelJournal",
     "cancelFinalize", "cancelRecord", "import"}

SequencerStopped ==
    /\ op \in StoppedOps \/ (cmd = "cancel" /\ op # "cancelStop") => seq.step = "gone"
    /\ op = "idle" <=> cmd = "none"
    /\ op \in {"statusRead", "statusJob", "statusRecord"} => cmd = "status"

\* Every step keeps the sequencer stopped where a command relies on it.
LEMMA StoppedStep ==
    ASSUME TypeOK, SequencerStopped, [Next]_vars
    PROVE  SequencerStopped'
<1> USE DEF TypeOK, SequencerStopped, StoppedOps
<1>0. CASE UNCHANGED vars
  BY <1>0 DEF vars, cluster, journal, command
<1>1. CASE \E k \in Segs : Coordinate(k)
  BY <1>1 DEF Coordinate, journal, command
<1>2. CASE \E k \in Segs : JobEnds(k)
  BY <1>2 DEF JobEnds, journal, command
<1>3. CASE \E k \in Segs : JobLost(k)
  BY <1>3 DEF JobLost, journal, command
<1>4. CASE SequencerPolls
  BY <1>4 DEF SequencerPolls, cluster, journal, command
<1>5. CASE SequencerPatches
  BY <1>5 DEF SequencerPatches, journal, command
<1>6. CASE SequencerLost
  BY <1>6 DEF SequencerLost, cluster, journal, command
<1>7. CASE Classify
  BY <1>7 DEF Classify, cluster, journal
<1>8. CASE ClassifyRefused
  BY <1>8 DEF ClassifyRefused, Ends, cluster, journal
<1>9. CASE StatusAdvances
  BY <1>9 DEF StatusAdvances, Go, Ends, journal
<1>10. CASE StatusReads
  BY <1>10 DEF StatusReads, Go, cluster, journal
<1>11. CASE StatusRecovers
  BY <1>11 DEF StatusRecovers, Go, journal
<1>12. CASE StatusWatches
  BY <1>12 DEF StatusWatches, Go, cluster, journal
<1>13. CASE StatusDrifts
  BY <1>13 DEF StatusDrifts, Go, cluster, journal
<1>14. CASE StatusRecords
  BY <1>14 DEF StatusRecords, Ends, cluster
<1>15. CASE DriftStops
  BY <1>15 DEF DriftStops, Go, StopSequencer, cluster, journal
<1>16. CASE DriftChecks
  BY <1>16 DEF DriftChecks, Go, Ends, cluster
<1>17. CASE DriftDeletes
  BY <1>17 DEF DriftDeletes, Go, journal
<1>18. CASE DriftJournals
  BY <1>18 DEF DriftJournals, Go, cluster
<1>19. CASE DriftRecovers
  BY <1>19 DEF DriftRecovers, Go, journal
<1>20. CASE DriftRecords
  BY <1>20 DEF DriftRecords, Go, Ends, cluster
<1>21. CASE CancelStops
  BY <1>21 DEF CancelStops, Go, StopSequencer, cluster, journal
<1>22. CASE CancelSelects
  BY <1>22 DEF CancelSelects, Go, cluster, journal
<1>23. CASE CancelReads
  BY <1>23 DEF CancelReads, Go, cluster, journal
<1>24. CASE CancelObserves
  BY <1>24 DEF CancelObserves, Go, cluster, journal
<1>25. CASE CancelDeletes
  BY <1>25 DEF CancelDeletes, Go, journal
<1>26. CASE CancelJournals
  BY <1>26 DEF CancelJournals, Go, cluster
<1>27. CASE CancelFinalizes
  BY <1>27 DEF CancelFinalizes, Go, Ends, journal
<1>28. CASE CancelRecords
  BY <1>28 DEF CancelRecords, Go, Ends, cluster
<1>29. CASE CollectSelects
  BY <1>29 DEF CollectSelects, Go, cluster, journal
<1>30. CASE CollectGate
  BY <1>30 DEF CollectGate, Go, journal
<1>31. CASE CollectWaits
  BY <1>31 DEF CollectWaits, Go, Ends, cluster, journal
<1>32. CASE CollectStops
  BY <1>32 DEF CollectStops, Go, StopSequencer, cluster, journal
<1>33. CASE CollectImports
  BY <1>33 DEF CollectImports, Ends, cluster
<1>34. CASE Abandon
  BY <1>34 DEF Abandon, Go, Ends, cluster
<1>35. CASE AbandonDeletes
  BY <1>35 DEF AbandonDeletes, Go
<1>36. CASE AbandonEnds
  BY <1>36 DEF AbandonEnds, Go, Ends, cluster
<1>37. CASE StatusBegins
  BY <1>37 DEF StatusBegins, Begin, cluster, journal
<1>38. CASE CancelBegins
  BY <1>38 DEF CancelBegins, Begin, cluster
<1>39. CASE CollectBegins
  BY <1>39 DEF CollectBegins, Begin, cluster, journal
<1>40. CASE CommandDies
  BY <1>40 DEF CommandDies, Ends, cluster, journal
<1>41. CASE Done
  BY <1>41 DEF Done, vars, cluster, journal, command
<1> QED
  BY <1>0, <1>1, <1>2, <1>3, <1>4, <1>5, <1>6, <1>7, <1>8, <1>9, <1>10, <1>11,
     <1>12, <1>13, <1>14, <1>15, <1>16, <1>17, <1>18, <1>19, <1>20, <1>21,
     <1>22, <1>23, <1>24, <1>25, <1>26, <1>27, <1>28, <1>29, <1>30, <1>31,
     <1>32, <1>33, <1>34, <1>35, <1>36, <1>37, <1>38, <1>39, <1>40, <1>41
  DEF Next, JobNext, SequencerNext, CommandNext, StatusNext, CancelNext, CollectNext, UserNext

\* Once --cancel has stopped the sequencer, no segment starts while it works: the
\* sequencer is gone, and --status is kept out by the lock.
THEOREM CancelStartsNothing == Spec => NothingStartsDuringCancel
<1> DEFINE Quiet == cmd = "cancel" /\ op # "cancelStop" => started' = started
<1>1. Init => SequencerStopped
  BY DEF Init, SequencerStopped, StoppedOps
<1>2. TypeOK /\ SequencerStopped /\ [Next]_vars => SequencerStopped'
  BY StoppedStep
<1>3. ASSUME SequencerStopped, [Next]_vars PROVE Quiet
  <2> USE <1>3 DEF SequencerStopped
  <2>0. CASE UNCHANGED vars
    BY <2>0 DEF vars, cluster, journal, command
  <2>1. CASE \E k \in Segs : Coordinate(k)
    BY <2>1 DEF Coordinate
  <2>2. CASE \E k \in Segs : JobEnds(k)
    BY <2>2 DEF JobEnds
  <2>3. CASE \E k \in Segs : JobLost(k)
    BY <2>3 DEF JobLost
  <2>4. CASE SequencerPolls
    BY <2>4 DEF SequencerPolls, cluster
  <2>5. CASE SequencerPatches
    BY <2>5 DEF SequencerPatches
  <2>6. CASE SequencerLost
    BY <2>6 DEF SequencerLost, cluster
  <2>7. CASE Classify
    BY <2>7 DEF Classify, cluster
  <2>8. CASE ClassifyRefused
    BY <2>8 DEF ClassifyRefused, cluster
  <2>9. CASE StatusAdvances
    BY <2>9 DEF StatusAdvances
  <2>10. CASE StatusReads
    BY <2>10 DEF StatusReads, cluster
  <2>11. CASE StatusRecovers
    BY <2>11 DEF StatusRecovers
  <2>12. CASE StatusWatches
    BY <2>12 DEF StatusWatches, cluster
  <2>13. CASE StatusDrifts
    BY <2>13 DEF StatusDrifts, cluster
  <2>14. CASE StatusRecords
    BY <2>14 DEF StatusRecords, cluster
  <2>15. CASE DriftStops
    BY <2>15 DEF DriftStops, cluster
  <2>16. CASE DriftChecks
    BY <2>16 DEF DriftChecks, cluster
  <2>17. CASE DriftDeletes
    BY <2>17 DEF DriftDeletes
  <2>18. CASE DriftJournals
    BY <2>18 DEF DriftJournals, cluster
  <2>19. CASE DriftRecovers
    BY <2>19 DEF DriftRecovers
  <2>20. CASE DriftRecords
    BY <2>20 DEF DriftRecords, cluster
  <2>21. CASE CancelStops
    BY <2>21 DEF CancelStops, cluster
  <2>22. CASE CancelSelects
    BY <2>22 DEF CancelSelects, cluster
  <2>23. CASE CancelReads
    BY <2>23 DEF CancelReads, cluster
  <2>24. CASE CancelObserves
    BY <2>24 DEF CancelObserves, cluster
  <2>25. CASE CancelDeletes
    BY <2>25 DEF CancelDeletes
  <2>26. CASE CancelJournals
    BY <2>26 DEF CancelJournals, cluster
  <2>27. CASE CancelFinalizes
    BY <2>27 DEF CancelFinalizes
  <2>28. CASE CancelRecords
    BY <2>28 DEF CancelRecords, cluster
  <2>29. CASE CollectSelects
    BY <2>29 DEF CollectSelects, cluster
  <2>30. CASE CollectGate
    BY <2>30 DEF CollectGate
  <2>31. CASE CollectWaits
    BY <2>31 DEF CollectWaits, cluster
  <2>32. CASE CollectStops
    BY <2>32 DEF CollectStops, cluster
  <2>33. CASE CollectImports
    BY <2>33 DEF CollectImports, cluster
  <2>34. CASE Abandon
    BY <2>34 DEF Abandon, cluster
  <2>35. CASE AbandonDeletes
    BY <2>35 DEF AbandonDeletes
  <2>36. CASE AbandonEnds
    BY <2>36 DEF AbandonEnds, cluster
  <2>37. CASE StatusBegins
    BY <2>37 DEF StatusBegins, cluster
  <2>38. CASE CancelBegins
    BY <2>38 DEF CancelBegins, cluster
  <2>39. CASE CollectBegins
    BY <2>39 DEF CollectBegins, cluster
  <2>40. CASE CommandDies
    BY <2>40 DEF CommandDies, cluster
  <2>41. CASE Done
    BY <2>41 DEF Done, vars, cluster, journal, command
  <2> QED
    BY <2>0, <2>1, <2>2, <2>3, <2>4, <2>5, <2>6, <2>7, <2>8, <2>9, <2>10, <2>11,
       <2>12, <2>13, <2>14, <2>15, <2>16, <2>17, <2>18, <2>19, <2>20, <2>21,
       <2>22, <2>23, <2>24, <2>25, <2>26, <2>27, <2>28, <2>29, <2>30, <2>31,
       <2>32, <2>33, <2>34, <2>35, <2>36, <2>37, <2>38, <2>39, <2>40, <2>41
    DEF Next, JobNext, SequencerNext, CommandNext, StatusNext, CancelNext, CollectNext, UserNext
<1>4. SequencerStopped /\ [Next]_vars => [Quiet]_vars
  BY <1>3
<1> QED BY <1>1, <1>2, <1>4, SegmentsTypeCorrect, PTL DEF Spec, NothingStartsDuringCancel

(***************************************************************************)
(* The order of the segments.  Who starts a segment (the sequencer, or     *)
(* --status on its classification) relies on evidence that an earlier one  *)
(* succeeded: a Complete Job, the journal step segment-succeeded, the run  *)
(* status it read, or its own progress.  Each of these is true and, as     *)
(* outcomes are kept, stays true.                                          *)
(***************************************************************************)
Succeeded(k) == ledger[k] = "SUCCESS"

Evidence ==
    /\ \A k \in Segs : job[k] = "COMPLETE" => Succeeded(k)
    /\ \A k \in Segs : "succeeded" \in steps[k] => Succeeded(k)
    /\ \A k \in Segs : view[k] = "COMPLETE" => Succeeded(k)
    /\ op \in {"statusJob", "statusRecord"} /\ seen = "SUCCESS" => Succeeded(at)
    /\ seq.step \in {"observe", "patch"} => \A d \in 1..(seq.at - 1) : Succeeded(d)

\* A segment recorded as never started cannot start: the sequencer is gone, and a
\* classification in progress does not see its Job as suspended.
NeverStarted ==
    /\ \A k \in Segs : job[k] = "SUSPENDED" => ~started[k]
    /\ \A k \in Segs : "notStarted" \in steps[k] => ~started[k] /\ seq.step = "gone"
    /\ op \in {"cancelStop", "classify", "classified"} =>
          \A k \in Segs : view[k] = "SUSPENDED" => "notStarted" \notin steps[k]

Predecessors == \A k \in Segs : started[k] => \A d \in 1..(k - 1) : Succeeded(d)

\* Every step keeps the evidence of success true.
LEMMA EvidenceStep ==
    ASSUME TypeOK, AtSegment, Evidence, [Next]_vars
    PROVE  Evidence'
<1> USE OutcomeStep, SAssumption
    DEF TypeOK, AtSegment, SegmentOps, Ops, Evidence, Succeeded, Kept, Segs, Terminal, Open
<1>0. CASE UNCHANGED vars
  BY <1>0 DEF vars, cluster, journal, command
<1>1. CASE \E k \in Segs : Coordinate(k)
  BY <1>1 DEF Coordinate, journal, command
<1>2. CASE \E k \in Segs : JobEnds(k)
  BY <1>2 DEF JobEnds, journal, command
<1>3. CASE \E k \in Segs : JobLost(k)
  BY <1>3 DEF JobLost, journal, command
<1>4. CASE SequencerPolls
  BY <1>4 DEF SequencerPolls, cluster, journal, command
<1>5. CASE SequencerPatches
  BY <1>5 DEF SequencerPatches, Unsuspend, journal, command
<1>6. CASE SequencerLost
  BY <1>6 DEF SequencerLost, cluster, journal, command
<1>7. CASE Classify
  BY <1>7, ObserveComplete DEF Classify, cluster, journal, JobStates
<1>8. CASE ClassifyRefused
  BY <1>8 DEF ClassifyRefused, Ends, NoView, cluster, journal
<1>9. CASE StatusAdvances
  BY <1>9 DEF StatusAdvances, Go, Ends, Unsuspend, NoView, journal
<1>10. CASE StatusReads
  BY <1>10 DEF StatusReads, Go, cluster, journal
<1>11. CASE StatusRecovers
  BY <1>11 DEF StatusRecovers, Go, RecoverLost, journal
<1>12. CASE StatusWatches
  BY <1>12 DEF StatusWatches, Go, StatusSeen, cluster, journal
<1>13. CASE StatusDrifts
  BY <1>13 DEF StatusDrifts, Go, StatusSeen, cluster, journal
<1>14. CASE StatusRecords
  BY <1>14 DEF StatusRecords, Ends, Record, NoView, cluster
<1>15. CASE DriftStops
  BY <1>15 DEF DriftStops, Go, StopSequencer, cluster, journal
<1>16. CASE DriftChecks
  BY <1>16 DEF DriftChecks, Go, Ends, NoView, cluster
<1>17. CASE DriftDeletes
  BY <1>17 DEF DriftDeletes, Go, DeleteJob, journal
<1>18. CASE DriftJournals
  BY <1>18 DEF DriftJournals, Go, Record, cluster
<1>19. CASE DriftRecovers
  BY <1>19 DEF DriftRecovers, Go, RecoverLost, journal
<1>20. CASE DriftRecords
  BY <1>20 DEF DriftRecords, Go, Ends, Record, NoView, cluster
<1>21. CASE CancelStops
  BY <1>21 DEF CancelStops, Go, StopSequencer, cluster, journal
<1>22. CASE CancelSelects
  BY <1>22 DEF CancelSelects, Go, cluster, journal
<1>23. CASE CancelReads
  BY <1>23 DEF CancelReads, Go, cluster, journal
<1>24. CASE CancelObserves
  BY <1>24 DEF CancelObserves, Go, cluster, journal
<1>25. CASE CancelDeletes
  BY <1>25 DEF CancelDeletes, Go, DeleteJob, journal
<1>26. CASE CancelJournals
  BY <1>26 DEF CancelJournals, Go, Record, cluster
<1>27. CASE CancelFinalizes
  BY <1>27 DEF CancelFinalizes, Go, Ends, NoView, journal
<1>28. CASE CancelRecords
  BY <1>28 DEF CancelRecords, Go, Ends, NoView, cluster
<1>29. CASE CollectSelects
  BY <1>29 DEF CollectSelects, Go, cluster, journal
<1>30. CASE CollectGate
  BY <1>30 DEF CollectGate, Go, RecoverLost, journal
<1>31. CASE CollectWaits
  BY <1>31 DEF CollectWaits, Go, Ends, NoView, cluster, journal
<1>32. CASE CollectStops
  BY <1>32 DEF CollectStops, Go, StopSequencer, cluster, journal
<1>33. CASE CollectImports
  BY <1>33 DEF CollectImports, Ends, NoView, cluster
<1>34. CASE Abandon
  BY <1>34 DEF Abandon, Go, Ends, Record, NoView, cluster
<1>35. CASE AbandonDeletes
  BY <1>35 DEF AbandonDeletes, Go, Record, DeleteJob
<1>36. CASE AbandonEnds
  BY <1>36 DEF AbandonEnds, Go, Ends, NoView, cluster
<1>37. CASE StatusBegins
  BY <1>37 DEF StatusBegins, Begin, NoView, cluster, journal
<1>38. CASE CancelBegins
  BY <1>38 DEF CancelBegins, Begin, NoView, cluster
<1>39. CASE CollectBegins
  BY <1>39 DEF CollectBegins, Begin, NoView, cluster, journal
<1>40. CASE CommandDies
  BY <1>40 DEF CommandDies, Ends, NoView, cluster, journal
<1>41. CASE Done
  BY <1>41 DEF Done, vars, cluster, journal, command
<1> QED
  BY <1>0, <1>1, <1>2, <1>3, <1>4, <1>5, <1>6, <1>7, <1>8, <1>9, <1>10, <1>11,
     <1>12, <1>13, <1>14, <1>15, <1>16, <1>17, <1>18, <1>19, <1>20, <1>21,
     <1>22, <1>23, <1>24, <1>25, <1>26, <1>27, <1>28, <1>29, <1>30, <1>31,
     <1>32, <1>33, <1>34, <1>35, <1>36, <1>37, <1>38, <1>39, <1>40, <1>41
  DEF Next, JobNext, SequencerNext, CommandNext, StatusNext, CancelNext, CollectNext, UserNext

\* Every step keeps what is recorded as never started from starting.
LEMMA NeverStartedStep ==
    ASSUME TypeOK, AtSegment, SequencerStopped, NeverStarted, [Next]_vars
    PROVE  NeverStarted'
<1> USE SAssumption
    DEF TypeOK, AtSegment, SegmentOps, Ops, SequencerStopped, StoppedOps, NeverStarted, Segs
<1>0. CASE UNCHANGED vars
  BY <1>0 DEF vars, cluster, journal, command
<1>1. CASE \E k \in Segs : Coordinate(k)
  BY <1>1 DEF Coordinate, journal, command
<1>2. CASE \E k \in Segs : JobEnds(k)
  BY <1>2 DEF JobEnds, journal, command
<1>3. CASE \E k \in Segs : JobLost(k)
  BY <1>3 DEF JobLost, journal, command
<1>4. CASE SequencerPolls
  BY <1>4 DEF SequencerPolls, cluster, journal, command
<1>5. CASE SequencerPatches
  BY <1>5 DEF SequencerPatches, Unsuspend, journal, command
<1>6. CASE SequencerLost
  BY <1>6 DEF SequencerLost, cluster, journal, command
<1>7. CASE Classify
  BY <1>7, ObserveSuspended DEF Classify, cluster, journal
<1>8. CASE ClassifyRefused
  BY <1>8 DEF ClassifyRefused, Ends, NoView, cluster, journal
<1>9. CASE StatusAdvances
  BY <1>9, CurrentIsFirst DEF StatusAdvances, Go, Ends, Unsuspend, NoView, journal
<1>10. CASE StatusReads
  BY <1>10 DEF StatusReads, Go, cluster, journal
<1>11. CASE StatusRecovers
  BY <1>11 DEF StatusRecovers, Go, RecoverLost, journal
<1>12. CASE StatusWatches
  BY <1>12 DEF StatusWatches, Go, StatusSeen, cluster, journal
<1>13. CASE StatusDrifts
  BY <1>13 DEF StatusDrifts, Go, StatusSeen, cluster, journal
<1>14. CASE StatusRecords
  <2>1. \A k \in Segs : "notStarted" \in steps'[k] <=> "notStarted" \in steps[k]
    BY <1>14 DEF StatusRecords, Record
  <2>2. view' = NoView /\ UNCHANGED <<job, started, seq>>
    BY <1>14 DEF StatusRecords, Ends, cluster
  <2> QED BY <2>1, <2>2 DEF NoView
<1>15. CASE DriftStops
  BY <1>15 DEF DriftStops, Go, StopSequencer, cluster, journal
<1>16. CASE DriftChecks
  BY <1>16 DEF DriftChecks, Go, Ends, NoView, cluster
<1>17. CASE DriftDeletes
  BY <1>17 DEF DriftDeletes, Go, DeleteJob, journal
<1>18. CASE DriftJournals
  BY <1>18 DEF DriftJournals, Go, Record, cluster
<1>19. CASE DriftRecovers
  BY <1>19 DEF DriftRecovers, Go, RecoverLost, journal
<1>20. CASE DriftRecords
  BY <1>20 DEF DriftRecords, Go, Ends, Record, NoView, cluster
<1>21. CASE CancelStops
  BY <1>21 DEF CancelStops, Go, StopSequencer, cluster, journal
<1>22. CASE CancelSelects
  BY <1>22 DEF CancelSelects, Go, cluster, journal
<1>23. CASE CancelReads
  BY <1>23 DEF CancelReads, Go, cluster, journal
<1>24. CASE CancelObserves
  BY <1>24 DEF CancelObserves, Go, cluster, journal
<1>25. CASE CancelDeletes
  BY <1>25 DEF CancelDeletes, Go, DeleteJob, journal
<1>26. CASE CancelJournals
  BY <1>26 DEF CancelJournals, Go, Record, cluster
<1>27. CASE CancelFinalizes
  BY <1>27 DEF CancelFinalizes, Go, Ends, NoView, journal
<1>28. CASE CancelRecords
  BY <1>28 DEF CancelRecords, Go, Ends, NoView, cluster
<1>29. CASE CollectSelects
  BY <1>29 DEF CollectSelects, Go, cluster, journal
<1>30. CASE CollectGate
  BY <1>30 DEF CollectGate, Go, RecoverLost, journal
<1>31. CASE CollectWaits
  BY <1>31 DEF CollectWaits, Go, Ends, NoView, cluster, journal
<1>32. CASE CollectStops
  BY <1>32 DEF CollectStops, Go, StopSequencer, cluster, journal
<1>33. CASE CollectImports
  BY <1>33 DEF CollectImports, Ends, NoView, cluster
<1>34. CASE Abandon
  BY <1>34, ObserveSuspended DEF Abandon, Go, Ends, Record, NoView, cluster
<1>35. CASE AbandonDeletes
  BY <1>35 DEF AbandonDeletes, Go, Record, DeleteJob
<1>36. CASE AbandonEnds
  BY <1>36 DEF AbandonEnds, Go, Ends, NoView, cluster
<1>37. CASE StatusBegins
  BY <1>37 DEF StatusBegins, Begin, NoView, cluster, journal
<1>38. CASE CancelBegins
  BY <1>38 DEF CancelBegins, Begin, NoView, cluster
<1>39. CASE CollectBegins
  BY <1>39 DEF CollectBegins, Begin, NoView, cluster, journal
<1>40. CASE CommandDies
  BY <1>40 DEF CommandDies, Ends, NoView, cluster, journal
<1>41. CASE Done
  BY <1>41 DEF Done, vars, cluster, journal, command
<1> QED
  BY <1>0, <1>1, <1>2, <1>3, <1>4, <1>5, <1>6, <1>7, <1>8, <1>9, <1>10, <1>11,
     <1>12, <1>13, <1>14, <1>15, <1>16, <1>17, <1>18, <1>19, <1>20, <1>21,
     <1>22, <1>23, <1>24, <1>25, <1>26, <1>27, <1>28, <1>29, <1>30, <1>31,
     <1>32, <1>33, <1>34, <1>35, <1>36, <1>37, <1>38, <1>39, <1>40, <1>41
  DEF Next, JobNext, SequencerNext, CommandNext, StatusNext, CancelNext, CollectNext, UserNext

\* Every start has only successful predecessors, and every step keeps them.
LEMMA PredecessorsStep ==
    ASSUME TypeOK, Evidence, Predecessors, [Next]_vars
    PROVE  Predecessors'
<1> USE OutcomeStep, SAssumption DEF TypeOK, Evidence, Predecessors, Succeeded, Kept, Segs, Terminal
<1>0. CASE UNCHANGED vars
  BY <1>0 DEF vars, cluster, journal, command
<1>1. CASE \E k \in Segs : Coordinate(k)
  BY <1>1 DEF Coordinate
<1>2. CASE \E k \in Segs : JobEnds(k)
  BY <1>2 DEF JobEnds
<1>3. CASE \E k \in Segs : JobLost(k)
  BY <1>3 DEF JobLost
<1>4. CASE SequencerPolls
  BY <1>4 DEF SequencerPolls, cluster
<1>5. CASE SequencerPatches
  BY <1>5 DEF SequencerPatches, Unsuspend
<1>6. CASE SequencerLost
  BY <1>6 DEF SequencerLost, cluster
<1>7. CASE Classify
  BY <1>7 DEF Classify, cluster
<1>8. CASE ClassifyRefused
  BY <1>8 DEF ClassifyRefused, cluster
<1>9. CASE StatusAdvances
  BY <1>9, CurrentIsFirst DEF StatusAdvances, Unsuspend
<1>10. CASE StatusReads
  BY <1>10 DEF StatusReads, cluster
<1>11. CASE StatusRecovers
  BY <1>11 DEF StatusRecovers
<1>12. CASE StatusWatches
  BY <1>12 DEF StatusWatches, cluster
<1>13. CASE StatusDrifts
  BY <1>13 DEF StatusDrifts, cluster
<1>14. CASE StatusRecords
  BY <1>14 DEF StatusRecords, cluster
<1>15. CASE DriftStops
  BY <1>15 DEF DriftStops, cluster
<1>16. CASE DriftChecks
  BY <1>16 DEF DriftChecks, cluster
<1>17. CASE DriftDeletes
  BY <1>17 DEF DriftDeletes
<1>18. CASE DriftJournals
  BY <1>18 DEF DriftJournals, cluster
<1>19. CASE DriftRecovers
  BY <1>19 DEF DriftRecovers
<1>20. CASE DriftRecords
  BY <1>20 DEF DriftRecords, cluster
<1>21. CASE CancelStops
  BY <1>21 DEF CancelStops, cluster
<1>22. CASE CancelSelects
  BY <1>22 DEF CancelSelects, cluster
<1>23. CASE CancelReads
  BY <1>23 DEF CancelReads, cluster
<1>24. CASE CancelObserves
  BY <1>24 DEF CancelObserves, cluster
<1>25. CASE CancelDeletes
  BY <1>25 DEF CancelDeletes
<1>26. CASE CancelJournals
  BY <1>26 DEF CancelJournals, cluster
<1>27. CASE CancelFinalizes
  BY <1>27 DEF CancelFinalizes
<1>28. CASE CancelRecords
  BY <1>28 DEF CancelRecords, cluster
<1>29. CASE CollectSelects
  BY <1>29 DEF CollectSelects, cluster
<1>30. CASE CollectGate
  BY <1>30 DEF CollectGate
<1>31. CASE CollectWaits
  BY <1>31 DEF CollectWaits, cluster
<1>32. CASE CollectStops
  BY <1>32 DEF CollectStops, cluster
<1>33. CASE CollectImports
  BY <1>33 DEF CollectImports, cluster
<1>34. CASE Abandon
  BY <1>34 DEF Abandon, cluster
<1>35. CASE AbandonDeletes
  BY <1>35 DEF AbandonDeletes
<1>36. CASE AbandonEnds
  BY <1>36 DEF AbandonEnds, cluster
<1>37. CASE StatusBegins
  BY <1>37 DEF StatusBegins, cluster
<1>38. CASE CancelBegins
  BY <1>38 DEF CancelBegins, cluster
<1>39. CASE CollectBegins
  BY <1>39 DEF CollectBegins, cluster
<1>40. CASE CommandDies
  BY <1>40 DEF CommandDies, cluster
<1>41. CASE Done
  BY <1>41 DEF Done, vars, cluster, journal, command
<1> QED
  BY <1>0, <1>1, <1>2, <1>3, <1>4, <1>5, <1>6, <1>7, <1>8, <1>9, <1>10, <1>11,
     <1>12, <1>13, <1>14, <1>15, <1>16, <1>17, <1>18, <1>19, <1>20, <1>21,
     <1>22, <1>23, <1>24, <1>25, <1>26, <1>27, <1>28, <1>29, <1>30, <1>31,
     <1>32, <1>33, <1>34, <1>35, <1>36, <1>37, <1>38, <1>39, <1>40, <1>41
  DEF Next, JobNext, SequencerNext, CommandNext, StatusNext, CancelNext, CollectNext, UserNext

\* Nothing starts after a segment that did not succeed, and no started segment is
\* recorded as never started, for every number of segments.
THEOREM NothingStartsOutOfOrder == Spec => []SegmentsInOrder
<1> DEFINE Inv == TypeOK /\ AtSegment /\ SequencerStopped /\ Evidence /\ NeverStarted /\ Predecessors
<1>1. Init => TypeOK /\ AtSegment
  BY InitType
<1>2. Init => SequencerStopped /\ Evidence /\ NeverStarted /\ Predecessors
  BY SAssumption
     DEF Init, SequencerStopped, StoppedOps, Evidence, NeverStarted, Predecessors, Succeeded,
         NoView, Segs
<1>3. Inv /\ [Next]_vars => Inv'
  BY TypeStep, StoppedStep, EvidenceStep, NeverStartedStep, PredecessorsStep
<1>4. Inv => SegmentsInOrder
  BY DEF NeverStarted, Predecessors, Succeeded, SegmentsInOrder
<1> QED BY <1>1, <1>2, <1>3, <1>4, PTL DEF Spec

-----------------------------------------------------------------------------
(* The journal of an attempt over several namespaces is true.  A command   *)
(* acts on what it classified or read some steps ago, while Jobs end and   *)
(* the sequencer starts the next one.  Three invariants say what of it     *)
(* still holds: nobody but a cancellation is taken for one (Causes), a     *)
(* classification from last to first stays in order (Observations), and    *)
(* what a command went past has an outcome, what it has yet to abandon     *)
(* none but the queue's (Progress).                                        *)


StatusOps == {"statusRead", "statusJob", "statusRecord", "driftStop", "driftCheck",
              "driftDelete", "driftJournal", "driftRecover", "driftRecord"}
DriftOps == {"driftDelete", "driftJournal", "driftRecover", "driftRecord"}
CancelOps == {"cancelRead", "cancelObserve", "cancelDelete", "cancelJournal",
              "cancelFinalize", "cancelRecord"}
GateOps == {"gate", "gateWait", "collectStop"}
AbandonOps == {"abandon", "abandonDelete"}

\* A segment that ran and failed; and all of them succeeded.  Both stay true.
FailedRun == \E k \in Segs : started[k] /\ ledger[k] = "FAILED"
AllSucceeded == \A k \in Segs : Succeeded(k)

\* Only --cancel makes an attempt look cancelled and only drift handling makes it
\* look drifted; without either, a segment is skipped after a failed run only.
Causes ==
    /\ op \in StatusOps => cmd = "status"
    /\ op \in CancelOps \cup {"cancelStop"} => cmd = "cancel"
    /\ op \in GateOps \cup {"import"} => cmd = "collect"
    /\ cmd = "cancel" => cancelled
    /\ local = "CANCEL_REQUESTED" => cancelled
    /\ \A k \in Segs : ledger[k] = "CANCELLED" => cancelled
    /\ op \in DriftOps => drifted
    /\ \A k \in Segs : job[k] \in {"ACTIVE", "COMPLETE"} => started[k]
    /\ \A k \in Segs : ledger[k] \in {"PREPARED", "RUNNING", "SUCCESS"} => started[k]
    /\ ~drifted /\ ~cancelled =>
          /\ \A k \in Segs : job[k] \in {"FAILED", "GONE"} \/ ledger[k] = "FAILED" =>
                started[k] \/ "notStarted" \in steps[k]
          /\ (\E k \in Segs : "notStarted" \in steps[k]) => FailedRun
          /\ op \in AbandonOps \cup {"import"} => FailedRun \/ AllSucceeded
          /\ local \in {"TERMINAL", "COLLECTION_IN_PROGRESS"} => FailedRun \/ AllSucceeded

\* Observed now, segment k has left the queue.
Begun(k) == Observe(k) \notin {"SUSPENDED", "NOT_STARTED"}

\* A success that the journal knows hides behind segment-not-started only.
NotRecorded(k) == "succeeded" \in steps[k] => "notStarted" \in steps[k]

\* What was skipped or deleted came after the end of the sequencer.
SequencerGone == \A k \in Segs : {"notStarted", "deleted"} \cap steps[k] # {} => seq.step = "gone"

\* A classification fills the view from last to first.
Viewing ==
    /\ op = "cancelStop" => \A k \in Segs : view[k] = "none"
    /\ op = "classify" => \A k \in Segs : view[k] = "none" <=> k <= at
    /\ op \notin {"idle", "classify", "cancelStop"} => \A k \in Segs : view[k] # "none"

\* Every segment before a begun one, and before the sequencer's, is observed Complete.
InSequence ==
    /\ \A k \in Segs : Begun(k) => \A d \in 1..(k - 1) : Observe(d) = "COMPLETE"
    /\ seq.step \in {"observe", "patch"} => \A d \in 1..(seq.at - 1) : Observe(d) = "COMPLETE"

\* What a classification has observed can still be observed, and is in order.
ViewHolds ==
    op \in {"classify", "classified"} => \A k \in Segs :
        /\ view[k] = "COMPLETE" => Observe(k) = "COMPLETE"
        /\ view[k] \notin {"none", "COMPLETE"} => NotRecorded(k)
        /\ view[k] \notin {"none", "SUSPENDED", "NOT_STARTED"} =>
              /\ Begun(k)
              /\ \A d \in 1..(k - 1) : view[d] \in {"none", "COMPLETE"}

\* --status works on the segment after the Complete ones, and drift stops there.
StatusHolds ==
    /\ op \in StatusOps =>
          /\ \A d \in 1..(at - 1) : Observe(d) = "COMPLETE"
          /\ NotRecorded(at)
          /\ view[at] \notin {"SUSPENDED", "NOT_STARTED"} => Begun(at)
    /\ op \in DriftOps => \A k \in Segs : k > at => ~Begun(k)
    /\ op \in {"driftRecover", "driftRecord"} => "deleted" \in steps[at]

Observations ==
    /\ SequencerGone
    /\ Viewing
    /\ ~cancelled => InSequence /\ ViewHolds /\ StatusHolds

\* A segment whose Job was deleted without ever having been skipped.
Unskipped(k) == "deleted" \in steps[k] => "notStarted" \in steps[k]

HasOutcome(k) == ledger[k] \in Terminal \/ "notStarted" \in steps[k]

\* What a command went past has an outcome.
Passed ==
    /\ op \in StatusOps \cup CancelOps \cup GateOps => \A d \in Segs : d < at => Succeeded(d)
    /\ op \in GateOps => at <= Last
    /\ op = "gateWait" /\ seen \in Terminal => ledger[at] = seen
    /\ op = "collectStop" => at = Last /\ ledger[at] \in Terminal
    /\ op = "collectStop" /\ Last < S /\ ledger[at] = "SUCCESS" => local # "SUBMITTED"
    /\ op \in AbandonOps => \A d \in Segs : d < at => HasOutcome(d)
    /\ op = "abandonDelete" => "notStarted" \in steps[at]
    /\ op = "import" => Settled
    /\ imported => local = "COLLECTION_IN_PROGRESS"
    /\ TerminalIsSettled

\* What a command has yet to abandon is still queued or was skipped before.
Remaining ==
    /\ op \in {"cancelStop", "classify", "classified"} =>
          \A k \in Segs : view[k] \in {"SUSPENDED", "NOT_STARTED"} => Unskipped(k)
    /\ op \in StatusOps \cup CancelOps => \A k \in Segs : k > at => Unskipped(k)
    /\ op \in GateOps => \A k \in Segs : k > Last => Unskipped(k)
    /\ op = "abandon" => \A k \in Segs : k >= at => Unskipped(k)
    /\ op = "abandonDelete" => \A k \in Segs : k > at => Unskipped(k)

Progress == Passed /\ Remaining

\* A started segment stays started; a failed run, and full success, stay.
\* What a record adds to the journal.
LEMMA RecordAdds ==
    ASSUME TypeOK, NEW k \in Segs, NEW s, Record(k, s)
    PROVE  /\ steps'[k] = steps[k] \cup {s}
           /\ \A d \in Segs \ {k} : steps'[d] = steps[d]
  BY DEF TypeOK, Record

\* The patch starts a suspended Job and touches no other.
LEMMA UnsuspendStarts ==
    ASSUME TypeOK, NEW k \in Segs, Unsuspend(k)
    PROVE  /\ job[k] = "SUSPENDED" => job'[k] = "ACTIVE" /\ started'[k]
           /\ job[k] # "SUSPENDED" => job'[k] = job[k]
           /\ started[k] => started'[k]
           /\ \A d \in Segs \ {k} : job'[d] = job[d] /\ started'[d] = started[d]
<1>1. job \in [Segs -> JobStates] /\ started \in [Segs -> BOOLEAN]
  BY DEF TypeOK
<1>2. (started[k] \/ job[k] = "SUSPENDED") \in BOOLEAN
  OBVIOUS
<1>3. started'[k] = (started[k] \/ job[k] = "SUSPENDED")
  BY <1>1 DEF Unsuspend
<1>4. job'[k] = IF job[k] = "SUSPENDED" THEN "ACTIVE" ELSE job[k]
  BY <1>1 DEF Unsuspend
<1>5. \A d \in Segs \ {k} : job'[d] = job[d] /\ started'[d] = started[d]
  BY <1>1, <1>2 DEF Unsuspend
<1> QED BY <1>3, <1>4, <1>5

\* --status starts the segment it classified as suspended, or starts nothing.
LEMMA AdvanceCases ==
    ASSUME TypeOK, StatusAdvances
    PROVE  /\ op = "classified" /\ cmd = "status" /\ InOrder
           /\ UNCHANGED <<ledger, journal, seq, deaths>>
           /\ \/ Ends /\ UNCHANGED <<job, started>>
              \/ /\ Current \in Segs
                 /\ Go("statusRead", Current)
                 /\ seen' = seen
                 /\ \/ Unsuspend(Current) /\ view[Current] = "SUSPENDED"
                    \/ UNCHANGED <<job, started>>
  BY CurrentIsFirst DEF StatusAdvances, Segs

\* --status records a recovered success, and classifies again, or ends.
LEMMA RecordsCases ==
    ASSUME TypeOK, AtSegment, StatusRecords
    PROVE  /\ op = "statusRecord" /\ at \in Segs
           /\ UNCHANGED <<cluster, drifted, cancelled, local, imported, seq, deaths>>
           /\ \/ /\ seen = "SUCCESS" /\ at < S
                 /\ steps'[at] = steps[at] \cup {"succeeded"}
                 /\ \A d \in Segs \ {at} : steps'[d] = steps[d]
                 /\ op' = "classify" /\ at' = S /\ view' = NoView /\ seen' = "none"
                 /\ cmd' = cmd
              \/ Ends /\ steps' = steps
<1>1. op = "statusRecord" /\ at \in Segs
  BY DEF StatusRecords, AtSegment, SegmentOps, Ops
<1>2. CASE Record(at, "succeeded") /\ op' = "classify"
  <2>1. /\ steps'[at] = steps[at] \cup {"succeeded"}
        /\ \A d \in Segs \ {at} : steps'[d] = steps[d]
    BY <1>1, <1>2, RecordAdds
  <2>2. ~ Ends
    BY <1>2 DEF Ends
  <2> QED BY <1>1, <2>1, <2>2 DEF StatusRecords
<1>3. CASE Ends /\ steps' = steps
  BY <1>1, <1>3 DEF StatusRecords
<1> QED BY <1>1, <1>2, <1>3 DEF StatusRecords

\* What abandoning a segment does: it goes past a deleted one, records a suspended
\* one as never started, or gives up.
LEMMA AbandonCases ==
    ASSUME TypeOK, AtSegment, Abandon
    PROVE  /\ op = "abandon" /\ at \in Segs
           /\ UNCHANGED <<cluster, drifted, cancelled, local, imported, seq, deaths>>
           /\ \/ "deleted" \in steps[at] /\ Go("abandon", at + 1) /\ UNCHANGED <<steps, seen>>
              \/ /\ "deleted" \notin steps[at]
                 /\ Observe(at) \in {"NOT_STARTED", "SUSPENDED"}
                 /\ steps'[at] = steps[at] \cup {"notStarted"}
                 /\ \A d \in Segs \ {at} : steps'[d] = steps[d]
                 /\ Go("abandonDelete", at)
                 /\ seen' = seen
              \/ Ends /\ steps' = steps
<1>1. op = "abandon" /\ at \in Segs
  BY DEF Abandon, AtSegment, TypeOK, Segs
<1>2. CASE Record(at, "notStarted")
  <2>1. /\ steps'[at] = steps[at] \cup {"notStarted"}
        /\ \A d \in Segs \ {at} : steps'[d] = steps[d]
    BY <1>1, <1>2, RecordAdds
  <2> QED BY <1>1, <2>1 DEF Abandon
<1>3. CASE ~ Record(at, "notStarted")
  BY <1>1, <1>3 DEF Abandon
<1> QED BY <1>2, <1>3

\* A segment that was started stays so.
LEMMA StartsStay ==
    ASSUME TypeOK, [Next]_vars
    PROVE  \A k \in Segs : started[k] => started'[k]
<1> USE DEF TypeOK
<1>0. CASE UNCHANGED vars
  BY <1>0 DEF vars, cluster, journal, command
<1>1. CASE \E k \in Segs : Coordinate(k)
  BY <1>1 DEF Coordinate, journal, command
<1>2. CASE \E k \in Segs : JobEnds(k)
  BY <1>2 DEF JobEnds, journal, command
<1>3. CASE \E k \in Segs : JobLost(k)
  BY <1>3 DEF JobLost, journal, command
<1>4. CASE SequencerPolls
  BY <1>4 DEF SequencerPolls, cluster, journal, command
<1>5. CASE SequencerPatches
  BY <1>5 DEF SequencerPatches, Unsuspend
<1>6. CASE SequencerLost
  BY <1>6 DEF SequencerLost, cluster, journal, command
<1>7. CASE Classify
  BY <1>7 DEF Classify, cluster, journal, JobStates
<1>8. CASE ClassifyRefused
  BY <1>8 DEF ClassifyRefused, Ends, NoView, cluster, journal
<1>9. CASE StatusAdvances
  BY <1>9, CurrentIsFirst DEF StatusAdvances, Unsuspend
<1>10. CASE StatusReads
  BY <1>10 DEF StatusReads, Go, cluster, journal
<1>11. CASE StatusRecovers
  BY <1>11 DEF StatusRecovers, Go, RecoverLost, journal
<1>12. CASE StatusWatches
  BY <1>12 DEF StatusWatches, Go, StatusSeen, cluster, journal
<1>13. CASE StatusDrifts
  BY <1>13 DEF StatusDrifts, Go, StatusSeen, cluster, journal
<1>14. CASE StatusRecords
  BY <1>14 DEF StatusRecords, Ends, Record, NoView, cluster
<1>15. CASE DriftStops
  BY <1>15 DEF DriftStops, Go, StopSequencer, cluster, journal
<1>16. CASE DriftChecks
  BY <1>16 DEF DriftChecks, Go, Ends, NoView, cluster
<1>17. CASE DriftDeletes
  BY <1>17 DEF DriftDeletes, Go, DeleteJob, journal
<1>18. CASE DriftJournals
  BY <1>18 DEF DriftJournals, Go, Record, cluster
<1>19. CASE DriftRecovers
  BY <1>19 DEF DriftRecovers, Go, RecoverLost, journal
<1>20. CASE DriftRecords
  BY <1>20 DEF DriftRecords, Go, Ends, Record, NoView, cluster
<1>21. CASE CancelStops
  BY <1>21 DEF CancelStops, Go, StopSequencer, cluster, journal
<1>22. CASE CancelSelects
  BY <1>22 DEF CancelSelects, Go, cluster, journal
<1>23. CASE CancelReads
  BY <1>23 DEF CancelReads, Go, cluster, journal
<1>24. CASE CancelObserves
  BY <1>24 DEF CancelObserves, Go, cluster, journal
<1>25. CASE CancelDeletes
  BY <1>25 DEF CancelDeletes, Go, DeleteJob, journal
<1>26. CASE CancelJournals
  BY <1>26 DEF CancelJournals, Go, Record, cluster
<1>27. CASE CancelFinalizes
  BY <1>27 DEF CancelFinalizes, Go, Ends, NoView, journal
<1>28. CASE CancelRecords
  BY <1>28 DEF CancelRecords, Go, Ends, NoView, cluster
<1>29. CASE CollectSelects
  BY <1>29 DEF CollectSelects, Go, cluster, journal
<1>30. CASE CollectGate
  BY <1>30 DEF CollectGate, Go, RecoverLost, journal
<1>31. CASE CollectWaits
  BY <1>31 DEF CollectWaits, Go, Ends, NoView, cluster, journal
<1>32. CASE CollectStops
  BY <1>32 DEF CollectStops, Go, StopSequencer, cluster, journal
<1>33. CASE CollectImports
  BY <1>33 DEF CollectImports, Ends, NoView, cluster
<1>34. CASE Abandon
  BY <1>34 DEF Abandon, Go, Ends, Record, NoView, cluster
<1>35. CASE AbandonDeletes
  BY <1>35 DEF AbandonDeletes, Go, Record, DeleteJob
<1>36. CASE AbandonEnds
  BY <1>36 DEF AbandonEnds, Go, Ends, NoView, cluster
<1>37. CASE StatusBegins
  BY <1>37 DEF StatusBegins, Begin, NoView, cluster, journal
<1>38. CASE CancelBegins
  BY <1>38 DEF CancelBegins, Begin, NoView, cluster
<1>39. CASE CollectBegins
  BY <1>39 DEF CollectBegins, Begin, NoView, cluster, journal
<1>40. CASE CommandDies
  BY <1>40 DEF CommandDies, Ends, NoView, cluster, journal
<1>41. CASE Done
  BY <1>41 DEF Done, vars, cluster, journal, command
<1> QED
  BY <1>0, <1>1, <1>2, <1>3, <1>4, <1>5, <1>6, <1>7, <1>8, <1>9, <1>10, <1>11,
     <1>12, <1>13, <1>14, <1>15, <1>16, <1>17, <1>18, <1>19, <1>20, <1>21,
     <1>22, <1>23, <1>24, <1>25, <1>26, <1>27, <1>28, <1>29, <1>30, <1>31,
     <1>32, <1>33, <1>34, <1>35, <1>36, <1>37, <1>38, <1>39, <1>40, <1>41
  DEF Next, JobNext, SequencerNext, CommandNext, StatusNext, CancelNext, CollectNext, UserNext

\* A failed run, and the success of all segments, are final.
LEMMA JustifiedStays ==
    ASSUME TypeOK, [Next]_vars
    PROVE  (FailedRun => FailedRun') /\ (AllSucceeded => AllSucceeded')
  BY OutcomeStep, StartsStay DEF FailedRun, AllSucceeded, Succeeded, Kept, Terminal

\* Every step keeps the causes of what the journal and the Jobs show.

\* --status starts the next segment: it runs.
LEMMA CausesAdvance ==
    ASSUME TypeOK, Causes, [Next]_vars, StatusAdvances
    PROVE  Causes'
<1>1. /\ UNCHANGED <<ledger, journal>> /\ cmd = "status"
      /\ (op' = "idle" /\ cmd' = "none") \/ (op' = "statusRead" /\ cmd' = cmd)
  BY AdvanceCases DEF Ends, Go
<1>2. \A k \in Segs : job'[k] # job[k] => job'[k] = "ACTIVE" /\ started'[k]
  BY AdvanceCases, UnsuspendStarts
<1>3. \A k \in Segs : started[k] => started'[k]
  BY StartsStay
<1> QED
  BY <1>1, <1>2, <1>3, JustifiedStays DEF journal, TypeOK,
        Causes, StatusOps, DriftOps, CancelOps, GateOps, AbandonOps, Segs, Terminal, Open

\* --status records a success of a segment that ran.
LEMMA CausesRecords ==
    ASSUME TypeOK, AtSegment, Causes, [Next]_vars, StatusRecords
    PROVE  Causes'
<1>1. \A k \in Segs : "notStarted" \in steps'[k] <=> "notStarted" \in steps[k]
  BY RecordsCases
<1>2. /\ op = "statusRecord"
      /\ (op' = "idle" /\ cmd' = "none") \/ (op' = "classify" /\ cmd' = cmd)
  BY RecordsCases DEF Ends
<1>3. UNCHANGED <<cluster, drifted, cancelled, local, imported>>
  BY RecordsCases
<1> QED
  BY <1>1, <1>2, <1>3, JustifiedStays DEF cluster, TypeOK,
        Causes, StatusOps, DriftOps, CancelOps, GateOps, AbandonOps, Segs, Terminal, Open

\* What is recorded as never started comes after a run that failed.
LEMMA CausesAbandon ==
    ASSUME TypeOK, AtSegment, NeverStarted, Causes, [Next]_vars, Abandon
    PROVE  Causes'
<1>1. /\ op = "abandon" /\ at \in Segs
      /\ UNCHANGED <<cluster, drifted, cancelled, local, imported>>
      /\ (op' = "idle" /\ cmd' = "none") \/ (op' \in AbandonOps /\ cmd' = cmd)
  BY AbandonCases DEF Ends, Go, AbandonOps
<1>2. \A k \in Segs : "notStarted" \in steps[k] => "notStarted" \in steps'[k]
  BY AbandonCases
<1>3. (\A k \in Segs : "notStarted" \in steps'[k] => "notStarted" \in steps[k])
         \/ Observe(at) \in {"NOT_STARTED", "SUSPENDED"}
  BY AbandonCases
<1>4. CASE \A k \in Segs : "notStarted" \in steps'[k] => "notStarted" \in steps[k]
  BY <1>1, <1>2, <1>4, JustifiedStays DEF cluster,
      TypeOK, Causes, StatusOps, DriftOps, CancelOps, GateOps, AbandonOps, Segs, Terminal, Open
<1>5. CASE Observe(at) \in {"NOT_STARTED", "SUSPENDED"}
  <2>1. ~started[at]
    BY <1>1, <1>5, ObserveSuspended DEF NeverStarted
  <2>2. ~drifted /\ ~cancelled => FailedRun
    BY <1>1, <2>1 DEF Causes, AbandonOps, AllSucceeded, Succeeded
  <2> QED
    BY <1>1, <1>2, <2>2, JustifiedStays DEF cluster,
        TypeOK, Causes, StatusOps, DriftOps, CancelOps, GateOps, AbandonOps, Segs, Terminal, Open
<1> QED BY <1>3, <1>4, <1>5

\* Every step keeps the causes of what the Jobs, the ledgers and the journal show.
LEMMA CausesStep ==
    ASSUME TypeOK, AtSegment, SequencerStopped, NeverStarted, Progress, Causes, [Next]_vars
    PROVE  Causes'
<1> USE JustifiedStays
    DEF TypeOK, AtSegment, SegmentOps, Ops, Causes, StatusOps, DriftOps, CancelOps, GateOps, AbandonOps,
        Segs, Terminal, Open
<1>0. CASE UNCHANGED vars
  BY <1>0 DEF vars, cluster, journal, command
<1>1. CASE \E k \in Segs : Coordinate(k)
  <2>1. PICK k \in Segs : Coordinate(k)
    BY <1>1
  <2>2. job[k] = "ACTIVE" /\ started[k]
    BY <2>1 DEF Coordinate
  <2>3. \A d \in Segs : ledger'[d] # ledger[d] => d = k /\ ledger'[d] # "CANCELLED"
    BY <2>1, ZenonT(30) DEF Coordinate
  <2> QED BY <2>1, <2>2, <2>3 DEF Coordinate, journal, command
<1>2. CASE \E k \in Segs : JobEnds(k)
  <2>1. PICK k \in Segs : JobEnds(k)
    BY <1>2
  <2>2. started[k]
    BY <2>1 DEF JobEnds
  <2>3. \A d \in Segs : job'[d] # job[d] => d = k /\ job'[d] \in {"COMPLETE", "FAILED"}
    BY <2>1, ZenonT(30) DEF JobEnds
  <2> QED BY <2>1, <2>2, <2>3 DEF JobEnds, journal, command
<1>3. CASE \E k \in Segs : JobLost(k)
  BY <1>3 DEF JobLost, journal, command
<1>4. CASE SequencerPolls
  BY <1>4 DEF SequencerPolls, cluster, journal, command
<1>5. CASE SequencerPatches
  <2>1. UNCHANGED <<ledger, steps, drifted, cancelled, local, cmd, op>>
    BY <1>5 DEF SequencerPatches, journal, command
  <2>2. \A k \in Segs :
           /\ job'[k] = job[k] \/ (job'[k] = "ACTIVE" /\ started'[k])
           /\ started[k] => started'[k]
    <3>1. seq.at \in Segs /\ Unsuspend(seq.at)
      BY <1>5 DEF SequencerPatches
    <3> QED BY <3>1, UnsuspendStarts
  <2> QED BY <2>1, <2>2
<1>6. CASE SequencerLost
  BY <1>6 DEF SequencerLost, cluster, journal, command
<1>7. CASE Classify
  BY <1>7 DEF Classify, cluster, journal, JobStates
<1>8. CASE ClassifyRefused
  BY <1>8 DEF ClassifyRefused, Ends, NoView, cluster, journal
<1>9. CASE StatusAdvances
  BY <1>9, CausesAdvance
<1>10. CASE StatusReads
  BY <1>10 DEF StatusReads, Go, cluster, journal
<1>11. CASE StatusRecovers
  BY <1>11 DEF StatusRecovers, Go, RecoverLost, journal
<1>12. CASE StatusWatches
  BY <1>12 DEF StatusWatches, Go, StatusSeen, cluster, journal
<1>13. CASE StatusDrifts
  BY <1>13 DEF StatusDrifts, Go, StatusSeen, cluster, journal
<1>14. CASE StatusRecords
  BY <1>14, CausesRecords
<1>15. CASE DriftStops
  BY <1>15 DEF DriftStops, Go, StopSequencer, cluster, journal
<1>16. CASE DriftChecks
  BY <1>16 DEF DriftChecks, Go, Ends, NoView, cluster
<1>17. CASE DriftDeletes
  BY <1>17 DEF DriftDeletes, Go, DeleteJob, journal
<1>18. CASE DriftJournals
  BY <1>18 DEF DriftJournals, Go, Record, cluster
<1>19. CASE DriftRecovers
  BY <1>19 DEF DriftRecovers, Go, RecoverLost, journal
<1>20. CASE DriftRecords
  BY <1>20 DEF DriftRecords, Go, Ends, Record, NoView, cluster
<1>21. CASE CancelStops
  BY <1>21 DEF CancelStops, Go, StopSequencer, cluster, journal
<1>22. CASE CancelSelects
  BY <1>22 DEF CancelSelects, Go, cluster, journal
<1>23. CASE CancelReads
  BY <1>23 DEF CancelReads, Go, cluster, journal
<1>24. CASE CancelObserves
  BY <1>24 DEF CancelObserves, Go, cluster, journal
<1>25. CASE CancelDeletes
  BY <1>25 DEF CancelDeletes, Go, DeleteJob, journal
<1>26. CASE CancelJournals
  BY <1>26 DEF CancelJournals, Go, Record, cluster
<1>27. CASE CancelFinalizes
  BY <1>27 DEF CancelFinalizes, Go, Ends, NoView, journal
<1>28. CASE CancelRecords
  BY <1>28 DEF CancelRecords, Go, Ends, NoView, cluster
<1>29. CASE CollectSelects
  BY <1>29 DEF CollectSelects, Go, cluster, journal
<1>30. CASE CollectGate
  BY <1>30, ZenonT(30) DEF CollectGate, Go, RecoverLost, journal
<1>31. CASE CollectWaits
  BY <1>31 DEF CollectWaits, Go, Ends, NoView, cluster, journal
<1>32. CASE CollectStops
  <2>1. /\ op = "collectStop" /\ op' = "abandon" /\ cmd = "collect"
        /\ UNCHANGED <<job, ledger, started, journal, cmd>>
    BY <1>32 DEF CollectStops, Go, cluster
  <2>2. at = Last /\ at \in Segs /\ ledger[at] \in Terminal /\ \A d \in Segs : d < at => Succeeded(d)
    BY <2>1, LastIsSegment DEF Progress, Passed, GateOps
  <2>3. ~drifted /\ ~cancelled => FailedRun \/ AllSucceeded
    <3>1. CASE ledger[at] = "FAILED"
      BY <2>2, <3>1 DEF FailedRun
    <3>2. CASE ledger[at] = "SUCCESS" /\ Last < S
      BY <2>1, <3>2 DEF Progress, Passed, GateOps, LocalStates
    <3>3. CASE ledger[at] = "SUCCESS" /\ Last = S
      BY <2>2, <3>3, SAssumption DEF AllSucceeded, Succeeded
    <3>4. ledger[at] # "CANCELLED" \/ cancelled
      BY <2>2
    <3>5. Last < S \/ Last = S
      BY LastIsSegment, SAssumption DEF Segs
    <3> HIDE <2>1, <1>32
    <3> QED BY <2>2, <3>1, <3>2, <3>3, <3>4, <3>5 DEF Terminal
  <2> QED BY <2>1, <2>3 DEF journal
<1>33. CASE CollectImports
  BY <1>33 DEF CollectImports, Ends, NoView, cluster
<1>34. CASE Abandon
  BY <1>34, CausesAbandon
<1>35. CASE AbandonDeletes
  <2>1. "notStarted" \in steps[at] /\ at \in Segs
    BY <1>35 DEF AbandonDeletes, Progress, Passed
  <2>2. \A k \in Segs : "notStarted" \in steps'[k] <=> "notStarted" \in steps[k]
    BY <1>35 DEF AbandonDeletes, Record
  <2>3. \A k \in Segs : job'[k] # job[k] => k = at /\ job'[k] = "GONE"
    BY <1>35 DEF AbandonDeletes, DeleteJob
  <2> QED BY <1>35, <2>1, <2>2, <2>3 DEF AbandonDeletes, Go
<1>36. CASE AbandonEnds
  BY <1>36 DEF AbandonEnds, Go, Ends, NoView, cluster
<1>37. CASE StatusBegins
  BY <1>37 DEF StatusBegins, Begin, NoView, cluster, journal
<1>38. CASE CancelBegins
  BY <1>38 DEF CancelBegins, Begin, NoView, cluster
<1>39. CASE CollectBegins
  BY <1>39 DEF CollectBegins, Begin, NoView, cluster, journal
<1>40. CASE CommandDies
  BY <1>40 DEF CommandDies, Ends, NoView, cluster, journal
<1>41. CASE Done
  BY <1>41 DEF Done, vars, cluster, journal, command
<1> QED
  BY <1>0, <1>1, <1>2, <1>3, <1>4, <1>5, <1>6, <1>7, <1>8, <1>9, <1>10, <1>11,
     <1>12, <1>13, <1>14, <1>15, <1>16, <1>17, <1>18, <1>19, <1>20, <1>21,
     <1>22, <1>23, <1>24, <1>25, <1>26, <1>27, <1>28, <1>29, <1>30, <1>31,
     <1>32, <1>33, <1>34, <1>35, <1>36, <1>37, <1>38, <1>39, <1>40, <1>41
  DEF Next, JobNext, SequencerNext, CommandNext, StatusNext, CancelNext, CollectNext, UserNext

\* The four ways to observe a segment, by its journal steps and its Job.
LEMMA ObserveCases ==
    ASSUME TypeOK, NEW k \in Segs
    PROVE  /\ "notStarted" \in steps[k] <=> Observe(k) = "NOT_STARTED"
           /\ "notStarted" \notin steps[k] /\ "succeeded" \in steps[k] => Observe(k) = "COMPLETE"
           /\ steps[k] = {"deleted"} => Observe(k) = "DELETED"
           /\ steps[k] = {} => Observe(k) = IF job[k] = "GONE" THEN "MISSING" ELSE job[k]
           /\ \/ "notStarted" \in steps[k] \/ "succeeded" \in steps[k]
              \/ steps[k] = {"deleted"} \/ steps[k] = {}
<1>1. steps[k] \in SUBSET Steps /\ job[k] \in JobStates
  BY DEF TypeOK
<1>2. CASE "notStarted" \in steps[k]
  BY <1>2 DEF Observe
<1>3. CASE "notStarted" \notin steps[k] /\ "succeeded" \in steps[k]
  BY <1>3 DEF Observe
<1>4. CASE steps[k] = {"deleted"}
  BY <1>4 DEF Observe
<1>5. CASE steps[k] = {}
  BY <1>5, <1>1 DEF Observe, JobStates
<1> QED BY <1>1, <1>2, <1>3, <1>4, <1>5 DEF Steps

\* The same in the next state.
LEMMA ObserveNext ==
    ASSUME TypeOK', NEW k \in Segs
    PROVE  /\ "notStarted" \in steps'[k] <=> Observe(k)' = "NOT_STARTED"
           /\ "notStarted" \notin steps'[k] /\ "succeeded" \in steps'[k] => Observe(k)' = "COMPLETE"
           /\ steps'[k] = {"deleted"} => Observe(k)' = "DELETED"
           /\ steps'[k] = {} => Observe(k)' = IF job'[k] = "GONE" THEN "MISSING" ELSE job'[k]
           /\ \/ "notStarted" \in steps'[k] \/ "succeeded" \in steps'[k]
              \/ steps'[k] = {"deleted"} \/ steps'[k] = {}
<1>1. steps'[k] \in SUBSET Steps /\ job'[k] \in JobStates
  BY DEF TypeOK
<1>2. CASE "notStarted" \in steps'[k]
  BY <1>2 DEF Observe
<1>3. CASE "notStarted" \notin steps'[k] /\ "succeeded" \in steps'[k]
  BY <1>3 DEF Observe
<1>4. CASE steps'[k] = {"deleted"}
  BY <1>4 DEF Observe
<1>5. CASE steps'[k] = {}
  BY <1>5, <1>1 DEF Observe, JobStates
<1> QED BY <1>1, <1>2, <1>3, <1>4, <1>5 DEF Steps

\* A segment whose Job and journal stay as they are is observed as before.
LEMMA ObserveSame ==
    ASSUME NEW k, job'[k] = job[k], steps'[k] = steps[k]
    PROVE  Observe(k)' = Observe(k)
  BY DEF Observe

\* A Job that ends, or is lost, had left the queue and was not yet Complete.
LEMMA ObserveEnding ==
    ASSUME TypeOK, TypeOK', NEW k \in Segs, JobEnds(k) \/ JobLost(k)
    PROVE  \A d \in Segs : \/ Observe(d)' = Observe(d)
                           \/ /\ Observe(d) = "ACTIVE"
                              /\ Observe(d)' \in {"COMPLETE", "FAILED", "MISSING"}
<1>1. steps' = steps /\ job[k] = "ACTIVE" /\ job'[k] \in {"COMPLETE", "FAILED", "GONE"}
  BY DEF JobEnds, JobLost, journal, TypeOK
<1>2. \A d \in Segs \ {k} : job'[d] = job[d]
  BY DEF JobEnds, JobLost, TypeOK
<1>3. \A d \in Segs \ {k} : Observe(d)' = Observe(d)
  BY <1>1, <1>2, ObserveSame
<1>4. CASE steps[k] = {}
  BY <1>1, <1>3, <1>4, ObserveCases, ObserveNext
<1>5. CASE steps[k] # {}
  <2>1. Observe(k)' = Observe(k)
    BY <1>1, <1>5, ObserveCases, ObserveNext
  <2> QED BY <1>3, <2>1
<1> QED BY <1>4, <1>5

\* The patch makes a suspended segment an active one, and changes no other observation.
LEMMA ObserveUnsuspend ==
    ASSUME TypeOK, TypeOK', NEW k \in Segs, Unsuspend(k) \/ UNCHANGED <<job, started>>, steps' = steps
    PROVE  \A d \in Segs : \/ Observe(d)' = Observe(d)
                           \/ d = k /\ Observe(d) = "SUSPENDED" /\ Observe(d)' = "ACTIVE"
<1>2. \A d \in Segs \ {k} : Observe(d)' = Observe(d)
  BY UnsuspendStarts, ObserveSame
<1>3. CASE job'[k] = job[k]
  BY <1>2, <1>3, ObserveSame
<1>4. CASE job'[k] # job[k]
  <2>1. job[k] = "SUSPENDED" /\ job'[k] = "ACTIVE"
    BY <1>4, UnsuspendStarts
  <2>2. CASE steps[k] = {}
    BY <1>2, <2>1, <2>2, ObserveCases, ObserveNext
  <2>3. CASE steps[k] # {}
    <3>1. Observe(k)' = Observe(k)
      BY <2>1, <2>3, ObserveCases, ObserveNext
    <3> QED BY <1>2, <3>1
  <2> QED BY <2>2, <2>3
<1> QED BY <1>3, <1>4

\* What every observation keeps through a step that changes no Job and no journal step.
LEMMA QuietStep ==
    ASSUME UNCHANGED <<job, steps>>
    PROVE  \A k \in Segs : /\ Observe(k)' = Observe(k)
                           /\ Begun(k)' <=> Begun(k)
                           /\ NotRecorded(k)' <=> NotRecorded(k)
  BY ObserveSame DEF Begun, NotRecorded

\* A Job that ends, or is lost, takes nothing from what was observed.
LEMMA ObservationsEnding ==
    ASSUME TypeOK, TypeOK', Observations, AtSegment, NEW n \in Segs, JobEnds(n) \/ JobLost(n)
    PROVE  Observations'
<1>1. UNCHANGED <<steps, seq, op, at, view, cancelled>>
  BY DEF JobEnds, JobLost, journal, command
<1>2. \A k \in Segs : /\ Begun(k)' <=> Begun(k)
                      /\ Observe(k) = "COMPLETE" => Observe(k)' = "COMPLETE"
  BY ObserveEnding DEF Begun
<1>3. \A k \in Segs : NotRecorded(k)' <=> NotRecorded(k)
  BY <1>1 DEF NotRecorded
<1>4. seq.at \in Segs /\ (op \in StatusOps => at \in Segs)
  BY DEF TypeOK, AtSegment, SegmentOps, Ops, StatusOps
<1>5. SequencerGone' /\ Viewing'
  BY <1>1 DEF Observations, SequencerGone, Viewing
<1>6. InSequence => InSequence'
  BY <1>1, <1>2, <1>4, SAssumption DEF InSequence, Segs
<1>7. ViewHolds => ViewHolds'
  BY <1>1, <1>2, <1>3 DEF ViewHolds
<1>8. StatusHolds => StatusHolds'
  BY <1>1, <1>2, <1>3, <1>4, SAssumption DEF StatusHolds, StatusOps, DriftOps, Segs
<1> QED BY <1>1, <1>5, <1>6, <1>7, <1>8 DEF Observations

\* The sequencer goes on after a Complete Job, whose segment is observed as Complete.
LEMMA ObservationsPoll ==
    ASSUME TypeOK, Observations, AtSegment, SequencerPolls
    PROVE  Observations'
<1>1. UNCHANGED <<job, steps, op, at, view, cancelled>> /\ seq.at \in Segs
  BY DEF SequencerPolls, cluster, journal, command, TypeOK
<1>2. \A k \in Segs : /\ Observe(k)' = Observe(k)
                      /\ Begun(k)' <=> Begun(k)
                      /\ NotRecorded(k)' <=> NotRecorded(k)
  BY <1>1, QuietStep
<1>3. SequencerGone' /\ Viewing'
  BY <1>1 DEF Observations, SequencerGone, Viewing, SequencerPolls
<1>4. steps[seq.at] \cap {"notStarted", "deleted"} = {}
  BY <1>1 DEF Observations, SequencerGone, SequencerPolls
<1>5. job[seq.at] = "COMPLETE" => Observe(seq.at) = "COMPLETE"
  BY <1>1, <1>4, ObserveCases
<1>6. ASSUME InSequence PROVE InSequence'
  <2>1. \A d \in 1..(seq'.at - 1) : Observe(d)' = "COMPLETE"
    <3>1. seq.step = "observe" /\ seq \in [step : SeqSteps, at : Segs]
      BY DEF SequencerPolls, TypeOK
    <3>2. seq'.at = seq.at \/ (seq'.at = seq.at + 1 /\ job[seq.at] = "COMPLETE")
      BY <3>1 DEF SequencerPolls
    <3> QED BY <1>1, <1>2, <1>5, <1>6, <3>1, <3>2, SAssumption DEF InSequence, Segs
  <2>2. \A k \in Segs : Begun(k)' => \A d \in 1..(k - 1) : Observe(d)' = "COMPLETE"
    BY <1>2, <1>6, SAssumption DEF InSequence, Segs
  <2> QED BY <2>1, <2>2 DEF InSequence
<1>7. ViewHolds => ViewHolds'
  BY <1>1, <1>2 DEF ViewHolds
<1>8. StatusHolds => StatusHolds'
  BY <1>1, <1>2, SAssumption DEF StatusHolds, StatusOps, DriftOps, AtSegment, SegmentOps, Ops, TypeOK, Segs
<1> QED BY <1>1, <1>3, <1>6, <1>7, <1>8 DEF Observations

\* A segment that the sequencer or --status starts comes after Complete ones only.
LEMMA ObservationsStart ==
    ASSUME TypeOK, TypeOK', NEW n \in Segs, Unsuspend(n) \/ UNCHANGED <<job, started>>, steps' = steps,
           InSequence, \A d \in 1..(n - 1) : Observe(d) = "COMPLETE",
           seq'.step \in {"observe", "patch"} => seq.step \in {"observe", "patch"} /\ seq'.at = seq.at
    PROVE  /\ InSequence'
           /\ \A k \in Segs : /\ Begun(k) => Begun(k)'
                              /\ Observe(k) = "COMPLETE" => Observe(k)' = "COMPLETE"
                              /\ Begun(k)' => Begun(k) \/ k = n
<1>1. \A k \in Segs : \/ Observe(k)' = Observe(k)
                      \/ k = n /\ Observe(k) = "SUSPENDED" /\ Observe(k)' = "ACTIVE"
  BY ObserveUnsuspend
<1>2. \A k \in Segs : /\ Begun(k) => Begun(k)'
                      /\ Observe(k) = "COMPLETE" => Observe(k)' = "COMPLETE"
                      /\ Begun(k)' => Begun(k) \/ k = n
  BY <1>1 DEF Begun
<1>3. seq.at \in Segs
  BY DEF TypeOK
<1>4. \A k \in Segs : Begun(k)' => \A d \in 1..(k - 1) : Observe(d)' = "COMPLETE"
  BY <1>2, SAssumption DEF InSequence, Segs
<1>5. seq'.step \in {"observe", "patch"} => \A d \in 1..(seq'.at - 1) : Observe(d)' = "COMPLETE"
  BY <1>2, <1>3, SAssumption DEF InSequence, Segs
<1> QED BY <1>2, <1>4, <1>5 DEF InSequence

\* The sequencer patches the segment after the Complete ones, while no drift is handled.
LEMMA ObservationsPatch ==
    ASSUME TypeOK, TypeOK', Observations, AtSegment, SequencerStopped, SequencerPatches
    PROVE  Observations'
<1>1. /\ UNCHANGED <<steps, op, at, view, cancelled>> /\ seq.at \in Segs
      /\ seq.step = "patch" /\ seq'.at = seq.at /\ Unsuspend(seq.at)
  BY DEF SequencerPatches, journal, command, TypeOK
<1>2. SequencerGone' /\ Viewing'
  BY <1>1 DEF Observations, SequencerGone, Viewing
<1>3. op \notin DriftOps
  BY <1>1 DEF SequencerStopped, StoppedOps, DriftOps
<1>4. ASSUME InSequence, ViewHolds, StatusHolds PROVE InSequence' /\ ViewHolds' /\ StatusHolds'
  <2>1. /\ InSequence'
        /\ \A k \in Segs : /\ Begun(k) => Begun(k)'
                           /\ Observe(k) = "COMPLETE" => Observe(k)' = "COMPLETE"
    BY <1>1, <1>4, ObservationsStart DEF InSequence
  <2>2. \A k \in Segs : NotRecorded(k)' <=> NotRecorded(k)
    BY <1>1 DEF NotRecorded
  <2>3. ViewHolds'
    BY <1>1, <1>4, <2>1, <2>2 DEF ViewHolds
  <2>4. StatusHolds'
    BY <1>1, <1>3, <1>4, <2>1, <2>2, SAssumption
    DEF StatusHolds, StatusOps, DriftOps, AtSegment, SegmentOps, Ops, TypeOK, Segs
  <2> QED BY <2>1, <2>3, <2>4
<1> QED BY <1>1, <1>2, <1>4 DEF Observations

\* One more observation of a classification is in order.
LEMMA ObservationsClassify ==
    ASSUME TypeOK, AtSegment, Observations, Classify
    PROVE  Observations'
<1>1. /\ op = "classify" /\ at \in Segs /\ at' = at - 1
      /\ op' = (IF at = 1 THEN "classified" ELSE "classify")
      /\ UNCHANGED <<job, steps, seq, cancelled>>
  BY DEF Classify, cluster, journal, AtSegment, SegmentOps, Ops
<1>2. \A k \in Segs : /\ Observe(k)' = Observe(k)
                      /\ Begun(k)' <=> Begun(k)
                      /\ NotRecorded(k)' <=> NotRecorded(k)
  BY <1>1, QuietStep
<1>3. view'[at] = Observe(at) /\ \A k \in Segs \ {at} : view'[k] = view[k]
  BY <1>1 DEF Classify, TypeOK
<1>4. Observe(at) \in Observed
  BY <1>1, ObserveType
<1>5. \A k \in Segs : view[k] = "none" <=> k <= at
  BY <1>1 DEF Observations, Viewing
<1>6. Viewing'
  BY <1>1, <1>3, <1>4, <1>5, SAssumption DEF Viewing, Observed, Segs
<1>7. SequencerGone'
  BY <1>1 DEF Observations, SequencerGone
<1>8. InSequence => InSequence'
  BY <1>1, <1>2, SAssumption DEF InSequence, TypeOK, Segs
<1>9. StatusHolds'
  BY <1>1 DEF StatusHolds, StatusOps, DriftOps
<1>10. ASSUME InSequence, ViewHolds PROVE ViewHolds'
  <2>1. Observe(at) \notin {"NOT_STARTED", "COMPLETE"} => NotRecorded(at)
    BY <1>1, ObserveCases DEF NotRecorded
  <2>2. ASSUME NEW k \in Segs, k # at PROVE
           view'[k] \notin {"none", "SUSPENDED", "NOT_STARTED"} =>
              Begun(k) /\ \A d \in 1..(k - 1) : view'[d] \in {"none", "COMPLETE"}
    BY <1>1, <1>3, <1>5, <1>10, <2>2, SAssumption DEF ViewHolds, InSequence, Segs
  <2>3. Begun(at) <=> view'[at] \notin {"SUSPENDED", "NOT_STARTED"}
    BY <1>3 DEF Begun
  <2>4. \A d \in 1..(at - 1) : view'[d] = "none"
    BY <1>1, <1>3, <1>5, SAssumption DEF Segs
  <2>5. Observe(at) = "NOT_STARTED" => NotRecorded(at)
    BY <1>1, ObserveCases DEF NotRecorded
  <2> QED BY <1>1, <1>2, <1>3, <1>10, <2>1, <2>2, <2>3, <2>4, <2>5 DEF ViewHolds
<1> QED BY <1>1, <1>6, <1>7, <1>8, <1>9, <1>10 DEF Observations

\* --status goes on with, and may start, the segment after the Complete ones.
LEMMA ObservationsAdvance ==
    ASSUME TypeOK, TypeOK', AtSegment, Observations, StatusAdvances
    PROVE  Observations'
<1>1. /\ op = "classified" /\ UNCHANGED <<steps, seq, cancelled>> /\ op' \in {"idle", "statusRead"}
      /\ \/ op' = "idle" /\ UNCHANGED <<job, started>>
         \/ /\ op' = "statusRead" /\ at' = Current /\ view' = view /\ Current \in Segs
            /\ Unsuspend(Current) \/ UNCHANGED <<job, started>>
  BY AdvanceCases DEF Ends, Go, journal
<1>2. SequencerGone' /\ Viewing' /\ ViewHolds'
  BY <1>1 DEF Observations, SequencerGone, Viewing, ViewHolds
<1>3. CASE op' = "idle"
  <2>1. \A k \in Segs : Observe(k)' = Observe(k) /\ (Begun(k)' <=> Begun(k))
    BY <1>1, <1>3, QuietStep
  <2>2. InSequence => InSequence'
    BY <1>1, <2>1, SAssumption DEF InSequence, TypeOK, Segs
  <2>3. StatusHolds'
    BY <1>3 DEF StatusHolds, StatusOps, DriftOps
  <2> QED BY <1>1, <1>2, <2>2, <2>3 DEF Observations
<1>4. CASE op' = "statusRead"
  <2>1. /\ Current \in Segs /\ view[Current] # "COMPLETE" /\ view[Current] # "none"
        /\ \A d \in 1..(Current - 1) : view[d] = "COMPLETE"
    BY <1>1, <1>4, CurrentIsFirst DEF Observations, Viewing
  <2>2. ASSUME InSequence, ViewHolds PROVE InSequence' /\ StatusHolds'
    <3>1. \A d \in 1..(Current - 1) : Observe(d) = "COMPLETE"
      BY <1>1, <2>1, <2>2, SAssumption DEF ViewHolds, Segs
    <3>2. NotRecorded(Current) /\ (view[Current] \notin {"SUSPENDED", "NOT_STARTED"} => Begun(Current))
      BY <1>1, <2>1, <2>2 DEF ViewHolds
    <3>3. /\ InSequence'
          /\ \A k \in Segs : /\ Begun(k) => Begun(k)'
                             /\ Observe(k) = "COMPLETE" => Observe(k)' = "COMPLETE"
      BY <1>1, <1>4, <2>1, <2>2, <3>1, ObservationsStart
    <3>4. \A k \in Segs : NotRecorded(k)' <=> NotRecorded(k)
      BY <1>1, <1>4 DEF NotRecorded
    <3>5. at' = Current /\ view' = view
      BY <1>1, <1>4
    <3>6. \A d \in 1..(at' - 1) : Observe(d)' = "COMPLETE"
      BY <2>1, <3>1, <3>3, <3>5, SAssumption DEF Segs
    <3>7. NotRecorded(at)' /\ (view'[at'] \notin {"SUSPENDED", "NOT_STARTED"} => Begun(at)')
      BY <2>1, <3>2, <3>3, <3>4, <3>5
    <3>8. StatusHolds'
      BY <1>4, <3>5, <3>6, <3>7 DEF StatusHolds, StatusOps, DriftOps
    <3> QED BY <3>3, <3>8
  <2> QED BY <1>1, <1>2, <2>2 DEF Observations
<1> QED BY <1>1, <1>3, <1>4

\* A recorded success makes its segment Complete, and the classification starts again.
LEMMA ObservationsRecords ==
    ASSUME TypeOK, TypeOK', AtSegment, Observations, StatusRecords
    PROVE  Observations'
<1>1. op = "statusRecord" /\ at \in Segs /\ UNCHANGED <<job, seq, cancelled>>
  BY RecordsCases DEF cluster
<1>2. SequencerGone'
  BY <1>1, RecordsCases DEF Observations, SequencerGone
<1>3. CASE op' = "idle" /\ steps' = steps
  <2>1. \A k \in Segs : Observe(k)' = Observe(k) /\ (Begun(k)' <=> Begun(k))
    BY <1>1, <1>3, QuietStep
  <2>2. InSequence => InSequence'
    BY <1>1, <2>1, SAssumption DEF InSequence, TypeOK, Segs
  <2>3. Viewing' /\ ViewHolds' /\ StatusHolds'
    BY <1>3 DEF Viewing, ViewHolds, StatusHolds, StatusOps, DriftOps
  <2> QED BY <1>1, <1>2, <2>2, <2>3 DEF Observations
<1>4. CASE /\ op' = "classify" /\ at' = S /\ view' = NoView
           /\ steps'[at] = steps[at] \cup {"succeeded"}
           /\ \A d \in Segs \ {at} : steps'[d] = steps[d]
  <2>1. Viewing' /\ ViewHolds' /\ StatusHolds'
    BY <1>4 DEF Viewing, ViewHolds, StatusHolds, StatusOps, DriftOps, NoView, Segs
  <2>2. \A k \in Segs \ {at} : Observe(k)' = Observe(k)
    BY <1>1, <1>4, ObserveSame
  <2>3. \A k \in Segs : k = at =>
           Observe(k)' = (IF Observe(k) = "NOT_STARTED" THEN "NOT_STARTED" ELSE "COMPLETE")
    BY <1>1, <1>4, ObserveCases, ObserveNext
  <2>4. ASSUME InSequence, StatusHolds PROVE InSequence'
    <3>1. \A k \in Segs : /\ Begun(k)' => Begun(k) \/ k = at
                          /\ Observe(k) = "COMPLETE" => Observe(k)' = "COMPLETE"
      BY <2>2, <2>3 DEF Begun
    <3>2. \A d \in 1..(at - 1) : Observe(d) = "COMPLETE"
      BY <1>1, <2>4 DEF StatusHolds, StatusOps
    <3> QED BY <1>1, <2>4, <3>1, <3>2, SAssumption DEF InSequence, TypeOK, Segs
  <2> QED BY <1>1, <1>2, <2>1, <2>4 DEF Observations
<1> QED BY <1>3, <1>4, RecordsCases DEF Ends

\* Drift handling deletes the Job of its segment: none after it had begun.
LEMMA ObservationsDelete ==
    ASSUME TypeOK, TypeOK', AtSegment, SequencerStopped, Observations,
           DriftDeletes \/ DriftJournals
    PROVE  Observations'
<1>1. /\ op \in {"driftDelete", "driftJournal"} /\ op' \in {"driftJournal", "driftRecover"}
      /\ at \in Segs /\ at' = at /\ UNCHANGED <<view, seq, cancelled>>
      /\ seq.step = "gone"
  BY DEF DriftDeletes, DriftJournals, Go, journal, SequencerStopped, StoppedOps, AtSegment,
         SegmentOps, Ops
<1>2. \A k \in Segs \ {at} : job'[k] = job[k] /\ steps'[k] = steps[k]
  BY DEF DriftDeletes, DriftJournals, DeleteJob, Record, journal, cluster, TypeOK
<1>3. \/ steps'[at] = steps[at] /\ job'[at] = "GONE" /\ op' = "driftJournal"
      \/ steps'[at] = steps[at] \cup {"deleted"} /\ op' = "driftRecover"
  BY <1>1 DEF DriftDeletes, DriftJournals, DeleteJob, Record, Go, journal, TypeOK
<1>4. \A k \in Segs \ {at} : Observe(k)' = Observe(k)
  BY <1>2, ObserveSame
<1>5. Begun(at) => Begun(at)'
  <2>1. Observe(at) # "NOT_STARTED" => "notStarted" \notin steps'[at] /\ Observe(at)' # "NOT_STARTED"
    BY <1>1, <1>3, ObserveCases, ObserveNext
  <2>2. Observe(at)' # "SUSPENDED" \/ Observe(at) = "NOT_STARTED"
    BY <1>1, <1>3, ObserveCases, ObserveNext
  <2> QED BY <1>1, <2>1, <2>2 DEF Begun
<1>6. Viewing' /\ ViewHolds' /\ SequencerGone'
  BY <1>1 DEF Observations, Viewing, ViewHolds, SequencerGone
<1>7. ASSUME InSequence, StatusHolds PROVE InSequence' /\ StatusHolds'
  <2>1. \A k \in Segs : k > at => ~Begun(k)'
    BY <1>1, <1>4, <1>7 DEF StatusHolds, DriftOps, Begun, Segs
  <2>2. \A d \in 1..(at - 1) : Observe(d)' = "COMPLETE"
    BY <1>1, <1>4, <1>7, SAssumption DEF StatusHolds, StatusOps, Segs
  <2>3. InSequence'
    <3>1. ASSUME NEW k \in Segs, Begun(k)', NEW d \in 1..(k - 1) PROVE Observe(d)' = "COMPLETE"
      BY <1>1, <2>1, <2>2, <3>1, SAssumption DEF Segs
    <3> QED BY <1>1, <3>1 DEF InSequence
  <2>4. NotRecorded(at)'
    BY <1>1, <1>3, <1>7 DEF StatusHolds, StatusOps, NotRecorded
  <2>5. StatusHolds'
    BY <1>1, <1>3, <1>5, <1>7, <2>1, <2>2, <2>4 DEF StatusHolds, StatusOps, DriftOps
  <2> QED BY <2>3, <2>5
<1> QED BY <1>1, <1>6, <1>7 DEF Observations

\* After drift, the last recovery is recorded: none after the segment had begun.
LEMMA ObservationsDrifted ==
    ASSUME TypeOK, TypeOK', AtSegment, SequencerStopped, Observations, DriftRecords
    PROVE  Observations'
<1>1. /\ op = "driftRecord" /\ at \in Segs /\ seq.step = "gone" /\ UNCHANGED <<job, seq, cancelled>>
      /\ op' = "idle" \/ (op' = "abandon" /\ view' = view)
      /\ steps' = steps \/ Record(at, "succeeded")
  BY DEF DriftRecords, Go, Ends, cluster, AtSegment, SegmentOps, Ops, SequencerStopped, StoppedOps
<1>2. /\ \A k \in Segs \ {at} : steps'[k] = steps[k]
      /\ steps'[at] = steps[at] \/ steps'[at] = steps[at] \cup {"succeeded"}
  BY <1>1, RecordAdds
<1>3. \A k \in Segs \ {at} : Observe(k)' = Observe(k)
  BY <1>1, <1>2, ObserveSame
<1>4. Viewing' /\ ViewHolds' /\ SequencerGone' /\ StatusHolds'
  BY <1>1
  DEF Observations, Viewing, ViewHolds, SequencerGone, StatusHolds, StatusOps, DriftOps
<1>5. ASSUME InSequence, StatusHolds PROVE InSequence'
  <2>1. \A k \in Segs : k > at => ~Begun(k)'
    BY <1>1, <1>3, <1>5 DEF StatusHolds, DriftOps, Begun, Segs
  <2>2. \A d \in 1..(at - 1) : Observe(d)' = "COMPLETE"
    BY <1>1, <1>3, <1>5, SAssumption DEF StatusHolds, StatusOps, Segs
  <2>3. ASSUME NEW k \in Segs, Begun(k)', NEW d \in 1..(k - 1) PROVE Observe(d)' = "COMPLETE"
    BY <1>1, <2>1, <2>2, <2>3, SAssumption DEF Segs
  <2> QED BY <1>1, <2>3 DEF InSequence
<1> QED BY <1>1, <1>4, <1>5 DEF Observations

\* A segment recorded as never started was not begun, and stays so when its Job goes.
LEMMA ObservationsAbandon ==
    ASSUME TypeOK, TypeOK', AtSegment, SequencerStopped, Progress, Observations,
           Abandon \/ AbandonDeletes
    PROVE  Observations'
<1>1. /\ op \in AbandonOps /\ at \in Segs /\ seq.step = "gone" /\ UNCHANGED <<seq, cancelled>>
      /\ op' = "idle" \/ (op' \in AbandonOps /\ view' = view)
  <2>1. CASE Abandon
    BY <2>1, AbandonCases DEF Go, Ends, AbandonOps, SequencerStopped, StoppedOps
  <2>2. CASE AbandonDeletes
    BY <2>2
    DEF AbandonDeletes, Go, AbandonOps, SequencerStopped, StoppedOps, AtSegment, SegmentOps, Ops
  <2> QED BY <2>1, <2>2
<1>2. \A k \in Segs \ {at} : job'[k] = job[k] /\ steps'[k] = steps[k]
  <2>1. CASE Abandon
    BY <2>1, AbandonCases DEF cluster
  <2>2. CASE AbandonDeletes
    BY <2>2 DEF AbandonDeletes, DeleteJob, Record, TypeOK
  <2> QED BY <2>1, <2>2
<1>3. \A k \in Segs \ {at} : Observe(k)' = Observe(k)
  BY <1>2, ObserveSame
<1>4. \A k \in Segs : k = at => Observe(k)' = Observe(k) \/ (~Begun(k) /\ ~Begun(k)')
  <2> SUFFICES ASSUME NEW k \in Segs, k = at
               PROVE  Observe(k)' = Observe(k) \/ (~Begun(k) /\ ~Begun(k)')
    OBVIOUS
  <2>1. CASE Abandon
    <3>1. (Observe(k) \in {"NOT_STARTED", "SUSPENDED"} /\ "notStarted" \in steps'[k])
             \/ steps'[k] = steps[k]
      BY <2>1, AbandonCases
    <3>2. job' = job
      BY <2>1, AbandonCases DEF cluster
    <3>3. "notStarted" \in steps'[k] => ~Begun(k)'
      BY ObserveNext DEF Begun
    <3> QED BY <3>1, <3>2, <3>3, ObserveSame DEF Begun
  <2>2. CASE AbandonDeletes
    <3>1. "notStarted" \in steps[k] /\ "notStarted" \in steps'[k]
      BY <1>1, <2>2 DEF Progress, Passed, AbandonDeletes, Record, TypeOK
    <3> QED BY <3>1, ObserveCases, ObserveNext DEF Begun
  <2> QED BY <2>1, <2>2, <1>1
<1>5. Viewing' /\ ViewHolds' /\ SequencerGone' /\ StatusHolds'
  BY <1>1
  DEF Observations, Viewing, ViewHolds, SequencerGone, StatusHolds, StatusOps, DriftOps, AbandonOps
<1>6. InSequence => InSequence'
  <2>1. \A k \in Segs : /\ Begun(k)' <=> Begun(k)
                        /\ Observe(k) = "COMPLETE" => Observe(k)' = "COMPLETE"
    BY <1>3, <1>4 DEF Begun
  <2> QED BY <1>1, <2>1, SAssumption DEF InSequence, Segs
<1> QED BY <1>1, <1>5, <1>6 DEF Observations

\* Drift is found on a segment that is not Complete: nothing after it had begun.
LEMMA ObservationsCheck ==
    ASSUME TypeOK, AtSegment, Observations, DriftChecks
    PROVE  Observations'
<1>1. /\ op = "driftCheck" /\ at \in Segs /\ UNCHANGED <<job, steps, seq, cancelled>>
      /\ \/ op' = "idle"
         \/ /\ op' = "driftDelete" /\ at' = at /\ view' = view
            /\ "deleted" \in steps[at] \/ job[at] # "COMPLETE"
  BY DEF DriftChecks, Go, Ends, cluster, AtSegment, SegmentOps, Ops
<1>2. \A k \in Segs : /\ Observe(k)' = Observe(k)
                      /\ Begun(k)' <=> Begun(k)
                      /\ NotRecorded(k)' <=> NotRecorded(k)
  BY <1>1, QuietStep
<1>3. SequencerGone' /\ Viewing' /\ ViewHolds'
  BY <1>1 DEF Observations, SequencerGone, Viewing, ViewHolds
<1>4. InSequence => InSequence'
  BY <1>1, <1>2, SAssumption DEF InSequence, TypeOK, Segs
<1>5. ASSUME InSequence, StatusHolds, op' = "driftDelete" PROVE StatusHolds'
  <2>1. Observe(at) # "COMPLETE"
    BY <1>1, <1>5, ObserveCases DEF StatusHolds, StatusOps, NotRecorded
  <2>2. \A k \in Segs : k > at => ~Begun(k)
    BY <1>1, <1>5, <2>1, SAssumption DEF InSequence, Segs
  <2> QED BY <1>1, <1>2, <1>5, <2>2, SAssumption DEF StatusHolds, StatusOps, DriftOps, Segs
<1>6. op' = "idle" => StatusHolds'
  BY DEF StatusHolds, StatusOps, DriftOps
<1> QED BY <1>1, <1>3, <1>4, <1>5, <1>6 DEF Observations

\* Once cancellation is requested, only the sequencer's end and the view matter.
LEMMA ObservationsCancel ==
    ASSUME TypeOK, AtSegment, SequencerStopped, Causes, Observations,
           CancelStops \/ CancelDeletes \/ CancelJournals \/ CancelRecords
    PROVE  Observations'
<1>1. /\ op \in CancelOps \cup {"cancelStop"} /\ cancelled /\ cancelled'
      /\ op' = "idle" \/ view' = view
      /\ op = "cancelStop" => op' = "classify" /\ steps' = steps /\ seq'.step = "gone"
      /\ op # "cancelStop" => seq' = seq /\ op' # "classify" /\ seq.step = "gone"
  BY DEF CancelStops, CancelDeletes, CancelJournals, CancelRecords, CancelOps, Go, Ends, Causes,
         SequencerStopped, StoppedOps, journal, cluster, StopSequencer, TypeOK
<1>2. op # "cancelStop" => op' \notin {"classify", "cancelStop"}
  BY DEF CancelStops, CancelDeletes, CancelJournals, CancelRecords, Go, Ends
<1>3. SequencerGone'
  BY <1>1 DEF Observations, SequencerGone
<1>4. Viewing'
  <2>1. CASE op = "cancelStop"
    <3>1. CancelStops
      BY <2>1 DEF CancelStops, CancelDeletes, CancelJournals, CancelRecords
    <3> QED BY <2>1, <3>1, SAssumption DEF Observations, Viewing, CancelStops, Go, Segs
  <2>2. CASE op # "cancelStop"
    BY <1>1, <1>2, <2>2 DEF Observations, Viewing, CancelOps
  <2> QED BY <2>1, <2>2
<1> QED BY <1>1, <1>3, <1>4 DEF Observations

\* Where a command goes on without a change to a Job or to a journal step.
Moves ==
    \/ op' = "idle"
    \/ op' \in {"classify", "cancelStop"} /\ view' = NoView /\ at' = S
    \/ UNCHANGED <<op, at, view>>
    \/ /\ view' = view
       /\ op \notin {"idle", "classify", "cancelStop"}
       /\ op' \notin {"idle", "classify", "classified", "cancelStop"}
       /\ op' \in StatusOps =>
             /\ op \in StatusOps
             /\ at' = at
             /\ op' \in DriftOps => op \in DriftOps
             /\ op' \in {"driftRecover", "driftRecord"} => op \in {"driftRecover", "driftRecord"}

\* What a command observed holds on when neither a Job nor a journal step changes.
LEMMA ObservationsFrame ==
    ASSUME TypeOK, AtSegment, Observations, Moves, UNCHANGED <<job, steps>>, cancelled => cancelled',
           seq.step = "gone" => seq'.step = "gone",
           seq'.step \in {"observe", "patch"} =>
              seq.step \in {"observe", "patch"} /\ seq'.at \in {1, seq.at}
    PROVE  Observations'
<1>1. \A k \in Segs : /\ Observe(k)' = Observe(k)
                      /\ Begun(k)' <=> Begun(k)
                      /\ NotRecorded(k)' <=> NotRecorded(k)
  BY QuietStep
<1>2. op \in StatusOps => at \in Segs
  BY DEF AtSegment, SegmentOps, Ops, StatusOps
<1>3. SequencerGone'
  BY DEF Observations, SequencerGone
<1>4. Viewing'
  BY SAssumption DEF Observations, Viewing, Moves, NoView, Segs
<1>5. InSequence => InSequence'
  <2>1. seq.at \in Segs
    BY DEF TypeOK
  <2> QED BY <1>1, <2>1, SAssumption DEF InSequence, Segs
<1>6. ViewHolds => ViewHolds'
  BY <1>1 DEF ViewHolds, Moves, NoView
<1>7. StatusHolds => StatusHolds'
  BY <1>1, <1>2, SAssumption DEF StatusHolds, Moves, StatusOps, DriftOps, Segs
<1> QED BY <1>3, <1>4, <1>5, <1>6, <1>7 DEF Observations

\* Every step keeps what a command observed in order.
LEMMA ObservationsStep ==
    ASSUME TypeOK, TypeOK', AtSegment, AtSegment', SequencerStopped, Causes, Progress, Observations,
           [Next]_vars
    PROVE  Observations'
<1>2. CASE \E k \in Segs : JobEnds(k)
  BY <1>2, ObservationsEnding
<1>3. CASE \E k \in Segs : JobLost(k)
  BY <1>3, ObservationsEnding
<1>4. CASE SequencerPolls
  BY <1>4, ObservationsPoll
<1>5. CASE SequencerPatches
  BY <1>5, ObservationsPatch
<1>7. CASE Classify
  BY <1>7, ObservationsClassify
<1>9. CASE StatusAdvances
  BY <1>9, ObservationsAdvance
<1>14. CASE StatusRecords
  BY <1>14, ObservationsRecords
<1>16. CASE DriftChecks
  BY <1>16, ObservationsCheck
<1>17. CASE DriftDeletes
  BY <1>17, ObservationsDelete
<1>18. CASE DriftJournals
  BY <1>18, ObservationsDelete
<1>20. CASE DriftRecords
  BY <1>20, ObservationsDrifted
<1>21. CASE CancelStops
  BY <1>21, ObservationsCancel
<1>25. CASE CancelDeletes
  BY <1>25, ObservationsCancel
<1>26. CASE CancelJournals
  BY <1>26, ObservationsCancel
<1>28. CASE CancelRecords
  BY <1>28, ObservationsCancel
<1>34. CASE Abandon
  BY <1>34, ObservationsAbandon
<1>35. CASE AbandonDeletes
  BY <1>35, ObservationsAbandon
<1> USE ObservationsFrame
    DEF Moves, StatusOps, DriftOps, cluster, journal, command, Go, Ends
<1>0. CASE UNCHANGED vars
  BY <1>0 DEF vars, cluster, journal, command
<1>1. CASE \E k \in Segs : Coordinate(k)
  BY <1>1 DEF Coordinate, journal, command
<1>6. CASE SequencerLost
  BY <1>6 DEF SequencerLost, TypeOK
<1>8. CASE ClassifyRefused
  BY <1>8 DEF ClassifyRefused, Ends, NoView, cluster, journal
<1>10. CASE StatusReads
  BY <1>10 DEF StatusReads, Go, cluster, journal
<1>11. CASE StatusRecovers
  BY <1>11 DEF StatusRecovers, Go, RecoverLost, journal
<1>12. CASE StatusWatches
  BY <1>12 DEF StatusWatches, Go, StatusSeen, cluster, journal
<1>13. CASE StatusDrifts
  BY <1>13 DEF StatusDrifts, Go, StatusSeen, cluster, journal
<1>15. CASE DriftStops
  BY <1>15 DEF DriftStops, Go, StopSequencer, cluster, journal
<1>19. CASE DriftRecovers
  BY <1>19 DEF DriftRecovers, Go, RecoverLost, journal
<1>22. CASE CancelSelects
  BY <1>22 DEF CancelSelects, Go, cluster, journal
<1>23. CASE CancelReads
  BY <1>23 DEF CancelReads, Go, cluster, journal
<1>24. CASE CancelObserves
  BY <1>24 DEF CancelObserves, Go, cluster, journal
<1>27. CASE CancelFinalizes
  BY <1>27 DEF CancelFinalizes, Go, Ends, NoView, journal
<1>29. CASE CollectSelects
  BY <1>29 DEF CollectSelects, Go, cluster, journal
<1>30. CASE CollectGate
  BY <1>30 DEF CollectGate, Go, RecoverLost, journal
<1>31. CASE CollectWaits
  BY <1>31 DEF CollectWaits, Go, Ends, NoView, cluster, journal
<1>32. CASE CollectStops
  BY <1>32 DEF CollectStops, Go, StopSequencer, cluster, journal
<1>33. CASE CollectImports
  BY <1>33 DEF CollectImports, Ends, NoView, cluster
<1>36. CASE AbandonEnds
  BY <1>36 DEF AbandonEnds, Go, Ends, NoView, cluster
<1>37. CASE StatusBegins
  BY <1>37 DEF StatusBegins, Begin, NoView, cluster, journal
<1>38. CASE CancelBegins
  BY <1>38 DEF CancelBegins, Begin, NoView, cluster
<1>39. CASE CollectBegins
  BY <1>39 DEF CollectBegins, Begin, NoView, cluster, journal
<1>40. CASE CommandDies
  BY <1>40 DEF CommandDies, Ends, NoView, cluster, journal
<1>41. CASE Done
  BY <1>41 DEF Done, vars, cluster, journal, command
<1> QED
  BY <1>0, <1>1, <1>2, <1>3, <1>4, <1>5, <1>6, <1>7, <1>8, <1>9, <1>10, <1>11,
     <1>12, <1>13, <1>14, <1>15, <1>16, <1>17, <1>18, <1>19, <1>20, <1>21,
     <1>22, <1>23, <1>24, <1>25, <1>26, <1>27, <1>28, <1>29, <1>30, <1>31,
     <1>32, <1>33, <1>34, <1>35, <1>36, <1>37, <1>38, <1>39, <1>40, <1>41
  DEF Next, JobNext, SequencerNext, CommandNext, StatusNext, CancelNext, CollectNext, UserNext

\* The journal only grows.
LEMMA JournalGrows ==
    ASSUME TypeOK, [Next]_vars
    PROVE  \A k \in Segs : steps[k] \subseteq steps'[k]
<1> USE DEF TypeOK, cluster, journal, command
<1>0. CASE UNCHANGED vars
  BY <1>0 DEF vars
<1>1. CASE \E k \in Segs : Coordinate(k)
  BY <1>1 DEF Coordinate
<1>2. CASE \E k \in Segs : JobEnds(k)
  BY <1>2 DEF JobEnds
<1>3. CASE \E k \in Segs : JobLost(k)
  BY <1>3 DEF JobLost
<1>4. CASE SequencerPolls
  BY <1>4 DEF SequencerPolls
<1>5. CASE SequencerPatches
  BY <1>5 DEF SequencerPatches
<1>6. CASE SequencerLost
  BY <1>6 DEF SequencerLost
<1>7. CASE Classify
  BY <1>7 DEF Classify
<1>8. CASE ClassifyRefused
  BY <1>8 DEF ClassifyRefused
<1>9. CASE StatusAdvances
  BY <1>9 DEF StatusAdvances
<1>10. CASE StatusReads
  BY <1>10 DEF StatusReads
<1>11. CASE StatusRecovers
  BY <1>11 DEF StatusRecovers
<1>12. CASE StatusWatches
  BY <1>12 DEF StatusWatches
<1>13. CASE StatusDrifts
  BY <1>13 DEF StatusDrifts
<1>14. CASE StatusRecords
  BY <1>14 DEF StatusRecords, Record
<1>15. CASE DriftStops
  BY <1>15 DEF DriftStops
<1>16. CASE DriftChecks
  BY <1>16 DEF DriftChecks
<1>17. CASE DriftDeletes
  BY <1>17 DEF DriftDeletes
<1>18. CASE DriftJournals
  BY <1>18 DEF DriftJournals, Record
<1>19. CASE DriftRecovers
  BY <1>19 DEF DriftRecovers
<1>20. CASE DriftRecords
  BY <1>20 DEF DriftRecords, Record
<1>21. CASE CancelStops
  BY <1>21 DEF CancelStops
<1>22. CASE CancelSelects
  BY <1>22 DEF CancelSelects
<1>23. CASE CancelReads
  BY <1>23 DEF CancelReads
<1>24. CASE CancelObserves
  BY <1>24 DEF CancelObserves
<1>25. CASE CancelDeletes
  BY <1>25 DEF CancelDeletes
<1>26. CASE CancelJournals
  BY <1>26 DEF CancelJournals, Record
<1>27. CASE CancelFinalizes
  BY <1>27 DEF CancelFinalizes
<1>28. CASE CancelRecords
  BY <1>28 DEF CancelRecords
<1>29. CASE CollectSelects
  BY <1>29 DEF CollectSelects
<1>30. CASE CollectGate
  BY <1>30 DEF CollectGate
<1>31. CASE CollectWaits
  BY <1>31 DEF CollectWaits
<1>32. CASE CollectStops
  BY <1>32 DEF CollectStops
<1>33. CASE CollectImports
  BY <1>33 DEF CollectImports
<1>34. CASE Abandon
  BY <1>34 DEF Abandon, Record
<1>35. CASE AbandonDeletes
  BY <1>35 DEF AbandonDeletes, Record
<1>36. CASE AbandonEnds
  BY <1>36 DEF AbandonEnds
<1>37. CASE StatusBegins
  BY <1>37 DEF StatusBegins
<1>38. CASE CancelBegins
  BY <1>38 DEF CancelBegins
<1>39. CASE CollectBegins
  BY <1>39 DEF CollectBegins
<1>40. CASE CommandDies
  BY <1>40 DEF CommandDies
<1>41. CASE Done
  BY <1>41 DEF Done, vars
<1> QED
  BY <1>0, <1>1, <1>2, <1>3, <1>4, <1>5, <1>6, <1>7, <1>8, <1>9, <1>10, <1>11,
     <1>12, <1>13, <1>14, <1>15, <1>16, <1>17, <1>18, <1>19, <1>20, <1>21,
     <1>22, <1>23, <1>24, <1>25, <1>26, <1>27, <1>28, <1>29, <1>30, <1>31,
     <1>32, <1>33, <1>34, <1>35, <1>36, <1>37, <1>38, <1>39, <1>40, <1>41
  DEF Next, JobNext, SequencerNext, CommandNext, StatusNext, CancelNext, CollectNext, UserNext

\* What has an outcome keeps it.
LEMMA OutcomesStay ==
    ASSUME TypeOK, [Next]_vars
    PROVE  /\ \A k \in Segs : /\ ledger[k] \in Terminal => ledger'[k] = ledger[k]
                              /\ Succeeded(k) => Succeeded(k)'
                              /\ HasOutcome(k) => HasOutcome(k)'
                              /\ "notStarted" \in steps[k] => "notStarted" \in steps'[k]
           /\ Settled => Settled'
  BY OutcomeStep, JournalGrows DEF Kept, Succeeded, HasOutcome, Settled, Terminal

\* The segments to gate are those of the classification.
LEMMA LastSame ==
    ASSUME view' = view
    PROVE  Last' = Last /\ Current' = Current
  BY DEF Last, Current

\* Where a command stays, or goes on with the same segment.
Stays ==
    \/ op' \in {"idle", "cancelStop", "classify", "classified"}
    \/ UNCHANGED <<op, at, view, seen>>
    \/ /\ op \in StatusOps \cup CancelOps
       /\ op' \in StatusOps \cup CancelOps
       /\ at' = at

\* What a command went past keeps its outcome while it stays there.
LEMMA PassedFrame ==
    ASSUME TypeOK, AtSegment, Passed, [Next]_vars, Stays, imported' = imported,
           local' = local \/ (local' = "CANCEL_REQUESTED" /\ ~imported)
    PROVE  Passed'
<1>1. op \in StatusOps \cup CancelOps \cup GateOps => at \in Segs
  BY DEF AtSegment, SegmentOps, Ops, StatusOps, CancelOps, GateOps
<1>2. op \in AbandonOps => at \in 1..(S + 1)
  BY DEF AtSegment, SegmentOps, Ops, AbandonOps, TypeOK, Segs
<1>3. /\ \A k \in Segs : /\ ledger[k] \in Terminal => ledger'[k] = ledger[k]
                         /\ Succeeded(k) => Succeeded(k)'
                         /\ HasOutcome(k) => HasOutcome(k)'
                         /\ "notStarted" \in steps[k] => "notStarted" \in steps'[k]
      /\ Settled => Settled'
  BY OutcomesStay
<1>4. TerminalIsSettled' /\ (imported' => local' = "COLLECTION_IN_PROGRESS")
  BY <1>3 DEF Passed, TerminalIsSettled
<1>5. CASE op' \in {"idle", "cancelStop", "classify", "classified"}
  BY <1>4, <1>5 DEF Passed, StatusOps, CancelOps, GateOps, AbandonOps
<1>6. CASE op \in StatusOps \cup CancelOps /\ op' \in StatusOps \cup CancelOps /\ at' = at
  <2>1. \A d \in Segs : d < at => Succeeded(d)'
    BY <1>1, <1>3, <1>6, SAssumption DEF Passed, Segs
  <2> QED BY <1>4, <1>6, <2>1 DEF Passed, StatusOps, CancelOps, GateOps, AbandonOps
<1>7. CASE UNCHANGED <<op, at, view, seen>>
  <2>1. op \in StatusOps \cup CancelOps \cup GateOps => \A d \in Segs : d < at => Succeeded(d)'
    BY <1>1, <1>3, SAssumption DEF Passed, Segs
  <2>2. op \in AbandonOps => \A d \in Segs : d < at => HasOutcome(d)'
    BY <1>2, <1>3, SAssumption DEF Passed, Segs
  <2>3. Last' = Last
    BY <1>7, LastSame
  <2>4. op = "gateWait" /\ seen \in Terminal => ledger'[at] = seen
    BY <1>1, <1>3 DEF Passed, GateOps
  <2>5. op = "collectStop" => at = Last /\ ledger[at] \in Terminal /\ ledger'[at] = ledger[at]
    BY <1>1, <1>3 DEF Passed, GateOps
  <2>6. op = "collectStop" /\ Last < S /\ ledger[at] = "SUCCESS" => local' # "SUBMITTED"
    BY DEF Passed
  <2>7. op = "abandonDelete" => "notStarted" \in steps'[at]
    BY <1>3 DEF Passed, AtSegment, SegmentOps, Ops
  <2>8. op = "import" => Settled'
    BY <1>3 DEF Passed
  <2>9. op \in GateOps => at <= Last
    BY DEF Passed
  <2> QED BY <1>4, <1>7, <2>1, <2>2, <2>3, <2>4, <2>5, <2>6, <2>7, <2>8, <2>9 DEF Passed
<1> QED BY <1>5, <1>6, <1>7 DEF Stays

\* A command goes on with a segment: all before it succeeded.
LEMMA PassedEnter ==
    ASSUME TypeOK, AtSegment, Passed, [Next]_vars, UNCHANGED <<local, imported>>,
           at' \in Segs, \A d \in Segs : d < at' => Succeeded(d),
           \/ op' \in {"statusRead", "cancelRead"}
           \/ op' = "gate" /\ view' = view /\ at' <= Last
    PROVE  Passed'
<1>1. \A d \in Segs : d < at' => Succeeded(d)'
  BY OutcomesStay, SAssumption DEF Segs
<1>2. TerminalIsSettled' /\ (imported' => local' = "COLLECTION_IN_PROGRESS")
  BY OutcomesStay DEF Passed, TerminalIsSettled
<1>3. op' = "gate" => Last' = Last
  BY LastSame
<1> QED BY <1>1, <1>2, <1>3 DEF Passed, StatusOps, CancelOps, GateOps, AbandonOps

\* A command begins, or goes on, to abandon: all before have an outcome.
LEMMA PassedAbandon ==
    ASSUME TypeOK, AtSegment, Passed, [Next]_vars, UNCHANGED <<local, imported>>,
           at' \in 1..(S + 1), op' = "abandon", \A d \in Segs : d < at' => HasOutcome(d)
    PROVE  Passed'
<1>1. \A d \in Segs : d < at' => HasOutcome(d)'
  BY OutcomesStay
<1>2. TerminalIsSettled' /\ (imported' => local' = "COLLECTION_IN_PROGRESS")
  BY OutcomesStay DEF Passed, TerminalIsSettled
<1> QED BY <1>1, <1>2 DEF Passed, StatusOps, CancelOps, GateOps, AbandonOps

\* --status and --cancel select the first segment that is not Complete.
LEMMA PassedSelects ==
    ASSUME TypeOK, AtSegment, Evidence, Passed, [Next]_vars,
           StatusAdvances \/ CancelSelects \/ CollectSelects
    PROVE  Passed'
<1>1. Current \in 1..(S + 1) /\ \A d \in Segs : d < Current => Succeeded(d)
  BY CurrentIsFirst, SAssumption DEF Evidence, Segs
<1>2. CASE StatusAdvances
  <2>1. UNCHANGED <<local, imported>>
    BY <1>2, AdvanceCases DEF journal
  <2>2. CASE Ends
    BY <2>1, <2>2, PassedFrame DEF Stays, Ends
  <2>3. CASE Current \in Segs /\ Go("statusRead", Current)
    BY <1>1, <2>1, <2>3, PassedEnter DEF Go
  <2> QED BY <1>2, <2>2, <2>3, AdvanceCases
<1>3. CASE CancelSelects
  <2>1. UNCHANGED <<local, imported>>
    BY <1>3 DEF CancelSelects, journal
  <2>2. CASE Current > S /\ Go("abandon", S + 1)
    <3>1. \A d \in Segs : d <= S => HasOutcome(d)
      BY <1>1, <2>2, SAssumption DEF HasOutcome, Succeeded, Terminal, Segs
    <3> QED BY <2>1, <2>2, <3>1, SAssumption, PassedAbandon DEF Go, Segs
  <2>3. CASE Current <= S /\ Go("cancelRead", Current)
    <3>1. Current \in Segs
      BY <1>1, <2>3, SAssumption DEF Segs
    <3> QED BY <1>1, <2>1, <2>3, <3>1, PassedEnter DEF Go
  <2> QED BY <1>3, <2>2, <2>3 DEF CancelSelects
<1>4. CASE CollectSelects
  <2>1. UNCHANGED <<local, imported, view>> /\ op' = "gate" /\ at' = 1
    BY <1>4 DEF CollectSelects, journal, Go
  <2>2. 1 \in Segs /\ 1 <= Last
    BY LastIsSegment, SAssumption DEF Segs
  <2> QED BY <2>1, <2>2, PassedEnter, SAssumption DEF Segs
<1> QED BY <1>2, <1>3, <1>4

\* --cancel and drift handling go past a segment that ended.
LEMMA PassedRecords ==
    ASSUME TypeOK, AtSegment, Passed, [Next]_vars, CancelRecords \/ DriftRecords
    PROVE  Passed'
<1>1. /\ op \in {"cancelRecord", "driftRecord"} /\ at \in Segs /\ UNCHANGED <<local, imported>>
      /\ \A d \in Segs : d < at => Succeeded(d)
  BY DEF CancelRecords, DriftRecords, Passed, StatusOps, CancelOps, AtSegment, SegmentOps, Ops
<1>2. CASE op' = "idle"
  BY <1>1, <1>2, PassedFrame DEF Stays
<1>3. CASE op' = "cancelRead" /\ at' = at + 1 /\ at < S /\ Succeeded(at)
  <2>1. at + 1 \in Segs /\ \A d \in Segs : d <= at => Succeeded(d)
    BY <1>1, <1>3, SAssumption DEF Segs
  <2> QED BY <1>1, <1>3, <2>1, PassedEnter, SAssumption DEF Segs
<1>4. CASE op' = "abandon" /\ at' = at + 1 /\ ledger[at] \in Terminal
  <2>1. at + 1 \in 1..(S + 1) /\ \A d \in Segs : d <= at => HasOutcome(d)
    BY <1>1, <1>4, SAssumption DEF Segs, HasOutcome, Succeeded, Terminal
  <2> QED BY <1>1, <1>4, <2>1, PassedAbandon, SAssumption DEF Segs
<1> QED BY <1>2, <1>3, <1>4 DEF CancelRecords, DriftRecords, Go, Ends, Succeeded, Terminal

\* --collect goes past a gate only with the outcome it read.
LEMMA PassedGates ==
    ASSUME TypeOK, TypeOK', AtSegment, Passed, [Next]_vars, CollectGate \/ CollectWaits \/ CollectStops
    PROVE  Passed'
<1>1. /\ op \in GateOps /\ at \in Segs /\ UNCHANGED <<local, imported>>
      /\ \A d \in Segs : d < at => Succeeded(d)
      /\ at <= Last
  BY DEF CollectGate, CollectWaits, CollectStops, Passed, GateOps, AtSegment, SegmentOps, Ops, journal
<1>2. /\ TerminalIsSettled' /\ (imported' => local' = "COLLECTION_IN_PROGRESS")
      /\ \A d \in Segs : d < at => Succeeded(d)'
  BY <1>1, OutcomesStay, SAssumption DEF Passed, TerminalIsSettled, Segs
<1>3. CASE CollectGate
  <2>1. op' = "gateWait" /\ at' = at /\ seen' = ledger'[at] /\ view' = view
    BY <1>3 DEF CollectGate, Go
  <2> QED BY <1>1, <1>2, <2>1, LastSame DEF Passed, StatusOps, CancelOps, GateOps, AbandonOps
<1>4. CASE CollectWaits
  <2>1. UNCHANGED <<ledger, local>> /\ op = "gateWait"
    BY <1>4 DEF CollectWaits, cluster, journal
  <2>2. CASE op' = "idle"
    BY <1>1, <2>2, PassedFrame DEF Stays
  <2>3. CASE GateOpens /\ at < Last /\ Go("gate", at + 1)
    <3>1. Succeeded(at)
      BY <2>1, <2>3 DEF GateOpens, Passed, Succeeded
    <3>2. at + 1 \in Segs /\ \A d \in Segs : d <= at => Succeeded(d)
      BY <1>1, <2>3, <3>1, LastIsSegment, SAssumption DEF Segs
    <3>3. at + 1 <= Last
      BY <1>1, <2>3, LastIsSegment DEF Segs
    <3> QED BY <1>1, <2>3, <3>2, <3>3, PassedEnter, SAssumption DEF Go, Segs
  <2>4. CASE GateOpens /\ ~(at < Last) /\ Go("collectStop", at)
    <3>1. at = Last
      BY <1>1, <2>4, LastIsSegment DEF Segs
    <3>2. ledger[at] = seen /\ seen \in Terminal
      BY <2>1, <2>4 DEF GateOpens, Passed
    <3>3. Last < S /\ ledger[at] = "SUCCESS" => local # "SUBMITTED"
      BY <2>4, <3>1, <3>2 DEF GateOpens
    <3>4. op' = "collectStop" /\ at' = at /\ Last' = Last
      BY <2>4, LastSame DEF Go
    <3> QED BY <1>1, <1>2, <2>1, <3>1, <3>2, <3>3, <3>4
            DEF Passed, StatusOps, CancelOps, GateOps, AbandonOps
  <2> QED BY <1>4, <2>2, <2>3, <2>4 DEF CollectWaits, Ends
<1>5. CASE CollectStops
  <2>1. op = "collectStop" /\ op' = "abandon" /\ at' = Last + 1
    BY <1>5 DEF CollectStops, Go
  <2>2. at = Last /\ ledger[at] \in Terminal
    BY <2>1 DEF Passed
  <2>3. Last + 1 \in 1..(S + 1) /\ \A d \in Segs : d <= Last => HasOutcome(d)
    BY <1>1, <2>2, SAssumption DEF HasOutcome, Succeeded, Terminal, Segs
  <2> QED BY <1>1, <2>1, <2>3, LastIsSegment, PassedAbandon, SAssumption DEF Segs
<1> QED BY <1>3, <1>4, <1>5

\* Abandoning goes past a segment that was skipped.
LEMMA PassedSkips ==
    ASSUME TypeOK, TypeOK', AtSegment, Progress, [Next]_vars, Abandon \/ AbandonDeletes
    PROVE  Passed'
<1>1. /\ op \in AbandonOps /\ at \in Segs /\ UNCHANGED <<local, imported>>
      /\ \A d \in Segs : d < at => HasOutcome(d)
  BY AbandonCases DEF AbandonDeletes, Progress, Passed, AbandonOps, AtSegment, SegmentOps, Ops
<1>2. CASE op' = "idle"
  BY <1>1, <1>2, PassedFrame DEF Stays, Progress
<1>3. CASE op' = "abandon" /\ at' = at + 1 /\ "notStarted" \in steps[at]
  <2>1. at + 1 \in 1..(S + 1) /\ \A d \in Segs : d <= at => HasOutcome(d)
    BY <1>1, <1>3, SAssumption DEF HasOutcome, Segs
  <2> QED BY <1>1, <1>3, <2>1, PassedAbandon, SAssumption DEF Progress, Segs
<1>4. CASE op' = "abandonDelete" /\ at' = at /\ "notStarted" \in steps'[at]
  <2>1. /\ TerminalIsSettled' /\ (imported' => local' = "COLLECTION_IN_PROGRESS")
        /\ \A d \in Segs : d < at => HasOutcome(d)'
    BY <1>1, OutcomesStay, SAssumption DEF Progress, Passed, TerminalIsSettled, Segs
  <2> QED BY <1>1, <1>4, <2>1 DEF Passed, StatusOps, CancelOps, GateOps, AbandonOps
<1>5. CASE Abandon
  <2>1. op = "abandon" /\ ("deleted" \in steps[at] => "notStarted" \in steps[at])
    BY <1>1, <1>5, AbandonCases DEF Progress, Remaining, Unskipped, Segs
  <2> QED BY <1>2, <1>3, <1>4, <1>5, <2>1, AbandonCases DEF Go, Ends
<1>6. CASE AbandonDeletes
  BY <1>3, <1>6 DEF AbandonDeletes, Go, Progress, Passed
<1> QED BY <1>5, <1>6

\* The end of abandoning: every segment has an outcome.
LEMMA PassedEnds ==
    ASSUME TypeOK, AtSegment, Passed, [Next]_vars, AbandonEnds \/ CollectImports
    PROVE  Passed'
<1>1. Settled
  <2>1. CASE AbandonEnds
    <3>1. at = S + 1 /\ op = "abandon"
      BY <2>1, SAssumption DEF AbandonEnds, TypeOK
    <3> QED BY <3>1, SAssumption DEF Passed, AbandonOps, HasOutcome, Settled, Segs
  <2>2. CASE CollectImports
    BY <2>2 DEF CollectImports, Passed
  <2> QED BY <2>1, <2>2
<1>2. Settled' /\ TerminalIsSettled'
  BY <1>1, OutcomesStay DEF TerminalIsSettled
<1>3. /\ op' \in {"idle", "import"}
      /\ imported' => local' = "COLLECTION_IN_PROGRESS"
  BY DEF AbandonEnds, CollectImports, Go, Ends, Passed
<1> QED BY <1>2, <1>3 DEF Passed, StatusOps, CancelOps, GateOps, AbandonOps

\* Every step keeps the outcomes that a command went past.
LEMMA PassedStep ==
    ASSUME TypeOK, TypeOK', AtSegment, Evidence, Progress, [Next]_vars
    PROVE  Passed'
<1> USE DEF Progress
<1>9. CASE StatusAdvances
  BY <1>9, PassedSelects
<1>20. CASE DriftRecords
  BY <1>20, PassedRecords
<1>22. CASE CancelSelects
  BY <1>22, PassedSelects
<1>28. CASE CancelRecords
  BY <1>28, PassedRecords
<1>29. CASE CollectSelects
  BY <1>29, PassedSelects
<1>30. CASE CollectGate
  BY <1>30, PassedGates
<1>31. CASE CollectWaits
  BY <1>31, PassedGates
<1>32. CASE CollectStops
  BY <1>32, PassedGates
<1>33. CASE CollectImports
  BY <1>33, PassedEnds
<1>34. CASE Abandon
  BY <1>34, PassedSkips
<1>35. CASE AbandonDeletes
  BY <1>35, PassedSkips
<1>36. CASE AbandonEnds
  BY <1>36, PassedEnds
<1> USE PassedFrame DEF Stays, StatusOps, CancelOps, cluster, journal, command, Go, Ends
<1>0. CASE UNCHANGED vars
  BY <1>0 DEF vars, cluster, journal, command
<1>1. CASE \E k \in Segs : Coordinate(k)
  BY <1>1 DEF Coordinate, journal, command
<1>2. CASE \E k \in Segs : JobEnds(k)
  BY <1>2 DEF JobEnds, journal, command
<1>3. CASE \E k \in Segs : JobLost(k)
  BY <1>3 DEF JobLost, journal, command
<1>4. CASE SequencerPolls
  BY <1>4 DEF SequencerPolls, cluster, journal, command
<1>5. CASE SequencerPatches
  BY <1>5 DEF SequencerPatches, journal, command
<1>6. CASE SequencerLost
  BY <1>6 DEF SequencerLost, cluster, journal, command
<1>7. CASE Classify
  BY <1>7 DEF Classify, cluster, journal, JobStates
<1>8. CASE ClassifyRefused
  BY <1>8 DEF ClassifyRefused, Ends, cluster, journal
<1>10. CASE StatusReads
  BY <1>10 DEF StatusReads, Go, cluster, journal
<1>11. CASE StatusRecovers
  BY <1>11 DEF StatusRecovers, Go, journal
<1>12. CASE StatusWatches
  BY <1>12 DEF StatusWatches, Go, cluster, journal
<1>13. CASE StatusDrifts
  BY <1>13 DEF StatusDrifts, Go, cluster, journal
<1>14. CASE StatusRecords
  BY <1>14 DEF StatusRecords, Ends, cluster
<1>15. CASE DriftStops
  BY <1>15 DEF DriftStops, Go, cluster, journal
<1>16. CASE DriftChecks
  BY <1>16 DEF DriftChecks, Go, Ends, cluster
<1>17. CASE DriftDeletes
  BY <1>17 DEF DriftDeletes, Go, journal
<1>18. CASE DriftJournals
  BY <1>18 DEF DriftJournals, Go, cluster
<1>19. CASE DriftRecovers
  BY <1>19 DEF DriftRecovers, Go, journal
<1>21. CASE CancelStops
  BY <1>21 DEF CancelStops, Go, cluster, journal
<1>23. CASE CancelReads
  BY <1>23 DEF CancelReads, Go, cluster, journal
<1>24. CASE CancelObserves
  BY <1>24 DEF CancelObserves, Go, cluster, journal
<1>25. CASE CancelDeletes
  BY <1>25 DEF CancelDeletes, Go, journal
<1>26. CASE CancelJournals
  BY <1>26 DEF CancelJournals, Go, cluster
<1>27. CASE CancelFinalizes
  BY <1>27 DEF CancelFinalizes, Go, Ends, journal
<1>37. CASE StatusBegins
  BY <1>37 DEF StatusBegins, Begin, cluster, journal
<1>38. CASE CancelBegins
  BY <1>38 DEF CancelBegins, Begin, cluster
<1>39. CASE CollectBegins
  BY <1>39 DEF CollectBegins, Begin, cluster, journal
<1>40. CASE CommandDies
  BY <1>40 DEF CommandDies, Ends, cluster, journal
<1>41. CASE Done
  BY <1>41 DEF Done, vars, cluster, journal, command
<1> QED
  BY <1>0, <1>1, <1>2, <1>3, <1>4, <1>5, <1>6, <1>7, <1>8, <1>9, <1>10, <1>11,
     <1>12, <1>13, <1>14, <1>15, <1>16, <1>17, <1>18, <1>19, <1>20, <1>21,
     <1>22, <1>23, <1>24, <1>25, <1>26, <1>27, <1>28, <1>29, <1>30, <1>31,
     <1>32, <1>33, <1>34, <1>35, <1>36, <1>37, <1>38, <1>39, <1>40, <1>41
  DEF Next, JobNext, SequencerNext, CommandNext, StatusNext, CancelNext, CollectNext, UserNext

\* A Job is deleted without its segment being skipped by drift handling and --cancel only.
LEMMA UnskippedStays ==
    ASSUME TypeOK, AtSegment, Passed, [Next]_vars
    PROVE  \A k \in Segs : k # at \/ op \notin {"driftJournal", "cancelJournal"} =>
                              (Unskipped(k) => Unskipped(k)')
<1> USE DEF TypeOK, Unskipped, cluster, journal, command
<1>0. CASE UNCHANGED vars
  BY <1>0 DEF vars
<1>1. CASE \E k \in Segs : Coordinate(k)
  BY <1>1 DEF Coordinate
<1>2. CASE \E k \in Segs : JobEnds(k)
  BY <1>2 DEF JobEnds
<1>3. CASE \E k \in Segs : JobLost(k)
  BY <1>3 DEF JobLost
<1>4. CASE SequencerPolls
  BY <1>4 DEF SequencerPolls
<1>5. CASE SequencerPatches
  BY <1>5 DEF SequencerPatches
<1>6. CASE SequencerLost
  BY <1>6 DEF SequencerLost
<1>7. CASE Classify
  BY <1>7 DEF Classify
<1>8. CASE ClassifyRefused
  BY <1>8 DEF ClassifyRefused
<1>9. CASE StatusAdvances
  BY <1>9 DEF StatusAdvances
<1>10. CASE StatusReads
  BY <1>10 DEF StatusReads
<1>11. CASE StatusRecovers
  BY <1>11 DEF StatusRecovers
<1>12. CASE StatusWatches
  BY <1>12 DEF StatusWatches
<1>13. CASE StatusDrifts
  BY <1>13 DEF StatusDrifts
<1>14. CASE StatusRecords
  BY <1>14 DEF StatusRecords, Record
<1>15. CASE DriftStops
  BY <1>15 DEF DriftStops
<1>16. CASE DriftChecks
  BY <1>16 DEF DriftChecks
<1>17. CASE DriftDeletes
  BY <1>17 DEF DriftDeletes
<1>18. CASE DriftJournals
  BY <1>18 DEF DriftJournals, Record
<1>19. CASE DriftRecovers
  BY <1>19 DEF DriftRecovers
<1>20. CASE DriftRecords
  BY <1>20 DEF DriftRecords, Record
<1>21. CASE CancelStops
  BY <1>21 DEF CancelStops
<1>22. CASE CancelSelects
  BY <1>22 DEF CancelSelects
<1>23. CASE CancelReads
  BY <1>23 DEF CancelReads
<1>24. CASE CancelObserves
  BY <1>24 DEF CancelObserves
<1>25. CASE CancelDeletes
  BY <1>25 DEF CancelDeletes
<1>26. CASE CancelJournals
  BY <1>26 DEF CancelJournals, Record
<1>27. CASE CancelFinalizes
  BY <1>27 DEF CancelFinalizes
<1>28. CASE CancelRecords
  BY <1>28 DEF CancelRecords
<1>29. CASE CollectSelects
  BY <1>29 DEF CollectSelects
<1>30. CASE CollectGate
  BY <1>30 DEF CollectGate
<1>31. CASE CollectWaits
  BY <1>31 DEF CollectWaits
<1>32. CASE CollectStops
  BY <1>32 DEF CollectStops
<1>33. CASE CollectImports
  BY <1>33 DEF CollectImports
<1>34. CASE Abandon
  BY <1>34 DEF Abandon, Record
<1>35. CASE AbandonDeletes
  <2>1. at \in Segs /\ "notStarted" \in steps[at]
    BY <1>35 DEF AbandonDeletes, Passed, AtSegment, SegmentOps, Ops
  <2> QED BY <1>35, <2>1 DEF AbandonDeletes, Record
<1>36. CASE AbandonEnds
  BY <1>36 DEF AbandonEnds
<1>37. CASE StatusBegins
  BY <1>37 DEF StatusBegins
<1>38. CASE CancelBegins
  BY <1>38 DEF CancelBegins
<1>39. CASE CollectBegins
  BY <1>39 DEF CollectBegins
<1>40. CASE CommandDies
  BY <1>40 DEF CommandDies
<1>41. CASE Done
  BY <1>41 DEF Done, vars
<1> QED
  BY <1>0, <1>1, <1>2, <1>3, <1>4, <1>5, <1>6, <1>7, <1>8, <1>9, <1>10, <1>11,
     <1>12, <1>13, <1>14, <1>15, <1>16, <1>17, <1>18, <1>19, <1>20, <1>21,
     <1>22, <1>23, <1>24, <1>25, <1>26, <1>27, <1>28, <1>29, <1>30, <1>31,
     <1>32, <1>33, <1>34, <1>35, <1>36, <1>37, <1>38, <1>39, <1>40, <1>41
  DEF Next, JobNext, SequencerNext, CommandNext, StatusNext, CancelNext, CollectNext, UserNext

\* Where a command goes on, by what it has yet to abandon.
Keeps ==
    \/ op' \in {"idle", "import"}
    \/ op' \in {"cancelStop", "classify"} /\ view' = NoView
    \/ UNCHANGED <<op, at, view>>
    \/ op \in {"cancelStop", "classify", "classified"} /\ op' \in {"classify", "classified"} /\ view' = view
    \/ op \in StatusOps \cup CancelOps /\ op' \in StatusOps \cup CancelOps /\ at' >= at
    \/ op \in StatusOps \cup CancelOps /\ op' = "abandon" /\ at' = at + 1
    \/ op \in GateOps /\ op' \in GateOps /\ view' = view
    \/ op \in GateOps /\ op' = "abandon" /\ at' = Last + 1
    \/ op \in AbandonOps /\ op' = "abandon" /\ at' = at + 1
    \/ op = "abandon" /\ op' = "abandonDelete" /\ at' = at

\* A command goes on towards the later segments, and deletes none but its own.
LEMMA RemainingFrame ==
    ASSUME TypeOK, TypeOK', AtSegment, Progress, [Next]_vars, Keeps
    PROVE  Remaining'
<1>1. \A k \in Segs : k # at \/ op \notin {"driftJournal", "cancelJournal"} =>
                         (Unskipped(k) => Unskipped(k)')
  BY UnskippedStays DEF Progress
<1>2. at \in Int /\ at' \in Int /\ Last \in Int
  BY LastIsSegment, SAssumption DEF TypeOK, Segs
<1>3. CASE op' \in {"idle", "import"}
  BY <1>3 DEF Remaining, StatusOps, CancelOps, GateOps
<1>4. CASE op' \in {"cancelStop", "classify"} /\ view' = NoView
  BY <1>4 DEF Remaining, StatusOps, CancelOps, GateOps, NoView
<1>5. CASE UNCHANGED <<op, at, view>>
  BY <1>1, <1>2, <1>5, LastSame DEF Progress, Remaining, StatusOps, CancelOps, GateOps, Segs
<1>6. CASE /\ op \in {"cancelStop", "classify", "classified"}
           /\ op' \in {"classify", "classified"} /\ view' = view
  BY <1>1, <1>6 DEF Progress, Remaining, StatusOps, CancelOps, GateOps
<1>7. CASE op \in StatusOps \cup CancelOps /\ op' \in StatusOps \cup CancelOps /\ at' >= at
  BY <1>1, <1>2, <1>7 DEF Progress, Remaining, StatusOps, CancelOps, GateOps, Segs
<1>8. CASE op \in StatusOps \cup CancelOps /\ op' = "abandon" /\ at' = at + 1
  BY <1>1, <1>2, <1>8 DEF Progress, Remaining, StatusOps, CancelOps, GateOps, Segs
<1>9. CASE op \in GateOps /\ op' \in GateOps /\ view' = view
  BY <1>1, <1>2, <1>9, LastSame DEF Progress, Remaining, StatusOps, CancelOps, GateOps, Segs
<1>10. CASE op \in GateOps /\ op' = "abandon" /\ at' = Last + 1
  BY <1>1, <1>2, <1>10 DEF Progress, Remaining, StatusOps, CancelOps, GateOps, Segs
<1>11. CASE op \in AbandonOps /\ op' = "abandon" /\ at' = at + 1
  BY <1>1, <1>2, <1>11 DEF Progress, Remaining, StatusOps, CancelOps, GateOps, AbandonOps, Segs
<1>12. CASE op = "abandon" /\ op' = "abandonDelete" /\ at' = at
  BY <1>1, <1>2, <1>12 DEF Progress, Remaining, StatusOps, CancelOps, GateOps, Segs
<1> QED BY <1>3, <1>4, <1>5, <1>6, <1>7, <1>8, <1>9, <1>10, <1>11, <1>12 DEF Keeps

\* A segment observed as suspended, or as never started, was not deleted before.
LEMMA RemainingClassify ==
    ASSUME TypeOK, AtSegment, Progress, Classify
    PROVE  Remaining'
<1>1. /\ op = "classify" /\ at \in Segs /\ steps' = steps /\ op' \in {"classify", "classified"}
  BY DEF Classify, journal, AtSegment, SegmentOps, Ops
<1>2. view'[at] = Observe(at) /\ \A k \in Segs \ {at} : view'[k] = view[k]
  BY <1>1 DEF Classify, TypeOK
<1>3. Observe(at) \in {"SUSPENDED", "NOT_STARTED"} => Unskipped(at)
  BY <1>1, ObserveSuspended DEF Unskipped
<1>4. \A k \in Segs : Unskipped(k)' <=> Unskipped(k)
  BY <1>1 DEF Unskipped
<1>5. \A k \in Segs : view'[k] \in {"SUSPENDED", "NOT_STARTED"} => Unskipped(k)'
  BY <1>1, <1>2, <1>3, <1>4 DEF Progress, Remaining
<1> QED BY <1>1, <1>5 DEF Remaining, StatusOps, CancelOps, GateOps

\* What comes after the selected segment is observed as suspended or never started.
LEMMA RemainingSelects ==
    ASSUME TypeOK, TypeOK', AtSegment, Progress, StatusAdvances \/ CancelSelects \/ CollectSelects
    PROVE  Remaining'
<1>1. /\ op = "classified" /\ InOrder /\ steps' = steps
      /\ \/ op' = "idle"
         \/ view' = view /\ op' \in {"statusRead", "cancelRead"} /\ at' = Current
         \/ op' = "abandon" /\ at' = S + 1
         \/ view' = view /\ op' = "gate"
  BY AdvanceCases DEF CancelSelects, CollectSelects, journal, Go, Ends
<1>2. \A k \in Segs : k > Current => Unskipped(k)'
  BY <1>1 DEF InOrder, Progress, Remaining, Unskipped
<1>3. \A k \in Segs : k > Last => Unskipped(k)'
  <2>1. Current \in 1..(S + 1)
    BY CurrentIsFirst
  <2>2. CASE Last = Current \/ Last = S
    BY <1>2, <2>2, SAssumption DEF Segs
  <2>3. CASE Current \in Segs /\ view[Current] = "NOT_STARTED" /\ Last = Current - 1
    <3>1. Unskipped(Current)
      BY <1>1, <2>3 DEF Progress, Remaining
    <3>2. \A k \in Segs : k = Current => Unskipped(k)'
      BY <1>1, <3>1 DEF Unskipped
    <3> QED BY <1>2, <2>3, <3>2, SAssumption DEF Segs
  <2> QED BY <2>1, <2>2, <2>3, SAssumption DEF Last, Segs
<1>4. CASE op' = "idle"
  BY <1>4 DEF Remaining, StatusOps, CancelOps, GateOps
<1>5. CASE view' = view /\ op' \in {"statusRead", "cancelRead"} /\ at' = Current
  BY <1>2, <1>5 DEF Remaining, StatusOps, CancelOps, GateOps
<1>6. CASE op' = "abandon" /\ at' = S + 1
  BY <1>6, SAssumption DEF Remaining, StatusOps, CancelOps, GateOps, Segs
<1>7. CASE view' = view /\ op' = "gate"
  BY <1>3, <1>7, LastSame DEF Remaining, StatusOps, CancelOps, GateOps
<1> QED BY <1>1, <1>4, <1>5, <1>6, <1>7

\* Every step keeps what a command has yet to abandon.
LEMMA RemainingStep ==
    ASSUME TypeOK, TypeOK', AtSegment, AtSegment', Progress, [Next]_vars
    PROVE  Remaining'
<1>7. CASE Classify
  BY <1>7, RemainingClassify
<1>9. CASE StatusAdvances
  BY <1>9, RemainingSelects
<1>22. CASE CancelSelects
  BY <1>22, RemainingSelects
<1>29. CASE CollectSelects
  BY <1>29, RemainingSelects
<1>a. at \in Int
  BY DEF TypeOK
<1> USE <1>a, RemainingFrame DEF Keeps, StatusOps, CancelOps, cluster, journal, command, Go, Ends
<1>0. CASE UNCHANGED vars
  BY <1>0 DEF vars, cluster, journal, command
<1>1. CASE \E k \in Segs : Coordinate(k)
  BY <1>1 DEF Coordinate, journal, command
<1>2. CASE \E k \in Segs : JobEnds(k)
  BY <1>2 DEF JobEnds, journal, command
<1>3. CASE \E k \in Segs : JobLost(k)
  BY <1>3 DEF JobLost, journal, command
<1>4. CASE SequencerPolls
  BY <1>4 DEF SequencerPolls, cluster, journal, command
<1>5. CASE SequencerPatches
  BY <1>5 DEF SequencerPatches, journal, command
<1>6. CASE SequencerLost
  BY <1>6 DEF SequencerLost, cluster, journal, command
<1>8. CASE ClassifyRefused
  BY <1>8 DEF ClassifyRefused, Ends, cluster, journal
<1>10. CASE StatusReads
  BY <1>10 DEF StatusReads, Go, cluster, journal
<1>11. CASE StatusRecovers
  BY <1>11 DEF StatusRecovers, Go, journal
<1>12. CASE StatusWatches
  BY <1>12 DEF StatusWatches, Go, cluster, journal
<1>13. CASE StatusDrifts
  BY <1>13 DEF StatusDrifts, Go, cluster, journal
<1>14. CASE StatusRecords
  BY <1>14, RecordsCases
<1>15. CASE DriftStops
  BY <1>15 DEF DriftStops, Go, cluster, journal
<1>16. CASE DriftChecks
  BY <1>16 DEF DriftChecks, Go, Ends, cluster
<1>17. CASE DriftDeletes
  BY <1>17 DEF DriftDeletes, Go, journal
<1>18. CASE DriftJournals
  BY <1>18 DEF DriftJournals, Go, cluster
<1>19. CASE DriftRecovers
  BY <1>19 DEF DriftRecovers, Go, journal
<1>20. CASE DriftRecords
  BY <1>20 DEF DriftRecords, Go, Ends, cluster
<1>21. CASE CancelStops
  BY <1>21 DEF CancelStops, Go, cluster, journal
<1>23. CASE CancelReads
  BY <1>23 DEF CancelReads, Go, cluster, journal
<1>24. CASE CancelObserves
  BY <1>24 DEF CancelObserves, Go, cluster, journal
<1>25. CASE CancelDeletes
  BY <1>25 DEF CancelDeletes, Go, journal
<1>26. CASE CancelJournals
  BY <1>26 DEF CancelJournals, Go, cluster
<1>27. CASE CancelFinalizes
  BY <1>27 DEF CancelFinalizes, Go, Ends, journal
<1>28. CASE CancelRecords
  BY <1>28 DEF CancelRecords, Go, Ends, cluster
<1>30. CASE CollectGate
  BY <1>30 DEF CollectGate, Go, journal, GateOps
<1>31. CASE CollectWaits
  BY <1>31 DEF CollectWaits, Go, Ends, cluster, journal, GateOps
<1>32. CASE CollectStops
  BY <1>32 DEF CollectStops, GateOps
<1>33. CASE CollectImports
  BY <1>33 DEF CollectImports, Ends, cluster
<1>34. CASE Abandon
  BY <1>34, AbandonCases DEF AbandonOps
<1>35. CASE AbandonDeletes
  BY <1>35 DEF AbandonDeletes, Go, AbandonOps
<1>36. CASE AbandonEnds
  BY <1>36 DEF AbandonEnds, Go, Ends, cluster
<1>37. CASE StatusBegins
  BY <1>37 DEF StatusBegins, Begin, cluster, journal
<1>38. CASE CancelBegins
  BY <1>38 DEF CancelBegins, Begin, cluster
<1>39. CASE CollectBegins
  BY <1>39 DEF CollectBegins, Begin, cluster, journal
<1>40. CASE CommandDies
  BY <1>40 DEF CommandDies, Ends, cluster, journal
<1>41. CASE Done
  BY <1>41 DEF Done, vars, cluster, journal, command
<1> QED
  BY <1>0, <1>1, <1>2, <1>3, <1>4, <1>5, <1>6, <1>7, <1>8, <1>9, <1>10, <1>11,
     <1>12, <1>13, <1>14, <1>15, <1>16, <1>17, <1>18, <1>19, <1>20, <1>21,
     <1>22, <1>23, <1>24, <1>25, <1>26, <1>27, <1>28, <1>29, <1>30, <1>31,
     <1>32, <1>33, <1>34, <1>35, <1>36, <1>37, <1>38, <1>39, <1>40, <1>41
  DEF Next, JobNext, SequencerNext, CommandNext, StatusNext, CancelNext, CollectNext, UserNext

\* The first segment that decides the outcome of a collection is one that failed.
LEMMA FirstFailing ==
    ASSUME NEW F \in SUBSET Segs, F # {}
    PROVE  (CHOOSE k \in F : \A d \in F : k <= d) \in F
<1>1. F \subseteq Nat
  BY SAssumption DEF Segs
<1>2. PICK m \in F : \A y \in F : ~ (<<y, m>> \in OpToRel(<, Nat))
  BY <1>1, WFMin, NatLessThanWellFounded
<1>3. \A d \in F : ~ (d < m)
  BY <1>1, <1>2 DEF OpToRel
<1>4. \A d \in F : m <= d
  BY <1>1, <1>3
<1> QED BY <1>2, <1>4

\* The journal's evidence makes the collected outcome that of the segments.
LEMMA OutcomeAgrees ==
    ASSUME NeverStarted, Causes
    PROVE  CollectedOutcomeAgrees
<1> DEFINE failing == {k \in Segs : "notStarted" \notin steps[k] /\ ledger[k] # "SUCCESS"}
           first == CHOOSE k \in failing : \A d \in failing : k <= d
<1>1. \A k \in Segs : "notStarted" \in steps[k] => ledger[k] # "SUCCESS"
  BY DEF NeverStarted, Causes
<1>2. CASE failing # {}
  <2>1. first \in failing
    BY <1>2, FirstFailing
  <2>2. CollectedOutcome = ledger[first]
    BY <1>2 DEF CollectedOutcome
  <2>3. first \in Segs /\ ledger[first] # "SUCCESS"
    BY <2>1
  <2>4. ledger[first] = "CANCELLED" => cancelled
    BY <2>3 DEF Causes
  <2> HIDE DEF first
  <2> QED BY <2>2, <2>3, <2>4 DEF CollectedOutcomeAgrees
<1>3. CASE failing = {}
  <2>1. \A k \in Segs : "notStarted" \notin steps[k] => ledger[k] = "SUCCESS"
    BY <1>3
  <2>2. CollectedOutcome =
           IF \A k \in Segs : "notStarted" \notin steps[k] THEN "SUCCESS"
           ELSE IF drifted THEN "FAILED" ELSE "CANCELLED"
    BY <1>3 DEF CollectedOutcome
  <2>3. ~ FailedRun
    BY <2>1 DEF FailedRun, NeverStarted
  <2>4. (\E k \in Segs : "notStarted" \in steps[k]) => drifted \/ cancelled
    BY <2>3 DEF Causes
  <2> HIDE DEF failing
  <2> QED BY <1>1, <2>1, <2>2, <2>4 DEF CollectedOutcomeAgrees
<1> QED BY <1>2, <1>3

\* What a classification observed is in order as long as nobody cancels.
LEMMA OrderIsKept ==
    ASSUME Observations
    PROVE  ClassifiedInOrder
<1> SUFFICES ASSUME op = "classified", ~cancelled, NEW k \in Segs, k > Current,
                    view[k] \notin {"SUSPENDED", "NOT_STARTED"}
             PROVE  FALSE
  BY DEF ClassifiedInOrder, InOrder
<1>1. /\ Current \in Segs /\ view[Current] # "COMPLETE"
      /\ Current \in 1..(k - 1)
  BY CurrentIsFirst, SAssumption DEF Segs
<1>2. view[k] # "none" /\ view[Current] # "none"
  BY <1>1 DEF Observations, Viewing
<1>3. \A d \in 1..(k - 1) : view[d] \in {"none", "COMPLETE"}
  BY <1>2 DEF Observations, ViewHolds
<1> QED BY <1>1, <1>2, <1>3

\* The journal of an attempt is true for every number of segments and of commands
\* that die: its classifications are in order, a local TERMINAL is settled, and the
\* collected outcome is that of the segments.
THEOREM JournalIsSound == Spec => []JournalSound
<1> DEFINE Inv == /\ TypeOK /\ AtSegment /\ SequencerStopped /\ Evidence /\ NeverStarted
                  /\ Causes /\ Observations /\ Progress
<1>1. Init => TypeOK /\ AtSegment
  BY InitType
<1>2. Init => SequencerStopped /\ Evidence /\ NeverStarted
  BY SAssumption DEF Init, SequencerStopped, StoppedOps, Evidence, NeverStarted, Succeeded, NoView, Segs
<1>3. Init => Causes /\ Observations /\ Progress
  <2> SUFFICES ASSUME Init PROVE Causes /\ Observations /\ Progress
    OBVIOUS
  <2>1. \A k \in Segs : job[k] = "SUSPENDED" /\ ledger[k] = "EMPTY" /\ steps[k] = {}
    BY DEF Init
  <2>2. /\ op = "idle" /\ cmd = "none" /\ local = "SUBMITTED" /\ ~imported
        /\ seq.step = "observe" /\ seq.at = 1
    BY DEF Init
  <2>3. Causes
    BY <2>1, <2>2 DEF Causes, StatusOps, DriftOps, CancelOps, GateOps, AbandonOps
  <2>4. \A k \in Segs : Observe(k) = "SUSPENDED"
    BY <1>1, <2>1, ObserveCases
  <2>5. Observations
    BY <2>1, <2>2, <2>4
    DEF Observations, SequencerGone, Viewing, InSequence, Begun, ViewHolds, StatusHolds, StatusOps, DriftOps
  <2>6. Progress
    BY <2>2 DEF Progress, Passed, Remaining, TerminalIsSettled, StatusOps, CancelOps, GateOps, AbandonOps
  <2> QED BY <2>3, <2>5, <2>6
<1>4. Inv /\ [Next]_vars => Inv'
  <2> SUFFICES ASSUME Inv, [Next]_vars PROVE Inv'
    OBVIOUS
  <2>1. TypeOK' /\ AtSegment'
    BY TypeStep
  <2>2. SequencerStopped' /\ Evidence' /\ NeverStarted'
    BY StoppedStep, EvidenceStep, NeverStartedStep
  <2>3. Causes'
    BY CausesStep
  <2>4. Observations'
    BY <2>1, ObservationsStep
  <2>5. Progress'
    BY <2>1, PassedStep, RemainingStep DEF Progress
  <2> QED BY <2>1, <2>2, <2>3, <2>4, <2>5
<1>5. Inv => JournalSound
  BY OutcomeAgrees, OrderIsKept DEF JournalSound, Progress, Passed
<1> QED BY <1>1, <1>2, <1>3, <1>4, <1>5, PTL DEF Spec
=============================================================================
