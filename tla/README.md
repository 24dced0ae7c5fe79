# A formal model of storage-scale-test

storage-scale-test runs storage benchmarks (Elbencho sweeps, metadata tests, warp,
network tests) over many nodes, through SSH, Slurm or `kubectl`. The part of it that
is hard to get right is not the benchmark but the bookkeeping around it: which cell
runs next, what survives when a Pod, a shell or the operator's own command dies
between two writes, who may touch the durable ledger, and when a result may be
believed. This directory models that bookkeeping in TLA+, checks it with TLC on small
instances, and proves the central properties with TLAPS for every size.

Source abbreviations used below: **C** is
`storage-tests/fs/kubectl/_nv-elbencho-kubectl-coordinator.sh`, **F** is
`storage-tests/fs/kubectl/_nv-elbencho-kubectl-functions.sh`, **Q** is
`storage-tests/fs/kubectl/_nv-elbencho-kubectl-sequencer.sh`, and *lifecycle contract*
is `docs/KUBERNETES_ELBENCHO_LIFECYCLE.md`.

## Inventory

| Component | State it keeps | Operations | What is hard |
|---|---|---|---|
| In-cluster coordinator (C) | run tree on the claim: lock, snapshots, one status/exit code/result set per cell, `run.status`, summary, manifest, startup and loss records | initialize, startup check, run cells one by one, publish a cell, finalize, signal handlers of parent and cell shell, `--recover-lost`, `--finalize-cancelled` | every write may be the last one; two shells and their handlers write one tree; recovery is repeated over its own half-written output |
| One-segment commands (F) | `state.sh`, journal steps, local lock | `--status`, `--cancel`, `--collect` | they read the ledger, then the Job, then act on both; foreground deletions and waits time out; the command dies midway |
| Segments and sequencer (F, Q) | one suspended Job per namespace, journal steps per segment, the sequencer's position | unsuspend in order, classify last to first, advance, drift, abandon, cancel, gated collection | sequencer and `--status` start the same segment; segments move between two observations; the sequencer is lost for good |
| Object creation, journal, Leases (F) | creation intents, identities (UID), claim Leases | create-journal-clear, adopt or refuse after a lost response, acquire and release Leases | a lost response leaves an object nobody journaled; Leases of several claims are taken in order |
| Preparation, submission, resume (F) | `current` pointer, attempt state, predecessor | prepare, submit, recover prepared, resume | a crash between two objects; a failed submission restores its predecessor; two clients |
| Collection transfer and merge (F) | stream state, staged and published results, cleanup journal | stream with retries, verify, import, journaled teardown, aggregate | cut streams, retries, a crash between import and teardown |
| Batches and their report (`lib/filesystem_batch.py`, `lib/filesystem_results.py`) | sealed manifest, execution statuses, group reports and identities, fragments, sidecars, `reports.txt`, `results.json`, `report.html` | commit groups, seal, run in order; report with one engine per group | the batch runs on while it is reported; files of an earlier report are replaced one by one |
| Live statistics (`lib/elbencho_live_*.py`) | occurrences, per-client counters, ring of snapshots, steady window | stream the interval file, analyse windows, classify, publish a sidecar, rebuild | phases that run again, missing rows, counters that go back, bounds of windows |
| Object-storage report (`utils/extract-warp.py`) | parsed results, figures, `report.txt` | detect, list, parse, filter, plot, print | a benchmark still writes into the directory; outliers of few or equal clients; merged histograms |
| Metadata report (`utils/extract-mdtest-elbencho.py`) | per-execution tasks, ledger states, document, text, figures | scan, parse, read the ledger, publish, render, replay | files grow while they are read; inputs overlap; stale text beside a new document |
| Integration environment (`integration-tests/bin/integration-test.py`) | journals and markers of a state directory; the host's NFS server, firewall, Docker tags | setup, stop, teardown; build and restore images | every change of the host must be attributable and reversible after a death anywhere; two fixtures share a host |
| Integration scenarios (`integration-tests/lib`) | plan, home mode of the SSH pool, runtime values, deployment cache, injection marker | plan, transition homes, run scripts, clean up, unwind | failures inside failures: cleanup after a failed step, interrupts, kills between journal and change |
| SSH/Slurm dispatch ledger (`lib/_elbencho_functions.sh`, `storage-tests/fs/sbatch`) | sentinel file per execution | reify, PENDING to RUNNING to terminal, RUNNING back to PENDING on resume | requeue and resume repeat what was done |
| Shared generated data, tree-file cache (`lib/_elbencho_functions.sh`) | shared cell, cached tree file | create once, publish, reuse | several nodes build the same file |
| Environment, network and sweep reports, HTML pages, packaging | none that outlives a call | sequential text processing | outside what a state machine tells apart |

The components meet in few places. A coordinator and its helpers share the run tree and
nothing else. Lifecycle commands exclude each other by the local lock, read the run tree
through an inspector Pod, and see the coordinator only through its exact Job. The
sequencer sees only Jobs. A report sees a benchmark only through the files and status
records it leaves, and an engine hands a batch report only its fragment and its text. The
scenarios drive the program through its command line and the environment through its
worker pool. `PROJECT.json` lists every component with its status, and every hazard at the
line where it bites.

What makes the core correct: cells and segments run in order and only after success; a
published outcome agrees with its cells and is never replaced; SUCCESS stands for committed
evidence; a status query that reads a moving run does not take it for a broken one; and
whatever died, a repeated documented command brings the attempt to an end that can be
collected. What makes a report correct: it counts every result once, says *complete* only of
results that are, and leaves no text, page or sidecar of an older document beside a new one.
What makes the test environment correct: it gives the host back as it found it, and its exit
status is never better than what happened.

## Plan

1. `RunTree`, `Coordinator`, `RunLedger`, `CoordinatorProofs`, `LedgerProofs`: one
   segment, with every writer of its run tree and the commands that start them. *Done.*
2. `Segments`, `SegmentsProofs`: an attempt over several namespaces. *Done up to the
   import; the teardown belongs to step 6.*
3. `Leases`, `MCLeases`, `LeasesProofs`: attempts that contend for claims, from
   preparation to rollback or collection. *Done.* `OwnedObject`, the retried creation of
   every other object with its intent, is left.
4. `Batch` with `BatchProofs`, `Live`, `Warp`, `Metadata`: results and reports. *Done.*
5. `Fixture` with `FixtureProofs`, `Images` with `ImagesProofs`, and `Planner`, `SshHome`,
   composed by `Scenarios` with `ScenariosProofs`: the integration environment and its
   suite. *Done.*
6. `Attempt`: the `current` pointer, resume and the restoration of a predecessor, and
   CANCEL_REQUESTED; `Collection`: the retried stream, the import as linearization point.
   They compose with 1 and 3.
7. `Dispatch` (sentinels of the SSH and Slurm ledger, which `Batch` abstracts to statuses)
   and `SharedData` (shared cells and the tree-file cache).
8. Theorems. *Done for every safety property that is checked of `Coordinator`, `Segments`,
   `Leases`, `Fixture`, `Images`, `Scenarios` and `Batch`,* `LedgerContract` as a refinement
   among them. Left: what can be proved of `Live`, `Warp` and `Metadata` without induction
   over data.

## Modules

### RunTree and Coordinator

`RunTree` is the durable tree of one segment as a record: lock, snapshots, `cell`,
`exitcode`, artifacts, startup error, loss record, `run`, summary and manifest. Its
operators are the atomic file replacements of C (`_coordinator_write_summary`,
`_coordinator_publish_manifest`, the status and exit-code writers) with the conditions
under which they refuse (`CanSummarize`, `CanPublish`), and what
`_kubectl_validate_collected_publication` of F demands (`Collectible`). Exit codes are
abstracted to ok, an error and the code of a signal, which is all the code tells apart.

`Coordinator` has three program counters, `parent`, `child` and `helper`, one step per
durable write in the order of the shell code:

* parent: `AcquireLock` to `StartSummary` (`_coordinator_initialize_state`, the startup
  check and `_coordinator_finish_startup_failure`), then the loop `PickExecution`,
  `PrepareActive`, `PrepareSummary`, `Reap`, `CompleteActive`;
* child: `ChildSetup`, `Benchmark`, and the publication hook `PublishCopy` to
  `PublishCell`;
* both: `FailCopy` to `FailManifest` (`_coordinator_finish_prebenchmark_failure`) and
  `Finalize` to `FinalizeManifest` (`_coordinator_finalize_run`), also as reached from the
  signal handlers (`HandlerReap`, `HandlerCheck`);
* helper: `HelperLock` to `HelperRepairSummary`, which is `--recover-lost`, the repair of
  a terminal run, and `--finalize-cancelled`;
* commands: `StatusRead`, `StatusObserve` and `StatusRefresh` (run.status, the Job, and
  run.status again when the Job ended), then `StatusDrift` and the drift steps,
  `StatusRecover` or `StatusEnds`; `CancelRead` to
  `CancelCheck`, `CollectGate` to `CollectImport`;
* environment: `PodKilled`, `ChildDies`, `TermParent`, `TermChild`, `DuplicatePod`,
  `JobDeletedExternally`, `CommandTimesOut`, `CommandDies`, and the Job controller
  (`JobFinishes`, `JobDeleted`).

The constant `Signals` says whether TERM reaches the traps, and `Background` whether a user may
delete the Job with the background cascade, which leaves its Pod running for a while. Every run
fixes it to FALSE, which is what the product's own deletions ask for and not what an ordinary
`kubectl delete job` does: what the code allows then is described under the disagreements.
Endpoint verification is abstracted to the environment's choice of `StatusDrift`. The benchmark
is assumed to end. The main loop's refusal of a RUNNING or FAILED cell is dead code; that it is
dead is `PickedCellIsPending`. The error that the check after a cancellation reports for an
open run is dead in the same way.

### RunLedger

The abstract specification of the tree, on `cell` and `run` only: status files appear in
order, a cell starts when its predecessors have succeeded, ends once, and the run ends
once with an outcome that agrees with its cells. `Coordinator` implements it
(`LedgerContract`) when no signal reaches the traps; with signals it does not (see the
disagreement about TERM below).

### Segments

An attempt over S namespaces. A segment's tree is reduced to its `run.status`, and its
coordinator to the contract that `Coordinator` establishes (`Collectable`, and
`LedgerContract` without signals: recovery ends an open run and keeps an outcome). The sequencer
polls and patches (`run_segment` of Q); it may lose its Pod, in which case a replacement
starts at the first segment, or be lost for good. `--status`, `--cancel` and `--collect`
are sequences of steps under the local lock, one per Kubernetes call, journal write or
helper run, so that Jobs and the sequencer move between any two of them; in particular
`Classify` observes one segment per step. Deletion and its journal step are one action
where the code repeats both together (`AbandonDeletes`), and two where a death between
them matters (`DriftDeletes`, `DriftJournals`).

Left out: the change from FAILED to CANCELLED after a signal handler (`Coordinator` has
it), the transfer itself and the teardown after it, a user's deletion of a Job that has
not started or has ended, and `--status` in states other than SUBMITTED, which only reads.

### Leases

Several attempts, each with its own result directory, lock and records, and one API
server. `lease[c]` is the holder of the Lease that claim `c` determines by name. A Lease
is created at most once per attempt and claim (its creation is never retried), so the
attempt stands for the UID as well. `at` and `claim` are the program counter and the loop
index of the command that holds an attempt's lock; one step is one API request, one
observation or one record:

* `Prepare`, then per claim `WriteIntent`, `CreateLease`, `ObserveLease`, `JournalLease`,
  `ClearIntent` (`kubectl_acquire_pvc_lease`), then `ReserveTrees` and `StartWorkers`,
  after which the lock is given up; `Submit` takes it again for `UploadBundle`,
  `CreateJobs`, `Commit`;
* a failed phase, and a later command that finds PREPARED (`Recover`), roll back:
  `Quiesce`, `ReleaseTrees`, `Sweep`, then per claim, downwards, `Release` with either the
  steps of an unjournaled Lease (`Probe` to `DropIntent`, which is
  `kubectl_cleanup_creation_intent`) or those of a journaled one (`SeeLease` to
  `ConfirmGone`), and `MarkReleased`; `SweepAnyway` is a rollback whose earlier phase
  failed;
* `Collect` to `CollectImport` and the same teardown; `CollectAgain` with `Reconcile` is
  the repeated collection;
* `Die` ends any command at any step. A Lease request whose response was lost stays in
  `creates` or `deletes` and may be applied at any later time. A lost creation of another
  object is applied or dropped before a deletion waits out the ambiguity horizon
  (`NothingLate`): that horizon is the code's own assumption about the API server.

Abstracted: all run trees of an attempt are one, its objects are three kinds (transfer
helper, workers, Jobs), and the removal of a tree or object and the journal step that
says so are one action, because both are repeated together. `NameDeletesLinger` says
whether a deletion by name may outlive its command. `VerifyLease` also refuses a rollback
whose Lease is gone and whose name a successor holds, because it died before
`MarkReleased`; collection has `Reconcile` for that case, a PREPARED attempt has to wait
for the successor. Left out: CANCEL_REQUESTED, whose
part the other modules have, and the predecessor of a resumed attempt.

### Fixture

One record of the host (`host`: owner record of the NFS server, installed configuration,
export table, the service, UFW and its rules, the subnet of the kind network), and for each
fixture what it made outside its state directory (`art`), the files in it (`st`), and the
command that works on it (`proc`). `setup`, `stop` and `teardown` are sequences of actions
in the order of `integration-test.py`, one per durable change: `ClaimHost`,
`RecordService`, `JournalExport`, `MakeExport`, `MarkExport`, the image migration
(`NewImage` to `ReplaceImage`), the cluster, `WriteSources`, `InstallExports`,
`DropOldRule`, `RecordRule`, `AllowRule`, the components with their probe, `WriteSummary`;
`StopCluster`, `StopService`; `ValidateTeardown`, then `Unexport` to `ReleaseHost`. A
refusal is the verdict of an operator (`ClaimVerdict`, `StopVerdict`, `NfsVerdict`,
`SharedVerdict`). Faults: `Die` and failures at any step, `Reboot`, `NetworkChanges`, a
`SecondCommand` that waits for a lock, an operator that unmounts. nfs-server's
worker count is unknown, its own, or raised. Checksums of files are replaced by equality
of what wrote them; tools and packages are one step.

### Images

`acq` is the progress of `acquire_pinned_image`: reference, attempt, and used time in units
of ten seconds, so that every pull and inspection may take anything up to its timeout.
`Delay` is the backoff before an attempt, doubled for each attempt, with a jitter on top of
it; nothing caps it but the deadline.
`journal` is the entry of `built-images.json`; `Recover`, `Begin`, `Build`,
`JournalPending`, `CheckTag`, `PublishTag`, `JournalBuilt`, `RemovePendingTag`,
`ClearPending` are the writes of a build, `Validate`, `Restore`, `RemoveTemporary`,
`RemoveState` those of a teardown. The chart cache is an archive and a manifest, each with
the digest it has or names. The Docker daemon is external: a tag names an image, an image
without a tag stays. Loading images into nodes of the cluster is left out.

### Planner, SshHome and Scenarios

`Planner` is `scenario_planner.py`: the catalogue of scenarios with substrate, order, phase
and home mode, and `PlanScenarios`, a sequence of work items and transitions. `SshHome` is
`ssh_home_transition.py`: the record on disk and the worker pool, one action per save,
scale and manifest. `Scenarios` composes both with the suite (`run_filesystem_tests`):
preflight, archive and its cache, then for every item a script of operations. The scripts
(`SuccessScript`, `FailureResumeScript`, `CancelScript`, ...) are the runners of
`filesystem_integration.py`, the operations the calls that they share; an operation may
fail, time out after it took effect, be interrupted or killed. After each item follow
`CleanAttempt`, `CleanStorage`, `CleanLocal` and `Cleaned`, after the last `Unwind`.
A KeyboardInterrupt is raised anywhere. In a script or in the diagnosis of a failure
(`Interrupt`) it passes every handler that names Exception, OSError or SubprocessError, so
that an attempt a submission had created stays without a recorded root; it cuts off what is
left of a cleanup (`InterruptCleanup`), and it ends the loop or a transition of the pool
(`InterruptLoop`). `primary` is what ends the suite, "unrestored" when the restoration of
the homes fails behind an interrupt and replaces it. An interrupt of the preflight, of the
archive or of that restoration ends the harness as `Die` does.
The product is reduced to the attempts that hold their claim Lease and their terminal
states (`AttemptEnds`), which is what the other modules show of it. What a step asserts
about results is one operation, `Check`, that may fail.

### Batch

The batch side commits groups (`PublishGroup`), seals at the first dispatch, and moves
statuses; it never waits for a report. The reporter is `report_batch` with its pool:
`StartGroup` reads statuses and removes what an engine could leave stale, `ParseTask` to
`CloseText` are the engine of a group (the sweep engine and the metadata engine differ in
what they write for nothing to show), `FinishGroup` binds text and identity, then
`reports.txt`, the document (which reads the statuses again), sidecars, the page, and
`ExitStatus`. A result set is whole, partial, broken or lost. A failed write, a failed
engine or a kill may come between any two writes. The constants carry what the validation of
a manifest asks (`_validate_groups`, `_validate_executions`): executions are ordered by
group and every group has one.

### Live

The writer is elbencho: rows of a Total and of the clients, with late rows, missing rows,
a phase run again and counters that go back. The reader translates
`elbencho_live_report.py`: `_OccurrenceTracker` (`DomainKey`), the buffered intervals
(`FlushInterval`, `FlushClient`), `derive_rate` (`DeriveRate`); `AnalyzeSteady` and
`Complete` are the second pass of `elbencho_live_steady.py` with its `_SnapshotRing`,
windows and `Classify`; `BuildLiveObject`, `Emit`, `AnalyzeDocumentLive` and `Split` are the
publication and its way back (`elbencho_live_results.py`). Rates stay quotients and medians
are doubled, so that the arithmetic of the model is exact; a published rate, which the code
rounds, is exact as well. Left out: the streaming estimate
of percentiles, duplicate rows of one client, and drawing.

### Warp

`DetectFormat`, `PickStamp` and `ListFiles` each look at a directory that `Benchmark` goes on
filling; `ParseFile` takes one listed file: a metric, nothing, an error that is handled (the
file is skipped) or one that nobody expects (`Uncaught`: corrupt zstd data, a document that is
not an object), which ends the command. `Filter`, the plots and `WriteReport` follow. The
arithmetic is that of the code on small numbers: `Behind` (z-score, decided on squares),
`AggregateHistograms` and `Percentile`, `Efficiency`, `SelectSubplots`, `FormatSize`. A figure
is a record of its kind, file name and data; what it looks like is left out.

### Metadata

`Scan`, a task per execution in `LoadCsv`, `LoadOut`, `RecordFiles`, then `ReadStatuses`,
`Publish`, `RemoveStaleReport`, `Render`, `Plot`, for one or several inputs, and
`StartReplay` for `--from-json`. A result file is how many rows of it exist and whether the
last is torn. `AssembleDocument`, `MergeExecution`, `ResultState` and `DocumentIterations`
are the document and what is taken from it; rates are kept in fine units, `Grain` of which
the document rounds to one. `JoinStamps` computes the length of a file name instead of the
name.

## Runs

| Run | Shows |
|---|---|
| `coordinator_kill` | Two cells; the Pod, the cell shell and one command with its helper are killed between any two writes, the Job is deleted, a duplicate Pod starts, commands time out. What is called a success is one, what ends can be collected, `--status` never finds a completed run inconsistent, the tree refines `RunLedger`, and that every attempt is eventually collected but for the dead ends it names. |
| `coordinator_term` | The same with TERM delivered to both shells at any step: cells stay in order and agree with the outcome, handlers can always finish their publication, what was imported is final. |
| `recovery_not_collectible` | Recovery between two cells leaves a FAILED run without the failure record that `--collect` demands. |
| `segments` | Three segments, drift, lost coordinators, a lost sequencer, one command that dies: order of starts, order of observations, aggregation of outcomes, progress. |
| `leases` | Two attempts over the same two claims: an active attempt holds its claims, journaled Leases are held from below, Leases go last, an ended attempt has left nothing. |
| `fixture` | One fixture on every kind of host with two faults, or two fixtures that contend for the NFS server: the host is given back, everything made is attributable, rules are recorded, a summary means a complete setup, nobody takes what is foreign or refuses what is its own. |
| `images` | A build, its recovery and the restoration of the tag with two deaths, or two fixtures side by side; acquisition within its deadline; everything started ends. |
| `scenarios` | Two suites after one another with two failures or interrupts and one kill: sound plans, attempts released but for that of an interrupted submission, nothing left between items, homes journaled and recovered, no error masked, exit 0 means all. |
| `batch` | Two reports over a batch that is still running, with one failed write, engine or kill: the document is true, `reports.txt` whole and current, page and sidecars are those of the document. |
| `live` | Every file of up to six intervals of two clients with two irregular rows: samples, rates, windows, steady bytes and ratios say what the file says; the published series rebuild the analysis. |
| `warp` | Two reports over a directory that is being written: what is readable is reported once unless a file ends the command, which then touches no report; figures follow the filters, and outliers, ranks, scaling and subplots are what they claim. |
| `metadata` | Two reports, replays and kills beside a running benchmark and three kinds of earlier results: whole iterations are averaged once, *complete* is true and is found, text, figures and document agree. |

Many properties are conjunctions of named parts that belong together, each stated and
commented in its module: `SuccessIsTrue`, `Collectable` and `LedgerSound` of `Coordinator`,
`JournalSound` of `Segments`, `LeftoversKnown` of `Fixture`, `TagRestored` of `Images`,
`CleanupComplete`, `HomesSound` and `ExitSound` of `Scenarios`, `CombinedSound` and
`PublishedTogether` of `Batch`, `RatesSound`, `SteadySound` and `PublishedSound` of `Live`,
`ReportSound` and `FiguresTrue` of `Warp`, `DocumentSound` and `TextSound` of `Metadata`.
Where such a conjunction has `TypeOK`, it is the type invariant of that module. To see which
part a change breaks, name the parts in the configuration instead.

`EventuallyCollected` and `EventuallyOver` name the dead ends of the code as disjuncts
(`NoFailureEvidence`, `CancelledBeforeCells`, `HalfRecoveredCell`; `CancelStuck`,
`DriftStuck`), so the passing runs show that there are no others; see *Disagreements with
the documentation* below.

**Bounds.** Two cells give a first, a last, a cell with a predecessor and one with a
successor; the loop has no state that a third would add. Three segments let one be
current with both a finished predecessor and an unstarted successor. `MaxDeaths` counts
commands that die and is the only counter; one death is enough for a command that repeats
over the half-written work of another. Kills of Pods, cell shells, Jobs and the sequencer
are not bounded. Deadlock is checked in the runs of
`Coordinator` and `Segments`: a state without a successor is an error, and a collected
attempt stutters in `Done`. In `Leases` two attempts with the same two claims give every
contention of a pair (a third attempt meets each of them through one Lease at a time) and
a first and a last claim; they are symmetric because nothing tells them apart. Nothing else
is bounded there, deaths included. Deadlock is not checked: attempts end, and nothing
follows.

The other runs stop too: CHECK_DEADLOCK is FALSE where the commands are bounded in number
and nothing has to follow the last one.

* `fixture`: two faults let a command die and the one that repairs it die as well; one
  second command waits for a lock; two subnets are what a change needs. Two fixtures are
  checked without faults, one with them: the product of both does not fit, and a third
  fixture meets the others only through the one owner record.
* `images`: two references of four attempts in 240 seconds reach every way to run out of
  attempts, references or time; two deaths, as above.
* `scenarios`: two runs, because what a killed run leaves matters to the next; two failures or
  interrupts, so that cleanup can fail or be cut off after its scenario; one kill. The
  selections name one scenario of every kind of script that puts its attempts under cleanup;
  `mixed-batch` and `kubectl-retained-read` are defined and not selected, because there the
  code does not (see below).
* `batch`: two groups and three executions give a group with two executions, one with one,
  one engine of each kind; two reports, so that the second meets the files of the first.
* `live`: two clients (one slow against the other), windows of two and three intervals, six
  intervals: the shortest file that has a ramp, a steady window longer than either, and a
  tail. Two irregular rows combine a gap with a counter that goes back.
* `warp`: two files of fourteen kinds, five clients where outliers are computed (three are
  the fewest that can have one at Z = 1), units of four instead of 1024, and the subplot
  selection for every number of scale points up to fourteen.
* `metadata`: one execution of two iterations, three archives (a copy without a ledger; an
  unreadable definition; another target with a failed execution), one pool worker: tasks
  share nothing, so that their order is all a second one would add. A kill is considered
  where files of two runs may mix (before the text, before and amid the figures). File names
  are computed for up to 120 datestamps, past the point at which they are cut.

**Fairness.** Shells, helpers and a running command go on (weak fairness): nothing in the
code waits for anything but a child, a Job or a timeout. `JobFinishes` is strongly fair
because `backoffLimit: 0` makes the controller fail a Job after its Pod failed, however a
duplicate Pod interferes. `CollectGate`, `StatusBegins` and, once cancellation is
requested, `CancelRead` and `CancelBegins` are strongly fair: the operator repeats the
documented next command whenever the local lock is free. No fault, first cancellation or
drift is ever forced, and nothing is assumed of the sequencer. `Images` and
`Scenarios` assume that a command that runs goes on (weak fairness of its steps): every call it
makes has a timeout. Nobody is assumed to start a command, and a kill ends one for good.
`Fixture`, `Batch`, `Live`, `Warp` and `Metadata` state safety only.

## Proofs

All theorems hold for every number of cells, segments, attempts, claims, fixtures, groups,
executions, reports and interrupted commands, from the named assumptions on the constants
alone (`N` positive, `S` at least 2, the bounds natural, the switches Boolean, every attempt
with at least one claim, a deadline longer than what is reserved for the other
references, executions ordered by group, an NFS
server that is active or enabled only where it is installed and has one worker thread when
it is active, and `None` different from what it stands beside). A hypothesis beyond them is
written in the theorem and explained in the table.

| Theorem | Statement |
|---|---|
| `CoordinatorProofs!TypeCorrect` | `TypeOK` of `Coordinator`, in every environment. |
| `LedgerProofs!StatusIsConsistent` | `StatusConsistent`, when Jobs are deleted in the foreground. `StatusInv`: once a status query has observed the Job Complete, the Job stays so or goes and the run has ended, which rests on `CollectInv` (a Job completes only behind a published SUCCESS). |
| `LedgerProofs!LedgerIsSound` | `LedgerSound`, with and without signals, when Jobs are deleted in the foreground. Inductive invariant `LedgerInv`, described below. |
| `LedgerProofs!PublicationSucceeds` | `PublicationNeverRefused`, under the same hypothesis, from `LedgerInv` and `PublishInv` (snapshots, summary and exit codes are written before what demands them). |
| `LedgerProofs!SuccessClaimsAreTrue` | `SuccessIsTrue`, under the same hypothesis, from `EvidenceInv` (artifacts and exit code precede a SUCCESS, in the tree and in every manifest) and `EndedInv` (a run ends for good, so a command that saw it ended may say so). |
| `LedgerProofs!ImportStays` | `ImportIsFinal`, under the same hypothesis, from `ImportInv`: an import is made while no Job is active and leaves no command. |
| `LedgerProofs!TreeImplementsLedger` | `LedgerContract`, when there are no signals either: every step of `Coordinator` is a step of `RunLedger` or leaves the ledger alone. |
| `LedgerProofs!EndsAreCollectible` | `Collectable`, when Jobs are deleted in the foreground, with and without signals. `CollectInv` adds to `LedgerInv` and `PublishInv` that exit 0 comes only behind a published SUCCESS (`SuccessPublished`: the run says SUCCESS and the manifest is `Current`, the one a publication of the tree would write), that nobody writes the tree of a Complete Job, and that a helper that is done has just published. |
| `SegmentsProofs!SegmentsTypeCorrect` | `TypeOK` of `Segments`; it needs `AtSegment` (a working command names a segment) and that `_kubectl_current_segment` always has a result (`CurrentIsFirst`, by well-foundedness of `<`). |
| `SegmentsProofs!OutcomesAreKept` | `OutcomeKept`, from one lemma about every step. |
| `SegmentsProofs!CancelStartsNothing` | `NothingStartsDuringCancel`, from `SequencerStopped`: wherever a command relies on it, the sequencer is gone. |
| `SegmentsProofs!NothingStartsOutOfOrder` | `SegmentsInOrder`. It is not inductive. `Evidence` adds that everything which counts as a success (a Complete Job, the journal step, a classification however old, the sequencer's own progress) is one, and stays one because outcomes are kept; `NeverStarted` adds that a segment recorded as never started has no one left to start it. |
| `SegmentsProofs!JournalIsSound` | `JournalSound`: a classification is in order although every segment moves on after it was looked at, TERMINAL is settled, the collected outcome is that of the segments. `Evidence` and `NeverStarted` are not enough: `Causes` says that only `--cancel` makes an attempt look cancelled and only drift handling makes it drifted, and that otherwise a segment is skipped after a failed run only; `Observations` that what a classification has seen can still be seen and is in order; `Progress` that what a command went past has an outcome, and what it has yet to abandon is still queued or was skipped. |
| `LeasesProofs!LeasesTypeCorrect` | `TypeOK` of `Leases`, for every number of attempts and claims; the claim loops stay on claims of the attempt (`LoopClaims`, by well-foundedness of `<`). |
| `LeasesProofs!ClaimsAreHeld` | `ClaimsHeld`, unless a deletion by name outlives its command (the hypothesis is needed: see the deletion by name below). It is not inductive. `Ownership` adds what an attempt holds at every step of its acquisition (`Good`), that whoever releases is `Retired` (no tree, no workload, never to get one again), and that a deletion still under way is that of a journaled Lease of a retired attempt. The proof has one lemma for the steps of an attempt (`OwnStep`), two for what they leave alone of another (`OthersAreSame`, `OthersKeepLeases`), and one for late requests. |
| `LeasesProofs!LeasesHeldInOrder`, `EndedAttemptsAreClean`, `LeasesReleasedLast` | `HeldInOrder`, `EndedIsClean` and the action property `ReleasedLast`, under the hypothesis of `ClaimsAreHeld`. `Orderly` adds to `Ownership` for every attempt: what its program counter says about its recorded state and its workload (`Phases`), that intents are left by a broken preparation only and releases go downwards (`Logged`), which Leases it has, had and may still get (`Reserved`: journaled ones from the lowest claim, and one that is gone does not come back), and that a deletion still under way was sent after everything above it was released and the results published (`Undone`). It holds also after a command died and another took over. |
| `FixtureProofs!HostIsRestored`, `LeftoversAreKnown`, `ForeignIsKept` | `HostRestored`, `LeftoversKnown` and the action property `ForeignKept`, for every number of fixtures, subnets, failures, deaths, reboots and second commands, on both backends. Inductive invariant `FixtureInv`, described below. |
| `ScenariosProofs!HomesAreSound`, `ExitIsSound` | `HomesSound` and `ExitSound` of `Scenarios` (its `TypeOK` included), for every selection of scenarios and every number of runs, failures, interrupts and kills. Inductive invariant `ScenariosInv`, described below. |
| `ScenariosProofs!CleanupIsComplete` | `CleanupComplete` (a cleanup that neither failed nor was cut off leaves no attempt of its run, but that of a submission interrupted before its root was recorded), for every selection without the two scenarios that leave an attempt outside the cleanup (`ArmedOnly`). With either of them TLC finds an attempt that a cleanup without an error has missed, so the hypothesis is needed (see the disagreements below). `CoverInv` adds to `ScenariosInv` where the attempts of the run are: at the recorded root of the scenario at hand, not marked collected. |
| `ImagesProofs!AcquisitionInTime` | `DeadlineKept`. Inductive invariant `Timed`; the sum of pull, inspection and backoff is bounded by what the attempt reserved, which needs that `Delay` is a natural number (`DelayIsTime`, by a least counterexample, because induction is out of reach). |
| `ImagesProofs!TemporariesJournaled`, `PriorGivenBack` | `TemporaryJournaled` and `PriorRestored`, with any number of fixtures beside each other. `Kept` relates tag, temporary tag and journal at each step of a build and a recovery; `Whole` adds, for a fixture that is alone, which of the two images the tag names while the journal is there. |
| `ImagesProofs!TagGivenBack` | `TagRestored`, if the image that the tag named before is none of those that the harness builds. `Welcomed` adds that no death leaves a journal that `Validate` refuses. The hypothesis is needed and was found by the proof: when a cached build is the previous image itself and dies before its publication, recovery removes its only tag and with it the image, and a later teardown refuses. |
| `BatchProofs!CompleteMeansComplete` | `CompleteIsTrue`: an execution that was staged has succeeded, so neither its status nor its files change any more (`Staged`), and an entry that says *complete* was written after that (`Told`). |
| `BatchProofs!CombinedReportIsSound` | `CombinedSound`, from `Written` (an identity binds finished text only) and `Sections` (after its last write `reports.txt` is what is owned, because nothing touches a group report any more). |
| `BatchProofs!ReportsBelongTogether` | `PublishedTogether`, the type invariant included. `Told` relates entries to sidecars, `Written` to texts; `Positions` says that engines work only while the report waits for them, so that what the document says of texts and sidecars stays true (`TextsThere`, `SidecarsThere`), and `Paged` follows the page and the failures to the exit status. |

**The ledger's invariant.** None of the seven properties of `LedgerProofs` is inductive. A
shell decides on what it read or wrote some steps ago, so `LedgerInv` says, for each group
of steps of each process, what it may still rely on: `StartInv` and `LoopInv` for the main
shell (before RUNNING every cell is untouched; in the loop the first `cur` cells are SUCCESS
and the rest PENDING, except the active one), `ChildInv` for the cell shell (it exists only
while the main shell waits for it, and settles the active cell once), `HelperInv` for
recovery and cancellation (after the scan no cell is RUNNING), `LockInv` for the duplicate
Pod (who passed the lock was first) and `ShapeInv` for the files themselves. `JobInv`
(a Job that is not active has no Pod, and a helper exists only while the coordinator is lost)
is a part of it: a helper beside a live Pod would settle a cell behind the loop's back. That is
what a background deletion allows and the code does not prevent, so every theorem of
`LedgerProofs` says `Background = FALSE`; with it TLC violates most of what they state.

The steps are grouped as `ParentStep`, `ChildStep`, `HelperStep` and `CommandStep`. Lemmas
about the writes say what each replaces of the tree; one lemma per group and conjunct then
shows that the conjunct is kept, and the groups that cannot disturb it are dismissed
together. `QuietInv` carries the refinement: `RunLedger` ends a run once, and only a FAILED
that TERM wrote can be reopened, so without TERM no cancellation meets one. With TERM the
refinement is false (see the disagreements below).

**The fixture's invariant.** A command acts on what it validated some steps ago, and the next
one only on what the state directory says; a death may lie between any two steps. None of
the three properties of `FixtureProofs` is inductive. `FixtureInv` has three parts. `Sound`
says for each fixture, by its program counter, what its own files and resources are:
`Placed` (which command and backend a step belongs to), `Marked` (the state directory
outlives its marker by one step only, with nothing left in it), `Clustered`, `Exported` and
`Rooted` (a resource comes after its journal or marker and goes before it, and teardown
treats as its own exactly what it validated), `Summarized`, `Reported` and `Rendered`.
`Holds` says who changes the host: the fixture past the lock, which owns the host from its
claim to its release, and whatever is on the host belongs to the owner. `Kept` says what the
host is: without an owner as before the first setup, with one as `Accounted` for in the
owner's records; `Undone` follows the teardown step by step, so that a death in the middle
leaves what the next teardown can finish. `Serving` is what makes the recorded state of
nfs-server enough for its restoration: the server never does less than it did before the
first setup. `HostRestored` and `LeftoversKnown` follow from the invariant, `ForeignKept`
from it and the effects of the steps.

**The suite's invariant.** The planner is proved first, because `HomesSound` is about plans:
`PlanScenarios` sorts the items of each phase and puts the transitions between them, so every
plan is the concatenation of a phase before, the shared phase between its two transitions, the
Kubernetes items and a phase after (`PlanHolds`); from that follows in which home mode the
pool is at each position (`HomeAt`). The scripts come next: `Sane` and `Tidy` say for each
which directories it names and that it arms what it starts, one lemma per script.
`ScenariosInv` then has one part per question: `WhereInv` (the position and the script at
each step), `HomeInv` (what a transition has done to the pool by now, what the record says
and what the suite believes: it believes *shared* only behind a committed transition, and a
record comes before a change and goes after its reversal), `VerdictInv` (passed are exactly
the items behind the position as long as nothing failed), `ArchiveInv`, `MarkerInv` (the
wrapper's marker and the number of injected failures go together), `OwnInv` (which of the
resources of a scenario may be left at which step of its cleanup), `TypesInv` and `BudgetInv`.
Where the attempts of the run are is said by `CoverInv` alone: it rests on the others, and
none of them on it, so that only `CleanupIsComplete` has the hypothesis.

**How the proofs are kept short.** A step is described once, by a lemma that says what it
replaces of a record (`JobMoves`, `GroupFailsEffect` of `BatchProofs`); whatever rests only
on the rest is dismissed by a lemma of its own (`ToldKept`, `WrittenKept`, `GroupKeeps`).
`FixtureProofs` names the fields a step may
change (`FilesBut`, `ArtBut`, `HostBut`) and shows each conjunct once per group of steps.
`ManifestFacts` shows what the first n groups look like for every manifest, from the order of
the executions alone. Every inductive invariant was checked by TLC as an invariant of the run
of its module before it was proved.

Only model-checked: liveness and everything that rests on fairness (`EventuallyCollected`,
`EventuallyOver`, `EventuallyEnds`, `HomesGivenUp`), because the prover has neither liveness
nor ENABLED; and all of `Live`, `Warp` and `Metadata`, which mostly say what recursive
definitions over sequences compute, which would be induction over data. The hypotheses above
mark what is not proved of the other modules: background deletion of a Job, a deletion by name
that outlives its command, the two scenarios above, and (for the refinement) signals.

## Disagreements with the documentation

Modelling met places where the code does not do what a line of its documentation or a
comment says. One is kept as a run, `recovery_not_collectible`, because it ends an attempt
for good in the middle of the most ordinary loss. The others are named here, with the part
of a model that has them:

* A TERM after `run.status` SUCCESS runs the handler again and replaces the outcome by
  FAILED (C:1257; `TermParent`). The lifecycle contract, line 121, calls terminal outcomes
  immutable. `LedgerContract` is checked and proved without signals only.
* A Job that a user deletes with the ordinary background cascade is gone before its Pod.
  `--status` recovers on the absence of the Job alone (F:8110-8151; `StatusObserve`,
  `JobDeletedExternally`), so recovery publishes FAILED and the surviving coordinator may
  publish SUCCESS after it. Line 121 calls outcomes immutable, and the comment at F:5490
  says that recovery only edits an attempt whose Job has already reached Failed. With
  `Background` TLC violates `OutcomeAgrees`, `PublishedSuccessIsCommitted`,
  `PublicationNeverRefused`, `LocalTerminalIsTrue`, `ImportIsFinal` and `LedgerContract`.
* Cancelling before the coordinator wrote every PENDING state fails on every repetition
  (C:1483; `CancelledBeforeCells`, `CancelStuck`). Line 392 says a repetition completes it.
* `--cancel` passes on at a ledger SUCCESS whose Job is not Complete yet, and the next
  classification may find the attempt out of order (F:8674); line 628 says that it never
  looks out of order.
* A `--status` that dies inside drift handling between the deletion and the record of the
  success leaves a segment that later queries do not take up (F:8524; `DriftStuck`).
* A Lease request that times out and takes effect after a competitor released the claim
  leaves a Lease that no record names (F:2822; `WriteIntent` to `ClearIntent`).
* The local lock is given up between preparation and submission, and a `--status` in between
  may remove the workers of an attempt that becomes SUBMITTED (F:7849; `Submit`).
* The rollback of an unjournaled Lease deletes by name after it verified the identity; a late
  deletion may take the Lease of a successor (F:5388; `NameDeletesLinger`). The comment at
  F:2856 says that it is deleted by exact UID.
* `teardown` refuses a host file whose local source a dying `setup` had just rewritten
  (`integration-test.py`:2141; `WriteSources`), although it is documented as idempotent.
* Two fixtures on one Docker host record each other's image as the one to restore
  (`integration-test.py`:2506; `PriorRestored` is about a fixture that is alone).
* `kubectl-retained-read` keeps `kubectl_collected` over its second attempt, and
  `mixed-batch` records its root after its start, so cleanup may miss an attempt
  (`filesystem_integration.py`:4955, 6499).
* An interrupt of a submission that has created its attempt is caught neither at
  `filesystem_integration.py`:3551 nor at 4796, so the root is not recorded and
  `_cleanup_kubectl_attempt` (4949) returns without a word: the attempt keeps its Lease
  (`Interrupt`; `AttemptsReleased` names the case).
* `parse_warp_json` returns "None if parsing fails", says its docstring, but corrupt zstd data
  and a JSON document that is not an object (`extract-warp.py`:827, 832) raise what the caller
  does not catch either (3822), and one such file ends the whole report (`Uncaught`).
* An execution that succeeds between the two readings of its status is *missing* in the
  document with its files in place (`filesystem_batch.py`:1219).
* Filters of the object-storage report that match nothing print a warning and then fail
  before `report.txt` is replaced (`extract-warp.py`:3855), and the time series divides bytes
  per second by 1e9 under the label Gbps (3149).

## Not modelled

The retried creation of objects other than Leases, resume, the transfer, the SSH
and Slurm ledger and shared data are planned (see above). The network report
(`utils/extract-netbench.py`), the tables and charts of the sweep report
(`utils/extract-elbencho.py`, of which `Batch` has the fragment and the text a group gets),
HTML pages, environment loading and packaging are sequential processing of text and
floating-point series without state that outlives a call. The network report has corners a
reader should know of: a CSV without a NET row counts as 0 in the averages, and
`--only-nodes` with nothing valid in it filters nothing. One window of the coordinator is
known and left out: a signal between the fork of a cell shell and the assignment of
`COORDINATOR_ACTIVE_PID` (C:1583); the model forks and records the child in one step.
