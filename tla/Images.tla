------------------------------- MODULE Images -------------------------------
(***************************************************************************)
(* The Docker images and charts that setup obtains: acquisition with a     *)
(* deadline and retries (image_acquisition.py, chart_acquisition.py) and   *)
(* the journal in built-images.json, from which teardown gives every tag   *)
(* back (integration-test.py).  The tags are those of the Docker host:     *)
(* fixtures with state directories of their own change the same tag, and   *)
(* nothing but the journals keeps them apart.                              *)
(*                                                                         *)
(* tag      the image the fixture tag names                                *)
(* images   the images Docker has                                          *)
(* temp     the image a fixture's unique pending tag names                 *)
(* pinned   whether Docker has the pinned base image                       *)
(* journal  its entry for the tag, None before the first build             *)
(* chart    its chart cache: archive and manifest, each with its digest    *)
(* acq      an acquisition: what it has used of its time and attempts      *)
(***************************************************************************)
EXTENDS Naturals, FiniteSets

CONSTANTS
    Fixtures,
    Ids,           \* images a build can produce
    Prior,         \* the image the tag named before, or None
    References,    \* how many references an image can be pulled from
    Deadline,      \* IMAGE_PULL_DEADLINE_SECONDS, in units of ten seconds
    Attempts,      \* IMAGE_PULL_ATTEMPTS
    MaxFaults,     \* bound on deaths
    None

Pull == 6          \* IMAGE_PULL_TIMEOUT_SECONDS
Inspect == 3       \* IMAGE_INSPECT_TIMEOUT_SECONDS

ASSUME ImagesConstants ==
    /\ References \in Nat \ {0}
    /\ Deadline \in Nat /\ Attempts \in Nat \ {0} /\ MaxFaults \in Nat
    /\ None \notin Ids
    /\ Inspect * References + (Pull + Inspect) * (References - 1) < Deadline

VARIABLES tag, images, temp, pinned, journal, chart, acq, proc, faults

vars == <<tag, images, temp, pinned, journal, chart, acq, proc, faults>>
docker == <<tag, images, temp, pinned>>

Image == Ids \cup {Prior, None}
Entries == [previous: Image, built: Image, pending: BOOLEAN, id: Image]
Journals == Entries \cup {None}
Digests == {"none", "old", "new"}

ASSUME NoneIsNoEntry == None \notin Entries

Steps ==
    {"unused", "idle", "inspect", "pull", "wait", "begin", "build", "pending",
     "check", "tag", "built", "untag", "clear", "chart", "archive", "manifest",
     "validate", "restore", "untemp", "state"}

TypeOK ==
    /\ tag \in Image
    /\ images \subseteq Image \ {None}
    /\ temp \in [Fixtures -> Image]
    /\ pinned \in BOOLEAN
    /\ journal \in [Fixtures -> Journals]
    /\ chart \in [Fixtures -> [archive: Digests, manifest: Digests]]
    /\ acq \in [Fixtures -> [ref: 1..References, attempt: 1..Attempts, used: Nat]]
    /\ proc \in [Fixtures -> [pc: Steps, outcome: {"none", "done", "failed", "refused"}]]
    /\ faults \in 0..MaxFaults

Fresh == [ref |-> 1, attempt |-> 1, used |-> 0]

Init ==
    /\ tag = Prior
    /\ images = {Prior} \ {None}
    /\ temp = [f \in Fixtures |-> None]
    /\ pinned \in BOOLEAN
    /\ journal = [f \in Fixtures |-> None]
    /\ chart = [f \in Fixtures |-> [archive |-> "none", manifest |-> "none"]]
    /\ acq = [f \in Fixtures |-> Fresh]
    /\ \E used \in SUBSET Fixtures :
          proc = [f \in Fixtures |-> [pc |-> IF f \in used THEN "idle" ELSE "unused",
                                      outcome |-> "none"]]
    /\ faults \in 0..MaxFaults

-----------------------------------------------------------------------------
At(f, p) == proc[f].pc = p
Go(f, p) == proc' = [proc EXCEPT ![f].pc = p]
End(f, o) == proc' = [proc EXCEPT ![f] = [pc |-> "idle", outcome |-> o]]

\* docker image rm of a tag: the image goes with its last tag.
Untagged(x, t, m) ==
    IF x = t \/ \E g \in Fixtures : m[g] = x THEN images ELSE images \ {x}

Start(f, p) ==
    /\ At(f, "idle")
    /\ proc' = [proc EXCEPT ![f] = [pc |-> p, outcome |-> "none"]]
    /\ acq' = [acq EXCEPT ![f] = Fresh]
    /\ UNCHANGED <<docker, journal, chart, faults>>

-----------------------------------------------------------------------------
\* acquire_pinned_image: first every reference is inspected, then each one is
\* pulled, with time kept back for the references after it.

Left(f) == Deadline - acq[f].used

\* Mutant: no time is kept back.
ReferenceLeftAll(f) == Left(f)

\* The deadline of the reference that is being pulled.
ReferenceLeft(f) ==
    LET kept == (References - acq[f].ref) * (Pull + Inspect)
    IN  IF Left(f) > kept THEN Left(f) - kept ELSE 0

Used(f, t) == [acq EXCEPT ![f].used = @ + t]
Least(a, b) == IF a < b THEN a ELSE b

\* inspect_pinned_image: a verified image ends the acquisition.  An answer is
\* quick or takes its whole timeout.
InspectReference(f) ==
    /\ At(f, "inspect")
    /\ IF pinned
         THEN Go(f, "begin") /\ acq' = [acq EXCEPT ![f] = Fresh]
         ELSE \E t \in {0, Least(Inspect, Left(f))} :
                IF acq[f].ref < References
                  THEN /\ acq' = [acq EXCEPT ![f].used = @ + t, ![f].ref = @ + 1]
                       /\ UNCHANGED proc
                  ELSE /\ acq' = [acq EXCEPT ![f].used = @ + t, ![f].ref = 1]
                       /\ Go(f, "pull")
    /\ UNCHANGED <<docker, journal, chart, faults>>

\* What follows the failure of a reference: the next one, or the end.
NextReference(f, t) ==
    IF acq[f].ref < References
      THEN /\ acq' = [acq EXCEPT ![f] = [ref |-> acq[f].ref + 1, attempt |-> 1,
                                         used |-> acq[f].used + t]]
           /\ Go(f, "pull")
      ELSE /\ acq' = [acq EXCEPT ![f] = Fresh]
           /\ End(f, "failed")

\* _pull_pinned_image: one attempt, cut off at its timeout; a pull that
\* succeeded is inspected in what is left.
PullReference(f) ==
    /\ At(f, "pull")
    /\ IF ReferenceLeft(f) = 0
         THEN NextReference(f, 0) /\ UNCHANGED pinned
         ELSE \E t \in {0, Least(Pull, ReferenceLeft(f))} :
                \/ /\ ReferenceLeft(f) > t
                   /\ pinned' = TRUE
                   /\ acq' = [acq EXCEPT ![f] = Fresh]
                   /\ Go(f, "begin")
                \/ NextReference(f, t) /\ UNCHANGED pinned
                \/ /\ acq[f].attempt < Attempts
                   /\ acq' = [acq EXCEPT ![f].used = @ + t]
                   /\ Go(f, "wait")
                   /\ UNCHANGED pinned
    /\ UNCHANGED <<tag, images, temp, journal, chart, faults>>

\* retry_delay without its jitter: every wait is twice as long as the last.
Delay[n \in Nat] == IF n = 0 THEN 1 ELSE 2 * Delay[n - 1]

\* A transient failure waits, with jitter, when the wait ends before the
\* deadline.
Backoff(f) ==
    /\ At(f, "wait")
    /\ \E jitter \in {0, 1} : LET d == Delay[acq[f].attempt - 1] + jitter IN
          IF d >= ReferenceLeft(f)
            THEN NextReference(f, 0)
            ELSE /\ acq' = [acq EXCEPT ![f].used = @ + d, ![f].attempt = @ + 1]
                 /\ Go(f, "pull")
    /\ UNCHANGED <<docker, journal, chart, faults>>

-----------------------------------------------------------------------------
\* A build: the tag is changed only between journal entries.

Known(f) == {journal[f].previous, journal[f].built, None}

\* Mutant: the reconciled build stays pending.
RecoverKeepsPending(f) ==
    /\ At(f, "begin")
    /\ journal[f] # None
    /\ journal[f].pending
    /\ temp' = [temp EXCEPT ![f] = None]
    /\ UNCHANGED <<tag, images, pinned, journal, proc, chart, acq, faults>>

\* _recover_pending_image_build and _begin_image_build: an interrupted build
\* is reconciled first, then a unique tag is journaled.
Recover(f) ==
    /\ At(f, "begin")
    /\ journal[f] # None
    /\ journal[f].pending
    /\ LET id == IF journal[f].id # None THEN journal[f].id ELSE temp[f]
       IN  IF tag \notin Known(f) \cup {id} \/ temp[f] \notin {id, None}
             THEN End(f, "refused") /\ UNCHANGED <<docker, journal>>
             ELSE /\ temp' = [temp EXCEPT ![f] = None]
                  /\ images' = IF temp[f] = None THEN images
                               ELSE Untagged(temp[f], tag, temp')
                  /\ journal' = [journal EXCEPT ![f].pending = FALSE, ![f].id = None,
                                   ![f].built = IF id # None /\ tag = id THEN id ELSE @]
                  /\ UNCHANGED <<tag, pinned, proc>>
    /\ UNCHANGED <<chart, acq, faults>>

Begin(f) ==
    /\ At(f, "begin")
    /\ journal[f] # None => ~journal[f].pending
    /\ LET entry == IF journal[f] # None THEN journal[f]
                    ELSE [previous |-> tag, built |-> None, pending |-> FALSE, id |-> None]
       IN  IF tag \notin {entry.previous, entry.built, None}
             THEN End(f, "refused") /\ UNCHANGED journal
             ELSE /\ journal' = [journal EXCEPT ![f] = [entry EXCEPT !.pending = TRUE,
                                                                     !.id = None]]
                  /\ Go(f, "build")
    /\ UNCHANGED <<docker, chart, acq, faults>>

\* docker build (or the tag of a pinned image): a cached build gives an image
\* that is there already.
Build(f) ==
    /\ At(f, "build")
    /\ \E i \in Ids :
          /\ temp' = [temp EXCEPT ![f] = i]
          /\ images' = images \cup {i}
    /\ Go(f, "pending")
    /\ UNCHANGED <<tag, pinned, journal, chart, acq, faults>>

\* _publish_image_build
JournalPending(f) ==
    /\ At(f, "pending")
    /\ journal' = [journal EXCEPT ![f].id = temp[f]]
    /\ Go(f, "check")
    /\ UNCHANGED <<docker, chart, acq, faults>>

CheckTag(f) ==
    /\ At(f, "check")
    /\ IF tag \in Known(f) THEN Go(f, "tag") ELSE End(f, "refused")
    /\ UNCHANGED <<docker, journal, chart, acq, faults>>

PublishTag(f) ==
    /\ At(f, "tag")
    /\ tag' = temp[f]
    /\ Go(f, "built")
    /\ UNCHANGED <<images, temp, pinned, journal, chart, acq, faults>>

JournalBuilt(f) ==
    /\ At(f, "built")
    /\ journal' = [journal EXCEPT ![f].built = journal[f].id]
    /\ Go(f, "untag")
    /\ UNCHANGED <<docker, chart, acq, faults>>

RemovePendingTag(f) ==
    /\ At(f, "untag")
    /\ temp' = [temp EXCEPT ![f] = None]
    /\ images' = Untagged(temp[f], tag, temp')
    /\ Go(f, "clear")
    /\ UNCHANGED <<tag, pinned, journal, chart, acq, faults>>

ClearPending(f) ==
    /\ At(f, "clear")
    /\ journal' = [journal EXCEPT ![f].pending = FALSE, ![f].id = None]
    /\ Go(f, "chart")
    /\ UNCHANGED <<docker, chart, acq, faults>>

-----------------------------------------------------------------------------
\* ensure_chart: the manifest commits the archive.

\* _cached_chart: one of the two alone is a miss.
CachedChart(f) ==
    /\ At(f, "chart")
    /\ IF "none" \in {chart[f].archive, chart[f].manifest}
         THEN Go(f, "archive")
         ELSE End(f, IF chart[f].archive = chart[f].manifest THEN "done" ELSE "refused")
    /\ UNCHANGED <<docker, journal, chart, acq, faults>>

\* _download_chart and _publish_chart; the registry may serve the version
\* with other contents than before.
PublishArchive(f) ==
    /\ At(f, "archive")
    /\ \E d \in Digests \ {"none"} : chart' = [chart EXCEPT ![f].archive = d]
    /\ Go(f, "manifest")
    /\ UNCHANGED <<docker, journal, acq, faults>>

PublishManifest(f) ==
    /\ At(f, "manifest")
    /\ chart' = [chart EXCEPT ![f].manifest = chart[f].archive]
    /\ End(f, "done")
    /\ UNCHANGED <<docker, journal, acq, faults>>

-----------------------------------------------------------------------------
\* Teardown.

\* _validate_image_ownership
Validate(f) ==
    /\ At(f, "validate")
    /\ LET j == journal[f]
           fine == \/ j = None
                   \/ /\ j.previous = None \/ j.previous \in images
                      /\ j.pending /\ j.id # None => temp[f] \in {j.id, None}
                      /\ tag \in {j.previous, j.built, j.id, None}
       IN  IF fine THEN Go(f, "restore") ELSE End(f, "refused")
    /\ UNCHANGED <<docker, journal, chart, acq, faults>>

\* Mutant: an image that was tagged but not yet journaled as built stays.
RestoreBuiltOnly(f) ==
    /\ At(f, "restore")
    /\ LET j == journal[f]
       IN  IF j # None /\ tag # None /\ tag = j.built
             THEN /\ tag' = j.previous
                  /\ images' = IF j.previous # None THEN images
                               ELSE Untagged(tag, None, temp)
             ELSE UNCHANGED <<tag, images>>
    /\ Go(f, "untemp")
    /\ UNCHANGED <<temp, pinned, journal, chart, acq, faults>>

\* _remove_harness_images: the tag the fixture set names the previous image
\* again, or goes.
Restore(f) ==
    /\ At(f, "restore")
    /\ LET j == journal[f]
       IN  IF j # None /\ tag # None /\ tag \in {j.built, j.id}
             THEN /\ tag' = j.previous
                  /\ images' = IF j.previous # None THEN images
                               ELSE Untagged(tag, None, temp)
             ELSE UNCHANGED <<tag, images>>
    /\ Go(f, "untemp")
    /\ UNCHANGED <<temp, pinned, journal, chart, acq, faults>>

RemoveTemporary(f) ==
    /\ At(f, "untemp")
    /\ IF journal[f] # None /\ journal[f].pending /\ temp[f] # None
         THEN /\ temp' = [temp EXCEPT ![f] = None]
              /\ images' = Untagged(temp[f], tag, temp')
         ELSE UNCHANGED <<temp, images>>
    /\ Go(f, "state")
    /\ UNCHANGED <<tag, pinned, journal, chart, acq, faults>>

\* The state directory goes, in any order.
RemoveState(f) ==
    /\ At(f, "state")
    /\ \/ /\ journal[f] # None
          /\ journal' = [journal EXCEPT ![f] = None]
          /\ UNCHANGED <<chart, proc>>
       \/ /\ chart[f].archive # "none"
          /\ chart' = [chart EXCEPT ![f].archive = "none"]
          /\ UNCHANGED <<journal, proc>>
       \/ /\ chart[f].manifest # "none"
          /\ chart' = [chart EXCEPT ![f].manifest = "none"]
          /\ UNCHANGED <<journal, proc>>
       \/ /\ journal[f] = None
          /\ {chart[f].archive, chart[f].manifest} = {"none"}
          /\ End(f, "done")
          /\ UNCHANGED <<journal, chart>>
    /\ UNCHANGED <<docker, acq, faults>>

Die(f) ==
    /\ proc[f].pc \notin {"unused", "idle"}
    /\ faults < MaxFaults
    /\ faults' = faults + 1
    /\ End(f, "failed")
    /\ acq' = [acq EXCEPT ![f] = Fresh]
    /\ UNCHANGED <<docker, journal, chart>>

Step(f) ==
    \/ InspectReference(f) \/ PullReference(f) \/ Backoff(f)
    \/ Recover(f) \/ Begin(f) \/ Build(f) \/ JournalPending(f) \/ CheckTag(f)
    \/ PublishTag(f) \/ JournalBuilt(f) \/ RemovePendingTag(f) \/ ClearPending(f)
    \/ CachedChart(f) \/ PublishArchive(f) \/ PublishManifest(f)
    \/ Validate(f) \/ Restore(f) \/ RemoveTemporary(f) \/ RemoveState(f)

Next ==
    \E f \in Fixtures :
        \/ Start(f, "inspect")
        \/ Start(f, "validate")
        \/ Step(f)
        \/ Die(f)

Spec == Init /\ [][Next]_vars /\ \A f \in Fixtures : WF_vars(Step(f))

-----------------------------------------------------------------------------
\* Properties.

Alone(f) == \A g \in Fixtures \ {f} : At(g, "unused")

\* Once the only fixture of a host has no journal entry any more, the tag
\* names what it named before the first build, through deaths anywhere in
\* builds, recoveries and teardowns (_publish_image_build,
\* _remove_harness_images).
PriorRestored ==
    \A f \in Fixtures : Alone(f) /\ journal[f] = None => tag = Prior

\* A temporary tag is always one that the journal of its fixture knows, so
\* that recovery or teardown removes it.
TemporaryJournaled ==
    \A f \in Fixtures :
        temp[f] # None => journal[f] # None /\ journal[f].pending

\* A fixture that has the host for itself is never refused: no death leaves a
\* journal that a later build or teardown takes for interference, unless a
\* registry changed the chart.
AloneNeverRefused ==
    \A f \in Fixtures :
        Alone(f) =>
            \/ proc[f].outcome # "refused"
            \/ chart[f].archive # chart[f].manifest

\* The time of an acquisition is never exceeded, and a reference that has to
\* be tried still has a full pull before it (acquire_pinned_image).
DeadlineKept ==
    \A f \in Fixtures :
        /\ acq[f].used <= Deadline
        /\ At(f, "pull") /\ acq[f].ref > 1 /\ acq[f].attempt = 1 =>
              ReferenceLeft(f) >= Pull

\* A started acquisition, build or teardown ends.
EventuallyEnds ==
    \A f \in Fixtures : ~At(f, "unused") => []<>At(f, "idle")

\* The tag the harness builds on is given back: the journal knows every temporary
\* tag, a fixture alone on the host is never refused, and once its journal is gone
\* the tag names what it named before (_publish_image_build, _remove_harness_images).
TagRestored == TypeOK /\ PriorRestored /\ TemporaryJournaled /\ AloneNeverRefused
=============================================================================
