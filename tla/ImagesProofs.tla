---------------------------- MODULE ImagesProofs ----------------------------
(***************************************************************************)
(* Proofs about Images: for any number of fixtures, references and         *)
(* attempts, an acquisition keeps its deadline (AcquisitionInTime),        *)
(* every temporary tag is journaled (TemporariesJournaled), the tag of a   *)
(* host that one fixture uses is given back (PriorGivenBack), and that     *)
(* fixture is never refused (TagGivenBack).                                *)
(***************************************************************************)
EXTENDS Images, WellFoundedInduction, TLAPS

\* What one fixture does.
Does(f) == Start(f, "inspect") \/ Start(f, "validate") \/ Step(f) \/ Die(f)

ProcOK == proc \in [Fixtures -> [pc: Steps, outcome: {"none", "done", "failed", "refused"}]]

\* The types of everything else.
DataOK ==
    /\ tag \in Image
    /\ images \subseteq Image \ {None}
    /\ temp \in [Fixtures -> Image]
    /\ pinned \in BOOLEAN
    /\ journal \in [Fixtures -> Journals]
    /\ chart \in [Fixtures -> [archive: Digests, manifest: Digests]]
    /\ faults \in 0..MaxFaults

AcqOK == acq \in [Fixtures -> [ref: 1..References, attempt: 1..Attempts, used: Nat]]

\* The parts of the type invariant.
LEMMA TypeParts ==
    /\ TypeOK <=> DataOK /\ ProcOK /\ AcqOK
    /\ TypeOK' <=> DataOK' /\ ProcOK' /\ AcqOK'
  BY DEF TypeOK, DataOK, ProcOK, AcqOK

\* Going to a step keeps the outcome, and touches no other fixture.
LEMMA GoEffect ==
    ASSUME ProcOK, NEW f \in Fixtures, NEW p \in Steps, Go(f, p)
    PROVE  /\ ProcOK'
           /\ proc'[f].pc = p /\ proc'[f].outcome = proc[f].outcome
           /\ \A g \in Fixtures \ {f} : proc'[g] = proc[g]
  BY DEF ProcOK, Go

\* Ending gives an outcome and touches no other fixture.
LEMMA EndEffect ==
    ASSUME ProcOK, NEW f \in Fixtures, NEW o \in {"none", "done", "failed", "refused"}, End(f,
            o)
    PROVE  /\ ProcOK'
           /\ proc'[f].pc = "idle" /\ proc'[f].outcome = o
           /\ \A g \in Fixtures \ {f} : proc'[g] = proc[g]
  BY DEF ProcOK, End, Steps

\* The steps.
LEMMA StepNames ==
    {"unused", "idle", "inspect", "pull", "wait", "begin", "build", "pending",
     "check", "tag", "built", "untag", "clear", "chart", "archive", "manifest",
     "validate", "restore", "untemp", "state"} \subseteq Steps
  BY DEF Steps

\* Every step goes somewhere.
LEMMA DoesProc ==
    ASSUME ProcOK, NEW f \in Fixtures, Does(f)
    PROVE  /\ ProcOK'
           /\ proc[f].pc # "unused" /\ proc'[f].pc # "unused"
           /\ \A g \in Fixtures \ {f} : proc'[g] = proc[g]
<1>1. CASE Start(f, "inspect")
  BY <1>1 DEF Start, ProcOK, Steps, At
<1>2. CASE Start(f, "validate")
  BY <1>2 DEF Start, ProcOK, Steps, At
<1>3. CASE InspectReference(f)
  BY <1>3, GoEffect, EndEffect, StepNames DEF InspectReference, At, ProcOK
<1>4. CASE PullReference(f)
  BY <1>4, GoEffect, EndEffect, StepNames DEF PullReference, NextReference, At
<1>5. CASE Backoff(f)
  BY <1>5, GoEffect, EndEffect, StepNames DEF Backoff, NextReference, At
<1>6. CASE Recover(f)
  BY <1>6, GoEffect, EndEffect, StepNames DEF Recover, At, ProcOK
<1>7. CASE Begin(f)
  BY <1>7, GoEffect, EndEffect, StepNames DEF Begin, At
<1>8. CASE Build(f)
  BY <1>8, GoEffect, EndEffect, StepNames DEF Build, At
<1>9. CASE JournalPending(f)
  BY <1>9, GoEffect, EndEffect, StepNames DEF JournalPending, At
<1>10. CASE CheckTag(f)
  BY <1>10, GoEffect, EndEffect, StepNames DEF CheckTag, At
<1>11. CASE PublishTag(f)
  BY <1>11, GoEffect, EndEffect, StepNames DEF PublishTag, At
<1>12. CASE JournalBuilt(f)
  BY <1>12, GoEffect, EndEffect, StepNames DEF JournalBuilt, At
<1>13. CASE RemovePendingTag(f)
  BY <1>13, GoEffect, EndEffect, StepNames DEF RemovePendingTag, At
<1>14. CASE ClearPending(f)
  BY <1>14, GoEffect, EndEffect, StepNames DEF ClearPending, At
<1>15. CASE CachedChart(f)
  BY <1>15, GoEffect, EndEffect, StepNames DEF CachedChart, At
<1>16. CASE PublishArchive(f)
  BY <1>16, GoEffect, EndEffect, StepNames DEF PublishArchive, At
<1>17. CASE PublishManifest(f)
  BY <1>17, GoEffect, EndEffect, StepNames DEF PublishManifest, At
<1>18. CASE Validate(f)
  BY <1>18, GoEffect, EndEffect, StepNames DEF Validate, At
<1>19. CASE Restore(f)
  BY <1>19, GoEffect, EndEffect, StepNames DEF Restore, At
<1>20. CASE RemoveTemporary(f)
  BY <1>20, GoEffect, EndEffect, StepNames DEF RemoveTemporary, At
<1>21. CASE RemoveState(f)
  BY <1>21, GoEffect, EndEffect, StepNames DEF RemoveState, At, ProcOK
<1>22. CASE Die(f)
  BY <1>22, GoEffect, EndEffect, StepNames DEF Die, At
<1> QED BY <1>1, <1>2, <1>3, <1>4, <1>5, <1>6, <1>7, <1>8, <1>9, <1>10, <1>11, <1>12, <1>13,
        <1>14, <1>15, <1>16, <1>17, <1>18, <1>19, <1>20, <1>21, <1>22 DEF Step, Does
-----------------------------------------------------------------------------
(* The journal entries. *)

\* An entry with one field or two changed is an entry.
LEMMA EntryExcept ==
    ASSUME NEW e \in Entries, NEW x \in Image, NEW y \in Image
    PROVE  /\ [e EXCEPT !.id = x] \in Entries
           /\ [e EXCEPT !.built = x] \in Entries
           /\ [e EXCEPT !.pending = TRUE, !.id = None] \in Entries
           /\ [e EXCEPT !.pending = FALSE, !.id = None] \in Entries
           /\ [e EXCEPT !.pending = FALSE, !.id = None, !.built = y] \in Entries
  BY DEF Entries, Image

\* Writing an entry of one fixture.
LEMMA EntryWritten ==
    ASSUME DataOK, NEW f \in Fixtures, NEW e \in Entries, journal' = [journal EXCEPT ![f] = e]
    PROVE  /\ journal' \in [Fixtures -> Journals]
           /\ journal'[f] = e /\ e # None
           /\ \A g \in Fixtures \ {f} : journal'[g] = journal[g]
  BY NoneIsNoEntry DEF DataOK, Journals

\* The journal before and after the steps that write it.
LEMMA JournalPendingEffect ==
    ASSUME DataOK, ProcOK, NEW f \in Fixtures, journal[f] # None, JournalPending(f)
    PROVE  /\ proc[f].pc = "pending" /\ proc'[f].pc = "check" /\ proc'[f].outcome = proc[f].outcome
           /\ journal' \in [Fixtures -> Journals] /\ journal'[f] # None
           /\ journal'[f].id = temp[f]
           /\ journal'[f].pending = journal[f].pending
           /\ journal'[f].previous = journal[f].previous
           /\ journal'[f].built = journal[f].built
<1> DEFINE e == [journal[f] EXCEPT !.id = temp[f]]
<1>1. journal[f] \in Entries /\ temp[f] \in Image
  BY DEF DataOK, Journals
<1>2. e \in Entries
  BY <1>1, EntryExcept
<1>3. /\ e.id = temp[f] /\ e.pending = journal[f].pending
      /\ e.previous = journal[f].previous /\ e.built = journal[f].built
  BY <1>1 DEF Entries
<1>4. journal' = [journal EXCEPT ![f] = e]
  BY DEF JournalPending
<1> HIDE DEF e
<1>5. journal' \in [Fixtures -> Journals] /\ journal'[f] = e /\ e # None
  BY <1>2, <1>4, EntryWritten
<1>6. /\ proc[f].pc = "pending" /\ proc'[f].pc = "check" /\ proc'[f].outcome = proc[f].outcome
  BY GoEffect, StepNames DEF JournalPending, At
<1> QED BY <1>3, <1>5, <1>6

\* The pending image becomes the built one.
LEMMA JournalBuiltEffect ==
    ASSUME DataOK, ProcOK, NEW f \in Fixtures, journal[f] # None, JournalBuilt(f)
    PROVE  /\ proc[f].pc = "built" /\ proc'[f].pc = "untag" /\ proc'[f].outcome = proc[f].outcome
           /\ journal' \in [Fixtures -> Journals] /\ journal'[f] # None
           /\ journal'[f].id = journal[f].id
           /\ journal'[f].pending = journal[f].pending
           /\ journal'[f].previous = journal[f].previous
           /\ journal'[f].built = journal[f].id
<1> DEFINE e == [journal[f] EXCEPT !.built = journal[f].id]
<1>1. journal[f] \in Entries /\ journal[f].id \in Image
  BY DEF DataOK, Journals, Entries
<1>2. e \in Entries
  BY <1>1, EntryExcept
<1>3. /\ e.id = journal[f].id /\ e.pending = journal[f].pending
      /\ e.previous = journal[f].previous /\ e.built = journal[f].id
  BY <1>1 DEF Entries
<1>4. journal' = [journal EXCEPT ![f] = e]
  BY DEF JournalBuilt
<1> HIDE DEF e
<1>5. journal' \in [Fixtures -> Journals] /\ journal'[f] = e /\ e # None
  BY <1>2, <1>4, EntryWritten
<1>6. /\ proc[f].pc = "built" /\ proc'[f].pc = "untag" /\ proc'[f].outcome = proc[f].outcome
  BY GoEffect, StepNames DEF JournalBuilt, At
<1> QED BY <1>3, <1>5, <1>6

\* The entry is not pending any more.
LEMMA ClearPendingEffect ==
    ASSUME DataOK, ProcOK, NEW f \in Fixtures, journal[f] # None, ClearPending(f)
    PROVE  /\ proc[f].pc = "clear" /\ proc'[f].pc = "chart" /\ proc'[f].outcome = proc[f].outcome
           /\ journal' \in [Fixtures -> Journals] /\ journal'[f] # None
           /\ journal'[f].id = None /\ journal'[f].pending = FALSE
           /\ journal'[f].previous = journal[f].previous
           /\ journal'[f].built = journal[f].built
<1> DEFINE e == [journal[f] EXCEPT !.pending = FALSE, !.id = None]
<1>1. journal[f] \in Entries
  BY DEF DataOK, Journals
<1>2. e \in Entries
  BY <1>1, EntryExcept DEF Image
<1>3. /\ e.id = None /\ e.pending = FALSE
      /\ e.previous = journal[f].previous /\ e.built = journal[f].built
  BY <1>1 DEF Entries
<1>4. journal' = [journal EXCEPT ![f] = e]
  BY DEF ClearPending
<1> HIDE DEF e
<1>5. journal' \in [Fixtures -> Journals] /\ journal'[f] = e /\ e # None
  BY <1>2, <1>4, EntryWritten
<1>6. /\ proc[f].pc = "clear" /\ proc'[f].pc = "chart" /\ proc'[f].outcome = proc[f].outcome
  BY GoEffect, StepNames DEF ClearPending, At
<1> QED BY <1>3, <1>5, <1>6

\* A build begins with a pending entry, or is refused.
LEMMA BeginEffect ==
    ASSUME DataOK, ProcOK, NEW f \in Fixtures, Begin(f)
    PROVE  /\ proc[f].pc = "begin" /\ (journal[f] # None => ~journal[f].pending)
           /\ \/ /\ proc'[f].pc = "idle" /\ proc'[f].outcome = "refused" /\ journal' = journal
                 /\ journal[f] # None
                 /\ tag \notin {journal[f].previous, journal[f].built, None}
              \/ /\ proc'[f].pc = "build" /\ proc'[f].outcome = proc[f].outcome
                 /\ journal' \in [Fixtures -> Journals] /\ journal'[f] # None
                 /\ journal'[f].pending = TRUE /\ journal'[f].id = None
                 /\ journal'[f].previous = IF journal[f] # None THEN journal[f].previous ELSE tag
                 /\ journal'[f].built = IF journal[f] # None THEN journal[f].built ELSE None
<1> DEFINE d == IF journal[f] # None THEN journal[f]
                ELSE [previous |-> tag, built |-> None, pending |-> FALSE, id |-> None]
           e == [d EXCEPT !.pending = TRUE, !.id = None]
<1>1. d \in Entries
  BY DEF DataOK, Journals, Entries, Image
<1>2. /\ d.previous = IF journal[f] # None THEN journal[f].previous ELSE tag
      /\ d.built = IF journal[f] # None THEN journal[f].built ELSE None
  OBVIOUS
<1>3. \/ End(f, "refused") /\ journal' = journal /\ tag \notin {d.previous, d.built, None}
      \/ Go(f, "build") /\ journal' = [journal EXCEPT ![f] = e]
  BY DEF Begin
<1>4. proc[f].pc = "begin" /\ (journal[f] # None => ~journal[f].pending)
  BY DEF Begin, At
<1> HIDE DEF d
<1>5. e \in Entries
  BY <1>1, EntryExcept DEF Image
<1>6. /\ e.pending = TRUE /\ e.id = None
      /\ e.previous = d.previous /\ e.built = d.built
  BY <1>1 DEF Entries
<1> HIDE DEF e
<1>7. CASE End(f, "refused") /\ journal' = journal /\ tag \notin {d.previous, d.built, None}
  <2>1. proc'[f].pc = "idle" /\ proc'[f].outcome = "refused"
    BY <1>7, EndEffect
  <2> QED BY <1>2, <1>4, <1>7, <2>1
<1>8. CASE Go(f, "build") /\ journal' = [journal EXCEPT ![f] = e]
  <2>1. journal' \in [Fixtures -> Journals] /\ journal'[f] = e /\ e # None
    BY <1>5, <1>8, EntryWritten
  <2>2. proc'[f].pc = "build" /\ proc'[f].outcome = proc[f].outcome
    BY <1>8, GoEffect, StepNames
  <2> QED BY <1>2, <1>4, <1>6, <2>1, <2>2
<1> QED BY <1>3, <1>7, <1>8

\* The image of a build that died: the journaled one, or the temporary tag's.
Interrupted(f) == IF journal[f].id # None THEN journal[f].id ELSE temp[f]

\* A build that died is reconciled, or refused.
LEMMA RecoverEffect ==
    ASSUME DataOK, ProcOK, NEW f \in Fixtures, Recover(f)
    PROVE  /\ proc[f].pc = "begin" /\ journal[f] # None /\ journal[f].pending
           /\ \/ /\ proc'[f].pc = "idle" /\ proc'[f].outcome = "refused"
                 /\ UNCHANGED <<docker, journal>>
                 /\ tag \notin Known(f) \cup {Interrupted(f)} \/ temp[f] \notin {Interrupted(f), None}
              \/ /\ proc' = proc /\ UNCHANGED <<tag, pinned>>
                 /\ temp' = [temp EXCEPT ![f] = None]
                 /\ images' = IF temp[f] = None THEN images ELSE Untagged(temp[f], tag, temp')
                 /\ journal' \in [Fixtures -> Journals] /\ journal'[f] # None
                 /\ journal'[f].pending = FALSE /\ journal'[f].id = None
                 /\ journal'[f].previous = journal[f].previous
                 /\ journal'[f].built = IF Interrupted(f) # None /\ tag = Interrupted(f)
                                         THEN Interrupted(f) ELSE journal[f].built
<1> DEFINE id == IF journal[f].id # None THEN journal[f].id ELSE temp[f]
           y == IF id # None /\ tag = id THEN id ELSE journal[f].built
           e == [journal[f] EXCEPT !.pending = FALSE, !.id = None, !.built = y]
<1>0. id = Interrupted(f)
  BY DEF Interrupted
<1>1. journal[f] \in Entries /\ id \in Image /\ y \in Image
  BY DEF DataOK, Journals, Entries, Recover
<1>2. proc[f].pc = "begin" /\ journal[f] # None /\ journal[f].pending
  BY DEF Recover, At
<1>3. \/ /\ End(f, "refused") /\ UNCHANGED <<docker, journal>>
         /\ tag \notin Known(f) \cup {id} \/ temp[f] \notin {id, None}
      \/ /\ proc' = proc /\ UNCHANGED <<tag, pinned>>
         /\ temp' = [temp EXCEPT ![f] = None]
         /\ images' = IF temp[f] = None THEN images ELSE Untagged(temp[f], tag, temp')
         /\ journal' = [journal EXCEPT ![f] = e]
  BY DEF Recover
<1> HIDE DEF id, y
<1>4. e \in Entries
  BY <1>1, EntryExcept
<1>5. e.pending = FALSE /\ e.id = None /\ e.previous = journal[f].previous /\ e.built = y
  BY <1>1 DEF Entries
<1> HIDE DEF e
<1>6. CASE journal' = [journal EXCEPT ![f] = e]
  <2>1. journal' \in [Fixtures -> Journals] /\ journal'[f] = e /\ e # None
    BY <1>4, <1>6, EntryWritten
  <2> QED BY <1>0, <1>2, <1>3, <1>5, <2>1, EndEffect DEF y
<1>7. CASE journal' # [journal EXCEPT ![f] = e]
  BY <1>0, <1>2, <1>3, <1>7, EndEffect
<1> QED BY <1>6, <1>7

\* When an image is given its name, the journal has an entry for it.
Journaled(f) == proc[f].pc \in {"pending", "built", "clear"} => journal[f] # None

\* Every step keeps the types of the data.
LEMMA DoesData ==
    ASSUME DataOK, ProcOK, NEW f \in Fixtures, Does(f), Journaled(f)
    PROVE  DataOK'
<1>1. CASE Recover(f)
  <2>1. \/ UNCHANGED <<docker, journal>>
        \/ /\ temp' = [temp EXCEPT ![f] = None] /\ UNCHANGED <<tag, pinned>>
           /\ images' = images \/ images' = Untagged(temp[f], tag, temp')
           /\ journal' \in [Fixtures -> Journals]
    BY <1>1, RecoverEffect
  <2> QED BY <1>1, <2>1 DEF Recover, DataOK, docker, Untagged, Image
<1>2. CASE Begin(f)
  <2>1. journal' \in [Fixtures -> Journals]
    BY <1>2, BeginEffect DEF DataOK
  <2> QED BY <1>2, <2>1 DEF Begin, DataOK, docker
<1>3. CASE JournalPending(f)
  <2>1. journal[f] # None
    BY <1>3 DEF JournalPending, Journaled, At
  <2>2. journal' \in [Fixtures -> Journals]
    BY <1>3, <2>1, JournalPendingEffect
  <2> QED BY <1>3, <2>2 DEF JournalPending, DataOK, docker
<1>4. CASE JournalBuilt(f)
  <2>1. journal[f] # None
    BY <1>4 DEF JournalBuilt, Journaled, At
  <2>2. journal' \in [Fixtures -> Journals]
    BY <1>4, <2>1, JournalBuiltEffect
  <2> QED BY <1>4, <2>2 DEF JournalBuilt, DataOK, docker
<1>5. CASE ClearPending(f)
  <2>1. journal[f] # None
    BY <1>5 DEF ClearPending, Journaled, At
  <2>2. journal' \in [Fixtures -> Journals]
    BY <1>5, <2>1, ClearPendingEffect
  <2> QED BY <1>5, <2>2 DEF ClearPending, DataOK, docker
<1> USE DEF DataOK, Image, Journals, Entries, Digests, Journaled, At
<1>6. CASE Start(f, "inspect")
  BY <1>6, ImagesConstants DEF Start, docker
<1>7. CASE Start(f, "validate")
  BY <1>7, ImagesConstants DEF Start, docker
<1>8. CASE InspectReference(f)
  BY <1>8, ImagesConstants DEF InspectReference, docker
<1>9. CASE PullReference(f)
  BY <1>9, ImagesConstants DEF PullReference, NextReference
<1>10. CASE Backoff(f)
  BY <1>10, ImagesConstants DEF Backoff, NextReference, docker
<1>11. CASE Build(f)
  BY <1>11, ImagesConstants DEF Build
<1>12. CASE CheckTag(f)
  BY <1>12, ImagesConstants DEF CheckTag, docker
<1>13. CASE PublishTag(f)
  BY <1>13, ImagesConstants DEF PublishTag
<1>14. CASE RemovePendingTag(f)
  BY <1>14, ImagesConstants DEF RemovePendingTag, Untagged
<1>15. CASE CachedChart(f)
  BY <1>15, ImagesConstants DEF CachedChart, docker
<1>16. CASE PublishArchive(f)
  BY <1>16, ImagesConstants DEF PublishArchive, docker
<1>17. CASE PublishManifest(f)
  BY <1>17, ImagesConstants DEF PublishManifest, docker
<1>18. CASE Validate(f)
  BY <1>18, ImagesConstants DEF Validate, docker
<1>19. CASE Restore(f)
  BY <1>19, ImagesConstants DEF Restore, Untagged
<1>20. CASE RemoveTemporary(f)
  BY <1>20, ImagesConstants DEF RemoveTemporary, Untagged
<1>21. CASE RemoveState(f)
  BY <1>21, ImagesConstants DEF RemoveState, docker
<1>22. CASE Die(f)
  BY <1>22, ImagesConstants DEF Die, docker
<1> HIDE DEF DataOK, Image, Journals, Entries, Digests, Journaled, At
<1> QED BY <1>1, <1>2, <1>3, <1>4, <1>5, <1>6, <1>7, <1>8, <1>9, <1>10, <1>11, <1>12, <1>13,
        <1>14, <1>15, <1>16, <1>17, <1>18, <1>19, <1>20, <1>21, <1>22 DEF Step, Does
-----------------------------------------------------------------------------
(* The journal and the tags of one fixture. *)

\* From the pending entry to its end.
Publishing == {"build", "pending", "check", "tag", "built", "untag", "clear"}

\* A temporary tag is known to the journal, and the journal names its image
\* from the entry before the tag is changed to the entry after.
Consistent(f) ==
    /\ temp[f] \in Ids \cup {None}
    /\ temp[f] # None => journal[f] # None /\ journal[f].pending
    /\ journal[f] # None =>
         /\ journal[f].id \in Ids \cup {None}
         /\ ~journal[f].pending => journal[f].id = None
         /\ journal[f].id # None => temp[f] \in {journal[f].id, None}
    /\ proc[f].pc \in Publishing => journal[f] # None /\ journal[f].pending
    /\ proc[f].pc = "build" => journal[f].id = None
    /\ proc[f].pc = "pending" => temp[f] # None
    /\ proc[f].pc \in {"check", "tag"} => temp[f] # None /\ journal[f].id = temp[f]
    /\ proc[f].pc = "built" => journal[f].id # None
    /\ proc[f].pc \in {"untag",
            "clear"} => journal[f].id # None /\ journal[f].built = journal[f].id
    /\ proc[f].pc \in {"clear", "state"} => temp[f] = None
    /\ proc[f].pc = "unused" => journal[f] = None /\ temp[f] = None
    /\ proc[f].outcome = "refused" => proc[f].pc = "idle"

\* Every step of a fixture keeps its journal and its temporary tag consistent.
LEMMA DoesConsistent ==
    ASSUME DataOK, ProcOK, NEW f \in Fixtures, Does(f), Consistent(f)
    PROVE  Consistent(f)'
<1>1. CASE Recover(f)
  <2>1. \/ /\ proc'[f].pc = "idle" /\ UNCHANGED <<temp, journal>>
        \/ /\ proc' = proc /\ temp' = [temp EXCEPT ![f] = None]
           /\ journal'[f] # None /\ journal'[f].pending = FALSE /\ journal'[f].id = None
    <3>1. \/ proc'[f].pc = "idle" /\ UNCHANGED <<docker, journal>>
          \/ /\ proc' = proc /\ temp' = [temp EXCEPT ![f] = None]
             /\ journal'[f] # None /\ journal'[f].pending = FALSE /\ journal'[f].id = None
      BY <1>1, RecoverEffect
    <3> QED BY <3>1 DEF docker
  <2>2. proc[f].pc = "begin"
    BY <1>1 DEF Recover, At
  <2>3. temp' = [temp EXCEPT ![f] = None] => temp'[f] = None
    BY DEF DataOK
  <2> QED BY <2>1, <2>2, <2>3 DEF Consistent, Publishing
<1>2. CASE Begin(f)
  <2>1. temp[f] = None /\ temp' = temp
    BY <1>2, BeginEffect DEF Begin, Consistent, docker
  <2> QED BY <1>2, <2>1, BeginEffect, ImagesConstants DEF Consistent, Publishing
<1>3. CASE JournalPending(f)
  <2>1. journal[f] # None
    BY <1>3 DEF JournalPending, At, Consistent, Publishing
  <2> QED BY <1>3, <2>1, JournalPendingEffect, ZenonT(30) DEF JournalPending, Consistent, Publishing,
          docker, DataOK
<1>4. CASE JournalBuilt(f)
  <2>1. journal[f] # None
    BY <1>4 DEF JournalBuilt, At, Consistent, Publishing
  <2> QED BY <1>4, <2>1, JournalBuiltEffect, ZenonT(30) DEF JournalBuilt, Consistent, Publishing, docker,
          DataOK
<1>5. CASE ClearPending(f)
  <2>1. journal[f] # None
    BY <1>5 DEF ClearPending, At, Consistent, Publishing
  <2> QED BY <1>5, <2>1, ClearPendingEffect DEF ClearPending, Consistent, Publishing, docker,
          DataOK
<1> USE DEF DataOK, ProcOK, Consistent, Journals, Entries, Publishing, At, Go, End
<1>6. CASE Start(f, "inspect")
  BY ImagesConstants, <1>6 DEF Start, At, docker
<1>7. CASE Start(f, "validate")
  BY ImagesConstants, <1>7 DEF Start, At, docker
<1>8. CASE InspectReference(f)
  BY ImagesConstants, <1>8 DEF InspectReference, At, Go, Left, Least, docker
<1>9. CASE PullReference(f)
  BY ImagesConstants, <1>9 DEF PullReference, At, Go, End, NextReference, ReferenceLeft,
          Least, Left
<1>10. CASE Backoff(f)
  BY ImagesConstants, <1>10 DEF Backoff, At, Go, End, NextReference, ReferenceLeft, Left, docker
<1>11. CASE Build(f)
  BY ImagesConstants, <1>11 DEF Build, At, Go
<1>12. CASE CheckTag(f)
  BY ImagesConstants, <1>12 DEF CheckTag, At, Go, End, Known, docker
<1>13. CASE PublishTag(f)
  BY ImagesConstants, <1>13 DEF PublishTag, At, Go
<1>14. CASE RemovePendingTag(f)
  BY ImagesConstants, <1>14 DEF RemovePendingTag, At, Go, Untagged
<1>15. CASE CachedChart(f)
  BY ImagesConstants, <1>15 DEF CachedChart, At, Go, End, docker
<1>16. CASE PublishArchive(f)
  BY ImagesConstants, <1>16 DEF PublishArchive, At, Go, docker
<1>17. CASE PublishManifest(f)
  BY ImagesConstants, <1>17 DEF PublishManifest, At, End, docker
<1>18. CASE Validate(f)
  BY ImagesConstants, <1>18 DEF Validate, At, Go, End, docker
<1>19. CASE Restore(f)
  BY ImagesConstants, <1>19 DEF Restore, At, Go, Untagged
<1>20. CASE RemoveTemporary(f)
  BY ImagesConstants, <1>20 DEF RemoveTemporary, At, Go, Untagged
<1>21. CASE RemoveState(f)
  BY ImagesConstants, <1>21 DEF RemoveState, At, End, docker
<1>22. CASE Die(f)
  BY ImagesConstants, <1>22 DEF Die, At, End, docker
<1> HIDE DEF DataOK, ProcOK, Consistent, Journals, Entries, Publishing, At, Go, End
<1> QED BY <1>1, <1>2, <1>3, <1>4, <1>5, <1>6, <1>7, <1>8, <1>9, <1>10, <1>11, <1>12, <1>13,
        <1>14, <1>15, <1>16, <1>17, <1>18, <1>19, <1>20, <1>21, <1>22 DEF Step, Does

-----------------------------------------------------------------------------
(* A fixture that has the host for itself. *)

\* The tag names the previous image, the journaled one, or, while it is being
\* published, the pending one.
Sole(f) ==
    /\ journal[f] = None => tag = Prior
    /\ journal[f] # None =>
         /\ journal[f].previous = Prior
         /\ tag \in {Prior} \cup ({journal[f].built, journal[f].id} \ {None})
    /\ proc[f].pc \in {"build", "pending", "check", "tag"} =>
         tag \in {Prior} \cup ({journal[f].built} \ {None})
    /\ proc[f].pc = "built" => tag = journal[f].id
    /\ proc[f].pc \in {"untag", "clear"} => tag = journal[f].built
    /\ proc[f].pc \in {"untemp", "state"} => tag = Prior

\* The previous image is there, and nothing but a changed chart refuses it.
Welcome(f) ==
    /\ Prior # None => Prior \in images
    /\ proc[f].outcome = "refused" => chart[f].archive # chart[f].manifest

\* A step of the only fixture keeps what it knows of the tag.
LEMMA DoesSole ==
    ASSUME DataOK, ProcOK, NEW f \in Fixtures, Does(f), Consistent(f), Sole(f)
    PROVE  Sole(f)'
<1>1. CASE Recover(f)
  <2>1. \/ tag' = tag /\ journal' = journal /\ proc'[f].pc = "idle"
        \/ /\ proc' = proc /\ tag' = tag
           /\ journal'[f] # None /\ journal'[f].pending = FALSE /\ journal'[f].id = None
           /\ journal'[f].previous = journal[f].previous
           /\ journal'[f].built = IF Interrupted(f) # None /\ tag = Interrupted(f)
                                      THEN Interrupted(f) ELSE journal[f].built
    <3>1. \/ UNCHANGED <<docker, journal>> /\ proc'[f].pc = "idle"
          \/ /\ proc' = proc /\ tag' = tag
             /\ journal'[f] # None /\ journal'[f].pending = FALSE /\ journal'[f].id = None
             /\ journal'[f].previous = journal[f].previous
             /\ journal'[f].built = IF Interrupted(f) # None /\ tag = Interrupted(f)
                                      THEN Interrupted(f) ELSE journal[f].built
      BY <1>1, RecoverEffect
    <3> QED BY <3>1 DEF docker
  <2>2. /\ tag \in {Prior} \cup ({journal[f].built, Interrupted(f)} \ {None})
        /\ proc[f].pc = "begin" /\ journal[f] # None
    BY <1>1 DEF Recover, Sole, Consistent, Interrupted, At
  <2> QED BY <2>1, <2>2 DEF Sole
<1>2. CASE Begin(f)
  <2>1. tag' = tag /\ (journal[f] # None /\ ~journal[f].pending => journal[f].id = None)
    BY <1>2 DEF Begin, docker, Consistent
  <2> QED BY <1>2, <2>1, BeginEffect DEF Sole
<1>3. CASE JournalPending(f)
  <2>1. journal[f] # None
    BY <1>3 DEF JournalPending, At, Consistent, Publishing
  <2> QED BY <1>3, <2>1, JournalPendingEffect DEF JournalPending, Consistent, Sole, docker
<1>4. CASE JournalBuilt(f)
  <2>1. journal[f] # None
    BY <1>4 DEF JournalBuilt, At, Consistent, Publishing
  <2> QED BY <1>4, <2>1, JournalBuiltEffect DEF JournalBuilt, Consistent, Sole, docker
<1>5. CASE ClearPending(f)
  <2>1. journal[f] # None
    BY <1>5 DEF ClearPending, At, Consistent, Publishing
  <2> QED BY <1>5, <2>1, ClearPendingEffect DEF ClearPending, Consistent, Sole, docker
<1> USE DEF DataOK, ProcOK, Consistent, Sole, Journals, Entries, Publishing, At, Go, End,
        Known, Untagged
<1>6. CASE Start(f, "inspect")
  BY ImagesConstants, <1>6 DEF Start, At, docker
<1>7. CASE Start(f, "validate")
  BY ImagesConstants, <1>7 DEF Start, At, docker
<1>8. CASE InspectReference(f)
  BY ImagesConstants, <1>8 DEF InspectReference, At, Go, Left, Least, docker
<1>9. CASE PullReference(f)
  BY ImagesConstants, <1>9 DEF PullReference, At, Go, End, NextReference, ReferenceLeft,
          Least, Left
<1>10. CASE Backoff(f)
  BY ImagesConstants, <1>10 DEF Backoff, At, Go, End, NextReference, ReferenceLeft, Left, docker
<1>11. CASE Build(f)
  BY ImagesConstants, <1>11 DEF Build, At, Go
<1>12. CASE CheckTag(f)
  BY ImagesConstants, <1>12 DEF CheckTag, At, Go, End, Known, docker
<1>13. CASE PublishTag(f)
  BY ImagesConstants, <1>13 DEF PublishTag, At, Go
<1>14. CASE RemovePendingTag(f)
  BY ImagesConstants, <1>14 DEF RemovePendingTag, At, Go, Untagged
<1>15. CASE CachedChart(f)
  BY ImagesConstants, <1>15 DEF CachedChart, At, Go, End, docker
<1>16. CASE PublishArchive(f)
  BY ImagesConstants, <1>16 DEF PublishArchive, At, Go, docker
<1>17. CASE PublishManifest(f)
  BY ImagesConstants, <1>17 DEF PublishManifest, At, End, docker
<1>18. CASE Validate(f)
  BY ImagesConstants, <1>18 DEF Validate, At, Go, End, docker
<1>19. CASE Restore(f)
  BY ImagesConstants, <1>19 DEF Restore, At, Go, Untagged
<1>20. CASE RemoveTemporary(f)
  BY ImagesConstants, <1>20 DEF RemoveTemporary, At, Go, Untagged
<1>21. CASE RemoveState(f)
  BY ImagesConstants, <1>21 DEF RemoveState, At, End, docker
<1>22. CASE Die(f)
  BY ImagesConstants, <1>22 DEF Die, At, End, docker
<1> HIDE DEF DataOK, ProcOK, Consistent, Sole, Journals, Entries, Publishing, At, Go, End,
        Known, Untagged
<1> QED BY <1>1, <1>2, <1>3, <1>4, <1>5, <1>6, <1>7, <1>8, <1>9, <1>10, <1>11, <1>12, <1>13,
        <1>14, <1>15, <1>16, <1>17, <1>18, <1>19, <1>20, <1>21, <1>22 DEF Step, Does

\* Nothing refuses it.
LEMMA DoesWelcome ==
    ASSUME DataOK, ProcOK, Prior \notin Ids, NEW f \in Fixtures, Does(f), Consistent(f),
            Sole(f),
           Welcome(f)
    PROVE  Welcome(f)'
<1>1. CASE Recover(f)
  <2>1. /\ tag \in Known(f) \cup {Interrupted(f)} /\ temp[f] \in {Interrupted(f), None}
        /\ tag \in {Prior} \cup ({journal[f].built, Interrupted(f)} \ {None})
    BY <1>1 DEF Recover, Known, Sole, Consistent, Interrupted, At
  <2>2. /\ proc' = proc
        /\ images' = IF temp[f] = None THEN images ELSE Untagged(temp[f], tag, temp')
    BY <1>1, <2>1, RecoverEffect
  <2>3. Prior # None => Prior \in images'
    BY <2>2 DEF Welcome, Consistent, Untagged
  <2>4. chart' = chart
    BY <1>1 DEF Recover
  <2> QED BY <2>2, <2>3, <2>4 DEF Welcome
<1>2. CASE Begin(f)
  <2>1. /\ UNCHANGED <<tag, images, chart>>
        /\ journal[f] # None /\ ~journal[f].pending => journal[f].id = None
    BY <1>2 DEF Begin, docker, Consistent
  <2>2. proc'[f].outcome # "refused"
    BY <1>2, <2>1, BeginEffect DEF Sole, Consistent
  <2> QED BY <2>1, <2>2 DEF Welcome
<1>3. CASE JournalPending(f)
  <2>1. UNCHANGED <<images, chart>> /\ proc'[f].outcome = proc[f].outcome
    BY <1>3, GoEffect, StepNames DEF JournalPending, docker
  <2> QED BY <2>1 DEF Welcome
<1>4. CASE JournalBuilt(f)
  <2>1. UNCHANGED <<images, chart>> /\ proc'[f].outcome = proc[f].outcome
    BY <1>4, GoEffect, StepNames DEF JournalBuilt, docker
  <2> QED BY <2>1 DEF Welcome
<1>5. CASE ClearPending(f)
  <2>1. UNCHANGED <<images, chart>> /\ proc'[f].outcome = proc[f].outcome
    BY <1>5, GoEffect, StepNames DEF ClearPending, docker
  <2> QED BY <2>1 DEF Welcome
<1> USE DEF DataOK, ProcOK, Consistent, Sole, Welcome, Journals, Entries, Publishing, At, Go,
        End, Known, Untagged
<1>6. CASE Start(f, "inspect")
  BY ImagesConstants, <1>6 DEF Start, At, docker
<1>7. CASE Start(f, "validate")
  BY ImagesConstants, <1>7 DEF Start, At, docker
<1>8. CASE InspectReference(f)
  BY ImagesConstants, <1>8 DEF InspectReference, At, Go, Left, Least, docker
<1>9. CASE PullReference(f)
  BY ImagesConstants, <1>9 DEF PullReference, At, Go, End, NextReference, ReferenceLeft,
          Least, Left
<1>10. CASE Backoff(f)
  BY ImagesConstants, <1>10 DEF Backoff, At, Go, End, NextReference, ReferenceLeft, Left, docker
<1>11. CASE Build(f)
  BY ImagesConstants, <1>11 DEF Build, At, Go
<1>12. CASE CheckTag(f)
  BY ImagesConstants, <1>12 DEF CheckTag, At, Go, End, Known, docker
<1>13. CASE PublishTag(f)
  BY ImagesConstants, <1>13 DEF PublishTag, At, Go
<1>14. CASE RemovePendingTag(f)
  BY ImagesConstants, <1>14 DEF RemovePendingTag, At, Go, Untagged
<1>15. CASE CachedChart(f)
  BY ImagesConstants, <1>15 DEF CachedChart, At, Go, End, docker
<1>16. CASE PublishArchive(f)
  BY ImagesConstants, <1>16 DEF PublishArchive, At, Go, docker
<1>17. CASE PublishManifest(f)
  BY ImagesConstants, <1>17 DEF PublishManifest, At, End, docker
<1>18. CASE Validate(f)
  BY ImagesConstants, <1>18 DEF Validate, At, Go, End, docker
<1>19. CASE Restore(f)
  BY ImagesConstants, <1>19 DEF Restore, At, Go, Untagged
<1>20. CASE RemoveTemporary(f)
  BY ImagesConstants, <1>20 DEF RemoveTemporary, At, Go, Untagged
<1>21. CASE RemoveState(f)
  BY ImagesConstants, <1>21 DEF RemoveState, At, End, docker
<1>22. CASE Die(f)
  BY ImagesConstants, <1>22 DEF Die, At, End, docker
<1> HIDE DEF DataOK, ProcOK, Consistent, Sole, Welcome, Journals, Entries, Publishing, At, Go,
        End, Known, Untagged
<1> QED BY <1>1, <1>2, <1>3, <1>4, <1>5, <1>6, <1>7, <1>8, <1>9, <1>10, <1>11, <1>12, <1>13,
        <1>14, <1>15, <1>16, <1>17, <1>18, <1>19, <1>20, <1>21, <1>22 DEF Step, Does

-----------------------------------------------------------------------------
(* The journal is kept and the tag restored. *)

\* A fixture changes nothing of another one but the tag and the images.
LEMMA OtherUntouched ==
    ASSUME DataOK, ProcOK, NEW f \in Fixtures, NEW g \in Fixtures, f # g, Does(f)
    PROVE  /\ journal'[g] = journal[g] /\ temp'[g] = temp[g]
           /\ chart'[g] = chart[g] /\ proc'[g] = proc[g]
<1>0. proc'[g] = proc[g]
  BY DoesProc
<1> USE DEF DataOK
<1>1. CASE Start(f, "inspect")
  BY <1>0, <1>1 DEF Start, docker
<1>2. CASE Start(f, "validate")
  BY <1>0, <1>2 DEF Start, docker
<1>3. CASE InspectReference(f)
  BY <1>0, <1>3 DEF InspectReference, docker
<1>4. CASE PullReference(f)
  BY <1>0, <1>4 DEF PullReference
<1>5. CASE Backoff(f)
  BY <1>0, <1>5 DEF Backoff, docker
<1>6. CASE Recover(f)
  BY <1>0, <1>6 DEF Recover, docker
<1>7. CASE Begin(f)
  BY <1>0, <1>7 DEF Begin, docker
<1>8. CASE Build(f)
  BY <1>0, <1>8 DEF Build
<1>9. CASE JournalPending(f)
  BY <1>0, <1>9 DEF JournalPending, docker
<1>10. CASE CheckTag(f)
  BY <1>0, <1>10 DEF CheckTag, docker
<1>11. CASE PublishTag(f)
  BY <1>0, <1>11 DEF PublishTag
<1>12. CASE JournalBuilt(f)
  BY <1>0, <1>12 DEF JournalBuilt, docker
<1>13. CASE RemovePendingTag(f)
  BY <1>0, <1>13 DEF RemovePendingTag
<1>14. CASE ClearPending(f)
  BY <1>0, <1>14 DEF ClearPending, docker
<1>15. CASE CachedChart(f)
  BY <1>0, <1>15 DEF CachedChart, docker
<1>16. CASE PublishArchive(f)
  BY <1>0, <1>16 DEF PublishArchive, docker
<1>17. CASE PublishManifest(f)
  BY <1>0, <1>17 DEF PublishManifest, docker
<1>18. CASE Validate(f)
  BY <1>0, <1>18 DEF Validate, docker
<1>19. CASE Restore(f)
  BY <1>0, <1>19 DEF Restore
<1>20. CASE RemoveTemporary(f)
  BY <1>0, <1>20 DEF RemoveTemporary
<1>21. CASE RemoveState(f)
  BY <1>0, <1>21 DEF RemoveState, docker
<1>22. CASE Die(f)
  BY <1>0, <1>22 DEF Die, docker
<1> HIDE DEF DataOK
<1> QED BY <1>1, <1>2, <1>3, <1>4, <1>5, <1>6, <1>7, <1>8, <1>9, <1>10, <1>11, <1>12, <1>13,
        <1>14, <1>15, <1>16, <1>17, <1>18, <1>19, <1>20, <1>21, <1>22 DEF Step, Does

\* The inductive invariant.
Kept ==
    /\ DataOK /\ ProcOK
    /\ \A f \in Fixtures : Consistent(f)

\* ... with what the only fixture knows of the tag ...
Whole == Kept /\ \A f \in Fixtures : Alone(f) => Sole(f)

\* ... and with nothing that would refuse it.
Welcomed == Whole /\ \A f \in Fixtures : Alone(f) => Welcome(f)

\* The first state.
LEMMA InitKept == Init => Kept /\ \A f \in Fixtures : Sole(f) /\ Welcome(f)
<1> SUFFICES ASSUME Init PROVE Kept /\ \A f \in Fixtures : Sole(f) /\ Welcome(f)
  OBVIOUS
<1>1. PICK used \in SUBSET Fixtures :
        proc = [f \in Fixtures |-> [pc |-> IF f \in used THEN "idle" ELSE "unused",
                                    outcome |-> "none"]]
  BY DEF Init
<1>2. ProcOK /\ \A f \in Fixtures : proc[f].pc \in {"idle",
        "unused"} /\ proc[f].outcome = "none"
  BY <1>1, StepNames DEF ProcOK
<1>3. DataOK
  BY DEF Init, DataOK, Image, Journals, Digests
<1>4. \A f \in Fixtures : Consistent(f)
  BY <1>2 DEF Init, Consistent, Publishing
<1>5. \A f \in Fixtures : Sole(f) /\ Welcome(f)
  BY <1>2 DEF Init, Sole, Welcome
<1> QED BY <1>2, <1>3, <1>4, <1>5 DEF Kept

\* A step of one fixture keeps the journals of all.
LEMMA DoesKept ==
    ASSUME Kept, NEW f \in Fixtures, Does(f)
    PROVE  Kept'
<1>1. DataOK /\ ProcOK /\ Consistent(f)
  BY DEF Kept
<1>2. Journaled(f)
  BY <1>1 DEF Consistent, Journaled, Publishing
<1>3. DataOK' /\ ProcOK' /\ Consistent(f)'
  BY <1>1, <1>2, DoesData, DoesProc, DoesConsistent
<1>4. \A g \in Fixtures \ {f} : Consistent(g)'
  <2> SUFFICES ASSUME NEW g \in Fixtures \ {f} PROVE Consistent(g)'
    OBVIOUS
  <2>1. /\ journal'[g] = journal[g] /\ temp'[g] = temp[g] /\ proc'[g] = proc[g]
    BY <1>1, OtherUntouched
  <2>2. Consistent(g)
    BY DEF Kept
  <2> QED BY <2>1, <2>2 DEF Consistent
<1> QED BY <1>3, <1>4 DEF Kept

\* A step is one of a fixture.
LEMMA NextDoes == Next <=> \E f \in Fixtures : Does(f)
  BY DEF Next, Does

\* Every step keeps the journals.
LEMMA NextKept == Kept /\ [Next]_vars => Kept'
<1> SUFFICES ASSUME Kept, [Next]_vars PROVE Kept'
  OBVIOUS
<1>1. CASE Next
  BY <1>1, NextDoes, DoesKept
<1>2. CASE UNCHANGED vars
  <2>1. DataOK' /\ ProcOK'
    BY <1>2 DEF vars, Kept, DataOK, ProcOK
  <2>2. \A f \in Fixtures : Consistent(f)'
    BY <1>2 DEF vars, Kept, Consistent
  <2> QED BY <2>1, <2>2 DEF Kept
<1> QED BY <1>1, <1>2

\* Nobody joins a fixture that is alone, and it alone acts.
LEMMA AloneActs ==
    ASSUME Kept, NEW f \in Fixtures, Alone(f)', NEW g \in Fixtures, Does(g)
    PROVE  g = f /\ Alone(f)
<1>1. ProcOK
  BY DEF Kept
<1>2. proc[g].pc # "unused" /\ proc'[g].pc # "unused"
  BY <1>1, DoesProc
<1>3. g = f
  BY <1>2 DEF Alone, At
<1>4. \A h \in Fixtures \ {f} : proc'[h] = proc[h]
  BY <1>1, <1>3, DoesProc
<1> QED BY <1>3, <1>4 DEF Alone, At

\* Every step keeps what is known of the tag.
LEMMA NextWhole == Whole /\ [Next]_vars => Whole'
<1> SUFFICES ASSUME Whole, [Next]_vars PROVE Whole'
  OBVIOUS
<1>1. Kept /\ Kept'
  BY NextKept DEF Whole
<1>2. ASSUME NEW f \in Fixtures, Alone(f)' PROVE Sole(f)'
  <2>1. DataOK /\ ProcOK /\ Consistent(f)
    BY <1>1 DEF Kept
  <2>2. CASE Next
    <3>1. Does(f) /\ Alone(f)
      BY <1>1, <1>2, <2>2, NextDoes, AloneActs
    <3> QED BY <2>1, <3>1, DoesSole DEF Whole
  <2>3. CASE UNCHANGED vars
    BY <1>2, <2>3 DEF vars, Whole, Sole, Alone, At
  <2> QED BY <2>2, <2>3
<1> QED BY <1>1, <1>2 DEF Whole

\* Nothing a fixture does alone makes it refused later.
LEMMA NextWelcomed ==
    ASSUME Prior \notin Ids, Welcomed, [Next]_vars
    PROVE  Welcomed'
<1>1. Kept /\ Whole'
  BY NextWhole DEF Welcomed, Whole
<1>2. ASSUME NEW f \in Fixtures, Alone(f)' PROVE Welcome(f)'
  <2>1. DataOK /\ ProcOK /\ Consistent(f)
    BY <1>1 DEF Kept
  <2>2. CASE Next
    <3>1. Does(f) /\ Alone(f)
      BY <1>1, <1>2, <2>2, NextDoes, AloneActs
    <3> QED BY <2>1, <3>1, DoesWelcome DEF Welcomed, Whole
  <2>3. CASE UNCHANGED vars
    BY <1>2, <2>3 DEF vars, Welcomed, Welcome, Alone, At
  <2> QED BY <2>2, <2>3
<1> QED BY <1>1, <1>2 DEF Welcomed

-----------------------------------------------------------------------------
(* The waits between the attempts. *)

\* Every set of numbers that is not empty has a lowest one.
LEMMA LowestNumber ==
    ASSUME NEW T, T \subseteq Nat, T # {}
    PROVE  \E m \in T : \A y \in T : m <= y
<1>1. PICK m \in T : \A y \in T : ~ (<<y, m>> \in OpToRel(<, Nat))
  BY WFMin, NatLessThanWellFounded
<1>2. \A y \in T : ~ (y < m)
  BY <1>1 DEF OpToRel
<1> QED BY <1>2

\* The first k waits.
Waits(h, k) ==
    /\ h \in [0..k -> Nat]
    /\ h[0] = 1
    /\ \A i \in 1..k : h[i] = 2 * h[i - 1]

\* There are that many waits ...
LEMMA WaitsExist == \A k \in Nat : \E h : Waits(h, k)
<1> DEFINE T == {k \in Nat : ~ \E h : Waits(h, k)}
<1> SUFFICES ASSUME T # {} PROVE FALSE
  OBVIOUS
<1>1. PICK m \in T : \A y \in T : m <= y
  <2>1. T \subseteq Nat
    OBVIOUS
  <2> HIDE DEF T
  <2> QED BY <2>1, LowestNumber
<1>2. CASE m = 0
  <2>1. Waits([i \in 0..0 |-> 1], 0)
    BY DEF Waits
  <2> QED BY <1>2, <2>1
<1>3. CASE m # 0
  <2>1. m - 1 \in Nat /\ m - 1 \notin T
    BY <1>1, <1>3
  <2>2. PICK h : Waits(h, m - 1)
    BY <2>1
  <2> DEFINE e == [i \in 0..m |-> IF i = m THEN 2 * h[m - 1] ELSE h[i]]
  <2>3. \A i \in 0..(m - 1) : h[i] \in Nat /\ e[i] = h[i]
    BY <2>1, <2>2 DEF Waits
  <2>4. e[m] = 2 * h[m - 1] /\ h[m - 1] \in Nat
    BY <2>1, <2>2 DEF Waits
  <2>5. e \in [0..m -> Nat]
    <3>1. \A i \in 0..m : e[i] \in Nat
      <4> SUFFICES ASSUME NEW i \in 0..m PROVE e[i] \in Nat
        OBVIOUS
      <4>1. CASE i = m
        BY <2>4, <4>1
      <4>2. CASE i # m
        <5>1. i \in 0..(m - 1)
          BY <2>1, <4>2
        <5> QED BY <2>3, <5>1
      <4> QED BY <4>1, <4>2
    <3>2. e = [i \in 0..m |-> e[i]]
      OBVIOUS
    <3> HIDE DEF e
    <3> QED BY <3>1, <3>2
  <2>6. \A i \in 1..m : e[i] = 2 * e[i - 1]
    <3> SUFFICES ASSUME NEW i \in 1..m PROVE e[i] = 2 * e[i - 1]
      OBVIOUS
    <3>1. i - 1 \in 0..(m - 1)
      BY <2>1
    <3>2. CASE i = m
      BY <2>3, <2>4, <3>1, <3>2
    <3>3. CASE i # m
      BY <2>1, <2>2, <2>3, <3>1, <3>3 DEF Waits
    <3> QED BY <3>2, <3>3
  <2>7. e[0] = 1
    BY <2>1, <2>2, <2>3 DEF Waits
  <2> HIDE DEF e
  <2>8. Waits(e, m)
    BY <2>5, <2>6, <2>7 DEF Waits
  <2> QED BY <2>8
<1> QED BY <1>2, <1>3

\* ... and only one choice of them.
LEMMA WaitsUnique ==
    ASSUME NEW k \in Nat, NEW l \in Nat, k <= l, NEW h, Waits(h, k), NEW e, Waits(e, l)
    PROVE  \A i \in 0..k : h[i] = e[i]
<1> DEFINE T == {i \in 0..k : h[i] # e[i]}
<1> SUFFICES ASSUME T # {} PROVE FALSE
  OBVIOUS
<1>1. PICK m \in T : \A y \in T : m <= y
  <2>1. T \subseteq Nat
    OBVIOUS
  <2> HIDE DEF T
  <2> QED BY <2>1, LowestNumber
<1>2. m # 0
  BY DEF Waits
<1>3. m - 1 \in 0..k /\ m - 1 \notin T
  BY <1>1, <1>2
<1>4. h[m - 1] = e[m - 1]
  BY <1>3
<1>5. h[m] = 2 * h[m - 1] /\ e[m] = 2 * e[m - 1]
  BY <1>2 DEF Waits
<1> QED BY <1>4, <1>5

\* The recursive definition defines what it says.
LEMMA DelayDef == Delay = [n \in Nat |-> IF n = 0 THEN 1 ELSE 2 * Delay[n - 1]]
<1> DEFINE H(k) == CHOOSE h : Waits(h, k)
           G == [n \in Nat |-> H(n)[n]]
<1>1. \A k \in Nat : Waits(H(k), k)
  BY WaitsExist
<1> HIDE DEF H
<1>2. \A n \in Nat : G[n] = IF n = 0 THEN 1 ELSE 2 * G[n - 1]
  <2> SUFFICES ASSUME NEW n \in Nat PROVE G[n] = IF n = 0 THEN 1 ELSE 2 * G[n - 1]
    OBVIOUS
  <2>1. CASE n = 0
    BY <1>1, <2>1 DEF Waits
  <2>2. CASE n # 0
    <3>1. n - 1 \in Nat /\ n - 1 <= n
      BY <2>2
    <3>2. H(n - 1)[n - 1] = H(n)[n - 1]
      BY <1>1, <3>1, WaitsUnique
    <3>3. H(n)[n] = 2 * H(n)[n - 1]
      BY <1>1, <2>2 DEF Waits
    <3> QED BY <2>2, <3>1, <3>2, <3>3
  <2> QED BY <2>1, <2>2
<1>3. G = [n \in Nat |-> IF n = 0 THEN 1 ELSE 2 * G[n - 1]]
  BY <1>2
<1> HIDE DEF G
<1> QED BY <1>3 DEF Delay

\* Every wait takes time.
LEMMA DelayIsTime == \A n \in Nat : Delay[n] \in Nat
<1> DEFINE T == {n \in Nat : Delay[n] \notin Nat}
<1> SUFFICES ASSUME T # {} PROVE FALSE
  OBVIOUS
<1>1. PICK m \in T : \A y \in T : m <= y
  <2>1. T \subseteq Nat
    OBVIOUS
  <2> HIDE DEF T
  <2> QED BY <2>1, LowestNumber
<1>2. Delay[m] = IF m = 0 THEN 1 ELSE 2 * Delay[m - 1]
  BY DelayDef
<1>3. m # 0
  BY <1>2
<1>4. m - 1 \in Nat /\ m - 1 \notin T
  BY <1>1, <1>3
<1>5. Delay[m - 1] \in Nat
  BY <1>4
<1> QED BY <1>2, <1>3, <1>5

-----------------------------------------------------------------------------
(* The deadline of an acquisition. *)

\* What is kept back for the references after r.
Back(r) == (References - r) * (Pull + Inspect)

\* Inspecting all references is quick, and before every reference the time
\* of the ones after it is left.
InTime(f) ==
    /\ acq[f].used <= Deadline
    /\ proc[f].pc = "inspect" =>
         acq[f].used <= Inspect * (acq[f].ref - 1) /\ acq[f].attempt = 1
    /\ proc[f].pc \in {"pull", "wait"} => acq[f].used + Back(acq[f].ref) <= Deadline
    /\ proc[f].pc = "pull" /\ acq[f].ref > 1 /\ acq[f].attempt = 1 =>
         acq[f].used + Back(acq[f].ref) + Pull <= Deadline
    /\ proc[f].pc = "wait" => acq[f].attempt < Attempts

\* A fresh acquisition is within its time.
LEMMA FreshTime ==
    ASSUME ProcOK, AcqOK, NEW f \in Fixtures, acq' = [acq EXCEPT ![f] = Fresh],
           proc'[f].pc \notin {"pull", "wait"}
    PROVE  AcqOK' /\ InTime(f)' /\ \A g \in Fixtures \ {f} : acq'[g] = acq[g]
<1>1. Fresh \in [ref: 1..References, attempt: 1..Attempts, used: Nat]
  BY ImagesConstants DEF Fresh
<1>2. AcqOK' /\ acq'[f] = Fresh /\ \A g \in Fixtures \ {f} : acq'[g] = acq[g]
  BY <1>1 DEF AcqOK
<1> QED BY <1>2, ImagesConstants DEF InTime, Fresh, Inspect

\* An acquisition that nobody works on is within its time.
LEMMA RestTime ==
    ASSUME AcqOK, NEW f \in Fixtures, InTime(f), acq' = acq,
           proc'[f].pc \notin {"inspect", "pull", "wait"}
    PROVE  AcqOK' /\ InTime(f)' /\ \A g \in Fixtures \ {f} : acq'[g] = acq[g]
  BY DEF AcqOK, InTime

\* A failed reference leaves the time kept back for the ones after it.
LEMMA NextReferenceTime ==
    ASSUME ProcOK, AcqOK, NEW f \in Fixtures, NEW t \in Nat, NextReference(f, t),
           proc[f].pc \in {"pull", "wait"}, InTime(f),
           acq[f].used + t + Back(acq[f].ref) <= Deadline
    PROVE  AcqOK' /\ InTime(f)' /\ \A g \in Fixtures \ {f} : acq'[g] = acq[g]
<1> USE ImagesConstants
<1>1. /\ acq[f].ref \in 1..References /\ acq[f].attempt \in 1..Attempts /\ acq[f].used \in Nat
  BY DEF AcqOK
<1>2. CASE acq[f].ref < References
  <2> DEFINE n == [ref |-> acq[f].ref + 1, attempt |-> 1, used |-> acq[f].used + t]
  <2>1. acq' = [acq EXCEPT ![f] = n] /\ Go(f, "pull")
    BY <1>2 DEF NextReference
  <2>2. n \in [ref: 1..References, attempt: 1..Attempts, used: Nat]
    BY <1>1, <1>2
  <2>3. n.ref = acq[f].ref + 1 /\ n.attempt = 1 /\ n.used = acq[f].used + t
    OBVIOUS
  <2> HIDE DEF n
  <2>4. AcqOK' /\ acq'[f] = n /\ \A g \in Fixtures \ {f} : acq'[g] = acq[g]
    BY <2>1, <2>2 DEF AcqOK
  <2>5. proc'[f].pc = "pull"
    BY <2>1, GoEffect, StepNames
  <2>6. Back(acq[f].ref) = Back(n.ref) + Pull + Inspect /\ Back(n.ref) \in Nat
    BY <1>1, <1>2, <2>3 DEF Back, Pull, Inspect
  <2> QED BY <1>1, <2>3, <2>4, <2>5, <2>6 DEF InTime, Pull, Inspect
<1>3. CASE acq[f].ref >= References
  <2>1. acq' = [acq EXCEPT ![f] = Fresh] /\ End(f, "failed")
    BY <1>1, <1>3 DEF NextReference
  <2>2. Fresh \in [ref: 1..References, attempt: 1..Attempts, used: Nat]
    BY DEF Fresh
  <2>3. AcqOK' /\ acq'[f] = Fresh /\ \A g \in Fixtures \ {f} : acq'[g] = acq[g]
    BY <2>1, <2>2 DEF AcqOK
  <2>4. proc'[f].pc = "idle"
    BY <2>1, EndEffect
  <2> QED BY <2>3, <2>4 DEF InTime, Fresh
<1> QED BY <1>1, <1>2, <1>3

\* The steps of an acquisition keep it within its deadline.
LEMMA InspectTime ==
    ASSUME ProcOK, AcqOK, NEW f \in Fixtures, InTime(f), InspectReference(f)
    PROVE  AcqOK' /\ InTime(f)' /\ \A g \in Fixtures \ {f} : acq'[g] = acq[g]
<1> USE ImagesConstants
<1>1. /\ acq[f].ref \in 1..References /\ acq[f].attempt \in 1..Attempts /\ acq[f].used \in Nat
      /\ proc[f].pc = "inspect"
  BY DEF AcqOK, InspectReference, At
<1>2. /\ acq[f].used <= Inspect * (acq[f].ref - 1) /\ acq[f].used <= Deadline
      /\ acq[f].attempt = 1
  BY <1>1 DEF InTime
<1>3. CASE pinned
  <2>1. Go(f, "begin") /\ acq' = [acq EXCEPT ![f] = Fresh]
    BY <1>3 DEF InspectReference
  <2> QED BY <2>1, FreshTime, GoEffect, StepNames
<1>4. CASE ~pinned
  <2>1. PICK t \in {0, Least(Inspect, Left(f))} :
          IF acq[f].ref < References
            THEN /\ acq' = [acq EXCEPT ![f].used = @ + t, ![f].ref = @ + 1]
                 /\ UNCHANGED proc
            ELSE /\ acq' = [acq EXCEPT ![f].used = @ + t, ![f].ref = 1]
                 /\ Go(f, "pull")
    BY <1>4 DEF InspectReference
  <2>2. t \in Nat /\ t <= Inspect /\ acq[f].used + t <= Deadline
    BY <1>1, <1>2 DEF Least, Left, Inspect
  <2>3. CASE acq[f].ref < References
    <3>1. acq' = [acq EXCEPT ![f].used = @ + t, ![f].ref = @ + 1] /\ proc' = proc
      BY <2>1, <2>3
    <3>2. /\ AcqOK' /\ \A g \in Fixtures \ {f} : acq'[g] = acq[g]
          /\ acq'[f].used = acq[f].used + t /\ acq'[f].ref = acq[f].ref + 1
          /\ acq'[f].attempt = acq[f].attempt
      BY <1>1, <2>2, <2>3, <3>1 DEF AcqOK
    <3>3. acq[f].used + t <= Inspect * ((acq[f].ref + 1) - 1)
      BY <1>1, <1>2, <2>2 DEF Inspect
    <3>4. proc'[f].pc = "inspect"
      BY <1>1, <3>1
    <3> QED BY <1>2, <2>2, <3>2, <3>3, <3>4 DEF InTime
  <2>4. CASE acq[f].ref >= References
    <3>1. acq' = [acq EXCEPT ![f].used = @ + t, ![f].ref = 1] /\ Go(f, "pull")
      BY <1>1, <2>1, <2>4
    <3>2. /\ AcqOK' /\ \A g \in Fixtures \ {f} : acq'[g] = acq[g]
          /\ acq'[f].used = acq[f].used + t /\ acq'[f].ref = 1
      <4>1. acq[f].used + t \in Nat /\ 1 \in 1..References
        BY <1>1, <2>2
      <4> QED BY <3>1, <4>1 DEF AcqOK
    <3>3. proc'[f].pc = "pull"
      BY <3>1, GoEffect, StepNames
    <3>4. acq[f].used + t + Back(1) <= Deadline
      BY <1>1, <1>2, <2>2 DEF Back, Inspect, Pull
    <3> QED BY <1>1, <2>2, <3>2, <3>3, <3>4 DEF InTime
  <2> QED BY <1>1, <2>3, <2>4
<1> QED BY <1>3, <1>4

\* What is left to the reference that is being pulled.
LEMMA ReferenceLeftIs ==
    ASSUME AcqOK, NEW f \in Fixtures, acq[f].used + Back(acq[f].ref) <= Deadline
    PROVE  /\ ReferenceLeft(f) = Deadline - acq[f].used - Back(acq[f].ref)
           /\ ReferenceLeft(f) \in Nat
<1> USE ImagesConstants
<1>1. acq[f].ref \in 1..References /\ acq[f].used \in Nat
  BY DEF AcqOK
<1>2. Back(acq[f].ref) \in Nat
  BY <1>1 DEF Back, Pull, Inspect
<1> QED BY <1>1, <1>2 DEF ReferenceLeft, Left, Back, Pull, Inspect

\* A pull takes no more than what is left to its reference.
LEMMA PullTime ==
    ASSUME ProcOK, AcqOK, NEW f \in Fixtures, InTime(f), PullReference(f)
    PROVE  AcqOK' /\ InTime(f)' /\ \A g \in Fixtures \ {f} : acq'[g] = acq[g]
<1> USE ImagesConstants
<1>1. /\ acq[f].ref \in 1..References /\ acq[f].attempt \in 1..Attempts /\ acq[f].used \in Nat
      /\ proc[f].pc = "pull"
  BY DEF AcqOK, PullReference, At
<1>2. acq[f].used + Back(acq[f].ref) <= Deadline /\ Back(acq[f].ref) \in Nat
  BY <1>1 DEF InTime, Back, Pull, Inspect
<1>3. ReferenceLeft(f) = Deadline - acq[f].used - Back(acq[f].ref) /\ ReferenceLeft(f) \in Nat
  BY <1>2, ReferenceLeftIs
<1>4. CASE NextReference(f, 0)
  BY <1>1, <1>2, <1>4, NextReferenceTime
<1>5. ASSUME NEW t \in {0, Least(Pull, ReferenceLeft(f))},
             \/ acq' = [acq EXCEPT ![f] = Fresh] /\ Go(f, "begin")
             \/ NextReference(f, t)
             \/ acq[f].attempt < Attempts /\ acq' = [acq EXCEPT ![f].used = @ + t] /\ Go(f,
                     "wait")
      PROVE  AcqOK' /\ InTime(f)' /\ \A g \in Fixtures \ {f} : acq'[g] = acq[g]
  <2>1. t \in Nat /\ acq[f].used + t + Back(acq[f].ref) <= Deadline
    BY <1>1, <1>2, <1>3 DEF Least, Pull
  <2>2. CASE acq' = [acq EXCEPT ![f] = Fresh] /\ Go(f, "begin")
    BY <2>2, FreshTime, GoEffect, StepNames
  <2>3. CASE NextReference(f, t)
    BY <1>1, <2>1, <2>3, NextReferenceTime
  <2>4. CASE acq[f].attempt < Attempts /\ acq' = [acq EXCEPT ![f].used = @ + t] /\ Go(f, "wait")
    <3>1. /\ AcqOK' /\ \A g \in Fixtures \ {f} : acq'[g] = acq[g]
          /\ acq'[f].used = acq[f].used + t /\ acq'[f].ref = acq[f].ref
          /\ acq'[f].attempt = acq[f].attempt
      BY <1>1, <2>1, <2>4 DEF AcqOK
    <3>2. proc'[f].pc = "wait"
      BY <2>4, GoEffect, StepNames
    <3> QED BY <1>1, <1>2, <2>1, <2>4, <3>1, <3>2 DEF InTime
  <2> QED BY <1>5, <2>2, <2>3, <2>4
<1>6. \/ NextReference(f, 0)
      \/ \E t \in {0, Least(Pull, ReferenceLeft(f))} :
            \/ acq' = [acq EXCEPT ![f] = Fresh] /\ Go(f, "begin")
            \/ NextReference(f, t)
            \/ acq[f].attempt < Attempts /\ acq' = [acq EXCEPT ![f].used = @ + t] /\ Go(f,
                    "wait")
  BY DEF PullReference
<1> QED BY <1>4, <1>5, <1>6

\* A wait ends before the deadline of its reference.
LEMMA BackoffTime ==
    ASSUME ProcOK, AcqOK, NEW f \in Fixtures, InTime(f), Backoff(f)
    PROVE  AcqOK' /\ InTime(f)' /\ \A g \in Fixtures \ {f} : acq'[g] = acq[g]
<1> USE ImagesConstants
<1>1. /\ acq[f].ref \in 1..References /\ acq[f].attempt \in 1..Attempts /\ acq[f].used \in Nat
      /\ proc[f].pc = "wait" /\ acq[f].attempt - 1 \in Nat
  BY DEF AcqOK, Backoff, At
<1>2. /\ acq[f].used + Back(acq[f].ref) <= Deadline /\ Back(acq[f].ref) \in Nat
      /\ acq[f].attempt < Attempts
  BY <1>1 DEF InTime, Back, Pull, Inspect
<1>3. ReferenceLeft(f) = Deadline - acq[f].used - Back(acq[f].ref) /\ ReferenceLeft(f) \in Nat
  BY <1>2, ReferenceLeftIs
<1>4. PICK jitter \in {0, 1} :
        IF Delay[acq[f].attempt - 1] + jitter >= ReferenceLeft(f)
          THEN NextReference(f, 0)
          ELSE /\ acq' = [acq EXCEPT ![f].used = @ + (Delay[acq[f].attempt - 1] + jitter),
                                     ![f].attempt = @ + 1]
               /\ Go(f, "pull")
  BY DEF Backoff
<1> DEFINE d == Delay[acq[f].attempt - 1] + jitter
<1>5. d \in Nat
  BY <1>1, DelayIsTime
<1> HIDE DEF d
<1>6. CASE d >= ReferenceLeft(f)
  <2>1. NextReference(f, 0)
    BY <1>4, <1>6 DEF d
  <2> QED BY <1>1, <1>2, <2>1, NextReferenceTime
<1>7. CASE d < ReferenceLeft(f)
  <2>1. acq' = [acq EXCEPT ![f].used = @ + d, ![f].attempt = @ + 1] /\ Go(f, "pull")
    <3>1. ~ (d >= ReferenceLeft(f))
      BY <1>3, <1>5, <1>7
    <3> QED BY <1>4, <3>1 DEF d
  <2>2. /\ AcqOK' /\ \A g \in Fixtures \ {f} : acq'[g] = acq[g]
        /\ acq'[f].used = acq[f].used + d /\ acq'[f].ref = acq[f].ref
        /\ acq'[f].attempt = acq[f].attempt + 1
    BY <1>1, <1>2, <1>5, <2>1 DEF AcqOK
  <2>3. proc'[f].pc = "pull"
    BY <2>1, GoEffect, StepNames
  <2> QED BY <1>1, <1>2, <1>3, <1>5, <1>7, <2>2, <2>3 DEF InTime
<1> QED BY <1>3, <1>5, <1>6, <1>7

\* Every step keeps the time.
LEMMA DoesTime ==
    ASSUME ProcOK, AcqOK, NEW f \in Fixtures, InTime(f), Does(f)
    PROVE  AcqOK' /\ InTime(f)' /\ \A g \in Fixtures \ {f} : acq'[g] = acq[g]
<1>1. CASE Start(f, "inspect")
  <2>1. acq' = [acq EXCEPT ![f] = Fresh] /\ proc'[f].pc \notin {"pull", "wait"}
    BY <1>1 DEF Start, ProcOK
  <2> QED BY <2>1, FreshTime
<1>2. CASE Start(f, "validate")
  <2>1. acq' = [acq EXCEPT ![f] = Fresh] /\ proc'[f].pc \notin {"pull", "wait"}
    BY <1>2 DEF Start, ProcOK
  <2> QED BY <2>1, FreshTime
<1>3. CASE InspectReference(f)
  BY <1>3, InspectTime
<1>4. CASE PullReference(f)
  BY <1>4, PullTime
<1>5. CASE Backoff(f)
  BY <1>5, BackoffTime
<1>6. CASE Die(f)
  <2>1. acq' = [acq EXCEPT ![f] = Fresh] /\ proc'[f].pc \notin {"pull", "wait"}
    BY <1>6, EndEffect DEF Die
  <2> QED BY <2>1, FreshTime
<1>7. CASE Recover(f)
  <2>1. acq' = acq /\ proc'[f].pc \notin {"inspect", "pull", "wait"}
    BY <1>7, GoEffect, EndEffect, StepNames DEF Recover, At
  <2> QED BY <2>1, RestTime
<1>8. CASE Begin(f)
  <2>1. acq' = acq /\ proc'[f].pc \notin {"inspect", "pull", "wait"}
    BY <1>8, GoEffect, EndEffect, StepNames DEF Begin, At
  <2> QED BY <2>1, RestTime
<1>9. CASE Build(f)
  <2>1. acq' = acq /\ proc'[f].pc \notin {"inspect", "pull", "wait"}
    BY <1>9, GoEffect, EndEffect, StepNames DEF Build, At
  <2> QED BY <2>1, RestTime
<1>10. CASE JournalPending(f)
  <2>1. acq' = acq /\ proc'[f].pc \notin {"inspect", "pull", "wait"}
    BY <1>10, GoEffect, EndEffect, StepNames DEF JournalPending, At
  <2> QED BY <2>1, RestTime
<1>11. CASE CheckTag(f)
  <2>1. acq' = acq /\ proc'[f].pc \notin {"inspect", "pull", "wait"}
    BY <1>11, GoEffect, EndEffect, StepNames DEF CheckTag, At
  <2> QED BY <2>1, RestTime
<1>12. CASE PublishTag(f)
  <2>1. acq' = acq /\ proc'[f].pc \notin {"inspect", "pull", "wait"}
    BY <1>12, GoEffect, EndEffect, StepNames DEF PublishTag, At
  <2> QED BY <2>1, RestTime
<1>13. CASE JournalBuilt(f)
  <2>1. acq' = acq /\ proc'[f].pc \notin {"inspect", "pull", "wait"}
    BY <1>13, GoEffect, EndEffect, StepNames DEF JournalBuilt, At
  <2> QED BY <2>1, RestTime
<1>14. CASE RemovePendingTag(f)
  <2>1. acq' = acq /\ proc'[f].pc \notin {"inspect", "pull", "wait"}
    BY <1>14, GoEffect, EndEffect, StepNames DEF RemovePendingTag, At
  <2> QED BY <2>1, RestTime
<1>15. CASE ClearPending(f)
  <2>1. acq' = acq /\ proc'[f].pc \notin {"inspect", "pull", "wait"}
    BY <1>15, GoEffect, EndEffect, StepNames DEF ClearPending, At
  <2> QED BY <2>1, RestTime
<1>16. CASE CachedChart(f)
  <2>1. acq' = acq /\ proc'[f].pc \notin {"inspect", "pull", "wait"}
    BY <1>16, GoEffect, EndEffect, StepNames DEF CachedChart, At
  <2> QED BY <2>1, RestTime
<1>17. CASE PublishArchive(f)
  <2>1. acq' = acq /\ proc'[f].pc \notin {"inspect", "pull", "wait"}
    BY <1>17, GoEffect, EndEffect, StepNames DEF PublishArchive, At
  <2> QED BY <2>1, RestTime
<1>18. CASE PublishManifest(f)
  <2>1. acq' = acq /\ proc'[f].pc \notin {"inspect", "pull", "wait"}
    BY <1>18, GoEffect, EndEffect, StepNames DEF PublishManifest, At
  <2> QED BY <2>1, RestTime
<1>19. CASE Validate(f)
  <2>1. acq' = acq /\ proc'[f].pc \notin {"inspect", "pull", "wait"}
    BY <1>19, GoEffect, EndEffect, StepNames DEF Validate, At
  <2> QED BY <2>1, RestTime
<1>20. CASE Restore(f)
  <2>1. acq' = acq /\ proc'[f].pc \notin {"inspect", "pull", "wait"}
    BY <1>20, GoEffect, EndEffect, StepNames DEF Restore, At
  <2> QED BY <2>1, RestTime
<1>21. CASE RemoveTemporary(f)
  <2>1. acq' = acq /\ proc'[f].pc \notin {"inspect", "pull", "wait"}
    BY <1>21, GoEffect, EndEffect, StepNames DEF RemoveTemporary, At
  <2> QED BY <2>1, RestTime
<1>22. CASE RemoveState(f)
  <2>1. acq' = acq /\ proc'[f].pc \notin {"inspect", "pull", "wait"}
    BY <1>22, GoEffect, EndEffect, StepNames DEF RemoveState, At
  <2> QED BY <2>1, RestTime
<1> QED BY <1>1, <1>2, <1>3, <1>4, <1>5, <1>6, <1>7, <1>8, <1>9, <1>10, <1>11, <1>12, <1>13,
        <1>14, <1>15, <1>16, <1>17, <1>18, <1>19, <1>20, <1>21, <1>22 DEF Step, Does

\* The inductive invariant of the clock.
Timed == ProcOK /\ AcqOK /\ \A f \in Fixtures : InTime(f)

\* The first state.
LEMMA InitTimed == Init => Timed
<1> SUFFICES ASSUME Init PROVE Timed
  OBVIOUS
<1>1. ProcOK /\ \A f \in Fixtures : proc[f].pc \in {"idle", "unused"}
  BY StepNames DEF Init, ProcOK
<1>2. AcqOK /\ \A f \in Fixtures : acq[f] = Fresh
  BY ImagesConstants DEF Init, AcqOK, Fresh
<1> QED BY <1>1, <1>2, ImagesConstants DEF Timed, InTime, Fresh

\* Every step keeps it.
LEMMA NextTimed == Timed /\ [Next]_vars => Timed'
<1> SUFFICES ASSUME Timed, [Next]_vars PROVE Timed'
  OBVIOUS
<1>1. CASE Next
  <2>1. PICK f \in Fixtures : Does(f)
    BY <1>1, NextDoes
  <2>2. /\ ProcOK' /\ AcqOK' /\ InTime(f)'
        /\ \A g \in Fixtures \ {f} : acq'[g] = acq[g] /\ proc'[g] = proc[g]
    BY <2>1, DoesTime, DoesProc DEF Timed
  <2>3. ASSUME NEW g \in Fixtures \ {f} PROVE InTime(g)'
    BY <2>2 DEF Timed, InTime
  <2> QED BY <2>2, <2>3 DEF Timed
<1>2. CASE UNCHANGED vars
  BY <1>2 DEF vars, Timed, ProcOK, AcqOK, InTime
<1> QED BY <1>1, <1>2

\* An acquisition never takes longer than its deadline, and whatever the references
\* before took, a reference that has to be pulled has a full pull before it
\* (acquire_pinned_image).
THEOREM AcquisitionInTime == Spec => []DeadlineKept
<1>1. Timed => DeadlineKept
  <2> SUFFICES ASSUME Timed, NEW f \in Fixtures
               PROVE  /\ acq[f].used <= Deadline
                      /\ At(f, "pull") /\ acq[f].ref > 1 /\ acq[f].attempt = 1 =>
                            ReferenceLeft(f) >= Pull
    BY DEF DeadlineKept
  <2>1. AcqOK /\ InTime(f)
    BY DEF Timed
  <2>2. ASSUME At(f, "pull"), acq[f].ref > 1, acq[f].attempt = 1
        PROVE  ReferenceLeft(f) >= Pull
    <3>1. /\ acq[f].used + Back(acq[f].ref) <= Deadline
          /\ acq[f].used + Back(acq[f].ref) + Pull <= Deadline
      BY <2>1, <2>2 DEF InTime, At
    <3>2. ReferenceLeft(f) = Deadline - acq[f].used - Back(acq[f].ref)
      BY <2>1, <3>1, ReferenceLeftIs
    <3>3. /\ acq[f].ref \in 1..References /\ acq[f].used \in Nat
      BY <2>1 DEF AcqOK
    <3> QED BY <3>1, <3>2, <3>3, ImagesConstants DEF Back, Pull, Inspect
  <2> QED BY <2>1, <2>2 DEF InTime
<1> QED BY <1>1, InitTimed, NextTimed, PTL DEF Spec

-----------------------------------------------------------------------------
(* The theorems about the tag. *)

\* A temporary tag is always one that the journal of its fixture knows, for any
\* number of fixtures that change the tag between each other's steps
\* (_begin_image_build, _recover_pending_image_build, _remove_harness_images).
THEOREM TemporariesJournaled == Spec => []TemporaryJournaled
<1>1. Init => Kept
  BY InitKept
<1>2. Kept => TemporaryJournaled
  BY DEF Kept, Consistent, TemporaryJournaled
<1> QED BY <1>1, <1>2, NextKept, PTL DEF Spec

\* The tag is given back to what it named before the first build, through deaths
\* anywhere in builds, recoveries and teardowns, whatever a build makes
\* (_publish_image_build, _remove_harness_images).
THEOREM PriorGivenBack == Spec => []PriorRestored
<1>1. Init => Whole
  BY InitKept DEF Whole
<1>2. Whole => PriorRestored
  BY DEF Whole, Sole, PriorRestored
<1> QED BY <1>1, <1>2, NextWhole, PTL DEF Spec

\* When no build makes the very image that was there before, a fixture alone on its
\* host is also never refused for what it left itself (_recover_pending_image_build,
\* _validate_image_ownership).
THEOREM TagGivenBack ==
    ASSUME Prior \notin Ids
    PROVE  Spec => []TagRestored
<1>1. Init => Welcomed /\ Timed
  BY InitKept, InitTimed DEF Welcomed, Whole
<1>2. Welcomed /\ Timed /\ [Next]_vars => Welcomed' /\ Timed'
  BY NextWelcomed, NextTimed
<1>3. Welcomed /\ Timed => TagRestored
  <2> SUFFICES ASSUME Welcomed, Timed PROVE TagRestored
    OBVIOUS
  <2>1. TypeOK
    BY TypeParts DEF Welcomed, Whole, Kept, Timed
  <2>2. PriorRestored /\ AloneNeverRefused
    BY DEF Welcomed, Welcome, Whole, Sole, PriorRestored, AloneNeverRefused
  <2>3. TemporaryJournaled
    BY DEF Welcomed, Whole, Kept, Consistent, TemporaryJournaled
  <2> QED BY <2>1, <2>2, <2>3 DEF TagRestored
<1> QED BY <1>1, <1>2, <1>3, PTL DEF Spec
=============================================================================
