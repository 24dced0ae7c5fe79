--------------------------- MODULE FixtureProofs ---------------------------
(***************************************************************************)
(* The host is given back and leftovers are known, for every number of     *)
(* fixtures, failures, reboots and second commands.  A command acts on     *)
(* what it validated some steps ago, and the next one only on what the     *)
(* journals say.  So the invariant says, for each step of a command, what  *)
(* its own files and resources are by then (Sound), that the fixture which *)
(* owns the host is the one that changes it (Holds), and what the host is  *)
(* by then (Kept).                                                         *)
(***************************************************************************)
EXTENDS Fixture, TLAPS

-----------------------------------------------------------------------------
(* The steps.                                                              *)

FreeSteps == {"unused", "idle", "bootstrap", "select", "invalidate", "lock"}
HostSteps == {"unmounted", "journal", "mkdir", "mark", "newimage", "copy", "detach",
              "replace", "mount", "cluster", "creating", "wait", "profile"}
ServiceSteps == {"sources", "exports", "daemon", "oldrule", "rule", "allow", "serve",
                 "headroom"}
InstallSteps == {"storage", "preclean", "probe", "cleanprobe", "ssh", "scaledown",
                 "slurm", "scaleup", "summary"}
BeginSteps == {"claim", "record", "packages", "tools", "discover"}
SharedSteps == {"shared", "makeshared"}
SetupSteps == BeginSteps \cup HostSteps \cup SharedSteps \cup ServiceSteps \cup InstallSteps
StopSteps == {"stopcluster", "stopservice", "stopped"}
RestoreSteps == {"unexport", "rmexports", "rmdaemon", "threads", "policy", "rmrule"}
ExportSteps == {"unmount", "emptyexport"}
LastSteps == {"rmmarker", "rmdir", "release"}
UndoSteps == RestoreSteps \cup ExportSteps \cup {"emptyroot", "contents"} \cup LastSteps

\* Steps that only one backend has.
NfsSteps == {"claim", "record", "unmounted", "journal", "mkdir", "mark", "newimage", "copy",
             "detach", "replace", "mount", "stopservice"}
            \cup ServiceSteps \cup RestoreSteps \cup ExportSteps

\* The command of every fixture has its parts.
IsProc(p) ==
    /\ p = [x \in {"pc", "cmd", "backend", "ours", "outcome", "warned"} |-> p[x]]
    /\ p.cmd \in Commands /\ p.backend \in {"nfs", "sbx-shared"}
    /\ p.ours \in SUBSET {"export", "host", "root"}
    /\ p.outcome \in Outcomes /\ p.warned \in BOOLEAN

ProcTyped == proc = [f \in Fixtures |-> proc[f]] /\ \A f \in Fixtures : IsProc(proc[f])

Typed ==
    /\ host \in Hosts
    /\ art \in [Fixtures -> Arts]
    /\ st \in [Fixtures -> Files]
    /\ ProcTyped
    /\ lock \in Fixtures \cup {None}
    /\ base \in Bases
    /\ faults \in 0..MaxFaults
    /\ late \in 0..MaxLate

-----------------------------------------------------------------------------
(* What the files and the resources of a fixture are at each step.         *)

\* Nothing of the fixture's own is in the place of the export or the root.
NoExport(f) == art[f].export \in {"absent", "foreign"} /\ ~art[f].mounted
NoRoot(f) == art[f].root \in {"absent", "foreign"}

\* Nothing is recorded in the state directory.
Emptied(f) ==
    /\ ~st[f].backend /\ ~st[f].profile /\ ~st[f].summary /\ ~st[f].cluster /\ ~st[f].journal
    /\ st[f].service = None /\ st[f].exports = None /\ ~st[f].daemon /\ st[f].ufw = None

\* A step belongs to a command and a backend.
Placed(f) ==
    /\ proc[f].pc \in SetupSteps \cup {"invalidate"} => proc[f].cmd = "setup"
    /\ proc[f].pc = "checkstop" => proc[f].cmd = "stop"
    /\ proc[f].pc \in StopSteps => proc[f].cmd \in {"stop", "teardown"}
    /\ proc[f].pc \in UndoSteps \cup {"validate"} => proc[f].cmd = "teardown"
    /\ proc[f].pc \in NfsSteps => Nfs(f)
    /\ proc[f].pc \in SharedSteps \cup {"emptyroot"} => ~Nfs(f)
    /\ Nfs(f) => NoRoot(f)
    /\ ~Nfs(f) => /\ NoExport(f) /\ art[f].image = "none" /\ art[f].new = "none"
                  /\ ~art[f].migration /\ st[f].service = None /\ ~st[f].daemon

\* The state directory and its marker.
Marked(f) ==
    /\ st[f].marker => st[f].dir
    /\ proc[f].pc \notin {"unused", "idle", "bootstrap", "rmdir", "release"} => st[f].marker
    /\ proc[f].pc \in {"rmdir", "release"} => ~st[f].marker
    /\ art[f].image # "none" \/ art[f].new # "none" => st[f].dir
    /\ proc[f].pc \in LastSteps => Emptied(f) /\ art[f].image = "none" /\ art[f].new = "none"

\* The cluster and its marker.
Clustered(f) ==
    /\ art[f].cluster \in {"partial", "stopped", "up"} => st[f].cluster
    /\ art[f].cluster = "foreign" => ~st[f].cluster
    /\ proc[f].pc \in SetupSteps \ BeginSteps => st[f].cluster
    /\ proc[f].pc \in {"stopservice", "stopped"} \cup UndoSteps =>
          art[f].cluster \in {"none", "foreign"}

\* The export, its journal and its image.
Exported(f) ==
    /\ art[f].export \in {"empty", "marked"} => st[f].journal
    /\ art[f].mounted => art[f].export = "marked" /\ art[f].image = "marked"
    /\ art[f].image # "empty"
    /\ proc[f].pc = "mkdir" => st[f].journal /\ art[f].export \in {"absent", "marked"}
    /\ proc[f].pc = "mark" => art[f].export \in {"empty", "marked"}
    /\ proc[f].pc \in {"newimage", "copy", "detach", "replace", "mount"} =>
          art[f].export = "marked"
    /\ proc[f].pc \in {"detach", "replace"} => art[f].new = "marked"
    /\ proc[f].pc = "mount" => art[f].image = "marked"
    /\ proc[f].pc \in RestoreSteps \cup StopSteps /\ proc[f].cmd = "teardown" =>
          IF "export" \in proc[f].ours THEN art[f].export \in {"empty", "marked"}
                                       ELSE NoExport(f)
    /\ proc[f].pc \in ExportSteps => art[f].export \in {"empty", "marked"}
    /\ proc[f].pc = "emptyexport" => ~art[f].mounted
    /\ proc[f].pc \in {"emptyroot", "contents"} \cup LastSteps => NoExport(f)

\* The shared root and its journal.
Rooted(f) ==
    /\ art[f].root \in {"empty", "marked"} => st[f].journal
    /\ ~NoRoot(f) => st[f].cluster
    /\ proc[f].pc = "makeshared" => st[f].journal /\ art[f].root # "foreign"
    /\ proc[f].pc \in StopSteps /\ proc[f].cmd = "teardown" =>
          ("root" \in proc[f].ours <=> ~NoRoot(f))
    /\ proc[f].pc = "emptyroot" => ~NoRoot(f)
    /\ proc[f].pc \in {"contents"} \cup LastSteps => NoRoot(f)

\* The summary, and what is installed.
Summarized(f) ==
    /\ proc[f].pc \in SetupSteps \/ (proc[f].pc = "lock" /\ proc[f].cmd = "setup") =>
          ~st[f].summary
    /\ proc[f].pc \in ServiceSteps \cup InstallSteps => st[f].profile
    /\ proc[f].pc \in InstallSteps \ {"storage"} => "storage" \in art[f].installed
    /\ proc[f].pc \in InstallSteps \ {"storage", "preclean", "cleanprobe"} =>
          "probe" \notin art[f].installed
    /\ proc[f].pc \in {"scaleup", "summary"} => "slurm" \in art[f].installed
    /\ proc[f].pc = "summary" => "ssh" \in art[f].installed
    /\ st[f].summary /\ art[f].cluster = "up" =>
          st[f].profile /\ art[f].installed = Components \ {"probe"}

\* What a teardown reported.
Reported(f) ==
    /\ proc[f].pc \notin {"unused", "idle"} => proc[f].outcome = "none"
    /\ proc[f].cmd = "teardown" =>
          /\ proc[f].outcome # "foreign"
          /\ proc[f].outcome = "unmarked" => "foreign" \in {art[f].export, art[f].root}

\* What the fixture rendered for the host.
Rendered(f) ==
    /\ st[f].exports # None => st[f].exports[1] = f
    /\ proc[f].pc = "exports" => st[f].exports # None
    /\ proc[f].pc \in {"exports", "daemon"} => st[f].daemon
    /\ Nfs(f) /\ proc[f].pc \in SetupSteps \ {"claim", "record"} => st[f].service # None

Sound(f) ==
    /\ Placed(f) /\ Marked(f) /\ Clustered(f) /\ Exported(f)
    /\ Rooted(f) /\ Summarized(f) /\ Reported(f) /\ Rendered(f)

-----------------------------------------------------------------------------
(* Who changes the host.                                                   *)

\* The fixture has something that only the owner of the host has.
Involved(f) ==
    \/ st[f].service # None \/ st[f].daemon
    \/ art[f].export \in {"empty", "marked"} \/ art[f].image # "none"

\* One command at a time is past the lock; it owns the host after its claim and
\* until it releases it, and a fixture that is involved owns it.
Holds(f) ==
    /\ Nfs(f) /\ proc[f].pc \notin FreeSteps => lock = f
    /\ Involved(f) => host.owner = f
    /\ host.owner = f => Nfs(f)
    /\ Nfs(f) /\ proc[f].pc \in SetupSteps \ {"claim"} => host.owner = f
    /\ proc[f].cmd = "teardown" /\ proc[f].pc \in StopSteps \cup UndoSteps =>
          ("host" \in proc[f].ours <=> host.owner = f)
    /\ proc[f].pc \in RestoreSteps => host.owner = f

-----------------------------------------------------------------------------
(* What the host is.                                                       *)

Warned == \E f \in Fixtures : proc[f].warned

\* The worker count, and the whole service, are as before the first setup.
CountKept == host.service.threads = base.threads \/ Warned
ServiceKept ==
    host.service.enabled = base.enabled /\ host.service.active = base.active /\ CountKept

\* Whatever is done to the service: it is never less than it was, it runs or starts
\* only where it is installed, and only a running one has workers.
Serving ==
    /\ base.active => host.service.active
    /\ base.enabled => host.service.enabled
    /\ host.service.active \/ host.service.enabled => host.service.exists
    /\ ~host.service.active => host.service.threads = 0

\* What the owner recorded of the service.
ServiceRecorded(f) ==
    LET rec == st[f].service
    IN  IF rec = None THEN ServiceKept
        ELSE /\ rec.active = base.active /\ rec.enabled = base.enabled
             /\ rec.active => rec.threads \in {0, base.threads} \/ Warned
             /\ rec.active /\ rec.threads = 0 => CountKept

\* What the owner installed.
Installed(f) ==
    /\ host.exports # None => host.exports[1] = f /\ st[f].exports # None
    /\ host.daemon => st[f].daemon

\* The rule of the owner is the recorded one.
Recorded(f, n) == st[f].ufw # None /\ st[f].ufw.mine /\ st[f].ufw.subnet = n

Ruled(f) ==
    /\ \A n \in host.rules : Recorded(f, n)
    /\ ~host.ufw => host.rules = {}
    /\ proc[f].pc = "rule" =>
          (host.ufw /\ st[f].ufw # None /\ st[f].ufw.mine => st[f].ufw.subnet = host.subnet)
    /\ proc[f].pc = "allow" /\ host.ufw => Recorded(f, host.subnet)

\* How far the teardown of the owner has come: what it has undone by each step.
AfterRule == ExportSteps \cup {"contents"} \cup LastSteps
AfterPolicy == {"rmrule"} \cup AfterRule
AfterThreads == {"policy"} \cup AfterPolicy
AfterDaemon == {"threads"} \cup AfterThreads
AfterExports == {"rmdaemon"} \cup AfterDaemon
AfterUnexport == {"rmexports"} \cup AfterExports
AfterStop == {"stopped", "unexport"} \cup AfterUnexport

Undone(f) ==
    /\ proc[f].pc \in AfterStop /\ ~base.active => ~host.service.active
    /\ proc[f].pc \in AfterUnexport => host.exported = None
    /\ proc[f].pc \in AfterExports => host.exports = None
    /\ proc[f].pc \in AfterDaemon => ~host.daemon
    /\ proc[f].pc \in AfterThreads => CountKept
    /\ proc[f].pc \in AfterPolicy => host.service.enabled = base.enabled
    /\ proc[f].pc \in AfterRule => host.rules = {}

\* How far the setup of the owner has come.
ReadySteps == SetupSteps \ {"claim", "record", "packages"}

Done(f) ==
    /\ proc[f].pc \in ReadySteps => host.service.exists
    /\ proc[f].pc = "headroom" => host.service.active

Accounted(f) == ServiceRecorded(f) /\ Installed(f) /\ Ruled(f) /\ Undone(f) /\ Done(f)

\* A host without an owner.
Unowned ==
    /\ host.exports = None /\ host.exported = None /\ host.rules = {}
    /\ ServiceKept

Kept ==
    /\ Serving
    /\ host.owner = None => Unowned
    /\ \A f \in Fixtures : host.owner = f => Accounted(f)

FixtureInv == Typed /\ (\A f \in Fixtures : Sound(f) /\ Holds(f)) /\ Kept

-----------------------------------------------------------------------------
(* What the moves of a command do.                                         *)

\* A step writes the command of one fixture.
LEMMA ProcWrite ==
    ASSUME ProcTyped, NEW f \in Fixtures
    PROVE  \A p : IsProc(p) /\ proc' = [proc EXCEPT ![f] = p] =>
              ProcTyped' /\ proc'[f] = p /\ \A g \in Fixtures \ {f} : proc'[g] = proc[g]
  BY DEF ProcTyped

\* The command is the one it was.
SameCommand(f) ==
    /\ proc'[f].cmd = proc[f].cmd /\ proc'[f].backend = proc[f].backend
    /\ proc'[f].ours = proc[f].ours /\ proc'[f].outcome = proc[f].outcome

\* The files, and the resources, but for some are what they were.
FilesBut(f, fields) ==
    /\ "dir" \notin fields => st'[f].dir = st[f].dir
    /\ "marker" \notin fields => st'[f].marker = st[f].marker
    /\ "dirs" \notin fields => st'[f].dirs = st[f].dirs
    /\ "backend" \notin fields => st'[f].backend = st[f].backend
    /\ "profile" \notin fields => st'[f].profile = st[f].profile
    /\ "summary" \notin fields => st'[f].summary = st[f].summary
    /\ "cluster" \notin fields => st'[f].cluster = st[f].cluster
    /\ "journal" \notin fields => st'[f].journal = st[f].journal
    /\ "service" \notin fields => st'[f].service = st[f].service
    /\ "exports" \notin fields => st'[f].exports = st[f].exports
    /\ "daemon" \notin fields => st'[f].daemon = st[f].daemon
    /\ "ufw" \notin fields => st'[f].ufw = st[f].ufw

ArtBut(f, fields) ==
    /\ "export" \notin fields => art'[f].export = art[f].export
    /\ "mounted" \notin fields => art'[f].mounted = art[f].mounted
    /\ "image" \notin fields => art'[f].image = art[f].image
    /\ "new" \notin fields => art'[f].new = art[f].new
    /\ "migration" \notin fields => art'[f].migration = art[f].migration
    /\ "root" \notin fields => art'[f].root = art[f].root
    /\ "cluster" \notin fields => art'[f].cluster = art[f].cluster
    /\ "installed" \notin fields => art'[f].installed = art[f].installed

\* Going on, and leaving, touch the step, the outcome and no other fixture.
LEMMA GoEffect ==
    ASSUME ProcTyped, NEW f \in Fixtures
    PROVE  \A p : Go(f, p) =>
              /\ ProcTyped'
              /\ proc'[f].pc = p /\ proc'[f].cmd = proc[f].cmd
              /\ proc'[f].backend = proc[f].backend /\ proc'[f].ours = proc[f].ours
              /\ proc'[f].outcome = proc[f].outcome /\ proc'[f].warned = proc[f].warned
              /\ \A g \in Fixtures \ {f} : proc'[g] = proc[g]
<1> SUFFICES ASSUME NEW p, Go(f, p)
    PROVE  /\ ProcTyped'
           /\ proc'[f].pc = p /\ proc'[f].cmd = proc[f].cmd
           /\ proc'[f].backend = proc[f].backend /\ proc'[f].ours = proc[f].ours
           /\ proc'[f].outcome = proc[f].outcome /\ proc'[f].warned = proc[f].warned
           /\ \A g \in Fixtures \ {f} : proc'[g] = proc[g]
  OBVIOUS
<1>1. proc' = [proc EXCEPT ![f] = [proc[f] EXCEPT !.pc = p]]
  BY DEF Go
<1>2. IsProc(proc[f])
  BY DEF ProcTyped
<1>3. IsProc([proc[f] EXCEPT !.pc = p])
  BY <1>2 DEF IsProc
<1>4. proc'[f] = [proc[f] EXCEPT !.pc = p]
  BY <1>1, <1>3, ProcWrite
<1> QED BY <1>1, <1>2, <1>3, <1>4, ProcWrite DEF IsProc

\* A command that leaves gives the lock up.
LEMMA LeaveEffect ==
    ASSUME ProcTyped, lock \in Fixtures \cup {None}, NEW f \in Fixtures
    PROVE  \A o \in Outcomes : Leave(f, o) =>
              /\ ProcTyped' /\ lock' \in Fixtures \cup {None}
              /\ proc'[f].pc = "idle" /\ proc'[f].cmd = proc[f].cmd
              /\ proc'[f].backend = proc[f].backend /\ proc'[f].ours = proc[f].ours
              /\ proc'[f].outcome = o /\ proc'[f].warned = proc[f].warned
              /\ \A g \in Fixtures \ {f} : proc'[g] = proc[g]
              /\ lock' = IF lock = f THEN None ELSE lock
<1> SUFFICES ASSUME NEW o \in Outcomes, Leave(f, o)
    PROVE  /\ ProcTyped' /\ lock' \in Fixtures \cup {None}
           /\ proc'[f].pc = "idle" /\ proc'[f].cmd = proc[f].cmd
           /\ proc'[f].backend = proc[f].backend /\ proc'[f].ours = proc[f].ours
           /\ proc'[f].outcome = o /\ proc'[f].warned = proc[f].warned
           /\ \A g \in Fixtures \ {f} : proc'[g] = proc[g]
           /\ lock' = IF lock = f THEN None ELSE lock
  OBVIOUS
<1>1. /\ lock' = IF lock = f THEN None ELSE lock
      /\ proc' = [proc EXCEPT ![f] = [proc[f] EXCEPT !.pc = "idle", !.outcome = o]]
  BY DEF Leave
<1>2. IsProc(proc[f])
  BY DEF ProcTyped
<1>3. IsProc([proc[f] EXCEPT !.pc = "idle", !.outcome = o])
  BY <1>2 DEF IsProc
<1>4. proc'[f] = [proc[f] EXCEPT !.pc = "idle", !.outcome = o]
  BY <1>1, <1>3, ProcWrite
<1>5. ProcTyped' /\ \A g \in Fixtures \ {f} : proc'[g] = proc[g]
  BY <1>1, <1>3, ProcWrite
<1>6. /\ proc'[f].pc = "idle" /\ proc'[f].cmd = proc[f].cmd
      /\ proc'[f].backend = proc[f].backend /\ proc'[f].ours = proc[f].ours
      /\ proc'[f].outcome = o /\ proc'[f].warned = proc[f].warned
  BY <1>2, <1>4 DEF IsProc
<1> QED BY <1>1, <1>5, <1>6

\* What starting a command does.
LEMMA StartEffect ==
    ASSUME Typed, NEW f \in Fixtures, \E c \in Commands : Start(f, c)
    PROVE  /\ proc[f].pc = "idle" /\ UNCHANGED <<host, art, st, lock>> /\ UNCHANGED world
           /\ \/ proc'[f].pc = "idle" /\ proc'[f].outcome = "unowned"
              \/ proc'[f].pc = "bootstrap" /\ proc'[f].outcome = "none"
           /\ proc'[f].backend = proc[f].backend /\ proc'[f].warned = proc[f].warned
<1>1. PICK c \in Commands : Start(f, c)
  OBVIOUS
<1>2. proc[f].pc = "idle" /\ UNCHANGED <<host, art, st, lock>> /\ UNCHANGED world
  BY <1>1 DEF Start, At
<1>3. \/ proc'[f] = [proc[f] EXCEPT !.cmd = c, !.outcome = "unowned"]
      \/ proc'[f] = [proc[f] EXCEPT !.cmd = c, !.pc = "bootstrap", !.outcome = "none",
                                    !.ours = {}]
  BY <1>1 DEF Start, Typed, ProcTyped
<1>4. IsProc(proc[f])
  BY DEF Typed, ProcTyped
<1> QED BY <1>2, <1>3, <1>4 DEF IsProc

\* What a teardown takes from its validation.
LEMMA ValidateEffect ==
    ASSUME Typed, NEW f \in Fixtures
    PROVE  proc' = [proc EXCEPT ![f].pc = "stopcluster", ![f].ours = Owned(f)] =>
              /\ proc'[f].pc = "stopcluster" /\ proc'[f].cmd = proc[f].cmd
              /\ proc'[f].backend = proc[f].backend /\ proc'[f].ours = Owned(f)
              /\ proc'[f].outcome = proc[f].outcome /\ proc'[f].warned = proc[f].warned
<1>1. ASSUME proc' = [proc EXCEPT ![f].pc = "stopcluster", ![f].ours = Owned(f)]
      PROVE  proc'[f] = [proc[f] EXCEPT !.pc = "stopcluster", !.ours = Owned(f)]
  BY <1>1 DEF Typed, ProcTyped
<1>2. IsProc(proc[f])
  BY DEF Typed, ProcTyped
<1>3. proc'[f] = [proc[f] EXCEPT !.pc = "stopcluster", !.ours = Owned(f)] =>
         /\ proc'[f].pc = "stopcluster" /\ proc'[f].cmd = proc[f].cmd
         /\ proc'[f].backend = proc[f].backend /\ proc'[f].ours = Owned(f)
         /\ proc'[f].outcome = proc[f].outcome /\ proc'[f].warned = proc[f].warned
  BY <1>2 DEF IsProc
<1> QED BY <1>1, <1>3

\* The other fixtures have what they had, and a warning stays.
Frame(f) ==
    /\ \A g \in Fixtures \ {f} : proc'[g] = proc[g] /\ st'[g] = st[g] /\ art'[g] = art[g]
    /\ proc[f].warned => proc'[f].warned
    /\ base' = base

\* The moves of a command keep the types if what they write does.
LEMMA MovesTyped ==
    ASSUME Typed, NEW f \in Fixtures
    PROVE  /\ \A p : Go(f, p) => /\ ProcTyped' /\ proc'[f].warned = proc[f].warned
                               /\ \A g \in Fixtures \ {f} : proc'[g] = proc[g]
           /\ \A p : Pass(f, p) => Typed' /\ Frame(f)
           /\ \A o \in Outcomes : Refuse(f, o) => Typed' /\ Frame(f)
           /\ \A p, s : OnFiles(f, p) /\ s \in Files /\ st' = [st EXCEPT ![f] = s] =>
                 Typed' /\ Frame(f)
           /\ \A p : OnFiles(f, p) /\ st' = st => Typed' /\ Frame(f)
           /\ \A p, a : OnArt(f, p) /\ a \in Arts /\ art' = [art EXCEPT ![f] = a] =>
                 Typed' /\ Frame(f)
           /\ \A p : OnArt(f, p) /\ art' = art => Typed' /\ Frame(f)
           /\ \A p : OnHost(f, p) /\ host' \in Hosts => Typed' /\ Frame(f)
<1>1. \A p : Go(f, p) => /\ ProcTyped' /\ proc'[f].warned = proc[f].warned
                        /\ \A g \in Fixtures \ {f} : proc'[g] = proc[g]
  BY GoEffect DEF Typed
<1>2. \A p : Pass(f, p) => Typed' /\ Frame(f)
  BY <1>1 DEF Typed, Pass, Frame, world
<1>3. \A o \in Outcomes : Refuse(f, o) => Typed' /\ Frame(f)
  BY LeaveEffect DEF Typed, Refuse, Frame, world
<1>4. \A p, s : OnFiles(f, p) /\ s \in Files /\ st' = [st EXCEPT ![f] = s] => Typed' /\ Frame(f)
  BY <1>1 DEF Typed, OnFiles, Frame, world
<1>7. \A p : OnFiles(f, p) /\ st' = st => Typed' /\ Frame(f)
  BY <1>1 DEF Typed, OnFiles, Frame, world
<1>8. \A p : OnArt(f, p) /\ art' = art => Typed' /\ Frame(f)
  BY <1>1 DEF Typed, OnArt, Frame, world
<1>5. \A p, a : OnArt(f, p) /\ a \in Arts /\ art' = [art EXCEPT ![f] = a] => Typed' /\ Frame(f)
  BY <1>1 DEF Typed, OnArt, Frame, world
<1>6. \A p : OnHost(f, p) /\ host' \in Hosts => Typed' /\ Frame(f)
  BY <1>1 DEF Typed, OnHost, Frame, world
<1> QED BY <1>1, <1>2, <1>3, <1>4, <1>5, <1>6, <1>7, <1>8

-----------------------------------------------------------------------------
(* Types: every step writes what the files and resources may be.           *)

\* Types and frames: what every command does first.
LEMMA CommonTyped ==
    ASSUME Typed, NEW f \in Fixtures, Common(f)
    PROVE  Typed' /\ Frame(f)
<1> USE FixtureConstants
<1>0. st[f] \in Files /\ art[f] \in Arts
  BY DEF Typed
<1>1. CASE \E c \in Commands : Start(f, c)
  <2>1. PICK c \in Commands : Start(f, c)
    BY <1>1
  <2>2. UNCHANGED <<host, art, st, lock, base, faults, late>>
    BY <2>1 DEF Start, world
  <2>3. IsProc(proc[f])
    BY DEF Typed, ProcTyped
  <2>4. /\ IsProc([proc[f] EXCEPT !.cmd = c, !.outcome = "unowned"])
        /\ IsProc([proc[f] EXCEPT !.cmd = c, !.pc = "bootstrap", !.outcome = "none", !.ours = {}])
    BY <2>3 DEF IsProc, Outcomes
  <2>5. \/ proc' = [proc EXCEPT ![f] = [proc[f] EXCEPT !.cmd = c, !.outcome = "unowned"]]
        \/ proc' = [proc EXCEPT ![f] = [proc[f] EXCEPT !.cmd = c, !.pc = "bootstrap",
                                                      !.outcome = "none", !.ours = {}]]
    BY <2>1 DEF Start
  <2>6. ProcTyped' /\ \A g \in Fixtures \ {f} : proc'[g] = proc[g]
    BY <2>4, <2>5, ProcWrite DEF Typed
  <2> QED BY <1>1, <2>2, <2>6, StartEffect DEF Typed, Frame
<1>2. CASE Bootstrap(f)
  <2>1. [st[f] EXCEPT !.dirs = TRUE] \in Files
    BY <1>0 DEF Files
  <2>2. [st[f] EXCEPT !.dir = TRUE] \in Files
    BY <1>0 DEF Files
  <2>3. [st[f] EXCEPT !.marker = TRUE] \in Files
    BY <1>0 DEF Files
  <2> QED BY <1>2, <2>1, <2>2, <2>3, MovesTyped DEF Bootstrap, Outcomes
<1>3. CASE SelectBackend(f)
  <2>1. [st[f] EXCEPT !.backend = TRUE] \in Files
    BY <1>0 DEF Files
  <2> QED BY <1>3, <2>1, MovesTyped DEF SelectBackend, Outcomes
<1>4. CASE InvalidateSummary(f)
  <2>1. [st[f] EXCEPT !.summary = FALSE] \in Files
    BY <1>0 DEF Files
  <2> QED BY <1>4, <2>1, MovesTyped DEF InvalidateSummary, Outcomes
<1>5. CASE HostLock(f)
    BY <1>5, MovesTyped DEF HostLock, Outcomes, Typed, Frame, world
<1>6. CASE ClaimHost(f)
  <2>1. host' \in Hosts
    BY <1>6, <1>0 DEF Typed, Hosts, Services, Threads, Exports, Files, Records, ClaimHost,
        ClaimVerdict, Refuse
  <2> QED BY <1>6, <2>1, MovesTyped DEF ClaimHost, ClaimVerdict, Outcomes
<1> QED BY <1>1, <1>2, <1>3, <1>4, <1>5, <1>6 DEF Common

\* Types and frames: setup, the host and the cluster.
LEMMA SetupHostTyped ==
    ASSUME Typed, NEW f \in Fixtures, SetupHost(f)
    PROVE  Typed' /\ Frame(f)
<1> USE FixtureConstants
<1>0. st[f] \in Files /\ art[f] \in Arts
  BY DEF Typed
<1>1. CASE RecordService(f)
  <2>1. \A t \in {0, host.service.threads} :
            [active |-> host.service.active, enabled |-> host.service.enabled, threads |-> t]
               \in Records
    BY DEF Typed, Hosts, Services, Records, Threads
  <2>2. \A r \in Records : [st[f] EXCEPT !.service = r] \in Files
    BY <1>0 DEF Files
  <2> QED BY <1>1, <2>1, <2>2, MovesTyped DEF RecordService
<1>2. CASE InstallPackages(f)
  <2>1. [exists |-> TRUE, active |-> TRUE, enabled |-> TRUE, threads |-> 1] \in Services
    BY DEF Services, Threads
  <2>2. \A s \in Services : [host EXCEPT !.service = s] \in Hosts
    BY DEF Typed, Hosts
  <2> QED BY <1>2, <2>1, <2>2, MovesTyped DEF InstallPackages, Typed
<1>3. CASE EnsureTools(f)
    BY <1>3, MovesTyped DEF EnsureTools, Outcomes
<1>4. CASE ClaimCluster(f)
  <2>1. [st[f] EXCEPT !.cluster = TRUE] \in Files
    BY <1>0 DEF Files
  <2> QED BY <1>4, <2>1, MovesTyped DEF ClaimCluster, ClusterExists, Outcomes
<1>5. CASE DropUnmountedCluster(f)
  <2>1. [art[f] EXCEPT !.cluster = "none", !.installed = {}] \in Arts
    BY <1>0 DEF Arts
  <2> QED BY <1>5, <2>1, MovesTyped DEF DropUnmountedCluster, ClusterExists, Outcomes
<1>6. CASE JournalExport(f)
  <2>1. [st[f] EXCEPT !.journal = TRUE] \in Files
    BY <1>0 DEF Files
  <2> QED BY <1>6, <2>1, MovesTyped DEF JournalExport, MarkerSeen, Outcomes
<1>7. CASE MakeExport(f)
  <2>1. [art[f] EXCEPT !.export = "empty"] \in Arts
    BY <1>0 DEF Arts
  <2> QED BY <1>7, <2>1, MovesTyped DEF MakeExport, Outcomes
<1>8. CASE MarkExport(f)
  <2>1. [art[f] EXCEPT !.image = "marked"] \in Arts
    BY <1>0 DEF Arts
  <2>2. [art[f] EXCEPT !.export = "marked"] \in Arts
    BY <1>0 DEF Arts
  <2> QED BY <1>8, <2>1, <2>2, MovesTyped DEF MarkExport, Outcomes
<1>9. CASE NewImage(f)
  <2>1. [art[f] EXCEPT !.new = "empty", !.migration = TRUE] \in Arts
    BY <1>0 DEF Arts
  <2> QED BY <1>9, <2>1, MovesTyped DEF NewImage, Outcomes
<1>10. CASE CopyExport(f)
  <2>1. [art[f] EXCEPT !.new = "marked"] \in Arts
    BY <1>0 DEF Arts
  <2> QED BY <1>10, <2>1, MovesTyped DEF CopyExport, Outcomes
<1>11. CASE DetachMigration(f)
  <2>1. [art[f] EXCEPT !.migration = FALSE] \in Arts
    BY <1>0 DEF Arts
  <2> QED BY <1>11, <2>1, MovesTyped DEF DetachMigration, Outcomes
<1>12. CASE ReplaceImage(f)
  <2>1. [art[f] EXCEPT !.image = art[f].new, !.new = "none"] \in Arts
    BY <1>0 DEF Arts
  <2> QED BY <1>12, <2>1, MovesTyped DEF ReplaceImage, Outcomes
<1>13. CASE MountExport(f)
  <2>1. [art[f] EXCEPT !.mounted = TRUE] \in Arts
    BY <1>0 DEF Arts
  <2>2. host' \in Hosts
    BY <1>13, <1>0 DEF Typed, Hosts, Services, Threads, Exports, Files, Records, MountExport
  <2> QED BY <1>13, <2>1, <2>2, MovesTyped DEF MountExport, Outcomes, Typed, Frame, world
<1>14. CASE JournalShared(f)
  <2>1. [st[f] EXCEPT !.journal = TRUE] \in Files
    BY <1>0 DEF Files
  <2> QED BY <1>14, <2>1, MovesTyped DEF JournalShared, Outcomes
<1>15. CASE MakeShared(f)
  <2>1. [art[f] EXCEPT !.root = "empty"] \in Arts
    BY <1>0 DEF Arts
  <2>2. [art[f] EXCEPT !.root = "marked"] \in Arts
    BY <1>0 DEF Arts
  <2> QED BY <1>15, <2>1, <2>2, MovesTyped DEF MakeShared, Outcomes
<1>16. CASE KeepCluster(f)
    BY <1>16, MovesTyped DEF KeepCluster, Outcomes
<1>17. CASE DeleteCluster(f)
  <2>1. [art[f] EXCEPT !.cluster = "none", !.installed = {}] \in Arts
    BY <1>0 DEF Arts
  <2> QED BY <1>17, <2>1, MovesTyped DEF DeleteCluster, ClusterExists, Outcomes
<1>18. CASE CreateCluster(f)
  <2>1. [art[f] EXCEPT !.cluster = "partial"] \in Arts
    BY <1>0 DEF Arts
  <2> QED BY <1>18, <2>1, MovesTyped DEF CreateCluster, ClusterExists, Outcomes
<1>19. CASE CreatedCluster(f)
  <2>1. [art[f] EXCEPT !.cluster = "up"] \in Arts
    BY <1>0 DEF Arts
  <2> QED BY <1>19, <2>1, MovesTyped DEF CreatedCluster, Outcomes
<1>20. CASE WaitForCluster(f)
    BY <1>20, MovesTyped DEF WaitForCluster, Outcomes
<1>21. CASE RecordProfile(f)
  <2>1. [st[f] EXCEPT !.profile = TRUE] \in Files
    BY <1>0 DEF Files
  <2> QED BY <1>21, <2>1, MovesTyped DEF RecordProfile, Outcomes
<1> QED BY <1>1, <1>2, <1>3, <1>4, <1>5, <1>6, <1>7, <1>8, <1>9, <1>10, <1>11, <1>12, <1>13,
    <1>14, <1>15, <1>16, <1>17, <1>18, <1>19, <1>20, <1>21 DEF SetupHost

\* Types and frames: setup, the services.
LEMMA SetupServicesTyped ==
    ASSUME Typed, NEW f \in Fixtures, SetupServices(f)
    PROVE  Typed' /\ Frame(f)
<1> USE FixtureConstants
<1>0. st[f] \in Files /\ art[f] \in Arts
  BY DEF Typed
<1>1. CASE WriteSources(f)
  <2>1. <<f, host.subnet>> \in Exports
    BY DEF Typed, Hosts, Exports
  <2>2. \A e \in Exports : [st[f] EXCEPT !.exports = e, !.daemon = TRUE] \in Files
    BY <1>0 DEF Files
  <2> QED BY <1>1, <2>1, <2>2, MovesTyped DEF WriteSources, Outcomes
<1>2. CASE InstallExports(f)
  <2>1. host' \in Hosts
    BY <1>2, <1>0 DEF Typed, Hosts, Services, Threads, Exports, Files, Records, InstallExports
  <2> QED BY <1>2, <2>1, MovesTyped DEF InstallExports, Outcomes
<1>3. CASE InstallDaemon(f)
  <2>1. host' \in Hosts
    BY <1>3, <1>0 DEF Typed, Hosts, Services, Threads, Exports, Files, Records, InstallDaemon
  <2> QED BY <1>3, <2>1, MovesTyped DEF InstallDaemon, Outcomes
<1>4. CASE DropOldRule(f)
  <2>1. [st[f] EXCEPT !.ufw = None] \in Files
    BY <1>0 DEF Files
  <2>2. \A n : [host EXCEPT !.rules = @ \ {n}] \in Hosts
    BY DEF Typed, Hosts
  <2> QED BY <1>4, <2>1, <2>2, MovesTyped DEF DropOldRule
<1>5. CASE RecordRule(f)
  <2>1. /\ [mine |-> TRUE, subnet |-> host.subnet] \in Rules
        /\ [mine |-> FALSE, subnet |-> host.subnet] \in Rules
        /\ st[f].ufw \in Rules \cup {None}
    BY <1>0 DEF Typed, Hosts, Rules, Files
  <2>2. \A r \in Rules \cup {None} : [st[f] EXCEPT !.ufw = r] \in Files
    BY <1>0 DEF Files
  <2>3. \E r \in Rules \cup {None} : st' = [st EXCEPT ![f].ufw = r]
    BY <1>5, <2>1 DEF RecordRule, Rules
  <2> QED BY <1>5, <2>2, <2>3, MovesTyped DEF RecordRule
<1>6. CASE AllowRule(f)
  <2>1. host' \in Hosts
    BY <1>6, <1>0 DEF Typed, Hosts, Services, Threads, Exports, Files, Records, AllowRule
  <2> QED BY <1>6, <2>1, MovesTyped DEF AllowRule, Outcomes
<1>7. CASE Serve(f)
  <2>1. [host.service EXCEPT !.enabled = TRUE, !.active = TRUE, !.threads = IF @ = 0 THEN 1 ELSE @]
           \in Services
    <3>1. host.service \in Services
      BY DEF Typed, Hosts
    <3>2. (IF host.service.threads = 0 THEN 1 ELSE host.service.threads) \in Threads
      BY <3>1 DEF Services, Threads
    <3> QED BY <3>1, <3>2 DEF Services
  <2>2. \A s \in Services : [host EXCEPT !.exported = host.exports, !.service = s] \in Hosts
    BY DEF Typed, Hosts
  <2>3. host' = [host EXCEPT !.exported = host.exports,
                    !.service = [host.service EXCEPT !.enabled = TRUE, !.active = TRUE,
                                                     !.threads = IF @ = 0 THEN 1 ELSE @]]
    BY <1>7 DEF Serve, Typed, Hosts
  <2>4. host' \in Hosts
    BY <2>1, <2>2, <2>3
  <2> QED BY <1>7, <2>4, MovesTyped DEF Serve
<1>8. CASE RaiseHeadroom(f)
  <2>1. [host EXCEPT !.service.threads = 2] \in Hosts
    BY DEF Typed, Hosts, Services, Threads
  <2> QED BY <1>8, <2>1, MovesTyped DEF RaiseHeadroom
<1>9. CASE InstallStorage(f)
  <2>1. art[f].installed \in SUBSET Components
    BY <1>0 DEF Arts
  <2>2. \A x \in SUBSET Components : [art[f] EXCEPT !.installed = x] \in Arts
    BY <1>0 DEF Arts
  <2> QED BY <1>9, <2>1, <2>2, MovesTyped DEF InstallStorage, Install, Components, Outcomes
<1>10. CASE CleanProbe(f)
  <2>1. art[f].installed \in SUBSET Components
    BY <1>0 DEF Arts
  <2>2. \A x \in SUBSET Components : [art[f] EXCEPT !.installed = x] \in Arts
    BY <1>0 DEF Arts
  <2> QED BY <1>10, <2>1, <2>2, MovesTyped DEF CleanProbe, Install, Components, Outcomes
<1>11. CASE StartProbe(f)
  <2>1. art[f].installed \in SUBSET Components
    BY <1>0 DEF Arts
  <2>2. \A x \in SUBSET Components : [art[f] EXCEPT !.installed = x] \in Arts
    BY <1>0 DEF Arts
  <2> QED BY <1>11, <2>1, <2>2, MovesTyped DEF StartProbe, Install, Components, Outcomes
<1>12. CASE FinishProbe(f)
  <2>1. art[f].installed \in SUBSET Components
    BY <1>0 DEF Arts
  <2>2. \A x \in SUBSET Components : [art[f] EXCEPT !.installed = x] \in Arts
    BY <1>0 DEF Arts
  <2> QED BY <1>12, <2>1, <2>2, MovesTyped DEF FinishProbe, Install, Components, Outcomes
<1>13. CASE InstallSshWorkers(f)
  <2>1. art[f].installed \in SUBSET Components
    BY <1>0 DEF Arts
  <2>2. \A x \in SUBSET Components : [art[f] EXCEPT !.installed = x] \in Arts
    BY <1>0 DEF Arts
  <2> QED BY <1>13, <2>1, <2>2, MovesTyped DEF InstallSshWorkers, Install, Components, Outcomes
<1>14. CASE ScaleSshDown(f)
  <2>1. art[f].installed \in SUBSET Components
    BY <1>0 DEF Arts
  <2>2. \A x \in SUBSET Components : [art[f] EXCEPT !.installed = x] \in Arts
    BY <1>0 DEF Arts
  <2> QED BY <1>14, <2>1, <2>2, MovesTyped DEF ScaleSshDown, Install, Components, Outcomes
<1>15. CASE InstallSlurm(f)
  <2>1. art[f].installed \in SUBSET Components
    BY <1>0 DEF Arts
  <2>2. \A x \in SUBSET Components : [art[f] EXCEPT !.installed = x] \in Arts
    BY <1>0 DEF Arts
  <2> QED BY <1>15, <2>1, <2>2, MovesTyped DEF InstallSlurm, Install, Components, Outcomes
<1>16. CASE ScaleSshUp(f)
  <2>1. art[f].installed \in SUBSET Components
    BY <1>0 DEF Arts
  <2>2. \A x \in SUBSET Components : [art[f] EXCEPT !.installed = x] \in Arts
    BY <1>0 DEF Arts
  <2> QED BY <1>16, <2>1, <2>2, MovesTyped DEF ScaleSshUp, Install, Components, Outcomes
<1>17. CASE WriteSummary(f)
  <2>1. [st[f] EXCEPT !.summary = TRUE] \in Files
    BY <1>0 DEF Files
  <2> QED BY <1>17, <2>1, LeaveEffect DEF WriteSummary, Typed, Frame, Outcomes, world
<1> QED BY <1>1, <1>2, <1>3, <1>4, <1>5, <1>6, <1>7, <1>8, <1>9, <1>10, <1>11, <1>12, <1>13,
    <1>14, <1>15, <1>16, <1>17 DEF SetupServices

\* Types and frames: stop and teardown.
LEMMA TeardownTyped ==
    ASSUME Typed, NEW f \in Fixtures, Teardown(f)
    PROVE  Typed' /\ Frame(f)
<1> USE FixtureConstants
<1>0. st[f] \in Files /\ art[f] \in Arts
  BY DEF Typed
<1>1. CASE CheckStop(f)
    BY <1>1, MovesTyped DEF CheckStop, StopVerdict, Outcomes
<1>2. CASE StopCluster(f)
  <2>1. [art[f] EXCEPT !.cluster = "none", !.installed = {}] \in Arts
    BY <1>0 DEF Arts
  <2> QED BY <1>2, <2>1, MovesTyped DEF StopCluster, Outcomes
<1>3. CASE StopService(f)
  <2>1. [host.service EXCEPT !.active = FALSE, !.threads = 0] \in Services
    <3>1. host.service \in Services
      BY DEF Typed, Hosts
    <3>2. 0 \in Threads
      BY DEF Threads
    <3> QED BY <3>1, <3>2 DEF Services
  <2>2. \A s \in Services : [host EXCEPT !.service = s] \in Hosts
    BY DEF Typed, Hosts
  <2>3. \/ host' = host
        \/ host' = [host EXCEPT !.service = [host.service EXCEPT !.active = FALSE, !.threads = 0]]
    BY <1>3 DEF StopService, Typed, Hosts
  <2> QED BY <1>3, <2>1, <2>2, <2>3, MovesTyped DEF StopService, Typed
<1>4. CASE Stopped(f)
    BY <1>4, MovesTyped DEF Stopped, Outcomes
<1>5. CASE ValidateTeardown(f)
  <2>1. CASE UNCHANGED <<host, art, st, lock, base, faults, late>>
             /\ proc' = [proc EXCEPT ![f].pc = "stopcluster", ![f].ours = Owned(f)]
    <3>1. Owned(f) \in SUBSET {"export", "host", "root"}
      BY DEF Owned
    <3>2. ProcTyped' /\ \A g \in Fixtures \ {f} : proc'[g] = proc[g]
      <4>1. IsProc(proc[f])
        BY DEF Typed, ProcTyped
      <4>2. IsProc([proc[f] EXCEPT !.pc = "stopcluster", !.ours = Owned(f)])
        BY <3>1, <4>1 DEF IsProc
      <4>3. proc' = [proc EXCEPT ![f] = [proc[f] EXCEPT !.pc = "stopcluster", !.ours = Owned(f)]]
        BY <2>1
      <4> QED BY <4>2, <4>3, ProcWrite DEF Typed
    <3> QED BY <2>1, <3>2, ValidateEffect DEF Typed, Frame
  <2>2. CASE \E o \in Outcomes : Refuse(f, o)
    BY <2>2, MovesTyped
  <2>3. NfsVerdict(f) \in Outcomes \cup {"ok"} /\ SharedVerdict(f) \in Outcomes \cup {"ok"}
    BY DEF NfsVerdict, SharedVerdict, Outcomes
  <2> QED BY <1>5, <2>1, <2>2, <2>3, MovesTyped DEF ValidateTeardown, world
<1>6. CASE Unexport(f)
  <2>1. host' \in Hosts
    BY <1>6, <1>0 DEF Typed, Hosts, Services, Threads, Exports, Files, Records, Unexport
  <2> QED BY <1>6, <2>1, MovesTyped DEF Unexport, Outcomes
<1>7. CASE RemoveExports(f)
  <2>1. host' \in Hosts
    BY <1>7 DEF Typed, Hosts, Exports, RemoveExports
  <2> QED BY <1>7, <2>1, MovesTyped DEF RemoveExports, Outcomes
<1>8. CASE RemoveDaemon(f)
  <2>1. host' \in Hosts
    BY <1>8 DEF Typed, Hosts, RemoveDaemon
  <2> QED BY <1>8, <2>1, MovesTyped DEF RemoveDaemon, Outcomes
<1>9. CASE RestoreThreads(f)
  <2>1. st[f].service # None => [host EXCEPT !.service.threads = st[f].service.threads] \in Hosts
    <3>1. st[f].service # None => st[f].service.threads \in Threads
      BY <1>0 DEF Files, Records
    <3> QED BY <3>1 DEF Typed, Hosts, Services
  <2>2. CASE /\ faults < MaxFaults /\ faults' = faults + 1
             /\ proc' = [proc EXCEPT ![f].pc = "policy", ![f].warned = TRUE]
             /\ UNCHANGED <<host, art, st, lock, base, late>>
    <3>1. ProcTyped' /\ proc'[f].warned /\ \A g \in Fixtures \ {f} : proc'[g] = proc[g]
      <4>1. IsProc(proc[f])
        BY DEF Typed, ProcTyped
      <4>2. IsProc([proc[f] EXCEPT !.pc = "policy", !.warned = TRUE])
        BY <4>1 DEF IsProc
      <4>3. proc' = [proc EXCEPT ![f] = [proc[f] EXCEPT !.pc = "policy", !.warned = TRUE]]
        BY <2>2
      <4>4. proc'[f] = [proc[f] EXCEPT !.pc = "policy", !.warned = TRUE]
        BY <4>2, <4>3, ProcWrite DEF Typed
      <4>5. proc'[f].warned
        BY <4>1, <4>4 DEF IsProc
      <4> QED BY <4>2, <4>3, <4>5, ProcWrite DEF Typed
    <3>2. faults' \in 0..MaxFaults
      BY <2>2 DEF Typed
    <3> QED BY <2>2, <3>1, <3>2 DEF Typed, Frame
  <2> QED BY <1>9, <2>1, <2>2, MovesTyped DEF RestoreThreads
<1>10. CASE RestorePolicy(f)
  <2>1. host' \in Hosts
    BY <1>10, <1>0 DEF Typed, Hosts, Services, Threads, Exports, Files, Records, RestorePolicy
  <2> QED BY <1>10, <2>1, MovesTyped DEF RestorePolicy, Outcomes
<1>11. CASE RemoveRule(f)
  <2>1. [st[f] EXCEPT !.ufw = None] \in Files
    BY <1>0 DEF Files
  <2>2. \A n : [host EXCEPT !.rules = @ \ {n}] \in Hosts
    BY DEF Typed, Hosts
  <2> QED BY <1>11, <2>1, <2>2, MovesTyped DEF RemoveRule
<1>12. CASE UnmountExport(f)
  <2>1. [art[f] EXCEPT !.mounted = FALSE] \in Arts
    BY <1>0 DEF Arts
  <2> QED BY <1>12, <2>1, MovesTyped DEF UnmountExport, Outcomes
<1>13. CASE RemoveExport(f)
  <2>1. [art[f] EXCEPT !.export = "empty"] \in Arts
    BY <1>0 DEF Arts
  <2>2. [art[f] EXCEPT !.export = "absent"] \in Arts
    BY <1>0 DEF Arts
  <2> QED BY <1>13, <2>1, <2>2, MovesTyped DEF RemoveExport, Outcomes
<1>14. CASE RemoveShared(f)
  <2>1. [art[f] EXCEPT !.root = "empty"] \in Arts
    BY <1>0 DEF Arts
  <2>2. [art[f] EXCEPT !.root = "absent"] \in Arts
    BY <1>0 DEF Arts
  <2> QED BY <1>14, <2>1, <2>2, MovesTyped DEF RemoveShared, Outcomes
<1>15. CASE DeleteContents(f)
  <2>1. None \in Exports /\ None \in Records \cup {None} /\ None \in Rules \cup {None}
    BY DEF Exports
  <2>2. \A c : Without(st[f], c) \in Files
    BY <1>0, <2>1, ZenonT(60) DEF Files, Without
  <2> QED BY <1>15, <2>2, MovesTyped DEF DeleteContents
<1>16. CASE DeleteImages(f)
  <2>1. [art[f] EXCEPT !.image = "none", !.new = "none"] \in Arts
    BY <1>0 DEF Arts
  <2>2. [art[f] EXCEPT !.image = "none", !.new = art[f].new] \in Arts
    BY <1>0 DEF Arts
  <2> QED BY <1>16, <2>1, <2>2, MovesTyped DEF DeleteImages, Outcomes
<1>17. CASE DeleteDirs(f)
  <2>1. [st[f] EXCEPT !.dirs = FALSE] \in Files
    BY <1>0 DEF Files
  <2> QED BY <1>17, <2>1, MovesTyped DEF DeleteDirs, NoFiles, Outcomes
<1>18. CASE DeleteMarker(f)
  <2>1. [st[f] EXCEPT !.marker = FALSE] \in Files
    BY <1>0 DEF Files
  <2> QED BY <1>18, <2>1, MovesTyped DEF DeleteMarker, Outcomes
<1>19. CASE DeleteStateDir(f)
  <2>1. [st[f] EXCEPT !.dir = FALSE] \in Files
    BY <1>0 DEF Files
  <2> QED BY <1>19, <2>1, MovesTyped DEF DeleteStateDir, Outcomes
<1>20. CASE ReleaseHost(f)
  <2>1. [host EXCEPT !.owner = None] \in Hosts
    BY DEF Typed, Hosts
  <2> QED BY <1>20, <2>1, LeaveEffect DEF ReleaseHost, Typed, Frame, Outcomes, world
<1> QED BY <1>1, <1>2, <1>3, <1>4, <1>5, <1>6, <1>7, <1>8, <1>9, <1>10, <1>11, <1>12, <1>13,
    <1>14, <1>15, <1>16, <1>17, <1>18, <1>19, <1>20 DEF Teardown

\* Types and frames: failures, a second command and the operator.
LEMMA FaultyTyped ==
    ASSUME Typed, NEW f \in Fixtures, Faulty(f)
    PROVE  Typed' /\ Frame(f)
<1> USE FixtureConstants
<1>0. st[f] \in Files /\ art[f] \in Arts
  BY DEF Typed
<1>1. CASE MigrationRaises(f)
  <2>1. [art[f] EXCEPT !.new = "none", !.migration = FALSE] \in Arts
    BY <1>0 DEF Arts
  <2> QED BY <1>1, <2>1, LeaveEffect DEF MigrationRaises, Typed, Frame, Outcomes
<1>2. CASE Die(f)
  BY <1>2, LeaveEffect DEF Die, Typed, Frame, Outcomes
<1>3. CASE SecondCommand(f)
  <2>1. [st[f] EXCEPT !.dirs = TRUE] \in Files
    BY <1>0 DEF Files
  <2>2. late' \in 0..MaxLate
    BY <1>3 DEF SecondCommand, Typed
  <2>3. ProcTyped'
    BY <1>3 DEF SecondCommand, Typed, ProcTyped
  <2> QED BY <1>3, <2>1, <2>2, <2>3 DEF SecondCommand, Typed, Frame
<1>4. CASE OperatorUnmounts(f)
  <2>1. [art[f] EXCEPT !.migration = FALSE] \in Arts
    BY <1>0 DEF Arts
  <2>2. ProcTyped'
    BY <1>4 DEF OperatorUnmounts, Typed, ProcTyped
  <2> QED BY <1>4, <2>1, <2>2 DEF OperatorUnmounts, Typed, Frame
<1> QED BY <1>1, <1>2, <1>3, <1>4 DEF Faulty

-----------------------------------------------------------------------------
(* Sound: what the files and resources of a fixture are at each step.      *)

\* A command that gives up leaves everything as it found it.
LEMMA RefuseSound ==
    ASSUME Typed, NEW f \in Fixtures, Sound(f)
    PROVE  \A o \in Outcomes :
              /\ Refuse(f, o)
              /\ proc[f].cmd = "teardown" =>
                    /\ o # "foreign"
                    /\ o = "unmarked" => "foreign" \in {art[f].export, art[f].root}
              => Sound(f)'
<1> SUFFICES ASSUME NEW o \in Outcomes, Refuse(f, o),
                    proc[f].cmd = "teardown" =>
                       /\ o # "foreign"
                       /\ o = "unmarked" => "foreign" \in {art[f].export, art[f].root}
             PROVE  Sound(f)'
  OBVIOUS
<1> USE DEF FreeSteps, SetupSteps, HostSteps, BeginSteps, SharedSteps, ServiceSteps, InstallSteps,
        StopSteps, UndoSteps, RestoreSteps, ExportSteps, LastSteps, NfsSteps
<1>1. /\ proc'[f].pc = "idle" /\ proc'[f].cmd = proc[f].cmd /\ proc'[f].backend = proc[f].backend
      /\ proc'[f].outcome = o /\ art' = art /\ st' = st
  BY LeaveEffect DEF Refuse, Typed
<1>2. Placed(f)' /\ Marked(f)' /\ Clustered(f)'
  BY <1>1 DEF Sound, Placed, Marked, Clustered, Nfs, NoExport, NoRoot
<1>3. Exported(f)' /\ Rooted(f)'
  BY <1>1 DEF Sound, Exported, Rooted, NoExport, NoRoot
<1>4. Summarized(f)' /\ Rendered(f)'
  BY <1>1 DEF Sound, Summarized, Rendered, Nfs
<1>5. Reported(f)'
  BY <1>1 DEF Reported
<1> QED BY <1>2, <1>3, <1>4, <1>5 DEF Sound

\* A cluster is claimed by its marker, unless one without it is there.
LEMMA ClaimClusterSound ==
    ASSUME Typed, NEW f \in Fixtures, Sound(f), Holds(f), ClaimCluster(f)
    PROVE  Sound(f)'
<1> USE DEF FreeSteps, SetupSteps, HostSteps, BeginSteps, SharedSteps, ServiceSteps,
    InstallSteps, StopSteps, UndoSteps, RestoreSteps, ExportSteps, LastSteps, NfsSteps
<1>1. proc[f].cmd = "setup"
  BY DEF ClaimCluster, At, Sound, Placed
<1>2. CASE /\ st[f].cluster \/ ~ClusterExists(f)
          /\ st' = [st EXCEPT ![f].cluster = TRUE] /\ Nfs(f) /\ OnFiles(f, "unmounted")
  <2>1. /\ proc'[f].pc = "unmounted" /\ SameCommand(f)
        /\ art'[f] = art[f]
    BY <1>2, GoEffect DEF Typed, OnFiles, SameCommand
  <2>e. st'[f].cluster = TRUE /\ FilesBut(f, {"cluster"})
    BY <1>2 DEF Typed, OnFiles, Files, FilesBut
  <2>2. proc[f].pc = "discover"
    BY DEF ClaimCluster, At
  <2>3. art[f].cluster # "foreign"
    BY <1>2 DEF Sound, Clustered, ClusterExists
  <2>4. Placed(f)' /\ Marked(f)' /\ Clustered(f)'
    BY <1>2, <2>1, <2>e, <2>2, <2>3 DEF Sound, Placed, Marked, Clustered, Nfs, NoExport,
        NoRoot, Emptied, SameCommand, FilesBut
  <2>5. Exported(f)' /\ Rooted(f)'
    BY <1>2, <2>1, <2>e, <2>2, <2>3 DEF Sound, Exported, Rooted, NoExport, NoRoot, SameCommand,
        FilesBut
  <2>6. Summarized(f)' /\ Reported(f)' /\ Rendered(f)'
    BY <1>2, <2>1, <2>e, <2>2, <2>3 DEF Sound, Summarized, Reported, Rendered, Nfs,
        SameCommand, FilesBut
  <2> QED BY <2>4, <2>5, <2>6 DEF Sound
<1>3. CASE /\ st[f].cluster \/ ~ClusterExists(f)
          /\ st' = [st EXCEPT ![f].cluster = TRUE] /\ ~Nfs(f) /\ OnFiles(f, "shared")
  <2>1. /\ proc'[f].pc = "shared" /\ SameCommand(f)
        /\ art'[f] = art[f]
    BY <1>3, GoEffect DEF Typed, OnFiles, SameCommand
  <2>e. st'[f].cluster = TRUE /\ FilesBut(f, {"cluster"})
    BY <1>3 DEF Typed, OnFiles, Files, FilesBut
  <2>2. proc[f].pc = "discover"
    BY DEF ClaimCluster, At
  <2>3. art[f].cluster # "foreign"
    BY <1>3 DEF Sound, Clustered, ClusterExists
  <2>4. Placed(f)' /\ Marked(f)' /\ Clustered(f)'
    BY <1>3, <2>1, <2>e, <2>2, <2>3 DEF Sound, Placed, Marked, Clustered, Nfs, NoExport,
        NoRoot, Emptied, SameCommand, FilesBut
  <2>5. Exported(f)' /\ Rooted(f)'
    BY <1>3, <2>1, <2>e, <2>2, <2>3 DEF Sound, Exported, Rooted, NoExport, NoRoot, SameCommand,
        FilesBut
  <2>6. Summarized(f)' /\ Reported(f)' /\ Rendered(f)'
    BY <1>3, <2>1, <2>e, <2>2, <2>3 DEF Sound, Summarized, Reported, Rendered, Nfs,
        SameCommand, FilesBut
  <2> QED BY <2>4, <2>5, <2>6 DEF Sound
<1> QED BY <1>1, <1>2, <1>3, RefuseSound DEF ClaimCluster, Outcomes

\* The journal of the export comes before its directory.
LEMMA JournalExportSound ==
    ASSUME Typed, NEW f \in Fixtures, Sound(f), Holds(f), JournalExport(f)
    PROVE  Sound(f)'
<1> USE DEF FreeSteps, SetupSteps, HostSteps, BeginSteps, SharedSteps, ServiceSteps,
    InstallSteps, StopSteps, UndoSteps, RestoreSteps, ExportSteps, LastSteps, NfsSteps
<1>1. proc[f].cmd = "setup"
  BY DEF JournalExport, At, Sound, Placed
<1>2. CASE /\ art[f].export = "absent" \/ MarkerSeen(f)
          /\ st' = [st EXCEPT ![f].journal = TRUE] /\ OnFiles(f, "mkdir")
  <2>1. /\ proc'[f].pc = "mkdir" /\ SameCommand(f)
        /\ art'[f] = art[f]
    BY <1>2, GoEffect DEF Typed, OnFiles, SameCommand
  <2>e. st'[f].journal = TRUE /\ FilesBut(f, {"journal"})
    BY <1>2 DEF Typed, OnFiles, Files, FilesBut
  <2>2. proc[f].pc = "journal"
    BY DEF JournalExport, At
  <2>3. art[f].export \in {"absent", "marked"}
    BY <1>2 DEF MarkerSeen, Sound, Exported
  <2>4. Placed(f)' /\ Marked(f)' /\ Clustered(f)'
    BY <1>2, <2>1, <2>e, <2>2, <2>3 DEF Sound, Placed, Marked, Clustered, Nfs, NoExport,
        NoRoot, Emptied, SameCommand, FilesBut
  <2>5. Exported(f)' /\ Rooted(f)'
    BY <1>2, <2>1, <2>e, <2>2, <2>3 DEF Sound, Exported, Rooted, NoExport, NoRoot, SameCommand,
        FilesBut
  <2>6. Summarized(f)' /\ Reported(f)' /\ Rendered(f)'
    BY <1>2, <2>1, <2>e, <2>2, <2>3 DEF Sound, Summarized, Reported, Rendered, Nfs,
        SameCommand, FilesBut
  <2> QED BY <2>4, <2>5, <2>6 DEF Sound
<1> QED BY <1>1, <1>2, RefuseSound DEF JournalExport, Outcomes

\* A new image is only begun with no temporary mount left.
LEMMA NewImageSound ==
    ASSUME Typed, NEW f \in Fixtures, Sound(f), Holds(f), NewImage(f)
    PROVE  Sound(f)'
<1> USE DEF FreeSteps, SetupSteps, HostSteps, BeginSteps, SharedSteps, ServiceSteps,
    InstallSteps, StopSteps, UndoSteps, RestoreSteps, ExportSteps, LastSteps, NfsSteps
<1>1. proc[f].cmd = "setup"
  BY DEF NewImage, At, Sound, Placed
<1>2. CASE /\ ~art[f].migration /\ art' = [art EXCEPT ![f].new = "empty", ![f].migration = TRUE]
          /\ OnArt(f, "copy")
  <2>1. /\ proc'[f].pc = "copy" /\ SameCommand(f)
        /\ st'[f] = st[f]
    BY <1>2, GoEffect DEF Typed, OnArt, SameCommand
  <2>e. art'[f].new = "empty" /\ art'[f].migration = TRUE /\ ArtBut(f, {"new", "migration"})
    BY <1>2 DEF Typed, OnArt, Arts, ArtBut
  <2>2. proc[f].pc = "newimage"
    BY DEF NewImage, At
  <2>3. Placed(f)' /\ Marked(f)' /\ Clustered(f)'
    BY <1>2, <2>1, <2>e, <2>2 DEF Sound, Placed, Marked, Clustered, Nfs, NoExport, NoRoot,
        Emptied, SameCommand, ArtBut
  <2>4. Exported(f)' /\ Rooted(f)'
    BY <1>2, <2>1, <2>e, <2>2 DEF Sound, Exported, Rooted, NoExport, NoRoot, SameCommand,
        ArtBut
  <2>5. Summarized(f)' /\ Reported(f)' /\ Rendered(f)'
    BY <1>2, <2>1, <2>e, <2>2 DEF Sound, Summarized, Reported, Rendered, Nfs, SameCommand,
        ArtBut
  <2> QED BY <2>3, <2>4, <2>5 DEF Sound
<1> QED BY <1>1, <1>2, RefuseSound DEF NewImage, Outcomes

\* The journal of the shared root comes before its directory.
LEMMA JournalSharedSound ==
    ASSUME Typed, NEW f \in Fixtures, Sound(f), Holds(f), JournalShared(f)
    PROVE  Sound(f)'
<1> USE DEF FreeSteps, SetupSteps, HostSteps, BeginSteps, SharedSteps, ServiceSteps,
    InstallSteps, StopSteps, UndoSteps, RestoreSteps, ExportSteps, LastSteps, NfsSteps
<1>1. proc[f].cmd = "setup"
  BY DEF JournalShared, At, Sound, Placed
<1>2. CASE /\ art[f].root # "foreign"
          /\ st' = [st EXCEPT ![f].journal = TRUE] /\ OnFiles(f, "makeshared")
  <2>1. /\ proc'[f].pc = "makeshared" /\ SameCommand(f)
        /\ art'[f] = art[f]
    BY <1>2, GoEffect DEF Typed, OnFiles, SameCommand
  <2>e. st'[f].journal = TRUE /\ FilesBut(f, {"journal"})
    BY <1>2 DEF Typed, OnFiles, Files, FilesBut
  <2>2. proc[f].pc = "shared"
    BY DEF JournalShared, At
  <2>3. Placed(f)' /\ Marked(f)' /\ Clustered(f)'
    BY <1>2, <2>1, <2>e, <2>2 DEF Sound, Placed, Marked, Clustered, Nfs, NoExport, NoRoot,
        Emptied, SameCommand, FilesBut
  <2>4. Exported(f)' /\ Rooted(f)'
    BY <1>2, <2>1, <2>e, <2>2 DEF Sound, Exported, Rooted, NoExport, NoRoot, SameCommand,
        FilesBut
  <2>5. Summarized(f)' /\ Reported(f)' /\ Rendered(f)'
    BY <1>2, <2>1, <2>e, <2>2 DEF Sound, Summarized, Reported, Rendered, Nfs, SameCommand,
        FilesBut
  <2> QED BY <2>3, <2>4, <2>5 DEF Sound
<1> QED BY <1>1, <1>2, RefuseSound DEF JournalShared, Outcomes

\* The sources are rendered for the subnet the network of kind has.
LEMMA WriteSourcesSound ==
    ASSUME Typed, NEW f \in Fixtures, Sound(f), Holds(f), WriteSources(f)
    PROVE  Sound(f)'
<1> USE DEF FreeSteps, SetupSteps, HostSteps, BeginSteps, SharedSteps, ServiceSteps,
    InstallSteps, StopSteps, UndoSteps, RestoreSteps, ExportSteps, LastSteps, NfsSteps
<1>1. proc[f].cmd = "setup"
  BY DEF WriteSources, At, Sound, Placed
<1>2. CASE /\ st' = [st EXCEPT ![f].exports = <<f, host.subnet>>, ![f].daemon = TRUE]
          /\ OnFiles(f, "exports")
  <2>1. /\ proc'[f].pc = "exports" /\ SameCommand(f)
        /\ art'[f] = art[f]
    BY <1>2, GoEffect DEF Typed, OnFiles, SameCommand
  <2>e. /\ st'[f].exports = <<f, host.subnet>> /\ st'[f].daemon = TRUE
        /\ FilesBut(f, {"exports", "daemon"})
    BY <1>2 DEF Typed, OnFiles, Files, FilesBut
  <2>2. proc[f].pc = "sources"
    BY DEF WriteSources, At
  <2>3. Nfs(f)
    BY <2>2 DEF Sound, Placed
  <2>4. <<f, host.subnet>>[1] = f /\ <<f, host.subnet>> # None
    BY NoneIsNothing DEF Typed, Hosts
  <2>5. st'[f].exports[1] = f /\ st'[f].exports # None
    BY <2>e, <2>4
  <2>6. st[f].service # None
    BY <2>2, <2>3 DEF Sound, Rendered
  <2>7. Placed(f)' /\ Marked(f)' /\ Clustered(f)'
    BY <1>2, <2>1, <2>e, <2>2, <2>3, <2>4, <2>5, <2>6 DEF Sound, Placed, Marked, Clustered,
        Nfs, NoExport, NoRoot, Emptied, SameCommand, FilesBut
  <2>8. Exported(f)' /\ Rooted(f)'
    BY <1>2, <2>1, <2>e, <2>2, <2>3, <2>4, <2>5, <2>6 DEF Sound, Exported, Rooted, NoExport,
        NoRoot, SameCommand, FilesBut
  <2>9. Summarized(f)' /\ Reported(f)' /\ Rendered(f)'
    BY <1>2, <2>1, <2>e, <2>2, <2>3, <2>4, <2>5, <2>6 DEF Sound, Summarized, Reported,
        Rendered, Nfs, SameCommand, FilesBut
  <2> QED BY <2>7, <2>8, <2>9 DEF Sound
<1> QED BY <1>1, <1>2, RefuseSound DEF WriteSources, Outcomes

\* The directories go when nothing else is left in the state directory.
LEMMA DeleteDirsSound ==
    ASSUME Typed, NEW f \in Fixtures, Sound(f), Holds(f), DeleteDirs(f)
    PROVE  Sound(f)'
<1> USE DEF FreeSteps, SetupSteps, HostSteps, BeginSteps, SharedSteps, ServiceSteps,
    InstallSteps, StopSteps, UndoSteps, RestoreSteps, ExportSteps, LastSteps, NfsSteps
<1>2. CASE /\ [st[f] EXCEPT !.dirs = FALSE] = [NoFiles EXCEPT !.dir = TRUE, !.marker = TRUE]
          /\ art[f].image = "none" /\ art[f].new = "none"
          /\ st' = [st EXCEPT ![f].dirs = FALSE] /\ OnFiles(f, "rmmarker")
  <2>1. /\ proc'[f].pc = "rmmarker" /\ SameCommand(f)
        /\ art'[f] = art[f]
    BY <1>2, GoEffect DEF Typed, OnFiles, SameCommand
  <2>e. st'[f].dirs = FALSE /\ FilesBut(f, {"dirs"})
    BY <1>2 DEF Typed, OnFiles, Files, FilesBut
  <2>2. proc[f].pc = "contents"
    BY DEF DeleteDirs, At
  <2>3. Emptied(f) /\ st[f].marker
    BY <1>2 DEF Emptied, NoFiles, Typed, Files
  <2>4. Placed(f)' /\ Marked(f)' /\ Clustered(f)'
    BY <1>2, <2>1, <2>e, <2>2, <2>3 DEF Sound, Placed, Marked, Clustered, Nfs, NoExport,
        NoRoot, Emptied, SameCommand, FilesBut
  <2>5. Exported(f)' /\ Rooted(f)'
    BY <1>2, <2>1, <2>e, <2>2, <2>3 DEF Sound, Exported, Rooted, NoExport, NoRoot, SameCommand,
        FilesBut
  <2>6. Summarized(f)' /\ Reported(f)' /\ Rendered(f)'
    BY <1>2, <2>1, <2>e, <2>2, <2>3 DEF Sound, Summarized, Reported, Rendered, Nfs,
        SameCommand, FilesBut
  <2> QED BY <2>4, <2>5, <2>6 DEF Sound
<1> QED BY <1>2, RefuseSound DEF DeleteDirs, Outcomes

\* The state directory goes after its marker.
LEMMA DeleteStateDirSound ==
    ASSUME Typed, NEW f \in Fixtures, Sound(f), Holds(f), DeleteStateDir(f)
    PROVE  Sound(f)'
<1> USE DEF FreeSteps, SetupSteps, HostSteps, BeginSteps, SharedSteps, ServiceSteps,
    InstallSteps, StopSteps, UndoSteps, RestoreSteps, ExportSteps, LastSteps, NfsSteps
<1>2. CASE ~st[f].dirs /\ st' = [st EXCEPT ![f].dir = FALSE] /\ OnFiles(f, "release")
  <2>1. /\ proc'[f].pc = "release" /\ SameCommand(f)
        /\ art'[f] = art[f]
    BY <1>2, GoEffect DEF Typed, OnFiles, SameCommand
  <2>e. st'[f].dir = FALSE /\ FilesBut(f, {"dir"})
    BY <1>2 DEF Typed, OnFiles, Files, FilesBut
  <2>2. proc[f].pc = "rmdir"
    BY DEF DeleteStateDir, At
  <2>3. Placed(f)' /\ Marked(f)' /\ Clustered(f)'
    BY <1>2, <2>1, <2>e, <2>2 DEF Sound, Placed, Marked, Clustered, Nfs, NoExport, NoRoot,
        Emptied, SameCommand, FilesBut
  <2>4. Exported(f)' /\ Rooted(f)'
    BY <1>2, <2>1, <2>e, <2>2 DEF Sound, Exported, Rooted, NoExport, NoRoot, SameCommand,
        FilesBut
  <2>5. Summarized(f)' /\ Reported(f)' /\ Rendered(f)'
    BY <1>2, <2>1, <2>e, <2>2 DEF Sound, Summarized, Reported, Rendered, Nfs, SameCommand,
        FilesBut
  <2> QED BY <2>3, <2>4, <2>5 DEF Sound
<1> QED BY <1>2, RefuseSound DEF DeleteStateDir, Outcomes

\* The record of the service belongs to the owner of the host.
LEMMA RecordServiceSound ==
    ASSUME Typed, NEW f \in Fixtures, Sound(f), Holds(f), RecordService(f)
    PROVE  Sound(f)'
<1> USE DEF FreeSteps, SetupSteps, HostSteps, BeginSteps, SharedSteps, ServiceSteps,
    InstallSteps, StopSteps, UndoSteps, RestoreSteps, ExportSteps, LastSteps, NfsSteps
<1>1. CASE st[f].service # None /\ st' = st /\ OnFiles(f, "packages")
  <2>1. /\ proc'[f].pc = "packages" /\ SameCommand(f)
        /\ st'[f] = st[f] /\ art'[f] = art[f]
    BY <1>1, GoEffect DEF Typed, OnFiles, SameCommand
  <2>2. proc[f].pc = "record"
    BY DEF RecordService, At
  <2>3. Placed(f)' /\ Marked(f)' /\ Clustered(f)'
    BY <1>1, <2>1, <2>2 DEF Sound, Placed, Marked, Clustered, Nfs, NoExport, NoRoot, Emptied,
        SameCommand
  <2>4. Exported(f)' /\ Rooted(f)'
    BY <1>1, <2>1, <2>2 DEF Sound, Exported, Rooted, NoExport, NoRoot, SameCommand
  <2>5. Summarized(f)' /\ Reported(f)' /\ Rendered(f)'
    BY <1>1, <2>1, <2>2 DEF Sound, Summarized, Reported, Rendered, Nfs, SameCommand
  <2> QED BY <2>3, <2>4, <2>5 DEF Sound
<1>2. CASE \E r \in Records : st' = [st EXCEPT ![f].service = r] /\ OnFiles(f, "packages")
  <2>0. PICK r \in Records : st' = [st EXCEPT ![f].service = r] /\ OnFiles(f, "packages")
    BY <1>2
  <2>1. /\ proc'[f].pc = "packages" /\ SameCommand(f)
        /\ art'[f] = art[f]
    BY <2>0, GoEffect DEF Typed, OnFiles, SameCommand
  <2>e. st'[f].service = r /\ FilesBut(f, {"service"})
    BY <2>0 DEF Typed, OnFiles, Files, FilesBut
  <2>2. proc[f].pc = "record"
    BY DEF RecordService, At
  <2>3. r # None
    BY NoneIsNothing
  <2>4. Placed(f)' /\ Marked(f)' /\ Clustered(f)'
    BY <2>0, <2>1, <2>e, <2>2, <2>3 DEF Sound, Placed, Marked, Clustered, Nfs, NoExport,
        NoRoot, Emptied, SameCommand, FilesBut
  <2>5. Exported(f)' /\ Rooted(f)'
    BY <2>0, <2>1, <2>e, <2>2, <2>3 DEF Sound, Exported, Rooted, NoExport, NoRoot, SameCommand,
        FilesBut
  <2>6. Summarized(f)' /\ Reported(f)' /\ Rendered(f)'
    BY <2>0, <2>1, <2>e, <2>2, <2>3 DEF Sound, Summarized, Reported, Rendered, Nfs,
        SameCommand, FilesBut
  <2> QED BY <2>4, <2>5, <2>6 DEF Sound
<1>3. \A t \in {0, host.service.threads} :
          [active |-> host.service.active, enabled |-> host.service.enabled, threads |-> t]
             \in Records
  BY DEF Typed, Hosts, Services, Records, Threads
<1> QED BY <1>1, <1>2, <1>3 DEF RecordService

\* Bootstrap makes the directory, its marker and what is in it.
LEMMA BootstrapSound ==
    ASSUME Typed, NEW f \in Fixtures, Sound(f), Holds(f), Bootstrap(f)
    PROVE  Sound(f)'
<1> USE DEF FreeSteps, SetupSteps, HostSteps, BeginSteps, SharedSteps, ServiceSteps,
    InstallSteps, StopSteps, UndoSteps, RestoreSteps, ExportSteps, LastSteps, NfsSteps
<1>1. CASE st[f].marker /\ st' = [st EXCEPT ![f].dirs = TRUE] /\ OnFiles(f, "select")
  <2>1. /\ proc'[f].pc = "select" /\ SameCommand(f)
        /\ art'[f] = art[f]
    BY <1>1, GoEffect DEF Typed, OnFiles, SameCommand
  <2>e. st'[f].dirs = TRUE /\ FilesBut(f, {"dirs"})
    BY <1>1 DEF Typed, OnFiles, Files, FilesBut
  <2>2. proc[f].pc = "bootstrap"
    BY DEF Bootstrap, At
  <2>3. Placed(f)' /\ Marked(f)' /\ Clustered(f)'
    BY <1>1, <2>1, <2>e, <2>2 DEF Sound, Placed, Marked, Clustered, Nfs, NoExport, NoRoot,
        Emptied, SameCommand, FilesBut
  <2>4. Exported(f)' /\ Rooted(f)'
    BY <1>1, <2>1, <2>e, <2>2 DEF Sound, Exported, Rooted, NoExport, NoRoot, SameCommand,
        FilesBut
  <2>5. Summarized(f)' /\ Reported(f)' /\ Rendered(f)'
    BY <1>1, <2>1, <2>e, <2>2 DEF Sound, Summarized, Reported, Rendered, Nfs, SameCommand,
        FilesBut
  <2> QED BY <2>3, <2>4, <2>5 DEF Sound
<1>2. CASE /\ ~st[f].marker /\ ~st[f].dir
           /\ st' = [st EXCEPT ![f].dir = TRUE] /\ OnFiles(f, "bootstrap")
  <2>1. /\ proc'[f].pc = "bootstrap" /\ SameCommand(f)
        /\ art'[f] = art[f]
    BY <1>2, GoEffect DEF Typed, OnFiles, SameCommand
  <2>e. st'[f].dir = TRUE /\ FilesBut(f, {"dir"})
    BY <1>2 DEF Typed, OnFiles, Files, FilesBut
  <2>2. proc[f].pc = "bootstrap"
    BY DEF Bootstrap, At
  <2>3. Placed(f)' /\ Marked(f)' /\ Clustered(f)'
    BY <1>2, <2>1, <2>e, <2>2 DEF Sound, Placed, Marked, Clustered, Nfs, NoExport, NoRoot,
        Emptied, SameCommand, FilesBut
  <2>4. Exported(f)' /\ Rooted(f)'
    BY <1>2, <2>1, <2>e, <2>2 DEF Sound, Exported, Rooted, NoExport, NoRoot, SameCommand,
        FilesBut
  <2>5. Summarized(f)' /\ Reported(f)' /\ Rendered(f)'
    BY <1>2, <2>1, <2>e, <2>2 DEF Sound, Summarized, Reported, Rendered, Nfs, SameCommand,
        FilesBut
  <2> QED BY <2>3, <2>4, <2>5 DEF Sound
<1>3. CASE st[f].dir /\ st' = [st EXCEPT ![f].marker = TRUE] /\ OnFiles(f, "bootstrap")
  <2>1. /\ proc'[f].pc = "bootstrap" /\ SameCommand(f)
        /\ art'[f] = art[f]
    BY <1>3, GoEffect DEF Typed, OnFiles, SameCommand
  <2>e. st'[f].marker = TRUE /\ FilesBut(f, {"marker"})
    BY <1>3 DEF Typed, OnFiles, Files, FilesBut
  <2>2. proc[f].pc = "bootstrap"
    BY DEF Bootstrap, At
  <2>3. Placed(f)' /\ Marked(f)' /\ Clustered(f)'
    BY <1>3, <2>1, <2>e, <2>2 DEF Sound, Placed, Marked, Clustered, Nfs, NoExport, NoRoot,
        Emptied, SameCommand, FilesBut
  <2>4. Exported(f)' /\ Rooted(f)'
    BY <1>3, <2>1, <2>e, <2>2 DEF Sound, Exported, Rooted, NoExport, NoRoot, SameCommand,
        FilesBut
  <2>5. Summarized(f)' /\ Reported(f)' /\ Rendered(f)'
    BY <1>3, <2>1, <2>e, <2>2 DEF Sound, Summarized, Reported, Rendered, Nfs, SameCommand,
        FilesBut
  <2> QED BY <2>3, <2>4, <2>5 DEF Sound
<1> QED BY <1>1, <1>2, <1>3 DEF Bootstrap

\* The marker goes into the export, or into the image mounted on it.
LEMMA MarkExportSound ==
    ASSUME Typed, NEW f \in Fixtures, Sound(f), Holds(f), MarkExport(f)
    PROVE  Sound(f)'
<1> USE DEF FreeSteps, SetupSteps, HostSteps, BeginSteps, SharedSteps, ServiceSteps,
    InstallSteps, StopSteps, UndoSteps, RestoreSteps, ExportSteps, LastSteps, NfsSteps
<1>1. CASE art[f].mounted
  <2>w. art' = [art EXCEPT ![f].image = "marked"] /\ UNCHANGED st /\ Go(f, "cluster")
    BY <1>1 DEF MarkExport, OnArt
  <2>1. /\ proc'[f].pc = "cluster" /\ SameCommand(f)
        /\ st'[f] = st[f]
    BY <1>1, <2>w, GoEffect DEF Typed, SameCommand
  <2>e. art'[f].image = "marked" /\ ArtBut(f, {"image"})
    BY <1>1, <2>w DEF Typed, Arts, ArtBut
  <2>2. proc[f].pc = "mark"
    BY DEF MarkExport, At
  <2>3. art[f].image \in {"none", "empty", "marked"}
    BY DEF Typed, Arts
  <2>4. Placed(f)' /\ Marked(f)' /\ Clustered(f)'
    BY <1>1, <2>w, <2>1, <2>e, <2>2, <2>3 DEF Sound, Placed, Marked, Clustered, Nfs, NoExport,
        NoRoot, Emptied, SameCommand, ArtBut
  <2>5. Exported(f)' /\ Rooted(f)'
    BY <1>1, <2>w, <2>1, <2>e, <2>2, <2>3 DEF Sound, Exported, Rooted, NoExport, NoRoot,
        SameCommand, ArtBut
  <2>6. Summarized(f)' /\ Reported(f)' /\ Rendered(f)'
    BY <1>1, <2>w, <2>1, <2>e, <2>2, <2>3 DEF Sound, Summarized, Reported, Rendered, Nfs,
        SameCommand, ArtBut
  <2> QED BY <2>4, <2>5, <2>6 DEF Sound
<1>2. CASE ~art[f].mounted /\ art[f].image = "none"
  <2>w. art' = [art EXCEPT ![f].export = "marked"] /\ UNCHANGED st /\ Go(f, "newimage")
    BY <1>2 DEF MarkExport, OnArt
  <2>1. /\ proc'[f].pc = "newimage" /\ SameCommand(f)
        /\ st'[f] = st[f]
    BY <1>2, <2>w, GoEffect DEF Typed, SameCommand
  <2>e. art'[f].export = "marked" /\ ArtBut(f, {"export"})
    BY <1>2, <2>w DEF Typed, Arts, ArtBut
  <2>2. proc[f].pc = "mark"
    BY DEF MarkExport, At
  <2>3. art[f].image \in {"none", "empty", "marked"}
    BY DEF Typed, Arts
  <2>4. Placed(f)' /\ Marked(f)' /\ Clustered(f)'
    BY <1>2, <2>w, <2>1, <2>e, <2>2, <2>3 DEF Sound, Placed, Marked, Clustered, Nfs, NoExport,
        NoRoot, Emptied, SameCommand, ArtBut
  <2>5. Exported(f)' /\ Rooted(f)'
    BY <1>2, <2>w, <2>1, <2>e, <2>2, <2>3 DEF Sound, Exported, Rooted, NoExport, NoRoot,
        SameCommand, ArtBut
  <2>6. Summarized(f)' /\ Reported(f)' /\ Rendered(f)'
    BY <1>2, <2>w, <2>1, <2>e, <2>2, <2>3 DEF Sound, Summarized, Reported, Rendered, Nfs,
        SameCommand, ArtBut
  <2> QED BY <2>4, <2>5, <2>6 DEF Sound
<1>3. CASE ~art[f].mounted /\ art[f].image # "none"
  <2>w. art' = [art EXCEPT ![f].export = "marked"] /\ UNCHANGED st /\ Go(f, "mount")
    BY <1>3 DEF MarkExport, OnArt
  <2>1. /\ proc'[f].pc = "mount" /\ SameCommand(f)
        /\ st'[f] = st[f]
    BY <1>3, <2>w, GoEffect DEF Typed, SameCommand
  <2>e. art'[f].export = "marked" /\ ArtBut(f, {"export"})
    BY <1>3, <2>w DEF Typed, Arts, ArtBut
  <2>2. proc[f].pc = "mark"
    BY DEF MarkExport, At
  <2>3. art[f].image \in {"none", "empty", "marked"}
    BY DEF Typed, Arts
  <2>4. Placed(f)' /\ Marked(f)' /\ Clustered(f)'
    BY <1>3, <2>w, <2>1, <2>e, <2>2, <2>3 DEF Sound, Placed, Marked, Clustered, Nfs, NoExport,
        NoRoot, Emptied, SameCommand, ArtBut
  <2>5. Exported(f)' /\ Rooted(f)'
    BY <1>3, <2>w, <2>1, <2>e, <2>2, <2>3 DEF Sound, Exported, Rooted, NoExport, NoRoot,
        SameCommand, ArtBut
  <2>6. Summarized(f)' /\ Reported(f)' /\ Rendered(f)'
    BY <1>3, <2>w, <2>1, <2>e, <2>2, <2>3 DEF Sound, Summarized, Reported, Rendered, Nfs,
        SameCommand, ArtBut
  <2> QED BY <2>4, <2>5, <2>6 DEF Sound
<1> QED BY <1>1, <1>2, <1>3

\* The rule for a former subnet goes, or its record is kept for the next step.
LEMMA DropOldRuleSound ==
    ASSUME Typed, NEW f \in Fixtures, Sound(f), Holds(f), DropOldRule(f)
    PROVE  Sound(f)'
<1> USE DEF FreeSteps, SetupSteps, HostSteps, BeginSteps, SharedSteps, ServiceSteps,
    InstallSteps, StopSteps, UndoSteps, RestoreSteps, ExportSteps, LastSteps, NfsSteps
<1>1. CASE st' = st /\ art' = art /\ Go(f, "oldrule")
  <2>1. /\ proc'[f].pc = "oldrule" /\ SameCommand(f)
        /\ st'[f] = st[f] /\ art'[f] = art[f]
    BY <1>1, GoEffect DEF Typed, SameCommand
  <2>2. proc[f].pc = "oldrule"
    BY DEF DropOldRule, At
  <2>3. Placed(f)' /\ Marked(f)' /\ Clustered(f)'
    BY <1>1, <2>1, <2>2 DEF Sound, Placed, Marked, Clustered, Nfs, NoExport, NoRoot, Emptied,
        SameCommand
  <2>4. Exported(f)' /\ Rooted(f)'
    BY <1>1, <2>1, <2>2 DEF Sound, Exported, Rooted, NoExport, NoRoot, SameCommand
  <2>5. Summarized(f)' /\ Reported(f)' /\ Rendered(f)'
    BY <1>1, <2>1, <2>2 DEF Sound, Summarized, Reported, Rendered, Nfs, SameCommand
  <2> QED BY <2>3, <2>4, <2>5 DEF Sound
<1>2. CASE st' = st /\ art' = art /\ Go(f, "rule")
  <2>1. /\ proc'[f].pc = "rule" /\ SameCommand(f)
        /\ st'[f] = st[f] /\ art'[f] = art[f]
    BY <1>2, GoEffect DEF Typed, SameCommand
  <2>2. proc[f].pc = "oldrule"
    BY DEF DropOldRule, At
  <2>3. Placed(f)' /\ Marked(f)' /\ Clustered(f)'
    BY <1>2, <2>1, <2>2 DEF Sound, Placed, Marked, Clustered, Nfs, NoExport, NoRoot, Emptied,
        SameCommand
  <2>4. Exported(f)' /\ Rooted(f)'
    BY <1>2, <2>1, <2>2 DEF Sound, Exported, Rooted, NoExport, NoRoot, SameCommand
  <2>5. Summarized(f)' /\ Reported(f)' /\ Rendered(f)'
    BY <1>2, <2>1, <2>2 DEF Sound, Summarized, Reported, Rendered, Nfs, SameCommand
  <2> QED BY <2>3, <2>4, <2>5 DEF Sound
<1>3. CASE st' = [st EXCEPT ![f].ufw = None] /\ art' = art /\ Go(f, "rule")
  <2>1. /\ proc'[f].pc = "rule" /\ SameCommand(f)
        /\ art'[f] = art[f]
    BY <1>3, GoEffect DEF Typed, SameCommand
  <2>e. st'[f].ufw = None /\ FilesBut(f, {"ufw"})
    BY <1>3 DEF Typed, Files, FilesBut
  <2>2. proc[f].pc = "oldrule"
    BY DEF DropOldRule, At
  <2>3. Placed(f)' /\ Marked(f)' /\ Clustered(f)'
    BY <1>3, <2>1, <2>e, <2>2 DEF Sound, Placed, Marked, Clustered, Nfs, NoExport, NoRoot,
        Emptied, SameCommand, FilesBut
  <2>4. Exported(f)' /\ Rooted(f)'
    BY <1>3, <2>1, <2>e, <2>2 DEF Sound, Exported, Rooted, NoExport, NoRoot, SameCommand,
        FilesBut
  <2>5. Summarized(f)' /\ Reported(f)' /\ Rendered(f)'
    BY <1>3, <2>1, <2>e, <2>2 DEF Sound, Summarized, Reported, Rendered, Nfs, SameCommand,
        FilesBut
  <2> QED BY <2>3, <2>4, <2>5 DEF Sound
<1> QED BY <1>1, <1>2, <1>3 DEF DropOldRule, OnHost, OnFiles, Pass

\* Teardown removes the recorded rule, then its record.
LEMMA RemoveRuleSound ==
    ASSUME Typed, NEW f \in Fixtures, Sound(f), Holds(f), RemoveRule(f)
    PROVE  Sound(f)'
<1> USE DEF FreeSteps, SetupSteps, HostSteps, BeginSteps, SharedSteps, ServiceSteps,
    InstallSteps, StopSteps, UndoSteps, RestoreSteps, ExportSteps, LastSteps, NfsSteps
<1>1. CASE st' = st /\ art' = art /\ Go(f, "rmrule")
  <2>1. /\ proc'[f].pc = "rmrule" /\ SameCommand(f)
        /\ st'[f] = st[f] /\ art'[f] = art[f]
    BY <1>1, GoEffect DEF Typed, SameCommand
  <2>2. proc[f].pc = "rmrule"
    BY DEF RemoveRule, At
  <2>3. proc[f].cmd = "teardown" /\ Nfs(f) /\ NoRoot(f)
    BY <2>2 DEF Sound, Placed
  <2>4. Placed(f)' /\ Marked(f)' /\ Clustered(f)'
    BY <1>1, <2>1, <2>2, <2>3 DEF Sound, Placed, Marked, Clustered, Nfs, NoExport, NoRoot,
        Emptied, SameCommand
  <2>5. Exported(f)' /\ Rooted(f)'
    BY <1>1, <2>1, <2>2, <2>3 DEF Sound, Exported, Rooted, NoExport, NoRoot, SameCommand
  <2>6. Summarized(f)' /\ Reported(f)' /\ Rendered(f)'
    BY <1>1, <2>1, <2>2, <2>3 DEF Sound, Summarized, Reported, Rendered, Nfs, SameCommand
  <2> QED BY <2>4, <2>5, <2>6 DEF Sound
<1>2. CASE /\ st' = st \/ st' = [st EXCEPT ![f].ufw = None]
           /\ "export" \in proc[f].ours /\ art' = art /\ Go(f, "unmount")
  <2>1. /\ proc'[f].pc = "unmount" /\ SameCommand(f)
        /\ art'[f] = art[f]
    BY <1>2, GoEffect DEF Typed, SameCommand
  <2>e. FilesBut(f, {"ufw"})
    BY <1>2 DEF Typed, Files, FilesBut
  <2>2. proc[f].pc = "rmrule"
    BY DEF RemoveRule, At
  <2>3. proc[f].cmd = "teardown" /\ Nfs(f) /\ NoRoot(f)
    BY <2>2 DEF Sound, Placed
  <2>4. Placed(f)' /\ Marked(f)' /\ Clustered(f)'
    BY <1>2, <2>1, <2>e, <2>2, <2>3 DEF Sound, Placed, Marked, Clustered, Nfs, NoExport,
        NoRoot, Emptied, SameCommand, FilesBut
  <2>5. Exported(f)' /\ Rooted(f)'
    BY <1>2, <2>1, <2>e, <2>2, <2>3 DEF Sound, Exported, Rooted, NoExport, NoRoot, SameCommand,
        FilesBut
  <2>6. Summarized(f)' /\ Reported(f)' /\ Rendered(f)'
    BY <1>2, <2>1, <2>e, <2>2, <2>3 DEF Sound, Summarized, Reported, Rendered, Nfs,
        SameCommand, FilesBut
  <2> QED BY <2>4, <2>5, <2>6 DEF Sound
<1>3. CASE /\ st' = st \/ st' = [st EXCEPT ![f].ufw = None]
           /\ "export" \notin proc[f].ours /\ art' = art /\ Go(f, "contents")
  <2>1. /\ proc'[f].pc = "contents" /\ SameCommand(f)
        /\ art'[f] = art[f]
    BY <1>3, GoEffect DEF Typed, SameCommand
  <2>e. FilesBut(f, {"ufw"})
    BY <1>3 DEF Typed, Files, FilesBut
  <2>2. proc[f].pc = "rmrule"
    BY DEF RemoveRule, At
  <2>3. proc[f].cmd = "teardown" /\ Nfs(f) /\ NoRoot(f)
    BY <2>2 DEF Sound, Placed
  <2>4. Placed(f)' /\ Marked(f)' /\ Clustered(f)'
    BY <1>3, <2>1, <2>e, <2>2, <2>3 DEF Sound, Placed, Marked, Clustered, Nfs, NoExport,
        NoRoot, Emptied, SameCommand, FilesBut
  <2>5. Exported(f)' /\ Rooted(f)'
    BY <1>3, <2>1, <2>e, <2>2, <2>3 DEF Sound, Exported, Rooted, NoExport, NoRoot, SameCommand,
        FilesBut
  <2>6. Summarized(f)' /\ Reported(f)' /\ Rendered(f)'
    BY <1>3, <2>1, <2>e, <2>2, <2>3 DEF Sound, Summarized, Reported, Rendered, Nfs,
        SameCommand, FilesBut
  <2> QED BY <2>4, <2>5, <2>6 DEF Sound
<1> QED BY <1>1, <1>2, <1>3 DEF RemoveRule, OnHost, OnFiles, Pass

\* After the stop a teardown goes on with what validation found to be its own.
LEMMA StoppedSound ==
    ASSUME Typed, NEW f \in Fixtures, Sound(f), Holds(f), Stopped(f)
    PROVE  Sound(f)'
<1> USE DEF FreeSteps, SetupSteps, HostSteps, BeginSteps, SharedSteps, ServiceSteps,
    InstallSteps, StopSteps, UndoSteps, RestoreSteps, ExportSteps, LastSteps, NfsSteps
<1>2. CASE Pass(f, "unexport") /\ "host" \in proc[f].ours /\ proc[f].cmd = "teardown"
  <2>1. /\ proc'[f].pc = "unexport" /\ SameCommand(f)
        /\ st'[f] = st[f] /\ art'[f] = art[f]
    BY <1>2, GoEffect DEF Typed, Pass, SameCommand
  <2>2. proc[f].pc = "stopped"
    BY DEF Stopped, At
  <2>3. ("unexport" \in NfsSteps => Nfs(f)) /\ ("unexport" = "emptyroot" => ~Nfs(f))
    BY <1>2, <2>2 DEF Sound, Placed, Exported, Rooted, Holds, NoExport, NoRoot
  <2>4. Placed(f)' /\ Marked(f)' /\ Clustered(f)'
    BY <1>2, <2>1, <2>2, <2>3 DEF Sound, Placed, Marked, Clustered, Nfs, NoExport, NoRoot,
        Emptied, SameCommand
  <2>5. Exported(f)' /\ Rooted(f)'
    BY <1>2, <2>1, <2>2, <2>3 DEF Sound, Exported, Rooted, NoExport, NoRoot, SameCommand
  <2>6. Summarized(f)' /\ Reported(f)' /\ Rendered(f)'
    BY <1>2, <2>1, <2>2, <2>3 DEF Sound, Summarized, Reported, Rendered, Nfs, SameCommand
  <2> QED BY <2>4, <2>5, <2>6 DEF Sound
<1>3. CASE /\ Pass(f, "unmount") /\ proc[f].cmd = "teardown"
           /\ "host" \notin proc[f].ours /\ "export" \in proc[f].ours
  <2>1. /\ proc'[f].pc = "unmount" /\ SameCommand(f)
        /\ st'[f] = st[f] /\ art'[f] = art[f]
    BY <1>3, GoEffect DEF Typed, Pass, SameCommand
  <2>2. proc[f].pc = "stopped"
    BY DEF Stopped, At
  <2>3. ("unmount" \in NfsSteps => Nfs(f)) /\ ("unmount" = "emptyroot" => ~Nfs(f))
    BY <1>3, <2>2 DEF Sound, Placed, Exported, Rooted, Holds, NoExport, NoRoot
  <2>4. Placed(f)' /\ Marked(f)' /\ Clustered(f)'
    BY <1>3, <2>1, <2>2, <2>3 DEF Sound, Placed, Marked, Clustered, Nfs, NoExport, NoRoot,
        Emptied, SameCommand
  <2>5. Exported(f)' /\ Rooted(f)'
    BY <1>3, <2>1, <2>2, <2>3 DEF Sound, Exported, Rooted, NoExport, NoRoot, SameCommand
  <2>6. Summarized(f)' /\ Reported(f)' /\ Rendered(f)'
    BY <1>3, <2>1, <2>2, <2>3 DEF Sound, Summarized, Reported, Rendered, Nfs, SameCommand
  <2> QED BY <2>4, <2>5, <2>6 DEF Sound
<1>4. CASE /\ Pass(f, "emptyroot") /\ proc[f].cmd = "teardown"
           /\ {"host", "export"} \cap proc[f].ours = {} /\ "root" \in proc[f].ours
  <2>1. /\ proc'[f].pc = "emptyroot" /\ SameCommand(f)
        /\ st'[f] = st[f] /\ art'[f] = art[f]
    BY <1>4, GoEffect DEF Typed, Pass, SameCommand
  <2>2. proc[f].pc = "stopped"
    BY DEF Stopped, At
  <2>3. ("emptyroot" \in NfsSteps => Nfs(f)) /\ ("emptyroot" = "emptyroot" => ~Nfs(f))
    BY <1>4, <2>2 DEF Sound, Placed, Exported, Rooted, Holds, NoExport, NoRoot
  <2>4. Placed(f)' /\ Marked(f)' /\ Clustered(f)'
    BY <1>4, <2>1, <2>2, <2>3 DEF Sound, Placed, Marked, Clustered, Nfs, NoExport, NoRoot,
        Emptied, SameCommand
  <2>5. Exported(f)' /\ Rooted(f)'
    BY <1>4, <2>1, <2>2, <2>3 DEF Sound, Exported, Rooted, NoExport, NoRoot, SameCommand
  <2>6. Summarized(f)' /\ Reported(f)' /\ Rendered(f)'
    BY <1>4, <2>1, <2>2, <2>3 DEF Sound, Summarized, Reported, Rendered, Nfs, SameCommand
  <2> QED BY <2>4, <2>5, <2>6 DEF Sound
<1>5. CASE Pass(f, "contents") /\ proc[f].ours = {} /\ proc[f].cmd = "teardown"
  <2>1. /\ proc'[f].pc = "contents" /\ SameCommand(f)
        /\ st'[f] = st[f] /\ art'[f] = art[f]
    BY <1>5, GoEffect DEF Typed, Pass, SameCommand
  <2>2. proc[f].pc = "stopped"
    BY DEF Stopped, At
  <2>3. ("contents" \in NfsSteps => Nfs(f)) /\ ("contents" = "emptyroot" => ~Nfs(f))
    BY <1>5, <2>2 DEF Sound, Placed, Exported, Rooted, Holds, NoExport, NoRoot
  <2>4. Placed(f)' /\ Marked(f)' /\ Clustered(f)'
    BY <1>5, <2>1, <2>2, <2>3 DEF Sound, Placed, Marked, Clustered, Nfs, NoExport, NoRoot,
        Emptied, SameCommand
  <2>5. Exported(f)' /\ Rooted(f)'
    BY <1>5, <2>1, <2>2, <2>3 DEF Sound, Exported, Rooted, NoExport, NoRoot, SameCommand
  <2>6. Summarized(f)' /\ Reported(f)' /\ Rendered(f)'
    BY <1>5, <2>1, <2>2, <2>3 DEF Sound, Summarized, Reported, Rendered, Nfs, SameCommand
  <2> QED BY <2>4, <2>5, <2>6 DEF Sound
<1> QED BY <1>2, <1>3, <1>4, <1>5, RefuseSound DEF Stopped, Outcomes, Typed, ProcTyped, IsProc

\* The marker of the export goes first, then the directory.
LEMMA RemoveExportSound ==
    ASSUME Typed, NEW f \in Fixtures, Sound(f), Holds(f), RemoveExport(f)
    PROVE  Sound(f)'
<1> USE DEF FreeSteps, SetupSteps, HostSteps, BeginSteps, SharedSteps, ServiceSteps,
    InstallSteps, StopSteps, UndoSteps, RestoreSteps, ExportSteps, LastSteps, NfsSteps
<1>1. CASE art[f].export = "marked"
  <2>1. /\ proc'[f].pc = "emptyexport" /\ SameCommand(f)
        /\ st'[f] = st[f]
    BY <1>1, GoEffect DEF RemoveExport, Typed, OnArt, SameCommand
  <2>e. art'[f].export = "empty" /\ ArtBut(f, {"export"})
    BY <1>1 DEF RemoveExport, Typed, OnArt, Arts, ArtBut
  <2>2. proc[f].pc = "emptyexport"
    BY DEF RemoveExport, At
  <2>3. proc[f].cmd = "teardown" /\ Nfs(f) /\ NoRoot(f)
    BY <2>2 DEF Sound, Placed
  <2>4. Placed(f)' /\ Marked(f)' /\ Clustered(f)'
    BY <1>1, <2>1, <2>e, <2>2, <2>3 DEF Sound, Placed, Marked, Clustered, Nfs, NoExport,
        NoRoot, Emptied, SameCommand, ArtBut
  <2>5. Exported(f)' /\ Rooted(f)'
    BY <1>1, <2>1, <2>e, <2>2, <2>3 DEF Sound, Exported, Rooted, NoExport, NoRoot, SameCommand,
        ArtBut
  <2>6. Summarized(f)' /\ Reported(f)' /\ Rendered(f)'
    BY <1>1, <2>1, <2>e, <2>2, <2>3 DEF Sound, Summarized, Reported, Rendered, Nfs,
        SameCommand, ArtBut
  <2> QED BY <2>4, <2>5, <2>6 DEF Sound
<1>2. CASE art[f].export # "marked"
  <2>1. /\ proc'[f].pc = "contents" /\ SameCommand(f)
        /\ st'[f] = st[f]
    BY <1>2, GoEffect DEF RemoveExport, Typed, OnArt, SameCommand
  <2>e. art'[f].export = "absent" /\ ArtBut(f, {"export"})
    BY <1>2 DEF RemoveExport, Typed, OnArt, Arts, ArtBut
  <2>2. proc[f].pc = "emptyexport"
    BY DEF RemoveExport, At
  <2>3. proc[f].cmd = "teardown" /\ Nfs(f) /\ NoRoot(f)
    BY <2>2 DEF Sound, Placed
  <2>4. Placed(f)' /\ Marked(f)' /\ Clustered(f)'
    BY <1>2, <2>1, <2>e, <2>2, <2>3 DEF Sound, Placed, Marked, Clustered, Nfs, NoExport,
        NoRoot, Emptied, SameCommand, ArtBut
  <2>5. Exported(f)' /\ Rooted(f)'
    BY <1>2, <2>1, <2>e, <2>2, <2>3 DEF Sound, Exported, Rooted, NoExport, NoRoot, SameCommand,
        ArtBut
  <2>6. Summarized(f)' /\ Reported(f)' /\ Rendered(f)'
    BY <1>2, <2>1, <2>e, <2>2, <2>3 DEF Sound, Summarized, Reported, Rendered, Nfs,
        SameCommand, ArtBut
  <2> QED BY <2>4, <2>5, <2>6 DEF Sound
<1> QED BY <1>1, <1>2

\* The marker of the shared root goes first, then the directory.
LEMMA RemoveSharedSound ==
    ASSUME Typed, NEW f \in Fixtures, Sound(f), Holds(f), RemoveShared(f)
    PROVE  Sound(f)'
<1> USE DEF FreeSteps, SetupSteps, HostSteps, BeginSteps, SharedSteps, ServiceSteps,
    InstallSteps, StopSteps, UndoSteps, RestoreSteps, ExportSteps, LastSteps, NfsSteps
<1>1. CASE art[f].root = "marked"
  <2>1. /\ proc'[f].pc = "emptyroot" /\ SameCommand(f)
        /\ st'[f] = st[f]
    BY <1>1, GoEffect DEF RemoveShared, Typed, OnArt, SameCommand
  <2>e. art'[f].root = "empty" /\ ArtBut(f, {"root"})
    BY <1>1 DEF RemoveShared, Typed, OnArt, Arts, ArtBut
  <2>2. proc[f].pc = "emptyroot"
    BY DEF RemoveShared, At
  <2>3. Placed(f)' /\ Marked(f)' /\ Clustered(f)'
    BY <1>1, <2>1, <2>e, <2>2 DEF Sound, Placed, Marked, Clustered, Nfs, NoExport, NoRoot,
        Emptied, SameCommand, ArtBut
  <2>4. Exported(f)' /\ Rooted(f)'
    BY <1>1, <2>1, <2>e, <2>2 DEF Sound, Exported, Rooted, NoExport, NoRoot, SameCommand,
        ArtBut
  <2>5. Summarized(f)' /\ Reported(f)' /\ Rendered(f)'
    BY <1>1, <2>1, <2>e, <2>2 DEF Sound, Summarized, Reported, Rendered, Nfs, SameCommand,
        ArtBut
  <2> QED BY <2>3, <2>4, <2>5 DEF Sound
<1>2. CASE art[f].root # "marked"
  <2>1. /\ proc'[f].pc = "contents" /\ SameCommand(f)
        /\ st'[f] = st[f]
    BY <1>2, GoEffect DEF RemoveShared, Typed, OnArt, SameCommand
  <2>e. art'[f].root = "absent" /\ ArtBut(f, {"root"})
    BY <1>2 DEF RemoveShared, Typed, OnArt, Arts, ArtBut
  <2>2. proc[f].pc = "emptyroot"
    BY DEF RemoveShared, At
  <2>3. Placed(f)' /\ Marked(f)' /\ Clustered(f)'
    BY <1>2, <2>1, <2>e, <2>2 DEF Sound, Placed, Marked, Clustered, Nfs, NoExport, NoRoot,
        Emptied, SameCommand, ArtBut
  <2>4. Exported(f)' /\ Rooted(f)'
    BY <1>2, <2>1, <2>e, <2>2 DEF Sound, Exported, Rooted, NoExport, NoRoot, SameCommand,
        ArtBut
  <2>5. Summarized(f)' /\ Reported(f)' /\ Rendered(f)'
    BY <1>2, <2>1, <2>e, <2>2 DEF Sound, Summarized, Reported, Rendered, Nfs, SameCommand,
        ArtBut
  <2> QED BY <2>3, <2>4, <2>5 DEF Sound
<1> QED BY <1>1, <1>2

\* The summary is written when every component is installed.
LEMMA WriteSummarySound ==
    ASSUME Typed, NEW f \in Fixtures, Sound(f), Holds(f), WriteSummary(f)
    PROVE  Sound(f)'
<1> USE DEF FreeSteps, SetupSteps, HostSteps, BeginSteps, SharedSteps, ServiceSteps,
    InstallSteps, StopSteps, UndoSteps, RestoreSteps, ExportSteps, LastSteps, NfsSteps
<1>1. /\ proc'[f].pc = "idle" /\ proc'[f].outcome = "done" /\ proc'[f].cmd = proc[f].cmd
     /\ proc'[f].backend = proc[f].backend
      /\ art'[f] = art[f]
  BY Typed, LeaveEffect DEF WriteSummary, Outcomes, Typed
<1>e. st'[f].summary = TRUE /\ FilesBut(f, {"summary"})
  BY Typed DEF WriteSummary, Outcomes, Typed, Files, FilesBut
<1>2. proc[f].pc = "summary"
  BY DEF WriteSummary, At
<1>3. st[f].profile /\ art[f].installed = Components \ {"probe"}
  BY <1>2 DEF Sound, Summarized, Typed, Arts, Components
<1>4. Placed(f)' /\ Marked(f)' /\ Clustered(f)'
  BY Typed, <1>1, <1>e, <1>2, <1>3 DEF Sound, Placed, Marked, Clustered, Nfs, NoExport, NoRoot,
      Emptied, FilesBut
<1>5. Exported(f)' /\ Rooted(f)'
  BY Typed, <1>1, <1>e, <1>2, <1>3 DEF Sound, Exported, Rooted, NoExport, NoRoot, FilesBut
<1>6. Summarized(f)' /\ Reported(f)' /\ Rendered(f)'
  BY Typed, <1>1, <1>e, <1>2, <1>3 DEF Sound, Summarized, Reported, Rendered, Nfs, FilesBut
<1> QED BY <1>4, <1>5, <1>6 DEF Sound

\* The worker count is restored, or a warning is given.
LEMMA RestoreThreadsSound ==
    ASSUME Typed, NEW f \in Fixtures, Sound(f), Holds(f), RestoreThreads(f)
    PROVE  Sound(f)'
<1> USE DEF FreeSteps, SetupSteps, HostSteps, BeginSteps, SharedSteps, ServiceSteps,
    InstallSteps, StopSteps, UndoSteps, RestoreSteps, ExportSteps, LastSteps, NfsSteps
<1>1. CASE UNCHANGED <<st, art>> /\ Go(f, "policy")
  <2>1. /\ proc'[f].pc = "policy" /\ SameCommand(f)
        /\ st'[f] = st[f] /\ art'[f] = art[f]
    BY <1>1, GoEffect DEF Typed, SameCommand
  <2>2. proc[f].pc = "threads"
    BY DEF RestoreThreads, At
  <2>3. Placed(f)' /\ Marked(f)' /\ Clustered(f)'
    BY <1>1, <2>1, <2>2 DEF Sound, Placed, Marked, Clustered, Nfs, NoExport, NoRoot, Emptied,
        SameCommand
  <2>4. Exported(f)' /\ Rooted(f)'
    BY <1>1, <2>1, <2>2 DEF Sound, Exported, Rooted, NoExport, NoRoot, SameCommand
  <2>5. Summarized(f)' /\ Reported(f)' /\ Rendered(f)'
    BY <1>1, <2>1, <2>2 DEF Sound, Summarized, Reported, Rendered, Nfs, SameCommand
  <2> QED BY <2>3, <2>4, <2>5 DEF Sound
<1>2. CASE UNCHANGED <<st, art>> /\ proc' = [proc EXCEPT ![f].pc = "policy", ![f].warned = TRUE]
  <2>1. /\ proc'[f].pc = "policy" /\ SameCommand(f)
        /\ st'[f] = st[f] /\ art'[f] = art[f]
    BY <1>2 DEF Typed, ProcTyped, IsProc, SameCommand
  <2>2. proc[f].pc = "threads"
    BY DEF RestoreThreads, At
  <2>3. Placed(f)' /\ Marked(f)' /\ Clustered(f)'
    BY <1>2, <2>1, <2>2 DEF Sound, Placed, Marked, Clustered, Nfs, NoExport, NoRoot, Emptied,
        SameCommand
  <2>4. Exported(f)' /\ Rooted(f)'
    BY <1>2, <2>1, <2>2 DEF Sound, Exported, Rooted, NoExport, NoRoot, SameCommand
  <2>5. Summarized(f)' /\ Reported(f)' /\ Rendered(f)'
    BY <1>2, <2>1, <2>2 DEF Sound, Summarized, Reported, Rendered, Nfs, SameCommand
  <2> QED BY <2>3, <2>4, <2>5 DEF Sound
<1> QED BY <1>1, <1>2 DEF RestoreThreads, OnHost, Pass

\* A command starts with nothing validated and nothing reported.
LEMMA StartSound ==
    ASSUME Typed, NEW f \in Fixtures, Sound(f), Holds(f), \E c \in Commands : Start(f, c)
    PROVE  Sound(f)'
<1> USE DEF FreeSteps, SetupSteps, HostSteps, BeginSteps, SharedSteps, ServiceSteps,
    InstallSteps, StopSteps, UndoSteps, RestoreSteps, ExportSteps, LastSteps, NfsSteps
<1>1. PICK c \in Commands : Start(f, c)
  OBVIOUS
<1>2. proc[f].pc = "idle" /\ UNCHANGED <<st, art>>
  BY <1>1 DEF Start, At
<1>3. /\ \/ proc'[f].pc = "idle" /\ proc'[f].outcome = "unowned"
         \/ proc'[f].pc = "bootstrap" /\ proc'[f].outcome = "none"
      /\ proc'[f].backend = proc[f].backend
  <2>1. \/ proc'[f] = [proc[f] EXCEPT !.cmd = c, !.outcome = "unowned"]
        \/ proc'[f] = [proc[f] EXCEPT !.cmd = c, !.pc = "bootstrap", !.outcome = "none",
                                      !.ours = {}]
    BY <1>1 DEF Start, Typed, ProcTyped
  <2>2. IsProc(proc[f])
    BY DEF Typed, ProcTyped
  <2> QED BY <1>2, <2>1, <2>2 DEF IsProc
<1>4. Placed(f)'
  BY <1>2, <1>3 DEF Sound, Placed, Nfs, NoExport, NoRoot
<1>5. Marked(f)'
  BY <1>2, <1>3 DEF Sound, Marked, Emptied
<1>6. Clustered(f)'
  BY <1>2, <1>3 DEF Sound, Clustered
<1>7. Exported(f)'
  BY <1>2, <1>3 DEF Sound, Exported, NoExport
<1>8. Rooted(f)'
  BY <1>2, <1>3 DEF Sound, Rooted, NoRoot
<1>9. Summarized(f)'
  BY <1>2, <1>3 DEF Sound, Summarized
<1>10. Reported(f)'
  BY <1>2, <1>3 DEF Sound, Reported
<1>11. Rendered(f)'
  BY <1>2, <1>3 DEF Sound, Rendered, Nfs
<1> QED BY <1>4, <1>5, <1>6, <1>7, <1>8, <1>9, <1>10, <1>11 DEF Sound

\* Validation finds what is the fixture's own, and refuses only the foreign.
LEMMA ValidateTeardownSound ==
    ASSUME Typed, NEW f \in Fixtures, Sound(f), Holds(f), ValidateTeardown(f)
    PROVE  Sound(f)'
<1> USE DEF FreeSteps, SetupSteps, HostSteps, BeginSteps, SharedSteps, ServiceSteps,
    InstallSteps, StopSteps, UndoSteps, RestoreSteps, ExportSteps, LastSteps, NfsSteps
<1>1. proc[f].pc = "validate" /\ proc[f].cmd = "teardown"
  BY DEF ValidateTeardown, At, Sound, Placed
<1>2. CASE /\ (IF Nfs(f) THEN NfsVerdict(f) ELSE SharedVerdict(f)) = "ok"
          /\ proc' = [proc EXCEPT ![f].pc = "stopcluster", ![f].ours = Owned(f)]
          /\ UNCHANGED <<st, art>>
  <2>1. /\ proc'[f].pc = "stopcluster" /\ proc'[f].cmd = proc[f].cmd
        /\ proc'[f].backend = proc[f].backend /\ proc'[f].ours = Owned(f)
        /\ proc'[f].outcome = proc[f].outcome
    <3>1. proc'[f] = [proc[f] EXCEPT !.pc = "stopcluster", !.ours = Owned(f)]
      BY <1>2 DEF Typed, ProcTyped
    <3>2. IsProc(proc[f])
      BY DEF Typed, ProcTyped
    <3> QED BY <3>1, <3>2 DEF IsProc
  <2>2. Nfs(f) => ("export" \in Owned(f) <=> ExportOwned(f))
    BY DEF Owned
  <2>3. ~Nfs(f) => "export" \notin Owned(f) /\ NoExport(f)
    BY DEF Owned, Sound, Placed
  <2>4. ExportOwned(f) => art[f].export \in {"empty", "marked"}
    BY DEF ExportOwned, MarkerSeen, Sound, Exported
  <2>5. Nfs(f) /\ ~ExportOwned(f) => NoExport(f)
    BY <1>2 DEF NfsVerdict, ExportOwned, MarkerSeen, Sound, Exported, NoExport, Typed, Arts
  <2>6. Nfs(f) => "root" \notin Owned(f) /\ NoRoot(f)
    BY DEF Owned, Sound, Placed
  <2>7. ~Nfs(f) => ("root" \in Owned(f) <=> art[f].root # "absent")
    BY DEF Owned
  <2>8. ~Nfs(f) => art[f].root # "foreign"
    BY <1>2 DEF SharedVerdict
  <2>9. Placed(f)'
    BY <1>1, <1>2, <2>1 DEF Sound, Placed, Nfs, NoExport, NoRoot
  <2>10. Marked(f)'
    BY <1>1, <1>2, <2>1 DEF Sound, Marked, Emptied
  <2>11. Clustered(f)'
    BY <1>1, <1>2, <2>1 DEF Sound, Clustered
  <2>12. Exported(f)'
    BY <1>1, <1>2, <2>1, <2>2, <2>3, <2>4, <2>5 DEF Sound, Exported, NoExport
  <2>13. Rooted(f)'
    BY <1>1, <1>2, <2>1, <2>6, <2>7, <2>8 DEF Sound, Rooted, NoRoot, Typed, Arts
  <2>14. Summarized(f)'
    BY <1>1, <1>2, <2>1 DEF Sound, Summarized
  <2>15. Reported(f)'
    BY <1>1, <1>2, <2>1 DEF Sound, Reported
  <2>16. Rendered(f)'
    BY <1>1, <1>2, <2>1 DEF Sound, Rendered, Nfs
  <2> QED BY <2>9, <2>10, <2>11, <2>12, <2>13, <2>14, <2>15, <2>16 DEF Sound
<1>3. Nfs(f) => /\ NfsVerdict(f) # "foreign"
                /\ NfsVerdict(f) = "unmarked" => art[f].export = "foreign"
                /\ NfsVerdict(f) \in Outcomes \cup {"ok"}
  <2>1. ExportOwned(f) \/ art[f].image # "none" \/ st[f].service # None => host.owner = f
    BY DEF ExportOwned, MarkerSeen, Sound, Exported, Holds, Involved
  <2>2. art[f].mounted => MarkerSeen(f)
    BY DEF MarkerSeen, Sound, Exported
  <2>3. f # None
    BY NoneIsNothing
  <2> QED BY <2>1, <2>2, <2>3 DEF NfsVerdict, Outcomes
<1>4. ~Nfs(f) => /\ SharedVerdict(f) # "foreign"
                 /\ SharedVerdict(f) = "unmarked" => art[f].root = "foreign"
                 /\ SharedVerdict(f) \in Outcomes \cup {"ok"}
  BY DEF SharedVerdict, Sound, Rooted, NoRoot, Outcomes, Typed, Arts
<1> QED BY <1>2, <1>3, <1>4, RefuseSound DEF ValidateTeardown

\* The owner record is claimed before anything on the host is changed.
LEMMA ClaimHostSound ==
    ASSUME Typed, NEW f \in Fixtures, Sound(f), Holds(f), ClaimHost(f)
    PROVE  Sound(f)'
<1> USE DEF FreeSteps, SetupSteps, HostSteps, BeginSteps, SharedSteps, ServiceSteps,
    InstallSteps, StopSteps, UndoSteps, RestoreSteps, ExportSteps, LastSteps, NfsSteps
<1>1. proc[f].cmd = "setup"
  BY DEF ClaimHost, At, Sound, Placed
<1>2. CASE UNCHANGED <<st, art>> /\ Go(f, "record")
  <2>1. /\ proc'[f].pc = "record" /\ SameCommand(f)
        /\ st'[f] = st[f] /\ art'[f] = art[f]
    BY <1>2, GoEffect DEF Typed, SameCommand
  <2>2. proc[f].pc = "claim"
    BY DEF ClaimHost, At
  <2>3. Placed(f)' /\ Marked(f)' /\ Clustered(f)'
    BY <1>2, <2>1, <2>2 DEF Sound, Placed, Marked, Clustered, Nfs, NoExport, NoRoot, Emptied,
        SameCommand
  <2>4. Exported(f)' /\ Rooted(f)'
    BY <1>2, <2>1, <2>2 DEF Sound, Exported, Rooted, NoExport, NoRoot, SameCommand
  <2>5. Summarized(f)' /\ Reported(f)' /\ Rendered(f)'
    BY <1>2, <2>1, <2>2 DEF Sound, Summarized, Reported, Rendered, Nfs, SameCommand
  <2> QED BY <2>3, <2>4, <2>5 DEF Sound
<1> QED BY <1>1, <1>2, RefuseSound DEF ClaimHost, Outcomes, ClaimVerdict, OnHost

\* A stop is refused in front of another fixture's host.
LEMMA CheckStopSound ==
    ASSUME Typed, NEW f \in Fixtures, Sound(f), Holds(f), CheckStop(f)
    PROVE  Sound(f)'
<1> USE DEF FreeSteps, SetupSteps, HostSteps, BeginSteps, SharedSteps, ServiceSteps,
    InstallSteps, StopSteps, UndoSteps, RestoreSteps, ExportSteps, LastSteps, NfsSteps
<1>2. CASE Pass(f, "stopcluster")
  <2>1. /\ proc'[f].pc = "stopcluster" /\ SameCommand(f)
        /\ st'[f] = st[f] /\ art'[f] = art[f]
    BY <1>2, GoEffect DEF Typed, Pass, SameCommand
  <2>2. proc[f].pc = "checkstop"
    BY DEF CheckStop, At
  <2>3. proc[f].cmd = "stop"
    BY <2>2 DEF Sound, Placed
  <2>4. Placed(f)' /\ Marked(f)' /\ Clustered(f)'
    BY <1>2, <2>1, <2>2, <2>3 DEF Sound, Placed, Marked, Clustered, Nfs, NoExport, NoRoot,
        Emptied, SameCommand
  <2>5. Exported(f)' /\ Rooted(f)'
    BY <1>2, <2>1, <2>2, <2>3 DEF Sound, Exported, Rooted, NoExport, NoRoot, SameCommand
  <2>6. Summarized(f)' /\ Reported(f)' /\ Rendered(f)'
    BY <1>2, <2>1, <2>2, <2>3 DEF Sound, Summarized, Reported, Rendered, Nfs, SameCommand
  <2> QED BY <2>4, <2>5, <2>6 DEF Sound
<1>1. proc[f].cmd = "stop"
  BY DEF CheckStop, At, Sound, Placed
<1> QED BY <1>1, <1>2, RefuseSound DEF CheckStop, Outcomes, StopVerdict

\* The rule is recorded before it is added.
LEMMA RecordRuleSound ==
    ASSUME Typed, NEW f \in Fixtures, Sound(f), Holds(f), RecordRule(f)
    PROVE  Sound(f)'
<1> USE DEF FreeSteps, SetupSteps, HostSteps, BeginSteps, SharedSteps, ServiceSteps,
    InstallSteps, StopSteps, UndoSteps, RestoreSteps, ExportSteps, LastSteps, NfsSteps
<1>1. \E r : st' = [st EXCEPT ![f].ufw = r]
  BY DEF RecordRule
<1>2. PICK r : st' = [st EXCEPT ![f].ufw = r]
  BY <1>1
<1>3. UNCHANGED art /\ Go(f, "allow")
  BY DEF RecordRule, OnFiles
<1> QED
  <2>1. /\ proc'[f].pc = "allow" /\ SameCommand(f)
        /\ art'[f] = art[f]
    BY <1>2, <1>3, GoEffect DEF Typed, SameCommand
  <2>e. st'[f].ufw = r /\ FilesBut(f, {"ufw"})
    BY <1>2, <1>3 DEF Typed, Files, FilesBut
  <2>2. proc[f].pc = "rule"
    BY DEF RecordRule, At
  <2>3. Placed(f)' /\ Marked(f)' /\ Clustered(f)'
    BY <1>2, <1>3, <2>1, <2>e, <2>2 DEF Sound, Placed, Marked, Clustered, Nfs, NoExport,
        NoRoot, Emptied, SameCommand, FilesBut
  <2>4. Exported(f)' /\ Rooted(f)'
    BY <1>2, <1>3, <2>1, <2>e, <2>2 DEF Sound, Exported, Rooted, NoExport, NoRoot, SameCommand,
        FilesBut
  <2>5. Summarized(f)' /\ Reported(f)' /\ Rendered(f)'
    BY <1>2, <1>3, <2>1, <2>e, <2>2 DEF Sound, Summarized, Reported, Rendered, Nfs,
        SameCommand, FilesBut
  <2> QED BY <2>3, <2>4, <2>5 DEF Sound

\* Only a cluster with its marker is deleted.
LEMMA StopClusterSound ==
    ASSUME Typed, NEW f \in Fixtures, Sound(f), Holds(f), StopCluster(f)
    PROVE  Sound(f)'
<1> USE DEF FreeSteps, SetupSteps, HostSteps, BeginSteps, SharedSteps, ServiceSteps,
    InstallSteps, StopSteps, UndoSteps, RestoreSteps, ExportSteps, LastSteps, NfsSteps
<1>1. /\ UNCHANGED st
      /\ \/ art' = art /\ ~st[f].cluster
         \/ art' = [art EXCEPT ![f].cluster = "none", ![f].installed = {}]
  BY DEF StopCluster, OnArt
<1>2. CASE Nfs(f)
  <2>w. Go(f, "stopservice")
    BY <1>2 DEF StopCluster, OnArt
  <2>1. /\ proc'[f].pc = "stopservice" /\ SameCommand(f)
        /\ st'[f] = st[f]
    BY <1>1, <1>2, <2>w, GoEffect DEF Typed, SameCommand
  <2>e. /\ art'[f].cluster \in {art[f].cluster, "none"}
        /\ art'[f].installed \in {art[f].installed, {}}
        /\ art'[f].cluster = "none" \/ art'[f].installed = art[f].installed
        /\ ArtBut(f, {"cluster", "installed"})
    BY <1>1, <1>2, <2>w DEF Typed, Arts, ArtBut
  <2>2. proc[f].pc = "stopcluster"
    BY DEF StopCluster, At
  <2>3. art'[f].cluster \in {"none", "foreign"} /\ (art'[f].cluster = "foreign" => ~st[f].cluster)
    BY <1>1 DEF Typed, Arts, Sound, Clustered
  <2>4. Placed(f)' /\ Marked(f)' /\ Clustered(f)'
    BY <1>1, <1>2, <2>w, <2>1, <2>e, <2>2, <2>3 DEF Sound, Placed, Marked, Clustered, Nfs,
        NoExport, NoRoot, Emptied, SameCommand, ArtBut
  <2>5. Exported(f)' /\ Rooted(f)'
    BY <1>1, <1>2, <2>w, <2>1, <2>e, <2>2, <2>3 DEF Sound, Exported, Rooted, NoExport, NoRoot,
        SameCommand, ArtBut
  <2>6. Summarized(f)' /\ Reported(f)' /\ Rendered(f)'
    BY <1>1, <1>2, <2>w, <2>1, <2>e, <2>2, <2>3 DEF Sound, Summarized, Reported, Rendered, Nfs,
        SameCommand, ArtBut
  <2> QED BY <2>4, <2>5, <2>6 DEF Sound
<1>3. CASE ~Nfs(f)
  <2>w. Go(f, "stopped")
    BY <1>3 DEF StopCluster, OnArt
  <2>1. /\ proc'[f].pc = "stopped" /\ SameCommand(f)
        /\ st'[f] = st[f]
    BY <1>1, <1>3, <2>w, GoEffect DEF Typed, SameCommand
  <2>e. /\ art'[f].cluster \in {art[f].cluster, "none"}
        /\ art'[f].installed \in {art[f].installed, {}}
        /\ art'[f].cluster = "none" \/ art'[f].installed = art[f].installed
        /\ ArtBut(f, {"cluster", "installed"})
    BY <1>1, <1>3, <2>w DEF Typed, Arts, ArtBut
  <2>2. proc[f].pc = "stopcluster"
    BY DEF StopCluster, At
  <2>3. art'[f].cluster \in {"none", "foreign"} /\ (art'[f].cluster = "foreign" => ~st[f].cluster)
    BY <1>1 DEF Typed, Arts, Sound, Clustered
  <2>4. Placed(f)' /\ Marked(f)' /\ Clustered(f)'
    BY <1>1, <1>3, <2>w, <2>1, <2>e, <2>2, <2>3 DEF Sound, Placed, Marked, Clustered, Nfs,
        NoExport, NoRoot, Emptied, SameCommand, ArtBut
  <2>5. Exported(f)' /\ Rooted(f)'
    BY <1>1, <1>3, <2>w, <2>1, <2>e, <2>2, <2>3 DEF Sound, Exported, Rooted, NoExport, NoRoot,
        SameCommand, ArtBut
  <2>6. Summarized(f)' /\ Reported(f)' /\ Rendered(f)'
    BY <1>1, <1>3, <2>w, <2>1, <2>e, <2>2, <2>3 DEF Sound, Summarized, Reported, Rendered, Nfs,
        SameCommand, ArtBut
  <2> QED BY <2>4, <2>5, <2>6 DEF Sound
<1> QED BY <1>2, <1>3

\* Past the lock each command goes its own way.
LEMMA HostLockSound ==
    ASSUME Typed, NEW f \in Fixtures, Sound(f), Holds(f), HostLock(f)
    PROVE  Sound(f)'
<1> USE DEF FreeSteps, SetupSteps, HostSteps, BeginSteps, SharedSteps, ServiceSteps,
    InstallSteps, StopSteps, UndoSteps, RestoreSteps, ExportSteps, LastSteps, NfsSteps
<1>1. CASE /\ UNCHANGED <<st, art>>
           /\ Go(f, CASE proc[f].cmd = "setup" -> IF Nfs(f) THEN "claim" ELSE "packages"
                      [] proc[f].cmd = "stop" -> "checkstop"
                      [] OTHER -> "validate")
  <2>1. proc[f].pc = "lock" /\ proc[f].cmd \in Commands
    BY DEF HostLock, At, Typed, ProcTyped, IsProc
  <2>2. /\ proc'[f].cmd = proc[f].cmd /\ proc'[f].backend = proc[f].backend
        /\ proc'[f].outcome = proc[f].outcome /\ st'[f] = st[f] /\ art'[f] = art[f]
        /\ \/ proc'[f].pc = "claim" /\ Nfs(f) /\ proc[f].cmd = "setup"
           \/ proc'[f].pc = "packages" /\ ~Nfs(f) /\ proc[f].cmd = "setup"
           \/ proc'[f].pc = "checkstop" /\ proc[f].cmd = "stop"
           \/ proc'[f].pc = "validate" /\ proc[f].cmd = "teardown"
    BY <1>1, <2>1, GoEffect DEF Typed, Commands
  <2>3. Placed(f)'
    BY <2>1, <2>2 DEF Sound, Placed, Nfs, NoExport, NoRoot
  <2>4. Marked(f)'
    BY <2>1, <2>2 DEF Sound, Marked, Emptied
  <2>5. Clustered(f)'
    BY <2>1, <2>2 DEF Sound, Clustered
  <2>6. Exported(f)'
    BY <2>1, <2>2 DEF Sound, Exported, NoExport
  <2>7. Rooted(f)'
    BY <2>1, <2>2 DEF Sound, Rooted, NoRoot
  <2>8. Summarized(f)'
    BY <2>1, <2>2 DEF Sound, Summarized
  <2>9. Reported(f)'
    BY <2>1, <2>2 DEF Sound, Reported
  <2>10. Rendered(f)'
    BY <2>1, <2>2 DEF Sound, Rendered, Nfs
  <2> QED BY <2>3, <2>4, <2>5, <2>6, <2>7, <2>8, <2>9, <2>10 DEF Sound
<1> QED BY <1>1, RefuseSound DEF HostLock, Outcomes

\* What is left of the state directory's contents goes in any order: the resources
\* they stand for are gone.
LEMMA DeleteContentsSound ==
    ASSUME Typed, NEW f \in Fixtures, Sound(f), Holds(f), DeleteContents(f)
    PROVE  Sound(f)'
<1> USE DEF FreeSteps, SetupSteps, HostSteps, BeginSteps, SharedSteps, ServiceSteps,
    InstallSteps, StopSteps, UndoSteps, RestoreSteps, ExportSteps, LastSteps, NfsSteps
<1>1. /\ proc[f].pc = "contents" /\ proc'[f].pc = "contents" /\ SameCommand(f)
      /\ art'[f] = art[f]
  BY GoEffect DEF DeleteContents, OnFiles, At, Typed, SameCommand
<1>2. PICK c \in Contents : st'[f] = Without(st[f], c)
  BY DEF DeleteContents, Typed
<1>3. st[f] \in Files
  BY DEF Typed
<1>4. /\ st'[f].dir = st[f].dir /\ st'[f].marker = st[f].marker
      /\ st'[f].summary => st[f].summary
      /\ st'[f].cluster => st[f].cluster
      /\ st'[f].service \in {st[f].service, None}
      /\ st'[f].exports \in {st[f].exports, None}
      /\ st'[f].daemon => st[f].daemon
  BY <1>2, <1>3 DEF Without, Files
<1>5. Placed(f)' /\ Marked(f)' /\ Clustered(f)'
  BY <1>1, <1>4 DEF Sound, Placed, Marked, Clustered, Nfs, NoExport, NoRoot, SameCommand
<1>6. Exported(f)' /\ Rooted(f)'
  BY <1>1, <1>4 DEF Sound, Exported, Rooted, NoExport, NoRoot, SameCommand
<1>7. Summarized(f)' /\ Reported(f)' /\ Rendered(f)'
  BY <1>1, <1>4 DEF Sound, Clustered, Placed, Summarized, Reported, Rendered, Nfs, SameCommand
<1> QED BY <1>5, <1>6, <1>7 DEF Sound

\* A step of the migration that raises removes the temporary image.
LEMMA MigrationRaisesSound ==
    ASSUME Typed, NEW f \in Fixtures, Sound(f), Holds(f), MigrationRaises(f)
    PROVE  Sound(f)'
<1> USE DEF FreeSteps, SetupSteps, HostSteps, BeginSteps, SharedSteps, ServiceSteps,
    InstallSteps, StopSteps, UndoSteps, RestoreSteps, ExportSteps, LastSteps, NfsSteps
<1>1. /\ proc'[f].pc = "idle" /\ proc'[f].cmd = proc[f].cmd
      /\ proc'[f].backend = proc[f].backend /\ proc'[f].outcome = "failed"
      /\ st'[f] = st[f]
  BY LeaveEffect DEF MigrationRaises, Typed, Outcomes
<1>2. /\ proc[f].pc \in {"copy", "detach", "replace"}
      /\ art'[f].new = "none" /\ art'[f].migration = FALSE
      /\ ArtBut(f, {"new", "migration"})
  BY DEF MigrationRaises, Typed, Arts, ArtBut
<1>3. Placed(f)' /\ Marked(f)' /\ Clustered(f)'
  BY <1>1, <1>2 DEF Sound, Placed, Marked, Clustered, Nfs, NoExport, NoRoot, ArtBut
<1>4. Exported(f)' /\ Rooted(f)'
  BY <1>1, <1>2 DEF Sound, Exported, Rooted, NoExport, NoRoot, ArtBut
<1>5. Summarized(f)' /\ Reported(f)' /\ Rendered(f)'
  BY <1>1, <1>2 DEF Sound, Summarized, Reported, Rendered, Nfs, ArtBut
<1> QED BY <1>3, <1>4, <1>5 DEF Sound

\* A command that dies leaves the files and resources as they are.
LEMMA DieSound ==
    ASSUME Typed, NEW f \in Fixtures, Sound(f), Holds(f), Die(f)
    PROVE  Sound(f)'
<1> USE DEF FreeSteps, SetupSteps, HostSteps, BeginSteps, SharedSteps, ServiceSteps,
    InstallSteps, StopSteps, UndoSteps, RestoreSteps, ExportSteps, LastSteps, NfsSteps
<1>1. /\ proc'[f].pc = "idle" /\ proc'[f].cmd = proc[f].cmd
      /\ proc'[f].backend = proc[f].backend /\ proc'[f].outcome = "failed"
      /\ proc[f].pc \notin {"idle", "unused"} /\ st' = st /\ art' = art
  BY LeaveEffect DEF Die, At, Typed, Outcomes
<1>2. Placed(f)' /\ Marked(f)' /\ Clustered(f)'
  BY <1>1 DEF Sound, Placed, Marked, Clustered, Nfs, NoExport, NoRoot
<1>3. Exported(f)' /\ Rooted(f)'
  BY <1>1 DEF Sound, Exported, Rooted, NoExport, NoRoot
<1>4. Summarized(f)' /\ Reported(f)' /\ Rendered(f)'
  BY <1>1 DEF Sound, Summarized, Reported, Rendered, Nfs
<1> QED BY <1>2, <1>3, <1>4 DEF Sound

\* Sound: what every command does first.
LEMMA CommonSound ==
    ASSUME Typed, NEW f \in Fixtures, Sound(f), Holds(f), Common(f)
    PROVE  Sound(f)'
<1> USE DEF Sound, Placed, Marked, Clustered, Exported, Rooted, Summarized, Reported, Rendered,
    At, Nfs, NoExport, NoRoot, Emptied, FreeSteps, SetupSteps, HostSteps, BeginSteps,
    SharedSteps, ServiceSteps, InstallSteps, StopSteps, UndoSteps, RestoreSteps, ExportSteps,
    LastSteps, NfsSteps
<1>1. CASE \E c \in Commands : Start(f, c)
  BY <1>1, StartSound
<1>2. CASE Bootstrap(f)
  BY <1>2, BootstrapSound
<1>3. CASE SelectBackend(f)
  BY <1>3, GoEffect DEF Typed, SelectBackend, OnFiles, world
<1>4. CASE InvalidateSummary(f)
  BY <1>4, GoEffect DEF Typed, InvalidateSummary, OnFiles, world
<1>5. CASE HostLock(f)
  BY <1>5, HostLockSound
<1>6. CASE ClaimHost(f)
  BY <1>6, ClaimHostSound
<1> HIDE DEF Sound
<1> QED BY <1>1, <1>2, <1>3, <1>4, <1>5, <1>6 DEF Common

\* Sound: setup, the host and the cluster.
LEMMA SetupHostSound ==
    ASSUME Typed, NEW f \in Fixtures, Sound(f), Holds(f), SetupHost(f)
    PROVE  Sound(f)'
<1> USE DEF Sound, Placed, Marked, Clustered, Exported, Rooted, Summarized, Reported, Rendered,
    At, Nfs, NoExport, NoRoot, Emptied, FreeSteps, SetupSteps, HostSteps, BeginSteps,
    SharedSteps, ServiceSteps, InstallSteps, StopSteps, UndoSteps, RestoreSteps, ExportSteps,
    LastSteps, NfsSteps
<1>1. CASE RecordService(f)
  BY <1>1, RecordServiceSound
<1>2. CASE InstallPackages(f)
  BY <1>2, GoEffect DEF Typed, InstallPackages, OnHost, world
<1>3. CASE EnsureTools(f)
  BY <1>3, GoEffect DEF Typed, EnsureTools, Pass, world
<1>4. CASE ClaimCluster(f)
  BY <1>4, ClaimClusterSound
<1>5. CASE DropUnmountedCluster(f)
  BY <1>5, GoEffect, SMTT(30) DEF Typed, DropUnmountedCluster, OnArt, ClusterExists, world
<1>6. CASE JournalExport(f)
  BY <1>6, JournalExportSound
<1>7. CASE MakeExport(f)
  BY <1>7, GoEffect DEF Typed, MakeExport, OnArt, world
<1>8. CASE MarkExport(f)
  BY <1>8, MarkExportSound
<1>9. CASE NewImage(f)
  BY <1>9, NewImageSound
<1>10. CASE CopyExport(f)
  BY <1>10, GoEffect DEF Typed, CopyExport, OnArt, world
<1>11. CASE DetachMigration(f)
  BY <1>11, GoEffect DEF Typed, DetachMigration, OnArt, world
<1>12. CASE ReplaceImage(f)
  BY <1>12, GoEffect DEF Typed, ReplaceImage, OnArt, world
<1>13. CASE MountExport(f)
  BY <1>13, GoEffect DEF Typed, MountExport, world
<1>14. CASE JournalShared(f)
  BY <1>14, JournalSharedSound
<1>15. CASE MakeShared(f)
  BY <1>15, GoEffect DEF Typed, MakeShared, OnArt, world
<1>16. CASE KeepCluster(f)
  BY <1>16, GoEffect DEF Typed, KeepCluster, Pass, world
<1>17. CASE DeleteCluster(f)
  BY <1>17, GoEffect DEF Typed, DeleteCluster, OnArt, ClusterExists, world
<1>18. CASE CreateCluster(f)
  BY <1>18, GoEffect DEF Typed, CreateCluster, OnArt, ClusterExists, world
<1>19. CASE CreatedCluster(f)
  BY <1>19, GoEffect DEF Typed, CreatedCluster, OnArt, world
<1>20. CASE WaitForCluster(f)
  BY <1>20, GoEffect, SMTT(30) DEF Typed, WaitForCluster, Pass, world
<1>21. CASE RecordProfile(f)
  BY <1>21, GoEffect, SMTT(30) DEF Typed, RecordProfile, OnFiles, world
<1> HIDE DEF Sound
<1> QED BY <1>1, <1>2, <1>3, <1>4, <1>5, <1>6, <1>7, <1>8, <1>9, <1>10, <1>11, <1>12, <1>13,
    <1>14, <1>15, <1>16, <1>17, <1>18, <1>19, <1>20, <1>21 DEF SetupHost

\* Sound: setup, the services.
LEMMA SetupServicesSound ==
    ASSUME Typed, NEW f \in Fixtures, Sound(f), Holds(f), SetupServices(f)
    PROVE  Sound(f)'
<1> USE DEF Sound, Placed, Marked, Clustered, Exported, Rooted, Summarized, Reported, Rendered,
    At, Nfs, NoExport, NoRoot, Emptied, FreeSteps, SetupSteps, HostSteps, BeginSteps,
    SharedSteps, ServiceSteps, InstallSteps, StopSteps, UndoSteps, RestoreSteps, ExportSteps,
    LastSteps, NfsSteps
<1>1. CASE WriteSources(f)
  BY <1>1, WriteSourcesSound
<1>2. CASE InstallExports(f)
  BY <1>2, GoEffect DEF Typed, InstallExports, OnHost, world
<1>3. CASE InstallDaemon(f)
  BY <1>3, GoEffect DEF Typed, InstallDaemon, OnHost, world
<1>4. CASE DropOldRule(f)
  BY <1>4, DropOldRuleSound
<1>5. CASE RecordRule(f)
  BY <1>5, RecordRuleSound
<1>6. CASE AllowRule(f)
  BY <1>6, GoEffect DEF Typed, AllowRule, OnHost, world
<1>7. CASE Serve(f)
  BY <1>7, GoEffect DEF Typed, Serve, OnHost, world
<1>8. CASE RaiseHeadroom(f)
  BY <1>8, GoEffect DEF Typed, RaiseHeadroom, Pass, OnHost, world
<1>9. CASE InstallStorage(f)
  BY <1>9, GoEffect DEF Typed, InstallStorage, Install, OnArt, world
<1>10. CASE CleanProbe(f)
  BY <1>10, GoEffect DEF Typed, CleanProbe, Install, OnArt, world
<1>11. CASE StartProbe(f)
  BY <1>11, GoEffect DEF Typed, StartProbe, Install, OnArt, world
<1>12. CASE FinishProbe(f)
  BY <1>12, GoEffect DEF Typed, FinishProbe, Install, OnArt, world
<1>13. CASE InstallSshWorkers(f)
  BY <1>13, GoEffect DEF Typed, InstallSshWorkers, Install, OnArt, world
<1>14. CASE ScaleSshDown(f)
  BY <1>14, GoEffect DEF Typed, ScaleSshDown, Install, OnArt, world
<1>15. CASE InstallSlurm(f)
  BY <1>15, GoEffect DEF Typed, InstallSlurm, Install, OnArt, world
<1>16. CASE ScaleSshUp(f)
  BY <1>16, GoEffect DEF Typed, ScaleSshUp, Install, OnArt, world
<1>17. CASE WriteSummary(f)
  BY <1>17, WriteSummarySound
<1> HIDE DEF Sound
<1> QED BY <1>1, <1>2, <1>3, <1>4, <1>5, <1>6, <1>7, <1>8, <1>9, <1>10, <1>11, <1>12, <1>13,
    <1>14, <1>15, <1>16, <1>17 DEF SetupServices

\* Sound: stop and teardown.
LEMMA TeardownSound ==
    ASSUME Typed, NEW f \in Fixtures, Sound(f), Holds(f), Teardown(f)
    PROVE  Sound(f)'
<1> USE DEF Sound, Placed, Marked, Clustered, Exported, Rooted, Summarized, Reported, Rendered,
    At, Nfs, NoExport, NoRoot, Emptied, FreeSteps, SetupSteps, HostSteps, BeginSteps,
    SharedSteps, ServiceSteps, InstallSteps, StopSteps, UndoSteps, RestoreSteps, ExportSteps,
    LastSteps, NfsSteps
<1>1. CASE CheckStop(f)
  BY <1>1, CheckStopSound
<1>2. CASE StopCluster(f)
  BY <1>2, StopClusterSound
<1>3. CASE StopService(f)
  BY <1>3, GoEffect DEF Typed, StopService, OnHost, world
<1>4. CASE Stopped(f)
  BY <1>4, StoppedSound
<1>5. CASE ValidateTeardown(f)
  BY <1>5, ValidateTeardownSound
<1>6. CASE Unexport(f)
  BY <1>6, GoEffect DEF Typed, Unexport, OnHost, world
<1>7. CASE RemoveExports(f)
  BY <1>7, GoEffect DEF Typed, RemoveExports, OnHost, world
<1>8. CASE RemoveDaemon(f)
  BY <1>8, GoEffect DEF Typed, RemoveDaemon, OnHost, world
<1>9. CASE RestoreThreads(f)
  BY <1>9, RestoreThreadsSound
<1>10. CASE RestorePolicy(f)
  BY <1>10, GoEffect DEF Typed, RestorePolicy, OnHost, world
<1>11. CASE RemoveRule(f)
  BY <1>11, RemoveRuleSound
<1>12. CASE UnmountExport(f)
  BY <1>12, GoEffect DEF Typed, UnmountExport, OnArt, world
<1>13. CASE RemoveExport(f)
  BY <1>13, RemoveExportSound
<1>14. CASE RemoveShared(f)
  BY <1>14, RemoveSharedSound
<1>15. CASE DeleteContents(f)
  BY <1>15, DeleteContentsSound
<1>16. CASE DeleteImages(f)
  BY <1>16, GoEffect DEF Typed, DeleteImages, OnArt, world
<1>17. CASE DeleteDirs(f)
  BY <1>17, DeleteDirsSound
<1>18. CASE DeleteMarker(f)
  BY <1>18, GoEffect DEF Typed, DeleteMarker, OnFiles, world
<1>19. CASE DeleteStateDir(f)
  BY <1>19, DeleteStateDirSound
<1>20. CASE ReleaseHost(f)
  BY <1>20, LeaveEffect DEF Typed, ReleaseHost, world, Outcomes
<1> HIDE DEF Sound
<1> QED BY <1>1, <1>2, <1>3, <1>4, <1>5, <1>6, <1>7, <1>8, <1>9, <1>10, <1>11, <1>12, <1>13,
    <1>14, <1>15, <1>16, <1>17, <1>18, <1>19, <1>20 DEF Teardown

\* Sound: failures, a second command and the operator.
LEMMA FaultySound ==
    ASSUME Typed, NEW f \in Fixtures, Sound(f), Holds(f), Faulty(f)
    PROVE  Sound(f)'
<1> USE DEF Sound, Placed, Marked, Clustered, Exported, Rooted, Summarized, Reported, Rendered,
    At, Nfs, NoExport, NoRoot, Emptied, FreeSteps, SetupSteps, HostSteps, BeginSteps,
    SharedSteps, ServiceSteps, InstallSteps, StopSteps, UndoSteps, RestoreSteps, ExportSteps,
    LastSteps, NfsSteps
<1>1. CASE MigrationRaises(f)
  BY <1>1, MigrationRaisesSound
<1>2. CASE Die(f)
  BY <1>2, DieSound
<1>3. CASE SecondCommand(f)
  BY <1>3, GoEffect DEF Typed, SecondCommand, world
<1>4. CASE OperatorUnmounts(f)
  BY <1>4, GoEffect DEF Typed, OperatorUnmounts, world
<1> HIDE DEF Sound
<1> QED BY <1>1, <1>2, <1>3, <1>4 DEF Faulty

-----------------------------------------------------------------------------
(* Holds: the fixture that changes the host has its lock and owns it.      *)

\* The lock and the owner record of the other fixtures are what they were.
Others(f) ==
    \A g \in Fixtures \ {f} : (lock = g => lock' = g) /\ (host'.owner = g <=> host.owner = g)

\* A command that gives up gives the lock up, and nothing else.
LEMMA RefuseHolds ==
    ASSUME Typed, NEW f \in Fixtures, Holds(f)
    PROVE  \A o \in Outcomes : Refuse(f, o) => Holds(f)' /\ Others(f)
<1> SUFFICES ASSUME NEW o \in Outcomes, Refuse(f, o)
             PROVE  Holds(f)' /\ Others(f)
  OBVIOUS
<1> USE DEF FreeSteps, SetupSteps, HostSteps, BeginSteps, SharedSteps, ServiceSteps, InstallSteps,
        StopSteps, UndoSteps, RestoreSteps, ExportSteps, LastSteps, NfsSteps
<1>1. /\ proc'[f].pc = "idle" /\ proc'[f].backend = proc[f].backend
      /\ UNCHANGED <<host, art, st>> /\ lock' = IF lock = f THEN None ELSE lock
  BY LeaveEffect DEF Refuse, Typed
<1> QED BY <1>1, NoneIsNothing DEF Holds, Others, Involved, Nfs

\* The lock is taken, and the host claimed, only while nobody else has them.
LEMMA CommonHolds ==
    ASSUME Typed, NEW f \in Fixtures, Sound(f), Holds(f), Common(f)
    PROVE  Holds(f)' /\ Others(f)
<1> USE DEF Typed, Sound, Placed, Exported, Holds, Others, Involved, At, Nfs, NoExport,
    FreeSteps, SetupSteps, HostSteps, BeginSteps, SharedSteps, ServiceSteps, InstallSteps,
    StopSteps, UndoSteps, RestoreSteps, ExportSteps, LastSteps, NfsSteps
<1>0. f # None
  BY NoneIsNothing
<1>1. CASE \E c \in Commands : Start(f, c)
  BY <1>1, StartEffect
<1>2. CASE Bootstrap(f)
  <2>1. /\ UNCHANGED <<art, lock>> /\ host'.owner = host.owner
        /\ st'[f].service = st[f].service /\ st'[f].daemon = st[f].daemon
        /\ Go(f, "select") \/ Go(f, "bootstrap")
    BY <1>2 DEF Bootstrap, OnFiles, Files
  <2> QED BY <1>0, <1>2, <2>1, GoEffect DEF Bootstrap
<1>3. CASE SelectBackend(f)
  BY <1>0, <1>3, GoEffect DEF SelectBackend, OnFiles, world
<1>4. CASE InvalidateSummary(f)
  BY <1>0, <1>4, GoEffect DEF InvalidateSummary, OnFiles, world
<1>5. CASE HostLock(f)
  <2>1. CASE /\ lock = None \/ ~Nfs(f)
             /\ lock' = IF Nfs(f) THEN f ELSE lock
             /\ UNCHANGED <<host, art, st>>
             /\ Go(f, CASE proc[f].cmd = "setup" -> IF Nfs(f) THEN "claim" ELSE "packages"
                         [] proc[f].cmd = "stop" -> "checkstop"
                         [] OTHER -> "validate")
    <3>1. /\ proc'[f].cmd = proc[f].cmd /\ proc'[f].backend = proc[f].backend
          /\ \/ proc'[f].pc = "claim"
             \/ proc'[f].pc = "packages" /\ ~Nfs(f)
             \/ proc'[f].pc \in {"checkstop", "validate"}
      BY <2>1, GoEffect
    <3>2. /\ UNCHANGED <<host, art, st>> /\ lock' = (IF Nfs(f) THEN f ELSE lock)
          /\ lock = None \/ ~Nfs(f)
      BY <2>1
    <3>3. \A g \in Fixtures \ {f} : g # None
      BY NoneIsNothing
    <3> QED BY <1>0, <3>1, <3>2, <3>3
  <2> QED BY <1>5, <2>1, RefuseHolds DEF HostLock, Outcomes
<1>6. CASE ClaimHost(f)
  <2>1. CASE Refuse(f, "owned") \/ Refuse(f, "foreign")
    BY <2>1, RefuseHolds DEF Outcomes
  <2>2. CASE ClaimVerdict(f) = "ok" /\ host' = [host EXCEPT !.owner = f] /\ OnHost(f, "record")
    <3>1. host'.owner = f /\ host.owner \in {f, None}
      BY <2>2 DEF ClaimVerdict, Hosts
    <3>2. \A g \in Fixtures \ {f} : g # None
      BY NoneIsNothing
    <3>3. /\ proc'[f].pc = "record" /\ proc'[f].cmd = proc[f].cmd
          /\ proc'[f].backend = proc[f].backend /\ UNCHANGED <<art, st, lock>>
      BY <2>2, GoEffect DEF OnHost
    <3> QED BY <1>0, <1>6, <3>1, <3>2, <3>3 DEF ClaimHost
  <2> QED BY <1>6, <2>1, <2>2 DEF ClaimHost, ClaimVerdict
<1> HIDE DEF Holds, Others
<1> QED BY <1>1, <1>2, <1>3, <1>4, <1>5, <1>6 DEF Common

\* Setup of the host and the cluster keeps the lock and the owner.
LEMMA SetupHostHolds ==
    ASSUME Typed, NEW f \in Fixtures, Sound(f), Holds(f), SetupHost(f)
    PROVE  Holds(f)' /\ Others(f)
<1> USE DEF Typed, Sound, Placed, Exported, Holds, Others, Involved, At, Nfs, NoExport,
    FreeSteps, SetupSteps, HostSteps, BeginSteps, SharedSteps, ServiceSteps, InstallSteps,
    StopSteps, UndoSteps, RestoreSteps, ExportSteps, LastSteps, NfsSteps
<1>0. f # None
  BY NoneIsNothing
<1>1. CASE RecordService(f)
  BY <1>0, <1>1, GoEffect DEF RecordService, OnFiles, world
<1>2. CASE InstallPackages(f)
  BY <1>0, <1>2, GoEffect DEF InstallPackages, OnHost, world
<1>3. CASE EnsureTools(f)
  BY <1>0, <1>3, GoEffect DEF EnsureTools, Pass, world
<1>4. CASE ClaimCluster(f)
  <2>1. CASE /\ UNCHANGED <<art, lock>> /\ host'.owner = host.owner
             /\ st'[f].service = st[f].service /\ st'[f].daemon = st[f].daemon
             /\ (Nfs(f) /\ Go(f, "unmounted")) \/ (~Nfs(f) /\ Go(f, "shared"))
    BY <1>0, <1>4, <2>1, GoEffect DEF ClaimCluster
  <2>2. \/ Refuse(f, "foreign")
        \/ /\ UNCHANGED <<art, lock>> /\ host'.owner = host.owner
           /\ st'[f].service = st[f].service /\ st'[f].daemon = st[f].daemon
           /\ (Nfs(f) /\ Go(f, "unmounted")) \/ (~Nfs(f) /\ Go(f, "shared"))
    BY <1>4 DEF ClaimCluster, OnFiles, Files
  <2> QED BY <2>1, <2>2, RefuseHolds DEF Outcomes
<1>5. CASE DropUnmountedCluster(f)
  BY <1>0, <1>5, GoEffect DEF DropUnmountedCluster, OnArt, ClusterExists, world
<1>6. CASE JournalExport(f)
  BY <1>0, <1>6, GoEffect, LeaveEffect DEF JournalExport, Refuse, OnFiles, MarkerSeen, world,
      Outcomes
<1>7. CASE MakeExport(f)
  BY <1>0, <1>7, GoEffect DEF MakeExport, OnArt, world
<1>8. CASE MarkExport(f)
  BY <1>0, <1>8, GoEffect DEF MarkExport, OnArt, world
<1>9. CASE NewImage(f)
  BY <1>0, <1>9, GoEffect, LeaveEffect DEF NewImage, Refuse, OnArt, world, Outcomes
<1>10. CASE CopyExport(f)
  BY <1>0, <1>10, GoEffect DEF CopyExport, OnArt, world
<1>11. CASE DetachMigration(f)
  BY <1>0, <1>11, GoEffect DEF DetachMigration, OnArt, world
<1>12. CASE ReplaceImage(f)
  BY <1>0, <1>12, GoEffect DEF ReplaceImage, OnArt, world
<1>13. CASE MountExport(f)
  BY <1>0, <1>13, GoEffect DEF MountExport, world
<1>14. CASE JournalShared(f)
  <2>1. CASE /\ UNCHANGED <<art, lock>> /\ host'.owner = host.owner
             /\ st'[f].service = st[f].service /\ st'[f].daemon = st[f].daemon
             /\ Go(f, "makeshared")
    BY <1>0, <1>14, <2>1, GoEffect DEF JournalShared
  <2>2. \/ Refuse(f, "unmarked")
        \/ /\ UNCHANGED <<art, lock>> /\ host'.owner = host.owner
           /\ st'[f].service = st[f].service /\ st'[f].daemon = st[f].daemon
           /\ Go(f, "makeshared")
    BY <1>14 DEF JournalShared, OnFiles, Files
  <2> QED BY <2>1, <2>2, RefuseHolds DEF Outcomes
<1>15. CASE MakeShared(f)
  BY <1>0, <1>15, GoEffect DEF MakeShared, OnArt, world
<1>16. CASE KeepCluster(f)
  BY <1>0, <1>16, GoEffect DEF KeepCluster, Pass, world
<1>17. CASE DeleteCluster(f)
  BY <1>0, <1>17, GoEffect DEF DeleteCluster, OnArt, ClusterExists, world
<1>18. CASE CreateCluster(f)
  BY <1>0, <1>18, GoEffect DEF CreateCluster, OnArt, ClusterExists, world
<1>19. CASE CreatedCluster(f)
  BY <1>0, <1>19, GoEffect DEF CreatedCluster, OnArt, world
<1>20. CASE WaitForCluster(f)
  BY <1>0, <1>20, GoEffect DEF WaitForCluster, Pass, world
<1>21. CASE RecordProfile(f)
  BY <1>0, <1>21, GoEffect DEF RecordProfile, OnFiles, world
<1> HIDE DEF Holds, Others
<1> QED BY <1>1, <1>2, <1>3, <1>4, <1>5, <1>6, <1>7, <1>8, <1>9, <1>10, <1>11, <1>12, <1>13,
    <1>14, <1>15, <1>16, <1>17, <1>18, <1>19, <1>20, <1>21 DEF SetupHost

\* Setup of the services keeps the lock and the owner until its end.
LEMMA SetupServicesHolds ==
    ASSUME Typed, NEW f \in Fixtures, Sound(f), Holds(f), SetupServices(f)
    PROVE  Holds(f)' /\ Others(f)
<1> USE DEF Typed, Sound, Placed, Exported, Holds, Others, Involved, At, Nfs, NoExport,
    FreeSteps, SetupSteps, HostSteps, BeginSteps, SharedSteps, ServiceSteps, InstallSteps,
    StopSteps, UndoSteps, RestoreSteps, ExportSteps, LastSteps, NfsSteps
<1>0. f # None
  BY NoneIsNothing
<1>1. CASE WriteSources(f)
  BY <1>0, <1>1, GoEffect, LeaveEffect DEF WriteSources, Refuse, OnFiles, world, Outcomes
<1>2. CASE InstallExports(f)
  BY <1>0, <1>2, GoEffect DEF InstallExports, OnHost, world
<1>3. CASE InstallDaemon(f)
  BY <1>0, <1>3, GoEffect DEF InstallDaemon, OnHost, world
<1>4. CASE DropOldRule(f)
  <2>1. /\ UNCHANGED <<art, lock>> /\ host'.owner = host.owner
        /\ st'[f].service = st[f].service /\ st'[f].daemon = st[f].daemon
        /\ Go(f, "oldrule") \/ Go(f, "rule")
    BY <1>4 DEF DropOldRule, OnFiles, Files, OnHost, Pass, Hosts
  <2> QED BY <1>0, <1>4, <2>1, GoEffect DEF DropOldRule
<1>5. CASE RecordRule(f)
  BY <1>0, <1>5, GoEffect DEF RecordRule, OnFiles, world
<1>6. CASE AllowRule(f)
  BY <1>0, <1>6, GoEffect DEF AllowRule, OnHost, world
<1>7. CASE Serve(f)
  BY <1>0, <1>7, GoEffect DEF Serve, OnHost, world
<1>8. CASE RaiseHeadroom(f)
  <2>1. /\ UNCHANGED <<art, lock>> /\ host'.owner = host.owner
        /\ st'[f].service = st[f].service /\ st'[f].daemon = st[f].daemon
        /\ Go(f, "storage")
    BY <1>8 DEF RaiseHeadroom, OnHost, Pass, Hosts
  <2> QED BY <1>0, <1>8, <2>1, GoEffect DEF RaiseHeadroom
<1>9. CASE InstallStorage(f)
  BY <1>0, <1>9, GoEffect DEF InstallStorage, Install, OnArt, world
<1>10. CASE CleanProbe(f)
  BY <1>0, <1>10, GoEffect DEF CleanProbe, Install, OnArt, world
<1>11. CASE StartProbe(f)
  BY <1>0, <1>11, GoEffect DEF StartProbe, Install, OnArt, world
<1>12. CASE FinishProbe(f)
  BY <1>0, <1>12, GoEffect DEF FinishProbe, Install, OnArt, world
<1>13. CASE InstallSshWorkers(f)
  BY <1>0, <1>13, GoEffect DEF InstallSshWorkers, Install, OnArt, world
<1>14. CASE ScaleSshDown(f)
  BY <1>0, <1>14, GoEffect DEF ScaleSshDown, Install, OnArt, world
<1>15. CASE InstallSlurm(f)
  BY <1>0, <1>15, GoEffect DEF InstallSlurm, Install, OnArt, world
<1>16. CASE ScaleSshUp(f)
  BY <1>0, <1>16, GoEffect DEF ScaleSshUp, Install, OnArt, world
<1>17. CASE WriteSummary(f)
  BY <1>0, <1>17, LeaveEffect DEF WriteSummary, world, Outcomes
<1> HIDE DEF Holds, Others
<1> QED BY <1>1, <1>2, <1>3, <1>4, <1>5, <1>6, <1>7, <1>8, <1>9, <1>10, <1>11, <1>12, <1>13,
    <1>14, <1>15, <1>16, <1>17 DEF SetupServices

\* Teardown keeps the lock and the owner until it releases the host.
LEMMA TeardownHolds ==
    ASSUME Typed, NEW f \in Fixtures, Sound(f), Holds(f), Teardown(f)
    PROVE  Holds(f)' /\ Others(f)
<1> USE DEF Typed, Sound, Placed, Exported, Holds, Others, Involved, At, Nfs, NoExport,
    FreeSteps, SetupSteps, HostSteps, BeginSteps, SharedSteps, ServiceSteps, InstallSteps,
    StopSteps, UndoSteps, RestoreSteps, ExportSteps, LastSteps, NfsSteps
<1>0. f # None
  BY NoneIsNothing
<1>1. CASE CheckStop(f)
  BY <1>0, <1>1, GoEffect, LeaveEffect DEF CheckStop, Refuse, Pass, StopVerdict, world,
      Outcomes
<1>2. CASE StopCluster(f)
  BY <1>0, <1>2, GoEffect DEF StopCluster, OnArt, world
<1>3. CASE StopService(f)
  BY <1>0, <1>3, GoEffect DEF StopService, OnHost, world
<1>4. CASE Stopped(f)
  BY <1>0, <1>4, GoEffect, LeaveEffect DEF Stopped, Refuse, Pass, world, Outcomes
<1>5. CASE ValidateTeardown(f)
  <2>1. CASE /\ (IF Nfs(f) THEN NfsVerdict(f) ELSE SharedVerdict(f)) = "ok"
             /\ proc' = [proc EXCEPT ![f].pc = "stopcluster", ![f].ours = Owned(f)]
             /\ UNCHANGED <<host, art, st, lock>>
    <3>1. "host" \in Owned(f) <=> host.owner = f
      BY DEF Owned
    <3> QED BY <1>5, <2>1, <3>1, ValidateEffect, ZenonT(60) DEF ValidateTeardown
  <2>2. NfsVerdict(f) \in Outcomes \cup {"ok"} /\ SharedVerdict(f) \in Outcomes \cup {"ok"}
    BY DEF NfsVerdict, SharedVerdict, Outcomes
  <2> QED BY <1>5, <2>1, <2>2, RefuseHolds DEF ValidateTeardown
<1>6. CASE Unexport(f)
  BY <1>0, <1>6, GoEffect DEF Unexport, OnHost, world
<1>7. CASE RemoveExports(f)
  BY <1>0, <1>7, GoEffect DEF RemoveExports, OnHost, world
<1>8. CASE RemoveDaemon(f)
  BY <1>0, <1>8, GoEffect DEF RemoveDaemon, OnHost, world
<1>9. CASE RestoreThreads(f)
  <2>1. UNCHANGED <<st, art, lock>> /\ host'.owner = host.owner
    BY <1>9 DEF RestoreThreads, OnHost, Pass, Hosts
  <2>2. /\ proc'[f].pc = "policy" /\ proc'[f].cmd = proc[f].cmd
        /\ proc'[f].backend = proc[f].backend /\ proc'[f].ours = proc[f].ours
    <3>1. CASE Go(f, "policy")
      BY <3>1, GoEffect
    <3>2. CASE proc' = [proc EXCEPT ![f].pc = "policy", ![f].warned = TRUE]
      BY <3>2 DEF ProcTyped, IsProc
    <3> QED BY <1>9, <3>1, <3>2 DEF RestoreThreads, OnHost, Pass
  <2> QED BY <1>0, <1>9, <2>1, <2>2 DEF RestoreThreads
<1>10. CASE RestorePolicy(f)
  BY <1>0, <1>10, GoEffect DEF RestorePolicy, OnHost, world
<1>11. CASE RemoveRule(f)
  <2>1. /\ UNCHANGED <<art, lock>> /\ host'.owner = host.owner
        /\ st'[f].service = st[f].service /\ st'[f].daemon = st[f].daemon
        /\ Go(f, "rmrule") \/ (Go(f, "unmount") /\ "export" \in proc[f].ours) \/ Go(f, "contents")
    BY <1>11 DEF RemoveRule, OnFiles, Files, OnHost, Pass, Hosts
  <2> QED BY <1>0, <1>11, <2>1, GoEffect DEF RemoveRule
<1>12. CASE UnmountExport(f)
  BY <1>0, <1>12, GoEffect DEF UnmountExport, OnArt, world
<1>13. CASE RemoveExport(f)
  BY <1>0, <1>13, GoEffect DEF RemoveExport, OnArt, world
<1>14. CASE RemoveShared(f)
  BY <1>0, <1>14, GoEffect DEF RemoveShared, OnArt, world
<1>15. CASE DeleteContents(f)
  BY <1>0, <1>15, GoEffect DEF DeleteContents, OnFiles, Contents, Without, world
<1>16. CASE DeleteImages(f)
  BY <1>0, <1>16, GoEffect DEF DeleteImages, OnArt, world
<1>17. CASE DeleteDirs(f)
  <2>1. CASE /\ UNCHANGED <<art, lock>> /\ host'.owner = host.owner
             /\ st'[f].service = st[f].service /\ st'[f].daemon = st[f].daemon
             /\ Go(f, "rmmarker")
    BY <1>0, <1>17, <2>1, GoEffect DEF DeleteDirs
  <2>2. \/ Refuse(f, "attached")
        \/ /\ UNCHANGED <<art, lock>> /\ host'.owner = host.owner
           /\ st'[f].service = st[f].service /\ st'[f].daemon = st[f].daemon
           /\ Go(f, "rmmarker")
    BY <1>17 DEF DeleteDirs, OnFiles, Files
  <2> QED BY <2>1, <2>2, RefuseHolds DEF Outcomes
<1>18. CASE DeleteMarker(f)
  BY <1>0, <1>18, GoEffect DEF DeleteMarker, OnFiles, world
<1>19. CASE DeleteStateDir(f)
  <2>1. CASE /\ UNCHANGED <<art, lock>> /\ host'.owner = host.owner
             /\ st'[f].service = st[f].service /\ st'[f].daemon = st[f].daemon
             /\ Go(f, "release")
    BY <1>0, <1>19, <2>1, GoEffect DEF DeleteStateDir
  <2>2. \/ Refuse(f, "failed")
        \/ /\ UNCHANGED <<art, lock>> /\ host'.owner = host.owner
           /\ st'[f].service = st[f].service /\ st'[f].daemon = st[f].daemon
           /\ Go(f, "release")
    BY <1>19 DEF DeleteStateDir, OnFiles, Files
  <2> QED BY <2>1, <2>2, RefuseHolds DEF Outcomes
<1>20. CASE ReleaseHost(f)
  <2>1. Leave(f, "done") /\ UNCHANGED <<art, st>>
    BY <1>20 DEF ReleaseHost
  <2>2. ~Involved(f)
    BY <1>20 DEF ReleaseHost, Marked, Emptied
  <2>3. "host" \in proc[f].ours <=> host.owner = f
    BY <1>20 DEF ReleaseHost
  <2>4. host'.owner = IF host.owner = f THEN None ELSE host.owner
    BY <1>20, <2>3 DEF ReleaseHost, Hosts
  <2>5. \A g \in Fixtures \ {f} : g # None
    BY NoneIsNothing
  <2> QED BY <1>0, <2>1, <2>2, <2>4, <2>5, LeaveEffect DEF Outcomes
<1> HIDE DEF Holds, Others
<1> QED BY <1>1, <1>2, <1>3, <1>4, <1>5, <1>6, <1>7, <1>8, <1>9, <1>10, <1>11, <1>12, <1>13,
    <1>14, <1>15, <1>16, <1>17, <1>18, <1>19, <1>20 DEF Teardown

\* A failure may give the lock up, never the owner record.
LEMMA FaultyHolds ==
    ASSUME Typed, NEW f \in Fixtures, Sound(f), Holds(f), Faulty(f)
    PROVE  Holds(f)' /\ Others(f)
<1> USE DEF Typed, Sound, Placed, Exported, Holds, Others, Involved, At, Nfs, NoExport,
    FreeSteps, SetupSteps, HostSteps, BeginSteps, SharedSteps, ServiceSteps, InstallSteps,
    StopSteps, UndoSteps, RestoreSteps, ExportSteps, LastSteps, NfsSteps
<1>0. f # None
  BY NoneIsNothing
<1>1. CASE MigrationRaises(f)
  BY <1>0, <1>1, LeaveEffect DEF MigrationRaises, world, Outcomes
<1>2. CASE Die(f)
  BY <1>0, <1>2, LeaveEffect DEF Die, world, Outcomes
<1>3. CASE SecondCommand(f)
  BY <1>0, <1>3, GoEffect DEF SecondCommand, world
<1>4. CASE OperatorUnmounts(f)
  BY <1>0, <1>4, GoEffect DEF OperatorUnmounts, world
<1> HIDE DEF Holds, Others
<1> QED BY <1>1, <1>2, <1>3, <1>4 DEF Faulty

-----------------------------------------------------------------------------
(* Kept: what the host is.                                                 *)

\* The step asks nothing new of the host.
NothingNew(f) ==
    /\ st'[f].service = st[f].service /\ st'[f].exports = st[f].exports
    /\ st'[f].daemon = st[f].daemon /\ st'[f].ufw = st[f].ufw
    /\ proc'[f].pc \in {"rule", "allow"} => proc'[f].pc = proc[f].pc
    /\ proc'[f].pc \in AfterStop => proc[f].pc \in AfterStop
    /\ proc'[f].pc \in AfterUnexport => proc[f].pc \in AfterUnexport
    /\ proc'[f].pc \in AfterExports => proc[f].pc \in AfterExports
    /\ proc'[f].pc \in AfterDaemon => proc[f].pc \in AfterDaemon
    /\ proc'[f].pc \in AfterThreads => proc[f].pc \in AfterThreads
    /\ proc'[f].pc \in AfterPolicy => proc[f].pc \in AfterPolicy
    /\ proc'[f].pc \in AfterRule => proc[f].pc \in AfterRule
    /\ proc'[f].pc \in ReadySteps => proc[f].pc \in ReadySteps
    /\ proc'[f].pc = "headroom" => proc[f].pc = "headroom"

\* A warning stays, and so does a worker count.
LEMMA WarnedStays ==
    ASSUME NEW f \in Fixtures, Frame(f)
    PROVE  /\ Warned => Warned'
           /\ host' = host => (CountKept => CountKept') /\ (ServiceKept => ServiceKept')
           /\ host'.service = host.service =>
                 (CountKept => CountKept') /\ (ServiceKept => ServiceKept')
<1>1. Warned => Warned'
  BY DEF Warned, Frame
<1> QED BY <1>1 DEF Frame, CountKept, ServiceKept

\* What the owner answers for, while nothing of it changes.
LEMMA RecordsKept ==
    ASSUME NEW f \in Fixtures, Frame(f), Accounted(f), NothingNew(f), host' = host
    PROVE  Accounted(f)'
<1>1. ServiceRecorded(f)'
  BY WarnedStays DEF Accounted, ServiceRecorded, NothingNew, Frame
<1>2. Installed(f)' /\ Ruled(f)' /\ Done(f)'
  BY DEF Accounted, Installed, Ruled, Recorded, Done, NothingNew
<1>3. Undone(f)'
  BY WarnedStays DEF Accounted, Undone, NothingNew, Frame
<1> QED BY <1>1, <1>2, <1>3 DEF Accounted

\* What another fixture answers for, when the host is not touched.
LEMMA OthersRecordsKept ==
    ASSUME NEW f \in Fixtures, Frame(f), NEW g \in Fixtures \ {f}, Accounted(g), host' = host
    PROVE  Accounted(g)'
<1>1. proc'[g] = proc[g] /\ st'[g] = st[g] /\ base' = base
  BY DEF Frame
<1>2. ServiceRecorded(g)'
  BY <1>1, WarnedStays DEF Accounted, ServiceRecorded
<1>3. Installed(g)' /\ Ruled(g)' /\ Done(g)'
  BY <1>1 DEF Accounted, Installed, Ruled, Recorded, Done
<1>4. Undone(g)'
  BY <1>1, WarnedStays DEF Accounted, Undone
<1> QED BY <1>2, <1>3, <1>4 DEF Accounted

\* A step that leaves the host alone.
LEMMA HostUntouched ==
    ASSUME NEW f \in Fixtures, Frame(f), Kept, host' = host,
           host.owner = f => Accounted(f)'
    PROVE  Kept'
<1>1. Serving'
  BY DEF Kept, Serving, Frame
<1>2. host'.owner = None => Unowned'
  BY WarnedStays DEF Kept, Unowned
<1>3. ASSUME NEW g \in Fixtures, host'.owner = g
      PROVE  Accounted(g)'
  BY <1>3, OthersRecordsKept DEF Kept
<1> QED BY <1>1, <1>2, <1>3 DEF Kept

\* ... and asks nothing new of it.
LEMMA PlainKept ==
    ASSUME NEW f \in Fixtures, Frame(f), Kept, host' = host, host.owner = f => NothingNew(f)
    PROVE  Kept'
  BY HostUntouched, RecordsKept DEF Kept

\* A command that gives up.
LEMMA RefuseKept ==
    ASSUME Typed, NEW f \in Fixtures, Frame(f), Kept
    PROVE  \A o \in Outcomes : Refuse(f, o) => Kept'
<1> SUFFICES ASSUME NEW o \in Outcomes, Refuse(f, o)
             PROVE  Kept'
  OBVIOUS
<1>1. proc'[f].pc = "idle" /\ UNCHANGED <<host, st>>
  BY LeaveEffect DEF Typed, Refuse
<1>2. NothingNew(f)
  BY <1>1 DEF NothingNew, AfterStop, AfterUnexport, AfterExports, AfterDaemon, AfterThreads,
      AfterPolicy, AfterRule, ReadySteps, SetupSteps, BeginSteps, HostSteps, SharedSteps,
      ServiceSteps, InstallSteps, ExportSteps, LastSteps
<1> QED BY <1>1, <1>2, PlainKept

\* The fields of the host but for some are what they were.
HostBut(fields) ==
    /\ "owner" \notin fields => host'.owner = host.owner
    /\ "exports" \notin fields => host'.exports = host.exports
    /\ "daemon" \notin fields => host'.daemon = host.daemon
    /\ "exported" \notin fields => host'.exported = host.exported
    /\ "service" \notin fields => host'.service = host.service
    /\ "rules" \notin fields => host'.rules = host.rules
    /\ host'.ufw = host.ufw /\ host'.subnet = host.subnet

\* The service, now and before the first setup.
LEMMA ServiceTyped ==
    ASSUME Typed
    PROVE  /\ host.service.active \in BOOLEAN /\ host.service.enabled \in BOOLEAN
           /\ base.active \in BOOLEAN /\ base.enabled \in BOOLEAN
           /\ base.threads = IF base.active THEN 1 ELSE 0
  BY BasesAssumption DEF Typed, Hosts, Services

\* What a step of the owner may count on.
LEMMA OwnerHas ==
    ASSUME NEW f \in Fixtures, Frame(f), Kept, host.owner = f
    PROVE  /\ Serving /\ ServiceRecorded(f) /\ Installed(f) /\ Ruled(f) /\ Undone(f) /\ Done(f)
           /\ base' = base /\ (Warned => Warned')
  BY WarnedStays DEF Kept, Accounted, Frame

\* A step of the owner: no other fixture answers for the host.
LEMMA OwnerKept ==
    ASSUME NEW f \in Fixtures, host'.owner = f, Serving', ServiceRecorded(f)', Installed(f)',
           Ruled(f)', Undone(f)', Done(f)'
    PROVE  Kept'
  BY NoneIsNothing DEF Kept, Accounted

\* ... that leaves the service and its record alone.
LEMMA ServiceUntouched ==
    ASSUME NEW f \in Fixtures, Frame(f), Kept, host.owner = f,
           host'.service = host.service, st'[f].service = st[f].service
    PROVE  Serving' /\ ServiceRecorded(f)' /\ (CountKept => CountKept')
<1>1. Serving'
  BY OwnerHas DEF Serving
<1>2. ServiceRecorded(f)'
  BY OwnerHas, WarnedStays DEF ServiceRecorded
<1> QED BY <1>1, <1>2, WarnedStays

\* A claimed host is still as it was before the first setup.
LEMMA CommonKept ==
    ASSUME Typed, NEW f \in Fixtures, Sound(f), Holds(f), Kept, Frame(f), Common(f)
    PROVE  Kept'
<1> USE DEF Sound, Placed, Holds, At, Nfs, NothingNew, AfterStop, AfterUnexport, AfterExports,
    AfterDaemon, AfterThreads, AfterPolicy, AfterRule, ReadySteps, FreeSteps, SetupSteps,
    HostSteps, BeginSteps, SharedSteps, ServiceSteps, InstallSteps, StopSteps, UndoSteps,
    RestoreSteps, ExportSteps, LastSteps, NfsSteps
<1>1. CASE \E c \in Commands : Start(f, c)
  BY <1>1, StartEffect, PlainKept
<1>2. CASE Bootstrap(f)
  <2>1. /\ host' = host /\ FilesBut(f, {"dir", "marker", "dirs"})
        /\ Go(f, "select") \/ Go(f, "bootstrap")
    BY <1>2 DEF Bootstrap, OnFiles, Typed, Files, FilesBut
  <2> QED BY <1>2, <2>1, GoEffect, PlainKept DEF Bootstrap, FilesBut, Typed
<1>3. CASE SelectBackend(f)
  BY <1>3, GoEffect, PlainKept DEF Typed, SelectBackend, OnFiles, world
<1>4. CASE InvalidateSummary(f)
  BY <1>4, GoEffect, PlainKept DEF Typed, InvalidateSummary, OnFiles, world
<1>5. CASE HostLock(f)
  BY <1>5, GoEffect, LeaveEffect, PlainKept DEF Typed, HostLock, Refuse, world, Outcomes
<1>6. CASE ClaimHost(f)
  <2>1. CASE Refuse(f, "owned") \/ Refuse(f, "foreign")
    BY <2>1, RefuseKept DEF Outcomes
  <2>2. CASE ClaimVerdict(f) = "ok" /\ host' = [host EXCEPT !.owner = f] /\ OnHost(f, "record")
    <3>1. host.owner \in {f, None} /\ host'.owner = f /\ HostBut({"owner"})
      BY <2>2 DEF ClaimVerdict, Typed, Hosts, HostBut
    <3>2. proc'[f].pc = "record" /\ st' = st
      BY <2>2, GoEffect DEF OnHost, Typed
    <3>3. Serving' /\ (ServiceKept => ServiceKept')
      BY <3>1, WarnedStays DEF Kept, Serving, Frame, HostBut
    <3>4. Undone(f)' /\ Done(f)'
      BY <3>2 DEF Undone, Done
    <3>5. CASE host.owner = f
      <4>1. ServiceRecorded(f)'
        BY <3>1, <3>2, <3>5, ServiceUntouched DEF HostBut
      <4>2. Installed(f)' /\ Ruled(f)'
        BY <3>1, <3>2, <3>5, OwnerHas DEF Installed, Ruled, Recorded, HostBut
      <4> QED BY <3>1, <3>3, <3>4, <4>1, <4>2, OwnerKept
    <3>6. CASE host.owner = None
      <4>1. Unowned /\ ~host.daemon /\ st[f].service = None
        BY <2>2, <3>6, NoneIsNothing DEF ClaimVerdict, Kept, Involved
      <4>2. ServiceRecorded(f)'
        BY <3>2, <3>3, <4>1 DEF ServiceRecorded, Unowned
      <4>3. Installed(f)' /\ Ruled(f)'
        BY <3>1, <3>2, <4>1 DEF Installed, Ruled, Recorded, Unowned, HostBut
      <4> QED BY <3>1, <3>3, <3>4, <4>2, <4>3, OwnerKept
    <3> QED BY <3>1, <3>5, <3>6
  <2> QED BY <1>6, <2>1, <2>2 DEF ClaimHost, ClaimVerdict
<1> QED BY <1>1, <1>2, <1>3, <1>4, <1>5, <1>6 DEF Common

\* The service is recorded before a package starts it.
LEMMA SetupHostKept ==
    ASSUME Typed, NEW f \in Fixtures, Sound(f), Holds(f), Kept, Frame(f), SetupHost(f)
    PROVE  Kept'
<1> USE DEF Sound, Placed, Holds, At, Nfs, NothingNew, AfterStop, AfterUnexport, AfterExports,
    AfterDaemon, AfterThreads, AfterPolicy, AfterRule, ReadySteps, FreeSteps, SetupSteps,
    HostSteps, BeginSteps, SharedSteps, ServiceSteps, InstallSteps, StopSteps, UndoSteps,
    RestoreSteps, ExportSteps, LastSteps, NfsSteps
<1>1. CASE RecordService(f)
  <2>1. proc[f].pc = "record" /\ proc'[f].pc = "packages" /\ host' = host /\ host.owner = f
    BY <1>1, GoEffect DEF RecordService, OnFiles, Typed
  <2> HIDE DEF Sound, Placed, Holds
  <2>2. CASE st' = st
    BY <2>1, <2>2, PlainKept
  <2>3. CASE /\ st[f].service = None
             /\ \E t \in {0, host.service.threads} :
                   st' = [st EXCEPT ![f].service =
                             [active |-> host.service.active,
                              enabled |-> host.service.enabled, threads |-> t]]
    <3>1. PICK t \in {0, host.service.threads} :
             st' = [st EXCEPT ![f].service =
                       [active |-> host.service.active,
                        enabled |-> host.service.enabled, threads |-> t]]
      BY <2>3
    <3>2. [active |-> host.service.active, enabled |-> host.service.enabled, threads |-> t]
             \in Records
      BY DEF Typed, Hosts, Services, Records, Threads
    <3>3. /\ FilesBut(f, {"service"}) /\ st'[f].service # None
          /\ st'[f].service.active = host.service.active
          /\ st'[f].service.enabled = host.service.enabled
          /\ st'[f].service.threads \in {0, host.service.threads}
      BY <3>1, <3>2, NoneIsNothing DEF Typed, Files, FilesBut
    <3>4. Serving' /\ ServiceRecorded(f)'
      BY <2>1, <2>3, <3>3, OwnerHas, WarnedStays
         DEF Serving, ServiceRecorded, ServiceKept, CountKept
    <3>5. Installed(f)' /\ Ruled(f)'
      BY <2>1, <3>3, OwnerHas DEF Installed, Ruled, Recorded, FilesBut
    <3>6. Undone(f)' /\ Done(f)'
      BY <2>1 DEF Undone, Done
    <3> QED BY <2>1, <3>4, <3>5, <3>6, OwnerKept
  <2> QED BY <1>1, <2>2, <2>3 DEF RecordService
<1>2. CASE InstallPackages(f)
  <2>1. proc[f].pc = "packages" /\ proc'[f].pc = "tools" /\ st' = st
    BY <1>2, GoEffect DEF InstallPackages, OnHost, Typed
  <2>2. CASE ~Nfs(f) \/ host.service.exists
    <3>1. host' = host
      BY <1>2, <2>2 DEF InstallPackages
    <3>2. ASSUME host.owner = f PROVE Accounted(f)'
      <4>1. host.service.exists /\ ServiceRecorded(f)'
        BY <2>2, <3>1, <3>2, <2>1, ServiceUntouched
      <4>2. Installed(f)' /\ Ruled(f)'
        BY <2>1, <3>1, <3>2, OwnerHas DEF Installed, Ruled, Recorded
      <4>3. Undone(f)' /\ Done(f)'
        BY <2>1, <3>1, <4>1 DEF Undone, Done
      <4> QED BY <4>1, <4>2, <4>3 DEF Accounted
    <3> QED BY <3>1, <3>2, HostUntouched
  <2>3. CASE Nfs(f) /\ ~host.service.exists
    <3>1. host.owner = f /\ st[f].service # None
      BY <2>1, <2>3 DEF Rendered
    <3>2. /\ host'.service.exists /\ host'.service.active /\ host'.service.enabled
          /\ host'.service.threads = 1 /\ HostBut({"service"})
      BY <1>2, <2>3 DEF InstallPackages, Typed, Hosts, HostBut
    <3> HIDE DEF Sound, Placed, Holds
    <3>3. ~host.service.active
      BY <2>3, <3>1, OwnerHas DEF Serving
    <3>4. Serving' /\ ServiceRecorded(f)'
      BY <2>1, <3>1, <3>2, <3>3, OwnerHas DEF Serving, ServiceRecorded
    <3>5. Installed(f)' /\ Ruled(f)'
      BY <2>1, <3>1, <3>2, OwnerHas DEF Installed, Ruled, Recorded, HostBut
    <3>6. Undone(f)' /\ Done(f)'
      BY <2>1, <3>2 DEF Undone, Done
    <3> QED BY <3>1, <3>2, <3>4, <3>5, <3>6, OwnerKept DEF HostBut
  <2> QED BY <2>2, <2>3
<1>3. CASE EnsureTools(f)
  BY <1>3, GoEffect, PlainKept DEF Typed, EnsureTools, Pass, world
<1>4. CASE ClaimCluster(f)
  <2>1. CASE host' = host /\ FilesBut(f, {"cluster"}) /\ (Go(f, "unmounted") \/ Go(f, "shared"))
    BY <1>4, <2>1, GoEffect, PlainKept DEF ClaimCluster, FilesBut, Typed
  <2>2. \/ Refuse(f, "foreign")
        \/ /\ host' = host /\ FilesBut(f, {"cluster"})
           /\ Go(f, "unmounted") \/ Go(f, "shared")
    BY <1>4 DEF ClaimCluster, OnFiles, Typed, Files, FilesBut
  <2> QED BY <2>1, <2>2, RefuseKept DEF Outcomes
<1>5. CASE DropUnmountedCluster(f)
  BY <1>5, GoEffect, PlainKept DEF Typed, DropUnmountedCluster, OnArt, ClusterExists, world
<1>6. CASE JournalExport(f)
  <2>1. CASE host' = host /\ FilesBut(f, {"journal"}) /\ Go(f, "mkdir")
    BY <1>6, <2>1, GoEffect, PlainKept DEF JournalExport, FilesBut, Typed
  <2>2. Refuse(f, "unmarked") \/ (host' = host /\ FilesBut(f, {"journal"}) /\ Go(f, "mkdir"))
    BY <1>6 DEF JournalExport, OnFiles, Typed, Files, FilesBut
  <2> QED BY <2>1, <2>2, RefuseKept DEF Outcomes
<1>7. CASE MakeExport(f)
  BY <1>7, GoEffect, PlainKept DEF Typed, MakeExport, OnArt, world
<1>8. CASE MarkExport(f)
  BY <1>8, GoEffect, PlainKept DEF Typed, MarkExport, OnArt, world
<1>9. CASE NewImage(f)
  BY <1>9, GoEffect, LeaveEffect, PlainKept DEF Typed, NewImage, Refuse, OnArt, world, Outcomes
<1>10. CASE CopyExport(f)
  BY <1>10, GoEffect, PlainKept DEF Typed, CopyExport, OnArt, world
<1>11. CASE DetachMigration(f)
  BY <1>11, GoEffect, PlainKept DEF Typed, DetachMigration, OnArt, world
<1>12. CASE ReplaceImage(f)
  BY <1>12, GoEffect, PlainKept DEF Typed, ReplaceImage, OnArt, world
<1>13. CASE MountExport(f)
  <2>1. proc[f].pc = "mount" /\ host.owner = f
    BY <1>13 DEF MountExport
  <2> HIDE DEF Sound, Placed, Holds
  <2>2. HostBut({"exported"})
    BY <1>13 DEF MountExport, OnHost, OnFiles, Pass, Typed, Hosts, HostBut
  <2>3. proc'[f].pc = "mark"
    BY <1>13, GoEffect DEF MountExport, OnHost, OnFiles, Pass, Typed
  <2>4. st'[f] = st[f]
    BY <1>13 DEF MountExport, OnHost, OnFiles, Pass, Typed
  <2>5. Serving' /\ ServiceRecorded(f)' /\ (CountKept => CountKept')
    BY <2>1, <2>2, <2>4, ServiceUntouched DEF HostBut
  <2>6. Installed(f)' /\ Ruled(f)'
    BY <2>1, <2>2, <2>3, <2>4, OwnerHas DEF Installed, Ruled, Recorded, HostBut
  <2>7. Undone(f)' /\ Done(f)'
    BY <2>1, <2>2, <2>3, <2>4, <2>5, OwnerHas DEF Undone, Done, HostBut
  <2> QED BY <2>1, <2>2, <2>5, <2>6, <2>7, OwnerKept DEF HostBut
<1>14. CASE JournalShared(f)
  BY <1>14, GoEffect, LeaveEffect, PlainKept DEF Typed, JournalShared, Refuse, OnFiles, world,
      Outcomes
<1>15. CASE MakeShared(f)
  BY <1>15, GoEffect, PlainKept DEF Typed, MakeShared, OnArt, world
<1>16. CASE KeepCluster(f)
  BY <1>16, GoEffect, PlainKept DEF Typed, KeepCluster, Pass, world
<1>17. CASE DeleteCluster(f)
  BY <1>17, GoEffect, PlainKept DEF Typed, DeleteCluster, OnArt, ClusterExists, world
<1>18. CASE CreateCluster(f)
  BY <1>18, GoEffect, PlainKept DEF Typed, CreateCluster, OnArt, ClusterExists, world
<1>19. CASE CreatedCluster(f)
  BY <1>19, GoEffect, PlainKept DEF Typed, CreatedCluster, OnArt, world
<1>20. CASE WaitForCluster(f)
  BY <1>20, GoEffect, PlainKept DEF Typed, WaitForCluster, Pass, world
<1>21. CASE RecordProfile(f)
  BY <1>21, GoEffect, PlainKept DEF Typed, RecordProfile, OnFiles, world
<1> QED BY <1>1, <1>2, <1>3, <1>4, <1>5, <1>6, <1>7, <1>8, <1>9, <1>10, <1>11, <1>12, <1>13,
    <1>14, <1>15, <1>16, <1>17, <1>18, <1>19, <1>20, <1>21 DEF SetupHost

\* What setup installs for the owner is recorded before.
LEMMA SetupServicesKept ==
    ASSUME Typed, NEW f \in Fixtures, Sound(f), Holds(f), Kept, Frame(f), SetupServices(f)
    PROVE  Kept'
<1> USE DEF Sound, Placed, Holds, At, Nfs, NothingNew, AfterStop, AfterUnexport, AfterExports,
    AfterDaemon, AfterThreads, AfterPolicy, AfterRule, ReadySteps, FreeSteps, SetupSteps,
    HostSteps, BeginSteps, SharedSteps, ServiceSteps, InstallSteps, StopSteps, UndoSteps,
    RestoreSteps, ExportSteps, LastSteps, NfsSteps
<1>1. CASE WriteSources(f)
  <2>1. CASE Refuse(f, "changed")
    BY <2>1, RefuseKept DEF Outcomes
  <2>2. CASE /\ host.exports \in {None, st[f].exports} /\ host.daemon => st[f].daemon
             /\ st' = [st EXCEPT ![f].exports = <<f, host.subnet>>, ![f].daemon = TRUE]
             /\ OnFiles(f, "exports")
    <3>1. proc[f].pc = "sources" /\ proc'[f].pc = "exports" /\ host' = host /\ host.owner = f
      BY <1>1, <2>2, GoEffect DEF WriteSources, OnFiles, Typed
    <3> HIDE DEF Sound, Placed, Holds
    <3>2. <<f, host.subnet>> # None
      BY NoneIsNothing DEF Typed, Hosts
    <3>3. FilesBut(f, {"exports", "daemon"}) /\ st'[f].exports # None /\ st'[f].daemon
      BY <2>2, <3>2 DEF Typed, Files, FilesBut
    <3>4. Serving' /\ ServiceRecorded(f)'
      BY <3>1, <3>3, ServiceUntouched DEF FilesBut
    <3>5. Installed(f)' /\ Ruled(f)'
      BY <3>1, <3>3, OwnerHas DEF Installed, Ruled, Recorded, FilesBut
    <3>6. Undone(f)' /\ Done(f)'
      BY <3>1, OwnerHas DEF Undone, Done
    <3> QED BY <3>1, <3>4, <3>5, <3>6, OwnerKept
  <2> QED BY <1>1, <2>1, <2>2 DEF WriteSources
<1>2. CASE InstallExports(f)
  <2>1. proc[f].pc = "exports" /\ host.owner = f
    BY <1>2 DEF InstallExports
  <2> HIDE DEF Sound, Placed, Holds
  <2>2. host'.exports = st[f].exports /\ HostBut({"exports"})
    BY <1>2 DEF InstallExports, OnHost, OnFiles, Pass, Typed, Hosts, HostBut
  <2>3. proc'[f].pc = "daemon"
    BY <1>2, GoEffect DEF InstallExports, OnHost, OnFiles, Pass, Typed
  <2>4. st'[f] = st[f]
    BY <1>2 DEF InstallExports, OnHost, OnFiles, Pass, Typed
  <2>e. st[f].exports # None /\ st[f].exports[1] = f
    BY <2>1 DEF Sound, Rendered
  <2>5. Serving' /\ ServiceRecorded(f)' /\ (CountKept => CountKept')
    BY <2>1, <2>2, <2>4, ServiceUntouched DEF HostBut
  <2>6. Installed(f)' /\ Ruled(f)'
    BY <2>1, <2>2, <2>3, <2>4, <2>e, OwnerHas DEF Installed, Ruled, Recorded, HostBut
  <2>7. Undone(f)' /\ Done(f)'
    BY <2>1, <2>2, <2>3, <2>4, <2>e, <2>5, OwnerHas DEF Undone, Done, HostBut
  <2> QED BY <2>1, <2>2, <2>5, <2>6, <2>7, OwnerKept DEF HostBut
<1>3. CASE InstallDaemon(f)
  <2>1. proc[f].pc = "daemon" /\ host.owner = f
    BY <1>3 DEF InstallDaemon
  <2> HIDE DEF Sound, Placed, Holds
  <2>2. host'.daemon /\ HostBut({"daemon"})
    BY <1>3 DEF InstallDaemon, OnHost, OnFiles, Pass, Typed, Hosts, HostBut
  <2>3. proc'[f].pc = "oldrule"
    BY <1>3, GoEffect DEF InstallDaemon, OnHost, OnFiles, Pass, Typed
  <2>4. st'[f] = st[f]
    BY <1>3 DEF InstallDaemon, OnHost, OnFiles, Pass, Typed
  <2>e. st[f].daemon
    BY <2>1 DEF Sound, Rendered
  <2>5. Serving' /\ ServiceRecorded(f)' /\ (CountKept => CountKept')
    BY <2>1, <2>2, <2>4, ServiceUntouched DEF HostBut
  <2>6. Installed(f)' /\ Ruled(f)'
    BY <2>1, <2>2, <2>3, <2>4, <2>e, OwnerHas DEF Installed, Ruled, Recorded, HostBut
  <2>7. Undone(f)' /\ Done(f)'
    BY <2>1, <2>2, <2>3, <2>4, <2>e, <2>5, OwnerHas DEF Undone, Done, HostBut
  <2> QED BY <2>1, <2>2, <2>5, <2>6, <2>7, OwnerKept DEF HostBut
<1>4. CASE DropOldRule(f)
  <2>a. CASE (\E n : host' = [host EXCEPT !.rules = @ \ {n}]) /\ OnHost(f, "oldrule")
    <3>1. proc[f].pc = "oldrule" /\ host.owner = f
      BY <1>4, <2>a DEF DropOldRule
    <3> HIDE DEF Sound, Placed, Holds
    <3>2. host'.rules \subseteq host.rules /\ HostBut({"rules"})
      BY <1>4, <2>a DEF DropOldRule, OnHost, OnFiles, Pass, Typed, Hosts, HostBut
    <3>3. proc'[f].pc = "oldrule"
      BY <1>4, <2>a, GoEffect DEF DropOldRule, OnHost, OnFiles, Pass, Typed
    <3>4. st'[f] = st[f]
      BY <1>4, <2>a DEF DropOldRule, OnHost, OnFiles, Pass, Typed
    <3>5. Serving' /\ ServiceRecorded(f)' /\ (CountKept => CountKept')
      BY <3>1, <3>2, <3>4, ServiceUntouched DEF HostBut
    <3>6. Installed(f)' /\ Ruled(f)'
      BY <3>1, <3>2, <3>3, <3>4, OwnerHas DEF Installed, Ruled, Recorded, HostBut
    <3>7. Undone(f)' /\ Done(f)'
      BY <3>1, <3>2, <3>3, <3>4, <3>5, OwnerHas DEF Undone, Done, HostBut
    <3> QED BY <3>1, <3>2, <3>5, <3>6, <3>7, OwnerKept DEF HostBut
  <2>b. CASE /\ st[f].ufw # None /\ st[f].ufw.mine /\ st[f].ufw.subnet \notin host.rules
             /\ st' = [st EXCEPT ![f].ufw = None] /\ OnFiles(f, "rule")
    <3>1. proc[f].pc = "oldrule" /\ host.owner = f
      BY <1>4, <2>b DEF DropOldRule
    <3> HIDE DEF Sound, Placed, Holds
    <3>2. host' = host
      BY <1>4, <2>b DEF DropOldRule, OnHost, OnFiles, Pass, Typed, Hosts, HostBut
    <3>3. proc'[f].pc = "rule"
      BY <1>4, <2>b, GoEffect DEF DropOldRule, OnHost, OnFiles, Pass, Typed
    <3>4. st'[f].ufw = None /\ FilesBut(f, {"ufw"})
      BY <1>4, <2>b DEF DropOldRule, OnHost, OnFiles, Pass, Typed, Files, FilesBut
    <3>e. host.rules = {}
      BY <2>b, <3>1, OwnerHas DEF Ruled, Recorded
    <3>5. Serving' /\ ServiceRecorded(f)' /\ (CountKept => CountKept')
      BY <3>1, <3>2, <3>4, ServiceUntouched DEF FilesBut
    <3>6. Installed(f)' /\ Ruled(f)'
      BY <3>1, <3>2, <3>3, <3>4, <3>e, OwnerHas DEF Installed, Ruled, Recorded, FilesBut
    <3>7. Undone(f)' /\ Done(f)'
      BY <3>1, <3>2, <3>3, <3>4, <3>e, <3>5, OwnerHas DEF Undone, Done, FilesBut
    <3> QED BY <3>1, <3>2, <3>5, <3>6, <3>7, OwnerKept
  <2>c. CASE /\ Pass(f, "rule")
             /\ host.ufw /\ st[f].ufw # None /\ st[f].ufw.mine => st[f].ufw.subnet = host.subnet
    <3>1. proc[f].pc = "oldrule" /\ host.owner = f
      BY <1>4, <2>c DEF DropOldRule
    <3> HIDE DEF Sound, Placed, Holds
    <3>2. host' = host
      BY <1>4, <2>c DEF DropOldRule, OnHost, OnFiles, Pass, Typed, Hosts, HostBut
    <3>3. proc'[f].pc = "rule"
      BY <1>4, <2>c, GoEffect DEF DropOldRule, OnHost, OnFiles, Pass, Typed
    <3>4. st'[f] = st[f]
      BY <1>4, <2>c DEF DropOldRule, OnHost, OnFiles, Pass, Typed
    <3>5. Serving' /\ ServiceRecorded(f)' /\ (CountKept => CountKept')
      BY <3>1, <3>2, <3>4, ServiceUntouched
    <3>6. Installed(f)' /\ Ruled(f)'
      BY <3>1, <3>2, <3>3, <3>4, OwnerHas, <2>c DEF Installed, Ruled, Recorded
    <3>7. Undone(f)' /\ Done(f)'
      BY <3>1, <3>2, <3>3, <3>4, <3>5, OwnerHas DEF Undone, Done
    <3> QED BY <3>1, <3>2, <3>5, <3>6, <3>7, OwnerKept
  <2> QED BY <1>4, <2>a, <2>b, <2>c DEF DropOldRule
<1>5. CASE RecordRule(f)
  <2>1. proc[f].pc = "rule" /\ proc'[f].pc = "allow" /\ host' = host /\ host.owner = f
    BY <1>5, GoEffect DEF RecordRule, OnFiles, Typed
  <2> HIDE DEF Sound, Placed, Holds
  <2>2. \A n \in host.rules : Recorded(f, n) /\ (host.ufw => n = host.subnet)
    BY <2>1, OwnerHas DEF Ruled, Recorded
  <2>3. FilesBut(f, {"ufw"})
    BY <1>5 DEF RecordRule, Typed, Files, FilesBut
  <2>4. host.ufw => st'[f].ufw # None /\ st'[f].ufw.mine /\ st'[f].ufw.subnet = host.subnet
    <3>1. CASE host.ufw
      <4>1. st'[f].ufw =
               [mine |-> (st[f].ufw # None /\ st[f].ufw.mine) \/ host.subnet \notin host.rules,
                subnet |-> host.subnet]
        BY <1>5, <3>1 DEF RecordRule, Typed, Files
      <4>2. (st[f].ufw # None /\ st[f].ufw.mine) \/ host.subnet \notin host.rules
        BY <2>2 DEF Recorded
      <4>3. st'[f].ufw \in Rules
        BY <4>1 DEF Typed, Hosts, Rules
      <4>4. /\ st'[f].ufw.mine =
                  ((st[f].ufw # None /\ st[f].ufw.mine) \/ host.subnet \notin host.rules)
            /\ st'[f].ufw.subnet = host.subnet
        BY <4>1
      <4> QED BY <4>2, <4>3, <4>4, NoneIsNothing
    <3> QED BY <3>1
  <2>5. Serving' /\ ServiceRecorded(f)'
    BY <2>1, <2>3, ServiceUntouched DEF FilesBut
  <2>6. Installed(f)' /\ Ruled(f)'
    BY <2>1, <2>2, <2>3, <2>4, OwnerHas DEF Installed, Ruled, Recorded, FilesBut
  <2>7. Undone(f)' /\ Done(f)'
    BY <2>1, OwnerHas DEF Undone, Done
  <2> QED BY <2>1, <2>5, <2>6, <2>7, OwnerKept
<1>6. CASE AllowRule(f)
  <2>1. proc[f].pc = "allow" /\ host.owner = f
    BY <1>6 DEF AllowRule
  <2> HIDE DEF Sound, Placed, Holds
  <2>2. /\ host'.rules = (IF host.ufw THEN host.rules \cup {host.subnet} ELSE host.rules)
        /\ HostBut({"rules"})
    BY <1>6 DEF AllowRule, OnHost, OnFiles, Pass, Typed, Hosts, HostBut
  <2>3. proc'[f].pc = "serve"
    BY <1>6, GoEffect DEF AllowRule, OnHost, OnFiles, Pass, Typed
  <2>4. st'[f] = st[f]
    BY <1>6 DEF AllowRule, OnHost, OnFiles, Pass, Typed
  <2>5. Serving' /\ ServiceRecorded(f)' /\ (CountKept => CountKept')
    BY <2>1, <2>2, <2>4, ServiceUntouched DEF HostBut
  <2>6. Installed(f)' /\ Ruled(f)'
    BY <2>1, <2>2, <2>3, <2>4, OwnerHas DEF Installed, Ruled, Recorded, HostBut
  <2>7. Undone(f)' /\ Done(f)'
    BY <2>1, <2>2, <2>3, <2>4, <2>5, OwnerHas DEF Undone, Done, HostBut
  <2> QED BY <2>1, <2>2, <2>5, <2>6, <2>7, OwnerKept DEF HostBut
<1>7. CASE Serve(f)
  <2>1. proc[f].pc = "serve" /\ host.owner = f
    BY <1>7 DEF Serve
  <2> HIDE DEF Sound, Placed, Holds
  <2>2. host'.exported = host.exports /\ HostBut({"exported", "service"})
    BY <1>7 DEF Serve, OnHost, OnFiles, Pass, Typed, Hosts, HostBut
  <2>3. proc'[f].pc = "headroom"
    BY <1>7, GoEffect DEF Serve, OnHost, OnFiles, Pass, Typed
  <2>4. st'[f] = st[f]
    BY <1>7 DEF Serve, OnHost, OnFiles, Pass, Typed
  <2>s. host.service \in Services
    BY DEF Typed, Hosts
  <2>t. /\ host'.service.exists = host.service.exists
        /\ host'.service.enabled /\ host'.service.active
        /\ host'.service.threads = IF host.service.threads = 0 THEN 1 ELSE host.service.threads
    BY <1>7, <2>s DEF Serve, OnHost, Typed, Hosts, Services
  <2>b. base \in Bases /\ base.threads = IF base.active THEN 1 ELSE 0
    BY BasesAssumption DEF Typed
  <2>r. st[f].service # None
    BY <2>1 DEF Sound, Rendered, Placed
  <2>d. host.service.exists
    BY <2>1, OwnerHas DEF Done
  <2>5. Serving' /\ ServiceRecorded(f)' /\ (proc'[f].pc \in AfterThreads => CountKept')
    BY <2>1, <2>3, <2>4, <2>t, <2>b, <2>r, <2>d, OwnerHas DEF Serving, ServiceRecorded,
        CountKept, ServiceKept, HostBut
  <2>6. Installed(f)' /\ Ruled(f)'
    BY <2>1, <2>2, <2>3, <2>4, <2>s, <2>t, <2>b, <2>r, <2>d, OwnerHas DEF Installed, Ruled,
        Recorded, HostBut
  <2>7. Undone(f)' /\ Done(f)'
    BY <2>1, <2>2, <2>3, <2>4, <2>s, <2>t, <2>b, <2>r, <2>d, <2>5, OwnerHas DEF Undone, Done,
        HostBut
  <2> QED BY <2>1, <2>2, <2>5, <2>6, <2>7, OwnerKept DEF HostBut
<1>8. CASE RaiseHeadroom(f)
  <2>0. CASE Pass(f, "storage")
    BY <1>8, <2>0, GoEffect, PlainKept DEF RaiseHeadroom, Pass, Typed
  <2>a. CASE /\ ~(st[f].service.active /\ st[f].service.threads = 0)
             /\ host' = [host EXCEPT !.service.threads = 2] /\ OnHost(f, "storage")
    <3>1. proc[f].pc = "headroom" /\ host.owner = f
      BY <1>8, <2>a DEF RaiseHeadroom
    <3> HIDE DEF Sound, Placed, Holds
    <3>2. HostBut({"service"})
      BY <1>8, <2>a DEF RaiseHeadroom, OnHost, OnFiles, Pass, Typed, Hosts, HostBut
    <3>3. proc'[f].pc = "storage"
      BY <1>8, <2>a, GoEffect DEF RaiseHeadroom, OnHost, OnFiles, Pass, Typed
    <3>4. st'[f] = st[f]
      BY <1>8, <2>a DEF RaiseHeadroom, OnHost, OnFiles, Pass, Typed
    <3>s. host.service \in Services
      BY DEF Typed, Hosts
    <3>t. /\ host'.service.exists = host.service.exists
          /\ host'.service.enabled = host.service.enabled
          /\ host'.service.active = host.service.active /\ host'.service.threads = 2
      BY <2>a, <3>s DEF Typed, Hosts, Services
    <3>r. st[f].service # None
      BY <3>1 DEF Sound, Rendered, Placed
    <3>d. host.service.active
      BY <3>1, OwnerHas DEF Done
    <3>5. Serving' /\ ServiceRecorded(f)'
      BY <2>a, <3>1, <3>4, <3>t, <3>r, <3>d, OwnerHas DEF Serving, ServiceRecorded
    <3>6. Installed(f)' /\ Ruled(f)'
      BY <3>1, <3>2, <3>3, <3>4, <3>s, <3>t, <3>r, <3>d, OwnerHas DEF Installed, Ruled,
          Recorded, HostBut
    <3>7. Undone(f)' /\ Done(f)'
      BY <3>1, <3>2, <3>3, <3>4, <3>s, <3>t, <3>r, <3>d, <3>5, OwnerHas DEF Undone, Done,
          HostBut
    <3> QED BY <3>1, <3>2, <3>5, <3>6, <3>7, OwnerKept DEF HostBut
  <2> QED BY <1>8, <2>0, <2>a DEF RaiseHeadroom
<1>9. CASE InstallStorage(f)
  BY <1>9, GoEffect, PlainKept DEF Typed, InstallStorage, Install, OnArt, world
<1>10. CASE CleanProbe(f)
  BY <1>10, GoEffect, PlainKept DEF Typed, CleanProbe, Install, OnArt, world
<1>11. CASE StartProbe(f)
  BY <1>11, GoEffect, PlainKept DEF Typed, StartProbe, Install, OnArt, world
<1>12. CASE FinishProbe(f)
  BY <1>12, GoEffect, PlainKept DEF Typed, FinishProbe, Install, OnArt, world
<1>13. CASE InstallSshWorkers(f)
  BY <1>13, GoEffect, PlainKept DEF Typed, InstallSshWorkers, Install, OnArt, world
<1>14. CASE ScaleSshDown(f)
  BY <1>14, GoEffect, PlainKept DEF Typed, ScaleSshDown, Install, OnArt, world
<1>15. CASE InstallSlurm(f)
  BY <1>15, GoEffect, PlainKept DEF Typed, InstallSlurm, Install, OnArt, world
<1>16. CASE ScaleSshUp(f)
  BY <1>16, GoEffect, PlainKept DEF Typed, ScaleSshUp, Install, OnArt, world
<1>17. CASE WriteSummary(f)
  BY <1>17, LeaveEffect, PlainKept DEF Typed, WriteSummary, world, Outcomes
<1> QED BY <1>1, <1>2, <1>3, <1>4, <1>5, <1>6, <1>7, <1>8, <1>9, <1>10, <1>11, <1>12, <1>13,
    <1>14, <1>15, <1>16, <1>17 DEF SetupServices

\* Teardown undoes one thing after another, and releases the host last.
LEMMA TeardownKept ==
    ASSUME Typed, NEW f \in Fixtures, Sound(f), Holds(f), Kept, Frame(f), Teardown(f)
    PROVE  Kept'
<1> USE DEF Sound, Placed, Holds, At, Nfs, NothingNew, AfterStop, AfterUnexport, AfterExports,
    AfterDaemon, AfterThreads, AfterPolicy, AfterRule, ReadySteps, FreeSteps, SetupSteps,
    HostSteps, BeginSteps, SharedSteps, ServiceSteps, InstallSteps, StopSteps, UndoSteps,
    RestoreSteps, ExportSteps, LastSteps, NfsSteps
<1>1. CASE CheckStop(f)
  BY <1>1, GoEffect, LeaveEffect, PlainKept DEF Typed, CheckStop, Refuse, Pass, StopVerdict,
      world, Outcomes
<1>2. CASE StopCluster(f)
  BY <1>2, GoEffect, PlainKept DEF Typed, StopCluster, OnArt, world
<1>3. CASE StopService(f)
  <2>1. proc[f].pc = "stopservice" /\ proc'[f].pc = "stopped" /\ st' = st
    BY <1>3, GoEffect DEF StopService, OnHost, Typed
  <2>2. CASE st[f].service = None \/ st[f].service.active
    <3>1. host' = host
      BY <1>3, <2>2 DEF StopService
    <3>2. ASSUME host.owner = f PROVE Accounted(f)'
      <4>1. ServiceRecorded(f)' /\ (~base.active => ~host.service.active)
        BY <2>1, <2>2, <3>1, <3>2, ServiceUntouched, OwnerHas DEF ServiceRecorded, ServiceKept
      <4>2. Installed(f)' /\ Ruled(f)'
        BY <2>1, <3>1, <3>2, OwnerHas DEF Installed, Ruled, Recorded
      <4>3. Undone(f)' /\ Done(f)'
        BY <2>1, <3>1, <3>2, <4>1, OwnerHas DEF Undone, Done
      <4> QED BY <4>1, <4>2, <4>3 DEF Accounted
    <3> QED BY <3>1, <3>2, HostUntouched
  <2>3. CASE st[f].service # None /\ ~st[f].service.active
    <3>1. host.owner = f
      BY <2>3 DEF Involved
    <3>s. host.service \in Services
      BY DEF Typed, Hosts
    <3>2. /\ host'.service.exists = host.service.exists /\ ~host'.service.active
          /\ host'.service.enabled = host.service.enabled
          /\ host'.service.threads = 0 /\ HostBut({"service"})
      BY <1>3, <2>3, <3>s DEF StopService, Typed, Hosts, Services, HostBut
    <3> HIDE DEF Sound, Placed, Holds
    <3>4. Serving' /\ ServiceRecorded(f)'
      BY <2>1, <2>3, <3>1, <3>2, OwnerHas DEF Serving, ServiceRecorded
    <3>5. Installed(f)' /\ Ruled(f)'
      BY <2>1, <3>1, <3>2, OwnerHas DEF Installed, Ruled, Recorded, HostBut
    <3>6. Undone(f)' /\ Done(f)'
      BY <2>1, <3>2 DEF Undone, Done
    <3> QED BY <3>1, <3>2, <3>4, <3>5, <3>6, OwnerKept DEF HostBut
  <2> QED BY <2>2, <2>3
<1>4. CASE Stopped(f)
  BY <1>4, GoEffect, LeaveEffect, PlainKept DEF Typed, Stopped, Refuse, Pass, world, Outcomes
<1>5. CASE ValidateTeardown(f)
  <2>1. CASE /\ proc' = [proc EXCEPT ![f].pc = "stopcluster", ![f].ours = Owned(f)]
             /\ UNCHANGED <<host, st>>
    BY <1>5, <2>1, ValidateEffect, PlainKept
  <2>2. NfsVerdict(f) \in Outcomes \cup {"ok"} /\ SharedVerdict(f) \in Outcomes \cup {"ok"}
    BY DEF NfsVerdict, SharedVerdict, Outcomes
  <2> QED BY <1>5, <2>1, <2>2, RefuseKept DEF ValidateTeardown
<1>6. CASE Unexport(f)
  <2>1. proc[f].pc = "unexport" /\ host.owner = f
    BY <1>6 DEF Unexport
  <2> HIDE DEF Sound, Placed, Holds
  <2>2. host'.exported = None /\ HostBut({"exported"})
    BY <1>6 DEF Unexport, OnHost, OnFiles, Pass, Typed, Hosts, HostBut
  <2>3. proc'[f].pc = "rmexports"
    BY <1>6, GoEffect DEF Unexport, OnHost, OnFiles, Pass, Typed
  <2>4. st'[f] = st[f]
    BY <1>6 DEF Unexport, OnHost, OnFiles, Pass, Typed
  <2>5. Serving' /\ ServiceRecorded(f)' /\ (CountKept => CountKept')
    BY <2>1, <2>2, <2>4, ServiceUntouched DEF HostBut
  <2>6. Installed(f)' /\ Ruled(f)'
    BY <2>1, <2>2, <2>3, <2>4, OwnerHas DEF Installed, Ruled, Recorded, HostBut
  <2>7. Undone(f)' /\ Done(f)'
    BY <2>1, <2>2, <2>3, <2>4, <2>5, OwnerHas DEF Undone, Done, HostBut
  <2> QED BY <2>1, <2>2, <2>5, <2>6, <2>7, OwnerKept DEF HostBut
<1>7. CASE RemoveExports(f)
  <2>1. proc[f].pc = "rmexports" /\ host.owner = f
    BY <1>7 DEF RemoveExports
  <2> HIDE DEF Sound, Placed, Holds
  <2>2. host'.exports = None /\ HostBut({"exports"})
    BY <1>7 DEF RemoveExports, OnHost, OnFiles, Pass, Typed, Hosts, HostBut
  <2>3. proc'[f].pc = "rmdaemon"
    BY <1>7, GoEffect DEF RemoveExports, OnHost, OnFiles, Pass, Typed
  <2>4. st'[f] = st[f]
    BY <1>7 DEF RemoveExports, OnHost, OnFiles, Pass, Typed
  <2>5. Serving' /\ ServiceRecorded(f)' /\ (CountKept => CountKept')
    BY <2>1, <2>2, <2>4, ServiceUntouched DEF HostBut
  <2>6. Installed(f)' /\ Ruled(f)'
    BY <2>1, <2>2, <2>3, <2>4, OwnerHas DEF Installed, Ruled, Recorded, HostBut
  <2>7. Undone(f)' /\ Done(f)'
    BY <2>1, <2>2, <2>3, <2>4, <2>5, OwnerHas DEF Undone, Done, HostBut
  <2> QED BY <2>1, <2>2, <2>5, <2>6, <2>7, OwnerKept DEF HostBut
<1>8. CASE RemoveDaemon(f)
  <2>1. proc[f].pc = "rmdaemon" /\ host.owner = f
    BY <1>8 DEF RemoveDaemon
  <2> HIDE DEF Sound, Placed, Holds
  <2>2. ~host'.daemon /\ HostBut({"daemon"})
    BY <1>8 DEF RemoveDaemon, OnHost, OnFiles, Pass, Typed, Hosts, HostBut
  <2>3. proc'[f].pc = "threads"
    BY <1>8, GoEffect DEF RemoveDaemon, OnHost, OnFiles, Pass, Typed
  <2>4. st'[f] = st[f]
    BY <1>8 DEF RemoveDaemon, OnHost, OnFiles, Pass, Typed
  <2>5. Serving' /\ ServiceRecorded(f)' /\ (CountKept => CountKept')
    BY <2>1, <2>2, <2>4, ServiceUntouched DEF HostBut
  <2>6. Installed(f)' /\ Ruled(f)'
    BY <2>1, <2>2, <2>3, <2>4, OwnerHas DEF Installed, Ruled, Recorded, HostBut
  <2>7. Undone(f)' /\ Done(f)'
    BY <2>1, <2>2, <2>3, <2>4, <2>5, OwnerHas DEF Undone, Done, HostBut
  <2> QED BY <2>1, <2>2, <2>5, <2>6, <2>7, OwnerKept DEF HostBut
<1>9. CASE RestoreThreads(f)
  <2>1. proc[f].pc = "threads" /\ host.owner = f
    BY <1>9 DEF RestoreThreads
  <2> HIDE DEF Sound, Placed, Holds
  <2>2. st' = st /\ HostBut({"service"})
    BY <1>9 DEF RestoreThreads, OnHost, Pass, Typed, Hosts, HostBut
  <2>3. proc'[f].pc = "policy"
    <3>1. CASE Go(f, "policy")
      BY <3>1, GoEffect DEF Typed
    <3>2. CASE proc' = [proc EXCEPT ![f].pc = "policy", ![f].warned = TRUE]
      BY <3>2 DEF Typed, ProcTyped, IsProc
    <3> QED BY <1>9, <3>1, <3>2 DEF RestoreThreads, OnHost, Pass
  <2>b. base.threads = IF base.active THEN 1 ELSE 0
    BY BasesAssumption DEF Typed
  <2>4. Serving' /\ ServiceRecorded(f)' /\ CountKept' /\ host'.service.active = host.service.active
    <3>1. CASE /\ host' = host
               /\ ~(st[f].service # None /\ st[f].service.active /\ st[f].service.threads # 0
                    /\ host.service.active)
      <4>1. CountKept
        BY <2>1, <2>b, <3>1, OwnerHas DEF Serving, ServiceRecorded, Undone, ServiceKept, CountKept
      <4> QED BY <2>1, <2>2, <3>1, <4>1, ServiceUntouched
    <3>2. CASE /\ host' = [host EXCEPT !.service.threads = st[f].service.threads]
               /\ st[f].service # None /\ st[f].service.active /\ st[f].service.threads # 0
               /\ host.service.active
      <4>1. /\ host'.service.exists = host.service.exists
            /\ host'.service.enabled = host.service.enabled
            /\ host'.service.active = host.service.active
            /\ host'.service.threads = st[f].service.threads
        BY <3>2 DEF Typed, Hosts, Services
      <4> QED BY <2>1, <2>2, <3>2, <4>1, OwnerHas DEF Serving, ServiceRecorded, CountKept
    <3>3. CASE host' = host /\ proc' = [proc EXCEPT ![f].pc = "policy", ![f].warned = TRUE]
      <4>1. proc'[f].warned
        <5>1. proc'[f] = [proc[f] EXCEPT !.pc = "policy", !.warned = TRUE]
          BY <3>3 DEF Typed, ProcTyped
        <5>2. IsProc(proc[f])
          BY DEF Typed, ProcTyped
        <5> QED BY <5>1, <5>2 DEF IsProc
      <4>2. CountKept'
        BY <4>1 DEF CountKept, Warned
      <4> QED BY <2>1, <2>2, <3>3, <4>2, ServiceUntouched
    <3> QED BY <1>9, <3>1, <3>2, <3>3 DEF RestoreThreads, OnHost, Pass
  <2>5. Installed(f)' /\ Ruled(f)'
    BY <2>1, <2>2, <2>3, OwnerHas DEF Installed, Ruled, Recorded, HostBut
  <2>6. Undone(f)' /\ Done(f)'
    BY <2>1, <2>2, <2>3, <2>4, OwnerHas DEF Undone, Done, HostBut
  <2> QED BY <2>1, <2>2, <2>4, <2>5, <2>6, OwnerKept DEF HostBut
<1>10. CASE RestorePolicy(f)
  <2>1. proc[f].pc = "policy" /\ host.owner = f
    BY <1>10 DEF RestorePolicy
  <2> HIDE DEF Sound, Placed, Holds
  <2>2. HostBut({"service"})
    BY <1>10 DEF RestorePolicy, OnHost, OnFiles, Pass, Typed, Hosts, HostBut
  <2>3. proc'[f].pc = "rmrule"
    BY <1>10, GoEffect DEF RestorePolicy, OnHost, OnFiles, Pass, Typed
  <2>4. st'[f] = st[f]
    BY <1>10 DEF RestorePolicy, OnHost, OnFiles, Pass, Typed
  <2>s. host.service \in Services
    BY DEF Typed, Hosts
  <2>t. /\ host'.service.exists = host.service.exists
        /\ host'.service.enabled = (IF st[f].service # None /\ host.service.exists
                                     THEN st[f].service.enabled ELSE host.service.enabled)
        /\ host'.service.active = host.service.active
        /\ host'.service.threads = host.service.threads
    BY <1>10, <2>s DEF RestorePolicy, Typed, Hosts, Services
  <2>c. CountKept /\ CountKept'
    BY <2>1, <2>t, OwnerHas DEF Undone, CountKept
  <2>e. host'.service.enabled = base.enabled
    BY <2>1, <2>t, OwnerHas, ServiceTyped DEF Serving, ServiceRecorded, ServiceKept
  <2>5. Serving' /\ ServiceRecorded(f)'
    BY <2>1, <2>4, <2>t, <2>c, <2>e, OwnerHas DEF Serving, ServiceRecorded, ServiceKept
  <2>6. Installed(f)' /\ Ruled(f)'
    BY <2>1, <2>2, <2>3, <2>4, <2>s, <2>t, <2>c, OwnerHas DEF Installed, Ruled, Recorded,
        HostBut
  <2>7. Undone(f)' /\ Done(f)'
    BY <2>1, <2>2, <2>3, <2>4, <2>s, <2>t, <2>c, <2>5, OwnerHas, <2>e, <2>t, <2>c DEF Undone,
        Done, HostBut
  <2> QED BY <2>1, <2>2, <2>5, <2>6, <2>7, OwnerKept DEF HostBut
<1>11. CASE RemoveRule(f)
  <2>0. proc[f].pc = "rmrule" /\ host.owner = f
    BY <1>11 DEF RemoveRule
  <2>a. CASE (\E n : host' = [host EXCEPT !.rules = @ \ {n}]) /\ OnHost(f, "rmrule")
    <3>1. proc[f].pc = "rmrule" /\ host.owner = f
      BY <1>11, <2>a DEF RemoveRule
    <3> HIDE DEF Sound, Placed, Holds
    <3>2. host'.rules \subseteq host.rules /\ HostBut({"rules"})
      BY <1>11, <2>a DEF RemoveRule, OnHost, OnFiles, Pass, Typed, Hosts, HostBut
    <3>3. proc'[f].pc = "rmrule"
      BY <1>11, <2>a, GoEffect DEF RemoveRule, OnHost, OnFiles, Pass, Typed
    <3>4. st'[f] = st[f]
      BY <1>11, <2>a DEF RemoveRule, OnHost, OnFiles, Pass, Typed
    <3>5. Serving' /\ ServiceRecorded(f)' /\ (CountKept => CountKept')
      BY <3>1, <3>2, <3>4, ServiceUntouched DEF HostBut
    <3>6. Installed(f)' /\ Ruled(f)'
      BY <3>1, <3>2, <3>3, <3>4, OwnerHas DEF Installed, Ruled, Recorded, HostBut
    <3>7. Undone(f)' /\ Done(f)'
      BY <3>1, <3>2, <3>3, <3>4, <3>5, OwnerHas DEF Undone, Done, HostBut
    <3> QED BY <3>1, <3>2, <3>5, <3>6, <3>7, OwnerKept DEF HostBut
  <2>b. CASE /\ FilesBut(f, {"ufw"}) /\ host' = host /\ proc'[f].pc \in {"unmount", "contents"}
             /\ host.rules = {}
    <3> HIDE DEF Sound, Placed, Holds
    <3>1. Serving' /\ ServiceRecorded(f)' /\ (CountKept => CountKept')
      BY <2>0, <2>b, ServiceUntouched DEF FilesBut
    <3>2. Installed(f)' /\ Ruled(f)'
      BY <2>0, <2>b, OwnerHas DEF Installed, Ruled, Recorded, FilesBut
    <3>3. Undone(f)' /\ Done(f)'
      BY <2>0, <2>b, <3>1, OwnerHas DEF Undone, Done
    <3> QED BY <2>0, <2>b, <3>1, <3>2, <3>3, OwnerKept
  <2>c. st[f].ufw = None \/ ~st[f].ufw.mine \/ st[f].ufw.subnet \notin host.rules => host.rules = {}
    BY <2>0, OwnerHas DEF Ruled, Recorded
  <2>d. CASE st[f].ufw # None /\ st[f].ufw.mine /\ st[f].ufw.subnet \notin host.rules
    <3>1. /\ FilesBut(f, {"ufw"}) /\ host' = host
          /\ Go(f, "unmount") \/ Go(f, "contents")
      BY <1>11, <2>d DEF RemoveRule, OnFiles, Typed, Files, FilesBut
    <3> QED BY <2>b, <2>c, <2>d, <3>1, GoEffect DEF Typed
  <2>e. CASE /\ st[f].ufw = None \/ ~st[f].ufw.mine
             /\ Pass(f, IF "export" \in proc[f].ours THEN "unmount" ELSE "contents")
    <3>1. host' = host /\ st' = st /\ proc'[f].pc \in {"unmount", "contents"}
      BY <2>e, GoEffect DEF Pass, Typed
    <3> QED BY <2>b, <2>c, <2>e, <3>1 DEF FilesBut
  <2> QED BY <1>11, <2>a, <2>d, <2>e DEF RemoveRule
<1>12. CASE UnmountExport(f)
  BY <1>12, GoEffect, PlainKept DEF Typed, UnmountExport, OnArt, world
<1>13. CASE RemoveExport(f)
  BY <1>13, GoEffect, PlainKept DEF Typed, RemoveExport, OnArt, world
<1>14. CASE RemoveShared(f)
  BY <1>14, GoEffect, PlainKept DEF Typed, RemoveShared, OnArt, world
<1>15. CASE DeleteContents(f)
  <2>1. proc[f].pc = "contents" /\ proc'[f].pc = "contents" /\ host' = host
    BY <1>15, GoEffect DEF DeleteContents, OnFiles, Typed
  <2>2. st'[f].service \in {None, st[f].service}
    BY <1>15 DEF DeleteContents, Contents, Without, Typed, Files
  <2>3. ASSUME host.owner = f PROVE Accounted(f)'
    <3> HIDE DEF Sound, Placed, Holds
    <3>1. host.exports = None /\ ~host.daemon /\ host.rules = {} /\ ServiceKept
      BY <2>1, <2>3, OwnerHas, ServiceTyped DEF Undone, Serving, ServiceKept
    <3>2. ServiceKept'
      BY <2>1, <3>1, WarnedStays
    <3>3. ServiceRecorded(f)'
      BY <2>1, <2>2, <2>3, <3>2, OwnerHas DEF ServiceRecorded, ServiceKept, CountKept
    <3>4. Installed(f)' /\ Ruled(f)'
      BY <2>1, <3>1 DEF Installed, Ruled, Recorded
    <3>5. Undone(f)' /\ Done(f)'
      BY <2>1, <2>3, <3>2, OwnerHas DEF Undone, Done, ServiceKept
    <3> QED BY <3>3, <3>4, <3>5 DEF Accounted
  <2> QED BY <2>1, <2>3, HostUntouched
<1>16. CASE DeleteImages(f)
  BY <1>16, GoEffect, PlainKept DEF Typed, DeleteImages, OnArt, world
<1>17. CASE DeleteDirs(f)
  <2>1. CASE host' = host /\ FilesBut(f, {"dirs"}) /\ Go(f, "rmmarker")
    BY <1>17, <2>1, GoEffect, PlainKept DEF DeleteDirs, FilesBut, Typed
  <2>2. Refuse(f, "attached") \/ (host' = host /\ FilesBut(f, {"dirs"}) /\ Go(f, "rmmarker"))
    BY <1>17 DEF DeleteDirs, OnFiles, Typed, Files, FilesBut
  <2> QED BY <2>1, <2>2, RefuseKept DEF Outcomes
<1>18. CASE DeleteMarker(f)
  BY <1>18, GoEffect, PlainKept DEF Typed, DeleteMarker, OnFiles, world
<1>19. CASE DeleteStateDir(f)
  <2>1. CASE host' = host /\ FilesBut(f, {"dir"}) /\ Go(f, "release")
    BY <1>19, <2>1, GoEffect, PlainKept DEF DeleteStateDir, FilesBut, Typed
  <2>2. Refuse(f, "failed") \/ (host' = host /\ FilesBut(f, {"dir"}) /\ Go(f, "release"))
    BY <1>19 DEF DeleteStateDir, OnFiles, Typed, Files, FilesBut
  <2> QED BY <2>1, <2>2, RefuseKept DEF Outcomes
<1>20. CASE ReleaseHost(f)
  <2>1. proc[f].pc = "release" /\ proc'[f].pc = "idle" /\ st' = st
    BY <1>20, LeaveEffect DEF ReleaseHost, Typed, Outcomes
  <2>2. CASE host.owner # f
    BY <1>20, <2>1, <2>2, PlainKept DEF ReleaseHost
  <2>3. CASE host.owner = f
    <3>1. host'.owner = None /\ HostBut({"owner"})
      BY <1>20, <2>1, <2>3 DEF ReleaseHost, Typed, Hosts, HostBut
    <3>2. st[f].service = None
      BY <2>1 DEF Marked, Emptied
    <3>3. Unowned
      BY <2>1, <2>3, <3>2, OwnerHas DEF Unowned, Undone, ServiceRecorded
    <3>4. Unowned'
      BY <3>1, <3>3, WarnedStays DEF Unowned, HostBut
    <3>5. Serving'
      BY <2>3, <3>1, OwnerHas DEF Serving, HostBut
    <3> QED BY <3>1, <3>4, <3>5, NoneIsNothing DEF Kept
  <2> QED BY <2>2, <2>3
<1> QED BY <1>1, <1>2, <1>3, <1>4, <1>5, <1>6, <1>7, <1>8, <1>9, <1>10, <1>11, <1>12, <1>13,
    <1>14, <1>15, <1>16, <1>17, <1>18, <1>19, <1>20 DEF Teardown

\* What goes wrong leaves the host as it is.
LEMMA FaultyKept ==
    ASSUME Typed, NEW f \in Fixtures, Sound(f), Holds(f), Kept, Frame(f), Faulty(f)
    PROVE  Kept'
<1> USE DEF Sound, Placed, Holds, At, Nfs, NothingNew, AfterStop, AfterUnexport, AfterExports,
    AfterDaemon, AfterThreads, AfterPolicy, AfterRule, ReadySteps, FreeSteps, SetupSteps,
    HostSteps, BeginSteps, SharedSteps, ServiceSteps, InstallSteps, StopSteps, UndoSteps,
    RestoreSteps, ExportSteps, LastSteps, NfsSteps
<1>1. CASE MigrationRaises(f)
  BY <1>1, LeaveEffect, PlainKept DEF Typed, MigrationRaises, world, Outcomes
<1>2. CASE Die(f)
  BY <1>2, LeaveEffect, PlainKept DEF Typed, Die, world, Outcomes
<1>3. CASE SecondCommand(f)
  BY <1>3, GoEffect, PlainKept DEF Typed, SecondCommand, world
<1>4. CASE OperatorUnmounts(f)
  BY <1>4, GoEffect, PlainKept DEF Typed, OperatorUnmounts, world
<1> QED BY <1>1, <1>2, <1>3, <1>4 DEF Faulty

-----------------------------------------------------------------------------
(* All fixtures together.                                                  *)

\* What is so of another fixture stays so.
LEMMA OthersStay ==
    ASSUME NEW f \in Fixtures, Frame(f), Others(f), NEW g \in Fixtures \ {f}, Sound(g), Holds(g)
    PROVE  Sound(g)' /\ Holds(g)'
<1>1. proc'[g] = proc[g] /\ st'[g] = st[g] /\ art'[g] = art[g]
  BY DEF Frame
<1>2. Placed(g)' /\ Marked(g)' /\ Clustered(g)'
  BY <1>1 DEF Sound, Placed, Marked, Clustered, Nfs, NoExport, NoRoot, Emptied
<1>3. Exported(g)' /\ Rooted(g)'
  BY <1>1 DEF Sound, Exported, Rooted, NoExport, NoRoot
<1>4. Summarized(g)' /\ Reported(g)' /\ Rendered(g)'
  BY <1>1 DEF Sound, Summarized, Reported, Rendered, Nfs
<1>5. Holds(g)'
  BY <1>1 DEF Others, Holds, Involved, Nfs
<1> QED BY <1>2, <1>3, <1>4, <1>5 DEF Sound

\* The steps of one fixture.
LEMMA FixtureSteps ==
    ASSUME FixtureInv, NEW f \in Fixtures,
           Common(f) \/ SetupHost(f) \/ SetupServices(f) \/ Teardown(f) \/ Faulty(f)
    PROVE  FixtureInv'
<1>1. Typed /\ Sound(f) /\ Holds(f) /\ Kept
  BY DEF FixtureInv
<1>2. Typed' /\ Frame(f)
  BY <1>1, CommonTyped, SetupHostTyped, SetupServicesTyped, TeardownTyped, FaultyTyped
<1>3. Sound(f)'
  BY <1>1, CommonSound, SetupHostSound, SetupServicesSound, TeardownSound, FaultySound
<1>4. Holds(f)' /\ Others(f)
  BY <1>1, CommonHolds, SetupHostHolds, SetupServicesHolds, TeardownHolds, FaultyHolds
<1>5. Kept'
  BY <1>1, <1>2, CommonKept, SetupHostKept, SetupServicesKept, TeardownKept, FaultyKept
<1>6. ASSUME NEW g \in Fixtures \ {f}
      PROVE  Sound(g)' /\ Holds(g)'
  BY <1>2, <1>4, OthersStay DEF FixtureInv
<1> QED BY <1>2, <1>3, <1>4, <1>5, <1>6 DEF FixtureInv

\* Another subnet: no rule is being added while it comes.
LEMMA NetworkChangesSteps ==
    ASSUME FixtureInv, NetworkChanges
    PROVE  FixtureInv'
<1>1. /\ UNCHANGED <<art, st, proc, lock, base, faults, late>>
      /\ host'.owner = host.owner /\ host'.exports = host.exports /\ host'.daemon = host.daemon
      /\ host'.exported = host.exported /\ host'.service = host.service
      /\ host'.rules = host.rules /\ host'.ufw = host.ufw
  BY DEF FixtureInv, Typed, NetworkChanges, Hosts
<1>2. Typed'
  <2>1. host' \in Hosts
    BY DEF FixtureInv, Typed, NetworkChanges, Hosts
  <2>2. ProcTyped'
    BY <1>1 DEF FixtureInv, Typed, ProcTyped
  <2> QED BY <1>1, <2>1, <2>2 DEF FixtureInv, Typed
<1>3. ASSUME NEW f \in Fixtures
      PROVE  Sound(f)' /\ Holds(f)'
  <2>1. Frame(f) /\ Others(f) /\ Sound(f) /\ Holds(f)
    BY <1>1 DEF FixtureInv, Frame, Others
  <2>2. Placed(f)' /\ Marked(f)' /\ Clustered(f)'
    BY <1>1, <2>1 DEF Sound, Placed, Marked, Clustered, Nfs, NoExport, NoRoot, Emptied
  <2>3. Exported(f)' /\ Rooted(f)'
    BY <1>1, <2>1 DEF Sound, Exported, Rooted, NoExport, NoRoot
  <2>4. Summarized(f)' /\ Reported(f)' /\ Rendered(f)'
    BY <1>1, <2>1 DEF Sound, Summarized, Reported, Rendered, Nfs
  <2>5. Holds(f)'
    BY <1>1, <2>1 DEF Holds, Involved, Nfs
  <2> QED BY <2>2, <2>3, <2>4, <2>5 DEF Sound
<1>4. Kept'
  <2>1. Kept /\ (CountKept <=> CountKept') /\ (ServiceKept <=> ServiceKept') /\ (Warned <=> Warned')
    BY <1>1 DEF FixtureInv, CountKept, ServiceKept, Warned
  <2>2. Serving' /\ (host'.owner = None => Unowned')
    BY <1>1, <2>1 DEF Kept, Serving, Unowned
  <2>3. ASSUME NEW f \in Fixtures, host'.owner = f
        PROVE  Accounted(f)'
    <3>1. Accounted(f) /\ proc[f].pc \in {"idle", "unused"}
      BY <1>1, <2>1, <2>3 DEF Kept, NetworkChanges
    <3>2. ServiceRecorded(f)' /\ Installed(f)'
      BY <1>1, <2>1, <3>1 DEF Accounted, ServiceRecorded, Installed
    <3>3. Ruled(f)'
      BY <1>1, <3>1 DEF Accounted, Ruled, Recorded
    <3>4. Undone(f)' /\ Done(f)'
      BY <1>1, <2>1, <3>1 DEF Accounted, Undone, Done
    <3> QED BY <3>2, <3>3, <3>4 DEF Accounted
  <2> QED BY <2>2, <2>3 DEF Kept
<1> QED BY <1>2, <1>3, <1>4 DEF FixtureInv

\* A reboot: the files stay, the commands end, and the service comes back as its
\* boot policy says.
LEMMA RebootSteps ==
    ASSUME FixtureInv, Reboot
    PROVE  FixtureInv'
<1> USE DEF FreeSteps, SetupSteps, HostSteps, BeginSteps, SharedSteps, ServiceSteps, InstallSteps,
        StopSteps, UndoSteps, RestoreSteps, ExportSteps, LastSteps, NfsSteps
<1>0. Typed /\ Kept /\ \A f \in Fixtures : Sound(f) /\ Holds(f)
  BY DEF FixtureInv
<1>1. /\ UNCHANGED <<st, base, late>> /\ lock' = None /\ base.active = base.enabled
      /\ HostBut({"service", "exported"})
      /\ host'.exported = IF host.service.enabled THEN host.exports ELSE None
  BY <1>0 DEF Typed, Reboot, Hosts, HostBut
<1>s. host.service \in Services
  BY <1>0 DEF Typed, Hosts
<1>2. /\ host'.service.exists = host.service.exists
      /\ host'.service.enabled = host.service.enabled
      /\ host'.service.active = host.service.enabled
      /\ host'.service.threads = IF host.service.enabled THEN 1 ELSE 0
  BY <1>0, <1>s DEF Typed, Reboot, Hosts, Services
<1>3. ASSUME NEW f \in Fixtures
      PROVE  /\ \/ proc'[f] = proc[f] /\ proc[f].pc \in {"idle", "unused"}
                \/ /\ proc'[f] = [proc[f] EXCEPT !.pc = "idle", !.outcome = "failed"]
                   /\ proc[f].pc \notin {"idle", "unused"}
             /\ IsProc(proc'[f])
  <2>1. IsProc(proc[f])
    BY <1>0 DEF Typed, ProcTyped
  <2>2. \/ proc'[f] = proc[f] /\ proc[f].pc \in {"idle", "unused"}
        \/ /\ proc'[f] = [proc[f] EXCEPT !.pc = "idle", !.outcome = "failed"]
           /\ proc[f].pc \notin {"idle", "unused"}
    BY DEF Reboot
  <2>3. IsProc([proc[f] EXCEPT !.pc = "idle", !.outcome = "failed"])
    BY <2>1 DEF IsProc, Outcomes
  <2> QED BY <2>1, <2>2, <2>3
<1>4. ASSUME NEW f \in Fixtures
      PROVE  /\ proc'[f].pc \in {"idle", "unused"}
             /\ proc'[f].outcome # proc[f].outcome => proc'[f].outcome = "failed"
             /\ proc'[f].cmd = proc[f].cmd /\ proc'[f].backend = proc[f].backend
             /\ proc'[f].warned = proc[f].warned
  <2>1. IsProc(proc[f])
    BY <1>0 DEF Typed, ProcTyped
  <2>2. CASE proc'[f] = proc[f] /\ proc[f].pc \in {"idle", "unused"}
    BY <2>2
  <2>3. CASE proc'[f] = [proc[f] EXCEPT !.pc = "idle", !.outcome = "failed"]
    BY <2>1, <2>3 DEF IsProc
  <2> QED BY <1>3, <2>2, <2>3
<1>5. ASSUME NEW f \in Fixtures
      PROVE  /\ art'[f] \in Arts
             /\ ~art'[f].mounted /\ ~art'[f].migration
             /\ ArtBut(f, {"mounted", "migration", "cluster"})
             /\ art'[f].cluster = IF art[f].cluster \in {"up", "partial"} THEN "stopped"
                                                                         ELSE art[f].cluster
  <2>1. art[f] \in Arts
    BY <1>0 DEF Typed
  <2>2. art'[f] = [art[f] EXCEPT !.mounted = FALSE, !.migration = FALSE,
                      !.cluster = IF art[f].cluster \in {"up", "partial"} THEN "stopped"
                                                                         ELSE art[f].cluster]
    BY DEF Reboot
  <2> QED BY <2>1, <2>2 DEF Arts, ArtBut
<1>6. Typed'
  <2>1. host' \in Hosts
    <3>1. /\ [host.service EXCEPT !.active = host.service.enabled,
                                  !.threads = IF host.service.enabled THEN 1 ELSE 0] \in Services
          /\ None \in Exports
      <4>1. (IF host.service.enabled THEN 1 ELSE 0) \in Threads /\ host.service.enabled \in BOOLEAN
        BY <1>s DEF Services, Threads
      <4>2. None \in Exports
        BY DEF Exports
      <4> QED BY <1>s, <4>1, <4>2 DEF Services
    <3>2. host' = [host EXCEPT
                     !.service = [host.service EXCEPT !.active = host.service.enabled,
                                     !.threads = IF host.service.enabled THEN 1 ELSE 0],
                     !.exported = IF host.service.enabled THEN host.exports ELSE None]
      BY <1>0 DEF Reboot, Typed, Hosts
    <3> QED BY <1>0, <3>1, <3>2 DEF Typed, Hosts
  <2>2. ProcTyped'
    BY <1>3 DEF Reboot, ProcTyped
  <2>3. art' \in [Fixtures -> Arts]
    BY <1>5 DEF Reboot
  <2>4. faults' \in 0..MaxFaults
    <3>1. faults \in 0..MaxFaults /\ faults < MaxFaults /\ faults' = faults + 1
      BY <1>0 DEF Typed, Reboot
    <3> QED BY <3>1, FixtureConstants
  <2> QED BY <1>0, <1>1, <2>1, <2>2, <2>3, <2>4 DEF Typed
<1>7. ASSUME NEW f \in Fixtures
      PROVE  Sound(f)' /\ Holds(f)'
  <2>1. Sound(f) /\ Holds(f) /\ proc'[f].pc \in {"idle", "unused"} /\ st'[f] = st[f]
    BY <1>0, <1>1, <1>4
  <2>2. Placed(f)' /\ Marked(f)' /\ Clustered(f)'
    BY <1>4, <1>5, <2>1
       DEF Sound, Placed, Marked, Clustered, Nfs, NoExport, NoRoot, Emptied, ArtBut
  <2>3. Exported(f)' /\ Rooted(f)'
    BY <1>4, <1>5, <2>1 DEF Sound, Exported, Rooted, NoExport, NoRoot, ArtBut
  <2>4. Summarized(f)' /\ Reported(f)' /\ Rendered(f)'
    BY <1>4, <1>5, <2>1 DEF Sound, Summarized, Reported, Rendered, Nfs, ArtBut
  <2>5. Holds(f)'
    BY <1>1, <1>4, <1>5, <2>1 DEF Holds, Involved, Nfs, ArtBut, HostBut
  <2> QED BY <2>2, <2>3, <2>4, <2>5 DEF Sound
<1>8. Kept'
  <2>1. /\ Warned => Warned'
        /\ host.service.enabled = base.enabled => CountKept'
    BY <1>1, <1>2, <1>4, <1>0, ServiceTyped DEF Warned, CountKept
  <2>2. Serving'
    BY <1>0, <1>1, <1>2 DEF Kept, Serving
  <2>3. host'.owner = None => Unowned'
    BY <1>0, <1>1, <1>2, <2>1 DEF Kept, Unowned, ServiceKept, HostBut
  <2>4. ASSUME NEW f \in Fixtures, host'.owner = f
        PROVE  Accounted(f)'
    <3>1. Accounted(f) /\ proc'[f].pc \in {"idle", "unused"} /\ st' = st
      BY <1>0, <1>1, <1>4, <2>4 DEF Kept, HostBut
    <3>2. ServiceRecorded(f)'
      BY <1>0, <1>1, <1>2, <2>1, <3>1, ServiceTyped
         DEF Accounted, ServiceRecorded, ServiceKept, Kept, Serving
    <3>3. Installed(f)' /\ Ruled(f)'
      BY <1>1, <3>1 DEF Accounted, Installed, Ruled, Recorded, HostBut
    <3>4. Undone(f)' /\ Done(f)'
      BY <3>1 DEF Undone, Done, AfterStop, AfterUnexport, AfterExports, AfterDaemon,
          AfterThreads, AfterPolicy, AfterRule, ReadySteps
    <3> QED BY <3>2, <3>3, <3>4 DEF Accounted
  <2> QED BY <2>2, <2>3, <2>4 DEF Kept
<1> QED BY <1>6, <1>7, <1>8 DEF FixtureInv

\* The host before the first setup.
LEMMA InitHolds ==
    ASSUME Init
    PROVE  FixtureInv
<1> USE DEF FreeSteps, SetupSteps, HostSteps, BeginSteps, SharedSteps, ServiceSteps, InstallSteps,
        StopSteps, UndoSteps, RestoreSteps, ExportSteps, LastSteps, NfsSteps
<1>1. /\ base \in Bases /\ base \in Services
      /\ base.active \/ base.enabled => base.exists
      /\ base.threads = IF base.active THEN 1 ELSE 0
  BY BasesAssumption DEF Init
<1>2. /\ host \in Hosts /\ host.owner = None /\ host.exports = None /\ host.exported = None
      /\ host.service = base /\ host.rules = {}
  <2>1. PICK u \in Firewall, n \in Subnets, d \in BOOLEAN :
           host = [owner |-> None, exports |-> None, daemon |-> d, exported |-> None,
                   service |-> base, ufw |-> u, rules |-> {}, subnet |-> n]
    BY DEF Init
  <2>2. u \in BOOLEAN /\ None \in Exports /\ {} \in SUBSET Subnets
    BY FixtureConstants DEF Exports
  <2> QED BY <1>1, <2>1, <2>2 DEF Hosts
<1>3. ASSUME NEW f \in Fixtures
      PROVE  /\ art[f] \in Arts /\ ~art[f].mounted /\ ~art[f].migration
             /\ art[f].image = "none" /\ art[f].new = "none"
             /\ art[f].export \in {"absent", "foreign"} /\ art[f].root \in {"absent", "foreign"}
             /\ art[f].cluster \in {"none", "foreign"}
  <2>1. art[f] \in {Clean, [Clean EXCEPT !.cluster = "foreign"],
                    [Clean EXCEPT !.export = "foreign", !.root = "foreign"]}
    BY DEF Init
  <2>2. CASE art[f] = Clean
    BY <2>2 DEF Clean, Arts
  <2>3. CASE art[f] = [Clean EXCEPT !.cluster = "foreign"]
    BY <2>3 DEF Clean, Arts
  <2>4. CASE art[f] = [Clean EXCEPT !.export = "foreign", !.root = "foreign"]
    BY <2>4 DEF Clean, Arts
  <2> QED BY <2>1, <2>2, <2>3, <2>4
<1>4. ASSUME NEW f \in Fixtures
      PROVE  st[f] \in Files /\ Emptied(f) /\ ~st[f].marker /\ ~st[f].dir
  BY DEF Init, NoFiles, Files, Emptied, Exports
<1>5. ASSUME NEW f \in Fixtures
      PROVE  /\ IsProc(proc[f]) /\ proc[f].pc \in {"idle", "unused"}
             /\ proc[f].cmd = "setup" /\ proc[f].outcome = "none"
  <2>1. PICK b \in Backends, used \in SUBSET Fixtures :
           proc = [g \in Fixtures |->
                     [pc |-> IF g \in used THEN "idle" ELSE "unused", cmd |-> "setup",
                      backend |-> b, ours |-> {}, outcome |-> "none", warned |-> FALSE]]
    BY DEF Init
  <2>2. proc[f] = [pc |-> IF f \in used THEN "idle" ELSE "unused", cmd |-> "setup",
                   backend |-> b, ours |-> {}, outcome |-> "none", warned |-> FALSE]
    BY <2>1
  <2>3. b \in {"nfs", "sbx-shared"}
    BY FixtureConstants
  <2>4. proc[f] = [x \in {"pc", "cmd", "backend", "ours", "outcome", "warned"} |-> proc[f][x]]
    BY <2>2
  <2>5. /\ proc[f].pc \in {"idle", "unused"} /\ proc[f].cmd = "setup"
        /\ proc[f].backend = b /\ proc[f].ours = {} /\ proc[f].outcome = "none"
        /\ proc[f].warned = FALSE
    BY <2>2
  <2> QED BY <2>3, <2>4, <2>5 DEF IsProc, Commands, Outcomes
<1>6. Typed
  <2>1. ProcTyped
    BY <1>5 DEF Init, ProcTyped
  <2>2. art \in [Fixtures -> Arts] /\ st \in [Fixtures -> Files]
    BY <1>3, <1>4 DEF Init
  <2> QED BY <1>1, <1>2, <2>1, <2>2 DEF Init, Typed
<1>7. ASSUME NEW f \in Fixtures
      PROVE  Sound(f) /\ Holds(f)
  <2>1. Placed(f) /\ Marked(f) /\ Clustered(f)
    BY <1>3, <1>4, <1>5 DEF Placed, Marked, Clustered, Nfs, NoExport, NoRoot, Emptied
  <2>2. Exported(f) /\ Rooted(f)
    BY <1>3, <1>4, <1>5 DEF Exported, Rooted, NoExport, NoRoot
  <2>3. Summarized(f) /\ Reported(f) /\ Rendered(f)
    BY <1>3, <1>4, <1>5 DEF Summarized, Reported, Rendered, Nfs, Emptied
  <2>4. Holds(f)
    BY <1>2, <1>3, <1>4, <1>5, NoneIsNothing DEF Holds, Involved, Nfs, Emptied
  <2> QED BY <2>1, <2>2, <2>3, <2>4 DEF Sound
<1>8. Kept
  BY <1>1, <1>2, NoneIsNothing DEF Kept, Serving, Unowned, ServiceKept, CountKept, Services
<1> QED BY <1>6, <1>7, <1>8 DEF FixtureInv

\* A step that changes nothing.
LEMMA StutterHolds ==
    ASSUME FixtureInv, UNCHANGED vars
    PROVE  FixtureInv'
<1>1. UNCHANGED <<host, art, st, proc, lock, base, faults, late>>
  BY DEF vars
<1>2. Typed'
  BY <1>1 DEF FixtureInv, Typed, ProcTyped
<1>3. ASSUME NEW f \in Fixtures
      PROVE  Sound(f)' /\ Holds(f)'
  <2>1. Sound(f) /\ Holds(f)
    BY DEF FixtureInv
  <2>2. Placed(f)' /\ Marked(f)' /\ Clustered(f)'
    BY <1>1, <2>1 DEF Sound, Placed, Marked, Clustered, Nfs, NoExport, NoRoot, Emptied
  <2>3. Exported(f)' /\ Rooted(f)'
    BY <1>1, <2>1 DEF Sound, Exported, Rooted, NoExport, NoRoot
  <2>4. Summarized(f)' /\ Reported(f)' /\ Rendered(f)'
    BY <1>1, <2>1 DEF Sound, Summarized, Reported, Rendered, Nfs
  <2>5. Holds(f)'
    BY <1>1, <2>1 DEF Holds, Involved, Nfs
  <2> QED BY <2>2, <2>3, <2>4, <2>5 DEF Sound
<1>4. Kept'
  <2>1. (CountKept <=> CountKept') /\ (ServiceKept <=> ServiceKept') /\ (Warned <=> Warned')
    BY <1>1 DEF CountKept, ServiceKept, Warned
  <2>2. Serving' /\ (host'.owner = None => Unowned')
    BY <1>1, <2>1 DEF FixtureInv, Kept, Serving, Unowned
  <2>3. ASSUME NEW f \in Fixtures, host'.owner = f
        PROVE  Accounted(f)'
    BY <1>1, <2>1, <2>3 DEF FixtureInv, Kept, Accounted, ServiceRecorded, Installed, Ruled,
        Recorded, Undone, Done
  <2> QED BY <2>2, <2>3 DEF Kept
<1> QED BY <1>2, <1>3, <1>4 DEF FixtureInv

\* The invariant holds of every state of the specification.
THEOREM FixtureInvariant == Spec => []FixtureInv
<1>1. Init => FixtureInv
  BY InitHolds
<1>2. FixtureInv /\ [Next]_vars => FixtureInv'
  BY FixtureSteps, NetworkChangesSteps, RebootSteps, StutterHolds DEF Next
<1> QED BY <1>1, <1>2, PTL DEF Spec

-----------------------------------------------------------------------------
(* What the invariant says of the host and of leftovers.                   *)

\* A host without an owner is as it was before the first setup, and no fixture
\* has a daemon configuration that teardown could have left there.
THEOREM HostIsRestored == Spec => []HostRestored
<1>1. FixtureInv => HostRestored
  <2> SUFFICES ASSUME FixtureInv, host.owner = None
               PROVE  HostRestored
    BY DEF HostRestored
  <2>1. Unowned
    BY DEF FixtureInv, Kept
  <2>2. ASSUME NEW f \in Fixtures
        PROVE  ~st[f].daemon
    BY <2>2, NoneIsNothing DEF FixtureInv, Holds, Involved
  <2> QED BY <2>1, <2>2 DEF HostRestored, Unowned, ServiceKept, CountKept, Warned
<1> QED BY <1>1, FixtureInvariant, PTL

\* Every leftover has its journal or its marker.
LEMMA LeftoversAttributable == FixtureInv => Attributable
<1> SUFFICES ASSUME FixtureInv, NEW f \in Fixtures
             PROVE  /\ art[f].cluster \in {"partial", "stopped", "up"} => st[f].cluster
                    /\ art[f].export = "empty" => st[f].journal
                    /\ art[f].export = "marked" => host.owner = f
                    /\ art[f].mounted => art[f].image = "marked"
                    /\ {art[f].image, art[f].new} # {"none"} => st[f].dir
                    /\ art[f].root = "empty" => st[f].journal
                    /\ art[f].root = "marked" => st[f].cluster
                    /\ st[f].service # None => host.owner = f
                    /\ host.exports # None /\ host.exports[1] = f =>
                          host.owner = f /\ st[f].exports # None
  BY DEF Attributable
<1>1. Sound(f) /\ Holds(f)
  BY DEF FixtureInv
<1>2. /\ art[f].cluster \in {"partial", "stopped", "up"} => st[f].cluster
      /\ art[f].export = "empty" => st[f].journal
      /\ art[f].mounted => art[f].image = "marked"
      /\ art[f].root = "empty" => st[f].journal
      /\ art[f].root = "marked" => st[f].cluster
  BY <1>1 DEF Sound, Clustered, Exported, Rooted, NoRoot
<1>3. {art[f].image, art[f].new} # {"none"} => st[f].dir
  <2>1. {art[f].image, art[f].new} # {"none"} => art[f].image # "none" \/ art[f].new # "none"
    OBVIOUS
  <2> QED BY <1>1, <2>1 DEF Sound, Marked
<1>4. /\ art[f].export = "marked" => host.owner = f
      /\ st[f].service # None => host.owner = f
  BY <1>1 DEF Holds, Involved
<1>5. host.exports # None /\ host.exports[1] = f => host.owner = f /\ st[f].exports # None
  <2> SUFFICES ASSUME host.exports # None, host.exports[1] = f
               PROVE  host.owner = f /\ st[f].exports # None
    OBVIOUS
  <2>1. host.owner \in Fixtures
    BY DEF FixtureInv, Typed, Hosts, Kept, Unowned
  <2>2. Installed(host.owner)
    BY <2>1 DEF FixtureInv, Kept, Accounted
  <2> QED BY <2>1, <2>2 DEF Installed
<1> QED BY <1>2, <1>3, <1>4, <1>5

\* Every rule of the firewall is the recorded one of the owner.
LEMMA RulesAreRecorded == FixtureInv => RulesRecorded
<1> SUFFICES ASSUME FixtureInv, NEW n \in host.rules
             PROVE  host.owner # None /\ st[host.owner].ufw = [mine |-> TRUE, subnet |-> n]
  BY DEF RulesRecorded
<1>1. host.owner \in Fixtures
  BY DEF FixtureInv, Typed, Hosts, Kept, Unowned
<1>2. Recorded(host.owner, n)
  BY <1>1 DEF FixtureInv, Kept, Accounted, Ruled
<1>3. st[host.owner].ufw \in Rules
  BY <1>1, <1>2 DEF FixtureInv, Typed, Files, Recorded
<1>4. st[host.owner].ufw = [mine |-> TRUE, subnet |-> n]
  BY <1>2, <1>3 DEF Recorded, Rules
<1> QED BY <1>1, <1>4, NoneIsNothing

\* Whatever died or failed before, the next command knows what it finds.
THEOREM LeftoversAreKnown == Spec => []LeftoversKnown
<1>1. FixtureInv => TypeOK
  BY DEF FixtureInv, Typed, TypeOK, ProcTyped, IsProc
<1>2. FixtureInv => SummaryMeansComplete
  BY DEF FixtureInv, Sound, Summarized, SummaryMeansComplete
<1>3. FixtureInv => OwnLeftoversAccepted
  BY DEF FixtureInv, Sound, Reported, OwnLeftoversAccepted
<1>4. FixtureInv => LeftoversKnown
  BY <1>1, <1>2, <1>3, LeftoversAttributable, RulesAreRecorded DEF LeftoversKnown
<1> QED BY <1>4, FixtureInvariant, PTL

-----------------------------------------------------------------------------
(* What a step may never do: take something that is not the fixture's.     *)

\* What was there before the fixture stays, and only the owner of the host, which
\* holds the lock, changes the installed export.
ForeignStays(f) ==
    /\ art[f].export = "foreign" => art'[f].export = "foreign"
    /\ art[f].root = "foreign" => art'[f].root = "foreign"
    /\ art[f].cluster = "foreign" => art'[f].cluster = "foreign"
    /\ host'.exports = host.exports \/ (lock = f /\ host.owner = f)

\* What comes first in every command touches nothing foreign.
LEMMA CommonForeign ==
    ASSUME Typed, NEW f \in Fixtures, Sound(f), Holds(f), Common(f)
    PROVE  ForeignStays(f)
<1>0. host \in Hosts /\ art[f] \in Arts /\ art \in [Fixtures -> Arts]
  BY DEF Typed
<1> USE DEF ForeignStays, At, FreeSteps, SetupSteps, HostSteps, BeginSteps, SharedSteps,
    ServiceSteps, InstallSteps, StopSteps, UndoSteps, RestoreSteps, ExportSteps, LastSteps,
    NfsSteps
<1>1. CASE \E c \in Commands : Start(f, c)
  BY <1>0, <1>1 DEF Start, Hosts, Arts
<1>2. CASE Bootstrap(f)
  BY <1>0, <1>2 DEF Bootstrap, OnFiles, Hosts, Arts
<1>3. CASE SelectBackend(f)
  BY <1>0, <1>3 DEF SelectBackend, OnFiles, Hosts, Arts
<1>4. CASE InvalidateSummary(f)
  BY <1>0, <1>4 DEF InvalidateSummary, OnFiles, Hosts, Arts
<1>5. CASE HostLock(f)
  BY <1>0, <1>5 DEF HostLock, Refuse, Hosts, Arts
<1>6. CASE ClaimHost(f)
  BY <1>0, <1>6 DEF ClaimHost, Refuse, OnHost, ClaimVerdict, Hosts, Arts
<1> HIDE DEF ForeignStays
<1> QED BY <1>1, <1>2, <1>3, <1>4, <1>5, <1>6 DEF Common

\* Setup of the host and the cluster touches nothing foreign.
LEMMA SetupHostForeign ==
    ASSUME Typed, NEW f \in Fixtures, Sound(f), Holds(f), SetupHost(f)
    PROVE  ForeignStays(f)
<1>0. host \in Hosts /\ art[f] \in Arts /\ art \in [Fixtures -> Arts]
  BY DEF Typed
<1> USE DEF ForeignStays, At, FreeSteps, SetupSteps, HostSteps, BeginSteps, SharedSteps,
    ServiceSteps, InstallSteps, StopSteps, UndoSteps, RestoreSteps, ExportSteps, LastSteps,
    NfsSteps
<1>1. CASE RecordService(f)
  BY <1>0, <1>1 DEF RecordService, OnFiles, Hosts, Arts
<1>2. CASE InstallPackages(f)
  BY <1>0, <1>2 DEF InstallPackages, OnHost, Hosts, Arts
<1>3. CASE EnsureTools(f)
  BY <1>0, <1>3 DEF EnsureTools, Pass, Hosts, Arts
<1>4. CASE ClaimCluster(f)
  BY <1>0, <1>4 DEF ClaimCluster, Refuse, OnFiles, ClusterExists, Hosts, Arts
<1>5. CASE DropUnmountedCluster(f)
  BY <1>0, <1>5 DEF DropUnmountedCluster, OnArt, ClusterExists, Sound, Clustered, Hosts, Arts
<1>6. CASE JournalExport(f)
  BY <1>0, <1>6 DEF JournalExport, Refuse, OnFiles, MarkerSeen, Hosts, Arts
<1>7. CASE MakeExport(f)
  BY <1>0, <1>7 DEF MakeExport, OnArt, Sound, Exported, Hosts, Arts
<1>8. CASE MarkExport(f)
  BY <1>0, <1>8 DEF MarkExport, OnArt, Sound, Exported, Hosts, Arts
<1>9. CASE NewImage(f)
  BY <1>0, <1>9 DEF NewImage, Refuse, OnArt, Hosts, Arts
<1>10. CASE CopyExport(f)
  BY <1>0, <1>10 DEF CopyExport, OnArt, Hosts, Arts
<1>11. CASE DetachMigration(f)
  BY <1>0, <1>11 DEF DetachMigration, OnArt, Hosts, Arts
<1>12. CASE ReplaceImage(f)
  BY <1>0, <1>12 DEF ReplaceImage, OnArt, Hosts, Arts
<1>13. CASE MountExport(f)
  BY <1>0, <1>13 DEF MountExport, Hosts, Arts
<1>14. CASE JournalShared(f)
  BY <1>0, <1>14 DEF JournalShared, Refuse, OnFiles, Hosts, Arts
<1>15. CASE MakeShared(f)
  BY <1>0, <1>15 DEF MakeShared, OnArt, Sound, Rooted, NoRoot, Hosts, Arts
<1>16. CASE KeepCluster(f)
  BY <1>0, <1>16 DEF KeepCluster, Pass, Hosts, Arts
<1>17. CASE DeleteCluster(f)
  BY <1>0, <1>17 DEF DeleteCluster, OnArt, ClusterExists, Sound, Clustered, Hosts, Arts
<1>18. CASE CreateCluster(f)
  BY <1>0, <1>18 DEF CreateCluster, OnArt, ClusterExists, Sound, Clustered, Hosts, Arts
<1>19. CASE CreatedCluster(f)
  BY <1>0, <1>19 DEF CreatedCluster, OnArt, Sound, Clustered, Hosts, Arts
<1>20. CASE WaitForCluster(f)
  BY <1>0, <1>20 DEF WaitForCluster, Pass, Hosts, Arts
<1>21. CASE RecordProfile(f)
  BY <1>0, <1>21 DEF RecordProfile, OnFiles, Hosts, Arts
<1> HIDE DEF ForeignStays
<1> QED BY <1>1, <1>2, <1>3, <1>4, <1>5, <1>6, <1>7, <1>8, <1>9, <1>10, <1>11, <1>12, <1>13,
    <1>14, <1>15, <1>16, <1>17, <1>18, <1>19, <1>20, <1>21 DEF SetupHost

\* Setup of the services touches nothing foreign, and installs the export as its owner.
LEMMA SetupServicesForeign ==
    ASSUME Typed, NEW f \in Fixtures, Sound(f), Holds(f), SetupServices(f)
    PROVE  ForeignStays(f)
<1>0. host \in Hosts /\ art[f] \in Arts /\ art \in [Fixtures -> Arts]
  BY DEF Typed
<1> USE DEF ForeignStays, At, FreeSteps, SetupSteps, HostSteps, BeginSteps, SharedSteps,
    ServiceSteps, InstallSteps, StopSteps, UndoSteps, RestoreSteps, ExportSteps, LastSteps,
    NfsSteps
<1>1. CASE WriteSources(f)
  BY <1>0, <1>1 DEF WriteSources, Refuse, OnFiles, Hosts, Arts
<1>2. CASE InstallExports(f)
  BY <1>0, <1>2 DEF InstallExports, OnHost, Holds, Placed, Sound, Nfs, Hosts, Arts
<1>3. CASE InstallDaemon(f)
  BY <1>0, <1>3 DEF InstallDaemon, OnHost, Hosts, Arts
<1>4. CASE DropOldRule(f)
  BY <1>0, <1>4 DEF DropOldRule, Pass, OnHost, OnFiles, Hosts, Arts
<1>5. CASE RecordRule(f)
  BY <1>0, <1>5 DEF RecordRule, OnFiles, Hosts, Arts
<1>6. CASE AllowRule(f)
  BY <1>0, <1>6 DEF AllowRule, OnHost, Hosts, Arts
<1>7. CASE Serve(f)
  BY <1>0, <1>7 DEF Serve, OnHost, Hosts, Arts
<1>8. CASE RaiseHeadroom(f)
  BY <1>0, <1>8 DEF RaiseHeadroom, Pass, OnHost, Hosts, Arts
<1>9. CASE InstallStorage(f)
  BY <1>0, <1>9 DEF InstallStorage, Install, OnArt, Hosts, Arts
<1>10. CASE CleanProbe(f)
  BY <1>0, <1>10 DEF CleanProbe, Install, OnArt, Hosts, Arts
<1>11. CASE StartProbe(f)
  BY <1>0, <1>11 DEF StartProbe, Install, OnArt, Hosts, Arts
<1>12. CASE FinishProbe(f)
  BY <1>0, <1>12 DEF FinishProbe, Install, OnArt, Hosts, Arts
<1>13. CASE InstallSshWorkers(f)
  BY <1>0, <1>13 DEF InstallSshWorkers, Install, OnArt, Hosts, Arts
<1>14. CASE ScaleSshDown(f)
  BY <1>0, <1>14 DEF ScaleSshDown, Install, OnArt, Hosts, Arts
<1>15. CASE InstallSlurm(f)
  BY <1>0, <1>15 DEF InstallSlurm, Install, OnArt, Hosts, Arts
<1>16. CASE ScaleSshUp(f)
  BY <1>0, <1>16 DEF ScaleSshUp, Install, OnArt, Hosts, Arts
<1>17. CASE WriteSummary(f)
  BY <1>0, <1>17 DEF WriteSummary, Hosts, Arts
<1> HIDE DEF ForeignStays
<1> QED BY <1>1, <1>2, <1>3, <1>4, <1>5, <1>6, <1>7, <1>8, <1>9, <1>10, <1>11, <1>12, <1>13,
    <1>14, <1>15, <1>16, <1>17 DEF SetupServices

\* Teardown touches nothing foreign, and removes the export as its owner.
LEMMA TeardownForeign ==
    ASSUME Typed, NEW f \in Fixtures, Sound(f), Holds(f), Teardown(f)
    PROVE  ForeignStays(f)
<1>0. host \in Hosts /\ art[f] \in Arts /\ art \in [Fixtures -> Arts]
  BY DEF Typed
<1> USE DEF ForeignStays, At, FreeSteps, SetupSteps, HostSteps, BeginSteps, SharedSteps,
    ServiceSteps, InstallSteps, StopSteps, UndoSteps, RestoreSteps, ExportSteps, LastSteps,
    NfsSteps
<1>1. CASE CheckStop(f)
  BY <1>0, <1>1 DEF CheckStop, Refuse, Pass, StopVerdict, Hosts, Arts
<1>2. CASE StopCluster(f)
  BY <1>0, <1>2 DEF StopCluster, OnArt, Sound, Clustered, Hosts, Arts
<1>3. CASE StopService(f)
  BY <1>0, <1>3 DEF StopService, OnHost, Hosts, Arts
<1>4. CASE Stopped(f)
  BY <1>0, <1>4 DEF Stopped, Refuse, Pass, Hosts, Arts
<1>5. CASE ValidateTeardown(f)
  BY <1>0, <1>5 DEF ValidateTeardown, Refuse, NfsVerdict, SharedVerdict, Owned, ExportOwned,
      MarkerSeen, Hosts, Arts
<1>6. CASE Unexport(f)
  BY <1>0, <1>6 DEF Unexport, OnHost, Hosts, Arts
<1>7. CASE RemoveExports(f)
  BY <1>0, <1>7 DEF RemoveExports, OnHost, Holds, Placed, Sound, Nfs, Hosts, Arts
<1>8. CASE RemoveDaemon(f)
  BY <1>0, <1>8 DEF RemoveDaemon, OnHost, Hosts, Arts
<1>9. CASE RestoreThreads(f)
  BY <1>0, <1>9 DEF RestoreThreads, Pass, OnHost, Hosts, Arts
<1>10. CASE RestorePolicy(f)
  BY <1>0, <1>10 DEF RestorePolicy, OnHost, Hosts, Arts
<1>11. CASE RemoveRule(f)
  BY <1>0, <1>11 DEF RemoveRule, Pass, OnHost, OnFiles, Hosts, Arts
<1>12. CASE UnmountExport(f)
  BY <1>0, <1>12 DEF UnmountExport, OnArt, Hosts, Arts
<1>13. CASE RemoveExport(f)
  BY <1>0, <1>13 DEF RemoveExport, OnArt, Sound, Exported, Hosts, Arts
<1>14. CASE RemoveShared(f)
  BY <1>0, <1>14 DEF RemoveShared, OnArt, Sound, Rooted, NoRoot, Hosts, Arts
<1>15. CASE DeleteContents(f)
  BY <1>0, <1>15 DEF DeleteContents, OnFiles, Contents, Without, Hosts, Arts
<1>16. CASE DeleteImages(f)
  BY <1>0, <1>16 DEF DeleteImages, OnArt, Hosts, Arts
<1>17. CASE DeleteDirs(f)
  BY <1>0, <1>17 DEF DeleteDirs, Refuse, OnFiles, NoFiles, Hosts, Arts
<1>18. CASE DeleteMarker(f)
  BY <1>0, <1>18 DEF DeleteMarker, OnFiles, Hosts, Arts
<1>19. CASE DeleteStateDir(f)
  BY <1>0, <1>19 DEF DeleteStateDir, Refuse, OnFiles, Hosts, Arts
<1>20. CASE ReleaseHost(f)
  BY <1>0, <1>20 DEF ReleaseHost, Hosts, Arts
<1> HIDE DEF ForeignStays
<1> QED BY <1>1, <1>2, <1>3, <1>4, <1>5, <1>6, <1>7, <1>8, <1>9, <1>10, <1>11, <1>12, <1>13,
    <1>14, <1>15, <1>16, <1>17, <1>18, <1>19, <1>20 DEF Teardown

\* What goes wrong touches nothing foreign.
LEMMA FaultyForeign ==
    ASSUME Typed, NEW f \in Fixtures, Sound(f), Holds(f), Faulty(f)
    PROVE  ForeignStays(f)
<1>0. host \in Hosts /\ art[f] \in Arts /\ art \in [Fixtures -> Arts]
  BY DEF Typed
<1> USE DEF ForeignStays, At, FreeSteps, SetupSteps, HostSteps, BeginSteps, SharedSteps,
    ServiceSteps, InstallSteps, StopSteps, UndoSteps, RestoreSteps, ExportSteps, LastSteps,
    NfsSteps
<1>1. CASE MigrationRaises(f)
  BY <1>0, <1>1 DEF MigrationRaises, Hosts, Arts
<1>2. CASE Die(f)
  BY <1>0, <1>2 DEF Die, Hosts, Arts
<1>3. CASE SecondCommand(f)
  BY <1>0, <1>3 DEF SecondCommand, Hosts, Arts
<1>4. CASE OperatorUnmounts(f)
  BY <1>0, <1>4 DEF OperatorUnmounts, Hosts, Arts
<1> HIDE DEF ForeignStays
<1> QED BY <1>1, <1>2, <1>3, <1>4 DEF Faulty

\* A step of one fixture.
LEMMA FixtureKeepsForeign ==
    ASSUME FixtureInv, NEW f \in Fixtures,
           Common(f) \/ SetupHost(f) \/ SetupServices(f) \/ Teardown(f) \/ Faulty(f)
    PROVE  /\ \A g \in Fixtures :
                 /\ art[g].export = "foreign" => art'[g].export = "foreign"
                 /\ art[g].root = "foreign" => art'[g].root = "foreign"
                 /\ art[g].cluster = "foreign" => art'[g].cluster = "foreign"
           /\ host.exports # None /\ host'.exports # host.exports =>
                 lock = host.exports[1] /\ host.owner = lock
<1>1. Typed /\ Sound(f) /\ Holds(f) /\ Kept
  BY DEF FixtureInv
<1>2. Frame(f)
  BY <1>1, CommonTyped, SetupHostTyped, SetupServicesTyped, TeardownTyped, FaultyTyped
<1>3. ForeignStays(f)
  BY <1>1, CommonForeign, SetupHostForeign, SetupServicesForeign, TeardownForeign, FaultyForeign
<1>4. ASSUME NEW g \in Fixtures
      PROVE  /\ art[g].export = "foreign" => art'[g].export = "foreign"
             /\ art[g].root = "foreign" => art'[g].root = "foreign"
             /\ art[g].cluster = "foreign" => art'[g].cluster = "foreign"
  BY <1>2, <1>3 DEF Frame, ForeignStays
<1>5. ASSUME host.exports # None, host'.exports # host.exports
      PROVE  lock = host.exports[1] /\ host.owner = lock
  <2>1. lock = f /\ host.owner = f
    BY <1>3, <1>5 DEF ForeignStays
  <2>2. Installed(f)
    BY <1>1, <2>1 DEF Kept, Accounted
  <2> QED BY <1>5, <2>1, <2>2 DEF Installed
<1> QED BY <1>4, <1>5

\* No command, failure or reboot changes what was there before the fixtures, and
\* only the owner changes the installed export.
THEOREM ForeignIsKept == Spec => ForeignKept
<1> DEFINE Stays ==
        /\ \A f \in Fixtures :
              /\ art[f].export = "foreign" => art'[f].export = "foreign"
              /\ art[f].root = "foreign" => art'[f].root = "foreign"
              /\ art[f].cluster = "foreign" => art'[f].cluster = "foreign"
        /\ host.exports # None /\ host'.exports # host.exports =>
              lock = host.exports[1] /\ host.owner = lock
<1>1. FixtureInv /\ [Next]_vars => [Stays]_vars
  <2> SUFFICES ASSUME FixtureInv, Next
               PROVE  Stays
    OBVIOUS
  <2>0. host \in Hosts /\ art \in [Fixtures -> Arts]
    BY DEF FixtureInv, Typed
  <2>1. CASE NetworkChanges
    BY <2>0, <2>1 DEF NetworkChanges, Hosts
  <2>2. CASE Reboot
    <3>1. ASSUME NEW g \in Fixtures
          PROVE  /\ art'[g].export = art[g].export /\ art'[g].root = art[g].root
                 /\ art[g].cluster = "foreign" => art'[g].cluster = "foreign"
      <4>1. art[g] \in Arts
        BY <2>0
      <4>2. art'[g] = [art[g] EXCEPT !.mounted = FALSE, !.migration = FALSE,
                          !.cluster = IF art[g].cluster \in {"up", "partial"} THEN "stopped"
                                                                         ELSE art[g].cluster]
        BY <2>2 DEF Reboot
      <4> QED BY <4>1, <4>2 DEF Arts
    <3>2. host'.exports = host.exports
      BY <2>0, <2>2 DEF Reboot, Hosts
    <3> QED BY <3>1, <3>2
  <2>3. CASE \E f \in Fixtures :
                Common(f) \/ SetupHost(f) \/ SetupServices(f) \/ Teardown(f) \/ Faulty(f)
    BY <2>3, FixtureKeepsForeign
  <2> QED BY <2>1, <2>2, <2>3 DEF Next
<1>2. Spec => [][Stays]_vars
  BY <1>1, FixtureInvariant, PTL DEF Spec
<1> QED BY <1>2, PTL DEF ForeignKept

=============================================================================
