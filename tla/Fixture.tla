------------------------------ MODULE Fixture ------------------------------
(***************************************************************************)
(* The lifecycle of the integration environment: setup, stop and teardown  *)
(* of integration-test.py.  Every fixture has a state directory with its   *)
(* journals; fixtures on the NFS backend share the NFS server of the host, *)
(* which one of them may own.  A command may die or fail at any step and   *)
(* the host may reboot; the next command has only the journals to go by.   *)
(*                                                                         *)
(* host    what the fixtures share: the owner record, the installed NFS    *)
(*         configuration, the export table, nfs-server, UFW, the network   *)
(*         of kind                                                         *)
(* art     what a fixture owns outside its state directory                 *)
(* st      the files of its state directory                                *)
(* proc    the command that works on it (the lifecycle lock allows one)    *)
(* lock    the flock on the host-global NFS lock                           *)
(* base    the NFS service of the host before any fixture                  *)
(***************************************************************************)
EXTENDS Naturals, FiniteSets

CONSTANTS
    Fixtures,      \* the configurations: state directory, cluster and export
    Bases,         \* what the NFS service may be before the first setup
    Backends,      \* "nfs" and "sbx-shared", or one of them
    Firewall,      \* whether UFW may be active
    Subnets,       \* the subnets Docker may give the network of kind
    MaxFaults,     \* bound on deaths, failures and reboots
    MaxLate,       \* bound on second commands for a fixture that is being changed
    None           \* no fixture, no value

ASSUME FixtureConstants ==
    /\ MaxFaults \in Nat
    /\ MaxLate \in Nat
    /\ Backends \subseteq {"nfs", "sbx-shared"}
    /\ Firewall \subseteq BOOLEAN

VARIABLES host, art, st, proc, lock, base, faults, late

vars == <<host, art, st, proc, lock, base, faults, late>>
world == <<base, faults, late>>

Exports == (Fixtures \X Subnets) \cup {None}
Threads == 0..2                    \* 0: unknown or no server, 2: with headroom
Components == {"storage", "probe", "ssh", "slurm"}

Services == [exists: BOOLEAN, active: BOOLEAN, enabled: BOOLEAN, threads: Threads]

\* An active server has one worker thread before the first setup, and only an
\* installed one is active or starts at boot.
ASSUME BasesAssumption ==
    /\ Bases \subseteq Services
    /\ \A s \in Bases :
          /\ s.active \/ s.enabled => s.exists
          /\ s.threads = IF s.active THEN 1 ELSE 0

Hosts ==
    [owner: Fixtures \cup {None}, exports: Exports, daemon: BOOLEAN,
     exported: Exports, service: Services, ufw: BOOLEAN,
     rules: SUBSET Subnets, subnet: Subnets]

Arts ==
    [export: {"absent", "empty", "marked", "foreign"}, mounted: BOOLEAN,
     image: {"none", "empty", "marked"}, new: {"none", "empty", "marked"},
     migration: BOOLEAN, root: {"absent", "empty", "marked", "foreign"},
     cluster: {"none", "partial", "stopped", "up", "foreign"},
     installed: SUBSET Components]

Records == [active: BOOLEAN, enabled: BOOLEAN, threads: Threads]
Rules == [mine: BOOLEAN, subnet: Subnets]

Files ==
    [dir: BOOLEAN, marker: BOOLEAN, dirs: BOOLEAN, backend: BOOLEAN, profile: BOOLEAN,
     summary: BOOLEAN, cluster: BOOLEAN, journal: BOOLEAN,
     service: Records \cup {None}, exports: Exports, daemon: BOOLEAN,
     ufw: Rules \cup {None}]

\* None is not taken for a fixture, a subnet or anything that is recorded.
ASSUME NoneIsNothing ==
    None \notin Fixtures \cup Subnets \cup (Fixtures \X Subnets) \cup Records \cup Rules

Commands == {"setup", "stop", "teardown"}

Outcomes ==
    {"none", "done", "failed", "locked", "owned", "foreign", "changed",
     "unmarked", "attached", "unowned"}

TypeOK ==
    /\ host \in Hosts
    /\ art \in [Fixtures -> Arts]
    /\ st \in [Fixtures -> Files]
    /\ \A f \in Fixtures :
          /\ proc[f].cmd \in Commands
          /\ proc[f].outcome \in Outcomes
          /\ proc[f].backend \in {"nfs", "sbx-shared"}
          /\ proc[f].ours \in SUBSET {"export", "host", "root"}
    /\ lock \in Fixtures \cup {None}
    /\ faults \in 0..MaxFaults
    /\ late \in 0..MaxLate

NoFiles ==
    [dir |-> FALSE, marker |-> FALSE, dirs |-> FALSE, backend |-> FALSE, profile |-> FALSE,
     summary |-> FALSE, cluster |-> FALSE, journal |-> FALSE, service |-> None,
     exports |-> None, daemon |-> FALSE, ufw |-> None]

\* The host before the first setup: with or without an NFS server of its own,
\* with or without something in the place of an export, root or cluster, and
\* with any part of the faults still to come.
\* Fixtures of the two backends share nothing, so all have the same one.
Clean ==
    [export |-> "absent", mounted |-> FALSE, image |-> "none", new |-> "none",
     migration |-> FALSE, root |-> "absent", cluster |-> "none", installed |-> {}]

Init ==
    /\ base \in Bases
    /\ \E u \in Firewall, n \in Subnets, d \in BOOLEAN :
          host = [owner |-> None, exports |-> None, daemon |-> d,
                  exported |-> None, service |-> base, ufw |-> u,
                  rules |-> {}, subnet |-> n]
    /\ art \in [Fixtures ->
          {Clean, [Clean EXCEPT !.cluster = "foreign"],
           [Clean EXCEPT !.export = "foreign", !.root = "foreign"]}]
    /\ st = [f \in Fixtures |-> NoFiles]
    /\ \E b \in Backends, used \in SUBSET Fixtures :
          proc = [f \in Fixtures |->
                    [pc |-> IF f \in used THEN "idle" ELSE "unused", cmd |-> "setup",
                     backend |-> b, ours |-> {}, outcome |-> "none", warned |-> FALSE]]
    /\ lock = None
    /\ faults \in 0..MaxFaults
    /\ late \in 0..MaxLate

-----------------------------------------------------------------------------
\* How a command moves and ends.

At(f, p) == proc[f].pc = p
Nfs(f) == proc[f].backend = "nfs"
Go(f, p) == proc' = [proc EXCEPT ![f].pc = p]

\* The command returns or raises; leaving gives the NFS host lock up.
Leave(f, o) ==
    /\ proc' = [proc EXCEPT ![f].pc = "idle", ![f].outcome = o]
    /\ lock' = IF lock = f THEN None ELSE lock

Refuse(f, o) ==
    /\ Leave(f, o)
    /\ UNCHANGED <<host, art, st>>
    /\ UNCHANGED world

\* A step that only goes on, and steps that change one kind of state.
Pass(f, to) == Go(f, to) /\ UNCHANGED <<host, art, st, lock>> /\ UNCHANGED world
OnHost(f, to) == Go(f, to) /\ UNCHANGED <<art, st, lock>> /\ UNCHANGED world
OnArt(f, to) == Go(f, to) /\ UNCHANGED <<host, st, lock>> /\ UNCHANGED world
OnFiles(f, to) == Go(f, to) /\ UNCHANGED <<host, art, lock>> /\ UNCHANGED world

\* The marker that a look at the export shows: the mounted image hides the
\* directory below it.
MarkerSeen(f) ==
    IF art[f].mounted THEN art[f].image = "marked" ELSE art[f].export = "marked"

ClusterExists(f) == art[f].cluster # "none"

-----------------------------------------------------------------------------
\* What every command does first.

\* main: the operator starts a command; a state directory with contents and
\* no marker is refused before anything is written.
Start(f, c) ==
    /\ At(f, "idle")
    /\ IF st[f].dir /\ ~st[f].marker /\ st[f].dirs
         THEN /\ proc' = [proc EXCEPT ![f].cmd = c, ![f].outcome = "unowned"]
              /\ UNCHANGED <<host, art, st, lock>>
              /\ UNCHANGED world
         ELSE /\ proc' = [proc EXCEPT ![f].cmd = c, ![f].pc = "bootstrap",
                                      ![f].outcome = "none", ![f].ours = {}]
              /\ UNCHANGED <<host, art, st, lock>>
              /\ UNCHANGED world

\* _bootstrap_state_dir: the directory, its marker, then the directories in
\* it.  The lifecycle lock is taken after that.
Bootstrap(f) ==
    /\ At(f, "bootstrap")
    /\ IF st[f].marker
         THEN /\ st' = [st EXCEPT ![f].dirs = TRUE]
              /\ OnFiles(f, "select")
         ELSE /\ \/ ~st[f].dir /\ st' = [st EXCEPT ![f].dir = TRUE]
                 \/ st[f].dir /\ st' = [st EXCEPT ![f].marker = TRUE]
              /\ OnFiles(f, "bootstrap")

\* A second command for the fixture: it bootstraps the same directory and
\* only then finds the lifecycle lock held (_acquire_lock).
SecondCommand(f) ==
    /\ proc[f].pc \notin {"unused", "idle", "bootstrap"}
    /\ late < MaxLate
    /\ late' = late + 1
    /\ st[f].marker
    /\ st' = [st EXCEPT ![f].dirs = TRUE]
    /\ UNCHANGED <<host, art, proc, lock, base, faults>>

\* _select_storage_backend: the choice is retained, by stop and teardown too.
SelectBackend(f) ==
    /\ At(f, "select")
    /\ st' = [st EXCEPT ![f].backend = TRUE]
    /\ OnFiles(f, IF proc[f].cmd = "setup" THEN "invalidate" ELSE "lock")

\* _invalidate_setup_summary
InvalidateSummary(f) ==
    /\ At(f, "invalidate")
    /\ st' = [st EXCEPT ![f].summary = FALSE]
    /\ OnFiles(f, "lock")

\* _nfs_host_lock; the shared-path backend has no use for it.
HostLock(f) ==
    /\ At(f, "lock")
    /\ \/ /\ Nfs(f) /\ lock # None
          /\ Refuse(f, "locked")
       \/ /\ lock = None \/ ~Nfs(f)
          /\ lock' = IF Nfs(f) THEN f ELSE lock
          /\ Go(f, CASE proc[f].cmd = "setup" -> IF Nfs(f) THEN "claim" ELSE "packages"
                     [] proc[f].cmd = "stop" -> "checkstop"
                     [] OTHER -> "validate")
          /\ UNCHANGED <<host, art, st>>
          /\ UNCHANGED world

\* _claim_nfs_host_owner: before the first change of a fixed NFS path.
ClaimVerdict(f) ==
    CASE host.owner \notin {f, None} -> "owned"
      [] host.owner = None /\ (host.exports # None \/ host.daemon) -> "foreign"
      [] OTHER -> "ok"

ClaimHost(f) ==
    /\ At(f, "claim")
    /\ IF ClaimVerdict(f) = "ok"
         THEN host' = [host EXCEPT !.owner = f] /\ OnHost(f, "record")
         ELSE Refuse(f, ClaimVerdict(f))

-----------------------------------------------------------------------------
\* Setup: the host and the cluster.


\* _record_nfs_service_state: once, before packages can change the service.
\* A worker count that cannot be read is recorded as unknown.
RecordService(f) ==
    /\ At(f, "record")
    /\ \/ st[f].service # None /\ st' = st
       \/ /\ st[f].service = None
          /\ \E t \in {0, host.service.threads} :
                st' = [st EXCEPT ![f].service =
                          [active |-> host.service.active,
                           enabled |-> host.service.enabled, threads |-> t]]
    /\ OnFiles(f, "packages")

\* _ensure_apt_packages: installing nfs-kernel-server starts and enables it.
InstallPackages(f) ==
    /\ At(f, "packages")
    /\ host' = IF Nfs(f) /\ ~host.service.exists
                 THEN [host EXCEPT !.service = [exists |-> TRUE, active |-> TRUE,
                                                enabled |-> TRUE, threads |-> 1]]
                 ELSE host
    /\ OnHost(f, "tools")

\* _ensure_docker and _ensure_client_tools change nothing a teardown undoes.
EnsureTools(f) == At(f, "tools") /\ Pass(f, "discover")

\* Plausible bug: an existing cluster is adopted.
ClaimClusterAdopts(f) ==
    /\ At(f, "discover")
    /\ st' = [st EXCEPT ![f].cluster = TRUE]
    /\ OnFiles(f, IF Nfs(f) THEN "unmounted" ELSE "shared")

\* _ensure_cluster_ownership: a cluster without the marker is not adopted.
ClaimCluster(f) ==
    /\ At(f, "discover")
    /\ \/ /\ ~st[f].cluster /\ ClusterExists(f)
          /\ Refuse(f, "foreign")
       \/ /\ st[f].cluster \/ ~ClusterExists(f)
          /\ st' = [st EXCEPT ![f].cluster = TRUE]
          /\ OnFiles(f, IF Nfs(f) THEN "unmounted" ELSE "shared")

\* A cluster whose NFS storage lost its mount is deleted before the storage
\* is initialized.
DropUnmountedCluster(f) ==
    /\ At(f, "unmounted")
    /\ art' = IF ClusterExists(f) /\ ~art[f].mounted
                THEN [art EXCEPT ![f].cluster = "none", ![f].installed = {}]
                ELSE art
    /\ OnArt(f, "journal")

\* Plausible bug: the directory is made before its journal.
JournalExportLater(f) ==
    /\ At(f, "journal")
    /\ \/ /\ art[f].export # "absent" /\ ~MarkerSeen(f)
          /\ Refuse(f, "unmarked")
       \/ /\ art[f].export = "absent" \/ MarkerSeen(f)
          /\ art' = IF art[f].export = "absent"
                      THEN [art EXCEPT ![f].export = "empty"] ELSE art
          /\ OnArt(f, "mkdir")

\* _ensure_export_marker: the journal, the directory, the marker.
JournalExport(f) ==
    /\ At(f, "journal")
    /\ \/ /\ art[f].export # "absent" /\ ~MarkerSeen(f)
          /\ Refuse(f, "unmarked")
       \/ /\ art[f].export = "absent" \/ MarkerSeen(f)
          /\ st' = [st EXCEPT ![f].journal = TRUE]
          /\ OnFiles(f, "mkdir")

MakeExport(f) ==
    /\ At(f, "mkdir")
    /\ art' = IF art[f].export = "absent"
                THEN [art EXCEPT ![f].export = "empty"] ELSE art
    /\ OnArt(f, "mark")

MarkExport(f) ==
    /\ At(f, "mark")
    /\ art' = IF art[f].mounted THEN [art EXCEPT ![f].image = "marked"]
                                ELSE [art EXCEPT ![f].export = "marked"]
    /\ OnArt(f, IF art[f].mounted THEN "cluster"
                ELSE IF art[f].image = "none" THEN "newimage" ELSE "mount")

\* _migrate_export_data_to_image: a new image is filled through a temporary
\* mount and becomes the image only after the mount is verified gone.
NewImage(f) ==
    /\ At(f, "newimage")
    /\ \/ /\ art[f].migration
          /\ Refuse(f, "attached")
       \/ /\ ~art[f].migration
          /\ art' = [art EXCEPT ![f].new = "empty", ![f].migration = TRUE]
          /\ OnArt(f, "copy")

CopyExport(f) ==
    /\ At(f, "copy")
    /\ art' = [art EXCEPT ![f].new = "marked"]
    /\ OnArt(f, "detach")

DetachMigration(f) ==
    /\ At(f, "detach")
    /\ art' = [art EXCEPT ![f].migration = FALSE]
    /\ OnArt(f, "replace")

ReplaceImage(f) ==
    /\ At(f, "replace")
    /\ art' = [art EXCEPT ![f].image = art[f].new, ![f].new = "none"]
    /\ OnArt(f, "mount")

\* A step of the migration raises: the exception path unmounts and removes
\* the temporary image.
MigrationRaises(f) ==
    /\ proc[f].pc \in {"copy", "detach", "replace"}
    /\ faults < MaxFaults
    /\ faults' = faults + 1
    /\ art' = [art EXCEPT ![f].new = "none", ![f].migration = FALSE]
    /\ Leave(f, "failed")
    /\ UNCHANGED <<host, st, base, late>>

\* _ensure_export_filesystem: unexport (its failure is ignored), mount, and
\* write the marker once more, now through the image.
MountExport(f) ==
    /\ At(f, "mount")
    /\ art' = [art EXCEPT ![f].mounted = TRUE]
    /\ \E e \in {host.exported, None} : host' = [host EXCEPT !.exported = e]
    /\ Go(f, "mark")
    /\ UNCHANGED <<st, lock>>
    /\ UNCHANGED world

\* _prepare_sbx_shared: journal, directory, marker, in this order.
JournalShared(f) ==
    /\ At(f, "shared")
    /\ \/ /\ art[f].root = "foreign"
          /\ Refuse(f, "unmarked")
       \/ /\ art[f].root # "foreign"
          /\ st' = [st EXCEPT ![f].journal = TRUE]
          /\ OnFiles(f, "makeshared")

MakeShared(f) ==
    /\ At(f, "makeshared")
    /\ art' = [art EXCEPT ![f].root = IF @ = "absent" THEN "empty" ELSE "marked"]
    /\ OnArt(f, IF art[f].root = "absent" THEN "makeshared" ELSE "cluster")

\* The running cluster is kept when its recorded profile still matches what
\* it shows (_retained_cluster_matches_profile); any other one is replaced.
KeepCluster(f) ==
    /\ At(f, "cluster")
    /\ art[f].cluster = "up"
    /\ st[f].profile
    /\ Pass(f, "wait")

DeleteCluster(f) ==
    /\ At(f, "cluster")
    /\ ClusterExists(f)
    /\ art' = [art EXCEPT ![f].cluster = "none", ![f].installed = {}]
    /\ OnArt(f, "cluster")

\* _create_cluster: kind leaves a partial cluster while it works.
CreateCluster(f) ==
    /\ At(f, "cluster")
    /\ ~ClusterExists(f)
    /\ art' = [art EXCEPT ![f].cluster = "partial"]
    /\ OnArt(f, "creating")

CreatedCluster(f) ==
    /\ At(f, "creating")
    /\ art' = [art EXCEPT ![f].cluster = "up"]
    /\ OnArt(f, "wait")

\* _configure_sbx_node_trust, _install_sbx_calico, _wait_for_cluster.
WaitForCluster(f) == At(f, "wait") /\ Pass(f, "profile")

\* _record_storage_backend_profile
RecordProfile(f) ==
    /\ At(f, "profile")
    /\ st' = [st EXCEPT ![f].profile = TRUE]
    /\ OnFiles(f, IF Nfs(f) THEN "sources" ELSE "storage")

-----------------------------------------------------------------------------
\* Setup: the NFS server of the host (_configure_nfs).

\* An installed file has to be what this fixture rendered last.
WriteSources(f) ==
    /\ At(f, "sources")
    /\ \/ /\ \/ host.exports # None /\ host.exports # st[f].exports
             \/ host.daemon /\ ~st[f].daemon
          /\ Refuse(f, "changed")
       \/ /\ host.exports \in {None, st[f].exports}
          /\ host.daemon => st[f].daemon
          /\ st' = [st EXCEPT ![f].exports = <<f, host.subnet>>, ![f].daemon = TRUE]
          /\ OnFiles(f, "exports")

InstallExports(f) ==
    /\ At(f, "exports")
    /\ host' = [host EXCEPT !.exports = st[f].exports]
    /\ OnHost(f, "daemon")

InstallDaemon(f) ==
    /\ At(f, "daemon")
    /\ host' = [host EXCEPT !.daemon = TRUE]
    /\ OnHost(f, "oldrule")

\* _ensure_nfs_firewall: the rule of an earlier subnet goes first, then its
\* record; the intent is recorded before the new rule is added.
DropOldRule(f) ==
    /\ At(f, "oldrule")
    /\ LET rec == st[f].ufw
           stale == host.ufw /\ rec # None /\ rec.mine /\ rec.subnet # host.subnet
       IN  \/ /\ stale /\ rec.subnet \in host.rules
              /\ host' = [host EXCEPT !.rules = @ \ {rec.subnet}]
              /\ OnHost(f, "oldrule")
           \/ /\ stale /\ rec.subnet \notin host.rules
              /\ st' = [st EXCEPT ![f].ufw = None]
              /\ OnFiles(f, "rule")
           \/ ~stale /\ Pass(f, "rule")

RecordRule(f) ==
    /\ At(f, "rule")
    /\ LET rec == st[f].ufw
           mine == rec # None /\ rec.mine
           present == host.subnet \in host.rules
       IN  IF host.ufw
             THEN st' = [st EXCEPT ![f].ufw =
                           [mine |-> mine \/ ~present, subnet |-> host.subnet]]
             ELSE st' = [st EXCEPT ![f].ufw =
                           IF rec = None THEN [mine |-> FALSE, subnet |-> host.subnet]
                                         ELSE rec]
    /\ OnFiles(f, "allow")

AllowRule(f) ==
    /\ At(f, "allow")
    /\ host' = IF host.ufw THEN [host EXCEPT !.rules = @ \cup {host.subnet}] ELSE host
    /\ OnHost(f, "serve")

\* exportfs -rav and systemctl enable --now.
Serve(f) ==
    /\ At(f, "serve")
    /\ host' = [host EXCEPT !.exported = host.exports,
                            !.service.enabled = TRUE, !.service.active = TRUE,
                            !.service.threads = IF @ = 0 THEN 1 ELSE @]
    /\ OnHost(f, "headroom")

\* _ensure_nfs_headroom: only raises the worker count, and only when the
\* original can be restored; any failure is a warning.
RaiseHeadroom(f) ==
    /\ At(f, "headroom")
    /\ \/ Pass(f, "storage")
       \/ /\ ~(st[f].service.active /\ st[f].service.threads = 0)
          /\ host' = [host EXCEPT !.service.threads = 2]
          /\ OnHost(f, "storage")

-----------------------------------------------------------------------------
\* Setup: what runs in the cluster.

Install(f, from, add, drop, to) ==
    /\ At(f, from)
    /\ art' = [art EXCEPT ![f].installed = (@ \cup add) \ drop]
    /\ OnArt(f, to)

\* _probe_nfs and _install_nfs_csi, or _install_sbx_shared_storage.
InstallStorage(f) == Install(f, "storage", {"storage"}, {}, "preclean")

\* _validate_kubectl_prerequisites: what an earlier probe left goes first; the
\* probe is removed whether or not its checks succeed.
CleanProbe(f) == Install(f, "preclean", {}, {"probe"}, "probe")
StartProbe(f) == Install(f, "probe", {"probe"}, {}, "cleanprobe")
FinishProbe(f) == Install(f, "cleanprobe", {}, {"probe"}, "ssh")

InstallSshWorkers(f) == Install(f, "ssh", {"ssh"}, {}, "scaledown")
ScaleSshDown(f) == Install(f, "scaledown", {}, {"ssh"}, "slurm")
InstallSlurm(f) == Install(f, "slurm", {"slurm"}, {}, "scaleup")
ScaleSshUp(f) == Install(f, "scaleup", {"ssh"}, {}, "summary")

\* _write_state_summary, after _validate_ssh_workers and _verify_user_access.
WriteSummary(f) ==
    /\ At(f, "summary")
    /\ st' = [st EXCEPT ![f].summary = TRUE]
    /\ Leave(f, "done")
    /\ UNCHANGED <<host, art>>
    /\ UNCHANGED world

-----------------------------------------------------------------------------
\* Stop, and the first part of teardown.

\* stop_environment: _validate_nfs_host_owner
StopVerdict(f) ==
    IF ~Nfs(f) THEN "ok"
    ELSE CASE host.owner \notin {f, None} -> "owned"
           [] host.owner = None /\ st[f].service # None -> "foreign"
           [] OTHER -> "ok"

CheckStop(f) ==
    /\ At(f, "checkstop")
    /\ IF StopVerdict(f) = "ok" THEN Pass(f, "stopcluster")
                               ELSE Refuse(f, StopVerdict(f))

\* _stop_environment_locked
StopCluster(f) ==
    /\ At(f, "stopcluster")
    /\ art' = IF st[f].cluster
                THEN [art EXCEPT ![f].cluster = "none", ![f].installed = {}] ELSE art
    /\ OnArt(f, IF Nfs(f) THEN "stopservice" ELSE "stopped")

\* _stop_owned_nfs: a service that was active before stays.
StopService(f) ==
    /\ At(f, "stopservice")
    /\ host' = IF st[f].service # None /\ ~st[f].service.active
                 THEN [host EXCEPT !.service.active = FALSE, !.service.threads = 0]
                 ELSE host
    /\ OnHost(f, "stopped")

Stopped(f) ==
    /\ At(f, "stopped")
    /\ \/ /\ proc[f].cmd = "stop"
          /\ Refuse(f, "done")
       \/ /\ proc[f].cmd = "teardown"
          /\ Pass(f, IF "host" \in proc[f].ours THEN "unexport"
                     ELSE IF "export" \in proc[f].ours THEN "unmount"
                     ELSE IF "root" \in proc[f].ours THEN "emptyroot"
                     ELSE "contents")

-----------------------------------------------------------------------------
\* Teardown: everything is validated before anything is changed.

\* _validate_installed_config
InstalledMatches(f) ==
    /\ host.exports \in {None, st[f].exports}
    /\ host.daemon => st[f].daemon

\* An export is the fixture's own by its marker, or by the journal while the
\* directory is still empty.
ExportOwned(f) ==
    \/ MarkerSeen(f)
    \/ art[f].export = "empty" /\ ~art[f].mounted /\ st[f].journal

\* _validate_teardown_ownership
NfsVerdict(f) ==
    IF ~MarkerSeen(f) /\ (art[f].mounted \/ art[f].export = "foreign") THEN "unmarked"
    ELSE CASE host.owner \notin {f, None} -> "owned"
           [] /\ host.owner = None
              /\ st[f].service # None \/ ExportOwned(f) \/ art[f].image # "none" -> "foreign"
           [] /\ host.owner = f
              /\ \/ ~InstalledMatches(f)
                 \/ ~ExportOwned(f) /\ (host.exports # None \/ host.daemon) -> "changed"
           [] OTHER -> "ok"

\* _validate_sbx_teardown_ownership
SharedVerdict(f) ==
    IF art[f].root = "absent" THEN "ok"
    ELSE IF art[f].root # "marked" /\ ~(art[f].root = "empty" /\ st[f].journal) THEN "unmarked"
    ELSE IF ~st[f].cluster THEN "foreign"
    ELSE "ok"

\* What teardown may remove.
Owned(f) ==
    (IF Nfs(f) /\ host.owner = f THEN {"host"} ELSE {})
    \cup (IF Nfs(f) /\ ExportOwned(f) THEN {"export"} ELSE {})
    \cup (IF ~Nfs(f) /\ art[f].root # "absent" THEN {"root"} ELSE {})

ValidateTeardown(f) ==
    /\ At(f, "validate")
    /\ LET verdict == IF Nfs(f) THEN NfsVerdict(f) ELSE SharedVerdict(f)
       IN  IF verdict = "ok"
             THEN /\ proc' = [proc EXCEPT ![f].pc = "stopcluster", ![f].ours = Owned(f)]
                  /\ UNCHANGED <<host, art, st, lock>>
                  /\ UNCHANGED world
             ELSE Refuse(f, verdict)

\* Plausible bug: the owner record goes before the rest of the host is restored.
UnexportReleases(f) ==
    /\ At(f, "unexport")
    /\ host' = [host EXCEPT !.exported = None, !.owner = None]
    /\ OnHost(f, "rmexports")

\* _remove_nfs_configuration: unexport, remove the two files, reload.
Unexport(f) ==
    /\ At(f, "unexport")
    /\ host' = [host EXCEPT !.exported = None]
    /\ OnHost(f, "rmexports")

RemoveExports(f) ==
    /\ At(f, "rmexports")
    /\ host' = [host EXCEPT !.exports = None]
    /\ OnHost(f, "rmdaemon")

RemoveDaemon(f) ==
    /\ At(f, "rmdaemon")
    /\ host' = [host EXCEPT !.daemon = FALSE]
    /\ OnHost(f, "threads")

\* _restore_preexisting_nfs_threads: best effort, with a warning.
RestoreThreads(f) ==
    /\ At(f, "threads")
    /\ LET rec == st[f].service
           wanted == rec # None /\ rec.active /\ rec.threads # 0 /\ host.service.active
       IN  \/ ~wanted /\ Pass(f, "policy")
           \/ /\ wanted
              /\ host' = [host EXCEPT !.service.threads = rec.threads]
              /\ OnHost(f, "policy")
           \/ /\ wanted /\ faults < MaxFaults
              /\ faults' = faults + 1
              /\ proc' = [proc EXCEPT ![f].pc = "policy", ![f].warned = TRUE]
              /\ UNCHANGED <<host, art, st, lock, base, late>>

\* _restore_nfs_service_state: the boot policy.
RestorePolicy(f) ==
    /\ At(f, "policy")
    /\ host' = IF st[f].service # None /\ host.service.exists
                 THEN [host EXCEPT !.service.enabled = st[f].service.enabled] ELSE host
    /\ OnHost(f, "rmrule")

RemoveRule(f) ==
    /\ At(f, "rmrule")
    /\ LET rec == st[f].ufw
       IN  \/ /\ rec # None /\ rec.mine /\ rec.subnet \in host.rules
              /\ host' = [host EXCEPT !.rules = @ \ {rec.subnet}]
              /\ OnHost(f, "rmrule")
           \/ /\ rec # None /\ rec.mine /\ rec.subnet \notin host.rules
              /\ st' = [st EXCEPT ![f].ufw = None]
              /\ OnFiles(f, IF "export" \in proc[f].ours THEN "unmount" ELSE "contents")
           \/ /\ rec # None => ~rec.mine
              /\ Pass(f, IF "export" \in proc[f].ours THEN "unmount" ELSE "contents")

\* _unmount_export_filesystem
UnmountExport(f) ==
    /\ At(f, "unmount")
    /\ art' = [art EXCEPT ![f].mounted = FALSE]
    /\ OnArt(f, "emptyexport")

\* _remove_owned_directories, the export: contents, marker, directory.
RemoveExport(f) ==
    /\ At(f, "emptyexport")
    /\ art' = [art EXCEPT ![f].export = IF @ = "marked" THEN "empty" ELSE "absent"]
    /\ OnArt(f, IF art[f].export = "marked" THEN "emptyexport" ELSE "contents")

\* _remove_sbx_shared
RemoveShared(f) ==
    /\ At(f, "emptyroot")
    /\ art' = [art EXCEPT ![f].root = IF @ = "marked" THEN "empty" ELSE "absent"]
    /\ OnArt(f, IF art[f].root = "marked" THEN "emptyroot" ELSE "contents")

\* _remove_owned_directories, the state: find deletes in an order of its own,
\* the image and the sources included, and does not cross a mount.
Contents == {"backend", "cluster", "journal", "records", "manifests", "image"}

Without(files, c) ==
    CASE c = "backend" -> [files EXCEPT !.backend = FALSE, !.profile = FALSE,
                                        !.summary = FALSE]
      [] c = "cluster" -> [files EXCEPT !.cluster = FALSE]
      [] c = "journal" -> [files EXCEPT !.journal = FALSE]
      [] c = "records" -> [files EXCEPT !.service = None, !.ufw = None]
      [] OTHER         -> [files EXCEPT !.exports = None, !.daemon = FALSE]

DeleteContents(f) ==
    /\ At(f, "contents")
    /\ \E c \in Contents \ {"image"} :
          /\ st' = [st EXCEPT ![f] = Without(@, c)]
          /\ st' # st
    /\ OnFiles(f, "contents")

DeleteImages(f) ==
    /\ At(f, "contents")
    /\ \/ art[f].image # "none"
       \/ art[f].new # "none" /\ ~art[f].migration
    /\ art' = [art EXCEPT ![f].image = "none",
                          ![f].new = IF art[f].migration THEN @ ELSE "none"]
    /\ OnArt(f, "contents")

DeleteDirs(f) ==
    /\ At(f, "contents")
    /\ [st[f] EXCEPT !.dirs = FALSE] =
          [NoFiles EXCEPT !.dir = TRUE, !.marker = TRUE]
    /\ art[f].image = "none"
    /\ \/ /\ art[f].migration
          /\ Refuse(f, "attached")
       \/ /\ ~art[f].migration /\ art[f].new = "none"
          /\ st' = [st EXCEPT ![f].dirs = FALSE]
          /\ OnFiles(f, "rmmarker")

DeleteMarker(f) ==
    /\ At(f, "rmmarker")
    /\ st' = [st EXCEPT ![f].marker = FALSE]
    /\ OnFiles(f, "rmdir")

\* rmdir refuses a directory that is not empty.
DeleteStateDir(f) ==
    /\ At(f, "rmdir")
    /\ \/ /\ st[f].dirs
          /\ Refuse(f, "failed")
       \/ /\ ~st[f].dirs
          /\ st' = [st EXCEPT ![f].dir = FALSE]
          /\ OnFiles(f, "release")

\* The owner record of the host goes last.
ReleaseHost(f) ==
    /\ At(f, "release")
    /\ host' = IF "host" \in proc[f].ours THEN [host EXCEPT !.owner = None] ELSE host
    /\ Leave(f, "done")
    /\ UNCHANGED <<art, st>>
    /\ UNCHANGED world

-----------------------------------------------------------------------------
\* The environment.

\* The command fails or is killed between any two of its steps.
Die(f) ==
    /\ ~At(f, "idle") /\ ~At(f, "unused")
    /\ faults < MaxFaults
    /\ faults' = faults + 1
    /\ Leave(f, "failed")
    /\ UNCHANGED <<host, art, st, base, late>>

\* A reboot ends the commands, the mounts and the containers; the service
\* comes back as its boot policy says.
Reboot ==
    /\ faults < MaxFaults
    /\ base.active = base.enabled
    /\ faults' = faults + 1
    /\ lock' = None
    /\ proc' = [f \in Fixtures |->
          IF proc[f].pc \in {"idle", "unused"} THEN proc[f]
          ELSE [proc[f] EXCEPT !.pc = "idle", !.outcome = "failed"]]
    /\ art' = [f \in Fixtures |->
          [art[f] EXCEPT !.mounted = FALSE, !.migration = FALSE,
                         !.cluster = IF @ \in {"up", "partial"} THEN "stopped" ELSE @]]
    /\ host' = [host EXCEPT
          !.service.active = host.service.enabled,
          !.service.threads = IF host.service.enabled THEN 1 ELSE 0,
          !.exported = IF host.service.enabled THEN host.exports ELSE None]
    /\ UNCHANGED <<st, base, late>>

\* Docker gives the network of kind another subnet while no cluster uses it.
NetworkChanges ==
    /\ \A f \in Fixtures : art[f].cluster \in {"none", "foreign"}
    /\ \A f \in Fixtures : proc[f].pc \in {"idle", "unused"}
    /\ \E n \in Subnets \ {host.subnet} : host' = [host EXCEPT !.subnet = n]
    /\ UNCHANGED <<art, st, proc, lock, base, faults, late>>

\* The operator unmounts what a failed migration left, as the message asks.
OperatorUnmounts(f) ==
    /\ At(f, "idle")
    /\ art[f].migration
    /\ art' = [art EXCEPT ![f].migration = FALSE]
    /\ UNCHANGED <<host, st, proc, lock, base, faults, late>>

Common(f) ==
    \/ \E c \in Commands : Start(f, c)
    \/ Bootstrap(f) \/ SelectBackend(f) \/ InvalidateSummary(f)
    \/ HostLock(f) \/ ClaimHost(f)

SetupHost(f) ==
    \/ RecordService(f) \/ InstallPackages(f) \/ EnsureTools(f) \/ ClaimCluster(f)
    \/ DropUnmountedCluster(f) \/ JournalExport(f) \/ MakeExport(f) \/ MarkExport(f)
    \/ NewImage(f) \/ CopyExport(f) \/ DetachMigration(f) \/ ReplaceImage(f)
    \/ MountExport(f) \/ JournalShared(f) \/ MakeShared(f)
    \/ KeepCluster(f) \/ DeleteCluster(f) \/ CreateCluster(f) \/ CreatedCluster(f)
    \/ WaitForCluster(f) \/ RecordProfile(f)

SetupServices(f) ==
    \/ WriteSources(f) \/ InstallExports(f) \/ InstallDaemon(f) \/ DropOldRule(f)
    \/ RecordRule(f) \/ AllowRule(f) \/ Serve(f) \/ RaiseHeadroom(f)
    \/ InstallStorage(f) \/ CleanProbe(f) \/ StartProbe(f) \/ FinishProbe(f)
    \/ InstallSshWorkers(f) \/ ScaleSshDown(f) \/ InstallSlurm(f) \/ ScaleSshUp(f)
    \/ WriteSummary(f)

Teardown(f) ==
    \/ CheckStop(f) \/ StopCluster(f) \/ StopService(f) \/ Stopped(f)
    \/ ValidateTeardown(f)
    \/ Unexport(f) \/ RemoveExports(f) \/ RemoveDaemon(f) \/ RestoreThreads(f)
    \/ RestorePolicy(f) \/ RemoveRule(f) \/ UnmountExport(f) \/ RemoveExport(f)
    \/ RemoveShared(f) \/ DeleteContents(f) \/ DeleteImages(f) \/ DeleteDirs(f)
    \/ DeleteMarker(f) \/ DeleteStateDir(f) \/ ReleaseHost(f)

Faulty(f) ==
    \/ MigrationRaises(f) \/ Die(f) \/ SecondCommand(f) \/ OperatorUnmounts(f)

Next ==
    \/ \E f \in Fixtures :
          Common(f) \/ SetupHost(f) \/ SetupServices(f) \/ Teardown(f) \/ Faulty(f)
    \/ Reboot
    \/ NetworkChanges

Spec == Init /\ [][Next]_vars

-----------------------------------------------------------------------------
\* Properties.

\* Whenever no fixture owns the host, the host is as it was before the first
\* one: no configuration, export or rule, and the service in its former
\* runtime state, boot policy and worker count (unless a teardown warned that
\* it could not restore the count).  Teardown of integration-test.py gives
\* the owner record up last, after everything else.
HostRestored ==
    host.owner = None =>
        /\ host.exports = None /\ host.exported = None
        /\ host.daemon => \A f \in Fixtures : ~st[f].daemon
        /\ host.rules = {}
        /\ host.service.enabled = base.enabled
        /\ host.service.active = base.active
        /\ \/ host.service.threads = base.threads
           \/ \E f \in Fixtures : proc[f].warned

\* Whatever a fixture has made stays attributable to it by a journal or
\* marker that was written first and is removed last, so that the next
\* command can tell its own leftovers from foreign things.
Attributable ==
    \A f \in Fixtures :
        /\ art[f].cluster \in {"partial", "stopped", "up"} => st[f].cluster
        /\ art[f].export = "empty" => st[f].journal
        /\ art[f].export = "marked" => host.owner = f
        /\ art[f].mounted => art[f].image = "marked"
        /\ {art[f].image, art[f].new} # {"none"} => st[f].dir
        /\ art[f].root = "empty" => st[f].journal
        /\ art[f].root = "marked" => st[f].cluster
        /\ st[f].service # None => host.owner = f
        /\ host.exports # None /\ host.exports[1] = f =>
              host.owner = f /\ st[f].exports # None

\* Every UFW rule is recorded as the harness's own by the fixture that owns
\* the host, also between a change of subnet and the rule for the new one.
RulesRecorded ==
    \A n \in host.rules :
        /\ host.owner # None
        /\ st[host.owner].ufw = [mine |-> TRUE, subnet |-> n]

\* A setup summary next to a running cluster means that every component is
\* installed there and no probe is left, whatever setups failed before.
SummaryMeansComplete ==
    \A f \in Fixtures :
        st[f].summary /\ art[f].cluster = "up" =>
            st[f].profile /\ art[f].installed = Components \ {"probe"}

\* No step changes a cluster, export or shared root that predates the
\* fixture, and only its owner changes an installed export.
ForeignKept ==
    [][/\ \A f \in Fixtures :
             /\ art[f].export = "foreign" => art'[f].export = "foreign"
             /\ art[f].root = "foreign" => art'[f].root = "foreign"
             /\ art[f].cluster = "foreign" => art'[f].cluster = "foreign"
       /\ host.exports # None /\ host'.exports # host.exports =>
             lock = host.exports[1] /\ host.owner = lock]_vars

\* Teardown never takes what its own setup left for somebody else's: it
\* refuses for want of a marker or an owner record only in front of an export
\* or root that was there before the fixture.
OwnLeftoversAccepted ==
    \A f \in Fixtures : proc[f].cmd = "teardown" =>
        /\ proc[f].outcome # "foreign"
        /\ proc[f].outcome = "unmarked" => "foreign" \in {art[f].export, art[f].root}

\* Leftovers of a setup that died or failed are known for what they are: each has
\* its journal, marker or recorded rule, a summary stands for a whole setup, and
\* the next teardown takes them for the fixture's own.
LeftoversKnown ==
    /\ TypeOK
    /\ Attributable
    /\ RulesRecorded
    /\ SummaryMeansComplete
    /\ OwnLeftoversAccepted
=============================================================================
