---------------------------- MODULE VmLifecycle ----------------------------
(* The virtual machine of a workspace (patchbay-vm: qemu.rs, container.rs):  *)
(* what up, down and cleanup do to its processes and to the files that        *)
(* remember them.  Commands are run one after the other; each can be          *)
(* interrupted at every step, helper programs can fail to start, the guest    *)
(* can power off, and the host can reboot, after which the number in a file   *)
(* can belong to a process of somebody else.                                  *)
EXTENDS Naturals, FiniteSets

CONSTANTS
    Paths,      \* what a command wants to mount: workspace, target, work
    Shares,     \* the directories that virtiofsd serves, one process each
    MaxCalls,   \* bound: commands
    MaxFaults   \* bound: failures, interrupts, power-offs, reboots

NoPaths == "none"

ASSUME VmLifecycleAssumption == MaxCalls \in Nat /\ MaxFaults \in Nat /\ NoPaths \notin Paths

VARIABLES
    host,       \* backend, and whether virtiofsd is installed
    nextPid,
    procs,      \* running processes by pid: "qemu", "vfs", "seed" or "other"
    vm,         \* the machine: none, or what it runs with
    pidFile,    \* qemu.pid
    seedFile,   \* seed-http.pid
    vfsFile,    \* <share>.virtiofsd.pid
    runtime,    \* runtime.env: the paths it names
    seedMode,   \* seed-mode: "iso" or "http"
    call,       \* the command that runs
    orphans,    \* history: helpers whose pid was never written
    calls, faults

files == <<pidFile, seedFile, vfsFile, runtime, seedMode>>
vars == <<host, nextPid, procs, vm, files, call, orphans, calls, faults>>

NoPid == 0
NoVm == [up |-> FALSE, pid |-> NoPid, paths |-> NoPaths, helpers |-> {},
         saved |-> FALSE, forgotten |-> FALSE]
Idle == [at |-> "idle", op |-> "none", paths |-> NoPaths, recreate |-> FALSE,
         fs |-> "9p", left |-> {}, pid |-> NoPid, ok |-> FALSE]

Qemu == host.backend = "qemu"
Alive(pid) == pid \in DOMAIN procs
Without(pids) == [p \in DOMAIN procs \ pids |-> procs[p]]
With(pid, kind) == [p \in DOMAIN procs \cup {pid} |-> IF p = pid THEN kind ELSE procs[p]]

Init ==
    /\ host \in [backend : {"qemu", "container"}, virtiofs : BOOLEAN]
    /\ nextPid = 1
    /\ procs = [p \in {} |-> "other"]
    /\ vm = NoVm
    /\ pidFile = NoPid /\ seedFile = NoPid /\ vfsFile = [s \in Shares |-> NoPid]
    /\ runtime = NoPaths /\ seedMode = "none"
    /\ call = Idle /\ orphans = {}
    /\ calls = 0 /\ faults = 0

-----------------------------------------------------------------------------

At(step) == call.at = step /\ UNCHANGED <<host, calls>>
Goto(step) == call' = [call EXCEPT !.at = step]
\* A command ends; what it was and whether it succeeded stays visible.
Return(ok) == call' = [Idle EXCEPT !.op = call.op, !.paths = call.paths, !.ok = ok]
Fault == faults < MaxFaults /\ faults' = faults + 1

\* is_running: some process has the number in qemu.pid, or the container runs.
IsRunning == IF Qemu THEN pidFile # NoPid /\ Alive(pidFile) ELSE vm.up

\* cleanup_seed_server and cleanup_virtiofsd ask no question before they kill.
SeedPids == {seedFile} \ {NoPid}
VfsPids == {vfsFile[s] : s \in Shares} \ {NoPid}
NoVfsFiles == [s \in Shares |-> NoPid]

\* The machine ends with its qemu process.
VmAfter(ps) == IF Qemu /\ vm.up /\ vm.pid \notin DOMAIN ps THEN NoVm ELSE vm

Begin(op, p, recreate) ==
    /\ call.at = "idle" /\ calls < MaxCalls
    /\ calls' = calls + 1
    /\ call' = [Idle EXCEPT !.op = op, !.paths = p, !.recreate = recreate,
                            !.at = IF op = "up" THEN "recreate" ELSE IF op = "down" THEN "seed" ELSE "cleanup"]
    /\ UNCHANGED <<host, nextPid, procs, vm, files, orphans, faults>>

\* up: --recreate stops a running machine first; its disk stays.
UpRecreate ==
    /\ At("recreate")
    /\ Goto(IF call.recreate /\ IsRunning THEN "seed" ELSE "check")
    /\ UNCHANGED <<nextPid, procs, vm, files, orphans, faults>>

\* Mutant: the paths of a running machine are not compared.
UpCheckNoPaths ==
    /\ At("check")
    /\ IF ~IsRunning THEN Goto("prepare")
       ELSE IF Qemu THEN Goto("ssh") ELSE Return(TRUE)
    /\ UNCHANGED <<nextPid, procs, vm, files, orphans, faults>>

\* A running machine is taken unless runtime.env names other paths; the
\* mounts are looked at later (qemu), or never (container).
UpCheck ==
    /\ At("check")
    /\ IF ~IsRunning THEN Goto("prepare")
       ELSE IF runtime \notin {NoPaths, call.paths} THEN Return(FALSE)
       ELSE IF Qemu THEN Goto("ssh") ELSE Return(TRUE)
    /\ UNCHANGED <<nextPid, procs, vm, files, orphans, faults>>

\* Image, key, cloud-init and its seed, disk.
Prepare ==
    /\ At("prepare") /\ Qemu
    /\ seedMode' \in {"iso", "http"}
    /\ Goto("port")
    /\ UNCHANGED <<nextPid, procs, vm, pidFile, seedFile, vfsFile, runtime, orphans, faults>>

\* start_vm: the port of a machine that still runs is in use.
StartVm ==
    /\ At("port")
    /\ IF vm.up THEN Return(FALSE) /\ UNCHANGED <<procs, vfsFile>>
       ELSE IF host.virtiofs
            THEN /\ call' = [call EXCEPT !.at = "spawn", !.fs = "virtiofs", !.left = Shares]
                 /\ procs' = Without(VfsPids) /\ vfsFile' = NoVfsFiles
            ELSE Goto("seed server") /\ UNCHANGED <<procs, vfsFile>>
    /\ UNCHANGED <<nextPid, vm, pidFile, seedFile, runtime, seedMode, orphans, faults>>

\* spawn_virtiofsd: the process first, its file after.
SpawnVfs ==
    /\ At("spawn") /\ call.left # {}
    /\ procs' = With(nextPid, "vfs") /\ nextPid' = nextPid + 1
    /\ call' = [call EXCEPT !.at = "spawned", !.pid = nextPid]
    /\ UNCHANGED <<vm, files, orphans, faults>>
RecordVfs ==
    /\ At("spawned")
    /\ \E s \in call.left :
           /\ vfsFile' = [vfsFile EXCEPT ![s] = call.pid]
           /\ call' = [call EXCEPT !.at = "spawn", !.left = @ \ {s}, !.pid = NoPid]
    /\ UNCHANGED <<nextPid, procs, vm, pidFile, seedFile, runtime, seedMode, orphans, faults>>

\* All sockets are there and all processes run, or up gives up.
VfsHealthy ==
    /\ At("spawn") /\ call.left = {}
    /\ IF \A s \in Shares : Alive(vfsFile[s]) THEN Goto("seed server") ELSE Return(FALSE)
    /\ UNCHANGED <<nextPid, procs, vm, files, orphans, faults>>

SpawnSeed ==
    /\ At("seed server")
    /\ IF seedMode # "http" THEN Goto("qemu") /\ UNCHANGED <<nextPid, procs, seedFile>>
       ELSE /\ procs' = [p \in DOMAIN Without(SeedPids) \cup {nextPid} |->
                            IF p = nextPid THEN "seed" ELSE procs[p]]
            /\ nextPid' = nextPid + 1 /\ seedFile' = NoPid
            /\ call' = [call EXCEPT !.at = "seed spawned", !.pid = nextPid]
    /\ UNCHANGED <<vm, pidFile, vfsFile, runtime, seedMode, orphans, faults>>
RecordSeed ==
    /\ At("seed spawned")
    /\ seedFile' = call.pid
    /\ call' = [call EXCEPT !.at = IF Alive(call.pid) THEN "qemu" ELSE "failed", !.pid = NoPid]
    /\ UNCHANGED <<nextPid, procs, vm, pidFile, vfsFile, runtime, seedMode, orphans, faults>>

\* qemu daemonizes after it has written its pid file.
RunQemu ==
    /\ At("qemu")
    /\ procs' = With(nextPid, "qemu") /\ nextPid' = nextPid + 1
    /\ pidFile' = nextPid
    /\ vm' = [NoVm EXCEPT !.up = TRUE, !.pid = nextPid, !.paths = call.paths,
                  !.helpers = IF call.fs = "virtiofs" THEN VfsPids ELSE {}]
    /\ Goto("persist")
    /\ UNCHANGED <<seedFile, vfsFile, runtime, seedMode, orphans, faults>>

\* persist_runtime: before the guest is reached (qemu), or at the very end.
Persist ==
    /\ At("persist")
    /\ runtime' = call.paths
    /\ vm' = IF vm.up /\ vm.paths = call.paths THEN [vm EXCEPT !.saved = TRUE] ELSE vm
    /\ IF Qemu THEN Goto("ssh") ELSE Return(TRUE)
    /\ UNCHANGED <<nextPid, procs, pidFile, seedFile, vfsFile, seedMode, orphans, faults>>

\* Once the guest answers, or never does, the seed server is stopped.
WaitForSsh ==
    /\ At("ssh")
    /\ \/ vm.up /\ Goto("mounts") /\ UNCHANGED faults
       \/ vm.up /\ Fault /\ Return(FALSE)
       \/ ~vm.up /\ Return(FALSE) /\ UNCHANGED faults
    /\ procs' = Without(SeedPids) /\ seedFile' = NoPid
    /\ vm' = VmAfter(procs')
    /\ UNCHANGED <<nextPid, pidFile, vfsFile, runtime, seedMode, orphans>>

\* The mounts are checked in the guest: they need their virtiofsd.
EnsureMounts ==
    /\ At("mounts")
    /\ Return(vm.up /\ \A h \in vm.helpers : Alive(h))
    /\ UNCHANGED <<nextPid, procs, vm, files, orphans, faults>>

\* A tool, a download or a command in the guest fails.
StepFails ==
    /\ call.at \in {"prepare", "spawn", "seed server", "qemu", "mounts", "start", "wait"} /\ Fault
    /\ Return(FALSE)
    /\ UNCHANGED <<host, nextPid, procs, vm, files, orphans, calls>>
GiveUp ==
    /\ At("failed") /\ Return(FALSE)
    /\ UNCHANGED <<nextPid, procs, vm, files, orphans, faults>>

-----------------------------------------------------------------------------
(* down and cleanup.                                                        *)

DownSeed ==
    /\ At("seed")
    /\ procs' = IF Qemu THEN Without(SeedPids) ELSE procs
    /\ vm' = VmAfter(procs')
    /\ seedFile' = IF Qemu THEN NoPid ELSE seedFile
    /\ IF Qemu THEN Goto(IF pidFile # NoPid /\ pidFile \in DOMAIN procs' THEN "kill" ELSE "vfs")
       ELSE IF vm.up THEN Goto("stop") ELSE Goto("stopped")
    /\ UNCHANGED <<nextPid, pidFile, vfsFile, runtime, seedMode, orphans, faults>>

\* Mutant: the pid file is removed while the process may still run.
DownTermOnly ==
    /\ At("kill")
    /\ \E gone \in BOOLEAN :
           /\ procs' = IF gone THEN Without({pidFile}) ELSE procs
           /\ vm' = VmAfter(procs')
    /\ Goto("forget")
    /\ UNCHANGED <<nextPid, files, orphans, faults>>

\* SIGTERM, twenty seconds, SIGKILL: whichever ends the process.
DownKill ==
    /\ At("kill")
    /\ procs' = Without({pidFile})
    /\ vm' = VmAfter(procs')
    /\ Goto("forget")
    /\ UNCHANGED <<nextPid, files, orphans, faults>>

DownForgetPid ==
    /\ At("forget")
    /\ pidFile' = NoPid
    /\ vm' = [vm EXCEPT !.forgotten = vm.up /\ call.op = "cleanup"]
    /\ Goto("forget runtime")
    /\ UNCHANGED <<nextPid, procs, seedFile, vfsFile, runtime, seedMode, orphans, faults>>
DownForgetRuntime ==
    /\ At("forget runtime")
    /\ runtime' = NoPaths
    /\ IF ~Qemu THEN Goto("stopped")
       ELSE IF call.op = "cleanup" THEN Return(TRUE) ELSE Goto("vfs")
    /\ UNCHANGED <<nextPid, procs, vm, pidFile, seedFile, vfsFile, seedMode, orphans, faults>>

\* The helpers go whether or not the machine was running.
DownVfs ==
    /\ At("vfs")
    /\ procs' = Without(VfsPids) /\ vfsFile' = NoVfsFiles
    /\ vm' = VmAfter(procs')
    /\ IF call.op = "cleanup" THEN Goto("forget")
       ELSE IF call.op = "up" THEN Goto("check") ELSE Return(TRUE)
    /\ UNCHANGED <<nextPid, pidFile, seedFile, runtime, seedMode, orphans, faults>>

\* cleanup of qemu does not look whether the machine runs; that of a
\* container stops it and removes the directory with runtime.env.
Cleanup ==
    /\ At("cleanup")
    /\ IF Qemu THEN /\ procs' = Without(SeedPids) /\ seedFile' = NoPid
                    /\ vm' = VmAfter(procs')
                    /\ Goto("vfs")
       ELSE Goto(IF vm.up THEN "stop" ELSE "stopped") /\ UNCHANGED <<procs, seedFile, vm>>
    /\ UNCHANGED <<nextPid, pidFile, vfsFile, runtime, seedMode, orphans, faults>>

-----------------------------------------------------------------------------
(* The container backend.                                                   *)

StartContainer ==
    /\ At("prepare") /\ ~Qemu
    /\ vm' = [NoVm EXCEPT !.up = TRUE, !.paths = call.paths]
    /\ Goto("wait")
    /\ UNCHANGED <<nextPid, procs, files, orphans, faults>>
ContainerReady ==
    /\ At("wait")
    /\ IF vm.up THEN Goto("persist") ELSE Return(FALSE)
    /\ UNCHANGED <<nextPid, procs, vm, files, orphans, faults>>

\* container stop and rm: their exit status is ignored.
StopContainer ==
    /\ At("stop")
    /\ \/ vm' = NoVm /\ UNCHANGED faults
       \/ vm.up /\ Fault /\ vm' = [vm EXCEPT !.forgotten = TRUE]
    /\ Goto("forget runtime")
    /\ UNCHANGED <<nextPid, procs, files, orphans>>
ContainerStopped ==
    /\ At("stopped")
    /\ runtime' = IF call.op = "cleanup" THEN NoPaths ELSE runtime
    /\ IF call.op = "up" THEN Goto("check") ELSE Return(TRUE)
    /\ UNCHANGED <<nextPid, procs, vm, pidFile, seedFile, vfsFile, seedMode, orphans, faults>>

-----------------------------------------------------------------------------
(* What happens to the command, the guest and the host.                     *)

Interrupt ==
    /\ call.at # "idle" /\ Fault
    /\ orphans' = IF call.pid # NoPid THEN orphans \cup {call.pid} ELSE orphans
    /\ call' = Idle
    /\ UNCHANGED <<host, nextPid, procs, vm, files, calls>>

\* The guest powers off, or a helper dies.
Dies(pids) ==
    /\ pids # {} /\ Fault
    /\ procs' = Without(pids)
    /\ vm' = VmAfter(procs')
    /\ UNCHANGED <<host, nextPid, files, call, orphans, calls>>
ContainerDies ==
    /\ ~Qemu /\ vm.up /\ Fault
    /\ vm' = NoVm
    /\ UNCHANGED <<host, nextPid, procs, files, call, orphans, calls>>

\* After a reboot the pid in a file can be that of another process.
Reboot ==
    /\ Fault
    /\ \E reused \in SUBSET (({pidFile} \cup VfsPids) \ {NoPid}) :
           procs' = [p \in reused |-> "other"]
    /\ vm' = NoVm /\ call' = Idle /\ orphans' = {}
    /\ UNCHANGED <<host, nextPid, files, calls>>

Next ==
    \/ \E p \in Paths, r \in BOOLEAN : Begin("up", p, r)
    \/ \E op \in {"down", "cleanup"} : Begin(op, NoPaths, FALSE)
    \/ UpRecreate \/ UpCheck \/ Prepare \/ StartVm
    \/ SpawnVfs \/ RecordVfs \/ VfsHealthy \/ SpawnSeed \/ RecordSeed
    \/ RunQemu \/ Persist \/ WaitForSsh \/ EnsureMounts \/ StepFails \/ GiveUp
    \/ DownSeed \/ DownKill \/ DownForgetPid \/ DownForgetRuntime \/ DownVfs \/ Cleanup
    \/ StartContainer \/ ContainerReady \/ StopContainer \/ ContainerStopped
    \/ Interrupt \/ \E p \in DOMAIN procs : Dies({p})
    \/ ContainerDies \/ Reboot

Spec == Init /\ [][Next]_vars

-----------------------------------------------------------------------------
(* What must hold.                                                          *)

\* A machine that runs is found again through its pid file, whatever was
\* interrupted, unless cleanup was called while it ran (qemu.rs:391, 471).
VmKnown == Qemu /\ vm.up => pidFile = vm.pid \/ vm.forgotten

\* An up of qemu that succeeds leaves a running machine, and the machine of
\* either backend has the mounts that were asked for, also when up takes one
\* that runs, unless that one was never recorded: its own up was interrupted
\* or failed between the start and runtime.env, or cleanup forgot it
\* (qemu.rs:670-713, qemu.rs:1347, container.rs:463).
UpMounts ==
    [][call'.at = "idle" /\ call'.op = "up" /\ call'.ok /\ call.at # "idle" =>
          /\ Qemu => vm'.up
          /\ vm'.up /\ vm'.saved /\ ~vm'.forgotten => vm'.paths = call'.paths]_vars

\* After a down that succeeds nothing runs that was started before, but for
\* what a cleanup, an interrupt or an ignored failure has made unknown
\* (qemu.rs:471-498, container.rs:284-296).
DownStops ==
    [][call'.at = "idle" /\ call'.op = "down" /\ call'.ok /\ call.at # "idle" =>
          /\ vm'.up => vm'.forgotten
          /\ \A p \in DOMAIN procs' : procs'[p] \in {"vfs", "seed"} => p \in orphans']_vars
=============================================================================
