------------------------- MODULE VmLifecycleProofs -------------------------
(***************************************************************************)
(* What up, down and cleanup of a virtual machine keep true for any paths  *)
(* and shares and any number of commands, interrupts, failures and reboots:*)
(* a running machine stays known to its pid file, a successful up has the  *)
(* mounts it was asked for, and a successful down leaves nothing running.  *)
(***************************************************************************)
EXTENDS VmLifecycle, TLAPS

IsVm(m) == m = [up |-> m.up, pid |-> m.pid, paths |-> m.paths, helpers |-> m.helpers,
                saved |-> m.saved, forgotten |-> m.forgotten]
IsCall(c) == c = [at |-> c.at, op |-> c.op, paths |-> c.paths, recreate |-> c.recreate,
                  fs |-> c.fs, left |-> c.left, pid |-> c.pid, ok |-> c.ok]

Spawning == {"port", "spawn", "spawned", "seed server", "seed spawned", "qemu", "failed"}
UpSteps == Spawning \cup {"recreate", "check", "prepare", "persist", "ssh", "mounts", "wait"}
DownSteps == {"kill", "forget", "vfs"}

-----------------------------------------------------------------------------
(* The points of each command and backend.                                  *)

CallInv ==
    /\ IsCall(call)
    /\ call.at \in UpSteps => call.op = "up"
    /\ call.at = "cleanup" => call.op = "cleanup"
    /\ call.at # "idle" /\ call.op = "up" => call.paths \in Paths
    /\ call.at \in Spawning \cup DownSteps \cup {"ssh", "mounts"} => Qemu
    /\ call.at \in {"wait", "stop", "stopped"} => ~Qemu
    /\ call.at \notin {"spawned", "seed spawned"} => call.pid = NoPid

(* A machine is known: its process runs under the number in qemu.pid, until *)
(* cleanup forgets it.                                                      *)
KnownInv ==
    /\ IsVm(vm)
    /\ Qemu /\ vm.up => vm.pid \in DOMAIN procs
    /\ Qemu /\ vm.up => pidFile = vm.pid \/ (vm.forgotten /\ pidFile = NoPid)
    /\ call.at \in Spawning \ {"port"} => ~vm.up
    /\ call.at = "kill" => pidFile # NoPid
    /\ call.at = "forget" /\ call.op # "cleanup" => ~vm.up
    /\ call.at \in {"forget runtime", "stopped"} => (vm.up => vm.forgotten)
    /\ call.at = "vfs" /\ call.op # "cleanup" => (vm.up => vm.forgotten)

(* What runtime.env says of a machine that runs.                            *)
PathsInv ==
    /\ vm.up => vm.paths \in Paths
    /\ vm.up /\ vm.saved /\ ~vm.forgotten => runtime = vm.paths
    /\ call.at \in {"persist", "wait"} => (vm.up => vm.paths = call.paths)
    /\ call.at \in {"ssh", "mounts"} =>
         (vm.up /\ vm.saved /\ ~vm.forgotten => vm.paths = call.paths)

(* Every helper that runs is in a file, in the hands of the command, or     *)
(* was orphaned by an interrupt.                                            *)
Numbers ==
    /\ nextPid \in Nat \ {NoPid} /\ NoPid \notin DOMAIN procs
    /\ vfsFile = [s \in Shares |-> vfsFile[s]]
VfsFound == \A p \in DOMAIN procs : procs[p] = "vfs" =>
                p \in VfsPids \cup orphans \/ (call.at = "spawned" /\ p = call.pid)
SeedFound == \A p \in DOMAIN procs : procs[p] = "seed" =>
                 p \in {seedFile} \cup orphans \/ (call.at = "seed spawned" /\ p = call.pid)
HelpersOfQemu == \A p \in DOMAIN procs : procs[p] \in {"vfs", "seed"} => Qemu
FilesEmptied ==
    /\ call.at \in DownSteps \cup {"forget runtime"} /\ Qemu => seedFile = NoPid
    /\ call.at = "seed spawned" => seedFile = NoPid
    /\ call.at \in {"spawn", "spawned"} => \A s \in call.left : s \in Shares /\ vfsFile[s] = NoPid

HelperInv == Numbers /\ VfsFound /\ SeedFound /\ HelpersOfQemu /\ FilesEmptied

VmInv == CallInv /\ KnownInv /\ PathsInv /\ HelperInv

-----------------------------------------------------------------------------
(* The initial state and, part by part, the steps.                          *)

LEMMA VmInit == Init => VmInv
BY DEF Init, VmInv, CallInv, KnownInv, PathsInv, HelperInv, Numbers, VfsFound,
   SeedFound,
       HelpersOfQemu, FilesEmptied, IsVm, IsCall, NoVm, Idle, NoPid,
       Spawning, UpSteps, DownSteps, Qemu, VfsPids

LEMMA NextNumber == \A n \in Nat : n + 1 \in Nat \ {NoPid}
BY DEF NoPid

LEMMA CallStep == VmInv /\ [Next]_vars => CallInv'
<1> SUFFICES ASSUME VmInv, [Next]_vars PROVE CallInv'
    OBVIOUS
<1> USE DEF VmInv, CallInv, IsCall, VmAfter, Without, Spawning, UpSteps,
    DownSteps, At, Goto, Return, Idle, NoPid, Qemu, files, Fault
<1>1. ASSUME NEW op \in {"up", "down", "cleanup"}, NEW p \in Paths \cup {NoPaths}, NEW r \in BOOLEAN,
             op = "up" => p \in Paths, Begin(op, p, r)
      PROVE  CallInv'
    BY <1>1 DEF Begin
<1>2. CASE UpRecreate
    BY <1>2 DEF UpRecreate
<1>3. CASE UpCheck
    BY ZenonT(30), <1>3 DEF UpCheck
<1>4. CASE Prepare
    BY <1>4 DEF Prepare
<1>5. CASE StartVm
    BY <1>5 DEF StartVm
<1>6. CASE SpawnVfs
    BY <1>6 DEF SpawnVfs
<1>7. CASE RecordVfs
    BY <1>7 DEF RecordVfs
<1>8. CASE VfsHealthy
    BY <1>8 DEF VfsHealthy
<1>9. CASE SpawnSeed
    BY <1>9 DEF SpawnSeed
<1>10. CASE RecordSeed
    BY <1>10 DEF RecordSeed
<1>11. CASE RunQemu
    BY <1>11 DEF RunQemu
<1>12. CASE Persist
    BY <1>12 DEF Persist
<1>13. CASE WaitForSsh
    BY <1>13 DEF WaitForSsh
<1>14. CASE EnsureMounts
    BY <1>14 DEF EnsureMounts
<1>15. CASE StepFails
    BY <1>15 DEF StepFails
<1>16. CASE GiveUp
    BY <1>16 DEF GiveUp
<1>17. CASE DownSeed
    BY <1>17 DEF DownSeed
<1>18. CASE DownKill
    BY <1>18 DEF DownKill
<1>19. CASE DownForgetPid
    BY <1>19 DEF DownForgetPid
<1>20. CASE DownForgetRuntime
    BY ZenonT(30), <1>20 DEF DownForgetRuntime
<1>21. CASE DownVfs
    BY <1>21 DEF DownVfs
<1>22. CASE Cleanup
    BY <1>22 DEF Cleanup
<1>23. CASE StartContainer
    BY <1>23 DEF StartContainer
<1>24. CASE ContainerReady
    BY <1>24 DEF ContainerReady
<1>25. CASE StopContainer
    BY <1>25 DEF StopContainer
<1>26. CASE ContainerStopped
    BY ZenonT(30), <1>26 DEF ContainerStopped
<1>27. CASE Interrupt
    BY <1>27 DEF Interrupt
<1>28. CASE ContainerDies
    BY <1>28 DEF ContainerDies
<1>29. CASE Reboot
    BY <1>29 DEF Reboot
<1>30. ASSUME NEW p \in DOMAIN procs, Dies({p}) PROVE CallInv'
    BY <1>30 DEF Dies
<1>31. CASE UNCHANGED vars
    BY <1>31 DEF vars
<1> QED
    BY <1>1, <1>2, <1>3, <1>4, <1>5, <1>6, <1>7, <1>8, <1>9, <1>10, <1>11,
       <1>12, <1>13, <1>14, <1>15, <1>16, <1>17, <1>18, <1>19, <1>20,
       <1>21, <1>22, <1>23, <1>24, <1>25, <1>26, <1>27, <1>28, <1>29,
       <1>30, <1>31 DEF Next

LEMMA KnownStep == VmInv /\ [Next]_vars => KnownInv'
<1> SUFFICES ASSUME VmInv, [Next]_vars PROVE KnownInv'
    OBVIOUS
<1> USE DEF VmInv, CallInv, KnownInv, IsCall, IsVm, NoVm, VmAfter, Without, With,
    Spawning, UpSteps, DownSteps, At, Goto, Return, Idle, NoPid, Qemu, files,
    Fault
<1>1. ASSUME NEW op \in {"up", "down", "cleanup"}, NEW p \in Paths \cup {NoPaths}, NEW r \in BOOLEAN,
             op = "up" => p \in Paths, Begin(op, p, r)
      PROVE  KnownInv'
    BY <1>1 DEF Begin
<1>2. CASE UpRecreate
    BY <1>2 DEF UpRecreate
<1>3. CASE UpCheck
    BY ZenonT(30), <1>3 DEF UpCheck, IsRunning
<1>4. CASE Prepare
    BY <1>4 DEF Prepare
<1>5. CASE StartVm
    BY <1>5 DEF StartVm
<1>6. CASE SpawnVfs
    BY <1>6 DEF SpawnVfs
<1>7. CASE RecordVfs
    BY <1>7 DEF RecordVfs
<1>8. CASE VfsHealthy
    BY <1>8 DEF VfsHealthy
<1>9. CASE SpawnSeed
    BY <1>9 DEF SpawnSeed
<1>10. CASE RecordSeed
    BY <1>10 DEF RecordSeed
<1>11. CASE RunQemu
    BY <1>11 DEF RunQemu
<1>12. CASE Persist
    BY ZenonT(30), <1>12 DEF Persist
<1>13. CASE WaitForSsh
    BY <1>13 DEF WaitForSsh
<1>14. CASE EnsureMounts
    BY <1>14 DEF EnsureMounts
<1>15. CASE StepFails
    BY <1>15 DEF StepFails
<1>16. CASE GiveUp
    BY <1>16 DEF GiveUp
<1>17. CASE DownSeed
    <2>1. CASE Qemu
        <3>1. \/ vm' = NoVm
              \/ vm' = vm /\ (vm.up => vm.pid \in DOMAIN procs')
            BY <1>17, <2>1 DEF DownSeed
        <3>2. call'.at \in {"kill", "vfs"} /\ call'.op = call.op /\ UNCHANGED <<host, pidFile>>
            BY <1>17, <2>1 DEF DownSeed
        <3>3. call'.at = "vfs" /\ call'.op # "cleanup" => pidFile = NoPid \/ pidFile \notin DOMAIN procs'
            BY <1>17, <2>1 DEF DownSeed
        <3>4. call'.at = "kill" => pidFile # NoPid
            BY <1>17, <2>1 DEF DownSeed
        <3>5. vm.up => vm.pid # NoPid
            BY <2>1 DEF HelperInv, Numbers
        <3>6. CASE vm' = NoVm
            BY <2>1, <3>2, <3>4, <3>6
        <3>7. CASE vm' = vm /\ (vm.up => vm.pid \in DOMAIN procs')
            <4>1. vm.up /\ call'.at = "vfs" /\ call'.op # "cleanup" => vm.forgotten
                BY <2>1, <3>3, <3>5, <3>7
            <4> QED
                BY <2>1, <3>2, <3>4, <3>7, <4>1
        <3> QED
            BY <3>1, <3>6, <3>7
    <2>2. CASE ~Qemu
        BY <1>17, <2>2 DEF DownSeed
    <2> QED
        BY <2>1, <2>2
<1>18. CASE DownKill
    BY <1>18 DEF DownKill
<1>19. CASE DownForgetPid
    BY <1>19 DEF DownForgetPid
<1>20. CASE DownForgetRuntime
    BY ZenonT(30), <1>20 DEF DownForgetRuntime
<1>21. CASE DownVfs
    BY ZenonT(30), <1>21 DEF DownVfs
<1>22. CASE Cleanup
    <2>1. CASE Qemu
        <3>1. \/ vm' = NoVm
              \/ vm' = vm /\ (vm.up => vm.pid \in DOMAIN procs')
            BY <1>22, <2>1 DEF Cleanup
        <3>2. call'.at \in {"kill", "vfs"} /\ call'.op = call.op /\ UNCHANGED <<host, pidFile>>
            BY <1>22, <2>1 DEF Cleanup
        <3>3. call'.at = "vfs" /\ call'.op # "cleanup" => pidFile = NoPid \/ pidFile \notin DOMAIN procs'
            BY <1>22, <2>1 DEF Cleanup
        <3>4. call'.at = "kill" => pidFile # NoPid
            BY <1>22, <2>1 DEF Cleanup
        <3>5. vm.up => vm.pid # NoPid
            BY <2>1 DEF HelperInv, Numbers
        <3>6. CASE vm' = NoVm
            BY <2>1, <3>2, <3>4, <3>6
        <3>7. CASE vm' = vm /\ (vm.up => vm.pid \in DOMAIN procs')
            <4>1. vm.up /\ call'.at = "vfs" /\ call'.op # "cleanup" => vm.forgotten
                BY <2>1, <3>3, <3>5, <3>7
            <4> QED
                BY <2>1, <3>2, <3>4, <3>7, <4>1
        <3> QED
            BY <3>1, <3>6, <3>7
    <2>2. CASE ~Qemu
        BY <1>22, <2>2 DEF Cleanup
    <2> QED
        BY <2>1, <2>2
<1>23. CASE StartContainer
    BY <1>23 DEF StartContainer
<1>24. CASE ContainerReady
    BY <1>24 DEF ContainerReady
<1>25. CASE StopContainer
    <2>1. CASE vm' = NoVm
        BY <1>25, <2>1 DEF StopContainer
    <2>2. CASE vm.up /\ vm' = [vm EXCEPT !.forgotten = TRUE]
        BY <1>25, <2>2 DEF StopContainer
    <2> QED
        BY <1>25, <2>1, <2>2 DEF StopContainer
<1>26. CASE ContainerStopped
    BY ZenonT(30), <1>26 DEF ContainerStopped
<1>27. CASE Interrupt
    BY <1>27 DEF Interrupt
<1>28. CASE ContainerDies
    BY <1>28 DEF ContainerDies
<1>29. CASE Reboot
    BY <1>29 DEF Reboot
<1>30. ASSUME NEW p \in DOMAIN procs, Dies({p}) PROVE KnownInv'
    BY <1>30 DEF Dies
<1>31. CASE UNCHANGED vars
    BY <1>31 DEF vars
<1> QED
    BY <1>1, <1>2, <1>3, <1>4, <1>5, <1>6, <1>7, <1>8, <1>9, <1>10, <1>11,
       <1>12, <1>13, <1>14, <1>15, <1>16, <1>17, <1>18, <1>19, <1>20,
       <1>21, <1>22, <1>23, <1>24, <1>25, <1>26, <1>27, <1>28, <1>29,
       <1>30, <1>31 DEF Next

LEMMA PathsStep == VmInv /\ [Next]_vars => PathsInv'
<1> SUFFICES ASSUME VmInv, [Next]_vars PROVE PathsInv'
    OBVIOUS
<1> USE DEF VmInv, CallInv, KnownInv, PathsInv, IsCall, IsVm, NoVm, VmAfter,
    Without, With, Spawning, UpSteps, DownSteps, At, Goto, Return, Idle, NoPid,
    Qemu, files, Fault
<1>1. ASSUME NEW op \in {"up", "down", "cleanup"}, NEW p \in Paths \cup {NoPaths}, NEW r \in BOOLEAN,
             op = "up" => p \in Paths, Begin(op, p, r)
      PROVE  PathsInv'
    BY <1>1 DEF Begin
<1>2. CASE UpRecreate
    BY <1>2 DEF UpRecreate
<1>3. CASE UpCheck
    <2> USE <1>3 DEF UpCheck, IsRunning
    <2>1. CASE ~IsRunning \/ runtime \notin {NoPaths, call.paths}
        BY <2>1
    <2>2. CASE IsRunning /\ runtime \in {NoPaths, call.paths}
        BY ZenonT(30), <2>2, VmLifecycleAssumption
    <2> QED
        BY <2>1, <2>2
<1>4. CASE Prepare
    BY <1>4 DEF Prepare
<1>5. CASE StartVm
    BY <1>5 DEF StartVm
<1>6. CASE SpawnVfs
    BY <1>6 DEF SpawnVfs
<1>7. CASE RecordVfs
    BY <1>7 DEF RecordVfs
<1>8. CASE VfsHealthy
    BY <1>8 DEF VfsHealthy
<1>9. CASE SpawnSeed
    BY <1>9 DEF SpawnSeed
<1>10. CASE RecordSeed
    BY <1>10 DEF RecordSeed
<1>11. CASE RunQemu
    BY <1>11 DEF RunQemu
<1>12. CASE Persist
    BY <1>12 DEF Persist
<1>13. CASE WaitForSsh
    BY <1>13 DEF WaitForSsh
<1>14. CASE EnsureMounts
    BY <1>14 DEF EnsureMounts
<1>15. CASE StepFails
    BY <1>15 DEF StepFails
<1>16. CASE GiveUp
    BY <1>16 DEF GiveUp
<1>17. CASE DownSeed
    BY <1>17 DEF DownSeed
<1>18. CASE DownKill
    BY <1>18 DEF DownKill
<1>19. CASE DownForgetPid
    BY <1>19 DEF DownForgetPid
<1>20. CASE DownForgetRuntime
    BY <1>20 DEF DownForgetRuntime
<1>21. CASE DownVfs
    BY <1>21 DEF DownVfs
<1>22. CASE Cleanup
    BY <1>22 DEF Cleanup
<1>23. CASE StartContainer
    BY <1>23 DEF StartContainer
<1>24. CASE ContainerReady
    BY <1>24 DEF ContainerReady
<1>25. CASE StopContainer
    <2>1. CASE vm' = NoVm
        BY <1>25, <2>1 DEF StopContainer
    <2>2. CASE vm.up /\ vm' = [vm EXCEPT !.forgotten = TRUE]
        BY <1>25, <2>2 DEF StopContainer
    <2> QED
        BY <1>25, <2>1, <2>2 DEF StopContainer
<1>26. CASE ContainerStopped
    BY <1>26 DEF ContainerStopped
<1>27. CASE Interrupt
    BY <1>27 DEF Interrupt
<1>28. CASE ContainerDies
    BY <1>28 DEF ContainerDies
<1>29. CASE Reboot
    BY <1>29 DEF Reboot
<1>30. ASSUME NEW p \in DOMAIN procs, Dies({p}) PROVE PathsInv'
    BY <1>30 DEF Dies
<1>31. CASE UNCHANGED vars
    BY <1>31 DEF vars
<1> QED
    BY <1>1, <1>2, <1>3, <1>4, <1>5, <1>6, <1>7, <1>8, <1>9, <1>10, <1>11,
       <1>12, <1>13, <1>14, <1>15, <1>16, <1>17, <1>18, <1>19, <1>20,
       <1>21, <1>22, <1>23, <1>24, <1>25, <1>26, <1>27, <1>28, <1>29,
       <1>30, <1>31 DEF Next

LEMMA NumbersStep == VmInv /\ [Next]_vars => Numbers'
<1> SUFFICES ASSUME VmInv, [Next]_vars PROVE Numbers'
    OBVIOUS
<1> USE DEF VmInv, CallInv, HelperInv, Numbers, IsCall, Without, With, SeedPids,
    NoVfsFiles, VmAfter, At, Goto, Return, Idle, NoPid, Qemu, files, Fault
<1>1. ASSUME NEW op \in {"up", "down", "cleanup"}, NEW p \in Paths \cup {NoPaths}, NEW r \in BOOLEAN,
             op = "up" => p \in Paths, Begin(op, p, r)
      PROVE  Numbers'
    BY <1>1 DEF Begin
<1>2. CASE UpRecreate
    BY <1>2 DEF UpRecreate
<1>3. CASE UpCheck
    BY <1>3 DEF UpCheck
<1>4. CASE Prepare
    BY <1>4 DEF Prepare
<1>5. CASE StartVm
    BY <1>5 DEF StartVm
<1>6. CASE SpawnVfs
    BY <1>6 DEF SpawnVfs
<1>7. CASE RecordVfs
    BY <1>7 DEF RecordVfs
<1>8. CASE VfsHealthy
    BY <1>8 DEF VfsHealthy
<1>9. CASE SpawnSeed
    <2>1. CASE seedMode # "http"
        BY <1>9, <2>1 DEF SpawnSeed
    <2>2. CASE seedMode = "http"
        <3>1. procs' = [p \in (DOMAIN procs \ SeedPids) \cup {nextPid} |->
                           IF p = nextPid THEN "seed" ELSE procs[p]]
            BY <1>9, <2>2 DEF SpawnSeed
        <3>2. nextPid' = nextPid + 1 /\ vfsFile' = vfsFile
            BY <1>9, <2>2 DEF SpawnSeed
        <3>3. nextPid' \in Nat \ {NoPid}
            BY <3>2, NextNumber
        <3>4. DOMAIN procs' = (DOMAIN procs \ SeedPids) \cup {nextPid}
            BY <3>1
        <3> QED
            BY <3>2, <3>3, <3>4
    <2> QED
        BY <2>1, <2>2
<1>10. CASE RecordSeed
    BY <1>10 DEF RecordSeed
<1>11. CASE RunQemu
    BY <1>11 DEF RunQemu
<1>12. CASE Persist
    BY <1>12 DEF Persist
<1>13. CASE WaitForSsh
    BY <1>13 DEF WaitForSsh
<1>14. CASE EnsureMounts
    BY <1>14 DEF EnsureMounts
<1>15. CASE StepFails
    BY <1>15 DEF StepFails
<1>16. CASE GiveUp
    BY <1>16 DEF GiveUp
<1>17. CASE DownSeed
    BY <1>17 DEF DownSeed
<1>18. CASE DownKill
    BY <1>18 DEF DownKill
<1>19. CASE DownForgetPid
    BY <1>19 DEF DownForgetPid
<1>20. CASE DownForgetRuntime
    BY <1>20 DEF DownForgetRuntime
<1>21. CASE DownVfs
    BY <1>21 DEF DownVfs
<1>22. CASE Cleanup
    BY <1>22 DEF Cleanup
<1>23. CASE StartContainer
    BY <1>23 DEF StartContainer
<1>24. CASE ContainerReady
    BY <1>24 DEF ContainerReady
<1>25. CASE StopContainer
    BY <1>25 DEF StopContainer
<1>26. CASE ContainerStopped
    BY <1>26 DEF ContainerStopped
<1>27. CASE Interrupt
    BY <1>27 DEF Interrupt
<1>28. CASE ContainerDies
    BY <1>28 DEF ContainerDies
<1>29. CASE Reboot
    BY <1>29 DEF Reboot
<1>30. ASSUME NEW p \in DOMAIN procs, Dies({p}) PROVE Numbers'
    BY <1>30 DEF Dies
<1>31. CASE UNCHANGED vars
    BY <1>31 DEF vars
<1> QED
    BY <1>1, <1>2, <1>3, <1>4, <1>5, <1>6, <1>7, <1>8, <1>9, <1>10, <1>11,
       <1>12, <1>13, <1>14, <1>15, <1>16, <1>17, <1>18, <1>19, <1>20,
       <1>21, <1>22, <1>23, <1>24, <1>25, <1>26, <1>27, <1>28, <1>29,
       <1>30, <1>31 DEF Next

LEMMA VfsStep == VmInv /\ [Next]_vars => VfsFound'
<1> SUFFICES ASSUME VmInv, [Next]_vars PROVE VfsFound'
    OBVIOUS
<1> USE DEF VmInv, CallInv, HelperInv, Numbers, IsCall, Without, With, SeedPids,
    NoVfsFiles, VmAfter, VfsFound, At, Goto, Return, Idle, NoPid, Qemu, files,
    Fault
<1>0. vfsFile' = vfsFile => VfsPids' = VfsPids
    BY DEF VfsPids
<1>1. ASSUME NEW op \in {"up", "down", "cleanup"}, NEW p \in Paths \cup {NoPaths}, NEW r \in BOOLEAN,
             op = "up" => p \in Paths, Begin(op, p, r)
      PROVE  VfsFound'
    BY <1>1, <1>0 DEF Begin
<1>2. CASE UpRecreate
    BY <1>2, <1>0 DEF UpRecreate
<1>3. CASE UpCheck
    BY <1>3, <1>0 DEF UpCheck
<1>4. CASE Prepare
    BY <1>4, <1>0 DEF Prepare
<1>5. CASE StartVm
    <2>1. CASE ~vm.up /\ host.virtiofs
        <3>1. procs' = [p \in DOMAIN procs \ VfsPids |-> procs[p]] /\ orphans' = orphans
            BY <1>5, <2>1 DEF StartVm
        <3>2. call.pid = NoPid
            BY <1>5 DEF StartVm
        <3> QED
            BY <3>1, <3>2
    <2>2. CASE vm.up \/ ~host.virtiofs
        <3>1. vfsFile' = vfsFile /\ procs' = procs /\ orphans' = orphans /\ call'.pid = NoPid /\ call.pid = NoPid
            BY <1>5, <2>2 DEF StartVm
        <3>2. VfsPids' = VfsPids
            BY <3>1, <1>0
        <3> QED
            BY <3>1, <3>2
    <2> QED
        BY <2>1, <2>2
<1>6. CASE SpawnVfs
    BY <1>6 DEF SpawnVfs, VfsPids
<1>7. CASE RecordVfs
    <2>1. PICK s \in call.left : vfsFile' = [vfsFile EXCEPT ![s] = call.pid]
        BY <1>7 DEF RecordVfs
    <2>2. s \in Shares /\ vfsFile[s] = NoPid /\ procs' = procs /\ orphans' = orphans
        BY <1>7 DEF RecordVfs, FilesEmptied
    <2>3. VfsPids \cup {call.pid} \subseteq VfsPids' \cup {NoPid}
        BY <2>1, <2>2 DEF VfsPids
    <2> QED
        BY <2>2, <2>3
<1>8. CASE VfsHealthy
    BY <1>8, <1>0 DEF VfsHealthy
<1>9. CASE SpawnSeed
    <2>1. vfsFile' = vfsFile /\ orphans' = orphans /\ call.pid = NoPid
        BY <1>9 DEF SpawnSeed
    <2>2. VfsPids' = VfsPids
        BY <2>1, <1>0
    <2>3. \A p \in DOMAIN procs' : procs'[p] = "vfs" => p \in DOMAIN procs /\ procs[p] = "vfs"
        <3>1. CASE seedMode # "http"
            BY <1>9, <3>1 DEF SpawnSeed
        <3>2. CASE seedMode = "http"
            <4>1. procs' = [p \in (DOMAIN procs \ SeedPids) \cup {nextPid} |->
                               IF p = nextPid THEN "seed" ELSE procs[p]]
                BY <1>9, <3>2 DEF SpawnSeed
            <4> QED
                BY <4>1
        <3> QED
            BY <3>1, <3>2
    <2> QED
        BY <2>1, <2>2, <2>3
<1>10. CASE RecordSeed
    BY <1>10, <1>0 DEF RecordSeed
<1>11. CASE RunQemu
    BY <1>11, <1>0 DEF RunQemu
<1>12. CASE Persist
    BY <1>12, <1>0 DEF Persist
<1>13. CASE WaitForSsh
    BY <1>13, <1>0 DEF WaitForSsh
<1>14. CASE EnsureMounts
    BY <1>14, <1>0 DEF EnsureMounts
<1>15. CASE StepFails
    BY <1>15, <1>0 DEF StepFails
<1>16. CASE GiveUp
    BY <1>16, <1>0 DEF GiveUp
<1>17. CASE DownSeed
    BY <1>17, <1>0 DEF DownSeed
<1>18. CASE DownKill
    BY <1>18, <1>0 DEF DownKill
<1>19. CASE DownForgetPid
    BY <1>19, <1>0 DEF DownForgetPid
<1>20. CASE DownForgetRuntime
    BY <1>20, <1>0 DEF DownForgetRuntime
<1>21. CASE DownVfs
    BY <1>21 DEF DownVfs, VfsPids
<1>22. CASE Cleanup
    BY <1>22, <1>0 DEF Cleanup
<1>23. CASE StartContainer
    BY <1>23, <1>0 DEF StartContainer
<1>24. CASE ContainerReady
    BY <1>24, <1>0 DEF ContainerReady
<1>25. CASE StopContainer
    BY <1>25, <1>0 DEF StopContainer
<1>26. CASE ContainerStopped
    BY <1>26, <1>0 DEF ContainerStopped
<1>27. CASE Interrupt
    BY <1>27 DEF Interrupt, VfsPids
<1>28. CASE ContainerDies
    BY <1>28, <1>0 DEF ContainerDies
<1>29. CASE Reboot
    BY <1>29 DEF Reboot
<1>30. ASSUME NEW p \in DOMAIN procs, Dies({p}) PROVE VfsFound'
    BY <1>30, <1>0 DEF Dies
<1>31. CASE UNCHANGED vars
    BY <1>31, <1>0 DEF vars, files
<1> QED
    BY <1>1, <1>2, <1>3, <1>4, <1>5, <1>6, <1>7, <1>8, <1>9, <1>10, <1>11,
       <1>12, <1>13, <1>14, <1>15, <1>16, <1>17, <1>18, <1>19, <1>20,
       <1>21, <1>22, <1>23, <1>24, <1>25, <1>26, <1>27, <1>28, <1>29,
       <1>30, <1>31 DEF Next

LEMMA SeedStep == VmInv /\ [Next]_vars => SeedFound'
<1> SUFFICES ASSUME VmInv, [Next]_vars PROVE SeedFound'
    OBVIOUS
<1> USE DEF VmInv, CallInv, HelperInv, Numbers, IsCall, Without, With, SeedPids,
    NoVfsFiles, VmAfter, SeedFound, FilesEmptied, DownSteps, At, Goto, Return,
    Idle, NoPid, Qemu, files, Fault
<1>1. ASSUME NEW op \in {"up", "down", "cleanup"}, NEW p \in Paths \cup {NoPaths}, NEW r \in BOOLEAN,
             op = "up" => p \in Paths, Begin(op, p, r)
      PROVE  SeedFound'
    BY <1>1 DEF Begin
<1>2. CASE UpRecreate
    BY <1>2 DEF UpRecreate
<1>3. CASE UpCheck
    BY <1>3 DEF UpCheck
<1>4. CASE Prepare
    BY <1>4 DEF Prepare
<1>5. CASE StartVm
    <2>1. CASE ~vm.up /\ host.virtiofs
        <3>1. procs' = [p \in DOMAIN procs \ VfsPids |-> procs[p]]
            BY <1>5, <2>1 DEF StartVm
        <3>2. UNCHANGED <<orphans, seedFile>>
            BY <1>5, <2>1 DEF StartVm
        <3> QED
            BY <1>5, <3>1, <3>2 DEF StartVm
    <2>2. CASE vm.up \/ ~host.virtiofs
        <3>1. UNCHANGED <<orphans, seedFile, procs>>
            BY <1>5, <2>2 DEF StartVm
        <3> QED
            BY <1>5, <3>1 DEF StartVm
    <2> QED
        BY <2>1, <2>2
<1>6. CASE SpawnVfs
    BY <1>6 DEF SpawnVfs
<1>7. CASE RecordVfs
    BY <1>7 DEF RecordVfs
<1>8. CASE VfsHealthy
    BY <1>8 DEF VfsHealthy
<1>9. CASE SpawnSeed
    <2>1. CASE seedMode # "http"
        BY <1>9, <2>1 DEF SpawnSeed
    <2>2. CASE seedMode = "http"
        <3>1. procs' = [p \in (DOMAIN procs \ SeedPids) \cup {nextPid} |->
                           IF p = nextPid THEN "seed" ELSE procs[p]]
            BY <1>9, <2>2 DEF SpawnSeed
        <3>2. orphans' = orphans /\ call'.at = "seed spawned" /\ call'.pid = nextPid
            BY <1>9, <2>2 DEF SpawnSeed
        <3>3. call.at # "seed spawned"
            BY <1>9 DEF SpawnSeed
        <3> QED
            BY <3>1, <3>2, <3>3
    <2> QED
        BY <2>1, <2>2
<1>10. CASE RecordSeed
    BY <1>10 DEF RecordSeed
<1>11. CASE RunQemu
    BY <1>11 DEF RunQemu
<1>12. CASE Persist
    BY <1>12 DEF Persist
<1>13. CASE WaitForSsh
    BY <1>13 DEF WaitForSsh
<1>14. CASE EnsureMounts
    BY <1>14 DEF EnsureMounts
<1>15. CASE StepFails
    BY <1>15 DEF StepFails
<1>16. CASE GiveUp
    BY <1>16 DEF GiveUp
<1>17. CASE DownSeed
    BY <1>17 DEF DownSeed
<1>18. CASE DownKill
    BY <1>18 DEF DownKill
<1>19. CASE DownForgetPid
    BY <1>19 DEF DownForgetPid
<1>20. CASE DownForgetRuntime
    BY <1>20 DEF DownForgetRuntime
<1>21. CASE DownVfs
    BY <1>21 DEF DownVfs
<1>22. CASE Cleanup
    BY ZenonT(30), <1>22 DEF Cleanup
<1>23. CASE StartContainer
    BY <1>23 DEF StartContainer
<1>24. CASE ContainerReady
    BY <1>24 DEF ContainerReady
<1>25. CASE StopContainer
    BY <1>25 DEF StopContainer
<1>26. CASE ContainerStopped
    BY <1>26 DEF ContainerStopped
<1>27. CASE Interrupt
    BY <1>27 DEF Interrupt
<1>28. CASE ContainerDies
    BY <1>28 DEF ContainerDies
<1>29. CASE Reboot
    BY <1>29 DEF Reboot
<1>30. ASSUME NEW p \in DOMAIN procs, Dies({p}) PROVE SeedFound'
    BY <1>30 DEF Dies
<1>31. CASE UNCHANGED vars
    BY <1>31 DEF vars
<1> QED
    BY <1>1, <1>2, <1>3, <1>4, <1>5, <1>6, <1>7, <1>8, <1>9, <1>10, <1>11,
       <1>12, <1>13, <1>14, <1>15, <1>16, <1>17, <1>18, <1>19, <1>20,
       <1>21, <1>22, <1>23, <1>24, <1>25, <1>26, <1>27, <1>28, <1>29,
       <1>30, <1>31 DEF Next

LEMMA OfQemuStep == VmInv /\ [Next]_vars => HelpersOfQemu'
<1> SUFFICES ASSUME VmInv, [Next]_vars PROVE HelpersOfQemu'
    OBVIOUS
<1> USE DEF VmInv, CallInv, HelperInv, Numbers, IsCall, Without, With, SeedPids,
    NoVfsFiles, VmAfter, HelpersOfQemu, Spawning, UpSteps, DownSteps, At, Goto,
    Return, Idle, NoPid, Qemu, files, Fault
<1>1. ASSUME NEW op \in {"up", "down", "cleanup"}, NEW p \in Paths \cup {NoPaths}, NEW r \in BOOLEAN,
             op = "up" => p \in Paths, Begin(op, p, r)
      PROVE  HelpersOfQemu'
    BY <1>1 DEF Begin
<1>2. CASE UpRecreate
    BY <1>2 DEF UpRecreate
<1>3. CASE UpCheck
    BY <1>3 DEF UpCheck
<1>4. CASE Prepare
    BY <1>4 DEF Prepare
<1>5. CASE StartVm
    BY <1>5 DEF StartVm
<1>6. CASE SpawnVfs
    BY <1>6 DEF SpawnVfs
<1>7. CASE RecordVfs
    BY <1>7 DEF RecordVfs
<1>8. CASE VfsHealthy
    BY <1>8 DEF VfsHealthy
<1>9. CASE SpawnSeed
    BY <1>9 DEF SpawnSeed
<1>10. CASE RecordSeed
    BY <1>10 DEF RecordSeed
<1>11. CASE RunQemu
    BY <1>11 DEF RunQemu
<1>12. CASE Persist
    BY <1>12 DEF Persist
<1>13. CASE WaitForSsh
    BY <1>13 DEF WaitForSsh
<1>14. CASE EnsureMounts
    BY <1>14 DEF EnsureMounts
<1>15. CASE StepFails
    BY <1>15 DEF StepFails
<1>16. CASE GiveUp
    BY <1>16 DEF GiveUp
<1>17. CASE DownSeed
    BY <1>17 DEF DownSeed
<1>18. CASE DownKill
    BY <1>18 DEF DownKill
<1>19. CASE DownForgetPid
    BY <1>19 DEF DownForgetPid
<1>20. CASE DownForgetRuntime
    BY <1>20 DEF DownForgetRuntime
<1>21. CASE DownVfs
    BY <1>21 DEF DownVfs
<1>22. CASE Cleanup
    BY <1>22 DEF Cleanup
<1>23. CASE StartContainer
    BY <1>23 DEF StartContainer
<1>24. CASE ContainerReady
    BY <1>24 DEF ContainerReady
<1>25. CASE StopContainer
    BY <1>25 DEF StopContainer
<1>26. CASE ContainerStopped
    BY <1>26 DEF ContainerStopped
<1>27. CASE Interrupt
    BY <1>27 DEF Interrupt
<1>28. CASE ContainerDies
    BY <1>28 DEF ContainerDies
<1>29. CASE Reboot
    BY <1>29 DEF Reboot
<1>30. ASSUME NEW p \in DOMAIN procs, Dies({p}) PROVE HelpersOfQemu'
    BY <1>30 DEF Dies
<1>31. CASE UNCHANGED vars
    BY <1>31 DEF vars
<1> QED
    BY <1>1, <1>2, <1>3, <1>4, <1>5, <1>6, <1>7, <1>8, <1>9, <1>10, <1>11,
       <1>12, <1>13, <1>14, <1>15, <1>16, <1>17, <1>18, <1>19, <1>20,
       <1>21, <1>22, <1>23, <1>24, <1>25, <1>26, <1>27, <1>28, <1>29,
       <1>30, <1>31 DEF Next

LEMMA EmptiedStep == VmInv /\ [Next]_vars => FilesEmptied'
<1> SUFFICES ASSUME VmInv, [Next]_vars PROVE FilesEmptied'
    OBVIOUS
<1> USE DEF VmInv, CallInv, HelperInv, Numbers, IsCall, Without, With, SeedPids,
    NoVfsFiles, VmAfter, FilesEmptied, Spawning, UpSteps, DownSteps, At, Goto,
    Return, Idle, NoPid, Qemu, files, Fault
<1>1. ASSUME NEW op \in {"up", "down", "cleanup"}, NEW p \in Paths \cup {NoPaths}, NEW r \in BOOLEAN,
             op = "up" => p \in Paths, Begin(op, p, r)
      PROVE  FilesEmptied'
    BY <1>1 DEF Begin
<1>2. CASE UpRecreate
    BY <1>2 DEF UpRecreate
<1>3. CASE UpCheck
    BY <1>3 DEF UpCheck
<1>4. CASE Prepare
    BY <1>4 DEF Prepare
<1>5. CASE StartVm
    BY ZenonT(30), <1>5 DEF StartVm
<1>6. CASE SpawnVfs
    BY <1>6 DEF SpawnVfs
<1>7. CASE RecordVfs
    BY <1>7 DEF RecordVfs
<1>8. CASE VfsHealthy
    BY <1>8 DEF VfsHealthy
<1>9. CASE SpawnSeed
    BY <1>9 DEF SpawnSeed
<1>10. CASE RecordSeed
    BY <1>10 DEF RecordSeed
<1>11. CASE RunQemu
    BY <1>11 DEF RunQemu
<1>12. CASE Persist
    BY <1>12 DEF Persist
<1>13. CASE WaitForSsh
    BY <1>13 DEF WaitForSsh
<1>14. CASE EnsureMounts
    BY <1>14 DEF EnsureMounts
<1>15. CASE StepFails
    BY <1>15 DEF StepFails
<1>16. CASE GiveUp
    BY <1>16 DEF GiveUp
<1>17. CASE DownSeed
    BY <1>17 DEF DownSeed
<1>18. CASE DownKill
    BY <1>18 DEF DownKill
<1>19. CASE DownForgetPid
    BY <1>19 DEF DownForgetPid
<1>20. CASE DownForgetRuntime
    BY <1>20 DEF DownForgetRuntime
<1>21. CASE DownVfs
    BY <1>21 DEF DownVfs
<1>22. CASE Cleanup
    BY <1>22 DEF Cleanup
<1>23. CASE StartContainer
    BY <1>23 DEF StartContainer
<1>24. CASE ContainerReady
    BY <1>24 DEF ContainerReady
<1>25. CASE StopContainer
    BY <1>25 DEF StopContainer
<1>26. CASE ContainerStopped
    BY <1>26 DEF ContainerStopped
<1>27. CASE Interrupt
    BY <1>27 DEF Interrupt
<1>28. CASE ContainerDies
    BY <1>28 DEF ContainerDies
<1>29. CASE Reboot
    BY <1>29 DEF Reboot
<1>30. ASSUME NEW p \in DOMAIN procs, Dies({p}) PROVE FilesEmptied'
    BY <1>30 DEF Dies
<1>31. CASE UNCHANGED vars
    BY <1>31 DEF vars
<1> QED
    BY <1>1, <1>2, <1>3, <1>4, <1>5, <1>6, <1>7, <1>8, <1>9, <1>10, <1>11,
       <1>12, <1>13, <1>14, <1>15, <1>16, <1>17, <1>18, <1>19, <1>20,
       <1>21, <1>22, <1>23, <1>24, <1>25, <1>26, <1>27, <1>28, <1>29,
       <1>30, <1>31 DEF Next

-----------------------------------------------------------------------------
(* Together: the invariant, and what it means for a running machine.        *)

LEMMA VmAlways == Spec => []VmInv
<1>1. VmInv /\ [Next]_vars => VmInv'
    BY CallStep, KnownStep, PathsStep, NumbersStep, VfsStep, SeedStep, OfQemuStep,
       EmptiedStep
       DEF VmInv, HelperInv
<1> QED
    BY VmInit, <1>1, PTL DEF Spec

(* A machine that runs is found again through its pid file, unless cleanup  *)
(* was called while it ran (qemu.rs:391, 471), for any paths and shares and *)
(* any number of commands, interrupts, failures, deaths and reboots.        *)
THEOREM MachineKnown == Spec => []VmKnown
<1>1. VmInv => VmKnown
    BY DEF VmInv, KnownInv, VmKnown
<1> QED
    BY VmAlways, <1>1, PTL

(* The step that ends an up with success.                                   *)
LEMMA UpEnds ==
    ASSUME VmInv, [Next]_vars, call'.at = "idle", call'.op = "up", call'.ok, call.at # "idle"
    PROVE  /\ Qemu => vm'.up
           /\ vm'.up /\ vm'.saved /\ ~vm'.forgotten => vm'.paths = call'.paths
<1> USE DEF VmInv, CallInv, IsCall, KnownInv, PathsInv, Goto, Return, Idle, At, Qemu
<1>1. CASE UpCheck
    BY <1>1, VmLifecycleAssumption DEF UpCheck, IsRunning, UpSteps
<1>2. CASE Persist
    <2>1. CASE Qemu
        BY <1>2, <2>1 DEF Persist
    <2>2. CASE ~Qemu
        BY <1>2, <2>2 DEF Persist, IsVm
    <2> QED
        BY <2>1, <2>2
<1>3. CASE EnsureMounts
    BY <1>3 DEF EnsureMounts
<1>4. CASE DownForgetRuntime \/ DownVfs \/ ContainerStopped
    BY <1>4 DEF DownForgetRuntime, DownVfs, ContainerStopped
<1>5. CASE UpRecreate \/ Prepare \/ StartVm \/ SpawnVfs \/ RecordVfs
    BY <1>5 DEF UpRecreate, Prepare, StartVm, SpawnVfs, RecordVfs
<1>6. CASE VfsHealthy \/ SpawnSeed \/ RecordSeed \/ RunQemu
    BY <1>6 DEF VfsHealthy, SpawnSeed, RecordSeed, RunQemu
<1>7. CASE WaitForSsh \/ StepFails \/ GiveUp
    BY <1>7 DEF WaitForSsh, StepFails, GiveUp
<1>8. CASE DownSeed \/ DownKill \/ DownForgetPid \/ Cleanup
    BY <1>8 DEF DownSeed, DownKill, DownForgetPid, Cleanup
<1>9. CASE StartContainer \/ ContainerReady \/ StopContainer \/ ContainerDies
    BY <1>9 DEF StartContainer, ContainerReady, StopContainer, ContainerDies
<1>10. CASE Interrupt
    BY <1>10 DEF Interrupt
<1>11. CASE Reboot
    BY <1>11 DEF Reboot
<1>12. ASSUME NEW op \in {"up", "down", "cleanup"}, NEW p \in Paths \cup {NoPaths}, NEW r \in BOOLEAN,
             Begin(op, p, r)
      PROVE  FALSE
    BY <1>12 DEF Begin
<1>13. ASSUME NEW p \in DOMAIN procs, Dies({p}) PROVE FALSE
    BY <1>13 DEF Dies
<1>14. CASE UNCHANGED vars
    BY <1>14 DEF vars
<1> QED
    BY <1>1, <1>2, <1>3, <1>4, <1>5, <1>6, <1>7, <1>8, <1>9, <1>10, <1>11,
       <1>12, <1>13, <1>14 DEF Next

LEMMA DownEnds ==
    ASSUME VmInv, [Next]_vars, call'.at = "idle", call'.op = "down", call'.ok, call.at # "idle"
    PROVE  /\ vm'.up => vm'.forgotten
           /\ \A p \in DOMAIN procs' : procs'[p] \in {"vfs", "seed"} => p \in orphans'
<1> USE DEF VmInv, CallInv, IsCall, Goto, Return, Idle, At, Qemu
<1>1. CASE DownVfs
    <2>1. vm'.up => vm'.forgotten
        BY <1>1 DEF DownVfs, KnownInv, VmAfter, NoVm
    <2>2. procs' = [p \in DOMAIN procs \ VfsPids |-> procs[p]] /\ orphans' = orphans
        BY <1>1 DEF DownVfs, Without
    <2>3. call.at = "vfs" /\ Qemu
        BY <1>1 DEF DownVfs, DownSteps
    <2>4. seedFile = NoPid /\ NoPid \notin DOMAIN procs
        BY <2>3 DEF HelperInv, Numbers, FilesEmptied, DownSteps
    <2> QED
        BY <2>1, <2>2, <2>3, <2>4 DEF HelperInv, VfsFound, SeedFound
<1>2. CASE ContainerStopped
    <2>1. ~Qemu /\ UNCHANGED <<procs, vm>>
        BY <1>2 DEF ContainerStopped
    <2>2. vm.up => vm.forgotten
        BY <1>2 DEF ContainerStopped, KnownInv
    <2> QED
        BY <2>1, <2>2 DEF HelperInv, HelpersOfQemu
<1>3. CASE DownForgetRuntime
    BY <1>3 DEF DownForgetRuntime
<1>4. CASE UpCheck \/ Persist \/ EnsureMounts
    BY <1>4 DEF UpCheck, Persist, EnsureMounts, UpSteps
<1>5. CASE UpRecreate \/ Prepare \/ StartVm \/ SpawnVfs \/ RecordVfs
    BY <1>5 DEF UpRecreate, Prepare, StartVm, SpawnVfs, RecordVfs, UpSteps
<1>6. CASE VfsHealthy \/ SpawnSeed \/ RecordSeed \/ RunQemu
    BY <1>6 DEF VfsHealthy, SpawnSeed, RecordSeed, RunQemu, UpSteps
<1>7. CASE WaitForSsh \/ StepFails \/ GiveUp
    BY <1>7 DEF WaitForSsh, StepFails, GiveUp, UpSteps
<1>8. CASE DownSeed \/ DownKill \/ DownForgetPid \/ Cleanup
    BY <1>8 DEF DownSeed, DownKill, DownForgetPid, Cleanup, UpSteps
<1>9. CASE StartContainer \/ ContainerReady \/ StopContainer \/ ContainerDies
    BY <1>9 DEF StartContainer, ContainerReady, StopContainer, ContainerDies,
       UpSteps
<1>10. CASE Interrupt
    BY <1>10 DEF Interrupt, UpSteps
<1>11. CASE Reboot
    BY <1>11 DEF Reboot, UpSteps
<1>12. ASSUME NEW op \in {"up", "down", "cleanup"}, NEW p \in Paths \cup {NoPaths}, NEW r \in BOOLEAN,
             Begin(op, p, r)
      PROVE  FALSE
    BY <1>12 DEF Begin
<1>13. ASSUME NEW p \in DOMAIN procs, Dies({p}) PROVE FALSE
    BY <1>13 DEF Dies
<1>14. CASE UNCHANGED vars
    BY <1>14 DEF vars
<1> QED
    BY <1>1, <1>2, <1>3, <1>4, <1>5, <1>6, <1>7, <1>8, <1>9, <1>10, <1>11,
       <1>12, <1>13, <1>14 DEF Next

(* An up of qemu that succeeds leaves a running machine, and the machine of *)
(* either backend has the mounts that were asked for, unless the one it     *)
(* took was never recorded or was forgotten by a cleanup (qemu.rs:670-713,  *)
(* qemu.rs:1347, container.rs:463).                                         *)
THEOREM UpHasItsMounts == Spec => UpMounts
<1>1. VmInv /\ [Next]_vars =>
        [call'.at = "idle" /\ call'.op = "up" /\ call'.ok /\ call.at # "idle" =>
          /\ Qemu => vm'.up
          /\ vm'.up /\ vm'.saved /\ ~vm'.forgotten => vm'.paths = call'.paths]_vars
    BY UpEnds
<1> QED
    BY VmAlways, <1>1, PTL DEF Spec, UpMounts

(* After a down that succeeds nothing runs that was started before, but for *)
(* what a cleanup, an interrupt or an ignored failure has made unknown      *)
(* (qemu.rs:471-498, container.rs:284-296).                                 *)
THEOREM DownLeavesNothing == Spec => DownStops
<1>1. VmInv /\ [Next]_vars =>
        [call'.at = "idle" /\ call'.op = "down" /\ call'.ok /\ call.at # "idle" =>
          /\ vm'.up => vm'.forgotten
          /\ \A p \in DOMAIN procs' : procs'[p] \in {"vfs", "seed"} => p \in orphans']_vars
    BY DownEnds
<1> QED
    BY VmAlways, <1>1, PTL DEF Spec, DownStops
=============================================================================
