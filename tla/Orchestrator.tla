---------------------------- MODULE Orchestrator ----------------------------
(***************************************************************************)
(* DiskVmCreator.run (src/src/diskvm/runner.py) over the disk images: the *)
(* read-only analysis in _add_virtual_disk, the keep_mounted transfer of   *)
(* its ExitStack to ctx.mount_contexts, writing the VM, the Initial        *)
(* snapshot, the writable pass (mount_disk, then the mount pipeline), the *)
(* InitFinished snapshot and the VM run.                                   *)
(*                                                                         *)
(* Context managers are scopes on one stack: ctx.mount_contexts at the     *)
(* bottom, the inner ExitStack and the with-statements above it.  Leaving *)
(* a block pops scopes down to a mark; an exception pops all of them and  *)
(* aborts the run.  The mount pipeline of a pass (MountPipeline) is one    *)
(* resource tree here, held while its scope is open.                       *)
(***************************************************************************)
EXTENDS Integers, Sequences, FiniteSets, FiniteSetsExt, VmxPaths

CONSTANTS
    Disks,           \* options.all_disk_images, as 1..n
    FdeChoices,      \* the --fde-bypass values the run may be given
    Failures,        \* the external steps that may raise
    ReleaseMayFail,  \* whether an unmount in a teardown may fail
    OutDirs,         \* the --out-dir paths the run may be given
    ImageDirs        \* the directories the disk images may be named in

VARIABLES
    fde,             \* the --fde-bypass value of this run
    out_dir,         \* options.out_dir, as main.py to_path leaves it
    image_dir,       \* the directory part of the image paths given
    vm,              \* the VM as VMware sees it: "off" or "on"
    pc,              \* the point reached in run()
    cur,             \* the disk of the current loop iteration
    stack,           \* open scopes, innermost last
    base,            \* scopes transferred to ctx.mount_contexts
    mark, resume,    \* while closing: pop down to mark, then go to resume
    held,            \* host resources held
    snaps,           \* snapshots of the VM
    keep,            \* keep_mounted of each disk's read-only disk_info
    start_vm,        \* options.start_vm
    diskinfo,        \* mount_disk's disk_info is not None
    exc,             \* an exception is propagating
    unprotected,     \* history: a write through the VMDK without a snapshot
    rw_over_ro,      \* history: writable reopening while the image is mounted
    failed_release   \* history: resources whose release failed

vars == <<fde, out_dir, image_dir, vm, pc, cur, stack, base, mark, resume, held, snaps, keep, start_vm, diskinfo,
          exc, unprotected, rw_over_ro, failed_release>>

\* A scope is <<kind, disk>>.
Scopes == {"image", "pipeline_ro", "vmdisk", "pipeline_rw"} \X Disks

\* tmpfile: the mkstemp mount point; bind: its read-only bind mount;
\* ro_tree/rw_tree: what a pipeline pass holds; vmdir: the mkdtemp of
\* Vmware.mount_disk; vmmount: the vmware-mount of the VMDK.
Resources == {"tmpfile", "bind", "ro_tree", "vmdir", "vmmount", "rw_tree"} \X Disks

\* main.py FDE_BYPASS_OPTIONS: the plugins each --fde-bypass value adds.
FDE_BYPASS_OPTIONS ==
    [none |-> {},
     auto |-> {"BitLockerOverridePassword", "LuksAddPassword", "VeraCryptOverridePassword"},
     bitlocker_otf_mount |-> {"BitLockerOnTheFly"},
     bitlocker_add_clearkey |-> {"BitLockerOverridePassword"},
     luks_add_pw |-> {"LuksAddPassword"},
     luks_otf_mount |-> {"LuksOnTheFly"},
     veracrypt_otf_mount |-> {"VeraCryptOnTheFly"},
     veracrypt_overwrite_pw |-> {"VeraCryptOverridePassword"}]

\* Each of these plugins subclasses the mount plugin of one container kind.
PluginKind(pl) ==
    CASE pl \in {"BitLockerOverridePassword", "BitLockerOnTheFly"} -> "bitlocker"
      [] pl \in {"LuksAddPassword", "LuksOnTheFly"}                -> "luks"
      [] pl \in {"VeraCryptOverridePassword", "VeraCryptOnTheFly"} -> "veracrypt"

\* Container kinds the read-only pass of this run can unlock.
Unlockable == {PluginKind(pl) : pl \in FDE_BYPASS_OPTIONS[fde]}

\* The before_create_disk of the on-the-fly plugins, given the kinds of
\* the plaintext volumes the read-only pass unlocked: each overlays its
\* own kind's plaintext and then sets keep_mounted.
LuksOnTheFlyDecrypt(u) == "luks" \in u
BitLockerOnTheFlyDecrypt(u) == "bitlocker" \in u
VeraCryptOnTheFlyDecrypt(u) == "veracrypt" \in u

\* dispatch_all('before_create_disk'): keep_mounted after every plugin ran
\* (PluginSpec.before_create_disk of the others does nothing).
KeepMounted(u) ==
    \/ "LuksOnTheFly" \in FDE_BYPASS_OPTIONS[fde] /\ LuksOnTheFlyDecrypt(u)
    \/ "BitLockerOnTheFly" \in FDE_BYPASS_OPTIONS[fde] /\ BitLockerOnTheFlyDecrypt(u)
    \/ "VeraCryptOnTheFly" \in FDE_BYPASS_OPTIONS[fde] /\ VeraCryptOnTheFlyDecrypt(u)

\* Resource r of the current disk.
Cur(r) == <<r, cur>>

\* The path of disk image d, as given on the command line.
ImagePath(d) == Append(image_dir, "img" \o ToString(d) \o ".raw")

\* vm.vmx of the handle vm_builder.write returns.
Vmx == VmxPath(out_dir)

\* The fileName entry of disk d in the .vmx: the VMDK as written, and the
\* delta disk once the Initial snapshot is taken.
DiskEntry(d) == IF "Initial" \in snaps THEN <<DeltaFile(d)>> ELSE VmxFileName(out_dir, d)

\* The disk files that exist (absolute): the VMDKs and the snapshot deltas.
Deltas == IF "Initial" \in snaps THEN {Append(ParentDir(Absolute(Vmx)), DeltaFile(d)) : d \in Disks}
                              ELSE {}
DiskFiles == {Absolute(VmdkPath(out_dir, d)) : d \in Disks} \cup Deltas

\* Whether step raises, and which of several steps raises ("ok": none).
Fails(step) == IF step \in Failures THEN BOOLEAN ELSE {FALSE}
Outcomes(steps) == {"ok"} \cup (steps \cap Failures)
MayFail == IF ReleaseMayFail THEN BOOLEAN ELSE {FALSE}

\* A vmrun command on the VM fails when VMware cannot open one of its disks.
VmrunFails(step) ==
    IF \A d \in Disks : VmwareOpens(Vmx, DiskEntry(d)) \in DiskFiles
    THEN Fails(step) ELSE {TRUE}

\* The exception propagates through every open scope and aborts the run.
Raise ==
    /\ exc' = TRUE
    /\ mark' = 0
    /\ resume' = "done"
    /\ pc' = "closing"

Goto(l) == pc' = l /\ UNCHANGED <<exc, mark, resume>>

Init ==
    /\ fde \in FdeChoices
    /\ out_dir \in OutDirs
    /\ image_dir \in ImageDirs
    /\ vm = "off"
    /\ pc = "validate"
    /\ cur = 1
    /\ stack = <<>>
    /\ base = 0
    /\ mark = 0
    /\ resume = "done"
    /\ held = {}
    /\ snaps = {}
    /\ keep = [d \in Disks |-> FALSE]
    /\ start_vm \in BOOLEAN
    /\ diskinfo = FALSE
    /\ exc = FALSE
    /\ unprotected = FALSE
    /\ rw_over_ro = FALSE
    /\ failed_release = {}

-----------------------------------------------------------------------------
(* Forward steps *)

\* _validate_options: check_available, the image exists, mkdir out_dir.
Validate ==
    /\ pc = "validate"
    /\ \E fail \in Fails("validate") : IF fail THEN pc' = "done" /\ exc' = TRUE
                                   ELSE pc' = "image" /\ UNCHANGED exc
    /\ UNCHANGED <<fde, out_dir, image_dir, vm, cur, stack, base, mark, resume, held, snaps, keep, start_vm,
                   diskinfo, unprotected, rw_over_ro, failed_release>>

\* mount_disk_image entered: mkstemp, mount --bind, DiskInfo and the
\* mounted_disk hooks; either of the last two may raise.
MountImage ==
    /\ pc = "image"
    /\ stack' = Append(stack, Cur("image"))
    /\ \E outcome \in Outcomes({"bind", "image_info"}) :
          /\ held' = held \cup {Cur("tmpfile")}
                          \cup (IF outcome = "bind" THEN {} ELSE {Cur("bind")})
          /\ IF outcome = "ok" THEN Goto("builder") ELSE Raise
    /\ UNCHANGED <<fde, out_dir, image_dir, vm, cur, base, snaps, keep, start_vm, diskinfo, unprotected, rw_over_ro,
                   failed_release>>

\* new_disk and add_part of the whole image (InvalidDiskPart if its size is
\* not sector aligned), and the mounted_disk hooks again.
NewDisk ==
    /\ pc = "builder"
    /\ \E fail \in Fails("builder") : IF fail THEN Raise ELSE Goto("pipeline_ro")
    /\ UNCHANGED <<fde, out_dir, image_dir, vm, cur, stack, base, held, snaps, keep, start_vm, diskinfo, unprotected,
                   rw_over_ro, failed_release>>

\* mount_partitions_and_filesystems entered read-only; a losetup or mount
\* error escapes _mount_partitions.
PipelineRO ==
    /\ pc = "pipeline_ro"
    /\ stack' = Append(stack, Cur("pipeline_ro"))
    /\ held' = held \cup {Cur("ro_tree")}
    /\ \E fail \in Fails("pipeline_ro") : IF fail THEN Raise ELSE Goto("before_create_disk")
    /\ UNCHANGED <<fde, out_dir, image_dir, vm, cur, base, snaps, keep, start_vm, diskinfo, unprotected, rw_over_ro,
                   failed_release>>

\* before_create_disk over the volumes the read-only pass unlocked (the
\* kinds u of its plaintext volumes).
BeforeCreateDisk ==
    /\ pc = "before_create_disk"
    /\ \E u \in SUBSET Unlockable, fail \in Fails("before_create_disk") :
          /\ keep' = [keep EXCEPT ![cur] = KeepMounted(u)]
          /\ IF fail THEN Raise ELSE Goto("add_disk_end")
    /\ UNCHANGED <<fde, out_dir, image_dir, vm, cur, stack, base, held, snaps, start_vm, diskinfo, unprotected,
                   rw_over_ro, failed_release>>

\* Fault variant: the inner scopes are popped (pop_all) whether or not
\* keep_mounted is set, and only handed on when it is.
AddDiskEnd_popalways ==
    /\ pc = "add_disk_end"
    /\ IF keep[cur] THEN base' = Len(stack) /\ UNCHANGED stack
                    ELSE stack' = SubSeq(stack, 1, base) /\ UNCHANGED base
    /\ Goto("add_next")
    /\ UNCHANGED <<fde, out_dir, image_dir, vm, cur, held, snaps, keep, start_vm, diskinfo, unprotected,
                   rw_over_ro, failed_release>>

\* add_disk and the end of the with-block of _add_virtual_disk:
\* keep_mounted moves the inner scopes to ctx.mount_contexts (pop_all),
\* otherwise the ExitStack closes them.
AddDiskEnd ==
    /\ pc = "add_disk_end"
    /\ IF keep[cur]
       THEN /\ base' = Len(stack)
            /\ Goto("add_next")
       ELSE /\ pc' = "closing"
            /\ mark' = base
            /\ resume' = "add_next"
            /\ UNCHANGED <<cur, base, exc>>
    /\ UNCHANGED <<fde, out_dir, image_dir, vm, cur, stack, held, snaps, keep, start_vm, diskinfo, unprotected,
                   rw_over_ro, failed_release>>

\* The loop of _create_vm over options.all_disk_images.
AddNext ==
    /\ pc = "add_next"
    /\ IF cur < Max(Disks) THEN cur' = cur + 1 /\ Goto("image")
                           ELSE cur' = Min(Disks) /\ Goto("write_vm")
    /\ UNCHANGED <<fde, out_dir, image_dir, vm, stack, base, held, snaps, keep, start_vm, diskinfo, unprotected,
                   rw_over_ro, failed_release>>

\* before_create_vm and vm_builder.write, which writes each disk's VMDK
\* (a FLAT line for its image) and then the .vmx.
WriteVm ==
    /\ pc = "write_vm"
    /\ \E fail \in Fails("write_vm") :
          IF fail \/ \E d \in Disks : FlatLineRaises(ImagePath(d), out_dir)
          THEN Raise ELSE Goto("snapshot_initial")
    /\ UNCHANGED <<fde, out_dir, image_dir, vm, cur, stack, base, held, snaps, keep, start_vm, diskinfo, unprotected,
                   rw_over_ro, failed_release>>

\* Fault variant: a failed snapshot is logged and the run goes on.
SnapshotInitial_swallow ==
    /\ pc = "snapshot_initial"
    /\ \E fail \in VmrunFails("snapshot_initial") : snaps' = IF fail THEN snaps ELSE snaps \cup {"Initial"}
    /\ Goto("rw_mount")
    /\ UNCHANGED <<fde, out_dir, image_dir, vm, cur, stack, base, held, keep, start_vm, diskinfo, unprotected,
                   rw_over_ro, failed_release>>

\* ctx.vm.snapshot('Initial'): vmrun snapshot.
SnapshotInitial ==
    /\ pc = "snapshot_initial"
    /\ \E fail \in VmrunFails("snapshot_initial") :
          IF fail THEN Raise /\ UNCHANGED snaps
                  ELSE snaps' = snaps \cup {"Initial"} /\ Goto("rw_mount")
    /\ UNCHANGED <<fde, out_dir, image_dir, vm, cur, stack, base, held, keep, start_vm, diskinfo, unprotected,
                   rw_over_ro, failed_release>>

\* The disk the writable pass opens: entry cur of ctx.vm.disks.
RwDisk == ResolveDisk(Vmx, DiskEntry(cur))

\* A write through a disk other than a snapshot delta reaches the image
\* through the FLAT extents.
Writes == unprotected' = (unprotected \/ Absolute(RwDisk) \notin Deltas)

\* mount_disk(readonly=False) entered: mkdtemp and vmware-mount, DiskInfo,
\* then mounted_disk, modify_disk and refresh_disk_info.
RwMount ==
    /\ pc = "rw_mount"
    /\ stack' = Append(stack, Cur("vmdisk"))
    /\ rw_over_ro' = (rw_over_ro \/ held \cap ({"bind", "ro_tree"} \X Disks) # {})
    /\ \E outcome \in IF Absolute(RwDisk) \in DiskFiles
                      THEN Outcomes({"vmware_mount", "disk_info", "hooks"})
                      ELSE {"vmware_mount"} :
          /\ held' = held \cup {Cur("vmdir")}
                          \cup (IF outcome = "vmware_mount" THEN {} ELSE {Cur("vmmount")})
          /\ diskinfo' = (outcome \in {"ok", "hooks"})
          /\ IF outcome \in {"ok", "hooks"} THEN Writes ELSE UNCHANGED unprotected
          /\ IF outcome = "ok" THEN Goto("rw_pipeline") ELSE Raise
    /\ UNCHANGED <<fde, out_dir, image_dir, vm, cur, base, snaps, keep, start_vm, failed_release>>

\* mount_partitions_and_filesystems over the writable disk: the modify_*
\* hooks write.
RwPipeline ==
    /\ pc = "rw_pipeline"
    /\ stack' = Append(stack, Cur("pipeline_rw"))
    /\ held' = held \cup {Cur("rw_tree")}
    /\ Writes
    /\ \E fail \in Fails("rw_pipeline") : IF fail THEN Raise ELSE Goto("rw_exit")
    /\ UNCHANGED <<fde, out_dir, image_dir, vm, cur, base, snaps, keep, start_vm, diskinfo, rw_over_ro, failed_release>>

\* The end of the two with-statements of the writable pass.
RwExit ==
    /\ pc = "rw_exit"
    /\ pc' = "closing"
    /\ mark' = base
    /\ resume' = "rw_next"
    /\ UNCHANGED <<fde, out_dir, image_dir, vm, cur, stack, base, held, snaps, keep, start_vm, diskinfo, exc,
                   unprotected, rw_over_ro, failed_release>>

\* The loop of run() over ctx.vm.disks.
RwNext ==
    /\ pc = "rw_next"
    /\ IF cur < Max(Disks) THEN cur' = cur + 1 /\ Goto("rw_mount")
                           ELSE Goto("snapshot_finished") /\ UNCHANGED cur
    /\ UNCHANGED <<fde, out_dir, image_dir, vm, stack, base, held, snaps, keep, start_vm, diskinfo, unprotected,
                   rw_over_ro, failed_release>>

\* ctx.vm.snapshot('InitFinished').
SnapshotFinished ==
    /\ pc = "snapshot_finished"
    /\ \E fail \in VmrunFails("snapshot_finished") :
          IF fail THEN Raise /\ UNCHANGED snaps
          ELSE /\ snaps' = snaps \cup {"InitFinished"}
               /\ Goto(IF start_vm THEN "start" ELSE "exit")
    /\ UNCHANGED <<fde, out_dir, image_dir, vm, cur, stack, base, held, keep, start_vm, diskinfo, unprotected,
                   rw_over_ro, failed_release>>

\* ctx.vm.start(): vmrun start of the absolute .vmx path, which returns
\* once the VM is powered on.
StartVm ==
    /\ pc = "start"
    /\ \E fail \in VmrunFails("start") :
          IF fail THEN Raise /\ UNCHANGED vm
                  ELSE vm' = "on" /\ Goto("running")
    /\ UNCHANGED <<fde, out_dir, image_dir, cur, stack, base, held, snaps, keep, start_vm, diskinfo,
                   unprotected, rw_over_ro, failed_release>>

\* Vmware.is_running: vm.vmx among the paths vmrun list prints.
IsRunning == Vmx \in VmrunList(Vmx, vm = "on")

\* Fault variant: the loop body runs once before the condition is tested.
Running_once ==
    /\ pc = "running"
    /\ \E fail \in Fails("running") : IF fail THEN Raise ELSE Goto("exit")
    /\ UNCHANGED <<fde, out_dir, image_dir, vm, cur, stack, base, held, snaps, keep, start_vm, diskinfo,
                   unprotected, rw_over_ro, failed_release>>

\* while ctx.vm.is_running(): time.sleep(5).  vmrun list may fail, and its
\* DiskVmError leaves run() through the with-statement.
Running ==
    /\ pc = "running"
    /\ \E fail \in Fails("running") :
          CASE fail       -> Raise
            [] IsRunning  -> UNCHANGED <<pc, exc, mark, resume>>
            [] OTHER      -> Goto("exit")
    /\ UNCHANGED <<fde, out_dir, image_dir, vm, cur, stack, base, held, snaps, keep, start_vm, diskinfo,
                   unprotected, rw_over_ro, failed_release>>

\* The user shuts the guest down (environment step).  Restarting it from
\* the VMware GUI is not modelled.
PowerOff ==
    /\ vm = "on"
    /\ vm' = "off"
    /\ UNCHANGED <<fde, out_dir, image_dir, pc, cur, stack, base, mark, resume, held, snaps, keep,
                   start_vm, diskinfo, exc, unprotected, rw_over_ro, failed_release>>

\* Leaving `with ctx.mount_contexts`.
Exit ==
    /\ pc = "exit"
    /\ pc' = "closing"
    /\ mark' = 0
    /\ resume' = "done"
    /\ UNCHANGED <<fde, out_dir, image_dir, vm, cur, stack, base, held, snaps, keep, start_vm, diskinfo, exc,
                   unprotected, rw_over_ro, failed_release>>

-----------------------------------------------------------------------------
(* Closing scopes, innermost first *)

\* What leaving scope sc = <<kind, d>> does when the tool it runs fails
\* or not: <<resources released, releases that failed, raises>>.
Release(sc, fail) ==
    LET R(r) == <<r, sc[2]>>
    IN
    CASE sc[1] = "image" ->
            \* finally of mount_disk_image: umount (errors swallowed), then
            \* unlink the mount point, which raises while it is still a mount
            \* (busy while the loop devices of the tree use the image).
            LET umounted == R("bind") \notin held
                            \/ (~fail /\ R("ro_tree") \notin held)
            IN  IF umounted THEN <<{R("bind"), R("tmpfile")}, {}, FALSE>>
                            ELSE <<{}, {R("bind"), R("tmpfile")}, TRUE>>
      [] sc[1] \in {"pipeline_ro", "pipeline_rw"} ->
            \* unmount_partitions_and_filesystems logs and swallows errors.
            LET tree == R(IF sc[1] = "pipeline_ro" THEN "ro_tree" ELSE "rw_tree")
            IN  IF fail THEN <<{}, {tree}, FALSE>> ELSE <<{tree}, {}, FALSE>>
      [] sc[1] = "vmdisk" ->
            \* finally of mount_disk: only when disk_info was set and the
            \* flat file exists; vmware-mount -K, then rmdir.
            IF ~diskinfo \/ R("vmmount") \notin held THEN <<{}, {}, FALSE>>
            ELSE IF fail \/ R("rw_tree") \in held THEN <<{}, {R("vmmount")}, TRUE>>
            ELSE <<{R("vmmount"), R("vmdir")}, {}, FALSE>>

\* Fault variant: an exit callback that raises stays on the stack and is
\* called again.
CloseScope_keeptop ==
    /\ pc = "closing"
    /\ Len(stack) > mark
    /\ \E fail \in MayFail :
         LET top == stack[Len(stack)]
             r == Release(top, fail)
         IN  /\ held' = held \ r[1]
             /\ failed_release' = failed_release \cup r[2]
             /\ stack' = IF r[3] THEN stack ELSE SubSeq(stack, 1, Len(stack) - 1)
             /\ base' = IF base > Len(stack') THEN Len(stack') ELSE base
             /\ diskinfo' = (diskinfo /\ (r[3] \/ top[1] # "vmdisk"))
             /\ IF r[3] THEN Raise ELSE UNCHANGED <<pc, exc, mark, resume>>
    /\ UNCHANGED <<fde, out_dir, image_dir, vm, cur, snaps, keep, start_vm, unprotected, rw_over_ro>>

\* One exit callback of the stack, innermost first.
CloseScope ==
    /\ pc = "closing"
    /\ Len(stack) > mark
    /\ \E fail \in MayFail :
         LET top == stack[Len(stack)]
             r == Release(top, fail)
         IN  /\ held' = held \ r[1]
             /\ failed_release' = failed_release \cup r[2]
             /\ stack' = SubSeq(stack, 1, Len(stack) - 1)
             /\ base' = IF base > Len(stack) - 1 THEN Len(stack) - 1 ELSE base
             /\ diskinfo' = (diskinfo /\ top[1] # "vmdisk")
             /\ IF r[3] THEN Raise ELSE UNCHANGED <<pc, exc, mark, resume>>
    /\ UNCHANGED <<fde, out_dir, image_dir, vm, cur, snaps, keep, start_vm, unprotected, rw_over_ro>>

ScopesClosed ==
    /\ pc = "closing"
    /\ Len(stack) = mark
    /\ pc' = resume
    /\ UNCHANGED <<fde, out_dir, image_dir, vm, cur, stack, base, mark, resume, held, snaps, keep, start_vm,
                   diskinfo, exc, unprotected, rw_over_ro, failed_release>>

\* The steps of run(), which is single-threaded.
Program ==
    \/ Validate \/ MountImage \/ NewDisk \/ PipelineRO \/ BeforeCreateDisk
    \/ AddDiskEnd \/ AddNext \/ WriteVm \/ SnapshotInitial \/ RwMount \/ RwPipeline
    \/ RwExit \/ RwNext \/ SnapshotFinished \/ StartVm \/ Running \/ Exit
    \/ CloseScope \/ ScopesClosed

Next == Program \/ PowerOff

\* run() is one thread that always takes its next step; whether and when
\* the user powers the VM off is up to the user.
Spec == Init /\ [][Next]_vars /\ WF_vars(Program)

-----------------------------------------------------------------------------
(* Properties *)

(* The on-the-fly overlay of a keep_mounted disk points the VMDK at the  *)
(* plaintext device of its read-only tree, so spec 4.5 releases those     *)
(* mounts only after the VM has finished running: while VMware has the VM *)
(* powered on, and run() has not raised, each such disk's image bind      *)
(* mount and read-only tree are held.  The VM is a second actor here: it  *)
(* runs from vmrun start until the user powers it off, and run() learns   *)
(* that only through Vmware.is_running.                                   *)
KeptWhileVmRuns ==
    vm = "on" /\ ~exc =>
        \A d \in Disks : keep[d] => {<<"bind", d>>, <<"ro_tree", d>>} \subseteq held

(* run() returns, by an exception or not, provided a VM that is powered   *)
(* on is eventually powered off: no teardown step or polling loop of      *)
(* run() goes on for ever.                                                *)
Termination ==
    [](vm = "on" => <>(vm = "off")) => <>(pc = "done")

(* Spec invariant 4: the VMDK's FLAT extents point into the original      *)
(* image, so no write goes through the VMDK unless the Initial snapshot   *)
(* redirects writes, whatever step fails.                                 *)
SnapshotBeforeWrite == ~unprotected

(* Spec 5(c): the original image is unmounted before any writable         *)
(* reopening.                                                             *)
ImageUnmountedBeforeRW == ~rw_over_ro

(* Spec invariant 1: when run() returns, normally or by an exception,     *)
(* every mount point, bind mount, loop/mapper tree and vmware-mount it    *)
(* created is released, except what a release that failed left behind    *)
(* (a mount point stays while its mount does).                            *)
LeakOnlyAfterFailedRelease ==
    pc = "done" =>
        held \subseteq failed_release \cup {<<"vmdir", x[2]>> : x \in failed_release}
=============================================================================
