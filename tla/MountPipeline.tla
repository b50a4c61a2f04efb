--------------------------- MODULE MountPipeline ---------------------------
(***************************************************************************)
(* The volume/filesystem mount pipeline of DiskVmCreator                  *)
(* (src/src/diskvm/runner.py): _mount_partitions, the growing-list walk   *)
(* of _mount_filesystems, and unmount_partitions_and_filesystems, with    *)
(* the plugins' mount/unmount hooks dispatched in plugin order            *)
(* (plugins/base.py: user plugins, then GenericMountPlugin, then          *)
(* LvmMountPlugin).                                                       *)
(*                                                                         *)
(* The disk is a tree of content nodes: a partition holds a filesystem,   *)
(* an encrypted container whose plaintext is another node, or an LVM      *)
(* physical volume of a volume group whose logical volumes are nodes.     *)
(* The host's mount table, loop devices, mappers and active volume groups *)
(* are the set held of resources the pipeline has acquired.               *)
(***************************************************************************)
EXTENDS Integers, Sequences, FiniteSets, SequencesExt

CONSTANTS
    Nodes,           \* content nodes of the disk
    Kind,            \* [Nodes -> ContentKinds]
    Inner,           \* plaintext node of an encrypted node
    PvVg,            \* volume group of a "pv" node
    LVs,             \* [VGs -> Seq(Nodes)]: lvdisplay order of each group
    VGs,
    Partitions,      \* Seq(Nodes): the partition table, in table order
    FdeOptions,      \* plugin lists the --fde-bypass choices register
    ReleaseMayFail,  \* nodes whose unmount tools may fail on their own
    MountMayFail,    \* nodes at whose mount the LVM plugin's tools may fail
    None

ContentKinds == {"fs", "esp", "vcesp", "raw", "luks", "bitlocker", "vcsys", "pv"}
FsKinds == {"fs", "esp", "vcesp"}
Tags == {"luks_enabled", "luks_mounted", "bitlocker_enabled", "bitlocker_mounted",
         "veracrypt_enabled", "veracrypt_mounted", "lvm_active"}

VARIABLES
    phase,       \* "partitions", "walk", "teardown", "done"
    plugins,     \* the user plugins registered, in order
    keys,        \* encrypted nodes a supplied master key unlocks
    volumes,     \* disk_info.volumes
    disk_vc,     \* disk_info.additional_info veracrypt system_encryption_enabled
    pidx,        \* loop index of _mount_partitions
    idx,         \* loop index of _mount_filesystems
    td,          \* position in the teardown schedule
    sched,       \* the teardown schedule, computed when the teardown starts
    raised,      \* a mount hook raised and the walk was left
    held,        \* host resources acquired and not released
    attempted,   \* history: resources whose release was attempted
    toolfailed,  \* history: resources whose unmount tool failed on its own
    fs_mounted,  \* history: nodes whose filesystem was mounted
    unrecorded   \* history: groups activated with no volume recording them

vars == <<phase, plugins, keys, volumes, disk_vc, pidx, idx, td, sched, raised,
          held, attempted, toolfailed, fs_mounted, unrecorded>>

Volume == [node : Nodes, parent : Nat, vg : VGs \cup {None}, flat : {"dev", None},
           fs : {"path", None}, ann : SUBSET Tags]

\* The resource a volume's flat_mount names: a loop or mapper device or
\* FUSE file of its own, or, for a logical volume, its group's activation.
FlatRes(i) ==
    IF volumes[i].vg # None THEN <<"vg", volumes[i].vg>> ELSE <<"dev", i>>
FsRes(i) == <<"fs", i>>

-----------------------------------------------------------------------------
(* Plugin hooks *)

\* mounted_volume of the registered plugins: LuksMountPlugin (is_luks) and
\* BitLockerMountPlugin (-FVE-FS- signature) tag the volume.
MountedVolumeAnn(n) ==
    {t \in {"luks_enabled", "bitlocker_enabled"} :
        \/ t = "luks_enabled" /\ "luks" \in Range(plugins) /\ Kind[n] = "luks"
        \/ t = "bitlocker_enabled" /\ "bitlocker" \in Range(plugins)
                                   /\ Kind[n] = "bitlocker"}

NewVolume(n, parent, vg, tags) ==
    [node |-> n, parent |-> parent, vg |-> vg, flat |-> "dev", fs |-> None,
     ann |-> tags \cup MountedVolumeAnn(n)]

\* The logical volumes of group vg, in lvdisplay order, as children of i.
LvmVolumes(i, vg) ==
    [k \in DOMAIN LVs[vg] |-> NewVolume(LVs[vg][k], i, vg, {"lvm_active"})]

NoResult == [res |-> "none", vols |-> <<>>, acquire |-> {}, ann |-> {},
             raise |-> FALSE, bare |-> {}]

\* The plaintext volume an unlocking plugin returns for volume i.
Unlocked(i, tag) ==
    [NoResult EXCEPT !.res = "vols",
                     !.vols = <<NewVolume(Inner[volumes[i].node], i, None, {tag})>>,
                     !.acquire = {<<"dev", Len(volumes) + 1>>}]

\* LuksMountPlugin.mount: a LUKS volume and a master key that opens it.
\* find_master_key closes the trial mapping it opened.
LuksMount(i) ==
    IF "luks_enabled" \in volumes[i].ann /\ volumes[i].node \in keys
    THEN Unlocked(i, "luks_mounted") ELSE NoResult

\* BitLockerMountPlugin.mount: the clear key or a supplied FVEK; failed
\* trials unmount their FUSE mount.
BitLockerMount(i) ==
    IF "bitlocker_enabled" \in volumes[i].ann /\ volumes[i].node \in keys
    THEN Unlocked(i, "bitlocker_mounted") ELSE NoResult

\* VeraCryptMountPlugin.mount: only once the disk is flagged as system
\* encrypted, and only with a master key that decrypts the header.
VeraCryptMount(i) ==
    IF disk_vc /\ Kind[volumes[i].node] = "vcsys" /\ volumes[i].node \in keys
    THEN [Unlocked(i, "veracrypt_mounted") EXCEPT !.ann = {"veracrypt_enabled"}]
    ELSE NoResult

\* GenericMountPlugin.mount: mount --types auto into a fresh directory,
\* removed again when mount fails.
GenericMount(i) ==
    IF Kind[volumes[i].node] \in FsKinds
    THEN [NoResult EXCEPT !.res = "path", !.acquire = {FsRes(i)}]
    ELSE NoResult

\* How the LVM tools of one mount call end: "pvdisplay" raises (on any
\* volume), "vgchange" raises with nothing activated, "activated" is a
\* vgchange -ay that activated part of the group before failing or an
\* lvdisplay that raises after it.  run_process raises DiskVmError, which
\* neither the plugin nor dispatch_until_result catches.
LvmOutcomes(i) ==
    IF volumes[i].node \in MountMayFail
    THEN {"ok", "pvdisplay", "vgchange", "activated"} ELSE {"ok"}

\* LvmMountPlugin.mount: a physical volume activates its group and returns
\* the group's logical volumes.  An empty list is falsy to
\* dispatch_until_result, but the group stays activated; so does a group
\* activated before a tool raised.  bare is the group activated with no
\* volume of the result recording it.
LvmMount(i, f) ==
    LET n == volumes[i].node
        g == PvVg[n]
        Active(res, vols, bare, raise) ==
            [NoResult EXCEPT !.res = res, !.vols = vols, !.acquire = {<<"vg", g>>},
                             !.bare = bare, !.raise = raise]
    IN  CASE f = "pvdisplay"                    -> [NoResult EXCEPT !.raise = TRUE]
          [] Kind[n] # "pv"                     -> NoResult
          [] f = "vgchange"                     -> [NoResult EXCEPT !.raise = TRUE]
          [] f = "activated"                    -> Active("none", <<>>, {g}, TRUE)
          [] LVs[g] = <<>>                      -> Active("none", <<>>, {g}, FALSE)
          [] OTHER                              -> Active("vols", LvmVolumes(i, g), {}, FALSE)

\* The mount hook of plugin pl on volume i.
MountBy(pl, i, f) ==
    CASE pl = "luks"      -> LuksMount(i)
      [] pl = "bitlocker" -> BitLockerMount(i)
      [] pl = "veracrypt" -> VeraCryptMount(i)
      [] pl = "generic"   -> GenericMount(i)
      [] pl = "lvm"       -> LvmMount(i, f)

AllPlugins == plugins \o <<"generic", "lvm">>

\* Fault variant: the first plugin's result is returned, null or not.
Dispatch_first(i, f) ==
    MountBy(AllPlugins[1], i, f)

\* dispatch_until_result("mount"): the first non-null result, with the
\* side effects of every plugin tried up to it.  Only the last plugin
\* (LVM) raises, so a raise is the last result.
Dispatch(i, f) ==
    LET rs == [k \in DOMAIN AllPlugins |-> MountBy(AllPlugins[k], i, f)]
        won == {k \in DOMAIN rs : rs[k].res # "none"}
        last == IF won = {} THEN Len(rs) ELSE Min(won)
    IN  [rs[last] EXCEPT !.acquire = UNION {rs[k].acquire : k \in 1..last}]

-----------------------------------------------------------------------------
(* The order of unmount_partitions_and_filesystems *)

RECURSIVE Depth(_, _)
Depth(vs, i) == IF vs[i].parent = 0 THEN 0 ELSE 1 + Depth(vs, vs[i].parent)

\* Fault variant: groups sorted by increasing depth (parents first).
Schedule_parentsfirst(vs) ==
    LET Group(d) == SelectSeq([i \in DOMAIN vs |-> i], LAMBDA i : Depth(vs, i) = d)
        Pass(d, f) == [j \in DOMAIN Group(d) |-> <<Group(d)[j], f>>]
        maxd == Max({Depth(vs, i) : i \in DOMAIN vs} \cup {0})
    IN  FlattenSeq([k \in 1..(maxd + 1) |->
                      Pass(k - 1, "fs") \o Pass(k - 1, "flat")])

\* Fault variant: only the volume pass runs; filesystems are left mounted.
Schedule_nofs(vs) ==
    LET Group(d) == SelectSeq([i \in DOMAIN vs |-> i], LAMBDA i : Depth(vs, i) = d)
        Pass(d, f) == [j \in DOMAIN Group(d) |-> <<Group(d)[j], f>>]
        maxd == Max({Depth(vs, i) : i \in DOMAIN vs} \cup {0})
    IN  FlattenSeq([k \in 1..(maxd + 1) |-> Pass(maxd + 1 - k, "flat")])

\* groupby(volumes, key=depth, reverse=True): deepest group first, each
\* group in list order; its filesystems, then its volumes.
Schedule(vs) ==
    LET Group(d) == SelectSeq([i \in DOMAIN vs |-> i], LAMBDA i : Depth(vs, i) = d)
        Pass(d, f) == [j \in DOMAIN Group(d) |-> <<Group(d)[j], f>>]
        maxd == Max({Depth(vs, i) : i \in DOMAIN vs} \cup {0})
    IN  FlattenSeq([k \in 1..(maxd + 1) |->
                      Pass(maxd + 1 - k, "fs") \o Pass(maxd + 1 - k, "flat")])

-----------------------------------------------------------------------------

Init ==
    /\ phase = "partitions"
    /\ plugins \in FdeOptions
    /\ keys \in SUBSET {n \in Nodes : Kind[n] \in {"luks", "bitlocker", "vcsys"}}
    /\ volumes = <<>>
    /\ disk_vc = FALSE
    /\ pidx = 1
    /\ idx = 1
    /\ td = 1
    /\ sched = <<>>
    /\ raised = FALSE
    /\ held = {}
    /\ attempted = {}
    /\ toolfailed = {}
    /\ fs_mounted = {}
    /\ unrecorded = {}

\* _add_partition_info: losetup over the partition, append, mounted_volume.
AddPartition ==
    /\ phase = "partitions"
    /\ pidx <= Len(Partitions)
    /\ volumes' = Append(volumes, NewVolume(Partitions[pidx], 0, None, {}))
    /\ held' = held \cup {<<"dev", Len(volumes) + 1>>}
    /\ pidx' = pidx + 1
    /\ UNCHANGED <<phase, plugins, keys, disk_vc, idx, td, sched, raised, attempted,
                   toolfailed, fs_mounted, unrecorded>>

PartitionsDone ==
    /\ phase = "partitions"
    /\ pidx > Len(Partitions)
    /\ phase' = "walk"
    /\ UNCHANGED <<plugins, keys, volumes, disk_vc, pidx, idx, td, held,
                   attempted, toolfailed, fs_mounted, sched, raised, unrecorded>>

\* Fault variant: any non-null result is stored as the filesystem mount.
MountedPath_any(r) == IF r.res = "none" THEN None ELSE r.res

\* filesystem_mount after the mount: the path, if the result is one.
MountedPath(r) == IF r.res = "path" THEN "path" ELSE None

\* Fault variant: idx += 1 sits inside the branches that got a result.
NextIdx_onresult(i, r) == IF r.res = "none" THEN i ELSE i + 1

NextIdx(i, r) == i + 1

\* VeraCryptMountPlugin.mounted_filesystem: an ESP holding EFI/Veracrypt
\* flags the disk as system encrypted.
SystemEncryptionDetected(v) ==
    Kind[v.node] = "vcesp" /\ "veracrypt" \in Range(plugins)

\* One iteration of the while loop of _mount_filesystems whose mount
\* dispatch returns.
MountVolume ==
    /\ phase = "walk"
    /\ idx <= Len(volumes)
    /\ \E f \in LvmOutcomes(idx) :
       LET r == Dispatch(idx, f)
           v == [volumes[idx] EXCEPT !.ann = @ \cup r.ann, !.fs = MountedPath(r)]
       IN  /\ ~r.raise
           /\ IF volumes[idx].flat # None
              THEN /\ volumes' = [volumes EXCEPT ![idx] = v] \o r.vols
                   /\ held' = held \cup r.acquire
                   /\ disk_vc' = (disk_vc \/ (r.res = "path" /\ SystemEncryptionDetected(v)))
                   /\ fs_mounted' = IF r.res = "path" THEN fs_mounted \cup {v.node}
                                                      ELSE fs_mounted
                   /\ unrecorded' = unrecorded \cup r.bare
              ELSE UNCHANGED <<volumes, held, disk_vc, fs_mounted, unrecorded>>
           /\ idx' = NextIdx(idx, r)
    /\ UNCHANGED <<phase, plugins, keys, pidx, td, sched, raised, attempted, toolfailed>>

\* Fault variant: no finally; the exception leaves with nothing unmounted.
MountVolumeRaises_nofinally ==
    /\ phase = "walk"
    /\ idx <= Len(volumes)
    /\ volumes[idx].flat # None
    /\ \E f \in LvmOutcomes(idx) :
       LET r == Dispatch(idx, f)
       IN  /\ r.raise
           /\ held' = held \cup r.acquire
           /\ unrecorded' = unrecorded \cup r.bare
    /\ raised' = TRUE
    /\ phase' = "done"
    /\ UNCHANGED <<plugins, keys, volumes, disk_vc, pidx, idx, td, sched, attempted,
                   toolfailed, fs_mounted>>

\* The mount dispatch of the loop raises: the exception leaves
\* _mount_filesystems, and the finally of mount_partitions_and_filesystems
\* starts the teardown over the volumes recorded so far.
MountVolumeRaises ==
    /\ phase = "walk"
    /\ idx <= Len(volumes)
    /\ volumes[idx].flat # None
    /\ \E f \in LvmOutcomes(idx) :
       LET r == Dispatch(idx, f)
       IN  /\ r.raise
           /\ held' = held \cup r.acquire
           /\ unrecorded' = unrecorded \cup r.bare
    /\ raised' = TRUE
    /\ phase' = "teardown"
    /\ sched' = Schedule(volumes)
    /\ UNCHANGED <<plugins, keys, volumes, disk_vc, pidx, idx, td, attempted,
                   toolfailed, fs_mounted>>

\* The walk ends; unmount_partitions_and_filesystems computes its groupby
\* over the volumes once, before the loops.
WalkDone ==
    /\ phase = "walk"
    /\ idx > Len(volumes)
    /\ phase' = "teardown"
    /\ sched' = Schedule(volumes)
    /\ UNCHANGED <<plugins, keys, volumes, disk_vc, pidx, idx, td, held,
                   attempted, toolfailed, fs_mounted, raised, unrecorded>>

-----------------------------------------------------------------------------
(* unmount_partitions_and_filesystems *)

\* The resources a held resource sits on: a filesystem on its volume, a
\* device on its parent volume, a volume group on its physical volumes.
Below(r) ==
    CASE r[1] = "fs"  -> {FlatRes(r[2])}
      [] r[1] = "dev" -> IF volumes[r[2]].parent = 0 THEN {}
                         ELSE {FlatRes(volumes[r[2]].parent)}
      [] r[1] = "vg"  -> {FlatRes(i) : i \in {j \in DOMAIN volumes :
                            Kind[volumes[j].node] = "pv" /\ PvVg[volumes[j].node] = r[2]}}

Busy(r) == \E r2 \in held : r \in Below(r2)

\* A partition's loop device: losetup --detach of a busy loop device
\* succeeds and defers the detach until its users are gone.
IsLoop(r) == r[1] = "dev" /\ volumes[r[2]].parent = 0

\* One unmount_filesystem or unmount_volume dispatch of the teardown
\* loops, guarded by the field being set and the path still existing.
TeardownStep ==
    /\ phase = "teardown"
    /\ td <= Len(sched)
    /\ LET e == sched[td]
           i == e[1]
           r == IF e[2] = "fs" THEN FsRes(i) ELSE FlatRes(i)
       IN  IF volumes[i][e[2]] # None /\ r \in held
           THEN \E fail \in IF volumes[i].node \in ReleaseMayFail THEN BOOLEAN ELSE {FALSE} :
                  LET ok == ~fail /\ (~Busy(r) \/ IsLoop(r))
                  IN  /\ volumes' = IF ok THEN [volumes EXCEPT ![i][e[2]] = None]
                                          ELSE volumes
                      /\ held' = IF ok /\ ~Busy(r) THEN held \ {r} ELSE held
                      /\ attempted' = attempted \cup {r}
                      /\ toolfailed' = IF fail THEN toolfailed \cup {r} ELSE toolfailed
           ELSE UNCHANGED <<volumes, held, attempted, toolfailed>>
    /\ td' = td + 1
    /\ UNCHANGED <<phase, plugins, keys, disk_vc, pidx, idx, sched, raised, fs_mounted,
                   unrecorded>>

TeardownDone ==
    /\ phase = "teardown"
    /\ td > Len(sched)
    /\ phase' = "done"
    /\ UNCHANGED <<plugins, keys, volumes, disk_vc, pidx, idx, td, held,
                   attempted, toolfailed, fs_mounted, sched, raised, unrecorded>>

Next ==
    \/ AddPartition
    \/ PartitionsDone
    \/ MountVolume
    \/ MountVolumeRaises
    \/ WalkDone
    \/ TeardownStep
    \/ TeardownDone

\* The pipeline is one synchronous thread: whatever step is enabled runs.
Spec == Init /\ [][Next]_vars /\ WF_vars(Next)

-----------------------------------------------------------------------------
(* Properties *)

Resources == ({"dev", "fs"} \X Nat) \cup ({"vg"} \X VGs)

TypeOK ==
    /\ phase \in {"partitions", "walk", "teardown", "done"}
    /\ volumes \in Seq(Volume)
    /\ disk_vc \in BOOLEAN
    /\ sched \in Seq((DOMAIN volumes) \X {"fs", "flat"})
    /\ raised \in BOOLEAN
    /\ unrecorded \subseteq VGs
    /\ held \subseteq Resources
    /\ attempted \subseteq Resources
    /\ toolfailed \subseteq attempted
    /\ fs_mounted \subseteq Nodes

\* A set of resources with everything they sit on.
RECURSIVE Beneath(_)
Beneath(S) ==
    LET T == S \cup UNION {Below(r) : r \in S}
    IN  IF T = S THEN S ELSE Beneath(T)

\* The volume groups activated with no volume of disk_info recording them.
Orphans == {<<"vg", g>> : g \in unrecorded}

(* When no unmount tool fails on its own, the teardown leaves nothing     *)
(* mounted, whether the walk ended or a mount hook raised out of it:      *)
(* children are unmounted before the devices they sit on, so no release   *)
(* is refused as busy.  The one exception is a volume group that an LVM   *)
(* mount activated without returning a volume for it (an empty group, or *)
(* vgchange or lvdisplay raising after activation): it stays active, and  *)
(* with it the devices beneath it.                                        *)
AllReleased == phase = "done" /\ toolfailed = {} => held \subseteq Beneath(Orphans)

(* The nodes a correct walk reaches: partitions, the plaintext of every   *)
(* container a registered plugin and a supplied key unlock (VeraCrypt     *)
(* system encryption needs its ESP marker), and the logical volumes of    *)
(* every physical volume.                                                 *)
Unlocks(n) ==
    /\ n \in keys
    /\ \/ Kind[n] = "luks" /\ "luks" \in Range(plugins)
       \/ Kind[n] = "bitlocker" /\ "bitlocker" \in Range(plugins)
       \/ Kind[n] = "vcsys" /\ "veracrypt" \in Range(plugins)
          /\ \E k \in DOMAIN Partitions : Kind[Partitions[k]] = "vcesp"

RECURSIVE Reach(_)
Reach(n) ==
    {n} \cup (IF Kind[n] \in {"luks", "bitlocker", "vcsys"} /\ Unlocks(n)
              THEN Reach(Inner[n]) ELSE {})
        \cup (IF Kind[n] = "pv" THEN UNION {Reach(lv) : lv \in Range(LVs[PvVg[n]])}
              ELSE {})

(* Once the walk over the growing volume list ends without a mount hook   *)
(* raising, every filesystem the disk's containers make reachable has     *)
(* been mounted.                                                          *)
WalkComplete ==
    phase \in {"teardown", "done"} /\ ~raised =>
        {n \in UNION {Reach(Partitions[k]) : k \in DOMAIN Partitions} :
            Kind[n] \in FsKinds} \subseteq fs_mounted

(* An unmount that fails is logged and the teardown goes on: whatever is *)
(* still held at the end is something whose own release was tried and    *)
(* failed, or is busy because of such a failure, except an activated    *)
(* volume group no volume records, which the teardown never sees.        *)
CleanupAttempted == phase = "done" => held \subseteq attempted \cup Orphans

(* The analysis terminates: the walk and the teardown both finish.        *)
Termination == <>(phase = "done")
=============================================================================
