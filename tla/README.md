# TLA+ models of diskvm

diskvm (`src/src`) turns a disk image into a VMware VM. Its steps:

1. Mount the image read-only.
2. Walk its partitions through a plugin chain that unlocks LUKS, BitLocker and VeraCrypt containers, activates LVM groups and mounts filesystems.
3. Tear all of that down.
4. Build a VMDK whose extents point at the image, with plaintext overlays for on-the-fly decryption.
5. Reopen the VMDK writable, so the plugins can reset passwords.

This directory holds TLA+ models of the parts of that flow that have state and ordering, and the TLC runs that check them.

## Parts of the system and how they interact

| Part | Code | State | Operations |
|------|------|-------|------------|
| Extent builder | `vm/base.py` `VirtualDiskBuilder` | `disk_parts`, the list of extents | `add_part`, which validates, merges in five cases and then sorts |
| VMDK writer | `vm/vmdk.py` `VmdkBuilder.write` | none; it reads `disk_parts` | writes one `RW n ZERO`/`RW n FLAT` line per gap/extent |
| Plugin manager | `plugins/base.py` | the plugin list (user plugins, then Generic, then Lvm) | `dispatch_all`; `dispatch_until_result`, which returns the first truthy result |
| Mount pipeline | `runner.py` | `disk_info.volumes` (a growing list), each volume's `flat_mount`/`filesystem_mount`/`additional_info`, and the host's loop devices, mappers, FUSE mounts, mounts and active volume groups | `_mount_partitions`, `_mount_filesystems` (a walk over the growing list), `unmount_partitions_and_filesystems` (depth groups, deepest first: filesystems, then volumes) |
| Plugins | `plugins/generic.py`, `luks.py`, `bitlocker.py`, `veracrypt.py` | annotations in `additional_info`; the disk-wide VeraCrypt flag | `mounted_volume`, `mount`, `mounted_filesystem`, `unmount_*`, `modify_*`, `before_create_disk` |
| Orchestration | `runner.py` `run`, `_add_virtual_disk`, `mount_disk*` | ExitStacks, `keep_mounted` | read-only analysis, then building the disk, snapshots, the writable pass and starting the VM |
| VMware backend | `vm/vmware.py`, `vm/vmdk.py` | the `.vmx` and `.vmdk` files and their paths; the VM, which VMware runs | `write`, `disks`, `start`, `is_running`, `snapshot`, `mount_disk`, `unmount_disk` |
| Guest plugins | `os_detect.py`, `password_bypass.py` | `ctx.additional_info` (detected guest type, `is_efi`); the guest's `/etc/shadow` and SAM hive | `before_create_disk`, `before_create_vm`, `modify_filesystem` |
| Structure parsing | `data.py`, `structure.py` | partition tables and binary headers | parsing |

How the parts interact:

- The pipeline calls the plugins through the manager.
- After the walk, the on-the-fly plugins' `before_create_disk` calls `add_part` with an overlay at each unlocked container's parent offset.
- The VMDK writer serialises the builder's list.
- The detection plugins read each disk's mounted filesystems after its read-only walk. Their result goes into the `.vmx`. The password plugins rewrite files in the writable walk.
- `run` starts the VM and polls `vmrun list` until the VM is gone; only then does it release what `keep_mounted` kept. The VM is a second actor: the user powers it off.
- The paths of the `.vmx` and `.vmdk` files come from `--out-dir` as the user typed it. The code, VMware and `vmrun list` each resolve them in their own way.

## The hard behaviours

- **A walk over a list that grows while it is walked.** An unlocked container appends its plaintext volume, and a physical volume appends its logical volumes. These must all be visited, and the loop must still end.
- **First-truthy dispatch.** A plugin's side effects happen even when its result is discarded. An empty list counts as "no result".
- **Order dependence between plugins.** VeraCrypt unlocking waits for a disk flag that is set when the ESP's filesystem is mounted.
- **Teardown order and failures.** Children must be released before parents, and filesystems before devices. A failed unmount is logged and the teardown goes on. BitLocker retries its umount. A busy loop device detaches lazily.
- **Key trial by opening.** The plugins find the right key by opening the volume with each candidate and closing it again. `dislocker-fuse` and `cryptsetup open --type=plain` accept a wrong key, so only the NTFS check tells. A trial mapping whose close fails is recorded nowhere. udev may activate a volume group on a fresh LUKS mapper at any time, which makes the mapper busy.
- **Offset arithmetic in the merge of extents.** Five interval cases, split tails with a shifted source offset, and a stable sort.
- **Units in the descriptor.** Sector counts are written in the builder's sector size.
- **A relative path in three readers.** A relative `.vmx` fileName is read against the `.vmx`'s directory. `vm.vmx` is compared with the absolute paths `vmrun list` prints.

## Modules

| Module | Models | Notes |
|--------|--------|-------|
| `ExtentMap` | the abstract virtual disk | a map from target unit to (source, offset) or zero, with last-write-wins `Write` of an aligned extent |
| `DiskBuilder` | `add_part`, `VmdkBuilder.write` | see the mapping below; refines `ExtentMap` through the view the written descriptor describes |
| `MCDiskBuilder` | disk layouts for TLC | a 14-unit image, overlays for three partitions, one misaligned overlay, and the layouts of the two violation runs |
| `MountPipeline` | plugin manager, mount walk, teardown, mount hooks of Generic, LVM, LUKS, BitLocker and VeraCrypt | see the mapping below |
| `MCMountPipeline` | disk layouts for TLC | see "Runs" |
| `KeyTrial` | the key search of the LUKS, BitLocker and VeraCrypt plugins on one volume: `find_master_key`/`find_correct_fvek`, `try_mount_*`, `unmount_*`, `mount`, the password plugins' `modify_volume`, `utils.retry` | see the mapping below |
| `MCKeyTrial` | two candidate keys and the failing tool calls | |
| `VmxPaths` | the paths of `VMwareVirtualMachineBuilder.write`, `VmwareVirtualMachine.disks`, `Vmware.is_running`/`start`/`snapshot` and the FLAT line of `VmdkBuilder.write` | operators only; a path is the sequence of its parts, and an absolute one starts with `"/"` |
| `Orchestrator` | `run`, `_validate_options`, `_create_vm`, `_add_virtual_disk`, `mount_disk`, `mount_disk_image`, the VMware steps, the on-the-fly `before_create_disk`, and the VM as an actor | extends `VmxPaths`; see the mapping below |
| `MCOrchestrator` | the working directory `/w`, the `--out-dir` and image paths of the runs | |
| `GuestPlugins` | `DetectOperatingSystemPlugin`, `DetectEfiPlugin`, `EtcShadowBlankPasswords`, `WindowsRegistryOverridePasswordPlugin`, main.py's choice of them, and the `.vmx` defaults for guest type and firmware | see the mapping below |
| `MCGuestPlugins` | seven disks (GPT and MBR; ESPs; Windows 10 64-bit, hibernated Windows 7 and an unknown Windows product; Linux roots; an unmounted volume; a data volume) | |

### DiskBuilder

The variables are `disk_parts`, the builder's list; `result`, the outcome of the last call; and `calls`, a bound.

An extent is `[src, soff, toff, len]`. Offsets are in model units of 256 bytes. `SectorSize` is the builder's sector size and `VmdkSector` the unit VMware counts extent lines in.

| Definition | Code |
|------------|------|
| `Disjoint`, `Contained`, `TailOverlap`, `HeadOverlap`, `Encloses` | the conditions of the if/elif chain at `base.py:71-92`, in code order |
| `Survivor(p, part)` | what happens to `p` in place: kept, removed, truncated, advanced by `HeadOverlapLen` (line 88 as written), or cut to its head |
| `SplitTail` | the copy `p2` appended at line 102 |
| `Merged` | the survivors in place, then the tails appended during the loop, then `part` (line 104), then `SortByTarget` (line 105) |
| `SortByTarget` | stable: equal target offsets keep their list order, as Python's sort does |
| `AddPart`, `AddPartRejected` | `add_part` with its two raising guards. The sort is part of the action, not a separate step. |
| `Descriptor` | the extent loop of `vmdk.py:36-54`. A ZERO line is written when `current_sector * sector_size != target_offset`, with the count computed as in the code, even when it is negative. |
| `ViewOf`, `DiskView` | how VMware reads the descriptor: lines laid end to end in `VmdkSector` units. A negative count makes it malformed. |

`Abstract == INSTANCE ExtentMap WITH view <- DiskView` is the refinement mapping. `AbstractSpec` is checked as a temporal property.

### MountPipeline

The disk is a tree of content nodes given as constants:

- `Kind` is one of fs, esp, vcesp (an ESP holding `EFI/Veracrypt`), raw, luks, bitlocker, vcsys (a VeraCrypt system partition) or pv.
- `Inner` is the plaintext node of an encrypted node.
- `PvVg` and `LVs` give the volume groups and their logical volumes, in `lvdisplay` order.
- `Partitions` is the partition table in table order.

| Variable | Code |
|----------|------|
| `plugins` | the user plugins, one of the `FDE_BYPASS_OPTIONS` lists of `main.py` |
| `keys` | which encrypted nodes a supplied key opens (for BitLocker, the clear key too) |
| `volumes` | `disk_info.volumes`: node, parent index, LVM `volume_group` annotation, `flat_mount`, `filesystem_mount` and tags |
| `disk_vc` | `additional_info['veracrypt']['system_encryption_enabled']` |
| `pidx`, `idx`, `td` | the loop positions of `_mount_partitions`, `_mount_filesystems` and the teardown |
| `sched` | the `groupby` list of the teardown, computed once when it starts (`runner.py:144`) |
| `raised` | a mount hook raised out of the walk |
| `held` | the host resources the run has acquired: loop devices, mappers and FUSE files (`dev`), mounts (`fs`), and active groups (`vg`) |
| `attempted`, `toolfailed`, `fs_mounted`, `unrecorded` | history variables; `unrecorded` holds the groups an LVM mount activated without returning a volume for them |

The actions are:

- `AddPartition`: `_add_partition_info`, which runs `losetup`, appends the volume and dispatches `mounted_volume`.
- `PartitionsDone`.
- `MountVolume`: one whole iteration of the `_mount_filesystems` loop. It calls `Dispatch`, records the path or appends the children, dispatches `mounted_filesystem` (`SystemEncryptionDetected`) and increments `idx`.
- `MountVolumeRaises`: the mount dispatch raises (`run_process` in the LVM plugin). The exception leaves `_mount_filesystems`, and the `finally` of `mount_partitions_and_filesystems` starts the teardown over the volumes recorded so far.
- `WalkDone`: the walk ends, and the teardown's schedule is computed.
- `TeardownStep`: one entry of `sched`, with the `exists()` guard and the release.
- `TeardownDone`.

How the plugins are modelled:

- **Hooks.** Each plugin's `mount` is an operator (`LuksMount`, `BitLockerMount`, `VeraCryptMount`, `GenericMount`, `LvmMount`) returning a result record: `none`, `path` or `vols`, the child volumes, the resources acquired and the tags set.
- **Dispatch.** `Dispatch` returns the first non-null result in `AllPlugins` order, together with the union of what every plugin tried up to it acquired. This is how the empty LVM list leaks.
- **Mount failures.** For a node in `MountMayFail`, the LVM plugin's tools may fail (`LvmOutcomes`): `pvdisplay` on any volume, `vgchange -ay` before activating anything, or `vgchange -ay`/`lvdisplay` after the group is (partly) active. None of these is caught, by the plugin or by `dispatch_until_result`. The other plugins' mount failures are caught inside them (generic `mount` removes its directory; the key trials are `KeyTrial`'s).
- **Teardown releases.** A release is refused while something held sits on the resource (`Busy`, which models the kernel's EBUSY). The exception is a partition's loop device, whose `losetup --detach` succeeds and defers the detach.
- **Failures.** The unmount of a node in `ReleaseMayFail` may also fail on its own. This abstracts `umount`/`cryptsetup close`/`vgchange` errors and BitLocker's exhausted retries. The history `toolfailed` records those failures; `AllReleased` is claimed only while it is empty.

### Orchestrator

Every context manager of `run` is a scope on one stack, innermost last. `ctx.mount_contexts` holds the bottom `base` scopes. A scope is `<<kind, disk>>`, where kind is `image` (`mount_disk_image`), `pipeline_ro`, `vmdisk` (`mount_disk`) or `pipeline_rw`. Each mount pipeline pass is a single resource tree here; `MountPipeline` models what happens inside one. `held` is the set of host resources:
- the `mkstemp` file and its bind mount;
- the two trees;
- the `mkdtemp` directory of `Vmware.mount_disk`;
- the `vmware-mount`.

| Definition | Code |
|------------|------|
| `Validate`, `MountImage`, `NewDisk`, `PipelineRO`, `BeforeCreateDisk`, `AddDiskEnd`, `AddNext` | `_validate_options`, then `_add_virtual_disk` line by line, then the loop of `_create_vm` |
| `FDE_BYPASS_OPTIONS`, `Unlockable`, `KeepMounted`, `*OnTheFlyDecrypt` | `main.py:29-38`; `dispatch_all('before_create_disk')`; each on-the-fly plugin sets `keep_mounted` when it overlays an unlocked volume of its kind |
| `AddDiskEnd` | `keep_mounted`: `pop_all` moves the inner scopes into `ctx.mount_contexts` (`base` grows); otherwise the with-block closes them |
| `WriteVm`, `SnapshotInitial`, `RwMount`, `RwPipeline`, `RwExit`, `RwNext`, `SnapshotFinished`, `StartVm`, `Running`, `Exit` | the body of `run` |
| `Vmx`, `DiskEntry`, `DiskFiles`, `RwDisk`, `ImagePath` | `vm.vmx`; the disk's `fileName` in the `.vmx` (the written VMDK, then the snapshot's delta); the files that exist; the disk `ctx.vm.disks` yields to the writable pass; the image path as given |
| `VmrunFails` | a `vmrun` command fails when VMware cannot open a disk the `.vmx` names |
| `IsRunning`, `Running` | `vm.vmx in running_vms`, and the `while` loop around it |
| `PowerOff` | the user shutting the guest down (not code) |
| `Program` | every step of `run`; `Next` adds `PowerOff` |
| `Release` | the `finally` of `mount_disk_image`, the teardown of a pass, and the `finally` of `mount_disk` (only when `disk_info` was set) |
| `CloseScope`, `ScopesClosed` | ExitStack unwinding, innermost first, down to a mark. An exception in an exit callback replaces the one propagating, and the unwinding goes on. |

The constant `Failures` is the set of external steps that may raise. A raise unwinds every scope and ends the run. `ReleaseMayFail` lets any `umount`, `vmware-mount -K` or pipeline teardown fail.

Releases have their own failure modes:
- Unlinking a mount point whose bind mount could not be unmounted raises, and so does `rmdir` under a mounted VMDK.
- The bind mount cannot be unmounted while the read-only tree's loop devices use it.
- The VMDK cannot be unmounted while the writable tree uses it.

The VM is the variable `vm`. `vmrun start` (`StartVm`) powers it on. The environment step `PowerOff` powers it off, at any time. Restarting it from the GUI is not modelled.

`out_dir` and `image_dir` are paths chosen in `Init` from `OutDirs` and `ImageDirs`. Three things happen only for some paths:
- `WriteVm` raises when an image lies under `out_dir` (`FlatLineRaises`).
- A `vmrun` command fails when VMware cannot open a disk the `.vmx` names.
- `IsRunning` is false whenever `vm.vmx` is relative.

Three history variables record what the properties need:
- `unprotected`: a write went through the VMDK before the `Initial` snapshot existed;
- `rw_over_ro`: the VMDK was mounted writable while an image bind or read-only tree was still held;
- `failed_release`: the releases that failed.

### KeyTrial

One encrypted volume, `plugin` chosen in `Init`, runs the hooks the walk dispatches on it:
- in the read-only pass, `mount`;
- in the writable pass, for LUKS and BitLocker, `modify_volume` (`_add_partition_info`, `runner.py:180`) and then `mount`;
- for VeraCrypt, `mount` and then `modify_volume` of the plaintext (`runner.py:233`).

Each hook is a sequence of actions, one per tool call, with `pc` the position in it. `role` says what the running `try_mount_*` is for:
- `trial`: a candidate key in the key loop;
- `final`: the second open with the key found;
- `clear`: BitLocker's `--clearkey` attempt.

`Return(v)` is the caller's continuation. `opens` names every open by its index and records its key. `held` holds the resources: `mapper`, `vg` (a group active on a mapper), `dir` (`mkdtemp`) and `fuse`. `Valid(n)` is `is_ntfs`: the plaintext is NTFS only under the right key, or the clear key when there is a clear key protector.

| Action | Code |
|--------|------|
| `FindMasterKey`, `FindCorrectFvek`, `NextKey` | the cache check, `dislocker-metadata`, the loop over `master_keys` |
| `LuksMount`, `LuksOpen`, `LuksDeactivate`, `LuksUnmount`, `LuksFound` | `mount`/`modify_volume`, `cryptsetup open`, the swallowed `pvs`/`vgchange -an`, `unmount_luks` (raises), the second open or `luksAddKey` |
| `BitLockerModify`, `BitLockerMount`, `BitLockerMkdtemp`, `BitLockerFuse`, `BitLockerNtfs` | the hooks and `try_mount_bitlocker` |
| `UnmountBitLocker`, `UmountAttempt`, `UnmountRaised`, `BitLockerRmdir` | `unmount_bitlocker` with `@retry(10)`. The raise at line 84 is caught at 86, which unmounts again. |
| `BitLockerFound` | the second mount with the FVEK, or `dislocker-pwreset`, which adds a clear key |
| `VeraCryptMount`, `VeraCryptOpen`, `VeraCryptNtfs`, `VeraCryptUnmount`, `VeraCryptFound`, `VeraCryptModify` | `mount`, `try_mount_veracrypt`, `unmount_veracrypt` (returns False), the header write at sector 62 |

A tool call in `Failures` may fail. The kernel refuses `cryptsetup close` while a group on the mapper is active. udev's activation of the group is chosen at `cryptsetup open`: before the plugin lists the group, after it deactivated it (`late`), or never.

`MountPipeline` abstracts all of this to "`keys` holds the containers a supplied key unlocks". `UnlockCorrect` is the statement that justifies that abstraction when no tool fails.

### GuestPlugins

A run is given a layout: for each disk, its table kind and its volumes in walk order. A volume is a record of what the plugins read on it:
- `type`, the partition type;
- `fs`, whether its filesystem mounts, and whether only read-only (ntfs-3g falls back to read-only on a hibernated Windows);
- `win`, the `WIN_GUESTOS_VMWARE` key the SOFTWARE hive's ProductName starts with (`"other"` for another product, `"none"` without a readable hive), and `amd64`, from BuildLabEx;
- `passwd`, whether `/etc/passwd` exists;
- the `/etc/shadow` lines, each with its field count and a class of its password field;
- the SAM accounts, each an NT hash record. A record has the length its V header gives (`len`), the bytes it has (`bytes`), its revision, and the password it encrypts.

| Action | Code |
|--------|------|
| `BeforeCreateDisk` | `dispatch_all('before_create_disk')` in `_add_virtual_disk`, for one disk: `OsOfDisk` (first mounted volume with an OS, then `return`) and `DetectEfi` (any ESP sets `is_efi`) |
| `CreateVm` | the end of `_create_vm`: builder values from the options, `before_create_vm` of both plugins (`DetectedGuestOs`, `DetectedFirmware`), and `write`'s defaults `other-64` and EFI (`VmxGuestOs`, `VmxFirmware`) |
| `ModifyFilesystem` | one volume of the writable walk: `modify_filesystem` of the shadow plugin (`ResetEntry` on each line; `write_text` on a read-only mount raises) and of the SAM plugin (`SamAfterBypass`: `SetNewPassword` on each account, written back whole, with an `OSError` swallowed) |

The ciphers are reduced to the lengths of their output. RC4 keeps the 16 bytes of the DES-encrypted key. AES-CBC encrypts `pad(key, 16)`, which is 32 bytes (`Pad16`). Whether the new record fits over the old one depends only on these lengths.

## Properties

- `DiskBuilder!ExtentsWellFormed`: every extent is aligned, and the list is sorted and pairwise disjoint (spec invariant 2).
- `DiskBuilder!AbstractSpec`: the disk the VMDK describes refines the last-write-wins map (spec 4.1).
- `MountPipeline!AllReleased`: while no unmount tool failed on its own (`toolfailed` is empty), the teardown releases everything, whether the walk ended or a mount raised out of it (spec invariant 1, and invariant 5 on unmount order). The one exception is what lies beneath a volume group activated with no volume recording it (`Beneath(Orphans)`): the group itself, the device it sits on (busy), and the lazily detached loop below.
- `MountPipeline!WalkComplete`: the walk mounts every filesystem that the registered plugins, the supplied keys and the LVM layout make reachable.
- `MountPipeline!CleanupAttempted`: when unmounts may fail, everything left held had its own release attempted (spec 7: failures do not stop sibling unmounts), except an unrecorded group, which the teardown never sees.
- `MountPipeline!WalkComplete` is claimed only for a walk that no mount hook left by raising.
- `MountPipeline!Termination`: the walk and the teardown both end.
- `KeyTrial!NoSilentLeak`: when the hooks return normally, only the returned volume's resources are held. Every trial mapping, FUSE mount, directory and group activation has been released; a release that fails must raise (spec 5).
- `KeyTrial!UnlockCorrect`: a returned volume was opened with the right key; and with no tool failure a volume that a supplied key or a clear key unlocks is unlocked.
- `KeyTrial!HeaderWriteCorrect`: the LUKS key slot, the BitLocker clear key and password, and the VeraCrypt header are rewritten only with the volume's right key.
- `KeyTrial!Termination`: the hooks return, also when every umount keeps failing (the retry is bounded).
- `Orchestrator!LeakOnlyAfterFailedRelease`: when `run` returns, normally or by an exception, it holds only what a failed release left behind (spec invariant 1).
- `Orchestrator!KeptWhileVmRuns`: while VMware has the VM powered on and `run` has not raised, every disk whose `keep_mounted` was set still has its image bind mount and read-only tree (spec 4.5). It relates the VM actor's state to what `run` holds, which `run` learns only through `is_running`.
- `Orchestrator!SnapshotBeforeWrite`: the writable pass writes only through a snapshot delta. The disk it opens is the one `ctx.vm.disks` resolves from the `.vmx`, and the VMDK's FLAT extents point into the original image (spec invariant 4).
- `Orchestrator!Termination`: `run` returns, normally or by an exception, provided a powered-on VM is eventually powered off.
- `GuestPlugins!VmxGuestAndFirmware`: the `.vmx` keeps an explicit `--firmware` or `--guest-os`. With `auto`, the firmware is EFI exactly when some disk has an ESP (spec 4.6), and the guest type is one detected on a mounted filesystem, or `other-64` when none is. It depends on main.py's choice of plugins, detection over each disk, `before_create_vm` and the builder's defaults together.
- `GuestPlugins!SamResetExact`: after the writable pass, each writable Windows filesystem's SAM hive has the new password in exactly the accounts with an NT hash (an RC4 record of 20 bytes or an AES record of 56; spec 4.6). Every record keeps the length its V header gives, so the in-place write at the value's offset overwrites nothing beside it. A hive on a read-only mount is unchanged.
- `Orchestrator!ImageUnmountedBeforeRW`: the writable reopening happens with the original image unmounted (spec 5(c)). Checked only as a violation run.

Each passing property has a mutant in `PROJECT.json`: a plausible bug in the mapped code that TLC catches.

## Runs

| Run | Config | Result | Shows |
|-----|--------|--------|-------|
| builder | `MCDiskBuilder.cfg` | pass, 107 states | The whole image plus non-adjacent partition overlays, in any order, up to 5 calls. The list stays well formed and the VMDK refines `ExtentMap`. |
| adjacent_overlays | `MCDiskBuilder_adjacent.cfg` | violation | An overlay starting at an existing extent's start is not merged (`base.py:70-92`). |
| headoverlap | `MCDiskBuilder_headoverlap.cfg` | violation | The wrong overlap length at `base.py:88`. |
| pipeline | `MCMountPipeline.cfg` | pass, 5640 states | All 5 plugin lists × 16 key sets over the full layout. The unmounts of `fsB` (the bottom of the LUKS-on-LVM-on-LUKS chain) and of the BitLocker volume may fail, which makes every device below `fsB` busy. `pvdisplay` may raise on the raw partition and every LVM tool on `pv1`, before or after activating its group, and one group is empty: the teardown after an aborted walk releases all but the unrecorded groups and what they sit on. |
| veracrypt_before_esp | `MCMountPipeline_vcfirst.cfg` | violation | A VeraCrypt system partition before its ESP is never unlocked (`veracrypt.py:156`). |
| keytrial | `MCKeyTrial.cfg` | pass, 3069 states | LUKS (with or without a PV inside), BitLocker (with or without a clear key) and VeraCrypt; the right key first, second or not supplied; the read-only and the writable pass; every tool call able to fail except VeraCrypt's close. |
| veracrypt_trial_leak | `MCKeyTrial_vcleak.cfg` | violation | `cryptsetup close` of a VeraCrypt trial mapping fails; `unmount_veracrypt` returns False silently and `mount` returns with the trial mapping open and recorded nowhere (`veracrypt.py:99`; spec 5). |
| guest | `MCGuestPlugins.cfg` | pass, 8400 states | Two disks from seven kinds, every `--guest-os` (auto or explicit), `--firmware` and `--pw-bypass` choice. The `.vmx` has the right guest type and firmware, and every SAM reset is exact and fits in place. |
| orchestrator | `MCOrchestrator.cfg` | pass, 10012 states | Two disks; `--fde-bypass` none, auto and each on-the-fly mode; any subset of unlocked container kinds per disk; every external step may raise except the two of `mount_disk` below; every release may fail. The out-dir is `/w/out`; the images are in `/img`, in `img` (relative), or in `/w/out` (where the VMDK write raises); the VM may be powered off at any time. |
| otf_keep_mounted | `MCOrchestrator_otf.cfg` | violation | With `luks_otf_mount`, the image and its read-only tree are still mounted when the VMDK is mounted writable (`runner.py:69`; spec 5(c)). |
| mount_disk_leak | `MCOrchestrator_leak.cfg` | violation | When `vmware-mount` fails, its `mkdtemp` directory is never removed (`vmware.py:157`). When `DiskInfo` raises at `runner.py:95`, the VMDK also stays mounted. |
| relative_out_dir | `MCOrchestrator_relative.cfg` | violation | With `--out-dir .` and an absolute image path, `is_running` compares the relative `vm.vmx` with the absolute paths of `vmrun list` (`vmware.py:150`). The wait ends at once, and the on-the-fly mounts are torn down under the running VM. With `--out-dir out`, the `.vmx` names `out/out/...` and the `Initial` snapshot fails. With a relative image under `.`, the VMDK write raises (`vmdk.py:53`). |

### Bounds

**The builder run.**
- 14 units with sector size 2 is enough for the whole image and three partitions with gaps between them.
- Five calls reach every interleaving of the whole-disk part with the three overlays, plus a rejected misaligned call.
- `VmdkSector` equals `SectorSize`. With `VmdkSector` smaller (a 4Kn disk: `vmdk.py:45` counts in the disk's LBA size, VMDK in 512-byte sectors), TLC finds `AbstractSpec` violated on the first write. The project lists that case as a hazard and keeps no run for it.
- The passing layouts are the ones the code produces: one whole-image extent and an overlay per unlocked partition, where partitions are disjoint and not adjacent. The adjacent case is its own violation run.

**The pipeline layout.** It exercises every branch of every mount hook and every teardown path. The partitions are:
- an ESP with the VeraCrypt marker, followed by a VeraCrypt system partition;
- LUKS over a PV, whose group holds a plain LV and a LUKS LV (depth 3);
- a second PV whose group has no logical volumes (`generic.py:101`);
- BitLocker;
- a raw partition.

The 80 initial states are every `--fde-bypass` choice combined with every subset of working keys.

**The key trial.** Two candidate keys, with the right one first, second or absent, cover three cases: a wrong key tried before the right one, the right key first, and the loop running out. `RetryNum` is 2, where the code uses 10. That already gives a retry that succeeds in the middle and one that re-raises at the last attempt; more attempts only repeat the middle. Every `umount` attempt may fail, which reaches both rounds of the nested unmount at `bitlocker.py:84-87`.

`pvdisplay` may fail on the raw partition, and every LVM tool on `pv1`, the physical volume inside the LUKS container (`MountMayFail`). A failure on `pv1` after activation leaves its group over the LUKS mapper, which then cannot be closed. `pv2`'s group is empty, so the same leak happens there without any failure.

The group over two physical volumes (`generic.py:90`, which the TODO at `generic.py:62` acknowledges) duplicates logical volumes. No layout has it: what a second mount of the same block device and a second `vgchange -an` do is host behaviour the model would have to guess. It is kept as a hazard.

**The orchestrator.** Two disks are the fewest that show three things:
- a scope handed to `ctx.mount_contexts` outliving a later disk's with-block;
- the `base` mark moving;
- the writable loop over several disks.

The paths are the fewest that take each branch of the path handling: an absolute out-dir, `.`, a relative subdirectory, and images outside, relative to, and inside the out-dir.

**The guest plugins.** The seven disks take every branch of the two detection plugins:
- a GPT ESP and an MBR ESP, and disks without one;
- a 64-bit Windows 10, a 32-bit Windows 7, an unknown Windows product (which falls through to Linux detection), Linux roots, and a volume that does not mount.

The SAM accounts have an RC4 hash, an AES hash, no hash, and the 4- and 24-byte records of accounts without one. The shadow lines have a hash, `!`, `*`, `!!`, `!`+hash, an empty field and a line of one field. The hibernated Windows is mounted read-only in the writable pass, so its SAM write fails. Two disks are the fewest where the order of detection over disks matters.

Each failure point is one choice. Runs therefore reach every prefix of `run` ending in every kind of exception, with every combination of failed releases on the way out.

### Fairness

The pipeline is one synchronous thread, and each step is a function call that returns. `WF_vars(Next)` therefore only says the program keeps running. Termination is then a property of the loops: the walk over a growing but finite list, and the teardown over a finite schedule.

The builder has no liveness. `add_part` calls are made by callers, and no fairness is assumed.

The key trial runs on the walk's thread, and every tool call returns, so `KeyTrial` also assumes `WF_vars(Next)`. A failed umount attempt is a step of its own, because it counts the retry down. Termination therefore needs no fairness on the tools: a umount that fails forever still ends the loop.

`run` is one thread. Every step it takes is a call that returns, so the orchestrator assumes `WF_vars(Program)`. The user's `PowerOff` gets no fairness: the user may keep the VM running for ever. `Termination` therefore assumes the VM is powered off eventually, and states that as the antecedent of the property. While the VM is listed, the poll changes nothing, so weak fairness does not force it to return.

The guest plugins are sequential calls. Their model has no liveness property and no fairness.

`CHECK_DEADLOCK FALSE` is set because `done`, and the builder's call bound, are terminal states.

## Observations without a run

An LVM mount can leave its volume group active with no volume recording it: when the group has no logical volumes (`generic.py:101`, an empty list is no result to `dispatch_until_result`), and when `vgchange -ay` or `lvdisplay` raises after activation (`generic.py:87-90`). The teardown walks `disk_info.volumes` only, so it never runs `vgchange -an`; the device under the group stays busy, and a LUKS mapper under it stays open. Spec invariant 1 asks that nothing stay mounted. On the pipeline layout the plain statement `held = {}` (with no unmount tool failing) is violated by both paths. The pipeline run checks instead that the leak goes no further than the group and what it sits on (`AllReleased`); the project's run budget has no slot for the violation run.

`EtcShadowBlankPasswords` resets every password field other than exactly `!` or `*` (`password_bypass.py:133`). Spec 4.6 says it resets non-empty, non-locked fields, and E2 says "every non-locked entry". So an empty field (an account with no password) is given one. The lock forms `!!` and `!` before a hash (shadow(5): a leading `!` locks the password) are unlocked. `GuestPlugins!ResetEntry` models what the code does. A unit test on one line shows it, so the project keeps no run for it.

`DetectEfiPlugin` compares `volume_type` with the ESP type GUID. For GPT, `runner.py:191` sets `volume_type` from `p.guid` of `pyreadpartitions`. The model takes that to be the partition type GUID, as the spec says. Whether that library's `guid` is the type GUID or the partition's unique GUID is outside this repository and is not checked.

## Not modelled, and the plan

**Orchestrator and MountPipeline composed.** The orchestrator treats a pass as one tree. Instancing `MountPipeline` for the read-only and the writable pass would show two things:
- the same volume group visible twice while `keep_mounted` holds the read-only tree (the LVM note at `luks.py:132`);
- `mounted_disk` being dispatched twice.

**On-the-fly overlays.** The `before_create_disk` plugins composed with `DiskBuilder`: an overlay at `parent.offset` for each unlocked container. This checks that the VM's disk shows plaintext where the code intends, and reaches the equal-start bug from real layouts. A container inside a logical volume would be overlaid at offset 0, because an LV's `VolumeInfo` keeps the default offset (`generic.py:92-99`). The class comment at `luks.py:132-134` already declares LVM unsupported with on-the-fly decryption, so this is listed as a hazard and not as a finding.

**The key trial inside the walk.** `KeyTrial` runs one volume's hooks alone. Composing it with `MountPipeline` would also hand the leaked trial mapping to the teardown, which never sees it.

**The cipher loop of VeraCrypt.** `find_master_key` tries each key with each cipher. The model has one cipher per key, because the check of each pair is the same.

**Out of TLC's reach, or pure I/O.**
- VeraCrypt header cryptography and structure pack/unpack.
- The bytes of the SAM and shadow rewrites: DES, RC4, AES and crypt. Only the lengths they produce are modelled.
- VMX text other than the disk paths, guest OS and firmware (memory, CPUs, network and time options).
- The CLI option parsing.
