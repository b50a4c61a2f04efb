------------------------------ MODULE KeyTrial -------------------------------
(***************************************************************************)
(* The key search of the unlock plugins on one encrypted volume, at the  *)
(* level of the external tools it calls (plugins/luks.py,                *)
(* plugins/bitlocker.py, plugins/veracrypt.py).  Each plugin tries the    *)
(* candidate master keys one by one: it opens the volume with a key,      *)
(* checks the plaintext and closes the trial mapping again, then opens    *)
(* the volume a second time with the key it found.  In the writable pass  *)
(* the password plugins also rewrite the volume's header: LUKS and        *)
(* BitLocker from modify_volume of the encrypted partition, before its    *)
(* mount; VeraCrypt from modify_volume of the plaintext, after it.        *)
(*                                                                         *)
(* Every tool call named in Failures may fail on its own.  The kernel     *)
(* refuses to close a mapper while a volume group on it is active, and    *)
(* udev may activate such a group at any time after cryptsetup open,      *)
(* also after the plugin deactivated it.                                  *)
(***************************************************************************)
EXTENDS Naturals, Sequences, SequencesExt

CONSTANTS
    Plugins,    \* the plugins the volume may belong to
    Keys,       \* Seq: the --master-key options, in order
    NoKey,      \* a key none of Keys equals
    Failures,   \* tool calls that may fail on their own
    RetryNum,   \* the num of @retry(num) around BitLocker's umount
    None

VARIABLES
    plugin,   \* "luks", "bitlocker" or "veracrypt"
    right,    \* the volume's real master key (NoKey: none was supplied)
    clear,    \* the BitLocker volume has a clear key protector
    pv,       \* the plaintext is an LVM physical volume
    todo,     \* hooks still to run on the volume: "modify", "mount"
    op,       \* the hook running
    pc,       \* position inside the hook
    role,     \* what the running try_mount is for: "trial", "final", "clear"
    k,        \* index into Keys of the key loop
    opens,    \* history: the key of every open; an open is named by its index
    held,     \* host resources not released: <<kind, open>>
    late,     \* udev activates the group of the current open after vgchange
    found,    \* the result of find_master_key / find_correct_fvek
    cache,    \* additional_info[...]['master_key'] of the volume
    vol,      \* the open the mount hook returned, 0 for None
    tries,    \* i of the retry loop
    unctx,    \* the call site of the running unmount: "ntfs", "except", "found"
    exc,      \* an exception escaped the hook
    failed,   \* history: some tool call failed
    written   \* history: keys the volume's header was rewritten with

vars == <<plugin, right, clear, pv, todo, op, pc, role, k, opens, held, late,
          found, cache, vol, tries, unctx, exc, failed, written>>

Fails(step) == IF step \in Failures THEN BOOLEAN ELSE {FALSE}

\* The key the running try_mount opens the volume with.
TryKey ==
    CASE role = "trial" -> Keys[k]
      [] role = "final" -> found
      [] role = "clear" -> "clear"

\* is_ntfs of the plaintext: only the right key (or the clear key
\* protector) yields the volume's NTFS boot sector; a wrong key yields
\* garbage.
Valid(n) == opens[n] = right \/ (opens[n] = "clear" /\ clear)

Cur == Len(opens)

\* A new open: the trial mapping or FUSE mount gets the next name.
Open(key) == opens' = Append(opens, key)

\* The continuation of try_mount_* returning the open v (0: None).
Return(v) ==
    /\ k' = IF role = "trial" /\ v = 0 THEN k + 1 ELSE k
    /\ vol' = IF role = "final" \/ (role = "clear" /\ v # 0) THEN v ELSE vol
    /\ unctx' = IF role = "trial" /\ v # 0 THEN "found" ELSE unctx
    /\ pc' = CASE role = "trial" /\ v # 0 -> "unmount"
               [] role = "trial"          -> "next_key"
               [] role = "clear" /\ v = 0 -> "find"
               [] OTHER                   -> "idle"

\* An exception leaves the hook and the walk.
Raise ==
    /\ exc' = TRUE
    /\ pc' = "done"

Frozen == <<plugin, right, pv>>

-----------------------------------------------------------------------------

Init ==
    /\ plugin \in Plugins
    /\ right \in Range(Keys) \cup {NoKey}
    /\ clear \in (IF plugin = "bitlocker" THEN BOOLEAN ELSE {FALSE})
    /\ pv \in (IF plugin = "luks" THEN BOOLEAN ELSE {FALSE})
    /\ todo \in {<<"mount">>, IF plugin = "veracrypt" THEN <<"mount", "modify">>
                                                   ELSE <<"modify", "mount">>}
    /\ op = "none"
    /\ pc = "idle"
    /\ role = "trial"
    /\ k = 1
    /\ opens = <<>>
    /\ held = {}
    /\ late = FALSE
    /\ found = None
    /\ cache = None
    /\ vol = 0
    /\ tries = 0
    /\ unctx = "ntfs"
    /\ exc = FALSE
    /\ failed = FALSE
    /\ written = {}

\* dispatch_all("modify_volume") / dispatch_until_result("mount") reach
\* the plugin's hook.
StartHook ==
    /\ pc = "idle"
    /\ todo # <<>>
    /\ op' = Head(todo)
    /\ todo' = Tail(todo)
    /\ pc' = Head(todo)
    /\ UNCHANGED <<Frozen, clear, role, k, opens, held, late, found, cache, vol,
                   tries, unctx, exc, failed, written>>

Finish ==
    /\ pc = "idle"
    /\ todo = <<>>
    /\ pc' = "done"
    /\ UNCHANGED <<Frozen, clear, todo, op, role, k, opens, held, late, found,
                   cache, vol, tries, unctx, exc, failed, written>>

\* find_master_key (LUKS, VeraCrypt): a key found on an earlier call is
\* returned at once; otherwise the loop over the master keys starts.
FindMasterKey ==
    /\ pc = "find"
    /\ plugin \in {"luks", "veracrypt"}
    /\ IF cache # None
       THEN found' = cache /\ pc' = "found" /\ UNCHANGED k
       ELSE k' = 1 /\ pc' = "next_key" /\ UNCHANGED found
    /\ UNCHANGED <<Frozen, clear, todo, op, role, opens, held, late, cache, vol,
                   tries, unctx, exc, failed, written>>

\* find_correct_fvek: no keys, or dislocker-metadata failing or printing no
\* cipher mode, is None; otherwise the loop over the master keys starts.
FindCorrectFvek ==
    /\ pc = "find"
    /\ plugin = "bitlocker"
    /\ \E fail \in Fails("metadata") :
         /\ IF Keys = <<>> \/ fail
            THEN found' = None /\ pc' = "found" /\ UNCHANGED k
            ELSE k' = 1 /\ pc' = "next_key" /\ UNCHANGED found
         /\ failed' = (failed \/ fail)
    /\ UNCHANGED <<Frozen, clear, todo, op, role, opens, held, late, cache, vol,
                   tries, unctx, exc, written>>

\* Fault variant: the loop stops before the last key.
NextKey_skiplast ==
    /\ pc = "next_key"
    /\ IF k >= Len(Keys)
       THEN found' = None /\ pc' = "found" /\ UNCHANGED role
       ELSE role' = "trial" /\ pc' = "try" /\ UNCHANGED found
    /\ UNCHANGED <<Frozen, clear, todo, op, k, opens, held, late, cache, vol,
                   tries, unctx, exc, failed, written>>

\* One iteration of the key loop: try_mount with the next key, or None
\* once the keys are used up.
NextKey ==
    /\ pc = "next_key"
    /\ IF k > Len(Keys)
       THEN found' = None /\ pc' = "found" /\ UNCHANGED role
       ELSE role' = "trial" /\ pc' = "try" /\ UNCHANGED found
    /\ UNCHANGED <<Frozen, clear, todo, op, k, opens, held, late, cache, vol,
                   tries, unctx, exc, failed, written>>

-----------------------------------------------------------------------------
(* LUKS *)

\* LuksMountPlugin.mount and LuksAddPasswordPlugin.modify_volume of a
\* volume detected as LUKS start with find_master_key.
LuksMount ==
    /\ pc \in {"mount", "modify"}
    /\ plugin = "luks"
    /\ pc' = "find"
    /\ UNCHANGED <<Frozen, clear, todo, op, role, k, opens, held, late, found,
                   cache, vol, tries, unctx, exc, failed, written>>

\* try_mount_luks, cryptsetup open: a wrong master key or a failing open is
\* None.  When the plaintext is a physical volume udev may activate its
\* group before the plugin looks (held at once) or only after it
\* deactivated it (late).
LuksOpen ==
    /\ pc = "try"
    /\ plugin = "luks"
    /\ \E fail \in Fails("open"), when \in (IF pv THEN {"before", "after", "never"}
                                             ELSE {"never"}) :
         /\ failed' = (failed \/ fail)
         /\ IF fail \/ TryKey # right
            THEN /\ Return(0)
                 /\ UNCHANGED <<opens, held, late>>
            ELSE /\ Open(TryKey)
                 /\ held' = held \cup {<<"mapper", Cur + 1>>}
                              \cup (IF when = "before" THEN {<<"vg", Cur + 1>>} ELSE {})
                 /\ late' = (when = "after")
                 /\ pc' = "lvm"
                 /\ UNCHANGED <<k, vol, unctx>>
    /\ UNCHANGED <<Frozen, clear, todo, op, role, found, cache, tries, exc, written>>

\* try_mount_luks, lines 46-54: the group on the new mapper is listed and
\* deactivated; a failure of either is logged and swallowed.  The device is
\* returned.
LuksDeactivate ==
    /\ pc = "lvm"
    /\ \E lfail \in Fails("pvs"), dfail \in Fails("vgchange") :
         LET deactivated == pv /\ ~lfail /\ ~dfail
         IN  /\ held' = (held \ (IF deactivated THEN {<<"vg", Cur>>} ELSE {}))
                        \cup (IF late THEN {<<"vg", Cur>>} ELSE {})
             /\ failed' = (failed \/ lfail \/ (pv /\ ~lfail /\ dfail))
    /\ late' = FALSE
    /\ Return(Cur)
    /\ UNCHANGED <<Frozen, clear, todo, op, role, opens, found, cache, tries, exc,
                   written>>

\* Fault variant: the failure of cryptsetup close is swallowed.
LuksUnmount_swallow ==
    /\ pc = "unmount"
    /\ plugin = "luks"
    /\ \E fail \in Fails("luks_close") :
         /\ held' = IF fail \/ <<"vg", Cur>> \in held THEN held
                    ELSE held \ {<<"mapper", Cur>>}
         /\ failed' = (failed \/ fail)
    /\ found' = Keys[k]
    /\ pc' = "found"
    /\ UNCHANGED <<Frozen, clear, todo, op, role, k, opens, late, cache, vol,
                   tries, unctx, exc, written>>

\* find_master_key, line 78: unmount_luks of the trial mapping; cryptsetup
\* close raises when it fails, or when a group on the mapper is active.
LuksUnmount ==
    /\ pc = "unmount"
    /\ plugin = "luks"
    /\ \E fail \in Fails("luks_close") :
         /\ failed' = (failed \/ fail)
         /\ IF fail \/ <<"vg", Cur>> \in held
            THEN Raise /\ UNCHANGED <<held, found>>
            ELSE /\ held' = held \ {<<"mapper", Cur>>}
                 /\ found' = Keys[k]
                 /\ pc' = "found"
                 /\ UNCHANGED exc
    /\ UNCHANGED <<Frozen, clear, todo, op, role, k, opens, late, cache, vol,
                   tries, unctx, written>>

\* LuksMountPlugin.mount after find_master_key: the key is stored and the
\* volume opened again with it.  LuksAddPasswordPlugin.modify_volume:
\* cryptsetup luksAddKey, which verifies the master key, then the key is
\* stored.
LuksFound ==
    /\ pc = "found"
    /\ plugin = "luks"
    /\ \/ /\ found = None
          /\ pc' = "idle"
          /\ UNCHANGED <<role, cache, exc, failed, written>>
       \/ /\ found # None /\ op = "mount"
          /\ cache' = found
          /\ role' = "final"
          /\ pc' = "try"
          /\ UNCHANGED <<exc, failed, written>>
       \/ /\ found # None /\ op = "modify"
          /\ \E fail \in Fails("luksAddKey") :
               /\ failed' = (failed \/ fail)
               /\ IF fail \/ found # right
                  THEN Raise /\ UNCHANGED <<cache, written>>
                  ELSE /\ written' = written \cup {found}
                       /\ cache' = found
                       /\ pc' = "idle"
                       /\ UNCHANGED exc
          /\ UNCHANGED role
    /\ UNCHANGED <<Frozen, clear, todo, op, k, opens, held, late, found, vol, tries,
                   unctx>>

-----------------------------------------------------------------------------
(* BitLocker *)

\* BitLockerOverridePasswordPlugin.modify_volume starts with
\* find_correct_fvek.
BitLockerModify ==
    /\ pc = "modify"
    /\ plugin = "bitlocker"
    /\ pc' = "find"
    /\ UNCHANGED <<Frozen, clear, todo, op, role, k, opens, held, late, found,
                   cache, vol, tries, unctx, exc, failed, written>>

\* BitLockerMountPlugin.mount first tries the clear key.
BitLockerMount ==
    /\ pc = "mount"
    /\ plugin = "bitlocker"
    /\ role' = "clear"
    /\ pc' = "try"
    /\ UNCHANGED <<Frozen, clear, todo, op, k, opens, held, late, found, cache,
                   vol, tries, unctx, exc, failed, written>>

\* try_mount_bitlocker, line 66: mkdtemp, outside the try.
BitLockerMkdtemp ==
    /\ pc = "try"
    /\ plugin = "bitlocker"
    /\ Open(TryKey)
    /\ held' = held \cup {<<"dir", Cur + 1>>}
    /\ pc' = "fuse"
    /\ UNCHANGED <<Frozen, clear, todo, op, role, k, late, found, cache, vol,
                   tries, unctx, exc, failed, written>>

\* dislocker-fuse: it cannot tell a wrong FVEK and mounts garbage; it fails
\* for --clearkey without a clear key protector.  A failure goes to the
\* except branch.
BitLockerFuse ==
    /\ pc = "fuse"
    /\ \E fail \in Fails("dislocker") :
         /\ failed' = (failed \/ fail)
         /\ IF fail \/ (opens[Cur] = "clear" /\ ~clear)
            THEN unctx' = "except" /\ pc' = "unmount" /\ UNCHANGED held
            ELSE held' = held \cup {<<"fuse", Cur>>} /\ pc' = "ntfs" /\ UNCHANGED unctx
    /\ UNCHANGED <<Frozen, clear, todo, op, role, k, opens, late, found, cache,
                   vol, tries, exc, written>>

\* Fault variant: the plaintext is not checked for an NTFS boot sector.
BitLockerNtfs_nocheck ==
    /\ pc = "ntfs"
    /\ plugin = "bitlocker"
    /\ Return(Cur)
    /\ UNCHANGED <<Frozen, clear, todo, op, role, opens, held, late, found, cache,
                   tries, exc, failed, written>>

\* try_mount_bitlocker, lines 76-85: NTFS is the volume; anything else is
\* unmounted (inside the try) and None.
BitLockerNtfs ==
    /\ pc = "ntfs"
    /\ plugin = "bitlocker"
    /\ IF Valid(Cur)
       THEN Return(Cur)
       ELSE unctx' = "ntfs" /\ pc' = "unmount" /\ UNCHANGED <<k, vol>>
    /\ UNCHANGED <<Frozen, clear, todo, op, role, opens, held, late, found, cache,
                   tries, exc, failed, written>>

\* unmount_bitlocker: a mounted directory is unmounted under @retry(10).
UnmountBitLocker ==
    /\ pc = "unmount"
    /\ plugin = "bitlocker"
    /\ IF <<"fuse", Cur>> \in held
       THEN tries' = RetryNum /\ pc' = "umount"
       ELSE pc' = "rmdir" /\ UNCHANGED tries
    /\ UNCHANGED <<Frozen, clear, todo, op, role, k, opens, held, late, found,
                   cache, vol, unctx, exc, failed, written>>

\* The last umount failed: the exception leaves unmount_bitlocker.  Raised
\* at line 84 it is caught at line 86, which unmounts again.
UnmountRaised ==
    IF unctx = "ntfs"
    THEN unctx' = "except" /\ pc' = "unmount" /\ UNCHANGED exc
    ELSE Raise /\ UNCHANGED unctx

\* Fault variant: an exhausted retry starts a new round instead of
\* re-raising.
UmountAttempt_restart ==
    /\ pc = "umount"
    /\ \E fail \in Fails("umount") :
         /\ failed' = (failed \/ fail)
         /\ IF ~fail
            THEN held' = held \ {<<"fuse", Cur>>} /\ pc' = "rmdir"
                 /\ UNCHANGED <<tries, unctx, exc>>
            ELSE tries' = (IF tries > 0 THEN tries - 1 ELSE RetryNum)
                 /\ UNCHANGED <<held, pc, unctx, exc>>
    /\ UNCHANGED <<Frozen, clear, todo, op, role, k, opens, late, found, cache,
                   vol, written>>

\* Fault variant: the counter runs past zero.
UmountAttempt_pastzero ==
    /\ pc = "umount"
    /\ \E fail \in Fails("umount") :
         /\ failed' = (failed \/ fail)
         /\ IF ~fail
            THEN held' = held \ {<<"fuse", Cur>>} /\ pc' = "rmdir"
                 /\ UNCHANGED <<tries, unctx, exc>>
            ELSE IF tries >= 0
            THEN tries' = tries - 1 /\ UNCHANGED <<held, pc, unctx, exc>>
            ELSE UnmountRaised /\ UNCHANGED <<held, tries>>
    /\ UNCHANGED <<Frozen, clear, todo, op, role, k, opens, late, found, cache,
                   vol, written>>

\* One attempt of retry's loop over i in reversed(range(1 + num)) around
\* umount: success ends it; a failure sleeps and retries while i > 0 and
\* re-raises at i = 0.
UmountAttempt ==
    /\ pc = "umount"
    /\ \E fail \in Fails("umount") :
         /\ failed' = (failed \/ fail)
         /\ IF ~fail
            THEN held' = held \ {<<"fuse", Cur>>} /\ pc' = "rmdir"
                 /\ UNCHANGED <<tries, unctx, exc>>
            ELSE IF tries > 0
            THEN tries' = tries - 1 /\ UNCHANGED <<held, pc, unctx, exc>>
            ELSE UnmountRaised /\ UNCHANGED <<held, tries>>
    /\ UNCHANGED <<Frozen, clear, todo, op, role, k, opens, late, found, cache,
                   vol, written>>

\* unmount_bitlocker, lines 60-62, and its caller: try_mount_bitlocker
\* returns None; find_correct_fvek returns the key.
BitLockerRmdir ==
    /\ pc = "rmdir"
    /\ held' = held \ {<<"dir", Cur>>}
    /\ IF unctx = "found"
       THEN found' = Keys[k] /\ pc' = "found" /\ UNCHANGED <<k, vol, unctx>>
       ELSE Return(0) /\ UNCHANGED found
    /\ UNCHANGED <<Frozen, clear, todo, op, role, opens, late, cache, tries, exc,
                   failed, written>>

\* BitLockerMountPlugin.mount mounts again with the FVEK found.
\* BitLockerOverridePasswordPlugin.modify_volume runs dislocker-pwreset
\* with it, which adds a clear key protector.
BitLockerFound ==
    /\ pc = "found"
    /\ plugin = "bitlocker"
    /\ \/ /\ found = None
          /\ pc' = "idle"
          /\ UNCHANGED <<clear, role, exc, failed, written>>
       \/ /\ found # None /\ op = "mount"
          /\ role' = "final"
          /\ pc' = "try"
          /\ UNCHANGED <<clear, exc, failed, written>>
       \/ /\ found # None /\ op = "modify"
          /\ \E fail \in Fails("pwreset") :
               /\ failed' = (failed \/ fail)
               /\ IF fail
                  THEN Raise /\ UNCHANGED <<clear, written>>
                  ELSE /\ written' = written \cup {found}
                       /\ clear' = TRUE
                       /\ pc' = "idle"
                       /\ UNCHANGED exc
          /\ UNCHANGED role
    /\ UNCHANGED <<Frozen, todo, op, k, opens, held, late, found, cache, vol, tries,
                   unctx>>

-----------------------------------------------------------------------------
(* VeraCrypt *)

\* VeraCryptMountPlugin.mount, on a disk flagged as system encrypted.
VeraCryptMount ==
    /\ pc = "mount"
    /\ plugin = "veracrypt"
    /\ pc' = "find"
    /\ UNCHANGED <<Frozen, clear, todo, op, role, k, opens, held, late, found,
                   cache, vol, tries, unctx, exc, failed, written>>

\* try_mount_veracrypt, cryptsetup open --type=plain: any key opens.  A
\* failing open goes to the except branch, whose unmount_veracrypt(None)
\* does nothing.
VeraCryptOpen ==
    /\ pc = "try"
    /\ plugin = "veracrypt"
    /\ \E fail \in Fails("open") :
         /\ failed' = (failed \/ fail)
         /\ IF fail
            THEN Return(0) /\ UNCHANGED <<opens, held>>
            ELSE /\ Open(TryKey)
                 /\ held' = held \cup {<<"mapper", Cur + 1>>}
                 /\ pc' = "ntfs"
                 /\ UNCHANGED <<k, vol, unctx>>
    /\ UNCHANGED <<Frozen, clear, todo, op, role, late, found, cache, tries, exc,
                   written>>

\* try_mount_veracrypt, lines 120-129: NTFS is the volume; anything else is
\* closed and None.
VeraCryptNtfs ==
    /\ pc = "ntfs"
    /\ plugin = "veracrypt"
    /\ IF Valid(Cur)
       THEN Return(Cur)
       ELSE unctx' = "ntfs" /\ pc' = "unmount" /\ UNCHANGED <<k, vol>>
    /\ UNCHANGED <<Frozen, clear, todo, op, role, opens, held, late, found, cache,
                   tries, exc, failed, written>>

\* unmount_veracrypt: cryptsetup close, whose failure is returned as False;
\* neither caller looks at it.  try_mount_veracrypt returns None,
\* find_master_key the key.
VeraCryptUnmount ==
    /\ pc = "unmount"
    /\ plugin = "veracrypt"
    /\ \E fail \in Fails("vc_close") :
         /\ held' = IF fail THEN held ELSE held \ {<<"mapper", Cur>>}
         /\ failed' = (failed \/ fail)
    /\ IF unctx = "found"
       THEN found' = Keys[k] /\ pc' = "found" /\ UNCHANGED <<k, vol, unctx>>
       ELSE Return(0) /\ UNCHANGED found
    /\ UNCHANGED <<Frozen, clear, todo, op, role, opens, late, cache, tries, exc,
                   written>>

\* VeraCryptMountPlugin.mount after find_master_key: enabled and the key
\* are stored and the volume opened again with it.
VeraCryptFound ==
    /\ pc = "found"
    /\ plugin = "veracrypt"
    /\ IF found = None
       THEN pc' = "idle" /\ UNCHANGED <<role, cache>>
       ELSE cache' = found /\ role' = "final" /\ pc' = "try"
    /\ UNCHANGED <<Frozen, clear, todo, op, k, opens, held, late, found, vol, tries,
                   unctx, exc, failed, written>>

\* VeraCryptOverridePasswordPlugin.modify_volume of the plaintext: the
\* header at sector 62 is rewritten with the parent's master key.  With
\* no plaintext there is no new volume to dispatch it on.
VeraCryptModify ==
    /\ pc = "modify"
    /\ plugin = "veracrypt"
    /\ IF vol # 0 /\ cache # None
       THEN \E fail \in Fails("header_write") :
              /\ failed' = (failed \/ fail)
              /\ IF fail THEN Raise /\ UNCHANGED written
                 ELSE written' = written \cup {cache} /\ pc' = "idle" /\ UNCHANGED exc
       ELSE pc' = "idle" /\ UNCHANGED <<exc, failed, written>>
    /\ UNCHANGED <<Frozen, clear, todo, op, role, k, opens, held, late, found,
                   cache, vol, tries, unctx>>


-----------------------------------------------------------------------------

Next ==
    \/ StartHook \/ Finish
    \/ FindMasterKey \/ FindCorrectFvek \/ NextKey
    \/ LuksMount \/ LuksOpen \/ LuksDeactivate \/ LuksUnmount \/ LuksFound
    \/ BitLockerModify \/ BitLockerMount \/ BitLockerMkdtemp \/ BitLockerFuse \/ BitLockerNtfs
    \/ UnmountBitLocker \/ UmountAttempt \/ BitLockerRmdir \/ BitLockerFound
    \/ VeraCryptMount \/ VeraCryptOpen \/ VeraCryptNtfs \/ VeraCryptUnmount
    \/ VeraCryptFound \/ VeraCryptModify

\* The hooks run on the one thread of the walk; each tool call returns.
Spec == Init /\ [][Next]_vars /\ WF_vars(Next)

-----------------------------------------------------------------------------
(* Properties *)

Resources == {"mapper", "vg", "dir", "fuse"} \X Nat

TypeOK ==
    /\ plugin \in {"luks", "bitlocker", "veracrypt"}
    /\ pc \in {"idle", "mount", "modify", "find", "next_key", "try", "lvm", "fuse",
               "ntfs", "unmount", "umount", "rmdir", "found", "done"}
    /\ role \in {"trial", "final", "clear"}
    /\ held \subseteq Resources
    /\ vol \in 0..Len(opens)
    /\ tries \in 0..RetryNum
    /\ written \subseteq Range(Keys)

\* What the walk records of the volume the mount hook returned: its mapper
\* or FUSE mount, the directory under it, and a group udev activated on it,
\* which the LVM plugin takes over.
Owned(v) == {<<"mapper", v>>, <<"vg", v>>, <<"dir", v>>, <<"fuse", v>>}

(* No silent leak: when the hooks return normally, every trial mapping,   *)
(* FUSE mount, mkdtemp directory and group activation of the key search  *)
(* has been released; only the returned volume's resources are held,     *)
(* which the teardown finds through disk_info.volumes.  A release that    *)
(* fails must raise, as spec section 5 allows swallowing only on the      *)
(* teardown path.                                                         *)
NoSilentLeak == pc = "done" /\ ~exc => held \subseteq Owned(vol)

\* A supplied key, or a clear key protector, unlocks the volume.
Unlockable == right \in Range(Keys) \/ clear

(* The key search is sound and complete: a volume the mount hook returns  *)
(* was opened with the right key (or the clear key), never with garbage  *)
(* from a wrong key that the tool accepted; and when no tool call failed *)
(* a volume a supplied key unlocks is unlocked.                           *)
UnlockCorrect ==
    pc = "done" /\ ~exc =>
        /\ vol # 0 => Valid(vol)
        /\ ~failed /\ Unlockable => vol # 0

(* The header is rewritten (a LUKS key slot, a BitLocker clear key and    *)
(* password, a VeraCrypt header) only with the volume's right master key: *)
(* with a wrong one the volume would not open in the VM.                  *)
HeaderWriteCorrect == written \subseteq {right}

(* The hooks return: every key loop and the umount retry loop are         *)
(* bounded, also when every umount keeps failing.                         *)
Termination == <>(pc = "done")
====
