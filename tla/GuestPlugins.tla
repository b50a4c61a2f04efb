---------------------------- MODULE GuestPlugins ----------------------------
(***************************************************************************)
(* The plugins that look at and change the guest's files                   *)
(* (src/src/diskvm/plugins/os_detect.py, password_bypass.py), as           *)
(* DiskVmCreator.run calls them: before_create_disk of each disk after its *)
(* read-only walk, before_create_vm before vm_builder.write, and           *)
(* modify_filesystem for each filesystem the writable pass mounts.         *)
(*                                                                         *)
(* A volume is a record of what the plugins read on it: its partition      *)
(* type, whether its filesystem mounts ("rw", "ro" or "none"), the       *)
(* ProductName family and BuildLabEx architecture of a SOFTWARE hive,      *)
(* /etc/passwd, the password fields of /etc/shadow, and the NT hash        *)
(* records of the SAM hive's user accounts.                                *)
(***************************************************************************)
EXTENDS Integers, Sequences, TLC

CONSTANTS
    Disks,            \* options.all_disk_images, as 1..n
    Layouts,          \* the disks the run may be given: [Disks -> Disk]
    GuestOsChoices,   \* --guest-os values: "auto" or an identifier
    FirmwareChoices,  \* --firmware values: "auto", "bios", "efi"
    PwChoices         \* --pw-bypass values

VARIABLES
    layout,     \* the partitions and filesystems of each disk
    opts,       \* the command line: [guest_os, firmware, pw]
    pc,         \* "ro", "create_vm", "rw", "done" or "raised"
    d, i,       \* the disk and the volume being visited
    ctx_os,     \* ctx.additional_info['auto_detected_guest_os'] ("none": unset)
    is_efi,     \* ctx.additional_info['is_efi']
    vmx,        \* guestOS and firmware of the written .vmx ("none" before it is written)
    files       \* /etc/shadow and SAM of each volume, as the writable pass left them

vars == <<layout, opts, pc, d, i, ctx_os, is_efi, vmx, files>>

\* main.py PASSWORD_BYPASS_OPTIONS, and the detection plugins main adds
\* when --guest-os or --firmware is "auto".
PASSWORD_BYPASS_OPTIONS ==
    [auto |-> {"EtcShadowBlankPasswords", "WindowsRegistryOverridePassword"},
     none |-> {}, linux |-> {"EtcShadowBlankPasswords"},
     windows |-> {"WindowsRegistryOverridePassword"}]
Plugins ==
    PASSWORD_BYPASS_OPTIONS[opts.pw]
    \cup (IF opts.guest_os = "auto" THEN {"DetectOperatingSystem"} ELSE {})
    \cup (IF opts.firmware = "auto" THEN {"DetectEfi"} ELSE {})

-----------------------------------------------------------------------------
(* OS and firmware detection *)

\* The ProductName prefixes VMware guest types are known for.  A volume's
\* win field is the prefix its ProductName starts with, "other" for any
\* other product (IndexError), "none" without a readable SOFTWARE hive.
WIN_GUESTOS_VMWARE ==
    ("Windows 11" :> "windows9") @@ ("Windows 10" :> "windows9")
    @@ ("Windows 8" :> "windows8") @@ ("Windows 7" :> "windows7")

DetectWindows(v) ==
    IF v.win \in DOMAIN WIN_GUESTOS_VMWARE
    THEN WIN_GUESTOS_VMWARE[v.win] \o (IF v.amd64 THEN "-64" ELSE "")
    ELSE "none"

DetectLinux(v) == IF v.passwd THEN "otherlinux" ELSE "none"

DetectOs(v) == IF DetectWindows(v) # "none" THEN DetectWindows(v) ELSE DetectLinux(v)

\* DetectOperatingSystemPlugin.before_create_disk: the first mounted
\* volume of the disk with an OS sets the context key, and the loop returns.
OsOfDisk(x) ==
    LET vs == layout[x].vols
        found == {k \in DOMAIN vs : vs[k].fs # "none" /\ DetectOs(vs[k]) # "none"}
    IN  IF found = {} THEN "none"
        ELSE DetectOs(vs[CHOOSE k \in found : \A j \in found : k <= j])

TYPE_EFI_SYSTEM_PARTITION_GPT == "C12A7328-F81F-11D2-BA4B-00A0C93EC93B"
TYPE_EFI_SYSTEM_PARTITION_MBR == "0xEF"

IsEfiSystemPartition(scheme, v) ==
    \/ scheme = "gpt" /\ v.type = TYPE_EFI_SYSTEM_PARTITION_GPT
    \/ scheme = "mbr" /\ v.type = TYPE_EFI_SYSTEM_PARTITION_MBR

\* Fault variant: each partition overwrites the flag instead of setting it.
DetectEfi_lastpart(x) ==
    LET vs == layout[x].vols
    IN  Len(vs) > 0 /\ IsEfiSystemPartition(layout[x].scheme, vs[Len(vs)])

\* DetectEfiPlugin.before_create_disk: any ESP of the disk sets is_efi.
DetectEfi(x) ==
    \E k \in DOMAIN layout[x].vols : IsEfiSystemPartition(layout[x].scheme, layout[x].vols[k])

\* before_create_vm of the two detection plugins: the detected guest type
\* replaces the builder's when there is one; the firmware follows is_efi.
DetectedGuestOs(g) == IF ctx_os # "none" THEN ctx_os ELSE g
DetectedFirmware == IF is_efi THEN "efi" ELSE "bios"

\* Fault variant: the guest type is written as the builder holds it.
VmxGuestOs_nodefault(g) == g

\* VMwareVirtualMachineBuilder.write: the defaults for unset values.
VmxGuestOs(g) == IF g = "none" THEN "other-64" ELSE g
VmxFirmware(f) == IF f = "none" THEN "efi" ELSE f

-----------------------------------------------------------------------------
(* Password bypass *)

\* EtcShadowBlankPasswords.modify_filesystem on one line split at ':': a
\* line of two or more fields whose password is not '!' or '*' gets a fresh
\* SHA-256 crypt of "newpwd".
ResetEntry(e) ==
    IF e.nfields >= 2 /\ e.pw \notin {"!", "*"} THEN [e EXCEPT !.pw = "newpwd"] ELSE e

\* An NT hash record: the length NTHashLength gives it in the V header,
\* the bytes it has in the V data, its revision (byte 2: 1 for RC4, 2 for
\* AES), and the password it encrypts.
KeyLen == 16          \* the two DES-encrypted 8-byte halves of the NT hash
RC4Header == 4        \* SAM_HASH: PekID, Revision
AESHeader == 24       \* SAM_HASH_AES: PekID, Revision, DataOffset, Salt

\* pad(key, 16): PKCS#7 always adds between 1 and 16 bytes.
Pad16(n) == (n \div 16 + 1) * 16

\* encrypt_nt_hash and getData: the length of the new record.
NewRecordLength(a) == IF a.rev = 1 THEN RC4Header + KeyLen ELSE AESHeader + Pad16(KeyLen)

\* Fault variant: any non-RC4 record is taken for an AES one.
RecognisedHash_nolen(a) ==
    /\ a.len # 0
    /\ IF a.rev = 1 THEN a.len = 20 ELSE TRUE

\* set_new_password: the records it rewrites.
RecognisedHash(a) ==
    /\ a.len # 0
    /\ IF a.rev = 1 THEN a.len = 20 ELSE a.len = 56

\* The V value spliced around the new record keeps its header, so the
\* NTHashLength it gives stays the old one.
SetNewPassword(a) ==
    IF RecognisedHash(a) THEN [a EXCEPT !.bytes = NewRecordLength(a), !.pw = "newpwd"] ELSE a

\* WindowsRegistryOverridePasswordPlugin.modify_filesystem: every user is
\* rewritten in a copy of the hive, which is written back at the end; an
\* OSError (a filesystem mounted read-only) is logged and swallowed.
SamAfterBypass(v, sam) ==
    IF v.fs = "ro" THEN sam ELSE [k \in DOMAIN sam |-> SetNewPassword(sam[k])]

-----------------------------------------------------------------------------
(* The run *)

\* The files each volume starts with.
Files0(l) == [x \in Disks |-> [k \in DOMAIN l[x].vols |->
                  [shadow |-> l[x].vols[k].shadow, sam |-> l[x].vols[k].sam]]]

Init ==
    /\ layout \in Layouts
    /\ opts \in [guest_os : GuestOsChoices, firmware : FirmwareChoices, pw : PwChoices]
    /\ pc = "ro"
    /\ d = 1
    /\ i = 1
    /\ ctx_os = "none"
    /\ is_efi = FALSE
    /\ vmx = [guestOS |-> "none", firmware |-> "none"]
    /\ files = Files0(layout)

\* dispatch_all('before_create_disk') at the end of _add_virtual_disk for
\* disk d, and the loop of _create_vm over the disks.
BeforeCreateDisk ==
    /\ pc = "ro"
    /\ ctx_os' = IF "DetectOperatingSystem" \in Plugins /\ OsOfDisk(d) # "none"
                 THEN OsOfDisk(d) ELSE ctx_os
    /\ is_efi' = (is_efi \/ ("DetectEfi" \in Plugins /\ DetectEfi(d)))
    /\ IF d < Len(layout) THEN d' = d + 1 /\ UNCHANGED pc
                          ELSE d' = 1 /\ pc' = "create_vm"
    /\ UNCHANGED <<layout, opts, i, vmx, files>>

\* The end of _create_vm: the builder starts from options.guest_os and
\* options.firmware (None when "auto"), dispatch_all('before_create_vm')
\* applies what the detection plugins found, and vm_builder.write puts it
\* in the .vmx.
CreateVm ==
    /\ pc = "create_vm"
    /\ LET option(o) == IF o = "auto" THEN "none" ELSE o
           guest_os == IF "DetectOperatingSystem" \in Plugins
                       THEN DetectedGuestOs(option(opts.guest_os)) ELSE option(opts.guest_os)
           firmware == IF "DetectEfi" \in Plugins THEN DetectedFirmware ELSE option(opts.firmware)
       IN  vmx' = [guestOS |-> VmxGuestOs(guest_os), firmware |-> VmxFirmware(firmware)]
    /\ pc' = "rw"
    /\ UNCHANGED <<layout, opts, d, i, ctx_os, is_efi, files>>

\* The walk of the writable pass reaches volume i of disk d: when its
\* filesystem mounts, dispatch_all('modify_filesystem') runs the password
\* plugins.  write_text of /etc/shadow on a read-only mount raises.
ModifyFilesystem ==
    /\ pc = "rw"
    /\ LET v == layout[d].vols[i]
           f == files[d][i]
           shadow == v.fs # "none" /\ "EtcShadowBlankPasswords" \in Plugins /\ v.hasShadow
           sam == v.fs # "none" /\ "WindowsRegistryOverridePassword" \in Plugins /\ v.hasSam
       IN  IF shadow /\ v.fs = "ro"
           THEN pc' = "raised" /\ UNCHANGED <<d, i, files>>
           ELSE /\ files' = [files EXCEPT ![d][i] =
                        [shadow |-> IF shadow THEN [k \in DOMAIN f.shadow |-> ResetEntry(f.shadow[k])]
                                             ELSE f.shadow,
                         sam |-> IF sam THEN SamAfterBypass(v, f.sam) ELSE f.sam]]
                /\ CASE i < Len(layout[d].vols) -> i' = i + 1 /\ UNCHANGED <<d, pc>>
                     [] d < Len(layout)         -> d' = d + 1 /\ i' = 1 /\ UNCHANGED pc
                     [] OTHER                   -> pc' = "done" /\ UNCHANGED <<d, i>>
    /\ UNCHANGED <<layout, opts, ctx_os, is_efi, vmx>>

Next == BeforeCreateDisk \/ CreateVm \/ ModifyFilesystem

Spec == Init /\ [][Next]_vars

-----------------------------------------------------------------------------
(* Properties *)

GuestOsIds == {"windows9", "windows9-64", "windows8", "windows8-64", "windows7",
               "windows7-64", "otherlinux", "other-64"} \cup (GuestOsChoices \ {"auto"})

Entry == [nfields : {1, 9}, pw : {"", "!", "*", "!!", "!hash", "hash", "newpwd"}]
Account == [len : {0, 4, 20, 24, 56}, bytes : Nat, rev : {1, 2}, pw : {"old", "newpwd"}]

(* Every .vmx line the run writes names a guest type VMware knows and a   *)
(* firmware kind, and the files keep their shape.                         *)
TypeOK ==
    /\ pc \in {"ro", "create_vm", "rw", "done", "raised"}
    /\ ctx_os \in GuestOsIds \cup {"none"}
    /\ is_efi \in BOOLEAN
    /\ vmx \in [guestOS : GuestOsIds, firmware : {"efi", "bios"}] \cup {[guestOS |-> "none", firmware |-> "none"]}
    /\ (vmx.guestOS = "none") = (pc \in {"ro", "create_vm"})
    /\ \A x \in Disks : \A k \in DOMAIN files[x] :
          files[x][k].shadow \in Seq(Entry) /\ files[x][k].sam \in Seq(Account)

\* Spec 4.6: the ESP partition types of each table kind.
HasEsp(x) ==
    \E k \in DOMAIN layout[x].vols :
        layout[x].vols[k].type = IF layout[x].scheme = "gpt"
                                 THEN "C12A7328-F81F-11D2-BA4B-00A0C93EC93B" ELSE "0xEF"

\* The guest types detected on the filesystems of the read-only pass.
Detected ==
    UNION {{DetectOs(layout[x].vols[k]) : k \in {j \in DOMAIN layout[x].vols : layout[x].vols[j].fs # "none"}}
              : x \in Disks} \ {"none"}

(* The .vmx the run writes follows the command line and the disks: an    *)
(* explicit --firmware or --guest-os is kept; with "auto" the firmware is *)
(* EFI exactly when some disk has an ESP (spec 4.6), and the guest type   *)
(* is one detected on a mounted filesystem when there is one, else        *)
(* VMware's other-64.  It takes main.py's choice of plugins, the          *)
(* detection over each disk's read-only pass, before_create_vm and the    *)
(* builder's defaults to get this right.                                  *)
VmxGuestAndFirmware ==
    pc \notin {"ro", "create_vm"} =>
        /\ vmx.firmware = IF opts.firmware # "auto" THEN opts.firmware
                          ELSE IF \E x \in Disks : HasEsp(x) THEN "efi" ELSE "bios"
        /\ IF opts.guest_os # "auto" THEN vmx.guestOS = opts.guest_os
           ELSE IF Detected = {} THEN vmx.guestOS = "other-64"
           ELSE vmx.guestOS \in Detected

\* Spec 4.6: the NT hash is present as an RC4 record (20 bytes, tag 1) or
\* an AES record (56 bytes).
HasNtHash(a) == (a.rev = 1 /\ a.len = 20) \/ (a.rev = 2 /\ a.len = 56)

(* When the writable pass ends, the SAM hive of each writable Windows     *)
(* filesystem has the new password in exactly the accounts with an NT     *)
(* hash, and every V value still has the length its header gives, so the *)
(* in-place write of WindowsRegistryOverridePasswordPlugin overwrites     *)
(* nothing around it; a hive on a read-only mount, or with the plugin off, *)
(* is unchanged.                                                          *)
SamResetExact ==
    pc = "done" =>
        \A x \in Disks : \A k \in DOMAIN layout[x].vols :
            LET v == layout[x].vols[k]
                old == Files0(layout)[x][k].sam
                now == files[x][k].sam
            IN  IF "WindowsRegistryOverridePassword" \in Plugins /\ v.hasSam /\ v.fs = "rw"
                THEN \A j \in DOMAIN old :
                        now[j] = IF HasNtHash(old[j]) THEN [old[j] EXCEPT !.pw = "newpwd"] ELSE old[j]
                ELSE now = old

=============================================================================
