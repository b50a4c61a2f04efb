--------------------------- MODULE MCGuestPlugins ---------------------------
(***************************************************************************)
(* Disks for GuestPlugins.  Each disk is a GPT or MBR table with one or    *)
(* two volumes; a run has two disks, any of the disks below in each place. *)
(***************************************************************************)
EXTENDS GuestPlugins

MCDisks == 1..2

GptEsp == "C12A7328-F81F-11D2-BA4B-00A0C93EC93B"
GptData == "EBD0A0A2-B9E5-4433-87C0-68B6B72699C7"
GptLinux == "0FC63DAF-8483-4772-8E79-3D69D8477DE4"

\* A volume with nothing the plugins look for.
Blank(type, fs) ==
    [type |-> type, fs |-> fs, win |-> "none", amd64 |-> FALSE, passwd |-> FALSE,
     hasShadow |-> FALSE, shadow |-> <<>>, hasSam |-> FALSE, sam |-> <<>>]

Acct(len, rev) == [len |-> len, bytes |-> len, rev |-> rev, pw |-> "old"]
Line(n, pw) == [nfields |-> n, pw |-> pw]

\* A Windows volume: the ProductName prefix, amd64, and its SAM accounts:
\* RC4 and AES hashes, no hash, and the empty records newer Windows keeps.
Windows(type, fs, win, amd64, sam) ==
    [Blank(type, fs) EXCEPT !.win = win, !.amd64 = amd64, !.hasSam = TRUE, !.sam = sam]

\* A Linux root: /etc/passwd, and /etc/shadow with a hash, the locked and
\* disabled forms, an empty password and a blank last line.
Linux(type) ==
    [Blank(type, "rw") EXCEPT !.passwd = TRUE, !.hasShadow = TRUE,
        !.shadow = <<Line(9, "hash"), Line(9, "!"), Line(9, "*"), Line(9, "!!"),
                     Line(9, "!hash"), Line(9, ""), Line(1, "")>>]

Win10 == Windows(GptData, "rw", "Windows 10", TRUE,
                 <<Acct(20, 1), Acct(56, 2), Acct(0, 1), Acct(24, 2), Acct(4, 1)>>)
\* Hibernated: ntfs-3g falls back to a read-only mount.
Win7Hibernated == Windows("0x07", "ro", "Windows 7", FALSE, <<Acct(20, 1)>>)
WinServer == Windows(GptData, "rw", "other", TRUE, <<Acct(56, 2)>>)

MCDiskChoices ==
    {[scheme |-> "gpt", vols |-> <<Blank(GptEsp, "rw"), Win10>>],
     [scheme |-> "gpt", vols |-> <<Blank(GptEsp, "rw"), Linux(GptLinux)>>],
     [scheme |-> "mbr", vols |-> <<Linux("0x83")>>],
     [scheme |-> "mbr", vols |-> <<Blank("0xEF", "rw"), Linux("0x83")>>],
     [scheme |-> "mbr", vols |-> <<Win7Hibernated>>],
     [scheme |-> "gpt", vols |-> <<WinServer, Blank(GptData, "none")>>],
     [scheme |-> "gpt", vols |-> <<Blank(GptData, "rw")>>]}

MCLayouts == [MCDisks -> MCDiskChoices]
=============================================================================
