--------------------------- MODULE MCMountPipeline --------------------------
(***************************************************************************)
(* Disk layouts for MountPipeline.  The main layout has every kind of     *)
(* content the plugins handle: a VeraCrypt-marked ESP in front of a        *)
(* VeraCrypt system partition, LUKS over an LVM physical volume whose     *)
(* group holds a plain and a LUKS logical volume, a physical volume of an *)
(* empty group, a BitLocker volume and a raw partition.                  *)
(***************************************************************************)
EXTENDS MountPipeline

MCNodes == {"esp", "luks1", "pv1", "lvA", "lvB", "luks2", "fsB", "pv2",
            "bl1", "fsC", "vc1", "fsD", "raw"}

MCKind ==
    [n \in MCNodes |->
        CASE n = "esp" -> "vcesp"
          [] n \in {"luks1", "luks2"} -> "luks"
          [] n \in {"pv1", "pv2"} -> "pv"
          [] n = "bl1" -> "bitlocker"
          [] n = "vc1" -> "vcsys"
          [] n = "raw" -> "raw"
          [] OTHER -> "fs"]

MCInner ==
    [n \in MCNodes |->
        CASE n = "luks1" -> "pv1"
          [] n = "luks2" -> "fsB"
          [] n = "bl1" -> "fsC"
          [] n = "vc1" -> "fsD"
          [] OTHER -> n]

MCVGs == {"g1", "g2"}
MCPvVg == [n \in MCNodes |-> IF n = "pv2" THEN "g2" ELSE "g1"]
\* g2 is a volume group with no logical volumes.
MCLVs == [g \in MCVGs |-> IF g = "g1" THEN <<"lvA", "luks2">> ELSE <<>>]
MCPartitions == <<"esp", "luks1", "pv2", "bl1", "vc1", "raw">>

\* --fde-bypass none, auto and the single-plugin choices of main.py, as the
\* mount plugins they register.
MCFdeOptions == {<<>>, <<"bitlocker", "luks", "veracrypt">>, <<"bitlocker">>,
                 <<"luks">>, <<"veracrypt">>}

\* The VeraCrypt system partition in front of its ESP.
MCPartitionsVcFirst == <<"vc1", "esp", "raw">>

\* The umount of the filesystem at the bottom of the LUKS-on-LVM-on-LUKS
\* chain and the unmount of the BitLocker volume may fail on their own.
MCReleaseMayFail == {"fsB", "bl1"}

\* pvdisplay may fail on the raw partition, and every LVM tool on the
\* physical volume inside the LUKS container; nothing fails on pv2.
MCMountMayFail == {"raw", "pv1"}
=============================================================================
