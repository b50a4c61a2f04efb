----------------------------- MODULE MCKeyTrial ------------------------------
(***************************************************************************)
(* Two candidate master keys; the volume's key is the first, the second  *)
(* or neither.  The retry decorator's num is 10 in the code; 2 retries    *)
(* already give the first, a middle and the last attempt.                *)
(***************************************************************************)
EXTENDS KeyTrial

MCKeys == <<"k1", "k2">>

\* Every tool call the plugins make that can fail, except VeraCrypt's
\* cryptsetup close.
MCFailures == {"open", "pvs", "vgchange", "luks_close", "luksAddKey", "metadata",
               "dislocker", "umount", "pwreset", "header_write"}
====
