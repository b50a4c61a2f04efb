--------------------------- MODULE MCDiskBuilder ---------------------------
(***************************************************************************)
(* The add_part calls _add_virtual_disk and the on-the-fly-decrypt        *)
(* plugins make for one disk: the whole image, then one plaintext overlay *)
(* per unlocked volume at its partition's offset.  A unit is 256 bytes;   *)
(* sectors are 512 bytes (2 units) for the builder and for VMware.        *)
(***************************************************************************)
EXTENDS DiskBuilder

CONSTANTS img, plain1, plain2, plain3

\* A disk of 14 units: P1 = [2,4) and P3 = [10,14) unlocked to plaintext
\* of their full size (BitLocker, VeraCrypt); P2 = [6,10) to a shorter
\* one (LUKS, whose header is not part of the plaintext).  P3 ends the disk.
MCUnits == 0..13

Whole == [src |-> img,    soff |-> 0, toff |-> 0,  len |-> 14]
O1    == [src |-> plain1, soff |-> 0, toff |-> 2,  len |-> 2]
O2    == [src |-> plain2, soff |-> 0, toff |-> 6,  len |-> 2]
O3    == [src |-> plain3, soff |-> 0, toff |-> 10, len |-> 4]
\* A plaintext device whose size is not a multiple of the sector size.
O2odd == [src |-> plain2, soff |-> 0, toff |-> 6,  len |-> 3]

MCParts == {Whole, O1, O2, O3, O2odd}

\* Two adjacent partitions P1 = [2,4) and P4 = [4,6), both unlocked to a
\* plaintext of their full size: the second overlay starts exactly where
\* the image extent left after the first one starts.
O4 == [src |-> plain2, soff |-> 0, toff |-> 4, len |-> 2]
MCPartsAdjacent == {Whole, O1, O4}

\* An extent X = [4,12) followed by Y = [2,6), which covers the head of X
\* (spec 4.1, merge rule 4).
X == [src |-> img,    soff |-> 0, toff |-> 4, len |-> 8]
Y == [src |-> plain1, soff |-> 0, toff |-> 2, len |-> 4]
MCPartsHeadOverlap == {X, Y}
MCSources == {img, plain1, plain2, plain3}
=============================================================================
