----------------------------- MODULE ExtentMap -----------------------------
(***************************************************************************)
(* Abstract specification of the virtual-disk extent builder (spec 4.1):  *)
(* the disk the VM sees is a map from every target unit to the source     *)
(* byte it reads, or to zero fill.  Adding an aligned extent overwrites   *)
(* its target range (last write wins); a misaligned one is rejected and   *)
(* changes nothing.                                                       *)
(***************************************************************************)
EXTENDS Integers

CONSTANTS
    Units,       \* target offsets of the virtual disk, in model units
    SectorSize,  \* the builder's sector size, in model units
    Parts,       \* the extents callers pass to add_part
    Zero         \* content of a unit no extent covers

VARIABLE view

AlignedPart(part) ==
    /\ part.toff % SectorSize = 0
    /\ (part.toff + part.len) % SectorSize = 0

Covers(part, u) == part.toff <= u /\ u < part.toff + part.len

Init == view = [u \in Units |-> Zero]

Write(part) ==
    /\ AlignedPart(part)
    /\ view' = [u \in Units |->
                   IF Covers(part, u) THEN <<part.src, part.soff + (u - part.toff)>>
                                      ELSE view[u]]

Next == \E part \in Parts : Write(part)

Spec == Init /\ [][Next]_view
=============================================================================
