---------------------------- MODULE DiskBuilder ----------------------------
(***************************************************************************)
(* VirtualDiskBuilder.add_part (src/src/diskvm/vm/base.py) and the VMDK   *)
(* descriptor VmdkBuilder.write emits for the extent list                 *)
(* (src/src/diskvm/vm/vmdk.py).                                           *)
(*                                                                         *)
(* Offsets and lengths are in model units; SectorSize is the builder's    *)
(* sector size and VmdkSector the size of the sector VMware counts the    *)
(* "RW <n>" lines in, both in units.  An extent is a record               *)
(* [src, soff, toff, len] (VirtualDiskPart).                              *)
(***************************************************************************)
EXTENDS Integers, Sequences, FiniteSets, SequencesExt

CONSTANTS
    Units,            \* target offsets the virtual disk may have
    SectorSize,       \* VirtualDiskBuilder.sector_size
    VmdkSector,       \* unit of the sector counts of a VMDK extent line
    Parts,            \* the extents callers pass to add_part
    ExistingSources,  \* sources that are a regular file or a block device
    Zero,             \* content of a zero-fill unit
    Malformed,        \* content seen through a descriptor VMware rejects
    MaxCalls          \* bound on the number of add_part calls

ASSUME SectorSize \in Nat \ {0} /\ VmdkSector \in Nat \ {0}
ASSUME MaxCalls \in Nat

VARIABLES
    disk_parts,  \* VirtualDiskBuilder.disk_parts
    result,      \* outcome of the last add_part call
    calls        \* number of add_part calls so far (bounded)

vars == <<disk_parts, result, calls>>

Results == {"none", "ok", "InvalidDiskPart"}

End(p) == p.toff + p.len

-----------------------------------------------------------------------------
(* The five merge cases of add_part, in the order of its if/elif chain.  *)

Disjoint(p, part) ==
    \/ p.toff < part.toff /\ End(p) <= part.toff
    \/ p.toff >= End(part)

Contained(p, part) == p.toff >= part.toff /\ End(p) <= End(part)

TailOverlap(p, part) ==
    p.toff < part.toff /\ part.toff < End(p) /\ End(p) <= End(part)

HeadOverlap(p, part) ==
    part.toff < p.toff /\ p.toff < End(part) /\ End(part) < End(p)

Encloses(p, part) == p.toff < part.toff /\ End(p) > End(part)

\* Length the head-overlap case advances an extent by.
HeadOverlapLen(p, part) == End(p) - End(part)

\* Fault variant: the enclosing extent is kept whole instead of split.
Survivor_nosplit(p, part) ==
    CASE Disjoint(p, part)    -> <<p>>
      [] Contained(p, part)   -> <<>>
      [] TailOverlap(p, part) -> <<[p EXCEPT !.len = part.toff - p.toff]>>
      [] HeadOverlap(p, part) ->
            LET ov == HeadOverlapLen(p, part)
            IN  <<[p EXCEPT !.toff = @ + ov, !.soff = @ + ov, !.len = @ - ov]>>
      [] OTHER                -> <<p>>

\* Fault variant: the tail case subtracts the overlap measured from the
\* end of part instead of from its start.
Survivor_tailmiscount(p, part) ==
    CASE Disjoint(p, part)    -> <<p>>
      [] Contained(p, part)   -> <<>>
      [] TailOverlap(p, part) -> <<[p EXCEPT !.len = @ - (End(part) - p.toff)]>>
      [] HeadOverlap(p, part) ->
            LET ov == HeadOverlapLen(p, part)
            IN  <<[p EXCEPT !.toff = @ + ov, !.soff = @ + ov, !.len = @ - ov]>>
      [] Encloses(p, part)    -> <<[p EXCEPT !.len = part.toff - p.toff]>>
      [] OTHER                -> <<p>>

\* What becomes of an existing extent p, in place, when part is added.
Survivor(p, part) ==
    CASE Disjoint(p, part)    -> <<p>>
      [] Contained(p, part)   -> <<>>
      [] TailOverlap(p, part) -> <<[p EXCEPT !.len = part.toff - p.toff]>>
      [] HeadOverlap(p, part) ->
            LET ov == HeadOverlapLen(p, part)
            IN  <<[p EXCEPT !.toff = @ + ov, !.soff = @ + ov, !.len = @ - ov]>>
      [] Encloses(p, part)    -> <<[p EXCEPT !.len = part.toff - p.toff]>>
      [] OTHER                -> <<p>>

\* Fault variant: the split tail keeps the source offset of the head.
SplitTail_samesoff(p, part) ==
    IF Encloses(p, part)
    THEN <<[p EXCEPT !.len = End(p) - End(part), !.toff = End(part)]>>
    ELSE <<>>

\* The tail copy p2 appended when part lies strictly inside p.
SplitTail(p, part) ==
    IF Encloses(p, part)
    THEN <<[p EXCEPT !.len = End(p) - End(part), !.toff = End(part),
                     !.soff = p.soff + (part.toff - p.toff) + part.len]>>
    ELSE <<>>

\* list.sort(key=target_offset): Python's sort is stable, so extents with
\* equal target offsets keep their relative order.
SortByTarget(s) ==
    LET Rank(i) == 1 + Cardinality({j \in DOMAIN s :
                          s[j].toff < s[i].toff \/ (s[j].toff = s[i].toff /\ j < i)})
    IN  [k \in DOMAIN s |-> s[CHOOSE i \in DOMAIN s : Rank(i) = k]]

\* The extent list after add_part(part): survivors in place, split tails
\* appended during the loop, then part, then the sort.
Merged(dp, part) ==
    SortByTarget(FlattenSeq([i \in DOMAIN dp |-> Survivor(dp[i], part)])
                 \o FlattenSeq([i \in DOMAIN dp |-> SplitTail(dp[i], part)])
                 \o <<part>>)

Aligned(part) ==
    /\ part.toff % SectorSize = 0
    /\ End(part) % SectorSize = 0

-----------------------------------------------------------------------------

Init ==
    /\ disk_parts = <<>>
    /\ result = "none"
    /\ calls = 0

\* add_part(part) for a valid, aligned extent.
AddPart(part) ==
    /\ calls < MaxCalls
    /\ part.src \in ExistingSources
    /\ Aligned(part)
    /\ disk_parts' = Merged(disk_parts, part)
    /\ result' = "ok"
    /\ calls' = calls + 1

\* add_part(part) raising InvalidDiskPartError before touching the list.
AddPartRejected(part) ==
    /\ calls < MaxCalls
    /\ \/ part.src \notin ExistingSources
       \/ ~Aligned(part)
    /\ result' = "InvalidDiskPart"
    /\ calls' = calls + 1
    /\ UNCHANGED disk_parts

Next == \E part \in Parts : AddPart(part) \/ AddPartRejected(part)

Spec == Init /\ [][Next]_vars

-----------------------------------------------------------------------------
(* VmdkBuilder.write: one extent line per part, preceded by a ZERO line  *)
(* whenever the running sector count differs from the part's target.    *)

ZeroRun(n) == [kind |-> "ZERO", count |-> n, src |-> Zero, start |-> 0]

Descriptor(dp) ==
    LET PrevEnd(i) == IF i = 1 THEN 0 ELSE End(dp[i - 1])
        Lines(i) ==
            (IF PrevEnd(i) # dp[i].toff
             THEN <<ZeroRun(dp[i].toff \div SectorSize - PrevEnd(i) \div SectorSize)>>
             ELSE <<>>)
            \o <<[kind |-> "FLAT", count |-> dp[i].len \div SectorSize,
                  src |-> dp[i].src, start |-> dp[i].soff \div SectorSize]>>
    IN  FlattenSeq([i \in DOMAIN dp |-> Lines(i)])

(* How VMware reads a descriptor: lines laid end to end, each counting  *)
(* VmdkSector units; a negative count makes the descriptor malformed.   *)
RunStart(runs, k) ==
    SumFunctionOnSet([j \in DOMAIN runs |-> runs[j].count], 1..(k - 1)) * VmdkSector

ViewOf(runs) ==
    IF \E k \in DOMAIN runs : runs[k].count < 0
    THEN [u \in Units |-> Malformed]
    ELSE [u \in Units |->
            LET ks == {k \in DOMAIN runs :
                         RunStart(runs, k) <= u
                         /\ u < RunStart(runs, k) + runs[k].count * VmdkSector}
            IN  IF ks = {} THEN Zero
                ELSE LET k == CHOOSE k \in ks : TRUE
                     IN  IF runs[k].kind = "ZERO" THEN Zero
                         ELSE <<runs[k].src,
                                runs[k].start * VmdkSector + (u - RunStart(runs, k))>>]

\* The virtual disk the written descriptor describes.
DiskView == ViewOf(Descriptor(disk_parts))

-----------------------------------------------------------------------------
(* Properties *)

TypeOK ==
    /\ disk_parts \in Seq([src : ExistingSources, soff : Nat, toff : Nat, len : Nat \ {0}])
    /\ result \in Results
    /\ calls \in 0..MaxCalls

(* Spec invariant 2: after every add_part the extent list is sorted by    *)
(* target offset, sector aligned and pairwise non-overlapping, so the    *)
(* descriptor VmdkBuilder.write emits never has a negative ZERO run.      *)
ExtentsWellFormed ==
    /\ \A i \in DOMAIN disk_parts : Aligned(disk_parts[i])
    /\ \A i \in 1..(Len(disk_parts) - 1) :
          End(disk_parts[i]) <= disk_parts[i + 1].toff

(* Refinement: the disk described by the VMDK written from the extent     *)
(* list behaves like the last-write-wins map of ExtentMap, whatever the   *)
(* sequence of add_part calls.                                            *)
Abstract == INSTANCE ExtentMap WITH view <- DiskView
AbstractSpec == Abstract!Spec
=============================================================================
