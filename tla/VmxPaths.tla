------------------------------ MODULE VmxPaths ------------------------------
(***************************************************************************)
(* The paths the VMware backend writes and reads (src/src/diskvm/vm/       *)
(* vmware.py and vmdk.py), as pathlib computes them.  A path is the        *)
(* sequence of its parts; an absolute path starts with the part "/", and  *)
(* Path(".") is the empty sequence.  Paths reach the code unresolved:      *)
(* main.py to_path returns Path(value) for the image and for --out-dir.    *)
(***************************************************************************)
EXTENDS Sequences, TLC
LOCAL INSTANCE SequencesExt

CONSTANT Cwd    \* the working directory of the process, an absolute path

IsAbsolute(p) == Len(p) > 0 /\ p[1] = "/"

\* Path.absolute(): a relative path is put under the working directory.
Absolute(p) == IF IsAbsolute(p) THEN p ELSE Cwd \o p

\* PurePath.parent: the path without its last part ("." and "/" are their
\* own parents).
ParentDir(p) == IF Len(p) = 0 \/ p = <<"/">> THEN p ELSE SubSeq(p, 1, Len(p) - 1)

\* PurePath.is_relative_to: same anchor, and the other path's parts lead
\* this one's (every relative path is relative to Path(".")).
IsRelativeTo(p, q) == IsAbsolute(p) = IsAbsolute(q) /\ IsPrefix(q, p)

\* VirtualMachineBuilder.new_disk names the n-th disk "{name}-disk{n}";
\* VmdkBuilder.write puts it in out_dir.
DiskFile(n) == "vm-disk" \o ToString(n) \o ".vmdk"
VmdkPath(out_dir, n) == Append(out_dir, DiskFile(n))

\* VMwareVirtualMachineBuilder.write: out_dir / (name + '.vmx'), and each
\* disk's fileName entry is the VMDK path d.path as written.
VmxPath(out_dir) == Append(out_dir, "vm.vmx")
VmxFileName(out_dir, n) == VmdkPath(out_dir, n)

\* The delta disk a snapshot puts beside the .vmx; VMware then points the
\* disk's fileName entry at it by its bare name.
DeltaFile(n) == "vm-disk" \o ToString(n) \o "-000001.vmdk"

\* VmwareVirtualMachine.disks: a relative fileName is taken relative to
\* the directory of vm.vmx, as the handle holds it.
ResolveDisk(vmx, fileName) ==
    IF IsAbsolute(fileName) THEN fileName ELSE ParentDir(vmx) \o fileName

\* VMware is always handed vm.vmx.absolute() (Vmware.start, snapshot), so
\* it opens a relative fileName under the .vmx's absolute directory.
VmwareOpens(vmx, fileName) == ResolveDisk(Absolute(vmx), fileName)

\* vmrun list: a header line, then the absolute .vmx path of each running VM.
VmrunList(vmx, on) == IF on THEN {Absolute(vmx)} ELSE {}

\* VmdkBuilder.write of a FLAT line: the source is written as its absolute
\* path; when it lies under out_dir the branch meant to make it relative
\* rebinds the loop variable p to a Path, and p.source_offset raises
\* AttributeError.
FlatLineRaises(source, out_dir) == IsRelativeTo(source, out_dir)
=============================================================================
