-------------------------------- MODULE Layout --------------------------------
(***************************************************************************)
(* A custom partition layout from the configuration to the fstab of the    *)
(* target: its validation when the configuration is loaded                 *)
(* (pkg/config/partition.go), the checks before the disks are wiped and    *)
(* the steps that apply it (pkg/provision/orchestrator.go), and what       *)
(* pkg/disk/partition.go and lvm.go make of it.                            *)
(*                                                                         *)
(* A disk is a number of MiB, of which the partitions and the logical      *)
(* volumes take their share.  A label, a mount path or a device name is    *)
(* one representative of the strings the checks treat alike.               *)
(***************************************************************************)
EXTENDS Integers, Sequences, FiniteSets, SequencesExt, FiniteSetsExt

CONSTANTS
    LayoutJobs,     \* the configurations, see LayoutAssumption
    DiskMB          \* the size of the disk

MaxPartitions == 128
MaxLVMVolumes == 256
NoVolume == [name |-> "", size |-> 0, extents |-> "", fs |-> "", mp |-> ""]

ASSUME LayoutAssumption ==
    /\ DiskMB \in Nat
    /\ \A j \in LayoutJobs :
        /\ DOMAIN j = {"device", "mode", "table", "layoutDevice", "parts", "vg", "pv",
                       "lvs", "lvmTools", "imageFS"}
        /\ \A i \in DOMAIN j.parts : DOMAIN j.parts[i] = {"label", "size", "typ", "fs", "mp"}
        /\ \A i \in DOMAIN j.lvs : DOMAIN j.lvs[i] = DOMAIN NoVolume

VARIABLES
    lay,        \* the configuration
    lph,        \* the step that runs, or how the run ended
    made,       \* the partitions on the disk, in order
    vols,       \* the logical volumes, in order
    rootDev,    \* o.rootPartition
    fstab,      \* the entries of the target's fstab
    toolFailed  \* history: a command failed for a reason of its own

layoutVars == <<lay, lph, made, vols, rootDev, fstab, toolFailed>>

HasLVM == lay.vg # "none"
Cleaned(mp) == IF mp = "//" THEN "/" ELSE mp
Items == lay.parts \o lay.lvs

-----------------------------------------------------------------------------
(* pkg/config/partition.go: ValidatePartitionLayout *)

isSupportedFilesystem(fs) == fs \in {"", "vfat", "ext4", "xfs", "swap"}

(* absolute, whitespace-free, without "..", on a file system that is not swap *)
validatePartitionMountpoint(p) ==
    p.mp # "" => /\ p.mp \notin {"relative", "/a b", "/../etc"}
                 /\ p.fs \notin {"", "swap"}

(* the checks are the ones of a partition *)
validateLVMVolumeMountpoint(v) == validatePartitionMountpoint(v)

validatePartitionSize(i) ==
    /\ lay.parts[i].size >= 0
    /\ lay.parts[i].size = 0 => i = Len(lay.parts)

validatePartitionLabel(i) ==
    /\ lay.parts[i].label \notin {"", "a/b"}
    /\ \A k \in 1..(i - 1) : lay.parts[k].label # lay.parts[i].label

validatePartitions ==
    /\ \A i \in DOMAIN lay.parts :
        /\ validatePartitionLabel(i)
        /\ validatePartitionMountpoint(lay.parts[i])
        /\ isSupportedFilesystem(lay.parts[i].fs)
        /\ validatePartitionSize(i)
        /\ lay.parts[i].typ # "not-a-guid"
    /\ Cardinality({i \in DOMAIN lay.parts : lay.parts[i].size = 0}) <= 1

isValidLVMName(n) == n \notin {"", ".", "..", "-lv", ".lv", "a/b"}

validateLVMPVPartition ==
    /\ isValidLVMName(lay.vg)
    /\ lay.pv >= 1
    /\ lay.pv <= Len(lay.parts)
    /\ lay.parts[lay.pv].mp = "" /\ lay.parts[lay.pv].fs = ""

(* Only the characters are looked at: "abc" passes. *)
isValidLVMExtents(e) == e # "50 %"

validateLVMVolumeSize(v) ==
    /\ v.size >= 0
    /\ v.extents # "" => v.size = 0 /\ isValidLVMExtents(v.extents)

validateLVMVolume(v) ==
    /\ isValidLVMName(v.name)
    /\ validateLVMVolumeMountpoint(v)
    /\ isSupportedFilesystem(v.fs)
    /\ validateLVMVolumeSize(v)

usesAllRemainingLVMExtents(v) == v.size <= 0 /\ v.extents \in {"", "100%FREE"}

validateLVMConfig ==
    HasLVM =>
        /\ Len(lay.lvs) \in 1..MaxLVMVolumes
        /\ validateLVMPVPartition
        /\ \A i \in DOMAIN lay.lvs :
            /\ validateLVMVolume(lay.lvs[i])
            /\ \A k \in 1..(i - 1) : lay.lvs[k].name # lay.lvs[i].name
            /\ usesAllRemainingLVMExtents(lay.lvs[i]) => i = Len(lay.lvs)

(* The paths are compared as they are written. *)
validateUniqueMountpoints ==
    \A i, k \in DOMAIN Items : Items[i].mp # "" /\ Items[i].mp = Items[k].mp => i = k

validateRootPresence == \E i \in DOMAIN Items : Items[i].mp = "/"

normalizePartitionLayoutDevice == lay.layoutDevice \notin {"sda", "/dev/ sda", "/dev//sda"}

ValidatePartitionLayout ==
    /\ Len(lay.parts) \in 1..MaxPartitions
    /\ lay.table \in {"", "gpt"}
    /\ normalizePartitionLayoutDevice
    /\ validatePartitions
    /\ validateLVMConfig
    /\ validateUniqueMountpoints
    /\ validateRootPresence

-----------------------------------------------------------------------------
(* pkg/provision/orchestrator.go: the checks before the disks are wiped *)

validatePartitionLayoutModeCompatibility == lay.mode \in {"", "whole-disk"}

validateSupportedLayoutMountpoint(mp) == mp \in {"", "/", "/boot/efi"}

validatePartitionLayoutRuntimeSupport ==
    /\ \A i \in DOMAIN Items : validateSupportedLayoutMountpoint(Items[i].mp)
    /\ \A i \in DOMAIN lay.lvs : lay.lvs[i].mp # "/boot/efi"

validatePartitionLayoutConfig ==
    /\ lay.layoutDevice # "" /\ lay.device # "" => lay.device = lay.layoutDevice
    /\ validatePartitionLayoutModeCompatibility
    /\ validatePartitionLayoutRuntimeSupport
    /\ lay.layoutDevice # "/dev/gone"           \* os.Stat: a block device

RequireLVMTools == HasLVM /\ lay.lvs # <<>> => lay.lvmTools

-----------------------------------------------------------------------------
(* pkg/disk/partition.go and lvm.go *)

Total(s) == FoldSeq(LAMBDA x, n : x.size + n, 0, s)

isLVMPVPartition(i) == HasLVM /\ lay.pv = i

resolveTypeGUID(p) ==
    CASE p.typ # "" -> p.typ
      [] p.typ = "" /\ p.fs = "vfat" -> "esp"
      [] p.typ = "" /\ p.fs = "swap" -> "swap"
      [] OTHER -> "linux"

(* buildLVCreateArgs, and what lvcreate takes of n MiB of which m are free. *)
buildLVCreateArgs(v, n, m) ==
    CASE v.extents = "50%VG" -> n \div 2
      [] v.extents = "100%VG" -> n
      [] v.extents = "100%FREE" -> m
      [] v.extents = "" -> IF v.size > 0 THEN v.size ELSE m
      [] OTHER -> 0     \* lvcreate knows no such number of extents

(* sgdisk --new=n:0:+<size>M, or to the end of the disk *)
Room(s, n) == n - Total(s)

To(p) == lph' = p /\ UNCHANGED toolFailed
(* A command that ran fails, for a reason that is not in the configuration. *)
Refuses == lph' = "failed" /\ toolFailed' = TRUE
LayoutDevice(i) == <<"partition", i>>
Volume(i) == <<"volume", i>>

-----------------------------------------------------------------------------
(* The steps *)

LayoutInit ==
    /\ lay \in LayoutJobs
    /\ lph = "load"
    /\ made = <<>>
    /\ vols = <<>>
    /\ rootDev = <<>>
    /\ fstab = {}
    /\ toolFailed = FALSE

(* Load of the configuration *)
Validate ==
    /\ lph = "load"
    /\ To(IF ValidatePartitionLayout THEN "check" ELSE "refused")
    /\ UNCHANGED <<lay, made, vols, rootDev, fstab>>

(* validateProvisionInputs and the head of wipeOrSecureEraseDisks *)
CheckLayout ==
    /\ lph = "check"
    /\ To(IF validatePartitionLayoutConfig /\ RequireLVMTools THEN "create" ELSE "refused")
    /\ UNCHANGED <<lay, made, vols, rootDev, fstab>>

(* ApplyPartitionLayout: the table is zapped, then one sgdisk call per partition *)
(* and partprobe.                                                               *)
ApplyPartitionLayout ==
    /\ lph = "create"
    /\ \/ Refuses /\ UNCHANGED made
       \/ LET i == Len(made) + 1
              p == lay.parts[i]
              free == Room(made, DiskMB)
          IN IF free >= 1 /\ free >= p.size
               THEN /\ made' = Append(made, [label |-> p.label, fs |-> "",
                               size |-> IF p.size > 0 THEN p.size ELSE free,
                               typ |-> IF isLVMPVPartition(i) THEN "lvm" ELSE resolveTypeGUID(p)])
                    /\ To(IF i = Len(lay.parts) THEN "format" ELSE "create")
               ELSE To("failed") /\ UNCHANGED made
    /\ UNCHANGED <<lay, vols, rootDev, fstab>>

(* mkfs of the first n partitions *)
Formatted(n) ==
    [i \in DOMAIN made |->
        IF isLVMPVPartition(i) \/ i > n THEN made[i] ELSE [made[i] EXCEPT !.fs = lay.parts[i].fs]]

(* formatLayoutPartitions: a mkfs may fail. *)
formatLayoutPartitions ==
    /\ lph = "format"
    /\ \/ /\ made' = Formatted(Len(made))
          /\ To(IF HasLVM /\ lay.lvs # <<>> THEN "pv" ELSE "stream")
       \/ \E i \in DOMAIN made :
            /\ ~isLVMPVPartition(i) /\ lay.parts[i].fs # ""
            /\ made' = Formatted(i - 1) /\ Refuses
    /\ UNCHANGED <<lay, vols, rootDev, fstab>>

(* createPhysicalVolume and createVolumeGroup on the partition *)
createPhysicalVolume ==
    /\ lph = "pv"
    /\ \/ lay.lvmTools /\ made' = [made EXCEPT ![lay.pv].fs = "LVM2_member"] /\ To("lvm")
       \/ lay.lvmTools /\ UNCHANGED made /\ Refuses
       \/ ~lay.lvmTools /\ UNCHANGED made /\ To("failed")
    /\ UNCHANGED <<lay, vols, rootDev, fstab>>

(* ApplyLVMConfig: lvcreate and mkfs of the next volume *)
ApplyLVMConfig ==
    /\ lph = "lvm"
    /\ LET i == Len(vols) + 1
           v == lay.lvs[i]
           vgMB == made[lay.pv].size
           free == Room(vols, vgMB)
           take == buildLVCreateArgs(v, vgMB, free)
       IN IF take >= 1 /\ take <= free
            THEN \/ UNCHANGED vols /\ Refuses
                 \/ /\ vols' = Append(vols, [name |-> v.name, size |-> take, fs |-> v.fs])
                    /\ To(IF i = Len(lay.lvs) THEN "stream" ELSE "lvm")
                 \/ /\ vols' = Append(vols, [name |-> v.name, size |-> take, fs |-> ""])
                    /\ v.fs # "" /\ Refuses
            ELSE To("failed") /\ UNCHANGED vols
    /\ UNCHANGED <<lay, made, rootDev, fstab>>

(* resolveRootFromLayout: a logical volume before a partition *)
resolveRootFromLayout ==
    LET lv == {i \in DOMAIN lay.lvs : HasLVM /\ lay.lvs[i].mp = "/"}
        part == {i \in DOMAIN lay.parts : lay.parts[i].mp = "/"}
    IN IF lv # {} THEN Volume(Min(lv)) ELSE LayoutDevice(Min(part))

(* streamPartitionLayoutRootImage: the image brings its own file system. *)
streamPartitionLayoutRootImage ==
    /\ lph = "stream"
    /\ rootDev' = resolveRootFromLayout
    /\ made' = IF rootDev'[1] = "partition" THEN [made EXCEPT ![rootDev'[2]].fs = lay.imageFS]
               ELSE made
    /\ vols' = IF rootDev'[1] = "volume" THEN [vols EXCEPT ![rootDev'[2]].fs = lay.imageFS]
               ELSE vols
    /\ To("fstab")
    /\ UNCHANGED <<lay, fstab>>

(* Mutant of setLayoutRootFilesystem: only the partitions are looked at. *)
setLayoutRootFilesystem_Partitions(item) ==
    IF item.mp = "/" /\ item \in Range(lay.parts) THEN lay.imageFS ELSE item.fs

(* setLayoutRootFilesystem: what the layout says of the root is replaced by what was streamed. *)
setLayoutRootFilesystem(item) == IF item.mp = "/" THEN lay.imageFS ELSE item.fs

(* GenerateFstab, GenerateLVMFstab *)
FstabLine(dev, item) ==
    LET fs == setLayoutRootFilesystem(item)
    IN [spec |-> dev, fs |-> fs, mp |-> IF fs = "swap" THEN "none" ELSE item.mp]

(* PARTLABEL=, which the kernel resolves to the partition with that name *)
partitionFstabSpec(i) == <<"label", lay.parts[i].label>>

GenerateFstab ==
    {FstabLine(partitionFstabSpec(i), lay.parts[i]) :
        i \in {k \in DOMAIN lay.parts : lay.parts[k].mp # "" \/ lay.parts[k].fs = "swap"}}

GenerateLVMFstab ==
    {FstabLine(Volume(i), lay.lvs[i]) :
        i \in {k \in DOMAIN lay.lvs : lay.lvs[k].mp # "" \/ lay.lvs[k].fs = "swap"}}

writeFstab ==
    /\ lph = "fstab"
    /\ fstab' = GenerateFstab \cup IF HasLVM THEN GenerateLVMFstab ELSE {}
    /\ To("done")
    /\ UNCHANGED <<lay, made, vols, rootDev>>

LayoutNext ==
    \/ Validate \/ CheckLayout \/ ApplyPartitionLayout \/ formatLayoutPartitions
    \/ createPhysicalVolume \/ ApplyLVMConfig \/ streamPartitionLayoutRootImage \/ writeFstab

LayoutSpec == LayoutInit /\ [][LayoutNext]_layoutVars

-----------------------------------------------------------------------------
(* Properties *)

(* The MiB an item asks for; one that fills what is left asks for one. *)
Asks(item, n) ==
    CASE item.size > 0 -> item.size
      [] item.size = 0 /\ "extents" \in DOMAIN item /\ item.extents = "50%VG" -> n \div 2
      [] item.size = 0 /\ "extents" \in DOMAIN item /\ item.extents = "100%VG" -> n
      [] OTHER -> 1
AskedFor(s, n) == FoldSeq(LAMBDA x, m : Asks(x, n) + m, 0, s)
TooLarge ==
    \/ AskedFor(lay.parts, DiskMB) > DiskMB
    \/ /\ HasLVM /\ Len(made) = Len(lay.parts)
       /\ \/ AskedFor(lay.lvs, made[lay.pv].size) > made[lay.pv].size
          \/ \E i \in DOMAIN lay.lvs : lay.lvs[i].extents = "50%VG" /\ made[lay.pv].size < 2

(* A number of extents that lvcreate does not know. *)
NoSuchExtents ==
    HasLVM /\ \E i \in DOMAIN lay.lvs : lay.lvs[i].extents \notin {"", "50%VG", "100%VG", "100%FREE"}

(* Once ApplyPartitionLayout has zapped the table, a layout whose commands work fails for two  *)
(* reasons only: what it asks for does not fit on the disk or in the volume group, or it asks  *)
(* lvcreate for extents of which isValidLVMExtents has checked no more than the characters.    *)
(* Every other fault of the configuration, and missing LVM tools, are refused before that.     *)
FailsOnlyForRoom == lph = "failed" => TooLarge \/ NoSuchExtents \/ toolFailed

(* The devices that an fstab line may mean, and the file system on a device. *)
Means(spec) ==
    IF spec[1] = "label" THEN {LayoutDevice(i) : i \in {k \in DOMAIN made : made[k].label = spec[2]}}
    ELSE {spec}
On(dev) == IF dev[1] = "partition" THEN made[dev[2]].fs ELSE vols[dev[2]].fs

(* At the end the fstab of the target is true: every line names exactly one device, with the   *)
(* file system that is on it, no path is mounted twice, the line of "/" is the device that the *)
(* image was streamed to, and the partition below the volumes is a typed physical volume.      *)
FstabIsTrue ==
    lph = "done" =>
        /\ \A l \in fstab : \E dev \in Means(l.spec) : Means(l.spec) = {dev} /\ On(dev) = l.fs
        /\ \A l, m \in fstab : l.mp # "none" /\ Cleaned(l.mp) = Cleaned(m.mp) => l = m
        /\ \A l \in fstab : Cleaned(l.mp) = "/" => rootDev \in Means(l.spec)
        /\ \E l \in fstab : l.mp = "/"
        /\ HasLVM => made[lay.pv].fs = "LVM2_member" /\ made[lay.pv].typ = "lvm"

(* A layout that was accepted fails for its sizes or a command that fails,   *)
(* and one that was made is what the fstab of the target says.               *)
LayoutIsTrue == FailsOnlyForRoom /\ FstabIsTrue
===============================================================================
