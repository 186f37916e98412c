------------------------------- MODULE Storage -------------------------------
(***************************************************************************)
(* The block devices under a run of BOOTy: pkg/disk (manager.go, wipe.go,  *)
(* inuse.go, mirror.go, nvme.go, lvm.go) and the storage steps of          *)
(* pkg/provision (orchestrator.go, mirror.go, deprovision.go).             *)
(*                                                                         *)
(* A disk is what BOOTy can tell of it: its partition table, its data and  *)
(* the member labels of devices that are not assembled.  A table or data   *)
(* has the number of the installation that wrote it, 0 for what the host   *)
(* had before.  An MD array or volume group is the set of its members.     *)
(***************************************************************************)
EXTENDS Integers, Sequences, FiniteSets

CONSTANTS
    Order,      \* the disks as a sequence, DetectDisk prefers a later one
    Pair,       \* the two disks of equal size, in the order of DetectMirrorPair
    Raids,      \* the configured arrays, each [name, members]
    Namespaces, \* the disk whose NVMe controller gets a namespace layout
    Holds,      \* disks with a file system that the ramdisk itself may have mounted, or NoDisk
    Labels,     \* the member labels the disks may have at first
    Jobs,       \* the configurations a run may have
    MaxRuns,    \* bound on the runs, retries and resumes included
    MaxFaults,  \* bound on the commands that fail
    MaxTries    \* MaxRetries of the retried steps

NoDisk == "none"
Root == "md2"
MdBoot == "md1"
VG == "vg"
RaidNames == {Raids[i].name : i \in DOMAIN Raids}
MD == {Root, MdBoot} \cup RaidNames
MdArrays == MD \cup {VG}
HostDisks == {Order[i] : i \in DOMAIN Order}
Gone == -1      \* no partition table; erased data
Partial == -2   \* the part of an image that was written before the stream broke

ASSUME StorageAssumption ==
    /\ Pair \in HostDisks \X HostDisks /\ Pair[1] # Pair[2]
    /\ \A i \in DOMAIN Raids : Raids[i].members \subseteq HostDisks
    /\ Namespaces \in HostDisks /\ Holds \subseteq HostDisks \cup {NoDisk}
    /\ Labels \subseteq [HostDisks -> SUBSET MdArrays]
    /\ MaxRuns \in Nat /\ MaxFaults \in Nat /\ MaxTries \in Nat
    /\ Jobs \subseteq
        [mode : {"provision", "hard", "decommission"},
         device : HostDisks \cup {NoDisk} \cup RaidNames,   \* DISK_DEVICE, deprovision.device
         create : {"none", "raid", "nvme"},     \* provision.disk.raid, nvmeNamespaces
         mirror : BOOLEAN,                      \* DISK_MIRRORING_MODE=auto
         boot : BOOLEAN,                        \* the image has a separate /boot
         lvm : BOOLEAN,                         \* the layout puts root on a logical volume
         wipeAll : BOOLEAN, secure : BOOLEAN, fallback : BOOLEAN, quick : BOOLEAN,
         clearAll : BOOLEAN,                    \* RAID_SUPERBLOCK_CLEAR=all
         resume : BOOLEAN]                      \* BOOTY_RESUME

VARIABLES
    hw,         \* [disk, md]: what is on the disks, the assembled arrays
    present,    \* the disks the kernel shows
    held,       \* the disk that the ramdisk itself has mounted, or NoDisk
    root,       \* device mounted at newroot, or NoDisk
    job, run,   \* configuration and number of this run
    gen,        \* number of this installation
    result,     \* "idle", "run", "failed", "ok"
    step,       \* index of the step that runs
    open,       \* the step has begun
    devices,    \* devices the step has yet to handle, in order
    failures,   \* attempts of the step that failed
    done,       \* completed steps of the checkpoint
    sel,        \* targetDisk, mirrorDisk, rootPartition, resumeMirrorPair
    wipe,       \* disks wiped, skipped, wiped instead of erased, not cleared, too late, unseen; kind of error
    faults,     \* commands that failed
    astray      \* a volume group of another disk took the root volume

ctl == <<job, run, gen, result, step, open, devices, failures, done>>
vars == <<hw, present, held, root, ctl, sel, wipe, faults, astray>>

-----------------------------------------------------------------------------
(* What the tools do to the disks *)

OnDisk(h, d) == {a \in MdArrays : d \in h.md[a]}
Below(h, dev) ==
    CASE dev \in HostDisks -> {dev} [] dev \in MdArrays -> h.md[dev] [] OTHER -> {}

(* mdadm --stop, vgchange -an: the labels of the members stay. *)
StopArrays(h, as) ==
    [disk |-> [d \in HostDisks |->
                [h.disk[d] EXCEPT !.stale = @ \cup (OnDisk(h, d) \cap as)]],
     md |-> [a \in MdArrays |-> IF a \in as THEN {} ELSE h.md[a]]]

(* The labels that lsblk shows: a configured array has whole disks as members, *)
(* every other label is on a partition, which only a partition table shows.    *)
Shown(h, d) == h.disk[d].stale \cap (IF h.disk[d].table = Gone THEN RaidNames ELSE MdArrays)

(* ClearRAIDSuperblocks: lsblk finds the members, and it goes on after a member *)
(* that it can not zero.                                                        *)
ClearRAIDSuperblocks(h, ds, kept) ==
    [h EXCEPT !.disk = [d \in HostDisks |->
        IF d \in ds \ kept THEN [@[d] EXCEPT !.stale = @ \ (MD \cap Shown(h, d))] ELSE @[d]]]

(* Mutant of markBusy: the devices below an array are not marked. *)
markBusy_NoSlaves(h, dev) == {dev} \cap HostDisks

(* markBusy: a mounted device and everything below it. *)
markBusy(h, dev) == Below(h, dev)

(* busyDevices, from the mounts of newroot and of the ramdisk. *)
busyDevices(h) == markBusy(h, root) \cup markBusy(h, held)

(* wipeDevice of disk d: a thorough wipe stops the holders and clears the labels *)
(* that lsblk shows; a quick one, and one whose lsblk failed, clears the table   *)
(* and the label of the whole disk.                                             *)
wipeDevice(h, d, blind) ==
    IF job.quick \/ blind
    THEN [h EXCEPT !.disk[d].table = Gone, !.disk[d].stale = @ \ RaidNames]
    ELSE LET s == StopArrays(h, OnDisk(h, d))
         IN [s EXCEPT !.disk[d].table = Gone, !.disk[d].stale = @ \ Shown(s, d)]

(* secureEraseNVMe, secureEraseATA, secureEraseSCSI *)
Erased(h, d) ==
    [StopArrays(h, OnDisk(h, d)) EXCEPT !.disk[d] = [table |-> Gone, data |-> Gone, stale |-> {}]]

(* deleteAllNamespaces, then CreateNVMeNamespace: nothing looks at the mounts. *)
applyControllerLayout(h, d) == Erased(h, d)

(* The image on dev; a write through an array reaches its members. *)
WrittenTo(h, dev, table, data) ==
    [h EXCEPT !.disk = [d \in HostDisks |->
        IF d \in Below(h, dev) THEN [@[d] EXCEPT !.table = table, !.data = data] ELSE @[d]]]

-----------------------------------------------------------------------------
(* Steps, retries and resumes *)

provisionSteps == <<
    "release-stale-mounts", "disable-lvm", "stop-raid", "setup-nvme-namespaces", "setup-raid",
    "detect-disk", "wipe-disks", "apply-partition-layout", "stream-image", "parse-partitions",
    "mirror-root", "mount-root", "teardown-chroot", "report-success">>

resumeStateSteps == {"release-stale-mounts", "detect-disk", "parse-partitions", "mirror-root",
                     "mount-root", "teardown-chroot"}

deprovisionSteps(mode) ==
    IF mode = "decommission" THEN <<"disable-lvm", "stop-raid", "wipe-disks", "report-success">>
    ELSE <<"select-deprovision-disk", "disable-lvm", "stop-raid", "wipe-disks", "report-success">>

DefaultPolicies == {"setup-raid", "stream-image", "detect-disk"}

Steps == IF job.mode = "provision" THEN provisionSteps ELSE deprovisionSteps(job.mode)
At(s) == result = "run" /\ Steps[step] = s
Begun(s) == At(s) /\ open
Entered(s) == At(s) /\ ~open

(* Provision skips the completed steps that a resume need not repeat. *)
NextStep(i, cp) ==
    CHOOSE j \in i .. Len(Steps) :
        /\ Steps[j] \notin cp \/ Steps[j] \in resumeStateSteps
        /\ \A k \in i .. j - 1 : Steps[k] \in cp \ resumeStateSteps

(* executeStep: the step worked. *)
Passes ==
    /\ done' = done \cup {Steps[step]}
    /\ step' = NextStep(step + 1, done)
    /\ open' = FALSE /\ devices' = <<>> /\ failures' = 0
    /\ UNCHANGED <<job, run, gen, result>>

(* executeStep, WithRetry: the step failed. *)
Ends ==
    /\ open' = FALSE /\ devices' = <<>>
    /\ \/ /\ job.mode = "provision" /\ Steps[step] \in DefaultPolicies /\ failures < MaxTries
          /\ failures' = failures + 1 /\ UNCHANGED result
       \/ /\ ~ (job.mode = "provision" /\ Steps[step] \in DefaultPolicies /\ failures < MaxTries)
          /\ failures' = 0 /\ result' = "failed"
    /\ UNCHANGED <<job, run, gen, step, done>>

(* The step begins to work on the devices of queue q, or takes the next one. *)
Opens(q) == devices' = q /\ open' = TRUE /\ UNCHANGED <<job, run, gen, result, step, failures, done>>
Continues == Opens(Tail(devices))

(* A command fails. *)
StorageFault == faults < MaxFaults /\ faults' = faults + 1

(* A step that fails at its first command; decommission only logs the stops. *)
StepErrs ==
    /\ result = "run" /\ ~open /\ Steps[step] # "report-success"
    /\ ~ (job.mode = "decommission" /\ Steps[step] \in {"disable-lvm", "stop-raid"})
    /\ StorageFault /\ Ends
    /\ UNCHANGED <<hw, present, held, root, sel, wipe, astray>>

releaseStaleTargetMounts ==
    /\ Entered("release-stale-mounts")
    /\ root' = NoDisk /\ Passes
    /\ UNCHANGED <<hw, present, held, sel, wipe, faults, astray>>

(* DisableLVM: a mounted volume keeps its group active. *)
disableLVM ==
    /\ Entered("disable-lvm")
    /\ \/ root # VG /\ hw' = StopArrays(hw, {VG}) /\ Passes
       \/ /\ root = VG /\ UNCHANGED hw
          /\ IF job.mode = "decommission" THEN Passes ELSE Ends
    /\ UNCHANGED <<present, held, root, sel, wipe, faults, astray>>

(* The disks on which stop-raid zeroes the superblocks. *)
StopRAIDScope ==
    CASE job.mode = "provision" -> IF job.clearAll THEN present ELSE {}
      [] job.mode = "hard" -> IF sel.target = NoDisk THEN present
                              ELSE {sel.target, sel.mirror} \cap present
      [] OTHER -> {}

(* The disks with a superblock on a partition of a table that is already gone. *)
Unseen(h, ds) == {d \in ds : ~ (h.disk[d].stale \cap MD \subseteq Shown(h, d))}

(* Superblocks of h on ds are zeroed, at most on one disk it fails. *)
Clears(h, ds) ==
    \/ /\ hw' = ClearRAIDSuperblocks(h, ds, {})
       /\ wipe' = [wipe EXCEPT !.unseen = @ \cup Unseen(h, ds)]
       /\ UNCHANGED faults
    \/ /\ StorageFault
       /\ \E d \in ds :
            /\ hw' = ClearRAIDSuperblocks(h, ds, {d})
            /\ wipe' = [wipe EXCEPT !.kept = @ \cup {d}, !.unseen = @ \cup Unseen(h, ds)]

(* stopRAID, stopRAIDForDeprovision and the stop of decommissionWipe: a mounted *)
(* array can not be stopped.                                                   *)
stopRAID ==
    /\ Entered("stop-raid")
    /\ \/ root \notin MD /\ Clears(StopArrays(hw, MD), StopRAIDScope) /\ Passes
       \/ /\ root \in MD /\ hw' = StopArrays(hw, MD \ {root})
          /\ IF job.mode = "decommission" THEN Passes ELSE Ends
          /\ UNCHANGED <<faults, wipe>>
    /\ UNCHANGED <<present, held, root, sel, astray>>

(* The new namespace becomes DISK_DEVICE when none is configured. *)
setupNVMeNamespaces ==
    /\ Entered("setup-nvme-namespaces")
    /\ \/ job.create # "nvme" /\ UNCHANGED <<hw, faults, sel>> /\ Passes
       \/ /\ job.create = "nvme"
          /\ hw' = applyControllerLayout(hw, Namespaces)
          /\ \/ StorageFault /\ Ends /\ UNCHANGED sel
             \/ /\ Passes /\ UNCHANGED faults
                /\ sel' = [sel EXCEPT !.device = IF @ = NoDisk THEN Namespaces ELSE @]
    /\ UNCHANGED <<present, held, root, wipe, astray>>

-----------------------------------------------------------------------------
(* Wiping one disk *)

(* The wipefs of a quick wipe finds a member of an active array busy. *)
Claimed(d) == job.quick /\ ~job.secure /\ OnDisk(hw, d) # {}

(* The disk d is wiped, or erased when how is "erased". *)
Wipes(d, how) ==
    /\ hw' = IF how = "erased" THEN Erased(hw, d) ELSE wipeDevice(hw, d, how = "blind")
    /\ wipe' = [wipe EXCEPT !.wiped = @ \cup {d},
                            !.plain = IF how = "fallback" THEN @ \cup {d} ELSE @]

(* wipeDevice works, also when its blockTree fails and no array claims the disk. *)
PlainWipe(d) ==
    \/ ~Claimed(d) /\ Wipes(d, "wiped") /\ UNCHANGED faults
    \/ ~job.quick /\ OnDisk(hw, d) = {} /\ StorageFault /\ Wipes(d, "blind")

(* wipeDevice and secureErase with its fallback to a plain wipe. *)
WipeWorks(d) ==
    \/ job.secure /\ Wipes(d, "erased") /\ UNCHANGED faults
    \/ job.secure /\ job.fallback /\ StorageFault /\ Wipes(d, "fallback")
    \/ ~job.secure /\ PlainWipe(d)

(* The wipe of d fails, maybe after it cleared the table. *)
WipeErrs(d) ==
    \/ Claimed(d) /\ UNCHANGED <<hw, faults>>
    \/ /\ StorageFault
       /\ hw' \in {hw, IF job.secure THEN [hw EXCEPT !.disk[d].table = Gone]
                      ELSE wipeDevice(hw, d, FALSE)}

(* WipeDisk, SecureEraseDisk: CheckNotInUse comes first. *)
WipeOne(d) ==
    \/ d \in busyDevices(hw) \cup (HostDisks \ present) /\ Ends /\ UNCHANGED <<hw, faults, wipe>>
    \/ /\ d \in present \ busyDevices(hw)
       /\ \/ WipeWorks(d) /\ Continues
          \/ WipeErrs(d) /\ Ends /\ UNCHANGED wipe

-----------------------------------------------------------------------------
(* setup-raid *)

uniqueRAIDMemberDevices ==
    SelectSeq(Order, LAMBDA d : \E i \in DOMAIN Raids : d \in Raids[i].members)

(* setupRAID wipes the members, then creates the arrays. *)
setupRAID ==
    /\ Entered("setup-raid")
    /\ \/ job.create # "raid" /\ Passes
       \/ /\ job.create = "raid"
          /\ Opens(uniqueRAIDMemberDevices \o [i \in DOMAIN Raids |-> Raids[i].name])
    /\ UNCHANGED <<hw, present, held, root, sel, wipe, faults, astray>>

(* wipeRAIDMemberDevices *)
wipeRAIDMember ==
    /\ Begun("setup-raid") /\ devices # <<>> /\ Head(devices) \in HostDisks
    /\ WipeOne(Head(devices))
    /\ UNCHANGED <<present, held, root, sel, astray>>

(* CreateRAIDArray: mdadm refuses members of another active array. *)
CreateRAIDArray ==
    /\ Begun("setup-raid") /\ devices # <<>> /\ Head(devices) \in MD
    /\ LET a == Head(devices)
           ds == UNION {Raids[i].members : i \in {j \in DOMAIN Raids : Raids[j].name = a}}
       IN \/ /\ \A d \in ds : OnDisk(hw, d) = {}
             /\ hw' = [hw EXCEPT !.md[a] = ds]
             /\ Continues /\ UNCHANGED faults
          \/ (\E d \in ds : OnDisk(hw, d) # {}) /\ Ends /\ UNCHANGED <<hw, faults>>
          \/ StorageFault /\ Ends /\ UNCHANGED hw
    /\ UNCHANGED <<present, held, root, sel, wipe, astray>>

setupRAIDEnds ==
    /\ Begun("setup-raid") /\ devices = <<>>
    /\ Passes
    /\ sel' = [sel EXCEPT !.device = IF @ = NoDisk THEN Raids[1].name ELSE @]
    /\ UNCHANGED <<hw, present, held, root, wipe, faults, astray>>

-----------------------------------------------------------------------------
(* detect-disk *)

(* DetectDisk *)
DetectDisk == Order[CHOOSE i \in DOMAIN Order :
    Order[i] \in present /\ \A j \in DOMAIN Order : Order[j] \in present => j <= i]

Chosen(target, mirror) == sel' = [sel EXCEPT !.target = target, !.mirror = mirror]

(* selectMirrorPair: the checkpoint has the selection of the earlier attempt. *)
useResumeMirrorPair == sel.pair[1] # NoDisk

(* DetectMirrorPair; auto mode falls back to a single disk. *)
DetectsPair == {Pair[1], Pair[2]} \subseteq present

(* detectDisk; the step records the selection in the checkpoint. *)
detectDisk ==
    /\ Entered("detect-disk")
    /\ \/ /\ sel.device # NoDisk
          /\ \/ sel.device \in present \cup {a \in MD : hw.md[a] # {}}
                /\ Chosen(sel.device, NoDisk) /\ Passes
             \/ sel.device \notin present \cup {a \in MD : hw.md[a] # {}}
                /\ Ends /\ UNCHANGED sel
       \/ /\ sel.device = NoDisk /\ job.mirror /\ useResumeMirrorPair
          /\ \/ {sel.pair[1], sel.pair[2]} \subseteq present \cup {NoDisk}
                /\ Chosen(sel.pair[1], sel.pair[2]) /\ Passes
             \/ ~ ({sel.pair[1], sel.pair[2]} \subseteq present \cup {NoDisk})
                /\ Ends /\ UNCHANGED sel
       \/ /\ sel.device = NoDisk /\ job.mirror /\ ~useResumeMirrorPair /\ DetectsPair
          /\ Chosen(Pair[1], Pair[2]) /\ Passes
       \/ /\ sel.device = NoDisk /\ ~ (job.mirror /\ (useResumeMirrorPair \/ DetectsPair))
          /\ Chosen(DetectDisk, NoDisk) /\ Passes
    /\ UNCHANGED <<hw, present, held, root, wipe, faults, astray>>

-----------------------------------------------------------------------------
(* wipe-disks *)

(* usesWipeAllDisks, and a hard deprovision without a target. *)
AllDisks ==
    CASE job.mode = "decommission" -> TRUE
      [] job.mode = "hard" -> sel.target = NoDisk
      [] OTHER -> job.wipeAll /\ job.create # "raid"
BestEffort == job.mode = "decommission" \/ (job.wipeAll /\ AllDisks)

(* Mutant of clearWipedRAIDSuperblocks: the labels stay. *)
clearWipedRAIDSuperblocks_Never(ds) == UNCHANGED <<hw, faults, wipe>>

(* clearWipedRAIDSuperblocks *)
clearWipedRAIDSuperblocks(ds) ==
    Clears(hw, IF job.mode = "provision" /\ ~job.clearAll THEN ds ELSE {})

(* wipeOrSecureEraseDisks up to the wipe of the first disk. *)
wipeOrSecureEraseDisks ==
    /\ Entered("wipe-disks")
    /\ \/ /\ AllDisks /\ sel.target \in busyDevices(hw)
          /\ Ends /\ UNCHANGED <<hw, faults, wipe>>
       \/ /\ AllDisks /\ sel.target \notin busyDevices(hw)
          /\ clearWipedRAIDSuperblocks(present)
          /\ Opens(SelectSeq(Order, LAMBDA d : d \in present))
       \/ /\ ~AllDisks /\ sel.target \in RaidNames
          /\ \/ root = sel.target /\ Ends
             \/ root # sel.target /\ Opens(<<>>)
          /\ UNCHANGED <<hw, faults, wipe>>
       \/ /\ ~AllDisks /\ sel.target \in HostDisks
          /\ clearWipedRAIDSuperblocks({sel.target, sel.mirror} \cap present)
          /\ Opens(SelectSeq(<<sel.target, sel.mirror>>, LAMBDA d : d # NoDisk))
    /\ UNCHANGED <<present, held, root, sel, astray>>

(* wipeTargetDisks *)
wipeTargetDisk ==
    /\ Begun("wipe-disks") /\ ~AllDisks /\ devices # <<>>
    /\ WipeOne(Head(devices))
    /\ UNCHANGED <<present, held, root, sel, astray>>

(* skipInUse: a disk in use is skipped, a check that fails is an error. *)
skipInUse(d) ==
    \/ StorageFault /\ UNCHANGED hw /\ wipe' = [wipe EXCEPT !.err = "check"]
    \/ /\ d \in busyDevices(hw) /\ UNCHANGED <<hw, faults>>
       /\ wipe' = [wipe EXCEPT !.skipped = @ \cup {d}]

(* The error of one disk is kept and the next one follows. *)
KeepsErr(d) == WipeErrs(d) /\ wipe' = [wipe EXCEPT !.err = IF @ = "check" THEN @ ELSE "wipe"]

WipeAllDisks ==
    /\ Begun("wipe-disks") /\ AllDisks /\ (BestEffort \/ ~job.secure) /\ devices # <<>>
    /\ LET d == Head(devices)
       IN \/ skipInUse(d)
          \/ /\ d \notin busyDevices(hw)
             /\ PlainWipe(d) \/ KeepsErr(d)
    /\ Continues
    /\ UNCHANGED <<present, held, root, sel, astray>>

SecureEraseAllDisks ==
    /\ Begun("wipe-disks") /\ AllDisks /\ ~BestEffort /\ job.secure /\ devices # <<>>
    /\ LET d == Head(devices)
       IN \/ skipInUse(d)
          \/ d \notin busyDevices(hw) /\ (WipeWorks(d) \/ KeepsErr(d))
    /\ Continues
    /\ UNCHANGED <<present, held, root, sel, astray>>

(* allDisksResult *)
allDisksResult ==
    IF wipe.err = "none" /\ wipe.wiped = {} /\ wipe.skipped # {} THEN "allInUse" ELSE wipe.err

(* bestEffortWipeAll drops the error of a wipe, the step of a hard deprovision not. *)
wipeEnds ==
    /\ Begun("wipe-disks") /\ devices = <<>>
    /\ IF AllDisks /\ allDisksResult \notin {"none"} \cup (IF BestEffort THEN {"wipe"} ELSE {})
       THEN Ends ELSE Passes
    /\ UNCHANGED <<hw, present, held, root, sel, wipe, faults, astray>>

-----------------------------------------------------------------------------
(* From the layout to the mounted root *)

Labelled(a) == {d \in present : a \in Shown(hw, d) \/ d \in hw.md[a]}

(* applyPartitionLayout, ApplyLVMConfig: pvcreate refuses the old PV that the new *)
(* table shows again; createVolumeGroup takes a group of that name wherever it   *)
(* is; lvcreate may find no room there.                                          *)
applyPartitionLayout ==
    /\ Entered("apply-partition-layout")
    /\ \/ ~job.lvm /\ UNCHANGED <<hw, astray>> /\ Passes
       \/ /\ job.lvm
          /\ LET h == WrittenTo(hw, sel.target, gen, hw.disk[sel.target].data)
                 found == Labelled(VG)
             IN \/ /\ hw' = [h EXCEPT !.md[VG] = IF found = {} THEN {sel.target} ELSE found,
                                     !.disk[sel.target].stale = IF found = {} THEN @ \ {VG} ELSE @]
                   /\ astray' = (found # {})
                   /\ Passes
                \/ /\ found # {} \/ VG \in hw.disk[sel.target].stale
                   /\ hw' = h /\ UNCHANGED astray /\ Ends
    /\ UNCHANGED <<present, held, root, sel, wipe, faults>>

(* streamImage: a broken stream leaves a part of the image. *)
streamImage ==
    /\ Entered("stream-image")
    /\ LET dev == IF job.lvm THEN VG ELSE sel.target
       IN \/ hw' = WrittenTo(hw, dev, gen, gen) /\ Passes /\ UNCHANGED faults
          \/ StorageFault /\ hw' = WrittenTo(hw, dev, gen, Partial) /\ Ends
    /\ UNCHANGED <<present, held, root, sel, wipe, astray>>

(* parsePartitions, parsePartitionsFromLayout *)
parsePartitions ==
    /\ Entered("parse-partitions")
    /\ \/ /\ job.lvm \/ \A d \in Below(hw, sel.target) : hw.disk[d].table # Gone
          /\ sel' = [sel EXCEPT !.rootdev = IF job.lvm THEN VG ELSE sel.target]
          /\ Passes
       \/ /\ ~job.lvm /\ \E d \in Below(hw, sel.target) : hw.disk[d].table = Gone
          /\ Ends /\ UNCHANGED sel
    /\ UNCHANGED <<hw, present, held, root, wipe, faults, astray>>

(* separateBootPartition: an assembled /boot array tells it without a look at the image. *)
separateBootPartition == hw.md[MdBoot] # {} \/ job.boot

(* mirrorRoot: the arrays to make. *)
mirrorRoot ==
    /\ Entered("mirror-root")
    /\ \/ sel.mirror = NoDisk /\ Passes
       \/ sel.mirror # NoDisk /\ Opens(IF separateBootPartition THEN <<Root, MdBoot>> ELSE <<Root>>)
    /\ UNCHANGED <<hw, present, held, root, sel, wipe, faults, astray>>

(* GrowPartition, CheckMirrorTailSpace, ReplicatePartitionTable *)
rootPrepare(h) == [h EXCEPT !.disk[sel.mirror].table = h.disk[sel.target].table]
(* ShrinkFilesystemForMirror, CheckMirrorTailSpace: the file system keeps its content. *)
bootPrepare(h) == h
(* WipeFilesystemSignatures of the partition on the mirror disk. *)
Unsigned(h, a) == [h EXCEPT !.disk[sel.mirror].stale = @ \ {a}]
(* CreateDegradedMirror *)
CreateDegradedMirror(h, a) ==
    [h EXCEPT !.md[a] = {sel.target}, !.disk[sel.target].stale = @ \ {a}]
(* AddMirrorMember; the kernel copies the data. *)
AddMirrorMember(h, a) ==
    [h EXCEPT !.md[a] = @ \cup {sel.mirror}, !.disk[sel.mirror].data = h.disk[sel.target].data]

(* Mutant of mirrorStates: an assembled array is left as it is. *)
mirrorStates_Assembled(a) ==
    IF hw.md[a] # {} THEN <<hw>>
    ELSE LET p == (IF a = Root THEN rootPrepare(hw) ELSE bootPrepare(hw))
             u == Unsigned(p, a)
             c == CreateDegradedMirror(u, a)
         IN <<hw, p, u, c, AddMirrorMember(c, a)>>

(* mirrorPartition, the states it goes through. *)
mirrorStates(a) ==
    IF hw.md[a] # {} THEN <<hw, AddMirrorMember(hw, a)>>
    ELSE LET p == (IF a = Root THEN rootPrepare(hw) ELSE bootPrepare(hw))
             u == Unsigned(p, a)
             c == CreateDegradedMirror(u, a)
         IN <<hw, p, u, c, AddMirrorMember(c, a)>>

(* mirrorPartition fails at one of its commands or gets to the end. *)
mirrorPartition ==
    /\ Begun("mirror-root") /\ devices # <<>>
    /\ LET states == mirrorStates(Head(devices))
       IN \/ hw' = states[Len(states)] /\ Continues /\ UNCHANGED faults
          \/ StorageFault /\ (\E i \in 1 .. Len(states) - 1 : hw' = states[i]) /\ Ends
    /\ UNCHANGED <<present, held, root, sel, wipe, astray>>

mirrorRootEnds ==
    /\ Begun("mirror-root") /\ devices = <<>>
    /\ sel' = [sel EXCEPT !.rootdev = Root]
    /\ Passes
    /\ UNCHANGED <<hw, present, held, root, wipe, faults, astray>>

(* mountRoot; the kernel does not mount a member of an active array. *)
mountRoot ==
    /\ Entered("mount-root")
    /\ \/ sel.rootdev \in HostDisks /\ OnDisk(hw, sel.rootdev) # {} /\ Ends /\ UNCHANGED root
       \/ /\ sel.rootdev \in MdArrays \/ OnDisk(hw, sel.rootdev) = {}
          /\ root' = sel.rootdev /\ Passes
    /\ UNCHANGED <<hw, present, held, sel, wipe, faults, astray>>

(* teardownChroot *)
teardownChroot ==
    /\ Entered("teardown-chroot")
    /\ root' = NoDisk /\ Passes
    /\ UNCHANGED <<hw, present, held, sel, wipe, faults, astray>>

-----------------------------------------------------------------------------
(* Deprovisioning *)

(* mirrorArrayCompanion: the other members of an assembled array on disk d. *)
mirrorArrayCompanion(a, d) == IF d \in hw.md[a] THEN hw.md[a] \ {d} ELSE {}

(* captureMirrorCompanion refuses an array that is not a mirror of two disks. *)
Companions(d) == UNION {mirrorArrayCompanion(a, d) : a \in {Root, MdBoot}}
Refused(d) ==
    \/ \E a \in {Root, MdBoot} : d \in hw.md[a] /\ Cardinality(hw.md[a]) # 2
    \/ Cardinality(Companions(d)) > 1

selectDeprovisionDisk ==
    /\ Entered("select-deprovision-disk")
    /\ LET d == job.device
       IN \/ d = NoDisk /\ Chosen(NoDisk, NoDisk) /\ Passes
          \/ d # NoDisk /\ (d \notin present \/ (job.mirror /\ Refused(d)))
             /\ Ends /\ UNCHANGED sel
          \/ /\ d \in present /\ ~ (job.mirror /\ Refused(d))
             /\ IF job.mirror /\ Companions(d) # {}
                THEN Chosen(d, CHOOSE c \in Companions(d) : TRUE) ELSE Chosen(d, NoDisk)
             /\ Passes
    /\ UNCHANGED <<hw, present, held, root, wipe, faults, astray>>

reportSuccess ==
    /\ Entered("report-success")
    /\ result' = "ok" /\ done' = {}
    /\ UNCHANGED <<hw, present, held, root, job, run, gen, step, open, devices, failures, sel, wipe, faults, astray>>

-----------------------------------------------------------------------------
(* Runs *)

NoWipe == [wiped |-> {}, skipped |-> {}, plain |-> {}, kept |-> {}, late |-> {},
           unseen |-> {}, err |-> "none"]

(* recordCheckpointDerivedState of detect-disk; an attempt that did not get there *)
(* leaves what the checkpoint had.                                                *)
recordedPair == IF sel.target # NoDisk THEN <<sel.target, sel.mirror>> ELSE sel.pair

(* restoreCheckpointDerivedState: what a run knows when it begins. *)
Known(j, cp) ==
    [target |-> NoDisk, mirror |-> NoDisk, rootdev |-> NoDisk,
     device |-> CASE j.device # NoDisk -> j.device
                  [] j.create = "raid" /\ "setup-raid" \in cp -> Raids[1].name
                  [] j.create = "nvme" /\ "setup-nvme-namespaces" \in cp -> Namespaces
                  [] OTHER -> NoDisk,
     pair |-> IF j.device = NoDisk /\ j.mirror /\ "detect-disk" \in cp
              THEN recordedPair ELSE <<NoDisk, NoDisk>>]

(* A run of job j begins, with checkpoint cp; disks may have come or gone. *)
Begins(j, cp) ==
    /\ run < MaxRuns
    /\ run' = run + 1
    /\ gen' = IF j.mode = "provision" /\ cp = {} THEN gen + 1 ELSE gen
    /\ job' = j /\ result' = "run" /\ step' = 1 /\ done' = cp
    /\ sel' = Known(j, cp)
    /\ wipe' = [NoWipe EXCEPT !.kept = IF cp = {} THEN {} ELSE wipe.kept,
                             !.late = IF cp = {} THEN {} ELSE wipe.late,
                             !.unseen = IF cp = {} THEN {} ELSE wipe.unseen]
    /\ open' = FALSE /\ devices' = <<>> /\ failures' = 0
    /\ UNCHANGED <<faults, astray>>

(* The next attempt of a failed provision; BOOTY_RESUME loads the checkpoint. *)
TryAgain ==
    /\ result = "failed" /\ job.mode = "provision"
    /\ Begins(job, IF job.resume THEN done ELSE {})
    /\ present' \in {present} \cup {HostDisks \ {d} : d \in HostDisks}
    /\ UNCHANGED <<hw, held, root>>

(* Standby: another command in the same boot. *)
NextJob ==
    /\ result \in {"failed", "ok"}
    /\ \E j \in Jobs : Begins(j, {})
    /\ UNCHANGED <<hw, present, held, root>>

(* The machine boots the ramdisk: nothing is mounted, and nothing assembles the arrays. *)
BootJob ==
    /\ result \in {"idle", "failed", "ok"}
    /\ \E j \in Jobs : Begins(j, {})
    /\ hw' = StopArrays(hw, MdArrays) /\ root' = NoDisk
    /\ present' \in {HostDisks} \cup {HostDisks \ {d} : d \in HostDisks}
    /\ UNCHANGED held

(* A slow controller shows its disk until waitForDisks has seen the last one. *)
DiskAppears ==
    /\ result = "run" /\ ~open
    /\ \/ job.mode = "provision" /\ "detect-disk" \notin {Steps[i] : i \in 1 .. step - 1}
       \/ Steps[step] = "select-deprovision-disk"
    /\ \E d \in HostDisks \ present :
        /\ present' = present \cup {d}
        /\ wipe' = IF job.clearAll /\ "stop-raid" \in done
                   THEN [wipe EXCEPT !.late = @ \cup {d}] ELSE wipe
    /\ UNCHANGED <<hw, held, root, ctl, sel, faults, astray>>

Init ==
    /\ \E l \in Labels :
        hw = [disk |-> [d \in HostDisks |-> [table |-> 0, data |-> 0, stale |-> l[d]]],
              md |-> [a \in MdArrays |-> {}]]
    /\ present = HostDisks /\ held \in Holds /\ root = NoDisk
    /\ job \in Jobs /\ run = 0 /\ gen = 0 /\ result = "idle" /\ step = 1
    /\ open = FALSE /\ devices = <<>> /\ failures = 0 /\ done = {}
    /\ sel = [target |-> NoDisk, mirror |-> NoDisk, rootdev |-> NoDisk, device |-> NoDisk,
              pair |-> <<NoDisk, NoDisk>>]
    /\ wipe = NoWipe /\ faults = 0 /\ astray = FALSE

StorageNext ==
    \/ StepErrs \/ releaseStaleTargetMounts \/ disableLVM \/ stopRAID \/ setupNVMeNamespaces
    \/ setupRAID \/ wipeRAIDMember \/ CreateRAIDArray \/ setupRAIDEnds
    \/ detectDisk \/ wipeOrSecureEraseDisks \/ wipeTargetDisk \/ WipeAllDisks \/ SecureEraseAllDisks
    \/ wipeEnds
    \/ applyPartitionLayout \/ streamImage \/ parsePartitions
    \/ mirrorRoot \/ mirrorPartition \/ mirrorRootEnds \/ mountRoot \/ teardownChroot
    \/ selectDeprovisionDisk \/ reportSuccess
    \/ TryAgain \/ NextJob \/ BootJob \/ DiskAppears

Spec == Init /\ [][StorageNext]_vars

-----------------------------------------------------------------------------
(* Properties *)

Content(h, d) == <<h.disk[d].table, h.disk[d].data>>
Selected == {sel.target, sel.mirror} \cap HostDisks

(* The disks that the configuration of this run gives it. *)
Granted ==
    CASE AllDisks -> HostDisks
      [] job.create = "raid" -> {uniqueRAIDMemberDevices[i] : i \in DOMAIN uniqueRAIDMemberDevices}
      [] job.create = "nvme" -> Selected \cup {Namespaces}
      [] OTHER -> Selected

(* Only the disks that the configuration selects lose content, and only they *)
(* (or, with RAID_SUPERBLOCK_CLEAR=all, every disk) lose the superblocks of   *)
(* an array they belong to: stop-raid, setup-raid, wipe-disks, the stream and *)
(* mirror-root agree on the disks, over retries, resumes and disks that come  *)
(* and go.  A volume group of the same name on another disk is the exception. *)
OnlySelectedDisksChange ==
    [][astray' \/ \A d \in HostDisks :
        /\ Content(hw', d) # Content(hw, d) => d \in Granted
        /\ ~ (hw.disk[d].stale \subseteq hw'.disk[d].stale \cup OnDisk(hw', d)) =>
              d \in Granted \/ job.clearAll]_vars

(* No step wipes, erases or writes a disk under a mounted file system, be it *)
(* mounted through an array that holds the disk, and be it left by an earlier *)
(* run.  The namespace layout is the exception: it does not look.            *)
BusyDiskKeepsContent ==
    [][\A d \in Below(hw, root) \cup Below(hw, held) :
        Content(hw', d) = Content(hw, d) \/ (job.create = "nvme" /\ d = Namespaces)]_vars

(* A provision that reports success left the image on every disk below the   *)
(* root file system, and every array has all its members: a failed mdadm     *)
(* command, a retry of setup-raid with some arrays made and a resume after   *)
(* the mirror disk came or went leave no half mirror behind a success.       *)
(* A resume that detects its single disk again may take another one.         *)
InstallIsWhole ==
    result = "ok" /\ job.mode = "provision" /\ ~astray
      /\ (~job.resume \/ job.mirror \/ sel.device # NoDisk) =>
        /\ Below(hw, sel.rootdev) # {}
        /\ \A d \in Below(hw, sel.rootdev) \cup Selected : hw.disk[d].data = gen
        /\ sel.mirror # NoDisk =>
              \A a \in {Root} \cup (IF job.boot THEN {MdBoot} ELSE {}) :
                  hw.md[a] = {sel.target, sel.mirror}
        /\ job.create = "raid" =>
              \A i \in DOMAIN Raids : hw.md[Raids[i].name] = Raids[i].members

(* After a provision no disk of the installation carries the superblock of an *)
(* old array, which a restored partition table would bring back.  Three cases *)
(* are known: a zeroing that failed, a disk that came after stop-raid cleared *)
(* all, and a superblock on a partition of a table that an earlier run, or an *)
(* earlier attempt, cleared before: lsblk does not list that partition.       *)
NoOldArrayReturns ==
    result = "ok" /\ job.mode = "provision" /\ job.create = "none" =>
        \A d \in Selected : hw.disk[d].stale \cap MD # {} => d \in wipe.kept \cup wipe.late \cup wipe.unseen

(* A hard deprovision that reports success wiped every disk it covers: with an *)
(* override the disk and its mirror companion, else every disk but the ones it *)
(* names as in use; a disk it names as wiped instead of erased is the only one *)
(* that keeps its data when an erase was asked for.                            *)
HardWipeIsComplete ==
    result = "ok" /\ job.mode = "hard" /\ ~BestEffort =>
        /\ IF sel.target = NoDisk THEN wipe.wiped \cup wipe.skipped = present
           ELSE Selected \subseteq wipe.wiped
        /\ \A d \in wipe.wiped :
              /\ hw.disk[d].table = Gone
              /\ job.secure /\ d \notin wipe.plain => hw.disk[d].data = Gone

(* docs/disk.md:377-379: "Hard deprovision zeroes them on the disks it wipes: *)
(* with a device override the selected disk and its mirror companion".  The   *)
(* companion is known only while the array is assembled.                      *)
CompanionIsCleared ==
    result = "ok" /\ job.mode = "hard" /\ job.device # NoDisk /\ job.mirror =>
        \A d \in present \ wipe.kept : ~ (gen > 0 /\ hw.disk[d].data = gen /\ Root \in hw.disk[d].stale)

(* Nothing of the old installation comes back: neither an array from an old  *)
(* superblock after a provision, nor the data after a hard deprovision.      *)
WipeIsComplete == NoOldArrayReturns /\ HardWipeIsComplete

(* No step touches a disk that is not its own or that is in use.             *)
OtherDisksUntouched == OnlySelectedDisksChange /\ BusyDiskKeepsContent
=============================================================================
