----------------------------- MODULE SlotUpdate -----------------------------
(***************************************************************************)
(* The contents of the target disk over a sequence of provisioning jobs:   *)
(* pkg/provision/orchestrator.go (wipe-disks, apply-partition-layout,      *)
(* stream-image, mount-shared-data, write-fstab, install-efi-fallback),    *)
(* pkg/image and pkg/config/ab.go, in the four image modes.                *)
(*                                                                         *)
(* A job writes its image over several partitions, one after the other.    *)
(* Every write can fail, the host can lose power between two of them, the  *)
(* wipe of a failed write can fail too, and a failed job can run again     *)
(* from its checkpoint.  The pipeline around these steps is Pipeline.tla.  *)
(***************************************************************************)
EXTENDS Naturals, FiniteSets

CONSTANTS
    None,
    MaxJobs,    \* provisioning jobs
    MaxTries,   \* calls of stream-image per attempt (RetryPolicy.MaxAttempts)
    MaxFaults   \* power losses, failed wipes and failed cleanups

Slots == {"a", "b"}

ASSUME SlotUpdateAssumption ==
    /\ None \notin Slots
    /\ MaxJobs \in Nat \ {0} /\ MaxTries \in Nat \ {0} /\ MaxFaults \in Nat

Parts == Slots \cup {"esp"}
Modes == {"whole", "partition", "layout", "ab"}

Other(s) == IF s = "a" THEN "b" ELSE "a"

(* The configurations that validateABConfig and validateABPreserveConstraints accept. *)
Configs ==
    {[mode |-> m, preserve |-> FALSE, active |-> None, slot |-> "a", shared |-> FALSE] :
        m \in Modes \ {"ab"}}
    \cup {[mode |-> "ab", preserve |-> FALSE, active |-> None, slot |-> s, shared |-> d] :
        s \in Slots \cup {"inactive"}, d \in BOOLEAN}
    \cup {[mode |-> "ab", preserve |-> TRUE, active |-> s, slot |-> "inactive", shared |-> d] :
        s \in Slots, d \in BOOLEAN}

(* The slot that the job writes. *)
ResolvedTargetSlot(c) ==
    IF c.slot \in Slots THEN c.slot
    ELSE IF c.active = None THEN "a" ELSE Other(c.active)

VARIABLES
    table,      \* partition table on the disk: "none", "image", "layout" or "ab"
    part,       \* partition -> content
    data,       \* shared data partition: [files, marker]
    added,      \* last job whose steps wrote into it, 0 for none
    job,        \* number of the current job, 0 before the first
    cfg,        \* its configuration
    cmd,        \* slot that the kernel command line names, or None
    bad,        \* the downloaded image does not match IMAGE_CHECKSUM
    phase,      \* "idle", "run", "failed", "done", "os", "off"
    pc,         \* step that runs
    tries,      \* calls of stream-image in this attempt
    completed,  \* checkpointed steps
    todo,       \* partitions that stream-image has still to write
    dirty,      \* partitions that it has written to
    current,    \* slot whose system ran last and was not erased, or None
    known,      \* the job declares that slot, or the command line names it
    faults      \* power losses, failed wipes and failed cleanups so far

disk == <<table, part, data, added>>
run == <<pc, tries, completed, todo, dirty>>
vars == <<disk, job, cfg, cmd, bad, phase, run, current, known, faults>>

(* A partition: the job whose image it holds, how much of it, the slot that   *)
(* its ab-slot.env reports, whether its GRUB is configured, and the handoff   *)
(* marker it carries (root slots) or looks for (ESP), 0 for none.             *)
Blank == [job |-> 0, fill |-> "none", env |-> None, grub |-> FALSE, mark |-> 0]
Content == [job : 0 .. MaxJobs, fill : {"none", "part", "whole"}, env : Slots \cup {None},
            grub : BOOLEAN, mark : 0 .. MaxJobs]

Target == ResolvedTargetSlot(cfg)

(* Partitions that the job may write its image to. *)
Written == CASE cfg.mode = "layout" -> {Target}
             [] cfg.preserve -> {Target}
             [] OTHER -> {"esp", Target}

Complete(s) == /\ part[s].fill = "whole"
               /\ part[s].grub
               /\ part[s].env = s \/ table # "ab"

TypeOK ==
    /\ table \in {"none", "image", "layout", "ab"}
    /\ part \in [Parts -> Content]
    /\ data \in [files : {"nofs", "empty", "part", "left", "full"}, marker : BOOLEAN]
    /\ added \in 0 .. MaxJobs
    /\ job \in 0 .. MaxJobs /\ cfg \in Configs /\ cmd \in Slots \cup {None} /\ bad \in BOOLEAN
    /\ phase \in {"idle", "run", "failed", "done", "os", "off"}
    /\ tries \in 0 .. MaxTries /\ todo \subseteq Parts /\ dirty \subseteq Parts
    /\ current \in Slots \cup {None} /\ known \in BOOLEAN /\ faults \in 0 .. MaxFaults

Init ==
    /\ table = "none"
    /\ part = [p \in Parts |-> Blank]
    /\ data = [files |-> "nofs", marker |-> FALSE] /\ added = 0
    /\ job = 0 /\ cfg \in Configs /\ cmd = None /\ bad = FALSE
    /\ phase = "idle" /\ pc = "wipe" /\ tries = 0
    /\ completed = {} /\ todo = {} /\ dirty = {}
    /\ current = None /\ known = TRUE /\ faults = 0

-----------------------------------------------------------------------------
(* Jobs, attempts and steps *)

Steps == <<"wipe", "layout", "stream", "seed", "fstab", "grub", "fallback", "report">>
Position(p) == CHOOSE i \in DOMAIN Steps : Steps[i] = p

(* resumeStateSteps: steps that run again whatever the checkpoint says. *)
RunAgain == {"seed", "grub", "report"}

(* The first step from position i on that the checkpoint does not skip. *)
FirstFrom(i, done) ==
    LET open == {j \in DOMAIN Steps : j >= i /\ (Steps[j] \notin done \/ Steps[j] \in RunAgain)}
    IN  Steps[CHOOSE j \in open : \A k \in open : j <= k]

Running(p) == phase = "run" /\ pc = p

Finish(p) ==
    /\ completed' = completed \cup {p}
    /\ pc' = FirstFrom(Position(p) + 1, completed')
    /\ UNCHANGED <<job, cfg, cmd, phase, known, tries>>

StartAttempt(done) ==
    /\ phase' = "run"
    /\ completed' = done
    /\ pc' = FirstFrom(1, done)
    /\ tries' = 0 /\ todo' = {} /\ dirty' = {}

(* BOOTy boots with the configuration of a new job.  The controller may      *)
(* declare a slot that is no longer the running one; the command line names  *)
(* the running slot only when BOOTy was started from it.                     *)
NewJob ==
    /\ phase \in {"idle", "os", "off", "failed"} /\ job < MaxJobs
    /\ job' = job + 1
    /\ cfg' \in Configs
    /\ cmd' \in IF phase = "os" THEN {None, current} ELSE {None}
    /\ known' = (cfg'.active = current \/ cmd' # None)
    /\ StartAttempt({})
    /\ bad' = FALSE
    /\ UNCHANGED <<disk, current, faults>>

(* Provision is called again after a failure; with BOOTY_RESUME it keeps the *)
(* checkpoint.                                                                *)
Again ==
    /\ phase = "failed"
    /\ \E resume \in BOOLEAN : StartAttempt(IF resume THEN completed ELSE {})
    /\ UNCHANGED <<disk, job, cfg, cmd, bad, current, known, faults>>

(* A step returns an error before it changed the disk. *)
StepFails ==
    /\ phase = "run" /\ pc \notin {"stream", "open", "copy", "verify"}
    /\ phase' = "failed"
    /\ UNCHANGED <<disk, job, cfg, cmd, bad, run, current, known, faults>>

(* The host loses power: the checkpoint in tmpfs is gone. *)
PowerLoss ==
    /\ phase = "run" /\ faults < MaxFaults
    /\ faults' = faults + 1
    /\ phase' = "idle"
    /\ completed' = {}
    /\ UNCHANGED <<disk, job, cfg, cmd, bad, pc, tries, todo, dirty, current, known>>

-----------------------------------------------------------------------------
(* wipe-disks and apply-partition-layout *)

NoData == [files |-> "nofs", marker |-> FALSE]

EmptyDisk ==
    /\ table' = "none"
    /\ part' = [p \in Parts |-> Blank]
    /\ data' = NoData /\ added' = 0

wipeDisks ==
    /\ Running("wipe")
    /\ IF cfg.preserve
         THEN UNCHANGED <<disk, current>>
         ELSE EmptyDisk /\ current' = None
    /\ Finish("wipe")
    /\ UNCHANGED <<bad, todo, dirty, faults>>

(* Mutant of applyPartitionLayout: preserveExisting is not honoured. *)
applyPartitionLayout_Always ==
    /\ Running("layout")
    /\ IF cfg.mode \in {"ab", "layout"}
         THEN /\ table' = cfg.mode
              /\ part' = [p \in Parts |-> Blank]
              /\ data' = IF cfg.shared THEN [NoData EXCEPT !.files = "empty"] ELSE NoData
              /\ added' = 0
         ELSE UNCHANGED disk
    /\ Finish("layout")
    /\ UNCHANGED <<bad, todo, dirty, current, faults>>

applyPartitionLayout ==
    /\ Running("layout")
    /\ IF cfg.mode \in {"ab", "layout"} /\ ~cfg.preserve
         THEN /\ table' = cfg.mode
              /\ part' = [p \in Parts |-> Blank]
              /\ data' = IF cfg.shared THEN [NoData EXCEPT !.files = "empty"] ELSE NoData
              /\ added' = 0
         ELSE UNCHANGED disk
    /\ Finish("layout")
    /\ UNCHANGED <<bad, todo, dirty, current, faults>>

-----------------------------------------------------------------------------
(* stream-image *)

(* Mutant of validateABBootedSlotSignal: the command line is not consulted. *)
validateABBootedSlotSignal_Ignored == TRUE

(* A command line that names a slot must name the declared one. *)
validateABBootedSlotSignal == cmd # None => cmd = cfg.active

(* The declared active slot is not the target, mounts, and reports itself. *)
validateABActiveSlotState ==
    /\ Target # cfg.active
    /\ validateABBootedSlotSignal
    /\ part[cfg.active].fill # "none"
    /\ part[cfg.active].env = cfg.active

(* The table has the generated layout, the shared data partition included. *)
validateABPreserveExistingLayout ==
    cfg.preserve =>
        /\ table = "ab"
        /\ cfg.shared <=> data.files # "nofs"
        /\ validateABActiveSlotState

(* stream-image returned an error; a permanent one is not retried. *)
streamError(permanent) ==
    /\ todo' = {} /\ dirty' = {}
    /\ IF permanent \/ tries' = MaxTries
         THEN phase' = "failed" /\ UNCHANGED pc
         ELSE pc' = "stream" /\ UNCHANGED phase
    /\ UNCHANGED <<job, cfg, cmd, known, completed>>

(* What the copy code tells apart in a source image: its container, whether   *)
(* it has an EFI partition, and whether the root selection finds exactly one. *)
Images == [qcow2 : BOOLEAN, efi : BOOLEAN, root : BOOLEAN]

(* The layout is validated, then the target is prepared: partition mode wipes *)
(* the disk, an update clears the signatures of its slot.                     *)
prepareABTargetSlot ==
    /\ Running("stream")
    /\ tries' = tries + 1
    /\ UNCHANGED <<bad, faults>>
    /\ IF validateABPreserveExistingLayout
         THEN /\ CASE cfg.mode = "partition" -> EmptyDisk
                   [] cfg.preserve -> part' = [part EXCEPT ![Target] = Blank] /\ UNCHANGED <<table, data, added>>
                   [] OTHER -> UNCHANGED disk
              /\ current' = IF cfg.preserve /\ current = Target THEN None ELSE current
              /\ pc' = "open"
              /\ UNCHANGED <<job, cfg, cmd, known, completed, phase, todo, dirty>>
         ELSE streamError(FALSE) /\ UNCHANGED <<disk, current>>

(* The download does not open, or breaks off in the staging area. *)
openSourceFails ==
    /\ Running("open")
    /\ UNCHANGED <<disk, bad, tries, current, faults>>
    /\ streamError(FALSE)

(* An image that needs staging meets IMAGE_STREAM=true or a full tmpfs. *)
stagingFails ==
    /\ Running("open")
    /\ \E img \in Images : img.qcow2 \/ cfg.mode = "partition"
    /\ UNCHANGED <<disk, bad, tries, current, faults>>
    /\ streamError(TRUE)

(* A staged image is verified before anything is written, except on the      *)
(* whole-disk path.                                                           *)
verifiedBeforeWrite(img) ==
    cfg.mode = "partition" \/ (img.qcow2 /\ cfg.mode # "whole")

(* Payload copies need a source root; the other modes copy what there is. *)
selectSourceRootPartition(img) == cfg.mode \in {"ab", "layout"} => img.root

(* The partitions that the image is copied to. *)
abRangeTargets(img) ==
    IF cfg.mode = "ab" /\ ~img.efi THEN Written \ {"esp"} ELSE Written

streamImage ==
    /\ Running("open")
    /\ bad' \in BOOLEAN
    /\ UNCHANGED <<disk, tries, current, faults>>
    /\ \E img \in Images :
         CASE verifiedBeforeWrite(img) /\ bad' -> streamError(TRUE)
           [] ~selectSourceRootPartition(img) -> streamError(FALSE)
           [] OTHER -> /\ pc' = "copy"
                       /\ todo' = abRangeTargets(img)
                       /\ dirty' = {}
                       /\ UNCHANGED <<job, cfg, cmd, known, completed, phase>>

(* The write of a partition begins, and ends; the order is the image's. *)
copyBegins(p) ==
    /\ Running("copy") /\ p \in todo /\ todo \cap dirty = {}
    /\ dirty' = dirty \cup {p}
    /\ part' = [part EXCEPT ![p] = [Blank EXCEPT !.job = job, !.fill = "part"]]
    /\ table' = IF cfg.mode \in {"whole", "partition"} THEN "image" ELSE table
    /\ UNCHANGED <<data, added, job, cfg, cmd, bad, phase, pc, tries, completed, todo, current, known, faults>>

copyEnds(p) ==
    /\ Running("copy") /\ p \in todo \cap dirty
    /\ part' = [part EXCEPT ![p].fill = "whole"]
    /\ todo' = todo \ {p}
    /\ pc' = IF todo' = {} THEN "verify" ELSE pc
    /\ UNCHANGED <<table, data, added, job, cfg, cmd, bad, phase, tries, completed, dirty, current, known, faults>>

(* Mutant of wipeTargets: only the partition written last is wiped. *)
wipeTargets_Last(p) == p \in todo

(* The targets that a failed stream-image wipes: the whole disk, or every     *)
(* partition that it has written to; partition mode wipes at the next try.    *)
wipeTargets(p) ==
    /\ cfg.mode # "partition"
    /\ cfg.mode = "whole" \/ p \in dirty

(* invalidateDirtyABTargets and wipeImageTarget: best effort. *)
streamFails(permanent) ==
    /\ UNCHANGED <<tries, bad, current, data, added>>
    /\ \/ /\ part' = [p \in Parts |-> IF wipeTargets(p) THEN Blank ELSE part[p]]
          /\ table' = IF cfg.mode = "whole" THEN "none" ELSE table
          /\ UNCHANGED faults
       \/ /\ faults < MaxFaults
          /\ faults' = faults + 1
          /\ UNCHANGED <<table, part>>
    /\ streamError(permanent)

copyFails == Running("copy") /\ streamFails(FALSE)

verifyChecksum == ~bad

streamVerified ==
    /\ Running("verify") /\ verifyChecksum
    /\ todo' = {} /\ dirty' = {}
    /\ Finish("stream")
    /\ UNCHANGED <<disk, bad, current, faults>>

streamMismatch == Running("verify") /\ ~verifyChecksum /\ streamFails(TRUE)

-----------------------------------------------------------------------------
(* mount-shared-data: the seed of the shared data partition *)

Seeds == cfg.mode = "ab" /\ cfg.shared /\ ~cfg.preserve

seedDirectoryState ==
    IF data.marker THEN "inProgress"
    ELSE IF data.files \in {"part", "left", "full"} THEN "existing" ELSE "empty"

seedNotNeeded ==
    /\ Running("seed")
    /\ ~Seeds \/ seedDirectoryState = "existing"
    /\ Finish("seed")
    /\ UNCHANGED <<disk, bad, todo, dirty, current, faults>>

(* An interrupted seed is cleaned away, then the marker announces a new one. *)
seedBegins ==
    /\ Running("seed") /\ Seeds /\ seedDirectoryState # "existing"
    /\ data' = [files |-> "empty", marker |-> TRUE]
    /\ pc' = "seedCopy"
    /\ UNCHANGED <<table, part, added, job, cfg, cmd, bad, phase, tries, completed, todo, dirty,
                   current, known, faults>>

(* cleanInterruptedSeed removes the entries in the order of their names, the   *)
(* marker among the first; an error leaves the others without it.              *)
cleanFails ==
    /\ Running("seed") /\ Seeds /\ seedDirectoryState = "inProgress" /\ faults < MaxFaults
    /\ data' = [files |-> "left", marker |-> FALSE]
    /\ phase' = "failed"
    /\ faults' = faults + 1
    /\ UNCHANGED <<table, part, added, job, cfg, cmd, bad, run, current, known>>

(* The tree is copied: some of it, then all of it. *)
seedCopies ==
    /\ Running("seedCopy")
    /\ data' = [data EXCEPT !.files = IF @ = "empty" THEN "part" ELSE "full"]
    /\ pc' = IF data.files = "empty" THEN pc ELSE "seedUnmark"
    /\ UNCHANGED <<table, part, added, job, cfg, cmd, bad, phase, tries, completed, todo, dirty,
                   current, known, faults>>

removeSeedInProgressMarker ==
    /\ Running("seedUnmark")
    /\ data' = [data EXCEPT !.marker = FALSE]
    /\ completed' = completed \cup {"seed"}
    /\ pc' = FirstFrom(Position("seed") + 1, completed')
    /\ UNCHANGED <<table, part, added, job, cfg, cmd, bad, phase, tries, todo, dirty, current,
                   known, faults>>

-----------------------------------------------------------------------------
(* The boot configuration of the slot and of the shared ESP *)

(* mount-shared-data has mounted the partition read-write, on /var unless      *)
(* configured otherwise.  The steps after it write there: system extensions,   *)
(* prepulled images, the serial console artifact, the cloud-init seed.         *)
MayAdd == added' \in IF cfg.mode = "ab" /\ cfg.shared THEN {added, job} ELSE {added}

(* write-fstab ends with writeABSlotState: the slot reports itself. *)
writeABSlotState ==
    /\ Running("fstab")
    /\ part' = IF cfg.mode = "ab" THEN [part EXCEPT ![Target].env = Target] ELSE part
    /\ Finish("fstab")
    /\ MayAdd
    /\ UNCHANGED <<table, data, bad, todo, dirty, current, faults>>

(* root= of the slot goes into its GRUB defaults. *)
configureGRUB ==
    /\ Running("grub")
    /\ part' = [part EXCEPT ![Target].grub = TRUE]
    /\ Finish("grub")
    /\ MayAdd
    /\ UNCHANGED <<table, data, bad, todo, dirty, current, faults>>

(* Only an initial A/B provisioning writes the marker file into the slot and  *)
(* the loader that searches for it into the ESP.                              *)
installEFIFallbackLoader ==
    /\ Running("fallback")
    /\ part' = IF cfg.mode = "ab" /\ ~cfg.preserve
                THEN [part EXCEPT ![Target].mark = job, !["esp"].mark = job]
                ELSE part
    /\ Finish("fallback")
    /\ MayAdd
    /\ UNCHANGED <<table, data, bad, todo, dirty, current, faults>>

reportSuccess ==
    /\ Running("report")
    /\ phase' = "done"
    /\ UNCHANGED <<disk, job, cfg, cmd, bad, run, current, known, faults>>

-----------------------------------------------------------------------------
(* What starts *)

(* Slots that the firmware reaches through the ESP: the loader of an initial  *)
(* A/B provisioning looks for its marker, any other boots its own image.      *)
Firmware ==
    CASE table = "none" -> {}
      [] table \in {"image", "layout"} -> {s \in {"a"} : part[s].fill # "none"}
      [] OTHER -> IF part["esp"].mark # 0
                   THEN {s \in Slots : part[s].mark = part["esp"].mark}
                   ELSE {s \in Slots : part[s].job = part["esp"].job /\ part[s].fill # "none"}

boot ==
    /\ current' \in IF Firmware = {} THEN {None} ELSE Firmware
    /\ phase' = IF current' = None THEN "off" ELSE "os"
    /\ UNCHANGED <<disk, job, cfg, cmd, bad, run, known, faults>>

kexecHandoff ==
    /\ phase = "done"
    /\ current' = Target
    /\ phase' = "os"
    /\ UNCHANGED <<disk, job, cfg, cmd, bad, run, known, faults>>

(* RequiresABKexec: without kexec an update powers off instead. *)
rebootHandoff == phase = "done" /\ ~cfg.preserve /\ boot

powerOff ==
    /\ phase = "done" /\ cfg.preserve
    /\ phase' = "off"
    /\ UNCHANGED <<disk, job, cfg, cmd, bad, run, current, known, faults>>

(* A reboot of the installed system, or of BOOTy after a failure. *)
rebootHost == phase \in {"os", "failed"} /\ boot

Next ==
    \/ NewJob \/ Again \/ StepFails \/ PowerLoss
    \/ wipeDisks \/ applyPartitionLayout
    \/ prepareABTargetSlot \/ openSourceFails \/ stagingFails \/ streamImage \/ copyFails \/ streamVerified \/ streamMismatch
    \/ \E p \in Parts : copyBegins(p) \/ copyEnds(p)
    \/ seedNotNeeded \/ seedBegins \/ cleanFails \/ seedCopies \/ removeSeedInProgressMarker
    \/ writeABSlotState \/ configureGRUB \/ installEFIFallbackLoader \/ reportSuccess
    \/ kexecHandoff \/ rebootHandoff \/ powerOff \/ rebootHost

Spec == Init /\ [][Next]_vars

-----------------------------------------------------------------------------
(* Properties *)

(* The disk as SlotSpec sees it. *)
Abs == INSTANCE SlotSpec WITH
    Versions <- 1 .. MaxJobs,
    root <- [s \in Slots |-> IF Complete(s) THEN part[s].job ELSE 0],
    current <- IF current # None /\ Complete(current) THEN current ELSE None

(* Whatever fails or loses power in between, slots change from one complete   *)
(* installation to none to another, and an update that knows the running slot *)
(* (by AB_ACTIVE_SLOT or by root= on the command line) leaves it alone.       *)
ImplementsSlotSpec == Abs!Spec

(* A failed stream-image leaves nothing of its image that could boot, and a   *)
(* job never succeeds with an image that does not match IMAGE_CHECKSUM.       *)
NoBadImageLeft ==
    /\ phase = "done" => ~bad
    /\ phase = "failed" /\ pc \in {"stream", "open", "copy", "verify"} /\ cfg.mode # "partition" /\ faults = 0
        => \A p \in Parts : part[p].job = job => part[p].fill = "none"

(* An initial system-ab provisioning that succeeds has seeded the shared data *)
(* completely, also when an earlier attempt was interrupted in the copy.  The *)
(* exception is a cleanup that itself failed: what it left counts as content. *)
SeedIsWhole ==
    phase = "done" /\ Seeds => data.files \in {"full", "left"} /\ ~data.marker

(* An update (preserveExisting) changes no partition but its target slot: not  *)
(* the table, the shared ESP or the other slot.  The shared data it neither    *)
(* formats nor seeds; its own files appear there only once the target slot     *)
(* holds its whole, verified image, so a failed download or copy leaves the    *)
(* running system's shared data as it was.                                     *)
UpdateTouchesOnlyTarget ==
    [][phase = "run" /\ cfg.preserve =>
        /\ UNCHANGED <<table, data>>
        /\ \A p \in Parts \ {Target} : part'[p] = part[p]
        /\ added' # added => /\ cfg.shared /\ added' = job /\ ~bad
                             /\ part[Target].job = job /\ part[Target].fill = "whole"]_vars

(* A stale AB_ACTIVE_SLOT cannot wipe the slot that runs. *)
StaleActiveSlotIsHarmless ==
    [][phase = "run" /\ cfg.preserve /\ current # None /\ Complete(current)
        => part'[current] = part[current]]_vars

(* While an update runs, the firmware boot path points at the active slot. *)
FirmwareStartsActiveSlot ==
    phase = "run" /\ cfg.preserve /\ known /\ current # None /\ Complete(current)
        => current \in Firmware

(* Whatever step failed or lost power, a run that reports success has left   *)
(* no partition with a bad image, and a seeded directory is whole.           *)
InstallsAreWhole == NoBadImageLeft /\ SeedIsWhole
=============================================================================
