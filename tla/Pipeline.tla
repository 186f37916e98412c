------------------------------ MODULE Pipeline ------------------------------
(***************************************************************************)
(* The provisioning pipeline: pkg/provision/orchestrator.go (Provision,    *)
(* executeStep, the steps), retry.go, checkpoint.go, and the attempts that *)
(* pkg/runmode/provision.go makes.                                         *)
(*                                                                         *)
(* A step is what it needs, what it provides and what it does to the disk. *)
(* What a step provides is a field of the Orchestrator (memory, lost when  *)
(* a new process resumes) or a mount or array (kernel, kept until a        *)
(* reboot).  The checkpoint is a file in the ramdisk.                      *)
(***************************************************************************)
EXTENDS Integers, Sequences, FiniteSetsExt

CONSTANTS
    Disks,          \* raw disks of the host, a higher number is preferred by DetectDisk
    Nics,           \* ConnectX functions, visited in ascending order
    Configs,        \* the machine configs that are explored
    LateDisks,      \* the selections for which a disk may appear between attempts
    FreshStarts,    \* whether BOOTy may be started again in the same boot
    MaxAttempts,    \* bound on the calls of Provision
    StepRetries     \* bound on the retries of a step (DefaultPolicies has 2 to 5)

ASSUME PipelineAssumption ==
    /\ Disks \subseteq Nat \ {0} /\ \E n \in Disks : Disks \subseteq 1 .. n
    /\ Nics \subseteq Nat /\ IsFiniteSet(Nics)
    /\ Configs \subseteq
        [sel : {"configured", "created", "mirror", "detected"},   \* how the target is chosen
         fw : {"set", "raise"},                                   \* NUM_VFS_MODE
         resume : BOOLEAN,                                        \* BOOTY_RESUME
         kexec : BOOLEAN]                                         \* the gates of kexec are open
    /\ LateDisks \subseteq {"mirror", "detected"} /\ FreshStarts \in BOOLEAN
    /\ MaxAttempts \in Nat \ {0} /\ StepRetries \in Nat

None == -1
Array == 0          \* the device that setup-raid or setup-nvme-namespaces creates
Targets == Disks \cup {Array}

-----------------------------------------------------------------------------
(* The steps: name, what must be in place, what it puts in place.          *)
(* "parts" are the partitions parse-partitions found, "rootdev" the root   *)
(* device after mirror-root, "console" the resolved serial console.        *)

Memory == {"parts", "rootdev", "console"}
Mounts == {"root", "boot", "shared", "binds"}
Kernel == Mounts \cup {"efivars", "lvm"}

provisionSteps == <<
    <<"report-init",                  {}, {}>>,
    <<"release-stale-mounts",         {}, {}>>,
    <<"collect-inventory",            {}, {}>>,
    <<"collect-firmware",             {}, {}>>,
    <<"health-checks",                {}, {}>>,
    <<"validate-provision-inputs",    {}, {}>>,
    <<"verify-image",                 {}, {}>>,
    <<"disable-lvm",                  {}, {}>>,
    <<"stop-raid",                    {}, {}>>,
    <<"mount-efivarfs",               {}, {"efivars"}>>,
    <<"remove-efi-entries",           {"efivars"}, {}>>,
    <<"setup-mellanox",               {}, {}>>,
    <<"configure-sriov",              {}, {}>>,
    <<"setup-nvme-namespaces",        {}, {}>>,
    <<"setup-raid",                   {}, {}>>,
    <<"detect-disk",                  {}, {"target"}>>,
    <<"wipe-disks",                   {"target"}, {}>>,
    <<"apply-partition-layout",       {"target"}, {}>>,
    <<"stream-image",                 {"target"}, {}>>,
    <<"partprobe",                    {"target"}, {}>>,
    <<"parse-partitions",             {"target"}, {"parts"}>>,
    <<"mirror-root",                  {"target", "parts"}, {"rootdev"}>>,
    <<"check-filesystem",             {"rootdev"}, {}>>,
    <<"enable-lvm",                   {}, {"lvm"}>>,
    <<"mount-root",                   {"rootdev", "lvm"}, {"root"}>>,
    <<"mount-boot",                   {"parts", "rootdev", "root"}, {"boot"}>>,
    <<"mount-shared-data",            {"target", "root"}, {"shared"}>>,
    <<"configure-overlayfs",          {"root"}, {}>>,
    <<"set-hostname",                 {"root"}, {}>>,
    <<"copy-provisioner-files",       {"root"}, {}>>,
    <<"configure-dns",                {"root"}, {}>>,
    <<"apply-sysexts",                {"root"}, {}>>,
    <<"write-fstab",                  {"target", "rootdev", "root"}, {}>>,
    <<"setup-chroot-binds",           {"root"}, {"binds"}>>,
    <<"grow-partition",               {"target", "rootdev"}, {}>>,
    <<"resize-filesystem",            {"target", "rootdev", "root"}, {}>>,
    <<"configure-mdadm",              {"rootdev", "root", "binds"}, {}>>,
    <<"install-esp-sync",             {"parts", "root"}, {}>>,
    <<"configure-kubelet",            {"root"}, {}>>,
    <<"prepare-oci-prepulls",         {"root"}, {}>>,
    <<"configure-serial-console",     {"root"}, {"console"}>>,
    <<"configure-grub",               {"root", "boot", "binds", "console"}, {}>>,
    <<"install-efi-fallback",         {"target", "rootdev", "boot"}, {}>>,
    <<"verify-secureboot-chain",      {"root", "boot"}, {}>>,
    <<"inject-cloudinit",             {"root"}, {}>>,
    <<"copy-machine-files",           {"root"}, {}>>,
    <<"run-machine-commands",         {"root", "binds"}, {}>>,
    <<"run-post-provision-cmds",      {"root", "binds"}, {}>>,
    <<"create-efi-boot-entry",        {"target", "parts", "efivars"}, {}>>,
    <<"create-mirror-efi-boot-entry", {"target", "parts", "efivars"}, {}>>,
    <<"teardown-chroot",              {}, {}>>,
    <<"report-success",               {}, {}>>
>>

N == Len(provisionSteps)
Index == 1 .. N
Name(i) == provisionSteps[i][1]
Needs(i) == provisionSteps[i][2]
Gives(i) == provisionSteps[i][3]
Names == {Name(i) : i \in Index}

(* Mutant of resumeStateSteps: a resume streams the image again. *)
resumeStateSteps_StreamsAgain == {
    "release-stale-mounts", "validate-provision-inputs", "verify-image", "mount-efivarfs",
    "setup-mellanox", "configure-sriov", "detect-disk", "parse-partitions", "mirror-root",
    "enable-lvm", "mount-root", "mount-boot", "mount-shared-data", "setup-chroot-binds",
    "configure-serial-console", "configure-grub", "teardown-chroot", "stream-image"}

(* Steps that run again on a resume. *)
resumeStateSteps == {
    "release-stale-mounts", "validate-provision-inputs", "verify-image", "mount-efivarfs",
    "setup-mellanox", "configure-sriov", "detect-disk", "parse-partitions", "mirror-root",
    "enable-lvm", "mount-root", "mount-boot", "mount-shared-data", "setup-chroot-binds",
    "configure-serial-console", "configure-grub", "teardown-chroot"}

(* Steps with a retry policy. *)
DefaultPolicies == {
    "report-init", "configure-dns", "stream-image", "setup-raid", "detect-disk", "partprobe",
    "report-success", "create-efi-boot-entry", "create-mirror-efi-boot-entry"}

(* Steps that write the target disk from scratch, in this order. *)
Destructive == {"wipe-disks", "apply-partition-layout", "stream-image"}

(* Steps that must not meet a mounted target. *)
OnUnmounted == Destructive \cup {"check-filesystem"}

(* Steps whose effect is part of the installed system. *)
Installs == Destructive \cup {
    "configure-overlayfs", "set-hostname", "copy-provisioner-files", "configure-dns",
    "apply-sysexts", "write-fstab", "grow-partition", "resize-filesystem", "configure-mdadm",
    "install-esp-sync", "configure-kubelet", "prepare-oci-prepulls", "configure-grub",
    "install-efi-fallback", "inject-cloudinit", "copy-machine-files", "run-machine-commands",
    "run-post-provision-cmds"}

-----------------------------------------------------------------------------
VARIABLES
    cfg,        \* machine config
    present,    \* raw disks the kernel has found
    low,        \* NICs whose NUM_OF_VFS is below NUM_VFS
    phase,      \* "start", "run", "failed", "reset", "done"
    pc,         \* index of the step that runs
    try,        \* retries of that step so far
    attempts,   \* calls of Provision so far
    mem,        \* fields of the Orchestrator that are set
    kern,       \* mounts and devices of the kernel
    device,     \* cfg.Provision.Disk.Device
    pair,       \* resumeMirrorPair
    target,     \* targetDisk
    fwChanged,  \* firmwareChanged
    stored,     \* NICs with a stored value that waits for a hard reset
    cp,         \* the Checkpoint in memory
    file,       \* the checkpoint file, NoCheckpoint when there is none
    content     \* per disk: the steps whose effect it carries

attempt == <<mem, device, pair, target, fwChanged>>
host == <<kern, stored, content>>
vars == <<cfg, present, low, phase, pc, try, attempts, attempt, host, cp, file>>

NoCheckpoint == [completed |-> {}, device |-> None, pair |-> None]

TypeOK ==
    /\ cfg \in Configs
    /\ present \in (SUBSET Disks) \ {{}} /\ low \subseteq Nics
    /\ phase \in {"start", "run", "failed", "reset", "done"}
    /\ pc \in Index /\ try \in 0 .. StepRetries /\ attempts \in 0 .. MaxAttempts
    /\ mem \subseteq Memory /\ kern \subseteq Kernel
    /\ device \in Targets \cup {None} /\ pair \in Disks \cup {None}
    /\ target \in Targets \cup {None}
    /\ fwChanged \in BOOLEAN /\ stored \subseteq low
    /\ {cp, file} \subseteq
        [completed : SUBSET Names, device : {Array, None}, pair : Disks \cup {None}]
    /\ content \in [Targets -> SUBSET Installs]

(* The device the config file names; a fresh process reads it again. *)
ConfiguredDevice == IF cfg.sel = "configured" THEN Min(Disks) ELSE None

Init ==
    /\ cfg \in Configs
    /\ present \in IF cfg.sel \in LateDisks THEN (SUBSET Disks) \ {{}} ELSE {Disks}
    /\ cfg.sel = "configured" => ConfiguredDevice \in present
    /\ low \in SUBSET Nics
    /\ phase = "start" /\ pc = 1 /\ try = 0 /\ attempts = 0
    /\ mem = {} /\ kern = {} /\ device = ConfiguredDevice /\ pair = None /\ target = None
    /\ fwChanged = FALSE /\ stored = {}
    /\ cp = NoCheckpoint /\ file = NoCheckpoint
    /\ content = [d \in Targets |-> {}]

-----------------------------------------------------------------------------
(* Provision: load the checkpoint, then the steps that are not skipped *)

(* The steps from i on that are not skipped. *)
MustRun(i, c) == Name(i) \notin c.completed \/ Name(i) \in resumeStateSteps
Pending(i, c) == {j \in i .. N : MustRun(j, c)}

(* Go on at step i with checkpoint file f, or end the run: cp.Remove, *)
(* whose failure is only logged.                                      *)
Continue(i, c, f) ==
    /\ try' = 0
    /\ \/ /\ Pending(i, c) # {}
          /\ phase' = "run" /\ pc' = Min(Pending(i, c))
          /\ file' = f
       \/ /\ Pending(i, c) = {}
          /\ phase' = "done" /\ pc' = N
          /\ file' \in {NoCheckpoint, f}

Provision ==
    /\ phase = "start" /\ attempts < MaxAttempts
    /\ attempts' = attempts + 1
    /\ cp' = IF cfg.resume THEN file ELSE NoCheckpoint
    /\ pair' = IF device = None /\ cp'.pair # None THEN cp'.pair ELSE pair
    /\ device' = IF device = None /\ cp'.device # None THEN cp'.device ELSE device
    /\ target' = IF device = None /\ cp'.device # None THEN cp'.device ELSE target
    /\ Continue(1, cp', file)
    /\ UNCHANGED <<cfg, present, low, mem, fwChanged, host>>

(* loadOrCreateCheckpoint: the checkpoint can not be read. *)
LoadFails ==
    /\ phase = "start" /\ attempts < MaxAttempts /\ cfg.resume
    /\ attempts' = attempts + 1
    /\ phase' = "failed"
    /\ UNCHANGED <<cfg, present, low, pc, try, attempt, host, cp, file>>

-----------------------------------------------------------------------------
(* The effect of a step *)

Step == Name(pc)
Have == mem \cup kern \cup (IF target = None THEN {} ELSE {"target"})
KeepForKexec == cfg.kexec /\ ~fwChanged

(* detectDisk: a named device, the pair of the checkpoint, or a detection. *)
DetectDisk ==
    CASE device # None -> device
      [] device = None /\ cfg.sel = "mirror" /\ pair # None -> pair
      [] OTHER -> Max(present)

(* What the target keeps of earlier steps when s has begun to write. *)
Kept(s) ==
    CASE s = "wipe-disks" -> {}
      [] s = "apply-partition-layout" -> {"wipe-disks"}
      [] s = "stream-image" -> {"wipe-disks", "apply-partition-layout"}
      [] OTHER -> Installs

(* The content of the disks after step s has written them, done or not. *)
Written(s, done) ==
    CASE s = "setup-raid" /\ cfg.sel = "created" -> [content EXCEPT ![Array] = {}]
      [] s \in Installs /\ target # None ->
            [content EXCEPT ![target] = (@ \cap Kept(s)) \cup (IF done THEN {s} ELSE {})]
      [] OTHER -> content

(* Mutant of Releases: release-stale-mounts does nothing. *)
Releases_KeepsStale(s) ==
    CASE s = "teardown-chroot" /\ ~KeepForKexec -> Mounts
      [] s = "disable-lvm" -> {"lvm"}
      [] OTHER -> {}

(* What the step unmounts or deactivates. *)
Releases(s) ==
    CASE s = "release-stale-mounts" -> Mounts
      [] s = "teardown-chroot" /\ ~KeepForKexec -> Mounts
      [] s = "disable-lvm" -> {"lvm"}
      [] OTHER -> {}

(* setup-mellanox: NUM_VFS_MODE=set writes every NIC, raise only a lower one. *)
setupMellanox ==
    IF Step # "setup-mellanox" THEN UNCHANGED <<fwChanged, stored>>
    ELSE /\ stored' = low
         /\ fwChanged' = (fwChanged \/ IF cfg.fw = "set" THEN Nics # {} ELSE low # stored)

(* Its failure: "set" goes on after an error, "raise" stops at it; both drop *)
(* what they changed before.                                              *)
setupMellanoxFails ==
    /\ UNCHANGED fwChanged
    /\ \/ Step # "setup-mellanox" /\ UNCHANGED stored
       \/ /\ Step = "setup-mellanox" /\ cfg.fw = "set"
          /\ \E written \in SUBSET low : stored' = stored \cup written
       \/ /\ Step = "setup-mellanox" /\ cfg.fw = "raise"
          /\ \E nic \in Nics : stored' = stored \cup {n \in low : n < nic}

(* recordCheckpointDerivedState and MarkStep *)
Marked ==
    [completed |-> cp.completed \cup {Step},
     device |-> IF Step = "setup-raid" /\ cfg.sel = "created" THEN Array ELSE cp.device,
     pair |-> IF Step = "detect-disk" /\ cfg.sel = "mirror" THEN target' ELSE cp.pair]

StepWorks ==
    /\ phase = "run"
    /\ mem' = (mem \ (IF Step = "parse-partitions" THEN {"rootdev"} ELSE {})) \cup (Gives(pc) \cap Memory)
    /\ kern' = (kern \ Releases(Step)) \cup (Gives(pc) \cap Kernel)
    /\ device' = IF Step = "setup-raid" /\ cfg.sel = "created" THEN Array ELSE device
    /\ target' = IF Step = "detect-disk" THEN DetectDisk ELSE target
    /\ content' = Written(Step, TRUE)
    /\ setupMellanox
    /\ cp' = Marked
    /\ UNCHANGED <<cfg, present, low, attempts, pair>>

StepOK ==
    /\ StepWorks
    /\ Continue(pc + 1, cp', IF cfg.resume THEN cp' ELSE file)

(* A checkpoint that can not be saved after a step ends the attempt. *)
SaveFails ==
    /\ cfg.resume /\ StepWorks
    /\ phase' = "failed"
    /\ UNCHANGED <<pc, try, file>>

(* A step that fails may have begun its work. *)
StepErrs ==
    /\ phase = "run"
    /\ content' \in {content, Written(Step, FALSE)}
    /\ kern' \in {kern, kern \ (Releases(Step) \ {"root"}), kern \cup (Gives(pc) \cap Kernel)}
    /\ device' \in {device, IF Step = "setup-raid" /\ cfg.sel = "created" THEN Array ELSE device}
    /\ setupMellanoxFails
    /\ UNCHANGED <<cfg, present, low, attempts, mem, pair, target, cp, pc>>

(* WithRetry *)
StepAgain ==
    /\ StepErrs
    /\ Step \in DefaultPolicies /\ try < StepRetries
    /\ try' = try + 1
    /\ UNCHANGED <<phase, file>>

(* A step without a policy, a permanent error, a canceled or an exhausted retry; *)
(* the checkpoint is saved if that works.                                       *)
StepFails ==
    /\ StepErrs
    /\ phase' = "failed"
    /\ file' \in {file, IF cfg.resume THEN cp ELSE file}
    /\ UNCHANGED try

(* configure-sriov asks for a reboot into the ramdisk: not a failure. *)
RebootRequired ==
    /\ phase = "run" /\ Step = "configure-sriov"
    /\ phase' = "reset"
    /\ UNCHANGED <<cfg, present, low, pc, try, attempts, attempt, host, cp, file>>

-----------------------------------------------------------------------------
(* Between attempts *)

(* RESCUE_MODE=retry: the same Orchestrator provisions again. *)
Retry ==
    /\ phase = "failed"
    /\ phase' = "start"
    /\ UNCHANGED <<cfg, present, low, pc, try, attempts, attempt, host, cp, file>>

NewOrchestrator ==
    /\ mem' = {} /\ device' = ConfiguredDevice /\ pair' = None /\ target' = None
    /\ fwChanged' = FALSE
    /\ cp' = NoCheckpoint
    /\ phase' = "start" /\ pc' = 1 /\ try' = 0

(* BOOTy is started again in the same boot. *)
FreshStart ==
    /\ FreshStarts /\ phase = "failed"
    /\ NewOrchestrator
    /\ UNCHANGED <<cfg, present, low, attempts, host, file>>

(* A reset of the host: the ramdisk and its checkpoint are lost, the stored *)
(* firmware values become active, the disks keep what was written.        *)
Reboot ==
    /\ phase \in {"failed", "reset"}
    /\ NewOrchestrator
    /\ kern' = {} /\ file' = NoCheckpoint
    /\ stored' = {} /\ low' = low \ stored
    /\ UNCHANGED <<cfg, present, attempts, content>>

(* A slow disk. Only detect-disk looks, so its place between attempts is enough. *)
DiskAppears ==
    /\ phase = "failed" /\ cfg.sel \in LateDisks /\ present # Disks
    /\ present' = Disks
    /\ UNCHANGED <<cfg, low, phase, pc, try, attempts, attempt, host, cp, file>>

Run == Provision \/ LoadFails \/ StepOK \/ SaveFails \/ StepAgain \/ StepFails \/ RebootRequired
Next == Run \/ Retry \/ FreshStart \/ Reboot \/ DiskAppears

Spec == Init /\ [][Next]_vars

-----------------------------------------------------------------------------
(* Properties *)

(* Every step that runs finds the fields, mounts and devices it reads, also  *)
(* after a resume that skipped the completed steps (Provision, stateSteps).  *)
NeedsMet == phase = "run" => Needs(pc) \subseteq Have

(* No attempt wipes, partitions, images or checks a disk under a live mount  *)
(* (releaseStaleTargetMounts).                                               *)
NotUnderMount == phase = "run" /\ Step \in OnUnmounted => kern \cap Mounts = {}

(* Success is reported only for a disk that carries the effect of every step *)
(* that installs something, whatever attempt made it (Provision, IsCompleted).*)
InstallComplete == phase = "done" => target # None /\ Installs \subseteq content[target]

(* The root that is mounted lies on the disk that was imaged: on a resume    *)
(* detect-disk finds the target of the earlier attempt again (Provision,     *)
(* stateSteps; useResumeMirrorPair says it of the mirror pair).              *)
MountsImagedDisk ==
    phase = "run" /\ Step = "mount-root" => "stream-image" \in content[target]

(* A run that ends hands the target over unmounted, unless kexec reads it    *)
(* (teardownChroot).                                                         *)
HandoffMounts ==
    phase = "done" => IF KeepForKexec THEN "root" \in kern ELSE kern \cap Mounts = {}

(* A firmware value that waits for a hard reset makes FirmwareChanged true,  *)
(* so the handoff does not use kexec (setupMellanox).                        *)
FirmwareGetsReset == phase = "done" /\ stored # {} => fwChanged

(* With NUM_VFS_MODE=set it does, whatever attempts came before: every       *)
(* attempt writes the values again (setupMellanoxLegacy).                    *)
SetFirmwareGetsReset == cfg.fw = "set" => FirmwareGetsReset

(* A resume never destroys what a saved checkpoint says was imaged: without  *)
(* a reboot nothing that is on a disk is lost (Checkpoint, resumeStateSteps).*)
ResumeKeepsContent ==
    [][file.completed \cap {"stream-image"} # {} =>
            \A d \in Targets : content[d] \subseteq content'[d]]_vars

(* An attempt is sound at every step, in whatever step the earlier ones of   *)
(* the same process failed: each step finds what it needs, nothing is wiped  *)
(* under a mount, a success has done every step of its plan, the mounts are  *)
(* those the handoff expects, and changed firmware gets its reset.           *)
AttemptsAreSound ==
    TypeOK /\ NeedsMet /\ NotUnderMount /\ InstallComplete /\ HandoffMounts
           /\ SetFirmwareGetsReset
=============================================================================
