--------------------------- MODULE PipelineProofs ---------------------------
(***************************************************************************)
(* Proofs about the provisioning pipeline, for every set of disks and NICs, *)
(* every machine config, any number of attempts, retries, resumes and       *)
(* reboots, and a failure of any step at any time.                          *)
(***************************************************************************)
EXTENDS Pipeline, TLAPS

(* Zenon finds most of the steps; those that need arithmetic or a theory    *)
(* of functions cite SMT.                                                  *)
USE Zenon

LOCAL INSTANCE FiniteSetTheorems
LOCAL INSTANCE WellFoundedInduction

-----------------------------------------------------------------------------
(* The table of steps, and the least and the greatest disk. *)

(* Steps that put something in place; every attempt runs them. *)
Givers == {2, 10, 12, 16, 21, 22, 24, 25, 26, 34, 41, 51}

(* Which step is where. *)
RowName(i) ==
    /\ Name(i) = "release-stale-mounts" <=> i = 2
    /\ Name(i) = "disable-lvm" <=> i = 8
    /\ Name(i) = "setup-mellanox" <=> i = 12
    /\ Name(i) = "setup-raid" <=> i = 15
    /\ Name(i) = "detect-disk" <=> i = 16
    /\ Name(i) = "wipe-disks" <=> i = 17
    /\ Name(i) = "apply-partition-layout" <=> i = 18
    /\ Name(i) = "stream-image" <=> i = 19
    /\ Name(i) = "parse-partitions" <=> i = 21
    /\ Name(i) = "mount-root" <=> i = 25
    /\ Name(i) = "teardown-chroot" <=> i = 51

(* What the sets of step names say about step i. *)
RowSets(i) ==
    /\ i \in Givers => Name(i) \in resumeStateSteps
    /\ i \in {15, 17, 18, 19} => Name(i) \notin resumeStateSteps
    /\ Name(i) \in Installs => i > 16
    /\ Name(i) \in OnUnmounted => i > 2 /\ i < 26
    /\ Name(i) \in DefaultPolicies => Gives(i) \cap Kernel = {} /\ i \notin {2, 8, 51}

(* What step i puts in place. *)
RowGives(i) ==
    /\ "efivars" \in Gives(i) <=> i = 10
    /\ "parts" \in Gives(i) <=> i = 21
    /\ "rootdev" \in Gives(i) <=> i = 22
    /\ "lvm" \in Gives(i) <=> i = 24
    /\ "root" \in Gives(i) <=> i = 25
    /\ "boot" \in Gives(i) <=> i = 26
    /\ "binds" \in Gives(i) <=> i = 34
    /\ "console" \in Gives(i) <=> i = 41
    /\ i < 25 \/ i > 34 => Gives(i) \cap Mounts = {}

(* The step that puts it there comes before a step that needs it. *)
RowNeeds(i) ==
    /\ Needs(i) \subseteq {"efivars", "target", "parts", "rootdev", "lvm", "root", "boot", "binds", "console"}
    /\ "efivars" \in Needs(i) => i > 10
    /\ "target" \in Needs(i) => i > 16
    /\ "parts" \in Needs(i) => i > 21
    /\ "rootdev" \in Needs(i) => i > 22
    /\ "lvm" \in Needs(i) => i > 24
    /\ "root" \in Needs(i) => i > 25 /\ i < 51
    /\ "boot" \in Needs(i) => i > 26 /\ i < 51
    /\ "binds" \in Needs(i) => i > 34 /\ i < 51
    /\ "console" \in Needs(i) => i > 41

Facts(i) == RowName(i) /\ RowSets(i) /\ RowGives(i) /\ RowNeeds(i)
Row(i, name, needs, gives) == Name(i) = name /\ Needs(i) = needs /\ Gives(i) = gives

LEMMA StepCount == N = 52 /\ Index = 1 .. 52
<1>1. N = 52
  BY DEF N, provisionSteps
<1> QED BY <1>1 DEF Index

(* The table of the steps, row by row. *)
LEMMA StepTable == \A i \in Index : Facts(i)
<1> USE DEF Row, Facts, RowName, RowSets, RowGives, RowNeeds, Givers, Kernel, Mounts,
            resumeStateSteps, DefaultPolicies, Destructive, OnUnmounted, Installs
<1>1. Facts(1)
  <2> Row(1, "report-init", {}, {})
    BY ZenonT(60) DEF Name, Needs, Gives, provisionSteps
  <2> QED BY SMT
<1>2. Facts(2)
  <2> Row(2, "release-stale-mounts", {}, {})
    BY ZenonT(60) DEF Name, Needs, Gives, provisionSteps
  <2> QED BY SMT
<1>3. Facts(3)
  <2> Row(3, "collect-inventory", {}, {})
    BY ZenonT(60) DEF Name, Needs, Gives, provisionSteps
  <2> QED BY SMT
<1>4. Facts(4)
  <2> Row(4, "collect-firmware", {}, {})
    BY ZenonT(60) DEF Name, Needs, Gives, provisionSteps
  <2> QED BY SMT
<1>5. Facts(5)
  <2> Row(5, "health-checks", {}, {})
    BY ZenonT(60) DEF Name, Needs, Gives, provisionSteps
  <2> QED BY SMT
<1>6. Facts(6)
  <2> Row(6, "validate-provision-inputs", {}, {})
    BY ZenonT(60) DEF Name, Needs, Gives, provisionSteps
  <2> QED BY SMT
<1>7. Facts(7)
  <2> Row(7, "verify-image", {}, {})
    BY ZenonT(60) DEF Name, Needs, Gives, provisionSteps
  <2> QED BY SMT
<1>8. Facts(8)
  <2> Row(8, "disable-lvm", {}, {})
    BY ZenonT(60) DEF Name, Needs, Gives, provisionSteps
  <2> QED BY SMT
<1>9. Facts(9)
  <2> Row(9, "stop-raid", {}, {})
    BY ZenonT(60) DEF Name, Needs, Gives, provisionSteps
  <2> QED BY SMT
<1>10. Facts(10)
  <2> Row(10, "mount-efivarfs", {}, {"efivars"})
    BY ZenonT(60) DEF Name, Needs, Gives, provisionSteps
  <2> QED BY SMT
<1>11. Facts(11)
  <2> Row(11, "remove-efi-entries", {"efivars"}, {})
    BY ZenonT(60) DEF Name, Needs, Gives, provisionSteps
  <2> QED BY SMT
<1>12. Facts(12)
  <2> Row(12, "setup-mellanox", {}, {})
    BY ZenonT(60) DEF Name, Needs, Gives, provisionSteps
  <2> QED BY SMTT(30)
<1>13. Facts(13)
  <2> Row(13, "configure-sriov", {}, {})
    BY ZenonT(60) DEF Name, Needs, Gives, provisionSteps
  <2> QED BY SMT
<1>14. Facts(14)
  <2> Row(14, "setup-nvme-namespaces", {}, {})
    BY ZenonT(60) DEF Name, Needs, Gives, provisionSteps
  <2> QED BY SMTT(30)
<1>15. Facts(15)
  <2> Row(15, "setup-raid", {}, {})
    BY ZenonT(60) DEF Name, Needs, Gives, provisionSteps
  <2> QED BY SMTT(30)
<1>16. Facts(16)
  <2> Row(16, "detect-disk", {}, {"target"})
    BY ZenonT(60) DEF Name, Needs, Gives, provisionSteps
  <2> QED BY SMTT(30)
<1>17. Facts(17)
  <2> Row(17, "wipe-disks", {"target"}, {})
    BY ZenonT(60) DEF Name, Needs, Gives, provisionSteps
  <2> QED BY SMTT(30)
<1>18. Facts(18)
  <2> Row(18, "apply-partition-layout", {"target"}, {})
    BY ZenonT(60) DEF Name, Needs, Gives, provisionSteps
  <2> QED BY SMTT(30)
<1>19. Facts(19)
  <2> Row(19, "stream-image", {"target"}, {})
    BY ZenonT(60) DEF Name, Needs, Gives, provisionSteps
  <2> QED BY SMTT(30)
<1>20. Facts(20)
  <2> Row(20, "partprobe", {"target"}, {})
    BY ZenonT(60) DEF Name, Needs, Gives, provisionSteps
  <2> QED BY SMTT(30)
<1>21. Facts(21)
  <2> Row(21, "parse-partitions", {"target"}, {"parts"})
    BY ZenonT(60) DEF Name, Needs, Gives, provisionSteps
  <2> QED BY SMTT(30)
<1>22. Facts(22)
  <2> Row(22, "mirror-root", {"target", "parts"}, {"rootdev"})
    BY ZenonT(60) DEF Name, Needs, Gives, provisionSteps
  <2> QED BY SMTT(30)
<1>23. Facts(23)
  <2> Row(23, "check-filesystem", {"rootdev"}, {})
    BY ZenonT(60) DEF Name, Needs, Gives, provisionSteps
  <2> QED BY SMTT(30)
<1>24. Facts(24)
  <2> Row(24, "enable-lvm", {}, {"lvm"})
    BY ZenonT(60) DEF Name, Needs, Gives, provisionSteps
  <2> QED BY SMTT(30)
<1>25. Facts(25)
  <2> Row(25, "mount-root", {"rootdev", "lvm"}, {"root"})
    BY ZenonT(60) DEF Name, Needs, Gives, provisionSteps
  <2> QED BY SMTT(30)
<1>26. Facts(26)
  <2> Row(26, "mount-boot", {"parts", "rootdev", "root"}, {"boot"})
    BY ZenonT(60) DEF Name, Needs, Gives, provisionSteps
  <2> QED BY SMTT(30)
<1>27. Facts(27)
  <2> Row(27, "mount-shared-data", {"target", "root"}, {"shared"})
    BY ZenonT(60) DEF Name, Needs, Gives, provisionSteps
  <2> QED BY SMTT(30)
<1>28. Facts(28)
  <2> Row(28, "configure-overlayfs", {"root"}, {})
    BY ZenonT(60) DEF Name, Needs, Gives, provisionSteps
  <2> QED BY SMTT(30)
<1>29. Facts(29)
  <2> Row(29, "set-hostname", {"root"}, {})
    BY ZenonT(60) DEF Name, Needs, Gives, provisionSteps
  <2> QED BY SMTT(30)
<1>30. Facts(30)
  <2> Row(30, "copy-provisioner-files", {"root"}, {})
    BY ZenonT(60) DEF Name, Needs, Gives, provisionSteps
  <2> QED BY SMTT(30)
<1>31. Facts(31)
  <2> Row(31, "configure-dns", {"root"}, {})
    BY ZenonT(60) DEF Name, Needs, Gives, provisionSteps
  <2> QED BY SMTT(30)
<1>32. Facts(32)
  <2> Row(32, "apply-sysexts", {"root"}, {})
    BY ZenonT(60) DEF Name, Needs, Gives, provisionSteps
  <2> QED BY SMTT(30)
<1>33. Facts(33)
  <2> Row(33, "write-fstab", {"target", "rootdev", "root"}, {})
    BY ZenonT(60) DEF Name, Needs, Gives, provisionSteps
  <2> QED BY SMTT(30)
<1>34. Facts(34)
  <2> Row(34, "setup-chroot-binds", {"root"}, {"binds"})
    BY ZenonT(60) DEF Name, Needs, Gives, provisionSteps
  <2> QED BY SMTT(30)
<1>35. Facts(35)
  <2> Row(35, "grow-partition", {"target", "rootdev"}, {})
    BY ZenonT(60) DEF Name, Needs, Gives, provisionSteps
  <2> QED BY SMTT(30)
<1>36. Facts(36)
  <2> Row(36, "resize-filesystem", {"target", "rootdev", "root"}, {})
    BY ZenonT(60) DEF Name, Needs, Gives, provisionSteps
  <2> QED BY SMTT(30)
<1>37. Facts(37)
  <2> Row(37, "configure-mdadm", {"rootdev", "root", "binds"}, {})
    BY ZenonT(60) DEF Name, Needs, Gives, provisionSteps
  <2> QED BY SMTT(30)
<1>38. Facts(38)
  <2> Row(38, "install-esp-sync", {"parts", "root"}, {})
    BY ZenonT(60) DEF Name, Needs, Gives, provisionSteps
  <2> QED BY SMTT(30)
<1>39. Facts(39)
  <2> Row(39, "configure-kubelet", {"root"}, {})
    BY ZenonT(60) DEF Name, Needs, Gives, provisionSteps
  <2> QED BY SMTT(30)
<1>40. Facts(40)
  <2> Row(40, "prepare-oci-prepulls", {"root"}, {})
    BY ZenonT(60) DEF Name, Needs, Gives, provisionSteps
  <2> QED BY SMTT(30)
<1>41. Facts(41)
  <2> Row(41, "configure-serial-console", {"root"}, {"console"})
    BY ZenonT(60) DEF Name, Needs, Gives, provisionSteps
  <2> QED BY SMTT(30)
<1>42. Facts(42)
  <2> Row(42, "configure-grub", {"root", "boot", "binds", "console"}, {})
    BY ZenonT(60) DEF Name, Needs, Gives, provisionSteps
  <2> QED BY SMTT(30)
<1>43. Facts(43)
  <2> Row(43, "install-efi-fallback", {"target", "rootdev", "boot"}, {})
    BY ZenonT(60) DEF Name, Needs, Gives, provisionSteps
  <2> QED BY SMTT(30)
<1>44. Facts(44)
  <2> Row(44, "verify-secureboot-chain", {"root", "boot"}, {})
    BY ZenonT(60) DEF Name, Needs, Gives, provisionSteps
  <2> QED BY SMTT(30)
<1>45. Facts(45)
  <2> Row(45, "inject-cloudinit", {"root"}, {})
    BY ZenonT(60) DEF Name, Needs, Gives, provisionSteps
  <2> QED BY SMTT(30)
<1>46. Facts(46)
  <2> Row(46, "copy-machine-files", {"root"}, {})
    BY ZenonT(60) DEF Name, Needs, Gives, provisionSteps
  <2> QED BY SMTT(30)
<1>47. Facts(47)
  <2> Row(47, "run-machine-commands", {"root", "binds"}, {})
    BY ZenonT(60) DEF Name, Needs, Gives, provisionSteps
  <2> QED BY SMTT(30)
<1>48. Facts(48)
  <2> Row(48, "run-post-provision-cmds", {"root", "binds"}, {})
    BY ZenonT(60) DEF Name, Needs, Gives, provisionSteps
  <2> QED BY SMTT(30)
<1>49. Facts(49)
  <2> Row(49, "create-efi-boot-entry", {"target", "parts", "efivars"}, {})
    BY ZenonT(60) DEF Name, Needs, Gives, provisionSteps
  <2> QED BY SMTT(30)
<1>50. Facts(50)
  <2> Row(50, "create-mirror-efi-boot-entry", {"target", "parts", "efivars"}, {})
    BY ZenonT(60) DEF Name, Needs, Gives, provisionSteps
  <2> QED BY SMTT(30)
<1>51. Facts(51)
  <2> Row(51, "teardown-chroot", {}, {})
    BY ZenonT(60) DEF Name, Needs, Gives, provisionSteps
  <2> QED BY SMTT(30)
<1>52. Facts(52)
  <2> Row(52, "report-success", {}, {})
    BY ZenonT(60) DEF Name, Needs, Gives, provisionSteps
  <2> QED BY SMTT(30)
<1> HIDE DEF Facts
<1> QED
  BY StepCount, <1>1, <1>2, <1>3, <1>4, <1>5, <1>6, <1>7, <1>8, <1>9, <1>10, <1>11, <1>12, <1>13,
     <1>14, <1>15, <1>16, <1>17, <1>18, <1>19, <1>20, <1>21, <1>22, <1>23, <1>24, <1>25, <1>26,
     <1>27, <1>28, <1>29, <1>30, <1>31, <1>32, <1>33, <1>34, <1>35, <1>36, <1>37, <1>38, <1>39,
     <1>40, <1>41, <1>42, <1>43, <1>44, <1>45, <1>46, <1>47, <1>48, <1>49, <1>50, <1>51, <1>52, SMT

-----------------------------------------------------------------------------
(* The least and the greatest element of a set of numbers exist. *)
LEMMA MinFact ==
    ASSUME NEW S, S \subseteq Nat, S # {}
    PROVE  Min(S) \in S /\ \A y \in S : Min(S) <= y
<1>1. \E x \in S : \A y \in S : ~(<<y, x>> \in OpToRel(<, Nat))
  BY NatLessThanWellFounded, WFMin
<1>2. \A a, b \in Nat : a < b => <<a, b>> \in OpToRel(<, Nat)
  BY DEF OpToRel
<1>3. PICK x \in S : \A y \in S : ~(<<y, x>> \in OpToRel(<, Nat))
  BY <1>1
<1>4. \A y \in S : ~(y < x)
  BY <1>2, <1>3
<1>5. \A y \in S : x <= y
  BY <1>4, SMT
<1> QED BY <1>5 DEF Min

LEMMA MaxFact ==
    ASSUME NEW S, S \subseteq Nat, S # {}, IsFiniteSet(S)
    PROVE  Max(S) \in S
<1> DEFINE Above(x) == {y \in S : y > x}
           F == {Cardinality(Above(x)) : x \in S}
<1>1. \A x \in S : IsFiniteSet(Above(x)) /\ Cardinality(Above(x)) \in Nat
  BY FS_Subset, FS_CardinalityType
<1>2. PICK x \in S : \A y \in S : Cardinality(Above(x)) <= Cardinality(Above(y))
  <2>1. F \subseteq Nat /\ F # {}
    BY <1>1
  <2>2. Min(F) \in F /\ \A n \in F : Min(F) <= n
    BY <2>1, MinFact
  <2> QED BY <2>2
<1>3. ASSUME NEW y \in S, y > x PROVE FALSE
  <2>1. Above(y) \subseteq Above(x) /\ y \in Above(x) /\ y \notin Above(y)
    <3>1. x \in Nat /\ \A z \in S : z \in Nat
      OBVIOUS
    <3>2. \A z \in S : z > y => z > x
      BY <1>3, <3>1, SMT
    <3>3. ~(y > y)
      BY <3>1, SMT
    <3> QED BY <1>3, <3>2, <3>3
  <2>2. Cardinality(Above(y)) <= Cardinality(Above(x))
        /\ (Cardinality(Above(x)) = Cardinality(Above(y)) => Above(x) = Above(y))
    BY <1>1, <2>1, FS_Subset
  <2>3. Cardinality(Above(x)) <= Cardinality(Above(y))
    BY <1>2
  <2> QED BY <1>1, <2>1, <2>2, <2>3, SMT
<1>4. \A y \in S : x >= y
  BY <1>3, SMT
<1> QED BY <1>4 DEF Max

(* The disks that are present are finitely many. *)
LEMMA FiniteSubset ==
    ASSUME NEW n \in Nat, NEW S, S \subseteq 1 .. n
    PROVE  IsFiniteSet(S)
<1>1. IsFiniteSet(1 .. n)
  BY FS_Interval, SMT
<1> QED BY <1>1, FS_Subset

-----------------------------------------------------------------------------
(* The inductive invariant. *)

(* This attempt has passed step i. *)
Past(i) == phase = "done" \/ (phase = "run" /\ pc > i)

(* The disk that a resume from checkpoint c finds as target. *)
Chosen(c) ==
    CASE cfg.sel = "configured" -> Min(Disks)
      [] cfg.sel = "created" -> Array
      [] cfg.sel = "mirror" -> c.pair
      [] OTHER -> Max(Disks)

(* What Releases leaves for the handoff once teardown-chroot has run. *)
Handoff == IF KeepForKexec THEN "root" \in kern ELSE kern \cap Mounts = {}

(* What the steps before pc have put in place in this attempt.  The numbers *)
(* are the places of the steps in provisionSteps, see StepTable.            *)
InPlace ==
    /\ phase = "run" =>
        /\ pc > 10 => "efivars" \in kern
        /\ pc > 16 => target # None
        /\ pc > 21 => "parts" \in mem
        /\ pc > 22 => "rootdev" \in mem
        /\ pc > 24 => "lvm" \in kern
        /\ pc > 25 /\ pc < 52 => "root" \in kern
        /\ pc > 26 /\ pc < 52 => "boot" \in kern
        /\ pc > 34 /\ pc < 52 => "binds" \in kern
        /\ pc > 41 => "console" \in mem
        /\ pc > 2 /\ pc < 26 => kern \cap Mounts = {}
        /\ pc = 52 => Handoff
    /\ phase = "done" => Handoff

(* The steps that write disks are completed in their order. *)
Ordered(done) ==
    /\ ~({"setup-raid", "detect-disk", "wipe-disks"} \subseteq done) => done \cap Installs = {}
    /\ "apply-partition-layout" \notin done => done \cap Installs \subseteq {"wipe-disks"}
    /\ "stream-image" \notin done =>
        done \cap Installs \subseteq {"wipe-disks", "apply-partition-layout"}

(* A checkpoint names the device or the pair that its steps have chosen. *)
Truthful(c) ==
    /\ Ordered(c.completed)
    /\ IF cfg.sel = "created" THEN "setup-raid" \in c.completed => c.device = Array
                              ELSE c.device = None
    /\ cfg.sel = "mirror" /\ "detect-disk" \in c.completed => c.pair # None

(* Checkpoint in memory and on file. *)
Checkpoints ==
    /\ Truthful(cp) /\ Truthful(file)
    /\ ~cfg.resume => file = NoCheckpoint
    /\ phase = "run" =>
        /\ cfg.resume => file = cp
        /\ \A j \in 1 .. pc - 1 : Name(j) \in cp.completed
        /\ MustRun(pc, cp)
    /\ phase = "done" => Names \subseteq cp.completed

(* How the target is chosen. *)
Choice ==
    /\ cfg.sel \notin LateDisks => present = Disks
    /\ cfg.sel = "configured" => device = Min(Disks)
    /\ cfg.sel = "created" => device \in {None, Array}
    /\ cfg.sel \in {"mirror", "detected"} => device = None
    /\ phase # "done" /\ pair # None => file.pair = pair
    /\ phase = "run" /\ cfg.sel = "created" /\ "setup-raid" \in cp.completed => device = Array
    /\ phase = "run" /\ pc < 17 /\ cfg.sel = "mirror" => pair = cp.pair
    /\ Past(16) => target = Chosen(cp)

(* The disk carries what the checkpoints say. *)
Carried ==
    /\ phase \in {"run", "done"} =>
        \A s \in cp.completed \cap Installs : s \in content[Chosen(cp)]
    /\ phase # "done" => \A s \in file.completed \cap Installs : s \in content[Chosen(file)]

(* With NUM_VFS_MODE=set an attempt that passed setup-mellanox knows it. *)
Firmware ==
    Past(12) /\ cfg.fw = "set" /\ Nics # {} => fwChanged

PInv == TypeOK /\ InPlace /\ Checkpoints /\ Choice /\ Carried /\ Firmware

-----------------------------------------------------------------------------
(* Continue goes to the next step that must run, or ends the attempt. *)
LEMMA ContinueFacts ==
    ASSUME NEW i \in 1 .. 53, NEW c, NEW f, Continue(i, c, f)
    PROVE  \/ /\ phase' = "run" /\ pc' \in i .. 52 /\ file' = f
              /\ MustRun(pc', c) /\ \A j \in i .. pc' - 1 : ~MustRun(j, c)
           \/ /\ phase' = "done" /\ pc' = 52 /\ file' \in {NoCheckpoint, f}
              /\ \A j \in i .. 52 : ~MustRun(j, c)
<1>1. Pending(i, c) = {j \in i .. 52 : MustRun(j, c)}
  BY StepCount DEF Pending
<1>2. CASE Pending(i, c) # {}
  <2>1. phase' = "run" /\ pc' = Min(Pending(i, c)) /\ file' = f
    BY <1>2 DEF Continue
  <2>2. pc' \in Pending(i, c) /\ \A j \in Pending(i, c) : pc' <= j
    BY <1>1, <1>2, <2>1, MinFact, SMT
  <2>3. \A j \in i .. pc' - 1 : j \in i .. 52 /\ ~(pc' <= j)
    BY <1>1, <2>2, SMT
  <2> QED BY <1>1, <2>1, <2>2, <2>3
<1>3. CASE Pending(i, c) = {}
  BY <1>1, <1>3, StepCount DEF Continue
<1> QED BY <1>2, <1>3

(* A place that is not between two others, and not before the first. *)
LEMMA NotBetween ==
    ASSUME NEW a \in 1 .. 52, NEW b \in a + 1 .. 52, NEW g \in 1 .. 52,
           a < g, g \notin a + 1 .. b - 1
    PROVE  b <= g
  BY SMT

(* After a step: the steps between are completed, and none of them is one  *)
(* that puts something in place.                                           *)
LEMMA Advance ==
    ASSUME TypeOK, StepOK
    PROVE  /\ try' = 0
           /\ \/ /\ phase' = "run" /\ pc' \in pc + 1 .. 52 /\ file' = (IF cfg.resume THEN cp' ELSE file)
                 /\ MustRun(pc', cp') /\ \A j \in pc + 1 .. pc' - 1 : Name(j) \in cp'.completed
                 /\ \A g \in Givers : pc < g => pc' <= g
              \/ /\ phase' = "done" /\ pc' = 52
                 /\ file' \in {NoCheckpoint, IF cfg.resume THEN cp' ELSE file}
                 /\ \A j \in pc + 1 .. 52 : Name(j) \in cp'.completed
                 /\ \A g \in Givers : g <= pc
<1> DEFINE f == IF cfg.resume THEN cp' ELSE file
<1>1. pc \in 1 .. 52 /\ pc + 1 \in 1 .. 53 /\ Continue(pc + 1, cp', f)
  BY StepCount, SMT DEF TypeOK, StepOK
<1>2. \A j \in 1 .. 52 : ~MustRun(j, cp') => Name(j) \in cp'.completed /\ j \notin Givers
  BY StepTable, StepCount DEF MustRun, Facts, RowSets
<1>3. Givers \subseteq 1 .. 52
  BY SMT DEF Givers
<1>4. try' = 0
  BY <1>1 DEF Continue
<1> HIDE DEF f
<1>5. \/ /\ phase' = "run" /\ pc' \in pc + 1 .. 52 /\ file' = f
         /\ MustRun(pc', cp') /\ \A j \in pc + 1 .. pc' - 1 : ~MustRun(j, cp')
      \/ /\ phase' = "done" /\ pc' = 52 /\ file' \in {NoCheckpoint, f}
         /\ \A j \in pc + 1 .. 52 : ~MustRun(j, cp')
  BY <1>1, ContinueFacts
<1>6. CASE phase' = "run"
  <2>1. \A j \in pc + 1 .. pc' - 1 : Name(j) \in cp'.completed /\ j \notin Givers
    BY <1>1, <1>2, <1>5, <1>6, SMT
  <2>2. \A g \in Givers : pc < g => pc' <= g
    <3>1. pc \in 1 .. 52 /\ pc' \in pc + 1 .. 52
      BY <1>1, <1>5, <1>6
    <3>2. \A j \in pc + 1 .. pc' - 1 : j \notin Givers
      BY <2>1
    <3>3. ASSUME NEW g \in Givers, pc < g PROVE pc' <= g
      <4>1. g \in 1 .. 52
        BY <1>3
      <4>2. g \notin pc + 1 .. pc' - 1
        BY <3>2
      <4> QED BY <3>1, <3>3, <4>1, <4>2, NotBetween
    <3> QED BY <3>3
  <2> QED BY <1>4, <1>5, <1>6, <2>1, <2>2 DEF f
<1>7. CASE phase' = "done"
  <2>1. \A j \in pc + 1 .. 52 : Name(j) \in cp'.completed /\ j \notin Givers
    BY <1>1, <1>2, <1>5, <1>7, SMT
  <2>2. \A g \in Givers : g <= pc
    <3>1. pc \in 1 .. 52 /\ \A j \in pc + 1 .. 52 : j \notin Givers
      BY <1>1, <2>1
    <3> QED BY <1>3, <3>1, SMT
  <2> QED BY <1>4, <1>5, <1>7, <2>1, <2>2 DEF f
<1> QED BY <1>5, <1>6, <1>7

(* A step that works, in terms of its place. *)
LEMMA WorksFacts ==
    ASSUME TypeOK, StepWorks
    PROVE  /\ phase = "run" /\ pc \in 1 .. 52
           /\ mem' = (mem \ (IF pc = 21 THEN {"rootdev"} ELSE {})) \cup (Gives(pc) \cap Memory)
           /\ pc = 2 => kern' = (kern \ Mounts) \cup (Gives(pc) \cap Kernel)
           /\ pc = 8 => kern' = (kern \ {"lvm"}) \cup (Gives(pc) \cap Kernel)
           /\ pc = 51 => kern' = (kern \ (IF KeepForKexec THEN {} ELSE Mounts)) \cup (Gives(pc) \cap Kernel)
           /\ pc \notin {2, 8, 51} => kern' = kern \cup (Gives(pc) \cap Kernel)
           /\ device' = (IF pc = 15 /\ cfg.sel = "created" THEN Array ELSE device)
           /\ target' = (IF pc = 16 THEN DetectDisk ELSE target)
           /\ pc # 12 => UNCHANGED <<fwChanged, stored>>
           /\ pc = 12 => stored' = low /\ (cfg.fw = "set" /\ Nics # {} => fwChanged')
           /\ cp' = [completed |-> cp.completed \cup {Name(pc)},
                     device |-> IF pc = 15 /\ cfg.sel = "created" THEN Array ELSE cp.device,
                     pair |-> IF pc = 16 /\ cfg.sel = "mirror" THEN target' ELSE cp.pair]
           /\ content' = Written(Name(pc), TRUE)
           /\ UNCHANGED <<cfg, present, low, attempts, pair>>
<1>1. pc \in 1 .. 52 /\ RowName(pc)
  BY StepTable, StepCount DEF TypeOK, Facts
<1>2. phase = "run" /\ content' = Written(Name(pc), TRUE) /\ UNCHANGED <<cfg, present, low, attempts, pair>>
  BY DEF StepWorks, Step
<1>3. mem' = (mem \ (IF pc = 21 THEN {"rootdev"} ELSE {})) \cup (Gives(pc) \cap Memory)
  BY <1>1 DEF StepWorks, Step, RowName
<1>4. kern' = (kern \ Releases(Name(pc))) \cup (Gives(pc) \cap Kernel)
  BY DEF StepWorks, Step
<1>5. /\ pc = 2 => Releases(Name(pc)) = Mounts
      /\ pc = 8 => Releases(Name(pc)) = {"lvm"}
      /\ pc = 51 => Releases(Name(pc)) = (IF KeepForKexec THEN {} ELSE Mounts)
      /\ pc \notin {2, 8, 51} => Releases(Name(pc)) = {}
  BY <1>1 DEF Releases, RowName
<1>6. /\ device' = (IF pc = 15 /\ cfg.sel = "created" THEN Array ELSE device)
      /\ target' = (IF pc = 16 THEN DetectDisk ELSE target)
  BY <1>1 DEF StepWorks, Step, RowName
<1>7. /\ pc # 12 => UNCHANGED <<fwChanged, stored>>
      /\ pc = 12 => stored' = low /\ (cfg.fw = "set" /\ Nics # {} => fwChanged')
  BY <1>1 DEF StepWorks, setupMellanox, Step, RowName
<1>8. cp' = [completed |-> cp.completed \cup {Name(pc)},
             device |-> IF pc = 15 /\ cfg.sel = "created" THEN Array ELSE cp.device,
             pair |-> IF pc = 16 /\ cfg.sel = "mirror" THEN target' ELSE cp.pair]
  BY <1>1 DEF StepWorks, Marked, Step, RowName
<1>9. pc \notin {2, 8, 51} => kern' = kern \cup (Gives(pc) \cap Kernel)
  BY <1>4, <1>5
<1> QED BY <1>1, <1>2, <1>3, <1>4, <1>5, <1>6, <1>7, <1>8, <1>9

(* A step that fails, in terms of its place. *)
LEMMA ErrsFacts ==
    ASSUME TypeOK, StepErrs
    PROVE  /\ phase = "run" /\ pc \in 1 .. 52
           /\ content' \in {content, Written(Name(pc), FALSE)}
           /\ kern' \subseteq Kernel
           /\ Name(pc) \in DefaultPolicies => kern' = kern
           /\ device' = device \/ (pc = 15 /\ cfg.sel = "created" /\ device' = Array)
           /\ stored' \subseteq low
           /\ UNCHANGED <<cfg, present, low, attempts, mem, pair, target, fwChanged, cp, pc>>
<1>1. pc \in 1 .. 52 /\ RowName(pc) /\ RowSets(pc)
  BY StepTable, StepCount DEF TypeOK, Facts
<1>2. kern' \in {kern, kern \ (Releases(Name(pc)) \ {"root"}), kern \cup (Gives(pc) \cap Kernel)}
  BY DEF StepErrs, Step
<1>3. Name(pc) \in DefaultPolicies => Releases(Name(pc)) = {} /\ Gives(pc) \cap Kernel = {}
  BY <1>1 DEF Releases, RowName, RowSets
<1>4. Name(pc) \in DefaultPolicies => kern' = kern
  BY <1>2, <1>3
<1>5. kern' \subseteq Kernel
  BY <1>2 DEF TypeOK
<1>6. stored' \subseteq low
  BY DEF StepErrs, setupMellanoxFails, TypeOK
<1>7. device' = device \/ (pc = 15 /\ cfg.sel = "created" /\ device' = Array)
  BY <1>1 DEF StepErrs, Step, RowName
<1>8. /\ phase = "run" /\ content' \in {content, Written(Name(pc), FALSE)}
      /\ UNCHANGED <<cfg, present, low, attempts, mem, pair, target, fwChanged, cp, pc>>
  BY DEF StepErrs, Step, setupMellanoxFails
<1> QED BY <1>1, <1>4, <1>5, <1>6, <1>7, <1>8

-----------------------------------------------------------------------------
CpType == [completed : SUBSET Names, device : {Array, None}, pair : Disks \cup {None}]

LEMMA Numbers ==
    ASSUME TypeOK
    PROVE  /\ Disks \subseteq Nat \ {0} /\ Min(Disks) \in Disks /\ Max(Disks) \in Disks
           /\ Max(present) \in Disks /\ None \notin Targets /\ Array \in Targets /\ Disks \subseteq Targets
           /\ Array # None
<1>1. present \subseteq Disks /\ present # {} /\ Disks \subseteq Nat /\ Disks \subseteq Nat \ {0} /\ Disks # {}
  <2>1. present \in (SUBSET Disks) \ {{}}
    BY DEF TypeOK
  <2>2. Disks \subseteq Nat \ {0} /\ Disks # {}
    BY PipelineAssumption, ZenonT(30)
  <2> QED BY <2>1, <2>2
<1>2. IsFiniteSet(Disks) /\ IsFiniteSet(present)
  <2>1. PICK n \in Disks : Disks \subseteq 1 .. n
    BY PipelineAssumption
  <2>2. n \in Nat /\ present \subseteq 1 .. n
    BY <1>1, <2>1
  <2> QED BY <2>1, <2>2, FiniteSubset
<1>3. present \subseteq Nat
  BY <1>1
<1>4. Min(Disks) \in Disks /\ Max(Disks) \in Disks /\ Max(present) \in Disks
  BY <1>1, <1>2, <1>3, MinFact, MaxFact
<1> QED BY <1>1, <1>4, SMT DEF None, Targets, Array

LEMMA DetectFacts ==
    ASSUME PInv, "detected" \notin LateDisks, phase = "run", pc = 16
    PROVE  /\ DetectDisk \in Targets
           /\ cfg.sel = "configured" => DetectDisk = Min(Disks)
           /\ cfg.sel = "created" => DetectDisk = Array
           /\ cfg.sel = "mirror" => DetectDisk \in Disks /\ (cp.pair # None => DetectDisk = cp.pair)
           /\ cfg.sel = "detected" => DetectDisk = Max(Disks)
<1> USE DEF PInv
<1>1. cfg.sel \in {"configured", "created", "mirror", "detected"} /\ pair \in Disks \cup {None}
  BY PipelineAssumption DEF TypeOK
<1>2. CASE cfg.sel = "configured"
  BY <1>2, Numbers DEF Choice, DetectDisk, Targets
<1>3. CASE cfg.sel = "created"
  <2>1. Name(15) = "setup-raid" /\ 15 \in 1 .. pc - 1
    BY StepTable, StepCount, SMT DEF Facts, RowName
  <2>2. device = Array
    BY <1>3, <2>1 DEF Checkpoints, Choice
  <2> QED BY <1>3, <2>2, Numbers DEF DetectDisk
<1>4. CASE cfg.sel = "mirror"
  <2>1. device = None /\ pair = cp.pair
    BY <1>4, SMT DEF Choice
  <2> QED BY <1>1, <1>4, <2>1, Numbers DEF DetectDisk
<1>5. CASE cfg.sel = "detected"
  <2>1. device = None /\ present = Disks
    BY <1>5 DEF Choice
  <2> QED BY <1>5, <2>1, Numbers DEF DetectDisk
<1> QED BY <1>1, <1>2, <1>3, <1>4, <1>5

(* The current step does not take away what completed steps have written. *)
LEMMA WrittenFacts ==
    ASSUME PInv, phase = "run", NEW done \in BOOLEAN
    PROVE  /\ Written(Name(pc), done) \in [Targets -> SUBSET Installs]
           /\ \A s \in cp.completed \cap Installs : s \in Written(Name(pc), done)[Chosen(cp)]
           /\ done /\ Name(pc) \in Installs => Name(pc) \in Written(Name(pc), done)[Chosen(cp)]
<1> DEFINE W == Written(Name(pc), done)
           now == cp.completed \cap Installs
<1> USE DEF PInv
<1>1. pc \in 1 .. 52 /\ RowName(pc) /\ RowSets(pc) /\ MustRun(pc, cp) /\ Ordered(cp.completed)
  BY StepTable, StepCount DEF TypeOK, Facts, Checkpoints, Truthful
<1>2. content \in [Targets -> SUBSET Installs] /\ \A s \in now : s \in content[Chosen(cp)]
  BY DEF TypeOK, Carried
<1>3. CASE pc = 15 /\ cfg.sel = "created"
  <2>1. W = [content EXCEPT ![Array] = {}] /\ Name(pc) \notin Installs
    BY <1>1, <1>3, SMT DEF Written, RowName, RowSets
  <2>2. "setup-raid" \notin cp.completed
    BY <1>1, <1>3 DEF RowName, RowSets, MustRun
  <2>3. now = {}
    BY <1>1, <2>2 DEF Ordered
  <2> QED BY <1>2, <2>1, <2>3
<1>4. CASE Name(pc) \in Installs
  <2>1. pc > 16 /\ target = Chosen(cp) /\ target # None /\ target \in Targets
    BY <1>1, <1>4 DEF RowSets, Choice, Past, InPlace, TypeOK
  <2>2. W = [content EXCEPT ![target] = (@ \cap Kept(Name(pc))) \cup (IF done THEN {Name(pc)} ELSE {})]
    BY <1>1, <1>4, <2>1, SMT DEF Written, RowName
  <2>3. now \subseteq Kept(Name(pc))
    BY <1>1 DEF Kept, RowName, RowSets, MustRun, Ordered
  <2>4. W \in [Targets -> SUBSET Installs]
    BY <1>2, <1>4, <2>2, ZenonT(30)
  <2>5. W[target] = (content[target] \cap Kept(Name(pc))) \cup (IF done THEN {Name(pc)} ELSE {})
    BY <1>2, <2>1, <2>2
  <2> QED BY <1>2, <2>1, <2>3, <2>4, <2>5
<1>5. CASE ~(pc = 15 /\ cfg.sel = "created") /\ Name(pc) \notin Installs
  <2>1. W = content
    BY <1>1, <1>5 DEF Written, RowName
  <2> QED BY <1>2, <1>5, <2>1
<1> QED BY <1>3, <1>4, <1>5

LEMMA InitPInv == Init => PInv
<1> SUFFICES ASSUME Init PROVE PInv
  OBVIOUS
<1>1. cfg \in Configs /\ present \in (SUBSET Disks) \ {{}}
  BY PipelineAssumption DEF Init
<1>2. Min(Disks) \in Disks
  BY PipelineAssumption, MinFact
<1>3. NoCheckpoint \in CpType /\ NoCheckpoint.completed = {} /\ NoCheckpoint.device = None /\ NoCheckpoint.pair = None
  BY DEF NoCheckpoint, CpType
<1>4. TypeOK
  <2>1. attempts \in 0 .. MaxAttempts /\ try \in 0 .. StepRetries /\ pc \in Index
    BY PipelineAssumption, StepCount, SMT DEF Init
  <2>2. content \in [Targets -> SUBSET Installs]
    BY DEF Init
  <2>3. device \in Targets \cup {None}
    BY <1>2 DEF Init, ConfiguredDevice, Targets
  <2>4. {cp, file} \subseteq CpType
    BY <1>3 DEF Init
  <2> QED BY <1>1, <2>1, <2>2, <2>3, <2>4 DEF Init, TypeOK, CpType
<1>5. Checkpoints
  BY <1>3 DEF Init, Checkpoints, Truthful, Ordered
<1>6. Choice
  BY <1>3 DEF Init, Choice, ConfiguredDevice, Past
<1>7. InPlace /\ Carried /\ Firmware
  BY <1>3 DEF Init, InPlace, Carried, Firmware, Past
<1> QED BY <1>4, <1>5, <1>6, <1>7 DEF PInv

(* What StepOK and SaveFails have in common. *)
LEMMA WorksKeeps ==
    ASSUME PInv, "detected" \notin LateDisks, StepWorks
    PROVE  /\ cp' \in CpType /\ Truthful(cp)'
           /\ mem' \subseteq Memory /\ kern' \subseteq Kernel /\ target' \in Targets \cup {None}
           /\ device' \in Targets \cup {None} /\ stored' \subseteq low' /\ fwChanged' \in BOOLEAN
           /\ content' \in [Targets -> SUBSET Installs]
           /\ \A s \in cp'.completed \cap Installs : s \in content'[Chosen(cp)']
           /\ \A s \in cp.completed \cap Installs : s \in content'[Chosen(cp)]
           /\ pc > 15 => target' = Chosen(cp)'
           /\ pc # 16 => Chosen(cp)' = Chosen(cp)
<1> USE DEF PInv
<1>1. pc \in 1 .. 52 /\ RowName(pc) /\ RowSets(pc) /\ phase = "run"
  BY StepTable, StepCount, WorksFacts DEF Facts
<1>2. cp \in CpType /\ cp.completed \in SUBSET Names /\ cp.device \in {Array, None} /\ cp.pair \in Disks \cup {None}
  BY DEF TypeOK, CpType
<1>3. /\ cp'.completed = cp.completed \cup {Name(pc)}
      /\ cp'.device = (IF pc = 15 /\ cfg.sel = "created" THEN Array ELSE cp.device)
      /\ cp'.pair = (IF pc = 16 /\ cfg.sel = "mirror" THEN target' ELSE cp.pair)
      /\ cfg' = cfg
  BY WorksFacts, SMT
<1>4. pc = 16 => target' = DetectDisk
  BY WorksFacts
<1>5. pc = 16 /\ cfg.sel = "mirror" => target' \in Disks /\ (cp.pair # None => target' = cp.pair)
  BY <1>1, <1>4, DetectFacts
<1>6. cp' \in CpType
  <2>1. Name(pc) \in Names
    BY StepCount, <1>1 DEF Names
  <2>2. cp' = [completed |-> cp.completed \cup {Name(pc)},
               device |-> IF pc = 15 /\ cfg.sel = "created" THEN Array ELSE cp.device,
               pair |-> IF pc = 16 /\ cfg.sel = "mirror" THEN target' ELSE cp.pair]
    BY WorksFacts
  <2> QED BY <1>2, <1>5, <2>1, <2>2 DEF CpType
<1>7. Ordered(cp'.completed)
  <2>1. Ordered(cp.completed) /\ \A j \in 1 .. pc - 1 : Name(j) \in cp.completed
    BY <1>1 DEF Checkpoints, Truthful
  <2>2. Name(15) = "setup-raid" /\ Name(16) = "detect-disk" /\ Name(17) = "wipe-disks"
        /\ Name(18) = "apply-partition-layout" /\ Name(19) = "stream-image"
    BY StepTable, StepCount, SMT DEF Facts, RowName
  <2>3. CASE Name(pc) \notin Installs
    BY <1>3, <2>1, <2>3 DEF Ordered
  <2>4. CASE Name(pc) \in Installs
    <3>1. pc > 16
      BY <1>1, <2>4 DEF RowSets
    <3>2. {"setup-raid", "detect-disk"} \subseteq cp.completed
      BY <1>1, <2>1, <2>2, <3>1, SMT
    <3>3. pc > 17 => "wipe-disks" \in cp.completed
      BY <1>1, <2>1, <2>2, SMT
    <3>4. pc > 18 => "apply-partition-layout" \in cp.completed
      BY <1>1, <2>1, <2>2, SMT
    <3>5. pc > 19 => "stream-image" \in cp.completed
      BY <1>1, <2>1, <2>2, SMT
    <3>6. pc = 17 \/ pc = 18 \/ pc = 19 \/ pc > 19
      BY <1>1, <3>1, SMT
    <3>7. {"setup-raid", "detect-disk", "wipe-disks"} \subseteq cp'.completed
      BY <1>1, <1>3, <2>2, <3>2, <3>3, <3>6, SMT
    <3>8. "apply-partition-layout" \notin cp'.completed => cp'.completed \cap Installs \subseteq {"wipe-disks"}
      <4>1. "apply-partition-layout" \notin cp'.completed => pc = 17
        BY <1>1, <1>3, <2>2, <3>4, <3>6, SMT
      <4> QED BY <1>3, <2>1, <2>2, <4>1 DEF Ordered
    <3>9. "stream-image" \notin cp'.completed =>
            cp'.completed \cap Installs \subseteq {"wipe-disks", "apply-partition-layout"}
      <4>1. "stream-image" \notin cp'.completed => pc = 17 \/ pc = 18
        BY <1>1, <1>3, <2>2, <3>5, <3>6
      <4> QED BY <1>3, <2>1, <2>2, <4>1 DEF Ordered
    <3> QED BY <3>7, <3>8, <3>9 DEF Ordered
  <2> QED BY <2>3, <2>4
<1>8. Truthful(cp)'
  BY <1>1, <1>3, <1>5, <1>7, Numbers DEF Checkpoints, Truthful, RowName, Targets
<1>9. mem' \subseteq Memory /\ kern' \subseteq Kernel /\ stored' \subseteq low' /\ fwChanged' \in BOOLEAN
  <2>1. mem' \subseteq Memory /\ kern' \subseteq Kernel
    BY DEF StepWorks, TypeOK
  <2>2. stored' \subseteq low' /\ fwChanged' \in BOOLEAN
    BY DEF StepWorks, setupMellanox, TypeOK
  <2> QED BY <2>1, <2>2
<1>10. target' \in Targets \cup {None} /\ device' \in Targets \cup {None}
  BY <1>1, WorksFacts, DetectFacts, Numbers, ZenonT(30) DEF TypeOK
<1>11. pc # 16 => Chosen(cp)' = Chosen(cp)
  BY <1>3 DEF Chosen
<1>12. pc > 15 => target' = Chosen(cp)'
  <2>1. CASE pc = 16
    BY <1>1, <1>3, <1>4, <2>1, DetectFacts, PipelineAssumption DEF Chosen, TypeOK
  <2>2. CASE pc > 16
    BY <1>1, <1>11, <2>2, WorksFacts, SMT DEF Choice, Past
  <2> QED BY <1>1, <2>1, <2>2, SMT
<1>13. /\ content' \in [Targets -> SUBSET Installs]
       /\ \A s \in cp.completed \cap Installs : s \in content'[Chosen(cp)]
       /\ Name(pc) \in Installs => Name(pc) \in content'[Chosen(cp)]
  BY <1>1, WorksFacts, WrittenFacts
<1>14. \A s \in cp'.completed \cap Installs : s \in content'[Chosen(cp)']
  <2>1. CASE pc # 16
    BY <1>3, <1>11, <1>13, <2>1
  <2>2. CASE pc = 16 /\ (cfg.sel # "mirror" \/ cp.pair # None)
    <3>1. Chosen(cp)' = Chosen(cp)
      BY <1>3, <1>5, <2>2 DEF Chosen
    <3> QED BY <1>3, <1>13, <3>1
  <2>3. CASE pc = 16 /\ cfg.sel = "mirror" /\ cp.pair = None
    <3>1. "detect-disk" \notin cp.completed /\ Name(pc) \notin Installs
      BY <1>1, <2>3, SMT DEF Checkpoints, Truthful, RowSets
    <3>2. cp.completed \cap Installs = {}
      BY <3>1 DEF Checkpoints, Truthful, Ordered
    <3> QED BY <1>3, <3>1, <3>2
  <2> QED BY <2>1, <2>2, <2>3
<1> QED BY <1>6, <1>8, <1>9, <1>10, <1>11, <1>12, <1>13, <1>14

LEMMA StepOKKeeps ==
    ASSUME PInv, "detected" \notin LateDisks, StepOK
    PROVE  PInv'
<1> USE DEF PInv
<1>1. StepWorks /\ phase = "run" /\ pc \in 1 .. 52 /\ Facts(pc)
  BY StepTable, StepCount, WorksFacts DEF StepOK
<1>2. \/ /\ phase' = "run" /\ pc' \in pc + 1 .. 52 /\ file' = (IF cfg.resume THEN cp' ELSE file)
         /\ MustRun(pc', cp') /\ \A j \in pc + 1 .. pc' - 1 : Name(j) \in cp'.completed
         /\ \A g \in Givers : pc < g => pc' <= g
      \/ /\ phase' = "done" /\ pc' = 52
         /\ file' \in {NoCheckpoint, IF cfg.resume THEN cp' ELSE file}
         /\ \A j \in pc + 1 .. 52 : Name(j) \in cp'.completed
         /\ \A g \in Givers : g <= pc
  BY Advance
<1>3. phase' \in {"run", "done"} /\ pc' \in 1 .. 52 /\ \A g \in Givers : Past(g)' => pc >= g
  <2>1. \A g \in Givers : g \in Int
    BY SMT DEF Givers
  <2> QED BY <1>1, <1>2, <2>1, SMT DEF Past
<1>4. /\ cfg' = cfg /\ present' = present /\ low' = low /\ attempts' = attempts /\ pair' = pair
      /\ cp'.completed = cp.completed \cup {Name(pc)}
  BY <1>1, WorksFacts, SMT
<1>5. NoCheckpoint \in CpType /\ NoCheckpoint.completed = {} /\ NoCheckpoint.device = None /\ NoCheckpoint.pair = None
  BY DEF NoCheckpoint, CpType
<1>6. file' \in {NoCheckpoint, cp'} /\ (~cfg.resume => file' = NoCheckpoint) /\ (cfg.resume /\ phase' = "run" => file' = cp')
  BY <1>2 DEF Checkpoints
<1>7. TypeOK'
  <2>1. try' \in 0 .. StepRetries /\ pc' \in Index
    BY <1>3, Advance, StepCount, PipelineAssumption, SMT
  <2>2. {cp', file'} \subseteq CpType
    BY <1>1, <1>5, <1>6, WorksKeeps
  <2> QED BY <1>1, <1>3, <1>4, <2>1, <2>2, WorksKeeps DEF TypeOK, CpType
<1>8. InPlace'
  <2>1. RowGives(pc) /\ Kernel = Mounts \cup {"efivars", "lvm"} /\ Mounts = {"root", "boot", "shared", "binds"}
        /\ Memory = {"parts", "rootdev", "console"}
    BY <1>1 DEF Facts, Kernel, Mounts, Memory
  <2>2. Past(10)' => "efivars" \in kern'
    BY <1>1, <1>3, <2>1, WorksFacts, SMTT(30) DEF InPlace, Givers, RowGives
  <2>3. Past(16)' => target' # None
    BY <1>1, <1>3, WorksFacts, DetectFacts, Numbers, SMTT(30) DEF InPlace, Givers
  <2>4. /\ Past(21)' => "parts" \in mem'
        /\ Past(22)' => "rootdev" \in mem'
        /\ Past(41)' => "console" \in mem'
    BY <1>1, <1>3, <2>1, WorksFacts, SMTT(30) DEF InPlace, Givers, RowGives
  <2>5. Past(24)' => "lvm" \in kern'
    BY <1>1, <1>3, <2>1, WorksFacts, SMTT(30) DEF InPlace, Givers, RowGives
  <2>6. /\ Past(25)' /\ pc < 51 => "root" \in kern'
        /\ Past(26)' /\ pc < 51 => "boot" \in kern'
        /\ Past(34)' /\ pc < 51 => "binds" \in kern'
    BY <1>1, <1>3, <2>1, WorksFacts, SMT DEF InPlace, Givers, RowGives
  <2>7. Past(2)' /\ pc < 25 => kern' \cap Mounts = {}
    <3>1. CASE pc = 2
      BY <1>1, <2>1, <3>1, WorksFacts DEF RowGives
    <3>2. CASE pc > 2 /\ pc < 25
      BY <1>1, <2>1, <3>2, WorksFacts, SMT DEF InPlace, RowGives
    <3> QED BY <1>1, <1>3, <3>1, <3>2, SMTT(30) DEF Givers
  <2>8. Past(51)' => Handoff'
    <3>1. CASE pc = 51
      <4>1. KeepForKexec' = KeepForKexec
        BY <1>1, <3>1, WorksFacts, SMTT(30) DEF KeepForKexec
      <4>2. kern' = (kern \ (IF KeepForKexec THEN {} ELSE Mounts)) \cup (Gives(pc) \cap Kernel) /\ "root" \in kern
        BY <1>1, <3>1, WorksFacts, SMT DEF InPlace
      <4> QED BY <2>1, <3>1, <4>1, <4>2, SMT DEF Handoff, RowGives
    <3>2. CASE pc = 52
      <4>1. KeepForKexec' = KeepForKexec
        BY <1>1, <3>2, WorksFacts, SMTT(30) DEF KeepForKexec
      <4>2. kern' = kern \cup (Gives(pc) \cap Kernel) /\ Handoff
        BY <1>1, <3>2, WorksFacts, SMT DEF InPlace
      <4> QED BY <2>1, <3>2, <4>1, <4>2, SMTT(30) DEF Handoff, RowGives
    <3> QED BY <1>1, <1>3, <3>1, <3>2, SMT DEF Givers
  <2>9. phase' = "run" => /\ pc < pc'
                          /\ pc < 51 \/ pc' = 52
                          /\ pc' < 26 => pc < 25
    BY <1>1, <1>2, SMTT(30)
  <2> QED BY <1>3, <2>2, <2>3, <2>4, <2>5, <2>6, <2>7, <2>8, <2>9, SMT DEF InPlace, Past
<1>9. Checkpoints'
  <2>1. Truthful(cp)' /\ Truthful(file)'
    BY <1>1, <1>4, <1>5, <1>6, WorksKeeps DEF Truthful, Ordered
  <2>2. \A j \in 1 .. pc : Name(j) \in cp'.completed
    BY <1>1, <1>4, SMT DEF Checkpoints
  <2>3. phase' = "run" => MustRun(pc', cp') /\ \A j \in 1 .. pc' - 1 : Name(j) \in cp'.completed
    BY <1>1, <1>2, <2>2, SMT
  <2>4. phase' = "done" => Names \subseteq cp'.completed
    BY <1>1, <1>2, <2>2, StepCount, SMT DEF Names
  <2> QED BY <1>4, <1>6, <2>1, <2>3, <2>4 DEF Checkpoints, MustRun
<1>10. Choice'
  <2>1. device' = (IF pc = 15 /\ cfg.sel = "created" THEN Array ELSE device)
    BY <1>1, WorksFacts
  <2>2. phase' # "done" /\ pair' # None => file'.pair = pair'
    <3> SUFFICES ASSUME phase' = "run", pair # None PROVE file'.pair = pair
      BY <1>3, <1>4
    <3>1. file.pair = pair /\ cfg.resume /\ cp = file
      BY <1>1, <1>5 DEF Choice, Checkpoints
    <3>2. file' = cp' /\ cp'.pair = (IF pc = 16 /\ cfg.sel = "mirror" THEN DetectDisk ELSE cp.pair)
      BY <1>1, <1>6, <3>1, WorksFacts, SMT
    <3> QED BY <1>1, <3>1, <3>2, DetectFacts
  <2>3. phase' = "run" /\ cfg.sel = "created" /\ "setup-raid" \in cp'.completed => device' = Array
    BY <1>1, <1>4, <2>1, ZenonT(30) DEF Choice, Facts, RowName
  <2>4. phase' = "run" /\ pc' < 17 /\ cfg.sel = "mirror" => pair' = cp'.pair
    <3>1. phase' = "run" /\ pc' < 17 => pc < 16
      BY <1>1, <1>2, SMT
    <3> QED BY <1>1, <1>4, <3>1, WorksFacts, SMTT(30) DEF Choice
  <2>5. Past(16)' => target' = Chosen(cp)'
    <3>1. Past(16)' => pc > 15
      BY <1>1, <1>3, SMT DEF Givers
    <3> QED BY <1>1, <3>1, WorksKeeps
  <2> QED BY <1>4, <2>1, <2>2, <2>3, <2>4, <2>5 DEF Choice
<1>11. Carried'
  <2>1. \A s \in cp'.completed \cap Installs : s \in content'[Chosen(cp)']
    BY <1>1, WorksKeeps
  <2>2. \A s \in file'.completed \cap Installs : s \in content'[Chosen(file)']
    BY <1>5, <1>6, <2>1 DEF Chosen
  <2> QED BY <2>1, <2>2 DEF Carried
<1>12. Firmware'
  <2>1. Past(12)' => pc >= 12
    BY <1>3 DEF Givers
  <2> QED BY <1>1, <1>4, <2>1, WorksFacts, SMT DEF Firmware, Past
<1> QED BY <1>7, <1>8, <1>9, <1>10, <1>11, <1>12

LEMMA SaveFailsKeeps ==
    ASSUME PInv, "detected" \notin LateDisks, SaveFails
    PROVE  PInv'
<1> USE DEF PInv
<1>1. StepWorks /\ cfg.resume /\ phase = "run" /\ phase' = "failed" /\ UNCHANGED <<pc, try, file>> /\ file = cp
  BY WorksFacts DEF SaveFails, Checkpoints
<1>2. cfg' = cfg /\ present' = present /\ low' = low /\ attempts' = attempts /\ pair' = pair
  BY <1>1, WorksFacts
<1>3. TypeOK'
  <2>1. {cp', file'} \subseteq CpType
    BY <1>1, WorksKeeps DEF TypeOK, CpType
  <2> QED BY <1>1, <1>2, <2>1, WorksKeeps DEF TypeOK, CpType
<1>4. InPlace' /\ Firmware'
  BY <1>1 DEF InPlace, Firmware, Past
<1>5. Checkpoints'
  BY <1>1, <1>2, WorksKeeps DEF Checkpoints, Truthful
<1>6. Choice'
  <2>1. device' = (IF pc = 15 /\ cfg.sel = "created" THEN Array ELSE device)
    BY <1>1, WorksFacts
  <2> QED BY <1>1, <1>2, <2>1 DEF Choice, Past
<1>7. Carried'
  <2>1. Chosen(file)' = Chosen(cp)
    BY <1>1, <1>2 DEF Chosen
  <2> QED BY <1>1, <2>1, WorksKeeps DEF Carried
<1> QED BY <1>3, <1>4, <1>5, <1>6, <1>7

(* A step that fails: again, or the end of the attempt. *)
LEMMA StepErrsKeeps ==
    ASSUME PInv, StepAgain \/ StepFails
    PROVE  PInv'
<1> USE DEF PInv
<1>1. StepErrs /\ phase = "run" /\ pc \in 1 .. 52 /\ pc' = pc
  BY ErrsFacts DEF StepAgain, StepFails
<1>2. UNCHANGED <<cfg, present, low, attempts, mem, pair, target, fwChanged, cp>> /\ stored' \subseteq low /\ kern' \subseteq Kernel
  BY <1>1, ErrsFacts
<1>3. file' \in {file, cp} /\ (~cfg.resume => file' = file) /\ (cfg.resume => file = cp)
  BY <1>1 DEF StepAgain, StepFails, Checkpoints
<1>4. \/ phase' = "run" /\ kern' = kern
      \/ phase' = "failed"
  BY <1>1, ErrsFacts DEF StepAgain, StepFails, Step
<1>5. file' = file
  BY <1>3
<1>6. content' \in [Targets -> SUBSET Installs] /\ \A s \in cp.completed \cap Installs : s \in content'[Chosen(cp)]
  <2>1. CASE content' = content
    BY <1>1, <2>1 DEF TypeOK, Carried
  <2>2. CASE content' = Written(Name(pc), FALSE)
    BY <1>1, <2>2, WrittenFacts, ZenonT(30)
  <2> QED BY <1>1, <2>1, <2>2, ErrsFacts, ZenonT(30)
<1>7. device' = device \/ (pc = 15 /\ cfg.sel = "created" /\ device' = Array)
  BY <1>1, ErrsFacts
<1>8. TypeOK'
  <2>1. try' \in 0 .. StepRetries
    BY PipelineAssumption, SMT DEF StepAgain, StepFails, TypeOK
  <2>2. device' \in Targets \cup {None}
    BY <1>7, Numbers, ZenonT(30) DEF TypeOK
  <2> QED BY <1>1, <1>2, <1>4, <1>5, <1>6, <2>1, <2>2 DEF TypeOK
<1>9. InPlace' /\ Firmware'
  BY <1>1, <1>2, <1>4, SMTT(30) DEF InPlace, Firmware, Past, Handoff, KeepForKexec
<1>10. Checkpoints'
  BY <1>1, <1>2, <1>4, <1>5 DEF Checkpoints, Truthful, MustRun
<1>11. Choice'
  BY <1>1, <1>2, <1>4, <1>5, <1>7 DEF Choice, Past, Chosen
<1>12. Carried'
  <2>1. Chosen(cp)' = Chosen(cp) /\ Chosen(file)' = Chosen(file)
    BY <1>2, <1>5 DEF Chosen
  <2>2. file = cp \/ file = NoCheckpoint
    BY <1>1 DEF Checkpoints
  <2> QED BY <1>2, <1>5, <1>6, <2>1, <2>2, SMT DEF Carried, NoCheckpoint
<1> QED BY <1>8, <1>9, <1>10, <1>11, <1>12

LEMMA ProvisionKeeps ==
    ASSUME PInv, Provision
    PROVE  PInv'
<1> USE DEF PInv
<1>1. /\ phase = "start" /\ attempts < MaxAttempts /\ attempts' = attempts + 1
      /\ cp' = (IF cfg.resume THEN file ELSE NoCheckpoint)
      /\ pair' = (IF device = None /\ cp'.pair # None THEN cp'.pair ELSE pair)
      /\ device' = (IF device = None /\ cp'.device # None THEN cp'.device ELSE device)
      /\ target' = (IF device = None /\ cp'.device # None THEN cp'.device ELSE target)
      /\ Continue(1, cp', file)
      /\ UNCHANGED <<cfg, present, low, mem, fwChanged, kern, stored, content>>
  BY ZenonT(30) DEF Provision, host
<1>2. NoCheckpoint \in CpType /\ NoCheckpoint.completed = {} /\ NoCheckpoint.device = None /\ NoCheckpoint.pair = None
  BY DEF NoCheckpoint, CpType
<1>3. phase' = "run" /\ pc' \in 1 .. 2 /\ file' = file /\ try' = 0 /\ MustRun(pc', cp')
      /\ \A j \in 1 .. pc' - 1 : Name(j) \in cp'.completed
  <2>1. MustRun(2, cp')
    BY StepTable, StepCount, SMTT(30) DEF Facts, RowSets, Givers, MustRun
  <2>2. \/ /\ phase' = "run" /\ pc' \in 1 .. 52 /\ file' = file
           /\ MustRun(pc', cp') /\ \A j \in 1 .. pc' - 1 : ~MustRun(j, cp')
        \/ /\ phase' = "done" /\ pc' = 52 /\ file' \in {NoCheckpoint, file}
           /\ \A j \in 1 .. 52 : ~MustRun(j, cp')
    BY <1>1, ContinueFacts, SMT
  <2>3. phase' = "run" /\ pc' \in 1 .. 2
    BY <2>1, <2>2, SMT
  <2>4. \A j \in 1 .. pc' - 1 : Name(j) \in cp'.completed
    BY <2>2, <2>3 DEF MustRun
  <2>5. try' = 0
    BY <1>1 DEF Continue
  <2> QED BY <2>2, <2>3, <2>4, <2>5
<1>4. /\ file \in CpType /\ cp' \in CpType /\ cp'.device \in {Array, None} /\ cp'.pair \in Disks \cup {None}
      /\ cp' \in {file, NoCheckpoint} /\ (~cfg.resume => file = NoCheckpoint) /\ cp' = file
  BY <1>1, <1>2 DEF TypeOK, CpType, Checkpoints
<1>5. TypeOK'
  <2>1. attempts' \in 0 .. MaxAttempts /\ try' \in 0 .. StepRetries /\ pc' \in Index
    BY <1>1, <1>3, StepCount, PipelineAssumption, SMTT(30) DEF TypeOK
  <2>2. {cp', file'} \subseteq CpType
    BY <1>3, <1>4
  <2>3. device' \in Targets \cup {None} /\ target' \in Targets \cup {None} /\ pair' \in Disks \cup {None}
    BY <1>1, <1>4, Numbers DEF TypeOK
  <2> QED BY <1>1, <1>3, <2>1, <2>2, <2>3 DEF TypeOK, CpType
<1>6. InPlace' /\ Firmware'
  BY <1>3, SMT DEF InPlace, Firmware, Past
<1>7. Checkpoints'
  BY <1>1, <1>3, <1>4, ZenonT(30) DEF Checkpoints, Truthful, MustRun
<1>8. Choice'
  <2>1. cfg.sel = "configured" => device # None
    BY Numbers DEF Choice, Targets
  <2>2. cfg.sel # "created" => device' = device
    BY <1>1, <1>4 DEF Checkpoints, Truthful
  <2>3. cfg.sel = "created" => device' \in {None, Array} /\ ("setup-raid" \in cp'.completed => device' = Array)
    BY <1>1, <1>4, Numbers DEF Checkpoints, Truthful, Choice
  <2>4. pair' # None => file'.pair = pair'
    BY <1>1, <1>3, <1>4 DEF Choice
  <2>5. cfg.sel = "mirror" => pair' = cp'.pair
    BY <1>1, <1>4 DEF Choice
  <2>6. ~Past(16)'
    BY <1>3, SMTT(30) DEF Past
  <2> QED BY <1>1, <2>2, <2>3, <2>4, <2>5, <2>6 DEF Choice
<1>9. Carried'
  <2>1. Chosen(cp)' = Chosen(file) /\ Chosen(file)' = Chosen(file)
    BY <1>1, <1>3, <1>4 DEF Chosen
  <2> QED BY <1>1, <1>3, <1>4, <2>1 DEF Carried
<1> QED BY <1>5, <1>6, <1>7, <1>8, <1>9

(* Outside of the steps nothing that the invariant speaks of is lost. *)
LEMMA BetweenKeeps ==
    ASSUME PInv, LoadFails \/ RebootRequired \/ Retry \/ DiskAppears
    PROVE  PInv'
<1> USE DEF PInv
<1>1. /\ phase \in {"start", "run", "failed"} /\ phase' \in {"start", "failed", "reset"}
      /\ UNCHANGED <<cfg, low, pc, try, mem, device, pair, target, fwChanged, kern, stored, content, cp, file>>
  BY DEF LoadFails, RebootRequired, Retry, DiskAppears, attempt, host
<1>2. present' \in (SUBSET Disks) \ {{}} /\ (cfg.sel \notin LateDisks => present' = present)
  BY PipelineAssumption, ZenonT(30) DEF LoadFails, RebootRequired, Retry, DiskAppears, TypeOK
<1>3. TypeOK'
  <2>1. attempts' \in 0 .. MaxAttempts
    BY PipelineAssumption, SMT DEF LoadFails, RebootRequired, Retry, DiskAppears, TypeOK
  <2> QED BY <1>1, <1>2, <2>1 DEF TypeOK
<1>4. InPlace' /\ Firmware'
  BY <1>1 DEF InPlace, Firmware, Past
<1>5. Checkpoints'
  BY <1>1 DEF Checkpoints, Truthful
<1>6. Choice'
  BY <1>1, <1>2 DEF Choice, Past
<1>7. Carried'
  BY <1>1 DEF Carried, Chosen
<1> QED BY <1>3, <1>4, <1>5, <1>6, <1>7

(* A new process, in the same boot or after a reset. *)
LEMMA RestartKeeps ==
    ASSUME PInv, FreshStart \/ Reboot
    PROVE  PInv'
<1> USE DEF PInv
<1>1. NoCheckpoint \in CpType /\ NoCheckpoint.completed = {} /\ NoCheckpoint.device = None /\ NoCheckpoint.pair = None
  BY ZenonT(30) DEF NoCheckpoint, CpType
<1>2. /\ phase \in {"failed", "reset"} /\ phase' = "start" /\ pc' = 1 /\ try' = 0
      /\ mem' = {} /\ device' = ConfiguredDevice /\ pair' = None /\ target' = None /\ fwChanged' = FALSE
      /\ cp' = NoCheckpoint /\ file' \in {NoCheckpoint, file}
      /\ UNCHANGED <<cfg, present, attempts, content>>
      /\ kern' \subseteq Kernel /\ stored' \subseteq low' /\ low' \subseteq Nics
  BY DEF FreshStart, Reboot, NewOrchestrator, host, TypeOK
<1>3. TypeOK'
  <2>1. try' \in 0 .. StepRetries /\ pc' \in Index
    BY <1>2, StepCount, PipelineAssumption, SMTT(30)
  <2>2. device' \in Targets \cup {None}
    BY <1>2, Numbers, ZenonT(30) DEF ConfiguredDevice
  <2>3. {cp', file'} \subseteq CpType
    BY <1>1, <1>2 DEF TypeOK, CpType
  <2> QED BY <1>2, <2>1, <2>2, <2>3 DEF TypeOK, CpType
<1>4. InPlace' /\ Firmware'
  BY <1>2 DEF InPlace, Firmware, Past
<1>5. Checkpoints'
  BY <1>1, <1>2, ZenonT(30) DEF Checkpoints, Truthful, Ordered
<1>6. Choice'
  BY <1>2 DEF Choice, Past, ConfiguredDevice
<1>7. Carried'
  BY <1>1, <1>2 DEF Carried, Chosen
<1> QED BY <1>3, <1>4, <1>5, <1>6, <1>7

LEMMA PInvStep == ASSUME PInv, "detected" \notin LateDisks, [Next]_vars PROVE PInv'
<1>1. CASE UNCHANGED vars
  BY <1>1, SMT DEF vars, attempt, host, PInv, TypeOK, InPlace, Handoff, KeepForKexec, Checkpoints,
     Truthful,
              MustRun, Choice, Past, Chosen, Carried, Firmware
<1>2. CASE Next
  BY <1>2, ProvisionKeeps, StepOKKeeps, SaveFailsKeeps, StepErrsKeeps, BetweenKeeps, RestartKeeps
     DEF Next, Run
<1> QED BY <1>1, <1>2

-----------------------------------------------------------------------------
(* Everything that is installed has its step. *)
LEMMA InstallsAreSteps == Installs \subseteq Names
<1>1. "wipe-disks" = Name(17)
  BY DEF Name, provisionSteps
<1>2. "apply-partition-layout" = Name(18)
  BY DEF Name, provisionSteps
<1>3. "stream-image" = Name(19)
  BY DEF Name, provisionSteps
<1>4. "configure-overlayfs" = Name(28)
  BY DEF Name, provisionSteps
<1>5. "set-hostname" = Name(29)
  BY DEF Name, provisionSteps
<1>6. "copy-provisioner-files" = Name(30)
  BY DEF Name, provisionSteps
<1>7. "configure-dns" = Name(31)
  BY DEF Name, provisionSteps
<1>8. "apply-sysexts" = Name(32)
  BY DEF Name, provisionSteps
<1>9. "write-fstab" = Name(33)
  BY DEF Name, provisionSteps
<1>10. "grow-partition" = Name(35)
  BY DEF Name, provisionSteps
<1>11. "resize-filesystem" = Name(36)
  BY DEF Name, provisionSteps
<1>12. "configure-mdadm" = Name(37)
  BY DEF Name, provisionSteps
<1>13. "install-esp-sync" = Name(38)
  BY DEF Name, provisionSteps
<1>14. "configure-kubelet" = Name(39)
  BY DEF Name, provisionSteps
<1>15. "prepare-oci-prepulls" = Name(40)
  BY DEF Name, provisionSteps
<1>16. "configure-grub" = Name(42)
  BY DEF Name, provisionSteps
<1>17. "install-efi-fallback" = Name(43)
  BY DEF Name, provisionSteps
<1>18. "inject-cloudinit" = Name(45)
  BY DEF Name, provisionSteps
<1>19. "copy-machine-files" = Name(46)
  BY DEF Name, provisionSteps
<1>20. "run-machine-commands" = Name(47)
  BY DEF Name, provisionSteps
<1>21. "run-post-provision-cmds" = Name(48)
  BY DEF Name, provisionSteps
<1> QED
  BY StepCount, <1>1, <1>2, <1>3, <1>4, <1>5, <1>6, <1>7, <1>8, <1>9, <1>10, <1>11, <1>12, <1>13, SMTT(30),
     <1>14, <1>15, <1>16, <1>17, <1>18, <1>19, <1>20, <1>21 DEF Names, Installs, Destructive

(* Every attempt is sound, however many came before it and in whatever      *)
(* steps they failed: each step finds what it needs, nothing is written     *)
(* under a mount, a success has installed everything on its target, the     *)
(* handoff finds the mounts it expects, and firmware that NUM_VFS_MODE=set  *)
(* stored gets its reset.  The condition is the divergence that the run     *)
(* mounts_imaged_disk shows: with plain detection a disk must not appear    *)
(* between two attempts.                                                    *)
THEOREM AttemptsAreSoundAlways ==
    ASSUME "detected" \notin LateDisks
    PROVE  Spec => []AttemptsAreSound
<1>1. PInv => AttemptsAreSound
  <2> SUFFICES ASSUME PInv PROVE AttemptsAreSound
    OBVIOUS
  <2> USE DEF PInv
  <2>1. pc \in 1 .. 52 /\ Facts(pc)
    BY StepTable, StepCount DEF TypeOK
  <2>2. NeedsMet
    <3> SUFFICES ASSUME phase = "run", NEW n \in Needs(pc) PROVE n \in Have
      BY DEF NeedsMet
    <3> QED BY <2>1, SMT DEF InPlace, Facts, RowNeeds, Have
  <2>3. NotUnderMount
    BY <2>1 DEF NotUnderMount, InPlace, Facts, RowSets, Step
  <2>4. InstallComplete
    <3> SUFFICES ASSUME phase = "done" PROVE target # None /\ Installs \subseteq content[target]
      BY DEF InstallComplete
    <3>1. target = Chosen(cp) /\ \A s \in cp.completed \cap Installs : s \in content[Chosen(cp)]
      BY DEF Choice, Past, Carried
    <3>2. Installs \subseteq Names
      BY InstallsAreSteps
    <3>3. Installs \subseteq cp.completed
      BY <3>2 DEF Checkpoints
    <3>4. "detect-disk" \in Names
      BY StepTable, StepCount, SMT DEF Names, Facts, RowName
    <3>5. target # None
      BY <3>1, <3>4, Numbers, PipelineAssumption DEF Chosen, Checkpoints, Truthful, TypeOK, Targets
    <3> QED BY <3>1, <3>3, <3>5
  <2>5. HandoffMounts
    BY DEF HandoffMounts, InPlace, Handoff
  <2>6. SetFirmwareGetsReset
    BY DEF SetFirmwareGetsReset, FirmwareGetsReset, Firmware, Past, TypeOK
  <2> QED BY <2>2, <2>3, <2>4, <2>5, <2>6 DEF AttemptsAreSound
<1>2. Init => PInv
  BY InitPInv
<1>3. PInv /\ [Next]_vars => PInv'
  BY PInvStep
<1> QED BY <1>1, <1>2, <1>3, PTL DEF Spec

(* The root that is mounted lies on the disk that was imaged, also when     *)
(* the image was written by an earlier attempt.                             *)
THEOREM MountsImagedDiskAlways ==
    ASSUME "detected" \notin LateDisks
    PROVE  Spec => []MountsImagedDisk
<1>1. PInv => MountsImagedDisk
  <2> SUFFICES ASSUME PInv, phase = "run", Step = "mount-root" PROVE "stream-image" \in content[target]
    BY DEF MountsImagedDisk
  <2> USE DEF PInv
  <2>1. pc = 25 /\ Name(19) = "stream-image"
    BY StepTable, StepCount, SMT DEF TypeOK, Facts, RowName, Step
  <2>2. "stream-image" \in cp.completed \cap Installs
    BY <2>1, SMT DEF Checkpoints, Installs, Destructive
  <2>3. target = Chosen(cp)
    BY <2>1, SMT DEF Choice, Past
  <2> QED BY <2>2, <2>3 DEF Carried
<1>2. Init => PInv
  BY InitPInv
<1>3. PInv /\ [Next]_vars => PInv'
  BY PInvStep
<1> QED BY <1>1, <1>2, <1>3, PTL DEF Spec

(* A resume never destroys what a saved checkpoint says was imaged: no step *)
(* that runs after it, works or fails, takes content from a disk.           *)
THEOREM ResumeKeepsContentAlways ==
    ASSUME "detected" \notin LateDisks
    PROVE  Spec => ResumeKeepsContent
<1> DEFINE Keeps == file.completed \cap {"stream-image"} # {} => \A d \in Targets : content[d] \subseteq content'[d]
<1>1. PInv /\ [Next]_vars => [Keeps]_vars
  <2> SUFFICES ASSUME PInv, Next, "stream-image" \in file.completed, NEW d \in Targets
               PROVE  content[d] \subseteq content'[d]
    OBVIOUS
  <2> USE DEF PInv
  <2>1. ASSUME phase = "run", NEW done \in BOOLEAN
        PROVE  content[d] \subseteq Written(Name(pc), done)[d]
    <3>1. pc \in 1 .. 52 /\ RowName(pc) /\ RowSets(pc) /\ content \in [Targets -> SUBSET Installs] /\ MustRun(pc, cp)
      BY <2>1, StepTable, StepCount DEF TypeOK, Facts, Checkpoints
    <3>2. "stream-image" \in cp.completed \cap Installs /\ Ordered(cp.completed)
      BY <2>1, SMT DEF Checkpoints, Truthful, NoCheckpoint, Installs, Destructive
    <3>3. {"setup-raid", "wipe-disks", "apply-partition-layout", "stream-image"} \subseteq cp.completed
      BY <3>2 DEF Ordered
    <3>4. pc \notin {15, 17, 18, 19}
      BY <3>1, <3>3 DEF MustRun, RowName, RowSets
    <3>5. Kept(Name(pc)) = Installs /\ Name(pc) # "setup-raid"
      BY <3>1, <3>4 DEF Kept, RowName
    <3>6. target # None => target \in Targets
      BY DEF TypeOK
    <3> QED BY <3>1, <3>5, <3>6 DEF Written
  <2>2. CASE StepOK \/ SaveFails
    BY <2>1, <2>2 DEF StepOK, SaveFails, StepWorks, Step
  <2>3. CASE StepAgain \/ StepFails
    BY <2>1, <2>3 DEF StepAgain, StepFails, StepErrs, Step
  <2>4. CASE Provision \/ LoadFails \/ RebootRequired \/ Retry \/ FreshStart \/ Reboot \/ DiskAppears
    BY <2>4 DEF Provision, LoadFails, RebootRequired, Retry, FreshStart, Reboot, DiskAppears, host
  <2> QED BY <2>2, <2>3, <2>4 DEF Next, Run
<1>2. Init => PInv
  BY InitPInv
<1>3. PInv /\ [Next]_vars => PInv'
  BY PInvStep
<1> QED BY <1>1, <1>2, <1>3, PTL DEF Spec, ResumeKeepsContent
=============================================================================
