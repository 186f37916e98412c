-------------------------- MODULE TargetFilesProofs --------------------------
(***************************************************************************)
(* Proofs about what the configuration steps write into the target: for     *)
(* every configuration, any number of failed writes, interruptions, retries *)
(* and attempts, with and without a resume.                                 *)
(*                                                                         *)
(* The inductive invariant says of every write what holds once it is made.  *)
(* It has one conjunct for each group of files; the step of each is proved  *)
(* on its own, from the order of the steps alone.  The numbers are the      *)
(* places of the steps in targetSteps, see StepNames.                       *)
(***************************************************************************)
EXTENDS TargetFiles, TLAPS

USE Zenon

-----------------------------------------------------------------------------
(* The number of writes of step k, the stream counts as one.                *)
Count(k) ==
    IF k = 1 THEN IF tjob.uefi THEN 1 ELSE 0
    ELSE IF k \in {2, 4, 5, 11} THEN 1
    ELSE IF k \in {3, 14} THEN 2
    ELSE IF k \in {7, 16, 18} THEN 3
    ELSE IF k = 6 THEN 5
    ELSE IF k = 8 THEN IF tjob.disk = "ab" THEN 2 ELSE IF HasLayout(tjob) THEN 1 ELSE 0
    ELSE IF k = 9 THEN IF Mirrored(tjob) THEN 5 ELSE 0
    ELSE IF k = 10 THEN IF Mirrored(tjob) THEN 4 ELSE 0
    ELSE IF k = 12 THEN 6
    ELSE IF k = 13 THEN IF tjob.grub = "resolved" THEN 4 ELSE 0
    ELSE IF k = 15 THEN IF tjob.disk = "ab" THEN 3 ELSE 0
    ELSE IF k = 17 THEN (IF "grub.d" \in tjob.machine THEN 1 ELSE 0)
                        + (IF "kubelet" \in tjob.machine THEN 1 ELSE 0)
    ELSE IF k = 19 THEN IF tjob.uefi /\ tjob.vars /\ tjob.disk # "ab" THEN 1 ELSE 0
    ELSE IF k = 20 THEN IF ~Mirrored(tjob) THEN 0
                        ELSE IF ~tjob.uefi THEN 3 ELSE IF tjob.vars THEN 2 ELSE 1
    ELSE 0

(* Write w of step k is made: the checkpoint lists the step, or the step is  *)
(* beyond that write.  The steps that run again are judged by Now.           *)
Past(k, w) == targetSteps[k] \in complete \/ (at = k /\ wr > w)
Now(w) == at > 14 \/ (at = 14 /\ wr > w)
Imaged == Past(2, 1)

(* The checkpoint lists the steps in their order, and all before this one.   *)
StepInv ==
    /\ at \in 1 .. 22 /\ wr \in Nat \ {0} /\ DOMAIN file = Paths /\ tjob \in TargetJobs
    /\ \A i \in 1 .. at - 1 : targetSteps[i] \in complete
    /\ \A k \in 1 .. 21 : targetSteps[k] \in complete => \A i \in 1 .. k - 1 : targetSteps[i] \in complete
    /\ at <= 21 => targetSteps[at] \notin complete \/ at \in {13, 14}
    /\ tphase = "done" => at = 22

(* The overlay configuration; host name, provisioner files, DNS and units.   *)
Dirs == Past(3, 2) => file["overlayroot"] = {"config", "dirs"}
Names ==
    /\ Past(4, 1) => file["hostname"] = {"config"}
    /\ Past(5, 1) => file["provisioner"] = {"config"}
    /\ Past(6, 2) => file["resolv.conf"] = {"config"}
    /\ Past(6, 5) => file["network"] = {"link", "vlan"}
(* The layers: the catalog lists one only when it is there.                  *)
Layers ==
    /\ Past(7, 1) => file["sysext1"] = {"layer"}
    /\ Past(7, 2) => file["sysext2"] = {"layer"}
    /\ Imaged => file["sysext catalog"] \ {"layer"} = {"image layer"}
    /\ Past(7, 3) => "layer" \in file["sysext catalog"]
    /\ "layer" \in file["sysext catalog"] => file["sysext1"] = {"layer"}
(* The fstab: of the image, of the layout, or moved to the arrays; the slot   *)
(* file of A/B mode.                                                         *)
ImageTab(j) == IF j.disk = "mirror-boot" THEN {"/ part", "/boot/efi part"}
               ELSE {"/ part", "/boot/efi part", "/data fs"}
Tab ==
    /\ HasLayout(tjob) /\ Past(8, 1) => file["fstab"] = Wanted(tjob, "fstab")
    /\ tjob.disk = "whole" /\ Imaged => file["fstab"] = ImageTab(tjob)
    /\ tjob.disk = "ab" /\ Past(8, 2) => file["ab-slot.env"] = {"slot"}
    /\ tjob.disk # "ab" /\ Imaged => file["ab-slot.env"] = {}
    /\ Mirrored(tjob) /\ Imaged => file["fstab"] \in {ImageTab(tjob), Wanted(tjob, "fstab")}
    /\ Mirrored(tjob) /\ Past(9, 3) => file["fstab"] = Wanted(tjob, "fstab")
(* The files of the mirror, and the initramfs that is built from them.       *)
Raid ==
    /\ Mirrored(tjob) =>
        /\ Past(9, 1) => file["mdadm.conf"] = Arrays(tjob)
        /\ Past(9, 2) => file["dracut"] = {"rd.md.uuid"}
        /\ Past(9, 4) => file["grub.d mirror"] = {"no PARTUUID"}
        /\ Past(9, 5) => file["initramfs"] = Arrays(tjob) \cup {"rd.md.uuid"}
    /\ ~Mirrored(tjob) /\ Imaged => file["grub.d mirror"] = {} /\ file["initramfs"] = {"image"}
(* The ESP synchronisation: the link only with unit and helper.              *)
Sync ==
    /\ Mirrored(tjob) =>
        /\ Past(10, 1) => file["esp-sync"] = {"helper"}
        /\ Past(10, 2) => file["esp-sync.service"] = {"unit"}
        /\ Past(10, 4) => file["esp-sync link"] = {"unit"}
    /\ ~Mirrored(tjob) /\ Imaged => file["esp-sync link"] = {}
    /\ file["esp-sync link"] # {} => file["esp-sync.service"] = {"unit"} /\ file["esp-sync"] = {"helper"}
(* The kubelet arguments, unless a write in place has cut them off.          *)
Kubelet ==
    "kubelet" \notin cut =>
        /\ Imaged /\ targetSteps[11] \notin complete =>
            file["kubelet"] \in {{"--v", "--provider-id=image"}, {"--v", "--provider-id=config"}}
        /\ "kubelet" \notin tjob.machine /\ Past(11, 1) => file["kubelet"] = {"--v", "--provider-id=config"}
        /\ "kubelet" \in tjob.machine /\ Past(17, Count(17)) => file["kubelet"] = {"machine"}
(* The pre-pulled images: the list after the archive, the link last.         *)
Pulls ==
    /\ Past(12, 1) => file["archive"] = {"image1", "image2"}
    /\ Past(12, 2) => file["import list"] = {"image1", "image2"}
    /\ Past(12, 3) => file["importer"] = {"script"}
    /\ Past(12, 4) => file["prepull.service"] = {"unit"}
    /\ Past(12, 6) => file["prepull link"] = {"unit"}
    /\ file["import list"] \subseteq {"image1", "image2"}
    /\ file["import list"] \subseteq file["archive"]
    /\ file["prepull link"] # {} =>
        file["prepull.service"] = {"unit"} /\ file["importer"] = {"script"} /\ file["import list"] # {}
(* The consoles, and the grub.cfg that every attempt makes again.            *)
Console ==
    /\ tjob.grub = "resolved" /\ Past(13, 4) => file["getty links"] = {"ttyS1"}
    /\ tjob.grub # "resolved" /\ Imaged => file["getty links"] = {"ttyS0"}
Grub ==
    "grub.d" \notin tjob.machine =>
        /\ Now(1) => file["grub.d"] = Wanted(tjob, "getty links")
        /\ Now(2) => file["grub.cfg"] = Wanted(tjob, "grub.cfg")
(* The loader: its grub.cfg names a marker that is in place.                 *)
Loader ==
    /\ tjob.disk = "ab" /\ Past(15, 2) => file["loader"] = {"bundled"}
    /\ tjob.disk # "ab" /\ Imaged => file["loader"] = {"image"}
    /\ at = 15 /\ wr > 1 => HandoffID \in file["marker"]
    /\ file["esp grub.cfg"] \subseteq file["marker"]
(* The cloud-init seed and the machine commands.                             *)
Seed ==
    /\ Past(16, 2) => file["network-config"] = {"config"}
    /\ Past(16, 3) => file["user-data"] = {"config"}
Commands ==
    /\ Past(18, 2) => file["commands"] = {"ran"}
    /\ Past(18, 3) => file["script"] = {}
(* The firmware entries; the second disk has one after its ESP is copied.    *)
Firmware ==
    tjob.uefi =>
        /\ Unmanaged \in file["nvram"]
        /\ tjob.must /\ Past(1, 1) => file["nvram"] \cap {"old disk1", "old disk2"} = {}
        /\ tjob.disk = "ab" => file["nvram"] \cap {"disk1", "disk2"} = {}
        /\ tjob.vars /\ tjob.disk # "ab" /\ Past(19, 1) => "disk1" \in file["nvram"]
        /\ tjob.vars /\ Mirrored(tjob) /\ Past(20, 2) => "disk2" \in file["nvram"]
Second ==
    Mirrored(tjob) =>
        /\ tjob.uefi /\ Past(20, 1) => file["esp2"] = Esp(file)
        /\ ~tjob.uefi /\ Past(20, 2) => file["mbr"] = {"disk1", "disk2"}

FileInv == /\ Dirs /\ Names /\ Layers /\ Tab /\ Raid /\ Sync /\ Kubelet /\ Pulls /\ Console /\ Grub
           /\ Loader /\ Seed /\ Commands /\ Firmware /\ Second
TInv == StepInv /\ FileInv

-----------------------------------------------------------------------------
(* The steps have different names, and two of them run again on a resume.    *)
LEMMA StepNames ==
    /\ Len(targetSteps) = 21
    /\ \A i, k \in 1 .. 21 : targetSteps[i] = targetSteps[k] => i = k
    /\ \A k \in 1 .. 21 : targetSteps[k] \in rerunOnResume <=> k \in {13, 14}
    /\ \A k \in 1 .. 21 : targetSteps[k] = "stream-image" <=> k = 2
    /\ \A k \in 1 .. 21 : targetSteps[k] = "remove-efi-entries" <=> k = 1
BY SMTT(30) DEF targetSteps, rerunOnResume

(* An attempt has a next step from every step on, or it is over.             *)
Starts(i, done, k) ==
    /\ k \in i .. 22
    /\ k <= 21 => targetSteps[k] \notin done \/ k \in {13, 14}
    /\ \A m \in i .. k - 1 : targetSteps[m] \in done /\ m \notin {13, 14}

(* What an attempt skips is in the checkpoint.                               *)
LEMMA StartsChain ==
    ASSUME NEW done, NEW i \in 1 .. 21, \E k \in i + 1 .. 22 : Starts(i + 1, done, k)
    PROVE  \E k \in i .. 22 : Starts(i, done, k)
<1>1. CASE targetSteps[i] \notin done \/ i \in {13, 14}
  <2>1. Starts(i, done, i)
    BY <1>1, SMT DEF Starts
  <2> QED
    BY <2>1, SMT
<1>2. CASE targetSteps[i] \in done /\ i \notin {13, 14}
  <2>1. PICK k \in i + 1 .. 22 : Starts(i + 1, done, k)
    OBVIOUS
  <2>2. Starts(i, done, k)
    BY <1>2, <2>1, SMT DEF Starts
  <2> QED
    BY <2>2, SMT
<1> QED
  BY <1>1, <1>2

(* Every attempt has a step to start with, or is done.                       *)
LEMMA StartsExist ==
    ASSUME NEW done, NEW i \in 1 .. 22
    PROVE  \E k \in i .. 22 : Starts(i, done, k)
<1> DEFINE E(n) == \E k \in n .. 22 : Starts(n, done, k)
           Bad == {n \in 1 .. 22 : ~E(n)}
<1>1. 22 \notin Bad
  <2>1. Starts(22, done, 22)
    BY SMT DEF Starts
  <2> QED
    BY <2>1, SMT
<1>2. \A n \in 1 .. 21 : E(n + 1) => E(n)
  BY StartsChain
<1> HIDE DEF E
<1>3. \A n \in Bad : n \in 1 .. 22 /\ (n # 22 => n + 1 \in Bad)
  BY <1>2, SMT
<1>4. i \notin Bad => E(i)
  OBVIOUS
<1> HIDE DEF Bad
<1>5. ASSUME i \in Bad PROVE FALSE
  <2>1. \A n \in Bad : n <= 20 => n + 2 \in Bad
    BY <1>3, SMT
  <2>2. ASSUME NEW n \in Bad, n <= 18 PROVE n + 4 \in Bad
    <3>1. n \in 1 .. 22 /\ n + 2 \in Bad
      BY <1>3, <2>1, <2>2, SMT
    <3>2. (n + 2) + 2 \in Bad
      BY <3>1, <2>1, <2>2, SMT
    <3>3. (n + 2) + 2 = n + 4
      BY <3>1, SMT
    <3> QED
      BY <3>2, <3>3
  <2>3. ASSUME NEW n \in Bad, n <= 14 PROVE n + 8 \in Bad
    <3>1. n \in 1 .. 22 /\ n + 4 \in Bad
      BY <1>3, <2>2, <2>3, SMT
    <3>2. (n + 4) + 4 \in Bad
      BY <3>1, <2>2, <2>3, SMT
    <3>3. (n + 4) + 4 = n + 8
      BY <3>1, SMT
    <3> QED
      BY <3>2, <3>3
  <2>4. PICK n \in Bad : n >= 9
    BY <1>3, <1>5, <2>3, SMT
  <2>5. PICK m \in Bad : m >= 15
    BY <1>3, <2>3, <2>4, SMT
  <2>6. PICK l \in Bad : l >= 19
    BY <1>3, <2>2, <2>5, SMT
  <2> QED
    BY <1>1, <1>3, <2>1, <2>6, SMT
<1> QED
  BY <1>4, <1>5 DEF E

(* FirstStep is such a step.                                                 *)
LEMMA FirstStepStarts ==
    ASSUME NEW done, NEW i \in 1 .. 22
    PROVE  Starts(i, done, FirstStep(i, done))
<1> DEFINE C(k) == /\ k <= 21 => targetSteps[k] \notin done \/ targetSteps[k] \in rerunOnResume
                   /\ \A m \in i .. k - 1 : targetSteps[m] \in done /\ targetSteps[m] \notin rerunOnResume
<1>1. \A k \in i .. 22 : C(k) <=> Starts(i, done, k)
  BY StepNames, SMT DEF Starts
<1>2. FirstStep(i, done) = CHOOSE k \in i .. 22 : C(k)
  BY StepNames, SMT DEF FirstStep
<1>3. \E k \in i .. 22 : C(k)
  BY <1>1, StartsExist
<1> HIDE DEF C
<1>4. /\ (CHOOSE k \in i .. 22 : C(k)) \in i .. 22
      /\ C(CHOOSE k \in i .. 22 : C(k))
  BY <1>3
<1> QED
  BY <1>1, <1>2, <1>4

(* A step that does not run again is not in the checkpoint while it runs,    *)
(* nor is a later one.                                                       *)
LEMMA LaterIsOpen ==
    ASSUME StepInv, at <= 21, at \notin {13, 14}, NEW k \in at .. 21
    PROVE  targetSteps[k] \notin complete
BY SMT DEF StepInv

-----------------------------------------------------------------------------
(* The writes of each step.                                                  *)
(* The next write of the step.                                               *)
Is(p, v, h) == Ws[wr].path = p /\ Ws[wr].value = v /\ Ws[wr].how = h

(* The parts of a write.                                                     *)
LEMMA WriteIs ==
    ASSUME NEW p, NEW v
    PROVE  /\ Ws[wr] = writeFileAtomic(p, v) => Is(p, v, "rename")
           /\ Ws[wr] = copyRegularFile(p, v) => Is(p, v, "rename")
           /\ Ws[wr] = makeEntry(p, v) => Is(p, v, "rename")
           /\ Ws[wr] = writeInPlace(p, v) => Is(p, v, "inplace")
           /\ Ws[wr] = runTool(p, v) => Is(p, v, "tool")
           /\ \A h : Ws[wr] = [path |-> p, value |-> v, how |-> h] => Is(p, v, h)
BY SMT DEF writeFileAtomic, copyRegularFile, makeEntry, writeInPlace, runTool, Is

(* Which operation a step runs.                                              *)
LEMMA WritesOfStep ==
    ASSUME at \in 1 .. 21
    PROVE  /\ at = 1 => Ws = RemoveEFIBootEntries(file, tjob)
           /\ at = 2 => Ws = <<>>
           /\ at = 3 => Ws = ConfigureOverlayFS(file, tjob)
           /\ at = 4 => Ws = SetHostname(file, tjob)
           /\ at = 5 => Ws = CopyProvisionerFiles(file, tjob)
           /\ at = 6 => Ws = configureDNS(file, tjob)
           /\ at = 7 => Ws = ApplySysexts(file, tjob)
           /\ at = 8 => Ws = writeFstabStep(file, tjob)
           /\ at = 9 => Ws = configureMdadmAt(file, tjob)
           /\ at = 10 => Ws = InstallESPSync(file, tjob)
           /\ at = 11 => Ws = updateKubeletExtraArgs(file, tjob)
           /\ at = 12 => Ws = PrepareOCIPrePulls(file, tjob)
           /\ at = 13 => Ws = ConfigureSerialConsole(file, tjob)
           /\ at = 14 => Ws = ConfigureGRUB(file, tjob)
           /\ at = 15 => Ws = installBundledEFIFallbackLoader(file, tjob)
           /\ at = 16 => Ws = writeSeedFiles(file, tjob)
           /\ at = 17 => Ws = CopyMachineFiles(file, tjob)
           /\ at = 18 => Ws = runMachineCommandScript(file, tjob)
           /\ at = 19 => Ws = createEFIBootEntry(file, tjob)
           /\ at = 20 => Ws = createMirrorEFIBootEntry(file, tjob)
           /\ at = 21 => Ws = <<>>
<1>1. at = 1 => Ws = RemoveEFIBootEntries(file, tjob)
  BY SMT DEF Ws, Writes, Step, targetSteps
<1>2. at = 2 => Ws = <<>>
  BY SMT DEF Ws, Writes, Step, targetSteps
<1>3. at = 3 => Ws = ConfigureOverlayFS(file, tjob)
  BY SMT DEF Ws, Writes, Step, targetSteps
<1>4. at = 4 => Ws = SetHostname(file, tjob)
  BY SMT DEF Ws, Writes, Step, targetSteps
<1>5. at = 5 => Ws = CopyProvisionerFiles(file, tjob)
  BY SMT DEF Ws, Writes, Step, targetSteps
<1>6. at = 6 => Ws = configureDNS(file, tjob)
  BY SMT DEF Ws, Writes, Step, targetSteps
<1>7. at = 7 => Ws = ApplySysexts(file, tjob)
  BY SMT DEF Ws, Writes, Step, targetSteps
<1>8. at = 8 => Ws = writeFstabStep(file, tjob)
  BY SMT DEF Ws, Writes, Step, targetSteps
<1>9. at = 9 => Ws = configureMdadmAt(file, tjob)
  BY SMT DEF Ws, Writes, Step, targetSteps
<1>10. at = 10 => Ws = InstallESPSync(file, tjob)
  BY SMT DEF Ws, Writes, Step, targetSteps
<1>11. at = 11 => Ws = updateKubeletExtraArgs(file, tjob)
  BY SMT DEF Ws, Writes, Step, targetSteps
<1>12. at = 12 => Ws = PrepareOCIPrePulls(file, tjob)
  BY SMT DEF Ws, Writes, Step, targetSteps
<1>13. at = 13 => Ws = ConfigureSerialConsole(file, tjob)
  BY SMT DEF Ws, Writes, Step, targetSteps
<1>14. at = 14 => Ws = ConfigureGRUB(file, tjob)
  BY SMT DEF Ws, Writes, Step, targetSteps
<1>15. at = 15 => Ws = installBundledEFIFallbackLoader(file, tjob)
  BY SMT DEF Ws, Writes, Step, targetSteps
<1>16. at = 16 => Ws = writeSeedFiles(file, tjob)
  BY SMT DEF Ws, Writes, Step, targetSteps
<1>17. at = 17 => Ws = CopyMachineFiles(file, tjob)
  BY SMT DEF Ws, Writes, Step, targetSteps
<1>18. at = 18 => Ws = runMachineCommandScript(file, tjob)
  BY SMT DEF Ws, Writes, Step, targetSteps
<1>19. at = 19 => Ws = createEFIBootEntry(file, tjob)
  BY SMT DEF Ws, Writes, Step, targetSteps
<1>20. at = 20 => Ws = createMirrorEFIBootEntry(file, tjob)
  BY SMT DEF Ws, Writes, Step, targetSteps
<1>21. at = 21 => Ws = <<>>
  BY SMT DEF Ws, Writes, Step, targetSteps
<1> QED
  BY <1>1, <1>2, <1>3, <1>4, <1>5, <1>6, <1>7, <1>8, <1>9, <1>10, <1>11, <1>12, <1>13, <1>14, <1>15, <1>16, <1>17, <1>18, <1>19, <1>20, <1>21
(* The writes of configure-overlayfs.                                        *)
LEMMA Writes3 ==
    ASSUME at = 3, wr \in Nat \ {0}
    PROVE  /\ Len(Ws) = Count(3)
           /\ wr <= Len(Ws) =>
                /\ wr \in {1, 2}
                /\ wr = 1 => Is("overlayroot", {"config"}, "rename")
                /\ wr = 2 => Is("overlayroot", {"config", "dirs"}, "rename")
<1> DEFINE a == writeFileAtomic("overlayroot", {"config"})
           b == makeEntry("overlayroot", {"config", "dirs"})
<1>1. Ws = ConfigureOverlayFS(file, tjob)
  <2>1. at \in 1 .. 21
    BY SMT
  <2> QED
    BY <2>1, WritesOfStep
<1>2. Ws = <<a, b>>
  BY <1>1 DEF ConfigureOverlayFS
<1>3. Count(3) = 2
  BY SMT DEF Count
<1> HIDE DEF a, b
<1>4. /\ Len(Ws) = Count(3)
      /\ wr <= Len(Ws) => /\ wr \in {1, 2}
                          /\ wr = 1 => Ws[wr] = a
                          /\ wr = 2 => Ws[wr] = b
  BY <1>2, <1>3, SMT
<1> QED
  BY <1>4, WriteIs DEF a, b

(* The writes of set-hostname.                                               *)
LEMMA Writes4 ==
    ASSUME at = 4, wr \in Nat \ {0}
    PROVE  /\ Len(Ws) = Count(4)
           /\ wr <= Len(Ws) =>
                /\ wr \in {1}
                /\ wr = 1 => Is("hostname", {"config"}, "inplace")
<1> DEFINE a == writeInPlace("hostname", {"config"})
<1>1. Ws = SetHostname(file, tjob)
  <2>1. at \in 1 .. 21
    BY SMT
  <2> QED
    BY <2>1, WritesOfStep
<1>2. Ws = <<a>>
  BY <1>1 DEF SetHostname
<1>3. Count(4) = 1
  BY SMT DEF Count
<1> HIDE DEF a
<1>4. /\ Len(Ws) = Count(4)
      /\ wr <= Len(Ws) => /\ wr \in {1}
                          /\ wr = 1 => Ws[wr] = a
  BY <1>2, <1>3, SMT
<1> QED
  BY <1>4, WriteIs DEF a

(* The writes of copy-provisioner-files.                                     *)
LEMMA Writes5 ==
    ASSUME at = 5, wr \in Nat \ {0}
    PROVE  /\ Len(Ws) = Count(5)
           /\ wr <= Len(Ws) =>
                /\ wr \in {1}
                /\ wr = 1 => Is("provisioner", {"config"}, "inplace")
<1> DEFINE a == writeInPlace("provisioner", {"config"})
<1>1. Ws = CopyProvisionerFiles(file, tjob)
  <2>1. at \in 1 .. 21
    BY SMT
  <2> QED
    BY <2>1, WritesOfStep
<1>2. Ws = <<a>>
  BY <1>1 DEF CopyProvisionerFiles
<1>3. Count(5) = 1
  BY SMT DEF Count
<1> HIDE DEF a
<1>4. /\ Len(Ws) = Count(5)
      /\ wr <= Len(Ws) => /\ wr \in {1}
                          /\ wr = 1 => Ws[wr] = a
  BY <1>2, <1>3, SMT
<1> QED
  BY <1>4, WriteIs DEF a

(* The writes of configure-dns.                                              *)
LEMMA Writes6 ==
    ASSUME at = 6, wr \in Nat \ {0}
    PROVE  /\ Len(Ws) = Count(6)
           /\ wr <= Len(Ws) =>
                /\ wr \in {1, 2, 3, 4, 5}
                /\ wr = 1 => Is("resolv.conf", {}, "rename")
                /\ wr = 2 => Is("resolv.conf", {"config"}, "inplace")
                /\ wr = 3 => Is("network", file["network"] \cup {"link"}, "rename")
                /\ wr = 4 => Is("network", file["network"] \cup {"link", "vlan"}, "rename")
                /\ wr = 5 => Is("network", {"link", "vlan"}, "rename")
<1> DEFINE a == makeEntry("resolv.conf", {})
           b == writeInPlace("resolv.conf", {"config"})
           c == writeFileAtomic("network", file["network"] \cup {"link"})
           d == writeFileAtomic("network", file["network"] \cup {"link", "vlan"})
           e == makeEntry("network", {"link", "vlan"})
<1>1. Ws = configureDNS(file, tjob)
  <2>1. at \in 1 .. 21
    BY SMT
  <2> QED
    BY <2>1, WritesOfStep
<1>2. Ws = <<a, b>> \o <<c, d, e>>
  BY <1>1 DEF configureDNS, ConfigureDNS, persistNetworkConfig
<1>3. Count(6) = 5
  BY SMT DEF Count
<1> HIDE DEF a, b, c, d, e
<1>4. /\ Len(Ws) = Count(6)
      /\ wr <= Len(Ws) => /\ wr \in {1, 2, 3, 4, 5}
                          /\ wr = 1 => Ws[wr] = a
                          /\ wr = 2 => Ws[wr] = b
                          /\ wr = 3 => Ws[wr] = c
                          /\ wr = 4 => Ws[wr] = d
                          /\ wr = 5 => Ws[wr] = e
  BY <1>2, <1>3, SMT
<1> QED
  BY <1>4, WriteIs DEF a, b, c, d, e

(* The writes of apply-sysexts.                                              *)
LEMMA Writes7 ==
    ASSUME at = 7, wr \in Nat \ {0}
    PROVE  /\ Len(Ws) = Count(7)
           /\ wr <= Len(Ws) =>
                /\ wr \in {1, 2, 3}
                /\ wr = 1 => Is("sysext1", {"layer"}, "rename")
                /\ wr = 2 => Is("sysext2", {"layer"}, "rename")
                /\ wr = 3 => Is("sysext catalog", file["sysext catalog"] \cup {"layer"}, "rename")
<1> DEFINE a == copyRegularFile("sysext1", {"layer"})
           b == copyRegularFile("sysext2", {"layer"})
           c == writeFileAtomic("sysext catalog", file["sysext catalog"] \cup {"layer"})
<1>1. Ws = ApplySysexts(file, tjob)
  <2>1. at \in 1 .. 21
    BY SMT
  <2> QED
    BY <2>1, WritesOfStep
<1>2. Ws = <<a, b, c>>
  BY <1>1 DEF ApplySysexts
<1>3. Count(7) = 3
  BY SMT DEF Count
<1> HIDE DEF a, b, c
<1>4. /\ Len(Ws) = Count(7)
      /\ wr <= Len(Ws) => /\ wr \in {1, 2, 3}
                          /\ wr = 1 => Ws[wr] = a
                          /\ wr = 2 => Ws[wr] = b
                          /\ wr = 3 => Ws[wr] = c
  BY <1>2, <1>3, SMT
<1> QED
  BY <1>4, WriteIs DEF a, b, c

(* The writes of write-fstab.                                                *)
LEMMA Writes8 ==
    ASSUME at = 8, wr \in Nat \ {0}
    PROVE  /\ Len(Ws) = Count(8)
           /\ wr <= Len(Ws) =>
                /\ HasLayout(tjob) /\ wr \in {1, 2}
                /\ wr = 1 => Is("fstab", {"/ fs", "/boot/efi fs"}, "inplace")
                /\ wr = 2 => tjob.disk = "ab" /\ Is("ab-slot.env", {"slot"}, "rename")
<1> DEFINE a == writeInPlace("fstab", {"/ fs", "/boot/efi fs"})
           b == writeFileAtomic("ab-slot.env", {"slot"})
<1>1. Ws = writeFstabStep(file, tjob)
  <2>1. at \in 1 .. 21
    BY SMT
  <2> QED
    BY <2>1, WritesOfStep
<1>2. Ws = (IF HasLayout(tjob) THEN <<a>> ELSE <<>>) \o (IF tjob.disk = "ab" THEN <<b>> ELSE <<>>)
  BY <1>1 DEF writeFstabStep, When
<1>3. Count(8) = IF tjob.disk = "ab" THEN 2 ELSE IF HasLayout(tjob) THEN 1 ELSE 0
  BY SMT DEF Count
<1>4. tjob.disk = "ab" => HasLayout(tjob)
  BY DEF HasLayout
<1> HIDE DEF a, b
<1>5. /\ Len(Ws) = Count(8)
      /\ wr <= Len(Ws) => /\ HasLayout(tjob) /\ wr \in {1, 2}
                          /\ wr = 1 => Ws[wr] = a
                          /\ wr = 2 => tjob.disk = "ab" /\ Ws[wr] = b
  <2>1. CASE tjob.disk = "ab"
    <3>1. Ws = <<a>> \o <<b>>
      BY <1>2, <1>4, <2>1
    <3>2. Len(<<a>> \o <<b>>) = 2
      BY SMT
    <3>3. (<<a>> \o <<b>>)[1] = a /\ (<<a>> \o <<b>>)[2] = b
      BY SMT
    <3>4. Count(8) = 2
      BY <1>3, <2>1
    <3>5. wr \in Nat \ {0} /\ wr <= 2 => wr \in {1, 2}
      BY SMT
    <3> HIDE DEF Ws
    <3> QED
      BY <1>4, <2>1, <3>1, <3>2, <3>3, <3>4, <3>5
  <2>2. CASE tjob.disk # "ab" /\ HasLayout(tjob)
    BY <1>2, <1>3, <2>2, SMT
  <2>3. CASE tjob.disk # "ab" /\ ~HasLayout(tjob)
    BY <1>2, <1>3, <2>3, SMT
  <2> QED
    BY <2>1, <2>2, <2>3
<1> QED
  BY <1>5, WriteIs DEF a, b

(* The writes of configure-mdadm.                                            *)
LEMMA Writes9 ==
    ASSUME at = 9, wr \in Nat \ {0}
    PROVE  /\ Len(Ws) = Count(9)
           /\ wr <= Len(Ws) =>
                /\ Mirrored(tjob) /\ wr \in {1, 2, 3, 4, 5}
                /\ wr = 1 => Is("mdadm.conf", Arrays(tjob), "rename")
                /\ wr = 2 => Is("dracut", {"rd.md.uuid"}, "rename")
                /\ wr = 3 => Is("fstab", rewriteMirrorFstab(file["fstab"], tjob), "rename")
                /\ wr = 4 => Is("grub.d mirror", {"no PARTUUID"}, "rename")
                /\ wr = 5 => Is("initramfs", file["mdadm.conf"] \cup file["dracut"], "tool")
<1> DEFINE a == writeFileAtomic("mdadm.conf", Arrays(tjob))
           b == writeFileAtomic("dracut", {"rd.md.uuid"})
           c == writeFileAtomic("fstab", rewriteMirrorFstab(file["fstab"], tjob))
           d == writeFileAtomic("grub.d mirror", {"no PARTUUID"})
           e == runTool("initramfs", file["mdadm.conf"] \cup file["dracut"])
<1>1. Ws = configureMdadmAt(file, tjob)
  <2>1. at \in 1 .. 21
    BY SMT
  <2> QED
    BY <2>1, WritesOfStep
<1>2. Ws = IF Mirrored(tjob) THEN <<a, b, c, d, e>> ELSE <<>>
  BY <1>1 DEF configureMdadmAt, When
<1>3. Count(9) = IF Mirrored(tjob) THEN 5 ELSE 0
  BY SMT DEF Count
<1> HIDE DEF a, b, c, d, e
<1>4. /\ Len(Ws) = Count(9)
      /\ wr <= Len(Ws) => /\ Mirrored(tjob) /\ wr \in {1, 2, 3, 4, 5}
                          /\ wr = 1 => Ws[wr] = a
                          /\ wr = 2 => Ws[wr] = b
                          /\ wr = 3 => Ws[wr] = c
                          /\ wr = 4 => Ws[wr] = d
                          /\ wr = 5 => Ws[wr] = e
  BY <1>2, <1>3, SMT
<1> QED
  BY <1>4, WriteIs DEF a, b, c, d, e

(* The writes of install-esp-sync.                                           *)
LEMMA Writes10 ==
    ASSUME at = 10, wr \in Nat \ {0}
    PROVE  /\ Len(Ws) = Count(10)
           /\ wr <= Len(Ws) =>
                /\ Mirrored(tjob) /\ wr \in {1, 2, 3, 4}
                /\ wr = 1 => Is("esp-sync", {"helper"}, "rename")
                /\ wr = 2 => Is("esp-sync.service", {"unit"}, "rename")
                /\ wr = 3 => Is("esp-sync link", {}, "rename")
                /\ wr = 4 => Is("esp-sync link", {"unit"}, "rename")
<1> DEFINE a == copyRegularFile("esp-sync", {"helper"})
           b == writeFileAtomic("esp-sync.service", {"unit"})
           c == makeEntry("esp-sync link", {})
           d == makeEntry("esp-sync link", {"unit"})
<1>1. Ws = InstallESPSync(file, tjob)
  <2>1. at \in 1 .. 21
    BY SMT
  <2> QED
    BY <2>1, WritesOfStep
<1>2. Ws = IF Mirrored(tjob) THEN <<a, b, c, d>> ELSE <<>>
  BY <1>1 DEF InstallESPSync, When
<1>3. Count(10) = IF Mirrored(tjob) THEN 4 ELSE 0
  BY SMT DEF Count
<1> HIDE DEF a, b, c, d
<1>4. /\ Len(Ws) = Count(10)
      /\ wr <= Len(Ws) => /\ Mirrored(tjob) /\ wr \in {1, 2, 3, 4}
                          /\ wr = 1 => Ws[wr] = a
                          /\ wr = 2 => Ws[wr] = b
                          /\ wr = 3 => Ws[wr] = c
                          /\ wr = 4 => Ws[wr] = d
  BY <1>2, <1>3, SMT
<1> QED
  BY <1>4, WriteIs DEF a, b, c, d

(* The writes of configure-kubelet.                                          *)
LEMMA Writes11 ==
    ASSUME at = 11, wr \in Nat \ {0}
    PROVE  /\ Len(Ws) = Count(11)
           /\ wr <= Len(Ws) =>
                /\ wr \in {1}
                /\ wr = 1 => Is("kubelet", mergeKubeletArgs(file["kubelet"] \ Torn), "inplace")
<1> DEFINE a == writeInPlace("kubelet", mergeKubeletArgs(file["kubelet"] \ Torn))
<1>1. Ws = updateKubeletExtraArgs(file, tjob)
  <2>1. at \in 1 .. 21
    BY SMT
  <2> QED
    BY <2>1, WritesOfStep
<1>2. Ws = <<a>>
  BY <1>1 DEF updateKubeletExtraArgs
<1>3. Count(11) = 1
  BY SMT DEF Count
<1> HIDE DEF a
<1>4. /\ Len(Ws) = Count(11)
      /\ wr <= Len(Ws) => /\ wr \in {1}
                          /\ wr = 1 => Ws[wr] = a
  BY <1>2, <1>3, SMT
<1> QED
  BY <1>4, WriteIs DEF a

(* The writes of prepare-oci-prepulls.                                       *)
LEMMA Writes12 ==
    ASSUME at = 12, wr \in Nat \ {0}
    PROVE  /\ Len(Ws) = Count(12)
           /\ wr <= Len(Ws) =>
                /\ wr \in {1, 2, 3, 4, 5, 6}
                /\ wr = 1 => Is("archive", {"image1", "image2"}, "rename")
                /\ wr = 2 => Is("import list", {"image1", "image2"}, "rename")
                /\ wr = 3 => Is("importer", {"script"}, "rename")
                /\ wr = 4 => Is("prepull.service", {"unit"}, "rename")
                /\ wr = 5 => Is("prepull link", {}, "rename")
                /\ wr = 6 => Is("prepull link", {"unit"}, "rename")
<1> DEFINE a == copyRegularFile("archive", {"image1", "image2"})
           b == writeFileAtomic("import list", {"image1", "image2"})
           c == writeFileAtomic("importer", {"script"})
           d == writeFileAtomic("prepull.service", {"unit"})
           e == makeEntry("prepull link", {})
           f == makeEntry("prepull link", {"unit"})
<1>1. Ws = PrepareOCIPrePulls(file, tjob)
  <2>1. at \in 1 .. 21
    BY SMT
  <2> QED
    BY <2>1, WritesOfStep
<1>2. Ws = <<a, b, c, d, e, f>>
  BY <1>1 DEF PrepareOCIPrePulls
<1>3. Count(12) = 6
  BY SMT DEF Count
<1> HIDE DEF a, b, c, d, e, f
<1>4. /\ Len(Ws) = Count(12)
      /\ wr <= Len(Ws) => /\ wr \in {1, 2, 3, 4, 5, 6}
                          /\ wr = 1 => Ws[wr] = a
                          /\ wr = 2 => Ws[wr] = b
                          /\ wr = 3 => Ws[wr] = c
                          /\ wr = 4 => Ws[wr] = d
                          /\ wr = 5 => Ws[wr] = e
                          /\ wr = 6 => Ws[wr] = f
  BY <1>2, <1>3, SMT
<1> QED
  BY <1>4, WriteIs DEF a, b, c, d, e, f

(* The writes of configure-serial-console.                                   *)
LEMMA Writes13 ==
    ASSUME at = 13, wr \in Nat \ {0}
    PROVE  /\ Len(Ws) = Count(13)
           /\ wr <= Len(Ws) =>
                /\ tjob.grub = "resolved" /\ wr \in {1, 2, 3, 4}
                /\ wr = 1 => Is("console artifact", {"ttyS1"}, "rename")
                /\ wr = 2 => Is("getty drop-in", {"ttyS1"}, "rename")
                /\ wr = 3 => Is("getty links", file["getty links"] \cup {"ttyS1"}, "rename")
                /\ wr = 4 => Is("getty links", {"ttyS1"}, "rename")
<1> DEFINE a == writeFileAtomic("console artifact", {"ttyS1"})
           b == writeFileAtomic("getty drop-in", {"ttyS1"})
           c == makeEntry("getty links", file["getty links"] \cup {"ttyS1"})
           d == makeEntry("getty links", {"ttyS1"})
<1>1. Ws = ConfigureSerialConsole(file, tjob)
  <2>1. at \in 1 .. 21
    BY SMT
  <2> QED
    BY <2>1, WritesOfStep
<1>2. Ws = IF tjob.grub = "resolved" THEN <<a, b, c, d>> ELSE <<>>
  BY <1>1 DEF ConfigureSerialConsole, When
<1>3. Count(13) = IF tjob.grub = "resolved" THEN 4 ELSE 0
  BY SMT DEF Count
<1> HIDE DEF a, b, c, d
<1>4. /\ Len(Ws) = Count(13)
      /\ wr <= Len(Ws) => /\ tjob.grub = "resolved" /\ wr \in {1, 2, 3, 4}
                          /\ wr = 1 => Ws[wr] = a
                          /\ wr = 2 => Ws[wr] = b
                          /\ wr = 3 => Ws[wr] = c
                          /\ wr = 4 => Ws[wr] = d
  BY <1>2, <1>3, SMT
<1> QED
  BY <1>4, WriteIs DEF a, b, c, d

(* The writes of configure-grub.                                             *)
LEMMA Writes14 ==
    ASSUME at = 14, wr \in Nat \ {0}
    PROVE  /\ Len(Ws) = Count(14)
           /\ wr <= Len(Ws) =>
                /\ wr \in {1, 2}
                /\ wr = 1 => Is("grub.d", IF tjob.grub = "resolved" THEN {"ttyS1"} ELSE {"ttyS0"}, "rename")
                /\ wr = 2 => Is("grub.cfg", file["grub.d"] \cup file["grub.d mirror"], "tool")
<1> DEFINE a == writeFileAtomic("grub.d", IF tjob.grub = "resolved" THEN {"ttyS1"} ELSE {"ttyS0"})
           b == runTool("grub.cfg", file["grub.d"] \cup file["grub.d mirror"])
<1>1. Ws = ConfigureGRUB(file, tjob)
  <2>1. at \in 1 .. 21
    BY SMT
  <2> QED
    BY <2>1, WritesOfStep
<1>2. Ws = <<a, b>>
  BY <1>1 DEF ConfigureGRUB
<1>3. Count(14) = 2
  BY SMT DEF Count
<1> HIDE DEF a, b
<1>4. /\ Len(Ws) = Count(14)
      /\ wr <= Len(Ws) => /\ wr \in {1, 2}
                          /\ wr = 1 => Ws[wr] = a
                          /\ wr = 2 => Ws[wr] = b
  BY <1>2, <1>3, SMT
<1> QED
  BY <1>4, WriteIs DEF a, b

(* The writes of install-efi-fallback.                                       *)
LEMMA Writes15 ==
    ASSUME at = 15, wr \in Nat \ {0}
    PROVE  /\ Len(Ws) = Count(15)
           /\ wr <= Len(Ws) =>
                /\ tjob.disk = "ab" /\ wr \in {1, 2, 3}
                /\ wr = 1 => Is("marker", file["marker"] \cup {HandoffID}, "rename")
                /\ wr = 2 => Is("loader", {"bundled"}, "rename")
                /\ wr = 3 => Is("esp grub.cfg", {HandoffID}, "rename")
<1> DEFINE a == writeFileAtomic("marker", file["marker"] \cup {HandoffID})
           b == copyRegularFile("loader", {"bundled"})
           c == writeFileAtomic("esp grub.cfg", {HandoffID})
<1>1. Ws = installBundledEFIFallbackLoader(file, tjob)
  <2>1. at \in 1 .. 21
    BY SMT
  <2> QED
    BY <2>1, WritesOfStep
<1>2. Ws = IF tjob.disk = "ab" THEN <<a, b, c>> ELSE <<>>
  BY <1>1 DEF installBundledEFIFallbackLoader, When
<1>3. Count(15) = IF tjob.disk = "ab" THEN 3 ELSE 0
  BY SMT DEF Count
<1> HIDE DEF a, b, c
<1>4. /\ Len(Ws) = Count(15)
      /\ wr <= Len(Ws) => /\ tjob.disk = "ab" /\ wr \in {1, 2, 3}
                          /\ wr = 1 => Ws[wr] = a
                          /\ wr = 2 => Ws[wr] = b
                          /\ wr = 3 => Ws[wr] = c
  BY <1>2, <1>3, SMT
<1> QED
  BY <1>4, WriteIs DEF a, b, c

(* The writes of inject-cloudinit.                                           *)
LEMMA Writes16 ==
    ASSUME at = 16, wr \in Nat \ {0}
    PROVE  /\ Len(Ws) = Count(16)
           /\ wr <= Len(Ws) =>
                /\ wr \in {1, 2, 3}
                /\ wr = 1 => Is("meta-data", {"config"}, "rename")
                /\ wr = 2 => Is("network-config", {"config"}, "rename")
                /\ wr = 3 => Is("user-data", {"config"}, "rename")
<1> DEFINE a == copyRegularFile("meta-data", {"config"})
           b == copyRegularFile("network-config", {"config"})
           c == copyRegularFile("user-data", {"config"})
<1>1. Ws = writeSeedFiles(file, tjob)
  <2>1. at \in 1 .. 21
    BY SMT
  <2> QED
    BY <2>1, WritesOfStep
<1>2. Ws = <<a, b, c>>
  BY <1>1 DEF writeSeedFiles
<1>3. Count(16) = 3
  BY SMT DEF Count
<1> HIDE DEF a, b, c
<1>4. /\ Len(Ws) = Count(16)
      /\ wr <= Len(Ws) => /\ wr \in {1, 2, 3}
                          /\ wr = 1 => Ws[wr] = a
                          /\ wr = 2 => Ws[wr] = b
                          /\ wr = 3 => Ws[wr] = c
  BY <1>2, <1>3, SMT
<1> QED
  BY <1>4, WriteIs DEF a, b, c

(* The writes of run-machine-commands.                                       *)
LEMMA Writes18 ==
    ASSUME at = 18, wr \in Nat \ {0}
    PROVE  /\ Len(Ws) = Count(18)
           /\ wr <= Len(Ws) =>
                /\ wr \in {1, 2, 3}
                /\ wr = 1 => Is("script", {"script"}, "rename")
                /\ wr = 2 => Is("commands", {"ran"}, "tool")
                /\ wr = 3 => Is("script", {}, "rename")
<1> DEFINE a == copyRegularFile("script", {"script"})
           b == runTool("commands", {"ran"})
           c == makeEntry("script", {})
<1>1. Ws = runMachineCommandScript(file, tjob)
  <2>1. at \in 1 .. 21
    BY SMT
  <2> QED
    BY <2>1, WritesOfStep
<1>2. Ws = <<a, b, c>>
  BY <1>1 DEF runMachineCommandScript
<1>3. Count(18) = 3
  BY SMT DEF Count
<1> HIDE DEF a, b, c
<1>4. /\ Len(Ws) = Count(18)
      /\ wr <= Len(Ws) => /\ wr \in {1, 2, 3}
                          /\ wr = 1 => Ws[wr] = a
                          /\ wr = 2 => Ws[wr] = b
                          /\ wr = 3 => Ws[wr] = c
  BY <1>2, <1>3, SMT
<1> QED
  BY <1>4, WriteIs DEF a, b, c

(* The writes of remove-efi-entries.                                         *)
LEMMA Writes1 ==
    ASSUME at = 1, wr \in Nat \ {0}
    PROVE  /\ Len(Ws) = Count(1)
           /\ wr <= Len(Ws) =>
                /\ tjob.uefi /\ wr = 1
                /\ Is("nvram", file["nvram"] \cap {Unmanaged}, "entries")
<1> DEFINE a == [path |-> "nvram", value |-> file["nvram"] \cap {Unmanaged}, how |-> "entries"]
<1>1. Ws = RemoveEFIBootEntries(file, tjob)
  <2>1. at \in 1 .. 21
    BY SMT
  <2> QED
    BY <2>1, WritesOfStep
<1>2. Ws = IF tjob.uefi THEN <<a>> ELSE <<>>
  BY <1>1 DEF RemoveEFIBootEntries, When
<1>3. Count(1) = IF tjob.uefi THEN 1 ELSE 0
  BY SMT DEF Count
<1> HIDE DEF a
<1>4. Len(Ws) = Count(1) /\ (wr <= Len(Ws) => tjob.uefi /\ wr = 1 /\ Ws[wr] = a)
  BY <1>2, <1>3, SMT
<1> QED
  BY <1>4, WriteIs DEF a

(* The writes of copy-machine-files.                                         *)
LEMMA Writes17 ==
    ASSUME at = 17, wr \in Nat \ {0}
    PROVE  /\ Len(Ws) = Count(17)
           /\ wr <= Len(Ws) =>
                \/ "grub.d" \in tjob.machine /\ wr = 1 /\ Is("grub.d", {"machine"}, "inplace")
                \/ /\ "kubelet" \in tjob.machine /\ wr = Count(17)
                   /\ Is("kubelet", {"machine"}, "inplace")
<1> DEFINE a == writeInPlace("grub.d", {"machine"})
           b == writeInPlace("kubelet", {"machine"})
           A == IF "grub.d" \in tjob.machine THEN <<a>> ELSE <<>>
           B == IF "kubelet" \in tjob.machine THEN <<b>> ELSE <<>>
<1>1. Ws = A \o B
  <2>1. at \in 1 .. 21
    BY SMT
  <2> QED
    BY <2>1, WritesOfStep DEF CopyMachineFiles, When
<1>3. Count(17) = (IF "grub.d" \in tjob.machine THEN 1 ELSE 0)
                  + (IF "kubelet" \in tjob.machine THEN 1 ELSE 0)
  BY SMT DEF Count
<1> HIDE DEF a, b
<1>4. /\ Len(Ws) = Count(17)
      /\ wr <= Len(Ws) => \/ "grub.d" \in tjob.machine /\ wr = 1 /\ Ws[wr] = a
                          \/ "kubelet" \in tjob.machine /\ wr = Count(17) /\ Ws[wr] = b
  <2>1. CASE "grub.d" \in tjob.machine /\ "kubelet" \in tjob.machine
    <3>1. Ws = <<a>> \o <<b>>
      BY <1>1, <2>1
    <3>2. Count(17) = 2
      BY <1>3, <2>1, SMT
    <3>3. Len(Ws) = 2 /\ Ws[1] = a /\ Ws[2] = b
      BY <3>1, SMT
    <3>4. wr <= 2 => wr = 1 \/ wr = 2
      BY SMT
    <3> QED
      BY <2>1, <3>2, <3>3, <3>4
  <2>2. CASE "grub.d" \in tjob.machine /\ "kubelet" \notin tjob.machine
    BY <1>1, <1>3, <2>2, SMT
  <2>3. CASE "grub.d" \notin tjob.machine /\ "kubelet" \in tjob.machine
    BY <1>1, <1>3, <2>3, SMT
  <2>4. CASE "grub.d" \notin tjob.machine /\ "kubelet" \notin tjob.machine
    BY <1>1, <1>3, <2>4, SMT
  <2> QED
    BY <2>1, <2>2, <2>3, <2>4
<1> QED
  BY <1>4, WriteIs DEF a, b

(* The write that makes the firmware entry of disk d.                        *)
EntryFor(d) == [path |-> "nvram", value |-> file["nvram"] \cup {d}, how |-> "entry"]

(* The writes of create-efi-boot-entry.                                      *)
LEMMA Writes19 ==
    ASSUME at = 19, wr \in Nat \ {0}
    PROVE  /\ Len(Ws) = Count(19)
           /\ wr <= Len(Ws) => /\ tjob.uefi /\ tjob.vars /\ tjob.disk # "ab" /\ wr = 1
                               /\ Is("nvram", file["nvram"] \cup {"disk1"}, "entry")
<1>1. Ws = IF tjob.uefi /\ tjob.vars /\ tjob.disk # "ab" THEN <<EntryFor("disk1")>> ELSE <<>>
  <2>1. at \in 1 .. 21
    BY SMT
  <2> QED
    BY <2>1, WritesOfStep DEF createEFIBootEntry, newBootEntry, When, EntryFor
<1>2. Count(19) = IF tjob.uefi /\ tjob.vars /\ tjob.disk # "ab" THEN 1 ELSE 0
  BY SMT DEF Count
<1>3. /\ Len(Ws) = Count(19)
      /\ wr <= Len(Ws) =>
            tjob.uefi /\ tjob.vars /\ tjob.disk # "ab" /\ wr = 1 /\ Ws[wr] = EntryFor("disk1")
  BY <1>1, <1>2, SMT
<1> QED
  BY <1>3, WriteIs DEF EntryFor

(* The writes of create-mirror-efi-boot-entry.                               *)
LEMMA Writes20 ==
    ASSUME at = 20, wr \in Nat \ {0}
    PROVE  /\ Len(Ws) = Count(20)
           /\ wr <= Len(Ws) =>
                /\ Mirrored(tjob)
                /\ tjob.uefi => \/ wr = 1 /\ Is("esp2", Esp(file), "inplace")
                                \/ tjob.vars /\ wr = 2 /\ Is("nvram", file["nvram"] \cup {"disk2"}, "entry")
                /\ ~tjob.uefi => \/ wr = 1 /\ Is("mbr", {"disk1"}, "tool")
                                 \/ wr = 2 /\ Is("mbr", {"disk1", "disk2"}, "tool")
                                 \/ wr = 3 /\ Is("esp2", Esp(file), "inplace")
<1> DEFINE a == writeInPlace("esp2", Esp(file))
           b == IF tjob.uefi /\ tjob.vars THEN <<EntryFor("disk2")>> ELSE <<>>
           c == runTool("mbr", {"disk1"})
           d == runTool("mbr", {"disk1", "disk2"})
<1>1. Ws = IF Mirrored(tjob) THEN IF tjob.uefi THEN <<a>> \o b ELSE <<c, d, a>> ELSE <<>>
  <2>1. at \in 1 .. 21
    BY SMT
  <2> QED
    BY <2>1, WritesOfStep DEF createMirrorEFIBootEntry, newBootEntry, When, EntryFor
<1>2. Count(20) = IF ~Mirrored(tjob) THEN 0
                  ELSE IF ~tjob.uefi THEN 3 ELSE IF tjob.vars THEN 2 ELSE 1
  BY SMT DEF Count
<1> HIDE DEF a, c, d
<1>3. CASE ~tjob.uefi \/ ~Mirrored(tjob)
  <2>1. /\ Len(Ws) = Count(20)
        /\ wr <= Len(Ws) => /\ Mirrored(tjob)
                            /\ \/ wr = 1 /\ Ws[wr] = c
                               \/ wr = 2 /\ Ws[wr] = d
                               \/ wr = 3 /\ Ws[wr] = a
    BY <1>1, <1>2, <1>3, SMT
  <2> QED
    BY <1>3, <2>1, WriteIs DEF a, c, d
<1>4. CASE tjob.uefi /\ Mirrored(tjob)
  <2>1. /\ Len(Ws) = Count(20)
        /\ wr <= Len(Ws) => \/ wr = 1 /\ Ws[wr] = a
                            \/ tjob.vars /\ wr = 2 /\ Ws[wr] = EntryFor("disk2")
    BY <1>1, <1>2, <1>4, SMT
  <2> QED
    BY <1>4, <2>1, WriteIs DEF a, EntryFor
<1> QED
  BY <1>3, <1>4

(* A step has as many writes as Count says.                                  *)
LEMMA Counts ==
    ASSUME StepInv, at <= 21, at # 2
    PROVE  Len(Ws) = Count(at)
<1>1. wr \in Nat \ {0} /\ at \in 1 .. 21
  BY SMT DEF StepInv
<1>2. CASE at = 21
  <2>1. Ws = <<>> /\ Count(at) = 0
    BY <1>1, <1>2, WritesOfStep, SMT DEF Count
  <2> QED
    BY <2>1, SMT
<1>3. CASE at # 21
  <2>1. at \in {1, 3, 4, 5, 6, 7, 8, 9, 10, 11, 12, 13, 14, 15, 16, 17, 18, 19, 20}
    BY <1>1, <1>3, SMT
  <2> QED
    BY <1>1, <2>1, Writes1, Writes3, Writes4, Writes5, Writes6, Writes7, Writes8, Writes9, Writes10,
       Writes11, Writes12, Writes13, Writes14, Writes15, Writes16, Writes17, Writes18, Writes19, Writes20
<1> QED
  BY <1>2, <1>3

-----------------------------------------------------------------------------
(* How the actions move through the steps.                                   *)

(* A first attempt has completed no step.                                    *)
LEMMA StepInvStart == TargetInit => StepInv
<1>1. SUFFICES ASSUME TargetInit PROVE StepInv
  OBVIOUS
<1>2. at = 1 /\ wr = 1 /\ complete = {} /\ tphase = "run" /\ tjob \in TargetJobs /\ DOMAIN file = Paths
  BY <1>1 DEF TargetInit
<1>3. at \in 1 .. 22 /\ wr \in Nat \ {0} /\ 1 .. at - 1 = {} /\ tphase # "done"
  BY <1>2, SMT
<1> QED
  BY <1>2, <1>3 DEF StepInv

(* A new step of the attempt.                                                *)
LEMMA StartStepIs ==
    ASSUME NEW i \in 1 .. 22, NEW done, StartStep(i, done)
    PROVE  Starts(i, done, at') /\ wr' = 1
BY FirstStepStarts DEF StartStep

(* The arithmetic of the steps that an attempt skips.                        *)
LEMMA Skips ==
    ASSUME NEW a \in 0 .. 21, NEW b \in a + 1 .. 22
    PROVE  /\ b \in 1 .. 22
           /\ \A n \in 1 .. b - 1 : n \in 1 .. a - 1 \/ n = a \/ n \in a + 1 .. b - 1
           /\ 14 \notin a + 1 .. b - 1 => b <= 14 \/ a >= 14
           /\ 13 \notin 1 .. b - 1 => b <= 13
BY SMT

(* Every action keeps the order of the steps (executeStep and the resume).   *)
LEMMA StepInvNext ==
    ASSUME StepInv, [TargetNext]_tvars
    PROVE  StepInv'
<1>1. CASE WriteFile
  BY <1>1, SMT DEF WriteFile, StepInv
<1>2. CASE StreamImage
  <2>1. DOMAIN Streamed(tjob, file["nvram"]) = Paths
    BY DEF Streamed
  <2> QED
    BY <1>2, <2>1, SMT DEF StreamImage, StepInv
<1>3. CASE StepDone
  <2>1. at \in 1 .. 21 /\ at + 1 \in 1 .. 22
    BY <1>3, StepNames, SMT DEF StepDone, Done, StepInv
  <2>2. Starts(at + 1, complete', at') /\ wr' = 1
    BY <1>3, <2>1, StartStepIs DEF StepDone
  <2>3. complete' = complete \cup {targetSteps[at]}
    BY <1>3 DEF StepDone, Step
  <2>4. at' \in 1 .. 22 /\ (at' <= 21 => targetSteps[at'] \notin complete' \/ at' \in {13, 14})
    BY <2>1, <2>2, SMT DEF Starts
  <2>5. \A n \in 1 .. at' - 1 : targetSteps[n] \in complete'
    <3>1. SUFFICES ASSUME NEW n \in 1 .. at' - 1 PROVE targetSteps[n] \in complete'
      OBVIOUS
    <3>2. n \in 1 .. at - 1 \/ n = at \/ n \in at + 1 .. at' - 1
      <4>1. at' \in at + 1 .. 22
        BY <2>2 DEF Starts
      <4>2. at \in 0 .. 21
        BY <2>1, SMT
      <4> QED
        BY <3>1, <4>1, <4>2, Skips
    <3> QED
      BY <2>2, <2>3, <3>2 DEF Starts, StepInv
  <2>6. \A k \in 1 .. 21 : targetSteps[k] \in complete' => \A n \in 1 .. k - 1 : targetSteps[n] \in complete'
    <3>1. SUFFICES ASSUME NEW k \in 1 .. 21, targetSteps[k] \in complete', NEW n \in 1 .. k - 1
                   PROVE  targetSteps[n] \in complete'
      OBVIOUS
    <3>2. targetSteps[k] \in complete \/ k = at
      BY <2>1, <2>3, <3>1, StepNames
    <3>3. CASE k = at
      BY <2>3, <3>1, <3>3 DEF StepInv
    <3>4. CASE targetSteps[k] \in complete
      BY <2>3, <3>1, <3>4 DEF StepInv
    <3> QED
      BY <3>2, <3>3, <3>4
  <2>7. tjob' = tjob /\ file' = file /\ tphase' # "done"
    BY <1>3, SMT DEF StepDone
  <2> QED
    <3>1. wr' \in Nat \ {0}
      BY <2>2, SMT
    <3> QED
      BY <2>4, <2>5, <2>6, <2>7, <3>1 DEF StepInv
<1>4. CASE WriteFails
  <2>1. at' = at /\ complete' = complete /\ tjob' = tjob /\ DOMAIN file' = DOMAIN file
    BY <1>4 DEF WriteFails
  <2>2. wr' \in {wr + 1, 1, wr} /\ tphase' # "done"
    BY <1>4, SMT DEF WriteFails
  <2>3. wr' \in Nat \ {0}
    BY <2>2, SMT DEF StepInv
  <2> QED
    BY <2>1, <2>2, <2>3 DEF StepInv
<1>5. CASE Interrupted
  BY <1>5, SMT DEF Interrupted, StepInv
<1>6. CASE NextAttempt
  <2>1. 1 \in 1 .. 22
    BY SMT
  <2>2. Starts(1, complete', at') /\ wr' = 1
    BY <1>6, <2>1, StartStepIs DEF NextAttempt
  <2>3. complete' \in {complete, {}} /\ tjob' = tjob /\ file' = file /\ tphase' = "run"
    BY <1>6, SMT DEF NextAttempt
  <2>4. \A k \in 1 .. 21 : targetSteps[k] \in complete' => \A n \in 1 .. k - 1 : targetSteps[n] \in complete'
    BY <2>3 DEF StepInv
  <2>5. at' \in 1 .. 22 /\ wr' \in Nat \ {0} /\ tphase' # "done"
    BY <2>2, <2>3, SMT DEF Starts
  <2> QED
    BY <2>2, <2>3, <2>4, <2>5 DEF Starts, StepInv
<1>7. CASE Finish
  BY <1>7, StepNames, SMT DEF Finish, Done, StepInv
<1>8. CASE UNCHANGED tvars
  BY <1>8 DEF tvars, StepInv
<1> QED
  BY <1>1, <1>2, <1>3, <1>4, <1>5, <1>6, <1>7, <1>8 DEF TargetNext

(* No step of K gets past a write, and the paths of P keep their content.    *)
QuietOn(P, K) ==
    /\ tjob' = tjob
    /\ \A p \in P : file'[p] = file[p]
    /\ \A k \in K : \A w \in 1 .. Count(k) : Past(k, w)' => Past(k, w)

(* The actions that write nothing.                                           *)
Quiet == StepDone \/ Interrupted \/ NextAttempt \/ Finish \/ UNCHANGED tvars

(* An action that writes nothing makes no write past that was not.           *)
LEMMA QuietAction ==
    ASSUME StepInv, Quiet
    PROVE  /\ tjob' = tjob /\ file' = file /\ cut' = cut
           /\ QuietOn(Paths, 1 .. 21)
           /\ \A w \in 1 .. 2 : Now(w)' => Now(w)
           /\ at' = 15 /\ wr' > 1 => at = 15 /\ wr > 1 /\ runs' = runs
           /\ Past(2, 1)' => complete \subseteq complete'
<1>0. \A k \in 1 .. 21 : Count(k) \in Nat
  BY SMT DEF Count
<1>1. CASE StepDone
  <2>1. at \in 1 .. 21 /\ at + 1 \in 1 .. 22
    <3>1. at \in 1 .. 22
      BY DEF StepInv
    <3>2. ~(at > 21)
      BY <1>1, StepNames DEF StepDone, Done
    <3> QED BY <3>1, <3>2, SMT
  <2>2. Starts(at + 1, complete', at') /\ wr' = 1
    BY <1>1, <2>1, StartStepIs DEF StepDone
  <2>3. complete' = complete \cup {targetSteps[at]}
    BY <1>1 DEF StepDone, Step
  <2>4. wr > Count(at)
    <3>1. CASE at = 2
      BY <1>1, <3>1, StepNames, SMT DEF StepDone, Step, Count
    <3>2. CASE at # 2
      <4>1. wr > Len(Ws)
        BY <1>1 DEF StepDone
      <4> QED
        BY <2>1, <3>2, <4>1, Counts, SMT
    <3> QED
      BY <3>1, <3>2
  <2>5. tjob' = tjob /\ file' = file /\ cut' = cut /\ runs' = runs
    BY <1>1, SMT DEF StepDone
  <2>6. ASSUME NEW k \in 1 .. 21, NEW w \in 1 .. Count(k), Past(k, w)'
        PROVE  Past(k, w)
    <3>1. targetSteps[k] \in complete' \/ (at' = k /\ 1 > w)
      BY <2>2, <2>6 DEF Past
    <3>2. targetSteps[k] \in complete'
      BY <1>0, <3>1, SMT
    <3>3. targetSteps[k] \in complete \/ k = at
      BY <2>1, <2>3, <3>2, StepNames
    <3>4. ASSUME k = at PROVE wr > w
      <4>1. Count(k) \in Nat /\ wr > Count(k) /\ wr \in Nat
        BY <1>0, <2>4, <3>4 DEF StepInv
      <4> QED
        BY <4>1, SMT
    <3> QED
      BY <3>3, <3>4 DEF Past
  <2>7. \A w \in 1 .. 2 : Now(w)' => Now(w)
    <3>1. Count(14) = 2
      BY SMT DEF Count
    <3>2. 14 \notin at + 1 .. at' - 1 /\ at' \in at + 1 .. 22
      BY <2>2 DEF Starts
    <3>3. at \in 0 .. 21
      BY <2>1, SMT
    <3>4. at' <= 14 \/ at >= 14
      BY <3>2, <3>3, Skips
    <3>5. at' \in Int /\ wr \in Int /\ at \in Int
      BY <2>1, <3>2, <3>3, Skips, SMT DEF StepInv
    <3>6. SUFFICES ASSUME NEW w \in 1 .. 2, Now(w)' PROVE Now(w)
      OBVIOUS
    <3>7. at' > 14
      BY <2>2, <3>5, <3>6, SMT DEF Now
    <3>8. at > 14 \/ (at = 14 /\ wr > 2)
      BY <2>4, <3>1, <3>4, <3>5, <3>7, SMT
    <3> QED
      BY <3>5, <3>8, SMT DEF Now
  <2>8. complete \subseteq complete'
    BY <2>3
  <2> QED
    BY <2>2, <2>5, <2>6, <2>7, <2>8, SMT DEF QuietOn
<1>2. CASE NextAttempt
  <2>1. 1 \in 1 .. 22
    BY SMT
  <2>2. Starts(1, complete', at') /\ wr' = 1
    BY <1>2, <2>1, StartStepIs DEF NextAttempt
  <2>3. complete' \in {complete, {}} /\ tjob' = tjob /\ file' = file /\ cut' = cut
    BY <1>2, SMT DEF NextAttempt
  <2>4. ASSUME NEW k \in 1 .. 21, NEW w \in 1 .. Count(k), Past(k, w)'
        PROVE  Past(k, w)
    BY <1>0, <2>2, <2>3, <2>4, SMT DEF Past
  <2>5. at' <= 13
    <3>1. 13 \notin 1 .. at' - 1 /\ at' \in 1 .. 22
      BY <2>2 DEF Starts
    <3>2. 0 \in 0 .. 21 /\ 0 + 1 = 1
      BY SMT
    <3> QED
      BY <3>1, <3>2, Skips
  <2>6. \A w \in 1 .. 2 : Now(w)' => Now(w)
    BY <2>2, <2>5, SMT DEF Now, Starts
  <2>7. Past(2, 1)' => complete \subseteq complete'
    <3>1. ~(1 > 1)
      BY SMT
    <3> QED
      BY <2>2, <2>3, <3>1 DEF Past
  <2> QED
    BY <2>2, <2>3, <2>4, <2>6, <2>7, SMT DEF QuietOn
<1>3. CASE Interrupted
  BY <1>3, SMT DEF Interrupted, QuietOn, Past, Now
<1>4. CASE Finish
  BY <1>4, SMT DEF Finish, QuietOn, Past, Now
<1>5. CASE UNCHANGED tvars
  BY <1>5, SMT DEF tvars, QuietOn, Past, Now
<1> QED
  BY <1>1, <1>2, <1>3, <1>4, <1>5 DEF Quiet

-----------------------------------------------------------------------------
(* What a write and a failed write change.                                   *)

(* The paths that a step writes.                                             *)
LEMMA PathsOfStep ==
    ASSUME StepInv, at <= 21, wr <= Len(Ws)
    PROVE  /\ at \in 1 .. 21 /\ at # 2 /\ at # 21
           /\ Ws[wr].path \in Paths
           /\ at = 1 => Ws[wr].path \in {"nvram"}
           /\ at = 3 => Ws[wr].path \in {"overlayroot"}
           /\ at = 4 => Ws[wr].path \in {"hostname"}
           /\ at = 5 => Ws[wr].path \in {"provisioner"}
           /\ at = 6 => Ws[wr].path \in {"resolv.conf", "network"}
           /\ at = 7 => Ws[wr].path \in {"sysext1", "sysext2", "sysext catalog"}
           /\ at = 8 => Ws[wr].path \in {"fstab", "ab-slot.env"}
           /\ at = 9 => Ws[wr].path \in {"mdadm.conf", "dracut", "fstab", "grub.d mirror", "initramfs"}
           /\ at = 10 => Ws[wr].path \in {"esp-sync", "esp-sync.service", "esp-sync link"}
           /\ at = 11 => Ws[wr].path \in {"kubelet"}
           /\ at = 12 => Ws[wr].path \in {"archive", "import list", "importer", "prepull.service", "prepull link"}
           /\ at = 13 => Ws[wr].path \in {"console artifact", "getty drop-in", "getty links"}
           /\ at = 14 => Ws[wr].path \in {"grub.d", "grub.cfg"}
           /\ at = 15 => Ws[wr].path \in {"marker", "loader", "esp grub.cfg"}
           /\ at = 16 => Ws[wr].path \in {"meta-data", "network-config", "user-data"}
           /\ at = 17 => Ws[wr].path \in {"grub.d", "kubelet"}
           /\ at = 18 => Ws[wr].path \in {"script", "commands"}
           /\ at = 19 => Ws[wr].path \in {"nvram"}
           /\ at = 20 => Ws[wr].path \in {"esp2", "nvram", "mbr"}
<1>1. wr \in Nat \ {0} /\ at \in 1 .. 21
  BY SMT DEF StepInv
<1>2. at # 2 /\ at # 21
  <2>1. Len(<<>>) = 0 /\ ~(wr <= 0)
    BY <1>1, SMT
  <2> QED
    BY <1>1, <2>1, WritesOfStep
<1>11. at = 1 => Ws[wr].path \in {"nvram"}
  BY <1>1, Writes1 DEF Is
<1>13. at = 3 => Ws[wr].path \in {"overlayroot"}
  BY <1>1, Writes3 DEF Is
<1>14. at = 4 => Ws[wr].path \in {"hostname"}
  BY <1>1, Writes4 DEF Is
<1>15. at = 5 => Ws[wr].path \in {"provisioner"}
  BY <1>1, Writes5 DEF Is
<1>16. at = 6 => Ws[wr].path \in {"resolv.conf", "network"}
  BY <1>1, Writes6 DEF Is
<1>17. at = 7 => Ws[wr].path \in {"sysext1", "sysext2", "sysext catalog"}
  BY <1>1, Writes7 DEF Is
<1>18. at = 8 => Ws[wr].path \in {"fstab", "ab-slot.env"}
  BY <1>1, Writes8 DEF Is
<1>19. at = 9 => Ws[wr].path \in {"mdadm.conf", "dracut", "fstab", "grub.d mirror", "initramfs"}
  BY <1>1, Writes9 DEF Is
<1>20. at = 10 => Ws[wr].path \in {"esp-sync", "esp-sync.service", "esp-sync link"}
  BY <1>1, Writes10 DEF Is
<1>21. at = 11 => Ws[wr].path \in {"kubelet"}
  BY <1>1, Writes11 DEF Is
<1>22. at = 12 => Ws[wr].path \in {"archive", "import list", "importer", "prepull.service", "prepull link"}
  BY <1>1, Writes12 DEF Is
<1>23. at = 13 => Ws[wr].path \in {"console artifact", "getty drop-in", "getty links"}
  BY <1>1, Writes13 DEF Is
<1>24. at = 14 => Ws[wr].path \in {"grub.d", "grub.cfg"}
  BY <1>1, Writes14 DEF Is
<1>25. at = 15 => Ws[wr].path \in {"marker", "loader", "esp grub.cfg"}
  BY <1>1, Writes15 DEF Is
<1>26. at = 16 => Ws[wr].path \in {"meta-data", "network-config", "user-data"}
  BY <1>1, Writes16 DEF Is
<1>27. at = 17 => Ws[wr].path \in {"grub.d", "kubelet"}
  BY <1>1, Writes17 DEF Is
<1>28. at = 18 => Ws[wr].path \in {"script", "commands"}
  BY <1>1, Writes18 DEF Is
<1>29. at = 19 => Ws[wr].path \in {"nvram"}
  BY <1>1, Writes19 DEF Is
<1>30. at = 20 => Ws[wr].path \in {"esp2", "nvram", "mbr"}
  BY <1>1, Writes20 DEF Is
<1>3. at \in {1, 3, 4, 5, 6, 7, 8, 9, 10, 11, 12, 13, 14, 15, 16, 17, 18, 19, 20}
  BY <1>1, <1>2, SMT
<1>4. Ws[wr].path \in Paths
  BY <1>3, <1>11, <1>13, <1>14, <1>15, <1>16, <1>17, <1>18, <1>19, <1>20, <1>21, <1>22, <1>23, <1>24, <1>25, <1>26, <1>27, <1>28, <1>29, <1>30 DEF Paths
<1> QED
  BY <1>1, <1>2, <1>4, <1>11, <1>13, <1>14, <1>15, <1>16, <1>17, <1>18, <1>19, <1>20, <1>21, <1>22, <1>23, <1>24, <1>25, <1>26, <1>27, <1>28, <1>29, <1>30

(* The path p gets content v, the others keep theirs.                        *)
Put(p, v) == file'[p] = v /\ \A q \in Paths : q # p => file'[q] = file[q]

(* A write that succeeds changes its path alone, to its value.               *)
LEMMA WriteFileIs ==
    ASSUME StepInv, WriteFile
    PROVE  /\ wr <= Len(Ws) /\ at \in 1 .. 21 /\ at # 2
           /\ Put(Ws[wr].path, Ws[wr].value)
           /\ wr' = wr + 1 /\ UNCHANGED <<tjob, at, complete, cut, runs>>
<1>1. wr <= Len(Ws) /\ at <= 21
  BY StepNames, SMT DEF WriteFile, Done, StepInv
<1>2. at \in 1 .. 21 /\ at # 2 /\ Ws[wr].path \in DOMAIN file
  BY <1>1, PathsOfStep DEF StepInv
<1>3. file' = [file EXCEPT ![Ws[wr].path] = Ws[wr].value] /\ DOMAIN file = Paths
  BY DEF WriteFile, StepInv
<1>4. Put(Ws[wr].path, Ws[wr].value)
  BY <1>2, <1>3 DEF Put
<1> QED
  BY <1>1, <1>2, <1>4 DEF WriteFile

(* A write that fails changes its path alone, and a renamed file not at all. *)
LEMMA WriteFailsIs ==
    ASSUME StepInv, WriteFails
    PROVE  /\ wr <= Len(Ws) /\ at \in 1 .. 21 /\ at # 2
           /\ \E v \in FailedValues(Ws[wr]) :
                Put(Ws[wr].path, v) /\ (v = Torn => Ws[wr].path \in cut')
           /\ cut \subseteq cut'
           /\ UNCHANGED <<tjob, at, complete, runs>>
           /\ at # 1 \/ tjob.must => wr' \in {1, wr}
           /\ Ws[wr].how = "rename" => \A q \in Paths : file'[q] = file[q]
<1>1. wr <= Len(Ws) /\ at <= 21
  BY StepNames, SMT DEF WriteFails, Done, StepInv
<1>2. at \in 1 .. 21 /\ at # 2 /\ Ws[wr].path \in Paths
  BY <1>1, PathsOfStep
<1>3. PICK v \in FailedValues(Ws[wr]) :
        /\ file' = [file EXCEPT ![Ws[wr].path] = v]
        /\ cut' = IF v = Torn THEN cut \cup {Ws[wr].path} ELSE cut
  BY DEF WriteFails
<1>4. Put(Ws[wr].path, v)
  BY <1>2, <1>3 DEF Put, StepInv
<1>5. (v = Torn => Ws[wr].path \in cut') /\ cut \subseteq cut'
  BY <1>3
<1>6. at # 1 \/ tjob.must => wr' \in {1, wr}
  <2>1. at # 1 \/ tjob.must => ~efiEntryResult
    BY <1>2, StepNames DEF efiEntryResult, Step
  <2> QED
    BY <2>1 DEF WriteFails
<1>7. ASSUME Ws[wr].how = "rename" PROVE \A q \in Paths : file'[q] = file[q]
  <2>1. v \in Leaves(Ws[wr], file)
    BY <1>3, <1>7 DEF FailedValues
  <2>2. v = file[Ws[wr].path]
    BY <1>7, <2>1 DEF Leaves
  <2> QED
    BY <1>4, <2>2 DEF Put
<1> QED
  BY <1>1, <1>2, <1>3, <1>4, <1>5, <1>6, <1>7 DEF WriteFails

(* A write of a step outside K to a path outside P.                          *)
LEMMA OtherStep ==
    ASSUME StepInv, WriteFile \/ WriteFails,
           NEW P \in SUBSET Paths, NEW K \in SUBSET (1 .. 21), at \notin K, Ws[wr].path \notin P
    PROVE  QuietOn(P, K)
<1>1. /\ tjob' = tjob /\ at' = at /\ complete' = complete
      /\ \A q \in P : file'[q] = file[q]
  BY WriteFileIs, WriteFailsIs DEF Put
<1>2. ASSUME NEW k \in K, NEW w, Past(k, w)' PROVE Past(k, w)
  BY <1>1, <1>2 DEF Past
<1> QED
  BY <1>1, <1>2 DEF QuietOn

(* A write that fails and leaves the paths of P.                             *)
LEMMA FailedWrite ==
    ASSUME StepInv, WriteFails, at # 1 \/ tjob.must,
           NEW P \in SUBSET Paths, NEW K \in SUBSET (1 .. 21),
           Ws[wr].path \notin P \/ Ws[wr].how = "rename"
    PROVE  QuietOn(P, K)
<1>1. /\ tjob' = tjob /\ at' = at /\ complete' = complete /\ wr' \in {1, wr}
      /\ \A q \in P : file'[q] = file[q]
  BY WriteFailsIs DEF Put
<1>2. ASSUME NEW k \in K, NEW w \in 1 .. Count(k), Past(k, w)' PROVE Past(k, w)
  <2>1. Count(k) \in Nat
    BY SMT DEF Count
  <2>2. ~(1 > w)
    BY <2>1, SMT
  <2> QED
    BY <1>1, <1>2, <2>2 DEF Past
<1> QED
  BY <1>1, <1>2 DEF QuietOn

(* A failed write in place leaves the file or cuts it off.                   *)
LEMMA InPlaceFails ==
    ASSUME StepInv, WriteFails, NEW p, NEW v, Is(p, v, "inplace")
    PROVE  file'[p] = file[p] \/ p \in cut'
<1>1. PICK x \in FailedValues(Ws[wr]) : Put(p, x) /\ (x = Torn => p \in cut')
  BY WriteFailsIs DEF Is
<1>2. x \in Leaves(Ws[wr], file)
  BY <1>1 DEF FailedValues, Is
<1>3. x \in {file[p], Torn}
  BY <1>2 DEF Leaves, Is
<1> QED
  BY <1>1, <1>3 DEF Put

-----------------------------------------------------------------------------
(* The writes that the invariant speaks of are made by their steps.          *)
LEMMA Reach ==
    /\ tjob.uefi => 1 \in 1 .. Count(1)
    /\ 1 \in 1 .. Count(2)
    /\ 2 \in 1 .. Count(3)
    /\ 1 \in 1 .. Count(4)
    /\ 1 \in 1 .. Count(5)
    /\ 2 \in 1 .. Count(6)
    /\ 5 \in 1 .. Count(6)
    /\ 1 \in 1 .. Count(7)
    /\ 2 \in 1 .. Count(7)
    /\ 3 \in 1 .. Count(7)
    /\ HasLayout(tjob) => 1 \in 1 .. Count(8)
    /\ tjob.disk = "ab" => 2 \in 1 .. Count(8)
    /\ Mirrored(tjob) => 1 \in 1 .. Count(9)
    /\ Mirrored(tjob) => 2 \in 1 .. Count(9)
    /\ Mirrored(tjob) => 3 \in 1 .. Count(9)
    /\ Mirrored(tjob) => 4 \in 1 .. Count(9)
    /\ Mirrored(tjob) => 5 \in 1 .. Count(9)
    /\ Mirrored(tjob) => 1 \in 1 .. Count(10)
    /\ Mirrored(tjob) => 2 \in 1 .. Count(10)
    /\ Mirrored(tjob) => 4 \in 1 .. Count(10)
    /\ 1 \in 1 .. Count(11)
    /\ 1 \in 1 .. Count(12)
    /\ 2 \in 1 .. Count(12)
    /\ 3 \in 1 .. Count(12)
    /\ 4 \in 1 .. Count(12)
    /\ 6 \in 1 .. Count(12)
    /\ tjob.grub = "resolved" => 4 \in 1 .. Count(13)
    /\ tjob.disk = "ab" => 2 \in 1 .. Count(15)
    /\ 2 \in 1 .. Count(16)
    /\ 3 \in 1 .. Count(16)
    /\ 2 \in 1 .. Count(18)
    /\ 3 \in 1 .. Count(18)
    /\ tjob.uefi /\ tjob.vars /\ tjob.disk # "ab" => 1 \in 1 .. Count(19)
    /\ Mirrored(tjob) => 1 \in 1 .. Count(20)
    /\ Mirrored(tjob) /\ (tjob.uefi => tjob.vars) => 2 \in 1 .. Count(20)
<1>1. tjob.uefi => 1 \in 1 .. Count(1)
  BY SMT DEF Count
<1>2. 1 \in 1 .. Count(2)
  BY SMT DEF Count
<1>3. 2 \in 1 .. Count(3)
  BY SMT DEF Count
<1>4. 1 \in 1 .. Count(4)
  BY SMT DEF Count
<1>5. 1 \in 1 .. Count(5)
  BY SMT DEF Count
<1>6. 2 \in 1 .. Count(6)
  BY SMT DEF Count
<1>7. 5 \in 1 .. Count(6)
  BY SMT DEF Count
<1>8. 1 \in 1 .. Count(7)
  BY SMT DEF Count
<1>9. 2 \in 1 .. Count(7)
  BY SMT DEF Count
<1>10. 3 \in 1 .. Count(7)
  BY SMT DEF Count
<1>11. HasLayout(tjob) => 1 \in 1 .. Count(8)
  BY SMT DEF Count
<1>35. tjob.disk = "ab" => 2 \in 1 .. Count(8)
  BY SMT DEF Count
<1>12. Mirrored(tjob) => 1 \in 1 .. Count(9)
  BY SMT DEF Count
<1>13. Mirrored(tjob) => 2 \in 1 .. Count(9)
  BY SMT DEF Count
<1>14. Mirrored(tjob) => 3 \in 1 .. Count(9)
  BY SMT DEF Count
<1>15. Mirrored(tjob) => 4 \in 1 .. Count(9)
  BY SMT DEF Count
<1>16. Mirrored(tjob) => 5 \in 1 .. Count(9)
  BY SMT DEF Count
<1>17. Mirrored(tjob) => 1 \in 1 .. Count(10)
  BY SMT DEF Count
<1>18. Mirrored(tjob) => 2 \in 1 .. Count(10)
  BY SMT DEF Count
<1>19. Mirrored(tjob) => 4 \in 1 .. Count(10)
  BY SMT DEF Count
<1>20. 1 \in 1 .. Count(11)
  BY SMT DEF Count
<1>21. 1 \in 1 .. Count(12)
  BY SMT DEF Count
<1>22. 2 \in 1 .. Count(12)
  BY SMT DEF Count
<1>23. 3 \in 1 .. Count(12)
  BY SMT DEF Count
<1>24. 4 \in 1 .. Count(12)
  BY SMT DEF Count
<1>25. 6 \in 1 .. Count(12)
  BY SMT DEF Count
<1>26. tjob.grub = "resolved" => 4 \in 1 .. Count(13)
  BY SMT DEF Count
<1>27. tjob.disk = "ab" => 2 \in 1 .. Count(15)
  BY SMT DEF Count
<1>28. 2 \in 1 .. Count(16)
  BY SMT DEF Count
<1>29. 3 \in 1 .. Count(16)
  BY SMT DEF Count
<1>30. 2 \in 1 .. Count(18)
  BY SMT DEF Count
<1>31. 3 \in 1 .. Count(18)
  BY SMT DEF Count
<1>32. tjob.uefi /\ tjob.vars /\ tjob.disk # "ab" => 1 \in 1 .. Count(19)
  BY SMT DEF Count
<1>33. Mirrored(tjob) => 1 \in 1 .. Count(20)
  BY SMT DEF Count
<1>34. Mirrored(tjob) /\ (tjob.uefi => tjob.vars) => 2 \in 1 .. Count(20)
  BY SMT DEF Count
<1> QED
  BY <1>1, <1>2, <1>3, <1>4, <1>5, <1>6, <1>7, <1>8, <1>9, <1>10, <1>11, <1>12, <1>13, <1>14, <1>15, <1>16, <1>17, <1>18, <1>19, <1>20, <1>21, <1>22, <1>23, <1>24, <1>25, <1>26, <1>27, <1>28, <1>29, <1>30, <1>31, <1>32, <1>33, <1>34, <1>35

(* What is quiet is so for every group of files.                             *)
LEMMA QuietSub ==
    ASSUME QuietOn(Paths, 1 .. 21), NEW P \in SUBSET Paths, NEW K \in SUBSET (1 .. 21)
    PROVE  QuietOn(P, K)
BY DEF QuietOn

(* The stream begins the image.                                              *)
LEMMA StreamIs ==
    ASSUME StepInv, StreamImage
    PROVE  /\ at = 2 /\ at' = 2 /\ wr' = 2 /\ complete' = complete /\ tjob' = tjob
           /\ file' = Streamed(tjob, file["nvram"]) /\ cut' = {} /\ runs' = runs
           /\ \A k \in 3 .. 21 : \A w : ~Past(k, w)'
<1>1. at = 2
  BY StepNames, SMT DEF StreamImage, Step, Done, StepInv
<1>2. \A k \in 3 .. 21 : targetSteps[k] \notin complete
  BY <1>1, LaterIsOpen, SMT
<1>3. \A k \in 3 .. 21 : k # 2
  BY SMT
<1> QED
  BY <1>1, <1>2, <1>3 DEF StreamImage, Past

(* configure-overlayfs alone writes its files.                               *)
LEMMA DirsStep ==
    ASSUME StepInv, Dirs, [TargetNext]_tvars
    PROVE  Dirs'
<1> DEFINE P == {"overlayroot"}
           K == {2, 3}
<1>1. P \in SUBSET Paths
  BY DEF Paths
<1>2. K \in SUBSET (1 .. 21)
  BY SMT
<1>3. ASSUME QuietOn(P, K) PROVE Dirs'
  <2>1. tjob' = tjob /\ \A q \in P : file'[q] = file[q]
    BY <1>3 DEF QuietOn
  <2>2. /\ (Past(2, 1)' => Past(2, 1))
        /\ (Past(3, 2)' => Past(3, 2))
    <3>1. \A k \in K : \A w \in 1 .. Count(k) : Past(k, w)' => Past(k, w)
      BY <1>3 DEF QuietOn
    <3> QED
      BY <3>1, Reach
  <2> QED
    BY <2>1, <2>2 DEF Dirs, Imaged
<1>4. CASE Quiet
  BY <1>1, <1>2, <1>3, <1>4, QuietAction, QuietSub
<1>5. CASE (WriteFile \/ WriteFails) /\ at \notin {3}
  <2>1. at \in 1 .. 21 /\ at # 2 /\ wr <= Len(Ws)
    BY <1>5, WriteFileIs, WriteFailsIs
  <2>2. at <= 21
    BY <2>1, SMT
  <2>3. at # 21
    BY <2>1, <2>2, PathsOfStep
  <2>4. at \in {1, 4, 5, 6, 7, 8, 9, 10, 11, 12, 13, 14, 15, 16, 17, 18, 19, 20}
    BY <1>5, <2>1, <2>3, SMT
  <2>5. Ws[wr].path \notin P
    BY <2>1, <2>2, <2>4, PathsOfStep
  <2>6. at \notin K
    BY <1>5, <2>1
  <2> QED
    BY <1>1, <1>2, <1>3, <1>5, <2>5, <2>6, OtherStep
<1>6. CASE WriteFile /\ at = 3
  <2>1. wr \in Nat \ {0} /\ wr <= Len(Ws)
    BY <1>6, WriteFileIs DEF StepInv
  <2>2. wr' = wr + 1 /\ tjob' = tjob /\ at' = at /\ complete' = complete
    BY <1>6, WriteFileIs
  <2>3. targetSteps[2] \in complete /\ targetSteps[3] \notin complete
    BY <1>6, LaterIsOpen, SMT DEF StepInv
  <2>4. CASE wr = 1
    <3>1. Is("overlayroot", {"config"}, "rename")
      BY <1>6, <2>1, <2>4, Writes3
    <3>2. Put("overlayroot", {"config"})
      BY <1>6, <3>1, WriteFileIs DEF Is
    <3>3. /\ file'["overlayroot"] = {"config"}
      BY <1>1, <3>2 DEF Put
    <3>4. /\ Past(2, 1)
          /\ ~Past(3, 2)'
      BY <1>6, <2>2, <2>3, <2>4, SMT DEF Past
    <3> QED
      BY <2>2, <3>1, <3>3, <3>4 DEF Dirs, Imaged
  <2>5. CASE wr = 2
    <3>1. Is("overlayroot", {"config", "dirs"}, "rename")
      BY <1>6, <2>1, <2>5, Writes3
    <3>2. Put("overlayroot", {"config", "dirs"})
      BY <1>6, <3>1, WriteFileIs DEF Is
    <3>3. /\ file'["overlayroot"] = {"config", "dirs"}
      BY <1>1, <3>2 DEF Put
    <3>4. /\ Past(2, 1)
      BY <1>6, <2>2, <2>3, <2>5, SMT DEF Past
    <3> QED
      BY <2>2, <3>1, <3>3, <3>4 DEF Dirs, Imaged
  <2>6. wr = 1 \/ wr = 2
    BY <1>6, <2>1, Writes3
  <2> QED
    BY <2>6, <2>4, <2>5
<1>7. CASE WriteFails /\ at = 3
  <2>1. wr \in Nat \ {0} /\ wr <= Len(Ws) /\ at # 1
    BY <1>7, WriteFailsIs, SMT DEF StepInv
  <2>2. Ws[wr].how = "rename" \/ Ws[wr].path \notin P
    BY <1>7, <2>1, Writes3 DEF Is
  <2> QED
    BY <1>1, <1>2, <1>3, <1>7, <2>1, <2>2, FailedWrite
<1>8. CASE StreamImage
  <2>1. /\ ~Past(3, 2)'
    <3>1. 3 \in 3 .. 21
      BY SMT
    <3> QED
      BY <1>8, <3>1, StreamIs
  <2>2. tjob' = tjob /\ file' = Streamed(tjob, file["nvram"])
    BY <1>8, StreamIs
  <2> QED
    BY <2>1, <2>2 DEF Dirs, Imaged
<1> QED
  BY <1>4, <1>5, <1>6, <1>7, <1>8 DEF TargetNext, Quiet

(* set-hostname, copy-provisioner-files and configure-dns keep Names.        *)
LEMMA NamesStep ==
    ASSUME StepInv, Names, [TargetNext]_tvars
    PROVE  Names'
<1> DEFINE P == {"hostname", "provisioner", "resolv.conf", "network"}
           K == {2, 4, 5, 6}
<1>1. P \in SUBSET Paths
  BY DEF Paths
<1>2. K \in SUBSET (1 .. 21)
  BY SMT
<1>3. ASSUME QuietOn(P, K) PROVE Names'
  <2>1. tjob' = tjob /\ \A q \in P : file'[q] = file[q]
    BY <1>3 DEF QuietOn
  <2>2. /\ (Past(2, 1)' => Past(2, 1))
        /\ (Past(4, 1)' => Past(4, 1))
        /\ (Past(5, 1)' => Past(5, 1))
        /\ (Past(6, 2)' => Past(6, 2))
        /\ (Past(6, 5)' => Past(6, 5))
    <3>1. \A k \in K : \A w \in 1 .. Count(k) : Past(k, w)' => Past(k, w)
      BY <1>3 DEF QuietOn
    <3> QED
      BY <3>1, Reach
  <2> QED
    BY <2>1, <2>2 DEF Names, Imaged
<1>4. CASE Quiet
  BY <1>1, <1>2, <1>3, <1>4, QuietAction, QuietSub
<1>5. CASE (WriteFile \/ WriteFails) /\ at \notin {4, 5, 6}
  <2>1. at \in 1 .. 21 /\ at # 2 /\ wr <= Len(Ws)
    BY <1>5, WriteFileIs, WriteFailsIs
  <2>2. at <= 21
    BY <2>1, SMT
  <2>3. at # 21
    BY <2>1, <2>2, PathsOfStep
  <2>4. at \in {1, 3, 7, 8, 9, 10, 11, 12, 13, 14, 15, 16, 17, 18, 19, 20}
    BY <1>5, <2>1, <2>3, SMT
  <2>5. Ws[wr].path \notin P
    BY <2>1, <2>2, <2>4, PathsOfStep
  <2>6. at \notin K
    BY <1>5, <2>1
  <2> QED
    BY <1>1, <1>2, <1>3, <1>5, <2>5, <2>6, OtherStep
<1>6. CASE WriteFile /\ at = 4
  <2>1. wr \in Nat \ {0} /\ wr <= Len(Ws)
    BY <1>6, WriteFileIs DEF StepInv
  <2>2. wr' = wr + 1 /\ tjob' = tjob /\ at' = at /\ complete' = complete
    BY <1>6, WriteFileIs
  <2>3. targetSteps[2] \in complete /\ targetSteps[4] \notin complete
    BY <1>6, LaterIsOpen, SMT DEF StepInv
  <2>4. CASE wr = 1
    <3>1. Is("hostname", {"config"}, "inplace")
      BY <1>6, <2>1, <2>4, Writes4
    <3>2. Put("hostname", {"config"})
      BY <1>6, <3>1, WriteFileIs DEF Is
    <3>3. /\ file'["hostname"] = {"config"}
          /\ file'["provisioner"] = file["provisioner"]
          /\ file'["resolv.conf"] = file["resolv.conf"]
          /\ file'["network"] = file["network"]
      BY <1>1, <3>2 DEF Put
    <3>4. /\ Past(2, 1)
          /\ Past(5, 1)' => Past(5, 1)
          /\ Past(6, 2)' => Past(6, 2)
          /\ Past(6, 5)' => Past(6, 5)
      BY <1>6, <2>2, <2>3, <2>4, SMT DEF Past
    <3> QED
      BY <2>2, <3>1, <3>3, <3>4 DEF Names, Imaged
  <2>5. wr = 1
    BY <1>6, <2>1, Writes4
  <2> QED
    BY <2>5, <2>4
<1>7. CASE WriteFails /\ at = 4
  <2>1. wr \in Nat \ {0} /\ wr <= Len(Ws) /\ at # 1
    BY <1>7, WriteFailsIs, SMT DEF StepInv
  <2>2. CASE wr = 1
    <3>1. Is("hostname", {"config"}, "inplace")
      BY <1>7, <2>1, <2>2, Writes4
    <3>2. /\ file'["provisioner"] = file["provisioner"]
          /\ file'["resolv.conf"] = file["resolv.conf"]
          /\ file'["network"] = file["network"]
      BY <1>1, <1>7, <3>1, WriteFailsIs DEF Is, Put
    <3>3. wr' \in {1, wr} /\ tjob' = tjob /\ at' = at /\ complete' = complete
      BY <1>7, <2>1, WriteFailsIs
    <3>4. targetSteps[2] \in complete /\ targetSteps[4] \notin complete
      BY <1>7, LaterIsOpen, SMT DEF StepInv
    <3>5. /\ tjob' = tjob
          /\ Past(2, 1)
          /\ ~Past(4, 1)'
          /\ Past(5, 1)' => Past(5, 1)
          /\ Past(6, 2)' => Past(6, 2)
          /\ Past(6, 5)' => Past(6, 5)
      BY <1>7, <2>1, <2>2, <3>3, <3>4, SMT DEF Past
    <3> QED
      BY <3>2, <3>5 DEF Names, Imaged
  <2> QED
    BY <1>7, <2>1, <2>2, Writes4
<1>8. CASE WriteFile /\ at = 5
  <2>1. wr \in Nat \ {0} /\ wr <= Len(Ws)
    BY <1>8, WriteFileIs DEF StepInv
  <2>2. wr' = wr + 1 /\ tjob' = tjob /\ at' = at /\ complete' = complete
    BY <1>8, WriteFileIs
  <2>3. targetSteps[2] \in complete /\ targetSteps[5] \notin complete
    BY <1>8, LaterIsOpen, SMT DEF StepInv
  <2>4. CASE wr = 1
    <3>1. Is("provisioner", {"config"}, "inplace")
      BY <1>8, <2>1, <2>4, Writes5
    <3>2. Put("provisioner", {"config"})
      BY <1>8, <3>1, WriteFileIs DEF Is
    <3>3. /\ file'["hostname"] = file["hostname"]
          /\ file'["provisioner"] = {"config"}
          /\ file'["resolv.conf"] = file["resolv.conf"]
          /\ file'["network"] = file["network"]
      BY <1>1, <3>2 DEF Put
    <3>4. /\ Past(2, 1)
          /\ Past(4, 1)' => Past(4, 1)
          /\ Past(6, 2)' => Past(6, 2)
          /\ Past(6, 5)' => Past(6, 5)
      BY <1>8, <2>2, <2>3, <2>4, SMT DEF Past
    <3> QED
      BY <2>2, <3>1, <3>3, <3>4 DEF Names, Imaged
  <2>5. wr = 1
    BY <1>8, <2>1, Writes5
  <2> QED
    BY <2>5, <2>4
<1>9. CASE WriteFails /\ at = 5
  <2>1. wr \in Nat \ {0} /\ wr <= Len(Ws) /\ at # 1
    BY <1>9, WriteFailsIs, SMT DEF StepInv
  <2>2. CASE wr = 1
    <3>1. Is("provisioner", {"config"}, "inplace")
      BY <1>9, <2>1, <2>2, Writes5
    <3>2. /\ file'["hostname"] = file["hostname"]
          /\ file'["resolv.conf"] = file["resolv.conf"]
          /\ file'["network"] = file["network"]
      BY <1>1, <1>9, <3>1, WriteFailsIs DEF Is, Put
    <3>3. wr' \in {1, wr} /\ tjob' = tjob /\ at' = at /\ complete' = complete
      BY <1>9, <2>1, WriteFailsIs
    <3>4. targetSteps[2] \in complete /\ targetSteps[5] \notin complete
      BY <1>9, LaterIsOpen, SMT DEF StepInv
    <3>5. /\ tjob' = tjob
          /\ Past(2, 1)
          /\ Past(4, 1)' => Past(4, 1)
          /\ ~Past(5, 1)'
          /\ Past(6, 2)' => Past(6, 2)
          /\ Past(6, 5)' => Past(6, 5)
      BY <1>9, <2>1, <2>2, <3>3, <3>4, SMT DEF Past
    <3> QED
      BY <3>2, <3>5 DEF Names, Imaged
  <2> QED
    BY <1>9, <2>1, <2>2, Writes5
<1>10. CASE WriteFile /\ at = 6
  <2>1. wr \in Nat \ {0} /\ wr <= Len(Ws)
    BY <1>10, WriteFileIs DEF StepInv
  <2>2. wr' = wr + 1 /\ tjob' = tjob /\ at' = at /\ complete' = complete
    BY <1>10, WriteFileIs
  <2>3. targetSteps[2] \in complete /\ targetSteps[6] \notin complete
    BY <1>10, LaterIsOpen, SMT DEF StepInv
  <2>4. CASE wr = 1
    <3>1. Is("resolv.conf", {}, "rename")
      BY <1>10, <2>1, <2>4, Writes6
    <3>2. Put("resolv.conf", {})
      BY <1>10, <3>1, WriteFileIs DEF Is
    <3>3. /\ file'["hostname"] = file["hostname"]
          /\ file'["provisioner"] = file["provisioner"]
          /\ file'["resolv.conf"] = {}
          /\ file'["network"] = file["network"]
      BY <1>1, <3>2 DEF Put
    <3>4. /\ Past(2, 1)
          /\ Past(4, 1)' => Past(4, 1)
          /\ Past(5, 1)' => Past(5, 1)
          /\ ~Past(6, 2)'
          /\ ~Past(6, 5)'
      BY <1>10, <2>2, <2>3, <2>4, SMT DEF Past
    <3> QED
      BY <2>2, <3>1, <3>3, <3>4 DEF Names, Imaged
  <2>5. CASE wr = 2
    <3>1. Is("resolv.conf", {"config"}, "inplace")
      BY <1>10, <2>1, <2>5, Writes6
    <3>2. Put("resolv.conf", {"config"})
      BY <1>10, <3>1, WriteFileIs DEF Is
    <3>3. /\ file'["hostname"] = file["hostname"]
          /\ file'["provisioner"] = file["provisioner"]
          /\ file'["resolv.conf"] = {"config"}
          /\ file'["network"] = file["network"]
      BY <1>1, <3>2 DEF Put
    <3>4. /\ Past(2, 1)
          /\ Past(4, 1)' => Past(4, 1)
          /\ Past(5, 1)' => Past(5, 1)
          /\ ~Past(6, 5)'
      BY <1>10, <2>2, <2>3, <2>5, SMT DEF Past
    <3> QED
      BY <2>2, <3>1, <3>3, <3>4 DEF Names, Imaged
  <2>6. CASE wr = 3
    <3>1. Is("network", file["network"] \cup {"link"}, "rename")
      BY <1>10, <2>1, <2>6, Writes6
    <3>2. Put("network", file["network"] \cup {"link"})
      BY <1>10, <3>1, WriteFileIs DEF Is
    <3>3. /\ file'["hostname"] = file["hostname"]
          /\ file'["provisioner"] = file["provisioner"]
          /\ file'["resolv.conf"] = file["resolv.conf"]
          /\ file'["network"] = file["network"] \cup {"link"}
      BY <1>1, <3>2 DEF Put
    <3>4. /\ Past(2, 1)
          /\ Past(4, 1)' => Past(4, 1)
          /\ Past(5, 1)' => Past(5, 1)
          /\ Past(6, 2)
          /\ ~Past(6, 5)'
      BY <1>10, <2>2, <2>3, <2>6, SMT DEF Past
    <3> QED
      BY <2>2, <3>1, <3>3, <3>4 DEF Names, Imaged
  <2>7. CASE wr = 4
    <3>1. Is("network", file["network"] \cup {"link", "vlan"}, "rename")
      BY <1>10, <2>1, <2>7, Writes6
    <3>2. Put("network", file["network"] \cup {"link", "vlan"})
      BY <1>10, <3>1, WriteFileIs DEF Is
    <3>3. /\ file'["hostname"] = file["hostname"]
          /\ file'["provisioner"] = file["provisioner"]
          /\ file'["resolv.conf"] = file["resolv.conf"]
          /\ file'["network"] = file["network"] \cup {"link", "vlan"}
      BY <1>1, <3>2 DEF Put
    <3>4. /\ Past(2, 1)
          /\ Past(4, 1)' => Past(4, 1)
          /\ Past(5, 1)' => Past(5, 1)
          /\ Past(6, 2)
          /\ ~Past(6, 5)'
      BY <1>10, <2>2, <2>3, <2>7, SMT DEF Past
    <3> QED
      BY <2>2, <3>1, <3>3, <3>4 DEF Names, Imaged
  <2>8. CASE wr = 5
    <3>1. Is("network", {"link", "vlan"}, "rename")
      BY <1>10, <2>1, <2>8, Writes6
    <3>2. Put("network", {"link", "vlan"})
      BY <1>10, <3>1, WriteFileIs DEF Is
    <3>3. /\ file'["hostname"] = file["hostname"]
          /\ file'["provisioner"] = file["provisioner"]
          /\ file'["resolv.conf"] = file["resolv.conf"]
          /\ file'["network"] = {"link", "vlan"}
      BY <1>1, <3>2 DEF Put
    <3>4. /\ Past(2, 1)
          /\ Past(4, 1)' => Past(4, 1)
          /\ Past(5, 1)' => Past(5, 1)
          /\ Past(6, 2)
      BY <1>10, <2>2, <2>3, <2>8, SMT DEF Past
    <3> QED
      BY <2>2, <3>1, <3>3, <3>4 DEF Names, Imaged
  <2>9. wr = 1 \/ wr = 2 \/ wr = 3 \/ wr = 4 \/ wr = 5
    BY <1>10, <2>1, Writes6
  <2> QED
    BY <2>9, <2>4, <2>5, <2>6, <2>7, <2>8
<1>11. CASE WriteFails /\ at = 6
  <2>1. wr \in Nat \ {0} /\ wr <= Len(Ws) /\ at # 1
    BY <1>11, WriteFailsIs, SMT DEF StepInv
  <2>2. CASE wr # 2
    <3>1. Ws[wr].how = "rename" \/ Ws[wr].path \notin P
      BY <1>11, <2>1, <2>2, Writes6 DEF Is
    <3> QED
      BY <1>1, <1>2, <1>3, <1>11, <2>1, <3>1, FailedWrite
  <2>3. CASE wr = 2
    <3>1. Is("resolv.conf", {"config"}, "inplace")
      BY <1>11, <2>1, <2>3, Writes6
    <3>2. /\ file'["hostname"] = file["hostname"]
          /\ file'["provisioner"] = file["provisioner"]
          /\ file'["network"] = file["network"]
      BY <1>1, <1>11, <3>1, WriteFailsIs DEF Is, Put
    <3>3. wr' \in {1, wr} /\ tjob' = tjob /\ at' = at /\ complete' = complete
      BY <1>11, <2>1, WriteFailsIs
    <3>4. targetSteps[2] \in complete /\ targetSteps[6] \notin complete
      BY <1>11, LaterIsOpen, SMT DEF StepInv
    <3>5. /\ tjob' = tjob
          /\ Past(2, 1)
          /\ Past(4, 1)' => Past(4, 1)
          /\ Past(5, 1)' => Past(5, 1)
          /\ ~Past(6, 2)'
          /\ ~Past(6, 5)'
      BY <1>11, <2>1, <2>3, <3>3, <3>4, SMT DEF Past
    <3> QED
      BY <3>2, <3>5 DEF Names, Imaged
  <2> QED
    BY <2>2, <2>3
<1>12. CASE StreamImage
  <2>1. /\ ~Past(4, 1)'
        /\ ~Past(5, 1)'
        /\ ~Past(6, 2)'
        /\ ~Past(6, 5)'
    <3>1. 4 \in 3 .. 21 /\ 5 \in 3 .. 21 /\ 6 \in 3 .. 21
      BY SMT
    <3> QED
      BY <1>12, <3>1, StreamIs
  <2>2. tjob' = tjob /\ file' = Streamed(tjob, file["nvram"])
    BY <1>12, StreamIs
  <2> QED
    BY <2>1, <2>2 DEF Names, Imaged
<1> QED
  BY <1>4, <1>5, <1>6, <1>7, <1>8, <1>9, <1>10, <1>11, <1>12, <1>12 DEF TargetNext, Quiet

(* apply-sysexts lists a layer after it has copied it.                       *)
LEMMA LayersStep ==
    ASSUME StepInv, Layers, [TargetNext]_tvars
    PROVE  Layers'
<1> DEFINE P == {"sysext1", "sysext2", "sysext catalog"}
           K == {2, 7}
<1>1. P \in SUBSET Paths
  BY DEF Paths
<1>2. K \in SUBSET (1 .. 21)
  BY SMT
<1>3. ASSUME QuietOn(P, K) PROVE Layers'
  <2>1. tjob' = tjob /\ \A q \in P : file'[q] = file[q]
    BY <1>3 DEF QuietOn
  <2>2. /\ (Past(2, 1)' => Past(2, 1))
        /\ (Past(7, 1)' => Past(7, 1))
        /\ (Past(7, 2)' => Past(7, 2))
        /\ (Past(7, 3)' => Past(7, 3))
    <3>1. \A k \in K : \A w \in 1 .. Count(k) : Past(k, w)' => Past(k, w)
      BY <1>3 DEF QuietOn
    <3> QED
      BY <3>1, Reach
  <2> QED
    BY <2>1, <2>2 DEF Layers, Imaged
<1>4. CASE Quiet
  BY <1>1, <1>2, <1>3, <1>4, QuietAction, QuietSub
<1>5. CASE (WriteFile \/ WriteFails) /\ at \notin {7}
  <2>1. at \in 1 .. 21 /\ at # 2 /\ wr <= Len(Ws)
    BY <1>5, WriteFileIs, WriteFailsIs
  <2>2. at <= 21
    BY <2>1, SMT
  <2>3. at # 21
    BY <2>1, <2>2, PathsOfStep
  <2>4. at \in {1, 3, 4, 5, 6, 8, 9, 10, 11, 12, 13, 14, 15, 16, 17, 18, 19, 20}
    BY <1>5, <2>1, <2>3, SMT
  <2>5. Ws[wr].path \notin P
    BY <2>1, <2>2, <2>4, PathsOfStep
  <2>6. at \notin K
    BY <1>5, <2>1
  <2> QED
    BY <1>1, <1>2, <1>3, <1>5, <2>5, <2>6, OtherStep
<1>6. CASE WriteFile /\ at = 7
  <2>1. wr \in Nat \ {0} /\ wr <= Len(Ws)
    BY <1>6, WriteFileIs DEF StepInv
  <2>2. wr' = wr + 1 /\ tjob' = tjob /\ at' = at /\ complete' = complete
    BY <1>6, WriteFileIs
  <2>3. targetSteps[2] \in complete /\ targetSteps[7] \notin complete
    BY <1>6, LaterIsOpen, SMT DEF StepInv
  <2>4. CASE wr = 1
    <3>1. Is("sysext1", {"layer"}, "rename")
      BY <1>6, <2>1, <2>4, Writes7
    <3>2. Put("sysext1", {"layer"})
      BY <1>6, <3>1, WriteFileIs DEF Is
    <3>3. /\ file'["sysext1"] = {"layer"}
          /\ file'["sysext2"] = file["sysext2"]
          /\ file'["sysext catalog"] = file["sysext catalog"]
      BY <1>1, <3>2 DEF Put
    <3>4. /\ Past(2, 1)
          /\ ~Past(7, 2)'
          /\ ~Past(7, 3)'
      BY <1>6, <2>2, <2>3, <2>4, SMT DEF Past
    <3> QED
      BY <2>2, <3>1, <3>3, <3>4 DEF Layers, Imaged
  <2>5. CASE wr = 2
    <3>1. Is("sysext2", {"layer"}, "rename")
      BY <1>6, <2>1, <2>5, Writes7
    <3>2. Put("sysext2", {"layer"})
      BY <1>6, <3>1, WriteFileIs DEF Is
    <3>3. /\ file'["sysext1"] = file["sysext1"]
          /\ file'["sysext2"] = {"layer"}
          /\ file'["sysext catalog"] = file["sysext catalog"]
      BY <1>1, <3>2 DEF Put
    <3>4. /\ Past(2, 1)
          /\ Past(7, 1)
          /\ ~Past(7, 3)'
      BY <1>6, <2>2, <2>3, <2>5, SMT DEF Past
    <3> QED
      BY <2>2, <3>1, <3>3, <3>4 DEF Layers, Imaged
  <2>6. CASE wr = 3
    <3>1. Is("sysext catalog", file["sysext catalog"] \cup {"layer"}, "rename")
      BY <1>6, <2>1, <2>6, Writes7
    <3>2. Put("sysext catalog", file["sysext catalog"] \cup {"layer"})
      BY <1>6, <3>1, WriteFileIs DEF Is
    <3>3. /\ file'["sysext1"] = file["sysext1"]
          /\ file'["sysext2"] = file["sysext2"]
          /\ file'["sysext catalog"] = file["sysext catalog"] \cup {"layer"}
      BY <1>1, <3>2 DEF Put
    <3>4. /\ Past(2, 1)
          /\ Past(7, 1)
          /\ Past(7, 2)
      BY <1>6, <2>2, <2>3, <2>6, SMT DEF Past
    <3> QED
      BY <2>2, <3>1, <3>3, <3>4 DEF Layers, Imaged
  <2>7. wr = 1 \/ wr = 2 \/ wr = 3
    BY <1>6, <2>1, Writes7
  <2> QED
    BY <2>7, <2>4, <2>5, <2>6
<1>7. CASE WriteFails /\ at = 7
  <2>1. wr \in Nat \ {0} /\ wr <= Len(Ws) /\ at # 1
    BY <1>7, WriteFailsIs, SMT DEF StepInv
  <2>2. Ws[wr].how = "rename" \/ Ws[wr].path \notin P
    BY <1>7, <2>1, Writes7 DEF Is
  <2> QED
    BY <1>1, <1>2, <1>3, <1>7, <2>1, <2>2, FailedWrite
<1>8. CASE StreamImage
  <2>1. /\ ~Past(7, 1)'
        /\ ~Past(7, 2)'
        /\ ~Past(7, 3)'
    <3>1. 7 \in 3 .. 21
      BY SMT
    <3> QED
      BY <1>8, <3>1, StreamIs
  <2>2. tjob' = tjob /\ file' = Streamed(tjob, file["nvram"])
    BY <1>8, StreamIs
  <2>3. /\ file'["sysext catalog"] = {"image layer"}
    BY <1>1, <2>2 DEF Streamed
  <2> QED
    BY <2>1, <2>2, <2>3 DEF Layers, Imaged
<1> QED
  BY <1>4, <1>5, <1>6, <1>7, <1>8 DEF TargetNext, Quiet

(* What the configuration asks of fstab.                                     *)
LEMMA WantedTab ==
    ASSUME NEW j
    PROVE  /\ HasLayout(j) => Wanted(j, "fstab") = {"/ fs", "/boot/efi fs"}
           /\ j.disk = "mirror" => Wanted(j, "fstab") = {"/ array", "/boot/efi fs", "/data fs"}
           /\ j.disk = "mirror-boot" => Wanted(j, "fstab") = {"/ array", "/boot array", "/boot/efi fs"}
           /\ j.disk = "whole" => Wanted(j, "fstab") = ImageTab(j)
BY DEF Wanted, ImageTab, HasLayout

(* The fstab of a mirror is made from that of the image, or kept.            *)
LEMMA MirrorTab ==
    ASSUME NEW j, Mirrored(j), NEW e \in {ImageTab(j), Wanted(j, "fstab")}
    PROVE  rewriteMirrorFstab(e, j) = Wanted(j, "fstab")
<1> DEFINE M == {"/ part", "/boot part", "/boot/efi part"}
           moved == [x \in M |->
                      CASE x = "/ part" -> "/ array" [] x = "/boot part" -> "/boot array"
                        [] x = "/boot/efi part" -> "/boot/efi fs"]
           F(x) == IF x \in DOMAIN moved THEN moved[x] ELSE x
           kept == {F(x) : x \in e}
<1>1. rewriteMirrorFstab(e, j) =
        IF j.disk = "mirror-boot" /\ ~\E x \in kept : x \in {"/boot array", "/boot fs"}
        THEN kept \cup {"/boot array"} ELSE kept
  BY DEF rewriteMirrorFstab
<1>2. /\ moved["/ part"] = "/ array" /\ moved["/boot part"] = "/boot array"
      /\ moved["/boot/efi part"] = "/boot/efi fs" /\ DOMAIN moved = M
  BY SMT
<1> HIDE DEF moved
<1>3. /\ F("/ part") = "/ array" /\ F("/boot/efi part") = "/boot/efi fs" /\ F("/data fs") = "/data fs"
      /\ F("/ array") = "/ array" /\ F("/boot/efi fs") = "/boot/efi fs" /\ F("/boot array") = "/boot array"
  BY <1>2
<1> HIDE DEF F
<1>4. CASE j.disk = "mirror"
  <2>1. e = {"/ part", "/boot/efi part", "/data fs"} \/ e = {"/ array", "/boot/efi fs", "/data fs"}
    BY <1>4, WantedTab DEF ImageTab
  <2>2. kept = {"/ array", "/boot/efi fs", "/data fs"}
    BY <1>3, <2>1
  <2> QED
    BY <1>1, <1>4, <2>2, WantedTab
<1>5. CASE j.disk = "mirror-boot"
  <2>1. e = {"/ part", "/boot/efi part"} \/ e = {"/ array", "/boot array", "/boot/efi fs"}
    BY <1>5, WantedTab DEF ImageTab
  <2>2. CASE e = {"/ part", "/boot/efi part"}
    <3>1. kept = {"/ array", "/boot/efi fs"}
      BY <1>3, <2>2
    <3>2. rewriteMirrorFstab(e, j) = {"/ array", "/boot/efi fs"} \cup {"/boot array"}
      BY <1>1, <1>5, <3>1
    <3> QED
      BY <1>5, <3>2, WantedTab
  <2>3. CASE e = {"/ array", "/boot array", "/boot/efi fs"}
    <3>1. kept = {"/ array", "/boot array", "/boot/efi fs"}
      BY <1>3, <2>3
    <3>2. rewriteMirrorFstab(e, j) = {"/ array", "/boot array", "/boot/efi fs"}
      BY <1>1, <3>1
    <3> QED
      BY <1>5, <3>2, WantedTab
  <2> QED
    BY <2>1, <2>2, <2>3
<1> QED
  BY <1>4, <1>5 DEF Mirrored

(* write-fstab and configure-mdadm leave the fstab of the layout or the mirror.*)
LEMMA TabStep ==
    ASSUME StepInv, Tab, [TargetNext]_tvars
    PROVE  Tab'
<1> DEFINE P == {"fstab", "ab-slot.env"}
           K == {2, 8, 9}
<1>1. P \in SUBSET Paths
  BY DEF Paths
<1>2. K \in SUBSET (1 .. 21)
  BY SMT
<1>3. ASSUME QuietOn(P, K) PROVE Tab'
  <2>1. tjob' = tjob /\ \A q \in P : file'[q] = file[q]
    BY <1>3 DEF QuietOn
  <2>2. /\ (Past(2, 1)' => Past(2, 1))
        /\ HasLayout(tjob) => (Past(8, 1)' => Past(8, 1))
        /\ tjob.disk = "ab" => (Past(8, 2)' => Past(8, 2))
        /\ Mirrored(tjob) => (Past(9, 1)' => Past(9, 1))
        /\ Mirrored(tjob) => (Past(9, 2)' => Past(9, 2))
        /\ Mirrored(tjob) => (Past(9, 3)' => Past(9, 3))
        /\ Mirrored(tjob) => (Past(9, 4)' => Past(9, 4))
        /\ Mirrored(tjob) => (Past(9, 5)' => Past(9, 5))
    <3>1. \A k \in K : \A w \in 1 .. Count(k) : Past(k, w)' => Past(k, w)
      BY <1>3 DEF QuietOn
    <3> QED
      BY <3>1, Reach
  <2> QED
    BY <2>1, <2>2 DEF Tab, Imaged, Mirrored, HasLayout
<1>4. CASE Quiet
  BY <1>1, <1>2, <1>3, <1>4, QuietAction, QuietSub
<1>5. CASE (WriteFile \/ WriteFails) /\ at \notin {8, 9}
  <2>1. at \in 1 .. 21 /\ at # 2 /\ wr <= Len(Ws)
    BY <1>5, WriteFileIs, WriteFailsIs
  <2>2. at <= 21
    BY <2>1, SMT
  <2>3. at # 21
    BY <2>1, <2>2, PathsOfStep
  <2>4. at \in {1, 3, 4, 5, 6, 7, 10, 11, 12, 13, 14, 15, 16, 17, 18, 19, 20}
    BY <1>5, <2>1, <2>3, SMT
  <2>5. Ws[wr].path \notin P
    BY <2>1, <2>2, <2>4, PathsOfStep
  <2>6. at \notin K
    BY <1>5, <2>1
  <2> QED
    BY <1>1, <1>2, <1>3, <1>5, <2>5, <2>6, OtherStep
<1>6. CASE WriteFile /\ at = 8
  <2>1. wr \in Nat \ {0} /\ wr <= Len(Ws)
    BY <1>6, WriteFileIs DEF StepInv
  <2>2. wr' = wr + 1 /\ tjob' = tjob /\ at' = at /\ complete' = complete
    BY <1>6, WriteFileIs
  <2>3. targetSteps[2] \in complete /\ targetSteps[8] \notin complete
    BY <1>6, LaterIsOpen, SMT DEF StepInv
  <2>4. HasLayout(tjob) /\ ~Mirrored(tjob) /\ HasLayout(tjob)' /\ ~Mirrored(tjob)' /\ tjob.disk # "whole"
    BY <1>6, <2>1, <2>2, Writes8 DEF HasLayout, Mirrored
  <2>5. CASE wr = 1
    <3>1. Is("fstab", {"/ fs", "/boot/efi fs"}, "inplace")
      BY <1>6, <2>1, <2>5, Writes8
    <3>2. Put("fstab", {"/ fs", "/boot/efi fs"})
      BY <1>6, <3>1, WriteFileIs DEF Is
    <3>3. file'["fstab"] = {"/ fs", "/boot/efi fs"} /\ file'["ab-slot.env"] = file["ab-slot.env"]
      BY <1>1, <3>2 DEF Put
    <3>4. Past(2, 1) /\ ~Past(8, 2)'
      BY <1>6, <2>2, <2>3, <2>5, SMT DEF Past
    <3> QED
      BY <2>2, <2>4, <3>3, <3>4, WantedTab DEF Tab, Imaged
  <2>6. CASE wr = 2
    <3>1. tjob.disk = "ab" /\ Is("ab-slot.env", {"slot"}, "rename")
      BY <1>6, <2>1, <2>6, Writes8
    <3>2. Put("ab-slot.env", {"slot"})
      BY <1>6, <3>1, WriteFileIs DEF Is
    <3>3. file'["fstab"] = file["fstab"] /\ file'["ab-slot.env"] = {"slot"}
      BY <1>1, <3>2 DEF Put
    <3>4. Past(8, 1)
      BY <1>6, <2>6, SMT DEF Past
    <3> QED
      BY <2>2, <2>4, <3>1, <3>3, <3>4 DEF Tab
  <2> QED
    BY <1>6, <2>1, <2>5, <2>6, Writes8
<1>7. CASE WriteFails /\ at = 8
  <2>1. wr \in Nat \ {0} /\ wr <= Len(Ws) /\ at # 1
    BY <1>7, WriteFailsIs, SMT DEF StepInv
  <2>2. CASE wr = 1
    <3>1. Is("fstab", {"/ fs", "/boot/efi fs"}, "inplace") /\ HasLayout(tjob)
      BY <1>7, <2>1, <2>2, Writes8
    <3>2. PICK x \in FailedValues(Ws[wr]) : Put("fstab", x)
      BY <1>7, <3>1, WriteFailsIs DEF Is
    <3>3. wr' \in {1, wr} /\ tjob' = tjob /\ at' = at /\ complete' = complete
      BY <1>7, <2>1, WriteFailsIs
    <3>4. targetSteps[2] \in complete /\ targetSteps[8] \notin complete
      BY <1>7, LaterIsOpen, SMT DEF StepInv
    <3>5. Past(2, 1) /\ ~Past(8, 1)' /\ ~Past(8, 2)'
      BY <1>7, <2>1, <2>2, <3>3, <3>4, SMT DEF Past
    <3>6. ~Mirrored(tjob)' /\ tjob.disk # "whole"
      BY <3>1, <3>3 DEF HasLayout, Mirrored
    <3>7. file'["ab-slot.env"] = file["ab-slot.env"]
      BY <1>1, <3>2 DEF Put
    <3> QED
      BY <3>3, <3>5, <3>6, <3>7 DEF Tab, Imaged
  <2>3. CASE wr = 2
    <3>1. Ws[wr].how = "rename"
      BY <1>7, <2>1, <2>3, Writes8 DEF Is
    <3> QED
      BY <1>1, <1>2, <1>3, <1>7, <2>1, <3>1, FailedWrite
  <2> QED
    BY <1>7, <2>1, <2>2, <2>3, Writes8
<1>8. CASE WriteFile /\ at = 9
  <2>1. wr \in Nat \ {0} /\ wr <= Len(Ws)
    BY <1>8, WriteFileIs DEF StepInv
  <2>2. wr' = wr + 1 /\ tjob' = tjob /\ at' = at /\ complete' = complete
    BY <1>8, WriteFileIs
  <2>3. targetSteps[2] \in complete /\ targetSteps[9] \notin complete
    BY <1>8, LaterIsOpen, SMT DEF StepInv
  <2>4. CASE wr = 1
    <3>1. Is("mdadm.conf", Arrays(tjob), "rename") /\ Mirrored(tjob)
      BY <1>8, <2>1, <2>4, Writes9
    <3>2. Put("mdadm.conf", Arrays(tjob))
      BY <1>8, <3>1, WriteFileIs DEF Is
    <3>3. file'["fstab"] = file["fstab"] /\ file'["ab-slot.env"] = file["ab-slot.env"]
      BY <1>1, <3>2 DEF Put
    <3>4. /\ Past(2, 1)
          /\ Past(8, 1)' => Past(8, 1)
          /\ Past(8, 2)' => Past(8, 2)
          /\ ~Past(9, 2)'
          /\ ~Past(9, 3)'
          /\ ~Past(9, 4)'
          /\ ~Past(9, 5)'
      BY <1>8, <2>2, <2>3, <2>4, SMT DEF Past
    <3> QED
      BY <2>2, <3>1, <3>3, <3>4 DEF Tab, Imaged, Mirrored, HasLayout
  <2>5. CASE wr = 2
    <3>1. Is("dracut", {"rd.md.uuid"}, "rename") /\ Mirrored(tjob)
      BY <1>8, <2>1, <2>5, Writes9
    <3>2. Put("dracut", {"rd.md.uuid"})
      BY <1>8, <3>1, WriteFileIs DEF Is
    <3>3. file'["fstab"] = file["fstab"] /\ file'["ab-slot.env"] = file["ab-slot.env"]
      BY <1>1, <3>2 DEF Put
    <3>4. /\ Past(2, 1)
          /\ Past(8, 1)' => Past(8, 1)
          /\ Past(8, 2)' => Past(8, 2)
          /\ Past(9, 1)
          /\ ~Past(9, 3)'
          /\ ~Past(9, 4)'
          /\ ~Past(9, 5)'
      BY <1>8, <2>2, <2>3, <2>5, SMT DEF Past
    <3> QED
      BY <2>2, <3>1, <3>3, <3>4 DEF Tab, Imaged, Mirrored, HasLayout
  <2>6. CASE wr = 3
    <3>1. Is("fstab", rewriteMirrorFstab(file["fstab"], tjob), "rename") /\ Mirrored(tjob)
      BY <1>8, <2>1, <2>6, Writes9
    <3>2. Put("fstab", rewriteMirrorFstab(file["fstab"], tjob))
      BY <1>8, <3>1, WriteFileIs DEF Is
    <3>3. /\ file'["fstab"] = rewriteMirrorFstab(file["fstab"], tjob)
          /\ file'["ab-slot.env"] = file["ab-slot.env"]
      BY <1>1, <3>2 DEF Put
    <3>4. /\ Past(2, 1)
          /\ Past(8, 1)' => Past(8, 1)
          /\ Past(8, 2)' => Past(8, 2)
          /\ Past(9, 1)
          /\ Past(9, 2)
          /\ ~Past(9, 4)'
          /\ ~Past(9, 5)'
      BY <1>8, <2>2, <2>3, <2>6, SMT DEF Past
    <3>5. rewriteMirrorFstab(file["fstab"], tjob) = Wanted(tjob, "fstab")
      BY <3>1, <3>4, MirrorTab DEF Tab, Imaged
    <3> QED
      BY <2>2, <3>1, <3>3, <3>4, <3>5 DEF Tab, Imaged, Mirrored, HasLayout
  <2>7. CASE wr = 4
    <3>1. Is("grub.d mirror", {"no PARTUUID"}, "rename") /\ Mirrored(tjob)
      BY <1>8, <2>1, <2>7, Writes9
    <3>2. Put("grub.d mirror", {"no PARTUUID"})
      BY <1>8, <3>1, WriteFileIs DEF Is
    <3>3. file'["fstab"] = file["fstab"] /\ file'["ab-slot.env"] = file["ab-slot.env"]
      BY <1>1, <3>2 DEF Put
    <3>4. /\ Past(2, 1)
          /\ Past(8, 1)' => Past(8, 1)
          /\ Past(8, 2)' => Past(8, 2)
          /\ Past(9, 1)
          /\ Past(9, 2)
          /\ Past(9, 3)
          /\ ~Past(9, 5)'
      BY <1>8, <2>2, <2>3, <2>7, SMT DEF Past
    <3> QED
      BY <2>2, <3>1, <3>3, <3>4 DEF Tab, Imaged, Mirrored, HasLayout
  <2>8. CASE wr = 5
    <3>1. Is("initramfs", file["mdadm.conf"] \cup file["dracut"], "tool") /\ Mirrored(tjob)
      BY <1>8, <2>1, <2>8, Writes9
    <3>2. Put("initramfs", file["mdadm.conf"] \cup file["dracut"])
      BY <1>8, <3>1, WriteFileIs DEF Is
    <3>3. file'["fstab"] = file["fstab"] /\ file'["ab-slot.env"] = file["ab-slot.env"]
      BY <1>1, <3>2 DEF Put
    <3>4. /\ Past(2, 1)
          /\ Past(8, 1)' => Past(8, 1)
          /\ Past(8, 2)' => Past(8, 2)
          /\ Past(9, 1)
          /\ Past(9, 2)
          /\ Past(9, 3)
          /\ Past(9, 4)
      BY <1>8, <2>2, <2>3, <2>8, SMT DEF Past
    <3> QED
      BY <2>2, <3>1, <3>3, <3>4 DEF Tab, Imaged, Mirrored, HasLayout
  <2>9. wr = 1 \/ wr = 2 \/ wr = 3 \/ wr = 4 \/ wr = 5
    BY <1>8, <2>1, Writes9
  <2> QED
    BY <2>9, <2>4, <2>5, <2>6, <2>7, <2>8
<1>9. CASE WriteFails /\ at = 9
  <2>1. wr \in Nat \ {0} /\ wr <= Len(Ws) /\ at # 1
    BY <1>9, WriteFailsIs, SMT DEF StepInv
  <2>2. Ws[wr].how = "rename" \/ Ws[wr].path \notin P
    BY <1>9, <2>1, Writes9 DEF Is
  <2> QED
    BY <1>1, <1>2, <1>3, <1>9, <2>1, <2>2, FailedWrite
<1>10. CASE StreamImage
  <2>1. /\ ~Past(8, 1)' /\ ~Past(8, 2)'
        /\ ~Past(9, 1)'
        /\ ~Past(9, 2)'
        /\ ~Past(9, 3)'
        /\ ~Past(9, 4)'
        /\ ~Past(9, 5)'
    <3>1. 8 \in 3 .. 21 /\ 9 \in 3 .. 21
      BY SMT
    <3> QED
      BY <1>10, <3>1, StreamIs
  <2>2. tjob' = tjob /\ file' = Streamed(tjob, file["nvram"])
    BY <1>10, StreamIs
  <2>3. file'["fstab"] = ImageTab(tjob) /\ file'["ab-slot.env"] = {}
    BY <1>1, <2>2 DEF Streamed, ImageTab
  <2> QED
    BY <2>1, <2>2, <2>3 DEF Tab, Imaged, Mirrored, HasLayout
<1> QED
  BY <1>4, <1>5, <1>6, <1>7, <1>8, <1>9, <1>10, <1>10 DEF TargetNext, Quiet

(* configure-mdadm builds the initramfs last.                                *)
LEMMA RaidStep ==
    ASSUME StepInv, Raid, [TargetNext]_tvars
    PROVE  Raid'
<1> DEFINE P == {"mdadm.conf", "dracut", "grub.d mirror", "initramfs"}
           K == {2, 9}
<1>1. P \in SUBSET Paths
  BY DEF Paths
<1>2. K \in SUBSET (1 .. 21)
  BY SMT
<1>3. ASSUME QuietOn(P, K) PROVE Raid'
  <2>1. tjob' = tjob /\ \A q \in P : file'[q] = file[q]
    BY <1>3 DEF QuietOn
  <2>2. /\ (Past(2, 1)' => Past(2, 1))
        /\ Mirrored(tjob) => (Past(9, 1)' => Past(9, 1))
        /\ Mirrored(tjob) => (Past(9, 2)' => Past(9, 2))
        /\ Mirrored(tjob) => (Past(9, 3)' => Past(9, 3))
        /\ Mirrored(tjob) => (Past(9, 4)' => Past(9, 4))
        /\ Mirrored(tjob) => (Past(9, 5)' => Past(9, 5))
    <3>1. \A k \in K : \A w \in 1 .. Count(k) : Past(k, w)' => Past(k, w)
      BY <1>3 DEF QuietOn
    <3> QED
      BY <3>1, Reach
  <2> QED
    BY <2>1, <2>2 DEF Raid, Imaged
<1>4. CASE Quiet
  BY <1>1, <1>2, <1>3, <1>4, QuietAction, QuietSub
<1>5. CASE (WriteFile \/ WriteFails) /\ at \notin {9}
  <2>1. at \in 1 .. 21 /\ at # 2 /\ wr <= Len(Ws)
    BY <1>5, WriteFileIs, WriteFailsIs
  <2>2. at <= 21
    BY <2>1, SMT
  <2>3. at # 21
    BY <2>1, <2>2, PathsOfStep
  <2>4. at \in {1, 3, 4, 5, 6, 7, 8, 10, 11, 12, 13, 14, 15, 16, 17, 18, 19, 20}
    BY <1>5, <2>1, <2>3, SMT
  <2>5. Ws[wr].path \notin P
    BY <2>1, <2>2, <2>4, PathsOfStep
  <2>6. at \notin K
    BY <1>5, <2>1
  <2> QED
    BY <1>1, <1>2, <1>3, <1>5, <2>5, <2>6, OtherStep
<1>6. CASE WriteFile /\ at = 9
  <2>1. wr \in Nat \ {0} /\ wr <= Len(Ws)
    BY <1>6, WriteFileIs DEF StepInv
  <2>2. wr' = wr + 1 /\ tjob' = tjob /\ at' = at /\ complete' = complete
    BY <1>6, WriteFileIs
  <2>3. targetSteps[2] \in complete /\ targetSteps[9] \notin complete
    BY <1>6, LaterIsOpen, SMT DEF StepInv
  <2>4. CASE wr = 1
    <3>1. Is("mdadm.conf", Arrays(tjob), "rename") /\ Mirrored(tjob)
      BY <1>6, <2>1, <2>4, Writes9
    <3>2. Put("mdadm.conf", Arrays(tjob))
      BY <1>6, <3>1, WriteFileIs DEF Is
    <3>3. /\ file'["mdadm.conf"] = Arrays(tjob)
          /\ file'["dracut"] = file["dracut"]
          /\ file'["grub.d mirror"] = file["grub.d mirror"]
          /\ file'["initramfs"] = file["initramfs"]
      BY <1>1, <3>2 DEF Put
    <3>4. /\ Past(2, 1)
          /\ ~Past(9, 2)'
          /\ ~Past(9, 3)'
          /\ ~Past(9, 4)'
          /\ ~Past(9, 5)'
      BY <1>6, <2>2, <2>3, <2>4, SMT DEF Past
    <3> QED
      BY <2>2, <3>1, <3>3, <3>4 DEF Raid, Imaged
  <2>5. CASE wr = 2
    <3>1. Is("dracut", {"rd.md.uuid"}, "rename") /\ Mirrored(tjob)
      BY <1>6, <2>1, <2>5, Writes9
    <3>2. Put("dracut", {"rd.md.uuid"})
      BY <1>6, <3>1, WriteFileIs DEF Is
    <3>3. /\ file'["mdadm.conf"] = file["mdadm.conf"]
          /\ file'["dracut"] = {"rd.md.uuid"}
          /\ file'["grub.d mirror"] = file["grub.d mirror"]
          /\ file'["initramfs"] = file["initramfs"]
      BY <1>1, <3>2 DEF Put
    <3>4. /\ Past(2, 1)
          /\ Past(9, 1)
          /\ ~Past(9, 3)'
          /\ ~Past(9, 4)'
          /\ ~Past(9, 5)'
      BY <1>6, <2>2, <2>3, <2>5, SMT DEF Past
    <3> QED
      BY <2>2, <3>1, <3>3, <3>4 DEF Raid, Imaged
  <2>6. CASE wr = 3
    <3>1. Is("fstab", rewriteMirrorFstab(file["fstab"], tjob), "rename") /\ Mirrored(tjob)
      BY <1>6, <2>1, <2>6, Writes9
    <3>2. Put("fstab", rewriteMirrorFstab(file["fstab"], tjob))
      BY <1>6, <3>1, WriteFileIs DEF Is
    <3>3. /\ file'["mdadm.conf"] = file["mdadm.conf"]
          /\ file'["dracut"] = file["dracut"]
          /\ file'["grub.d mirror"] = file["grub.d mirror"]
          /\ file'["initramfs"] = file["initramfs"]
      BY <1>1, <3>2 DEF Put
    <3>4. /\ Past(2, 1)
          /\ Past(9, 1)
          /\ Past(9, 2)
          /\ ~Past(9, 4)'
          /\ ~Past(9, 5)'
      BY <1>6, <2>2, <2>3, <2>6, SMT DEF Past
    <3> QED
      BY <2>2, <3>1, <3>3, <3>4 DEF Raid, Imaged
  <2>7. CASE wr = 4
    <3>1. Is("grub.d mirror", {"no PARTUUID"}, "rename") /\ Mirrored(tjob)
      BY <1>6, <2>1, <2>7, Writes9
    <3>2. Put("grub.d mirror", {"no PARTUUID"})
      BY <1>6, <3>1, WriteFileIs DEF Is
    <3>3. /\ file'["mdadm.conf"] = file["mdadm.conf"]
          /\ file'["dracut"] = file["dracut"]
          /\ file'["grub.d mirror"] = {"no PARTUUID"}
          /\ file'["initramfs"] = file["initramfs"]
      BY <1>1, <3>2 DEF Put
    <3>4. /\ Past(2, 1)
          /\ Past(9, 1)
          /\ Past(9, 2)
          /\ Past(9, 3)
          /\ ~Past(9, 5)'
      BY <1>6, <2>2, <2>3, <2>7, SMT DEF Past
    <3> QED
      BY <2>2, <3>1, <3>3, <3>4 DEF Raid, Imaged
  <2>8. CASE wr = 5
    <3>1. Is("initramfs", file["mdadm.conf"] \cup file["dracut"], "tool") /\ Mirrored(tjob)
      BY <1>6, <2>1, <2>8, Writes9
    <3>2. Put("initramfs", file["mdadm.conf"] \cup file["dracut"])
      BY <1>6, <3>1, WriteFileIs DEF Is
    <3>3. /\ file'["mdadm.conf"] = file["mdadm.conf"]
          /\ file'["dracut"] = file["dracut"]
          /\ file'["grub.d mirror"] = file["grub.d mirror"]
          /\ file'["initramfs"] = file["mdadm.conf"] \cup file["dracut"]
      BY <1>1, <3>2 DEF Put
    <3>4. /\ Past(2, 1)
          /\ Past(9, 1)
          /\ Past(9, 2)
          /\ Past(9, 3)
          /\ Past(9, 4)
      BY <1>6, <2>2, <2>3, <2>8, SMT DEF Past
    <3> QED
      BY <2>2, <3>1, <3>3, <3>4 DEF Raid, Imaged
  <2>9. wr = 1 \/ wr = 2 \/ wr = 3 \/ wr = 4 \/ wr = 5
    BY <1>6, <2>1, Writes9
  <2> QED
    BY <2>9, <2>4, <2>5, <2>6, <2>7, <2>8
<1>7. CASE WriteFails /\ at = 9
  <2>1. wr \in Nat \ {0} /\ wr <= Len(Ws) /\ at # 1
    BY <1>7, WriteFailsIs, SMT DEF StepInv
  <2>2. CASE wr # 5
    <3>1. Ws[wr].how = "rename" \/ Ws[wr].path \notin P
      BY <1>7, <2>1, <2>2, Writes9 DEF Is
    <3> QED
      BY <1>1, <1>2, <1>3, <1>7, <2>1, <3>1, FailedWrite
  <2>3. CASE wr = 5
    <3>1. Is("initramfs", file["mdadm.conf"] \cup file["dracut"], "tool") /\ Mirrored(tjob)
      BY <1>7, <2>1, <2>3, Writes9
    <3>2. /\ file'["mdadm.conf"] = file["mdadm.conf"]
          /\ file'["dracut"] = file["dracut"]
          /\ file'["grub.d mirror"] = file["grub.d mirror"]
      BY <1>1, <1>7, <3>1, WriteFailsIs DEF Is, Put
    <3>3. wr' \in {1, wr} /\ tjob' = tjob /\ at' = at /\ complete' = complete
      BY <1>7, <2>1, WriteFailsIs
    <3>4. targetSteps[2] \in complete /\ targetSteps[9] \notin complete
      BY <1>7, LaterIsOpen, SMT DEF StepInv
    <3>5. /\ tjob' = tjob
          /\ Past(2, 1)
          /\ Past(9, 1)
          /\ Past(9, 2)
          /\ Past(9, 3)
          /\ Past(9, 4)
          /\ ~Past(9, 5)'
      BY <1>7, <2>1, <2>3, <3>3, <3>4, SMT DEF Past
    <3> QED
      BY <3>1, <3>2, <3>5 DEF Raid, Imaged
  <2> QED
    BY <2>2, <2>3
<1>8. CASE StreamImage
  <2>1. /\ ~Past(9, 1)'
        /\ ~Past(9, 2)'
        /\ ~Past(9, 3)'
        /\ ~Past(9, 4)'
        /\ ~Past(9, 5)'
    <3>1. 9 \in 3 .. 21
      BY SMT
    <3> QED
      BY <1>8, <3>1, StreamIs
  <2>2. tjob' = tjob /\ file' = Streamed(tjob, file["nvram"])
    BY <1>8, StreamIs
  <2>3. /\ file'["grub.d mirror"] = {}
        /\ file'["initramfs"] = {"image"}
    BY <1>1, <2>2 DEF Streamed
  <2> QED
    BY <2>1, <2>2, <2>3 DEF Raid, Imaged
<1> QED
  BY <1>4, <1>5, <1>6, <1>7, <1>8 DEF TargetNext, Quiet

(* install-esp-sync makes the link last.                                     *)
LEMMA SyncStep ==
    ASSUME StepInv, Sync, [TargetNext]_tvars
    PROVE  Sync'
<1> DEFINE P == {"esp-sync", "esp-sync.service", "esp-sync link"}
           K == {2, 10}
<1>1. P \in SUBSET Paths
  BY DEF Paths
<1>2. K \in SUBSET (1 .. 21)
  BY SMT
<1>3. ASSUME QuietOn(P, K) PROVE Sync'
  <2>1. tjob' = tjob /\ \A q \in P : file'[q] = file[q]
    BY <1>3 DEF QuietOn
  <2>2. /\ (Past(2, 1)' => Past(2, 1))
        /\ Mirrored(tjob) => (Past(10, 1)' => Past(10, 1))
        /\ Mirrored(tjob) => (Past(10, 2)' => Past(10, 2))
        /\ Mirrored(tjob) => (Past(10, 4)' => Past(10, 4))
    <3>1. \A k \in K : \A w \in 1 .. Count(k) : Past(k, w)' => Past(k, w)
      BY <1>3 DEF QuietOn
    <3> QED
      BY <3>1, Reach
  <2> QED
    BY <2>1, <2>2 DEF Sync, Imaged
<1>4. CASE Quiet
  BY <1>1, <1>2, <1>3, <1>4, QuietAction, QuietSub
<1>5. CASE (WriteFile \/ WriteFails) /\ at \notin {10}
  <2>1. at \in 1 .. 21 /\ at # 2 /\ wr <= Len(Ws)
    BY <1>5, WriteFileIs, WriteFailsIs
  <2>2. at <= 21
    BY <2>1, SMT
  <2>3. at # 21
    BY <2>1, <2>2, PathsOfStep
  <2>4. at \in {1, 3, 4, 5, 6, 7, 8, 9, 11, 12, 13, 14, 15, 16, 17, 18, 19, 20}
    BY <1>5, <2>1, <2>3, SMT
  <2>5. Ws[wr].path \notin P
    BY <2>1, <2>2, <2>4, PathsOfStep
  <2>6. at \notin K
    BY <1>5, <2>1
  <2> QED
    BY <1>1, <1>2, <1>3, <1>5, <2>5, <2>6, OtherStep
<1>6. CASE WriteFile /\ at = 10
  <2>1. wr \in Nat \ {0} /\ wr <= Len(Ws)
    BY <1>6, WriteFileIs DEF StepInv
  <2>2. wr' = wr + 1 /\ tjob' = tjob /\ at' = at /\ complete' = complete
    BY <1>6, WriteFileIs
  <2>3. targetSteps[2] \in complete /\ targetSteps[10] \notin complete
    BY <1>6, LaterIsOpen, SMT DEF StepInv
  <2>4. CASE wr = 1
    <3>1. Is("esp-sync", {"helper"}, "rename") /\ Mirrored(tjob)
      BY <1>6, <2>1, <2>4, Writes10
    <3>2. Put("esp-sync", {"helper"})
      BY <1>6, <3>1, WriteFileIs DEF Is
    <3>3. /\ file'["esp-sync"] = {"helper"}
          /\ file'["esp-sync.service"] = file["esp-sync.service"]
          /\ file'["esp-sync link"] = file["esp-sync link"]
      BY <1>1, <3>2 DEF Put
    <3>4. /\ Past(2, 1)
          /\ ~Past(10, 2)'
          /\ ~Past(10, 4)'
      BY <1>6, <2>2, <2>3, <2>4, SMT DEF Past
    <3> QED
      BY <2>2, <3>1, <3>3, <3>4 DEF Sync, Imaged
  <2>5. CASE wr = 2
    <3>1. Is("esp-sync.service", {"unit"}, "rename") /\ Mirrored(tjob)
      BY <1>6, <2>1, <2>5, Writes10
    <3>2. Put("esp-sync.service", {"unit"})
      BY <1>6, <3>1, WriteFileIs DEF Is
    <3>3. /\ file'["esp-sync"] = file["esp-sync"]
          /\ file'["esp-sync.service"] = {"unit"}
          /\ file'["esp-sync link"] = file["esp-sync link"]
      BY <1>1, <3>2 DEF Put
    <3>4. /\ Past(2, 1)
          /\ Past(10, 1)
          /\ ~Past(10, 4)'
      BY <1>6, <2>2, <2>3, <2>5, SMT DEF Past
    <3> QED
      BY <2>2, <3>1, <3>3, <3>4 DEF Sync, Imaged
  <2>6. CASE wr = 3
    <3>1. Is("esp-sync link", {}, "rename") /\ Mirrored(tjob)
      BY <1>6, <2>1, <2>6, Writes10
    <3>2. Put("esp-sync link", {})
      BY <1>6, <3>1, WriteFileIs DEF Is
    <3>3. /\ file'["esp-sync"] = file["esp-sync"]
          /\ file'["esp-sync.service"] = file["esp-sync.service"]
          /\ file'["esp-sync link"] = {}
      BY <1>1, <3>2 DEF Put
    <3>4. /\ Past(2, 1)
          /\ Past(10, 1)
          /\ Past(10, 2)
          /\ ~Past(10, 4)'
      BY <1>6, <2>2, <2>3, <2>6, SMT DEF Past
    <3> QED
      BY <2>2, <3>1, <3>3, <3>4 DEF Sync, Imaged
  <2>7. CASE wr = 4
    <3>1. Is("esp-sync link", {"unit"}, "rename") /\ Mirrored(tjob)
      BY <1>6, <2>1, <2>7, Writes10
    <3>2. Put("esp-sync link", {"unit"})
      BY <1>6, <3>1, WriteFileIs DEF Is
    <3>3. /\ file'["esp-sync"] = file["esp-sync"]
          /\ file'["esp-sync.service"] = file["esp-sync.service"]
          /\ file'["esp-sync link"] = {"unit"}
      BY <1>1, <3>2 DEF Put
    <3>4. /\ Past(2, 1)
          /\ Past(10, 1)
          /\ Past(10, 2)
      BY <1>6, <2>2, <2>3, <2>7, SMT DEF Past
    <3> QED
      BY <2>2, <3>1, <3>3, <3>4 DEF Sync, Imaged
  <2>8. wr = 1 \/ wr = 2 \/ wr = 3 \/ wr = 4
    BY <1>6, <2>1, Writes10
  <2> QED
    BY <2>8, <2>4, <2>5, <2>6, <2>7
<1>7. CASE WriteFails /\ at = 10
  <2>1. wr \in Nat \ {0} /\ wr <= Len(Ws) /\ at # 1
    BY <1>7, WriteFailsIs, SMT DEF StepInv
  <2>2. Ws[wr].how = "rename" \/ Ws[wr].path \notin P
    BY <1>7, <2>1, Writes10 DEF Is
  <2> QED
    BY <1>1, <1>2, <1>3, <1>7, <2>1, <2>2, FailedWrite
<1>8. CASE StreamImage
  <2>1. /\ ~Past(10, 1)'
        /\ ~Past(10, 2)'
        /\ ~Past(10, 4)'
    <3>1. 10 \in 3 .. 21
      BY SMT
    <3> QED
      BY <1>8, <3>1, StreamIs
  <2>2. tjob' = tjob /\ file' = Streamed(tjob, file["nvram"])
    BY <1>8, StreamIs
  <2>3. /\ file'["esp-sync link"] = {}
    BY <1>1, <2>2 DEF Streamed
  <2> QED
    BY <2>1, <2>2, <2>3 DEF Sync, Imaged
<1> QED
  BY <1>4, <1>5, <1>6, <1>7, <1>8 DEF TargetNext, Quiet

(* prepare-oci-prepulls makes the list after the archive, the link last.     *)
LEMMA PullsStep ==
    ASSUME StepInv, Pulls, [TargetNext]_tvars
    PROVE  Pulls'
<1> DEFINE P == {"archive", "import list", "importer", "prepull.service", "prepull link"}
           K == {2, 12}
<1>1. P \in SUBSET Paths
  BY DEF Paths
<1>2. K \in SUBSET (1 .. 21)
  BY SMT
<1>3. ASSUME QuietOn(P, K) PROVE Pulls'
  <2>1. tjob' = tjob /\ \A q \in P : file'[q] = file[q]
    BY <1>3 DEF QuietOn
  <2>2. /\ (Past(2, 1)' => Past(2, 1))
        /\ (Past(12, 1)' => Past(12, 1))
        /\ (Past(12, 2)' => Past(12, 2))
        /\ (Past(12, 3)' => Past(12, 3))
        /\ (Past(12, 4)' => Past(12, 4))
        /\ (Past(12, 6)' => Past(12, 6))
    <3>1. \A k \in K : \A w \in 1 .. Count(k) : Past(k, w)' => Past(k, w)
      BY <1>3 DEF QuietOn
    <3> QED
      BY <3>1, Reach
  <2> QED
    BY <2>1, <2>2 DEF Pulls, Imaged
<1>4. CASE Quiet
  BY <1>1, <1>2, <1>3, <1>4, QuietAction, QuietSub
<1>5. CASE (WriteFile \/ WriteFails) /\ at \notin {12}
  <2>1. at \in 1 .. 21 /\ at # 2 /\ wr <= Len(Ws)
    BY <1>5, WriteFileIs, WriteFailsIs
  <2>2. at <= 21
    BY <2>1, SMT
  <2>3. at # 21
    BY <2>1, <2>2, PathsOfStep
  <2>4. at \in {1, 3, 4, 5, 6, 7, 8, 9, 10, 11, 13, 14, 15, 16, 17, 18, 19, 20}
    BY <1>5, <2>1, <2>3, SMT
  <2>5. Ws[wr].path \notin P
    BY <2>1, <2>2, <2>4, PathsOfStep
  <2>6. at \notin K
    BY <1>5, <2>1
  <2> QED
    BY <1>1, <1>2, <1>3, <1>5, <2>5, <2>6, OtherStep
<1>6. CASE WriteFile /\ at = 12
  <2>1. wr \in Nat \ {0} /\ wr <= Len(Ws)
    BY <1>6, WriteFileIs DEF StepInv
  <2>2. wr' = wr + 1 /\ tjob' = tjob /\ at' = at /\ complete' = complete
    BY <1>6, WriteFileIs
  <2>3. targetSteps[2] \in complete /\ targetSteps[12] \notin complete
    BY <1>6, LaterIsOpen, SMT DEF StepInv
  <2>4. CASE wr = 1
    <3>1. Is("archive", {"image1", "image2"}, "rename")
      BY <1>6, <2>1, <2>4, Writes12
    <3>2. Put("archive", {"image1", "image2"})
      BY <1>6, <3>1, WriteFileIs DEF Is
    <3>3. /\ file'["archive"] = {"image1", "image2"}
          /\ file'["import list"] = file["import list"]
          /\ file'["importer"] = file["importer"]
          /\ file'["prepull.service"] = file["prepull.service"]
          /\ file'["prepull link"] = file["prepull link"]
      BY <1>1, <3>2 DEF Put
    <3>4. /\ Past(2, 1)
          /\ ~Past(12, 2)'
          /\ ~Past(12, 3)'
          /\ ~Past(12, 4)'
          /\ ~Past(12, 6)'
      BY <1>6, <2>2, <2>3, <2>4, SMT DEF Past
    <3> QED
      BY <2>2, <3>1, <3>3, <3>4 DEF Pulls, Imaged
  <2>5. CASE wr = 2
    <3>1. Is("import list", {"image1", "image2"}, "rename")
      BY <1>6, <2>1, <2>5, Writes12
    <3>2. Put("import list", {"image1", "image2"})
      BY <1>6, <3>1, WriteFileIs DEF Is
    <3>3. /\ file'["archive"] = file["archive"]
          /\ file'["import list"] = {"image1", "image2"}
          /\ file'["importer"] = file["importer"]
          /\ file'["prepull.service"] = file["prepull.service"]
          /\ file'["prepull link"] = file["prepull link"]
      BY <1>1, <3>2 DEF Put
    <3>4. /\ Past(2, 1)
          /\ Past(12, 1)
          /\ ~Past(12, 3)'
          /\ ~Past(12, 4)'
          /\ ~Past(12, 6)'
      BY <1>6, <2>2, <2>3, <2>5, SMT DEF Past
    <3> QED
      BY <2>2, <3>1, <3>3, <3>4 DEF Pulls, Imaged
  <2>6. CASE wr = 3
    <3>1. Is("importer", {"script"}, "rename")
      BY <1>6, <2>1, <2>6, Writes12
    <3>2. Put("importer", {"script"})
      BY <1>6, <3>1, WriteFileIs DEF Is
    <3>3. /\ file'["archive"] = file["archive"]
          /\ file'["import list"] = file["import list"]
          /\ file'["importer"] = {"script"}
          /\ file'["prepull.service"] = file["prepull.service"]
          /\ file'["prepull link"] = file["prepull link"]
      BY <1>1, <3>2 DEF Put
    <3>4. /\ Past(2, 1)
          /\ Past(12, 1)
          /\ Past(12, 2)
          /\ ~Past(12, 4)'
          /\ ~Past(12, 6)'
      BY <1>6, <2>2, <2>3, <2>6, SMT DEF Past
    <3> QED
      BY <2>2, <3>1, <3>3, <3>4 DEF Pulls, Imaged
  <2>7. CASE wr = 4
    <3>1. Is("prepull.service", {"unit"}, "rename")
      BY <1>6, <2>1, <2>7, Writes12
    <3>2. Put("prepull.service", {"unit"})
      BY <1>6, <3>1, WriteFileIs DEF Is
    <3>3. /\ file'["archive"] = file["archive"]
          /\ file'["import list"] = file["import list"]
          /\ file'["importer"] = file["importer"]
          /\ file'["prepull.service"] = {"unit"}
          /\ file'["prepull link"] = file["prepull link"]
      BY <1>1, <3>2 DEF Put
    <3>4. /\ Past(2, 1)
          /\ Past(12, 1)
          /\ Past(12, 2)
          /\ Past(12, 3)
          /\ ~Past(12, 6)'
      BY <1>6, <2>2, <2>3, <2>7, SMT DEF Past
    <3> QED
      BY <2>2, <3>1, <3>3, <3>4 DEF Pulls, Imaged
  <2>8. CASE wr = 5
    <3>1. Is("prepull link", {}, "rename")
      BY <1>6, <2>1, <2>8, Writes12
    <3>2. Put("prepull link", {})
      BY <1>6, <3>1, WriteFileIs DEF Is
    <3>3. /\ file'["archive"] = file["archive"]
          /\ file'["import list"] = file["import list"]
          /\ file'["importer"] = file["importer"]
          /\ file'["prepull.service"] = file["prepull.service"]
          /\ file'["prepull link"] = {}
      BY <1>1, <3>2 DEF Put
    <3>4. /\ Past(2, 1)
          /\ Past(12, 1)
          /\ Past(12, 2)
          /\ Past(12, 3)
          /\ Past(12, 4)
          /\ ~Past(12, 6)'
      BY <1>6, <2>2, <2>3, <2>8, SMT DEF Past
    <3> QED
      BY <2>2, <3>1, <3>3, <3>4 DEF Pulls, Imaged
  <2>9. CASE wr = 6
    <3>1. Is("prepull link", {"unit"}, "rename")
      BY <1>6, <2>1, <2>9, Writes12
    <3>2. Put("prepull link", {"unit"})
      BY <1>6, <3>1, WriteFileIs DEF Is
    <3>3. /\ file'["archive"] = file["archive"]
          /\ file'["import list"] = file["import list"]
          /\ file'["importer"] = file["importer"]
          /\ file'["prepull.service"] = file["prepull.service"]
          /\ file'["prepull link"] = {"unit"}
      BY <1>1, <3>2 DEF Put
    <3>4. /\ Past(2, 1)
          /\ Past(12, 1)
          /\ Past(12, 2)
          /\ Past(12, 3)
          /\ Past(12, 4)
      BY <1>6, <2>2, <2>3, <2>9, SMT DEF Past
    <3> QED
      BY <2>2, <3>1, <3>3, <3>4 DEF Pulls, Imaged
  <2>10. wr = 1 \/ wr = 2 \/ wr = 3 \/ wr = 4 \/ wr = 5 \/ wr = 6
    BY <1>6, <2>1, Writes12
  <2> QED
    BY <2>10, <2>4, <2>5, <2>6, <2>7, <2>8, <2>9
<1>7. CASE WriteFails /\ at = 12
  <2>1. wr \in Nat \ {0} /\ wr <= Len(Ws) /\ at # 1
    BY <1>7, WriteFailsIs, SMT DEF StepInv
  <2>2. Ws[wr].how = "rename" \/ Ws[wr].path \notin P
    BY <1>7, <2>1, Writes12 DEF Is
  <2> QED
    BY <1>1, <1>2, <1>3, <1>7, <2>1, <2>2, FailedWrite
<1>8. CASE StreamImage
  <2>1. /\ ~Past(12, 1)'
        /\ ~Past(12, 2)'
        /\ ~Past(12, 3)'
        /\ ~Past(12, 4)'
        /\ ~Past(12, 6)'
    <3>1. 12 \in 3 .. 21
      BY SMT
    <3> QED
      BY <1>8, <3>1, StreamIs
  <2>2. tjob' = tjob /\ file' = Streamed(tjob, file["nvram"])
    BY <1>8, StreamIs
  <2>3. /\ file'["import list"] = {}
        /\ file'["prepull link"] = {}
    BY <1>1, <2>2 DEF Streamed
  <2> QED
    BY <2>1, <2>2, <2>3 DEF Pulls, Imaged
<1> QED
  BY <1>4, <1>5, <1>6, <1>7, <1>8 DEF TargetNext, Quiet

(* configure-serial-console leaves the resolved console only.                *)
LEMMA ConsoleStep ==
    ASSUME StepInv, Console, [TargetNext]_tvars
    PROVE  Console'
<1> DEFINE P == {"getty links"}
           K == {2, 13}
<1>1. P \in SUBSET Paths
  BY DEF Paths
<1>2. K \in SUBSET (1 .. 21)
  BY SMT
<1>3. ASSUME QuietOn(P, K) PROVE Console'
  <2>1. tjob' = tjob /\ \A q \in P : file'[q] = file[q]
    BY <1>3 DEF QuietOn
  <2>2. /\ (Past(2, 1)' => Past(2, 1))
        /\ tjob.grub = "resolved" => (Past(13, 4)' => Past(13, 4))
    <3>1. \A k \in K : \A w \in 1 .. Count(k) : Past(k, w)' => Past(k, w)
      BY <1>3 DEF QuietOn
    <3> QED
      BY <3>1, Reach
  <2> QED
    BY <2>1, <2>2 DEF Console, Imaged
<1>4. CASE Quiet
  BY <1>1, <1>2, <1>3, <1>4, QuietAction, QuietSub
<1>5. CASE (WriteFile \/ WriteFails) /\ at \notin {13}
  <2>1. at \in 1 .. 21 /\ at # 2 /\ wr <= Len(Ws)
    BY <1>5, WriteFileIs, WriteFailsIs
  <2>2. at <= 21
    BY <2>1, SMT
  <2>3. at # 21
    BY <2>1, <2>2, PathsOfStep
  <2>4. at \in {1, 3, 4, 5, 6, 7, 8, 9, 10, 11, 12, 14, 15, 16, 17, 18, 19, 20}
    BY <1>5, <2>1, <2>3, SMT
  <2>5. Ws[wr].path \notin P
    BY <2>1, <2>2, <2>4, PathsOfStep
  <2>6. at \notin K
    BY <1>5, <2>1
  <2> QED
    BY <1>1, <1>2, <1>3, <1>5, <2>5, <2>6, OtherStep
<1>6. CASE WriteFile /\ at = 13
  <2>1. wr \in Nat \ {0} /\ wr <= Len(Ws)
    BY <1>6, WriteFileIs DEF StepInv
  <2>2. wr' = wr + 1 /\ tjob' = tjob /\ at' = at /\ complete' = complete
    BY <1>6, WriteFileIs
  <2>3. targetSteps[2] \in complete
    BY <1>6, LaterIsOpen, SMT DEF StepInv
  <2>4. CASE wr = 1
    <3>1. Is("console artifact", {"ttyS1"}, "rename") /\ tjob.grub = "resolved"
      BY <1>6, <2>1, <2>4, Writes13
    <3>2. Put("console artifact", {"ttyS1"})
      BY <1>6, <3>1, WriteFileIs DEF Is
    <3>3. /\ file'["getty links"] = file["getty links"]
      BY <1>1, <3>2 DEF Put
    <3>4. /\ Past(2, 1)
          /\ Past(13, 4)' => Past(13, 4)
      BY <1>6, <2>2, <2>3, <2>4, SMT DEF Past
    <3> QED
      BY <2>2, <3>1, <3>3, <3>4 DEF Console, Imaged
  <2>5. CASE wr = 2
    <3>1. Is("getty drop-in", {"ttyS1"}, "rename") /\ tjob.grub = "resolved"
      BY <1>6, <2>1, <2>5, Writes13
    <3>2. Put("getty drop-in", {"ttyS1"})
      BY <1>6, <3>1, WriteFileIs DEF Is
    <3>3. /\ file'["getty links"] = file["getty links"]
      BY <1>1, <3>2 DEF Put
    <3>4. /\ Past(2, 1)
          /\ Past(13, 4)' => Past(13, 4)
      BY <1>6, <2>2, <2>3, <2>5, SMT DEF Past
    <3> QED
      BY <2>2, <3>1, <3>3, <3>4 DEF Console, Imaged
  <2>6. CASE wr = 3
    <3>1. Is("getty links", file["getty links"] \cup {"ttyS1"}, "rename") /\ tjob.grub = "resolved"
      BY <1>6, <2>1, <2>6, Writes13
    <3>2. Put("getty links", file["getty links"] \cup {"ttyS1"})
      BY <1>6, <3>1, WriteFileIs DEF Is
    <3>3. /\ file'["getty links"] = file["getty links"] \cup {"ttyS1"}
      BY <1>1, <3>2 DEF Put
    <3>4. /\ Past(2, 1)
          /\ Past(13, 4)' => Past(13, 4)
      BY <1>6, <2>2, <2>3, <2>6, SMT DEF Past
    <3> QED
      BY <2>2, <3>1, <3>3, <3>4 DEF Console, Imaged
  <2>7. CASE wr = 4
    <3>1. Is("getty links", {"ttyS1"}, "rename") /\ tjob.grub = "resolved"
      BY <1>6, <2>1, <2>7, Writes13
    <3>2. Put("getty links", {"ttyS1"})
      BY <1>6, <3>1, WriteFileIs DEF Is
    <3>3. /\ file'["getty links"] = {"ttyS1"}
      BY <1>1, <3>2 DEF Put
    <3>4. /\ Past(2, 1)
      BY <1>6, <2>2, <2>3, <2>7, SMT DEF Past
    <3> QED
      BY <2>2, <3>1, <3>3, <3>4 DEF Console, Imaged
  <2>8. wr = 1 \/ wr = 2 \/ wr = 3 \/ wr = 4
    BY <1>6, <2>1, Writes13
  <2> QED
    BY <2>8, <2>4, <2>5, <2>6, <2>7
<1>7. CASE WriteFails /\ at = 13
  <2>1. wr \in Nat \ {0} /\ wr <= Len(Ws) /\ at # 1
    BY <1>7, WriteFailsIs, SMT DEF StepInv
  <2>2. Ws[wr].how = "rename" \/ Ws[wr].path \notin P
    BY <1>7, <2>1, Writes13 DEF Is
  <2> QED
    BY <1>1, <1>2, <1>3, <1>7, <2>1, <2>2, FailedWrite
<1>8. CASE StreamImage
  <2>1. /\ ~Past(13, 4)'
    <3>1. 13 \in 3 .. 21
      BY SMT
    <3> QED
      BY <1>8, <3>1, StreamIs
  <2>2. tjob' = tjob /\ file' = Streamed(tjob, file["nvram"])
    BY <1>8, StreamIs
  <2>3. /\ file'["getty links"] = {"ttyS0"}
    BY <1>1, <2>2 DEF Streamed
  <2> QED
    BY <2>1, <2>2, <2>3 DEF Console, Imaged
<1> QED
  BY <1>4, <1>5, <1>6, <1>7, <1>8 DEF TargetNext, Quiet

(* inject-cloudinit alone writes the seed.                                   *)
LEMMA SeedStep ==
    ASSUME StepInv, Seed, [TargetNext]_tvars
    PROVE  Seed'
<1> DEFINE P == {"network-config", "user-data"}
           K == {2, 16}
<1>1. P \in SUBSET Paths
  BY DEF Paths
<1>2. K \in SUBSET (1 .. 21)
  BY SMT
<1>3. ASSUME QuietOn(P, K) PROVE Seed'
  <2>1. tjob' = tjob /\ \A q \in P : file'[q] = file[q]
    BY <1>3 DEF QuietOn
  <2>2. /\ (Past(2, 1)' => Past(2, 1))
        /\ (Past(16, 2)' => Past(16, 2))
        /\ (Past(16, 3)' => Past(16, 3))
    <3>1. \A k \in K : \A w \in 1 .. Count(k) : Past(k, w)' => Past(k, w)
      BY <1>3 DEF QuietOn
    <3> QED
      BY <3>1, Reach
  <2> QED
    BY <2>1, <2>2 DEF Seed, Imaged
<1>4. CASE Quiet
  BY <1>1, <1>2, <1>3, <1>4, QuietAction, QuietSub
<1>5. CASE (WriteFile \/ WriteFails) /\ at \notin {16}
  <2>1. at \in 1 .. 21 /\ at # 2 /\ wr <= Len(Ws)
    BY <1>5, WriteFileIs, WriteFailsIs
  <2>2. at <= 21
    BY <2>1, SMT
  <2>3. at # 21
    BY <2>1, <2>2, PathsOfStep
  <2>4. at \in {1, 3, 4, 5, 6, 7, 8, 9, 10, 11, 12, 13, 14, 15, 17, 18, 19, 20}
    BY <1>5, <2>1, <2>3, SMT
  <2>5. Ws[wr].path \notin P
    BY <2>1, <2>2, <2>4, PathsOfStep
  <2>6. at \notin K
    BY <1>5, <2>1
  <2> QED
    BY <1>1, <1>2, <1>3, <1>5, <2>5, <2>6, OtherStep
<1>6. CASE WriteFile /\ at = 16
  <2>1. wr \in Nat \ {0} /\ wr <= Len(Ws)
    BY <1>6, WriteFileIs DEF StepInv
  <2>2. wr' = wr + 1 /\ tjob' = tjob /\ at' = at /\ complete' = complete
    BY <1>6, WriteFileIs
  <2>3. targetSteps[2] \in complete /\ targetSteps[16] \notin complete
    BY <1>6, LaterIsOpen, SMT DEF StepInv
  <2>4. CASE wr = 1
    <3>1. Is("meta-data", {"config"}, "rename")
      BY <1>6, <2>1, <2>4, Writes16
    <3>2. Put("meta-data", {"config"})
      BY <1>6, <3>1, WriteFileIs DEF Is
    <3>3. /\ file'["network-config"] = file["network-config"]
          /\ file'["user-data"] = file["user-data"]
      BY <1>1, <3>2 DEF Put
    <3>4. /\ Past(2, 1)
          /\ ~Past(16, 2)'
          /\ ~Past(16, 3)'
      BY <1>6, <2>2, <2>3, <2>4, SMT DEF Past
    <3> QED
      BY <2>2, <3>1, <3>3, <3>4 DEF Seed, Imaged
  <2>5. CASE wr = 2
    <3>1. Is("network-config", {"config"}, "rename")
      BY <1>6, <2>1, <2>5, Writes16
    <3>2. Put("network-config", {"config"})
      BY <1>6, <3>1, WriteFileIs DEF Is
    <3>3. /\ file'["network-config"] = {"config"}
          /\ file'["user-data"] = file["user-data"]
      BY <1>1, <3>2 DEF Put
    <3>4. /\ Past(2, 1)
          /\ ~Past(16, 3)'
      BY <1>6, <2>2, <2>3, <2>5, SMT DEF Past
    <3> QED
      BY <2>2, <3>1, <3>3, <3>4 DEF Seed, Imaged
  <2>6. CASE wr = 3
    <3>1. Is("user-data", {"config"}, "rename")
      BY <1>6, <2>1, <2>6, Writes16
    <3>2. Put("user-data", {"config"})
      BY <1>6, <3>1, WriteFileIs DEF Is
    <3>3. /\ file'["network-config"] = file["network-config"]
          /\ file'["user-data"] = {"config"}
      BY <1>1, <3>2 DEF Put
    <3>4. /\ Past(2, 1)
          /\ Past(16, 2)
      BY <1>6, <2>2, <2>3, <2>6, SMT DEF Past
    <3> QED
      BY <2>2, <3>1, <3>3, <3>4 DEF Seed, Imaged
  <2>7. wr = 1 \/ wr = 2 \/ wr = 3
    BY <1>6, <2>1, Writes16
  <2> QED
    BY <2>7, <2>4, <2>5, <2>6
<1>7. CASE WriteFails /\ at = 16
  <2>1. wr \in Nat \ {0} /\ wr <= Len(Ws) /\ at # 1
    BY <1>7, WriteFailsIs, SMT DEF StepInv
  <2>2. Ws[wr].how = "rename" \/ Ws[wr].path \notin P
    BY <1>7, <2>1, Writes16 DEF Is
  <2> QED
    BY <1>1, <1>2, <1>3, <1>7, <2>1, <2>2, FailedWrite
<1>8. CASE StreamImage
  <2>1. /\ ~Past(16, 2)'
        /\ ~Past(16, 3)'
    <3>1. 16 \in 3 .. 21
      BY SMT
    <3> QED
      BY <1>8, <3>1, StreamIs
  <2>2. tjob' = tjob /\ file' = Streamed(tjob, file["nvram"])
    BY <1>8, StreamIs
  <2> QED
    BY <2>1, <2>2 DEF Seed, Imaged
<1> QED
  BY <1>4, <1>5, <1>6, <1>7, <1>8 DEF TargetNext, Quiet

(* run-machine-commands removes its script.                                  *)
LEMMA CommandsStep ==
    ASSUME StepInv, Commands, [TargetNext]_tvars
    PROVE  Commands'
<1> DEFINE P == {"script", "commands"}
           K == {2, 18}
<1>1. P \in SUBSET Paths
  BY DEF Paths
<1>2. K \in SUBSET (1 .. 21)
  BY SMT
<1>3. ASSUME QuietOn(P, K) PROVE Commands'
  <2>1. tjob' = tjob /\ \A q \in P : file'[q] = file[q]
    BY <1>3 DEF QuietOn
  <2>2. /\ (Past(2, 1)' => Past(2, 1))
        /\ (Past(18, 2)' => Past(18, 2))
        /\ (Past(18, 3)' => Past(18, 3))
    <3>1. \A k \in K : \A w \in 1 .. Count(k) : Past(k, w)' => Past(k, w)
      BY <1>3 DEF QuietOn
    <3> QED
      BY <3>1, Reach
  <2> QED
    BY <2>1, <2>2 DEF Commands, Imaged
<1>4. CASE Quiet
  BY <1>1, <1>2, <1>3, <1>4, QuietAction, QuietSub
<1>5. CASE (WriteFile \/ WriteFails) /\ at \notin {18}
  <2>1. at \in 1 .. 21 /\ at # 2 /\ wr <= Len(Ws)
    BY <1>5, WriteFileIs, WriteFailsIs
  <2>2. at <= 21
    BY <2>1, SMT
  <2>3. at # 21
    BY <2>1, <2>2, PathsOfStep
  <2>4. at \in {1, 3, 4, 5, 6, 7, 8, 9, 10, 11, 12, 13, 14, 15, 16, 17, 19, 20}
    BY <1>5, <2>1, <2>3, SMT
  <2>5. Ws[wr].path \notin P
    BY <2>1, <2>2, <2>4, PathsOfStep
  <2>6. at \notin K
    BY <1>5, <2>1
  <2> QED
    BY <1>1, <1>2, <1>3, <1>5, <2>5, <2>6, OtherStep
<1>6. CASE WriteFile /\ at = 18
  <2>1. wr \in Nat \ {0} /\ wr <= Len(Ws)
    BY <1>6, WriteFileIs DEF StepInv
  <2>2. wr' = wr + 1 /\ tjob' = tjob /\ at' = at /\ complete' = complete
    BY <1>6, WriteFileIs
  <2>3. targetSteps[2] \in complete /\ targetSteps[18] \notin complete
    BY <1>6, LaterIsOpen, SMT DEF StepInv
  <2>4. CASE wr = 1
    <3>1. Is("script", {"script"}, "rename")
      BY <1>6, <2>1, <2>4, Writes18
    <3>2. Put("script", {"script"})
      BY <1>6, <3>1, WriteFileIs DEF Is
    <3>3. /\ file'["script"] = {"script"}
          /\ file'["commands"] = file["commands"]
      BY <1>1, <3>2 DEF Put
    <3>4. /\ Past(2, 1)
          /\ ~Past(18, 2)'
          /\ ~Past(18, 3)'
      BY <1>6, <2>2, <2>3, <2>4, SMT DEF Past
    <3> QED
      BY <2>2, <3>1, <3>3, <3>4 DEF Commands, Imaged
  <2>5. CASE wr = 2
    <3>1. Is("commands", {"ran"}, "tool")
      BY <1>6, <2>1, <2>5, Writes18
    <3>2. Put("commands", {"ran"})
      BY <1>6, <3>1, WriteFileIs DEF Is
    <3>3. /\ file'["script"] = file["script"]
          /\ file'["commands"] = {"ran"}
      BY <1>1, <3>2 DEF Put
    <3>4. /\ Past(2, 1)
          /\ ~Past(18, 3)'
      BY <1>6, <2>2, <2>3, <2>5, SMT DEF Past
    <3> QED
      BY <2>2, <3>1, <3>3, <3>4 DEF Commands, Imaged
  <2>6. CASE wr = 3
    <3>1. Is("script", {}, "rename")
      BY <1>6, <2>1, <2>6, Writes18
    <3>2. Put("script", {})
      BY <1>6, <3>1, WriteFileIs DEF Is
    <3>3. /\ file'["script"] = {}
          /\ file'["commands"] = file["commands"]
      BY <1>1, <3>2 DEF Put
    <3>4. /\ Past(2, 1)
          /\ Past(18, 2)
      BY <1>6, <2>2, <2>3, <2>6, SMT DEF Past
    <3> QED
      BY <2>2, <3>1, <3>3, <3>4 DEF Commands, Imaged
  <2>7. wr = 1 \/ wr = 2 \/ wr = 3
    BY <1>6, <2>1, Writes18
  <2> QED
    BY <2>7, <2>4, <2>5, <2>6
<1>7. CASE WriteFails /\ at = 18
  <2>1. wr \in Nat \ {0} /\ wr <= Len(Ws) /\ at # 1
    BY <1>7, WriteFailsIs, SMT DEF StepInv
  <2>2. CASE wr # 2
    <3>1. Ws[wr].how = "rename" \/ Ws[wr].path \notin P
      BY <1>7, <2>1, <2>2, Writes18 DEF Is
    <3> QED
      BY <1>1, <1>2, <1>3, <1>7, <2>1, <3>1, FailedWrite
  <2>3. CASE wr = 2
    <3>1. Is("commands", {"ran"}, "tool")
      BY <1>7, <2>1, <2>3, Writes18
    <3>2. /\ file'["script"] = file["script"]
      BY <1>1, <1>7, <3>1, WriteFailsIs DEF Is, Put
    <3>3. wr' \in {1, wr} /\ tjob' = tjob /\ at' = at /\ complete' = complete
      BY <1>7, <2>1, WriteFailsIs
    <3>4. targetSteps[2] \in complete /\ targetSteps[18] \notin complete
      BY <1>7, LaterIsOpen, SMT DEF StepInv
    <3>5. /\ tjob' = tjob
          /\ Past(2, 1)
          /\ ~Past(18, 2)'
          /\ ~Past(18, 3)'
      BY <1>7, <2>1, <2>3, <3>3, <3>4, SMT DEF Past
    <3> QED
      BY <3>2, <3>5 DEF Commands, Imaged
  <2> QED
    BY <2>2, <2>3
<1>8. CASE StreamImage
  <2>1. /\ ~Past(18, 2)'
        /\ ~Past(18, 3)'
    <3>1. 18 \in 3 .. 21
      BY SMT
    <3> QED
      BY <1>8, <3>1, StreamIs
  <2>2. tjob' = tjob /\ file' = Streamed(tjob, file["nvram"])
    BY <1>8, StreamIs
  <2> QED
    BY <2>1, <2>2 DEF Commands, Imaged
<1> QED
  BY <1>4, <1>5, <1>6, <1>7, <1>8 DEF TargetNext, Quiet

(* The merge keeps the other arguments, once and again.                      *)
LEMMA MergeIs ==
    ASSUME NEW e \in {{"--v", "--provider-id=image"}, {"--v", "--provider-id=config"}}
    PROVE  mergeKubeletArgs(e \ Torn) = {"--v", "--provider-id=config"}
BY DEF mergeKubeletArgs, Torn

(* configure-kubelet keeps the arguments of the image; a machine file wins.  *)
LEMMA KubeletStep ==
    ASSUME StepInv, Kubelet, [TargetNext]_tvars
    PROVE  Kubelet'
<1> DEFINE P == {"kubelet"}
           K == {2, 11, 17}
<1>1. P \in SUBSET Paths
  BY DEF Paths
<1>2. K \in SUBSET (1 .. 21)
  BY SMT
<1>3. ASSUME QuietOn(P, K), cut \subseteq cut', Past(2, 1)' => complete \subseteq complete'
      PROVE  Kubelet'
  <2>1. tjob' = tjob /\ file'["kubelet"] = file["kubelet"]
    BY <1>3 DEF QuietOn
  <2>2. Count(17)' = Count(17)
    BY <2>1 DEF Count, Mirrored
  <2>3. /\ Past(2, 1)' => Past(2, 1)
        /\ Past(11, 1)' => Past(11, 1)
        /\ "kubelet" \in tjob.machine => (Past(17, Count(17))' => Past(17, Count(17)))
    <3>1. \A k \in K : \A w \in 1 .. Count(k) : Past(k, w)' => Past(k, w)
      BY <1>3 DEF QuietOn
    <3>2. "kubelet" \in tjob.machine => Count(17) \in 1 .. Count(17)
      BY SMT DEF Count
    <3>3. "kubelet" \in tjob.machine =>
            ((targetSteps[17] \in complete' \/ (at' = 17 /\ wr' > Count(17))) => Past(17, Count(17)))
      BY <3>1, <3>2 DEF Past
    <3>4. Past(2, 1)' => Past(2, 1)
      BY <3>1, Reach
    <3>5. Past(11, 1)' => Past(11, 1)
      BY <3>1, Reach
    <3> QED
      BY <2>2, <3>3, <3>4, <3>5 DEF Past
  <2> QED
    BY <1>3, <2>1, <2>3 DEF Kubelet, Imaged
<1>4. CASE Quiet
  BY <1>1, <1>2, <1>3, <1>4, QuietAction, QuietSub
<1>5. CASE (WriteFile \/ WriteFails) /\ at \notin {11, 17}
  <2>1. at \in 1 .. 21 /\ at # 2 /\ wr <= Len(Ws)
    BY <1>5, WriteFileIs, WriteFailsIs
  <2>2. at <= 21
    BY <2>1, SMT
  <2>3. at # 21
    BY <2>1, <2>2, PathsOfStep
  <2>4. at \in {1, 3, 4, 5, 6, 7, 8, 9, 10, 12, 13, 14, 15, 16, 18, 19, 20}
    BY <1>5, <2>1, <2>3, SMT
  <2>5. Ws[wr].path \notin P
    BY <2>1, <2>2, <2>4, PathsOfStep
  <2>6. at \notin K
    BY <1>5, <2>1
  <2>7. cut \subseteq cut' /\ complete' = complete
    BY <1>5, WriteFileIs, WriteFailsIs
  <2> QED
    BY <1>1, <1>2, <1>3, <1>5, <2>5, <2>6, <2>7, OtherStep
<1>6. CASE WriteFile /\ at = 11
  <2>1. wr \in Nat \ {0} /\ wr <= Len(Ws)
    BY <1>6, WriteFileIs DEF StepInv
  <2>2. tjob' = tjob /\ at' = at /\ complete' = complete /\ cut' = cut
    BY <1>6, WriteFileIs
  <2>3. targetSteps[2] \in complete /\ targetSteps[11] \notin complete /\ targetSteps[17] \notin complete
    BY <1>6, LaterIsOpen, SMT DEF StepInv
  <2>4. Is("kubelet", mergeKubeletArgs(file["kubelet"] \ Torn), "inplace")
    BY <1>6, <2>1, Writes11
  <2>5. file'["kubelet"] = mergeKubeletArgs(file["kubelet"] \ Torn)
    BY <1>6, <2>4, WriteFileIs DEF Is, Put
  <2>6. "kubelet" \notin cut =>
            file["kubelet"] \in {{"--v", "--provider-id=image"}, {"--v", "--provider-id=config"}}
    BY <2>3 DEF Kubelet, Imaged, Past
  <2>7. ~Past(17, Count(17))'
    BY <1>6, <2>2, <2>3, SMT DEF Past
  <2>8. "kubelet" \notin cut => file'["kubelet"] = {"--v", "--provider-id=config"}
    BY <2>5, <2>6, MergeIs
  <2> QED
    BY <2>2, <2>7, <2>8 DEF Kubelet
<1>7. CASE WriteFails /\ at = 11
  <2>1. wr \in Nat \ {0} /\ wr <= Len(Ws) /\ at # 1
    BY <1>7, WriteFailsIs, SMT DEF StepInv
  <2>2. tjob' = tjob /\ at' = at /\ complete' = complete /\ cut \subseteq cut' /\ wr' \in {1, wr}
    BY <1>7, <2>1, WriteFailsIs
  <2>3. targetSteps[2] \in complete /\ targetSteps[11] \notin complete /\ targetSteps[17] \notin complete
    BY <1>7, LaterIsOpen, SMT DEF StepInv
  <2>4. Is("kubelet", mergeKubeletArgs(file["kubelet"] \ Torn), "inplace") /\ wr = 1
    BY <1>7, <2>1, Writes11
  <2>5. file'["kubelet"] = file["kubelet"] \/ "kubelet" \in cut'
    BY <1>7, <2>4, InPlaceFails
  <2>6. ~Past(17, Count(17))' /\ ~Past(11, 1)'
    BY <1>7, <2>2, <2>3, <2>4, SMT DEF Past
  <2> QED
    BY <2>2, <2>3, <2>5, <2>6 DEF Kubelet, Imaged, Past
<1>8. CASE WriteFile /\ at = 17
  <2>1. wr \in Nat \ {0} /\ wr <= Len(Ws)
    BY <1>8, WriteFileIs DEF StepInv
  <2>2. tjob' = tjob /\ at' = at /\ complete' = complete /\ cut' = cut /\ wr' = wr + 1
    BY <1>8, WriteFileIs
  <2>3. targetSteps[11] \in complete /\ targetSteps[17] \notin complete
    BY <1>8, LaterIsOpen, SMT DEF StepInv
  <2>4. Count(17)' = Count(17)
    BY <2>2 DEF Count, Mirrored
  <2>5. CASE "grub.d" \in tjob.machine /\ wr = 1 /\ Is("grub.d", {"machine"}, "inplace")
    <3>1. file'["kubelet"] = file["kubelet"]
      BY <1>1, <1>8, <2>5, WriteFileIs DEF Is, Put
    <3>2. "kubelet" \in tjob.machine => Count(17) = 2
      BY <2>5, SMT DEF Count
    <3>3. "kubelet" \in tjob.machine => ~Past(17, Count(17))'
      BY <2>2, <2>3, <2>4, <2>5, <3>2, SMT DEF Past
    <3> QED
      BY <2>2, <2>3, <3>1, <3>3 DEF Kubelet, Past
  <2>6. CASE "kubelet" \in tjob.machine /\ Is("kubelet", {"machine"}, "inplace")
    <3>1. file'["kubelet"] = {"machine"}
      BY <1>8, <2>6, WriteFileIs DEF Is, Put
    <3> QED
      BY <2>2, <2>3, <2>6, <3>1 DEF Kubelet
  <2> QED
    BY <1>8, <2>1, <2>5, <2>6, Writes17
<1>9. CASE WriteFails /\ at = 17
  <2>1. wr \in Nat \ {0} /\ wr <= Len(Ws) /\ at # 1
    BY <1>9, WriteFailsIs, SMT DEF StepInv
  <2>2. tjob' = tjob /\ at' = at /\ complete' = complete /\ cut \subseteq cut' /\ wr' \in {1, wr}
    BY <1>9, <2>1, WriteFailsIs
  <2>3. targetSteps[11] \in complete /\ targetSteps[17] \notin complete
    BY <1>9, LaterIsOpen, SMT DEF StepInv
  <2>4. Count(17)' = Count(17)
    BY <2>2 DEF Count, Mirrored
  <2>5. CASE Is("grub.d", {"machine"}, "inplace")
    <3>1. Ws[wr].path \notin P
      BY <2>5 DEF Is
    <3> QED
      BY <1>1, <1>2, <1>3, <1>9, <2>1, <2>2, <3>1, FailedWrite
  <2>6. CASE "kubelet" \in tjob.machine /\ wr = Count(17) /\ Is("kubelet", {"machine"}, "inplace")
    <3>1. file'["kubelet"] = file["kubelet"] \/ "kubelet" \in cut'
      BY <1>9, <2>6, InPlaceFails
    <3>2. ~Past(17, Count(17))'
      BY <2>1, <2>2, <2>3, <2>4, <2>6, SMT DEF Past
    <3> QED
      BY <2>2, <2>3, <2>6, <3>1, <3>2 DEF Kubelet, Past
  <2> QED
    BY <1>9, <2>1, <2>5, <2>6, Writes17
<1>10. CASE StreamImage
  <2>1. ~Past(11, 1)' /\ ~Past(17, Count(17))'
    <3>1. 11 \in 3 .. 21 /\ 17 \in 3 .. 21
      BY SMT
    <3>2. \A w : ~(targetSteps[11] \in complete' \/ (at' = 11 /\ wr' > w))
      BY <1>10, <3>1, StreamIs DEF Past
    <3>3. \A w : ~(targetSteps[17] \in complete' \/ (at' = 17 /\ wr' > w))
      BY <1>10, <3>1, StreamIs DEF Past
    <3> QED
      BY <3>2, <3>3 DEF Past
  <2>2. tjob' = tjob /\ file' = Streamed(tjob, file["nvram"])
    BY <1>10, StreamIs
  <2>3. file'["kubelet"] = {"--v", "--provider-id=image"}
    BY <1>1, <2>2 DEF Streamed
  <2> QED
    BY <2>1, <2>2, <2>3 DEF Kubelet
<1> QED
  BY <1>4, <1>5, <1>6, <1>7, <1>8, <1>9, <1>10 DEF TargetNext, Quiet

(* What the configuration asks of the console and of grub.cfg.               *)
LEMMA WantedGrub ==
    /\ Wanted(tjob, "getty links") = IF tjob.grub = "resolved" THEN {"ttyS1"} ELSE {"ttyS0"}
    /\ Wanted(tjob, "grub.cfg") =
        Wanted(tjob, "getty links") \cup (IF Mirrored(tjob) THEN {"no PARTUUID"} ELSE {})
<1> DEFINE c == IF tjob.grub = "resolved" THEN "ttyS1" ELSE "ttyS0"
<1>1. Wanted(tjob, "getty links") = {c}
  BY DEF Wanted
<1>2. Wanted(tjob, "grub.cfg") = {c} \cup (IF Mirrored(tjob) THEN {"no PARTUUID"} ELSE {})
  BY DEF Wanted
<1> QED
  BY <1>1, <1>2

(* configure-grub runs in every attempt, after the drop-in of the mirror.    *)
LEMMA GrubStep ==
    ASSUME StepInv, Grub, Raid, [TargetNext]_tvars
    PROVE  Grub'
<1> DEFINE P == {"grub.d", "grub.cfg"}
           K == {9}
<1>1. P \in SUBSET Paths /\ "grub.d" \in Paths /\ "grub.cfg" \in Paths
  BY DEF Paths
<1>2. K \in SUBSET (1 .. 21)
  BY SMT
<1>3. ASSUME QuietOn(P, K), Now(1)' => Now(1), Now(2)' => Now(2)
      PROVE  Grub'
  <2>1. tjob' = tjob /\ \A q \in P : file'[q] = file[q]
    BY <1>3 DEF QuietOn
  <2>2. /\ Wanted(tjob, "getty links")' = Wanted(tjob, "getty links")
        /\ Wanted(tjob, "grub.cfg")' = Wanted(tjob, "grub.cfg")
    BY <2>1 DEF Wanted, Mirrored, Arrays
  <2> QED
    BY <1>3, <2>1, <2>2 DEF Grub
<1>4. CASE Quiet
  <2>1. 1 \in 1 .. 2 /\ 2 \in 1 .. 2
    BY SMT
  <2> QED
    BY <1>1, <1>2, <1>3, <1>4, <2>1, QuietAction, QuietSub
<1>5. CASE (WriteFile \/ WriteFails) /\ at # 14
  <2>1. at \in 1 .. 21 /\ at # 2 /\ wr <= Len(Ws) /\ wr \in Nat \ {0} /\ at' = at /\ tjob' = tjob
    BY <1>5, WriteFileIs, WriteFailsIs DEF StepInv
  <2>2. at <= 21
    BY <2>1, SMT
  <2>3. at # 21
    BY <2>1, <2>2, PathsOfStep
  <2>4. (Now(1)' => Now(1)) /\ (Now(2)' => Now(2))
    BY <1>5, <2>1 DEF Now
  <2>5. CASE "grub.d" \in tjob.machine
    BY <2>1, <2>5 DEF Grub
  <2>6. CASE "grub.d" \notin tjob.machine
    <3>1. at \in {1, 3, 4, 5, 6, 7, 8, 9, 10, 11, 12, 13, 15, 16, 18, 19, 20} \/ at = 17
      BY <1>5, <2>1, <2>3, SMT
    <3>2. at # 17 => Ws[wr].path \notin P
      BY <2>1, <2>2, <3>1, PathsOfStep
    <3>3. at = 17 => Ws[wr].path \notin P
      BY <2>1, <2>6, Writes17 DEF Is
    <3>4. at \notin {} /\ {} \in SUBSET (1 .. 21)
      OBVIOUS
    <3>5. QuietOn(P, {})
      BY <1>1, <1>5, <3>2, <3>3, <3>4, OtherStep
    <3>6. tjob' = tjob /\ \A q \in P : file'[q] = file[q]
      BY <3>5 DEF QuietOn
    <3>7. /\ Wanted(tjob, "getty links")' = Wanted(tjob, "getty links")
          /\ Wanted(tjob, "grub.cfg")' = Wanted(tjob, "grub.cfg")
      BY <3>6 DEF Wanted, Mirrored, Arrays
    <3> QED
      BY <2>4, <3>6, <3>7 DEF Grub
  <2> QED
    BY <2>5, <2>6
<1>6. CASE (WriteFile \/ WriteFails) /\ at = 14
  <2>1. wr <= Len(Ws) /\ wr \in Nat \ {0} /\ at' = at /\ tjob' = tjob /\ at # 1
    BY <1>6, WriteFileIs, WriteFailsIs, SMT DEF StepInv
  <2>2. /\ Wanted(tjob, "getty links")' = Wanted(tjob, "getty links")
        /\ Wanted(tjob, "grub.cfg")' = Wanted(tjob, "grub.cfg")
    BY <2>1 DEF Wanted, Mirrored, Arrays
  <2>3. /\ wr \in {1, 2}
        /\ wr = 1 => Is("grub.d", IF tjob.grub = "resolved" THEN {"ttyS1"} ELSE {"ttyS0"}, "rename")
        /\ wr = 2 => Is("grub.cfg", file["grub.d"] \cup file["grub.d mirror"], "tool")
    BY <1>6, <2>1, Writes14
  <2>4. targetSteps[2] \in complete /\ targetSteps[9] \in complete
    BY <1>6, SMT DEF StepInv
  <2>5. CASE WriteFile /\ wr = 1
    <3>1. file'["grub.d"] = Wanted(tjob, "getty links")
      BY <2>3, <2>5, WriteFileIs, WantedGrub DEF Is, Put
    <3>2. ~Now(2)'
      BY <1>6, <2>1, <2>5, WriteFileIs, SMT DEF Now
    <3> QED
      BY <2>1, <2>2, <3>1, <3>2 DEF Grub
  <2>6. CASE WriteFile /\ wr = 2
    <3>1. Put("grub.cfg", file["grub.d"] \cup file["grub.d mirror"])
      BY <2>3, <2>6, WriteFileIs DEF Is
    <3>2. file'["grub.cfg"] = file["grub.d"] \cup file["grub.d mirror"] /\ file'["grub.d"] = file["grub.d"]
      BY <1>1, <3>1 DEF Put
    <3>3. Now(1)
      BY <1>6, <2>6, SMT DEF Now
    <3>4. file["grub.d mirror"] = IF Mirrored(tjob) THEN {"no PARTUUID"} ELSE {}
      BY <2>4 DEF Raid, Imaged, Past
    <3>5. "grub.d" \notin tjob.machine => file["grub.d"] = Wanted(tjob, "getty links")
      BY <3>3 DEF Grub
    <3>6. "grub.d" \notin tjob.machine => file'["grub.cfg"] = Wanted(tjob, "grub.cfg")
      BY <3>2, <3>4, <3>5, WantedGrub
    <3> QED
      BY <2>1, <2>2, <3>2, <3>5, <3>6 DEF Grub
  <2>7. CASE WriteFails
    <3>1. wr' \in {1, wr}
      BY <2>1, <2>7, WriteFailsIs
    <3>2. wr \in {1, 2} /\ at' = 14 /\ at = 14
      BY <1>6, <2>1, <2>3
    <3>4. wr' \in {1, 2} /\ (wr' > 1 => wr > 1)
      BY <3>1, <3>2, SMT
    <3>5. ~Now(2)' /\ (Now(1)' => Now(1))
      BY <3>2, <3>4, SMT DEF Now
    <3>3. file'["grub.d"] = file["grub.d"]
      BY <1>1, <2>3, <2>7, WriteFailsIs DEF Is, Put
    <3> QED
      BY <2>1, <2>2, <3>5, <3>3 DEF Grub
  <2> QED
    BY <1>6, <2>3, <2>5, <2>6, <2>7
<1>7. CASE StreamImage
  <2>1. at' = 2
    BY <1>7, StreamIs
  <2>2. ~Now(1)' /\ ~Now(2)'
    BY <2>1, SMT DEF Now
  <2> QED
    BY <2>2 DEF Grub
<1> QED
  BY <1>4, <1>5, <1>6, <1>7 DEF TargetNext, Quiet

(* install-efi-fallback puts the marker in place before its grub.cfg.        *)
LEMMA LoaderStep ==
    ASSUME StepInv, Loader, [TargetNext]_tvars
    PROVE  Loader'
<1> DEFINE P == {"loader", "marker", "esp grub.cfg"}
           K == {2, 15}
<1>1. P \in SUBSET Paths
  BY DEF Paths
<1>2. K \in SUBSET (1 .. 21)
  BY SMT
<1>3. ASSUME QuietOn(P, K), at' = 15 /\ wr' > 1 => at = 15 /\ wr > 1 /\ runs' = runs
      PROVE  Loader'
  <2>1. tjob' = tjob /\ \A q \in P : file'[q] = file[q]
    BY <1>3 DEF QuietOn
  <2>2. /\ Past(2, 1)' => Past(2, 1)
        /\ tjob.disk = "ab" => (Past(15, 2)' => Past(15, 2))
    <3>1. \A k \in K : \A w \in 1 .. Count(k) : Past(k, w)' => Past(k, w)
      BY <1>3 DEF QuietOn
    <3> QED
      BY <3>1, Reach
  <2>3. runs' = runs => HandoffID' = HandoffID
    BY DEF HandoffID
  <2>4. at' = 15 /\ wr' > 1 => HandoffID' \in file'["marker"]
    BY <1>3, <2>1, <2>3 DEF Loader
  <2> QED
    BY <2>1, <2>2, <2>4 DEF Loader, Imaged
<1>4. CASE Quiet
  BY <1>1, <1>2, <1>3, <1>4, QuietAction, QuietSub
<1>5. CASE (WriteFile \/ WriteFails) /\ at # 15
  <2>1. at \in 1 .. 21 /\ at # 2 /\ wr <= Len(Ws) /\ at' = at
    BY <1>5, WriteFileIs, WriteFailsIs
  <2>2. at <= 21
    BY <2>1, SMT
  <2>3. at # 21
    BY <2>1, <2>2, PathsOfStep
  <2>4. at \in {1, 3, 4, 5, 6, 7, 8, 9, 10, 11, 12, 13, 14, 16, 17, 18, 19, 20}
    BY <1>5, <2>1, <2>3, SMT
  <2>5. Ws[wr].path \notin P
    BY <2>1, <2>2, <2>4, PathsOfStep
  <2>6. at \notin K
    BY <1>5, <2>1
  <2> QED
    BY <1>1, <1>2, <1>3, <1>5, <2>1, <2>5, <2>6, OtherStep
<1>6. CASE WriteFile /\ at = 15
  <2>1. wr \in Nat \ {0} /\ wr <= Len(Ws)
    BY <1>6, WriteFileIs DEF StepInv
  <2>2. wr' = wr + 1 /\ tjob' = tjob /\ at' = at /\ complete' = complete /\ runs' = runs
    BY <1>6, WriteFileIs
  <2>3. targetSteps[2] \in complete /\ targetSteps[15] \notin complete
    BY <1>6, LaterIsOpen, SMT DEF StepInv
  <2>4. /\ tjob.disk = "ab" /\ wr \in {1, 2, 3}
        /\ wr = 1 => Is("marker", file["marker"] \cup {HandoffID}, "rename")
        /\ wr = 2 => Is("loader", {"bundled"}, "rename")
        /\ wr = 3 => Is("esp grub.cfg", {HandoffID}, "rename")
    BY <1>6, <2>1, Writes15
  <2>5. HandoffID' = HandoffID
    BY <2>2 DEF HandoffID
  <2>6. CASE wr = 1
    <3>1. Put("marker", file["marker"] \cup {HandoffID})
      BY <1>6, <2>4, <2>6, WriteFileIs DEF Is
    <3>2. /\ file'["marker"] = file["marker"] \cup {HandoffID}
          /\ file'["esp grub.cfg"] = file["esp grub.cfg"]
      BY <1>1, <3>1 DEF Put
    <3>3. ~Past(15, 2)'
      BY <1>6, <2>2, <2>3, <2>6, SMT DEF Past
    <3> QED
      BY <2>2, <2>4, <2>5, <3>2, <3>3 DEF Loader
  <2>7. CASE wr = 2
    <3>1. Put("loader", {"bundled"})
      BY <1>6, <2>4, <2>7, WriteFileIs DEF Is
    <3>2. /\ file'["marker"] = file["marker"] /\ file'["loader"] = {"bundled"}
          /\ file'["esp grub.cfg"] = file["esp grub.cfg"]
      BY <1>1, <3>1 DEF Put
    <3>3. at = 15 /\ wr > 1
      BY <1>6, <2>7, SMT
    <3> QED
      BY <2>2, <2>4, <2>5, <3>2, <3>3 DEF Loader
  <2>8. CASE wr = 3
    <3>1. Put("esp grub.cfg", {HandoffID})
      BY <1>6, <2>4, <2>8, WriteFileIs DEF Is
    <3>2. /\ file'["marker"] = file["marker"] /\ file'["loader"] = file["loader"]
          /\ file'["esp grub.cfg"] = {HandoffID}
      BY <1>1, <3>1 DEF Put
    <3>3. at = 15 /\ wr > 1 /\ Past(15, 2)
      BY <1>6, <2>8, SMT DEF Past
    <3> QED
      BY <2>2, <2>4, <2>5, <3>2, <3>3 DEF Loader
  <2> QED
    BY <2>4, <2>6, <2>7, <2>8
<1>7. CASE WriteFails /\ at = 15
  <2>1. wr \in Nat \ {0} /\ wr <= Len(Ws) /\ at # 1 /\ ~(1 > 1)
    BY <1>7, WriteFailsIs, SMT DEF StepInv
  <2>2. Ws[wr].how = "rename"
    BY <1>7, <2>1, Writes15 DEF Is
  <2>3. at' = at /\ wr' \in {1, wr} /\ runs' = runs
    BY <1>7, <2>1, WriteFailsIs
  <2> QED
    BY <1>1, <1>2, <1>3, <1>7, <2>1, <2>2, <2>3, FailedWrite
<1>8. CASE StreamImage
  <2>1. ~Past(15, 2)' /\ at' # 15
    <3>1. 15 \in 3 .. 21 /\ 2 # 15
      BY SMT
    <3> QED
      BY <1>8, <3>1, StreamIs
  <2>2. tjob' = tjob /\ file' = Streamed(tjob, file["nvram"])
    BY <1>8, StreamIs
  <2>3. file'["loader"] = {"image"} /\ file'["esp grub.cfg"] = {}
    BY <1>1, <2>2 DEF Streamed
  <2> QED
    BY <2>1, <2>2, <2>3 DEF Loader
<1> QED
  BY <1>4, <1>5, <1>6, <1>7, <1>8 DEF TargetNext, Quiet

(* A firmware entry that is not made leaves the others.                      *)
LEMMA EntryFails ==
    ASSUME StepInv, WriteFails, NEW d, Is("nvram", file["nvram"] \cup {d}, "entry")
    PROVE  file["nvram"] \subseteq file'["nvram"] /\ file'["nvram"] \subseteq file["nvram"] \cup {d}
<1>1. PICK x \in FailedValues(Ws[wr]) : Put("nvram", x)
  BY WriteFailsIs DEF Is
<1>2. x \in Leaves(Ws[wr], file)
  BY <1>1 DEF FailedValues, Is
<1>3. x \in {file["nvram"], file["nvram"] \cup {d}}
  BY <1>2 DEF Leaves, Is
<1> QED
  BY <1>1, <1>3 DEF Put

(* No step removes a firmware entry that is not BOOTy's.                     *)
LEMMA FirmwareStep ==
    ASSUME StepInv, Firmware, [TargetNext]_tvars
    PROVE  Firmware'
<1> DEFINE P == {"nvram"}
           K == {1, 19, 20}
           n == file["nvram"]
<1>1. P \in SUBSET Paths /\ "nvram" \in Paths /\ {} \in SUBSET Paths
  BY DEF Paths
<1>2. K \in SUBSET (1 .. 21) /\ 1 \in K /\ 19 \in K /\ 20 \in K
  BY SMT
<1>3. ASSUME tjob' = tjob, n \subseteq n', n' \subseteq n \cup {"disk1", "disk2"},
             tjob.disk = "ab" => n' = n,
             tjob.uefi => (Past(1, 1)' => Past(1, 1)),
             tjob.uefi /\ tjob.vars /\ tjob.disk # "ab" => (Past(19, 1)' => Past(19, 1) \/ "disk1" \in n'),
             tjob.uefi /\ tjob.vars /\ Mirrored(tjob) => (Past(20, 2)' => Past(20, 2) \/ "disk2" \in n')
      PROVE  Firmware'
  <2>1. Mirrored(tjob)' = Mirrored(tjob)
    BY <1>3 DEF Mirrored
  <2>2. n \cap {"old disk1", "old disk2"} = {} => n' \cap {"old disk1", "old disk2"} = {}
    BY <1>3
  <2> HIDE DEF n
  <2> QED
    BY <1>3, <2>1, <2>2 DEF Firmware, n
<1>4. ASSUME QuietOn({}, K)
      PROVE  /\ tjob' = tjob
             /\ tjob.uefi => (Past(1, 1)' => Past(1, 1))
             /\ tjob.uefi /\ tjob.vars /\ tjob.disk # "ab" => (Past(19, 1)' => Past(19, 1))
             /\ tjob.uefi /\ tjob.vars /\ Mirrored(tjob) => (Past(20, 2)' => Past(20, 2))
  <2>1. \A k \in K : \A w \in 1 .. Count(k) : Past(k, w)' => Past(k, w)
    BY <1>4 DEF QuietOn
  <2> QED
    BY <1>2, <1>4, <2>1, Reach DEF QuietOn
<1>5. ASSUME QuietOn(P, K)
      PROVE  Firmware'
  <2>1. n' = n /\ QuietOn({}, K)
    BY <1>5 DEF QuietOn
  <2> QED
    BY <1>3, <1>4, <2>1
<1>6. CASE Quiet
  BY <1>1, <1>2, <1>5, <1>6, QuietAction, QuietSub
<1>7. CASE (WriteFile \/ WriteFails) /\ at \notin K
  <2>1. at \in 1 .. 21 /\ at # 2 /\ wr <= Len(Ws)
    BY <1>7, WriteFileIs, WriteFailsIs
  <2>2. at <= 21
    BY <2>1, SMT
  <2>3. at # 21
    BY <2>1, <2>2, PathsOfStep
  <2>4. at \in 3 .. 18
    BY <1>7, <2>1, <2>3, SMT
  <2>5. at \in {3, 4, 5, 6, 7, 8, 9, 10, 11, 12, 13, 14, 15, 16, 17, 18}
    BY <2>4, SMT
  <2>6. Ws[wr].path \notin P
    BY <2>1, <2>2, <2>5, PathsOfStep
  <2> QED
    BY <1>1, <1>2, <1>5, <1>7, <2>6, OtherStep
<1>8. CASE (WriteFile \/ WriteFails) /\ at = 1
  <2>1. wr \in Nat \ {0} /\ wr <= Len(Ws) /\ at' = at /\ tjob' = tjob /\ complete' = complete
    BY <1>8, WriteFileIs, WriteFailsIs DEF StepInv
  <2>2. tjob.uefi /\ wr = 1 /\ Is("nvram", n \cap {Unmanaged}, "entries")
    BY <1>8, <2>1, Writes1
  <2>3. targetSteps[1] \notin complete /\ targetSteps[19] \notin complete /\ targetSteps[20] \notin complete
    BY <1>8, LaterIsOpen, SMT
  <2>4. ~Past(19, 1)' /\ ~Past(20, 2)'
    <3>1. at # 19 /\ at # 20
      BY <1>8, SMT
    <3> QED
      BY <2>1, <2>3, <3>1 DEF Past
  <2>5. Unmanaged \in n
    BY <2>2 DEF Firmware
  <2>6. CASE WriteFile
    <3>1. n' = n \cap {Unmanaged}
      BY <2>2, <2>6, WriteFileIs DEF Is, Put
    <3>2. /\ Unmanaged \in n' /\ n' \cap {"old disk1", "old disk2"} = {}
          /\ n' \cap {"disk1", "disk2"} = {}
      BY <2>5, <3>1 DEF Unmanaged
    <3> QED
      BY <2>4, <3>2 DEF Firmware
  <2>7. CASE WriteFails
    <3>1. PICK x \in FailedValues(Ws[wr]) : Put("nvram", x)
      BY <2>2, <2>7, WriteFailsIs DEF Is
    <3>2. n \cap {Unmanaged} \subseteq x
      BY <2>2, <3>1 DEF FailedValues, Is
    <3>3. Unmanaged \in n' /\ n' \subseteq n
      <4>1. x \in SUBSET n
        BY <2>2, <3>1 DEF FailedValues, Is
      <4> QED
        BY <2>5, <3>1, <3>2, <4>1 DEF Put
    <3>7. tjob.disk = "ab" => n' \cap {"disk1", "disk2"} = {}
      BY <2>2, <3>3 DEF Firmware
    <3>4. tjob.must => wr' = 1
      BY <2>2, <2>7, WriteFailsIs
    <3>5. tjob.must => ~(wr' > 1)
      BY <3>4, SMT
    <3>6. tjob.must => ~Past(1, 1)'
      BY <2>1, <2>3, <3>5 DEF Past
    <3> QED
      BY <2>1, <2>4, <3>3, <3>6, <3>7 DEF Firmware
  <2> QED
    BY <1>8, <2>6, <2>7
<1>9. CASE (WriteFile \/ WriteFails) /\ at = 19
  <2>1. wr \in Nat \ {0} /\ wr <= Len(Ws) /\ at' = at /\ tjob' = tjob /\ complete' = complete /\ at # 1 /\ at # 20
    BY <1>9, WriteFileIs, WriteFailsIs, SMT DEF StepInv
  <2>2. /\ tjob.uefi /\ tjob.vars /\ tjob.disk # "ab" /\ wr = 1
        /\ Is("nvram", n \cup {"disk1"}, "entry")
    BY <1>9, <2>1, Writes19
  <2>3. CASE WriteFile
    <3>1. n' = n \cup {"disk1"}
      BY <2>2, <2>3, WriteFileIs DEF Is, Put
    <3>2. (Past(1, 1)' => Past(1, 1)) /\ (Past(20, 2)' => Past(20, 2))
      BY <2>1 DEF Past
    <3> QED
      BY <1>3, <2>1, <2>2, <3>1, <3>2
  <2>4. CASE WriteFails
    <3>1. n \subseteq n' /\ n' \subseteq n \cup {"disk1", "disk2"}
      BY <2>2, <2>4, EntryFails
    <3>2. QuietOn({}, K)
      BY <1>1, <1>2, <2>1, <2>4, FailedWrite
    <3> QED
      BY <1>3, <1>4, <2>2, <3>1, <3>2
  <2> QED
    BY <1>9, <2>3, <2>4
<1>10. CASE (WriteFile \/ WriteFails) /\ at = 20
  <2>1. wr \in Nat \ {0} /\ wr <= Len(Ws) /\ at' = at /\ tjob' = tjob /\ complete' = complete /\ at # 1 /\ at # 19
    BY <1>10, WriteFileIs, WriteFailsIs, SMT DEF StepInv
  <2>2. CASE ~tjob.uefi
    BY <2>1, <2>2 DEF Firmware
  <2>3. CASE tjob.uefi /\ wr = 1 /\ Is("esp2", Esp(file), "inplace")
    <3>1. n' = n
      BY <1>1, <1>10, <2>3, WriteFileIs, WriteFailsIs DEF Is, Put
    <3>2. (Past(1, 1)' => Past(1, 1)) /\ (Past(19, 1)' => Past(19, 1))
      BY <2>1 DEF Past
    <3>3. wr' = wr + 1 \/ wr' \in {1, wr}
      BY <1>10, <2>1, WriteFileIs, WriteFailsIs
    <3>4. ~(wr' > 2)
      BY <2>3, <3>3, SMT
    <3>5. Past(20, 2)' => Past(20, 2)
      BY <2>1, <3>4 DEF Past
    <3> QED
      BY <1>3, <2>1, <3>1, <3>2, <3>5
  <2>4. CASE tjob.uefi /\ Is("nvram", n \cup {"disk2"}, "entry")
    <3>0. tjob.disk # "ab"
      BY <1>10, <2>1, Writes20 DEF Mirrored
    <3>1. CASE WriteFile
      <4>1. n' = n \cup {"disk2"}
        BY <2>4, <3>1, WriteFileIs DEF Is, Put
      <4>2. (Past(1, 1)' => Past(1, 1)) /\ (Past(19, 1)' => Past(19, 1))
        BY <2>1 DEF Past
      <4> QED
        BY <1>3, <2>1, <3>0, <4>1, <4>2
    <3>2. CASE WriteFails
      <4>1. n \subseteq n' /\ n' \subseteq n \cup {"disk1", "disk2"}
        BY <2>4, <3>2, EntryFails
      <4>2. QuietOn({}, K)
        BY <1>1, <1>2, <2>1, <3>2, FailedWrite
      <4> QED
        BY <1>3, <1>4, <3>0, <4>1, <4>2
    <3> QED
      BY <1>10, <3>1, <3>2
  <2> QED
    BY <1>10, <2>1, <2>2, <2>3, <2>4, Writes20
<1>11. CASE StreamImage
  <2>1. /\ at = 2 /\ at' = 2 /\ complete' = complete /\ tjob' = tjob /\ file' = Streamed(tjob, n)
        /\ \A k \in 3 .. 21 : \A w : ~Past(k, w)'
    BY <1>11, StreamIs
  <2>2. n' = n
    BY <1>1, <2>1 DEF Streamed
  <2>3. 19 \in 3 .. 21 /\ 20 \in 3 .. 21 /\ 1 # 2
    BY SMT
  <2>4. Past(1, 1)' => Past(1, 1)
    BY <2>1, <2>3 DEF Past
  <2> QED
    BY <1>3, <2>1, <2>2, <2>3, <2>4
<1> QED
  BY <1>6, <1>7, <1>8, <1>9, <1>10, <1>11 DEF TargetNext, Quiet

(* Nothing is written to the first ESP after it is copied to the second.     *)
LEMMA SecondStep ==
    ASSUME StepInv, Second, [TargetNext]_tvars
    PROVE  Second'
<1> DEFINE P == {"esp2", "mbr", "loader", "esp grub.cfg"}
           K == {20}
<1>1. P \in SUBSET Paths /\ P = {"esp2", "mbr", "loader", "esp grub.cfg"}
  BY DEF Paths
<1>2. K \in SUBSET (1 .. 21) /\ 20 \in K /\ 20 \in 3 .. 21
  BY SMT
<1>3. ASSUME QuietOn(P, K)
      PROVE  Second'
  <2>1. tjob' = tjob /\ \A q \in P : file'[q] = file[q]
    BY <1>3 DEF QuietOn
  <2>2. /\ Mirrored(tjob) /\ tjob.uefi => (Past(20, 1)' => Past(20, 1))
        /\ Mirrored(tjob) /\ ~tjob.uefi => (Past(20, 2)' => Past(20, 2))
    <3>1. \A k \in K : \A w \in 1 .. Count(k) : Past(k, w)' => Past(k, w)
      BY <1>3 DEF QuietOn
    <3> QED
      BY <1>2, <3>1, Reach
  <2>3. Mirrored(tjob)' = Mirrored(tjob) /\ Esp(file)' = Esp(file)
    BY <2>1 DEF Mirrored, Esp
  <2> QED
    BY <2>1, <2>2, <2>3 DEF Second
<1>4. CASE Quiet
  BY <1>1, <1>2, <1>3, <1>4, QuietAction, QuietSub
<1>5. CASE (WriteFile \/ WriteFails) /\ at \notin {15, 20}
  <2>1. at \in 1 .. 21 /\ at # 2 /\ wr <= Len(Ws)
    BY <1>5, WriteFileIs, WriteFailsIs
  <2>2. at <= 21
    BY <2>1, SMT
  <2>3. at # 21
    BY <2>1, <2>2, PathsOfStep
  <2>4. at \in {1, 3, 4, 5, 6, 7, 8, 9, 10, 11, 12, 13, 14, 16, 17, 18, 19}
    BY <1>5, <2>1, <2>3, SMT
  <2>5. Ws[wr].path \notin P
    BY <2>1, <2>2, <2>4, PathsOfStep
  <2>6. at \notin K
    BY <1>5
  <2> QED
    BY <1>1, <1>2, <1>3, <1>5, <2>5, <2>6, OtherStep
<1>6. CASE (WriteFile \/ WriteFails) /\ at = 15
  <2>1. at' = at /\ complete' = complete
    BY <1>6, WriteFileIs, WriteFailsIs
  <2>2. targetSteps[20] \notin complete /\ at # 20
    BY <1>6, LaterIsOpen, SMT
  <2>3. ~Past(20, 1)' /\ ~Past(20, 2)'
    BY <2>1, <2>2 DEF Past
  <2> QED
    BY <2>3 DEF Second
<1>7. CASE (WriteFile \/ WriteFails) /\ at = 20
  <2>1. wr \in Nat \ {0} /\ wr <= Len(Ws) /\ at' = at /\ tjob' = tjob /\ complete' = complete /\ at # 1
    BY <1>7, WriteFileIs, WriteFailsIs, SMT DEF StepInv
  <2>2. targetSteps[20] \notin complete
    BY <1>7, LaterIsOpen, SMT
  <2>3. WriteFails => wr' \in {1, wr}
    BY <2>1, WriteFailsIs
  <2>4. CASE tjob.uefi /\ wr = 1 /\ Is("esp2", Esp(file), "inplace")
    <3>1. CASE WriteFile
      <4>1. Put("esp2", Esp(file))
        BY <2>4, <3>1, WriteFileIs DEF Is
      <4>2. /\ file'["esp2"] = Esp(file) /\ file'["loader"] = file["loader"]
            /\ file'["esp grub.cfg"] = file["esp grub.cfg"]
        BY <1>1, <4>1 DEF Put
      <4>3. file'["esp2"] = Esp(file)'
        BY <4>2 DEF Esp
      <4> QED
        BY <2>1, <2>4, <4>3 DEF Second
    <3>2. CASE WriteFails
      <4>1. ~(wr' > 1)
        BY <2>3, <2>4, <3>2, SMT
      <4>2. ~Past(20, 1)'
        BY <2>1, <2>2, <4>1 DEF Past
      <4> QED
        BY <2>1, <2>4, <4>2 DEF Second
    <3> QED
      BY <1>7, <3>1, <3>2
  <2>5. CASE tjob.uefi /\ wr = 2 /\ Ws[wr].path = "nvram"
    <3>1. \A q \in P : file'[q] = file[q]
      BY <1>1, <1>7, <2>5, WriteFileIs, WriteFailsIs DEF Put
    <3>2. Esp(file)' = Esp(file) /\ file'["esp2"] = file["esp2"] /\ Mirrored(tjob)' = Mirrored(tjob)
      BY <2>1, <3>1 DEF Esp, Mirrored
    <3>3. wr > 1
      BY <2>5, SMT
    <3>4. Past(20, 1)
      BY <1>7, <3>3 DEF Past
    <3> QED
      BY <2>1, <2>5, <3>2, <3>4 DEF Second
  <2>6. CASE ~tjob.uefi /\ (wr = 1 \/ (wr = 2 /\ ~WriteFile))
    <3>1. wr' = wr + 1 \/ WriteFails
      BY <1>7, WriteFileIs
    <3>2. WriteFile /\ wr = 1 => wr' = wr + 1
      BY WriteFileIs
    <3>3. ~(wr' > 2)
      BY <1>7, <2>3, <2>6, <3>2, SMT
    <3>4. ~Past(20, 2)'
      BY <2>1, <2>2, <3>3 DEF Past
    <3> QED
      BY <2>1, <2>6, <3>4 DEF Second
  <2>7. CASE ~tjob.uefi /\ WriteFile /\ wr = 2 /\ Is("mbr", {"disk1", "disk2"}, "tool")
    <3>1. file'["mbr"] = {"disk1", "disk2"}
      BY <2>7, WriteFileIs DEF Is, Put
    <3> QED
      BY <2>1, <2>7, <3>1 DEF Second
  <2>8. CASE ~tjob.uefi /\ wr = 3 /\ Ws[wr].path = "esp2"
    <3>1. file'["mbr"] = file["mbr"] /\ Mirrored(tjob)' = Mirrored(tjob)
      BY <1>1, <1>7, <2>1, <2>8, WriteFileIs, WriteFailsIs DEF Put, Mirrored
    <3>2. wr > 2
      BY <2>8, SMT
    <3>3. Past(20, 2)
      BY <1>7, <3>2 DEF Past
    <3> QED
      BY <2>1, <2>8, <3>1, <3>3 DEF Second
  <2>9. /\ tjob.uefi => \/ wr = 1 /\ Is("esp2", Esp(file), "inplace")
                        \/ wr = 2 /\ Is("nvram", file["nvram"] \cup {"disk2"}, "entry")
        /\ ~tjob.uefi => \/ wr = 1
                         \/ wr = 2 /\ Is("mbr", {"disk1", "disk2"}, "tool")
                         \/ wr = 3 /\ Is("esp2", Esp(file), "inplace")
    BY <1>7, <2>1, Writes20
  <2> QED
    BY <2>4, <2>5, <2>6, <2>7, <2>8, <2>9 DEF Is
<1>8. CASE StreamImage
  BY <1>2, <1>8, StreamIs DEF Second
<1> QED
  BY <1>4, <1>5, <1>6, <1>7, <1>8 DEF TargetNext, Quiet

-----------------------------------------------------------------------------
(* The invariant holds: before the first write, and over every action.       *)
LEMMA TInvStart == TargetInit => TInv
<1>1. SUFFICES ASSUME TargetInit PROVE TInv
  OBVIOUS
<1>2. /\ complete = {} /\ at = 1 /\ wr = 1
      /\ file = [p \in Paths |-> IF p = "nvram" /\ tjob.uefi THEN {Unmanaged, "old disk1", "old disk2"} ELSE {}]
  BY <1>1 DEF TargetInit
<1>3. /\ ~Past(1, 1) /\ ~Past(2, 1) /\ ~Past(3, 2) /\ ~Past(4, 1) /\ ~Past(5, 1) /\ ~Past(6, 2) /\ ~Past(6, 5)
      /\ ~Past(7, 1) /\ ~Past(7, 2) /\ ~Past(7, 3) /\ ~Past(8, 1) /\ ~Past(8, 2) /\ ~Past(9, 1) /\ ~Past(9, 2) /\ ~Past(9, 3)
      /\ ~Past(9, 4) /\ ~Past(9, 5) /\ ~Past(10, 1) /\ ~Past(10, 2) /\ ~Past(10, 4) /\ ~Past(11, 1)
      /\ ~Past(12, 1) /\ ~Past(12, 2) /\ ~Past(12, 3) /\ ~Past(12, 4) /\ ~Past(12, 6) /\ ~Past(13, 4)
      /\ ~Past(15, 2) /\ ~Past(16, 2) /\ ~Past(16, 3) /\ ~Past(17, Count(17)) /\ ~Past(18, 2) /\ ~Past(18, 3)
      /\ ~Past(19, 1) /\ ~Past(20, 1) /\ ~Past(20, 2) /\ ~Now(1) /\ ~Now(2) /\ at # 15
  <2>0. at = 1 /\ wr = 1
    BY <1>2
  <2>1. ASSUME NEW k, NEW w, at # k \/ ~(wr > w) PROVE ~Past(k, w)
    BY <1>2, <2>1 DEF Past
  <2>2. /\ ~(wr > 1) /\ ~(at > 14)
        /\ \A k \in 2 .. 21 : at # k
    BY <2>0, SMT
  <2>3. /\ 2 \in 2 .. 21 /\ 3 \in 2 .. 21 /\ 4 \in 2 .. 21 /\ 5 \in 2 .. 21 /\ 6 \in 2 .. 21 /\ 7 \in 2 .. 21
        /\ 8 \in 2 .. 21 /\ 9 \in 2 .. 21 /\ 10 \in 2 .. 21 /\ 11 \in 2 .. 21 /\ 12 \in 2 .. 21
        /\ 13 \in 2 .. 21 /\ 14 \in 2 .. 21 /\ 15 \in 2 .. 21 /\ 16 \in 2 .. 21 /\ 17 \in 2 .. 21
        /\ 18 \in 2 .. 21 /\ 19 \in 2 .. 21 /\ 20 \in 2 .. 21
    BY SMT
  <2> QED
    BY <2>1, <2>2, <2>3 DEF Now
<1>4. /\ file["sysext catalog"] = {} /\ file["import list"] = {} /\ file["archive"] = {}
      /\ file["prepull link"] = {} /\ file["esp-sync link"] = {} /\ file["esp grub.cfg"] = {}
      /\ tjob.uefi => Unmanaged \in file["nvram"] /\ file["nvram"] \cap {"disk1", "disk2"} = {}
  BY <1>2 DEF Paths, Unmanaged
<1>5. Dirs /\ Names /\ Layers /\ Tab /\ Raid
  BY <1>3, <1>4 DEF Dirs, Names, Layers, Tab, Raid, Imaged
<1>6. Sync /\ Kubelet /\ Pulls /\ Console
  BY <1>3, <1>4 DEF Sync, Kubelet, Pulls, Console, Imaged
<1>7. Grub /\ Loader /\ Seed /\ Commands /\ Firmware /\ Second
  BY <1>3, <1>4 DEF Grub, Loader, Seed, Commands, Firmware, Second, Imaged
<1> QED
  BY <1>1, <1>5, <1>6, <1>7, StepInvStart DEF TInv, FileInv

(* Every action keeps the invariant.                                         *)
LEMMA TInvNext ==
    ASSUME TInv, [TargetNext]_tvars
    PROVE  TInv'
<1>1. StepInv /\ FileInv
  BY DEF TInv
<1>2. StepInv'
  BY <1>1, StepInvNext
<1>3. Dirs' /\ Names' /\ Layers' /\ Tab' /\ Raid'
  BY <1>1, DirsStep, NamesStep, LayersStep, TabStep, RaidStep DEF FileInv
<1>4. Sync' /\ Kubelet' /\ Pulls' /\ Console'
  BY <1>1, SyncStep, KubeletStep, PullsStep, ConsoleStep DEF FileInv
<1>5. Grub' /\ Loader' /\ Seed' /\ Commands' /\ Firmware' /\ Second'
  BY <1>1, GrubStep, LoaderStep, SeedStep, CommandsStep, FirmwareStep, SecondStep DEF FileInv
<1> QED
  BY <1>2, <1>3, <1>4, <1>5 DEF TInv, FileInv

-----------------------------------------------------------------------------
(* When the run reports success every write is made.                         *)
LEMMA DoneIsPast ==
    ASSUME StepInv, tphase = "done"
    PROVE  (\A k \in 1 .. 21 : \A w : Past(k, w)) /\ Now(1) /\ Now(2)
<1>1. at = 22 /\ at > 14 /\ \A k \in 1 .. 21 : k \in 1 .. at - 1
  BY SMT DEF StepInv
<1>2. \A k \in 1 .. 21 : targetSteps[k] \in complete
  BY <1>1 DEF StepInv
<1> QED
  BY <1>1, <1>2 DEF Past, Now

(* The values that a configuration can have.                                 *)
LEMMA Configuration ==
    ASSUME StepInv
    PROVE  /\ tjob.disk \in {"whole", "layout", "mirror", "mirror-boot", "ab"}
           /\ tjob.grub \in {"resolved", "append"}
BY TargetFilesAssumption, SMT DEF StepInv

(* The invariant gives each file of the finished target.                     *)
LEMMA AsConfigured ==
    ASSUME TInv
    PROVE  TargetIsAsConfigured
<1>1. SUFFICES ASSUME tphase = "done"
               PROVE  /\ \A p \in ConfigSteps :
                            \/ p = "kubelet" /\ "kubelet" \in cut
                            \/ p = "grub.cfg" /\ "grub.d" \in tjob.machine
                            \/ file[p] = Wanted(tjob, p)
                      /\ tjob.uefi /\ tjob.disk = "ab" => file["nvram"] \cap {"disk1", "disk2"} = {}
                      /\ tjob.uefi /\ tjob.vars /\ tjob.disk # "ab" =>
                            {"disk1"} \cup (IF Mirrored(tjob) THEN {"disk2"} ELSE {}) \subseteq file["nvram"]
                      /\ ~tjob.uefi /\ Mirrored(tjob) => file["mbr"] = {"disk1", "disk2"}
                      /\ tjob.uefi /\ tjob.must => file["nvram"] \cap {"old disk1", "old disk2"} = {}
                      /\ tjob.uefi => Unmanaged \in file["nvram"]
  BY DEF TargetIsAsConfigured
<1>2. StepInv /\ FileInv
  BY DEF TInv
<1>3. \A k \in 1 .. 21 : \A w : Past(k, w)
  BY <1>1, <1>2, DoneIsPast
<1>4. Now(1) /\ Now(2)
  BY <1>1, <1>2, DoneIsPast
<1>5. /\ 1 \in 1 .. 21 /\ 2 \in 1 .. 21 /\ 3 \in 1 .. 21 /\ 4 \in 1 .. 21 /\ 5 \in 1 .. 21 /\ 6 \in 1 .. 21
      /\ 7 \in 1 .. 21 /\ 8 \in 1 .. 21 /\ 9 \in 1 .. 21 /\ 10 \in 1 .. 21 /\ 11 \in 1 .. 21 /\ 12 \in 1 .. 21
      /\ 13 \in 1 .. 21 /\ 15 \in 1 .. 21 /\ 16 \in 1 .. 21 /\ 17 \in 1 .. 21
      /\ 18 \in 1 .. 21 /\ 19 \in 1 .. 21 /\ 20 \in 1 .. 21
  BY SMT
<1>6. Imaged
  BY <1>3, <1>5 DEF Imaged
<1>7. /\ tjob.disk \in {"whole", "layout", "mirror", "mirror-boot", "ab"}
      /\ tjob.grub \in {"resolved", "append"}
  BY <1>2, Configuration
<1>10. file["overlayroot"] = Wanted(tjob, "overlayroot")
  BY <1>2, <1>3, <1>5 DEF FileInv, Dirs, Wanted
<1>11. /\ file["hostname"] = Wanted(tjob, "hostname") /\ file["provisioner"] = Wanted(tjob, "provisioner")
       /\ file["resolv.conf"] = Wanted(tjob, "resolv.conf") /\ file["network"] = Wanted(tjob, "network")
  <2>1. /\ file["hostname"] = {"config"} /\ file["provisioner"] = {"config"}
        /\ file["resolv.conf"] = {"config"} /\ file["network"] = {"link", "vlan"}
    BY <1>2, <1>3, <1>5 DEF FileInv, Names
  <2>2. Wanted(tjob, "hostname") = {"config"}
    BY DEF Wanted
  <2>3. Wanted(tjob, "provisioner") = {"config"}
    BY DEF Wanted
  <2>4. Wanted(tjob, "resolv.conf") = {"config"}
    BY DEF Wanted
  <2>5. Wanted(tjob, "network") = {"link", "vlan"}
    BY DEF Wanted
  <2> QED
    BY <2>1, <2>2, <2>3, <2>4, <2>5
<1>12. /\ file["sysext1"] = Wanted(tjob, "sysext1") /\ file["sysext2"] = Wanted(tjob, "sysext2")
       /\ file["sysext catalog"] = Wanted(tjob, "sysext catalog")
  <2>1. /\ file["sysext1"] = {"layer"} /\ file["sysext2"] = {"layer"}
        /\ file["sysext catalog"] \ {"layer"} = {"image layer"} /\ "layer" \in file["sysext catalog"]
    BY <1>2, <1>3, <1>5, <1>6 DEF FileInv, Layers
  <2>2. file["sysext catalog"] = {"image layer", "layer"}
    BY <2>1
  <2>3. Wanted(tjob, "sysext1") = {"layer"}
    BY DEF Wanted
  <2>4. Wanted(tjob, "sysext2") = {"layer"}
    BY DEF Wanted
  <2>5. Wanted(tjob, "sysext catalog") = {"image layer", "layer"}
    BY DEF Wanted
  <2> QED
    BY <2>1, <2>2, <2>3, <2>4, <2>5
<1>13. file["fstab"] = Wanted(tjob, "fstab")
  <2>1. CASE HasLayout(tjob) \/ Mirrored(tjob)
    BY <1>2, <1>3, <1>5, <2>1 DEF FileInv, Tab
  <2>2. CASE tjob.disk = "whole"
    <3>1. file["fstab"] = ImageTab(tjob)
      BY <1>2, <1>6, <2>2 DEF FileInv, Tab
    <3>2. ImageTab(tjob) = {"/ part", "/boot/efi part", "/data fs"}
      BY <2>2 DEF ImageTab
    <3>3. Wanted(tjob, "fstab") = {"/ part", "/boot/efi part", "/data fs"}
      BY <2>2 DEF Wanted, HasLayout
    <3> QED
      BY <3>1, <3>2, <3>3
  <2> QED
    BY <1>7, <2>1, <2>2 DEF Mirrored, HasLayout
<1>14. file["initramfs"] = Wanted(tjob, "initramfs")
  <2>1. file["initramfs"] = IF Mirrored(tjob) THEN Arrays(tjob) \cup {"rd.md.uuid"} ELSE {"image"}
    BY <1>2, <1>3, <1>5, <1>6 DEF FileInv, Raid
  <2>2. Wanted(tjob, "initramfs") = IF Mirrored(tjob) THEN Arrays(tjob) \cup {"rd.md.uuid"} ELSE {"image"}
    BY DEF Wanted
  <2> QED
    BY <2>1, <2>2
<1>15. file["esp-sync link"] = Wanted(tjob, "esp-sync link")
  <2>1. file["esp-sync link"] = IF Mirrored(tjob) THEN {"unit"} ELSE {}
    BY <1>2, <1>3, <1>5, <1>6 DEF FileInv, Sync
  <2>2. Wanted(tjob, "esp-sync link") = IF Mirrored(tjob) THEN {"unit"} ELSE {}
    BY DEF Wanted
  <2> QED
    BY <2>1, <2>2
<1>16. "kubelet" \in cut \/ file["kubelet"] = Wanted(tjob, "kubelet")
  <2>1. "kubelet" \in cut \/ file["kubelet"] =
            IF "kubelet" \in tjob.machine THEN {"machine"} ELSE {"--v", "--provider-id=config"}
    BY <1>2, <1>3, <1>5 DEF FileInv, Kubelet
  <2>2. Wanted(tjob, "kubelet") =
            IF "kubelet" \in tjob.machine THEN {"machine"} ELSE {"--v", "--provider-id=config"}
    BY DEF Wanted
  <2> QED
    BY <2>1, <2>2
<1>17. file["archive"] = Wanted(tjob, "archive") /\ file["prepull link"] = Wanted(tjob, "prepull link")
  <2>1. file["archive"] = {"image1", "image2"} /\ file["prepull link"] = {"unit"}
    BY <1>2, <1>3, <1>5 DEF FileInv, Pulls
  <2>2. Wanted(tjob, "archive") = {"image1", "image2"}
    BY DEF Wanted
  <2>3. Wanted(tjob, "prepull link") = {"unit"}
    BY DEF Wanted
  <2> QED
    BY <2>1, <2>2, <2>3
<1>18. file["getty links"] = Wanted(tjob, "getty links")
  BY <1>2, <1>3, <1>5, <1>6, WantedGrub DEF FileInv, Console
<1>19. "grub.d" \in tjob.machine \/ file["grub.cfg"] = Wanted(tjob, "grub.cfg")
  BY <1>2, <1>4 DEF FileInv, Grub
<1>20. file["loader"] = Wanted(tjob, "loader")
  <2>1. file["loader"] = IF tjob.disk = "ab" THEN {"bundled"} ELSE {"image"}
    BY <1>2, <1>3, <1>5, <1>6 DEF FileInv, Loader
  <2>2. Wanted(tjob, "loader") = IF tjob.disk = "ab" THEN {"bundled"} ELSE {"image"}
    BY DEF Wanted
  <2> QED
    BY <2>1, <2>2
<1>21. /\ file["network-config"] = Wanted(tjob, "network-config") /\ file["user-data"] = Wanted(tjob, "user-data")
       /\ file["script"] = Wanted(tjob, "script") /\ file["commands"] = Wanted(tjob, "commands")
  <2>1. file["network-config"] = {"config"} /\ file["user-data"] = {"config"}
    BY <1>2, <1>3, <1>5 DEF FileInv, Seed
  <2>2. file["script"] = {} /\ file["commands"] = {"ran"}
    BY <1>2, <1>3, <1>5 DEF FileInv, Commands
  <2>3. Wanted(tjob, "network-config") = {"config"}
    BY DEF Wanted
  <2>4. Wanted(tjob, "user-data") = {"config"}
    BY DEF Wanted
  <2>5. Wanted(tjob, "script") = {}
    BY DEF Wanted
  <2>6. Wanted(tjob, "commands") = {"ran"}
    BY DEF Wanted
  <2> QED
    BY <2>1, <2>2, <2>3, <2>4, <2>5, <2>6
<1>25. file["ab-slot.env"] = Wanted(tjob, "ab-slot.env")
  <2>1. file["ab-slot.env"] = IF tjob.disk = "ab" THEN {"slot"} ELSE {}
    BY <1>2, <1>3, <1>5, <1>6 DEF FileInv, Tab
  <2>2. Wanted(tjob, "ab-slot.env") = IF tjob.disk = "ab" THEN {"slot"} ELSE {}
    BY DEF Wanted
  <2> QED
    BY <2>1, <2>2
<1>22. \A p \in ConfigSteps :
            \/ p = "kubelet" /\ "kubelet" \in cut
            \/ p = "grub.cfg" /\ "grub.d" \in tjob.machine
            \/ file[p] = Wanted(tjob, p)
  BY <1>10, <1>11, <1>12, <1>13, <1>14, <1>15, <1>16, <1>17, <1>18, <1>19, <1>20, <1>21, <1>25 DEF ConfigSteps
<1>23. /\ tjob.uefi /\ tjob.disk = "ab" => file["nvram"] \cap {"disk1", "disk2"} = {}
       /\ tjob.uefi /\ tjob.vars /\ tjob.disk # "ab" =>
            {"disk1"} \cup (IF Mirrored(tjob) THEN {"disk2"} ELSE {}) \subseteq file["nvram"]
       /\ tjob.uefi /\ tjob.must => file["nvram"] \cap {"old disk1", "old disk2"} = {}
       /\ tjob.uefi => Unmanaged \in file["nvram"]
  BY <1>2, <1>3, <1>5 DEF FileInv, Firmware
<1>24. ~tjob.uefi /\ Mirrored(tjob) => file["mbr"] = {"disk1", "disk2"}
  BY <1>2, <1>3, <1>5 DEF FileInv, Second
<1> QED
  BY <1>22, <1>23, <1>24

(* Over failed writes, retries, interruptions and resumed attempts, a run    *)
(* that reports success leaves the files, arrays and firmware entries that   *)
(* the configuration asks for, and at no time does a file in place name one  *)
(* that is not (the write helpers and step order of pkg/provision).          *)
THEOREM TargetIsWholeAlways == TargetSpec => []TargetIsWhole
<1>1. TInv => TargetIsWhole
  <2>1. SUFFICES ASSUME TInv PROVE TargetIsWhole
    OBVIOUS
  <2>2. NothingDangles
    BY <2>1 DEF TInv, FileInv, Layers, Pulls, Sync, Loader, NothingDangles
  <2> QED
    BY <2>1, <2>2, AsConfigured DEF TargetIsWhole
<1>2. TInv /\ [TargetNext]_tvars => TInv'
  BY TInvNext
<1> QED
  BY <1>1, <1>2, TInvStart, PTL DEF TargetSpec

(* Only the last write of create-mirror-efi-boot-entry makes the entry for   *)
(* the second disk, and the copy is made before it.                          *)
LEMMA SecondEntry ==
    ASSUME TInv, TargetNext, "disk2" \in file'["nvram"] \ file["nvram"]
    PROVE  file["esp2"] = Esp(file)
<1>1. StepInv /\ Second /\ "nvram" \in Paths
  BY DEF TInv, FileInv, Paths
<1>2. (WriteFile \/ WriteFails) /\ Ws[wr].path = "nvram"
  <2>1. ~Quiet
    BY <1>1, QuietAction
  <2>2. ~StreamImage
    <3>1. Streamed(tjob, file["nvram"])["nvram"] = file["nvram"]
      BY <1>1 DEF Streamed
    <3> QED
      BY <1>1, <3>1, StreamIs
  <2>3. WriteFile \/ WriteFails
    BY <2>1, <2>2 DEF TargetNext, Quiet
  <2> QED
    BY <1>1, <2>3, WriteFileIs, WriteFailsIs DEF Put
<1>3. at \in 1 .. 21 /\ at # 2 /\ wr <= Len(Ws) /\ wr \in Nat \ {0}
  BY <1>1, <1>2, WriteFileIs, WriteFailsIs DEF StepInv
<1>4. at <= 21
  BY <1>3, SMT
<1>5. at \in {1, 19, 20}
  <2>1. at # 21
    BY <1>1, <1>3, <1>4, PathsOfStep
  <2>2. at \notin {3, 4, 5, 6, 7, 8, 9, 10, 11, 12, 13, 14, 15, 16, 17, 18}
    BY <1>1, <1>2, <1>3, <1>4, PathsOfStep
  <2> QED
    BY <1>3, <2>1, <2>2, SMT
<1>6. CASE at = 1
  <2>1. Is("nvram", file["nvram"] \cap {Unmanaged}, "entries")
    BY <1>3, <1>6, Writes1
  <2>2. file'["nvram"] \subseteq file["nvram"]
    <3>1. CASE WriteFile
      BY <1>1, <2>1, <3>1, WriteFileIs DEF Is, Put
    <3>2. CASE WriteFails
      <4>1. PICK x \in FailedValues(Ws[wr]) : Put("nvram", x)
        BY <1>1, <2>1, <3>2, WriteFailsIs DEF Is
      <4>2. x \subseteq file["nvram"]
        BY <2>1, <4>1 DEF FailedValues, Is
      <4> QED
        BY <4>1, <4>2 DEF Put
    <3> QED
      BY <1>2, <3>1, <3>2
  <2> QED
    BY <2>2
<1>7. CASE at = 19
  <2>1. Is("nvram", file["nvram"] \cup {"disk1"}, "entry")
    BY <1>3, <1>7, Writes19
  <2>2. file'["nvram"] \subseteq file["nvram"] \cup {"disk1"}
    <3>1. CASE WriteFile
      BY <1>1, <2>1, <3>1, WriteFileIs DEF Is, Put
    <3>2. CASE WriteFails
      BY <1>1, <2>1, <3>2, EntryFails
    <3> QED
      BY <1>2, <3>1, <3>2
  <2> QED
    BY <2>2
<1>8. CASE at = 20
  <2>1. Mirrored(tjob) /\ tjob.uefi /\ wr = 2
    BY <1>2, <1>3, <1>8, Writes20 DEF Is
  <2>2. wr > 1
    BY <2>1, SMT
  <2>3. Past(20, 1)
    BY <1>8, <2>2 DEF Past
  <2> QED
    BY <1>1, <2>1, <2>3 DEF Second
<1> QED
  BY <1>5, <1>6, <1>7, <1>8

(* createMirrorEFIBootEntry adds the firmware entry of the second disk only  *)
(* when the ESP of that disk is a complete copy of the first.                *)
THEOREM EntryAfterCopyAlways == TargetSpec => EntryAfterCopy
<1> DEFINE Step2 == ("disk2" \in file'["nvram"] \ file["nvram"]) => file["esp2"] = Esp(file)
<1>1. TInv /\ [TargetNext]_tvars => TInv'
  BY TInvNext
<1>2. TInv /\ [TargetNext]_tvars => [Step2]_tvars
  <2>1. SUFFICES ASSUME TInv, TargetNext, "disk2" \in file'["nvram"] \ file["nvram"]
                 PROVE  file["esp2"] = Esp(file)
    OBVIOUS
  <2> QED
    BY <2>1, SecondEntry
<1> QED
  BY <1>1, <1>2, TInvStart, PTL DEF TargetSpec, EntryAfterCopy
=============================================================================
