---------------------------- MODULE TargetFiles ----------------------------
(***************************************************************************)
(* What the configuration steps of a provisioning run write into the       *)
(* installed system: pkg/provision/configurator.go, sysext.go,             *)
(* oci_prepull.go, overlayfs.go, serialconsole.go, legacy_grub.go and the  *)
(* mirror steps of mirror.go, driven by the step loop of orchestrator.go.  *)
(*                                                                         *)
(* A step is a sequence of writes.  A run can stop at every write: the     *)
(* step fails, or the process ends.  A failed step of the retry table is   *)
(* tried again; a failed attempt is followed by one that streams the image *)
(* again or, with BOOTY_RESUME, by one that runs only the steps that are   *)
(* not complete and the resumeStateSteps.                                  *)
(*                                                                         *)
(* The content of a file is the set of the facts in it that matter here.   *)
(***************************************************************************)
EXTENDS Integers, Sequences

CONSTANTS
    TargetJobs,     \* the configurations that are explored
    MaxTargetFaults,    \* bound on the writes that fail
    MaxTargetRuns   \* bound on the attempts

(* disk: how the target is laid out; a mirror can have a /boot of its own.  *)
(* grub: GRUB_CMDLINE_MODE.  machine: the files of /deploy/machine-files.   *)
(* vars: whether EFI variables can be written.  must: EFI_BOOT_ENTRY_REQUIRED *)
ASSUME TargetFilesAssumption ==
    /\ TargetJobs \subseteq
        [disk : {"whole", "layout", "mirror", "mirror-boot", "ab"}, uefi : BOOLEAN,
         grub : {"resolved", "append"}, machine : SUBSET {"grub.d", "kubelet"},
         vars : BOOLEAN, must : BOOLEAN, resume : BOOLEAN]
    /\ MaxTargetFaults \in Nat /\ MaxTargetRuns \in Nat \ {0}

VARIABLES
    tjob,       \* the configuration
    file,       \* path |-> content; "nvram" and the second ESP are paths too
    at,         \* step of the attempt, Len(targetSteps) + 1 when it is done
    wr,         \* next write of the step
    complete,   \* the steps that the checkpoint lists
    retries,    \* retries left for the step
    cut,        \* history: files that a failed write in place has cut off
    runs, tfaults,
    tphase      \* "run", "failed" or "done"

tvars == <<tjob, file, at, wr, complete, retries, cut, runs, tfaults, tphase>>

(* A custom layout has a PartitionLayout, and so has A/B mode (ensureABPartitionLayout). *)
HasLayout(j) == j.disk \in {"layout", "ab"}
Mirrored(j) == j.disk \in {"mirror", "mirror-boot"}
Arrays(j) == IF j.disk = "mirror-boot" THEN {"md0", "md1"} ELSE {"md0"}

Unmanaged == "firmware entry"
Paths == {"nvram", "overlayroot", "hostname", "provisioner", "resolv.conf", "network",
          "sysext1", "sysext2", "sysext catalog", "fstab", "mdadm.conf", "dracut", "initramfs",
          "esp-sync", "esp-sync.service", "esp-sync link", "kubelet",
          "archive", "import list", "importer", "prepull.service", "prepull link",
          "console artifact", "getty drop-in", "getty links", "grub.d", "grub.d mirror", "grub.cfg",
          "marker", "loader", "esp grub.cfg", "meta-data", "network-config", "user-data",
          "script", "commands", "esp2", "mbr", "ab-slot.env"}

(* The files on the second ESP are those of the first. *)
Esp(f) == f["loader"] \cup f["esp grub.cfg"]

(* What stream-image leaves: the image.  The firmware keeps its entries.    *)
Streamed(j, nvram) ==
    [p \in Paths |->
        CASE p = "nvram" -> nvram
          [] p = "fstab" -> IF j.disk = "mirror-boot" THEN {"/ part", "/boot/efi part"}
                            ELSE {"/ part", "/boot/efi part", "/data fs"}
          [] p = "kubelet" -> {"--v", "--provider-id=image"}
          [] p = "network" -> {"old unit"}
          [] p = "getty links" -> {"ttyS0"}
          [] p = "sysext catalog" -> {"image layer"}
          [] p = "resolv.conf" -> {"stub link"}
          [] p \in {"loader", "grub.cfg", "initramfs"} -> {"image"}
          [] OTHER -> {}]

-----------------------------------------------------------------------------
(* A write: the path, the content after it, and how it is made.             *)
(* "rename": a new file is put in place whole.  "inplace": the file is      *)
(* truncated and written.  "tool": a command writes it.                     *)
(* "entry": a command makes one firmware entry, which is there or not.      *)

writeFileAtomic(p, v) == [path |-> p, value |-> v, how |-> "rename"]
copyRegularFile(p, v) == [path |-> p, value |-> v, how |-> "rename"]
makeEntry(p, v) == [path |-> p, value |-> v, how |-> "rename"]     \* a directory or a link
writeInPlace(p, v) == [path |-> p, value |-> v, how |-> "inplace"]
runTool(p, v) == [path |-> p, value |-> v, how |-> "tool"]

(* What a failed write may leave. *)
Torn == {"torn"}
Leaves(w, f) ==
    CASE w.how = "rename" -> {f[w.path]}
      [] w.how = "inplace" -> {f[w.path], Torn}
      [] w.how = "tool" -> {f[w.path], Torn, w.value}
      [] w.how = "entry" -> {f[w.path], w.value}

When(b, s) == IF b THEN s ELSE <<>>

ConfigureOverlayFS(f, j) == <<writeFileAtomic("overlayroot", {"config"}), makeEntry("overlayroot", {"config", "dirs"})>>
SetHostname(f, j) == <<writeInPlace("hostname", {"config"})>>
CopyProvisionerFiles(f, j) == <<writeInPlace("provisioner", {"config"})>>

(* ConfigureDNS replaces a link by a file. *)
ConfigureDNS(f, j) == <<makeEntry("resolv.conf", {}), writeInPlace("resolv.conf", {"config"})>>

(* Each unit is put in place, then the owned ones that are not kept go.     *)
persistNetworkConfig(f, j) ==
    <<writeFileAtomic("network", f["network"] \cup {"link"}),
      writeFileAtomic("network", f["network"] \cup {"link", "vlan"}),
      makeEntry("network", {"link", "vlan"})>>
configureDNS(f, j) == ConfigureDNS(f, j) \o persistNetworkConfig(f, j)

(* One layer is preloaded and listed in the catalog, one is active.         *)
ApplySysexts(f, j) ==
    <<copyRegularFile("sysext1", {"layer"}), copyRegularFile("sysext2", {"layer"}),
      writeFileAtomic("sysext catalog", f["sysext catalog"] \cup {"layer"})>>

(* writeFstab, then writeABSlotState: only a partition layout has an fstab of *)
(* its own, only A/B mode a slot file.                                        *)
writeFstabStep(f, j) ==
    When(HasLayout(j), <<writeInPlace("fstab", {"/ fs", "/boot/efi fs"})>>)
    \o When(j.disk = "ab", <<writeFileAtomic("ab-slot.env", {"slot"})>>)

(* An entry that names a partition of one disk is pointed at what works     *)
(* from both; a /boot array without an entry gets one.                      *)
rewriteMirrorFstab(entries, j) ==
    LET moved == [e \in {"/ part", "/boot part", "/boot/efi part"} |->
                    CASE e = "/ part" -> "/ array" [] e = "/boot part" -> "/boot array"
                      [] e = "/boot/efi part" -> "/boot/efi fs"]
        kept == {IF e \in DOMAIN moved THEN moved[e] ELSE e : e \in entries}
    IN  IF j.disk = "mirror-boot" /\ ~\E e \in kept : e \in {"/boot array", "/boot fs"}
        THEN kept \cup {"/boot array"} ELSE kept

(* The initramfs holds what the mdadm and dracut files say when it is built. *)
configureMdadmAt(f, j) ==
    When(Mirrored(j),
        <<writeFileAtomic("mdadm.conf", Arrays(j)), writeFileAtomic("dracut", {"rd.md.uuid"}),
          writeFileAtomic("fstab", rewriteMirrorFstab(f["fstab"], j)),
          writeFileAtomic("grub.d mirror", {"no PARTUUID"}),
          runTool("initramfs", f["mdadm.conf"] \cup f["dracut"])>>)

InstallESPSync(f, j) ==
    When(Mirrored(j),
        <<copyRegularFile("esp-sync", {"helper"}), writeFileAtomic("esp-sync.service", {"unit"}),
          makeEntry("esp-sync link", {}), makeEntry("esp-sync link", {"unit"})>>)

(* Mutant of mergeKubeletArgs: the arguments of the image are dropped. *)
mergeKubeletArgs_Replace(args) == {"--provider-id=config"}

mergeKubeletArgs(args) ==
    (args \ {"--provider-id=image", "--provider-id=config"}) \cup {"--provider-id=config"}
updateKubeletExtraArgs(f, j) == <<writeInPlace("kubelet", mergeKubeletArgs(f["kubelet"] \ Torn))>>

PrepareOCIPrePulls(f, j) ==
    <<copyRegularFile("archive", {"image1", "image2"}),
      writeFileAtomic("import list", {"image1", "image2"}),
      writeFileAtomic("importer", {"script"}), writeFileAtomic("prepull.service", {"unit"}),
      makeEntry("prepull link", {}), makeEntry("prepull link", {"unit"})>>

(* The getty units of the image go; only the resolved console stays.        *)
ConfigureSerialConsole(f, j) ==
    When(j.grub = "resolved",
        <<writeFileAtomic("console artifact", {"ttyS1"}), writeFileAtomic("getty drop-in", {"ttyS1"}),
          makeEntry("getty links", f["getty links"] \cup {"ttyS1"}),
          makeEntry("getty links", {"ttyS1"})>>)

(* update-grub reads the drop-ins. *)
ConfigureGRUB(f, j) ==
    <<writeFileAtomic("grub.d", IF j.grub = "resolved" THEN {"ttyS1"} ELSE {"ttyS0"}),
      runTool("grub.cfg", f["grub.d"] \cup f["grub.d mirror"])>>

(* Every call makes a marker with a new random name; the old ones stay.     *)
HandoffID == <<"id1", "id2", "id3", "id4">>[runs]

(* The firmware starts the loader, its grub.cfg finds the root by marker.   *)
installBundledEFIFallbackLoader(f, j) ==
    When(j.disk = "ab",
        <<writeFileAtomic("marker", f["marker"] \cup {HandoffID}),
          copyRegularFile("loader", {"bundled"}), writeFileAtomic("esp grub.cfg", {HandoffID})>>)

(* All files are written aside, then each is renamed. *)
writeSeedFiles(f, j) ==
    <<copyRegularFile("meta-data", {"config"}), copyRegularFile("network-config", {"config"}),
      copyRegularFile("user-data", {"config"})>>

CopyMachineFiles(f, j) ==
    When("grub.d" \in j.machine, <<writeInPlace("grub.d", {"machine"})>>)
    \o When("kubelet" \in j.machine, <<writeInPlace("kubelet", {"machine"})>>)

(* The script is staged in the root, run there and removed again. *)
runMachineCommandScript(f, j) ==
    <<copyRegularFile("script", {"script"}), runTool("commands", {"ran"}), makeEntry("script", {})>>

(* Every entry with a label of BOOTy goes; the others are not touched.      *)
RemoveEFIBootEntries(f, j) ==
    When(j.uefi, <<[path |-> "nvram", value |-> f["nvram"] \cap {Unmanaged}, how |-> "entries"]>>)

(* efibootmgr -c for the ESP of disk d. *)
newBootEntry(f, j, d) ==
    When(j.uefi /\ j.vars, <<[path |-> "nvram", value |-> f["nvram"] \cup {d}, how |-> "entry"]>>)

(* A/B mode boots the removable fallback loader and makes no entry. *)
createEFIBootEntry(f, j) == When(j.disk # "ab", newBootEntry(f, j, "disk1"))

(* Mutant of createMirrorEFIBootEntry: the entry is made before the copy. *)
createMirrorEFIBootEntry_EntryFirst(f, j) ==
    When(Mirrored(j) /\ j.uefi, newBootEntry(f, j, "disk2") \o <<writeInPlace("esp2", Esp(f))>>)

(* A BIOS host gets GRUB on both disks, a UEFI host an entry for the second *)
(* disk; both get a copy of the ESP, and the entry only after the copy.     *)
createMirrorEFIBootEntry(f, j) ==
    When(Mirrored(j),
        IF j.uefi THEN <<writeInPlace("esp2", Esp(f))>> \o newBootEntry(f, j, "disk2")
        ELSE <<runTool("mbr", {"disk1"}), runTool("mbr", {"disk1", "disk2"}),
               writeInPlace("esp2", Esp(f))>>)

-----------------------------------------------------------------------------
targetSteps == <<
    "remove-efi-entries", "stream-image", "configure-overlayfs", "set-hostname",
    "copy-provisioner-files", "configure-dns", "apply-sysexts", "write-fstab", "configure-mdadm",
    "install-esp-sync", "configure-kubelet", "prepare-oci-prepulls", "configure-serial-console",
    "configure-grub", "install-efi-fallback", "inject-cloudinit", "copy-machine-files",
    "run-machine-commands", "create-efi-boot-entry", "create-mirror-efi-boot-entry", "report-success">>

(* The steps of this list that run again on a resume. *)
rerunOnResume == {"configure-serial-console", "configure-grub"}

(* The writing steps that DefaultPolicies tries again; here once (its bound). *)
Retried == {"configure-dns", "create-efi-boot-entry", "create-mirror-efi-boot-entry"}

Writes(s, f, j) ==
    CASE s = "remove-efi-entries" -> RemoveEFIBootEntries(f, j)
      [] s = "configure-overlayfs" -> ConfigureOverlayFS(f, j)
      [] s = "set-hostname" -> SetHostname(f, j)
      [] s = "copy-provisioner-files" -> CopyProvisionerFiles(f, j)
      [] s = "configure-dns" -> configureDNS(f, j)
      [] s = "apply-sysexts" -> ApplySysexts(f, j)
      [] s = "write-fstab" -> writeFstabStep(f, j)
      [] s = "configure-mdadm" -> configureMdadmAt(f, j)
      [] s = "install-esp-sync" -> InstallESPSync(f, j)
      [] s = "configure-kubelet" -> updateKubeletExtraArgs(f, j)
      [] s = "prepare-oci-prepulls" -> PrepareOCIPrePulls(f, j)
      [] s = "configure-serial-console" -> ConfigureSerialConsole(f, j)
      [] s = "configure-grub" -> ConfigureGRUB(f, j)
      [] s = "install-efi-fallback" -> installBundledEFIFallbackLoader(f, j)
      [] s = "inject-cloudinit" -> writeSeedFiles(f, j)
      [] s = "copy-machine-files" -> CopyMachineFiles(f, j)
      [] s = "run-machine-commands" -> runMachineCommandScript(f, j)
      [] s = "create-efi-boot-entry" -> createEFIBootEntry(f, j)
      [] s = "create-mirror-efi-boot-entry" -> createMirrorEFIBootEntry(f, j)
      [] OTHER -> <<>>

Step == targetSteps[at]
Ws == Writes(Step, file, tjob)
Done == at > Len(targetSteps)

(* The next step of an attempt from step i on. *)
FirstStep(i, done) ==
    CHOOSE k \in i .. Len(targetSteps) + 1 :
        /\ k <= Len(targetSteps) => targetSteps[k] \notin done \/ targetSteps[k] \in rerunOnResume
        /\ \A m \in i .. k - 1 : targetSteps[m] \in done /\ targetSteps[m] \notin rerunOnResume

StartStep(i, done) ==
    LET k == FirstStep(i, done)
    IN  /\ at' = k /\ wr' = 1
        /\ retries' = IF k <= Len(targetSteps) /\ targetSteps[k] \in Retried THEN 1 ELSE 0

TargetInit ==
    /\ tjob \in TargetJobs
    /\ file = [p \in Paths |-> IF p = "nvram" /\ tjob.uefi THEN {Unmanaged, "old disk1", "old disk2"} ELSE {}]
    /\ at = 1 /\ wr = 1 /\ retries = 0 /\ complete = {} /\ cut = {}
    /\ runs = 1 /\ tfaults = 0 /\ tphase = "run"

(* One write of the step succeeds. *)
WriteFile ==
    /\ tphase = "run" /\ ~Done /\ wr <= Len(Ws)
    /\ file' = [file EXCEPT ![Ws[wr].path] = Ws[wr].value]
    /\ wr' = wr + 1
    /\ UNCHANGED <<tjob, at, complete, retries, cut, runs, tfaults, tphase>>

(* stream-image puts the image on the disk that was wiped. *)
StreamImage ==
    /\ tphase = "run" /\ ~Done /\ Step = "stream-image" /\ wr = 1
    /\ file' = Streamed(tjob, file["nvram"]) /\ cut' = {} /\ wr' = 2
    /\ UNCHANGED <<tjob, at, complete, retries, runs, tfaults, tphase>>

(* The step is over: the checkpoint lists it (executeStep). *)
StepDone ==
    /\ tphase = "run" /\ ~Done /\ wr > Len(Ws) /\ (Step = "stream-image" => wr = 2)
    /\ complete' = complete \cup {Step}
    /\ StartStep(at + 1, complete')
    /\ UNCHANGED <<tjob, file, cut, runs, tfaults, tphase>>

(* efiEntryResult: without EFI_BOOT_ENTRY_REQUIRED an entry that cannot be  *)
(* removed does not fail the run.                                           *)
efiEntryResult == ~tjob.must /\ Step = "remove-efi-entries"

(* What a write leaves when it fails: of the entries any may be gone.       *)
FailedValues(w) ==
    IF w.how = "entries" THEN {v \in SUBSET file["nvram"] : w.value \subseteq v /\ v # w.value}
    ELSE Leaves(w, file)

WriteFails ==
    /\ tphase = "run" /\ ~Done /\ wr <= Len(Ws) /\ tfaults < MaxTargetFaults
    /\ tfaults' = tfaults + 1
    /\ \E v \in FailedValues(Ws[wr]) :
        /\ file' = [file EXCEPT ![Ws[wr].path] = v]
        /\ cut' = IF v = Torn THEN cut \cup {Ws[wr].path} ELSE cut
    /\ IF efiEntryResult
        THEN wr' = wr + 1 /\ UNCHANGED <<retries, tphase>>
        ELSE IF retries > 0 THEN wr' = 1 /\ retries' = retries - 1 /\ UNCHANGED tphase
        ELSE tphase' = "failed" /\ UNCHANGED <<wr, retries>>
    /\ UNCHANGED <<tjob, at, complete, runs>>

(* The attempt ends between two writes: a canceled run, a step that fails   *)
(* before it writes, or the end of the process.                             *)
Interrupted ==
    /\ tphase = "run" /\ ~Done /\ tfaults < MaxTargetFaults
    /\ tfaults' = tfaults + 1 /\ tphase' = "failed"
    /\ UNCHANGED <<tjob, file, at, wr, complete, retries, cut, runs>>

NextAttempt ==
    /\ tphase = "failed" /\ runs < MaxTargetRuns
    /\ runs' = runs + 1 /\ tphase' = "run"
    /\ complete' = IF tjob.resume THEN complete ELSE {}
    /\ StartStep(1, complete')
    /\ UNCHANGED <<tjob, file, cut, tfaults>>

Finish ==
    /\ tphase = "run" /\ Done
    /\ tphase' = "done"
    /\ UNCHANGED <<tjob, file, at, wr, complete, retries, cut, runs, tfaults>>

TargetNext ==
    \/ WriteFile \/ StreamImage \/ StepDone \/ WriteFails \/ Interrupted \/ NextAttempt \/ Finish

TargetSpec == TargetInit /\ [][TargetNext]_tvars

-----------------------------------------------------------------------------
(* The files whose content the configuration settles.                       *)
ConfigSteps == {"overlayroot", "hostname", "provisioner", "resolv.conf", "network", "sysext1", "sysext2",
               "sysext catalog", "fstab", "initramfs", "esp-sync link", "kubelet", "archive",
               "prepull link", "getty links", "grub.cfg", "loader", "network-config", "user-data",
               "script", "commands", "ab-slot.env"}

(* What the configuration asks for, file by file.                           *)
Wanted(j, p) ==
    LET console == IF j.grub = "resolved" THEN "ttyS1" ELSE "ttyS0"
    IN  CASE p = "overlayroot" -> {"config", "dirs"}
          [] p = "network" -> {"link", "vlan"}
          [] p \in {"sysext1", "sysext2"} -> {"layer"}
          [] p = "sysext catalog" -> {"image layer", "layer"}
          [] p = "fstab" -> IF HasLayout(j) THEN {"/ fs", "/boot/efi fs"}
                            ELSE IF j.disk = "mirror" THEN {"/ array", "/boot/efi fs", "/data fs"}
                            ELSE IF j.disk = "mirror-boot" THEN {"/ array", "/boot array", "/boot/efi fs"}
                            ELSE {"/ part", "/boot/efi part", "/data fs"}
          [] p = "initramfs" -> IF Mirrored(j) THEN Arrays(j) \cup {"rd.md.uuid"} ELSE {"image"}
          [] p = "esp-sync link" -> IF Mirrored(j) THEN {"unit"} ELSE {}
          [] p = "kubelet" -> IF "kubelet" \in j.machine THEN {"machine"} ELSE {"--v", "--provider-id=config"}
          [] p = "archive" -> {"image1", "image2"}
          [] p = "prepull link" -> {"unit"}
          [] p = "getty links" -> {console}
          [] p = "grub.cfg" -> {console} \cup (IF Mirrored(j) THEN {"no PARTUUID"} ELSE {})
          [] p = "loader" -> IF j.disk = "ab" THEN {"bundled"} ELSE {"image"}
          [] p = "ab-slot.env" -> IF j.disk = "ab" THEN {"slot"} ELSE {}
          [] p = "script" -> {}
          [] p = "commands" -> {"ran"}
          [] p \in {"hostname", "provisioner", "resolv.conf", "network-config", "user-data"} -> {"config"}

(* A run that reports success has left the system that the configuration    *)
(* asks for, whatever was written by attempts before it: no file is torn,   *)
(* no old unit, entry, argument or staged script stays, the initramfs knows *)
(* the arrays, and the firmware has an entry for every disk.  A/B mode has  *)
(* no entry, it boots the fallback loader that its ESP then has.  Two files *)
(* are excepted, see the README: the kubelet arguments after a write that   *)
(* was cut off, and a grub.cfg drop-in that is also a machine file.         *)
TargetIsAsConfigured ==
    tphase = "done" =>
        /\ \A p \in ConfigSteps :
            \/ p = "kubelet" /\ "kubelet" \in cut
            \/ p = "grub.cfg" /\ "grub.d" \in tjob.machine
            \/ file[p] = Wanted(tjob, p)
        /\ tjob.uefi /\ tjob.disk = "ab" => file["nvram"] \cap {"disk1", "disk2"} = {}
        /\ tjob.uefi /\ tjob.vars /\ tjob.disk # "ab" =>
            {"disk1"} \cup (IF Mirrored(tjob) THEN {"disk2"} ELSE {}) \subseteq file["nvram"]
        /\ ~tjob.uefi /\ Mirrored(tjob) => file["mbr"] = {"disk1", "disk2"}
        /\ tjob.uefi /\ tjob.must => file["nvram"] \cap {"old disk1", "old disk2"} = {}
        /\ tjob.uefi => Unmanaged \in file["nvram"]

(* At no time does a file that is in place name one that is not: a boot of  *)
(* a half-configured system finds the layer of its catalog, the archives of *)
(* its import list, the unit of each link with the program it starts, and   *)
(* the marker that the grub.cfg of the ESP looks for.                       *)
NothingDangles ==
    /\ "layer" \in file["sysext catalog"] => file["sysext1"] = {"layer"}
    /\ file["import list"] \subseteq file["archive"]
    /\ file["prepull link"] # {} =>
        file["prepull.service"] = {"unit"} /\ file["importer"] = {"script"} /\ file["import list"] # {}
    /\ file["esp-sync link"] # {} => file["esp-sync.service"] = {"unit"} /\ file["esp-sync"] = {"helper"}
    /\ file["esp grub.cfg"] \subseteq file["marker"]

(* The firmware gets an entry for the second disk only when its ESP is a    *)
(* complete copy: "the entry is only created for a complete ESP".           *)
EntryAfterCopy ==
    [][ ("disk2" \in file'["nvram"] \ file["nvram"]) => file["esp2"] = Esp(file) ]_tvars

(* A machine file is copied after every writer of the target root, so it    *)
(* has its own content when the run reports success (CopyMachineFiles,      *)
(* "This step runs after every host-side writer into the root").            *)
MachineFilesWin == tphase = "done" => \A p \in tjob.machine : file[p] = {"machine"}

(* A finished target has what the configuration asks for and nothing that    *)
(* points to what is not there, over failed steps, retries and resumes.      *)
TargetIsWhole == TargetIsAsConfigured /\ NothingDangles
=============================================================================
