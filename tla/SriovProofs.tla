----------------------------- MODULE SriovProofs -----------------------------
(***************************************************************************)
(* Proofs about the configure-sriov step, for every host and profile list,  *)
(* every firmware value and every number of faults, boots and changes of    *)
(* the firmware by others: the firmware settings become active before the   *)
(* run depends on them and without a reboot loop, and the port of the       *)
(* ramdisk network is left alone.                                            *)
(*                                                                           *)
(* The inductive invariant SInv has one part for each of these: RebootInv   *)
(* counts the reboots that the stored values still owe, KexecInv says which  *)
(* settings are active while no reboot is recorded, ProvenInv says what the  *)
(* findings so far imply, UplinkInv says what a device in use was spared.    *)
(***************************************************************************)
EXTENDS Sriov, TLAPS

(* Zenon finds most of the steps; those that need arithmetic or a theory    *)
(* of functions cite SMT.                                                    *)
USE Zenon

-----------------------------------------------------------------------------
(* The attempt is in the reconcile, and these ports have been checked.       *)
Passing == spc \in {"firmware", "apply", "reset", "enforce"}
Checked(p) == Assigned(p) /\ Passing /\ (spc = "firmware" => p \notin left2do)

(* What the runtime pass remembers of a device.                              *)
DevRecords ==
    [vfs : Nat, esw : {"legacy", "switchdev"}, changed : BOOLEAN, eswSet : BOOLEAN,
     errs : SUBSET {"numVFs", "eswitch", "attr"}, refused : SUBSET {"numVFs", "eswitch"}]

(* The shape of the state, with what a pass has computed from the job.       *)
SType ==
    /\ sj \in SriovJobs
    /\ stored \in [Cells -> Nat] /\ running \in [Cells -> Nat]
    /\ vfs \in [PortSet -> Nat] /\ esw \in [PortSet -> {"legacy", "switchdev"}]
    /\ asked \in Nat /\ foreign \in Nat /\ sfaults \in Nat
    /\ waiting \in BOOLEAN /\ resReboot \in BOOLEAN /\ fwChanged \in BOOLEAN
    /\ left2do \subseteq PortSet
    /\ Passing => clash = adapterConflicts
    /\ spc = "firmware" => \A p \in left2do : Assigned(p)
    /\ spc \in {"apply", "reset"} => /\ DOMAIN dev \subseteq RuntimeDevices /\ left2do \subseteq DOMAIN dev
                                     /\ dev \in [DOMAIN dev -> DevRecords]

-----------------------------------------------------------------------------
(* Port p stores setting s when it drifts.                                   *)
Applies(p, s) ==
    Assigned(p) /\ Profile(p).drift = "apply" /\ s \in WantedSettings(p) /\ s \notin adapterConflicts
(* The firmware has the value that port p wants of s; every port that may    *)
(* store s finds its value.                                                  *)
StoredFor(p, s) == stored[Cell(p, s)] = Profile(p).fw[s]
Settled(s) == \A p \in PortSet : Applies(p, s) => StoredFor(p, s)
(* The journal holds a stored setting that only a reset makes active.        *)
Journaled == \E e \in jfile \cup jmem : runtimeAffecting(e[1][2])

(* The verify reboots of one round: what the stored values may still ask     *)
(* for, out of a budget that grows with every fault and every change by      *)
(* others.                                                                   *)
Cost == IF Opposed THEN 2 ELSE 1
Budget == Cost * (1 + foreign + sfaults)
Owed == IF ~Settled("maxVFs") THEN Cost
        ELSE IF ~Settled("enabled") \/ (Journaled /\ spc # "rebooting") THEN 1 ELSE 0

(* Why the reboots end: those asked for and those still owed fit the budget, *)
(* a pass that waits has one left, and what the checked ports left unstored  *)
(* was paid for by a fault.                                                  *)
RebootInv ==
    /\ asked + Owed <= Budget
    /\ Passing /\ waiting => asked + 1 <= Budget /\ "mstconfig" \in backendsFor
    /\ Passing /\ ~enforce /\ "mstconfig" \in backendsFor =>
        /\ \/ \A p \in PortSet : Checked(p) /\ Applies(p, "maxVFs") => StoredFor(p, "maxVFs")
           \/ asked + 1 + Cost <= Budget
        /\ \/ \A p \in PortSet : Checked(p) /\ Applies(p, "enabled") => StoredFor(p, "enabled")
           \/ asked + 2 <= Budget
    /\ Passing /\ verifyReboot => waiting

-----------------------------------------------------------------------------
(* Past the step; the host shows the value that port p wants.                *)
AfterPass == spc \in {"disk", "kexec", "reset-host"}
Shown(p, s) == Shows(Cell(p, s)) = Profile(p).fw[s]

(* Why kexec is safe: a cell that BOOTy stored holds what a port wants, and  *)
(* while no reboot is recorded every wanted setting of the checked ports is  *)
(* active.                                                                   *)
KexecInv ==
    /\ \A p \in PortSet : running[Cell(p, "agent")] = stored[Cell(p, "agent")]
    /\ \A c \in mine : \E p \in PortSet, s \in Settings :
        /\ c = Cell(p, s) /\ Applies(p, s)
        /\ StoredFor(p, s) \/ (s = "enabled" /\ \E q \in PortSet : OpposedPorts(p, q))
    /\ Passing /\ ~enforce /\ ~resReboot =>
        \A p \in PortSet : Checked(p) /\ Profile(p).drift = "apply" =>
            \A s \in WantedSettings(p) \ {"param", "agent"} : Shown(p, s)
    /\ spc = "kexec" => ~fwChanged
    /\ AfterPass /\ ~fwChanged =>
        \A p \in PortSet : Assigned(p) /\ Profile(p).drift = "apply" =>
            \A s \in WantedSettings(p) \ {"param", "agent"} : Shown(p, s)

-----------------------------------------------------------------------------
(* A deviation of the port fails the run; the kernel shows the wanted VF     *)
(* limit.                                                                    *)
Enforced(p) == p \in PortSet /\ Assigned(p) /\ Profile(p).drift # "warn"
LimitShown(p) == Profile(p).fw["maxVFs"] \in {Unset, totalVFs}

(* Why the run reaches the disk with its settings seen: without a finding to *)
(* enforce, a checked port has its limit or waits for a reboot, no port was  *)
(* left out of the runtime pass, and what was not tried was deferred.        *)
ProvenInv ==
    /\ Passing /\ ~enforce => \A p \in PortSet : Checked(p) /\ Enforced(p) => LimitShown(p) \/ waiting
    /\ spc \in {"apply", "reset", "enforce"} =>
        /\ ~enforce => \A p \in RuntimeAll : Enforced(p) => p \in RuntimePorts
        /\ waiting /\ RuntimePorts # {} => verifyReboot
    /\ spc \in {"apply", "reset"} => ~waiting
    /\ spc = "enforce" => waiting \/ RuntimePorts = {}
    /\ spc = "reset" /\ ~enforce => \A p \in RuntimePorts : Enforced(p) => p \in proven
    /\ ProvenBeforeDisk

-----------------------------------------------------------------------------
(* The driver changes the VF count without a reset of the PF.                *)
LeavesPF == sj.driver \in {"mlx5_core", "ice"} /\ ~(sj.driver = "mlx5_core" /\ sj.bonded)
(* What a pass has done to a device in use.                                  *)
UplinkInv ==
    spc \in {"apply", "reset"} =>
        \A d \in DOMAIN dev : InUse(d) => ~dev[d].eswSet /\ (dev[d].changed => LeavesPF)
(* Only changed devices are taken back.                                      *)
UplinkInv2 == spc = "reset" => \A d \in left2do : dev[d].changed

(* The inductive invariant.                                                  *)
SInv == SType /\ RebootInv /\ KexecInv /\ ProvenInv /\ UplinkInv /\ UplinkInv2

(* What depends on the job alone.                                            *)
LEMMA SameJob ==
    ASSUME sj' = sj
    PROVE  /\ \A p : (Assigned(p)' <=> Assigned(p)) /\ Profile(p)' = Profile(p)
           /\ \A p : WantedSettings(p)' = WantedSettings(p)
           /\ \A p, s : Applies(p, s)' <=> Applies(p, s)
           /\ adapterConflicts' = adapterConflicts
           /\ \A p, q : OpposedPorts(p, q)' <=> OpposedPorts(p, q)
           /\ Opposed' <=> Opposed
           /\ backendsFor' = backendsFor
<1>1. \A p : (Assigned(p)' <=> Assigned(p)) /\ Profile(p)' = Profile(p)
  BY DEF Assigned, Profile
<1>2. \A p : WantedSettings(p)' = WantedSettings(p)
  BY <1>1 DEF WantedSettings
<1>3. adapterConflicts' = adapterConflicts
  BY <1>1, <1>2 DEF adapterConflicts
<1>4. \A p, s : Applies(p, s)' <=> Applies(p, s)
  BY <1>1, <1>2, <1>3 DEF Applies
<1>5. \A p, q : OpposedPorts(p, q)' <=> OpposedPorts(p, q)
  BY <1>1 DEF OpposedPorts
<1>6. Opposed' <=> Opposed
  BY <1>5 DEF Opposed
<1>7. backendsFor' = backendsFor
  BY DEF backendsFor
<1> QED BY <1>1, <1>2, <1>3, <1>4, <1>5, <1>6, <1>7

(* So do the devices of the runtime pass.                                    *)
LEMMA SameDevices ==
    ASSUME sj' = sj
    PROVE  /\ RuntimeAll' = RuntimeAll /\ RuntimePorts' = RuntimePorts /\ RuntimeDevices' = RuntimeDevices
           /\ \A d : LeadOf(d)' = LeadOf(d) /\ Device(d)' = Device(d) /\ Want(d)' = Want(d)
           /\ \A d : InUse(d)' <=> InUse(d)
           /\ \A p : Enforced(p)' <=> Enforced(p)
<1>1. \A d : Device(d)' = Device(d)
  BY DEF Device
<1>2. RuntimeAll' = RuntimeAll
  <2>1. \A p : hasRuntimeSettings(p)' <=> hasRuntimeSettings(p)
    BY SameJob DEF hasRuntimeSettings
  <2> QED BY <2>1, SameJob DEF RuntimeAll
<1>3. \A d : LeadOf(d)' = LeadOf(d)
  BY <1>1, <1>2 DEF LeadOf
<1>4. RuntimePorts' = RuntimePorts
  BY <1>1, <1>2, <1>3, SameJob, SMT DEF RuntimePorts, SameRuntime
<1>5. RuntimeDevices' = RuntimeDevices
  BY <1>1, <1>4 DEF RuntimeDevices
<1>6. \A d : Want(d)' = Want(d)
  BY <1>3, SameJob DEF Want
<1>7. \A d : InUse(d)' <=> InUse(d)
  BY <1>3 DEF InUse
<1>8. \A p : Enforced(p)' <=> Enforced(p)
  BY SameJob DEF Enforced
<1> QED BY <1>1, <1>2, <1>3, <1>4, <1>5, <1>6, <1>7, <1>8

(* The profile of a port.                                                    *)
LEMMA ProfileFacts ==
    ASSUME SType, NEW p, Assigned(p)
    PROVE  /\ Profile(p) \in ProfileType
           /\ sj.driver = "mlx5_core" => Profile(p).connectX
           /\ \E a \in DOMAIN sj.profiles : Profile(p) = sj.profiles[a]
<1>1. PICK a \in DOMAIN sj.profiles : Profile(p) = sj.profiles[a] /\ p \in sj.profiles[a].ports
  BY DEF Assigned, Profile
<1>2. sj \in SriovJobs
  BY DEF SType
<1>3. QED
  BY <1>1, <1>2, SriovAssumption

(* A port has one cell for each setting.                                     *)
LEMMA CellFacts ==
    ASSUME NEW p \in PortSet, NEW s \in Settings, NEW q \in PortSet, NEW t \in Settings
    PROVE  /\ Cell(p, s) \in Cells /\ Cell(p, s)[2] = s
           /\ Cell(p, s) = Cell(q, t) => s = t /\ (adapterScoped(s) \/ p = q)
           /\ adapterScoped(s) => Cell(p, s) = Cell(q, s)
BY SMT DEF Cell, Cells, scopeKey, adapterScoped, PortSet, Settings

(* What a write of the settings W of the profile of p does to the firmware. *)
LEMMA ChangeFacts ==
    ASSUME SType, NEW p \in PortSet, Assigned(p), NEW W \in SUBSET WantedSettings(p),
           NEW values \in [Cells -> Nat]
    PROVE  /\ Stored(values, changeFor(p, W)) \in [Cells -> Nat]
           /\ \A s \in W : Stored(values, changeFor(p, W))[Cell(p, s)] = Profile(p).fw[s]
           /\ \A q \in PortSet, s \in Settings :
                (s \in W => Cell(q, s) # Cell(p, s)) /\ s # "enabled" =>
                    Stored(values, changeFor(p, W))[Cell(q, s)] = values[Cell(q, s)]
           /\ \A q \in PortSet : "enabled" \notin W =>
                \/ Stored(values, changeFor(p, W))[Cell(q, "enabled")] = values[Cell(q, "enabled")]
                \/ /\ "maxVFs" \in W /\ Profile(p).fw["enabled"] = Unset /\ Profile(p).fw["maxVFs"] > 0
                   /\ Stored(values, changeFor(p, W))[Cell(q, "enabled")] = 1
<1> DEFINE fw == Profile(p).fw
           change == changeFor(p, W)
           F == Stored(values, change)
           implied == "maxVFs" \in W /\ fw["enabled"] = Unset /\ fw["maxVFs"] > 0
<1>0. Profile(p) \in ProfileType
  BY ProfileFacts
<1>1. fw \in [Settings -> {Unset} \cup Nat] /\ W \subseteq Settings /\ \A s \in W : fw[s] \in Nat /\ fw[s] # Unset
  BY <1>0 DEF ProfileType, WantedSettings
<1>2. \A e : e \in change <=> (\E s \in W : e = <<Cell(p, s), fw[s]>>) \/ (implied /\ e = <<Cell(p, "enabled"), 1>>)
  BY DEF changeFor
<1>3. \A e \in change : e[2] \in Nat
  BY <1>1, <1>2, SMT
<1>4. \A s \in W : \A e \in change : e[1] = Cell(p, s) => e[2] = fw[s]
  <2> SUFFICES ASSUME NEW s \in W, NEW e \in change, e[1] = Cell(p, s) PROVE e[2] = fw[s]
    OBVIOUS
  <2>1. CASE \E t \in W : e = <<Cell(p, t), fw[t]>>
    BY <2>1, <1>1, CellFacts, SMT
  <2>2. CASE implied /\ e = <<Cell(p, "enabled"), 1>>
    <3>1. s = "enabled"
      BY <2>2, <1>1, CellFacts, SMT DEF Settings
    <3> QED BY <3>1, <2>2, <1>1
  <2> QED BY <2>1, <2>2, <1>2
<1>5. \A c \in Cells : F[c] = IF \E e \in change : e[1] = c THEN (CHOOSE e \in change : e[1] = c)[2] ELSE values[c]
  BY DEF Stored
<1>6. \A c \in Cells : \/ F[c] = values[c] /\ \A e \in change : e[1] # c
                       \/ \E e \in change : e[1] = c /\ F[c] = e[2]
  BY <1>5
<1>7. F \in [Cells -> Nat]
  <2>1. \A c \in Cells : F[c] \in Nat
    BY <1>3, <1>6
  <2>2. F = [c \in Cells |-> F[c]]
    BY DEF Stored
  <2> QED BY <2>1, <2>2
<1> HIDE DEF change, F, implied, fw
<1>8. \A s \in W : F[Cell(p, s)] = fw[s]
  <2> SUFFICES ASSUME NEW s \in W PROVE F[Cell(p, s)] = fw[s]
    OBVIOUS
  <2>1. Cell(p, s) \in Cells
    BY <1>1, CellFacts
  <2>2. <<Cell(p, s), fw[s]>> \in change /\ <<Cell(p, s), fw[s]>>[1] = Cell(p, s)
    BY <1>2
  <2> QED BY <2>1, <2>2, <1>4, <1>6
<1>9. ASSUME NEW q \in PortSet, NEW s \in Settings, s \in W => Cell(q, s) # Cell(p, s), s # "enabled"
      PROVE  F[Cell(q, s)] = values[Cell(q, s)]
  <2>1. Cell(q, s) \in Cells
    BY CellFacts
  <2>2. \A e \in change : e[1] # Cell(q, s)
    <3> SUFFICES ASSUME NEW e \in change, e[1] = Cell(q, s) PROVE FALSE
      OBVIOUS
    <3>1. CASE \E t \in W : e = <<Cell(p, t), fw[t]>>
      BY <3>1, <1>1, <1>9, CellFacts, SMT
    <3>2. CASE implied /\ e = <<Cell(p, "enabled"), 1>>
      BY <3>2, <1>9, CellFacts, SMT DEF Settings
    <3> QED BY <3>1, <3>2, <1>2
  <2> QED BY <2>1, <2>2, <1>6
<1>10. ASSUME NEW q \in PortSet, "enabled" \notin W
       PROVE  F[Cell(q, "enabled")] = values[Cell(q, "enabled")] \/ (implied /\ F[Cell(q, "enabled")] = 1)
  <2>1. Cell(q, "enabled") \in Cells
    BY CellFacts DEF Settings
  <2>2. \A e \in change : e[1] = Cell(q, "enabled") => implied /\ e[2] = 1
    <3> SUFFICES ASSUME NEW e \in change, e[1] = Cell(q, "enabled") PROVE implied /\ e[2] = 1
      OBVIOUS
    <3>1. CASE \E t \in W : e = <<Cell(p, t), fw[t]>>
      BY <3>1, <1>1, <1>10, CellFacts, SMT DEF Settings
    <3>2. CASE implied /\ e = <<Cell(p, "enabled"), 1>>
      BY <3>2
    <3> QED BY <3>1, <3>2, <1>2
  <2> QED BY <2>1, <2>2, <1>6
<1> QED BY <1>7, <1>8, <1>9, <1>10 DEF F, change, fw, implied

(* What the statuses of a setting mean.                                      *)
LEMMA StatusFacts ==
    ASSUME SType, NEW p \in PortSet, Assigned(p), NEW s \in WantedSettings(p), NEW R \in SUBSET backendsFor
    PROVE  LET c == checkFirmware(p, s, R) IN
           /\ c \in {"failed", "drift", "applied", "pending-reset", "unverified", "ok"}
           /\ c = "drift" => s \notin clash /\ (Owner(s) \in R => stored[Cell(p, s)] # Profile(p).fw[s])
           /\ c = "applied" => /\ s \notin clash /\ <<Cell(p, s), Profile(p).fw[s]>> \in jmem
                               /\ Owner(s) \in R /\ stored[Cell(p, s)] = Profile(p).fw[s]
           /\ c = "ok" => /\ s \notin clash
                          /\ Owner(s) \in R => stored[Cell(p, s)] = Profile(p).fw[s]
                          /\ s \notin {"param", "agent"} => Shown(p, s)
<1> DEFINE want == Profile(p).fw[s]
           st == IF Owner(s) \in R THEN stored[Cell(p, s)] ELSE Unset
           act == IF kernelActive(s) = Unset /\ s = "nv" /\ Owner(s) \in R THEN running[Cell(p, s)] ELSE kernelActive(s)
           b == <<Cell(p, s), want>> \in jmem
<1>1. s \in Settings /\ want \in Nat
  BY ProfileFacts DEF WantedSettings, ProfileType
<1>2. Cell(p, s) \in Cells /\ stored[Cell(p, s)] \in Nat /\ running[Cell(p, s)] \in Nat
  BY <1>1, CellFacts DEF SType
<1>3. checkFirmware(p, s, R) = IF s \in clash THEN "failed" ELSE itemStatus(want, st, act, b)
  BY DEF checkFirmware
<1>4. totalVFs \in Nat
  BY SMT DEF totalVFs, SType, Cells, PortSet, Settings
<1>5. /\ s = "enabled" => kernelActive(s) \in {0, 1}
      /\ s = "maxVFs" => kernelActive(s) = totalVFs
      /\ s \notin {"enabled", "maxVFs"} => kernelActive(s) = Unset
  BY <1>4 DEF kernelActive
<1>6. /\ s \in {"enabled", "maxVFs"} => act = Shows(Cell(p, s)) /\ act # Unset
      /\ s = "nv" /\ Owner(s) \in R => act = Shows(Cell(p, s)) /\ act # Unset
      /\ s \in {"param", "agent"} => act = Unset
      /\ s = "nv" /\ Owner(s) \notin R => act = Unset
  BY <1>1, <1>2, <1>4, <1>5, SMT DEF Shows, runtimeAffecting, Cell, Unset
<1>7. st # Unset <=> Owner(s) \in R
  BY <1>2, SMT DEF Unset
<1> HIDE DEF act, b
<1>8. itemStatus(want, st, act, b) \in {"drift", "applied", "pending-reset", "unverified", "ok"}
  BY DEF itemStatus
<1>9. itemStatus(want, st, act, b) = "drift" => (st # Unset => st # want)
  BY DEF itemStatus
<1>10. itemStatus(want, st, act, b) = "applied" => b /\ st = want
  BY DEF itemStatus
<1>11. itemStatus(want, st, act, b) = "ok" =>
        (st # Unset => st = want) /\ (act # Unset => act = want) /\ ~(st = Unset /\ act = Unset)
  BY DEF itemStatus
<1>12. want # Unset
  BY <1>1, SMT DEF Unset
<1> HIDE DEF st
<1>13. checkFirmware(p, s, R) \in {"failed", "drift", "applied", "pending-reset", "unverified", "ok"}
  BY <1>3, <1>8
<1>14. checkFirmware(p, s, R) = "drift" => s \notin clash /\ (Owner(s) \in R => stored[Cell(p, s)] # want)
  BY <1>3, <1>9, <1>7 DEF st
<1>15. checkFirmware(p, s, R) = "applied" => s \notin clash /\ b /\ Owner(s) \in R /\ stored[Cell(p, s)] = want
  BY <1>3, <1>10, <1>7, <1>12 DEF st
<1>16. ASSUME checkFirmware(p, s, R) = "ok"
       PROVE  /\ s \notin clash /\ (Owner(s) \in R => stored[Cell(p, s)] = want)
              /\ s \notin {"param", "agent"} => Shown(p, s)
  <2>1. s \notin clash /\ itemStatus(want, st, act, b) = "ok"
    BY <1>16, <1>3
  <2>2. Owner(s) \in R => stored[Cell(p, s)] = want
    BY <2>1, <1>11, <1>7 DEF st
  <2>3. ASSUME s \notin {"param", "agent"} PROVE act = Shows(Cell(p, s)) /\ act # Unset
    <3>1. s \in {"enabled", "maxVFs", "nv"}
      BY <2>3, <1>1 DEF Settings
    <3> QED BY <3>1, <2>1, <1>6, <1>7, <1>11
  <2> QED BY <2>1, <2>2, <2>3, <1>11 DEF Shown
<1> QED BY <1>13, <1>14, <1>15, <1>16 DEF b

(* A call of Reconciler.firmware that SriovNext makes.                       *)
FirmwareCall(p, bad, how) ==
    /\ p \in PortSet /\ firmware(p, bad, how)
    /\ bad = "none" \/ bad \in backendsFor

(* What a port writes, keeps and reports.                                    *)
LEMMA PassFacts ==
    ASSUME SType, NEW p, NEW bad, NEW how, FirmwareCall(p, bad, how)
    PROVE  LET W == Written(p, bad, how)
               K == Kept(p, bad, how)
           IN  /\ Assigned(p) /\ p \in PortSet /\ p \in left2do
               /\ K \subseteq W /\ W \subseteq WantedSettings(p)
               /\ \A s \in W : Applies(p, s) /\ ~StoredFor(p, s) /\ Owner(s) \in backendsFor
               /\ \A s \in WantedSettings(p) : Status(p, s, bad, how) \in Good =>
                    \/ s \in K /\ Status(p, s, bad, how) = "applied"
                    \/ /\ s \notin W /\ s \notin adapterConflicts
                       /\ Owner(s) \in Readable(bad, how) => StoredFor(p, s)
                       /\ \/ /\ Status(p, s, bad, how) = "applied" /\ <<Cell(p, s), Profile(p).fw[s]>> \in jmem
                             /\ Owner(s) \in backendsFor
                             /\ checkFirmware(p, s, Readable(bad, how)) = "applied"
                          \/ Status(p, s, bad, how) = "ok" /\ (s \notin {"param", "agent"} => Shown(p, s))
               /\ \A s \in WantedSettings(p) : Status(p, s, bad, how) # "deferred"
<1> DEFINE R == Readable(bad, how)
           W == Written(p, bad, how)
           K == Kept(p, bad, how)
<1>1. p \in PortSet /\ p \in left2do /\ spc = "firmware"
  BY DEF FirmwareCall, firmware, First, SType, PortSet
<1>2. Assigned(p) /\ clash = adapterConflicts
  BY <1>1 DEF SType, Passing
<1>3. R \in SUBSET backendsFor
  BY DEF Readable
<1>4. K \subseteq W /\ W \subseteq WantedSettings(p)
  BY DEF Written, Kept, Tried, Drifted
<1>5. \A s \in W : Profile(p).drift = "apply" /\ checkFirmware(p, s, R) = "drift" /\ Owner(s) \in R
  BY DEF Written, Tried, Drifted
<1>6. \A s \in W : Applies(p, s) /\ ~StoredFor(p, s) /\ Owner(s) \in backendsFor
  BY <1>1, <1>2, <1>3, <1>4, <1>5, StatusFacts DEF Applies, StoredFor
<1>7. ASSUME NEW s \in WantedSettings(p), s \notin K, Status(p, s, bad, how) # "failed"
      PROVE  s \notin W /\ Status(p, s, bad, how) = checkFirmware(p, s, R)
  <2>1. s \notin Drifted(p, bad, how)
    BY <1>7 DEF Status
  <2> QED BY <2>1, <1>7 DEF Status, Written, Tried
<1>8. \A s \in K : Status(p, s, bad, how) = "applied"
  BY DEF Status
<1> HIDE DEF R, W, K
<1>9. ASSUME NEW s \in WantedSettings(p), s \notin K, Status(p, s, bad, how) # "failed"
      PROVE  /\ s \notin W /\ Status(p, s, bad, how) # "deferred"
             /\ Status(p, s, bad, how) \in Good =>
                 /\ s \notin adapterConflicts
                 /\ Owner(s) \in R => StoredFor(p, s)
                 /\ \/ /\ Status(p, s, bad, how) = "applied" /\ <<Cell(p, s), Profile(p).fw[s]>> \in jmem
                       /\ Owner(s) \in backendsFor /\ checkFirmware(p, s, R) = "applied"
                    \/ Status(p, s, bad, how) = "ok" /\ (s \notin {"param", "agent"} => Shown(p, s))
  <2>1. s \notin W /\ Status(p, s, bad, how) = checkFirmware(p, s, R)
    BY <1>7, <1>9
  <2>2. CASE checkFirmware(p, s, R) = "applied"
    BY <2>1, <2>2, <1>1, <1>2, <1>3, StatusFacts DEF StoredFor
  <2>3. CASE checkFirmware(p, s, R) = "ok"
    BY <2>1, <2>3, <1>1, <1>2, <1>3, StatusFacts DEF StoredFor
  <2>4. CASE checkFirmware(p, s, R) \notin {"applied", "ok"}
    <3>1. checkFirmware(p, s, R) \notin Good
      BY <2>4, <1>1, <1>2, <1>3, StatusFacts DEF Good
    <3> QED BY <3>1, <2>1 DEF Good
  <2> QED BY <2>2, <2>3, <2>4
<1>10. \A s \in WantedSettings(p) : Status(p, s, bad, how) # "deferred"
  BY <1>8, <1>9
<1>11. \A s \in WantedSettings(p) : Status(p, s, bad, how) \in Good /\ s \notin K =>
            Status(p, s, bad, how) # "failed"
  BY DEF Good
<1> QED BY <1>1, <1>2, <1>4, <1>6, <1>8, <1>9, <1>10, <1>11 DEF R, W, K

(* What the step does to the firmware.                                       *)
LEMMA StepFacts ==
    ASSUME SType, NEW p, NEW bad, NEW how, FirmwareCall(p, bad, how)
    PROVE  LET W == Written(p, bad, how) IN
           /\ stored' \in [Cells -> Nat] /\ running' \in [Cells -> Nat]
           /\ \A s \in W : StoredFor(p, s)'
           /\ \A q \in PortSet, s \in Settings : s # "enabled" /\ (s \in W => Cell(q, s) # Cell(p, s)) =>
                stored'[Cell(q, s)] = stored[Cell(q, s)]
           /\ \A q \in PortSet : "enabled" \notin W =>
                \/ stored'[Cell(q, "enabled")] = stored[Cell(q, "enabled")]
                \/ /\ "maxVFs" \in W /\ Profile(p).fw["enabled"] = Unset /\ Profile(p).fw["maxVFs"] > 0
                   /\ stored'[Cell(q, "enabled")] = 1
           /\ \A q \in PortSet, s \in Settings \ {"agent"} : running'[Cell(q, s)] = running[Cell(q, s)]
           /\ \A q \in PortSet : running[Cell(q, "agent")] = stored[Cell(q, "agent")] =>
                running'[Cell(q, "agent")] = stored'[Cell(q, "agent")]
<1> DEFINE W == Written(p, bad, how)
           A == AtOnce(W)
<1>1. Assigned(p) /\ p \in PortSet /\ W \in SUBSET WantedSettings(p)
  BY PassFacts
<1>2. stored' = Stored(stored, changeFor(p, W)) /\ running' = Stored(running, changeFor(p, A)) /\ sj' = sj
  BY DEF FirmwareCall, firmware
<1>3. stored \in [Cells -> Nat] /\ running \in [Cells -> Nat]
  BY DEF SType
<1>4. A \subseteq W /\ W \subseteq Settings /\ \A s \in W : s \in A <=> s = "agent"
  BY <1>1 DEF AtOnce, resetsAtOnce, Owner, WantedSettings, Settings
<1>5. "agent" \in Settings /\ "enabled" \in Settings /\ "enabled" \notin A /\ "maxVFs" \notin A
  BY <1>4 DEF Settings
<1> HIDE DEF W, A
<1>6. /\ stored' \in [Cells -> Nat]
      /\ \A s \in W : stored'[Cell(p, s)] = Profile(p).fw[s]
      /\ \A q \in PortSet, s \in Settings : (s \in W => Cell(q, s) # Cell(p, s)) /\ s # "enabled" =>
            stored'[Cell(q, s)] = stored[Cell(q, s)]
      /\ \A q \in PortSet : "enabled" \notin W =>
                \/ stored'[Cell(q, "enabled")] = stored[Cell(q, "enabled")]
                \/ /\ "maxVFs" \in W /\ Profile(p).fw["enabled"] = Unset /\ Profile(p).fw["maxVFs"] > 0
                   /\ stored'[Cell(q, "enabled")] = 1
  BY <1>1, <1>2, <1>3, ChangeFacts, SMT
<1>7. /\ running' \in [Cells -> Nat]
      /\ \A s \in A : running'[Cell(p, s)] = Profile(p).fw[s]
      /\ \A q \in PortSet, s \in Settings : (s \in A => Cell(q, s) # Cell(p, s)) /\ s # "enabled" =>
            running'[Cell(q, s)] = running[Cell(q, s)]
      /\ \A q \in PortSet : "enabled" \notin A =>
                \/ running'[Cell(q, "enabled")] = running[Cell(q, "enabled")]
                \/ /\ "maxVFs" \in A /\ Profile(p).fw["enabled"] = Unset /\ Profile(p).fw["maxVFs"] > 0
                   /\ running'[Cell(q, "enabled")] = 1
  <2>1. A \in SUBSET WantedSettings(p)
    BY <1>1, <1>4
  <2> QED BY <1>1, <1>2, <1>3, <2>1, ChangeFacts, SMT
<1>8. \A s \in W : StoredFor(p, s)'
  BY <1>2, <1>6, SameJob DEF StoredFor, Cell, scopeKey, adapterScoped
<1>9. \A q \in PortSet, s \in Settings \ {"agent"} : running'[Cell(q, s)] = running[Cell(q, s)]
  BY <1>4, <1>5, <1>7
<1>10. ASSUME NEW q \in PortSet, running[Cell(q, "agent")] = stored[Cell(q, "agent")]
       PROVE  running'[Cell(q, "agent")] = stored'[Cell(q, "agent")]
  <2>1. CASE "agent" \in W /\ q = p
    <3>1. "agent" \in A
      BY <2>1, <1>4
    <3> QED BY <2>1, <3>1, <1>6, <1>7
  <2>2. CASE "agent" \in W /\ q # p
    <3>1. Cell(q, "agent") # Cell(p, "agent")
      BY <2>2 DEF Cell, scopeKey, adapterScoped
    <3> QED BY <3>1, <1>5, <1>6, <1>7, <1>10
  <2>3. CASE "agent" \notin W
    <3>1. "agent" \notin A
      BY <2>3, <1>4
    <3> QED BY <2>3, <3>1, <1>5, <1>6, <1>7, <1>10
  <2> QED BY <2>1, <2>2, <2>3
<1> QED BY <1>6, <1>7, <1>8, <1>9, <1>10 DEF W

(* Ports that want the same setting of the adapter want the same value.     *)
LEMMA SameWish ==
    ASSUME NEW p \in PortSet, NEW q \in PortSet, NEW s, adapterScoped(s), Applies(p, s), Applies(q, s)
    PROVE  Profile(p).fw[s] = Profile(q).fw[s]
BY DEF Applies, adapterConflicts, WantedSettings

(* A write stores what every port wants of a setting of the adapter, and     *)
(* undoes only the enable of an opposed port.                                *)
LEMMA KeepStored ==
    ASSUME SType, NEW p, NEW bad, NEW how, FirmwareCall(p, bad, how), NEW q \in PortSet, NEW s \in Settings,
           Applies(q, s)
    PROVE  LET W == Written(p, bad, how) IN
           /\ s \in W /\ adapterScoped(s) => StoredFor(q, s)'
           /\ StoredFor(q, s) =>
                StoredFor(q, s)' \/ (s = "enabled" /\ "maxVFs" \in W /\ "enabled" \notin W /\ OpposedPorts(q, p))
           /\ ~StoredFor(q, s) /\ s \notin W /\ s # "enabled" => ~StoredFor(q, s)'
<1> DEFINE W == Written(p, bad, how)
<1>1. sj' = sj /\ p \in PortSet /\ Assigned(p) /\ W \subseteq WantedSettings(p)
  <2>1. sj' = sj
    BY DEF FirmwareCall, firmware
  <2> QED BY <2>1, PassFacts
<1>2. \A t \in W : Applies(p, t) /\ StoredFor(p, t)'
  BY PassFacts, StepFacts
<1>3. StoredFor(q, s)' <=> stored'[Cell(q, s)] = Profile(q).fw[s]
  BY <1>1, SameJob DEF StoredFor, Cell, scopeKey, adapterScoped
<1>4. \A t \in W : stored'[Cell(p, t)] = Profile(p).fw[t]
  BY <1>1, <1>2, SameJob DEF StoredFor, Cell, scopeKey, adapterScoped
<1>5. \A t \in W : t \in Settings
  BY <1>1 DEF WantedSettings
<1> HIDE DEF W
<1>6. ASSUME s \in W, adapterScoped(s)
      PROVE  StoredFor(q, s)'
  BY <1>1, <1>2, <1>3, <1>4, <1>6, SameWish, CellFacts, SMT
<1>7. ASSUME s # "enabled", ~(s \in W /\ Cell(q, s) = Cell(p, s))
      PROVE  stored'[Cell(q, s)] = stored[Cell(q, s)]
  BY <1>7, StepFacts, SMT DEF W
<1>8. ASSUME s \in W, Cell(q, s) = Cell(p, s)
      PROVE  StoredFor(q, s)'
  <2>1. adapterScoped(s) \/ p = q
    BY <1>1, <1>8, CellFacts, SMT
  <2> QED BY <2>1, <1>2, <1>6, <1>8
<1>9. ASSUME StoredFor(q, s), ~StoredFor(q, s)'
      PROVE  s = "enabled" /\ "maxVFs" \in W /\ "enabled" \notin W /\ OpposedPorts(q, p)
  <2>1. stored[Cell(q, s)] = Profile(q).fw[s] /\ stored'[Cell(q, s)] # Profile(q).fw[s]
    BY <1>3, <1>9 DEF StoredFor
  <2>2. s = "enabled"
    BY <2>1, <1>7, <1>8, <1>9
  <2>3. "enabled" \notin W
    BY <2>2, <1>6, <1>9 DEF adapterScoped
  <2>4. /\ "maxVFs" \in W /\ Profile(p).fw["enabled"] = Unset /\ Profile(p).fw["maxVFs"] > 0
        /\ stored'[Cell(q, "enabled")] = 1
    BY <2>1, <2>2, <2>3, StepFacts DEF W
  <2>5. Assigned(q) /\ Profile(q).drift = "apply" /\ Profile(q).fw["enabled"] \in {0, 1}
    BY <2>2, ProfileFacts DEF Applies, WantedSettings, ProfileType
  <2>6. Profile(q).fw["enabled"] = 0
    BY <2>1, <2>2, <2>4, <2>5
  <2>7. Profile(p).drift = "apply"
    BY <2>4, <1>2 DEF Applies
  <2> QED BY <1>1, <2>2, <2>3, <2>4, <2>5, <2>6, <2>7 DEF OpposedPorts
<1>10. ASSUME ~StoredFor(q, s), s \notin W, s # "enabled"
       PROVE  ~StoredFor(q, s)'
  BY <1>3, <1>7, <1>10 DEF StoredFor
<1> QED BY <1>6, <1>9, <1>10 DEF W

(* Settled only asks for the ports that may store the setting.               *)
LEMMA SettledFacts ==
    ASSUME SType, NEW p, NEW bad, NEW how, FirmwareCall(p, bad, how)
    PROVE  LET W == Written(p, bad, how) IN
           /\ Settled("maxVFs") => "maxVFs" \notin W /\ Settled("maxVFs")'
           /\ Settled("enabled") => "enabled" \notin W
           /\ Settled("enabled") /\ ~Settled("enabled")' => ~Settled("maxVFs") /\ Settled("maxVFs")' /\ Opposed
           /\ "maxVFs" \in W => Settled("maxVFs")'
           /\ "enabled" \in W => Settled("enabled")'
<1> DEFINE W == Written(p, bad, how)
<1>0. "maxVFs" \in Settings /\ "enabled" \in Settings /\ adapterScoped("maxVFs") /\ adapterScoped("enabled")
  BY DEF Settings, adapterScoped
<1>1. sj' = sj /\ p \in PortSet
  BY DEF FirmwareCall, firmware
<1>2. \A s \in W : Applies(p, s) /\ ~StoredFor(p, s)
  BY PassFacts
<1>3. \A s : Settled(s)' <=> \A q \in PortSet : Applies(q, s) => StoredFor(q, s)'
  BY <1>1, SameJob DEF Settled
<1> HIDE DEF W
<1>4. \A s \in W : ~Settled(s)
  BY <1>1, <1>2 DEF Settled
<1>5. \A s \in Settings : s \in W /\ adapterScoped(s) => Settled(s)'
  BY <1>3, KeepStored DEF W
<1>6. Settled("maxVFs") => Settled("maxVFs")'
  BY <1>0, <1>3, KeepStored DEF Settled
<1>7. ASSUME Settled("enabled"), ~Settled("enabled")' PROVE "maxVFs" \in W /\ Opposed
  <2>1. PICK q \in PortSet : Applies(q, "enabled") /\ ~StoredFor(q, "enabled")'
    BY <1>3, <1>7
  <2>2. StoredFor(q, "enabled")
    BY <2>1, <1>7 DEF Settled
  <2> QED BY <1>0, <1>1, <2>1, <2>2, KeepStored DEF Opposed, W
<1> QED BY <1>0, <1>4, <1>5, <1>6, <1>7 DEF W

(* The cost and the budget are numbers.                                      *)
LEMMA CostFacts ==
    ASSUME SType
    PROVE  /\ Cost \in {1, 2} /\ Budget \in Nat /\ Owed \in {0, 1, 2} /\ Owed <= Cost
           /\ Opposed => Cost = 2
           /\ Budget = Cost * (1 + foreign + sfaults)
           /\ ~Settled("maxVFs") => Owed = Cost
           /\ ~Settled("enabled") => Owed >= 1
           /\ Journaled /\ spc # "rebooting" => Owed >= 1
<1>1. Cost \in {1, 2} /\ (Opposed => Cost = 2)
  BY DEF Cost
<1>2. Budget \in Nat
  BY <1>1, SMT DEF Budget, SType
<1> QED BY <1>1, <1>2, SMT DEF Owed, Budget

(* Arithmetic of the budget.                                                 *)
LEMMA Products ==
    ASSUME NEW c \in {1, 2}, NEW n \in Nat, NEW k \in {0, 1, 2}
    PROVE  /\ c * n \in Nat /\ c * (n + k) \in Nat /\ c * (n + k) >= c * n
           /\ k # 0 => c * (n + k) >= c * n + c
<1>1. CASE c = 1
  BY <1>1, SMT
<1>2. CASE c = 2
  BY <1>2, SMT
<1> QED BY <1>1, <1>2

(* A fault or a change by others pays for another round.                     *)
LEMMA BudgetGrows ==
    ASSUME SType, sj' = sj, foreign' \in {foreign, foreign + 1}, sfaults' \in {sfaults, sfaults + 1}
    PROVE  /\ Cost' = Cost /\ Budget' \in Nat /\ Budget' >= Budget
           /\ foreign' # foreign \/ sfaults' # sfaults => Budget' >= Budget + Cost
<1>1. Cost' = Cost /\ Cost \in {1, 2}
  BY SameJob DEF Cost
<1> DEFINE n == 1 + foreign + sfaults
           k == (foreign' - foreign) + (sfaults' - sfaults)
<1>2. /\ n \in Nat /\ k \in {0, 1, 2} /\ 1 + foreign' + sfaults' = n + k
      /\ foreign' # foreign \/ sfaults' # sfaults => k # 0
  BY SMT DEF SType
<1>3. Cost * (1 + foreign' + sfaults') = Cost * (n + k)
  BY <1>2
<1> HIDE DEF k
<1>4. Budget = Cost * n
  BY DEF Budget
<1>5. Budget' = Cost * (n + k)
  BY <1>1, <1>3 DEF Budget
<1> HIDE DEF n
<1> QED BY <1>1, <1>2, <1>4, <1>5, Products

(* What a port leaves as it was, and what it adds to the findings.           *)
LEMMA CallFacts ==
    ASSUME SType, NEW p, NEW bad, NEW how, FirmwareCall(p, bad, how)
    PROVE  /\ sj' = sj /\ spc = "firmware" /\ spc' = "firmware" /\ asked' = asked /\ foreign' = foreign /\ clash' = clash
           /\ sfaults' \in {sfaults, sfaults + 1}
           /\ sfaults' = sfaults => bad = "none" /\ Readable(bad, how) = backendsFor
           /\ enforce => enforce'
           /\ ~enforce' /\ Profile(p).drift # "warn" => \A s \in WantedSettings(p) : Status(p, s, bad, how) \in Good
           /\ verifyReboot' => verifyReboot
           /\ waiting' <=> waiting \/ \E s \in WantedSettings(p) : runtimeAffecting(s) /\ Status(p, s, bad, how) = "applied"
           /\ \A q \in PortSet : Checked(q)' <=> Checked(q) \/ q = p
           /\ Passing /\ Passing'
<1>1. /\ sj' = sj /\ spc = "firmware" /\ spc' = "firmware" /\ asked' = asked /\ foreign' = foreign /\ clash' = clash
      /\ waiting' <=> waiting \/ \E s \in WantedSettings(p) : runtimeAffecting(s) /\ Status(p, s, bad, how) = "applied"
      /\ found' = found \cup {<<Profile(p).drift, Status(p, s, bad, how)>> : s \in WantedSettings(p)}
      /\ left2do' = left2do \ {p} /\ p \in left2do
  <2>1. p \in left2do
    BY PassFacts
  <2> QED BY <2>1 DEF FirmwareCall, firmware
<1>2. sfaults' \in {sfaults, sfaults + 1} /\ (sfaults' = sfaults => bad = "none")
  BY SMT DEF FirmwareCall, firmware, Fault, SType
<1>3. bad = "none" => Readable(bad, how) = backendsFor
  BY DEF Readable, backendsFor
<1>4. enforce => enforce'
  BY <1>1 DEF enforce
<1>5. ASSUME ~enforce', Profile(p).drift # "warn", NEW s \in WantedSettings(p) PROVE Status(p, s, bad, how) \in Good
  <2>1. <<Profile(p).drift, Status(p, s, bad, how)>> \in found'
    BY <1>1
  <2> QED BY <2>1, <1>5 DEF enforce, Good
<1>6. ASSUME verifyReboot' PROVE verifyReboot
  <2>1. PICK f \in found' : f[2] = "deferred"
    BY <1>6 DEF verifyReboot
  <2>2. f \in found
    BY <2>1, <1>1, PassFacts, SMT
  <2> QED BY <2>1, <2>2 DEF verifyReboot
<1>7. \A q \in PortSet : Assigned(q)' <=> Assigned(q)
  BY <1>1, SameJob
<1>8. Assigned(p)
  BY PassFacts
<1>9. Passing /\ Passing'
  BY <1>1 DEF Passing
<1>10. \A q \in PortSet : Checked(q)' <=> Checked(q) \/ q = p
  BY <1>1, <1>7, <1>8, <1>9 DEF Checked
<1> QED BY <1>1, <1>2, <1>3, <1>4, <1>5, <1>6, <1>9, <1>10

(* A firmware check keeps the reboots within the budget.                     *)
LEMMA FirmwareReboot ==
    ASSUME SType, RebootInv, NEW p, NEW bad, NEW how, FirmwareCall(p, bad, how)
    PROVE  RebootInv'
<1> DEFINE W == Written(p, bad, how)
<1>0. "maxVFs" \in Settings /\ "enabled" \in Settings /\ adapterScoped("maxVFs") /\ adapterScoped("enabled")
  BY DEF Settings, adapterScoped
<1>1. /\ Cost' = Cost /\ Budget' \in Nat /\ Budget' >= Budget /\ asked' = asked /\ asked \in Nat
      /\ sfaults' # sfaults => Budget' >= Budget + Cost
      /\ \A q, s : Applies(q, s)' <=> Applies(q, s)
  BY CallFacts, BudgetGrows, SameJob DEF SType
<1>2. /\ Cost \in {1, 2} /\ Budget \in Nat /\ Owed \in {0, 1, 2} /\ Owed <= Cost
      /\ Opposed => Cost = 2
      /\ ~Settled("maxVFs") => Owed = Cost
      /\ ~Settled("enabled") => Owed >= 1
      /\ Journaled => Owed >= 1
      /\ asked + Owed <= Budget
  BY CostFacts, CallFacts DEF RebootInv
<1>3. Owed' = IF ~Settled("maxVFs")' THEN Cost
              ELSE IF ~Settled("enabled")' \/ Journaled' THEN 1 ELSE 0
  BY <1>1, CallFacts DEF Owed
<1>4. Journaled' => Journaled \/ "maxVFs" \in W \/ "enabled" \in W
  <2> DEFINE new == {<<Cell(p, s), Profile(p).fw[s]>> : s \in Kept(p, bad, how) \ AtOnce(Kept(p, bad, how))}
  <2>1. jmem' = Recorded(jmem, new) /\ jfile' \in {jfile, jmem'}
    BY DEF FirmwareCall, firmware
  <2>2. SUFFICES ASSUME NEW e \in jfile' \cup jmem', runtimeAffecting(e[1][2]), ~Journaled PROVE "maxVFs" \in W \/ "enabled" \in W
    BY DEF Journaled
  <2>3. e \in new
    BY <2>1, <2>2 DEF Journaled, Recorded
  <2>4. PICK s \in Kept(p, bad, how) : e = <<Cell(p, s), Profile(p).fw[s]>>
    BY <2>3
  <2>5. e[1][2] = s
    BY <2>4 DEF Cell
  <2> QED BY <2>2, <2>4, <2>5, PassFacts, SMT DEF runtimeAffecting
<1>5. asked' + Owed' <= Budget'
  <2>1. CASE ~Settled("maxVFs")
    BY <2>1, <1>1, <1>2, <1>3, SMT
  <2>2. CASE Settled("maxVFs")
    <3>1. Settled("maxVFs")' /\ "maxVFs" \notin W /\ (~Settled("enabled")' => ~Settled("enabled"))
      BY <2>2, SettledFacts
    <3>2. "enabled" \in W => ~Settled("enabled")
      BY SettledFacts
    <3>3. Owed' <= Owed
      BY <3>1, <3>2, <1>2, <1>3, <1>4, SMT
    <3> QED BY <3>3, <3>1, <1>1, <1>2, <1>3, SMT
  <2> QED BY <2>1, <2>2
<1>6. ASSUME waiting' PROVE asked' + 1 <= Budget' /\ ("mstconfig" \in backendsFor)'
  <2>0. backendsFor' = backendsFor
    BY CallFacts, SameJob
  <2>1. CASE waiting
    BY <2>1, <2>0, <1>1, <1>2, CallFacts, SMT DEF RebootInv
  <2>2. CASE ~waiting
    <3>1. PICK s \in WantedSettings(p) : runtimeAffecting(s) /\ Status(p, s, bad, how) = "applied"
      BY <1>6, <2>2, CallFacts, SMT
    <3>2. Owner(s) = "mstconfig" /\ s \in {"maxVFs", "enabled"}
      BY <3>1 DEF runtimeAffecting, Owner
    <3>3. CASE s \in W
      <4>1. ~Settled(s) /\ Owner(s) \in backendsFor
        BY <3>2, <3>3, SettledFacts, PassFacts, SMT
      <4> QED BY <4>1, <3>2, <2>0, <1>1, <1>2, SMT
    <3>4. CASE s \notin W
      <4>1. <<Cell(p, s), Profile(p).fw[s]>> \in jmem /\ Owner(s) \in backendsFor
        BY <3>1, <3>4, PassFacts DEF Good
      <4>2. Journaled
        <5>1. <<Cell(p, s), Profile(p).fw[s]>>[1][2] = s
          BY DEF Cell
        <5> QED BY <4>1, <5>1, <3>1 DEF Journaled
      <4> QED BY <4>1, <4>2, <3>2, <2>0, <1>1, <1>2, SMT
    <3> QED BY <3>3, <3>4
  <2> QED BY <2>1, <2>2
<1>7. ASSUME ~enforce', ("mstconfig" \in backendsFor)'
      PROVE  /\ \/ \A q \in PortSet : Checked(q)' /\ Applies(q, "maxVFs")' => StoredFor(q, "maxVFs")'
                \/ asked' + 1 + Cost' <= Budget'
             /\ \/ \A q \in PortSet : Checked(q)' /\ Applies(q, "enabled")' => StoredFor(q, "enabled")'
                \/ asked' + 2 <= Budget'
  <2>1. backendsFor' = backendsFor /\ ~enforce /\ "mstconfig" \in backendsFor /\ Passing
    BY <1>7, CallFacts, SameJob
  <2>2. /\ \/ \A q \in PortSet : Checked(q) /\ Applies(q, "maxVFs") => StoredFor(q, "maxVFs")
           \/ asked + 1 + Cost <= Budget
        /\ \/ \A q \in PortSet : Checked(q) /\ Applies(q, "enabled") => StoredFor(q, "enabled")
           \/ asked + 2 <= Budget
    BY <2>1 DEF RebootInv
  <2>3. ASSUME NEW s \in {"maxVFs", "enabled"}, Applies(p, s), sfaults' = sfaults
        PROVE  StoredFor(p, s)'
    <3>1. s \in WantedSettings(p) /\ Profile(p).drift # "warn" /\ Owner(s) \in Readable(bad, how)
      BY <2>1, <2>3, CallFacts DEF Applies, Owner
    <3>2. Status(p, s, bad, how) \in Good
      BY <1>7, <3>1, CallFacts
    <3>3. CASE s \in W
      BY <3>3, StepFacts
    <3>4. CASE s \notin W
      <4>1. StoredFor(p, s)
        BY <3>1, <3>2, <3>4, PassFacts
      <4>2. p \in PortSet /\ ~OpposedPorts(p, p)
        BY <3>1, PassFacts, SMT DEF OpposedPorts, Unset
      <4> QED BY <4>1, <4>2, <2>3, <1>0, KeepStored
    <3> QED BY <3>3, <3>4
  <2>4. CASE sfaults' # sfaults
    <3>1. ASSUME NEW q \in PortSet, Applies(q, "maxVFs"), ~StoredFor(q, "maxVFs")' PROVE asked' + 1 + Cost' <= Budget'
      <4>1. ~Settled("maxVFs")
        <5>1. ~StoredFor(q, "maxVFs")
          BY <3>1, <1>0, KeepStored
        <5> QED BY <5>1, <3>1 DEF Settled
      <4> QED BY <4>1, <2>4, <1>1, <1>2, SMT
    <3>2. ASSUME NEW q \in PortSet, Applies(q, "enabled"), ~StoredFor(q, "enabled")' PROVE asked' + 2 <= Budget'
      <4>1. ~Settled("enabled") \/ ~Settled("maxVFs")
        <5>1. ~Settled("enabled")'
          BY <3>2, <1>1 DEF Settled
        <5> QED BY <5>1, SettledFacts
      <4> QED BY <4>1, <2>4, <1>1, <1>2, SMT
    <3> QED BY <3>1, <3>2, <1>1
  <2>5. CASE sfaults' = sfaults
    <3>1. \/ \A q \in PortSet : Checked(q)' /\ Applies(q, "maxVFs")' => StoredFor(q, "maxVFs")'
          \/ asked' + 1 + Cost' <= Budget'
      <4>1. CASE asked + 1 + Cost <= Budget
        BY <4>1, <1>1, <1>2, SMT
      <4>2. CASE \A q \in PortSet : Checked(q) /\ Applies(q, "maxVFs") => StoredFor(q, "maxVFs")
        <5> SUFFICES ASSUME NEW q \in PortSet, Checked(q)', Applies(q, "maxVFs") PROVE StoredFor(q, "maxVFs")'
          BY <1>1
        <5>1. CASE q = p
          BY <5>1, <2>3, <2>5
        <5>2. CASE Checked(q)
          BY <5>2, <4>2, <1>0, KeepStored
        <5> QED BY <5>1, <5>2, CallFacts
      <4> QED BY <4>1, <4>2, <2>2
    <3>2. \/ \A q \in PortSet : Checked(q)' /\ Applies(q, "enabled")' => StoredFor(q, "enabled")'
          \/ asked' + 2 <= Budget'
      <4>1. CASE asked + 2 <= Budget
        BY <4>1, <1>1, <1>2, SMT
      <4>2. CASE \A q \in PortSet : Checked(q) /\ Applies(q, "enabled") => StoredFor(q, "enabled")
        <5> SUFFICES ASSUME NEW q \in PortSet, Checked(q)', Applies(q, "enabled"), ~StoredFor(q, "enabled")'
                     PROVE  asked' + 2 <= Budget'
          BY <1>1
        <5>1. q # p /\ Checked(q)
          BY <2>3, <2>5, CallFacts
        <5>2. StoredFor(q, "enabled")
          BY <5>1, <4>2
        <5>3. "maxVFs" \in W /\ OpposedPorts(q, p)
          BY <5>2, <1>0, KeepStored
        <5>4. ~Settled("maxVFs") /\ Opposed
          BY <5>3, SettledFacts, PassFacts DEF Opposed
        <5> QED BY <5>4, <1>1, <1>2, SMT
      <4> QED BY <4>1, <4>2, <2>2
    <3> QED BY <3>1, <3>2
  <2> QED BY <2>4, <2>5
<1>8. verifyReboot' => waiting'
  BY CallFacts DEF RebootInv
<1> QED BY <1>5, <1>6, <1>7, <1>8, CallFacts DEF RebootInv

(* It keeps the shape of the state.                                          *)
LEMMA FirmwareType ==
    ASSUME SType, NEW p, NEW bad, NEW how, FirmwareCall(p, bad, how)
    PROVE  SType'
<1>1. /\ sj' = sj /\ vfs' = vfs /\ esw' = esw /\ asked' = asked /\ foreign' = foreign /\ fwChanged' = fwChanged
      /\ left2do' = left2do \ {p} /\ clash' = clash /\ spc' = "firmware" /\ spc = "firmware"
      /\ resReboot' = (resReboot \/ firmwareReboot(p, Readable(bad, how), Kept(p, bad, how)))
      /\ waiting' = (waiting \/ \E s \in WantedSettings(p) : runtimeAffecting(s) /\ Status(p, s, bad, how) = "applied")
  BY DEF FirmwareCall, firmware
<1>2. stored' \in [Cells -> Nat] /\ running' \in [Cells -> Nat]
  BY StepFacts
<1>3. resReboot' \in BOOLEAN /\ waiting' \in BOOLEAN
  BY <1>1
<1>4. sfaults' \in Nat
  BY CallFacts, SMT DEF SType
<1>5. clash' = adapterConflicts' /\ \A q \in left2do' : Assigned(q)'
  BY <1>1, SameJob DEF SType, Passing
<1>6. Passing' => clash' = adapterConflicts'
  BY <1>5
<1> QED BY <1>1, <1>2, <1>3, <1>4, <1>5, SMT DEF SType, Passing, Cells, Cell, scopeKey, adapterScoped, PortSet, Settings

(* It changes no running value that the kernel shows.                        *)
LEMMA FirmwareShows ==
    ASSUME SType, NEW p, NEW bad, NEW how, FirmwareCall(p, bad, how)
    PROVE  /\ totalVFs' = totalVFs
           /\ \A q \in PortSet, s \in Settings \ {"agent"} : Shown(q, s)' <=> Shown(q, s)
           /\ \A q \in PortSet : LimitShown(q)' <=> LimitShown(q)
<1>1. sj' = sj
  BY CallFacts
<1>2. \A q \in PortSet, s \in Settings \ {"agent"} : running'[Cell(q, s)] = running[Cell(q, s)]
  BY StepFacts
<1>3. totalVFs' = totalVFs
  BY <1>2, SMT DEF totalVFs, Cell, scopeKey, adapterScoped, PortSet, Settings
<1>4. \A s : kernelActive(s)' = kernelActive(s)
  BY <1>3 DEF kernelActive
<1>5. \A q \in PortSet, s \in Settings \ {"agent"} : Shows(Cell(q, s))' = Shows(Cell(q, s))
  BY <1>2, <1>4 DEF Shows, Cell, scopeKey, adapterScoped, runtimeAffecting
<1> QED BY <1>1, <1>3, <1>5, SameJob DEF Shown, LimitShown

(* It keeps KexecInv: what it stores and keeps is recorded for a reboot.     *)
LEMMA FirmwareKexec ==
    ASSUME SType, KexecInv, NEW p, NEW bad, NEW how, FirmwareCall(p, bad, how)
    PROVE  KexecInv'
<1> DEFINE W == Written(p, bad, how)
<1>0. sj' = sj /\ spc' = "firmware" /\ p \in PortSet /\ Assigned(p)
  BY CallFacts, PassFacts
<1>1. \A q \in PortSet : running'[Cell(q, "agent")] = stored'[Cell(q, "agent")]
  BY StepFacts DEF KexecInv
<1>2. ASSUME NEW c \in mine'
      PROVE  \E q \in PortSet, s \in Settings :
                /\ c = Cell(q, s) /\ Applies(q, s)'
                /\ StoredFor(q, s)' \/ (s = "enabled" /\ \E r \in PortSet : OpposedPorts(q, r)')
  <2>1. mine' = mine \cup {Cell(p, s) : s \in W}
    BY DEF FirmwareCall, firmware
  <2>2. CASE c \in mine
    <3>1. PICK q \in PortSet, s \in Settings :
            /\ c = Cell(q, s) /\ Applies(q, s)
            /\ StoredFor(q, s) \/ (s = "enabled" /\ \E r \in PortSet : OpposedPorts(q, r))
      BY <2>2 DEF KexecInv
    <3>2. StoredFor(q, s)' \/ (s = "enabled" /\ \E r \in PortSet : OpposedPorts(q, r))
      BY <3>1, <1>0, KeepStored
    <3>3. Applies(q, s)' /\ \A r : OpposedPorts(q, r)' <=> OpposedPorts(q, r)
      BY <3>1, <1>0, SameJob
    <3> QED BY <3>1, <3>2, <3>3
  <2>3. CASE c \notin mine
    <3>1. PICK s \in W : c = Cell(p, s)
      BY <2>1, <2>3
    <3>2. s \in Settings /\ Applies(p, s) /\ StoredFor(p, s)'
      BY <3>1, PassFacts, StepFacts DEF WantedSettings
    <3>3. Applies(p, s)'
      BY <3>2, <1>0, SameJob
    <3> QED BY <3>1, <3>2, <3>3, <1>0
  <2> QED BY <2>2, <2>3
<1>3. ASSUME ~enforce', ~resReboot', NEW q \in PortSet, Checked(q)', Profile(q)'.drift = "apply",
             NEW s \in WantedSettings(q)' \ {"param", "agent"}
      PROVE  Shown(q, s)'
  <2>1. Profile(q).drift = "apply" /\ s \in WantedSettings(q) /\ s \in Settings \ {"agent"}
    BY <1>0, <1>3, SameJob DEF WantedSettings
  <2>2. ~enforce /\ Passing
    BY <1>3, CallFacts
  <2>3. ~resReboot /\ ~firmwareReboot(p, Readable(bad, how), Kept(p, bad, how))
    BY <1>3 DEF FirmwareCall, firmware
  <2>4. CASE Checked(q)
    BY <2>1, <2>2, <2>3, <2>4, <1>3, FirmwareShows DEF KexecInv
  <2>5. CASE q = p
    <3>1. Status(p, s, bad, how) \in Good
      BY <2>1, <2>5, <1>3, CallFacts
    <3>2. s \notin Kept(p, bad, how)
      BY <2>1, <2>3, <1>3 DEF firmwareReboot, resetsAtOnce, Owner
    <3>3. checkFirmware(p, s, Readable(bad, how)) # "applied"
      BY <2>1, <2>3, <2>5 DEF firmwareReboot
    <3>4. Shown(p, s)
      BY <3>1, <3>2, <3>3, <2>1, <2>5, <1>3, PassFacts
    <3> QED BY <3>4, <2>1, <2>5, FirmwareShows
  <2> QED BY <2>4, <2>5, <1>3, CallFacts
<1> QED BY <1>0, <1>1, <1>2, <1>3 DEF KexecInv, AfterPass, Cell, scopeKey, adapterScoped

(* It keeps ProvenInv: a limit that is stored and not active makes the       *)
(* adapter wait.                                                             *)
LEMMA FirmwareProven ==
    ASSUME SType, ProvenInv, NEW p, NEW bad, NEW how, FirmwareCall(p, bad, how)
    PROVE  ProvenInv'
<1>0. sj' = sj /\ spc' = "firmware" /\ p \in PortSet /\ Assigned(p)
  BY CallFacts, PassFacts
<1>1. ASSUME ~enforce', NEW q \in PortSet, Checked(q)', Enforced(q)', ~waiting'
      PROVE  LimitShown(q)'
  <2>1. ~enforce /\ ~waiting /\ Passing
    BY <1>1, CallFacts
  <2>2. Enforced(q)
    BY <1>0, <1>1, SameDevices
  <2>3. CASE Checked(q)
    BY <2>1, <2>2, <2>3, FirmwareShows DEF ProvenInv
  <2>4. CASE q = p /\ "maxVFs" \notin WantedSettings(p)
    <3>1. Profile(p).fw["maxVFs"] = Unset
      BY <2>4 DEF WantedSettings, Settings
    <3>2. LimitShown(p)
      BY <3>1 DEF LimitShown
    <3> QED BY <2>4, <3>2, FirmwareShows
  <2>5. CASE q = p /\ "maxVFs" \in WantedSettings(p)
    <3>1. Status(p, "maxVFs", bad, how) \in Good
      BY <2>2, <2>5, <1>1, CallFacts DEF Enforced
    <3>2. Status(p, "maxVFs", bad, how) # "applied"
      BY <2>5, <1>1, CallFacts DEF runtimeAffecting
    <3>3. Shown(p, "maxVFs")
      BY <3>1, <3>2, <2>5, PassFacts
    <3>4. LimitShown(p)
      BY <3>3 DEF LimitShown, Shown, Shows, Cell, runtimeAffecting, kernelActive
    <3> QED BY <2>5, <3>4, FirmwareShows
  <2> QED BY <2>3, <2>4, <2>5, <1>1, CallFacts
<1>2. ProvenBeforeDisk'
  BY <1>0 DEF ProvenBeforeDisk
<1> QED BY <1>0, <1>1, <1>2 DEF ProvenInv

(* Reconciler.firmware keeps the invariant.                                  *)
LEMMA FirmwareKeeps ==
    ASSUME SInv, NEW p, NEW bad, NEW how, FirmwareCall(p, bad, how)
    PROVE  SInv'
<1>1. SType' /\ RebootInv' /\ KexecInv' /\ ProvenInv'
  BY FirmwareType, FirmwareReboot, FirmwareKexec, FirmwareProven DEF SInv
<1>2. UplinkInv' /\ UplinkInv2'
  BY CallFacts DEF UplinkInv, UplinkInv2, SInv
<1> QED BY <1>1, <1>2 DEF SInv

(* Without a change of the firmware or the journal the debt stays.           *)
LEMMA SameFirmware ==
    ASSUME sj' = sj, stored' = stored
    PROVE  /\ \A p, s : StoredFor(p, s)' <=> StoredFor(p, s)
           /\ \A s : Settled(s)' <=> Settled(s)
<1>1. \A p, s : StoredFor(p, s)' <=> StoredFor(p, s)
  BY SameJob DEF StoredFor, Cell, scopeKey, adapterScoped
<1> QED BY <1>1, SameJob DEF Settled

(* What the kernel shows follows from the running values.                    *)
LEMMA SameValues ==
    ASSUME sj' = sj, running' = running
    PROVE  /\ totalVFs' = totalVFs
           /\ \A p, s : Shown(p, s)' <=> Shown(p, s)
           /\ \A p : LimitShown(p)' <=> LimitShown(p)
<1>1. totalVFs' = totalVFs
  BY DEF totalVFs, Cell, scopeKey, adapterScoped
<1>2. \A s : kernelActive(s)' = kernelActive(s)
  BY <1>1 DEF kernelActive
<1>3. \A p, s : Shows(Cell(p, s))' = Shows(Cell(p, s))
  BY <1>2 DEF Shows, Cell, scopeKey, adapterScoped, runtimeAffecting
<1> QED BY <1>1, <1>3, SameJob DEF Shown, LimitShown

(* Arithmetic of the debt.                                                   *)
LEMMA Sums ==
    ASSUME NEW a \in Nat, NEW o \in Nat, NEW b \in Nat, a + o <= b, NEW o1 \in Nat, NEW b1 \in Nat
    PROVE  /\ o1 <= o /\ b1 >= b => a + o1 <= b1
           /\ \A c \in Nat : o1 <= c /\ b1 >= b + c => a + o1 <= b1
BY SMT

(* A step that leaves the firmware alone owes no more reboots.               *)
LEMMA OwedShrinks ==
    ASSUME SType, sj' = sj, stored' = stored, jfile' \subseteq jfile \cup jmem, jmem' \subseteq jfile \cup jmem,
           spc # "rebooting", foreign' = foreign, sfaults' \in {sfaults, sfaults + 1}, asked' = asked,
           asked + Owed <= Budget
    PROVE  asked' + Owed' <= Budget'
<1>1. Journaled' => Journaled
  BY DEF Journaled
<1>2. Cost' = Cost /\ Budget' \in Nat /\ Budget' >= Budget
  BY BudgetGrows
<1>3. \A s : Settled(s)' <=> Settled(s)
  BY SameFirmware
<1>4. Cost \in {1, 2} /\ Owed \in Nat /\ Budget \in Nat /\ asked \in Nat
  BY CostFacts, SMT DEF SType
<1>5. Owed' \in Nat /\ Owed' <= Owed
  BY <1>1, <1>2, <1>3, <1>4, SMT DEF Owed
<1> QED BY <1>2, <1>4, <1>5, Sums

(* The steps of the runtime pass: they leave the firmware and the journal    *)
(* alone and add findings.                                                   *)
RuntimePass ==
    /\ UNCHANGED <<sj, stored, running, jfile, jmem, clash, waiting, resReboot, fwChanged, asked, foreign, mine>>
    /\ sfaults' \in {sfaults, sfaults + 1}
    /\ found \subseteq found'
    /\ \A f \in found' : f[2] = "deferred" => f \in found \/ waiting
    /\ spc = "firmware" => left2do = {}
    /\ spc \in {"firmware", "apply", "reset"} /\ spc' \in {"apply", "reset", "enforce"}

(* What the steps of the runtime pass leave alone.                           *)
LEMMA RuntimeFacts ==
    ASSUME RuntimePass
    PROVE  /\ Passing /\ Passing' /\ ~AfterPass' /\ spc' # "rebooting" /\ spc # "rebooting"
           /\ enforce => enforce'
           /\ verifyReboot' => verifyReboot \/ waiting
           /\ verifyReboot => verifyReboot'
           /\ \A p : Checked(p)' <=> Assigned(p)
           /\ \A p : Checked(p) <=> Assigned(p)
<1>1. Passing /\ Passing' /\ ~AfterPass' /\ spc' # "rebooting" /\ spc # "rebooting"
  BY DEF RuntimePass, Passing, AfterPass
<1>2. enforce => enforce'
  BY DEF RuntimePass, enforce
<1>3. verifyReboot' => verifyReboot \/ waiting
  BY DEF RuntimePass, verifyReboot
<1>4. verifyReboot => verifyReboot'
  BY DEF RuntimePass, verifyReboot
<1>5. \A p : Checked(p)' <=> Assigned(p)
  <2>1. spc' # "firmware" /\ \A p : Assigned(p)' <=> Assigned(p)
    BY SameJob DEF RuntimePass
  <2> QED BY <2>1, <1>1 DEF Checked
<1>6. \A p : Checked(p) <=> Assigned(p)
  BY <1>1 DEF Checked, RuntimePass
<1> QED BY <1>1, <1>2, <1>3, <1>4, <1>5, <1>6

(* They keep the parts of the invariant about the firmware.                  *)
LEMMA RuntimeKeeps ==
    ASSUME SInv, RuntimePass
    PROVE  RebootInv' /\ KexecInv'
<1>0. SType /\ RebootInv /\ KexecInv
  BY DEF SInv
<1>1. sj' = sj /\ stored' = stored /\ running' = running /\ asked' = asked /\ waiting' = waiting /\ foreign' = foreign
      /\ jfile' = jfile /\ jmem' = jmem /\ mine' = mine /\ resReboot' = resReboot /\ fwChanged' = fwChanged
      /\ sfaults' \in {sfaults, sfaults + 1}
  BY DEF RuntimePass
<1>2. Cost' = Cost /\ Budget' \in Nat /\ Budget' >= Budget /\ Budget \in Nat /\ Cost \in {1, 2} /\ asked \in Nat
  BY <1>0, <1>1, BudgetGrows, CostFacts DEF SType
<1>3. asked' + Owed' <= Budget'
  BY <1>0, <1>1, RuntimeFacts, OwedShrinks DEF RebootInv
<1>4. Passing' /\ waiting' => asked' + 1 <= Budget' /\ ("mstconfig" \in backendsFor)'
  <2>1. backendsFor' = backendsFor
    BY <1>1, SameJob
  <2> QED BY <1>0, <1>1, <1>2, <2>1, RuntimeFacts, SMT DEF RebootInv
<1>5. ASSUME ~enforce', ("mstconfig" \in backendsFor)'
      PROVE  /\ \/ \A q \in PortSet : Checked(q)' /\ Applies(q, "maxVFs")' => StoredFor(q, "maxVFs")'
                \/ asked' + 1 + Cost' <= Budget'
             /\ \/ \A q \in PortSet : Checked(q)' /\ Applies(q, "enabled")' => StoredFor(q, "enabled")'
                \/ asked' + 2 <= Budget'
  <2>1. ~enforce /\ "mstconfig" \in backendsFor /\ Passing
    BY <1>1, <1>5, RuntimeFacts, SameJob
  <2>2. \A q, s : (Checked(q)' <=> Checked(q)) /\ (Applies(q, s)' <=> Applies(q, s)) /\ (StoredFor(q, s)' <=> StoredFor(q, s))
    BY <1>1, RuntimeFacts, SameJob, SameFirmware
  <2>3. /\ \/ \A q \in PortSet : Checked(q) /\ Applies(q, "maxVFs") => StoredFor(q, "maxVFs")
           \/ asked + 1 + Cost <= Budget
        /\ \/ \A q \in PortSet : Checked(q) /\ Applies(q, "enabled") => StoredFor(q, "enabled")
           \/ asked + 2 <= Budget
    BY <2>1, <1>0 DEF RebootInv
  <2>4. /\ asked + 1 + Cost <= Budget => asked' + 1 + Cost' <= Budget'
        /\ asked + 2 <= Budget => asked' + 2 <= Budget'
    BY <1>1, <1>2, SMT
  <2> QED BY <2>2, <2>3, <2>4
<1>6. verifyReboot' => waiting'
  BY <1>0, <1>1, RuntimeFacts DEF RebootInv
<1>7. RebootInv'
  BY <1>3, <1>4, <1>5, <1>6 DEF RebootInv
<1>8. \A p \in PortSet : running'[Cell(p, "agent")'] = stored'[Cell(p, "agent")']
  BY <1>0, <1>1 DEF KexecInv, Cell, scopeKey, adapterScoped
<1>9. ASSUME NEW c \in mine'
      PROVE  \E p \in PortSet, s \in Settings :
                /\ c = Cell(p, s)' /\ Applies(p, s)'
                /\ StoredFor(p, s)' \/ (s = "enabled" /\ \E q \in PortSet : OpposedPorts(p, q)')
  <2>1. PICK p \in PortSet, s \in Settings :
            /\ c = Cell(p, s) /\ Applies(p, s)
            /\ StoredFor(p, s) \/ (s = "enabled" /\ \E q \in PortSet : OpposedPorts(p, q))
    BY <1>0, <1>1, <1>9 DEF KexecInv
  <2>2. Cell(p, s)' = Cell(p, s)
    BY DEF Cell, scopeKey, adapterScoped
  <2> QED BY <2>1, <2>2, <1>1, SameJob, SameFirmware
<1>10. ASSUME ~enforce', ~resReboot', NEW q \in PortSet, Checked(q)', Profile(q)'.drift = "apply",
             NEW s \in WantedSettings(q)' \ {"param", "agent"}
       PROVE  Shown(q, s)'
  <2>1. ~enforce /\ ~resReboot /\ Checked(q) /\ Profile(q).drift = "apply" /\ s \in WantedSettings(q) /\ Passing
    BY <1>1, <1>10, RuntimeFacts, SameJob
  <2> QED BY <2>1, <1>0, <1>1, <1>10, SameValues DEF KexecInv
<1>11. ~AfterPass' /\ spc' # "kexec"
  BY RuntimeFacts DEF AfterPass
<1>12. KexecInv'
  BY <1>8, <1>9, <1>10, <1>11 DEF KexecInv
<1> QED BY <1>7, <1>12

(* The state of a device while its calls run.                                *)
Modes == {"legacy", "switchdev"}
Calling == [cur : Nat, mode : Modes, errs : SUBSET {"numVFs", "eswitch"}, changed : BOOLEAN, eswSet : BOOLEAN]

(* One call of SetNumVFs.                                                    *)
LEMMA SetVFs ==
    ASSUME NEW x \in Calling, NEW n \in Nat, NEW fails
    PROVE  /\ setVFs(x, n, fails) \in Calling
           /\ setVFs(x, n, fails).mode = x.mode /\ setVFs(x, n, fails).eswSet = x.eswSet
<1>1. [x EXCEPT !.errs = @ \cup {"numVFs"}] \in Calling /\ [x EXCEPT !.cur = n, !.changed = TRUE] \in Calling
  BY DEF Calling
<1>2. /\ [x EXCEPT !.errs = @ \cup {"numVFs"}].mode = x.mode /\ [x EXCEPT !.errs = @ \cup {"numVFs"}].eswSet = x.eswSet
      /\ [x EXCEPT !.cur = n, !.changed = TRUE].mode = x.mode /\ [x EXCEPT !.cur = n, !.changed = TRUE].eswSet = x.eswSet
  BY DEF Calling
<1> QED BY <1>1, <1>2 DEF setVFs

(* The calls that set the eSwitch mode.                                      *)
LEMMA ApplyEswitch ==
    ASSUME NEW x \in Calling, NEW want \in {""} \cup Modes, NEW bad
    PROVE  /\ applyEswitch(x, want, bad) \in Calling
           /\ want \in {"", x.mode} => applyEswitch(x, want, bad) = x
<1> DEFINE off == IF x.cur # 0 THEN setVFs(x, 0, bad = "off") ELSE x
<1>1. off \in Calling
  BY SetVFs
<1> HIDE DEF off
<1>2. CASE want \in {"", x.mode}
  BY <1>2 DEF applyEswitch
<1>3. CASE want \notin {"", x.mode}
  <2>1. [off EXCEPT !.errs = @ \cup {"eswitch"}] \in Calling
    BY <1>1 DEF Calling
  <2>2. [off EXCEPT !.mode = want, !.changed = TRUE, !.eswSet = TRUE] \in Calling
    BY <1>1, <1>3 DEF Calling
  <2>3. applyEswitch(x, want, bad) \in
            {off, [off EXCEPT !.errs = @ \cup {"eswitch"}], [off EXCEPT !.mode = want, !.changed = TRUE, !.eswSet = TRUE]}
    BY <1>3 DEF applyEswitch, off
  <2> QED BY <1>1, <1>3, <2>1, <2>2, <2>3
<1> QED BY <1>2, <1>3

(* The calls that set the VF count.                                          *)
LEMMA ApplyCount ==
    ASSUME NEW x \in Calling, NEW n \in {Unset} \cup Nat, NEW bad
    PROVE  /\ applyCount(x, n, bad) \in Calling
           /\ applyCount(x, n, bad).mode = x.mode /\ applyCount(x, n, bad).eswSet = x.eswSet
           /\ n \in {Unset, x.cur} => applyCount(x, n, bad) = x
<1> DEFINE off == IF x.cur = 0 \/ n = 0 THEN x ELSE setVFs(x, 0, bad = "off")
<1>1. off \in Calling /\ off.mode = x.mode /\ off.eswSet = x.eswSet
  BY SetVFs, SMT
<1> HIDE DEF off
<1>2. CASE n \in {Unset, x.cur}
  BY <1>2 DEF applyCount
<1>3. CASE n \notin {Unset, x.cur}
  <2>1. n \in Nat
    BY <1>3
  <2>2. LET y == setVFs(off, n, bad = "count") IN y \in Calling /\ y.mode = x.mode /\ y.eswSet = x.eswSet
    BY <2>1, <1>1, SetVFs
  <2>3. applyCount(x, n, bad) \in {off, setVFs(off, n, bad = "count")}
    BY <1>3 DEF applyCount, off
  <2> QED BY <1>1, <1>3, <2>2, <2>3
<1> QED BY <1>2, <1>3

(* All calls on a device: one in use keeps its mode, and its count unless    *)
(* the driver leaves the PF alone.                                           *)
LEMMA ConfiguredFacts ==
    ASSUME SType, NEW d \in PortSet, Want(d).vfs \in {Unset} \cup Nat, Want(d).eswitch \in {""} \cup Modes, NEW bad
    PROVE  /\ Configured(d, bad) \in Calling
           /\ InUse(d) => /\ Configured(d, bad).mode = esw[d] /\ ~Configured(d, bad).eswSet
                          /\ Configured(d, bad).changed \/ Configured(d, bad).cur # vfs[d] => LeavesPF
<1> DEFINE x0 == [cur |-> vfs[d], mode |-> esw[d], errs |-> {}, changed |-> FALSE, eswSet |-> FALSE]
           x1 == IF "eswitch" \in guardInUse(d) THEN x0 ELSE applyEswitch(x0, Want(d).eswitch, bad)
           x2 == IF "numVFs" \in guardInUse(d) THEN x1 ELSE applyCount(x1, Want(d).vfs, bad)
<1>1. x0 \in Calling
  BY DEF SType, Calling, Modes
<1>2. x0.cur = vfs[d] /\ x0.mode = esw[d] /\ ~x0.changed /\ ~x0.eswSet
  OBVIOUS
<1>3. Configured(d, bad) = x2
  BY DEF Configured
<1> HIDE DEF x0
<1>4. x1 \in Calling
  BY <1>1, ApplyEswitch
<1>5. InUse(d) => x1 = x0
  <2>1. ASSUME InUse(d), Want(d).eswitch \notin {"", esw[d]} PROVE "eswitch" \in guardInUse(d)
    BY <2>1 DEF guardInUse
  <2>2. Want(d).eswitch \in {"", esw[d]} => applyEswitch(x0, Want(d).eswitch, bad) = x0
    BY <1>1, <1>2, ApplyEswitch
  <2> QED BY <2>1, <2>2
<1> HIDE DEF x1
<1>6. x2 \in Calling
  BY <1>4, ApplyCount
<1> DEFINE y == applyCount(x1, Want(d).vfs, bad)
<1>7. y.mode = x1.mode /\ y.eswSet = x1.eswSet /\ (Want(d).vfs \in {Unset, x1.cur} => y = x1)
  BY <1>4, ApplyCount
<1>8. x2 = IF "numVFs" \in guardInUse(d) THEN x1 ELSE y
  OBVIOUS
<1> HIDE DEF x2, y
<1>9. ASSUME InUse(d) PROVE x2.mode = esw[d] /\ ~x2.eswSet
  <2>1. x1 = x0
    BY <1>5, <1>9
  <2>2. x2.mode = x1.mode /\ x2.eswSet = x1.eswSet
    BY <1>7, <1>8
  <2> QED BY <2>1, <2>2, <1>2
<1>10. ASSUME InUse(d), ~LeavesPF PROVE x2 = x0
  <2>1. CASE Want(d).vfs \in {Unset, vfs[d]}
    BY <2>1, <1>2, <1>5, <1>10, <1>7, <1>8
  <2>2. CASE Want(d).vfs \notin {Unset, vfs[d]}
    <3>1. "numVFs" \in guardInUse(d)
      BY <2>2, <1>10 DEF guardInUse, LeavesPF
    <3> QED BY <3>1, <1>5, <1>10, <1>8
  <2> QED BY <2>1, <2>2
<1> QED BY <1>2, <1>3, <1>6, <1>9, <1>10

(* The devices of the runtime pass are those of ports with runtime settings. *)
LEMMA DeviceFacts ==
    ASSUME SType, NEW d \in RuntimeDevices
    PROVE  /\ d \in PortSet /\ LeadOf(d) \in RuntimeAll /\ Device(LeadOf(d)) = d
           /\ Want(d).vfs \in {Unset} \cup Nat /\ Want(d).eswitch \in {""} \cup Modes
           /\ ~sj.shared => LeadOf(d) = d
<1>1. PICK p \in RuntimePorts : d = Device(p)
  BY DEF RuntimeDevices
<1>2. p \in RuntimeAll /\ p \in PortSet
  BY <1>1 DEF RuntimePorts, RuntimeAll
<1>3. d \in PortSet
  BY <1>1, <1>2 DEF Device, PortSet
<1>4. LeadOf(d) \in RuntimeAll /\ Device(LeadOf(d)) = d
  <2>1. CASE p = "p0"
    BY <2>1, <1>1, <1>2 DEF LeadOf
  <2>2. CASE p = "p1"
    BY <2>2, <1>1, <1>2 DEF LeadOf
  <2> QED BY <2>1, <2>2, <1>2 DEF PortSet
<1>5. Profile(LeadOf(d)) \in ProfileType
  BY <1>4, ProfileFacts DEF RuntimeAll
<1>6. Want(d).vfs \in {Unset} \cup Nat /\ Want(d).eswitch \in {""} \cup Modes
  BY <1>5 DEF Want, ProfileType, Modes
<1>7. ~sj.shared => LeadOf(d) = d
  BY <1>4 DEF Device
<1> QED BY <1>3, <1>4, <1>6, <1>7

(* The sets of the type invariant follow from the job.                       *)
LEMMA SameTypes ==
    ASSUME SType, RuntimePass, vfs' \in [PortSet -> Nat], esw' \in [PortSet -> Modes], left2do' \subseteq PortSet,
           spc' \in {"apply", "reset"} => /\ DOMAIN dev' \subseteq RuntimeDevices /\ left2do' \subseteq DOMAIN dev'
                                          /\ dev' \in [DOMAIN dev' -> DevRecords]
    PROVE  SType'
<1>1. UNCHANGED <<sj, stored, running, clash, waiting, resReboot, fwChanged, asked, foreign>>
  BY DEF RuntimePass
<1>2. sfaults' \in Nat
  BY SMT DEF RuntimePass, SType
<1>3. clash' = adapterConflicts' /\ spc' # "firmware" /\ RuntimeDevices' = RuntimeDevices
  BY <1>1, RuntimeFacts, SameJob, SameDevices DEF SType, RuntimePass
<1>4. Cells' = Cells /\ PortSet' = PortSet
  BY SMT DEF Cells, Cell, scopeKey, adapterScoped, PortSet, Settings
<1>5. spc' \in {"apply", "reset"} => /\ DOMAIN dev' \subseteq RuntimeDevices' /\ left2do' \subseteq DOMAIN dev'
                                     /\ dev' \in [DOMAIN dev' -> DevRecords]
  BY <1>3
<1> HIDE DEF RuntimeDevices
<1> QED BY <1>1, <1>2, <1>3, <1>4, <1>5, Zenon DEF SType, Modes, DevRecords

(* The start of the runtime pass keeps the invariant.                        *)
LEMMA RuntimeBeginsKeeps ==
    ASSUME SInv, RuntimeBegins
    PROVE  SInv'
<1> DEFINE devices == IF deferDevices THEN {} ELSE RuntimeDevices
           conflicts == {<<Profile(p).drift, "failed">> : p \in RuntimeAll \ RuntimePorts}
           deferred == {<<Profile(p).drift, "deferred">> : p \in IF deferDevices THEN RuntimePorts ELSE {}}
<1>0. SType /\ ProvenInv
  BY DEF SInv
<1>1. /\ spc = "firmware" /\ left2do = {} /\ found' = found \cup conflicts \cup deferred
      /\ dev' = [d \in devices |-> [vfs |-> vfs[d], esw |-> esw[d], changed |-> FALSE, eswSet |-> FALSE,
                                    errs |-> {}, refused |-> {}]]
      /\ left2do' = devices /\ spc' = IF devices = {} THEN "enforce" ELSE "apply"
      /\ UNCHANGED <<sj, stored, running, vfs, esw, jfile, jmem, clash, waiting, resReboot, proven, fwChanged, asked, foreign, sfaults, mine>>
  BY DEF RuntimeBegins, nicvars
<1>2. deferDevices <=> waiting
  BY DEF deferDevices
<1>3. RuntimePass
  <2>1. \A f \in found' : f[2] = "deferred" => f \in found \/ waiting
    <3> SUFFICES ASSUME NEW f \in found', f[2] = "deferred", f \notin found, ~waiting PROVE FALSE
      OBVIOUS
    <3>1. f \in conflicts \/ f \in deferred
      BY <1>1
    <3> QED BY <3>1, <1>2, SMT
  <2>2. spc' \in {"apply", "enforce"}
    BY <1>1
  <2> QED BY <1>1, <2>1, <2>2 DEF RuntimePass
<1>4. devices \subseteq RuntimeDevices /\ devices \subseteq PortSet
  BY <1>0, DeviceFacts
<1>5. SType'
  <2>1. vfs \in [PortSet -> Nat] /\ esw \in [PortSet -> Modes]
    BY <1>0 DEF SType, Modes
  <2>2. dev' \in [devices -> DevRecords] /\ DOMAIN dev' = devices
    BY <1>1, <1>4, <2>1 DEF DevRecords, Modes
  <2> HIDE DEF devices
  <2> QED BY <1>0, <1>1, <1>3, <1>4, <2>1, <2>2, SameTypes
<1>6. RebootInv' /\ KexecInv'
  BY <1>3, RuntimeKeeps
<1>7. /\ \A p : (Checked(p)' <=> Assigned(p)) /\ (Checked(p) <=> Assigned(p)) /\ (LimitShown(p)' <=> LimitShown(p))
      /\ \A p : Enforced(p)' <=> Enforced(p)
      /\ RuntimeAll' = RuntimeAll /\ RuntimePorts' = RuntimePorts
      /\ enforce => enforce'
  BY <1>1, <1>3, RuntimeFacts, SameValues, SameDevices
<1>8. ~enforce' => \A p \in PortSet : Checked(p)' /\ Enforced(p)' => LimitShown(p)' \/ waiting'
  BY <1>0, <1>1, <1>3, <1>7, RuntimeFacts DEF ProvenInv
<1>9. ASSUME ~enforce', NEW p \in RuntimeAll', Enforced(p)' PROVE p \in RuntimePorts'
  <2>1. ASSUME p \notin RuntimePorts PROVE FALSE
    <3>1. <<Profile(p).drift, "failed">> \in found' /\ Profile(p).drift # "warn"
      BY <1>1, <1>7, <1>9, <2>1 DEF Enforced
    <3> QED BY <3>1, <1>9 DEF enforce, Good
  <2> QED BY <2>1, <1>7
<1>10. ASSUME waiting', RuntimePorts' # {} PROVE verifyReboot'
  <2>1. PICK p \in RuntimePorts : TRUE
    BY <1>7, <1>10
  <2>2. <<Profile(p).drift, "deferred">> \in found'
    BY <1>1, <1>2, <1>10, <2>1
  <2> QED BY <2>2 DEF verifyReboot
<1>11. spc' = "apply" => ~waiting'
  BY <1>1, <1>2
<1>12. spc' = "enforce" => waiting' \/ RuntimePorts' = {}
  <2>1. devices = {} => waiting \/ RuntimeDevices = {}
    BY <1>2
  <2> QED BY <1>1, <1>7, <2>1 DEF RuntimeDevices
<1>13. spc' \in {"apply", "enforce"}
  BY <1>1
<1>14. ProvenInv'
  BY <1>8, <1>9, <1>10, <1>11, <1>12, <1>13 DEF ProvenInv, ProvenBeforeDisk
<1>15. UplinkInv' /\ UplinkInv2'
  <2>1. \A d \in DOMAIN dev' : ~dev'[d].eswSet /\ ~dev'[d].changed
    BY <1>1
  <2> QED BY <2>1, <1>13 DEF UplinkInv, UplinkInv2
<1> QED BY <1>5, <1>6, <1>14, <1>15 DEF SInv

(* What the device under the calls becomes.                                  *)
LEMMA ApplyFacts ==
    ASSUME SInv, NEW d, NEW bad, applyDevice(d, bad)
    PROVE  /\ d \in DOMAIN dev /\ d \in RuntimeDevices /\ d \in PortSet /\ Configured(d, bad) \in Calling
           /\ vfs' = [vfs EXCEPT ![d] = Configured(d, bad).cur] /\ esw' = [esw EXCEPT ![d] = Configured(d, bad).mode]
           /\ dev' \in [DOMAIN dev -> DevRecords] /\ DOMAIN dev' = DOMAIN dev
           /\ dev'[d].changed = Configured(d, bad).changed /\ dev'[d].eswSet = Configured(d, bad).eswSet
           /\ \A e \in DOMAIN dev \ {d} : dev'[e] = dev[e]
<1>0. SType
  BY DEF SInv
<1>1. d \in DOMAIN dev /\ d \in RuntimeDevices
  BY <1>0 DEF applyDevice, SType, First, PortSet
<1>2. d \in PortSet /\ Configured(d, bad) \in Calling
  BY <1>0, <1>1, DeviceFacts, ConfiguredFacts
<1> DEFINE errs == Configured(d, bad).errs \cup (IF bad = "attr" \/ (~applyVFs(d, bad) /\ Want(d).vfs > 0) THEN {"attr"} ELSE {})
<1>3. /\ vfs' = [vfs EXCEPT ![d] = Configured(d, bad).cur] /\ esw' = [esw EXCEPT ![d] = Configured(d, bad).mode]
      /\ dev' = [dev EXCEPT ![d].errs = errs, ![d].changed = Configured(d, bad).changed, ![d].eswSet = Configured(d, bad).eswSet,
                            ![d].refused = guardInUse(d)]
  BY DEF applyDevice
<1>4. errs \subseteq {"numVFs", "eswitch", "attr"}
  BY <1>2 DEF Calling
<1>5. guardInUse(d) \subseteq {"numVFs", "eswitch"}
  BY DEF guardInUse
<1>6. dev \in [DOMAIN dev -> DevRecords]
  BY <1>0 DEF applyDevice, SType
<1>7. Configured(d, bad).changed \in BOOLEAN /\ Configured(d, bad).eswSet \in BOOLEAN
  BY <1>2 DEF Calling
<1> HIDE DEF errs
<1> DEFINE r == [dev[d] EXCEPT !.errs = errs, !.changed = Configured(d, bad).changed, !.eswSet = Configured(d, bad).eswSet,
                               !.refused = guardInUse(d)]
<1>8. r \in DevRecords /\ r.changed = Configured(d, bad).changed /\ r.eswSet = Configured(d, bad).eswSet
  BY <1>1, <1>4, <1>5, <1>6, <1>7 DEF DevRecords
<1>9. dev' = [dev EXCEPT ![d] = r]
  BY <1>1, <1>3, <1>6 DEF DevRecords
<1> HIDE DEF r
<1> QED BY <1>1, <1>2, <1>3, <1>6, <1>8, <1>9, SMT

(* applyDevice keeps the invariant.                                          *)
LEMMA ApplyKeeps ==
    ASSUME SInv, NEW d, NEW bad, applyDevice(d, bad)
    PROVE  SInv'
<1>0. SType /\ ProvenInv /\ UplinkInv
  BY DEF SInv
<1>1. /\ spc = "apply" /\ spc' = "apply" /\ left2do' = left2do \ {d}
      /\ UNCHANGED <<sj, stored, running, jfile, jmem, found, clash, waiting, resReboot, proven, fwChanged, asked, foreign, mine>>
  BY DEF applyDevice
<1>2. RuntimePass
  <2>1. sfaults' \in {sfaults, sfaults + 1}
    BY <1>0, SMT DEF applyDevice, Fault, SType
  <2> QED BY <1>1, <2>1 DEF RuntimePass
<1>3. SType'
  <2>1. vfs' \in [PortSet -> Nat] /\ esw' \in [PortSet -> Modes]
    BY <1>0, ApplyFacts DEF SType, Calling, Modes
  <2>2. left2do' \subseteq DOMAIN dev' /\ DOMAIN dev' \subseteq RuntimeDevices /\ dev' \in [DOMAIN dev' -> DevRecords]
    BY <1>0, <1>1, ApplyFacts DEF SType
  <2>3. left2do' \subseteq PortSet
    BY <1>0, <1>1 DEF SType
  <2> QED BY <1>0, <1>2, <2>1, <2>2, <2>3, SameTypes
<1>4. RebootInv' /\ KexecInv'
  BY <1>2, RuntimeKeeps
<1>5. /\ enforce' = enforce /\ verifyReboot' = verifyReboot /\ proven' = proven /\ waiting' = waiting /\ RuntimeAll' = RuntimeAll
      /\ RuntimePorts' = RuntimePorts
      /\ \A p : (Checked(p)' <=> Checked(p)) /\ (LimitShown(p)' <=> LimitShown(p)) /\ (Enforced(p)' <=> Enforced(p))
  BY <1>1, <1>2, RuntimeFacts, SameValues, SameDevices DEF enforce, verifyReboot
<1>6. ProvenInv'
  BY <1>0, <1>1, <1>2, <1>5, RuntimeFacts, SMT DEF ProvenInv, ProvenBeforeDisk
<1>7. UplinkInv' /\ UplinkInv2'
  <2>1. \A e : (InUse(e)' <=> InUse(e)) /\ (LeavesPF' <=> LeavesPF)
    BY <1>1, SameDevices DEF LeavesPF
  <2>2. ASSUME NEW e \in DOMAIN dev', InUse(e) PROVE ~dev'[e].eswSet /\ (dev'[e].changed => LeavesPF)
    <3>1. CASE e = d
      BY <3>1, <2>2, <1>0, ApplyFacts, ConfiguredFacts, DeviceFacts
    <3>2. CASE e # d
      BY <3>2, <2>2, <1>0, <1>1, ApplyFacts, SMT DEF UplinkInv
    <3> QED BY <3>1, <3>2
  <2> QED BY <1>1, <2>1, <2>2 DEF UplinkInv, UplinkInv2
<1> QED BY <1>3, <1>4, <1>6, <1>7 DEF SInv

(* verifyRuntime keeps the invariant.                                        *)
LEMMA VerifyKeeps ==
    ASSUME SInv, NEW seen \in BOOLEAN, verifyRuntime(seen)
    PROVE  SInv'
<1>0. SType /\ ProvenInv /\ UplinkInv
  BY DEF SInv
<1>1. /\ spc = "apply" /\ spc' = "reset" /\ left2do' = {d \in DOMAIN dev : dev[d].changed /\ ~Want(d).keep}
      /\ found' = found \cup UNION {{<<Profile(p).drift, st>> : st \in deviceStatuses(Device(p), seen)} : p \in RuntimePorts}
      /\ proven' = {p \in RuntimePorts : deviceStatuses(Device(p), seen) \subseteq {"ok"}}
      /\ UNCHANGED <<sj, stored, running, vfs, esw, jfile, jmem, clash, waiting, dev, resReboot, fwChanged, asked, foreign, mine>>
  BY DEF verifyRuntime, nicvars
<1>2. \A d : deviceStatuses(d, seen) \subseteq {"ok", "failed", "refused-in-use"}
  <2> SUFFICES ASSUME NEW d, NEW st \in deviceStatuses(d, seen) PROVE st \in {"ok", "failed", "refused-in-use"}
    OBVIOUS
  <2> DEFINE a == runtimeStatus(d, "eswitch", esw[d] = Want(d).eswitch)
             b == runtimeStatus(d, "numVFs", vfs[d] = Want(d).vfs)
             c == runtimeStatus(d, "attr", vfs[d] = Want(d).vfs)
  <2>1. {a, b, c} \subseteq {"ok", "failed", "refused-in-use"}
    BY DEF runtimeStatus
  <2>2. st \in {"failed", a, b, c}
    BY DEF deviceStatuses
  <2> HIDE DEF a, b, c
  <2> QED BY <2>1, <2>2
<1>3. RuntimePass
  <2>1. sfaults' \in {sfaults, sfaults + 1}
    BY <1>0, SMT DEF verifyRuntime, Fault, SType
  <2>2. \A f \in found' : f[2] = "deferred" => f \in found
    BY <1>1, <1>2, SMT
  <2> QED BY <1>1, <2>1, <2>2 DEF RuntimePass
<1>4. SType'
  <2>1. DOMAIN dev \subseteq RuntimeDevices /\ dev \in [DOMAIN dev -> DevRecords]
    BY <1>0, <1>1 DEF SType
  <2>2. left2do' \subseteq DOMAIN dev /\ left2do' \subseteq PortSet
    BY <1>0, <1>1, <2>1, DeviceFacts
  <2>3. vfs \in [PortSet -> Nat] /\ esw \in [PortSet -> Modes]
    BY <1>0 DEF SType, Modes
  <2> QED BY <1>0, <1>1, <1>3, <2>1, <2>2, <2>3, SameTypes
<1>5. RebootInv' /\ KexecInv'
  BY <1>3, RuntimeKeeps
<1>6. /\ RuntimeAll' = RuntimeAll /\ RuntimePorts' = RuntimePorts /\ (enforce => enforce') /\ (verifyReboot => verifyReboot')
      /\ \A p : (Checked(p)' <=> Checked(p)) /\ (LimitShown(p)' <=> LimitShown(p)) /\ (Enforced(p)' <=> Enforced(p))
      /\ Passing
  BY <1>1, <1>3, RuntimeFacts, SameValues, SameDevices
<1>7. ASSUME ~enforce', NEW p \in RuntimePorts, Enforced(p) PROVE p \in proven'
  <2>1. ASSUME NEW st \in deviceStatuses(Device(p), seen) PROVE st = "ok"
    <3>1. <<Profile(p).drift, st>> \in found' /\ Profile(p).drift # "warn"
      BY <1>1, <1>7, SMT DEF Enforced
    <3>2. st \in Good
      BY <3>1, <1>7 DEF enforce, Good
    <3> QED BY <3>2, <1>2 DEF Good
  <2> QED BY <2>1, <1>1
<1>8. ProvenInv'
  <2>1. ~enforce' => \A p \in PortSet : Checked(p)' /\ Enforced(p)' => LimitShown(p)' \/ waiting'
    BY <1>0, <1>1, <1>6 DEF ProvenInv
  <2>2. ~enforce' => \A p \in RuntimeAll' : Enforced(p)' => p \in RuntimePorts'
    BY <1>0, <1>1, <1>6 DEF ProvenInv
  <2>3. waiting' = FALSE
    BY <1>0, <1>1 DEF ProvenInv, SType
  <2> QED BY <1>1, <1>6, <1>7, <2>1, <2>2, <2>3 DEF ProvenInv, ProvenBeforeDisk
<1>9. UplinkInv' /\ UplinkInv2'
  <2>1. \A e : (InUse(e)' <=> InUse(e)) /\ (LeavesPF' <=> LeavesPF)
    BY <1>1, SameDevices DEF LeavesPF
  <2> QED BY <2>1, <1>0, <1>1 DEF UplinkInv, UplinkInv2
<1> QED BY <1>4, <1>5, <1>8, <1>9 DEF SInv

(* The state of a device that is taken back.                                 *)
Resetting == [cur : Nat, errs : SUBSET {"numVFs"}, changed : BOOLEAN]

(* One call of SetNumVFs of resetDevice.                                     *)
LEMMA ResetVFs ==
    ASSUME NEW x \in Resetting, NEW n \in Nat, NEW fails
    PROVE  setVFs(x, n, fails) \in Resetting
<1>1. [x EXCEPT !.errs = @ \cup {"numVFs"}] \in Resetting /\ [x EXCEPT !.cur = n, !.changed = TRUE] \in Resetting
  BY DEF Resetting
<1> QED BY <1>1 DEF setVFs

(* What resetDevice does to the device.                                      *)
LEMMA ResetFacts ==
    ASSUME SInv, NEW d, NEW bad, resetDevice(d, bad)
    PROVE  /\ d \in DOMAIN dev /\ d \in RuntimeDevices /\ d \in PortSet /\ dev[d].changed
           /\ \E n \in Nat : vfs' = [vfs EXCEPT ![d] = n]
           /\ \E m \in Modes : esw' = [esw EXCEPT ![d] = m] /\ (~dev[d].eswSet => m = esw[d])
           /\ found \subseteq found' /\ \A f \in found' : f[2] = "deferred" => f \in found
<1> DEFINE x0 == [cur |-> vfs[d], errs |-> {}, changed |-> TRUE]
           x1 == setVFs(x0, 0, bad = "off")
           back == IF dev[d].eswSet /\ bad # "eswitch" THEN dev[d].esw ELSE esw[d]
           x2 == IF dev[d].vfs > 0 THEN setVFs(x1, dev[d].vfs, bad = "count") ELSE x1
           ok == bad = "none" /\ x2.errs = {} /\ x2.cur = dev[d].vfs /\ back = dev[d].esw
<1>0. SType /\ UplinkInv2
  BY DEF SInv
<1>1. spc = "reset" /\ d \in left2do
  BY <1>0 DEF resetDevice, SType, First, PortSet
<1>2. d \in DOMAIN dev /\ d \in RuntimeDevices /\ dev[d].changed /\ dev[d] \in DevRecords
  BY <1>0, <1>1 DEF SType, UplinkInv2
<1>3. d \in PortSet
  BY <1>0, <1>2, DeviceFacts
<1>4. /\ vfs' = [vfs EXCEPT ![d] = x2.cur] /\ esw' = [esw EXCEPT ![d] = back]
      /\ found' = found \cup {<<Want(d).drift, IF ok THEN "ok" ELSE "failed">>}
  BY DEF resetDevice
<1>5. x0 \in Resetting
  BY <1>0, <1>3 DEF SType, Resetting
<1> HIDE DEF x0
<1>6. x1 \in Resetting
  BY <1>5, ResetVFs
<1> HIDE DEF x1
<1>7. x2 \in Resetting
  BY <1>2, <1>6, ResetVFs DEF DevRecords
<1> HIDE DEF x2, ok
<1>8. x2.cur \in Nat
  BY <1>7 DEF Resetting
<1>9. back \in Modes /\ (~dev[d].eswSet => back = esw[d])
  BY <1>0, <1>2, <1>3 DEF SType, DevRecords, Modes
<1> HIDE DEF back
<1>10. \A f \in found' : f[2] = "deferred" => f \in found
  BY <1>4, SMT
<1> QED BY <1>2, <1>3, <1>4, <1>8, <1>9, <1>10

(* resetDevice keeps the invariant.                                          *)
LEMMA ResetKeeps ==
    ASSUME SInv, NEW d, NEW bad, resetDevice(d, bad)
    PROVE  SInv'
<1>0. SType /\ ProvenInv /\ UplinkInv /\ UplinkInv2
  BY DEF SInv
<1>1. /\ spc = "reset" /\ spc' = "reset" /\ left2do' = left2do \ {d} /\ left2do # {}
      /\ UNCHANGED <<sj, stored, running, jfile, jmem, clash, waiting, dev, resReboot, proven, fwChanged, asked, foreign, mine>>
  BY DEF resetDevice
<1>2. RuntimePass
  <2>1. sfaults' \in {sfaults, sfaults + 1}
    BY <1>0, SMT DEF resetDevice, Fault, SType
  <2> QED BY <1>1, <2>1, ResetFacts DEF RuntimePass
<1>3. SType'
  <2>1. vfs' \in [PortSet -> Nat] /\ esw' \in [PortSet -> Modes]
    <3>1. vfs \in [PortSet -> Nat] /\ esw \in [PortSet -> Modes]
      BY <1>0 DEF SType, Modes
    <3>2. PICK n \in Nat : vfs' = [vfs EXCEPT ![d] = n]
      BY ResetFacts
    <3>3. PICK m \in Modes : esw' = [esw EXCEPT ![d] = m]
      BY ResetFacts
    <3> QED BY <3>1, <3>2, <3>3
  <2>2. DOMAIN dev \subseteq RuntimeDevices /\ dev \in [DOMAIN dev -> DevRecords] /\ left2do \subseteq DOMAIN dev /\ left2do \subseteq PortSet
    BY <1>0, <1>1 DEF SType
  <2> QED BY <1>0, <1>1, <1>2, <2>1, <2>2, SameTypes
<1>4. RebootInv' /\ KexecInv'
  BY <1>2, RuntimeKeeps
<1>5. /\ RuntimeAll' = RuntimeAll /\ RuntimePorts' = RuntimePorts /\ (enforce => enforce') /\ (verifyReboot => verifyReboot')
      /\ \A p : (Checked(p)' <=> Checked(p)) /\ (LimitShown(p)' <=> LimitShown(p)) /\ (Enforced(p)' <=> Enforced(p))
      /\ Passing
  BY <1>1, <1>2, RuntimeFacts, SameValues, SameDevices
<1>6. ProvenInv'
  <2>1. ~enforce' => \A p \in PortSet : Checked(p)' /\ Enforced(p)' => LimitShown(p)' \/ waiting'
    BY <1>0, <1>1, <1>5 DEF ProvenInv
  <2>2. ~enforce' => \A p \in RuntimeAll' : Enforced(p)' => p \in RuntimePorts'
    BY <1>0, <1>1, <1>5 DEF ProvenInv
  <2>3. waiting' = FALSE
    BY <1>0, <1>1 DEF ProvenInv, SType
  <2>4. ~enforce' => \A p \in RuntimePorts' : Enforced(p)' => p \in proven'
    BY <1>0, <1>1, <1>5 DEF ProvenInv
  <2> QED BY <1>1, <2>1, <2>2, <2>3, <2>4 DEF ProvenInv, ProvenBeforeDisk
<1>7. UplinkInv' /\ UplinkInv2'
  <2>1. \A e : (InUse(e)' <=> InUse(e)) /\ (LeavesPF' <=> LeavesPF)
    BY <1>1, SameDevices DEF LeavesPF
  <2> QED BY <2>1, <1>0, <1>1 DEF UplinkInv, UplinkInv2
<1> QED BY <1>3, <1>4, <1>6, <1>7 DEF SInv

(* A step outside of the reconcile that leaves the adapter alone.            *)
LEMMA OutsideKeeps ==
    ASSUME SInv, UNCHANGED <<sj, stored, running, vfs, esw, foreign, mine, left2do, waiting, resReboot>>,
           ~Passing', asked' \in Nat, fwChanged' \in BOOLEAN, sfaults' \in {sfaults, sfaults + 1},
           asked' + Owed' <= Budget', spc' = "kexec" => ~fwChanged', ProvenBeforeDisk',
           AfterPass' /\ ~fwChanged' => \A p \in PortSet : Assigned(p) /\ Profile(p).drift = "apply" =>
                                            \A s \in WantedSettings(p) \ {"param", "agent"} : Shown(p, s)
    PROVE  SInv'
<1>0. SType /\ KexecInv
  BY DEF SInv
<1>1. spc' \notin {"firmware", "apply", "reset", "enforce"}
  BY DEF Passing
<1>2. SType'
  <2>1. sfaults' \in Nat
    BY <1>0, SMT DEF SType
  <2> QED BY <1>0, <1>1, <2>1, SMT DEF SType, Passing, Cells, Cell, scopeKey, adapterScoped, PortSet, Settings
<1>3. RebootInv'
  BY DEF RebootInv
<1>4. ProvenInv'
  BY <1>1 DEF ProvenInv, Passing
<1>5. UplinkInv' /\ UplinkInv2'
  BY <1>1 DEF UplinkInv, UplinkInv2
<1>6. KexecInv'
  <2>1. \A p \in PortSet : running'[Cell(p, "agent")'] = stored'[Cell(p, "agent")']
    BY <1>0 DEF KexecInv, Cell, scopeKey, adapterScoped
  <2>2. ASSUME NEW c \in mine'
        PROVE  \E p \in PortSet, s \in Settings :
                /\ c = Cell(p, s)' /\ Applies(p, s)'
                /\ StoredFor(p, s)' \/ (s = "enabled" /\ \E q \in PortSet : OpposedPorts(p, q)')
    <3>1. PICK p \in PortSet, s \in Settings :
            /\ c = Cell(p, s) /\ Applies(p, s)
            /\ StoredFor(p, s) \/ (s = "enabled" /\ \E q \in PortSet : OpposedPorts(p, q))
      BY <1>0, <2>2 DEF KexecInv
    <3>2. Cell(p, s)' = Cell(p, s)
      BY DEF Cell, scopeKey, adapterScoped
    <3> QED BY <3>1, <3>2, SameJob, SameFirmware
  <2>3. AfterPass' /\ ~fwChanged' => \A p \in PortSet : Assigned(p)' /\ Profile(p)'.drift = "apply" =>
            \A s \in WantedSettings(p)' \ {"param", "agent"} : Shown(p, s)'
    BY SameJob, SameValues
  <2> QED BY <2>1, <2>2, <2>3 DEF KexecInv
<1> QED BY <1>2, <1>3, <1>4, <1>5, <1>6 DEF SInv

(* configureSRIOV keeps the invariant: it spends a reboot that was owed.     *)
LEMMA ConfigureKeeps ==
    ASSUME SInv, configureSRIOV
    PROVE  SInv'
<1>0. SType /\ RebootInv /\ KexecInv /\ ProvenInv
  BY DEF SInv
<1>1. /\ UNCHANGED <<sj, stored, running, vfs, esw, jfile, jmem, foreign, sfaults, mine, left2do, found, waiting, resReboot, proven>>
      /\ spc \in {"enforce", "reset"} /\ fwChanged' = (fwChanged \/ resReboot)
      /\ spc' = IF enforce THEN "failed"
                ELSE IF ~verifyReboot \/ ~sj.verify THEN "disk"
                ELSE IF ~sj.url THEN "failed" ELSE "rebooting"
      /\ asked' = IF spc' = "rebooting" THEN asked + 1 ELSE asked
  BY DEF configureSRIOV, nicvars, passvars
<1>2. spc' \in {"failed", "disk", "rebooting"} /\ Passing /\ \A p : Checked(p) <=> Assigned(p)
  BY <1>1 DEF Passing, Checked
<1>3. ~Passing' /\ asked' \in Nat /\ fwChanged' \in BOOLEAN
  BY <1>0, <1>1, <1>2, SMT DEF Passing, SType
<1>4. asked' + Owed' <= Budget'
  <2>1. CASE spc' # "rebooting"
    <3>1. asked' = asked /\ spc # "rebooting" /\ sfaults' \in {sfaults, sfaults + 1}
      BY <1>1, <2>1
    <3> QED BY <1>0, <1>1, <3>1, OwedShrinks DEF RebootInv
  <2>2. CASE spc' = "rebooting"
    <3>1. ~enforce /\ verifyReboot /\ asked' = asked + 1
      BY <1>1, <2>2
    <3>2. waiting /\ "mstconfig" \in backendsFor
      BY <1>0, <1>2, <3>1 DEF RebootInv
    <3>3. asked + 1 <= Budget
      BY <1>0, <1>2, <3>2 DEF RebootInv
    <3>4. \A s : Settled(s) <=> \A p \in PortSet : Checked(p) /\ Applies(p, s) => StoredFor(p, s)
      BY <1>2 DEF Settled, Applies
    <3>5. (Settled("maxVFs") \/ asked + 1 + Cost <= Budget) /\ (Settled("enabled") \/ asked + 2 <= Budget)
      BY <1>0, <1>2, <3>1, <3>2, <3>4 DEF RebootInv
    <3>6. Cost' = Cost /\ Budget' = Budget
      BY <1>1, SameJob DEF Budget, Cost
    <3>7. Owed' = IF ~Settled("maxVFs") THEN Cost ELSE IF ~Settled("enabled") THEN 1 ELSE 0
      BY <1>1, <2>2, <3>6, SameFirmware DEF Owed
    <3>8. asked \in Nat /\ Cost \in {1, 2} /\ Budget \in Nat
      BY <1>0, CostFacts DEF SType
    <3> QED BY <3>1, <3>3, <3>5, <3>6, <3>7, <3>8, SMT
  <2> QED BY <2>1, <2>2
<1>5. spc' # "kexec"
  BY <1>2
<1>6. AfterPass' /\ ~fwChanged' => \A p \in PortSet : Assigned(p) /\ Profile(p).drift = "apply" =>
                                        \A s \in WantedSettings(p) \ {"param", "agent"} : Shown(p, s)
  <2>1. AfterPass' /\ ~fwChanged' => ~enforce /\ ~resReboot
    BY <1>1 DEF AfterPass
  <2> QED BY <1>0, <1>2, <2>1 DEF KexecInv
<1>7. ProvenBeforeDisk'
  <2> SUFFICES ASSUME spc' = "disk", sj.verify, NEW p \in RuntimeAll, Profile(p).drift # "warn"
               PROVE  p \in proven /\ LimitShown(p)
    <3>1. RuntimeAll' = RuntimeAll /\ \A p : Profile(p)' = Profile(p) /\ (LimitShown(p)' <=> LimitShown(p))
      BY <1>1, SameDevices, SameJob, SameValues
    <3> QED BY <1>1, <1>2, <3>1 DEF ProvenBeforeDisk, LimitShown
  <2>1. ~enforce /\ ~verifyReboot
    BY <1>1
  <2>2. Enforced(p) /\ p \in PortSet /\ Checked(p)
    BY <1>2 DEF Enforced, RuntimeAll
  <2>3. p \in RuntimePorts
    BY <1>0, <1>1, <2>1, <2>2 DEF ProvenInv
  <2>4. ~waiting
    BY <1>0, <1>1, <2>1, <2>3 DEF ProvenInv
  <2>5. spc = "reset"
    BY <1>0, <1>1, <2>3, <2>4 DEF ProvenInv
  <2>6. LimitShown(p)
    BY <1>0, <1>2, <2>1, <2>2, <2>4 DEF ProvenInv
  <2>7. p \in proven
    BY <1>0, <2>1, <2>2, <2>3, <2>5 DEF ProvenInv
  <2> QED BY <2>6, <2>7
<1>8. sfaults' \in {sfaults, sfaults + 1} /\ UNCHANGED <<sj, stored, running, vfs, esw, foreign, mine, left2do, waiting, resReboot>>
  BY <1>1
<1> QED BY <1>3, <1>4, <1>5, <1>6, <1>7, <1>8, OutsideKeeps

(* The steps after it and a new attempt keep the invariant.                  *)
LEMMA LaterKeeps ==
    ASSUME SInv, LaterStepFails \/ Handoff \/ \E same \in BOOLEAN : Again(same)
    PROVE  SInv'
<1>0. SType /\ RebootInv /\ KexecInv /\ ProvenInv
  BY DEF SInv
<1>1. /\ UNCHANGED <<sj, stored, running, vfs, esw, jfile, jmem, foreign, asked, mine, left2do, waiting, resReboot, proven>>
      /\ sfaults' \in {sfaults, sfaults + 1} /\ spc \in {"disk", "failed"} /\ spc' \in {"failed", "kexec", "reset-host", "mellanox"}
      /\ fwChanged' \in BOOLEAN /\ (AfterPass' => AfterPass /\ fwChanged' = fwChanged)
      /\ (spc' = "kexec" => ~fwChanged')
  <2>1. CASE LaterStepFails
    BY <2>1, <1>0 DEF LaterStepFails, nicvars, passvars, Fault, SType, AfterPass
  <2>2. CASE Handoff
    BY <2>2, <1>0 DEF Handoff, nicvars, passvars, SType, AfterPass
  <2>3. CASE \E same \in BOOLEAN : Again(same)
    BY <2>3, <1>0 DEF Again, nicvars, passvars, SType, AfterPass
  <2> QED BY <2>1, <2>2, <2>3
<1>2. ~Passing' /\ spc # "rebooting" /\ asked' \in Nat
  BY <1>0, <1>1 DEF Passing, SType
<1>3. asked' + Owed' <= Budget'
  BY <1>0, <1>1, <1>2, OwedShrinks DEF RebootInv
<1>4. ProvenBeforeDisk'
  <2>1. RuntimeAll' = RuntimeAll /\ totalVFs' = totalVFs /\ \A p : Profile(p)' = Profile(p)
    BY <1>1, SameDevices, SameJob, SameValues
  <2>2. ProvenBeforeDisk
    BY <1>0 DEF ProvenInv
  <2> QED BY <1>1, <2>1, <2>2 DEF ProvenBeforeDisk, AfterPass
<1>5. AfterPass' /\ ~fwChanged' => \A p \in PortSet : Assigned(p) /\ Profile(p).drift = "apply" =>
                                        \A s \in WantedSettings(p) \ {"param", "agent"} : Shown(p, s)
  BY <1>0, <1>1, SMT DEF KexecInv
<1> QED BY <1>1, <1>2, <1>3, <1>4, <1>5, OutsideKeeps

(* setup-mellanox leaves the adapter to the profiles that set its VFs.       *)
LEMMA MellanoxKeeps ==
    ASSUME SInv, setupMellanox
    PROVE  SInv'
<1> DEFINE E == Cell("p0", "enabled")
           V == Cell("p0", "maxVFs")
<1>0. SType /\ RebootInv /\ KexecInv
  BY DEF SInv
<1>1. /\ UNCHANGED <<sj, running, vfs, esw, jfile, jmem, foreign, asked, mine, left2do, waiting, resReboot>>
      /\ sfaults' \in {sfaults, sfaults + 1} /\ spc = "mellanox" /\ spc' \in {"discover", "failed"}
      /\ fwChanged' \in BOOLEAN
  BY <1>0 DEF setupMellanox, passvars, Fault, SType
<1>2. ~Passing' /\ ~AfterPass' /\ spc' # "kexec" /\ asked' \in Nat /\ ProvenBeforeDisk' /\ spc # "rebooting"
  BY <1>0, <1>1 DEF Passing, AfterPass, SType, ProvenBeforeDisk
<1>3. CASE stored' = stored
  <2>1. asked' + Owed' <= Budget'
    BY <1>0, <1>1, <1>2, <1>3, OwedShrinks DEF RebootInv
  <2> QED BY <1>1, <1>2, <1>3, <2>1, OutsideKeeps
<1>4. CASE stored' # stored
  <2>1. /\ ~OwnsMellanoxVFs /\ sj.driver = "mlx5_core"
        /\ stored' = [stored EXCEPT ![V] = sj.numVFs, ![E] = IF sj.raise THEN @ ELSE 1]
    BY <1>4 DEF setupMellanox
  <2>2. ASSUME NEW p, NEW s \in {"enabled", "maxVFs"} PROVE ~Applies(p, s)
    <3> SUFFICES ASSUME Applies(p, s) PROVE FALSE
      OBVIOUS
    <3>1. Assigned(p) /\ Profile(p).fw[s] # Unset
      BY DEF Applies, WantedSettings
    <3>2. PICK a \in DOMAIN sj.profiles : Profile(p) = sj.profiles[a]
      BY <1>0, <3>1, ProfileFacts
    <3>3. sj.profiles[a].connectX
      BY <1>0, <2>1, <3>1, <3>2, ProfileFacts
    <3> QED BY <2>1, <2>2, <3>1, <3>2, <3>3 DEF OwnsMellanoxVFs
  <2>3. V \in Cells /\ E \in Cells /\ V # E /\ sj.numVFs \in Nat
    <3>1. sj.numVFs \in Nat
      BY <1>0, SriovAssumption DEF SType
    <3> QED BY <3>1, CellFacts DEF PortSet, Settings
  <2>4. stored' \in [Cells -> Nat]
    BY <1>0, <2>1, <2>3 DEF SType
  <2>5. \A c \in Cells \ {V, E} : stored'[c] = stored[c]
    BY <1>0, <2>1, <2>3 DEF SType
  <2>6. \A p \in PortSet, s \in Settings \ {"enabled", "maxVFs"} : Cell(p, s) \in Cells \ {V, E}
    BY CellFacts DEF PortSet, Settings
  <2>7. SType'
    <3>1. sfaults' \in Nat
      BY <1>0, <1>1, SMT DEF SType
    <3>2. Cells' = Cells /\ PortSet' = PortSet
      BY SMT DEF Cells, Cell, scopeKey, adapterScoped, PortSet, Settings
    <3>3. spc' \notin {"firmware", "apply", "reset"}
      BY <1>1
    <3> HIDE DEF V, E
    <3> QED BY <1>0, <1>1, <1>2, <2>4, <3>1, <3>2, <3>3 DEF SType
  <2>8. Settled("maxVFs") /\ Settled("enabled") /\ Settled("maxVFs")' /\ Settled("enabled")'
    BY <1>1, <2>2, SameJob DEF Settled
  <2>9. asked' + Owed' <= Budget'
    <3>1. Owed = (IF Journaled THEN 1 ELSE 0) /\ Owed' = (IF Journaled' THEN 1 ELSE 0)
      BY <1>1, <1>2, <2>8 DEF Owed
    <3>2. Journaled' <=> Journaled
      BY <1>1 DEF Journaled
    <3>3. Budget' \in Nat /\ Budget' >= Budget /\ Budget \in Nat /\ asked \in Nat
      BY <1>0, <1>1, BudgetGrows, CostFacts DEF SType
    <3> QED BY <1>0, <1>1, <3>1, <3>2, <3>3, SMT DEF RebootInv
  <2>10. KexecInv'
    <3>1. \A p \in PortSet : running'[Cell(p, "agent")'] = stored'[Cell(p, "agent")']
      <4>1. "agent" \in Settings \ {"enabled", "maxVFs"} /\ \A p : Cell(p, "agent")' = Cell(p, "agent")
        BY DEF Settings, Cell, scopeKey, adapterScoped
      <4> QED BY <1>0, <1>1, <2>5, <2>6, <4>1 DEF KexecInv
    <3>2. ASSUME NEW c \in mine'
          PROVE  \E p \in PortSet, s \in Settings :
                /\ c = Cell(p, s)' /\ Applies(p, s)'
                /\ StoredFor(p, s)' \/ (s = "enabled" /\ \E q \in PortSet : OpposedPorts(p, q)')
      <4>1. PICK p \in PortSet, s \in Settings :
            /\ c = Cell(p, s) /\ Applies(p, s)
            /\ StoredFor(p, s) \/ (s = "enabled" /\ \E q \in PortSet : OpposedPorts(p, q))
        BY <1>0, <1>1, <3>2 DEF KexecInv
      <4>2. s \notin {"enabled", "maxVFs"} /\ StoredFor(p, s)
        BY <4>1, <2>2
      <4>3. Cell(p, s)' = Cell(p, s) /\ stored'[Cell(p, s)] = stored[Cell(p, s)]
        BY <4>2, <2>5, <2>6 DEF Cell, scopeKey, adapterScoped
      <4>4. StoredFor(p, s)' /\ Applies(p, s)'
        BY <1>1, <4>1, <4>2, <4>3, SameJob DEF StoredFor
      <4> QED BY <4>1, <4>3, <4>4
    <3> QED BY <1>2, <3>1, <3>2 DEF KexecInv
  <2>11. RebootInv' /\ ProvenInv'
    BY <1>1, <1>2, <2>9 DEF RebootInv, ProvenInv
  <2>12. UplinkInv' /\ UplinkInv2'
    BY <1>1 DEF UplinkInv, UplinkInv2
  <2> QED BY <2>7, <2>10, <2>11, <2>12 DEF SInv
<1> QED BY <1>3, <1>4

(* The start of the reconcile keeps the invariant.                           *)
LEMMA DiscoverKeeps ==
    ASSUME SInv, Discover
    PROVE  SInv'
<1>0. SType /\ RebootInv /\ KexecInv
  BY DEF SInv
<1>1. /\ UNCHANGED <<sj, stored, running, vfs, esw, jfile, foreign, asked, mine, fwChanged>>
      /\ sfaults' \in {sfaults, sfaults + 1} /\ spc = "discover" /\ spc' \in {"disk", "failed", "firmware"}
      /\ jmem' = jfile /\ waiting' = FALSE /\ resReboot' = FALSE
      /\ spc' = "disk" => sj.profiles = <<>>
      /\ spc' # "firmware" => left2do' = {}
      /\ spc' = "firmware" => /\ left2do' = {p \in PortSet : Assigned(p)} /\ found' = MatchFindings
                              /\ clash' = adapterConflicts
  BY <1>0 DEF Discover, nicvars, Fault, SType
<1>2. SType'
  <2>1. sfaults' \in Nat
    BY <1>0, <1>1, SMT DEF SType
  <2>2. Cells' = Cells /\ PortSet' = PortSet
    BY SMT DEF Cells, Cell, scopeKey, adapterScoped, PortSet, Settings
  <2>3. left2do' \subseteq PortSet /\ (spc' = "firmware" => \A p \in left2do' : Assigned(p)')
    BY <1>1, SameJob
  <2>4. Passing' => clash' = adapterConflicts'
    BY <1>1, SameJob DEF Passing
  <2> QED BY <1>0, <1>1, <2>1, <2>2, <2>3, <2>4 DEF SType
<1>3. asked' + Owed' <= Budget'
  BY <1>0, <1>1, OwedShrinks DEF RebootInv
<1>4. \A p \in PortSet : ~Checked(p)'
  BY <1>1, SameJob DEF Checked, Passing
<1>5. spc' = "firmware" => ~verifyReboot'
  BY <1>1, SMT DEF verifyReboot, MatchFindings
<1>6. Passing' => spc' = "firmware"
  BY <1>1 DEF Passing
<1>7. RebootInv'
  BY <1>1, <1>3, <1>4, <1>5, <1>6 DEF RebootInv
<1>8. KexecInv'
  <2>1. \A p \in PortSet : running'[Cell(p, "agent")'] = stored'[Cell(p, "agent")']
    BY <1>0, <1>1 DEF KexecInv, Cell, scopeKey, adapterScoped
  <2>2. ASSUME NEW c \in mine'
        PROVE  \E p \in PortSet, s \in Settings :
                /\ c = Cell(p, s)' /\ Applies(p, s)'
                /\ StoredFor(p, s)' \/ (s = "enabled" /\ \E q \in PortSet : OpposedPorts(p, q)')
    <3>1. PICK p \in PortSet, s \in Settings :
            /\ c = Cell(p, s) /\ Applies(p, s)
            /\ StoredFor(p, s) \/ (s = "enabled" /\ \E q \in PortSet : OpposedPorts(p, q))
      BY <1>0, <1>1, <2>2 DEF KexecInv
    <3>2. Cell(p, s)' = Cell(p, s)
      BY DEF Cell, scopeKey, adapterScoped
    <3> QED BY <3>1, <3>2, <1>1, SameJob, SameFirmware
  <2>3. AfterPass' => \A p \in PortSet : ~Assigned(p)'
    <3>1. sj.profiles = <<>> => \A p : ~Assigned(p)
      BY SMT DEF Assigned
    <3> QED BY <1>1, <3>1, SameJob DEF AfterPass
  <2>4. spc' # "kexec"
    BY <1>1
  <2> QED BY <2>1, <2>2, <2>3, <2>4, <1>4 DEF KexecInv
<1>9. ProvenInv'
  BY <1>1, <1>4 DEF ProvenInv, ProvenBeforeDisk
<1>10. UplinkInv' /\ UplinkInv2'
  BY <1>1 DEF UplinkInv, UplinkInv2
<1> QED BY <1>2, <1>7, <1>8, <1>9, <1>10 DEF SInv

(* A reset of the host keeps the invariant: a change by others pays for the  *)
(* reboots that it causes.                                                   *)
LEMMA RebootKeeps ==
    ASSUME SInv, NEW cycle \in BOOLEAN, NEW other \in 1 .. MaxValue, Reboot(cycle, other)
    PROVE  SInv'
<1> DEFINE V == Cell("p0", "maxVFs")
<1>0. SType /\ RebootInv /\ KexecInv
  BY DEF SInv
<1>1. /\ UNCHANGED <<sj, asked, sfaults, left2do, waiting, resReboot>>
      /\ stored' = [stored EXCEPT ![V] = other] /\ spc' = "mellanox"
      /\ foreign' = IF other = stored[V] THEN foreign ELSE foreign + 1
      /\ running' = [c \in Cells |-> IF sj.cold /\ ~cycle /\ runtimeAffecting(c[2]) THEN running[c] ELSE stored'[c]]
      /\ vfs' = [d \in PortSet |-> 0] /\ esw' = [d \in PortSet |-> "legacy"]
      /\ jfile' = {} /\ jmem' = {} /\ mine' = {} /\ fwChanged' = FALSE
  BY DEF Reboot, passvars
<1>2. other \in Nat /\ V \in Cells
  <2>1. MaxValue \in Nat
    BY SriovAssumption
  <2> QED BY <2>1, CellFacts, SMT DEF PortSet, Settings
<1> HIDE DEF V
<1>3. stored' \in [Cells -> Nat]
  BY <1>0, <1>1, <1>2 DEF SType
<1>4. running' \in [Cells -> Nat]
  <2>1. \A c \in Cells : running[c] \in Nat /\ stored'[c] \in Nat
    BY <1>0, <1>3 DEF SType
  <2> QED BY <1>1, <2>1
<1>5. SType'
  <2>1. foreign' \in Nat
    BY <1>0, <1>1, SMT DEF SType
  <2>2. Cells' = Cells /\ PortSet' = PortSet
    BY SMT DEF Cells, Cell, scopeKey, adapterScoped, PortSet, Settings
  <2>3. ~Passing'
    BY <1>1 DEF Passing
  <2>4. vfs' \in [PortSet -> Nat] /\ esw' \in [PortSet -> {"legacy", "switchdev"}]
    BY <1>1
  <2> QED BY <1>0, <1>1, <1>3, <1>4, <2>1, <2>2, <2>3, <2>4 DEF SType
<1>6. asked' + Owed' <= Budget'
  <2>1. ~Journaled'
    BY <1>1 DEF Journaled
  <2>2. /\ Cost' = Cost /\ Budget' \in Nat /\ Budget' >= Budget /\ (foreign' # foreign => Budget' >= Budget + Cost)
        /\ Cost \in {1, 2} /\ Budget \in Nat /\ Owed \in {0, 1, 2} /\ asked \in Nat
        /\ ~Settled("maxVFs") => Owed = Cost
        /\ ~Settled("enabled") => Owed >= 1
    BY <1>0, <1>1, BudgetGrows, CostFacts DEF SType
  <2>3. Owed' = IF ~Settled("maxVFs")' THEN Cost ELSE IF ~Settled("enabled")' THEN 1 ELSE 0
    BY <2>1, <2>2 DEF Owed
  <2>4. asked + Owed <= Budget /\ asked' = asked
    BY <1>0, <1>1 DEF RebootInv
  <2>5. CASE other = stored[V]
    <3>1. stored' = stored
      BY <1>0, <1>1, <1>2, <2>5 DEF SType
    <3>2. \A s : Settled(s)' <=> Settled(s)
      BY <1>1, <3>1, SameFirmware
    <3>3. Owed' <= Owed /\ Owed' \in Nat /\ Owed \in Nat
      BY <2>2, <2>3, <3>2, SMT
    <3> QED BY <2>2, <2>4, <3>3, Sums
  <2>6. CASE other # stored[V]
    <3>1. foreign' # foreign
      BY <1>0, <1>1, <2>6, SMT DEF SType
    <3>2. Owed' <= Cost /\ Owed' \in Nat /\ Owed \in Nat /\ Cost \in Nat
      BY <2>2, <2>3, SMT
    <3> QED BY <2>2, <2>4, <3>1, <3>2, Sums
  <2> QED BY <2>5, <2>6
<1>7. RebootInv' /\ ProvenInv'
  BY <1>1, <1>6 DEF RebootInv, ProvenInv, Passing, ProvenBeforeDisk
<1>8. KexecInv'
  <2>1. \A p \in PortSet : running'[Cell(p, "agent")'] = stored'[Cell(p, "agent")']
    <3>1. \A p \in PortSet : /\ Cell(p, "agent") \in Cells /\ Cell(p, "agent")' = Cell(p, "agent")
                             /\ ~runtimeAffecting(Cell(p, "agent")[2])
      BY SMT DEF Cells, Cell, scopeKey, adapterScoped, Settings, runtimeAffecting
    <3> QED BY <1>1, <3>1
  <2> QED BY <1>1, <2>1 DEF KexecInv, Passing, AfterPass
<1>9. UplinkInv' /\ UplinkInv2'
  BY <1>1 DEF UplinkInv, UplinkInv2
<1> QED BY <1>5, <1>7, <1>8, <1>9 DEF SInv

(* A stuttering step keeps the invariant.                                    *)
LEMMA SStutters ==
    ASSUME SInv, UNCHANGED svars
    PROVE  SInv'
<1>0. SType /\ RebootInv /\ KexecInv /\ ProvenInv /\ UplinkInv /\ UplinkInv2
  BY DEF SInv
<1>1. UNCHANGED <<sj, stored, running, vfs, esw, jfile, jmem, spc, left2do, found, clash, waiting, dev, resReboot,
                  proven, fwChanged, asked, foreign, sfaults, mine>>
  BY DEF svars, nicvars, passvars
<1>2. /\ Passing' <=> Passing
      /\ AfterPass' <=> AfterPass
      /\ enforce' <=> enforce
      /\ verifyReboot' <=> verifyReboot
      /\ Journaled' <=> Journaled
      /\ LeavesPF' <=> LeavesPF
      /\ \A p : Checked(p)' <=> Checked(p)
      /\ \A p, s : Cell(p, s)' = Cell(p, s)
      /\ Cells' = Cells /\ PortSet' = PortSet /\ DevRecords' = DevRecords
  <2>1. Passing' <=> Passing
    BY <1>1 DEF Passing
  <2>2. \A p : Checked(p)' <=> Checked(p)
    BY <1>1, <2>1, SameJob DEF Checked
  <2>3. (enforce' <=> enforce) /\ (verifyReboot' <=> verifyReboot) /\ (Journaled' <=> Journaled)
    BY <1>1 DEF enforce, verifyReboot, Journaled
  <2>4. Cells' = Cells /\ PortSet' = PortSet /\ DevRecords' = DevRecords /\ \A p, s : Cell(p, s)' = Cell(p, s)
    BY SMT DEF Cells, Cell, scopeKey, adapterScoped, PortSet, Settings, DevRecords
  <2> QED BY <1>1, <2>1, <2>2, <2>3, <2>4 DEF AfterPass, LeavesPF
<1>3. Cost' = Cost /\ Budget' = Budget /\ Owed' = Owed
  <2>1. Cost' = Cost
    BY <1>1, SameJob DEF Cost
  <2> QED BY <1>1, <1>2, <2>1, SameFirmware DEF Budget, Owed
<1>4. SType'
  BY <1>0, <1>1, <1>2, SameJob, SameDevices DEF SType
<1>5. RebootInv'
  BY <1>0, <1>1, <1>2, <1>3, SameJob, SameFirmware DEF RebootInv
<1>6. KexecInv'
  BY <1>0, <1>1, <1>2, SameJob, SameFirmware, SameValues DEF KexecInv
<1>7. ProvenInv'
  BY <1>0, <1>1, <1>2, SameJob, SameDevices, SameValues DEF ProvenInv, ProvenBeforeDisk
<1>8. UplinkInv' /\ UplinkInv2'
  BY <1>0, <1>1, <1>2, SameDevices DEF UplinkInv, UplinkInv2
<1> QED BY <1>4, <1>5, <1>6, <1>7, <1>8 DEF SInv

(* The invariant holds at the start.                                         *)
LEMMA InitSInv == SriovInit => SInv
<1> SUFFICES ASSUME SriovInit PROVE SInv
  OBVIOUS
<1>1. /\ sj \in SriovJobs /\ running = stored /\ vfs = [d \in PortSet |-> 0] /\ esw = [d \in PortSet |-> "legacy"]
      /\ jfile = {} /\ jmem = {} /\ spc = "mellanox" /\ left2do = {} /\ waiting = FALSE /\ resReboot = FALSE
      /\ fwChanged = FALSE /\ asked = 0 /\ foreign = 0 /\ sfaults = 0 /\ mine = {}
  BY DEF SriovInit
<1>2. stored \in [Cells -> Nat]
  <2>1. stored \in [Cells -> 0 .. MaxValue] /\ MaxValue \in Nat
    BY SriovAssumption DEF SriovInit
  <2> QED BY <2>1, SMT
<1>3. SType
  BY <1>1, <1>2 DEF SType, Passing
<1>4. RebootInv
  <2>1. Owed <= Cost /\ Owed \in {0, 1, 2} /\ Cost \in {1, 2}
    BY <1>3, CostFacts
  <2>2. Budget = Cost * (1 + 0 + 0)
    BY <1>1 DEF Budget
  <2> QED BY <1>1, <2>1, <2>2, SMT DEF RebootInv, Passing
<1>5. KexecInv /\ ProvenInv /\ UplinkInv /\ UplinkInv2
  BY <1>1 DEF KexecInv, ProvenInv, UplinkInv, UplinkInv2, Passing, AfterPass, ProvenBeforeDisk
<1> QED BY <1>3, <1>4, <1>5 DEF SInv

(* Every step keeps the invariant.                                           *)
LEMMA NextSInv == SInv /\ [SriovNext]_svars => SInv'
<1> SUFFICES ASSUME SInv, [SriovNext]_svars PROVE SInv'
  OBVIOUS
<1>1. CASE setupMellanox
  BY <1>1, MellanoxKeeps
<1>2. CASE Discover
  BY <1>2, DiscoverKeeps
<1>3. CASE \E p \in PortSet : firmware(p, "none", "ok")
  BY <1>3, FirmwareKeeps DEF FirmwareCall
<1>4. CASE \E p \in PortSet, b \in backendsFor, how \in {"unreadable", "fails", "unread"} : firmware(p, b, how)
  BY <1>4, FirmwareKeeps DEF FirmwareCall
<1>5. CASE RuntimeBegins
  BY <1>5, RuntimeBeginsKeeps
<1>6. CASE \E d \in PortSet, bad \in Calls \cup {"attr"} : applyDevice(d, bad)
  BY <1>6, ApplyKeeps
<1>7. CASE \E seen \in BOOLEAN : verifyRuntime(seen)
  BY <1>7, VerifyKeeps
<1>8. CASE \E d \in PortSet, bad \in Calls \cup {"unseen"} : resetDevice(d, bad)
  BY <1>8, ResetKeeps
<1>9. CASE configureSRIOV
  BY <1>9, ConfigureKeeps
<1>10. CASE LaterStepFails \/ Handoff \/ \E same \in BOOLEAN : Again(same)
  BY <1>10, LaterKeeps
<1>11. CASE \E cycle \in BOOLEAN, other \in 1 .. MaxValue : Reboot(cycle, other)
  BY <1>11, RebootKeeps
<1>12. CASE UNCHANGED svars
  BY <1>12, SStutters
<1> QED BY <1>1, <1>2, <1>3, <1>4, <1>5, <1>6, <1>7, <1>8, <1>9, <1>10, <1>11, <1>12 DEF SriovNext

(* The invariant implies the property.                                       *)
LEMMA SInvMeans == SInv => FirmwareIsProven
<1> SUFFICES ASSUME SInv PROVE FirmwareIsProven
  OBVIOUS
<1>0. SType /\ RebootInv /\ KexecInv /\ ProvenInv
  BY DEF SInv
<1>1. NoRebootLoop
  <2>1. asked + Owed <= Budget /\ asked \in Nat /\ Owed \in Nat /\ Budget \in Nat
    BY <1>0, CostFacts, SMT DEF RebootInv, SType
  <2>2. asked <= Budget
    BY <2>1, SMT
  <2> QED BY <2>2 DEF NoRebootLoop, Budget, Cost
<1>2. ProvenBeforeDisk
  BY <1>0 DEF ProvenInv
<1>3. KexecOnlyWhenActive
  <2> SUFFICES ASSUME spc = "kexec", NEW c \in mine, c[2] # "param" PROVE Shows(c) = stored[c]
    BY DEF KexecOnlyWhenActive
  <2>1. PICK p \in PortSet, s \in Settings :
            /\ c = Cell(p, s) /\ Applies(p, s)
            /\ StoredFor(p, s) \/ (s = "enabled" /\ \E q \in PortSet : OpposedPorts(p, q))
    BY <1>0 DEF KexecInv
  <2>2. c[2] = s
    BY <2>1 DEF Cell
  <2>3. ASSUME NEW q \in PortSet, NEW t, Applies(q, t), t \notin {"param", "agent"} PROVE Shown(q, t)
    <3>1. AfterPass /\ ~fwChanged
      BY <1>0 DEF KexecInv, AfterPass
    <3> QED BY <1>0, <2>3, <3>1 DEF KexecInv, Applies
  <2>4. CASE s = "agent"
    BY <1>0, <2>1, <2>2, <2>4 DEF KexecInv, Shows, runtimeAffecting
  <2>5. CASE s # "agent" /\ StoredFor(p, s)
    BY <2>1, <2>2, <2>3, <2>5 DEF Shown, StoredFor
  <2>6. CASE s = "enabled" /\ \E q \in PortSet : OpposedPorts(p, q)
    <3>1. PICK q \in PortSet : OpposedPorts(p, q)
      BY <2>6
    <3>2. Shown(p, "enabled") /\ Profile(p).fw["enabled"] = 0
      BY <2>1, <2>3, <2>6, <3>1 DEF OpposedPorts
    <3>3. /\ Assigned(q) /\ Profile(q).drift = "apply" /\ Profile(q).fw["maxVFs"] > 0 /\ Profile(q).fw["maxVFs"] # Unset
      BY <3>1, SMT DEF OpposedPorts, Unset
    <3>4. Shown(q, "maxVFs")
      <4>1. AfterPass /\ ~fwChanged /\ "maxVFs" \in WantedSettings(q) \ {"param", "agent"}
        BY <1>0, <3>3 DEF KexecInv, AfterPass, WantedSettings, Settings
      <4> QED BY <1>0, <3>3, <4>1 DEF KexecInv
    <3>5. Shows(Cell(p, "enabled")) = IF totalVFs > 0 THEN 1 ELSE 0
      BY DEF Shows, Cell, runtimeAffecting, kernelActive
    <3>6. Shows(Cell(q, "maxVFs")) = totalVFs
      BY DEF Shows, Cell, runtimeAffecting, kernelActive
    <3>7. totalVFs > 0
      BY <3>3, <3>4, <3>6 DEF Shown
    <3> QED BY <3>2, <3>5, <3>7, SMT DEF Shown
  <2> QED BY <2>1, <2>2, <2>4, <2>5, <2>6
<1> QED BY <1>1, <1>2, <1>3 DEF FirmwareIsProven

(* What a step does to a port in use.                                        *)
LEMMA UplinkStep ==
    ASSUME SInv, [SriovNext]_svars, NEW p \in sj.uplink, sj.shared => p = LeadOf(Device(p)),
           spc # "mellanox", spc' # "mellanox"
    PROVE  /\ esw'[Device(p)] = esw[Device(p)]
           /\ vfs'[Device(p)] # vfs[Device(p)] => LeavesPF
<1>0. SType /\ UplinkInv
  BY DEF SInv
<1>1. p \in PortSet
  BY <1>0, SriovAssumption DEF SType
<1>2. ASSUME NEW d \in RuntimeDevices, d = Device(p) PROVE InUse(d)
  <2>1. CASE sj.shared
    BY <1>2, <2>1 DEF InUse
  <2>2. CASE ~sj.shared
    BY <1>0, <1>2, <2>2, DeviceFacts DEF InUse, Device
  <2> QED BY <2>1, <2>2
<1>3. vfs \in [PortSet -> Nat] /\ esw \in [PortSet -> Modes]
  BY <1>0 DEF SType, Modes
<1>4. ASSUME NEW d, NEW bad, applyDevice(d, bad)
      PROVE  esw'[Device(p)] = esw[Device(p)] /\ (vfs'[Device(p)] # vfs[Device(p)] => LeavesPF)
  <2>1. d \in RuntimeDevices /\ d \in PortSet
    BY <1>4, ApplyFacts
  <2>2. vfs' = [vfs EXCEPT ![d] = Configured(d, bad).cur] /\ esw' = [esw EXCEPT ![d] = Configured(d, bad).mode]
    BY <1>4 DEF applyDevice
  <2>3. CASE Device(p) = d
    <3>1. InUse(d)
      BY <1>2, <2>1, <2>3
    <3>2. Configured(d, bad).mode = esw[d] /\ (Configured(d, bad).cur # vfs[d] => LeavesPF)
      BY <1>0, <2>1, <3>1, DeviceFacts, ConfiguredFacts
    <3> QED BY <1>3, <2>1, <2>2, <2>3, <3>2
  <2>4. CASE Device(p) # d
    BY <1>3, <2>2, <2>4, SMT
  <2> QED BY <2>3, <2>4
<1>5. ASSUME NEW d, NEW bad, resetDevice(d, bad)
      PROVE  esw'[Device(p)] = esw[Device(p)] /\ (vfs'[Device(p)] # vfs[Device(p)] => LeavesPF)
  <2>1. d \in DOMAIN dev /\ d \in RuntimeDevices /\ d \in PortSet /\ dev[d].changed /\ spc = "reset"
    BY <1>5, ResetFacts DEF resetDevice
  <2>2. PICK n \in Nat : vfs' = [vfs EXCEPT ![d] = n]
    BY <1>5, ResetFacts
  <2>3. PICK m \in Modes : esw' = [esw EXCEPT ![d] = m] /\ (~dev[d].eswSet => m = esw[d])
    BY <1>5, ResetFacts
  <2>4. CASE Device(p) = d
    <3>1. ~dev[d].eswSet /\ LeavesPF
      BY <1>0, <1>2, <2>1, <2>4 DEF UplinkInv
    <3> QED BY <1>3, <2>1, <2>2, <2>3, <2>4, <3>1
  <2>5. CASE Device(p) # d
    BY <1>3, <2>2, <2>3, <2>5, SMT
  <2> QED BY <2>4, <2>5
<1>6. CASE vfs' = vfs /\ esw' = esw
  BY <1>6
<1>7. CASE ~(vfs' = vfs /\ esw' = esw)
  <2>1. \/ \E d \in PortSet, bad \in Calls \cup {"attr"} : applyDevice(d, bad)
        \/ \E d \in PortSet, bad \in Calls \cup {"unseen"} : resetDevice(d, bad)
    <3>1. ASSUME NEW q, NEW b, NEW how, firmware(q, b, how) PROVE vfs' = vfs /\ esw' = esw
      BY <3>1 DEF firmware
    <3>2. setupMellanox \/ Discover \/ RuntimeBegins \/ (\E seen \in BOOLEAN : verifyRuntime(seen)) => vfs' = vfs /\ esw' = esw
      BY DEF setupMellanox, Discover, RuntimeBegins, verifyRuntime, nicvars
    <3>3. configureSRIOV \/ LaterStepFails \/ Handoff => vfs' = vfs /\ esw' = esw
      BY DEF configureSRIOV, LaterStepFails, Handoff, nicvars
    <3>4. \A same : ~Again(same)
      BY DEF Again
    <3>5. \A cycle, other : ~Reboot(cycle, other)
      BY DEF Reboot
    <3>6. UNCHANGED svars => vfs' = vfs /\ esw' = esw
      BY DEF svars, nicvars
    <3> QED BY <1>7, <3>1, <3>2, <3>3, <3>4, <3>5, <3>6 DEF SriovNext
  <2> QED BY <2>1, <1>4, <1>5
<1> QED BY <1>6, <1>7

(* For every job: BOOTy asks for no more verify reboots than faults and       *)
(* changes by others explain, goes to the disks only with the runtime         *)
(* settings of every enforced profile seen in place (configureSRIOV), and     *)
(* kexecs only with the settings active that it stored in this boot          *)
(* (firmwareChanged, Handoff).                                              *)
THEOREM FirmwareIsProvenAlways == SriovSpec => []FirmwareIsProven
<1>1. SriovInit => SInv
  BY InitSInv
<1>2. SInv /\ [SriovNext]_svars => SInv'
  BY NextSInv
<1>3. SInv => FirmwareIsProven
  BY SInvMeans
<1> QED BY <1>1, <1>2, <1>3, PTL DEF SriovSpec

(* For every job: the runtime pass leaves the eSwitch mode of a port that     *)
(* carries the ramdisk network alone, and its VF count unless the driver      *)
(* leaves the PF alone (guardInUse), also when it takes its changes back      *)
(* (resetDevice).                                                           *)
THEOREM UplinkUndisturbedAlways == SriovSpec => UplinkUndisturbed
<1> DEFINE A == \A p \in sj.uplink : LET d == Device(p) IN
         (sj.shared => p = LeadOf(d)) /\ spc # "mellanox" /\ spc' # "mellanox" =>
            /\ esw'[d] = esw[d]
            /\ vfs'[d] # vfs[d] => sj.driver \in {"mlx5_core", "ice"} /\ ~(sj.driver = "mlx5_core" /\ sj.bonded)
<1>1. SriovInit => SInv
  BY InitSInv
<1>2. SInv /\ [SriovNext]_svars => SInv'
  BY NextSInv
<1>3. SInv /\ [SriovNext]_svars => [A]_svars
  BY UplinkStep DEF LeavesPF
<1> QED BY <1>1, <1>2, <1>3, PTL DEF SriovSpec, UplinkUndisturbed
=============================================================================
