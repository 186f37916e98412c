------------------------------- MODULE Sriov --------------------------------
(***************************************************************************)
(* The configure-sriov step (pkg/provision/sriov.go, pkg/sriov): the        *)
(* profiles of a host are checked against the PF ports of one adapter,      *)
(* drifted firmware settings are stored, the runtime settings are tried     *)
(* out and taken back, and the step ends with success, a failure or a       *)
(* verify reboot into the ramdisk.  setup-mellanox runs before it.          *)
(*                                                                         *)
(* The firmware keeps a stored value (for the next reset) and a running     *)
(* value of every setting.  An attempt can fail and run again in the same   *)
(* boot, with the same orchestrator (a rescue retry) or a new one (the next  *)
(* standby command), or after a reboot.  Values are small numbers; a VF     *)
(* attribute is set or not set.                                            *)
(***************************************************************************)
EXTENDS Integers

CONSTANTS
    SriovJobs,      \* what the host and its machine config are
    MaxValue,       \* bound on the firmware values that the host starts with
    MaxSriovFaults, \* bound on calls that fail
    MaxBoots,       \* bound on the boots of the ramdisk
    MaxForeign      \* bound on the firmware changes made outside of BOOTy

Unset == -1
PortSet == {"p0", "p1"}         \* PF ports of the adapter
First(S) == IF "p0" \in S THEN "p0" ELSE "p1"    \* of a set of ports sorted by interface name
Settings == {"enabled", "maxVFs", "nv", "param", "agent"}
Good == {"ok", "applied", "deferred"}   \* Finding.Compliant

(* A profile: the ports that it matches, its drift action, the firmware and  *)
(* runtime settings that it wants.  Config.Validate refuses other values.    *)
ProfileType ==
    {r \in [ports : SUBSET PortSet, drift : {"warn", "fail", "apply"}, fw : [Settings -> {Unset} \cup Nat],
            vfs : {Unset} \cup Nat, eswitch : {"", "legacy", "switchdev"}, keep : BOOLEAN,
            optional : BOOLEAN, connectX : BOOLEAN] : r.fw["enabled"] \in {Unset, 0, 1}}

(* A profile that matches a port of a ConnectX can match a ConnectX.         *)
ASSUME SriovAssumption ==
    /\ MaxValue \in Nat /\ MaxSriovFaults \in Nat /\ MaxBoots \in Nat /\ MaxForeign \in Nat
    /\ \A j \in SriovJobs :
        /\ j.uplink \subseteq PortSet /\ j.numVFs \in Nat
        /\ \A a \in DOMAIN j.profiles :
            /\ j.profiles[a] \in ProfileType
            /\ j.driver = "mlx5_core" /\ j.profiles[a].ports # {} => j.profiles[a].connectX

VARIABLES
    sj,         \* the job
    stored,     \* firmware values after the next reset
    running,    \* firmware values now
    vfs, esw,   \* sriov_numvfs and eSwitch mode of every device
    jfile,      \* the journal in the ramdisk
    jmem,       \* the journal of the running Reconciler
    spc,        \* where the attempt is
    left2do,    \* ports or devices that the current pass has not reached
    found,      \* the findings: <<drift action, status>>
    clash,      \* the conflicts of adapterConflicts
    waiting,    \* a runtime-affecting setting of the adapter waits for a reset
    dev,        \* runtimeDevice, for every device of the pass
    resReboot,  \* Result.Reboot
    fwChanged,  \* Orchestrator.firmwareChanged
    asked,      \* verify reboots so far
    boots, foreign, sfaults,
    proven,     \* history: ports whose runtime settings this attempt has seen in place
    mine        \* history: cells that configure-sriov stored in this boot

nicvars == <<stored, running, vfs, esw>>
passvars == <<left2do, found, clash, waiting, dev, resReboot, proven>>
svars == <<sj, nicvars, jfile, jmem, spc, passvars, fwChanged, asked, boots, foreign, sfaults, mine>>

-----------------------------------------------------------------------------
(* The adapter. *)
adapterScoped(s) == s \in {"enabled", "maxVFs", "nv"}
scopeKey(p, s) == IF adapterScoped(s) THEN "adapter" ELSE p
Cell(p, s) == <<scopeKey(p, s), s>>
Cells == {Cell(p, s) : p \in PortSet, s \in Settings}

Device(p) == IF sj.shared THEN "p0" ELSE p

(* sriov_totalvfs. *)
totalVFs == IF running[Cell("p0", "enabled")] = 1 THEN running[Cell("p0", "maxVFs")] ELSE 0

kernelActive(s) ==
    CASE s = "enabled" -> (IF totalVFs > 0 THEN 1 ELSE 0)
      [] s = "maxVFs"  -> totalVFs
      [] OTHER         -> Unset

(* The firmware backends of the ramdisk and what each reads and stores. *)
Owner(s) ==
    CASE s = "param" -> "devlink"
      [] s = "agent" -> "ethtool"
      [] OTHER       -> "mstconfig"

backendsFor ==
    {b \in {"devlink", "mstconfig", "ethtool"} :
        CASE b = "devlink"   -> sj.driver # "igb"
          [] b = "mstconfig" -> sj.driver = "mlx5_core" /\ sj.tools = "opensource" /\ ~sj.locked
          [] b = "ethtool"   -> sj.driver = "ice" /\ sj.tools = "opensource"}

resetsAtOnce(b) == b = "ethtool"

-----------------------------------------------------------------------------
(* The profiles.  Assign gives every PF port the profile that matches it. *)
Ambiguous == \E p \in PortSet : \E a, b \in DOMAIN sj.profiles :
                a # b /\ p \in sj.profiles[a].ports \cap sj.profiles[b].ports
Assigned(p) == \E a \in DOMAIN sj.profiles : p \in sj.profiles[a].ports
Profile(p) == sj.profiles[CHOOSE a \in DOMAIN sj.profiles : p \in sj.profiles[a].ports]
MatchFindings == {<<sj.profiles[a].drift,
                    IF sj.profiles[a].ports = {} /\ ~sj.profiles[a].optional THEN "drift" ELSE "ok">> :
                    a \in DOMAIN sj.profiles}
WantedSettings(p) == {s \in Settings : Profile(p).fw[s] # Unset}

adapterConflicts ==
    {s \in Settings : adapterScoped(s) /\ \E p, q \in PortSet :
        /\ Assigned(p) /\ Assigned(q)
        /\ s \in WantedSettings(p) \cap WantedSettings(q)
        /\ Profile(p).fw[s] # Profile(q).fw[s]}

OwnsMellanoxVFs ==
    \E a \in DOMAIN sj.profiles :
        /\ sj.profiles[a].fw["enabled"] # Unset \/ sj.profiles[a].fw["maxVFs"] # Unset
        /\ sj.profiles[a].connectX

hasRuntimeSettings(p) == Profile(p).vfs # Unset \/ Profile(p).eswitch # ""

-----------------------------------------------------------------------------
SriovInit ==
    /\ sj \in SriovJobs
    /\ stored \in {f \in [Cells -> 0 .. MaxValue] :
                    \A c \in Cells : CASE c[2] = "enabled" -> f[c] \in 0 .. 1
                                       [] c[2] = "maxVFs" -> f[c] \in 1 .. MaxValue
                                       [] c[2] = "agent" -> f[c] = 1
                                       [] OTHER -> f[c] = 0}
    /\ running = stored
    /\ vfs = [d \in PortSet |-> 0] /\ esw = [d \in PortSet |-> "legacy"]
    /\ jfile = {} /\ jmem = {} /\ spc = "mellanox"
    /\ left2do = {} /\ found = {} /\ clash = {} /\ waiting = FALSE /\ dev = <<>> /\ resReboot = FALSE
    /\ fwChanged = FALSE /\ asked = 0 /\ boots = 1 /\ foreign = 0 /\ sfaults = 0
    /\ proven = {} /\ mine = {}

Fault(n) == sfaults + n <= MaxSriovFaults /\ sfaults' = sfaults + n

(* setup-mellanox.  It drops `changed` when it ends with an error. *)
setupMellanox ==
    /\ spc = "mellanox"
    /\ \/ /\ \/ OwnsMellanoxVFs
             \/ sj.numVFs = 0
             \/ sj.raise /\ (sj.driver # "mlx5_core" \/ stored[Cell("p0", "maxVFs")] >= sj.numVFs)
          /\ spc' = "discover" /\ UNCHANGED <<stored, fwChanged, sfaults>>
       \/ /\ ~OwnsMellanoxVFs /\ sj.numVFs > 0 /\ ~sj.raise /\ sj.driver # "mlx5_core"
          /\ spc' = "failed" /\ UNCHANGED <<stored, fwChanged, sfaults>>
       \/ /\ ~OwnsMellanoxVFs /\ sj.numVFs > 0 /\ sj.driver = "mlx5_core"
          /\ sj.raise => stored[Cell("p0", "maxVFs")] < sj.numVFs
          /\ stored' = [stored EXCEPT ![Cell("p0", "maxVFs")] = sj.numVFs,
                                      ![Cell("p0", "enabled")] = IF sj.raise THEN @ ELSE 1]
          /\ \/ spc' = "discover" /\ fwChanged' = TRUE /\ UNCHANGED sfaults
             \/ spc' = "failed" /\ Fault(1) /\ UNCHANGED fwChanged
    /\ UNCHANGED <<sj, running, vfs, esw, jfile, jmem, passvars, asked, boots, foreign, mine>>

(* The start of Run: Discover and Assign. *)
Discover ==
    /\ spc = "discover"
    /\ jmem' = jfile /\ waiting' = FALSE /\ dev' = <<>> /\ resReboot' = FALSE /\ proven' = {}
    /\ \/ /\ sj.profiles = <<>> /\ spc' = "disk" /\ left2do' = {} /\ found' = {} /\ clash' = {}
          /\ UNCHANGED sfaults
       \/ /\ sj.profiles # <<>>
          /\ \/ Ambiguous /\ UNCHANGED sfaults
             \/ Fault(1)
          /\ spc' = "failed" /\ left2do' = {} /\ found' = {} /\ clash' = {}
       \/ /\ sj.profiles # <<>> /\ ~Ambiguous
          /\ spc' = "firmware" /\ left2do' = {p \in PortSet : Assigned(p)} /\ found' = MatchFindings
          /\ clash' = adapterConflicts
          /\ UNCHANGED sfaults
    /\ UNCHANGED <<sj, nicvars, jfile, fwChanged, asked, boots, foreign, mine>>

-----------------------------------------------------------------------------
(* Reconciler.firmware for one port. *)
itemStatus(want, st, act, storedThisBoot) ==
    IF st \notin {Unset, want} THEN "drift"
    ELSE IF act \notin {Unset, want}
         THEN IF st # want THEN "drift" ELSE IF storedThisBoot THEN "applied" ELSE "pending-reset"
    ELSE IF st = Unset /\ act = Unset THEN "unverified" ELSE "ok"

checkFirmware(p, s, readable) ==
    LET want == Profile(p).fw[s]
        read == Owner(s) \in readable
        st == IF read THEN stored[Cell(p, s)] ELSE Unset
        act == IF kernelActive(s) = Unset /\ s = "nv" /\ read THEN running[Cell(p, s)] ELSE kernelActive(s)
    IN  IF s \in clash THEN "failed"
        ELSE itemStatus(want, st, act, <<Cell(p, s), want>> \in jmem)

(* A VF limit needs SR-IOV on. *)
changeFor(p, drifted) ==
    {<<Cell(p, s), Profile(p).fw[s]>> : s \in drifted}
        \cup (IF "maxVFs" \in drifted /\ Profile(p).fw["enabled"] = Unset /\ Profile(p).fw["maxVFs"] > 0
              THEN {<<Cell(p, "enabled"), 1>>} ELSE {})

Stored(values, change) ==
    [c \in Cells |-> IF \E e \in change : e[1] = c
                     THEN (CHOOSE e \in change : e[1] = c)[2] ELSE values[c]]

Recorded(journal, entries) ==
    {e \in journal : \A f \in entries : f[1] # e[1]} \cup entries

runtimeAffecting(s) == s \in {"enabled", "maxVFs"}

(* Both a value stored now and one that the journal shows ask for a reboot. *)
firmwareReboot(p, readable, kept) ==
    \/ \E s \in WantedSettings(p) : checkFirmware(p, s, readable) = "applied"
    \/ \E s \in kept : ~resetsAtOnce(Owner(s))

(* One backend `bad` may misbehave: its read fails, its apply fails, the    *)
(* NIC does not keep the values, or they cannot be read back.               *)
Readable(bad, how) == backendsFor \ (IF how = "unreadable" THEN {bad} ELSE {})
Drifted(p, bad, how) ==
    {s \in WantedSettings(p) : Profile(p).drift = "apply" /\ checkFirmware(p, s, Readable(bad, how)) = "drift"}
Tried(p, bad, how) == {s \in Drifted(p, bad, how) : Owner(s) \in Readable(bad, how)}
Written(p, bad, how) == {s \in Tried(p, bad, how) : Owner(s) # bad \/ how = "unread"}
Kept(p, bad, how) == {s \in Tried(p, bad, how) : Owner(s) # bad}
Status(p, s, bad, how) ==
    IF s \in Kept(p, bad, how) THEN "applied"
    ELSE IF s \in Drifted(p, bad, how) THEN "failed" ELSE checkFirmware(p, s, Readable(bad, how))
AtOnce(S) == {s \in S : resetsAtOnce(Owner(s))}

firmware(p, bad, how) ==
    /\ spc = "firmware" /\ left2do # {} /\ p = First(left2do)
    /\ bad # "none" => \E s \in WantedSettings(p) : Owner(s) = bad
    /\ stored' = Stored(stored, changeFor(p, Written(p, bad, how)))
    /\ running' = Stored(running, changeFor(p, AtOnce(Written(p, bad, how))))
    /\ LET kept == Kept(p, bad, how)
       IN  /\ jmem' = Recorded(jmem, {<<Cell(p, s), Profile(p).fw[s]>> : s \in kept \ AtOnce(kept)})
           /\ resReboot' = (resReboot \/ firmwareReboot(p, Readable(bad, how), kept))
    /\ \/ jfile' = (IF jmem' = jmem THEN jfile ELSE jmem') /\ Fault(IF bad = "none" THEN 0 ELSE 1)
       \/ jmem' # jmem /\ bad = "none" /\ jfile' = jfile /\ Fault(1)
    /\ found' = found \cup {<<Profile(p).drift, Status(p, s, bad, how)>> : s \in WantedSettings(p)}
    /\ waiting' = (waiting \/ \E s \in WantedSettings(p) : runtimeAffecting(s) /\ Status(p, s, bad, how) = "applied")
    /\ mine' = mine \cup {Cell(p, s) : s \in Written(p, bad, how)}
    /\ left2do' = left2do \ {p}
    /\ UNCHANGED <<sj, vfs, esw, spc, clash, dev, proven, fwChanged, asked, boots, foreign>>

-----------------------------------------------------------------------------
(* The runtime pass.  A port that wants other values than the first port of *)
(* its device is left out.                                                 *)
SameRuntime(p, q) == Profile(p).vfs = Profile(q).vfs /\ Profile(p).eswitch = Profile(q).eswitch
RuntimeAll == {p \in PortSet : Assigned(p) /\ hasRuntimeSettings(p)}
LeadOf(d) == IF "p0" \in RuntimeAll /\ Device("p0") = d THEN "p0" ELSE "p1"
RuntimePorts == {p \in RuntimeAll : SameRuntime(p, LeadOf(Device(p)))}
RuntimeDevices == {Device(p) : p \in RuntimePorts}

Want(d) == Profile(LeadOf(d))

(* Mutant of deferDevices: the devices are set up before the reboot that   *)
(* their firmware settings wait for.                                       *)
deferDevices_Never == FALSE

(* Devices of adapters with a pending firmware change are left for later. *)
deferDevices == waiting

RuntimeBegins ==
    /\ spc = "firmware" /\ left2do = {}
    /\ LET devices == IF deferDevices THEN {} ELSE RuntimeDevices
           conflicts == {<<Profile(p).drift, "failed">> : p \in RuntimeAll \ RuntimePorts}
           deferred == {<<Profile(p).drift, "deferred">> : p \in IF deferDevices THEN RuntimePorts ELSE {}}
       IN  /\ found' = found \cup conflicts \cup deferred
           /\ dev' = [d \in devices |-> [vfs |-> vfs[d], esw |-> esw[d], changed |-> FALSE, eswSet |-> FALSE,
                                         errs |-> {}, refused |-> {}]]
           /\ left2do' = devices
           /\ spc' = IF devices = {} THEN "enforce" ELSE "apply"
    /\ UNCHANGED <<sj, nicvars, jfile, jmem, clash, waiting, resReboot, proven, fwChanged, asked, boots, foreign, sfaults, mine>>

InUse(d) == LeadOf(d) \in sj.uplink

(* Mutant of guardInUse: the VF count of a port in use is changed. *)
guardInUse_EswitchOnly(d) ==
    IF Want(d).eswitch \notin {"", esw[d]} /\ InUse(d) THEN {"eswitch"} ELSE {}

guardInUse(d) ==
    LET countChange == Want(d).vfs \notin {Unset, vfs[d]}
    IN  (IF Want(d).eswitch \notin {"", esw[d]} /\ InUse(d) THEN {"eswitch"} ELSE {})
        \cup (IF /\ countChange /\ InUse(d)
                 /\ sj.driver = "mlx5_core" => sj.bonded
                 /\ sj.driver # "ice"
              THEN {"numVFs"} ELSE {})

(* The state of a device while its calls run: SetNumVFs fails for more VFs  *)
(* than sriov_totalvfs and for a count other than 0 while VFs exist.        *)
setVFs(x, n, fails) ==
    IF fails \/ n > totalVFs \/ (n # 0 /\ x.cur # 0 /\ n # x.cur)
    THEN [x EXCEPT !.errs = @ \cup {"numVFs"}]
    ELSE [x EXCEPT !.cur = n, !.changed = TRUE]

applyEswitch(x, want, bad) ==
    IF want \in {"", x.mode} THEN x
    ELSE LET off == IF x.cur # 0 THEN setVFs(x, 0, bad = "off") ELSE x
         IN  IF off.cur # 0 THEN off
             ELSE IF bad = "eswitch" THEN [off EXCEPT !.errs = @ \cup {"eswitch"}]
             ELSE [off EXCEPT !.mode = want, !.changed = TRUE, !.eswSet = TRUE]

applyCount(x, n, bad) ==
    IF n \in {Unset, x.cur} THEN x
    ELSE LET off == IF x.cur = 0 \/ n = 0 THEN x ELSE setVFs(x, 0, bad = "off")
         IN  IF x.cur # 0 /\ n # 0 /\ off.cur # 0 THEN off ELSE setVFs(off, n, bad = "count")

Configured(d, bad) ==
    LET x0 == [cur |-> vfs[d], mode |-> esw[d], errs |-> {}, changed |-> FALSE, eswSet |-> FALSE]
        x1 == IF "eswitch" \in guardInUse(d) THEN x0 ELSE applyEswitch(x0, Want(d).eswitch, bad)
    IN  IF "numVFs" \in guardInUse(d) THEN x1 ELSE applyCount(x1, Want(d).vfs, bad)

applyVFs(d, bad) == "numVFs" \notin guardInUse(d) \cup Configured(d, bad).errs /\ Want(d).vfs > 0

applyDevice(d, bad) ==
    /\ spc = "apply" /\ left2do # {} /\ d = First(left2do)
    /\ bad = "attr" => applyVFs(d, bad)
    /\ vfs' = [vfs EXCEPT ![d] = Configured(d, bad).cur] /\ esw' = [esw EXCEPT ![d] = Configured(d, bad).mode]
    /\ dev' = [dev EXCEPT ![d].errs = Configured(d, bad).errs
                             \cup (IF bad = "attr" \/ (~applyVFs(d, bad) /\ Want(d).vfs > 0) THEN {"attr"} ELSE {}),
                          ![d].changed = Configured(d, bad).changed, ![d].eswSet = Configured(d, bad).eswSet,
                          ![d].refused = guardInUse(d)]
    /\ Fault(IF bad = "none" THEN 0 ELSE 1)
    /\ left2do' = left2do \ {d}
    /\ UNCHANGED <<sj, stored, running, jfile, jmem, spc, found, clash, waiting, resReboot, proven, fwChanged, asked, boots, foreign, mine>>

(* The ports are read again and compared with the profile. *)
runtimeStatus(d, setting, met) ==
    IF met /\ setting \notin dev[d].errs THEN "ok"
    ELSE IF setting \in dev[d].refused \/ (setting = "attr" /\ "numVFs" \in dev[d].refused) THEN "refused-in-use"
    ELSE "failed"

deviceStatuses(d, seen) ==
    IF ~seen THEN {"failed"}
    ELSE (IF Want(d).eswitch = "" THEN {} ELSE {runtimeStatus(d, "eswitch", esw[d] = Want(d).eswitch)})
         \cup (IF Want(d).vfs = Unset THEN {} ELSE {runtimeStatus(d, "numVFs", vfs[d] = Want(d).vfs)})
         \cup (IF Want(d).vfs <= 0 THEN {} ELSE {runtimeStatus(d, "attr", vfs[d] = Want(d).vfs)})

verifyRuntime(seen) ==
    /\ spc = "apply" /\ left2do = {}
    /\ found' = found \cup UNION {{<<Profile(p).drift, st>> : st \in deviceStatuses(Device(p), seen)} : p \in RuntimePorts}
    /\ proven' = {p \in RuntimePorts : deviceStatuses(Device(p), seen) \subseteq {"ok"}}
    /\ Fault(IF seen THEN 0 ELSE 1)
    /\ left2do' = {d \in DOMAIN dev : dev[d].changed /\ ~Want(d).keep}
    /\ spc' = "reset"
    /\ UNCHANGED <<sj, nicvars, jfile, jmem, clash, waiting, dev, resReboot, fwChanged, asked, boots, foreign, mine>>

(* resetDevice goes on after an error; the result is read and compared. *)
resetDevice(d, bad) ==
    /\ spc = "reset" /\ left2do # {} /\ d = First(left2do)
    /\ LET x0 == [cur |-> vfs[d], errs |-> {}, changed |-> TRUE]
           x1 == setVFs(x0, 0, bad = "off")
           mode == IF dev[d].eswSet /\ bad # "eswitch" THEN dev[d].esw ELSE esw[d]
           x2 == IF dev[d].vfs > 0 THEN setVFs(x1, dev[d].vfs, bad = "count") ELSE x1
           ok == bad = "none" /\ x2.errs = {} /\ x2.cur = dev[d].vfs /\ mode = dev[d].esw
       IN  /\ vfs' = [vfs EXCEPT ![d] = x2.cur] /\ esw' = [esw EXCEPT ![d] = mode]
           /\ found' = found \cup {<<Want(d).drift, IF ok THEN "ok" ELSE "failed">>}
    /\ Fault(IF bad = "none" THEN 0 ELSE 1)
    /\ left2do' = left2do \ {d}
    /\ UNCHANGED <<sj, stored, running, jfile, jmem, spc, clash, waiting, dev, resReboot, proven, fwChanged, asked, boots, foreign, mine>>

-----------------------------------------------------------------------------
(* enforce, and what configureSRIOV does with the result. *)
enforce == \E f \in found : f[1] # "warn" /\ f[2] \notin Good

verifyReboot == \E f \in found : f[2] = "deferred"

configureSRIOV ==
    /\ spc = "enforce" \/ (spc = "reset" /\ left2do = {})
    /\ fwChanged' = (fwChanged \/ resReboot)
    /\ spc' = IF enforce THEN "failed"
              ELSE IF ~verifyReboot \/ ~sj.verify THEN "disk"
              ELSE IF ~sj.url THEN "failed" ELSE "rebooting"
    /\ asked' = IF spc' = "rebooting" THEN asked + 1 ELSE asked
    /\ UNCHANGED <<sj, nicvars, jfile, jmem, passvars, boots, foreign, sfaults, mine>>

(* A later step of the run fails. *)
LaterStepFails ==
    /\ spc = "disk" /\ Fault(1) /\ spc' = "failed"
    /\ UNCHANGED <<sj, nicvars, jfile, jmem, passvars, fwChanged, asked, boots, foreign, mine>>

Handoff ==
    /\ spc = "disk" /\ spc' = IF fwChanged THEN "reset-host" ELSE "kexec"
    /\ UNCHANGED <<sj, nicvars, jfile, jmem, passvars, fwChanged, asked, boots, foreign, sfaults, mine>>

(* A rescue retry keeps the orchestrator, the next standby command has a    *)
(* new one.                                                                *)
Again(same) ==
    /\ spc = "failed" /\ spc' = "mellanox"
    /\ fwChanged' = (same /\ fwChanged)
    /\ UNCHANGED <<sj, nicvars, jfile, jmem, passvars, asked, boots, foreign, sfaults, mine>>

(* A reset of the host: a NIC with `cold` takes new VF limits only from a   *)
(* power cycle.  The OS on the disk may have run in between and changed the  *)
(* stored VF limit.                                                        *)
Reboot(cycle, other) ==
    /\ spc \in {"failed", "rebooting"} /\ boots < MaxBoots /\ boots' = boots + 1
    /\ stored' = [stored EXCEPT ![Cell("p0", "maxVFs")] = other]
    /\ foreign' = IF other = stored[Cell("p0", "maxVFs")] THEN foreign ELSE foreign + 1
    /\ foreign' <= MaxForeign
    /\ running' = [c \in Cells |-> IF sj.cold /\ ~cycle /\ runtimeAffecting(c[2]) THEN running[c] ELSE stored'[c]]
    /\ vfs' = [d \in PortSet |-> 0] /\ esw' = [d \in PortSet |-> "legacy"]
    /\ jfile' = {} /\ jmem' = {} /\ mine' = {} /\ fwChanged' = FALSE /\ spc' = "mellanox"
    /\ UNCHANGED <<sj, passvars, asked, sfaults>>

Calls == {"none", "off", "eswitch", "count"}

SriovNext ==
    \/ setupMellanox
    \/ Discover
    \/ \E p \in PortSet : firmware(p, "none", "ok")
    \/ \E p \in PortSet, b \in backendsFor, how \in {"unreadable", "fails", "unread"} : firmware(p, b, how)
    \/ RuntimeBegins
    \/ \E d \in PortSet, bad \in Calls \cup {"attr"} : applyDevice(d, bad)
    \/ \E seen \in BOOLEAN : verifyRuntime(seen)
    \/ \E d \in PortSet, bad \in Calls \cup {"unseen"} : resetDevice(d, bad)
    \/ configureSRIOV
    \/ LaterStepFails
    \/ Handoff
    \/ \E same \in BOOLEAN : Again(same)
    \/ \E cycle \in BOOLEAN, other \in 1 .. MaxValue : Reboot(cycle, other)

SriovSpec == SriovInit /\ [][SriovNext]_svars

-----------------------------------------------------------------------------
(* Two ports of the adapter whose profiles disagree on SR-IOV unseen by      *)
(* adapterConflicts: one turns it off, the VF limit of the other turns it on  *)
(* (changeFor).                                                             *)
OpposedPorts(p, q) ==
    /\ Assigned(p) /\ Assigned(q) /\ Profile(p).drift = "apply" /\ Profile(q).drift = "apply"
    /\ Profile(p).fw["enabled"] = 0
    /\ Profile(q).fw["enabled"] = Unset /\ Profile(q).fw["maxVFs"] > 0
Opposed == \E p, q \in PortSet : OpposedPorts(p, q)

(* BOOTy asks for one verify reboot, and for another one only after         *)
(* somebody else has changed the firmware or a call has failed: the settings  *)
(* that it stores are never undone by another port of the adapter or by      *)
(* setup-mellanox (Reconciler.firmware, adapterConflicts, OwnsMellanoxVFs).  *)
(* Opposed profiles cost one reboot more each time: the VF limit turns SR-IOV  *)
(* on and the other port turns it off again.                                 *)
NoRebootLoop == asked <= (IF Opposed THEN 2 ELSE 1) * (1 + foreign + sfaults)

(* The run goes on to the disks only with the runtime settings of every      *)
(* enforced profile seen in place in this boot, against firmware that runs    *)
(* with the wanted VF limit: a deferred check is made after the verify reboot *)
(* (deferDevices, verifyReboot, enforce).                                   *)
ProvenBeforeDisk ==
    spc \in {"disk", "kexec", "reset-host"} /\ sj.profiles # <<>> /\ sj.verify =>
        \A p \in RuntimeAll : Profile(p).drift # "warn" =>
            /\ p \in proven
            /\ Profile(p).fw["maxVFs"] \in {Unset, totalVFs}

(* What the host runs with: the kernel shows the enable and the VF limit.   *)
Shows(c) == IF runtimeAffecting(c[2]) THEN kernelActive(c[2]) ELSE running[c]

(* Kexec never starts the installed OS with a profile setting that BOOTy     *)
(* has stored in this boot and the host does not run with, also when the      *)
(* value was stored by an earlier attempt.  devlink parameters, whose active  *)
(* value BOOTy cannot read, are excepted.                                   *)
KexecOnlyWhenActive ==
    spc = "kexec" => \A c \in mine : c[2] # "param" => Shows(c) = stored[c]

(* A port that carries the ramdisk network keeps its eSwitch mode, and its    *)
(* VF count changes only with a driver that leaves the PF alone              *)
(* (guardInUse).  Of a device with several ports BOOTy asks for the first one *)
(* that has runtime settings only.                                          *)
UplinkUndisturbed ==
    [][\A p \in sj.uplink : LET d == Device(p) IN
         (sj.shared => p = LeadOf(d)) /\ spc # "mellanox" /\ spc' # "mellanox" =>
            /\ esw'[d] = esw[d]
            /\ vfs'[d] # vfs[d] => sj.driver \in {"mlx5_core", "ice"} /\ ~(sj.driver = "mlx5_core" /\ sj.bonded)]_svars

(* handoff: reset leaves the VFs as after a cold boot: "so the OS starts like *)
(* after a cold boot" (profile.go, HandoffReset).                           *)
StartsLikeColdBoot ==
    spc = "kexec" => \A p \in RuntimeAll : ~Want(Device(p)).keep /\ Profile(p).drift # "warn" =>
                        vfs[Device(p)] = 0 /\ esw[Device(p)] = "legacy"

(* The firmware settings become active before the run depends on them, and   *)
(* without a reboot loop.                                                    *)
FirmwareIsProven == NoRebootLoop /\ ProvenBeforeDisk /\ KexecOnlyWhenActive
=============================================================================
