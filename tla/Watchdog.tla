------------------------------ MODULE Watchdog ------------------------------
(***************************************************************************)
(* The hardware watchdog and its supervisor (pkg/watchdog, pkg/ipmi,       *)
(* main_watchdog.go): the run reports steps and progress, a goroutine pets *)
(* the device on every tick of its ticker unless the active step exceeded  *)
(* its budget, and a handoff ends the supervision.                         *)
(*                                                                         *)
(* Time is counted in seconds.  A keepalive (or the stall record) that has *)
(* started takes at most PetMax seconds, and a due tick is handled within  *)
(* the second it is due; a hung kernel handles nothing any more.           *)
(***************************************************************************)
EXTENDS Integers, FiniteSetsExt

CONSTANTS
    WatchedSteps,      \* names of the provisioning steps
    Timeout,    \* the hardware timeout that the driver reports
    Budgets,    \* the budget of each step without progress
    PetMax,     \* bound on the duration of one keepalive
    IdleCap     \* bound of the idle counter, above every budget

NoStep == "no step"

ASSUME WatchdogAssumption ==
    /\ Timeout \in Nat \ {0}
    /\ Budgets \in [WatchedSteps -> Nat]
    /\ PetMax \in Nat
    /\ IdleCap \in Nat /\ \A s \in WatchedSteps : Budgets[s] < IdleCap
    /\ NoStep \notin WatchedSteps

VARIABLES
    dev,        \* the armed device: "off" before the start, "none" without one;
                \* "nowayout" is a device file of a kernel with nowayout
    step,       \* the active step
    idle,       \* seconds since the last progress, capped above every budget
    stalled,    \* the supervisor withholds the keepalive
    supClosed,     \* Handoff ran
    tick,       \* the goroutine: "sleep", "stall", "pet", "ended"
    busy,       \* seconds since the goroutine started its callback or pet
    pending,    \* a tick waits in the ticker channel
    sinceTick,      \* seconds since the ticker last fired
    open,       \* the device file is open
    hw,         \* the hardware timer: [running, action, left]
    hung,       \* the kernel hangs: no goroutine runs any more
    host,       \* "up" or "reset"
    handed,     \* what Handoff did: "no", "keep", "stop", "failed"
    missed,     \* history: ticks in a row without a successful pet, up to 2
    fails,      \* history: failed keepalives since the last pet, up to 2
    recorded    \* history: OnStall wrote its record since the last pet

supVars  == <<step, idle, stalled, supClosed>>
loopVars == <<tick, busy, pending, sinceTick>>
devVars  == <<dev, open, hw>>
histVars == <<missed, fails, recorded>>
wvars == <<supVars, loopVars, devVars, histVars, hung, host, handed>>

(* Supervisor.interval: a third of the device timeout, at least a second. *)
Interval == Max({Timeout \div 3, 1})

Alive == host = "up" /\ ~hung

DeviceFiles == {"file", "nowayout"}
Devices == DeviceFiles \cup {"bmc"}

WTypeOK ==
    /\ dev \in {"off", "none"} \cup Devices
    /\ step \in WatchedSteps \cup {NoStep}
    /\ idle \in 0 .. IdleCap
    /\ stalled \in BOOLEAN /\ supClosed \in BOOLEAN
    /\ tick \in {"sleep", "stall", "pet", "ended"}
    /\ busy \in 0 .. PetMax
    /\ pending \in BOOLEAN
    /\ sinceTick \in 0 .. Interval - 1
    /\ open \in BOOLEAN
    /\ hw \in [running: BOOLEAN, action: {"reset", "none"}, left: 0 .. Timeout]
    /\ hung \in BOOLEAN
    /\ host \in {"up", "reset"}
    /\ handed \in {"no", "keep", "stop", "failed"}
    /\ missed \in 0 .. 2 /\ fails \in 0 .. 2 /\ recorded \in BOOLEAN

WInit ==
    /\ dev = "off" /\ open = FALSE
    /\ hw = [running |-> FALSE, action |-> "none", left |-> 0]
    /\ step = NoStep /\ idle = 0 /\ stalled = FALSE /\ supClosed = FALSE
    /\ tick = "sleep" /\ busy = 0 /\ pending = FALSE /\ sinceTick = 0
    /\ hung = FALSE /\ host = "up" /\ handed = "no"
    /\ missed = 0 /\ fails = 0 /\ recorded = FALSE

-----------------------------------------------------------------------------
(* Arming *)

Armed == [running |-> TRUE, action |-> "reset", left |-> Timeout]

(* startWatchdog with openConfiguredWatchdog: a device file, else the BMC  *)
(* with the IPMI fallback, else none, and then every later call is a no-op *)
(* (global.go: no active tracker).                                         *)
startWatchdog(d) ==
    /\ Alive /\ dev = "off"
    /\ dev' = d
    /\ open' = (d \in DeviceFiles)
    /\ hw' = IF d = "none" THEN hw ELSE Armed
    /\ UNCHANGED <<supVars, loopVars, histVars, hung, host, handed>>

Active == dev \in Devices

-----------------------------------------------------------------------------
(* The run: Step, Progress and Idle of the active tracker *)

Step(s) ==
    /\ Alive /\ Active
    /\ step' = s /\ idle' = 0
    /\ UNCHANGED <<stalled, supClosed, loopVars, devVars, histVars, hung, host, handed>>

Progress ==
    /\ Alive /\ Active
    /\ idle' = 0
    /\ UNCHANGED <<step, stalled, supClosed, loopVars, devVars, histVars, hung, host, handed>>

Idle == Step(NoStep)

-----------------------------------------------------------------------------
(* The supervisor goroutine *)

OverBudget == step # NoStep /\ idle > Budgets[step]

CountMiss == missed' = Min({missed + 1, 2})

(* Mutant of Check: a step over its budget is petted all the same. *)
Check_AlwaysPets ==
    /\ Alive /\ Active /\ tick = "sleep" /\ pending
    /\ pending' = FALSE /\ busy' = 0
    /\ tick' = IF supClosed THEN "sleep" ELSE "pet"
    /\ UNCHANGED <<stalled, missed>>
    /\ UNCHANGED <<step, idle, supClosed, sinceTick, devVars, fails, recorded, hung, host, handed>>

(* Mutant of Check: check never clears stalled. *)
Check_StallSticks ==
    /\ Alive /\ Active /\ tick = "sleep" /\ pending
    /\ pending' = FALSE /\ busy' = 0
    /\ stalled' = (stalled \/ (~supClosed /\ OverBudget))
    /\ tick' = IF supClosed \/ stalled THEN "sleep" ELSE IF OverBudget THEN "stall" ELSE "pet"
    /\ UNCHANGED missed
    /\ UNCHANGED <<step, idle, supClosed, sinceTick, devVars, fails, recorded, hung, host, handed>>

(* Run receives a tick and check decides under the lock. *)
Check ==
    /\ Alive /\ Active /\ tick = "sleep" /\ pending
    /\ pending' = FALSE /\ busy' = 0
    /\ \/ /\ supClosed
          /\ UNCHANGED <<stalled, tick, missed>>
       \/ /\ ~supClosed /\ OverBudget
          /\ stalled' = TRUE
          /\ tick' = IF stalled THEN "sleep" ELSE "stall"
          /\ CountMiss
       \/ /\ ~supClosed /\ ~OverBudget
          /\ stalled' = FALSE
          /\ tick' = "pet"
          /\ UNCHANGED missed
    /\ UNCHANGED <<step, idle, supClosed, sinceTick, devVars, fails, recorded, hung, host, handed>>

(* Tick runs OnStall once per stall: the out-of-band record. *)
OnStall ==
    /\ Alive /\ tick = "stall"
    /\ tick' = "sleep" /\ busy' = 0
    /\ recorded' = TRUE
    /\ UNCHANGED <<supVars, pending, sinceTick, devVars, missed, fails, hung, host, handed>>

(* Keepalive reached the hardware: a write to the open device file, or the *)
(* Reset Watchdog Timer command, which restarts the countdown of the BMC   *)
(* with whatever action is programmed.                                     *)
KeepaliveOK ==
    /\ Alive /\ tick = "pet"
    /\ dev \in DeviceFiles => open
    /\ tick' = "sleep" /\ busy' = 0
    /\ hw' = [hw EXCEPT !.running = TRUE, !.left = Timeout]
    /\ missed' = 0 /\ fails' = 0 /\ recorded' = FALSE
    /\ UNCHANGED <<supVars, pending, sinceTick, dev, open, hung, host, handed>>

(* Keepalive failed: the file is closed, the write or the command failed. *)
KeepaliveFails ==
    /\ Alive /\ tick = "pet"
    /\ tick' = "sleep" /\ busy' = 0
    /\ CountMiss
    /\ fails' = Min({fails + 1, 2})
    /\ UNCHANGED <<supVars, pending, sinceTick, devVars, recorded, hung, host, handed>>

(* Run returns when Handoff closed the done channel. *)
RunEnds ==
    /\ Alive /\ tick = "sleep" /\ supClosed
    /\ tick' = "ended"
    /\ UNCHANGED <<supVars, busy, pending, sinceTick, devVars, histVars, hung, host, handed>>

-----------------------------------------------------------------------------
(* Handoff, under the supervisor lock.  The keepalive runs outside that    *)
(* lock, so one can be in flight here.                                     *)

HandoffKeep ==
    /\ Alive /\ Active /\ ~supClosed
    /\ supClosed' = TRUE /\ handed' = "keep"
    /\ open' = FALSE
    /\ UNCHANGED <<step, idle, stalled, loopVars, dev, hw, histVars, hung, host>>

(* Mutant of StoppedTimer: Set Watchdog Timer stops the countdown and keeps its action. *)
StoppedTimer_KeepsAction == IF dev = "nowayout" THEN hw ELSE [hw EXCEPT !.running = FALSE]

(* Stop: the magic close stops the timer of the device file, unless the    *)
(* kernel has nowayout and ignores it; Set Watchdog Timer stops the        *)
(* countdown of the BMC and programs no action.                            *)
StoppedTimer ==
    CASE dev = "nowayout" -> hw
      [] dev = "bmc" -> [hw EXCEPT !.running = FALSE, !.action = "none"]
      [] OTHER -> [hw EXCEPT !.running = FALSE]

HandoffStop ==
    /\ Alive /\ Active /\ ~supClosed
    /\ supClosed' = TRUE /\ handed' = "stop"
    /\ open' = FALSE
    /\ hw' = StoppedTimer
    /\ UNCHANGED <<step, idle, stalled, loopVars, dev, histVars, hung, host>>

(* Stop failed: the device file is closed all the same, the timer runs on. *)
HandoffStopFails ==
    /\ Alive /\ Active /\ ~supClosed
    /\ supClosed' = TRUE /\ handed' = "failed"
    /\ open' = FALSE
    /\ UNCHANGED <<step, idle, stalled, loopVars, dev, hw, histVars, hung, host>>

Handoff(keep) == IF keep THEN HandoffKeep ELSE HandoffStop \/ HandoffStopFails

-----------------------------------------------------------------------------
(* The machine *)

KernelHangs ==
    /\ Alive
    /\ hung' = TRUE
    /\ UNCHANGED <<supVars, loopVars, devVars, histVars, host, handed>>

(* One second passes: the goroutine is not behind with its work, or hangs. *)
Expires == hw.running /\ hw.left <= 1

Second ==
    /\ host = "up" /\ dev # "off"
    /\ hung \/ (tick = "sleep" /\ ~pending) \/ (tick \in {"stall", "pet"} /\ busy < PetMax)
            \/ tick = "ended" \/ ~Active
    /\ idle' = Min({idle + 1, IdleCap})
    /\ sinceTick' = (sinceTick + 1) % Interval
    /\ pending' = (pending \/ (sinceTick' = 0 /\ Active /\ tick # "ended"))
    /\ busy' = IF tick \in {"stall", "pet"} THEN Min({busy + 1, PetMax}) ELSE 0
    /\ hw' = IF hw.running THEN [hw EXCEPT !.left = Max({@ - 1, 0}), !.running = hw.left > 1] ELSE hw
    /\ host' = IF Expires /\ hw.action = "reset" THEN "reset" ELSE "up"
    /\ UNCHANGED <<step, stalled, supClosed, tick, dev, open, histVars, hung, handed>>

WNext ==
    \/ \E d \in {"none"} \cup Devices : startWatchdog(d)
    \/ \E s \in WatchedSteps : Step(s)
    \/ Progress \/ Idle
    \/ Check \/ OnStall \/ KeepaliveOK \/ KeepaliveFails \/ RunEnds
    \/ \E keep \in BOOLEAN : Handoff(keep)
    \/ KernelHangs \/ Second

(* The ticker, the goroutine and time are fair; the run and hangs are not. *)
WFairness ==
    /\ WF_wvars(Second)
    /\ WF_wvars(Check) /\ WF_wvars(OnStall) /\ WF_wvars(KeepaliveOK \/ KeepaliveFails)
    /\ WF_wvars(RunEnds)

WSpec == WInit /\ [][WNext]_wvars /\ WFairness

-----------------------------------------------------------------------------
(* Properties *)

(* A watchdog that a handoff stopped can not reset the host any more: a    *)
(* keepalive that was in flight, and reaches the BMC after Set Watchdog    *)
(* Timer, restarts a countdown without an action, and one on the device    *)
(* file finds it closed (supervisor.go Tick pets outside the lock).  The   *)
(* exception that device_linux.go names is a kernel with nowayout: there,  *)
(* and after a handoff that keeps the watchdog, it stays armed until it    *)
(* resets the host.                                                        *)
StoppedStaysHarmless ==
    /\ handed = "stop" /\ dev # "nowayout" => host = "up" /\ ~(hw.running /\ hw.action = "reset")
    /\ handed = "keep" \/ (handed = "stop" /\ dev = "nowayout") =>
        host = "reset" \/ (hw.running /\ hw.action = "reset")

(* While the kernel runs and the supervision lasts, the hardware resets    *)
(* the host only after two ticks in a row without a successful pet: the    *)
(* pet interval of a third of the timeout tolerates one lost keepalive     *)
(* (NewSupervisor).                                                        *)
OneMissIsTolerated ==
    host = "reset" /\ ~hung /\ handed = "no" => missed = 2

(* A reset that the supervisor caused by withholding the keepalive is      *)
(* never silent: OnStall wrote the out-of-band record before the hardware  *)
(* acted (Options.OnStall).                                                *)
StallIsRecordedBeforeReset ==
    host = "reset" /\ ~hung /\ handed = "no" => recorded \/ fails = 2

(* Progress ends the withholding: when the hardware resets a host without  *)
(* a failed keepalive, the step is over its budget, or its progress came   *)
(* too late for the next tick and its callbacks (check clears stalled).    *)
ProgressSavesHost ==
    host = "reset" /\ ~hung /\ handed = "no" /\ fails = 0 =>
        OverBudget \/ idle <= Interval + PetMax

(* A step that stays over its budget ends in a hardware reset unless the   *)
(* run hands off: the hang of one step can not hold the host for ever.     *)
StalledStepIsReset ==
    <>[](Active /\ ~supClosed /\ OverBudget) => <>(host = "reset")

(* A host that is reset has earned it: one late keepalive never resets it,   *)
(* the stalled step is recorded before the device may fire, and a step that  *)
(* makes progress again saves the host until then (Run, check, onStall).     *)
ResetIsDeserved == OneMissIsTolerated /\ StallIsRecordedBeforeReset /\ ProgressSavesHost
=============================================================================
