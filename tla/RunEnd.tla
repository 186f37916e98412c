------------------------------- MODULE RunEnd -------------------------------
(***************************************************************************)
(* The end of a run (main.go): the operating mode returns, the token       *)
(* renewal may fail at the same time, and the agent leaves the ramdisk by  *)
(* kexec, reboot or power off, or stays in a shell.                        *)
(*                                                                         *)
(* Two goroutines can leave: main, and the grace reboot that a token       *)
(* failure armed.  Straight-line code is a sequence of operations that a   *)
(* goroutine still has to do (todo); each operation is one step.  Network  *)
(* teardown and setup run in goroutines of their own and may hang.         *)
(***************************************************************************)
EXTENDS Sequences, FiniteSets

CONSTANTS
    WaitModes,      \* the values of FAILURE_ACTION=wait that are explored
    KeepModes       \* the values of WATCHDOG_HANDOFF=keep that are explored

ASSUME RunEndAssumption == WaitModes \subseteq BOOLEAN /\ KeepModes \subseteq BOOLEAN

VARIABLES
    cfg,        \* the configuration of the run
    result,     \* what the mode returned; "none" while it runs
    todo,       \* goroutine -> operations left
    ctxDone,    \* a signal canceled the root context
    runStopped, \* stopRun canceled the run context
    taskDone,   \* tokenTaskDone
    fatal,      \* the fatal handler: "idle", "entered", "stopped", "done"
    timer,      \* tokenGraceTimer: "none", "armed", "stopped", "fired"
    once,       \* network -> its stopNetworkOnce: "idle", "running", "done"
    net,        \* network -> "absent", "setup", "up", "stopping", "stopped"
    current,    \* the network whose stop main's handoff calls
    late,       \* a restore setup that outlived its timeout is running
    logs,       \* caprfRemoteLogHandler: "open", "closed" (nil)
    lldp,       \* the every-NIC LLDP sender runs
    wd,         \* the watchdog: "armed", "disarmed", "kept"
    root,       \* the target root is mounted
    stuck,      \* history: an unmount of the target root failed
    kexecFailed,\* history: the load or the execute of a kexec failed
    reported,   \* history: the terminal status reports CAPRF got, in order
    host        \* "up", "kexec", "rebooted", "off", "exited", "panicked"

Procs == {"main", "grace"}
Nets == {"first", "restored"}

tokenVars == <<runStopped, taskDone, fatal, timer>>
netVars   == <<once, net, current, late>>
endVars   == <<logs, lldp, wd, root, stuck, kexecFailed, reported>>
vars == <<cfg, result, todo, ctxDone, tokenVars, netVars, endVars, host>>

Results ==
    {"provisioned",     \* ProvisionCompleteError
     "poweroff",        \* PowerOffRequestedError: a deprovision succeeded
     "done",            \* nil: a deprovision succeeded, reboot
     "reboot",          \* RebootRequestedError
     "rescue",          \* RescueShellError
     "failed"}          \* any other error

Configs ==
    [powerOff: BOOLEAN,     \* SUCCESS_ACTION=poweroff
     noKexec: BOOLEAN,      \* DISABLE_KEXEC, Secure Boot re-enable or firmware changed
     entry: BOOLEAN,        \* GRUB has an entry that kexec.DefaultEntry resolves
     ab: BOOLEAN,           \* A/B image mode with preserveExisting
     keep: KeepModes,       \* WATCHDOG_HANDOFF=keep
     wait: WaitModes]       \* FAILURE_ACTION=wait

Ops == {"report", "waitCtx", "pause", "flush", "close", "stopNet", "await", "shell",
        "wd", "wdOff", "lldpOff", "Reboot", "requestReboot", "requestPowerOff",
        "load", "release", "kexec", "cleanup", "handoff", "restore", "setup",
        "resumeLLDP", "exit"}

TypeOK ==
    /\ cfg \in Configs
    /\ result \in Results \cup {"none", "setupFailed"}
    /\ \A p \in Procs : \A i \in DOMAIN todo[p] : todo[p][i] \in Ops
    /\ ctxDone \in BOOLEAN /\ runStopped \in BOOLEAN /\ taskDone \in BOOLEAN
    /\ fatal \in {"idle", "entered", "stopped", "done"}
    /\ timer \in {"none", "armed", "stopped", "fired"}
    /\ once \in [Nets -> {"idle", "running", "done"}]
    /\ net \in [Nets -> {"absent", "setup", "up", "stopping", "stopped"}]
    /\ current \in Nets \cup {"none"}
    /\ late \in BOOLEAN
    /\ logs \in {"open", "closed"} /\ lldp \in BOOLEAN
    /\ wd \in {"armed", "disarmed", "kept"}
    /\ root \in BOOLEAN /\ stuck \in BOOLEAN /\ kexecFailed \in BOOLEAN
    /\ reported \in {<<>>, <<"success">>, <<"error">>, <<"success", "error">>}
    /\ host \in {"up", "kexec", "rebooted", "off", "exited", "panicked"}

-----------------------------------------------------------------------------
(* Straight-line code *)

(* reboot and rebootNow. *)
RebootOps == <<"wd", "lldpOff", "flush", "Reboot">>

(* stopAndReboot. *)
LeaveOps == <<"flush", "stopNet">> \o RebootOps

(* The reboot and the power off of withNetworkStopBeforeHandoff. *)
RebootHandoff == <<"flush", "stopNet", "wd", "lldpOff", "flush", "requestReboot">>
PowerOffHandoff == <<"flush", "stopNet", "wdOff", "lldpOff", "flush", "requestPowerOff">>

(* A failed request: restore, then requestProvisionHandoff goes on. *)
FailedHandoffOps ==
    <<"restore", "resumeLLDP", "report", "flush", "shell", "flush", "stopNet", "exit">>

(* ShouldKeepTargetRootMountedForKexec, the gates of tryKexec. *)
KexecGates == ~cfg.powerOff /\ ~cfg.noKexec

(* handleProvisionHandoff, when no kexec took over. *)
HandoffOps == IF cfg.ab \/ cfg.powerOff THEN PowerOffHandoff ELSE RebootHandoff

(* tryKexec up to doKexecExecute, then finishProvision. *)
FinishProvisionOps ==
    IF KexecGates
    THEN (IF cfg.entry THEN <<"load", "release", "wd", "lldpOff", "flush", "stopNet", "kexec">>
                       ELSE <<>>) \o <<"cleanup", "handoff">>
    ELSE <<"handoff">>

IsTerminalSuccess(r) == r \in {"provisioned", "poweroff"}

(* tokenShutdown. *)
TokenShutdownOps == <<"report">> \o (IF cfg.wait THEN <<"waitCtx">> ELSE <<>>) \o LeaveOps

(* failRun: only FAILURE_ACTION=wait reports. *)
FailRunOps == (IF cfg.wait THEN <<"report", "waitCtx">> ELSE <<>>) \o LeaveOps

(* endRun. *)
EndRunOps(r) ==
    CASE r = "rescue"       -> <<"flush", "shell">> \o RebootOps
      [] r = "reboot"       -> LeaveOps
      [] r = "poweroff"     -> PowerOffHandoff
      [] r = "provisioned"  -> FinishProvisionOps
      [] OTHER              -> <<"pause">> \o LeaveOps

Init ==
    /\ cfg \in Configs
    /\ result = "none"
    /\ todo = [p \in Procs |-> <<>>]
    /\ ctxDone = FALSE /\ runStopped = FALSE /\ taskDone = FALSE
    /\ fatal = "idle" /\ timer = "none"
    /\ once = [n \in Nets |-> "idle"]
    /\ net = [first |-> "up", restored |-> "absent"]
    /\ current = "first" /\ late = FALSE
    /\ logs = "open" /\ lldp = TRUE /\ wd = "armed"
    /\ root = FALSE /\ stuck = FALSE /\ kexecFailed = FALSE
    /\ reported = <<>> /\ host = "up"

Up == host = "up"

-----------------------------------------------------------------------------
(* Signals, the mode and the token renewal *)

Signal ==
    /\ Up /\ ~ctxDone
    /\ ctxDone' = TRUE
    /\ UNCHANGED <<cfg, result, todo, tokenVars, netVars, endVars, host>>

(* The network or token setup failed after the network came up. *)
failNetworkSetup ==
    /\ Up /\ result = "none" /\ fatal = "idle" /\ ~runStopped
    /\ result' = "setupFailed"
    /\ todo' = [todo EXCEPT !["main"] = FailRunOps]
    /\ UNCHANGED <<cfg, ctxDone, tokenVars, netVars, endVars, host>>

(* mode.Run returned and reported its own terminal status; teardownChroot  *)
(* left the target root mounted when a kexec may follow.  A terminal       *)
(* success is stored before the grace timer is stopped.                    *)
ModeReturns(r) ==
    /\ Up /\ result = "none"
    /\ result' = r
    /\ root' = (r = "provisioned" /\ KexecGates)
    /\ reported' = CASE r \in {"provisioned", "poweroff", "done"} -> <<"success">>
                     [] r \in {"rescue", "failed"} -> <<"error">>
                     [] OTHER -> <<>>
    /\ taskDone' = IsTerminalSuccess(r)
    /\ UNCHANGED <<cfg, todo, ctxDone, runStopped, fatal, timer, netVars,
                   logs, lldp, wd, stuck, kexecFailed, host>>

(* stopTokenGraceReboot after a terminal success, then the choice between  *)
(* endTokenStoppedRun and endRun.                                          *)
EndRun ==
    /\ Up /\ result \in Results /\ todo["main"] = <<>>
    /\ LET tokenStopped == runStopped /\ ~ctxDone /\ ~IsTerminalSuccess(result)
       IN  todo' = [todo EXCEPT !["main"] =
                        IF tokenStopped THEN TokenShutdownOps ELSE EndRunOps(result)]
    /\ timer' = IF IsTerminalSuccess(result) /\ timer = "armed" THEN "stopped" ELSE timer
    /\ UNCHANGED <<cfg, result, ctxDone, runStopped, taskDone, fatal, netVars, endVars, host>>

(* tokenRenewalFatal, from the renewal goroutine: the check, stopRun and   *)
(* the grace timer are three steps.  The handler is set and the renewal    *)
(* started only when the setup succeeded.                                  *)
FatalChecksTaskDone ==
    /\ Up /\ fatal = "idle" /\ result # "setupFailed" /\ ~ctxDone
    /\ fatal' = IF taskDone THEN "done" ELSE "entered"
    /\ UNCHANGED <<cfg, result, todo, ctxDone, runStopped, taskDone, timer, netVars, endVars, host>>

FatalStopsRun ==
    /\ Up /\ fatal = "entered"
    /\ fatal' = "stopped"
    /\ runStopped' = TRUE
    /\ UNCHANGED <<cfg, result, todo, ctxDone, taskDone, timer, netVars, endVars, host>>

FatalArmsTimer ==
    /\ Up /\ fatal = "stopped"
    /\ fatal' = "done"
    /\ timer' = IF cfg.wait THEN timer ELSE "armed"
    /\ UNCHANGED <<cfg, result, todo, ctxDone, runStopped, taskDone, netVars, endVars, host>>

(* tokenShutdownGrace passed: the timer goroutine runs stopAndReboot.  In  *)
(* those two minutes a mode that returned has long come to EndRun.         *)
GraceFires ==
    /\ Up /\ timer = "armed"
    /\ ~(result \in Results /\ todo["main"] = <<>>)
    /\ timer' = "fired"
    /\ todo' = [todo EXCEPT !["grace"] = LeaveOps]
    /\ UNCHANGED <<cfg, result, ctxDone, runStopped, taskDone, fatal, netVars, endVars, host>>

-----------------------------------------------------------------------------
(* The operations of a leaving goroutine p *)

At(p, op) == Up /\ todo[p] # <<>> /\ Head(todo[p]) = op

Done(p) == todo' = [todo EXCEPT ![p] = Tail(@)]
DoneThen(p, ops) == todo' = [todo EXCEPT ![p] = ops \o Tail(@)]
GoTo(p, ops) == todo' = [todo EXCEPT ![p] = ops]

base == <<cfg, result, ctxDone, tokenVars>>

(* Reporting an error to CAPRF may fail; then nothing is recorded. *)
report(p) ==
    /\ At(p, "report") /\ Done(p)
    /\ \/ UNCHANGED reported
       \/ reported' = IF reported \in {<<>>, <<"success">>} THEN Append(reported, "error") ELSE reported
    /\ UNCHANGED <<base, netVars, logs, lldp, wd, root, stuck, kexecFailed, host>>

waitCtx(p) ==
    /\ At(p, "waitCtx") /\ ctxDone /\ Done(p)
    /\ UNCHANGED <<base, netVars, endVars, host>>

pause(p) ==
    /\ At(p, "pause") /\ Done(p)
    /\ UNCHANGED <<base, netVars, endVars, host>>

(* The operator leaves the shell. *)
shell(p) ==
    /\ At(p, "shell") /\ Done(p)
    /\ UNCHANGED <<base, netVars, endVars, host>>

(* flushObservability reads the global handler, then closes it and stores  *)
(* nil, without a lock.                                                    *)
flush(p) ==
    /\ At(p, "flush")
    /\ IF logs = "open" THEN DoneThen(p, <<"close">>) ELSE Done(p)
    /\ UNCHANGED <<base, netVars, endVars, host>>

(* The other goroutine may have stored nil since the check: the call on    *)
(* the reloaded nil handler ends PID 1.                                    *)
close(p) ==
    /\ At(p, "close") /\ Done(p)
    /\ logs' = "closed"
    /\ \/ UNCHANGED host
       \/ logs = "closed" /\ host' = "panicked"
    /\ UNCHANGED <<base, netVars, lldp, wd, root, stuck, kexecFailed, reported>>

(* The network that p's stop function belongs to: the grace reboot holds   *)
(* the stop of the first network.                                          *)
StopOf(p) == IF p = "main" THEN current ELSE "first"

(* stopNetworkOnce: the first call stops the LLDP sender, starts the       *)
(* teardown and waits for it; another call waits for the first one.        *)
stopNet(p) ==
    /\ At(p, "stopNet")
    /\ LET n == StopOf(p) IN
       \/ /\ n = "none" \/ (n # "none" /\ once[n] = "done")
          /\ Done(p)
          /\ UNCHANGED <<once, net, lldp>>
       \/ /\ n # "none" /\ once[n] = "idle"
          /\ once' = [once EXCEPT ![n] = "running"]
          /\ net' = [net EXCEPT ![n] = "stopping"]
          /\ lldp' = FALSE
          /\ DoneThen(p, <<"await">>)
    /\ UNCHANGED <<base, current, late, logs, wd, root, stuck, kexecFailed, reported, host>>

(* Mutant of await: the stop waits for the teardown without a timeout. *)
await_Teardown(p) ==
    /\ At(p, "await") /\ Done(p)
    /\ net[StopOf(p)] = "stopped"
    /\ once' = [once EXCEPT ![StopOf(p)] = "done"]
    /\ UNCHANGED <<base, net, current, late, endVars, host>>

(* The wait ends with the teardown or after networkStopTimeout. *)
await(p) ==
    /\ At(p, "await") /\ Done(p)
    /\ once' = [once EXCEPT ![StopOf(p)] = "done"]
    /\ UNCHANGED <<base, net, current, late, endVars, host>>

TeardownEnds(n) ==
    /\ Up /\ net[n] = "stopping"
    /\ net' = [net EXCEPT ![n] = "stopped"]
    /\ UNCHANGED <<base, todo, once, current, late, endVars, host>>

(* watchdogHandoff: only the first call does anything (Supervisor.Handoff). *)
watchdogHandoff(p) ==
    /\ At(p, "wd") \/ At(p, "wdOff")
    /\ Done(p)
    /\ wd' = IF wd # "armed" THEN wd
             ELSE IF cfg.keep /\ At(p, "wd") THEN "kept" ELSE "disarmed"
    /\ UNCHANGED <<base, netVars, logs, lldp, root, stuck, kexecFailed, reported, host>>

stopLLDPEmit(p) ==
    /\ At(p, "lldpOff") /\ Done(p)
    /\ lldp' = FALSE
    /\ UNCHANGED <<base, netVars, logs, wd, root, stuck, kexecFailed, reported, host>>

resumeLLDPEmit(p) ==
    /\ At(p, "resumeLLDP") /\ Done(p)
    /\ lldp' = TRUE
    /\ UNCHANGED <<base, netVars, logs, wd, root, stuck, kexecFailed, reported, host>>

(* realm.Reboot: a failed request opens a shell and exits. *)
Reboot(p) ==
    /\ At(p, "Reboot")
    /\ \/ host' = "rebooted" /\ Done(p)
       \/ GoTo(p, <<"shell", "exit">>) /\ UNCHANGED host
    /\ UNCHANGED <<base, netVars, endVars>>

(* requestReboot and requestPowerOff inside the wrapped handoff. *)
requestHandoff(p) ==
    /\ At(p, "requestReboot") \/ At(p, "requestPowerOff")
    /\ \/ /\ host' = IF At(p, "requestReboot") THEN "rebooted" ELSE "off"
          /\ Done(p)
       \/ GoTo(p, FailedHandoffOps) /\ UNCHANGED host
    /\ UNCHANGED <<base, netVars, endVars>>

(* os.Exit of PID 1. *)
exit(p) ==
    /\ At(p, "exit") /\ Done(p)
    /\ host' = "exited"
    /\ UNCHANGED <<base, netVars, endVars>>

-----------------------------------------------------------------------------
(* Kexec *)

(* kexecLoad: a failure skips the kexec and keeps the network. *)
kexecLoad(p) ==
    /\ At(p, "load")
    /\ \/ Done(p) /\ UNCHANGED kexecFailed
       \/ GoTo(p, <<"cleanup", "handoff">>) /\ kexecFailed' = TRUE
    /\ UNCHANGED <<base, netVars, logs, lldp, wd, root, stuck, reported, host>>

(* releaseKexecTarget: failures only warn. *)
releaseTarget(p) ==
    /\ At(p, "release") /\ Done(p)
    /\ root' \in {root, FALSE}
    /\ UNCHANGED <<base, netVars, logs, lldp, wd, stuck, kexecFailed, reported, host>>

kexecExecute(p) ==
    /\ At(p, "kexec") /\ Done(p)
    /\ \/ host' = "kexec" /\ UNCHANGED kexecFailed
       \/ kexecFailed' = TRUE /\ UNCHANGED host
    /\ UNCHANGED <<base, netVars, logs, lldp, wd, root, stuck, reported>>

cleanupFailedKexecTarget(p) ==
    /\ At(p, "cleanup") /\ Done(p)
    /\ \/ root' = FALSE /\ UNCHANGED stuck
       \/ root /\ stuck' = TRUE /\ UNCHANGED root
    /\ UNCHANGED <<base, netVars, logs, lldp, wd, kexecFailed, reported, host>>

handleProvisionHandoff(p) ==
    /\ At(p, "handoff") /\ GoTo(p, HandoffOps)
    /\ UNCHANGED <<base, netVars, endVars, host>>

-----------------------------------------------------------------------------
(* restoreNetwork after a failed request *)

(* Mutant of restoreNetwork: the restore does not wait for the teardown. *)
restoreNetwork_NoWait(p) ==
    /\ At(p, "restore")
    /\ net' = [net EXCEPT !["restored"] = "setup"]
    /\ DoneThen(p, <<"setup">>)
    /\ UNCHANGED <<base, once, current, late, endVars, host>>

(* It waits for the teardown of the last stop, and gives up after          *)
(* networkStopTimeout.                                                     *)
restoreNetwork(p) ==
    /\ At(p, "restore")
    /\ \/ /\ net["first"] = "stopped"
          /\ net' = [net EXCEPT !["restored"] = "setup"]
          /\ DoneThen(p, <<"setup">>)
          /\ UNCHANGED current
       \/ /\ net["first"] = "stopping"
          /\ current' = "none"
          /\ Done(p)
          /\ UNCHANGED net
    /\ UNCHANGED <<base, once, late, endVars, host>>

(* setupRestoredNetwork: the setup succeeds, fails, or outlives            *)
(* restoreTimeout and is left to a goroutine.                              *)
setupRestoredNetwork(p) ==
    /\ At(p, "setup") /\ Done(p)
    /\ \/ /\ net' = [net EXCEPT !["restored"] = "up"]
          /\ current' = "restored"
          /\ UNCHANGED late
       \/ /\ net' = [net EXCEPT !["restored"] = "absent"]
          /\ current' = "none"
          /\ UNCHANGED late
       \/ /\ late' = TRUE
          /\ current' = "none"
          /\ UNCHANGED net
    /\ UNCHANGED <<base, once, endVars, host>>

(* A late setup that succeeded is torn down by that goroutine. *)
LateSetupEnds ==
    /\ Up /\ late
    /\ late' = FALSE
    /\ net' \in {[net EXCEPT !["restored"] = s] : s \in {"stopping", "absent"}}
    /\ UNCHANGED <<base, todo, once, current, endVars, host>>

-----------------------------------------------------------------------------

Op(p) ==
    \/ report(p) \/ waitCtx(p) \/ pause(p) \/ flush(p) \/ close(p)
    \/ stopNet(p) \/ await(p) \/ watchdogHandoff(p) \/ stopLLDPEmit(p) \/ resumeLLDPEmit(p)
    \/ Reboot(p) \/ requestHandoff(p) \/ exit(p)
    \/ kexecLoad(p) \/ releaseTarget(p) \/ kexecExecute(p)
    \/ cleanupFailedKexecTarget(p) \/ handleProvisionHandoff(p)
    \/ restoreNetwork(p) \/ setupRestoredNetwork(p)

Next ==
    \/ Signal \/ failNetworkSetup
    \/ \E r \in Results : ModeReturns(r)
    \/ EndRun
    \/ FatalChecksTaskDone \/ FatalStopsRun \/ FatalArmsTimer \/ GraceFires
    \/ \E p \in Procs : Op(p) \/ shell(p)
    \/ \E n \in Nets : TeardownEnds(n)
    \/ LateSetupEnds

(* Goroutines that can run do, and timers fire.  Nothing makes an operator *)
(* leave a shell, a mode return, a teardown or a late setup end.           *)
Fairness ==
    /\ WF_vars(EndRun)
    /\ WF_vars(FatalStopsRun) /\ WF_vars(FatalArmsTimer) /\ WF_vars(GraceFires)
    /\ \A p \in Procs : WF_vars(Op(p))

Spec == Init /\ [][Next]_vars /\ Fairness

-----------------------------------------------------------------------------
(* Properties *)

Left == host \in {"kexec", "rebooted", "off"}

(* The grace reboot of a token failure cuts the handoff of a completed     *)
(* task, which NoGraceTimerInHandoff rules out.                            *)
GraceCutsHandoff == taskDone /\ timer = "fired"

(* Every path that leaves the ramdisk shipped the queued log lines, took   *)
(* the watchdog over and stopped the LLDP sender and the network first,    *)
(* also the network that a failed handoff restored; only the rescue shell  *)
(* keeps the network for its reboot (endRun, withNetworkStopBeforeHandoff).*)
LeavesInOrder ==
    ~GraceCutsHandoff =>
        /\ Left => logs = "closed" /\ ~lldp /\ wd # "armed"
        /\ (Left /\ result # "rescue") \/ (host = "exited" /\ IsTerminalSuccess(result))
            => \A n \in Nets : net[n] # "up"

(* The network is never set up again while the teardown of the first one   *)
(* runs: that teardown removes devices by name and would remove the new    *)
(* ones (restoreNetwork).                                                  *)
NoSetupDuringTeardown ==
    net["restored"] # "absent" => net["first"] = "stopped"

(* The handoff announced in the success message (PlannedHandoff). *)
PlannedHandoff ==
    IF cfg.powerOff THEN "off"
    ELSE IF KexecGates /\ cfg.entry THEN "kexec"
    ELSE IF cfg.ab THEN "off" ELSE "rebooted"

(* CAPRF acts on the handoff that the success report announced: the host   *)
(* leaves that way, unless a kexec was tried and failed, and then it       *)
(* reboots, or powers off for an A/B preserve (PlannedHandoff).            *)
HandoffAsAnnounced ==
    result = "provisioned" /\ Left /\ ~GraceCutsHandoff =>
        \/ host = PlannedHandoff
        \/ PlannedHandoff = "kexec" /\ kexecFailed /\ host = (IF cfg.ab THEN "off" ELSE "rebooted")

(* No handoff by reboot or power off leaves the target root mounted,       *)
(* unless its unmount failed: the gates that keep it mounted for kexec are *)
(* the gates that clean it up (finishProvision).                           *)
TargetReleased ==
    result = "provisioned" /\ host \in {"rebooted", "off"} /\ ~GraceCutsHandoff => ~root \/ stuck

(* Once the mode returned, the run ends, whatever hangs: it leaves the     *)
(* ramdisk, waits for a signal with FAILURE_ACTION=wait, or an operator    *)
(* has a shell (networkStopTimeout, restoreTimeout).                       *)
RunEnds ==
    (result # "none") ~> (host # "up" \/ At("main", "waitCtx") \/ At("main", "shell"))

(* A task that does not stop after a token failure is ended with a reboot  *)
(* (tokenShutdownGrace), unless FAILURE_ACTION=wait.                       *)
TokenFailureEndsRun ==
    (fatal = "stopped" /\ ~cfg.wait /\ result = "none")
        ~> (host # "up" \/ result # "none" \/ At("grace", "shell"))

(* A terminal success cancels the grace timer before any wrapped handoff   *)
(* runs, so the grace reboot can not cut the handoff (the comment on the   *)
(* fatal handler in setupNetworkAndTokenFlow).                             *)
NoGraceTimerInHandoff ==
    taskDone /\ todo["main"] # <<>> => timer # "armed"

(* A power off always disarms the watchdog: a BMC watchdog would power the *)
(* host on again (watchdogHandoff).                                        *)
PowerOffDisarms ==
    host = "off" => wd = "disarmed"

(* The process leaves the host in order, whatever ended the run: the target  *)
(* is released, the network is torn down and not while another one is set    *)
(* up, and the host goes the way that was announced.                         *)
LeavesCleanly ==
    TypeOK /\ LeavesInOrder /\ NoSetupDuringTeardown /\ HandoffAsAnnounced /\ TargetReleased

(* Every run ends: on its own, by the fatal token timer or by the grace      *)
(* timer, whichever of the tasks that the end waits for hangs.               *)
EveryRunEnds == RunEnds /\ TokenFailureEndsRun
=============================================================================
