------------------------------ MODULE Standby ------------------------------
(***************************************************************************)
(* Hot standby: pkg/runmode/standby.go with pkg/rescue and the deploy      *)
(* archive of pkg/caprf/deploy_archive.go.  The standby loop polls CAPRF   *)
(* for commands and runs them one by one; a second goroutine sends the     *)
(* heartbeats; the run can be stopped at any time (signal or token).       *)
(*                                                                         *)
(* CAPRF is external: it keeps a command until the ACK arrives.  The work  *)
(* of a provision or deprovision is one step with its possible outcomes.   *)
(***************************************************************************)
EXTENDS Integers, Sequences, FiniteSetsExt, SequencesExt

CONSTANTS
    MaxCommands,            \* bound on the commands that CAPRF queues
    MaxRetries,             \* RESCUE retry count
    MaxStarts,              \* bound on the runs of one command
    Dirs,                   \* deployArchiveDirs, the per-job directories of /deploy
    Payloads,               \* what a command carries
    Configs,                \* the configurations that are explored
    Cancels                 \* whether the run may be stopped

ASSUME StandbyAssumption ==
    /\ MaxCommands \in Nat /\ MaxRetries \in Nat /\ MaxStarts \in Nat \ {0}
    /\ Payloads \subseteq {"none", "vars", "archive", "invalid"} /\ "none" \in Payloads
    /\ Configs \subseteq [rescue : {"retry", "reboot", "shell", "wait"},
                          stay : BOOLEAN, waitOnFailure : BOOLEAN]
    /\ Cancels \in BOOLEAN

Ids == 1 .. MaxCommands
Types == {"provision", "deprovision", "reboot", "health-check", "unknown"}
Commands == {c \in [type: Types, payload: Payloads] :
                c.type \in {"provision", "deprovision"} \/ c.payload = "none"}

(* The owner of a directory of /deploy that does not exist. *)
Gone == -1

VARIABLES
    cfg,            \* rescue: RESCUE_MODE; stay: STANDBY_DEPROVISION_SUCCESS_ACTION=standby;
                    \* waitOnFailure: FAILURE_ACTION=wait
    phase,          \* where the standby loop is
    first,          \* the first poll of Run, before the heartbeats start
    queue,          \* commands of this poll that are still to run, the head runs
    attempts,       \* rescue.RetryState
    commandRunning,
    hb,             \* the heartbeat goroutine: "off", "idle", "checked", "ended"
    ctxDone,        \* the context of the run is canceled
    result,         \* what Run returned
    cmd,            \* CAPRF: the commands queued so far
    pending,        \* CAPRF: not acknowledged yet
    staged,         \* the command whose archive is staged, or 0
    deploy,         \* the owner of every directory of /deploy
    acked,          \* history: the ACK status sent for the current run of a command
    outcome,        \* history: how its work ended
    starts,         \* history: how often it ran
    beats           \* history: heartbeats sent while the current commands run

loopVars == <<phase, first, queue, attempts, commandRunning, result>>
serverVars == <<cmd, pending>>
fileVars == <<staged, deploy>>
histVars == <<acked, outcome, starts>>
vars == <<cfg, loopVars, hb, ctxDone, serverVars, fileVars, histVars, beats>>

Phases == {"ready", "fetch", "idle", "command", "config", "apply", "run", "retry", "wait",
           "failed", "done", "leave", "returned"}
Results == {"none", "error", "canceled", "reboot", "poweroff", "provisioned", "shell"}

TypeOK ==
    /\ cfg \in Configs
    /\ phase \in Phases /\ first \in BOOLEAN /\ queue \in Seq(Ids)
    /\ attempts \in 0 .. MaxRetries /\ commandRunning \in BOOLEAN
    /\ hb \in {"off", "idle", "checked", "ended"} /\ ctxDone \in BOOLEAN /\ result \in Results
    /\ cmd \in Seq(Commands) /\ pending \subseteq Ids
    /\ staged \in Ids \cup {0} /\ deploy \in [Dirs -> Ids \cup {0, Gone}]
    /\ acked \in [Ids -> {"none", "completed", "failed"}]
    /\ outcome \in [Ids -> {"none", "ok", "failed", "reset", "rejected"}]
    /\ starts \in [Ids -> 0 .. MaxStarts] /\ beats \in 0 .. 3

Init ==
    /\ cfg \in Configs
    /\ phase = "ready" /\ first = TRUE /\ queue = <<>> /\ attempts = 0
    /\ commandRunning = FALSE /\ hb = "off" /\ ctxDone = FALSE /\ result = "none"
    /\ cmd = <<>> /\ pending = {}
    /\ staged = 0 /\ deploy = [d \in Dirs |-> 0]
    /\ acked = [i \in Ids |-> "none"] /\ outcome = [i \in Ids |-> "none"]
    /\ starts = [i \in Ids |-> 0] /\ beats = 0

MinOf(a, b) == IF a <= b THEN a ELSE b

cur == Head(queue)
Type == cmd[cur].type
Payload == cmd[cur].payload

-----------------------------------------------------------------------------
(* CAPRF, external *)

Queue(c) ==
    /\ Len(cmd) < MaxCommands
    /\ cmd' = Append(cmd, c)
    /\ pending' = pending \cup {Len(cmd) + 1}
    /\ UNCHANGED <<cfg, loopVars, hb, ctxDone, fileVars, histVars, beats>>

(* AcknowledgeCommand: the ACK arrives or is lost; a request on the        *)
(* canceled context is never sent.                                         *)
Ack(status, ctxOK) ==
    /\ acked' = [acked EXCEPT ![cur] = status]
    /\ pending' \in IF ctxOK THEN {pending, pending \ {cur}} ELSE {pending}

-----------------------------------------------------------------------------
(* Run: readiness, poll loop *)

Leave(r) == phase' = "leave" /\ result' = r /\ commandRunning' = FALSE

(* The init status and the first heartbeat. *)
Ready ==
    /\ phase = "ready"
    /\ \/ phase' = "fetch" /\ UNCHANGED <<result, commandRunning>>
       \/ Leave("error")
    /\ UNCHANGED <<cfg, first, queue, attempts, hb, ctxDone, serverVars, fileVars, histVars, beats>>

PollTimer ==
    /\ phase = "idle"
    /\ phase' = "fetch"
    /\ UNCHANGED <<cfg, first, queue, attempts, commandRunning, result, hb, ctxDone,
                   serverVars, fileVars, histVars, beats>>

(* Mutant of FetchOK: commands that ran before are run again. *)
FetchOK_KeepsOld ==
    /\ phase = "fetch" /\ ~ctxDone
    /\ queue' \in SetToSeqs({i \in DOMAIN cmd : starts[i] < MaxStarts})
    /\ commandRunning' = TRUE
    /\ phase' = "command"
    /\ UNCHANGED <<cfg, first, attempts, result, hb, ctxDone, serverVars, fileVars, histVars, beats>>

(* FetchCommands returned: pollCommands runs the commands in the order that *)
(* CAPRF lists them.                                                       *)
FetchOK ==
    /\ phase = "fetch" /\ ~ctxDone
    /\ queue' \in SetToSeqs({i \in pending : starts[i] < MaxStarts})
    /\ commandRunning' = TRUE
    /\ phase' = "command"
    /\ UNCHANGED <<cfg, first, attempts, result, hb, ctxDone, serverVars, fileVars, histVars, beats>>

(* The first poll is a readiness check. *)
FetchFails ==
    /\ phase = "fetch"
    /\ IF first THEN Leave("error") ELSE phase' = "idle" /\ UNCHANGED <<result, commandRunning>>
    /\ UNCHANGED <<cfg, first, queue, attempts, hb, ctxDone, serverVars, fileVars, histVars, beats>>

(* Every command ran; after the first poll the heartbeats start. *)
BatchEnds ==
    /\ phase = "command" /\ queue = <<>>
    /\ commandRunning' = FALSE
    /\ phase' = "idle" /\ first' = FALSE
    /\ hb' = IF first THEN "idle" ELSE hb
    /\ beats' = 0
    /\ UNCHANGED <<cfg, queue, attempts, result, ctxDone, serverVars, fileVars, histVars>>

IdleCanceled ==
    /\ phase = "idle" /\ ctxDone
    /\ Leave("canceled")
    /\ UNCHANGED <<cfg, first, queue, attempts, hb, ctxDone, serverVars, fileVars, histVars, beats>>

(* The deferred stop of the heartbeats waits for their goroutine. *)
Return ==
    /\ phase = "leave" /\ hb \in {"off", "ended"}
    /\ phase' = "returned"
    /\ UNCHANGED <<cfg, first, queue, attempts, commandRunning, result, hb, ctxDone,
                   serverVars, fileVars, histVars, beats>>

-----------------------------------------------------------------------------
(* sendHeartbeats *)

(* The ticker fires and no command runs. *)
HeartbeatChecks ==
    /\ hb = "idle" /\ ~commandRunning
    /\ hb' = "checked"
    /\ UNCHANGED <<cfg, loopVars, ctxDone, serverVars, fileVars, histVars, beats>>

HeartbeatSends ==
    /\ hb = "checked"
    /\ hb' = "idle"
    /\ beats' = IF commandRunning /\ queue # <<>> THEN MinOf(beats + 1, 3) ELSE beats
    /\ UNCHANGED <<cfg, loopVars, ctxDone, serverVars, fileVars, histVars>>

HeartbeatEnds ==
    /\ hb = "idle" /\ (ctxDone \/ phase = "leave")
    /\ hb' = "ended"
    /\ UNCHANGED <<cfg, loopVars, ctxDone, serverVars, fileVars, histVars, beats>>

Cancel ==
    /\ Cancels /\ ~ctxDone /\ phase # "returned"
    /\ ctxDone' = TRUE
    /\ UNCHANGED <<cfg, loopVars, hb, serverVars, fileVars, histVars, beats>>

-----------------------------------------------------------------------------
(* handleCommand *)

NextCommand == phase' = "command" /\ queue' = Tail(queue) /\ UNCHANGED <<result, commandRunning>>

Starts ==
    /\ phase = "command" /\ queue # <<>>
    /\ starts' = [starts EXCEPT ![cur] = @ + 1]
    /\ outcome' = [outcome EXCEPT ![cur] = "none"]

HandleReboot ==
    /\ Starts /\ Type = "reboot"
    /\ Ack("completed", ~ctxDone)
    /\ Leave("reboot")
    /\ UNCHANGED <<cfg, first, queue, attempts, hb, ctxDone, cmd, fileVars, beats>>

(* A health check, or a command that this agent does not know. *)
HandleHealthCheck ==
    /\ Starts /\ Type \in {"health-check", "unknown"}
    /\ Ack(IF Type = "unknown" THEN "failed" ELSE "completed", ~ctxDone)
    /\ NextCommand
    /\ UNCHANGED <<cfg, first, attempts, hb, ctxDone, cmd, fileVars, beats>>

(* handleRunCommand. *)
HandleRunCommand ==
    /\ Starts /\ Type \in {"provision", "deprovision"}
    /\ acked' = [acked EXCEPT ![cur] = "none"]
    /\ attempts' = 0
    /\ phase' = "config"
    /\ UNCHANGED <<cfg, first, queue, commandRunning, result, hb, ctxDone, serverVars, fileVars, beats>>

(* The command does not run: ACK, drop the staged files, go on. *)
Reject(d) ==
    /\ outcome' = [outcome EXCEPT ![cur] = "rejected"]
    /\ Ack("failed", TRUE)
    /\ NextCommand
    /\ staged' = 0 /\ deploy' = d

Accept == phase' = "apply" /\ UNCHANGED <<result, commandRunning, queue, outcome, acked, pending, deploy>>

(* commandConfig: copy the config, merge the payload or stage the archive. *)
CommandConfig ==
    /\ phase = "config"
    /\ \/ Payload # "none" /\ Reject(deploy)
       \/ Payload \in {"none", "vars"} /\ Accept /\ UNCHANGED staged
       \/ Payload = "archive" /\ Accept /\ staged' = cur
    /\ UNCHANGED <<cfg, first, attempts, hb, ctxDone, cmd, starts, beats>>

ToRun == phase' = "run" /\ UNCHANGED <<result, commandRunning, queue, outcome, acked, pending>>

(* Mutant of Swapped: a directory that the archive lacks is kept. *)
Swapped_Merges(has) == [d \in Dirs |-> IF d \in has THEN cur ELSE deploy[d]]

(* The directories after the swap; one that the archive lacks is gone. *)
Swapped(has) == [d \in Dirs |-> IF d \in has THEN cur ELSE Gone]

(* applyCommandFiles: swap the staged directories in, and copy the         *)
(* provisioner files into the ramdisk.  A failed swap moves the old        *)
(* directories back, as far as these renames succeed.                      *)
ApplyCommandFiles ==
    /\ phase = "apply"
    /\ \/ staged = 0 /\ ToRun /\ UNCHANGED <<staged, deploy>>
       \/ /\ staged # 0
          /\ \E has \in SUBSET Dirs :
             \/ ToRun /\ staged' = 0 /\ deploy' = Swapped(has)
             \/ Reject(Swapped(has))
             \/ Reject([d \in Dirs |-> IF d \in has THEN deploy[d] ELSE Gone])
    /\ UNCHANGED <<cfg, first, attempts, hb, ctxDone, cmd, starts, beats>>

-----------------------------------------------------------------------------
(* handleProvision and handleDeprovision *)

Works(how, next) ==
    /\ phase = "run"
    /\ outcome' = [outcome EXCEPT ![cur] = how]
    /\ phase' = next
    /\ UNCHANGED <<cfg, first, queue, commandRunning, result, hb, ctxDone, serverVars,
                   fileVars, acked, starts, beats>>

Succeeds == Works("ok", "done") /\ UNCHANGED attempts

(* A firmware change needs a reset before the provision can go on. *)
NeedsReset == phase = "run" /\ Type = "provision" /\ Works("reset", "failed") /\ UNCHANGED attempts

(* rescue.Decide, for a provision. *)
Decide == IF cfg.rescue = "retry" /\ attempts >= MaxRetries THEN "reboot" ELSE cfg.rescue

Fails ==
    /\ phase = "run"
    /\ IF Type = "provision" /\ Decide = "retry"
       THEN Works("failed", "retry") /\ attempts' = attempts + 1
       ELSE Works("failed", "failed") /\ UNCHANGED attempts

(* The retry sleep ended, or the run was stopped in it. *)
RetrySleeps ==
    /\ phase = "retry"
    /\ \/ phase' = "run" /\ UNCHANGED <<result, commandRunning>>
       \/ ctxDone /\ Leave("canceled")
    /\ UNCHANGED <<cfg, first, queue, attempts, hb, ctxDone, serverVars, fileVars, histVars, beats>>

RescueShell ==
    /\ phase = "failed" /\ Type = "provision" /\ outcome[cur] # "reset" /\ Decide = "shell"
    /\ Leave("shell")
    /\ UNCHANGED <<cfg, first, queue, attempts, hb, ctxDone, serverVars, fileVars, histVars, beats>>

WaitsAfterFailure ==
    \/ Type = "provision" /\ outcome[cur] # "reset" /\ Decide = "wait"
    \/ Type = "deprovision" /\ cfg.waitOnFailure

(* ACK the failure, then wait for an operator, reboot or end the run. *)
AckFailure ==
    /\ phase = "failed"
    /\ ~(Type = "provision" /\ outcome[cur] # "reset" /\ Decide = "shell")
    /\ Ack("failed", TRUE)
    /\ IF WaitsAfterFailure
       THEN phase' = "wait" /\ UNCHANGED <<result, commandRunning>>
       ELSE Leave(IF outcome[cur] = "reset" THEN "reboot" ELSE "error")
    /\ UNCHANGED <<cfg, first, queue, attempts, hb, ctxDone, cmd, fileVars, outcome, starts, beats>>

WaitEnds ==
    /\ phase = "wait" /\ ctxDone
    /\ Leave(IF Type = "provision" THEN "canceled" ELSE "error")
    /\ UNCHANGED <<cfg, first, queue, attempts, hb, ctxDone, serverVars, fileVars, histVars, beats>>

(* ACK the success; a deprovision can return to standby, after a status. *)
AckSuccess ==
    /\ phase = "done"
    /\ Ack("completed", TRUE)
    /\ IF Type = "deprovision" /\ cfg.stay
       THEN NextCommand
       ELSE /\ \E r \in (IF Type = "provision" THEN {"provisioned"} ELSE {"reboot", "poweroff"}) : Leave(r)
            /\ UNCHANGED queue
    /\ UNCHANGED <<cfg, first, attempts, hb, ctxDone, cmd, fileVars, outcome, starts, beats>>

-----------------------------------------------------------------------------

Step ==
    \/ Ready \/ PollTimer \/ FetchOK \/ FetchFails \/ BatchEnds \/ IdleCanceled \/ Return
    \/ HandleReboot \/ HandleHealthCheck \/ HandleRunCommand
    \/ CommandConfig \/ ApplyCommandFiles
    \/ Succeeds \/ NeedsReset \/ Fails \/ RetrySleeps \/ RescueShell
    \/ AckFailure \/ WaitEnds \/ AckSuccess

Heartbeats == HeartbeatChecks \/ HeartbeatSends \/ HeartbeatEnds

Next == (\E c \in Commands : Queue(c)) \/ Step \/ Heartbeats \/ Cancel

(* Both goroutines run on, a ticker that fires again and again does not    *)
(* hide the end of its context, a canceled loop sees its context, and a    *)
(* poll that is repeated for ever succeeds some time.                      *)
Fairness ==
    /\ WF_vars(Step) /\ WF_vars(Heartbeats)
    /\ SF_vars(HeartbeatEnds) /\ SF_vars(IdleCanceled) /\ SF_vars(FetchOK)

Spec == Init /\ [][Next]_vars /\ Fairness

-----------------------------------------------------------------------------
(* Properties *)

(* A command of this poll that Run has left behind. *)
Ended(i) ==
    /\ starts[i] > 0
    /\ \/ phase \in {"fetch", "idle"}
       \/ phase \in {"leave", "returned"}
       \/ phase = "command" /\ i \notin Range(queue)

(* The ACK says what happened, also after retries and redeliveries:        *)
(* "completed" only for work that succeeded, "failed" only for work that   *)
(* did not.  No command ends without an ACK, except in a rescue shell and  *)
(* in a retry that was stopped (handleProvision, handleDeprovision,        *)
(* handleRunCommand).                                                      *)
AckTellsTheTruth ==
    \A i \in 1 .. Len(cmd) : cmd[i].type \in {"provision", "deprovision"} =>
        /\ acked[i] = "completed" => outcome[i] = "ok"
        /\ acked[i] = "failed" => outcome[i] \in {"failed", "reset", "rejected"}
        /\ acked[i] = "none" /\ Ended(i) => result \in {"shell", "canceled"}

(* Standby reports every failed command, as the comment in handleProvision *)
(* and the table of command ends say.                                      *)
EveryFailureAcked ==
    \A i \in 1 .. Len(cmd) : Ended(i) /\ outcome[i] = "failed" => acked[i] = "failed"

(* CAPRF sends a command again only when the ACK was lost: work that was   *)
(* acknowledged never starts a second time.                                *)
NoRunAfterAck ==
    [][\A i \in 1 .. Len(cmd) : starts'[i] > starts[i] => i \in pending]_vars

(* A command never works with the files of another job: with an archive,   *)
(* /deploy holds its files only (swapDeployDirs), and files staged for one *)
(* command are gone when the next one starts (DiscardCommandFiles).        *)
JobFilesMatch ==
    /\ staged # 0 => phase = "apply" /\ staged = cur
    /\ phase \in {"run", "retry", "done", "failed", "wait"} /\ Payload = "archive" =>
        \A d \in Dirs : deploy[d] \in {cur, Gone}

(* Heartbeats pause while a command runs: at most the one that had passed  *)
(* the check of commandRunning before is still sent (sendHeartbeats).      *)
OneLateHeartbeat == beats <= 1

(* A stopped run ends: every wait, retry and poll of standby returns once  *)
(* its context is canceled (Run, handleProvision, handleDeprovision).      *)
CancelEndsStandby == ctxDone ~> phase = "returned"

(* A queued command is started unless standby ends before: the poll loop   *)
(* never stops polling, also after errors and after a return to standby.   *)
CommandsStart ==
    \A i \in Ids : i \in pending /\ starts[i] = 0 ~> starts[i] > 0 \/ phase \in {"returned", "wait"}

(* What the server is told and what a job runs with is true: a command is    *)
(* acknowledged as completed or failed only when it is, a job sees the files *)
(* of one payload, and while it runs at most one late heartbeat is sent.     *)
CommandsAreHonest == TypeOK /\ AckTellsTheTruth /\ JobFilesMatch /\ OneLateHeartbeat

(* Commands run one after the other and none twice: one that was             *)
(* acknowledged never runs again, a pending one starts while the server      *)
(* answers, and a cancelled context ends the loop wherever it is.            *)
CommandsRunInTurn == NoRunAfterAck /\ CommandsStart /\ CancelEndsStandby
=============================================================================
