--------------------------- MODULE StandbyProofs ---------------------------
(***************************************************************************)
(* Proofs about the hot standby, for every number of commands, retries and  *)
(* deploy directories, every configuration, and lost ACKs, cancellations    *)
(* and heartbeats at any point.                                             *)
(***************************************************************************)
EXTENDS Standby, FiniteSetTheorems, SequenceTheorems, TLAPS

(* Zenon finds most of the steps; those that need arithmetic or a theory    *)
(* of functions cite SMT.                                                  *)
USE Zenon

(* The phases in which a provision or deprovision runs. *)
Working == {"config", "apply", "run", "retry", "failed", "done"}
Runs(i) == cmd[i].type \in {"provision", "deprovision"}

(* The commands of a poll are those that CAPRF still has pending, each once. *)
Batch ==
    /\ Len(cmd) <= MaxCommands /\ pending \subseteq 1 .. Len(cmd)
    /\ \A i, j \in 1 .. Len(queue) : queue[i] = queue[j] => i = j
    /\ phase \in Working \cup {"command"} => \A i \in 1 .. Len(queue) : queue[i] \in pending
    /\ phase = "command" => \A i \in 1 .. Len(queue) : starts[queue[i]] < MaxStarts
    /\ phase \in Working => \A i \in 2 .. Len(queue) : starts[queue[i]] < MaxStarts
    /\ phase \in Working \cup {"wait"} => queue # <<>> /\ queue[1] \in 1 .. Len(cmd) /\ Runs(queue[1])

(* What the ACKs say, and that only the command at work has none yet. *)
Acks ==
    /\ \A i \in 1 .. Len(cmd) : Runs(i) /\ acked[i] = "completed" => outcome[i] = "ok"
    /\ \A i \in 1 .. Len(cmd) : Runs(i) /\ acked[i] = "failed" =>
        outcome[i] \in {"failed", "reset", "rejected"}
    /\ \A i \in 1 .. Len(cmd) : Runs(i) /\ starts[i] > 0 /\ acked[i] = "none" =>
        \/ phase \in Working /\ i = queue[1]
        \/ phase \in {"leave", "returned"} /\ result \in {"shell", "canceled"}
    /\ \A i \in Ids : i > Len(cmd) => starts[i] = 0 /\ acked[i] = "none"
    /\ phase \in Working => acked[queue[1]] = "none"
    /\ phase = "done" => outcome[queue[1]] = "ok"
    /\ phase = "failed" => outcome[queue[1]] \in {"failed", "reset"}

(* An archive is staged for the command that is about to use it. *)
Files ==
    /\ staged # 0 => phase = "apply" /\ staged = queue[1]
    /\ phase = "apply" /\ cmd[queue[1]].payload = "archive" => staged = queue[1]
    /\ phase \in {"run", "retry", "done", "failed", "wait"} /\ cmd[queue[1]].payload = "archive" =>
        \A d \in Dirs : deploy[d] \in {queue[1], Gone}

(* Between two polls no heartbeat counts, in a poll at most one is late. *)
Beats ==
    /\ commandRunning => phase \in Working \cup {"command", "wait"}
    /\ phase \in {"ready", "fetch", "idle"} => beats = 0
    /\ beats <= 1 /\ (commandRunning /\ beats = 1 => hb # "checked")

SbInv == TypeOK /\ Batch /\ Acks /\ Files /\ Beats

-----------------------------------------------------------------------------
(* The command at work and the rest of the queue. *)
LEMMA QueueFacts ==
    ASSUME queue \in Seq(Ids), queue # <<>>
    PROVE  /\ cur = queue[1] /\ cur \in Ids /\ Len(queue) \in Nat \ {0}
           /\ Tail(queue) \in Seq(Ids) /\ Len(Tail(queue)) = Len(queue) - 1
           /\ \A i \in 1 .. Len(queue) - 1 : Tail(queue)[i] = queue[i + 1]
  BY HeadTailProperties, SMT DEF cur

(* What FetchCommands returns is a sequence of different commands. *)
LEMMA FetchFacts ==
    ASSUME NEW S, S \subseteq Ids, NEW q \in SetToSeqs(S), MaxCommands \in Nat
    PROVE  /\ q \in Seq(Ids)
           /\ \A i \in 1 .. Len(q) : q[i] \in S
           /\ \A i, j \in 1 .. Len(q) : q[i] = q[j] => i = j
<1>1. IsFiniteSet(S)
  <2>1. IsFiniteSet(Ids)
    BY FS_Interval, SMT DEF Ids
  <2> QED BY <2>1, FS_Subset
<1>2. Cardinality(S) \in Nat
  BY <1>1, FS_CardinalityType
<1>3. /\ q \in [1 .. Cardinality(S) -> S]
      /\ \A i, j \in 1 .. Cardinality(S) : i # j => q[i] # q[j]
  BY DEF SetToSeqs
<1>4. q \in Seq(S) /\ Len(q) = Cardinality(S)
  BY <1>2, <1>3, SMT
<1> QED BY <1>2, <1>3, <1>4, SMT

LEMMA InitSbInv == Init => SbInv
<1> SUFFICES ASSUME Init PROVE SbInv
  OBVIOUS
<1> USE StandbyAssumption DEF Init
<1>1. TypeOK
  <2>1. queue \in Seq(Ids) /\ cmd \in Seq(Commands) /\ pending \subseteq Ids
    BY SMT
  <2>2. deploy \in [Dirs -> Ids \cup {0, Gone}]
    OBVIOUS
  <2>3. starts \in [Ids -> 0 .. MaxStarts]
    BY SMT
  <2>4. attempts \in 0 .. MaxRetries /\ beats \in 0 .. 3
    BY SMT
  <2> QED BY <2>1, <2>2, <2>3, <2>4 DEF TypeOK, Phases, Results
<1>2. Batch
  BY SMT DEF Batch, Working
<1>3. Acks
  BY SMT DEF Acks, Working, Ids
<1>4. Files /\ Beats
  BY SMT DEF Files, Beats, Working
<1> QED BY <1>1, <1>2, <1>3, <1>4 DEF SbInv

(* The next command of the batch: its ACK may have reached CAPRF. *)
LEMMA NextBatch ==
    ASSUME SbInv, phase \in Working \cup {"command"}, queue # <<>>, NextCommand, cmd' = cmd,
           pending' \in {pending, pending \ {cur}},
           \A i \in 2 .. Len(queue) : starts'[queue[i]] < MaxStarts
    PROVE  Batch'
<1> USE DEF SbInv, Batch, Working
<1>1. /\ cur = queue[1] /\ Len(queue) \in Nat \ {0} /\ Len(queue') = Len(queue) - 1
      /\ \A i \in 1 .. Len(queue) - 1 : queue'[i] = queue[i + 1]
      /\ phase' = "command"
  BY QueueFacts DEF TypeOK, NextCommand
<1>2. \A i \in 1 .. Len(queue') : i + 1 \in 2 .. Len(queue) /\ queue'[i] = queue[i + 1]
  BY <1>1, SMT
<1>3. \A i \in 1 .. Len(queue') : queue'[i] \in pending' /\ starts'[queue'[i]] < MaxStarts
  <2> TAKE i \in 1 .. Len(queue')
  <2>1. queue[i + 1] \in pending /\ queue[i + 1] # cur
    BY <1>1, <1>2, SMT
  <2> QED BY <1>2, <2>1
<1>4. \A i, j \in 1 .. Len(queue') : queue'[i] = queue'[j] => i = j
  <2> TAKE i, j \in 1 .. Len(queue')
  <2>1. queue[i + 1] = queue[j + 1] => i + 1 = j + 1
    BY <1>1, <1>2, SMT
  <2> QED BY <1>2, <2>1, SMT
<1> QED BY <1>1, <1>3, <1>4

LEMMA RejectBatch ==
    ASSUME SbInv, phase \in Working, NEW d, Reject(d), UNCHANGED <<cmd, starts>>
    PROVE  Batch'
<1>1. NextCommand /\ pending' \in {pending, pending \ {cur}}
  BY DEF Reject, Ack
<1> QED BY <1>1, NextBatch DEF SbInv, Batch, Working

LEMMA RejectAcks ==
    ASSUME SbInv, phase \in Working, NEW d, Reject(d), UNCHANGED <<cmd, starts>>
    PROVE  Acks'
<1>1. /\ phase' = "command" /\ result' = result /\ cur = queue[1] /\ cur \in Ids
      /\ outcome' = [outcome EXCEPT ![cur] = "rejected"]
      /\ acked' = [acked EXCEPT ![cur] = "failed"]
  BY QueueFacts DEF Reject, Ack, NextCommand, SbInv, TypeOK, Batch, Working
<1>2. cur \in 1 .. Len(cmd)
  BY <1>1 DEF SbInv, Batch, Working
<1> QED BY <1>1, <1>2, SMT DEF SbInv, TypeOK, Acks, Working, Runs

(* Every step keeps the types. *)
LEMMA TypeStep ==
    ASSUME SbInv, [Next]_vars
    PROVE  TypeOK'
<1> USE DEF SbInv, TypeOK
<1>1. ASSUME NEW c \in Commands, Queue(c) PROVE TypeOK'
  <2>1. cmd' \in Seq(Commands)
    BY <1>1, SMT DEF Queue
  <2>2. pending' \subseteq Ids
    <3>1. Len(cmd) \in Nat /\ Len(cmd) < MaxCommands
      BY <1>1, SMT DEF Queue
    <3>2. Len(cmd) + 1 \in Ids
      BY <3>1, StandbyAssumption, SMT DEF Ids
    <3> QED BY <1>1, <3>2 DEF Queue
  <2> QED BY <1>1, <2>1, <2>2 DEF Queue, loopVars, fileVars, histVars
<1>2. CASE Ready
  BY <1>2 DEF Ready, Leave, Phases, Results, loopVars, serverVars, fileVars, histVars
<1>3. CASE PollTimer
  BY <1>3 DEF PollTimer, Phases, Results, loopVars, serverVars, fileVars, histVars
<1>4. CASE FetchOK
  <2>1. queue' \in Seq(Ids)
    BY <1>4, FetchFacts, StandbyAssumption DEF FetchOK
  <2> QED BY <1>4, <2>1 DEF FetchOK, Phases, serverVars, fileVars, histVars
<1>5. CASE FetchFails
  BY <1>5 DEF FetchFails, Leave, Phases, Results, loopVars, serverVars, fileVars, histVars
<1>6. CASE BatchEnds
  <2>1. hb' \in {"off", "idle", "checked", "ended"}
    BY <1>6 DEF BatchEnds
  <2>2. beats' = 0 /\ first' = FALSE /\ commandRunning' = FALSE
    BY <1>6 DEF BatchEnds
  <2>3. /\ phase' = "idle"
        /\ UNCHANGED <<cfg, queue, attempts, result, ctxDone, cmd, pending, staged, deploy, acked,
                       outcome, starts>>
    BY <1>6 DEF BatchEnds, serverVars, fileVars, histVars
  <2>4. beats' \in 0 .. 3
    BY <2>2, SMT
  <2>5. first' \in BOOLEAN /\ commandRunning' \in BOOLEAN
    BY <2>2
  <2> QED BY <2>1, <2>3, <2>4, <2>5 DEF Phases
<1>7. CASE IdleCanceled
  BY <1>7 DEF IdleCanceled, Leave, Phases, Results, loopVars, serverVars, fileVars, histVars
<1>8. CASE Return
  BY <1>8 DEF Return, Phases, Results, loopVars, serverVars, fileVars, histVars
<1>9. CASE HandleReboot
  <2>1. queue # <<>> /\ starts[cur] < MaxStarts /\ cur \in Ids
    BY <1>9, QueueFacts, SMT DEF HandleReboot, Starts, Batch
  <2>2. starts' \in [Ids -> 0 .. MaxStarts]
    BY <1>9, <2>1, StandbyAssumption, SMT DEF HandleReboot, Starts
  <2> QED BY <1>9, <2>1, <2>2, QueueFacts DEF HandleReboot, Starts, Ack, Leave, Phases, Results,
     fileVars
<1>10. CASE HandleHealthCheck
  <2>1. queue # <<>> /\ starts[cur] < MaxStarts /\ cur \in Ids
    BY <1>10, QueueFacts, SMT DEF HandleHealthCheck, Starts, Batch
  <2>2. starts' \in [Ids -> 0 .. MaxStarts]
    BY <1>10, <2>1, StandbyAssumption, SMT DEF HandleHealthCheck, Starts
  <2> QED BY <1>10, <2>1, <2>2, QueueFacts DEF HandleHealthCheck, Starts, Ack, NextCommand, Phases,
     fileVars
<1>11. CASE HandleRunCommand
  <2>1. queue # <<>> /\ starts[cur] < MaxStarts /\ cur \in Ids
    BY <1>11, QueueFacts, SMT DEF HandleRunCommand, Starts, Batch
  <2>2. starts' \in [Ids -> 0 .. MaxStarts]
    BY <1>11, <2>1, StandbyAssumption, SMT DEF HandleRunCommand, Starts
  <2> QED BY <1>11, <2>1, <2>2, QueueFacts, StandbyAssumption, SMT DEF HandleRunCommand, Starts, Phases,
     serverVars, fileVars
<1>12. CASE CommandConfig
  BY <1>12, QueueFacts, ZenonT(30), ZenonT(30) DEF CommandConfig, Reject, Accept, Ack, NextCommand, Batch, Working, Phases,
     Results, loopVars, serverVars, fileVars, histVars
<1>13. CASE ApplyCommandFiles
  <2>1. queue # <<>> /\ cur \in Ids
    BY <1>13, QueueFacts DEF ApplyCommandFiles, Batch, Working
  <2>2. deploy' \in [Dirs -> Ids \cup {0, Gone}]
    BY <1>13, <2>1 DEF ApplyCommandFiles, Reject, Swapped
  <2>3. CASE ToRun
    BY <1>13, <2>2, <2>3, ZenonT(30) DEF ApplyCommandFiles, Reject, ToRun, Phases
  <2>4. ASSUME NEW d, Reject(d) PROVE TypeOK'
    BY <1>13, <2>1, <2>2, <2>4, QueueFacts DEF ApplyCommandFiles, Reject, Ack, NextCommand, Phases
  <2> QED BY <1>13, <2>3, <2>4 DEF ApplyCommandFiles
<1>14. CASE Succeeds
  BY <1>14, QueueFacts DEF Succeeds, Works, Batch, Working, Phases, Results, loopVars, serverVars,
     fileVars, histVars
<1>15. CASE NeedsReset
  BY <1>15, QueueFacts DEF NeedsReset, Works, Batch, Working, Phases, Results, loopVars,
     serverVars, fileVars, histVars
<1>16. CASE Fails
  <2>1. queue # <<>> /\ cur \in Ids
    BY <1>16, QueueFacts DEF Fails, Batch, Working
  <2>2. attempts' \in 0 .. MaxRetries
    BY <1>16, StandbyAssumption, SMT DEF Fails, Decide
  <2>3. \E next \in {"retry", "failed"} : Works("failed", next)
    BY <1>16 DEF Fails
  <2> QED BY <2>1, <2>2, <2>3 DEF Works, Phases, serverVars, fileVars
<1>17. CASE RetrySleeps
  BY <1>17, ZenonT(30) DEF RetrySleeps, Leave, Phases, Results, loopVars, serverVars, fileVars, histVars
<1>18. CASE RescueShell
  BY <1>18, QueueFacts DEF RescueShell, Leave, Batch, Working, Phases, Results, loopVars,
     serverVars, fileVars, histVars
<1>19. CASE AckFailure
  BY <1>19, QueueFacts DEF AckFailure, Ack, Leave, Batch, Working, Phases, Results, loopVars,
     serverVars, fileVars, histVars
<1>20. CASE WaitEnds
  BY <1>20, QueueFacts DEF WaitEnds, Leave, Batch, Working, Phases, Results, loopVars, serverVars,
     fileVars, histVars
<1>21. CASE AckSuccess
  BY <1>21, QueueFacts, ZenonT(30) DEF AckSuccess, Ack, Leave, NextCommand, Batch, Working, Phases, Results,
     loopVars, serverVars, fileVars, histVars
<1>22. CASE HeartbeatChecks
  BY <1>22 DEF HeartbeatChecks, Phases, Results, loopVars, serverVars, fileVars, histVars
<1>23. CASE HeartbeatSends
  BY <1>23, SMT DEF HeartbeatSends, MinOf, Phases, Results, loopVars, serverVars, fileVars, histVars
<1>24. CASE HeartbeatEnds
  BY <1>24 DEF HeartbeatEnds, Phases, Results, loopVars, serverVars, fileVars, histVars
<1>25. CASE Cancel
  BY <1>25, SMT DEF Cancel, Phases, Results, loopVars, serverVars, fileVars, histVars
<1>26. CASE UNCHANGED vars
  BY <1>26 DEF vars, loopVars, serverVars, fileVars, histVars
<1> QED
  BY <1>1, <1>2, <1>3, <1>4, <1>5, <1>6, <1>7, <1>8, <1>9, <1>10, <1>11, <1>12, <1>13, <1>14,
     <1>15, <1>16, <1>17, <1>18, <1>19, <1>20, <1>21, <1>22, <1>23, <1>24, <1>25, <1>26 DEF Next,
     Step, Heartbeats

(* Every step keeps the batch. *)
LEMMA BatchStep ==
    ASSUME SbInv, [Next]_vars
    PROVE  Batch'
<1> USE DEF SbInv, Batch, Working, Runs
<1>1. ASSUME NEW c \in Commands, Queue(c) PROVE Batch'
  <2>1. /\ cmd' = Append(cmd, c) /\ Len(cmd') = Len(cmd) + 1 /\ Len(cmd) < MaxCommands
        /\ \A i \in 1 .. Len(cmd) : cmd'[i] = cmd[i]
        /\ Len(cmd) \in Nat
    BY <1>1, SMT DEF Queue, TypeOK
  <2>2. pending' = pending \cup {Len(cmd) + 1} /\ UNCHANGED <<queue, phase, starts>>
    BY <1>1 DEF Queue, loopVars, histVars
  <2>3. Len(cmd') <= MaxCommands /\ pending' \subseteq 1 .. Len(cmd')
    <3>1. Len(cmd') <= MaxCommands
      BY <2>1, StandbyAssumption, SMT
    <3>2. \A i \in pending' : i \in 1 .. Len(cmd) \/ i = Len(cmd) + 1
      BY <2>2
    <3> QED BY <2>1, <3>1, <3>2, SMT
  <2> QED BY <2>1, <2>2, <2>3, SMT
<1>2. CASE Ready
  BY <1>2 DEF Ready, Leave, TypeOK, loopVars, serverVars, fileVars, histVars
<1>3. CASE PollTimer
  BY <1>3 DEF PollTimer, TypeOK, loopVars, serverVars, fileVars, histVars
<1>4. CASE FetchOK
  <2>1. /\ \A i \in 1 .. Len(queue') : queue'[i] \in pending /\ starts[queue'[i]] < MaxStarts
        /\ \A i, j \in 1 .. Len(queue') : queue'[i] = queue'[j] => i = j
    <3> DEFINE S == {i \in pending : starts[i] < MaxStarts}
    <3>1. S \subseteq Ids /\ queue' \in SetToSeqs(S)
      BY <1>4, ZenonT(30) DEF FetchOK, TypeOK
    <3>2. \A i \in S : i \in pending /\ starts[i] < MaxStarts
      OBVIOUS
    <3> HIDE DEF S
    <3> QED BY <3>1, <3>2, FetchFacts, StandbyAssumption
  <2> QED BY <1>4, <2>1 DEF FetchOK, serverVars, histVars
<1>5. CASE FetchFails
  BY <1>5 DEF FetchFails, Leave, TypeOK, loopVars, serverVars, fileVars, histVars
<1>6. CASE BatchEnds
  BY <1>6, SMT DEF BatchEnds, TypeOK, loopVars, serverVars, fileVars, histVars
<1>7. CASE IdleCanceled
  BY <1>7 DEF IdleCanceled, Leave, TypeOK, loopVars, serverVars, fileVars, histVars
<1>8. CASE Return
  BY <1>8 DEF Return, TypeOK, loopVars, serverVars, fileVars, histVars
<1>9. CASE HandleReboot
  BY <1>9, QueueFacts DEF HandleReboot, Starts, Ack, Leave, Type, TypeOK, loopVars, serverVars,
     fileVars, histVars
<1>10. CASE HandleHealthCheck
  BY <1>10, QueueFacts, SMT DEF HandleHealthCheck, Starts, Ack, NextCommand, Type, TypeOK, loopVars,
     serverVars, fileVars, histVars
<1>11. CASE HandleRunCommand
  BY <1>11, QueueFacts, SMTT(30) DEF HandleRunCommand, Starts, Type, TypeOK, loopVars, serverVars, fileVars,
     histVars
<1>12. CASE CommandConfig
  <2>1. phase = "config" /\ UNCHANGED <<cmd, starts>>
    BY <1>12 DEF CommandConfig
  <2>2. CASE Accept
    BY <1>12, <2>1, <2>2 DEF Accept
  <2>3. ASSUME NEW d, Reject(d) PROVE Batch'
    BY <2>1, <2>3, RejectBatch DEF SbInv
  <2> QED BY <1>12, <2>2, <2>3 DEF CommandConfig
<1>13. CASE ApplyCommandFiles
  <2>1. phase = "apply" /\ UNCHANGED <<cmd, starts>>
    BY <1>13 DEF ApplyCommandFiles
  <2>2. CASE ToRun
    BY <1>13, <2>1, <2>2 DEF ToRun
  <2>3. ASSUME NEW d, Reject(d) PROVE Batch'
    BY <2>1, <2>3, RejectBatch DEF SbInv
  <2> QED BY <1>13, <2>2, <2>3, ZenonT(30) DEF ApplyCommandFiles
<1>14. CASE Succeeds
  BY <1>14, QueueFacts, ZenonT(30) DEF Succeeds, Works, Type, TypeOK, loopVars, serverVars, fileVars, histVars
<1>15. CASE NeedsReset
  BY <1>15, QueueFacts, ZenonT(30) DEF NeedsReset, Works, Type, TypeOK, loopVars, serverVars, fileVars, histVars
<1>16. CASE Fails
  <2>1. \E next \in {"retry", "failed"} : Works("failed", next)
    BY <1>16 DEF Fails
  <2> QED BY <1>16, <2>1 DEF Fails, Works, serverVars
<1>17. CASE RetrySleeps
  BY <1>17 DEF RetrySleeps, Leave, TypeOK, loopVars, serverVars, fileVars, histVars
<1>18. CASE RescueShell
  BY <1>18, QueueFacts DEF RescueShell, Leave, Type, TypeOK, loopVars, serverVars, fileVars,
     histVars
<1>19. CASE AckFailure
  BY <1>19, QueueFacts DEF AckFailure, Ack, Leave, Type, TypeOK, loopVars, serverVars, fileVars,
     histVars
<1>20. CASE WaitEnds
  BY <1>20, QueueFacts DEF WaitEnds, Leave, Type, TypeOK, loopVars, serverVars, fileVars, histVars
<1>21. CASE AckSuccess
  <2>1. phase = "done" /\ UNCHANGED <<cmd, starts>> /\ pending' \in {pending, pending \ {cur}}
    BY <1>21 DEF AckSuccess, Ack
  <2>2. CASE NextCommand
    BY <2>1, <2>2, NextBatch DEF SbInv
  <2>3. CASE phase' = "leave" /\ queue' = queue
    BY <2>1, <2>3
  <2> QED BY <1>21, <2>2, <2>3 DEF AckSuccess, Leave
<1>22. CASE HeartbeatChecks
  BY <1>22 DEF HeartbeatChecks, TypeOK, loopVars, serverVars, fileVars, histVars
<1>23. CASE HeartbeatSends
  BY <1>23 DEF HeartbeatSends, MinOf, TypeOK, loopVars, serverVars, fileVars, histVars
<1>24. CASE HeartbeatEnds
  BY <1>24 DEF HeartbeatEnds, TypeOK, loopVars, serverVars, fileVars, histVars
<1>25. CASE Cancel
  BY <1>25 DEF Cancel, TypeOK, loopVars, serverVars, fileVars, histVars
<1>26. CASE UNCHANGED vars
  BY <1>26 DEF vars, loopVars, serverVars, fileVars, histVars
<1> QED
  BY <1>1, <1>2, <1>3, <1>4, <1>5, <1>6, <1>7, <1>8, <1>9, <1>10, <1>11, <1>12, <1>13, <1>14,
     <1>15, <1>16, <1>17, <1>18, <1>19, <1>20, <1>21, <1>22, <1>23, <1>24, <1>25, <1>26 DEF Next,
     Step, Heartbeats

(* Every step keeps the ACKs true. *)
LEMMA AcksStep ==
    ASSUME SbInv, [Next]_vars
    PROVE  Acks'
<1> USE DEF SbInv, Acks, Working, Runs
<1>1. ASSUME NEW c \in Commands, Queue(c) PROVE Acks'
  <2>1. /\ Len(cmd') = Len(cmd) + 1 /\ Len(cmd) \in Nat /\ Len(cmd) + 1 \in Ids
        /\ \A i \in 1 .. Len(cmd) : cmd'[i] = cmd[i]
    BY <1>1, StandbyAssumption, SMT DEF Queue, TypeOK, Ids
  <2>2. UNCHANGED <<queue, phase, result, starts, acked, outcome>>
    BY <1>1 DEF Queue, loopVars, histVars
  <2>3. starts[Len(cmd) + 1] = 0 /\ acked[Len(cmd) + 1] = "none"
    BY <2>1, SMT
  <2>4. \A i \in 1 .. Len(cmd') : i \in 1 .. Len(cmd) \/ i = Len(cmd) + 1
    BY <2>1, SMT
  <2>5. \A i \in 1 .. Len(cmd') : Runs(i)' /\ (acked[i] # "none" \/ starts[i] > 0) =>
            i \in 1 .. Len(cmd) /\ Runs(i)
    BY <2>1, <2>3, <2>4, SMT
  <2>6. \A i \in Ids : i > Len(cmd') => starts[i] = 0 /\ acked[i] = "none"
    BY <2>1, SMTT(30) DEF Ids
  <2> QED BY <2>2, <2>5, <2>6
<1>2. CASE Ready
  BY <1>2 DEF Ready, Leave, TypeOK, Batch, loopVars, serverVars, fileVars, histVars
<1>3. CASE PollTimer
  BY <1>3 DEF PollTimer, TypeOK, Batch, loopVars, serverVars, fileVars, histVars
<1>4. CASE FetchOK
  BY <1>4 DEF FetchOK, TypeOK, Batch, loopVars, serverVars, fileVars, histVars
<1>5. CASE FetchFails
  BY <1>5 DEF FetchFails, Leave, TypeOK, Batch, loopVars, serverVars, fileVars, histVars
<1>6. CASE BatchEnds
  BY <1>6 DEF BatchEnds, TypeOK, Batch, loopVars, serverVars, fileVars, histVars
<1>7. CASE IdleCanceled
  BY <1>7 DEF IdleCanceled, Leave, TypeOK, Batch, loopVars, serverVars, fileVars, histVars
<1>8. CASE Return
  BY <1>8 DEF Return, TypeOK, Batch, loopVars, serverVars, fileVars, histVars
<1>9. CASE HandleReboot
  BY <1>9, QueueFacts, SMTT(30) DEF HandleReboot, Starts, Ack, Leave, Type, TypeOK, Batch, loopVars,
     serverVars, fileVars, histVars
<1>10. CASE HandleHealthCheck
  BY <1>10, QueueFacts, SMTT(30) DEF HandleHealthCheck, Starts, Ack, NextCommand, Type, TypeOK, Batch,
     loopVars, serverVars, fileVars, histVars
<1>11. CASE HandleRunCommand
  BY <1>11, QueueFacts, SMTT(30) DEF HandleRunCommand, Starts, Type, TypeOK, Batch, loopVars, serverVars,
     fileVars, histVars
<1>12. CASE CommandConfig
  <2>1. phase = "config" /\ UNCHANGED <<cmd, starts>>
    BY <1>12 DEF CommandConfig
  <2>2. CASE Accept
    BY <2>1, <2>2 DEF Accept
  <2>3. ASSUME NEW d, Reject(d) PROVE Acks'
    BY <2>1, <2>3, RejectAcks DEF SbInv
  <2> QED BY <1>12, <2>2, <2>3 DEF CommandConfig
<1>13. CASE ApplyCommandFiles
  <2>1. phase = "apply" /\ UNCHANGED <<cmd, starts>>
    BY <1>13 DEF ApplyCommandFiles
  <2>2. CASE ToRun
    BY <2>1, <2>2 DEF ToRun
  <2>3. ASSUME NEW d, Reject(d) PROVE Acks'
    BY <2>1, <2>3, RejectAcks DEF SbInv
  <2> QED BY <1>13, <2>2, <2>3, ZenonT(30) DEF ApplyCommandFiles
<1>14. CASE Succeeds
  BY <1>14, QueueFacts, SMTT(30) DEF Succeeds, Works, Type, TypeOK, Batch, loopVars, serverVars, fileVars,
     histVars
<1>15. CASE NeedsReset
  BY <1>15, QueueFacts, SMTT(30) DEF NeedsReset, Works, Type, TypeOK, Batch, loopVars, serverVars, fileVars,
     histVars
<1>16. CASE Fails
  <2>1. \E next \in {"retry", "failed"} : Works("failed", next)
    BY <1>16 DEF Fails
  <2> QED BY <1>16, <2>1, QueueFacts, SMTT(30) DEF Fails, Works, serverVars, TypeOK, Batch
<1>17. CASE RetrySleeps
  BY <1>17 DEF RetrySleeps, Leave, TypeOK, Batch, loopVars, serverVars, fileVars, histVars
<1>18. CASE RescueShell
  BY <1>18, QueueFacts DEF RescueShell, Leave, Type, TypeOK, Batch, loopVars, serverVars, fileVars,
     histVars
<1>19. CASE AckFailure
  BY <1>19, QueueFacts, SMTT(30) DEF AckFailure, Ack, Leave, Type, TypeOK, Batch, loopVars, serverVars,
     fileVars, histVars
<1>20. CASE WaitEnds
  BY <1>20, QueueFacts DEF WaitEnds, Leave, Type, TypeOK, Batch, loopVars, serverVars, fileVars,
     histVars
<1>21. CASE AckSuccess
  BY <1>21, QueueFacts, SMTT(30) DEF AckSuccess, Ack, Leave, NextCommand, Type, TypeOK, Batch, loopVars,
     serverVars, fileVars, histVars
<1>22. CASE HeartbeatChecks
  BY <1>22 DEF HeartbeatChecks, TypeOK, Batch, loopVars, serverVars, fileVars, histVars
<1>23. CASE HeartbeatSends
  BY <1>23 DEF HeartbeatSends, MinOf, TypeOK, Batch, loopVars, serverVars, fileVars, histVars
<1>24. CASE HeartbeatEnds
  BY <1>24 DEF HeartbeatEnds, TypeOK, Batch, loopVars, serverVars, fileVars, histVars
<1>25. CASE Cancel
  BY <1>25 DEF Cancel, TypeOK, Batch, loopVars, serverVars, fileVars, histVars
<1>26. CASE UNCHANGED vars
  BY <1>26 DEF vars, loopVars, serverVars, fileVars, histVars
<1> QED
  BY <1>1, <1>2, <1>3, <1>4, <1>5, <1>6, <1>7, <1>8, <1>9, <1>10, <1>11, <1>12, <1>13, <1>14,
     <1>15, <1>16, <1>17, <1>18, <1>19, <1>20, <1>21, <1>22, <1>23, <1>24, <1>25, <1>26 DEF Next,
     Step, Heartbeats

(* Every step keeps the files apart. *)
LEMMA FilesStep ==
    ASSUME SbInv, [Next]_vars
    PROVE  Files'
<1> USE DEF SbInv, Files, Working
<1>1. ASSUME NEW c \in Commands, Queue(c) PROVE Files'
  BY <1>1, SMTT(30) DEF Queue, TypeOK, Batch, loopVars, serverVars, fileVars, histVars
<1>2. CASE Ready
  BY <1>2 DEF Ready, Leave, TypeOK, Batch, loopVars, serverVars, fileVars, histVars
<1>3. CASE PollTimer
  BY <1>3 DEF PollTimer, TypeOK, Batch, loopVars, serverVars, fileVars, histVars
<1>4. CASE FetchOK
  BY <1>4 DEF FetchOK, TypeOK, Batch, loopVars, serverVars, fileVars, histVars
<1>5. CASE FetchFails
  BY <1>5 DEF FetchFails, Leave, TypeOK, Batch, loopVars, serverVars, fileVars, histVars
<1>6. CASE BatchEnds
  BY <1>6 DEF BatchEnds, TypeOK, Batch, loopVars, serverVars, fileVars, histVars
<1>7. CASE IdleCanceled
  BY <1>7 DEF IdleCanceled, Leave, TypeOK, Batch, loopVars, serverVars, fileVars, histVars
<1>8. CASE Return
  BY <1>8 DEF Return, TypeOK, Batch, loopVars, serverVars, fileVars, histVars
<1>9. CASE HandleReboot
  BY <1>9, QueueFacts DEF HandleReboot, Starts, Ack, Leave, Type, Payload, TypeOK, Batch, loopVars,
     serverVars, fileVars, histVars
<1>10. CASE HandleHealthCheck
  BY <1>10, QueueFacts DEF HandleHealthCheck, Starts, Ack, NextCommand, Type, Payload, TypeOK,
     Batch, loopVars, serverVars, fileVars, histVars
<1>11. CASE HandleRunCommand
  BY <1>11, QueueFacts DEF HandleRunCommand, Starts, Type, Payload, TypeOK, Batch, loopVars,
     serverVars, fileVars, histVars
<1>12. CASE CommandConfig
  BY <1>12, QueueFacts DEF CommandConfig, Reject, Accept, Ack, NextCommand, Type, Payload, TypeOK,
     Batch, loopVars, serverVars, fileVars, histVars
<1>13. CASE ApplyCommandFiles
  BY <1>13, QueueFacts, SMTT(30) DEF ApplyCommandFiles, Reject, ToRun, Ack, NextCommand, Swapped, Type,
     Payload, TypeOK, Batch, loopVars, serverVars, fileVars, histVars
<1>14. CASE Succeeds
  BY <1>14, QueueFacts DEF Succeeds, Works, Type, Payload, TypeOK, Batch, loopVars, serverVars,
     fileVars, histVars
<1>15. CASE NeedsReset
  BY <1>15, QueueFacts DEF NeedsReset, Works, Type, Payload, TypeOK, Batch, loopVars, serverVars,
     fileVars, histVars
<1>16. CASE Fails
  BY <1>16, QueueFacts DEF Fails, Works, Decide, Type, Payload, TypeOK, Batch, loopVars,
     serverVars, fileVars, histVars
<1>17. CASE RetrySleeps
  BY <1>17 DEF RetrySleeps, Leave, TypeOK, Batch, loopVars, serverVars, fileVars, histVars
<1>18. CASE RescueShell
  BY <1>18, QueueFacts DEF RescueShell, Leave, Type, Payload, TypeOK, Batch, loopVars, serverVars,
     fileVars, histVars
<1>19. CASE AckFailure
  BY <1>19, QueueFacts DEF AckFailure, Ack, Leave, Type, Payload, TypeOK, Batch, loopVars,
     serverVars, fileVars, histVars
<1>20. CASE WaitEnds
  BY <1>20, QueueFacts DEF WaitEnds, Leave, Type, Payload, TypeOK, Batch, loopVars, serverVars,
     fileVars, histVars
<1>21. CASE AckSuccess
  BY <1>21, QueueFacts DEF AckSuccess, Ack, Leave, NextCommand, Type, Payload, TypeOK, Batch,
     loopVars, serverVars, fileVars, histVars
<1>22. CASE HeartbeatChecks
  BY <1>22 DEF HeartbeatChecks, TypeOK, Batch, loopVars, serverVars, fileVars, histVars
<1>23. CASE HeartbeatSends
  BY <1>23 DEF HeartbeatSends, MinOf, TypeOK, Batch, loopVars, serverVars, fileVars, histVars
<1>24. CASE HeartbeatEnds
  BY <1>24 DEF HeartbeatEnds, TypeOK, Batch, loopVars, serverVars, fileVars, histVars
<1>25. CASE Cancel
  BY <1>25 DEF Cancel, TypeOK, Batch, loopVars, serverVars, fileVars, histVars
<1>26. CASE UNCHANGED vars
  BY <1>26 DEF vars, loopVars, serverVars, fileVars, histVars
<1> QED
  BY <1>1, <1>2, <1>3, <1>4, <1>5, <1>6, <1>7, <1>8, <1>9, <1>10, <1>11, <1>12, <1>13, <1>14,
     <1>15, <1>16, <1>17, <1>18, <1>19, <1>20, <1>21, <1>22, <1>23, <1>24, <1>25, <1>26 DEF Next,
     Step, Heartbeats

(* Every step keeps the heartbeats apart from the commands. *)
LEMMA BeatsStep ==
    ASSUME SbInv, [Next]_vars
    PROVE  Beats'
<1> USE DEF SbInv, Beats, Working
<1>1. ASSUME NEW c \in Commands, Queue(c) PROVE Beats'
  BY <1>1 DEF Queue, TypeOK, loopVars, serverVars, fileVars, histVars
<1>2. CASE Ready
  BY <1>2, SMT DEF Ready, Leave, TypeOK, loopVars, serverVars, fileVars, histVars
<1>3. CASE PollTimer
  BY <1>3 DEF PollTimer, TypeOK, loopVars, serverVars, fileVars, histVars
<1>4. CASE FetchOK
  BY <1>4, SMT DEF FetchOK, TypeOK, loopVars, serverVars, fileVars, histVars
<1>5. CASE FetchFails
  BY <1>5 DEF FetchFails, Leave, TypeOK, loopVars, serverVars, fileVars, histVars
<1>6. CASE BatchEnds
  BY <1>6, SMT DEF BatchEnds, TypeOK, loopVars, serverVars, fileVars, histVars
<1>7. CASE IdleCanceled
  BY <1>7 DEF IdleCanceled, Leave, TypeOK, loopVars, serverVars, fileVars, histVars
<1>8. CASE Return
  BY <1>8 DEF Return, TypeOK, loopVars, serverVars, fileVars, histVars
<1>9. CASE HandleReboot
  BY <1>9 DEF HandleReboot, Starts, Ack, Leave, TypeOK, loopVars, serverVars, fileVars, histVars
<1>10. CASE HandleHealthCheck
  BY <1>10 DEF HandleHealthCheck, Starts, Ack, NextCommand, TypeOK, loopVars, serverVars, fileVars,
     histVars
<1>11. CASE HandleRunCommand
  BY <1>11 DEF HandleRunCommand, Starts, TypeOK, loopVars, serverVars, fileVars, histVars
<1>12. CASE CommandConfig
  BY <1>12, SMTT(30) DEF CommandConfig, Reject, Accept, Ack, NextCommand, TypeOK, loopVars, serverVars,
     fileVars, histVars
<1>13. CASE ApplyCommandFiles
  BY <1>13, SMT DEF ApplyCommandFiles, Reject, ToRun, Ack, NextCommand, Swapped, TypeOK, loopVars,
     serverVars, fileVars, histVars
<1>14. CASE Succeeds
  BY <1>14 DEF Succeeds, Works, TypeOK, loopVars, serverVars, fileVars, histVars
<1>15. CASE NeedsReset
  BY <1>15 DEF NeedsReset, Works, TypeOK, loopVars, serverVars, fileVars, histVars
<1>16. CASE Fails
  BY <1>16 DEF Fails, Works, Decide, TypeOK, loopVars, serverVars, fileVars, histVars
<1>17. CASE RetrySleeps
  BY <1>17, SMT DEF RetrySleeps, Leave, TypeOK, loopVars, serverVars, fileVars, histVars
<1>18. CASE RescueShell
  BY <1>18 DEF RescueShell, Leave, TypeOK, loopVars, serverVars, fileVars, histVars
<1>19. CASE AckFailure
  BY <1>19 DEF AckFailure, Ack, Leave, TypeOK, loopVars, serverVars, fileVars, histVars
<1>20. CASE WaitEnds
  BY <1>20 DEF WaitEnds, Leave, TypeOK, loopVars, serverVars, fileVars, histVars
<1>21. CASE AckSuccess
  BY <1>21 DEF AckSuccess, Ack, Leave, NextCommand, TypeOK, loopVars, serverVars, fileVars, histVars
<1>22. CASE HeartbeatChecks
  BY <1>22 DEF HeartbeatChecks, TypeOK, loopVars, serverVars, fileVars, histVars
<1>23. CASE HeartbeatSends
  BY <1>23, SMTT(30) DEF HeartbeatSends, MinOf, TypeOK, loopVars, serverVars, fileVars, histVars
<1>24. CASE HeartbeatEnds
  BY <1>24 DEF HeartbeatEnds, TypeOK, loopVars, serverVars, fileVars, histVars
<1>25. CASE Cancel
  BY <1>25 DEF Cancel, TypeOK, loopVars, serverVars, fileVars, histVars
<1>26. CASE UNCHANGED vars
  BY <1>26 DEF vars, loopVars, serverVars, fileVars, histVars
<1> QED
  BY <1>1, <1>2, <1>3, <1>4, <1>5, <1>6, <1>7, <1>8, <1>9, <1>10, <1>11, <1>12, <1>13, <1>14,
     <1>15, <1>16, <1>17, <1>18, <1>19, <1>20, <1>21, <1>22, <1>23, <1>24, <1>25, <1>26 DEF Next,
     Step, Heartbeats

-----------------------------------------------------------------------------
LEMMA SbInvStep == SbInv /\ [Next]_vars => SbInv'
  BY TypeStep, BatchStep, AcksStep, FilesStep, BeatsStep DEF SbInv

(* The commands are honest: whatever ACKs are lost, commands delivered again *)
(* and retries stopped, CAPRF is told "completed" and "failed" only when it  *)
(* is so, no job sees the files of another one, and at most one late        *)
(* heartbeat is sent.                                                       *)
THEOREM CommandsAreHonestAlways == Spec => []CommandsAreHonest
<1>1. SbInv => CommandsAreHonest
  <2> SUFFICES ASSUME SbInv PROVE CommandsAreHonest
    OBVIOUS
  <2>1. AckTellsTheTruth
    BY ZenonT(30) DEF SbInv, TypeOK, Acks, Working, Runs, AckTellsTheTruth, Ended
  <2>2. JobFilesMatch
    BY QueueFacts DEF SbInv, TypeOK, Batch, Files, Working, JobFilesMatch, Payload
  <2>3. OneLateHeartbeat
    BY DEF SbInv, Beats, OneLateHeartbeat
  <2> QED BY <2>1, <2>2, <2>3 DEF SbInv, CommandsAreHonest
<1> QED BY InitSbInv, SbInvStep, <1>1, PTL DEF Spec

(* Work that was acknowledged never starts a second time: a start of a      *)
(* command, whichever poll delivered it, is one of a command whose ACK      *)
(* CAPRF does not have.                                                     *)
THEOREM NoRunAfterAckAlways == Spec => NoRunAfterAck
<1> DEFINE OnlyPending == \A i \in 1 .. Len(cmd) : starts'[i] > starts[i] => i \in pending
<1>1. SbInv /\ [Next]_vars => [OnlyPending]_vars
  <2> SUFFICES ASSUME SbInv, Next PROVE OnlyPending
    OBVIOUS
  <2>1. ASSUME Starts PROVE OnlyPending
    <3>1. cur \in pending /\ \A i \in Ids : i # cur => starts'[i] = starts[i]
      BY <2>1, QueueFacts, SMT DEF SbInv, TypeOK, Batch, Starts
    <3>2. \A i \in 1 .. Len(cmd) : i \in Ids /\ starts[i] \in Int
      BY StandbyAssumption, SMT DEF SbInv, TypeOK, Batch, Ids
    <3>3. \A i \in 1 .. Len(cmd) : i # cur => ~(starts'[i] > starts[i])
      BY <3>1, <3>2, SMT
    <3> QED BY <3>1, <3>3
  <2>2. ASSUME starts' = starts PROVE OnlyPending
    <3>1. \A i \in 1 .. Len(cmd) : starts[i] \in Int
      BY StandbyAssumption, SMT DEF SbInv, TypeOK, Batch, Ids
    <3> QED BY <2>2, <3>1, SMT
  <2>3. CASE HandleReboot \/ HandleHealthCheck \/ HandleRunCommand
    BY <2>1, <2>3 DEF HandleReboot, HandleHealthCheck, HandleRunCommand
  <2>4. CASE (\E c \in Commands : Queue(c)) \/ Heartbeats \/ Cancel
    BY <2>2, <2>4 DEF Queue, Heartbeats, HeartbeatChecks, HeartbeatSends, HeartbeatEnds, Cancel,
       histVars
  <2>5. CASE Ready \/ PollTimer \/ FetchOK \/ FetchFails \/ BatchEnds \/ IdleCanceled \/ Return
    BY <2>2, <2>5 DEF Ready, PollTimer, FetchOK, FetchFails, BatchEnds, IdleCanceled, Return,
       histVars
  <2>6. CASE CommandConfig \/ ApplyCommandFiles \/ Succeeds \/ NeedsReset \/ Fails
    BY <2>2, <2>6 DEF CommandConfig, ApplyCommandFiles, Succeeds, NeedsReset, Fails, Works
  <2>7. CASE RetrySleeps \/ RescueShell \/ AckFailure \/ WaitEnds \/ AckSuccess
    BY <2>2, <2>7 DEF RetrySleeps, RescueShell, AckFailure, WaitEnds, AckSuccess, histVars
  <2> QED BY <2>3, <2>4, <2>5, <2>6, <2>7 DEF Next, Step
<1> QED BY InitSbInv, SbInvStep, <1>1, PTL DEF Spec, NoRunAfterAck
=============================================================================
