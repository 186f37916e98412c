------------------------------ MODULE MCAgents ------------------------------
(***************************************************************************)
(* Parts of a run for TLC that share no state: the watchdog supervision,   *)
(* the log shipper, the token renewal and the A/B update of the disk.  A   *)
(* behaviour moves one of them, the others stay where they start.  Of the  *)
(* watchdog's two steps one has the device timeout as its budget and one a *)
(* shorter one.                                                            *)
(***************************************************************************)
EXTENDS Watchdog, LogRing, TokenRenewal, SlotUpdate

VARIABLE focus

mcvars == <<wvars, logVars, tokenVars, vars, focus>>

MCBudgets == [s \in WatchedSteps |-> IF s = "wipe-disks" THEN Timeout ELSE 1]

MCInit ==
    /\ focus \in {"watchdog", "logs", "token", "slots"}
    /\ WInit /\ RingInit /\ TInit /\ Init
    /\ focus # "token" => manager /\ handler /\ margin = CHOOSE m \in Margins : TRUE
    /\ focus # "slots" => cfg = CHOOSE c \in Configs : TRUE

MCNext ==
    /\ UNCHANGED focus
    /\ \/ focus = "watchdog" /\ WNext /\ UNCHANGED <<logVars, tokenVars, vars>>
       \/ focus = "logs" /\ RingNext /\ UNCHANGED <<wvars, tokenVars, vars>>
       \/ focus = "token" /\ TNext /\ UNCHANGED <<wvars, logVars, vars>>
       \/ focus = "slots" /\ Next /\ UNCHANGED <<wvars, logVars, tokenVars>>

(* The fairness of the first three, each for the module that moves.        *)
Agent(f, A) == focus = f /\ A

MCFairness ==
    /\ WF_wvars(Agent("watchdog", Second)) /\ WF_wvars(Agent("watchdog", Check))
    /\ WF_wvars(Agent("watchdog", OnStall)) /\ WF_wvars(Agent("watchdog", RunEnds))
    /\ WF_wvars(Agent("watchdog", KeepaliveOK \/ KeepaliveFails))
    /\ WF_logVars(Agent("logs", Push)) /\ WF_logVars(Agent("logs", Send))
    /\ WF_logVars(Agent("logs", CloseFlushed \/ CloseDeadline))
    /\ WF_tokenVars(Agent("token", TokenStep)) /\ WF_tokenVars(Agent("token", Tick))

MCSpec == MCInit /\ [][MCNext]_mcvars /\ MCFairness
=============================================================================
