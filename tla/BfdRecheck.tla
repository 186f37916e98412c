----------------------------- MODULE BfdRecheck -----------------------------
(***************************************************************************)
(* How a BFD Down ends a BGP session, pkg/network/gobgp/bfd.go: bfdChanged *)
(* resets the session, or skips the Down of a session that is just coming  *)
(* up and leaves it to a recheck.                                          *)
(*                                                                         *)
(* A tick is a second of the wall clock, the unit in which GoBGP gives the *)
(* uptime.  A call of ListPeer and the decision taken on its answer are    *)
(* two steps: GoBGP can start a new session between them, and BFD can go   *)
(* down on it.                                                             *)
(***************************************************************************)
EXTENDS Integers, FiniteSets

CONSTANTS
    RecheckGrace,   \* bfdRecheckGrace in seconds
    MaxSessions,    \* bound on the BGP sessions
    MaxDowns        \* bound on the BFD Downs

ASSUME RecheckAssumption == {RecheckGrace, MaxSessions, MaxDowns} \subseteq Nat \ {0}

VARIABLES
    bfdUp,      \* UnderlayTier.bfdUp of the peer
    bgp,        \* state of the BGP peer as ListPeer shows it
    uptime,     \* number of the session, which stands for its uptime
    upFor,      \* seconds since the session came up, or since Idle began
    change,     \* bfdChanged of an Up to Down: its diag and what it read
    rc,         \* the recheck of the peer: seconds since downAt and its uptime
    ticker,     \* resetUnlessBFDUp: between ticks, holding an answer, resetting
    stopped,    \* stopRechecks was called
    downs,
    skipped,    \* session whose Down was skipped while BFD stays Down; 0 for none
    misled      \* history: an answer about an earlier session ended or bound
                \* the recheck of that Down

rvars == <<bfdUp, bgp, uptime, upFor, change, rc, ticker, stopped, downs, skipped, misled>>

NoUptime == 0
NoCheck == [age |-> 0, uptime |-> -1]
NoChange == [pc |-> "idle", rekey |-> FALSE, st |-> "Idle", at |-> 0, id |-> 0, up |-> 0]
Sleeping == [pc |-> "sleep", st |-> "Idle", at |-> 0, id |-> 0]

ComingUp(st) == st \in {"OpenConfirm", "Fresh"}
(* What ListPeer says: "Fresh" is Established without an uptime. *)
Uptime(st) == IF st = "Established" THEN uptime ELSE NoUptime

RInit ==
    /\ bfdUp = FALSE /\ bgp = "Active" /\ uptime = 1 /\ upFor = 0
    /\ change = NoChange /\ rc = NoCheck /\ ticker = Sleeping
    /\ stopped = FALSE /\ downs = 0 /\ skipped = 0 /\ misled = FALSE

-----------------------------------------------------------------------------
(* GoBGP and BFD *)

BgpAdvances ==
    /\ \/ bgp \in {"Idle", "Unknown"} /\ uptime < MaxSessions /\ bgp' = "Active" /\ uptime' = uptime + 1
       \/ bgp = "Idle" /\ bgp' = "Unknown" /\ uptime' = uptime     \* restartPeer deletes the peer
       \/ bgp = "Active" /\ bgp' = "OpenConfirm" /\ uptime' = uptime
       \/ bgp = "OpenConfirm" /\ bgp' = "Fresh" /\ uptime' = uptime
       \/ bgp = "Fresh" /\ bgp' = "Established" /\ uptime' = uptime
    /\ upFor' = 0
    /\ UNCHANGED <<bfdUp, change, rc, ticker, stopped, downs, skipped, misled>>

(* The session ends: hold timer, NOTIFICATION, ResetPeer. *)
Ended == bgp' = "Idle" /\ upFor' = 0 /\ skipped' = 0

BgpEnds ==
    /\ bgp \notin {"Idle", "Unknown"} /\ Ended
    /\ UNCHANGED <<bfdUp, uptime, change, rc, ticker, stopped, downs, misled>>

BfdComesUp ==
    /\ ~bfdUp /\ change = NoChange
    /\ bfdUp' = TRUE /\ skipped' = 0
    /\ UNCHANGED <<bgp, uptime, upFor, change, rc, ticker, stopped, downs, misled>>

-----------------------------------------------------------------------------
(* bfdChanged, in the loop of the BFD session *)

BfdGoesDown ==
    /\ bfdUp /\ change = NoChange /\ downs < MaxDowns
    /\ downs' = downs + 1 /\ bfdUp' = FALSE
    /\ \E r \in BOOLEAN : change' = [pc |-> "decide", rekey |-> r, st |-> bgp, at |-> Uptime(bgp),
                                          id |-> uptime, up |-> upFor]
    /\ UNCHANGED <<bgp, uptime, upFor, rc, ticker, stopped, skipped, misled>>

(* Mutant of recheck: a Down while one runs leaves it bound to its session. *)
recheck_KeepsBinding(at) ==
    IF rc = NoCheck THEN rc' = [age |-> 0, uptime |-> at] ELSE rc' = [rc EXCEPT !.age = 0]

(* recheck: at most one for the peer; a Down restarts and binds it. *)
recheck(at) == rc' = [age |-> 0, uptime |-> at]

Skips(at) ==
    /\ recheck(at)
    /\ skipped' = IF change.id = uptime /\ (ComingUp(bgp) \/ bgp = "Established") THEN uptime ELSE 0
    /\ UNCHANGED <<bgp, upFor>>

(* ResetPeer ends the session; it fails for a peer that is not there. *)
Resets == IF bgp = "Unknown" THEN UNCHANGED <<bgp, upFor, skipped>> ELSE Ended

bfdChanged ==
    /\ change.pc = "decide"
    /\ LET c == change
           early == \/ ComingUp(c.st)
                    \/ c.rekey /\ c.st \notin {"Established", "Idle", "Unknown"}
           young == c.st = "Established" /\ (c.up = 0 \/ (c.rekey /\ c.up = 1))
       IN  \/ early /\ Skips(NoUptime)
           \/ ~early /\ young /\ Skips(c.at)
           \/ c.rekey /\ c.st = "Unknown" /\ UNCHANGED <<bgp, upFor, rc, skipped>>
           \/ ~early /\ ~young /\ ~(c.rekey /\ c.st = "Unknown") /\ Resets /\ rc' = rc
    /\ change' = NoChange
    /\ UNCHANGED <<bfdUp, uptime, ticker, stopped, downs, misled>>

-----------------------------------------------------------------------------
(* resetUnlessBFDUp *)

Query ==
    /\ rc # NoCheck /\ ticker.pc = "sleep"
    /\ ticker' = [pc |-> "answer", st |-> bgp, at |-> Uptime(bgp), id |-> uptime]
    /\ UNCHANGED <<bfdUp, bgp, uptime, upFor, change, rc, stopped, downs, skipped, misled>>

RecheckEnds(pc) == rc' = NoCheck /\ ticker' = [Sleeping EXCEPT !.pc = pc]

(* recheckStep, under checkMu. *)
recheckStep ==
    /\ ticker.pc = "answer"
    /\ LET st == ticker.st
           established == st = "Established"
           bound == IF established /\ rc.uptime = NoUptime THEN ticker.at ELSE rc.uptime
       IN  CASE stopped \/ bfdUp -> RecheckEnds("sleep")
             [] (established /\ ticker.at # bound) \/ st \in {"Idle", "Unknown"} -> RecheckEnds("sleep")
             [] ComingUp(st) -> rc' = rc /\ ticker' = Sleeping
             [] OTHER -> \/ rc.age <= RecheckGrace /\ rc' = [rc EXCEPT !.uptime = bound] /\ ticker' = Sleeping
                         \/ rc.age >= RecheckGrace /\ RecheckEnds(IF established THEN "reset" ELSE "sleep")
    /\ misled' = (misled \/ (rc' # rc /\ ~stopped /\ ticker.id < skipped))
    /\ UNCHANGED <<bfdUp, bgp, uptime, upFor, change, stopped, downs, skipped>>

(* The reset comes after checkMu is released. *)
Reset ==
    /\ ticker.pc = "reset"
    /\ Resets
    /\ ticker' = Sleeping
    /\ UNCHANGED <<bfdUp, uptime, change, rc, stopped, downs, misled>>

stopRechecks ==
    /\ ~stopped /\ stopped' = TRUE
    /\ UNCHANGED <<bfdUp, bgp, uptime, upFor, change, rc, ticker, downs, skipped, misled>>

(* A second passes: between two steps of one decision none does. *)
Second ==
    /\ change = NoChange /\ ticker.pc = "sleep"
    /\ upFor < 2 \/ (rc # NoCheck /\ rc.age <= RecheckGrace)
    /\ upFor' = IF upFor < 2 THEN upFor + 1 ELSE upFor
    /\ rc' = IF rc # NoCheck /\ rc.age <= RecheckGrace THEN [rc EXCEPT !.age = @ + 1] ELSE rc
    /\ UNCHANGED <<bfdUp, bgp, uptime, change, ticker, stopped, downs, skipped, misled>>

Ticker == Query \/ recheckStep \/ Reset
RNext == BgpAdvances \/ BgpEnds \/ BfdComesUp \/ BfdGoesDown \/ bfdChanged \/ Ticker \/ stopRechecks \/ Second

(* The goroutines run, time passes, and a session that is coming up comes up *)
(* or ends (hold timer).                                                     *)
RFairness ==
    /\ WF_rvars(Ticker) /\ WF_rvars(bfdChanged) /\ SF_rvars(Second)
    /\ WF_rvars((BgpAdvances \/ BgpEnds) /\ ComingUp(bgp))

RSpec == RInit /\ [][RNext]_rvars /\ RFairness

-----------------------------------------------------------------------------
(* A BFD Down that did not reset a session because it was coming up or had   *)
(* just come up is not forgotten: BFD comes up again, or the session ends,   *)
(* or the recheck resets it (bfdChanged, "a real failure is not hidden until *)
(* the hold timer expires").  The exception is a recheck that already runs    *)
(* and decides on an answer that ListPeer gave before that session began.    *)
SkippedDownIsChecked == []<>(skipped = 0 \/ stopped \/ misled)

(* The same without the exception, as the comment of bfdChanged has it: "A   *)
(* skipped BFD Down is checked again (recheck), so a real failure is not     *)
(* hidden until the hold timer expires".                                     *)
NoDownIsForgotten == []<>(skipped = 0 \/ stopped)

=============================================================================
