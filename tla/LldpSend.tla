------------------------------ MODULE LldpSend ------------------------------
(***************************************************************************)
(* The LLDP sender on every NIC (startLLDPEmitAll in main.go, Emit in      *)
(* pkg/network/lldp): its stop before a handoff, the shutdown LLDPDU, its  *)
(* restart after a failed handoff, and the link watch that starts and      *)
(* stops the frames with the carrier.                                      *)
(*                                                                         *)
(* One NIC is enough: the senders of two NICs share nothing.  Every start  *)
(* is a new sender, a natural number.  Two goroutines stop it: "handoff",  *)
(* which may start it again, and "grace", the reboot of the token grace    *)
(* timer.  The times (fast frames, jitter, the 30 s interval) are left     *)
(* out: an armed timer may fire at any moment, a bounded wait may end.     *)
(***************************************************************************)
EXTENDS Integers, Sequences

CONSTANTS MaxSenders,   \* starts of the sender
          MaxLinkFlips, \* changes of the link
          MaxLosses     \* subscriptions that end (ENOBUFS, a failed subscribe)

VARIABLES link,       \* the NIC: "up" or "down" (no carrier, or the NIC is gone)
          sender,     \* what each sender is doing
          started,    \* senders so far
          emitStop,   \* lldpEmitStop: the sender it stops, 0 for nil
          pending,    \* lldpEmitPending: the sender whose end it announces
          emitMu,     \* lldpEmitMu: its holder
          stopPc,     \* where the two goroutines are
          stopping,   \* the sender that each of them stops
          neighbor,   \* the switch's entry: the sender whose frame made it, or 0
          linkFlips, losses

lsvars == <<link, sender, started, emitStop, pending, emitMu, stopPc, stopping, neighbor,
            linkFlips, losses>>

Links == {"up", "down"}
Stoppers == {"handoff", "grace"}
Senders == 1 .. MaxSenders

(* run: "off", "on", "canceled" (its context has ended), "ended"; watch:    *)
(* the subscription; upd: its updates; state: the channel of emitOn (only   *)
(* the latest state waits there); cur, armed: emitOn and its txTimer.       *)
NoSender == [run |-> "off", watch |-> "off", upd |-> <<>>, state |-> "empty", cur |-> "unknown", armed |-> FALSE]

Running(g) == sender[g].run \in {"on", "canceled"}

SendInit ==
    /\ link \in Links
    /\ sender = [g \in Senders |-> IF g = 1 THEN [NoSender EXCEPT !.run = "on"] ELSE NoSender]
    /\ started = 1 /\ emitStop = 1 /\ pending = 0 /\ emitMu = "free"
    /\ stopPc = [p \in Stoppers |-> "idle"] /\ stopping = [p \in Stoppers |-> 0]
    /\ neighbor = 0 /\ linkFlips = 0 /\ losses = 0

-----------------------------------------------------------------------------
(* The link watch.  It subscribes, then reads the state: "a change from     *)
(* then on is an update".                                                   *)
Push(g, s) == [sender EXCEPT ![g].state = s]

watchLinks(g) ==
    \/ /\ sender[g].watch = "off"
       /\ sender' = [sender EXCEPT ![g].watch = "subscribed", ![g].upd = <<>>]
    \/ /\ sender[g].watch = "subscribed"
       /\ sender' = [Push(g, link) EXCEPT ![g].watch = "on"]

linkUpdate(g) ==
    /\ sender[g].watch = "on" /\ sender[g].upd # <<>>
    /\ sender' = [Push(g, Head(sender[g].upd)) EXCEPT ![g].upd = Tail(@)]

(* The watch ends with the context; a lost subscription starts over.        *)
watchCarrier(g) ==
    /\ sender[g].run = "on" /\ (watchLinks(g) \/ linkUpdate(g))
    /\ UNCHANGED <<link, started, emitStop, pending, emitMu, stopPc, stopping, neighbor, linkFlips, losses>>

SubscriptionEnds(g) ==
    /\ sender[g].run = "on" /\ sender[g].watch # "off" /\ losses < MaxLosses
    /\ losses' = losses + 1
    /\ sender' = [sender EXCEPT ![g].watch = "off", ![g].upd = <<>>]
    /\ UNCHANGED <<link, started, emitStop, pending, emitMu, stopPc, stopping, neighbor, linkFlips>>

(* The kernel: every open subscription gets the update. *)
LinkChanges ==
    /\ linkFlips < MaxLinkFlips /\ linkFlips' = linkFlips + 1
    /\ link' \in Links \ {link}
    /\ sender' = [g \in Senders |-> IF sender[g].watch \in {"subscribed", "on"}
                                    THEN [sender[g] EXCEPT !.upd = Append(@, link')] ELSE sender[g]]
    /\ UNCHANGED <<started, emitStop, pending, emitMu, stopPc, stopping, neighbor, losses>>

-----------------------------------------------------------------------------
(* emitOn: one iteration of its select.  Once the context has ended, a      *)
(* state or a timer that is ready may still be taken first.                 *)
stateArrives(g) ==
    LET s == sender[g].state
    IN  /\ Running(g) /\ s # "empty"
        /\ sender' = [sender EXCEPT ![g].state = "empty", ![g].cur = s,
                                    ![g].armed = s = "up" /\ (@ \/ sender[g].cur # "up")]
        /\ UNCHANGED neighbor

(* A frame reaches the switch over a link that is up. *)
sendFrame(g, entry) == neighbor' = IF link = "up" THEN entry ELSE neighbor

timerFires(g) == Running(g) /\ sender[g].armed /\ sendFrame(g, g) /\ UNCHANGED sender

contextEnds(g) ==
    /\ sender[g].run = "canceled"
    /\ sender' = [sender EXCEPT ![g] = [NoSender EXCEPT !.run = "ended"]]
    /\ IF sender[g].cur = "up" THEN sendFrame(g, 0) ELSE UNCHANGED neighbor

emitOn(g) ==
    /\ stateArrives(g) \/ timerFires(g) \/ contextEnds(g)
    /\ UNCHANGED <<link, started, emitStop, pending, emitMu, stopPc, stopping, linkFlips, losses>>

-----------------------------------------------------------------------------
(* stopLLDPEmit takes the stop function under the mutex, then cancels the   *)
(* sender, then waitLLDPEmit records that its end is pending and waits at   *)
(* most lldpStopTimeout.                                                    *)
stopLLDPEmit(p) ==
    /\ stopPc[p] = "idle" /\ emitMu = "free"
    /\ emitStop' = 0 /\ stopping' = [stopping EXCEPT ![p] = emitStop]
    /\ stopPc' = [stopPc EXCEPT ![p] = IF emitStop = 0 THEN "stopped" ELSE "cancel"]
    /\ UNCHANGED <<link, sender, started, pending, emitMu, neighbor, linkFlips, losses>>

cancelEmit(p) ==
    /\ stopPc[p] = "cancel" /\ stopPc' = [stopPc EXCEPT ![p] = "pending"]
    /\ sender' = [sender EXCEPT ![stopping[p]].run = "canceled"]
    /\ UNCHANGED <<link, started, emitStop, pending, emitMu, stopping, neighbor, linkFlips, losses>>

(* Mutant of waitLLDPEmit: a stop that timed out is not recorded. *)
waitLLDPEmit_Unrecorded(p) ==
    /\ \/ /\ stopPc[p] = "pending" /\ emitMu = "free"
          /\ stopPc' = [stopPc EXCEPT ![p] = "wait"]
       \/ stopPc[p] = "wait" /\ stopPc' = [stopPc EXCEPT ![p] = "stopped"]
    /\ UNCHANGED <<link, sender, started, emitStop, pending, emitMu, stopping, neighbor, linkFlips, losses>>

(* The wait ends with the sender or with the timeout. *)
waitLLDPEmit(p) ==
    /\ \/ /\ stopPc[p] = "pending" /\ emitMu = "free" /\ pending' = stopping[p]
          /\ stopPc' = [stopPc EXCEPT ![p] = "wait"]
       \/ /\ stopPc[p] = "wait" /\ stopPc' = [stopPc EXCEPT ![p] = "stopped"]
          /\ UNCHANGED pending
    /\ UNCHANGED <<link, sender, started, emitStop, emitMu, stopping, neighbor, linkFlips, losses>>

(* The handoff failed and the host stays up.  resumeLLDPEmit holds the      *)
(* mutex from the check to the store, also while it waits for `pending`.    *)
resumeChecks ==
    /\ stopPc["handoff"] = "stopped" /\ emitMu = "free"
    /\ IF emitStop # 0 THEN stopPc' = [stopPc EXCEPT !["handoff"] = "idle"] /\ UNCHANGED emitMu
                       ELSE stopPc' = [stopPc EXCEPT !["handoff"] = "resume"] /\ emitMu' = "handoff"
    /\ UNCHANGED <<link, sender, started, emitStop, pending, stopping, neighbor, linkFlips, losses>>

resumeStarts ==
    /\ started < MaxSenders /\ started' = started + 1 /\ emitStop' = started + 1
    /\ sender' = [sender EXCEPT ![started + 1].run = "on"]

resumeEnds ==
    /\ stopPc["handoff"] = "resume" /\ stopPc' = [stopPc EXCEPT !["handoff"] = "idle"]
    /\ emitMu' = "free"
    /\ \/ /\ pending # 0 => sender[pending].run = "ended"
          /\ pending' = 0 /\ resumeStarts
       \/ /\ pending # 0 /\ sender[pending].run # "ended"   \* after lldpResumeWait
          /\ UNCHANGED <<pending, started, emitStop, sender>>
    /\ UNCHANGED <<link, stopping, neighbor, linkFlips, losses>>

SendNext ==
    \/ LinkChanges \/ resumeChecks \/ resumeEnds
    \/ \E g \in Senders : watchCarrier(g) \/ SubscriptionEnds(g) \/ emitOn(g)
    \/ \E p \in Stoppers : stopLLDPEmit(p) \/ cancelEmit(p) \/ waitLLDPEmit(p)

SendSpec ==
    /\ SendInit /\ [][SendNext]_lsvars
    /\ \A g \in Senders : WF_lsvars(watchCarrier(g)) /\ WF_lsvars(emitOn(g) /\ stateArrives(g))

-----------------------------------------------------------------------------
(* resumeLLDPEmit does not restart next to senders of a timed-out stop:     *)
(* "their late shutdown LLDPDU (TTL 0) would follow the new frames and      *)
(* remove the host from the neighbor tables".  The entry of a sender goes   *)
(* only with that sender, unless the grace timer is rebooting the host.     *)
NoLateShutdown ==
    [][neighbor # 0 /\ neighbor' = 0 /\ stopPc["grace"] = "idle" => sender'[neighbor].run = "ended"]_lsvars

(* Frames follow the carrier: whatever changes and whatever updates were    *)
(* lost, the sender of a NIC that stays up sends, and the one of a NIC that *)
(* stays down does not.                                                     *)
FramesFollowCarrier ==
    \A g \in Senders : []<>(sender[g].run = "on" => (sender[g].armed <=> link = "up"))

(* What the switches know of a NIC is true: frames go out while the link is  *)
(* up, and no late goodbye follows the frames of a newer sender.             *)
LldpTellsTheLink == NoLateShutdown /\ FramesFollowCarrier
=============================================================================
