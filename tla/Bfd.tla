-------------------------------- MODULE Bfd --------------------------------
(***************************************************************************)
(* A BFD session, pkg/network/bfd: the state machine of session.go and the *)
(* loop of manager_linux.go with its transmit and detection timers.        *)
(*                                                                         *)
(* The peer is modelled as a second session of the same machine, which     *)
(* never asks for Demand mode or for no packets.  One tick of the clock    *)
(* passes when nothing is due and no packet is under way: delivery is      *)
(* immediate or fails.                                                     *)
(***************************************************************************)
EXTENDS Integers, Sequences, FiniteSets

CONSTANTS
    Tx,         \* DesiredMinTx of each end, in ticks
    Rx,         \* RequiredMinRx of each end
    SlowTx,     \* slowTx, the interval of a session that is not Up
    DetectMult, \* DetectMult of both ends
    MaxLost,    \* bound on the packets the link loses
    MaxRestarts \* bound on the sessions started anew

Ends == {"local", "peer"}

ASSUME BfdAssumption ==
    /\ Tx \in [Ends -> 1 .. SlowTx] /\ Rx \in [Ends -> 1 .. SlowTx]
    /\ {SlowTx, DetectMult} \subseteq Nat \ {0} /\ {MaxLost, MaxRestarts} \subseteq Nat

VARIABLES
    sess,       \* Session of each end
    age,        \* ticks since lastRx; Never before the first packet
    armed,      \* the detection timer waits for the detection time, not for an hour
    due,        \* ticks to the next periodic packet
    wire,       \* packets under way to each end
    missed,     \* packets to an end lost in a row
    losses, renewed

bvars == <<sess, age, armed, due, wire, missed, losses, renewed>>

Other(e) == CHOOSE x \in Ends : x # e
Never == -1
MaxOf(a, b) == IF a > b THEN a ELSE b

(* The local discriminator counts the sessions of both ends, so it is unique. *)
NewSession(e, d) ==
    [st |-> "Down", discr |-> d, remote |-> 0, rmin |-> 0, rtx |-> 0,
     dtx |-> MaxOf(Tx[e], SlowTx), crx |-> MaxOf(Rx[e], SlowTx), polling |-> FALSE, final |-> FALSE]

BInit ==
    /\ sess = [e \in Ends |-> NewSession(e, IF e = "local" THEN 1 ELSE 2)]
    /\ age = [e \in Ends |-> Never] /\ armed = [e \in Ends |-> FALSE]
    /\ due = [e \in Ends |-> 0] /\ wire = [e \in Ends |-> <<>>]
    /\ missed = [e \in Ends |-> 0] /\ losses = 0 /\ renewed = 0

-----------------------------------------------------------------------------
(* session.go *)

(* up: a Poll Sequence announces the configured intervals. *)
up(s, e) ==
    IF s.dtx # Tx[e] \/ s.crx # Rx[e]
    THEN [s EXCEPT !.st = "Up", !.dtx = Tx[e], !.polling = TRUE]
    ELSE [s EXCEPT !.st = "Up"]

down(s, e) ==
    [s EXCEPT !.st = "Down", !.dtx = MaxOf(Tx[e], SlowTx), !.crx = MaxOf(Rx[e], SlowTx), !.polling = FALSE]

transition(s, e, remote) ==
    CASE remote = "AdminDown" /\ s.st # "Down" -> down(s, e)
      [] s.st = "Down" /\ remote = "Down" -> [s EXCEPT !.st = "Init"]
      [] s.st = "Down" /\ remote = "Init" -> up(s, e)
      [] s.st = "Init" /\ remote \in {"Init", "Up"} -> up(s, e)
      [] s.st = "Up" /\ remote = "Down" -> down(s, e)
      [] OTHER -> s

(* Receive, for a packet whose Your Discriminator fits. A Final ends the *)
(* Poll Sequence, a Poll asks for a Final.                               *)
Receive(s, e, p) ==
    LET ends == p.final /\ s.polling
        t == [s EXCEPT !.remote = p.my, !.rmin = p.rx, !.rtx = p.tx,
                       !.polling = @ /\ ~p.final, !.crx = IF ends THEN Rx[e] ELSE @,
                       !.final = @ \/ p.poll]
    IN  transition(t, e, p.st)

DetectionTime(s) == DetectMult * MaxOf(s.crx, s.rtx)

TxInterval(s) == MaxOf(s.dtx, s.rmin)

(* Packet: a pending Final goes first and without Poll. *)
Packet(s, e) ==
    [st |-> s.st, my |-> s.discr, your |-> s.remote, tx |-> s.dtx,
     rx |-> IF s.polling THEN Rx[e] ELSE s.crx, final |-> s.final, poll |-> s.polling /\ ~s.final]

CheckTimeout(s, e) ==
    LET forgot == [s EXCEPT !.remote = 0, !.rmin = 0]
    IN  IF s.st \in {"Init", "Up"} THEN down(forgot, e) ELSE forgot

-----------------------------------------------------------------------------
(* manager_linux.go *)

(* sendNow builds a packet of session s of end e and puts it on the wire. *)
Sends(e, s, w) ==
    /\ wire' = [w EXCEPT ![Other(e)] = Append(@, Packet(s, e))]
    /\ sess' = [sess EXCEPT ![e] = [s EXCEPT !.final = FALSE]]

(* jitter takes up to a quarter off the interval. *)
nextTx(s) == LET iv == TxInterval(s) IN {iv, MaxOf(1, iv - 1)}

(* Mutant of rearm: a periodic packet stays due on the old timer. *)
rearm_Never(e, s) == due' = due

(* rearm: a lower interval applies at once. *)
rearm(e, s) ==
    IF due[e] > TxInterval(s) THEN \E d \in nextTx(s) : due' = [due EXCEPT ![e] = d]
    ELSE due' = due

(* The receiver hands a packet to the session it names, or to the session *)
(* of its sender when it names none; a packet for no session is dropped.   *)
lookup(s, p) == p.your \in {0, s.discr}

received(e) ==
    /\ wire[e] # <<>>
    /\ LET p == Head(wire[e])
           w == [wire EXCEPT ![e] = Tail(@)]
           old == sess[e]
           s == Receive(old, e, p)
       IN  IF ~lookup(old, p) THEN
               /\ wire' = w
               /\ UNCHANGED <<sess, age, armed, due, missed>>
           ELSE
               /\ IF s.st # old.st \/ s.final THEN Sends(e, s, w)
                  ELSE wire' = w /\ sess' = [sess EXCEPT ![e] = s]
               /\ rearm(e, s)
               /\ age' = [age EXCEPT ![e] = 0] /\ armed' = [armed EXCEPT ![e] = TRUE]
               /\ missed' = [missed EXCEPT ![e] = 0]
    /\ UNCHANGED <<losses, renewed>>

periodic(e) ==
    /\ due[e] = 0
    /\ Sends(e, sess[e], wire)
    /\ \E d \in nextTx(sess[e]) : due' = [due EXCEPT ![e] = d]
    /\ UNCHANGED <<age, armed, missed, losses, renewed>>

DetectionDue(e) == armed[e] /\ age[e] > DetectionTime(sess[e])

(* The detection timer fires; only a packet arms it again. *)
detect(e) ==
    /\ DetectionDue(e)
    /\ LET s == CheckTimeout(sess[e], e)
       IN  IF s.st # sess[e].st THEN Sends(e, s, wire)
           ELSE sess' = [sess EXCEPT ![e] = s] /\ wire' = wire
    /\ armed' = [armed EXCEPT ![e] = FALSE]
    /\ UNCHANGED <<age, due, missed, losses, renewed>>

(* Replace of the local session, a restart of the peer: a new session with *)
(* a new discriminator that sends at once. The old one sends nothing.      *)
Replace(e) ==
    /\ renewed < MaxRestarts
    /\ renewed' = renewed + 1
    /\ sess' = [sess EXCEPT ![e] = NewSession(e, renewed + 3)]
    /\ age' = [age EXCEPT ![e] = Never] /\ armed' = [armed EXCEPT ![e] = FALSE]
    /\ due' = [due EXCEPT ![e] = 0] /\ missed' = [missed EXCEPT ![e] = 0]
    /\ UNCHANGED <<wire, losses>>

(* Close says AdminDown, so the peer does not wait for the detection time; *)
(* a later setup starts a new session.                                     *)
Close(e) ==
    /\ renewed < MaxRestarts
    /\ renewed' = renewed + 1
    /\ wire' = [wire EXCEPT ![Other(e)] = Append(@, [Packet(sess[e], e) EXCEPT !.st = "AdminDown"])]
    /\ sess' = [sess EXCEPT ![e] = NewSession(e, renewed + 3)]
    /\ age' = [age EXCEPT ![e] = Never] /\ armed' = [armed EXCEPT ![e] = FALSE]
    /\ due' = [due EXCEPT ![e] = 0] /\ missed' = [missed EXCEPT ![e] = 0]
    /\ UNCHANGED losses

(* The link loses a packet. *)
Lose(e) ==
    /\ wire[e] # <<>> /\ losses < MaxLost
    /\ losses' = losses + 1 /\ missed' = [missed EXCEPT ![e] = @ + 1]
    /\ wire' = [wire EXCEPT ![e] = Tail(@)]
    /\ UNCHANGED <<sess, age, armed, due, renewed>>

Clock ==
    /\ \A e \in Ends : due[e] > 0 /\ wire[e] = <<>> /\ ~DetectionDue(e)
    /\ due' = [e \in Ends |-> due[e] - 1]
    /\ age' = [e \in Ends |-> IF armed[e] THEN age[e] + 1 ELSE age[e]]
    /\ UNCHANGED <<sess, armed, wire, missed, losses, renewed>>

BWork == Clock \/ \E e \in Ends : received(e) \/ periodic(e) \/ detect(e)
BNext == BWork \/ \E e \in Ends : Replace(e) \/ Close(e) \/ Lose(e)

BSpec == BInit /\ [][BNext]_bvars /\ WF_bvars(BWork)

-----------------------------------------------------------------------------
(* A session only times out when the link really lost DetectMult packets in  *)
(* a row or the peer is no longer Up: the change from the slow to the        *)
(* configured intervals (up, Poll and Final, rearm) never lets the detection *)
(* time run ahead of the packets ("Down with diag 3 about 450 ms after every *)
(* Up").                                                                     *)
NoFalseDown ==
    [][\A e \in Ends : sess[e].st = "Up" /\ DetectionDue(e) /\ sess'[e].st = "Down" =>
           missed[e] >= DetectMult \/ sess[Other(e)].st # "Up"]_bvars

(* Once the link keeps its packets and no end starts anew, both sessions     *)
(* come up with the configured intervals and stay (transition, Receive).     *)
ComesUp ==
    <>[](\A e \in Ends : /\ sess[e].st = "Up" /\ ~sess[e].polling
                         /\ sess[e].dtx = Tx[e] /\ sess[e].crx = Rx[e])

=============================================================================
