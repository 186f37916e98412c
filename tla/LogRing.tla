------------------------------ MODULE LogRing ------------------------------
(***************************************************************************)
(* Remote log shipping (pkg/caprf/loghandler.go): callers of Handle push   *)
(* lines into a bounded ring, one sender goroutine pops them and POSTs     *)
(* them in order, and Close flushes the ring before a handoff.             *)
(*                                                                         *)
(* A line is its number, its rank and its length.  push holds the lock of  *)
(* the ring while it evicts, one line per step.  A POST can fail before or *)
(* after the server took the line.                                         *)
(***************************************************************************)
EXTENDS Integers, Sequences, Functions

CONSTANTS
    MaxLines, MaxBytes,     \* the bounds of the ring
    LineLens,               \* lengths of the lines that are logged
    MaxPushes               \* bound on the lines that are logged

ASSUME LogRingAssumption ==
    /\ MaxLines \in Nat \ {0} /\ MaxBytes \in Nat \ {0}
    /\ LineLens \subseteq Nat /\ MaxPushes \in Nat

(* levelRank: 0 DEBUG, 1 INFO, 2 WARN, 3 ERROR. *)
Ranks == 0 .. 3

(* withRetry of the client tries a POST three times. *)
Attempts == 3

Lines == [id: 1 .. MaxPushes, rank: Ranks, len: 0 .. MaxBytes]
NoLine == [id |-> 0, rank |-> 0, len |-> 0]

NoDrops == [r \in Ranks |-> 0]

VARIABLES
    entries, bytes,     \* the ring
    closed,             \* logRing.close ran
    dropped,            \* drops counted per rank
    pushing,            \* the line whose push holds the lock, or NoLine
    sender,             \* "loop", "pop", "ship", "summary", "shipSummary", "ended"
    inflight, attempt,  \* the line that the sender POSTs, and the attempt
    now,                \* the drops that the summary in flight reports
    reported,           \* the drops that summaries have reported
    last,               \* this summary is the last one
    closing,            \* Close: "no", "waiting", "returned"
    canceled,           \* the flush deadline canceled the sender context
    pushed,             \* history: lines accepted so far
    delivered,          \* history: lines whose POST succeeded
    latest              \* history: number of the line the server took last

ringVars == <<entries, bytes, closed, dropped>>
sendVars == <<sender, inflight, attempt, now, reported, last>>
logVars == <<ringVars, pushing, sendVars, closing, canceled, pushed, delivered, latest>>

RingTypeOK ==
    /\ entries \in Seq(Lines)
    /\ bytes \in 0 .. MaxBytes
    /\ closed \in BOOLEAN
    /\ dropped \in [Ranks -> Nat]
    /\ pushing \in Lines \cup {NoLine}
    /\ sender \in {"loop", "pop", "ship", "summary", "shipSummary", "ended"}
    /\ inflight \in Lines \cup {NoLine} /\ attempt \in 1 .. Attempts /\ last \in BOOLEAN
    /\ now \in [Ranks -> Nat] /\ reported \in [Ranks -> Nat]
    /\ closing \in {"no", "waiting", "returned"}
    /\ canceled \in BOOLEAN
    /\ pushed \in 0 .. MaxPushes /\ delivered \in Nat
    /\ latest \in 0 .. MaxPushes

RingInit ==
    /\ entries = <<>> /\ bytes = 0 /\ closed = FALSE /\ dropped = NoDrops
    /\ pushing = NoLine
    /\ sender = "loop" /\ inflight = NoLine /\ attempt = 1 /\ last = FALSE
    /\ now = NoDrops /\ reported = NoDrops
    /\ closing = "no" /\ canceled = FALSE
    /\ pushed = 0 /\ delivered = 0 /\ latest = 0

-----------------------------------------------------------------------------
(* push *)

Unlocked == pushing = NoLine

(* The length after the cut to the byte bound; ToValidUTF8 may take up to  *)
(* three more bytes of a character that the cut split.                     *)
CutLens(len) ==
    IF len > MaxBytes THEN {n \in 0 .. MaxBytes : n >= MaxBytes - 3} ELSE {len}

(* push takes the lock; after close it drops the line without a count. *)
PushBegins(rank, len) ==
    /\ Unlocked /\ ~closed /\ pushed < MaxPushes
    /\ \E n \in CutLens(len) : pushing' = [id |-> pushed + 1, rank |-> rank, len |-> n]
    /\ pushed' = pushed + 1
    /\ UNCHANGED <<ringVars, sendVars, closing, canceled, delivered, latest>>

Full == Len(entries) >= MaxLines \/ bytes + pushing.len > MaxBytes

(* The oldest line of the lowest rank. *)
IsVictim(v) ==
    /\ v \in DOMAIN entries
    /\ \A i \in DOMAIN entries : entries[i].rank >= entries[v].rank
    /\ \A i \in 1 .. v - 1 : entries[i].rank > entries[v].rank

Without(s, v) == SubSeq(s, 1, v - 1) \o SubSeq(s, v + 1, Len(s))

Evicts ==
    /\ ~Unlocked /\ Full
    /\ \E v \in DOMAIN entries :
        /\ IsVictim(v) /\ entries[v].rank <= pushing.rank
        /\ dropped' = [dropped EXCEPT ![entries[v].rank] = @ + 1]
        /\ bytes' = bytes - entries[v].len
        /\ entries' = Without(entries, v)
    /\ UNCHANGED <<closed, pushing, sendVars, closing, canceled, pushed, delivered, latest>>

(* Every queued line ranks above the new one. *)
PushDrops ==
    /\ ~Unlocked /\ Full
    /\ \E v \in DOMAIN entries : IsVictim(v) /\ entries[v].rank > pushing.rank
    /\ dropped' = [dropped EXCEPT ![pushing.rank] = @ + 1]
    /\ pushing' = NoLine
    /\ UNCHANGED <<entries, bytes, closed, sendVars, closing, canceled, pushed, delivered, latest>>

PushAppends ==
    /\ ~Unlocked /\ ~Full
    /\ entries' = Append(entries, pushing)
    /\ bytes' = bytes + pushing.len
    /\ pushing' = NoLine
    /\ UNCHANGED <<closed, dropped, sendVars, closing, canceled, pushed, delivered, latest>>

-----------------------------------------------------------------------------
(* The sender goroutine *)

(* The loop of send checks its context before it calls pop. *)
SendLoops ==
    /\ sender = "loop"
    /\ sender' = IF canceled THEN "ended" ELSE "pop"
    /\ UNCHANGED <<ringVars, pushing, inflight, attempt, now, reported, last>>
    /\ UNCHANGED <<closing, canceled, pushed, delivered, latest>>

Pop ==
    /\ sender = "pop" /\ Unlocked /\ entries # <<>>
    /\ inflight' = Head(entries) /\ attempt' = 1
    /\ entries' = Tail(entries)
    /\ bytes' = bytes - Head(entries).len
    /\ sender' = "ship"
    /\ UNCHANGED <<closed, dropped, pushing, now, reported, last>>
    /\ UNCHANGED <<closing, canceled, pushed, delivered, latest>>

(* The ring is closed and empty: the last summary, then the end. *)
PopEnds ==
    /\ sender = "pop" /\ Unlocked /\ entries = <<>> /\ closed
    /\ sender' = "summary" /\ last' = TRUE
    /\ UNCHANGED <<ringVars, pushing, inflight, attempt, now, reported>>
    /\ UNCHANGED <<closing, canceled, pushed, delivered, latest>>

(* A POST that fails may still have reached the server. *)
MayReach(id) == latest' \in {latest, id}

(* withRetry tries the POST again. *)
ShipRetries ==
    /\ sender = "ship" /\ ~canceled /\ attempt < Attempts
    /\ MayReach(inflight.id)
    /\ attempt' = attempt + 1
    /\ UNCHANGED <<ringVars, pushing, sender, inflight, now, reported, last>>
    /\ UNCHANGED <<closing, canceled, pushed, delivered>>

ShipOK ==
    /\ sender = "ship" /\ ~canceled
    /\ latest' = inflight.id
    /\ delivered' = delivered + 1
    /\ inflight' = NoLine /\ attempt' = 1
    /\ sender' = "summary"
    /\ UNCHANGED <<ringVars, pushing, now, reported, last>>
    /\ UNCHANGED <<closing, canceled, pushed>>

(* Mutant of ShipFails: a line that can not be shipped is queued again. *)
ShipFails_Requeues ==
    /\ sender = "ship" /\ Unlocked
    /\ MayReach(inflight.id)
    /\ entries' = Append(entries, inflight) /\ bytes' = bytes + inflight.len
    /\ inflight' = NoLine /\ attempt' = 1
    /\ sender' = "loop"
    /\ UNCHANGED <<closed, dropped, pushing, now, reported, last>>
    /\ UNCHANGED <<closing, canceled, pushed, delivered>>

(* Mutant of ShipFails: a line that can not be shipped is not counted. *)
ShipFails_Uncounted ==
    /\ sender = "ship" /\ Unlocked
    /\ MayReach(inflight.id)
    /\ inflight' = NoLine /\ attempt' = 1
    /\ sender' = "loop"
    /\ UNCHANGED <<ringVars, pushing, now, reported, last>>
    /\ UNCHANGED <<closing, canceled, pushed, delivered>>

(* The last attempt failed, the ship timeout passed or the flush deadline  *)
(* canceled the POST: drop counts the line.                                *)
ShipFails ==
    /\ sender = "ship" /\ Unlocked
    /\ MayReach(inflight.id)
    /\ dropped' = [dropped EXCEPT ![inflight.rank] = @ + 1]
    /\ inflight' = NoLine /\ attempt' = 1
    /\ sender' = "loop"
    /\ UNCHANGED <<entries, bytes, closed, pushing, now, reported, last>>
    /\ UNCHANGED <<closing, canceled, pushed, delivered>>

AfterSummary == IF last THEN "ended" ELSE "loop"

(* shipDropSummary reads the counters and returns when nothing is new. *)
SummaryBegins ==
    /\ sender = "summary" /\ Unlocked
    /\ now' = dropped
    /\ sender' = IF dropped = reported \/ canceled THEN AfterSummary ELSE "shipSummary"
    /\ UNCHANGED <<ringVars, pushing, inflight, attempt, reported, last>>
    /\ UNCHANGED <<closing, canceled, pushed, delivered, latest>>

SummaryOK ==
    /\ sender = "shipSummary" /\ ~canceled
    /\ reported' = now
    /\ sender' = AfterSummary
    /\ UNCHANGED <<ringVars, pushing, inflight, attempt, now, last>>
    /\ UNCHANGED <<closing, canceled, pushed, delivered, latest>>

SummaryFails ==
    /\ sender = "shipSummary"
    /\ sender' = AfterSummary
    /\ UNCHANGED <<ringVars, pushing, inflight, attempt, now, reported, last>>
    /\ UNCHANGED <<closing, canceled, pushed, delivered, latest>>

-----------------------------------------------------------------------------
(* Close *)

(* Mutant of CloseBegins: Close does not close the ring. *)
CloseBegins_RingOpen ==
    /\ closing = "no" /\ Unlocked
    /\ closing' = "waiting"
    /\ UNCHANGED <<ringVars, pushing, sendVars, canceled, pushed, delivered, latest>>

CloseBegins ==
    /\ closing = "no" /\ Unlocked
    /\ closed' = TRUE
    /\ closing' = "waiting"
    /\ UNCHANGED <<entries, bytes, dropped, pushing, sendVars, canceled, pushed, delivered, latest>>

CloseFlushed ==
    /\ closing = "waiting" /\ sender = "ended"
    /\ closing' = "returned"
    /\ UNCHANGED <<ringVars, pushing, sendVars, canceled, pushed, delivered, latest>>

CloseDeadline ==
    /\ closing = "waiting"
    /\ canceled' = TRUE
    /\ closing' = "returned"
    /\ UNCHANGED <<ringVars, pushing, sendVars, pushed, delivered, latest>>

-----------------------------------------------------------------------------

Push == Evicts \/ PushDrops \/ PushAppends

Send ==
    \/ SendLoops \/ Pop \/ PopEnds
    \/ ShipRetries \/ ShipOK \/ ShipFails
    \/ SummaryBegins \/ SummaryOK \/ SummaryFails

RingNext ==
    \/ \E rank \in Ranks, len \in LineLens : PushBegins(rank, len)
    \/ Push \/ Send
    \/ CloseBegins \/ CloseFlushed \/ CloseDeadline

(* The holder of the lock and the sender run on; the POST in flight ends   *)
(* at the latest with its timeout, and the flush timer fires.              *)
Fairness == WF_logVars(Push) /\ WF_logVars(Send) /\ WF_logVars(CloseFlushed \/ CloseDeadline)

RingSpec == RingInit /\ [][RingNext]_logVars /\ Fairness

-----------------------------------------------------------------------------
(* Properties *)

TotalDropped == dropped[0] + dropped[1] + dropped[2] + dropped[3]

Held(line) == IF line = NoLine THEN 0 ELSE 1

(* Every line that push accepted is in exactly one place: in the hand of   *)
(* push, queued, in flight, delivered, or counted as dropped (drop, push). *)
(* No interleaving of push, pop, ship and Close loses a line uncounted or  *)
(* counts it twice.                                                        *)
NoLineLost ==
    pushed = Held(pushing) + Len(entries) + Held(inflight) + delivered + TotalDropped

(* The sender ships in order: the queued lines, the line in flight and     *)
(* what the server took are in the order they were logged, also when       *)
(* evictions (push) took lines out of the middle and POSTs were retried.   *)
ShippedInOrder ==
    /\ \A i, j \in DOMAIN entries : i < j => entries[i].id < entries[j].id
    /\ inflight # NoLine =>
        /\ \A i \in DOMAIN entries : inflight.id < entries[i].id
        /\ latest <= inflight.id
    /\ \A i \in DOMAIN entries : latest < entries[i].id

(* When Close returned because the sender had ended (Close, send), every   *)
(* line was delivered or counted, and a summary the server confirmed last  *)
(* holds every drop: nothing is counted after it.                          *)
FlushIsComplete ==
    sender = "ended" /\ ~canceled =>
        /\ pushed = delivered + TotalDropped
        /\ reported = dropped \/ now = dropped

(* What reaches the server is in the order it was logged and, once the     *)
(* sender has ended in time, all of it or counted in the last summary.     *)
DeliveryIsTrue == ShippedInOrder /\ FlushIsComplete

(* Close returns, and the sender goroutine it waited for or canceled ends. *)
CloseEndsSender == closing = "waiting" ~> closing = "returned" /\ sender = "ended"

=============================================================================
