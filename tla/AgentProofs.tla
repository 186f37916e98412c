----------------------------- MODULE AgentProofs -----------------------------
(***************************************************************************)
(* Proofs about the tasks that run in the background.  The second ESP of a *)
(* mirror stays bootable, for every set of files and every number of       *)
(* changes, failed steps and power losses.  The log ring: for every bound  *)
(* of the ring, every set of line lengths and every number of lines.       *)
(* Watchdog: its state is well typed and a stopped watchdog stays          *)
(* harmless, for every timeout, every set of steps and budgets and every   *)
(* duration of a keepalive, and a reset is deserved wherever the timing    *)
(* leaves room for one miss.                                               *)
(***************************************************************************)
EXTENDS Watchdog, LogRing, EspSync, SequenceTheorems, TLAPS

(* Zenon finds most of the steps; those that need arithmetic or a theory    *)
(* of functions cite SMT.                                                  *)
USE Zenon

-----------------------------------------------------------------------------
(* The second ESP. *)

Trees == [Disks -> [EspFiles -> Versions]]

(* The shape of the state. *)
ETypeOK ==
    /\ esp \in Trees /\ staged \in Trees
    /\ source \in Disks /\ peerThere \in BOOLEAN
    /\ espc \in {"down", "start", "watch", "idle", "copy", "prune", "replace"}
    /\ todo \subseteq EspFiles /\ kept \subseteq EspFiles
    /\ watching \in BOOLEAN /\ event \in BOOLEAN /\ timer \in BOOLEAN
    /\ opened \in EspFiles \cup {"none"} /\ changes \in Nat

(* Why a copy never loses a kept file: it is staged, or still to be staged,  *)
(* before anything is pruned; no kept file is pruned; and a rename puts a    *)
(* file in place that is there.                                              *)
KeptInv ==
    /\ kept \subseteq Present(esp[source])
    /\ peerThere => kept \subseteq Present(esp[Peer])
    /\ espc = "copy" => kept \subseteq todo \cup Present(staged[Peer])
    /\ espc = "prune" => kept \subseteq Present(staged[Peer]) /\ kept \cap todo = {}
    /\ espc = "replace" => todo \subseteq Present(staged[Peer])

(* No change of the source was seen or missed since the copy began. *)
Fresh == ~event /\ stale = {}

Copied == esp[Peer] = esp[source] /\ staged[Peer] = NoFiles

(* What a copy of an unchanged source has done at each of its places. *)
CopyInv ==
    Fresh =>
        /\ espc = "copy" =>
            \A f \in EspFiles : IF f \in todo THEN esp[source][f] # Missing
                                ELSE staged[Peer][f] = esp[source][f]
        /\ espc = "prune" =>
            /\ staged[Peer] = esp[source]
            /\ \A f \in EspFiles \ todo : staged[Peer][f] = Missing => esp[Peer][f] = Missing
        /\ espc = "replace" =>
            \A f \in EspFiles : IF f \in todo THEN staged[Peer][f] = esp[source][f]
                                ELSE esp[Peer][f] = esp[source][f] /\ staged[Peer][f] = Missing
        /\ espc = "watch" \/ (espc = "idle" /\ ~timer) => Copied

EInv == ETypeOK /\ KeptInv /\ CopyInv

-----------------------------------------------------------------------------
(* The peer is the other disk. *)
LEMMA PeerFacts == ASSUME source \in Disks PROVE Peer \in Disks /\ Peer # source
  BY DEF Peer, Other, Disks

(* The first copy starts from two equal ESPs. *)
LEMMA InitEInv == EspInit => EInv
<1>1. SUFFICES ASSUME EspInit PROVE EInv
  OBVIOUS
<1>2. ETypeOK
  BY <1>1 DEF EspInit, ETypeOK, Trees, Versions, NoFiles, Missing, TornFile, Disks
<1>3. KeptInv
  BY <1>1, SMT DEF EspInit, KeptInv, Present, Peer, Other, Missing, Disks
<1>4. CopyInv
  BY <1>1 DEF EspInit, CopyInv
<1>5. QED
  BY <1>2, <1>3, <1>4 DEF EInv

(* A change of the source keeps the peer and both stagings.  It is an event, *)
(* or it makes the copy stale.                                               *)
LEMMA SourceChanges ==
    ASSUME EInv, NEW f \in EspFiles, NEW v \in Versions,
           esp' = [esp EXCEPT ![source][f] = v], Notify,
           source' = source, peerThere' = peerThere, staged' = staged, espc' = espc,
           todo' = todo, watching' = watching, timer' = timer,
           opened' \in EspFiles \cup {"none"}, changes' \in Nat
    PROVE  EInv'
<1>1. Peer \in Disks /\ Peer # source /\ Peer' = Peer
  BY PeerFacts DEF EInv, ETypeOK, Peer
<1>2. /\ esp' \in Trees /\ esp'[Peer] = esp[Peer]
      /\ esp'[source] \in [EspFiles -> Versions]
  <2>1. esp \in Trees /\ source \in Disks
    BY DEF EInv, ETypeOK
  <2>2. QED
    BY <1>1, <2>1 DEF Trees
<1>3. ETypeOK'
  BY <1>2 DEF EInv, ETypeOK, Notify
<1>4. KeptInv'
  <2>1. kept' \subseteq kept /\ kept' \subseteq Present(esp'[source])
    BY DEF Notify
  <2>2. QED
    BY <1>1, <1>2, <2>1 DEF EInv, KeptInv, Present
<1>5. ~Fresh'
  BY DEF EInv, ETypeOK, Fresh, Notify
<1>6. QED
  BY <1>3, <1>4, <1>5 DEF EInv, CopyInv

(* The installed system writes and removes files. *)
LEMMA ChangeStep == ASSUME EInv, Change PROVE EInv'
<1>1. ASSUME NEW f \in EspFiles, WriteBegins(f) PROVE EInv'
  <2>1. TornFile \in Versions
    BY DEF Versions
  <2>2. opened' \in EspFiles \cup {"none"} /\ changes' \in Nat
    BY <1>1, SMT DEF WriteBegins, EInv, ETypeOK
  <2>3. QED
    BY <1>1, <2>1, <2>2, SourceChanges DEF WriteBegins
<1>2. ASSUME NEW f \in EspFiles, Removes(f) PROVE EInv'
  <2>1. Missing \in Versions
    BY DEF Versions
  <2>2. opened' \in EspFiles \cup {"none"} /\ changes' \in Nat
    BY <1>2, SMT DEF Removes, EInv, ETypeOK
  <2>3. QED
    BY <1>2, <2>1, <2>2, SourceChanges DEF Removes
<1>3. CASE WriteEnds
  <2>1. opened \in EspFiles /\ changes \in Versions
    BY <1>3 DEF WriteEnds, EInv, ETypeOK, Versions
  <2>2. QED
    BY <1>3, <2>1, SourceChanges DEF WriteEnds, EInv, ETypeOK
<1>4. QED
  BY <1>1, <1>2, <1>3 DEF Change

(* An event and the begin of the watch. *)
LEMMA WatchStep == ASSUME EInv, HandleEvent \/ AddWatches PROVE EInv'
<1>1. Peer' = Peer
  BY DEF HandleEvent, AddWatches, Peer
<1>2. ETypeOK'
  BY DEF EInv, ETypeOK, HandleEvent, AddWatches
<1>3. KeptInv'
  BY <1>1, SMT DEF EInv, KeptInv, HandleEvent, AddWatches
<1>4. CopyInv'
  BY <1>1 DEF EInv, CopyInv, Copied, Fresh, HandleEvent, AddWatches
<1>5. QED
  BY <1>2, <1>3, <1>4 DEF EInv

(* A copy that ends early is marked as failed and keeps both ESPs. *)
LEMMA FailStep ==
    ASSUME EInv, SyncFails,
           UNCHANGED <<esp, source, peerThere, watching, event, timer, opened, changes, kept>>
    PROVE  EInv'
<1>1. Peer \in Disks /\ Peer' = Peer
  BY PeerFacts DEF EInv, ETypeOK, Peer
<1>2. NoFiles \in [EspFiles -> Versions]
  BY DEF NoFiles, Versions
<1>3. ETypeOK'
  BY <1>1, <1>2 DEF EInv, ETypeOK, SyncFails, Trees
<1>4. KeptInv'
  BY <1>1 DEF EInv, KeptInv, SyncFails
<1>5. ~Fresh'
  BY DEF Fresh, SyncFails
<1>6. QED
  BY <1>3, <1>4, <1>5 DEF EInv, CopyInv

(* A copy begins with an empty staging and the names that it finds. *)
LEMMA BeginStep == ASSUME EInv, SyncBegins PROVE EInv'
<1>1. Peer \in Disks /\ Peer' = Peer
  BY PeerFacts DEF EInv, ETypeOK, SyncBegins, Peer
<1>2. CASE ~peerThere
  <2>1. ~Fresh'
    BY <1>2 DEF Fresh, SyncBegins
  <2>2. ETypeOK'
    BY <1>2 DEF EInv, ETypeOK, SyncBegins, AfterCopy
  <2>3. KeptInv'
    BY <1>1, <1>2 DEF EInv, KeptInv, SyncBegins, AfterCopy
  <2>4. QED
    BY <2>1, <2>2, <2>3 DEF EInv, CopyInv
<1>3. CASE peerThere
  <2>1. /\ staged' \in Trees
        /\ staged'[Peer] = NoFiles
    <3>1. NoFiles \in [EspFiles -> Versions]
      BY DEF NoFiles, Versions
    <3>2. QED
      BY <1>1, <1>3, <3>1 DEF EInv, ETypeOK, SyncBegins, cleanStaging, Trees
  <2>2. espc' = "copy" /\ todo' = Present(esp[source]) /\ esp' = esp /\ source' = source
    BY <1>3 DEF SyncBegins
  <2>3. ETypeOK'
    BY <1>3, <2>1, <2>2 DEF EInv, ETypeOK, SyncBegins, Present
  <2>4. KeptInv'
    BY <1>1, <1>3, <2>2 DEF EInv, KeptInv, SyncBegins
  <2>5. CopyInv'
    BY <1>1, <2>1, <2>2 DEF EInv, CopyInv, NoFiles, Present
  <2>6. QED
    BY <2>3, <2>4, <2>5 DEF EInv
<1>4. QED
  BY <1>2, <1>3

(* A file is staged as the source has it, or the copy fails. *)
LEMMA CopyStep == ASSUME EInv, NEW f \in EspFiles, CopyFile(f) PROVE EInv'
<1>1. CASE esp[source][f] = Missing
  BY <1>1, FailStep DEF CopyFile
<1>2. CASE esp[source][f] # Missing
  <2>1. Peer \in Disks /\ Peer' = Peer
    BY PeerFacts DEF EInv, ETypeOK, CopyFile, Peer
  <2>2. /\ staged' \in Trees
        /\ staged'[Peer][f] = esp[source][f]
        /\ \A g \in EspFiles \ {f} : staged'[Peer][g] = staged[Peer][g]
    <3>1. esp[source][f] \in Versions /\ staged \in Trees
      BY DEF EInv, ETypeOK, Trees
    <3>2. staged' = [staged EXCEPT ![Peer][f] = esp[source][f]]
      BY <1>2 DEF CopyFile
    <3>3. QED
      BY <2>1, <3>1, <3>2 DEF Trees
  <2>3. /\ espc = "copy" /\ espc' = "copy" /\ todo' = todo \ {f}
        /\ UNCHANGED <<esp, source, peerThere, watching, event, timer, opened, changes, stale, kept>>
    BY <1>2 DEF CopyFile
  <2>4. ETypeOK'
    BY <2>2, <2>3 DEF EInv, ETypeOK
  <2>5. KeptInv'
    BY <1>2, <2>1, <2>2, <2>3 DEF EInv, KeptInv, Present
  <2>6. CopyInv'
    BY <1>2, <2>1, <2>2, <2>3 DEF EInv, CopyInv, Fresh
  <2>7. QED
    BY <2>4, <2>5, <2>6 DEF EInv
<1>3. QED
  BY <1>1, <1>2

(* After the last file is staged, what the peer has beyond it is to go; when *)
(* it is gone, what is staged is to be put in place; then the copy ends.     *)
LEMMA PlaceStep == ASSUME EInv, Staged \/ Pruned \/ SyncEnds PROVE EInv'
<1>1. /\ Peer \in Disks /\ source \in Disks /\ Peer' = Peer
      /\ UNCHANGED <<esp, source, peerThere, staged, watching, event, timer, opened, changes, stale, kept>>
  BY PeerFacts DEF EInv, ETypeOK, Staged, Pruned, SyncEnds, Peer
<1>2. /\ esp[source] \in [EspFiles -> Versions] /\ esp[Peer] \in [EspFiles -> Versions]
      /\ staged[Peer] \in [EspFiles -> Versions]
  BY <1>1 DEF EInv, ETypeOK, Trees
<1>3. ETypeOK'
  BY <1>1 DEF EInv, ETypeOK, Staged, Pruned, SyncEnds, AfterCopy, Present, pruneTree
<1>4. CASE Staged
  <2>1. espc = "copy" /\ todo = {} /\ espc' = "prune"
        /\ todo' = Present(esp[Peer]) \ Present(staged[Peer])
    BY <1>4 DEF Staged, pruneTree
  <2>2. KeptInv'
    BY <1>1, <2>1 DEF EInv, KeptInv
  <2>3. ASSUME Fresh PROVE staged[Peer] = esp[source]
    BY <1>2, <2>1, <2>3, SMT DEF EInv, CopyInv
  <2>4. CopyInv'
    BY <1>1, <2>1, <2>3 DEF CopyInv, Fresh, Present
  <2>5. QED
    BY <1>3, <2>2, <2>4 DEF EInv
<1>5. CASE Pruned
  <2>1. espc = "prune" /\ todo = {} /\ espc' = "replace" /\ todo' = Present(staged[Peer])
    BY <1>5 DEF Pruned
  <2>2. KeptInv'
    BY <1>1, <2>1 DEF EInv, KeptInv
  <2>3. CopyInv'
    BY <1>1, <2>1 DEF EInv, CopyInv, Fresh, Present
  <2>4. QED
    BY <1>3, <2>2, <2>3 DEF EInv
<1>6. CASE SyncEnds
  <2>1. espc = "replace" /\ todo = {} /\ espc' \in {"idle", "watch"}
    BY <1>6 DEF SyncEnds, AfterCopy
  <2>2. KeptInv'
    BY <1>1, <2>1 DEF EInv, KeptInv
  <2>3. ASSUME Fresh PROVE Copied
    <3>1. \A f \in EspFiles : esp[Peer][f] = esp[source][f] /\ staged[Peer][f] = Missing
      BY <2>1, <2>3 DEF EInv, CopyInv
    <3>2. NoFiles \in [EspFiles -> Versions] /\ \A f \in EspFiles : NoFiles[f] = Missing
      BY DEF NoFiles, Versions
    <3>3. QED
      BY <1>2, <3>1, <3>2, SMT DEF Copied
  <2>4. CopyInv'
    BY <1>1, <2>1, <2>3 DEF CopyInv, Fresh, Copied
  <2>5. QED
    BY <1>3, <2>2, <2>4 DEF EInv
<1>7. QED
  BY <1>4, <1>5, <1>6

(* A file that is not staged is removed from the peer. *)
LEMMA PruneStep == ASSUME EInv, NEW f \in EspFiles, Prune(f) PROVE EInv'
<1>1. Peer \in Disks /\ source \in Disks /\ Peer # source /\ Peer' = Peer
  BY PeerFacts DEF EInv, ETypeOK, Prune, Peer
<1>2. /\ esp' \in Trees /\ esp'[source] = esp[source]
      /\ esp'[Peer][f] = Missing
      /\ \A g \in EspFiles \ {f} : esp'[Peer][g] = esp[Peer][g]
  <2>1. esp \in Trees /\ Missing \in Versions /\ esp' = [esp EXCEPT ![Peer][f] = Missing]
    BY DEF EInv, ETypeOK, Versions, Prune
  <2>2. QED
    BY <1>1, <2>1 DEF Trees
<1>3. /\ espc = "prune" /\ espc' = "prune" /\ f \in todo /\ todo' = todo \ {f}
      /\ UNCHANGED <<source, peerThere, staged, watching, event, timer, opened, changes, stale, kept>>
  BY DEF Prune
<1>4. ETypeOK'
  BY <1>2, <1>3 DEF EInv, ETypeOK
<1>5. KeptInv'
  BY <1>1, <1>2, <1>3 DEF EInv, KeptInv, Present
<1>6. CopyInv'
  BY <1>1, <1>2, <1>3 DEF EInv, CopyInv, Fresh
<1>7. QED
  BY <1>4, <1>5, <1>6 DEF EInv

(* A staged file is renamed into its place on the peer. *)
LEMMA ReplaceStep == ASSUME EInv, NEW f \in EspFiles, Replace(f) PROVE EInv'
<1>1. Peer \in Disks /\ source \in Disks /\ Peer # source /\ Peer' = Peer
  BY PeerFacts DEF EInv, ETypeOK, Replace, Peer
<1>2. /\ esp' \in Trees /\ esp'[source] = esp[source]
      /\ esp'[Peer][f] = staged[Peer][f]
      /\ \A g \in EspFiles \ {f} : esp'[Peer][g] = esp[Peer][g]
  <2>1. esp \in Trees /\ staged[Peer][f] \in Versions /\ esp' = [esp EXCEPT ![Peer][f] = staged[Peer][f]]
    BY <1>1 DEF EInv, ETypeOK, Trees, Replace
  <2>2. QED
    BY <1>1, <2>1 DEF Trees
<1>3. /\ staged' \in Trees /\ staged'[Peer][f] = Missing
      /\ \A g \in EspFiles \ {f} : staged'[Peer][g] = staged[Peer][g]
  <2>1. staged \in Trees /\ Missing \in Versions /\ staged' = [staged EXCEPT ![Peer][f] = Missing]
    BY DEF EInv, ETypeOK, Versions, Replace
  <2>2. QED
    BY <1>1, <2>1 DEF Trees
<1>4. /\ espc = "replace" /\ espc' = "replace" /\ f \in todo /\ todo' = todo \ {f}
      /\ UNCHANGED <<source, peerThere, watching, event, timer, opened, changes, stale, kept>>
  BY DEF Replace
<1>5. ETypeOK'
  BY <1>2, <1>3, <1>4 DEF EInv, ETypeOK
<1>6. KeptInv'
  BY <1>1, <1>2, <1>3, <1>4 DEF EInv, KeptInv, Present
<1>7. CopyInv'
  BY <1>1, <1>2, <1>3, <1>4 DEF EInv, CopyInv, Fresh
<1>8. QED
  BY <1>5, <1>6, <1>7 DEF EInv

(* Power loss, and the boot that chooses the source anew. *)
LEMMA PowerStep ==
    ASSUME EInv, PowerLoss \/ \E d \in Disks, there \in BOOLEAN : Boot(d, there)
    PROVE  EInv'
<1>1. CASE PowerLoss
  <2>1. Peer' = Peer
    BY <1>1 DEF PowerLoss, Peer
  <2>2. ETypeOK'
    BY <1>1 DEF EInv, ETypeOK, PowerLoss
  <2>3. KeptInv'
    BY <1>1, <2>1 DEF EInv, KeptInv, PowerLoss
  <2>4. CopyInv'
    BY <1>1 DEF CopyInv, PowerLoss
  <2>5. QED
    BY <2>2, <2>3, <2>4 DEF EInv
<1>2. ASSUME NEW d \in Disks, NEW there \in BOOLEAN, Boot(d, there) PROVE EInv'
  <2>1. Peer' = Other(d)
    BY <1>2 DEF Boot, Peer
  <2>2. ETypeOK'
    BY <1>2 DEF EInv, ETypeOK, Boot, Present
  <2>3. KeptInv'
    BY <1>2, <2>1 DEF KeptInv, Boot
  <2>4. CopyInv'
    BY <1>2 DEF CopyInv, Boot
  <2>5. QED
    BY <2>2, <2>3, <2>4 DEF EInv
<1>3. QED
  BY <1>1, <1>2

(* The invariant of the copy is inductive. *)
LEMMA NextEInv == EInv /\ [EspNext]_evars => EInv'
<1>1. SUFFICES ASSUME EInv, [EspNext]_evars PROVE EInv'
  OBVIOUS
<1>2. CASE Change
  BY <1>1, <1>2, ChangeStep
<1>3. CASE Service
  BY <1>1, <1>3, WatchStep, BeginStep, CopyStep, PlaceStep, PruneStep, ReplaceStep DEF Service
<1>4. CASE StepFails
  BY <1>1, <1>4, FailStep DEF StepFails
<1>5. CASE PowerLoss \/ \E d \in Disks, there \in BOOLEAN : Boot(d, there)
  BY <1>1, <1>5, PowerStep
<1>6. CASE UNCHANGED evars
  <2>1. UNCHANGED <<esp, source, peerThere, staged, espc, todo, watching, event, timer, opened, changes, stale, kept>>
    BY <1>6 DEF evars
  <2>2. ETypeOK'
    BY <1>1, <2>1 DEF EInv, ETypeOK
  <2>3. KeptInv'
    BY <1>1, <2>1 DEF EInv, KeptInv, Peer
  <2>4. CopyInv'
    BY <1>1, <2>1 DEF EInv, CopyInv, Fresh, Copied, Peer
  <2> QED BY <2>2, <2>3, <2>4 DEF EInv
<1>7. QED
  BY <1>1, <1>2, <1>3, <1>4, <1>5, <1>6 DEF EspNext

(* For every set of files and every number of changes, failures and power    *)
(* losses: a boot file that both ESPs have is never missing on the peer, and *)
(* an idle service has made the peer current (CopyTree, replacePath).        *)
THEOREM PeerStaysBootableAlways == EspSpec => []PeerStaysBootable
<1>1. EInv => PeerStaysBootable
  BY DEF EInv, KeptInv, CopyInv, Fresh, Copied, PeerStaysBootable, PeerKeepsBootFiles, PeerIsCurrent
<1>2. QED
  BY <1>1, InitEInv, NextEInv, PTL DEF EspSpec

-----------------------------------------------------------------------------
(* The log ring. *)


(* What Without leaves of a sequence: every line but the evicted one, in   *)
(* the same order (push, the removal of the victim).                       *)
LEMMA WithoutFacts ==
    ASSUME NEW S, NEW s \in Seq(S), NEW v \in 1 .. Len(s)
    PROVE  /\ Without(s, v) \in Seq(S)
           /\ Len(Without(s, v)) = Len(s) - 1
           /\ \A i \in 1 .. Len(s) - 1 :
                Without(s, v)[i] = IF i < v THEN s[i] ELSE s[i + 1]
<1> DEFINE a == SubSeq(s, 1, v - 1)
           b == SubSeq(s, v + 1, Len(s))
<1>0. \A i \in 1 .. Len(s) : s[i] \in S
  BY ElementOfSeq
<1>1. a \in Seq(S) /\ Len(a) = v - 1 /\ \A i \in 1 .. v - 1 : a[i] = s[i]
  <2>1. \A i \in 1 .. v - 1 : s[i] \in S
    BY <1>0, SMT
  <2>2. /\ a \in Seq(S)
        /\ Len(a) = IF 1 <= v - 1 THEN (v - 1) - 1 + 1 ELSE 0
        /\ \A i \in 1 .. (v - 1) - 1 + 1 : a[i] = s[1 + i - 1]
    BY <2>1, SubSeqProperties, SMT
  <2>3. QED
    BY <2>2, SMT
<1>2. b \in Seq(S) /\ Len(b) = Len(s) - v /\ \A i \in 1 .. Len(s) - v : b[i] = s[v + i]
  <2>1. \A i \in v + 1 .. Len(s) : s[i] \in S
    BY <1>0, SMT
  <2>2. /\ b \in Seq(S)
        /\ Len(b) = IF v + 1 <= Len(s) THEN Len(s) - (v + 1) + 1 ELSE 0
        /\ \A i \in 1 .. Len(s) - (v + 1) + 1 : b[i] = s[(v + 1) + i - 1]
    BY <2>1, SubSeqProperties, SMT
  <2>3. QED
    BY <2>2, SMT
<1> HIDE DEF a, b
<1>3. /\ a \o b \in Seq(S)
      /\ Len(a \o b) = Len(a) + Len(b)
      /\ \A i \in 1 .. Len(a) + Len(b) :
            (a \o b)[i] = IF i <= Len(a) THEN a[i] ELSE b[i - Len(a)]
  BY <1>1, <1>2, ConcatProperties
<1>4. \A i \in 1 .. Len(s) - 1 : (a \o b)[i] = IF i < v THEN s[i] ELSE s[i + 1]
  BY <1>1, <1>2, <1>3, SMT
<1>5. Without(s, v) = a \o b
  BY DEF Without, a, b
<1>6. Len(a \o b) = Len(s) - 1
  BY <1>1, <1>2, <1>3, SMT
<1>7. QED
  BY <1>3, <1>4, <1>5, <1>6

-----------------------------------------------------------------------------
(* The inductive invariant *)

(* The types that the proofs need: without the byte count, which is a sum. *)
Types ==
    /\ entries \in Seq(Lines)
    /\ dropped \in [Ranks -> Nat]
    /\ pushing \in Lines \cup {NoLine}
    /\ inflight \in Lines \cup {NoLine}
    /\ pushed \in Nat /\ delivered \in Nat /\ latest \in Nat

(* Where the sender is tells whether a line is in flight, and after its    *)
(* last pop nothing is pushed, queued or dropped any more.                 *)
SenderState ==
    /\ sender = "ship" <=> inflight # NoLine
    /\ last => closed /\ entries = <<>> /\ pushing = NoLine
               /\ sender \in {"summary", "shipSummary", "ended"}
    /\ sender = "ended" => canceled \/ last
    /\ last /\ sender \in {"shipSummary", "ended"} => now = dropped

(* The order of everything that was logged: what the server took, the line *)
(* in flight, the queue, the line in the hand of push.                     *)
Order ==
    /\ ShippedInOrder
    /\ pushing # NoLine => pushing.id = pushed
    /\ latest <= pushed
    /\ \A i \in DOMAIN entries : entries[i].id <= pushed
    /\ inflight # NoLine => inflight.id <= pushed
    /\ pushing # NoLine =>
        /\ latest < pushed
        /\ \A i \in DOMAIN entries : entries[i].id < pushed
        /\ inflight # NoLine => inflight.id < pushed

IInv == Types /\ SenderState /\ Order /\ NoLineLost

(* The empty ring, the idle sender and the zero counters satisfy it. *)
LEMMA InitIInv == RingInit => IInv
<1> SUFFICES ASSUME RingInit PROVE IInv
  OBVIOUS
<1>1. Types
  BY SMT DEF RingInit, Types, NoDrops, Ranks
<1>2. SenderState
  BY DEF RingInit, SenderState
<1>3. Order
  BY SMT DEF RingInit, Order, ShippedInOrder
<1>4. NoLineLost
  BY SMT DEF RingInit, NoLineLost, Held, TotalDropped, NoDrops, Ranks
<1>5. QED
  BY <1>1, <1>2, <1>3, <1>4 DEF IInv

(* The summands of NoLineLost are numbers. *)
LEMMA Summands ==
    ASSUME Types
    PROVE  Len(entries) \in Nat /\ TotalDropped \in Nat /\ delivered \in Nat /\ pushed \in Nat
<1>1. Len(entries) \in Nat
  BY LenProperties DEF Types
<1>2. dropped[0] \in Nat /\ dropped[1] \in Nat /\ dropped[2] \in Nat /\ dropped[3] \in Nat
  BY SMT DEF Types, Ranks
<1>3. TotalDropped \in Nat
  BY <1>2, SMT DEF TotalDropped
<1>4. QED
  BY <1>1, <1>3 DEF Types

(* A place holds one line or none. *)
LEMMA HeldIsNat == \A line : Held(line) \in Nat
  BY DEF Held

(* One more drop of a rank is one more drop in total (drop). *)
LEMMA OneMoreDrop ==
    ASSUME NEW r \in Ranks, dropped \in [Ranks -> Nat],
           dropped' = [dropped EXCEPT ![r] = @ + 1]
    PROVE  dropped' \in [Ranks -> Nat] /\ TotalDropped' = TotalDropped + 1 /\ TotalDropped \in Nat
  BY SMT DEF TotalDropped, Ranks

(* A logged line is never the placeholder: its number is positive. *)
LEMMA LineIsNotNoLine ==
    ASSUME NEW line \in Lines
    PROVE  line # NoLine /\ line.id \in Nat \ {0} /\ line.rank \in Ranks
  BY SMT DEF Lines, NoLine

(* push: the line takes the next number. *)
LEMMA PushBeginsStep ==
    ASSUME IInv, NEW rank \in Ranks, NEW len \in LineLens, PushBegins(rank, len)
    PROVE  IInv'
<1> USE DEF PushBegins, ringVars, sendVars
<1>1. PICK n \in CutLens(len) : pushing' = [id |-> pushed + 1, rank |-> rank, len |-> n]
  OBVIOUS
<1>2. pushing' \in Lines /\ pushing'.id = pushed + 1
  BY <1>1, LogRingAssumption, SMT DEF CutLens, Lines, IInv, Types
<1>3. pushing' # NoLine
  BY <1>2, LineIsNotNoLine
<1>4. Types'
  BY <1>2, SMT DEF IInv, Types
<1>5. SenderState'
  BY DEF IInv, SenderState
<1>6. Order'
  BY <1>2, <1>3, LineIsNotNoLine, SMT DEF IInv, Types, Order, ShippedInOrder, Unlocked
<1>7. NoLineLost'
  <2>1. Held(pushing) = 0 /\ Held(pushing)' = 1 /\ Held(inflight)' = Held(inflight)
    BY <1>3 DEF Held, Unlocked
  <2>2. /\ TotalDropped' = TotalDropped /\ Len(entries)' = Len(entries)
        /\ pushed' = pushed + 1 /\ delivered' = delivered
    BY DEF TotalDropped
  <2> HIDE DEF PushBegins
  <2>3. pushed = Held(pushing) + Len(entries) + Held(inflight) + delivered + TotalDropped
    BY DEF IInv, NoLineLost
  <2>4. /\ Len(entries) \in Nat /\ delivered \in Nat /\ Held(inflight) \in Nat
        /\ TotalDropped \in Nat
    BY Summands, HeldIsNat DEF IInv
  <2>5. pushed + 1 = 1 + Len(entries) + Held(inflight) + delivered + TotalDropped
    BY <2>1, <2>3, <2>4, SMTT(30)
  <2>6. QED
    BY <2>1, <2>2, <2>5 DEF NoLineLost
<1>8. QED
  BY <1>4, <1>5, <1>6, <1>7 DEF IInv

(* push on a full ring: a queued line becomes a counted drop. *)
LEMMA EvictsStep ==
    ASSUME IInv, Evicts
    PROVE  IInv'
<1> USE DEF Evicts, sendVars
<1>1. PICK v \in DOMAIN entries :
        /\ dropped' = [dropped EXCEPT ![entries[v].rank] = @ + 1]
        /\ entries' = Without(entries, v)
  OBVIOUS
<1>2. v \in 1 .. Len(entries) /\ entries[v] \in Lines
  BY ElementOfSeq, SMT DEF IInv, Types
<1>3. /\ entries' \in Seq(Lines)
      /\ Len(entries') = Len(entries) - 1
      /\ \A i \in 1 .. Len(entries) - 1 : entries'[i] = IF i < v THEN entries[i] ELSE entries[i + 1]
  <2>1. entries \in Seq(Lines)
    BY DEF IInv, Types
  <2> HIDE DEF Evicts
  <2>2. /\ Without(entries, v) \in Seq(Lines)
        /\ Len(Without(entries, v)) = Len(entries) - 1
        /\ \A i \in 1 .. Len(entries) - 1 :
              Without(entries, v)[i] = IF i < v THEN entries[i] ELSE entries[i + 1]
    BY <1>2, <2>1, WithoutFacts
  <2>3. QED
    BY <1>1, <2>2
<1>4. dropped' \in [Ranks -> Nat] /\ TotalDropped' = TotalDropped + 1 /\ TotalDropped \in Nat
  BY <1>1, <1>2, LineIsNotNoLine, OneMoreDrop DEF IInv, Types
<1>5. Types'
  BY <1>3, <1>4 DEF IInv, Types
<1>6. SenderState'
  BY DEF IInv, SenderState, Unlocked
<1>7. Order'
  <2>1. \A i \in DOMAIN entries : entries[i].id \in Nat
    BY ElementOfSeq, LineIsNotNoLine, SMT DEF IInv, Types
  <2>2. DOMAIN entries' = 1 .. Len(entries) - 1 /\ DOMAIN entries = 1 .. Len(entries)
    BY <1>3, SMT DEF IInv, Types
  <2>3. \A i \in DOMAIN entries' : \E k \in DOMAIN entries :
            entries'[i] = entries[k] /\ k = IF i < v THEN i ELSE i + 1
    BY <1>2, <1>3, <2>2, SMT
  <2>4. \A i, j \in DOMAIN entries' : i < j => entries'[i].id < entries'[j].id
    <3> SUFFICES ASSUME NEW i \in DOMAIN entries', NEW j \in DOMAIN entries', i < j
                 PROVE  entries'[i].id < entries'[j].id
      OBVIOUS
    <3>1. PICK k \in DOMAIN entries : entries'[i] = entries[k] /\ k = IF i < v THEN i ELSE i + 1
      BY <2>3
    <3>2. PICK l \in DOMAIN entries : entries'[j] = entries[l] /\ l = IF j < v THEN j ELSE j + 1
      BY <2>3
    <3>3. k < l
      BY <1>2, <2>2, <3>1, <3>2, SMT
    <3>4. QED
      BY <3>1, <3>2, <3>3 DEF IInv, Order, ShippedInOrder
  <2>5. QED
    BY <2>3, <2>4 DEF IInv, Order, ShippedInOrder
<1>8. NoLineLost'
  <2>1. /\ Held(pushing)' = Held(pushing) /\ Held(inflight)' = Held(inflight)
        /\ pushed' = pushed /\ delivered' = delivered
    BY DEF Held
  <2>2. Len(entries)' = Len(entries) - 1
    BY <1>3
  <2> HIDE DEF Evicts
  <2>3. /\ Len(entries) \in Nat /\ delivered \in Nat
        /\ Held(pushing) \in Nat /\ Held(inflight) \in Nat
    BY Summands, HeldIsNat DEF IInv
  <2>4. pushed = Held(pushing) + Len(entries) + Held(inflight) + delivered + TotalDropped
    BY DEF IInv, NoLineLost
  <2>5. TotalDropped' = TotalDropped + 1 /\ TotalDropped \in Nat
    BY <1>4
  <2>6. pushed = Held(pushing) + (Len(entries) - 1) + Held(inflight) + delivered + (TotalDropped + 1)
    BY <2>3, <2>4, <2>5, SMTT(30)
  <2>7. QED
    BY <2>1, <2>2, <2>5, <2>6 DEF NoLineLost
<1>9. QED
  BY <1>5, <1>6, <1>7, <1>8 DEF IInv

(* push on a ring of higher lines: the new line becomes a counted drop. *)
LEMMA PushDropsStep ==
    ASSUME IInv, PushDrops
    PROVE  IInv'
<1> USE DEF PushDrops, sendVars
<1>1. pushing \in Lines
  BY DEF IInv, Types, Unlocked
<1>2. dropped' \in [Ranks -> Nat] /\ TotalDropped' = TotalDropped + 1 /\ TotalDropped \in Nat
  BY <1>1, LineIsNotNoLine, OneMoreDrop DEF IInv, Types
<1>3. Types'
  BY <1>2 DEF IInv, Types
<1>4. SenderState'
  BY DEF IInv, SenderState, Unlocked
<1>5. Order'
  BY DEF IInv, Order, ShippedInOrder
<1>6. NoLineLost'
  <2>1. /\ Held(pushing) = 1 /\ Held(pushing)' = 0 /\ Held(inflight)' = Held(inflight)
        /\ pushed' = pushed /\ delivered' = delivered /\ Len(entries)' = Len(entries)
    BY DEF Held, Unlocked
  <2> HIDE DEF PushDrops
  <2>2. pushed = Held(pushing) + Len(entries) + Held(inflight) + delivered + TotalDropped
    BY DEF IInv, NoLineLost
  <2>3. /\ Len(entries) \in Nat /\ delivered \in Nat /\ Held(inflight) \in Nat
        /\ TotalDropped \in Nat
    BY Summands, HeldIsNat DEF IInv
  <2>4. pushed = 0 + Len(entries) + Held(inflight) + delivered + (TotalDropped + 1)
    BY <2>1, <2>2, <2>3, SMTT(30)
  <2>5. QED
    BY <1>2, <2>1, <2>4 DEF NoLineLost
<1>7. QED
  BY <1>3, <1>4, <1>5, <1>6 DEF IInv

(* push on a ring with room: the line goes to the end of the queue. *)
LEMMA PushAppendsStep ==
    ASSUME IInv, PushAppends
    PROVE  IInv'
<1> USE DEF PushAppends, sendVars
<1>1. pushing \in Lines /\ pushing # NoLine /\ pushing.id = pushed /\ entries \in Seq(Lines)
  BY DEF IInv, Types, Order, Unlocked
<1>2. /\ entries' \in Seq(Lines)
      /\ Len(entries') = Len(entries) + 1
      /\ \A i \in 1 .. Len(entries) : entries'[i] = entries[i]
      /\ entries'[Len(entries) + 1] = pushing
  BY <1>1, AppendProperties, SMT
<1>3. Types'
  BY <1>2 DEF IInv, Types
<1>4. SenderState'
  BY <1>1 DEF IInv, SenderState
<1>5. Order'
  <2>1. DOMAIN entries' = 1 .. Len(entries) + 1 /\ DOMAIN entries = 1 .. Len(entries)
    BY <1>1, <1>2, SMT
  <2>2. \A i \in DOMAIN entries' :
            \/ i \in DOMAIN entries /\ entries'[i] = entries[i]
            \/ i = Len(entries) + 1 /\ entries'[i] = pushing
    BY <1>1, <1>2, <2>1, SMT
  <2>3. \A i, j \in DOMAIN entries' : i < j => entries'[i].id < entries'[j].id
    BY <1>1, <2>1, <2>2, SMT DEF IInv, Order, ShippedInOrder
  <2>4. /\ \A i \in DOMAIN entries' : latest < entries'[i].id /\ entries'[i].id <= pushed
        /\ inflight # NoLine => \A i \in DOMAIN entries' : inflight.id < entries'[i].id
    BY <1>1, <2>2, SMT DEF IInv, Types, Order, ShippedInOrder
  <2>5. QED
    BY <2>3, <2>4 DEF IInv, Order, ShippedInOrder
<1>6. NoLineLost'
  <2>1. /\ Held(pushing) = 1 /\ Held(pushing)' = 0 /\ Held(inflight)' = Held(inflight)
        /\ pushed' = pushed /\ delivered' = delivered
    BY <1>1 DEF Held
  <2>2. Len(entries)' = Len(entries) + 1 /\ TotalDropped' = TotalDropped
    BY <1>2 DEF TotalDropped
  <2> HIDE DEF PushAppends
  <2>3. pushed = Held(pushing) + Len(entries) + Held(inflight) + delivered + TotalDropped
    BY DEF IInv, NoLineLost
  <2>4. /\ Len(entries) \in Nat /\ delivered \in Nat /\ Held(inflight) \in Nat
        /\ TotalDropped \in Nat
    BY Summands, HeldIsNat DEF IInv
  <2>5. pushed = 0 + (Len(entries) + 1) + Held(inflight) + delivered + TotalDropped
    BY <2>1, <2>3, <2>4, SMTT(30)
  <2>6. QED
    BY <2>1, <2>2, <2>5 DEF NoLineLost
<1>7. QED
  BY <1>3, <1>4, <1>5, <1>6 DEF IInv

(* Steps that touch no line: the loop of send, the summaries, Close. *)
LEMMA SameLines ==
    ASSUME IInv, UNCHANGED <<entries, dropped, pushing, inflight, pushed, delivered, latest>>
    PROVE  Types' /\ Order' /\ NoLineLost'
  BY DEF IInv, Types, Order, ShippedInOrder, NoLineLost, Held, TotalDropped

(* The loop of send ends only on a canceled context. *)
LEMMA SendLoopsStep ==
    ASSUME IInv, SendLoops
    PROVE  IInv'
<1>1. Types' /\ Order' /\ NoLineLost'
  BY SameLines DEF SendLoops, ringVars
<1>2. SenderState'
  BY DEF SendLoops, ringVars, IInv, SenderState
<1>3. QED
  BY <1>1, <1>2 DEF IInv

(* The end of pop: the ring is closed, empty and not locked. *)
LEMMA PopEndsStep ==
    ASSUME IInv, PopEnds
    PROVE  IInv'
<1>1. Types' /\ Order' /\ NoLineLost'
  BY SameLines DEF PopEnds, ringVars
<1>2. SenderState'
  BY DEF PopEnds, ringVars, IInv, SenderState, Unlocked
<1>3. QED
  BY <1>1, <1>2 DEF IInv

(* shipDropSummary: the last one has read the final counters. *)
LEMMA SummaryStep ==
    ASSUME IInv, SummaryBegins \/ SummaryOK \/ SummaryFails
    PROVE  IInv'
<1>1. Types' /\ Order' /\ NoLineLost'
  BY SameLines DEF SummaryBegins, SummaryOK, SummaryFails, ringVars
<1>2. SenderState'
  BY SMT DEF SummaryBegins, SummaryOK, SummaryFails, AfterSummary, ringVars, IInv, SenderState
<1>3. QED
  BY <1>1, <1>2 DEF IInv

(* Close takes no line away; its deadline only cancels the sender. *)
LEMMA CloseStep ==
    ASSUME IInv, CloseBegins \/ CloseFlushed \/ CloseDeadline
    PROVE  IInv'
<1>1. Types' /\ Order' /\ NoLineLost'
  BY SameLines DEF CloseBegins, CloseFlushed, CloseDeadline, ringVars, sendVars
<1>2. SenderState'
  BY SMT DEF CloseBegins, CloseFlushed, CloseDeadline, ringVars, sendVars, IInv, SenderState
<1>3. QED
  BY <1>1, <1>2 DEF IInv

(* pop: the oldest line leaves the queue for the hand of the sender. *)
LEMMA PopStep ==
    ASSUME IInv, Pop
    PROVE  IInv'
<1> USE DEF Pop
<1>1. entries \in Seq(Lines) /\ entries # <<>> /\ inflight = NoLine /\ pushing = NoLine
  BY DEF IInv, Types, SenderState, Unlocked
<1>2. /\ Head(entries) \in Lines /\ Head(entries) = entries[1]
      /\ entries' \in Seq(Lines)
      /\ Len(entries') = Len(entries) - 1
      /\ \A i \in 1 .. Len(entries') : entries'[i] = entries[i + 1]
  BY <1>1, HeadTailProperties, SMT
<1>3. inflight' \in Lines /\ inflight' # NoLine
  BY <1>2, LineIsNotNoLine
<1>4. Types'
  BY <1>2, <1>3 DEF IInv, Types
<1>5. SenderState'
  BY <1>3 DEF IInv, SenderState
<1>6. Order'
  <2>1. /\ DOMAIN entries' = 1 .. Len(entries) - 1 /\ DOMAIN entries = 1 .. Len(entries)
        /\ Len(entries) \in Nat \ {0} /\ 1 \in DOMAIN entries
    BY <1>1, <1>2, SMT
  <2>2. \A i \in DOMAIN entries' : i + 1 \in DOMAIN entries /\ entries'[i] = entries[i + 1]
    BY <1>2, <2>1, SMT
  <2>3. \A i, j \in DOMAIN entries' : i < j => entries'[i].id < entries'[j].id
    BY <2>1, <2>2, SMT DEF IInv, Order, ShippedInOrder
  <2>4. \A i \in DOMAIN entries' :
            /\ inflight'.id < entries'[i].id
            /\ latest < entries'[i].id
            /\ entries'[i].id <= pushed
    BY <1>2, <2>1, <2>2, SMT DEF IInv, Order, ShippedInOrder
  <2>5. latest <= inflight'.id /\ inflight'.id <= pushed
    BY <1>2, <2>1, LineIsNotNoLine, SMT DEF IInv, Types, Order, ShippedInOrder
  <2>6. QED
    BY <1>1, <2>3, <2>4, <2>5 DEF IInv, Order, ShippedInOrder
<1>7. NoLineLost'
  <2>1. /\ Held(pushing)' = Held(pushing) /\ Held(inflight) = 0 /\ Held(inflight)' = 1
        /\ pushed' = pushed /\ delivered' = delivered
    BY <1>1, <1>3 DEF Held
  <2>2. Len(entries)' = Len(entries) - 1 /\ TotalDropped' = TotalDropped
    BY <1>2 DEF TotalDropped
  <2> HIDE DEF Pop
  <2>3. pushed = Held(pushing) + Len(entries) + Held(inflight) + delivered + TotalDropped
    BY DEF IInv, NoLineLost
  <2>4. /\ Len(entries) \in Nat /\ delivered \in Nat /\ Held(pushing) \in Nat
        /\ TotalDropped \in Nat
    BY Summands, HeldIsNat DEF IInv
  <2>5. pushed = Held(pushing) + (Len(entries) - 1) + 1 + delivered + TotalDropped
    BY <2>1, <2>3, <2>4, SMTT(30)
  <2>6. QED
    BY <2>1, <2>2, <2>5 DEF NoLineLost
<1>8. QED
  BY <1>4, <1>5, <1>6, <1>7 DEF IInv

(* The server may have taken the line in flight: the order stays. *)
LEMMA TakenInOrder ==
    ASSUME IInv, inflight # NoLine, latest' \in {latest, inflight.id},
           UNCHANGED <<entries, pushing, pushed>>, inflight' \in {inflight, NoLine}
    PROVE  Order' /\ latest' \in Nat
<1>1. inflight \in Lines /\ inflight.id \in Nat
  BY LineIsNotNoLine DEF IInv, Types
<1>2. latest' \in Nat /\ latest' <= inflight.id
  BY <1>1, SMT DEF IInv, Types, Order, ShippedInOrder
<1>3. latest' <= pushed /\ (pushing # NoLine => latest' < pushed)
  BY DEF IInv, Order
<1>4. \A i \in DOMAIN entries : latest' < entries[i].id
  BY DEF IInv, Order, ShippedInOrder
<1>5. QED
  BY <1>2, <1>3, <1>4 DEF IInv, Order, ShippedInOrder

(* A retry of the POST. *)
LEMMA ShipRetriesStep ==
    ASSUME IInv, ShipRetries
    PROVE  IInv'
<1> USE DEF ShipRetries, ringVars, MayReach
<1>1. inflight # NoLine
  BY DEF IInv, SenderState
<1>2. Order' /\ latest' \in Nat
  BY <1>1, TakenInOrder
<1>3. Types'
  BY <1>2 DEF IInv, Types
<1>4. SenderState'
  BY DEF IInv, SenderState
<1>5. NoLineLost'
  BY DEF IInv, NoLineLost, Held, TotalDropped
<1>6. QED
  BY <1>2, <1>3, <1>4, <1>5 DEF IInv

(* A confirmed POST: the line is delivered. *)
LEMMA ShipOKStep ==
    ASSUME IInv, ShipOK
    PROVE  IInv'
<1> USE DEF ShipOK, ringVars
<1>1. inflight # NoLine
  BY DEF IInv, SenderState
<1>2. Order' /\ latest' \in Nat
  BY <1>1, TakenInOrder
<1>3. Types'
  BY <1>2, SMT DEF IInv, Types
<1>4. SenderState'
  BY DEF IInv, SenderState
<1>5. NoLineLost'
  <2>1. /\ Held(pushing)' = Held(pushing) /\ Held(inflight) = 1 /\ Held(inflight)' = 0
        /\ pushed' = pushed /\ delivered' = delivered + 1
        /\ Len(entries)' = Len(entries) /\ TotalDropped' = TotalDropped
    BY <1>1 DEF Held, TotalDropped
  <2> HIDE DEF ShipOK
  <2>2. pushed = Held(pushing) + Len(entries) + Held(inflight) + delivered + TotalDropped
    BY DEF IInv, NoLineLost
  <2>3. /\ Len(entries) \in Nat /\ delivered \in Nat /\ Held(pushing) \in Nat
        /\ TotalDropped \in Nat
    BY Summands, HeldIsNat DEF IInv
  <2>4. pushed = Held(pushing) + Len(entries) + 0 + (delivered + 1) + TotalDropped
    BY <2>1, <2>2, <2>3, SMTT(30)
  <2>5. QED
    BY <2>1, <2>4 DEF NoLineLost
<1>6. QED
  BY <1>2, <1>3, <1>4, <1>5 DEF IInv

(* A POST that failed for good: drop counts the line. *)
LEMMA ShipFailsStep ==
    ASSUME IInv, ShipFails
    PROVE  IInv'
<1> USE DEF ShipFails, MayReach
<1>1. inflight # NoLine /\ inflight \in Lines
  BY DEF IInv, SenderState, Types
<1>2. Order' /\ latest' \in Nat
  BY <1>1, TakenInOrder
<1>3. dropped' \in [Ranks -> Nat] /\ TotalDropped' = TotalDropped + 1 /\ TotalDropped \in Nat
  BY <1>1, LineIsNotNoLine, OneMoreDrop DEF IInv, Types
<1>4. Types'
  BY <1>2, <1>3 DEF IInv, Types
<1>5. SenderState'
  BY DEF IInv, SenderState
<1>6. NoLineLost'
  <2>1. /\ Held(pushing)' = Held(pushing) /\ Held(inflight) = 1 /\ Held(inflight)' = 0
        /\ pushed' = pushed /\ delivered' = delivered /\ Len(entries)' = Len(entries)
    BY <1>1 DEF Held
  <2> HIDE DEF ShipFails
  <2>2. pushed = Held(pushing) + Len(entries) + Held(inflight) + delivered + TotalDropped
    BY DEF IInv, NoLineLost
  <2>3. Len(entries) \in Nat /\ delivered \in Nat /\ Held(pushing) \in Nat
    BY Summands, HeldIsNat DEF IInv
  <2>4. TotalDropped' = TotalDropped + 1 /\ TotalDropped \in Nat
    BY <1>3
  <2>5. pushed = Held(pushing) + Len(entries) + 0 + delivered + (TotalDropped + 1)
    BY <2>1, <2>2, <2>3, <2>4, SMT
  <2>6. QED
    BY <2>1, <2>4, <2>5 DEF NoLineLost
<1>7. QED
  BY <1>2, <1>4, <1>5, <1>6 DEF IInv

-----------------------------------------------------------------------------
(* The theorems *)

(* Every step of push, the sender and Close preserves the invariant. *)
LEMMA NextIInv == IInv /\ [RingNext]_logVars => IInv'
<1> SUFFICES ASSUME IInv, [RingNext]_logVars PROVE IInv'
  OBVIOUS
<1>1. CASE \E rank \in Ranks, len \in LineLens : PushBegins(rank, len)
  BY <1>1, PushBeginsStep
<1>2. CASE Push
  BY <1>2, EvictsStep, PushDropsStep, PushAppendsStep DEF Push
<1>3. CASE Send
  BY <1>3, SendLoopsStep, PopStep, PopEndsStep, ShipRetriesStep, ShipOKStep, ShipFailsStep,
     SummaryStep DEF Send
<1>4. CASE CloseBegins \/ CloseFlushed \/ CloseDeadline
  BY <1>4, CloseStep
<1>5. CASE UNCHANGED logVars
  <2>1. Types' /\ Order' /\ NoLineLost'
    BY <1>5, SameLines DEF logVars, ringVars, sendVars
  <2>2. SenderState'
    BY <1>5 DEF logVars, ringVars, sendVars, IInv, SenderState
  <2>3. QED
    BY <2>1, <2>2 DEF IInv
<1>6. QED
  BY <1>1, <1>2, <1>3, <1>4, <1>5 DEF RingNext

(* The inductive invariant holds in every reachable state of the log ring. *)
THEOREM IInvAlways == RingSpec => []IInv
  BY InitIInv, NextIInv, PTL DEF RingSpec

(* No line that push accepted is lost uncounted or counted twice, in any   *)
(* interleaving of push, pop, ship and Close, for every size of the ring.  *)
THEOREM NoLineLostAlways == RingSpec => []NoLineLost
<1>1. IInv => NoLineLost
  BY DEF IInv
<1>2. QED
  BY <1>1, IInvAlways, PTL

(* The server gets the lines in the order they were logged, whatever       *)
(* evictions, retries and lost answers come between.                       *)
THEOREM ShippedInOrderAlways == RingSpec => []ShippedInOrder
<1>1. IInv => ShippedInOrder
  BY DEF IInv, Order
<1>2. QED
  BY <1>1, IInvAlways, PTL

(* A sender that ended before the flush deadline left nothing: every line  *)
(* is delivered or counted, and its last summary held every drop.          *)
THEOREM FlushIsCompleteAlways == RingSpec => []FlushIsComplete
<1>1. IInv => FlushIsComplete
  <2> SUFFICES ASSUME IInv, sender = "ended", ~canceled
               PROVE  pushed = delivered + TotalDropped /\ (reported = dropped \/ now = dropped)
    BY DEF FlushIsComplete
  <2>1. last /\ now = dropped /\ entries = <<>> /\ pushing = NoLine /\ inflight = NoLine
    BY DEF IInv, SenderState
  <2>2. Held(pushing) = 0 /\ Held(inflight) = 0 /\ Len(entries) = 0
    BY <2>1 DEF Held
  <2>3. pushed = Held(pushing) + Len(entries) + Held(inflight) + delivered + TotalDropped
    BY DEF IInv, NoLineLost
  <2>4. delivered \in Nat /\ TotalDropped \in Nat
    BY Summands DEF IInv
  <2>5. pushed = delivered + TotalDropped
    BY <2>2, <2>3, <2>4, SMT
  <2>6. QED
    BY <2>1, <2>5
<1>2. QED
  BY <1>1, IInvAlways, PTL

(* What reaches the server is in order and, after a flush in time, all of  *)
(* it or counted, for every size of the ring.                              *)
THEOREM DeliveryIsTrueAlways == RingSpec => []DeliveryIsTrue
  BY ShippedInOrderAlways, FlushIsCompleteAlways, PTL DEF DeliveryIsTrue

-----------------------------------------------------------------------------
(* The watchdog. *)

(* The hardware timer keeps its shape, and Handoff(stop) is the end of the *)
(* supervision: the device file is closed with its timer stopped, or the   *)
(* BMC has no action programmed, so that a keepalive still in flight finds *)
(* no file, or starts a countdown to nothing.  Until then, after a handoff *)
(* that keeps the watchdog and with nowayout the timer stays armed.        *)
WInv ==
    /\ hw \in [running: BOOLEAN, action: {"reset", "none"}, left: Int]
    /\ handed # "no" => supClosed /\ Active /\ ~open
    /\ handed = "stop" /\ dev # "nowayout" =>
        /\ host = "up"
        /\ dev = "file" => ~hw.running
        /\ dev = "bmc" => hw.action = "none"
    /\ Active /\ (handed # "stop" \/ dev = "nowayout") =>
        host = "reset" \/ (hw.running /\ hw.action = "reset")

(* The Max of the countdown is one of its two arguments. *)
LEMMA MaxOfTwo == ASSUME NEW a \in Int, NEW b \in Int PROVE Max({a, b}) \in {a, b} /\ Max({a, b}) >= b
<1>1. \E x \in {a, b} : \A y \in {a, b} : x >= y
  <2>1. a >= b \/ b >= a
    BY SMT
  <2>2. QED
    BY <2>1, SMT
<1>2. QED
  BY <1>1 DEF Max

(* So is the Min of a counter and its cap. *)
LEMMA MinOfTwo ==
    ASSUME NEW a \in Int, NEW b \in Int
    PROVE  Min({a, b}) \in {a, b} /\ Min({a, b}) <= b
<1>1. \E x \in {a, b} : \A y \in {a, b} : x <= y
  <2>1. a <= b \/ b <= a
    BY SMT
  <2>2. QED
    BY <2>1, SMT
<1>2. QED
  BY <1>1 DEF Min

(* The ticker period is positive (NewSupervisor: at least a second). *)
LEMMA IntervalFacts == Interval \in Nat \ {0}
<1>1. Timeout \div 3 \in Nat
  BY WatchdogAssumption, SMT
<1>2. \E x \in {Timeout \div 3, 1} : \A y \in {Timeout \div 3, 1} : x >= y
  <2>1. Timeout \div 3 >= 1 \/ 1 >= Timeout \div 3
    BY <1>1, SMT
  <2>2. QED
    BY <1>1, <2>1, SMT
<1>3. Interval \in {Timeout \div 3, 1} /\ Interval >= 1
  BY <1>2 DEF Interval, Max
<1>4. QED
  BY <1>1, <1>3, SMT

(* Before the start nothing is armed. *)
LEMMA InitWInv == WInit => WInv
  BY SMT DEF WInit, WInv, Active, Devices, DeviceFiles

(* startWatchdog runs before any handoff. *)
LEMMA StartStep ==
    ASSUME WInv, NEW d \in {"none"} \cup Devices, startWatchdog(d)
    PROVE  WInv'
<1>1. handed = "no" /\ handed' = "no"
  BY DEF startWatchdog, WInv, Active, Devices, DeviceFiles
<1>2. QED
  BY <1>1, WatchdogAssumption, SMT DEF startWatchdog, WInv, Armed, Active, Devices, DeviceFiles

(* Keepalive and the goroutine that calls it. *)
LEMMA SupervisorStep ==
    ASSUME WInv, Check \/ OnStall \/ KeepaliveOK \/ KeepaliveFails \/ RunEnds
    PROVE  WInv'
<1>1. CASE KeepaliveOK
  <2>1. /\ hw' = [hw EXCEPT !.running = TRUE, !.left = Timeout]
        /\ dev' = dev /\ open' = open /\ supClosed' = supClosed /\ handed' = handed /\ host' = host
        /\ dev \in DeviceFiles => open
    BY <1>1 DEF KeepaliveOK, supVars
  <2>2. /\ hw' \in [running: BOOLEAN, action: {"reset", "none"}, left: Int]
        /\ hw'.action = hw.action /\ hw'.running
    <3>1. Timeout \in Int /\ hw \in [running: BOOLEAN, action: {"reset", "none"}, left: Int]
      BY WatchdogAssumption, SMT DEF WInv
    <3>2. QED
      BY <2>1, <3>1
  <2>3. QED
    BY <2>1, <2>2 DEF WInv, Active, DeviceFiles
<1>2. CASE Check \/ OnStall \/ KeepaliveFails \/ RunEnds
  <2>1. UNCHANGED <<dev, open, supClosed, hw, handed, host>>
    BY <1>2 DEF Check, OnStall, KeepaliveFails, RunEnds, supVars, devVars
  <2>2. QED
    BY <2>1 DEF WInv, Active
<1>3. QED
  BY <1>1, <1>2

(* Handoff: only a Stop that worked claims that the timer is stopped. *)
LEMMA HandoffStep ==
    ASSUME WInv, NEW keep \in BOOLEAN, Handoff(keep)
    PROVE  WInv'
<1>1. CASE HandoffStop
  <2>1. /\ StoppedTimer \in [running: BOOLEAN, action: {"reset", "none"}, left: Int]
        /\ dev # "nowayout" => ~StoppedTimer.running
        /\ dev = "bmc" => StoppedTimer.action = "none"
        /\ dev = "nowayout" => StoppedTimer = hw
    BY DEF WInv, StoppedTimer
  <2>2. QED
    BY <1>1, <2>1 DEF HandoffStop, WInv, Active, Alive
<1>2. CASE HandoffKeep \/ HandoffStopFails
  BY <1>2 DEF HandoffKeep, HandoffStopFails, WInv, Active, Alive
<1>3. QED
  BY <1>1, <1>2 DEF Handoff

(* A second passes: only a running timer with an action resets the host. *)
LEMMA SecondStep ==
    ASSUME WInv, Second
    PROVE  WInv'
<1>1. UNCHANGED <<dev, open, supClosed, handed>>
  BY DEF Second
<1>2. /\ hw' \in [running: BOOLEAN, action: {"reset", "none"}, left: Int]
      /\ hw'.action = hw.action
      /\ ~hw.running => hw' = hw
      /\ hw.running /\ ~Expires => hw'.running
  <2>1. hw.left - 1 \in Int /\ 0 \in Int
    BY SMT DEF WInv
  <2>2. Max({hw.left - 1, 0}) \in {hw.left - 1, 0}
    BY <2>1, MaxOfTwo
  <2>3. Max({hw.left - 1, 0}) \in Int
    BY <2>1, <2>2
  <2>4. (hw.left > 1) \in BOOLEAN
    BY SMT
  <2>5. hw.running /\ ~Expires => hw.left > 1
    BY SMT DEF Expires, WInv
  <2>6. QED
    BY <2>3, <2>4, <2>5 DEF Second, WInv
<1>3. handed = "stop" /\ dev # "nowayout" => ~(Expires /\ hw.action = "reset")
  BY DEF WInv, Expires, Active, Devices, DeviceFiles
<1>4. handed = "stop" /\ dev # "nowayout" => host' = "up"
  BY <1>3 DEF Second
<1>5. Expires /\ hw.action = "reset" => host' = "reset"
  BY DEF Second
<1>6. host = "up"
  BY DEF Second
<1>7. QED
  BY <1>1, <1>2, <1>4, <1>5, <1>6 DEF WInv, Active

-----------------------------------------------------------------------------

(* Every step of the run, the supervisor and the machine preserves it. *)
LEMMA NextWInv == WInv /\ [WNext]_wvars => WInv'
<1> SUFFICES ASSUME WInv, [WNext]_wvars PROVE WInv'
  OBVIOUS
<1>1. CASE \E d \in {"none"} \cup Devices : startWatchdog(d)
  BY <1>1, StartStep
<1>2. CASE (\E s \in WatchedSteps : Step(s)) \/ Progress \/ Idle \/ KernelHangs \/ UNCHANGED wvars
  <2>1. UNCHANGED <<dev, open, supClosed, hw, handed, host>>
    BY <1>2 DEF Step, Progress, Idle, KernelHangs, wvars, supVars, devVars
  <2>2. QED
    BY <2>1 DEF WInv, Active
<1>3. CASE Check \/ OnStall \/ KeepaliveOK \/ KeepaliveFails \/ RunEnds
  BY <1>3, SupervisorStep
<1>4. CASE \E keep \in BOOLEAN : Handoff(keep)
  BY <1>4, HandoffStep
<1>5. CASE Second
  BY <1>5, SecondStep
<1>6. QED
  BY <1>1, <1>2, <1>3, <1>4, <1>5 DEF WNext

(* A watchdog that a handoff stopped never resets the host, although a     *)
(* keepalive can be in flight across the stop; one that is kept, or that a *)
(* kernel with nowayout keeps, stays armed.                                *)
THEOREM StoppedStaysHarmlessAlways == WSpec => []StoppedStaysHarmless
<1>1. WInv => StoppedStaysHarmless
  BY DEF WInv, StoppedStaysHarmless, Active, Devices, DeviceFiles
<1>2. QED
  BY <1>1, InitWInv, NextWInv, PTL DEF WSpec

-----------------------------------------------------------------------------
(* Types *)

(* Nothing is armed, and every counter starts at zero. *)
LEMMA InitTypeOK == WInit => WTypeOK
<1> SUFFICES ASSUME WInit PROVE WTypeOK
  OBVIOUS
<1>1. 0 \in 0 .. IdleCap /\ 0 \in 0 .. PetMax /\ 0 \in 0 .. Timeout /\ 0 \in 0 .. Interval - 1
  BY WatchdogAssumption, IntervalFacts, SMT
<1>2. hw \in [running: BOOLEAN, action: {"reset", "none"}, left: 0 .. Timeout]
  BY <1>1 DEF WInit
<1>3. missed \in 0 .. 2 /\ fails \in 0 .. 2
  BY SMT DEF WInit
<1>4. QED
  BY <1>1, <1>2, <1>3 DEF WInit, WTypeOK

(* The run and the goroutine: a callback that ends resets its clock, and   *)
(* the history counters stop at two.                                       *)
LEMMA CodeTypeOK ==
    ASSUME WTypeOK, [\/ \E d \in {"none"} \cup Devices : startWatchdog(d)
                    \/ (\E s \in WatchedSteps : Step(s)) \/ Progress \/ Idle
                    \/ Check \/ OnStall \/ KeepaliveOK \/ KeepaliveFails \/ RunEnds
                    \/ (\E keep \in BOOLEAN : Handoff(keep)) \/ KernelHangs]_wvars
    PROVE  WTypeOK'
<1> USE DEF supVars, loopVars, devVars, histVars
<1>0. 0 \in 0 .. IdleCap /\ 0 \in 0 .. PetMax /\ 0 \in 0 .. 2 /\ Timeout \in 0 .. Timeout
  BY WatchdogAssumption, SMT
<1>1. CASE \E d \in {"none"} \cup Devices : startWatchdog(d)
  BY <1>0, <1>1, SMT DEF WTypeOK, startWatchdog, Armed
<1>2. CASE (\E s \in WatchedSteps : Step(s)) \/ Progress \/ Idle
  BY <1>0, <1>2, SMT DEF WTypeOK, Step, Progress, Idle
<1>3. ASSUME NEW n \in 0 .. 2 PROVE Min({n + 1, 2}) \in 0 .. 2
  <2>1. n + 1 \in Int /\ 2 \in Int
    BY SMT
  <2>2. Min({n + 1, 2}) \in {n + 1, 2} /\ Min({n + 1, 2}) <= 2
    BY <2>1, MinOfTwo
  <2>3. QED
    BY <2>2, SMT
<1>4. CASE Check
  <2>1. missed' \in 0 .. 2
    BY <1>3, <1>4 DEF WTypeOK, Check, CountMiss
  <2>2. stalled' \in BOOLEAN /\ tick' \in {"sleep", "stall", "pet", "ended"}
    BY <1>4 DEF WTypeOK, Check
  <2>3. /\ pending' = FALSE /\ busy' = 0
        /\ UNCHANGED <<step, idle, supClosed, sinceTick, dev, open, hw, fails, recorded, hung, host, handed>>
    BY <1>4 DEF Check
  <2>4. pending' \in BOOLEAN
    BY <2>3
  <2>5. QED
    BY <1>0, <2>1, <2>2, <2>3, <2>4, SMT DEF WTypeOK
<1>5. CASE OnStall \/ RunEnds \/ KernelHangs \/ UNCHANGED wvars
  <2>1. CASE OnStall
    BY <1>0, <2>1, SMT DEF WTypeOK, OnStall
  <2>2. CASE RunEnds
    BY <2>2, SMT DEF WTypeOK, RunEnds
  <2>3. CASE KernelHangs
    BY <2>3, SMT DEF WTypeOK, KernelHangs
  <2>4. CASE UNCHANGED wvars
    BY <2>4, SMT DEF WTypeOK, wvars
  <2>5. QED
    BY <1>5, <2>1, <2>2, <2>3, <2>4
<1>6. CASE KeepaliveOK
  <2>1. hw' \in [running: BOOLEAN, action: {"reset", "none"}, left: 0 .. Timeout]
    <3>1. hw' = [hw EXCEPT !.running = TRUE, !.left = Timeout]
      BY <1>6 DEF KeepaliveOK
    <3>2. QED
      BY <1>0, <3>1 DEF WTypeOK
  <2>2. recorded' \in BOOLEAN
    BY <1>6 DEF KeepaliveOK
  <2>3. QED
    BY <1>0, <1>6, <2>1, <2>2 DEF WTypeOK, KeepaliveOK
<1>7. CASE KeepaliveFails
  <2>1. missed' \in 0 .. 2 /\ fails' \in 0 .. 2
    BY <1>3, <1>7 DEF WTypeOK, KeepaliveFails, CountMiss
  <2>2. QED
    BY <1>0, <1>7, <2>1, SMT DEF WTypeOK, KeepaliveFails
<1>8. CASE \E keep \in BOOLEAN : Handoff(keep)
  <2>1. StoppedTimer \in [running: BOOLEAN, action: {"reset", "none"}, left: 0 .. Timeout]
    BY DEF WTypeOK, StoppedTimer
  <2>2. CASE HandoffKeep
    <3>1. supClosed' \in BOOLEAN /\ open' \in BOOLEAN
      BY <2>2 DEF HandoffKeep
    <3>2. QED
      BY <2>2, <3>1, SMT DEF WTypeOK, HandoffKeep
  <2>3. CASE HandoffStop
    <3>1. supClosed' \in BOOLEAN /\ open' \in BOOLEAN
      BY <2>3 DEF HandoffStop
    <3>2. QED
      BY <2>1, <2>3, <3>1, SMT DEF WTypeOK, HandoffStop
  <2>4. CASE HandoffStopFails
    <3>1. supClosed' \in BOOLEAN /\ open' \in BOOLEAN
      BY <2>4 DEF HandoffStopFails
    <3>2. QED
      BY <2>4, <3>1, SMT DEF WTypeOK, HandoffStopFails
  <2>5. QED
    BY <1>8, <2>2, <2>3, <2>4 DEF Handoff
<1>9. QED
  BY <1>1, <1>2, <1>4, <1>5, <1>6, <1>7, <1>8

(* A second: every counter stays below its cap, and the countdown of the   *)
(* hardware never passes zero.                                             *)
LEMMA SecondTypeOK ==
    ASSUME WTypeOK, Second
    PROVE  WTypeOK'
<1>1. idle' \in 0 .. IdleCap
  <2>1. idle \in Nat /\ IdleCap \in Nat /\ idle + 1 \in Int /\ IdleCap \in Int
    BY WatchdogAssumption, SMT DEF WTypeOK
  <2>2. Min({idle + 1, IdleCap}) \in {idle + 1, IdleCap} /\ Min({idle + 1, IdleCap}) <= IdleCap
    BY <2>1, MinOfTwo
  <2>3. idle' = Min({idle + 1, IdleCap})
    BY DEF Second
  <2>4. QED
    BY <2>1, <2>2, <2>3, SMT
<1>2. busy' \in 0 .. PetMax
  <2>1. busy \in Nat /\ PetMax \in Nat /\ busy + 1 \in Int /\ PetMax \in Int
    BY WatchdogAssumption, SMT DEF WTypeOK
  <2>2. Min({busy + 1, PetMax}) \in {busy + 1, PetMax} /\ Min({busy + 1, PetMax}) <= PetMax
    BY <2>1, MinOfTwo
  <2>3. busy' \in {Min({busy + 1, PetMax}), 0}
    BY DEF Second
  <2>4. QED
    BY <2>1, <2>2, <2>3, SMT
<1>3. sinceTick' \in 0 .. Interval - 1
  <2>1. sinceTick \in Nat /\ sinceTick' = (sinceTick + 1) % Interval
    BY SMT DEF WTypeOK, Second
  <2>2. QED
    BY <2>1, IntervalFacts, SMT
<1>4. hw' \in [running: BOOLEAN, action: {"reset", "none"}, left: 0 .. Timeout]
  <2>1. hw.left \in 0 .. Timeout /\ Timeout \in Nat
    BY WatchdogAssumption DEF WTypeOK
  <2>2. Max({hw.left - 1, 0}) \in {hw.left - 1, 0} /\ Max({hw.left - 1, 0}) >= 0
    BY <2>1, MaxOfTwo, SMT
  <2>3. Max({hw.left - 1, 0}) \in 0 .. Timeout
    BY <2>1, <2>2, SMT
  <2>4. (hw.left > 1) \in BOOLEAN
    BY <2>1, SMT
  <2>5. [hw EXCEPT !.left = Max({@ - 1, 0}), !.running = hw.left > 1]
            \in [running: BOOLEAN, action: {"reset", "none"}, left: 0 .. Timeout]
    BY <2>3, <2>4 DEF WTypeOK
  <2>6. QED
    BY <2>5 DEF WTypeOK, Second
<1>5. pending' \in BOOLEAN /\ host' \in {"up", "reset"}
  BY DEF WTypeOK, Second
<1>6. QED
  BY <1>1, <1>2, <1>3, <1>4, <1>5, SMT DEF WTypeOK, Second, histVars

(* The state of the watchdog is well typed: idle time, tick phase, pet         *)
(* duration and hardware countdown stay in their ranges (Supervisor and    *)
(* the devices).                                                           *)
THEOREM TypeOKAlways == WSpec => []WTypeOK
<1>1. WTypeOK /\ [WNext]_wvars => WTypeOK'
  BY CodeTypeOK, SecondTypeOK DEF WNext
<1>2. QED
  BY <1>1, InitTypeOK, PTL DEF WSpec

-----------------------------------------------------------------------------
(* A reset of the supervised host. *)

(* The timing under which a keepalive may be missed: a callback fits into  *)
(* the period of the ticker, and two periods and a callback fit into the   *)
(* timeout.  With Interval = Timeout \div 3 this holds whenever a callback *)
(* is shorter than a period.                                               *)
Tolerant == PetMax <= Interval /\ 2 * Interval + PetMax < Timeout

(* How long ago, at most, the goroutine handled the last tick that it has  *)
(* finished with: while it sleeps, the time since the ticker fired, and a  *)
(* whole period when the next tick is due; in a keepalive, that period and *)
(* the duration so far; in OnStall, the duration so far, because the stall *)
(* counts as missed from the moment it is found.                           *)
SinceOf(t, p, b, f) ==
    IF t = "sleep" THEN (IF p THEN Interval ELSE f) ELSE IF t = "pet" THEN Interval + b ELSE b

Since == SinceOf(tick, pending, busy, sinceTick)

(* Every missed tick adds a period to the time without a pet. *)
Grace(m) == IF m = 0 THEN 0 ELSE IF m = 1 THEN Interval ELSE 2 * Interval

(* The hardware may not have fired yet: at most one tick was missed, or    *)
(* the stall that is the second one is still being recorded.               *)
InTime == missed < 2 \/ (tick = "stall" /\ ~recorded /\ fails < 2)

Supervised == Active /\ handed = "no" /\ ~hung

(* Nothing happens without a device, and the loop lasts until a handoff. *)
QuietInv ==
    /\ ~Active => /\ host = "up" /\ ~hw.running
                  /\ tick = "sleep" /\ ~pending /\ ~stalled
                  /\ missed = 0 /\ fails = 0 /\ ~recorded
    /\ dev = "off" => sinceTick = 0
    /\ handed = "no" => ~supClosed /\ tick # "ended"

(* The goroutine is never behind the ticker without a tick that waits, and *)
(* a miss without a record is a failed keepalive or the stall in progress. *)
LoopInv ==
    /\ tick \in {"stall", "pet"} /\ ~pending => busy <= sinceTick
    /\ stalled /\ tick # "stall" => recorded
    /\ tick = "stall" => missed > 0
    /\ tick = "pet" => ~stalled
    /\ ~recorded /\ tick # "stall" => missed = fails
    /\ ~recorded /\ tick = "stall" /\ fails < 2 => missed = fails + 1

(* The countdown is no further than the misses and the time since the last *)
(* handled tick account for, and so is the idle time of a step that was    *)
(* over its budget at that tick and is not any more.                       *)
TimeInv ==
    /\ hw.running /\ hw.action = "reset"
    /\ InTime => hw.left + Grace(missed) + Since >= Timeout
    /\ fails = 0 /\ missed > 0 => OverBudget \/ idle <= Since

(* What a reset leaves behind. *)
Deserved ==
    /\ missed = 2
    /\ recorded \/ fails = 2
    /\ fails = 0 => OverBudget \/ idle <= Interval + PetMax

RInv ==
    /\ QuietInv
    /\ Supervised => /\ LoopInv
                     /\ host = "up" => TimeInv
                     /\ host = "reset" => Deserved

(* The value of SinceOf, case by case. *)
LEMMA SinceFacts ==
    ASSUME NEW t, NEW p, NEW b, NEW f
    PROVE  /\ t = "sleep" /\ p => SinceOf(t, p, b, f) = Interval
           /\ t = "sleep" /\ ~p => SinceOf(t, p, b, f) = f
           /\ t = "pet" => SinceOf(t, p, b, f) = Interval + b
           /\ t = "stall" => SinceOf(t, p, b, f) = b
  BY DEF SinceOf

(* The value of Grace, case by case. *)
LEMMA GraceFacts == Grace(0) = 0 /\ Grace(1) = Interval /\ Grace(2) = 2 * Interval
  BY SMT DEF Grace

(* The numbers of a well-typed state. *)
LEMMA Numbers ==
    ASSUME WTypeOK
    PROVE  /\ idle \in Nat /\ busy \in Nat /\ sinceTick \in Nat /\ hw.left \in Nat
           /\ Interval \in Nat /\ Interval >= 1 /\ Timeout \in Nat /\ PetMax \in Nat /\ IdleCap \in Nat
           /\ idle <= IdleCap /\ busy <= PetMax /\ sinceTick <= Interval - 1 /\ hw.left <= Timeout
           /\ missed \in {0, 1, 2} /\ fails \in {0, 1, 2}
<1>1. hw.left \in 0 .. Timeout
  BY DEF WTypeOK
<1>2. Interval \in Nat /\ Interval >= 1
  BY IntervalFacts, SMT
<1>3. Timeout \in Nat /\ PetMax \in Nat /\ IdleCap \in Nat
  BY WatchdogAssumption
<1>4. idle \in 0 .. IdleCap /\ busy \in 0 .. PetMax /\ sinceTick \in 0 .. Interval - 1
      /\ missed \in 0 .. 2 /\ fails \in 0 .. 2
  BY DEF WTypeOK
<1>5. QED
  BY <1>1, <1>2, <1>3, <1>4, SMT

(* A counter of misses counts up to two. *)
LEMMA CountFacts ==
    ASSUME NEW n \in {0, 1, 2}
    PROVE  Min({n + 1, 2}) = IF n = 0 THEN 1 ELSE 2
<1>1. n + 1 \in Int /\ 2 \in Int /\ n \in Int
  BY SMT
<1>2. Min({n + 1, 2}) \in {n + 1, 2} /\ Min({n + 1, 2}) <= 2 /\ Min({n + 1, 2}) <= n + 1
  <2>1. Min({n + 1, 2}) \in {n + 1, 2} /\ Min({n + 1, 2}) <= 2
    BY <1>1, MinOfTwo
  <2>2. {n + 1, 2} = {2, n + 1}
    OBVIOUS
  <2>3. Min({2, n + 1}) <= n + 1
    BY <1>1, MinOfTwo
  <2>4. QED
    BY <2>1, <2>2, <2>3
<1>3. QED
  BY <1>1, <1>2, SMT

(* Since in the next state. *)
LEMMA SinceNext == Since' = SinceOf(tick', pending', busy', sinceTick')
  BY DEF Since, SinceOf

(* No device is armed before the start. *)
LEMMA StartInitRInv == WInit => RInv
<1>1. WInit => QuietInv /\ ~Active
  BY SMT DEF WInit, QuietInv, Active, Devices, DeviceFiles
<1>2. QED
  BY <1>1 DEF RInv, Supervised

(* startWatchdog arms the whole timeout. *)
LEMMA StartRStep ==
    ASSUME WTypeOK, RInv, NEW d \in {"none"} \cup Devices, startWatchdog(d)
    PROVE  RInv'
<1>1. ~Active /\ dev = "off" /\ host = "up"
  BY DEF startWatchdog, Active, Devices, DeviceFiles, Alive
<1>2. /\ tick = "sleep" /\ ~pending /\ ~stalled /\ missed = 0 /\ fails = 0 /\ ~recorded /\ sinceTick = 0
      /\ ~hw.running
  BY <1>1 DEF RInv, QuietInv
<1>3. /\ tick' = "sleep" /\ ~pending' /\ ~stalled' /\ missed' = 0 /\ fails' = 0 /\ ~recorded' /\ sinceTick' = 0
      /\ host' = "up" /\ handed' = handed /\ supClosed' = supClosed /\ dev' = d
      /\ hw' = IF d = "none" THEN hw ELSE Armed
  BY <1>1, <1>2 DEF startWatchdog, loopVars, supVars, histVars
<1>4. QuietInv'
  <2>1. ~Active' => ~hw'.running
    BY <1>2, <1>3 DEF Active
  <2>2. handed' = "no" => ~supClosed' /\ tick' # "ended"
    BY <1>3 DEF RInv, QuietInv
  <2>3. QED
    BY <1>3, <2>1, <2>2 DEF QuietInv
<1>5. ASSUME Active' PROVE TimeInv'
  <2>1. hw' = Armed
    BY <1>3, <1>5 DEF Active, Devices, DeviceFiles
  <2>2. hw'.left = Timeout /\ hw'.running /\ hw'.action = "reset"
    BY <2>1 DEF Armed
  <2>3. Since' = 0 /\ Grace(missed') = 0
    BY <1>3, SinceNext, GraceFacts DEF SinceOf
  <2>4. hw'.left + Grace(missed') + Since' >= Timeout
    BY <2>2, <2>3, WatchdogAssumption, SMT
  <2>5. ~(missed' > 0)
    BY <1>3, SMT
  <2>6. QED
    BY <2>2, <2>4, <2>5 DEF TimeInv
<1>6. LoopInv'
  BY <1>3 DEF LoopInv
<1>7. QED
  BY <1>3, <1>4, <1>5, <1>6 DEF RInv, Supervised

(* Step, Progress and Idle only restart the idle time. *)
LEMMA RunRStep ==
    ASSUME WTypeOK, RInv, Progress \/ Idle \/ \E s \in WatchedSteps : Step(s)
    PROVE  RInv'
<1>1. /\ UNCHANGED <<stalled, supClosed, loopVars, devVars, histVars, hung, host, handed>>
      /\ host = "up" /\ idle' = 0
  BY DEF Progress, Idle, Step, Alive
<1>2. /\ stalled' = stalled /\ supClosed' = supClosed /\ hung' = hung /\ host' = host /\ handed' = handed
      /\ tick' = tick /\ busy' = busy /\ pending' = pending /\ sinceTick' = sinceTick
      /\ dev' = dev /\ hw' = hw
      /\ missed' = missed /\ fails' = fails /\ recorded' = recorded
  BY <1>1 DEF loopVars, devVars, histVars
<1>3. QuietInv'
  BY <1>2 DEF RInv, QuietInv, Active
<1>4. ASSUME Supervised' PROVE LoopInv' /\ TimeInv'
  <2>0. Supervised
    BY <1>2, <1>4, SMT DEF Supervised, Active
  <2>1. LoopInv /\ TimeInv
    BY <1>1, <2>0 DEF RInv
  <2>2. LoopInv'
    BY <1>2, <2>1 DEF LoopInv
  <2>3. Since' = Since
    BY <1>2 DEF Since, SinceOf
  <2>4. tick # "ended" /\ tick \in {"sleep", "stall", "pet"}
    BY <1>2, <1>4 DEF RInv, QuietInv, Supervised, WTypeOK
  <2>5. Since \in {sinceTick, Interval, Interval + busy, busy}
    BY <2>4 DEF Since, SinceOf
  <2>6. idle' <= Since'
    BY <1>1, <2>3, <2>5, Numbers, SMT
  <2>7. QED
    BY <1>2, <2>1, <2>2, <2>3, <2>6 DEF TimeInv, InTime
<1>5. QED
  BY <1>1, <1>2, <1>3, <1>4 DEF RInv

(* The supervision ends: a handoff or a hang. *)
LEMMA EndRStep ==
    ASSUME WTypeOK, RInv, WInv, RunEnds \/ KernelHangs \/ \E keep \in BOOLEAN : Handoff(keep)
    PROVE  RInv'
<1>1. CASE RunEnds
  <2>1. supClosed /\ handed # "no" /\ Active
    BY <1>1 DEF RunEnds, RInv, QuietInv, WInv
  <2>2. dev' = dev /\ handed' = handed
    BY <1>1 DEF RunEnds, devVars
  <2>3. QED
    BY <2>1, <2>2 DEF RInv, QuietInv, Supervised, Active, Devices, DeviceFiles
<1>2. CASE KernelHangs
  <2>1. /\ UNCHANGED <<supVars, loopVars, devVars, histVars, host, handed>>
        /\ hung'
    BY <1>2 DEF KernelHangs
  <2>2. /\ stalled' = stalled /\ supClosed' = supClosed /\ host' = host /\ handed' = handed
        /\ tick' = tick /\ pending' = pending /\ sinceTick' = sinceTick /\ dev' = dev /\ hw' = hw
        /\ missed' = missed /\ fails' = fails /\ recorded' = recorded
    BY <2>1 DEF supVars, loopVars, devVars, histVars
  <2>3. QED
    BY <2>1, <2>2 DEF RInv, QuietInv, Supervised, Active
<1>3. CASE \E keep \in BOOLEAN : Handoff(keep)
  <2>1. handed' # "no" /\ dev' = dev /\ Active
    BY <1>3 DEF Handoff, HandoffKeep, HandoffStop, HandoffStopFails
  <2>2. QED
    BY <2>1 DEF RInv, QuietInv, Supervised, Active, Devices, DeviceFiles
<1>4. QED
  BY <1>1, <1>2, <1>3

(* A miss adds a period, whatever part of it has passed. *)
LEMMA MissAddsPeriod ==
    ASSUME NEW l \in Nat, NEW m \in {0, 1}, NEW s \in Nat, s <= Interval,
           l + Grace(m) + s >= Timeout, NEW r \in Nat
    PROVE  l + Grace(m + 1) + r >= Timeout
<1>1. Interval \in Nat /\ Timeout \in Nat
  BY IntervalFacts, WatchdogAssumption, SMT
<1>2. (m = 0 => Grace(m) = 0) /\ (m = 1 => Grace(m) = Interval)
  BY GraceFacts
<1>3. (m = 0 => m + 1 = 1) /\ (m = 1 => m + 1 = 2)
  BY SMT
<1>4. (m = 0 => Grace(m + 1) = Interval) /\ (m = 1 => Grace(m + 1) = 2 * Interval)
  BY <1>3, GraceFacts
<1>5. CASE m = 0
  <2>1. Grace(m) = 0 /\ Grace(m + 1) = Interval
    BY <1>2, <1>4, <1>5
  <2>2. QED
    BY <1>1, <2>1, SMT
<1>6. CASE m = 1
  <2>1. Grace(m) = Interval /\ Grace(m + 1) = 2 * Interval
    BY <1>2, <1>4, <1>6
  <2>2. QED
    BY <1>1, <2>1, SMT
<1>7. QED
  BY <1>5, <1>6

(* check: a miss is counted from the tick on, and a step that is not over  *)
(* its budget any more has made progress since the tick before.            *)
LEMMA CheckRStep ==
    ASSUME WTypeOK, RInv, Check
    PROVE  RInv'
<1>1. Active /\ host = "up" /\ tick = "sleep" /\ pending
  BY DEF Check, Alive
<1>2. /\ ~pending' /\ busy' = 0
      /\ step' = step /\ idle' = idle /\ supClosed' = supClosed /\ sinceTick' = sinceTick
      /\ dev' = dev /\ hw' = hw /\ fails' = fails /\ recorded' = recorded
      /\ hung' = hung /\ host' = host /\ handed' = handed
  BY DEF Check, devVars
<1>3. QuietInv'
  <2>1. tick' \in {"sleep", "stall", "pet"}
    BY <1>1 DEF Check
  <2>2. QED
    BY <1>1, <1>2, <2>1 DEF RInv, QuietInv, Active
<1>4. ASSUME Supervised' PROVE LoopInv' /\ TimeInv'
  <2>1. Supervised
    BY <1>2, <1>4, SMT DEF Supervised, Active
  <2>2. LoopInv /\ TimeInv /\ ~supClosed
    BY <1>1, <2>1 DEF RInv, QuietInv, Supervised
  <2>3. Since = Interval
    BY <1>1 DEF Since, SinceOf
  <2>4. OverBudget' <=> OverBudget
    BY <1>2 DEF OverBudget
  <2>5. CASE OverBudget
    <3>1. /\ stalled' /\ tick' = IF stalled THEN "sleep" ELSE "stall"
          /\ missed' = Min({missed + 1, 2})
      BY <2>2, <2>5 DEF Check, CountMiss
    <3>2. missed' = IF missed = 0 THEN 1 ELSE 2
      BY <3>1, Numbers, CountFacts
    <3>3. stalled => recorded /\ tick' = "sleep"
      BY <1>1, <2>2, <3>1 DEF LoopInv
    <3>4. ~recorded => missed = fails /\ tick' = "stall"
      BY <1>1, <2>2, <3>1, <3>3 DEF LoopInv
    <3>5. missed \in {0, 1} => missed' = missed + 1
      BY <3>2, SMT
    <3>6. fails < 2 => fails \in {0, 1}
      BY Numbers, SMT
    <3>7. missed' > 0
      BY <3>2, SMT
    <3>8. LoopInv'
      <4>1. busy' <= sinceTick'
        BY <1>2, Numbers, SMT
      <4>2. tick' # "pet" /\ (tick' # "stall" => recorded)
        BY <3>1, <3>3
      <4>3. ~recorded' /\ tick' = "stall" /\ fails' < 2 => missed' = fails' + 1
        BY <1>2, <3>4, <3>5, <3>6
      <4>4. QED
        BY <1>2, <3>7, <4>1, <4>2, <4>3 DEF LoopInv
    <3>9. ASSUME InTime' PROVE missed \in {0, 1} /\ missed' = missed + 1
      <4>1. missed' < 2 => missed = 0
        BY <3>2, Numbers, SMT
      <4>2. ~recorded' /\ fails' < 2 => missed \in {0, 1}
        BY <1>2, <3>4, <3>6
      <4>3. QED
        BY <3>5, <3>9, <4>1, <4>2 DEF InTime
    <3>10. ASSUME InTime' PROVE hw'.left + Grace(missed') + Since' >= Timeout
      <4>1. missed \in {0, 1} /\ missed' = missed + 1
        BY <3>9, <3>10
      <4>2. missed < 2
        BY <4>1, SMT
      <4>3. hw.left + Grace(missed) + Interval >= Timeout
        BY <2>2, <2>3, <4>2 DEF TimeInv, InTime
      <4>4. Since' \in {sinceTick', busy'}
        BY <1>2, <3>1, SinceNext DEF SinceOf
      <4>5. Since' \in Nat
        BY <1>2, <4>4, Numbers, SMT
      <4>6. Interval \in Nat /\ hw.left \in Nat /\ Interval <= Interval
        BY Numbers, SMT
      <4>7. hw.left + Grace(missed + 1) + Since' >= Timeout
        BY <4>1, <4>3, <4>5, <4>6, MissAddsPeriod
      <4>8. QED
        BY <1>2, <4>1, <4>7
    <3>11. QED
      BY <1>2, <2>2, <2>4, <2>5, <3>8, <3>10 DEF TimeInv
  <2>6. CASE ~OverBudget
    <3>1. ~stalled' /\ tick' = "pet" /\ missed' = missed
      BY <2>2, <2>6 DEF Check
    <3>2. Since' = Interval + 0
      BY <1>2, <3>1, SinceNext DEF SinceOf
    <3>3. Since' = Interval
      BY <3>2, Numbers, SMT
    <3>4. LoopInv'
      <4>1. busy' <= sinceTick'
        BY <1>2, Numbers, SMT
      <4>2. QED
        BY <1>1, <1>2, <2>2, <3>1, <4>1 DEF LoopInv
    <3>5. InTime' => InTime
      BY <3>1 DEF InTime
    <3>6. QED
      BY <1>2, <2>2, <2>3, <2>4, <2>6, <3>1, <3>3, <3>4, <3>5 DEF TimeInv
  <2>7. QED
    BY <2>5, <2>6
<1>5. QED
  BY <1>1, <1>2, <1>3, <1>4 DEF RInv

(* A callback that ends is no older than the goroutine will then count. *)
LEMMA CallbackWithinPeriod ==
    ASSUME Tolerant, WTypeOK, LoopInv, tick \in {"stall", "pet"}, NEW b
    PROVE  /\ SinceOf("sleep", pending, b, sinceTick) \in Nat
           /\ busy <= SinceOf("sleep", pending, b, sinceTick)
<1>1. CASE pending
  <2>1. SinceOf("sleep", pending, b, sinceTick) = Interval
    BY <1>1 DEF SinceOf
  <2>2. Interval \in Nat /\ busy <= Interval
    BY Numbers, SMT DEF Tolerant
  <2>3. QED
    BY <2>1, <2>2
<1>2. CASE ~pending
  <2>1. SinceOf("sleep", pending, b, sinceTick) = sinceTick
    BY <1>2 DEF SinceOf
  <2>2. sinceTick \in Nat /\ busy <= sinceTick
    BY <1>2, Numbers DEF LoopInv
  <2>3. QED
    BY <2>1, <2>2
<1>3. QED
  BY <1>1, <1>2

(* What the end of a callback leaves alone. *)
LEMMA CallbackEnds ==
    ASSUME WTypeOK, RInv, Tolerant, OnStall \/ KeepaliveOK \/ KeepaliveFails
    PROVE  /\ QuietInv' /\ host' = "up"
           /\ Supervised' =>
                /\ Supervised /\ LoopInv /\ TimeInv
                /\ Since' \in Nat /\ busy <= Since'
<1>1. /\ Alive /\ tick \in {"stall", "pet"} /\ tick' = "sleep"
      /\ pending' = pending /\ sinceTick' = sinceTick /\ dev' = dev /\ supClosed' = supClosed
      /\ hung' = hung /\ host' = host /\ handed' = handed
  BY DEF OnStall, KeepaliveOK, KeepaliveFails, devVars, supVars
<1>2. Active /\ host = "up"
  BY <1>1 DEF RInv, QuietInv, Alive
<1>3. QuietInv'
  BY <1>1, <1>2 DEF RInv, QuietInv, Active
<1>4. ASSUME Supervised' PROVE Supervised /\ LoopInv /\ TimeInv /\ Since' \in Nat /\ busy <= Since'
  <2>1. Supervised
    BY <1>1, <1>4, SMT DEF Supervised, Active
  <2>2. LoopInv /\ TimeInv
    BY <1>2, <2>1 DEF RInv
  <2>3. Since' = SinceOf("sleep", pending, busy', sinceTick)
    BY <1>1, SinceNext
  <2>4. QED
    BY <1>1, <2>1, <2>2, <2>3, CallbackWithinPeriod
<1>5. QED
  BY <1>1, <1>2, <1>3, <1>4

(* Tick: the stall is recorded. *)
LEMMA OnStallRStep ==
    ASSUME WTypeOK, RInv, Tolerant, OnStall
    PROVE  RInv'
<1>1. /\ tick = "stall" /\ tick' = "sleep" /\ recorded'
      /\ missed' = missed /\ fails' = fails /\ hw' = hw /\ step' = step /\ idle' = idle
  BY DEF OnStall, devVars, supVars
<1>2. QuietInv' /\ host' = "up"
  BY CallbackEnds
<1>3. ASSUME Supervised' PROVE LoopInv' /\ TimeInv'
  <2>1. LoopInv /\ TimeInv /\ Since' \in Nat /\ busy <= Since'
    BY <1>3, CallbackEnds
  <2>2. LoopInv'
    BY <1>1 DEF LoopInv
  <2>3. Since = busy
    BY <1>1 DEF Since, SinceOf
  <2>4. ASSUME InTime' PROVE hw'.left + Grace(missed') + Since' >= Timeout
    <3>1. missed < 2
      BY <1>1, <2>4 DEF InTime
    <3>2. missed = 1
      BY <1>1, <2>1, <3>1, Numbers, SMT DEF LoopInv
    <3>3. hw.left + Interval + busy >= Timeout
      BY <2>1, <2>3, <3>1, <3>2, GraceFacts DEF TimeInv, InTime
    <3>4. hw.left + Interval + Since' >= Timeout
      BY <2>1, <3>3, Numbers, SMT
    <3>5. QED
      BY <1>1, <3>2, <3>4, GraceFacts
  <2>5. idle <= busy => idle' <= Since'
    BY <1>1, <2>1, Numbers, SMT
  <2>6. OverBudget => OverBudget'
    BY <1>1 DEF OverBudget
  <2>7. QED
    BY <1>1, <2>1, <2>2, <2>3, <2>4, <2>5, <2>6 DEF TimeInv
<1>4. QED
  BY <1>2, <1>3 DEF RInv

(* A keepalive that worked restarts the countdown. *)
LEMMA OkRStep ==
    ASSUME WTypeOK, RInv, Tolerant, KeepaliveOK
    PROVE  RInv'
<1>1. /\ tick = "pet" /\ tick' = "sleep" /\ ~recorded' /\ stalled' = stalled
      /\ missed' = 0 /\ fails' = 0 /\ hw' = [hw EXCEPT !.running = TRUE, !.left = Timeout]
  BY DEF KeepaliveOK, supVars
<1>2. QuietInv' /\ host' = "up"
  BY CallbackEnds
<1>3. ASSUME Supervised' PROVE LoopInv' /\ TimeInv'
  <2>1. LoopInv /\ TimeInv /\ Since' \in Nat
    BY <1>3, CallbackEnds
  <2>2. LoopInv'
    BY <1>1, <2>1 DEF LoopInv
  <2>3. hw'.running /\ hw'.action = hw.action /\ hw'.left = Timeout
    BY <1>1 DEF WTypeOK
  <2>4. hw'.left + 0 + Since' >= Timeout /\ ~(missed' > 0)
    BY <1>1, <2>1, <2>3, WatchdogAssumption, SMT
  <2>5. QED
    BY <1>1, <2>1, <2>2, <2>3, <2>4, GraceFacts DEF TimeInv
<1>4. QED
  BY <1>2, <1>3 DEF RInv

(* A keepalive that failed is a miss. *)
LEMMA FailsRStep ==
    ASSUME WTypeOK, RInv, Tolerant, KeepaliveFails
    PROVE  RInv'
<1>1. /\ tick = "pet" /\ tick' = "sleep" /\ recorded' = recorded /\ stalled' = stalled /\ hw' = hw
      /\ missed' = Min({missed + 1, 2}) /\ fails' = Min({fails + 1, 2})
  BY DEF KeepaliveFails, CountMiss, supVars, devVars
<1>2. QuietInv' /\ host' = "up"
  BY CallbackEnds
<1>3. /\ missed' = IF missed = 0 THEN 1 ELSE 2
      /\ fails' = IF fails = 0 THEN 1 ELSE 2
  BY <1>1, Numbers, CountFacts
<1>4. ASSUME Supervised' PROVE LoopInv' /\ TimeInv'
  <2>1. LoopInv /\ TimeInv /\ Since' \in Nat /\ busy <= Since'
    BY <1>4, CallbackEnds
  <2>2. LoopInv'
    BY <1>1, <2>1 DEF LoopInv
  <2>3. Since = Interval + busy
    BY <1>1 DEF Since, SinceOf
  <2>4. ASSUME InTime' PROVE hw'.left + Grace(missed') + Since' >= Timeout
    <3>1. missed' < 2
      BY <1>1, <2>4 DEF InTime
    <3>2. missed = 0 /\ missed' = 1 /\ missed < 2
      BY <1>3, <3>1, Numbers, SMT
    <3>3. hw.left + 0 + (Interval + busy) >= Timeout
      BY <2>1, <2>3, <3>2, GraceFacts DEF TimeInv, InTime
    <3>4. hw.left + Interval + Since' >= Timeout
      BY <2>1, <3>3, Numbers, SMT
    <3>5. QED
      BY <1>1, <3>2, <3>4, GraceFacts
  <2>5. fails' # 0
    BY <1>3, SMT
  <2>6. QED
    BY <1>1, <2>1, <2>2, <2>4, <2>5 DEF TimeInv
<1>5. QED
  BY <1>2, <1>4 DEF RInv

(* The ticker counts the seconds of its period. *)
LEMMA PhaseFacts ==
    ASSUME NEW f \in Nat, f <= Interval - 1
    PROVE  IF f + 1 = Interval THEN (f + 1) % Interval = 0 ELSE (f + 1) % Interval = f + 1
<1>1. Interval \in Nat \ {0}
  BY IntervalFacts
<1>2. CASE f + 1 = Interval
  BY <1>1, <1>2, SMT
<1>3. CASE f + 1 # Interval
  BY <1>1, <1>3, SMT
<1>4. QED
  BY <1>2, <1>3

(* The idle time counts up, and a step over its budget stays so. *)
LEMMA IdleFacts ==
    ASSUME WTypeOK, Second
    PROVE  idle' <= idle + 1 /\ (OverBudget => OverBudget')
<1>1. idle \in Nat /\ IdleCap \in Nat /\ idle + 1 \in Int /\ IdleCap \in Int
  BY Numbers, SMT
<1>2. idle' \in {idle + 1, IdleCap} /\ idle' <= idle + 1
  <2>1. idle' = Min({idle + 1, IdleCap}) /\ {idle + 1, IdleCap} = {IdleCap, idle + 1}
    BY DEF Second
  <2>2. Min({IdleCap, idle + 1}) \in {IdleCap, idle + 1} /\ Min({IdleCap, idle + 1}) <= idle + 1
    BY <1>1, MinOfTwo
  <2>3. QED
    BY <2>1, <2>2
<1>3. ASSUME OverBudget PROVE OverBudget'
  <2>1. step # NoStep /\ idle > Budgets[step] /\ step' = step
    BY <1>3 DEF OverBudget, Second
  <2>2. step \in WatchedSteps
    BY <2>1 DEF WTypeOK
  <2>3. Budgets[step] \in Nat /\ Budgets[step] < IdleCap
    BY <2>2, WatchdogAssumption
  <2>4. idle' > Budgets[step]
    BY <1>1, <1>2, <2>1, <2>3, SMT
  <2>5. QED
    BY <2>1, <2>4 DEF OverBudget
<1>4. QED
  BY <1>2, <1>3

(* What a second does to the loop of a supervised host: everything that is *)
(* being waited for is a second older.                                     *)
LEMMA SecondOfLoop ==
    ASSUME WTypeOK, LoopInv, Second, Supervised, tick # "ended"
    PROVE  /\ LoopInv'
           /\ Since \in Nat /\ Since' = Since + 1 /\ Since' <= Interval + PetMax
           /\ tick = "stall" => Since' <= PetMax
<1>1. /\ tick' = tick /\ stalled' = stalled /\ missed' = missed /\ fails' = fails /\ recorded' = recorded
      /\ sinceTick' = (sinceTick + 1) % Interval
      /\ pending' = (pending \/ sinceTick' = 0)
  BY SMT DEF Second, histVars, Supervised
<1>2. (tick = "sleep" /\ ~pending) \/ (tick \in {"stall", "pet"} /\ busy < PetMax)
  BY DEF Second, Supervised
<1>3. IF sinceTick + 1 = Interval THEN sinceTick' = 0 ELSE sinceTick' = sinceTick + 1
  BY <1>1, Numbers, PhaseFacts
<1>4. CASE tick = "sleep" /\ ~pending
  <2>1. Since = sinceTick
    BY <1>4 DEF Since, SinceOf
  <2>2. CASE sinceTick + 1 = Interval
    <3>1. pending'
      BY <1>1, <1>3, <2>2
    <3>2. Since' = Interval
      BY <1>1, <1>4, <3>1, SinceNext DEF SinceOf
    <3>3. Since \in Nat /\ Since' = Since + 1 /\ Since' <= Interval + PetMax
      BY <2>1, <2>2, <3>2, Numbers, SMT
    <3>4. QED
      BY <1>1, <1>4, <3>3 DEF LoopInv
  <2>3. CASE sinceTick + 1 # Interval
    <3>1. sinceTick' = sinceTick + 1 /\ sinceTick' # 0
      BY <1>3, <2>3, Numbers, SMT
    <3>2. ~pending'
      BY <1>1, <1>4, <3>1
    <3>3. Since' = sinceTick + 1
      BY <1>1, <1>4, <3>1, <3>2, SinceNext DEF SinceOf
    <3>4. Since \in Nat /\ Since' = Since + 1 /\ Since' <= Interval + PetMax
      BY <2>1, <3>3, Numbers, SMT
    <3>5. QED
      BY <1>1, <1>4, <3>4 DEF LoopInv
  <2>4. QED
    BY <2>2, <2>3
<1>5. CASE tick \in {"stall", "pet"} /\ busy < PetMax
  <2>1. busy' = busy + 1
    <3>1. busy' = Min({busy + 1, PetMax})
      BY <1>5 DEF Second
    <3>2. busy + 1 \in Int /\ PetMax \in Int /\ busy \in Nat
      BY Numbers, SMT
    <3>3. Min({busy + 1, PetMax}) \in {busy + 1, PetMax} /\ Min({PetMax, busy + 1}) <= busy + 1
      BY <3>2, MinOfTwo
    <3>4. {busy + 1, PetMax} = {PetMax, busy + 1}
      OBVIOUS
    <3>5. busy' \in {busy + 1, PetMax} /\ busy' <= busy + 1
      BY <3>1, <3>3, <3>4
    <3>6. QED
      BY <1>5, <3>2, <3>5, SMT
  <2>2. ASSUME ~pending' PROVE busy' <= sinceTick'
    <3>1. ~pending /\ sinceTick' # 0
      BY <1>1, <2>2
    <3>2. sinceTick' = sinceTick + 1
      BY <1>3, <3>1
    <3>3. busy <= sinceTick
      BY <1>5, <3>1 DEF LoopInv
    <3>4. QED
      BY <2>1, <3>2, <3>3, Numbers, SMT
  <2>3. LoopInv'
    BY <1>1, <2>2 DEF LoopInv
  <2>4. (tick = "pet" => Since = Interval + busy) /\ (tick = "stall" => Since = busy)
    BY DEF Since, SinceOf
  <2>5. (tick = "pet" => Since' = Interval + (busy + 1)) /\ (tick = "stall" => Since' = busy + 1)
    BY <1>1, <2>1, SinceNext DEF SinceOf
  <2>6. CASE tick = "pet"
    <3>1. Since = Interval + busy /\ Since' = Interval + (busy + 1)
      BY <2>4, <2>5, <2>6
    <3>2. Since \in Nat /\ Since' = Since + 1 /\ Since' <= Interval + PetMax
      BY <1>5, <3>1, Numbers, SMT
    <3>3. QED
      BY <2>3, <2>6, <3>2
  <2>7. CASE tick = "stall"
    <3>1. Since = busy /\ Since' = busy + 1
      BY <2>4, <2>5, <2>7
    <3>2. Since \in Nat /\ Since' = Since + 1 /\ Since' <= Interval + PetMax /\ Since' <= PetMax
      BY <1>5, <3>1, Numbers, SMT
    <3>3. QED
      BY <2>3, <3>2
  <2>8. QED
    BY <1>5, <2>6, <2>7
<1>6. QED
  BY <1>2, <1>4, <1>5

(* A second passes: the hardware fires only when the time without a pet is *)
(* longer than one miss explains.                                          *)
LEMMA SecondRStep ==
    ASSUME WTypeOK, RInv, Tolerant, Second
    PROVE  RInv'
<1>1. /\ host = "up" /\ dev # "off" /\ dev' = dev /\ tick' = tick /\ stalled' = stalled
      /\ missed' = missed /\ fails' = fails /\ recorded' = recorded
      /\ handed' = handed /\ supClosed' = supClosed /\ hung' = hung
  BY DEF Second, histVars
<1>2. QuietInv'
  <2>1. ~Active => ~pending' /\ host' = "up" /\ hw' = hw
    BY DEF Second, Expires, RInv, QuietInv
  <2>2. QED
    BY <1>1, <2>1 DEF RInv, QuietInv, Active
<1>3. ASSUME Supervised' PROVE LoopInv' /\ (host' = "up" => TimeInv') /\ (host' = "reset" => Deserved')
  <2>1. Supervised
    BY <1>1, <1>3, SMT DEF Supervised, Active
  <2>2. LoopInv /\ TimeInv /\ tick # "ended"
    BY <1>1, <2>1 DEF RInv, QuietInv, Supervised
  <2>3. /\ LoopInv'
        /\ Since \in Nat /\ Since' = Since + 1 /\ Since' <= Interval + PetMax
        /\ tick = "stall" => Since' <= PetMax
    BY <2>1, <2>2, SecondOfLoop
  <2>4. fails = 0 /\ missed > 0 => OverBudget' \/ idle' <= Since'
    <3>1. idle' <= idle + 1 /\ (OverBudget => OverBudget')
      BY IdleFacts
    <3>2. idle' \in Nat
      BY SecondTypeOK, SMT DEF WTypeOK
    <3>3. idle <= Since => idle' <= Since'
      BY <2>3, <3>1, <3>2, Numbers, SMT
    <3>4. QED
      BY <2>2, <3>1, <3>3 DEF TimeInv
  <2>5. InTime' <=> InTime
    BY <1>1 DEF InTime
  <2>6. hw.running /\ hw.action = "reset"
    BY <2>2 DEF TimeInv
  <2>7. CASE hw.left > 1
    <3>1. hw' = [hw EXCEPT !.left = Max({hw.left - 1, 0}), !.running = hw.left > 1]
      BY <2>6 DEF Second
    <3>2. Max({hw.left - 1, 0}) = hw.left - 1
      <4>1. hw.left - 1 \in Int /\ 0 \in Int /\ hw.left \in Nat
        BY Numbers, SMT
      <4>2. Max({hw.left - 1, 0}) \in {hw.left - 1, 0} /\ Max({0, hw.left - 1}) >= hw.left - 1
        BY <4>1, MaxOfTwo
      <4>3. {hw.left - 1, 0} = {0, hw.left - 1}
        OBVIOUS
      <4>4. Max({hw.left - 1, 0}) >= hw.left - 1
        BY <4>2, <4>3
      <4>5. QED
        BY <2>7, <4>1, <4>2, <4>4, SMT
    <3>3. hw'.left = hw.left - 1 /\ hw'.running /\ hw'.action = "reset"
      BY <2>6, <2>7, <3>1, <3>2 DEF WTypeOK
    <3>4. Grace(missed) \in Nat
      BY Numbers, SMT DEF Grace
    <3>5. ASSUME InTime' PROVE hw'.left + Grace(missed') + Since' >= Timeout
      <4>1. hw.left + Grace(missed) + Since >= Timeout
        BY <2>2, <2>5, <3>5 DEF TimeInv
      <4>2. (hw.left - 1) + Grace(missed) + (Since + 1) >= Timeout
        BY <2>3, <3>4, <4>1, Numbers, SMT
      <4>3. QED
        BY <1>1, <2>3, <3>3, <4>2
    <3>6. TimeInv'
      BY <1>1, <2>4, <3>3, <3>5 DEF TimeInv
    <3>7. host' = "up"
      BY <2>7, Numbers, SMT DEF Second, Expires
    <3>8. QED
      BY <2>3, <3>6, <3>7
  <2>8. CASE ~(hw.left > 1)
    <3>1. hw.left \in Nat /\ hw.left <= 1
      BY <2>8, Numbers, SMT
    <3>2. host' = "reset"
      BY <2>6, <3>1 DEF Second, Expires
    <3>3. ~InTime
      <4>1. SUFFICES ASSUME InTime PROVE FALSE
        OBVIOUS
      <4>2. hw.left + Grace(missed) + Since >= Timeout
        BY <2>2, <4>1 DEF TimeInv
      <4>3. missed < 2 \/ tick = "stall"
        BY <4>1 DEF InTime
      <4>4. CASE missed < 2
        <5>1. Grace(missed) \in Nat /\ Grace(missed) <= Interval
          BY <4>4, Numbers, SMT DEF Grace
        <5>2. QED
          BY <2>3, <3>1, <4>2, <5>1, Numbers, SMT DEF Tolerant
      <4>5. CASE tick = "stall"
        <5>1. Grace(missed) \in Nat /\ Grace(missed) <= 2 * Interval
          BY Numbers, SMT DEF Grace
        <5>2. Since' <= PetMax
          BY <2>3, <4>5
        <5>3. QED
          BY <2>3, <3>1, <4>2, <5>1, <5>2, Numbers, SMT DEF Tolerant
      <4>6. QED
        BY <4>3, <4>4, <4>5
    <3>4. missed = 2 /\ missed > 0
      <4>1. ~(missed < 2)
        BY <3>3 DEF InTime
      <4>2. QED
        BY <4>1, Numbers, SMT
    <3>5. recorded \/ fails = 2
      <4>1. fails < 2 \/ fails = 2
        BY Numbers, SMT
      <4>2. QED
        BY <2>2, <3>3, <3>4, <4>1 DEF LoopInv, InTime
    <3>6. idle' <= Since' => idle' <= Interval + PetMax
      <4>1. idle' \in Nat
        BY SecondTypeOK, SMT DEF WTypeOK
      <4>2. QED
        BY <2>3, <4>1, Numbers, SMT
    <3>7. Deserved'
      BY <1>1, <2>4, <3>4, <3>5, <3>6 DEF Deserved
    <3>8. QED
      BY <2>3, <3>2, <3>7
  <2>9. QED
    BY <2>7, <2>8
<1>4. QED
  BY <1>2, <1>3 DEF RInv

(* Every step keeps the invariant of the timing. *)
LEMMA NextRInv == Tolerant /\ WTypeOK /\ WInv /\ RInv /\ [WNext]_wvars => RInv'
<1> SUFFICES ASSUME Tolerant, WTypeOK, WInv, RInv, [WNext]_wvars PROVE RInv'
  OBVIOUS
<1>1. ASSUME NEW d \in {"none"} \cup Devices, startWatchdog(d) PROVE RInv'
  BY <1>1, StartRStep
<1>2. CASE Progress \/ Idle \/ \E s \in WatchedSteps : Step(s)
  BY <1>2, RunRStep
<1>3. CASE Check
  BY <1>3, CheckRStep
<1>4. CASE OnStall
  BY <1>4, OnStallRStep
<1>5. CASE KeepaliveOK
  BY <1>5, OkRStep
<1>6. CASE KeepaliveFails
  BY <1>6, FailsRStep
<1>7. CASE RunEnds \/ KernelHangs \/ \E keep \in BOOLEAN : Handoff(keep)
  BY <1>7, EndRStep
<1>8. CASE Second
  BY <1>8, SecondRStep
<1>9. CASE UNCHANGED wvars
  <2>1. /\ step' = step /\ idle' = idle /\ stalled' = stalled /\ supClosed' = supClosed
        /\ tick' = tick /\ busy' = busy /\ pending' = pending /\ sinceTick' = sinceTick
        /\ dev' = dev /\ open' = open /\ hw' = hw
        /\ missed' = missed /\ fails' = fails /\ recorded' = recorded
        /\ hung' = hung /\ host' = host /\ handed' = handed
    BY <1>9 DEF wvars, supVars, loopVars, devVars, histVars
  <2>2. QuietInv' <=> QuietInv
    BY <2>1 DEF QuietInv, Active
  <2>3. (Supervised' <=> Supervised) /\ (LoopInv' <=> LoopInv) /\ (OverBudget' <=> OverBudget) /\ Since' = Since
    BY <2>1 DEF Supervised, Active, LoopInv, OverBudget, Since
  <2>4. (TimeInv' <=> TimeInv) /\ (Deserved' <=> Deserved)
    BY <2>1, <2>3 DEF TimeInv, InTime, Deserved
  <2>5. QED
    BY <2>1, <2>2, <2>3, <2>4 DEF RInv
<1>10. QED
  BY <1>1, <1>2, <1>3, <1>4, <1>5, <1>6, <1>7, <1>8, <1>9 DEF WNext

(* While the kernel runs and nothing was handed off, the hardware resets   *)
(* the host only after two ticks in a row without a pet, only with the     *)
(* stall on record or after two failed keepalives, and never one whose     *)
(* step came back within its budget in time for the next tick: for every   *)
(* timeout, budget and duration of a callback with which one miss can be   *)
(* tolerated at all (NewSupervisor, Tick, check).                          *)
THEOREM ResetIsDeservedAlways == Tolerant => (WSpec => []ResetIsDeserved)
<1> SUFFICES ASSUME Tolerant PROVE WSpec => []ResetIsDeserved
  OBVIOUS
<1>1. RInv => ResetIsDeserved
  <2> SUFFICES ASSUME RInv, host = "reset", ~hung, handed = "no"
               PROVE  /\ missed = 2
                      /\ recorded \/ fails = 2
                      /\ fails = 0 => OverBudget \/ idle <= Interval + PetMax
    BY DEF ResetIsDeserved, OneMissIsTolerated, StallIsRecordedBeforeReset, ProgressSavesHost
  <2>1. Active
    BY DEF RInv, QuietInv
  <2>2. QED
    BY <2>1 DEF RInv, Supervised, Deserved
<1>2. WTypeOK /\ [WNext]_wvars => WTypeOK'
  BY CodeTypeOK, SecondTypeOK DEF WNext
<1>3. Tolerant /\ WTypeOK /\ WInv /\ RInv /\ [WNext]_wvars => RInv'
  BY NextRInv
<1>4. QED
  BY <1>1, <1>2, <1>3, InitTypeOK, InitWInv, NextWInv, StartInitRInv, PTL DEF WSpec

=============================================================================
