-------------------------- MODULE GobgpPeersProofs --------------------------
(***************************************************************************)
(* Proofs about the peers of the GoBGP underlay, for every set of NICs and *)
(* of switch addresses, every grace period and every number of flaps,      *)
(* moves and failing calls.  The run has one NIC; here the goroutines work *)
(* on any number of them.                                                  *)
(***************************************************************************)
EXTENDS GobgpPeers, TLAPS

(* Zenon finds most of the steps; those that need arithmetic or a theory    *)
(* of functions cite SMT.                                                  *)
USE Zenon

-----------------------------------------------------------------------------
(* The inductive invariant *)

PeerStates == [adm : {"up", "down"}, fsm : {"idle", "stale", "active", "est"}, was : BOOLEAN]
Moving == {"join", "move", "leave", "record", "bfd"}

(* What the variables hold; an address of a NIC has the NIC as its zone, and *)
(* a goroutine that is idle remembers nothing.                               *)
Shapes ==
    /\ peer \in [Addrs -> PeerStates \cup {NoPeer}]
    /\ peerConfs \subseteq Addrs
    /\ ifacePeers \in [Ifaces -> Addrs \cup {None}]
    /\ nset \subseteq Addrs
    /\ bfdPeer \in [Ifaces -> Addrs \cup {None}]
    /\ switch \in [Ifaces -> Hosts \cup {Silent}]
    /\ carrier \in [Ifaces -> BOOLEAN]
    /\ events \subseteq Hosts \cup {Placeholder}
    /\ restarts \subseteq Addrs

(* The relearner knows its NIC, and the new address is one of that NIC. *)
Relearns ==
    /\ relearn \in [pc : {"idle", "check", "probe"} \cup Moving, todo : SUBSET Ifaces,
                    i : Ifaces \cup {None}, new : Addrs \cup {None}]
    /\ relearn.pc = "idle" => relearn = Idle
    /\ relearn.pc \in {"probe"} \cup Moving => relearn.i \in Ifaces
    /\ relearn.pc \in Moving => relearn.new \in Addrs /\ relearn.new[2] = relearn.i
    /\ relearn.pc \in {"join", "move", "leave"} => relearn.new # ifacePeers[relearn.i]
    /\ relearn.pc = "bfd" => relearn.new = ifacePeers[relearn.i]

(* The carrier watch has updates only while it runs. *)
Watches ==
    /\ watch.pc \in {"idle", "act"} /\ (watch.pc = "idle" => watch = NoUpdate)
    /\ "carrier" \notin running => updates = <<>>
    /\ stage = "setup" => updates = <<>> /\ watch = NoUpdate

(* Where Setup and Teardown are, and what they have started and stopped. *)
Stages ==
    /\ stage \in {"setup", "up", "teardown", "down"} /\ running \subseteq Parts
    /\ stage = "setup" =>
        /\ at \in 1 .. 15
        /\ "server" \in running <=> at > 4
        /\ "carrier" \in running => at > 12
        /\ "relearn" \in running => at > 13
        /\ "restart" \in running => at > 14
        /\ relearn = Idle
    /\ stage = "up" => "server" \in running
    /\ stage = "teardown" =>
        /\ at \in 1 .. 11
        /\ \A k \in 1 .. at - 1 : TeardownSteps[k] \notin running
        /\ at > 2 => events = {} /\ restarts = {}
        /\ at > 3 => relearn = Idle
        /\ at > 4 => watch = NoUpdate

(* Without its restarter, relearner or carrier watch, a setup has no work of them. *)
Quiet == events = {} /\ restarts = {} /\ relearn = Idle /\ watch = NoUpdate

Halted ==
    /\ stage = "setup" /\ "restart" \notin running => events = {} /\ restarts = {}
    /\ stage # "down" /\ "server" \notin running =>
        /\ Quiet /\ Known = {}
        /\ running \cap {"restart", "relearn", "carrier"} = {}
    /\ stage = "down" => running = {} /\ Known = {} /\ Quiet

(* The address of the peer of a NIC: inside a move the new one. *)
Cur(i) == IF relearn.i = i /\ relearn.pc \in {"leave", "record"} THEN relearn.new ELSE ifacePeers[i]

(* Setup has added the peers. *)
Installed == stage = "up" \/ (stage = "setup" /\ at > 7)

(* Setup has not gone past its step n. *)
Early(n) == stage = "setup" /\ at <= n

(* Every peer, known or configured, is that of its NIC; only a lost one is    *)
(* missing, and a BFD session lags behind the recorded address only while the *)
(* relearner moves it.                                                        *)
Placed ==
    /\ Early(7) => Known = {}
    /\ Early(10) => \A i \in Ifaces : bfdPeer[i] = None
    /\ \A a \in Known \cup peerConfs : a = Cur(a[2])
    /\ Installed => \A i \in Ifaces :
        /\ ifacePeers[i] \in Addrs /\ ifacePeers[i][2] = i
        /\ i \notin lost => Cur(i) \in Known /\ Cur(i) \in peerConfs
    /\ \A i \in Ifaces : bfdPeer[i] \in {None, ifacePeers[i]} \/ (relearn.pc = "bfd" /\ relearn.i = i)

(* Every peer has its policy, and the next one of a move has it first. *)
Policed ==
    /\ stage = "up" \/ (stage = "setup" /\ at > 8) => Known \subseteq nset
    /\ relearn.pc = "move" /\ Old \in nset => relearn.new \in nset

PeersInv == Shapes /\ Relearns /\ Watches /\ Stages /\ Halted /\ Placed /\ Policed

-----------------------------------------------------------------------------
(* The tables of Setup and Teardown, and addresses *)

(* Where the steps of Setup stand that the proofs speak of. *)
LEMMA SetupTable ==
    /\ Len(SetupSteps) = 14
    /\ \A k \in 1 .. 14 :
        /\ SetupSteps[k] = "server" <=> k = 4
        /\ SetupSteps[k] = "peers" <=> k = 7
        /\ SetupSteps[k] = "policies" <=> k = 8
        /\ SetupSteps[k] = "announce" <=> k = 9
        /\ SetupSteps[k] = "sessions" <=> k = 10
        /\ SetupSteps[k] = "carrier" <=> k = 12
        /\ SetupSteps[k] = "relearn" <=> k = 13
        /\ SetupSteps[k] = "restart" <=> k = 14
<1>1. Len(SetupSteps) = 14
  BY DEF SetupSteps
<1>2. /\ SetupSteps[1] = "dummy" /\ SetupSteps[2] = "nics" /\ SetupSteps[3] = "lldp"
      /\ SetupSteps[4] = "server" /\ SetupSteps[5] = "bfd" /\ SetupSteps[6] = "ra"
      /\ SetupSteps[7] = "peers" /\ SetupSteps[8] = "policies" /\ SetupSteps[9] = "announce"
      /\ SetupSteps[10] = "sessions" /\ SetupSteps[11] = "fib" /\ SetupSteps[12] = "carrier"
      /\ SetupSteps[13] = "relearn" /\ SetupSteps[14] = "restart"
  BY DEF SetupSteps
<1>3. ASSUME NEW k \in 1 .. 14
      PROVE  k \in {1, 2, 3, 4, 5, 6, 7, 8, 9, 10, 11, 12, 13, 14}
  BY SMT
<1> QED BY <1>1, <1>2, <1>3

(* The parts are those that Teardown stops, the server after the goroutines. *)
LEMMA TeardownTable ==
    /\ Len(TeardownSteps) = 10
    /\ \A k \in 1 .. 10 : TeardownSteps[k] = "server" <=> k = 8
    /\ TeardownSteps[2] = "restart" /\ TeardownSteps[3] = "relearn" /\ TeardownSteps[4] = "carrier"
    /\ \A part \in Parts : \E k \in 1 .. 10 : TeardownSteps[k] = part
    /\ "server" \in Parts
<1>1. /\ Len(TeardownSteps) = 10
      /\ TeardownSteps[2] = "restart" /\ TeardownSteps[3] = "relearn" /\ TeardownSteps[4] = "carrier"
  BY DEF TeardownSteps
<1>2. ASSUME NEW k \in 1 .. 10 PROVE TeardownSteps[k] = "server" <=> k = 8
  BY SMT DEF TeardownSteps
<1>3. Parts = {"dummy", "nics", "lldp", "server", "bfd", "ra", "fib", "carrier", "relearn", "restart"}
  BY SMT DEF Parts, SetupSteps
<1>4. \A part \in Parts : \E k \in 1 .. 10 : TeardownSteps[k] = part
  <2> SUFFICES ASSUME NEW part \in Parts PROVE \E k \in 1 .. 10 : TeardownSteps[k] = part
    OBVIOUS
  <2>1. /\ TeardownSteps[1] = "ra" /\ TeardownSteps[5] = "fib" /\ TeardownSteps[6] = "bfd"
        /\ TeardownSteps[7] = "lldp" /\ TeardownSteps[8] = "server" /\ TeardownSteps[9] = "nics"
        /\ TeardownSteps[10] = "dummy"
    BY DEF TeardownSteps
  <2> QED BY <1>1, <1>3, <2>1, SMT
<1> QED BY <1>1, <1>2, <1>3, <1>4

(* A peer is known when its state is one of a peer. *)
LEMMA KnownPeers ==
    ASSUME Shapes
    PROVE  /\ Known \subseteq Addrs
           /\ \A a \in Known : peer[a] \in PeerStates
           /\ \A a \in Addrs \ Known : peer[a] = NoPeer
           /\ NoPeer \notin PeerStates
BY DEF Shapes, Known, NoPeer, PeerStates

(* discoverLinkLocalPeer returns an address of the NIC. *)
LEMMA Discovered ==
    ASSUME Shapes, NEW i \in Ifaces
    PROVE  discoverLinkLocalPeer(i) \in Addrs /\ discoverLinkLocalPeer(i)[2] = i
BY DEF Shapes, discoverLinkLocalPeer, placeholderPeer, Addrs

LEMMA AddrParts ==
    ASSUME NEW a \in Addrs
    PROVE  a[1] \in Hosts \cup {Placeholder} /\ a[2] \in Ifaces
BY DEF Addrs

-----------------------------------------------------------------------------
(* What the steps that change peers do to the set of known peers *)

(* GoBGP's own state machine changes no address and no admin state. *)
LEMMA FsmStep ==
    ASSUME Shapes, NEW a \in Addrs, SessionUp(a) \/ SessionEnds(a) \/ IdleHoldEnds(a)
    PROVE  /\ peer' \in [Addrs -> PeerStates \cup {NoPeer}]
           /\ Known' = Known
           /\ \A b \in Addrs : peer'[b].adm = peer[b].adm
<1>1. peer[a] # NoPeer
  BY SMT DEF SessionUp, SessionEnds, IdleHoldEnds, NoPeer
<1>2. a \in Known /\ peer[a] \in PeerStates /\ peer \in [Addrs -> PeerStates \cup {NoPeer}]
  BY <1>1, KnownPeers DEF Known, Shapes
<1>3. \/ peer' = [peer EXCEPT ![a] = [peer[a] EXCEPT !.fsm = "est", !.was = TRUE]]
      \/ \E to \in {"idle", "stale", "active"} :
            peer' = [peer EXCEPT ![a] = [peer[a] EXCEPT !.fsm = to]]
  BY <1>2 DEF SessionUp, SessionEnds, IdleHoldEnds
<1>4. PICK s \in PeerStates : s.adm = peer[a].adm /\ peer' = [peer EXCEPT ![a] = s]
  BY <1>2, <1>3 DEF PeerStates
<1> QED BY <1>2, <1>4, KnownPeers DEF Known

(* The carrier watch stops and starts known peers. *)
LEMMA WatchStep ==
    ASSUME Shapes, stopPeer \/ startStoppedPeer
    PROVE  peer' \in [Addrs -> PeerStates \cup {NoPeer}] /\ Known' = Known
<1>1. CASE peer' = peer
  BY <1>1 DEF Known, Shapes
<1>2. CASE peer' # peer
  <2>1. watch.addr \in Known
    BY <1>2 DEF stopPeer, startStoppedPeer
  <2> DEFINE a == watch.addr
  <2>2. a \in Addrs /\ peer[a] \in PeerStates /\ peer \in [Addrs -> PeerStates \cup {NoPeer}]
    BY <2>1, KnownPeers DEF Shapes
  <2>3. \/ peer' = [peer EXCEPT ![a] = [peer[a] EXCEPT !.adm = "down", !.fsm = "idle"]]
        \/ peer' = [peer EXCEPT ![a] = [peer[a] EXCEPT !.adm = "up"]]
    BY <1>2, <2>1, <2>2 DEF stopPeer, startStoppedPeer
  <2>4. PICK s \in PeerStates : peer' = [peer EXCEPT ![a] = s]
    BY <2>2, <2>3 DEF PeerStates
  <2> QED BY <2>1, <2>2, <2>4, KnownPeers DEF Known
<1> QED BY <1>1, <1>2

(* The restarter replaces a known peer in place, or loses it. *)
LEMMA RestartStep ==
    ASSUME Shapes, NEW a \in Addrs, restartPeer(a)
    PROVE  /\ peer' \in [Addrs -> PeerStates \cup {NoPeer}]
           /\ \/ Known' = Known /\ lost' = lost
              \/ Known' = Known \ {a} /\ lost' = lost \cup {a[2]}
           /\ \A b \in Addrs : peer[b].adm = "down" => peer'[b].adm # "up"
<1>1. /\ peer \in [Addrs -> PeerStates \cup {NoPeer}]
      /\ Added \in PeerStates
      /\ NoPeer \notin PeerStates
      /\ NoPeer.adm = "none"
  BY KnownPeers DEF Shapes, Added, PeerStates, NoPeer
<1>2. CASE peer' = peer /\ lost' = lost
  BY <1>1, <1>2 DEF Known
<1>3. CASE a \in Known /\ peer[a].adm = "up" /\ peer' = [peer EXCEPT ![a] = Added] /\ lost' = lost
  BY <1>1, <1>3 DEF Known
<1>4. CASE peer' = [peer EXCEPT ![a] = NoPeer] /\ lost' = lost \cup {a[2]}
  BY <1>1, <1>4 DEF Known
<1> QED BY <1>2, <1>3, <1>4 DEF restartPeer, needsRestart

(* The relearner moves a known peer, loses it, or leaves it. *)
LEMMA MoveStep ==
    ASSUME Shapes, Relearns, movePeer
    PROVE  /\ peer' \in [Addrs -> PeerStates \cup {NoPeer}]
           /\ \/ Known' = Known /\ peerConfs' = peerConfs /\ lost' = lost /\ NextIface(relearn.i)
              \/ /\ Old \in Known /\ relearn.new \in Addrs
                 /\ peer' = [peer EXCEPT ![Old] = NoPeer, ![relearn.new] = Added]
                 /\ Known' = (Known \ {Old}) \cup {relearn.new}
                 /\ peerConfs' = (peerConfs \ {Old}) \cup {relearn.new} /\ lost' = lost
                 /\ relearn' = [relearn EXCEPT !.pc = "leave"]
              \/ /\ Known' = Known \ {Old} /\ peerConfs' = peerConfs \ {Old}
                 /\ peer' = [peer EXCEPT ![Old] = NoPeer]
                 /\ lost' = lost \cup {relearn.i} /\ NextIface(relearn.i)
<1>1. /\ peer \in [Addrs -> PeerStates \cup {NoPeer}]
      /\ Added \in PeerStates
      /\ NoPeer \notin PeerStates
      /\ relearn.new \in Addrs
  BY KnownPeers DEF Shapes, Relearns, Moving, movePeer, Added, PeerStates, NoPeer
<1>2. CASE UNCHANGED <<server, lost>> /\ NextIface(relearn.i)
  BY <1>1, <1>2 DEF Known, server
<1>3. CASE /\ Old \in Known
           /\ peer' = [peer EXCEPT ![Old] = NoPeer, ![relearn.new] = Added]
           /\ peerConfs' = (peerConfs \ {Old}) \cup {relearn.new}
           /\ relearn' = [relearn EXCEPT !.pc = "leave"] /\ lost' = lost
  <2>1. Known' = (Known \ {Old}) \cup {relearn.new}
    BY <1>1, <1>3, Added # NoPeer DEF Known
  <2> QED BY <1>1, <1>3, <2>1
<1>4. CASE /\ peer' = [peer EXCEPT ![Old] = NoPeer] /\ peerConfs' = peerConfs \ {Old}
           /\ lost' = lost \cup {relearn.i} /\ NextIface(relearn.i)
  BY <1>1, <1>4 DEF Known
<1> QED BY <1>2, <1>3, <1>4 DEF movePeer, server

(* addSessionPeers adds a peer for every NIC that is not lost. *)
LEMMA AddStep ==
    ASSUME Shapes, addSessionPeers
    PROVE  /\ peer' \in [Addrs -> PeerStates \cup {NoPeer}]
           /\ ifacePeers' \in [Ifaces -> Addrs]
           /\ \A i \in Ifaces : ifacePeers'[i][2] = i
           /\ Known' = {ifacePeers'[i] : i \in Ifaces \ lost'}
           /\ peerConfs' = Known'
<1>1. PICK failed \in {{}} \cup {{i} : i \in Ifaces} :
        /\ ifacePeers' = [i \in Ifaces |-> discoverLinkLocalPeer(i)]
        /\ lost' = failed
        /\ peerConfs' = {ifacePeers'[i] : i \in Ifaces \ failed}
        /\ peer' = [a \in Addrs |-> IF a \in peerConfs' THEN Added ELSE NoPeer]
  BY SMT DEF addSessionPeers
<1>2. ifacePeers' \in [Ifaces -> Addrs] /\ \A i \in Ifaces : ifacePeers'[i][2] = i
  BY <1>1, Discovered
<1>3. Added \in PeerStates /\ Added # NoPeer
  BY DEF Added, PeerStates, NoPeer
<1>4. peerConfs' \subseteq Addrs
  BY <1>1, <1>2
<1>5. Known' = peerConfs'
  BY <1>1, <1>3, <1>4 DEF Known
<1> QED BY <1>1, <1>2, <1>3, <1>5

-----------------------------------------------------------------------------
(* The invariant holds initially *)
LEMMA InitInv == Init => PeersInv
<1> SUFFICES ASSUME Init PROVE PeersInv
  OBVIOUS
<1>1. Known = {}
  BY DEF Init, Known
<1>2. Shapes
  BY PeersAssumption DEF Init, Shapes, NoPeer
<1>3. Relearns /\ Watches
  BY DEF Init, Relearns, Watches, Idle, NoUpdate, Moving
<1>4. Stages
  BY SMT DEF Init, Stages
<1>5. Halted
  BY <1>1 DEF Init, Halted, Quiet
<1>6. Placed
  BY <1>1, SMT DEF Init, Placed, Installed, Early
<1>7. Policed
  BY <1>1 DEF Init, Policed, Idle
<1> QED BY <1>2, <1>3, <1>4, <1>5, <1>6, <1>7 DEF PeersInv

-----------------------------------------------------------------------------
(* The goroutines keep their shape *)

LEMMA NextShapes ==
    ASSUME PeersInv, [Next]_vars
    PROVE  Shapes'
<1> USE DEF life, link, server, maps, watching
<1>0. /\ Shapes
      /\ Relearns
  BY DEF PeersInv
<1>1. ASSUME SetupWorks PROVE Shapes'
  <2>0. /\ at \in 1 .. 14
        /\ stage = "setup"
        /\ UNCHANGED <<switch, carrier, events, restarts>>
    BY <1>1, SetupTable DEF SetupWorks
  <2>1. CASE SetupStep = "peers" /\ addSessionPeers /\ UNCHANGED <<nset, bfdPeer>>
    <3>1. peerConfs' \subseteq Addrs
      BY <1>0, <2>1, AddStep DEF Known
    <3> QED BY <1>0, <2>0, <2>1, <3>1, AddStep DEF Shapes
  <2>2. CASE SetupStep = "policies" /\ installPolicies /\ UNCHANGED <<server, ifacePeers, bfdPeer>>
    <3>1. \A i \in Ifaces : ifacePeers[i] \in Addrs
      BY <2>0, <2>2, SetupTable, SMTT(30) DEF PeersInv, Placed, Installed, Early, SetupStep
    <3>2. nset' \subseteq Addrs
      BY <2>2, <3>1 DEF installPolicies
    <3> QED BY <1>0, <2>0, <2>2, <3>2 DEF Shapes
  <2>3. CASE SetupStep = "sessions" /\ startBFD /\ UNCHANGED <<server, ifacePeers, nset>>
    BY <1>0, <2>0, <2>3 DEF Shapes, startBFD
  <2>4. CASE UNCHANGED <<server, maps>>
    BY <1>0, <2>0, <2>4 DEF Shapes
  <2> QED BY <1>1, <2>1, <2>2, <2>3, <2>4 DEF SetupWorks
<1>2. ASSUME Stops PROVE Shapes'
  <2>1. /\ bfdPeer' \in {[i \in Ifaces |-> None], bfdPeer}
        /\ peer' \in {[a \in Addrs |-> NoPeer], peer}
        /\ UNCHANGED <<peerConfs, ifacePeers, nset, link, events, restarts>>
    BY <1>2 DEF Stops
  <2> QED BY <1>0, <2>1 DEF Shapes
<1>3. ASSUME NEW a \in Addrs, SessionUp(a) \/ SessionEnds(a) \/ IdleHoldEnds(a) PROVE Shapes'
  <2>1. events' \subseteq events \cup {a[1]}
    BY <1>3 DEF SessionUp, SessionEnds, IdleHoldEnds, Handled, hostOf
  <2>2. UNCHANGED <<peerConfs, maps, link, restarts>>
    BY <1>3 DEF SessionUp, SessionEnds, IdleHoldEnds
  <2> QED BY <1>0, <1>3, <2>1, <2>2, FsmStep, AddrParts DEF Shapes
<1>4. ASSUME NEW i \in Ifaces, CarrierChanges(i) \/ SwitchMoves(i) PROVE Shapes'
  <2>1. switch' \in [Ifaces -> Hosts \cup {Silent}] /\ carrier' \in [Ifaces -> BOOLEAN]
    BY <1>0, <1>4 DEF Shapes, CarrierChanges, SwitchMoves
  <2>2. UNCHANGED <<server, maps, events, restarts>>
    BY <1>4 DEF CarrierChanges, SwitchMoves
  <2> QED BY <1>0, <2>1, <2>2 DEF Shapes
<1>5. ASSUME NEW h, ListPeers(h) PROVE Shapes'
  BY <1>0, <1>5 DEF Shapes, ListPeers
<1>6. ASSUME NEW a \in Addrs, restartPeer(a) PROVE Shapes'
  <2>1. restarts' \subseteq restarts /\ UNCHANGED <<peerConfs, maps, link, events>>
    BY <1>6 DEF restartPeer
  <2> QED BY <1>0, <1>6, <2>1, RestartStep DEF Shapes
<1>7. ASSUME joinNeighborSets PROVE Shapes'
  <2>1. relearn.new \in Addrs
    BY <1>0, <1>7 DEF Relearns, Moving, joinNeighborSets
  <2>2. /\ nset' \in {nset, nset \cup {relearn.new}}
        /\ UNCHANGED <<link, server, ifacePeers, bfdPeer, events, restarts>>
    BY <1>7 DEF joinNeighborSets
  <2> QED BY <1>0, <2>1, <2>2 DEF Shapes
<1>8. ASSUME movePeer PROVE Shapes'
  <2>1. UNCHANGED <<link, maps, events, restarts>>
    BY <1>8 DEF movePeer
  <2>2. relearn.new \in Addrs
    BY <1>0, <1>8 DEF Relearns, Moving, movePeer
  <2>3. /\ peer' \in [Addrs -> PeerStates \cup {NoPeer}]
        /\ peerConfs' \in {peerConfs, peerConfs \ {Old}, (peerConfs \ {Old}) \cup {relearn.new}}
    BY <1>0, <1>8, MoveStep
  <2> QED BY <1>0, <2>1, <2>2, <2>3 DEF Shapes
<1>9. ASSUME leaveNeighborSets PROVE Shapes'
  <2>1. /\ nset' \in {nset, nset \ {Old}}
        /\ UNCHANGED <<link, server, ifacePeers, bfdPeer, events, restarts>>
    BY <1>9 DEF leaveNeighborSets
  <2> QED BY <1>0, <2>1 DEF Shapes
<1>10. ASSUME replaceInterfacePeer \/ ReplaceBFD PROVE Shapes'
  <2>1. relearn.new \in Addrs
    BY <1>0, <1>10 DEF Relearns, Moving, replaceInterfacePeer, ReplaceBFD
  <2>2. /\ ifacePeers' \in {ifacePeers, [ifacePeers EXCEPT ![relearn.i] = relearn.new]}
        /\ \E x \in {None, relearn.new} :
              bfdPeer' \in {bfdPeer, [bfdPeer EXCEPT ![relearn.i] = x]}
        /\ UNCHANGED <<link, server, nset, events, restarts>>
    BY <1>10 DEF replaceInterfacePeer, ReplaceBFD
  <2> QED BY <1>0, <2>1, <2>2 DEF Shapes
<1>11. ASSUME stopPeer \/ startStoppedPeer PROVE Shapes'
  <2>1. UNCHANGED <<peerConfs, maps, link, events, restarts>>
    BY <1>11 DEF stopPeer, startStoppedPeer
  <2> QED BY <1>0, <1>11, <2>1, WatchStep DEF Shapes
<1>12. ASSUME UNCHANGED <<link, server, maps, events, restarts>> PROVE Shapes'
  BY <1>0, <1>12 DEF Shapes
<1>13. ASSUME \/ SetupFails \/ SetupSkips \/ SetupDone \/ TeardownBegins \/ Stopped \/ TeardownDone
              \/ Tick \/ (\E i \in Ifaces : check(i)) \/ movedPeer \/ handleUpdate
       PROVE  Shapes'
  BY <1>12, <1>13 DEF SetupFails, SetupSkips, SetupDone, TeardownBegins, Stopped, TeardownDone,
                      Tick, check, movedPeer, handleUpdate
<1>14. ASSUME UNCHANGED vars PROVE Shapes'
  BY <1>12, <1>14 DEF vars
<1> QED BY <1>1, <1>2, <1>3, <1>4, <1>5, <1>6, <1>7, <1>8, <1>9, <1>10, <1>11, <1>13, <1>14
        DEF Next, Relearn, Restart, Watch, Fsm, Lifecycle, Fabric

LEMMA NextRound ==
    ASSUME Relearns, NEW i, NextIface(i)
    PROVE  /\ relearn'.pc \in {"idle", "check"}
           /\ relearn' \in [pc : {"idle", "check"}, todo : SUBSET Ifaces, i : {None}, new : {None}]
           /\ relearn'.pc = "idle" => relearn' = Idle
BY DEF Relearns, NextIface, Idle

LEMMA NextRelearns ==
    ASSUME PeersInv, [Next]_vars
    PROVE  Relearns'
<1> USE DEF life, link, server, maps, watching
<1>0. /\ Shapes
      /\ Relearns
      /\ Stages
  BY DEF PeersInv
<1>1. ASSUME relearn'.pc \in {"idle", "check"}, relearn'.pc = "idle" => relearn' = Idle,
             relearn' \in [pc : {"idle", "check"}, todo : SUBSET Ifaces, i : {None}, new : {None}]
      PROVE  Relearns'
  BY <1>1 DEF Relearns, Moving
<1>2. ASSUME relearn' = relearn, ifacePeers' = ifacePeers PROVE Relearns'
  BY <1>0, <1>2 DEF Relearns
<1>3. ASSUME SetupWorks PROVE Relearns'
  <2>1. relearn' = Idle
    BY <1>0, <1>3 DEF SetupWorks, Stages
  <2> QED BY <1>1, <2>1 DEF Idle
<1>4. ASSUME Tick PROVE Relearns'
  BY <1>1, <1>4 DEF Tick, Idle
<1>5. ASSUME NEW i \in Ifaces, check(i) PROVE Relearns'
  <2>1. CASE NextIface(i)
    BY <1>0, <1>1, <2>1, NextRound
  <2>2. CASE relearn' = [relearn EXCEPT !.pc = "probe", !.i = i]
    BY <1>0, <2>2 DEF Relearns, Moving
  <2> QED BY <1>5, <2>1, <2>2 DEF check
<1>6. ASSUME movedPeer PROVE Relearns'
  <2>1. CASE NextIface(relearn.i)
    BY <1>0, <1>1, <2>1, NextRound
  <2>2. CASE /\ relearn' = [relearn EXCEPT !.pc = "join", !.new = discoverLinkLocalPeer(relearn.i)]
             /\ discoverLinkLocalPeer(relearn.i) # ifacePeers[relearn.i]
    <3>1. relearn.i \in Ifaces
      BY <1>0, <1>6 DEF Relearns, movedPeer
    <3>2. ifacePeers' = ifacePeers
      BY <1>6 DEF movedPeer
    <3> HIDE DEF discoverLinkLocalPeer
    <3> QED BY <1>0, <2>2, <3>1, <3>2, Discovered DEF Relearns, Moving
  <2> QED BY <1>6, <2>1, <2>2 DEF movedPeer
<1>7. ASSUME joinNeighborSets \/ leaveNeighborSets PROVE Relearns'
  <2>1. CASE NextIface(relearn.i)
    BY <1>0, <1>1, <2>1, NextRound
  <2>2. CASE \/ relearn.pc = "join" /\ relearn' = [relearn EXCEPT !.pc = "move"]
             \/ relearn.pc = "leave" /\ relearn' = [relearn EXCEPT !.pc = "record"]
    <3>1. ifacePeers' = ifacePeers
      BY <1>7 DEF joinNeighborSets, leaveNeighborSets
    <3> QED BY <1>0, <2>2, <3>1 DEF Relearns, Moving
  <2> QED BY <1>7, <2>1, <2>2 DEF joinNeighborSets, leaveNeighborSets
<1>8. ASSUME movePeer PROVE Relearns'
  <2>1. CASE NextIface(relearn.i)
    BY <1>0, <1>1, <2>1, NextRound
  <2>2. CASE relearn' = [relearn EXCEPT !.pc = "leave"]
    <3>1. ifacePeers' = ifacePeers /\ relearn.pc = "move"
      BY <1>8 DEF movePeer
    <3> QED BY <1>0, <2>2, <3>1 DEF Relearns, Moving
  <2> QED BY <1>8, <2>1, <2>2 DEF movePeer
<1>9. ASSUME replaceInterfacePeer PROVE Relearns'
  BY <1>0, <1>9 DEF replaceInterfacePeer, Relearns, Moving, Shapes
<1>10. ASSUME ReplaceBFD PROVE Relearns'
  BY <1>0, <1>1, <1>10, NextRound DEF ReplaceBFD
<1>11. ASSUME UNCHANGED vars PROVE Relearns'
  BY <1>2, <1>11 DEF vars
<1>12. ASSUME SetupFails \/ SetupSkips \/ SetupDone \/ TeardownBegins \/ Stops \/ Stopped \/ TeardownDone
       PROVE  Relearns'
  BY <1>2, <1>12 DEF SetupFails, SetupSkips, SetupDone, TeardownBegins, Stops, Stopped, TeardownDone
<1>13. ASSUME Restart \/ Watch \/ Fsm \/ Fabric PROVE Relearns'
  BY <1>2, <1>13 DEF Restart, Watch, Fsm, Fabric, ListPeers, restartPeer, handleUpdate, stopPeer,
     startStoppedPeer, SessionUp, SessionEnds, IdleHoldEnds, CarrierChanges, SwitchMoves
<1> QED BY <1>3, <1>4, <1>5, <1>6, <1>7, <1>8, <1>9, <1>10, <1>11, <1>12, <1>13
        DEF Next, Relearn, Lifecycle

LEMMA NextWatches ==
    ASSUME PeersInv, [Next]_vars
    PROVE  Watches'
<1> USE DEF life, link, server, maps, watching
<1>0. Watches
  BY DEF PeersInv
<1>1. ASSUME UNCHANGED <<watch, updates>>, stage' = "setup" => stage = "setup",
             "carrier" \in running => "carrier" \in running'
      PROVE  Watches'
  BY <1>0, <1>1 DEF Watches
<1>2. ASSUME Stops PROVE Watches'
  <2>1. /\ stage' = "teardown"
        /\ running' = running \ {TeardownStep}
        /\ updates' = IF TeardownStep = "carrier" THEN <<>> ELSE updates
        /\ watch' = watch
    BY <1>2 DEF Stops
  <2> QED BY <1>0, <2>1 DEF Watches
<1>3. ASSUME NEW i \in Ifaces, CarrierChanges(i) PROVE Watches'
  BY <1>0, <1>3 DEF Watches, CarrierChanges
<1>4. ASSUME handleUpdate PROVE Watches'
  <2>1. /\ "carrier" \in running /\ stage # "setup"
        /\ UNCHANGED <<running, stage>>
    BY <1>0, <1>4 DEF Watches, handleUpdate
  <2>2. watch' = watch \/ watch'.pc = "act"
    BY <1>4, SMT DEF handleUpdate
  <2> QED BY <1>0, <2>1, <2>2 DEF Watches
<1>5. ASSUME stopPeer \/ startStoppedPeer PROVE Watches'
  <2>1. watch' = NoUpdate /\ UNCHANGED <<running, stage, updates>>
    BY <1>5 DEF stopPeer, startStoppedPeer
  <2> QED BY <1>0, <2>1 DEF Watches, NoUpdate
<1>6. ASSUME SetupWorks PROVE Watches'
  <2>1. running \subseteq running'
    BY <1>6 DEF SetupWorks, addSessionPeers
  <2> QED BY <1>1, <1>6, <2>1 DEF SetupWorks
<1>7. ASSUME SetupFails \/ SetupSkips \/ SetupDone \/ TeardownBegins \/ Stopped \/ TeardownDone
      PROVE  Watches'
  BY <1>1, <1>7 DEF SetupFails, SetupSkips, SetupDone, TeardownBegins, Stopped, TeardownDone
<1>8. ASSUME UNCHANGED <<life, watching>> PROVE Watches'
  BY <1>1, <1>8
<1>9. ASSUME Relearn PROVE Watches'
  BY <1>8, <1>9 DEF Relearn, Tick, check, movedPeer, joinNeighborSets, movePeer, leaveNeighborSets,
                    replaceInterfacePeer, ReplaceBFD
<1>10. ASSUME Restart \/ Fsm \/ (\E i \in Ifaces : SwitchMoves(i)) \/ UNCHANGED vars PROVE Watches'
  BY <1>8, <1>10 DEF Restart, ListPeers, restartPeer, Fsm, SessionUp, SessionEnds, IdleHoldEnds,
                     SwitchMoves, vars
<1> QED BY <1>2, <1>3, <1>4, <1>5, <1>6, <1>7, <1>9, <1>10 DEF Next, Watch, Lifecycle, Fabric

-----------------------------------------------------------------------------
(* Setup and Teardown *)

(* A step of the relearner starts a round or goes on with one. *)
LEMMA RelearnSteps ==
    ASSUME Relearn
    PROVE  Tick \/ relearn.pc \in {"check", "probe"} \cup Moving
<1>1. CASE \E i \in Ifaces : check(i)
  BY <1>1 DEF check
<1>2. CASE movedPeer \/ joinNeighborSets \/ movePeer
  BY <1>2 DEF movedPeer, joinNeighborSets, movePeer, Moving
<1>3. CASE leaveNeighborSets \/ replaceInterfacePeer \/ ReplaceBFD
  BY <1>3 DEF leaveNeighborSets, replaceInterfacePeer, ReplaceBFD, Moving
<1> QED BY <1>1, <1>2, <1>3 DEF Relearn

LEMMA IdleIsNowhere == relearn = Idle => relearn.pc \notin {"check", "probe"} \cup Moving
BY SMT DEF Idle, Moving

(* The goroutines and the sessions only work while the server runs. *)
LEMMA OnlyWithServer ==
    ASSUME PeersInv, Relearn \/ Restart \/ Watch \/ Fsm \/ Fabric
    PROVE  stage # "down" /\ "server" \in running
<1>0. /\ Halted
      /\ Watches
      /\ Stages
      /\ Shapes
  BY DEF PeersInv
<1> SUFFICES ASSUME stage = "down" \/ "server" \notin running PROVE FALSE
  OBVIOUS
<1>1. /\ events = {} /\ restarts = {}
      /\ relearn = Idle
      /\ watch = NoUpdate
      /\ Known = {}
      /\ "relearn" \notin running /\ "carrier" \notin running
      /\ stage # "up"
  BY <1>0 DEF Halted, Quiet, Stages
<1>2. ~Relearn
  BY <1>1, RelearnSteps, IdleIsNowhere DEF Tick
<1>3. ~Restart
  BY <1>1 DEF Restart, ListPeers, restartPeer
<1>4. updates = <<>>
  BY <1>0, <1>1 DEF Watches
<1>5. ~Watch
  BY <1>1, <1>4 DEF Watch, handleUpdate, stopPeer, startStoppedPeer, NoUpdate
<1>6. ~Fsm
  <2>1. \A a \in Addrs : peer[a] = NoPeer
    BY <1>1 DEF Known
  <2>2. ASSUME NEW a \in Addrs, SessionUp(a) \/ SessionEnds(a) \/ IdleHoldEnds(a) PROVE peer[a] # NoPeer
    BY <2>2, SMT DEF SessionUp, SessionEnds, IdleHoldEnds, NoPeer
  <2> QED BY <2>1, <2>2 DEF Fsm
<1>7. ~Fabric
  BY <1>1 DEF Fabric, CarrierChanges, SwitchMoves
<1> QED BY <1>2, <1>3, <1>5, <1>6, <1>7

(* While Setup runs, only the restarter may work. *)
LEMMA DuringSetup ==
    ASSUME PeersInv, stage = "setup"
    PROVE  ~Relearn /\ ~Watch /\ ~Fabric
<1>1. relearn = Idle /\ watch = NoUpdate /\ updates = <<>>
  BY DEF PeersInv, Stages, Watches
<1>2. ~Relearn
  BY <1>1, RelearnSteps, IdleIsNowhere DEF Tick
<1>3. ~Watch
  BY <1>1 DEF Watch, handleUpdate, stopPeer, startStoppedPeer, NoUpdate
<1>4. ~Fabric
  BY DEF Fabric, CarrierChanges, SwitchMoves
<1> QED BY <1>2, <1>3, <1>4

(* Work of the goroutines that starts in a Teardown has a goroutine that runs. *)
LEMMA WorkStarts ==
    ASSUME PeersInv, Relearn \/ Restart \/ Watch \/ Fsm \/ Fabric
    PROVE  /\ UNCHANGED life
           /\ events = {} /\ restarts = {} /\ "restart" \notin running =>
                events' = {} /\ restarts' = {}
           /\ relearn = Idle /\ "relearn" \notin running => relearn' = Idle
           /\ watch = NoUpdate /\ "carrier" \notin running => watch' = NoUpdate
<1>0. Watches
  BY DEF PeersInv
<1> USE DEF life, link, server, maps, watching
<1>1. CASE Relearn
  <2>1. UNCHANGED <<life, events, restarts, watching>>
    BY <1>1 DEF Relearn, Tick, check, movedPeer, joinNeighborSets, movePeer, leaveNeighborSets,
                replaceInterfacePeer, ReplaceBFD
  <2>2. relearn = Idle => "relearn" \in running
    BY <1>1, RelearnSteps, IdleIsNowhere DEF Tick
  <2> QED BY <2>1, <2>2
<1>2. CASE Restart
  <2>1. UNCHANGED <<life, relearn, watching>>
    BY <1>2 DEF Restart, ListPeers, restartPeer
  <2>2. events # {} \/ restarts # {}
    BY <1>2 DEF Restart, ListPeers, restartPeer
  <2> QED BY <2>1, <2>2
<1>3. CASE Watch
  <2>1. UNCHANGED <<life, relearn, events, restarts>>
    BY <1>3 DEF Watch, handleUpdate, stopPeer, startStoppedPeer
  <2>2. watch = NoUpdate => "carrier" \in running
    BY <1>0, <1>3, SMT DEF Watch, handleUpdate, stopPeer, startStoppedPeer, NoUpdate, Watches
  <2> QED BY <2>1, <2>2
<1>4. CASE Fsm
  <2>1. UNCHANGED <<life, relearn, watching, restarts>>
    BY <1>4 DEF Fsm, SessionUp, SessionEnds, IdleHoldEnds
  <2>2. "restart" \notin running => events' = events
    BY <1>4 DEF Fsm, SessionUp, SessionEnds, IdleHoldEnds, Handled
  <2> QED BY <2>1, <2>2
<1>5. CASE Fabric
  BY <1>5 DEF Fabric, CarrierChanges, SwitchMoves
<1> QED BY <1>1, <1>2, <1>3, <1>4, <1>5

(* A part that has started is in running afterwards. *)
LEMMA SetupStarts ==
    ASSUME PeersInv, SetupWorks \/ SetupSkips
    PROVE  /\ stage = "setup" /\ stage' = "setup" /\ at \in 1 .. 14 /\ at' = at + 1
           /\ running' = running \/ running' = running \cup {SetupStep}
           /\ at = 4 => "server" \in running'
           /\ running' \subseteq Parts
           /\ UNCHANGED <<relearn, watch, updates, events, restarts>>
<1> USE DEF life, link, server, maps, watching
<1>1. /\ stage = "setup" /\ stage' = "setup" /\ at \in 1 .. 14 /\ at' = at + 1
      /\ UNCHANGED <<relearn, watch, updates, events, restarts>>
  BY SetupTable DEF SetupWorks, SetupSkips
<1>2. running \subseteq Parts
  BY DEF PeersInv, Stages
<1>3. CASE SetupSkips
  <2>1. SetupStep # "server" /\ running' = running
    BY <1>3 DEF SetupSkips, Tolerated
  <2> QED BY <1>1, <1>2, <2>1, SetupTable DEF SetupStep
<1>4. CASE SetupWorks
  <2>1. \/ running' = running /\ SetupStep \in {"peers", "policies", "announce", "sessions"}
        \/ running' = running \cup {SetupStep} /\ SetupStep \in Parts
    BY <1>4 DEF SetupWorks, addSessionPeers
  <2> QED BY <1>1, <1>2, <2>1, SetupTable DEF SetupStep
<1> QED BY <1>3, <1>4

(* The steps of Setup and Teardown that start and stop nothing. *)
LEMMA OtherSteps ==
    ASSUME SetupFails \/ SetupSkips \/ SetupDone \/ TeardownBegins \/ Stopped \/ TeardownDone
    PROVE  \/ stage' \in {"teardown", "down"}
           \/ /\ stage = "setup" /\ stage' = "setup" /\ at \in 1 .. 14 /\ at' = at + 1
              /\ at \notin {7, 8}
           \/ stage = "setup" /\ at = 15 /\ stage' = "up"
<1> USE DEF life
<1>1. CASE SetupSkips
  <2>1. stage = "setup" /\ stage' = "setup" /\ at \in 1 .. 14 /\ at' = at + 1
    BY <1>1, SetupTable DEF SetupSkips
  <2>2. SetupSteps[at] \notin {"peers", "policies"}
    BY <1>1 DEF SetupSkips, SetupStep, Tolerated
  <2> QED BY <2>1, <2>2, SetupTable
<1>2. CASE SetupDone
  BY <1>2, SetupTable, SMT DEF SetupDone
<1>3. CASE SetupFails \/ TeardownBegins \/ Stopped \/ TeardownDone
  BY <1>3 DEF SetupFails, TeardownBegins, Stopped, TeardownDone
<1> QED BY <1>1, <1>2, <1>3

LEMMA NextStages ==
    ASSUME PeersInv, [Next]_vars
    PROVE  Stages'
<1> USE DEF life, link, server, maps, watching
<1>0. /\ Stages
      /\ Halted
  BY DEF PeersInv
<1>1. ASSUME SetupWorks \/ SetupSkips PROVE Stages'
  <2>1. \A part \in {"server", "carrier", "relearn", "restart"} :
          part \in running' => part \in running \/ SetupSteps[at] = part
    BY <1>1, SetupStarts DEF SetupStep
  <2>2. "server" \in running => "server" \in running'
    BY <1>1, SetupStarts
  <2> QED BY <1>0, <1>1, <2>1, <2>2, SetupStarts, SetupTable, SMT DEF Stages
<1>2. ASSUME SetupFails PROVE Stages'
  <2>1. stage' = "teardown" /\ at' = 1 /\ running' \subseteq running
    BY <1>2 DEF SetupFails
  <2> QED BY <1>0, <2>1, SMT DEF Stages
<1>3. ASSUME SetupDone \/ TeardownBegins \/ TeardownDone PROVE Stages'
  <2>1. /\ running' = running /\ at' = 1
        /\ \/ stage' = "up" /\ stage = "setup" /\ at = 15
           \/ stage' \in {"teardown", "down"}
    BY <1>3, SetupTable, SMT DEF SetupDone, TeardownBegins, TeardownDone
  <2> QED BY <1>0, <2>1, SMT DEF Stages
<1>4. ASSUME Stops \/ Stopped PROVE Stages'
  <2>1. /\ stage = "teardown" /\ stage' = "teardown"
        /\ at \in 1 .. 10
        /\ running' \subseteq running
        /\ at' \in {at, at + 1}
        /\ at' = at + 1 => TeardownSteps[at] \notin running' /\ ~Busy(TeardownSteps[at])
        /\ UNCHANGED <<events, restarts, relearn, watch>>
    BY <1>0, <1>4, TeardownTable, SMT DEF Stops, Stopped, TeardownStep, Stages
  <2>2. /\ at = 2 /\ at' = 3 => events = {} /\ restarts = {}
        /\ at = 3 /\ at' = 4 => relearn = Idle
        /\ at = 4 /\ at' = 5 => watch = NoUpdate
    BY <2>1, TeardownTable, SMT DEF Busy
  <2>3. ASSUME NEW k \in 1 .. at' - 1 PROVE TeardownSteps[k] \notin running'
    <3>0. at \in 1 .. 10 /\ (at' = at \/ at' = at + 1)
      BY <2>1
    <3>1. k \in 1 .. at - 1 \/ (k = at /\ at' = at + 1)
      BY <3>0, SMT
    <3>2. k \in 1 .. at - 1 => TeardownSteps[k] \notin running
      BY <1>0, <2>1 DEF Stages
    <3> QED BY <2>1, <3>1, <3>2
  <2>4. /\ running' \subseteq Parts
        /\ at' \in 1 .. 11
        /\ at' > 2 => events' = {} /\ restarts' = {}
        /\ at' > 3 => relearn' = Idle
        /\ at' > 4 => watch' = NoUpdate
    BY <1>0, <2>1, <2>2, SMT DEF Stages
  <2> QED BY <2>1, <2>3, <2>4 DEF Stages
<1>5. ASSUME Relearn \/ Restart \/ Watch \/ Fsm \/ Fabric PROVE Stages'
  <2>1. stage = "setup" => relearn' = Idle
    <3>1. ASSUME stage = "setup" PROVE Restart \/ Fsm
      BY <1>5, <3>1, DuringSetup
    <3>2. ASSUME Restart \/ Fsm PROVE relearn' = relearn
      BY <3>2 DEF Restart, ListPeers, restartPeer, Fsm, SessionUp, SessionEnds, IdleHoldEnds
    <3> QED BY <1>0, <3>1, <3>2 DEF Stages
  <2>2. stage = "teardown" =>
          /\ at > 2 => "restart" \notin running
          /\ at > 3 => "relearn" \notin running
          /\ at > 4 => "carrier" \notin running
    BY <1>0, TeardownTable, SMT DEF Stages
  <2> QED BY <1>0, <1>5, <2>1, <2>2, WorkStarts DEF Stages
<1>6. ASSUME UNCHANGED vars PROVE Stages'
  BY <1>0, <1>6 DEF Stages, vars
<1> QED BY <1>1, <1>2, <1>3, <1>4, <1>5, <1>6 DEF Next, Lifecycle

LEMMA NextHalted ==
    ASSUME PeersInv, [Next]_vars
    PROVE  Halted'
<1> USE DEF life, link, server, maps, watching
<1>0. /\ Stages
      /\ Halted
  BY DEF PeersInv
<1>1. ASSUME SetupWorks \/ SetupSkips PROVE Halted'
  <2>1. running \subseteq running'
    BY <1>1, SetupStarts
  <2>2. CASE at > 4
    BY <1>0, <1>1, <2>1, <2>2, SetupStarts DEF Halted, Stages
  <2>3. CASE at = 4
    <3>1. "server" \in running'
      BY <1>1, <2>3, SetupStarts
    <3> QED BY <1>0, <1>1, <2>1, <3>1, SetupStarts DEF Halted
  <2>4. CASE at < 4
    <3>1. peer' = peer
      BY <1>1, <2>4, SetupTable, SMT DEF SetupWorks, SetupSkips, SetupStep
    <3>2. SetupStep \notin {"server", "restart", "relearn", "carrier"}
      BY <1>1, <2>4, SetupStarts, SetupTable, SMT DEF SetupStep
    <3>3. "server" \notin running
      BY <1>0, <1>1, <2>4, SetupStarts, SMT DEF Stages
    <3>4. Known' = Known
      BY <3>1 DEF Known
    <3> QED BY <1>0, <1>1, <3>2, <3>3, <3>4, SetupStarts DEF Halted, Quiet
  <2> QED BY <1>1, <2>2, <2>3, <2>4, SetupStarts, SMT
<1>2. ASSUME UNCHANGED <<peer, relearn, watch, events, restarts>>, stage' # "down", stage # "down",
             running' \subseteq running, "server" \in running => "server" \in running',
             stage' = "setup" => stage = "setup" /\ running' = running
      PROVE  Halted'
  <2>1. Known' = Known
    BY <1>2 DEF Known
  <2> QED BY <1>0, <1>2, <2>1 DEF Halted, Quiet
<1>3. ASSUME SetupFails \/ SetupDone \/ TeardownBegins \/ Stopped PROVE Halted'
  BY <1>2, <1>3 DEF SetupFails, SetupDone, TeardownBegins, Stopped
<1>4. ASSUME Stops PROVE Halted'
  <2>1. CASE TeardownStep # "server"
    BY <1>2, <1>4, <2>1 DEF Stops
  <2>2. CASE TeardownStep = "server"
    <3>1. at = 8 /\ stage = "teardown"
      BY <1>0, <1>4, <2>2, TeardownTable, SMT DEF Stops, TeardownStep, Stages
    <3>2. Quiet /\ running \cap {"restart", "relearn", "carrier"} = {}
      BY <1>0, <3>1, TeardownTable, SMT DEF Stages, Quiet
    <3>3. /\ running' \subseteq running
          /\ stage' = "teardown"
          /\ peer' = [a \in Addrs |-> NoPeer]
          /\ UNCHANGED <<relearn, watch, events, restarts>>
      BY <1>4, <2>2 DEF Stops
    <3>4. Known' = {}
      BY <3>3 DEF Known
    <3> QED BY <3>2, <3>3, <3>4 DEF Halted, Quiet
  <2> QED BY <2>1, <2>2
<1>5. ASSUME TeardownDone PROVE Halted'
  <2>1. stage = "teardown" /\ at = 11 /\ stage' = "down"
    BY <1>5, TeardownTable, SMT DEF TeardownDone
  <2>2. running = {}
    BY <1>0, <2>1, TeardownTable, SMT DEF Stages
  <2>3. Quiet /\ Known = {}
    BY <1>0, <2>1, <2>2 DEF Halted
  <2>4. UNCHANGED <<running, peer, relearn, watch, events, restarts>>
    BY <1>5 DEF TeardownDone
  <2>5. Known' = Known
    BY <2>4 DEF Known
  <2> QED BY <2>1, <2>2, <2>3, <2>4, <2>5 DEF Halted, Quiet
<1>6. ASSUME Relearn \/ Restart \/ Watch \/ Fsm \/ Fabric PROVE Halted'
  <2>1. stage # "down" /\ "server" \in running
    BY <1>6, OnlyWithServer
  <2> QED BY <1>0, <1>6, <2>1, WorkStarts DEF Halted
<1>7. ASSUME UNCHANGED vars PROVE Halted'
  BY <1>0, <1>7 DEF Halted, Quiet, Known, vars
<1> QED BY <1>1, <1>3, <1>4, <1>5, <1>6, <1>7 DEF Next, Lifecycle

-----------------------------------------------------------------------------
(* The peers *)

(* The address of a NIC is its own. *)
LEMMA OwnAddress ==
    ASSUME Relearns, NEW i \in Ifaces, ifacePeers[i][2] = i
    PROVE  Cur(i)[2] = i
BY DEF Relearns, Cur, Moving

(* A step that keeps the known peers and the addresses keeps them in place. *)
LEMMA KeepsPlaced ==
    ASSUME PeersInv, Known' = Known, peerConfs' = peerConfs, ifacePeers' = ifacePeers,
           bfdPeer' = bfdPeer, lost' = lost, \A i \in Ifaces : Cur(i)' = Cur(i),
           Installed' => Installed, Early(7)' => Early(7), Early(10)' => Early(10),
           relearn.pc = "bfd" => relearn'.pc = "bfd" /\ relearn'.i = relearn.i
    PROVE  Placed'
<1>0. Placed /\ Shapes
  BY DEF PeersInv
<1>1. \A a \in (Known \cup peerConfs)' : a \in Addrs /\ a[2] \in Ifaces
  BY <1>0, KnownPeers, AddrParts DEF Shapes
<1> QED BY <1>0, <1>1 DEF Placed

(* A step that touches no peer, address or session, and no move, keeps them in place. *)
LEMMA UntouchedPlaced ==
    ASSUME PeersInv, UNCHANGED <<server, ifacePeers, bfdPeer, lost, relearn>>,
           Installed' => Installed, Early(7)' => Early(7), Early(10)' => Early(10)
    PROVE  Placed'
<1>1. Known' = Known /\ \A i \in Ifaces : Cur(i)' = Cur(i)
  BY DEF server, Known, Cur
<1> QED BY <1>1, KeepsPlaced DEF server

(* Setup adds the peers at its seventh step and the BFD sessions at its tenth. *)
LEMMA SetupPlaced ==
    ASSUME PeersInv, SetupWorks
    PROVE  Placed'
<1> USE DEF life, link, server, maps, watching
<1>inv. /\ Shapes
        /\ Relearns
        /\ Stages
        /\ Placed
  BY DEF PeersInv
<1>0. /\ stage = "setup" /\ stage' = "setup"
      /\ at \in 1 .. 14
      /\ at' = at + 1
      /\ relearn = Idle
      /\ relearn' = relearn
  BY <1>inv, SetupStarts DEF Stages
<1>1. CASE SetupStep = "peers" /\ addSessionPeers /\ UNCHANGED <<nset, bfdPeer>>
  <2>1. at = 7
    BY <1>0, <1>1, SetupTable DEF SetupStep
  <2>2. \A i \in Ifaces : Cur(i)' = ifacePeers'[i]
    BY <1>0 DEF Cur, Idle
  <2>3. \A i \in Ifaces : bfdPeer'[i] = None
    BY <1>inv, <1>0, <1>1, <2>1, SMT DEF Placed, Early
  <2>4. \A a \in (Known \cup peerConfs)' : a = (Cur(a[2]))'
    BY <1>inv, <1>1, <2>2, AddStep, SMT
  <2>5. \A i \in Ifaces :
          /\ ifacePeers'[i] \in Addrs /\ ifacePeers'[i][2] = i
          /\ i \notin lost' => Cur(i)' \in Known' /\ Cur(i)' \in peerConfs'
    BY <1>inv, <1>1, <2>2, AddStep
  <2>6. ~Early(7)'
    BY <1>0, <2>1, SMT DEF Early
  <2> QED BY <2>3, <2>4, <2>5, <2>6 DEF Placed
<1>2. CASE SetupStep = "sessions" /\ startBFD /\ UNCHANGED <<server, ifacePeers, nset, lost>>
  <2>1. at = 10
    BY <1>0, <1>2, SetupTable DEF SetupStep
  <2>2. Known' = Known /\ \A i \in Ifaces : Cur(i)' = Cur(i)
    BY <1>0, <1>2 DEF Known, Cur
  <2>3. \A i \in Ifaces : bfdPeer'[i] \in {None, ifacePeers'[i]}
    BY <1>inv, <1>0, <1>2, <2>1, SMTT(30) DEF startBFD, Placed, Early
  <2>4. \A a \in Known \cup peerConfs : a[2] \in Ifaces
    BY <1>inv, KnownPeers, AddrParts DEF Shapes
  <2>5. Installed /\ ~Early(7)' /\ ~Early(10)'
    BY <1>0, <2>1, SMT DEF Installed, Early
  <2> QED BY <1>inv, <1>0, <1>2, <2>2, <2>3, <2>4, <2>5, SMTT(30) DEF Placed
<1>3. CASE UNCHANGED <<server, ifacePeers, bfdPeer, lost>> /\ SetupStep # "peers"
  <2>1. at # 7
    BY <1>0, <1>3, SetupTable DEF SetupStep
  <2>2. (Installed' => Installed) /\ (Early(7)' => Early(7)) /\ (Early(10)' => Early(10))
    BY <1>0, <2>1, SMTT(30) DEF Installed, Early
  <2> QED BY UntouchedPlaced, <1>0, <1>3, <2>2
<1> QED BY <1>1, <1>2, <1>3, TeardownTable DEF SetupWorks, Parts

(* Teardown only takes peers and sessions away. *)
LEMMA StopsPlaced ==
    ASSUME PeersInv, Stops
    PROVE  Placed'
<1> USE DEF life, link, server, maps, watching
<1>inv. /\ Shapes
        /\ Relearns
        /\ Stages
        /\ Placed
  BY DEF PeersInv
<1>1. /\ stage' = "teardown"
      /\ UNCHANGED <<peerConfs, ifacePeers, relearn>>
      /\ peer' \in {peer, [a \in Addrs |-> NoPeer]}
      /\ bfdPeer' \in {bfdPeer, [i \in Ifaces |-> None]}
  BY DEF Stops
<1>2. Known' \subseteq Known /\ \A i \in Ifaces : Cur(i)' = Cur(i)
  BY <1>inv, <1>1 DEF Known, Cur, Shapes
<1>3. \A a \in Known \cup peerConfs : a[2] \in Ifaces
  BY <1>inv, KnownPeers, AddrParts DEF Shapes
<1>4. \A i \in Ifaces : bfdPeer'[i] \in {None, bfdPeer[i]}
  BY <1>1
<1>5. ~Early(7)' /\ ~Early(10)' /\ ~Installed'
  BY <1>1 DEF Early, Installed
<1>6. \A a \in (Known \cup peerConfs)' : a = (Cur(a[2]))'
  BY <1>inv, <1>1, <1>2, <1>3 DEF Placed
<1>7. \A i \in Ifaces :
          bfdPeer'[i] \in {None, ifacePeers'[i]} \/ (relearn'.pc = "bfd" /\ relearn'.i = i)
  BY <1>inv, <1>1, <1>4 DEF Placed
<1> QED BY <1>5, <1>6, <1>7, ZenonT(30) DEF Placed

(* A restart that fails half way loses the peer, and says so. *)
LEMMA RestartPlaced ==
    ASSUME PeersInv, NEW a \in Addrs, restartPeer(a)
    PROVE  Placed'
<1> USE DEF life, link, server, maps, watching
<1>inv. /\ Shapes
        /\ Relearns
        /\ Stages
        /\ Placed
  BY DEF PeersInv
<1>1. UNCHANGED <<peerConfs, ifacePeers, bfdPeer, relearn, stage, at>>
  BY ZenonT(30) DEF restartPeer
<1>2. \A i \in Ifaces : Cur(i)' = Cur(i)
  BY <1>1 DEF Cur
<1>3. CASE Known' = Known /\ lost' = lost
  BY <1>1, <1>2, <1>3, KeepsPlaced DEF Installed, Early
<1>4. CASE Known' = Known \ {a} /\ lost' = lost \cup {a[2]}
  <2>1. \A b \in Known \cup peerConfs : b[2] \in Ifaces
    BY <1>inv, KnownPeers, AddrParts DEF Shapes
  <2>2. ASSUME Installed, NEW i \in Ifaces, i \notin lost' PROVE Cur(i) \in Known'
    <3>1. Cur(i)[2] = i /\ Cur(i) \in Known
      BY <1>inv, <1>4, <2>2, OwnAddress DEF Placed
    <3> QED BY <1>4, <2>2, <3>1
  <2> QED BY <1>inv, <1>1, <1>2, <1>4, <2>1, <2>2 DEF Placed, Installed, Early
<1> QED BY <1>inv, <1>3, <1>4, RestartStep

(* The steps of the relearner around a move change no peer. *)
LEMMA ProbePlaced ==
    ASSUME PeersInv,
           Tick \/ (\E i \in Ifaces : check(i)) \/ movedPeer \/ joinNeighborSets \/ leaveNeighborSets
    PROVE  Placed'
<1> USE DEF life, link, server, maps, watching
<1>inv. /\ Shapes
        /\ Relearns
        /\ Stages
        /\ Placed
  BY DEF PeersInv
<1>1. UNCHANGED <<server, ifacePeers, bfdPeer, lost, stage, at>>
  BY DEF Tick, check, movedPeer, joinNeighborSets, leaveNeighborSets
<1>2. relearn.pc \in {"idle", "check", "probe", "join", "leave"}
  <2>1. ASSUME Tick PROVE relearn.pc = "idle"
    BY <2>1 DEF Tick, Idle
  <2> QED BY <2>1 DEF check, movedPeer, joinNeighborSets, leaveNeighborSets
<1>3. CASE relearn.pc # "leave"
  <2>1. relearn.pc \notin {"leave", "record"}
    BY <1>2, <1>3
  <2>2. relearn'.pc \in {"idle", "check", "probe", "join", "move"}
    <3>1. CASE \E i \in Ifaces \cup {relearn.i} : NextIface(i)
      BY <1>inv, <3>1, NextRound
    <3>2. CASE Tick
      BY <3>2 DEF Tick, Idle
    <3>3. CASE \E s \in {"probe", "join", "move"} : \E i :
                  \/ relearn' = [relearn EXCEPT !.pc = s]
                  \/ relearn' = [relearn EXCEPT !.pc = s, !.i = i]
                  \/ relearn' = [relearn EXCEPT !.pc = s, !.new = i]
      BY <1>inv, <3>3, ZenonT(30) DEF Relearns
    <3> QED BY <1>3, <3>1, <3>2, <3>3 DEF check, movedPeer, joinNeighborSets, leaveNeighborSets
  <2>3. \A i \in Ifaces : Cur(i)' = Cur(i)
    BY <1>1, <2>1, <2>2 DEF Cur
  <2>4. Known' = Known
    BY <1>1 DEF Known
  <2> QED BY <1>1, <1>2, <2>3, <2>4, KeepsPlaced DEF Installed, Early
<1>4. CASE relearn.pc = "leave"
  <2>1. relearn' = [relearn EXCEPT !.pc = "record"]
    BY <1>4, SMT DEF Tick, check, movedPeer, joinNeighborSets, leaveNeighborSets, Idle
  <2>2. \A i \in Ifaces : Cur(i)' = Cur(i)
    BY <1>inv, <1>1, <1>4, <2>1 DEF Cur, Relearns
  <2>3. Known' = Known
    BY <1>1 DEF Known
  <2> QED BY <1>1, <1>2, <2>2, <2>3, KeepsPlaced DEF Installed, Early
<1> QED BY <1>3, <1>4

(* A move deletes the old peer and adds the new one, or loses the NIC. *)
LEMMA MovePlaced ==
    ASSUME PeersInv, movePeer
    PROVE  Placed'
<1> USE DEF life, link, server, maps, watching
<1>inv. /\ Shapes
        /\ Relearns
        /\ Stages
        /\ Placed
  BY DEF PeersInv
<1>0. /\ UNCHANGED <<ifacePeers, bfdPeer, stage, at>>
      /\ relearn.pc = "move"
      /\ relearn.i \in Ifaces
      /\ relearn.new[2] = relearn.i
      /\ \A i \in Ifaces : Cur(i) = ifacePeers[i]
      /\ \A a \in Known \cup peerConfs : a[2] \in Ifaces /\ a = ifacePeers[a[2]]
      /\ \A i \in Ifaces : bfdPeer[i] \in {None, ifacePeers[i]}
      /\ stage # "setup"
  <2>1. UNCHANGED <<ifacePeers, bfdPeer, stage, at>> /\ relearn.pc = "move"
    BY DEF movePeer
  <2>2. relearn.i \in Ifaces /\ relearn.new[2] = relearn.i /\ stage # "setup"
    BY <1>inv, <2>1, SMT DEF Relearns, Moving, Stages, Idle
  <2>3. \A i \in Ifaces : Cur(i) = ifacePeers[i]
    BY <2>1 DEF Cur
  <2>4. \A a \in Known \cup peerConfs : a[2] \in Ifaces
    BY <1>inv, KnownPeers, AddrParts DEF Shapes
  <2> QED BY <1>inv, <2>1, <2>2, <2>3, <2>4 DEF Placed
<1>1. Installed => \A i \in Ifaces :
          /\ ifacePeers[i] \in Addrs
          /\ ifacePeers[i][2] = i
          /\ i \notin lost => ifacePeers[i] \in Known /\ ifacePeers[i] \in peerConfs
  BY <1>inv, <1>0, SMT DEF Placed
<1>2. Installed' = Installed /\ ~Early(7)' /\ ~Early(10)'
  BY <1>0 DEF Installed, Early
<1>3. CASE NextIface(relearn.i)
  <2>1. relearn'.pc \in {"idle", "check"}
    BY <1>inv, <1>3, NextRound
  <2>2. \A i \in Ifaces : Cur(i)' = ifacePeers[i]
    BY <1>0, <2>1 DEF Cur
  <2>3. \/ Known' = Known /\ peerConfs' = peerConfs /\ lost' = lost
        \/ /\ Known' = Known \ {Old}
           /\ peerConfs' = peerConfs \ {Old}
           /\ lost' = lost \cup {relearn.i}
    <3>1. relearn' # [relearn EXCEPT !.pc = "leave"]
      BY <1>inv, <2>1 DEF Relearns
    <3> QED BY <1>inv, <3>1, MoveStep
  <2>4. ASSUME Installed, NEW i \in Ifaces, i \notin lost'
        PROVE  ifacePeers[i] \in Known' /\ ifacePeers[i] \in peerConfs'
    BY <1>0, <1>1, <2>3, <2>4, SMT DEF Old
  <2> QED BY <1>0, <1>1, <1>2, <2>2, <2>3, <2>4, SMT DEF Placed
<1>4. CASE /\ Known' = (Known \ {Old}) \cup {relearn.new}
           /\ peerConfs' = (peerConfs \ {Old}) \cup {relearn.new}
           /\ lost' = lost
           /\ relearn' = [relearn EXCEPT !.pc = "leave"]
  <2>1. \A i \in Ifaces : Cur(i)' = IF i = relearn.i THEN relearn.new ELSE ifacePeers[i]
    BY <1>inv, <1>0, <1>4 DEF Cur, Relearns
  <2>2. ASSUME NEW a \in (Known \cup peerConfs)' PROVE a = (Cur(a[2]))'
    <3>1. CASE a = relearn.new
      BY <1>0, <2>1, <3>1
    <3>2. CASE a # relearn.new
      <4>1. a \in Known \cup peerConfs /\ a # Old
        BY <1>4, <2>2, <3>2
      <4>2. a[2] # relearn.i
        BY <1>0, <4>1 DEF Old
      <4> QED BY <1>0, <2>1, <4>1, <4>2
    <3> QED BY <3>1, <3>2
  <2>3. ASSUME Installed, NEW i \in Ifaces, i \notin lost
        PROVE  Cur(i)' \in Known' /\ Cur(i)' \in peerConfs'
    <3>1. CASE i = relearn.i
      BY <1>4, <2>1, <3>1
    <3>2. CASE i # relearn.i
      <4>1. ifacePeers[i] # Old
        BY <1>0, <1>1, <2>3, <3>2 DEF Old
      <4> QED BY <1>1, <1>4, <2>1, <2>3, <3>2, <4>1
    <3> QED BY <3>1, <3>2
  <2> QED BY <1>0, <1>1, <1>2, <1>4, <2>2, <2>3 DEF Placed
<1> QED BY <1>inv, <1>3, <1>4, MoveStep

(* The address is recorded after the peer moved. *)
LEMMA RecordPlaced ==
    ASSUME PeersInv, replaceInterfacePeer
    PROVE  Placed'
<1> USE DEF life, link, server, maps, watching
<1>inv. /\ Shapes
        /\ Relearns
        /\ Stages
        /\ Placed
  BY DEF PeersInv
<1>0. /\ UNCHANGED <<server, bfdPeer, lost, stage, at>>
      /\ relearn.pc = "record"
      /\ relearn.i \in Ifaces
      /\ relearn.new \in Addrs /\ relearn.new[2] = relearn.i
      /\ ifacePeers' = [ifacePeers EXCEPT ![relearn.i] = relearn.new]
      /\ relearn' = [relearn EXCEPT !.pc = "bfd"]
      /\ stage # "setup"
  <2>1. /\ relearn.pc = "record" /\ relearn # Idle
        /\ UNCHANGED <<server, bfdPeer, lost, stage, at>>
        /\ ifacePeers' = [ifacePeers EXCEPT ![relearn.i] = relearn.new]
        /\ relearn' = [relearn EXCEPT !.pc = "bfd"]
    BY SMT DEF replaceInterfacePeer, Idle
  <2>2. /\ relearn.i \in Ifaces /\ stage # "setup"
        /\ relearn.new \in Addrs /\ relearn.new[2] = relearn.i
    BY <1>inv, <2>1 DEF Relearns, Moving, Stages
  <2> QED BY <2>1, <2>2
<1>1. relearn'.pc = "bfd" /\ relearn'.i = relearn.i
  BY <1>inv, <1>0 DEF Relearns
<1>2. \A i \in Ifaces : ifacePeers'[i] = IF i = relearn.i THEN relearn.new ELSE ifacePeers[i]
  BY <1>inv, <1>0 DEF Shapes
<1>3. \A i \in Ifaces : Cur(i)' = Cur(i)
  BY <1>0, <1>1, <1>2 DEF Cur
<1>4. Known' = Known
  BY <1>0 DEF Known
<1>5. \A a \in Known \cup peerConfs : a[2] \in Ifaces
  BY <1>inv, KnownPeers, AddrParts DEF Shapes
<1> QED BY <1>inv, <1>0, <1>1, <1>2, <1>3, <1>4, <1>5, SMT DEF Placed, Installed, Early

(* The BFD session follows the recorded address. *)
LEMMA BfdPlaced ==
    ASSUME PeersInv, ReplaceBFD
    PROVE  Placed'
<1> USE DEF life, link, server, maps, watching
<1>inv. /\ Shapes
        /\ Relearns
        /\ Stages
        /\ Placed
  BY DEF PeersInv
<1>0. /\ UNCHANGED <<server, ifacePeers, lost, stage, at>>
      /\ relearn.pc = "bfd"
      /\ relearn.i \in Ifaces
      /\ relearn.new = ifacePeers[relearn.i]
      /\ \E x \in {None, relearn.new} : bfdPeer' = [bfdPeer EXCEPT ![relearn.i] = x]
      /\ stage # "setup"
  <2>0. relearn.pc = "bfd"
    BY DEF ReplaceBFD
  <2>1. relearn.pc = "bfd" /\ relearn # Idle
    BY <2>0, SMT DEF Idle
  <2>2. relearn.i \in Ifaces /\ relearn.new = ifacePeers[relearn.i] /\ stage # "setup"
    BY <1>inv, <2>1 DEF Relearns, Moving, Stages
  <2>3. /\ UNCHANGED <<server, ifacePeers, lost, stage, at>>
        /\ \E x \in {None, relearn.new} : bfdPeer' = [bfdPeer EXCEPT ![relearn.i] = x]
    BY ZenonT(30) DEF ReplaceBFD
  <2> QED BY <2>1, <2>2, <2>3, ZenonT(30)
<1>1. relearn'.pc \in {"idle", "check"}
  <2>1. NextIface(relearn.i)
    BY ZenonT(30) DEF ReplaceBFD
  <2> QED BY <1>inv, <2>1, NextRound
<1>2. \A i \in Ifaces : bfdPeer'[i] \in {None, ifacePeers[i]}
  <2>1. \A i \in Ifaces \ {relearn.i} : bfdPeer[i] \in {None, ifacePeers[i]}
    BY <1>inv, <1>0 DEF Placed
  <2> QED BY <1>inv, <1>0, <2>1 DEF Shapes
<1>3. \A i \in Ifaces : Cur(i)' = Cur(i)
  BY <1>0, <1>1 DEF Cur
<1>4. Known' = Known
  BY <1>0 DEF Known
<1>5. \A a \in Known \cup peerConfs : a[2] \in Ifaces
  BY <1>inv, KnownPeers, AddrParts DEF Shapes
<1> QED BY <1>inv, <1>0, <1>2, <1>3, <1>4, <1>5, SMT DEF Placed, Installed, Early

LEMMA NextPlaced ==
    ASSUME PeersInv, [Next]_vars
    PROVE  Placed'
<1> USE DEF life, link, server, maps, watching
<1>0. /\ Shapes
      /\ Relearns
      /\ Stages
      /\ Placed
  BY DEF PeersInv
<1>1. ASSUME SetupFails \/ SetupSkips \/ SetupDone \/ TeardownBegins \/ Stopped \/ TeardownDone
      PROVE  Placed'
  <2>1. UNCHANGED <<server, ifacePeers, bfdPeer, lost, relearn>>
    BY <1>1 DEF SetupFails, SetupSkips, SetupDone, TeardownBegins, Stopped, TeardownDone
  <2>2. \/ stage' \in {"teardown", "down"}
        \/ /\ stage = "setup" /\ stage' = "setup" /\ at \in 1 .. 14 /\ at' = at + 1
           /\ at \notin {7, 8}
        \/ stage = "setup" /\ at = 15 /\ stage' = "up"
    BY <1>1, OtherSteps
  <2>3. (Installed' => Installed) /\ (Early(7)' => Early(7)) /\ (Early(10)' => Early(10))
    BY <2>2, SMTT(30) DEF Installed, Early
  <2> QED BY UntouchedPlaced, <2>1, <2>3
<1>2. ASSUME Fabric \/ handleUpdate \/ (\E h \in Hosts \cup {Placeholder} : ListPeers(h)) \/ UNCHANGED vars
      PROVE  Placed'
  <2>1. UNCHANGED <<server, ifacePeers, bfdPeer, lost, relearn, stage, at>>
    BY <1>2 DEF Fabric, CarrierChanges, SwitchMoves, handleUpdate, ListPeers, vars
  <2> QED BY UntouchedPlaced, <2>1 DEF Installed, Early
<1>3. ASSUME Fsm \/ stopPeer \/ startStoppedPeer PROVE Placed'
  <2>1. UNCHANGED <<peerConfs, ifacePeers, bfdPeer, lost, relearn, stage, at>>
    BY <1>3 DEF Fsm, SessionUp, SessionEnds, IdleHoldEnds, stopPeer, startStoppedPeer
  <2>2. Known' = Known
    BY <1>0, <1>3, FsmStep, WatchStep DEF Fsm
  <2>3. \A i \in Ifaces : Cur(i)' = Cur(i)
    BY <2>1 DEF Cur
  <2> QED BY <2>1, <2>2, <2>3, KeepsPlaced DEF Installed, Early
<1>4. ASSUME \E a \in Addrs : restartPeer(a) PROVE Placed'
  BY <1>4, RestartPlaced
<1> QED BY <1>1, <1>2, <1>3, <1>4, SetupPlaced, StopsPlaced, ProbePlaced, MovePlaced, RecordPlaced,
           BfdPlaced
        DEF Next, Relearn, Restart, Watch, Lifecycle

LEMMA NextPoliced ==
    ASSUME PeersInv, [Next]_vars
    PROVE  Policed'
<1> USE DEF life, link, server, maps, watching
<1>0. /\ Shapes
      /\ Relearns
      /\ Stages
      /\ Placed
      /\ Policed
  BY DEF PeersInv
<1> DEFINE Needed == stage = "up" \/ (stage = "setup" /\ at > 8)
<1>1. ASSUME Known' \subseteq Known, UNCHANGED <<nset, ifacePeers>>, Needed' => Needed,
             relearn' = relearn \/ relearn'.pc # "move"
      PROVE  Policed'
  BY <1>0, <1>1 DEF Policed, Old
<1>2. ASSUME SetupWorks PROVE Policed'
  <2>0. /\ stage = "setup" /\ stage' = "setup"
        /\ at \in 1 .. 14
        /\ at' = at + 1
        /\ relearn = Idle
        /\ relearn' = relearn
    BY <1>0, <1>2, SetupStarts DEF Stages
  <2>1. relearn'.pc # "move"
    BY <2>0 DEF Idle
  <2>2. CASE at < 8
    BY <2>0, <2>1, <2>2, SMT DEF Policed
  <2>3. CASE at = 8
    <3>1. installPolicies /\ UNCHANGED server
      BY <1>2, <2>0, <2>3, SetupTable DEF SetupWorks, SetupStep, Parts
    <3>2. \A i \in Ifaces : Cur(i) = ifacePeers[i]
      BY <2>0 DEF Cur, Idle
    <3>3. \A a \in Known : a[2] \in Ifaces /\ a = ifacePeers[a[2]]
      BY <1>0, <3>2, KnownPeers, AddrParts DEF Placed
    <3>4. Known' = Known
      BY <3>1 DEF Known
    <3>5. Known' \subseteq nset'
      BY <3>1, <3>3, <3>4 DEF installPolicies
    <3> QED BY <2>1, <3>5 DEF Policed
  <2>4. CASE at > 8
    <3>1. UNCHANGED <<peer, nset>>
      BY <1>2, <2>0, <2>4, SetupTable, SMT DEF SetupWorks, SetupStep
    <3>2. Known' = Known
      BY <3>1 DEF Known
    <3> QED BY <1>0, <2>0, <2>1, <2>4, <3>1, <3>2 DEF Policed
  <2> QED BY <2>0, <2>2, <2>3, <2>4, SMT
<1>3. ASSUME SetupFails \/ SetupSkips \/ SetupDone \/ TeardownBegins \/ Stopped \/ TeardownDone
      PROVE  Policed'
  <2>1. UNCHANGED <<peer, nset, ifacePeers, relearn>>
    BY <1>3 DEF SetupFails, SetupSkips, SetupDone, TeardownBegins, Stopped, TeardownDone
  <2>2. \/ stage' \in {"teardown", "down"}
        \/ /\ stage = "setup" /\ stage' = "setup" /\ at \in 1 .. 14 /\ at' = at + 1
           /\ at \notin {7, 8}
        \/ stage = "setup" /\ at = 15 /\ stage' = "up"
    BY <1>3, OtherSteps
  <2>3. Needed' => Needed
    BY <2>2, SMT
  <2>4. Known' = Known
    BY <2>1 DEF Known
  <2> QED BY <1>1, <2>1, <2>3, <2>4
<1>4. ASSUME Stops PROVE Policed'
  <2>1. /\ stage' = "teardown"
        /\ UNCHANGED <<ifacePeers, nset, relearn>>
        /\ peer' \in {peer, [a \in Addrs |-> NoPeer]}
    BY <1>4 DEF Stops
  <2>2. Known' \subseteq Known
    BY <2>1 DEF Known
  <2> QED BY <1>1, <2>1, <2>2
<1>5. ASSUME Fabric \/ Fsm \/ Watch \/ Restart \/ UNCHANGED vars PROVE Policed'
  <2>1. UNCHANGED <<ifacePeers, nset, relearn, stage, at>>
    BY <1>5 DEF Fabric, CarrierChanges, SwitchMoves, Fsm, SessionUp, SessionEnds, IdleHoldEnds, Watch,
       handleUpdate, stopPeer, startStoppedPeer, Restart, ListPeers, restartPeer, vars
  <2>2. Known' \subseteq Known
    <3>1. ASSUME UNCHANGED peer PROVE Known' = Known
      BY <3>1 DEF Known
    <3>2. CASE Fabric \/ handleUpdate \/ (\E h \in Hosts \cup {Placeholder} : ListPeers(h)) \/ UNCHANGED vars
      BY <3>1, <3>2 DEF Fabric, CarrierChanges, SwitchMoves, handleUpdate, ListPeers, vars
    <3>3. CASE Fsm \/ stopPeer \/ startStoppedPeer \/ (\E a \in Addrs : restartPeer(a))
      BY <1>0, <3>3, FsmStep, WatchStep, RestartStep DEF Fsm
    <3> QED BY <1>5, <3>2, <3>3 DEF Watch, Restart
  <2> QED BY <1>1, <2>1, <2>2
<1>6. ASSUME Tick \/ (\E i \in Ifaces : check(i)) \/ movedPeer PROVE Policed'
  <2>1. UNCHANGED <<peer, ifacePeers, nset, stage, at>>
    BY <1>6 DEF Tick, check, movedPeer
  <2>2. relearn'.pc # "move"
    <3>1. CASE Tick
      BY <3>1 DEF Tick, Idle
    <3>2. CASE \E i \in Ifaces \cup {relearn.i} : NextIface(i)
      BY <1>0, <3>2, NextRound
    <3>3. CASE \E s \in {"probe", "join"} : \E x : \/ relearn' = [relearn EXCEPT !.pc = s, !.i = x]
                                                   \/ relearn' = [relearn EXCEPT !.pc = s, !.new = x]
      BY <1>0, <3>3 DEF Relearns
    <3> QED BY <1>6, <3>1, <3>2, <3>3 DEF check, movedPeer
  <2>3. Known' = Known
    BY <2>1 DEF Known
  <2> QED BY <1>1, <2>1, <2>2, <2>3
<1>7. ASSUME joinNeighborSets PROVE Policed'
  <2>1. UNCHANGED <<peer, ifacePeers, stage, at>>
    BY <1>7 DEF joinNeighborSets
  <2>2. Known' = Known
    BY <2>1 DEF Known
  <2>3. CASE NextIface(relearn.i) /\ nset' = nset
    BY <1>0, <1>1, <2>1, <2>2, <2>3, NextRound
  <2>4. CASE /\ relearn' = [relearn EXCEPT !.pc = "move"]
             /\ nset' = IF Old \in nset THEN nset \cup {relearn.new} ELSE nset
    <3>1. relearn'.i = relearn.i /\ relearn'.new = relearn.new
      BY <1>0, <2>4 DEF Relearns
    <3>2. Old' = Old
      BY <2>1, <3>1 DEF Old
    <3>3. Old' \in nset' => relearn'.new \in nset'
      BY <2>4, <3>1, <3>2, SMT
    <3> QED BY <1>0, <2>1, <2>2, <2>4, <3>3 DEF Policed
  <2> QED BY <1>7, <2>3, <2>4 DEF joinNeighborSets
<1>8. ASSUME movePeer PROVE Policed'
  <2>1. UNCHANGED <<nset, ifacePeers, stage, at>> /\ relearn.pc = "move"
    BY <1>8 DEF movePeer
  <2>2. relearn'.pc # "move"
    BY <1>0, <1>8, NextRound DEF movePeer, Relearns
  <2>3. \/ Known' \subseteq Known
        \/ Old \in Known /\ Known' = (Known \ {Old}) \cup {relearn.new}
    BY <1>0, <1>8, MoveStep
  <2> QED BY <1>0, <2>1, <2>2, <2>3 DEF Policed
<1>9. ASSUME leaveNeighborSets PROVE Policed'
  <2>0. /\ UNCHANGED <<peer, ifacePeers, stage, at>>
        /\ nset' \in {nset, nset \ {Old}}
        /\ relearn.pc = "leave"
        /\ relearn' = [relearn EXCEPT !.pc = "record"]
    BY <1>9 DEF leaveNeighborSets
  <2>1. relearn.new # Old /\ relearn.i \in Ifaces /\ relearn'.pc # "move" /\ stage # "setup"
    BY <1>0, <2>0, SMT DEF Relearns, Moving, Old, Stages, Idle
  <2>2. ASSUME Needed PROVE Old \notin Known
    <3>1. Old[2] = relearn.i
      BY <1>0, <2>1, <2>2 DEF Old, Placed, Installed
    <3>2. Cur(relearn.i) = relearn.new
      BY <2>0 DEF Cur
    <3> QED BY <1>0, <2>1, <3>1, <3>2 DEF Placed
  <2>3. Known' = Known
    BY <2>0 DEF Known
  <2> QED BY <1>0, <2>0, <2>1, <2>2, <2>3 DEF Policed
<1>10. ASSUME replaceInterfacePeer \/ ReplaceBFD PROVE Policed'
  <2>1. UNCHANGED <<peer, nset, stage, at>>
    BY <1>10 DEF replaceInterfacePeer, ReplaceBFD
  <2>2. relearn'.pc # "move"
    BY <1>0, <1>10, NextRound DEF replaceInterfacePeer, ReplaceBFD, Relearns
  <2>3. Known' = Known
    BY <2>1 DEF Known
  <2> QED BY <1>0, <2>1, <2>2, <2>3 DEF Policed
<1> QED BY <1>2, <1>3, <1>4, <1>5, <1>6, <1>7, <1>8, <1>9, <1>10 DEF Next, Relearn, Lifecycle

-----------------------------------------------------------------------------
(* The theorems *)

LEMMA NextInv ==
    PeersInv /\ [Next]_vars => PeersInv'
BY NextShapes, NextRelearns, NextWatches, NextStages, NextHalted, NextPlaced, NextPoliced DEF PeersInv

(* The invariant implies what the run checks. *)
LEMMA InvIsSound == PeersInv => PeersAreSound
<1> SUFFICES ASSUME PeersInv PROVE PeersAreSound
  OBVIOUS
<1>0. /\ Shapes
      /\ Relearns
      /\ Halted
      /\ Placed
      /\ Policed
  BY DEF PeersInv
<1>1. OnePeerPerIface
  <2> SUFFICES ASSUME stage = "up", NEW i \in Ifaces \ lost
               PROVE  /\ PeerOn(i) = {a \in peerConfs : a[2] = i}
                      /\ PeerOn(i) = {Cur(i)}
                      /\ bfdPeer[i] \in {None, ifacePeers[i]} \/ relearn.pc = "bfd"
    BY DEF OnePeerPerIface, Cur
  <2>1. /\ Cur(i)[2] = i
        /\ Cur(i) \in Known
        /\ Cur(i) \in peerConfs
        /\ \A a \in Known \cup peerConfs : a = Cur(a[2])
    BY <1>0, OwnAddress DEF Placed, Installed
  <2>2. PeerOn(i) = {Cur(i)} /\ {a \in peerConfs : a[2] = i} = {Cur(i)}
    BY <2>1 DEF PeerOn
  <2> QED BY <1>0, <2>2 DEF Placed
<1>2. SessionHasPolicy
  BY <1>0 DEF SessionHasPolicy, Policed
<1>3. NothingAfterStop
  BY <1>0 DEF NothingAfterStop, Halted, Quiet
<1> QED BY <1>1, <1>2, <1>3 DEF PeersAreSound

(* For any number of NICs, addresses, flaps, moves and failing calls, the    *)
(* relearner, the restarter, the carrier watch and Teardown leave one peer   *)
(* per NIC, at the recorded address and with its policy, and change nothing  *)
(* after the server stopped (movePeer, restartPeer, replaceInterfacePeer,    *)
(* Teardown).                                                                *)
THEOREM PeersAreSoundAlways == Spec => []PeersAreSound
<1>1. PeersInv => PeersAreSound
  BY InvIsSound
<1> QED BY InitInv, NextInv, <1>1, PTL DEF Spec

(* A peer that the carrier watch stopped is started by the carrier watch     *)
(* only: the restarter, the relearner and Setup never start it               *)
(* (needsRestart, startStoppedPeer).                                         *)
THEOREM RestartKeepsStopAlways == Spec => RestartKeepsStop
<1> DEFINE Keeps == \A a \in Addrs :
                      peer[a].adm = "down" /\ peer'[a].adm = "up" => watch.pc = "act" /\ watch.on
<1>1. ASSUME PeersInv, [Next]_vars PROVE [Keeps]_vars
  <2> USE DEF life, link, server, maps, watching
  <2> SUFFICES ASSUME NEW a \in Addrs, peer[a].adm = "down", peer'[a].adm = "up"
               PROVE  watch.pc = "act" /\ watch.on
    OBVIOUS
  <2>0. /\ Shapes
        /\ Relearns
        /\ Stages
        /\ Placed
    BY <1>1 DEF PeersInv
  <2>1. /\ peer' # peer
        /\ a \in Known
        /\ NoPeer.adm = "none"
        /\ peer \in [Addrs -> PeerStates \cup {NoPeer}]
    BY <2>0, KnownPeers, SMTT(30) DEF NoPeer, Shapes
  <2>2. CASE Fsm
    BY <2>0, <2>2, FsmStep DEF Fsm
  <2>3. CASE Restart
    <3>1. PICK b \in Addrs : restartPeer(b)
      BY <2>1, <2>3 DEF Restart, ListPeers
    <3> QED BY <2>0, <3>1, RestartStep, ZenonT(30)
  <2>4. CASE Watch
    <3>1. CASE startStoppedPeer
      BY <3>1 DEF startStoppedPeer
    <3>2. CASE stopPeer
      <4>1. watch.addr \in Known
        BY <2>1, <3>2 DEF stopPeer
      <4>2. /\ watch.addr \in Addrs /\ peer[watch.addr] \in PeerStates
            /\ peer' = [peer EXCEPT ![watch.addr] = [peer[watch.addr] EXCEPT !.adm = "down", !.fsm = "idle"]]
        BY <2>0, <3>2, <4>1, KnownPeers DEF stopPeer
      <4>3. PICK s \in PeerStates : s.adm = "down" /\ peer' = [peer EXCEPT ![watch.addr] = s]
        BY <4>2 DEF PeerStates
      <4> QED BY <2>1, <4>2, <4>3
    <3> QED BY <2>1, <2>4, <3>1, <3>2 DEF Watch, handleUpdate
  <2>5. CASE Relearn
    <3>1. movePeer
      BY <2>1, <2>5 DEF Relearn, Tick, check, movedPeer, joinNeighborSets, leaveNeighborSets,
         replaceInterfacePeer, ReplaceBFD
    <3>2. /\ relearn.new # Old /\ relearn.i \in Ifaces
          /\ relearn.new[2] = relearn.i
          /\ relearn.pc = "move"
      BY <2>0, <3>1 DEF Relearns, Moving, movePeer, Old
    <3>3. relearn.new \notin Known
      BY <2>0, <3>2 DEF Placed, Cur, Old
    <3>4. \/ peer' = [peer EXCEPT ![Old] = NoPeer, ![relearn.new] = Added]
          \/ peer' = [peer EXCEPT ![Old] = NoPeer]
      BY <2>1, <3>1 DEF movePeer
    <3> QED BY <2>1, <3>3, <3>4
  <2>6. CASE Lifecycle
    <3>1. CASE SetupWorks
      <4>1. SetupStep = "peers" /\ at \in 1 .. 14 /\ stage = "setup"
        BY <2>1, <3>1, SetupTable DEF SetupWorks
      <4>2. at = 7
        BY <4>1, SetupTable DEF SetupStep
      <4> QED BY <2>0, <2>1, <4>1, <4>2, SMT DEF Placed, Early
    <3>2. CASE Stops
      BY <2>1, <3>2 DEF Stops
    <3>3. CASE SetupFails \/ SetupSkips \/ SetupDone \/ TeardownBegins \/ Stopped \/ TeardownDone
      BY <2>1, <3>3 DEF SetupFails, SetupSkips, SetupDone, TeardownBegins, Stopped, TeardownDone
    <3> QED BY <2>6, <3>1, <3>2, <3>3 DEF Lifecycle
  <2>7. CASE Fabric
    BY <2>1, <2>7 DEF Fabric, CarrierChanges, SwitchMoves
  <2> QED BY <1>1, <2>1, <2>2, <2>3, <2>4, <2>5, <2>6, <2>7 DEF Next, vars
<1>2. RestartKeepsStop <=> [][Keeps]_vars
  BY DEF RestartKeepsStop
<1> QED BY <1>1, <1>2, InitInv, NextInv, PTL DEF Spec
=============================================================================
