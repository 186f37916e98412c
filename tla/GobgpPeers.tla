----------------------------- MODULE GobgpPeers -----------------------------
(***************************************************************************)
(* The BGP peers of the GoBGP underlay, pkg/network/gobgp: underlay.go     *)
(* (Setup, Teardown, the peers), relearn.go, restart.go, carrier.go, ra.go *)
(* and routemap.go (the neighbor sets).                                    *)
(*                                                                         *)
(* Three goroutines change the peers of the GoBGP server: the relearner    *)
(* moves an unnumbered peer to the new link-local address of its switch,   *)
(* the restarter deletes and adds a peer whose session ended, and the      *)
(* carrier watch stops and starts it.  Each call on the server is made     *)
(* under peerOps and is one step; what a goroutine read before it took the *)
(* lock is kept in its variable.  A peer address is a host and the         *)
(* interface (the zone).  peerDevs, which only names the device of a next  *)
(* hop that comes without a zone, is left out.                             *)
(***************************************************************************)
EXTENDS Integers, Sequences, FiniteSets

CONSTANTS
    Ifaces,         \* NICs with an unnumbered peer
    Hosts,          \* link-local hosts the switches may use
    Grace,          \* relearnGrace in relearnInterval ticks
    MaxFlaps,       \* bound on the carrier changes
    MaxMoves,       \* bound on the address changes of the switches
    MaxFaults       \* bound on the GoBGP calls that fail

ASSUME PeersAssumption ==
    /\ Ifaces # {} /\ IsFiniteSet(Ifaces) /\ Hosts # {} /\ IsFiniteSet(Hosts)
    /\ Grace \in Nat \ {0} /\ {MaxFlaps, MaxMoves, MaxFaults} \subseteq Nat

Placeholder == "fe80::fdff:ffff:ffff:ff80"
Silent == "silent"
Addrs == (Hosts \cup {Placeholder}) \X Ifaces
placeholderPeer(i) == <<Placeholder, i>>

VARIABLES
    stage,      \* "setup", "up", "teardown", "down"
    running,    \* parts of the underlay that are started
    at,         \* next entry of SetupSteps or TeardownSteps
    carrier,    \* IFF_LOWER_UP of each NIC
    switch,     \* the host that answers on each NIC, or Silent
    peer,       \* the peers of the GoBGP server
    peerConfs,  \* UnderlayTier.peerConfs
    ifacePeers, \* UnderlayTier.ifacePeers
    nset,       \* members of the neighbor sets of the policies
    bfdPeer,    \* the peer address of each NIC's BFD session, None without one
    relearn,    \* the relearner: where it is, NICs left in the round, the move
    downFor,    \* relearner.down, in ticks; 0 when absent
    watch,      \* the carrier watch: where it is and the update it handles
    wdown,      \* carrierWatch.down
    updates,    \* link updates the carrier watch has not read
    events,     \* hosts of Idle events whose restart goroutine has not listed the peers
    restarts,   \* peers the restart goroutines still have to look at
    flaps, moves, faults,
    lost        \* NICs whose peer was deleted and could not be added

server == <<peer, peerConfs>>
link == <<carrier, switch, flaps, moves>>
life == <<stage, running, at>>
maps == <<ifacePeers, nset, bfdPeer>>
watching == <<watch, wdown, updates>>
vars == <<life, link, server, maps, relearn, downFor, watching, events, restarts, faults, lost>>

None == <<>>
NoPeer == [adm |-> "none", fsm |-> "none", was |-> FALSE]
Added == [adm |-> "up", fsm |-> "active", was |-> FALSE]
Known == {a \in Addrs : peer[a] # NoPeer}
Idle == [pc |-> "idle", todo |-> {}, i |-> None, new |-> None]
NoUpdate == [pc |-> "idle", i |-> None, on |-> TRUE, addr |-> None]
hostOf(a) == a[1]
PeerOn(i) == {a \in Known : a[2] = i}

Fault == faults < MaxFaults /\ faults' = faults + 1
NoFault == UNCHANGED faults

Init ==
    /\ stage = "setup" /\ running = {} /\ at = 1
    /\ carrier = [i \in Ifaces |-> TRUE]
    /\ switch \in [Ifaces -> Hosts \cup {Silent}]
    /\ peer = [a \in Addrs |-> NoPeer] /\ peerConfs = {}
    /\ ifacePeers = [i \in Ifaces |-> None] /\ nset = {} /\ bfdPeer = [i \in Ifaces |-> None]
    /\ relearn = Idle /\ downFor = [i \in Ifaces |-> 0]
    /\ watch = NoUpdate /\ wdown = [i \in Ifaces |-> FALSE] /\ updates = <<>>
    /\ events = {} /\ restarts = {}
    /\ flaps = 0 /\ moves = 0 /\ faults = 0 /\ lost = {}

-----------------------------------------------------------------------------
(* Setup *)

SetupSteps == <<"dummy", "nics", "lldp", "server", "bfd", "ra", "peers", "policies", "announce",
                "sessions", "fib", "carrier", "relearn", "restart">>

(* Steps whose failure Setup only logs. *)
Tolerated == {"lldp", "bfd", "ra", "sessions", "fib", "carrier", "relearn", "restart"}

(* The parts that a later Teardown has to stop or remove. *)
Parts == {SetupSteps[k] : k \in 1 .. Len(SetupSteps)} \ {"peers", "policies", "announce", "sessions"}

SetupStep == SetupSteps[at]

(* discoverLinkLocalPeer: the answering host, else the placeholder. *)
discoverLinkLocalPeer(i) ==
    IF carrier[i] /\ switch[i] # Silent THEN <<switch[i], i>> ELSE placeholderPeer(i)

(* addSessionPeers: a peer that can not be added does not stop the others. *)
addSessionPeers ==
    \E failed \in {{}} \cup {{i} : i \in Ifaces} :
        LET addr == [i \in Ifaces |-> discoverLinkLocalPeer(i)]
            added == {addr[i] : i \in Ifaces \ failed}
        IN  /\ IF failed = {} THEN NoFault ELSE Fault
            /\ ifacePeers' = addr /\ lost' = failed
            /\ peer' = [a \in Addrs |-> IF a \in added THEN Added ELSE NoPeer]
            /\ peerConfs' = added
            /\ running' = running

(* Setup failed: setupBGP stops the RAs and BFD itself, the caller of Setup *)
(* tears the rest down.                                                     *)
SetupFails ==
    /\ stage = "setup" /\ at \in 1 .. Len(SetupSteps) /\ SetupStep \notin Tolerated
    /\ Fault
    /\ stage' = "teardown" /\ at' = 1
    /\ running' = IF SetupStep \in {"peers", "policies", "announce"}
                  THEN running \ {"ra", "bfd"} ELSE running
    /\ UNCHANGED <<link, server, maps, relearn, downFor, watching, events, restarts, lost>>

(* A tolerated part that does not start. Nothing else depends on LLDP, the *)
(* RAs and the FIB writer.                                                 *)
SetupSkips ==
    /\ stage = "setup" /\ at \in 1 .. Len(SetupSteps) /\ SetupStep \in Tolerated \ {"lldp", "ra", "fib"}
    /\ Fault
    /\ at' = at + 1
    /\ UNCHANGED <<stage, running, link, server, maps, relearn, downFor, watching, events, restarts, lost>>

(* installPolicies: the neighbor sets hold every unnumbered peer. *)
installPolicies == nset' = {ifacePeers[i] : i \in Ifaces}

(* startBFD adds a session for each peer, when BFD listens. *)
startBFD == bfdPeer' = IF "bfd" \in running THEN ifacePeers ELSE bfdPeer

SetupWorks ==
    /\ stage = "setup" /\ at \in 1 .. Len(SetupSteps)
    /\ at' = at + 1
    /\ \/ /\ SetupStep = "peers" /\ addSessionPeers
          /\ UNCHANGED <<nset, bfdPeer>>
       \/ /\ SetupStep = "policies" /\ installPolicies
          /\ UNCHANGED <<running, server, ifacePeers, bfdPeer, faults, lost>>
       \/ /\ SetupStep = "sessions" /\ startBFD
          /\ UNCHANGED <<running, server, ifacePeers, nset, faults, lost>>
       \/ /\ SetupStep = "announce"
          /\ UNCHANGED <<running, server, maps, faults, lost>>
       \/ /\ SetupStep \in Parts /\ running' = running \cup {SetupStep}
          /\ UNCHANGED <<server, maps, faults, lost>>
    /\ UNCHANGED <<stage, link, relearn, downFor, watching, events, restarts>>

SetupDone ==
    /\ stage = "setup" /\ at = Len(SetupSteps) + 1
    /\ stage' = "up" /\ at' = 1
    /\ UNCHANGED <<running, link, server, maps, relearn, downFor, watching, events, restarts, faults, lost>>

-----------------------------------------------------------------------------
(* Teardown: stop a part, wait for its goroutine, go on *)

TeardownSteps == <<"ra", "restart", "relearn", "carrier", "fib", "bfd", "lldp", "server",
                   "nics", "dummy">>

TeardownStep == TeardownSteps[at]

TeardownBegins ==
    /\ stage = "up"
    /\ stage' = "teardown" /\ at' = 1
    /\ UNCHANGED <<running, link, server, maps, relearn, downFor, watching, events, restarts, faults, lost>>

(* The goroutines of a part: wg.Wait, relearnDone, carrierDone. *)
Busy(part) ==
    CASE part = "restart" -> events # {} \/ restarts # {}
      [] part = "relearn" -> relearn # Idle
      [] part = "carrier" -> watch # NoUpdate
      [] OTHER -> FALSE

(* The part starts no new work; Teardown waits while its goroutine is busy. *)
Stops ==
    /\ stage = "teardown" /\ at <= Len(TeardownSteps)
    /\ TeardownStep \in running
    /\ running' = running \ {TeardownStep}
    /\ at' = IF Busy(TeardownStep) THEN at ELSE at + 1
    /\ bfdPeer' = IF TeardownStep = "bfd" THEN [i \in Ifaces |-> None] ELSE bfdPeer
    /\ peer' = IF TeardownStep = "server" THEN [a \in Addrs |-> NoPeer] ELSE peer
    /\ updates' = IF TeardownStep = "carrier" THEN <<>> ELSE updates
    /\ UNCHANGED <<stage, link, peerConfs, ifacePeers, nset, relearn, downFor, watch, wdown,
                   events, restarts, faults, lost>>

Stopped ==
    /\ stage = "teardown" /\ at <= Len(TeardownSteps)
    /\ TeardownStep \notin running /\ ~Busy(TeardownStep)
    /\ at' = at + 1
    /\ UNCHANGED <<stage, running, link, server, maps, relearn, downFor, watching, events, restarts,
                   faults, lost>>

TeardownDone ==
    /\ stage = "teardown" /\ at = Len(TeardownSteps) + 1
    /\ stage' = "down" /\ at' = 1
    /\ UNCHANGED <<running, link, server, maps, relearn, downFor, watching, events, restarts, faults, lost>>

-----------------------------------------------------------------------------
(* The fabric and GoBGP's own state machine *)

CarrierChanges(i) ==
    /\ stage = "up" /\ flaps < MaxFlaps
    /\ flaps' = flaps + 1
    /\ carrier' = [carrier EXCEPT ![i] = ~@]
    /\ updates' = IF "carrier" \in running THEN Append(updates, <<i, carrier'[i]>>) ELSE updates
    /\ UNCHANGED <<life, switch, moves, server, maps, relearn, downFor, watch, wdown, events, restarts,
                   faults, lost>>

(* The switch comes back with another link-local address. *)
SwitchMoves(i) ==
    /\ stage = "up" /\ moves < MaxMoves
    /\ moves' = moves + 1
    /\ \E h \in Hosts \ {switch[i]} : switch' = [switch EXCEPT ![i] = h]
    /\ UNCHANGED <<life, carrier, flaps, server, maps, relearn, downFor, watching, events, restarts,
                   faults, lost>>

Reachable(a) == carrier[a[2]] /\ switch[a[2]] = hostOf(a)

SessionUp(a) ==
    /\ peer[a].adm = "up" /\ peer[a].fsm = "active" /\ Reachable(a)
    /\ peer' = [peer EXCEPT ![a].fsm = "est", ![a].was = TRUE]
    /\ UNCHANGED <<life, link, peerConfs, maps, relearn, downFor, watching, events, restarts, faults, lost>>

(* peerRestarter.handle: an Idle event of a peer that is up starts a goroutine. *)
Handled(a) == IF "restart" \in running THEN events \cup {hostOf(a)} ELSE events

(* The session ends: hold timer, NOTIFICATION, a BFD reset. The peer of a  *)
(* graceful restart keeps its routes ("stale").                            *)
SessionEnds(a) ==
    /\ peer[a].fsm = "est"
    /\ \E to \in {"idle", "stale"} : peer' = [peer EXCEPT ![a].fsm = to]
    /\ events' = Handled(a)
    /\ UNCHANGED <<life, link, peerConfs, maps, relearn, downFor, watching, restarts, faults, lost>>

IdleHoldEnds(a) ==
    /\ peer[a].adm = "up" /\ peer[a].fsm \in {"idle", "stale"}
    /\ peer' = [peer EXCEPT ![a].fsm = "active"]
    /\ UNCHANGED <<life, link, peerConfs, maps, relearn, downFor, watching, events, restarts, faults, lost>>

-----------------------------------------------------------------------------
(* The restarter *)

(* peersOfHost: an event carries the host without its zone. *)
ListPeers(h) ==
    /\ h \in events
    /\ events' = events \ {h}
    /\ restarts' = restarts \cup {a \in peerConfs : hostOf(a) = h}
    /\ UNCHANGED <<life, link, server, maps, relearn, downFor, watching, faults, lost>>

(* Mutant of needsRestart: a stopped peer is started again. *)
needsRestart_Stopped(a) == a \in Known /\ peer[a].fsm = "idle" /\ peer[a].was

(* The peer was Established, waits in Idle, is not stopped and keeps no *)
(* graceful restart routes.                                             *)
needsRestart(a) == a \in Known /\ peer[a].fsm = "idle" /\ peer[a].adm = "up" /\ peer[a].was

restartPeer(a) ==
    /\ a \in restarts
    /\ restarts' = restarts \ {a}
    /\ \/ /\ ~(a \in peerConfs /\ needsRestart(a))
          /\ UNCHANGED <<peer, faults, lost>>
       \/ /\ a \in peerConfs /\ needsRestart(a) /\ NoFault
          /\ peer' = [peer EXCEPT ![a] = Added] /\ lost' = lost
       \/ /\ a \in peerConfs /\ needsRestart(a) /\ Fault
          /\ \/ peer' = peer /\ lost' = lost
             \/ peer' = [peer EXCEPT ![a] = NoPeer] /\ lost' = lost \cup {a[2]}
    /\ UNCHANGED <<life, link, peerConfs, maps, relearn, downFor, watching, events>>

-----------------------------------------------------------------------------
(* The relearner *)

Tick ==
    /\ "relearn" \in running /\ stage \in {"up", "teardown"} /\ relearn = Idle
    /\ relearn' = [Idle EXCEPT !.pc = "check", !.todo = Ifaces]
    /\ UNCHANGED <<life, link, server, maps, downFor, watching, events, restarts, faults, lost>>

(* The round goes on with the other NICs. *)
NextIface(i) == LET left == relearn.todo \ {i}
                IN  relearn' = IF left = {} THEN Idle ELSE [Idle EXCEPT !.pc = "check", !.todo = left]

check(i) ==
    /\ relearn.pc = "check" /\ i \in relearn.todo
    /\ \/ /\ peer[ifacePeers[i]].fsm = "est" \/ ~carrier[i]
          /\ downFor' = [downFor EXCEPT ![i] = 0] /\ NextIface(i)
       \/ /\ peer[ifacePeers[i]].fsm # "est" /\ carrier[i] /\ downFor[i] < Grace
          /\ downFor' = [downFor EXCEPT ![i] = @ + 1] /\ NextIface(i)
       \/ /\ peer[ifacePeers[i]].fsm # "est" /\ carrier[i] /\ downFor[i] >= Grace
          /\ relearn' = [relearn EXCEPT !.pc = "probe", !.i = i] /\ downFor' = downFor
    /\ UNCHANGED <<life, link, server, maps, watching, events, restarts, faults, lost>>

(* movedPeer: another host answers on the BGP port and the old one does not. *)
movedPeer ==
    /\ relearn.pc = "probe"
    /\ LET i == relearn.i
           new == discoverLinkLocalPeer(i)
       IN  IF new = placeholderPeer(i) \/ new = ifacePeers[i] THEN NextIface(i)
           ELSE relearn' = [relearn EXCEPT !.pc = "join", !.new = new]
    /\ UNCHANGED <<life, link, server, maps, downFor, watching, events, restarts, faults, lost>>

Old == ifacePeers[relearn.i]

(* Mutant of joinNeighborSets: the new address does not join. *)
joinNeighborSets_Late ==
    /\ relearn.pc = "join"
    /\ relearn' = [relearn EXCEPT !.pc = "move"] /\ nset' = nset /\ NoFault
    /\ UNCHANGED <<life, link, server, ifacePeers, bfdPeer, downFor, watching, events, restarts, lost>>

joinNeighborSets ==
    /\ relearn.pc = "join"
    /\ \/ /\ relearn' = [relearn EXCEPT !.pc = "move"]
          /\ nset' = IF Old \in nset THEN nset \cup {relearn.new} ELSE nset
          /\ NoFault
       \/ NextIface(relearn.i) /\ nset' = nset /\ Fault
    /\ UNCHANGED <<life, link, server, ifacePeers, bfdPeer, downFor, watching, events, restarts, lost>>

(* movePeer: delete the old peer, then add the new one. *)
movePeer ==
    /\ relearn.pc = "move"
    /\ \/ /\ Old \notin Known
          /\ NextIface(relearn.i) /\ UNCHANGED <<server, faults, lost>>
       \/ /\ Old \in Known /\ NoFault
          /\ peer' = [peer EXCEPT ![Old] = NoPeer, ![relearn.new] = Added]
          /\ peerConfs' = (peerConfs \ {Old}) \cup {relearn.new}
          /\ relearn' = [relearn EXCEPT !.pc = "leave"] /\ lost' = lost
       \/ /\ Old \in Known /\ Fault
          /\ NextIface(relearn.i)
          /\ \/ UNCHANGED <<server, lost>>
             \/ /\ peer' = [peer EXCEPT ![Old] = NoPeer] /\ peerConfs' = peerConfs \ {Old}
                /\ lost' = lost \cup {relearn.i}
    /\ UNCHANGED <<life, link, maps, downFor, watching, events, restarts>>

leaveNeighborSets ==
    /\ relearn.pc = "leave"
    /\ relearn' = [relearn EXCEPT !.pc = "record"]
    /\ \/ nset' = nset \ {Old} /\ NoFault
       \/ nset' = nset /\ Fault
    /\ UNCHANGED <<life, link, server, ifacePeers, bfdPeer, downFor, watching, events, restarts, lost>>

(* replaceInterfacePeer records the address, then moves the BFD session. *)
replaceInterfacePeer ==
    /\ relearn.pc = "record"
    /\ ifacePeers' = [ifacePeers EXCEPT ![relearn.i] = relearn.new]
    /\ relearn' = [relearn EXCEPT !.pc = "bfd"]
    /\ UNCHANGED <<life, link, server, nset, bfdPeer, downFor, watching, events, restarts, faults, lost>>

(* Manager.Replace: no session stays none; a failure leaves none. *)
ReplaceBFD ==
    /\ relearn.pc = "bfd"
    /\ \/ /\ bfdPeer' = [bfdPeer EXCEPT ![relearn.i] = IF @ = None THEN None ELSE relearn.new]
          /\ NoFault
       \/ /\ bfdPeer' = [bfdPeer EXCEPT ![relearn.i] = None] /\ Fault
    /\ downFor' = [downFor EXCEPT ![relearn.i] = 0]
    /\ NextIface(relearn.i)
    /\ UNCHANGED <<life, link, server, ifacePeers, nset, watching, events, restarts, lost>>

-----------------------------------------------------------------------------
(* The carrier watch *)

handleUpdate ==
    /\ watch = NoUpdate /\ updates # <<>>
    /\ LET i == Head(updates)[1]  on == Head(updates)[2]
       IN  IF wdown[i] = ~on THEN UNCHANGED <<watch, wdown>>
           ELSE /\ wdown' = [wdown EXCEPT ![i] = ~on]
                /\ watch' = [pc |-> "act", i |-> i, on |-> on, addr |-> ifacePeers[i]]
    /\ updates' = Tail(updates)
    /\ UNCHANGED <<life, link, server, maps, relearn, downFor, events, restarts, faults, lost>>

(* stopPeer: DisablePeer ends the session, its Idle event is one of a stopped peer. *)
stopPeer ==
    /\ watch.pc = "act" /\ ~watch.on
    /\ peer' = IF watch.addr \in Known THEN [peer EXCEPT ![watch.addr].adm = "down", ![watch.addr].fsm = "idle"]
               ELSE peer
    /\ watch' = NoUpdate
    /\ UNCHANGED <<life, link, peerConfs, maps, relearn, downFor, wdown, updates, events, restarts, faults, lost>>

(* startStoppedPeer leaves a peer alone that is not stopped. *)
startStoppedPeer ==
    /\ watch.pc = "act" /\ watch.on
    /\ peer' = IF watch.addr \in Known /\ peer[watch.addr].adm = "down"
               THEN [peer EXCEPT ![watch.addr].adm = "up"] ELSE peer
    /\ watch' = NoUpdate
    /\ UNCHANGED <<life, link, peerConfs, maps, relearn, downFor, wdown, updates, events, restarts, faults, lost>>

-----------------------------------------------------------------------------
Relearn == Tick \/ (\E i \in Ifaces : check(i)) \/ movedPeer \/ joinNeighborSets \/ movePeer
           \/ leaveNeighborSets \/ replaceInterfacePeer \/ ReplaceBFD
Restart == (\E h \in Hosts \cup {Placeholder} : ListPeers(h)) \/ (\E a \in Addrs : restartPeer(a))
Watch == handleUpdate \/ stopPeer \/ startStoppedPeer
Fsm == \E a \in Addrs : SessionUp(a) \/ SessionEnds(a) \/ IdleHoldEnds(a)
Lifecycle == SetupWorks \/ SetupFails \/ SetupSkips \/ SetupDone \/ TeardownBegins \/ Stops \/ Stopped
             \/ TeardownDone
Fabric == \E i \in Ifaces : CarrierChanges(i) \/ SwitchMoves(i)

Next == Relearn \/ Restart \/ Watch \/ Fsm \/ Lifecycle \/ Fabric

(* The goroutines run, a session whose switch is gone ends with its hold     *)
(* timer, and the idle hold timer expires. The fabric owes nothing.          *)
Timers == \E a \in Addrs : (SessionEnds(a) /\ ~Reachable(a)) \/ IdleHoldEnds(a)

Fairness ==
    /\ WF_vars(Relearn) /\ WF_vars(Restart) /\ WF_vars(Watch) /\ WF_vars(Timers)
    /\ WF_vars(SetupWorks \/ SetupDone \/ Stops \/ Stopped \/ TeardownDone)

Spec == Init /\ [][Next]_vars /\ Fairness

-----------------------------------------------------------------------------
(* Properties *)

TypeOK ==
    /\ stage \in {"setup", "up", "teardown", "down"} /\ running \subseteq Parts
    /\ switch \in [Ifaces -> Hosts \cup {Silent}] /\ carrier \in [Ifaces -> BOOLEAN]
    /\ \A a \in Addrs : peer[a] = NoPeer \/ peer[a] \in [adm : {"up", "down"}, was : BOOLEAN,
                                                         fsm : {"idle", "stale", "active", "est"}]
    /\ peerConfs \subseteq Addrs /\ nset \subseteq Addrs
    /\ \A i \in Ifaces : {ifacePeers[i], bfdPeer[i]} \subseteq Addrs \cup {None}
    /\ events \subseteq Hosts \cup {Placeholder} /\ restarts \subseteq Addrs

(* While the underlay is up a NIC has exactly one peer, at the address the   *)
(* maps record, unless GoBGP refused to add it: the relearner, the restarter *)
(* and the carrier watch never leave two peers or none (movePeer,            *)
(* restartPeer). The recorded address may lag only inside a move.            *)
OnePeerPerIface ==
    stage = "up" =>
        \A i \in Ifaces \ lost :
            /\ PeerOn(i) = {a \in peerConfs : a[2] = i}
            /\ PeerOn(i) = {IF relearn.i = i /\ relearn.pc \in {"leave", "record"}
                            THEN relearn.new ELSE ifacePeers[i]}
            /\ bfdPeer[i] \in {None, ifacePeers[i]} \/ relearn.pc = "bfd"

(* No session ever runs without the policy of its peer: the new address is   *)
(* in the neighbor sets before the peer moves (replaceInterfacePeer,         *)
(* "the new session never runs without its policy").                         *)
SessionHasPolicy == stage = "up" => Known \subseteq nset

(* No goroutine changes a peer after the BGP server stopped, whatever it was *)
(* doing when Teardown began, and Teardown leaves no part running (Teardown, *)
(* "no peer changes after the server stops").                                *)
NothingAfterStop ==
    /\ stage = "teardown" /\ "server" \notin running =>
            events = {} /\ restarts = {} /\ relearn = Idle /\ watch = NoUpdate
    /\ stage = "down" => running = {} /\ Known = {}

(* A peer that the carrier watch stopped is only started again by the        *)
(* carrier watch, or replaced by the relearner; the restarter leaves it      *)
(* alone (newCarrierWatch, needsRestart).                                    *)
RestartKeepsStop ==
    [][\A a \in Addrs : peer[a].adm = "down" /\ peer'[a].adm = "up" => watch.pc = "act" /\ watch.on]_vars

(* When the fabric settles, the peer of a NIC with carrier ends at the       *)
(* address of its switch and is started (relearner; "a GoBGP peer has one    *)
(* fixed address"), whatever flaps and moves came before.                    *)
PeerFollowsSwitch ==
    \A i \in Ifaces :
        <>[](\/ stage # "up" \/ i \in lost \/ "relearn" \notin running
             \/ ~carrier[i] \/ switch[i] = Silent
             \/ PeerOn(i) = {<<switch[i], i>>} /\ peer[<<switch[i], i>>].adm = "up")

(* The relearner, the restarter, the carrier watch and Teardown, which all   *)
(* change peers, never leave a NIC with two peers or none, a session without *)
(* its policy, or a change after the server stopped.                         *)
PeersAreSound == OnePeerPerIface /\ SessionHasPolicy /\ NothingAfterStop

(* Sessions follow their links: a peer stopped for its carrier stays stopped *)
(* until the carrier is back, and then ends at the address of its switch.    *)
SessionsFollowLinks == RestartKeepsStop /\ PeerFollowsSwitch
=============================================================================
