---------------------------- MODULE GobgpRoutes ----------------------------
(***************************************************************************)
(* The two writers of one kernel route table in the GoBGP stack            *)
(* (src/pkg/network/gobgp/fib.go and overlay.go, no overlay VRF):          *)
(*                                                                         *)
(*   - the FIB writer of the underlay, a goroutine that makes the table    *)
(*     match the selected unicast routes: it reads the RIB, applies the    *)
(*     difference under its mutex, and then, without the mutex, tells the  *)
(*     overlay which prefixes it gave up;                                  *)
(*   - the route watcher of the overlay, a goroutine that handles the      *)
(*     EVPN updates one after the other: Type-5 paths become routes via    *)
(*     the bridge, with a gateway neighbor and an FDB entry shared by the  *)
(*     prefixes of one gateway; a Type-2 route may own the same neighbor,  *)
(*     and resolves the gateway IP of Type-5 paths with an overlay index.  *)
(*                                                                         *)
(* Both use the same table, protocol and metric, so a RouteReplace of one  *)
(* replaces the route of the other.  The overlay asks the writer first     *)
(* (fibShadows), but check and replace are not atomic.                     *)
(*                                                                         *)
(* A Type-5 path of a prefix is named by its VTEP (one route key and one   *)
(* router MAC per VTEP); the paths via a VTEP of Index carry the gateway   *)
(* IP Gw as their overlay index.  Kernel deletes match the next hop, so a  *)
(* delete with another gateway or link finds no route.                     *)
(***************************************************************************)
EXTENDS Naturals, Sequences, FiniteSets

CONSTANTS Prefixes,      \* prefixes, 1..n: maps.Keys sorted
          VTEPs,         \* remote VTEPs, 1..n
          Index,         \* VTEPs whose paths carry Gw as overlay index
          Gw,            \* a gateway IP outside VTEPs
          Underlay,      \* prefixes the underlay may learn too
          Hosts,         \* IPs a Type-2 route may announce
          MaxUpdates,    \* bound: EVPN updates
          MaxQueue,      \* bound: undelivered EVPN updates
          MaxUnderlay,   \* bound: changes of the unicast routes
          MaxNetlink     \* bound: steps in which netlink calls fail

ASSUME RoutesAssumption ==
    /\ Prefixes \subseteq Nat /\ IsFiniteSet(Prefixes)
    /\ VTEPs \subseteq Nat \ {0} /\ IsFiniteSet(VTEPs)
    /\ Index \subseteq VTEPs /\ 100 \notin VTEPs
    /\ Gw \in Nat \ (VTEPs \cup {0, 100})
    /\ Underlay \subseteq Prefixes /\ Hosts \subseteq VTEPs \cup {Gw}

None == 0
Fib == 100   \* the FIB writer's route

VARIABLES
    evpn,       \* evpn[p]: VTEPs with a usable Type-5 path in the RIB
    unicast,    \* prefixes with a selected, resolved unicast route
    updates,    \* EVPN updates GoBGP delivers, oldest first
    type2,      \* IPs of the live Type-2 routes the overlay knows
    overlay,    \* [paths, active, ref] of OverlayTier
    kernel,     \* [route, neigh, fdb]: the kernel's state
    handler,    \* the update the watcher holds type5PathsMu for
    writer,     \* [at, want, removed] of fibWriter.run
    installed,  \* fibWriter.installed
    changed,    \* the channel of fibWriter.run
    type5Stopped, tier,   \* Teardown: tier is the next thing to go
    spent,      \* updates, underlay changes, failures and routes not deleted so far
    harmed,     \* history of failed calls, see GInit
    raced       \* history: prefixes the overlay wrote while the writer owned
                \* them, or forgot its route of when the writer let go

gvars == <<evpn, unicast, updates, type2, overlay, kernel, handler, writer,
           installed, changed, type5Stopped, tier, spent, harmed, raced>>

IPs == VTEPs \cup {Gw}
Idle == [kind |-> "idle"]

GInit ==
    /\ evpn = [p \in Prefixes |-> {}]
    /\ unicast = {}
    /\ updates = <<>>
    /\ type2 = {}
    /\ overlay = [paths |-> [p \in Prefixes |-> {}],
                  active |-> [p \in Prefixes |-> None],
                  ref |-> [p \in Prefixes |-> None],
                  type2Neigh |-> {}]
    /\ kernel = [route |-> [p \in Prefixes |-> None],
                 neigh |-> [i \in IPs |-> "none"], fdb |-> {}]
    /\ handler = Idle
    /\ writer = [at |-> "idle", want |-> {}, removed |-> {}]
    /\ installed = {}
    /\ changed = FALSE
    /\ type5Stopped = FALSE
    /\ tier = "up"
    /\ spent = [updates |-> 0, underlay |-> 0, faults |-> 0, fib |-> 0, leaked |-> {}]
    /\ harmed = [broken |-> {},   \* gateways in use whose neighbor entry is wrong
                 left |-> {}]     \* gateways of which an entry was not deleted
    /\ raced = {}

---------------------------------------------------------------------------
(* The overlay's handlers as functions of its state: s has the fields of   *)
(* overlay, kernel and harmed.  bad is the kind of netlink call that fails *)
(* in this step, and for which gateways.                                   *)

Calls == {"route", "neigh", "fdb", "routedel", "neighdel", "fdbdel"}
NoFault == [call |-> "none", at |-> {}]
Faults == [call : Calls, at : {IPs} \cup {{i} : i \in IPs}]
Fails(bad, call, g) == bad.call = call /\ g \in bad.at

First(S) == CHOOSE v \in S : \A w \in S : v <= w
Last(S) == CHOOSE v \in S : \A w \in S : w <= v

\* hasType5GatewayRef, hasType5GatewayFDBRef.
hasType5GatewayRef(s, g) == \E p \in Prefixes : s.ref[p] = g

\* The reference is already gone or replaced: the neighbor goes when no
\* prefix refers to the gateway and Type-2 does not own it, and the FDB
\* entry of the router MAC when no prefix refers to its VTEP.  A delete also
\* fails when the entry is not there; the other one is tried all the same.
deleteType5GatewayRefLocked(s, g, bad) ==
    LET neigh == g \in s.type2Neigh \/ (s.neigh[g] # "none" /\ ~Fails(bad, "neighdel", g))
        fdb == g \in s.fdb /\ ~Fails(bad, "fdbdel", g)
    IN  IF hasType5GatewayRef(s, g) THEN [ok |-> TRUE, s |-> s]
        ELSE [ok |-> neigh /\ fdb,
              s |-> [s EXCEPT !.neigh[g] = IF g \notin s.type2Neigh /\ neigh THEN "none" ELSE @,
                              !.fdb = IF fdb THEN @ \ {g} ELSE @,
                              !.left = IF neigh /\ fdb THEN @ \ {g} ELSE @ \cup {g}]]

\* Also deleteType5GatewayNeighbor: a failed delete puts the reference back.
clearType5GatewayNeighbor(s, p, bad) ==
    LET g == s.ref[p]
        t == deleteType5GatewayRefLocked([s EXCEPT !.ref[p] = None], g, bad)
    IN  IF g = None THEN s ELSE IF t.ok THEN t.s ELSE [t.s EXCEPT !.ref[p] = g]

\* The neighbor, then the FDB entry; a failed FDB entry rolls the neighbor
\* back, also when another prefix uses it.  The old reference is gone even
\* if its entries could not be deleted.
setType5GatewayNeighbor(s, p, v, bad) ==
    LET shared == v \in s.type2Neigh
        done == [s EXCEPT !.neigh[v] = IF shared THEN @ ELSE "router",
                          !.fdb = @ \cup {v}, !.ref[p] = v,
                          !.broken = @ \ {v}, !.left = @ \ {v}]
    IN  CASE ~shared /\ Fails(bad, "neigh", v) -> [ok |-> FALSE, s |-> s]
          [] Fails(bad, "fdb", v) ->
                [ok |-> FALSE,
                 s |-> IF shared THEN s
                       ELSE [s EXCEPT !.neigh[v] = "none",
                                      !.broken = IF hasType5GatewayRef(s, v)
                                                   THEN @ \cup {v} ELSE @]]
          [] OTHER ->
                [ok |-> TRUE,
                 s |-> IF s.ref[p] \in {None, v} THEN done
                       ELSE deleteType5GatewayRefLocked(done, s.ref[p], bad).s]

\* applyType5PathDetailed with installType5RouteDetailed: the kernel route
\* first, then the gateway state.  A path with an overlay index needs a live
\* Type-2 route for Gw and has no gateway state of its own.
applyType5Path(s, p, v, bad) ==
    LET routed == [s EXCEPT !.route[p] = v]
        gw == setType5GatewayNeighbor(routed, p, v, bad)
    IN  CASE Fails(bad, "route", v) \/ (v \in Index /\ Gw \notin type2) ->
                [ok |-> FALSE, routeChanged |-> FALSE, s |-> s]
          [] v \in Index ->
                [ok |-> TRUE, routeChanged |-> TRUE,
                 s |-> clearType5GatewayNeighbor(routed, p, bad)]
          [] OTHER ->
                [ok |-> gw.ok, routeChanged |-> TRUE, s |-> gw.s]

\* Installs the first path of tries that can be installed and marks it
\* active; a path that cannot may have moved the kernel route already.
Fallback(s, p, tries, bad) ==
    LET Tried[T \in SUBSET tries] ==
            LET v == Last(T)
                r == Tried[T \ {v}]
                t == applyType5Path(r.s, p, v, bad)
            IN  IF T = {} THEN [ok |-> FALSE, s |-> s]
                ELSE IF r.ok THEN r
                ELSE IF t.ok THEN [ok |-> TRUE, s |-> [t.s EXCEPT !.active[p] = v]]
                ELSE [ok |-> FALSE, s |-> t.s]
    IN  Tried[tries]

\* The prefix route via the bridge, whatever its gateway.  The gateway state
\* stays with a route that could not be deleted.
removeType5Prefix(s, p, bad) ==
    IF bad.call = "routedel" /\ s.route[p] \notin {None, Fib} THEN s
    ELSE clearType5GatewayNeighbor(
            [s EXCEPT !.route[p] = IF @ = Fib THEN @ ELSE None], p, bad)

\* deleteType5KernelRoute: the delete names the gateway, so it finds only
\* the route via v.
withdrawType5Route(s, p, v, bad) ==
    LET gone == [s EXCEPT !.route[p] = None]
    IN  IF s.route[p] # v \/ Fails(bad, "routedel", v) THEN s
        ELSE IF v \in Index THEN gone ELSE clearType5GatewayNeighbor(gone, p, bad)

addType5Path(s0, p, v, bad) ==
    LET s == [s0 EXCEPT !.paths[p] = @ \cup {v}]
        try == applyType5Path(s, p, v, bad)
        previous == s.active[p]
        cleared == [try.s EXCEPT !.active[p] = None]
        again == Fallback(cleared, p, {previous} \cap (s.paths[p] \ {v}), bad)
        other == Fallback(again.s, p, s.paths[p] \ {v, previous}, bad)
    IN  CASE try.ok -> [try.s EXCEPT !.active[p] = v]
          [] ~try.ok /\ ~try.routeChanged ->
                [s EXCEPT !.active[p] = IF @ = v THEN None ELSE @]
          [] OTHER ->
                IF again.ok THEN again.s
                ELSE IF other.ok THEN other.s
                ELSE IF Cardinality(s.paths[p]) > 1
                     THEN removeType5Prefix(other.s, p, bad)
                     ELSE other.s

withdrawType5Path(s, p, v, converted, bad) ==
    LET tracked == v \in s.paths[p]
        remaining == s.paths[p] \ {v}
        known == s.active[p] # None
        gone == [s EXCEPT !.paths[p] = remaining]
        next == Fallback([gone EXCEPT !.active[p] = None], p, remaining, bad)
    IN  CASE converted /\ ~tracked -> s
          [] ~(converted /\ ~tracked) /\ known /\ s.active[p] # v
                /\ remaining # {} -> gone
          [] OTHER ->
                IF next.ok THEN next.s
                ELSE IF remaining # {} \/ (tracked /\ ~known)
                     THEN removeType5Prefix(next.s, p, bad)
                     ELSE withdrawType5Route(next.s, p, v, bad)

forgetShadowedType5Path(s, p, v, bad) ==
    LET gone == [s EXCEPT !.paths[p] = @ \ {v}, !.active[p] = None]
    IN  IF gone.paths[p] # {} THEN gone ELSE clearType5GatewayNeighbor(gone, p, bad)

\* fibRemoved: the writer gave the prefix up, the first path that can be
\* installed takes over.
fibRemoved(s, p, bad) ==
    Fallback([s EXCEPT !.active[p] = None], p, s.paths[p], bad).s

\* resolveType5Prefix of a prefix with a path via Gw, not shadowed.
resolveType5Prefix(s, p, bad) ==
    LET active == s.active[p]
        next == Fallback(s, p, s.paths[p], bad)
    IN  CASE active \in s.paths[p] /\ (active \notin Index \/ Gw \in type2) -> s
          [] OTHER ->
                IF next.ok THEN next.s
                ELSE IF active = None THEN next.s
                ELSE removeType5Prefix([next.s EXCEPT !.active[p] = None], p, bad)

\* syncType2Neighbor: the neighbor of the IP follows its Type-2 route, and a
\* Type-5 gateway gets its entry back when the last one goes.
syncType2Neighbor(s, ip, live, bad) ==
    LET used == hasType5GatewayRef(s, ip)
        failed == Fails(bad, IF live \/ used THEN "neigh" ELSE "neighdel", ip)
    IN  IF live = (ip \in s.type2Neigh) \/ (live /\ failed) THEN s
        ELSE [s EXCEPT
                !.type2Neigh = IF live THEN @ \cup {ip} ELSE @ \ {ip},
                !.neigh[ip] = IF failed THEN @ ELSE IF live THEN "host"
                              ELSE IF used THEN "router" ELSE "none",
                !.broken = IF ~failed THEN @ \ {ip} ELSE IF used THEN @ \cup {ip} ELSE @,
                !.left = IF failed /\ ~used THEN @ \cup {ip} ELSE @]

---------------------------------------------------------------------------
(* What the handlers run in.                                               *)

State == [paths |-> overlay.paths, active |-> overlay.active,
          ref |-> overlay.ref, type2Neigh |-> overlay.type2Neigh,
          route |-> kernel.route, neigh |-> kernel.neigh, fdb |-> kernel.fdb,
          broken |-> harmed.broken, left |-> harmed.left]

Becomes(s) ==
    /\ overlay' = [paths |-> s.paths, active |-> s.active, ref |-> s.ref,
                   type2Neigh |-> s.type2Neigh]
    /\ kernel' = [route |-> s.route, neigh |-> s.neigh, fdb |-> s.fdb]
    /\ harmed' = [broken |-> s.broken, left |-> s.left]
    /\ raced' = raced \cup {p \in installed : s.route[p] # kernel.route[p]}
                      \cup {p \in writer.removed : s.active[p] = None /\ s.route[p] # None}

\* A step in which nothing fails, or a kind of call does that it makes.
Runs(Op(_)) ==
    \/ \E s \in {Op(NoFault)} : Becomes(s) /\ UNCHANGED spent
    \/ /\ spent.faults + spent.fib < MaxNetlink
       /\ \E s \in {Op(bad) : bad \in Faults} \ {Op(NoFault)} : Becomes(s)
       /\ spent' = [spent EXCEPT !.faults = @ + 1]

Stays == UNCHANGED <<overlay, kernel, harmed, raced, spent>>

\* fibShadows: the writer's mutex is free between its steps.
fibShadows(p) == p \in installed

(* GoBGP's RIB changes: a Type-5 path comes, goes, or is replaced by one   *)
(* that processRouteUpdate and processType5Update turn into a withdraw; a  *)
(* Type-2 route comes or goes; a unicast route, or the resolution of its   *)
(* next hop, changes.                                                      *)
Learn ==
    /\ spent.updates < MaxUpdates /\ Len(updates) < MaxQueue /\ tier = "up"
    /\ spent' = [spent EXCEPT !.updates = @ + 1]
    /\ \/ \E p \in Prefixes, v \in VTEPs, kind \in {"add", "withdraw", "convert"} :
             /\ kind = "withdraw" => v \in evpn[p]
             /\ evpn' = [evpn EXCEPT ![p] = IF kind = "add" THEN @ \cup {v} ELSE @ \ {v}]
             /\ updates' = Append(updates, [kind |-> kind, p |-> p, v |-> v])
       \/ \E ip \in Hosts, kind \in {"type2", "type2gone"} :
             /\ updates' = Append(updates, [kind |-> kind, p |-> None, v |-> ip])
             /\ UNCHANGED evpn
    /\ UNCHANGED <<unicast, type2, overlay, kernel, handler, writer, installed,
                   changed, type5Stopped, tier, harmed, raced>>

\* A best path event, or a kernel route that is not BGP's (watchUnderlay),
\* notifies the writer.
Unicast ==
    /\ spent.underlay < MaxUnderlay /\ tier = "up"
    /\ spent' = [spent EXCEPT !.underlay = @ + 1]
    /\ \E p \in Underlay :
          unicast' = IF p \in unicast THEN unicast \ {p} ELSE unicast \cup {p}
    /\ changed' = TRUE
    /\ UNCHANGED <<evpn, updates, type2, overlay, kernel, handler, writer,
                   installed, type5Stopped, tier, harmed, raced>>

---------------------------------------------------------------------------
(* The route watcher.                                                      *)

\* handleType5Update up to fibShadows: the lock is taken and the shadow
\* read.  A shadowed prefix needs no kernel route, so the update ends here.
handleType5Update ==
    /\ handler = Idle /\ updates # <<>>
    /\ LET u == Head(updates)
           Shadowed(bad) ==
               IF u.kind = "add"
                 THEN [State EXCEPT !.paths[u.p] = @ \cup {u.v}, !.active[u.p] = None]
                 ELSE forgetShadowedType5Path(State, u.p, u.v, bad)
       IN  /\ u.kind \in {"add", "withdraw", "convert"}
           /\ \/ type5Stopped /\ Stays /\ UNCHANGED handler
              \/ ~type5Stopped /\ ~fibShadows(u.p) /\ Stays /\ handler' = u
              \/ ~type5Stopped /\ fibShadows(u.p) /\ Runs(Shadowed) /\ UNCHANGED handler
    /\ updates' = Tail(updates)
    /\ UNCHANGED <<evpn, unicast, type2, writer, installed, changed, type5Stopped, tier>>

\* The rest of handleType5Update.
Act ==
    /\ handler.kind \in {"add", "withdraw", "convert"}
    /\ LET Handle(bad) ==
               IF handler.kind = "add"
                 THEN addType5Path(State, handler.p, handler.v, bad)
                 ELSE withdrawType5Path(State, handler.p, handler.v,
                                        handler.kind = "convert", bad)
       IN  Runs(Handle)
    /\ handler' = Idle
    /\ UNCHANGED <<evpn, unicast, updates, type2, writer, installed, changed,
                   type5Stopped, tier>>

\* handleType2Update under type2Mu, until Teardown sets type2Stopped.
type2Stopped == tier \notin {"up", "type2"}

handleType2Update ==
    /\ handler = Idle /\ updates # <<>>
    /\ LET u == Head(updates)
           live == u.kind = "type2"
           Sync(bad) == syncType2Neighbor(State, u.v, live, bad)
       IN  /\ u.kind \in {"type2", "type2gone"}
           /\ \/ type2Stopped /\ Stays /\ UNCHANGED <<type2, handler>>
              \/ /\ ~type2Stopped /\ Runs(Sync)
                 /\ type2' = IF live THEN type2 \cup {u.v} ELSE type2 \ {u.v}
                 /\ handler' = IF u.v = Gw THEN [kind |-> "resolve", todo |-> Prefixes]
                               ELSE Idle
    /\ updates' = Tail(updates)
    /\ UNCHANGED <<evpn, unicast, writer, installed, changed, type5Stopped, tier>>

\* resolveType5Gateway takes type5PathsMu only now: Teardown may have come
\* first.  Each prefix asks the writer before its route changes.
resolveType5Gateway ==
    /\ handler.kind = "resolve"
    /\ IF handler.todo = {} \/ type5Stopped
         THEN handler' = Idle /\ Stays
         ELSE LET p == First(handler.todo)
                  rest == [handler EXCEPT !.todo = @ \ {p}]
                  indexed == overlay.paths[p] \cap Index # {}
              IN  \/ ~indexed /\ Stays /\ handler' = rest
                  \/ /\ indexed /\ fibShadows(p)
                     /\ Becomes([State EXCEPT !.active[p] = None])
                     /\ handler' = rest /\ UNCHANGED spent
                  \/ /\ indexed /\ ~fibShadows(p) /\ Stays
                     /\ handler' = [kind |-> "resolving", p |-> p, todo |-> rest.todo]
    /\ UNCHANGED <<evpn, unicast, updates, type2, writer, installed, changed,
                   type5Stopped, tier>>

Resolved ==
    /\ handler.kind = "resolving"
    /\ LET Resolve(bad) == resolveType5Prefix(State, handler.p, bad) IN Runs(Resolve)
    /\ handler' = [kind |-> "resolve", todo |-> handler.todo]
    /\ UNCHANGED <<evpn, unicast, updates, type2, writer, installed, changed,
                   type5Stopped, tier>>

\* type5PathsMu is free: not held over the shadow check and what follows it,
\* nor over a whole resolve.
pathsMuFree == handler = Idle \/ (handler.kind = "resolve" /\ handler.todo = Prefixes)

---------------------------------------------------------------------------
(* The FIB writer.                                                         *)

\* run and wanted: a change (debounced) or the resync ticker starts a
\* reconcile, which reads the RIB.
wanted(force) ==
    /\ writer.at = "idle" /\ tier \in {"up", "type2", "links"}
    /\ force \/ changed
    /\ changed' = IF force THEN changed ELSE FALSE
    /\ writer' = [at |-> IF force THEN "force" ELSE "apply", want |-> unicast, removed |-> {}]
    /\ UNCHANGED <<evpn, unicast, updates, type2, overlay, kernel, handler,
                   installed, type5Stopped, tier, spent, harmed, raced>>

\* applyLocked: changed routes (all with force) are replaced, a failed one
\* is not recorded; routes no longer wanted are deleted and forgotten, also
\* one that the kernel did not delete.
applyLocked ==
    /\ writer.at \in {"apply", "force"}
    /\ \E failed \in SUBSET writer.want, leaked \in SUBSET (installed \ writer.want) :
          LET replace == IF writer.at = "force" THEN writer.want
                         ELSE writer.want \ installed
              drop == installed \ writer.want
          IN  /\ failed \subseteq replace /\ Cardinality(failed \cup leaked) <= 1
              /\ spent.faults + spent.fib + Cardinality(failed \cup leaked) <= MaxNetlink
              /\ spent' = [spent EXCEPT !.fib = @ + Cardinality(failed \cup leaked),
                                       !.leaked = @ \cup leaked]
              /\ kernel' = [kernel EXCEPT !.route = [p \in Prefixes |->
                    IF p \in replace \ failed THEN Fib
                    ELSE IF p \in drop \ leaked /\ @[p] = Fib THEN None ELSE @[p]]]
              /\ installed' = (installed \cup (replace \ failed)) \ drop
              /\ writer' = [at |-> "notify", want |-> {}, removed |-> drop]
    /\ UNCHANGED <<evpn, unicast, updates, type2, overlay, handler, changed,
                   type5Stopped, tier, harmed, raced>>

\* notifyRemoved: onRemove takes the overlay's lock for each key.
notifyRemoved ==
    /\ writer.at = "notify"
    /\ IF writer.removed = {}
         THEN writer' = [writer EXCEPT !.at = IF tier = "down" THEN "ended" ELSE "idle"] /\ Stays
         ELSE /\ pathsMuFree
              /\ \E p \in writer.removed :
                    LET Take(bad) == fibRemoved(State, p, bad)
                    IN  /\ writer' = [writer EXCEPT !.removed = @ \ {p}]
                        /\ IF type5Stopped THEN Stays ELSE Runs(Take)
    /\ UNCHANGED <<evpn, unicast, updates, type2, handler, installed, changed,
                   type5Stopped, tier>>

\* run ends with the context: every route goes and is forgotten, and the
\* overlay is told.
removeAll ==
    /\ tier = "fib" /\ writer.at = "idle"
    /\ \E leaked \in SUBSET installed :
          /\ Cardinality(leaked) <= 1
          /\ spent.faults + spent.fib + Cardinality(leaked) <= MaxNetlink
          /\ spent' = [spent EXCEPT !.fib = @ + Cardinality(leaked), !.leaked = @ \cup leaked]
          /\ kernel' = [kernel EXCEPT !.route = [p \in Prefixes |->
                          IF p \in installed \ leaked /\ @[p] = Fib THEN None ELSE @[p]]]
    /\ installed' = {}
    /\ writer' = [at |-> "notify", want |-> {}, removed |-> installed]
    /\ tier' = "down"
    /\ UNCHANGED <<evpn, unicast, updates, type2, overlay, handler, changed,
                   type5Stopped, harmed, raced>>

---------------------------------------------------------------------------
(* Stack.Teardown: the overlay first, then the underlay with its writer.   *)

\* Mutant of StopOverlay: pathsMu is not taken and type5Stopped is not set.
StopOverlay_Early ==
    /\ tier = "up"
    /\ tier' = "type2"
    /\ overlay' = [overlay EXCEPT !.paths = [p \in Prefixes |-> {}],
                                  !.active = [p \in Prefixes |-> None]]
    /\ UNCHANGED <<evpn, unicast, updates, type2, kernel, handler, writer, installed,
                   changed, type5Stopped, spent, harmed, raced>>

\* OverlayTier.Teardown, first under type5PathsMu, then under type2Mu.
StopOverlay ==
    /\ tier = "up" /\ pathsMuFree
    /\ tier' = "type2"
    /\ type5Stopped' = TRUE
    /\ overlay' = [overlay EXCEPT !.paths = [p \in Prefixes |-> {}],
                                  !.active = [p \in Prefixes |-> None]]
    /\ UNCHANGED <<evpn, unicast, updates, type2, kernel, handler, writer, installed,
                   changed, spent, harmed, raced>>

removeType2Neighbors(bad) ==
    [State EXCEPT !.type2Neigh = {},
        !.neigh = [i \in IPs |-> IF i \in overlay.type2Neigh /\ ~Fails(bad, "neighdel", i)
                                   THEN "none" ELSE @[i]]]

StopNeighbors ==
    /\ tier = "type2"
    /\ tier' = "links"
    /\ Runs(removeType2Neighbors)
    /\ type2' = {}
    /\ UNCHANGED <<evpn, unicast, updates, handler, writer, installed, changed, type5Stopped>>

\* The bridge and the VXLAN device go, and in the kernel all that uses them.
RemoveLinks ==
    /\ tier = "links"
    /\ tier' = "fib"
    /\ kernel' = [route |-> [p \in Prefixes |->
                                IF kernel.route[p] = Fib THEN Fib ELSE None],
                  neigh |-> [i \in IPs |-> "none"], fdb |-> {}]
    /\ UNCHANGED <<evpn, unicast, updates, type2, overlay, handler, writer,
                   installed, changed, type5Stopped, spent, harmed, raced>>

---------------------------------------------------------------------------
Watcher == \/ handleType5Update \/ Act \/ handleType2Update
           \/ resolveType5Gateway \/ Resolved
Writer == applyLocked \/ notifyRemoved \/ removeAll
GNext == \/ Learn \/ Unicast \/ Watcher \/ Writer
         \/ \E force \in BOOLEAN : wanted(force)
         \/ StopOverlay \/ StopNeighbors \/ RemoveLinks

(* The two goroutines run; the ticker of the writer keeps ticking.         *)
GFairness == /\ WF_gvars(Watcher) /\ WF_gvars(Writer)
             /\ WF_gvars(wanted(TRUE))
GSpec == GInit /\ [][GNext]_gvars /\ GFairness

---------------------------------------------------------------------------
(* Properties.                                                             *)

Live(p) == {v \in evpn[p] : v \notin Index \/ Gw \in type2}
RouteRight(p) ==
    IF p \in unicast THEN kernel.route[p] = Fib
    ELSE IF Live(p) = {} THEN kernel.route[p] = None
    ELSE kernel.route[p] \in Live(p)

(* The two writers agree in the end: once the RIB stops changing, every    *)
(* prefix has the FIB writer's route if there is one, else a live Type-5   *)
(* path's, else none, although the check for the other writer's route and  *)
(* the replace are two steps (fibShadows in overlay.go, notifyRemoved and  *)
(* the resync in fib.go).  Exempt are failed netlink calls of the overlay, *)
(* which it does not retry, and, once the underlay has no route for it, a  *)
(* prefix the overlay wrote in that window (WindowIsBounded) or whose      *)
(* gateway IP lost its Type-2 route just before fibRemoved forgot that the *)
(* overlay's route was there.  A route of the writer that the kernel did   *)
(* not delete stays until either writer has a route for its prefix.        *)
RoutesSettle ==
    <>[](\/ tier # "up" \/ spent.faults > 0
         \/ \A p \in Prefixes : \/ RouteRight(p) \/ p \in raced \ unicast
                                \/ /\ p \in spent.leaked \ unicast /\ Live(p) = {}
                                   /\ kernel.route[p] = Fib)

(* The comment of fibShadows, taken at its word: what the overlay wrote    *)
(* between its check and the writer's install lasts until the next resync. *)
WindowIsBounded ==
    <>[](tier # "up" \/ spent.faults + spent.fib > 0 \/ \A p \in Prefixes : RouteRight(p))

(* A gateway shared by prefixes and by Type-2 keeps its kernel entries as  *)
(* long as one of them uses it, and loses them with the last:              *)
(* setType5GatewayNeighbor, deleteType5GatewayRefLocked and                *)
(* syncType2Neighbor count references over two maps and three locks.  A    *)
(* failed delete puts the reference back although one of the two entries   *)
(* may be gone: such a gateway can have an entry too many or a reference   *)
(* without one, but not a route marked active without its entries.  Only a *)
(* failed set does that: the FDB entry whose failure rolls back a neighbor *)
(* that another prefix uses, and the neighbor that Type-2 does not give    *)
(* back.                                                                   *)
GatewaysCounted ==
    tier = "up" =>
        \A g \in VTEPs :
            LET used == \E p \in Prefixes : overlay.ref[p] = g
                owner == IF g \in overlay.type2Neigh THEN "host" ELSE "router"
                carries == {p \in Prefixes : overlay.active[p] = g /\ g \notin Index}
            IN  /\ \A p \in carries : overlay.ref[p] = g
                /\ (carries # {} /\ g \notin harmed.broken) =>
                       kernel.neigh[g] = owner /\ g \in kernel.fdb
                /\ g \notin harmed.broken \cup harmed.left =>
                       /\ kernel.neigh[g] = IF used \/ owner = "host" THEN owner ELSE "none"
                       /\ (g \in kernel.fdb) = used

(* After Teardown took the overlay's locks, no update and no notification  *)
(* of the writer, late as it may be, installs an overlay route, a gateway  *)
(* or a neighbor: type5PathsMu stops the first two (type5Stopped in        *)
(* handleType5Update, resolveType5Gateway and fibRemoved), type2Mu the     *)
(* last (type2Stopped).                                                    *)
NoRouteAfterTeardown ==
    [][tier # "up" =>
         /\ \A p \in Prefixes : kernel'.route[p] \in {kernel.route[p], None, Fib}
         /\ tier # "type2" => \A i \in IPs : kernel'.neigh[i] \in {kernel.neigh[i], "none"}
         /\ kernel'.fdb \subseteq kernel.fdb]_gvars
============================================================================
