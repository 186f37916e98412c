-------------------------------- MODULE NetUp --------------------------------
(***************************************************************************)
(* How the ramdisk's network comes up and goes (main.go): the bond and the *)
(* VLANs below, one network mode on top (links, GoBGP, FRR, static, DHCP), *)
(* the fallback to DHCP, the wait for connectivity with its retries, and   *)
(* the FRR daemons (pkg/network/frr) that the wait restarts.               *)
(*                                                                         *)
(* The state is what the kernel has (links, addresses, processes) and what *)
(* the code remembers to have made.  A netlink call or a command that      *)
(* fails is a fault; every call may.  The GoBGP stack and the DHCP clients *)
(* are one object each here: their own setup and teardown are in           *)
(* GobgpStack and Leases.                                                  *)
(***************************************************************************)
EXTENDS Integers, Sequences, FiniteSets

CONSTANTS NetJobs,        \* the configurations: see NetJob
          MaxNetFaults,   \* calls that fail in a behaviour
          MaxSetups,      \* networkWait: 3 setups, 1 with NETWORK_WAIT_MODE=rounds
          MaxRecoveries   \* restarts of FRR in one wait

VARIABLES nj,         \* the configuration of the host
          npc,        \* where setupNetworkMode or ensureNetworkConnectivity is
          have,       \* what exists: links, addresses, senders and daemons
          layers,     \* linkLayerCleanup: the bond and the VLANs it removes
          netMode,    \* the network.Mode that was set up
          frr,        \* Manager: frrStartMethod ("none" for "") and directDaemonList
          setups,     \* setups so far
          restarts,   \* restarts of FRR in this wait
          undeleted,  \* what a failed call has left: see NetworkIsGone
          netFaults

nvars == <<nj, npc, have, layers, netMode, frr, setups, restarts, undeleted, netFaults>>

Vlans(j) == {"vlan1", "vlan2"} \cap j.below
Optional == "mgmtd"
Required == {"zebra", "bfdd", "bgpd"}
Daemons == Required \cup {Optional}

(* The links and addresses of FRR mode, in the order setupInterfaces makes  *)
(* them.                                                                    *)
FrrObjects(j) ==
    (IF j.vrf THEN <<"vrf">> ELSE <<>>) \o <<"dummy", "vxlan", "bridge", "provisionIP", "overlayIP">>
StaticObjects == <<"address", "route">>

FrrLinks == {"vrf", "dummy", "loopbackIP", "vxlan", "bridge", "provisionIP", "overlayIP"}
ModeObjects == FrrLinks \cup Daemons \cup {"address", "route", "stack", "dhcp"}

First(s, k) == {s[i] : i \in 1 .. k}

(* What the kernel removes with a link: what lies on it. *)
On(o) ==
    CASE o = "bond" -> Vlans(nj) \cup {"address", "route"}
      [] o = "vlan1" -> {"address", "route"}
      [] o = "vlan2" -> IF "vlan1" \in nj.below THEN {} ELSE {"address", "route"}
      [] o = "bridge" -> {"provisionIP"}
      [] o = "address" -> {"route"}
      [] OTHER -> {}

Fails(n) == netFaults + n <= MaxNetFaults /\ netFaults' = netFaults + n

(* A teardown tries to remove each of objs and goes on after a failure; bad *)
(* are the ones that stay, from the set `before` of what is there.          *)
RemoveAll(before, objs, bad) ==
    LET gone == UNION {{o} \cup On(o) : o \in (objs \cap before) \ bad}
    IN  /\ have' = before \ gone
        /\ undeleted' = (undeleted \ gone) \cup (bad \ gone)

Removes(before, objs, cost) ==
    \E bad \in SUBSET (objs \cap before) :
        Fails(cost + Cardinality(bad)) /\ RemoveAll(before, objs, bad)

NoFrr == [method |-> "none", list |-> {}]
NoLayers == {}

NetInit ==
    /\ nj \in NetJobs /\ npc = "bond" /\ have = {} /\ layers = NoLayers /\ netMode = "none"
    /\ frr = NoFrr /\ setups = 1 /\ restarts = 0 /\ undeleted = {}
    /\ netFaults = 0

-----------------------------------------------------------------------------
(* The link layers.  A rename of a NIC may fail.  A bond that exists is     *)
(* used; its Teardown removes the bond once the mode knows it, so not after *)
(* a failed creation.                                                       *)
bondTeardown(before) == Removes(before, {"bond"}, 1)

setupBondMode ==
    /\ "bond" \in nj.below
    /\ \/ /\ have' = have \cup {"bond"} /\ layers' = layers \cup {"bond"} /\ npc' = "vlans"
          /\ UNCHANGED <<undeleted, netFaults>>
       \/ /\ npc' = "failed" /\ UNCHANGED layers
          /\ \/ Fails(1) /\ UNCHANGED <<have, undeleted>>
             \/ bondTeardown(have \cup {"bond"})

prepareLinkLayers ==
    /\ npc = "bond"
    /\ UNCHANGED <<nj, netMode, frr, setups, restarts>>
    /\ \/ Fails(1) /\ npc' = "failed" /\ UNCHANGED <<have, layers, undeleted>>
       \/ setupBondMode
       \/ /\ "bond" \notin nj.below
          /\ npc' = "vlans" /\ UNCHANGED <<have, layers, undeleted, netFaults>>

(* How the VLANs that are not there yet can come out: made, or left behind  *)
(* by a failed configuration that could not remove the link again.          *)
vlanSetup ==
    {o \in [made : SUBSET (Vlans(nj) \ have), left : SUBSET (Vlans(nj) \ have)] : o.made \cap o.left = {}}

(* Every VLAN is tried; one that exists cannot be created.  A failure       *)
(* removes the VLANs that were made and the bond.                           *)
setupVLANLayers ==
    /\ npc = "vlans"
    /\ UNCHANGED <<nj, netMode, frr, setups, restarts>>
    /\ \E o \in vlanSetup :
         LET cost == Cardinality((Vlans(nj) \ have) \ o.made) + Cardinality(o.left)
         IN  \/ /\ o.made = Vlans(nj) /\ npc' = "mode"
                /\ have' = have \cup o.made /\ layers' = layers \cup o.made
                /\ UNCHANGED <<undeleted, netFaults>>
             \/ /\ o.made # Vlans(nj) /\ npc' = "failed" /\ UNCHANGED layers
                /\ \E bad \in SUBSET (o.made \cup layers) :
                     /\ Fails(cost + Cardinality(bad))
                     /\ RemoveAll(have \cup o.made \cup o.left, o.made \cup layers, bad \cup o.left)

-----------------------------------------------------------------------------
(* The modes.  A mode that fails for good takes the link layers with it.    *)
linksSetup ==
    /\ npc = "mode" /\ nj.mode = "links"
    /\ UNCHANGED <<nj, layers, frr, setups, restarts>>
    /\ \/ npc' = "resolvers" /\ netMode' = "links" /\ UNCHANGED <<have, undeleted, netFaults>>
       \/ npc' = "failed" /\ UNCHANGED netMode /\ Removes(have, layers, 1)

setupGoBGPStack ==
    /\ npc = "mode" /\ nj.mode = "gobgp"
    /\ UNCHANGED <<nj, layers, frr, setups, restarts>>
    /\ \/ /\ have' = have \cup {"stack"} /\ netMode' = "gobgp" /\ npc' = "resolvers"
          /\ UNCHANGED <<undeleted, netFaults>>
       \/ /\ npc' = "failed" /\ UNCHANGED netMode
          /\ Removes(have \cup {"stack"}, {"stack"} \cup layers, 1)

requireFRRPayload ==
    /\ npc = "mode" /\ nj.mode = "frr" /\ ~nj.payload
    /\ npc' = "failed" /\ Removes(have, layers, 0)
    /\ UNCHANGED <<nj, layers, netMode, frr, setups, restarts>>

(* The static mode knows its interface, address and gateway before it makes *)
(* a change; a failure removes them again and DHCP follows.                 *)
staticTeardown(before, cost) == Removes(before, {"address", "route"}, cost)

staticSetup ==
    /\ npc = "mode" /\ nj.mode = "static"
    /\ UNCHANGED <<nj, layers, frr, setups, restarts>>
    /\ \/ /\ have' = have \cup First(StaticObjects, 2) /\ netMode' = "static" /\ npc' = "resolvers"
          /\ UNCHANGED <<undeleted, netFaults>>
       \/ \E k \in 0 .. 1 : /\ npc' = "dhcp" /\ UNCHANGED netMode
                            /\ staticTeardown(have \cup First(StaticObjects, k), 1)

(* DHCP is the mode of the run even when its setup fails. *)
dhcpFallback ==
    /\ \/ npc = "dhcp"
       \/ npc = "mode" /\ nj.mode = "dhcp"
    /\ \/ have' = have \cup {"dhcp"} /\ UNCHANGED netFaults
       \/ Fails(1) /\ UNCHANGED have
    /\ netMode' = "dhcp" /\ npc' = "resolvers"
    /\ UNCHANGED <<nj, layers, frr, setups, restarts, undeleted>>

-----------------------------------------------------------------------------
(* The FRR manager.  f.up are the daemons that run, f.method and f.list     *)
(* what the manager knows of them, f.cost the commands that failed.         *)
Frr(up) == [up |-> up, method |-> frr.method, list |-> frr.list, cost |-> 0]

(* SIGTERM, then SIGKILL for the daemons of the list; a failure keeps the   *)
(* list, so the next stop tries again.                                      *)
stopDaemonsDirect(f) ==
    {[f EXCEPT !.up = @ \ f.list, !.list = {}, !.method = "none"]}
      \cup {[f EXCEPT !.up = @ \ s, !.cost = @ + 1] : s \in {x \in SUBSET f.list : x # f.list}}

(* One daemon after the other; an optional one may be missing, a required   *)
(* one that does not start stops those before it.                           *)
trackDirectDaemon(f, ds) == [f EXCEPT !.up = @ \cup ds, !.list = @ \cup ds]

startDaemonsDirect(f) ==
    LET order == <<Optional, "zebra", "bfdd", "bgpd">>
        all(ds, c) == [trackDirectDaemon(f, ds) EXCEPT !.method = "direct", !.cost = @ + c]
        part(k) == [trackDirectDaemon(f, First(order, k)) EXCEPT !.cost = @ + 1]
    IN  IF "direct" \in nj.frr
        THEN {all(Daemons, 0), all(Required, 1)} \cup UNION {stopDaemonsDirect(part(k)) : k \in 1 .. 3}
        ELSE {f}

(* A command of systemd or of frrinit.sh for all daemons; one that fails    *)
(* has done a part of it, and leaves one of the sets ups running.           *)
Command(f, m, up) == {[f EXCEPT !.up = up, !.method = m]}
FailedCommand(f, ups) == {[f EXCEPT !.up = u, !.cost = @ + 1] : u \in ups}

(* half are the daemons that a failed command has started. *)
startFRR(f, half) ==
    LET none == [f EXCEPT !.method = "none", !.list = {}]
        fail(x) == FailedCommand(x, {x.up \cup half})
        direct(g) == UNION {startDaemonsDirect(x) : x \in g}
        init(g) == IF "frrinit" \in nj.frr
                   THEN (UNION {Command(x, "frrinit", Daemons) : x \in g}) \cup direct(UNION {fail(x) : x \in g})
                   ELSE direct(g)
    IN  IF "systemctl" \in nj.frr
        THEN Command(none, "systemctl", Daemons) \cup init(fail(none))
        ELSE init({none})

(* stopFRRBestEffort and restartFRRBestEffort: without a known method the   *)
(* commands that exist, never the daemons themselves.                       *)
BestEffort(f, up, ups) ==
    IF nj.frr \cap {"systemctl", "frrinit"} # {} THEN Command(f, f.method, up) \cup FailedCommand(f, ups) ELSE {f}

stopFRR(f) ==
    IF f.method \in {"systemctl", "frrinit"} THEN Command(f, f.method, {}) \cup FailedCommand(f, SUBSET f.up)
    ELSE IF f.method = "direct" \/ f.list # {} THEN stopDaemonsDirect(f)
    ELSE BestEffort(f, {}, SUBSET f.up)

restartFRR(f) ==
    CASE f.method \in {"systemctl", "frrinit"} ->
           Command(f, f.method, Daemons) \cup FailedCommand(f, SUBSET Daemons)
      [] f.method = "direct" ->
           UNION {IF g.method = "none" THEN startDaemonsDirect(g) ELSE {g} : g \in stopDaemonsDirect(f)}
      [] OTHER -> BestEffort(f, Daemons, SUBSET Daemons)

(* createDummy falls back to the loopback; a failure may leave the dummy.   *)
setupInterfaces ==
    /\ npc = "mode" /\ nj.mode = "frr" /\ nj.payload
    /\ UNCHANGED <<nj, layers, netMode, setups, restarts, undeleted>>
    /\ frr' = NoFrr
    /\ LET objs == FrrObjects(nj)
       IN  \/ /\ have' = have \cup First(objs, Len(objs)) /\ npc' = "frr start"
              /\ UNCHANGED netFaults
           \/ \E half \in SUBSET {"dummy"} :
                /\ Fails(1) /\ npc' = "frr start"
                /\ have' = have \cup (First(objs, Len(objs)) \ {"dummy"}) \cup half \cup {"loopbackIP"}
           \/ \E k \in 0 .. Len(objs) :
                Fails(1) /\ have' = have \cup First(objs, k) /\ npc' = "frr rollback"

(* The configuration files come first. *)
writeFRRConfig ==
    /\ npc = "frr start" /\ Fails(1) /\ npc' = "frr rollback"
    /\ UNCHANGED <<nj, have, layers, netMode, frr, setups, restarts, undeleted>>

(* The daemons of a failed command are not the manager's: without a method  *)
(* that stops all daemons, only those on its list are.                      *)
Strays(f, half) == IF f.method \in {"systemctl", "frrinit"} THEN {} ELSE half \ f.list

startFRRStack ==
    /\ npc = "frr start"
    /\ \E half \in SUBSET Daemons : \E f \in startFRR(Frr(have \cap Daemons), half) :
         /\ Fails(f.cost) /\ (half # {} => f.cost > 0 /\ nj.frr \cap {"systemctl", "frrinit"} # {})
         /\ undeleted' = undeleted \cup Strays(f, half)
         /\ have' = (have \ Daemons) \cup f.up /\ frr' = [method |-> f.method, list |-> f.list]
         /\ IF f.method # "none" THEN netMode' = "frr" /\ npc' = "resolvers"
                             ELSE UNCHANGED netMode /\ npc' = "frr rollback"
    /\ UNCHANGED <<nj, layers, setups, restarts>>

(* cleanupNetworkState: createVXLAN makes "vx0" without a VNI, and          *)
(* cleanupVXLANLink skips it.                                               *)
Overlooked == IF nj.vni THEN {} ELSE {"vxlan"}
CleanedLinks == FrrLinks \ Overlooked

(* Teardown of the manager: the daemons, then every link and address, and   *)
(* below them the link layers `under`.                                      *)
frrTeardown(under, cost) ==
    \E f \in stopFRR(Frr(have \cap Daemons)) :
      LET before == (have \ Daemons) \cup f.up
          objs == CleanedLinks \cup under
      IN  \E bad \in SUBSET (objs \cap before) :
            /\ Fails(cost + f.cost + Cardinality(bad))
            /\ RemoveAll(before, objs, bad \cup (IF f.cost > 0 THEN f.up ELSE {}))
            /\ frr' = [method |-> f.method, list |-> f.list]

(* Mutant of rollbackSetup: it only removes the links. *)
rollbackSetup_LinksOnly ==
    /\ npc = "frr rollback" /\ npc' = "dhcp"
    /\ Removes(have, CleanedLinks, 0)
    /\ UNCHANGED <<nj, layers, netMode, frr, setups, restarts>>

rollbackSetup ==
    /\ npc = "frr rollback" /\ npc' = "dhcp"
    /\ IF frr.method # "none" \/ frr.list # {}
       THEN frrTeardown({}, 0)
       ELSE Removes(have, CleanedLinks, 0) /\ UNCHANGED frr
    /\ UNCHANGED <<nj, layers, netMode, setups, restarts>>

-----------------------------------------------------------------------------
(* The priority of the modes is links, GoBGP, FRR, static, DHCP: nj.mode is *)
(* the one that applies.                                                    *)
setupNetworkMode ==
    \/ linksSetup \/ setupGoBGPStack \/ requireFRRPayload \/ setupInterfaces
    \/ staticSetup \/ dhcpFallback

(* The end of the setup: the resolvers, and the LLDP sender of the netplan  *)
(* NICs (GoBGP has its own).                                                *)
OwnObjects ==
    CASE netMode = "gobgp" -> {"stack"}
      [] netMode = "static" -> {"address", "route"}
      [] netMode = "dhcp" -> {"dhcp"}
      [] OTHER -> {}

(* Teardown of the mode and of the link layers. *)
modeTeardown(under) ==
    IF netMode = "frr" THEN frrTeardown(under, 0)
                       ELSE Removes(have, OwnObjects \cup under, 0) /\ UNCHANGED frr

networkModeWithResolvers ==
    /\ npc = "resolvers"
    /\ UNCHANGED <<nj, netMode, setups>>
    /\ \/ /\ nj.dns # "bad" /\ npc' = "wait" /\ restarts' = 0
          /\ have' = IF nj.lldp /\ nj.mode # "gobgp" THEN have \cup {"lldp"} ELSE have
          /\ UNCHANGED <<layers, frr, undeleted, netFaults>>
       \/ /\ nj.dns = "bad" /\ npc' = "failed"
          /\ modeTeardown(layers) /\ UNCHANGED <<layers, restarts>>

-----------------------------------------------------------------------------
(* ensureNetworkConnectivity.  Whether the target answers is the network's  *)
(* choice; links mode does not wait.                                        *)
WaitReached ==
    /\ npc = "wait" /\ npc' = "up"
    /\ UNCHANGED <<nj, have, layers, netMode, frr, setups, restarts, undeleted, netFaults>>

WaitTimesOut ==
    /\ npc = "wait" /\ netMode # "links"
    /\ npc' = IF setups < (IF nj.rounds THEN 1 ELSE MaxSetups) THEN "retry" ELSE "stop"
    /\ UNCHANGED <<nj, have, layers, netMode, frr, setups, restarts, undeleted, netFaults>>

(* The daemons of a best-effort restart while the list of a failed direct   *)
(* one is not empty: stopFRR goes by the list, and they are not in it.      *)
Untracked(f) == IF f.method = "none" /\ f.list # {} THEN f.up \ f.list ELSE {}

(* waitForHTTPWithFRR restarts FRR at an interval; with the legacy recovery *)
(* an established session keeps the daemons.                                *)
recoverFRR ==
    /\ npc = "wait" /\ netMode = "frr" /\ restarts < MaxRecoveries /\ restarts' = restarts + 1
    /\ UNCHANGED <<nj, npc, layers, netMode, setups>>
    /\ \/ nj.legacy /\ UNCHANGED <<have, frr, undeleted, netFaults>>
       \/ \E f \in restartFRR(Frr(have \cap Daemons)) :
            /\ Fails(f.cost)
            /\ have' = (have \ Daemons) \cup f.up /\ frr' = [method |-> f.method, list |-> f.list]
            /\ undeleted' = undeleted \cup Untracked(f)

(* The run is over (stopNetworkOnce). *)
RunEndsUp ==
    /\ npc = "up" /\ npc' = "stop"
    /\ UNCHANGED <<nj, have, layers, netMode, frr, setups, restarts, undeleted, netFaults>>

(* Teardown of linkLayerNetworkMode: the LLDP sender, then the mode, then   *)
(* the link layers.  A retry goes on after every failure.                   *)
linkLayerTeardown ==
    IF "lldp" \in have
    THEN have' = have \ {"lldp"} /\ UNCHANGED <<npc, frr, setups, layers, netMode, undeleted, netFaults>>
    ELSE /\ modeTeardown(layers) /\ layers' = NoLayers /\ netMode' = "none"
         /\ npc' = IF npc = "retry" THEN "bond" ELSE "down"
         /\ setups' = IF npc = "retry" THEN setups + 1 ELSE setups

networkModeTeardown ==
    npc \in {"retry", "stop"} /\ linkLayerTeardown /\ UNCHANGED <<nj, restarts>>

NetNext ==
    \/ prepareLinkLayers \/ setupVLANLayers \/ setupNetworkMode \/ writeFRRConfig \/ startFRRStack
    \/ rollbackSetup \/ networkModeWithResolvers \/ WaitReached \/ WaitTimesOut \/ recoverFRR
    \/ RunEndsUp \/ networkModeTeardown

NetSpec == NetInit /\ [][NetNext]_nvars

-----------------------------------------------------------------------------
(* When the setup has failed or the network has been stopped, nothing that  *)
(* it made is left (no link, address, sender or FRR daemon), except the     *)
(* VXLAN link of a configuration without a VNI, what a removal or a stop    *)
(* that failed left, the daemons that a failed "systemctl restart" or       *)
(* "frrinit.sh start" left half started, which rollbackSetup does not stop, *)
(* and the daemons of an Untracked restart.                                 *)
Excused == undeleted \cup Overlooked
NetworkIsGone == npc \in {"failed", "down"} => have \subseteq Excused

(* DHCP after a failed FRR or static setup starts without an address, a     *)
(* route or a daemon of that mode, with the same exceptions.                *)
FallbackStartsClean ==
    netMode = "dhcp" => have \cap (ModeObjects \ {"dhcp"}) \subseteq Excused

(* The LLDP sender stops before the mode under it, "so its shutdown frames  *)
(* go out before the network mode stops".                                   *)
SenderStopsFirst ==
    [][\A o \in ModeObjects \ Daemons : o \in have /\ o \notin have' => "lldp" \notin have]_nvars

(* A setup that failed, a fallback and the end of the run each start from a  *)
(* network without the parts of the mode before, and take them down in the   *)
(* order that lets the LLDP sender say goodbye.                              *)
SetupLeavesNothing == [](NetworkIsGone /\ FallbackStartsClean) /\ SenderStopsFirst
=============================================================================
