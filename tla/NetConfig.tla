----------------------------- MODULE NetConfig -----------------------------
(* The network configuration of a run (setupNetworkMode of main.go): the    *)
(* vars, the netplan files or network.devices (pkg/network/netplan), the    *)
(* frr.conf of FrrConf and the native BGP options are merged into one       *)
(* configuration, which selects the mode; GoBGP mode checks it once more    *)
(* (pkg/network/gobgp/config.go).  A value is named for where it comes      *)
(* from: an address is the device it is written at, "vars" is a vars key,   *)
(* "-" is unset.  Lists and settings that no step looks into are one value. *)
EXTENDS FrrConf, TLC

CONSTANTS
    NetInputs,     \* what the provisioner may deliver: sets of inputs
    DeviceOrder    \* the device names in lexical order

VARIABLES
    nin,     \* the input
    nsrc,    \* the configuration of the netplan files and frr.conf
    nfrr,    \* what frr.conf says, once it is read
    nc,      \* the merged configuration
    ncph     \* the next step of setupNetworkMode, or the mode, or "failed"

ncVars == <<nin, nsrc, nfrr, nc, ncph>>

NoIP == <<"-", 0>>
NoRDs == [l3 |-> <<>>, l2 |-> <<>>]
NoNetwork ==
    [asn |-> "-", vni |-> "-", underlay |-> "-", subnets |-> {}, provIP |-> NoIP, gateway |-> "-", mode |-> "-",
     peerMode |-> "-", nbrs |-> "-", ras |-> "-", ip |-> "-", iface |-> "-", match |-> "-", sgw |-> "-",
     bond |-> "-", bondMode |-> "-", table |-> "-", vrf |-> "-", ovrf |-> "-", ovrfSet |-> FALSE,
     otable |-> "-", bridge |-> "-", bmac |-> "-", brdev |-> "-", vxname |-> "-", vxlink |-> "-",
     vxdev |-> "-", dummy |-> "-", mtu |-> 0, dns |-> {}, loop |-> {}, black |-> {}, nets |-> {},
     vlans |-> {}, renames |-> {}, names |-> {}, auto |-> FALSE, noRA |-> {}, lldp |-> {},
     lldpMatches |-> {}, l3vnis |-> {}, l2 |-> FALSE, t5 |-> FALSE, t5set |-> FALSE, resolve |-> FALSE,
     imp |-> {}, exp |-> {}, rd |-> "-", rdIndex |-> 0, instances |-> 0, sessions |-> {}, relax |-> FALSE,
     defaults |-> "-", rmaps |-> "-", clists |-> "-", failover |-> "-", install |-> FALSE, allow |-> 0, rds |-> NoRDs]

(* --------------------------- netplan files ------------------------------ *)

Kinds == {"ethernets", "bonds", "tunnels", "bridges", "vlans", "dummies", "vrfs"}
NoDevices == [k \in Kinds |-> Empty]
\* The names of a map in the order of slices.Sorted.
InOrder(devices) == SelectSeq(DeviceOrder, LAMBDA n : n \in DOMAIN devices)
FirstWith(devices, P(_)) ==
    LET seq == SelectSeq(InOrder(devices), P)
    IN IF seq = <<>> THEN "-" ELSE seq[1]

\* A later file overrides the earlier ones per device.
mergeConfig(dst, src) == [k \in Kinds |-> src[k] @@ dst[k]]

\* A route with table, metric, scope or from is refused, or dropped in lenient
\* mode; a dropped route is not the gateway.
checkRoutes(np) ==
    [k \in Kinds |-> IF k \notin {"ethernets", "vlans"} THEN np[k]
                     ELSE [n \in DOMAIN np[k] |-> IF np[k][n].oddRoute THEN [np[k][n] EXCEPT !.gw = "-"]
                                                  ELSE np[k][n]]]
OddRoutes(np) == \E k \in {"ethernets", "vlans"} : \E n \in DOMAIN np[k] : np[k][n].oddRoute

\* parseBytes: an unknown key is skipped in lenient mode, but not one in a match
\* or a route (onlyUnknownKeys), and not a wrong value.
parseFile(file, strict) ==
    [ok |-> /\ file.text \in (IF strict THEN {"ok"} ELSE {"ok", "unknownKey"})
            /\ ~(strict /\ OddRoutes(file.net)),
     net |-> checkRoutes(file.net)]

ParseDirWith(files, strict) ==
    LET parsed == [i \in DOMAIN files |-> parseFile(files[i], strict)]
    IN [ok |-> \A i \in DOMAIN files : parsed[i].ok,
        net |-> FoldLeft(LAMBDA np, f : mergeConfig(np, f.net), NoDevices, parsed)]

\* The kernel name of an ethernet ID after set-name.
ethernetName(np, id) ==
    IF id \in DOMAIN np.ethernets /\ np.ethernets[id].match # "none" /\ np.ethernets[id].set # "-"
    THEN np.ethernets[id].set ELSE id

\* The provision tunnel is the first VXLAN tunnel with a VNI, and all its settings.
extractTunnels(np, c) ==
    LET t == FirstWith(np.tunnels, LAMBDA n : np.tunnels[n].vxlan /\ np.tunnels[n].id # "-")
        hint == FirstWith(np.tunnels, LAMBDA n : np.tunnels[n].vxlan /\ np.tunnels[n].local # "-")
    IN CASE t # "-" -> [c EXCEPT !.vxname = t, !.vni = np.tunnels[t].id, !.underlay = np.tunnels[t].local,
                                 !.vxlink = ethernetName(np, np.tunnels[t].link), !.vxdev = t]
         [] t = "-" /\ hint # "-" -> [c EXCEPT !.underlay = np.tunnels[hint].local]
         [] OTHER -> c

\* The first /32 of a dummy is the underlay address, when no tunnel gives one.
extractDummyDevices(np, c) ==
    LET first == FirstWith(np.dummies, LAMBDA n : np.dummies[n].ip # "-")
        ip == IF c.underlay # "-" \/ first = "-" THEN c.underlay ELSE np.dummies[first].ip
    IN [c EXCEPT !.underlay = ip,
                 !.dummy = IF ip = "-" THEN "-" ELSE FirstWith(np.dummies, LAMBDA n : np.dummies[n].ip = ip)]

BridgeNameOrDefault(c) == Or(c.bridge, "br.provision")

\* The provision bridge is the first one with a VXLAN port and an address, else
\* the first one with a VXLAN port.
extractBridges(np, c) ==
    LET hasVXLAN(n) == np.bridges[n].ports \cap DOMAIN np.tunnels # {}
        addressed == FirstWith(np.bridges, LAMBDA n : hasVXLAN(n) /\ np.bridges[n].addr # NoIP)
        b == [c EXCEPT !.bridge = Or(addressed, FirstWith(np.bridges, hasVXLAN)),
                       !.provIP = IF addressed = "-" THEN NoIP ELSE np.bridges[addressed].addr]
        own == BridgeNameOrDefault(b)
    IN IF own \notin DOMAIN np.bridges THEN b
       ELSE [b EXCEPT !.bmac = IF np.bridges[own].mac THEN own ELSE "-", !.brdev = own]

ethernetStaticIface(id, eth) ==
    CASE eth.match = "none" -> id
      [] eth.match # "none" /\ eth.set # "-" -> eth.set
      [] eth.match = "name" /\ eth.set = "-" -> eth.nic
      [] OTHER -> "-"

\* The first address is the static one, with its NIC or the match that selects it.
applyEthernetMatch(id, eth, c) ==
    LET renamed == IF eth.match # "none" /\ eth.set # "-" THEN [c EXCEPT !.renames = @ \cup {eth.set}] ELSE c
        iface == ethernetStaticIface(id, eth)
    IN IF c.ip # "-" \/ ~eth.addr THEN renamed
       ELSE [renamed EXCEPT !.ip = id, !.iface = iface,
                            !.match = IF iface = "-" THEN id ELSE "-"]

applyEthernetFlags(np, id, eth, c) ==
    [c EXCEPT !.noRA = IF "noRA" \in eth.flags THEN @ \cup {ethernetName(np, id)} ELSE @,
              !.lldp = IF "lldp" \in eth.flags /\ ~(eth.match # "none" /\ eth.set = "-")
                       THEN @ \cup {ethernetName(np, id)} ELSE @,
              !.lldpMatches = IF "lldp" \in eth.flags /\ eth.match # "none" /\ eth.set = "-"
                              THEN @ \cup {id} ELSE @,
              !.auto = @ \/ "ll6" \in eth.flags,
              !.dns = @ \cup eth.dns]

extractEthernets(np, c) ==
    LET add(d, id) ==
            LET eth == np.ethernets[id]
                e == applyEthernetFlags(np, id, eth, d)
                m == applyEthernetMatch(id, eth, e)
            IN IF id = "lo" /\ eth.match = "none"
               THEN [e EXCEPT !.loop = IF eth.addr THEN @ \cup {id} ELSE @]
               ELSE [m EXCEPT !.names = IF eth.match = "none" THEN @ \cup {id} ELSE @,
                              !.sgw = Or(@, eth.gw), !.mtu = Max({@, eth.mtu})]
    IN FoldLeft(add, c, InOrder(np.ethernets))

extractVLANs(np, c) ==
    [c EXCEPT !.vlans = {[id |-> n, parent |-> ethernetName(np, np.vlans[n].link), addr |-> np.vlans[n].addr,
                          gw |-> np.vlans[n].gw] : n \in DOMAIN np.vlans}]

\* The first bond with members; its address replaces the one of an ethernet.
extractBonds(np, c) ==
    LET b == FirstWith(np.bonds, LAMBDA n : np.bonds[n].members # {})
    IN IF b = "-" THEN c
       ELSE [c EXCEPT !.bond = b, !.bondMode = np.bonds[b].mode, !.mtu = Max({@, np.bonds[b].mtu}),
                      !.ip = IF np.bonds[b].addr THEN "bond0" ELSE @,
                      !.iface = IF np.bonds[b].addr THEN "bond0" ELSE @]

extractVRFs(np, c) ==
    LET tabled == FirstWith(np.vrfs, LAMBDA n : np.vrfs[n].table # "-")
        owners == SelectSeq(InOrder(np.vrfs), LAMBDA n : c.bridge # "-" /\ c.bridge \in np.vrfs[n].ports)
        withTable == SelectSeq(owners, LAMBDA n : np.vrfs[n].table # "-")
    IN [c EXCEPT !.ovrfSet = c.bridge # "-" /\ DOMAIN np.vrfs # {},
                 !.vrf = tabled, !.table = IF tabled = "-" THEN "-" ELSE np.vrfs[tabled].table,
                 !.ovrf = IF owners = <<>> THEN "-" ELSE Last(owners),
                 !.otable = IF withTable = <<>> THEN "-" ELSE np.vrfs[Last(withTable)].table]

(* ------------------------ what frr.conf gives --------------------------- *)

routerVRF(r) == IF r.vrf = "default" THEN "" ELSE r.vrf
AFSets(r, fam) == IF fam \in DOMAIN r.afs THEN r.afs[fam].sets ELSE {}
\* The VRF that frr.conf maps the VNI to: its first and its last "vni" line.
MappedVRFs(m, vni_) == SelectSeq(m.vnis, LAMBDA v : v.vni = vni_)
RoutersOf(m, vrf) == SelectSeq(m.routers, LAMBDA r : routerVRF(r) = vrf)

\* "route-target import|export|both" of the VRF's routers, else FRR's automatic one.
l3vniRouteTargets(m, vni_, direction) ==
    LET rs == RoutersOf(m, MappedVRFs(m, vni_)[1].vrf)
        rts == UNION {{s[3] : s \in {x \in AFSets(rs[i], "evpn") :
                              x[1] = "route-target" /\ x[2] \in {direction, "both"}}} : i \in DOMAIN rs}
        asn == CASE rs # <<>> -> Last(rs).asn
                 [] rs = <<>> /\ m.routers # <<>> -> m.routers[1].asn
                 [] OTHER -> "0"
    IN IF MappedVRFs(m, vni_) = <<>> THEN {}
       ELSE IF rts = {} THEN {<<asn, vni_>>} ELSE {<<rt>> : rt \in rts}

\* The instances of bgpd in the order of the file.
Instances(m) == FoldLeft(LAMBDA seen, r : IF Contains(seen, routerVRF(r)) THEN seen
                                          ELSE Append(seen, routerVRF(r)), <<>>, m.routers)
Position(seq, x) == Max({i \in DOMAIN seq : seq[i] = x} \cup {0})

l3vniRD(m, vni_) ==
    LET mapped == MappedVRFs(m, vni_)
        seen == Instances(m)
        vrf == IF mapped = <<>> THEN "" ELSE Last(mapped).vrf
        at == Position(seen, vrf)
        rds == UNION {{s[3] : s \in {x \in AFSets(r, "evpn") : x[1] = "rd"}} : r \in Range(RoutersOf(m, vrf))}
        created == mapped # <<>> /\ at = 0
    IN [rd |-> IF mapped = <<>> \/ rds = {} THEN "-" ELSE CHOOSE d \in rds : TRUE,
        index |-> CASE created -> Len(seen) + 1 [] mapped # <<>> /\ ~created -> at [] OTHER -> Max({at, 1}),
        instances |-> IF created THEN Len(seen) + 1 ELSE Len(seen)]

advertisedAFIs(r) == {s[3] : s \in {x \in AFSets(r, "evpn") : x[1] = "advertise"}}

type5Networks(m, vni_) ==
    LET mapped == MappedVRFs(m, vni_)
        rs == RoutersOf(m, mapped[1].vrf)
        nets(r, fam) == {s[3] : s \in {x \in AFSets(r, fam) : x[1] = "network"}}
    IN IF mapped = <<>> THEN {}
       ELSE UNION {UNION {nets(rs[i], fam) : fam \in advertisedAFIs(rs[i])} : i \in DOMAIN rs}

\* addPeers: the interface peers and the addresses with a remote-as of their own.
UnnumberedPeers(m) == UNION {{n \in Peers(r) : r.nbrs[n].iface} : r \in Range(m.routers)}
NumberedPeers(m) ==
    UNION {{n \in Peers(r) : ~r.nbrs[n].iface /\ r.nbrs[n].ras # "-" /\ IsAddr(n)} : r \in Range(m.routers)}

AnyRouter(m, P(_)) == \E r \in Range(m.routers) : P(r)
AdvertiseAllVNI(m) == AnyRouter(m, LAMBDA r : \E s \in AFSets(r, "evpn") : s[1] = "advertise-all-vni")
ResolveOverlayIndex(m) == AnyRouter(m, LAMBDA r : \E s \in AFSets(r, "evpn") : s[1] = "resolve")

\* An L3VNI gets only Type-5 routes, with the targets and networks of its VRF.
applyEVPNMode(m, c) ==
    LET rd == l3vniRD(m, c.vni)
        base == [c EXCEPT !.resolve = ResolveOverlayIndex(m), !.rdIndex = rd.index, !.instances = rd.instances]
    IN IF c.vni # "-" /\ c.vni \in c.l3vnis
       THEN [base EXCEPT !.t5 = TRUE, !.nets = type5Networks(m, c.vni), !.rd = rd.rd,
                         !.imp = l3vniRouteTargets(m, c.vni, "import"),
                         !.exp = l3vniRouteTargets(m, c.vni, "export")]
       ELSE [base EXCEPT !.l2 = AdvertiseAllVNI(m)]

applyFRRParams(m, c) ==
    LET unnumbered == UnnumberedPeers(m)
        numbered == NumberedPeers(m)
        d == [c EXCEPT !.asn = IF m.routers = <<>> THEN @ ELSE m.routers[1].asn,
                       !.underlay = Or(@, IF AnyRouter(m, LAMBDA r : "router-id" \in r.sets) THEN "rid" ELSE "-"),
                       !.l3vnis = {m.vnis[i].vni : i \in DOMAIN m.vnis}, !.black = m.statics,
                       !.defaults = m.defaults, !.sessions = Sessions(m).list,
                       !.relax = AnyRouter(m, LAMBDA r : "relax" \in r.sets),
                       !.rmaps = IF m.rms = {} THEN "-" ELSE "file",
                       !.clists = IF m.cls = {} THEN "-" ELSE "file"]
    IN [applyEVPNMode(m, d) EXCEPT
          !.names = @ \cup unnumbered,
          !.peerMode = CASE unnumbered # {} /\ numbered # {} -> "dual"
                         [] unnumbered # {} /\ numbered = {} -> "unnumbered"
                         [] unnumbered = {} /\ numbered # {} -> "numbered"
                         [] OTHER -> "-",
          !.nbrs = IF numbered # {} THEN "file" ELSE "-"]

ToNetworkConfig(np, hasFrr, m) ==
    LET devices == extractVRFs(np, extractBonds(np, extractVLANs(np, extractEthernets(np,
                       extractBridges(np, extractDummyDevices(np, extractTunnels(np, NoNetwork)))))))
        withMode(c) == [c EXCEPT !.mode = IF c.asn # "-" /\ c.vni # "-" THEN "gobgp" ELSE "-"]
    IN withMode(IF hasFrr THEN applyFRRParams(m, devices) ELSE devices)

(* ------------------------------- merging -------------------------------- *)

OrSet(a, b) == IF a # {} THEN a ELSE b

\* The vars address stays when the detected one is the same as a host prefix.
mergeProvisionIP(existing, detected) ==
    CASE detected = NoIP -> existing
      [] detected # NoIP /\ existing[1] = detected[1] /\ detected[2] = 32 /\ existing[2] < 32 -> existing
      [] OTHER -> detected

\* Decides with the merged VNI, which may come from the vars.
mergeInferredEVPNMode(dst, src) ==
    CASE dst.vni \in src.l3vnis ->
           [dst EXCEPT !.t5 = @ \/ (~dst.t5set /\ ~dst.l2 /\ dst.gateway = "-")]
      [] OTHER -> [dst EXCEPT !.l2 = @ \/ (src.l2 /\ ~dst.t5), !.resolve = @ \/ src.resolve]

\* A native list of either direction replaces both lists of route targets.
mergeBGPPolicy(dst, src) ==
    LET own == dst.imp # {} \/ dst.exp # {}
    IN [dst EXCEPT !.rmaps = Or(@, src.rmaps), !.clists = Or(@, src.clists),
                   !.imp = IF own THEN @ ELSE src.imp, !.exp = IF own THEN @ ELSE src.exp,
                   !.rd = Or(@, src.rd), !.rdIndex = src.rdIndex, !.instances = src.instances]

mergeOverlayDevices(dst, src) == [dst EXCEPT !.vxdev = Or(@, src.vxdev), !.brdev = Or(@, src.brdev)]

\* Keys of earlier releases: the parsed value wins.  An address brings its NIC,
\* numbered peers bring their AS.
ParsedWins(dst, src) ==
    [dst EXCEPT !.asn = Or(src.asn, @), !.vni = Or(src.vni, @), !.underlay = Or(src.underlay, @),
                !.provIP = mergeProvisionIP(@, src.provIP), !.mode = Or(src.mode, @),
                !.peerMode = Or(src.peerMode, @), !.nbrs = Or(src.nbrs, @),
                !.ras = IF src.nbrs # "-" THEN src.ras ELSE @,
                !.bond = Or(src.bond, @), !.bondMode = Or(src.bondMode, @),
                !.table = Or(src.table, @), !.vrf = Or(src.vrf, @), !.dns = OrSet(src.dns, @),
                !.ip = Or(src.ip, @), !.iface = IF src.ip # "-" THEN src.iface ELSE @,
                !.match = IF src.ip # "-" THEN src.match ELSE @,
                !.renames = OrSet(src.renames, @), !.names = OrSet(src.names, @), !.sgw = Or(src.sgw, @),
                !.vlans = OrSet(src.vlans, @), !.auto = src.auto \/ @,
                !.relax = IF src.sessions # {} THEN src.relax ELSE @,
                !.sessions = OrSet(src.sessions, @), !.defaults = Or(src.defaults, @)]

\* Keys that this release adds: the native value wins.
NativeWins(dst, src) ==
    [dst EXCEPT !.bridge = Or(@, src.bridge), !.otable = Or(@, src.otable), !.dummy = Or(@, src.dummy),
                !.vxlink = Or(@, src.vxlink), !.vxname = Or(@, src.vxname), !.loop = OrSet(@, src.loop),
                !.black = OrSet(@, src.black), !.nets = OrSet(@, src.nets),
                !.mtu = IF @ = 0 THEN src.mtu ELSE @, !.noRA = OrSet(@, src.noRA),
                !.lldp = OrSet(@, src.lldp), !.lldpMatches = IF dst.lldp = {} THEN src.lldpMatches ELSE @,
                !.ovrf = IF dst.ovrfSet THEN @ ELSE src.ovrf, !.ovrfSet = @ \/ src.ovrfSet]

\* Mutant of mergeNetplanConfig: the interface is kept when netplan gives none.
mergeNetplanConfig_KeepIface(dst, src) ==
    LET c == NativeWins(ParsedWins(dst, src), src)
        i == [c EXCEPT !.iface = IF src.iface # "-" THEN src.iface ELSE dst.iface]
        m == [i EXCEPT !.bmac = IF BridgeNameOrDefault(src) = BridgeNameOrDefault(c) THEN Or(@, src.bmac) ELSE @]
    IN mergeOverlayDevices(mergeBGPPolicy(mergeInferredEVPNMode(m, src), src), src)

\* The MAC is taken only for the bridge that has it in netplan.
mergeNetplanConfig(dst, src) ==
    LET c == NativeWins(ParsedWins(dst, src), src)
        m == [c EXCEPT !.bmac = IF BridgeNameOrDefault(src) = BridgeNameOrDefault(c) THEN Or(@, src.bmac) ELSE @]
    IN mergeOverlayDevices(mergeBGPPolicy(mergeInferredEVPNMode(m, src), src), src)

(* -------------------- native sessions and options ----------------------- *)

keepFastExternalFailover(native, parsed) ==
    {IF \E q \in parsed : ~q.failover /\ q.vrf = s.vrf THEN [s EXCEPT !.failover = FALSE] ELSE s : s \in native}

\* The native profiles replace the ones of frr.conf, also for its sessions.
applyNativeBFDProfiles(b, c) ==
    IF DOMAIN b.profiles = {} THEN c
    ELSE [c EXCEPT !.sessions = {IF s.bfd.on THEN [s EXCEPT !.bfd.timers = BFDTimers(b, s.bfd.prof)] ELSE s : s \in @}]

\* Mutant of applyNativeSessions: the native list drops the flag of frr.conf.
applyNativeSessions_Drops(b, c) ==
    LET set == "failover" \in DOMAIN b.flags
        d == IF ~set THEN c
             ELSE [c EXCEPT !.failover = IF b.flags.failover THEN "on" ELSE "off",
                            !.sessions = {[s EXCEPT !.failover = b.flags.failover] : s \in @}]
        native == ResolveSessions([b EXCEPT !.asn = c.asn])
    IN IF b.sessions = <<>> THEN [ok |-> TRUE, c |-> applyNativeBFDProfiles(b, d)]
       ELSE [ok |-> native.ok, c |-> [d EXCEPT !.sessions = native.list]]

\* A native list replaces the sessions of frr.conf.  b.flags holds the router
\* options that are set.
applyNativeSessions(b, c) ==
    LET set == "failover" \in DOMAIN b.flags
        d == IF ~set THEN c
             ELSE [c EXCEPT !.failover = IF b.flags.failover THEN "on" ELSE "off",
                            !.sessions = {[s EXCEPT !.failover = b.flags.failover] : s \in @}]
        native == ResolveSessions([b EXCEPT !.asn = c.asn])
    IN IF b.sessions = <<>> THEN [ok |-> TRUE, c |-> applyNativeBFDProfiles(b, d)]
       ELSE [ok |-> native.ok,
             c |-> [d EXCEPT !.sessions = IF set THEN native.list
                                          ELSE keepFastExternalFailover(native.list, d.sessions)]]

\* The route-maps of every family; an unset direction keeps the one of the session.
explicitRouteMaps(s, b) ==
    [fam \in s.families |-> LET old == Entry(s.rms, fam, [in |-> "-", out |-> "-"])
                            IN [in |-> Or(b.rmIn, old.in), out |-> Or(b.rmOut, old.out)]]

sessionOptions(b, s) ==
    [s EXCEPT !.policy = IF "policy" \in DOMAIN b.flags THEN b.flags.policy ELSE @,
              !.allow = IF b.allow >= 0 /\ @ = 0 THEN b.allow ELSE @,
              !.connect = IF b.connect # "-" /\ ~s.connectSet THEN b.connect ELSE @,
              !.connectSet = @ \/ b.connect # "-",
              !.las = IF b.las # "-" /\ ~s.internal /\ @ = "-" THEN b.las ELSE @,
              !.vrf = IF b.nvrf # "-" /\ ~s.iface /\ @ = "" THEN b.nvrf ELSE @,
              !.rms = IF b.rmIn # "-" \/ b.rmOut # "-" THEN explicitRouteMaps(s, b) ELSE @,
              !.bfd.timers = IF s.bfd.on /\ b.bfdTx # "-" THEN b.bfdTx ELSE @]

applyBGPOptions(b, c) ==
    [c EXCEPT !.install = CASE b.install # "-" -> b.install = "on" [] OTHER -> c.sessions # {},
              !.relax = IF b.relax # "-" THEN b.relax = "on" ELSE @,
              !.defaults = Or(Or(b.defaults, @), "datacenter"),
              !.allow = IF b.allow >= 0 THEN b.allow ELSE @,
              !.sessions = {sessionOptions(b, s) : s \in @}]

(* ------------------------- the GoBGP configuration ---------------------- *)

overlayVRFName(c) == IF c.ovrfSet THEN c.ovrf ELSE c.vrf

\* DeriveAddresses: the underlay address as configured, else the host part of the
\* IPMI address in the underlay subnet.  The IPMI address is unknown ("-"), in its
\* subnet, or at an offset that the target subnet has no host for.
DeriveAddresses(c, ipmi) ==
    LET derived == (IF c.underlay = "-" THEN {"underlay"} ELSE {}) \cup ({"overlay"} \cap c.subnets)
    IN [ok |-> /\ c.underlay # "-" \/ ("underlay" \in c.subnets /\ ipmi # "-")
               /\ derived # {} => ipmi # "outside",
        ip |-> Or(c.underlay, "ipmi")]

\* The route distinguishers <<router ID, n>> of the L3 service and of an L2VNI.
evpnRDs(c, b) ==
    LET u == Or(b.nvrf, c.vrf)
        n == IF u # "-" /\ u # overlayVRFName(c) THEN 2 ELSE 1
        index == IF c.instances = 0 THEN n ELSE c.rdIndex
        instances == IF c.instances = 0 THEN n ELSE c.instances
    IN IF c.rd # "-" THEN [l3 |-> <<c.rd>>, l2 |-> <<c.rd>>]
       ELSE [l3 |-> <<c.underlay, index>>, l2 |-> <<c.underlay, instances + 1>>]

\* Table 1 conflicts with the default table and falls back like an unset one.
ApplyDefaults(c) ==
    LET table == IF c.table \in {"-", "1"} THEN "1000" ELSE c.table
    IN [c EXCEPT !.bridge = BridgeNameOrDefault(c), !.mtu = IF @ = 0 THEN 9000 ELSE @, !.table = table,
                 !.otable = IF @ \in {"-", "1"} THEN table ELSE @]

validateSessions(c) ==
    \A s \in c.sessions : /\ s.iface \/ IsAddr(s.name)
                          /\ s.timers \notin {"0 0", "1 2"}
                          /\ s.families # {}

validatePeerMode(c) ==
    IF c.sessions # {} THEN validateSessions(c)
    ELSE c.peerMode \in {"dual", "numbered"} => c.nbrs \notin {"-", "bad"}

\* Without a gateway there is no VXLAN data plane, except for Type-5 only.
validateOverlayProvisioning(c) ==
    /\ ~(c.l2 /\ c.t5)
    /\ c.gateway # "-" \/ c.t5
    /\ c.gateway # "bad"

minMTU == 626
validateProvisioning(c) == c.vni # "-" /\ validateOverlayProvisioning(c) /\ c.mtu >= minMTU

Validate(c) ==
    /\ c.asn # "-"
    /\ c.underlay \notin {"-", "bad"}
    /\ validatePeerMode(c)
    /\ <<"bad">> \notin c.imp \cup c.exp
    /\ validateProvisioning(c)

(* ----------------------------- the setup -------------------------------- *)

IsFRRMode(c) == (c.underlay # "-" \/ "underlay" \in c.subnets) /\ c.asn # "-"

\* What detectNetplanConfigWith reads: the native devices replace the files, and
\* without both frr.conf is not read.
Devices(in) ==
    IF in.files = "devices" THEN [ok |-> ~OddRoutes(in.devices), net |-> in.devices]
    ELSE ParseDirWith(in.netplan, in.netplanStrict)

\* The kernel name of the NIC that carries the address written at an ethernet or the bond.
NicOf(id) == IF id = "bond0" THEN id ELSE Devices(nin).net.ethernets[id].nic

\* ParseFRRConfigBytesWith: the model and its sessions, or an error.
FrrFile(in) ==
    LET line(r, f) ==
            LET skipped(q) == q.res = "unsupported" /\ ~in.frrStrict /\ firstWord(f) \notin blockOpeners
                read(q) == [ok |-> q.res = "ok" \/ skipped(q), p |-> q]
            IN IF ~r.ok THEN r ELSE read(statement(r.p, f))
        end(r) == [ok |-> r.ok /\ Sessions(r.p).ok, m |-> r.p]
    IN end(FoldLeft(line, [p |-> NewParser, ok |-> TRUE], in.frr))

ConfigInit ==
    /\ \E family \in NetInputs : nin \in family
    /\ nc = nin.vars /\ nsrc = NoNetwork /\ nfrr = NewParser
    /\ ncph = "detect"

ConfigFails == ncph' = "failed" /\ UNCHANGED <<nin, nsrc, nfrr, nc>>

DetectConfig ==
    /\ ncph = "detect"
    /\ LET np == Devices(nin)
           detected(file) ==
               /\ nfrr' = file.m
               /\ nsrc' = ToNetworkConfig(np.net, nin.hasFrr, nfrr')
               /\ ncph' = "merge" /\ UNCHANGED <<nin, nc>>
           read(file) == IF np.ok /\ file.ok THEN detected(file) ELSE ConfigFails
       IN IF nin.files = "none" THEN ncph' = "sessions" /\ UNCHANGED <<nin, nsrc, nfrr, nc>>
          ELSE read(IF nin.hasFrr THEN FrrFile(nin) ELSE [ok |-> TRUE, m |-> NewParser])

MergeConfig ==
    /\ ncph = "merge"
    /\ nc' = mergeNetplanConfig(nc, nsrc)
    /\ ncph' = "sessions" /\ UNCHANGED <<nin, nsrc, nfrr>>

ResolveNative ==
    /\ ncph = "sessions"
    /\ LET r == applyNativeSessions(nin.bgp, nc)
       IN IF ~r.ok THEN ConfigFails
          ELSE nc' = r.c /\ ncph' = "options" /\ UNCHANGED <<nin, nsrc, nfrr>>

\* applyBGPOptions and the VLANS variable, which replaces the netplan VLANs.
ApplyOptions ==
    /\ ncph = "options"
    /\ IF nin.vlanVars.bad THEN ConfigFails
       ELSE /\ nc' = [applyBGPOptions(nin.bgp, nc) EXCEPT !.vlans = OrSet(nin.vlanVars.list, @)]
            /\ ncph' = "links" /\ UNCHANGED <<nin, nsrc, nfrr>>

\* prepareLinkLayers: the match of the static address selects one NIC, or not;
\* without a NIC the first VLAN carries the address, else the bond, else the
\* first NIC that the mode finds.
ResolveLinks ==
    /\ ncph = "links"
    /\ \E resolved \in BOOLEAN :
         LET byMatch == IF nc.iface = "-" /\ nc.match # "-" /\ resolved THEN NicOf(nc.match) ELSE nc.iface
             first == SelectSeq(DeviceOrder, LAMBDA n : \E v \in nc.vlans : v.id = n)
         IN nc' = [nc EXCEPT !.iface = CASE byMatch = "-" /\ nc.vlans # {} -> Head(first)
                                         [] byMatch = "-" /\ nc.vlans = {} /\ nc.bond # "-" -> "bond0"
                                         [] OTHER -> byMatch]
    /\ ncph' = "mode" /\ UNCHANGED <<nin, nsrc, nfrr>>

SelectMode ==
    /\ ncph = "mode"
    /\ ncph' = CASE nc.mode = "links" -> "links mode"
                 [] nc.mode = "gobgp" -> "gobgp"
                 [] nc.mode \notin {"links", "gobgp"} /\ IsFRRMode(nc) -> "frr"
                 [] nc.mode \notin {"links", "gobgp"} /\ ~IsFRRMode(nc) /\ nc.ip # "-" -> "static"
                 [] OTHER -> "dhcp"
    /\ UNCHANGED <<nin, nsrc, nfrr, nc>>

\* detectIPMI may find the address of the BMC.
NewConfig ==
    /\ ncph = "gobgp"
    /\ \E ipmi \in (IF nc.subnets = {} THEN {"-"} ELSE {"-", "inside", "outside"}) :
         LET addrs == DeriveAddresses(nc, ipmi)
             c == [ApplyDefaults(nc) EXCEPT !.underlay = addrs.ip]
         IN IF addrs.ok /\ Validate(c)
            THEN /\ nc' = [c EXCEPT !.rds = evpnRDs(c, nin.bgp)]
                 /\ ncph' = "gobgp up" /\ UNCHANGED <<nin, nsrc, nfrr>>
            ELSE ConfigFails

ConfigNext == DetectConfig \/ MergeConfig \/ ResolveNative \/ ApplyOptions \/ ResolveLinks \/ SelectMode \/ NewConfig
ConfigSpec == ConfigInit /\ [][ConfigNext]_ncVars

Configured == ncph \in {"links mode", "gobgp", "gobgp up", "frr", "static", "dhcp"}
Merged == nin.files # "none"
ParsedFrr == Merged /\ nin.hasFrr
\* What carries an address without a NIC.
LinkLayers == {"-", "bond0"} \cup {v.id : v \in nc.vlans}

\* Values that belong together come from one input, whichever inputs are there
\* (mergeNetplanConfig): the static address stays on the NIC it is written at, or
\* waits for the match that selects it; numbered peers of frr.conf never get the
\* remote AS of the vars; the MAC is the one of the bridge in use; the route
\* targets and networks of frr.conf are those of the VRF of the VNI in use; and
\* an inferred EVPN service never contradicts a configured one; and the derived
\* route distinguishers of the L2 and the L3 service differ (evpnRDs).
MergeIsCoherent ==
    Configured =>
        /\ nc.ip \notin {"-", "vars"} => \/ nc.iface = NicOf(nc.ip)
                                         \/ nc.match = nc.ip /\ nc.iface \in LinkLayers
        /\ nc.ip = "vars" => nc.iface \in {nin.vars.iface} \cup LinkLayers
        /\ nc.nbrs = "file" => nc.ras # "vars"
        /\ nc.bmac \notin {"-", "vars"} => nc.bmac = BridgeNameOrDefault(nc)
        /\ ParsedFrr /\ nc.imp # {} /\ nin.vars.imp = {} =>
               nc.imp = l3vniRouteTargets(nfrr, nc.vni, "import")
        /\ ParsedFrr /\ nc.nets # {} /\ nin.vars.nets = {} => nc.nets = type5Networks(nfrr, nc.vni)
        /\ nc.l2 /\ nc.t5 => nin.vars.l2 /\ nin.vars.t5
        /\ nin.vars.t5set => nc.t5 = nin.vars.t5
        /\ ncph = "gobgp up" /\ nc.rd = "-" => nc.rds.l3 # nc.rds.l2

\* The defaults of a profile, the table of docs/networking.md:836-845 and
\* docs/configuration.md:390, 413: keepalive and hold, connect retry, and
\* ebgp-requires-policy.
ProfileDefaults ==
    [traditional |-> [timers |-> "60 180", connect |-> "30", policy |-> TRUE],
     datacenter |-> [timers |-> "3 9", connect |-> "10", policy |-> FALSE]]

\* The router of frr.conf in the VRF of session o, and what the file, or the
\* native list, writes at the session and at its peer-group.
FileRouter(o, parsed) ==
    CHOOSE x \in Range(parsed.routers) : routerVRF(x) = o.vrf /\ o.name \in Peers(x)
WrittenAt(o, b, parsed) ==
    IF b.sessions = <<>>
    THEN LET r == FileRouter(o, parsed)
             n == r.nbrs[o.name]
         IN [own |-> n, group |-> IF n.group = "-" THEN n ELSE r.nbrs[n.group]]
    ELSE LET n == CHOOSE x \in Range(b.sessions) : x.name = o.name /\ x.vrf = o.vrf
         IN [own |-> n, group |-> IF n.group = "-" THEN n ELSE b.groups[n.group]]

\* The session that the docs give for a session o of the file or of the native
\* list: what the session leaves open has the default of the profile of its own
\* source; a native router flag wins over a line of frr.conf, and without one
\* frr.conf's fast-external-failover holds for the native sessions of its VRF; the
\* other options only fill what the session leaves open; BFD_TRANSMIT wins over
\* the native profiles, and those over frr.conf's.  On two points the docs
\* contradict each other, and this takes the one that the code follows:
\* OneTimerProfile and PolicyUnsetIsOn state the other one.
Documented(o, b, parsed) ==
    LET native == b.sessions # <<>>
        fill(value, option) == IF option = "-" THEN value ELSE option
        profile == ProfileDefaults[Or(IF native THEN b.defaults ELSE parsed.defaults, "datacenter")]
        at == WrittenAt(o, b, parsed)
        connect == Or(at.own.connect, at.group.connect)
    IN [o EXCEPT
          !.timers = Or(Or(at.own.timers, at.group.timers), profile.timers),
          !.failover = CASE "failover" \in DOMAIN b.flags -> b.flags.failover
                         [] "failover" \notin DOMAIN b.flags /\ native ->
                              \A r \in Range(parsed.routers) :
                                  routerVRF(r) = o.vrf /\ Peers(r) # {} => Flag(r, "failover", TRUE)
                         [] OTHER -> Flag(FileRouter(o, parsed), "failover", TRUE),
          !.policy = CASE "policy" \in DOMAIN b.flags -> b.flags.policy
                       [] "policy" \notin DOMAIN b.flags /\ native -> profile.policy
                       [] OTHER -> Flag(FileRouter(o, parsed), "policy", profile.policy),
          !.allow = IF @ = 0 THEN Max({0, b.allow}) ELSE @,
          !.connect = Or(Or(connect, b.connect), profile.connect),
          !.connectSet = connect # "-" \/ b.connect # "-",
          !.las = IF o.internal THEN @ ELSE Or(@, b.las),
          !.vrf = IF @ = "" /\ ~o.iface THEN fill(@, b.nvrf) ELSE @,
          !.rms = [fam \in o.families |-> [in |-> fill(Entry(@, fam, NewAFNeighbor).in, b.rmIn),
                                          out |-> fill(Entry(@, fam, NewAFNeighbor).out, b.rmOut)]],
          !.bfd.timers = CASE o.bfd.on /\ b.bfdTx # "-" -> b.bfdTx
                           [] o.bfd.on /\ b.bfdTx = "-" /\ DOMAIN b.profiles # {} -> BFDTimers(b, o.bfd.prof)
                           [] OTHER -> @]

\* Whatever the order in which the merge, the native list and the options are
\* applied, every session ends as documented (applyNativeSessions,
\* applyBGPOptions).
SessionsAsDocumented ==
    Configured =>
        LET origin == IF nin.bgp.sessions # <<>> THEN ResolveSessions([nin.bgp EXCEPT !.asn = nc.asn]).list
                      ELSE Sessions(nfrr).list
        IN nc.sessions = {Documented(o, nin.bgp, nfrr) : o \in origin}

\* pkg/config/network.go:371-376: the policy of a session, when unset, "means on for
\* frr.conf and network.bgp.sessions sessions (unless frr.conf has "no bgp
\* ebgp-requires-policy")"; docs/networking.md:499 says the same (Config.session,
\* sessionOptions).
PolicyUnsetIsOn ==
    Configured /\ "policy" \notin DOMAIN nin.bgp.flags =>
        \A s \in nc.sessions :
            s.policy \/ \E r \in Range(nfrr.routers) : ~Flag(r, "policy", TRUE)

\* docs/networking.md: BGP_DEFAULTS, else the profile of frr.conf, is "the profile
\* of the timers" of the sessions (applyNativeSessions, ResolveSessions).
OneTimerProfile ==
    Configured => \A s \in nc.sessions : s.timers \in {"3 9", "60 180"} => s.timers = ProfileTimers(nc.defaults)
=============================================================================
