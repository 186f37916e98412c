----------------------------- MODULE MCNetwork -----------------------------
(***************************************************************************)
(* The network of the ramdisk for TLC: how its configuration is read and   *)
(* merged, how frr.conf is read, how the mode is set up and taken down,    *)
(* and the LLDP senders.  They share no state here; a behaviour moves one  *)
(* of them, the others stay where they start.                              *)
(***************************************************************************)
EXTENDS NetConfig, NetUp, LldpSend

VARIABLE focus

mcvars == <<ncVars, frrVars, nvars, lsvars, focus>>

-----------------------------------------------------------------------------
(* Lines of frr.conf: every block, and the statements that move a reader    *)
(* in or out of one, that a peer has of itself or of its group, or that     *)
(* only one of the two readers knows.                                       *)
Line(w) == [w |-> w, n |-> "-", k |-> "-", a |-> "-"]
La(w, n, a) == [w |-> w, n |-> n, k |-> "-", a |-> a]
Nb(n, k, a) == [w |-> "neighbor", n |-> n, k |-> k, a |-> a]
Af(fam) == La("address-family", "-", fam)
Rtr(vrf) == La("router", vrf, "65000")

MCFrrLines ==
    {Line(w) : w \in {"exit", "end", "bfd", "line", "maximum-paths", "unknown", "interface",
                      "redistribute", "exit-address-family", "advertise-all-vni", "log",
                      "exit-vrf", "exit-vni", "log-neighbor-changes"}}
    \cup {Af("ipv4"), Af("evpn"), Rtr(""), La("vrf", "red", "-"), La("vni", "-", "100"),
          La("vni", "prefix-routes-only", "100"), La("ip", "blackhole", "P"), La("ip", "via", "P"),
          La("network", "-", "P"), La("rd", "-", "1:1"), La("route-map", "M", "10"),
          La("set", "-", "x"), La("profile", "P", "-"), La("interval", "-", "50"),
          La("flag", "ipv4-unicast", "off"), La("flag", "failover", "off"), La("flag", "policy", "on"),
          La("community-list", "expanded", "-"), La("community-list", "C", "-"),
          La("defaults", "-", "traditional"), La("router-id", "-", "ok"), La("router-id", "-", "bad")}
    \cup {Nb("addr1", "remote-as", a) : a \in {"65000", "65001", "internal"}}
    \cup {Nb("addr1", "local-as", a) : a \in {"65001", "65000", "prepend"}}
    \cup {Nb("addr1", k, "-") : k \in {"activate", "allowas-in", "capability", "weight", "bfd", "soft",
                                       "description"}}
    \cup {Nb("addr1", "allowas-in", "5"), Nb("addr1", "rm-in", "M"), Nb("addr1", "timers", "10 30"),
          Nb("addr1", "connect", "7"), Nb("addr1", "member", "leaf"), Nb("leaf", "peer-group", "-"),
          Nb("leaf", "remote-as", "65001"), Nb("leaf", "bfd", "P"), Nb("leaf", "local-as", "65001"),
          Nb("leaf", "activate", "-"), Nb("leaf", "rm-in", "G"), Nb("leaf", "rm-out", "G"),
          Nb("leaf", "timers", "10 30")}
    \cup {Nb("swp1", "interface", a) : a \in {"leaf", "external", "v6only", "-"}}

MCFrrStarts ==
    LET peered == <<Rtr(""), Nb("leaf", "peer-group", "-"), Nb("addr1", "remote-as", "65001")>>
    IN  {<<>>, peered, Append(peered, Af("ipv4")), Append(peered, Af("evpn")),
         <<Line("bfd"), La("profile", "P", "-"), La("interval", "-", "50")>>}

-----------------------------------------------------------------------------
(* Netplan files.  An ethernet is matched by its own name, another one or a *)
(* glob, and may be renamed; a VXLAN has its VNI or not; a VRF holds the    *)
(* bridge of a VXLAN.                                                       *)
MCDeviceOrder ==
    <<"bond0", "br1", "br2", "dum", "eth0", "eth1", "lo", "vlan10", "vlan20", "vx1", "vx2", "vrf1", "vrf2">>

Eth(match, set, dev, addr, odd) ==
    [match |-> match, set |-> set, nic |-> dev, addr |-> addr, gw |-> IF addr THEN dev ELSE "-",
     oddRoute |-> odd, flags |-> IF addr THEN {"lldp"} ELSE {"ll6", "noRA"},
     dns |-> IF addr THEN {dev} ELSE {}, mtu |-> 1500]
Plain(odd) == [eth0 |-> Eth("none", "-", "eth0", TRUE, odd)]

Ethernets ==
    {Empty, Plain(FALSE)}
    \cup {[eth0 |-> e] : e \in {Eth("name", "-", "ens1", TRUE, FALSE), Eth("glob", "-", "ens1", TRUE, FALSE),
                                Eth("glob", "up0", "up0", TRUE, FALSE)}}
    \cup {[x \in {"eth0", y} |-> Eth("none", "-", x, x = y, FALSE)] : y \in {"lo", "eth1"}}

Bonds ==
    {Empty} \cup {[bond0 |-> [members |-> {"eth0"}, mode |-> "802.3ad", addr |-> a, mtu |-> 9000]] : a \in BOOLEAN}

VxLan(id, local, dev) == [vxlan |-> TRUE, id |-> id, local |-> local, link |-> dev]
OneVxLan == [vx1 |-> VxLan("100", "vx1", "eth0")]
Tunnels == {Empty, OneVxLan, [vx1 |-> VxLan("-", "vx1", "-"), vx2 |-> VxLan("200", "-", "-")]}
Bridges == {Empty, [br1 |-> [ports |-> {"vx1"}, addr |-> NoIP, mac |-> TRUE],
                    br2 |-> [ports |-> {"vx2", "vx1"}, addr |-> <<"A", 32>>, mac |-> TRUE]]}
Vrfs == {Empty, [vrf1 |-> [table |-> "10", ports |-> {"br1"}], vrf2 |-> [table |-> "1", ports |-> {"br2"}]]}
VlanTen(odd) == [vlan10 |-> [link |-> "eth0", addr |-> "A", gw |-> "G", oddRoute |-> odd]]

Net(e, b, t, br, v, vl) ==
    [ethernets |-> e, bonds |-> b, tunnels |-> t, bridges |-> br, vrfs |-> v,
     dummies |-> [dum |-> [ip |-> "dum"]], vlans |-> vl]
Only(kind, f) == [NoDevices EXCEPT ![kind] = f]
File(text, net) == [text |-> text, net |-> net]

NoBgp ==
    [asn |-> "-", defaults |-> "-", profiles |-> Empty, flags |-> Empty, groups |-> Empty, sessions |-> <<>>,
     install |-> "-", relax |-> "-", allow |-> -1, connect |-> "-", las |-> "-", nvrf |-> "-",
     rmIn |-> "-", rmOut |-> "-", bfdTx |-> "-"]

Input(files, netplan, frrFile, vars, bgp) ==
    [files |-> files, netplan |-> netplan, devices |-> NoDevices, netplanStrict |-> TRUE,
     hasFrr |-> frrFile # <<>>, frr |-> frrFile, frrStrict |-> TRUE, vars |-> vars, bgp |-> bgp,
     vlanVars |-> [bad |-> FALSE, list |-> {}]]

-----------------------------------------------------------------------------
(* The sets of inputs.  The devices of an EVPN fabric, with and without an  *)
(* frr.conf and vars that name other ones.                                  *)
Evpn == <<Rtr(""), La("router-id", "-", "ok"), Af("evpn"), Line("advertise-all-vni"), Line("resolve")>>
L3(vrf, id) ==
    <<La("vrf", vrf, "-"), La("vni", "-", id), Rtr(vrf), Af("evpn"), La("route-target", "import", vrf)>>
Advertised(vrf) == <<La("rd", "-", vrf), La("advertise", "-", "ipv4"), Af("ipv4"), La("network", "-", vrf)>>

EvpnFiles ==
    {<<>>, Evpn, <<Rtr(""), Nb("addr1", "remote-as", "65001")>> \o L3("red", "100") \o Advertised("red"),
     <<Rtr(""), Nb("swp1", "interface", "external")>> \o L3("red", "100") \o Advertised("red")
         \o L3("blue", "200"),
     <<La("vrf", "red", "-"), La("vni", "-", "200"), La("router", "-", "bad")>>}

VarSets ==
    {[NoNetwork EXCEPT !.asn = a, !.vni = v, !.underlay = "vars", !.mode = m, !.ip = i, !.iface = i,
                       !.bridge = b, !.bmac = IF b = "-" THEN "-" ELSE "vars", !.nbrs = i, !.ras = i,
                       !.peerMode = IF i = "-" THEN "-" ELSE "numbered", !.t5set = t # "unset", !.t5 = t = "on",
                       !.provIP = IF i = "-" THEN NoIP ELSE <<"A", 24>>] :
       a \in {"-", "65009"}, v \in {"-", "200"}, m \in {"-", "links"}, i \in {"-", "vars"},
       b \in {"-", "br1"}, t \in {"unset", "off", "on"}}
    \cup {[NoNetwork EXCEPT !.asn = "65009", !.vni = "200", !.underlay = "vars", !.mode = "gobgp",
                            !.gateway = "G", !.l2 = TRUE, !.nets = {"N"}, !.imp = {<<"I">>},
                            !.bmac = "vars", !.t5 = t, !.t5set = t] : t \in BOOLEAN}
    \cup {NoNetwork, [NoNetwork EXCEPT !.underlay = "vars", !.ip = "vars"]}

FabricInputs ==
    {Input("files", <<File("ok", Net(e, Empty, t, br, v, Empty))>>, frrFile, vars, NoBgp) :
       e \in {Plain(FALSE), Empty}, t \in Tunnels, br \in Bridges, v \in Vrfs,
       frrFile \in EvpnFiles, vars \in VarSets}

(* The NIC of the static address: ethernet, bond or VLAN, files or vars.    *)
StaticInputs ==
    {Input("files", <<File("ok", Net(e, b, OneVxLan, Empty, Empty, vl))>>, frrFile, vars, NoBgp) :
       e \in Ethernets, b \in Bonds, vl \in {Empty, VlanTen(FALSE)}, frrFile \in {<<>>, SubSeq(Evpn, 1, 2)},
       vars \in {NoNetwork, [NoNetwork EXCEPT !.ip = "vars"],
                 [NoNetwork EXCEPT !.ip = "vars", !.iface = "vars"]}}

(* Vars alone: the underlay address is given, or comes from a subnet.       *)
AddressInputs ==
    {Input("none", <<>>, <<>>, [NoNetwork EXCEPT !.asn = a, !.vni = "200", !.gateway = "G", !.mode = m,
                                                 !.underlay = u, !.subnets = s], NoBgp) :
       a \in {"-", "65009"}, m \in {"-", "gobgp"}, u \in {"-", "vars", "bad"},
       s \in SUBSET {"underlay", "overlay"}}

(* Files and vars with errors, strict and lenient.                          *)
ErrorInputs ==
    {[Input(fs, <<File(x, Only("ethernets", Plain(odd))), File(y, Only("vlans", VlanTen(odd)))>>, <<>>,
            NoNetwork, NoBgp)
        EXCEPT !.devices = Only("vlans", VlanTen(odd)), !.netplanStrict = s, !.vlanVars.bad = vb,
               !.vlanVars.list = vl] :
       fs \in {"none", "files", "devices"}, x \in {"ok", "unknownKey"}, odd \in BOOLEAN, s \in BOOLEAN,
       y \in {"ok", "badKey", "wrongType", "unknownKey"}, vb \in BOOLEAN,
       vl \in {{}, {[id |-> "vlan20", parent |-> "eth0", addr |-> "-", gw |-> "-"]}}}

(* Sessions of frr.conf and of BGP_SESSIONS, with the options on top.       *)
SessionFiles ==
    {<<La("defaults", "-", d), Line("bfd"), La("profile", "P", "-"), La("interval", "-", "50"), Rtr("")>>
       \o f \o <<Nb("addr1", "remote-as", "65001"), Nb("addr1", "bfd", "P"), Line("relax")>> \o p :
       d \in {"traditional", "datacenter"},
       f \in {<<>>, <<La("flag", "failover", "off")>>, <<La("flag", "policy", "off")>>},
       p \in {<<>>,
              <<Nb("addr1", "connect", "7"), Nb("addr1", "local-as", "65002"), Af("ipv4"),
                Nb("addr1", "rm-in", "M"), Nb("addr1", "allowas-in", "-")>>,
              <<Rtr("red"), Nb("swp1", "interface", "external"), La("flag", "failover", "off")>>,
              <<Line("unknown")>>}}

Ses(name, vrf, c) ==
    [name |-> name, vrf |-> vrf, iface |-> ~IsAddr(name), group |-> "-", ras |-> "65001", las |-> "-",
     bfd |-> TRUE, prof |-> "Q", timers |-> "-", connect |-> c, families |-> {"ipv4"}, allow |-> 0,
     rms |-> Empty]

Bgps ==
    {[NoBgp EXCEPT !.sessions = s, !.defaults = IF s = <<>> THEN "-" ELSE d, !.profiles = p, !.flags = f,
                   !.connect = o, !.las = IF o = "-" THEN "-" ELSE "65003", !.nvrf = nv,
                   !.allow = IF o = "-" THEN -1 ELSE 2, !.rmIn = rm, !.bfdTx = tx, !.relax = r] :
       s \in {<<>>, <<Ses("addr1", "", "-"), Ses("swp1", "red", "7")>>,
              <<[Ses("addr1", "", "-") EXCEPT !.las = "65000"]>>},
       d \in {"-", "traditional"}, p \in {Empty, [Q |-> "80"]},
       f \in {Empty, [failover |-> TRUE, policy |-> TRUE], [policy |-> FALSE]},
       o \in {"-", "20"}, nv \in {"-", "red"}, rm \in {"-", "R"}, tx \in {"-", "100"}, r \in {"-", "off"}}

SessionInputs ==
    {[Input("files", <<File("ok", Only("tunnels", OneVxLan))>>, frrFile, NoNetwork, b)
        EXCEPT !.frrStrict = FALSE] : frrFile \in SessionFiles, b \in Bgps}

MCNetInputs == {FabricInputs, StaticInputs, AddressInputs, ErrorInputs, SessionInputs}

-----------------------------------------------------------------------------
(* Setups of every mode, with what lies below it, with a DNS server that    *)
(* resolv.conf cannot take, and with the ways FRR may be started.           *)
NetJob(m, b, l, f) ==
    [mode |-> m, below |-> b, lldp |-> l, frr |-> f, payload |-> TRUE, vrf |-> TRUE, dns |-> "none",
     rounds |-> FALSE, legacy |-> FALSE, vni |-> TRUE]

MCNetJobs ==
    {NetJob("links", {"bond"}, TRUE, {}), NetJob("gobgp", {"bond", "vlan1"}, TRUE, {}),
     NetJob("static", {"bond", "vlan1", "vlan2"}, TRUE, {}), NetJob("static", {"vlan2"}, FALSE, {}),
     NetJob("dhcp", {"bond"}, TRUE, {}), [NetJob("static", {}, TRUE, {}) EXCEPT !.dns = "bad"],
     [NetJob("gobgp", {"vlan1"}, TRUE, {}) EXCEPT !.dns = "bad", !.rounds = TRUE],
     NetJob("frr", {}, TRUE, {"direct"}),
     [NetJob("frr", {"bond"}, FALSE, {"systemctl", "direct"}) EXCEPT !.legacy = TRUE],
     [NetJob("frr", {"vlan1"}, TRUE, {"frrinit"}) EXCEPT !.vrf = FALSE, !.rounds = TRUE, !.vni = FALSE],
     [NetJob("frr", {"bond"}, TRUE, {"direct"}) EXCEPT !.payload = FALSE],
     [NetJob("frr", {}, TRUE, {"systemctl"}) EXCEPT !.dns = "bad"]}

-----------------------------------------------------------------------------
(* A part that does not move has one initial state. *)
AtRest ==
    /\ focus # "frr" => lenient /\ frrAt = <<"config">>
    /\ focus # "lldp" => link = "down"

MCInit ==
    /\ focus \in {"config", "frr", "setup", "lldp"}
    /\ focus # "config" => nin = CHOOSE in \in ErrorInputs : in.files = "none"
    /\ focus # "setup" => nj = NetJob("dhcp", {"bond"}, TRUE, {})
    /\ FrrInit /\ NetInit /\ SendInit
    /\ AtRest
    /\ ConfigInit

MCNext ==
    /\ UNCHANGED focus
    /\ \/ focus = "config" /\ ConfigNext /\ UNCHANGED <<frrVars, nvars, lsvars>>
       \/ focus = "frr" /\ FrrNext /\ UNCHANGED <<ncVars, nvars, lsvars>>
       \/ focus = "setup" /\ NetNext /\ UNCHANGED <<ncVars, frrVars, lsvars>>
       \/ focus = "lldp" /\ SendNext /\ UNCHANGED <<ncVars, frrVars, nvars>>

(* The fairness of the LLDP senders. *)
MCFairness ==
    \A g \in Senders :
        /\ WF_lsvars(focus = "lldp" /\ watchCarrier(g))
        /\ WF_lsvars(focus = "lldp" /\ emitOn(g) /\ stateArrives(g))

MCSpec == MCInit /\ [][MCNext]_mcvars /\ MCFairness
=============================================================================
