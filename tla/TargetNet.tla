------------------------------ MODULE TargetNet ------------------------------
(***************************************************************************)
(* The network configuration that BOOTy leaves on the target: the checks   *)
(* of PERSIST_NETWORK when the configuration is loaded                     *)
(* (pkg/config/validate.go), the netplan file or networkd units of         *)
(* pkg/network/persist/persist.go, and the network part of the cloud-init  *)
(* seed (pkg/cloudinit), as NoCloud or as ConfigDrive.                     *)
(*                                                                         *)
(* A link is a sequence: <<"eth0">>, and <<"eth0", 10>> for VLAN 10 on it. *)
(* An address, a gateway or a DNS server is its IP family.  What a file    *)
(* configures is a set of link records, the same for every format.         *)
(***************************************************************************)
EXTENDS Integers, Sequences, FiniteSets, SequencesExt

CONSTANTS
    NetworkJobs,    \* the configurations
    OldUnits        \* sets of BOOTy units that the image may bring along

NoLink == <<>>
Bond0 == <<"bond0">>

ASSUME TargetNetAssumption ==
    \A j \in NetworkJobs :
        /\ DOMAIN j = {"family", "members", "mode", "ip", "gw", "iface", "vlans", "dns", "seed"}
        /\ j.family \in {"", "ubuntu", "flatcar", "rhel"}
        /\ j.seed \in {"off", "nocloud", "configdrive"}

VARIABLES
    nj,         \* the configuration
    nph,        \* the step, or how the run ended
    units,      \* the files of etc/systemd/network: function from file to content
    written,    \* files of the list that were written
    netplan,    \* links of the netplan file
    seed        \* links of the cloud-init seed

netVars == <<nj, nph, units, written, netplan, seed>>

(* A link as a configuration describes it. *)
Link(l, k, a, d, g, n) ==
    [link |-> l, kind |-> k, addr |-> a, dhcp |-> d, gw |-> g, dns |-> n,
     mode |-> "", master |-> NoLink, parent |-> NoLink]
Bare(l) == Link(l, "ethernet", "", FALSE, "", {})
vlanEffectiveName(v) == Append(v.parent, v.id)

(* Modes of a bond that the kernel, netplan and networkd know. *)
BondModes == {"802.3ad", "balance-rr", "active-backup", "balance-xor"}

-----------------------------------------------------------------------------
(* pkg/config/validate.go and the construction of the target network *)

validatePersistenceVLANConfig == \A i \in DOMAIN nj.vlans : nj.vlans[i].gw = ""

validatePersistence ==
    /\ nj.family # ""
    /\ nj.family # "rhel"
    /\ nj.ip # "" /\ nj.members = {} => nj.iface # NoLink
    /\ nj.iface # NoLink \/ nj.members # {} \/ nj.vlans # <<>>
    /\ nj.members # {} => nj.ip # "" \/ nj.vlans # <<>>
    /\ validatePersistenceVLANConfig

validateFlatcarCloudInit == nj.seed # "off" => nj.family # "flatcar"

(* A mode that is not known stays as it is written. *)
normalizePersistentBondMode(m) == IF m \in {"", "lacp"} THEN "802.3ad" ELSE m

(* addPersistentBond, addPersistentInterface: a bond comes instead of the interface. *)
addPersistentBond ==
    IF nj.members = {} THEN <<>>
    ELSE <<[name |-> Bond0, members |-> nj.members, addr |-> nj.ip,
            mode |-> normalizePersistentBondMode(nj.mode),
            gw |-> IF nj.ip = "" THEN "" ELSE nj.gw]>>

addPersistentInterface ==
    IF nj.members # {} \/ nj.iface = NoLink THEN <<>>
    ELSE <<[name |-> nj.iface, dhcp |-> nj.ip = "", addr |-> nj.ip,
            gw |-> IF nj.ip = "" THEN "" ELSE nj.gw]>>

addPersistentVLANs ==
    [i \in DOMAIN nj.vlans |->
        [parent |-> nj.vlans[i].parent, id |-> nj.vlans[i].id,
         dhcp |-> nj.vlans[i].addr = "", addr |-> nj.vlans[i].addr]]

targetNetworkConfig ==
    [ifaces |-> addPersistentInterface, bonds |-> addPersistentBond,
     vlans |-> addPersistentVLANs, dns |-> nj.dns]

validateBond(b) == Cardinality(b.members) >= 2

validateVLANs(c) ==
    \A i, k \in DOMAIN c.vlans :
        vlanEffectiveName(c.vlans[i]) = vlanEffectiveName(c.vlans[k]) => i = k

validateLogicalReferences(c) ==
    LET logical == {c.bonds[i].name : i \in DOMAIN c.bonds}
                    \cup {vlanEffectiveName(c.vlans[i]) : i \in DOMAIN c.vlans}
    IN \A i \in DOMAIN c.bonds : c.bonds[i].members \cap logical = {}

ValidateNetworkConfig(c) ==
    /\ \A i \in DOMAIN c.bonds : validateBond(c.bonds[i])
    /\ validateVLANs(c)
    /\ validateLogicalReferences(c)

-----------------------------------------------------------------------------
(* RenderNetplan: the DNS servers go to the first stanza *)

netplanBackingEthernets(c) ==
    LET explicit == {c.ifaces[i].name : i \in DOMAIN c.ifaces}
        logical == {c.bonds[i].name : i \in DOMAIN c.bonds}
                    \cup {vlanEffectiveName(c.vlans[i]) : i \in DOMAIN c.vlans}
        members == UNION {c.bonds[i].members : i \in DOMAIN c.bonds}
        parents == {c.vlans[i].parent : i \in DOMAIN c.vlans}
    IN (members \ explicit) \cup ((parents \ explicit) \ logical)

renderNetplanEthernets(c) ==
    {Link(c.ifaces[i].name, "ethernet", c.ifaces[i].addr, c.ifaces[i].dhcp, c.ifaces[i].gw,
          IF i = 1 THEN c.dns ELSE {}) : i \in DOMAIN c.ifaces}
    \cup {Bare(l) : l \in netplanBackingEthernets(c)}

renderNetplanBonds(c) ==
    {[Link(c.bonds[i].name, "bond", c.bonds[i].addr, FALSE, c.bonds[i].gw,
           IF c.ifaces = <<>> /\ i = 1 THEN c.dns ELSE {})
        EXCEPT !.mode = c.bonds[i].mode] : i \in DOMAIN c.bonds}

renderNetplanVLANs(c) ==
    {[Link(vlanEffectiveName(c.vlans[i]), "vlan", c.vlans[i].addr, c.vlans[i].dhcp, "",
           IF c.ifaces = <<>> /\ c.bonds = <<>> /\ i = 1 THEN c.dns ELSE {})
        EXCEPT !.parent = c.vlans[i].parent] : i \in DOMAIN c.vlans}

(* netplan enslaves the links that a bond lists.  It refuses a file that names a member or *)
(* a parent without a stanza of its own, or a bond mode that it does not know: then it     *)
(* configures nothing.                                                                     *)
NetplanApplies(stanzas, members) ==
    IF /\ members \cup {s.parent : s \in stanzas} \subseteq {NoLink} \cup {s.link : s \in stanzas}
       /\ {s.mode : s \in stanzas} \subseteq {""} \cup BondModes
    THEN {[s EXCEPT !.master = IF s.link \in members THEN Bond0 ELSE NoLink] : s \in stanzas}
    ELSE {}

RenderNetplan(c) ==
    NetplanApplies(renderNetplanEthernets(c) \cup renderNetplanBonds(c) \cup renderNetplanVLANs(c),
                   UNION {c.bonds[i].members : i \in DOMAIN c.bonds})

-----------------------------------------------------------------------------
(* writeNetworkd: the units, in the order in which they are written *)

File(l, suffix) == [name |-> l, suffix |-> suffix]
Port(l) == File(l, "port")              \* 10-booty-bond-<bond>-<member>.network
Foreign == File(<<"other">>, "foreign") \* a unit of the image itself
Unit(a, d, g, n, vs, m) ==
    [addr |-> a, dhcp |-> d, gw |-> g, dns |-> n, vlans |-> vs, master |-> m, kind |-> "network",
     mode |-> ""]
Netdev(k) == [Unit("", FALSE, "", {}, {}, NoLink) EXCEPT !.kind = k]

parentVLANMap(c, l) ==
    {vlanEffectiveName(c.vlans[i]) : i \in {k \in DOMAIN c.vlans : c.vlans[k].parent = l}}
Parents(c) == {c.vlans[i].parent : i \in DOMAIN c.vlans}

(* Whether the k-th link, in the order in which they are written, has an address or DHCP. *)
CanAttach(c, k) ==
    LET i == k - Len(c.ifaces)
        v == i - Len(c.bonds)
    IN CASE i <= 0 -> TRUE
         [] i > 0 /\ v <= 0 -> c.bonds[i].addr # ""
         [] OTHER -> c.vlans[v].dhcp \/ c.vlans[v].addr # ""

(* attachNetworkdPrimary: the first link that can have them gets the DNS servers. *)
attachNetworkdPrimary(c, k) ==
    IF CanAttach(c, k) /\ \A i \in 1..(k - 1) : ~CanAttach(c, i) THEN c.dns ELSE {}

writeNetworkdInterfaces(c) ==
    [i \in DOMAIN c.ifaces |->
        <<File(c.ifaces[i].name, "network"),
          Unit(c.ifaces[i].addr, c.ifaces[i].dhcp, c.ifaces[i].gw,
               attachNetworkdPrimary(c, i),
               parentVLANMap(c, c.ifaces[i].name), NoLink)>>]

writeNetworkdBond(c, b) ==
    <<<<File(b.name, "netdev"), [Netdev("bond") EXCEPT !.mode = b.mode]>>>>
    \o SetToSeq({<<Port(m), Unit("", FALSE, "", {}, {}, b.name)>> : m \in b.members})
    \o <<<<File(b.name, "network"),
           Unit(b.addr, FALSE, b.gw, attachNetworkdPrimary(c, Len(c.ifaces) + 1),
                parentVLANMap(c, b.name), NoLink)>>>>

(* the order of a Go map; each parent has a unit of its own *)
writeNetworkdParentLinks(c) ==
    LET handled == {c.ifaces[i].name : i \in DOMAIN c.ifaces} \cup {c.bonds[i].name : i \in DOMAIN c.bonds}
    IN SetToSeq({<<File(p, "network"), Unit("", FALSE, "", {}, parentVLANMap(c, p), NoLink)>> :
                    p \in Parents(c) \ handled})

writeNetworkdVLANs(c) ==
    FlattenSeq([i \in DOMAIN c.vlans |->
        <<<<File(vlanEffectiveName(c.vlans[i]), "netdev"), Netdev("vlan")>>,
          <<File(vlanEffectiveName(c.vlans[i]), "network"),
            Unit(c.vlans[i].addr, c.vlans[i].dhcp, "",
                 attachNetworkdPrimary(c, Len(c.ifaces) + Len(c.bonds) + i), {}, NoLink)>>>>])

writeNetworkd(c) ==
    writeNetworkdInterfaces(c)
    \o (IF c.bonds = <<>> THEN <<>> ELSE writeNetworkdBond(c, c.bonds[1]))
    \o writeNetworkdParentLinks(c) \o writeNetworkdVLANs(c)

(* Mutant of networkdKeepFiles: the units of VLAN parents are forgotten. *)
networkdKeepFiles_NoParents(c) ==
    {File(c.ifaces[i].name, "network") : i \in DOMAIN c.ifaces}
    \cup UNION {{File(c.bonds[i].name, "netdev"), File(c.bonds[i].name, "network")}
                \cup {Port(m) : m \in c.bonds[i].members} : i \in DOMAIN c.bonds}
    \cup UNION {{File(vlanEffectiveName(c.vlans[i]), "netdev"), File(vlanEffectiveName(c.vlans[i]), "network")} :
                i \in DOMAIN c.vlans}

(* networkdKeepFiles: computed from the configuration once more, not from what was written *)
networkdKeepFiles(c) ==
    {File(c.ifaces[i].name, "network") : i \in DOMAIN c.ifaces}
    \cup UNION {{File(c.bonds[i].name, "netdev"), File(c.bonds[i].name, "network")}
                \cup {Port(m) : m \in c.bonds[i].members} : i \in DOMAIN c.bonds}
    \cup {File(p, "network") : p \in Parents(c)}
    \cup UNION {{File(vlanEffectiveName(c.vlans[i]), "netdev"), File(vlanEffectiveName(c.vlans[i]), "network")} :
                i \in DOMAIN c.vlans}

isBootyNetworkdFile(f) == f.suffix \in {"network", "netdev", "port"}

-----------------------------------------------------------------------------
(* pkg/cloudinit: Generate, then one of the two seed formats *)

hasVLANParent(l) == \E i \in DOMAIN nj.vlans : nj.vlans[i].parent = l

(* The mode as it is configured: this path does not normalise it. *)
addBondConfig ==
    {[Link(Bond0, "bond", nj.ip, nj.ip = "" /\ ~hasVLANParent(Bond0),
           IF nj.ip = "" THEN "" ELSE nj.gw, nj.dns)
        EXCEPT !.mode = IF nj.mode = "" THEN "802.3ad" ELSE nj.mode]}

addEthernetConfig ==
    IF nj.ip # "" THEN {Link(nj.iface, "ethernet", nj.ip, FALSE, nj.gw, nj.dns)}
    ELSE IF nj.vlans = <<>> \/ nj.iface # NoLink
         THEN {Link(nj.iface, "ethernet", "", TRUE, "", {})} ELSE {}

addVLANConfigs(links) ==
    LET has == {l.link : l \in links}
    IN links
       \cup {Bare(nj.vlans[i].parent) : i \in {k \in DOMAIN nj.vlans : nj.vlans[k].parent \notin has}}
       \cup {[Link(vlanEffectiveName(nj.vlans[i]), "vlan", nj.vlans[i].addr, nj.vlans[i].addr = "",
                   IF nj.vlans[i].addr = "" THEN "" ELSE nj.vlans[i].gw, nj.dns)
                EXCEPT !.parent = nj.vlans[i].parent] : i \in DOMAIN nj.vlans}

generateNetworkConfig ==
    addVLANConfigs(IF nj.members # {} THEN addBondConfig ELSE addEthernetConfig)

(* NoCloud: the version 2 file goes to netplan as it is, without stanzas for the members. *)
InjectNoCloud == NetplanApplies(generateNetworkConfig, nj.members)

(* ConfigDrive: a link per bond member too, and a network per address, with the gateway of *)
(* its family only; the services are listed with each network.                            *)
appendBondNetworkData(links) == links \cup {Bare(m) : m \in nj.members \ {l.link : l \in links}}
staticNetworkForLink(l) == IF l.gw = l.addr THEN l.gw ELSE ""
configDriveNetworkData ==
    NetplanApplies({[l EXCEPT !.gw = staticNetworkForLink(l),
                              !.dns = IF l.addr # "" \/ l.dhcp THEN @ ELSE {}] :
                        l \in appendBondNetworkData(generateNetworkConfig)}, nj.members)

-----------------------------------------------------------------------------
(* The steps *)

TargetNetInit ==
    /\ nj \in NetworkJobs
    /\ nph = "load"
    /\ \E old \in OldUnits : units = [f \in old \cup {Foreign} |-> Unit("old", FALSE, "", {}, {}, NoLink)]
    /\ written = 0
    /\ netplan = {}
    /\ seed = {}

LoadNetwork ==
    /\ nph = "load"
    /\ nph' = IF validatePersistence /\ validateFlatcarCloudInit THEN "persist" ELSE "refused"
    /\ UNCHANGED <<nj, units, written, netplan, seed>>

writeNetplan ==
    /\ nph = "persist" /\ nj.family = "ubuntu"
    /\ LET c == targetNetworkConfig
       IN IF ValidateNetworkConfig(c) THEN netplan' = RenderNetplan(c) /\ nph' = "seed"
          ELSE nph' = "failed" /\ UNCHANGED netplan
    /\ UNCHANGED <<nj, units, written, seed>>

writeNetworkdFile ==
    /\ nph = "persist" /\ nj.family = "flatcar"
    /\ LET c == targetNetworkConfig
           ops == writeNetworkd(c)
       IN CASE ~ValidateNetworkConfig(c) -> nph' = "failed" /\ UNCHANGED <<units, written>>
            [] ValidateNetworkConfig(c) /\ written < Len(ops) ->
                /\ units' = [f \in DOMAIN units \cup {ops[written + 1][1]} |->
                                IF f = ops[written + 1][1] THEN ops[written + 1][2] ELSE units[f]]
                /\ written' = written + 1
                /\ UNCHANGED nph
            [] OTHER -> nph' = "prune" /\ UNCHANGED <<units, written>>
    /\ UNCHANGED <<nj, netplan, seed>>

removeStaleBootyFiles ==
    /\ nph = "prune"
    /\ LET stale == {f \in DOMAIN units : isBootyNetworkdFile(f)} \ networkdKeepFiles(targetNetworkConfig)
       IN units' = [f \in DOMAIN units \ stale |-> units[f]]
    /\ nph' = "seed"
    /\ UNCHANGED <<nj, written, netplan, seed>>

(* injectCloudInit *)
injectCloudInit ==
    /\ nph = "seed"
    /\ seed' = CASE nj.seed = "nocloud" -> InjectNoCloud
                 [] nj.seed = "configdrive" -> configDriveNetworkData
                 [] OTHER -> {}
    /\ nph' = "done"
    /\ UNCHANGED <<nj, units, written, netplan>>

TargetNetNext ==
    LoadNetwork \/ writeNetplan \/ writeNetworkdFile \/ removeStaleBootyFiles \/ injectCloudInit

TargetNetSpec == TargetNetInit /\ [][TargetNetNext]_netVars

-----------------------------------------------------------------------------
(* What systemd-networkd makes of the units: it applies the first unit that matches a link, *)
(* which for a member of a bond is its port unit.  It ignores a bond mode that it does not  *)
(* know, and the kernel's own default remains.                                              *)
Applied(l) ==
    IF Port(l) \in DOMAIN units THEN {units[Port(l)]}
    ELSE {units[f] : f \in {File(l, "network")} \cap DOMAIN units}
NetworkdApplies ==
    LET files == {f \in DOMAIN units : isBootyNetworkdFile(f)}
        links == {f.name : f \in files}
        kind(l) == IF File(l, "netdev") \in files THEN units[File(l, "netdev")].kind ELSE "ethernet"
        mode(l) == IF kind(l) # "bond" THEN ""
                   ELSE IF units[File(l, "netdev")].mode \in BondModes THEN units[File(l, "netdev")].mode
                   ELSE "balance-rr"
        over(l) == {p \in links : \E u \in Applied(p) : l \in u.vlans}
    IN {[link |-> l, kind |-> kind(l), addr |-> u.addr, dhcp |-> u.dhcp, gw |-> u.gw,
         dns |-> u.dns, mode |-> mode(l), master |-> u.master, parent |-> IF over(l) = {} THEN NoLink ELSE CHOOSE p \in over(l) : TRUE] :
            <<l, u>> \in {x \in links \X {units[f] : f \in files} : x[2] \in Applied(x[1])}}

(* The network that the configuration asks for, stated without the renderers. *)
(* The modes are those of docs/configuration.md:330: "lacp" is another name of 802.3ad, and *)
(* so is what no mode, or an unknown one, comes to.                                         *)
DocumentedMode == IF nj.mode \in BondModes THEN nj.mode ELSE "802.3ad"
Main == IF nj.members # {} THEN Bond0 ELSE nj.iface
Asked ==
    LET main == IF Main = NoLink THEN {}
                ELSE {[Link(Main, IF Main = Bond0 THEN "bond" ELSE "ethernet", nj.ip,
                            nj.ip = "" /\ nj.members = {}, IF nj.ip = "" THEN "" ELSE nj.gw, {})
                        EXCEPT !.mode = IF Main = Bond0 THEN DocumentedMode ELSE ""]}
        vlans == {[Link(Append(nj.vlans[i].parent, nj.vlans[i].id), "vlan", nj.vlans[i].addr,
                        nj.vlans[i].addr = "", "", {}) EXCEPT !.parent = nj.vlans[i].parent] :
                    i \in DOMAIN nj.vlans}
        ports == {[Bare(m) EXCEPT !.master = Bond0] : m \in nj.members}
        named == {l.link : l \in main \cup ports}
    IN main \cup vlans \cup ports
       \cup {Bare(nj.vlans[i].parent) : i \in {k \in DOMAIN nj.vlans : nj.vlans[k].parent \notin named}}

NoDNS(links) == {[l EXCEPT !.dns = {}] : l \in links}
UnusedBond == nj.members # {} /\ nj.ip = "" /\ ~\E i \in DOMAIN nj.vlans : nj.vlans[i].parent = Bond0
MixedFamilies == nj.ip # "" /\ nj.gw # "" /\ nj.ip # nj.gw
PersistedLinks == IF nj.family = "ubuntu" THEN netplan ELSE NetworkdApplies

(* Two spellings of the mode do not reach the target as documented, see BondModeAsDocumented: *)
(* an unknown one in any file, and "lacp" in the seed.                                        *)
KnownMode == nj.mode \in BondModes \cup {"", "lacp"}
SeedCompares ==
    \/ nj.seed = "nocloud" /\ nj.members = {}
    \/ nj.seed = "configdrive" /\ ~UnusedBond /\ ~MixedFamilies /\ KnownMode /\ nj.mode # "lacp"
NetFiles ==
    (IF KnownMode THEN {PersistedLinks} ELSE {}) \cup (IF SeedCompares THEN {seed} ELSE {})

(* Whatever format the target gets, and next to it the cloud-init seed, each of them brings up *)
(* the links that the configuration asks for, with their addresses, gateways, bond, its mode   *)
(* and VLANs, and no link of a unit that was there before.                                     *)
OneNetwork == nph = "done" => \A links \in NetFiles : NoDNS(links) = Asked

(* Every DNS server is on a link with an address or DHCP, so that the target can use it. *)
DnsIsUsable ==
    nph = "done" /\ ~(nj.family = "ubuntu" /\ nj.members # {} /\ nj.ip = "")
    => \A links \in NetFiles :
        \/ UNION {l.dns : l \in {x \in links : x.addr # "" \/ x.dhcp}} = nj.dns
        \/ nj.seed # "off" /\ links = seed /\ nj.ip = "" /\ nj.vlans = <<>>

(* The network of the installed system is the one that was asked for, and    *)
(* the names it needs resolve.                                               *)
TargetNetworkWorks == OneNetwork /\ DnsIsUsable

(* docs/configuration.md:330 gives the values of BOND_MODE: "`802.3ad`, `lacp`, `balance-rr`,  *)
(* `active-backup`, `balance-xor`", and "An unknown value logs a warning and uses `802.3ad`."  *)
(* Here: whatever the spelling, the persisted files and the ConfigDrive seed bring the bond up *)
(* in the mode that this means.                                                                *)
BondModeAsDocumented ==
    nph = "done" /\ nj.members # {}
    => \A links \in {PersistedLinks} \cup (IF nj.seed = "configdrive" THEN {seed} ELSE {}) :
        \E l \in links : l.kind = "bond" /\ l.mode = DocumentedMode
===============================================================================
