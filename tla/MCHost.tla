------------------------------- MODULE MCHost -------------------------------
(***************************************************************************)
(* Parts of the host for TLC that share no state: the partition layout,    *)
(* the files of the target system, its network configuration, the service  *)
(* that keeps its second ESP, the SR-IOV settings of the network cards and *)
(* the DHCP leases of the ramdisk.  A behaviour moves one of them, the     *)
(* others stay where they start.                                           *)
(***************************************************************************)
EXTENDS TargetFiles, EspSync, Sriov, Layout, TargetNet, Leases

VARIABLE focus

mcvars == <<tvars, evars, svars, layoutVars, netVars, lvars, focus>>

Job(d, u, g, m, v, e, r) ==
    [disk |-> d, uefi |-> u, grub |-> g, machine |-> m, vars |-> v, must |-> e, resume |-> r]

MCTargetJobs ==
    {Job("whole", TRUE, "append", {}, FALSE, FALSE, TRUE),
     Job("layout", TRUE, "resolved", {"kubelet"}, TRUE, TRUE, FALSE),
     Job("mirror", TRUE, "resolved", {}, TRUE, FALSE, TRUE),
     Job("mirror-boot", FALSE, "append", {"grub.d"}, FALSE, FALSE, TRUE),
     Job("mirror-boot", TRUE, "resolved", {}, TRUE, TRUE, TRUE),
     Job("ab", TRUE, "resolved", {"grub.d", "kubelet"}, TRUE, TRUE, TRUE)}

-----------------------------------------------------------------------------
(* Network cards and their profiles.  Two jobs have opposed profiles, and    *)
(* one device of two ports has its uplink on the second one.                *)
NoFw == [s \in Settings |-> Unset]
Full == [NoFw EXCEPT !["enabled"] = 1, !["maxVFs"] = 2, !["nv"] = 1]

Prof(ports, drift, fw, n, e, k) ==
    [ports |-> ports, drift |-> drift, fw |-> fw, vfs |-> n, eswitch |-> e, keep |-> k,
     optional |-> FALSE, connectX |-> TRUE]

Host(driver, shared, uplink, bonded, profiles) ==
    [driver |-> driver, shared |-> shared, uplink |-> uplink, bonded |-> bonded,
     profiles |-> profiles, tools |-> "opensource", locked |-> FALSE, verify |-> TRUE,
     url |-> TRUE, cold |-> FALSE, numVFs |-> 0, raise |-> FALSE]

MCSriovJobs ==
    LET both == {"p0", "p1"}
        only(s, v) == [NoFw EXCEPT ![s] = v]
    IN  {Host("mlx5_core", FALSE, {"p0"}, FALSE, <<Prof(both, "apply", Full, 2, "", FALSE)>>),
         Host("mlx5_core", FALSE, {"p0"}, TRUE,
              <<Prof({"p0"}, "warn", Full, 1, "switchdev", FALSE),
                Prof({"p1"}, "apply", Full, 1, "switchdev", TRUE)>>),
         [Host("mlx5_core", FALSE, {}, FALSE,
               <<Prof({"p0"}, "apply", only("maxVFs", 2), 2, "", FALSE),
                 Prof({"p1"}, "apply", [only("enabled", 0) EXCEPT !["param"] = 1], Unset, "", FALSE)>>)
            EXCEPT !.numVFs = 1],
         Host("mlx5_core", FALSE, {}, FALSE,
              <<Prof({"p0"}, "apply", Full, 1, "", FALSE),
                Prof({"p1"}, "apply", [Full EXCEPT !["maxVFs"] = 1], 1, "", FALSE)>>),
         [Host("mlx5_core", TRUE, {"p0"}, FALSE,
               <<Prof({"p0"}, "fail", [only("nv", 1) EXCEPT !["param"] = 1], 1, "switchdev", FALSE),
                 Prof({"p1"}, "fail", NoFw, 2, "", FALSE)>>)
            EXCEPT !.numVFs = 2, !.raise = TRUE, !.verify = FALSE],
         Host("mlx5_core", FALSE, {}, FALSE,
              <<Prof({"p0"}, "apply", only("enabled", 0), Unset, "", FALSE),
                Prof({"p1"}, "apply", only("maxVFs", 2), 2, "", FALSE)>>),
         [Host("mlx5_core", TRUE, {"p1"}, FALSE, <<Prof(both, "apply", Full, 1, "switchdev", FALSE)>>)
            EXCEPT !.cold = TRUE],
         [Host("mlx5_core", FALSE, {"p1"}, FALSE,
               <<Prof(both, "apply", Full, 1, "", FALSE), Prof({}, "fail", NoFw, 1, "", FALSE)>>)
            EXCEPT !.locked = TRUE, !.url = FALSE],
         [Host("ice", FALSE, {"p0"}, TRUE,
               <<Prof(both, "apply", [only("agent", 0) EXCEPT !["param"] = 1], 1, "", FALSE)>>)
            EXCEPT !.numVFs = 1],
         Host("igb", FALSE, {"p0"}, FALSE, <<Prof(both, "apply", only("maxVFs", 1), 1, "", FALSE)>>),
         Host("ice", FALSE, {}, FALSE, <<>>)}

-----------------------------------------------------------------------------
(* Partition layouts: of plain partitions, with a volume group on one of    *)
(* them, and one with every option around it.                               *)
Part(l, s, fs, mp) == [label |-> l, size |-> s, typ |-> "", fs |-> fs, mp |-> mp]
Lv(n, s, x, fs, mp) == [name |-> n, size |-> s, extents |-> x, fs |-> fs, mp |-> mp]
EspPart == Part("b", 1, "vfat", "/boot/efi")

MCParts ==
    {EspPart, Part("a", 2, "ext4", "/"), Part("b", 0, "xfs", "/"), Part("c", 1, "swap", ""),
     Part("c", 0, "", ""), Part("d", 3, "", ""), Part("d", 2, "ext4", "//"),
     Part("e", 0, "ext4", "/var"), Part("e", 1, "swap", "/"), Part("a/b", 1, "", ""),
     Part("", 1, "", ""), Part("f", -1, "ext4", "/"), Part("g", 2, "zfs", "/"),
     Part("g", 1, "", "/boot/efi"), Part("h", 1, "ext4", "relative"),
     [Part("h", 1, "ext4", "/") EXCEPT !.typ = "not-a-guid"],
     [Part("i", 1, "ext4", "/") EXCEPT !.typ = "custom"]}

MCVolumes ==
    {Lv("r", 2, "", "ext4", "/"), Lv("r", 0, "50%VG", "xfs", "/"), Lv("s", 0, "", "swap", ""),
     Lv("s", 0, "100%VG", "", ""), Lv("t", 0, "100%FREE", "ext4", "/"),
     Lv("t", 1, "", "vfat", "/boot/efi"), Lv("-lv", 1, "", "", ""), Lv("u", 1, "50%VG", "", ""),
     Lv("u", 1, "", "zfs", ""), Lv("v", 1, "", "", "/var"), Lv("v", 0, "abc", "ext4", "/"),
     Lv("w", 0, "50 %", "", "")}

Parted(ps, g, k, vs) ==
    [device |-> "", mode |-> "", table |-> "", layoutDevice |-> "", parts |-> ps, vg |-> g,
     pv |-> k, lvs |-> vs, lvmTools |-> TRUE, imageFS |-> "ext4"]

PlainLayouts == {Parted(ps, "none", 0, <<>>) : ps \in SeqOf(MCParts, 3)}

VolumeLayouts ==
    LET below == {<<Part("d", 3, "", "")>>, <<Part("c", 0, "", "")>>, <<EspPart, Part("c", 0, "", "")>>,
                  <<Part("d", 3, "", ""), Part("a", 2, "ext4", "/")>>}
    IN  {Parted(ps, g, k, vs) : ps \in below, g \in {"vg", "-lv"}, k \in 0 .. 3,
                                vs \in SeqOf(MCVolumes, 2)}

OptionLayouts ==
    LET one == Parted(<<EspPart, Part("d", 3, "", "")>>, "vg", 2, <<Lv("r", 2, "", "ext4", "/")>>)
    IN  {[one EXCEPT !.device = d, !.layoutDevice = l, !.mode = m, !.table = t,
                     !.lvmTools = x, !.imageFS = f] :
           d \in {"", "/dev/sda"}, x \in BOOLEAN, f \in {"ext4", "btrfs"},
           l \in {"", "sda", "/dev//sda", "/dev/sda", "/dev/sdb", "/dev/gone"},
           m \in {"", "whole-disk", "partition"}, t \in {"", "gpt", "mbr"}}

(* TLC computes Layouts once, but what a constant is given on every use.    *)
Layouts == UNION {PlainLayouts, VolumeLayouts, OptionLayouts}
MCLayoutJobs == Layouts

-----------------------------------------------------------------------------
(* Networks of the installed system: VLANs on the bond or on a NIC that is  *)
(* not its member, over what an image or an earlier run may have left.      *)
Vlan(p, i, a, g) == [parent |-> p, id |-> i, addr |-> a, gw |-> g]

MCVlans ==
    {Vlan(<<"eth0">>, 10, "v4", ""), Vlan(<<"eth2">>, 10, "", ""), Vlan(Bond0, 20, "v6", ""),
     Vlan(Bond0, 30, "", ""), Vlan(<<"eth2">>, 30, "v4", "v4")}

Networks ==
    {j \in [family : {"", "ubuntu", "flatcar", "rhel"}, ip : {"", "v4", "v6"}, gw : {"", "v4", "v6"},
            members : {{}, {<<"eth0">>}, {<<"eth0">>, <<"eth1">>}}, mode : {""}, iface : {NoLink, <<"eth0">>},
            vlans : SeqOf(MCVlans, 2), dns : {{}, {"v4", "v6"}},
            seed : {"off", "nocloud", "configdrive"}] :
        /\ j.family \in {"", "rhel"} => j.dns = {} /\ j.seed = "off"
        /\ \A i \in DOMAIN j.vlans : /\ j.vlans[i].parent \notin j.members
                                     /\ j.members = {} => j.vlans[i].parent # Bond0}

(* Bonds with a mode of their own: another name, another mode, and one that nobody knows. *)
ModedBonds ==
    {[j EXCEPT !.mode = m] : m \in {"lacp", "active-backup", "unknown"},
        j \in {x \in Networks : /\ x.family \in {"ubuntu", "flatcar"} /\ Cardinality(x.members) = 2
                                /\ x.dns = {} /\ x.iface = NoLink /\ Len(x.vlans) < 2}}
AllNetworks == Networks \cup ModedBonds
MCNetworkJobs == AllNetworks

MCOldUnits ==
    {{}, {File(<<"eth9">>, "network"), File(<<"eth0", 10>>, "netdev"),
          File(<<"eth0", 10>>, "network"), Port(<<"eth0">>)}}

-----------------------------------------------------------------------------
(* A part that does not move has one initial state. *)
MCInit ==
    /\ focus \in {"target", "esp", "sriov", "layout", "network", "leases"}
    /\ focus # "sriov" => sj = Host("ice", FALSE, {}, FALSE, <<>>)
    /\ SriovInit
    /\ focus # "sriov" => \A c \in Cells : c[2] \in {"enabled", "maxVFs"} => stored[c] = 1
    /\ focus # "network" => nj = [family |-> "", ip |-> "", gw |-> "", members |-> {}, mode |-> "",
                                  dns |-> {}, iface |-> NoLink, vlans |-> <<>>, seed |-> "off"]
    /\ TargetNetInit
    /\ focus # "network" => DOMAIN units = {Foreign}
    /\ focus # "target" => tjob = CHOOSE j \in TargetJobs : TRUE
    /\ TargetInit /\ EspInit /\ LeasesInit
    /\ focus # "leases" => carrier
    /\ focus # "layout" => lay = Parted(<<>>, "none", 0, <<>>)
    /\ LayoutInit

MCNext ==
    /\ UNCHANGED focus
    /\ \/ focus = "target" /\ TargetNext /\ UNCHANGED <<evars, svars, layoutVars, netVars, lvars>>
       \/ focus = "esp" /\ EspNext /\ UNCHANGED <<tvars, svars, layoutVars, netVars, lvars>>
       \/ focus = "sriov" /\ SriovNext /\ UNCHANGED <<tvars, evars, layoutVars, netVars, lvars>>
       \/ focus = "layout" /\ LayoutNext /\ UNCHANGED <<tvars, evars, svars, netVars, lvars>>
       \/ focus = "network" /\ TargetNetNext /\ UNCHANGED <<tvars, evars, svars, layoutVars, lvars>>
       \/ focus = "leases" /\ LeasesNext /\ UNCHANGED <<tvars, evars, svars, layoutVars, netVars>>

MCSpec == MCInit /\ [][MCNext]_mcvars
=============================================================================
