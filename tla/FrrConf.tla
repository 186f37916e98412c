------------------------------ MODULE FrrConf ------------------------------
(* How BOOTy reads the provisioner's frr.conf (pkg/network/frrconf) and     *)
(* resolves the BGP sessions in it, and how the native session list         *)
(* (pkg/config/bgpsessions.go) builds the same model.  A statement is one   *)
(* line: its word w, the name n it is about, the attribute k of a neighbor  *)
(* line and its argument a.  The parser keeps a stack of CLI nodes.  A      *)
(* statement goes to the deepest node that accepts it, and the parser stays *)
(* there.  Numbers and names are short strings; "bad" is a value that the   *)
(* code refuses, "-" is an argument that is not given.                      *)
EXTENDS Integers, Sequences, FiniteSets, FiniteSetsExt, SequencesExt

CONSTANTS
    FrrLines,      \* the lines an frr.conf may hold
    FrrStarts,     \* the files already read when the checked lines follow
    MaxFrrLines    \* bound: lines read after the start

VARIABLES
    fp,        \* the parser
    lenient,   \* FRR_CONFIG_STRICT=false
    frrAt,     \* the nodes FRR is in after the same lines
    moved,     \* a skipped line moved FRR and not BOOTy (see SameNodeAsFrr)
    flines,    \* lines read
    fph        \* "reading", "failed" or "read"

frrVars == <<fp, lenient, frrAt, moved, flines, fph>>

Families == {"ipv4", "ipv6", "evpn"}
Profiles == {"traditional", "datacenter"}
Empty == [x \in {} |-> "-"]
NewNeighbor == [isGroup |-> FALSE, iface |-> FALSE, group |-> "-", ras |-> "-", las |-> "-",
                bfd |-> FALSE, prof |-> "-", timers |-> "-", connect |-> "-"]
NewAFNeighbor == [activate |-> FALSE, allow |-> 0, in |-> "-", out |-> "-"]
NewAF == [nbrs |-> Empty, sets |-> {}, l2vnis |-> <<>>]
NewParser == [stack |-> <<"config">>, res |-> "ok", defaults |-> "-", vnis |-> <<>>, statics |-> {},
              routers |-> <<>>, router |-> 0, af |-> "-", rms |-> {}, rm |-> "-", rmSets |-> {},
              cls |-> {}, profiles |-> Empty, profile |-> "-", vrf |-> "-", unsure |-> 0]

\* f with x mapped to v.
Put(f, x, v) == [y \in DOMAIN f \cup {x} |-> IF y = x THEN v ELSE f[y]]
Entry(f, x, new) == IF x \in DOMAIN f THEN f[x] ELSE new

Refuse(p, why) == [p EXCEPT !.res = why]
push(p, n) == [p EXCEPT !.stack = Append(@, n)]
pop(p) == IF Len(p.stack) > 1 THEN [p EXCEPT !.stack = SubSeq(@, 1, Len(@) - 1)] ELSE p
currentRouter(p) == p.routers[p.router]
SetRouter(p, r) == [p EXCEPT !.routers[p.router] = r]

(* ------------------------- the top level and vrf ------------------------ *)

vni(p, f, vrf) ==
    CASE f.n \notin {"-", "prefix-routes-only"} -> Refuse(p, "nomatch")
      [] f.a = "bad" -> Refuse(p, "invalid")
      [] OTHER -> [p EXCEPT !.vnis = Append(@, [vrf |-> vrf, vni |-> f.a])]

staticRoute(p, f) ==
    CASE f.n # "blackhole" -> Refuse(p, "unsupported")
      [] f.a = "bad" -> Refuse(p, "invalid")
      [] OTHER -> [p EXCEPT !.statics = @ \cup {f.a}]

\* A "router bgp" line always opens a new router, also for a VRF that has one.
routerBGP(p, f) ==
    IF f.a = "bad" THEN Refuse(p, "invalid")
    ELSE push([p EXCEPT !.routers = Append(@, [vrf |-> f.n, asn |-> f.a, flags |-> Empty, sets |-> {},
                                               nbrs |-> Empty, afs |-> Empty]),
                        !.router = Len(p.routers) + 1], "bgp")

\* Entries of one route-map are kept by sequence number; one number twice is refused.
routeMap(p, f) ==
    CASE f.a = "bad" \/ <<f.n, f.a>> \in p.rms -> Refuse(p, "invalid")
      [] OTHER -> push([p EXCEPT !.rms = @ \cup {<<f.n, f.a>>}, !.rm = <<f.n, f.a>>], "rmap")

communityList(p, f) ==
    CASE f.n = "expanded" -> Refuse(p, "unsupported")
      [] f.a = "bad" -> Refuse(p, "invalid")
      [] OTHER -> [p EXCEPT !.cls = @ \cup {f.n}]

configStatement(p, f) ==
    CASE f.w = "defaults" -> IF f.a \in Profiles THEN [p EXCEPT !.defaults = f.a]
                             ELSE Refuse(p, "invalid")
      [] f.w \in {"log", "exit", "end"} -> p
      [] f.w = "vni" -> vni(p, f, "")
      [] f.w = "ip" -> staticRoute(p, f)
      [] f.w = "router" -> routerBGP(p, f)
      [] f.w = "bfd" -> push(p, "bfd")
      [] f.w = "line" -> push(p, "vty")
      [] f.w = "route-map" -> routeMap(p, f)
      [] f.w = "community-list" -> communityList(p, f)
      [] f.w = "vrf" -> push([p EXCEPT !.vrf = f.n], "vrf")
      [] OTHER -> Refuse(p, "nomatch")

vrfStatement(p, f) ==
    CASE f.w = "vni" -> vni(p, f, p.vrf)
      [] f.w = "ip" -> Refuse(p, "unsupported")
      [] f.w \in {"exit-vrf", "exit"} -> pop(p)
      [] OTHER -> Refuse(p, "nomatch")

routeMapStatement(p, f) ==
    CASE f.w \in {"set", "match"} -> IF f.a = "bad" THEN Refuse(p, "invalid")
                                     ELSE [p EXCEPT !.rmSets = @ \cup {<<p.rm, f.w, f.a>>}]
      [] f.w = "exit" -> pop(p)
      [] OTHER -> Refuse(p, "nomatch")

bfdStatement(p, f) ==
    CASE f.w = "profile" -> push([p EXCEPT !.profiles = Put(@, f.n, Entry(@, f.n, "-")),
                                           !.profile = f.n], "profile")
      [] f.w = "exit" -> pop(p)
      [] OTHER -> Refuse(p, "nomatch")

bfdProfileStatement(p, f) ==
    CASE f.w = "exit" -> pop(p)
      [] f.w = "interval" -> IF f.a = "bad" THEN Refuse(p, "invalid")
                             ELSE [p EXCEPT !.profiles[p.profile] = f.a]
      [] OTHER -> Refuse(p, "nomatch")

(* ------------------------------ router bgp ------------------------------ *)

\* Names of peers that are addresses; the others are interfaces and groups.
IsAddr(name) == name \in {"addr1", "addr2"}
IsGroupOf(r, g) == g \in DOMAIN r.nbrs /\ r.nbrs[g].isGroup
SetNeighbor(p, r, name, n) == SetRouter(p, [r EXCEPT !.nbrs = Put(@, name, n)])

neighborAttribute(n, f) ==
    CASE f.k = "remote-as" -> [n EXCEPT !.ras = f.a]
      [] f.k = "local-as" -> [n EXCEPT !.las = f.a]
      [] f.k = "bfd" -> [n EXCEPT !.bfd = TRUE, !.prof = IF f.a = "-" THEN @ ELSE f.a]
      [] f.k = "timers" -> [n EXCEPT !.timers = f.a]
      [] f.k = "connect" -> [n EXCEPT !.connect = f.a]

\* "neighbor IFNAME interface [peer-group G | remote-as R]".
interfaceNeighbor(p, r, f) ==
    LET n == [Entry(r.nbrs, f.n, NewNeighbor) EXCEPT !.iface = TRUE]
    IN CASE f.a = "v6only" -> Refuse(p, "nomatch")
         [] f.a = "-" -> SetNeighbor(p, r, f.n, n)
         [] f.a = "external" -> SetNeighbor(p, r, f.n, [n EXCEPT !.ras = f.a])
         [] ~IsGroupOf(r, f.a) -> Refuse(p, "invalid")
         [] OTHER -> SetNeighbor(p, r, f.n, [n EXCEPT !.group = f.a])

\* A line for a peer that is not defined: only "ADDR remote-as R" makes one.
newNeighbor(p, r, f) ==
    IF f.k # "remote-as" \/ ~IsAddr(f.n) \/ f.a = "bad" THEN Refuse(p, "invalid")
    ELSE SetNeighbor(p, r, f.n, neighborAttribute(NewNeighbor, f))

neighborStatement(p, r, f) ==
    LET known == f.n \in DOMAIN r.nbrs
        n == Entry(r.nbrs, f.n, NewNeighbor)
    IN CASE f.k = "peer-group" -> SetNeighbor(p, r, f.n, [n EXCEPT !.isGroup = TRUE])
         [] f.k = "interface" -> interfaceNeighbor(p, r, f)
         [] f.k = "description" -> IF known THEN p ELSE Refuse(p, "invalid")
         [] f.k = "member" ->
              IF (~(known /\ (n.isGroup \/ n.iface)) /\ ~IsAddr(f.n)) \/ ~IsGroupOf(r, f.a)
              THEN Refuse(p, "invalid")
              ELSE SetNeighbor(p, r, f.n, [n EXCEPT !.group = f.a])
         [] ~known -> newNeighbor(p, r, f)
         [] f.k \notin {"remote-as", "local-as", "bfd", "timers", "connect"} -> Refuse(p, "nomatch")
         [] f.a = "bad" -> Refuse(p, "invalid")
         [] OTHER -> SetNeighbor(p, r, f.n, neighborAttribute(n, f))

routerFlag(r, f) == [r EXCEPT !.flags = Put(@, f.n, f.a = "on")]

\* "address-family F" opens the one block of F in the router.
addressFamily(p, r, f) ==
    IF f.a \notin Families THEN Refuse(p, "unsupported")
    ELSE push([SetRouter(p, [r EXCEPT !.afs = Put(@, f.a, Entry(@, f.a, NewAF))]) EXCEPT !.af = f.a], "af")

bgpStatement(p, f) ==
    LET r == currentRouter(p)
    IN CASE f.w \in {"router-id", "relax"} -> IF f.a = "bad" THEN Refuse(p, "invalid")
                                              ELSE SetRouter(p, [r EXCEPT !.sets = @ \cup {f.w}])
         [] f.w = "flag" -> SetRouter(p, routerFlag(r, f))
         [] f.w = "log-neighbor-changes" -> p
         [] f.w = "neighbor" -> neighborStatement(p, r, f)
         [] f.w = "address-family" -> addressFamily(p, r, f)
         [] f.w = "exit" -> pop(p)
         [] OTHER -> Refuse(p, "nomatch")

(* -------------------- address families and L2VNIs ---------------------- *)

Unicast(p) == p.af # "evpn"
SetAF(p, r, af) == SetRouter(p, [r EXCEPT !.afs[p.af] = af])
AFAttrs == {"activate", "soft", "allowas-in", "rm-in", "rm-out"}
allowCount(a) == IF a = "-" THEN 3 ELSE 5

afNeighbor(p, r, af, f) ==
    LET an == Entry(af.nbrs, f.n, NewAFNeighbor)
        new == CASE f.k = "activate" -> [an EXCEPT !.activate = TRUE]
                 [] f.k = "allowas-in" -> [an EXCEPT !.allow = allowCount(f.a)]
                 [] f.k = "rm-in" -> [an EXCEPT !.in = f.a]
                 [] f.k = "rm-out" -> [an EXCEPT !.out = f.a]
                 [] OTHER -> an
    IN CASE f.k \notin AFAttrs -> Refuse(p, "nomatch")
         [] f.a = "bad" \/ f.n \notin DOMAIN r.nbrs -> Refuse(p, "invalid")
         [] OTHER -> SetAF(p, r, [af EXCEPT !.nbrs = Put(@, f.n, new)])

routeTarget(p, r, af, f) ==
    IF f.a = "bad" THEN Refuse(p, "invalid")
    ELSE SetAF(p, r, [af EXCEPT !.sets = @ \cup {<<f.w, f.n, f.a>>}])

afStatement(p, f) ==
    LET r == currentRouter(p)
        af == r.afs[p.af]
    IN CASE f.w \in {"network", "redistribute"} /\ Unicast(p) -> routeTarget(p, r, af, f)
         [] f.w = "neighbor" -> afNeighbor(p, r, af, f)
         [] f.w = "vni" /\ f.n = "-" /\ ~Unicast(p) ->
              IF f.a = "bad" THEN Refuse(p, "invalid")
              ELSE push(SetAF(p, r, [af EXCEPT !.l2vnis = Append(@, {<<f.w, f.n, f.a>>})]), "l2vni")
         [] f.w \in {"advertise-all-vni", "advertise", "resolve", "advertise-default-gw",
                     "route-target", "rd"} /\ ~Unicast(p) -> routeTarget(p, r, af, f)
         [] f.w \in {"exit-address-family", "exit"} -> pop(p)
         [] OTHER -> Refuse(p, "nomatch")

l2vniStatement(p, f) ==
    LET r == currentRouter(p)
        last == Len(r.afs[p.af].l2vnis)
    IN CASE f.w \in {"rd", "route-target", "advertise-default-gw"} ->
              IF f.a = "bad" THEN Refuse(p, "invalid")
              ELSE SetAF(p, r, [r.afs[p.af] EXCEPT !.l2vnis[last] = @ \cup {<<f.w, f.n, f.a>>}])
         [] f.w \in {"exit-vni", "exit"} -> pop(p)
         [] OTHER -> Refuse(p, "nomatch")

(* ------------------------- one line of the file ------------------------- *)

apply(p, f) ==
    LET n == p.stack[Len(p.stack)]
    IN CASE n = "config" -> configStatement(p, f)
         [] n = "bgp" -> bgpStatement(p, f)
         [] n = "af" -> afStatement(p, f)
         [] n = "rmap" -> routeMapStatement(p, f)
         [] n = "bfd" -> bfdStatement(p, f)
         [] n = "profile" -> bfdProfileStatement(p, f)
         [] n = "vrf" -> vrfStatement(p, f)
         [] n = "l2vni" -> l2vniStatement(p, f)
         [] OTHER -> IF f.w = "exit" THEN pop(p) ELSE Refuse(p, "nomatch")

\* The first word of a line, which is what the command tables hold.
firstWord(f) ==
    CASE f.w \in {"router-id", "flag", "relax", "log-neighbor-changes", "community-list"} -> "bgp"
      [] f.w = "defaults" -> "frr"
      [] OTHER -> f.w

nodeWords ==
    [config |-> {"frr", "log", "ip", "vni", "router", "bfd", "route-map", "bgp", "vrf",
                 "interface", "line", "end", "exit"},
     bgp |-> {"bgp", "neighbor", "address-family", "network", "redistribute", "maximum-paths", "exit"},
     l2vni |-> {"rd", "route-target", "advertise-default-gw", "exit-vni", "exit"},
     rmap |-> {"match", "set", "exit"}, bfd |-> {"profile", "peer", "exit"},
     profile |-> {"interval", "exit"}, vrf |-> {"vni", "ip", "exit-vrf", "exit"}, vty |-> {"exit"}]
afWords == {"network", "redistribute", "maximum-paths", "bgp", "rd", "route-target", "route-map",
            "exit-address-family", "exit"}
evpnWords == {"advertise", "advertise-all-vni", "advertise-default-gw", "exit-address-family",
              "network", "rd", "route-target", "vni", "resolve", "exit"}
\* "weight" is an attribute of the unicast families only.
afNeighborWords == AFAttrs \cup {"weight"}

knownInAF(evpn, f) ==
    IF f.w = "neighbor" THEN f.k \in (IF evpn THEN AFAttrs ELSE afNeighborWords)
    ELSE firstWord(f) \in (IF evpn THEN evpnWords ELSE afWords)

knownIn(p, n, f) == IF n = "af" THEN knownInAF(~Unicast(p), f) ELSE firstWord(f) \in nodeWords[n]

To(p, d) == [p EXCEPT !.stack = SubSeq(@, 1, d), !.res = "ok"]

\* Ends the doubt when a statement of a parent node is applied.
afterApply(p, d) == [p EXCEPT !.unsure = IF d < @ THEN 0 ELSE @]

\* The deepest node of the stack that satisfies P, 0 without one.
Deepest(stack, P(_)) == Max({d \in 1..Len(stack) : P(d)} \cup {0})

\* A mutant of statement: a skipped line leaves the parser in its node.
statement_Stays(p, f) ==
    LET d == Deepest(p.stack, LAMBDA e : apply(To(p, e), f).res # "nomatch")
    IN IF d = 0 THEN Refuse(p, "unsupported")
       ELSE LET q == apply(To(p, d), f)
            IN IF q.res # "ok" THEN [p EXCEPT !.res = q.res] ELSE afterApply(q, d)

\* parser.statement: the deepest node that accepts the line, else the deepest
\* one in which FRR knows it.  A refused line leaves the stack as it was.
statement(p, f) ==
    LET d == Deepest(p.stack, LAMBDA e : apply(To(p, e), f).res # "nomatch")
        k == Deepest(p.stack, LAMBDA e : knownIn(p, p.stack[e], f))
        top == Len(p.stack)
        applied(q) == IF q.res = "ok" THEN afterApply(q, d) ELSE [p EXCEPT !.res = q.res]
    IN CASE d > 0 -> applied(apply(To(p, d), f))
         [] d = 0 /\ k > 0 -> [To(p, k) EXCEPT !.res = "unsupported", !.unsure = IF k < @ THEN 0 ELSE @]
         [] OTHER -> [p EXCEPT !.res = "unsupported",
                               !.unsure = IF top > 1 /\ (@ = 0 \/ top < @) THEN top ELSE @]

blockOpeners == {"router", "vrf", "interface", "address-family", "vni", "route-map", "bfd",
                 "profile", "peer", "line"}

(* ----------------------- sessions of the model -------------------------- *)

Or(a, b) == IF a # "-" THEN a ELSE b
Group(r, n) == IF n.group = "-" THEN NewNeighbor ELSE r.nbrs[n.group]
ProfileTimers(defaults) == IF defaults = "traditional" THEN "60 180" ELSE "3 9"
ProfileConnect(defaults) == IF defaults = "traditional" THEN "30" ELSE "10"
BFDTimers(m, prof) == IF prof \in DOMAIN m.profiles THEN Or(m.profiles[prof], "300") ELSE "300"
Flag(r, name, def) == IF name \in DOMAIN r.flags THEN r.flags[name] ELSE def
\* The entries of the peer and of its group in family fam.
AFEntry(r, fam, name) ==
    IF fam \in DOMAIN r.afs THEN Entry(r.afs[fam].nbrs, name, NewAFNeighbor) ELSE NewAFNeighbor

\* setRemoteAS and checkLocalAS: what makes a session an error.
SessionRefused(r, n) ==
    LET g == Group(r, n)
        ras == Or(n.ras, g.ras)
        las == Or(n.las, g.las)
    IN \/ n.ras # "-" /\ g.ras # "-" /\ n.ras # g.ras
       \/ ras = "-"
       \/ ras = "internal" /\ las # "-"
       \/ las = "prepend"
       \/ las = r.asn

families(r, name, n) ==
    {fam \in Families : \/ fam = "ipv4" /\ Flag(r, "ipv4-unicast", TRUE)
                        \/ AFEntry(r, fam, name).activate
                        \/ AFEntry(r, fam, n.group).activate}

allowASIn(r, name, n) ==
    Max({0} \cup UNION {{AFEntry(r, fam, name).allow, AFEntry(r, fam, n.group).allow} : fam \in Families})

\* The peer's route-map wins over the one of its group.
routeMaps(r, name, n) ==
    [fam \in families(r, name, n) |->
        LET own == AFEntry(r, fam, name)
            grp == AFEntry(r, fam, n.group)
        IN [in |-> Or(own.in, grp.in), out |-> Or(own.out, grp.out)]]

sessionBFD(m, n, g) ==
    [on |-> n.bfd \/ g.bfd,
     prof |-> Or(n.prof, g.prof),
     timers |-> IF n.bfd \/ g.bfd THEN BFDTimers(m, Or(n.prof, g.prof)) ELSE "-"]

session(m, r, name) ==
    LET n == r.nbrs[name]
        g == Group(r, n)
        ras == Or(n.ras, g.ras)
        las == Or(n.las, g.las)
        local == Or(las, r.asn)
    IN [name |-> name, iface |-> n.iface, vrf |-> IF r.vrf = "default" THEN "" ELSE r.vrf,
        las |-> las,
        remote |-> CASE ras = "internal" -> local [] ras = "external" -> "0" [] OTHER -> ras,
        internal |-> ras = "internal" \/ ras = local,
        timers |-> Or(Or(n.timers, g.timers), ProfileTimers(m.defaults)),
        connect |-> Or(Or(n.connect, g.connect), ProfileConnect(m.defaults)),
        connectSet |-> Or(n.connect, g.connect) # "-",
        bfd |-> sessionBFD(m, n, g),
        families |-> families(r, name, n), allow |-> allowASIn(r, name, n),
        failover |-> Flag(r, "failover", TRUE),
        policy |-> Flag(r, "policy", m.defaults = "traditional"),
        rms |-> routeMaps(r, name, n)]

Peers(r) == {name \in DOMAIN r.nbrs : ~r.nbrs[name].isGroup}

\* Config.Sessions: every peer of every router, or an error.
Sessions(m) ==
    LET ok == \A i \in DOMAIN m.routers : \A name \in Peers(m.routers[i]) :
                  ~SessionRefused(m.routers[i], m.routers[i].nbrs[name])
    IN [ok |-> ok,
        list |-> IF ok THEN UNION {{session(m, m.routers[i], name) : name \in Peers(m.routers[i])} :
                                   i \in DOMAIN m.routers}
                 ELSE {}]

(* --------------------- the native session list -------------------------- *)

\* A mutant of NativeAF: a route-map gets an entry of its own, which hides the activated one.
NativeAF_Fresh(af, name, s, fam) ==
    LET an == Entry(af.nbrs, name, NewAFNeighbor)
        on == IF fam \in s.families THEN [an EXCEPT !.activate = TRUE, !.allow = s.allow] ELSE an
    IN [af EXCEPT !.nbrs = Put(@, name, IF fam \in DOMAIN s.rms
                                        THEN [NewAFNeighbor EXCEPT !.in = s.rms[fam].in, !.out = s.rms[fam].out]
                                        ELSE on)]

\* afNeighbor and the loops of addNeighbor over the families and route-maps.
NativeAF(af, name, s, fam) ==
    LET an == Entry(af.nbrs, name, NewAFNeighbor)
        on == IF fam \in s.families THEN [an EXCEPT !.activate = TRUE, !.allow = s.allow] ELSE an
    IN [af EXCEPT !.nbrs = Put(@, name, IF fam \in DOMAIN s.rms
                                        THEN [on EXCEPT !.in = s.rms[fam].in, !.out = s.rms[fam].out]
                                        ELSE on)]

addNeighbor(r, s, group) ==
    [r EXCEPT !.nbrs = Put(@, s.name, [NewNeighbor EXCEPT !.isGroup = group, !.iface = s.iface /\ ~group,
                                        !.group = s.group, !.ras = s.ras, !.las = s.las, !.bfd = s.bfd,
                                        !.prof = s.prof, !.timers = s.timers, !.connect = s.connect]),
              !.afs = [fam \in DOMAIN @ \cup s.families \cup DOMAIN s.rms |->
                          IF fam \in s.families \cup DOMAIN s.rms
                          THEN NativeAF(Entry(@, fam, NewAF), s.name, s, fam)
                          ELSE @[fam]]]

\* frrModel: the router of each VRF with the groups that its sessions use.
\* b.sessions is a sequence, b.groups maps group names.
NativeRouter(b, vrf) ==
    LET mine == SelectSeq(b.sessions, LAMBDA s : s.vrf = vrf)
        add(r, s) == LET g == IF s.group = "-" \/ s.group \in DOMAIN r.nbrs THEN r
                              ELSE addNeighbor(r, b.groups[s.group], TRUE)
                     IN addNeighbor(g, s, FALSE)
    IN FoldLeft(add, [vrf |-> vrf, asn |-> b.asn, flags |-> Put(b.flags, "ipv4-unicast", FALSE),
                      sets |-> {}, nbrs |-> Empty, afs |-> Empty], mine)

emptyModel(b) == [defaults |-> Or(b.defaults, "datacenter"), profiles |-> b.profiles]

\* emptyModel, sessionGroup and addNeighbor: a group that is an interface or has
\* a group, an undefined group, one of another VRF, another local-as mode.
NativeRefused(b) ==
    \/ \E g \in DOMAIN b.groups : b.groups[g].iface \/ b.groups[g].group # "-"
    \/ \E i \in DOMAIN b.sessions :
          LET s == b.sessions[i]
          IN \/ s.las = "prepend"
             \/ /\ s.group # "-"
                /\ \/ s.group \notin DOMAIN b.groups
                   \/ b.groups[s.group].las = "prepend"
                   \/ b.groups[s.group].vrf \notin {"", s.vrf}

frrModel(b) ==
    LET vrfs == SetToSeq({b.sessions[i].vrf : i \in DOMAIN b.sessions})
    IN [defaults |-> emptyModel(b).defaults, profiles |-> emptyModel(b).profiles,
        routers |-> [i \in DOMAIN vrfs |-> NativeRouter(b, vrfs[i])]]

ResolveSessions(b) ==
    IF NativeRefused(b) THEN [ok |-> FALSE, list |-> {}] ELSE Sessions(frrModel(b))

(* ------------------------- FRR and the file ----------------------------- *)

\* External: the nodes in which FRR has the command (bgp_vty.c, bgp_evpn_vty.c
\* and the other files that known.go names), with the full syntax of the line.
FrrNodes(f) ==
    CASE f.w = "neighbor" -> CASE f.k \in AFAttrs -> {"bgp"} \cup Families
                               [] f.k = "weight" -> {"bgp", "ipv4", "ipv6"}
                               [] OTHER -> {"bgp"}
      [] f.w \in {"router-id", "flag", "relax", "log-neighbor-changes", "address-family"} -> {"bgp"}
      [] f.w \in {"network", "redistribute", "maximum-paths"} -> {"bgp", "ipv4", "ipv6"}
      [] f.w = "vni" -> {"config", "vrf"} \cup (IF f.n = "-" THEN {"evpn"} ELSE {})
      [] f.w = "ip" -> {"config", "vrf"}
      [] f.w \in {"advertise-all-vni", "advertise", "resolve"} -> {"evpn"}
      [] f.w \in {"rd", "route-target", "advertise-default-gw"} -> {"evpn", "l2vni"}
      [] f.w \in {"set", "match"} -> {"rmap"}
      [] f.w = "profile" -> {"bfd"}
      [] f.w = "interval" -> {"profile"}
      [] f.w = "exit" -> {"config", "bgp", "rmap", "bfd", "profile", "vrf", "vty", "l2vni"} \cup Families
      [] f.w = "exit-address-family" -> Families
      [] f.w = "exit-vrf" -> {"vrf"}
      [] f.w = "exit-vni" -> {"l2vni"}
      [] f.w = "unknown" -> {}
      [] OTHER -> {"config"}

\* External: the node a line opens in FRR (lib/command.c).
FrrOpens(at, f) ==
    CASE f.w = "router" -> <<"bgp">>
      [] f.w = "route-map" -> <<"rmap">>
      [] f.w = "line" -> <<"vty">>
      [] f.w \in {"bfd", "vrf", "profile"} -> <<f.w>>
      [] f.w = "address-family" -> <<f.a>>
      [] f.w = "vni" /\ at = "evpn" -> <<"l2vni">>
      [] OTHER -> <<>>

\* The files are those FRR takes: it has the line in a node it is in.  A line of
\* another FRR release ("unknown") is the exception.
FrrTakes(at, f) == f.w = "unknown" \/ \E d \in DOMAIN at : at[d] \in FrrNodes(f)

\* External: FRR runs a line in the deepest node that has it, and stays there.
FrrMoves(at, f) ==
    LET d == Deepest(at, LAMBDA e : at[e] \in FrrNodes(f))
        leaves == f.w \in {"exit", "exit-address-family", "exit-vrf", "exit-vni"} /\ d > 1
    IN CASE d = 0 -> at
         [] leaves -> SubSeq(at, 1, d - 1)
         [] OTHER -> SubSeq(at, 1, d) \o FrrOpens(at[d], f)

\* BOOTy's stack in the names of FRR's nodes.
Nodes(p) == [i \in DOMAIN p.stack |-> IF p.stack[i] = "af" THEN p.af ELSE p.stack[i]]

ReadAll(file) == FoldLeft(statement, NewParser, file)

FrrInit ==
    /\ \E start \in FrrStarts :
         /\ fp = ReadAll(start)
         /\ frrAt = FoldLeft(FrrMoves, <<"config">>, start)
    /\ lenient \in BOOLEAN
    /\ moved = FALSE /\ flines = 0 /\ fph = "reading"

\* The skipped lines that BOOTy does not follow FRR on: the line is unsupported in
\* the parent node that has it, or the table of known.go has its first word in the
\* node, where FRR has only a longer form ("network P rd ... ethtag ..." in
\* address-family l2vpn evpn).
ParentSkips(p, f) == \E d \in 1..(Len(p.stack) - 1) : apply(To(p, d), f).res = "unsupported"
FirstWordOnly(p, f) == f.w = "network" /\ "evpn" \in Range(Nodes(p))

\* One line in the loop of ParseWith.  A line that BOOTy does not implement is
\* skipped in lenient mode, unless it opens a block.
ParseLine(f) ==
    /\ fph = "reading" /\ flines < MaxFrrLines
    /\ FrrTakes(frrAt, f)
    /\ fp' = statement(fp, f)
    /\ flines' = flines + 1
    /\ LET skipped == lenient /\ fp'.res = "unsupported" /\ firstWord(f) \notin blockOpeners
       IN fph' = IF fp'.res = "ok" \/ skipped THEN "reading" ELSE "failed"
    /\ frrAt' = FrrMoves(frrAt, f)
    /\ moved' = (moved \/ (fp'.res = "unsupported" /\ (ParentSkips(fp, f) \/ FirstWordOnly(fp, f))))
    /\ UNCHANGED lenient

EndOfFile ==
    /\ fph = "reading"
    /\ fph' = IF Sessions(fp).ok THEN "read" ELSE "refused"
    /\ UNCHANGED <<fp, lenient, frrAt, moved, flines>>

FrrNext == (\E f \in FrrLines : ParseLine(f)) \/ EndOfFile
FrrSpec == FrrInit /\ [][FrrNext]_frrVars

\* BOOTy reads a file as FRR does: after every accepted or skipped line it is
\* in the node FRR is in, so the next line means the same to both
\* (parser.statement and known.go).  The files with a skipped line of ParentSkips
\* or FirstWordOnly are left out: SkippedMovesLikeFrr is about those.
SameNodeAsFrr == fph \in {"reading", "read"} /\ ~moved => Nodes(fp) = frrAt

\* docs/networking.md:569-571: for every skipped statement, "BOOTy looks the first
\* word up in a table of the FRR commands per node and moves to the same node as
\* FRR, so the next statements land where FRR puts them" (parser.statement).
SkippedMovesLikeFrr == fph \in {"reading", "read"} => Nodes(fp) = frrAt

\* The native list that says what the only router of the file says.
NativeSession(r, name) ==
    LET n == r.nbrs[name]
        active == {fam \in Families : \/ AFEntry(r, fam, name).activate
                                      \/ fam = "ipv4" /\ Flag(r, "ipv4-unicast", TRUE) /\ ~n.isGroup}
    IN [name |-> name, vrf |-> r.vrf, iface |-> n.iface, group |-> n.group, ras |-> n.ras, las |-> n.las,
        bfd |-> n.bfd, prof |-> n.prof, timers |-> n.timers, connect |-> n.connect, families |-> active,
        allow |-> Max({0} \cup {AFEntry(r, fam, name).allow : fam \in active}),
        rms |-> [fam \in {x \in Families : AFEntry(r, x, name).in # "-" \/ AFEntry(r, x, name).out # "-"} |->
                    [in |-> AFEntry(r, fam, name).in, out |-> AFEntry(r, fam, name).out]]]

AsNative(m) ==
    LET r == m.routers[1]
        peers == SetToSeq(Peers(r))
    IN [asn |-> r.asn, defaults |-> m.defaults, profiles |-> m.profiles, flags |-> r.flags,
        groups |-> [g \in DOMAIN r.nbrs \ Peers(r) |-> NativeSession(r, g)],
        sessions |-> [i \in DOMAIN peers |-> NativeSession(r, peers[i])]]

\* A native session has one allowas-in count, for the families it activates.
Sayable(r) ==
    \A name \in DOMAIN r.nbrs :
        LET s == NativeSession(r, name)
        IN \A fam \in Families : AFEntry(r, fam, name).allow # 0 => fam \in s.families

\* The native session list and an frr.conf that say the same give the same
\* sessions, or are both refused (BGPConfig.ResolveSessions: "so both inputs
\* give the same sessions").
NativeLikeFrrConf ==
    fph \in {"read", "refused"} /\ Len(fp.routers) = 1 /\ Sayable(fp.routers[1])
        => ResolveSessions(AsNative(fp)) = Sessions(fp)
=============================================================================
