---------------------------- MODULE NetworkProofs ----------------------------
(***************************************************************************)
(* Proofs about the network that the ramdisk sets up.                      *)
(*                                                                         *)
(* The GoBGP stack leaves no trace, whatever existed before and for any    *)
(* number of attempts, failing steps and failing removals.                 *)
(*                                                                         *)
(* A network mode leaves nothing behind when its setup fails, when DHCP    *)
(* takes its place and when the run ends, for every set of configurations  *)
(* and any number of failing calls.                                        *)
(*                                                                         *)
(* The DHCP mode keeps its leases, for every lease time and any number of  *)
(* leases, carrier changes and failed netlink calls.                       *)
(***************************************************************************)
EXTENDS GobgpStack, NetUp, Leases, SequenceTheorems, TLAPS

(* Zenon finds most of the steps; those that need arithmetic or a theory    *)
(* of functions cite SMT.                                                  *)
USE Zenon

(* What Setup makes, and the step of Teardown that takes it away. *)
Made == {"vrf", "dummy", "nics", "bgp", "vxlan", "bridge", "gatewayFDB", "provisionIP",
         "loopback", "blackholes", "type5", "networks", "type3", "type2", "watch",
         "type2State", "gatewayRoute", "vtepRoutes"}
Steps == Made \cup {"attach"}
Resources == Made \cup {"type5Routes", "remoteFDB"}
OnBridge == {"provisionIP", "type5Routes"}
Remover(r) == CASE r \in Holds("bgp") -> "bgp"
                [] r \in OnBridge -> "bridge"
                [] r = "remoteFDB" -> "vxlan"
                [] OTHER -> r

(* What the stack has to take away. *)
Ours == present \ (pre \cup stuck \cup OnForeignLinks)

(* x is done before y. *)
Ordered(x, y, steps) == \A i, j \in 1 .. Len(steps) : steps[i] = x /\ steps[j] = y => i < j
Sorted(steps) ==
    /\ \A p \in Holds("bgp") : Ordered("bgp", p, steps)
    /\ Ordered("bridge", "provisionIP", steps)

STypeOK ==
    /\ phase \in {"setup", "wait", "teardown", "over"}
    /\ gateway \in {"none", "numbered", "unnumbered"}
    /\ todo \in Seq(Steps)
    /\ present \ pre \subseteq Resources

(* A link that existed before is there and is not the stack's. *)
LinksKept == pre \cap Links \subseteq present /\ owned \cap pre \cap Links = {}

(* A link that could not be removed keeps what is on it. *)
StuckWhole == \A l \in {"bridge", "vxlan"} \cap stuck : Holds(l) \subseteq stuck

(* Setup makes what carries a resource before the resource. *)
InOrder ==
    phase = "setup" =>
        /\ Sorted(todo)
        /\ In("bgp", todo) \/ "bgp" \in present \cap owned
        /\ In("bridge", todo) \/ "bridge" \in present

(* The stack can take away all that it has made, and a Teardown that has     *)
(* begun will come to it.                                                    *)
Accounted ==
    \A r \in Ours :
        /\ Remover(r) \in present /\ Mine(Remover(r))
        /\ phase = "teardown" => In(Remover(r), todo)
        /\ phase # "over"

SInv == STypeOK /\ LinksKept /\ StuckWhole /\ InOrder /\ Accounted

-----------------------------------------------------------------------------
(* Sequences of steps. *)
LEMMA InConcat ==
    ASSUME NEW s \in Seq(Steps), NEW t \in Seq(Steps), NEW r
    PROVE  s \o t \in Seq(Steps) /\ (In(r, s \o t) <=> In(r, s) \/ In(r, t))
<1>1. /\ s \o t \in Seq(Steps)
      /\ Len(s \o t) = Len(s) + Len(t)
      /\ \A i \in 1 .. Len(s) : (s \o t)[i] = s[i]
      /\ \A i \in 1 .. Len(t) : (s \o t)[Len(s) + i] = t[i]
  BY SMT
<1>2. /\ DOMAIN s = 1 .. Len(s) /\ DOMAIN t = 1 .. Len(t)
      /\ DOMAIN (s \o t) = 1 .. (Len(s) + Len(t))
      /\ Len(s) \in Nat /\ Len(t) \in Nat
  BY <1>1, SMT
<1>3. In(r, s) => In(r, s \o t)
  BY <1>1, <1>2, SMT DEF In
<1>4. In(r, t) => In(r, s \o t)
  <2> SUFFICES ASSUME NEW i \in 1 .. Len(t), t[i] = r PROVE In(r, s \o t)
    BY <1>2 DEF In
  <2>1. Len(s) + i \in 1 .. (Len(s) + Len(t)) /\ (s \o t)[Len(s) + i] = r
    BY <1>1, <1>2, SMT
  <2> QED BY <1>2, <2>1 DEF In
<1>5. In(r, s \o t) => In(r, s) \/ In(r, t)
  <2> SUFFICES ASSUME NEW i \in 1 .. (Len(s) + Len(t)), (s \o t)[i] = r
               PROVE  In(r, s) \/ In(r, t)
    BY <1>2 DEF In
  <2>1. CASE i <= Len(s)
    BY <1>1, <1>2, <2>1, SMT DEF In
  <2>2. CASE i > Len(s)
    <3>1. i - Len(s) \in 1 .. Len(t) /\ Len(s) + (i - Len(s)) = i
      BY <1>2, <2>2, SMT
    <3> QED BY <1>1, <1>2, <3>1 DEF In
  <2> QED BY <1>2, <2>1, <2>2, SMT
<1> QED BY <1>1, <1>3, <1>4, <1>5

LEMMA OrderedConcat ==
    ASSUME NEW s \in Seq(Steps), NEW t \in Seq(Steps), NEW x, NEW y,
           Ordered(x, y, s), Ordered(x, y, t), ~In(y, s) \/ ~In(x, t)
    PROVE  Ordered(x, y, s \o t)
<1>1. /\ Len(s \o t) = Len(s) + Len(t) /\ Len(s) \in Nat /\ Len(t) \in Nat
      /\ \A i \in 1 .. Len(s) : (s \o t)[i] = s[i]
      /\ \A i \in 1 .. Len(t) : (s \o t)[Len(s) + i] = t[i]
      /\ DOMAIN s = 1 .. Len(s) /\ DOMAIN t = 1 .. Len(t)
  BY SMT
<1> SUFFICES ASSUME NEW i \in 1 .. (Len(s) + Len(t)), NEW j \in 1 .. (Len(s) + Len(t)),
                    (s \o t)[i] = x, (s \o t)[j] = y
             PROVE  i < j
  BY <1>1 DEF Ordered
<1>2. CASE i <= Len(s) /\ j <= Len(s)
  BY <1>1, <1>2, SMT DEF Ordered
<1>3. CASE i <= Len(s) /\ j > Len(s)
  BY <1>1, <1>3, SMT
<1>4. CASE i > Len(s) /\ j > Len(s)
  <2>1. /\ i - Len(s) \in 1 .. Len(t) /\ Len(s) + (i - Len(s)) = i
        /\ j - Len(s) \in 1 .. Len(t) /\ Len(s) + (j - Len(s)) = j
    BY <1>1, <1>4, SMT
  <2>2. t[i - Len(s)] = x /\ t[j - Len(s)] = y
    BY <1>1, <2>1
  <2>3. i - Len(s) < j - Len(s)
    BY <2>1, <2>2 DEF Ordered
  <2> QED BY <1>1, <2>3, SMT
<1>5. CASE i > Len(s) /\ j <= Len(s)
  <2>1. i - Len(s) \in 1 .. Len(t) /\ Len(s) + (i - Len(s)) = i
    BY <1>1, <1>5, SMT
  <2>2. t[i - Len(s)] = x /\ s[j] = y
    BY <1>1, <1>5, <2>1, SMT
  <2>3. In(x, t) /\ In(y, s)
    <3>1. j \in 1 .. Len(s)
      BY <1>1, <1>5, SMT
    <3> QED BY <1>1, <2>1, <2>2, <3>1 DEF In
  <2> QED BY <2>3
<1> QED BY <1>1, <1>2, <1>3, <1>4, <1>5, SMT

LEMMA TailSteps ==
    ASSUME NEW s \in Seq(Steps), s # <<>>
    PROVE  /\ Head(s) \in Steps /\ Tail(s) \in Seq(Steps)
           /\ \A r : r # Head(s) => (In(r, s) <=> In(r, Tail(s)))
           /\ \A x, y : Ordered(x, y, s) => Ordered(x, y, Tail(s))
           /\ \A x, y : Ordered(x, y, s) /\ y = Head(s) => ~In(x, s)
<1>1. /\ Head(s) \in Steps /\ Tail(s) \in Seq(Steps) /\ Len(Tail(s)) = Len(s) - 1
      /\ \A i \in 1 .. Len(Tail(s)) : Tail(s)[i] = s[i + 1]
  BY HeadTailProperties
<1>2. /\ Len(s) \in Nat \ {0} /\ Head(s) = s[1]
      /\ DOMAIN s = 1 .. Len(s) /\ DOMAIN Tail(s) = 1 .. (Len(s) - 1)
  BY <1>1, SMT
<1>3. ASSUME NEW r, r # Head(s) PROVE In(r, s) <=> In(r, Tail(s))
  <2>1. ASSUME NEW i \in 1 .. Len(s), s[i] = r PROVE In(r, Tail(s))
    <3>1. i - 1 \in 1 .. (Len(s) - 1) /\ Tail(s)[i - 1] = s[(i - 1) + 1] /\ (i - 1) + 1 = i
      BY <1>1, <1>2, <1>3, <2>1, SMT
    <3> QED BY <1>2, <2>1, <3>1 DEF In
  <2>2. ASSUME NEW i \in 1 .. (Len(s) - 1), Tail(s)[i] = r PROVE In(r, s)
    <3>1. i + 1 \in 1 .. Len(s) /\ s[i + 1] = r
      BY <1>1, <1>2, <2>2, SMT
    <3> QED BY <1>2, <3>1 DEF In
  <2> QED BY <1>2, <2>1, <2>2 DEF In
<1>4. ASSUME NEW x, NEW y, Ordered(x, y, s) PROVE Ordered(x, y, Tail(s))
  <2> SUFFICES ASSUME NEW i \in 1 .. (Len(s) - 1), NEW j \in 1 .. (Len(s) - 1),
                      Tail(s)[i] = x, Tail(s)[j] = y
               PROVE  i < j
    BY <1>1 DEF Ordered
  <2>1. i + 1 \in 1 .. Len(s) /\ s[i + 1] = x /\ j + 1 \in 1 .. Len(s) /\ s[j + 1] = y
    BY <1>1, <1>2, SMT
  <2>2. i + 1 < j + 1
    BY <1>4, <2>1 DEF Ordered
  <2> QED BY <2>2, SMT
<1>5. ASSUME NEW x, Ordered(x, Head(s), s) PROVE ~In(x, s)
  <2> SUFFICES ASSUME NEW i \in 1 .. Len(s), s[i] = x PROVE FALSE
    BY <1>2 DEF In
  <2>1. 1 \in 1 .. Len(s)
    BY <1>2, SMT
  <2>2. i < 1
    BY <1>2, <1>5, <2>1 DEF Ordered
  <2> QED BY <2>2, SMT
<1> QED BY <1>1, <1>3, <1>4, <1>5

(* A part of Setup: its steps, in order. *)
Part(s, M) == s \in Seq(Steps) /\ (\A r : In(r, s) <=> r \in M) /\ Sorted(s)

LEMMA OneStep == ASSUME NEW r \in Steps PROVE Part(<<r>>, {r})
<1>1. <<r>> \in Seq(Steps) /\ Len(<<r>>) = 1 /\ DOMAIN <<r>> = {1} /\ <<r>>[1] = r
  BY SMT
<1>2. \A q : In(q, <<r>>) <=> q \in {r}
  BY <1>1 DEF In
<1>3. Sorted(<<r>>)
  BY <1>1, SMT DEF Sorted, Ordered, Holds
<1> QED BY <1>1, <1>2, <1>3 DEF Part

LEMMA NoStep == Part(<<>>, {})
  BY SMT DEF Part, In, Sorted, Ordered

LEMMA Concat ==
    ASSUME NEW s, NEW t, NEW M, NEW N, Part(s, M), Part(t, N),
           "bgp" \in N => M \cap Holds("bgp") = {},
           "bridge" \in N => "provisionIP" \notin M
    PROVE  Part(s \o t, M \cup N)
<1>1. s \in Seq(Steps) /\ t \in Seq(Steps)
  BY DEF Part
<1>2. s \o t \in Seq(Steps)
  BY <1>1, InConcat
<1>3. \A r : In(r, s \o t) <=> r \in M \cup N
  BY <1>1, InConcat DEF Part
<1>4. ASSUME NEW p \in Holds("bgp") PROVE Ordered("bgp", p, s \o t)
  <2>1. Ordered("bgp", p, s) /\ Ordered("bgp", p, t)
    BY DEF Part, Sorted
  <2>2. ~In(p, s) \/ ~In("bgp", t)
    BY DEF Part
  <2> QED BY <1>1, <2>1, <2>2, OrderedConcat
<1>5. Ordered("bridge", "provisionIP", s \o t)
  <2>1. Ordered("bridge", "provisionIP", s) /\ Ordered("bridge", "provisionIP", t)
    BY DEF Part, Sorted
  <2>2. ~In("provisionIP", s) \/ ~In("bridge", t)
    BY DEF Part
  <2> QED BY <1>1, <2>1, <2>2, OrderedConcat
<1> QED BY <1>2, <1>3, <1>4, <1>5 DEF Part, Sorted

LEMMA AddStep ==
    ASSUME NEW s, NEW M, NEW r \in Steps \ {"bgp", "bridge"}, Part(s, M)
    PROVE  Part(s \o <<r>>, M \cup {r})
<1>1. Part(<<r>>, {r})
  BY OneStep
<1> QED BY <1>1, Concat

(* The steps of Setup are in order, and Teardown comes to every resource. *)
LEMMA SetupFacts ==
    ASSUME gateway \in {"none", "numbered", "unnumbered"}
    PROVE  /\ SetupSteps \in Seq(Steps) /\ SetupSteps # <<>>
           /\ In("bgp", SetupSteps) /\ In("bridge", SetupSteps) /\ Sorted(SetupSteps)
<1> DEFINE U == {"vrf"} \cup {"dummy", "nics", "bgp"}
           C0 == {"vxlan", "bridge", "attach"}
           C == IF gateway = "none" THEN C0 ELSE C0 \cup {"gatewayFDB"}
           S0 == createVXLANAndBridge
           O1 == C \cup {"provisionIP"}
           S1 == S0 \o <<"provisionIP">>
           O2 == O1 \cup {"loopback"}
           S2 == S1 \o <<"loopback">>
           O3 == O2 \cup {"blackholes"}
           S3 == S2 \o <<"blackholes">>
           O4 == O3 \cup {"type5"}
           S4 == S3 \o <<"type5">>
           O5 == O4 \cup {"networks"}
           S5 == S4 \o <<"networks">>
           O6 == O5 \cup {"type3"}
           S6 == S5 \o <<"type3">>
           O7 == O6 \cup {"type2"}
           S7 == S6 \o <<"type2">>
           O8 == O7 \cup {"watch"}
           S8 == S7 \o <<"watch">>
<1>1. Part(<<"vrf">> \o UnderlaySetup, U)
  <2>1. Part(<<"vrf">>, {"vrf"})
    BY OneStep DEF Steps, Made
  <2>2. Part(UnderlaySetup, {"dummy", "nics", "bgp"})
    BY SMT DEF UnderlaySetup, Part, In, Sorted, Ordered, Holds, Steps, Made
  <2>3. {"vrf"} \cap Holds("bgp") = {}
    BY DEF Holds
  <2> QED BY <2>1, <2>2, <2>3, Concat
<1>2. Part(S0, C)
  <2>1. Part(<<"vxlan", "bridge", "attach">>, C0)
    BY SMT DEF Part, In, Sorted, Ordered, Holds, Steps, Made
  <2>2. Part(<<"vxlan", "bridge", "attach">> \o <<"gatewayFDB">>, C0 \cup {"gatewayFDB"})
    BY <2>1, AddStep DEF Steps, Made
  <2>3. <<"vxlan", "bridge", "attach">> \o <<>> = <<"vxlan", "bridge", "attach">>
    BY SMT
  <2> QED BY <2>1, <2>2, <2>3 DEF createVXLANAndBridge
<1>3. "bridge" \in C /\ "bgp" \notin C /\ C \subseteq Steps
  BY DEF Steps, Made
<1> HIDE DEF C, U, S0
<1>4. Part(S1, O1)
  BY <1>2, AddStep DEF Steps, Made
<1>5. Part(S2, O2)
  BY <1>4, AddStep DEF Steps, Made
<1>6. Part(S3, O3)
  BY <1>5, AddStep DEF Steps, Made
<1>7. Part(S4, O4)
  BY <1>6, AddStep DEF Steps, Made
<1>8. Part(S5, O5)
  BY <1>7, AddStep DEF Steps, Made
<1>9. Part(S6, O6)
  BY <1>8, AddStep DEF Steps, Made
<1>10. Part(S7, O7)
  BY <1>9, AddStep DEF Steps, Made
<1>11. Part(S8, O8)
  BY <1>10, AddStep DEF Steps, Made
<1>12. S8 = OverlaySetup
  BY DEF S0, OverlaySetup, addProvisionIP, addOverlayLoopback, installBlackholes,
         advertiseType5, advertiseType5Networks, advertiseType3, advertiseType2
<1>13. "bridge" \in O8 /\ "bgp" \notin O8
  BY <1>3
<1> HIDE DEF O8, S8
<1>14. Part(<<"vrf">> \o UnderlaySetup \o OverlaySetup, U \cup O8)
  <2>1. Part(OverlaySetup, O8)
    BY <1>11, <1>12
  <2>2. "provisionIP" \notin U
    BY DEF U
  <2> QED BY <1>1, <1>13, <2>1, <2>2, Concat
<1>15. \E M : Part(SetupSteps, M) /\ U \cup O8 \subseteq M
  <2>1. CASE gateway = "unnumbered"
    <3>1. Part(SetupSteps, (U \cup O8) \cup {"gatewayRoute"})
      BY <1>14, <2>1, AddStep DEF SetupSteps, installGatewayRoute, Steps, Made
    <3> QED BY <3>1
  <2>2. CASE gateway # "unnumbered"
    <3>1. Part(SetupSteps, (U \cup O8) \cup {})
      BY <1>14, <2>2, NoStep, Concat DEF SetupSteps
    <3> QED BY <3>1
  <2> QED BY <2>1, <2>2
<1>16. "bgp" \in U
  BY DEF U
<1>17. In("bgp", SetupSteps) /\ In("bridge", SetupSteps) /\ SetupSteps \in Seq(Steps) /\ Sorted(SetupSteps)
  BY <1>13, <1>15, <1>16 DEF Part
<1>18. ~In("bgp", <<>>)
  BY SMT DEF In
<1> QED BY <1>17, <1>18

LEMMA DownFacts ==
    /\ StackDown \in Seq(Steps)
    /\ \A r \in Resources : In(Remover(r), StackDown)
<1>1. /\ OverlayDown \in Seq(Steps) /\ UnderlayDown \in Seq(Steps) /\ VRFDown \in Seq(Steps)
      /\ <<"gatewayRoute">> \in Seq(Steps) /\ <<"vtepRoutes">> \in Seq(Steps)
  BY SMT DEF OverlayDown, UnderlayDown, VRFDown, Steps, Made
<1> DEFINE A == <<"gatewayRoute">> \o OverlayDown
           B == A \o <<"vtepRoutes">>
           D == B \o UnderlayDown
<1>2. A \in Seq(Steps) /\ \A r : In(r, A) <=> In(r, <<"gatewayRoute">>) \/ In(r, OverlayDown)
  BY <1>1, InConcat
<1> HIDE DEF A
<1>3. B \in Seq(Steps) /\ \A r : In(r, B) <=> In(r, A) \/ In(r, <<"vtepRoutes">>)
  BY <1>1, <1>2, InConcat
<1> HIDE DEF B
<1>4. D \in Seq(Steps) /\ \A r : In(r, D) <=> In(r, B) \/ In(r, UnderlayDown)
  BY <1>1, <1>3, InConcat
<1> HIDE DEF D
<1>5. D \o VRFDown \in Seq(Steps) /\ \A r : In(r, D \o VRFDown) <=> In(r, D) \/ In(r, VRFDown)
  BY <1>1, <1>4, InConcat
<1>6. StackDown = D \o VRFDown
  BY DEF StackDown, A, B, D
<1>7. /\ In("gatewayRoute", <<"gatewayRoute">>) /\ In("vtepRoutes", <<"vtepRoutes">>)
      /\ \A r \in {"watch", "type2State", "gatewayFDB", "loopback", "blackholes", "bridge", "vxlan"} : In(r, OverlayDown)
      /\ \A r \in {"bgp", "nics", "dummy"} : In(r, UnderlayDown)
      /\ In("vrf", VRFDown)
  BY SMT DEF In, OverlayDown, UnderlayDown, VRFDown
<1>8. ASSUME NEW r \in Resources PROVE In(Remover(r), D \o VRFDown)
  BY <1>2, <1>3, <1>4, <1>5, <1>7 DEF Remover, OnBridge, Holds, Resources, Made
<1> QED BY <1>5, <1>6, <1>8

LEMMA CleanupFacts ==
    ASSUME NEW step
    PROVE  /\ CleanupAfter(step) \in Seq(Steps)
           /\ \A r \in Resources : In(Remover(r), CleanupAfter(step))
<1>1. OverlayDown \in Seq(Steps) /\ UnderlayDown \in Seq(Steps) /\ VRFDown \in Seq(Steps)
  BY SMT DEF OverlayDown, UnderlayDown, VRFDown, Steps, Made
<1>2. OverlayDown \o UnderlayDown \in Seq(Steps)
  BY <1>1, InConcat
<1>3. OverlayDown \o UnderlayDown \o VRFDown \in Seq(Steps)
  BY <1>1, <1>2, InConcat
<1> DEFINE first == IF In(step, OverlaySetup) THEN OverlayDown \o UnderlayDown \o VRFDown
                    ELSE IF In(step, UnderlaySetup) THEN VRFDown ELSE <<>>
<1>4. first \in Seq(Steps)
  BY <1>1, <1>3, SMT
<1>5. CleanupAfter(step) = first \o StackDown
  BY DEF CleanupAfter
<1> HIDE DEF first
<1> QED BY <1>4, <1>5, DownFacts, InConcat
-----------------------------------------------------------------------------
LEMMA InitSInv == SInit => SInv
<1> SUFFICES ASSUME SInit PROVE SInv
  OBVIOUS
<1> USE DEF SInit
<1>1. STypeOK
  BY SetupFacts DEF STypeOK
<1>2. LinksKept /\ StuckWhole
  BY DEF LinksKept, StuckWhole
<1>3. InOrder
  BY SetupFacts DEF InOrder
<1>4. Accounted
  BY DEF Accounted, Ours
<1> QED BY <1>1, <1>2, <1>3, <1>4 DEF SInv

(* A resource that a step of Setup has made is accounted for, as are the     *)
(* ones before.                                                              *)
LEMMA MadeIsAccounted ==
    ASSUME SInv, phase \in {"setup", "wait"}, NEW N \in SUBSET Resources,
           present' \subseteq present \cup N, present \subseteq present',
           owned \subseteq owned',
           \A r \in N \ (OnBridge \cup {"remoteFDB"}) : r \in owned' \/ r \in Links \cap present,
           N \cap Holds("bgp") # {} => "bgp" \in present \cap owned,
           N \cap OnBridge # {} => "bridge" \in present,
           "remoteFDB" \in N => "vxlan" \in present,
           UNCHANGED <<pre, stuck>>, phase' \in {"setup", "wait"}
    PROVE  Accounted'
<1> SUFFICES ASSUME NEW q \in Ours'
             PROVE  Remover(q) \in present' /\ Mine(Remover(q))'
  BY DEF Accounted
<1>1. CASE q \in Ours
  <2>1. Remover(q) \in present /\ Mine(Remover(q))
    BY <1>1 DEF SInv, Accounted
  <2> QED BY <2>1 DEF Mine
<1>2. CASE q \notin Ours
  <2>1. q \in N /\ q \in present' /\ q \notin present /\ q \notin stuck /\ q \notin OnForeignLinks
    BY <1>2 DEF Ours, OnForeignLinks
  <2>2. ASSUME NEW l \in {"bridge", "vxlan"}, l \in present, l \notin pre, q \in Holds(l)
        PROVE  l \in owned
    <3>1. l \in Ours
      BY <2>1, <2>2 DEF Ours, OnForeignLinks, SInv, StuckWhole
    <3> QED BY <3>1 DEF SInv, Accounted, Remover, OnBridge, Mine, Holds
  <2>3. CASE q \in Holds("bgp")
    <3>1. "bgp" \in present \cap owned
      BY <2>1, <2>3
    <3>2. Remover(q) = "bgp"
      BY <2>3 DEF Remover, OnBridge, Holds
    <3> QED BY <3>1, <3>2 DEF Mine
  <2>4. CASE q \in OnBridge
    <3>1. "bridge" \in present /\ "bridge" \notin pre
      BY <2>1, <2>4 DEF OnForeignLinks, OnBridge
    <3>2. "bridge" \in owned
      BY <2>2, <2>4, <3>1 DEF OnBridge, Holds
    <3> QED BY <2>4, <3>1, <3>2 DEF Remover, OnBridge, Mine, Holds
  <2>5. CASE q = "remoteFDB"
    <3>1. "vxlan" \in present /\ "vxlan" \notin pre
      BY <2>1, <2>5 DEF OnForeignLinks
    <3>2. "vxlan" \in owned
      BY <2>2, <2>5, <3>1 DEF Holds
    <3> QED BY <2>5, <3>1, <3>2 DEF Remover, OnBridge, Mine, Holds
  <2>6. CASE q \notin Holds("bgp") \cup OnBridge \cup {"remoteFDB"}
    <3>1. q \in owned'
      BY <2>1, <2>6
    <3> QED BY <2>1, <2>6, <3>1 DEF Remover, Mine
  <2> QED BY <2>3, <2>4, <2>5, <2>6
<1> QED BY <1>1, <1>2

(* The carriers of a resource are there when Setup comes to it. *)
LEMMA CarrierFirst ==
    ASSUME SInv, phase = "setup", todo # <<>>
    PROVE  /\ Head(todo) \in Holds("bgp") => "bgp" \in present \cap owned
           /\ Head(todo) = "provisionIP" => "bridge" \in present
<1>1. todo \in Seq(Steps) /\ Sorted(todo)
  BY DEF SInv, STypeOK, InOrder
<1>2. Head(todo) \in Holds("bgp") => ~In("bgp", todo)
  BY <1>1, TailSteps DEF Sorted
<1>3. Head(todo) = "provisionIP" => ~In("bridge", todo)
  BY <1>1, TailSteps DEF Sorted
<1> QED BY <1>2, <1>3 DEF SInv, InOrder

(* The rest of Setup stays in order. *)
LEMMA RestInOrder ==
    ASSUME SInv, phase = "setup", todo # <<>>, todo' = Tail(todo),
           present \subseteq present', owned \subseteq owned',
           Head(todo) = "bgp" => "bgp" \in present' \cap owned',
           Head(todo) = "bridge" => "bridge" \in present'
    PROVE  InOrder'
<1>1. todo \in Seq(Steps) /\ Sorted(todo)
  BY DEF SInv, STypeOK, InOrder
<1>2. Sorted(todo)'
  BY <1>1, TailSteps DEF Sorted
<1>3. In("bgp", todo)' \/ "bgp" \in present' \cap owned'
  <2>1. In("bgp", todo) /\ "bgp" # Head(todo) => In("bgp", Tail(todo))
    BY <1>1, TailSteps
  <2> QED BY <2>1 DEF SInv, InOrder
<1>4. In("bridge", todo)' \/ "bridge" \in present'
  <2>1. In("bridge", todo) /\ "bridge" # Head(todo) => In("bridge", Tail(todo))
    BY <1>1, TailSteps
  <2> QED BY <2>1 DEF SInv, InOrder
<1> QED BY <1>2, <1>3, <1>4 DEF InOrder

LEMMA SetupStepKeeps == ASSUME SInv, SetupStep PROVE SInv'
<1> DEFINE r == Head(todo)
<1>1. /\ phase = "setup" /\ todo # <<>> /\ todo' = Tail(todo) /\ phase' \in {"setup", "wait"}
      /\ UNCHANGED <<pre, stuck, gateway>>
  BY DEF SetupStep
<1>2. r \in Steps /\ todo' \in Seq(Steps)
  BY <1>1, TailSteps DEF SInv, STypeOK
<1>3. \/ r = "attach" /\ present' = present /\ owned' = owned
      \/ r # "attach" /\ present' = present \cup {r} /\ owned' = Record(r)
  BY DEF SetupStep
<1>4. owned \subseteq owned' /\ (r # "attach" => r \in owned' \/ r \in Links \cap present)
  BY <1>3 DEF Record
<1> HIDE DEF r
<1>5. STypeOK'
  BY <1>1, <1>2, <1>3 DEF SInv, STypeOK, Steps, Resources
<1>6. LinksKept' /\ StuckWhole'
  BY <1>1, <1>3 DEF SInv, LinksKept, StuckWhole, Record
<1>7. InOrder'
  <2>1. r = "bgp" => "bgp" \in present' \cap owned'
    BY <1>3 DEF Record, Links
  <2>2. r = "bridge" => "bridge" \in present'
    BY <1>3
  <2> QED BY <1>1, <1>3, <1>4, <2>1, <2>2, RestInOrder DEF r
<1>8. Accounted'
  <2>1. CASE r = "attach"
    BY <1>1, <1>3, <2>1 DEF SInv, Accounted, Ours, OnForeignLinks, Mine
  <2>2. CASE r # "attach"
    <3>1. {r} \in SUBSET Resources /\ r \notin {"type5Routes", "remoteFDB"} /\ present' = present \cup {r}
      BY <1>2, <1>3, <2>2 DEF Steps, Made, Resources
    <3>2. /\ {r} \cap Holds("bgp") # {} => "bgp" \in present \cap owned
          /\ {r} \cap OnBridge # {} => "bridge" \in present
      BY <1>1, <3>1, CarrierFirst DEF r, OnBridge
    <3>3. \A x \in {r} \ (OnBridge \cup {"remoteFDB"}) : x \in owned' \/ x \in Links \cap present
      BY <1>4, <2>2
    <3> QED BY <1>1, <1>4, <3>1, <3>2, <3>3, MadeIsAccounted
  <2> QED BY <2>1, <2>2
<1> QED BY <1>5, <1>6, <1>7, <1>8 DEF SInv

(* A Teardown that begins comes to all that is accounted for. *)
LEMMA BeginTeardown ==
    ASSUME STypeOK', NEW d, d \in Seq(Steps), \A r \in Resources : In(Remover(r), d),
           todo' = d, phase' = "teardown",
           \A r \in Ours' : Remover(r) \in present' /\ Mine(Remover(r))'
    PROVE  Accounted'
  BY DEF Accounted, STypeOK, Ours

LEMMA SetupFailsKeeps == ASSUME SInv, SetupFails PROVE SInv'
<1> DEFINE r == Head(todo)
           fatal == r \notin {"gatewayFDB", "gatewayRoute"}
<1>1. /\ phase = "setup" /\ todo # <<>> /\ UNCHANGED <<pre, stuck, gateway>>
  BY DEF SetupFails
<1>2. r \in Steps /\ Tail(todo) \in Seq(Steps)
  BY <1>1, TailSteps DEF SInv, STypeOK
<1>3. PICK added \in {{}, {r} \cap (Links \cup {"dummy", "nics", "bgp", "blackholes", "loopback"})} :
        present' = present \cup added /\ owned' = IF added = {} THEN owned ELSE Record(r)
  BY DEF SetupFails
<1>4. /\ fatal => phase' = "teardown" /\ todo' = CleanupAfter(r)
      /\ ~fatal => phase' \in {"setup", "wait"} /\ todo' = Tail(todo)
  BY DEF SetupFails
<1>5. /\ added = {} \/ (added = {r} /\ r \in Links \cup {"dummy", "nics", "bgp", "blackholes", "loopback"})
      /\ owned \subseteq owned' /\ (added # {} => r \in owned' \/ r \in Links \cap present)
  BY <1>3 DEF Record
<1> HIDE DEF r, fatal
<1>6. STypeOK'
  <2>1. todo' \in Seq(Steps)
    BY <1>2, <1>4, CleanupFacts
  <2>2. present' \ pre' \subseteq Resources
    BY <1>1, <1>3, <1>5 DEF SInv, STypeOK, Resources, Made, Links
  <2> QED BY <1>1, <1>4, <2>1, <2>2 DEF SInv, STypeOK
<1>7. LinksKept' /\ StuckWhole'
  BY <1>1, <1>3, <1>5 DEF SInv, LinksKept, StuckWhole, Record
<1>8. \A q \in Ours' : Remover(q) \in present' /\ Mine(Remover(q))'
  <2> TAKE q \in Ours'
  <2>1. CASE q \in Ours
    <3>1. Remover(q) \in present /\ Mine(Remover(q))
      BY <2>1 DEF SInv, Accounted
    <3> QED BY <1>3, <1>5, <3>1 DEF Mine
  <2>2. CASE q \notin Ours
    <3>1. q = r /\ r \in present' /\ r \notin present /\ added # {}
      BY <1>1, <1>3, <1>5, <2>2 DEF Ours, OnForeignLinks
    <3>2. r \in owned' /\ r \notin Holds("bgp") \cup OnBridge \cup {"remoteFDB"}
      BY <1>5, <3>1 DEF Holds, Links, OnBridge
    <3> QED BY <3>1, <3>2 DEF Remover, Mine
  <2> QED BY <2>1, <2>2
<1>9. Accounted' /\ InOrder'
  <2>1. CASE fatal
    <3>1. Accounted'
      BY <1>4, <1>6, <1>8, <2>1, CleanupFacts, BeginTeardown
    <3> QED BY <1>4, <2>1, <3>1 DEF InOrder
  <2>2. CASE ~fatal
    <3>1. InOrder'
      BY <1>1, <1>3, <1>4, <1>5, <2>2, RestInOrder DEF r, fatal
    <3> QED BY <1>4, <1>8, <2>2, <3>1 DEF Accounted
  <2> QED BY <2>1, <2>2
<1> QED BY <1>6, <1>7, <1>9 DEF SInv

LEMMA RouteKeeps ==
    ASSUME SInv, ensureGatewayRoute \/ ensureVTEPRoute \/ processRouteUpdate
    PROVE  SInv'
<1> DEFINE Learned == {"type5Routes", "remoteFDB", "type2State"}
<1>1. PICK N \in SUBSET ({"gatewayRoute", "vtepRoutes"} \cup Learned) :
        /\ present' = present \cup N /\ owned' = owned \cup (N \ {"type5Routes", "remoteFDB"})
        /\ N \cap Learned # {} => {"bridge", "vxlan"} \subseteq present
  <2>1. CASE ensureGatewayRoute
    <3>1. present' = present \cup {"gatewayRoute"} /\ owned' = owned \cup ({"gatewayRoute"} \ {"type5Routes", "remoteFDB"})
      BY <2>1 DEF ensureGatewayRoute
    <3>2. {"gatewayRoute"} \cap Learned = {}
      OBVIOUS
    <3> QED BY <3>1, <3>2
  <2>2. CASE ensureVTEPRoute
    <3>1. present' = present \cup {"vtepRoutes"} /\ owned' = owned \cup ({"vtepRoutes"} \ {"type5Routes", "remoteFDB"})
      BY <2>2 DEF ensureVTEPRoute
    <3>2. {"vtepRoutes"} \cap Learned = {}
      OBVIOUS
    <3> QED BY <3>1, <3>2
  <2>3. CASE processRouteUpdate
    <3>1. PICK new \in {{"type5Routes", "remoteFDB"}, {"remoteFDB"}, {"type2State"}} :
            present' = present \cup new /\ owned' = owned \cup (new \cap {"type2State"})
      BY <2>3 DEF processRouteUpdate
    <3>2. new \in SUBSET Learned /\ new \cap {"type2State"} = new \ {"type5Routes", "remoteFDB"}
      OBVIOUS
    <3> QED BY <2>3, <3>1, <3>2 DEF processRouteUpdate
  <2> QED BY <2>1, <2>2, <2>3
<1>2. phase \in {"setup", "wait"} /\ UNCHANGED <<pre, stuck, phase, todo, gateway>>
  BY DEF ensureGatewayRoute, ensureVTEPRoute, processRouteUpdate
<1>3. N \in SUBSET Resources /\ N \cap (Links \cup Holds("bgp") \cup {"provisionIP"}) = {}
  BY DEF Resources, Made, Links, Holds
<1>4. STypeOK'
  BY <1>1, <1>2, <1>3 DEF SInv, STypeOK
<1>5. LinksKept' /\ StuckWhole' /\ InOrder'
  BY <1>1, <1>2, <1>3 DEF SInv, LinksKept, StuckWhole, InOrder, In, Sorted, Ordered
<1>6. Accounted'
  <2>1. \A r \in N \ (OnBridge \cup {"remoteFDB"}) : r \in owned'
    BY <1>1 DEF OnBridge
  <2>2. N \cap Holds("bgp") = {}
    BY <1>3
  <2>3. (N \cap OnBridge # {} => "bridge" \in present) /\ ("remoteFDB" \in N => "vxlan" \in present)
    BY <1>1, <1>3 DEF OnBridge
  <2> QED BY <1>1, <1>2, <1>3, <2>1, <2>2, <2>3, MadeIsAccounted
<1> QED BY <1>4, <1>5, <1>6 DEF SInv

LEMMA LeaveKeeps == ASSUME SInv, Leave PROVE SInv'
<1>1. /\ UNCHANGED <<pre, present, owned, stuck, gateway>>
      /\ phase' = "teardown" /\ todo' = StackDown
  BY DEF Leave
<1>2. STypeOK'
  BY <1>1, DownFacts DEF SInv, STypeOK
<1>3. LinksKept' /\ StuckWhole' /\ InOrder'
  BY <1>1 DEF SInv, LinksKept, StuckWhole, InOrder
<1>4. Accounted'
  <2>1. \A r \in Ours' : Remover(r) \in present' /\ Mine(Remover(r))'
    BY <1>1 DEF SInv, Accounted, Ours, OnForeignLinks, Mine
  <2> QED BY <1>1, <1>2, <2>1, DownFacts, BeginTeardown
<1> QED BY <1>2, <1>3, <1>4 DEF SInv

LEMMA TeardownStepKeeps == ASSUME SInv, TeardownStep PROVE SInv'
<1> DEFINE r == Head(todo)
<1>1. /\ phase = "teardown" /\ todo # <<>> /\ todo' = Tail(todo)
      /\ UNCHANGED <<pre, phase, gateway>>
      /\ owned' = IF r \in {"bridge", "vxlan"} THEN owned ELSE owned \ {r}
  BY DEF TeardownStep
<1>2. \/ Mine(r) /\ r \in present /\ present' = present \ ({r} \cup Holds(r)) /\ stuck' = stuck
      \/ Mine(r) /\ r \in present /\ present' = present /\ stuck' = stuck \cup {r} \cup Holds(r)
      \/ ~(Mine(r) /\ r \in present) /\ present' = present /\ stuck' = stuck
  BY DEF TeardownStep
<1>3. /\ todo' \in Seq(Steps)
      /\ \A q : q # r => (In(q, todo) <=> In(q, todo'))
  BY <1>1, TailSteps DEF SInv, STypeOK
<1> HIDE DEF r
<1>4. STypeOK'
  BY <1>1, <1>2, <1>3 DEF SInv, STypeOK
<1>5. LinksKept'
  <2>1. Holds(r) \cap Links = {}
    BY DEF Holds, Links
  <2>2. r \in pre \cap Links => ~Mine(r)
    BY DEF SInv, LinksKept, Mine, Links
  <2> QED BY <1>1, <1>2, <2>1, <2>2 DEF SInv, LinksKept
<1>6. StuckWhole'
  <2>1. {"bridge", "vxlan"} \cap Holds(r) = {}
    BY DEF Holds
  <2> QED BY <1>2, <2>1 DEF SInv, StuckWhole
<1>7. InOrder'
  BY <1>1 DEF InOrder
<1>8. ASSUME NEW q \in Ours' PROVE Remover(q) \in present' /\ Mine(Remover(q))' /\ In(Remover(q), todo')
  <2>1. q \in Ours /\ q \in present' /\ q \notin stuck'
    BY <1>1, <1>2, <1>8 DEF Ours, OnForeignLinks
  <2>2. Remover(q) \in present /\ Mine(Remover(q)) /\ In(Remover(q), todo)
    BY <1>1, <2>1 DEF SInv, Accounted
  <2>3. q = Remover(q) \/ q \in Holds(Remover(q))
    BY DEF Remover, OnBridge, Holds
  <2>4. Remover(q) # r
    BY <1>2, <2>1, <2>2, <2>3
  <2>5. Remover(q) \in Holds(r) => q = Remover(q)
    BY DEF Remover, OnBridge, Holds
  <2>6. Remover(q) \in present'
    BY <1>2, <2>1, <2>2, <2>4, <2>5
  <2> QED BY <1>1, <1>3, <2>2, <2>4, <2>6 DEF Mine
<1>9. Accounted'
  BY <1>1, <1>8 DEF Accounted
<1> QED BY <1>4, <1>5, <1>6, <1>7, <1>9 DEF SInv

LEMMA AgainKeeps == ASSUME SInv, Again PROVE SInv'
<1>1. /\ phase = "teardown" /\ todo = <<>> /\ owned' = {}
      /\ UNCHANGED <<pre, present, stuck, gateway>>
      /\ \/ phase' = "setup" /\ todo' = SetupSteps
         \/ phase' = "over" /\ todo' = todo
  BY DEF Again
<1>2. Ours = {}
  BY <1>1, SMT DEF SInv, Accounted, In
<1>3. Ours' = {}
  BY <1>1, <1>2 DEF Ours, OnForeignLinks
<1>4. STypeOK'
  BY <1>1, SetupFacts DEF SInv, STypeOK
<1>5. LinksKept' /\ StuckWhole'
  BY <1>1 DEF SInv, LinksKept, StuckWhole
<1>6. SetupSteps' = SetupSteps
  BY <1>1 DEF SetupSteps, UnderlaySetup, OverlaySetup, createVXLANAndBridge
<1>7. InOrder'
  BY <1>1, SetupFacts DEF SInv, STypeOK, InOrder
<1>8. Accounted'
  BY <1>3 DEF Accounted
<1> QED BY <1>4, <1>5, <1>7, <1>8 DEF SInv

LEMMA SInvStep == SInv /\ [SNext]_svars => SInv'
<1> SUFFICES ASSUME SInv, [SNext]_svars PROVE SInv'
  OBVIOUS
<1>1. CASE UNCHANGED svars
  BY <1>1 DEF svars, SInv, STypeOK, LinksKept, StuckWhole, InOrder, Accounted, Ours, OnForeignLinks, Mine, In, Sorted, Ordered
<1> QED BY <1>1, SetupStepKeeps, SetupFailsKeeps, RouteKeeps, LeaveKeeps, TeardownStepKeeps,
           AgainKeeps DEF SNext

(* The stack leaves the host as it found it, whatever existed before it and  *)
(* whichever steps and removals fail in whichever attempts: every resource   *)
(* it made and did not fail to remove is gone at the end, and every link     *)
(* that was there before is still there.                                     *)
THEOREM StackLeavesNoTraceAlways == SSpec => []StackLeavesNoTrace
<1>1. SInv => StackLeavesNoTrace
  BY DEF SInv, Accounted, Ours, LinksKept, StackLeavesNoTrace
<1> QED BY InitSInv, SInvStep, <1>1, PTL DEF SSpec

-----------------------------------------------------------------------------
(* NetUp: what exists is excused or will be taken down. *)

Managed == {"systemctl", "frrinit"}
Methods == {"systemctl", "frrinit", "direct", "none"}

(* A stop will find the daemons that run, except those excused before: by   *)
(* the command that started them, by the list, or by the best effort.       *)
DaemonsKnown ==
    \/ have \cap Daemons \subseteq undeleted \cup frr.list
    \/ frr.method \in Managed
    \/ frr.method = "none" /\ frr.list = {} /\ nj.frr \cap Managed # {}

(* What the teardown of the mode takes down. *)
Own == IF netMode = "frr" THEN FrrLinks \cup Daemons ELSE OwnObjects

(* The setup is on its way, or the network is in use. *)
Running == {"wait", "up", "retry", "stop"}
Starting == {"bond", "vlans", "mode", "dhcp", "frr start", "frr rollback"}

(* The types that the steps below need. *)
NTyped ==
    /\ npc \in Starting \cup Running \cup {"resolvers", "failed", "down"}
    /\ netMode \in {"none", "links", "gobgp", "frr", "static", "dhcp"}
    /\ frr \in [method : Methods, list : SUBSET Daemons]
    /\ layers \subseteq {"bond", "vlan1", "vlan2"}

(* What the setup has not done yet. *)
NOrder ==
    /\ npc \in Starting \cup {"down"} => netMode = "none"
    /\ npc = "bond" => layers = {}
    /\ npc \in {"frr start", "frr rollback"} => frr.method = "none"
    /\ npc = "frr start" => frr.list = {}

(* At each point everything that exists is excused or is what the next      *)
(* rollback or teardown takes down.                                         *)
NCovered ==
    /\ npc \in {"bond", "failed", "down"} => have \subseteq Excused
    /\ npc \in {"vlans", "mode", "dhcp"} => have \subseteq Excused \cup layers
    /\ npc = "frr start" => have \subseteq Excused \cup layers \cup FrrLinks
    /\ npc = "frr rollback" => have \subseteq Excused \cup layers \cup FrrLinks \cup frr.list
    /\ npc = "resolvers" => have \subseteq Excused \cup layers \cup Own
    /\ npc \in Running => have \subseteq Excused \cup layers \cup Own \cup {"lldp"}
    /\ netMode = "frr" /\ npc # "failed" => DaemonsKnown
    /\ "lldp" \notin undeleted

NInv == NTyped /\ NOrder /\ NCovered

(* The configuration does not change, so what is excused goes by what failed. *)
LEMMA ExcusedNext ==
    ASSUME nj' = nj
    PROVE  Excused' = undeleted' \cup Overlooked /\ (undeleted' = undeleted => Excused' = Excused)
  BY DEF Excused, Overlooked

(* The VXLAN is no daemon, so a daemon is excused when a call has failed. *)
LEMMA ExcusedDaemons == Daemons \cap Excused \subseteq undeleted
  BY DEF Excused, Overlooked, Daemons, Required, Optional

(* A teardown of FRR removes the links that it does not overlook. *)
LEMMA LinksCleaned == FrrLinks \subseteq CleanedLinks \cup Excused /\ CleanedLinks \subseteq FrrLinks
  BY DEF CleanedLinks, Excused

(* A removal leaves what was excused, what it is to keep, and what failed. *)
LEMMA RemoveLeaves ==
    ASSUME NEW before, NEW objs, NEW bad, NEW keep, RemoveAll(before, objs, bad), nj' = nj,
           before \subseteq Excused \cup keep \cup objs \cup bad
    PROVE  have' \subseteq Excused' \cup keep
  <1>1. Excused' = undeleted' \cup Overlooked
    BY ExcusedNext
  <1>2. before \subseteq undeleted \cup Overlooked \cup keep \cup objs \cup bad
    BY DEF Excused
  <1>3. have' \subseteq undeleted' \cup Overlooked \cup keep
    BY <1>2, SMT DEF RemoveAll
  <1>4. QED
    BY <1>1, <1>3

(* It makes nothing, and excuses only what failed. *)
LEMMA RemoveExcuses ==
    ASSUME NEW before, NEW objs, NEW bad, RemoveAll(before, objs, bad)
    PROVE  have' \subseteq before /\ undeleted' \subseteq undeleted \cup bad
  BY DEF RemoveAll

(* The same for a removal in which any of the objects may fail. *)
LEMMA RemovesLeaves ==
    ASSUME NEW before, NEW objs, NEW cost, NEW keep, Removes(before, objs, cost), nj' = nj,
           before \subseteq Excused \cup keep \cup objs, "lldp" \notin undeleted, "lldp" \notin objs
    PROVE  have' \subseteq Excused' \cup keep /\ have' \subseteq before /\ "lldp" \notin undeleted'
  <1>1. PICK bad \in SUBSET (objs \cap before) : RemoveAll(before, objs, bad)
    BY DEF Removes
  <1>2. have' \subseteq Excused' \cup keep
    BY <1>1, RemoveLeaves
  <1>3. have' \subseteq before /\ undeleted' \subseteq undeleted \cup bad
    BY <1>1, RemoveExcuses
  <1>4. QED
    BY <1>1, <1>2, <1>3

-----------------------------------------------------------------------------
FrrStates == [up : SUBSET Daemons, method : Methods, list : SUBSET Daemons, cost : Int]

(* The record of the FRR manager keeps its type when a field changes. *)
LEMMA FrrUpdates ==
    ASSUME NEW f \in FrrStates
    PROVE  /\ f.up \in SUBSET Daemons /\ f.method \in Methods /\ f.list \in SUBSET Daemons /\ f.cost \in Int
           /\ \A u \in SUBSET Daemons : [f EXCEPT !.up = u] \in FrrStates
           /\ \A l \in SUBSET Daemons : [f EXCEPT !.list = l] \in FrrStates
           /\ \A m \in Methods : [f EXCEPT !.method = m] \in FrrStates
           /\ \A c \in Int : [f EXCEPT !.cost = c] \in FrrStates
  BY DEF FrrStates

(* A change of one field leaves the others alone. *)
LEMMA SetUp ==
    ASSUME NEW f \in FrrStates, NEW v \in SUBSET Daemons
    PROVE  /\ [f EXCEPT !.up = v] \in FrrStates
           /\ [f EXCEPT !.up = v].up = v
           /\ [f EXCEPT !.up = v].list = f.list
           /\ [f EXCEPT !.up = v].method = f.method
           /\ [f EXCEPT !.up = v].cost = f.cost
  <1>1. [f EXCEPT !.up = v] \in FrrStates
    BY FrrUpdates
  <1>2. QED
    BY <1>1 DEF FrrStates

LEMMA SetList ==
    ASSUME NEW f \in FrrStates, NEW v \in SUBSET Daemons
    PROVE  /\ [f EXCEPT !.list = v] \in FrrStates
           /\ [f EXCEPT !.list = v].up = f.up
           /\ [f EXCEPT !.list = v].list = v
           /\ [f EXCEPT !.list = v].method = f.method
           /\ [f EXCEPT !.list = v].cost = f.cost
  <1>1. [f EXCEPT !.list = v] \in FrrStates
    BY FrrUpdates
  <1>2. QED
    BY <1>1 DEF FrrStates

LEMMA SetMethod ==
    ASSUME NEW f \in FrrStates, NEW v \in Methods
    PROVE  /\ [f EXCEPT !.method = v] \in FrrStates
           /\ [f EXCEPT !.method = v].up = f.up
           /\ [f EXCEPT !.method = v].list = f.list
           /\ [f EXCEPT !.method = v].method = v
           /\ [f EXCEPT !.method = v].cost = f.cost
  <1>1. [f EXCEPT !.method = v] \in FrrStates
    BY FrrUpdates
  <1>2. QED
    BY <1>1 DEF FrrStates

LEMMA SetCost ==
    ASSUME NEW f \in FrrStates, NEW v \in Int
    PROVE  /\ [f EXCEPT !.cost = v] \in FrrStates
           /\ [f EXCEPT !.cost = v].up = f.up
           /\ [f EXCEPT !.cost = v].list = f.list
           /\ [f EXCEPT !.cost = v].method = f.method
           /\ [f EXCEPT !.cost = v].cost = v
  <1>1. [f EXCEPT !.cost = v] \in FrrStates
    BY FrrUpdates
  <1>2. QED
    BY <1>1 DEF FrrStates

(* A stop by signals empties the list, or keeps it and has failed. *)
LEMMA StopDirect ==
    ASSUME NEW f \in FrrStates, NEW g \in stopDaemonsDirect(f)
    PROVE  /\ g \in FrrStates /\ f.cost <= g.cost
           /\ g.up \subseteq f.up
           /\ \/ g.up = f.up \ f.list /\ g.list = {} /\ g.method = "none" /\ g.cost = f.cost
              \/ g.list = f.list /\ g.method = f.method /\ g.cost > f.cost
  <1>1. CASE g = [f EXCEPT !.up = @ \ f.list, !.list = {}, !.method = "none"]
    <2>1. f.up \ f.list \in SUBSET Daemons /\ {} \in SUBSET Daemons /\ "none" \in Methods
      BY FrrUpdates DEF Methods
    <2>2. g \in FrrStates
      BY <1>1, <2>1, FrrUpdates
    <2>3. g.up = f.up \ f.list /\ g.list = {} /\ g.method = "none" /\ g.cost = f.cost
      BY <1>1 DEF FrrStates
    <2>4. QED
      BY <2>2, <2>3, FrrUpdates, SMT
  <1>2. ASSUME NEW s \in SUBSET f.list, g = [f EXCEPT !.up = @ \ s, !.cost = @ + 1]
        PROVE  /\ g \in FrrStates /\ f.cost <= g.cost /\ g.up \subseteq f.up
               /\ g.list = f.list /\ g.method = f.method /\ g.cost > f.cost
    <2>1. f.up \ s \in SUBSET Daemons
      BY FrrUpdates
    <2>2. f.cost + 1 \in Int
      BY FrrUpdates, SMT
    <2>3. g \in FrrStates
      <3> DEFINE h == [f EXCEPT !.up = @ \ s]
      <3>1. h \in FrrStates /\ g = [h EXCEPT !.cost = f.cost + 1]
        BY <1>2, <2>1, FrrUpdates DEF FrrStates
      <3>2. QED
        BY <2>2, <3>1, FrrUpdates
    <2>4. g.up = f.up \ s /\ g.list = f.list /\ g.method = f.method /\ g.cost = f.cost + 1
      BY <1>2 DEF FrrStates
    <2>5. QED
      BY <2>3, <2>4, FrrUpdates, SMT
  <1>3. QED
    BY <1>1, <1>2 DEF stopDaemonsDirect

(* A started daemon is on the list. *)
LEMMA Track ==
    ASSUME NEW f \in FrrStates, NEW ds \in SUBSET Daemons
    PROVE  /\ trackDirectDaemon(f, ds) \in FrrStates
           /\ trackDirectDaemon(f, ds).up = f.up \cup ds /\ trackDirectDaemon(f, ds).list = f.list \cup ds
           /\ trackDirectDaemon(f, ds).method = f.method /\ trackDirectDaemon(f, ds).cost = f.cost
  <1> DEFINE h == [f EXCEPT !.up = @ \cup ds]
             i == [h EXCEPT !.list = f.list \cup ds]
  <1>1. f.up \cup ds \in SUBSET Daemons /\ f.list \cup ds \in SUBSET Daemons
    BY FrrUpdates
  <1>2. h \in FrrStates /\ h.up = f.up \cup ds /\ h.list = f.list /\ h.method = f.method /\ h.cost = f.cost
    BY <1>1, SetUp
  <1>3. i = trackDirectDaemon(f, ds)
    BY <1>2 DEF trackDirectDaemon
  <1> HIDE DEF h
  <1>4. i \in FrrStates /\ i.up = h.up /\ i.list = f.list \cup ds /\ i.method = h.method /\ i.cost = h.cost
    BY <1>1, <1>2, SetList
  <1>5. QED
    BY <1>2, <1>3, <1>4

(* After a direct start, also a failed one, the new daemons are on the list. *)
LEMMA StartDirect ==
    ASSUME NEW f \in FrrStates, f.list = {}, f.method = "none", NEW g \in startDaemonsDirect(f)
    PROVE  /\ g \in FrrStates /\ f.cost <= g.cost
           /\ g.up \subseteq f.up \cup g.list
           /\ g.method \in {"none", "direct"}
  <1> DEFINE order == <<Optional, "zebra", "bfdd", "bgpd">>
             all(ds, c) == [trackDirectDaemon(f, ds) EXCEPT !.method = "direct", !.cost = @ + c]
             part(k) == [trackDirectDaemon(f, First(order, k)) EXCEPT !.cost = @ + 1]
  <1>1. ASSUME NEW ds \in SUBSET Daemons, NEW c \in {0, 1}, g = all(ds, c)
        PROVE  g \in FrrStates /\ f.cost <= g.cost /\ g.up = f.up \cup g.list /\ g.method = "direct"
    <2> DEFINE h == trackDirectDaemon(f, ds)
               i == [h EXCEPT !.method = "direct"]
    <2>1. h \in FrrStates /\ h.up = f.up \cup ds /\ h.list = f.list \cup ds /\ h.cost = f.cost
      BY Track
    <2>2. "direct" \in Methods /\ f.cost + c \in Int /\ f.cost <= f.cost + c
      <3>1. f.cost \in Int
        BY FrrUpdates
      <3>2. QED
        BY <3>1, SMT DEF Methods
    <2> HIDE DEF h
    <2>3. i \in FrrStates /\ i.up = h.up /\ i.list = h.list /\ i.cost = h.cost /\ i.method = "direct"
      BY <2>1, <2>2, SetMethod
    <2>4. g = [i EXCEPT !.cost = f.cost + c]
      BY <1>1, <2>1, <2>3 DEF h
    <2> HIDE DEF i
    <2>5. g \in FrrStates /\ g.up = i.up /\ g.list = i.list /\ g.cost = f.cost + c /\ g.method = i.method
      BY <2>2, <2>3, <2>4, SetCost
    <2>6. QED
      BY <2>1, <2>2, <2>3, <2>5
  <1>2. ASSUME NEW k \in 1 .. 3, g \in stopDaemonsDirect(part(k))
        PROVE  g \in FrrStates /\ f.cost <= g.cost /\ g.up \subseteq f.up \cup g.list /\ g.method = "none"
    <2>1. First(order, k) \in SUBSET Daemons
      BY SMT DEF First, Daemons, Required, Optional
    <2> HIDE DEF order
    <2> DEFINE ds == First(order, k)
               h == trackDirectDaemon(f, ds)
    <2>2. h \in FrrStates /\ h.up = f.up \cup ds /\ h.list = f.list \cup ds /\ h.cost = f.cost /\ h.method = "none"
      BY <2>1, Track
    <2>3. f.cost + 1 \in Int
      BY FrrUpdates, SMT
    <2>4. part(k) = [h EXCEPT !.cost = f.cost + 1]
      BY <2>2
    <2> HIDE DEF part, ds, h
    <2>5. /\ part(k) \in FrrStates /\ part(k).cost = f.cost + 1 /\ part(k).list = h.list
          /\ part(k).up = h.up /\ part(k).method = h.method
      <3>1. LET p == [h EXCEPT !.cost = f.cost + 1]
            IN  p \in FrrStates /\ p.cost = f.cost + 1 /\ p.list = h.list /\ p.up = h.up /\ p.method = h.method
        BY <2>2, <2>3, SetCost
      <3>2. QED
        BY <2>4, <3>1
    <2>6. /\ g \in FrrStates /\ part(k).cost <= g.cost /\ g.up \subseteq part(k).up
          /\ \/ g.up = part(k).up \ part(k).list /\ g.list = {} /\ g.method = "none"
             \/ g.list = part(k).list /\ g.method = part(k).method
      BY <1>2, <2>5, StopDirect
    <2>7. f.cost <= g.cost
      BY <2>5, <2>6, FrrUpdates, SMT
    <2>8. g.up \subseteq f.up \cup g.list /\ g.method = "none"
      BY <2>2, <2>5, <2>6
    <2>9. QED
      BY <2>6, <2>7, <2>8
  <1>3. Daemons \in SUBSET Daemons /\ Required \in SUBSET Daemons
    BY DEF Daemons
  <1>4. \/ g = f
        \/ g = all(Daemons, 0) \/ g = all(Required, 1) \/ \E k \in 1 .. 3 : g \in stopDaemonsDirect(part(k))
    BY DEF startDaemonsDirect
  <1>5. CASE g = f
    BY <1>5, FrrUpdates, SMT
  <1> HIDE DEF all, part
  <1>6. QED
    BY <1>1, <1>2, <1>3, <1>4, <1>5

(* After startFRR a command manages the daemons or the new ones are listed. *)
LEMMA StartFrr ==
    ASSUME NEW f \in FrrStates, NEW half \in SUBSET Daemons, NEW g \in startFRR(f, half)
    PROVE  /\ g \in FrrStates /\ f.cost <= g.cost
           /\ g.method \in Managed \/ g.up \subseteq f.up \cup g.list \cup half
  <1> DEFINE none == [f EXCEPT !.method = "none", !.list = {}]
             fail(x) == FailedCommand(x, {x.up \cup half})
             Fresh(x) == /\ x \in FrrStates /\ x.list = {} /\ x.method = "none" /\ f.cost <= x.cost
                         /\ x.up \subseteq f.up \cup half
             Good(x) == /\ x \in FrrStates /\ f.cost <= x.cost
                        /\ x.method \in Managed \/ x.up \subseteq f.up \cup x.list \cup half
             direct(s) == UNION {startDaemonsDirect(x) : x \in s}
             init(s) == IF "frrinit" \in nj.frr
                        THEN (UNION {Command(x, "frrinit", Daemons) : x \in s}) \cup direct(UNION {fail(x) : x \in s})
                        ELSE direct(s)
  <1>1. Fresh(none)
    <2>1. "none" \in Methods /\ {} \in SUBSET Daemons
      BY DEF Methods
    <2>2. none \in FrrStates
      BY <2>1, FrrUpdates
    <2>3. none.list = {} /\ none.method = "none" /\ none.cost = f.cost /\ none.up = f.up
      BY DEF FrrStates
    <2>4. QED
      BY <2>2, <2>3, FrrUpdates, SMT
  <1>2. ASSUME NEW x, Fresh(x), NEW y \in fail(x)
        PROVE  Fresh(y)
    <2> DEFINE u == x.up \cup half
               h == [x EXCEPT !.up = u]
    <2>1. x \in FrrStates /\ x.list = {} /\ x.method = "none" /\ f.cost <= x.cost /\ x.up \subseteq f.up \cup half
      BY <1>2
    <2>2. u \in SUBSET Daemons /\ x.cost \in Int /\ f.cost \in Int
      BY <2>1, FrrUpdates
    <2>3. h \in FrrStates /\ h.up = u /\ h.list = {} /\ h.method = "none" /\ h.cost = x.cost
      BY <2>1, <2>2, SetUp
    <2>4. y = [h EXCEPT !.cost = x.cost + 1]
      BY <2>1 DEF FailedCommand, FrrStates
    <2>5. x.cost + 1 \in Int /\ f.cost <= x.cost + 1
      BY <2>1, <2>2, SMT
    <2> HIDE DEF h
    <2>6. y \in FrrStates /\ y.up = h.up /\ y.list = h.list /\ y.method = h.method /\ y.cost = x.cost + 1
      BY <2>3, <2>4, <2>5, SetCost
    <2>7. QED
      BY <2>1, <2>3, <2>5, <2>6
  <1>3. ASSUME NEW x, Fresh(x), NEW y, NEW m \in Managed, y \in Command(x, m, Daemons)
        PROVE  Good(y)
    <2>1. y = [x EXCEPT !.up = Daemons, !.method = m] /\ x \in FrrStates /\ x.cost >= f.cost
      BY <1>3 DEF Command
    <2>2. Daemons \in SUBSET Daemons /\ m \in Methods
      BY DEF Managed, Methods
    <2> DEFINE h == [x EXCEPT !.up = Daemons]
    <2>3. h \in FrrStates /\ h.cost = x.cost
      BY <2>1, <2>2, SetUp
    <2>4. y = [h EXCEPT !.method = m]
      BY <2>1
    <2> HIDE DEF h
    <2>5. y \in FrrStates /\ y.method = m /\ y.cost = h.cost
      BY <2>2, <2>3, <2>4, SetMethod
    <2>6. QED
      BY <2>1, <2>3, <2>5
  <1>4. ASSUME NEW x, Fresh(x), NEW y \in startDaemonsDirect(x)
        PROVE  Good(y)
    <2>1. /\ y \in FrrStates /\ x.cost <= y.cost /\ y.up \subseteq x.up \cup y.list
      BY <1>4, StartDirect
    <2>2. f.cost \in Int /\ x.cost \in Int /\ y.cost \in Int
      BY <1>4, <2>1 DEF FrrStates
    <2>3. QED
      BY <1>4, <2>1, <2>2, SMT
  <1>5. g \in Command(none, "systemctl", Daemons) \/ g \in init(fail(none)) \/ g \in init({none})
    BY DEF startFRR
  <1> HIDE DEF Fresh, Good, none, fail
  <1>6. ASSUME NEW s, \A x \in s : Fresh(x), NEW y \in direct(s)
        PROVE  Good(y)
    BY <1>4, <1>6
  <1> HIDE DEF direct
  <1>7. ASSUME NEW s, \A x \in s : Fresh(x), NEW y \in init(s)
        PROVE  Good(y)
    <2>1. \A x \in UNION {fail(z) : z \in s} : Fresh(x)
      BY <1>2, <1>7
    <2>2. ASSUME NEW x \in s, y \in Command(x, "frrinit", Daemons)
          PROVE  Good(y)
      BY <1>3, <1>7, <2>2 DEF Managed
    <2>3. QED
      <3>1. CASE y \in direct(UNION {fail(x) : x \in s})
        BY <1>6, <2>1, <3>1
      <3>2. CASE y \in direct(s)
        BY <1>6, <1>7, <3>2
      <3>3. CASE y \in UNION {Command(x, "frrinit", Daemons) : x \in s}
        BY <2>2, <3>3
      <3>4. QED
        <4>1. CASE "frrinit" \in nj.frr
          <5> DEFINE commands == UNION {Command(x, "frrinit", Daemons) : x \in s}
                     started == direct(UNION {fail(x) : x \in s})
          <5>1. init(s) = commands \cup started
            BY <4>1
          <5> HIDE DEF init, commands, started
          <5>2. y \in commands \/ y \in started
            BY <5>1
          <5>3. QED
            BY <3>1, <3>3, <5>2 DEF commands, started
        <4>2. CASE "frrinit" \notin nj.frr
          BY <1>7, <3>2, <4>2
        <4>3. QED
          BY <4>1, <4>2
  <1> HIDE DEF init
  <1>8. Good(g)
    <2>1. \A x \in fail(none) : Fresh(x)
      BY <1>1, <1>2
    <2>2. \A x \in {none} : Fresh(x)
      BY <1>1
    <2>3. CASE g \in Command(none, "systemctl", Daemons)
      BY <1>1, <1>3, <2>3 DEF Managed
    <2>4. QED
      BY <1>5, <1>7, <2>1, <2>2, <2>3
  <1>9. QED
    BY <1>8 DEF Good

(* A stop will find every daemon of f, except the missed ones. *)
Known(f, missed) ==
    \/ f.up \subseteq missed \cup f.list
    \/ f.method \in Managed
    \/ f.method = "none" /\ f.list = {} /\ nj.frr \cap Managed # {}

(* A failed command keeps the method and the list, and costs. *)
LEMMA FailedStates ==
    ASSUME NEW f \in FrrStates, NEW u \in SUBSET Daemons
    PROVE  LET g == [f EXCEPT !.up = u, !.cost = @ + 1]
           IN  /\ g \in FrrStates /\ g.up = u /\ g.list = f.list /\ g.method = f.method
               /\ g.cost = f.cost + 1 /\ g.cost \in Int
  <1> DEFINE h == [f EXCEPT !.up = u]
             g == [f EXCEPT !.up = u, !.cost = @ + 1]
  <1>1. h \in FrrStates /\ h.up = u /\ h.list = f.list /\ h.method = f.method /\ h.cost = f.cost
    BY SetUp
  <1>2. g = [h EXCEPT !.cost = f.cost + 1]
    BY <1>1
  <1>3. f.cost + 1 \in Int
    BY FrrUpdates, SMT
  <1> HIDE DEF h, g
  <1>4. g \in FrrStates /\ g.up = h.up /\ g.list = h.list /\ g.method = h.method /\ g.cost = f.cost + 1
    BY <1>1, <1>2, <1>3, SetCost
  <1>5. QED
    BY <1>1, <1>3, <1>4 DEF g

(* A stop leaves no daemon but the missed ones, or a command of it has failed. *)
LEMMA StopFrr ==
    ASSUME NEW f \in FrrStates, f.cost = 0, NEW g \in stopFRR(f), NEW missed, Known(f, missed)
    PROVE  g \in FrrStates /\ g.cost >= 0 /\ (g.up \subseteq missed \/ g.cost > 0)
  <1>1. ASSUME NEW m \in Methods, g \in Command(f, m, {}) \cup FailedCommand(f, SUBSET f.up)
        PROVE  g \in FrrStates /\ g.cost >= 0 /\ (g.up \subseteq missed \/ g.cost > 0)
    <2>1. CASE g = [f EXCEPT !.up = {}, !.method = m]
      <3>1. {} \in SUBSET Daemons
        OBVIOUS
      <3>2. g \in FrrStates
        BY <2>1, <3>1, FrrUpdates
      <3>3. g.up = {} /\ g.cost = f.cost
        BY <2>1 DEF FrrStates
      <3>4. QED
        BY <3>2, <3>3, SMT
    <2>2. ASSUME NEW u \in SUBSET f.up, g = [f EXCEPT !.up = u, !.cost = @ + 1]
          PROVE  g \in FrrStates /\ g.cost >= 0 /\ g.cost > 0
      <3>1. u \in SUBSET Daemons
        BY FrrUpdates
      <3>2. g \in FrrStates /\ g.cost = f.cost + 1
        BY <2>2, <3>1, FailedStates
      <3>3. QED
        BY <3>2, SMT
    <2>3. QED
      BY <1>1, <2>1, <2>2 DEF Command, FailedCommand
  <1>2. CASE f.method \in Managed
    <2>1. g \in Command(f, f.method, {}) \cup FailedCommand(f, SUBSET f.up)
      BY <1>2 DEF stopFRR, Managed
    <2>2. QED
      BY <1>1, <2>1, FrrUpdates
  <1>3. CASE f.method \notin Managed /\ (f.method = "direct" \/ f.list # {})
    <2>1. g \in stopDaemonsDirect(f)
      BY <1>3 DEF stopFRR, Managed
    <2>2. /\ g \in FrrStates /\ f.cost <= g.cost
          /\ \/ g.up = f.up \ f.list /\ g.list = {} /\ g.method = "none"
             \/ g.list = f.list /\ g.method = f.method /\ g.cost > f.cost
      BY <2>1, StopDirect
    <2>3. f.up \subseteq missed \cup f.list
      BY <1>3 DEF Known, Managed
    <2>4. g.cost \in Int
      BY <2>2 DEF FrrStates
    <2>5. QED
      BY <2>2, <2>3, <2>4
  <1>4. CASE f.method = "none" /\ f.list = {}
    <2>1. g \in BestEffort(f, {}, SUBSET f.up)
      BY <1>4 DEF stopFRR
    <2>2. CASE nj.frr \cap Managed # {}
      <3>1. g \in Command(f, f.method, {}) \cup FailedCommand(f, SUBSET f.up)
        BY <2>1, <2>2 DEF BestEffort, Managed
      <3>2. QED
        BY <1>1, <3>1, FrrUpdates
    <2>3. CASE nj.frr \cap Managed = {}
      <3>1. g = f
        BY <2>1, <2>3 DEF BestEffort, Managed
      <3>2. QED
        BY <1>4, <2>3, <3>1, SMT DEF Known, Managed
    <2>4. QED
      BY <2>2, <2>3
  <1>5. QED
    BY <1>2, <1>3, <1>4, FrrUpdates DEF Methods, Managed

(* A command for all daemons leaves the method and the list alone. *)
LEMMA CommandFail ==
    ASSUME NEW f \in FrrStates, NEW up \in SUBSET Daemons,
           NEW g \in Command(f, f.method, up) \cup FailedCommand(f, SUBSET Daemons)
    PROVE  g \in FrrStates /\ g.method = f.method /\ g.list = f.list
  <1>1. CASE g = [f EXCEPT !.up = up, !.method = f.method]
    <2> DEFINE h == [f EXCEPT !.up = up]
    <2>1. h \in FrrStates /\ h.up = up /\ h.list = f.list /\ h.method = f.method
      BY SetUp
    <2>2. g = [h EXCEPT !.method = f.method] /\ f.method \in Methods
      BY <1>1, FrrUpdates
    <2> HIDE DEF h
    <2>3. QED
      BY <2>1, <2>2, SetMethod
  <1>2. ASSUME NEW u \in SUBSET Daemons, g = [f EXCEPT !.up = u, !.cost = @ + 1]
        PROVE  g \in FrrStates /\ g.method = f.method /\ g.list = f.list
    BY <1>2, FailedStates
  <1>3. QED
    BY <1>1, <1>2 DEF Command, FailedCommand

(* After a restart a stop finds every daemon, except the untracked ones. *)
LEMMA RestartFrr ==
    ASSUME NEW f \in FrrStates, NEW g \in restartFRR(f), NEW missed, Known(f, missed)
    PROVE  g \in FrrStates /\ Known(g, missed \cup Untracked(g))
  <1>1. CASE f.method \in Managed
    <2>1. Daemons \in SUBSET Daemons
      OBVIOUS
    <2>2. g \in Command(f, f.method, Daemons) \cup FailedCommand(f, SUBSET Daemons)
      BY <1>1 DEF restartFRR, Managed
    <2>3. QED
      BY <1>1, <2>1, <2>2, CommandFail DEF Known
  <1>2. CASE f.method = "direct"
    <2>1. f.up \subseteq missed \cup f.list
      BY <1>2 DEF Known, Managed
    <2>2. PICK h \in stopDaemonsDirect(f) : g \in IF h.method = "none" THEN startDaemonsDirect(h) ELSE {h}
      BY <1>2 DEF restartFRR
    <2>3. /\ h \in FrrStates /\ h.up \subseteq f.up
          /\ \/ h.up = f.up \ f.list /\ h.list = {} /\ h.method = "none"
             \/ h.list = f.list /\ h.method = f.method
      BY StopDirect
    <2>4. CASE h.method = "none"
      <3>1. h.list = {} /\ h.up = f.up \ f.list /\ g \in startDaemonsDirect(h)
        BY <1>2, <2>2, <2>3, <2>4
      <3>2. g \in FrrStates /\ g.up \subseteq h.up \cup g.list
        BY <2>3, <2>4, <3>1, StartDirect
      <3>3. QED
        BY <2>1, <3>1, <3>2 DEF Known
    <2>5. CASE h.method # "none"
      <3>1. g = h /\ h.list = f.list
        BY <2>2, <2>3, <2>5
      <3>2. QED
        BY <2>1, <2>3, <3>1 DEF Known
    <2>6. QED
      BY <2>4, <2>5
  <1>3. CASE f.method = "none"
    <2>1. g \in BestEffort(f, Daemons, SUBSET Daemons)
      BY <1>3 DEF restartFRR
    <2>2. CASE nj.frr \cap Managed = {}
      <3>1. g = f
        BY <2>1, <2>2 DEF BestEffort, Managed
      <3>2. QED
        BY <3>1 DEF Known
    <2>3. CASE nj.frr \cap Managed # {}
      <3>1. g \in Command(f, f.method, Daemons) \cup FailedCommand(f, SUBSET Daemons)
        BY <2>1, <2>3 DEF BestEffort, Managed
      <3>2. g \in FrrStates /\ g.method = f.method /\ g.list = f.list
        BY <3>1, CommandFail
      <3>3. CASE f.list = {}
        BY <1>3, <2>3, <3>2, <3>3 DEF Known
      <3>4. CASE f.list # {}
        <4>1. Untracked(g) = g.up \ g.list
          BY <1>3, <3>2, <3>4 DEF Untracked
        <4>2. QED
          BY <3>2, <4>1 DEF Known
      <3>5. QED
        BY <3>3, <3>4
    <2>4. QED
      BY <2>2, <2>3
  <1>4. QED
    BY <1>1, <1>2, <1>3, FrrUpdates DEF Methods, Managed

-----------------------------------------------------------------------------
LEMMA FrrOf ==
    ASSUME NTyped
    PROVE  LET f == Frr(have \cap Daemons)
           IN  /\ f \in FrrStates /\ f.up = have \cap Daemons /\ f.method = frr.method /\ f.list = frr.list
               /\ f.cost = 0
  <1>1. frr.method \in Methods /\ frr.list \in SUBSET Daemons /\ have \cap Daemons \in SUBSET Daemons
    BY DEF NTyped
  <1>2. QED
    BY <1>1, SMT DEF Frr, FrrStates

(* What they return is a state of the manager. *)
LEMMA FrrTyped ==
    ASSUME NEW f \in FrrStates
    PROVE  [method |-> f.method, list |-> f.list] \in [method : Methods, list : SUBSET Daemons]
  BY FrrUpdates

(* The teardown of the manager leaves what it is to keep and what failed. *)
LEMMA FrrTeardownLeaves ==
    ASSUME NEW under, NEW cost, NEW keep, frrTeardown(under, cost), NTyped, DaemonsKnown, nj' = nj,
           "lldp" \notin undeleted, "lldp" \notin under,
           have \subseteq Excused \cup keep \cup under \cup FrrLinks \cup Daemons
    PROVE  /\ have' \subseteq Excused' \cup keep
           /\ "lldp" \notin undeleted'
           /\ frr' \in [method : Methods, list : SUBSET Daemons]
  <1> DEFINE f0 == Frr(have \cap Daemons)
             objs == CleanedLinks \cup under
  <1>1. PICK f \in stopFRR(f0) :
            \E bad \in SUBSET (objs \cap ((have \ Daemons) \cup f.up)) :
                /\ RemoveAll((have \ Daemons) \cup f.up, objs, bad \cup (IF f.cost > 0 THEN f.up ELSE {}))
                /\ frr' = [method |-> f.method, list |-> f.list]
    BY DEF frrTeardown
  <1>2. /\ f0 \in FrrStates /\ f0.up = have \cap Daemons /\ f0.method = frr.method /\ f0.list = frr.list
        /\ f0.cost = 0
    BY FrrOf
  <1> DEFINE before == (have \ Daemons) \cup f.up
             missed == IF f.cost > 0 THEN f.up ELSE {}
  <1>3. PICK bad \in SUBSET (objs \cap before) : RemoveAll(before, objs, bad \cup missed)
    BY <1>1
  <1> HIDE DEF f0
  <1>4. f \in FrrStates /\ (f.up \subseteq undeleted \/ f.cost > 0)
    <2>1. Known(f0, undeleted)
      BY <1>2 DEF DaemonsKnown, Known
    <2>2. QED
      BY <1>2, <2>1, StopFrr
  <1>5. f.up \subseteq undeleted \cup missed /\ missed \subseteq Daemons
    BY <1>4, FrrUpdates
  <1>6. before \subseteq Excused \cup keep \cup objs \cup (bad \cup missed)
    <2>1. undeleted \subseteq Excused
      BY DEF Excused
    <2>2. QED
      BY <1>5, <2>1, LinksCleaned
  <1>7. "lldp" \notin objs /\ "lldp" \notin Daemons
    BY LinksCleaned DEF FrrLinks, Daemons, Required, Optional
  <1> HIDE DEF before, objs, missed
  <1>8. have' \subseteq Excused' \cup keep
    BY <1>3, <1>6, RemoveLeaves
  <1>9. undeleted' \subseteq undeleted \cup (bad \cup missed)
    BY <1>3, RemoveExcuses
  <1>10. "lldp" \notin undeleted'
    BY <1>3, <1>5, <1>7, <1>9
  <1>11. frr' \in [method : Methods, list : SUBSET Daemons]
    BY <1>1, <1>4, FrrTyped
  <1>12. QED
    BY <1>8, <1>10, <1>11

(* Teardown of the mode and the layers below it. *)
LEMMA ModeTeardownLeaves ==
    ASSUME NInv, modeTeardown(layers), npc # "failed", nj' = nj,
           have \subseteq Excused \cup layers \cup Own
    PROVE  /\ have' \subseteq Excused'
           /\ "lldp" \notin undeleted'
           /\ frr' \in [method : Methods, list : SUBSET Daemons]
  <1>1. "lldp" \notin layers /\ "lldp" \notin undeleted /\ NTyped
    BY DEF NInv, NTyped, NCovered
  <1>2. CASE netMode = "frr"
    <2>1. frrTeardown(layers, 0) /\ DaemonsKnown
      BY <1>2 DEF modeTeardown, NInv, NCovered
    <2>2. have \subseteq Excused \cup {} \cup layers \cup FrrLinks \cup Daemons
      BY <1>2 DEF Own
    <2>3. /\ have' \subseteq Excused' \cup {} /\ "lldp" \notin undeleted'
          /\ frr' \in [method : Methods, list : SUBSET Daemons]
      BY <1>1, <2>1, <2>2, FrrTeardownLeaves
    <2>4. QED
      BY <2>3
  <1>3. CASE netMode # "frr"
    <2>1. Removes(have, OwnObjects \cup layers, 0) /\ frr' = frr
      BY <1>3 DEF modeTeardown
    <2>2. have \subseteq Excused \cup {} \cup (OwnObjects \cup layers)
      BY <1>3 DEF Own
    <2>3. "lldp" \notin OwnObjects
      BY <1>1 DEF OwnObjects, NTyped
    <2>4. have' \subseteq Excused' \cup {} /\ "lldp" \notin undeleted'
      BY <1>1, <2>1, <2>2, <2>3, RemovesLeaves
    <2>5. QED
      BY <1>1, <2>1, <2>4 DEF NTyped
  <1>4. QED
    BY <1>2, <1>3

-----------------------------------------------------------------------------
LEMMA NetInitHolds == NetInit => NInv
  BY SMT DEF NetInit, NInv, NTyped, NOrder, NCovered, Starting, Running, NoFrr, NoLayers, Methods, Managed

(* The bond: made and remembered, or removed again. *)
LEMMA LinkLayersStep ==
    ASSUME NInv, prepareLinkLayers
    PROVE  NInv'
  <1>1. /\ npc = "bond" /\ netMode = "none" /\ layers = {} /\ have \subseteq Excused /\ "lldp" \notin undeleted
        /\ netMode' = netMode /\ frr' = frr /\ nj' = nj
        /\ (undeleted' = undeleted => Excused' = Excused)
    BY ExcusedNext DEF prepareLinkLayers, NInv, NOrder, NCovered, Starting
  <1>2. CASE npc' = "failed" /\ UNCHANGED <<have, layers, undeleted>>
    BY <1>1, <1>2 DEF NInv, NTyped, NOrder, NCovered, Starting, Running
  <1>3. CASE setupBondMode
    <2>1. CASE have' = have \cup {"bond"} /\ layers' = layers \cup {"bond"} /\ npc' = "vlans" /\ undeleted' = undeleted
      BY <1>1, <2>1 DEF NInv, NTyped, NOrder, NCovered, Starting, Running
    <2>2. CASE npc' = "failed" /\ layers' = layers /\ UNCHANGED <<have, undeleted>>
      BY <1>1, <2>2 DEF NInv, NTyped, NOrder, NCovered, Starting, Running
    <2>3. CASE npc' = "failed" /\ layers' = layers /\ bondTeardown(have \cup {"bond"})
      <3>1. have \cup {"bond"} \subseteq Excused \cup {} \cup {"bond"} /\ "lldp" \notin {"bond"}
        BY <1>1
      <3>2. have' \subseteq Excused' \cup {} /\ "lldp" \notin undeleted'
        BY <1>1, <2>3, <3>1, RemovesLeaves DEF bondTeardown
      <3>3. QED
        BY <1>1, <2>3, <3>2 DEF NInv, NTyped, NOrder, NCovered, Starting, Running
    <2>4. QED
      BY <1>3, <2>1, <2>2, <2>3 DEF setupBondMode
  <1>4. CASE npc' = "vlans" /\ UNCHANGED <<have, layers, undeleted>>
    BY <1>1, <1>4 DEF NInv, NTyped, NOrder, NCovered, Starting, Running
  <1>5. QED
    BY <1>2, <1>3, <1>4 DEF prepareLinkLayers

(* The VLANs: all made, or removed with the bond. *)
LEMMA VlansStep ==
    ASSUME NInv, setupVLANLayers
    PROVE  NInv'
  <1>1. /\ npc = "vlans" /\ netMode = "none" /\ have \subseteq Excused \cup layers /\ "lldp" \notin undeleted
        /\ netMode' = netMode /\ frr' = frr /\ layers \subseteq {"bond", "vlan1", "vlan2"} /\ nj' = nj
        /\ (undeleted' = undeleted => Excused' = Excused)
    BY ExcusedNext DEF setupVLANLayers, NInv, NTyped, NOrder, NCovered, Starting
  <1>2. PICK o \in vlanSetup :
            LET cost == Cardinality((Vlans(nj) \ have) \ o.made) + Cardinality(o.left)
            IN  \/ /\ npc' = "mode" /\ have' = have \cup o.made /\ layers' = layers \cup o.made
                   /\ undeleted' = undeleted
                \/ /\ npc' = "failed" /\ layers' = layers
                   /\ \E bad \in SUBSET (o.made \cup layers) :
                        /\ Fails(cost + Cardinality(bad))
                        /\ RemoveAll(have \cup o.made \cup o.left, o.made \cup layers, bad \cup o.left)
    BY DEF setupVLANLayers
  <1>3. o.made \subseteq {"vlan1", "vlan2"} /\ o.left \subseteq {"vlan1", "vlan2"}
    BY DEF vlanSetup, Vlans
  <1>4. CASE /\ npc' = "mode" /\ have' = have \cup o.made /\ layers' = layers \cup o.made
             /\ undeleted' = undeleted
    BY <1>1, <1>3, <1>4 DEF NInv, NTyped, NOrder, NCovered, Starting, Running
  <1>5. ASSUME npc' = "failed", layers' = layers, NEW bad \in SUBSET (o.made \cup layers),
               RemoveAll(have \cup o.made \cup o.left, o.made \cup layers, bad \cup o.left)
        PROVE  NInv'
    <2>1. have \cup o.made \cup o.left \subseteq Excused \cup {} \cup (o.made \cup layers) \cup (bad \cup o.left)
      BY <1>1
    <2>2. have' \subseteq Excused' \cup {}
      BY <1>1, <1>5, <2>1, RemoveLeaves
    <2>3. undeleted' \subseteq undeleted \cup (bad \cup o.left)
      BY <1>5, RemoveExcuses
    <2>4. "lldp" \notin undeleted'
      BY <1>1, <1>3, <2>3
    <2>5. QED
      BY <1>1, <1>5, <2>2, <2>4 DEF NInv, NTyped, NOrder, NCovered, Starting, Running
  <1>6. QED
    BY <1>2, <1>4, <1>5

(* A mode that fails for good: the setup ends with what a removal left. *)
LEMMA FailedHolds ==
    ASSUME NInv, npc' = "failed", layers' = layers, netMode' = netMode, 
           frr' \in [method : Methods, list : SUBSET Daemons],
           have' \subseteq Excused', "lldp" \notin undeleted'
    PROVE  NInv'
  BY DEF NInv, NTyped, NOrder, NCovered, Starting, Running

(* What holds before a mode is set up. *)
LEMMA ModeFacts ==
    ASSUME NInv, npc \in {"mode", "dhcp"}
    PROVE  /\ netMode = "none" /\ have \subseteq Excused \cup layers /\ "lldp" \notin undeleted
           /\ "lldp" \notin layers /\ layers \subseteq {"bond", "vlan1", "vlan2"}
           /\ frr \in [method : Methods, list : SUBSET Daemons]
  BY DEF NInv, NTyped, NOrder, NCovered, Starting

(* The mode is up: it has what it made. *)
LEMMA ModeUpHolds ==
    ASSUME NInv, npc' = "resolvers", layers' = layers, netMode' \in {"links", "gobgp", "static", "dhcp"},
           frr' = frr, undeleted' = undeleted, nj' = nj, have' \subseteq Excused \cup layers \cup OwnObjects'
    PROVE  NInv'
  BY ExcusedNext DEF NInv, NTyped, NOrder, NCovered, Starting, Running, Own

(* Links mode makes nothing of its own. *)
LEMMA LinksStep ==
    ASSUME NInv, linksSetup
    PROVE  NInv'
  <1>1. npc = "mode" /\ layers' = layers /\ frr' = frr /\ nj' = nj
    BY DEF linksSetup
  <1>2. CASE npc' = "resolvers" /\ netMode' = "links" /\ UNCHANGED <<have, undeleted>>
    BY <1>1, <1>2, ModeFacts, ModeUpHolds
  <1>3. CASE npc' = "failed" /\ netMode' = netMode /\ Removes(have, layers, 1)
    <2>1. have' \subseteq Excused' \cup {} /\ "lldp" \notin undeleted'
      <3>1. have \subseteq Excused \cup {} \cup layers
        BY <1>1, ModeFacts
      <3>2. QED
        BY <1>1, <1>3, <3>1, ModeFacts, RemovesLeaves
    <2>2. QED
      BY <1>1, <1>3, <2>1, ModeFacts, FailedHolds
  <1>4. QED
    BY <1>2, <1>3 DEF linksSetup

(* The GoBGP stack goes with the link layers when its setup fails. *)
LEMMA GobgpStep ==
    ASSUME NInv, setupGoBGPStack
    PROVE  NInv'
  <1>1. npc = "mode" /\ layers' = layers /\ frr' = frr /\ nj' = nj
    BY DEF setupGoBGPStack
  <1>2. CASE have' = have \cup {"stack"} /\ netMode' = "gobgp" /\ npc' = "resolvers" /\ undeleted' = undeleted
    <2>1. OwnObjects' = {"stack"}
      BY <1>2 DEF OwnObjects
    <2>2. QED
      BY <1>1, <1>2, <2>1, ModeFacts, ModeUpHolds
  <1>3. CASE npc' = "failed" /\ netMode' = netMode /\ Removes(have \cup {"stack"}, {"stack"} \cup layers, 1)
    <2>1. have' \subseteq Excused' \cup {} /\ "lldp" \notin undeleted'
      <3>1. have \cup {"stack"} \subseteq Excused \cup {} \cup ({"stack"} \cup layers) /\ "lldp" \notin {"stack"} \cup layers
        BY <1>1, ModeFacts
      <3>2. QED
        BY <1>1, <1>3, <3>1, ModeFacts, RemovesLeaves
    <2>2. QED
      BY <1>1, <1>3, <2>1, ModeFacts, FailedHolds
  <1>4. QED
    BY <1>2, <1>3 DEF setupGoBGPStack

(* FRR mode without its payload only removes the link layers. *)
LEMMA PayloadStep ==
    ASSUME NInv, requireFRRPayload
    PROVE  NInv'
  <1>1. /\ npc = "mode" /\ layers' = layers /\ frr' = frr /\ npc' = "failed" /\ netMode' = netMode /\ Removes(have, layers, 0)
        /\ nj' = nj
    BY DEF requireFRRPayload
  <1>2. have \subseteq Excused \cup {} \cup layers
    BY <1>1, ModeFacts
  <1>3. have' \subseteq Excused' \cup {} /\ "lldp" \notin undeleted'
    BY <1>1, <1>2, ModeFacts, RemovesLeaves
  <1>4. QED
    BY <1>1, <1>3, ModeFacts, FailedHolds

(* A failed static setup removes its address and route before DHCP. *)
LEMMA StaticStep ==
    ASSUME NInv, staticSetup
    PROVE  NInv'
  <1>1. npc = "mode" /\ layers' = layers /\ frr' = frr /\ nj' = nj
    BY DEF staticSetup
  <1>2. \A k \in 0 .. 2 : First(StaticObjects, k) \subseteq {"address", "route"}
    BY SMT DEF First, StaticObjects
  <1>3. CASE /\ have' = have \cup First(StaticObjects, 2) /\ netMode' = "static" /\ npc' = "resolvers"
             /\ undeleted' = undeleted
    <2>1. OwnObjects' = {"address", "route"}
      BY <1>3 DEF OwnObjects
    <2>2. have' \subseteq Excused \cup layers \cup OwnObjects'
      BY <1>1, <1>2, <1>3, <2>1, ModeFacts, SMT
    <2>3. QED
      BY <1>1, <1>3, <2>2, ModeUpHolds
  <1>4. ASSUME NEW k \in 0 .. 1, npc' = "dhcp", netMode' = netMode, 
               staticTeardown(have \cup First(StaticObjects, k), 1)
        PROVE  NInv'
    <2> DEFINE before == have \cup First(StaticObjects, k)
    <2>1. before \subseteq Excused \cup layers \cup {"address", "route"} /\ "lldp" \notin {"address", "route"}
      BY <1>1, <1>2, ModeFacts, SMT
    <2>2. Removes(before, {"address", "route"}, 1)
      BY <1>4 DEF staticTeardown
    <2> HIDE DEF before
    <2>3. have' \subseteq Excused' \cup layers /\ "lldp" \notin undeleted'
      BY <1>1, <2>1, <2>2, ModeFacts, RemovesLeaves
    <2>4. QED
      BY <1>1, <1>4, <2>3, ModeFacts DEF NInv, NTyped, NOrder, NCovered, Starting, Running
  <1>5. QED
    BY <1>1, <1>3, <1>4 DEF staticSetup

(* DHCP is the mode, whether or not its setup worked. *)
LEMMA DhcpStep ==
    ASSUME NInv, dhcpFallback
    PROVE  NInv'
  <1>1. /\ npc \in {"mode", "dhcp"} /\ layers' = layers /\ frr' = frr /\ netMode' = "dhcp" /\ npc' = "resolvers"
        /\ undeleted' = undeleted /\ have' \subseteq have \cup {"dhcp"} /\ nj' = nj
    BY DEF dhcpFallback
  <1>2. OwnObjects' = {"dhcp"}
    BY <1>1 DEF OwnObjects
  <1>3. QED
    BY <1>1, <1>2, ModeFacts, ModeUpHolds

(* FRR mode makes only what its teardown removes. *)
LEMMA FrrObjectsAreLinks ==
    ASSUME NEW k \in 0 .. Len(FrrObjects(nj))
    PROVE  First(FrrObjects(nj), k) \subseteq FrrLinks
  <1>1. <<"vrf">> \in Seq(FrrLinks) /\ <<>> \in Seq(FrrLinks)
    BY SMT DEF FrrLinks
  <1>2. <<"dummy", "vxlan", "bridge", "provisionIP", "overlayIP">> \in Seq(FrrLinks)
    BY SMT DEF FrrLinks
  <1>3. FrrObjects(nj) \in Seq(FrrLinks)
    BY <1>1, <1>2, SMT DEF FrrObjects
  <1>4. QED
    BY <1>3, SMT DEF First

(* The links of FRR mode, all or some. *)
LEMMA InterfacesStep ==
    ASSUME NInv, setupInterfaces
    PROVE  NInv'
  <1>1. /\ npc = "mode" /\ layers' = layers /\ netMode' = netMode /\ undeleted' = undeleted /\ frr' = NoFrr
        /\ Excused' = Excused
    BY ExcusedNext DEF setupInterfaces
  <1>2. npc' \in {"frr start", "frr rollback"}
    BY DEF setupInterfaces
  <1>3. have' \subseteq have \cup FrrLinks
    <2> DEFINE objs == FrrObjects(nj)
    <2>1. Len(objs) \in Nat
      BY SMT DEF FrrObjects
    <2>2. First(objs, Len(objs)) \subseteq FrrLinks /\ \A k \in 0 .. Len(objs) : First(objs, k) \subseteq FrrLinks
      BY <2>1, FrrObjectsAreLinks, SMT
    <2>3. "dummy" \in FrrLinks /\ "loopbackIP" \in FrrLinks
      BY DEF FrrLinks
    <2>4. \/ have' = have \cup First(objs, Len(objs))
          \/ \E half \in SUBSET {"dummy"} :
                have' = have \cup (First(objs, Len(objs)) \ {"dummy"}) \cup half \cup {"loopbackIP"}
          \/ \E k \in 0 .. Len(objs) : have' = have \cup First(objs, k)
      BY DEF setupInterfaces
    <2> HIDE DEF objs
    <2>5. QED
      BY <2>2, <2>3, <2>4
  <1>4. QED
    BY <1>1, <1>2, <1>3, ModeFacts
        DEF NInv, NTyped, NOrder, NCovered, Starting, Running, NoFrr, Methods

(* A configuration file that cannot be written. *)
LEMMA ConfigStep ==
    ASSUME NInv, writeFRRConfig
    PROVE  NInv'
  BY ExcusedNext DEF writeFRRConfig, NInv, NTyped, NOrder, NCovered, Starting, Running

(* FRR is up and a stop finds its daemons, or the rollback has them on the list. *)
LEMMA FrrStartStep ==
    ASSUME NInv, startFRRStack
    PROVE  NInv'
  <1>1. /\ npc = "frr start" /\ layers' = layers /\ nj' = nj
        /\ NTyped /\ netMode = "none" /\ "lldp" \notin undeleted
        /\ have \subseteq Excused \cup layers \cup FrrLinks /\ layers \subseteq {"bond", "vlan1", "vlan2"}
    BY DEF startFRRStack, NInv, NTyped, NOrder, NCovered, Starting
  <1> DEFINE Started(f, half) ==
         /\ undeleted' = undeleted \cup Strays(f, half)
         /\ have' = (have \ Daemons) \cup f.up /\ frr' = [method |-> f.method, list |-> f.list]
         /\ IF f.method # "none" THEN netMode' = "frr" /\ npc' = "resolvers"
                                 ELSE netMode' = netMode /\ npc' = "frr rollback"
  <1>0. PICK half \in SUBSET Daemons : \E f \in startFRR(Frr(have \cap Daemons), half) : Started(f, half)
    BY DEF startFRRStack
  <1>2. PICK f \in startFRR(Frr(have \cap Daemons), half) : Started(f, half)
    BY <1>0
  <1> DEFINE f0 == Frr(have \cap Daemons)
  <1>3. f0 \in FrrStates /\ f0.up = have \cap Daemons
    BY <1>1, FrrOf
  <1> HIDE DEF f0
  <1>4. f \in FrrStates /\ (f.method \in Managed \/ f.up \subseteq f0.up \cup f.list \cup half)
    BY <1>2, <1>3, StartFrr DEF f0
  <1>5. f.up \in SUBSET Daemons /\ f.method \in Methods /\ f.list \in SUBSET Daemons
    BY <1>4, FrrUpdates
  <1>6. /\ frr' \in [method : Methods, list : SUBSET Daemons] /\ frr'.method = f.method /\ frr'.list = f.list
    BY <1>2, <1>5
  <1>7. f0.up \subseteq undeleted
    <2>1. Daemons \cap FrrLinks = {} /\ Daemons \cap {"bond", "vlan1", "vlan2"} = {}
      BY DEF Daemons, Required, Optional, FrrLinks
    <2>2. QED
      BY <1>1, <1>3, <2>1, ExcusedDaemons
  <1>11. /\ Excused \subseteq Excused' /\ undeleted' \subseteq Excused' /\ undeleted \subseteq undeleted'
         /\ "lldp" \notin undeleted'
         /\ f.method \notin Managed => half \subseteq undeleted' \cup f.list
    <2>1. Excused' = undeleted' \cup Overlooked
      BY <1>1, ExcusedNext
    <2>2. Strays(f, half) \subseteq Daemons /\ "lldp" \notin Daemons
      BY DEF Strays, Daemons, Required, Optional
    <2>3. f.method \notin Managed => Strays(f, half) = half \ f.list
      BY DEF Strays, Managed
    <2>4. QED
      BY <1>1, <1>2, <2>1, <2>2, <2>3 DEF Excused
  <1>8. CASE f.method = "none"
    <2>1. "none" \notin Managed
      BY DEF Managed
    <2>2. have' \subseteq Excused' \cup layers' \cup FrrLinks \cup frr'.list
      BY <1>1, <1>2, <1>4, <1>6, <1>7, <1>8, <1>11, <2>1
    <2>3. QED
      BY <1>1, <1>2, <1>6, <1>8, <1>11, <2>2 DEF NInv, NTyped, NOrder, NCovered, Starting, Running
  <1>9. CASE f.method # "none"
    <2>1. have' \subseteq Excused' \cup layers' \cup FrrLinks \cup Daemons
      BY <1>1, <1>2, <1>5, <1>11
    <2>2. have' \cap Daemons \subseteq f.up
      BY <1>2
    <2>3. DaemonsKnown'
      BY <1>1, <1>4, <1>6, <1>7, <1>11, <2>2 DEF DaemonsKnown
    <2>4. QED
      BY <1>1, <1>2, <1>6, <1>9, <1>11, <2>1, <2>3 DEF NInv, NTyped, NOrder, NCovered, Starting, Running, Own
  <1>10. QED
    BY <1>8, <1>9

(* The rollback takes down links and daemons and keeps the link layers. *)
LEMMA RollbackStep ==
    ASSUME NInv, rollbackSetup
    PROVE  NInv'
  <1>1. /\ npc = "frr rollback" /\ npc' = "dhcp" /\ layers' = layers /\ netMode' = netMode
        /\ NTyped /\ netMode = "none" /\ frr.method = "none" /\ "lldp" \notin undeleted
        /\ have \subseteq Excused \cup layers \cup FrrLinks \cup frr.list
        /\ layers \subseteq {"bond", "vlan1", "vlan2"} /\ frr.list \subseteq Daemons /\ nj' = nj
    BY DEF rollbackSetup, NInv, NTyped, NOrder, NCovered, Starting
  <1>2. /\ have' \subseteq Excused' \cup layers /\ "lldp" \notin undeleted'
        /\ frr' \in [method : Methods, list : SUBSET Daemons]
    <2>1. CASE frr.list # {}
      <3>1. frrTeardown({}, 0)
        BY <1>1, <2>1 DEF rollbackSetup
      <3>2. DaemonsKnown
        <4>1. Daemons \cap FrrLinks = {} /\ Daemons \cap {"bond", "vlan1", "vlan2"} = {}
          BY DEF Daemons, Required, Optional, FrrLinks
        <4>2. QED
          BY <1>1, <4>1, ExcusedDaemons DEF DaemonsKnown
      <3>3. have \subseteq Excused \cup layers \cup {} \cup FrrLinks \cup Daemons /\ "lldp" \notin {}
        BY <1>1
      <3>4. QED
        BY <1>1, <3>1, <3>2, <3>3, FrrTeardownLeaves
    <2>2. CASE frr.list = {}
      <3>1. Removes(have, CleanedLinks, 0) /\ frr' = frr
        BY <1>1, <2>2 DEF rollbackSetup
      <3>2. have \subseteq Excused \cup layers \cup CleanedLinks
        BY <1>1, <2>2, LinksCleaned
      <3>3. "lldp" \notin CleanedLinks
        BY LinksCleaned DEF FrrLinks
      <3>4. have' \subseteq Excused' \cup layers /\ "lldp" \notin undeleted'
        BY <1>1, <3>1, <3>2, <3>3, RemovesLeaves
      <3>5. QED
        BY <1>1, <3>1, <3>4 DEF NTyped
    <2>3. QED
      BY <2>1, <2>2
  <1>3. QED
    BY <1>1, <1>2 DEF NInv, NTyped, NOrder, NCovered, Starting, Running

(* The network is up, or a bad resolver takes all of it down. *)
LEMMA ResolversStep ==
    ASSUME NInv, networkModeWithResolvers
    PROVE  NInv'
  <1>1. /\ npc = "resolvers" /\ netMode' = netMode /\ nj' = nj /\ layers' = layers
        /\ have \subseteq Excused \cup layers \cup Own
    BY DEF networkModeWithResolvers, NInv, NCovered
  <1>2. CASE npc' = "wait" /\ have' \subseteq have \cup {"lldp"} /\ have \subseteq have' /\ UNCHANGED <<frr, undeleted>>
    <2>5. Excused' = Excused
      BY <1>1, <1>2, ExcusedNext
    <2>1. Own' = Own
      BY <1>1 DEF Own, OwnObjects
    <2>2. "lldp" \notin Daemons
      BY DEF Daemons, Required, Optional
    <2>3. DaemonsKnown => DaemonsKnown'
      BY <1>1, <1>2, <2>2 DEF DaemonsKnown
    <2>4. QED
      BY <1>1, <1>2, <2>1, <2>3, <2>5 DEF NInv, NTyped, NOrder, NCovered, Starting, Running
  <1>3. CASE npc' = "failed" /\ modeTeardown(layers)
    <2>1. /\ have' \subseteq Excused' /\ "lldp" \notin undeleted'
          /\ frr' \in [method : Methods, list : SUBSET Daemons]
      BY <1>1, <1>3, ModeTeardownLeaves
    <2>2. QED
      BY <1>1, <1>3, <2>1, FailedHolds
  <1>4. QED
    BY <1>2, <1>3 DEF networkModeWithResolvers

(* Waiting changes nothing that exists. *)
LEMMA WaitStep ==
    ASSUME NInv, WaitReached \/ WaitTimesOut \/ RunEndsUp
    PROVE  NInv'
  <1>1. /\ npc \in {"wait", "up"} /\ npc' \in Running
        /\ UNCHANGED <<nj, have, layers, netMode, frr, undeleted>>
    BY DEF WaitReached, WaitTimesOut, RunEndsUp, Running
  <1>2. Own' = Own /\ (DaemonsKnown => DaemonsKnown') /\ Excused' = Excused
    BY <1>1, ExcusedNext DEF Own, OwnObjects, DaemonsKnown
  <1>3. QED
    BY <1>1, <1>2 DEF NInv, NTyped, NOrder, NCovered, Starting, Running

(* A recovery restarts daemons that a stop still finds. *)
LEMMA RecoverStep ==
    ASSUME NInv, recoverFRR
    PROVE  NInv'
  <1>1. /\ npc = "wait" /\ npc' = npc /\ nj' = nj /\ layers' = layers /\ netMode = "frr" /\ netMode' = netMode
        /\ NTyped /\ DaemonsKnown /\ "lldp" \notin undeleted
        /\ have \subseteq Excused \cup layers \cup Own \cup {"lldp"}
    BY DEF recoverFRR, NInv, NCovered, Running
  <1>2. Own = FrrLinks \cup Daemons /\ Own' = FrrLinks \cup Daemons
    BY <1>1 DEF Own
  <1>3. CASE UNCHANGED <<have, frr, undeleted>>
    <2>1. DaemonsKnown' /\ Excused' = Excused
      BY <1>1, <1>3, ExcusedNext DEF DaemonsKnown
    <2>2. QED
      BY <1>1, <1>2, <1>3, <2>1 DEF NInv, NTyped, NOrder, NCovered, Starting, Running
  <1>4. ASSUME NEW f \in restartFRR(Frr(have \cap Daemons)),
               have' = (have \ Daemons) \cup f.up, frr' = [method |-> f.method, list |-> f.list],
               undeleted' = undeleted \cup Untracked(f)
        PROVE  NInv'
    <2> DEFINE f0 == Frr(have \cap Daemons)
    <2>1. /\ f0 \in FrrStates /\ f0.up = have \cap Daemons /\ f0.method = frr.method /\ f0.list = frr.list
      BY <1>1, FrrOf
    <2> HIDE DEF f0
    <2>2. Known(f0, undeleted)
      BY <1>1, <2>1 DEF DaemonsKnown, Known
    <2>3. f \in FrrStates /\ Known(f, undeleted')
      BY <1>4, <2>1, <2>2, RestartFrr DEF f0
    <2>4. f.up \in SUBSET Daemons /\ f.method \in Methods /\ f.list \in SUBSET Daemons
      BY <2>3, FrrUpdates
    <2>5. /\ frr' \in [method : Methods, list : SUBSET Daemons] /\ frr'.method = f.method /\ frr'.list = f.list
      BY <1>4, <2>4
    <2>6. have' \cap Daemons \subseteq f.up
      BY <1>4
    <2>7. DaemonsKnown'
      BY <1>1, <2>3, <2>5, <2>6 DEF DaemonsKnown, Known
    <2>8. Untracked(f) \subseteq Daemons /\ "lldp" \notin Daemons
      BY <2>4 DEF Untracked, Daemons, Required, Optional
    <2>9. have' \subseteq Excused' \cup layers' \cup Own' \cup {"lldp"} /\ "lldp" \notin undeleted'
      <3>1. Excused \subseteq Excused'
        BY <1>1, <1>4, ExcusedNext DEF Excused
      <3>2. QED
        BY <1>1, <1>2, <1>4, <2>4, <2>8, <3>1
    <2>10. QED
      BY <1>1, <2>5, <2>7, <2>9 DEF NInv, NTyped, NOrder, NCovered, Starting, Running
  <1>5. QED
    BY <1>3, <1>4 DEF recoverFRR

(* The LLDP sender goes first, then the mode and the link layers. *)
LEMMA NetTeardownStep ==
    ASSUME NInv, networkModeTeardown
    PROVE  NInv'
  <1>1. /\ npc \in {"retry", "stop"} /\ nj' = nj /\ "lldp" \notin undeleted
        /\ have \subseteq Excused \cup layers \cup Own \cup {"lldp"}
    BY DEF networkModeTeardown, NInv, NCovered, Running
  <1>2. CASE "lldp" \in have
    <2>1. have' = have \ {"lldp"} /\ UNCHANGED <<npc, frr, layers, netMode, undeleted>>
      BY <1>2 DEF networkModeTeardown, linkLayerTeardown
    <2>2. Own' = Own /\ (DaemonsKnown => DaemonsKnown') /\ Excused' = Excused
      BY <1>1, <2>1, ExcusedNext DEF Own, OwnObjects, DaemonsKnown
    <2>3. QED
      BY <1>1, <2>1, <2>2 DEF NInv, NTyped, NOrder, NCovered, Starting, Running
  <1>3. CASE "lldp" \notin have
    <2>1. /\ modeTeardown(layers) /\ layers' = {} /\ netMode' = "none" /\ npc' \in {"bond", "down"}
      BY <1>3 DEF networkModeTeardown, linkLayerTeardown, NoLayers
    <2>2. /\ have' \subseteq Excused' /\ "lldp" \notin undeleted'
          /\ frr' \in [method : Methods, list : SUBSET Daemons]
      BY <1>1, <1>3, <2>1, ModeTeardownLeaves
    <2>3. QED
      BY <2>1, <2>2 DEF NInv, NTyped, NOrder, NCovered, Starting, Running
  <1>4. QED
    BY <1>2, <1>3

(* The invariant is inductive. *)
LEMMA NetStep == NInv /\ [NetNext]_nvars => NInv'
  <1> SUFFICES ASSUME NInv, [NetNext]_nvars PROVE NInv'
    OBVIOUS
  <1>1. CASE UNCHANGED nvars
    <2>1. Own' = Own /\ (DaemonsKnown => DaemonsKnown') /\ Excused' = Excused
      BY <1>1, ExcusedNext DEF Own, OwnObjects, DaemonsKnown, nvars
    <2>2. QED
      BY <1>1, <2>1 DEF NInv, NTyped, NOrder, NCovered, nvars
  <1>2. CASE NetNext
    BY <1>2, LinkLayersStep, VlansStep, LinksStep, GobgpStep, PayloadStep, InterfacesStep, StaticStep, DhcpStep,
       ConfigStep, FrrStartStep, RollbackStep, ResolversStep, WaitStep, RecoverStep, NetTeardownStep
       DEF NetNext, setupNetworkMode
  <1>3. QED
    BY <1>1, <1>2

(* It implies the two state properties. *)
LEMMA NInvIsEnough == NInv => NetworkIsGone /\ FallbackStartsClean
  <1> SUFFICES ASSUME NInv PROVE NetworkIsGone /\ FallbackStartsClean
    OBVIOUS
  <1>1. NetworkIsGone
    BY DEF NInv, NCovered, NetworkIsGone
  <1>2. ASSUME netMode = "dhcp"
        PROVE  have \cap (ModeObjects \ {"dhcp"}) \subseteq Excused
    <2>1. have \subseteq Excused \cup layers \cup {"dhcp"} \cup {"lldp"}
      BY <1>2 DEF NInv, NTyped, NOrder, NCovered, Starting, Running, Own, OwnObjects
    <2>2. layers \cap ModeObjects = {} /\ "lldp" \notin ModeObjects
      BY DEF NInv, NTyped, ModeObjects, FrrLinks, Daemons, Required, Optional
    <2>3. QED
      BY <2>1, <2>2
  <1>3. QED
    BY <1>1, <1>2 DEF FallbackStartsClean

(* While the LLDP sender runs no step removes an object of the mode. *)
LEMMA SenderStep ==
    ASSUME NInv, [NetNext]_nvars
    PROVE  [\A o \in ModeObjects \ Daemons : o \in have /\ o \notin have' => "lldp" \notin have]_nvars
  <1> SUFFICES ASSUME NetNext, NEW o \in ModeObjects \ Daemons, o \in have, o \notin have', "lldp" \in have
               PROVE  FALSE
    BY DEF nvars
  <1>1. npc \in Running
    <2>1. "lldp" \notin Excused \cup layers \cup FrrLinks \cup frr.list \cup Own
      BY DEF Excused, Overlooked, NInv, NTyped, NCovered, Own, OwnObjects, FrrLinks, Daemons, Required, Optional
    <2>2. QED
      BY <2>1 DEF NInv, NTyped, NCovered, Starting, Running
  <1>2. CASE UNCHANGED have
    BY <1>2
  <1>3. CASE recoverFRR
    BY <1>3 DEF recoverFRR
  <1>4. CASE networkModeTeardown
    <2>1. have' = have \ {"lldp"}
      BY <1>4 DEF networkModeTeardown, linkLayerTeardown
    <2>2. "lldp" \notin ModeObjects
      BY DEF ModeObjects, FrrLinks, Daemons, Required, Optional
    <2>3. QED
      BY <2>1, <2>2
  <1>5. QED
    BY <1>1, <1>2, <1>3, <1>4
       DEF NetNext, setupNetworkMode, Running, prepareLinkLayers, setupVLANLayers, linksSetup, setupGoBGPStack,
           requireFRRPayload, setupInterfaces, staticSetup, dhcpFallback, writeFRRConfig, startFRRStack,
           rollbackSetup, networkModeWithResolvers, WaitReached, WaitTimesOut, RunEndsUp

(* A setup that fails, a fallback to DHCP and the end of the run start from  *)
(* a network without the parts of the mode before, and the LLDP sender goes  *)
(* before them: for every set of configurations and any number of failing    *)
(* calls, setups and recoveries (setupNetworkMode, rollbackSetup, Teardown), *)
(* except for what NetworkIsGone names.                                      *)
THEOREM SetupLeavesNothingAlways == NetSpec => SetupLeavesNothing
  <1>1. NetInit => NInv
    BY NetInitHolds
  <1>2. NInv /\ [NetNext]_nvars => NInv'
    BY NetStep
  <1>3. NInv => NetworkIsGone /\ FallbackStartsClean
    BY NInvIsEnough
  <1>4. NInv /\ [NetNext]_nvars
            => [\A o \in ModeObjects \ Daemons : o \in have /\ o \notin have' => "lldp" \notin have]_nvars
    BY SenderStep
  <1>5. QED
    BY <1>1, <1>2, <1>3, <1>4, PTL DEF NetSpec, SetupLeavesNothing, SenderStopsFirst
-----------------------------------------------------------------------------
(* The leases *)

ClientStates == {"init", "selecting", "rebooting", "bound", "renewing", "rebinding",
                 "acked", "applied", "done"}

(* The shape of the state that the proof uses. *)
LTypeOK ==
    /\ cst \in ClientStates /\ tries \in Nat /\ tmo \in Int /\ tmo >= NoWait
    /\ lease \in Addrs \cup {None} /\ left \in Int /\ applied \in Addrs \cup {None}
    /\ carrier \in BOOLEAN /\ down \in BOOLEAN /\ updates \in Seq(BOOLEAN)
    /\ mode \in {"setup", "up", "failed", "stopping", "down"}

(* What is on the NIC is recorded somewhere until Teardown, also when a      *)
(* step failed; after Teardown nobody adds to it.                           *)
Recorded ==
    /\ kernel \subseteq Config(applied) \cup staleState \cup unremoved
                        \cup (IF addr6 THEN {Six} ELSE {})
    /\ halted <=> mode \in {"stopping", "down"}
    /\ mode = "down" => cst = "done" /\ applied = None /\ staleState = {} /\ ~addr6

(* The updates that the watch has not read will make it ask for a reboot of  *)
(* the client: there is a return of the carrier that follows a loss.        *)
WillReboot ==
    \E j \in 1 .. Len(updates) :
        updates[j] /\ (down \/ \E i \in 1 .. j - 1 : ~updates[i])

(* The watch knows the carrier, or has an update to read that tells it; and  *)
(* a return that no ACK has answered has made a request, or will make one.  *)
Watched ==
    /\ cst \in {"acked", "applied"} => confirmed
    /\ applied # None /\ down => lost
    /\ ~halted /\ updates = <<>> => (carrier <=> ~down)
    /\ ~halted /\ updates # <<>> => (updates[Len(updates)] <=> carrier)
    /\ cst = "bound" /\ ~confirmed /\ ~halted => rebootReq \/ WillReboot

(* The exchanges that a lease outlives end before it does. *)
Timed ==
    /\ cst \in {"bound", "acked", "applied", "done"} => tmo = NoWait
    /\ cst \in {"bound", "renewing", "rebinding", "acked", "applied"} => lease # None
    /\ cst \in {"acked", "applied"} => left = LeaseTime
    /\ tmo # NoWait /\ lease # None =>
        /\ cst \in {"init", "rebinding"} => tmo <= left
        /\ cst = "renewing" => tmo <= left - T2

LInv == LTypeOK /\ Recorded /\ Watched /\ Timed

-----------------------------------------------------------------------------
LEMMA InitLInv == LeasesInit => LInv
<1> SUFFICES ASSUME LeasesInit PROVE LInv
  OBVIOUS
<1>1. LTypeOK
  BY SMT DEF LeasesInit, LTypeOK, ClientStates, NoWait, None, Addrs
<1>2. Recorded
  BY DEF LeasesInit, Recorded
<1>3. Watched
  BY DEF LeasesInit, Watched, None
<1>4. Timed
  BY DEF LeasesInit, Timed, NoWait, None
<1> QED BY <1>1, <1>2, <1>3, <1>4 DEF LInv

-----------------------------------------------------------------------------
(* Every step keeps the shape. *)
LEMMA TypeStep ==
    ASSUME LTypeOK, Timed, [LeasesNext]_lvars
    PROVE  LTypeOK'
<1> USE DEF LTypeOK, ClientStates, NoWait
<1>1. CASE initState
  BY <1>1, SMT DEF initState, expire, GoTo, endLease, initTimeout, timeout, Lower, None, nic, v6, world,
     history
<1>2. CASE selecting
  BY <1>2, SMT DEF selecting, GoTo, timeout, Tries, nic, v6, world, history
<1>3. CASE rebootState
  BY <1>3, SMT DEF rebootState, GoTo, timeout, nic, v6, world, history
<1>4. CASE boundState
  BY <1>4, SMT DEF boundState, GoTo, nic, v6, world, history
<1>5. CASE renewState
  BY <1>5, SMT DEF renewState, GoTo, extendWait, Lower, Higher, T2, nic, v6, world, history
<1>6. CASE rebindState
  BY <1>6, SMT DEF rebindState, expire, GoTo, endLease, extendWait, Lower, Higher, nic, v6, world,
     history
<1>7. CASE exchangeTimesOut
  BY <1>7, SMT DEF exchangeTimesOut, Lower, Tries, nic, v6, world, history
<1>8. CASE Offer
  BY <1>8, SMT DEF Offer, Answered, GoTo, nic, v6, world, history
<1>9. ASSUME NEW a \in Addrs, Ack(a) PROVE LTypeOK'
  BY <1>9, LeasesAssumption, SMT DEF Ack, Answered, bind, GoTo, v4, nic, v6, world, history
<1>10. CASE Nak
  <2>1. CASE cst = "selecting"
    BY <1>10, <2>1, SMT DEF Nak, GoTo, nic, v6, world, history
  <2>2. CASE cst # "selecting"
    BY <1>10, <2>2, SMT DEF Nak, GoTo, expire, endLease, v6, history
  <2> QED BY <2>1, <2>2
<1>11. CASE StartReboot
  BY <1>11, SMT DEF StartReboot, GoTo, nic, v6, world, history
<1>12. CASE onBound
  BY <1>12 DEF onBound, Apply, ApplyFails, carrierAtBound, superseded, None, nic, v6, history
<1>13. CASE bindEnds
  BY <1>13, SMT DEF bindEnds, GoTo, nic, v6, world, history
<1>14. ASSUME NEW m \in BOOLEAN, onRA(m) PROVE LTypeOK'
  BY <1>14 DEF onRA, v4, nic, world, history
<1>15. CASE onRAContinues
  BY <1>15 DEF onRAContinues, v4, nic, world, history
<1>16. CASE onBound6
  BY <1>16 DEF onBound6, v4, history
<1>17. CASE onExpire6
  BY <1>17 DEF onExpire6, dropAddr6, v4, history
<1>18. CASE stop6Ends
  BY <1>18 DEF stop6Ends, dropAddr6, v4, history
<1>19. CASE CarrierFlips
  BY <1>19, SMT DEF CarrierFlips, v4, nic, v6, history
<1>20. CASE carrierChange
  <2>1. updates' \in Seq(BOOLEAN)
    BY <1>20, HeadTailProperties DEF carrierChange
  <2>2. down' \in BOOLEAN
    BY <1>20 DEF carrierChange
  <2> QED BY <1>20, <2>1, <2>2 DEF carrierChange, history
<1>21. CASE SetupReturns
  BY <1>21 DEF SetupReturns, v4, nic, v6, world, history
<1>22. CASE stopClients
  BY <1>22 DEF stopClients, v4, nic, v6, world, history
<1>23. CASE Stop
  BY <1>23, SMT DEF Stop, GoTo, nic, v6, world, history
<1>24. CASE Teardown
  BY <1>24 DEF Teardown, v4, history
<1>25. CASE Tick
  BY <1>25, SMT DEF Tick, Waiting, Higher, nic, v6, world, history
<1>26. CASE UNCHANGED lvars
  BY <1>26, SMTT(30) DEF lvars, v4, nic, v6, world, history
<1> QED
  BY <1>1, <1>2, <1>3, <1>4, <1>5, <1>6, <1>7, <1>8, <1>9, <1>10, <1>11, <1>12, <1>13, <1>14,
     <1>15, <1>16, <1>17, <1>18, <1>19, <1>20, <1>21, <1>22, <1>23, <1>24, <1>25, <1>26, ZenonT(30)
  DEF LeasesNext, Client4, Client6

(* Every step keeps the record. *)
LEMMA RecordedStep ==
    ASSUME LTypeOK, Recorded, Timed, [LeasesNext]_lvars
    PROVE  Recorded'
<1> USE DEF LTypeOK, Recorded
<1>1. CASE initState
  BY <1>1 DEF initState, expire, GoTo, endLease, initTimeout, timeout, Lower, Stuck, nic, v6,
     world, history
<1>2. CASE selecting
  BY <1>2 DEF selecting, GoTo, timeout, Tries, nic, v6, world, history
<1>3. CASE rebootState
  BY <1>3 DEF rebootState, GoTo, timeout, nic, v6, world, history
<1>4. CASE boundState
  BY <1>4 DEF boundState, GoTo, nic, v6, world, history
<1>5. CASE renewState
  BY <1>5 DEF renewState, GoTo, extendWait, Lower, Higher, T2, nic, v6, world, history
<1>6. CASE rebindState
  BY <1>6 DEF rebindState, expire, GoTo, endLease, extendWait, Lower, Higher, Stuck, nic, v6,
     world, history
<1>7. CASE exchangeTimesOut
  BY <1>7 DEF exchangeTimesOut, Lower, Tries, nic, v6, world, history
<1>8. CASE Offer
  BY <1>8 DEF Offer, Answered, GoTo, nic, v6, world, history
<1>9. ASSUME NEW a \in Addrs, Ack(a) PROVE Recorded'
  BY <1>9 DEF Timed, Ack, Answered, bind, GoTo, nic, v6
<1>10. CASE Nak
  <2>1. cst # "done"
    BY <1>10 DEF Nak, Answered, Timed
  <2>2. CASE cst = "selecting"
    BY <1>10, <2>1, <2>2 DEF Nak, GoTo, nic, v6, world, history
  <2>3. CASE cst # "selecting"
    BY <1>10, <2>1, <2>3 DEF Nak, GoTo, expire, endLease, Stuck, v6, history
  <2> QED BY <2>2, <2>3
<1>11. CASE StartReboot
  BY <1>11 DEF StartReboot, GoTo, nic, v6, world, history
<1>12. CASE onBound
  BY <1>12 DEF onBound, Apply, ApplyFails, carrierAtBound, superseded, Stuck, nic, v6, history
<1>13. CASE bindEnds
  BY <1>13 DEF bindEnds, GoTo, nic, v6, world, history
<1>14. ASSUME NEW m \in BOOLEAN, onRA(m) PROVE Recorded'
  BY <1>14 DEF onRA, v4, nic, world, history
<1>15. CASE onRAContinues
  BY <1>15 DEF onRAContinues, v4, nic, world, history
<1>16. CASE onBound6
  BY <1>16, SMT DEF onBound6, v4, history
<1>17. CASE onExpire6
  BY <1>17 DEF onExpire6, dropAddr6, v4
<1>18. CASE stop6Ends
  BY <1>18 DEF stop6Ends, dropAddr6, v4
<1>19. CASE CarrierFlips
  BY <1>19 DEF CarrierFlips, v4, nic, v6
<1>20. CASE carrierChange
  BY <1>20 DEF carrierChange, confirmsLease, history
<1>21. CASE SetupReturns
  BY <1>21 DEF SetupReturns, v4, nic, v6, world, history
<1>22. CASE stopClients
  BY <1>22 DEF stopClients, v4, nic, v6, world, history
<1>23. CASE Stop
  BY <1>23 DEF Stop, GoTo, nic, v6, world, history
<1>24. CASE Teardown
  BY <1>24 DEF Teardown, Stuck, v4
<1>25. CASE Tick
  BY <1>25 DEF Tick, Waiting, Higher, nic, v6, world, history
<1>26. CASE UNCHANGED lvars
  BY <1>26 DEF lvars, v4, nic, v6, world, history
<1> QED
  BY <1>1, <1>2, <1>3, <1>4, <1>5, <1>6, <1>7, <1>8, <1>9, <1>10, <1>11, <1>12, <1>13, <1>14,
     <1>15, <1>16, <1>17, <1>18, <1>19, <1>20, <1>21, <1>22, <1>23, <1>24, <1>25, <1>26, ZenonT(30)
  DEF LeasesNext, Client4, Client6

(* Every step keeps what the link watch knows. *)
LEMMA WatchedStep ==
    ASSUME LTypeOK, Recorded, Watched, Timed, [LeasesNext]_lvars
    PROVE  Watched'
<1> USE DEF LTypeOK, Watched, WillReboot
<1>1. CASE initState
  BY <1>1 DEF initState, expire, GoTo, endLease, initTimeout, timeout, Lower, nic, v6, world,
     history
<1>2. CASE selecting
  BY <1>2 DEF selecting, GoTo, timeout, Tries, nic, v6, world, history
<1>3. CASE rebootState
  BY <1>3 DEF rebootState, GoTo, timeout, nic, v6, world, history
<1>4. CASE boundState
  BY <1>4 DEF boundState, GoTo, nic, v6, world, history
<1>5. CASE renewState
  BY <1>5 DEF renewState, GoTo, extendWait, Lower, Higher, T2, nic, v6, world, history
<1>6. CASE rebindState
  BY <1>6 DEF rebindState, expire, GoTo, endLease, extendWait, Lower, Higher, nic, v6, world,
     history
<1>7. CASE exchangeTimesOut
  BY <1>7 DEF exchangeTimesOut, Lower, Tries, nic, v6, world, history
<1>8. CASE Offer
  BY <1>8 DEF Offer, Answered, GoTo, nic, v6, world, history
<1>9. ASSUME NEW a \in Addrs, Ack(a) PROVE Watched'
  BY <1>9 DEF Ack, Answered, bind, GoTo, nic, v6
<1>10. CASE Nak
  BY <1>10 DEF Nak, Answered, GoTo, expire, endLease, nic, v6, world, history
<1>11. CASE StartReboot
  BY <1>11 DEF StartReboot, GoTo, nic, v6, world, history
<1>12. CASE onBound
  BY <1>12 DEF onBound, Apply, ApplyFails, carrierAtBound, superseded, nic, v6, history
<1>13. CASE bindEnds
  BY <1>13 DEF bindEnds, GoTo, nic, v6, world, history
<1>14. ASSUME NEW m \in BOOLEAN, onRA(m) PROVE Watched'
  BY <1>14 DEF onRA, v4, nic, world, history
<1>15. CASE onRAContinues
  BY <1>15 DEF onRAContinues, v4, nic, world, history
<1>16. CASE onBound6
  BY <1>16 DEF onBound6, v4, history
<1>17. CASE onExpire6
  BY <1>17 DEF onExpire6, dropAddr6, v4
<1>18. CASE stop6Ends
  BY <1>18 DEF stop6Ends, dropAddr6, v4
<1>19. CASE CarrierFlips
  <2>1. /\ updates' = Append(updates, ~carrier) /\ Len(updates') = Len(updates) + 1
        /\ updates' \in Seq(BOOLEAN) /\ updates' # <<>>
        /\ updates'[Len(updates')] = ~carrier
        /\ \A i \in 1 .. Len(updates) : updates'[i] = updates[i]
    BY <1>19, SMT DEF CarrierFlips
  <2>2. /\ carrier' = ~carrier
        /\ confirmed' => confirmed
        /\ UNCHANGED <<cst, rebootReq, applied, down, lost, halted>>
    BY <1>19 DEF CarrierFlips, v4, nic
  <2>3. cst \in {"acked", "applied"} => (confirmed' <=> confirmed)
    BY <1>19 DEF CarrierFlips
  <2>4. ASSUME cst = "bound", ~confirmed', ~halted PROVE rebootReq \/ WillReboot'
    <3>1. CASE confirmed
      <4>1. ~carrier
        BY <1>19, <2>4, <3>1 DEF CarrierFlips
      <4>2. CASE updates = <<>>
        BY <2>1, <2>2, <2>4, <4>1, <4>2, SMT
      <4>3. CASE updates # <<>>
        <5>1. ~updates[Len(updates)] /\ Len(updates) \in Nat \ {0}
          BY <2>4, <4>1, <4>3, SMT
        <5>2. ~updates'[Len(updates)]
          BY <5>1, <2>1, SMT
        <5>3. updates'[Len(updates')]
          BY <2>1, <4>1
        <5> QED BY <2>1, <5>1, <5>2, <5>3, SMT
      <4> QED BY <4>2, <4>3
    <3>2. CASE ~confirmed
      <4>1. rebootReq \/ WillReboot
        BY <2>4, <3>2
      <4> QED BY <2>1, <2>2, <4>1, SMT
    <3> QED BY <3>1, <3>2
  <2> QED BY <2>1, <2>2, <2>3, <2>4
<1>20. CASE carrierChange
  <2> /\ updates # <<>> /\ updates' = Tail(updates) /\ ~halted
    BY <1>20 DEF carrierChange
  <2> Head(updates) = updates[1]
    BY SMT
  <2>1. /\ Len(updates) \in Nat \ {0} /\ Len(updates') = Len(updates) - 1
        /\ updates' \in Seq(BOOLEAN)
        /\ \A i \in 1 .. Len(updates') : updates'[i] = updates[i + 1]
    BY HeadTailProperties, SMT
  <2>2. UNCHANGED <<cst, applied, carrier, confirmed, halted>>
    BY <1>20 DEF carrierChange, history
  <2>3. /\ ~updates[1] => down'
        /\ updates[1] => ~down'
        /\ rebootReq => rebootReq'
        /\ updates[1] /\ down => rebootReq'
    BY <1>20, <2>1 DEF carrierChange, confirmsLease
  <2>4. applied' # None /\ down' => lost'
    BY <1>20 DEF carrierChange
  <2>5. updates' = <<>> => (carrier' <=> ~down')
    <3>1. updates' = <<>> => Len(updates') = 0
      OBVIOUS
    <3>2. updates' = <<>> => Len(updates) = 1
      BY <2>1, <3>1, SMT
    <3> QED BY <2>2, <2>3, <3>2
  <2>6. updates' # <<>> => (updates'[Len(updates')] <=> carrier')
    BY <2>1, <2>2, SMT
  <2>7. ASSUME cst = "bound", ~confirmed, ~rebootReq' PROVE WillReboot'
    <3>1. PICK j \in 1 .. Len(updates) : updates[j] /\ (down \/ \E i \in 1 .. j - 1 : ~updates[i])
      BY <2>1, <2>3, <2>7
    <3>2. j # 1
      BY <2>3, <2>7, <3>1, SMT
    <3>3. updates'[j - 1] /\ j - 1 \in 1 .. Len(updates')
      BY <2>1, <3>1, <3>2, SMT
    <3>4. CASE updates[1]
      <4>1. PICK i \in 1 .. j - 1 : ~updates[i]
        BY <2>3, <2>7, <3>1, <3>4
      <4>2. i - 1 \in 1 .. (j - 1) - 1 /\ ~updates'[i - 1]
        BY <2>1, <3>1, <3>4, <4>1, SMT
      <4> QED BY <3>3, <4>2
    <3>5. CASE ~updates[1]
      BY <2>3, <3>3, <3>5
    <3> QED BY <3>4, <3>5
  <2> QED BY <2>1, <2>2, <2>4, <2>5, <2>6, <2>7
<1>21. CASE SetupReturns
  BY <1>21 DEF SetupReturns, v4, nic, v6, world, history
<1>22. CASE stopClients
  BY <1>22 DEF stopClients, v4, nic, v6, world, history
<1>23. CASE Stop
  BY <1>23 DEF Stop, GoTo, nic, v6, world, history
<1>24. CASE Teardown
  BY <1>24 DEF Teardown, v4
<1>25. CASE Tick
  BY <1>25 DEF Tick, Waiting, Higher, nic, v6, world, history
<1>26. CASE UNCHANGED lvars
  BY <1>26 DEF lvars, v4, nic, v6, world, history
<1> QED
  BY <1>1, <1>2, <1>3, <1>4, <1>5, <1>6, <1>7, <1>8, <1>9, <1>10, <1>11, <1>12, <1>13, <1>14, Zenon,
     <1>15, <1>16, <1>17, <1>18, <1>19, <1>20, <1>21, <1>22, <1>23, <1>24, <1>25, <1>26, ZenonT(30)
  DEF LeasesNext, Client4, Client6

(* Every step keeps the exchanges within the lease. *)
LEMMA TimedStep ==
    ASSUME LTypeOK, Timed, [LeasesNext]_lvars
    PROVE  Timed'
<1> USE DEF LTypeOK, Timed, NoWait, T2
<1>1. CASE initState
  BY <1>1, SMT DEF initState, expire, GoTo, endLease, initTimeout, timeout, Lower, nic, v6, world,
     history
<1>2. CASE selecting
  BY <1>2 DEF selecting, GoTo, timeout, Tries, nic, v6, world, history
<1>3. CASE rebootState
  BY <1>3 DEF rebootState, GoTo, timeout, nic, v6, world, history
<1>4. CASE boundState
  BY <1>4 DEF boundState, GoTo, nic, v6, world, history
<1>5. CASE renewState
  BY <1>5, SMT DEF renewState, GoTo, extendWait, Lower, Higher, T2, nic, v6, world, history
<1>6. CASE rebindState
  BY <1>6, SMT DEF rebindState, expire, GoTo, endLease, extendWait, Lower, Higher, nic, v6, world,
     history
<1>7. CASE exchangeTimesOut
  BY <1>7 DEF exchangeTimesOut, Lower, Tries, nic, v6, world, history
<1>8. CASE Offer
  BY <1>8 DEF Offer, Answered, GoTo, nic, v6, world, history
<1>9. ASSUME NEW a \in Addrs, Ack(a) PROVE Timed'
  BY <1>9 DEF Ack, Answered, bind, GoTo, Addrs, None, nic, v6, history
<1>10. CASE Nak
  BY <1>10 DEF Nak, Answered, GoTo, expire, endLease, nic, v6, world, history
<1>11. CASE StartReboot
  BY <1>11 DEF StartReboot, GoTo, nic, v6, world, history
<1>12. CASE onBound
  BY <1>12 DEF onBound, Apply, ApplyFails, carrierAtBound, superseded, nic, v6, history
<1>13. CASE bindEnds
  BY <1>13 DEF bindEnds, GoTo, nic, v6, world, history
<1>14. ASSUME NEW m \in BOOLEAN, onRA(m) PROVE Timed'
  BY <1>14 DEF onRA, v4, nic, world, history
<1>15. CASE onRAContinues
  BY <1>15 DEF onRAContinues, v4, nic, world, history
<1>16. CASE onBound6
  BY <1>16 DEF onBound6, v4, history
<1>17. CASE onExpire6
  BY <1>17 DEF onExpire6, dropAddr6, v4, history
<1>18. CASE stop6Ends
  BY <1>18 DEF stop6Ends, dropAddr6, v4, history
<1>19. CASE CarrierFlips
  BY <1>19 DEF CarrierFlips, v4, nic, v6, history
<1>20. CASE carrierChange
  BY <1>20 DEF carrierChange, confirmsLease, history
<1>21. CASE SetupReturns
  BY <1>21 DEF SetupReturns, v4, nic, v6, world, history
<1>22. CASE stopClients
  BY <1>22 DEF stopClients, v4, nic, v6, world, history
<1>23. CASE Stop
  BY <1>23 DEF Stop, GoTo, nic, v6, world, history
<1>24. CASE Teardown
  BY <1>24 DEF Teardown, v4, history
<1>25. CASE Tick
  BY <1>25, SMT DEF Tick, Waiting, Higher, None, nic, v6, world, history
<1>26. CASE UNCHANGED lvars
  BY <1>26 DEF lvars, v4, nic, v6, world, history
<1> QED
  BY <1>1, <1>2, <1>3, <1>4, <1>5, <1>6, <1>7, <1>8, <1>9, <1>10, <1>11, <1>12, <1>13, <1>14, Zenon,
     <1>15, <1>16, <1>17, <1>18, <1>19, <1>20, <1>21, <1>22, <1>23, <1>24, <1>25, <1>26, ZenonT(30)
  DEF LeasesNext, Client4, Client6

-----------------------------------------------------------------------------
LEMMA LInvStep == LInv /\ [LeasesNext]_lvars => LInv'
  BY TypeStep, RecordedStep, WatchedStep, TimedStep DEF LInv

(* The leases are kept: whatever fails and however the carrier, the servers  *)
(* and the timers interleave, nothing stays on the NIC after Teardown but    *)
(* what was reported, a bound client has confirmed its lease since the       *)
(* carrier returned, and no wait outlives the lease.                         *)
THEOREM LeasesAreKeptAlways == LeasesSpec => []LeasesAreKept
<1>1. LInv => LeasesAreKept
  <2> SUFFICES ASSUME LInv PROVE LeasesAreKept
    OBVIOUS
  <2>1. TeardownCleans
    BY DEF LInv, Recorded, TeardownCleans, Config
  <2>2. CarrierReturnConfirms
    BY SMT DEF LInv, LTypeOK, Watched, WillReboot, CarrierReturnConfirms
  <2>3. LeaseEndsInTime
    BY SMT DEF LInv, LTypeOK, ClientStates, Timed, LeaseEndsInTime, NoWait, T2
  <2> QED BY <2>1, <2>2, <2>3 DEF LeasesAreKept
<1>2. LInv /\ [LeasesNext]_lvars => LInv'
  BY LInvStep
<1> QED BY InitLInv, <1>1, <1>2, PTL DEF LeasesSpec
=============================================================================
