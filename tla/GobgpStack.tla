----------------------------- MODULE GobgpStack -----------------------------
(***************************************************************************)
(* Setup, failure and Teardown of the GoBGP stack, over the connectivity   *)
(* retries of main.go (src/pkg/network/gobgp/stack.go, overlay.go,         *)
(* l3vni.go, underlay.go; src/main.go setupGoBGPStack and                  *)
(* ensureNetworkConnectivity).                                             *)
(*                                                                         *)
(* What Setup makes in the kernel and in the process is a set of           *)
(* resources.  Any of them may exist before (a rescue shell, a previous    *)
(* run, systemd-networkd): links are then used but not owned.  Any step    *)
(* may fail, any removal may fail; removals are only logged.  Each attempt *)
(* is a new Stack, which owns nothing yet.                                 *)
(***************************************************************************)
EXTENDS Naturals, Sequences

CONSTANTS Before,      \* the resources that may exist before
          MaxAttempts, \* networkWait: connectivity attempts
          MaxErrors    \* bound: failing steps

ASSUME StackAssumption == MaxAttempts \in Nat \ {0} /\ MaxErrors \in Nat

VARIABLES pre,      \* the resources that existed before the first attempt
          present,  \* the resources that exist now
          owned,    \* what the current Stack recorded as its own
          stuck,    \* history: resources a failed removal left
          phase,    \* "setup", "wait", "teardown", "over"
          todo,     \* the steps left in the phase
          failed,   \* Setup returned an error
          attempt, errors,
          gateway   \* ProvisionGateway: "none", "numbered" or "unnumbered" peers

svars == <<pre, present, owned, stuck, phase, todo, failed, attempt, errors, gateway>>

\* OverlayTier.Setup.  The paths are those of the BGP server, and go with
\* it; the overlay type is EVPN-VXLAN with the L2 service.
createVXLANAndBridge == <<"vxlan", "bridge", "attach">>
                          \o (IF gateway = "none" THEN <<>> ELSE <<"gatewayFDB">>)
addProvisionIP == <<"provisionIP">>
addOverlayLoopback == <<"loopback">>
installBlackholes == <<"blackholes">>
advertiseType5 == <<"type5">>
advertiseType5Networks == <<"networks">>
advertiseType3 == <<"type3">>
advertiseType2 == <<"type2">>
OverlaySetup == createVXLANAndBridge \o addProvisionIP \o addOverlayLoopback
                  \o installBlackholes \o advertiseType5 \o advertiseType5Networks
                  \o advertiseType3 \o advertiseType2 \o <<"watch">>
UnderlaySetup == <<"dummy", "nics", "bgp">>
installGatewayRoute == <<"gatewayRoute">>

\* Stack.Setup: CreateVRF, both tiers, the gateway route.
SetupSteps == <<"vrf">> \o UnderlaySetup \o OverlaySetup
                \o (IF gateway = "unnumbered" THEN installGatewayRoute ELSE <<>>)
In(r, steps) == \E i \in DOMAIN steps : steps[i] = r

\* Links: LinkAdd fails with EEXIST when there is one already, and only a
\* link that was added is recorded.
Links == {"vrf", "vxlan", "bridge"}
\* What goes with a link: the addresses, routes and neighbors of the bridge,
\* the FDB of the VXLAN device, the enslaved NICs of the VRF; and the paths
\* with the BGP server.
Holds(l) == CASE l = "bridge" -> {"provisionIP", "type5Routes"}
              [] l = "vxlan" -> {"gatewayFDB", "remoteFDB"}
              [] l = "vrf" -> {"nics"}
              [] l = "bgp" -> {"type5", "networks", "type3", "type2"}
              [] OTHER -> {}

\* OverlayTier.Teardown, UnderlayTier.Teardown, cleanupVRF, Stack.Teardown.
\* Of what the watcher installed, only the Type-2 entries are deleted one by
\* one; the others go with the links.
OverlayDown == <<"watch", "type2State", "gatewayFDB", "loopback", "blackholes", "bridge", "vxlan">>
UnderlayDown == <<"bgp", "nics", "dummy">>
VRFDown == <<"vrf">>

\* Stack.Teardown.
StackDown == <<"gatewayRoute">> \o OverlayDown \o <<"vtepRoutes">>
               \o UnderlayDown \o VRFDown

\* Mutant of CleanupAfter: setupGoBGPStack returns the error of Setup and
\* does not tear the stack down.
CleanupAfter_TiersOnly(step) ==
    IF In(step, OverlaySetup) THEN OverlayDown \o UnderlayDown \o VRFDown
    ELSE IF In(step, UnderlaySetup) THEN VRFDown
    ELSE <<>>

\* Stack.Setup cleans up what its own tiers did, and setupGoBGPStack tears
\* the whole stack down again.
CleanupAfter(step) ==
    (IF In(step, OverlaySetup) THEN OverlayDown \o UnderlayDown \o VRFDown
     ELSE IF In(step, UnderlaySetup) THEN VRFDown
     ELSE <<>>) \o StackDown

SInit ==
    /\ gateway \in {"none", "numbered", "unnumbered"}
    /\ pre \in SUBSET Before
    /\ present = pre
    /\ owned = {} /\ stuck = {}
    /\ phase = "setup" /\ todo = SetupSteps
    /\ failed = FALSE
    /\ attempt = 1 /\ errors = 0

---------------------------------------------------------------------------
\* A step of Setup that succeeds.  createVRF, createVXLAN and createBridge
\* own what they added.  The overlay loopback address is recorded also when
\* it was there; the dummy and the provision IP are not recorded.
Record(r) == IF r \in Links \cap present THEN owned ELSE owned \cup {r}
SetupStep ==
    /\ phase = "setup" /\ todo # <<>>
    /\ LET r == Head(todo)
       IN  IF r = "attach"
             THEN UNCHANGED <<present, owned>>
             ELSE /\ present' = present \cup {r}
                  /\ owned' = Record(r)
    /\ todo' = Tail(todo)
    /\ phase' = IF Tail(todo) = <<>> THEN "wait" ELSE "setup"
    /\ UNCHANGED <<pre, stuck, failed, attempt, errors, gateway>>

\* A step that fails.  The gateway FDB entry and the gateway route are not
\* fatal; watchRoutes cannot fail.  A link may have been added before the
\* failing call on it.
SetupFails ==
    /\ phase = "setup" /\ todo # <<>> /\ Head(todo) # "watch"
    /\ errors < MaxErrors /\ errors' = errors + 1
    /\ LET r == Head(todo)
           fatal == r \notin {"gatewayFDB", "gatewayRoute"}
       IN  /\ \E added \in {{}, {r} \cap (Links \cup {"dummy", "nics", "bgp", "blackholes", "loopback"})} :
                 /\ present' = present \cup added
                 /\ owned' = IF added = {} THEN owned ELSE Record(r)
           /\ failed' = fatal
           /\ phase' = IF fatal THEN "teardown"
                       ELSE IF Tail(todo) = <<>> THEN "wait" ELSE "setup"
           /\ todo' = IF fatal THEN CleanupAfter(r) ELSE Tail(todo)
    /\ UNCHANGED <<pre, stuck, attempt, gateway>>

\* WaitForConnectivity: the gateway route again or, with numbered peers,
\* only once their sessions are up.
ensureGatewayRoute ==
    /\ phase = "wait" /\ gateway # "none" /\ "gatewayRoute" \notin owned
    /\ present' = present \cup {"gatewayRoute"}
    /\ owned' = owned \cup {"gatewayRoute"}
    /\ UNCHANGED <<pre, stuck, phase, todo, failed, attempt, errors, gateway>>

\* wireVTEPRoutes, ensureVTEPRoute: without a provision gateway a Type-5
\* update of the watcher adds routes to VTEPs.
ensureVTEPRoute ==
    /\ gateway = "none"
    /\ "watch" \in present /\ phase \in {"setup", "wait"}
    /\ "vtepRoutes" \notin present
    /\ present' = present \cup {"vtepRoutes"}
    /\ owned' = owned \cup {"vtepRoutes"}
    /\ UNCHANGED <<pre, stuck, phase, todo, failed, attempt, errors, gateway>>

\* processRouteUpdate: a Type-5 route adds a route and a gateway neighbor on
\* the bridge and an FDB entry on the VXLAN device, a Type-3 route an entry
\* there, a Type-2 route an entry there and a neighbor.
processRouteUpdate ==
    /\ "watch" \in present /\ phase \in {"setup", "wait"}
    /\ {"bridge", "vxlan"} \subseteq present
    /\ \E new \in {{"type5Routes", "remoteFDB"}, {"remoteFDB"}, {"type2State"}} :
          /\ ~(new \subseteq present)
          /\ present' = present \cup new
          /\ owned' = owned \cup (new \cap {"type2State"})
    /\ UNCHANGED <<pre, stuck, phase, todo, failed, attempt, errors, gateway>>

\* WaitForConnectivity ends: connected until the run's end, or timed out;
\* both tear the stack down.
Leave ==
    /\ phase = "wait"
    /\ phase' = "teardown" /\ todo' = StackDown
    /\ UNCHANGED <<pre, present, owned, stuck, failed, attempt, errors, gateway>>

\* A removal.  Tiers forget what they removed, except the created flags of
\* the links, so a second pass deletes nothing else: LinkByName fails.  NICs
\* and the dummy go whoever made them.
Mine(r) == r \in owned \/ r \in {"nics", "dummy"}
TeardownStep ==
    /\ phase = "teardown" /\ todo # <<>>
    /\ LET r == Head(todo)
       IN  \/ /\ Mine(r) /\ r \in present
              /\ \/ /\ present' = present \ ({r} \cup Holds(r))
                    /\ UNCHANGED <<stuck, errors>>
                 \/ /\ r \notin {"watch", "bgp"}
                    /\ errors < MaxErrors /\ errors' = errors + 1
                    /\ stuck' = stuck \cup {r} \cup Holds(r)
                    /\ UNCHANGED present
           \/ /\ ~(Mine(r) /\ r \in present)
              /\ UNCHANGED <<present, stuck, errors>>
    /\ owned' = IF Head(todo) \in {"bridge", "vxlan"} THEN owned
                ELSE owned \ {Head(todo)}
    /\ todo' = Tail(todo)
    /\ UNCHANGED <<pre, phase, failed, attempt, gateway>>

\* setupNetworkModeFn again with a new Stack, or the end: after a failed
\* Setup, or when no attempt is left.
Again ==
    /\ phase = "teardown" /\ todo = <<>>
    /\ IF ~failed /\ attempt < MaxAttempts
         THEN /\ attempt' = attempt + 1
              /\ phase' = "setup" /\ todo' = SetupSteps
         ELSE phase' = "over" /\ UNCHANGED <<attempt, todo>>
    /\ owned' = {}
    /\ UNCHANGED <<pre, present, stuck, failed, errors, gateway>>

SNext == \/ SetupStep \/ SetupFails \/ ensureGatewayRoute \/ ensureVTEPRoute
         \/ processRouteUpdate \/ Leave \/ TeardownStep \/ Again
SSpec == SInit /\ [][SNext]_svars

---------------------------------------------------------------------------
(* What stays on a bridge or VXLAN device that was there before: nobody      *)
(* deletes the provision IP and what Type-5 and Type-3 routes installed      *)
(* there.                                                                    *)
OnForeignLinks == (IF "bridge" \in pre THEN {"provisionIP", "type5Routes"} ELSE {})
                    \cup (IF "vxlan" \in pre THEN {"remoteFDB"} ELSE {})

(* The stack leaves the host as it found it, whichever step of whichever   *)
(* attempt failed: nothing it made stays, and no link that existed before  *)
(* goes.  Exempt are what a failed removal left, what is on links that are *)
(* not the stack's (OnForeignLinks), and what Teardown removes whoever     *)
(* made it: the dummy, the VRF membership of the NICs, the overlay         *)
(* loopback address and replaced routes (stack.go Setup and Teardown,      *)
(* overlay.go cleanupSetupFailure, main.go setupGoBGPStack).               *)
StackLeavesNoTrace ==
    phase = "over" =>
        /\ present \subseteq pre \cup stuck \cup OnForeignLinks
        /\ pre \cap Links \subseteq present
============================================================================
