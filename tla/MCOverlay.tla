----------------------------- MODULE MCOverlay -----------------------------
(***************************************************************************)
(* The overlay of the GoBGP stack for TLC: the routes with the FIB writer, *)
(* the FDB with its nexthop groups, and the stack's Setup and Teardown are *)
(* three state machines that share no state; a behaviour moves one of      *)
(* them, the others stay where they start.                                 *)
(***************************************************************************)
EXTENDS GobgpRoutes, GobgpEs, GobgpStack

VARIABLE focus

mcvars == <<gvars, evars, svars, focus>>

MCInit ==
    /\ focus \in {"routes", "fdb", "stack"}
    /\ GInit /\ EInit /\ SInit
    /\ focus # "stack" => pre = {} /\ gateway = "none"

MCNext ==
    /\ UNCHANGED focus
    /\ \/ focus = "routes" /\ GNext /\ UNCHANGED <<evars, svars>>
       \/ focus = "fdb" /\ ENext /\ UNCHANGED <<gvars, svars>>
       \/ focus = "stack" /\ SNext /\ UNCHANGED <<gvars, evars>>

MCFairness ==
    /\ WF_mcvars(focus = "routes" /\ Watcher /\ UNCHANGED <<evars, svars, focus>>)
    /\ WF_mcvars(focus = "routes" /\ Writer /\ UNCHANGED <<evars, svars, focus>>)
    /\ WF_mcvars(focus = "routes" /\ wanted(TRUE) /\ UNCHANGED <<evars, svars, focus>>)

MCSpec == MCInit /\ [][MCNext]_mcvars /\ MCFairness

----------------------------------------------------------------------------
(* What the overlay believes of the kernel is there, and what is there is   *)
(* accounted for: gateways by their references, nexthops by their segment,  *)
(* the FDB entry by the best route (overlay.go, type2.go, esi.go).          *)
OverlayIsReal == GatewaysCounted /\ NexthopsAreTracked /\ FdbEntryIsReal /\ MacFollowsBest

(* Routes end where the last news put them, and not after Teardown.         *)
RoutesFollow == RoutesSettle /\ NoRouteAfterTeardown
============================================================================
