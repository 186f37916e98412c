----------------------------- MODULE MCUnderlay -----------------------------
(***************************************************************************)
(* Model-checks the three modules of the GoBGP underlay in one run: the    *)
(* peers, a BFD session, and the recheck of a BFD Down.  focus picks the   *)
(* module that moves; the other two stay in their initial states.          *)
(***************************************************************************)
EXTENDS GobgpPeers, Bfd, BfdRecheck

VARIABLE focus

MCTx == [e \in Ends |-> 1]
MCRx == [e \in Ends |-> IF e = "local" THEN 1 ELSE 2]

(* The hosts are interchangeable, so one of them is enough for a start; the *)
(* modules that do not move need one initial state.                         *)
MCInit ==
    /\ focus \in {"peers", "bfd", "recheck"} /\ Init /\ BInit /\ RInit
    /\ \A i \in Ifaces : switch[i] \in {CHOOSE h \in Hosts : TRUE, Silent}
    /\ focus # "peers" => \A i \in Ifaces : switch[i] = Silent

MCNext ==
    /\ UNCHANGED focus
    /\ \/ focus = "peers" /\ Next /\ UNCHANGED <<bvars, rvars>>
       \/ focus = "bfd" /\ BNext /\ UNCHANGED <<vars, rvars>>
       \/ focus = "recheck" /\ RNext /\ UNCHANGED <<vars, bvars>>

all == <<focus, vars, bvars, rvars>>
Peers(A) == focus = "peers" /\ A
Rechecks(A) == focus = "recheck" /\ A

(* The fairness of the three modules, each for the module that moves. *)
MCFairness ==
    /\ WF_vars(Peers(Relearn)) /\ WF_vars(Peers(Restart)) /\ WF_vars(Peers(Watch))
    /\ WF_vars(Peers(Timers))
    /\ WF_vars(Peers(SetupWorks \/ SetupDone \/ Stops \/ Stopped \/ TeardownDone))
    /\ WF_bvars(focus = "bfd" /\ BWork)
    /\ WF_rvars(Rechecks(Ticker)) /\ WF_rvars(Rechecks(bfdChanged)) /\ SF_rvars(Rechecks(Second))
    /\ WF_rvars(Rechecks((BgpAdvances \/ BgpEnds) /\ ComingUp(bgp)))

MCSpec == MCInit /\ [][MCNext]_all /\ MCFairness

(* Once the link keeps its packets and no end starts anew, both BFD sessions *)
(* come up with the configured intervals and stay up (transition, Receive,   *)
(* the loop of the manager).                                                 *)
BfdComesUpAgain == (focus = "bfd") => ComesUp

(* BFD tells the truth about the link: no Down without lost packets, and Up  *)
(* again when they arrive.                                                   *)
BfdIsTruthful == NoFalseDown /\ BfdComesUpAgain

=============================================================================
