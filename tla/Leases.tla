------------------------------- MODULE Leases -------------------------------
(***************************************************************************)
(* The DHCP mode of the agent on one NIC: the DHCPv4 client                 *)
(* (pkg/network/dhcp4/client.go), the DHCPv6 client that router             *)
(* advertisements start (dhcp6/client.go, dhcp6_mode.go), and DHCPMode      *)
(* (dhcp.go), which puts a lease on the NIC, follows its carrier and takes  *)
(* everything off again at Teardown.                                       *)
(*                                                                         *)
(* The goroutines are the client of each family, the link watch and the    *)
(* caller of Setup and Teardown.  Time is counted in ticks; a tick waits    *)
(* for every deadline that is reached.                                     *)
(***************************************************************************)
EXTENDS Integers, Sequences

CONSTANTS
    LeaseTime,      \* ticks from the ACK of a lease to its expiry
    MaxFlips,       \* bound on carrier changes
    MaxLeaseFaults, \* bound on netlink calls that fail
    MaxBinds        \* bound on the leases that the servers give

ASSUME LeasesAssumption ==
    LeaseTime \in Nat /\ LeaseTime >= 3 /\ MaxFlips \in Nat /\ MaxLeaseFaults \in Nat /\ MaxBinds \in Nat

T1 == LeaseTime \div 2          \* ticks left when the client begins to renew
T2 == 1                         \* ticks left when it begins to rebind
None == "none"
Addrs == {"a", "b"}
Tries == 2                      \* bound: tries of a DHCPREQUEST (five in the code)
NoWait == -1

VARIABLES
    cst,        \* state of the DHCPv4 client; "acked" and "applied" are inside bind
    tries, tmo, \* retransmissions, and ticks left of the exchange in progress
    lease,      \* address of the lease that the client keeps
    left,       \* ticks to its expiry; below 0 it is overdue
    rebootReq,
    applied,    \* d.nics: the address of the lease that is on the NIC
    kernel,     \* what DHCP has put on the NIC
    staleState, \* d.stale: what could not be removed
    down, lost, \* of nicClient
    halted,     \* d.stopped
    carrier,    \* carrier of the NIC
    updates,    \* link updates that the watch has not read
    client6,    \* the DHCPv6 client: None, "info" or "addr"
    old6,       \* the client that stop6 or onRA waits for
    wait6,      \* who waits: None, "stop6" or "onRA"
    bound6, addr6,  \* the client has an address; n.addr is set
    mode,       \* "setup", "up", "failed", "stopping", "down"
    flips, leaseFaults, binds,
    confirmed,  \* history: an ACK answers the last return of the carrier
    unremoved   \* history: what Teardown or DHCPv6 failed to remove

v4 == <<cst, tries, tmo, lease, left, rebootReq>>
nic == <<applied, kernel, staleState, down, lost>>
v6 == <<client6, old6, wait6, bound6, addr6>>
world == <<carrier, updates, flips, leaseFaults, binds>>
history == <<confirmed, unremoved>>
lvars == <<v4, nic, v6, world, history, halted, mode>>

LeasesInit ==
    /\ cst = "init" /\ tries = 0 /\ tmo = NoWait /\ lease = None /\ left = 0 /\ rebootReq = FALSE
    /\ applied = None /\ kernel = {} /\ staleState = {} /\ halted = FALSE
    /\ carrier \in BOOLEAN /\ down = ~carrier /\ lost = FALSE /\ updates = <<>>
    /\ client6 = None /\ old6 = None /\ wait6 = None /\ bound6 = FALSE /\ addr6 = FALSE
    /\ mode = "setup" /\ flips = 0 /\ leaseFaults = 0 /\ binds = 0
    /\ confirmed = TRUE /\ unremoved = {}

Lower(m, n) == IF m < n THEN m ELSE n
Higher(m, n) == IF m > n THEN m ELSE n

(* The address and the routes of a lease. *)
Config(a) == IF a = None THEN {} ELSE {<<"addr", a>>, <<"route", a>>}

-----------------------------------------------------------------------------
(* The state machine of the DHCPv4 client. *)
GoTo(s) == cst' = s /\ tries' = 0 /\ tmo' = NoWait

(* endLease: the lease goes off the NIC; what cannot be removed is kept for *)
(* Teardown.                                                                *)
endLease(stuck) ==
    /\ applied' = None
    /\ kernel' = kernel \ (Config(applied) \ stuck)
    /\ staleState' = staleState \cup stuck

(* A netlink call that fails leaves one thing of the set behind. *)
Stuck(set) == {{}} \cup (IF leaseFaults < MaxLeaseFaults THEN {{x} : x \in set \cap kernel} ELSE {})
Counted(stuck) == leaseFaults' = leaseFaults + (IF stuck = {} THEN 0 ELSE 1)

expire(nextSt) ==
    /\ lease' = None /\ left' = 0
    /\ GoTo(nextSt)
    /\ \E stuck \in Stuck(Config(applied)) : endLease(stuck) /\ Counted(stuck)
    /\ UNCHANGED <<rebootReq, down, lost, carrier, updates, flips, binds>>

bind(a) ==
    /\ binds < MaxBinds /\ binds' = binds + 1
    /\ lease' = a /\ left' = LeaseTime
    /\ GoTo("acked")
    /\ confirmed' = TRUE

timeout(n) == IF n = 0 THEN 1 ELSE 2

(* A kept lease ends the wait at its expiry. *)
initTimeout(n) == IF lease = None THEN timeout(n) ELSE Lower(timeout(n), left)

(* The wait of extend: half of the time left, at least a minute. *)
extendWait(until) == Lower(Higher((left - until) \div 2, 1), left - until)

initState ==
    /\ cst = "init" /\ tmo = NoWait /\ ~rebootReq
    /\ IF lease # None /\ left <= 0
        THEN expire("init")
        ELSE /\ tmo' = initTimeout(tries)
             /\ UNCHANGED <<cst, tries, lease, left, rebootReq, nic, world>>
    /\ UNCHANGED <<v6, history, halted, mode>>

selecting ==
    /\ cst = "selecting" /\ tmo = NoWait /\ ~rebootReq
    /\ IF tries = Tries THEN GoTo("init")
       ELSE tmo' = timeout(tries) /\ UNCHANGED <<cst, tries>>
    /\ UNCHANGED <<lease, left, rebootReq, nic, v6, world, history, halted, mode>>

rebootState ==
    /\ cst = "rebooting" /\ tmo = NoWait /\ ~rebootReq
    /\ IF lease = None \/ tries = 1 THEN GoTo("init")
       ELSE tmo' = timeout(0) /\ UNCHANGED <<cst, tries>>
    /\ UNCHANGED <<lease, left, rebootReq, nic, v6, world, history, halted, mode>>

boundState ==
    /\ cst = "bound" /\ left <= T1 /\ ~rebootReq
    /\ GoTo("renewing")
    /\ UNCHANGED <<lease, left, rebootReq, nic, v6, world, history, halted, mode>>

renewState ==
    /\ cst = "renewing" /\ tmo = NoWait /\ ~rebootReq
    /\ IF left <= T2 THEN GoTo("rebinding")
       ELSE tmo' = extendWait(T2) /\ UNCHANGED <<cst, tries>>
    /\ UNCHANGED <<lease, left, rebootReq, nic, v6, world, history, halted, mode>>

rebindState ==
    /\ cst = "rebinding" /\ tmo = NoWait /\ ~rebootReq
    /\ IF left <= 0
        THEN expire("init")
        ELSE /\ tmo' = extendWait(0)
             /\ UNCHANGED <<cst, tries, lease, left, rebootReq, nic, world>>
    /\ UNCHANGED <<v6, history, halted, mode>>

exchangeTimesOut ==
    /\ tmo = 0
    /\ tmo' = NoWait /\ tries' = Lower(tries + 1, Tries)
    /\ UNCHANGED <<cst, lease, left, rebootReq, nic, v6, world, history, halted, mode>>

(* A reply that exchange accepts.  A set rebootReq discards it. *)
Answered == tmo # NoWait /\ ~rebootReq /\ carrier

Offer ==
    /\ Answered /\ cst = "init"
    /\ GoTo("selecting")
    /\ UNCHANGED <<lease, left, rebootReq, nic, v6, world, history, halted, mode>>

(* A rapid commit, or the answer to a DHCPREQUEST. *)
Ack(a) ==
    /\ Answered
    /\ bind(a)
    /\ UNCHANGED <<rebootReq, nic, v6, carrier, updates, flips, leaseFaults, unremoved, halted, mode>>

(* A DHCPNAK ends the lease, except while another offer is requested. *)
Nak ==
    /\ Answered /\ cst # "init"
    /\ IF cst = "selecting"
        THEN GoTo("init") /\ UNCHANGED <<lease, left, rebootReq, nic, world>>
        ELSE expire("init")
    /\ UNCHANGED <<v6, history, halted, mode>>

(* run: a reboot request ends every wait and every exchange. *)
StartReboot ==
    /\ rebootReq /\ cst \in {"init", "selecting", "rebooting", "bound", "renewing", "rebinding"}
    /\ rebootReq' = FALSE /\ GoTo("rebooting")
    /\ UNCHANGED <<lease, left, nic, v6, world, history, halted, mode>>

-----------------------------------------------------------------------------
(* DHCPMode.onBound, under d.mu.                                            *)

(* Mutant of carrierAtBound: the NIC is taken to have carrier. *)
carrierAtBound_Up == TRUE

(* The carrier decides: down makes its return confirm this lease. *)
carrierAtBound == carrier

(* What a new lease could not take away is kept for Teardown. *)
superseded(stuck) == staleState \cup stuck

(* The address, then the routes; then what the lease before it had goes.    *)
Apply ==
    \E stuck \in Stuck(Config(applied) \ Config(lease)) :
        /\ kernel' = (kernel \ (Config(applied) \ stuck)) \cup Config(lease)
        /\ staleState' = superseded(stuck)
        /\ applied' = lease /\ down' = ~carrierAtBound /\ lost' = ~carrierAtBound
        /\ Counted(stuck)

(* A route cannot be added: dropUnappliedAddr takes the address off again.  *)
ApplyFails ==
    /\ leaseFaults < MaxLeaseFaults /\ leaseFaults' = leaseFaults + 1
    /\ \/ UNCHANGED <<kernel, staleState>>
       \/ /\ lease # applied
          /\ kernel' = kernel \cup {<<"addr", lease>>}
          /\ staleState' = staleState \cup {<<"addr", lease>>}
    /\ UNCHANGED <<applied, down, lost>>

onBound ==
    /\ cst = "acked"
    /\ cst' = "applied"
    /\ IF halted THEN UNCHANGED <<nic, leaseFaults>> ELSE Apply \/ ApplyFails
    /\ UNCHANGED <<tries, tmo, lease, left, rebootReq, v6, carrier, updates, flips, binds, history, halted, mode>>

(* The end of bind: a lease that is fresh needs no confirmation. *)
bindEnds ==
    /\ cst = "applied"
    /\ GoTo("bound")
    /\ rebootReq' = FALSE
    /\ UNCHANGED <<lease, left, nic, v6, world, history, halted, mode>>

-----------------------------------------------------------------------------
(* The link watch.  Its handler waits in stop6 for the DHCPv6 client.       *)
CarrierFlips ==
    /\ flips < MaxFlips
    /\ flips' = flips + 1
    /\ carrier' = ~carrier /\ updates' = Append(updates, ~carrier)
    /\ confirmed' = (confirmed /\ (carrier \/ cst \in {"acked", "applied"}))
    /\ UNCHANGED <<v4, nic, v6, leaseFaults, binds, unremoved, halted, mode>>

(* The return of the carrier confirms the lease, or starts without backoff. *)
confirmsLease == lost \/ applied = None

carrierChange ==
    /\ updates # <<>> /\ wait6 # "stop6" /\ ~halted
    /\ updates' = Tail(updates)
    /\ IF ~Head(updates) /\ ~down
        THEN /\ down' = TRUE /\ lost' = (applied # None)
             /\ wait6' = (IF wait6 = None THEN "stop6" ELSE wait6)
             /\ old6' = (IF wait6 = None THEN client6 ELSE old6) /\ client6' = None
             /\ UNCHANGED rebootReq
        ELSE IF Head(updates) /\ down
        THEN /\ down' = FALSE /\ lost' = FALSE
             /\ rebootReq' = (rebootReq \/ confirmsLease)
             /\ UNCHANGED <<client6, old6, wait6>>
        ELSE UNCHANGED <<down, lost, rebootReq, client6, old6, wait6>>
    /\ UNCHANGED <<cst, tries, tmo, lease, left, applied, kernel, staleState, bound6, addr6, carrier,
                   flips, leaseFaults, binds, history, halted, mode>>

-----------------------------------------------------------------------------
(* DHCPv6.  A router advertisement starts the client; one with the M flag   *)
(* replaces a client that only asks for options.                            *)
Six == <<"addr", "six">>

onRA(managed) ==
    /\ ~halted /\ wait6 # "onRA" /\ carrier
    /\ IF client6 = None
        THEN /\ ~down /\ client6' = (IF managed THEN "addr" ELSE "info") /\ bound6' = FALSE
             /\ UNCHANGED <<old6, wait6>>
        ELSE /\ managed /\ client6 = "info" /\ wait6 = None
             /\ old6' = client6 /\ client6' = None /\ wait6' = "onRA" /\ UNCHANGED bound6
    /\ UNCHANGED <<v4, nic, addr6, world, history, halted, mode>>

(* The stateless client has stopped: a stateful one takes its place. *)
onRAContinues ==
    /\ wait6 = "onRA"
    /\ wait6' = None /\ old6' = None
    /\ IF halted \/ client6 # None \/ down THEN UNCHANGED <<client6, bound6>>
       ELSE client6' = "addr" /\ bound6' = FALSE
    /\ UNCHANGED <<v4, nic, addr6, world, history, halted, mode>>

(* A client, also one that is being stopped, binds an address. *)
onBound6 ==
    /\ "addr" \in {client6, old6} /\ binds < MaxBinds /\ binds' = binds + 1
    /\ bound6' = (bound6 \/ client6 = "addr")
    /\ IF halted THEN UNCHANGED <<kernel, addr6>>
       ELSE kernel' = kernel \cup {Six} /\ addr6' = TRUE
    /\ UNCHANGED <<v4, applied, staleState, down, lost, client6, old6, wait6, carrier, updates, flips,
                   leaseFaults, history, halted, mode>>

(* dropAddr6 forgets the address also when it cannot be removed. *)
dropAddr6(fails) ==
    /\ addr6' = FALSE
    /\ kernel' = IF addr6 /\ ~fails THEN kernel \ {Six} ELSE kernel
    /\ unremoved' = IF addr6 /\ fails THEN unremoved \cup {Six} ELSE unremoved
    /\ leaseFaults' = leaseFaults + (IF fails THEN 1 ELSE 0)
MayFail == IF leaseFaults < MaxLeaseFaults /\ addr6 THEN BOOLEAN ELSE {FALSE}

onExpire6 ==
    /\ client6 = "addr" /\ bound6 /\ bound6' = FALSE
    /\ \E fails \in MayFail : dropAddr6(fails)
    /\ UNCHANGED <<v4, applied, staleState, down, lost, client6, old6, wait6, carrier, updates, flips,
                   binds, confirmed, halted, mode>>

(* The end of stop6: the client has stopped, its address goes. *)
stop6Ends ==
    /\ wait6 = "stop6"
    /\ wait6' = None /\ old6' = None
    /\ \E fails \in MayFail : dropAddr6(fails)
    /\ UNCHANGED <<v4, applied, staleState, down, lost, client6, bound6, carrier, updates, flips, binds,
                   confirmed, halted, mode>>

-----------------------------------------------------------------------------
(* Setup returns with the first lease or after its timeout, in which case   *)
(* the clients go on; a canceled Setup stops them.                          *)
SetupReturns ==
    /\ mode = "setup"
    /\ mode' = IF applied # None THEN "up" ELSE "failed"
    /\ UNCHANGED <<v4, nic, v6, world, history, halted>>

stopClients ==
    /\ mode \in {"up", "failed", "setup"}
    /\ mode' = "stopping" /\ halted' = TRUE
    /\ UNCHANGED <<v4, nic, v6, world, history>>

(* Client.Stop: the client ends when it sees the stop; it releases a lease. *)
Stop ==
    /\ mode = "stopping" /\ cst \notin {"acked", "applied", "done"}
    /\ GoTo("done")
    /\ UNCHANGED <<lease, left, rebootReq, nic, v6, world, history, halted, mode>>

(* Teardown: DHCPv6 and what the leases have set go, and what was left.     *)
Teardown ==
    /\ mode = "stopping" /\ cst = "done"
    /\ mode' = "down" /\ client6' = None /\ bound6' = FALSE /\ addr6' = FALSE
    /\ LET gone == Config(applied) \cup staleState \cup (IF addr6 THEN {Six} ELSE {})
       IN  \E stuck \in Stuck(gone) :
            /\ kernel' = kernel \ (gone \ stuck) /\ unremoved' = unremoved \cup stuck
            /\ Counted(stuck)
    /\ applied' = None /\ staleState' = {}
    /\ UNCHANGED <<v4, old6, wait6, down, lost, carrier, updates, flips, binds, confirmed, halted>>

Waiting == cst \in {"init", "selecting", "rebooting", "renewing", "rebinding"} /\ tmo > 0

Tick ==
    /\ ~halted /\ ~rebootReq
    /\ Waiting \/ (cst = "bound" /\ left > T1)
    /\ tmo' = IF tmo > 0 THEN tmo - 1 ELSE tmo
    /\ left' = IF lease = None THEN 0 ELSE Higher(left - 1, -2)
    /\ UNCHANGED <<cst, tries, lease, rebootReq, nic, v6, world, history, halted, mode>>

Client4 ==
    \/ initState \/ selecting \/ rebootState \/ boundState \/ renewState \/ rebindState
    \/ exchangeTimesOut \/ Offer \/ (\E a \in Addrs : Ack(a)) \/ Nak \/ StartReboot \/ onBound \/ bindEnds
Client6 == (\E m \in BOOLEAN : onRA(m)) \/ onRAContinues \/ onBound6 \/ onExpire6 \/ stop6Ends

LeasesNext ==
    \/ Client4 \/ Client6 \/ CarrierFlips \/ carrierChange \/ SetupReturns \/ stopClients \/ Stop
    \/ Teardown \/ Tick

LeasesSpec == LeasesInit /\ [][LeasesNext]_lvars

-----------------------------------------------------------------------------
(* After Teardown nothing that a lease has put on the NIC is left, except   *)
(* what could not be removed and was reported: every address and route that *)
(* a failed step left behind was kept in d.stale until then.                *)
TeardownCleans == mode = "down" => kernel \subseteq unremoved

(* A lease that was held when the carrier went is confirmed when it comes   *)
(* back: a client that waits in BOUND has read an ACK since then.  An ACK   *)
(* that bind is still applying counts ("the ACK has just confirmed the      *)
(* lease").                                                                 *)
CarrierReturnConfirms ==
    cst = "bound" /\ ~rebootReq /\ ~halted /\ carrier /\ updates = <<>> => confirmed

(* A lease ends at its expiry, also one that is kept while the server does  *)
(* not answer an INIT-REBOOT; only an exchange with a server that has made  *)
(* a new offer, or the INIT-REBOOT itself, may still run then.              *)
LeaseEndsInTime == lease # None /\ left < 0 => cst \in {"selecting", "rebooting"} \/ tmo = NoWait

(* "A lease kept after failed INIT-REBOOTs ... still ends at its expiry"    *)
(* (initState).                                                             *)
KeptLeaseEnds == lease # None /\ cst \in {"init", "selecting"} => left >= 0

(* A lease is on the NIC exactly as long as it is good: confirmed after a    *)
(* carrier loss, gone at its expiry, and without a trace after Teardown.     *)
LeasesAreKept == TeardownCleans /\ CarrierReturnConfirms /\ LeaseEndsInTime
=============================================================================
