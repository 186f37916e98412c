------------------------------ MODULE GobgpEs ------------------------------
(***************************************************************************)
(* The FDB of the L2 overlay: one remote MAC, announced by Type-2 routes   *)
(* of several VTEPs, with or without an Ethernet segment (ES), and the     *)
(* kernel nexthop group of that segment                                    *)
(* (src/pkg/network/gobgp/overlay.go, esi.go).                             *)
(*                                                                         *)
(* Everything runs under type2Mu, one update at a time, but a handler      *)
(* changes several kernel objects in an order that matters, and each call  *)
(* may fail: the group replaces its members before they exist, the MAC     *)
(* leaves the group before it goes, a nexthop whose delete failed is kept  *)
(* for a retry.  The kernel (external) drops the FDB entries of a deleted  *)
(* group and refuses to turn a VTEP entry into a group entry in place.     *)
(***************************************************************************)
EXTENDS Integers, FiniteSets, FiniteSetsExt

CONSTANTS Peers,       \* remote VTEPs, 1..n
          SeqNums,     \* width of the MAC mobility sequence number, 2^w
          MaxEvents,   \* bound: route updates
          MaxBad       \* bound: updates in which a kind of netlink call fails

ASSUME EsAssumption == /\ Peers \subseteq Nat \ {0} /\ IsFiniteSet(Peers)
                       /\ SeqNums \in {4, 8, 16} /\ MaxEvents \in Nat /\ MaxBad \in Nat

NoEntry == 0
Group(id) == 100 + id      \* nhGroupKey: an FDB entry on nexthop group id
IsGroup(e) == e > 100

VARIABLES
    es,       \* the overlay's record: see EInit
    kern,     \* the kernel's: [nexthops, fdb]
    events, failures, tornDown,
    kept      \* history: nexthops whose delete failed at Teardown

evars == <<es, kern, events, failures, tornDown, kept>>

EInit ==
    /\ es = [ead |-> [v \in Peers |-> {}],   \* type1Paths: "es", "evi"
             single |-> {},                   \* per-ES routes with the flag
             paths |-> {},                    \* type2Paths of the MAC
             group |-> [id |-> 0, vteps |-> {}],   \* esGroups, id 0: none
             vtepNexthops |-> [v \in Peers |-> 0],
             stale |-> {}, last |-> 0, fdb |-> NoEntry]
    /\ kern = [nexthops |-> {}, fdb |-> NoEntry]
    /\ events = 0 /\ failures = 0 /\ tornDown = FALSE /\ kept = {}

---------------------------------------------------------------------------
(* Handlers as functions of s, the fields of es and, as k and kfdb, those  *)
(* of kern.  bad is the kind of netlink call that fails in this update.    *)

\* Serial number arithmetic (RFC 1982): int32(a.seq - b.seq) > 0, with the
\* width scaled down.
Ahead(a, b) == LET d == (a - b) % SeqNums IN d # 0 /\ d < SeqNums \div 2
better(a, b) ==
    IF a.sticky # b.sticky THEN a.sticky
    ELSE IF a.seq # b.seq THEN Ahead(a.seq, b.seq)
    ELSE a.vtep < b.vtep

\* bestType2Path scans a map in any order and keeps what beats the best so
\* far: the last of a chain in which each beats the one before, that no
\* later one beats.
RECURSIVE Scans(_, _)
Scans(best, rest) ==
    IF rest = {} THEN {best}
    ELSE UNION {Scans(IF better(p, best) THEN p ELSE best, rest \ {p}) : p \in rest}
bestType2Paths(paths) == UNION {Scans(p, paths \ {p}) : p \in paths}

\* VTEPs with both EAD routes.
activeVTEPs(s) == {v \in Peers : s.ead[v] = {"es", "evi"}}

esSingleActive(s) == \E v \in s.single : "es" \in s.ead[v]

wantedFDB(s, best) ==
    CASE ~best.esi -> best.vtep
      [] best.esi /\ esSingleActive(s) ->
            IF best.vtep \in activeVTEPs(s) THEN best.vtep ELSE NoEntry
      [] best.esi /\ ~esSingleActive(s) ->
            IF s.group.id # 0 THEN Group(s.group.id)
            ELSE IF activeVTEPs(s) # {} THEN best.vtep ELSE NoEntry

\* Mutant of syncType2FDB: an entry is replaced without the delete before it.
syncType2FDB_InPlace(s, want, bad) ==
    LET refused == \/ bad = "fdbset"
                   \/ s.kfdb # NoEntry /\ IsGroup(s.kfdb) # IsGroup(want)
    IN  IF want = s.fdb THEN s
        ELSE IF want = NoEntry
          THEN [s EXCEPT !.fdb = NoEntry, !.kfdb = IF bad = "fdbdel" THEN @ ELSE NoEntry]
        ELSE IF refused THEN s ELSE [s EXCEPT !.fdb = want, !.kfdb = want]

\* syncType2FDB: an entry that goes, or changes between a VTEP and a group,
\* is deleted first; a failed delete leaves it in the kernel, which then
\* refuses the other kind.
syncType2FDB(s, want, bad) ==
    LET delete == /\ s.fdb # NoEntry
                  /\ want = NoEntry \/ IsGroup(s.fdb) \/ IsGroup(want)
        t == IF ~delete THEN s
             ELSE [s EXCEPT !.fdb = NoEntry, !.kfdb = IF bad = "fdbdel" THEN @ ELSE NoEntry]
        refused == \/ bad = "fdbset"
                   \/ t.kfdb # NoEntry /\ IsGroup(t.kfdb) # IsGroup(want)
    IN  IF want = s.fdb THEN s
        ELSE IF want = NoEntry \/ refused THEN t
        ELSE [t EXCEPT !.fdb = want, !.kfdb = want]

\* The outcomes of syncType2FDB for the MAC, one for each best route the
\* scan may find; onlyES restricts it to routes of the segment (syncESMACs).
SyncMAC(s, onlyES, bad) ==
    IF s.paths = {} THEN {IF onlyES THEN s ELSE syncType2FDB(s, NoEntry, bad)}
    ELSE {IF onlyES /\ ~b.esi THEN s ELSE syncType2FDB(s, wantedFDB(s, b), bad) :
            b \in bestType2Paths(s.paths)}

\* deleteNexthop: kept for a retry when it fails.  With the group its FDB
\* entries go.
deleteNexthop(s, id, bad) ==
    IF bad = "nhdel" THEN [s EXCEPT !.stale = @ \cup {id}]
    ELSE [s EXCEPT !.stale = @ \ {id}, !.k = @ \ {id},
                   !.kfdb = IF @ = Group(id) THEN NoEntry ELSE @]

DeleteAll(s, ids, bad) ==
    FoldSet(LAMBDA id, t : deleteNexthop(t, id, bad), s, ids)

\* The failed deletes again, then the VTEP nexthops no group uses.
dropUnusedVTEPNexthops(s, bad) ==
    LET unused == {v \in Peers : s.vtepNexthops[v] # 0 /\ v \notin s.group.vteps}
    IN  [DeleteAll(s, s.stale \cup {s.vtepNexthops[v] : v \in unused}, bad)
            EXCEPT !.vtepNexthops = [v \in Peers |-> IF v \in unused THEN 0 ELSE @[v]]]

\* dropESGroup: the MAC leaves the group before the group goes.
dropESGroup(s, bad) ==
    {dropUnusedVTEPNexthops(
        IF s.group.id # 0 THEN deleteNexthop(t, s.group.id, bad) ELSE t, bad) :
        t \in SyncMAC([s EXCEPT !.group = [id |-> 0, vteps |-> {}]], TRUE, bad)}

\* vtepNexthopID of every VTEP in order; it stops at the first that fails.
MembersFor(s, vteps, bad) ==
    LET new == {v \in vteps : s.vtepNexthops[v] = 0}
        id(v) == s.last + Cardinality({w \in new : w <= v})
    IN  IF new # {} /\ bad = "nhvtep"
          THEN [ok |-> FALSE, s |-> [s EXCEPT !.last = @ + 1]]
          ELSE [ok |-> TRUE,
                s |-> [s EXCEPT !.last = @ + Cardinality(new),
                         !.vtepNexthops = [v \in Peers |->
                             IF v \in new THEN id(v) ELSE @[v]],
                         !.k = @ \cup {id(v) : v \in new}]]

\* syncES: the group of the segment matches its active VTEPs.
syncES(s, bad) ==
    LET vteps == activeVTEPs(s)
        had == s.group.id # 0
        m == MembersFor(s, vteps, bad)
        id == IF had THEN s.group.id ELSE m.s.last + 1
        t == [m.s EXCEPT !.last = IF had THEN @ ELSE @ + 1]
    IN  IF (had /\ s.group.vteps = vteps) \/ (~had /\ vteps = {}) THEN {s}
        ELSE IF vteps = {} THEN dropESGroup(s, bad)
        ELSE IF ~m.ok THEN dropESGroup(m.s, bad)
        ELSE IF bad = "nhgroup" THEN dropESGroup(t, bad)
        ELSE SyncMAC(dropUnusedVTEPNexthops(
                        [t EXCEPT !.group = [id |-> id, vteps |-> vteps],
                                  !.k = @ \cup {id}], bad), TRUE, bad)

---------------------------------------------------------------------------
(* Updates.                                                                *)

Fields == [k |-> kern.nexthops, kfdb |-> kern.fdb, ead |-> es.ead,
           single |-> es.single, paths |-> es.paths, group |-> es.group,
           vtepNexthops |-> es.vtepNexthops, stale |-> es.stale,
           last |-> es.last, fdb |-> es.fdb]
Results(s) ==
    /\ es' = [ead |-> s.ead, single |-> s.single, paths |-> s.paths,
              group |-> s.group, vtepNexthops |-> s.vtepNexthops,
              stale |-> s.stale, last |-> s.last, fdb |-> s.fdb]
    /\ kern' = [nexthops |-> s.k, fdb |-> s.kfdb]

\* One update, in which the calls of at most one kind fail.
Update(bad) ==
    /\ ~tornDown /\ events < MaxEvents
    /\ bad # "none" => failures < MaxBad
    /\ events' = events + 1
    /\ failures' = failures + (IF bad = "none" THEN 0 ELSE 1)
    /\ UNCHANGED <<tornDown, kept>>

Kinds == {"none", "nhvtep", "nhgroup", "nhdel", "fdbset", "fdbdel"}

\* handleType1Route: an EAD route comes or goes; the flag is the per-ES
\* route's.
handleType1Route ==
    \E bad \in Kinds, v \in Peers, kind \in {"es", "evi"}, flag \in BOOLEAN, withdraw \in BOOLEAN :
        /\ Update(bad)
        /\ withdraw => kind \in es.ead[v] /\ ~flag
        /\ flag => kind = "es"
        /\ LET s == [Fields EXCEPT
                        !.ead[v] = IF withdraw THEN @ \ {kind} ELSE @ \cup {kind},
                        !.single = IF kind # "es" THEN @
                                   ELSE IF flag THEN @ \cup {v} ELSE @ \ {v}]
           IN  \E t \in syncES(s, bad) : \E u \in SyncMAC(t, TRUE, bad) : Results(u)

\* handleType2Update: a MAC route comes, is replaced, or goes.
handleType2Route ==
    \E bad \in {"none", "fdbset", "fdbdel"}, v \in Peers, withdraw \in BOOLEAN :
        /\ Update(bad)
        /\ withdraw => \E p \in es.paths : p.vtep = v
        /\ \E seq \in 0..(SeqNums - 1), esi \in BOOLEAN, sticky \in BOOLEAN :
              /\ withdraw => ~esi /\ ~sticky
              /\ withdraw \/ sticky => seq = 0   \* a sticky MAC has not moved
              /\ LET others == {p \in es.paths : p.vtep # v}
                     new == [vtep |-> v, seq |-> seq, esi |-> esi, sticky |-> sticky]
                     s == [Fields EXCEPT !.paths = IF withdraw THEN others
                                                   ELSE others \cup {new}]
                 IN  \E t \in SyncMAC(s, FALSE, bad) : Results(t)

\* Teardown: removeType2FDB, then removeESState: groups, VTEP nexthops and
\* the stale ones are deleted and forgotten, also those the kernel keeps.
removeESState(s) ==
    {s.group.id} \cup {s.vtepNexthops[v] : v \in Peers} \cup s.stale
StopType2 ==
    /\ ~tornDown /\ tornDown' = TRUE
    /\ \E bad \in {"none", "fdbdel", "nhdel"} :
        LET s == syncType2FDB(Fields, NoEntry, bad)
            ids == removeESState(s) \ {0}
        IN  \E undeleted \in SUBSET ids :
            LET t == DeleteAll(s, ids \ undeleted, "none")
            IN  /\ undeleted # {} <=> bad = "nhdel"
                /\ bad # "none" => failures < MaxBad
                /\ failures' = failures + (IF bad = "none" THEN 0 ELSE 1)
                /\ kept' = undeleted
                /\ Results([t EXCEPT !.ead = [v \in Peers |-> {}], !.single = {},
                                     !.paths = {}, !.group = [id |-> 0, vteps |-> {}],
                                     !.vtepNexthops = [v \in Peers |-> 0], !.stale = {}])
    /\ UNCHANGED events

ENext == handleType1Route \/ handleType2Route \/ StopType2
ESpec == EInit /\ [][ENext]_evars

---------------------------------------------------------------------------
(* Properties.                                                             *)

(* No kernel nexthop is forgotten: each is the segment's group, a VTEP's   *)
(* nexthop or one whose delete is retried, whatever calls failed before.   *)
(* Nexthops outlive the VXLAN device; after Teardown only those are left   *)
(* whose delete failed in Teardown itself, which is the last to try        *)
(* (esi.go, deleteNexthop, dropUnusedVTEPNexthops, removeESState).         *)
NexthopsAreTracked ==
    kern.nexthops = ({es.group.id} \cup {es.vtepNexthops[v] : v \in Peers}
                       \cup es.stale \cup kept) \ {0}

(* Two routes exactly half the number space apart do not beat each other;  *)
(* then the order of a map decides which of them a scan finds.             *)
Ordered == \A p, q \in es.paths : p = q \/ better(p, q) \/ better(q, p)

(* The FDB entry the overlay believes in is in the kernel, and one on a    *)
(* group is on the segment's group with exactly its active VTEPs: the MAC  *)
(* left the old group before it was deleted (syncType2FDB, dropESGroup).   *)
FdbEntryIsReal ==
    (Ordered /\ es.fdb # NoEntry) =>
        /\ kern.fdb = es.fdb
        /\ IsGroup(es.fdb) => /\ es.fdb = Group(es.group.id)
                              /\ es.group.vteps = activeVTEPs(es)

(* Without failed calls the MAC is where the best route puts it: the one   *)
(* that beats all others, also when the sequence number wraps, and on the  *)
(* segment's group only while the segment is all-active (bestType2Path,    *)
(* wantedFDB).                                                             *)
MacFollowsBest ==
    LET best == {p \in es.paths : \A q \in es.paths \ {p} : better(p, q)}
        both == {v \in Peers : {"es", "evi"} \subseteq es.ead[v]}
        oneActive == \E v \in Peers : v \in es.single /\ "es" \in es.ead[v]
    IN  failures = 0 =>
          /\ es.paths = {} => kern.fdb = NoEntry
          /\ \A p \in best :
                IF ~p.esi \/ (oneActive /\ p.vtep \in both) THEN kern.fdb = p.vtep
                ELSE IF oneActive \/ both = {} THEN kern.fdb = NoEntry
                ELSE IsGroup(kern.fdb) /\ es.group.vteps = both
============================================================================
