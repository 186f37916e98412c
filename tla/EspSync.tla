------------------------------ MODULE EspSync ------------------------------
(***************************************************************************)
(* The booty-esp-sync service of an installed mirror                       *)
(* (cmd/booty-esp-sync, pkg/espsync): it copies the EFI system partition    *)
(* that is mounted to the one of the other disk, once at its start and      *)
(* then after each change that its watch reports.                          *)
(*                                                                         *)
(* A copy is staged on the peer, file by file; then what the source does   *)
(* not have is pruned and each staged file is renamed into place.  A tool  *)
(* of the installed system writes the source meanwhile, in place.  A step  *)
(* can fail, the host can lose power at every step, and the next boot can  *)
(* be from the other disk or with the other disk missing.                  *)
(***************************************************************************)
EXTENDS Integers, FiniteSets

CONSTANTS
    EspFiles,       \* the paths on an ESP
    MaxChanges,     \* bound on the changes of the source
    MaxEspFaults    \* bound on failed steps and power losses

ASSUME EspSyncAssumption ==
    "none" \notin EspFiles /\ MaxChanges \in Nat /\ MaxEspFaults \in Nat

Disks == {"a", "b"}
Other(d) == IF d = "a" THEN "b" ELSE "a"

VARIABLES
    esp,        \* disk |-> file |-> version
    source,     \* the disk whose ESP is mounted at /boot/efi
    peerThere,  \* the other disk is there
    staged,     \* disk |-> file |-> version in a staging directory
    espc,       \* what the service does, see below
    todo,       \* the files that the step of the copy has still to handle
    watching,   \* the watches are set
    event,      \* the watcher has an event that is not handled
    timer,      \* the debounce timer runs
    opened,     \* the file that a tool is writing, or "none"
    changes, espFaults,
    stale,      \* history: why the peer may differ while nothing is to do
    kept        \* history: files that were on both ESPs and in the source since the last boot

\* espc: "down", "start" (the first copy), "watch" (before the watches are
\* set), "idle", and in a copy "copy", "prune", "replace".
evars == <<esp, source, peerThere, staged, espc, todo, watching, event, timer, opened, changes,
           espFaults, stale, kept>>

Peer == Other(source)
\* A version is the number of the change that wrote it.
Missing == -1
TornFile == -2
Versions == Nat \cup {Missing, TornFile}
NoFiles == [f \in EspFiles |-> Missing]
Present(tree) == {f \in EspFiles : tree[f] # Missing}

EspInit ==
    /\ esp = [d \in Disks |-> [f \in EspFiles |-> 0]]
    /\ source = "a" /\ peerThere = TRUE
    /\ staged = [d \in Disks |-> NoFiles]
    /\ espc = "start" /\ todo = {} /\ watching = FALSE /\ event = FALSE /\ timer = FALSE
    /\ opened = "none" /\ changes = 0 /\ espFaults = 0 /\ stale = {} /\ kept = EspFiles

-----------------------------------------------------------------------------
(* The installed system.  A change is an event only for a watch; until the *)
(* watches are set it is seen by nobody.                                    *)
Notify ==
    /\ event' = (event \/ watching)
    /\ stale' = IF watching THEN stale ELSE stale \cup {"unseen"}
    /\ kept' = kept \cap Present(esp'[source])

(* A file is opened, truncated and written in place. *)
WriteBegins(f) ==
    /\ espc # "down" /\ opened = "none" /\ changes < MaxChanges
    /\ changes' = changes + 1 /\ opened' = f
    /\ esp' = [esp EXCEPT ![source][f] = TornFile]
    /\ Notify
    /\ UNCHANGED <<source, peerThere, staged, espc, todo, watching, timer, espFaults>>

WriteEnds ==
    /\ espc # "down" /\ opened # "none"
    /\ esp' = [esp EXCEPT ![source][opened] = changes]
    /\ opened' = "none"
    /\ Notify
    /\ UNCHANGED <<source, peerThere, staged, espc, todo, watching, timer, changes, espFaults>>

Removes(f) ==
    /\ espc # "down" /\ opened = "none" /\ changes < MaxChanges /\ esp[source][f] # Missing
    /\ changes' = changes + 1
    /\ esp' = [esp EXCEPT ![source][f] = Missing]
    /\ Notify
    /\ UNCHANGED <<source, peerThere, staged, espc, todo, watching, timer, opened, espFaults>>

-----------------------------------------------------------------------------
(* WatchFuncWithMarker: an event restarts the debounce timer. *)
HandleEvent ==
    /\ espc = "idle" /\ event
    /\ event' = FALSE /\ timer' = TRUE
    /\ UNCHANGED <<esp, source, peerThere, staged, espc, todo, watching, opened, changes, espFaults,
                   stale, kept>>

AddWatches ==
    /\ espc = "watch"
    /\ espc' = "idle" /\ watching' = TRUE
    /\ UNCHANGED <<esp, source, peerThere, staged, todo, event, timer, opened, changes, espFaults,
                   stale, kept>>

AfterCopy == IF watching THEN "idle" ELSE "watch"

cleanStaging(tree) == NoFiles

(* pairSync.sync and the begin of CopyTree.  The walk reads the names first. *)
SyncBegins ==
    /\ espc = "start" \/ (espc = "idle" /\ timer)
    /\ timer' = FALSE
    /\ IF ~peerThere
        THEN /\ espc' = AfterCopy /\ stale' = stale \cup {"degraded"}
             /\ UNCHANGED <<staged, todo>>
        ELSE /\ espc' = "copy" /\ todo' = Present(esp[source])
             /\ stale' = {}
             /\ staged' = [staged EXCEPT ![Peer] = cleanStaging(@)]
    /\ UNCHANGED <<esp, source, peerThere, watching, event, opened, changes, espFaults, kept>>

(* A failed step ends the copy.  The first one ends the service too, and    *)
(* systemd starts it again; a later one is only logged.                     *)
SyncFails ==
    /\ espc' = (IF watching THEN "idle" ELSE "start")
    /\ todo' = {} /\ stale' = stale \cup {"failed"}
    /\ staged' = [staged EXCEPT ![Peer] = NoFiles]

(* copyEntry, copyFileFromRoot: a name that is gone is an error. *)
CopyFile(f) ==
    /\ espc = "copy" /\ f \in todo
    /\ IF esp[source][f] = Missing THEN SyncFails
       ELSE /\ staged' = [staged EXCEPT ![Peer][f] = esp[source][f]]
            /\ todo' = todo \ {f}
            /\ UNCHANGED <<espc, stale>>
    /\ UNCHANGED <<esp, source, peerThere, watching, event, timer, opened, changes, espFaults, kept>>

(* Mutant of pruneTree: every file of the peer goes. *)
pruneTree_All(tree, manifest) == Present(tree)

(* The files of the peer that are not staged. *)
pruneTree(tree, manifest) == Present(tree) \ Present(manifest)

Staged ==
    /\ espc = "copy" /\ todo = {}
    /\ espc' = "prune" /\ todo' = pruneTree(esp[Peer], staged[Peer])
    /\ UNCHANGED <<esp, source, peerThere, staged, watching, event, timer, opened, changes, espFaults,
                   stale, kept>>

Prune(f) ==
    /\ espc = "prune" /\ f \in todo
    /\ esp' = [esp EXCEPT ![Peer][f] = Missing]
    /\ todo' = todo \ {f}
    /\ UNCHANGED <<source, peerThere, staged, espc, watching, event, timer, opened, changes, espFaults,
                   stale, kept>>

Pruned ==
    /\ espc = "prune" /\ todo = {}
    /\ espc' = "replace" /\ todo' = Present(staged[Peer])
    /\ UNCHANGED <<esp, source, peerThere, staged, watching, event, timer, opened, changes, espFaults,
                   stale, kept>>

(* replacePath: a rename, which also takes the file out of the staging.     *)
Replace(f) ==
    /\ espc = "replace" /\ f \in todo
    /\ esp' = [esp EXCEPT ![Peer][f] = staged[Peer][f]]
    /\ staged' = [staged EXCEPT ![Peer][f] = Missing]
    /\ todo' = todo \ {f}
    /\ UNCHANGED <<source, peerThere, espc, watching, event, timer, opened, changes, espFaults, stale, kept>>

SyncEnds ==
    /\ espc = "replace" /\ todo = {}
    /\ espc' = AfterCopy
    /\ UNCHANGED <<esp, source, peerThere, staged, todo, watching, event, timer, opened, changes,
                   espFaults, stale, kept>>

StepFails ==
    /\ espc \in {"copy", "prune", "replace"} /\ todo # {} /\ espFaults < MaxEspFaults
    /\ espFaults' = espFaults + 1
    /\ SyncFails
    /\ UNCHANGED <<esp, source, peerThere, watching, event, timer, opened, changes, kept>>

(* The host loses power; what was renamed stays. *)
PowerLoss ==
    /\ espc # "down" /\ espFaults < MaxEspFaults
    /\ espFaults' = espFaults + 1
    /\ espc' = "down" /\ todo' = {} /\ watching' = FALSE /\ event' = FALSE /\ timer' = FALSE
    /\ opened' = "none"
    /\ UNCHANGED <<esp, source, peerThere, staged, changes, stale, kept>>

(* PeerDevice: the ESP that is mounted is the source, the other the peer.   *)
Boot(d, there) ==
    /\ espc = "down"
    /\ espc' = "start" /\ source' = d /\ peerThere' = there /\ stale' = {}
    /\ kept' = Present(esp[d]) \cap (IF there THEN Present(esp[Other(d)]) ELSE {})
    /\ UNCHANGED <<esp, staged, todo, watching, event, timer, opened, changes, espFaults>>

Change == (\E f \in EspFiles : WriteBegins(f) \/ Removes(f)) \/ WriteEnds
Service ==
    \/ HandleEvent \/ AddWatches \/ SyncBegins \/ Staged \/ Pruned \/ SyncEnds
    \/ \E f \in EspFiles : CopyFile(f) \/ Prune(f) \/ Replace(f)

EspNext ==
    \/ Change \/ Service \/ StepFails \/ PowerLoss
    \/ \E d \in Disks, there \in BOOLEAN : Boot(d, there)

EspSpec == EspInit /\ [][EspNext]_evars

-----------------------------------------------------------------------------
(* A file that both ESPs have, and that the source keeps, is never missing  *)
(* on the peer, at whatever step a copy fails or the power goes: "never     *)
(* exposes a missing boot file" (replacePath).                              *)
PeerKeepsBootFiles == peerThere => kept \subseteq Present(esp[Peer])

(* When the service has nothing left to do, the peer is an exact copy and   *)
(* nothing is left of a staging directory, unless a copy failed, the peer   *)
(* was missing, or a change came before the watches were set.               *)
PeerIsCurrent ==
    espc = "idle" /\ ~event /\ ~timer /\ opened = "none" /\ stale = {} =>
        esp[Peer] = esp[source] /\ staged[Peer] = NoFiles

(* The same without the exceptions, as docs/disk.md says of the service: at *)
(* start and after each change it makes the peer an exact copy.             *)
EachChangeIsCopied ==
    espc = "idle" /\ ~event /\ ~timer /\ opened = "none" /\ peerThere /\ espFaults = 0 =>
        esp[Peer] = esp[source]

(* The machine can boot from the other disk: at no moment does the peer ESP  *)
(* lack a file it had, and a service that is idle has made it current.       *)
PeerStaysBootable == PeerKeepsBootFiles /\ PeerIsCurrent
=============================================================================
