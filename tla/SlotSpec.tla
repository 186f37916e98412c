------------------------------ MODULE SlotSpec ------------------------------
(***************************************************************************)
(* What A/B provisioning promises about the two root slots of a disk,     *)
(* without saying how an image gets there.  A slot either holds a          *)
(* complete installation or it does not.  An update empties and fills one *)
(* slot, and while it knows which slot the machine runs from, that slot   *)
(* keeps its installation.                                                *)
(***************************************************************************)
EXTENDS Naturals

CONSTANTS
    Slots,      \* root slots
    None,       \* no slot
    Versions    \* numbers of the installations, without 0

VARIABLES
    root,       \* slot -> version of its complete installation, 0 for none
    current,    \* slot of the complete installation that runs last, or None
    known       \* the provisioning run was told, or can read, which slot runs

vars == <<root, current, known>>

Init ==
    /\ root = [s \in Slots |-> 0]
    /\ current = None
    /\ known \in BOOLEAN

(* A run starts, well or badly informed. *)
Job(k) ==
    /\ known' = k
    /\ UNCHANGED <<root, current>>

(* An initial provisioning takes the whole disk. *)
Reset ==
    /\ root' = [s \in Slots |-> 0]
    /\ current' = None
    /\ UNCHANGED known

(* An update empties a slot, never the one it knows to be running. *)
Empty(s) ==
    /\ known => s # current
    /\ root' = [root EXCEPT ![s] = 0]
    /\ current' = IF s = current THEN None ELSE current
    /\ UNCHANGED known

(* An empty slot receives a complete installation in one step. *)
Fill(s, v) ==
    /\ root[s] = 0
    /\ root' = [root EXCEPT ![s] = v]
    /\ UNCHANGED <<current, known>>

(* The machine starts a complete installation, or none. *)
Start(s) ==
    /\ s # None => root[s] # 0
    /\ current' = s
    /\ UNCHANGED <<root, known>>

Next ==
    \/ \E k \in BOOLEAN : Job(k)
    \/ Reset
    \/ \E s \in Slots : Empty(s) \/ \E v \in Versions : Fill(s, v)
    \/ \E s \in Slots \cup {None} : Start(s)

Spec == Init /\ [][Next]_vars

=============================================================================
