----------------------------- MODULE MCStandby -----------------------------
(* Standby for TLC: every rescue mode once, with both ends of a            *)
(* deprovision and both failure actions between them.                      *)
EXTENDS Standby

MCConfigs == {
    [rescue |-> "retry", stay |-> TRUE,  waitOnFailure |-> FALSE],
    [rescue |-> "shell", stay |-> FALSE, waitOnFailure |-> FALSE],
    [rescue |-> "wait",  stay |-> TRUE,  waitOnFailure |-> TRUE]}

=============================================================================
