SPECIFICATION MCSpec
CONSTANTS
    Ifaces = {e1}
    Hosts = {h1, h2}
    Grace = 1
    MaxFlaps = 2
    MaxMoves = 1
    MaxFaults = 1
    Tx <- MCTx
    Rx <- MCRx
    SlowTx = 4
    DetectMult = 2
    MaxLost = 2
    MaxRestarts = 1
    RecheckGrace = 2
    MaxSessions = 2
    MaxDowns = 2
INVARIANT PeersAreSound
PROPERTIES SessionsFollowLinks BfdIsTruthful SkippedDownIsChecked
CHECK_DEADLOCK FALSE
