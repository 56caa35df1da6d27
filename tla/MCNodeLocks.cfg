SPECIFICATION Spec
CONSTANTS
    peer1 = peer1
    peer2 = peer2
    rpc = rpc
    own = own
    Tasks <- MCTasks
    Jobs <- MCJobs
CHECK_DEADLOCK FALSE
INVARIANTS
    Isolated
    OwnLockNeverGranted
