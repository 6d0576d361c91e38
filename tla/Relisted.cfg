SPECIFICATION SwSpec
CONSTANTS
    Peer = {a1, a2}
    Poll = {q1}
    Removal = {d1}
    NoPeer = noPeer
INVARIANT RemovedStaysUnlisted
