SPECIFICATION MdSpec
CONSTANTS
    FreshToken = {t1, t2}
    Ask = {q1, q2}
    NoFresh = noFresh
INVARIANT ClosedModalHoldsNoToken
