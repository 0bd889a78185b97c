SPECIFICATION SeededSpec
CONSTANTS
    Editgroup = {b1, b2, g1, g2}
    Ident = {p, q}
    Rev = {rp, rq}
    NULL = NULL
    Conn = {c1, c2}
    b1 = b1
    b2 = b2
    p = p
    q = q
    rp = rp
    rq = rq
    MaxEdits = 5
    MaxLog = 3
SYMMETRY SeededSymmetry
CONSTRAINT Bounded
INVARIANTS AcceptedEditsFrozen
CHECK_DEADLOCK FALSE
