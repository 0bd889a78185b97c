SPECIFICATION TxnSpec
CONSTANTS
    Editgroup = {g1, g2, g3}
    Ident = {i1, i2}
    Rev = {r1, r2, r3}
    NULL = NULL
    Conn = {c1}
    b1 = b1
    b2 = b2
    p = p
    q = q
    rp = rp
    rq = rq
    MaxEdits = 4
    MaxLog = 3
SYMMETRY Symmetry
CONSTRAINT FewEdits
PROPERTIES ImplementsCatalog
CHECK_DEADLOCK FALSE
