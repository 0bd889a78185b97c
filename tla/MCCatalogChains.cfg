SPECIFICATION Spec
CONSTANTS
    Editgroup = {g1, g2}
    Ident = {i1, i2}
    Rev = {r1, r2}
    NULL = NULL
    MaxEdits = 4
SYMMETRY Symmetry
CONSTRAINT FewEdits
INVARIANTS NoRedirectChains
CHECK_DEADLOCK FALSE
