SPECIFICATION Spec
CONSTANTS
    Editgroup = {g1, g2, g3}
    Ident = {i1, i2, i3}
    Rev = {r1, r2, r3}
    NULL = NULL
    MaxEdits = 5
SYMMETRY Symmetry
CONSTRAINT FewEdits
INVARIANTS TypeOK WipIsPlain RedirectTargetsLive AcceptedOnce ChainsWithinOneEditgroup
PROPERTIES RedirectsFollowTarget ImplementsLog
CHECK_DEADLOCK FALSE
