\* Three connections of two users over two galleries.
SPECIFICATION Spec
CONSTANTS
    Users = {u1, u2}
    Galleries = {g1, g2}
    Conns = {c1, c2, c3}
SYMMETRY RegistrySymmetry
INVARIANTS
    IndexesExact
PROPERTY
    ImplementsSubscriptions
