\* Four callers, three failures as configured. No symmetry: a liveness property
\* is checked.
SPECIFICATION FairSpec
CONSTANTS
    Callers = {c1, c2, c3, c4}
    MaxFailures = 3
INVARIANTS
    StateMatchesFields
    AtMostOneProbe
PROPERTIES
    HalfOpenLeftByProbe
    RecoversWhenHealthy
