\* Three uploads publish while RabbitMQ stops and starts. No symmetry: a
\* liveness property is checked.
SPECIFICATION FairSpec
CONSTANTS
    Uploads = {t1, t2, t3}
    Boot = Boot
    NoOne = NoOne
    MaxFailures = 2
INVARIANTS
    LockDiscipline
PROPERTIES
    StuckStopsAll
    ReturnsOrStuck
