\* Two requests at a time, three tokens issued one after another.
SPECIFICATION Spec
CONSTANTS
    Users = {u1}
    MaxTokens = 3
    Calls = {c1, c2}
    Streams = {1, 2}
INVARIANTS
    StreamFollowsSession
    SpinnerHasCall
PROPERTIES
    ValidSessionSurvives
    StreamComesBack
