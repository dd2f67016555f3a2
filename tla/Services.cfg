SPECIFICATION Spec
CONSTANTS
    app = app
    Lumad = Lumad
    Lmsd = Lmsd
    Nobody = Nobody
    Apps <- MCOneApp
    Admitted <- MCAdmitted
    Backlog = 2
    Attempts = 2
INVARIANTS
    NobodyForgotten
    AtMostOneResponse
    StopsAfterOne
    ReadyMeansLive
    NoDeadlock
PROPERTIES
    LmsStartEnds
    KeepsPromise
