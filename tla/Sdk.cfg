SPECIFICATION SdkSpec
CONSTANTS
    app = app
    other = other
    Lumad = Lumad
    Lmsd = Lmsd
    Nobody = Nobody
    Apps <- MCApps
    Admitted <- MCAdmitted
    Backlog = 1
    Attempts = 1
PROPERTIES
    ToldAsDecided
