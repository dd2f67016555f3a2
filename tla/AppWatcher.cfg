SPECIFICATION WatcherSpec
CONSTANTS
    music = music
    notes = notes
    NoFile = NoFile
    BadJson = BadJson
    ManifestOrder <- MCManifestOrder
    HomeApps <- MCHomeApps
    DockApps = {}
    Nested <- MCNested
    OldLayouts = {}
    Requests = {}
    Indices = {}
    DockLimit = 1
    MaxTimers = 2
INVARIANTS
    NothingElseMissed
PROPERTIES
    ChangesAreShown
