SPECIFICATION DragSpec
CONSTANTS
    phone = phone
    music = music
    files = files
    NoFile = NoFile
    BadJson = BadJson
    Away = Away
    NoDrag = NoDrag
    ManifestOrder <- MCManifestOrder
    HomeApps <- MCHomeApps
    DockApps <- MCDockApps
    OldLayouts <- MCOldLayouts
    Requests <- MCRequests
    Indices <- MCIndices
    Scans <- MCScans
    Slots <- MCSlots
    DockLimit = 2
INVARIANTS
    ModelsMatchRegistry
    DragFollowsIcon
    PreviewIsOneMove
PROPERTIES
    DropLandsWhereShown
    Spec
