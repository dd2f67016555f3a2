SPECIFICATION Spec
CONSTANTS
    phone = phone
    music = music
    files = files
    NoFile = NoFile
    BadJson = BadJson
    ManifestOrder <- MCManifestOrder
    HomeApps <- MCHomeApps
    DockApps <- MCDockApps
    OldLayouts <- MCOldLayouts
    Requests <- MCRequests
    Indices <- MCIndices
    DockLimit = 2
PROPERTIES
    InstallKeepsUserDock
