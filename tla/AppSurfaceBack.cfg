SPECIFICATION Spec
CONSTANTS
    music = music
    maps = maps
    NoApp = NoApp
    AppIds <- MCAppIds
    MaxPages = 2
    MaxCalls = 3
PROPERTIES
    InternalBackKeepsApp
