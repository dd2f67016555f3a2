SPECIFICATION Spec
VIEW View
CONSTANTS
    music = music
    maps = maps
    Star = Star
    Post = Post
    Junk = Junk
    Scrap = Scrap
    Apps <- MCApps
    Perms <- MCPerms
    PerSecond = 2
    MaxRecords = 2
    MaxRuns = 3
    MaxClock = 2
INVARIANTS
    GrantsAreCommitted
    ListingIsTrue
    RegistrationKept
    PostedKept
    IdsIncreaseInRun
