SPECIFICATION TelSpec
CONSTANTS
    phone = phone
    messages = messages
    settings = settings
    call1 = call1
    call2 = call2
    NoApp = NoApp
    NoCall = NoCall
    Phone = phone
    Messages = messages
    AppIds <- MCAppIds
    CallIds <- MCCallIds
    MaxPages = 1
    MaxCalls = 2
    MaxSends = 2
INVARIANTS
    NoFrozenDrag
    ShownWhenSettled
    EndButtonHasCall
    LiveCallsCanBeEnded
    EachMessageOnce
PROPERTIES
    ClosedOnlyWhenAsked
    HomeReached
    LaunchCompletes
