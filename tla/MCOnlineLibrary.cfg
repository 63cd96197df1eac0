CONSTANTS
    page = page  p1 = p1  menu = menu  mine = mine  other = other  v1 = v1  v2 = v2
    Files = {1, 2, 3}
    PriorityOf <- MCPriorityOf
    Ids = {menu, mine, other}
    Versions = {v1, v2}
    MaxPlugins = 2
    None = None
    Page = page
    Plugins = {p1}
    Menu = menu
    IdOf <- MCIdOf
    ApiOf <- MCApiOf
    MemPages = 3
    Sources <- MCSources
    MaxSources = 2
    Unreadable = Unreadable
    Calls <- MCCalls
    Stacks <- MCStacks
    NewStacks <- MCNewStacks
    InitCards <- MCInitCards
    MaxOpens = 2
    MaxCalls = 1
    MaxTrouble = 1
    MaxChanges = 1
SPECIFICATION FairSpec
INVARIANTS TypeOK ScratchIsMine NothingLeaks OpensWhatIsLoaded
    
PROPERTIES CallsReturn PageOpens 
CHECK_DEADLOCK FALSE
