CONSTANTS
    r1 = r1  r2 = r2  r3 = r3  h1 = h1  h2 = h2
    game = game  homeMenu = homeMenu  module = module
    Regs = {r1, r2, r3, h1}
    ListOf <- MCListOf
    TitlesOf <- MCTitlesOf
    CallbacksOf <- MCCallbacksOf
    Titles = {game, homeMenu, module}
    AppTitles = {game}
    HomeTitles = {homeMenu}
    CxiTitles = {module}
    EpochLimit = 5
    FirstEpoch = 3
    MaxLaunches = 3
    MaxOps = 4
    MaxCallbackOps = 2
    Null = Null
SPECIFICATION FairSpec
INVARIANTS TypeOK ListsAreSound CalledExactlyOnce
PROPERTIES PatchedLaunchesSeeThemselves LaunchEnds
CHECK_DEADLOCK FALSE
