CONSTANTS
    r1 = r1  r2 = r2  r3 = r3  h1 = h1  h2 = h2
    game = game  homeMenu = homeMenu  module = module
    Regs = {r1}
    ListOf <- MCListOf
    TitlesOf <- MCTitlesOf
    CallbacksOf <- MCCallbacksOf
    Titles = {game, homeMenu, module}
    AppTitles = {game}
    HomeTitles = {homeMenu}
    CxiTitles = {module}
    EpochLimit = 5
    FirstEpoch = 0
    MaxLaunches = 2
    MaxOps = 1
    MaxCallbackOps = 0
    Null = Null
SPECIFICATION Spec
PROPERTIES CallbacksSeeThisLaunch
CHECK_DEADLOCK FALSE
