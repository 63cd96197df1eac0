CONSTANTS
    r1 = r1  r2 = r2  pm = pm  po = po  p1 = p1  p2 = p2
    Regs = {r1, r2}
    Manage = Manage
    Online = Online
    Pages = {pm, po, p1, p2}
    PageOfBuiltin <- MCPageOfBuiltin
    Visible = 3
    MaxOps = 4
    Null = Null
    RootSlots = 4
SPECIFICATION Spec
INVARIANTS TypeOK SelectionIsShown ScreenShowsList UnloadedLeavesNothing
    ResidentIsComplete
PROPERTIES OpensTheHighlighted
SYMMETRY Interchangeable
CHECK_DEADLOCK FALSE
