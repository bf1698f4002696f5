SPECIFICATION Spec
CONSTANTS
    pear = pear
    plum = plum
    html = html
    tag = tag
    cold = cold
    alice = alice
    number = number
    None = None
    Files = {pear, plum}
    Facets = {"serving", "storing", "sharing"}
    Heads <- TheHeads
    Attributes <- TheAttributes
    MaxAsked = 3
INVARIANT
    PanelShowsItsFile
CHECK_DEADLOCK FALSE
