SPECIFICATION SSpec
CONSTANTS
    c1 = c1
    c2 = c2
    c3 = c3
    root = root
    photos = photos
    note = note
    pear = pear
    up = up
    also = also
    Calls = {c1, c2, c3}
    Kinds <- MCKinds
    Folders = {root, photos}
    Root = root
    Names = {note, pear}
    HeldAtFirst <- MCHeld
    Uploads = {up, also}
    Into <- MCInto
    Called <- MCCalled
    Afterwards <- MCAfterwards
    AtOnce = 2
    InAll = 3
    Backlog = 2
INVARIANTS
    ListEndsTrue
    DeparturesEnd
    DeletedWherePicked
    LateAnswersAreDropped
    OrderlyEndsWhereAsked
    WaitingEnds
CHECK_DEADLOCK FALSE
PROPERTY
    KeepsToNavigation
