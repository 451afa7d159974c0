CONSTANTS
    alice = alice
    bob = bob
    carol = carol
    demo = demo
    gated = gated
    guarded = guarded
    flaky = flaky
    Principals = {alice, bob, carol}
    Policies <- TwoPolicies
    Checklists = {l1, l2}
    Releases = {r1, r2}
    Keys = {k1, k2}
    Clients = {c1, c2}
    AnchorKey = anchor
    NoChecklist = nochecklist
    NoRelease = norelease
    Runs = {demo, gated, guarded, flaky}
    RunKind <- Kinds
    MaxEvents = 4
    MaxBindings = 2
    MaxStamp = 2
SPECIFICATION Spec
CHECK_DEADLOCK FALSE
CONSTRAINT OneSide
SYMMETRY Symmetry
INVARIANTS
    TypeOK
    StoppedMeansStopped
    ProtectedOnlyIfApproved
    EffectInventoryHolds
    ChainAlternates
    KeyActsOnce
PROPERTIES
    ImplementsStop
    RecordedUnderSourcesSinceLock
