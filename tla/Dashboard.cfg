CONSTANTS
    Null = Null
    Proxy <- MCProxy
    RowOf <- MCRowOf
    Slot <- MCSlot
    TimeoutTicks = 2
    GuardTicks = 3
    RefreshTicks = 3
    Setting <- MCSetting
    Imported <- MCImported
    Token <- MCToken
    PageSize = 1
    SnapshotLimit = 3
    MockStore <- MCMockStore
    MaxActs = 5
    MaxWorld = 1
    Filter <- MCFilter
    Starts <- MCStarts
SPECIFICATION Spec
CHECK_DEADLOCK FALSE
INVARIANTS
    TypeOK
    DataStays
    GuardOnlyInFallback
    AnswerIsShown
    GeoAddsUp
    PageIsRight
    MockOnlyWhenMissing
    ImportIsListed
    DerivedAddsUp
    FormIsStored
    LinesOnce
    SessionAgrees
    ListMatchesControls
    DeletedIsGone
    DrawerIsOfClick
PROPERTIES
    WaitsEnd
    OverviewRefreshes
