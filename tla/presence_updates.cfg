CONSTANTS
    alice = alice  d1 = d1  d2 = d2  c1 = c1  c2 = c2  c3 = c3
    Absent = Absent
    Users = {alice}
    Devices = {d1, d2}
    Statuses <- MCStatuses
    Calls = {c1, c2, c3}
    CallUser <- OneUser
    CallDevice <- TwoDevices
    CallStatus <- Busy
    Readers = {}
    ReaderUser <- ReaderOfUser
    Watchers = {"w"}
    WatcherUser <- WatcherOfUser
    TTL = 1
    Capacity = 2
    MayFail = FALSE
    MaxCopies = 2
    MaxTime = 1
SPECIFICATION FairPresenceSpec
INVARIANTS
    EventsInApplyOrder WatcherInOrder WatcherSeesLatest UnexpiredStaysActive
PROPERTIES ExpiredLeavesMemory
CHECK_DEADLOCK FALSE
