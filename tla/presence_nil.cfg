CONSTANTS
    alice = alice  d1 = d1  d2 = d2  c1 = c1  c2 = c2  c3 = c3
    Absent = Absent
    Users = {alice}
    Devices = {d1, d2}
    Statuses <- MCStatuses
    Calls = {c1, c3}
    CallUser <- OneUser
    CallDevice <- TwoDevices
    CallStatus <- Busy
    Readers = {"r"}
    ReaderUser <- ReaderOfUser
    Watchers = {}
    WatcherUser <- WatcherOfUser
    TTL = 2
    Capacity = 1
    MayFail = FALSE
    MaxCopies = 1
    MaxTime = 2
SPECIFICATION PresenceSpec
PROPERTIES ReaderAnswered
CHECK_DEADLOCK FALSE
