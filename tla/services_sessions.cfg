CONSTANTS
    Nobody = Nobody  None = None  Resolve = Resolve  System = System
    mia = mia  max = max
    Filings <- MCFilings  ReporterOf <- MCReporterOf  TargetOf <- MCTargetOf
    TypeOf <- MCTypeOf  ReasonOf <- MCReasonOf  Existing <- MCExisting
    Reviews <- MCReviews  ReviewerOf <- MCReviewerOf
    SubjectOf <- MCSubjectOf  AskedOf <- MCAskedOf
    Day = 2  Hour = 1  BanAfter = 2  LastTick = 2
    Registrations <- MCRegistrations  Logins <- MCLogins
    NameOf <- MCNameOf  EmailOf <- MCEmailOf  IdentOf <- MCIdentOf
    DeviceOf <- MCDeviceOf
    Parties = {"a", "b"}  NoState = NoState
    NumSessions = 2  MaxSteps = 1  MaxSeals = 1  MaxStores = 2  MaxCrashes = 1
    Absent = Absent
    Users = {"alice"}  Devices = {"d1"}  Statuses <- MCStatuses
    Calls <- MCCalls  CallUser <- MCCallUser  CallDevice <- MCCallDevice
    CallStatus <- MCCallStatus
    Readers = {"r"}  ReaderUser <- MCReaderUser
    Watchers = {"w"}  WatcherUser <- MCWatcherUser
    TTL = 1  Capacity = 1  MayFail = TRUE  MaxCopies = 1
    MaxTime = 1
    Chosen = {"auth"}
SPECIFICATION ServicesSpec
INVARIANTS OneSessionPerDevice
CHECK_DEADLOCK FALSE
