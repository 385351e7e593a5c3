CONSTANTS
    u1 = u1  u2 = u2  d1 = d1  d2 = d2  s1 = s1  s2 = s2  s3 = s3
    None = None  Consumer = Consumer
    Users = {u1, u2}
    Devices = {d1, d2}
    Sockets = {s1, s2, s3}
    UserOf <- DevicesUser
    DeviceOf <- DevicesDevice
    NumShards = 1
    ShardOf <- LastShard
    Timeout = 1
    PresenceTTL = 1
    Statuses <- MCStatuses
    Kinds <- UpkeepKinds
    RedisMayFail = TRUE
    MaxTime = 1
    MaxTopic = 0
    MaxFrames = 1
SPECIFICATION Spec
INVARIANTS
    RegistryMatchesHandlers WedgeShape OnlyLateFramesUndoDeparture
    HeartbeatOnlyLostToOlder
PROPERTIES RemovalJustified
SYMMETRY SameSockets
CHECK_DEADLOCK FALSE
