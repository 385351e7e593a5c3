CONSTANTS
    u1 = u1  u2 = u2  d1 = d1  d2 = d2  s1 = s1  s2 = s2  s3 = s3
    None = None  Consumer = Consumer
    Users = {u1, u2}
    Devices = {d1, d2}
    Sockets = {s1, s2}
    UserOf <- ReconnectUser
    DeviceOf <- ReconnectDevice
    NumShards = 2
    ShardOf <- LastShard
    Timeout = 1
    PresenceTTL = 1
    Statuses <- MCStatuses
    Kinds <- AllKinds
    RedisMayFail = TRUE
    MaxTime = 1
    MaxTopic = 1
    MaxFrames = 0
SPECIFICATION FairSpec
PROPERTIES SocketTornDown FanOutCompletes StaleEntrySwept
CHECK_DEADLOCK FALSE
