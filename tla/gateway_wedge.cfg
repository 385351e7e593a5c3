CONSTANTS
    u1 = u1  u2 = u2  d1 = d1  d2 = d2  s1 = s1  s2 = s2  s3 = s3
    None = None  Consumer = Consumer
    Users = {u1, u2}
    Devices = {d1, d2}
    Sockets = {s1}
    UserOf <- ReconnectUser
    DeviceOf <- ReconnectDevice
    NumShards = 2
    ShardOf <- MCShardOf
    Timeout = 1
    PresenceTTL = 1
    Statuses <- MCStatuses
    Kinds <- AllKinds
    RedisMayFail = FALSE
    MaxTime = 0
    MaxTopic = 0
    MaxFrames = 0
SPECIFICATION FairSpec
PROPERTIES DisconnectCompletes
CHECK_DEADLOCK FALSE
