CONSTANTS
    a = a  b = b  w1 = w1  w2 = w2
    None = None  Garbled = Garbled
    Workers = {w1}
    Conversations = {"c"}
    Users = {a, b}
    MaxLog = 2
    MaxEpochs = 3
    MaxChanges = 1
    MaxResends = 1
SPECIFICATION FairSpec
INVARIANTS TypeOK 
PROPERTIES HandledEventually
CHECK_DEADLOCK FALSE
