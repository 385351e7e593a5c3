CONSTANTS
    a = a  b = b  w1 = w1  w2 = w2
    None = None  Garbled = Garbled
    Workers = {w1}
    Conversations = {"c"}
    Users = {a, b}
    MaxLog = 1
    MaxEpochs = 1
    MaxChanges = 1
    MaxResends = 0
SPECIFICATION Spec
INVARIANTS SenderTracked
CHECK_DEADLOCK FALSE
