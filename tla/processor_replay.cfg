CONSTANTS
    a = a  b = b  w1 = w1  w2 = w2
    None = None  Garbled = Garbled
    Workers = {w1, w2}
    Conversations = {"c"}
    Users = {a, b}
    MaxLog = 2
    MaxEpochs = 2
    MaxChanges = 1
    MaxResends = 1
SPECIFICATION Spec
INVARIANTS NoSilentSkip OrderedPerAssignment
PROPERTIES KeepsPromise
CHECK_DEADLOCK FALSE
