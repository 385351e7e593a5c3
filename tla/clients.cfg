CONSTANTS
    MaxRows = 3  MaxTexts = 2  MaxSends = 2
    Handlers = {"f", "g"}  HandledKind <- MCHandledKind
    Kinds = {"message", "typing", "presence"}
    MaxConns = 2  MaxFrames = 2  MaxQueued = 1
    Gateways = {"g1", "g2"}  Clients = {"ann", "bob"}  Talks = {"talk"}
    Listeners = {"bob"}
    Mails = {"m"}  AuthorOf <- MCAuthorOf  TalkOf <- MCTalkOf
    Audiences <- MCAudiences  Nobody = Nobody
    MaxPlaces = 2  MaxTurns = 2  MaxCrashed = 1  MaxMoves = 2
SPECIFICATION Spec
INVARIANTS
    ClientsTypeOK AnomaliesNeedLoading TextsAccountedFor
    HandlersAgree NoGapInReceived
    MissedOnlyElsewhere InOrderPerTurn
PROPERTIES QueuedIsWritten BroadcastInTheEnd
CHECK_DEADLOCK FALSE
