SPECIFICATION AllSpec
CONSTANTS
    Asks = {q1, q2}
    Greetings = {q1}
    MaxHistory = 2
    MaxTries <- Tries
    MaxDisturbed = 1
    MaxLength = 6
    MaxChunk = 3
    Agents = {g1, g2}
    Questions = {u1, u2}
    Links = {l1}
    MaxCalls = 2
    MaxClicks = 3
    Nil = Nil
    Items = {1, 2, 3}
    Named = {2}
    MaxFlight = 2
    MaxInputs = 3
    MaxBroken = 1
    Evaluations = {v1, v2}
    MaxPairs = 3
    MaxRefusals = 1
    NoToken = NoToken
SYMMETRY Interchangeable
INVARIANTS
    TypesOK
    SequentialSuffix
    NoMessageLostInRace
    ExpiryPending
    LiveAsReloaded
    ShowsOneConversation
    TypingMeansAwaited
    PageSettles
    SessionSurvives
CHECK_DEADLOCK FALSE
