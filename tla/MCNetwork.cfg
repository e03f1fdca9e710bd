SPECIFICATION Spec
CONSTANTS
    Fetch = {f1}
    Outside = {c1, c2}
    Signal = {s1, any}
    Joint = {any}
    None = none
    MaxMessages = 2
    Interface = {i1, i2}
    MaxLines = 2
    MaxQuestions = 2
    Capacity = 1
    MaxOutput = 2
    MaxInput = 2
INVARIANTS
    AnswersBelong
    AbortHonoured
    LinesDelivered
PROPERTIES
    AnsweredFetchesSettle
    SocketImplementsPipe
    CallsReturn
CHECK_DEADLOCK FALSE
