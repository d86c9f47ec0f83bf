SPECIFICATION Spec
CONSTANTS
    l1 = l1
    l2 = l2
    cAttested = cAttested
    cPlain = cPlain
    w1 = w1
    w2 = w2
    None = None
    Links = {l1, l2}
    Credentials = {cAttested, cPlain}
    Attested = {cAttested}
    Counting = {cAttested}
    Workers = {w1, w2}
    Enabled = {"upi-pin", "passkey", "intent-passkey"}
    MaxSigns = 1
    MaxCalm = 2
    MaxRacing = 2
SYMMETRY WorkerSymmetry
INVARIANTS
    TypeOK
    ConsentWasSigned
    HalfDoneCanFinish
PROPERTIES
    NoAnswerTurnsBack
CHECK_DEADLOCK FALSE
