CONSTANTS
    o1 = o1
    t1 = t1
    w1 = w1
    i1 = i1
    Operation = {o1}
    Task = {t1}
    Owner = {w1}
    Continuation = {s1}
    ContinuationOf <- SameContinuation
    Health = {"active"}
    WaitId = {i1}
    MaxGeneration = 1
    ClaimId = {c1}
    AttemptId = {a1}
    DispatchToken = {}
    Ref = {}
    None = None
SPECIFICATION Spec
PROPERTIES ConsumedIsFinal
