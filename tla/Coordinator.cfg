CONSTANTS
    o1 = o1
    t1 = t1
    w1 = w1
    i1 = i1
    Operation = {o1, o2}
    Task = {t1, t2}
    Owner = {w1, w2}
    Continuation = {s1}
    ContinuationOf <- SameContinuation
    Health = {"active", "lost"}
    WaitId = {i1, i2}
    MaxGeneration = 2
    ClaimId = {c1, c2, c3}
    AttemptId = {a1, a2}
    DispatchToken = {d1, d2}
    Ref = {r1}
    None = None
SPECIFICATION Spec
SYMMETRY Symmetric
CONSTRAINT Slices
INVARIANTS TypeOK WaitsAreSound NoLostWakeup DeliveriesAreSound
PROPERTIES LateCallsChangeNothing ImplementsOneWriter
