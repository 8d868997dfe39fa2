SPECIFICATION FairSpec
CONSTANTS
    s1 = s1
    Event = {e1, e2, u1}
    Urgent = {u1}
    KeyOf <- OwnKeys
    Session = {s1, s2}
    OwnerOf <- OneOwner
    Tool = {t1}
    None = None
INVARIANTS TypeOK ReceiptIsTold PendingIsScheduled
PROPERTIES ToldOnce OneRequest QueuedIsSettled
