SPECIFICATION Spec
CONSTANTS
    s1 = s1 s2 = s2 s3 = s3 t1 = t1 t2 = t2
    Sids = {s1, s2, s3}
    Topics = {t1, t2}
    None = None
    Implemented = {"initSubscription", "onSubscribe", "onUnsubscribe", "destroySubscription"}
    Throwing = {"initSubscription", "onSubscribe", "destroySubscription"}
    MaxSent = 3
SYMMETRY Symmetric
CHECK_DEADLOCK FALSE
INVARIANTS RegistryInv LeavingUndoesAll Transcript
