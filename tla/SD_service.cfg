SPECIFICATION FairSpec
CONSTANTS
    s1 = s1 s2 = s2 s3 = s3 t1 = t1
    Sids = {s1, s2, s3}
    Topics = {t1}
    None = None
    Implemented = {"initSubscription", "onSubscribe", "destroySubscription"}
    Throwing = {}
    MaxSent = 3
CHECK_DEADLOCK FALSE
INVARIANTS SubscribersAreFed OneSourceWhileNeeded
PROPERTIES Refinement EndedIsForgotten
