\* One chat and two workers: a mapping expires after a day, one call to the API
\* fails and workers are recycled twice, which has messages delivered again.
CONSTANTS
    Workers = {w1, w2}
    Messages = {m1, m2}
    Threads = {t1, t2}
    None = None
    MaxFailures = 1
    MaxRecycles = 2
    MaxDays = 1
    Ttl = 1
SPECIFICATION FairSpec
INVARIANTS TypeOK ResetIsFinal
PROPERTIES ConversationKept EveryMessageIsAnswered
