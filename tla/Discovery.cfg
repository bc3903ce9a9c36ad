\* Two servers, one datagram delivered twice.
SPECIFICATION FairSpec
CONSTANTS
    Server = {s1, s2}
    Nobody = Nobody
    MaxDups = 1
INVARIANTS TypeOK HeardUnlessLate OwnBuffer
PROPERTIES AnswerLeftForMain ConnectAnswered
CHECK_DEADLOCK FALSE
