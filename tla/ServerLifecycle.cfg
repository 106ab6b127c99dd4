SPECIFICATION FairSpec
CONSTANTS Thread = {t1, t2}
          Server = {s1, s2}
          LogOpens = FALSE
          MaxAgents = 2
INVARIANTS OneAgent
           ListenerReachable
           SequentialCallsAreSafe
PROPERTIES StopEndsStart
CHECK_DEADLOCK FALSE
