SPECIFICATION Spec
CONSTANTS Thread = {t1}
          Server = {s1}
          LogOpens = TRUE
          MaxAgents = 2
INVARIANT StartNeverThrows
CHECK_DEADLOCK FALSE
