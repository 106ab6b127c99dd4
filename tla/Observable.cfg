SPECIFICATION ObsFairSpec
CONSTANTS Thread = {t1, t2}
          Observer = {o1, o2, o3}
          Nobody = Nobody
          IdLimit = 3
          Throwing = {o2}
          Reentrant = {o3}
          MaxSubscriptions = 5
          MaxNotifications = 2
INVARIANTS ObsTypeOK
           NoCallAfterUnsubscribe
           OwnEntry
PROPERTIES BroadcastSpec
           Released
CHECK_DEADLOCK FALSE
