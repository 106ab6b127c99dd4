SPECIFICATION FairSpec
CONSTANTS Observer = {c1, c2}
          Processor = p
          Thread = {c1, c2, p}
          Nobody = Nobody
          IdLimit = 2
          Throwing = {}
          Reentrant = {}
          MaxSubscriptions = 2
          MaxNotifications = 2
          MaxData = 2
          MaxClosing = 1
INVARIANTS TypeOK
           CallbackOnLiveJob
           OwnResultArrives
           RestingOwesNothing
PROPERTIES IoReturns
           PayloadsAreServed
CHECK_DEADLOCK FALSE
