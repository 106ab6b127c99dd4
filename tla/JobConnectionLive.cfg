SPECIFICATION FairSpec
CONSTANTS MaxData = 2
          MaxForeign = 1
          SubscriberThrows = "after"
          MaxQueue = 1
          MaxSurplus = 0
INVARIANTS NoLostWakeup
           DrainedAtExit
           RestingOwesNothing
PROPERTIES SessionSpec
           WorkRunsOut
           EndAnswered
           DataAcknowledged
           IoReleased
CHECK_DEADLOCK FALSE
