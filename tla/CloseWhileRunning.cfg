SPECIFICATION Spec
CONSTANTS MaxData = 1
          MaxForeign = 0
          SubscriberThrows = "never"
          MaxQueue = 1
          MaxSurplus = 1
INVARIANTS ServerSurvivesClose
CHECK_DEADLOCK FALSE
