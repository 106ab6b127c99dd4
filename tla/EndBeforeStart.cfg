SPECIFICATION Spec
CONSTANTS MaxData = 1
          MaxForeign = 0
          SubscriberThrows = "never"
          MaxQueue = 1
          MaxSurplus = 1
INVARIANTS WrongDataNeverCrashes
CHECK_DEADLOCK FALSE
