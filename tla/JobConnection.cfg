SPECIFICATION Spec
CONSTANTS MaxData = 2
          MaxForeign = 0
          SubscriberThrows = "before"
          MaxQueue = 3
          MaxSurplus = 1
INVARIANTS TypeOK
           NoMissedMessage
           OneInFlight
           ResultsInOrder
           EndIsComplete
           ReadyFirst
           FlowControl
           QuietCloseIsSafe
PROPERTIES EndIsLast
           JobSpec
           SessionSpec
CHECK_DEADLOCK FALSE
