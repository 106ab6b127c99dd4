SPECIFICATION FairSpec
CONSTANTS Producer = {p1, p2}
          Consumer = {c1, c2, c3}
          MaxItems = 4
INVARIANTS FirstInFirstOut
           NoItemForgotten
PROPERTIES ItemsAreTaken
CHECK_DEADLOCK FALSE
