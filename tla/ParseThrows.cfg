SPECIFICATION Spec
CONSTANTS Text = {"", "job"}
          Bytes = {"", "bytes"}
INVARIANTS ParseAnswers
CHECK_DEADLOCK FALSE
