SPECIFICATION Spec
CONSTANTS Text = {"", "job"}
          Bytes = {"", "bytes"}
INVARIANTS TypeOK
           RoundTrip
           UnparsedStartsNothing
CHECK_DEADLOCK FALSE
