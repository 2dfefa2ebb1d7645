\* A test right after the join of a compare.
CONSTANTS
  Family <- JoinsOnly
  Value = {0, 1}
  JoinTests = TRUE
  MaxArgs = 3
SPECIFICATION Spec
INVARIANT Agree
CHECK_DEADLOCK FALSE
