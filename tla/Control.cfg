\* Conditionals, chains, loops, nested loops.
CONSTANTS
  Family <- AllKinds
  Value = {0, 1}
  JoinTests = FALSE
  MaxArgs = 3
SPECIFICATION FairSpec
INVARIANTS Agree AllPatched InnermostLoop
PROPERTY Follows
CHECK_DEADLOCK FALSE
