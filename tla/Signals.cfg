CONSTANTS
  NSIG = 3
  SIGINT = 1
  Effect = {"catch", "default"}
  MaxBlock = 1
SPECIFICATION FairSpec
INVARIANTS TypeOK SigchkFinds NeverBlockedInterrupted JumpIsLive
PROPERTY Delivered
CHECK_DEADLOCK FALSE
