SPECIFICATION Spec
CONSTANTS
  alice = alice
  m1 = m1
  m2 = m2
  k1 = k1
  Users <- MCUsers
  Markets <- MCMarkets
  InitialLive <- MCLive
  Requests <- MCRequests
  MaxCalls = 3
  MaxAttempts = 2
  MaxSequence = 1
CHECK_DEADLOCK FALSE
INVARIANTS
  ExecutedOnce
  SequenceGapless
  AnswerIsTheExecution
  DuplicatesReplayed
PROPERTY
  NeverRefusedAfterExecution
