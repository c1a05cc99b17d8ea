SPECIFICATION Spec
CONSTANTS
  alice = alice
  bob = bob
  carol = carol
  Proposer = Proposer
  Approver = Approver
  NoOutcome = NoOutcome
  Setups <- Setup_
CHECK_DEADLOCK FALSE
INVARIANTS
  BookWellFormed
  MatchesReference
  NeverCrossed
  Collateralized
  ExecutionNeverFaults
  KeepersNeverBlocked
  ResolvedAsSigned
