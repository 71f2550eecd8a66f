SPECIFICATION FairSpec
CONSTANTS
  N = 3
  Concurrency = 2
INVARIANTS TypeOK Bounded Contract NoPanic NoneBehind
PROPERTY Termination
