SPECIFICATION Spec
CONSTANTS
  Users = {ann, bob, carl}
  Author = carl
  Sessions = {s1, s2, s3}
SYMMETRY UserAndSessionSymmetry
INVARIANTS TypeOK CountsMatchVotes NoDeadlock
PROPERTY ImplementsBallot
