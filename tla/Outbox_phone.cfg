\* A phone that changes hands, is killed, loses answers, sessions and reads.
CONSTANTS
  None = None  ann = ann  bob = bob
  Users = {ann, bob}
  MaxAttention = 2
  MaxWrites = 2
  Conditions <- MCConditions
SPECIFICATION FairSpec
INVARIANTS
  KeptIfRead  DropsLeaveARecord HoursStayWithTheirOwner
PROPERTIES QueueDrains
