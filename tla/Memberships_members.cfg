\* Two accounts, two addresses, two requests at once, one change of address.
CONSTANTS
  None = None  ann = ann  bob = bob  cafe = cafe  annAt = annAt  bobAt = bobAt
  Subs = {ann, bob}
  Emails = {annAt, bobAt}
  Employers = {cafe}
  Rates = {1}
  Slots = {1, 2}
  Conditions <- MCConditions
SPECIFICATION MCSpec
INVARIANTS OneMembershipEach HoursHaveAMember
PROPERTIES RemovedIsFrozen InvitationsAreClaimed
CHECK_DEADLOCK FALSE
