SPECIFICATION Spec
CONSTANTS
  Users = {u1}
  Messages = {m1, m2, m3}
  None = None
  Templates = {1}
  Contents <- MCContents
  MaxEdits = 2
  Sizes = {1, 2, 4}
  MaxExchanges = 2
  MaxCharacters = 3
  female = female
  male = male
  eve = eve
  adam = adam
  Genders = {female, male}
  Identities = {eve, adam}
  GroupOf <- MCGroupOf
  Languages = {en}
  MaxRestarts = 1
INVARIANTS TypeOK NothingMissed
PROPERTIES LockedWhenAssigned TurnsInOrder
SYMMETRY MCSymmetry
CHECK_DEADLOCK FALSE
