SPECIFICATION FairSpec
CONSTANTS
  Users = {u1}
  Messages = {m1, m2, m3}
  None = None
  Templates = {}
  Contents <- MCContents
  MaxEdits = 0
  Sizes = {2, 4}
  MaxExchanges = 2
  MaxCharacters = 3
  female = female
  male = male
  eve = eve
  adam = adam
  Genders = {female, male}
  Identities = {eve, adam}
  GroupOf <- MCGroupOf
  Languages = {en}
  MaxRestarts = 1
PROPERTIES EveryMessageAnswered
CHECK_DEADLOCK FALSE
