SPECIFICATION Spec
CONSTANTS
  Users = {u1, u2, u3}
  Groups = {g1, g2}
  Files = {f1}
  Addresses = {a1, a2, a3}
  Passwords = {p1, p2}
  AddressesOf <- AtHome
SYMMETRY SymmetryAtHome
INVARIANTS
  TypeOK
  CatalogueMatchesGroups
  EveryFileHasASharer
  PendingIsNotMember
  AdminOwnsGroup
  OnlyAccountsInvolved
  AddressesMatchSharers
  OnlineSharersOffered
PROPERTIES
  FileStaysWhileShared
  ImplementsMembership
