SPECIFICATION Spec
CONSTANTS
  Users = {u1, u2}
  Groups = {g1}
  Files = {f1}
  Addresses = {a1}
  Passwords = {p1}
  AddressesOf <- OneAddress
SYMMETRY SymmetryAtHome
INVARIANTS
  OnlineSharersOffered
