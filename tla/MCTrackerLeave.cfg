SPECIFICATION Spec
CONSTANTS
  Users = {u1, u2}
  Groups = {g1}
  Files = {f1}
  Addresses = {a1, a2}
  Passwords = {p1}
  AddressesOf <- AtHome
SYMMETRY SymmetryAtHome
INVARIANTS
  SharersAreMembers
