SPECIFICATION Spec
CONSTANTS
  Users = {u1, u2}
  Groups = {g1}
  Files = {f1}
  Addresses = {a1}
  Passwords = {p1, p2}
  AddressesOf <- OneAddress
  Threads = {t1, t2}
  Objects = {o1, o2}
  MaxClashes = 2
SYMMETRY Symmetry
INVARIANTS
  GroupIdsAreUnique
