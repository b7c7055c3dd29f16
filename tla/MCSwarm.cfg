\* No deadlock check: nothing can happen once no copy is left.
SPECIFICATION Spec
CONSTANTS
  Clients = {o, c1, c2}
  Owners = {o}
  Size = 2
  MaxCommands = 3
  MaxMishaps = 3
SYMMETRY Symmetry
INVARIANTS
  TypeOK
  ListedCanAnswer
  OfferedExist
  
CHECK_DEADLOCK FALSE
