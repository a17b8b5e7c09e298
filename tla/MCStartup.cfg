SPECIFICATION Spec
CONSTANT
  Settings = {TRUE, FALSE}
INVARIANTS
  TypeOK
PROPERTIES
  StartsOrExits
  TableInTheEnd
