\* Three contents in the trash at once, two of them numbered; two faults
\* anywhere; a retention that a row can outlive and one it cannot.
SPECIFICATION Spec
CONSTANTS
  MaxGen = 3
  MaxVersion = 3
  MaxDay = 2
  Retention = 0
  MaxFaults = 2
  Rename = {TRUE, FALSE}
INVARIANTS
  TypeOK
  RowsFindTheirFiles
  FewLeftBehind
PROPERTIES
  LostOnlyWhenDue
CHECK_DEADLOCK FALSE
