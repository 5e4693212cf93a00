\* Up to four payloads at a time, of two values.
SPECIFICATION Spec
CONSTANTS
  Links = {l1, l2, l3, l4}
  Payloads = {a, b}
  MaxOffset = 4
  Null = Null
INVARIANTS
  LinksMirror
  NothingLeaked
PROPERTY
  ImplementsLedger
SYMMETRY AnyAddress
