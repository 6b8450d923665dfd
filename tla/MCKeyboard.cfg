SPECIFICATION Spec
CONSTANT
  Keys <- MCKeys
  MaxWire = 1
INVARIANTS TypeOK ModifiersAgree Aligned ShiftHonoured
