SPECIFICATION Spec
CONSTANT
  Keys <- LockKeys
  MaxWire = 0
INVARIANT CapsHonoured
