CONSTANTS
  Names <- TwoNames
  Value <- Values
  Item <- Items
  MaxItems = 3
SPECIFICATION Spec
INVARIANTS ReadAsMeant ItemsArrive Relayed
CHECK_DEADLOCK FALSE
