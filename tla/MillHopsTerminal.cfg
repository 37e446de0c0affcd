CONSTANTS
  a = a
  b = b
  mill = mill
  other = other
  Lines = {a}
  Hops = {mill}
  OwnHops = {}
  Owner <- OneMill
  Quantities = {1, 2}
  HasReturnWindow = FALSE
  MaxShipped = 2
  MaxHeld = 1
SPECIFICATION Spec
CHECK_DEADLOCK FALSE
PROPERTY EndedStaysEnded
