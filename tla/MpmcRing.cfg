SPECIFICATION QueueSpec
CONSTANTS
  p1 = p1
  p2 = p2
  c1 = c1
  c2 = c2
  x = x
  y = y
  Producers = {p1, p2}
  Consumers = {c1, c2}
  Items = {x, y}
  NoItem = NoItem
  Size = 2
  MaxItems = 4
SYMMETRY Alike
INVARIANTS NoCellRace GetsItsItem
PROPERTIES RefusalsJustified IsFifo
