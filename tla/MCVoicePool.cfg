SPECIFICATION Spec
CONSTANTS
  Voices = 3
  Parts = 2
  Keys <- MCKeys
  TopKey = 127
  TableSize = 2
  Reserve <- MCReserve
  StealBy <- MCStealBy
  Retrigger <- MCRetrigger
  Ceiling = 0
  OneShot = {}
  Pedalled = {1}
  Levels = {0, 255}
VIEW MCView
PROPERTY ImplementsAllocator
INVARIANTS
  TypeOK
  PoolSound
  LowestIsCurrent
  NoStuckNote
  ReserveKept
  RefusedForAReason
