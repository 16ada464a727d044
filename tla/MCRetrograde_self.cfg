CONSTANTS
  Pos <- SelfPos
  NSlots = 1
  SlotOf <- SelfSlotOf
  ChunkOf <- SelfChunkOf
  Worker = {w1, w2}
  Games <- SelfGames
SPECIFICATION Spec
INVARIANT VerifyConsistent
