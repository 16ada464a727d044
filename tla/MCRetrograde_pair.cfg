CONSTANTS
  Pos <- PairPos
  NSlots = 2
  SlotOf <- PairSlotOf
  ChunkOf <- PairChunkOf
  Worker = {w1, w2, w3}
  Games <- PairGames
SPECIFICATION FairSpec
INVARIANTS SummaryConservative CountersExact CountsExact
PROPERTIES ScanSourceStable ResolvedFinal ImplementsLevels Terminates
