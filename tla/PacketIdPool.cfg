SPECIFICATION Spec
CONSTANT MaxId = 5
INVARIANT PoolExact
PROPERTY ImplementsPacketIds
