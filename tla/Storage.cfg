SPECIFICATION Spec
CONSTANTS
  LogThreads = {"x", "y"}
  Channels = {"c1", "c2"}
  ChannelLevel <- Levels
  Nobody = "nobody"
  Default = "default"
  Custom = "custom"
  NoManager = "none"
  Addresses = {"a", "b"}
  DefaultTag = "allocator"
  MemTags = {"vector"}
  RuntimeTag = "runtime"
  MaxCalls = 2
  MaxAdmin = 1
  Free = no_object
  BlockCount = 4
  Capacity = 7
  kAlignment = 4
  ArenaBuffer = 12
  Sizes = {1, 2, 3}
  Alignments = {1, 2, 4, 8}
  SizeMod = 32
  Vectors = {"v1", "v2"}
  Temp = "tmp"
  Temp2 = "tmp2"
  HeapBlocks = {"h1", "h2", "h3", "h4", "h5"}
  Elements = {"x", "y"}
  Raw = "raw"
  SmallCapacity = 2
  AllocatorOf <- Allocators
  MaxSize = 3
  MapKeys = {1, 2, 3, 4}
  MapValues = {0, 1}
  DefaultValue = 0
  MaxEntries = 4
  Values = {1, 2, 3}
  ArrayCapacity = 3
  Unset = unset_cell
  MaxLength = 4
  Pointers = {"p", "q", "r"}
  ByteCounts = {1, 2}
  TagHashes = {"t", "u"}
INVARIANTS
  ChannelsAgree
  LedgerExact
  FreeListSound
  PiecesDisjoint
  StorageSound
  MapsAgree
  ContainersAgree
  DeltaAddsUp
PROPERTIES
  TrackedCallsReturn
CHECK_DEADLOCK FALSE
