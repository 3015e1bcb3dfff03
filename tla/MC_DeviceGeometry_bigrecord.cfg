\* Record sizes above one large block (nothing in act.c rejects them).
CONSTANTS
  LargeBlockBytes = 131072
  DeviceSizes = {0, 65536, 131072, 131584, 393216}
  BlockSizes = {512, 1024, 4096, 8192}
  RecordSizes = {1536, 131584, 262145}
  Word <- MCWord
  Rand48Count <- MCRand48Count
SPECIFICATION Spec
INVARIANT OffsetsWithinDevice
