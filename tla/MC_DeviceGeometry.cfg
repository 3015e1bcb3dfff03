\* Default 128 KiB large blocks; devices of 0 to 3 large blocks, with and
\* without a partial block; every logical block size the probe meets,
\* including one (8192) it cannot read; record sizes within a large block.
CONSTANTS
  LargeBlockBytes = 131072
  DeviceSizes = {0, 65536, 131072, 131584, 393216}
  BlockSizes = {512, 1024, 4096, 8192}
  RecordSizes = {1, 512, 1536, 4096, 131072}
  Word <- MCWord
  Rand48Count <- MCRand48Count
SPECIFICATION Spec

INVARIANT OffsetsWithinDevice
INVARIANT ProbeMatchesReference
