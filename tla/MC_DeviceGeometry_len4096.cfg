\* The default record-bytes (1536) on devices of every block size.
CONSTANTS
  LargeBlockBytes = 131072
  DeviceSizes = {0, 65536, 131072, 131584, 393216}
  BlockSizes = {512, 1024, 4096, 8192}
  RecordSizes = {1536}
  Word <- MCWord
  Rand48Count <- MCRand48Count
SPECIFICATION Spec
INVARIANT ReadLengthAligned4096
