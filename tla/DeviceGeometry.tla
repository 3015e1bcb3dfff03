--------------------------- MODULE DeviceGeometry ---------------------------
(***************************************************************************)
(* The device geometry probe of act.c -- discover_min_op_bytes and         *)
(* discover_num_blocks -- and the offsets random_read_offset and           *)
(* random_large_block_offset draw from it.  One behaviour probes one       *)
(* device: Init picks the device (its size and logical block size) and the *)
(* configured record-bytes; Probe runs discover_num_blocks.                *)
(***************************************************************************)
EXTENDS Integers, FiniteSets

CONSTANTS
  LargeBlockBytes,  \* g_cfg.large_block_ops_bytes
  DeviceSizes,      \* sizes BLKGETSIZE64 may report
  BlockSizes,       \* logical block sizes: a direct read of n bytes works
                    \* iff n is a multiple of it
  RecordSizes,      \* g_cfg.record_bytes
  Word,             \* 2^64: uint64_t arithmetic wraps modulo Word
  Rand48Count       \* 2^48: rand_48() returns 0 .. Rand48Count - 1

LO_IO_MIN_SIZE == 512
HI_IO_MIN_SIZE == 4096

VARIABLES
  input,   \* [bytes, block, record]: the device and the configuration
  probed,  \* discover_num_blocks has run
  dev      \* the device fields it set; dev.ok is its return value

vars == <<input, probed, dev>>

Inputs == [bytes : DeviceSizes, block : BlockSizes, record : RecordSizes]

(* x - y in uint64_t.                                                      *)
U64Sub(x, y) == (x - y + Word) % Word

(* discover_min_op_bytes: from LO_IO_MIN_SIZE, doubling up to              *)
(* HI_IO_MIN_SIZE, the first read size that succeeds; 0 if none does.     *)
(* Mutant of MinOpFrom: the loop stops before trying HI_IO_MIN_SIZE.       *)
RECURSIVE MinOpFromBelowHi(_, _)
MinOpFromBelowHi(read_sz, block) ==
  IF read_sz >= HI_IO_MIN_SIZE THEN 0
  ELSE IF read_sz % block = 0 THEN read_sz
  ELSE MinOpFromBelowHi(read_sz * 2, block)

RECURSIVE MinOpFrom(_, _)
MinOpFrom(read_sz, block) ==
  IF read_sz > HI_IO_MIN_SIZE THEN 0
  ELSE IF read_sz % block = 0 THEN read_sz
  ELSE MinOpFrom(read_sz * 2, block)

discover_min_op_bytes(block) == MinOpFrom(LO_IO_MIN_SIZE, block)

(* The device record before the probe.  main()'s device array is not     *)
(* initialised; no field is read unless the probe returns true.           *)
NotProbed == [ok |-> FALSE, num_large_blocks |-> 0, min_op_bytes |-> 0,
              num_read_offsets |-> 0, read_bytes |-> 0]

(* Mutant of discover_num_blocks: the "- 1" of the offset count dropped,   *)
(* one offset too many.                                                    *)
discover_num_blocks_one_more(in) ==
  LET num_large_blocks == in.bytes \div LargeBlockBytes
      min_op_bytes == discover_min_op_bytes(in.block)
      num_min_op_blocks == (num_large_blocks * LargeBlockBytes) \div min_op_bytes
      read_req_min_op_blocks == (in.record + min_op_bytes - 1) \div min_op_bytes
  IN  IF num_large_blocks = 0 \/ min_op_bytes = 0
      THEN [NotProbed EXCEPT !.num_large_blocks = num_large_blocks,
                             !.min_op_bytes = min_op_bytes]
      ELSE [ok |-> TRUE,
            num_large_blocks |-> num_large_blocks,
            min_op_bytes |-> min_op_bytes,
            num_read_offsets |-> U64Sub(num_min_op_blocks, read_req_min_op_blocks - 2),
            read_bytes |-> read_req_min_op_blocks * min_op_bytes]

(* discover_num_blocks: the device fields it sets, and whether it returns  *)
(* true (at least one large block, and some read size works).              *)
discover_num_blocks(in) ==
  LET num_large_blocks == in.bytes \div LargeBlockBytes
      min_op_bytes == discover_min_op_bytes(in.block)
      num_min_op_blocks == (num_large_blocks * LargeBlockBytes) \div min_op_bytes
      read_req_min_op_blocks == (in.record + min_op_bytes - 1) \div min_op_bytes
  IN  IF num_large_blocks = 0 \/ min_op_bytes = 0
      THEN [NotProbed EXCEPT !.num_large_blocks = num_large_blocks,
                             !.min_op_bytes = min_op_bytes]
      ELSE [ok |-> TRUE,
            num_large_blocks |-> num_large_blocks,
            min_op_bytes |-> min_op_bytes,
            num_read_offsets |-> U64Sub(num_min_op_blocks, read_req_min_op_blocks - 1),
            read_bytes |-> read_req_min_op_blocks * min_op_bytes]

(* The offsets random_read_offset and random_large_block_offset can        *)
(* return, largest first: (rand_48() % n) * unit for a 48-bit rand_48().   *)
MaxDraw(n) == IF n < Rand48Count THEN n - 1 ELSE Rand48Count - 1
LastReadOffset(d) == MaxDraw(d.num_read_offsets) * d.min_op_bytes
LastLargeOffset(d) == MaxDraw(d.num_large_blocks) * LargeBlockBytes

-----------------------------------------------------------------------------
Init ==
  /\ input \in Inputs
  /\ probed = FALSE
  /\ dev = NotProbed

(* main()'s per-device setup step: discover_num_blocks(p_device).          *)
Probe ==
  /\ ~probed
  /\ probed' = TRUE
  /\ dev' = discover_num_blocks(input)
  /\ UNCHANGED input

(* Setup is over for this device.                                          *)
Probed ==
  /\ probed
  /\ UNCHANGED vars

Next == Probe \/ Probed

Spec == Init /\ [][Next]_vars

-----------------------------------------------------------------------------
Probing == probed /\ dev.ok

TypeOK ==
  /\ input \in Inputs
  /\ probed \in BOOLEAN
  /\ dev \in [ok : BOOLEAN, num_large_blocks : Nat, min_op_bytes : Nat,
              num_read_offsets : 0 .. Word - 1, read_bytes : Nat]

(* Spec 4.4 / 8.1 / 8.2: a device that passes setup can be read: there is  *)
(* at least one read offset (rand_48() % 0 is a division by zero), and the *)
(* last transaction read and the last large block the loops can draw both  *)
(* end within the device.                                                  *)
OffsetsWithinDevice ==
  Probing =>
    /\ dev.num_read_offsets >= 1
    /\ LastReadOffset(dev) + dev.read_bytes <= input.bytes
    /\ LastLargeOffset(dev) + LargeBlockBytes <= input.bytes

(* The probe agrees with the reference definitions of spec 4.4: the        *)
(* minimum op size is the smallest power of two in 512 .. 4096 the device  *)
(* reads directly (setup fails when there is none), and a transaction      *)
(* read is the smallest multiple of it that holds a record.                *)
RefMinOp(block) ==
  LET ok == {s \in {512, 1024, 2048, 4096} : s % block = 0}
  IN  IF ok = {} THEN 0 ELSE CHOOSE s \in ok : \A t \in ok : s <= t

ProbeMatchesReference ==
  probed =>
    IF input.bytes < LargeBlockBytes \/ RefMinOp(input.block) = 0
    THEN ~dev.ok
    ELSE /\ dev.ok
         /\ dev.min_op_bytes = RefMinOp(input.block)
         /\ dev.read_bytes % dev.min_op_bytes = 0
         /\ dev.read_bytes >= input.record
         /\ dev.read_bytes < input.record + dev.min_op_bytes

(* Spec 8.3 as written: the length of every buffer passed to the I/O       *)
(* engine is a multiple of 4096 -- for a transaction read, read_bytes.     *)
ReadLengthAligned4096 ==
  Probing => dev.read_bytes % 4096 = 0
=============================================================================
