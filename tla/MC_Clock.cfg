\* tv_sec 0 .. 1 keeps tv_sec * 10^9 + tv_nsec within TLC's 32-bit integers.
CONSTANTS
  Secs = {0, 1}
  Nsecs <- MCNsecs
SPECIFICATION Spec


PROPERTY ReadingsOrdered
