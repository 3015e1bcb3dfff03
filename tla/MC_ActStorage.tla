---------------------------- MODULE MC_ActStorage ----------------------------
(* Model-checking instance of ActStorage; the constants are set in the     *)
(* .cfg files, one tick standing for 500 us (RW_STAGGER).                  *)
EXTENDS ActStorage
=============================================================================
