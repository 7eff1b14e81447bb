--------------------------- MODULE MCBuddyThreads ---------------------------
EXTENDS BuddyThreadsProps, BuddyAllocatorProps

(* A 16-bit word: far above every address.                                  *)
MCWord == 2^16

MCDescSize == 64

(* Two adjacent segments of 384 bytes.                                      *)
MCAdjacent == {4096, 4096 + 384}
=============================================================================
