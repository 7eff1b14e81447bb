--------------------------- MODULE MCUniAllocator ---------------------------
EXTENDS UniAllocatorProps

(* A 16-bit word: far above every segment, so that only the sizes from      *)
(* MAX_REQUEST on wrap.                                                     *)
MCWord == 2^16

(* An unsigned int that can index every segment.                            *)
MCUInt == 2^16

(* The MallocState is made of memory that happens to be zero, or of any.    *)
MCZeroed == {"ok"}
MCAny    == {"ok", "stale"}
=============================================================================
