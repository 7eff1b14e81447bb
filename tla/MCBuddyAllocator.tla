-------------------------- MODULE MCBuddyAllocator --------------------------
EXTENDS BuddyAllocatorProps

(* A 16-bit word: far above every address, so that only huge sizes wrap.    *)
MCWord == 2^16

(* A word of 11 bits exceeds all that can be in use.  A block that keeps    *)
(* its remainder moves total_used_ for ever: the word bounds the counters.  *)
MCShortWord == 2^11

MCDescSize == 64

(* A segment has room for four chunks and, exactly, for one descriptor.     *)
MCMaxChunk == 4 * 128 + MCDescSize

(* Two adjacent segments.                                                   *)
MCAdjacent == {4096, 4096 + MCMaxChunk}

(* Requests for nothing, one chunk, and just more than a segment.           *)
MCMixed == {0, 192, MCMaxChunk - MCDescSize + 1}
=============================================================================
