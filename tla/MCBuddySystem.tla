--------------------------- MODULE MCBuddySystem ----------------------------
EXTENDS BuddySystemProps

MCWord == 2^16
MCDescSize == 64

(* Three segments, the first two adjacent when they have the initial size.  *)
MCThree == {4096, 4096 + 256, 8192}
=============================================================================
