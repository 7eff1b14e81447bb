---------------------------- MODULE MCChunkSizes ----------------------------
EXTENDS ChunkSizesProps

(* A word wide enough for all tree bins: the last one starts at 3 * 2^22.   *)
MCWord == 2^28

(* An unsigned int wide enough for the cut-off of compute_tree_index, and   *)
(* too narrow for sizes from 2^26 on.                                       *)
MCUInt == 2^18

(* Every size around the boundary of small and large, and what lies near    *)
(* the bounds of tree bins, the cut-off of compute_tree_index, the sizes    *)
(* whose index is computed from what an unsigned int keeps, and             *)
(* MAX_REQUEST.                                                             *)
MCNear == -2 .. 2
MCSizes ==
  0 .. 300
    \cup {2^k + d : k \in 8 .. 27, d \in MCNear}
    \cup {3 * 2^k + d : k \in 7 .. 26, d \in MCNear}
    \cup {MCWord - 128 + d : d \in MCNear}
=============================================================================
