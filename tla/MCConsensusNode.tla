--------------------------- MODULE MCConsensusNode ---------------------------
(***************************************************************************)
(* One file in a group of three members, or of the two members n2 and n3.  *)
(* Writers and lockers propose at n2 and n3, readers at n1 or, without it, *)
(* at n3; all readers ask n2 for its part of the file, so that they meet   *)
(* in its sync queue.                                                      *)
(***************************************************************************)
EXTENDS ConsensusNode

CONSTANTS n1, n2, n3, w1, l1

MCHome ==
    [c \in Clients |-> IF c \in Readers THEN (IF n1 \in Nodes THEN n1 ELSE n3)
                       ELSE IF c \in {w1, l1} THEN n3 ELSE n2]

MCPeer == [r \in Readers |-> n2]

MCTarget == [c \in Clients |-> 1]
==============================================================================
