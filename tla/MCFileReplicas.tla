---------------------------- MODULE MCFileReplicas ----------------------------
(***************************************************************************)
(* An instance of FileReplicas for TLC: blocks of two bytes, and ranges    *)
(* that start and end at the borders of the blocks and inside them.        *)
(***************************************************************************)
EXTENDS FileReplicas

FewRanges == {<<0, 4>>, <<1, 2>>, <<3, 2>>}
==============================================================================
