------------------------------ MODULE MCQatRegion ------------------------------
(***************************************************************************)
(* Two threads and blocks of sixteen bytes, with a header of three; sizes  *)
(* that share a block, that fill one to the last byte getMemory uses or    *)
(* all but one, and that need a larger block.                              *)
(***************************************************************************)
EXTENDS QatRegion

CONSTANTS t1, t2

ObjectSizes == {4, 9, 10, 13}
================================================================================
