------------------------ MODULE MCTwoBufferChannel ------------------------
(***************************************************************************)
(* A byte is one bit: a u32 has 16 values, Int.MAX_VALUE is 7, and a Java  *)
(* array is at most 7 long.  Buffers go past 16, where the u32 truncates.  *)
(***************************************************************************)
EXTENDS TwoBufferChannel

Uniform(bit) == { [i \in 1 .. n |-> bit] : n \in 0 .. WordMod + 2 }

MCFirstBuffers  == Uniform(1) \cup BoundedSeq(Bytes, 2)
MCSecondBuffers == Uniform(0) \cup BoundedSeq(Bytes, 2)
MCRawArrays     == BoundedSeq(Bytes, MaxInt)
===========================================================================
