------------------------------ MODULE MCCodec -------------------------------
(* Schemas for MconfCodec: strings before and behind other entries, so     *)
(* that a wrong length moves what follows.                                 *)
EXTENDS MconfCodec

E(t, n) == [type |-> t, size |-> n]
MCSchemas ==
  {<<E("string", 4), E("word", 4)>>, <<E("word", 2), E("string", 3)>>,
   <<E("string", 2), E("string", 4)>>, <<E("u8", 1), E("blob", 3), E("string", 2)>>,
   <<E("blob", 2), E("string", 4), E("string", 2)>>}

MCByteBits == [b \in Byte |-> IF b = 0 THEN {} ELSE {0, 3, 7}]
=============================================================================
