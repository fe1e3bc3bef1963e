----------------------------- MODULE MCBackends -----------------------------
(* Values for the constants of MconfBackends.                              *)
EXTENDS MconfBackends, TLC

(* All requests whose end is a size_t.                                     *)
MCRequests == {r \in (0 .. SizeMod - 1) \X (0 .. SizeMod - 1) : r[1] + r[2] < SizeMod}

(* Partitions of whole sectors of 4 bytes, and one of an odd size.         *)
MCAreas    == {1, 2, 3}
MCAreaSize == 1 :> 16 @@ 2 :> 8 @@ 3 :> 5
=============================================================================
