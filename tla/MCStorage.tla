----------------------------- MODULE MCStorage ------------------------------
(***************************************************************************)
(* Values for the constants of MconfStorage.  Field 1 is a bool whose      *)
(* third pattern is neither 0 nor 1, field 2 a string whose third pattern  *)
(* has bytes behind its NUL; a configuration with both fields set does not *)
(* fit the slot.                                                           *)
(***************************************************************************)
EXTENDS MconfStorage

MCVal      == {"zero", "one", "odd"}
MCDefault  == <<"one", "zero">>
MCLegal    == <<{"zero", "one"}, {"zero", "one", "odd"}>>
MCCanon    == <<[v \in MCVal |-> v],
                [v \in MCVal |-> IF v = "odd" THEN "one" ELSE v]>>
MCOversize == {<<"one", "one">>}

(* Two patterns only, for the run with many faults: both fields are plain  *)
(* scalars and everything fits the slot.                                   *)
MCVal2      == {"zero", "one"}
MCLegal2    == <<MCVal2, MCVal2>>
MCCanon2    == [f \in 1 .. 2 |-> [v \in MCVal2 |-> v]]

(* One scalar, for the run with every fault.                               *)
MCVal1      == {"zero", "one"}
MCDefault1  == <<"one">>
MCLegal1    == <<MCVal1>>
MCCanon1    == <<[v \in MCVal1 |-> v]>>
=============================================================================
