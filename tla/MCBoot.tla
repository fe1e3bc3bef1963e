------------------------------- MODULE MCBoot -------------------------------
(* Values for the constants of MconfBoot: "user" and "other" are what the  *)
(* user may configure, "loose" is "user" with bytes behind a string's NUL, *)
(* "bad" does not validate, and the image "v2" has defaults that do not.   *)
EXTENDS MconfBoot

MCConfig == {"zero", "default", "user", "other", "loose", "bad"}
MCEncode == [d \in MCConfig |-> IF d = "loose" THEN "user" ELSE d]
MCStorable == [q \in Images |-> MCConfig \ (IF q = "v2" THEN {"bad", "default"} ELSE {"bad"})]
=============================================================================
