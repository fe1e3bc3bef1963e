------------------------------ MODULE MCHeader ------------------------------
(* Values for the constants of MconfHeader: words whose bytes tell the     *)
(* fields and their order apart, one of them with the bytes of both state  *)
(* values, and a length that does not fit.                                 *)
EXTENDS MconfHeader

MCWords   == {<<1, 0, 0, 0>>, <<60, 165, 60, 165>>}
MCFits    == {<<2, 3, 0, 0>>}
MCLengths == MCFits \cup {<<255, 255, 255, 255>>}
MCSchemas ==
  {[schema_version |-> <<v, 0, 0, 0>>, schema_fingerprint |-> <<f, 9, 8, 165>>,
    entry_count |-> <<4, 0>>] : v \in {1, 2}, f \in {5, 6}}
=============================================================================
