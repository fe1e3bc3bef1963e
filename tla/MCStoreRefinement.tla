------------------------ MODULE MCStoreRefinement ------------------------
(* Values for the constants of MconfStoreRefinement.                       *)
EXTENDS MCStorage, MconfStoreRefinement
=============================================================================
