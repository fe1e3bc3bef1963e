------------------------ MODULE MconfStoreRefinement ------------------------
(***************************************************************************)
(* MconfStorage implements MconfStore: the two slots with their headers,   *)
(* generations and commit bytes amount to a current record and its         *)
(* predecessor.                                                            *)
(***************************************************************************)
EXTENDS MconfStorage

CONSTANT Scratch   \* the buffer while a call works in it

(* The record mconf_load would fall back to.                               *)
PreviousRecord ==
  IF Committed(0) /\ Committed(1) /\ Intact(1 - FirstChoice)
  THEN {slot[1 - FirstChoice].payload} ELSE {}

Store == INSTANCE MconfStore WITH
  Encode    <- [d \in Config |-> Encoded(d)],
  Storable  <- [q \in Schemas |->
                  {d \in Config : mconf_validate_data(d) /\ Encoded(d) \notin Oversize}],
  Cleared   <- [f \in Fields |-> Zero],
  Images    <- Schemas,
  ReadsFail <- "read" \in Faults,
  current   <- Durable,
  previous  <- PreviousRecord,
  buffer    <- IF pc = "idle" THEN data ELSE Scratch,
  call      <- IF pc = "idle" THEN "idle" ELSE op,
  want      <- payload_crc,
  image     <- schema,
  result    <- ret

(* On a medium that reports what it could not do, mconf_load and           *)
(* mconf_save behave like the register of MconfStore, whenever power is    *)
(* lost and whichever callbacks fail.                                      *)
ImplementsStore == Store!Spec

(* A call into the library runs to its end as long as the device has       *)
(* power: the thread that made it is scheduled, and every callback returns *)
(* one way or the other.                                                   *)
FairSpec == Spec /\ WF_vars(LibraryStep)

(* Every call returns, through all fallbacks and failing callbacks.        *)
CallsReturn == pc # "idle" ~> pc = "idle"
=============================================================================
