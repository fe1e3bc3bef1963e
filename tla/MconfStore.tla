----------------------------- MODULE MconfStore -----------------------------
(***************************************************************************)
(* What mconf_load and mconf_save promise their caller: a durable register *)
(* that keeps the current configuration and, between saves, its            *)
(* predecessor.  A save takes effect at one moment or not at all; power    *)
(* may be lost at any time.  Slots, headers, generations, checksums and    *)
(* the order of the storage callbacks are not visible here: MconfStorage   *)
(* has them and implements this specification (MconfStoreRefinement).      *)
(***************************************************************************)
EXTENDS Naturals

CONSTANTS
  Config,     \* configurations
  Encode,     \* Encode[d]: d after one encode and decode
  Storable,   \* Storable[q]: configurations mconf_save accepts in image q
  Default,    \* what mconf_load_defaults writes
  Cleared,    \* the buffer after a restart
  Scratch,    \* stands for the buffer while a call works in it
  Images,     \* schema fingerprints of the firmware images in use
  ReadsFail   \* whether read callbacks may fail

ASSUME StoreAssumption ==
  /\ Encode \in [Config -> Config]
  /\ Storable \in [Images -> SUBSET Config]
  /\ Default \in Config /\ Cleared \in Config /\ Scratch \notin Config
  /\ Images # {}
  /\ ReadsFail \in BOOLEAN

VARIABLES
  current,   \* the record a load returns: a set of at most one configuration
  previous,  \* the record it replaced, while that is still there
  buffer,    \* the caller's buffer
  call,      \* the call in progress: "idle", "load" or "save"
  want,      \* the configuration mconf_save was called with
  image,     \* the running firmware image
  result     \* what the last call returned, "none" before

storeVars == <<current, previous, buffer, call, want, image, result>>

Failures == {"IO", "MAGIC", "VERSION", "INVALID", "CRC", "SIZE"}
AtMostOne == {{}} \cup {{c} : c \in Config}

Init ==
  /\ current = {} /\ previous = {}
  /\ buffer = Cleared
  /\ call = "idle" /\ want = Default /\ result = "none"
  /\ image \in Images

-----------------------------------------------------------------------------
(* The caller changes its configuration, itself or by mconf_load_defaults. *)
Edit(d) ==
  /\ call = "idle"
  /\ buffer' = d
  /\ \/ result' = "none"
     \/ d = Default /\ result' = "OK"
  /\ UNCHANGED <<current, previous, call, want, image>>

SaveRefused ==
  /\ call = "idle" /\ buffer \notin Storable[image]
  /\ result' \in {"INVALID", "SIZE"}
  /\ UNCHANGED <<current, previous, buffer, call, want, image>>

SaveBegin ==
  /\ call = "idle" /\ buffer \in Storable[image]
  /\ call' = "save" /\ want' = Encode[buffer] /\ result' = "none"
  /\ buffer' = Scratch
  /\ UNCHANGED <<current, previous, image>>

LoadBegin ==
  /\ call = "idle"
  /\ call' = "load" /\ result' = "none"
  /\ buffer' = Scratch
  /\ UNCHANGED <<current, previous, want, image>>

-----------------------------------------------------------------------------
(* Mutant: the old record stays current beside the new one.                *)
Committed_Both == call = "save" /\ current' = current \cup {want} /\ UNCHANGED previous

(* How far a save in progress may have come: nothing has happened, the     *)
(* predecessor is gone, or the new record is the current one.              *)
Untouched == UNCHANGED <<current, previous>>
Discarded == call = "save" /\ previous' = {} /\ UNCHANGED current
Committed == call = "save" /\ current' = {want} /\ previous' = current

Discard == Discarded /\ UNCHANGED <<buffer, call, want, image, result>>

Return(err, d) ==
  /\ call' = "idle" /\ result' = err /\ buffer' = d /\ want' = Default
  /\ UNCHANGED image

SaveSucceeds == call = "save" /\ Committed /\ Return("OK", want)

(* The verification works in the caller's buffer: when a read fails there  *)
(* the configuration in memory is lost.                                    *)
SaveFails(err, d) ==
  /\ call = "save"
  /\ Untouched \/ Discarded \/ Committed
  /\ ReadsFail \/ Encode[d] = want
  /\ Return(err, d)

LoadSucceeds(d) ==
  /\ call = "load"
  /\ d \in current \/ (ReadsFail /\ d \in previous)
  /\ Untouched /\ Return("OK", d)

LoadFails(err) ==
  /\ call = "load"
  /\ ReadsFail \/ current = {}
  /\ Untouched /\ Return(err, Default)

(* Power is lost and the device restarts; another image may find anything. *)
Restart(q) ==
  /\ \/ q = image /\ (Untouched \/ Discarded \/ Committed)
     \/ q # image /\ current' \in AtMostOne /\ previous' \in AtMostOne
  /\ call' = "idle" /\ result' = "none" /\ buffer' = Cleared /\ want' = Default
  /\ image' = q

-----------------------------------------------------------------------------
(* The end of the call in progress.                                        *)
CallEnds ==
  \/ SaveSucceeds
  \/ \E err \in Failures, d \in Config : SaveFails(err, d)
  \/ \E d \in Config : LoadSucceeds(d)
  \/ \E err \in Failures : LoadFails(err)

Next ==
  \/ \E d \in Config : Edit(d)
  \/ SaveRefused \/ SaveBegin \/ LoadBegin \/ Discard \/ CallEnds
  \/ \E q \in Images : Restart(q)

Spec == Init /\ [][Next]_storeVars
=============================================================================
