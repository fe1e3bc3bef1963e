-------------------------- MODULE MconfBootProofs ---------------------------
(***************************************************************************)
(* Starting the device keeps what is stored, for all configurations,       *)
(* encodings and sets of firmware images, as long as reads succeed.        *)
(***************************************************************************)
EXTENDS MconfBoot, TLAPS

(* Where main stands tells which call may be in progress, and on the way   *)
(* to the defaults nothing is stored.                                      *)
Phases ==
  /\ main \in {"setup", "load", "stopped", "defaults", "save", "register"}
       => call = "idle"
  /\ main = "loading" =>
       /\ call \in {"idle", "load"}
       /\ call = "idle" /\ result # "OK" => current = {}
  /\ main \in {"defaults", "save"} => current = {}
  /\ main = "saving" => call \in {"idle", "save"} /\ (call = "save" => current = {})

BootInv == TypeOK /\ Phases

(* A save in progress leaves the records alone, drops the predecessor or   *)
(* commits, and each keeps their types.                                    *)
LEMMA RecordsTyped ==
  ASSUME TypeOK, Untouched \/ Discarded \/ Committed
  PROVE  current' \in AtMostOne /\ previous' \in AtMostOne
BY DEF TypeOK, Untouched, Discarded, Committed, AtMostOne

(* The steps of main keep the invariant.                                   *)
LEMMA MainKeepsInv ==
  ASSUME BootInv, MainStep
  PROVE  BootInv'
<1> USE StoreAssumption
        DEF BootInv, TypeOK, Phases, MainAt, MainLabels, storeVars, Failures
<1>1. CASE Setup BY <1>1 DEF Setup
<1>2. CASE LoadConfig BY <1>2 DEF LoadConfig, LoadBegin
<1>3. CASE LoadDone BY <1>3 DEF LoadDone
<1>4. CASE LoadDefaults BY <1>4 DEF LoadDefaults, Edit
<1>5. CASE SaveDefaults BY <1>5 DEF SaveDefaults, SaveBegin, SaveRefused
<1>6. CASE SaveDone BY <1>6 DEF SaveDone
<1>7. CASE Register BY <1>7 DEF Register
<1> QED BY <1>1, <1>2, <1>3, <1>4, <1>5, <1>6, <1>7 DEF MainStep

(* The steps of the user keep the invariant.                               *)
LEMMA UserKeepsInv ==
  ASSUME BootInv, UserStep
  PROVE  BootInv'
<1> USE StoreAssumption DEF BootInv, TypeOK, Phases, MainLabels, Failures
<1>1. CASE \E d \in Config : Edit(d) BY <1>1 DEF UserStep, Edit
<1>2. CASE SaveRefused BY <1>2 DEF UserStep, SaveRefused
<1>3. CASE SaveBegin BY <1>3 DEF UserStep, SaveBegin
<1>4. CASE LoadBegin BY <1>4 DEF UserStep, LoadBegin
<1> QED BY <1>1, <1>2, <1>3, <1>4 DEF UserStep

(* The steps of the store keep the invariant; here reads have to succeed.  *)
LEMMA StoreKeepsInv ==
  ASSUME ~ ReadsFail, BootInv, StoreStep
  PROVE  BootInv'
<1> USE StoreAssumption DEF BootInv, TypeOK, Phases, MainLabels, Failures, Return, StoreStep
<1>1. CASE Discard BY <1>1, RecordsTyped DEF Discard, Discarded
<1>2. CASE SaveSucceeds BY <1>2, RecordsTyped DEF SaveSucceeds
<1>3. ASSUME NEW err \in Failures, NEW d \in Config, SaveFails(err, d) PROVE BootInv'
  BY <1>3, RecordsTyped DEF SaveFails
<1>4. ASSUME NEW d \in Config, LoadSucceeds(d) PROVE BootInv'
  BY <1>4 DEF LoadSucceeds, Untouched
<1>5. ASSUME NEW err \in Failures, LoadFails(err) PROVE BootInv'
  BY <1>5 DEF LoadFails, Untouched
<1> QED BY <1>1, <1>2, <1>3, <1>4, <1>5 DEF CallEnds

(* After a restart main begins again.                                      *)
LEMMA PowerLossKeepsInv ==
  ASSUME BootInv, PowerLoss
  PROVE  BootInv'
BY StoreAssumption, RecordsTyped DEF BootInv, TypeOK, Phases, MainLabels, PowerLoss, Restart

(* The invariant holds in every state.                                     *)
LEMMA BootInvHolds ==
  ASSUME ~ ReadsFail
  PROVE  BootSpec => []BootInv
<1>1. BootInit => BootInv
  BY StoreAssumption DEF BootInit, Init, BootInv, TypeOK, Phases, MainLabels, AtMostOne
<1>2. BootInv /\ [BootNext]_bootVars => BootInv'
  <2> SUFFICES ASSUME BootInv, [BootNext]_bootVars PROVE BootInv'
    OBVIOUS
  <2>1. CASE UNCHANGED bootVars
    BY <2>1 DEF bootVars, storeVars, BootInv, TypeOK, Phases
  <2> QED BY <2>1, MainKeepsInv, UserKeepsInv, StoreKeepsInv, PowerLossKeepsInv DEF BootNext
<1> QED BY <1>1, <1>2, PTL DEF BootSpec

(* The start-up and the store under it keep their types.                   *)
THEOREM TypeCorrect ==
  ASSUME ~ ReadsFail
  PROVE  BootSpec => []TypeOK
<1>1. BootInv => TypeOK BY DEF BootInv
<1> QED BY <1>1, BootInvHolds, PTL

(* Starting the device the way the samples do never replaces a             *)
(* configuration that is stored, however often power is lost and whatever  *)
(* fails to be written, as long as reads succeed.                          *)
THEOREM BootKeepsConfig ==
  ASSUME ~ ReadsFail
  PROVE  BootSpec => BootKeepsUserConfig
<1> DEFINE A == main # "running" /\ image' = image /\ current # {} => current' = current
<1>1. BootInv /\ [BootNext]_bootVars => [A]_bootVars
  <2> SUFFICES ASSUME BootInv, BootNext, main # "running", image' = image, current # {}
               PROVE  current' = current
    BY DEF bootVars
  <2> USE DEF BootInv, TypeOK, MainLabels, Phases
  <2>1. CASE MainStep
    BY <2>1 DEF MainStep, Setup, LoadConfig, LoadDone, LoadDefaults, SaveDefaults, SaveDone,
                Register, LoadBegin, Edit, SaveBegin, SaveRefused, storeVars
  <2>2. CASE UserStep BY <2>2 DEF UserStep
  <2>3. call # "save"
    OBVIOUS
  <2>4. CASE StoreStep
    BY <2>3, <2>4 DEF StoreStep, Discard, Discarded, CallEnds, SaveSucceeds, SaveFails,
                      LoadSucceeds, LoadFails, Untouched
  <2>5. CASE PowerLoss
    BY <2>3, <2>5 DEF PowerLoss, Restart, Untouched, Discarded, Committed
  <2> QED BY <2>1, <2>2, <2>4, <2>5 DEF BootNext
<1> QED BY <1>1, BootInvHolds, PTL DEF BootSpec, BootKeepsUserConfig

-----------------------------------------------------------------------------
(* The buffer main hands over.                                             *)

(* The stored configuration, or one that is stored as the defaults are:    *)
(* bytes behind the NUL of a string apart, the defaults.                   *)
Configured ==
  /\ buffer \in Config
  /\ buffer \in current \/ Encode[buffer] = Encode[Default]

(* What the buffer holds, by where main stands.                            *)
Buffers ==
  /\ main = "loading" /\ call = "idle" =>
       IF result = "OK" THEN buffer \in current ELSE buffer = Default
  /\ main \in {"defaults", "save"} => buffer = Default
  /\ main = "saving" /\ call = "save" => want = Encode[Default]
  /\ main = "saving" /\ call = "idle" => Configured
  /\ main = "register" => Configured

(* Every step keeps it.                                                    *)
LEMMA BuffersStep ==
  ASSUME ~ ReadsFail, BootInv, Buffers, BootNext
  PROVE  Buffers'
<1> USE StoreAssumption
        DEF BootInv, TypeOK, AtMostOne, Phases, MainLabels, Failures, Buffers, Configured
<1>1. CASE MainStep
  <2> USE DEF MainAt, storeVars
  <2>1. CASE Setup BY <2>1 DEF Setup
  <2>2. CASE LoadConfig BY <2>2 DEF LoadConfig, LoadBegin
  <2>3. CASE LoadDone BY <2>3 DEF LoadDone
  <2>4. CASE LoadDefaults BY <2>4 DEF LoadDefaults, Edit
  <2>5. CASE SaveDefaults BY <2>5 DEF SaveDefaults, SaveBegin, SaveRefused
  <2>6. CASE SaveDone BY <2>6 DEF SaveDone
  <2>7. CASE Register BY <2>7 DEF Register
  <2> QED BY <1>1, <2>1, <2>2, <2>3, <2>4, <2>5, <2>6, <2>7 DEF MainStep
<1>2. CASE UserStep
  BY <1>2 DEF UserStep
<1>3. CASE StoreStep
  <2> USE <1>3 DEF StoreStep, Return
  <2>1. CASE Discard BY <2>1 DEF Discard, Discarded
  <2>2. CASE SaveSucceeds BY <2>2 DEF SaveSucceeds, Committed
  <2>3. ASSUME NEW err \in Failures, NEW d \in Config, SaveFails(err, d) PROVE Buffers'
    BY <2>3 DEF SaveFails
  <2>4. ASSUME NEW d \in Config, LoadSucceeds(d) PROVE Buffers'
    BY <2>4 DEF LoadSucceeds, Untouched
  <2>5. ASSUME NEW err \in Failures, LoadFails(err) PROVE Buffers'
    BY <2>5 DEF LoadFails, Untouched
  <2> QED BY <2>1, <2>2, <2>3, <2>4, <2>5 DEF CallEnds
<1>4. CASE PowerLoss
  BY <1>4 DEF PowerLoss, Restart
<1> QED BY <1>1, <1>2, <1>3, <1>4 DEF BootNext

(* It holds from the start.                                                *)
LEMMA BuffersHold ==
  ASSUME ~ ReadsFail
  PROVE  BootSpec => []Buffers
<1>1. BootInit => Buffers
  BY DEF BootInit, Buffers, Configured
<1>2. BootInv /\ Buffers /\ [BootNext]_bootVars => Buffers'
  BY BuffersStep DEF bootVars, storeVars, Buffers, Configured
<1> QED BY <1>1, <1>2, BootInvHolds, PTL DEF BootSpec

(* When main hands the context over, the buffer holds the stored           *)
(* configuration or one that encodes like the defaults, whatever failed on *)
(* the way: never what a failed load or verification left behind.          *)
THEOREM DeviceStartsAsEncoded ==
  ASSUME ~ ReadsFail
  PROVE  BootSpec => [][main = "register" /\ main' = "running" => Configured]_bootVars
<1>1. Buffers /\ [BootNext]_bootVars
        => [main = "register" /\ main' = "running" => Configured]_bootVars
  BY DEF Buffers
<1> QED BY <1>1, BuffersHold, PTL DEF BootSpec

(* While a save works in the buffer the store only tells how the           *)
(* configuration encodes.  That tells the defaults from every other buffer *)
(* when no string of theirs leaves room behind its NUL.                    *)
DefaultsEncodeAlone == \A d \in Config : Encode[d] = Encode[Default] => d = Default

(* With such defaults, the buffer main hands over holds the stored         *)
(* configuration or the defaults.                                          *)
THEOREM DeviceStartsConfigured ==
  ASSUME ~ ReadsFail, DefaultsEncodeAlone
  PROVE  BootSpec => StartsConfigured
<1> DEFINE A == main = "register" /\ main' = "running" => buffer \in current \cup {Default}
<1>1. BootInv /\ Buffers /\ [BootNext]_bootVars => [A]_bootVars
  <2> SUFFICES ASSUME BootInv, Buffers, main = "register", main' = "running", BootNext
               PROVE  buffer \in current \cup {Default}
    OBVIOUS
  <2>1. Configured BY DEF Buffers
    <2> QED BY <2>1 DEF Configured, DefaultsEncodeAlone
<1> QED BY <1>1, BuffersHold, BootInvHolds, PTL DEF BootSpec, StartsConfigured
=============================================================================
