---------------------------- MODULE MconfStorage ----------------------------
(***************************************************************************)
(* Two-slot persistence of src/mconf.c: mconf_load and mconf_save, with    *)
(* every callback into the storage medium a step of its own, so that power *)
(* can be lost, and a callback can fail, between any two of them and in    *)
(* the middle of each.                                                     *)
(*                                                                         *)
(* Abstractions.                                                           *)
(*  - A field is a member of Val: one of the byte patterns the field's     *)
(*    memory can hold.  Legal[f] are those mconf_validate_data accepts,    *)
(*    Canon[f] what a pattern becomes when encoded and decoded again (a    *)
(*    string loses the bytes behind its NUL; scalars and blobs keep all).  *)
(*  - CRC32 is taken to be collision free: the header field payload_crc32  *)
(*    holds the payload it was computed from.  The payload length is       *)
(*    determined by the payload and is left out with it.                   *)
(*  - One payload cell stands for the one or two writes of a field.  Bytes *)
(*    that decode to no value of the field are the cell Garbage.           *)
(*  - Calls on one context are serialized by the caller (docs/DESIGN.md),  *)
(*    so the data buffer is edited only between calls.                     *)
(***************************************************************************)
EXTENDS Integers

CONSTANTS
  NFields,     \* number of schema entries
  Val,         \* byte patterns of a field in memory
  Zero,        \* the pattern memset(.., 0, ..) leaves
  Garbage,     \* stored bytes that decode to no pattern
  ErasedCell,  \* what an erased payload cell (0xFF bytes) reads as
  Default,     \* the configuration mconf_load_defaults writes
  Legal,       \* Legal[f]: patterns mconf_validate_data accepts
  Canon,       \* Canon[f][v]: v after one encode and decode
  Oversize,    \* encoded payloads longer than slot_size - 32
  Schemas,     \* schema fingerprints of the firmware images in use
  GenHalf,     \* half the range of the generation counter (2^31 in the code)
  Blank,       \* a header area without the magic bytes
  NoSlot,      \* no second slot to fall back to
  Medium,      \* "overwrite" (EEPROM) or "nor" (flash: programming clears bits)
  Faults       \* the environment's fault classes that are enabled

Slots   == {0, 1}
Fields  == 1 .. NFields
Config  == [Fields -> Val]
Cell    == Val \cup {Garbage}
GenMod  == 2 * GenHalf
Gen     == 0 .. GenMod - 1
Header  == [schema_fingerprint : Schemas, generation : Gen, payload_crc32 : Config]

(***************************************************************************)
(* read       a read callback of mconf_load, or of the verification in     *)
(*            mconf_save, reports failure                                  *)
(* probe_read a header read of mconf_save's slot selection reports failure *)
(* write      an erase or write reports failure after a partial effect     *)
(* silent     an erase, header or payload write reports success after a    *)
(*            partial effect                                               *)
(* tear_any   an interrupted erase may leave the header while the payload  *)
(*            is already gone; without it the header goes first, as the    *)
(*            ascending chunks of mconf_zephyr_eeprom_erase make it        *)
(* rot        a payload cell of a stored record changes at rest            *)
(* Power can be lost at every step in every model.                         *)
(***************************************************************************)
FaultKinds == {"read", "probe_read", "write", "silent", "tear_any", "rot"}

ASSUME SizesAssumption ==
  /\ NFields \in Nat \ {0}
  /\ GenHalf \in Nat /\ GenHalf >= 3

ASSUME ValuesAssumption ==
  /\ Zero \in Val
  /\ Garbage \notin Val
  /\ ErasedCell \in Cell
  /\ Default \in Config
  /\ Legal \in [Fields -> SUBSET Val]
  /\ Canon \in [Fields -> [Val -> Val]]
  /\ \A f \in Fields : \A v \in Val : Canon[f][Canon[f][v]] = Canon[f][v]
  /\ \A f \in Fields : \A v \in Legal[f] : Canon[f][v] \in Legal[f]
  /\ Blank \notin Header
  /\ NoSlot \notin Slots
  /\ Schemas # {}

ASSUME EnvironmentAssumption ==
  /\ Medium \in {"overwrite", "nor"}
  /\ Faults \subseteq FaultKinds

VARIABLES
  slot,             \* the medium: slot[s] = [hdr, state, payload]
  data,             \* the caller-owned configuration buffer ctx->data
  schema,           \* fingerprint of the running firmware's schema
  pc,               \* where the library call in progress stands
  op,               \* the call in progress: "load" or "save"
  ret,              \* what the call that returned last gave, "none" before
  probe,            \* slot0_err, slot1_err
  cur,              \* target_slot in mconf_save, slot being read in mconf_load
  fallback,         \* the slot mconf_load tries next
  next_generation,  \* local of mconf_save
  payload_crc,      \* local of mconf_save
  index             \* loop variable over the entries

locals == <<probe, cur, fallback, next_generation, payload_crc, index>>
vars   == <<slot, data, schema, pc, op, ret, locals>>

-----------------------------------------------------------------------------
(* The state byte of a record, as the set of its one bits.                 *)

MCONF_STORAGE_STATE_UNCOMMITTED == {2, 3, 4, 5}   \* 0x3C
MCONF_STORAGE_STATE_COMMITTED   == {0, 2, 5, 7}   \* 0xA5
ErasedByte                      == 0 .. 7         \* 0xFF

(* Writing a byte: EEPROM replaces it, NOR flash can only clear bits.      *)
Program(old, new) == IF Medium = "nor" THEN old \cap new ELSE new

(* Writing a longer area: NOR flash takes it only where it was erased.     *)
ProgramArea(old, erased, new, mixed) ==
  IF Medium = "nor" /\ old \notin {erased, new} THEN mixed ELSE new

ErasedSlot == [hdr |-> Blank, state |-> ErasedByte,
               payload |-> [f \in Fields |-> ErasedCell]]

Errors == {"OK", "IO", "MAGIC", "VERSION", "INVALID", "CRC", "SIZE"}

(* Mutant: generations compared as plain numbers.                          *)
mconf_generation_is_newer_Plain(lhs, rhs) == lhs > rhs

(* uint32 subtraction wraps; the difference read as int32 is positive.     *)
mconf_generation_is_newer(lhs, rhs) ==
  LET d == IF lhs >= rhs THEN lhs - rhs ELSE lhs - rhs + GenMod
  IN  d > 0 /\ d < GenHalf

(* Mutants: a counter that does not wrap, and one that is not advanced.    *)
NextGeneration_Unbounded(g) == g + 1
NextGeneration_Same(g) == g

(* The successor mconf_save gives a record: uint32 increment, 0 skipped.   *)
NextGeneration(g) == IF g + 1 = GenMod THEN 1 ELSE g + 1

mconf_validate_data(d) == \A f \in Fields : d[f] \in Legal[f]

(* The bytes mconf_serialize_payload_to_storage writes for d, and          *)
(* mconf_compute_payload_layout computes the checksum of.                  *)
Encoded(d) == [f \in Fields |-> Canon[f][d[f]]]

(* mconf_probe_slot_header when its read succeeds.                         *)
mconf_probe_slot_header(s, require_committed) ==
  LET r == slot[s] IN
  CASE r.hdr = Blank -> "MAGIC"
    [] r.hdr # Blank /\ r.state # MCONF_STORAGE_STATE_COMMITTED
         /\ (require_committed \/ r.state # MCONF_STORAGE_STATE_UNCOMMITTED) -> "INVALID"
    [] OTHER -> IF r.hdr.schema_fingerprint # schema THEN "VERSION" ELSE "OK"

-----------------------------------------------------------------------------
(* Effects of a storage callback that is cut short: the contents slot s    *)
(* can be left with.                                                       *)

(* An erase turns some cells into erased ones; the header goes first       *)
(* unless tear_any is enabled.                                             *)
TornErase(r) ==
  {r} \cup
  {[hdr |-> h, state |-> IF h = Blank THEN ErasedByte ELSE r.state, payload |-> p] :
     h \in IF "tear_any" \in Faults THEN {Blank, r.hdr} ELSE {Blank},
     p \in {q \in [Fields -> Cell] :
              \A f \in Fields : q[f] \in {r.payload[f], ErasedCell}}}

(* Mutant: the record is marked committed before its payload is written.   *)
WithHeader_Committed(r, h) ==
  [r EXCEPT !.hdr = h, !.state = MCONF_STORAGE_STATE_COMMITTED]

(* The record r after a header write: the state byte (offset 18) comes     *)
(* before the generation and the checksum (offsets 24 and 28).             *)
WithHeader(r, h) ==
  [r EXCEPT !.hdr = ProgramArea(@, Blank, h, Blank),
            !.state = Program(@, MCONF_STORAGE_STATE_UNCOMMITTED)]

(* A header cut short: at its very beginning, behind the state byte, at    *)
(* its very end, or before the state byte.  In the last case an erased     *)
(* header may read as h with an erased state byte, and an old header that  *)
(* was not erased has the new schema's identification in front of the old  *)
(* state, generation and checksum.                                         *)
TornHeader(r, h) ==
  {r, [r EXCEPT !.state = WithHeader(r, h).state], WithHeader(r, h),
   [r EXCEPT !.hdr = IF r.hdr = Blank THEN h
                     ELSE [@ EXCEPT !.schema_fingerprint = h.schema_fingerprint]]}

WithCell(r, f, c) ==
  [r EXCEPT !.payload[f] = ProgramArea(@, ErasedCell, c, Garbage)]

TornPayload(r, f) == {[r EXCEPT !.payload[f] = c] : c \in Cell}

TornCommit(r) ==
  {r, [r EXCEPT !.state = ErasedByte],
      [r EXCEPT !.state = Program(r.state, MCONF_STORAGE_STATE_COMMITTED)]}

(* The record header mconf_encode_header builds in mconf_save.             *)
mconf_encode_header ==
  [schema_fingerprint |-> schema, generation |-> next_generation,
   payload_crc32 |-> payload_crc]

(* What power loss can leave in slot cur while the call stands at pc.      *)
TornOutcomes ==
  CASE pc = "erase"   -> TornErase(slot[cur])
    [] pc = "header"  -> TornHeader(slot[cur], mconf_encode_header)
    [] pc = "payload" -> TornPayload(slot[cur], index)
    [] pc = "commit"  -> TornCommit(slot[cur])
    [] OTHER          -> {slot[cur]}

-----------------------------------------------------------------------------
(* Control: entering and leaving a library call.                           *)

NoProbe == [s \in Slots |-> "OK"]

ResetLocals ==
  /\ probe' = NoProbe /\ cur' = 0 /\ fallback' = NoSlot
  /\ next_generation' = 0 /\ payload_crc' = Default /\ index' = 1

Return(err) == pc' = "idle" /\ ret' = err /\ ResetLocals /\ UNCHANGED <<op, schema>>

Goto(label) == pc' = label /\ UNCHANGED <<op, ret, schema>>

(* A write or erase callback on slot cur that continues at label when it   *)
(* reports success; torn are the contents a partial effect can leave.      *)
StorageWrite(full, torn, label, i) ==
  \/ /\ slot' = [slot EXCEPT ![cur] = full]
     /\ Goto(label) /\ index' = i
     /\ UNCHANGED <<data, probe, cur, fallback, next_generation, payload_crc>>
  \/ /\ "silent" \in Faults
     /\ \E r \in torn : slot' = [slot EXCEPT ![cur] = r]
     /\ Goto(label) /\ index' = i
     /\ UNCHANGED <<data, probe, cur, fallback, next_generation, payload_crc>>
  \/ /\ "write" \in Faults
     /\ \E r \in torn : slot' = [slot EXCEPT ![cur] = r]
     /\ Return("IO") /\ UNCHANGED data

Init ==
  /\ slot = [s \in Slots |-> ErasedSlot]
  /\ data = [f \in Fields |-> Zero]
  /\ schema \in Schemas
  /\ pc = "idle" /\ op = "load" /\ ret = "none"
  /\ probe = NoProbe /\ cur = 0 /\ fallback = NoSlot
  /\ next_generation = 0 /\ payload_crc = Default /\ index = 1

-----------------------------------------------------------------------------
(* The caller between calls.                                               *)

(* A field of the caller-owned buffer gets a new pattern (mconf_set and    *)
(* its typed forms, mconf_reset_field, or a plain assignment).             *)
EditField(f, v) ==
  /\ pc = "idle"
  /\ data' = [data EXCEPT ![f] = v]
  /\ ret' = "none"
  /\ UNCHANGED <<slot, schema, pc, op, locals>>

mconf_load_defaults ==
  /\ pc = "idle"
  /\ data' = Default
  /\ ret' = "OK"
  /\ UNCHANGED <<slot, schema, pc, op, locals>>

(* mconf_save up to its first callback: data that does not validate or     *)
(* does not fit the slot is refused before the medium is touched.          *)
mconf_save ==
  /\ pc = "idle"
  /\ op' = "save"
  /\ UNCHANGED <<slot, data, schema, probe, cur, fallback, next_generation, index>>
  /\ \/ /\ ~ mconf_validate_data(data)
        /\ ret' = "INVALID" /\ UNCHANGED <<pc, payload_crc>>
     \/ /\ mconf_validate_data(data) /\ Encoded(data) \in Oversize
        /\ ret' = "SIZE" /\ UNCHANGED <<pc, payload_crc>>
     \/ /\ mconf_validate_data(data) /\ Encoded(data) \notin Oversize
        /\ ret' = "none" /\ pc' = "probe0" /\ payload_crc' = Encoded(data)

mconf_load ==
  /\ pc = "idle"
  /\ op' = "load" /\ ret' = "none" /\ pc' = "probe0"
  /\ UNCHANGED <<slot, data, schema, locals>>

-----------------------------------------------------------------------------
(* Both calls probe slot 0 and then slot 1 for a committed header.         *)

ProbeFault == IF op = "save" THEN "probe_read" ELSE "read"

ProbeSlot(s) ==
  /\ pc = IF s = 0 THEN "probe0" ELSE "probe1"
  /\ \E err \in {mconf_probe_slot_header(s, TRUE)}
                 \cup IF ProbeFault \in Faults THEN {"IO"} ELSE {} :
       probe' = [probe EXCEPT ![s] = err]
  /\ Goto(IF s = 0 THEN "probe1" ELSE "select")
  /\ UNCHANGED <<slot, data, cur, fallback, next_generation, payload_crc, index>>

ProbedOK(s)  == probe[s] = "OK"
SlotGen(s)   == slot[s].hdr.generation
Slot1Newer   == mconf_generation_is_newer(SlotGen(1), SlotGen(0))

(* Mutant: the newer record is overwritten.                                *)
TargetSlot_Newest ==
  IF ProbedOK(0) /\ (ProbedOK(1) => ~ Slot1Newer) THEN 0 ELSE 1

(* mconf_save overwrites the older record, or the slot without one.        *)
TargetSlot ==
  IF ProbedOK(0) /\ (ProbedOK(1) => ~ Slot1Newer) THEN 1 ELSE 0

SelectTarget ==
  /\ pc = "select" /\ op = "save"
  /\ cur' = TargetSlot
  /\ next_generation' = IF ProbedOK(1 - TargetSlot)
                        THEN NextGeneration(SlotGen(1 - TargetSlot)) ELSE 1
  /\ Goto("erase")
  /\ UNCHANGED <<slot, data, probe, fallback, payload_crc, index>>

EraseSlot ==
  /\ pc = "erase"
  /\ StorageWrite(ErasedSlot, TornErase(slot[cur]), "header", index)

WriteHeader ==
  /\ pc = "header"
  /\ StorageWrite(WithHeader(slot[cur], mconf_encode_header),
                  TornHeader(slot[cur], mconf_encode_header), "payload", 1)

(* One iteration of mconf_serialize_payload_to_storage.                    *)
WriteField ==
  /\ pc = "payload"
  /\ StorageWrite(WithCell(slot[cur], index, Encoded(data)[index]),
                  TornPayload(slot[cur], index),
                  IF index = NFields THEN "readback" ELSE "payload",
                  IF index = NFields THEN 1 ELSE index + 1)

(* Mutant: the payload is not verified before the commit.                  *)
VerifyHeader_Only ==
  /\ pc = "readback"
  /\ slot[cur].hdr = mconf_encode_header
  /\ slot[cur].state = MCONF_STORAGE_STATE_UNCOMMITTED
  /\ Goto("commit") /\ UNCHANGED <<slot, data, locals>>

(* The header is read back and compared byte by byte.                      *)
VerifyHeader ==
  /\ pc = "readback"
  /\ \/ /\ slot[cur].hdr = mconf_encode_header
        /\ slot[cur].state = MCONF_STORAGE_STATE_UNCOMMITTED
        /\ Goto("reprobe") /\ UNCHANGED locals
     \/ /\ \/ slot[cur].hdr # mconf_encode_header
           \/ slot[cur].state # MCONF_STORAGE_STATE_UNCOMMITTED
           \/ "read" \in Faults
        /\ Return("IO")
  /\ UNCHANGED <<slot, data>>

(* The state byte is overwritten last; this write is not read back.        *)
CommitRecord ==
  /\ pc = "commit"
  /\ UNCHANGED data
  /\ \/ /\ slot' = [slot EXCEPT ![cur].state =
                      Program(@, MCONF_STORAGE_STATE_COMMITTED)]
        /\ Return("OK")
     \/ /\ "write" \in Faults
        /\ \E r \in TornCommit(slot[cur]) : slot' = [slot EXCEPT ![cur] = r]
        /\ Return("IO")

-----------------------------------------------------------------------------
(* mconf_load's choice among the probed slots.                             *)

LoadError ==
  LET errs == {probe[0], probe[1]} IN
  CASE "CRC" \in errs -> "CRC"
    [] "CRC" \notin errs /\ "VERSION" \in errs -> "VERSION"
    [] errs \cap {"CRC", "VERSION"} = {} /\ "MAGIC" \in errs -> "MAGIC"
    [] OTHER -> "INVALID"

(* Mutant: the older of two records is tried first.                        *)
SelectSource_Oldest ==
  /\ pc = "select" /\ op = "load"
  /\ UNCHANGED slot
  /\ \/ /\ ~ ProbedOK(0) /\ ~ ProbedOK(1)
        /\ data' = Default /\ Return(LoadError)
     \/ /\ ProbedOK(0) \/ ProbedOK(1)
        /\ cur' = IF ProbedOK(0) /\ (ProbedOK(1) => Slot1Newer) THEN 0 ELSE 1
        /\ fallback' = IF ProbedOK(0) /\ ProbedOK(1) THEN 1 - cur' ELSE NoSlot
        /\ Goto("reprobe")
        /\ UNCHANGED <<data, probe, next_generation, payload_crc, index>>

SelectSource ==
  /\ pc = "select" /\ op = "load"
  /\ UNCHANGED slot
  /\ \/ /\ ~ ProbedOK(0) /\ ~ ProbedOK(1)
        /\ data' = Default /\ Return(LoadError)
     \/ /\ ProbedOK(0) \/ ProbedOK(1)
        /\ cur' = IF ProbedOK(0) /\ (ProbedOK(1) => ~ Slot1Newer) THEN 0 ELSE 1
        /\ fallback' = IF ProbedOK(0) /\ ProbedOK(1) THEN 1 - cur' ELSE NoSlot
        /\ Goto("reprobe")
        /\ UNCHANGED <<data, probe, next_generation, payload_crc, index>>

-----------------------------------------------------------------------------
(* mconf_load_slot_into_buffer: the record in slot cur is decoded straight *)
(* into ctx->data, by mconf_load and by the verification in mconf_save.    *)

(* Mutant: no defaults after the last slot was refused.                    *)
SlotRefused_Kept(err, d) ==
  \/ (op = "save" \/ fallback = NoSlot) /\ data' = d /\ Return(err)
  \/ /\ op = "load" /\ fallback # NoSlot
     /\ data' = d
     /\ cur' = fallback /\ fallback' = NoSlot /\ index' = 1
     /\ Goto("reprobe") /\ UNCHANGED <<probe, next_generation, payload_crc>>

(* Mutant: the slots are tried in turn without end.                        *)
SlotRefused_Again(err, d) ==
  \/ op = "save" /\ data' = d /\ Return(err)
  \/ /\ op = "load" /\ fallback # NoSlot
     /\ data' = d
     /\ cur' = fallback /\ fallback' = cur /\ index' = 1
     /\ Goto("reprobe") /\ UNCHANGED <<probe, next_generation, payload_crc>>
  \/ op = "load" /\ fallback = NoSlot /\ data' = Default /\ Return(LoadError)

(* The slot was refused with err and the buffer holds d: mconf_save gives  *)
(* up, mconf_load tries the other slot or falls back to the defaults.      *)
SlotRefused(err, d) ==
  \/ op = "save" /\ data' = d /\ Return(err)
  \/ /\ op = "load" /\ fallback # NoSlot
     /\ data' = d
     /\ cur' = fallback /\ fallback' = NoSlot /\ index' = 1
     /\ Goto("reprobe") /\ UNCHANGED <<probe, next_generation, payload_crc>>
  \/ op = "load" /\ fallback = NoSlot /\ data' = Default /\ Return(LoadError)

ReadHeader ==
  /\ pc = "reprobe"
  /\ UNCHANGED slot
  /\ LET err == mconf_probe_slot_header(cur, op = "load") IN
     \/ /\ err = "OK"
        /\ data' = [f \in Fields |-> Zero] /\ index' = 1
        /\ Goto("field")
        /\ UNCHANGED <<probe, cur, fallback, next_generation, payload_crc>>
     \/ err # "OK" /\ SlotRefused(err, data)
     \/ "read" \in Faults /\ SlotRefused("IO", data)

(* Mutant: the last entry is not read.                                     *)
ReadField_Short ==
  /\ pc = "field"
  /\ UNCHANGED slot
  /\ data' = [data EXCEPT ![index] = slot[cur].payload[index]]
  /\ Goto(IF index + 1 >= NFields THEN "check" ELSE "field")
  /\ index' = IF index + 1 >= NFields THEN 1 ELSE index + 1
  /\ UNCHANGED <<probe, cur, fallback, next_generation, payload_crc>>

(* One entry: a failing read may have filled part of the field.            *)
ReadField ==
  /\ pc = "field"
  /\ UNCHANGED slot
  /\ LET c == slot[cur].payload[index] IN
     \/ /\ c # Garbage
        /\ data' = [data EXCEPT ![index] = c]
        /\ Goto(IF index = NFields THEN "check" ELSE "field")
        /\ index' = IF index = NFields THEN 1 ELSE index + 1
        /\ UNCHANGED <<probe, cur, fallback, next_generation, payload_crc>>
     \/ c = Garbage /\ SlotRefused("INVALID", data)
     \/ /\ "read" \in Faults
        /\ \E v \in Val : SlotRefused("IO", [data EXCEPT ![index] = v])

(* The checksum is compared first, then mconf_validate_data runs.          *)
CheckPayload ==
  /\ pc = "check"
  /\ UNCHANGED slot
  /\ LET crc_ok == data = slot[cur].hdr.payload_crc32 IN
     \/ ~ crc_ok /\ SlotRefused("CRC", data)
     \/ crc_ok /\ ~ mconf_validate_data(data) /\ SlotRefused("INVALID", data)
     \/ /\ crc_ok /\ mconf_validate_data(data)
        /\ UNCHANGED data
        /\ \/ op = "load" /\ Return("OK")
           \/ op = "save" /\ Goto("commit") /\ UNCHANGED locals

-----------------------------------------------------------------------------
(* The environment.                                                        *)

(* Power is lost at any point, in the middle of the callback in progress   *)
(* too, and the device restarts, possibly with another firmware image; the *)
(* statically allocated buffer is zero again.                              *)
PowerCycle(q) ==
  /\ \E r \in TornOutcomes : slot' = [slot EXCEPT ![cur] = r]
  /\ data' = [f \in Fields |-> Zero]
  /\ schema' = q
  /\ pc' = "idle" /\ op' = "load" /\ ret' = "none"
  /\ ResetLocals

PayloadRot(s, f, c) ==
  /\ "rot" \in Faults
  /\ pc = "idle"
  /\ slot' = [slot EXCEPT ![s].payload[f] = c]
  /\ UNCHANGED <<data, schema, pc, op, ret, locals>>

(* The steps of a call in progress.                                        *)
LibraryStep ==
  \/ \E s \in Slots : ProbeSlot(s)
  \/ SelectTarget \/ EraseSlot \/ WriteHeader \/ WriteField \/ VerifyHeader
  \/ CommitRecord
  \/ SelectSource \/ ReadHeader \/ ReadField \/ CheckPayload

Next ==
  \/ \E f \in Fields, v \in Val : EditField(f, v)
  \/ mconf_load_defaults \/ mconf_save \/ mconf_load
  \/ LibraryStep
  \/ \E q \in Schemas : PowerCycle(q)
  \/ \E s \in Slots, f \in Fields, c \in Cell : PayloadRot(s, f, c)

Spec == Init /\ [][Next]_vars

-----------------------------------------------------------------------------
(* Properties.                                                             *)

SlotContents == [hdr : Header \cup {Blank}, state : SUBSET (0 .. 7),
                 payload : [Fields -> Cell]]

Labels == {"idle", "probe0", "probe1", "select", "erase", "header", "payload",
           "readback", "reprobe", "field", "check", "commit"}

(* Every variable has the type its declaration in mconf.c gives it.        *)
TypeOK ==
  /\ slot \in [Slots -> SlotContents]
  /\ data \in Config
  /\ schema \in Schemas
  /\ pc \in Labels
  /\ op \in {"load", "save"}
  /\ ret \in Errors \cup {"none"}
  /\ probe \in [Slots -> Errors]
  /\ cur \in Slots
  /\ fallback \in Slots \cup {NoSlot}
  /\ next_generation \in Gen
  /\ payload_crc \in Config
  /\ index \in Fields

(* What a mconf_load without faults would return now: a set holding the    *)
(* one configuration, or empty when it would fall back to the defaults.    *)
Committed(s) == mconf_probe_slot_header(s, TRUE) = "OK"

Intact(s) == /\ slot[s].payload = slot[s].hdr.payload_crc32
             /\ mconf_validate_data(slot[s].payload)

FirstChoice == IF Committed(0) /\ (Committed(1) => ~ Slot1Newer) THEN 0 ELSE 1

Durable ==
  CASE Committed(FirstChoice) /\ Intact(FirstChoice) -> {slot[FirstChoice].payload}
    [] /\ ~ (Committed(FirstChoice) /\ Intact(FirstChoice))
       /\ Committed(0) /\ Committed(1) /\ Intact(1 - FirstChoice) ->
         {slot[1 - FirstChoice].payload}
    [] OTHER -> {}

-----------------------------------------------------------------------------
(* The inductive invariant behind the safety properties.  It describes a   *)
(* medium whose records do not change at rest and whose header reads in    *)
(* mconf_save tell the truth; erases and headers that may stop half way    *)
(* unnoticed are tolerated while all images share one schema.              *)

OneSchema == \A p, q \in Schemas : p = q

TolerableFaults ==
  /\ "rot" \notin Faults /\ "probe_read" \notin Faults
  /\ OneSchema \/ ("silent" \notin Faults /\ "tear_any" \notin Faults)

HoldsRecord(s) == /\ slot[s].hdr # Blank
                  /\ slot[s].state = MCONF_STORAGE_STATE_COMMITTED

SameSchema == slot[0].hdr.schema_fingerprint = slot[1].hdr.schema_fingerprint

(* mconf_save stands between the selection of its target and its return.   *)
Saving == \/ pc \in {"erase", "header", "payload", "readback", "commit"}
          \/ op = "save" /\ pc \in {"reprobe", "field", "check"}

(* A state byte reads as committed only behind a header with the magic.    *)
NoStrayCommit == \A s \in Slots : slot[s].hdr = Blank =>
                   slot[s].state # MCONF_STORAGE_STATE_COMMITTED

(* A committed record that is damaged is older than the other slot's.      *)
DamagedIsOld ==
  \A s \in Slots : HoldsRecord(s) =>
    \/ Intact(s)
    \/ /\ OneSchema /\ HoldsRecord(1 - s)
       /\ mconf_generation_is_newer(SlotGen(1 - s), SlotGen(s))

(* Two committed records of one schema have consecutive generations.       *)
Consecutive ==
  (HoldsRecord(0) /\ HoldsRecord(1) /\ SameSchema) =>
    \E s \in Slots : SlotGen(s) = NextGeneration(SlotGen(1 - s))

(* What mconf_save learned from its probes still holds when it decides.    *)
ProbesCurrent ==
  /\ op = "save" /\ pc \in {"probe1", "select"} => (ProbedOK(0) <=> Committed(0))
  /\ op = "save" /\ pc = "select" => (ProbedOK(1) <=> Committed(1))

(* The target holds nothing mconf_load would prefer, the other slot's      *)
(* record is whole, and the new generation follows that record's.          *)
TargetChosen ==
  Saving =>
    /\ HoldsRecord(1 - cur) => Intact(1 - cur)
    /\ Committed(1 - cur) => next_generation = NextGeneration(SlotGen(1 - cur))
    /\ Committed(cur) =>
         /\ Committed(1 - cur)
         /\ mconf_generation_is_newer(SlotGen(1 - cur), SlotGen(cur))
    /\ pc # "erase" /\ HoldsRecord(cur) => OneSchema

(* The checksum is that of a legal configuration, and what the             *)
(* verification has seen so far is what the slot holds.                    *)
Verified ==
  /\ op = "save" /\ pc # "idle" => mconf_validate_data(payload_crc)
  /\ op = "load" => ~ Saving
  /\ op = "save" /\ pc \in {"reprobe", "field", "check", "commit"} =>
       /\ slot[cur].hdr = mconf_encode_header
       /\ slot[cur].state = MCONF_STORAGE_STATE_UNCOMMITTED
  /\ op = "save" /\ pc = "field" =>
       \A f \in Fields : f < index => data[f] = slot[cur].payload[f]
  /\ op = "save" /\ pc = "check" => data = slot[cur].payload
  /\ pc = "commit" => slot[cur].payload = payload_crc

(* Whatever fails and whenever power is lost, the newest committed record  *)
(* of a schema is whole and mconf_save works on the other slot.            *)
IInv == /\ TypeOK /\ NoStrayCommit /\ DamagedIsOld /\ Consecutive
        /\ ProbesCurrent /\ TargetChosen /\ Verified

-----------------------------------------------------------------------------
(* When both slots hold a committed record of one schema, exactly one of   *)
(* them is newer by mconf_generation_is_newer, across the wrap of the      *)
(* 32-bit counter and its skipped zero too.                                *)
SlotsOrdered ==
  (HoldsRecord(0) /\ HoldsRecord(1) /\ SameSchema)
  => mconf_generation_is_newer(SlotGen(0), SlotGen(1))
       # mconf_generation_is_newer(SlotGen(1), SlotGen(0))

(* From target selection to commit, the record mconf_load would recover is *)
(* whole in the slot mconf_save is not writing.                            *)
TargetIsExpendable ==
  (op = "save" /\ pc \notin {"idle", "probe0", "probe1", "select"} /\ Durable # {})
  => Committed(1 - cur) /\ Intact(1 - cur) /\ slot[1 - cur].payload \in Durable

(* No step of a call, no failing callback and no power loss changes what a *)
(* later mconf_load recovers, except mconf_save's commit write, and that   *)
(* changes it to the configuration the call was made with.                 *)
DurableChangesOnlyByCommit ==
  [][schema' = schema =>
       \/ Durable' = Durable
       \/ pc = "commit" /\ Durable' = {payload_crc}]_vars

(* When mconf_save returns MCONF_OK a later mconf_load recovers exactly    *)
(* the configuration the call was made with.                               *)
SavedIsDurable ==
  [][(op = "save" /\ pc # "idle" /\ ret' = "OK") => Durable' = {payload_crc}]_vars

(* mconf_load never hands out a mixture: it returns MCONF_OK with the      *)
(* whole payload of a committed record, or an error with the defaults.     *)
LoadIsWhole ==
  [][(op = "load" /\ pc # "idle" /\ pc' = "idle" /\ ret' # "none") =>
       IF ret' = "OK"
       THEN \E s \in Slots : Committed(s) /\ Intact(s) /\ data' = slot[s].payload
       ELSE data' = Default]_vars

(* Without read failures mconf_load returns MCONF_OK exactly when a record *)
(* can be recovered, and then with the newest one.                         *)
LoadIsNewest ==
  [][(op = "load" /\ pc # "idle" /\ pc' = "idle" /\ ret' # "none") =>
       IF ret' = "OK" THEN Durable = {data'} ELSE Durable = {}]_vars

(* mconf_save leaves the caller's configuration as it was, up to the bytes *)
(* the encoding drops, whether it succeeds or not.                         *)
SaveKeepsData ==
  [][(op = "save" /\ pc # "idle" /\ pc' = "idle" /\ ret' # "none") =>
       Encoded(data') = payload_crc]_vars

(* A call, and power loss during a call, never leaves the medium without a *)
(* recoverable record when it had one.                                     *)
NeverLosesAll ==
  [][(pc # "idle" /\ schema' = schema /\ Durable # {}) => Durable' # {}]_vars
=============================================================================
