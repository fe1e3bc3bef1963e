------------------------- MODULE MconfStorageProofs -------------------------
(***************************************************************************)
(* Proofs about MconfStorage, for every number of fields, every set of     *)
(* patterns and of firmware images, every range of the generation counter  *)
(* and every medium, and that it implements MconfStore.                    *)
(***************************************************************************)
EXTENDS MconfStoreRefinement, TLAPS

-----------------------------------------------------------------------------
(* Facts about the operators the actions are built from.                   *)

(* The successor of a generation is a generation, is not the reserved zero *)
(* and is strictly newer than it, across the wrap of the counter too.      *)
LEMMA NextIsNewer ==
  ASSUME NEW g \in Gen
  PROVE  /\ NextGeneration(g) \in Gen
         /\ NextGeneration(g) # 0
         /\ mconf_generation_is_newer(NextGeneration(g), g)
         /\ ~ mconf_generation_is_newer(g, NextGeneration(g))
BY SizesAssumption
   DEF Gen, GenMod, NextGeneration, mconf_generation_is_newer

(* mconf_generation_is_newer never holds both ways.                        *)
LEMMA NewerIsAsymmetric ==
  ASSUME NEW g \in Gen, NEW h \in Gen, mconf_generation_is_newer(g, h)
  PROVE  ~ mconf_generation_is_newer(h, g)
BY SizesAssumption DEF Gen, GenMod, mconf_generation_is_newer

(* Encoding gives a configuration, and a legal one for legal data.         *)
LEMMA EncodedType ==
  ASSUME NEW d \in Config
  PROVE  /\ Encoded(d) \in Config
         /\ mconf_validate_data(d) => mconf_validate_data(Encoded(d))
BY ValuesAssumption DEF Config, Encoded, mconf_validate_data

(* A probe answers with one of the library's error codes.                  *)
LEMMA ProbeType ==
  ASSUME NEW s \in Slots, NEW b \in BOOLEAN
  PROVE  mconf_probe_slot_header(s, b) \in Errors
BY DEF mconf_probe_slot_header, Errors

(* An erased slot is a slot.                                               *)
LEMMA ErasedType == ErasedSlot \in SlotContents
BY ValuesAssumption DEF ErasedSlot, SlotContents, ErasedByte, Cell

(* What is left of a slot after an erase, complete or not, is a slot.      *)
LEMMA TornEraseType ==
  ASSUME NEW r \in SlotContents
  PROVE  TornErase(r) \subseteq SlotContents
BY DEF TornErase, SlotContents, ErasedByte

(* The same for a header write.                                            *)
LEMMA HeaderType ==
  ASSUME NEW r \in SlotContents, NEW h \in Header
  PROVE  /\ WithHeader(r, h) \in SlotContents
         /\ TornHeader(r, h) \subseteq SlotContents
<1>1. /\ Program(r.state, MCONF_STORAGE_STATE_UNCOMMITTED) \in SUBSET (0 .. 7)
      /\ ProgramArea(r.hdr, Blank, h, Blank) \in Header \cup {Blank}
  BY DEF Program, ProgramArea, MCONF_STORAGE_STATE_UNCOMMITTED, SlotContents
<1>2. WithHeader(r, h) \in SlotContents
  BY <1>1 DEF WithHeader, SlotContents
<1>3. [r EXCEPT !.state = WithHeader(r, h).state] \in SlotContents
  BY <1>2 DEF SlotContents
<1>4. [r EXCEPT !.hdr = IF r.hdr = Blank THEN h
                        ELSE [@ EXCEPT !.schema_fingerprint = h.schema_fingerprint]]
        \in SlotContents
  <2>1. CASE r.hdr = Blank
    BY <2>1 DEF SlotContents
  <2>2. CASE r.hdr # Blank
    <3>1. r.hdr \in Header
      BY <2>2 DEF SlotContents
    <3>2. [r.hdr EXCEPT !.schema_fingerprint = h.schema_fingerprint] \in Header
      BY <3>1 DEF Header
    <3> QED
      BY <2>2, <3>2 DEF SlotContents
  <2> QED
    BY <2>1, <2>2
<1> QED
  BY <1>2, <1>3, <1>4 DEF TornHeader

(* The same for the write of one payload cell.                             *)
LEMMA PayloadType ==
  ASSUME NEW r \in SlotContents, NEW f \in Fields, NEW c \in Cell
  PROVE  /\ WithCell(r, f, c) \in SlotContents
         /\ TornPayload(r, f) \subseteq SlotContents
BY DEF WithCell, TornPayload, ProgramArea, SlotContents, Cell

(* The same for the commit write.                                          *)
LEMMA CommitType ==
  ASSUME NEW r \in SlotContents
  PROVE  /\ [r EXCEPT !.state = Program(@, MCONF_STORAGE_STATE_COMMITTED)]
              \in SlotContents
         /\ TornCommit(r) \subseteq SlotContents
<1>1. Program(r.state, MCONF_STORAGE_STATE_COMMITTED) \in SUBSET (0 .. 7)
  BY DEF Program, MCONF_STORAGE_STATE_COMMITTED, SlotContents
<1> QED
  BY <1>1 DEF TornCommit, SlotContents, ErasedByte

-----------------------------------------------------------------------------
(* Type correctness.                                                       *)

(* The header mconf_save encodes is a header.                              *)
LEMMA EncodeHeaderType == TypeOK => mconf_encode_header \in Header
BY DEF TypeOK, mconf_encode_header, Header

(* Leaving a call gives the locals their idle values.                      *)
LEMMA ReturnType ==
  ASSUME TypeOK, NEW err \in Errors, Return(err),
         slot' \in [Slots -> SlotContents], data' \in Config
  PROVE  TypeOK'
BY SizesAssumption, ValuesAssumption
   DEF TypeOK, Return, ResetLocals, NoProbe, Errors, Labels, Slots, Gen, GenMod, Fields

(* A storage write keeps the types when the contents it can leave are      *)
(* slot contents.                                                          *)
LEMMA StorageWriteType ==
  ASSUME TypeOK, NEW full \in SlotContents, NEW torn \in SUBSET SlotContents,
         NEW label \in Labels, NEW i \in Fields,
         StorageWrite(full, torn, label, i)
  PROVE  TypeOK'
<1>1. CASE /\ \E r \in {full} \cup torn : slot' = [slot EXCEPT ![cur] = r]
           /\ Goto(label) /\ index' = i
           /\ UNCHANGED <<data, probe, cur, fallback, next_generation, payload_crc>>
  BY <1>1 DEF TypeOK, Goto
<1>2. CASE /\ \E r \in torn : slot' = [slot EXCEPT ![cur] = r]
           /\ Return("IO") /\ UNCHANGED data
  <2>1. slot' \in [Slots -> SlotContents] /\ data' \in Config
    BY <1>2 DEF TypeOK
  <2> QED
    BY <1>2, <2>1, ReturnType DEF Errors
<1> QED
  BY <1>1, <1>2 DEF StorageWrite

(* mconf_load's result is an error code.                                   *)
LEMMA LoadErrorType == LoadError \in Errors
BY DEF LoadError, Errors

(* A refused slot leaves everything well typed.                            *)
LEMMA SlotRefusedType ==
  ASSUME TypeOK, NEW err \in Errors, NEW d \in Config,
         SlotRefused(err, d), UNCHANGED slot
  PROVE  TypeOK'
<1>1. CASE op = "save" /\ data' = d /\ Return(err)
  BY <1>1, ReturnType DEF TypeOK
<1>2. CASE /\ op = "load" /\ fallback # NoSlot
           /\ data' = d
           /\ cur' = fallback /\ fallback' = NoSlot /\ index' = 1
           /\ Goto("reprobe") /\ UNCHANGED <<probe, next_generation, payload_crc>>
  BY <1>2, SizesAssumption DEF TypeOK, Goto, Labels, Fields
<1>3. CASE op = "load" /\ fallback = NoSlot /\ data' = Default /\ Return(LoadError)
  BY <1>3, ReturnType, LoadErrorType, ValuesAssumption DEF TypeOK
<1> QED
  BY <1>1, <1>2, <1>3 DEF SlotRefused

(* What power loss can leave in the slot being written is a slot.          *)
LEMMA TornOutcomesType == TypeOK => TornOutcomes \subseteq SlotContents
<1> SUFFICES ASSUME TypeOK PROVE TornOutcomes \subseteq SlotContents
  OBVIOUS
<1>1. slot[cur] \in SlotContents /\ index \in Fields
  BY DEF TypeOK
<1>2. mconf_encode_header \in Header
  BY EncodeHeaderType
<1>3. TornErase(slot[cur]) \subseteq SlotContents
  BY <1>1, TornEraseType
<1>4. TornHeader(slot[cur], mconf_encode_header) \subseteq SlotContents
  BY <1>1, <1>2, HeaderType
<1>5. TornPayload(slot[cur], index) \subseteq SlotContents
  BY <1>1, PayloadType, ValuesAssumption DEF Cell
<1>6. TornCommit(slot[cur]) \subseteq SlotContents
  BY <1>1, CommitType
<1> QED
  BY <1>1, <1>3, <1>4, <1>5, <1>6 DEF TornOutcomes

(* A slot whose probe succeeded still has a header when the call decides:  *)
(* next_generation is read from it.  TypeOK is inductive only with this.   *)
ProbedHaveHeader ==
  /\ pc \in {"probe1", "select"} /\ ProbedOK(0) => slot[0].hdr # Blank
  /\ pc = "select" /\ ProbedOK(1) => slot[1].hdr # Blank

TypeInv == TypeOK /\ ProbedHaveHeader

(* The generation mconf_save gives the new record is a generation.         *)
LEMMA SelectTargetType ==
  ASSUME TypeInv, SelectTarget
  PROVE  /\ TargetSlot \in Slots /\ 1 - TargetSlot \in Slots
         /\ next_generation' \in Gen
<1>1. TargetSlot \in Slots /\ 1 - TargetSlot \in Slots
  BY DEF TargetSlot, Slots
<1>2. CASE ProbedOK(1 - TargetSlot)
  <2>1. slot[1 - TargetSlot].hdr \in Header
    BY <1>1, <1>2 DEF TypeInv, TypeOK, SlotContents, Slots, ProbedHaveHeader, SelectTarget
  <2>2. SlotGen(1 - TargetSlot) \in Gen
    BY <2>1 DEF SlotGen, Header
  <2> QED
    BY <1>1, <1>2, <2>2, NextIsNewer DEF SelectTarget
<1>3. CASE ~ ProbedOK(1 - TargetSlot)
  BY <1>1, <1>3, SizesAssumption DEF SelectTarget, Gen, GenMod
<1> QED
  BY <1>1, <1>2, <1>3

(* Every step keeps every variable in its type.                            *)
LEMMA TypeStep == TypeInv /\ [Next]_vars => TypeOK'
<1> SUFFICES ASSUME TypeInv, [Next]_vars PROVE TypeOK'
  OBVIOUS
<1>a. TypeOK /\ slot[cur] \in SlotContents /\ index \in Fields
  BY DEF TypeInv, TypeOK
<1>1. ASSUME NEW f \in Fields, NEW v \in Val, EditField(f, v) PROVE TypeOK'
  BY <1>a, <1>1 DEF EditField, TypeOK, Config, locals
<1>2. CASE mconf_load_defaults
  BY <1>a, <1>2, ValuesAssumption DEF mconf_load_defaults, TypeOK, locals, Errors
<1>3. CASE mconf_save
  <2>1. Encoded(data) \in Config
    BY <1>a, EncodedType DEF TypeOK
  <2> QED
    BY <1>a, <1>3, <2>1 DEF mconf_save, TypeOK, Errors, Labels
<1>4. CASE mconf_load
  BY <1>a, <1>4 DEF mconf_load, TypeOK, locals, Labels
<1>5. ASSUME NEW s \in Slots, ProbeSlot(s) PROVE TypeOK'
  <2>1. mconf_probe_slot_header(s, TRUE) \in Errors
    BY ProbeType
  <2>2. probe' \in [Slots -> Errors]
    BY <1>a, <1>5, <2>1 DEF ProbeSlot, TypeOK, Errors
  <2> QED
    BY <1>a, <1>5, <2>2 DEF ProbeSlot, Goto, TypeOK, Labels
<1>6. CASE SelectTarget
  BY <1>a, <1>6, SelectTargetType DEF SelectTarget, Goto, TypeOK, Labels
<1>7. CASE EraseSlot
  <2>1. TornErase(slot[cur]) \in SUBSET SlotContents
    BY <1>a, TornEraseType
  <2> QED
    BY <1>a, <1>7, <2>1, ErasedType, StorageWriteType DEF EraseSlot, Labels
<1>8. CASE WriteHeader
  <2>1. /\ WithHeader(slot[cur], mconf_encode_header) \in SlotContents
        /\ TornHeader(slot[cur], mconf_encode_header) \in SUBSET SlotContents
    BY <1>a, EncodeHeaderType, HeaderType
  <2>2. 1 \in Fields /\ "payload" \in Labels
    BY SizesAssumption DEF Fields, Labels
  <2> QED
    BY <1>a, <1>8, <2>1, <2>2, StorageWriteType DEF WriteHeader
<1>9. CASE WriteField
  <2>1. Encoded(data)[index] \in Cell
    BY <1>a, EncodedType DEF TypeOK, Config, Cell
  <2>2. /\ WithCell(slot[cur], index, Encoded(data)[index]) \in SlotContents
        /\ TornPayload(slot[cur], index) \in SUBSET SlotContents
    BY <1>a, <2>1, PayloadType
  <2>3. /\ (IF index = NFields THEN 1 ELSE index + 1) \in Fields
        /\ (IF index = NFields THEN "readback" ELSE "payload") \in Labels
    BY <1>a, SizesAssumption DEF Fields, Labels
  <2> QED
    BY <1>a, <1>9, <2>2, <2>3, StorageWriteType DEF WriteField
<1>10. CASE VerifyHeader
  <2>1. CASE Goto("reprobe") /\ UNCHANGED <<locals, slot, data>>
    BY <1>a, <2>1 DEF Goto, locals, TypeOK, Labels
  <2>2. CASE Return("IO") /\ UNCHANGED <<slot, data>>
    BY <1>a, <2>2, ReturnType DEF TypeOK, Errors
  <2> QED
    BY <1>10, <2>1, <2>2 DEF VerifyHeader
<1>11. CASE CommitRecord
  <2>1. /\ [slot[cur] EXCEPT !.state = Program(@, MCONF_STORAGE_STATE_COMMITTED)]
             \in SlotContents
        /\ TornCommit(slot[cur]) \subseteq SlotContents
    BY <1>a, CommitType
  <2>2. slot' \in [Slots -> SlotContents] /\ data' \in Config
    BY <1>a, <1>11, <2>1 DEF CommitRecord, TypeOK
  <2> QED
    BY <1>a, <1>11, <2>2, ReturnType DEF CommitRecord, Errors
<1>12. CASE SelectSource
  <2>1. CASE data' = Default /\ Return(LoadError) /\ UNCHANGED slot
    BY <1>a, <2>1, ReturnType, LoadErrorType, ValuesAssumption DEF TypeOK
  <2>2. CASE ~ (data' = Default /\ Return(LoadError))
    BY <1>a, <1>12, <2>2 DEF SelectSource, Goto, TypeOK, Labels, Slots
  <2> QED
    BY <1>12, <2>1, <2>2 DEF SelectSource
<1>13. CASE ReadHeader
  <2>1. mconf_probe_slot_header(cur, op = "load") \in Errors
    BY <1>a, ProbeType DEF TypeOK
  <2>2. data \in Config /\ "IO" \in Errors
    BY <1>a DEF TypeOK, Errors
  <2>3. CASE /\ data' = [f \in Fields |-> Zero] /\ index' = 1
             /\ Goto("field")
             /\ UNCHANGED <<slot, probe, cur, fallback, next_generation, payload_crc>>
    BY <1>a, <2>3, SizesAssumption, ValuesAssumption DEF Goto, TypeOK, Labels, Fields, Config
  <2>4. CASE \E err \in Errors : SlotRefused(err, data) /\ UNCHANGED slot
    BY <1>a, <2>2, <2>4, SlotRefusedType
  <2> QED
    BY <1>13, <2>1, <2>2, <2>3, <2>4 DEF ReadHeader
<1>14. CASE ReadField
  <2> DEFINE c == slot[cur].payload[index]
  <2>1. c \in Cell
    BY <1>a DEF SlotContents
  <2>2. CASE /\ c # Garbage
             /\ data' = [data EXCEPT ![index] = c]
             /\ Goto(IF index = NFields THEN "check" ELSE "field")
             /\ index' = IF index = NFields THEN 1 ELSE index + 1
             /\ UNCHANGED <<slot, probe, cur, fallback, next_generation, payload_crc>>
    <3>1. data' \in Config /\ index' \in Fields
      BY <1>a, <2>1, <2>2, SizesAssumption DEF TypeOK, Config, Cell, Fields
    <3> QED
      BY <1>a, <2>2, <3>1 DEF Goto, TypeOK, Labels
  <2>3. CASE \E err \in Errors, d \in Config : SlotRefused(err, d) /\ UNCHANGED slot
    BY <1>a, <2>3, SlotRefusedType
  <2>4. data \in Config /\ \A v \in Val : [data EXCEPT ![index] = v] \in Config
    BY <1>a DEF TypeOK, Config
  <2> QED
    BY <1>14, <2>2, <2>3, <2>4 DEF ReadField, Errors
<1>15. CASE CheckPayload
  <2>1. CASE \E err \in Errors : SlotRefused(err, data) /\ UNCHANGED slot
    BY <1>a, <2>1, SlotRefusedType DEF TypeOK
  <2>2. CASE Return("OK") /\ UNCHANGED <<slot, data>>
    BY <1>a, <2>2, ReturnType DEF TypeOK, Errors
  <2>3. CASE Goto("commit") /\ UNCHANGED <<slot, data, locals>>
    BY <1>a, <2>3 DEF Goto, TypeOK, Labels, locals
  <2> QED
    BY <1>15, <2>1, <2>2, <2>3 DEF CheckPayload, Errors
<1>16. ASSUME NEW q \in Schemas, PowerCycle(q) PROVE TypeOK'
  <2>1. slot' \in [Slots -> SlotContents]
    BY <1>a, <1>16, TornOutcomesType DEF PowerCycle, TypeOK
  <2> QED
    BY <1>a, <1>16, <2>1, SizesAssumption, ValuesAssumption
    DEF PowerCycle, ResetLocals, NoProbe, TypeOK, Labels, Errors, Slots, Fields,
        Config, Gen, GenMod
<1>17. ASSUME NEW s \in Slots, NEW f \in Fields, NEW c \in Cell, PayloadRot(s, f, c)
       PROVE  TypeOK'
  <2>1. slot[s] \in SlotContents
    BY <1>a DEF TypeOK
  <2>2. [slot[s] EXCEPT !.payload[f] = c] \in SlotContents
    BY <2>1 DEF SlotContents
  <2>3. slot' \in [Slots -> SlotContents]
    BY <1>a, <1>17, <2>2 DEF PayloadRot, TypeOK
  <2> QED
    BY <1>a, <1>17, <2>3 DEF PayloadRot, TypeOK, locals
<1>18. CASE UNCHANGED vars
  BY <1>a, <1>18 DEF vars, locals, TypeOK
<1> QED
  BY <1>1, <1>2, <1>3, <1>4, <1>5, <1>6, <1>7, <1>8, <1>9, <1>10, <1>11, <1>12,
     <1>13, <1>14, <1>15, <1>16, <1>17, <1>18 DEF Next, LibraryStep

(* A step of the library other than a probe leaves "probe1" and "select".  *)
LEMMA OtherStepsLeaveProbing ==
  ASSUME TypeOK, [Next]_vars, pc' \in {"probe1", "select"}
  PROVE  \/ \E s \in Slots : ProbeSlot(s)
         \/ UNCHANGED <<slot, schema, pc, op, probe>>
BY DEF Next, LibraryStep, vars, locals, EditField, mconf_load_defaults, mconf_save,
       mconf_load, SelectTarget, EraseSlot, WriteHeader, WriteField, VerifyHeader,
       CommitRecord, SelectSource, ReadHeader, ReadField, CheckPayload, SlotRefused,
       PowerCycle, PayloadRot, StorageWrite, Goto, Return

(* A probe that succeeds has seen a header.                                *)
LEMMA ProbeSeesHeader ==
  ASSUME NEW s \in Slots, mconf_probe_slot_header(s, TRUE) = "OK"
  PROVE  slot[s].hdr # Blank
BY DEF mconf_probe_slot_header

(* Probed slots keep their headers until the call has decided.             *)
LEMMA ProbedStep == TypeInv /\ [Next]_vars => ProbedHaveHeader'
<1> SUFFICES ASSUME TypeInv, [Next]_vars PROVE ProbedHaveHeader'
  OBVIOUS
<1>1. CASE pc' \notin {"probe1", "select"}
  BY <1>1 DEF ProbedHaveHeader
<1>2. ASSUME NEW s \in Slots, ProbeSlot(s) PROVE ProbedHaveHeader'
  <2>1. probe'[s] = "OK" => slot[s].hdr # Blank
    BY <1>2, ProbeSeesHeader DEF ProbeSlot, TypeInv, TypeOK
  <2>2. /\ slot' = slot
        /\ \A t \in Slots : t # s => probe'[t] = probe[t]
        /\ pc' = (IF s = 0 THEN "probe1" ELSE "select")
        /\ pc = (IF s = 0 THEN "probe0" ELSE "probe1")
    BY <1>2 DEF ProbeSlot, TypeInv, TypeOK, Goto
  <2> QED
    BY <1>2, <2>1, <2>2 DEF ProbedHaveHeader, ProbedOK, TypeInv, Slots
<1>3. CASE UNCHANGED <<slot, schema, pc, op, probe>>
  BY <1>3 DEF ProbedHaveHeader, ProbedOK, TypeInv
<1> QED
  BY <1>1, <1>2, <1>3, OtherStepsLeaveProbing DEF TypeInv

(* The variables of the library keep their types under every fault class,  *)
(* whatever is lost, torn or read wrongly (mconf_load and mconf_save).     *)
THEOREM TypeCorrect == Spec => []TypeOK
<1>1. Init => TypeInv
  BY SizesAssumption, ValuesAssumption, ErasedType
  DEF Init, TypeInv, TypeOK, ProbedHaveHeader, NoProbe, Errors, Labels, Slots, Fields,
      Config, Gen, GenMod
<1>2. TypeInv /\ [Next]_vars => TypeInv'
  BY TypeStep, ProbedStep DEF TypeInv
<1>3. TypeInv => TypeOK
  BY DEF TypeInv
<1> QED
  BY <1>1, <1>2, <1>3, PTL DEF Spec

-----------------------------------------------------------------------------
(* What the storage steps do to the records on the medium.                 *)

SlotInv == NoStrayCommit /\ DamagedIsOld /\ Consecutive

(* Writing r into the target neither creates a committed record nor, with  *)
(* more than one schema in use, damages one.                               *)
Harmless(r) ==
  /\ r.hdr = Blank => r.state # MCONF_STORAGE_STATE_COMMITTED
  /\ (r.hdr # Blank /\ r.state = MCONF_STORAGE_STATE_COMMITTED) =>
       /\ HoldsRecord(cur) /\ r.hdr = slot[cur].hdr
       /\ OneSchema \/ r.payload = slot[cur].payload

(* The three state bytes the code writes or erases to are different.       *)
LEMMA StatesDiffer ==
  /\ MCONF_STORAGE_STATE_UNCOMMITTED # MCONF_STORAGE_STATE_COMMITTED
  /\ ErasedByte # MCONF_STORAGE_STATE_COMMITTED
  /\ \A old : Program(old, MCONF_STORAGE_STATE_UNCOMMITTED)
                # MCONF_STORAGE_STATE_COMMITTED
  /\ \A old : 0 \notin old => Program(old, MCONF_STORAGE_STATE_COMMITTED)
                 \in {old \cap MCONF_STORAGE_STATE_COMMITTED,
                      MCONF_STORAGE_STATE_COMMITTED}
<1>1. /\ 0 \in MCONF_STORAGE_STATE_COMMITTED
      /\ 0 \notin MCONF_STORAGE_STATE_UNCOMMITTED
      /\ 1 \in ErasedByte /\ 1 \notin MCONF_STORAGE_STATE_COMMITTED
  BY DEF MCONF_STORAGE_STATE_COMMITTED, MCONF_STORAGE_STATE_UNCOMMITTED, ErasedByte
<1> QED
  BY <1>1 DEF Program

(* Committed, spelled out.                                                 *)
LEMMA CommittedIs ==
  ASSUME NEW s \in Slots
  PROVE  Committed(s) <=> /\ HoldsRecord(s)
                          /\ slot[s].hdr.schema_fingerprint = schema
BY DEF Committed, mconf_probe_slot_header, HoldsRecord

(* Headers have generations and fingerprints of their types.               *)
LEMMA RecordType ==
  ASSUME TypeOK, NEW s \in Slots, HoldsRecord(s)
  PROVE  /\ slot[s].hdr \in Header
         /\ SlotGen(s) \in Gen
         /\ OneSchema => slot[s].hdr.schema_fingerprint = schema
<1>1. slot[s].hdr \in Header
  BY DEF TypeOK, SlotContents, HoldsRecord
<1> QED
  BY <1>1 DEF Header, SlotGen, OneSchema, TypeOK

(* An erase, complete, cut short or lying about its effect, is harmless.   *)
LEMMA EraseHarmless ==
  ASSUME TypeOK, NoStrayCommit, TolerableFaults, NEW r \in TornErase(slot[cur])
  PROVE  Harmless(r)
<1>1. slot[cur] \in SlotContents /\ cur \in Slots
  BY DEF TypeOK
<1>2. slot[cur].hdr = Blank => slot[cur].state # MCONF_STORAGE_STATE_COMMITTED
  BY <1>1 DEF NoStrayCommit
<1>3. CASE r = slot[cur]
  BY <1>2, <1>3 DEF Harmless, HoldsRecord
<1>4. CASE r.hdr = Blank /\ r.state = ErasedByte
  BY <1>4, StatesDiffer DEF Harmless
<1>5. CASE "tear_any" \in Faults /\ r.hdr = slot[cur].hdr /\ r.state = slot[cur].state
  BY <1>2, <1>5 DEF Harmless, HoldsRecord, TolerableFaults
<1> QED
  BY <1>1, <1>3, <1>4, <1>5 DEF TornErase, SlotContents

(* So is a header write: it never leaves a committed state byte that was   *)
(* not there before.                                                       *)
LEMMA HeaderHarmless ==
  ASSUME TypeOK, NoStrayCommit, HoldsRecord(cur) => OneSchema,
         NEW r \in TornHeader(slot[cur], mconf_encode_header)
  PROVE  Harmless(r)
<1> DEFINE old == slot[cur]  h == mconf_encode_header
<1>1. old \in SlotContents /\ cur \in Slots /\ h \in Header
  BY EncodeHeaderType DEF TypeOK
<1>2. old.hdr = Blank => old.state # MCONF_STORAGE_STATE_COMMITTED
  BY <1>1 DEF NoStrayCommit
<1>3. CASE r = old
  BY <1>2, <1>3 DEF Harmless, HoldsRecord
<1>4. CASE r.state = WithHeader(old, h).state
  <2>1. WithHeader(old, h).state = Program(old.state, MCONF_STORAGE_STATE_UNCOMMITTED)
    BY <1>1 DEF WithHeader, SlotContents
  <2> QED
    BY <1>4, <2>1, StatesDiffer DEF Harmless
<1>5. CASE r = [old EXCEPT !.hdr = IF old.hdr = Blank THEN h
                  ELSE [@ EXCEPT !.schema_fingerprint = h.schema_fingerprint]]
  <2>1. r.state = old.state /\ r.payload = old.payload
    BY <1>1, <1>5 DEF SlotContents
  <2>2. CASE old.hdr = Blank
    <3>1. r.hdr # Blank
      BY <1>1, <1>5, <2>2, ValuesAssumption DEF SlotContents
    <3> QED
      BY <1>2, <2>1, <2>2, <3>1 DEF Harmless
  <2>3. CASE old.hdr # Blank /\ old.state = MCONF_STORAGE_STATE_COMMITTED
    <3>1. HoldsRecord(cur) /\ OneSchema
      BY <2>3 DEF HoldsRecord
    <3>2. old.hdr \in Header /\ old.hdr.schema_fingerprint = h.schema_fingerprint
      BY <1>1, <3>1, RecordType DEF mconf_encode_header
    <3>3. r.hdr = [old.hdr EXCEPT !.schema_fingerprint = h.schema_fingerprint]
      BY <1>1, <1>5, <2>3 DEF SlotContents
    <3>4. r.hdr = old.hdr
      BY <3>2, <3>3 DEF Header
    <3> QED
      BY <2>1, <2>3, <3>1, <3>4 DEF Harmless
  <2>4. CASE old.hdr # Blank /\ old.state # MCONF_STORAGE_STATE_COMMITTED
    BY <2>1, <2>4 DEF Harmless
  <2> QED
    BY <2>2, <2>3, <2>4
<1>6. [old EXCEPT !.state = WithHeader(old, h).state].state = WithHeader(old, h).state
  BY <1>1 DEF SlotContents
<1> QED
  BY <1>3, <1>4, <1>5, <1>6 DEF TornHeader

(* So is the write of a payload cell.                                      *)
LEMMA PayloadHarmless ==
  ASSUME TypeOK, NoStrayCommit, HoldsRecord(cur) => OneSchema,
         NEW r, r.hdr = slot[cur].hdr, r.state = slot[cur].state
  PROVE  Harmless(r)
BY DEF Harmless, HoldsRecord, NoStrayCommit, TypeOK

(* The commit write changes the state byte of a verified record to         *)
(* committed, or leaves a byte that reads as not committed.                *)
LEMMA CommitOutcomes ==
  ASSUME TypeOK, NoStrayCommit, Verified, pc = "commit", op = "save",
         NEW r \in TornCommit(slot[cur])
  PROVE  \/ Harmless(r)
         \/ r = [slot[cur] EXCEPT !.state = MCONF_STORAGE_STATE_COMMITTED]
<1>1. slot[cur] \in SlotContents /\ cur \in Slots
  BY DEF TypeOK
<1>2. slot[cur].state = MCONF_STORAGE_STATE_UNCOMMITTED
  BY DEF Verified
<1>3. CASE r.state # MCONF_STORAGE_STATE_COMMITTED
  BY <1>3 DEF Harmless
<1>4. CASE r.state = MCONF_STORAGE_STATE_COMMITTED
  BY <1>1, <1>2, <1>4, StatesDiffer DEF TornCommit, SlotContents
<1> QED
  BY <1>3, <1>4

HarmlessWrite ==
  Saving /\ \E r \in SlotContents : Harmless(r) /\ slot' = [slot EXCEPT ![cur] = r]

CommittingWrite ==
  /\ pc = "commit"
  /\ slot' = [slot EXCEPT ![cur].state = MCONF_STORAGE_STATE_COMMITTED]

(* Every step leaves the medium alone, writes something harmless into the  *)
(* target of the save in progress, or commits the verified record.         *)
LEMMA SlotStep ==
  ASSUME IInv, TolerableFaults, [Next]_vars
  PROVE  slot' = slot \/ HarmlessWrite \/ CommittingWrite
<1>a. /\ TypeOK /\ NoStrayCommit /\ Verified /\ TargetChosen
      /\ slot[cur] \in SlotContents /\ cur \in Slots /\ index \in Fields
      /\ slot \in [Slots -> SlotContents]
  BY DEF IInv, TypeOK
<1>b. pc \in {"erase", "header", "payload", "commit"} => Saving /\ op = "save"
  BY <1>a DEF Saving, Verified, TypeOK
<1>c. pc \in {"header", "payload"} => (HoldsRecord(cur) => OneSchema)
  BY <1>a, <1>b DEF TargetChosen
<1>1. ASSUME pc = "erase", NEW r \in TornErase(slot[cur])
      PROVE  r \in SlotContents /\ Harmless(r)
  BY <1>a, <1>1, EraseHarmless, TornEraseType
<1>2. ASSUME pc = "header", NEW r \in TornHeader(slot[cur], mconf_encode_header)
      PROVE  r \in SlotContents /\ Harmless(r)
  BY <1>a, <1>c, <1>2, HeaderHarmless, HeaderType, EncodeHeaderType
<1>3. ASSUME pc = "payload", NEW c \in Cell
      PROVE  LET r == [slot[cur] EXCEPT !.payload[index] = c]
             IN  r \in SlotContents /\ Harmless(r)
  <2> DEFINE r == [slot[cur] EXCEPT !.payload[index] = c]
  <2>1. r \in SlotContents /\ r.hdr = slot[cur].hdr /\ r.state = slot[cur].state
    BY <1>a DEF SlotContents
  <2>2. Harmless(r)
    BY <1>a, <1>c, <1>3, <2>1, PayloadHarmless
  <2> QED
    BY <2>1, <2>2
<1>4. ASSUME pc = "commit", NEW r \in TornCommit(slot[cur])
      PROVE  /\ r \in SlotContents
             /\ \/ Harmless(r)
                \/ r = [slot[cur] EXCEPT !.state = MCONF_STORAGE_STATE_COMMITTED]
  BY <1>a, <1>b, <1>4, CommitOutcomes, CommitType
<1>5. CASE EraseSlot
  <2>1. ErasedSlot \in SlotContents /\ Harmless(ErasedSlot)
    BY ErasedType, StatesDiffer DEF Harmless, ErasedSlot
  <2>2. \E r \in {ErasedSlot} \cup TornErase(slot[cur]) : slot' = [slot EXCEPT ![cur] = r]
    BY <1>5 DEF EraseSlot, StorageWrite
  <2> QED
    BY <1>b, <1>1, <1>5, <2>1, <2>2 DEF HarmlessWrite, EraseSlot
<1>6. CASE WriteHeader
  <2>1. \E r \in TornHeader(slot[cur], mconf_encode_header) :
           slot' = [slot EXCEPT ![cur] = r]
    BY <1>6 DEF WriteHeader, StorageWrite, TornHeader
  <2> QED
    BY <1>b, <1>2, <1>6, <2>1 DEF HarmlessWrite, WriteHeader
<1>7. CASE WriteField
  <2>1. Encoded(data)[index] \in Cell /\ Garbage \in Cell
    BY <1>a, EncodedType DEF TypeOK, Config, Cell
  <2>2. \E c \in Cell : slot' = [slot EXCEPT ![cur] = [slot[cur] EXCEPT !.payload[index] = c]]
    <3>1. \E c \in Cell : WithCell(slot[cur], index, Encoded(data)[index])
                             = [slot[cur] EXCEPT !.payload[index] = c]
      BY <2>1 DEF WithCell, ProgramArea
    <3> QED
      BY <1>7, <3>1 DEF WriteField, StorageWrite, TornPayload
  <2> QED
    BY <1>b, <1>3, <1>7, <2>2 DEF HarmlessWrite, WriteField
<1>8. CASE CommitRecord
  <2>1. \E r \in TornCommit(slot[cur]) : slot' = [slot EXCEPT ![cur] = r]
    BY <1>a, <1>8 DEF CommitRecord, TornCommit, SlotContents
  <2> QED
    BY <1>a, <1>b, <1>4, <1>8, <2>1 DEF HarmlessWrite, CommittingWrite, CommitRecord
<1>9. ASSUME NEW q \in Schemas, PowerCycle(q)
      PROVE  slot' = slot \/ HarmlessWrite \/ CommittingWrite
  <2>1. PICK r \in TornOutcomes : slot' = [slot EXCEPT ![cur] = r]
    BY <1>9 DEF PowerCycle
  <2>2. CASE pc \notin {"erase", "header", "payload", "commit"}
    BY <1>a, <2>1, <2>2 DEF TornOutcomes
  <2>3. CASE pc \in {"erase", "header"}
    BY <1>b, <1>1, <1>2, <2>1, <2>3 DEF TornOutcomes, HarmlessWrite
  <2>4. CASE pc = "payload"
    BY <1>b, <1>3, <2>1, <2>4 DEF TornOutcomes, TornPayload, HarmlessWrite
  <2>5. CASE pc = "commit"
    <3>1. r \in TornCommit(slot[cur])
      BY <2>1, <2>5 DEF TornOutcomes
    <3> QED
      BY <1>a, <1>b, <1>4, <2>1, <2>5, <3>1 DEF HarmlessWrite, CommittingWrite
  <2> QED
    BY <2>2, <2>3, <2>4, <2>5
<1> QED
  BY <1>5, <1>6, <1>7, <1>8, <1>9
  DEF Next, LibraryStep, vars, TolerableFaults, EditField, mconf_load_defaults,
      mconf_save, mconf_load, ProbeSlot, SelectTarget, VerifyHeader, SelectSource,
      ReadHeader, ReadField, CheckPayload, PayloadRot

(* A harmless write keeps the newest record whole and the order of the     *)
(* two slots, and the target never becomes the slot to recover from.       *)
LEMMA HarmlessKeepsSlots ==
  ASSUME IInv, HarmlessWrite, NEW c \in Slots, c = cur
  PROVE  /\ SlotInv'
         /\ slot'[1 - c] = slot[1 - c]
         /\ HoldsRecord(c)' => HoldsRecord(c) /\ slot'[c].hdr = slot[c].hdr
<1>a. /\ TypeOK /\ SlotInv /\ TargetChosen /\ Saving
      /\ slot \in [Slots -> SlotContents] /\ 1 - c \in Slots /\ 1 - c # c
      /\ 1 - (1 - c) = c
      /\ \A s \in Slots : s = c \/ s = 1 - c
  BY DEF IInv, TypeOK, SlotInv, HarmlessWrite, Slots
<1>b. PICK r \in SlotContents : Harmless(r) /\ slot' = [slot EXCEPT ![c] = r]
  BY DEF HarmlessWrite
<1>1. slot'[1 - c] = slot[1 - c] /\ slot'[c] = r
  BY <1>a, <1>b
<1>2. HoldsRecord(c)' => /\ HoldsRecord(c) /\ slot'[c].hdr = slot[c].hdr
                         /\ OneSchema \/ slot'[c].payload = slot[c].payload
  BY <1>b, <1>1 DEF HoldsRecord, Harmless
<1>3. HoldsRecord(1 - c)' <=> HoldsRecord(1 - c)
  BY <1>1 DEF HoldsRecord
<1>4. Intact(1 - c)' <=> Intact(1 - c)
  BY <1>1 DEF Intact, mconf_validate_data
<1>5. NoStrayCommit'
  BY <1>a, <1>b, <1>1 DEF SlotInv, NoStrayCommit, Harmless
<1>6. DamagedIsOld'
  <2>1. HoldsRecord(1 - c)' => Intact(1 - c)'
    BY <1>a, <1>3, <1>4 DEF TargetChosen
  <2>2. ASSUME HoldsRecord(c)', OneSchema
        PROVE  /\ HoldsRecord(1 - c)'
               /\ mconf_generation_is_newer(SlotGen(1 - c), SlotGen(c))'
    <3>1. HoldsRecord(c) /\ Committed(c)
      BY <1>a, <1>2, <2>2, RecordType, CommittedIs
    <3>2. /\ HoldsRecord(1 - c)
          /\ mconf_generation_is_newer(SlotGen(1 - c), SlotGen(c))
      BY <1>a, <3>1, CommittedIs DEF TargetChosen
    <3> QED
      BY <1>1, <1>2, <1>3, <2>2, <3>2 DEF SlotGen, mconf_generation_is_newer
  <2>3. ASSUME HoldsRecord(c)', ~ OneSchema PROVE Intact(c)'
    <3>1. Intact(c)
      BY <1>a, <1>2, <2>3 DEF SlotInv, DamagedIsOld
    <3> QED
      BY <1>2, <2>3, <3>1 DEF Intact, mconf_validate_data
  <2> QED
    BY <1>a, <2>1, <2>2, <2>3 DEF DamagedIsOld
<1>7. Consecutive'
  <2>1. ASSUME HoldsRecord(c)', HoldsRecord(1 - c)', SameSchema' PROVE
          \E s \in Slots : SlotGen(s)' = NextGeneration(SlotGen(1 - s)')
    <3>1. HoldsRecord(0) /\ HoldsRecord(1) /\ SameSchema
      BY <1>a, <1>1, <1>2, <1>3, <2>1 DEF SameSchema, Slots
    <3>2. PICK s \in Slots : SlotGen(s) = NextGeneration(SlotGen(1 - s))
      BY <1>a, <3>1 DEF SlotInv, Consecutive
    <3>3. \A t \in Slots : SlotGen(t)' = SlotGen(t)
      BY <1>a, <1>1, <1>2, <2>1 DEF SlotGen
    <3> QED
      BY <1>a, <3>2, <3>3
  <2> QED
    BY <1>a, <2>1 DEF Consecutive, Slots
<1> QED
  BY <1>1, <1>2, <1>5, <1>6, <1>7 DEF SlotInv

(* The commit write makes the verified record the newest one.              *)
LEMMA CommitKeepsSlots ==
  ASSUME IInv, CommittingWrite, NEW c \in Slots, c = cur
  PROVE  /\ SlotInv'
         /\ slot'[1 - c] = slot[1 - c]
         /\ HoldsRecord(c)' /\ Intact(c)'
         /\ slot'[c].hdr = mconf_encode_header /\ slot'[c].payload = payload_crc
<1>a. /\ TypeOK /\ SlotInv /\ TargetChosen /\ Saving /\ Verified /\ op = "save"
      /\ slot \in [Slots -> SlotContents] /\ 1 - c \in Slots /\ 1 - c # c
      /\ 1 - (1 - c) = c /\ slot[c] \in SlotContents
      /\ \A s \in Slots : s = c \/ s = 1 - c
  BY DEF IInv, TypeOK, SlotInv, CommittingWrite, Slots, Saving, Verified
<1>b. /\ slot[c].hdr = mconf_encode_header /\ slot[c].payload = payload_crc
      /\ mconf_validate_data(payload_crc) /\ mconf_encode_header \in Header
  BY <1>a, EncodeHeaderType DEF Verified, CommittingWrite
<1>1. /\ slot'[1 - c] = slot[1 - c]
      /\ slot'[c] = [slot[c] EXCEPT !.state = MCONF_STORAGE_STATE_COMMITTED]
  BY <1>a DEF CommittingWrite
<1>2. /\ slot'[c].hdr = mconf_encode_header /\ slot'[c].payload = payload_crc
      /\ slot'[c].state = MCONF_STORAGE_STATE_COMMITTED
  BY <1>a, <1>b, <1>1 DEF SlotContents
<1>3. HoldsRecord(c)' /\ slot'[c].hdr # Blank
  BY <1>b, <1>2, ValuesAssumption DEF HoldsRecord
<1>4. Intact(c)'
  BY <1>b, <1>2 DEF Intact, mconf_validate_data, mconf_encode_header
<1>5. /\ HoldsRecord(1 - c)' <=> HoldsRecord(1 - c)
      /\ Intact(1 - c)' <=> Intact(1 - c)
  BY <1>1 DEF HoldsRecord, Intact, mconf_validate_data
<1>6. NoStrayCommit'
  BY <1>a, <1>1, <1>3 DEF SlotInv, NoStrayCommit
<1>7. DamagedIsOld'
  BY <1>a, <1>4, <1>5 DEF TargetChosen, DamagedIsOld
<1>8. Consecutive'
  <2>1. ASSUME HoldsRecord(1 - c)', SameSchema'
        PROVE  SlotGen(c)' = NextGeneration(SlotGen(1 - c)')
    <3>0. slot'[c].hdr.schema_fingerprint = slot'[1 - c].hdr.schema_fingerprint
      BY <2>1 DEF SameSchema, Slots
    <3>1. slot[1 - c].hdr.schema_fingerprint = schema
      BY <1>1, <1>2, <3>0 DEF mconf_encode_header
    <3>2. next_generation = NextGeneration(SlotGen(1 - c))
      BY <1>a, <1>5, <2>1, <3>1, CommittedIs DEF TargetChosen
    <3> QED
      BY <1>1, <1>2, <3>2 DEF SlotGen, mconf_encode_header
  <2> QED
    BY <1>a, <2>1 DEF Consecutive, Slots
<1> QED
  BY <1>1, <1>2, <1>3, <1>4, <1>6, <1>7, <1>8 DEF SlotInv

-----------------------------------------------------------------------------
(* The inductive invariant.                                                *)

(* A target selected from truthful probes is the older slot or holds       *)
(* nothing of the running schema.                                          *)
LEMMA SelectTargetChosen ==
  ASSUME IInv, SelectTarget
  PROVE  TargetChosen'
<1> DEFINE c == TargetSlot
<1>a. /\ TypeOK /\ DamagedIsOld /\ Consecutive
      /\ c \in Slots /\ 1 - c \in Slots /\ 1 - (1 - c) = c
      /\ slot' = slot /\ schema' = schema /\ cur' = c
      /\ pc' = "erase" /\ op = "save" /\ op' = "save"
  BY DEF IInv, TargetSlot, Slots, SelectTarget, Goto
<1>b. \A s \in Slots : ProbedOK(s) <=> Committed(s)
  BY DEF IInv, ProbesCurrent, SelectTarget, Slots
<1>1. Committed(c) => Committed(1 - c)
  BY <1>b DEF TargetSlot, Slots
<1>2. ASSUME HoldsRecord(c), HoldsRecord(1 - c), Committed(c)
      PROVE  mconf_generation_is_newer(SlotGen(1 - c), SlotGen(c))
  <2>1. Committed(0) /\ Committed(1) /\ HoldsRecord(0) /\ HoldsRecord(1)
    BY <1>a, <1>1, <1>2 DEF Slots
  <2>2. SameSchema
    BY <2>1, CommittedIs DEF SameSchema, Slots
  <2>3. PICK s \in Slots : SlotGen(s) = NextGeneration(SlotGen(1 - s))
    BY <1>a, <2>1, <2>2 DEF Consecutive
  <2>4. 1 - s \in Slots /\ SlotGen(1 - s) \in Gen
    BY <1>a, <2>1, RecordType DEF Slots
  <2>5. /\ mconf_generation_is_newer(SlotGen(s), SlotGen(1 - s))
        /\ ~ mconf_generation_is_newer(SlotGen(1 - s), SlotGen(s))
    BY <2>3, <2>4, NextIsNewer
  <2>6. 1 - c = s
    BY <1>b, <2>1, <2>5 DEF TargetSlot, Slot1Newer, Slots
  <2> QED
    BY <1>a, <2>5, <2>6
<1>3. HoldsRecord(1 - c) => Intact(1 - c)
  <2>1. SUFFICES ASSUME HoldsRecord(1 - c), ~ Intact(1 - c) PROVE FALSE
    OBVIOUS
  <2>2. /\ OneSchema /\ HoldsRecord(c)
        /\ mconf_generation_is_newer(SlotGen(c), SlotGen(1 - c))
    BY <1>a, <2>1 DEF DamagedIsOld
  <2>3. Committed(c)
    BY <1>a, <2>2, RecordType, CommittedIs
  <2>4. mconf_generation_is_newer(SlotGen(1 - c), SlotGen(c))
    BY <1>2, <2>1, <2>2, <2>3
  <2>5. SlotGen(c) \in Gen /\ SlotGen(1 - c) \in Gen
    BY <1>a, <2>1, <2>2, RecordType
  <2> QED
    BY <2>2, <2>4, <2>5, NewerIsAsymmetric
<1>4. Committed(1 - c) => next_generation' = NextGeneration(SlotGen(1 - c))
  BY <1>a, <1>b DEF SelectTarget
<1>5. ASSUME NEW s \in Slots
      PROVE  /\ Committed(s)' <=> Committed(s)
             /\ HoldsRecord(s)' <=> HoldsRecord(s)
             /\ Intact(s)' <=> Intact(s)
             /\ SlotGen(s)' = SlotGen(s)
  BY <1>a DEF Committed, mconf_probe_slot_header, HoldsRecord, Intact, SlotGen,
              mconf_validate_data
<1>6. Committed(c) => mconf_generation_is_newer(SlotGen(1 - c), SlotGen(c))
  BY <1>a, <1>1, <1>2, CommittedIs
<1> QED
  BY <1>a, <1>1, <1>3, <1>4, <1>5, <1>6 DEF TargetChosen

(* Once chosen, the target, the generation and the checksum stay as they   *)
(* are until the call returns.                                             *)
LEMMA SavingStep ==
  ASSUME TypeOK, Verified, [Next]_vars, Saving', ~ SelectTarget
  PROVE  /\ Saving /\ op = "save" /\ op' = "save"
         /\ UNCHANGED <<schema, cur, next_generation, payload_crc>>
         /\ \/ EraseSlot
            \/ pc # "erase"
            \/ UNCHANGED <<slot, pc>>
         /\ slot' # slot => pc \in {"erase", "header", "payload"}
BY DEF Saving, Verified, TypeOK, Next, LibraryStep, vars, locals, EditField,
       mconf_load_defaults, mconf_save, mconf_load, ProbeSlot, EraseSlot, WriteHeader,
       WriteField, VerifyHeader, CommitRecord, SelectSource, ReadHeader, ReadField,
       CheckPayload, SlotRefused, PowerCycle, PayloadRot, StorageWrite, Goto, Return

(* The target stays expendable while mconf_save works on it.               *)
LEMMA TargetStep ==
  ASSUME IInv, TolerableFaults, [Next]_vars
  PROVE  TargetChosen'
<1>1. CASE ~ Saving'
  BY <1>1 DEF TargetChosen
<1>2. CASE SelectTarget
  BY <1>2, SelectTargetChosen
<1>3. CASE Saving' /\ ~ SelectTarget
  <2>c. PICK c \in Slots : c = cur
    BY DEF IInv, TypeOK
  <2>a. /\ TypeOK /\ Verified /\ TargetChosen
        /\ c = cur /\ c \in Slots /\ 1 - c \in Slots /\ 1 - c # c
    BY <2>c DEF IInv, Slots
  <2>b. /\ Saving /\ cur' = c /\ schema' = schema
        /\ next_generation' = next_generation
        /\ EraseSlot \/ pc # "erase" \/ UNCHANGED <<slot, pc>>
        /\ slot' # slot => pc \in {"erase", "header", "payload"}
    BY <1>3, <2>a, SavingStep DEF IInv
  <2>1. /\ slot'[1 - c] = slot[1 - c]
        /\ HoldsRecord(c)' => HoldsRecord(c) /\ slot'[c].hdr = slot[c].hdr
    <3>1. CASE slot' = slot
      BY <3>1 DEF HoldsRecord
    <3>2. CASE slot' # slot
      <4>1. HarmlessWrite
        BY <2>b, <3>2, SlotStep DEF CommittingWrite
      <4> QED
        BY <2>a, <4>1, HarmlessKeepsSlots
    <3> QED
      BY <3>1, <3>2
  <2>2. /\ HoldsRecord(1 - c)' <=> HoldsRecord(1 - c)
        /\ Intact(1 - c)' <=> Intact(1 - c)
        /\ SlotGen(1 - c)' = SlotGen(1 - c)
        /\ Committed(1 - c)' <=> Committed(1 - c)
    BY <2>a, <2>b, <2>1
    DEF HoldsRecord, Intact, mconf_validate_data, SlotGen, Committed,
        mconf_probe_slot_header
  <2>3. Committed(c)' => Committed(c) /\ SlotGen(c)' = SlotGen(c)
    <3>1. Committed(c)' => /\ HoldsRecord(c)'
                           /\ slot'[c].hdr.schema_fingerprint = schema'
      BY DEF Committed, mconf_probe_slot_header, HoldsRecord
    <3> QED
      BY <2>a, <2>b, <2>1, <3>1, CommittedIs DEF SlotGen
  <2>4. ASSUME pc' # "erase", HoldsRecord(c)' PROVE OneSchema
    <3>1. CASE pc # "erase"
      BY <2>a, <2>b, <2>1, <2>4, <3>1 DEF TargetChosen
    <3>2. CASE EraseSlot
      <4>1. slot' = [slot EXCEPT ![c] = ErasedSlot] \/ "silent" \in Faults
        BY <1>3, <2>a, <3>2 DEF EraseSlot, StorageWrite, Return, Saving
      <4>2. CASE slot' = [slot EXCEPT ![c] = ErasedSlot]
        <5>1. slot'[c] = ErasedSlot
          BY <2>a, <4>2 DEF TypeOK
        <5> QED
          BY <2>4, <5>1 DEF HoldsRecord, ErasedSlot
      <4>3. CASE "silent" \in Faults
        BY <4>3 DEF TolerableFaults
      <4> QED
        BY <4>1, <4>2, <4>3
    <3> QED
      BY <2>b, <2>4, <3>1, <3>2
  <2> QED
    BY <2>a, <2>b, <2>2, <2>3, <2>4 DEF TargetChosen
<1> QED
  BY <1>1, <1>2, <1>3

(* The probes of mconf_save stay truthful until it has decided.            *)
LEMMA ProbesStep ==
  ASSUME IInv, TolerableFaults, [Next]_vars
  PROVE  ProbesCurrent'
<1>a. TypeOK /\ ProbesCurrent
  BY DEF IInv
<1>1. CASE pc' \notin {"probe1", "select"}
  BY <1>1 DEF ProbesCurrent
<1>2. ASSUME NEW s \in Slots, ProbeSlot(s), op' = "save" PROVE ProbesCurrent'
  <2>1. /\ slot' = slot /\ schema' = schema /\ op = "save"
        /\ \A t \in Slots : t # s => probe'[t] = probe[t]
        /\ pc' = (IF s = 0 THEN "probe1" ELSE "select")
        /\ pc = (IF s = 0 THEN "probe0" ELSE "probe1")
    BY <1>a, <1>2 DEF ProbeSlot, TypeOK, Goto
  <2>2. probe'[s] = mconf_probe_slot_header(s, TRUE)
    BY <1>a, <1>2, <2>1 DEF ProbeSlot, TypeOK, ProbeFault, TolerableFaults
  <2>3. \A t \in Slots : Committed(t)' <=> Committed(t)
    BY <2>1 DEF Committed, mconf_probe_slot_header
  <2>4. ProbedOK(s)' <=> Committed(s)'
    BY <2>2, <2>3 DEF ProbedOK, Committed
  <2> QED
    BY <1>a, <2>1, <2>3, <2>4 DEF ProbesCurrent, ProbedOK, Slots
<1>3. CASE UNCHANGED <<slot, schema, pc, op, probe>>
  BY <1>a, <1>3 DEF ProbesCurrent, ProbedOK, Committed, mconf_probe_slot_header
<1>4. CASE op' # "save"
  BY <1>4 DEF ProbesCurrent
<1> QED
  BY <1>a, <1>1, <1>2, <1>3, <1>4, OtherStepsLeaveProbing

(* The verification of mconf_save compares what the slot really holds.     *)
LEMMA VerifiedStep ==
  ASSUME IInv, TolerableFaults, [Next]_vars, TypeOK'
  PROVE  Verified'
<1>a. /\ TypeOK /\ Verified /\ data \in Config /\ index \in Fields
      /\ cur \in Slots /\ slot[cur] \in SlotContents /\ payload_crc \in Config
  BY DEF IInv, TypeOK
<1>b. op' \in {"load", "save"}
  BY DEF TypeOK
<1>1. op' = "save" /\ pc' # "idle" => mconf_validate_data(payload_crc')
  <2>1. CASE mconf_save
    BY <1>a, <2>1, EncodedType DEF mconf_save
  <2>2. CASE ~ mconf_save
    <3>1. op' = "save" /\ pc' # "idle" =>
            op = "save" /\ pc # "idle" /\ payload_crc' = payload_crc
      BY <1>a, <2>2
      DEF Next, LibraryStep, vars, locals, EditField, mconf_load_defaults, mconf_load,
          ProbeSlot, SelectTarget, EraseSlot, WriteHeader, WriteField, VerifyHeader,
          CommitRecord, SelectSource, ReadHeader, ReadField, CheckPayload,
          SlotRefused, PowerCycle, PayloadRot, StorageWrite, Goto, Return
    <3> QED
      BY <1>a, <3>1 DEF Verified
  <2> QED
    BY <2>1, <2>2
<1>2. op' = "load" => ~ Saving'
  BY <1>a
  DEF Verified, Saving, TypeOK, Next, LibraryStep, vars, locals, EditField,
      mconf_load_defaults, mconf_save, mconf_load,
      ProbeSlot, SelectTarget, EraseSlot, WriteHeader, WriteField, VerifyHeader,
      CommitRecord, SelectSource, ReadHeader, ReadField, CheckPayload,
      SlotRefused, PowerCycle, PayloadRot, StorageWrite, Goto, Return
<1>3. ASSUME op' = "save", pc' \in {"reprobe", "field", "check", "commit"}
      PROVE  /\ UNCHANGED <<slot, schema, cur, next_generation, payload_crc>>
             /\ op = "save"
             /\ \/ VerifyHeader /\ pc' = "reprobe"
                \/ ReadHeader /\ pc' = "field" /\ index' = 1
                \/ ReadField /\ data' = [data EXCEPT ![index] = slot[cur].payload[index]]
                   /\ IF index = NFields THEN pc' = "check"
                      ELSE pc' = "field" /\ index' = index + 1
                \/ /\ CheckPayload /\ pc' = "commit" /\ UNCHANGED data
                   /\ data = slot[cur].hdr.payload_crc32
                \/ UNCHANGED <<pc, data, index>>
  BY <1>a, <1>3
  DEF Verified, Saving, TypeOK, Next, LibraryStep, vars, locals, EditField,
      mconf_load_defaults, mconf_save, mconf_load,
      ProbeSlot, SelectTarget, EraseSlot, WriteHeader, WriteField, VerifyHeader,
      CommitRecord, SelectSource, ReadHeader, ReadField, CheckPayload,
      SlotRefused, PowerCycle, PayloadRot, StorageWrite, Goto, Return
<1>4. ASSUME op' = "save", pc' \in {"reprobe", "field", "check", "commit"}
      PROVE  /\ slot'[cur'].hdr = mconf_encode_header'
             /\ slot'[cur'].state = MCONF_STORAGE_STATE_UNCOMMITTED
  <2>1. mconf_encode_header' = mconf_encode_header
    BY <1>3, <1>4 DEF mconf_encode_header
  <2>2. CASE VerifyHeader /\ pc' = "reprobe"
    BY <1>3, <1>4, <2>1, <2>2 DEF VerifyHeader, Return
  <2>3. CASE op = "save" /\ pc \in {"reprobe", "field", "check", "commit"}
    BY <1>a, <1>3, <1>4, <2>1, <2>3 DEF Verified
  <2> QED
    BY <1>3, <1>4, <2>2, <2>3 DEF ReadHeader, ReadField, CheckPayload
<1>5. ASSUME op' = "save", pc' = "field"
      PROVE  \A f \in Fields : f < index' => data'[f] = slot'[cur'].payload[f]
  <2>1. CASE ReadHeader /\ index' = 1
    BY <2>1, SizesAssumption DEF Fields
  <2>2. CASE /\ ReadField /\ data' = [data EXCEPT ![index] = slot[cur].payload[index]]
             /\ index' = index + 1
    <3>1. \A f \in Fields : f < index => data[f] = slot[cur].payload[f]
      BY <1>a, <1>3, <1>5, <2>2 DEF Verified, ReadField
    <3>2. \A f \in Fields : f < index + 1 => f < index \/ f = index
      BY <1>a DEF Fields
    <3> QED
      BY <1>a, <1>3, <1>5, <2>2, <3>1, <3>2 DEF Config
  <2>3. CASE UNCHANGED <<pc, data, index>>
    BY <1>a, <1>3, <1>5, <2>3 DEF Verified
  <2> QED
    BY <1>3, <1>5, <2>1, <2>2, <2>3
<1>6. ASSUME op' = "save", pc' = "check" PROVE data' = slot'[cur'].payload
  <2>1. CASE /\ ReadField /\ data' = [data EXCEPT ![index] = slot[cur].payload[index]]
             /\ index = NFields
    <3>1. \A f \in Fields : f < index => data[f] = slot[cur].payload[f]
      BY <1>a, <1>3, <1>6, <2>1 DEF Verified, ReadField
    <3>2. \A f \in Fields : f < index \/ f = index
      BY <1>a, <2>1, SizesAssumption DEF Fields
    <3>3. \A f \in Fields : data'[f] = slot[cur].payload[f]
      BY <1>a, <2>1, <3>1, <3>2 DEF Config
    <3>4. DOMAIN data' = Fields /\ DOMAIN slot[cur].payload = Fields
      BY <1>a, <2>1 DEF Config, SlotContents
    <3>5. data' \in [Fields -> Cell] /\ slot[cur].payload \in [Fields -> Cell]
      BY <1>a, <2>1 DEF Config, SlotContents, Cell
    <3> QED
      BY <1>3, <1>6, <3>3, <3>5
  <2>2. CASE UNCHANGED <<pc, data, index>>
    BY <1>a, <1>3, <1>6, <2>2 DEF Verified
  <2> QED
    BY <1>3, <1>6, <2>1, <2>2
<1>7. ASSUME pc' = "commit" PROVE slot'[cur'].payload = payload_crc'
  <2>1. op' = "save"
    BY <1>2, <1>7, <1>b DEF Saving
  <2>2. CASE CheckPayload /\ data = slot[cur].hdr.payload_crc32
    BY <1>a, <1>3, <1>7, <2>1, <2>2 DEF Verified, CheckPayload, mconf_encode_header
  <2>3. CASE UNCHANGED <<pc, data, index>>
    BY <1>a, <1>3, <1>7, <2>1, <2>3 DEF Verified
  <2> QED
    BY <1>3, <1>7, <2>1, <2>2, <2>3
<1> QED
  BY <1>1, <1>2, <1>4, <1>5, <1>6, <1>7 DEF Verified

(* When no record can be damaged at rest and mconf_save's probes are       *)
(* truthful, the inductive invariant holds at every step, through every    *)
(* power loss, failing callback and partial write.                         *)
THEOREM InductiveInvariant == TolerableFaults => (Spec => []IInv)
<1> SUFFICES ASSUME TolerableFaults PROVE Spec => []IInv
  OBVIOUS
<1>1. Init => IInv
  <2> SUFFICES ASSUME Init PROVE IInv
    OBVIOUS
  <2>1. TypeOK
    BY SizesAssumption, ValuesAssumption, ErasedType
    DEF Init, TypeOK, NoProbe, Errors, Labels, Slots, Fields, Config, Gen, GenMod
  <2>2. \A s \in Slots : slot[s].hdr = Blank /\ slot[s].state = ErasedByte
    BY DEF Init, ErasedSlot
  <2> QED
    BY <2>1, <2>2, StatesDiffer
    DEF Init, IInv, NoStrayCommit, DamagedIsOld, Consecutive, HoldsRecord, Slots,
        ProbesCurrent, TargetChosen, Verified, Saving
<1>2. IInv /\ TypeOK' /\ [Next]_vars => IInv'
  <2> SUFFICES ASSUME IInv, TypeOK', [Next]_vars PROVE IInv'
    OBVIOUS
  <2>1. PICK c \in Slots : c = cur
    BY DEF IInv, TypeOK
  <2>2. SlotInv'
    <3>1. CASE slot' = slot
      BY <3>1
      DEF IInv, SlotInv, NoStrayCommit, DamagedIsOld, Consecutive, HoldsRecord, Intact,
          SameSchema, SlotGen, mconf_validate_data
    <3>2. CASE HarmlessWrite
      BY <2>1, <3>2, HarmlessKeepsSlots
    <3>3. CASE CommittingWrite
      BY <2>1, <3>3, CommitKeepsSlots
    <3> QED
      BY <3>1, <3>2, <3>3, SlotStep
  <2> QED
    BY <2>2, TargetStep, ProbesStep, VerifiedStep DEF IInv, SlotInv
<1> QED
  BY <1>1, <1>2, TypeCorrect, PTL DEF Spec

-----------------------------------------------------------------------------
(* The safety properties.                                                  *)

(* With two committed records of one schema on the medium, the newer one   *)
(* is always determined, across the wrap of the generation counter.        *)
THEOREM OrderKept == TolerableFaults => (Spec => []SlotsOrdered)
<1>1. IInv => SlotsOrdered
  <2> SUFFICES ASSUME IInv, HoldsRecord(0), HoldsRecord(1), SameSchema
               PROVE  mconf_generation_is_newer(SlotGen(0), SlotGen(1))
                        # mconf_generation_is_newer(SlotGen(1), SlotGen(0))
    BY DEF SlotsOrdered
  <2>1. PICK s \in Slots : SlotGen(s) = NextGeneration(SlotGen(1 - s))
    BY DEF IInv, Consecutive
  <2>2. SlotGen(1 - s) \in Gen
    BY RecordType DEF IInv, Slots
  <2>3. /\ mconf_generation_is_newer(SlotGen(s), SlotGen(1 - s))
        /\ ~ mconf_generation_is_newer(SlotGen(1 - s), SlotGen(s))
    BY <2>1, <2>2, NextIsNewer
  <2>4. CASE s = 0
    BY <2>3, <2>4
  <2>5. CASE s = 1
    BY <2>3, <2>5
  <2> QED
    BY <2>4, <2>5 DEF Slots
<1> QED
  BY <1>1, InductiveInvariant, PTL

(* When slot c holds nothing newer than the other slot and the other slot  *)
(* is whole, a mconf_load recovers what the other slot holds.              *)
OtherIsDurable ==
  \A c \in Slots :
    (/\ TypeOK
     /\ Committed(1 - c) => Intact(1 - c)
     /\ Committed(c) => /\ Committed(1 - c)
                        /\ mconf_generation_is_newer(SlotGen(1 - c), SlotGen(c)))
    => Durable = IF Committed(1 - c) THEN {slot[1 - c].payload} ELSE {}

(* It is so in every state.                                                *)
LEMMA DurableIsOther == OtherIsDurable
<1> SUFFICES ASSUME NEW c \in Slots, TypeOK,
                    Committed(1 - c) => Intact(1 - c),
                    Committed(c) => /\ Committed(1 - c)
                                    /\ mconf_generation_is_newer(SlotGen(1 - c), SlotGen(c))
             PROVE  Durable = IF Committed(1 - c) THEN {slot[1 - c].payload} ELSE {}
  BY DEF OtherIsDurable
<1>1. CASE ~ Committed(1 - c)
  BY <1>1 DEF Durable, FirstChoice, Slots
<1>2. CASE Committed(1 - c)
  <2>1. FirstChoice = 1 - c
    <3>1. CASE ~ Committed(c)
      BY <1>2, <3>1 DEF FirstChoice, Slots
    <3>2. CASE Committed(c)
      <4>1. SlotGen(c) \in Gen /\ SlotGen(1 - c) \in Gen
        BY <1>2, <3>2, RecordType, CommittedIs DEF Slots
      <4>2. ~ mconf_generation_is_newer(SlotGen(c), SlotGen(1 - c))
        BY <3>2, <4>1, NewerIsAsymmetric
      <4> QED
        BY <1>2, <3>2, <4>2 DEF FirstChoice, Slot1Newer, Slots
    <3> QED
      BY <3>1, <3>2
  <2> QED
    BY <1>2, <2>1 DEF Durable
<1> QED
  BY <1>1, <1>2

(* And so in the state after a step.                                       *)
LEMMA DurableIsOtherNext == OtherIsDurable'
BY DurableIsOther, PTL

(* During a save, what can be recovered is the record in the other slot.   *)
LEMMA DurableWhileSaving ==
  ASSUME IInv, Saving
  PROVE  Durable = IF Committed(1 - cur) THEN {slot[1 - cur].payload} ELSE {}
<1>1. TypeOK /\ TargetChosen /\ cur \in Slots /\ 1 - cur \in Slots
  BY DEF IInv, TypeOK, Slots
<1>2. Committed(1 - cur) => Intact(1 - cur)
  BY <1>1, CommittedIs DEF TargetChosen
<1> QED
  BY <1>1, <1>2, DurableIsOther DEF TargetChosen, OtherIsDurable

(* mconf_save never works on the slot the recoverable record is in.        *)
THEOREM TargetExpendable == TolerableFaults => (Spec => []TargetIsExpendable)
<1>1. IInv => TargetIsExpendable
  <2> SUFFICES ASSUME IInv, op = "save", Durable # {},
                      pc \notin {"idle", "probe0", "probe1", "select"}
               PROVE  /\ Committed(1 - cur) /\ Intact(1 - cur)
                      /\ slot[1 - cur].payload \in Durable
    BY DEF TargetIsExpendable
  <2>1. Saving
    BY DEF IInv, TypeOK, Labels, Saving
  <2>2. Committed(1 - cur) /\ Durable = {slot[1 - cur].payload}
    BY <2>1, DurableWhileSaving
  <2>3. 1 - cur \in Slots
    BY DEF IInv, TypeOK, Slots
  <2> QED
    BY <2>1, <2>2, <2>3, CommittedIs DEF IInv, TargetChosen
<1> QED
  BY <1>1, InductiveInvariant, PTL

(* A commit makes the saved configuration the one to recover.              *)
LEMMA CommitIsDurable ==
  ASSUME IInv, IInv', CommittingWrite, schema' = schema
  PROVE  Durable' = {payload_crc}
<1>1. PICK c \in Slots : c = cur
  BY DEF IInv, TypeOK
<1>2. /\ slot'[1 - c] = slot[1 - c] /\ HoldsRecord(c)' /\ Intact(c)'
      /\ slot'[c].hdr = mconf_encode_header /\ slot'[c].payload = payload_crc
  BY <1>1, CommitKeepsSlots
<1>3. 1 - c \in Slots /\ 1 - (1 - c) = c /\ TypeOK' /\ TypeOK /\ TargetChosen /\ Saving
  BY DEF IInv, Slots, Saving, CommittingWrite
<1>4. Committed(c)'
  BY <1>2 DEF Committed, mconf_probe_slot_header, HoldsRecord, mconf_encode_header
<1>5. ASSUME Committed(1 - c)'
      PROVE  mconf_generation_is_newer(SlotGen(c), SlotGen(1 - c))'
  <2>1. Committed(1 - c)
    BY <1>2, <1>5 DEF Committed, mconf_probe_slot_header
  <2>2. next_generation = NextGeneration(SlotGen(1 - c)) /\ SlotGen(1 - c) \in Gen
    BY <1>1, <1>3, <2>1, CommittedIs, RecordType DEF TargetChosen
  <2>3. SlotGen(c)' = next_generation /\ SlotGen(1 - c)' = SlotGen(1 - c)
    BY <1>2 DEF SlotGen, mconf_encode_header
  <2> QED
    BY <2>2, <2>3, NextIsNewer
<1> QED
  BY <1>2, <1>3, <1>4, <1>5, DurableIsOtherNext DEF OtherIsDurable

(* Nothing but the commit write changes what a later mconf_load recovers.  *)
LEMMA DurableStep ==
  ASSUME IInv, IInv', TolerableFaults, [Next]_vars, schema' = schema
  PROVE  \/ Durable' = Durable
         \/ CommittingWrite /\ Durable' = {payload_crc}
<1>1. CASE slot' = slot
  BY <1>1
  DEF Durable, FirstChoice, Committed, Intact, Slot1Newer, SlotGen,
      mconf_probe_slot_header, mconf_validate_data
<1>2. CASE HarmlessWrite
  <2>1. PICK c \in Slots : c = cur
    BY DEF IInv, TypeOK
  <2>2. /\ slot'[1 - c] = slot[1 - c]
        /\ HoldsRecord(c)' => HoldsRecord(c) /\ slot'[c].hdr = slot[c].hdr
    BY <1>2, <2>1, HarmlessKeepsSlots
  <2>3. 1 - c \in Slots /\ TypeOK' /\ TypeOK /\ TargetChosen /\ Saving
    BY <1>2 DEF IInv, Slots, HarmlessWrite
  <2>4. /\ Committed(1 - c)' <=> Committed(1 - c)
        /\ Intact(1 - c)' <=> Intact(1 - c)
        /\ SlotGen(1 - c)' = SlotGen(1 - c)
    BY <2>2 DEF Committed, mconf_probe_slot_header, Intact, mconf_validate_data, SlotGen
  <2>5. Committed(c)' => Committed(c) /\ SlotGen(c)' = SlotGen(c)
    <3>1. Committed(c)' => /\ HoldsRecord(c)'
                           /\ slot'[c].hdr.schema_fingerprint = schema'
      BY DEF Committed, mconf_probe_slot_header, HoldsRecord
    <3> QED
      BY <2>2, <3>1, CommittedIs DEF SlotGen
  <2>6. Committed(1 - c) => Intact(1 - c)
    BY <2>1, <2>3, CommittedIs DEF TargetChosen
  <2>7. Durable' = IF Committed(1 - c)' THEN {slot'[1 - c].payload} ELSE {}
    <3>1. Committed(1 - c)' => Intact(1 - c)'
      BY <2>4, <2>6
    <3>2. Committed(c)' => /\ Committed(1 - c)'
                           /\ mconf_generation_is_newer(SlotGen(1 - c), SlotGen(c))'
      BY <2>1, <2>3, <2>4, <2>5 DEF TargetChosen
    <3> QED
      BY <2>3, <3>1, <3>2, DurableIsOtherNext DEF OtherIsDurable
  <2>8. Durable = IF Committed(1 - c) THEN {slot[1 - c].payload} ELSE {}
    BY <2>1, <2>3, DurableWhileSaving
  <2> QED
    BY <2>2, <2>4, <2>7, <2>8
<1>3. CASE CommittingWrite
  BY <1>3, CommitIsDurable
<1> QED
  BY <1>1, <1>2, <1>3, SlotStep

(* No power loss and no failing or partial callback changes what is        *)
(* recovered; the commit of mconf_save changes it to the saved data.       *)
THEOREM OnlyCommitChangesDurable ==
  TolerableFaults => (Spec => DurableChangesOnlyByCommit)
<1> SUFFICES ASSUME TolerableFaults PROVE Spec => DurableChangesOnlyByCommit
  OBVIOUS
<1>1. IInv /\ IInv' /\ [Next]_vars =>
        [schema' = schema => \/ Durable' = Durable
                             \/ pc = "commit" /\ Durable' = {payload_crc}]_vars
  BY DurableStep DEF CommittingWrite
<1> QED
  BY <1>1, InductiveInvariant, PTL DEF Spec, DurableChangesOnlyByCommit

(* Hence a call, and power loss during it, never leaves the medium without *)
(* a record when there was one.                                            *)
THEOREM SomeRecordSurvives == TolerableFaults => (Spec => NeverLosesAll)
<1> SUFFICES ASSUME TolerableFaults PROVE Spec => NeverLosesAll
  OBVIOUS
<1>1. IInv /\ IInv' /\ [Next]_vars =>
        [(pc # "idle" /\ schema' = schema /\ Durable # {}) => Durable' # {}]_vars
  BY DurableStep
<1> QED
  BY <1>1, InductiveInvariant, PTL DEF Spec, NeverLosesAll

(* ret is set by the step that returns.                                    *)
LEMMA PendingStep ==
  (pc # "idle" => ret = "none") /\ [Next]_vars => (pc' # "idle" => ret' = "none")
BY DEF Next, LibraryStep, vars, locals, EditField, mconf_load_defaults, mconf_save,
       mconf_load, ProbeSlot, SelectTarget, EraseSlot, WriteHeader, WriteField,
       VerifyHeader, CommitRecord, SelectSource, ReadHeader, ReadField, CheckPayload,
       SlotRefused, PowerCycle, PayloadRot, StorageWrite, Goto, Return

(* On a medium that overwrites bytes, mconf_save returns MCONF_OK only     *)
(* when a later mconf_load recovers exactly what was saved.                *)
THEOREM SavedRecordIsDurable ==
  TolerableFaults /\ Medium = "overwrite" => (Spec => SavedIsDurable)
<1> SUFFICES ASSUME TolerableFaults, Medium = "overwrite" PROVE Spec => SavedIsDurable
  OBVIOUS
<1> DEFINE Pending == pc # "idle" => ret = "none"
<1>1. Init => Pending
  BY DEF Init
<1>2. Pending /\ [Next]_vars => Pending'
  BY PendingStep
<1>3. IInv /\ IInv' /\ Pending /\ [Next]_vars =>
        [(op = "save" /\ pc # "idle" /\ ret' = "OK") => Durable' = {payload_crc}]_vars
  <2> SUFFICES ASSUME IInv, IInv', Pending, Next, op = "save", pc # "idle", ret' = "OK"
               PROVE  Durable' = {payload_crc}
    OBVIOUS
  <2>1. CommitRecord /\ ret' = "OK"
    BY DEF Next, LibraryStep, EditField, mconf_load_defaults, mconf_save, mconf_load,
           ProbeSlot, SelectTarget, EraseSlot, WriteHeader, WriteField, VerifyHeader,
           SelectSource, ReadHeader, ReadField, CheckPayload, SlotRefused, PowerCycle,
           PayloadRot, StorageWrite, Goto, Return
  <2>2. CommittingWrite /\ schema' = schema
    BY <2>1 DEF CommitRecord, Return, CommittingWrite, Program
  <2> QED
    BY <2>2, CommitIsDurable
<1> QED
  BY <1>1, <1>2, <1>3, InductiveInvariant, PTL DEF Spec, SavedIsDurable

-----------------------------------------------------------------------------
(* mconf_load, under every fault class.                                    *)

(* While mconf_load decodes slot cur, the slot holds a committed record    *)
(* and the entries decoded so far are that record's.                       *)
LoadInv ==
  op = "load" =>
    /\ pc \notin {"erase", "header", "payload", "readback", "commit"}
    /\ pc \in {"field", "check"} => Committed(cur)
    /\ pc = "field" => \A f \in Fields : f < index => data[f] = slot[cur].payload[f]
    /\ pc = "check" => data = slot[cur].payload

(* How a step of mconf_load comes to stand at "field" or "check".          *)
LEMMA LoadingStep ==
  ASSUME TypeOK, LoadInv, [Next]_vars, op' = "load", pc' \in {"field", "check"}
  PROVE  /\ UNCHANGED <<slot, schema, cur>> /\ op = "load"
         /\ \/ /\ ReadHeader /\ pc' = "field" /\ index' = 1
               /\ mconf_probe_slot_header(cur, op = "load") = "OK"
            \/ /\ ReadField
               /\ data' = [data EXCEPT ![index] = slot[cur].payload[index]]
               /\ IF index = NFields THEN pc' = "check"
                  ELSE pc' = "field" /\ index' = index + 1
            \/ UNCHANGED <<pc, data, index>>
BY DEF LoadInv, TypeOK, Next, LibraryStep, vars, locals, EditField,
       mconf_load_defaults, mconf_save, mconf_load, ProbeSlot, SelectTarget,
       EraseSlot, WriteHeader, WriteField, VerifyHeader, CommitRecord, SelectSource,
       ReadHeader, ReadField, CheckPayload, SlotRefused, PowerCycle, PayloadRot,
       StorageWrite, Goto, Return

(* Decoding keeps the correspondence of buffer and slot.                   *)
LEMMA LoadStep == TypeOK /\ LoadInv /\ [Next]_vars => LoadInv'
<1> SUFFICES ASSUME TypeOK, LoadInv, [Next]_vars, op' = "load" PROVE LoadInv'
  BY DEF LoadInv
<1>a. /\ data \in Config /\ index \in Fields /\ slot[cur] \in SlotContents
      /\ cur \in Slots
  BY DEF TypeOK
<1>1. pc' \notin {"erase", "header", "payload", "readback", "commit"}
  BY DEF LoadInv, TypeOK, Next, LibraryStep, vars, locals, EditField,
         mconf_load_defaults, mconf_save, mconf_load, ProbeSlot, SelectTarget,
         EraseSlot, WriteHeader, WriteField, VerifyHeader, CommitRecord, SelectSource,
         ReadHeader, ReadField, CheckPayload, SlotRefused, PowerCycle, PayloadRot,
         StorageWrite, Goto, Return
<1>2. ASSUME pc' \in {"field", "check"} PROVE Committed(cur)'
  <2>1. Committed(cur) /\ UNCHANGED <<slot, schema, cur>>
    BY <1>2, LoadingStep DEF LoadInv, Committed, ReadField
  <2> QED
    BY <2>1 DEF Committed, mconf_probe_slot_header
<1>3. ASSUME pc' = "field"
      PROVE  \A f \in Fields : f < index' => data'[f] = slot'[cur'].payload[f]
  <2>1. CASE ReadHeader /\ index' = 1
    BY <2>1, SizesAssumption DEF Fields
  <2>2. CASE /\ ReadField /\ data' = [data EXCEPT ![index] = slot[cur].payload[index]]
             /\ index' = index + 1
    <3>1. \A f \in Fields : f < index => data[f] = slot[cur].payload[f]
      BY <1>3, <2>2, LoadingStep DEF LoadInv, ReadField
    <3>2. \A f \in Fields : f < index + 1 => f < index \/ f = index
      BY <1>a DEF Fields
    <3> QED
      BY <1>a, <1>3, <2>2, <3>1, <3>2, LoadingStep DEF Config
  <2>3. CASE UNCHANGED <<pc, data, index>>
    BY <1>3, <2>3, LoadingStep DEF LoadInv
  <2> QED
    BY <1>3, <2>1, <2>2, <2>3, LoadingStep
<1>4. ASSUME pc' = "check" PROVE data' = slot'[cur'].payload
  <2>1. CASE /\ ReadField /\ data' = [data EXCEPT ![index] = slot[cur].payload[index]]
             /\ index = NFields
    <3>1. \A f \in Fields : f < index => data[f] = slot[cur].payload[f]
      BY <1>4, <2>1, LoadingStep DEF LoadInv, ReadField
    <3>2. \A f \in Fields : f < index \/ f = index
      BY <1>a, <2>1, SizesAssumption DEF Fields
    <3>3. \A f \in Fields : data'[f] = slot[cur].payload[f]
      BY <1>a, <2>1, <3>1, <3>2 DEF Config
    <3>4. data' \in [Fields -> Cell] /\ slot[cur].payload \in [Fields -> Cell]
      BY <1>a, <2>1 DEF Config, SlotContents, Cell
    <3> QED
      BY <1>4, <3>3, <3>4, LoadingStep
  <2>2. CASE UNCHANGED <<pc, data, index>>
    BY <1>4, <2>2, LoadingStep DEF LoadInv
  <2> QED
    BY <1>4, <2>1, <2>2, LoadingStep
<1> QED
  BY <1>1, <1>2, <1>3, <1>4 DEF LoadInv

(* It holds from the start.                                                *)
LEMMA LoadInvariant == Spec => []LoadInv
<1>1. Init => LoadInv
  BY DEF Init, LoadInv
<1> QED
  BY <1>1, LoadStep, TypeCorrect, PTL DEF Spec

(* The step by which mconf_load returns hands out a record or defaults.    *)
LEMMA WholeStep ==
  ASSUME TypeOK, LoadInv, Next, op = "load", pc # "idle", pc' = "idle", ret' # "none"
  PROVE  IF ret' = "OK"
         THEN \E s \in Slots : Committed(s) /\ Intact(s) /\ data' = slot[s].payload
         ELSE data' = Default
<1>1. \/ data' = Default /\ Return(LoadError)
      \/ /\ pc = "check" /\ data' = data /\ data = slot[cur].hdr.payload_crc32
         /\ mconf_validate_data(data) /\ Return("OK")
  BY DEF LoadInv, Next, LibraryStep, EditField,
         mconf_load_defaults, mconf_save, mconf_load, ProbeSlot, SelectTarget,
         EraseSlot, WriteHeader, WriteField, VerifyHeader, CommitRecord, SelectSource,
         ReadHeader, ReadField, CheckPayload, SlotRefused, PowerCycle, PayloadRot,
         Goto
<1>2. CASE data' = Default /\ Return(LoadError)
  BY <1>2 DEF Return, LoadError
<1>3. CASE /\ pc = "check" /\ data' = data /\ data = slot[cur].hdr.payload_crc32
           /\ mconf_validate_data(data) /\ Return("OK")
  <2>1. Committed(cur) /\ Intact(cur) /\ data' = slot[cur].payload /\ cur \in Slots
    BY <1>3 DEF LoadInv, Intact, TypeOK
  <2> QED
    BY <1>3, <2>1 DEF Return
<1> QED
  BY <1>1, <1>2, <1>3

(* Whatever fails and whatever the medium holds, mconf_load gives the      *)
(* whole payload of one committed record, or an error and the defaults.    *)
THEOREM LoadGivesWholeRecord == Spec => LoadIsWhole
<1>1. TypeOK /\ LoadInv /\ [Next]_vars =>
        [(op = "load" /\ pc # "idle" /\ pc' = "idle" /\ ret' # "none") =>
           IF ret' = "OK"
           THEN \E s \in Slots : Committed(s) /\ Intact(s) /\ data' = slot[s].payload
           ELSE data' = Default]_vars
  BY WholeStep
<1> QED
  BY <1>1, TypeCorrect, LoadInvariant, PTL DEF Spec, LoadIsWhole

-----------------------------------------------------------------------------
(* mconf_load, when the read callbacks work.                               *)

(* mconf_load decodes a record.                                            *)
Decoding == op = "load" /\ pc \in {"reprobe", "field", "check"}

(* The slot being decoded is the one mconf_load must try now: the first    *)
(* choice, with the other slot in reserve if there is one, or the reserve  *)
(* after the first choice was found damaged.                               *)
RightSlot(c, reserve) ==
  /\ Committed(c)
  /\ \/ /\ c = FirstChoice
        /\ reserve = IF Committed(1 - c) THEN 1 - c ELSE NoSlot
     \/ /\ c = 1 - FirstChoice /\ reserve = NoSlot
        /\ Committed(1 - c) /\ ~ Intact(1 - c)

(* What mconf_load learned from its probes still holds when it decides,    *)
(* and the slot it decodes is the right one.                               *)
ChoiceInv ==
  /\ op = "load" /\ pc \in {"probe1", "select"} => (ProbedOK(0) <=> Committed(0))
  /\ op = "load" /\ pc = "select" => (ProbedOK(1) <=> Committed(1))
  /\ Decoding => RightSlot(cur, fallback)

(* mconf_load refuses slot cur because of its contents.                    *)
Refuses ==
  \/ pc = "reprobe" /\ mconf_probe_slot_header(cur, op = "load") # "OK"
  \/ pc = "field" /\ slot[cur].payload[index] = Garbage
  \/ /\ pc = "check"
     /\ data # slot[cur].hdr.payload_crc32 \/ ~ mconf_validate_data(data)

(* A record mconf_load refuses without a read failure is damaged.          *)
LEMMA RefusedIsDamaged ==
  ASSUME TypeOK, LoadInv, Decoding, Committed(cur), Refuses
  PROVE  ~ Intact(cur)
<1>1. cur \in Slots /\ slot[cur] \in SlotContents /\ index \in Fields
  BY DEF TypeOK
<1>2. slot[cur].hdr.payload_crc32 \in Config
  BY <1>1, CommittedIs, RecordType DEF Header
<1>3. CASE pc = "field" /\ slot[cur].payload[index] = Garbage
  BY <1>1, <1>2, <1>3, ValuesAssumption DEF Intact, Config
<1>4. CASE /\ pc = "check"
           /\ data # slot[cur].hdr.payload_crc32 \/ ~ mconf_validate_data(data)
  BY <1>4 DEF LoadInv, Decoding, Intact
<1>5. CASE pc = "reprobe" /\ mconf_probe_slot_header(cur, op = "load") # "OK"
  BY <1>5 DEF Committed, Decoding
<1> QED
  BY <1>3, <1>4, <1>5 DEF Refuses

(* How mconf_load comes to stand at the decoding of a slot.                *)
LEMMA DecodingStep ==
  ASSUME TypeOK, LoadInv, "read" \notin Faults, [Next]_vars, Decoding'
  PROVE  /\ UNCHANGED <<slot, schema>> /\ op = "load"
         /\ \/ /\ pc = "select" /\ (ProbedOK(0) \/ ProbedOK(1))
               /\ cur' = IF ProbedOK(0) /\ (ProbedOK(1) => ~ Slot1Newer) THEN 0 ELSE 1
               /\ fallback' = IF ProbedOK(0) /\ ProbedOK(1) THEN 1 - cur' ELSE NoSlot
            \/ Decoding /\ UNCHANGED <<cur, fallback>>
            \/ /\ Decoding /\ Refuses /\ fallback # NoSlot
               /\ cur' = fallback /\ fallback' = NoSlot
BY DEF Decoding, Refuses, LoadInv, Next, LibraryStep, vars, locals, EditField,
       mconf_load_defaults, mconf_save, mconf_load, ProbeSlot, SelectTarget,
       EraseSlot, WriteHeader, WriteField, VerifyHeader, CommitRecord, SelectSource,
       ReadHeader, ReadField, CheckPayload, SlotRefused, PowerCycle, PayloadRot,
       StorageWrite, Goto, Return

(* Probing and decoding keep to what the slots hold.                       *)
LEMMA ChoiceStep ==
  TypeOK /\ LoadInv /\ ChoiceInv /\ "read" \notin Faults /\ [Next]_vars => ChoiceInv'
<1> SUFFICES ASSUME TypeOK, LoadInv, ChoiceInv, "read" \notin Faults, [Next]_vars
             PROVE  ChoiceInv'
  OBVIOUS
<1>1. ASSUME UNCHANGED <<slot, schema>>
      PROVE  /\ Committed(0)' <=> Committed(0)
             /\ Committed(1)' <=> Committed(1)
  BY <1>1 DEF Committed, mconf_probe_slot_header
<1>2. ASSUME op' = "load", pc' \in {"probe1", "select"}
      PROVE  /\ ProbedOK(0)' <=> Committed(0)'
             /\ pc' = "select" => (ProbedOK(1)' <=> Committed(1)')
  <2>1. ASSUME NEW s \in Slots, ProbeSlot(s)
        PROVE  /\ ProbedOK(0)' <=> Committed(0)'
               /\ pc' = "select" => (ProbedOK(1)' <=> Committed(1)')
    <3>1. /\ op = "load" /\ UNCHANGED <<slot, schema>>
          /\ probe' = [probe EXCEPT ![s] = mconf_probe_slot_header(s, TRUE)]
          /\ pc' = (IF s = 0 THEN "probe1" ELSE "select")
          /\ pc = (IF s = 0 THEN "probe0" ELSE "probe1")
      BY <1>2, <2>1 DEF ProbeSlot, ProbeFault, Goto
    <3> QED
      BY <1>1, <3>1 DEF ChoiceInv, ProbedOK, Committed, TypeOK, Slots
  <2>2. CASE UNCHANGED <<slot, schema, pc, op, probe>>
    BY <1>1, <1>2, <2>2 DEF ChoiceInv, ProbedOK, Slots
  <2> QED
    BY <1>2, <2>1, <2>2, OtherStepsLeaveProbing
<1>3. ASSUME Decoding' PROVE RightSlot(cur, fallback)'
  <2>1. UNCHANGED <<slot, schema>> /\ op = "load" /\ cur \in Slots /\ 1 - cur \in Slots
    BY <1>3, DecodingStep DEF TypeOK, Slots
  <2>0. RightSlot(cur, fallback)' <=> RightSlot(cur', fallback')
    BY <2>1 DEF RightSlot, FirstChoice, Committed, Intact, Slot1Newer, SlotGen,
                mconf_probe_slot_header, mconf_validate_data
  <2>2. CASE /\ pc = "select" /\ (ProbedOK(0) \/ ProbedOK(1))
             /\ cur' = IF ProbedOK(0) /\ (ProbedOK(1) => ~ Slot1Newer) THEN 0 ELSE 1
             /\ fallback' = IF ProbedOK(0) /\ ProbedOK(1) THEN 1 - cur' ELSE NoSlot
    <3>1. ProbedOK(0) <=> Committed(0)
      BY <2>1, <2>2 DEF ChoiceInv
    <3>2. ProbedOK(1) <=> Committed(1)
      BY <2>1, <2>2 DEF ChoiceInv
    <3>3. cur' = FirstChoice /\ cur' \in Slots /\ Committed(cur')
      BY <2>2, <3>1, <3>2 DEF FirstChoice, Slots
    <3>4. fallback' = IF Committed(1 - cur') THEN 1 - cur' ELSE NoSlot
      BY <2>2, <3>1, <3>2, <3>3 DEF Slots
    <3> QED
      BY <2>0, <3>3, <3>4 DEF RightSlot
  <2>3. CASE Decoding /\ UNCHANGED <<cur, fallback>>
    BY <2>0, <2>3 DEF ChoiceInv
  <2>4. CASE /\ Decoding /\ Refuses /\ fallback # NoSlot
             /\ cur' = fallback /\ fallback' = NoSlot
    <3>1. /\ ~ Intact(cur) /\ Committed(cur) /\ cur = FirstChoice
          /\ fallback = 1 - cur /\ Committed(1 - cur)
      BY <2>4, RefusedIsDamaged DEF ChoiceInv, RightSlot
    <3>2. 1 - (1 - cur) = cur
      BY <2>1 DEF Slots
    <3> QED
      BY <2>0, <2>4, <3>1, <3>2 DEF RightSlot
  <2> QED
    BY <1>3, <2>2, <2>3, <2>4, DecodingStep
<1> QED
  BY <1>2, <1>3 DEF ChoiceInv, Decoding

(* mconf_load returns because nothing is left to try, or with a record.    *)
LEMMA LoadReturns ==
  ASSUME LoadInv, "read" \notin Faults, Next, op = "load", pc # "idle", pc' = "idle",
         ret' # "none"
  PROVE  \/ pc = "select" /\ ~ ProbedOK(0) /\ ~ ProbedOK(1) /\ ret' = LoadError
         \/ Decoding /\ Refuses /\ fallback = NoSlot /\ ret' = LoadError
         \/ /\ pc = "check" /\ data' = data /\ data = slot[cur].hdr.payload_crc32
            /\ mconf_validate_data(data) /\ ret' = "OK"
BY DEF Decoding, Refuses, LoadInv, Next, LibraryStep, EditField,
       mconf_load_defaults, mconf_save, mconf_load, ProbeSlot, SelectTarget,
       EraseSlot, WriteHeader, WriteField, VerifyHeader, CommitRecord, SelectSource,
       ReadHeader, ReadField, CheckPayload, SlotRefused, PowerCycle, PayloadRot,
       Goto, Return

(* The step by which mconf_load returns hands out the newest record.       *)
LEMMA NewestStep ==
  ASSUME TypeOK, LoadInv, ChoiceInv, "read" \notin Faults, Next, op = "load",
         pc # "idle", pc' = "idle", ret' # "none"
  PROVE  IF ret' = "OK" THEN Durable = {data'} ELSE Durable = {}
<1>0. cur \in Slots /\ 1 - cur \in Slots /\ 1 - (1 - cur) = cur /\ FirstChoice \in Slots
      /\ LoadError # "OK"
  BY DEF TypeOK, Slots, FirstChoice, LoadError
<1>1. CASE pc = "select" /\ ~ ProbedOK(0) /\ ~ ProbedOK(1) /\ ret' = LoadError
  <2>1. ~ Committed(0) /\ ~ Committed(1)
    BY <1>1 DEF ChoiceInv
  <2> QED
    BY <1>0, <1>1, <2>1 DEF Durable, Slots
<1>2. CASE Decoding /\ Refuses /\ fallback = NoSlot /\ ret' = LoadError
  <2>1. RightSlot(cur, fallback)
    BY <1>2 DEF ChoiceInv
  <2>2. ~ Intact(cur)
    BY <1>2, <2>1, RefusedIsDamaged DEF RightSlot
  <2>3. CASE cur = FirstChoice /\ ~ Committed(1 - cur)
    BY <1>0, <1>2, <2>2, <2>3 DEF Durable, Slots
  <2>4. CASE cur = 1 - FirstChoice /\ ~ Intact(1 - cur)
    BY <1>0, <1>2, <2>2, <2>4 DEF Durable, Slots
  <2> QED
    BY <1>0, <1>2, <2>1, <2>3, <2>4, ValuesAssumption DEF RightSlot
<1>3. CASE /\ pc = "check" /\ data' = data /\ data = slot[cur].hdr.payload_crc32
           /\ mconf_validate_data(data) /\ ret' = "OK"
  <2>1. RightSlot(cur, fallback) /\ Intact(cur) /\ data' = slot[cur].payload
    BY <1>3 DEF ChoiceInv, Decoding, LoadInv, Intact
  <2>2. CASE cur = FirstChoice
    BY <1>3, <2>1, <2>2 DEF Durable, RightSlot
  <2>3. CASE cur = 1 - FirstChoice /\ Committed(1 - cur) /\ ~ Intact(1 - cur)
    <3>1. Committed(0) /\ Committed(1) /\ ~ Intact(FirstChoice) /\ 1 - FirstChoice = cur
      BY <1>0, <2>1, <2>3 DEF RightSlot, Slots
    <3> QED
      BY <1>3, <2>1, <3>1 DEF Durable
  <2> QED
    BY <2>1, <2>2, <2>3 DEF RightSlot
<1> QED
  BY <1>1, <1>2, <1>3, LoadReturns

(* Hence the probes and the choice of a slot are never out of date.        *)
LEMMA ChoiceInvariant == "read" \notin Faults => (Spec => []ChoiceInv)
<1> SUFFICES ASSUME "read" \notin Faults PROVE Spec => []ChoiceInv
  OBVIOUS
<1>1. Init => ChoiceInv
  BY DEF Init, ChoiceInv, Decoding
<1>2. TypeOK /\ LoadInv /\ ChoiceInv /\ [Next]_vars => ChoiceInv'
  BY ChoiceStep
<1> QED
  BY <1>1, <1>2, TypeCorrect, LoadInvariant, PTL DEF Spec

(* With reads that work, mconf_load returns MCONF_OK exactly when a record *)
(* can be recovered, and then with the newest one: whatever power loss,    *)
(* partial or failing writes and decay have left on the medium.            *)
THEOREM LoadGivesNewest == "read" \notin Faults => (Spec => LoadIsNewest)
<1> SUFFICES ASSUME "read" \notin Faults PROVE Spec => LoadIsNewest
  OBVIOUS
<1>1. TypeOK /\ LoadInv /\ ChoiceInv /\ [Next]_vars =>
        [(op = "load" /\ pc # "idle" /\ pc' = "idle" /\ ret' # "none") =>
           IF ret' = "OK" THEN Durable = {data'} ELSE Durable = {}]_vars
  BY NewestStep
<1> QED
  BY <1>1, TypeCorrect, LoadInvariant, ChoiceInvariant, PTL DEF Spec, LoadIsNewest

-----------------------------------------------------------------------------
(* mconf_save.                                                             *)

(* The reads of the verification work and a write or erase that reports    *)
(* success has happened; it may still fail, or be cut short by power loss. *)
HonestStorage == "read" \notin Faults /\ "silent" \notin Faults

(* The slot holds what has been written of the configuration, and the      *)
(* buffer the configuration or, during the verification, what has been     *)
(* read back of it.                                                        *)
BufferInv ==
  op = "save" /\ pc # "idle" =>
    /\ Encoded(payload_crc) = payload_crc
    /\ pc \notin {"field", "check", "commit"} => Encoded(data) = payload_crc
    /\ pc = "header" => slot[cur] = ErasedSlot
    /\ pc = "payload" => \A f \in Fields :
         slot[cur].payload[f] = IF f < index THEN payload_crc[f] ELSE ErasedCell
    /\ pc \in {"readback", "reprobe", "field", "check", "commit"} =>
         slot[cur].payload = payload_crc
    /\ pc = "field" => \A f \in Fields : f < index => data[f] = payload_crc[f]
    /\ pc \in {"check", "commit"} => data = payload_crc

(* Encoding twice is encoding once.                                        *)
LEMMA EncodedTwice ==
  ASSUME NEW d \in Config
  PROVE  Encoded(Encoded(d)) = Encoded(d)
BY ValuesAssumption DEF Encoded, Config

(* How mconf_save comes to stand where it stands.                          *)
SaveMoves ==
  /\ UNCHANGED schema
  /\ \/ /\ pc = "idle" /\ pc' = "probe0" /\ payload_crc' = Encoded(data)
        /\ UNCHANGED data
     \/ /\ pc \in {"probe0", "probe1", "select"} /\ pc' \in {"probe1", "select", "erase"}
        /\ UNCHANGED <<data, payload_crc>>
     \/ /\ pc = "erase" /\ pc' = "header" /\ UNCHANGED <<data, payload_crc, cur>>
        /\ slot' = [slot EXCEPT ![cur] = ErasedSlot]
     \/ /\ pc = "header" /\ pc' = "payload" /\ index' = 1
        /\ slot' = [slot EXCEPT ![cur] = WithHeader(slot[cur], mconf_encode_header)]
        /\ UNCHANGED <<data, payload_crc, cur>>
     \/ /\ pc = "payload" /\ UNCHANGED <<data, payload_crc, cur>>
        /\ slot' = [slot EXCEPT ![cur] = WithCell(slot[cur], index, Encoded(data)[index])]
        /\ IF index = NFields THEN pc' = "readback" ELSE pc' = "payload" /\ index' = index + 1
     \/ /\ pc = "readback" /\ pc' = "reprobe" /\ UNCHANGED <<slot, data, payload_crc, cur>>
     \/ /\ pc = "reprobe" /\ pc' = "field" /\ index' = 1
        /\ UNCHANGED <<slot, payload_crc, cur>>
     \/ /\ pc = "field" /\ UNCHANGED <<slot, payload_crc, cur>>
        /\ data' = [data EXCEPT ![index] = slot[cur].payload[index]]
        /\ IF index = NFields THEN pc' = "check" ELSE pc' = "field" /\ index' = index + 1
     \/ /\ pc = "check" /\ pc' = "commit" /\ UNCHANGED <<slot, data, payload_crc, cur>>
     \/ UNCHANGED vars

(* There is no other way.                                                  *)
LEMMA SaveMovesOn ==
  ASSUME TypeOK, HonestStorage, [Next]_vars, op' = "save", pc' # "idle"
  PROVE  SaveMoves /\ (pc # "idle" => op = "save")
BY DEF SaveMoves, HonestStorage, TypeOK, Next, LibraryStep, vars, locals, EditField,
       mconf_load_defaults, mconf_save, mconf_load, ProbeSlot, SelectTarget,
       EraseSlot, WriteHeader, WriteField, VerifyHeader, CommitRecord, SelectSource,
       ReadHeader, ReadField, CheckPayload, SlotRefused, PowerCycle, PayloadRot,
       StorageWrite, Goto, Return, Slots

(* A payload cell of an erased or freshly written slot takes what is       *)
(* written to it, on NOR flash too.                                        *)
LEMMA CellTaken ==
  ASSUME NEW r \in SlotContents, NEW g \in Fields, NEW c \in Cell,
         r.payload[g] = ErasedCell
  PROVE  \A f \in Fields : WithCell(r, g, c).payload[f] = IF f = g THEN c ELSE r.payload[f]
BY DEF WithCell, ProgramArea, SlotContents

(* Every step of mconf_save keeps the correspondence of buffer and slot.   *)
LEMMA BufferStep ==
  TypeOK /\ TypeOK' /\ BufferInv /\ HonestStorage /\ [Next]_vars => BufferInv'
<1> SUFFICES ASSUME TypeOK, TypeOK', BufferInv, HonestStorage, [Next]_vars,
                    op' = "save", pc' # "idle"
             PROVE  BufferInv'
  BY DEF BufferInv
<1>a. SaveMoves /\ (pc # "idle" => op = "save")
  BY SaveMovesOn
<1>b. /\ cur \in Slots /\ slot \in [Slots -> SlotContents] /\ slot[cur] \in SlotContents
      /\ data \in Config /\ payload_crc \in Config /\ index \in Fields
  BY DEF TypeOK
<1>1. CASE /\ pc = "idle" /\ pc' = "probe0" /\ payload_crc' = Encoded(data)
           /\ UNCHANGED data
  BY <1>b, <1>1, EncodedTwice DEF BufferInv
<1>2. CASE /\ pc \in {"probe0", "probe1", "select"} /\ pc' \in {"probe1", "select", "erase"}
           /\ UNCHANGED <<data, payload_crc>>
  BY <1>a, <1>2 DEF BufferInv
<1>3. CASE /\ pc = "erase" /\ pc' = "header" /\ UNCHANGED <<data, payload_crc, cur>>
           /\ slot' = [slot EXCEPT ![cur] = ErasedSlot]
  BY <1>a, <1>b, <1>3 DEF BufferInv
<1>4. CASE /\ pc = "header" /\ pc' = "payload" /\ index' = 1
           /\ slot' = [slot EXCEPT ![cur] = WithHeader(slot[cur], mconf_encode_header)]
           /\ UNCHANGED <<data, payload_crc, cur>>
  <2>1. WithHeader(slot[cur], mconf_encode_header).payload = slot[cur].payload
    BY <1>b DEF WithHeader, SlotContents
  <2>2. slot'[cur'].payload = [f \in Fields |-> ErasedCell]
    BY <1>a, <1>b, <1>4, <2>1 DEF BufferInv, ErasedSlot
  <2>3. \A f \in Fields : ~ (f < 1)
    BY SizesAssumption DEF Fields
  <2> QED
    BY <1>a, <1>4, <2>2, <2>3 DEF BufferInv
<1>5. CASE /\ pc = "payload" /\ UNCHANGED <<data, payload_crc, cur>>
           /\ slot' = [slot EXCEPT ![cur] = WithCell(slot[cur], index, Encoded(data)[index])]
           /\ IF index = NFields THEN pc' = "readback"
              ELSE pc' = "payload" /\ index' = index + 1
  <2>1. /\ Encoded(payload_crc) = payload_crc /\ Encoded(data) = payload_crc
        /\ \A f \in Fields :
             slot[cur].payload[f] = IF f < index THEN payload_crc[f] ELSE ErasedCell
    BY <1>a, <1>5 DEF BufferInv
  <2>2. payload_crc[index] \in Cell /\ ~ (index < index)
    BY <1>b DEF Config, Cell, Fields
  <2>3. slot'[cur] = WithCell(slot[cur], index, payload_crc[index])
    BY <1>b, <1>5, <2>1
  <2>4. \A f \in Fields : slot'[cur].payload[f] =
          IF f = index THEN payload_crc[index] ELSE slot[cur].payload[f]
    BY <1>b, <2>1, <2>2, <2>3, CellTaken
  <2>5. CASE index # NFields
    <3>1. \A f \in Fields : f < index + 1 <=> f < index \/ f = index
      BY <1>b DEF Fields
    <3>2. \A f \in Fields : slot'[cur].payload[f] =
            IF f < index + 1 THEN payload_crc[f] ELSE ErasedCell
      BY <2>1, <2>4, <3>1
    <3> QED
      BY <1>5, <2>1, <2>5, <3>2 DEF BufferInv
  <2>6. CASE index = NFields
    <3>1. \A f \in Fields : f < index \/ f = index
      BY <1>b, <2>6, SizesAssumption DEF Fields
    <3>2. \A f \in Fields : slot'[cur].payload[f] = payload_crc[f]
      BY <2>1, <2>4, <3>1
    <3>3. slot'[cur].payload \in [Fields -> Cell] /\ payload_crc \in [Fields -> Val]
      BY <1>b, <1>5 DEF TypeOK, SlotContents, Config
    <3>4. slot'[cur].payload = payload_crc
      BY <3>2, <3>3
    <3> QED
      BY <1>5, <2>1, <2>6, <3>4 DEF BufferInv
  <2> QED
    BY <2>5, <2>6
<1>6. CASE pc = "readback" /\ pc' = "reprobe" /\ UNCHANGED <<slot, data, payload_crc, cur>>
  BY <1>a, <1>6 DEF BufferInv
<1>7. CASE /\ pc = "reprobe" /\ pc' = "field" /\ index' = 1
           /\ UNCHANGED <<slot, payload_crc, cur>>
  <2>1. \A f \in Fields : ~ (f < 1)
    BY SizesAssumption DEF Fields
  <2> QED
    BY <1>a, <1>7, <2>1 DEF BufferInv
<1>8. CASE /\ pc = "field" /\ UNCHANGED <<slot, payload_crc, cur>>
           /\ data' = [data EXCEPT ![index] = slot[cur].payload[index]]
           /\ IF index = NFields THEN pc' = "check" ELSE pc' = "field" /\ index' = index + 1
  <2>1. /\ Encoded(payload_crc) = payload_crc /\ slot[cur].payload = payload_crc
        /\ \A f \in Fields : f < index => data[f] = payload_crc[f]
    BY <1>a, <1>8 DEF BufferInv
  <2>2. \A f \in Fields : data'[f] = IF f = index THEN payload_crc[f] ELSE data[f]
    BY <1>b, <1>8, <2>1 DEF Config
  <2>3. CASE index # NFields
    <3>1. \A f \in Fields : f < index + 1 => f < index \/ f = index
      BY <1>b DEF Fields
    <3>2. \A f \in Fields : f < index + 1 => data'[f] = payload_crc[f]
      BY <2>1, <2>2, <3>1
    <3> QED
      BY <1>8, <2>1, <2>3, <3>2 DEF BufferInv
  <2>4. CASE index = NFields
    <3>1. \A f \in Fields : f < index \/ f = index
      BY <1>b, <2>4, SizesAssumption DEF Fields
    <3>2. \A f \in Fields : data'[f] = payload_crc[f]
      BY <2>1, <2>2, <3>1
    <3>3. data' = payload_crc
      BY <1>b, <3>2 DEF TypeOK, Config
    <3> QED
      BY <1>8, <2>1, <2>4, <3>3 DEF BufferInv
  <2> QED
    BY <2>3, <2>4
<1>9. CASE pc = "check" /\ pc' = "commit" /\ UNCHANGED <<slot, data, payload_crc, cur>>
  BY <1>a, <1>9 DEF BufferInv
<1>10. CASE UNCHANGED vars
  BY <1>a, <1>10 DEF BufferInv, vars, locals
<1> QED
  BY <1>a, <1>1, <1>2, <1>3, <1>4, <1>5, <1>6, <1>7, <1>8, <1>9, <1>10 DEF SaveMoves

(* mconf_save returns to its caller from a failing write, from a           *)
(* verification that refuses the record, or from the commit.               *)
LEMMA SaveReturns ==
  ASSUME HonestStorage, Next, op = "save", pc # "idle", pc' = "idle", ret' # "none"
  PROVE  /\ UNCHANGED data
         /\ pc = "field" => slot[cur].payload[index] = Garbage
BY DEF HonestStorage, Next, LibraryStep, EditField,
       mconf_load_defaults, mconf_save, mconf_load, ProbeSlot, SelectTarget,
       EraseSlot, WriteHeader, WriteField, VerifyHeader, CommitRecord, SelectSource,
       ReadHeader, ReadField, CheckPayload, SlotRefused, PowerCycle, PayloadRot,
       StorageWrite, Goto, Return

(* The step by which mconf_save returns leaves its configuration.          *)
LEMMA KeepsStep ==
  ASSUME TypeOK, BufferInv, HonestStorage, Next, op = "save", pc # "idle", pc' = "idle",
         ret' # "none"
  PROVE  Encoded(data') = payload_crc
<1>1. UNCHANGED data /\ (pc = "field" => slot[cur].payload[index] = Garbage)
  BY SaveReturns
<1>2. pc # "field"
  <2>1. pc = "field" => slot[cur].payload = payload_crc
    BY DEF BufferInv
  <2>2. payload_crc[index] \in Val
    BY DEF TypeOK, Config
  <2> QED
    BY <1>1, <2>1, <2>2, ValuesAssumption
<1> QED
  BY <1>1, <1>2 DEF BufferInv

(* Hence buffer and slot correspond throughout.                            *)
LEMMA BufferInvariant == HonestStorage => (Spec => []BufferInv)
<1> SUFFICES ASSUME HonestStorage PROVE Spec => []BufferInv
  OBVIOUS
<1>1. Init => BufferInv
  BY DEF Init, BufferInv
<1>2. TypeOK /\ TypeOK' /\ BufferInv /\ [Next]_vars => BufferInv'
  BY BufferStep
<1> QED
  BY <1>1, <1>2, TypeCorrect, PTL DEF Spec

(* On a medium whose successful callbacks did what they report, mconf_save *)
(* gives the caller its configuration back, although the verification      *)
(* reads the new record into the same buffer: after a success and after    *)
(* every write that fails, on EEPROM and on NOR flash.                     *)
THEOREM SaveGivesDataBack == HonestStorage => (Spec => SaveKeepsData)
<1> SUFFICES ASSUME HonestStorage PROVE Spec => SaveKeepsData
  OBVIOUS
<1>1. TypeOK /\ BufferInv /\ [Next]_vars =>
        [(op = "save" /\ pc # "idle" /\ pc' = "idle" /\ ret' # "none") =>
           Encoded(data') = payload_crc]_vars
  BY KeepsStep
<1> QED
  BY <1>1, TypeCorrect, BufferInvariant, PTL DEF Spec, SaveKeepsData

-----------------------------------------------------------------------------
(* MconfStorage implements MconfStore: mconf_load and mconf_save on two    *)
(* slots behave like a durable register.                                   *)

(* The medium overwrites bytes and reports what it could not do.  A        *)
(* callback may still fail, or be cut short by power loss, at any time.    *)
ReportingMedium == Faults \subseteq {"read", "write"} /\ Medium = "overwrite"

(* Such a medium is one the other proofs are about.                        *)
LEMMA ReportingIsTolerable ==
  ASSUME ReportingMedium
  PROVE  TolerableFaults /\ ("read" \notin Faults => HonestStorage)
BY DEF ReportingMedium, TolerableFaults, HonestStorage

-----------------------------------------------------------------------------
(* What the refinement needs beyond the invariant of MconfStorage.         *)

(* Once the target is erased it holds no record until the commit, and what *)
(* is committed has been read back into the buffer.                        *)
CleanTarget ==
  /\ Saving /\ pc # "erase" => ~ HoldsRecord(cur)
  /\ pc = "commit" => data = payload_crc

(* An erase on such a medium does nothing or takes the header away.        *)
LEMMA EraseTakesHeader ==
  ASSUME TypeOK, ReportingMedium, [Next]_vars, pc = "erase"
  PROVE  slot' = slot \/ slot'[cur].hdr = Blank
<1>1. /\ "tear_any" \notin Faults /\ slot[cur] \in SlotContents
      /\ cur \in Slots /\ slot \in [Slots -> SlotContents]
  BY DEF ReportingMedium, TypeOK
<1>2. \A r \in TornErase(slot[cur]) : r = slot[cur] \/ r.hdr = Blank
  BY <1>1 DEF TornErase
<1>3. ErasedSlot.hdr = Blank
  BY DEF ErasedSlot
<1>4. \/ slot' = slot
      \/ \E r \in {ErasedSlot} \cup TornErase(slot[cur]) : slot' = [slot EXCEPT ![cur] = r]
  BY DEF Next, LibraryStep, vars, locals, EditField, mconf_load_defaults, mconf_save,
         mconf_load, ProbeSlot, SelectTarget, EraseSlot, WriteHeader, WriteField,
         VerifyHeader, CommitRecord, SelectSource, ReadHeader, ReadField, CheckPayload,
         PowerCycle, PayloadRot, StorageWrite, TornOutcomes
<1> QED
  BY <1>1, <1>2, <1>3, <1>4

(* The writes of mconf_save before the commit keep the target clean.       *)
LEMMA CleanStep ==
  ASSUME IInv, CleanTarget, ReportingMedium, [Next]_vars
  PROVE  CleanTarget'
<1>a. TypeOK /\ Verified /\ TargetChosen /\ TolerableFaults /\ "silent" \notin Faults
  BY ReportingIsTolerable DEF IInv, ReportingMedium
<1>1. ASSUME Saving', pc' # "erase" PROVE ~ HoldsRecord(cur)'
  <2>1. ~ SelectTarget
    BY <1>1 DEF SelectTarget, Goto
  <2>2. /\ Saving /\ UNCHANGED cur
        /\ EraseSlot \/ pc # "erase"
        /\ slot' # slot => pc \in {"erase", "header", "payload"}
    BY <1>a, <1>1, <2>1, SavingStep
  <2>3. PICK c \in Slots : c = cur
    BY <1>a DEF TypeOK
  <2>4. CASE EraseSlot
    <3>1. slot' = [slot EXCEPT ![cur] = ErasedSlot]
      BY <1>a, <1>1, <2>4 DEF EraseSlot, StorageWrite, Return, Saving
    <3>2. slot'[cur'].hdr = Blank
      BY <1>a, <2>2, <3>1 DEF TypeOK, ErasedSlot
    <3> QED
      BY <3>2 DEF HoldsRecord
  <2>5. CASE pc # "erase"
    <3>1. ~ HoldsRecord(c)
      BY <2>2, <2>3, <2>5 DEF CleanTarget
    <3>2. CASE slot' = slot
      BY <2>2, <2>3, <3>1, <3>2 DEF HoldsRecord
    <3>3. CASE HarmlessWrite
      <4>1. ~ HoldsRecord(c)'
        BY <2>3, <3>1, <3>3, HarmlessKeepsSlots
      <4> QED
        BY <2>2, <2>3, <4>1 DEF HoldsRecord
    <3>4. CASE CommittingWrite
      BY <2>2, <3>2, <3>4 DEF CommittingWrite
    <3> QED
      BY <1>a, <3>2, <3>3, <3>4, SlotStep
  <2> QED
    BY <2>2, <2>4, <2>5
<1>2. ASSUME pc' = "commit" PROVE data' = payload_crc'
  <2>1. \/ UNCHANGED <<pc, data, payload_crc>>
        \/ /\ pc = "check" /\ op = "save" /\ data = slot[cur].hdr.payload_crc32
           /\ UNCHANGED <<data, payload_crc>>
    BY <1>2 DEF Next, LibraryStep, vars, locals, EditField, mconf_load_defaults,
         mconf_save, mconf_load, ProbeSlot, SelectTarget, EraseSlot, WriteHeader,
         WriteField, VerifyHeader, CommitRecord, SelectSource, ReadHeader, ReadField,
         CheckPayload, SlotRefused, PowerCycle, PayloadRot, StorageWrite, Goto, Return
  <2>2. pc = "check" /\ op = "save" => slot[cur].hdr.payload_crc32 = payload_crc
    BY <1>a DEF Verified, mconf_encode_header
  <2> QED
    BY <1>2, <2>1, <2>2 DEF CleanTarget
<1> QED
  BY <1>1, <1>2 DEF CleanTarget

-----------------------------------------------------------------------------
(* What a step does to the two records of the register.                    *)

(* The register, as the two slots hold it when c is the older one or holds *)
(* nothing: the other slot's record, and the record in c behind it.        *)
TwoRecords ==
  \A c \in Slots :
    (/\ TypeOK
     /\ Committed(c) => /\ Committed(1 - c)
                        /\ mconf_generation_is_newer(SlotGen(1 - c), SlotGen(c)))
    => PreviousRecord = IF Committed(c) /\ Intact(c) THEN {slot[c].payload} ELSE {}

(* It is so in every state.                                                *)
LEMMA PreviousIsTarget == TwoRecords
<1> SUFFICES ASSUME NEW c \in Slots, TypeOK,
                    Committed(c) => /\ Committed(1 - c)
                                    /\ mconf_generation_is_newer(SlotGen(1 - c), SlotGen(c))
             PROVE  PreviousRecord = IF Committed(c) /\ Intact(c) THEN {slot[c].payload}
                                     ELSE {}
  BY DEF TwoRecords
<1>1. CASE ~ Committed(c)
  BY <1>1 DEF PreviousRecord, Slots
<1>2. CASE Committed(c)
  <2>1. SlotGen(c) \in Gen /\ SlotGen(1 - c) \in Gen
    BY <1>2, RecordType, CommittedIs DEF Slots
  <2>2. ~ mconf_generation_is_newer(SlotGen(c), SlotGen(1 - c))
    BY <1>2, <2>1, NewerIsAsymmetric
  <2>3. 1 - FirstChoice = c
    BY <1>2, <2>2 DEF FirstChoice, Slot1Newer, Slots
  <2> QED
    BY <1>2, <2>3 DEF PreviousRecord, Slots
<1> QED
  BY <1>1, <1>2

(* And so in the state after a step.                                       *)
LEMMA PreviousIsTargetNext == TwoRecords'
BY PreviousIsTarget, PTL

(* A write before the commit leaves the record in the target or removes it.*)
LEMMA HarmlessPrevious ==
  ASSUME IInv, IInv', CleanTarget, ReportingMedium, [Next]_vars, HarmlessWrite,
         schema' = schema
  PROVE  PreviousRecord' \in {PreviousRecord, {}}
<1>1. PICK c \in Slots : c = cur
  BY DEF IInv, TypeOK
<1>2. /\ slot'[1 - c] = slot[1 - c]
      /\ HoldsRecord(c)' => HoldsRecord(c)
  BY <1>1, HarmlessKeepsSlots
<1>3. TypeOK /\ TypeOK' /\ Saving
  BY DEF IInv, HarmlessWrite
<1>4. CASE slot' = slot
  BY <1>4 DEF PreviousRecord, FirstChoice, Committed, Intact, Slot1Newer, SlotGen,
              mconf_probe_slot_header, mconf_validate_data
<1>5. CASE slot' # slot
  <2>1. pc = "erase" => ~ HoldsRecord(c)'
    BY <1>1, <1>3, <1>5, EraseTakesHeader DEF HoldsRecord
  <2>2. pc # "erase" => ~ HoldsRecord(c)'
    BY <1>1, <1>2, <1>3 DEF CleanTarget
  <2>3. ~ Committed(c)'
    BY <2>1, <2>2 DEF Committed, mconf_probe_slot_header, HoldsRecord
  <2> QED
    BY <1>3, <2>3, PreviousIsTargetNext DEF TwoRecords
<1> QED
  BY <1>4, <1>5

(* The commit makes the record that was current the one to fall back to.   *)
LEMMA CommitPrevious ==
  ASSUME IInv, IInv', CommittingWrite, schema' = schema
  PROVE  PreviousRecord' = Durable
<1>1. PICK c \in Slots : c = cur
  BY DEF IInv, TypeOK
<1>2. /\ slot'[1 - c] = slot[1 - c] /\ HoldsRecord(c)'
      /\ slot'[c].hdr = mconf_encode_header
  BY <1>1, CommitKeepsSlots
<1>3. 1 - c \in Slots /\ 1 - (1 - c) = c /\ TypeOK' /\ TypeOK /\ TargetChosen /\ Saving
  BY DEF IInv, Slots, Saving, CommittingWrite
<1>4. Committed(c)'
  BY <1>2 DEF Committed, mconf_probe_slot_header, HoldsRecord, mconf_encode_header
<1>5. /\ Committed(1 - c)' <=> Committed(1 - c)
      /\ Intact(1 - c)' <=> Intact(1 - c)
  BY <1>2 DEF Committed, mconf_probe_slot_header, Intact, mconf_validate_data
<1>6. ASSUME Committed(1 - c)'
      PROVE  mconf_generation_is_newer(SlotGen(c), SlotGen(1 - c))'
  <2>1. next_generation = NextGeneration(SlotGen(1 - c)) /\ SlotGen(1 - c) \in Gen
    BY <1>1, <1>3, <1>5, <1>6, CommittedIs, RecordType DEF TargetChosen
  <2>2. SlotGen(c)' = next_generation /\ SlotGen(1 - c)' = SlotGen(1 - c)
    BY <1>2 DEF SlotGen, mconf_encode_header
  <2> QED
    BY <2>1, <2>2, NextIsNewer
<1>7. PreviousRecord' = IF Committed(1 - c)' /\ Intact(1 - c)' THEN {slot'[1 - c].payload}
                        ELSE {}
  BY <1>3, <1>4, <1>6, PreviousIsTargetNext DEF TwoRecords
<1>8. Durable = IF Committed(1 - c) THEN {slot[1 - c].payload} ELSE {}
  BY <1>1, <1>3, DurableWhileSaving
<1>9. Committed(1 - c) => Intact(1 - c)
  BY <1>1, <1>3, CommittedIs DEF TargetChosen
<1> QED
  BY <1>2, <1>5, <1>7, <1>8, <1>9

(* While the image stays the same, a step leaves the register alone, or a  *)
(* save discards the predecessor or commits.                               *)
LEMMA RegisterStep ==
  ASSUME IInv, IInv', CleanTarget, ReportingMedium, [Next]_vars, schema' = schema
  PROVE  \/ UNCHANGED <<Durable, PreviousRecord>>
         \/ /\ op = "save" /\ pc # "idle"
            /\ Durable' = Durable /\ PreviousRecord' = {}
         \/ /\ op = "save" /\ pc = "commit"
            /\ Durable' = {payload_crc} /\ PreviousRecord' = Durable
<1>1. CASE slot' = slot
  BY <1>1 DEF Durable, PreviousRecord, FirstChoice, Committed, Intact, Slot1Newer, SlotGen,
              mconf_probe_slot_header, mconf_validate_data
<1>2. CASE CommittingWrite
  <2>1. op = "save" /\ pc = "commit"
    BY <1>2 DEF CommittingWrite, IInv, TypeOK, Verified, Saving
  <2> QED
    BY <1>2, <2>1, CommitIsDurable, CommitPrevious
<1>3. CASE HarmlessWrite /\ ~ CommittingWrite
  <2>1. op = "save" /\ pc # "idle"
    BY <1>3 DEF HarmlessWrite, IInv, TypeOK, Verified, Saving
  <2>2. Durable' = Durable
    BY <1>3, ReportingIsTolerable, DurableStep
  <2> QED
    BY <1>3, <2>1, <2>2, HarmlessPrevious
<1> QED
  BY <1>1, <1>2, <1>3, ReportingIsTolerable, SlotStep

(* The records of the register are configurations.                         *)
RegisterTyped ==
  TypeOK => /\ Durable \in {{}} \cup {{c} : c \in Config}
            /\ PreviousRecord \in {{}} \cup {{c} : c \in Config}

(* They are in every state.                                                *)
LEMMA RegisterType == RegisterTyped
<1> SUFFICES ASSUME TypeOK
             PROVE  /\ Durable \in {{}} \cup {{c} : c \in Config}
                    /\ PreviousRecord \in {{}} \cup {{c} : c \in Config}
  BY DEF RegisterTyped
<1>1. ASSUME NEW s \in Slots, Committed(s), Intact(s) PROVE slot[s].payload \in Config
  BY <1>1, CommittedIs, RecordType DEF Intact, Header
<1>2. FirstChoice \in Slots /\ 1 - FirstChoice \in Slots
  BY DEF FirstChoice, Slots
<1>3. Committed(0) /\ Committed(1) => Committed(1 - FirstChoice)
  BY <1>2 DEF Slots
<1> QED
  BY <1>1, <1>2, <1>3 DEF Durable, PreviousRecord

(* And so in the state after a step.                                       *)
LEMMA RegisterTypeNext == RegisterTyped'
BY RegisterType, PTL

-----------------------------------------------------------------------------
(* The steps of MconfStorage, as the caller sees them.                     *)

(* A step inside a call.                                                   *)
InCall == /\ pc \notin {"idle", "commit"} /\ pc' # "idle"
          /\ UNCHANGED <<schema, op, ret, payload_crc>>

(* The step by which a call returns.                                       *)
EndOfCall == /\ pc # "idle" /\ pc' = "idle" /\ ret' # "none"
             /\ payload_crc' = Default /\ UNCHANGED <<schema, op>>
             /\ op = "load" => slot' = slot
             /\ op = "save" /\ ret' = "OK" =>
                  /\ pc = "commit" /\ UNCHANGED data
                  /\ slot' = [slot EXCEPT ![cur].state =
                                Program(@, MCONF_STORAGE_STATE_COMMITTED)]

(* There are no others, besides those of the caller and of power loss.     *)
LEMMA StepKinds ==
  ASSUME TypeOK, LoadInv, ReportingMedium, Next
  PROVE  \/ \E f \in Fields, v \in Val : EditField(f, v)
         \/ mconf_load_defaults \/ mconf_save \/ mconf_load
         \/ InCall \/ EndOfCall
         \/ \E q \in Schemas : PowerCycle(q)
<1>1. CASE LibraryStep
  <2>1. mconf_probe_slot_header(cur, op = "load") \in Errors /\ LoadError \in Errors
    BY ProbeType, LoadErrorType DEF TypeOK
  <2> QED
    BY <1>1, <2>1 DEF InCall, EndOfCall, LoadInv, LibraryStep, locals, ReportingMedium,
       ProbeSlot, SelectTarget, EraseSlot, WriteHeader, WriteField, VerifyHeader,
       CommitRecord, SelectSource, ReadHeader, ReadField, CheckPayload, SlotRefused,
       StorageWrite, Goto, Return, ResetLocals, Errors
<1>2. "rot" \notin Faults
  BY DEF ReportingMedium
<1> QED
  BY <1>1, <1>2 DEF Next, PayloadRot

RefinementInv ==
  /\ IInv /\ LoadInv /\ CleanTarget
  /\ "read" \notin Faults => ChoiceInv /\ BufferInv

(* The caller's own steps and the beginning of a call.                     *)
LEMMA CallerImplements ==
  ASSUME TypeOK, TypeOK',
         \/ \E f \in Fields, v \in Val : EditField(f, v)
         \/ mconf_load_defaults \/ mconf_save \/ mconf_load
  PROVE  Store!Next
<1>1. /\ UNCHANGED <<slot, schema>> /\ pc = "idle"
      /\ data \in Config /\ data' \in Config /\ schema \in Schemas
  BY DEF TypeOK, EditField, mconf_load_defaults, mconf_save, mconf_load
<1>2. UNCHANGED <<Durable, PreviousRecord>>
  BY <1>1 DEF Durable, PreviousRecord, FirstChoice, Committed, Intact, Slot1Newer,
              SlotGen, mconf_probe_slot_header, mconf_validate_data
<1>3. CASE \E f \in Fields, v \in Val : EditField(f, v)
  <2>1. Store!Edit(data')
    BY <1>1, <1>2, <1>3 DEF Store!Edit, EditField, locals
  <2> QED
    BY <1>1, <2>1 DEF Store!Next
<1>4. CASE mconf_load_defaults
  <2>1. Store!Edit(data')
    BY <1>1, <1>2, <1>4 DEF Store!Edit, mconf_load_defaults, locals
  <2> QED
    BY <1>1, <2>1 DEF Store!Next
<1>5. CASE mconf_save
  <2>1. CASE pc' = "idle"
    <3>1. Store!SaveRefused
      BY <1>1, <1>2, <1>5, <2>1 DEF Store!SaveRefused, mconf_save
    <3> QED
      BY <3>1 DEF Store!Next
  <2>2. CASE pc' # "idle"
    <3>1. Store!SaveBegin
      BY <1>1, <1>2, <1>5, <2>2 DEF Store!SaveBegin, mconf_save
    <3> QED
      BY <3>1 DEF Store!Next
  <2> QED
    BY <2>1, <2>2
<1>6. CASE mconf_load
  <2>1. Store!LoadBegin
    BY <1>1, <1>2, <1>6 DEF Store!LoadBegin, mconf_load, locals
  <2> QED
    BY <2>1 DEF Store!Next
<1> QED
  BY <1>3, <1>4, <1>5, <1>6

(* A step inside a call is invisible, or discards the predecessor.         *)
LEMMA InCallImplements ==
  ASSUME IInv, IInv', CleanTarget, ReportingMedium, [Next]_vars, InCall
  PROVE  Store!Next \/ UNCHANGED Store!storeVars
<1>1. pc \notin {"idle", "commit"} /\ pc' # "idle" /\ UNCHANGED <<schema, op, ret, payload_crc>>
  BY DEF InCall
<1>2. CASE UNCHANGED <<Durable, PreviousRecord>>
  BY <1>1, <1>2 DEF Store!storeVars
<1>3. CASE op = "save" /\ Durable' = Durable /\ PreviousRecord' = {}
  BY <1>1, <1>3 DEF Store!Next, Store!Discard, Store!Discarded
<1> QED
  BY <1>1, <1>2, <1>3, RegisterStep

(* mconf_save returns: the register has the new record, or the call failed *)
(* before, at or after the commit.                                         *)
LEMMA SaveEndImplements ==
  ASSUME RefinementInv, RefinementInv', ReportingMedium, Next, EndOfCall, op = "save"
  PROVE  Store!Next
<1>1. /\ pc # "idle" /\ pc' = "idle" /\ ret' # "none" /\ payload_crc' = Default
      /\ UNCHANGED <<schema, op>>
      /\ IInv /\ IInv' /\ CleanTarget /\ [Next]_vars
  BY DEF EndOfCall, RefinementInv
<1>2. TypeOK /\ data' \in Config /\ ret' \in Errors
  BY <1>1 DEF IInv, TypeOK
<1>3. CASE ret' = "OK"
  <2>1. CommittingWrite /\ UNCHANGED data
    BY <1>3 DEF EndOfCall, CommittingWrite, Program, ReportingMedium
  <2>2. Durable' = {payload_crc} /\ PreviousRecord' = Durable
    BY <1>1, <2>1, CommitIsDurable, CommitPrevious
  <2>3. data' = payload_crc
    BY <1>1, <2>1 DEF CleanTarget, CommittingWrite
  <2>4. Store!SaveSucceeds
    BY <1>1, <1>3, <2>2, <2>3 DEF Store!SaveSucceeds, Store!Committed, Store!Return
  <2> QED
    BY <2>4 DEF Store!Next, Store!CallEnds
<1>4. CASE ret' # "OK"
  <2>1. Store!Untouched \/ Store!Discarded \/ Store!Committed
    BY <1>1, RegisterStep DEF Store!Untouched, Store!Discarded, Store!Committed
  <2>2. "read" \notin Faults => Encoded(data') = payload_crc
    BY <1>1, <1>2, KeepsStep, ReportingIsTolerable DEF RefinementInv
  <2>3. ret' \in Store!Failures
    BY <1>2, <1>4 DEF Store!Failures, Errors
  <2>4. Store!SaveFails(ret', data')
    BY <1>1, <1>2, <2>1, <2>2 DEF Store!SaveFails, Store!Return
  <2> QED
    BY <1>2, <2>3, <2>4 DEF Store!Next, Store!CallEnds
<1> QED
  BY <1>3, <1>4

(* A record mconf_load may return is current or the predecessor.           *)
LEMMA RecordInRegister ==
  ASSUME TypeOK, NEW s \in Slots, Committed(s), Intact(s)
  PROVE  slot[s].payload \in Durable \cup PreviousRecord
<1>1. CASE s = FirstChoice
  BY <1>1 DEF Durable
<1>2. CASE s # FirstChoice
  <2>1. Committed(0) /\ Committed(1) /\ 1 - FirstChoice = s
    BY <1>2 DEF FirstChoice, Slots
  <2> QED
    BY <2>1 DEF PreviousRecord
<1> QED
  BY <1>1, <1>2

(* mconf_load returns with the current record, or fails and leaves the     *)
(* defaults; when a read fails it may return the predecessor.              *)
LEMMA LoadEndImplements ==
  ASSUME RefinementInv, RefinementInv', ReportingMedium, Next, EndOfCall, op = "load"
  PROVE  Store!Next
<1>1. /\ pc # "idle" /\ pc' = "idle" /\ ret' # "none" /\ payload_crc' = Default
      /\ UNCHANGED <<schema, op, slot>>
      /\ TypeOK /\ LoadInv /\ data' \in Config /\ ret' \in Errors
  BY DEF EndOfCall, RefinementInv, IInv, TypeOK
<1>2. UNCHANGED <<Durable, PreviousRecord>>
  BY <1>1 DEF Durable, PreviousRecord, FirstChoice, Committed, Intact, Slot1Newer,
              SlotGen, mconf_probe_slot_header, mconf_validate_data
<1>3. "read" \notin Faults => IF ret' = "OK" THEN Durable = {data'} ELSE Durable = {}
  BY <1>1, NewestStep DEF RefinementInv
<1>4. IF ret' = "OK"
      THEN \E s \in Slots : Committed(s) /\ Intact(s) /\ data' = slot[s].payload
      ELSE data' = Default
  BY <1>1, WholeStep
<1>5. CASE ret' = "OK"
  <2>1. data' \in Durable \cup PreviousRecord
    BY <1>1, <1>4, <1>5, RecordInRegister
  <2>2. Store!LoadSucceeds(data')
    BY <1>1, <1>2, <1>3, <1>5, <2>1
    DEF Store!LoadSucceeds, Store!Untouched, Store!Return
  <2> QED
    BY <1>1, <2>2 DEF Store!Next, Store!CallEnds
<1>6. CASE ret' # "OK"
  <2>1. Store!LoadFails(ret')
    BY <1>1, <1>2, <1>3, <1>4, <1>6 DEF Store!LoadFails, Store!Untouched, Store!Return
  <2>2. ret' \in Store!Failures
    BY <1>1, <1>6 DEF Store!Failures, Errors
  <2> QED
    BY <2>1, <2>2 DEF Store!Next, Store!CallEnds
<1> QED
  BY <1>5, <1>6

(* Power loss leaves the register as it was, without the predecessor, or   *)
(* with the new record; another image may find anything.                   *)
LEMMA PowerImplements ==
  ASSUME RefinementInv, RefinementInv', ReportingMedium, NEW q \in Schemas, PowerCycle(q)
  PROVE  Store!Next
<1>1. /\ IInv /\ IInv' /\ CleanTarget /\ TypeOK' /\ [Next]_vars
  BY DEF RefinementInv, IInv, Next
<1>2. /\ pc' = "idle" /\ ret' = "none" /\ payload_crc' = Default /\ schema' = q
      /\ data' = [f \in Fields |-> Zero]
  BY DEF PowerCycle, ResetLocals
<1>3. CASE q = schema
  <2>1. Store!Untouched \/ Store!Discarded \/ Store!Committed
    BY <1>1, <1>2, <1>3, RegisterStep DEF Store!Untouched, Store!Discarded, Store!Committed
  <2> QED
    BY <1>2, <1>3, <2>1 DEF Store!Next, Store!Restart
<1>4. CASE q # schema
  <2>1. Durable' \in Store!AtMostOne /\ PreviousRecord' \in Store!AtMostOne
    BY <1>1, RegisterTypeNext DEF RegisterTyped, Store!AtMostOne
  <2> QED
    BY <1>2, <1>4, <2>1 DEF Store!Next, Store!Restart
<1> QED
  BY <1>3, <1>4

(* A new medium is an empty register.                                      *)
LEMMA InitImplements == Init => Store!Init
<1> SUFFICES ASSUME Init PROVE Store!Init
  OBVIOUS
<1>1. ~ Committed(0) /\ ~ Committed(1)
  BY DEF Init, Committed, mconf_probe_slot_header, ErasedSlot, Slots
<1>2. Durable = {} /\ PreviousRecord = {}
  BY <1>1 DEF Durable, PreviousRecord, FirstChoice
<1> QED
  BY <1>2 DEF Init, Store!Init

(* On a medium that overwrites bytes and reports what it could not do,     *)
(* mconf_load and mconf_save implement the durable register of MconfStore: *)
(* a save takes effect at one moment or not at all, whichever callbacks    *)
(* fail and whenever power is lost.                                        *)
THEOREM StorageImplementsStore == ReportingMedium => (Spec => ImplementsStore)
<1> SUFFICES ASSUME ReportingMedium PROVE Spec => ImplementsStore
  OBVIOUS
<1>a. TolerableFaults /\ ("read" \notin Faults => HonestStorage)
  BY ReportingIsTolerable
<1>1. Spec => []IInv
  BY <1>a, InductiveInvariant
<1>2. Spec => []CleanTarget
  <2>1. Init => CleanTarget
    BY DEF Init, CleanTarget, Saving
  <2>2. IInv /\ CleanTarget /\ [Next]_vars => CleanTarget'
    BY CleanStep
  <2> QED
    BY <1>1, <2>1, <2>2, PTL DEF Spec
<1>3. Spec => []("read" \notin Faults => ChoiceInv /\ BufferInv)
  <2>1. CASE "read" \notin Faults
    <3>1. Spec => []ChoiceInv /\ []BufferInv
      BY <1>a, <2>1, ChoiceInvariant, BufferInvariant
    <3> QED
      BY <3>1, PTL
  <2>2. CASE "read" \in Faults
    <3>1. "read" \notin Faults => ChoiceInv /\ BufferInv
      BY <2>2
    <3> QED
      BY <3>1, PTL
  <2> QED
    BY <2>1, <2>2
<1>4. Spec => []RefinementInv
  <2>1. IInv /\ LoadInv /\ CleanTarget /\ ("read" \notin Faults => ChoiceInv /\ BufferInv)
        => RefinementInv
    BY DEF RefinementInv
  <2> QED
    BY <1>1, <1>2, <1>3, <2>1, LoadInvariant, PTL
<1>5. Init => Store!Init
  BY InitImplements
<1>6. RefinementInv /\ RefinementInv' /\ [Next]_vars => [Store!Next]_(Store!storeVars)
  <2> SUFFICES ASSUME RefinementInv, RefinementInv', [Next]_vars
               PROVE  Store!Next \/ UNCHANGED Store!storeVars
    OBVIOUS
  <2>1. TypeOK /\ TypeOK' /\ LoadInv /\ IInv /\ IInv' /\ CleanTarget
    BY DEF RefinementInv, IInv
  <2>2. CASE UNCHANGED vars
    <3>1. UNCHANGED <<slot, schema, pc, op, ret, data, payload_crc>>
      BY <2>2 DEF vars, locals
    <3>2. UNCHANGED <<Durable, PreviousRecord>>
      BY <3>1 DEF Durable, PreviousRecord, FirstChoice, Committed, Intact, Slot1Newer,
                  SlotGen, mconf_probe_slot_header, mconf_validate_data
    <3> QED
      BY <3>1, <3>2 DEF Store!storeVars
  <2>3. CASE Next
    <3>1. CASE InCall
      BY <2>1, <3>1, InCallImplements
    <3>2. CASE EndOfCall
      <4>1. op = "load" \/ op = "save"
        BY <2>1 DEF TypeOK
      <4> QED
        BY <2>3, <3>2, <4>1, SaveEndImplements, LoadEndImplements
    <3>3. CASE \E q \in Schemas : PowerCycle(q)
      BY <3>3, PowerImplements
    <3> QED
      BY <2>1, <2>3, <3>1, <3>2, <3>3, StepKinds, CallerImplements
  <2> QED
    BY <2>2, <2>3
<1> QED
  BY <1>4, <1>5, <1>6, PTL DEF Spec, ImplementsStore, Store!Spec

=============================================================================
