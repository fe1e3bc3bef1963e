-------------------------- MODULE MconfCodecProofs --------------------------
(***************************************************************************)
(* Proofs about MconfCodec and MconfCrc, for every schema and every        *)
(* content of fields and medium: decoding stays within the fields, a       *)
(* record that nobody damaged is read back, the checksum is the CRC-32 of  *)
(* the payload, and what is accepted is what was saved.                    *)
(***************************************************************************)
EXTENDS MconfCodec, MconfSequenceProofs

-----------------------------------------------------------------------------
(* Facts about the operators the steps are built from.                     *)

(* The first NUL of a terminated field lies in the field.                  *)
LEMMA FirstNul ==
  ASSUME NEW n \in Nat, NEW b \in [1 .. n -> Byte], Terminated(b)
  PROVE  /\ StringLength(b) \in 0 .. n - 1 /\ b[StringLength(b) + 1] = 0
         /\ \A j \in 1 .. StringLength(b) : b[j] # 0
<1> DEFINE Z == {i \in 1 .. n : b[i] = 0}
<1>1. Z \in SUBSET Nat /\ Z # {} /\ DOMAIN b = 1 .. n
  BY DEF Terminated
<1>2. PICK i \in Z : \A j \in Z : ~ (<<j, i>> \in OpToRel(<, Nat))
  BY <1>1, NatLessThanWellFounded, WFMin
<1>3. \A j \in Z : ~ (j < i)
  BY <1>1, <1>2 DEF OpToRel
<1>4. \A j \in 1 .. i - 1 : b[j] # 0
  BY <1>3
<1>5. \E k \in DOMAIN b : b[k] = 0 /\ \A j \in 1 .. k - 1 : b[j] # 0
  BY <1>1, <1>4
<1>6. PICK k \in DOMAIN b : /\ StringLength(b) = k - 1
                            /\ b[k] = 0 /\ \A j \in 1 .. k - 1 : b[j] # 0
  BY <1>5 DEF StringLength
<1> QED
  BY <1>1, <1>6

(* A function on 1 .. n is a sequence of length n.                         *)
LEMMA BytesAreSeq ==
  ASSUME NEW n \in Nat, NEW b \in [1 .. n -> Byte]
  PROVE  b \in Seq(Byte) /\ Len(b) = n /\ DOMAIN b = 1 .. n
BY DEF Seq

(* Turning the byte order round gives as many bytes.                       *)
LEMMA LittleEndianType ==
  ASSUME NEW e \in Entry, NEW o, NEW b \in [1 .. e.size -> Byte]
  PROVE  LittleEndian(e, o, b) \in [1 .. e.size -> Byte]
<1>1. e.size \in Nat /\ Len(b) = e.size
  BY BytesAreSeq DEF Entry
<1>2. \A i \in 1 .. e.size : (e.size - i) + 1 \in 1 .. e.size
  BY <1>1
<1>3. Reverse(b) \in [1 .. e.size -> Byte]
  BY <1>1, <1>2 DEF Reverse
<1> QED
  BY <1>3 DEF LittleEndian

(* The two lowest digits of a number are bytes.                            *)
LEMMA DigitsAreBytes ==
  ASSUME NEW n \in Nat
  PROVE  n % ByteMod \in Byte /\ (n \div ByteMod) % ByteMod \in Byte
<1>1. ByteMod \in Nat /\ ByteMod > 0
  BY CodecAssumption
<1>2. \A k \in Nat : k % ByteMod \in 0 .. ByteMod - 1
  BY <1>1
<1>3. n \div ByteMod \in Nat
  BY <1>1
<1> QED
  BY <1>2, <1>3 DEF Byte

(* What is stored for an entry is a sequence of bytes.                     *)
LEMMA EntryBytesType ==
  ASSUME NEW e \in Entry, NEW o, NEW b \in FieldBytes(e)
  PROVE  EntryBytes(e, o, b) \in Seq(Byte)
<1>1. e.size \in Nat /\ b \in [1 .. e.size -> Byte] /\ (e.type = "string" => Terminated(b))
  BY DEF FieldBytes, Entry
<1>2. CASE e.type # "string"
  <2>1. LittleEndian(e, o, b) \in [1 .. e.size -> Byte]
    BY <1>1, LittleEndianType
  <2> QED
    BY <1>1, <1>2, <2>1, BytesAreSeq DEF EntryBytes
<1>3. CASE e.type = "string"
  <2> DEFINE n == StringLength(b)
  <2>1. n \in 0 .. e.size - 1
    BY <1>1, <1>3, FirstNul
  <2>2. SubSeq(b, 1, n) \in Seq(Byte)
    BY <1>1, <2>1, BytesAreSeq, SubSeqProperties
  <2>3. LengthBytes(n) \in Seq(Byte)
    <3>1. n % ByteMod \in Byte /\ (n \div ByteMod) % ByteMod \in Byte
      BY <1>1, <2>1, DigitsAreBytes
    <3> QED
      BY <3>1 DEF LengthBytes
  <2> QED
    BY <1>3, <2>2, <2>3, ConcatProperties DEF EntryBytes
<1> QED
  BY <1>2, <1>3

(* Writing leaves bytes on the medium.                                     *)
LEMMA WrittenType ==
  ASSUME medium \in Seq(Byte), NEW offset, NEW b \in Seq(Byte)
  PROVE  Written(offset, b) \in Seq(Byte)
<1>1. \A k \in DOMAIN b : b[k] \in Byte
  BY DEF Seq
<1>2. DOMAIN medium = 1 .. Len(medium) /\ Len(medium) \in Nat
  BY LenProperties
<1>3. \A k \in DOMAIN medium : medium[k] \in Byte
  BY <1>2
<1>4. Written(offset, b) \in [1 .. Len(medium) -> Byte]
  BY <1>1, <1>2, <1>3 DEF Written
<1> QED
  BY <1>2, <1>4, BytesAreSeq

(* A read inside the region gives as many bytes as were asked for.         *)
LEMMA StoredType ==
  ASSUME medium \in Seq(Byte), NEW offset \in Nat, NEW n \in Nat, InRegion(offset, n)
  PROVE  Stored(offset, n) \in [1 .. n -> Byte]
<1> DEFINE t == SubSeq(medium, offset + 1, offset + n)
<1>1. offset + n <= Len(medium) /\ Len(medium) \in Nat
  BY LenProperties DEF InRegion
<1>2. /\ t \in Seq(Byte)
      /\ Len(t) = IF offset + 1 <= offset + n THEN (offset + n) - (offset + 1) + 1 ELSE 0
  BY <1>1, SubSeqProperties
<1>3. Len(t) = n
  BY <1>2
<1>4. t \in [1 .. n -> Byte]
  BY <1>2, <1>3, LenProperties
<1> QED
  BY <1>4 DEF Stored

-----------------------------------------------------------------------------
(* The inductive invariant: the loops stand at an entry of the schema, the *)
(* medium and the fields of both machines hold bytes, a read starts at an  *)
(* offset of the region, and every string ends within its field.           *)
FieldInv(i) == /\ field[i] \in FieldBytes(schema[i])
               /\ dst[i] \in FieldBytes(schema[i])

DecodeInv ==
  /\ schema \in SchemaSet /\ index \in 1 .. Len(schema)
  /\ medium \in Seq(Byte)
  /\ pc \in {"stored", "read"} => running_offset \in Nat
  /\ DOMAIN dst = 1 .. Len(schema)
  /\ \A i \in 1 .. Len(schema) : FieldInv(i)

(* A schema is a sequence of entries.                                      *)
LEMMA SchemaType ==
  ASSUME NEW s \in SchemaSet
  PROVE  /\ Len(s) \in Nat \ {0} /\ DOMAIN s = 1 .. Len(s)
         /\ \A i \in 1 .. Len(s) : s[i] \in Entry
<1>1. s \in Seq(Entry) /\ s # <<>>
  BY CodecAssumption
<1> QED
  BY <1>1, LenProperties, EmptySeq

(* The loops stay on the entries of the schema.                            *)
LEMMA AdvanceStays ==
  ASSUME NEW label, schema \in SchemaSet, index \in 1 .. Len(schema), Advance(label)
  PROVE  /\ index' \in 1 .. Len(schema)
         /\ pc' \in {pc, label} /\ (pc' = label \/ index # Len(schema))
BY SchemaType DEF Advance

(* A string that fits is decoded into its field, with a NUL.               *)
LEMMA StringDecoded ==
  ASSUME NEW e \in Entry, medium \in Seq(Byte), NEW start \in Nat, NEW length \in Nat,
         StringFits(e, length), InRegion(start, length)
  PROVE  [i \in 1 .. IF length + 1 > e.size THEN length + 1 ELSE e.size |->
            IF i <= length THEN medium[start + i] ELSE 0] \in FieldBytes(e)
<1> DEFINE b == [i \in 1 .. IF length + 1 > e.size THEN length + 1 ELSE e.size |->
                   IF i <= length THEN medium[start + i] ELSE 0]
<1>1. e.size \in Nat /\ length + 1 <= e.size /\ start + length <= Len(medium)
  BY DEF Entry, StringFits, InRegion
<1>2. \A k \in 1 .. Len(medium) : medium[k] \in Byte
  BY LenProperties
<1>3. \A i \in 1 .. e.size : i <= length => start + i \in 1 .. Len(medium)
  BY <1>1, LenProperties
<1>4. 0 \in Byte
  BY CodecAssumption DEF Byte
<1>5. b = [i \in 1 .. e.size |-> IF i <= length THEN medium[start + i] ELSE 0]
  BY <1>1
<1>6. b \in [1 .. e.size -> Byte]
  BY <1>2, <1>3, <1>4, <1>5
<1>7. length + 1 \in 1 .. e.size /\ ~ (length + 1 <= length)
  BY <1>1
<1>8. Terminated(b)
  BY <1>5, <1>7 DEF Terminated
<1> QED
  BY <1>6, <1>8 DEF FieldBytes

(* The length read from the medium is a number.                            *)
LEMMA ReadLengthType ==
  ASSUME NEW b \in [1 .. 2 -> Byte]
  PROVE  ReadLength(b) \in Nat
<1>1. b[1] \in Nat /\ b[2] \in Nat /\ ByteMod \in Nat
  BY CodecAssumption DEF Byte
<1>2. ByteMod * b[2] \in Nat
  BY <1>1
<1> QED
  BY <1>1, <1>2 DEF ReadLength

(* Every step keeps to the fields.                                         *)
LEMMA DecodeStep == DecodeInv /\ [Next]_vars => DecodeInv'
<1> SUFFICES ASSUME DecodeInv, [Next]_vars PROVE DecodeInv'
  OBVIOUS
<1>a. /\ Len(schema) \in Nat \ {0} /\ index \in 1 .. Len(schema)
      /\ \A i \in 1 .. Len(schema) : schema[i] \in Entry
      /\ schema \in SchemaSet /\ medium \in Seq(Byte)
      /\ field[index] \in FieldBytes(schema[index])
      /\ DOMAIN dst = 1 .. Len(schema)
  BY SchemaType DEF DecodeInv, FieldInv
<1>1. ASSUME mconf_compute_payload_layout PROVE DecodeInv'
  BY <1>a, <1>1, AdvanceStays DEF mconf_compute_payload_layout, DecodeInv, FieldInv
<1>2. ASSUME CheckRoom PROVE DecodeInv'
  BY <1>2 DEF CheckRoom, DecodeInv, FieldInv, written
<1>3. ASSUME mconf_serialize_payload_to_storage PROVE DecodeInv'
  <2> DEFINE b == EntryBytes(schema[index], order.writer, field[index])
  <2>1. b \in Seq(Byte)
    BY <1>a, EntryBytesType
  <2>2. medium' \in Seq(Byte)
    BY <1>a, <1>3, <2>1, WrittenType DEF mconf_serialize_payload_to_storage
  <2>3. /\ index' \in 1 .. Len(schema)
        /\ pc' \in {"write", "stored"} /\ (pc' = "stored" \/ index # Len(schema))
    BY <1>a, <1>3, AdvanceStays DEF mconf_serialize_payload_to_storage
  <2>4. pc' = "stored" => running_offset' \in Nat
    BY <1>a, <1>3 DEF mconf_serialize_payload_to_storage, Advance
  <2> QED
    BY <1>3, <2>2, <2>3, <2>4
    DEF mconf_serialize_payload_to_storage, DecodeInv, FieldInv, written
<1>4. ASSUME AtRest PROVE DecodeInv'
  <2>1. medium' \in Seq(Byte)
    <3>1. ASSUME NEW n \in 1 .. Room - MaxBurst + 1, NEW burst \in [1 .. MaxBurst -> Byte],
                 medium' = Written(n - 1, burst)
          PROVE  medium' \in Seq(Byte)
      <4>1. burst \in Seq(Byte)
        BY BytesAreSeq, CodecAssumption
      <4> QED
        BY <1>a, <3>1, <4>1, WrittenType
    <3> QED
      BY <1>a, <1>4, <3>1 DEF AtRest
  <2> QED
    BY <1>4, <2>1 DEF AtRest, DecodeInv, FieldInv, written
<1>5. ASSUME NEW e, Fail(e) PROVE DecodeInv'
  BY <1>5 DEF Fail, DecodeInv, FieldInv, written
<1>6. ASSUME NEW b \in FieldBytes(schema[index]), dst' = [dst EXCEPT ![index] = b],
             running_offset' \in Nat, Advance("check"), UNCHANGED <<written, medium, err>>
      PROVE  DecodeInv'
  <2>1. index' \in 1 .. Len(schema)
    BY <1>a, <1>6, AdvanceStays
  <2>2. DOMAIN dst' = 1 .. Len(schema)
        /\ \A i \in 1 .. Len(schema) : dst'[i] = IF i = index THEN b ELSE dst[i]
    BY <1>a, <1>6
  <2> QED
    BY <1>a, <1>6, <2>1, <2>2 DEF DecodeInv, FieldInv, written
<1>7. ASSUME LoadString PROVE DecodeInv'
  <2> DEFINE e == schema[index]
             start == running_offset + 2
             length == ReadLength(Stored(running_offset, 2))
             b == [i \in 1 .. IF length + 1 > e.size THEN length + 1 ELSE e.size |->
                     IF i <= length THEN medium[start + i] ELSE 0]
  <2>1. CASE /\ InRegion(running_offset, 2) /\ StringFits(e, length)
             /\ InRegion(start, length) /\ dst' = [dst EXCEPT ![index] = b]
             /\ running_offset' = start + length
             /\ Advance("check") /\ UNCHANGED <<written, medium, err>>
    <3>1. running_offset \in Nat /\ start \in Nat
      BY <1>7 DEF LoadString, DecodeInv
    <3>2. length \in Nat
      BY <1>a, <2>1, <3>1, StoredType, ReadLengthType
    <3>3. b \in FieldBytes(e)
      BY <1>a, <2>1, <3>1, <3>2, StringDecoded
    <3>4. running_offset' \in Nat
      BY <2>1, <3>1, <3>2
    <3> HIDE DEF b, start, length
    <3> QED
      BY <1>6, <2>1, <3>3, <3>4
  <2> QED
    BY <1>5, <1>7, <2>1 DEF LoadString
<1>8. ASSUME LoadScalarOrBlob PROVE DecodeInv'
  <2> DEFINE e == schema[index]
             b == LittleEndian(e, order.reader, Stored(running_offset, e.size))
  <2>1. CASE /\ InRegion(running_offset, e.size) /\ dst' = [dst EXCEPT ![index] = b]
             /\ running_offset' = running_offset + e.size
             /\ Advance("check") /\ UNCHANGED <<written, medium, err>>
    <3>1. running_offset \in Nat /\ e.size \in Nat /\ e.type # "string" /\ e \in Entry
      BY <1>a, <1>8 DEF LoadScalarOrBlob, DecodeInv, Entry
    <3>2. b \in [1 .. e.size -> Byte]
      BY <1>a, <2>1, <3>1, StoredType, LittleEndianType
    <3>3. b \in FieldBytes(e)
      BY <3>1, <3>2 DEF FieldBytes
    <3>4. running_offset' \in Nat
      BY <2>1, <3>1
    <3> HIDE DEF b
    <3> QED
      BY <1>6, <2>1, <3>3, <3>4
  <2> QED
    BY <1>5, <1>8, <2>1 DEF LoadScalarOrBlob
<1>9. ASSUME CheckPayload PROVE DecodeInv'
  BY <1>9 DEF CheckPayload, DecodeInv, FieldInv, written
<1>10. CASE UNCHANGED vars
  BY <1>10 DEF vars, DecodeInv, FieldInv, written
<1> QED
  BY <1>1, <1>2, <1>3, <1>4, <1>7, <1>8, <1>9, <1>10 DEF Next

(* It holds at the start.                                                  *)
LEMMA DecodeInit == Init => DecodeInv
<1> SUFFICES ASSUME Init PROVE DecodeInv
  OBVIOUS
<1>1. /\ schema \in SchemaSet /\ Len(schema) \in Nat \ {0} /\ DOMAIN schema = 1 .. Len(schema)
      /\ \A i \in 1 .. Len(schema) : schema[i] \in Entry
  BY SchemaType DEF Init
<1>2. medium \in Seq(Byte)
  <2>1. ErasedByte \in Byte
    BY CodecAssumption DEF ErasedByte, Byte
  <2>2. PICK n \in {0, Behind} : medium = [i \in 1 .. Room + n |-> ErasedByte]
    BY DEF Init
  <2>3. Room + n \in Nat
    BY <2>2, CodecAssumption
  <2> QED
    BY <2>1, <2>2, <2>3, BytesAreSeq
<1>3. ASSUME NEW e \in Entry PROVE Zeroed(e) \in FieldBytes(e)
  <2>1. 0 \in Byte /\ e.size \in Nat \ {0} /\ 1 \in 1 .. e.size
    BY CodecAssumption DEF Byte, Entry
  <2>2. Zeroed(e) \in [1 .. e.size -> Byte] /\ Terminated(Zeroed(e))
    BY <2>1 DEF Zeroed, Terminated
  <2> QED
    BY <2>2 DEF FieldBytes
<1>4. ASSUME NEW i \in 1 .. Len(schema) PROVE FieldInv(i)
  BY <1>1, <1>3 DEF Init, FieldInv
<1> QED
  BY <1>1, <1>2, <1>4 DEF Init, DecodeInv

(* Decoding a record writes every field to its end and no further, and     *)
(* leaves every string terminated within its field, for every schema and   *)
(* whatever lengths and bytes the medium holds (the checks in              *)
(* mconf_load_slot_into_buffer).                                           *)
THEOREM DecodeIsConfined == Spec => []DecodeStaysInField
<1>1. DecodeInv => DecodeStaysInField
  <2> SUFFICES ASSUME DecodeInv, NEW i \in DOMAIN schema
               PROVE  /\ Len(dst[i]) = schema[i].size
                      /\ schema[i].type = "string" => Terminated(dst[i])
    BY DEF DecodeStaysInField
  <2>1. schema[i] \in Entry /\ dst[i] \in FieldBytes(schema[i])
    BY SchemaType DEF DecodeInv, FieldInv
  <2>2. schema[i].size \in Nat /\ dst[i] \in [1 .. schema[i].size -> Byte]
    BY <2>1 DEF Entry, FieldBytes
  <2> QED
    BY <2>1, <2>2, BytesAreSeq DEF FieldBytes
<1> QED
  BY <1>1, DecodeInit, DecodeStep, PTL DEF Spec

-----------------------------------------------------------------------------
(* The bytes an accepted record was decoded from.                          *)

(* Only a payload that fits the slot is ever written, and a call that has  *)
(* not ended has no result.                                                *)
RoomInv ==
  /\ pc \in {"write", "stored", "read", "check"} => payload_length <= Room
  /\ pc # "done" => err = "none"
  /\ pc = "done" /\ err = "OK" => running_offset <= Room

(* It holds at the start.                                                  *)
LEMMA RoomInit == Init => RoomInv
BY DEF Init, RoomInv

(* Every step keeps it.                                                    *)
LEMMA RoomStep == RoomInv /\ [Next]_vars => RoomInv'
BY DEF RoomInv, Next, vars, written, Advance, Fail, mconf_compute_payload_layout,
       CheckRoom, mconf_serialize_payload_to_storage, AtRest, LoadString,
       LoadScalarOrBlob, CheckPayload

(* A record that is accepted was read from the payload area of its slot    *)
(* alone, although changed lengths move the entries and other bytes follow *)
(* the slot: the comparison of running_offset with the stored length.      *)
THEOREM AcceptedInSlot ==
  Spec => [](pc = "done" /\ err = "OK" => running_offset <= Room)
<1>1. RoomInv => (pc = "done" /\ err = "OK" => running_offset <= Room)
  BY DEF RoomInv
<1> QED
  BY <1>1, RoomInit, RoomStep, PTL DEF Spec

-----------------------------------------------------------------------------
(* The checksum: mconf_crc32 computes CRC-32, and tells messages apart     *)
(* that differ in few neighbouring bytes.                                  *)

(* Registers and bytes as they occur.                                      *)
Reg   == SUBSET (0 .. 31)
Octet == SUBSET (0 .. 7)

(* A turn of the loop over the bits, bit by bit.                           *)
LEMMA BitStepBits ==
  ASSUME NEW v \in Reg
  PROVE  /\ BitStep(v) \in Reg
         /\ \A j \in 0 .. 31 :
              j \in BitStep(v) <=> ((j + 1 \in v) # (0 \in v /\ j \in Polynomial))
<1>1. Polynomial \subseteq 0 .. 31
  BY DEF Polynomial
<1>2. Shifted(v) \in Reg /\ \A j \in 0 .. 31 : j \in Shifted(v) <=> j + 1 \in v
  <2>1. \A i \in v : i \in 0 .. 31 /\ (i # 0 => i - 1 \in 0 .. 31)
    BY DEF Reg
  <2>2. ASSUME NEW j \in 0 .. 31, j + 1 \in v PROVE j \in Shifted(v)
    <3>1. j + 1 # 0 /\ (j + 1) - 1 = j
      OBVIOUS
    <3> QED BY <2>2, <3>1 DEF Shifted
  <2>3. ASSUME NEW j \in 0 .. 31, j \in Shifted(v) PROVE j + 1 \in v
    <3>1. PICK i \in v \ {0} : j = i - 1
      BY <2>3 DEF Shifted
    <3>2. i = j + 1
      BY <2>1, <3>1
    <3> QED BY <3>1, <3>2
  <2>4. Shifted(v) \in Reg
    BY <2>1 DEF Shifted, Reg
  <2> QED BY <2>2, <2>3, <2>4
<1> HIDE DEF Polynomial
<1>3. CASE 0 \in v
  <2>1. BitStep(v) = Xor(Shifted(v), Polynomial)
    BY <1>3 DEF BitStep
  <2>2. \A j : j \in Xor(Shifted(v), Polynomial) <=> ((j \in Shifted(v)) # (j \in Polynomial))
    BY DEF Xor, SymDiff
  <2>3. BitStep(v) \in Reg
    BY <1>1, <1>2, <2>1 DEF Xor, SymDiff, Reg
  <2> QED BY <1>2, <1>3, <2>1, <2>2, <2>3
<1>4. CASE 0 \notin v
  <2>1. BitStep(v) = Shifted(v)
    BY <1>4 DEF BitStep
  <2> QED BY <1>2, <1>4, <2>1
<1> QED BY <1>3, <1>4

(* They are sets of integers.                                              *)
LEMMA BitsAreInt == Octet \subseteq Reg /\ \A v \in Reg : v \in SUBSET Int
<1>1. 0 .. 31 \subseteq Int /\ 0 .. 7 \subseteq 0 .. 31
  OBVIOUS
<1> QED BY <1>1 DEF Reg, Octet

(* The loop of mconf_crc32_update_byte.                                    *)
LEMMA ValuesStep ==
  ASSUME NEW r \in Reg, NEW b \in Octet
  PROVE  /\ Xor(r, b) \in Reg
         /\ \A k \in 0 .. 8 : Values(r, b)[k] \in Reg
         /\ Values(r, b)[0] = Xor(r, b)
         /\ \A k \in 1 .. 8 : Values(r, b)[k] = BitStep(Values(r, b)[k - 1])
         /\ mconf_crc32_update_byte(r, b) = Values(r, b)[8]
         /\ mconf_crc32_update_byte(r, b) \in Reg
<1> DEFINE F == [k \in 1 .. 8 |-> [v \in Reg |-> BitStep(v)]]
           Is(g) == g = [k \in 0 .. 8 |-> IF k = 0 THEN Xor(r, b) ELSE BitStep(g[k - 1])]
<1>1. Xor(r, b) \in Reg
  BY DEF Xor, SymDiff, Reg, Octet
<1>2. F \in [1 .. 8 -> [Reg -> Reg]]
  BY BitStepBits
<1>3. PICK g : Loop(g, Reg, Xor(r, b), F, 8)
  BY <1>1, <1>2, LoopRuns
<1>4. Is(g)
  <2>1. \A k \in 1 .. 8 : k - 1 \in 0 .. 8
    OBVIOUS
  <2>2. \A k \in 1 .. 8 : g[k] = BitStep(g[k - 1])
    BY <1>3, <2>1 DEF Loop
  <2>3. \A k \in 0 .. 8 : g[k] = IF k = 0 THEN Xor(r, b) ELSE BitStep(g[k - 1])
    BY <1>3, <2>2 DEF Loop
  <2> QED BY <1>3, <2>3 DEF Loop
<1> DEFINE c == Values(r, b)
<1>5. Is(c)
  BY <1>4 DEF Values
<1> HIDE DEF c
<1>6. c[0] = Xor(r, b) /\ \A k \in 1 .. 8 : c[k] = BitStep(c[k - 1])
  BY <1>5
<1>7. \A k \in 0 .. 8 : c[k] \in Reg
  <2> DEFINE T == {k \in 0 .. 8 : c[k] \in Reg}
  <2>1. 0 \in T
    BY <1>1, <1>6
  <2>2. ASSUME NEW k \in 0 .. 8 - 1, k \in T PROVE k + 1 \in T
    <3>1. k + 1 \in 1 .. 8 /\ (k + 1) - 1 = k
      OBVIOUS
    <3> QED BY <1>6, <2>2, <3>1, BitStepBits
  <2> HIDE DEF T
  <2>3. \A k \in 0 .. 8 : k \in T
    BY <2>1, <2>2, CountingTo
  <2> QED BY <2>3 DEF T
<1> QED BY <1>1, <1>6, <1>7 DEF c, mconf_crc32_update_byte

(* The loop over the bytes.                                                *)
LEMMA RegistersStep ==
  ASSUME NEW r \in Reg, NEW s \in Seq(Octet)
  PROVE  /\ \A k \in 0 .. Len(s) : Registers(r, s)[k] \in Reg
         /\ Registers(r, s)[0] = r
         /\ \A k \in 1 .. Len(s) :
              Registers(r, s)[k] = mconf_crc32_update_byte(Registers(r, s)[k - 1], s[k])
<1> DEFINE n == Len(s)
           F == [k \in 1 .. n |-> [v \in Reg |-> mconf_crc32_update_byte(v, s[k])]]
           Is(g) == g = [k \in 0 .. n |-> IF k = 0 THEN r
                                          ELSE mconf_crc32_update_byte(g[k - 1], s[k])]
<1>1. n \in Nat /\ \A k \in 1 .. n : s[k] \in Octet
  BY LenProperties, ElementOfSeq
<1>2. \A k \in 1 .. n : \A v \in Reg : mconf_crc32_update_byte(v, s[k]) \in Reg
  BY <1>1, ValuesStep
<1>3. F \in [1 .. n -> [Reg -> Reg]]
  BY <1>2
<1>4. PICK g : Loop(g, Reg, r, F, n)
  BY <1>1, <1>3, LoopRuns
<1>5. Is(g)
  <2>1. \A k \in 1 .. n : k - 1 \in 0 .. n
    BY <1>1
  <2>2. \A k \in 1 .. n : g[k] = mconf_crc32_update_byte(g[k - 1], s[k])
    BY <1>4, <2>1 DEF Loop
  <2>3. \A k \in 0 .. n : g[k] = IF k = 0 THEN r ELSE mconf_crc32_update_byte(g[k - 1], s[k])
    BY <1>1, <1>4, <2>2 DEF Loop
  <2> QED BY <1>4, <2>3 DEF Loop
<1> DEFINE c == Registers(r, s)
<1>6. Is(c)
  BY <1>5 DEF Registers
<1> HIDE DEF c, n
<1>7. c[0] = r /\ \A k \in 1 .. n : c[k] = mconf_crc32_update_byte(c[k - 1], s[k])
  BY <1>1, <1>6
<1>8. \A k \in 0 .. n : c[k] \in Reg
  <2> DEFINE T == {k \in 0 .. n : c[k] \in Reg}
  <2>1. 0 \in T
    BY <1>1, <1>7
  <2>2. ASSUME NEW k \in 0 .. n - 1, k \in T PROVE k + 1 \in T
    <3>1. k + 1 \in 1 .. n /\ (k + 1) - 1 = k
      BY <1>1
    <3> QED BY <1>1, <1>2, <1>7, <2>2, <3>1
  <2> HIDE DEF T
  <2>3. \A k \in 0 .. n : k \in T
    BY <1>1, <2>1, <2>2, CountingTo
  <2> QED BY <2>3 DEF T
<1> QED BY <1>7, <1>8 DEF c, n

(* The loop of the long division.                                          *)
LEMMA RestsStep ==
  ASSUME NEW p \in SUBSET Int, NEW n \in Nat
  PROVE  /\ Rests(p, n + 31)[0] = p
         /\ \A k \in 1 .. n :
              Rests(p, n + 31)[k] = DivStep(Rests(p, n + 31)[k - 1], n + 32 - k)
<1> DEFINE F == [k \in 1 .. n |-> [v \in SUBSET Int |-> DivStep(v, n + 32 - k)]]
           Is(g) == g = [k \in 0 .. (n + 31) - 31 |->
                           IF k = 0 THEN p ELSE DivStep(g[k - 1], (n + 31) + 1 - k)]
<1>1. ASSUME NEW d \in Int, NEW v \in SUBSET Int PROVE DivStep(v, d) \in SUBSET Int
  <2>1. {e + d - 32 : e \in Generator} \subseteq Int
    BY DEF Generator
  <2> QED BY <2>1 DEF DivStep, Xor, SymDiff
<1>2. F \in [1 .. n -> [SUBSET Int -> SUBSET Int]]
  <2>1. \A k \in 1 .. n : n + 32 - k \in Int
    OBVIOUS
  <2> QED BY <1>1, <2>1
<1>3. PICK g : Loop(g, SUBSET Int, p, F, n)
  BY <1>2, LoopRuns
<1>4. (n + 31) - 31 = n /\ \A k \in 1 .. n : (n + 31) + 1 - k = n + 32 - k /\ k - 1 \in 0 .. n
  OBVIOUS
<1>5. \A k \in 1 .. n : g[k] = DivStep(g[k - 1], n + 32 - k)
  BY <1>3, <1>4 DEF Loop
<1>6. \A k \in 0 .. n : k # 0 => k \in 1 .. n
  OBVIOUS
<1>7. \A k \in 0 .. n : g[k] = IF k = 0 THEN p ELSE DivStep(g[k - 1], (n + 31) + 1 - k)
  BY <1>3, <1>4, <1>5, <1>6 DEF Loop
<1>8. Is(g)
  <2>1. DOMAIN g = 0 .. n /\ g = [k \in 0 .. n |-> g[k]]
    BY <1>3 DEF Loop
  <2> QED BY <1>4, <1>7, <2>1
<1> DEFINE c == Rests(p, n + 31)
<1>9. Is(c)
  BY <1>8 DEF Rests
<1> HIDE DEF c
<1>10. \A k \in 0 .. n : c[k] = IF k = 0 THEN p ELSE DivStep(c[k - 1], (n + 31) + 1 - k)
  BY <1>4, <1>9
<1> QED BY <1>4, <1>10 DEF c

(* Exponents are integers.                                                 *)
LEMMA PowersAreInt ==
  ASSUME NEW v \in Reg, NEW d \in Int
  PROVE  Powers(v, d) \subseteq Int
<1>1. \A j \in v : d - j \in Int
  BY BitsAreInt
<1> QED BY <1>1 DEF Powers

(* A turn of the division does to them what a turn of the loop over the    *)
(* bits does to the register.                                              *)
LEMMA DivisionTurn ==
  ASSUME NEW v \in Reg, NEW d \in Int, NEW P \in SUBSET Int, d \notin P
  PROVE  DivStep(Xor(Powers(v, d), P), d) = Xor(Powers(BitStep(v), d - 1), P)
<1> DEFINE G == {e + d - 32 : e \in Generator}
           M == Powers(v, d)
           N == Powers(BitStep(v), d - 1)
<1>1. \A x \in Int : x \in M <=> d - x \in v
  BY DEF Powers, Reg
<1>2. \A x \in Int : x \in N <=> d - 1 - x \in BitStep(v)
  BY BitStepBits DEF Powers, Reg
<1>3. M \subseteq Int /\ N \subseteq Int
  BY BitStepBits DEF Powers, Reg
<1>4. \A x \in Int : x \in G <=> (x = d \/ d - 1 - x \in Polynomial)
  BY DEF Generator, Polynomial
<1>5. G \subseteq Int
  BY DEF Generator
<1>6. \A x \in Int : x \in N <=> (x # d /\ ((x \in M) # (0 \in v /\ d - 1 - x \in Polynomial)))
  <2> SUFFICES ASSUME NEW x \in Int
               PROVE x \in N <=> (x # d /\ ((x \in M) # (0 \in v /\ d - 1 - x \in Polynomial)))
    OBVIOUS
  <2>1. CASE d - 1 - x \in 0 .. 31
    <3>1. d - 1 - x + 1 = d - x /\ x # d
      BY <2>1
    <3> QED BY <1>1, <1>2, <2>1, <3>1, BitStepBits
  <2>2. CASE d - 1 - x \notin 0 .. 31
    <3>1. d - 1 - x \notin BitStep(v) /\ d - 1 - x \notin Polynomial
      BY <2>2, BitStepBits DEF Reg, Polynomial
    <3>2. x # d => d - x \notin v
      BY <2>2 DEF Reg
    <3> QED BY <1>1, <1>2, <3>1, <3>2
  <2> QED BY <2>1, <2>2
<1>7. d \in Xor(M, P) <=> 0 \in v
  <2>1. d - d = 0
    OBVIOUS
  <2> QED BY <1>1, <2>1 DEF Xor, SymDiff
<1> HIDE DEF G, M, N
<1>8. \A A, B : \A x : x \in Xor(A, B) <=> ((x \in A) # (x \in B))
  BY DEF Xor, SymDiff
<1>9. CASE 0 \in v
  <2>1. DivStep(Xor(M, P), d) = Xor(Xor(M, P), G)
    BY <1>7, <1>9 DEF DivStep, G
  <2>2. \A x \in Int : x \in Xor(Xor(M, P), G) <=> x \in Xor(N, P)
    <3>1. d - 1 - d \notin Polynomial
      BY DEF Polynomial
    <3>2. d \in M
      BY <1>7, <1>8, <1>9
    <3> QED BY <1>4, <1>6, <1>8, <1>9, <3>1, <3>2
  <2>3. Xor(Xor(M, P), G) \subseteq Int /\ Xor(N, P) \subseteq Int
    BY <1>3, <1>5 DEF Xor, SymDiff
  <2>4. Xor(Xor(M, P), G) = Xor(N, P)
    BY <2>2, <2>3
  <2> QED BY <2>1, <2>4 DEF M, N
<1>10. CASE 0 \notin v
  <2>1. DivStep(Xor(M, P), d) = Xor(M, P)
    BY <1>7, <1>10 DEF DivStep
  <2>2. M = N
    <3>1. d \notin M
      BY <1>7, <1>8, <1>10
    <3>2. \A x \in Int : x \in N <=> x \in M
      BY <1>6, <1>10, <3>1
    <3> QED BY <1>3, <3>2
  <2> QED BY <2>1, <2>2 DEF M, N
<1> QED BY <1>9, <1>10

(* The powers of the bytes behind the first i, which the division has not  *)
(* met yet.                                                                *)
Pending(s, i) == UNION {Powers(s[k], 8 * (Len(s) - k) + 39) : k \in i + 1 .. Len(s)}

(* They are the ones of the next byte and smaller ones.                    *)
LEMMA NextByte ==
  ASSUME NEW s \in Seq(Octet), NEW i \in 0 .. Len(s) - 1
  PROVE  /\ Pending(s, i + 1) \in SUBSET Int
         /\ \A x \in Pending(s, i + 1) : x < 8 * (Len(s) - i) + 24
         /\ Pending(s, i) = Xor(Powers(s[i + 1], 8 * (Len(s) - i) + 31), Pending(s, i + 1))
<1> DEFINE n == Len(s)
           D == 8 * (n - i) + 31
           P(k) == Powers(s[k], 8 * (n - k) + 39)
<1>1. n \in Nat /\ \A k \in 1 .. n : s[k] \in Octet
  BY LenProperties, ElementOfSeq
<1> HIDE DEF n
<1>2. ASSUME NEW k \in i + 2 .. n, NEW x \in P(k)
      PROVE  x \in Int /\ x < 8 * (n - i) + 24
  <2> DEFINE d == 8 * (n - k) + 39
  <2>1. PICK j \in s[k] : x = d - j
    <3>1. x \in Powers(s[k], d)
      BY <1>2
    <3> HIDE DEF d
    <3> QED BY <3>1 DEF Powers
  <2>2. k \in 1 .. n /\ i \in Nat
    BY <1>1 DEF n
  <2>3. j \in 0 .. 7
    BY <1>1, <2>1, <2>2 DEF Octet
  <2>4. d \in Int /\ d < 8 * (n - i) + 24 /\ 8 * (n - i) + 24 \in Int
    BY <1>1, <2>2
  <2> HIDE DEF d
  <2> QED BY <2>1, <2>3, <2>4
<1>3. Pending(s, i + 1) = UNION {P(k) : k \in i + 2 .. n}
  BY <1>1 DEF Pending, n
<1>4. Pending(s, i + 1) \in SUBSET Int /\ \A x \in Pending(s, i + 1) : x < 8 * (n - i) + 24
  BY <1>2, <1>3
<1>5. Pending(s, i) = P(i + 1) \cup Pending(s, i + 1)
  <2>1. i + 1 .. n = {i + 1} \cup (i + 2 .. n)
    BY <1>1 DEF n
  <2>2. Pending(s, i) = UNION {P(k) : k \in i + 1 .. n}
    BY DEF Pending, n
  <2> QED BY <1>3, <2>1, <2>2
<1>6. P(i + 1) = Powers(s[i + 1], D)
  BY <1>1 DEF n
<1>7. \A x \in Powers(s[i + 1], D) : x \notin Pending(s, i + 1)
  <2> SUFFICES ASSUME NEW x \in Powers(s[i + 1], D) PROVE x >= 8 * (n - i) + 24 /\ x \in Int
    BY <1>1, <1>4 DEF n
  <2>1. PICK j \in s[i + 1] : x = D - j
    BY DEF Powers
  <2>2. j \in 0 .. 7
    BY <1>1, <2>1 DEF Octet, n
  <2> QED BY <1>1, <2>1, <2>2 DEF n
<1>8. Pending(s, i) = Xor(Powers(s[i + 1], D), Pending(s, i + 1))
  BY <1>5, <1>6, <1>7 DEF Xor, SymDiff
<1> QED BY <1>4, <1>8 DEF n

(* Exclusive or of sets, element by element; it can be regrouped.          *)
LEMMA XorRegroup ==
  ASSUME NEW A, NEW B, NEW C
  PROVE  Xor(A, Xor(B, C)) = Xor(Xor(A, B), C)
BY DEF Xor, SymDiff

(* The powers of an exclusive or.                                          *)
LEMMA XorPowers ==
  ASSUME NEW v \in SUBSET Int, NEW w \in SUBSET Int, NEW d \in Int
  PROVE  Powers(Xor(v, w), d) = Xor(Powers(v, d), Powers(w, d))
<1>1. \A u \in SUBSET Int : Powers(u, d) \subseteq Int /\ \A x \in Int : x \in Powers(u, d) <=> d - x \in u
  BY DEF Powers
<1>2. Xor(v, w) \in SUBSET Int /\ \A x : x \in Xor(v, w) <=> ((x \in v) # (x \in w))
  BY DEF Xor, SymDiff
<1>3. \A x \in Int : d - x \in Int
  OBVIOUS
<1>4. \A x \in Int : x \in Powers(Xor(v, w), d) <=> ((x \in Powers(v, d)) # (x \in Powers(w, d)))
  BY <1>1, <1>2, <1>3
<1>5. \A x : x \in Xor(Powers(v, d), Powers(w, d)) <=> ((x \in Powers(v, d)) # (x \in Powers(w, d)))
  BY DEF Xor, SymDiff
<1>6. Powers(Xor(v, w), d) \subseteq Int /\ Xor(Powers(v, d), Powers(w, d)) \subseteq Int
  BY <1>1, <1>2 DEF Xor, SymDiff
<1> QED BY <1>4, <1>5, <1>6

(* The division has reached byte i with the register r.                    *)
Divided(s, i, r) ==
  Rests(Message(s), 8 * Len(s) + 31)[8 * i]
    = Xor(Powers(r, 8 * (Len(s) - i) + 31), Pending(s, i))

(* Eight turns of the division take it over a byte.                        *)
LEMMA DivisionByte ==
  ASSUME NEW s \in Seq(Octet), NEW i \in 0 .. Len(s) - 1, NEW r \in Reg, Divided(s, i, r),
         Message(s) \in SUBSET Int
  PROVE  Divided(s, i + 1, mconf_crc32_update_byte(r, s[i + 1]))
<1> DEFINE n == Len(s)
           m == 8 * n
           D == 8 * (n - i) + 31
           b == s[i + 1]
           P == Pending(s, i + 1)
           R == Rests(Message(s), m + 31)
           v == Values(r, b)
           T == {k \in 0 .. 8 : R[8 * i + k] = Xor(Powers(v[k], D - k), P)}
<1>1. n \in Nat /\ m \in Nat /\ b \in Octet /\ i \in 0 .. n - 1 /\ D \in Int
  BY LenProperties, ElementOfSeq
<1>2. P \in SUBSET Int /\ \A x \in P : x < D - 7
  BY <1>1, NextByte
<1>3. /\ v[0] = Xor(r, b) /\ mconf_crc32_update_byte(r, b) = v[8]
      /\ \A k \in 0 .. 8 : v[k] \in Reg
      /\ \A k \in 1 .. 8 : v[k] = BitStep(v[k - 1])
  BY <1>1, ValuesStep
<1>4. \A k \in 1 .. m : R[k] = DivStep(R[k - 1], m + 32 - k)
  BY <1>1, RestsStep
<1>5. 0 \in T
  <2>1. R[8 * i] = Xor(Powers(r, D), Pending(s, i))
    BY DEF Divided
  <2>2. Pending(s, i) = Xor(Powers(b, D), P)
    BY NextByte
  <2>3. R[8 * i] = Xor(Xor(Powers(r, D), Powers(b, D)), P)
    BY <2>1, <2>2, XorRegroup
  <2>4. r \in SUBSET Int /\ b \in SUBSET Int
    BY <1>1, BitsAreInt
  <2>5. Powers(v[0], D) = Xor(Powers(r, D), Powers(b, D))
    BY <1>1, <1>3, <2>4, XorPowers
  <2>6. 8 * i + 0 = 8 * i /\ D - 0 = D
    BY <1>1
  <2> QED BY <2>3, <2>5, <2>6
<1>6. ASSUME NEW k \in 0 .. 8 - 1, k \in T PROVE k + 1 \in T
  <2> DEFINE d == D - k
             j == 8 * i + k
  <2>1. /\ j + 1 \in 1 .. m /\ (j + 1) - 1 = j /\ m + 32 - (j + 1) = d /\ d \in Int
        /\ 8 * i + (k + 1) = j + 1 /\ D - (k + 1) = d - 1
    BY <1>1
  <2>2. d \notin P
    BY <1>1, <1>2
  <2>3. v[k] \in Reg /\ v[k + 1] = BitStep(v[k])
    BY <1>3
  <2>4. R[j] = Xor(Powers(v[k], d), P)
    BY <1>6
  <2> HIDE DEF d, j, m, D, P, R, v
  <2>5. R[j + 1] = DivStep(Xor(Powers(v[k], d), P), d)
    BY <1>4, <2>1, <2>4
  <2>6. R[j + 1] = Xor(Powers(v[k + 1], d - 1), P)
    BY <1>2, <2>1, <2>2, <2>3, <2>5, DivisionTurn
  <2> QED BY <2>1, <2>6
<1> HIDE DEF T
<1>7. 8 \in T
  BY <1>5, <1>6, CountingTo
<1>8. R[8 * i + 8] = Xor(Powers(v[8], D - 8), P)
  BY <1>7 DEF T
<1>9. 8 * i + 8 = 8 * (i + 1) /\ D - 8 = 8 * (n - (i + 1)) + 31
  BY <1>1
<1> QED BY <1>3, <1>8, <1>9 DEF Divided

(* mconf_crc32 is CRC-32, for messages of every length: the shift register *)
(* of the code computes the remainder of the division of polynomials that  *)
(* defines the checksum elsewhere.                                         *)
THEOREM RegisterDivides ==
  ASSUME NEW s \in Seq(Octet)
  PROVE  mconf_crc32(s) = Crc32(s)
<1> DEFINE n == Len(s)
           m == 8 * n
           c == Registers(AllOnes, s)
           T == {k \in 0 .. n : Divided(s, k, c[k])}
<1>1. n \in Nat /\ m \in Nat /\ \A k \in 1 .. n : s[k] \in Octet
  BY LenProperties, ElementOfSeq
<1>2. AllOnes \in Reg
  BY DEF AllOnes, Reg
<1>3. /\ \A k \in 0 .. n : c[k] \in Reg
      /\ c[0] = AllOnes
      /\ \A k \in 1 .. n : c[k] = mconf_crc32_update_byte(c[k - 1], s[k])
  BY <1>2, RegistersStep
<1>4. Message(s) = Xor(Powers(AllOnes, m + 31), Pending(s, 0))
  <2>1. m .. m + 31 = Powers(AllOnes, m + 31)
    <3> HIDE DEF m
    <3>1. \A x \in m .. m + 31 : (m + 31) - x \in 0 .. 31 /\ x = (m + 31) - ((m + 31) - x)
      BY <1>1
    <3>2. \A j \in 0 .. 31 : (m + 31) - j \in m .. m + 31
      BY <1>1
    <3> QED BY <3>1, <3>2 DEF Powers, AllOnes
  <2>2. UNION {Powers(s[i], 8 * (n - i) + 39) : i \in 1 .. n} = Pending(s, 0)
    <3>1. 0 + 1 = 1
      OBVIOUS
    <3> QED BY <3>1 DEF Pending
  <2> QED BY <2>1, <2>2 DEF Message, Xor, SymDiff
<1>5. Message(s) \in SUBSET Int
  <2>1. Powers(AllOnes, m + 31) \subseteq Int
    BY <1>1, <1>2, PowersAreInt
  <2>2. \A k \in 1 .. n : Powers(s[k], 8 * (n - k) + 39) \subseteq Int
    <3>1. \A k \in 1 .. n : s[k] \in Reg /\ 8 * (n - k) + 39 \in Int
      BY <1>1, BitsAreInt
    <3> QED BY <3>1, PowersAreInt
  <2>3. Pending(s, 0) \subseteq Int
    BY <2>2 DEF Pending
  <2> QED BY <1>4, <2>1, <2>3 DEF Xor, SymDiff
<1>6. 0 \in T
  <2>1. 8 * 0 = 0 /\ n - 0 = n /\ 0 \in 0 .. n
    BY <1>1
  <2>2. Rests(Message(s), m + 31)[0] = Message(s)
    BY <1>1, <1>5, RestsStep
  <2> QED BY <1>3, <1>4, <2>1, <2>2 DEF Divided
<1>7. ASSUME NEW k \in 0 .. n - 1, k \in T PROVE k + 1 \in T
  <2>1. k \in 0 .. n /\ k + 1 \in 1 .. n /\ (k + 1) - 1 = k /\ k + 1 \in 0 .. n
    BY <1>1
  <2>2. Divided(s, k + 1, mconf_crc32_update_byte(c[k], s[k + 1]))
    BY <1>3, <1>5, <1>7, <2>1, DivisionByte
  <2> QED BY <1>3, <2>1, <2>2
<1> HIDE DEF T
<1>8. n \in T
  <2>1. n \in 0 .. n
    BY <1>1
  <2> QED BY <1>1, <1>6, <1>7, <2>1, CountingTo
<1>9. Rests(Message(s), m + 31)[m] = Powers(c[n], 31)
  <2>1. 8 * (n - n) + 31 = 31 /\ n + 1 .. n = {}
    BY <1>1
  <2>2. Pending(s, n) = {}
    BY <2>1 DEF Pending
  <2> QED BY <1>8, <2>1, <2>2 DEF T, Divided, Xor, SymDiff
<1>10. Remainder(Message(s), m + 31) = Powers(c[n], 31)
  <2>1. (m + 31) - 31 = m
    BY <1>1
  <2> QED BY <1>9, <2>1 DEF Remainder
<1>11. Powers(Powers(c[n], 31), 31) = c[n]
  <2>1. c[n] \in Reg
    BY <1>1, <1>3
  <2>2. \A j \in c[n] : j \in Int /\ 31 - (31 - j) = j
    BY <2>1, BitsAreInt
  <2> QED BY <2>2 DEF Powers
<1> QED BY <1>10, <1>11 DEF Crc32, mconf_crc32, mconf_crc32_finalize

(* Registers that agree in their lowest t bits and from bit m + t on.      *)
Agree(v, w, t, m) ==
  \A j \in 0 .. 31 : j < t \/ j >= m + t => (j \in v <=> j \in w)

(* The highest bit tells whether the polynomial was added, so a turn of    *)
(* the loop over the bits can be undone where registers agree.             *)
LEMMA TurnBack ==
  ASSUME NEW v \in Reg, NEW w \in Reg, NEW t \in 0 .. 7, NEW m \in 0 .. 24,
         Agree(BitStep(v), BitStep(w), t, m)
  PROVE  Agree(v, w, t + 1, m)
<1>1. 31 \in Polynomial
  BY DEF Polynomial
<1>2. 32 \notin v /\ 32 \notin w
  BY DEF Reg
<1>3. \A j \in 0 .. 31 :
        /\ j \in BitStep(v) <=> ((j + 1 \in v) # (0 \in v /\ j \in Polynomial))
        /\ j \in BitStep(w) <=> ((j + 1 \in w) # (0 \in w /\ j \in Polynomial))
  BY BitStepBits
<1> HIDE DEF Polynomial
<1>4. 0 \in v <=> 0 \in w
  <2>1. 31 \in 0 .. 31 /\ 31 + 1 = 32 /\ 31 >= m + t
    OBVIOUS
  <2>2. 31 \in BitStep(v) <=> 31 \in BitStep(w)
    BY <2>1 DEF Agree
  <2>3. (31 \in BitStep(v) <=> 0 \in v) /\ (31 \in BitStep(w) <=> 0 \in w)
    BY <1>1, <1>2, <1>3, <2>1
  <2> QED BY <2>2, <2>3
<1>5. ASSUME NEW j \in 0 .. 31, j < t + 1 \/ j >= m + (t + 1), j # 0
      PROVE  j \in v <=> j \in w
  <2> DEFINE i == j - 1
  <2>1. i \in 0 .. 31 /\ i + 1 = j /\ (i < t \/ i >= m + t)
    BY <1>5
  <2> HIDE DEF i
  <2>2. i \in BitStep(v) <=> i \in BitStep(w)
    BY <2>1 DEF Agree
  <2>3. /\ i \in BitStep(v) <=> ((j \in v) # (0 \in v /\ i \in Polynomial))
        /\ i \in BitStep(w) <=> ((j \in w) # (0 \in w /\ i \in Polynomial))
    BY <1>3, <2>1
  <2> QED BY <1>4, <2>2, <2>3
<1> QED BY <1>4, <1>5 DEF Agree

(* So can a byte: registers that agree from bit m on behind it agree from  *)
(* bit m + 8 on before it, and in the bits the byte was added to.          *)
LEMMA ByteBack ==
  ASSUME NEW r \in Reg, NEW q \in Reg, NEW b \in Octet, NEW c \in Octet, NEW m \in 0 .. 24,
         Agree(mconf_crc32_update_byte(r, b), mconf_crc32_update_byte(q, c), 0, m)
  PROVE  /\ Agree(r, q, 0, m + 8)
         /\ \A j \in 0 .. 7 : j \in Xor(r, b) <=> j \in Xor(q, c)
<1> DEFINE x == Values(r, b)
           y == Values(q, c)
           T == {t \in 0 .. 8 : Agree(x[8 - t], y[8 - t], t, m)}
<1>1. /\ \A k \in 0 .. 8 : x[k] \in Reg /\ y[k] \in Reg
      /\ \A k \in 1 .. 8 : x[k] = BitStep(x[k - 1]) /\ y[k] = BitStep(y[k - 1])
      /\ x[0] = Xor(r, b) /\ y[0] = Xor(q, c)
      /\ x[8] = mconf_crc32_update_byte(r, b) /\ y[8] = mconf_crc32_update_byte(q, c)
  BY ValuesStep
<1> HIDE DEF x, y
<1>2. 0 \in T
  <2>1. 8 - 0 = 8
    OBVIOUS
  <2> QED BY <1>1, <2>1
<1>3. ASSUME NEW t \in 0 .. 8 - 1, t \in T PROVE t + 1 \in T
  <2> DEFINE k == 8 - t
  <2>1. k \in 1 .. 8 /\ k - 1 \in 0 .. 8 /\ 8 - (t + 1) = k - 1 /\ t \in 0 .. 7 /\ t + 1 \in 0 .. 8
    OBVIOUS
  <2>2. Agree(x[k], y[k], t, m)
    BY <1>3
  <2> HIDE DEF k
  <2>3. Agree(x[k - 1], y[k - 1], t + 1, m)
    BY <1>1, <2>1, <2>2, TurnBack
  <2> QED BY <2>1, <2>3
<1> HIDE DEF T
<1>4. 8 \in T
  BY <1>2, <1>3, CountingTo
<1>5. Agree(x[0], y[0], 8, m)
  <2>1. 8 - 8 = 0
    OBVIOUS
  <2> QED BY <1>4, <2>1 DEF T
<1>6. \A j \in 0 .. 31 : j < 8 \/ j >= m + 8 => (j \in Xor(r, b) <=> j \in Xor(q, c))
  BY <1>1, <1>5 DEF Agree
<1>7. ASSUME NEW j \in 0 .. 31, j >= m + 8 PROVE j \in r <=> j \in q
  <2>1. j \notin b /\ j \notin c
    BY <1>7 DEF Octet
  <2> QED BY <1>6, <1>7, <2>1 DEF Xor, SymDiff
<1> QED BY <1>6, <1>7 DEF Agree

(* Equal registers before a byte and agreement behind it: the byte is the  *)
(* same.                                                                   *)
LEMMA SameByte ==
  ASSUME NEW r \in Reg, NEW b \in Octet, NEW c \in Octet, NEW m \in 0 .. 24,
         Agree(mconf_crc32_update_byte(r, b), mconf_crc32_update_byte(r, c), 0, m)
  PROVE  b = c
<1>1. \A j \in 0 .. 7 : j \in Xor(r, b) <=> j \in Xor(r, c)
  BY ByteBack
<1>2. \A j \in 0 .. 7 : j \in b <=> j \in c
  BY <1>1 DEF Xor, SymDiff
<1> QED BY <1>2 DEF Octet

(* The same byte and equal registers behind it: they were equal before.    *)
LEMMA SameBefore ==
  ASSUME NEW r \in Reg, NEW q \in Reg, NEW b \in Octet,
         Agree(mconf_crc32_update_byte(r, b), mconf_crc32_update_byte(q, b), 0, 0)
  PROVE  Agree(r, q, 0, 0)
<1>1. Agree(r, q, 0, 8) /\ \A j \in 0 .. 7 : j \in Xor(r, b) <=> j \in Xor(q, b)
  <2>1. 0 + 8 = 8 /\ 0 \in 0 .. 24
    OBVIOUS
  <2> QED BY <2>1, ByteBack
<1>2. \A j \in 0 .. 7 : j \in r <=> j \in q
  BY <1>1 DEF Xor, SymDiff
<1> QED BY <1>1, <1>2 DEF Agree

(* A message of n bytes that differs from s at most in the four bytes      *)
(* behind the first a.                                                     *)
Burst(s, u, n, a) ==
  /\ Len(s) = n /\ Len(u) = n
  /\ \A k \in 1 .. n : k \in a + 1 .. a + 4 \/ s[k] = u[k]

(* How many of the lower bits of the registers after i bytes may differ.   *)
Open(a, i) == IF i >= a + 4 THEN 0 ELSE 8 * (a + 4 - i)

(* When the registers are equal at the end, they agree from there back to  *)
(* the changed bytes, and byte by byte in fewer bits within them.          *)
LEMMA BurstTail ==
  ASSUME NEW n \in Nat, NEW a \in Nat, NEW s \in Seq(Octet), NEW u \in Seq(Octet),
         Burst(s, u, n, a), NEW f, NEW g,
         \A k \in 0 .. n : f[k] \in Reg /\ g[k] \in Reg,
         \A k \in 1 .. n : /\ f[k] = mconf_crc32_update_byte(f[k - 1], s[k])
                          /\ g[k] = mconf_crc32_update_byte(g[k - 1], u[k]),
         f[n] = g[n], NEW i \in a + 1 .. n
  PROVE  Agree(f[i], g[i], 0, Open(a, i))
<1> DEFINE T == {t \in 0 .. n : n - t >= a + 1 => Agree(f[n - t], g[n - t], 0, Open(a, n - t))}
<1>1. 0 \in T
  <2>1. n - 0 = n /\ 0 \in 0 .. n
    OBVIOUS
  <2>2. Agree(f[n], g[n], 0, Open(a, n))
    BY DEF Agree
  <2> QED BY <2>1, <2>2
<1>2. ASSUME NEW t \in 0 .. n - 1, t \in T PROVE t + 1 \in T
  <2> DEFINE k == n - t
  <2>0. k \in 1 .. n /\ k - 1 \in 0 .. n /\ n - (t + 1) = k - 1 /\ t + 1 \in 0 .. n
    OBVIOUS
  <2>1. k >= a + 1 => Agree(f[k], g[k], 0, Open(a, k))
    BY <1>2
  <2> HIDE DEF k
  <2> SUFFICES ASSUME k - 1 >= a + 1 PROVE Agree(f[k - 1], g[k - 1], 0, Open(a, k - 1))
    BY <2>0
  <2>2. Agree(f[k], g[k], 0, Open(a, k))
    BY <2>0, <2>1
  <2>3. /\ f[k] = mconf_crc32_update_byte(f[k - 1], s[k])
        /\ g[k] = mconf_crc32_update_byte(g[k - 1], u[k])
        /\ f[k - 1] \in Reg /\ g[k - 1] \in Reg /\ s[k] \in Octet /\ u[k] \in Octet
    BY <2>0, ElementOfSeq DEF Burst
  <2>4. CASE k > a + 4
    <3>1. Open(a, k) = 0 /\ Open(a, k - 1) = 0 /\ s[k] = u[k]
      BY <2>0, <2>4 DEF Open, Burst
    <3> QED BY <2>2, <2>3, <3>1, SameBefore
  <2>5. CASE k <= a + 4
    <3>1. Open(a, k) \in 0 .. 24 /\ Open(a, k - 1) = Open(a, k) + 8
      <4>1. k = a + 2 \/ k = a + 3 \/ k = a + 4
        BY <2>0, <2>5
      <4>2. \A j \in {2, 3, 4} : Open(a, a + j) = 32 - 8 * j /\ Open(a, (a + j) - 1) = 40 - 8 * j
        BY DEF Open
      <4> QED BY <4>1, <4>2
    <3> QED BY <2>2, <2>3, <3>1, ByteBack
  <2> QED BY <2>0, <2>4, <2>5
<1> HIDE DEF T
<1>3. n - i \in 0 .. n /\ n - (n - i) = i /\ i >= a + 1
  OBVIOUS
<1>4. n - i \in T
  BY <1>1, <1>2, <1>3, CountingTo
<1> QED BY <1>3, <1>4 DEF T

(* CRC-32 detects every change of up to four neighbouring bytes, in a      *)
(* message of any length: two messages of the same length that differ only *)
(* there and have the same checksum are the same message.                  *)
THEOREM BurstDetected ==
  ASSUME NEW n \in Nat, NEW a \in Nat, NEW s \in Seq(Octet), NEW u \in Seq(Octet),
         Burst(s, u, n, a), mconf_crc32(s) = mconf_crc32(u)
  PROVE  s = u
<1> DEFINE f == Registers(AllOnes, s)
           g == Registers(AllOnes, u)
           T == {k \in 0 .. n : f[k] = g[k]}
<1>1. AllOnes \in Reg /\ Len(s) = n /\ Len(u) = n
  BY DEF AllOnes, Reg, Burst
<1>2. /\ \A k \in 0 .. n : f[k] \in Reg /\ g[k] \in Reg
      /\ f[0] = g[0]
      /\ \A k \in 1 .. n : /\ f[k] = mconf_crc32_update_byte(f[k - 1], s[k])
                           /\ g[k] = mconf_crc32_update_byte(g[k - 1], u[k])
  <2>1. /\ \A k \in 0 .. Len(s) : f[k] \in Reg
        /\ f[0] = AllOnes
        /\ \A k \in 1 .. Len(s) : f[k] = mconf_crc32_update_byte(f[k - 1], s[k])
    BY <1>1, RegistersStep, Zenon
  <2>2. /\ \A k \in 0 .. Len(u) : g[k] \in Reg
        /\ g[0] = AllOnes
        /\ \A k \in 1 .. Len(u) : g[k] = mconf_crc32_update_byte(g[k - 1], u[k])
    BY <1>1, RegistersStep, Zenon
  <2> HIDE DEF f, g
  <2> QED BY <1>1, <2>1, <2>2
<1>3. f[n] = g[n]
  <2>1. Xor(f[n], AllOnes) = Xor(g[n], AllOnes)
    BY <1>1 DEF mconf_crc32, mconf_crc32_finalize
  <2> HIDE DEF f, g
  <2>2. ASSUME NEW A, NEW B, NEW C, Xor(A, C) = Xor(B, C) PROVE A \subseteq B
    <3>1. ASSUME NEW x \in A PROVE x \in B
      <4>1. x \in Xor(A, C) <=> x \notin C
        BY DEF Xor, SymDiff
      <4>2. x \in Xor(B, C) <=> ((x \in B) # (x \in C))
        BY DEF Xor, SymDiff
      <4> QED BY <2>2, <4>1, <4>2
    <3> QED BY <3>1
  <2>3. f[n] \subseteq g[n] /\ g[n] \subseteq f[n]
    BY <2>1, <2>2
  <2> QED BY <2>3
<1> HIDE DEF f, g
<1>4. ASSUME NEW k \in 0 .. n - 1, f[k] = g[k] PROVE s[k + 1] = u[k + 1]
  <2> DEFINE i == k + 1
  <2>1. i \in 1 .. n /\ i - 1 = k /\ k \in 0 .. n
    OBVIOUS
  <2> HIDE DEF i
  <2>2. CASE i \in a + 1 .. a + 4
    <3>1. Open(a, i) \in 0 .. 24 /\ i \in a + 1 .. n
      BY <2>1, <2>2 DEF Open
    <3>2. Agree(f[i], g[i], 0, Open(a, i))
      BY <1>2, <1>3, <3>1, BurstTail
    <3>3. f[k] \in Reg /\ s[i] \in Octet /\ u[i] \in Octet
      BY <1>1, <1>2, <2>1, ElementOfSeq
    <3>4. /\ f[i] = mconf_crc32_update_byte(f[k], s[i])
          /\ g[i] = mconf_crc32_update_byte(f[k], u[i])
      BY <1>2, <1>4, <2>1
    <3> QED BY <3>1, <3>2, <3>3, <3>4, SameByte DEF i
  <2>3. CASE i \notin a + 1 .. a + 4
    BY <2>1, <2>3 DEF Burst, i
  <2> QED BY <2>2, <2>3
<1>5. 0 \in T
  BY <1>2
<1>6. ASSUME NEW k \in 0 .. n - 1, k \in T PROVE k + 1 \in T
  <2>1. k + 1 \in 1 .. n /\ (k + 1) - 1 = k /\ k + 1 \in 0 .. n
    OBVIOUS
  <2> QED BY <1>2, <1>4, <1>6, <2>1
<1> HIDE DEF T
<1>7. \A k \in 0 .. n : f[k] = g[k]
  BY <1>5, <1>6, CountingTo DEF T
<1>8. \A k \in 1 .. n : s[k] = u[k]
  <2> SUFFICES ASSUME NEW k \in 1 .. n PROVE s[k] = u[k]
    OBVIOUS
  <2>1. k - 1 \in 0 .. n - 1 /\ k - 1 \in 0 .. n /\ (k - 1) + 1 = k
    OBVIOUS
  <2> QED BY <1>4, <1>7, <2>1
<1> QED BY <1>1, <1>8, SeqEqual

-----------------------------------------------------------------------------
(* What a record that nobody damaged is read back as.                      *)

(* FlattenedEntry for sequences of bytes.                                  *)
LEMMA JoinedBytes ==
  ASSUME NEW s \in Seq(Seq(Byte)), Len(s) \in Nat \ {0}
  PROVE  /\ FlattenSeq(s) \in Seq(Byte) /\ Len(FlattenSeq(s)) = End(s, Len(s))
         /\ \A i \in 1 .. Len(s) :
              /\ End(s, i - 1) \in Nat /\ End(s, i) \in Nat /\ End(s, i) <= End(s, Len(s))
              /\ End(s, i) = End(s, i - 1) + Len(s[i])
              /\ \A k \in 1 .. Len(s[i]) : FlattenSeq(s)[End(s, i - 1) + k] = s[i][k]
BY FlattenedEntry

(* The bits of the bytes of s, and the register after k of them.           *)
LEMMA BitsType ==
  ASSUME NEW s \in Seq(Byte)
  PROVE  /\ Bits(s) \in Seq(Octet) /\ Len(Bits(s)) = Len(s) /\ Len(s) \in Nat
         /\ \A k \in 1 .. Len(s) : s[k] \in Byte /\ Bits(s)[k] = ByteBits[s[k]]
<1>1. Len(s) \in Nat /\ DOMAIN s = 1 .. Len(s) /\ \A k \in 1 .. Len(s) : s[k] \in Byte
  BY LenProperties, ElementOfSeq
<1>2. Bits(s) \in [1 .. Len(s) -> Octet]
  BY <1>1, CodecAssumption DEF Bits, Octet
<1> QED BY <1>1, <1>2 DEF Bits, Seq

Register(s, k) == Registers(AllOnes, Bits(s))[k]

(* The bytes of t lie in s behind the first x.                             *)
Lies(t, s, x) == x + Len(t) <= Len(s) /\ \A k \in 1 .. Len(t) : s[x + k] = t[k]

(* Updating the register with bytes of s takes it forward in s.            *)
LEMMA RegisterRuns ==
  ASSUME NEW s \in Seq(Byte), NEW x \in Nat, NEW t \in Seq(Byte), Lies(t, s, x)
  PROVE  Updated(Register(s, x), t) = Register(s, x + Len(t))
<1> DEFINE n == Len(t)
           r == Register(s, x)
           f == Registers(r, Bits(t))
           T == {k \in 0 .. n : f[k] = Register(s, x + k)}
<1>1. /\ Bits(s) \in Seq(Octet) /\ Len(Bits(s)) = Len(s) /\ Len(s) \in Nat
      /\ Bits(t) \in Seq(Octet) /\ Len(Bits(t)) = n /\ n \in Nat
      /\ \A k \in 1 .. Len(s) : Bits(s)[k] = ByteBits[s[k]]
      /\ \A k \in 1 .. n : Bits(t)[k] = ByteBits[t[k]]
  BY BitsType
<1>2. AllOnes \in Reg
  BY DEF AllOnes, Reg
<1>3. /\ \A k \in 0 .. Len(s) : Register(s, k) \in Reg
      /\ \A k \in 1 .. Len(s) :
           Register(s, k) = mconf_crc32_update_byte(Register(s, k - 1), Bits(s)[k])
  BY <1>1, <1>2, RegistersStep DEF Register
<1>4. r \in Reg
  BY <1>1, <1>3 DEF Lies
<1>5. f[0] = r /\ \A k \in 1 .. n : f[k] = mconf_crc32_update_byte(f[k - 1], Bits(t)[k])
  BY <1>1, <1>4, RegistersStep
<1>6. 0 \in T
  BY <1>1, <1>5
<1> HIDE DEF f
<1>7. ASSUME NEW k \in 0 .. n - 1, k \in T PROVE k + 1 \in T
  <2> DEFINE j == x + (k + 1)
  <2>1. /\ k + 1 \in 1 .. n /\ (k + 1) - 1 = k /\ j \in 1 .. Len(s) /\ j - 1 = x + k
        /\ k + 1 \in 0 .. n
    BY <1>1 DEF Lies
  <2>2. s[j] = t[k + 1]
    BY <2>1 DEF Lies
  <2> HIDE DEF j
  <2>3. Bits(s)[j] = Bits(t)[k + 1]
    BY <1>1, <2>1, <2>2
  <2>4. f[k + 1] = Register(s, j)
    BY <1>3, <1>5, <1>7, <2>1, <2>3
  <2> QED BY <2>1, <2>4 DEF j
<1> HIDE DEF T, n
<1>8. n \in T
  <2>1. n \in 0 .. n
    BY <1>1
  <2> QED BY <1>1, <1>6, <1>7, <2>1, CountingTo
<1> QED BY <1>8 DEF T, f, n, r, Updated

(* The running checksums over the sequences s.                             *)
CrcAfter(s, i) == Register(FlattenSeq(s), End(s, i))

(* Each follows from the one before.                                       *)
LEMMA SumStep ==
  ASSUME NEW s \in Seq(Seq(Byte)), Len(s) \in Nat \ {0}
  PROVE  /\ CrcAfter(s, 0) = AllOnes
         /\ \A i \in 1 .. Len(s) : CrcAfter(s, i) = Updated(CrcAfter(s, i - 1), s[i])
<1> DEFINE p == FlattenSeq(s)
<1>1. p \in Seq(Byte) /\ Len(p) = End(s, Len(s)) /\ AllOnes \in Reg
  BY JoinedBytes DEF AllOnes, Reg
<1>2. CrcAfter(s, 0) = AllOnes
  BY <1>1, BitsType, RegistersStep DEF CrcAfter, Register, End
<1>3. ASSUME NEW i \in 1 .. Len(s) PROVE CrcAfter(s, i) = Updated(CrcAfter(s, i - 1), s[i])
  <2> DEFINE x == End(s, i - 1)
  <2>1. /\ s[i] \in Seq(Byte) /\ x \in Nat /\ End(s, i) = x + Len(s[i])
        /\ Lies(s[i], p, x)
    BY <1>1, JoinedBytes, ElementOfSeq DEF Lies
  <2> HIDE DEF x, p
  <2>2. Updated(Register(p, x), s[i]) = Register(p, x + Len(s[i]))
    BY <1>1, <2>1, RegisterRuns
  <2> QED BY <2>1, <2>2 DEF CrcAfter, x, p
<1> QED BY <1>2, <1>3

(* Strings are short enough for a length of two bytes.                     *)
LengthsFit == \A s \in SchemaSet : \A i \in 1 .. Len(s) :
                s[i].type = "string" => s[i].size <= ByteMod * ByteMod

(* A length below that bound is read back.                                 *)
LEMMA LengthReadBack ==
  ASSUME NEW n \in Nat, n < ByteMod * ByteMod
  PROVE  ReadLength(LengthBytes(n)) = n
<1> DEFINE m == ByteMod
           q == n \div m
           r == n % m
<1>1. m \in Nat /\ m > 1
  BY CodecAssumption
<1>2. q \in Nat /\ r \in Nat /\ n = m * q + r /\ r < m
  BY <1>1
<1>3. LengthBytes(n)[1] = r /\ LengthBytes(n)[2] = q % m
  BY DEF LengthBytes
<1> HIDE DEF q, r, m
<1>4. q < m
  <2> SUFFICES ASSUME q >= m PROVE FALSE
    BY <1>1, <1>2
  <2>1. m * q >= m * m
    BY <1>1, <1>2
  <2>2. n < m * m
    BY DEF m
  <2> QED BY <1>1, <1>2, <2>1, <2>2
<1>5. q % m = q
  BY <1>1, <1>2, <1>4
<1>6. ReadLength(LengthBytes(n)) = r + m * q
  BY <1>3, <1>5 DEF ReadLength, m
<1> QED BY <1>1, <1>2, <1>6

(* It is what the reference finds, too.                                    *)
LEMMA ReferenceNul ==
  ASSUME NEW n \in Nat, NEW b \in [1 .. n -> Byte], NEW k \in 1 .. n,
         b[k] = 0, \A j \in 1 .. k - 1 : b[j] # 0
  PROVE  SelectInSeq(b, LAMBDA x : x = 0) = k
<1> DEFINE I == {i \in 1 .. Len(b) : b[i] = 0}
<1>1. Len(b) = n
  BY BytesAreSeq
<1>2. k \in I /\ \A i \in I : k <= i
  BY <1>1
<1>3. \A i \in I : i \in Nat
  BY <1>1
<1> HIDE DEF I
<1>4. \A x \in I : (\A y \in I : x <= y) => x = k
  BY <1>2, <1>3
<1>5. Min(I) = k
  BY <1>2, <1>4 DEF Min
<1>6. I # {}
  BY <1>2
<1> QED BY <1>5, <1>6 DEF SelectInSeq, I

(* The number of a word, byte by byte.                                     *)
LEMMA WordMeaning ==
  ASSUME NEW e \in Entry, e.type = "word", NEW o, NEW x, NEW c,
         \A k \in 1 .. e.size : (IF o = "little" THEN x[k] ELSE x[(e.size + 1) - k]) = c[k]
  PROVE  Meaning(e, o, x) = [k \in 1 .. e.size |-> c[k]]
BY DEF Meaning, Entry

(* A scalar or blob means the same on both sides.                          *)
LEMMA ScalarMeaning ==
  ASSUME NEW e \in Entry, e.type # "string", NEW b \in [1 .. e.size -> Byte],
         NEW w \in {"little", "big"}, NEW r \in {"little", "big"}
  PROVE  Meaning(e, r, LittleEndian(e, r, LittleEndian(e, w, b))) = Meaning(e, w, b)
<1> DEFINE n == e.size
           c == LittleEndian(e, w, b)
           d == LittleEndian(e, r, c)
<1>1. n \in Nat /\ c \in [1 .. n -> Byte] /\ d \in [1 .. n -> Byte] /\ Len(b) = n /\ Len(c) = n
  BY LittleEndianType, BytesAreSeq DEF Entry
<1>2. CASE e.type # "word"
  BY <1>2 DEF LittleEndian, Meaning
<1>3. CASE e.type = "word"
  <2>1. \A k \in 1 .. n : (n + 1) - k \in 1 .. n /\ (n - k) + 1 = (n + 1) - k
                          /\ (n + 1) - ((n + 1) - k) = k
    BY <1>1
  <2>2. \A k \in 1 .. n : c[k] = IF w = "big" THEN b[(n + 1) - k] ELSE b[k]
    BY <1>1, <1>3, <2>1 DEF LittleEndian, Reverse
  <2>3. \A k \in 1 .. n : d[k] = IF r = "big" THEN c[(n + 1) - k] ELSE c[k]
    BY <1>1, <1>3, <2>1 DEF LittleEndian, Reverse
  <2> DEFINE a == b
  <2>a. \A k \in 1 .. n : c[k] = IF w = "big" THEN a[(n + 1) - k] ELSE a[k]
    BY <2>2
  <2> HIDE DEF a, c, d
  <2>4. \A k \in 1 .. n : (IF r = "little" THEN d[k] ELSE d[(n + 1) - k]) = c[k]
    BY <2>1, <2>3
  <2>5. \A k \in 1 .. n : (IF w = "little" THEN a[k] ELSE a[(n + 1) - k]) = c[k]
    BY <2>1, <2>a
  <2>6. Meaning(e, r, d) = [k \in 1 .. n |-> c[k]]
    BY <1>3, <2>4, WordMeaning
  <2>7. Meaning(e, w, a) = [k \in 1 .. n |-> c[k]]
    BY <1>3, <2>5, WordMeaning
  <2> QED BY <2>6, <2>7 DEF a, c, d
<1> QED BY <1>2, <1>3

(* The characters of b with NULs behind them.                              *)
StringOf(e, b, d) ==
  /\ d \in [1 .. e.size -> Byte]
  /\ \A k \in 1 .. e.size : d[k] = IF k <= StringLength(b) THEN b[k] ELSE 0

(* A string means its length; the reader's field has the same first NUL.   *)
LEMMA StringMeaning ==
  ASSUME NEW e \in Entry, e.type = "string", NEW b \in FieldBytes(e), NEW w, NEW r,
         NEW d, StringOf(e, b, d)
  PROVE  Meaning(e, r, d) = Meaning(e, w, b)
<1> DEFINE l == StringLength(b)
<1>1. e.size \in Nat /\ b \in [1 .. e.size -> Byte] /\ Terminated(b)
  BY DEF Entry, FieldBytes
<1>2. l \in 0 .. e.size - 1 /\ b[l + 1] = 0 /\ \A j \in 1 .. l : b[j] # 0
  BY <1>1, FirstNul
<1> HIDE DEF l
<1>3. /\ d \in [1 .. e.size -> Byte]
      /\ \A k \in 1 .. e.size : d[k] = IF k <= l THEN b[k] ELSE 0
  BY DEF StringOf, l
<1>4. l + 1 \in 1 .. e.size /\ (l + 1) - 1 = l
  BY <1>1, <1>2
<1>5. d[l + 1] = 0 /\ \A j \in 1 .. l : d[j] # 0
  BY <1>1, <1>2, <1>3, <1>4
<1>6. SelectInSeq(b, LAMBDA x : x = 0) = l + 1
  BY <1>1, <1>2, <1>4, ReferenceNul
<1>7. SelectInSeq(d, LAMBDA x : x = 0) = l + 1
  BY <1>1, <1>3, <1>4, <1>5, ReferenceNul
<1> QED BY <1>6, <1>7 DEF Meaning

(* What is stored for a string: its length and its characters.             *)
LEMMA StringStored ==
  ASSUME NEW e \in Entry, e.type = "string", NEW b \in FieldBytes(e), NEW o
  PROVE  /\ Len(EntryBytes(e, o, b)) = 2 + StringLength(b)
         /\ EntryBytes(e, o, b)[1] = LengthBytes(StringLength(b))[1]
         /\ EntryBytes(e, o, b)[2] = LengthBytes(StringLength(b))[2]
         /\ \A k \in 1 .. StringLength(b) : EntryBytes(e, o, b)[2 + k] = b[k]
<1> DEFINE l == StringLength(b)
           x == LengthBytes(l)
           y == SubSeq(b, 1, l)
<1>1. e.size \in Nat /\ b \in [1 .. e.size -> Byte] /\ Terminated(b)
  BY DEF Entry, FieldBytes
<1>2. l \in 0 .. e.size - 1
  BY <1>1, FirstNul
<1>3. b \in Seq(Byte) /\ Len(b) = e.size
  BY <1>1, BytesAreSeq
<1>4. x \in Seq(Byte) /\ Len(x) = 2
  <2>1. l % ByteMod \in Byte /\ (l \div ByteMod) % ByteMod \in Byte
    BY <1>1, <1>2, DigitsAreBytes
  <2> QED BY <2>1 DEF LengthBytes
<1>5. y \in Seq(Byte) /\ Len(y) = l /\ \A k \in 1 .. l : y[k] = b[k]
  BY <1>1, <1>2, <1>3, SubSeqProperties
<1> HIDE DEF x, y
<1>6. Appended(x, y, x \o y)
  BY <1>4, <1>5, Concatenated
<1>7. EntryBytes(e, o, b) = x \o y
  BY DEF EntryBytes, x, y
<1>8. 1 \in 1 .. Len(x) /\ 2 \in 1 .. Len(x)
  BY <1>4
<1> QED BY <1>4, <1>5, <1>6, <1>7, <1>8 DEF Appended, x

(* The layout counts the bytes that are stored.                            *)
LEMMA EntrySize ==
  ASSUME NEW e \in Entry, NEW b \in FieldBytes(e), NEW o
  PROVE  Len(EntryBytes(e, o, b)) = mconf_serialized_entry_size(e, b)
<1>1. CASE e.type = "string"
  BY <1>1, StringStored DEF mconf_serialized_entry_size
<1>2. CASE e.type # "string"
  <2>1. e.size \in Nat /\ b \in [1 .. e.size -> Byte]
    BY DEF Entry, FieldBytes
  <2>2. LittleEndian(e, o, b) \in [1 .. e.size -> Byte]
    BY <2>1, LittleEndianType
  <2> QED BY <1>2, <2>1, <2>2, BytesAreSeq DEF EntryBytes, mconf_serialized_entry_size
<1> QED BY <1>1, <1>2

(* The entries as they are stored.                                         *)
Entries == [i \in DOMAIN schema |-> EntryBytes(schema[i], order.writer, field[i])]

(* They are sequences of bytes.                                            *)
LEMMA EntriesTyped ==
  ASSUME DecodeInv
  PROVE  /\ Entries \in Seq(Seq(Byte)) /\ Len(Entries) = Len(schema)
         /\ Len(schema) \in Nat \ {0} /\ Len(Entries) \in Nat \ {0}
         /\ \A i \in 1 .. Len(schema) :
              /\ schema[i] \in Entry /\ field[i] \in FieldBytes(schema[i])
              /\ Entries[i] = EntryBytes(schema[i], order.writer, field[i])
<1>1. /\ Len(schema) \in Nat \ {0} /\ DOMAIN schema = 1 .. Len(schema)
      /\ \A i \in 1 .. Len(schema) : schema[i] \in Entry /\ field[i] \in FieldBytes(schema[i])
  BY SchemaType DEF DecodeInv, FieldInv
<1>2. \A i \in 1 .. Len(schema) : EntryBytes(schema[i], order.writer, field[i]) \in Seq(Byte)
  BY <1>1, EntryBytesType
<1>3. Entries \in [1 .. Len(schema) -> Seq(Byte)]
  BY <1>1, <1>2 DEF Entries
<1>4. Entries \in Seq(Seq(Byte)) /\ Len(Entries) = Len(schema)
  <2> DEFINE T == Seq(Byte)
  <2>1. Entries \in [1 .. Len(schema) -> T]
    BY <1>3
  <2> HIDE DEF T
  <2>2. Entries \in Seq(T) /\ Len(Entries) = Len(schema)
    BY <1>1, <2>1 DEF Seq
  <2> QED BY <2>2 DEF T
<1> QED BY <1>1, <1>4 DEF Entries

(* Bytes that agree one by one.                                            *)
SameOn(I, u, v) == u \in [I -> Byte] /\ v \in [I -> Byte] /\ \A k \in I : u[k] = v[k]

(* So they are equal.                                                     *)
LEMMA SameBytes ==
  ASSUME NEW I, NEW u, NEW v, SameOn(I, u, v)
  PROVE  u = v
BY DEF SameOn

(* A read gives the bytes from its offset on.                              *)
LEMMA StoredByte ==
  ASSUME medium \in Seq(Byte), NEW offset \in Nat, NEW n \in Nat, InRegion(offset, n)
  PROVE  \A k \in 1 .. n : Stored(offset, n)[k] = medium[offset + k]
<1>1. offset + n <= Len(medium) /\ Len(medium) \in Nat
  BY LenProperties DEF InRegion
<1> QED BY <1>1, SubSeqProperties DEF Stored

(* Nothing of the payload has changed on the medium.                       *)
Intact == SubSeq(medium, 1, Len(Payload)) = Payload

(* Then each entry is found where the reader looks for it.                 *)
LEMMA EntryIntact ==
  ASSUME DecodeInv, Intact, End(Entries, Len(schema)) <= Len(medium), NEW i \in 1 .. Len(schema)
  PROVE  /\ InRegion(End(Entries, i - 1), Len(Entries[i]))
         /\ Stored(End(Entries, i - 1), Len(Entries[i])) = Entries[i]
         /\ \A k \in 1 .. Len(Entries[i]) : medium[End(Entries, i - 1) + k] = Entries[i][k]
<1> DEFINE s == Entries
           n == Len(schema)
           x == End(s, i - 1)
           m == Len(s[i])
           p == FlattenSeq(s)
<1>1. /\ s \in Seq(Seq(Byte)) /\ Len(s) = n /\ n \in Nat \ {0} /\ i \in 1 .. n
      /\ s[i] \in Seq(Byte) /\ m \in Nat
  BY EntriesTyped, ElementOfSeq, LenProperties
<1>2. /\ p \in Seq(Byte) /\ Len(p) = End(s, n) /\ Len(p) \in Nat
      /\ x \in Nat /\ End(s, i) <= Len(p) /\ End(s, i) = x + m
      /\ \A k \in 1 .. m : p[x + k] = s[i][k]
  BY <1>1, JoinedBytes, LenProperties
<1>3. Payload = p
  BY DEF Payload, Entries
<1>4. medium \in Seq(Byte) /\ Len(medium) \in Nat /\ Len(p) <= Len(medium)
  BY <1>2, LenProperties DEF DecodeInv
<1> HIDE DEF s, n, x, m, p
<1>5. \A k \in 1 .. Len(p) : SubSeq(medium, 1, Len(p))[k] = medium[k]
  BY <1>2, <1>4, SubSeqProperties
<1>6. \A k \in 1 .. Len(p) : medium[k] = p[k]
  BY <1>3, <1>5 DEF Intact
<1>7. \A k \in 1 .. m : x + k \in 1 .. Len(p)
  BY <1>1, <1>2
<1>8. \A k \in 1 .. m : medium[x + k] = s[i][k]
  BY <1>2, <1>6, <1>7
<1>9. InRegion(x, m)
  BY <1>1, <1>2, <1>4 DEF InRegion
<1>10. Stored(x, m) = s[i]
  <2>1. Stored(x, m) \in [1 .. m -> Byte]
    BY <1>1, <1>2, <1>4, <1>9, StoredType
  <2>2. \A k \in 1 .. m : Stored(x, m)[k] = medium[x + k]
    BY <1>1, <1>2, <1>4, <1>9, StoredByte
  <2>3. s[i] \in [1 .. m -> Byte]
    BY <1>1, LenProperties DEF m
  <2>4. \A k \in 1 .. m : Stored(x, m)[k] = s[i][k]
    BY <1>8, <2>2
  <2>5. SameOn(1 .. m, Stored(x, m), s[i])
    BY <2>1, <2>3, <2>4 DEF SameOn
  <2> QED BY <2>5, SameBytes
<1> QED BY <1>8, <1>9, <1>10 DEF s, x, m

(* The writer counts and sums up the bytes that are stored, entry by       *)
(* entry; the reader starts at the first.                                  *)
LayoutInv ==
  /\ order.writer \in {"little", "big"} /\ order.reader \in {"little", "big"}
  /\ Len(medium) >= Room
  /\ pc \in {"layout", "size", "write", "stored", "read", "check", "done"}
  /\ IF pc = "layout"
     THEN /\ payload_length = End(Entries, index - 1)
          /\ payload_crc = CrcAfter(Entries, index - 1)
     ELSE /\ payload_length = End(Entries, Len(schema))
          /\ payload_crc = mconf_crc32_finalize(CrcAfter(Entries, Len(schema)))
  /\ pc \in {"size", "stored"} => index = 1
  /\ pc = "stored" => running_offset = 0
  /\ pc \in {"layout", "size", "write", "stored"} => crc = AllOnes

(* Writing does not change the size of the medium.                         *)
LEMMA WrittenLength ==
  ASSUME medium \in Seq(Byte), NEW offset, NEW b
  PROVE  Len(Written(offset, b)) = Len(medium)
<1>1. DOMAIN medium = 1 .. Len(medium) /\ Len(medium) \in Nat
  BY LenProperties
<1> QED BY <1>1 DEF Written

(* It holds at the start.                                                  *)
LEMMA LayoutInit == Init => LayoutInv
<1> SUFFICES ASSUME Init PROVE LayoutInv
  OBVIOUS
<1>1. Len(medium) >= Room
  <2>1. PICK b \in {0, Behind} : medium = [i \in 1 .. Room + b |-> ErasedByte]
    BY DEF Init
  <2>2. b \in Nat /\ Room \in Nat
    BY <2>1, CodecAssumption
  <2> QED BY <2>1, <2>2
<1>2. order.writer \in {"little", "big"} /\ order.reader \in {"little", "big"}
  BY CodecAssumption DEF Init
<1>3. End(Entries, index - 1) = 0 /\ CrcAfter(Entries, index - 1) = AllOnes
  <2>1. DecodeInv
    BY DecodeInit
  <2>2. index - 1 = 0
    BY DEF Init
  <2> QED BY <2>1, <2>2, EntriesTyped, SumStep DEF End
<1> QED BY <1>1, <1>2, <1>3 DEF Init, LayoutInv

(* What the fields say of the entries stays while they stay.               *)
LEMMA SameEntries ==
  ASSUME UNCHANGED <<schema, order, field>>
  PROVE  Entries' = Entries /\ Payload' = Payload
BY DEF Entries, Payload

(* Every step keeps it.                                                    *)
LEMMA LayoutStep ==
  ASSUME DecodeInv, LayoutInv, [Next]_vars
  PROVE  LayoutInv'
<1> DEFINE n == Len(schema)
<1>a. /\ n \in Nat \ {0} /\ index \in 1 .. n /\ medium \in Seq(Byte)
      /\ schema[index] \in Entry /\ field[index] \in FieldBytes(schema[index])
      /\ Entries[index] = EntryBytes(schema[index], order.writer, field[index])
  BY EntriesTyped DEF DecodeInv
<1>b. /\ End(Entries, index) = End(Entries, index - 1) + Len(Entries[index])
      /\ CrcAfter(Entries, index) = Updated(CrcAfter(Entries, index - 1), Entries[index])
  BY <1>a, EntriesTyped, JoinedBytes, SumStep
<1>1. CASE mconf_compute_payload_layout
  <2>1. /\ pc = "layout" /\ UNCHANGED <<schema, order, field, medium, running_offset, crc, dst, err>>
        /\ payload_length' = End(Entries, index)
        /\ payload_crc' = IF index = n THEN mconf_crc32_finalize(CrcAfter(Entries, index))
                          ELSE CrcAfter(Entries, index)
        /\ Advance("size")
    <3>1. Len(Entries[index]) = mconf_serialized_entry_size(schema[index], field[index])
      BY <1>a, EntrySize
    <3> QED BY <1>1, <1>a, <1>b, <3>1 DEF mconf_compute_payload_layout, LayoutInv
  <2>2. CASE index = n
    BY <1>a, <2>1, <2>2, SameEntries DEF LayoutInv, Advance
  <2>3. CASE index # n
    <3>1. pc' = "layout" /\ index' = index + 1 /\ index' - 1 = index
      BY <1>a, <2>1, <2>3 DEF Advance
    <3> QED BY <2>1, <2>3, <3>1, SameEntries DEF LayoutInv
  <2> QED BY <2>2, <2>3
<1>2. CASE CheckRoom
  BY <1>2, SameEntries DEF CheckRoom, LayoutInv, written
<1>3. CASE mconf_serialize_payload_to_storage
  <2>1. Len(medium') = Len(medium)
    BY <1>3, <1>a, WrittenLength DEF mconf_serialize_payload_to_storage
  <2>2. /\ pc = "write" /\ pc' \in {"write", "stored"}
        /\ pc' = "stored" => index' = 1 /\ running_offset' = 0
    BY <1>3, <1>a DEF mconf_serialize_payload_to_storage, Advance
  <2> QED BY <1>3, <2>1, <2>2, SameEntries
          DEF mconf_serialize_payload_to_storage, LayoutInv, written
<1>4. CASE AtRest
  <2>1. Len(medium') = Len(medium)
    BY <1>4, <1>a, WrittenLength DEF AtRest
  <2> QED BY <1>4, <2>1, SameEntries DEF AtRest, LayoutInv, written
<1>5. CASE LoadString \/ LoadScalarOrBlob
  <2>1. pc = "read" /\ pc' \in {"read", "check", "done"} /\ UNCHANGED <<written, medium>>
    BY <1>5 DEF LoadString, LoadScalarOrBlob, Advance, Fail
  <2> QED BY <2>1, SameEntries DEF LayoutInv, written
<1>6. CASE CheckPayload
  BY <1>6, SameEntries DEF CheckPayload, LayoutInv, written
<1>7. CASE UNCHANGED vars
  BY <1>7, SameEntries DEF vars, written, LayoutInv
<1> QED
  BY <1>1, <1>2, <1>3, <1>4, <1>5, <1>6, <1>7 DEF Next

(* The sum of all entries is the one of the payload as a whole.            *)
LEMMA PayloadSum ==
  ASSUME DecodeInv
  PROVE  /\ Payload \in Seq(Byte) /\ Len(Payload) = End(Entries, Len(schema))
         /\ mconf_crc32_finalize(CrcAfter(Entries, Len(schema))) = mconf_crc32(Bits(Payload))
<1>1. /\ Entries \in Seq(Seq(Byte)) /\ Len(Entries) = Len(schema) /\ Len(Entries) \in Nat \ {0}
      /\ Payload = FlattenSeq(Entries)
  BY EntriesTyped DEF Payload, Entries
<1>2. Payload \in Seq(Byte) /\ Len(Payload) = End(Entries, Len(schema))
  BY <1>1, JoinedBytes
<1>3. CrcAfter(Entries, Len(schema)) = Registers(AllOnes, Bits(Payload))[Len(Bits(Payload))]
  BY <1>1, <1>2, BitsType DEF CrcAfter, Register
<1> QED BY <1>2, <1>3 DEF mconf_crc32

(* The checksum the writer puts into the header, updated entry by entry,   *)
(* is the CRC-32 of the payload, for every schema and every content of the *)
(* fields (mconf_compute_payload_layout).                                  *)
THEOREM HeaderHoldsCrc32 == Spec => []ChecksumIsCrc32
<1>1. DecodeInv /\ LayoutInv => ChecksumIsCrc32
  <2> SUFFICES ASSUME DecodeInv, LayoutInv, pc = "size"
               PROVE  /\ payload_crc = mconf_crc32(Bits(Payload))
                      /\ payload_crc = Crc32(Bits(Payload))
    BY DEF ChecksumIsCrc32
  <2>1. payload_crc = mconf_crc32(Bits(Payload))
    BY PayloadSum DEF LayoutInv
  <2>2. Bits(Payload) \in Seq(Octet)
    BY PayloadSum, BitsType
  <2> QED BY <2>1, <2>2, RegisterDivides
<1>2. DecodeInv /\ LayoutInv /\ [Next]_vars => LayoutInv'
  BY LayoutStep
<1> QED
  BY <1>1, <1>2, LayoutInit, DecodeInit, DecodeStep, PTL DEF Spec

-----------------------------------------------------------------------------
(* What the reader makes of the bytes on the medium.                       *)

(* On a payload that has not changed, the reader stands where the writer   *)
(* stood, and has decoded the first i entries.                             *)
Reader(i) ==
  /\ running_offset = End(Entries, i) /\ crc = CrcAfter(Entries, i)
  /\ \A j \in 1 .. i : SameMeaning(j)

RoundInv ==
  /\ Intact /\ pc = "read" => Reader(index - 1)
  /\ Intact /\ pc = "check" => Reader(Len(schema))
  /\ Intact /\ pc = "done" /\ err # "TOO_BIG" =>
       err = "OK" /\ \A j \in 1 .. Len(schema) : SameMeaning(j)

(* A payload that is read lies on the medium.                              *)
LEMMA PayloadFits ==
  ASSUME DecodeInv, LayoutInv, RoomInv, pc = "read"
  PROVE  End(Entries, Len(schema)) <= Len(medium)
<1>1. payload_length = End(Entries, Len(schema)) /\ payload_length <= Room /\ Room <= Len(medium)
  BY DEF LayoutInv, RoomInv
<1>2. End(Entries, Len(schema)) \in Nat
  BY EntriesTyped, JoinedBytes, LenProperties
<1>3. Len(medium) \in Nat /\ Room \in Nat
  BY CodecAssumption, LenProperties DEF DecodeInv
<1> QED BY <1>1, <1>2, <1>3

(* An intact string is decoded to what it means to the writer.             *)
LEMMA StringRead ==
  ASSUME LengthsFit, DecodeInv, LayoutInv, RoundInv, RoomInv, Intact, LoadString
  PROVE  /\ dst' = [dst EXCEPT ![index] = dst'[index]]
         /\ running_offset' = End(Entries, index) /\ crc' = CrcAfter(Entries, index)
         /\ Advance("check") /\ UNCHANGED <<written, medium, err>>
         /\ Meaning(schema[index], order.reader, dst'[index])
              = Meaning(schema[index], order.writer, field[index])
         /\ \A k \in 1 .. StringLength(field[index]) : dst'[index][k] = field[index][k]
<1> DEFINE e == schema[index]
           b == field[index]
           l == StringLength(b)
           x == running_offset
           t == Entries[index]
           start == x + 2
           length == ReadLength(Stored(x, 2))
           d == [i \in 1 .. IF length + 1 > e.size THEN length + 1 ELSE e.size |->
                   IF i <= length THEN medium[start + i] ELSE 0]
<1>1. /\ pc = "read" /\ e.type = "string" /\ index \in 1 .. Len(schema)
      /\ e \in Entry /\ b \in FieldBytes(e) /\ t = EntryBytes(e, order.writer, b)
      /\ e.size <= ByteMod * ByteMod /\ DOMAIN dst = 1 .. Len(schema)
  BY EntriesTyped DEF LoadString, DecodeInv, LengthsFit
<1>2. e.size \in Nat /\ b \in [1 .. e.size -> Byte] /\ Terminated(b)
  BY <1>1 DEF Entry, FieldBytes
<1>3. l \in 0 .. e.size - 1
  BY <1>2, FirstNul
<1>4. x = End(Entries, index - 1) /\ crc = CrcAfter(Entries, index - 1)
  BY <1>1 DEF RoundInv, Reader
<1>5. End(Entries, Len(schema)) <= Len(medium)
  BY <1>1, PayloadFits
<1>6. /\ InRegion(x, Len(t)) /\ Stored(x, Len(t)) = t
      /\ \A k \in 1 .. Len(t) : medium[x + k] = t[k]
  BY <1>1, <1>4, <1>5, EntryIntact
<1>7. /\ x \in Nat /\ End(Entries, index) = x + Len(t)
      /\ CrcAfter(Entries, index) = Updated(crc, t)
  BY <1>1, <1>4, EntriesTyped, JoinedBytes, SumStep
<1>8. /\ Len(t) = 2 + l /\ t[1] = LengthBytes(l)[1] /\ t[2] = LengthBytes(l)[2]
      /\ \A k \in 1 .. l : t[2 + k] = b[k]
  BY <1>1, StringStored
<1> HIDE DEF e, b, l, x, t
<1>9. medium \in Seq(Byte) /\ Len(medium) \in Nat /\ l \in Nat
  BY <1>2, <1>3, LenProperties DEF DecodeInv
<1>10. InRegion(x, 2) /\ InRegion(start, l)
  BY <1>6, <1>7, <1>8, <1>9 DEF InRegion
<1>11. length = l
  <2>1. Stored(x, 2)[1] = medium[x + 1] /\ Stored(x, 2)[2] = medium[x + 2]
    BY <1>7, <1>9, <1>10, StoredByte
  <2>2. medium[x + 1] = t[1] /\ medium[x + 2] = t[2]
    BY <1>6, <1>8, <1>9
  <2>3. ReadLength(Stored(x, 2)) = ReadLength(LengthBytes(l))
    BY <1>8, <2>1, <2>2 DEF ReadLength
  <2>4. l < ByteMod * ByteMod
    <3> DEFINE mm == ByteMod * ByteMod
    <3>1. mm \in Nat
      BY CodecAssumption
    <3>2. e.size <= mm
      BY <1>1
    <3> HIDE DEF mm
    <3>3. l < mm
      BY <1>2, <1>3, <3>1, <3>2
    <3> QED BY <3>3 DEF mm
  <2> QED BY <1>9, <2>3, <2>4, LengthReadBack
<1>12. StringFits(e, l)
  BY <1>2, <1>3 DEF StringFits
<1>13. /\ dst' = [dst EXCEPT ![index] = d] /\ crc' = Updated(crc, Stored(x, 2 + length))
       /\ running_offset' = start + length
       /\ Advance("check") /\ UNCHANGED <<written, medium, err>>
  <2>1. InRegion(x, 2) /\ StringFits(e, length) /\ InRegion(start, length)
    BY <1>10, <1>11, <1>12
  <2> QED BY <2>1 DEF LoadString, e, x
<1> HIDE DEF length, start
<1>14. d = [k \in 1 .. e.size |-> IF k <= l THEN medium[start + k] ELSE 0]
  BY <1>2, <1>3, <1>11
<1> HIDE DEF d
<1>15. dst'[index] = d
  BY <1>1, <1>13
<1>16. \A k \in 1 .. l : medium[start + k] = b[k]
  <2>1. \A k \in 1 .. l : 2 + k \in 1 .. Len(t) /\ start + k = x + (2 + k)
    BY <1>7, <1>8, <1>9 DEF start
  <2> QED BY <1>6, <1>8, <2>1
<1>17. \A k \in 1 .. e.size : d[k] = IF k <= l THEN b[k] ELSE 0
  BY <1>2, <1>3, <1>14, <1>16
<1>18. d \in [1 .. e.size -> Byte]
  <2>1. 0 \in Byte
    BY CodecAssumption DEF Byte
  <2>2. \A k \in 1 .. e.size : (IF k <= l THEN b[k] ELSE 0) \in Byte
    BY <1>2, <2>1
  <2> QED BY <1>14, <1>17, <2>2
<1>19. Meaning(e, order.reader, d) = Meaning(e, order.writer, b)
  <2>1. StringOf(e, b, d)
    BY <1>17, <1>18 DEF StringOf, l
  <2> QED BY <1>1, <2>1, StringMeaning
<1>20. \A k \in 1 .. l : d[k] = b[k]
  BY <1>2, <1>3, <1>17
<1>21. running_offset' = End(Entries, index)
  BY <1>7, <1>8, <1>9, <1>11, <1>13 DEF start
<1>22. crc' = CrcAfter(Entries, index)
  BY <1>6, <1>7, <1>8, <1>11, <1>13
<1> QED
  BY <1>13, <1>15, <1>19, <1>20, <1>21, <1>22 DEF e, b, l

(* So is any other entry.                                                  *)
LEMMA ScalarRead ==
  ASSUME DecodeInv, LayoutInv, RoundInv, RoomInv, Intact, LoadScalarOrBlob
  PROVE  /\ dst' = [dst EXCEPT ![index] = dst'[index]]
         /\ running_offset' = End(Entries, index) /\ crc' = CrcAfter(Entries, index)
         /\ Advance("check") /\ UNCHANGED <<written, medium, err>>
         /\ Meaning(schema[index], order.reader, dst'[index])
              = Meaning(schema[index], order.writer, field[index])
<1> DEFINE e == schema[index]
           b == field[index]
           x == running_offset
           t == Entries[index]
           d == LittleEndian(e, order.reader, Stored(x, e.size))
<1>1. /\ pc = "read" /\ e.type # "string" /\ index \in 1 .. Len(schema)
      /\ e \in Entry /\ b \in FieldBytes(e) /\ t = EntryBytes(e, order.writer, b)
      /\ DOMAIN dst = 1 .. Len(schema)
  BY EntriesTyped DEF LoadScalarOrBlob, DecodeInv
<1>2. b \in [1 .. e.size -> Byte] /\ t = LittleEndian(e, order.writer, b)
  BY <1>1 DEF FieldBytes, EntryBytes
<1>3. x = End(Entries, index - 1) /\ crc = CrcAfter(Entries, index - 1)
  BY <1>1 DEF RoundInv, Reader
<1>4. InRegion(x, Len(t)) /\ Stored(x, Len(t)) = t
  BY <1>1, <1>3, PayloadFits, EntryIntact
<1>5. End(Entries, index) = x + Len(t) /\ CrcAfter(Entries, index) = Updated(crc, t)
  BY <1>1, <1>3, EntriesTyped, JoinedBytes, SumStep
<1>6. Len(t) = e.size
  BY <1>1, EntrySize DEF mconf_serialized_entry_size
<1> HIDE DEF e, b, x, t
<1>7. /\ dst' = [dst EXCEPT ![index] = d] /\ crc' = Updated(crc, Stored(x, e.size))
      /\ running_offset' = x + e.size
      /\ Advance("check") /\ UNCHANGED <<written, medium, err>>
  <2>1. InRegion(x, e.size)
    BY <1>4, <1>6
  <2> QED BY <2>1 DEF LoadScalarOrBlob, e, x
<1>8. d = LittleEndian(e, order.reader, LittleEndian(e, order.writer, b))
  BY <1>2, <1>4, <1>6
<1>9. Meaning(e, order.reader, d) = Meaning(e, order.writer, b)
  BY <1>1, <1>2, <1>8, ScalarMeaning DEF LayoutInv
<1> HIDE DEF d
<1>10. dst'[index] = d
  BY <1>1, <1>7
<1> QED
  BY <1>4, <1>5, <1>6, <1>7, <1>9, <1>10 DEF e, b

(* A step of the reader on an intact payload keeps the invariant.          *)
LEMMA ReadStep ==
  ASSUME LengthsFit, DecodeInv, LayoutInv, RoundInv, RoomInv, Intact,
         LoadString \/ LoadScalarOrBlob
  PROVE  /\ pc' \in {"read", "check"} /\ UNCHANGED <<written, medium>>
         /\ pc' = "read" => Reader(index - 1)'
         /\ pc' = "check" => Reader(Len(schema))'
<1> DEFINE n == Len(schema)
<1>1. /\ pc = "read" /\ Reader(index - 1) /\ index \in 1 .. n /\ n \in Nat
      /\ DOMAIN dst = 1 .. n
  BY EntriesTyped DEF RoundInv, LoadString, LoadScalarOrBlob, DecodeInv
<1>2. /\ dst' = [dst EXCEPT ![index] = dst'[index]]
      /\ running_offset' = End(Entries, index) /\ crc' = CrcAfter(Entries, index)
      /\ Advance("check") /\ UNCHANGED <<written, medium>>
      /\ Meaning(schema[index], order.reader, dst'[index])
           = Meaning(schema[index], order.writer, field[index])
      /\ schema[index].type = "string" =>
           \A k \in 1 .. StringLength(field[index]) : dst'[index][k] = field[index][k]
  BY StringRead, ScalarRead DEF LoadString, LoadScalarOrBlob
<1>3. UNCHANGED <<schema, order, field>> /\ Entries' = Entries
  BY <1>2 DEF written, Entries
<1>4. ASSUME NEW j, j = index PROVE SameMeaning(j)'
  BY <1>2, <1>3, <1>4 DEF SameMeaning
<1>5. ASSUME NEW j \in 1 .. index - 1 PROVE SameMeaning(j)'
  <2>1. SameMeaning(j) /\ j # index
    BY <1>1 DEF Reader
  <2>2. dst'[j] = dst[j]
    BY <1>1, <1>2, <2>1
  <2> QED BY <1>3, <2>1, <2>2 DEF SameMeaning
<1>6. \A j \in 1 .. index : SameMeaning(j)'
  <2>1. \A j \in 1 .. index : j = index \/ j \in 1 .. index - 1
    BY <1>1
  <2> QED BY <1>4, <1>5, <2>1
<1>7. CASE index = n
  BY <1>1, <1>2, <1>3, <1>6, <1>7 DEF Reader, Advance
<1>8. CASE index # n
  <2>1. pc' = "read" /\ index' = index + 1 /\ index' - 1 = index
    BY <1>1, <1>2, <1>8 DEF Advance
  <2> QED BY <1>2, <1>3, <1>6, <2>1 DEF Reader
<1> QED BY <1>7, <1>8

(* Every step keeps the two sides together.                                *)
LEMMA RoundStep ==
  ASSUME LengthsFit, DecodeInv, RoomInv, LayoutInv, RoundInv, [Next]_vars
  PROVE  RoundInv'
<1> DEFINE n == Len(schema)
<1>1. CASE \/ mconf_compute_payload_layout \/ CheckRoom
           \/ mconf_serialize_payload_to_storage
  <2>1. pc' \notin {"read", "check"} /\ (pc' = "done" => err' = "TOO_BIG")
    BY <1>1 DEF mconf_compute_payload_layout, CheckRoom, mconf_serialize_payload_to_storage, Advance
  <2> QED BY <2>1 DEF RoundInv
<1>2. CASE AtRest
  <2>1. /\ pc' = "read" /\ UNCHANGED <<written, index, running_offset, crc, dst, err>>
        /\ index' - 1 = 0 /\ running_offset' = 0 /\ crc' = AllOnes
    BY <1>2 DEF AtRest, LayoutInv
  <2>2. Reader(index - 1)'
    <3>1. Entries' = Entries
      BY <2>1, SameEntries DEF written
    <3>2. End(Entries, 0) = 0 /\ CrcAfter(Entries, 0) = AllOnes
      BY EntriesTyped, SumStep DEF End
    <3>3. \A j \in 1 .. index' - 1 : FALSE
      BY <2>1
    <3> QED BY <2>1, <3>1, <3>2, <3>3 DEF Reader
  <2> QED BY <2>1, <2>2 DEF RoundInv
<1>3. CASE LoadString \/ LoadScalarOrBlob
  <2>1. UNCHANGED <<written, medium>>
    BY <1>3 DEF LoadString, LoadScalarOrBlob, Fail
  <2>2. Intact' = Intact
    BY <2>1, SameEntries DEF written, Intact
  <2>3. /\ Intact' /\ pc' = "read" => Reader(index - 1)'
        /\ Intact' /\ pc' = "check" => Reader(Len(schema))'
        /\ Intact' => pc' # "done"
    BY <1>3, <2>2, ReadStep
  <2> QED BY <2>3 DEF RoundInv
<1>4. CASE CheckPayload
  <2>1. /\ pc = "check" /\ pc' = "done" /\ UNCHANGED <<written, medium, index, running_offset, crc, dst>>
    BY <1>4 DEF CheckPayload
  <2>2. Intact' = Intact /\ schema' = schema
    BY <2>1, SameEntries DEF written, Intact
  <2>3. Intact => err' = "OK" /\ \A j \in 1 .. n : SameMeaning(j)
    BY <1>4, <2>1 DEF CheckPayload, RoundInv, LayoutInv, Reader
  <2>4. \A j \in 1 .. n : SameMeaning(j)' <=> SameMeaning(j)
    BY <2>1 DEF SameMeaning, written
  <2> QED BY <2>1, <2>2, <2>3, <2>4 DEF RoundInv
<1>5. CASE UNCHANGED vars
  <2>1. UNCHANGED <<pc, index, err>> /\ Entries' = Entries /\ Intact' = Intact /\ schema' = schema
    BY <1>5, SameEntries DEF vars, written, Intact
  <2>2. \A j : SameMeaning(j)' <=> SameMeaning(j)
    BY <1>5 DEF SameMeaning, vars, written
  <2>3. \A i : Reader(i)' <=> Reader(i)
    BY <1>5, <2>1, <2>2 DEF Reader, vars
  <2> QED BY <2>1, <2>2, <2>3 DEF RoundInv
<1> QED
  BY <1>1, <1>2, <1>3, <1>4, <1>5 DEF Next

(* A record that nobody damaged is accepted and gives every entry the      *)
(* meaning it had for the writer, between machines of either byte order,   *)
(* for all schemas whose strings have a length of two bytes, all contents  *)
(* and all slots (mconf_save and mconf_load_slot_into_buffer).             *)
THEOREM PayloadRoundTrip ==
  ASSUME LengthsFit
  PROVE  Spec => []RoundTrip
<1>1. Init => RoundInv
  BY DEF Init, RoundInv
<1>2. RoundInv /\ DecodeInv => RoundTrip
  BY SchemaType DEF RoundInv, RoundTrip, Intact, DecodeInv
<1>3. DecodeInv /\ RoomInv /\ LayoutInv /\ RoundInv /\ [Next]_vars => RoundInv'
  BY RoundStep
<1>4. DecodeInv /\ LayoutInv /\ [Next]_vars => LayoutInv'
  BY LayoutStep
<1> QED
  BY <1>1, <1>2, <1>3, <1>4, LayoutInit, DecodeInit, DecodeStep, RoomInit, RoomStep, PTL DEF Spec

-----------------------------------------------------------------------------
(* What a record that is accepted was read from.                           *)

(* The first n bytes of the payload are on the medium; all of them, but    *)
(* for four behind the first a; the reader has summed up what it has read. *)
Saved(n)  == \A k \in 1 .. n : medium[k] = Payload[k]
Damage(a) == \A k \in 1 .. Len(Payload) : k \in a + 1 .. a + 4 \/ medium[k] = Payload[k]
Summed    == running_offset \in 0 .. Len(medium) /\ crc = Register(medium, running_offset)

MediumInv ==
  /\ pc \in {"layout", "size"} => running_offset = 0
  /\ pc = "write" => running_offset = End(Entries, index - 1) /\ Saved(End(Entries, index - 1))
  /\ pc = "stored" => Saved(Len(Payload))
  /\ pc \in {"read", "check"} => Summed /\ \E a \in Nat : Damage(a)
  /\ pc = "done" /\ err = "OK" =>
       /\ Summed /\ \E a \in Nat : Damage(a)
       /\ running_offset = payload_length /\ mconf_crc32_finalize(crc) = payload_crc

(* Writing changes the bytes from its offset on and no others.             *)
LEMMA WrittenByte ==
  ASSUME medium \in Seq(Byte), NEW offset \in Nat, NEW b \in Seq(Byte), NEW k \in 1 .. Len(medium)
  PROVE  /\ k - offset \in 1 .. Len(b) => Written(offset, b)[k] = b[k - offset]
         /\ k - offset \notin 1 .. Len(b) => Written(offset, b)[k] = medium[k]
<1>1. DOMAIN medium = 1 .. Len(medium) /\ DOMAIN b = 1 .. Len(b)
  BY LenProperties
<1> QED BY <1>1 DEF Written

(* A step of the writer's loop saves another entry.                        *)
LEMMA SaveStep ==
  ASSUME DecodeInv, RoomInv, LayoutInv, MediumInv, mconf_serialize_payload_to_storage
  PROVE  MediumInv'
<1> DEFINE n == Len(schema)
           x == End(Entries, index - 1)
           y == End(Entries, index)
           b == Entries[index]
<1>1. /\ Entries \in Seq(Seq(Byte)) /\ Len(Entries) = n /\ n \in Nat \ {0} /\ index \in 1 .. n
      /\ b = EntryBytes(schema[index], order.writer, field[index]) /\ b \in Seq(Byte)
      /\ medium \in Seq(Byte) /\ Len(medium) \in Nat
  BY EntriesTyped, ElementOfSeq, LenProperties DEF DecodeInv
<1>2. /\ x \in Nat /\ y \in Nat /\ y = x + Len(b) /\ y <= End(Entries, n)
      /\ \A k \in 1 .. Len(b) : FlattenSeq(Entries)[x + k] = b[k]
      /\ Len(FlattenSeq(Entries)) = End(Entries, n)
  BY <1>1, JoinedBytes
<1>3. Payload = FlattenSeq(Entries)
  BY DEF Payload, Entries
<1>4. End(Entries, n) \in Nat /\ Len(b) \in Nat
  BY <1>1, JoinedBytes, LenProperties
<1>5. pc = "write" /\ running_offset = x /\ Saved(x) /\ End(Entries, n) <= Room /\ Room <= Len(medium)
  BY DEF mconf_serialize_payload_to_storage, MediumInv, RoomInv, LayoutInv
<1>6. /\ medium' = Written(x, b) /\ UNCHANGED written /\ Advance("stored")
      /\ running_offset' = IF index = n THEN 0 ELSE x + Len(b)
  BY <1>1, <1>5 DEF mconf_serialize_payload_to_storage
<1>7. Entries' = Entries /\ Payload' = Payload
  BY <1>6, SameEntries DEF written
<1> HIDE DEF x, y, b
<1>8. y <= Len(medium)
  BY <1>1, <1>2, <1>4, <1>5, CodecAssumption
<1>9. \A k \in 1 .. y : medium'[k] = Payload[k]
  <2> SUFFICES ASSUME NEW k \in 1 .. y PROVE Written(x, b)[k] = Payload[k]
    BY <1>6
  <2>1. k \in 1 .. Len(medium)
    BY <1>1, <1>2, <1>8
  <2>2. CASE k <= x
    <3>1. k - x \notin 1 .. Len(b) /\ k \in 1 .. x
      BY <1>2, <2>2
    <3>2. Written(x, b)[k] = medium[k]
      BY <1>1, <1>2, <2>1, <3>1, WrittenByte
    <3> QED BY <1>5, <3>1, <3>2 DEF Saved
  <2>3. CASE k > x
    <3>1. k - x \in 1 .. Len(b) /\ x + (k - x) = k
      BY <1>2, <1>4, <2>3
    <3>2. Written(x, b)[k] = b[k - x]
      BY <1>1, <1>2, <2>1, <3>1, WrittenByte
    <3> QED BY <1>2, <1>3, <3>1, <3>2
  <2> QED BY <1>2, <2>2, <2>3
<1>10. CASE index = n
  <2>1. pc' = "stored" /\ Len(Payload) = y
    BY <1>2, <1>3, <1>6, <1>10 DEF Advance, y
  <2> QED BY <1>7, <1>9, <2>1 DEF MediumInv, Saved
<1>11. CASE index # n
  <2>1. pc' = "write" /\ index' - 1 = index /\ running_offset' = y
    BY <1>1, <1>2, <1>5, <1>6, <1>11 DEF Advance
  <2> QED BY <1>7, <1>9, <2>1 DEF MediumInv, Saved, y
<1> QED BY <1>10, <1>11

(* At rest no more than four neighbouring bytes change.                    *)
LEMMA RestStep ==
  ASSUME DecodeInv, RoomInv, LayoutInv, MediumInv, AtRest
  PROVE  MediumInv'
<1>1. /\ pc = "stored" /\ pc' = "read" /\ UNCHANGED written
      /\ running_offset' = 0 /\ crc' = AllOnes
  BY DEF AtRest, LayoutInv
<1>2. Payload' = Payload
  BY <1>1, SameEntries DEF written
<1>3. /\ medium \in Seq(Byte) /\ Len(medium) \in Nat /\ Saved(Len(Payload))
      /\ Len(Payload) \in Nat /\ Len(Payload) <= Len(medium)
  <2>1. payload_length = Len(Payload) /\ Len(Payload) \in Nat
    BY <1>1, PayloadSum, LenProperties DEF LayoutInv
  <2>2. Len(medium) \in Nat /\ medium \in Seq(Byte)
    BY LenProperties DEF DecodeInv
  <2> QED BY <1>1, <2>1, <2>2, CodecAssumption DEF MediumInv, RoomInv, LayoutInv
<1>4. \E a \in Nat : \A k \in 1 .. Len(Payload) : k \in a + 1 .. a + 4 \/ medium'[k] = Payload[k]
  <2>1. CASE UNCHANGED medium
    BY <1>3, <2>1 DEF Saved
  <2>2. CASE \E first \in 1 .. Room - MaxBurst + 1, burst \in [1 .. MaxBurst -> Byte] :
               medium' = Written(first - 1, burst)
    <3>1. PICK first \in 1 .. Room - MaxBurst + 1, burst \in [1 .. MaxBurst -> Byte] :
            medium' = Written(first - 1, burst)
      BY <2>2
    <3> DEFINE a == first - 1
    <3>2. a \in Nat /\ MaxBurst \in 0 .. 4 /\ burst \in Seq(Byte) /\ Len(burst) = MaxBurst
      BY CodecAssumption, BytesAreSeq
    <3>3. medium' = Written(a, burst)
      BY <3>1
    <3> HIDE DEF a
    <3>4. ASSUME NEW k \in 1 .. Len(Payload), k \notin a + 1 .. a + 4
          PROVE  medium'[k] = Payload[k]
      <4>1. k \in 1 .. Len(medium) /\ k - a \notin 1 .. Len(burst)
        BY <1>3, <3>2, <3>4
      <4>2. medium'[k] = medium[k]
        BY <1>3, <3>2, <3>3, <4>1, WrittenByte
      <4> QED BY <1>3, <4>2 DEF Saved
    <3> QED BY <3>2, <3>4
  <2> QED BY <2>1, <2>2 DEF AtRest
<1>5. medium' \in Seq(Byte)
  BY DecodeStep DEF Next, DecodeInv
<1>6. Summed'
  <2>1. Len(medium') \in Nat
    BY <1>5, LenProperties
  <2>2. Bits(medium') \in Seq(Octet) /\ AllOnes \in Reg
    BY <1>5, BitsType DEF AllOnes, Reg
  <2>3. Registers(AllOnes, Bits(medium'))[0] = AllOnes
    BY <2>2, RegistersStep
  <2>4. 0 \in 0 .. Len(medium')
    BY <2>1
  <2> QED BY <1>1, <2>3, <2>4 DEF Summed, Register
<1> QED BY <1>1, <1>2, <1>4, <1>6 DEF MediumInv, Damage

(* A read of n bytes takes the sum forward.                                *)
LEMMA SumRead ==
  ASSUME medium \in Seq(Byte), Summed, NEW n \in Nat, InRegion(running_offset, n)
  PROVE  /\ running_offset + n \in 0 .. Len(medium)
         /\ Updated(crc, Stored(running_offset, n)) = Register(medium, running_offset + n)
<1> DEFINE x == running_offset
           t == Stored(x, n)
<1>1. x \in Nat /\ Len(medium) \in Nat /\ x + n <= Len(medium)
  BY LenProperties DEF Summed, InRegion
<1>2. t \in [1 .. n -> Byte] /\ \A k \in 1 .. n : t[k] = medium[x + k]
  BY <1>1, StoredType, StoredByte
<1> HIDE DEF t
<1>3. t \in Seq(Byte) /\ Len(t) = n
  BY <1>2, BytesAreSeq
<1>4. Lies(t, medium, x)
  BY <1>1, <1>2, <1>3 DEF Lies
<1>5. Updated(Register(medium, x), t) = Register(medium, x + n)
  BY <1>1, <1>3, <1>4, RegisterRuns
<1> QED BY <1>1, <1>5 DEF Summed, t

(* The reader's steps.                                                     *)
LEMMA SumStays ==
  ASSUME DecodeInv, MediumInv, LoadString \/ LoadScalarOrBlob
  PROVE  MediumInv'
<1>1. /\ pc = "read" /\ UNCHANGED <<written, medium>> /\ medium \in Seq(Byte) /\ Summed
      /\ schema[index] \in Entry /\ running_offset \in Nat
  BY EntriesTyped DEF LoadString, LoadScalarOrBlob, Fail, DecodeInv, MediumInv
<1>2. Payload' = Payload
  BY <1>1, SameEntries DEF written
<1>3. ASSUME NEW n \in Nat, InRegion(running_offset, n), running_offset' = running_offset + n,
             crc' = Updated(crc, Stored(running_offset, n)), Advance("check")
      PROVE  MediumInv'
  <2>1. Summed'
    BY <1>1, <1>3, SumRead DEF Summed
  <2>2. pc' \in {"read", "check"}
    BY <1>1, <1>3 DEF Advance
  <2> QED BY <1>1, <1>2, <2>1, <2>2 DEF MediumInv, Damage
<1>4. ASSUME NEW e, e \in {"IO", "INVALID"}, Fail(e) PROVE MediumInv'
  BY <1>4 DEF Fail, MediumInv
<1>5. CASE LoadString
  <2> DEFINE length == ReadLength(Stored(running_offset, 2))
             start == running_offset + 2
  <2>1. CASE /\ InRegion(running_offset, 2) /\ InRegion(start, length)
             /\ crc' = Updated(crc, Stored(running_offset, 2 + length))
             /\ running_offset' = start + length /\ Advance("check")
    <3>1. length \in Nat
      BY <1>1, <2>1, StoredType, ReadLengthType
    <3> HIDE DEF length
    <3>2. /\ 2 + length \in Nat /\ start + length = running_offset + (2 + length)
          /\ InRegion(running_offset, 2 + length)
      BY <1>1, <2>1, <3>1 DEF InRegion
    <3> QED BY <1>3, <2>1, <3>2
  <2> QED BY <1>4, <1>5, <2>1 DEF LoadString
<1>6. CASE LoadScalarOrBlob
  <2>1. schema[index].size \in Nat
    BY <1>1 DEF Entry
  <2> QED BY <1>3, <1>4, <1>6, <2>1 DEF LoadScalarOrBlob
<1> QED BY <1>5, <1>6

(* Every step keeps it.                                                    *)
LEMMA MediumStep ==
  ASSUME DecodeInv, RoomInv, LayoutInv, MediumInv, [Next]_vars
  PROVE  MediumInv'
<1>1. CASE mconf_compute_payload_layout
  <2>1. pc' \in {"layout", "size"} /\ running_offset' = 0
    BY <1>1 DEF mconf_compute_payload_layout, Advance, MediumInv
  <2> QED BY <2>1 DEF MediumInv
<1>2. CASE CheckRoom
  <2>1. /\ index' - 1 = 0 /\ running_offset' = 0
        /\ pc' = "write" \/ (pc' = "done" /\ err' = "TOO_BIG")
    BY <1>2 DEF CheckRoom, MediumInv, LayoutInv
  <2>2. End(Entries, index - 1)' = 0
    BY <2>1 DEF End
  <2> QED BY <2>1, <2>2 DEF MediumInv, Saved
<1>3. CASE CheckPayload
  <2>1. UNCHANGED <<written, medium, running_offset, crc>> /\ pc = "check" /\ pc' = "done"
    BY <1>3 DEF CheckPayload
  <2>2. Payload' = Payload
    BY <2>1, SameEntries DEF written
  <2>3. err' = "OK" => /\ running_offset' = payload_length'
                       /\ mconf_crc32_finalize(crc') = payload_crc'
    BY <1>3, <2>1 DEF CheckPayload, written
  <2> QED BY <2>1, <2>2, <2>3 DEF MediumInv, Summed, Damage
<1>4. CASE UNCHANGED vars
  <2>1. /\ UNCHANGED <<schema, order, field, medium, pc, index, running_offset, crc, err>>
        /\ UNCHANGED <<payload_length, payload_crc>>
    BY <1>4 DEF vars, written
  <2>2. Payload' = Payload /\ Entries' = Entries
    BY <2>1, SameEntries
  <2> QED BY <2>1, <2>2 DEF MediumInv, Summed, Damage, Saved
<1> QED
  BY <1>1, <1>2, <1>3, <1>4, SaveStep, RestStep, SumStays DEF Next

(* A record that passes the checks of length and checksum was not damaged. *)
LEMMA AcceptedIsIntact ==
  ASSUME DecodeInv, LayoutInv, MediumInv, pc = "done", err = "OK"
  PROVE  Intact
<1> DEFINE n == Len(Payload)
           u == SubSeq(medium, 1, n)
<1>1. PICK a \in Nat : Damage(a)
  BY DEF MediumInv
<1>2. /\ Payload \in Seq(Byte) /\ n \in Nat /\ payload_length = n
      /\ payload_crc = mconf_crc32(Bits(Payload))
  BY PayloadSum, LenProperties DEF LayoutInv
<1>3. /\ Summed /\ running_offset = n /\ mconf_crc32_finalize(crc) = payload_crc
      /\ n <= Len(medium) /\ medium \in Seq(Byte) /\ Len(medium) \in Nat
  BY <1>2, LenProperties DEF MediumInv, Summed, DecodeInv
<1> HIDE DEF n
<1>4. u \in Seq(Byte) /\ Len(u) = n /\ \A k \in 1 .. n : u[k] = medium[k]
  BY <1>2, <1>3, SubSeqProperties
<1> HIDE DEF u
<1>5. mconf_crc32(Bits(u)) = payload_crc
  <2>1. Lies(u, medium, 0)
    BY <1>2, <1>3, <1>4 DEF Lies
  <2>2. Register(medium, 0) = AllOnes
    <3>1. Bits(medium) \in Seq(Octet) /\ AllOnes \in Reg
      BY <1>3, BitsType DEF AllOnes, Reg
    <3> QED BY <3>1, RegistersStep DEF Register
  <2>3. Updated(AllOnes, u) = Register(medium, n)
    <3>1. 0 + n = n
      BY <1>2
    <3> QED BY <1>3, <1>4, <2>1, <2>2, <3>1, RegisterRuns
  <2>4. Updated(AllOnes, u) = crc
    BY <1>3, <2>3 DEF Summed
  <2>5. Len(Bits(u)) = Len(u)
    BY <1>4, BitsType
  <2> QED BY <1>3, <2>4, <2>5 DEF mconf_crc32, Updated
<1>6. /\ Bits(u) \in Seq(Octet) /\ Bits(Payload) \in Seq(Octet)
      /\ Len(Bits(u)) = n /\ Len(Bits(Payload)) = n
      /\ \A k \in 1 .. n : /\ u[k] \in Byte /\ Bits(u)[k] = ByteBits[u[k]]
                          /\ Payload[k] \in Byte /\ Bits(Payload)[k] = ByteBits[Payload[k]]
  BY <1>2, <1>4, BitsType DEF n
<1>7. Burst(Bits(u), Bits(Payload), n, a)
  <2>1. \A k \in 1 .. n : k \in a + 1 .. a + 4 \/ Bits(u)[k] = Bits(Payload)[k]
    BY <1>1, <1>4, <1>6 DEF Damage, n
  <2> QED BY <1>6, <2>1 DEF Burst
<1>8. Bits(u) = Bits(Payload)
  BY <1>2, <1>5, <1>6, <1>7, BurstDetected
<1>9. \A k \in 1 .. n : u[k] = Payload[k]
  BY <1>6, <1>8, CodecAssumption
<1>10. u = Payload
  BY <1>2, <1>4, <1>9, SeqEqual DEF n
<1> QED BY <1>10 DEF Intact, u, n

(* A record that is accepted means what was saved and was read from the    *)
(* payload area of its slot alone, although up to four neighbouring bytes  *)
(* may have changed, lengths of strings among them, which moves everything *)
(* behind (the checks at the end of mconf_load_slot_into_buffer).          *)
THEOREM AcceptedMeansSaved ==
  ASSUME LengthsFit
  PROVE  Spec => []AcceptedIsSaved
<1>1. Init => RoundInv /\ MediumInv
  BY DEF Init, RoundInv, MediumInv
<1>2. DecodeInv /\ RoomInv /\ LayoutInv /\ RoundInv /\ MediumInv => AcceptedIsSaved
  BY AcceptedIsIntact, SchemaType DEF AcceptedIsSaved, RoundInv, RoomInv, DecodeInv
<1>3. DecodeInv /\ RoomInv /\ LayoutInv /\ RoundInv /\ [Next]_vars => RoundInv'
  BY RoundStep
<1>4. DecodeInv /\ LayoutInv /\ [Next]_vars => LayoutInv'
  BY LayoutStep
<1>5. DecodeInv /\ RoomInv /\ LayoutInv /\ MediumInv /\ [Next]_vars => MediumInv'
  BY MediumStep
<1> QED
  BY <1>1, <1>2, <1>3, <1>4, <1>5, LayoutInit, DecodeInit, DecodeStep, RoomInit, RoomStep, PTL DEF Spec
=============================================================================
