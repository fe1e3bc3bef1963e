----------------------------- MODULE MconfCodec -----------------------------
(***************************************************************************)
(* The payload of a record at byte level: the layout mconf_save computes   *)
(* length and checksum from, the entries it writes one after the other,    *)
(* and the decoding of mconf_load_slot_into_buffer, possibly on another    *)
(* machine and after a byte has changed on the medium.                     *)
(*                                                                         *)
(* A field in memory is the sequence of its bytes in the host's order.     *)
(* There are ByteMod byte values, which keeps lengths of two bytes small;  *)
(* for the checksum each stands for eight bits.  The medium is the payload *)
(* area of the slot and the bytes that follow it in the region.            *)
(***************************************************************************)
EXTENDS MconfCrc

CONSTANTS
  ByteMod,    \* values of a byte (256 in the code)
  SchemaSet,  \* schemas: sequences of [type, size]
  HostOrders, \* byte orders of the writing and reading machine
  Room,       \* payload bytes of a slot
  Behind,     \* bytes that follow slot 0 in the region; none follow slot 1
  ByteBits,   \* the bits of a byte
  MaxBurst    \* how many neighbouring bytes may change at rest

Byte       == 0 .. ByteMod - 1
ErasedByte == ByteMod - 1
Entry      == [type : {"u8", "word", "blob", "string"}, size : Nat \ {0}]

ASSUME CodecAssumption ==
  /\ ByteMod \in Nat /\ ByteMod > 1
  /\ Room \in Nat /\ Behind \in Nat
  /\ ByteBits \in [Byte -> SUBSET (0 .. 7)]
  /\ \A b, c \in Byte : ByteBits[b] = ByteBits[c] => b = c
  /\ MaxBurst \in 0 .. 4
  /\ HostOrders \subseteq {"little", "big"}
  /\ \A s \in SchemaSet : s # <<>> /\ s \in Seq(Entry)

VARIABLES
  schema,          \* the schema both machines use
  order,           \* byte orders: order.writer, order.reader
  field,           \* field[i]: bytes of entry i in the writer's memory
  medium,          \* the bytes of the region from the payload on
  pc, index,       \* step, and loop variable over the entries
  running_offset,  \* offset from the start of the payload
  payload_length, payload_crc,  \* what the header says
  crc,             \* the reader's running checksum
  dst,             \* dst[i]: bytes of entry i in the reader's memory
  err              \* what the load returns

written == <<schema, order, field, payload_length, payload_crc>>
vars    == <<written, medium, pc, index, running_offset, crc, dst, err>>

-----------------------------------------------------------------------------
(* mconf_validate_string_bytes: a NUL is found within the field.           *)
Terminated(bytes) == \E i \in DOMAIN bytes : bytes[i] = 0

StringLength(bytes) ==
  (CHOOSE i \in DOMAIN bytes : bytes[i] = 0 /\ \A j \in 1 .. i - 1 : bytes[j] # 0) - 1

FieldBytes(e) ==
  {b \in [1 .. e.size -> Byte] : e.type = "string" => Terminated(b)}

(* mconf_write_u16_le of a length cut to 16 bits, and mconf_read_u16_le.   *)
LengthBytes(length) == <<length % ByteMod, (length \div ByteMod) % ByteMod>>
ReadLength(bytes)   == bytes[1] + ByteMod * bytes[2]

(* Mutant: scalars are stored as they lie in memory.                       *)
LittleEndian_Native(e, o, bytes) == bytes

(* mconf_encode_field_bytes and mconf_decode_field_bytes of a scalar: the  *)
(* value is stored least significant byte first, whatever the host's order;*)
(* blobs are copied.                                                       *)
LittleEndian(e, o, bytes) ==
  IF e.type = "word" /\ o = "big" THEN Reverse(bytes) ELSE bytes

(* What is stored for an entry.                                            *)
EntryBytes(e, o, bytes) ==
  IF e.type = "string"
  THEN LET n == StringLength(bytes) IN LengthBytes(n) \o SubSeq(bytes, 1, n)
  ELSE LittleEndian(e, o, bytes)

(* mconf_serialized_entry_size.                                            *)
mconf_serialized_entry_size(e, bytes) ==
  IF e.type = "string" THEN 2 + StringLength(bytes) ELSE e.size

Written(offset, bytes) ==
  [i \in DOMAIN medium |->
     IF i - offset \in DOMAIN bytes THEN bytes[i - offset] ELSE medium[i]]

(* The bytes of an entry go into a running checksum one after the other.   *)
Bits(bytes)         == [i \in DOMAIN bytes |-> ByteBits[bytes[i]]]
Updated(sum, bytes) == Registers(sum, Bits(bytes))[Len(bytes)]

Zeroed(e) == [i \in 1 .. e.size |-> 0]

Init ==
  /\ schema \in SchemaSet
  /\ order \in [writer : HostOrders, reader : HostOrders]
  /\ field \in {m \in [DOMAIN schema -> UNION {FieldBytes(schema[i]) : i \in DOMAIN schema}] :
                  \A i \in DOMAIN schema : m[i] \in FieldBytes(schema[i])}
  /\ medium \in {[i \in 1 .. Room + b |-> ErasedByte] : b \in {0, Behind}}
  /\ pc = "layout" /\ index = 1 /\ running_offset = 0
  /\ payload_length = 0 /\ payload_crc = AllOnes /\ crc = AllOnes
  /\ dst = [i \in DOMAIN schema |-> Zeroed(schema[i])]
  /\ err = "none"

(* The next iteration of a loop over the entries, or what comes behind it. *)
Advance(label) ==
  IF index = Len(schema) THEN pc' = label /\ index' = 1
                         ELSE pc' = pc /\ index' = index + 1

-----------------------------------------------------------------------------
(* The writer.                                                             *)

mconf_compute_payload_layout ==
  /\ pc = "layout"
  /\ LET e == schema[index]
         b == field[index]
         sum == Updated(payload_crc, EntryBytes(e, order.writer, b)) IN
     /\ payload_crc' = IF index = Len(schema) THEN mconf_crc32_finalize(sum) ELSE sum
     /\ payload_length' = payload_length + mconf_serialized_entry_size(e, b)
  /\ Advance("size")
  /\ UNCHANGED <<schema, order, field, medium, running_offset, crc, dst, err>>

(* mconf_save refuses a payload that does not fit the slot.                *)
CheckRoom ==
  /\ pc = "size"
  /\ \/ payload_length > Room /\ pc' = "done" /\ err' = "TOO_BIG"
     \/ payload_length <= Room /\ pc' = "write" /\ UNCHANGED err
  /\ UNCHANGED <<written, medium, index, running_offset, crc, dst>>

mconf_serialize_payload_to_storage ==
  /\ pc = "write"
  /\ LET b == EntryBytes(schema[index], order.writer, field[index]) IN
     /\ medium' = Written(running_offset, b)
     /\ running_offset' = IF index = Len(schema) THEN 0 ELSE running_offset + Len(b)
  /\ Advance("stored")
  /\ UNCHANGED <<written, crc, dst, err>>

(* The record at rest: nothing happens to it, or up to MaxBurst            *)
(* neighbouring bytes change.                                              *)
AtRest ==
  /\ pc = "stored" /\ pc' = "read"
  /\ \/ UNCHANGED medium
     \/ \E first \in 1 .. Room - MaxBurst + 1, burst \in [1 .. MaxBurst -> Byte] :
          medium' = Written(first - 1, burst)
  /\ UNCHANGED <<written, index, running_offset, crc, dst, err>>

-----------------------------------------------------------------------------
(* The reader.                                                             *)

Fail(e) == /\ pc' = "done" /\ err' = e
           /\ UNCHANGED <<written, medium, index, running_offset, crc, dst>>

(* A read of n bytes at an offset of the payload; the backend refuses one  *)
(* that leaves the region.                                                 *)
InRegion(offset, n) == offset + n <= Len(medium)
Stored(offset, n)   == SubSeq(medium, offset + 1, offset + n)

(* Mutant: the room for the NUL is forgotten.                              *)
StringFits_NoNul(e, length) == length <= e.size

StringFits(e, length) == length + 1 <= e.size

(* A string entry: length, range check, bytes, NUL.                        *)
LoadString ==
  /\ pc = "read" /\ schema[index].type = "string"
  /\ LET e      == schema[index]
         start  == running_offset + 2
         length == ReadLength(Stored(running_offset, 2))
     IN
     \/ ~ InRegion(running_offset, 2) /\ Fail("IO")
     \/ InRegion(running_offset, 2) /\ ~ StringFits(e, length) /\ Fail("INVALID")
     \/ /\ InRegion(running_offset, 2) /\ StringFits(e, length)
        /\ ~ InRegion(start, length) /\ Fail("IO")
     \/ /\ InRegion(running_offset, 2) /\ StringFits(e, length)
        /\ InRegion(start, length)
        /\ dst' = [dst EXCEPT ![index] =
             [i \in 1 .. IF length + 1 > e.size THEN length + 1 ELSE e.size |->
                IF i <= length THEN medium[start + i] ELSE 0]]
        /\ crc' = Updated(crc, Stored(running_offset, 2 + length))
        /\ running_offset' = start + length
        /\ Advance("check")
        /\ UNCHANGED <<written, medium, err>>

(* Any other entry.                                                        *)
LoadScalarOrBlob ==
  /\ pc = "read" /\ schema[index].type # "string"
  /\ LET e == schema[index] IN
     \/ ~ InRegion(running_offset, e.size) /\ Fail("IO")
     \/ /\ InRegion(running_offset, e.size)
        /\ dst' = [dst EXCEPT ![index] =
                     LittleEndian(e, order.reader, Stored(running_offset, e.size))]
        /\ crc' = Updated(crc, Stored(running_offset, e.size))
        /\ running_offset' = running_offset + e.size
        /\ Advance("check")
        /\ UNCHANGED <<written, medium, err>>

(* Length and checksum decide.                                             *)
CheckPayload ==
  /\ pc = "check" /\ pc' = "done"
  /\ err' = CASE running_offset # payload_length -> "SIZE"
              [] running_offset = payload_length
                 /\ mconf_crc32_finalize(crc) # payload_crc -> "CRC"
              [] OTHER -> "OK"
  /\ UNCHANGED <<written, medium, index, running_offset, crc, dst>>

Next ==
  \/ mconf_compute_payload_layout \/ CheckRoom \/ mconf_serialize_payload_to_storage
  \/ AtRest
  \/ LoadString \/ LoadScalarOrBlob \/ CheckPayload

Spec == Init /\ [][Next]_vars

-----------------------------------------------------------------------------
(* Properties.                                                             *)

(* Reference: what the bytes of an entry mean to a program: the number of  *)
(* a scalar on a machine of that order, the characters of a string, the    *)
(* bytes of a blob.                                                        *)
Meaning(e, o, bytes) ==
  CASE e.type = "word" ->
         [k \in 1 .. e.size |-> IF o = "little" THEN bytes[k] ELSE bytes[e.size + 1 - k]]
    [] e.type = "string" -> SelectInSeq(bytes, LAMBDA b : b = 0) - 1
    [] OTHER -> bytes

(* All bytes that were to be written.                                      *)
Payload ==
  FlattenSeq([i \in DOMAIN schema |-> EntryBytes(schema[i], order.writer, field[i])])

SameMeaning(i) ==
  /\ Meaning(schema[i], order.reader, dst[i]) = Meaning(schema[i], order.writer, field[i])
  /\ schema[i].type = "string" =>
       \A k \in 1 .. StringLength(field[i]) : dst[i][k] = field[i][k]

(* A record that was not damaged is accepted, and gives every entry the    *)
(* meaning it had for the writer, between machines of either byte order    *)
(* too: the encoding of docs/DESIGN.md can be decoded.                     *)
RoundTrip ==
  (pc = "done" /\ err # "TOO_BIG" /\ SubSeq(medium, 1, Len(Payload)) = Payload)
  => err = "OK" /\ \A i \in DOMAIN schema : SameMeaning(i)

(* Whatever changed bytes do to lengths and to the position of the entries *)
(* behind them, a record that is accepted means what was saved and was     *)
(* read from this slot alone: length and checksum detect the damage.       *)
AcceptedIsSaved ==
  (pc = "done" /\ err = "OK") =>
    /\ \A i \in DOMAIN schema : SameMeaning(i)
    /\ running_offset <= Room

(* The checksum in the header, updated entry by entry from the fields, is  *)
(* the CRC-32 of the payload as a whole, as mconf_crc32 and any other      *)
(* implementation computes it.                                             *)
ChecksumIsCrc32 ==
  pc = "size" => /\ payload_crc = mconf_crc32(Bits(Payload))
                 /\ payload_crc = Crc32(Bits(Payload))

(* Decoding never writes past the end of a field, and leaves a string      *)
(* terminated within it, whatever length the medium holds.                 *)
DecodeStaysInField ==
  \A i \in DOMAIN schema :
    /\ Len(dst[i]) = schema[i].size
    /\ schema[i].type = "string" => Terminated(dst[i])
=============================================================================
