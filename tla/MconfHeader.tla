---------------------------- MODULE MconfHeader -----------------------------
(***************************************************************************)
(* The 32 bytes of a record header: mconf_encode_header,                   *)
(* mconf_decode_header and the checks of mconf_probe_slot_header, while    *)
(* the header is written byte by byte over an erased slot or over an old   *)
(* record and can be cut short behind any byte.  A word of n bytes is the  *)
(* tuple of its bytes, least significant first.  A schema of more than     *)
(* 2^16 - 1 entries, for which nothing is encoded, is not among Schemas.   *)
(***************************************************************************)
EXTENDS Integers, Sequences

CONSTANTS
  Words,    \* 32-bit words that occur as generation and checksum
  Lengths,  \* 32-bit words that occur as payload length
  Schemas,  \* schemas: [schema_version, schema_fingerprint, entry_count]
  Fits      \* payload lengths that fit the slot

Byte == 0 .. 255
Area == 0 .. 31                           \* MCONF_STORAGE_HEADER_SIZE
MCONF_STORAGE_STATE_OFFSET      == 18
MCONF_STORAGE_STATE_UNCOMMITTED == 60     \* 0x3C
MCONF_STORAGE_STATE_COMMITTED   == 165    \* 0xA5
Magic         == <<77, 67, 70, 71>>
FormatVersion == <<1, 0>>
HeaderSize    == <<32, 0>>
Erased        == [i \in Area |-> 255]

Info == [schema : Schemas, payload_length : Lengths, generation : Words,
         payload_crc32 : Words]

ASSUME HeaderAssumption ==
  /\ \A w \in Words \cup Lengths : w \in [1 .. 4 -> Byte]
  /\ Schemas \subseteq [schema_version : [1 .. 4 -> Byte],
                        schema_fingerprint : [1 .. 4 -> Byte],
                        entry_count : [1 .. 2 -> Byte]]
  /\ Fits \subseteq Lengths

VARIABLES
  old,      \* the header area before the write
  info,     \* the record mconf_save describes
  header,   \* the header area of the slot
  written,  \* bytes of the header that have reached the medium
  done      \* the commit byte is written

vars == <<old, info, header, written, done>>

-----------------------------------------------------------------------------
(* mconf_write_u16_le and mconf_write_u32_le into, and their inverses from,*)
(* a header at an offset.                                                  *)
Put(h, offset, word) ==
  [i \in Area |-> IF i - offset + 1 \in DOMAIN word THEN word[i - offset + 1] ELSE h[i]]

Get(h, offset, width) == [k \in 1 .. width |-> h[offset + k - 1]]

(* Mutant: the state byte lies in the last byte of the checksum.           *)
mconf_encode_header_Collides(r, state) ==
  LET h0 == Put([i \in Area |-> 0], 0, Magic \o FormatVersion \o HeaderSize)
      h1 == Put(h0, 8, r.schema.schema_version \o r.schema.schema_fingerprint
                         \o r.schema.entry_count)
      h2 == Put(h1, 20, r.payload_length \o r.generation \o r.payload_crc32)
  IN  Put(h2, 31, <<state>>)

mconf_encode_header(r, state) ==
  LET h0 == Put([i \in Area |-> 0], 0, Magic \o FormatVersion \o HeaderSize)
      h1 == Put(h0, 8, r.schema.schema_version \o r.schema.schema_fingerprint
                         \o r.schema.entry_count)
      h2 == Put(h1, MCONF_STORAGE_STATE_OFFSET, <<state, 0>>)
  IN  Put(h2, 20, r.payload_length \o r.generation \o r.payload_crc32)

(* The record a header describes.                                          *)
mconf_decode_header(h) ==
  [schema |-> [schema_version |-> Get(h, 8, 4), schema_fingerprint |-> Get(h, 12, 4),
               entry_count |-> Get(h, 16, 2)],
   payload_length |-> Get(h, 20, 4), generation |-> Get(h, 24, 4),
   payload_crc32 |-> Get(h, 28, 4)]

(* Mutant: an uncommitted record is taken for a committed one.             *)
Usable_AnyState(h, q) ==
  /\ Get(h, 0, 4) = Magic /\ Get(h, 6, 2) = HeaderSize
  /\ Get(h, 4, 2) = FormatVersion
  /\ mconf_decode_header(h).schema = q
  /\ mconf_decode_header(h).payload_length \in Fits

(* mconf_probe_slot_header with require_committed by the image of schema q.*)
Usable(h, q) ==
  /\ Get(h, 0, 4) = Magic /\ Get(h, 6, 2) = HeaderSize
  /\ h[MCONF_STORAGE_STATE_OFFSET] = MCONF_STORAGE_STATE_COMMITTED
  /\ Get(h, 4, 2) = FormatVersion
  /\ mconf_decode_header(h).schema = q
  /\ mconf_decode_header(h).payload_length \in Fits

-----------------------------------------------------------------------------
(* The slot was erased, or its erase had no effect and it still holds a    *)
(* committed record, of this image's schema or of another.                 *)
Init ==
  /\ info \in [schema : Schemas, payload_length : Fits, generation : Words,
               payload_crc32 : Words]
  /\ old \in {Erased} \cup
             {mconf_encode_header(r, MCONF_STORAGE_STATE_COMMITTED) : r \in Info}
  /\ header = old
  /\ written = 0
  /\ done = FALSE

(* The header write of mconf_save reaches the medium in ascending order.   *)
WriteByte ==
  /\ written < 32
  /\ header' = [header EXCEPT ![written] =
                  mconf_encode_header(info, MCONF_STORAGE_STATE_UNCOMMITTED)[written]]
  /\ written' = written + 1
  /\ UNCHANGED <<old, info, done>>

(* The commit write, once the payload is verified.                         *)
CommitRecord ==
  /\ written = 32 /\ ~ done
  /\ header' = Put(header, MCONF_STORAGE_STATE_OFFSET, <<MCONF_STORAGE_STATE_COMMITTED>>)
  /\ done' = TRUE
  /\ UNCHANGED <<old, info, written>>

Next == WriteByte \/ CommitRecord

Spec == Init /\ [][Next]_vars

-----------------------------------------------------------------------------
(* A committed header is read back as the record it was written for, by    *)
(* the image that wrote it and by no other.                                *)
HeaderReadsBack ==
  done => /\ mconf_decode_header(header) = info
          /\ \A q \in Schemas : Usable(header, q) <=> q = info.schema

(* Wherever the header write is cut short, a header that a probe accepts   *)
(* before the commit has the length, the generation and the checksum of    *)
(* the old record, whose payload is still behind it; when that record is   *)
(* of the schema being saved, the header is the old one in full.  Over a   *)
(* record of another schema it need not be: version, fingerprint and count *)
(* lie in front of the state byte, so the new ones, or some of them, can   *)
(* stand before the old state and select the old payload.                  *)
TornHeaderIsOld ==
  ~ done =>
    \A q \in Schemas : Usable(header, q) =>
      /\ old # Erased
      /\ Get(header, 20, 12) = Get(old, 20, 12)
      /\ mconf_decode_header(old).schema = info.schema => header = old
=============================================================================
