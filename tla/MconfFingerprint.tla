-------------------------- MODULE MconfFingerprint --------------------------
(***************************************************************************)
(* The schema fingerprint that mconf_schema_validate computes and          *)
(* mconf_load compares to decide whether a record belongs to its schema.   *)
(* The hash is kept as the sequence of bytes mixed into it: two schemas    *)
(* have the same fingerprint, but for collisions of the 32-bit hash, when  *)
(* these sequences are equal.  A byte is a digit in base Base.             *)
(*                                                                         *)
(* mconf_schema_hash_size takes HashBytes bytes of a size_t.  Where size_t *)
(* is shorter the shift is undefined: the build decides whether the bytes  *)
(* behind its width are zero or those of a shift count cut to the width.   *)
(***************************************************************************)
EXTENDS MconfContext, SequencesExt

CONSTANTS
  Base,       \* number of byte values
  HashBytes,  \* bytes mixed in per number: 8 in the code
  SizeBytes,  \* bytes of a size_t
  Builds,     \* what a shift beyond the width gives: "zero" or "cut"
  Versions,   \* values of schema_version
  TypeCode,   \* the values of mconf_type_t, a uint8_t
  KeyText     \* KeyText[key]: the characters of a key

(* Shifts(value)[i]: value >> (8 * i).                                     *)
Shifts(value) ==
  LET rest[i \in 0 .. SizeBytes] == IF i = 0 THEN value ELSE rest[i - 1] \div Base
  IN  rest

ByteOf(value, i) == Shifts(value)[i] % Base

ASSUME FingerprintAssumption ==
  /\ Base \in Nat \ {0, 1} /\ HashBytes \in Nat /\ SizeBytes \in 1 .. HashBytes
  /\ \A value \in size_t : Shifts(value)[SizeBytes] = 0
  /\ MCONF_MAX_ENTRIES \in size_t /\ Versions \subseteq size_t
  /\ Builds \subseteq {"zero", "cut"}
  /\ TypeCode \in [Types -> 0 .. Base - 1]
  /\ \A type, other \in Types : TypeCode[type] = TypeCode[other] => type = other
  /\ \A key \in Keys : KeyText[key] \in Seq(1 .. Base - 1)
  /\ \A key, other \in Keys : KeyText[key] = KeyText[other] => key = other

mconf_schema_hash_size(value, build) ==
  [i \in 1 .. HashBytes |->
     IF i <= SizeBytes \/ build = "cut" THEN ByteOf(value, (i - 1) % SizeBytes) ELSE 0]

(* Mutant: a missing key leaves no trace.                                  *)
KeyBytes_Skipped(key) == IF key = NULL THEN <<>> ELSE KeyText[key]

(* A key is mixed in without its terminator, a missing one as one zero.    *)
KeyBytes(key) == IF key = NULL THEN <<0>> ELSE KeyText[key]

EntryBytes(e, build) ==
  mconf_schema_hash_size(e.offset, build) \o mconf_schema_hash_size(e.size, build)
    \o mconf_schema_hash_size(TypeCode[e.type], build) \o KeyBytes(e.key)

(* All bytes mixed in for schema sc of the given schema_version.           *)
Mixed(sc, version, build) ==
  mconf_schema_hash_size(Len(sc.entries), build)
    \o mconf_schema_hash_size(sc.data_size, build)
    \o mconf_schema_hash_size(version, build)
    \o FlattenSeq([i \in DOMAIN sc.entries |-> EntryBytes(sc.entries[i], build)])

-----------------------------------------------------------------------------
(* What the encoding of a payload depends on.                              *)
Layout(sc) ==
  [i \in DOMAIN sc.entries |->
     [key |-> sc.entries[i].key, offset |-> sc.entries[i].offset,
      size |-> sc.entries[i].size, type |-> sc.entries[i].type]]

(* Two schemas that mconf_init accepts one after the other and that get    *)
(* the same fingerprint have the same version, fields and keys, although   *)
(* keys are mixed in without a length and a missing key as a byte that     *)
(* also occurs in numbers: mconf_load never decodes a record with a layout *)
(* it was not written with.                                                *)
SchemasToldApart ==
  [][(initialized /\ schema' # schema) =>
       \A build \in Builds, v \in Versions, w \in Versions :
         Mixed(schema, v, build) = Mixed(schema', w, build)
           => v = w /\ Layout(schema) = Layout(schema')]_vars
=============================================================================
