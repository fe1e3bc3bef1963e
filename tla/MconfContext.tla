---------------------------- MODULE MconfContext ----------------------------
(***************************************************************************)
(* Schema validation, context and field access of src/mconf.c: the calls   *)
(* that check a schema, bind it to a caller-owned buffer and read and      *)
(* write the buffer's bytes through it.                                    *)
(*                                                                         *)
(* Abstractions.                                                           *)
(*  - Memory is Addr -> Byte with the buffer at address 0; the addresses   *)
(*    from data_size on belong to somebody else.                           *)
(*  - size_t counts modulo SizeMod, so that offset + size can wrap.        *)
(*  - Keys are atoms; LongKeys are those longer than MCONF_MAX_KEY_LEN.    *)
(*  - A value argument is the sequence of the value_size bytes the caller  *)
(*    can be read from, or NULL.  It does not overlap the buffer.          *)
(*  - The fingerprint and the byte order of scalars do not matter here.    *)
(***************************************************************************)
EXTENDS Integers, Sequences

CONSTANTS
  Byte,               \* byte values, 0 among them
  SizeMod,            \* SIZE_MAX + 1
  MemSize,            \* number of addresses
  NULL,
  Keys, LongKeys,
  MCONF_MAX_ENTRIES,
  MCONF_ENABLE_NAMES, \* build options
  MCONF_ENABLE_FLOAT,
  IEEE754,            \* the target is little endian with IEEE 754 floats
  Candidates,         \* the schemas callers pass to mconf_init
  MaxValue            \* longest value argument

Addr    == 0 .. MemSize - 1
size_t  == 0 .. SizeMod - 1
Scalars == {"BOOL", "U8", "I8", "U16", "I16", "U32", "I32", "FLOAT32"}
Types   == Scalars \cup {"STRING", "BLOB", "UNKNOWN"}
Value   == UNION {[1 .. n -> Byte] : n \in 0 .. MaxValue}
Bytes   == Seq(Byte)

Entry  == [key : Keys \cup {NULL}, offset : size_t, size : size_t, type : Types,
           default_value : Bytes \cup {NULL}, default_size : size_t]
Schema == [entries : Seq(Entry), data_size : size_t]

ASSUME NumbersAssumption ==
  /\ Byte \subseteq Nat /\ 0 \in Byte
  /\ SizeMod \in Nat /\ MemSize \in Nat /\ MCONF_MAX_ENTRIES \in Nat
  /\ MaxValue \in Nat

ASSUME CallersAssumption ==
  /\ NULL \notin Keys /\ NULL \notin Bytes /\ NULL \notin Candidates
  /\ LongKeys \subseteq Keys
  /\ {MCONF_ENABLE_NAMES, MCONF_ENABLE_FLOAT, IEEE754} \subseteq BOOLEAN
  /\ Candidates \subseteq Schema
  /\ \A sc \in Candidates :
       /\ sc.data_size <= MemSize
       /\ \A i \in 1 .. Len(sc.entries) :
            sc.entries[i].default_value # NULL =>
              sc.entries[i].default_size = Len(sc.entries[i].default_value)

VARIABLES
  schema,       \* ctx->schema, NULL in a zeroed context
  initialized,  \* ctx->initialized
  mem,          \* memory
  last          \* the last call: function, index, error, bytes handed out

vars == <<schema, initialized, mem, last>>

-----------------------------------------------------------------------------
(* Schema validation.                                                      *)

(* size_t addition.                                                        *)
Add(a, b) == IF a + b >= SizeMod THEN a + b - SizeMod ELSE a + b

mconf_is_scalar_type(type) == type \in Scalars

mconf_expected_type_size(type) ==
  CASE type \in {"BOOL", "U8", "I8"}         -> 1
    [] type \in {"U16", "I16"}               -> 2
    [] type \in {"U32", "I32", "FLOAT32"}    -> 4
    [] OTHER                                 -> 0

mconf_validate_default_for_entry(e) ==
  \/ e.default_value = NULL /\ e.default_size = 0
  \/ /\ e.default_value # NULL
     /\ \/ e.type = "STRING" /\ e.default_size < e.size /\ e.size >= 2
        \/ /\ e.type = "BLOB" \/ mconf_is_scalar_type(e.type)
           /\ e.default_size = e.size

(* Mutant: without the comparison that detects the wrap.                   *)
EntryFits_Unwrapped(e, data_size) ==
  /\ e.key \notin LongKeys
  /\ e.size # 0 /\ e.offset <= data_size
  /\ Add(e.offset, e.size) <= data_size
  /\ mconf_expected_type_size(e.type) \in {0, e.size}
  /\ e.type = "STRING" => e.size >= 2
  /\ e.type = "FLOAT32" => MCONF_ENABLE_FLOAT
  /\ mconf_validate_default_for_entry(e)

(* The entry by itself fits the buffer and its type.                       *)
EntryFits(e, data_size) ==
  /\ e.key \notin LongKeys
  /\ e.size # 0 /\ e.offset <= data_size
  /\ ~ (Add(e.offset, e.size) < e.offset)
  /\ Add(e.offset, e.size) <= data_size
  /\ mconf_expected_type_size(e.type) \in {0, e.size}
  /\ e.type = "STRING" => e.size >= 2
  /\ e.type = "FLOAT32" => MCONF_ENABLE_FLOAT
  /\ mconf_validate_default_for_entry(e)

(* Two entries collide, by the code's comparison of their ends.            *)
Overlap(e, other) == /\ e.offset < Add(other.offset, other.size)
                     /\ other.offset < Add(e.offset, e.size)

SameKey(e, other) == e.key # NULL /\ e.key = other.key

mconf_validate_entry_layout(sc, i) ==
  /\ EntryFits(sc.entries[i], sc.data_size)
  /\ \A j \in i + 1 .. Len(sc.entries) :
       ~ Overlap(sc.entries[i], sc.entries[j]) /\ ~ SameKey(sc.entries[i], sc.entries[j])

(* The schema is accepted.  Every refusal is MCONF_ERR_INVALID.            *)
mconf_schema_validate(sc) ==
  /\ Len(sc.entries) # 0 /\ Len(sc.entries) <= MCONF_MAX_ENTRIES
  /\ sc.data_size # 0
  /\ \A i \in 1 .. Len(sc.entries) : mconf_validate_entry_layout(sc, i)

-----------------------------------------------------------------------------
(* The buffer seen through the schema.                                     *)

Count            == Len(schema.entries)
mconf_entry_at(i) == schema.entries[i + 1]

(* The bytes of entry e, and memory with the bytes s put at its offset.    *)
FieldBytes(m, e) == [k \in 1 .. e.size |-> m[e.offset + k - 1]]
Store(m, e, s) ==
  [a \in Addr |-> IF a - e.offset \in 0 .. Len(s) - 1 THEN s[a - e.offset + 1] ELSE m[a]]

Terminated(s) == Len(s) >= 2 /\ \E k \in 1 .. Len(s) : s[k] = 0

(* Bytes up to the first NUL.                                              *)
StringLength(s) == CHOOSE n \in 0 .. Len(s) - 1 :
                     s[n + 1] = 0 /\ \A k \in 1 .. n : s[k] # 0

FloatUsable == MCONF_ENABLE_FLOAT /\ IEEE754

(* What mconf_validate_data checks of one field.                           *)
ValidField(e, s) == /\ e.type = "BOOL" => s[1] \in {0, 1}
                    /\ e.type = "STRING" => Terminated(s)
                    /\ e.type = "FLOAT32" => FloatUsable

mconf_validate_data(m) ==
  \A i \in 1 .. Count : ValidField(schema.entries[i], FieldBytes(m, schema.entries[i]))

(* Mutant: the rest of the field is filled with 0xFF.                      *)
mconf_apply_default_to_field_Filled(e) ==
  [k \in 1 .. e.size |->
     IF e.default_value = NULL \/ k > e.default_size THEN 255 ELSE e.default_value[k]]

(* The bytes mconf_apply_default_to_field leaves in the field.             *)
mconf_apply_default_to_field(e) ==
  [k \in 1 .. e.size |->
     IF e.default_value = NULL \/ k > e.default_size THEN 0 ELSE e.default_value[k]]

Covers(e, a) == e.offset <= a /\ a < e.offset + e.size

(* Mutant: the buffer is not cleared and a field without default skipped.  *)
DefaultMemory_Kept ==
  [a \in Addr |->
     LET on == {i \in 1 .. Count : /\ Covers(schema.entries[i], a)
                                   /\ schema.entries[i].default_value # NULL} IN
     IF on = {} THEN mem[a]
     ELSE LET e == schema.entries[CHOOSE i \in on : TRUE]
          IN  mconf_apply_default_to_field(e)[a - e.offset + 1]]

(* mconf_load_defaults clears the buffer and applies the defaults in the   *)
(* order of the entries, so the last entry on an address decides.          *)
DefaultMemory ==
  [a \in Addr |->
     LET on == {i \in 1 .. Count : Covers(schema.entries[i], a)} IN
     IF a >= schema.data_size THEN mem[a]
     ELSE IF on = {} THEN 0
     ELSE LET e == schema.entries[CHOOSE i \in on : \A j \in on : j <= i]
          IN  mconf_apply_default_to_field(e)[a - e.offset + 1]]

-----------------------------------------------------------------------------
(* The calls.  Each is its chain of checks, then its effect.               *)

Nothing == <<>>
Called(fn, i, err, bytes) ==
  last' = [fn |-> fn, index |-> i, err |-> err, out |-> bytes]

mconf_check_index(i) ==
  CASE ~ initialized                  -> "UNINITIALIZED"
    [] initialized /\ i >= Count      -> "NOT_FOUND"
    [] OTHER                          -> "OK"

(* A setter: err is the outcome of its checks, s the bytes it stores.      *)
Setter(fn, i, err, s) ==
  /\ mem' = IF err = "OK" THEN Store(mem, mconf_entry_at(i), s) ELSE mem
  /\ Called(fn, i, err, Nothing)
  /\ UNCHANGED <<schema, initialized>>

Getter(fn, i, err, s) ==
  /\ Called(fn, i, err, IF err = "OK" THEN s ELSE Nothing)
  /\ UNCHANGED <<schema, initialized, mem>>

(* Binds the context to sc, also one that was bound before; a refusal      *)
(* leaves it as it was.  data_size is what the caller passes.              *)
mconf_init(sc, ctx_size_ok, data_size) ==
  LET err == IF ~ ctx_size_ok \/ data_size # sc.data_size THEN "SIZE"
             ELSE IF ~ mconf_schema_validate(sc) THEN "INVALID" ELSE "OK"
  IN  /\ schema' = IF err = "OK" THEN sc ELSE schema
      /\ initialized' = (initialized \/ err = "OK")
      /\ Called("init", 0, err, Nothing)
      /\ UNCHANGED mem

mconf_load_defaults ==
  /\ mem' = IF initialized THEN DefaultMemory ELSE mem
  /\ Called("load_defaults", 0, IF initialized THEN "OK" ELSE "UNINITIALIZED", Nothing)
  /\ UNCHANGED <<schema, initialized>>

mconf_reset_field(i) ==
  Setter("reset_field", i, mconf_check_index(i),
         mconf_apply_default_to_field(mconf_entry_at(i)))

mconf_find(key) ==
  LET hits == {i \in 0 .. Count - 1 : mconf_entry_at(i).key = key}
      err  == IF ~ initialized THEN "UNINITIALIZED"
              ELSE IF key = NULL THEN "NULL"
              ELSE IF ~ MCONF_ENABLE_NAMES THEN "UNSUPPORTED"
              ELSE IF hits = {} THEN "NOT_FOUND" ELSE "OK"
  IN  Getter("find", 0, err, <<key, CHOOSE i \in hits : \A j \in hits : i <= j>>)

(* mconf_get: out_size is the caller's buffer, NULL stands for no buffer.  *)
mconf_get(i, out_size) ==
  LET err == IF mconf_check_index(i) # "OK" THEN mconf_check_index(i)
             ELSE IF out_size = NULL THEN "NULL"
             ELSE IF out_size # mconf_entry_at(i).size THEN "SIZE" ELSE "OK"
  IN  Getter("get", i, err, FieldBytes(mem, mconf_entry_at(i)))

BadBool(e, v) == e.type = "BOOL" /\ v[1] \notin {0, 1}

(* Mutant: no room is left for the NUL.                                    *)
StringError_NoRoom(e, v) ==
  IF e.type # "STRING" THEN "TYPE"
  ELSE IF Len(v) > e.size THEN "SIZE"
  ELSE IF \E k \in 1 .. Len(v) : v[k] = 0 THEN "INVALID" ELSE "OK"

(* The string checks, behind those of the index and the pointer.           *)
StringError(e, v) ==
  IF e.type # "STRING" THEN "TYPE"
  ELSE IF Len(v) + 1 > e.size THEN "SIZE"
  ELSE IF \E k \in 1 .. Len(v) : v[k] = 0 THEN "INVALID" ELSE "OK"

(* Mutant: one byte too many is cleared.                                   *)
Padded_Overrun(e, v) == [k \in 1 .. e.size + 1 |-> IF k <= Len(v) THEN v[k] ELSE 0]

(* A string of v is stored with the rest of the field cleared.             *)
Padded(e, v) == [k \in 1 .. e.size |-> IF k <= Len(v) THEN v[k] ELSE 0]

mconf_set_string(i, v) ==
  LET err == IF mconf_check_index(i) # "OK" THEN mconf_check_index(i)
             ELSE IF v = NULL THEN "NULL" ELSE StringError(mconf_entry_at(i), v)
  IN  Setter("set_string", i, err, Padded(mconf_entry_at(i), v))

(* mconf_set hands string entries to mconf_set_string.                     *)
mconf_set(i, v) ==
  LET e   == mconf_entry_at(i)
      err == IF mconf_check_index(i) # "OK" THEN mconf_check_index(i)
             ELSE IF v = NULL THEN "NULL"
             ELSE IF e.type = "STRING" THEN StringError(e, v)
             ELSE IF Len(v) # e.size THEN "SIZE"
             ELSE IF BadBool(e, v) THEN "INVALID" ELSE "OK"
  IN  Setter("set", i, err, IF e.type = "STRING" THEN Padded(e, v) ELSE v)

(* The typed accessors pass a value of the type's own size.  mconf_set_bool *)
(* makes it of a bool, so it is 0 or 1.                                    *)
TypedScalars == {"BOOL", "U8", "U16", "U32", "I32", "FLOAT32"}

TypeError(i, type) ==
  IF mconf_check_index(i) # "OK" THEN mconf_check_index(i)
  ELSE IF mconf_entry_at(i).type # type THEN "TYPE"
  ELSE IF type = "FLOAT32" /\ ~ FloatUsable THEN "UNSUPPORTED" ELSE "OK"

mconf_set_typed_scalar(i, type, v) ==
  /\ Len(v) = mconf_expected_type_size(type)
  /\ type = "BOOL" => v[1] \in {0, 1}
  /\ Setter("set_scalar", i, TypeError(i, type), v)

mconf_get_typed_scalar(i, type) ==
  LET s   == FieldBytes(mem, mconf_entry_at(i))
      err == IF TypeError(i, type) # "OK" THEN TypeError(i, type)
             ELSE IF BadBool(mconf_entry_at(i), s) THEN "INVALID" ELSE "OK"
  IN  Getter("get_scalar", i, err, s)

mconf_get_blob(i, out_size) ==
  LET err == IF mconf_check_index(i) # "OK" THEN mconf_check_index(i)
             ELSE IF out_size = NULL THEN "NULL"
             ELSE IF mconf_entry_at(i).type # "BLOB" THEN "TYPE"
             ELSE IF out_size # mconf_entry_at(i).size THEN "SIZE" ELSE "OK"
  IN  Getter("get_blob", i, err, FieldBytes(mem, mconf_entry_at(i)))

mconf_set_blob(i, v) ==
  LET err == IF mconf_check_index(i) # "OK" THEN mconf_check_index(i)
             ELSE IF v = NULL THEN "NULL"
             ELSE IF mconf_entry_at(i).type # "BLOB" THEN "TYPE"
             ELSE IF Len(v) # mconf_entry_at(i).size THEN "SIZE" ELSE "OK"
  IN  Setter("set_blob", i, err, v)

mconf_get_string(i, out_size) ==
  LET e   == mconf_entry_at(i)
      s   == FieldBytes(mem, e)
      err == IF mconf_check_index(i) # "OK" THEN mconf_check_index(i)
             ELSE IF out_size = NULL THEN "NULL"
             ELSE IF e.type # "STRING" THEN "TYPE"
             ELSE IF ~ Terminated(s) THEN "INVALID"
             ELSE IF out_size < StringLength(s) + 1 THEN "SIZE" ELSE "OK"
  IN  Getter("get_string", i, err, SubSeq(s, 1, StringLength(s) + 1))

(* The caller owns the buffer and may assign to it directly.               *)
CallerWrite(a, b) ==
  /\ initialized /\ a < schema.data_size
  /\ mem' = [mem EXCEPT ![a] = b]
  /\ Called("caller", 0, "OK", Nothing)
  /\ UNCHANGED <<schema, initialized>>

-----------------------------------------------------------------------------
Init ==
  /\ schema = NULL
  /\ initialized = FALSE
  /\ mem = [a \in Addr |-> 0]
  /\ last = [fn |-> "none", index |-> 0, err |-> "OK", out |-> Nothing]

Index    == 0 .. MCONF_MAX_ENTRIES
OutSizes == 0 .. MaxValue

Next ==
  \/ \E sc \in Candidates, ok \in BOOLEAN :
       \E n \in {0, sc.data_size} : mconf_init(sc, ok, n)
  \/ mconf_load_defaults
  \/ \E key \in Keys \cup {NULL} : mconf_find(key)
  \/ \E i \in Index :
       \/ mconf_reset_field(i)
       \/ \E v \in Value \cup {NULL} :
            mconf_set(i, v) \/ mconf_set_string(i, v) \/ mconf_set_blob(i, v)
       \/ \E n \in OutSizes \cup {NULL} :
            mconf_get(i, n) \/ mconf_get_blob(i, n) \/ mconf_get_string(i, n)
       \/ \E type \in TypedScalars :
            \/ mconf_get_typed_scalar(i, type)
            \/ \E v \in Value : mconf_set_typed_scalar(i, type, v)
  \/ \E a \in Addr, b \in Byte : CallerWrite(a, b)

Spec == Init /\ [][Next]_vars

-----------------------------------------------------------------------------
(* Properties.                                                             *)

Results == {"OK", "NULL", "INVALID", "SIZE", "TYPE", "NOT_FOUND", "UNINITIALIZED",
            "UNSUPPORTED"}

(* Memory stays bytes and every call returns one of the error codes.       *)
TypeOK ==
  /\ schema \in Candidates \cup {NULL}
  /\ initialized \in BOOLEAN
  /\ mem \in [Addr -> Byte]
  /\ last.err \in Results

Indices == 1 .. Count
Disjoint(e, other) ==
  e.offset + e.size <= other.offset \/ other.offset + other.size <= e.offset

(* A context is bound only to a schema whose fields lie in the buffer, do  *)
(* not share a byte and have different keys, although mconf_schema_validate *)
(* computes the ends of the fields in size_t arithmetic that can wrap, and *)
(* although mconf_init may be called again with a schema it refuses.       *)
LayoutSound ==
  initialized =>
    /\ \A i \in Indices : /\ schema.entries[i].size > 0
                          /\ schema.entries[i].offset + schema.entries[i].size
                               <= schema.data_size
    /\ \A i, j \in Indices : i # j =>
         /\ Disjoint(schema.entries[i], schema.entries[j])
         /\ ~ SameKey(schema.entries[i], schema.entries[j])

(* A call on one field leaves every other field alone, and every byte that *)
(* belongs to no field; a call that fails leaves all memory alone; and     *)
(* nothing behind the buffer is ever written (memset, memcpy and memmove   *)
(* in the setters and in mconf_load_defaults).                             *)
FieldsIndependent ==
  [][/\ last'.fn \notin {"load_defaults", "caller"} =>
          \A a \in Addr : mem'[a] # mem[a] =>
            /\ initialized /\ last'.err = "OK"
            /\ {i \in Indices : Covers(schema.entries[i], a)} = {last'.index + 1}
     /\ \A a \in Addr : (initialized => a >= schema.data_size) => mem'[a] = mem[a]]_vars

(* The defaults are values of their types.  mconf_schema_validate compares *)
(* their sizes only: a bool default of 2 and a float default on a target   *)
(* without usable floats are accepted.                                     *)
DefaultsLegal ==
  \A i \in Indices :
    ValidField(schema.entries[i], mconf_apply_default_to_field(schema.entries[i]))

(* With legal defaults, no sequence of calls leads from data that          *)
(* mconf_validate_data accepts to data that it refuses (and mconf_save     *)
(* then would refuse).                                                     *)
ValidStaysValid ==
  [][(initialized /\ DefaultsLegal /\ last'.fn # "caller" /\ mconf_validate_data(mem))
       => mconf_validate_data(mem')]_vars

(* mconf_load_defaults gives every field its own default, whatever the     *)
(* buffer held, although it writes the fields one after the other.         *)
DefaultsRestored ==
  [][(last'.fn = "load_defaults" /\ last'.err = "OK") =>
       \A i \in Indices : FieldBytes(mem', schema.entries[i])
                             = mconf_apply_default_to_field(schema.entries[i])]_vars
=============================================================================
