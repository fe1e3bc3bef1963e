------------------------- MODULE MconfContextProofs -------------------------
(***************************************************************************)
(* Proofs about MconfContext and MconfFingerprint, for every set of        *)
(* schemas, every width of size_t and every size of memory.                *)
(***************************************************************************)
EXTENDS MconfFingerprint, MconfSequenceProofs

-----------------------------------------------------------------------------
(* Schema validation.                                                      *)

(* The entries of a schema are entries, and their numbers are naturals     *)
(* below SizeMod.                                                          *)
LEMMA EntryType ==
  ASSUME NEW sc \in Candidates, NEW i \in 1 .. Len(sc.entries)
  PROVE  /\ sc \in Schema /\ sc.entries[i] \in Entry
         /\ sc.entries[i].offset \in Nat /\ sc.entries[i].offset < SizeMod
         /\ sc.entries[i].size \in Nat /\ sc.entries[i].size < SizeMod
         /\ sc.data_size \in Nat /\ sc.data_size < SizeMod /\ sc.data_size <= MemSize
<1>1. sc \in Schema /\ sc.data_size <= MemSize
  BY CallersAssumption
<1>2. sc.entries \in Seq(Entry) /\ sc.data_size \in size_t
  BY <1>1 DEF Schema
<1>3. sc.entries[i] \in Entry
  BY <1>2
<1>4. sc.entries[i].offset \in size_t /\ sc.entries[i].size \in size_t
  BY <1>3 DEF Entry
<1> QED
  BY <1>1, <1>2, <1>3, <1>4, NumbersAssumption DEF size_t

(* An end computed in size_t arithmetic that passes the code's two         *)
(* comparisons has not wrapped.                                            *)
LEMMA NoWrap ==
  ASSUME NEW a \in Nat, NEW b \in Nat, a < SizeMod, b < SizeMod, ~ (Add(a, b) < a)
  PROVE  Add(a, b) = a + b
BY NumbersAssumption DEF Add

(* A schema that mconf_schema_validate accepts has fields inside the       *)
(* buffer that share no byte and no key.                                   *)
LEMMA AcceptedIsSound ==
  ASSUME NEW sc \in Candidates, mconf_schema_validate(sc)
  PROVE  /\ \A i \in 1 .. Len(sc.entries) :
              /\ sc.entries[i].size > 0
              /\ sc.entries[i].offset + sc.entries[i].size <= sc.data_size
         /\ \A i, j \in 1 .. Len(sc.entries) : i # j =>
              /\ Disjoint(sc.entries[i], sc.entries[j])
              /\ ~ SameKey(sc.entries[i], sc.entries[j])
<1>1. ASSUME NEW i \in 1 .. Len(sc.entries)
      PROVE  /\ sc.entries[i].size > 0
             /\ Add(sc.entries[i].offset, sc.entries[i].size)
                  = sc.entries[i].offset + sc.entries[i].size
             /\ sc.entries[i].offset + sc.entries[i].size <= sc.data_size
  <2>1. EntryFits(sc.entries[i], sc.data_size)
    BY DEF mconf_schema_validate, mconf_validate_entry_layout
  <2>2. Add(sc.entries[i].offset, sc.entries[i].size)
          = sc.entries[i].offset + sc.entries[i].size
    BY <2>1, EntryType, NoWrap DEF EntryFits
  <2> QED
    BY <2>1, <2>2, EntryType DEF EntryFits
<1>2. ASSUME NEW i \in 1 .. Len(sc.entries), NEW j \in 1 .. Len(sc.entries), i < j
      PROVE  /\ Disjoint(sc.entries[i], sc.entries[j])
             /\ ~ SameKey(sc.entries[i], sc.entries[j])
  <2>1. j \in i + 1 .. Len(sc.entries)
    BY <1>2
  <2>2. /\ ~ Overlap(sc.entries[i], sc.entries[j])
        /\ ~ SameKey(sc.entries[i], sc.entries[j])
    BY <2>1 DEF mconf_schema_validate, mconf_validate_entry_layout
  <2> QED
    BY <1>1, <2>2, EntryType DEF Overlap, Disjoint
<1>3. ASSUME NEW i \in 1 .. Len(sc.entries), NEW j \in 1 .. Len(sc.entries), i # j
      PROVE  i < j \/ j < i
  BY <1>3
<1> QED
  BY <1>1, <1>2, <1>3 DEF Disjoint, SameKey

(* A context that is bound is bound to a schema that was accepted.         *)
Bound == initialized => schema \in Candidates /\ mconf_schema_validate(schema)

(* A call is an mconf_init or leaves the binding alone.                    *)
LEMMA ContextStep ==
  ASSUME [Next]_vars
  PROVE  \/ \E sc \in Candidates, ok \in BOOLEAN :
              \E n \in {0, sc.data_size} : mconf_init(sc, ok, n)
         \/ UNCHANGED <<schema, initialized>>
BY DEF Next, vars, mconf_load_defaults, mconf_reset_field, mconf_find, mconf_get,
       mconf_set, mconf_set_string, mconf_set_blob, mconf_get_blob, mconf_get_string,
       mconf_get_typed_scalar, mconf_set_typed_scalar, CallerWrite, Setter, Getter

(* mconf_init binds to an accepted schema or changes nothing.              *)
LEMMA InitStep ==
  ASSUME NEW sc \in Candidates, NEW ok \in BOOLEAN, NEW n, mconf_init(sc, ok, n)
  PROVE  /\ \/ mconf_schema_validate(sc) /\ schema' = sc
            \/ schema' = schema /\ (initialized' <=> initialized)
         /\ mem' = mem /\ last'.fn = "init"
         /\ last'.err \in {"SIZE", "INVALID", "OK"}
<1> DEFINE err == IF ~ ok \/ n # sc.data_size THEN "SIZE"
                  ELSE IF ~ mconf_schema_validate(sc) THEN "INVALID" ELSE "OK"
<1>1. /\ schema' = IF err = "OK" THEN sc ELSE schema
      /\ initialized' = (initialized \/ err = "OK")
      /\ Called("init", 0, err, Nothing) /\ mem' = mem
  BY DEF mconf_init
<1>2. err \in {"SIZE", "INVALID", "OK"} /\ (err = "OK" => mconf_schema_validate(sc))
  OBVIOUS
<1> HIDE DEF err
<1>3. last'.fn = "init" /\ last'.err = err
  BY <1>1 DEF Called
<1>4. CASE err = "OK"
  BY <1>1, <1>2, <1>3, <1>4
<1>5. CASE err # "OK"
  <2>1. initialized' = (initialized \/ FALSE)
    BY <1>1, <1>5
  <2> QED
    BY <1>1, <1>2, <1>3, <1>5, <2>1
<1> QED
  BY <1>4, <1>5

(* Only mconf_init binds, and only to what it accepted.                    *)
LEMMA BoundInvariant == Spec => []Bound
<1>1. Init => Bound
  BY DEF Init, Bound
<1>2. Bound /\ [Next]_vars => Bound'
  <2> SUFFICES ASSUME Bound, [Next]_vars PROVE Bound'
    OBVIOUS
  <2>1. CASE UNCHANGED <<schema, initialized>>
    BY <2>1 DEF Bound, mconf_schema_validate, mconf_validate_entry_layout
  <2>2. ASSUME NEW sc \in Candidates, NEW ok \in BOOLEAN, NEW n \in {0, sc.data_size},
               mconf_init(sc, ok, n)
        PROVE  Bound'
    BY <2>2, InitStep DEF Bound, mconf_schema_validate, mconf_validate_entry_layout
  <2> QED
    BY <2>1, <2>2, ContextStep
<1> QED
  BY <1>1, <1>2, PTL DEF Spec

(* An accepted schema has a sound layout.                                  *)
LEMMA BoundIsSound == Bound => LayoutSound
BY AcceptedIsSound DEF Bound, LayoutSound, Indices, Count

(* Every context is bound to a schema with a sound layout, for all schemas *)
(* callers may pass to mconf_init, however often, and however wide size_t  *)
(* is.                                                                     *)
THEOREM LayoutIsSound == Spec => []LayoutSound
BY BoundInvariant, BoundIsSound, PTL

-----------------------------------------------------------------------------
(* Access.                                                                 *)

(* A value argument is a sequence of bytes.                                *)
LEMMA ValueIsBytes ==
  ASSUME NEW v \in Value
  PROVE  v \in Seq(Byte)
<1>1. PICK n \in 0 .. MaxValue : v \in [1 .. n -> Byte]
  BY DEF Value
<1>2. n \in Nat
  BY NumbersAssumption
<1> QED
  BY <1>1, <1>2, SeqDef

(* A function on 1 .. n is a sequence of length n.                         *)
LEMMA FunctionIsSequence ==
  ASSUME NEW n \in Nat, NEW f \in [1 .. n -> Byte]
  PROVE  f \in Seq(Byte) /\ Len(f) = n
<1>1. f \in Seq(Byte)
  BY SeqDef
<1>2. /\ Len(f) \in Nat /\ DOMAIN f = 1 .. Len(f) /\ DOMAIN f = 1 .. n
  BY <1>1, LenProperties
<1>3. Len(f) = n
  BY <1>2
<1> QED
  BY <1>1, <1>3

(* The default and the padded string fill the field exactly.               *)
LEMMA FillersFit ==
  ASSUME NEW sc \in Candidates, NEW k \in 1 .. Len(sc.entries), NEW v \in Seq(Byte),
         mconf_validate_default_for_entry(sc.entries[k])
  PROVE  LET e == sc.entries[k] IN
         /\ mconf_apply_default_to_field(e) \in Seq(Byte)
         /\ Len(mconf_apply_default_to_field(e)) = e.size
         /\ mconf_apply_default_to_field(e) \in [1 .. e.size -> Byte]
         /\ Padded(e, v) \in Seq(Byte) /\ Len(Padded(e, v)) = e.size
<1> DEFINE e == sc.entries[k]
<1>1. /\ e \in Entry /\ e.size \in Nat
      /\ e.default_value # NULL => e.default_value \in Seq(Byte)
      /\ e.default_value # NULL => e.default_size = Len(e.default_value)
  BY EntryType, CallersAssumption DEF Entry, Bytes
<1>2. ASSUME NEW n \in 1 .. e.size, e.default_value # NULL, ~ (n > e.default_size)
      PROVE  e.default_value[n] \in Byte
  <2>1. e.default_value \in Seq(Byte) /\ e.default_size = Len(e.default_value)
    BY <1>1, <1>2
  <2>2. n \in 1 .. Len(e.default_value)
    BY <1>1, <1>2, <2>1, LenProperties
  <2> QED
    BY <2>1, <2>2
<1>3. mconf_apply_default_to_field(e) \in [1 .. e.size -> Byte]
  BY <1>2, NumbersAssumption DEF mconf_apply_default_to_field
<1>4. Padded(e, v) \in [1 .. e.size -> Byte]
  BY <1>1, NumbersAssumption, LenProperties DEF Padded
<1> QED
  BY <1>1, <1>3, <1>4, FunctionIsSequence

(* s is the default of field i, or a value that its type allows.           *)
Legal(i, s) ==
  LET e == mconf_entry_at(i)
  IN  \/ s = mconf_apply_default_to_field(e)
      \/ /\ e.type = "BOOL" => s[1] \in {0, 1}
         /\ e.type = "STRING" => Terminated(s)

(* s is stored into field i of an existing context and fills it.           *)
FieldWrite(i, s) ==
  /\ initialized /\ i \in Nat /\ i < Count
  /\ s \in Seq(Byte) /\ Len(s) = mconf_entry_at(i).size /\ Legal(i, s)
  /\ mem' = Store(mem, mconf_entry_at(i), s)
  /\ last'.index = i /\ last'.err = "OK"

(* An index that passes the check is that of an entry.                     *)
LEMMA CheckedIndex ==
  ASSUME Bound, NEW i \in Index, mconf_check_index(i) = "OK"
  PROVE  /\ initialized /\ i \in Nat /\ i < Count
         /\ i + 1 \in 1 .. Len(schema.entries)
         /\ mconf_validate_default_for_entry(mconf_entry_at(i))
<1>1. initialized /\ ~ (i >= Count)
  BY DEF mconf_check_index
<1>2. i \in Nat /\ Count \in Nat
  BY <1>1, NumbersAssumption, CallersAssumption, LenProperties DEF Index, Count, Bound, Schema
<1>3. i < Count /\ i + 1 \in 1 .. Len(schema.entries)
  BY <1>1, <1>2 DEF Count
<1>4. mconf_validate_default_for_entry(schema.entries[i + 1])
  BY <1>1, <1>3
  DEF Bound, mconf_schema_validate, mconf_validate_entry_layout, EntryFits
<1> QED
  BY <1>1, <1>2, <1>3, <1>4 DEF mconf_entry_at

(* A setter that succeeds stores bytes that fill its field.                *)
LEMMA SetterWrites ==
  ASSUME Bound, NEW i \in Index, NEW fn, NEW err, NEW s,
         Setter(fn, i, err, s),
         err = "OK" => /\ mconf_check_index(i) = "OK"
                       /\ s \in Seq(Byte) /\ Len(s) = mconf_entry_at(i).size
                       /\ Legal(i, s)
  PROVE  /\ mem' = mem \/ FieldWrite(i, s)
         /\ last'.fn = fn
BY CheckedIndex DEF Setter, FieldWrite, Called

(* The setters of a field, by their outcome.                               *)
LEMMA SetterSteps ==
  ASSUME Bound, NEW i \in Index,
         \/ mconf_reset_field(i)
         \/ \E v \in Value \cup {NULL} :
              mconf_set(i, v) \/ mconf_set_string(i, v) \/ mconf_set_blob(i, v)
         \/ \E type \in TypedScalars, v \in Value : mconf_set_typed_scalar(i, type, v)
  PROVE  /\ mem' = mem \/ \E s \in Seq(Byte) : FieldWrite(i, s)
         /\ last'.fn \notin {"load_defaults", "caller"}
<1> DEFINE e == mconf_entry_at(i)
<1>a. mconf_check_index(i) = "OK" => schema \in Candidates
  BY CheckedIndex DEF Bound
<1>b. ASSUME mconf_check_index(i) = "OK", NEW v \in Seq(Byte)
      PROVE  /\ mconf_apply_default_to_field(e) \in Seq(Byte)
             /\ Len(mconf_apply_default_to_field(e)) = e.size
             /\ Padded(e, v) \in Seq(Byte) /\ Len(Padded(e, v)) = e.size
  BY <1>a, <1>b, CheckedIndex, FillersFit DEF mconf_entry_at
<1>c. \A v \in Value \cup {NULL} : v # NULL => v \in Seq(Byte)
  BY ValueIsBytes
<1>d. ASSUME mconf_check_index(i) = "OK", NEW v \in Seq(Byte), StringError(e, v) = "OK"
      PROVE  Legal(i, Padded(e, v))
  <2>1. e.type = "STRING" /\ ~ (Len(v) + 1 > e.size)
    BY <1>d DEF StringError
  <2>2. EntryFits(e, schema.data_size) /\ e.size \in Nat
    BY <1>a, <1>d, CheckedIndex, EntryType
    DEF Bound, mconf_schema_validate, mconf_validate_entry_layout, mconf_entry_at
  <2>3. e.size >= 2 /\ Len(Padded(e, v)) = e.size
    BY <1>b, <1>d, <2>1, <2>2 DEF EntryFits
  <2>4. Len(v) \in Nat
    BY LenProperties
  <2>5. Len(v) + 1 \in 1 .. e.size
    BY <2>1, <2>2, <2>4
  <2>6. Padded(e, v)[Len(v) + 1] = 0
    <3> DEFINE n == Len(v)
    <3> HIDE DEF n
    <3>1. n \in Nat /\ n + 1 \in 1 .. e.size /\ ~ (n + 1 <= n)
      BY <2>4, <2>5 DEF n
    <3> QED BY <3>1 DEF Padded, n
  <2>7. Terminated(Padded(e, v))
    BY <2>2, <2>3, <2>5, <2>6 DEF Terminated
  <2> QED BY <2>1, <2>7 DEF Legal
<1>e. Legal(i, mconf_apply_default_to_field(e))
  BY DEF Legal
<1>1. CASE mconf_reset_field(i)
  <2>1. <<>> \in Seq(Byte)
    OBVIOUS
  <2>2. mconf_check_index(i) = "OK" =>
          /\ mconf_apply_default_to_field(e) \in Seq(Byte)
          /\ Len(mconf_apply_default_to_field(e)) = e.size
    BY <1>b, <2>1
  <2> QED
    BY <1>1, <1>e, <2>2, SetterWrites DEF mconf_reset_field, FieldWrite
<1>2. ASSUME NEW v \in Value \cup {NULL}, mconf_set_string(i, v)
      PROVE  /\ mem' = mem \/ \E s \in Seq(Byte) : FieldWrite(i, s)
             /\ last'.fn \notin {"load_defaults", "caller"}
  <2> DEFINE err == IF mconf_check_index(i) # "OK" THEN mconf_check_index(i)
                    ELSE IF v = NULL THEN "NULL" ELSE StringError(e, v)
  <2>1. Setter("set_string", i, err, Padded(e, v))
    BY <1>2 DEF mconf_set_string
  <2>2. err = "OK" => /\ mconf_check_index(i) = "OK" /\ v # NULL
                      /\ StringError(e, v) = "OK"
    OBVIOUS
  <2>3. err = "OK" => Padded(e, v) \in Seq(Byte) /\ Len(Padded(e, v)) = e.size
    BY <1>b, <1>c, <2>2
  <2>4. err = "OK" => Legal(i, Padded(e, v))
    BY <1>c, <1>d, <2>2
  <2> HIDE DEF err
  <2> QED
    BY <2>1, <2>2, <2>3, <2>4, SetterWrites DEF FieldWrite
<1>3. ASSUME NEW v \in Value \cup {NULL}, mconf_set(i, v)
      PROVE  /\ mem' = mem \/ \E s \in Seq(Byte) : FieldWrite(i, s)
             /\ last'.fn \notin {"load_defaults", "caller"}
  <2> DEFINE err == IF mconf_check_index(i) # "OK" THEN mconf_check_index(i)
                    ELSE IF v = NULL THEN "NULL"
                    ELSE IF e.type = "STRING" THEN StringError(e, v)
                    ELSE IF Len(v) # e.size THEN "SIZE"
                    ELSE IF BadBool(e, v) THEN "INVALID" ELSE "OK"
             s == IF e.type = "STRING" THEN Padded(e, v) ELSE v
  <2>1. Setter("set", i, err, s)
    BY <1>3 DEF mconf_set
  <2>2. err = "OK" => /\ mconf_check_index(i) = "OK" /\ v # NULL
                      /\ e.type = "STRING" => StringError(e, v) = "OK"
                      /\ e.type # "STRING" => Len(v) = e.size /\ ~ BadBool(e, v)
    OBVIOUS
  <2>3. err = "OK" => s \in Seq(Byte) /\ Len(s) = e.size
    BY <1>b, <1>c, <2>2
  <2>4. ASSUME err = "OK" PROVE Legal(i, s)
    <3>1. CASE e.type = "STRING"
      BY <1>c, <1>d, <2>2, <2>4, <3>1
    <3>2. CASE e.type # "STRING"
      BY <2>2, <2>4, <3>2 DEF Legal, BadBool
    <3> QED BY <3>1, <3>2
  <2> HIDE DEF err, s
  <2> QED
    BY <2>1, <2>2, <2>3, <2>4, SetterWrites DEF FieldWrite
<1>4. ASSUME NEW v \in Value \cup {NULL}, mconf_set_blob(i, v)
      PROVE  /\ mem' = mem \/ \E s \in Seq(Byte) : FieldWrite(i, s)
             /\ last'.fn \notin {"load_defaults", "caller"}
  <2> DEFINE err == IF mconf_check_index(i) # "OK" THEN mconf_check_index(i)
                    ELSE IF v = NULL THEN "NULL"
                    ELSE IF e.type # "BLOB" THEN "TYPE"
                    ELSE IF Len(v) # e.size THEN "SIZE" ELSE "OK"
  <2>1. Setter("set_blob", i, err, v)
    BY <1>4 DEF mconf_set_blob
  <2>2. err = "OK" => /\ mconf_check_index(i) = "OK" /\ v \in Seq(Byte)
                      /\ Len(v) = e.size /\ e.type = "BLOB"
    BY <1>c
  <2>3. err = "OK" => Legal(i, v)
    BY <2>2 DEF Legal
  <2> HIDE DEF err
  <2> QED
    BY <2>1, <2>2, <2>3, SetterWrites DEF FieldWrite
<1>5. ASSUME NEW type \in TypedScalars, NEW v \in Value, mconf_set_typed_scalar(i, type, v)
      PROVE  /\ mem' = mem \/ \E s \in Seq(Byte) : FieldWrite(i, s)
             /\ last'.fn \notin {"load_defaults", "caller"}
  <2> DEFINE err == TypeError(i, type)
  <2>1. Setter("set_scalar", i, err, v) /\ Len(v) = mconf_expected_type_size(type)
    BY <1>5 DEF mconf_set_typed_scalar
  <2>2. ASSUME err = "OK" PROVE mconf_check_index(i) = "OK" /\ e.type = type
    BY <2>2 DEF TypeError
  <2>3. ASSUME err = "OK" PROVE Len(v) = e.size
    <3>1. EntryFits(e, schema.data_size)
      BY <2>2, <2>3, CheckedIndex
      DEF Bound, mconf_schema_validate, mconf_validate_entry_layout, mconf_entry_at
    <3> QED
      BY <2>1, <2>2, <2>3, <3>1
      DEF EntryFits, mconf_expected_type_size, TypedScalars
  <2>4. v \in Seq(Byte)
    BY ValueIsBytes
  <2>5. ASSUME err = "OK" PROVE Legal(i, v)
    BY <1>5, <2>2, <2>5 DEF mconf_set_typed_scalar, Legal, TypedScalars
  <2> HIDE DEF err
  <2> QED
    BY <2>1, <2>2, <2>3, <2>4, <2>5, SetterWrites DEF FieldWrite
<1> QED
  BY <1>1, <1>2, <1>3, <1>4, <1>5

(* No address belongs to two fields.                                       *)
LEMMA OneOwner ==
  ASSUME Bound, initialized, NEW a \in Addr, NEW i \in Indices, NEW j \in Indices,
         Covers(schema.entries[i], a), Covers(schema.entries[j], a)
  PROVE  i = j
<1>1. schema \in Candidates /\ LayoutSound
  BY BoundIsSound DEF Bound
<1>2. a \in Nat
  BY NumbersAssumption DEF Addr
<1>3. /\ schema.entries[i].offset \in Nat /\ schema.entries[i].size \in Nat
      /\ schema.entries[j].offset \in Nat /\ schema.entries[j].size \in Nat
  BY <1>1, EntryType DEF Indices, Count
<1>4. ~ Disjoint(schema.entries[i], schema.entries[j])
  BY <1>2, <1>3 DEF Disjoint, Covers
<1> QED
  BY <1>1, <1>4 DEF LayoutSound

(* mconf_load_defaults writes bytes, only inside the buffer, and gives     *)
(* every field its default.                                                *)
LEMMA DefaultsWrite ==
  ASSUME Bound, mem \in [Addr -> Byte], initialized
  PROVE  /\ DefaultMemory \in [Addr -> Byte]
         /\ \A a \in Addr : a >= schema.data_size => DefaultMemory[a] = mem[a]
         /\ \A a \in Addr, i \in Indices : Covers(schema.entries[i], a) =>
              DefaultMemory[a] = mconf_apply_default_to_field(schema.entries[i])
                                   [a - schema.entries[i].offset + 1]
<1> DEFINE on(a) == {i \in 1 .. Count : Covers(schema.entries[i], a)}
           top(a) == CHOOSE i \in on(a) : \A j \in on(a) : j <= i
           def(i, a) == mconf_apply_default_to_field(schema.entries[i])
                          [a - schema.entries[i].offset + 1]
<1>1. schema \in Candidates /\ mconf_schema_validate(schema) /\ LayoutSound
  BY BoundIsSound DEF Bound
<1>2. Count \in Nat
  BY <1>1, CallersAssumption, LenProperties DEF Count, Schema
<1>3. ASSUME NEW a \in Addr, NEW i \in on(a)
      PROVE  top(a) = i
  <2>1. \A j \in on(a) : j = i
    BY OneOwner DEF Indices
  <2>2. i \in on(a) /\ \A j \in on(a) : j <= i
    BY <1>2, <2>1
  <2>3. top(a) \in on(a)
    BY <2>2
  <2> QED
    BY <2>1, <2>3
<1>4. ASSUME NEW a \in Addr, NEW i \in on(a)
      PROVE  def(i, a) \in Byte /\ a < schema.data_size
  <2> DEFINE e == schema.entries[i]
  <2>1. i \in 1 .. Len(schema.entries)
    BY DEF Count
  <2>2. /\ e.offset \in Nat /\ e.size \in Nat /\ schema.data_size \in Nat
    BY <1>1, <2>1, EntryType
  <2>3. e.offset + e.size <= schema.data_size
    BY <1>1 DEF LayoutSound, Indices
  <2>4. mconf_validate_default_for_entry(e)
    BY <1>1, <2>1 DEF mconf_schema_validate, mconf_validate_entry_layout, EntryFits
  <2>5. mconf_apply_default_to_field(e) \in [1 .. e.size -> Byte]
    <3>1. <<>> \in Seq(Byte)
      OBVIOUS
    <3> QED
      BY <1>1, <2>1, <2>4, <3>1, FillersFit
  <2>6. a \in Nat /\ e.offset <= a /\ a < e.offset + e.size
    BY NumbersAssumption DEF Addr, Covers
  <2>7. a - e.offset + 1 \in 1 .. e.size
    BY <2>2, <2>6
  <2> QED
    BY <2>2, <2>3, <2>5, <2>6, <2>7
<1>5. DefaultMemory =
        [a \in Addr |-> IF a >= schema.data_size THEN mem[a]
                        ELSE IF on(a) = {} THEN 0 ELSE def(top(a), a)]
  BY DEF DefaultMemory
<1> HIDE DEF on, top, def
<1>6. \A a \in Addr : on(a) # {} => top(a) \in on(a)
  BY <1>3
<1>7. ASSUME NEW a \in Addr
      PROVE  /\ DefaultMemory[a] \in Byte
             /\ a >= schema.data_size => DefaultMemory[a] = mem[a]
  BY <1>4, <1>5, <1>6, NumbersAssumption
<1>8. ASSUME NEW a \in Addr, NEW i \in on(a)
      PROVE  DefaultMemory[a] = def(i, a)
  <2>1. a \in Nat /\ schema.data_size \in Nat
    BY <1>1, CallersAssumption, NumbersAssumption DEF Addr, Schema, size_t
  <2>2. ~ (a >= schema.data_size)
    BY <1>4, <2>1
  <2> QED
    BY <1>3, <1>5, <2>2
<1>9. DefaultMemory \in [Addr -> Byte]
  BY <1>5, <1>7
<1> QED
  BY <1>7, <1>8, <1>9 DEF on, def, Indices

(* What a call can do to memory.                                           *)
LEMMA MemoryStep ==
  ASSUME Bound, [Next]_vars
  PROVE  \/ mem' = mem
         \/ /\ last'.fn \notin {"load_defaults", "caller"}
            /\ \E i \in Index, s \in Seq(Byte) : FieldWrite(i, s)
         \/ /\ last'.fn = "load_defaults"
            /\ initialized /\ mem' = DefaultMemory
         \/ /\ last'.fn = "caller" /\ initialized
            /\ \E a \in Addr, b \in Byte :
                 a < schema.data_size /\ mem' = [mem EXCEPT ![a] = b]
<1>1. CASE UNCHANGED vars
  BY <1>1 DEF vars
<1>2. CASE \E sc \in Candidates, ok \in BOOLEAN :
             \E n \in {0, sc.data_size} : mconf_init(sc, ok, n)
  BY <1>2, InitStep
<1>3. CASE mconf_load_defaults
  BY <1>3 DEF mconf_load_defaults, Called
<1>4. CASE \E key \in Keys \cup {NULL} : mconf_find(key)
  BY <1>4 DEF mconf_find, Getter
<1>5. ASSUME NEW i \in Index,
             \/ mconf_reset_field(i)
             \/ \E v \in Value \cup {NULL} :
                  mconf_set(i, v) \/ mconf_set_string(i, v) \/ mconf_set_blob(i, v)
             \/ \E type \in TypedScalars, v \in Value : mconf_set_typed_scalar(i, type, v)
      PROVE  \/ mem' = mem
             \/ /\ last'.fn \notin {"load_defaults", "caller"}
                /\ \E s \in Seq(Byte) : FieldWrite(i, s)
  BY <1>5, SetterSteps
<1>6. ASSUME NEW i \in Index,
             \/ \E n \in OutSizes \cup {NULL} :
                  mconf_get(i, n) \/ mconf_get_blob(i, n) \/ mconf_get_string(i, n)
             \/ \E type \in TypedScalars : mconf_get_typed_scalar(i, type)
      PROVE  mem' = mem
  BY <1>6 DEF mconf_get, mconf_get_blob, mconf_get_string, mconf_get_typed_scalar, Getter
<1>7. CASE \E a \in Addr, b \in Byte : CallerWrite(a, b)
  <2>1. PICK a \in Addr, b \in Byte : CallerWrite(a, b)
    BY <1>7
  <2>2. last'.fn = "caller"
    BY <2>1 DEF CallerWrite, Called
  <2>3. initialized /\ a < schema.data_size /\ mem' = [mem EXCEPT ![a] = b]
    BY <2>1 DEF CallerWrite
  <2> QED
    BY <2>2, <2>3
<1> QED
  BY <1>1, <1>2, <1>3, <1>4, <1>5, <1>6, <1>7 DEF Next

(* A field write touches the addresses of its field only.                  *)
LEMMA WriteCovers ==
  ASSUME Bound, mem \in [Addr -> Byte],
         NEW i \in Index, NEW s \in Seq(Byte), FieldWrite(i, s)
  PROVE  /\ mem' \in [Addr -> Byte]
         /\ i + 1 \in Indices
         /\ \A a \in Addr : mem'[a] # mem[a] => Covers(schema.entries[i + 1], a)
<1> DEFINE e == schema.entries[i + 1]
<1>1. initialized /\ i \in Nat /\ i < Count /\ Len(s) = e.size /\ mem' = Store(mem, e, s)
  BY DEF FieldWrite, mconf_entry_at
<1>2. schema \in Candidates /\ Count \in Nat
  BY <1>1, CallersAssumption, LenProperties DEF Bound, Count, Schema
<1>3. i + 1 \in Indices /\ i + 1 \in 1 .. Len(schema.entries)
  BY <1>1, <1>2 DEF Indices, Count
<1>4. e.offset \in Nat /\ e.size \in Nat /\ Len(s) = e.size
  BY <1>1, <1>2, <1>3, EntryType
<1> HIDE DEF e
<1>5. ASSUME NEW a \in Addr, a - e.offset \in 0 .. Len(s) - 1
      PROVE  s[a - e.offset + 1] \in Byte /\ Covers(e, a)
  <2>1. a \in Nat
    BY NumbersAssumption DEF Addr
  <2>2. a - e.offset + 1 \in 1 .. Len(s) /\ e.offset <= a /\ a < e.offset + e.size
    BY <1>4, <1>5, <2>1
  <2> QED
    BY <2>2 DEF Covers
<1>6. ASSUME NEW a \in Addr
      PROVE  mem'[a] \in Byte /\ (mem'[a] # mem[a] => Covers(e, a))
  BY <1>1, <1>5 DEF Store
<1>7. mem' \in [Addr -> Byte]
  BY <1>1, <1>6 DEF Store
<1> QED
  BY <1>3, <1>6, <1>7 DEF e

(* Memory holds bytes.                                                     *)
LEMMA MemoryInvariant == Spec => [](mem \in [Addr -> Byte])
<1>1. Init => mem \in [Addr -> Byte]
  BY NumbersAssumption DEF Init
<1>2. Bound /\ mem \in [Addr -> Byte] /\ [Next]_vars => (mem \in [Addr -> Byte])'
  BY MemoryStep, WriteCovers, DefaultsWrite
<1> QED
  BY <1>1, <1>2, BoundInvariant, PTL DEF Spec

(* Setters change their own field and nothing else, and no call writes     *)
(* behind the buffer, for all schemas and memories.                        *)
THEOREM FieldsAreIndependent == Spec => FieldsIndependent
<1> DEFINE Inv == Bound /\ mem \in [Addr -> Byte]
           Own == last'.fn \notin {"load_defaults", "caller"} =>
                    \A a \in Addr : mem'[a] # mem[a] =>
                      /\ initialized /\ last'.err = "OK"
                      /\ {i \in Indices : Covers(schema.entries[i], a)}
                           = {last'.index + 1}
           Outside == \A a \in Addr : (initialized => a >= schema.data_size)
                                         => mem'[a] = mem[a]
<1>1. Inv /\ [Next]_vars => [Own /\ Outside]_vars
  <2> SUFFICES ASSUME Inv, [Next]_vars PROVE Own /\ Outside
    OBVIOUS
  <2>1. CASE mem' = mem
    BY <2>1
  <2>2. ASSUME NEW i \in Index, NEW s \in Seq(Byte), FieldWrite(i, s)
        PROVE  Own /\ Outside
    <3>1. /\ i + 1 \in Indices
          /\ \A a \in Addr : mem'[a] # mem[a] => Covers(schema.entries[i + 1], a)
      BY <2>2, WriteCovers
    <3>2. initialized /\ last'.index = i /\ last'.err = "OK"
      BY <2>2 DEF FieldWrite
    <3>3. Own
      BY <3>1, <3>2, OneOwner
    <3>4. ASSUME NEW a \in Addr, Covers(schema.entries[i + 1], a)
          PROVE  ~ (a >= schema.data_size)
      <4>1. schema \in Candidates /\ LayoutSound
        BY <3>2, BoundIsSound DEF Bound
      <4>2. /\ schema.entries[i + 1].offset \in Nat /\ schema.entries[i + 1].size \in Nat
            /\ schema.data_size \in Nat /\ a \in Nat
        BY <3>1, <4>1, EntryType, NumbersAssumption DEF Indices, Count, Addr
      <4> QED
        BY <3>1, <3>2, <3>4, <4>1, <4>2 DEF Covers, LayoutSound
    <3> QED
      BY <3>1, <3>2, <3>3, <3>4
  <2>3. CASE last'.fn = "load_defaults" /\ initialized /\ mem' = DefaultMemory
    BY <2>3, DefaultsWrite
  <2>4. ASSUME NEW a \in Addr, NEW b \in Byte, last'.fn = "caller", initialized,
               a < schema.data_size, mem' = [mem EXCEPT ![a] = b]
        PROVE  Own /\ Outside
    <3>1. a \in Nat /\ schema.data_size \in Nat
      BY <2>4, CallersAssumption, NumbersAssumption DEF Bound, Addr, Schema, size_t
    <3> QED
      BY <2>4, <3>1
  <2> QED
    BY <2>1, <2>2, <2>3, <2>4, MemoryStep
<1> QED
  BY <1>1, BoundInvariant, MemoryInvariant, PTL DEF Spec, FieldsIndependent

(* The addresses of a field.                                               *)
LEMMA FieldAddresses ==
  ASSUME Bound, initialized, NEW j \in Indices, NEW k \in 1 .. schema.entries[j].size
  PROVE  LET e == schema.entries[j]
             a == e.offset + k - 1
         IN  /\ a \in Addr /\ Covers(e, a) /\ a - e.offset + 1 = k
             /\ a - e.offset \in 0 .. e.size - 1
<1> DEFINE e == schema.entries[j]
<1>1. schema \in Candidates /\ LayoutSound
  BY BoundIsSound DEF Bound
<1>2. /\ e.offset \in Nat /\ e.size \in Nat /\ schema.data_size \in Nat
      /\ schema.data_size <= MemSize
  BY <1>1, EntryType DEF Indices, Count
<1>3. e.offset + e.size <= schema.data_size
  BY <1>1 DEF LayoutSound
<1> HIDE DEF e
<1>4. k \in 1 .. e.size
  BY DEF e
<1>5. /\ e.offset + k - 1 \in Addr /\ Covers(e, e.offset + k - 1)
      /\ (e.offset + k - 1) - e.offset + 1 = k
      /\ (e.offset + k - 1) - e.offset \in 0 .. e.size - 1
  BY <1>2, <1>3, <1>4, NumbersAssumption DEF Addr, Covers
<1> QED BY <1>5 DEF e

(* What the fields hold after mconf_load_defaults.                         *)
LEMMA DefaultBytes ==
  ASSUME Bound, mem \in [Addr -> Byte], initialized, mem' = DefaultMemory,
         NEW i \in Indices
  PROVE  FieldBytes(mem', schema.entries[i])
           = mconf_apply_default_to_field(schema.entries[i])
<1> DEFINE e == schema.entries[i]
<1>1. ASSUME NEW k \in 1 .. e.size
      PROVE  mem'[e.offset + k - 1] = mconf_apply_default_to_field(e)[k]
  <2>1. /\ e.offset + k - 1 \in Addr /\ Covers(e, e.offset + k - 1)
        /\ (e.offset + k - 1) - e.offset + 1 = k
    BY FieldAddresses
  <2> QED BY <2>1, DefaultsWrite
<1> QED BY <1>1 DEF FieldBytes, mconf_apply_default_to_field

(* What the fields hold after a setter: the new bytes, or what they held.  *)
LEMMA WrittenFields ==
  ASSUME Bound, mem \in [Addr -> Byte], NEW i \in Index, NEW s \in Seq(Byte),
         FieldWrite(i, s), NEW j \in Indices
  PROVE  FieldBytes(mem', schema.entries[j])
           = IF j = i + 1 THEN s ELSE FieldBytes(mem, schema.entries[j])
<1> DEFINE e == schema.entries[j]
           addr(k) == e.offset + k - 1
<1>1. initialized /\ i + 1 \in Indices /\ e.size \in Nat
  BY WriteCovers, EntryType DEF FieldWrite, Bound, Indices, Count
<1>2. \A k \in 1 .. e.size : /\ addr(k) \in Addr /\ Covers(e, addr(k))
                             /\ addr(k) - e.offset + 1 = k
                             /\ addr(k) - e.offset \in 0 .. e.size - 1
  BY <1>1, FieldAddresses
<1>3. CASE j = i + 1
  <2>1. mem' = Store(mem, e, s) /\ Len(s) = e.size
    BY <1>3 DEF FieldWrite, mconf_entry_at
  <2>2. \A k \in 1 .. e.size : mem'[addr(k)] = s[k]
    <3> HIDE DEF e, addr
    <3> QED BY <1>2, <2>1 DEF Store
  <2>3. s = [k \in 1 .. e.size |-> s[k]]
    BY <2>1, LenProperties
  <2> QED BY <1>3, <2>2, <2>3 DEF FieldBytes
<1>4. CASE j # i + 1
  <2>1. \A k \in 1 .. e.size : mem'[addr(k)] = mem[addr(k)]
    <3> SUFFICES ASSUME NEW k \in 1 .. e.size, mem'[addr(k)] # mem[addr(k)] PROVE FALSE
      OBVIOUS
    <3>1. Covers(schema.entries[i + 1], addr(k))
      BY <1>2, WriteCovers
    <3> QED BY <1>1, <1>2, <1>4, <3>1, OneOwner
  <2> QED BY <1>4, <2>1 DEF FieldBytes
<1> QED BY <1>3, <1>4

(* mconf_load_defaults restores every field's default, whatever the schema *)
(* and whatever the buffer held.                                           *)
THEOREM DefaultsAreRestored == Spec => DefaultsRestored
<1> DEFINE Inv == Bound /\ mem \in [Addr -> Byte]
           Restored == (last'.fn = "load_defaults" /\ last'.err = "OK") =>
                         \A i \in Indices :
                           FieldBytes(mem', schema.entries[i])
                             = mconf_apply_default_to_field(schema.entries[i])
<1>1. Inv /\ [Next]_vars => [Restored]_vars
  <2> SUFFICES ASSUME Inv, Next, last'.fn = "load_defaults", last'.err = "OK",
                      NEW i \in Indices
               PROVE  FieldBytes(mem', schema.entries[i])
                        = mconf_apply_default_to_field(schema.entries[i])
    OBVIOUS
  <2>1. mconf_load_defaults
    BY SetterSteps, InitStep
    DEF Next, Called, Getter, CallerWrite, mconf_find, mconf_get, mconf_get_blob,
        mconf_get_string, mconf_get_typed_scalar
  <2>2. initialized /\ mem' = DefaultMemory
    BY <2>1 DEF mconf_load_defaults, Called
  <2> QED
    BY <2>2, DefaultBytes
<1> QED
  BY <1>1, BoundInvariant, MemoryInvariant, PTL DEF Spec, DefaultsRestored

(* With legal defaults no call makes data that mconf_validate_data accepts *)
(* into data that it refuses, for all schemas, values and memories: what   *)
(* each setter checks of its value is enough for the whole buffer.         *)
THEOREM ValidityIsKept == Spec => ValidStaysValid
<1> DEFINE Inv == Bound /\ mem \in [Addr -> Byte]
           Kept == (initialized /\ DefaultsLegal /\ last'.fn # "caller"
                      /\ mconf_validate_data(mem)) => mconf_validate_data(mem')
<1>1. Inv /\ [Next]_vars => [Kept]_vars
  <2> SUFFICES ASSUME Inv, [Next]_vars, initialized, DefaultsLegal, last'.fn # "caller",
                      mconf_validate_data(mem), NEW j \in Indices
               PROVE  ValidField(schema.entries[j], FieldBytes(mem', schema.entries[j]))
    BY DEF mconf_validate_data, Indices
  <2> DEFINE e == schema.entries[j]
  <2>1. ValidField(e, FieldBytes(mem, e))
    BY DEF mconf_validate_data, Indices
  <2>2. ValidField(e, mconf_apply_default_to_field(e))
    BY DEF DefaultsLegal
  <2>3. CASE mem' = mem
    BY <2>1, <2>3
  <2>4. ASSUME NEW i \in Index, NEW s \in Seq(Byte), FieldWrite(i, s)
        PROVE  ValidField(e, FieldBytes(mem', e))
    <3>1. FieldBytes(mem', e) = IF j = i + 1 THEN s ELSE FieldBytes(mem, e)
      BY <2>4, WrittenFields
    <3>2. CASE j = i + 1
      <4>1. \/ s = mconf_apply_default_to_field(e)
            \/ /\ e.type = "BOOL" => s[1] \in {0, 1}
               /\ e.type = "STRING" => Terminated(s)
        BY <2>4, <3>2 DEF FieldWrite, Legal, mconf_entry_at
      <4>2. e.type = "FLOAT32" => FloatUsable
        BY <2>1 DEF ValidField
      <4>3. ValidField(e, s)
        BY <2>2, <4>1, <4>2 DEF ValidField
      <4> QED BY <3>1, <3>2, <4>3
    <3>3. CASE j # i + 1
      BY <2>1, <3>1, <3>3
    <3> QED BY <3>2, <3>3
  <2>5. CASE mem' = DefaultMemory
    BY <2>2, <2>5, DefaultBytes
  <2> QED
    BY <2>3, <2>4, <2>5, MemoryStep
<1> QED
  BY <1>1, BoundInvariant, MemoryInvariant, PTL DEF Spec, ValidStaysValid

(* Every call reports one of the error codes.                              *)
LEMMA ResultStep ==
  ASSUME Next
  PROVE  last'.err \in Results
<1>1. \A i : mconf_check_index(i) \in Results
  BY DEF mconf_check_index, Results
<1>2. \A e, v : StringError(e, v) \in Results
  BY DEF StringError, Results
<1>3. \A i, type : TypeError(i, type) \in Results
  BY <1>1 DEF TypeError, Results
<1>4. CASE \E sc \in Candidates, ok \in BOOLEAN :
             \E n \in {0, sc.data_size} : mconf_init(sc, ok, n)
  BY <1>4, InitStep DEF Results
<1>5. CASE mconf_load_defaults
  BY <1>5 DEF mconf_load_defaults, Called, Results
<1>6. ASSUME NEW key, mconf_find(key) PROVE last'.err \in Results
  BY <1>6 DEF mconf_find, Getter, Called, Results
<1>7. ASSUME NEW i, mconf_reset_field(i) PROVE last'.err \in Results
  BY <1>1, <1>7 DEF mconf_reset_field, Setter, Called
<1>8. ASSUME NEW i, NEW v,
             mconf_set(i, v) \/ mconf_set_string(i, v) \/ mconf_set_blob(i, v)
      PROVE  last'.err \in Results
  BY <1>1, <1>2, <1>8
  DEF mconf_set, mconf_set_string, mconf_set_blob, Setter, Called, Results
<1>9. ASSUME NEW i, NEW n,
             mconf_get(i, n) \/ mconf_get_blob(i, n) \/ mconf_get_string(i, n)
      PROVE  last'.err \in Results
  BY <1>1, <1>9
  DEF mconf_get, mconf_get_blob, mconf_get_string, Getter, Called, Results
<1>10. ASSUME NEW i, NEW type, NEW v,
              mconf_get_typed_scalar(i, type) \/ mconf_set_typed_scalar(i, type, v)
       PROVE  last'.err \in Results
  BY <1>3, <1>10
  DEF mconf_get_typed_scalar, mconf_set_typed_scalar, Getter, Setter, Called, Results
<1>11. ASSUME NEW a, NEW b, CallerWrite(a, b) PROVE last'.err \in Results
  BY <1>11 DEF CallerWrite, Called, Results
<1> QED
  BY <1>4, <1>5, <1>6, <1>7, <1>8, <1>9, <1>10, <1>11 DEF Next

(* Memory stays bytes and every call reports an error code, for all        *)
(* schemas.                                                                *)
THEOREM TypeCorrect == Spec => []TypeOK
<1> DEFINE Rest == /\ schema \in Candidates \cup {NULL} /\ initialized \in BOOLEAN
                   /\ last.err \in Results
<1>1. Init => Rest
  <2> SUFFICES ASSUME Init PROVE Rest
    OBVIOUS
  <2>1. schema \in Candidates \cup {NULL} /\ last.err \in Results
    BY DEF Init, Results
  <2>2. initialized \in BOOLEAN
    BY DEF Init
  <2> QED
    BY <2>1, <2>2
<1>2. Rest /\ [Next]_vars => Rest'
  <2> SUFFICES ASSUME Rest, [Next]_vars PROVE Rest'
    OBVIOUS
  <2>1. (last.err \in Results)'
    BY ResultStep DEF vars, Results
  <2>2. CASE UNCHANGED <<schema, initialized>>
    BY <2>1, <2>2
  <2>3. ASSUME NEW sc \in Candidates, NEW ok \in BOOLEAN, NEW n \in {0, sc.data_size},
               mconf_init(sc, ok, n)
        PROVE  Rest'
    <3>1. (schema \in Candidates \cup {NULL})'
      BY <2>3, InitStep
    <3>2. (initialized \in BOOLEAN)'
      BY <2>3 DEF mconf_init
    <3> QED
      BY <2>1, <3>1, <3>2
  <2> QED
    BY <2>2, <2>3, ContextStep
<1>3. Rest /\ mem \in [Addr -> Byte] => TypeOK
  BY DEF TypeOK
<1> QED
  BY <1>1, <1>2, <1>3, MemoryInvariant, PTL DEF Spec

-----------------------------------------------------------------------------
(* The fingerprint.                                                        *)

(* The shifts of a number take away a byte at a time.                      *)
LEMMA ShiftsStep ==
  ASSUME NEW v \in Nat
  PROVE  /\ \A i \in 0 .. SizeBytes : Shifts(v)[i] \in Nat
         /\ Shifts(v)[0] = v
         /\ \A i \in 1 .. SizeBytes : Shifts(v)[i] = Shifts(v)[i - 1] \div Base
<1> DEFINE n == SizeBytes
           F == [i \in 1 .. n |-> [x \in Nat |-> x \div Base]]
           Is(g) == g = [i \in 0 .. n |-> IF i = 0 THEN v ELSE g[i - 1] \div Base]
<1>1. n \in Nat /\ Base \in Nat /\ Base > 0
  BY FingerprintAssumption
<1>2. \A x \in Nat : x \div Base \in Nat
  BY <1>1
<1>3. F \in [1 .. n -> [Nat -> Nat]]
  BY <1>2
<1>4. PICK g : Loop(g, Nat, v, F, n)
  BY <1>1, <1>3, LoopRuns
<1>5. Is(g)
  <2>1. \A i \in 1 .. n : i - 1 \in 0 .. n
    BY <1>1
  <2>2. \A i \in 1 .. n : g[i] = g[i - 1] \div Base
    BY <1>4, <2>1 DEF Loop
  <2>3. \A i \in 0 .. n : g[i] = IF i = 0 THEN v ELSE g[i - 1] \div Base
    BY <1>1, <1>4, <2>2 DEF Loop
  <2> QED BY <1>4, <2>3 DEF Loop
<1> DEFINE c == Shifts(v)
<1>6. Is(c)
  BY <1>5 DEF Shifts
<1> HIDE DEF c, n
<1>7. c[0] = v /\ \A i \in 1 .. n : c[i] = c[i - 1] \div Base
  BY <1>1, <1>6
<1>8. \A i \in 0 .. n : c[i] \in Nat
  <2> DEFINE S == {i \in 0 .. n : c[i] \in Nat}
  <2>1. 0 \in S
    BY <1>1, <1>7
  <2>2. ASSUME NEW i \in 0 .. n - 1, i \in S PROVE i + 1 \in S
    <3>1. i + 1 \in 1 .. n /\ (i + 1) - 1 = i
      BY <1>1
    <3>2. c[i + 1] = c[i] \div Base /\ c[i] \in Nat
      BY <1>7, <2>2, <3>1
    <3> QED BY <1>1, <1>2, <3>1, <3>2
  <2> HIDE DEF S
  <2>3. \A i \in 0 .. n : i \in S
    BY <1>1, <2>1, <2>2, CountingTo
  <2> QED BY <2>3 DEF S
<1> QED BY <1>7, <1>8 DEF c, n

(* Quotient and remainder determine a number.                              *)
LEMMA SameNumber ==
  ASSUME NEW x \in Nat, NEW y \in Nat, x \div Base = y \div Base, x % Base = y % Base
  PROVE  x = y
<1> DEFINE m == Base
<1>1. m \in Nat /\ m > 0
  BY FingerprintAssumption
<1>2. x = m * (x \div m) + (x % m)
  BY <1>1
<1>3. y = m * (y \div m) + (y % m)
  BY <1>1
<1>4. x \div m = y \div m /\ x % m = y % m
  OBVIOUS
<1> QED BY <1>2, <1>3, <1>4

(* What is mixed in for a number is a sequence of HashBytes bytes.         *)
LEMMA HashType ==
  ASSUME NEW v \in Nat, NEW b
  PROVE  /\ mconf_schema_hash_size(v, b) \in Seq(Nat)
         /\ Len(mconf_schema_hash_size(v, b)) = HashBytes
<1>1. HashBytes \in Nat /\ SizeBytes \in Nat /\ SizeBytes > 0 /\ Base \in Nat /\ Base > 0
  BY FingerprintAssumption
<1>2. \A i \in 1 .. HashBytes : (i - 1) % SizeBytes \in 0 .. SizeBytes
  BY <1>1
<1>3. \A i \in 0 .. SizeBytes : ByteOf(v, i) \in Nat
  BY <1>1, ShiftsStep DEF ByteOf
<1>4. mconf_schema_hash_size(v, b) \in [1 .. HashBytes -> Nat]
  BY <1>2, <1>3 DEF mconf_schema_hash_size
<1> QED BY <1>1, <1>4

(* The bytes within the width of a size_t, which every build takes alike.  *)
LEMMA HashDigit ==
  ASSUME NEW v \in Nat, NEW b, NEW i \in 0 .. SizeBytes - 1
  PROVE  mconf_schema_hash_size(v, b)[i + 1] = Shifts(v)[i] % Base
<1>1. HashBytes \in Nat /\ SizeBytes \in 1 .. HashBytes
  BY FingerprintAssumption
<1>2. i + 1 \in 1 .. HashBytes /\ i + 1 <= SizeBytes /\ (i + 1) - 1 = i /\ i % SizeBytes = i
  BY <1>1
<1> QED BY <1>2 DEF mconf_schema_hash_size, ByteOf

(* A size_t can be told from the bytes mixed in for it.                    *)
LEMMA HashTellsSize ==
  ASSUME NEW v \in size_t, NEW w \in size_t, NEW b,
         mconf_schema_hash_size(v, b) = mconf_schema_hash_size(w, b)
  PROVE  v = w
<1> DEFINE n == SizeBytes
           S == {k \in Nat : k <= n => Shifts(v)[n - k] = Shifts(w)[n - k]}
<1>1. n \in Nat /\ v \in Nat /\ w \in Nat
  BY FingerprintAssumption, NumbersAssumption DEF size_t
<1>2. 0 \in S
  BY <1>1, FingerprintAssumption
<1>3. ASSUME NEW k \in Nat, k \in S PROVE k + 1 \in S
  <2> SUFFICES ASSUME k + 1 <= n PROVE Shifts(v)[n - (k + 1)] = Shifts(w)[n - (k + 1)]
    OBVIOUS
  <2> DEFINE i == n - (k + 1)
  <2>1. i \in 0 .. n - 1 /\ i \in 0 .. n /\ i + 1 \in 1 .. n /\ (i + 1) - 1 = i /\ n - k = i + 1
    BY <1>1
  <2> HIDE DEF i
  <2>2. Shifts(v)[i + 1] = Shifts(w)[i + 1]
    BY <1>1, <1>3, <2>1
  <2>3. Shifts(v)[i] % Base = Shifts(w)[i] % Base
    BY <1>1, <2>1, HashDigit
  <2>4. /\ Shifts(v)[i + 1] = Shifts(v)[i] \div Base /\ Shifts(v)[i] \in Nat
        /\ Shifts(w)[i + 1] = Shifts(w)[i] \div Base /\ Shifts(w)[i] \in Nat
    BY <1>1, <2>1, ShiftsStep
  <2>5. Shifts(v)[i] = Shifts(w)[i]
    BY <2>2, <2>3, <2>4, SameNumber
  <2> QED BY <2>5 DEF i
<1> HIDE DEF S
<1>4. n \in S
  BY <1>1, <1>2, <1>3, CountingUp
<1>5. Shifts(v)[n - n] = Shifts(w)[n - n] /\ n - n = 0
  BY <1>1, <1>4 DEF S
<1> QED BY <1>1, <1>5, ShiftsStep

(* So can a type, from the first byte.                                     *)
LEMMA HashTellsType ==
  ASSUME NEW t \in Types, NEW b
  PROVE  mconf_schema_hash_size(TypeCode[t], b)[1] = TypeCode[t] /\ TypeCode[t] \in Nat
<1>1. Base \in Nat /\ SizeBytes \in Nat /\ SizeBytes > 0 /\ TypeCode[t] \in 0 .. Base - 1
  BY FingerprintAssumption
<1>2. 0 \in 0 .. SizeBytes - 1 /\ 0 + 1 = 1 /\ TypeCode[t] \in Nat
  BY <1>1
<1>3. mconf_schema_hash_size(TypeCode[t], b)[1] = Shifts(TypeCode[t])[0] % Base
  BY <1>2, HashDigit
<1>4. Shifts(TypeCode[t])[0] = TypeCode[t]
  BY <1>2, ShiftsStep
<1> QED BY <1>1, <1>2, <1>3, <1>4

(* Nothing but the first byte of a type is not zero.                       *)
LEMMA TypeShiftsOut ==
  ASSUME NEW t \in Types, NEW i \in 1 .. SizeBytes
  PROVE  Shifts(TypeCode[t])[i] = 0
<1> DEFINE v == TypeCode[t]
           S == {k \in Nat : k + 1 <= SizeBytes => Shifts(v)[k + 1] = 0}
<1>1. Base \in Nat /\ Base > 0 /\ SizeBytes \in Nat /\ v \in 0 .. Base - 1 /\ v \in Nat
  BY FingerprintAssumption
<1> HIDE DEF v
<1>2. \A x \in 0 .. Base - 1 : x \div Base = 0
  BY <1>1
<1>3. 0 \in S
  <2> SUFFICES ASSUME 1 <= SizeBytes PROVE Shifts(v)[1] = 0
    OBVIOUS
  <2>1. 1 \in 1 .. SizeBytes /\ 1 - 1 = 0
    BY <1>1
  <2>2. Shifts(v)[1] = v \div Base
    BY <1>1, <2>1, ShiftsStep
  <2> QED BY <1>1, <1>2, <2>2
<1>4. ASSUME NEW k \in Nat, k \in S PROVE k + 1 \in S
  <2> SUFFICES ASSUME k + 2 <= SizeBytes PROVE Shifts(v)[k + 2] = 0
    OBVIOUS
  <2>1. k + 2 \in 1 .. SizeBytes /\ (k + 2) - 1 = k + 1 /\ k + 1 <= SizeBytes
    BY <1>1
  <2>2. Shifts(v)[k + 2] = Shifts(v)[k + 1] \div Base
    BY <1>1, <2>1, ShiftsStep
  <2>3. Shifts(v)[k + 1] = 0 /\ 0 \in 0 .. Base - 1
    BY <1>1, <1>4, <2>1
  <2> QED BY <1>2, <2>2, <2>3
<1> HIDE DEF S
<1>5. i - 1 \in Nat /\ (i - 1) + 1 = i /\ i <= SizeBytes
  BY <1>1
<1>6. i - 1 \in S
  BY <1>3, <1>4, <1>5, CountingUp
<1> QED BY <1>5, <1>6 DEF S, v

(* Every type has a code other than zero.                                  *)
TypesCoded == \A t \in Types : TypeCode[t] # 0

(* The build mixes a byte that is always zero into every offset: one of    *)
(* those beyond the width of a size_t, or the highest one of an offset     *)
(* that never reaches it.                                                  *)
OffsetsShort ==
  \A b \in Builds :
    \/ b = "zero" /\ SizeBytes < HashBytes
    \/ /\ SizeBytes >= 2
       /\ \A sc \in Candidates : \A i \in 1 .. Len(sc.entries) :
            Shifts(sc.entries[i].offset)[SizeBytes - 1] = 0

(* Byte z + 1 of every offset is zero, and so are the bytes of every type  *)
(* up to there, but for the first.                                         *)
Gap(b, z) ==
  /\ z \in 1 .. HashBytes - 1
  /\ \A sc \in Candidates : \A i \in 1 .. Len(sc.entries) :
       mconf_schema_hash_size(sc.entries[i].offset, b)[z + 1] = 0
  /\ \A t \in Types : \A m \in 1 .. z : mconf_schema_hash_size(TypeCode[t], b)[m + 1] = 0

(* There is such a byte in every build.                                    *)
LEMMA GapExists ==
  ASSUME OffsetsShort, NEW b \in Builds
  PROVE  \E z : Gap(b, z)
<1> DEFINE n == SizeBytes
<1>1. HashBytes \in Nat /\ n \in 1 .. HashBytes /\ Base \in Nat /\ Base > 0
  BY FingerprintAssumption
<1> HIDE DEF n
<1>z. 0 % Base = 0
  BY <1>1
<1>t. ASSUME NEW t \in Types, NEW m \in 1 .. n - 1
      PROVE  mconf_schema_hash_size(TypeCode[t], b)[m + 1] = 0
  <2>1. m \in 0 .. n - 1 /\ m \in 1 .. n /\ TypeCode[t] \in Nat
    BY <1>1, HashTellsType
  <2>2. Shifts(TypeCode[t])[m] = 0
    BY <2>1, TypeShiftsOut DEF n
  <2> QED BY <1>z, <2>1, <2>2, HashDigit DEF n
<1>2. CASE b = "zero" /\ n < HashBytes
  <2>1. n \in 1 .. HashBytes - 1 /\ n + 1 \in 1 .. HashBytes /\ ~ (n + 1 <= n) /\ b # "cut"
    BY <1>1, <1>2
  <2>2. \A v : mconf_schema_hash_size(v, b)[n + 1] = 0
    BY <2>1 DEF mconf_schema_hash_size, n
  <2>3. \A m \in 1 .. n : m \in 1 .. n - 1 \/ m = n
    BY <1>1
  <2>4. Gap(b, n)
    BY <1>t, <2>1, <2>2, <2>3 DEF Gap
  <2> QED BY <2>4
<1>3. CASE /\ n >= 2
           /\ \A sc \in Candidates : \A i \in 1 .. Len(sc.entries) :
                Shifts(sc.entries[i].offset)[n - 1] = 0
  <2>1. n - 1 \in 1 .. HashBytes - 1 /\ n - 1 \in 0 .. n - 1
    BY <1>1, <1>3
  <2>2. ASSUME NEW sc \in Candidates, NEW i \in 1 .. Len(sc.entries)
        PROVE  mconf_schema_hash_size(sc.entries[i].offset, b)[(n - 1) + 1] = 0
    <3>1. sc.entries[i].offset \in Nat /\ Shifts(sc.entries[i].offset)[n - 1] = 0
      BY <1>3, EntryType
    <3> QED BY <1>z, <2>1, <3>1, HashDigit DEF n
  <2>3. Gap(b, n - 1)
    BY <1>t, <2>1, <2>2 DEF Gap
  <2> QED BY <2>3
<1> QED BY <1>2, <1>3 DEF OffsetsShort, n

(* The bytes of a key are not zero, or there is a single one.              *)
LEMMA KeyBytesType ==
  ASSUME NEW key \in Keys \cup {NULL}
  PROVE  /\ KeyBytes(key) \in Seq(Nat) /\ Len(KeyBytes(key)) \in Nat
         /\ \/ Len(KeyBytes(key)) = 1
            \/ \A j \in 1 .. Len(KeyBytes(key)) : KeyBytes(key)[j] # 0
<1>1. CASE key = NULL
  <2>1. KeyBytes(key) = <<0>>
    BY <1>1 DEF KeyBytes
  <2> QED BY <2>1
<1>2. CASE key # NULL
  <2>1. KeyBytes(key) = KeyText[key] /\ KeyText[key] \in Seq(1 .. Base - 1) /\ Base \in Nat
    BY <1>2, FingerprintAssumption DEF KeyBytes
  <2>2. \A j \in 1 .. Len(KeyText[key]) : KeyText[key][j] \in 1 .. Base - 1
    BY <2>1, ElementOfSeq
  <2>3. Len(KeyText[key]) \in Nat
    BY <2>1, LenProperties
  <2>4. KeyText[key] \in Seq(Nat)
    BY <2>1, <2>2
  <2> QED BY <2>1, <2>2, <2>3, <2>4
<1> QED BY <1>1, <1>2

(* A key can be told from its bytes.                                       *)
LEMMA KeyTold ==
  ASSUME NEW key \in Keys \cup {NULL}, NEW other \in Keys \cup {NULL},
         KeyBytes(key) = KeyBytes(other)
  PROVE  key = other
<1>1. ASSUME NEW k \in Keys PROVE KeyText[k] # <<0>> /\ KeyBytes(k) = KeyText[k]
  <2>1. KeyText[k] \in Seq(1 .. Base - 1) /\ k # NULL
    BY FingerprintAssumption, CallersAssumption
  <2>2. <<0>>[1] = 0 /\ Len(<<0>>) = 1
    OBVIOUS
  <2>3. \A j \in 1 .. Len(KeyText[k]) : KeyText[k][j] \in 1 .. Base - 1
    BY <2>1, ElementOfSeq
  <2> QED BY <2>1, <2>2, <2>3 DEF KeyBytes
<1>2. KeyBytes(NULL) = <<0>>
  BY DEF KeyBytes
<1> QED BY <1>1, <1>2, FingerprintAssumption

(* s begins with the numbers of entry e and its key behind them.           *)
LaidOut(e, b, s) ==
  LET H == HashBytes
      k == KeyBytes(e.key)
  IN  /\ \A j \in 1 .. H : s[j] = mconf_schema_hash_size(e.offset, b)[j]
      /\ \A j \in 1 .. H : s[H + j] = mconf_schema_hash_size(e.size, b)[j]
      /\ \A j \in 1 .. H : s[2 * H + j] = mconf_schema_hash_size(TypeCode[e.type], b)[j]
      /\ \A j \in 1 .. Len(k) : s[3 * H + j] = k[j]

(* So does what is mixed in for it.                                        *)
LEMMA EntryLaidOut ==
  ASSUME NEW e \in Entry, NEW b
  PROVE  /\ EntryBytes(e, b) \in Seq(Nat)
         /\ Len(EntryBytes(e, b)) = 3 * HashBytes + Len(KeyBytes(e.key))
         /\ LaidOut(e, b, EntryBytes(e, b))
<1> DEFINE H == HashBytes
           o == mconf_schema_hash_size(e.offset, b)
           z == mconf_schema_hash_size(e.size, b)
           t == mconf_schema_hash_size(TypeCode[e.type], b)
           k == KeyBytes(e.key)
<1>1. /\ e.offset \in Nat /\ e.size \in Nat /\ e.type \in Types /\ e.key \in Keys \cup {NULL}
      /\ H \in Nat
  BY FingerprintAssumption, NumbersAssumption DEF Entry, size_t
<1>2. TypeCode[e.type] \in Nat
  BY <1>1, HashTellsType
<1>3. /\ o \in Seq(Nat) /\ Len(o) = H /\ z \in Seq(Nat) /\ Len(z) = H
      /\ t \in Seq(Nat) /\ Len(t) = H /\ k \in Seq(Nat) /\ Len(k) \in Nat
  BY <1>1, <1>2, HashType, KeyBytesType
<1>4. EntryBytes(e, b) = ((o \o z) \o t) \o k
  BY DEF EntryBytes
<1> HIDE DEF o, z, t, k, H
<1> DEFINE oz  == o \o z
           ozt == oz \o t
           s   == ozt \o k
<1>5. oz \in Seq(Nat) /\ Appended(o, z, oz)
  BY <1>3, Concatenated, ConcatProperties
<1> HIDE DEF oz
<1>6. ozt \in Seq(Nat) /\ Appended(oz, t, ozt)
  BY <1>3, <1>5, Concatenated, ConcatProperties
<1> HIDE DEF ozt
<1>7. s \in Seq(Nat) /\ Appended(ozt, k, s)
  BY <1>3, <1>6, Concatenated, ConcatProperties
<1>8. EntryBytes(e, b) = s
  BY <1>4 DEF oz, ozt
<1> HIDE DEF s
<1>a. /\ Len(oz) = H + H /\ Len(ozt) = (H + H) + H /\ Len(s) = ((H + H) + H) + Len(k)
      /\ 2 * H = H + H /\ 3 * H = (H + H) + H
  BY <1>1, <1>3, <1>5, <1>6, <1>7 DEF Appended
<1>9. ASSUME NEW j \in 1 .. H
      PROVE  s[j] = o[j] /\ s[H + j] = z[j] /\ s[2 * H + j] = t[j]
  <2>1. /\ j \in 1 .. H + H /\ H + j \in 1 .. H + H
        /\ j \in 1 .. (H + H) + H /\ H + j \in 1 .. (H + H) + H
        /\ (H + H) + j \in 1 .. (H + H) + H
    BY <1>1
  <2>2. oz[j] = o[j] /\ oz[H + j] = z[j]
    BY <1>3, <1>5 DEF Appended
  <2>3. ozt[j] = oz[j] /\ ozt[H + j] = oz[H + j] /\ ozt[(H + H) + j] = t[j]
    BY <1>3, <1>6, <1>a, <2>1 DEF Appended
  <2>4. s[j] = ozt[j] /\ s[H + j] = ozt[H + j] /\ s[(H + H) + j] = ozt[(H + H) + j]
    BY <1>7, <1>a, <2>1 DEF Appended
  <2> QED BY <1>a, <2>2, <2>3, <2>4
<1>10. \A j \in 1 .. Len(k) : s[3 * H + j] = k[j]
  BY <1>7, <1>a DEF Appended
<1> QED BY <1>7, <1>8, <1>9, <1>10, <1>a DEF LaidOut, H, o, z, t, k

(* What is mixed in for each of the entries.                               *)
MixedEntries(sc, b) == [i \in DOMAIN sc.entries |-> EntryBytes(sc.entries[i], b)]

(* An accepted schema has entries, and not more than a size_t counts.      *)
LEMMA MixedType ==
  ASSUME NEW sc \in Candidates, mconf_schema_validate(sc), NEW b
  PROVE  /\ MixedEntries(sc, b) \in Seq(Seq(Nat))
         /\ Len(MixedEntries(sc, b)) = Len(sc.entries)
         /\ DOMAIN sc.entries = 1 .. Len(sc.entries)
         /\ Len(sc.entries) \in Nat \ {0} /\ Len(sc.entries) \in size_t
         /\ \A i \in 1 .. Len(sc.entries) :
              MixedEntries(sc, b)[i] = EntryBytes(sc.entries[i], b) /\ sc.entries[i] \in Entry
<1> DEFINE n == Len(sc.entries)
<1>1. sc.entries \in Seq(Entry)
  BY CallersAssumption DEF Schema
<1>2. n \in Nat /\ DOMAIN sc.entries = 1 .. n
  BY <1>1, LenProperties
<1>3. n # 0 /\ n <= MCONF_MAX_ENTRIES
  BY DEF mconf_schema_validate
<1>4. n \in size_t
  BY <1>2, <1>3, NumbersAssumption, FingerprintAssumption DEF size_t
<1>5. \A i \in 1 .. n : sc.entries[i] \in Entry
  BY <1>1, ElementOfSeq
<1>6. \A i \in 1 .. n : EntryBytes(sc.entries[i], b) \in Seq(Nat)
  BY <1>5, EntryLaidOut
<1>7. MixedEntries(sc, b) \in [1 .. n -> Seq(Nat)]
  BY <1>2, <1>6 DEF MixedEntries
<1>8. MixedEntries(sc, b) \in Seq(Seq(Nat)) /\ Len(MixedEntries(sc, b)) = n
  BY <1>2, <1>7
<1> QED BY <1>2, <1>3, <1>4, <1>5, <1>8 DEF MixedEntries

(* A number mixed in behind s adds HashBytes bytes.                        *)
LEMMA NumberAppended ==
  ASSUME NEW s \in Seq(Nat), NEW h \in Seq(Nat), Len(h) = HashBytes
  PROVE  s \o h \in Seq(Nat) /\ Len(s \o h) = Len(s) + HashBytes
BY ConcatProperties

(* Number of entries, size and version can be told from what is mixed in,  *)
(* and the entries follow at the same place.                               *)
LEMMA HeadTold ==
  ASSUME NEW sc \in Candidates, mconf_schema_validate(sc), NEW v \in size_t,
         NEW ot \in Candidates, mconf_schema_validate(ot), NEW w \in size_t, NEW b,
         Mixed(sc, v, b) = Mixed(ot, w, b)
  PROVE  /\ v = w /\ Len(sc.entries) = Len(ot.entries)
         /\ FlattenSeq(MixedEntries(sc, b)) = FlattenSeq(MixedEntries(ot, b))
<1> DEFINE h(x) == mconf_schema_hash_size(x, b)
           F == FlattenSeq(MixedEntries(sc, b))
           G == FlattenSeq(MixedEntries(ot, b))
           n == Len(sc.entries)
           m == Len(ot.entries)
<1>1. /\ n \in size_t /\ m \in size_t /\ sc.data_size \in size_t /\ ot.data_size \in size_t
      /\ size_t \subseteq Nat
  BY MixedType, CallersAssumption, NumbersAssumption DEF Schema, size_t
<1>2. F \in Seq(Nat)
  <2>1. MixedEntries(sc, b) \in Seq(Seq(Nat)) /\ Len(MixedEntries(sc, b)) \in Nat \ {0}
    BY MixedType
  <2> QED BY <2>1, FlattenedEntry
<1>3. G \in Seq(Nat)
  <2>1. MixedEntries(ot, b) \in Seq(Seq(Nat)) /\ Len(MixedEntries(ot, b)) \in Nat \ {0}
    BY MixedType
  <2> QED BY <2>1, FlattenedEntry
<1>4. ((h(n) \o h(sc.data_size)) \o h(v)) \o F = ((h(m) \o h(ot.data_size)) \o h(w)) \o G
  BY DEF Mixed, MixedEntries
<1>5. \A x \in size_t : h(x) \in Seq(Nat) /\ Len(h(x)) = HashBytes
  BY <1>1, HashType
<1> HIDE DEF h, F, G, n, m
<1> DEFINE a == h(n)
           c == h(m)
           p == h(sc.data_size)
           q == h(ot.data_size)
           x == h(v)
           y == h(w)
<1>6. /\ a \in Seq(Nat) /\ c \in Seq(Nat) /\ p \in Seq(Nat) /\ q \in Seq(Nat)
      /\ x \in Seq(Nat) /\ y \in Seq(Nat) /\ HashBytes \in Nat
      /\ Len(a) = HashBytes /\ Len(c) = HashBytes /\ Len(p) = HashBytes
      /\ Len(q) = HashBytes /\ Len(x) = HashBytes /\ Len(y) = HashBytes
  BY <1>1, <1>5, FingerprintAssumption
<1>e. ((a \o p) \o x) \o F = ((c \o q) \o y) \o G
  BY <1>4
<1> HIDE DEF a, c, p, q, x, y
<1> DEFINE ap == a \o p
           cq == c \o q
<1>7. ap \in Seq(Nat) /\ cq \in Seq(Nat) /\ Len(ap) = Len(cq)
  BY <1>6, NumberAppended
<1>f. (ap \o x) \o F = (cq \o y) \o G
  BY <1>e
<1> HIDE DEF ap, cq
<1>8. ap \o x \in Seq(Nat) /\ cq \o y \in Seq(Nat) /\ Len(ap \o x) = Len(cq \o y)
  <2>1. ap \o x \in Seq(Nat) /\ Len(ap \o x) = Len(ap) + HashBytes
    BY <1>6, <1>7, NumberAppended
  <2>2. cq \o y \in Seq(Nat) /\ Len(cq \o y) = Len(cq) + HashBytes
    BY <1>6, <1>7, NumberAppended
  <2> QED BY <1>7, <2>1, <2>2
<1>9. ap \o x = cq \o y /\ F = G
  BY <1>2, <1>3, <1>f, <1>8, Cancelled
<1>10. ap = cq /\ x = y
  BY <1>6, <1>7, <1>9, Cancelled
<1>11. a = c
  BY <1>6, <1>10, Cancelled DEF ap, cq
<1>12. v = w /\ n = m
  BY <1>1, <1>10, <1>11, HashTellsSize DEF h, a, c, x, y
<1> QED BY <1>9, <1>12 DEF F, G, n, m

(* Two schemas that get the same bytes behind the head, and a byte that    *)
(* keeps them in step.                                                     *)
Alike(sc, ot, b, z) ==
  /\ sc \in Candidates /\ mconf_schema_validate(sc)
  /\ ot \in Candidates /\ mconf_schema_validate(ot)
  /\ Len(sc.entries) = Len(ot.entries)
  /\ FlattenSeq(MixedEntries(sc, b)) = FlattenSeq(MixedEntries(ot, b))
  /\ Gap(b, z)

(* Entry i of sc begins behind byte x of F and is laid out there.          *)
Placed(sc, b, i, x, F) ==
  LET H == HashBytes
      e == sc.entries[i]
      k == KeyBytes(e.key)
  IN  /\ x \in Nat /\ H \in Nat /\ Len(k) \in Nat /\ e \in Entry
      /\ End(MixedEntries(sc, b), i) = x + (3 * H + Len(k))
      /\ \A j \in 1 .. H : F[x + j] = mconf_schema_hash_size(e.offset, b)[j]
      /\ \A j \in 1 .. H : F[x + (2 * H + j)] = mconf_schema_hash_size(TypeCode[e.type], b)[j]
      /\ \A j \in 1 .. Len(k) : F[x + (3 * H + j)] = k[j]
      /\ \A j \in 1 .. 3 * H + Len(k) : F[x + j] = EntryBytes(e, b)[j]

(* Every entry begins where the one before it ends.                        *)
LEMMA MixedEntry ==
  ASSUME NEW sc \in Candidates, mconf_schema_validate(sc), NEW b,
         NEW i \in 1 .. Len(sc.entries)
  PROVE  /\ Placed(sc, b, i, End(MixedEntries(sc, b), i - 1),
                   FlattenSeq(MixedEntries(sc, b)))
         /\ Len(FlattenSeq(MixedEntries(sc, b))) = End(MixedEntries(sc, b), Len(sc.entries))
<1> DEFINE s == MixedEntries(sc, b)
           x == End(s, i - 1)
           H == HashBytes
           F == FlattenSeq(s)
           e == sc.entries[i]
           k == KeyBytes(e.key)
           t == EntryBytes(e, b)
<1>1. /\ s \in Seq(Seq(Nat)) /\ Len(s) = Len(sc.entries) /\ Len(sc.entries) \in Nat \ {0}
      /\ s[i] = t /\ e \in Entry
  BY MixedType
<1> HIDE DEF s
<1>2. /\ x \in Nat /\ End(s, i) = x + Len(t) /\ Len(F) = End(s, Len(s))
      /\ \A j \in 1 .. Len(t) : F[x + j] = t[j]
  <2>1. /\ Len(FlattenSeq(s)) = End(s, Len(s))
        /\ \A q \in 1 .. Len(s) :
             /\ End(s, q - 1) \in Nat /\ End(s, q) \in Nat /\ End(s, q) <= End(s, Len(s))
             /\ End(s, q) = End(s, q - 1) + Len(s[q])
             /\ \A j \in 1 .. Len(s[q]) : FlattenSeq(s)[End(s, q - 1) + j] = s[q][j]
    BY <1>1, FlattenedEntry
  <2> QED BY <1>1, <2>1
<1>3. H \in Nat /\ e.key \in Keys \cup {NULL}
  BY <1>1, FingerprintAssumption DEF Entry
<1>a. Len(k) \in Nat
  BY <1>3, KeyBytesType
<1>4. Len(t) = 3 * H + Len(k) /\ LaidOut(e, b, t)
  BY <1>1, EntryLaidOut
<1>b. /\ \A j \in 1 .. H : t[j] = mconf_schema_hash_size(e.offset, b)[j]
      /\ \A j \in 1 .. H : t[2 * H + j] = mconf_schema_hash_size(TypeCode[e.type], b)[j]
      /\ \A j \in 1 .. Len(k) : t[3 * H + j] = k[j]
  BY <1>4 DEF LaidOut
<1> HIDE DEF x, H, F, e, k, t
<1>5. \A j \in 1 .. H : j \in 1 .. Len(t) /\ 2 * H + j \in 1 .. Len(t)
  BY <1>3, <1>4, <1>a
<1>6. \A j \in 1 .. Len(k) : 3 * H + j \in 1 .. Len(t)
  BY <1>3, <1>4, <1>a
<1>7. /\ \A j \in 1 .. H : F[x + j] = t[j] /\ F[x + (2 * H + j)] = t[2 * H + j]
      /\ \A j \in 1 .. Len(k) : F[x + (3 * H + j)] = t[3 * H + j]
  BY <1>2, <1>5, <1>6
<1>8. Placed(sc, b, i, x, F)
  BY <1>1, <1>2, <1>3, <1>4, <1>7, <1>a, <1>b DEF Placed, H, e, k, t, s
<1> QED BY <1>1, <1>2, <1>8 DEF x, F, s

(* Entries that begin together have keys of the same length: with a longer *)
(* key in one, the first byte of the type of its next entry would be a     *)
(* later one, which is zero, of the type of the other's.                   *)
LEMMA NotLonger ==
  ASSUME TypesCoded, NEW sc, NEW ot, NEW b, NEW z, Alike(sc, ot, b, z),
         NEW i \in 1 .. Len(sc.entries),
         End(MixedEntries(sc, b), i - 1) = End(MixedEntries(ot, b), i - 1)
  PROVE  ~ (Len(KeyBytes(sc.entries[i].key)) < Len(KeyBytes(ot.entries[i].key)))
<1> DEFINE H == HashBytes
           F == FlattenSeq(MixedEntries(sc, b))
           n == Len(sc.entries)
           x == End(MixedEntries(sc, b), i - 1)
           k == KeyBytes(sc.entries[i].key)
           l == KeyBytes(ot.entries[i].key)
           m == Len(l) - Len(k)
           y == End(MixedEntries(sc, b), i)
<1> SUFFICES ASSUME Len(k) < Len(l) PROVE FALSE
  OBVIOUS
<1>0. /\ sc \in Candidates /\ mconf_schema_validate(sc)
      /\ ot \in Candidates /\ mconf_schema_validate(ot)
      /\ n = Len(ot.entries) /\ F = FlattenSeq(MixedEntries(ot, b)) /\ Gap(b, z)
      /\ x = End(MixedEntries(ot, b), i - 1) /\ i \in 1 .. n
      /\ n \in Nat \ {0}
  BY MixedType DEF Alike
<1>1. /\ x \in Nat /\ H \in Nat /\ Len(k) \in Nat
      /\ y = x + (3 * H + Len(k))
      /\ Len(F) = End(MixedEntries(sc, b), n)
  BY <1>0, MixedEntry DEF Placed
<1>2. /\ Len(l) \in Nat /\ ot.entries[i] \in Entry
      /\ End(MixedEntries(ot, b), i) = x + (3 * H + Len(l))
      /\ Len(F) = End(MixedEntries(ot, b), n)
      /\ \A j \in 1 .. Len(l) : F[x + (3 * H + j)] = l[j]
  BY <1>0, MixedEntry DEF Placed
<1> HIDE DEF F, H, x, k, l, n, y
<1>3. m \in Nat /\ m >= 1 /\ Len(l) = Len(k) + m
  BY <1>1, <1>2
<1>4. i # n
  <2> SUFFICES ASSUME i = n PROVE FALSE
    OBVIOUS
  <2>1. End(MixedEntries(sc, b), i) = End(MixedEntries(ot, b), i)
    BY <1>1, <1>2
  <2> QED BY <1>1, <1>2, <2>1 DEF y
<1>5. i + 1 \in 1 .. n /\ (i + 1) - 1 = i
  BY <1>0, <1>4
<1>6. End(MixedEntries(ot, b), i) = y + m
  BY <1>1, <1>2, <1>3
<1>7. /\ y \in Nat /\ sc.entries[i + 1] \in Entry
      /\ \A j \in 1 .. H : F[y + j] = mconf_schema_hash_size(sc.entries[i + 1].offset, b)[j]
      /\ \A j \in 1 .. H :
           F[y + (2 * H + j)] = mconf_schema_hash_size(TypeCode[sc.entries[i + 1].type], b)[j]
  <2>1. Placed(sc, b, i + 1, End(MixedEntries(sc, b), (i + 1) - 1),
               FlattenSeq(MixedEntries(sc, b)))
    BY <1>0, <1>5, MixedEntry DEF n
  <2>2. Placed(sc, b, i + 1, y, F)
    BY <1>5, <2>1 DEF F, y
  <2> QED BY <2>2 DEF Placed, H
<1>8. /\ ot.entries[i + 1] \in Entry
      /\ \A j \in 1 .. H :
           F[(y + m) + (2 * H + j)]
             = mconf_schema_hash_size(TypeCode[ot.entries[i + 1].type], b)[j]
  <2>1. i + 1 \in 1 .. Len(ot.entries)
    BY <1>0, <1>5
  <2>2. Placed(ot, b, i + 1, End(MixedEntries(ot, b), (i + 1) - 1),
               FlattenSeq(MixedEntries(ot, b)))
    BY <1>0, <2>1, MixedEntry
  <2>3. Placed(ot, b, i + 1, y + m, F)
    BY <1>0, <1>5, <1>6, <2>2
  <2> QED BY <2>3 DEF Placed, H
<1>9. /\ z \in 1 .. H - 1
      /\ mconf_schema_hash_size(sc.entries[i + 1].offset, b)[z + 1] = 0
      /\ \A j \in 1 .. z : mconf_schema_hash_size(TypeCode[sc.entries[i + 1].type], b)[j + 1] = 0
  <2>1. sc.entries[i + 1].type \in Types
    BY <1>7 DEF Entry
  <2> QED BY <1>0, <1>5, <2>1 DEF Gap, H, n
<1> HIDE DEF m
<1>10. m <= z
  <2> SUFFICES ASSUME m > z PROVE FALSE
    BY <1>3, <1>9
  <2>1. /\ z + 1 \in 1 .. H /\ Len(k) + (z + 1) \in 1 .. Len(l) /\ Len(l) # 1
        /\ x + (3 * H + (Len(k) + (z + 1))) = y + (z + 1)
    BY <1>1, <1>2, <1>3, <1>9
  <2>2. F[y + (z + 1)] = 0
    BY <1>7, <1>9, <2>1
  <2>3. F[y + (z + 1)] = l[Len(k) + (z + 1)]
    BY <1>2, <2>1
  <2>4. ot.entries[i].key \in Keys \cup {NULL}
    BY <1>2 DEF Entry
  <2>5. l[Len(k) + (z + 1)] # 0
    BY <2>1, <2>4, KeyBytesType DEF l
  <2> QED BY <2>2, <2>3, <2>5
<1>11. /\ 1 \in 1 .. H /\ m + 1 \in 1 .. H /\ m \in 1 .. z
       /\ (y + m) + (2 * H + 1) = y + (2 * H + (m + 1))
  BY <1>1, <1>3, <1>7, <1>9, <1>10
<1>12. F[y + (2 * H + (m + 1))] = 0
  BY <1>7, <1>9, <1>11
<1>13. F[(y + m) + (2 * H + 1)] = mconf_schema_hash_size(TypeCode[ot.entries[i + 1].type], b)[1]
  BY <1>8, <1>11
<1>14. mconf_schema_hash_size(TypeCode[ot.entries[i + 1].type], b)[1] # 0
  <2>1. ot.entries[i + 1].type \in Types
    BY <1>8 DEF Entry
  <2> QED BY <2>1, HashTellsType DEF TypesCoded
<1> QED BY <1>11, <1>12, <1>13, <1>14

(* So the entries of both end at the same places.                          *)
LEMMA EntriesInStep ==
  ASSUME TypesCoded, NEW sc, NEW ot, NEW b, NEW z, Alike(sc, ot, b, z)
  PROVE  \A i \in 0 .. Len(sc.entries) :
           End(MixedEntries(sc, b), i) = End(MixedEntries(ot, b), i)
<1> DEFINE n == Len(sc.entries)
           S == {i \in 0 .. n : End(MixedEntries(sc, b), i) = End(MixedEntries(ot, b), i)}
<1>1. /\ sc \in Candidates /\ mconf_schema_validate(sc)
      /\ ot \in Candidates /\ mconf_schema_validate(ot)
      /\ n = Len(ot.entries) /\ n \in Nat /\ Alike(ot, sc, b, z)
  BY MixedType DEF Alike
<1> HIDE DEF n
<1>2. 0 \in S
  BY <1>1 DEF End
<1>3. ASSUME NEW i \in 0 .. n - 1, i \in S PROVE i + 1 \in S
  <2>1. i + 1 \in 1 .. n /\ i + 1 \in 0 .. n /\ (i + 1) - 1 = i
    BY <1>1
  <2> DEFINE j == i + 1
             x == End(MixedEntries(sc, b), i)
             k == KeyBytes(sc.entries[j].key)
             l == KeyBytes(ot.entries[j].key)
  <2>2. End(MixedEntries(sc, b), j - 1) = End(MixedEntries(ot, b), j - 1)
    BY <1>3, <2>1
  <2>3. ~ (Len(k) < Len(l))
    BY <1>1, <2>1, <2>2, NotLonger DEF n
  <2>4. ~ (Len(l) < Len(k))
    BY <1>1, <2>1, <2>2, NotLonger DEF n
  <2>5. /\ Placed(sc, b, j, x, FlattenSeq(MixedEntries(sc, b)))
        /\ Placed(ot, b, j, x, FlattenSeq(MixedEntries(ot, b)))
    BY <1>1, <2>1, <2>2, MixedEntry DEF n
  <2>6. /\ Len(k) \in Nat /\ Len(l) \in Nat
        /\ End(MixedEntries(sc, b), j) = x + (3 * HashBytes + Len(k))
        /\ End(MixedEntries(ot, b), j) = x + (3 * HashBytes + Len(l))
    BY <2>5 DEF Placed
  <2> HIDE DEF x, k, l
  <2>7. Len(k) = Len(l)
    BY <2>3, <2>4, <2>6
  <2> QED BY <2>1, <2>6, <2>7
<1> HIDE DEF S
<1>4. \A i \in 0 .. n : i \in S
  BY <1>1, <1>2, <1>3, CountingTo
<1> QED BY <1>4 DEF S, n

(* Entries with the same bytes are laid out alike.                         *)
LEMMA EntryTold ==
  ASSUME NEW e \in Entry, NEW f \in Entry, NEW b,
         EntryBytes(e, b) = EntryBytes(f, b),
         Len(KeyBytes(e.key)) = Len(KeyBytes(f.key))
  PROVE  e.key = f.key /\ e.offset = f.offset /\ e.size = f.size /\ e.type = f.type
<1> DEFINE H == HashBytes
           s == EntryBytes(e, b)
           h(v) == mconf_schema_hash_size(v, b)
<1>1. /\ e.offset \in size_t /\ f.offset \in size_t /\ e.size \in size_t /\ f.size \in size_t
      /\ e.type \in Types /\ f.type \in Types
      /\ e.key \in Keys \cup {NULL} /\ f.key \in Keys \cup {NULL}
      /\ H \in Nat /\ H >= 1 /\ size_t \subseteq Nat
  BY FingerprintAssumption, NumbersAssumption DEF Entry, size_t
<1>2. LaidOut(e, b, s) /\ LaidOut(f, b, s)
  BY EntryLaidOut
<1> HIDE DEF s
<1>3. /\ \A j \in 1 .. H : h(e.offset)[j] = h(f.offset)[j] /\ h(e.size)[j] = h(f.size)[j]
      /\ \A j \in 1 .. H : h(TypeCode[e.type])[j] = h(TypeCode[f.type])[j]
      /\ \A j \in 1 .. Len(KeyBytes(e.key)) : KeyBytes(e.key)[j] = KeyBytes(f.key)[j]
  BY <1>2 DEF LaidOut
<1>4. ASSUME NEW v \in size_t, NEW w \in size_t, \A j \in 1 .. H : h(v)[j] = h(w)[j]
      PROVE  v = w
  <2>1. /\ h(v) \in Seq(Nat) /\ h(w) \in Seq(Nat) /\ Len(h(v)) = H /\ Len(h(w)) = H
    BY <1>1, HashType
  <2>2. h(v) = h(w)
    BY <1>4, <2>1, SeqEqual
  <2> QED BY <2>2, HashTellsSize
<1>5. e.offset = f.offset /\ e.size = f.size
  BY <1>1, <1>3, <1>4
<1>6. e.type = f.type
  <2>1. h(TypeCode[e.type])[1] = h(TypeCode[f.type])[1]
    BY <1>1, <1>3
  <2>2. TypeCode[e.type] = TypeCode[f.type]
    BY <1>1, <2>1, HashTellsType
  <2> QED BY <1>1, <2>2, FingerprintAssumption
<1>7. e.key = f.key
  <2>1. KeyBytes(e.key) \in Seq(Nat) /\ KeyBytes(f.key) \in Seq(Nat)
    BY <1>1, KeyBytesType
  <2>2. KeyBytes(e.key) = KeyBytes(f.key)
    BY <1>3, <2>1, SeqEqual
  <2> QED BY <1>1, <2>2, KeyTold
<1> QED BY <1>5, <1>6, <1>7

(* Schemas with the same bytes are laid out alike.                         *)
LEMMA SchemaTold ==
  ASSUME TypesCoded, NEW sc, NEW ot, NEW b, NEW z, Alike(sc, ot, b, z)
  PROVE  Layout(sc) = Layout(ot)
<1> DEFINE n == Len(sc.entries)
<1>1. /\ sc \in Candidates /\ mconf_schema_validate(sc)
      /\ ot \in Candidates /\ mconf_schema_validate(ot)
      /\ n = Len(ot.entries) /\ n \in Nat
      /\ DOMAIN sc.entries = 1 .. n /\ DOMAIN ot.entries = 1 .. n
      /\ FlattenSeq(MixedEntries(sc, b)) = FlattenSeq(MixedEntries(ot, b))
  BY MixedType DEF Alike
<1>2. ASSUME NEW i \in 1 .. n
      PROVE  LET e == sc.entries[i]
                 f == ot.entries[i]
             IN  e.key = f.key /\ e.offset = f.offset /\ e.size = f.size /\ e.type = f.type
  <2> DEFINE x == End(MixedEntries(sc, b), i - 1)
             F == FlattenSeq(MixedEntries(sc, b))
             e == sc.entries[i]
             f == ot.entries[i]
             k == KeyBytes(e.key)
             l == KeyBytes(f.key)
  <2>1. i \in 0 .. n /\ i - 1 \in 0 .. n
    BY <1>1
  <2>2. /\ x = End(MixedEntries(ot, b), i - 1)
        /\ End(MixedEntries(sc, b), i) = End(MixedEntries(ot, b), i)
    BY <2>1, EntriesInStep
  <2>3. Placed(sc, b, i, x, F)
    BY <1>1, MixedEntry
  <2>4. Placed(ot, b, i, End(MixedEntries(ot, b), i - 1), FlattenSeq(MixedEntries(ot, b)))
    BY <1>1, MixedEntry
  <2>5. Placed(ot, b, i, x, F)
    BY <1>1, <2>2, <2>4
  <2>6. /\ e \in Entry /\ x \in Nat /\ HashBytes \in Nat /\ Len(k) \in Nat
        /\ End(MixedEntries(sc, b), i) = x + (3 * HashBytes + Len(k))
        /\ \A j \in 1 .. 3 * HashBytes + Len(k) : F[x + j] = EntryBytes(e, b)[j]
    BY <2>3 DEF Placed
  <2>7. /\ f \in Entry /\ Len(l) \in Nat
        /\ End(MixedEntries(ot, b), i) = x + (3 * HashBytes + Len(l))
        /\ \A j \in 1 .. 3 * HashBytes + Len(l) : F[x + j] = EntryBytes(f, b)[j]
    BY <2>5 DEF Placed
  <2> HIDE DEF x, F, e, f, k, l
  <2>8. Len(k) = Len(l)
    <3>1. x + (3 * HashBytes + Len(k)) = x + (3 * HashBytes + Len(l))
      BY <2>2, <2>6, <2>7
    <3>2. x \in Nat /\ HashBytes \in Nat /\ Len(k) \in Nat /\ Len(l) \in Nat
      BY <2>6, <2>7
    <3> QED BY <3>1, <3>2
  <2>9. /\ EntryBytes(e, b) \in Seq(Nat) /\ Len(EntryBytes(e, b)) = 3 * HashBytes + Len(k)
        /\ EntryBytes(f, b) \in Seq(Nat) /\ Len(EntryBytes(f, b)) = 3 * HashBytes + Len(l)
    BY <2>6, <2>7, EntryLaidOut DEF k, l
  <2>10. EntryBytes(e, b) = EntryBytes(f, b)
    BY <2>6, <2>7, <2>8, <2>9, SeqEqual
  <2>11. e.key = f.key /\ e.offset = f.offset /\ e.size = f.size /\ e.type = f.type
    BY <2>6, <2>7, <2>8, <2>10, EntryTold DEF k, l
  <2> QED BY <2>11 DEF e, f
<1> QED BY <1>1, <1>2 DEF Layout

(* Two schemas that mconf_init accepts and that get the same fingerprint,  *)
(* but for collisions of the hash, have the same version and layout, for   *)
(* any number of entries, all keys, every width of size_t and both ways to *)
(* compile the shift, as long as no entry has the type 0 and a build mixes *)
(* a zero byte into every offset.                                          *)
THEOREM FingerprintTells ==
  ASSUME TypesCoded, OffsetsShort
  PROVE  Spec => SchemasToldApart
<1> DEFINE Told == (initialized /\ schema' # schema) =>
                     \A build \in Builds, v \in Versions, w \in Versions :
                       Mixed(schema, v, build) = Mixed(schema', w, build)
                         => v = w /\ Layout(schema) = Layout(schema')
<1>1. Bound /\ [Next]_vars => Told
  <2> SUFFICES ASSUME Bound, [Next]_vars, initialized, schema' # schema,
                      NEW build \in Builds, NEW v \in Versions, NEW w \in Versions,
                      Mixed(schema, v, build) = Mixed(schema', w, build)
               PROVE  v = w /\ Layout(schema) = Layout(schema')
    OBVIOUS
  <2>1. PICK sc \in Candidates : mconf_schema_validate(sc) /\ schema' = sc
    BY ContextStep, InitStep
  <2>2. schema \in Candidates /\ mconf_schema_validate(schema)
    BY DEF Bound
  <2>3. v \in size_t /\ w \in size_t
    BY FingerprintAssumption
  <2>4. /\ v = w /\ Len(schema.entries) = Len(sc.entries)
        /\ FlattenSeq(MixedEntries(schema, build)) = FlattenSeq(MixedEntries(sc, build))
    BY <2>1, <2>2, <2>3, HeadTold
  <2>5. PICK z : Gap(build, z)
    BY GapExists
  <2>6. Alike(schema, sc, build, z)
    BY <2>1, <2>2, <2>4, <2>5 DEF Alike
  <2> QED BY <2>1, <2>4, <2>6, SchemaTold
<1> QED
  BY <1>1, BoundInvariant, PTL DEF Spec, SchemasToldApart
=============================================================================
