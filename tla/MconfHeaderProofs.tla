------------------------- MODULE MconfHeaderProofs --------------------------
(***************************************************************************)
(* The header of a record is read back as it was written, and while it is  *)
(* written over another one no header is accepted that describes a payload *)
(* but the old one, for all schemas, lengths, generations and checksums.   *)
(***************************************************************************)
EXTENDS MconfHeader, SequenceTheorems, TLAPS

(* The bytes mconf_encode_header puts where, read without the nesting of   *)
(* its stores.                                                             *)
Expected(r, state) ==
  [i \in Area |->
     CASE i \in 0 .. 3   -> Magic[i + 1]
       [] i \in 4 .. 5   -> FormatVersion[i - 3]
       [] i \in 6 .. 7   -> HeaderSize[i - 5]
       [] i \in 8 .. 11  -> r.schema.schema_version[i - 7]
       [] i \in 12 .. 15 -> r.schema.schema_fingerprint[i - 11]
       [] i \in 16 .. 17 -> r.schema.entry_count[i - 15]
       [] i = 18         -> state
       [] i = 19         -> 0
       [] i \in 20 .. 23 -> r.payload_length[i - 19]
       [] i \in 24 .. 27 -> r.generation[i - 23]
       [] i \in 28 .. 31 -> r.payload_crc32[i - 27]]

(* d is a, b and c one after the other.                                    *)
Joined(a, b, c, d) ==
  /\ d \in Seq(Byte) /\ Len(d) = Len(a) + Len(b) + Len(c)
  /\ \A i \in 1 .. Len(a) : d[i] = a[i]
  /\ \A i \in 1 .. Len(b) : d[i + Len(a)] = b[i]
  /\ \A i \in 1 .. Len(c) : d[i + Len(a) + Len(b)] = c[i]

(* Concatenation joins.                                                    *)
LEMMA ConcatThree ==
  ASSUME NEW a \in Seq(Byte), NEW b \in Seq(Byte), NEW c \in Seq(Byte)
  PROVE  Joined(a, b, c, a \o b \o c)
BY DEF Joined

(* A word is a sequence of bytes.                                          *)
LEMMA BytesAreSeq ==
  ASSUME NEW n \in Nat, NEW w \in [1 .. n -> Byte]
  PROVE  w \in Seq(Byte) /\ Len(w) = n
OBVIOUS

(* The words of a header are sequences of two or four bytes.               *)
LEMMA WordIsSeq ==
  /\ \A w \in [1 .. 2 -> Byte] : w \in Seq(Byte) /\ Len(w) = 2
  /\ \A w \in [1 .. 4 -> Byte] : w \in Seq(Byte) /\ Len(w) = 4
<1>1. 2 \in Nat /\ 4 \in Nat
  OBVIOUS
<1> QED BY <1>1, BytesAreSeq, Zenon

(* mconf_encode_header puts every word at its offset.                      *)
LEMMA EncodeIs ==
  ASSUME NEW r \in Info, NEW state \in Byte
  PROVE  mconf_encode_header(r, state) = Expected(r, state)
<1> DEFINE a == Magic \o FormatVersion \o HeaderSize
           b1 == r.schema.schema_version  b2 == r.schema.schema_fingerprint
           b3 == r.schema.entry_count     b == b1 \o b2 \o b3
           c1 == r.payload_length         c2 == r.generation
           c3 == r.payload_crc32          c == c1 \o c2 \o c3
           z == [i \in Area |-> 0]
           h0 == Put(z, 0, a)
           h1 == Put(h0, 8, b)
           h2 == Put(h1, 18, <<state, 0>>)
           h3 == Put(h2, 20, c)
<1>1. /\ Magic \in [1 .. 4 -> Byte] /\ FormatVersion \in [1 .. 2 -> Byte]
      /\ HeaderSize \in [1 .. 2 -> Byte] /\ <<state, 0>> \in [1 .. 2 -> Byte]
  BY DEF Magic, FormatVersion, HeaderSize, Byte
<1>2. /\ r.schema.schema_version \in [1 .. 4 -> Byte]
      /\ r.schema.schema_fingerprint \in [1 .. 4 -> Byte]
      /\ r.schema.entry_count \in [1 .. 2 -> Byte]
      /\ r.payload_length \in [1 .. 4 -> Byte]
      /\ r.generation \in [1 .. 4 -> Byte]
      /\ r.payload_crc32 \in [1 .. 4 -> Byte]
  BY HeaderAssumption DEF Info
<1>3. /\ a \in [1 .. 8 -> Byte]
      /\ \A i \in 1 .. 4 : a[i] = Magic[i]
      /\ \A i \in 1 .. 2 : a[i + 4] = FormatVersion[i]
      /\ \A i \in 1 .. 2 : a[i + 6] = HeaderSize[i]
  <2>1. /\ Magic \in Seq(Byte) /\ Len(Magic) = 4
        /\ FormatVersion \in Seq(Byte) /\ Len(FormatVersion) = 2
        /\ HeaderSize \in Seq(Byte) /\ Len(HeaderSize) = 2
    BY <1>1, WordIsSeq
  <2>2. Joined(Magic, FormatVersion, HeaderSize, a)
    BY <2>1, ConcatThree
  <2> HIDE DEF a
  <2>3. Len(a) = 8
    BY <2>1, <2>2 DEF Joined
  <2>4. a \in [1 .. 8 -> Byte]
    BY <2>2, <2>3, LenProperties DEF Joined
  <2> QED BY <2>1, <2>2, <2>4 DEF Joined
<1>4. /\ b \in [1 .. 10 -> Byte]
      /\ \A i \in 1 .. 4 : b[i] = b1[i]
      /\ \A i \in 1 .. 4 : b[i + 4] = b2[i]
      /\ \A i \in 1 .. 2 : b[i + 8] = b3[i]
  <2>1. /\ b1 \in Seq(Byte) /\ Len(b1) = 4
        /\ b2 \in Seq(Byte) /\ Len(b2) = 4
        /\ b3 \in Seq(Byte) /\ Len(b3) = 2
    BY <1>2, WordIsSeq
  <2> HIDE DEF b1, b2, b3
  <2>2. Joined(b1, b2, b3, b)
    BY <2>1, ConcatThree
  <2> HIDE DEF b
  <2>3. Len(b) = 10
    BY <2>1, <2>2 DEF Joined
  <2>4. b \in [1 .. 10 -> Byte]
    BY <2>2, <2>3, LenProperties DEF Joined
  <2> QED BY <2>1, <2>2, <2>4 DEF Joined
<1>5. /\ c \in [1 .. 12 -> Byte]
      /\ \A i \in 1 .. 4 : c[i] = c1[i]
      /\ \A i \in 1 .. 4 : c[i + 4] = c2[i]
      /\ \A i \in 1 .. 4 : c[i + 8] = c3[i]
  <2>1. /\ c1 \in Seq(Byte) /\ Len(c1) = 4
        /\ c2 \in Seq(Byte) /\ Len(c2) = 4
        /\ c3 \in Seq(Byte) /\ Len(c3) = 4
    BY <1>2, WordIsSeq
  <2> HIDE DEF a, b, z, h0, h1, h2, h3, c1, c2, c3
  <2>2. Joined(c1, c2, c3, c)
    BY <2>1, ConcatThree
  <2> HIDE DEF c
  <2>3. Len(c) = 12
    BY <2>1, <2>2 DEF Joined
  <2>4. c \in [1 .. 12 -> Byte]
    BY <2>2, <2>3, LenProperties DEF Joined
  <2> QED BY <2>1, <2>2, <2>4 DEF Joined
<1>6. z \in [Area -> Byte]
  BY DEF Byte
<1> HIDE DEF a, b, c, z
<1>7. h0 \in [Area -> Byte]
      /\ \A i \in Area : h0[i] = IF i \in 0 .. 7 THEN a[i + 1] ELSE z[i]
  <2>1. DOMAIN a = 1 .. 8
    BY <1>3, <1>6
  <2>2. \A i \in Area : i - 0 + 1 = i + 1 /\ (i + 1 \in 1 .. 8 <=> i \in 0 .. 7)
    BY DEF Area
  <2>3. h0 = [i \in Area |-> IF i \in 0 .. 7 THEN a[i + 1] ELSE z[i]]
    BY <2>1, <2>2 DEF Put
  <2> HIDE DEF h0
  <2> QED BY <2>2, <2>3, <1>3, <1>6
<1> HIDE DEF h0
<1>8. h1 \in [Area -> Byte]
      /\ \A i \in Area : h1[i] = IF i \in 8 .. 17 THEN b[i - 7] ELSE h0[i]
  <2>1. DOMAIN b = 1 .. 10
    BY <1>4, <1>7
  <2>2. \A i \in Area : i - 8 + 1 = i - 7 /\ (i - 7 \in 1 .. 10 <=> i \in 8 .. 17)
    BY DEF Area
  <2>3. h1 = [i \in Area |-> IF i \in 8 .. 17 THEN b[i - 7] ELSE h0[i]]
    BY <2>1, <2>2 DEF Put
  <2> HIDE DEF h1
  <2> QED BY <2>2, <2>3, <1>4, <1>7
<1> HIDE DEF h1
<1>9. h2 \in [Area -> Byte]
      /\ \A i \in Area : h2[i] = IF i \in 18 .. 19 THEN <<state, 0>>[i - 17] ELSE h1[i]
  <2>1. DOMAIN <<state, 0>> = 1 .. 2
    BY <1>1, <1>8
  <2>2. \A i \in Area : i - 18 + 1 = i - 17 /\ (i - 17 \in 1 .. 2 <=> i \in 18 .. 19)
    BY DEF Area
  <2>3. h2 = [i \in Area |-> IF i \in 18 .. 19 THEN <<state, 0>>[i - 17] ELSE h1[i]]
    BY <2>1, <2>2 DEF Put
  <2> HIDE DEF h2
  <2> QED BY <2>2, <2>3, <1>1, <1>8
<1> HIDE DEF h2
<1>10. h3 \in [Area -> Byte]
      /\ \A i \in Area : h3[i] = IF i \in 20 .. 31 THEN c[i - 19] ELSE h2[i]
  <2>1. DOMAIN c = 1 .. 12
    BY <1>5, <1>9
  <2>2. \A i \in Area : i - 20 + 1 = i - 19 /\ (i - 19 \in 1 .. 12 <=> i \in 20 .. 31)
    BY DEF Area
  <2>3. h3 = [i \in Area |-> IF i \in 20 .. 31 THEN c[i - 19] ELSE h2[i]]
    BY <2>1, <2>2 DEF Put
  <2> HIDE DEF h3
  <2> QED BY <2>2, <2>3, <1>5, <1>9
<1> HIDE DEF h3
<1>11. mconf_encode_header(r, state) = h3
  BY DEF mconf_encode_header, h3, h2, h1, h0, z, a, b, c, b1, b2, b3, c1, c2, c3,
            MCONF_STORAGE_STATE_OFFSET
<1>12. ASSUME NEW i \in Area PROVE h3[i] = Expected(r, state)[i]
  <2>1. CASE i \in 0 .. 7
    BY <2>1, <1>3, <1>7, <1>8, <1>9, <1>10 DEF Expected, Area
  <2>2. CASE i \in 8 .. 17
    BY <2>2, <1>4, <1>8, <1>9, <1>10 DEF Expected, Area
  <2>3. CASE i \in 18 .. 19
    BY <2>3, <1>9, <1>10 DEF Expected, Area
  <2>4. CASE i \in 20 .. 31
    BY <2>4, <1>5, <1>10 DEF Expected, Area
  <2> QED BY <2>1, <2>2, <2>3, <2>4 DEF Area
<1> QED BY <1>10, <1>11, <1>12 DEF Expected
-----------------------------------------------------------------------------
Committed   == MCONF_STORAGE_STATE_COMMITTED
Uncommitted == MCONF_STORAGE_STATE_UNCOMMITTED

(* The header of a record decodes to that record.                          *)
LEMMA DecodeEncoded ==
  ASSUME NEW r \in Info, NEW state \in Byte
  PROVE  mconf_decode_header(mconf_encode_header(r, state)) = r
<1> DEFINE h == mconf_encode_header(r, state)
<1>1. h = Expected(r, state)
  BY EncodeIs
<1> HIDE DEF h
<1>2. r.schema \in [schema_version : [1 .. 4 -> Byte],
                    schema_fingerprint : [1 .. 4 -> Byte], entry_count : [1 .. 2 -> Byte]]
  BY HeaderAssumption DEF Info
<1>3. /\ r.payload_length \in [1 .. 4 -> Byte] /\ r.generation \in [1 .. 4 -> Byte]
      /\ r.payload_crc32 \in [1 .. 4 -> Byte]
  BY HeaderAssumption DEF Info
<1>4. Get(h, 8, 4) = r.schema.schema_version
  BY <1>1, <1>2 DEF Get, Expected, Area
<1>5. Get(h, 12, 4) = r.schema.schema_fingerprint
  BY <1>1, <1>2 DEF Get, Expected, Area
<1>6. Get(h, 16, 2) = r.schema.entry_count
  BY <1>1, <1>2 DEF Get, Expected, Area
<1>7. Get(h, 20, 4) = r.payload_length
  BY <1>1, <1>3 DEF Get, Expected, Area
<1>8. Get(h, 24, 4) = r.generation
  BY <1>1, <1>3 DEF Get, Expected, Area
<1>9. Get(h, 28, 4) = r.payload_crc32
  BY <1>1, <1>3 DEF Get, Expected, Area
<1>10. r.schema = [schema_version |-> r.schema.schema_version,
                   schema_fingerprint |-> r.schema.schema_fingerprint,
                   entry_count |-> r.schema.entry_count]
  BY <1>2
<1>11. r = [schema |-> r.schema, payload_length |-> r.payload_length,
            generation |-> r.generation, payload_crc32 |-> r.payload_crc32]
  BY DEF Info
<1>12. mconf_decode_header(h) = r
  BY <1>4, <1>5, <1>6, <1>7, <1>8, <1>9, <1>10, <1>11 DEF mconf_decode_header
<1> QED BY <1>12 DEF h

(* A committed header passes the probe of its own schema and no other.     *)
LEMMA EncodedUsable ==
  ASSUME NEW r \in Info, r.payload_length \in Fits, NEW q \in Schemas
  PROVE  Usable(mconf_encode_header(r, Committed), q) <=> q = r.schema
<1> DEFINE h == mconf_encode_header(r, Committed)
<1>0. Committed \in Byte
  BY DEF Committed, MCONF_STORAGE_STATE_COMMITTED, Byte
<1>1. h = Expected(r, Committed) /\ mconf_decode_header(h) = r
  BY <1>0, EncodeIs, DecodeEncoded
<1> HIDE DEF h
<1>2. Get(h, 0, 4) = Magic
  BY <1>1 DEF Get, Expected, Area, Magic
<1>3. Get(h, 4, 2) = FormatVersion
  BY <1>1 DEF Get, Expected, Area, FormatVersion
<1>4. Get(h, 6, 2) = HeaderSize
  BY <1>1 DEF Get, Expected, Area, HeaderSize
<1>5. h[MCONF_STORAGE_STATE_OFFSET] = MCONF_STORAGE_STATE_COMMITTED
  BY <1>1 DEF Expected, Area, Committed, MCONF_STORAGE_STATE_OFFSET
<1>6. Usable(h, q) <=> q = r.schema
  BY <1>1, <1>2, <1>3, <1>4, <1>5 DEF Usable
<1> QED BY <1>6 DEF h

-----------------------------------------------------------------------------
(* How far the write has come: the first bytes are those of the new        *)
(* header, the rest is what was there; after the commit it is the new      *)
(* header with the committed state.                                        *)
HeaderInv ==
  /\ info \in Info /\ info.payload_length \in Fits
  /\ old = Erased \/ \E r \in Info : old = mconf_encode_header(r, Committed)
  /\ written \in 0 .. 32 /\ done \in BOOLEAN
  /\ ~ done => header = [i \in Area |-> IF i < written
                                        THEN mconf_encode_header(info, Uncommitted)[i]
                                        ELSE old[i]]
  /\ done => written = 32 /\ header = mconf_encode_header(info, Committed)

(* Setting the state byte of the new header gives the committed one.       *)
LEMMA CommitGives ==
  ASSUME NEW r \in Info
  PROVE  Put(mconf_encode_header(r, Uncommitted), MCONF_STORAGE_STATE_OFFSET,
             <<MCONF_STORAGE_STATE_COMMITTED>>) = mconf_encode_header(r, Committed)
<1>1. Committed \in Byte /\ Uncommitted \in Byte
  BY DEF Committed, Uncommitted, MCONF_STORAGE_STATE_COMMITTED,
         MCONF_STORAGE_STATE_UNCOMMITTED, Byte
<1>2. /\ mconf_encode_header(r, Uncommitted) = Expected(r, Uncommitted)
      /\ mconf_encode_header(r, Committed) = Expected(r, Committed)
  BY <1>1, EncodeIs
<1>3. DOMAIN <<Committed>> = {1} /\ <<Committed>>[1] = Committed
  OBVIOUS
<1>4. \A i \in Area : i - 18 + 1 = 1 <=> i = 18
  BY DEF Area
<1>5. Put(Expected(r, Uncommitted), 18, <<Committed>>) =
        [i \in Area |-> IF i = 18 THEN Committed ELSE Expected(r, Uncommitted)[i]]
  BY <1>3, <1>4 DEF Put
<1>6. \A i \in Area : Expected(r, Committed)[i] =
        IF i = 18 THEN Committed ELSE Expected(r, Uncommitted)[i]
  BY DEF Expected, Area
<1>7. Put(Expected(r, Uncommitted), 18, <<Committed>>) = Expected(r, Committed)
  BY <1>5, <1>6 DEF Expected
<1> QED BY <1>2, <1>7 DEF MCONF_STORAGE_STATE_OFFSET, Committed

(* The invariant holds in every state.                                     *)
LEMMA HeaderInvHolds == Spec => []HeaderInv
<1>1. Init => HeaderInv
  <2> SUFFICES ASSUME Init PROVE HeaderInv
    OBVIOUS
  <2>1. info \in Info /\ info.payload_length \in Fits
    BY HeaderAssumption DEF Init, Info
  <2>2. old = Erased \/ \E r \in Info : old = mconf_encode_header(r, Committed)
    BY DEF Init, Committed
  <2>3. old = [i \in Area |-> old[i]]
    <3>1. CASE old = Erased
      BY <3>1 DEF Erased
    <3>2. ASSUME NEW r \in Info, old = mconf_encode_header(r, Committed)
          PROVE  old = [i \in Area |-> old[i]]
      BY <3>2 DEF mconf_encode_header, Put
    <3> QED BY <2>2, <3>1, <3>2
  <2>4. \A i \in Area : ~ (i < 0)
    BY DEF Area
  <2>5. header = old /\ written = 0 /\ done = FALSE
    BY DEF Init
  <2>6. header = [i \in Area |-> IF i < written
                                 THEN mconf_encode_header(info, Uncommitted)[i]
                                 ELSE old[i]]
    <3> DEFINE new == mconf_encode_header(info, Uncommitted)
    <3> HIDE DEF new
    <3>1. [i \in Area |-> IF i < 0 THEN new[i] ELSE old[i]] = [i \in Area |-> old[i]]
      BY <2>4
    <3>2. header = [i \in Area |-> IF i < written THEN new[i] ELSE old[i]]
      BY <2>3, <2>5, <3>1
    <3> QED BY <3>2 DEF new
  <2>7. written \in 0 .. 32
    BY <2>5
  <2> QED BY <2>1, <2>2, <2>5, <2>6, <2>7, Zenon DEF HeaderInv
<1>2. HeaderInv /\ [Next]_vars => HeaderInv'
  <2> SUFFICES ASSUME HeaderInv, [Next]_vars PROVE HeaderInv'
    OBVIOUS
  <2> DEFINE new == mconf_encode_header(info, Uncommitted)
  <2>1. CASE WriteByte
    <3>1. /\ written < 32 /\ written' = written + 1
          /\ old' = old /\ info' = info /\ done' = done
          /\ header' = [header EXCEPT ![written] = new[written]]
      BY <2>1 DEF WriteByte, Uncommitted
    <3>2. written \in 0 .. 31 /\ written \in Area /\ ~ done /\ written' \in 0 .. 32
      BY <3>1 DEF HeaderInv, Area
    <3>3. header = [i \in Area |-> IF i < written THEN new[i] ELSE old[i]]
      BY <3>2 DEF HeaderInv
    <3>4. header' = [i \in Area |-> IF i < written + 1 THEN new[i] ELSE old[i]]
      <4> HIDE DEF new
      <4>1. \A i \in Area : i < written + 1 <=> (i < written \/ i = written)
        BY <3>2 DEF Area
      <4>2. header' = [i \in Area |-> IF i = written THEN new[written] ELSE header[i]]
        BY <3>1, <3>3
      <4>3. \A i \in Area : header[i] = IF i < written THEN new[i] ELSE old[i]
        BY <3>3
      <4> QED BY <4>1, <4>2, <4>3
    <3>5. header' = [i \in Area |-> IF i < written'
                                    THEN mconf_encode_header(info', Uncommitted)[i]
                                    ELSE old'[i]]
      BY <3>1, <3>4
    <3>6. done' \in BOOLEAN /\ ~ done'
      BY <3>1, <3>2 DEF HeaderInv
    <3>7. info' \in Info /\ info'.payload_length \in Fits
      BY <3>1 DEF HeaderInv
    <3>8. old' = Erased \/ \E r \in Info : old' = mconf_encode_header(r, Committed)
      BY <3>1, Zenon DEF HeaderInv
    <3> QED BY <3>2, <3>5, <3>6, <3>7, <3>8, Zenon DEF HeaderInv
  <2>2. CASE CommitRecord
    <3>1. /\ ~ done /\ written = 32 /\ done' = TRUE
          /\ UNCHANGED <<old, info, written>>
          /\ header' = Put(header, MCONF_STORAGE_STATE_OFFSET,
                           <<MCONF_STORAGE_STATE_COMMITTED>>)
      BY <2>2 DEF CommitRecord
    <3>2. \A i \in Area : i < 32
      BY DEF Area
    <3>3. header = [i \in Area |-> new[i]]
      BY <3>1, <3>2 DEF HeaderInv
    <3>4. new = [i \in Area |-> new[i]]
      BY DEF mconf_encode_header, Put
    <3>5. header' = mconf_encode_header(info, Committed)
      BY <3>1, <3>3, <3>4, CommitGives DEF HeaderInv
    <3> QED BY <3>1, <3>5 DEF HeaderInv
  <2>3. CASE UNCHANGED vars
    BY <2>3 DEF vars, HeaderInv
  <2> QED BY <2>1, <2>2, <2>3 DEF Next
<1> QED BY <1>1, <1>2, PTL DEF Spec

(* A committed header is read back as the record it was written for, by    *)
(* the image that wrote it and by no other, for all schemas and records.   *)
THEOREM HeaderIsReadBack == Spec => []HeaderReadsBack
<1>1. HeaderInv => HeaderReadsBack
  <2> SUFFICES ASSUME HeaderInv, done
               PROVE  /\ mconf_decode_header(header) = info
                      /\ \A q \in Schemas : Usable(header, q) <=> q = info.schema
    BY DEF HeaderReadsBack
  <2>1. /\ info \in Info /\ info.payload_length \in Fits
        /\ header = mconf_encode_header(info, Committed)
    BY DEF HeaderInv
  <2>2. Committed \in Byte
    BY DEF Committed, MCONF_STORAGE_STATE_COMMITTED, Byte
  <2> QED BY <2>1, <2>2, DecodeEncoded, EncodedUsable
<1> QED BY <1>1, HeaderInvHolds, PTL

(* Wherever the header write is cut short, a header a probe accepts has    *)
(* the generation, length and checksum of the old record, and is the old   *)
(* header in full over a record of the schema being saved.                 *)
THEOREM TornHeaderStaysOld == Spec => []TornHeaderIsOld
<1>1. HeaderInv => TornHeaderIsOld
  <2> SUFFICES ASSUME HeaderInv, ~ done, NEW q \in Schemas, Usable(header, q)
               PROVE  /\ old # Erased /\ Get(header, 20, 12) = Get(old, 20, 12)
                      /\ mconf_decode_header(old).schema = info.schema => header = old
    BY DEF TornHeaderIsOld
  <2> DEFINE new == mconf_encode_header(info, Uncommitted)
  <2>1. header = [i \in Area |-> IF i < written THEN new[i] ELSE old[i]]
        /\ written \in 0 .. 32
    BY DEF HeaderInv
  <2>2. new[18] = Uncommitted
    <3>1. Uncommitted \in Byte
      BY DEF Uncommitted, MCONF_STORAGE_STATE_UNCOMMITTED, Byte
    <3>2. new = Expected(info, Uncommitted)
      BY <3>1, EncodeIs DEF HeaderInv
    <3> QED BY <3>2 DEF Expected, Area
  <2> HIDE DEF new
  <2>3. header[18] = Committed
    BY DEF Usable, Committed, MCONF_STORAGE_STATE_OFFSET
  <2>4. Committed = 165 /\ Uncommitted = 60
    BY DEF Committed, Uncommitted, MCONF_STORAGE_STATE_COMMITTED,
           MCONF_STORAGE_STATE_UNCOMMITTED
  <2>5. ~ (18 < written) /\ old[18] = 165
    BY <2>1, <2>2, <2>3, <2>4 DEF Area
  <2>6. old # Erased
    BY <2>5 DEF Erased, Area
  <2>7. \A i \in 20 .. 31 : header[i] = old[i]
    BY <2>1, <2>5 DEF Area
  <2>8. \A k \in 1 .. 12 : 20 + k - 1 \in 20 .. 31
    OBVIOUS
  <2>9. Get(header, 20, 12) = Get(old, 20, 12)
    BY <2>7, <2>8 DEF Get
  <2>10. ASSUME mconf_decode_header(old).schema = info.schema PROVE header = old
    <3>1. PICK r \in Info : old = mconf_encode_header(r, Committed)
      BY <2>6 DEF HeaderInv
    <3>2. Committed \in Byte /\ Uncommitted \in Byte
      BY <2>4 DEF Byte
    <3>3. old = Expected(r, Committed) /\ mconf_decode_header(old) = r
      BY <3>1, <3>2, EncodeIs, DecodeEncoded
    <3>4. new = Expected(info, Uncommitted)
      BY <3>2, EncodeIs DEF HeaderInv, new
    <3>5. r.schema = info.schema
      BY <2>10, <3>3
    <3>6. \A i \in 0 .. 17 : new[i] = old[i]
      BY <3>3, <3>4, <3>5 DEF Expected, Area
    <3>7. \A i \in Area : i < written => i \in 0 .. 17
      BY <2>1, <2>5 DEF Area
    <3>8. old = [i \in Area |-> old[i]]
      BY <3>1 DEF mconf_encode_header, Put
    <3> QED BY <2>1, <3>6, <3>7, <3>8
  <2> QED BY <2>6, <2>9, <2>10
<1> QED BY <1>1, HeaderInvHolds, PTL
=============================================================================
