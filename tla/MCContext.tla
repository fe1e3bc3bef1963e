----------------------------- MODULE MCContext ------------------------------
(***************************************************************************)
(* Values for the constants of MconfContext and MconfFingerprint: schemas  *)
(* to try.                                                                 *)
(***************************************************************************)
EXTENDS MconfFingerprint

MkEntry(key, offset, size, type, default) ==
  [key |-> key, offset |-> offset, size |-> size, type |-> type,
   default_value |-> default,
   default_size |-> IF default = NULL THEN 0 ELSE Len(default)]

MkSchema(entries, data_size) == [entries |-> entries, data_size |-> data_size]

(* Every placement of two fields with offsets and sizes in all of size_t,  *)
(* an empty field, a pair named alike, and schemas of the wrong length.    *)
MCLayouts ==
  {MkSchema(<<MkEntry("a", o1, n1, "BLOB", NULL), MkEntry("b", o2, n2, "BLOB", NULL)>>, 2) :
     o1 \in size_t, n1 \in size_t \ {0}, o2 \in size_t, n2 \in size_t \ {0}}
  \cup {MkSchema(<<>>, 3), MkSchema(<<MkEntry(NULL, 0, 1, "BLOB", NULL)>>, 0),
        MkSchema(<<MkEntry("a", 0, 0, "BLOB", NULL)>>, 3),
        MkSchema(<<MkEntry("long", 0, 1, "BLOB", NULL)>>, 3),
        MkSchema([k \in 1 .. 2 |-> MkEntry("a", k - 1, 1, "BLOB", NULL)], 3),
        MkSchema([k \in 1 .. 3 |-> MkEntry(NULL, k - 1, 1, "BLOB", NULL)], 3)}

(* Keys that run into each other and into the numbers around them.         *)
MCNamed ==
  {MkSchema(<<MkEntry(k1, 0, 1, "BLOB", NULL), MkEntry(k2, 1, 1, "BLOB", NULL)>>, 2) :
     k1 \in {NULL, "", "ab"}, k2 \in {NULL, "b"}}

(* Schemas whose calls are explored in full: every type that fits, legal   *)
(* and illegal defaults, a gap between fields, an overlap.                 *)
MCSchemas ==
  {MkSchema(<<MkEntry("a", 0, 1, "BOOL", <<1>>), MkEntry("b", 1, 2, "STRING", <<2>>)>>, 3),
   MkSchema(<<MkEntry("b", 2, 1, "BOOL", <<2>>), MkEntry("a", 0, 2, "U16", <<2, 1>>)>>, 3),
   MkSchema(<<MkEntry("a", 0, 1, "U8", NULL), MkEntry(NULL, 2, 1, "BLOB", <<2>>)>>, 3),
   MkSchema(<<MkEntry("a", 0, 2, "STRING", NULL), MkEntry("b", 2, 1, "UNKNOWN", NULL)>>, 3),
   MkSchema(<<MkEntry("a", 0, 2, "BLOB", <<1>>)>>, 3),
   MkSchema(<<MkEntry("a", 0, 2, "STRING", <<1, 2>>)>>, 3),
   MkSchema(<<MkEntry("a", 0, 2, "BLOB", NULL), MkEntry("b", 1, 2, "STRING", NULL)>>, 3)}

MCCandidates == MCLayouts \cup MCNamed \cup MCSchemas

MCTypeCode ==
  [type \in Types |->
     CHOOSE i \in 1 .. 11 :
       <<"BOOL", "U8", "I8", "U16", "I16", "U32", "I32", "FLOAT32", "STRING", "BLOB",
         "UNKNOWN">>[i] = type]

MCKeyText ==
  [key \in Keys |-> CASE key = ""   -> <<>>
                      [] key = "a"  -> <<1>>
                      [] key = "ab" -> <<1, 2>>
                      [] key = "long" -> <<2, 2>>
                      [] OTHER      -> <<2>>]
=============================================================================
