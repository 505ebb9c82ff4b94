----------------------------- MODULE ProtoCodec -----------------------------
(***************************************************************************)
(* What protoc generates for a message: Clear, _InternalSerialize,         *)
(* ByteSizeLong, _InternalParse and MergeFrom, written once over the       *)
(* message's fields (Proto/*/*.pb.cc).  A message is a function from the   *)
(* names of its fields, and "unknown", to their values.  Bytes are a       *)
(* sequence of atoms: a run of equal characters, a float, a field with its *)
(* number and its value, or the torn rest of a field.  A character is one  *)
(* byte, whatever word names it.                                           *)
(***************************************************************************)
EXTENDS Integers, Sequences, FiniteSets, SequencesExt, FiniteSetsExt

CONSTANTS
    Absent,   \* a message field that has not been set
    NotUtf8   \* a character that no UTF-8 text contains

\* A field of a message: its number, its name, its type and, for the types made
\* of messages, their fields.  The messages inside a message contain no further
\* ones: they are flat.
F(num, name, type)      == [num |-> num, name |-> name, type |-> type, of |-> <<>>]
FOf(num, name, type, S) == [num |-> num, name |-> name, type |-> type, of |-> S]

Has(a, kind) == kind \in DOMAIN a

\* The result of a parse that returned false: no message has this field.
Failed == [failed |-> TRUE]

\* The sum of a sequence of numbers.
Total(s) ==
    LET sum[i \in 0..Len(s)] == IF i = 0 THEN 0 ELSE sum[i-1] + s[i]
    IN  sum[Len(s)]

-----------------------------------------------------------------------------
(* Mutants *)

Mutant_IsUtf8(b) == TRUE
Mutant_ParseFloats(v, a)  == IF Has(a, "fixed") THEN <<a.fixed>>
                             ELSE [i \in DOMAIN a.chunk |-> a.chunk[i].float]
Mutant_ParseStrings(v, a) == <<a.chunk>>

-----------------------------------------------------------------------------
(* The bytes that are really written, 7 bits of a number in each *)

\* The numbers that do not fit into n bytes any more: 2^(7n).
Limit(n)  == <<128, 16384, 2097152, 268435456>>[n]
Groups(v) == IF v < 0 THEN 10 ELSE Min({n \in 1..4 : v < Limit(n)} \cup {5})

\* A chunk has its tag and its length before it, a field of an operation 4
\* bytes with its length.
AtomLength(a) ==
    CASE Has(a, "byte")   -> a.times
      [] Has(a, "float")  -> 4
      [] Has(a, "varint") -> 1 + Groups(a.varint)
      [] Has(a, "fixed")  -> 5
      [] Has(a, "chunk")  -> 1 + Groups(a.length) + a.length
      [] Has(a, "field")  -> 4 + a.length
      [] Has(a, "digits") \/ Has(a, "torn") -> 1

Length(b) == Total([i \in DOMAIN b |-> AtomLength(b[i])])

Run(w, n)    == <<[byte |-> w, times |-> n]>>
Text(w)      == Run(w, 1)
Varint(n, v) == <<[num |-> n, varint |-> v]>>
Chunk(n, b)  == <<[num |-> n, length |-> Length(b), chunk |-> b]>>
Torn         == [torn |-> TRUE]

\* Torn is the beginning of a field whose end is missing.  Bytes are whole, or
\* they end with it; if anything follows, it is read as the rest of the field.
Whole(b)   == \A i \in DOMAIN b : ~Has(b[i], "torn")
CutLast(b) == \A i \in DOMAIN b : Has(b[i], "torn") => i = Len(b)

-----------------------------------------------------------------------------
(* Clear *)

DefaultOf(type) ==
    CASE type = "int"     -> 0
      [] type = "bool"    -> FALSE
      [] type = "message" -> Absent
      [] type = "map"     -> [k \in {} |-> <<>>]
      [] OTHER            -> <<>>

Names(S) == {S[i].name : i \in DOMAIN S}
FieldNo(S, name) == CHOOSE i \in DOMAIN S : S[i].name = name
Clear(S) == [name \in Names(S) \cup {"unknown"} |->
                IF name = "unknown" THEN <<>> ELSE DefaultOf(S[FieldNo(S, name)].type)]

-----------------------------------------------------------------------------
(* _InternalSerialize.  The entries of a map, pairs of texts, are written  *)
(* in the order that the hash table happens to have: in that of keys.      *)

SerializeEntry(k, v) == Chunk(1, k) \o Chunk(2, v)

SerializeValue(f, v, keys) ==
    CASE f.type = "int"  -> IF v # 0 THEN Varint(f.num, v) ELSE <<>>
      [] f.type = "bool" -> IF v THEN Varint(f.num, 1) ELSE <<>>
      [] f.type \in {"bytes", "string"} -> IF v # <<>> THEN Chunk(f.num, v) ELSE <<>>
      [] f.type = "floats"  -> IF v # <<>>
                               THEN Chunk(f.num, [i \in DOMAIN v |-> [float |-> v[i]]])
                               ELSE <<>>
      [] f.type = "strings" -> FlattenSeq([i \in DOMAIN v |-> Chunk(f.num, v[i])])
      [] f.type = "map" ->
            FlattenSeq([i \in DOMAIN keys |->
                          IF keys[i] \in DOMAIN v
                          THEN Chunk(f.num, SerializeEntry(keys[i], v[keys[i]]))
                          ELSE <<>>])

SerializeFlat(S, m, keys) ==
    FlattenSeq([i \in DOMAIN S |-> SerializeValue(S[i], m[S[i].name], keys)]) \o m.unknown

SerializeField(f, v, keys) ==
    CASE f.type = "messages" ->
            FlattenSeq([i \in DOMAIN v |-> Chunk(f.num, SerializeFlat(f.of, v[i], keys))])
      [] f.type = "message" ->
            IF v # Absent THEN Chunk(f.num, SerializeFlat(f.of, v, keys)) ELSE <<>>
      [] OTHER -> SerializeValue(f, v, keys)

Serialize(S, m, keys) ==
    FlattenSeq([i \in DOMAIN S |-> SerializeField(S[i], m[S[i].name], keys)]) \o m.unknown

-----------------------------------------------------------------------------
(* ByteSizeLong, which announces the size before anything is written.  It  *)
(* goes through the entries of a map in the same order.                    *)

\* WireFormatLite::Int32Size and Int64Size.
VarintSize(v) == IF v < 0 THEN 10 ELSE 1 + Cardinality({n \in 1..4 : v >= Limit(n)})

\* WireFormatLite::StringSize, BytesSize and MessageSize.
Delimited(n) == VarintSize(n) + n

Mutant_PackedSize(v) == 1 + Delimited(4 * Len(v))

\* A pack of floats; nothing is written for an empty one.
PackedSize(v) == IF v # <<>> THEN 1 + Delimited(4 * Len(v)) ELSE 0

EntrySize(k, v) == 2 + Delimited(Length(k)) + Delimited(Length(v))

ValueSize(f, v, keys) ==
    CASE f.type = "int"  -> IF v # 0 THEN 1 + VarintSize(v) ELSE 0
      [] f.type = "bool" -> IF v THEN 2 ELSE 0
      [] f.type \in {"bytes", "string"} -> IF v # <<>> THEN 1 + Delimited(Length(v)) ELSE 0
      [] f.type = "floats"  -> PackedSize(v)
      [] f.type = "strings" -> Len(v) + Total([i \in DOMAIN v |-> Delimited(Length(v[i]))])
      [] f.type = "map" ->
            Total([i \in DOMAIN keys |->
                     IF keys[i] \in DOMAIN v
                     THEN 1 + Delimited(EntrySize(keys[i], v[keys[i]])) ELSE 0])

\* ComputeUnknownFieldsSize adds what will be written back.
FlatSize(S, m, keys) ==
    Total([i \in DOMAIN S |-> ValueSize(S[i], m[S[i].name], keys)]) + Length(m.unknown)

FieldSize(f, v, keys) ==
    CASE f.type = "messages" ->
            Len(v) + Total([i \in DOMAIN v |-> Delimited(FlatSize(f.of, v[i], keys))])
      [] f.type = "message" ->
            IF v # Absent THEN 1 + Delimited(FlatSize(f.of, v, keys)) ELSE 0
      [] OTHER -> ValueSize(f, v, keys)

ByteSizeLong(S, m, keys) ==
    Total([i \in DOMAIN S |-> FieldSize(S[i], m[S[i].name], keys)]) + Length(m.unknown)

-----------------------------------------------------------------------------
(* _InternalParse, into a message that may hold something already.  It     *)
(* returns false as soon as one field cannot be read, for bytes that end   *)
(* inside a field when it comes there.                                     *)

\* VerifyUTF8.
IsUtf8(b) == \A i \in DOMAIN b : Has(b[i], "byte") => b[i].byte # NotUtf8

\* The tag that a field's case expects.
Expects(f, a) ==
    CASE f.type \in {"int", "bool"} -> Has(a, "varint")
      [] f.type = "floats"          -> Has(a, "chunk") \/ Has(a, "fixed")
      [] OTHER                      -> Has(a, "chunk")

\* The fields that an atom is read into: one, or none.
Known(S, a) == {k \in DOMAIN S : Has(a, "num") /\ S[k].num = a.num /\ Expects(S[k], a)}

\* The entry of a map: its last key and its last value count.
EntryTexts(b, n) == {i \in DOMAIN b : Has(b[i], "chunk") /\ b[i].num = n}
EntryText(b, n)  == IF EntryTexts(b, n) = {} THEN <<>> ELSE b[Max(EntryTexts(b, n))].chunk
ReadableEntry(b) == /\ \A i \in DOMAIN b : ~Has(b[i], "torn")
                    /\ \A i \in EntryTexts(b, 1) \cup EntryTexts(b, 2) : IsUtf8(b[i].chunk)

ReadableValue(f, a) ==
    CASE f.type \in {"string", "strings"} -> IsUtf8(a.chunk)
      [] f.type = "floats" -> Has(a, "fixed") \/ \A i \in DOMAIN a.chunk : Has(a.chunk[i], "float")
      [] f.type = "map"    -> ReadableEntry(a.chunk)
      [] OTHER             -> TRUE

ReadableFlat(S, b) ==
    \A i \in DOMAIN b : /\ ~Has(b[i], "torn")
                        /\ \A k \in Known(S, b[i]) : ReadableValue(S[k], b[i])

ReadableField(f, a) ==
    IF f.type \in {"message", "messages"} THEN ReadableFlat(f.of, a.chunk)
    ELSE ReadableValue(f, a)

Readable(S, b) ==
    \A i \in DOMAIN b : /\ ~Has(b[i], "torn")
                        /\ \A k \in Known(S, b[i]) : ReadableField(S[k], b[i])

\* PackedFloatParser, or one float outside a pack.
ParseFloats(v, a) == IF Has(a, "fixed") THEN Append(v, a.fixed)
                     ELSE v \o [i \in DOMAIN a.chunk |-> a.chunk[i].float]

\* A text more.
ParseStrings(v, a) == Append(v, a.chunk)

Put(map, k, v) == [x \in DOMAIN map \cup {k} |-> IF x = k THEN v ELSE map[x]]

ParseValue(f, v, a) ==
    CASE f.type = "int"     -> a.varint
      [] f.type = "bool"    -> a.varint # 0
      [] f.type \in {"bytes", "string"} -> a.chunk
      [] f.type = "strings" -> ParseStrings(v, a)
      [] f.type = "floats"  -> ParseFloats(v, a)
      [] f.type = "map"     -> Put(v, EntryText(a.chunk, 1), EntryText(a.chunk, 2))

\* One turn of the loop.  A field with a number or a tag that is not expected
\* is kept as it is.
Keep(m, a)     == [m EXCEPT !.unknown = Append(@, a)]
FieldOf(S, a)  == S[CHOOSE k \in Known(S, a) : TRUE]

FlatAtom(S, m, a) ==
    IF Known(S, a) = {} THEN Keep(m, a)
    ELSE LET f == FieldOf(S, a) IN [m EXCEPT ![f.name] = ParseValue(f, @, a)]

ParseFlat(S, m, b) ==
    LET read[i \in 0..Len(b)] == IF i = 0 THEN m ELSE FlatAtom(S, read[i-1], b[i])
    IN  read[Len(b)]

ParseField(f, v, a) ==
    CASE f.type = "message"  -> ParseFlat(f.of, IF v = Absent THEN Clear(f.of) ELSE v, a.chunk)
      [] f.type = "messages" -> Append(v, ParseFlat(f.of, Clear(f.of), a.chunk))
      [] OTHER               -> ParseValue(f, v, a)

ParseAtom(S, m, a) ==
    IF Known(S, a) = {} THEN Keep(m, a)
    ELSE LET f == FieldOf(S, a) IN [m EXCEPT ![f.name] = ParseField(f, @, a)]

ParseInto(S, m, b) ==
    LET read[i \in 0..Len(b)] == IF i = 0 THEN m ELSE ParseAtom(S, read[i-1], b[i])
    IN  read[Len(b)]

\* ParseFromString, of bytes that are whole or cut at their end.
Parse(S, b) == IF Readable(S, b) THEN ParseInto(S, Clear(S), b) ELSE Failed

\* ParseFromString of any bytes.  Behind a cut field the parser goes on inside
\* other fields: it fails, or it reads one of the messages in mixed.
ParseResults(S, b, mixed) == IF CutLast(b) THEN {Parse(S, b)} ELSE {Failed} \cup mixed

-----------------------------------------------------------------------------
(* MergeFrom and CopyFrom, of a flat message *)

MergeField(f, to, from) ==
    CASE f.type \in {"int", "bool", "bytes", "string"} ->
            IF from = DefaultOf(f.type) THEN to ELSE from
      [] f.type \in {"floats", "strings"} -> to \o from
      [] f.type = "map" -> [k \in DOMAIN to \cup DOMAIN from |->
                                IF k \in DOMAIN from THEN from[k] ELSE to[k]]

MergeFrom(S, to, from) ==
    [name \in DOMAIN to |->
        IF name = "unknown" THEN to.unknown \o from.unknown
        ELSE MergeField(S[FieldNo(S, name)], to[name], from[name])]

CopyFrom(S, from) == MergeFrom(S, Clear(S), from)

-----------------------------------------------------------------------------
(* What the accessors let a message hold; the keys of a map are from K *)

IsSeq(s)   == s \in Seq(Range(s))
IsBytes(b) == IsSeq(b) /\ \A i \in DOMAIN b : AtomLength(b[i]) \in Nat
IsText(b)  == IsBytes(b) /\ \A i \in DOMAIN b : Has(b[i], "byte")

IsValue(f, v, K) ==
    CASE f.type = "int"     -> v \in Int
      [] f.type = "bool"    -> v \in BOOLEAN
      [] f.type = "bytes"   -> IsBytes(v)
      [] f.type = "string"  -> IsText(v)
      [] f.type = "floats"  -> IsSeq(v)
      [] f.type = "strings" -> IsSeq(v) /\ \A i \in DOMAIN v : IsText(v[i])
      [] f.type = "map"     -> /\ v = [k \in DOMAIN v |-> v[k]] /\ DOMAIN v \subseteq K
                               /\ \A k \in DOMAIN v : IsText(k) /\ IsText(v[k])

\* Unknown fields are whole and belong to no field of S.
HasFields(S, m) ==
    /\ m = [name \in Names(S) \cup {"unknown"} |-> m[name]]
    /\ IsBytes(m.unknown)
    /\ \A i \in DOMAIN m.unknown : Known(S, m.unknown[i]) = {} /\ ~Has(m.unknown[i], "torn")

IsFlat(S, m, K) ==
    HasFields(S, m) /\ \A i \in DOMAIN S : IsValue(S[i], m[S[i].name], K)

IsField(f, v, K) ==
    CASE f.type = "message"  -> v = Absent \/ (v # Absent /\ IsFlat(f.of, v, K))
      [] f.type = "messages" -> IsSeq(v) /\ \A i \in DOMAIN v : IsFlat(f.of, v[i], K)
      [] OTHER               -> IsValue(f, v, K)

IsMessage(S, m, K) ==
    HasFields(S, m) /\ \A i \in DOMAIN S : IsField(S[i], m[S[i].name], K)

\* No field is given the value that it has anyway: a serializer leaves it out.
NoDefault(f, a) ==
    CASE f.type \in {"int", "bool"}     -> a.varint # 0
      [] f.type \in {"bytes", "string"} -> a.chunk # <<>>
      [] f.type = "floats"              -> Has(a, "fixed") \/ IsSeq(a.chunk)
      [] OTHER                          -> TRUE
NoDefaults(S, b) == \A i \in DOMAIN b : \A k \in Known(S, b[i]) : NoDefault(S[k], b[i])

\* Bytes that a serializer wrote, all of them or a beginning.
FromSerializer(S, b) ==
    /\ IsBytes(b) /\ NoDefaults(S, b) /\ CutLast(b)
    /\ \A i \in DOMAIN b : Has(b[i], "num") \/ Has(b[i], "torn")

=============================================================================
