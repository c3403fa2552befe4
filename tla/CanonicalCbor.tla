--------------------------- MODULE CanonicalCbor ----------------------------
(***************************************************************************)
(* The canonical record encoding from both ends: encode_value of           *)
(* trackone-ledger/src/c_cbor.rs, which makes deterministic CBOR of a JSON *)
(* value, and validate_canonical_record of vtl.rs, which the gateway and   *)
(* the verifier put every record through without decoding it.              *)
(*                                                                         *)
(* A byte string is the sequence of its heads and content bytes: a head is *)
(* [major, width, argument], whose width says in how many bytes the        *)
(* argument follows (1: in the initial byte itself), a content byte is     *)
(* [byte].  A JSON value is a one-field record: [simple], [uint], [nint],  *)
(* [float], [text], [array] or [object].                                   *)
(***************************************************************************)
EXTENDS Integers, Sequences, FiniteSetsExt, SequencesExt

CONSTANTS
    Limits,            \* the largest argument of each width
    Formats,           \* binary16, 32 and 64: [fraction bits, bias]
    MaxNesting,        \* MAX_CBOR_NESTING_DEPTH
    NotText,           \* content bytes that no UTF-8 text has
    Values             \* the JSON values under study, with all their parts

Parts(v) ==
    CASE "array" \in DOMAIN v -> Range(v.array)
      [] "object" \in DOMAIN v -> Range(v.object)
      [] OTHER -> {}

ASSUME ValuesHaveTheirParts == \A v \in Values : Parts(v) \subseteq Values
-----------------------------------------------------------------------------
(* Heads. *)

Token(major, width, argument) == [major |-> major, width |-> width, argument |-> argument]

\* major_u64: the shortest width that holds n.
MajorU64(major, n) ==
    Token(major, CHOOSE w \in DOMAIN Limits : n <= Limits[w] /\ (w > 1 => n > Limits[w - 1]), n)

\* read_cbor_argument, of a head that is there: a longer width than needed, and
\* an indefinite length, are refused.
ReadArgument(token) ==
    {n \in {token.argument} : /\ token.width \in DOMAIN Limits
                              /\ token.width > 1 => n > Limits[token.width - 1]}

Null == Token(7, 1, 22)
-----------------------------------------------------------------------------
(* Floats.  A number is [negative, exponent, mantissa] as binary64 has it,   *)
(* the leading one of the significand left out; its encoding is the bit      *)
(* pattern: sign, exponent field and fraction.                               *)

Widest == Formats[Len(Formats)]

\* Below every other number of the widest format.
Zero(negative) ==
    [negative |-> negative, exponent |-> -Widest.bias - Widest.fraction, mantissa |-> 0]

IsFinite(f) == f.exponent <= Widest.bias

Fields(format) == 2 * (format.bias + 1)

BitPattern(negative, field, fraction, format) ==
    ((IF negative THEN Fields(format) ELSE 0) + field) * 2^format.fraction + fraction

\* try_encode_as_f16, and the casts to f32 and f64, which keep a number that
\* fits: below its smallest exponent a format gives up a bit per step.
TryEncode(f, format) ==
    LET surrendered == IF f.exponent >= 1 - format.bias THEN 0 ELSE 1 - format.bias - f.exponent
        field == IF surrendered = 0 THEN f.exponent + format.bias ELSE 0
        significand == 2^Widest.fraction + f.mantissa
        unit == 2^(Widest.fraction - format.fraction + surrendered)
    IN  IF f = Zero(f.negative) THEN {BitPattern(f.negative, 0, 0, format)}
        ELSE {BitPattern(f.negative, field, (significand \div unit) % 2^format.fraction, format) :
                e \in {e \in (1 - format.bias - format.fraction)..format.bias :
                            e = f.exponent /\ significand % unit = 0}}

\* cbor_float: the shortest format that holds the number.
CborFloat(f) ==
    LET exact == {i \in DOMAIN Formats : TryEncode(f, Formats[i]) # {}}
        least == CHOOSE i \in exact : \A j \in exact : i <= j
    IN  IF IsFinite(f) THEN {Token(7, least + 2, bits) : bits \in TryEncode(f, Formats[least])}
        ELSE {}

\* decode_f16, f32::from_bits and f64::from_bits.
DecodeFloat(bits, format) ==
    LET fraction == bits % 2^format.fraction
        field == (bits \div 2^format.fraction) % Fields(format)
        negative == bits \div 2^format.fraction >= Fields(format)
        top == CHOOSE k \in 0..format.fraction : 2^k <= fraction /\ fraction < 2^(k + 1)
        number(exponent, mantissa) ==
            [negative |-> negative, exponent |-> exponent, mantissa |-> mantissa]
    IN  CASE field = 0 /\ fraction = 0 -> Zero(negative)
          [] field = 0 /\ fraction > 0 ->
                number(top + 1 - format.bias - format.fraction,
                       (fraction - 2^top) * 2^(Widest.fraction - top))
          [] field = Fields(format) - 1 -> number(Widest.bias + 1, fraction)
          [] OTHER -> number(field - format.bias,
                             fraction * 2^(Widest.fraction - format.fraction))

\* validate_float_encoding: the encoder makes the same bytes of the number.
ValidFloatEncoding(token, f) == CborFloat(f) = {token}

\* validate_simple_or_float
ValidSimpleOrFloat(token) ==
    \/ token.width = 1 /\ token.argument \in 20..22
    \/ /\ token.width - 2 \in DOMAIN Formats
       /\ ValidFloatEncoding(token, DecodeFloat(token.argument, Formats[token.width - 2]))
-----------------------------------------------------------------------------
(* The encoder. *)

Shorter(a, b) ==
    \/ Len(a) < Len(b)
    \/ /\ Len(a) = Len(b)
       /\ \E i \in DOMAIN a : a[i] < b[i] /\ \A j \in 1..i - 1 : a[j] = b[j]

CborText(text) ==
    <<MajorU64(3, Len(text))>> \o [i \in DOMAIN text |-> [byte |-> text[i]]]

\* encode_value: keys by length, then by their bytes.
EncodeValue[v \in Values] ==
    CASE "simple" \in DOMAIN v -> <<Token(7, 1, v.simple)>>
      [] "uint" \in DOMAIN v -> <<MajorU64(0, v.uint)>>
      [] "nint" \in DOMAIN v -> <<MajorU64(1, v.nint)>>
      [] "float" \in DOMAIN v -> SetToSeq(CborFloat(v.float))
      [] "text" \in DOMAIN v -> CborText(v.text)
      [] "array" \in DOMAIN v ->
            <<MajorU64(4, Len(v.array))>>
                \o FlattenSeq([i \in DOMAIN v.array |-> EncodeValue[v.array[i]]])
      [] OTHER ->
            LET keys == SetToSortSeq(DOMAIN v.object, Shorter)
            IN  <<MajorU64(5, Len(keys))>>
                    \o FlattenSeq([i \in DOMAIN keys |->
                                        CborText(keys[i]) \o EncodeValue[v.object[keys[i]]]])
-----------------------------------------------------------------------------
(* The validator. *)

IsHead(tokens, pos, majors) ==
    /\ pos \in DOMAIN tokens
    /\ "major" \in DOMAIN tokens[pos]
    /\ tokens[pos].major \in majors

\* Where the string whose head stands at pos ends, if it does.
StringEnd(tokens, pos, major) ==
    IF ~IsHead(tokens, pos, {major}) THEN {}
    ELSE {pos + n + 1 : n \in
            {n \in ReadArgument(tokens[pos]) :
                \A i \in pos + 1..pos + n :
                    /\ i \in DOMAIN tokens
                    /\ "byte" \in DOMAIN tokens[i]
                    /\ major = 3 => tokens[i].byte \notin NotText}}

KeyAt(tokens, pos, end) == [i \in 1..end - pos - 1 |-> tokens[pos + i].byte]

\* Fault: equal keys are let through.
AscendsWeakly(previous, key) == \A other \in previous : other = key \/ Shorter(other, key)

\* The order validate_commitment_map asks of neighbouring keys.
Ascends(previous, key) == \A other \in previous : Shorter(other, key)

\* The bytes from pos on: a head takes one, and 1, 2, 4 or 8 of argument.
Remaining(tokens, pos) ==
    LET size(token) == IF "byte" \in DOMAIN token \/ token.width \notin DOMAIN Limits THEN 1
                       ELSE <<1, 2, 3, 5, 9>>[token.width]
    IN  FoldLeft(LAMBDA sum, token : sum + size(token), 0, SubSeq(tokens, pos, Len(tokens)))

\* In a position's place: the walk ended with ResourceLimit.
Limit == 0

\* ensure_collection_fits: the position given, the error, or nothing.
EnsureCollectionFits(tokens, pos, count, each) ==
    CASE count * each > Limits[Len(Limits)] -> {Limit}
      [] count * each > Remaining(tokens, pos) -> {}
      [] OTHER -> {pos}

(***************************************************************************)
(* validate_commitment_value and validate_commitment_map.  A walk is over  *)
(* as many items, or map entries, as are left; the result is the position  *)
(* after them, Limit, or nothing when they are malformed.  The item budget *)
(* of DecodeBudget is a byte an item, so it never runs out.                *)
(***************************************************************************)
Walked(tokens, start) ==
    LET After[w \in [pos : Nat, depth : Nat, left : Nat, entries : BOOLEAN,
                     previous : SUBSET Seq(Nat)]] ==
            LET token == tokens[w.pos]
                inside(count, entries) ==
                    UNION {After[[pos |-> first, depth |-> w.depth + 1, left |-> count,
                                  entries |-> entries, previous |-> {}]] :
                           first \in EnsureCollectionFits(tokens, w.pos + 1, count,
                                                          IF entries THEN 2 ELSE 1)}
                item ==
                    IF w.depth > MaxNesting THEN {Limit}
                    ELSE IF ~IsHead(tokens, w.pos, {0, 1, 2, 3, 4, 5, 7}) THEN {}
                    ELSE IF token.major = 7
                    THEN {end \in {w.pos + 1} : ValidSimpleOrFloat(token)}
                    ELSE UNION {CASE token.major \in {0, 1} -> {w.pos + 1}
                                  [] token.major \in {2, 3} -> StringEnd(tokens, w.pos, token.major)
                                  [] OTHER -> inside(n, token.major = 5) :
                                n \in ReadArgument(token)}
                keys == {end \in StringEnd(tokens, w.pos, 3) :
                            Ascends(w.previous, KeyAt(tokens, w.pos, end))}
            IN  IF w.pos = Limit \/ w.left = 0 THEN {w.pos}
                ELSE IF ~w.entries
                THEN UNION {After[[w EXCEPT !.pos = end, !.left = @ - 1]] : end \in item}
                ELSE UNION {UNION {After[[w EXCEPT !.pos = end, !.left = @ - 1,
                                                   !.previous = {KeyAt(tokens, w.pos, key)}]] :
                                   end \in After[[w EXCEPT !.pos = key, !.left = 1,
                                                           !.entries = FALSE, !.previous = {}]]} :
                            key \in keys}
    IN  After[[pos |-> start, depth |-> 0, left |-> 1, entries |-> FALSE, previous |-> {}]]

\* Where the payload of a record begins: after six items, one of eight bytes.
PayloadStart == 16

\* read_typed_argument: the argument of a head of this major type, if it has one.
TypedArgument(tokens, pos, major) ==
    IF IsHead(tokens, pos, {major}) THEN ReadArgument(tokens[pos]) ELSE {}

\* read_uint_item
UintItem(tokens, pos) == TypedArgument(tokens, pos, 0) # {}

\* read_device_id: eight bytes.
DeviceIdEnd(tokens, pos) == {end \in StringEnd(tokens, pos, 2) : end = pos + 9}

\* What is left of the walk when it ends: trailing bytes are malformed too.
Conclusion(ends, last) ==
    CASE ends = {last} -> "ok" [] ends = {Limit} -> "resource_limit" [] OTHER -> "malformed"

\* validate_canonical_record
ValidateCanonicalRecord(tokens) ==
    IF /\ TypedArgument(tokens, 1, 4) = {7}
       /\ TypedArgument(tokens, 2, 0) = {1}
       /\ DeviceIdEnd(tokens, 3) # {}
       /\ 14 \in DOMAIN tokens
       /\ \A pos \in {12, 13, 14, 15} :
                UintItem(tokens, pos) \/ (pos = 14 /\ tokens[pos] = Null)
    THEN Conclusion(Walked(tokens, PayloadStart), Len(tokens) + 1)
    ELSE "malformed"
-----------------------------------------------------------------------------
(* What a canonical record is, without a parser: the shortest heads, and a    *)
(* payload that the encoder makes of a value.                                 *)

Depth[v \in Values] == IF Parts(v) = {} THEN 0 ELSE 1 + Max({Depth[part] : part \in Parts(v)})

Encodings == {EncodeValue[v] : v \in {v \in Values : Depth[v] <= MaxNesting}}

DeepEncodings == {EncodeValue[v] : v \in {v \in Values : Depth[v] > MaxNesting}}

Uints == {MajorU64(0, n) : n \in 0..Limits[Len(Limits)]}

IsRecordOf(tokens, payloads) ==
    /\ Len(tokens) >= PayloadStart
    /\ SubSeq(tokens, 1, 3) = <<MajorU64(4, 7), MajorU64(0, 1), MajorU64(2, 8)>>
    /\ \A i \in 4..11 : "byte" \in DOMAIN tokens[i]
    /\ \A i \in {12, 13, 15} : tokens[i] \in Uints
    /\ tokens[14] \in Uints \cup {Null}
    /\ SubSeq(tokens, PayloadStart, Len(tokens)) \in payloads
=============================================================================
