------------------------------ MODULE Payload -------------------------------
(***************************************************************************)
(* A report as it is sent: the bytes of src/protocols/hexblob.c, taken     *)
(* apart by lorawan_protocol/cs_protocol.js, and the text of               *)
(* src/protocols/jsonblob.c, of which a number is the number it stands     *)
(* for.  Lengths that the code writes as numbers are given with Base = 256 *)
(* in mind: a type is one byte, a name four.                               *)
(***************************************************************************)
EXTENDS Numbers, Bitwise

CONSTANTS
    HexSize,        \* OSM_PROTOCOL_HEX_ARRAY_SIZE
    StrLen,         \* PROTOCOL_SEND_STR_LEN
    JsonRoom,       \* members of an object JSON_BUF_SIZE has room for
    Thousand        \* thousandths in one

Version == 2        \* OSM_MEASUREMENTS_PAYLOAD_VERSION
SINGLE == 1
AVERAGED == 2
FLOAT == 21         \* PROTOCOL_SEND_TYPE_FLOAT
STR == 32           \* PROTOCOL_SEND_TYPE_STR

\* PROTOCOL_SEND_TYPE_UINT8 to INT64, by their number of bytes.
UintType(n) == CASE n = 1 -> 1 [] n = 2 -> 2 [] n = 4 -> 3 [] n = 8 -> 4
IntType(n) == UintType(n) + 16
Most(n) == Base^n - 1
MostInt(n) == Base^n \div 2 - 1

\* Mutant: a byte is thought to hold one more.
SizeOfMore(v) ==
    IF v > 0 THEN CASE v > Most(4) -> 8 [] v > Most(2) -> 4 [] v > Base -> 2 [] OTHER -> 1
    ELSE CASE v < -MostInt(4) - 1 -> 8 [] v < -MostInt(2) - 1 -> 4
           [] v < -MostInt(1) - 1 -> 2 [] OTHER -> 1

\* The fewest bytes that hold v.
SizeOf(v) ==
    IF v > 0 THEN CASE v > Most(4) -> 8 [] v > Most(2) -> 4 [] v > Most(1) -> 2 [] OTHER -> 1
    ELSE CASE v < -MostInt(4) - 1 -> 8 [] v < -MostInt(2) - 1 -> 4
           [] v < -MostInt(1) - 1 -> 2 [] OTHER -> 1

I64Value(v) == <<IF v > 0 THEN UintType(SizeOf(v)) ELSE IntType(SizeOf(v))>> \o Bytes(SizeOf(v), v)
FloatValue(v) == <<FLOAT>> \o Bytes(4, v)
StrValue(s) == <<STR>> \o [i \in 1..StrLen |-> IF i <= Len(s) THEN s[i] ELSE 0]

HexValue(type, v) == IF type = "FLOAT" THEN FloatValue(v) ELSE I64Value(v)

Mean(data) == Over(data.sum, data.num)

HexMeasurement(name, samplecount, data) ==
    name
    \o <<IF samplecount = 1 THEN SINGLE ELSE AVERAGED>>
    \o CASE data.type = "STR" -> StrValue(data.sum)
         [] data.type # "STR" /\ samplecount = 1 -> HexValue(data.type, data.sum)
         [] OTHER -> HexValue(data.type, Mean(data)) \o HexValue(data.type, data.min)
                       \o HexValue(data.type, data.max)

\* A measurement that does not fit leaves the buffer as it was.
HexAppend(buf, bytes) == IF Len(buf \o bytes) <= HexSize THEN buf \o bytes ELSE buf

HexStart == <<Version>>
-----------------------------------------------------------------------------
(* cs_protocol.js.  The bit operations of JavaScript are on 32 bits with a *)
(* sign, and shift by their distance modulo 32.                            *)

DecodeU8(b, p) == b[p]
DecodeU16(b, p) == b[p + 1] * Base + b[p]
DecodeU32(b, p) == Signed(4, DecodeU16(b, p + 2) * Base^2 + DecodeU16(b, p))
DecodeU64(b, p) ==
    Signed(4, Unsigned(4, DecodeU32(b, p + 4)) | Unsigned(4, DecodeU32(b, p)))

DecodeI8(b, p) == LET v == DecodeU8(b, p) IN IF v > Base \div 2 THEN v - Base ELSE v
DecodeI16(b, p) == Signed(2, DecodeU16(b, p))
DecodeI32(b, p) ==
    LET v == DecodeU32(b, p) IN IF v > Most(4) \div 2 THEN v - Base^4 ELSE v
DecodeI64(b, p) ==
    LET v == DecodeU64(b, p) IN IF v > Most(8) \div 2 THEN v - (Base^8 - 2) ELSE v

\* A value is a sequence, of one number or of the characters of a text; of
\* none for what is no type.
DecodeValue(type, b, p) ==
    CASE type = UintType(1) -> <<DecodeU8(b, p)>>  [] type = IntType(1) -> <<DecodeI8(b, p)>>
      [] type = UintType(2) -> <<DecodeU16(b, p)>> [] type = IntType(2) -> <<DecodeI16(b, p)>>
      [] type = UintType(4) -> <<DecodeU32(b, p)>> [] type = IntType(4) -> <<DecodeI32(b, p)>>
      [] type = UintType(8) -> <<DecodeU64(b, p)>> [] type = IntType(8) -> <<DecodeI64(b, p)>>
      [] type = FLOAT -> <<DecodeI32(b, p)>>
      [] type = STR -> SubSeq(b, p, p + StrLen - 1)
      [] OTHER -> <<>>

ValueSize(type) ==
    CASE type \in {UintType(1), IntType(1)} -> 1 [] type \in {UintType(2), IntType(2)} -> 2
      [] type \in {UintType(4), IntType(4), FLOAT} -> 4
      [] type \in {UintType(8), IntType(8)} -> 8
      [] type = STR -> StrLen
      [] OTHER -> 0

Parts(datatype) ==
    CASE datatype = SINGLE -> <<"mean">>
      [] datatype = AVERAGED -> <<"mean", "min", "max">>
      [] OTHER -> <<>>

\* What is found from p on, where it goes on, and whether it does: each part
\* of a measurement is a type and a value, which must be there.
DecodePart(name, part, b, was) ==
    LET p    == was.next
        type == IF p <= Len(b) THEN b[p] ELSE 0
    IN  IF was.over \/ p + ValueSize(type) > Len(b)
        THEN [was EXCEPT !.over = TRUE]
        ELSE [found |-> was.found
                          \cup {[name |-> name, part |-> part,
                                 value |-> DecodeValue(type, b, p + 1)]},
              next |-> p + 1 + ValueSize(type), over |-> FALSE]

\* The object, as the set of its members.
Decode(b) ==
    LET From[p \in 1..(Len(b) + 1)] ==
            IF p + 4 > Len(b) \/ Parts(b[p + 4]) = <<>> THEN {}
            ELSE LET name == SelectSeq(SubSeq(b, p, p + 3), LAMBDA c : c # 0)
                     got == FoldLeft(LAMBDA was, part : DecodePart(name, part, b, was),
                                     [found |-> {}, next |-> p + 5, over |-> FALSE],
                                     Parts(b[p + 4]))
                 IN  got.found \cup IF got.over THEN {} ELSE From[got.next]
    IN  IF b[1] \in {1, 2} THEN From[2] ELSE {}
-----------------------------------------------------------------------------
(* jsonblob.c.                                                             *)

\* A measurement of which a member does not fit is left out.
JsonAppend(msg, members) ==
    IF Cardinality(msg) + Cardinality(members) <= JsonRoom THEN msg \cup members ELSE msg

\* The whole part has the sign, the thousandths have none.
JsonFloat(v) ==
    LET thousandths == IF v < 0 THEN (-v) % Thousand ELSE v % Thousand
        whole == Over(v, Thousand)
    IN  IF whole < 0 THEN whole * Thousand - thousandths ELSE whole * Thousand + thousandths

JsonValue(type, v) == <<IF type = "FLOAT" THEN JsonFloat(v) ELSE v>>

\* A single I64 is read as if it were a float.
JsonMeasurement(name, data) ==
    LET Part(part, v) == [name |-> name, part |-> part, value |-> v]
    IN  CASE data.type = "STR" -> {Part("mean", data.sum)}
          [] data.type # "STR" /\ data.num = 1 ->
                {Part("mean", JsonValue(data.type, Signed(4, data.sum)))}
          [] OTHER -> {Part("mean", JsonValue(data.type, Mean(data))),
                       Part("min", JsonValue(data.type, data.min)),
                       Part("max", JsonValue(data.type, data.max))}
=============================================================================
