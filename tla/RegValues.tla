----------------------------- MODULE RegValues ------------------------------
(***************************************************************************)
(* The value of a Modbus register on its way: how mb_reg_set writes it     *)
(* into a frame, how the answer to a read is taken apart, and what the     *)
(* measurement makes of it.  A float is the number of thousandths it       *)
(* stands for; what is lost below those, and floats too large for them,    *)
(* are left out.                                                           *)
(***************************************************************************)
EXTENDS Numbers

RegTypes == {"U16", "I16", "U32", "I32", "FLOAT"}
RegWords(type) == IF type \in {"U16", "I16"} THEN 1 ELSE 2

AppendU16(v, order) ==
    IF order = "MSB" THEN Reverse(Bytes(2, v)) ELSE Bytes(2, v)

AppendU32(v, order, words) ==
    LET high == AppendU16(v \div Base^2, order)
        low  == AppendU16(Unsigned(2, v), order)
    IN  IF words = "MSW" THEN high \o low ELSE low \o high

AppendValue(type, order, words, v) ==
    IF RegWords(type) = 1 THEN AppendU16(Unsigned(2, v), order)
                          ELSE AppendU32(v, order, words)

\* The 32 bits osm_modbus_set_reg makes of the value.
Value32(value) == Unsigned(4, value)

\* Mutant: all of the value is expected back.
ExpectedWhole(type, value) ==
    IF RegWords(type) = 1 THEN Value32(value) ELSE RegWords(type)

\* _modbus_reg_set_expected: the word written, or the number of them.
Expected(type, value) ==
    IF RegWords(type) = 1 THEN Unsigned(2, Value32(value)) ELSE RegWords(type)

\* The same in the acknowledgement, which holds the word as it was written.
Acknowledged(type, bytes) ==
    IF RegWords(type) = 1 THEN Number(Reverse(bytes)) ELSE RegWords(type)

DataToU16(bytes, order) ==
    Number(IF order = "MSB" THEN Reverse(bytes) ELSE bytes)

DataToU32(bytes, order, words) ==
    LET first  == DataToU16(SubSeq(bytes, 1, 2), order)
        second == DataToU16(SubSeq(bytes, 3, 4), order)
    IN  IF words = "MSW" THEN first * Base^2 + second ELSE second * Base^2 + first

\* reg->value_data, of which an I16 fills the upper word with its sign.
RegData(type, bytes, order, words) ==
    CASE type = "U16" -> DataToU16(bytes, order)
      [] type = "I16" -> Unsigned(4, Signed(2, DataToU16(bytes, order)))
      [] OTHER -> DataToU32(bytes, order, words)

\* _modbus_measurements_get.
Reading(type, data) ==
    CASE type = "U16" -> Unsigned(2, data)
      [] type = "I16" -> Signed(2, Unsigned(2, data))
      [] type = "U32" -> data
      [] type \in {"I32", "FLOAT"} -> Signed(4, data)
=============================================================================
