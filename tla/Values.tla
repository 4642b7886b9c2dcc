------------------------------- MODULE Values -------------------------------
(***************************************************************************)
(* A value from where it is measured to who reads the report: a Modbus     *)
(* register that mb_reg_set may write, a count or a text is sampled, the   *)
(* samples are summed, averaged, put into a message with another           *)
(* measurement's, and taken apart again at the server.                     *)
(*                                                                         *)
(* The Modbus slave keeps the bytes it is sent in the order its device was *)
(* added with, and acknowledges what it did.                               *)
(***************************************************************************)
EXTENDS RegValues, Payload

CONSTANTS
    Devices,        \* what there may be: see Init
    Value(_),       \* the values of a type that are looked at
    MaxSamples      \* in one interval

None == "none"

VARIABLES
    dev,            \* the measurement: its type, orders, protocol, samplecount
    words,          \* the bytes of its register
    data,           \* osm_measurements_data_t
    taken,          \* what was sampled
    set,            \* the mb_reg_set just done: what was asked for and reported
    seen            \* the message just sent: what went into it, and the object

vars == <<dev, words, data, taken, set, seen>>

IsReg == dev.type \in RegTypes
Start == [type |-> None, num |-> 0, sum |-> 0, min |-> 0, max |-> 0]

\* The measurement's name, and the one that follows it.
Name == <<1, 2, 3, 0>>
OtherName == <<1, 2, 0, 0>>
Other(v) == [type |-> "I64", num |-> 1, sum |-> v, min |-> v, max |-> v]

\* The slave writes its register itself.
Stored(v) == AppendValue(dev.type, dev.order, dev.words, Value32(v))

Init ==
    /\ dev \in Devices
    /\ words = IF dev.type \in RegTypes THEN Stored(0) ELSE <<>>
    /\ data = [Start EXCEPT !.type = IF dev.type \in RegTypes \ {"FLOAT"} THEN "I64" ELSE dev.type]
    /\ taken = <<>>
    /\ set = {}
    /\ seen = {}

\* What the register stands for.
Held == Reading(dev.type, RegData(dev.type, words, dev.order, dev.words))

Slave(v) ==
    /\ IsReg
    /\ words' = Stored(v)
    /\ set' = {} /\ seen' = {}
    /\ UNCHANGED <<dev, data, taken>>

\* mb_reg_set with a slave that does as it is told.
SetReg(v) ==
    /\ IsReg
    /\ LET bytes == AppendValue(dev.type, dev.order, dev.words, Value32(v))
       IN  /\ words' = bytes
           /\ set' = {[asked |-> v,
                       ok |-> Acknowledged(dev.type, bytes) = Expected(dev.type, v)]}
    /\ seen' = {}
    /\ UNCHANGED <<dev, data, taken>>

\* _measurements_sample_proc_i64, _float and _str.
Proc(d, v) ==
    IF d.type = "STR" THEN [d EXCEPT !.num = @ + 1, !.sum = v]
    ELSE IF d.num = 0 THEN [d EXCEPT !.num = 1, !.sum = v, !.min = v, !.max = v]
    ELSE [d EXCEPT !.num = @ + 1, !.sum = @ + v, !.min = IF v < @ THEN v ELSE @,
                   !.max = IF v > @ THEN v ELSE @]

\* There may be more samples than the samplecount: it may have been lowered
\* since the interval began, or the send held up by a download of firmware.
Sample(v) ==
    /\ Len(taken) < MaxSamples
    /\ IsReg => v = Held
    /\ data' = Proc(data, v)
    /\ taken' = Append(taken, v)
    /\ set' = {} /\ seen' = {}
    /\ UNCHANGED <<dev, words>>

Measurements(o) == <<[name |-> Name, count |-> dev.samplecount, data |-> data],
                     [name |-> OtherName, count |-> 1, data |-> Other(o)]>>

HexMessage(ms) ==
    FoldLeft(LAMBDA buf, m : HexAppend(buf, HexMeasurement(m.name, m.count, m.data)),
             HexStart, ms)
JsonMessage(ms) ==
    FoldLeft(LAMBDA msg, m : JsonAppend(msg, JsonMeasurement(SelectSeq(m.name, LAMBDA c : c # 0), m.data)),
             {}, ms)

Send(o) ==
    /\ data.num > 0
    /\ seen' = {[dev |-> dev, taken |-> taken, other |-> o,
                 object |-> IF dev.protocol = "hex" THEN Decode(HexMessage(Measurements(o)))
                                                    ELSE JsonMessage(Measurements(o))]}
    /\ data' = [Start EXCEPT !.type = data.type]
    /\ taken' = <<>>
    /\ set' = {}
    /\ UNCHANGED <<dev, words>>

\* The command samplecount.
SetSamplecount(n) ==
    /\ dev' = [dev EXCEPT !.samplecount = n]
    /\ n # dev.samplecount
    /\ set' = {} /\ seen' = {}
    /\ UNCHANGED <<words, data, taken>>

Next ==
    \/ \E v \in Value(dev.type) : Slave(v) \/ SetReg(v) \/ Sample(v)
    \/ \E o \in Value("other") : Send(o)
    \/ \E n \in 1..MaxSamples : SetSamplecount(n)

Spec == Init /\ [][Next]_vars
-----------------------------------------------------------------------------
TypeOK ==
    /\ dev.samplecount \in 1..MaxSamples
    /\ IsReg => words \in [1..(2 * RegWords(dev.type)) -> 0..(Base - 1)]
    /\ data.num = Len(taken)
    /\ taken \in Seq(Value(dev.type)) /\ Len(taken) <= MaxSamples
    /\ set \subseteq [asked : Value(dev.type), ok : BOOLEAN]

Fits(type, v) ==
    CASE type = "U16" -> v \in 0..Most(2)
      [] type = "I16" -> v \in (-MostInt(2) - 1)..MostInt(2)
      [] OTHER -> TRUE

\* What mb_reg_set reports as successfully set is what the register now stands
\* for, as the device's own reading of it shows, in every order of bytes and
\* words; what does not fit one word is cut, and reported all the same.
SetIsExact ==
    \A s \in set : s.ok /\ Fits(dev.type, s.asked) => Held = s.asked

\* A write the slave has done and acknowledged is not reported as failed; in
\* the order LSB a single word is compared with its bytes exchanged, so that
\* only one with two equal bytes is recognised.
SetIsBelieved ==
    \A s \in set :
        \/ s.ok
        \/ dev.order = "LSB" /\ RegWords(dev.type) = 1 /\ words[1] # words[2]

\* The numbers that are reported as others.  cs_protocol.js knows -128 as 128
\* and no number beyond 32 bits with their sign; the text of jsonblob.c has no
\* sign between -1 and 0, and cuts a single I64 to 32 bits.
Misread(protocol, type, v) ==
    IF protocol = "hex"
    THEN type = "I64" /\ (v = -MostInt(1) - 1 \/ v \notin (-MostInt(4) - 1)..MostInt(4))
    ELSE \/ type = "FLOAT" /\ -Thousand < v /\ v < 0
         \/ type = "I64" /\ v \notin (-MostInt(4) - 1)..MostInt(4)

Total(s) == FoldLeft(+, 0, s)
Truth(part, s) ==
    CASE part = "mean" -> Over(Total(s), Len(s))
      [] part = "min" -> Min(ToSet(s))
      [] part = "max" -> Max(ToSet(s))

\* A text is sent as its first StrLen characters.
SameText(sent, got) == \A i \in 1..Len(got) : got[i] = IF i <= Len(sent) THEN sent[i] ELSE 0

\* What the server makes of a message is the mean, the least and the most of
\* what was sampled in the interval, or the text, as the device saw it, and no
\* measurement is there by half; save for the numbers above, for several samples
\* that hexblob.c sends as one, their sum, because the samplecount is 1,
\* and for its messages with a text whose samplecount is not 1, which is sent
\* without the three values its header promises.
ServerSees ==
    \A s \in seen :
        LET mine   == {m \in s.object : m.name = <<1, 2, 3>>}
            hex    == s.dev.protocol = "hex"
            single == s.dev.samplecount = 1
            text   == s.dev.type = "STR"
        IN  \/ hex /\ text /\ ~single
            \/ /\ {m.part : m \in mine} \in {{}, {"mean"}, {"mean", "min", "max"}}
               /\ \A m \in mine :
                    IF text THEN SameText(Last(s.taken), m.value)
                    ELSE LET v == Truth(m.part, s.taken)
                         IN  \/ m.value = <<v>>
                             \/ Misread(s.dev.protocol, data.type, v)
                             \/ hex /\ single /\ Len(s.taken) > 1
               /\ \A m \in s.object \ mine :
                    m.value = <<s.other>> \/ Misread(s.dev.protocol, "I64", s.other)
=============================================================================
