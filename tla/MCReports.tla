----------------------------- MODULE MCReports ------------------------------
(***************************************************************************)
(* Reports: what a message says of what was measured (Values), and that it *)
(* is sent or given up when answers are late, missing or those of other    *)
(* messages (Measurements with all its faults).  Each abstracts from the   *)
(* other, so that a behaviour has one of the two.                          *)
(***************************************************************************)
EXTENDS Values, TLC

CONSTANT NoMessage      \* None of Measurements, which is compared with numbers

VARIABLES
    part,           \* "values" or "sends"
    age, pending, count, start, prev, reading, noticed, comms, flight, pulse,
    send_count, total, delivered

OfSends == <<age, pending, count, start, prev, reading, noticed, comms, flight,
             pulse, send_count, total, delivered>>
-----------------------------------------------------------------------------
(* Bytes of four values: 16 bits end at 15, 32 bits at 255, and the values *)
(* are those at the limits of the types.                                   *)

Regs == [type : {"U16", "I16"}, order : {"MSB", "LSB"}, words : {"MSW"}]
    \cup [type : {"U32", "I32", "FLOAT"}, order : {"MSB", "LSB"}, words : {"MSW", "LSW"}]
Others == [type : {"I64", "STR"}, order : {None}, words : {None}]
AllDevices ==
    {[type |-> d.type, order |-> d.order, words |-> d.words, protocol |-> p, samplecount |-> 1] :
        d \in Regs \cup Others, p \in {"hex", "json"}}

ValuesOf(type) ==
    CASE type = "U16" -> {0, 1, 3, 4, 15, 16}
      [] type = "I16" -> {-8, -3, -2, -1, 0, 1, 2, 7, 8}
      [] type = "U32" -> {0, 15, 16, 127, 128, 255}
      [] type = "I32" -> {-128, -9, -8, -1, 0, 127}
      [] type = "FLOAT" -> {-60, -10, -9, -1, 0, 1, 25, 60}
      [] type = "I64" -> {-129, -128, -2, 0, 3, 15, 16, 255, 256}
      [] type = "STR" -> {<<>>, <<1>>, <<1, 2>>, <<1, 2, 3>>}
      [] type = "other" -> {-2, 300}
-----------------------------------------------------------------------------
(* Four measurements, reported every second or third interval or in each;  *)
(* the second of them counts pulses.                                       *)

Intervals == 0 :> 2 @@ 1 :> 1 @@ 2 :> 3 @@ 3 :> 1
SendFaults ==
    {"slow", "nack", "silent", "sendfail", "fw", "noread", "instant", "peek"}

M == INSTANCE Measurements WITH
        N <- 4, Interval <- Intervals, Cycle <- 6, Pulses <- 1, MaxPulses <- 1,
        ReportFaults <- SendFaults, Nothing <- NoMessage
-----------------------------------------------------------------------------
IsValues == part = "values"
IsSends == part = "sends"

\* A part that a behaviour is not about stays as it is.
NoValues == /\ dev = [type |-> None] /\ words = <<>> /\ data = <<>>
            /\ taken = <<>> /\ set = {} /\ seen = {}
NoSends == /\ age = 0 /\ pending = FALSE /\ count = 0 /\ start = 0 /\ prev = 0
           /\ reading = <<>> /\ noticed = FALSE /\ comms = "down"
           /\ flight = NoMessage /\ pulse = 0 /\ send_count = 0 /\ total = 0
           /\ delivered = 0

MCInit ==
    \/ IsValues /\ Init /\ NoSends
    \/ IsSends /\ M!ReportInit /\ NoValues

MCNext ==
    \/ IsValues /\ Next /\ UNCHANGED <<part, OfSends>>
    \/ IsSends /\ M!ReportNext /\ UNCHANGED <<part, vars>>

Fairness ==
    /\ WF_OfSends(IsSends /\ M!Loop)
    /\ WF_OfSends(IsSends /\ M!CommsAnswer)
    /\ \A i \in M!Slot : WF_OfSends(IsSends /\ M!Collect(i))
    /\ WF_OfSends(IsSends /\ M!Up)
    /\ WF_OfSends(IsSends /\ M!Age)

MCSpec == MCInit /\ [][MCNext]_<<part, vars, OfSends>> /\ Fairness
-----------------------------------------------------------------------------
\* A write is reported as it went, both ways, and the variables have their
\* types.
WriteIsReported ==
    /\ IsValues => TypeOK /\ SetIsExact /\ SetIsBelieved
    /\ IsSends => M!ReportTypeOK

\* A send ends, or is given up, however comms behaves.
SendEnds == (IsSends /\ pending) ~> ~pending
=============================================================================
