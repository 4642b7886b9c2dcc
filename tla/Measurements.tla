---------------------------- MODULE Measurements ----------------------------
(***************************************************************************)
(* How src/core/measurements.c reports: each transmit interval the         *)
(* measurements that are due are put into a message, in as many fragments  *)
(* as it takes, and the acknowledgement of a fragment calls acked_cb of    *)
(* what it carried and sends the next.  One measurement is the pulse       *)
(* counter of src/ports/stm/pulsecount.c, whose count is only lowered by   *)
(* what has been acknowledged.  The comms module below is what all of them *)
(* promise: it is down, idle or busy with one message.                     *)
(*                                                                         *)
(* Slots are 0 .. N - 1, as in the code, and every samplecount is 1.  How   *)
(* many measurements fit a message depends on their sizes and on the data  *)
(* rate: here, any number from one on.                                     *)
(***************************************************************************)
EXTENDS Integers

CONSTANTS
    N,            \* OSM_MEASUREMENTS_MAX_NUMBER
    Interval,     \* def->interval of each slot, 0 when it is off
    Cycle,        \* _interval_count is kept modulo this common multiple
    Pulses,       \* the slot of the pulse counter
    MaxPulses,    \* bound: pulses that are counted
    ReportFaults, \* what else may happen, see below
    Nothing

(* slow: an answer may take longer than half an interval; nack: a message  *)
(* may be refused; silent: comms may go down without a word about the      *)
(* message; sendfail: osm_protocol_send may fail; fw: comms may be         *)
(* receiving firmware; noread: a measurement may be due without a reading; *)
(* instant: a GPIO may be reported at once; peek: get_meas may read the    *)
(* counter.                                                                *)
AllReportFaults == {"slow", "nack", "silent", "sendfail", "fw", "noread",
                    "instant", "peek"}

Slot == 0 .. N - 1

ASSUME MeasurementsAssumption ==
    /\ N \in Nat \ {0} /\ Cycle \in Nat \ {0}
    /\ Interval \in [Slot -> Nat]
    /\ Pulses \in Slot /\ MaxPulses \in Nat
    /\ ReportFaults \subseteq AllReportFaults
    /\ Nothing \notin Nat
    /\ Nothing \notin [slots : SUBSET Slot, pulses : Nat]

VARIABLES
    age,         \* now - _last_sent_ms: 0, 1 (over a quarter of it), 2 (over
                 \* INTERVAL_TRANSMIT_MS)
    pending,     \* _pending_send
    count,       \* _interval_count
    start,       \* _measurements_chunk_start_pos
    prev,        \* _measurements_chunk_prev_start_pos
    reading,     \* data->value.sum of each slot, Nothing if num_samples = 0
    noticed,     \* has_printed_no_con of osm_measurements_loop_iteration
    comms,       \* "down", "idle" or "busy"
    flight,      \* the message comms is busy with, or Nothing
    pulse,       \* instance->count
    send_count,  \* instance->send_count
    total,       \* the pulses there have been
    delivered    \* those in the messages that have arrived, up to MaxPulses

sendVars  == <<age, pending, count, start, prev, reading>>
pulseVars == <<pulse, send_count, total>>
reportVars == <<age, pending, count, start, prev, reading, noticed, comms,
                flight, pulse, send_count, total, delivered>>

ReportInit ==
    /\ age = 0 /\ pending = FALSE /\ count = 0
    /\ start = 0 /\ prev = 0
    /\ reading = [i \in Slot |-> Nothing]
    /\ noticed = FALSE
    /\ comms = "down" /\ flight = Nothing
    /\ pulse = 0 /\ send_count = 0 /\ total = 0 /\ delivered = 0

Connected == comms # "down"
SendReady == comms = "idle"
-----------------------------------------------------------------------------
(* _measurements_send at interval n.                                       *)

Due(i, n) == Interval[i] # 0 /\ n % Interval[i] = 0

\* What there is to send of the slots p .. e - 1.
Wanted(p, e, n) ==
    {i \in Slot : p <= i /\ i < e /\ Due(i, n) /\ reading[i] # Nothing}

\* Where a message that starts at p may end: past the last slot, or at the
\* first measurement it has no room for.
Ends(p, n) == {N} \cup {e \in Wanted(p, N, n) : Wanted(p, e, n) # {}}

Message(q) == [slots |-> q,
               pulses |-> IF Pulses \in q THEN reading[Pulses] ELSE 0]

\* _measurements_reset_send: comms is reset, the message it had is lost.
ResetSend ==
    /\ comms' = "down" /\ flight' = Nothing
    /\ start' = 0 /\ prev' = 0 /\ pending' = FALSE

\* comms is busy: the send is put off, or comms is reset if it was put off
\* before.
SendNotReady ==
    /\ ~SendReady
    /\ \/ /\ "fw" \in ReportFaults        \* osm_protocol_send_allowed()
          /\ UNCHANGED <<age, pending, start, prev, comms, flight>>
       \/ /\ ~pending
          /\ age' = 0 /\ pending' = TRUE
          /\ UNCHANGED <<start, prev, comms, flight>>
       \/ /\ pending /\ age > 0       \* over INTERVAL_TRANSMIT_MS/4
          /\ ResetSend /\ UNCHANGED age
    /\ UNCHANGED reading

\* Where a send goes on from.
From == IF start = N THEN 0 ELSE start

\* Mutant: the next fragment starts after the one that did not fit.
RememberNext(end) == prev' = From /\ start' = IF end = N THEN N ELSE end + 1

\* The fragment, for its acknowledgement and for the one after it.
Remember(end) == prev' = From /\ start' = end

\* comms is ready, as it also is when it calls osm_on_protocol_sent_ack.
SendMessage(n) ==
    \E end \in Ends(From, n) :
    LET q == Wanted(From, end, n)
    IN  /\ reading' = [i \in Slot |-> IF i \in q THEN Nothing ELSE reading[i]]
        /\ age' = IF pending THEN age ELSE 0
        /\ \/ /\ q = {}
              /\ Remember(end)
              /\ comms' = "idle" /\ flight' = Nothing
              /\ UNCHANGED pending
           \/ /\ q # {}
              /\ Remember(end)
              /\ pending' = (end # N)
              /\ comms' = "busy" /\ flight' = Message(q)
           \/ /\ q # {} /\ "sendfail" \in ReportFaults
              /\ ResetSend
-----------------------------------------------------------------------------
(* osm_measurements_loop_iteration.                                        *)

\* Mutant: the send underway is not forgotten.
LoopOfflineKeepsPending ==
    /\ ~Connected /\ ~noticed
    /\ noticed' = TRUE
    /\ start' = 0 /\ prev' = 0
    /\ UNCHANGED <<age, pending, count, reading, comms, flight, pulseVars,
                   delivered>>

\* Not connected: a send underway is forgotten, readings stop ...
LoopOffline ==
    /\ ~Connected /\ ~noticed
    /\ noticed' = TRUE
    /\ start' = 0 /\ prev' = 0 /\ pending' = FALSE
    /\ UNCHANGED <<age, count, reading, comms, flight, pulseVars, delivered>>

\* ... until it is again.
LoopOnline ==
    /\ Connected /\ noticed
    /\ noticed' = FALSE
    /\ age' = 0
    /\ UNCHANGED <<pending, count, start, prev, reading, comms, flight,
                   pulseVars, delivered>>

Running == Connected /\ ~noticed

\* Half of slot i's own interval may have passed since it was last due: age 0
\* is up to a quarter of an interval, 1 up to a whole one, 2 any time after it.
HalfOver(i) ==
    \/ age = 2
    \/ 2 * ((count % Interval[i]) + age) >= Interval[i] + age

\* _measurements_sample: the reading of slot i is collected.
Collect(i) ==
    /\ Running
    /\ Interval[i] # 0 /\ reading[i] = Nothing
    /\ HalfOver(i)
    /\ reading' = [reading EXCEPT ![i] = IF i = Pulses THEN pulse ELSE 0]
    /\ send_count' = IF i = Pulses THEN pulse ELSE send_count
    /\ UNCHANGED <<age, pending, count, start, prev, noticed, comms, flight,
                   pulse, total, delivered>>

NextCount == (count + 1) % Cycle

\* The interval is over.
LoopSend ==
    /\ Running
    /\ age = 2
    /\ count' = NextCount
    /\ IF SendReady THEN SendMessage(count') ELSE SendNotReady
    /\ UNCHANGED <<noticed, pulseVars, delivered>>

\* _measurements_check_instant_send: slot i is reported at once, except
\* between the fragments of a message and shortly before the next.
InstantSend(i) ==
    /\ "instant" \in ReportFaults
    /\ Running /\ SendReady
    /\ i # Pulses /\ Interval[i] # 0
    /\ start \in {0, N} /\ age # 2
    /\ comms' = "busy" /\ flight' = [slots |-> {i}, pulses |-> 0]
    /\ UNCHANGED <<sendVars, noticed, pulseVars, delivered>>
-----------------------------------------------------------------------------
(* osm_on_protocol_sent_ack.                                               *)

\* Mutant: an acknowledgement is taken for all that is left.
AckEndLast == N

\* The slots whose acked_cb is called.
AckEnd == IF start = 0 THEN N ELSE start
Acked == {i \in Slot : prev <= i /\ i < AckEnd /\ Due(i, count)}

\* Mutant: pulses counted since the reading are cleared too.
PulseAckClears == pulse' = 0 /\ send_count' = 0

\* _pulsecount_ack
PulseAck == /\ pulse' = pulse - send_count
            /\ send_count' = 0

Arrived == IF delivered + flight.pulses > MaxPulses
           THEN MaxPulses ELSE delivered + flight.pulses

SentAck ==
    /\ flight # Nothing
    /\ delivered' = Arrived
    /\ IF Pulses \in Acked THEN PulseAck ELSE UNCHANGED <<pulse, send_count>>
    /\ IF pending
       THEN SendMessage(count)
       ELSE /\ start' = 0 /\ prev' = 0
            /\ comms' = "idle" /\ flight' = Nothing
            /\ UNCHANGED <<age, pending, reading>>
    /\ UNCHANGED <<count, noticed, total>>

\* Mutant: the send underway is not forgotten.
SentNackKeepsPending ==
    /\ "nack" \in ReportFaults
    /\ flight # Nothing
    /\ delivered' \in {delivered, Arrived}
    /\ start' = 0 /\ prev' = 0
    /\ comms' \in {"idle", "down"} /\ flight' = Nothing
    /\ UNCHANGED <<age, pending, count, reading, noticed, pulseVars>>

\* No acknowledgement has come: the message, or only its acknowledgement, was
\* lost.
SentNack ==
    /\ "nack" \in ReportFaults
    /\ flight # Nothing
    /\ delivered' \in {delivered, Arrived}
    /\ start' = 0 /\ prev' = 0 /\ pending' = FALSE
    /\ comms' \in {"idle", "down"} /\ flight' = Nothing
    /\ UNCHANGED <<age, count, reading, noticed, pulseVars>>
-----------------------------------------------------------------------------
(* What happens around it.                                                 *)

\* comms loses its network, or resets, without a word about its message.
Down ==
    /\ "silent" \in ReportFaults
    /\ Connected
    /\ comms' = "down" /\ flight' = Nothing
    /\ UNCHANGED <<sendVars, noticed, pulseVars, delivered>>

\* It takes longer than a turn of the main loop to connect.
Up ==
    /\ comms = "down" /\ noticed
    /\ comms' = "idle"
    /\ UNCHANGED <<sendVars, noticed, flight, pulseVars, delivered>>

\* _pulsecount_count_pulse, from the debounce timer's interrupt.
Pulse ==
    /\ total < MaxPulses
    /\ total' = total + 1 /\ pulse' = pulse + 1
    /\ UNCHANGED <<sendVars, noticed, comms, flight, send_count, delivered>>

\* _pulsecount_get on behalf of the get_meas command.
GetMeas ==
    /\ "peek" \in ReportFaults
    /\ send_count' = pulse
    /\ UNCHANGED <<sendVars, noticed, comms, flight, pulse, total, delivered>>

\* The clock.  An answer takes less than a quarter of the interval, unless
\* "slow", and what is due has been collected by its end, unless "noread".
Age ==
    /\ Running
    /\ age < 2
    /\ "slow" \in ReportFaults \/ flight = Nothing
    /\ age = 1 /\ "noread" \notin ReportFaults =>
           \A i \in Slot : Due(i, NextCount) => reading[i] # Nothing
    /\ age' = age + 1
    /\ UNCHANGED <<pending, count, start, prev, reading, noticed, comms,
                   flight, pulseVars, delivered>>

Loop == \/ LoopOffline \/ LoopOnline \/ LoopSend
        \/ \E i \in Slot : Collect(i)
CommsAnswer == SentAck \/ SentNack

ReportNext ==
    \/ Loop \/ CommsAnswer \/ Down \/ Up \/ Pulse \/ GetMeas \/ Age
    \/ \E i \in Slot : InstantSend(i)

ReportSpec == ReportInit /\ [][ReportNext]_reportVars

\* The main loop runs for ever and samples each measurement, comms answers or
\* gives up every message and connects again, and time passes.
FairSpec == /\ ReportSpec
            /\ WF_reportVars(Loop) /\ WF_reportVars(CommsAnswer)
            /\ \A i \in Slot : WF_reportVars(Collect(i))
            /\ WF_reportVars(Up) /\ WF_reportVars(Age)
-----------------------------------------------------------------------------
(* Properties.                                                             *)

ReportTypeOK ==
    /\ age \in 0 .. 2 /\ pending \in BOOLEAN /\ count \in 0 .. Cycle - 1
    /\ start \in 0 .. N /\ prev \in 0 .. N
    /\ reading \in [Slot -> 0 .. MaxPulses \cup {Nothing}]
    /\ noticed \in BOOLEAN
    /\ comms \in {"down", "idle", "busy"}
    /\ flight \in {Nothing} \cup [slots : SUBSET Slot, pulses : 0 .. MaxPulses]
    /\ (flight # Nothing) = (comms = "busy")
    /\ pulse \in 0 .. MaxPulses /\ send_count \in 0 .. MaxPulses
    /\ total \in 0 .. MaxPulses /\ delivered \in 0 .. MaxPulses

\* Every pulse is still counted on the device or has been delivered, whatever
\* is refused, lost or forgotten: _pulsecount_ack takes off the count only
\* what an acknowledged message carried.
NoPulseLost == total <= delivered + pulse

\* osm_on_protocol_sent_ack calls acked_cb of exactly the measurements that
\* the acknowledged message carried, in whichever fragment they are.
AckIsExact == flight # Nothing => Acked = flight.slots

\* While a send has not ended, one of its fragments is with comms, so that
\* something will call osm_on_protocol_sent_ack to send the rest.
PendingIsBusy == pending /\ Running => flight # Nothing

\* Each interval is counted once: the loop that counts it starts the next.
CountsOnce == [][count' # count => age' = 0]_reportVars

\* A send ends, or is given up, however comms behaves.
SendEnds == pending ~> ~pending
=============================================================================
