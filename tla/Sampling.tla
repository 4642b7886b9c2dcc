------------------------------ MODULE Sampling ------------------------------
(***************************************************************************)
(* When src/core/measurements.c samples: each measurement is begun and     *)
(* collected samplecount times in an interval, at times that are worked    *)
(* out from the time since the last send, the number of samples begun and  *)
(* the number collected, and _measurements_sample only runs again once     *)
(* the least of the waits it worked out is over.                           *)
(*                                                                         *)
(* Times are in ticks, of which INTERVAL_TRANSMIT_MS has T; a turn of the  *)
(* main loop takes one.  A difference of times that is below zero is, in   *)
(* 32 bits, some 49 days: Huge.  What the measurements are and how they    *)
(* are put into messages is in Tables and Measurements.                    *)
(***************************************************************************)
EXTENDS Integers, FiniteSetsExt

CONSTANTS
    T,              \* INTERVAL_TRANSMIT_MS
    N,              \* OSM_MEASUREMENTS_MAX_NUMBER
    Tables,         \* definitions there may be, each a function on 1 .. N
    CounterMod,     \* 2^7, of num_samples_init and num_samples_collected
    MaxLate,        \* ticks the main loop may be held up
    Huge,           \* a wait that does not end
    Faults,         \* what else may happen
    MaxFaults       \* how often

(* late: the main loop is held up, as by the wait of a command; begin: a   *)
(* sensor fails to begin; read: it fails to read; busy: it is busy at one  *)
(* or the other; iterate: its iteration_cb fails; down: the connection is  *)
(* lost for a time; notready: comms is busy at the send, which is put off  *)
(* until an acknowledgement or the next interval; fw: comms receives       *)
(* firmware for a time; recount: the command samplecount.                  *)
AllFaults == {"late", "begin", "busy", "read", "iterate", "down", "notready", "fw", "recount"}

Measurement == 1..N

\* The interval counter runs without end; the model counts it modulo a multiple
\* of every interval there is.
Cycle == 2
Definition ==
    [interval : 1..Cycle, samples : Nat \ {0}, takes : Nat, immediate : BOOLEAN]

ASSUME SamplingAssumption ==
    /\ T \in Nat \ {0} /\ N \in Nat \ {0} /\ CounterMod \in Nat \ {0}
    /\ Tables \subseteq [Measurement -> Definition]
    /\ MaxLate \in Nat /\ MaxFaults \in Nat
    /\ Huge \in Nat /\ Huge > 4 * CounterMod * T
    /\ Faults \subseteq AllFaults

VARIABLES
    def,            \* interval, samplecount, collection time, is_immediate
    data,           \* osm_measurements_data_t
    since,          \* now - _last_sent_ms
    checked,        \* now - _check_time.last_checked_time
    wait,           \* _check_time.wait_time
    count,          \* _interval_count, modulo a multiple of the intervals
    link,           \* "up", "down", or "fw": up and receiving firmware
    noticed,        \* has_printed_no_con
    pending,        \* a send that waits for an acknowledgement
    faults          \* faults left, and those there were

vars == <<def, data, since, checked, wait, count, link, noticed, pending, faults>>

Fresh(d) == [inits |-> 0, collected |-> 0, samples |-> 0, collecting |-> FALSE,
             cache |-> d.takes, age |-> 0, given |-> d.takes, sent |-> d.samples]

Init ==
    /\ def \in Tables
    /\ data = [i \in Measurement |-> Fresh(def[i])]
    /\ since = 0 /\ checked = 0 /\ wait = 0 /\ count = 0
    /\ link = "down" /\ noticed = FALSE /\ pending = FALSE
    /\ faults = [left |-> MaxFaults, had |-> {}]

Had(fs) == faults.had \cap fs # {}
Fault(f) ==
    /\ f \in Faults /\ faults.left > 0
    /\ faults' = [left |-> faults.left - 1, had |-> faults.had \cup {f}]
FaultIf(b, f) == IF b THEN Fault(f) ELSE UNCHANGED faults
-----------------------------------------------------------------------------
(* _measurements_sample.                                                   *)

Delta(newer, older) == IF newer < older THEN Huge ELSE newer - older
Up(n) == (n + 1) % CounterMod

Begun(s) == [s EXCEPT !.inits = Up(@), !.collecting = TRUE, !.age = 0]
Skipped(s) == [s EXCEPT !.inits = Up(@), !.collected = Up(@)]

\* _measurements_sample_init_iteration, with what init_cb says.
InitIteration(s, resp) ==
    IF s.collecting THEN Skipped(s)
    ELSE CASE resp = "SUCCESS" -> Begun(s) [] resp = "ERROR" -> Skipped(s) [] resp = "BUSY" -> s

\* Mutant: a sensor that fails stays being collected.
GetKeeps(d, s, resp) ==
    CASE resp = "SUCCESS" -> [s EXCEPT !.collected = Up(@), !.samples = Up(@),
                                       !.collecting = FALSE, !.cache = d.takes, !.given = s.age]
      [] resp = "ERROR" -> [s EXCEPT !.collected = Up(@)]
      [] resp = "BUSY" -> s

\* _measurements_sample_get_iteration, with what get_cb says.
GetIteration(d, s, resp) ==
    LET r == [s EXCEPT !.collecting = FALSE]
    IN  CASE resp = "SUCCESS" -> [r EXCEPT !.collected = Up(@), !.samples = Up(@),
                                           !.cache = d.takes, !.given = r.age]
          [] resp = "ERROR" -> [r EXCEPT !.collected = Up(@)]
          [] resp = "BUSY" -> r

\* The times of one measurement.
Interval(d) == (d.interval * T) \div d.samples
Offset(d) == IF d.immediate /\ d.samples = 1 THEN Interval(d) - 1 ELSE Interval(d) \div 2
Boundary(d, s) == s.inits * Interval(d) + Offset(d)
CollectAt(d, s) == s.collected * Interval(d) + Offset(d)
Time(d, t, c) == t + (c % d.interval) * T

\* A collection time that does not fit before the boundary is shortened.
Shortened(d, s) == [s EXCEPT !.cache = IF Boundary(d, s) < @ THEN Boundary(d, s) ELSE @]

\* A sample is begun when its time has come; what was not collected by then is
\* given up.
BeginPart(d, s, t, resp) ==
    LET init  == Boundary(d, s) - s.cache
        given == IF s.collected < s.inits THEN [s EXCEPT !.collected = Up(@)] ELSE s
        done  == InitIteration(given, resp)
    IN  IF t < init THEN [data |-> s, wait |-> Delta(init, t)]
        ELSE [data |-> done,
              wait |-> IF ~s.collecting /\ resp = "BUSY" THEN 0 ELSE Delta(s.cache + init, t)]

\* One that has been begun is collected at the boundary, collect, of before.
CollectPart(d, was, t, collect, resp) ==
    LET s == was.data
        r == GetIteration(d, s, resp)
    IN  CASE s.collected = s.inits -> was
          [] s.collected + 1 = s.inits ->
                IF t < collect THEN [data |-> s, wait |-> Delta(collect, t)]
                ELSE [data |-> r,
                      wait |-> IF resp = "BUSY" THEN 0
                               ELSE Delta(collect + Interval(d), r.cache + t)]
          [] OTHER -> [was EXCEPT !.data.collected = s.inits]

SampleOne(d, s, t, begin, read) ==
    LET was == BeginPart(d, Shortened(d, s), t, begin)
        now == CollectPart(d, was, t, CollectAt(d, s), read)
    IN  [data |-> now.data, wait |-> Min({was.wait, now.wait})]
-----------------------------------------------------------------------------
(* osm_measurements_loop_iteration.                                        *)

\* _measurements_iterate_callbacks: a failing one spends a sample each turn.
Iterated(s) == [Skipped(s) EXCEPT !.collecting = FALSE]
Active(s) == s.inits > s.collected

\* Mutant: only the number of samples starts again.
ResetSamples(s) == [s EXCEPT !.samples = 0, !.sent = s.samples]

\* _measurements_send of what is due: every counter of it starts again.
Due(i, c) == c % def[i].interval = 0
Reset(s) == [s EXCEPT !.inits = 0, !.collected = 0, !.samples = 0, !.sent = s.samples]
SendAll(ds, c) == [i \in Measurement |-> IF Due(i, c) THEN Reset(ds[i]) ELSE ds[i]]

Older(ds, k) == [i \in Measurement |-> [ds[i] EXCEPT !.age = Min({@ + k, def[i].takes})]]

\* The sensors answer as they should, but for one that fails.
Answers(b, r) ==
    [i \in Measurement |-> [begin |-> IF b.who = i THEN b.resp ELSE "SUCCESS",
                            read |-> IF r.who = i THEN r.resp ELSE "SUCCESS"]]
NoOne == [who |-> 0, resp |-> "SUCCESS"]
Answer == [who : Measurement, resp : {"ERROR", "BUSY"}]

Sampled(k, answers) ==
    [i \in Measurement |->
        SampleOne(def[i], Older(data, k)[i], Time(def[i], since + k, count),
                  answers[i].begin, answers[i].read)]

\* Mutant: the wait of the last measurement counts.
PassedLast(all) ==
    [data |-> [i \in Measurement |-> all[i].data], wait |-> all[N].wait, checked |-> 0]

\* A pass over all the measurements: the least wait counts.
Passed(all) ==
    [data |-> [i \in Measurement |-> all[i].data],
     wait |-> Min({all[i].wait : i \in Measurement}), checked |-> 0]

\* Data, wait and checked after the check of the time, k ticks on.
Check(k, answers) ==
    IF checked + k <= wait
    THEN [data |-> Older(data, k), wait |-> wait, checked |-> Min({checked + k, Huge - 1})]
    ELSE Passed(Sampled(k, answers))

Connected == link # "down"

\* The send at the end of an interval, and what comms makes of it.
Send(ds, t, ready) ==
    IF t <= T
    THEN data' = ds /\ since' = t /\ UNCHANGED <<count, pending>>
    ELSE /\ count' = (count + 1) % Cycle
         /\ CASE link = "fw" -> data' = ds /\ since' = t /\ UNCHANGED pending
              [] link = "up" /\ ready -> data' = SendAll(ds, count') /\ since' = 0 /\ pending' = FALSE
              [] link = "up" /\ ~ready -> data' = ds /\ since' = 0 /\ pending' = TRUE

Turn(k, answers, ready) ==
    /\ Connected /\ ~noticed
    /\ \E now \in {Check(k, answers)} :
        /\ wait' = now.wait /\ checked' = now.checked
        /\ Send(now.data, since + k, ready)
    /\ UNCHANGED <<def, link, noticed>>

Fair == Turn(1, Answers(NoOne, NoOne), TRUE) /\ UNCHANGED faults

Late == \E k \in 2..MaxLate : Turn(k, Answers(NoOne, NoOne), TRUE) /\ Fault("late")

Failure(a, f) == Fault(IF a.resp = "BUSY" THEN "busy" ELSE f)
BeginFails ==
    /\ checked + 1 > wait
    /\ \E b \in Answer : Turn(1, Answers(b, NoOne), TRUE) /\ Failure(b, "begin")
ReadFails ==
    /\ checked + 1 > wait
    /\ \E r \in Answer : Turn(1, Answers(NoOne, r), TRUE) /\ Failure(r, "read")
NotReady == since + 1 > T /\ link = "up" /\ Turn(1, Answers(NoOne, NoOne), FALSE) /\ Fault("notready")

\* A sensor whose iteration_cb fails, for one turn.
IterateFails ==
    /\ \E i \in Measurement : Active(data[i]) /\ data' = [data EXCEPT ![i] = Iterated(@)]
    /\ Fault("iterate")
    /\ UNCHANGED <<def, since, checked, wait, count, link, noticed, pending>>

\* The turns without a connection, and the one after them.
Unconnected ==
    /\ ~Connected /\ ~noticed
    /\ noticed' = TRUE /\ pending' = FALSE
    /\ UNCHANGED <<def, data, since, checked, wait, count, link, faults>>
Reconnected ==
    /\ Connected /\ noticed
    /\ noticed' = FALSE /\ since' = 0
    /\ checked' = Min({checked + MaxLate, Huge - 1})
    /\ UNCHANGED <<def, data, wait, count, link, pending, faults>>

\* The acknowledgement after a send that was put off: what is due is sent now.
Acked ==
    /\ pending /\ link = "up" /\ ~noticed
    /\ data' = SendAll(data, count) /\ pending' = FALSE
    /\ UNCHANGED <<def, since, checked, wait, count, link, noticed, faults>>

Link ==
    /\ \/ link = "down" /\ noticed /\ link' = "up" /\ UNCHANGED faults
       \/ link = "up" /\ ~noticed /\ link' = "down" /\ Fault("down")
       \/ link = "up" /\ ~noticed /\ link' = "fw" /\ Fault("fw")
       \/ link = "fw" /\ link' = "up" /\ UNCHANGED faults
    /\ UNCHANGED <<def, data, since, checked, wait, count, noticed, pending>>

\* The command samplecount.
Recount ==
    /\ \E i \in Measurement, n \in 1..2 :
            n # def[i].samples /\ def' = [def EXCEPT ![i].samples = n]
    /\ Fault("recount")
    /\ UNCHANGED <<data, since, checked, wait, count, link, noticed, pending>>

\* Receiving firmware ends within two intervals.
Bound == link = "fw" => since < 2 * T

Next ==
    \/ Bound /\ (Fair \/ Late \/ BeginFails \/ ReadFails \/ NotReady)
    \/ IterateFails \/ Unconnected \/ Reconnected \/ Acked \/ Link \/ Recount

Fairness == WF_vars(Bound /\ Fair) /\ WF_vars(Unconnected) /\ WF_vars(Reconnected) /\ WF_vars(Link /\ UNCHANGED faults)

Spec == Init /\ [][Next]_vars /\ Fairness
-----------------------------------------------------------------------------
TypeOK ==
    /\ \A i \in Measurement :
        /\ data[i].inits \in 0..(CounterMod - 1) /\ data[i].collected \in 0..(CounterMod - 1)
        /\ data[i].samples \in 0..(CounterMod - 1) /\ data[i].cache \in 0..def[i].takes
    /\ since \in 0..(2 * T + MaxLate) /\ checked \in 0..Huge /\ wait \in 0..Huge

\* A measurement whose samples its counters can count, and whose collection
\* time, with what the division of the interval leaves over, leaves room: else
\* one more is begun before the end of the interval.
LeftOver(d) == (d.interval * T) % d.samples
SoundDef(d) == d.samples < CounterMod /\ d.takes + 1 + LeftOver(d) < Interval(d) \div 2
Sound(i) == SoundDef(def[i])

\* A measurement that is being collected will be: a send, which starts its
\* counters again but leaves is_collecting, does not come in between.  It does
\* when it is held up or put off, the samplecount is changed, or a failing
\* iteration_cb spends the counters, and the measurement is never begun again.
NotLocked ==
    ~Had(AllFaults \ {"begin", "busy", "read", "down"}) =>
        \A i \in Measurement : Sound(i) /\ data[i].collecting => Active(data[i])

\* A sensor is read no sooner after it was begun than it said it takes, but for
\* the one turn that it may have been begun late.  The time of the reading does
\* not move when the beginning does.
HadItsTime ==
    ~Had(AllFaults \ {"begin", "read", "down"}) =>
        \A i \in Measurement : Sound(i) => data[i].given >= def[i].takes - 1

\* Every sample of an interval is in its report: begun, collected and counted
\* before the send at its end, in every interval and not twice in any.
AllSampled ==
    ~Had(AllFaults \ {"down"}) => \A i \in Measurement : Sound(i) => data[i].sent = def[i].samples

\* Every sample of an interval has the time its sensor needs and is in the
\* interval's report, and the counters that say so keep to their range.
SamplesAreReported == TypeOK /\ HadItsTime /\ AllSampled

\* Sampling and sending go on, whatever fails, unless the main loop or a send was
\* held up.  Then all the waits may be worked out from times that have passed
\* already, and the next check comes when the clock has come round.  One is too
\* when a sensor without a collection time fails to begin, or when a send that
\* was put off is acknowledged later than the first sample of the interval; that
\* of another measurement, which there is in the tables here, then ends first.
HeldUp == Had({"late", "fw"})
SamplingGoesOn ==
    \A i \in Measurement :
        []<>(HeldUp \/ data[i].inits # 0) /\ []<>(data[i].inits = 0)
=============================================================================
