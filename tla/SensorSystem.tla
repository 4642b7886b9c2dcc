---------------------------- MODULE SensorSystem ----------------------------
(***************************************************************************)
(* A sensor's driver at work: the passes of _measurements_sample that      *)
(* begin and collect its samples, the callbacks between them, the command  *)
(* get_meas that takes one reading by itself while the main loop turns     *)
(* inside it, the chip, and what fails.                                    *)
(*                                                                         *)
(* The drivers share nothing with each other, so that a behaviour has one  *)
(* of them, chosen in Init.  Measurements of a chip have the same schedule *)
(* and are begun and collected in one pass; each is sampled once in an     *)
(* interval.  There is no time: a chip is done before its reading is       *)
(* wanted, and that it is not is the fault "slow".                         *)
(***************************************************************************)
EXTENDS Sensors, Functions

CONSTANTS
    Chips,          \* the drivers there may be, each with what is measured
    MaxFaults,      \* faults and commands in one behaviour
    Faults,         \* of them, those that may happen
    MaxRef          \* of hpm_use_ref

\* What each driver can measure.
NamesOf(chip) ==
    CASE chip = "hpm" -> HpmNames [] chip = "htu" -> HtuNames
      [] chip = "veml" -> {Light} [] chip = "ds" -> {Probe}
      [] chip = "sen" -> SenNames [] chip = "rs" -> {Serial}

Kinds == {"hpm", "htu", "veml", "ds", "sen", "rs"}

SensorSystemAssumption ==
    /\ MaxFaults \in Nat /\ MaxRef \in Nat
    /\ \A c \in Chips :
           /\ c.chip \in Kinds
           /\ \/ \E n \in NamesOf(c.chip) : c.measured = <<n>>
              \/ \E n, m \in NamesOf(c.chip) : n # m /\ c.measured = <<n, m>>

VARIABLES
    d,              \* the driver's state
    measured,       \* its measurements, in the order of their table
    sample,         \* of each: "todo", "open", "failed" or "over"
    busy,           \* those with is_collecting set
    cmd,            \* the measurement get_meas waits for, and where it is
    faults          \* faults left, and those there were

vars == <<d, measured, sample, busy, cmd, faults>>

NoCmd == [n |-> "none", at |-> "none"]
Names == Range(measured)
Open == {n \in Names : sample[n] = "open"}
Idle == cmd = NoCmd
Clean(s) == [s EXCEPT !.resp = "none", !.read = "none"]

StartOf(chip) ==
    CASE chip = "hpm" -> HpmStart [] chip = "htu" -> HtuStart
      [] chip = "veml" -> VemlStart [] chip = "ds" -> DsStart
      [] chip = "sen" -> SenStart [] chip = "rs" -> RsStart

Init ==
    \E c \in Chips :
        /\ d = StartOf(c.chip) /\ measured = c.measured
        /\ sample = [n \in Range(c.measured) |-> "todo"]
        /\ busy = {} /\ cmd = NoCmd
        /\ faults = [left |-> MaxFaults, had |-> {}]

Had(fs) == faults.had \cap fs # {}

Fault(f) ==
    /\ f \in Faults /\ faults.left > 0
    /\ faults' = [left |-> faults.left - 1, had |-> faults.had \cup {f}]

FaultIf(b, f) == IF b THEN Fault(f) ELSE UNCHANGED faults
-----------------------------------------------------------------------------
(* The callbacks of osm_measurements_inf_t.  "fine" and "late" stand for   *)
(* what the chip and the clock do.                                         *)

InitCb(s, n, fine, late) ==
    CASE s.kind = "hpm" -> HpmInit(s, n)
      [] s.kind = "htu" -> HtuInit(s, n)
      [] s.kind = "veml" -> VemlInit(s, fine, late)
      [] s.kind = "ds" -> DsInit(s, fine)
      [] s.kind = "sen" -> SenStartCb(s, fine, TRUE)
      [] s.kind = "rs" -> RsInit(s)

HasIteration(s) == s.kind \in {"htu", "veml"}

IterationCb(s, n, fine, bright, late) ==
    IF s.kind = "htu" THEN HtuIterate(s, n, fine) ELSE VemlIterate(s, fine, bright, late)

GetCb(s, n, fine, late) ==
    CASE s.kind = "hpm" -> HpmGet(s, n)
      [] s.kind = "htu" -> HtuGet(s, n)
      [] s.kind = "veml" -> VemlGet(s, late)
      [] s.kind = "ds" -> DsCollect(s, fine)
      [] s.kind = "sen" -> SenCollect(s, n)
      [] s.kind = "rs" -> RsCollect(s)

\* The chip has had the time that collection_time_cb asked for.
HadItsTime ==
    CASE d.kind = "hpm" -> d.age # "young"
      [] d.kind = "htu" -> HtuRests(d)
      [] d.kind = "ds" -> ~d.converting
      [] d.kind = "sen" -> d.active => d.fresh # {}
      [] d.kind = "rs" -> d.line = <<>>
      [] OTHER -> TRUE

\* The drivers that talk to their chip to begin a sample, and to collect it.
CanFail == d.kind \in {"veml", "ds", "sen"}
Fines == IF d.kind = "ds" /\ ~d.converting THEN BOOLEAN ELSE {TRUE}

\* Whether time can pass HPM_TIMEOUT_MS or VEML7700_MAX_READ_TIME.
Lates == IF Had({"slow", "i2c"}) THEN BOOLEAN ELSE {FALSE}
-----------------------------------------------------------------------------
(* _measurements_sample: one pass over the table.                          *)

\* What a pass has done so far: p.d, p.sample and p.busy.
BeginOne(p, n, bad, late) ==
    IF p.sample[n] # "todo" THEN p
    ELSE IF n \in p.busy THEN [p EXCEPT !.sample[n] = "over"]
    ELSE LET t == InitCb(p.d, n, n # bad, late)
             begun == t.resp = "SUCCESS"
         IN  [d |-> t, busy |-> IF begun THEN p.busy \cup {n} ELSE p.busy,
              sample |-> CASE t.resp = "BUSY" -> p.sample
                           [] begun -> [p.sample EXCEPT ![n] = "open"]
                           [] OTHER -> [p.sample EXCEPT ![n] = "over"]]

CollectOne(p, n, fine, late) ==
    IF p.sample[n] # "open" THEN p
    ELSE LET t == GetCb(p.d, n, fine, late) IN
         [d |-> t, busy |-> p.busy \ {n},
          sample |-> IF t.resp = "BUSY" THEN p.sample ELSE [p.sample EXCEPT ![n] = "over"]]

\* A chip has one measurement, or two.
BeginAll(p, bad, late) ==
    LET q == BeginOne(p, measured[1], bad, late)
    IN  IF Len(measured) = 1 THEN q ELSE BeginOne(q, measured[2], bad, late)

CollectAll(p, fine, late) ==
    LET q == CollectOne(p, measured[1], fine, late)
    IN  IF Len(measured) = 1 THEN q ELSE CollectOne(q, measured[2], fine, late)

Now == [d |-> Clean(d), sample |-> sample, busy |-> busy]

Do(p) == d' = p.d /\ sample' = p.sample /\ busy' = p.busy

BeginPass ==
    /\ Idle /\ \E n \in Names : sample[n] = "todo"
    /\ d.kind = "hpm" => d.ref < MaxRef
    /\ \E bad \in {"none"} \cup IF CanFail THEN Names ELSE {}, late \in Lates :
           /\ FaultIf(bad # "none", "i2c")
           /\ Do(BeginAll(Now, bad, late))
    /\ UNCHANGED <<measured, cmd>>

CollectPass ==
    /\ Idle /\ Open # {}
    /\ \E fine \in Fines, late \in Lates :
           /\ FaultIf(~fine \/ ~HadItsTime, IF fine THEN "slow" ELSE "i2c")
           /\ Do(CollectAll(Now, fine, late))
    /\ UNCHANGED <<measured, cmd>>

\* _measurements_iterate_callbacks, of every measurement whose counts differ.
\* After an error the counts differ, and are not those that are collected.
Iterate(n) ==
    /\ Idle /\ HasIteration(d) /\ sample[n] \in {"open", "failed"}
    /\ \E fine, bright \in BOOLEAN, late \in Lates :
           LET t == IterationCb(Clean(d), n, fine, bright, late)
               failed == t.resp = "ERROR"
           IN  /\ FaultIf(~fine, "i2c")
               /\ d' = t
               /\ sample' = IF failed THEN [sample EXCEPT ![n] = "failed"] ELSE sample
               /\ busy' = IF failed THEN busy \ {n} ELSE busy
    /\ UNCHANGED <<measured, cmd>>

\* _measurements_send starts the counts again, whatever is still open.
NextInterval ==
    /\ Idle /\ FaultIf(Open # {}, "cut")
    /\ sample' = [n \in Names |-> "todo"]
    /\ d' = Clean(d)
    /\ UNCHANGED <<measured, busy, cmd>>
-----------------------------------------------------------------------------
(* get_meas: _measurements_get_reading2.  No samples are taken while it    *)
(* waits.                                                                  *)

GetMeas(n) ==
    /\ Idle /\ n \notin busy /\ Fault("read")
    /\ d.kind = "hpm" => d.ref < MaxRef
    /\ \E late \in Lates : d' = InitCb(Clean(d), n, TRUE, late)
    /\ IF d'.resp = "SUCCESS"
       THEN busy' = busy \cup {n}
            /\ cmd' = [n |-> n, at |-> IF HasIteration(d) THEN "iterate" ELSE "get"]
       ELSE UNCHANGED <<busy, cmd>>
    /\ UNCHANGED <<measured, sample>>

GetMeasIterate ==
    /\ cmd.at = "iterate"
    /\ \E fine, bright \in BOOLEAN, late \in Lates :
           /\ FaultIf(~fine, "i2c")
           /\ d' = IterationCb(Clean(d), cmd.n, fine, bright, late)
    /\ cmd' = IF d'.resp = "SUCCESS" THEN [cmd EXCEPT !.at = "get"] ELSE cmd
    /\ UNCHANGED <<measured, sample, busy>>

GetMeasGet ==
    /\ cmd.at = "get"
    /\ \E fine \in Fines, late \in Lates :
           /\ FaultIf(~fine \/ ~HadItsTime, IF fine THEN "slow" ELSE "i2c")
           /\ d' = GetCb(Clean(d), cmd.n, fine, late)
    /\ busy' = busy \ {cmd.n}
    /\ cmd' = IF d'.resp = "BUSY" THEN cmd ELSE NoCmd
    /\ UNCHANGED <<measured, sample>>

\* The chip was not asked for what the command waits for: it was queued behind
\* a sample whose part was over.
Hopeless == d.kind = "htu" /\ cmd.at = "iterate" /\ HtuRests(d)

\* The wait is over: whatever the sensor does is left as it is.
GetMeasTimeout ==
    /\ cmd # NoCmd
    /\ IF Hopeless THEN faults' = [faults EXCEPT !.had = @ \cup {"slow"}]
       ELSE Fault("slow")
    /\ busy' = busy \ {cmd.n} /\ cmd' = NoCmd /\ d' = Clean(d)
    /\ UNCHANGED <<measured, sample>>
-----------------------------------------------------------------------------
(* The chips, and the UARTs they come in by.                               *)

Chip ==
    /\ \/ /\ d.kind = "hpm" /\ HpmPowered(d) /\ d.uart
          /\ \E packet \in {"long", "short", "bad", "cut"} :
                 /\ FaultIf(packet \in {"bad", "cut"}, "noise")
                 /\ d' = HpmRingProcess(Clean(d), packet)
       \/ /\ d.kind = "ds" /\ d.converting /\ d' = DsConverted(Clean(d))
          /\ UNCHANGED faults
       \/ /\ d.kind = "sen"
          /\ \E fine \in BOOLEAN, warmup \in {FALSE} \cup IF Had({"i2c"}) THEN {TRUE} ELSE {} :
                 FaultIf(~fine, "i2c") /\ d' = SenxxIterate(Clean(d), fine, warmup)
       \/ /\ d.kind = "rs" /\ d.line # <<>> /\ d' = RsProcess(Clean(d))
          /\ UNCHANGED faults
    /\ UNCHANGED <<measured, sample, busy, cmd>>

\* Time passes for the particulate sensor: without an answer only when it is
\* slower than the last time.
Later ==
    /\ d.kind = "hpm" /\ d.age # "late"
    /\ FaultIf(Open # {} \/ cmd # NoCmd, "slow")
    /\ d' = HpmPasses(Clean(d))
    /\ UNCHANGED <<measured, sample, busy, cmd>>
-----------------------------------------------------------------------------
Next ==
    \/ BeginPass \/ CollectPass \/ NextInterval
    \/ \E n \in Names : Iterate(n) \/ GetMeas(n)
    \/ GetMeasIterate \/ GetMeasGet \/ GetMeasTimeout
    \/ Chip \/ Later

Iterated == HpmNames \cup HtuNames \cup {Light}

\* The main loop turns, and the chips work.
Fairness ==
    /\ WF_vars(BeginPass) /\ SF_vars(CollectPass) /\ WF_vars(Chip)
    /\ \A n \in Iterated : WF_vars(n \in Names /\ Iterate(n))
    /\ WF_vars(GetMeasIterate) /\ SF_vars(GetMeasGet)
    /\ WF_vars(Hopeless /\ GetMeasTimeout)

Spec == Init /\ [][Next]_vars /\ Fairness
-----------------------------------------------------------------------------
TypeOK ==
    /\ sample \in [Names -> {"todo", "open", "failed", "over"}]
    /\ busy \subseteq Names /\ cmd.n \in Names \cup {"none"}
    /\ d.read \in {"none", "new", "old"}
    /\ d.kind = "hpm" => d.messages \in 0..3 /\ d.ref \in 0..(MaxRef + 2)

\* What a sample is given was read from the chip after the sample was begun
\* (of the air quality module, which measures by itself: after it was started).
\* The light sensor keeps to that whatever happens; the others unless their
\* collection came before the chip was done; and humidity and temperature
\* unless a transfer failed or a sample was cut off, when the values of an
\* earlier sample are still marked valid.
ReadingIsNew == d.read # "old"

Fresh ==
    \/ ReadingIsNew
    \/ d.kind # "veml" /\ Had({"slow"})
    \/ d.kind = "htu" /\ Had({"i2c", "cut"})

\* Whatever a driver has begun is going to be collected: the particulate
\* sensor is powered (when one of its two measurements is in use), the chip for
\* humidity and temperature claimed and the light sensor busy only for a sample
\* that is open or a command that waits.  Not once a sample was cut off or a
\* command gave up, and not once a transfer failed: then nothing collects it.
Wanted == Open \cup {cmd.n}

Owned ==
    \/ Had({"cut", "slow"})
    \/ d.kind # "hpm" /\ Had({"i2c"})
    \/ CASE d.kind = "hpm" ->
                Len(measured) = 1 /\ d.ref > 0 => Wanted \cap Names # {}
         [] d.kind = "htu" -> d.flags \subseteq Wanted
         [] d.kind = "veml" -> d.state # "OFF" => Wanted \cap Names # {}
         [] OTHER -> TRUE

\* The tables of gains and integration times are not left, and the product of
\* their multipliers fits the eight bits it is computed in.
SettingsFit ==
    d.kind = "veml" =>
        /\ d.gain + 1 \in DOMAIN Gains /\ d.int + 1 \in DOMAIN IntegrationTimes
        /\ Multiplier(d) < 256

\* Every sample that is begun is collected, with a reading or an error, or
\* given up after an error.  This is the sample of the i-th measurement.
Expected(i) == i \in DOMAIN measured /\ sample[measured[i]] = "open"
=============================================================================
