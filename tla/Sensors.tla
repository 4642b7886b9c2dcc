------------------------------ MODULE Sensors -------------------------------
(***************************************************************************)
(* The drivers of the sensors with a chip of their own.                    *)
(*                                                                         *)
(* Each operator is one of a driver's functions, from its state to the     *)
(* state it leaves, with what it returns in "resp".  A reading is not a    *)
(* number here but whether the chip was read since the sample was begun:   *)
(* "read" is "new" or "old".                                               *)
(***************************************************************************)
EXTENDS Naturals, Sequences

Reply(s, r) == [s EXCEPT !.resp = r]

\* A value read after the samples of "fresh" were begun, given to n; an old one
\* among several stays the one that is seen.
Give(s, n, fresh) ==
    [s EXCEPT !.resp = "SUCCESS",
              !.read = IF n \in fresh /\ @ # "old" THEN "new" ELSE "old"]
-----------------------------------------------------------------------------
(* src/sensors/hpm.c: the particulate sensor that is powered on for a      *)
(* sample, sends packets by itself until one is good enough, and is        *)
(* powered off by the answer.  PM10 and PM25 are two measurements of the   *)
(* one chip.                                                               *)
(*                                                                         *)
(* "age" is the time since hpm_enable(true): "young" before the time the   *)
(* last answer took, "ripe" from there on, "late" past HPM_TIMEOUT_MS.     *)
(* "fresh" is the set of measurements begun before the values were read.   *)

HpmNames == {"PM10", "PM25"}

HpmStart ==
    [kind |-> "hpm", valid |-> FALSE, on |-> FALSE, ref |-> 0, uart |-> FALSE,
     age |-> "late", messages |-> 0, header |-> FALSE, fresh |-> {},
     resp |-> "none", read |-> "none"]

\* hpm_enable: the power is on while hpm_use_ref is not 0.
HpmEnable(s, enable) ==
    IF enable
    THEN [s EXCEPT !.on = TRUE, !.age = "young", !.ref = @ + 1]
    ELSE [s EXCEPT !.on = FALSE, !.ref = IF @ = 0 THEN 0 ELSE @ - 1]

HpmPowered(s) == s.ref > 0

HpmIsValid(s) ==
    [s EXCEPT !.valid = TRUE, !.age = IF @ = "late" THEN @ ELSE "ripe",
              !.fresh = HpmNames]

HpmIsValidNow(s) == s.valid /\ s.age = "ripe"

\* Mutant: an answer leaves the power on.
HpmStaysOn(s) == [s EXCEPT !.uart = FALSE]

HpmTurnOff(s) ==
    IF s.on THEN [HpmEnable(s, FALSE) EXCEPT !.uart = FALSE] ELSE s

PartMeasure(s) == HpmTurnOff(HpmIsValid(s))

\* The first three are not to be used, and their values are stored.
PartMeasureLong(s) ==
    IF s.messages > 2 THEN [HpmTurnOff(HpmIsValid(s)) EXCEPT !.messages = 0]
    ELSE [s EXCEPT !.messages = @ + 1, !.fresh = {}]

\* osm_hpm_ring_process: after a header whose packet was cut short, the next
\* packet is read as the rest of it, and refused.
HpmRingProcess(s, packet) ==
    CASE s.header -> [s EXCEPT !.header = FALSE]
      [] ~s.header /\ packet = "long" -> PartMeasureLong(s)
      [] ~s.header /\ packet = "short" -> PartMeasure(s)
      [] ~s.header /\ packet = "cut" -> [s EXCEPT !.header = TRUE]
      [] OTHER -> s                           \* refused, or an acknowledgement

HpmInit(s, n) ==
    Reply(HpmEnable([s EXCEPT !.uart = TRUE, !.fresh = @ \ {n}], TRUE), "SUCCESS")

HpmGet(s, n) ==
    LET now == [s EXCEPT !.valid = HpmIsValidNow(s)] IN
    CASE now.valid -> Give(now, n, now.fresh)
      [] ~now.valid /\ now.age # "late" -> Reply(now, "BUSY")
      [] OTHER -> Reply(HpmEnable(now, FALSE), "ERROR")

HpmPasses(s) == [s EXCEPT !.age = IF @ = "young" THEN "ripe" ELSE "late"]
-----------------------------------------------------------------------------
(* src/sensors/htu21d.c: temperature and humidity from one chip, one after *)
(* the other.  Humidity is corrected by the temperature, so that it asks   *)
(* for the temperature first; a measurement begun while the other is under *)
(* way is queued.  A failed transfer resets the chip.                      *)

HtuNames == {"TEMP", "HUMI"}

HtuStart ==
    [kind |-> "htu", flags |-> {},
     state |-> [n \in HtuNames |-> "IDLE"], valid |-> [n \in HtuNames |-> FALSE],
     fresh |-> [n \in HtuNames |-> {}], resp |-> "none", read |-> "none"]

Request(s, n) == [s EXCEPT !.state[n] = "REQ"]

Requested(s) == {n \in HtuNames : s.state[n] = "REQ"}

HtuInit(s, n) ==
    IF n \in s.flags THEN Reply(s, "BUSY")
    ELSE LET t == [s EXCEPT !.flags = @ \cup {n},
                            !.fresh = [m \in HtuNames |-> @[m] \ {n}]] IN
         Reply(IF s.flags = {} THEN Request(t, "TEMP") ELSE t, "SUCCESS")

\* "fine": the chip answers, and its CRC fits.
Collect(s, n, fine) ==
    LET idle == [s EXCEPT !.state[n] = "IDLE"] IN
    IF fine /\ (n = "HUMI" => s.valid["TEMP"])
    THEN Reply([idle EXCEPT !.valid[n] = TRUE, !.fresh[n] = HtuNames], "SUCCESS")
    ELSE Reply(idle, "ERROR")

\* bad_temp_exit and bad_humi_exit: only the one that failed is told.
Failed(s, failed, n) == Reply(s, IF n = failed THEN "ERROR" ELSE "BUSY")

\* _htu21d_measurements_iteration for the measurement n, when the pause since
\* a request is over.
HtuIterate(s, n, fine) ==
    LET t == Collect(s, "TEMP", fine)
        h == Collect(s, "HUMI", fine)
        forgotten == IF s.flags = {"HUMI"} THEN [h EXCEPT !.valid["TEMP"] = FALSE] ELSE h
    IN  CASE s.flags # {} /\ s.state["TEMP"] = "REQ" ->
                IF t.resp = "ERROR" THEN Failed(t, "TEMP", n)
                ELSE IF "HUMI" \in s.flags THEN Reply(Request(t, "HUMI"), "BUSY") ELSE t
          [] "HUMI" \in s.flags /\ s.state["TEMP"] # "REQ" /\ s.state["HUMI"] = "REQ" ->
                IF h.resp = "ERROR" THEN Failed(forgotten, "HUMI", n) ELSE forgotten
          [] OTHER -> Reply(s, "BUSY")

HtuGet(s, n) ==
    LET t == [s EXCEPT !.flags = @ \ {n}] IN
    IF n \in s.flags /\ s.valid[n] THEN Give(t, n, t.fresh[n]) ELSE Reply(t, "ERROR")

\* No request is under way whose result an iteration would collect.
HtuRests(s) ==
    s.flags = {} \/ ("TEMP" \notin Requested(s) /\ Requested(s) \cap s.flags = {})
-----------------------------------------------------------------------------
(* src/sensors/veml7700.c: the light sensor.  A sample begins with the     *)
(* least sensitive settings and, while the counts stay below the           *)
(* threshold, turns the chip off and tries the next gain, and after the    *)
(* last gain the next integration time.  Indices are the code's.           *)

Light == "LIGHT"

Gains == <<16, 8, 2, 1>>                \* resolution_multiplier of each
IntegrationTimes == <<32, 16, 8, 4, 2, 1>>

VemlStart ==
    [kind |-> "veml", state |-> "OFF", gain |-> 0, int |-> 2, valid |-> FALSE,
     fresh |-> {}, resp |-> "none", read |-> "none"]

ResetCtx(s) == [s EXCEPT !.gain = 0, !.int = 2]

\* _veml7700_get_resolution, before its result is cut to eight bits.
Multiplier(s) == Gains[s.gain + 1] * IntegrationTimes[s.int + 1]

IncreaseSettings(s) ==
    IF s.gain + 1 < Len(Gains) THEN [s EXCEPT !.gain = @ + 1]
    ELSE [s EXCEPT !.gain = 0, !.int = @ + 1]

AtMost(s) == s.gain + 1 = Len(Gains) /\ s.int + 1 = Len(IntegrationTimes)

VemlOff(s) == Reply([s EXCEPT !.state = "OFF"], "ERROR")
VemlDone(s) ==
    Reply([s EXCEPT !.state = "DONE", !.valid = TRUE, !.fresh = {Light}], "BUSY")

\* _veml7700_light_measurements_init; "fine": the chip takes its settings.
VemlInit(s, fine, late) ==
    CASE s.state = "READING" /\ ~late -> Reply(s, "BUSY")
      [] s.state = "DONE" -> Reply(s, "ERROR")
      [] OTHER -> Reply(ResetCtx([s EXCEPT !.state = "READING", !.fresh = {}]),
                        IF fine THEN "SUCCESS" ELSE "ERROR")

\* _veml7700_iteration, when the wait for the counts is over.  A read that
\* fails counts as 0: dark.
VemlIterate(s, fine, bright, late) ==
    CASE s.state # "READING" -> Reply(s, "SUCCESS")
      [] s.state = "READING" /\ (late \/ ~fine) -> VemlOff(s)
      [] s.state = "READING" /\ ~late /\ fine /\ (bright \/ AtMost(s)) -> VemlDone(s)
      [] OTHER -> Reply(IncreaseSettings(s), "BUSY")

VemlGet(s, late) ==
    CASE s.state = "OFF" -> Reply(s, "ERROR")
      [] s.state = "READING" -> Reply(s, IF late THEN "ERROR" ELSE "BUSY")
      [] s.state = "DONE" /\ ~s.valid -> Reply([s EXCEPT !.state = "OFF"], "ERROR")
      [] OTHER -> Give([s EXCEPT !.state = "OFF", !.valid = FALSE], Light, s.fresh)
-----------------------------------------------------------------------------
(* ds18b20.c: "scratchpad" is the last conversion.                         *)

Probe == "TEMP"

DsStart ==
    [kind |-> "ds", converting |-> FALSE, fresh |-> {},
     resp |-> "none", read |-> "none"]

DsInit(s, fine) ==
    IF fine THEN Reply([s EXCEPT !.converting = TRUE, !.fresh = {}], "SUCCESS")
    ELSE Reply(s, "ERROR")

\* "fine": the probe is there, its CRC fits and it is not all zeros.
DsCollect(s, fine) == IF fine THEN Give(s, Probe, s.fresh) ELSE Reply(s, "ERROR")

DsConverted(s) == [s EXCEPT !.converting = FALSE, !.fresh = {Probe}]
-----------------------------------------------------------------------------
(* senxx.c: last_reading is of no use ("fresh" empty) until the chip was   *)
(* read after it was started.                                              *)

SenNames == {"PM10", "REL_HUM"}

SenStart ==
    [kind |-> "sen", active |-> TRUE, fresh |-> {},
     resp |-> "none", read |-> "none"]

\* osm_senxx_init: the chip tells its name, is reset and started.
SenxxInit(s, fine) ==
    IF fine THEN [s EXCEPT !.active = TRUE, !.fresh = {}] ELSE s

\* osm_senxx_iterate, a second after the last time; "warmup": in the first
\* five seconds.
SenxxIterate(s, fine, warmup) ==
    CASE s.active /\ fine -> [s EXCEPT !.fresh = SenNames]
      [] s.active /\ ~fine -> [s EXCEPT !.active = FALSE]
      [] OTHER -> IF warmup THEN SenxxInit(s, fine) ELSE s

\* "again": it was not tried within the last second.
SenStartCb(s, fine, again) ==
    LET t == IF ~s.active /\ again THEN SenxxInit(s, fine) ELSE s IN
    Reply(t, IF t.active THEN "SUCCESS" ELSE "ERROR")

SenCollect(s, n) ==
    IF s.active THEN Give(s, n, s.fresh) ELSE Reply(s, "ERROR")
-----------------------------------------------------------------------------
(* example_rs232.c: "line" is the answers that are on their way, TRUE for  *)
(* one whose prompt is of the last sample.                                 *)

Serial == "FW"
NoMsg == "none"

RsStart ==
    [kind |-> "rs", stored |-> NoMsg, errored |-> FALSE, line |-> <<>>,
     resp |-> "none", read |-> "none"]

RsInit(s) ==
    Reply([s EXCEPT !.line = Append([i \in DOMAIN @ |-> "old"], "new"),
                    !.stored = IF @ = NoMsg THEN NoMsg ELSE "old"], "SUCCESS")

RsProcess(s) ==
    LET rest == [s EXCEPT !.line = Tail(@)] IN
    IF s.errored THEN rest
    ELSE [rest EXCEPT !.stored = Head(s.line), !.errored = s.stored # NoMsg]

RsCollect(s) ==
    LET t == [s EXCEPT !.stored = NoMsg, !.errored = FALSE] IN
    IF s.errored \/ s.stored = NoMsg THEN Reply(t, "ERROR")
    ELSE [t EXCEPT !.resp = "SUCCESS", !.read = s.stored]
=============================================================================
