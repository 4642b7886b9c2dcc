-------------------------------- MODULE Adcs --------------------------------
(***************************************************************************)
(* src/core/adcs.c and the sensors that share the one converter: the       *)
(* current clamps (sensors/cc.c), the 4-20 mA inputs (sensors/ftma.c) and  *)
(* the battery (ports/stm/bat.c).  Each operator is a function of the C    *)
(* code: it takes the state and returns it changed, with what the function *)
(* returns in "resp".                                                      *)
(*                                                                         *)
(* A conversion goes round a sequence of channels and fills the buffer     *)
(* over and over, until the converter is switched off.  Samples are told   *)
(* apart by the channel they come from, so that a buffer is the sequence   *)
(* it was filled with; "read" is what the last reading was of, and the     *)
(* channels it was made from.                                              *)
(***************************************************************************)
EXTENDS Naturals, Sequences, Functions

CONSTANTS
    NumCc,          \* ADC_CC_COUNT
    NumFt           \* ADC_FTMA_COUNT


None == "none"
NoSensor == <<"none", 0>>
Unread == [of |-> NoSensor, from |-> {NoSensor}]
Cc(i) == <<"CC", i>>
Ft(j) == <<"FT", j>>
Bat == <<"BAT", 1>>
Sensors == {Cc(i) : i \in 1..NumCc} \cup {Ft(j) : j \in 1..NumFt} \cup {Bat}
AllCc == [i \in 1..NumCc |-> Cc(i)]
AllFt == [j \in 1..NumFt |-> Ft(j)]

Start ==
    [inUse |-> FALSE, key |-> None, seq |-> <<>>, buf |-> <<>>, on |-> FALSE,
     active |-> <<>>, alone |-> NoSensor, running |-> {},
     ftOn |-> FALSE, inited |-> {}, bat |-> FALSE,
     resp |-> None, read |-> Unread]

Reply(s, r) == [s EXCEPT !.resp = r]

\* The key a sensor's conversions are locked with.
KeyOf(n) == n[1]
-----------------------------------------------------------------------------
(* core/adcs.c                                                             *)

\* "early": an interrupt of the conversion before comes after _adcs_in_use was
\* set and before the DMA is stopped.
Begin(s, channels, key, early) ==
    CASE channels = <<>> -> Reply(s, "FAIL")
      [] channels # <<>> /\ (s.inUse \/ s.key # None) -> Reply(s, "WAIT")
      [] OTHER -> [s EXCEPT !.inUse = ~early, !.key = key, !.seq = channels,
                            !.on = TRUE, !.resp = "OK"]

\* Every step-th sample from the start-th on.
SamplesOf(buf, start, step) ==
    {buf[((start + n * step) % Len(buf)) + 1] : n \in 0..(Len(buf) - 1)}

Place(seq, n) == CHOOSE i \in DOMAIN seq : seq[i] = n

Collect(s, n, start, step) ==
    IF s.inUse \/ s.key # KeyOf(n) THEN Reply(s, "WAIT")
    ELSE [s EXCEPT !.resp = "OK",
                   !.read = [of |-> n, from |-> SamplesOf(s.buf, start, step)]]

Release(s, key) == IF s.key = key THEN [s EXCEPT !.key = None] ELSE s

DmaComplete(s) == [s EXCEPT !.inUse = FALSE, !.buf = s.seq]

\* Around the processor's sleep.
OffAndOn(s) == [s EXCEPT !.on = FALSE]
-----------------------------------------------------------------------------
(* sensors/cc.c: "alone" is the clamp that runs in isolation.              *)

CcReleaseAuto(s) == IF s.running = {} THEN Release(s, "CC") ELSE s
CcReleaseAll(s) == Release([s EXCEPT !.running = {}], "CC")

CcSetActive(s, clamps) ==
    IF s.running # {} THEN Reply(s, "FAIL")
    ELSE Reply([s EXCEPT !.active = clamps], "OK")

IsActive(s, n) == n \in Range(s.active)

\* The clamps of a set, in the order of their channels.
Ordered(clamps) ==
    LET upTo[i \in 0..NumCc] ==
            IF i = 0 THEN <<>>
            ELSE IF Cc(i) \in clamps THEN Append(upTo[i - 1], Cc(i)) ELSE upTo[i - 1]
    IN  upTo[NumCc]

CcEnable(s, n, on) ==
    CcSetActive(s, Ordered(IF on THEN Range(s.active) \cup {n}
                           ELSE Range(s.active) \ {n}))

CcBegun(s, n) ==
    CASE s.resp = "FAIL" -> Reply([s EXCEPT !.alone = NoSensor], "ERROR")
      [] s.resp = "WAIT" -> Reply(s, "BUSY")
      [] s.resp = "OK" -> Reply([s EXCEPT !.running = @ \cup {n}], "SUCCESS")

CcBegin(s, n, isolated, early) ==
    LET others == s.running \ {n} IN
    CASE isolated /\ others # {} -> Reply(s, "ERROR")
      [] isolated /\ others = {} ->
             CcBegun(Begin([s EXCEPT !.alone = n], <<n>>, "CC", early), n)
      [] ~isolated /\ (s.active = <<>> \/ s.alone # NoSensor) -> Reply(s, "ERROR")
      [] ~isolated /\ s.active # <<>> /\ s.alone = NoSensor /\ others # {} ->
             Reply([s EXCEPT !.running = @ \cup {n}], "SUCCESS")
      [] OTHER -> CcBegun(Begin(s, s.active, "CC", early), n)

\* Mutant: the samples are taken as if of all clamps.
CcGetEvery(s, n, fine) ==
    IF ~IsActive(s, n) \/ n \notin s.running THEN Reply(s, "ERROR")
    ELSE LET start == Place(s.active, n) - 1
             step == IF s.alone # NoSensor THEN 1 ELSE NumCc
             t == Collect([s EXCEPT !.alone = NoSensor], n, start, step)
         IN  IF t.resp = "WAIT" THEN Reply(t, "BUSY")
             ELSE Reply(CcReleaseAuto([t EXCEPT !.running = @ \ {n}]),
                        IF fine THEN "SUCCESS" ELSE "ERROR")

\* Mutant: the last clamp that was read does not wait for the others.
CcGetReleases(s, n, fine) ==
    IF ~IsActive(s, n) \/ n \notin s.running THEN Reply(s, "ERROR")
    ELSE LET start == Place(s.active, n) - 1
             step == IF s.alone # NoSensor THEN 1 ELSE Len(s.active)
             t == Collect([s EXCEPT !.alone = NoSensor], n, start, step)
         IN  IF t.resp = "WAIT" THEN Reply(t, "BUSY")
             ELSE Reply(Release([t EXCEPT !.running = @ \ {n}], "CC"),
                        IF fine THEN "SUCCESS" ELSE "ERROR")

\* ~fine: no peaks, the clamp is not plugged in, or its gain is not set.
CcGet(s, n, fine) ==
    IF ~IsActive(s, n) \/ n \notin s.running THEN Reply(s, "ERROR")
    ELSE LET start == Place(s.active, n) - 1
             step == IF s.alone # NoSensor THEN 1 ELSE Len(s.active)
             t == Collect([s EXCEPT !.alone = NoSensor], n, start, step)
         IN  IF t.resp = "WAIT" THEN Reply(t, "BUSY")
             ELSE Reply(CcReleaseAuto([t EXCEPT !.running = @ \ {n}]),
                        IF fine THEN "SUCCESS" ELSE "ERROR")

\* _cc_calibrate: the clamps in use are put back only when all went well.
CcCalibrateBegin(s, early) ==
    Begin([s EXCEPT !.active = AllCc], AllCc, "CC", early)

CcCalibrateEnd(s, before, waited) ==
    LET t == Collect(s, Cc(1), 0, NumCc) IN
    IF waited /\ t.resp = "OK" THEN [CcReleaseAll(t) EXCEPT !.active = before]
    ELSE CcReleaseAll(s)

\* osm_cc_get_blocking
CcBlockingEnd(s, n, waited, fine) ==
    IF waited THEN CcReleaseAll(CcGet(s, n, fine)) ELSE s

\* osm_cc_get_all_blocking
CcAllBegin(s, early) ==
    LET begun[i \in 0..NumCc] ==
            IF i = 0 THEN CcSetActive(s, AllCc)
            ELSE LET t == begun[i - 1] IN
                 IF t.resp \in {"OK", "SUCCESS"} THEN CcBegin(t, Cc(i), FALSE, early)
                 ELSE t
    IN  begun[NumCc]

CcAllEnd(s, before, waited, fine) ==
    LET got[i \in 0..NumCc] ==
            IF i = 0 THEN Reply(s, "SUCCESS")
            ELSE LET t == got[i - 1] IN
                 IF t.resp = "SUCCESS" THEN CcGet(t, Cc(i), fine) ELSE t
        all == got[NumCc]
    IN  CASE ~waited -> s
          [] waited /\ all.resp = "SUCCESS" -> CcSetActive(CcReleaseAll(all), before)
          [] OTHER -> CcReleaseAll(all)
-----------------------------------------------------------------------------
(* sensors/ftma.c: "late" when a conversion began FTMA_TIMEOUT_MS ago.     *)

FtBegin(s, n, early, late) ==
    CASE n \in s.inited -> Reply(s, "ERROR")
      [] n \notin s.inited /\ s.ftOn ->
             IF late THEN Reply(s, "ERROR")
             ELSE Reply([s EXCEPT !.inited = @ \cup {n}], "SUCCESS")
      [] OTHER ->
             LET t == Begin(s, AllFt, "FT", early) IN
             CASE t.resp = "FAIL" -> Reply(t, "ERROR")
               [] t.resp = "WAIT" -> Reply(t, "BUSY")
               [] t.resp = "OK" ->
                      Reply([t EXCEPT !.ftOn = TRUE, !.inited = @ \cup {n}], "SUCCESS")

FtAutoRelease(s) == IF s.inited = {} THEN Release(s, "FT") ELSE s

\* ~fine: below or above what the loop can carry.
FtGet(s, n, fine) ==
    IF n \notin s.inited THEN Reply(s, "ERROR")
    ELSE LET t == Collect(s, n, n[2] - 1, NumFt) IN
         IF t.resp = "WAIT" THEN Reply(t, "BUSY")
         ELSE Reply(FtAutoRelease([t EXCEPT !.ftOn = FALSE, !.inited = @ \ {n}]),
                    IF fine THEN "SUCCESS" ELSE "ERROR")
-----------------------------------------------------------------------------
(* ports/stm/bat.c: nothing sets _bat_starting_time, so that a request     *)
(* that is under way has always timed out.                                 *)

BatCheckRequest(s) == IF s.bat THEN Release([s EXCEPT !.bat = FALSE], "BAT") ELSE s

BatBegin(s, early) ==
    LET t == Begin(BatCheckRequest(s), <<Bat>>, "BAT", early) IN
    CASE t.resp = "FAIL" -> Reply(t, "ERROR")
      [] t.resp = "WAIT" -> Reply(t, "BUSY")
      [] t.resp = "OK" -> Reply([t EXCEPT !.bat = TRUE], "SUCCESS")

BatGet(s) ==
    IF ~s.bat THEN Reply(s, "ERROR")
    ELSE LET t == Collect(s, Bat, 0, 1) IN
         IF t.resp = "WAIT" THEN Reply(t, "BUSY")
         ELSE Reply(Release([t EXCEPT !.bat = FALSE], "BAT"), "SUCCESS")

\* osm_bat_get_blocking
BatBlockingEnd(s, waited) == IF waited THEN BatGet(s) ELSE s

\* _bat_get_on_battery
BatOnBatteryEnd(s, waited) ==
    IF waited /\ s.bat
    THEN Release(Collect([s EXCEPT !.bat = FALSE], Bat, 0, 1), "BAT")
    ELSE s
-----------------------------------------------------------------------------
(* A sensor's callbacks.                                                   *)

InitCb(s, n, isolated, early, late) ==
    CASE n[1] = "CC" -> CcBegin(s, n, isolated, early)
      [] n[1] = "FT" -> FtBegin(s, n, early, late)
      [] n[1] = "BAT" -> BatBegin(s, early)

GetCb(s, n, fine) ==
    CASE n[1] = "CC" -> CcGet(s, n, fine)
      [] n[1] = "FT" -> FtGet(s, n, fine)
      [] n[1] = "BAT" -> BatGet(s)

EnableCb(s, n, on) == IF n[1] = "CC" THEN CcEnable(s, n, on) ELSE s
=============================================================================
