------------------------------ MODULE AtModem ------------------------------
(***************************************************************************)
(* A WiFi or PoE device: one of the two drivers, the modem it talks AT     *)
(* commands with (as model/penguin_at_wifi/peripherals/at_wifi.py plays    *)
(* it), the two directions of the UART between them, and the part of       *)
(* Measurements that hands messages to the driver and waits for their      *)
(* acknowledgement.                                                        *)
(*                                                                         *)
(* The modem answers one command at a time.  A timeout of the driver fires *)
(* when no answer is on its way any more, or, as a fault, too early for an *)
(* answer that is late.  Each fault that happens uses up one of MaxFaults. *)
(***************************************************************************)
EXTENDS AtBase, FiniteSets

CONSTANTS
    Kinds,          \* the drivers to look at: "wifi", "poe"
    MaxAps,         \* access points a scan keeps
    MaxLines,       \* lines in the UART from the modem
    MaxCmds,        \* commands in the UART to the modem
    MaxNest,        \* handlers asleep inside one another
    MaxFaults,      \* faults and commands in one behaviour
    Faults          \* of them, those that may happen

AtAssumption ==
    /\ Kinds \subseteq {"wifi", "poe"}
    /\ {MaxAps, MaxLines, MaxCmds, MaxNest, MaxFaults} \subseteq Nat

VARIABLES
    kind,       \* the driver of this device
    ctx,        \* its context
    line,       \* lines from the modem
    cmds,       \* commands to the modem
    chip,       \* the modem: wifi joined, mqtt state, subscribed, raw mode
    up,         \* Measurements: a fragment is to follow, a message is out,
                \* and it arrived
    faults      \* faults left, and those there were

vars == <<kind, ctx, line, cmds, chip, up, faults>>

W == INSTANCE AtWifi
P == INSTANCE AtPoe

Process(c, l) == IF kind = "wifi" THEN W!Process(c, l) ELSE P!Process(c, l)
AfterSleep(c) == IF kind = "wifi" THEN W!AfterSleep(c) ELSE P!AfterSleep(c)
Timeout(c) == IF kind = "wifi" THEN W!Timeout(c) ELSE P!Timeout(c)
HasTimeout(c) == IF kind = "wifi" THEN W!HasTimeout(c) ELSE P!HasTimeout(c)
Reset(c) == IF kind = "wifi" THEN W!Reset(c) ELSE P!Reset(c)
Connected(c) == IF kind = "wifi" THEN W!Connected(c) ELSE P!Connected(c)

BootLines == IF kind = "wifi" THEN <<"ready">> ELSE <<"ready", "+ETH_GOT_IP">>
ChipOff == [joined |-> FALSE, mqtt |-> "down", sub |-> FALSE, raw |-> None,
            mixed |-> FALSE]
Booted == [ChipOff EXCEPT !.mixed = chip.mixed]

UpIdle == [pending |-> FALSE, owed |-> FALSE, arrived |-> FALSE]

Init ==
    /\ kind \in Kinds
    /\ ctx \in {StaticCtx(conf) : conf \in BOOLEAN}
    /\ line = BootLines /\ cmds = <<>> /\ chip = ChipOff
    /\ up = UpIdle
    /\ faults = [left |-> MaxFaults, had |-> {}]

Fault(f) ==
    /\ f \in Faults /\ faults.left > 0
    /\ faults' = [left |-> faults.left - 1, had |-> faults.had \cup {f}]

Quiet == line = <<>> /\ cmds = <<>>
-----------------------------------------------------------------------------
(* A step of the driver: what it sends goes to the modem, what it tells    *)
(* Measurements is taken.  The reset pin works at once.                    *)

Pulsed(c) == \E i \in 1..Len(c.out) : c.out[i] = "PULSE"

\* osm_on_protocol_sent_ack: after an acknowledgement the fragment that
\* follows is sent, in the same call; this begins with the time.
Told(c) ==
    IF c.ack = "ack" /\ up.pending
    THEN AskTime([c EXCEPT !.ack = None])
    ELSE [c EXCEPT !.ack = None]

UpTold(c) ==
    CASE c.ack = "ack" -> [up EXCEPT !.owed = FALSE, !.arrived = FALSE]
      [] c.ack = "nack" -> UpIdle
      [] OTHER -> up

Driver(c, lines, newUp) ==
    LET d == Told(c) IN
    /\ Len(d.nest) <= MaxNest
    /\ ctx' = [d EXCEPT !.out = <<>>]
    /\ up' = newUp
    /\ IF Pulsed(d)
       THEN cmds' = <<>> /\ chip' = Booted /\ line' = lines \o BootLines
       ELSE cmds' = cmds \o d.out /\ chip' = chip /\ line' = lines
    /\ Len(cmds') <= MaxCmds /\ Len(line') <= MaxLines
    /\ UNCHANGED kind

\* A line is taken from the UART, by the main loop or inside a handler that
\* sleeps.
Hear ==
    /\ line # <<>>
    /\ LET c == Process(ctx, Head(line))
       IN  Driver(c, Tail(line), UpTold(c))
    /\ UNCHANGED faults

\* What the innermost handler waits for has come, or its time is up.
WaitIsOver ==
    CASE Innermost(ctx) = "time" -> ctx.state # "WAIT_TIMESTAMP"
      [] Innermost(ctx) \in {"list", "listcmd"} -> ctx.state # "AP_SCAN"
      [] OTHER -> TRUE

\* osm_protocol_init and the rest of _measurements_send: without the time no
\* message is made, with it the message is sent, and may be the last or not.
MessageGoes(c, more) ==
    LET d == Publish(TimeDone(c), "meas")
    IN  IF TimeTaken(c)
        THEN /\ c.state = "IDLE" \/ ~more
             /\ IF c.state = "IDLE"
                THEN Driver(d, line, [pending |-> more, owed |-> TRUE,
                                      arrived |-> FALSE])
                ELSE Driver(Reset(d), line, UpIdle)
        ELSE ~more /\ Driver(TimeDone(c), line, [up EXCEPT !.pending = FALSE])

Resume ==
    /\ ctx.nest # <<>>
    /\ \/ /\ WaitIsOver /\ UNCHANGED faults
       \/ /\ ~WaitIsOver /\ Quiet /\ UNCHANGED faults
       \/ /\ ~WaitIsOver /\ ~Quiet /\ Fault("late")
    /\ IF Innermost(ctx) = "time"
       THEN \E more \in BOOLEAN : MessageGoes(ctx, more)
       ELSE LET c == AfterSleep(ctx) IN Driver(c, line, UpTold(c))

\* osm_at_*_loop_iteration, once per turn of the main loop.
TimerFires ==
    /\ ctx.nest = <<>> /\ HasTimeout(ctx)
    /\ \/ Quiet /\ UNCHANGED faults
       \/ ~Quiet /\ Fault("late")
    /\ LET c == Timeout(ctx) IN Driver(c, line, UpTold(c))
-----------------------------------------------------------------------------
(* Measurements: _measurements_send, when its interval is over.            *)

MeasOffline ==
    /\ ctx.nest = <<>> /\ ctx.enabled /\ ~Connected(ctx)
    /\ up' = UpIdle /\ up # UpIdle
    /\ UNCHANGED <<kind, ctx, line, cmds, chip, faults>>

MeasBusy ==
    /\ ctx.nest = <<>> /\ ctx.enabled
    /\ Connected(ctx) /\ ctx.state # "IDLE"
    /\ \/ /\ ~up.pending
          /\ up' = [up EXCEPT !.pending = TRUE]
          /\ UNCHANGED <<kind, ctx, line, cmds, chip>>
       \/ /\ up.pending /\ Quiet            \* over INTERVAL_TRANSMIT_MS/4
          /\ Driver(Reset(ctx), line, UpIdle)
    /\ UNCHANGED faults

MeasSend ==
    /\ ctx.nest = <<>> /\ ctx.enabled /\ ctx.state = "IDLE"
    /\ Driver(AskTime(ctx), line, up)
    /\ UNCHANGED faults

\* Commands from the console: settings, comms_restart, comms_list,
\* comms_autoconnect.
Command(cmd) ==
    /\ ctx.nest = <<>> /\ Fault("cmd")
    /\ LET c == IF kind = "wifi" THEN W!DoCommand(ctx, cmd, "list")
                ELSE P!DoCommand(ctx, cmd)
       IN  Driver(c, line, up)
-----------------------------------------------------------------------------
(* The modem, one command at a time.                                       *)

Says(lines, c) ==
    /\ cmds' = Tail(cmds) /\ line' = line \o lines /\ chip' = c
    /\ Len(line') <= MaxLines
    /\ UNCHANGED <<kind, ctx>>

Cmd(s) == cmds # <<>> /\ chip.raw = None /\ Head(cmds) = s

ChipRestore ==
    /\ Cmd("AT+RESTORE") \/ Cmd("AT+RST")
    /\ Says(<<"OK">> \o BootLines, Booted)

ChipPlain ==        \* ATE0, AT+CWMODE, AT+CWINIT, AT+CWCOUNTRY, MQTTCONNCFG
    /\ \E s \in {"ATE0", "AT+CWCOUNTRY", "AT+CWMODE", "AT+CWINIT"} : Cmd(s)
    /\ Says(<<"OK">>, chip)

ChipMac ==
    \/ Cmd("AT+CIPSTAMAC?") /\ Says(<<"+CIPSTAMAC", "OK">>, chip)
    \/ Cmd("AT+CIPETHMAC?") /\ Says(<<"+CIPETHMAC", "OK">>, chip)

ChipTime == Cmd("AT+SYSTIMESTAMP?") /\ Says(<<"+SYSTIMESTAMP", "OK">>, chip)
ChipList ==
    /\ Cmd("AT+CWLAP")
    /\ \E ap \in {"+CWLAP", "+CWLAP bad"} : Says(<<ap, "OK">>, chip)

ChipCwState ==
    /\ Cmd("AT+CWSTATE?")
    /\ Says(<<IF chip.joined THEN "+CWSTATE up" ELSE "+CWSTATE down", "OK">>, chip)

ChipJoin == Cmd("AT+CWJAP") /\ Says(<<"OK">>, [chip EXCEPT !.joined = TRUE])

ChipSntp == Cmd(NtpCfg) /\ Says(<<"OK", "+TIME_UPDATED">>, chip)

\* reinit_client: a connection there was is closed.
ChipUserCfg ==
    /\ Cmd(UserCfg)
    /\ Says(<<"OK">>, [chip EXCEPT !.mqtt = "conf", !.sub = FALSE])

ChipConnCfg == Cmd(ConnCfg) /\ Says(<<"OK">>, chip)

ChipConn ==
    /\ Cmd(MqttConn)
    /\ IF chip.mqtt = "down" THEN Says(<<"ERROR">>, chip)
       ELSE Says(<<"OK">>, [chip EXCEPT !.mqtt = "up"])

ChipIsConn ==
    /\ Cmd("AT+MQTTCONN?")
    /\ Says(<<IF chip.mqtt = "up" THEN "+MQTTCONN up" ELSE "+MQTTCONN down",
              "OK">>, chip)

ChipIsSub ==
    /\ Cmd("AT+MQTTSUB?")
    /\ Says(IF chip.sub THEN <<"+MQTTSUB", "OK">> ELSE <<"OK">>, chip)

\* A second subscription is answered as the driver expects it to be; the
\* simulator calls it an error.
ChipSub ==
    /\ Cmd(SubCfg)
    /\ IF chip.mqtt # "up" THEN Says(<<"ERROR">>, chip)
       ELSE IF chip.sub THEN Says(<<"ALREADY SUBSCRIBE", "OK">>, chip)
       ELSE Says(<<"OK">>, [chip EXCEPT !.sub = TRUE])

\* After OK and '>' the modem reads the payload, whatever it is.
ChipPubRaw ==
    \E t \in {"meas", "resp"} :
        /\ Cmd(PubRaw(t))
        /\ IF chip.mqtt # "up" THEN Says(<<"ERROR">>, chip)
           ELSE Says(<<"OK">>, [chip EXCEPT !.raw = t])

\* Reading what comes, for at most a second; what was read is published.
Published(what) ==
    [chip EXCEPT !.raw = None,
                 !.mixed = @ \/ (what \in Payloads /\ what # Payload(chip.raw))]
ChipReads ==
    /\ chip.raw # None /\ cmds # <<>>
    /\ Says(<<"+MQTTPUB:OK">>, Published(Head(cmds)))
    /\ up' = IF Head(cmds) = "payload meas" /\ up.owed
             THEN [up EXCEPT !.arrived = TRUE] ELSE up
    /\ UNCHANGED faults
ChipReadsNothing ==
    /\ chip.raw # None /\ cmds = <<>>
    /\ \/ Quiet /\ ctx.nest = <<>> /\ UNCHANGED faults
       \/ ~Quiet /\ Fault("late")
    /\ line' = Append(line, "+MQTTPUB:OK") /\ Len(line') <= MaxLines
    /\ chip' = Published(None)
    /\ UNCHANGED <<kind, ctx, cmds, up>>

\* A command that is none, as what is left of one swallowed: the text of the
\* answer is no "ERROR".
ChipUnknown ==
    /\ cmds # <<>> /\ chip.raw = None
    /\ Head(cmds) \in Payloads \cup {None}
    /\ Says(<<"+ERROR">>, chip)

Chip ==
    \/ /\ \/ ChipRestore \/ ChipPlain \/ ChipMac \/ ChipTime \/ ChipList
          \/ ChipCwState \/ ChipJoin \/ ChipSntp \/ ChipUserCfg \/ ChipConnCfg
          \/ ChipConn \/ ChipIsConn \/ ChipIsSub \/ ChipSub \/ ChipPubRaw
          \/ ChipUnknown
       /\ UNCHANGED <<up, faults>>
    \/ ChipReads
    \/ ChipReadsNothing
-----------------------------------------------------------------------------
(* What else may happen.                                                   *)

\* A line is lost on the UART.
Lose ==
    /\ Fault("lose") /\ line # <<>> /\ line' = Tail(line)
    /\ UNCHANGED <<kind, ctx, cmds, chip, up>>

\* The modem fails to do a command.
ChipFails ==
    /\ Fault("error") /\ cmds # <<>> /\ chip.raw = None
    /\ Says(<<"ERROR">>, chip)
    /\ UNCHANGED up

\* The network or the broker goes away; the modem says nothing of it.
Drop ==
    /\ Fault("drop") /\ chip.mqtt = "up"
    /\ \E j \in {FALSE, chip.joined} :
           chip' = [chip EXCEPT !.joined = j, !.mqtt = "conf", !.sub = FALSE]
    /\ UNCHANGED <<kind, ctx, line, cmds, up>>

\* The broker sends a command to the device.
Remote(e) ==
    /\ Fault("cmd") /\ chip.sub /\ chip.raw = None
    /\ Len(line) < MaxLines /\ line' = Append(line, e)
    /\ UNCHANGED <<kind, ctx, cmds, chip, up>>
-----------------------------------------------------------------------------
Next ==
    \/ Hear \/ Resume \/ TimerFires
    \/ MeasOffline \/ MeasBusy \/ MeasSend
    \/ \E cmd \in {"config", "restart", "list", "autoconnect"} : Command(cmd)
    \/ Chip
    \/ Lose \/ ChipFails \/ Drop
    \/ \E e \in DOMAIN EventCmd : Remote(e)

\* The main loop turns and the modem answers; Measurements tries again and
\* again.
Fairness ==
    /\ WF_vars(Hear) /\ WF_vars(Resume) /\ WF_vars(TimerFires) /\ WF_vars(Chip)
    /\ WF_vars(MeasBusy) /\ WF_vars(MeasOffline)

Spec == Init /\ [][Next]_vars /\ Fairness
-----------------------------------------------------------------------------
TypeOK ==
    /\ kind \in Kinds
    /\ ctx.state \in (IF kind = "wifi" THEN W!States ELSE P!States)
    /\ ctx.before \in (IF kind = "wifi" THEN W!States ELSE P!States)
    /\ ctx.packet \in {None, "meas", "resp"}
    /\ ctx.out = <<>> /\ ctx.ack = None
    /\ Len(line) <= MaxLines /\ Len(cmds) <= MaxCmds /\ Len(ctx.nest) <= MaxNest
    /\ up \in [{"pending", "owed", "arrived"} -> BOOLEAN]
    /\ faults \in [left : 0..MaxFaults, had : SUBSET Faults]

\* A message and the answer to a command that arrives meanwhile share one
\* packet buffer: what the modem reads as the payload of one is never the
\* other's, whatever is lost, late or retried.
PayloadsStayApart == ~chip.mixed

\* Measurements hears of the message before the modem is free for the next
\* one or its recovery begins: no acknowledgement can then be taken for an
\* older message.  Commands that restart the modem are no part of this, nor is
\* what a handler does that slept its 10 ms: no time passes here, so a whole
\* connection and a message on it would fit into them.
AnswerComesFirst ==
    (/\ ctx.state = "MQTT_PUBLISHING" /\ up.owed
     /\ \/ ctx.nest = <<>>
        \/ Innermost(ctx) \in {"time", "list", "listcmd"}
     /\ ctx'.state \notin {"MQTT_PUBLISHING", "OFF", "RESTORE"})
    => ~up'.owed

\* An idle device is subscribed to its commands, so that it can still be told
\* something, once the modem has done what it was asked, whatever lines were
\* lost or whatever commands failed.  It does not hold of both together, nor
\* after a late answer or a restart on command: the driver does not match
\* answers with commands, so that a retry, sent before the OK of the question
\* is in, takes that OK for its own.
IdleIsSubscribed ==
    (/\ ctx.state = "IDLE" /\ Quiet
     /\ faults.had \in {{}, {"lose"}, {"error"}}) => chip.sub

\* Whatever was lost, the device is usable again, or waits to be configured,
\* again and again.  The PoE driver may also wait for ever in three of the four
\* states without a timeout; out of the fourth Measurements resets it.
Usable == ctx.state \in {"IDLE", "NO_CONF"}
Stuck == kind = "poe" /\ ctx.state \in P!NoTimeout \ {"WAIT_TIMESTAMP"}
UsableOrStuck == Usable \/ Stuck
=============================================================================
