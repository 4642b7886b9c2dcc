------------------------------ MODULE Rak3172 -------------------------------
(***************************************************************************)
(* src/comms/rak3172.c: the driver of the RAK3172, handler by handler.     *)
(*                                                                         *)
(* How long the driver waits before it restarts the modem grows from 10 ms *)
(* to 15 minutes with reset_count; there is no time here, so that the      *)
(* count is left out.                                                      *)
(***************************************************************************)
EXTENDS Lw

CONSTANTS Inits         \* the number of _rak3172_init_msgs, 13 in the code

States == {"OFF", "INIT_WAIT_BOOT", "INIT_WAIT_OK", "INIT_WAIT_REPLAY",
           "JOIN_WAIT_OK", "JOIN_WAIT_REPLAY", "JOIN_WAIT_JOIN", "RESETTING",
           "IDLE", "SEND_WAIT_OK", "SEND_WAIT_ACK"}

INIT == <<"INIT", 0>>
OK == <<"OK", 0>>
JOINED == <<"JOINED", 0>>
JOIN_FAILED == <<"JOIN_FAILED", 0>>
ACK == <<"ACK", 0>>
NACK == <<"NACK", 0>>
BUSY == <<"BUSY", 0>>

InitMsg(k) == <<"init", k>>
JoinMsg == <<"join", 0>>
ResetMsg == <<"ATZ", 0>>
SendMsg(what) == CASE what = "meas" -> <<"send meas", 0>>
                   [] what = "err" -> <<"send err", 0>>
                   [] OTHER -> <<"send alive", 0>>
HardReset == <<"PULSE", 0>>     \* the reset line

\* osm_rak3172_init
Start(s) ==
    [state |-> "OFF", init |-> 0, lastSent |-> OK, valid |-> IsValid(s),
     err |-> 0, settings |-> s, next |-> 0, fw |-> <<>>, done |-> FALSE,
     nest |-> <<>>, out |-> <<>>, ack |-> None]

Write(c, cmd) == [c EXCEPT !.out = Append(@, cmd)]
Printf(c, cmd) == [Write(c, cmd) EXCEPT !.lastSent = cmd]
IsReplay(c, l) == l = c.lastSent

\* osm_rak3172_reset, unless it is already under way.
Reset(c) == IF c.state = "RESETTING" THEN c ELSE [c EXCEPT !.state = "RESETTING"]

SendReady(c) == c.state = "IDLE"
SendAllowed(c) == FALSE
Connected(c) == c.state \in {"IDLE", "SEND_WAIT_OK", "SEND_WAIT_ACK"}
-----------------------------------------------------------------------------
(* The modem's lines, by state.                                            *)

ProcessOff(c, l) ==
    IF c.valid /\ l = INIT
    THEN Printf([c EXCEPT !.state = "INIT_WAIT_BOOT", !.init = 0], InitMsg(0))
    ELSE c

ProcessInitWaitBoot(c, l) ==
    IF l = INIT
    THEN Printf([c EXCEPT !.state = "INIT_WAIT_OK", !.init = @ + 1],
                InitMsg(c.init + 1))
    ELSE c

ProcessInitWaitReplay(c, l) ==
    IF l = InitMsg(c.init) THEN [c EXCEPT !.state = "INIT_WAIT_OK"] ELSE c

\* The second message restarts the modem, the third makes it replay lines.
ProcessInitWaitOk(c, l) ==
    IF ~((c.init = 1 /\ l = INIT) \/ l = OK) THEN c
    ELSE IF Inits = c.init + 1
    THEN Printf([c EXCEPT !.state = "JOIN_WAIT_REPLAY"], JoinMsg)
    ELSE Printf([c EXCEPT !.state = IF c.init > 2 THEN "INIT_WAIT_REPLAY"
                                    ELSE "INIT_WAIT_OK",
                          !.init = @ + 1],
                InitMsg(c.init + 1))

ProcessJoinWaitReplay(c, l) ==
    IF IsReplay(c, l) THEN [c EXCEPT !.state = "JOIN_WAIT_OK"] ELSE c

ProcessJoinWaitOk(c, l) ==
    IF l = OK THEN [c EXCEPT !.state = "JOIN_WAIT_JOIN"] ELSE c

ProcessJoinWaitJoin(c, l) ==
    CASE l = JOINED -> [c EXCEPT !.state = "IDLE"]
      [] l = JOIN_FAILED -> Reset(c)
      [] OTHER -> c

ProcessSendOk(c, l) ==
    IF l = OK THEN [c EXCEPT !.state = "SEND_WAIT_ACK"] ELSE c

\* Mutant: the end of a transmission is taken for its success.
AnyEndIsSuccess(c, l) ==
    IF l \in {ACK, NACK} THEN SentAck([c EXCEPT !.state = "IDLE"], TRUE) ELSE c

\* A refusal is not passed on: the modem is reset.
ProcessSendAck(c, l) ==
    CASE l = ACK -> SentAck([c EXCEPT !.state = "IDLE"], TRUE)
      [] l = NACK -> Reset(c)
      [] OTHER -> c
-----------------------------------------------------------------------------
(* Commands, and what comes down from the network.                         *)

\* _rak3172_load_config
LoadConfig(c, s) == [c EXCEPT !.settings = s, !.valid = IsValid(s)]

\* osm_rak3172_cmd_config_cb
CmdConfig(c, s) ==
    LET d == LoadConfig(c, s) IN IF d.valid THEN Reset(d) ELSE d

CmdRestart(c) == Printf([c EXCEPT !.state = "OFF"], ResetMsg)

\* _rak3172_send_alive leaves the state as it is.
CmdConnect(c) == IF SendReady(c) THEN Write(c, SendMsg("alive")) ELSE c

\* comms_txpower, comms_trssi, comms_ttx and comms_trx.
CmdTest(c) == Printf(c, <<"test", 0>>)

\* A command's context and its response, 0 when all is well.
DoCommand(c, cmd) ==
    LET set == CASE cmd = "dev-eui" -> ConfigSetup(c.settings, cmd, "right")
                 [] cmd = "app-key" -> ConfigSetup(c.settings, cmd, "right")
                 [] cmd = "region" -> ConfigSetup(c.settings, cmd, "US915")
                 [] OTHER -> ConfigSetup(c.settings, cmd, "wrong")
    IN  CASE cmd = "restart" -> [c |-> CmdRestart(c), resp |-> 0]
          [] cmd = "connect" -> [c |-> CmdConnect(c), resp |-> 0]
          [] cmd = "test" -> [c |-> CmdTest(c), resp |-> 0]
          [] set.ok -> [c |-> CmdConfig(c, set.s), resp |-> 0]
          [] OTHER -> [c |-> c, resp |-> 1]

\* _rak3172_process_unsol looks for hex digits as far past the start of the
\* data as the text before it is long, 25 characters or more: downlinks of
\* fewer digits are dropped.
Short == {"FW-", "FW@", "CMD connect"}

ProcessUnsol(c, l) ==
    CASE l[1] \in Short -> c
      [] l[1] = "FW+" -> FwChunk(c, l[2])
      [] l[1] = "CMD restart" -> DoCommand(c, "restart").c
      [] l[1] = "CCMD region" ->
             LET r == DoCommand(c, "region") IN [r.c EXCEPT !.err = r.resp]
      [] l[1] = "CCMD nonsense" ->
             LET r == DoCommand(c, "nonsense") IN [r.c EXCEPT !.err = r.resp]
      [] OTHER -> c

ByState(c, l) ==
    CASE c.state = "OFF" -> ProcessOff(c, l)
      [] c.state = "INIT_WAIT_BOOT" -> ProcessInitWaitBoot(c, l)
      [] c.state = "INIT_WAIT_REPLAY" -> ProcessInitWaitReplay(c, l)
      [] c.state = "INIT_WAIT_OK" -> ProcessInitWaitOk(c, l)
      [] c.state = "JOIN_WAIT_REPLAY" -> ProcessJoinWaitReplay(c, l)
      [] c.state = "JOIN_WAIT_OK" -> ProcessJoinWaitOk(c, l)
      [] c.state = "JOIN_WAIT_JOIN" -> ProcessJoinWaitJoin(c, l)
      [] c.state = "SEND_WAIT_OK" -> ProcessSendOk(c, l)
      [] c.state = "SEND_WAIT_ACK" -> ProcessSendAck(c, l)
      [] OTHER -> c

\* osm_rak3172_process
Process(c, l) == ByState(ProcessUnsol(c, l), l)
-----------------------------------------------------------------------------
(* Sending, and the driver's turns.                                        *)

\* osm_rak3172_send: for up to two seconds the main loop runs inside it ...
Send(c, what) == IF SendReady(c) THEN Sleep(c, what) ELSE c

\* ... after which the state is set, whatever it is by then.
AfterSleep(c) ==
    LET d == Return(c) IN
    [Write(d, SendMsg(Innermost(c)))
        EXCEPT !.state = "SEND_WAIT_OK",
               !.err = IF Innermost(c) = "err" THEN 0 ELSE @]

\* The ring to the modem is full: nothing is sent.
SendFails(c) ==
    [Return(c) EXCEPT !.err = IF Innermost(c) = "err" THEN 0 ELSE @]

HasTimeout(c) == IF c.state = "IDLE" THEN c.err # 0 ELSE TRUE

\* osm_rak3172_loop_iteration
Timeout(c) ==
    CASE c.state = "OFF" -> Write(c, HardReset)
      [] c.state = "IDLE" -> Send(c, "err")
      [] c.state = "RESETTING" -> Printf([c EXCEPT !.state = "OFF"], ResetMsg)
      [] c.state = "SEND_WAIT_ACK" -> Reset(SentAck(c, FALSE))
      [] OTHER -> Reset(c)
=============================================================================
