------------------------------ MODULE Rak4270 -------------------------------
(***************************************************************************)
(* src/comms/rak4270.c: the driver of the RAK4270, handler by handler.     *)
(*                                                                         *)
(* Nothing enters WAIT_UCONF_OK, WAIT_CODE_OK or WAIT_CONF_OK, the states  *)
(* of an error code's answer, so that they and their handlers are left     *)
(* out.                                                                    *)
(*                                                                         *)
(* Of the time there is what the driver's turns compare: "silent" tells    *)
(* that last_message_time, set by every line written or heard and by       *)
(* nothing else, is over RAK4270_CONFIG_TIMEOUT_S ago, and "slow" that the *)
(* modem is kept off for a quarter of an hour.  The eight bits of          *)
(* reset_count count no further than to SlowAfter + 1, and a quarter of an *)
(* hour left over from before the settings changed is left out.            *)
(***************************************************************************)
EXTENDS Lw

CONSTANTS
    Inits,      \* the number of _init_msgs, 11 in the code
    MaxResend   \* RAK4270_MAX_RESEND, 5 in the code

States == {"OFF", "WAIT_INIT", "WAIT_INIT_OK", "WAIT_REINIT", "WAIT_CONN",
           "WAIT_OK", "WAIT_ACK", "IDLE", "UNCONFIGURED"}

INIT == <<"INIT", 0>>           \* Initialization OK
OK == <<"OK", 0>>
JOINED == <<"JOINED", 0>>       \* OK Join Success
ACK == <<"ACK", 0>>             \* at+recv without data
Error(n) == <<"ERROR", n>>

InitMsg(k) == <<"init", k>>
JoinMsg == <<"join", 0>>
RestartMsg == <<"restart", 0>>
SendMsg(what) == IF what = "meas" THEN <<"send meas", 0>> ELSE <<"send alive", 0>>
PowerOff == <<"OFF", 0>>        \* the reset line
PowerOn == <<"ON", 0>>

\* _rak4270_write_to_uart, and the reset line, which is no message.
Write(c, cmd) == [c EXCEPT !.out = Append(@, cmd), !.silent = FALSE]
Switch(c, level) == [c EXCEPT !.out = Append(@, level)]

ChipOff(c) == Switch([c EXCEPT !.state = "OFF"], PowerOff)
ChipOn(c) == Switch([c EXCEPT !.state = "WAIT_INIT", !.init = 0], PowerOn)

\* osm_rak4270_init
Start(s) ==
    LET c == [state |-> "OFF", init |-> 0, resend |-> 0, backup |-> None,
              settings |-> s, next |-> 0, fw |-> <<>>, done |-> FALSE,
              nest |-> <<>>, out |-> <<>>, ack |-> None,
              silent |-> FALSE, resets |-> 0, slow |-> FALSE]
    IN  IF IsValid(s) THEN ChipOn(c) ELSE [c EXCEPT !.state = "UNCONFIGURED"]

\* osm_rak4270_reset, unless it is already under way.
SlowAfter == 2
Reset(c) ==
    IF c.state = "OFF" THEN c
    ELSE ChipOff([c EXCEPT !.resets = IF @ > SlowAfter THEN @ ELSE @ + 1,
                           !.slow = c.resets >= SlowAfter])

\* _rak4270_reload_config: with the state set first, nothing is reset.
ReloadConfig(c) ==
    IF IsValid(c.settings) THEN Reset([c EXCEPT !.state = "OFF", !.resets = 0])
    ELSE c

SendReady(c) == c.state = "IDLE"
SendAllowed(c) == c.next # 0
Connected(c) == c.state \in {"WAIT_OK", "WAIT_ACK", "IDLE"}
-----------------------------------------------------------------------------
(* Sending, and sending again.                                             *)

Send(c, what) ==
    IF SendReady(c)
    THEN [Write(c, SendMsg(what)) EXCEPT !.state = "WAIT_OK", !.backup = what]
    ELSE c

\* _rak4270_retry_write
RetryWrite(c) ==
    IF c.resend >= MaxResend
    THEN SentAck(Reset([c EXCEPT !.resend = 0]), FALSE)
    ELSE LET d == [c EXCEPT !.resend = @ + 1] IN
         IF c.backup = None THEN d ELSE Send([d EXCEPT !.state = "IDLE"], c.backup)

\* _rak4270_send_alive
SendAlive(c) == Write(c, SendMsg("alive"))

\* _rak4270_handle_error, by the numbers of rak4270_error_codes_t.
HandleError(c, n) ==
    CASE n \in {80, 97, 98} -> RetryWrite(c)
      [] n \in {87, 101} -> Reset(SentAck(c, FALSE))
      [] n \in {95, 96} -> IF Connected(c) THEN RetryWrite(c) ELSE Reset(c)
      [] n \in {100, 104} -> c
      [] OTHER -> Reset(c)
-----------------------------------------------------------------------------
(* The modem's lines, by state.                                            *)

\* _rak4270_write_next_init_step
WriteNextInit(c) ==
    IF c.init >= Inits THEN c
    ELSE [Write(c, InitMsg(c.init)) EXCEPT !.init = @ + 1]

ProcessWaitInit(c, l) ==
    IF l = INIT THEN WriteNextInit([c EXCEPT !.state = "WAIT_INIT_OK"]) ELSE c

ProcessWaitInitOk(c, l) ==
    IF l \notin {OK, JOINED} THEN c
    ELSE IF c.init = Inits
         THEN Write([c EXCEPT !.state = "WAIT_REINIT"], RestartMsg)
         ELSE WriteNextInit(c)

ProcessWaitReinit(c, l) ==
    IF l = INIT THEN Write([c EXCEPT !.state = "WAIT_CONN"], JoinMsg) ELSE c

ProcessWaitConn(c, l) ==
    IF l = JOINED THEN SendAlive([c EXCEPT !.state = "WAIT_OK"]) ELSE c

\* osm_msg_is compares no further than its "OK".
ProcessWaitOk(c, l) ==
    IF l \in {OK, JOINED} THEN [c EXCEPT !.state = "WAIT_ACK"] ELSE c

ProcessWaitAck(c, l) ==
    IF l = ACK
    THEN SentAck([c EXCEPT !.state = "IDLE", !.resend = 0, !.resets = 0,
                            !.backup = None], TRUE)
    ELSE c

\* osm_rak4270_cmd_config_cb
DoCommand(c, cmd) ==
    LET set == IF cmd = "region" THEN ConfigSetup(c.settings, cmd, "US915")
               ELSE ConfigSetup(c.settings, cmd, "right")
    IN  IF set.ok THEN ReloadConfig([c EXCEPT !.settings = set.s]) ELSE c

\* _rak4270_handle_unsol
HandleUnsol(c, l) ==
    CASE l[1] = "FW-" -> FwStart(c)
      [] l[1] = "FW+" -> FwChunk(c, l[2])
      [] l[1] = "FW@" -> FwComplete(c)
      [] l[1] = "CCMD region" -> DoCommand(c, "region")
      [] OTHER -> c             \* a command that is none of the driver's
Downlinks == {"FW-", "FW+", "FW@", "CCMD region", "CCMD nonsense",
              "CMD restart", "CMD connect"}

ByState(c, l) ==
    CASE c.state = "WAIT_INIT" -> ProcessWaitInit(c, l)
      [] c.state = "WAIT_INIT_OK" -> ProcessWaitInitOk(c, l)
      [] c.state = "WAIT_REINIT" -> ProcessWaitReinit(c, l)
      [] c.state = "WAIT_CONN" -> ProcessWaitConn(c, l)
      [] c.state = "WAIT_OK" -> ProcessWaitOk(c, l)
      [] c.state = "WAIT_ACK" -> ProcessWaitAck(c, l)
      [] OTHER -> c

ByLine(c, l) ==
    CASE l[1] = "ERROR" -> HandleError(c, l[2])
      [] l[1] \in Downlinks -> HandleUnsol(c, l)
      [] l = ACK /\ c.state # "WAIT_ACK" -> c
      [] OTHER -> ByState(c, l)

\* osm_rak4270_process
Process(c, l) == ByLine([c EXCEPT !.silent = FALSE], l)
-----------------------------------------------------------------------------
(* The driver's turns: osm_rak4270_loop_iteration.                         *)

HasTimeout(c) ==
    \/ c.state = "OFF" /\ IsValid(c.settings)
    \/ c.state \notin {"OFF", "IDLE", "UNCONFIGURED"}

\* The modem has just been powered, and its time is up already: powering it
\* sets no time.
Overdue(c) == c.state = "WAIT_INIT" /\ c.silent

\* A modem that was kept off for long was silent for long.
PowerUp(c) == ChipOn([c EXCEPT !.silent = @ \/ c.slow, !.slow = FALSE])

Timeout(c) ==
    LET d == [c EXCEPT !.silent = TRUE] IN
    CASE c.state = "OFF" -> PowerUp(c)
      [] c.state \in {"WAIT_OK", "WAIT_ACK"} -> Reset(SentAck(d, FALSE))
      [] OTHER -> Reset(d)
=============================================================================
