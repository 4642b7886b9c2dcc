------------------------------- MODULE AtPoe -------------------------------
(***************************************************************************)
(* The Ethernet (PoE) modem's driver, at_poe.c: one operator per handler,  *)
(* from the context and a line to the context the handler leaves (see      *)
(* AtBase).  It is a younger copy of the WiFi driver with fewer states,    *)
(* fewer timeouts, and nothing that remembers the command to retry.        *)
(***************************************************************************)
EXTENDS AtBase

States ==
    {"OFF", "DISABLE_ECHO", "WAIT_MAC_ADDRESS", "NO_CONF", "SNTP_WAIT_SET",
     "MQTT_IS_CONNECTED", "MQTT_IS_SUBSCRIBED", "MQTT_WAIT_USR_CONF",
     "MQTT_WAIT_CONF", "MQTT_CONNECTING", "MQTT_WAIT_SUB", "IDLE",
     "MQTT_WAIT_PUB", "MQTT_PUBLISHING", "TIMEDOUT_WAIT_MQTT_STATE",
     "WAIT_TIMESTAMP"}

Start(c) == SayAndWait(c, "AT+RST", "OFF")
Reset(c) == SayAndWait(c, "AT+RESTORE", "OFF")
SendSntp(c) == SayAndWait(c, NtpCfg, "SNTP_WAIT_SET")
DoMqttUserConf(c) == SayAndWait(c, UserCfg, "MQTT_WAIT_USR_CONF")
DoMqttSub(c) == SayAndWait(c, SubCfg, "MQTT_WAIT_SUB")
\* beforeCmd and before are never set: the command is empty, the state OFF.
RetryCommand(c) == SayAndWait(c, c.beforeCmd, c.before)

\* On OK the next command; on ERROR the modem is reset.
OkOrReset(c, l, next) ==
    IF IsOk(l) THEN next ELSE IF IsError(l) THEN Reset(c) ELSE c
-----------------------------------------------------------------------------
(* The handlers of the states.                                             *)

ProcessOff(c, l) ==
    IF l = "+ETH_GOT_IP" THEN SayAndWait(c, "ATE0", "DISABLE_ECHO") ELSE c

ProcessDisableEcho(c, l) ==
    OkOrReset(c, l, SayAndWait(c, "AT+CIPETHMAC?", "WAIT_MAC_ADDRESS"))

\* The one handler that takes no notice of an error.
ProcessWaitMac(c, l) ==
    CASE l = "+CIPETHMAC" -> KeepMac(c)
      [] IsOk(l) -> IF MemIsValid(c) THEN SendSntp(c)
                    ELSE [c EXCEPT !.state = "NO_CONF"]
      [] OTHER -> c

ProcessSntp(c, l) ==
    CASE l = "+TIME_UPDATED" -> SayAndWait(c, "AT+MQTTCONN?", "MQTT_IS_CONNECTED")
      [] IsError(l) -> Reset(c)
      [] OTHER -> c

ProcessIsMqttConnected(c, l) ==
    IF l \in ConnLines THEN [c EXCEPT !.conn = ConnOf(l)]
    ELSE IF IsOk(l)
         THEN [(IF c.conn = "up"
                THEN SayAndWait(c, "AT+MQTTSUB?", "MQTT_IS_SUBSCRIBED")
                ELSE DoMqttUserConf(c)) EXCEPT !.conn = "down"]
    ELSE IF IsError(l) THEN Reset(c) ELSE c

ProcessUsrConf(c, l) ==
    OkOrReset(c, l, SayAndWait(c, ConnCfg, "MQTT_WAIT_CONF"))

ProcessIsSubscribed(c, l) ==
    OkOrReset(c, l, IF TopicMatch(l) THEN [c EXCEPT !.state = "IDLE"]
                    ELSE DoMqttSub(c))

ProcessWaitConf(c, l) == OkOrReset(c, l, Sleep(c, "conf"))
AfterWaitConf(c) == SayAndWait(c, MqttConn, "MQTT_CONNECTING")

ProcessConnecting(c, l) == OkOrReset(c, l, Sleep(c, "connecting"))

ProcessWaitSub(c, l) ==
    IF l = "ALREADY SUBSCRIBE" THEN [c EXCEPT !.state = "IDLE"]
    ELSE OkOrReset(c, l, [c EXCEPT !.state = "IDLE"])

\* An error says nothing to Measurements.
ProcessWaitPub(c, l) ==
    OkOrReset(c, l, RawSend([c EXCEPT !.state = "MQTT_PUBLISHING"],
                            Payload(c.packet)))

ProcessPublishing(c, l) ==
    CASE l = "+MQTTPUB:OK" -> SentAck([c EXCEPT !.state = "IDLE"], TRUE)
      [] IsError(l) -> Reset(SentAck(c, FALSE))
      [] OTHER -> c

TimedoutMqtt(c, l) ==
    CASE l = "+MQTTCONN up" -> RetryCommand(c)
      [] l = "+MQTTCONN down" -> Reset(c)
      [] OTHER -> c

Handle(c, l) ==
    CASE c.state = "OFF" -> ProcessOff(c, l)
      [] c.state = "DISABLE_ECHO" -> ProcessDisableEcho(c, l)
      [] c.state = "WAIT_MAC_ADDRESS" -> ProcessWaitMac(c, l)
      [] c.state = "SNTP_WAIT_SET" -> ProcessSntp(c, l)
      [] c.state = "MQTT_IS_CONNECTED" -> ProcessIsMqttConnected(c, l)
      [] c.state = "MQTT_IS_SUBSCRIBED" -> ProcessIsSubscribed(c, l)
      [] c.state = "MQTT_WAIT_USR_CONF" -> ProcessUsrConf(c, l)
      [] c.state = "MQTT_WAIT_CONF" -> ProcessWaitConf(c, l)
      [] c.state = "MQTT_CONNECTING" -> ProcessConnecting(c, l)
      [] c.state = "MQTT_WAIT_SUB" -> ProcessWaitSub(c, l)
      [] c.state = "MQTT_WAIT_PUB" -> ProcessWaitPub(c, l)
      [] c.state = "MQTT_PUBLISHING" -> ProcessPublishing(c, l)
      [] c.state = "TIMEDOUT_WAIT_MQTT_STATE" -> TimedoutMqtt(c, l)
      [] c.state = "WAIT_TIMESTAMP" -> WaitTimestamp(c, l)
      [] OTHER -> c
-----------------------------------------------------------------------------
(* Commands, and what the main loop asks of the driver.                    *)

Connected(c) == c.state \in {"IDLE", "MQTT_WAIT_PUB", "MQTT_PUBLISHING",
                             "WAIT_TIMESTAMP"}

\* osm_at_poe_cmd_config_cb, with settings that differ from those before.
CmdConfig(c) ==
    IF c.state = "NO_CONF" THEN SendSntp(Configure(c)) ELSE Start(Configure(c))

DoCommand(c, cmd) ==
    CASE cmd = "config" -> CmdConfig(c)
      [] cmd = "restart" -> Reset(c)
      [] OTHER -> c

\* osm_at_poe_process.
Process(c, l) ==
    IF IsEvent(l) THEN Publish(DoCommand(c, EventCmd[l]), "resp")
    ELSE Handle(c, l)

\* The rest of the handler that sleeps.
AfterSleep(c) ==
    IF Innermost(c) = "conf" THEN AfterWaitConf(Return(c))
    ELSE DoMqttSub(Return(c))

MqttStates == {"MQTT_WAIT_USR_CONF", "MQTT_WAIT_CONF", "MQTT_CONNECTING",
               "MQTT_WAIT_SUB", "MQTT_WAIT_PUB", "MQTT_PUBLISHING"}

CheckMqttTimeout(c) ==
    SayAndWait(IF c.state = "MQTT_PUBLISHING" THEN SentAck(c, FALSE) ELSE c,
               "AT+MQTTCONN?", "TIMEDOUT_WAIT_MQTT_STATE")

\* osm_at_poe_loop_iteration: four states have no timeout at all, as IDLE and
\* NO_CONF have none.
NoTimeout == {"WAIT_MAC_ADDRESS", "MQTT_IS_SUBSCRIBED",
              "TIMEDOUT_WAIT_MQTT_STATE", "WAIT_TIMESTAMP"}
HasTimeout(c) == c.state \notin {"NO_CONF", "IDLE"} \cup NoTimeout

Timeout(c) ==
    CASE c.state = "OFF" -> Start(c)
      [] c.state \in MqttStates -> CheckMqttTimeout(c)
      [] OTHER -> Reset(c)
=============================================================================
