------------------------------- MODULE AtWifi -------------------------------
(***************************************************************************)
(* The WiFi modem's driver, at_wifi.c: one operator per handler, from the  *)
(* context and a line to the context the handler leaves (see AtBase).      *)
(***************************************************************************)
EXTENDS AtBase

CONSTANT MaxAps         \* AT_WIFI_AP_LIST_LEN

States ==
    {"OFF", "IS_CONNECTED", "RESTORE", "DISABLE_ECHO", "WAIT_MAC_ADDRESS",
     "NO_CONF", "RF_REGION", "WIFI_SETTING_MODE", "WIFI_INIT",
     "WIFI_CONNECTING", "SNTP_WAIT_SET", "MQTT_WAIT_USR_CONF",
     "MQTT_WAIT_CONF", "MQTT_CONNECTING", "MQTT_WAIT_SUB",
     "MQTT_IS_CONNECTED", "MQTT_IS_SUBSCRIBED", "IDLE", "MQTT_WAIT_PUB",
     "MQTT_PUBLISHING", "WIFI_FAIL_CONNECT", "TIMEDOUT_WIFI_WAIT_STATE",
     "TIMEDOUT_MQTT_WAIT_WIFI_STATE", "TIMEDOUT_MQTT_WAIT_MQTT_STATE",
     "WAIT_TIMESTAMP", "AP_SCAN"}

Start(c) == IF c.state = "RESTORE" THEN c
            ELSE SayAndWait(c, "AT+CWSTATE?", "IS_CONNECTED")
IsMqttConnected(c) == SayAndWait(c, "AT+MQTTCONN?", "MQTT_IS_CONNECTED")
IsMqttSubscribed(c) == SayAndWait(c, "AT+MQTTSUB?", "MQTT_IS_SUBSCRIBED")
Reset(c) == SayAndWait(c, "AT+RESTORE", "RESTORE")
\* The reset pin is pulsed.
HwReset(c) == [RawSend(c, "PULSE") EXCEPT !.state = "RESTORE"]
SendRfRegion(c) == SayAndWait(c, "AT+CWCOUNTRY", "RF_REGION")
DoMqttUserConf(c) == SayAndWait(c, UserCfg, "MQTT_WAIT_USR_CONF")
DoMqttSub(c) == SayAndWait(c, SubCfg, "MQTT_WAIT_SUB")
RetryCommand(c) == SayAndWait(c, c.beforeCmd, c.before)

\* On OK the next command; on ERROR the modem is reset.
OkOrReset(c, l, next) ==
    IF IsOk(l) THEN next ELSE IF IsError(l) THEN Reset(c) ELSE c

CwLines == {"+CWSTATE up", "+CWSTATE joining", "+CWSTATE other", "+CWSTATE down"}
-----------------------------------------------------------------------------
(* The handlers of the states.                                             *)

ProcessOff(c, l) == IF l = "ready" THEN Start(c) ELSE c

\* "other" is another network: the state known is left alone.
ProcessIsConnected(c, l) ==
    CASE l = "+CWSTATE up" -> [c EXCEPT !.cw = "up"]
      [] l = "+CWSTATE joining" -> [c EXCEPT !.cw = "joining"]
      [] l = "+CWSTATE down" -> [c EXCEPT !.cw = "down"]
      [] IsOk(l) ->
            [(CASE c.cw = "up" -> IsMqttConnected(c)
                [] c.cw = "joining" -> [c EXCEPT !.state = "WIFI_CONNECTING"]
                [] OTHER -> Reset(c)) EXCEPT !.cw = "down"]
      [] IsError(l) -> [Reset(c) EXCEPT !.cw = "down"]
      [] OTHER -> c

ProcessRestore(c, l) ==
    CASE l = "ready" -> SayAndWait(c, "ATE0", "DISABLE_ECHO")
      [] IsError(l) -> Reset(c)
      [] OTHER -> c

ProcessDisableEcho(c, l) ==
    OkOrReset(c, l, SayAndWait(c, "AT+CIPSTAMAC?", "WAIT_MAC_ADDRESS"))

\* The one handler that takes no notice of an error.
ProcessWaitMac(c, l) ==
    CASE l = "+CIPSTAMAC" -> KeepMac(c)
      [] IsOk(l) -> IF MemIsValid(c) THEN SendRfRegion(c)
                    ELSE [c EXCEPT !.state = "NO_CONF"]
      [] OTHER -> c

ProcessRfRegion(c, l) == OkOrReset(c, l, Sleep(c, "rf"))
AfterRfRegion(c) == SayAndWait(c, "AT+CWMODE", "WIFI_SETTING_MODE")

ProcessSettingMode(c, l) ==
    OkOrReset(c, l, SayAndWait(c, "AT+CWINIT", "WIFI_INIT"))

ProcessWifiInit(c, l) == OkOrReset(c, l, Sleep(c, "init"))
AfterWifiInit(c) == SayAndWait(c, "AT+CWJAP", "WIFI_CONNECTING")

\* An error is a network out of reach: it is tried again in a minute.
ProcessWifiConn(c, l) ==
    CASE IsOk(l) -> SayAndWait(c, NtpCfg, "SNTP_WAIT_SET")
      [] IsError(l) -> [c EXCEPT !.state = "WIFI_FAIL_CONNECT"]
      [] OTHER -> c

ProcessSntp(c, l) ==
    CASE l = "+TIME_UPDATED" -> Sleep(c, "sntp")
      [] IsError(l) -> Reset(c)
      [] OTHER -> c

ProcessUsrConf(c, l) ==
    OkOrReset(c, l, SayAndWait(c, ConnCfg, "MQTT_WAIT_CONF"))

ProcessIsMqttConnected(c, l) ==
    IF l \in ConnLines THEN [c EXCEPT !.conn = ConnOf(l)]
    ELSE IF IsOk(l)
         THEN [(IF c.conn = "up" THEN IsMqttSubscribed(c) ELSE DoMqttUserConf(c))
                   EXCEPT !.conn = "down"]
    ELSE IF IsError(l) THEN Reset(c) ELSE c

ProcessIsSubscribed(c, l) ==
    OkOrReset(c, l, IF TopicMatch(l) THEN [c EXCEPT !.state = "IDLE"]
                    ELSE DoMqttSub(c))

ProcessWaitConf(c, l) == OkOrReset(c, l, Sleep(c, "conf"))
AfterWaitConf(c) == SayAndWait(c, MqttConn, "MQTT_CONNECTING")

ProcessConnecting(c, l) == OkOrReset(c, l, Sleep(c, "connecting"))

\* Mutant: whatever the modem says, it is subscribed.
WaitSubAnyLine(c, l) == [c EXCEPT !.state = "IDLE"]

ProcessWaitSub(c, l) ==
    IF l = "ALREADY SUBSCRIBE" THEN [c EXCEPT !.state = "IDLE"]
    ELSE OkOrReset(c, l, [c EXCEPT !.state = "IDLE"])

\* An error says nothing to Measurements.
ProcessWaitPub(c, l) ==
    OkOrReset(c, l, RawSend([c EXCEPT !.state = "MQTT_PUBLISHING"],
                            Payload(c.packet)))

ProcessPublishing(c, l) ==
    CASE l = "+MQTTPUB:OK" -> SentAck([c EXCEPT !.state = "IDLE"], TRUE)
      [] IsError(l) -> Reset(SentAck(c, FALSE))
      [] OTHER -> c

TimedoutWifi(c, l) ==
    CASE l = "+CWSTATE up" -> RetryCommand(c)
      [] l \in CwLines \ {"+CWSTATE up"} -> HwReset(c)
      [] OTHER -> c

TimedoutMqttWifi(c, l) ==
    CASE l = "+CWSTATE up" ->
            SayAndWait(c, "AT+MQTTCONN?", "TIMEDOUT_MQTT_WAIT_MQTT_STATE")
      [] l \in CwLines \ {"+CWSTATE up"} -> HwReset(c)
      [] OTHER -> c

TimedoutMqtt(c, l) ==
    CASE l = "+MQTTCONN up" -> RetryCommand(c)
      [] l = "+MQTTCONN down" -> Reset(c)
      [] OTHER -> c

\* A line of the list that does not parse (a name cut short or too long, a
\* number out of range) is not counted.
ApParses(l) == l = "+CWLAP"
ProcessApScan(c, l) ==
    CASE ApParses(l) -> [c EXCEPT !.aps = IF @ < MaxAps THEN @ + 1 ELSE @]
      [] IsOk(l) -> [c EXCEPT !.state = c.beforeList]
      [] OTHER -> c

Handle(c, l) ==
    CASE c.state = "OFF" -> ProcessOff(c, l)
      [] c.state = "IS_CONNECTED" -> ProcessIsConnected(c, l)
      [] c.state = "RESTORE" -> ProcessRestore(c, l)
      [] c.state = "DISABLE_ECHO" -> ProcessDisableEcho(c, l)
      [] c.state = "WAIT_MAC_ADDRESS" -> ProcessWaitMac(c, l)
      [] c.state = "RF_REGION" -> ProcessRfRegion(c, l)
      [] c.state = "WIFI_SETTING_MODE" -> ProcessSettingMode(c, l)
      [] c.state = "WIFI_INIT" -> ProcessWifiInit(c, l)
      [] c.state = "WIFI_CONNECTING" -> ProcessWifiConn(c, l)
      [] c.state = "SNTP_WAIT_SET" -> ProcessSntp(c, l)
      [] c.state = "MQTT_IS_CONNECTED" -> ProcessIsMqttConnected(c, l)
      [] c.state = "MQTT_IS_SUBSCRIBED" -> ProcessIsSubscribed(c, l)
      [] c.state = "MQTT_WAIT_USR_CONF" -> ProcessUsrConf(c, l)
      [] c.state = "MQTT_WAIT_CONF" -> ProcessWaitConf(c, l)
      [] c.state = "MQTT_CONNECTING" -> ProcessConnecting(c, l)
      [] c.state = "MQTT_WAIT_SUB" -> ProcessWaitSub(c, l)
      [] c.state = "MQTT_WAIT_PUB" -> ProcessWaitPub(c, l)
      [] c.state = "MQTT_PUBLISHING" -> ProcessPublishing(c, l)
      [] c.state = "TIMEDOUT_WIFI_WAIT_STATE" -> TimedoutWifi(c, l)
      [] c.state = "TIMEDOUT_MQTT_WAIT_WIFI_STATE" -> TimedoutMqttWifi(c, l)
      [] c.state = "TIMEDOUT_MQTT_WAIT_MQTT_STATE" -> TimedoutMqtt(c, l)
      [] c.state = "WAIT_TIMESTAMP" -> WaitTimestamp(c, l)
      [] c.state = "AP_SCAN" -> ProcessApScan(c, l)
      [] OTHER -> c
-----------------------------------------------------------------------------
(* Commands, from the console or in a message from the broker.             *)

CanList == {"OFF", "IDLE", "TIMEDOUT_WIFI_WAIT_STATE", "NO_CONF",
            "TIMEDOUT_MQTT_WAIT_WIFI_STATE", "TIMEDOUT_MQTT_WAIT_MQTT_STATE",
            "WIFI_FAIL_CONNECT"}

Connected(c) == c.state \in {"IDLE", "MQTT_WAIT_PUB", "MQTT_PUBLISHING",
                             "WAIT_TIMESTAMP"}

\* _at_list_cb: the scan, and the 5 s it waits for its end.
ListStations(c, rest) ==
    IF c.state \notin CanList THEN c
    ELSE Sleep([SayAndWait(c, "AT+CWLAP", "AP_SCAN")
                    EXCEPT !.beforeList = c.state, !.aps = 0,
                           !.enabled = c.enabled /\ ~Connected(c)], rest)
\* measurements_enabled was TRUE when the scan began.
ListDone(c) ==
    [(IF c.state = "AP_SCAN" THEN Reset(Return(c)) ELSE Return(c))
         EXCEPT !.enabled = TRUE]

\* osm_at_wifi_cmd_config_cb, with settings that differ from those before.
CmdConfig(c) ==
    IF c.state = "NO_CONF" THEN SendRfRegion(Configure(c))
    ELSE IF c.auto THEN Reset(Configure(c)) ELSE Configure(c)

DoCommand(c, cmd, rest) ==
    CASE cmd = "config" -> CmdConfig(c)
      [] cmd = "restart" -> Reset(c)
      [] cmd = "list" -> ListStations(c, rest)
      [] cmd = "autoconnect" -> [c EXCEPT !.auto = ~@]
      [] OTHER -> c

\* osm_at_wifi_process.  The answer to a command is published if the modem is
\* idle; a scan asked for by a message answers when it is over.
Process(c, l) ==
    IF ~IsEvent(l) THEN Handle(c, l)
    ELSE LET d == DoCommand(c, EventCmd[l], "listcmd")
         IN  IF d.nest # c.nest THEN d ELSE Publish(d, "resp")

\* The rest of the handler that sleeps: its time is up, or what it waits for
\* has come.
AfterSleep(c) ==
    LET r == Innermost(c) IN
    CASE r = "rf" -> AfterRfRegion(Return(c))
      [] r = "init" -> AfterWifiInit(Return(c))
      [] r = "sntp" -> DoMqttUserConf(Return(c))
      [] r = "conf" -> AfterWaitConf(Return(c))
      [] r = "connecting" -> DoMqttSub(Return(c))
      [] r = "list" -> ListDone(c)
      [] r = "listcmd" -> Publish(ListDone(c), "resp")
-----------------------------------------------------------------------------
(* osm_at_wifi_loop_iteration.                                             *)

TimedoutStartWifiStatus(c, s) ==
    [SayAndWait(c, "AT+CWSTATE?", s)
         EXCEPT !.beforeCmd = c.lastCmd, !.before = c.state]

CheckMqttTimeout(c) ==
    TimedoutStartWifiStatus(
        IF c.state = "MQTT_PUBLISHING" THEN SentAck(c, FALSE) ELSE c,
        "TIMEDOUT_MQTT_WAIT_WIFI_STATE")

WifiStates == {"WIFI_INIT", "WIFI_SETTING_MODE", "WIFI_CONNECTING",
               "SNTP_WAIT_SET"}
MqttStates == {"MQTT_WAIT_USR_CONF", "MQTT_WAIT_CONF", "MQTT_CONNECTING",
               "MQTT_WAIT_SUB", "MQTT_WAIT_PUB", "MQTT_PUBLISHING"}

\* Mutant: a modem being reset is not waited for.
NoWake(c) == c.state \notin {"NO_CONF", "IDLE", "RESTORE"}

HasTimeout(c) == c.state \notin {"NO_CONF", "IDLE"}

Timeout(c) ==
    CASE c.state \in {"OFF", "RESTORE"} -> HwReset(c)
      [] c.state \in WifiStates ->
            TimedoutStartWifiStatus(c, "TIMEDOUT_WIFI_WAIT_STATE")
      [] c.state \in MqttStates -> CheckMqttTimeout(c)
      [] c.state = "WIFI_FAIL_CONNECT" -> Reset(c)
      [] OTHER -> HwReset(c)
=============================================================================
