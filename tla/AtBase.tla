------------------------------- MODULE AtBase -------------------------------
(***************************************************************************)
(* What the WiFi and the PoE modem drivers share: at_base.c, at_mqtt.c and *)
(* the context both keep.  A driver is a set of pure operators: each one   *)
(* is a handler of the code and takes the driver's context to the context  *)
(* it leaves behind.                                                       *)
(*                                                                         *)
(* A command for the modem and a line from it are strings, cut down to     *)
(* what the drivers tell apart.  Five handlers sleep for 10 ms, and two    *)
(* commands wait for an answer.                                            *)
(***************************************************************************)
EXTENDS Handlers

\* The settings of MQTT: complete or not (osm_at_mqtt_mem_is_valid and, for
\* WiFi, the SSID and the password).
MemIsValid(c) == c.conf

\* osm_at_base_is_ok, osm_at_base_is_error: the whole line is the word.
IsOk(l) == l = "OK"
IsError(l) == l = "ERROR"

\* A driver's static context, as the image starts with it.
StaticCtx(conf) ==
    [state |-> "OFF", before |-> "OFF", beforeCmd |-> None, lastCmd |-> None,
     conn |-> "down", cw |-> "down", packet |-> None, conf |-> conf,
     time |-> None, mac |-> FALSE, auto |-> TRUE, beforeList |-> "OFF",
     aps |-> 0, enabled |-> TRUE, nest |-> <<>>, out |-> <<>>, ack |-> None]

\* The driver's printf: the command is sent, and remembered as the last one.
Say(c, cmd) == [c EXCEPT !.out = Append(@, cmd), !.lastCmd = cmd]

\* ... after which it waits in a state for the answer.
SayAndWait(c, cmd, s) == [Say(c, cmd) EXCEPT !.state = s]

\* osm_at_base_raw_send: bytes that are no command.
RawSend(c, bytes) == [c EXCEPT !.out = Append(@, bytes)]
-----------------------------------------------------------------------------
(* at_mqtt.c: the commands it prepares.                                    *)

NtpCfg == "AT+CIPSNTPCFG"
UserCfg == "AT+MQTTUSERCFG"
ConnCfg == "AT+MQTTCONNCFG"
MqttConn == "AT+MQTTCONN"
SubCfg == "AT+MQTTSUB"
PubRaw(topic) == IF topic = "resp" THEN "AT+MQTTPUBRAW resp"
                 ELSE "AT+MQTTPUBRAW meas"
Payload(packet) == IF packet = "resp" THEN "payload resp" ELSE "payload meas"
Payloads == {"payload meas", "payload resp"}

\* Mutant: the packet is filled in before the state is looked at.
PrepareFirst(c, topic) ==
    IF c.state # "IDLE" THEN [c EXCEPT !.packet = topic]
    ELSE [SayAndWait(c, PubRaw(topic), "MQTT_WAIT_PUB")
              EXCEPT !.packet = topic]

\* _at_*_mqtt_publish: only an idle modem takes a message.
Publish(c, topic) ==
    IF c.state # "IDLE" THEN c
    ELSE [SayAndWait(c, PubRaw(topic), "MQTT_WAIT_PUB")
              EXCEPT !.packet = topic]

\* osm_at_mqtt_parse_mqtt_conn: connection states from CONN_EST up are up.
ConnLines == {"+MQTTCONN up", "+MQTTCONN down"}
ConnOf(l) == IF l = "+MQTTCONN up" THEN "up" ELSE "down"

\* osm_at_mqtt_topic_match is handed the whole line as the message and finds no
\* link id at its start: no subscription ever matches.
TopicMatch(l) == FALSE

\* osm_at_mqtt_process_event, _at_mqtt_parse_msg and _at_mqtt_parse_payload: a
\* message on the device's command topic holds a command.
EventCmd == [e \in {"+MQTTSUBRECV get", "+MQTTSUBRECV config",
                    "+MQTTSUBRECV restart", "+MQTTSUBRECV list"} |->
                CASE e = "+MQTTSUBRECV get" -> "get"
                  [] e = "+MQTTSUBRECV config" -> "config"
                  [] e = "+MQTTSUBRECV restart" -> "restart"
                  [] OTHER -> "list"]
IsEvent(l) == l \in DOMAIN EventCmd

\* osm_at_base_config_setup_str and the *_config_*_cb commands: the settings
\* are now complete.
Configure(c) == [c EXCEPT !.conf = TRUE]

\* The MAC address, as the WAIT_MAC_ADDRESS state learns it.
KeepMac(c) == [c EXCEPT !.mac = TRUE]
-----------------------------------------------------------------------------
(* The time of a message: osm_at_*_get_unix_time.                          *)

\* An idle modem is asked; what is left of an earlier answer is old by then.
AskTime(c) ==
    Sleep([SayAndWait(c, "AT+SYSTIMESTAMP?", "WAIT_TIMESTAMP")
               EXCEPT !.time = IF @ = None THEN None ELSE "old"], "time")

\* A line in WAIT_TIMESTAMP.
WaitTimestamp(c, l) ==
    IF l = "+SYSTIMESTAMP" THEN [c EXCEPT !.time = "fresh"]
    ELSE IF IsOk(l) THEN [c EXCEPT !.state = "IDLE"]
    ELSE c

\* The wait is over: the answer came, or 50 ms passed and the state is left as
\* it is.
TimeTaken(c) == c.state # "WAIT_TIMESTAMP" /\ c.time = "fresh"
TimeDone(c) ==
    IF c.state = "WAIT_TIMESTAMP" THEN Return(c)
    ELSE [Return(c) EXCEPT !.time = None]
=============================================================================
