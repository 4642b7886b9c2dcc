--------------------------- MODULE ModemsIdleProofs ---------------------------
(***************************************************************************)
(* Proofs about the WiFi and PoE modems of Modems: a device that is idle   *)
(* is subscribed to its commands, on either chip and with any number of    *)
(* faults, while all of them are lost lines or all of them failed orders.  *)
(*                                                                         *)
(* The invariant, Stretch, goes with the device along its way: it boots,   *)
(* is set up, connects to the broker, subscribes, is connected, and finds  *)
(* out that it no longer is.  For each stretch it says what the driver,    *)
(* its sleeping handlers, the modem and the lines between them may be at   *)
(* the same time.                                                          *)
(***************************************************************************)
EXTENDS ModemsProofs

(* WiFi, PoE: an idle device is subscribed to its commands.  While no more *)
(* goes wrong than lines being lost, or than commands that fail, the       *)
(* driver and the modem keep one of six relations, one for each stretch of *)
(* the way from the boot to the subscription and back.                     *)

Scope == {"lose", "error"}

\* A queue out of S, but for its last entry, which is out of W.
Ends(q, S, W) ==
    /\ q \in Seq(S \cup W) /\ q # <<>> /\ q[Len(q)] \in W
    /\ \A i \in 1..Len(q) - 1 : q[i] \in S

\* The command a state waits for the answer of, and what there is to hear of
\* the answer.
Order(s) ==
    CASE s = "IS_CONNECTED" -> "AT+CWSTATE?"
      [] s = "DISABLE_ECHO" -> "ATE0"
      [] s = "WAIT_MAC_ADDRESS" -> IF kind = "wifi" THEN "AT+CIPSTAMAC?" ELSE "AT+CIPETHMAC?"
      [] s = "RF_REGION" -> "AT+CWCOUNTRY"
      [] s = "WIFI_SETTING_MODE" -> "AT+CWMODE"
      [] s = "WIFI_INIT" -> "AT+CWINIT"
      [] s = "WIFI_CONNECTING" -> "AT+CWJAP"
      [] s = "SNTP_WAIT_SET" -> "AT+CIPSNTPCFG"
      [] s = "MQTT_IS_CONNECTED" -> "AT+MQTTCONN?"
      [] s = "MQTT_WAIT_USR_CONF" -> "AT+MQTTUSERCFG"
      [] s = "MQTT_WAIT_CONF" -> "AT+MQTTCONNCFG"
      [] s = "MQTT_CONNECTING" -> "AT+MQTTCONN"
      [] s = "MQTT_WAIT_SUB" -> "AT+MQTTSUB"
      [] s = "WAIT_TIMESTAMP" -> "AT+SYSTIMESTAMP?"
      [] OTHER -> "none"
Parts(s) ==
    CASE s = "IS_CONNECTED" -> {<<"OK">>, <<"+CWSTATE down", "OK">>}
      [] s = "WAIT_MAC_ADDRESS" -> {<<"OK">>, <<"+CIPSTAMAC", "OK">>, <<"+CIPETHMAC", "OK">>}
      [] s = "SNTP_WAIT_SET" -> {<<"+TIME_UPDATED">>, <<"OK", "+TIME_UPDATED">>}
      [] s = "MQTT_IS_CONNECTED" -> {<<"OK">>, <<"+MQTTCONN down", "OK">>}
      [] s = "WAIT_TIMESTAMP" -> {<<"OK">>, <<"+SYSTIMESTAMP", "OK">>}
      [] OTHER -> {<<"OK">>}

\* Driver and modem take turns.
Silent(k, l) == k = <<>> /\ l = <<>>
Ordered(s, k, l) == k = <<Order(s)>> /\ l = <<>>
Failed(k, l, m) == m = "error" /\ k = <<>> /\ l = <<"ERROR">>
Turn(s, k, l, m) ==
    \/ Ordered(s, k, l)
    \/ k = <<>> /\ l \in Parts(s)
    \/ Failed(k, l, m)
    \/ m = "lose" /\ Silent(k, l)

Unconfigured(h) == h.mqtt = "down" /\ ~h.sub /\ h.raw = "none"

\* The modem boots, or is about to.
Bell == IF kind = "wifi" THEN "ready" ELSE "+ETH_GOT_IP"
Restarts == {"AT+RESTORE", "AT+RST"}
Questions == {"AT+CWSTATE?", "AT+MQTTCONN?", "none"}
Talk == {"OK", "ready", "+ETH_GOT_IP", "+CWSTATE up", "+CWSTATE down", "+MQTTCONN up",
         "+MQTTCONN down", "+MQTTPUB:OK", "+ERROR"}
Noise == Talk \ {Bell}
Booting(s, n, h, k, l, m) ==
    /\ s \in {"OFF", "RESTORE"} /\ n = <<>> /\ (kind = "poe" => s = "OFF")
    /\ \/ k = <<>> /\ Ends(l, Noise, {Bell}) /\ Unconfigured(h) /\ ~h.joined
       \/ k = <<>> /\ l \in Seq(Noise)
       \/ /\ m = "lose" /\ l \in Seq(Noise)
          /\ k \in Seq(Questions) \/ Ends(k, Questions, Restarts)
       \/ m = "error" /\ l = <<>> /\ \E w \in Restarts : k = <<w>>
       \/ Failed(k, l, m)

\* It is set up, and joins its network.
Alone == {"IS_CONNECTED", "DISABLE_ECHO", "WAIT_MAC_ADDRESS", "RF_REGION",
          "WIFI_SETTING_MODE", "WIFI_INIT"}
Retried == {"WIFI_INIT", "WIFI_SETTING_MODE", "WIFI_CONNECTING", "SNTP_WAIT_SET"}
PoeSets == {"DISABLE_ECHO", "WAIT_MAC_ADDRESS", "NO_CONF", "SNTP_WAIT_SET",
            "MQTT_IS_CONNECTED"}
CwTalk == {"OK", "+CWSTATE up", "+CWSTATE down"}
JoinOrders == {"AT+CWSTATE?", "AT+CWJAP"}
Settling(s, n, x, p, y, h, k, l, m) ==
    /\ Unconfigured(h) /\ (kind = "poe" => s \in PoeSets)
    /\ s \in Alone => ~h.joined
    /\ s \in Retried => x = Order(s)
    /\ \/ s \in Alone \cup {"MQTT_IS_CONNECTED"} /\ n = <<>> /\ Turn(s, k, l, m)
       \/ s \in {"WIFI_CONNECTING", "SNTP_WAIT_SET"} /\ n = <<>> /\ m = "error" /\ Turn(s, k, l, m)
       \/ /\ s = "WIFI_CONNECTING" /\ n = <<>> /\ m = "lose"
          /\ k \in Seq(JoinOrders) /\ l \in Seq(CwTalk)
       \/ /\ s = "SNTP_WAIT_SET" /\ n = <<>> /\ m = "lose"
          /\ \/ k = <<>> /\ Ends(l, CwTalk, {"+TIME_UPDATED"})
             \/ /\ l \in Seq(CwTalk)
                /\ k \in Seq(JoinOrders) \/ Ends(k, JoinOrders, {"AT+CIPSNTPCFG"})
       \/ /\ Silent(k, l)
          /\ \/ s \in {"NO_CONF", "WIFI_FAIL_CONNECT", "WAIT_MAC_ADDRESS"} /\ n = <<>>
             \/ s = "RF_REGION" /\ n = <<"rf">>
             \/ s = "WIFI_INIT" /\ n = <<"init">>
             \/ s = "SNTP_WAIT_SET" /\ n = <<"sntp">> /\ kind = "wifi"
       \/ /\ s = "TIMEDOUT_WIFI_WAIT_STATE" /\ n = <<>> /\ m = "lose"
          /\ p \in Retried /\ y = Order(p) /\ k \in Seq({"AT+CWSTATE?"})
          /\ \/ p \in {"WIFI_CONNECTING", "SNTP_WAIT_SET"} /\ l \in Seq(CwTalk)
             \/ ~h.joined /\ l \in Seq(CwTalk \ {"+CWSTATE up"})

\* It is to connect to the broker.
Linking(s, n, x, h, k, l, m) ==
    /\ ~h.sub /\ h.raw = "none" /\ x = Order(s)
    /\ \/ /\ s = "MQTT_WAIT_USR_CONF" /\ n = <<>> /\ Turn(s, k, l, m)
          /\ h.mqtt = "conf" \/ (h.mqtt = "down" /\ l # <<"OK">>)
       \/ s = "MQTT_WAIT_CONF" /\ n = <<>> /\ Turn(s, k, l, m) /\ h.mqtt = "conf"
       \/ s = "MQTT_WAIT_CONF" /\ n = <<"conf">> /\ Silent(k, l) /\ h.mqtt = "conf"
       \/ /\ s = "MQTT_CONNECTING" /\ n = <<>> /\ h.mqtt = "conf"
          /\ Ordered(s, k, l) \/ Failed(k, l, m)

\* No answer came, and the driver asks how things are.
Asking == {"TIMEDOUT_MQTT_WAIT_WIFI_STATE", "TIMEDOUT_MQTT_WAIT_MQTT_STATE",
           "TIMEDOUT_WAIT_MQTT_STATE"}
Linked == {"MQTT_CONNECTING", "MQTT_WAIT_SUB"}
Publishing == {"MQTT_WAIT_PUB", "MQTT_PUBLISHING"}
Pubs == {"AT+MQTTPUBRAW meas", "AT+MQTTPUBRAW resp"}
StallTalk == {"OK", "+CWSTATE up", "+CWSTATE down", "+MQTTCONN up", "+MQTTCONN down",
              "+MQTTPUB:OK"}
Stalled(s, n, p, y, h, k, l, m) ==
    /\ m = "lose" /\ s \in Asking /\ n = <<>>
    /\ kind = "poe" <=> s = "TIMEDOUT_WAIT_MQTT_STATE"
    /\ k \in Seq({"AT+CWSTATE?", "AT+MQTTCONN?"}) /\ l \in Seq(StallTalk)
    /\ \/ h.mqtt # "up" /\ l \in Seq(StallTalk \ {"+MQTTCONN up"})
       \/ h.mqtt = "up" /\ kind = "poe"
       \/ h.mqtt = "up" /\ p \in Linked /\ y = Order(p) /\ h.raw = "none"
          /\ (p # "MQTT_CONNECTING" => h.sub)
       \/ h.mqtt = "up" /\ p \in Publishing /\ y \in Pubs /\ h.sub

\* It is connected, and lines may be lost: the answers are any, but the
\* subscription is on its way.
LateOrders == Pubs \cup {"payload meas", "payload resp", "AT+MQTTCONN", "AT+MQTTSUB",
                         "AT+SYSTIMESTAMP?", "AT+CWSTATE?", "AT+MQTTCONN?"}
LateTalk == StallTalk \cup {"ALREADY SUBSCRIBE", "+SYSTIMESTAMP", "+ERROR"}
Bare(h, k) == h.raw = "none" /\ \A i \in 1..Len(k) : k[i] \notin Pubs
Subscribes(h, k) ==
    \/ h.sub
    \/ /\ h.raw = "none"
       /\ \E i \in 1..Len(k) : k[i] = "AT+MQTTSUB" /\ \A j \in 1..i : k[j] \notin Pubs
Connected(s, n, x, h, k, l, m) ==
    /\ m = "lose" /\ h.mqtt = "up" /\ k \in Seq(LateOrders) /\ l \in Seq(LateTalk)
    /\ \/ s \in Linked \cup {"IDLE"} /\ n \in Seq({"connecting"}) /\ Bare(h, k)
       \/ s \in {"IDLE", "WAIT_TIMESTAMP"} /\ n \in {<<>>, <<"time">>}
       \/ s \in Publishing /\ n = <<>> /\ x \in Pubs
    /\ s # "MQTT_CONNECTING" => Subscribes(h, k)
    /\ s \in Linked => x = Order(s)

\* It is connected, and commands may fail: they take turns.
Careful(s, n, h, k, l, m) ==
    /\ m = "error" /\ h.mqtt = "up"
    /\ \/ /\ s = "MQTT_CONNECTING" /\ n = <<>> /\ h.raw = "none" /\ ~h.sub
          /\ k = <<>> /\ l = <<"OK">>
       \/ /\ s = "MQTT_CONNECTING" /\ n = <<"connecting">> /\ h.raw = "none" /\ ~h.sub
          /\ Silent(k, l)
       \/ /\ s = "MQTT_WAIT_SUB" /\ n = <<>> /\ h.raw = "none" /\ Turn(s, k, l, m)
          /\ h.sub <=> (l = <<"OK">>)
       \/ /\ s = "IDLE" /\ n \in {<<>>, <<"time">>} /\ h.raw = "none" /\ h.sub
          /\ Silent(k, l)
       \/ /\ s = "WAIT_TIMESTAMP" /\ n \in {<<>>, <<"time">>} /\ h.raw = "none" /\ h.sub
          /\ Turn(s, k, l, m) \/ Silent(k, l)
       \/ /\ s = "MQTT_WAIT_PUB" /\ n = <<>> /\ h.sub
          /\ \/ l = <<>> /\ h.raw = "none" /\ \E w \in Pubs : k = <<w>>
             \/ k = <<>> /\ l = <<"OK">> /\ h.raw # "none"
             \/ Failed(k, l, m) /\ h.raw = "none"
       \/ /\ s = "MQTT_PUBLISHING" /\ n = <<>> /\ h.sub
          /\ \/ l = <<>> /\ h.raw # "none" /\ \E w \in {"payload meas", "payload resp"} : k = <<w>>
             \/ k = <<>> /\ l = <<"+MQTTPUB:OK">> /\ h.raw = "none"

Stretch(s, n, x, p, y, h, k, l, m) ==
    /\ kind = "poe" => y = "none" /\ p = "OFF"
    /\ \/ Booting(s, n, h, k, l, m) \/ Settling(s, n, x, p, y, h, k, l, m)
       \/ Linking(s, n, x, h, k, l, m) \/ Stalled(s, n, p, y, h, k, l, m)
       \/ Connected(s, n, x, h, k, l, m) \/ Careful(s, n, h, k, l, m)
-----------------------------------------------------------------------------
LEMMA Shorter ==
  ASSUME NEW S, NEW q \in Seq(S), q # <<>>
  PROVE  /\ Head(q) \in S /\ Tail(q) \in Seq(S)
         /\ Len(q) \in Nat /\ Len(Tail(q)) = Len(q) - 1 /\ Head(q) = q[1]
         /\ \A i \in 1..Len(q) - 1 : Tail(q)[i] = q[i + 1]
OBVIOUS

LEMMA Wider ==
  ASSUME NEW S, NEW T, S \subseteq T, NEW q \in Seq(S)
  PROVE  q \in Seq(T)
OBVIOUS

LEMMA Joined ==
  ASSUME NEW S, NEW q \in Seq(S), NEW r \in Seq(S)
  PROVE  /\ q \o r \in Seq(S) /\ Len(q \o r) = Len(q) + Len(r)
         /\ Len(q) \in Nat /\ Len(r) \in Nat
         /\ \A i \in 1..Len(q) : (q \o r)[i] = q[i]
         /\ \A i \in 1..Len(r) : (q \o r)[Len(q) + i] = r[i]
OBVIOUS

LEMMA ShortLists ==
  ASSUME NEW a, NEW b
  PROVE  /\ <<a>> # <<>> /\ Head(<<a>>) = a /\ Tail(<<a>>) = <<>> /\ <<>> \o <<a>> = <<a>>
         /\ Append(<<>>, a) = <<a>>
         /\ <<a, b>> # <<>> /\ Head(<<a, b>>) = a /\ Tail(<<a, b>>) = <<b>>
         /\ <<>> \o <<a, b>> = <<a, b>>
OBVIOUS

LEMMA InOrder ==
  ASSUME NEW S
  PROVE  /\ <<>> \in Seq(S)
         /\ \A a \in S : <<a>> \in Seq(S)
         /\ \A a \in S : \A b \in S : <<a, b>> \in Seq(S)
OBVIOUS

LEMMA EndsTail ==
  ASSUME NEW S, NEW W, NEW q, Ends(q, S, W)
  PROVE  /\ q # <<>>
         /\ \/ Head(q) \in W /\ Tail(q) = <<>>
            \/ Head(q) \in S /\ Ends(Tail(q), S, W)
<1>1. /\ q \in Seq(S \cup W) /\ q # <<>> /\ q[Len(q)] \in W
      /\ \A i \in 1..Len(q) - 1 : q[i] \in S
  BY DEF Ends
<1>2. PICK t : t = Tail(q)
  OBVIOUS
<1>3. /\ t \in Seq(S \cup W) /\ Len(q) \in Nat /\ Len(t) = Len(q) - 1 /\ Head(q) = q[1]
      /\ \A i \in 1..Len(q) - 1 : t[i] = q[i + 1]
  BY <1>1, <1>2, Shorter
<1>4. CASE t = <<>>
  <2>1. Len(q) = 1
    BY <1>3, <1>4
  <2> QED BY <1>1, <1>2, <1>3, <1>4, <2>1
<1>5. CASE t # <<>>
  <2>1. Len(q) >= 2
    BY <1>3, <1>5
  <2>2. Head(q) \in S /\ t[Len(t)] \in W
    BY <1>1, <1>3, <2>1
  <2>3. \A i \in 1..Len(t) - 1 : t[i] \in S
    BY <1>1, <1>3, <2>1
  <2> QED BY <1>1, <1>2, <1>3, <1>5, <2>2, <2>3 DEF Ends
<1> QED BY <1>4, <1>5

LEMMA EndsBehind ==
  ASSUME NEW S, NEW W, NEW q \in Seq(S), NEW r, Ends(r, S, W)
  PROVE  Ends(q \o r, S, W)
<1>1. /\ r \in Seq(S \cup W) /\ r # <<>> /\ r[Len(r)] \in W /\ q \in Seq(S \cup W)
      /\ \A i \in 1..Len(r) - 1 : r[i] \in S
  BY Wider DEF Ends
<1>2. PICK a : a = q \o r
  OBVIOUS
<1>3. /\ a \in Seq(S \cup W) /\ Len(a) = Len(q) + Len(r) /\ Len(q) \in Nat /\ Len(r) \in Nat
      /\ \A i \in 1..Len(q) : a[i] = q[i]
      /\ \A i \in 1..Len(r) : a[Len(q) + i] = r[i]
  BY <1>1, <1>2, Joined
<1>4. Len(r) >= 1 /\ Len(r) \in 1..Len(r)
  BY <1>1, <1>3
<1>5. a # <<>> /\ a[Len(a)] \in W
  BY <1>1, <1>3, <1>4
<1>6. ASSUME NEW i \in 1..Len(a) - 1 PROVE a[i] \in S
  <2>1. CASE i \in 1..Len(q)
    BY <1>3, <2>1
  <2>2. CASE i \notin 1..Len(q)
    <3>1. PICK j : j = i - Len(q)
      OBVIOUS
    <3>2. j \in 1..Len(r) - 1 /\ j \in 1..Len(r) /\ i = Len(q) + j
      BY <1>3, <1>4, <2>2, <3>1
    <3>3. a[i] = r[j]
      BY <1>3, <3>2
    <3> QED BY <1>1, <3>2, <3>3
  <2> QED BY <2>1, <2>2
<1> QED BY <1>2, <1>3, <1>5, <1>6 DEF Ends

LEMMA EndsOne ==
  ASSUME NEW S, NEW W, NEW w \in W
  PROVE  Ends(<<w>>, S, W)
BY DEF Ends

LEMMA EndsTwo ==
  ASSUME NEW S, NEW W, NEW s \in S, NEW w \in W
  PROVE  Ends(<<s, w>>, S, W)
BY DEF Ends

LEMMA EndsThree ==
  ASSUME NEW S, NEW W, NEW s \in S, NEW t \in S, NEW w \in W
  PROVE  Ends(<<s, t, w>>, S, W)
BY DEF Ends

\* The boot, as the modem tells of it.
BootTale == IF kind = "wifi" THEN <<"OK", "ready">> ELSE <<"OK", "ready", "+ETH_GOT_IP">>

LEMMA BootTells ==
  Ends(BootTale, Noise, {Bell}) /\ <<>> \o BootTale = BootTale
<1>1. "OK" \in Noise /\ (kind # "wifi" => "ready" \in Noise)
  BY DEF Noise, Talk, Bell
<1>2. CASE kind = "wifi"
  <2>1. BootTale = <<"OK", "ready">> /\ "ready" \in {Bell}
    BY <1>2 DEF BootTale, Bell
  <2> QED BY <1>1, <2>1, EndsTwo, ShortLists
<1>3. CASE kind # "wifi"
  <2>1. BootTale = <<"OK", "ready", "+ETH_GOT_IP">> /\ "+ETH_GOT_IP" \in {Bell}
    BY <1>3 DEF BootTale, Bell
  <2>2. <<>> \o BootTale = BootTale
    BY <2>1
  <2> QED BY <1>1, <1>3, <2>1, <2>2, EndsThree
<1> QED BY <1>2, <1>3
-----------------------------------------------------------------------------
(* What the modem does, and what goes wrong: from the modem h, the commands *)
(* k and the lines l to g, j and i.                                         *)

AtChips == [joined : BOOLEAN, mqtt : {"down", "conf", "up"}, sub : BOOLEAN,
          raw : {"none", "meas", "resp"}, mixed : BOOLEAN]
Set(g, joined, mqtt, sub, raw) ==
    g.joined = joined /\ g.mqtt = mqtt /\ g.sub = sub /\ g.raw = raw
Kept(g, h) == Set(g, h.joined, h.mqtt, h.sub, h.raw)

Easy == {"ATE0", "AT+CWCOUNTRY", "AT+CWMODE", "AT+CWINIT", "AT+MQTTCONNCFG"}
Reply(w, h, a, g) ==
    /\ w \in Restarts =>
         /\ Set(g, FALSE, "down", FALSE, "none")
         /\ a = BootTale
    /\ w \in Easy => a = <<"OK">> /\ Kept(g, h)
    /\ w = "AT+CIPSTAMAC?" => a = <<"+CIPSTAMAC", "OK">> /\ Kept(g, h)
    /\ w = "AT+CIPETHMAC?" => a = <<"+CIPETHMAC", "OK">> /\ Kept(g, h)
    /\ w = "AT+SYSTIMESTAMP?" => a = <<"+SYSTIMESTAMP", "OK">> /\ Kept(g, h)
    /\ w = "AT+CWSTATE?" =>
         a = <<IF h.joined THEN "+CWSTATE up" ELSE "+CWSTATE down", "OK">> /\ Kept(g, h)
    /\ w = "AT+CWJAP" => a = <<"OK">> /\ Set(g, TRUE, h.mqtt, h.sub, h.raw)
    /\ w = "AT+CIPSNTPCFG" => a = <<"OK", "+TIME_UPDATED">> /\ Kept(g, h)
    /\ w = "AT+MQTTUSERCFG" => a = <<"OK">> /\ Set(g, h.joined, "conf", FALSE, h.raw)
    /\ w = "AT+MQTTCONN" =>
         IF h.mqtt = "down" THEN a = <<"ERROR">> /\ Kept(g, h)
         ELSE a = <<"OK">> /\ Set(g, h.joined, "up", h.sub, h.raw)
    /\ w = "AT+MQTTCONN?" =>
         a = <<IF h.mqtt = "up" THEN "+MQTTCONN up" ELSE "+MQTTCONN down", "OK">> /\ Kept(g, h)
    /\ w = "AT+MQTTSUB" =>
         IF h.mqtt # "up" THEN a = <<"ERROR">> /\ Kept(g, h)
         ELSE IF h.sub THEN a = <<"ALREADY SUBSCRIBE", "OK">> /\ Kept(g, h)
         ELSE a = <<"OK">> /\ Set(g, h.joined, h.mqtt, TRUE, h.raw)
    /\ w \in Pubs =>
         IF h.mqtt # "up" THEN a = <<"ERROR">> /\ Kept(g, h)
         ELSE /\ a = <<"OK">> /\ \E t \in {"meas", "resp"} : Set(g, h.joined, h.mqtt, h.sub, t)
    /\ w \in {"payload meas", "payload resp", "none"} => a = <<"+ERROR">> /\ Kept(g, h)

Replies(h, k, l, g, j, i) ==
    /\ k # <<>> /\ h.raw = "none" /\ j = Tail(k)
    /\ \E a : i = l \o a /\ Reply(Head(k), h, a, g)
Swallows(h, k, l, g, j, i) ==
    /\ k # <<>> /\ h.raw # "none" /\ j = Tail(k)
    /\ i = l \o <<"+MQTTPUB:OK">> /\ Set(g, h.joined, h.mqtt, h.sub, "none")
Starves(h, k, l, g, j, i) ==
    /\ k = <<>> /\ l = <<>> /\ h.raw # "none" /\ j = <<>>
    /\ i = <<"+MQTTPUB:OK">> /\ Set(g, h.joined, h.mqtt, h.sub, "none")
Loses(h, k, l, g, j, i, m) ==
    m = "lose" /\ l # <<>> /\ g = h /\ j = k /\ i = Tail(l)
Fails(h, k, l, g, j, i, m) ==
    /\ m = "error" /\ k # <<>> /\ h.raw = "none"
    /\ g = h /\ j = Tail(k) /\ i = l \o <<"ERROR">>
Talks(h, k, l, g, j, i, m) ==
    \/ Replies(h, k, l, g, j, i) \/ Swallows(h, k, l, g, j, i)
    \/ Starves(h, k, l, g, j, i) \/ Loses(h, k, l, g, j, i, m) \/ Fails(h, k, l, g, j, i, m)

LEMMA ReplyOf ==
  ASSUME IsAt, chip \in AtChips, NEW ls, NEW c, A!Says(ls, c), cmds # <<>>, chip.raw = "none",
         c \in AtChips, Reply(Head(cmds), chip, ls, c)
  PROVE  chip' \in AtChips /\ Replies(chip, cmds, line, chip', cmds', line')
BY DEF A!Says, Replies

LEMMA PlainReplies ==
  ASSUME IsAt, chip \in AtChips, chip.raw = "none",
         A!ChipPlain \/ A!ChipMac \/ A!ChipTime \/ A!ChipCwState \/ A!ChipSntp \/ A!ChipConnCfg
         \/ A!ChipIsConn \/ A!ChipUnknown
  PROVE  \E ls : A!Says(ls, chip) /\ cmds # <<>> /\ Reply(Head(cmds), chip, ls, chip)
<1>1. Kept(chip, chip)
  BY DEF Kept, Set
<1>2. CASE A!ChipPlain
  <2>1. PICK w \in {"ATE0", "AT+CWCOUNTRY", "AT+CWMODE", "AT+CWINIT"} : A!Cmd(w)
    BY <1>2 DEF A!ChipPlain
  <2>2. Reply(w, chip, <<"OK">>, chip)
    BY <1>1, <2>1 DEF Reply, Restarts, Pubs, Easy
  <2> QED BY <1>2, <2>1, <2>2 DEF A!ChipPlain, A!Cmd
<1>3. CASE A!ChipMac
  <2>1. /\ Reply("AT+CIPSTAMAC?", chip, <<"+CIPSTAMAC", "OK">>, chip)
        /\ Reply("AT+CIPETHMAC?", chip, <<"+CIPETHMAC", "OK">>, chip)
    BY <1>1 DEF Reply, Restarts, Pubs, Easy
  <2> QED BY <1>3, <2>1 DEF A!ChipMac, A!Cmd
<1>4. CASE A!ChipTime
  <2>1. Reply("AT+SYSTIMESTAMP?", chip, <<"+SYSTIMESTAMP", "OK">>, chip)
    BY <1>1 DEF Reply, Restarts, Pubs, Easy
  <2> QED BY <1>4, <2>1 DEF A!ChipTime, A!Cmd
<1>5. CASE A!ChipCwState
  <2>1. PICK a : a = <<IF chip.joined THEN "+CWSTATE up" ELSE "+CWSTATE down", "OK">>
    OBVIOUS
  <2>2. Reply("AT+CWSTATE?", chip, a, chip)
    BY <1>1, <2>1 DEF Reply, Restarts, Pubs, Easy
  <2> QED BY <1>5, <2>1, <2>2 DEF A!ChipCwState, A!Cmd
<1>6. CASE A!ChipSntp
  <2>1. Reply("AT+CIPSNTPCFG", chip, <<"OK", "+TIME_UPDATED">>, chip)
    BY <1>1 DEF Reply, Restarts, Pubs, Easy
  <2> QED BY <1>6, <2>1 DEF A!ChipSntp, A!Cmd, A!NtpCfg
<1>7. CASE A!ChipConnCfg
  <2>1. Reply("AT+MQTTCONNCFG", chip, <<"OK">>, chip)
    BY <1>1 DEF Reply, Restarts, Pubs, Easy
  <2> QED BY <1>7, <2>1 DEF A!ChipConnCfg, A!Cmd, A!ConnCfg
<1>8. CASE A!ChipIsConn
  <2>1. PICK a : a = <<IF chip.mqtt = "up" THEN "+MQTTCONN up" ELSE "+MQTTCONN down", "OK">>
    OBVIOUS
  <2>2. Reply("AT+MQTTCONN?", chip, a, chip)
    BY <1>1, <2>1 DEF Reply, Restarts, Pubs, Easy
  <2> QED BY <1>8, <2>1, <2>2 DEF A!ChipIsConn, A!Cmd
<1>9. CASE A!ChipUnknown
  <2>1. \A w \in {"payload meas", "payload resp", "none"} : Reply(w, chip, <<"+ERROR">>, chip)
    BY <1>1 DEF Reply, Restarts, Pubs, Easy
  <2> QED BY <1>9, <2>1 DEF A!ChipUnknown, A!Payloads, A!None
<1> QED BY <1>2, <1>3, <1>4, <1>5, <1>6, <1>7, <1>8, <1>9

LEMMA OtherReplies ==
  ASSUME IsAt, chip \in AtChips, chip.raw = "none",
         A!ChipRestore \/ A!ChipJoin \/ A!ChipUserCfg \/ A!ChipConn \/ A!ChipIsSub \/ A!ChipList
         \/ A!ChipSub \/ A!ChipPubRaw
  PROVE  \E ls, c : A!Says(ls, c) /\ cmds # <<>> /\ c \in AtChips /\ Reply(Head(cmds), chip, ls, c)
<1>1. Kept(chip, chip)
  BY DEF Kept, Set
<1>2. CASE A!ChipRestore
  <2>1. PICK a : a = <<"OK">> \o A!BootLines
    OBVIOUS
  <2>2. PICK g : g = A!Booted
    OBVIOUS
  <2>3. g \in AtChips /\ Set(g, FALSE, "down", FALSE, "none")
    BY <2>2 DEF A!Booted, A!ChipOff, AtChips, Set, A!None
  <2>4. a = BootTale
    BY <2>1 DEF A!BootLines, BootTale
  <2>5. \A w \in Restarts : Reply(w, chip, a, g)
    BY <2>3, <2>4 DEF Reply, Restarts, Pubs, Easy
  <2> QED BY <1>2, <2>1, <2>2, <2>3, <2>5 DEF A!ChipRestore, A!Cmd, Restarts
<1>3. CASE A!ChipJoin
  <2>1. PICK g : g = [chip EXCEPT !.joined = TRUE]
    OBVIOUS
  <2>2. g \in AtChips /\ Set(g, TRUE, chip.mqtt, chip.sub, chip.raw)
    BY <2>1 DEF AtChips, Set
  <2>3. Reply("AT+CWJAP", chip, <<"OK">>, g)
    BY <2>2 DEF Reply, Restarts, Pubs, Easy
  <2> QED BY <1>3, <2>1, <2>2, <2>3 DEF A!ChipJoin, A!Cmd
<1>4. CASE A!ChipUserCfg
  <2>1. PICK g : g = [chip EXCEPT !.mqtt = "conf", !.sub = FALSE]
    OBVIOUS
  <2>2. g \in AtChips /\ Set(g, chip.joined, "conf", FALSE, chip.raw)
    BY <2>1 DEF AtChips, Set
  <2>3. Reply("AT+MQTTUSERCFG", chip, <<"OK">>, g)
    BY <2>2 DEF Reply, Restarts, Pubs, Easy
  <2> QED BY <1>4, <2>1, <2>2, <2>3 DEF A!ChipUserCfg, A!Cmd, A!UserCfg
<1>5. CASE A!ChipConn
  <2>1. PICK g : g = [chip EXCEPT !.mqtt = "up"]
    OBVIOUS
  <2>2. g \in AtChips /\ Set(g, chip.joined, "up", chip.sub, chip.raw)
    BY <2>1 DEF AtChips, Set
  <2>3. /\ chip.mqtt # "down" => Reply("AT+MQTTCONN", chip, <<"OK">>, g)
        /\ chip.mqtt = "down" => Reply("AT+MQTTCONN", chip, <<"ERROR">>, chip)
    BY <1>1, <2>2 DEF Reply, Restarts, Pubs, Easy
  <2> QED BY <1>5, <2>1, <2>2, <2>3 DEF A!ChipConn, A!Cmd, A!MqttConn
<1>6. CASE A!ChipIsSub \/ A!ChipList
  <2>1. \A a : Reply("AT+MQTTSUB?", chip, a, chip) /\ Reply("AT+CWLAP", chip, a, chip)
    BY DEF Reply, Restarts, Pubs, Easy
  <2> QED BY <1>6, <2>1 DEF A!ChipIsSub, A!ChipList, A!Cmd
<1>7. CASE A!ChipSub
  <2>1. PICK g : g = [chip EXCEPT !.sub = TRUE]
    OBVIOUS
  <2>2. g \in AtChips /\ Set(g, chip.joined, chip.mqtt, TRUE, chip.raw)
    BY <2>1 DEF AtChips, Set
  <2>3. /\ chip.mqtt # "up" => Reply("AT+MQTTSUB", chip, <<"ERROR">>, chip)
        /\ chip.mqtt = "up" /\ chip.sub =>
             Reply("AT+MQTTSUB", chip, <<"ALREADY SUBSCRIBE", "OK">>, chip)
        /\ chip.mqtt = "up" /\ ~chip.sub => Reply("AT+MQTTSUB", chip, <<"OK">>, g)
    BY <1>1, <2>2 DEF Reply, Restarts, Pubs, Easy
  <2> QED BY <1>7, <2>1, <2>2, <2>3 DEF A!ChipSub, A!Cmd, A!SubCfg
<1>8. CASE A!ChipPubRaw
  <2>1. PICK t \in {"meas", "resp"} :
          /\ A!Cmd(A!PubRaw(t))
          /\ IF chip.mqtt # "up" THEN A!Says(<<"ERROR">>, chip)
             ELSE A!Says(<<"OK">>, [chip EXCEPT !.raw = t])
    BY <1>8 DEF A!ChipPubRaw
  <2>2. PICK g : g = [chip EXCEPT !.raw = t]
    OBVIOUS
  <2>3. g \in AtChips /\ Set(g, chip.joined, chip.mqtt, chip.sub, t)
    BY <2>2 DEF AtChips, Set
  <2>4. PICK w \in Pubs : w = A!PubRaw(t)
    BY <2>1 DEF A!PubRaw, Pubs
  <2>5. /\ chip.mqtt # "up" => Reply(w, chip, <<"ERROR">>, chip)
        /\ chip.mqtt = "up" => Reply(w, chip, <<"OK">>, g)
    BY <1>1, <2>1, <2>3, <2>4 DEF Reply, Restarts, Pubs, Easy
  <2> QED BY <2>1, <2>2, <2>3, <2>4, <2>5 DEF A!Cmd
<1> QED BY <1>2, <1>3, <1>4, <1>5, <1>6, <1>7, <1>8

LEMMA ModemTalks ==
  ASSUME IsAt, chip \in AtChips, A!Chip, NEW m \in Scope, faults'.had \subseteq {m}
  PROVE  /\ chip' \in AtChips /\ UNCHANGED <<kind, ctx>>
         /\ Talks(chip, cmds, line, chip', cmds', line', m)
<1>1. PICK g : g = [chip EXCEPT !.raw = "none"]
  OBVIOUS
<1>2. \A what, x : x = A!Published(what) =>
         x \in AtChips /\ Set(x, chip.joined, chip.mqtt, chip.sub, "none")
  BY DEF A!Published, AtChips, Set, A!None
<1>3. CASE A!ChipReads
  BY <1>2, <1>3 DEF A!ChipReads, A!Says, Talks, Swallows, A!None
<1>4. CASE A!ChipReadsNothing
  <2>1. ~A!Fault("late")
    BY DEF A!Fault, Scope
  <2>2. \A a : Append(<<>>, a) = <<a>>
    OBVIOUS
  <2> QED BY <1>2, <1>4, <2>1, <2>2 DEF A!ChipReadsNothing, A!Quiet, Talks, Starves, A!None
<1>5. CASE ~(A!ChipReads \/ A!ChipReadsNothing)
  <2>1. chip.raw = "none"
    BY <1>5 DEF A!Chip, A!ChipRestore, A!ChipPlain, A!ChipMac, A!ChipTime, A!ChipList,
       A!ChipCwState, A!ChipJoin, A!ChipSntp, A!ChipUserCfg, A!ChipConnCfg, A!ChipConn,
       A!ChipIsConn, A!ChipIsSub, A!ChipSub, A!ChipPubRaw, A!ChipUnknown, A!Cmd, A!None
  <2>2. PICK ls, c : A!Says(ls, c) /\ cmds # <<>> /\ c \in AtChips /\ Reply(Head(cmds), chip, ls, c)
    BY <1>5, <2>1, PlainReplies, OtherReplies DEF A!Chip
  <2>3. chip' \in AtChips /\ Replies(chip, cmds, line, chip', cmds', line')
    BY <2>1, <2>2, ReplyOf
  <2> QED BY <2>2, <2>3 DEF A!Says, Talks
<1> QED BY <1>3, <1>4, <1>5

LEMMA WorldTalks ==
  ASSUME IsAt, chip \in AtChips, NEW m \in Scope, faults'.had \subseteq {m},
         A!Chip \/ A!Lose \/ A!ChipFails
  PROVE  /\ chip' \in AtChips /\ UNCHANGED <<kind, ctx>>
         /\ Talks(chip, cmds, line, chip', cmds', line', m)
<1>1. \A f : A!Fault(f) => f = m
  BY DEF A!Fault
<1>2. CASE A!Lose
  BY <1>1, <1>2 DEF A!Lose, Talks, Loses
<1>3. CASE A!ChipFails
  BY <1>1, <1>3 DEF A!ChipFails, A!Says, Talks, Fails, A!None
<1> QED BY <1>2, <1>3, ModemTalks
-----------------------------------------------------------------------------
(* The modem's side of each stretch.                                       *)

\* What modem and world do while driver and modem take turns.
TurnStates == Alone \cup {"WIFI_CONNECTING", "SNTP_WAIT_SET", "MQTT_IS_CONNECTED",
                          "MQTT_WAIT_USR_CONF", "MQTT_WAIT_CONF", "MQTT_WAIT_SUB",
                          "WAIT_TIMESTAMP"}
Foreseen(s, h) ==
    /\ h.raw = "none"
    /\ s = "IS_CONNECTED" => ~h.joined
    /\ s = "MQTT_IS_CONNECTED" => h.mqtt # "up"
    /\ s = "MQTT_WAIT_SUB" => h.mqtt = "up" /\ (~h.sub)

LEMMA OrderReplies ==
  ASSUME IsAt, NEW s \in TurnStates, NEW h, NEW g, NEW a, Foreseen(s, h),
         Reply(Order(s), h, a, g)
  PROVE  a \in Parts(s)
<1>1. PICK w : w = Order(s)
  OBVIOUS
<1>2. Reply(w, h, a, g)
  BY <1>1
<1>3. CASE s \in {"RF_REGION", "WIFI_SETTING_MODE", "WIFI_INIT", "DISABLE_ECHO", "MQTT_WAIT_CONF"}
  <2>1. w \in Easy
    BY <1>1, <1>3 DEF Order, Easy
  <2> QED BY <1>2, <1>3, <2>1 DEF Reply, Parts
<1>4. CASE s = "WAIT_MAC_ADDRESS"
  BY <1>1, <1>2, <1>4 DEF Reply, Parts, Order, IsAt
<1>5. CASE s \in {"IS_CONNECTED", "MQTT_IS_CONNECTED", "MQTT_WAIT_SUB"}
  BY <1>1, <1>2, <1>5 DEF Reply, Parts, Order, Foreseen
<1>6. CASE s \in {"WIFI_CONNECTING", "SNTP_WAIT_SET", "MQTT_WAIT_USR_CONF", "WAIT_TIMESTAMP"}
  BY <1>1, <1>2, <1>6 DEF Reply, Parts, Order
<1> QED BY <1>3, <1>4, <1>5, <1>6 DEF TurnStates, Alone

LEMMA PartsShorter ==
  ASSUME NEW s, NEW l \in Parts(s)
  PROVE  l # <<>> /\ (Tail(l) = <<>> \/ Tail(l) \in Parts(s))
<1>1. \A b : <<b>> # <<>> /\ Tail(<<b>>) = <<>>
  BY ShortLists
<1>2. \A a, b : <<a, b>> # <<>> /\ Tail(<<a, b>>) = <<b>>
  BY ShortLists
<1> QED BY <1>1, <1>2 DEF Parts

LEMMA TurnTalks ==
  ASSUME IsAt, NEW s \in TurnStates, NEW h, NEW k, NEW l, NEW g, NEW j, NEW i, NEW m,
         Foreseen(s, h), Turn(s, k, l, m) \/ Silent(k, l), Talks(h, k, l, g, j, i, m)
  PROVE  /\ Turn(s, j, i, m)
         /\ \/ Ordered(s, k, l) /\ Reply(Order(s), h, i, g) /\ i \in Parts(s)
            \/ g = h /\ i \in {<<>>, <<"ERROR">>}
            \/ g = h /\ i = Tail(l) /\ l \in Parts(s) /\ Tail(l) \in Parts(s)
<1>1. h.raw = "none"
  BY DEF Foreseen
<1>2. CASE Ordered(s, k, l)
  <2>1. k # <<>> /\ Head(k) = Order(s) /\ Tail(k) = <<>> /\ l = <<>>
    BY <1>2, ShortLists DEF Ordered
  <2>2. CASE Replies(h, k, l, g, j, i)
    <3>1. PICK a : i = l \o a /\ Reply(Order(s), h, a, g)
      BY <2>1, <2>2 DEF Replies
    <3>2. a \in Parts(s)
      BY <3>1, OrderReplies
    <3>3. \A q \in Parts(s) : <<>> \o q = q
      <4>1. \A x : <<>> \o <<x>> = <<x>>
        BY ShortLists
      <4>2. \A x, y : <<>> \o <<x, y>> = <<x, y>>
        BY ShortLists
      <4> QED BY <4>1, <4>2 DEF Parts
    <3>4. i = a
      BY <2>1, <3>1, <3>2, <3>3
    <3> QED BY <1>2, <2>1, <2>2, <3>1, <3>2, <3>4 DEF Replies, Turn
  <2>3. CASE Fails(h, k, l, g, j, i, m)
    <3>1. <<>> \o <<"ERROR">> = <<"ERROR">>
      BY ShortLists
    <3> QED BY <2>1, <2>3, <3>1 DEF Fails, Turn, Failed
  <2> QED BY <1>1, <2>1, <2>2, <2>3 DEF Talks, Swallows, Starves, Loses
<1>3. CASE k = <<>> /\ l \in Parts(s)
  <2>1. g = h /\ j = k /\ i = Tail(l) /\ m = "lose"
    BY <1>1, <1>3 DEF Talks, Replies, Swallows, Starves, Loses, Fails
  <2>2. Tail(l) = <<>> \/ Tail(l) \in Parts(s)
    BY <1>3, PartsShorter
  <2> QED BY <1>3, <2>1, <2>2 DEF Turn, Silent
<1>4. CASE k = <<>> /\ (l = <<>> \/ m # "lose")
  BY <1>1, <1>4 DEF Talks, Replies, Swallows, Starves, Loses, Fails
<1> QED BY <1>2, <1>3, <1>4 DEF Turn, Failed, Silent

\* The answers to questions, wherever they are asked.
LEMMA QuestionReplies ==
  ASSUME NEW h \in AtChips, NEW g, NEW a, NEW w, Reply(w, h, a, g),
         w \in {"AT+CWSTATE?", "AT+MQTTCONN?", "none"}
  PROVE  /\ Kept(g, h)
         /\ a \in Seq({"+CWSTATE up", "+CWSTATE down", "+MQTTCONN up", "+MQTTCONN down", "OK",
                       "+ERROR"})
         /\ w = "AT+CWSTATE?" => a \in Seq({"+CWSTATE up", "+CWSTATE down", "OK"})
         /\ w = "AT+CWSTATE?" /\ ~h.joined => a \in Seq({"+CWSTATE down", "OK"})
         /\ w = "AT+MQTTCONN?" => a \in Seq({"+MQTTCONN up", "+MQTTCONN down", "OK"})
         /\ w = "AT+MQTTCONN?" /\ h.mqtt # "up" => a \in Seq({"+MQTTCONN down", "OK"})
<1>1. CASE w = "AT+CWSTATE?"
  <2>1. /\ Kept(g, h)
        /\ \/ a = <<"+CWSTATE up", "OK">> /\ h.joined
           \/ a = <<"+CWSTATE down", "OK">>
    BY <1>1 DEF Reply
  <2> QED BY <1>1, <2>1, InOrder
<1>2. CASE w = "AT+MQTTCONN?"
  <2>1. /\ Kept(g, h)
        /\ \/ a = <<"+MQTTCONN up", "OK">> /\ h.mqtt = "up"
           \/ a = <<"+MQTTCONN down", "OK">>
    BY <1>2 DEF Reply
  <2> QED BY <1>2, <2>1, InOrder
<1>3. CASE w = "none"
  <2>1. Kept(g, h) /\ a = <<"+ERROR">>
    BY <1>3 DEF Reply
  <2> QED BY <1>3, <2>1, InOrder
<1> QED BY <1>1, <1>2, <1>3

LEMMA BootingTalks ==
  ASSUME IsAt, NEW h \in AtChips, NEW m \in Scope, NEW s, NEW n, NEW k, NEW l,
         NEW g, NEW j, NEW i,
         Booting(s, n, h, k, l, m), Talks(h, k, l, g, j, i, m)
  PROVE  Booting(s, n, g, j, i, m)
<1>1. s \in {"OFF", "RESTORE"} /\ n = <<>> /\ (kind = "poe" => s = "OFF")
  BY DEF Booting
<1>2. /\ {"+CWSTATE up", "+CWSTATE down", "+MQTTCONN up", "+MQTTCONN down", "OK", "+ERROR"}
           \subseteq Noise
      /\ "+MQTTPUB:OK" \in Noise /\ (kind # "wifi" => "ready" \in Noise)
  BY DEF Noise, Talk, Bell, IsAt
<1>3. <<"+MQTTPUB:OK">> \in Seq(Noise) /\ <<>> \in Seq(Noise)
  BY <1>2, InOrder
<1>4. CASE k = <<>> /\ Ends(l, Noise, {Bell}) /\ Unconfigured(h) /\ ~h.joined
  <2>1. g = h /\ j = k /\ i = Tail(l)
    BY <1>4 DEF Talks, Replies, Swallows, Starves, Loses, Fails, Ends
  <2>2. i = <<>> \/ Ends(i, Noise, {Bell})
    BY <1>4, <2>1, EndsTail
  <2> QED BY <1>1, <1>3, <1>4, <2>1, <2>2 DEF Booting
<1>5. CASE k = <<>> /\ l \in Seq(Noise)
  <2>1. j = <<>> /\ (i = <<"+MQTTPUB:OK">> \/ (l # <<>> /\ i = Tail(l)))
    BY <1>5 DEF Talks, Replies, Swallows, Starves, Loses, Fails
  <2>2. l # <<>> => Tail(l) \in Seq(Noise)
    BY <1>5, Shorter
  <2> QED BY <1>1, <1>3, <2>1, <2>2 DEF Booting
<1>6. CASE /\ m = "lose" /\ l \in Seq(Noise) /\ k # <<>>
           /\ k \in Seq(Questions) \/ Ends(k, Questions, Restarts)
  <2>1. CASE Loses(h, k, l, g, j, i, m)
    <3>1. i \in Seq(Noise) /\ j = k
      BY <1>6, <2>1, Shorter DEF Loses
    <3> QED BY <1>1, <1>6, <3>1 DEF Booting
  <2>2. \/ Head(k) \in Questions /\ Tail(k) \in Seq(Questions)
        \/ Head(k) \in Questions /\ Ends(Tail(k), Questions, Restarts)
        \/ Head(k) \in Restarts /\ Tail(k) = <<>>
    <3>1. k \in Seq(Questions) => Head(k) \in Questions /\ Tail(k) \in Seq(Questions)
      BY <1>6, Shorter
    <3> QED BY <1>6, <3>1, EndsTail
  <2>3. CASE Swallows(h, k, l, g, j, i)
    <3>1. i \in Seq(Noise) /\ j = Tail(k)
      BY <1>3, <1>6, <2>3, Joined DEF Swallows
    <3> QED BY <1>1, <1>6, <2>2, <3>1 DEF Booting
  <2>4. CASE Replies(h, k, l, g, j, i)
    <3>1. PICK a : i = l \o a /\ Reply(Head(k), h, a, g) /\ j = Tail(k)
      BY <2>4 DEF Replies
    <3>2. CASE Head(k) \in Questions
      <4>1. a \in Seq(Noise)
        BY <1>2, <3>1, <3>2, QuestionReplies, Wider DEF Questions
      <4>2. i \in Seq(Noise)
        BY <1>6, <3>1, <4>1, Joined
      <4>3. "AT+RESTORE" \notin Questions /\ "AT+RST" \notin Questions
        BY DEF Questions
      <4> QED BY <1>1, <1>6, <2>2, <3>1, <3>2, <4>2, <4>3 DEF Booting, Restarts
    <3>3. CASE Head(k) \in Restarts
      <4>1. Tail(k) = <<>>
        <5>1. Head(k) \notin Questions
          BY <3>3 DEF Restarts, Questions
        <5> QED BY <2>2, <5>1
      <4>2. /\ Set(g, FALSE, "down", FALSE, "none")
            /\ a = BootTale
        BY <3>1, <3>3 DEF Reply
      <4>3. Ends(a, Noise, {Bell})
        BY <4>2, BootTells
      <4>4. Ends(i, Noise, {Bell})
        BY <1>6, <3>1, <4>3, EndsBehind
      <4> QED BY <1>1, <3>1, <4>1, <4>2, <4>4 DEF Booting, Unconfigured, Set
    <3> QED BY <2>2, <3>2, <3>3
  <2> QED BY <1>6, <2>1, <2>3, <2>4 DEF Talks, Starves, Fails
<1>7. CASE m = "error" /\ l = <<>> /\ \E w \in Restarts : k = <<w>>
  <2>1. PICK w \in Restarts : k = <<w>>
    BY <1>7
  <2>2. k # <<>> /\ Head(k) = w /\ Tail(k) = <<>>
    BY <2>1, ShortLists
  <2>3. CASE Replies(h, k, l, g, j, i)
    <3>1. PICK a : i = l \o a /\ Reply(w, h, a, g) /\ j = <<>>
      BY <2>2, <2>3 DEF Replies
    <3>2. /\ Set(g, FALSE, "down", FALSE, "none")
          /\ a = BootTale
      BY <3>1 DEF Reply
    <3>3. Ends(a, Noise, {Bell}) /\ <<>> \o a = a
      BY <3>2, BootTells
    <3> QED BY <1>1, <1>7, <3>1, <3>2, <3>3 DEF Booting, Unconfigured, Set
  <2>4. CASE Swallows(h, k, l, g, j, i)
    <3>1. i = <<"+MQTTPUB:OK">> /\ j = <<>>
      BY <1>7, <2>2, <2>4, ShortLists DEF Swallows
    <3> QED BY <1>1, <1>3, <3>1 DEF Booting
  <2>5. CASE Fails(h, k, l, g, j, i, m)
    <3>1. i = <<"ERROR">> /\ j = <<>>
      BY <1>7, <2>2, <2>5, ShortLists DEF Fails
    <3> QED BY <1>1, <1>7, <3>1 DEF Booting, Failed
  <2> QED BY <1>7, <2>2, <2>3, <2>4, <2>5 DEF Talks, Starves, Loses
<1>8. CASE Failed(k, l, m)
  BY <1>8 DEF Failed, Talks, Replies, Swallows, Starves, Loses, Fails
<1> QED BY <1>4, <1>5, <1>6, <1>7, <1>8 DEF Booting

LEMMA SettlingTalks ==
  ASSUME IsAt, NEW h \in AtChips, NEW m \in Scope, NEW s, NEW n, NEW x, NEW p, NEW y,
         NEW k, NEW l, NEW g, NEW j, NEW i,
         Settling(s, n, x, p, y, h, k, l, m), Talks(h, k, l, g, j, i, m)
  PROVE  Settling(s, n, x, p, y, g, j, i, m)
<1>1. /\ h.mqtt = "down" /\ ~h.sub /\ h.raw = "none" /\ (s \in Alone => ~h.joined)
      /\ s \in Retried => x = Order(s)
  BY DEF Settling, Unconfigured
<1>2. Kept(g, h) => Unconfigured(g) /\ (s \in Alone => ~g.joined) /\ g.joined = h.joined
  BY <1>1 DEF Kept, Set, Unconfigured
<1>3. g = h => Kept(g, h)
  BY DEF Kept, Set
<1>4. <<>> \in Seq(CwTalk)
  BY InOrder
<1>5. ASSUME s \in Alone \cup {"MQTT_IS_CONNECTED", "WIFI_CONNECTING", "SNTP_WAIT_SET"},
             Turn(s, k, l, m)
      PROVE  Turn(s, j, i, m) /\ Unconfigured(g) /\ (s \in Alone => ~g.joined)
  <2>1. s \in TurnStates /\ Foreseen(s, h)
    BY <1>1, <1>5 DEF TurnStates, Foreseen, Alone
  <2>2. Turn(s, j, i, m) /\ (g = h \/ Reply(Order(s), h, i, g))
    BY <1>5, <2>1, TurnTalks
  <2>3. CASE Reply(Order(s), h, i, g)
    <3>1. s # "WIFI_CONNECTING" => Kept(g, h)
      BY <1>5, <2>3, IsAt DEF Reply, Order, Alone, Easy, IsAt
    <3>2. s = "WIFI_CONNECTING" => Set(g, TRUE, h.mqtt, h.sub, h.raw) /\ s \notin Alone
      BY <2>3 DEF Reply, Order, Alone
    <3> QED BY <1>1, <1>2, <2>2, <3>1, <3>2 DEF Set, Unconfigured
  <2> QED BY <1>2, <1>3, <2>2, <2>3
\* The questions and orders that are still to be answered.
<1>6. ASSUME k \in Seq(JoinOrders), l \in Seq(CwTalk), m = "lose", s \notin Alone
      PROVE  j \in Seq(JoinOrders) /\ i \in Seq(CwTalk) /\ Unconfigured(g)
  <2>1. CASE Loses(h, k, l, g, j, i, m)
    BY <1>2, <1>3, <1>6, <2>1, Shorter DEF Loses
  <2>2. CASE Replies(h, k, l, g, j, i)
    <3>1. PICK a : i = l \o a /\ Reply(Head(k), h, a, g) /\ j = Tail(k) /\ k # <<>>
      BY <2>2 DEF Replies
    <3>2. Head(k) \in JoinOrders /\ j \in Seq(JoinOrders)
      BY <1>6, <3>1, Shorter
    <3>3. CASE Head(k) = "AT+CWSTATE?"
      <4>1. a \in Seq({"+CWSTATE up", "+CWSTATE down", "OK"}) /\ Kept(g, h)
        BY <3>1, <3>3, QuestionReplies
      <4>2. a \in Seq(CwTalk)
        BY <4>1, Wider DEF CwTalk
      <4> QED BY <1>2, <1>6, <3>1, <3>2, <4>1, <4>2, Joined
    <3>4. CASE Head(k) = "AT+CWJAP"
      <4>1. a = <<"OK">> /\ Set(g, TRUE, h.mqtt, h.sub, h.raw)
        BY <3>1, <3>4 DEF Reply
      <4>2. a \in Seq(CwTalk)
        BY <4>1, InOrder DEF CwTalk
      <4> QED BY <1>1, <1>6, <3>1, <3>2, <4>1, <4>2, Joined DEF Set, Unconfigured
    <3> QED BY <3>2, <3>3, <3>4 DEF JoinOrders
  <2> QED BY <1>1, <1>6, <2>1, <2>2 DEF Talks, Swallows, Starves, Fails
<1>7. CASE s \in Alone \cup {"MQTT_IS_CONNECTED"} /\ n = <<>> /\ Turn(s, k, l, m)
  BY <1>1, <1>5, <1>7 DEF Settling
<1>8. CASE /\ s \in {"WIFI_CONNECTING", "SNTP_WAIT_SET"} /\ n = <<>> /\ m = "error"
           /\ Turn(s, k, l, m)
  BY <1>1, <1>5, <1>8 DEF Settling
<1>9. CASE /\ s = "WIFI_CONNECTING" /\ n = <<>> /\ m = "lose"
           /\ k \in Seq(JoinOrders) /\ l \in Seq(CwTalk)
  <2>1. s \notin Alone
    BY <1>9 DEF Alone
  <2> QED BY <1>1, <1>6, <1>9, <2>1 DEF Settling
<1>10. CASE /\ s = "SNTP_WAIT_SET" /\ n = <<>> /\ m = "lose"
            /\ k = <<>> /\ Ends(l, CwTalk, {"+TIME_UPDATED"})
  <2>1. g = h /\ j = <<>> /\ i = Tail(l)
    BY <1>1, <1>10 DEF Talks, Replies, Swallows, Starves, Loses, Fails
  <2>2. i = <<>> \/ Ends(i, CwTalk, {"+TIME_UPDATED"})
    BY <1>10, <2>1, EndsTail
  <2>3. <<>> \in Seq(JoinOrders) /\ s \notin Alone
    BY <1>10, InOrder DEF Alone
  <2> QED BY <1>1, <1>2, <1>3, <1>4, <1>10, <2>1, <2>2, <2>3 DEF Settling
<1>11. CASE /\ s = "SNTP_WAIT_SET" /\ n = <<>> /\ m = "lose"
            /\ l \in Seq(CwTalk) /\ k \in Seq(JoinOrders)
  <2>1. s \notin Alone
    BY <1>11 DEF Alone
  <2> QED BY <1>1, <1>6, <1>11, <2>1 DEF Settling
<1>12. CASE /\ s = "SNTP_WAIT_SET" /\ n = <<>> /\ m = "lose"
            /\ l \in Seq(CwTalk) /\ Ends(k, JoinOrders, {"AT+CIPSNTPCFG"})
  <2>1. s \notin Alone
    BY <1>12 DEF Alone
  <2>2. CASE Loses(h, k, l, g, j, i, m)
    <3>1. i \in Seq(CwTalk) /\ j = k
      BY <1>12, <2>2, Shorter DEF Loses
    <3> QED BY <1>1, <1>2, <1>3, <1>12, <2>1, <2>2, <3>1 DEF Settling, Loses
  <2>3. CASE Replies(h, k, l, g, j, i)
    <3>1. PICK a : i = l \o a /\ Reply(Head(k), h, a, g) /\ j = Tail(k) /\ k # <<>>
      BY <2>3 DEF Replies
    <3>2. \/ Head(k) \in JoinOrders /\ Ends(j, JoinOrders, {"AT+CIPSNTPCFG"})
          \/ Head(k) = "AT+CIPSNTPCFG" /\ j = <<>>
      BY <1>12, <3>1, EndsTail
    <3>3. CASE Head(k) = "AT+CIPSNTPCFG" /\ j = <<>>
      <4>1. a = <<"OK", "+TIME_UPDATED">> /\ Kept(g, h)
        BY <3>1, <3>3 DEF Reply
      <4>2. Ends(a, CwTalk, {"+TIME_UPDATED"})
        BY <4>1, EndsTwo DEF CwTalk
      <4>3. Ends(i, CwTalk, {"+TIME_UPDATED"})
        BY <1>12, <3>1, <4>2, EndsBehind
      <4> QED BY <1>1, <1>2, <1>12, <2>1, <3>3, <4>1, <4>3 DEF Settling
    <3>4. CASE Head(k) \in JoinOrders /\ Ends(j, JoinOrders, {"AT+CIPSNTPCFG"})
      <4>1. a \in Seq(CwTalk) /\ Unconfigured(g)
        <5>1. CASE Head(k) = "AT+CWSTATE?"
          BY <1>2, <3>1, <5>1, QuestionReplies, Wider DEF CwTalk
        <5>2. CASE Head(k) = "AT+CWJAP"
          <6>1. a = <<"OK">> /\ Set(g, TRUE, h.mqtt, h.sub, h.raw)
            BY <3>1, <5>2 DEF Reply
          <6> QED BY <1>1, <6>1, InOrder DEF CwTalk, Set, Unconfigured
        <5> QED BY <3>4, <5>1, <5>2 DEF JoinOrders
      <4>2. i \in Seq(CwTalk)
        BY <1>12, <3>1, <4>1, Joined
      <4> QED BY <1>1, <1>12, <2>1, <3>4, <4>1, <4>2 DEF Settling
    <3> QED BY <3>2, <3>3, <3>4
  <2> QED BY <1>1, <1>12, <2>2, <2>3 DEF Talks, Swallows, Starves, Fails, Ends
<1>13. CASE Silent(k, l)
  BY <1>1, <1>13 DEF Talks, Replies, Swallows, Starves, Loses, Fails, Silent
<1>14. CASE /\ s = "TIMEDOUT_WIFI_WAIT_STATE" /\ n = <<>> /\ m = "lose"
            /\ p \in Retried /\ y = Order(p) /\ k \in Seq({"AT+CWSTATE?"})
            /\ \/ p \in {"WIFI_CONNECTING", "SNTP_WAIT_SET"} /\ l \in Seq(CwTalk)
               \/ ~h.joined /\ l \in Seq(CwTalk \ {"+CWSTATE up"})
  <2>1. PICK S : /\ l \in Seq(S) /\ "OK" \in S /\ "+CWSTATE down" \in S
                 /\ \/ S = CwTalk /\ p \in {"WIFI_CONNECTING", "SNTP_WAIT_SET"}
                    \/ S = CwTalk \ {"+CWSTATE up"} /\ ~h.joined
    BY <1>14 DEF CwTalk
  <2>2. i \in Seq(S) /\ j \in Seq({"AT+CWSTATE?"}) /\ Kept(g, h)
    <3>1. CASE Loses(h, k, l, g, j, i, m)
      BY <1>3, <1>14, <2>1, <3>1, Shorter DEF Loses
    <3>2. CASE Replies(h, k, l, g, j, i)
      <4>1. PICK a : i = l \o a /\ Reply(Head(k), h, a, g) /\ j = Tail(k) /\ k # <<>>
        BY <3>2 DEF Replies
      <4>2. Head(k) = "AT+CWSTATE?" /\ j \in Seq({"AT+CWSTATE?"})
        <5>1. k \in Seq({"AT+CWSTATE?"}) /\ k # <<>> /\ j = Tail(k)
          BY <1>14, <4>1
        <5>2. Head(k) \in {"AT+CWSTATE?"} /\ j \in Seq({"AT+CWSTATE?"})
          BY <5>1, Shorter
        <5> QED BY <5>2
      <4>3. /\ a \in Seq({"+CWSTATE up", "+CWSTATE down", "OK"}) /\ Kept(g, h)
            /\ ~h.joined => a \in Seq({"+CWSTATE down", "OK"})
        BY <4>1, <4>2, QuestionReplies
      <4>4. a \in Seq(S)
        <5>1. CASE ~h.joined
          BY <2>1, <4>3, <5>1, Wider
        <5>2. CASE S = CwTalk
          BY <4>3, <5>2, Wider DEF CwTalk
        <5> QED BY <2>1, <5>1, <5>2
      <4> QED BY <2>1, <4>1, <4>2, <4>3, <4>4, Joined
    <3> QED BY <1>1, <1>14, <3>1, <3>2 DEF Talks, Swallows, Starves, Fails
  <2>3. s \notin Alone /\ s \notin Retried /\ g.joined = h.joined /\ Unconfigured(g)
    BY <1>2, <1>14, <2>2 DEF Alone, Retried
  <2> QED BY <1>14, <2>1, <2>2, <2>3 DEF Settling
<1> QED BY <1>7, <1>8, <1>9, <1>10, <1>11, <1>12, <1>13, <1>14 DEF Settling

LEMMA LinkingTalks ==
  ASSUME IsAt, NEW h \in AtChips, NEW m \in Scope, NEW s, NEW n, NEW x, NEW k, NEW l,
         NEW g \in AtChips, NEW j, NEW i,
         Linking(s, n, x, h, k, l, m), Talks(h, k, l, g, j, i, m)
  PROVE  \/ Linking(s, n, x, g, j, i, m) \/ Connected(s, n, x, g, j, i, m)
         \/ Careful(s, n, g, j, i, m)
<1>1. ~h.sub /\ h.raw = "none" /\ x = Order(s)
  BY DEF Linking
<1>2. \A b : <<>> # <<b>>
  OBVIOUS
<1>3. CASE /\ s = "MQTT_WAIT_USR_CONF" /\ n = <<>> /\ Turn(s, k, l, m)
           /\ h.mqtt = "conf" \/ (h.mqtt = "down" /\ l # <<"OK">>)
  <2>1. s \in TurnStates /\ Foreseen(s, h)
    BY <1>1, <1>3 DEF TurnStates, Foreseen
  <2>2. /\ Turn(s, j, i, m)
        /\ \/ Reply(Order(s), h, i, g)
           \/ g = h /\ i \in {<<>>, <<"ERROR">>}
           \/ g = h /\ i = Tail(l) /\ l \in Parts(s) /\ Tail(l) \in Parts(s)
    BY <1>3, <2>1, TurnTalks
  <2>3. CASE Reply(Order(s), h, i, g)
    <3>1. Set(g, h.joined, "conf", FALSE, h.raw)
      BY <1>3, <2>3 DEF Reply, Order
    <3> QED BY <1>1, <1>3, <2>2, <3>1 DEF Linking, Set
  <2>4. CASE g = h /\ i \in {<<>>, <<"ERROR">>}
    BY <1>1, <1>2, <1>3, <2>2, <2>4 DEF Linking
  <2>5. ~(l \in Parts(s) /\ Tail(l) \in Parts(s))
    BY <1>3, ShortLists DEF Parts
  <2> QED BY <2>2, <2>3, <2>4, <2>5
<1>4. CASE s = "MQTT_WAIT_CONF" /\ n = <<>> /\ Turn(s, k, l, m) /\ h.mqtt = "conf"
  <2>1. s \in TurnStates /\ Foreseen(s, h)
    BY <1>1, <1>4 DEF TurnStates, Foreseen
  <2>2. Turn(s, j, i, m) /\ (g = h \/ Reply(Order(s), h, i, g))
    BY <1>4, <2>1, TurnTalks
  <2>3. Reply(Order(s), h, i, g) => Kept(g, h)
    BY <1>4 DEF Reply, Order, Easy
  <2> QED BY <1>1, <1>4, <2>2, <2>3 DEF Linking, Kept, Set
<1>5. CASE Silent(k, l)
  BY <1>1, <1>5 DEF Talks, Replies, Swallows, Starves, Loses, Fails, Silent
<1>6. CASE s = "MQTT_CONNECTING" /\ n = <<>> /\ h.mqtt = "conf" /\ Ordered(s, k, l)
  <2>1. /\ k # <<>> /\ Head(k) = "AT+MQTTCONN" /\ Tail(k) = <<>> /\ l = <<>>
        /\ Order(s) = "AT+MQTTCONN"
    BY <1>6, ShortLists DEF Ordered, Order
  <2>2. CASE Replies(h, k, l, g, j, i)
    <3>1. PICK a : i = l \o a /\ Reply("AT+MQTTCONN", h, a, g) /\ j = <<>>
      BY <2>1, <2>2 DEF Replies
    <3>2. a = <<"OK">> /\ Set(g, h.joined, "up", h.sub, h.raw)
      BY <1>6, <3>1 DEF Reply
    <3>3. i = <<"OK">>
      BY <2>1, <3>1, <3>2, ShortLists
    <3>4. CASE m = "lose"
      <4>1. j \in Seq(LateOrders) /\ i \in Seq(LateTalk) /\ n \in Seq({"connecting"})
        BY <1>6, <3>1, <3>3, InOrder DEF LateTalk, StallTalk
      <4>2. Bare(g, j)
        BY <1>1, <3>1, <3>2 DEF Bare, Set
      <4>3. s \in Linked
        BY <1>6 DEF Linked
      <4> QED BY <1>1, <1>6, <3>2, <3>4, <4>1, <4>2, <4>3 DEF Connected, Set
    <3>5. CASE m = "error"
      BY <1>1, <1>6, <3>1, <3>2, <3>3, <3>5 DEF Careful, Set
    <3> QED BY <3>4, <3>5 DEF Scope
  <2>3. CASE Fails(h, k, l, g, j, i, m)
    <3>1. i = <<"ERROR">> /\ j = <<>> /\ g = h /\ m = "error"
      BY <2>1, <2>3, ShortLists DEF Fails
    <3> QED BY <1>1, <1>6, <3>1 DEF Linking, Failed
  <2> QED BY <1>1, <2>1, <2>2, <2>3 DEF Talks, Swallows, Starves, Loses
<1>7. CASE Failed(k, l, m)
  BY <1>1, <1>7 DEF Failed, Talks, Replies, Swallows, Starves, Loses, Fails
<1> QED BY <1>3, <1>4, <1>5, <1>6, <1>7 DEF Linking

LEMMA StalledTalks ==
  ASSUME IsAt, NEW h \in AtChips, NEW m \in Scope, NEW s, NEW n, NEW p, NEW y,
         NEW k, NEW l, NEW g \in AtChips, NEW j, NEW i,
         Stalled(s, n, p, y, h, k, l, m), Talks(h, k, l, g, j, i, m)
  PROVE  Stalled(s, n, p, y, g, j, i, m)
<1>1. /\ m = "lose" /\ s \in Asking /\ n = <<>>
      /\ kind = "poe" <=> s = "TIMEDOUT_WAIT_MQTT_STATE"
      /\ k \in Seq({"AT+CWSTATE?", "AT+MQTTCONN?"}) /\ l \in Seq(StallTalk)
      /\ \/ h.mqtt # "up" /\ l \in Seq(StallTalk \ {"+MQTTCONN up"})
         \/ h.mqtt = "up" /\ kind = "poe"
         \/ h.mqtt = "up" /\ p \in Linked /\ y = Order(p) /\ h.raw = "none"
            /\ (p # "MQTT_CONNECTING" => h.sub)
         \/ h.mqtt = "up" /\ p \in Publishing /\ y \in Pubs /\ h.sub
  BY DEF Stalled
<1>2. PICK S : S = IF h.mqtt = "up" THEN StallTalk ELSE StallTalk \ {"+MQTTCONN up"}
  OBVIOUS
<1>3. /\ l \in Seq(S)
      /\ {"+CWSTATE up", "+CWSTATE down", "OK"} \subseteq S /\ "+MQTTPUB:OK" \in S
      /\ {"+MQTTCONN down", "OK"} \subseteq S
      /\ h.mqtt = "up" => {"+MQTTCONN up", "+MQTTCONN down", "OK"} \subseteq S
  BY <1>1, <1>2 DEF StallTalk
<1>4. /\ i \in Seq(S) /\ j \in Seq({"AT+CWSTATE?", "AT+MQTTCONN?"})
      /\ g.mqtt = h.mqtt /\ g.sub = h.sub /\ (h.raw = "none" => g.raw = "none")
  <2>1. CASE Loses(h, k, l, g, j, i, m)
    BY <1>1, <1>3, <2>1, Shorter DEF Loses
  <2>2. CASE Swallows(h, k, l, g, j, i)
    <3>1. j \in Seq({"AT+CWSTATE?", "AT+MQTTCONN?"})
      BY <1>1, <2>2, Shorter DEF Swallows
    <3>2. <<"+MQTTPUB:OK">> \in Seq(S)
      BY <1>3, InOrder
    <3>3. i \in Seq(S)
      BY <1>3, <2>2, <3>2, Joined DEF Swallows
    <3> QED BY <2>2, <3>1, <3>3 DEF Swallows, Set
  <2>3. CASE Starves(h, k, l, g, j, i)
    BY <1>3, <2>3, InOrder DEF Starves, Set
  <2>4. CASE Replies(h, k, l, g, j, i)
    <3>1. PICK a : i = l \o a /\ Reply(Head(k), h, a, g) /\ j = Tail(k) /\ k # <<>>
      BY <2>4 DEF Replies
    <3>2. Head(k) \in {"AT+CWSTATE?", "AT+MQTTCONN?"} /\ j \in Seq({"AT+CWSTATE?", "AT+MQTTCONN?"})
      BY <1>1, <3>1, Shorter
    <3>3. a \in Seq(S)
      <4>1. CASE Head(k) = "AT+CWSTATE?"
        <5>1. a \in Seq({"+CWSTATE up", "+CWSTATE down", "OK"})
          BY <3>1, <4>1, QuestionReplies
        <5> QED BY <1>3, <5>1, Wider
      <4>2. CASE Head(k) = "AT+MQTTCONN?" /\ h.mqtt = "up"
        <5>1. a \in Seq({"+MQTTCONN up", "+MQTTCONN down", "OK"})
          BY <3>1, <4>2, QuestionReplies
        <5> QED BY <1>3, <4>2, <5>1, Wider
      <4>3. CASE Head(k) = "AT+MQTTCONN?" /\ h.mqtt # "up"
        <5>1. a \in Seq({"+MQTTCONN down", "OK"})
          BY <3>1, <4>3, QuestionReplies
        <5> QED BY <1>3, <5>1, Wider
      <4> QED BY <3>2, <4>1, <4>2, <4>3
    <3>4. Kept(g, h)
      BY <3>1, <3>2, QuestionReplies
    <3> QED BY <1>3, <3>1, <3>2, <3>3, <3>4, Joined DEF Kept, Set
  <2> QED BY <1>1, <2>1, <2>2, <2>3, <2>4 DEF Talks, Fails
<1>5. i \in Seq(StallTalk)
  <2>1. S \subseteq StallTalk
    BY <1>2
  <2> QED BY <1>4, <2>1, Wider
<1> QED BY <1>1, <1>2, <1>4, <1>5 DEF Stalled

LEMMA ConnectedTalks ==
  ASSUME IsAt, NEW h \in AtChips, NEW m \in Scope, NEW s, NEW n, NEW x,
         NEW k, NEW l, NEW g \in AtChips, NEW j, NEW i,
         Connected(s, n, x, h, k, l, m), Talks(h, k, l, g, j, i, m)
  PROVE  Connected(s, n, x, g, j, i, m)
<1>1. /\ m = "lose" /\ h.mqtt = "up" /\ k \in Seq(LateOrders) /\ l \in Seq(LateTalk)
      /\ s # "MQTT_CONNECTING" => Subscribes(h, k)
  BY DEF Connected
<1>2. \A S : S \subseteq LateTalk => \A a \in Seq(S) : l \o a \in Seq(LateTalk)
  <2> TAKE S
  <2> HAVE S \subseteq LateTalk
  <2> TAKE a \in Seq(S)
  <2>1. a \in Seq(LateTalk)
    BY Wider
  <2> QED BY <1>1, <2>1, Joined
\* It remains connected, and says what it may say.
<1>3. g.mqtt = "up" /\ j \in Seq(LateOrders) /\ i \in Seq(LateTalk) /\ (h.sub => g.sub)
  <2>1. CASE Loses(h, k, l, g, j, i, m)
    BY <1>1, <2>1, Shorter DEF Loses
  <2>2. CASE Swallows(h, k, l, g, j, i)
    <3>1. <<"+MQTTPUB:OK">> \in Seq({"+MQTTPUB:OK"}) /\ {"+MQTTPUB:OK"} \subseteq LateTalk
      BY InOrder DEF LateTalk, StallTalk
    <3>2. i \in Seq(LateTalk) /\ j \in Seq(LateOrders)
      BY <1>1, <1>2, <2>2, <3>1, Shorter DEF Swallows
    <3> QED BY <1>1, <2>2, <3>2 DEF Swallows, Set
  <2>3. CASE Starves(h, k, l, g, j, i)
    BY <1>1, <2>3, InOrder DEF Starves, Set, LateTalk, StallTalk
  <2>4. CASE Replies(h, k, l, g, j, i)
    <3>1. PICK a : i = l \o a /\ Reply(Head(k), h, a, g) /\ j = Tail(k) /\ k # <<>>
      BY <2>4 DEF Replies
    <3>2. Head(k) \in LateOrders /\ j \in Seq(LateOrders)
      BY <1>1, <3>1, Shorter
    <3>3. PICK w : w = Head(k)
      OBVIOUS
    <3>4. Reply(w, h, a, g) /\ w \in LateOrders
      BY <3>1, <3>2, <3>3
    <3>5. g.mqtt = "up" /\ (h.sub => g.sub) /\ a \in Seq(LateTalk)
      <4>1. /\ "OK" \in LateTalk /\ "+ERROR" \in LateTalk /\ "+SYSTIMESTAMP" \in LateTalk
            /\ "ALREADY SUBSCRIBE" \in LateTalk /\ LateTalk \subseteq LateTalk
            /\ {"+CWSTATE up", "+CWSTATE down", "+MQTTCONN up", "+MQTTCONN down", "OK",
                "+ERROR"} \subseteq LateTalk
        BY DEF LateTalk, StallTalk
      <4>2. CASE w \in {"AT+CWSTATE?", "AT+MQTTCONN?"}
        <5>1. /\ Kept(g, h)
              /\ a \in Seq({"+CWSTATE up", "+CWSTATE down", "+MQTTCONN up", "+MQTTCONN down",
                            "OK", "+ERROR"})
          BY <3>4, <4>2, QuestionReplies
        <5> QED BY <1>1, <4>1, <5>1, Wider DEF Kept, Set
      <4>3. CASE w \in {"payload meas", "payload resp"}
        <5>1. a = <<"+ERROR">> /\ Kept(g, h)
          BY <3>4, <4>3 DEF Reply
        <5> QED BY <1>1, <4>1, <5>1, InOrder DEF Kept, Set
      <4>4. CASE w = "AT+SYSTIMESTAMP?"
        <5>1. a = <<"+SYSTIMESTAMP", "OK">> /\ Kept(g, h)
          BY <3>4, <4>4 DEF Reply
        <5> QED BY <1>1, <4>1, <5>1, InOrder DEF Kept, Set
      <4>5. CASE w = "AT+MQTTCONN"
        <5>1. a = <<"OK">> /\ Set(g, h.joined, "up", h.sub, h.raw)
          BY <1>1, <3>4, <4>5 DEF Reply
        <5> QED BY <4>1, <5>1, InOrder DEF Set
      <4>6. CASE w = "AT+MQTTSUB"
        <5>1. /\ g.mqtt = "up" /\ (h.sub => g.sub)
              /\ a \in {<<"OK">>, <<"ALREADY SUBSCRIBE", "OK">>}
          BY <1>1, <3>4, <4>6 DEF Reply, Kept, Set
        <5> QED BY <4>1, <5>1, InOrder
      <4>7. CASE w \in Pubs
        <5>1. /\ g.mqtt = "up" /\ g.sub = h.sub /\ a = <<"OK">>
          BY <1>1, <3>4, <4>7 DEF Reply, Set
        <5> QED BY <4>1, <5>1, InOrder
      <4> QED BY <3>4, <4>2, <4>3, <4>4, <4>5, <4>6, <4>7 DEF LateOrders
    <3> QED BY <1>2, <3>1, <3>2, <3>5
  <2> QED BY <1>1, <2>1, <2>2, <2>3, <2>4 DEF Talks, Fails
\* What comes off the queue of commands does not set it to read, but for a
\* message.
<1>4. ASSUME h.raw = "none", k # <<>> => Head(k) \notin Pubs
      PROVE  g.raw = "none"
  <2>1. CASE Replies(h, k, l, g, j, i)
    <3>1. PICK a : Reply(Head(k), h, a, g) /\ k # <<>>
      BY <2>1 DEF Replies
    <3>2. PICK w : w = Head(k)
      OBVIOUS
    <3>3. Reply(w, h, a, g) /\ w \in LateOrders /\ w \notin Pubs
      BY <1>1, <1>4, <3>1, <3>2, Shorter
    <3> QED BY <1>4, <3>3 DEF Reply, Kept, Set, LateOrders
  <2>2. CASE g = h \/ Swallows(h, k, l, g, j, i)
    BY <1>4, <2>2 DEF Swallows
  <2> QED BY <1>4, <2>1, <2>2 DEF Talks, Starves, Loses, Fails
<1>5. \/ j = k /\ (k # <<>> => g = h)
      \/ k # <<>> /\ j = Tail(k)
  BY DEF Talks, Replies, Swallows, Starves, Loses, Fails
<1>6. k # <<>> => /\ Head(k) = k[1] /\ Len(k) \in Nat /\ Len(Tail(k)) = Len(k) - 1
                  /\ \A b \in 1..Len(k) - 1 : Tail(k)[b] = k[b + 1]
  BY <1>1, Shorter
<1>7. Bare(h, k) => Bare(g, j)
  <2> HAVE Bare(h, k)
  <2>1. h.raw = "none" /\ \A b \in 1..Len(k) : k[b] \notin Pubs
    BY DEF Bare
  <2>2. k # <<>> => 1 \in 1..Len(k)
    BY <1>1
  <2>3. g.raw = "none"
    BY <1>4, <1>6, <2>1, <2>2
  <2>4. \A b \in 1..Len(j) : j[b] \notin Pubs
    <3>1. CASE j = k
      BY <2>1, <3>1
    <3>2. CASE k # <<>> /\ j = Tail(k)
      <4> TAKE b \in 1..Len(j)
      <4>1. b \in 1..Len(k) - 1 /\ b + 1 \in 1..Len(k)
        BY <1>6, <3>2
      <4> QED BY <1>6, <2>1, <3>2, <4>1
    <3> QED BY <1>5, <3>1, <3>2
  <2> QED BY <2>3, <2>4 DEF Bare
<1>8. Subscribes(h, k) => Subscribes(g, j)
  <2> HAVE Subscribes(h, k)
  <2>1. CASE h.sub
    BY <1>3, <2>1 DEF Subscribes
  <2>2. CASE /\ h.raw = "none" /\ ~h.sub
             /\ \E b \in 1..Len(k) : k[b] = "AT+MQTTSUB" /\ \A c \in 1..b : k[c] \notin Pubs
    <3>1. PICK b \in 1..Len(k) : k[b] = "AT+MQTTSUB" /\ \A c \in 1..b : k[c] \notin Pubs
      BY <2>2
    <3>2. k # <<>> /\ 1 \in 1..b /\ Len(k) \in Nat /\ b \in Nat
      BY <1>1, <3>1
    <3>3. Head(k) \notin Pubs /\ g.raw = "none"
      BY <1>4, <1>6, <2>2, <3>1, <3>2
    <3>4. CASE j = k
      <4>1. g = h
        BY <1>5, <1>6, <3>2, <3>4
      <4> QED BY <2>2, <3>4, <4>1 DEF Subscribes
    <3>5. CASE j = Tail(k) /\ b = 1
      <4>1. Head(k) = "AT+MQTTSUB" /\ j # k
        BY <1>6, <3>1, <3>2, <3>5
      <4>2. Replies(h, k, l, g, j, i)
        BY <1>1, <2>2, <3>2, <4>1 DEF Talks, Swallows, Starves, Loses, Fails
      <4>3. PICK a : Reply("AT+MQTTSUB", h, a, g)
        BY <4>1, <4>2 DEF Replies
      <4>4. g.sub
        BY <1>1, <2>2, <4>3 DEF Reply, Set
      <4> QED BY <4>4 DEF Subscribes
    <3>6. CASE j = Tail(k) /\ b # 1
      <4>1. PICK d : d = b - 1
        OBVIOUS
      <4>2. d \in 1..Len(j) /\ d \in 1..Len(k) - 1 /\ d + 1 = b
        BY <1>6, <3>1, <3>2, <3>6, <4>1
      <4>3. j[d] = "AT+MQTTSUB"
        BY <1>6, <3>1, <3>2, <3>6, <4>2
      <4>4. \A c \in 1..d : j[c] \notin Pubs
        <5> TAKE c \in 1..d
        <5>1. c \in 1..Len(k) - 1 /\ c + 1 \in 1..b
          BY <3>2, <4>2
        <5> QED BY <1>6, <3>1, <3>2, <3>6, <5>1
      <4> QED BY <3>3, <4>2, <4>3, <4>4 DEF Subscribes
    <3> QED BY <1>5, <3>4, <3>5, <3>6
  <2> QED BY <2>1, <2>2 DEF Subscribes
<1> QED BY <1>1, <1>3, <1>7, <1>8 DEF Connected

LEMMA CarefulTalks ==
  ASSUME IsAt, NEW h \in AtChips, NEW m \in Scope, NEW s, NEW n,
         NEW k, NEW l, NEW g \in AtChips, NEW j, NEW i,
         Careful(s, n, h, k, l, m), Talks(h, k, l, g, j, i, m)
  PROVE  Careful(s, n, g, j, i, m)
<1>1. m = "error" /\ h.mqtt = "up"
  BY DEF Careful
<1>2. CASE h.raw = "none" /\ k = <<>>
  BY <1>1, <1>2 DEF Talks, Replies, Swallows, Starves, Loses, Fails
<1>3. CASE s = "MQTT_WAIT_SUB" /\ n = <<>> /\ h.raw = "none" /\ Ordered(s, k, l) /\ ~h.sub
  <2>1. s \in TurnStates /\ Foreseen(s, h) /\ Turn(s, k, l, m)
    BY <1>1, <1>3 DEF TurnStates, Foreseen, Turn
  <2>2. /\ Turn(s, j, i, m)
        /\ \/ Reply(Order(s), h, i, g) /\ i \in Parts(s)
           \/ g = h /\ i \in {<<>>, <<"ERROR">>}
           \/ i = Tail(l) /\ l \in Parts(s) /\ Tail(l) \in Parts(s)
    BY <2>1, TurnTalks
  <2>3. CASE Reply(Order(s), h, i, g) /\ i \in Parts(s)
    <3>1. i = <<"OK">> /\ Set(g, h.joined, "up", TRUE, "none")
      BY <1>1, <1>3, <2>3 DEF Reply, Order, Parts
    <3> QED BY <1>1, <1>3, <2>2, <3>1 DEF Careful, Set
  <2>4. CASE g = h /\ i \in {<<>>, <<"ERROR">>}
    <3>1. <<>> # <<"OK">> /\ <<"ERROR">> # <<"OK">>
      OBVIOUS
    <3> QED BY <1>1, <1>3, <2>2, <2>4, <3>1 DEF Careful
  <2>5. l \notin Parts(s)
    BY <1>3, PartsShorter DEF Ordered
  <2> QED BY <2>2, <2>3, <2>4, <2>5
<1>4. CASE /\ s = "WAIT_TIMESTAMP" /\ n \in {<<>>, <<"time">>} /\ h.raw = "none" /\ h.sub
           /\ Turn(s, k, l, m)
  <2>1. s \in TurnStates /\ Foreseen(s, h)
    BY <1>1, <1>4 DEF TurnStates, Foreseen
  <2>2. Turn(s, j, i, m) /\ (g = h \/ Reply(Order(s), h, i, g))
    BY <1>4, <2>1, TurnTalks
  <2>3. Reply(Order(s), h, i, g) => Kept(g, h)
    BY <1>4 DEF Reply, Order
  <2> QED BY <1>1, <1>4, <2>2, <2>3 DEF Careful, Kept, Set
<1>5. CASE /\ s = "MQTT_WAIT_PUB" /\ n = <<>> /\ h.sub
           /\ l = <<>> /\ h.raw = "none" /\ \E w \in Pubs : k = <<w>>
  <2>1. PICK w \in Pubs : k = <<w>>
    BY <1>5
  <2>2. k # <<>> /\ Head(k) = w /\ Tail(k) = <<>>
    BY <2>1, ShortLists
  <2>3. CASE Replies(h, k, l, g, j, i)
    <3>1. PICK a : i = l \o a /\ Reply(w, h, a, g) /\ j = <<>>
      BY <2>2, <2>3 DEF Replies
    <3>2. a = <<"OK">> /\ g.mqtt = "up" /\ g.sub = h.sub /\ g.raw # "none"
      BY <1>1, <3>1 DEF Reply, Set
    <3>3. i = <<"OK">>
      BY <1>5, <3>1, <3>2, ShortLists
    <3> QED BY <1>1, <1>5, <3>1, <3>2, <3>3 DEF Careful
  <2>4. CASE Fails(h, k, l, g, j, i, m)
    <3>1. i = <<"ERROR">> /\ j = <<>> /\ g = h
      BY <1>5, <2>2, <2>4, ShortLists DEF Fails
    <3> QED BY <1>1, <1>5, <3>1 DEF Careful, Failed
  <2> QED BY <1>1, <1>5, <2>2, <2>3, <2>4 DEF Talks, Swallows, Starves, Loses
<1>6. CASE s = "MQTT_WAIT_PUB" /\ k = <<>> /\ l = <<"OK">> /\ h.raw # "none"
  <2>1. l # <<>>
    BY <1>6
  <2> QED BY <1>1, <1>6, <2>1 DEF Talks, Replies, Swallows, Starves, Loses, Fails
<1>7. CASE /\ s = "MQTT_PUBLISHING" /\ n = <<>> /\ h.sub /\ l = <<>> /\ h.raw # "none"
           /\ \E w \in {"payload meas", "payload resp"} : k = <<w>>
  <2>1. PICK w \in {"payload meas", "payload resp"} : k = <<w>>
    BY <1>7
  <2>2. k # <<>> /\ Head(k) = w /\ Tail(k) = <<>>
    BY <2>1, ShortLists
  <2>3. Swallows(h, k, l, g, j, i)
    BY <1>1, <1>7, <2>2 DEF Talks, Replies, Starves, Loses, Fails
  <2>4. i = <<"+MQTTPUB:OK">> /\ j = <<>> /\ Set(g, h.joined, h.mqtt, h.sub, "none")
    BY <1>7, <2>2, <2>3, ShortLists DEF Swallows
  <2> QED BY <1>1, <1>7, <2>4 DEF Careful, Set
<1>8. CASE s = "MQTT_WAIT_SUB" /\ h.raw = "none" /\ k # <<>> /\ Turn(s, k, l, m)
           /\ n = <<>> /\ (h.sub <=> (l = <<"OK">>))
  <2>1. Ordered(s, k, l) /\ ~h.sub
    BY <1>8 DEF Turn, Failed, Silent, Ordered
  <2> QED BY <1>3, <1>8, <2>1
<1>9. CASE s = "WAIT_TIMESTAMP" /\ h.raw = "none" /\ k # <<>> /\ h.sub
           /\ n \in {<<>>, <<"time">>} /\ (Turn(s, k, l, m) \/ Silent(k, l))
  BY <1>4, <1>9 DEF Silent
<1> QED BY <1>2, <1>5, <1>6, <1>7, <1>8, <1>9 DEF Careful, Silent, Failed

-----------------------------------------------------------------------------
(* The driver's side: from the context c a handler leads to e.             *)

Fields == {"state", "before", "beforeCmd", "lastCmd", "conn", "cw", "packet", "conf", "time",
           "mac", "nest", "out", "ack"}
Plain(c) == Fields \subseteq DOMAIN c /\ c.conn = "down" /\ c.cw = "down" /\ c.ack # "ack"
Did(e, c, s, n, x, o) ==
    /\ Plain(e) /\ e.before = c.before /\ e.beforeCmd = c.beforeCmd
    /\ e.state = s /\ e.nest = n /\ e.lastCmd = x /\ e.out = o

Unmoved(e, c) == Did(e, c, c.state, c.nest, c.lastCmd, c.out)
Moved(e, c, s) == Did(e, c, s, c.nest, c.lastCmd, c.out)
Spoke(e, c, w, s) == Did(e, c, s, c.nest, w, Append(c.out, w))
Slept(e, c, r) == Did(e, c, c.state, Append(c.nest, r), c.lastCmd, c.out)
Pulsed(e, c) == Did(e, c, "RESTORE", c.nest, c.lastCmd, Append(c.out, "PULSE"))
Paid(e, c, w) == Did(e, c, "MQTT_PUBLISHING", c.nest, c.lastCmd, Append(c.out, w))
Timed(e, c) == Did(e, c, "WAIT_TIMESTAMP", Append(c.nest, "time"), "AT+SYSTIMESTAMP?",
                   Append(c.out, "AT+SYSTIMESTAMP?"))
Restarted(e, c) == Spoke(e, c, "AT+RESTORE", IF kind = "wifi" THEN "RESTORE" ELSE "OFF")

LEMMA ItIsUnmoved ==
  ASSUME NEW c, Plain(c)
  PROVE  Unmoved(c, c)
BY DEF Unmoved, Did

LEMMA ItMoves ==
  ASSUME NEW c, Plain(c), NEW s
  PROVE  Moved([c EXCEPT !.state = s], c, s)
BY DEF Moved, Did, Plain, Fields

LEMMA ItSpeaks ==
  ASSUME NEW c, Plain(c), NEW w, NEW s
  PROVE  /\ Spoke(A!W!SayAndWait(c, w, s), c, w, s)
         /\ Spoke(A!P!SayAndWait(c, w, s), c, w, s)
         /\ Spoke(A!SayAndWait(c, w, s), c, w, s)
<1>1. PICK o : o = Append(c.out, w)
  OBVIOUS
<1>2. Spoke([[c EXCEPT !.out = o, !.lastCmd = w] EXCEPT !.state = s], c, w, s)
  BY <1>1 DEF Spoke, Did, Plain, Fields
<1>3. [c EXCEPT !.out = o, !.lastCmd = w] = [c EXCEPT !.out = Append(@, w), !.lastCmd = w]
  BY <1>1
<1> QED BY <1>2, <1>3, Zenon DEF A!W!SayAndWait, A!P!SayAndWait, A!SayAndWait, A!W!Say, A!P!Say,
           A!Say

LEMMA ItSleeps ==
  ASSUME NEW c, Plain(c), NEW r
  PROVE  /\ Slept(A!W!Sleep(c, r), c, r) /\ Slept(A!P!Sleep(c, r), c, r)
<1>1. Slept([c EXCEPT !.nest = Append(@, r)], c, r)
  BY DEF Slept, Did, Plain, Fields
<1> QED BY <1>1, Zenon DEF A!W!Sleep, A!P!Sleep

LEMMA ItPays ==
  ASSUME NEW c, Plain(c)
  PROVE  \E w \in {"payload meas", "payload resp"} :
           /\ Paid(A!W!RawSend([c EXCEPT !.state = "MQTT_PUBLISHING"], A!W!Payload(c.packet)), c, w)
           /\ Paid(A!P!RawSend([c EXCEPT !.state = "MQTT_PUBLISHING"], A!P!Payload(c.packet)), c, w)
<1>1. PICK w \in {"payload meas", "payload resp"} :
        w = A!W!Payload(c.packet) /\ w = A!P!Payload(c.packet)
  BY DEF A!W!Payload, A!P!Payload
<1>2. PICK d : d = [c EXCEPT !.state = "MQTT_PUBLISHING"]
  OBVIOUS
<1>3. Paid([d EXCEPT !.out = Append(@, w)], c, w)
  BY <1>2 DEF Paid, Did, Plain, Fields
<1>4. A!W!RawSend(d, w) = [d EXCEPT !.out = Append(@, w)] /\ A!P!RawSend(d, w) = [d EXCEPT !.out = Append(@, w)]
  BY Zenon DEF A!W!RawSend, A!P!RawSend
<1> QED BY <1>1, <1>2, <1>3, <1>4

LEMMA ItPulses ==
  ASSUME NEW c, Plain(c)
  PROVE  Pulsed(A!W!HwReset(c), c)
BY DEF Pulsed, Did, Plain, Fields, A!W!HwReset, A!W!RawSend

\* Not a handler takes note of anything else.
LEMMA ItNotes ==
  ASSUME NEW c, NEW d, NEW v, NEW s, NEW n, NEW x, NEW o, Did(d, c, s, n, x, o)
  PROVE  /\ Did([d EXCEPT !.mac = v], c, s, n, x, o) /\ Did([d EXCEPT !.time = v], c, s, n, x, o)
         /\ Did([d EXCEPT !.packet = v], c, s, n, x, o)
         /\ v = "down" => /\ Did([d EXCEPT !.conn = v], c, s, n, x, o)
                          /\ Did([d EXCEPT !.cw = v], c, s, n, x, o)
         /\ v # "ack" => Did([d EXCEPT !.ack = v], c, s, n, x, o)
BY DEF Did, Plain, Fields

LEMMA ItIsTold ==
  ASSUME NEW c, NEW d, NEW s, NEW n, NEW x, NEW o, Did(d, c, s, n, x, o)
  PROVE  Did(A!Told(d), c, s, n, x, o)
<1>1. d.ack # "ack"
  BY DEF Did, Plain
<1>2. A!Told(d) = [d EXCEPT !.ack = A!None]
  BY <1>1 DEF A!Told
<1>3. PICK v : v = A!None
  OBVIOUS
<1>4. v # "ack"
  BY <1>3 DEF A!None
<1>5. Did([d EXCEPT !.ack = v], c, s, n, x, o)
  BY <1>4, ItNotes
<1> QED BY <1>2, <1>3, <1>5

LEMMA ItAsksTime ==
  ASSUME NEW c, Plain(c)
  PROVE  Timed(A!AskTime(c), c)
<1>1. PICK b : b = A!SayAndWait(c, "AT+SYSTIMESTAMP?", "WAIT_TIMESTAMP")
  OBVIOUS
<1>2. Spoke(b, c, "AT+SYSTIMESTAMP?", "WAIT_TIMESTAMP")
  BY <1>1, ItSpeaks
<1>3. PICK v : v = IF b.time = A!None THEN A!None ELSE "old"
  OBVIOUS
<1>4. PICK d : d = [b EXCEPT !.time = v]
  OBVIOUS
<1>5. Did(d, c, "WAIT_TIMESTAMP", c.nest, "AT+SYSTIMESTAMP?", Append(c.out, "AT+SYSTIMESTAMP?"))
  BY <1>2, <1>4, ItNotes, Zenon DEF Spoke
<1>6. [b EXCEPT !.time = IF @ = A!None THEN A!None ELSE "old"] = d
  BY <1>3, <1>4
<1>7. A!AskTime(c) = [d EXCEPT !.nest = Append(@, "time")]
  BY <1>1, <1>6, Zenon DEF A!AskTime, A!Sleep
<1> QED BY <1>5, <1>7 DEF Timed, Did, Plain, Fields

\* The publication ends well: the modem is idle, or asked for the time of the
\* next message at once.
LEMMA ItIsPublished ==
  ASSUME NEW c, Plain(c), NEW e, NEW b, b = [c EXCEPT !.state = "IDLE"],
         e = A!Told([b EXCEPT !.ack = "ack"])
  PROVE  Moved(e, c, "IDLE") \/ Timed(e, c)
<1>1. PICK d : d = [b EXCEPT !.ack = "ack"]
  OBVIOUS
<1>2. PICK a : a = [d EXCEPT !.ack = A!None]
  OBVIOUS
<1>3. Moved(a, c, "IDLE")
  BY <1>1, <1>2 DEF Moved, Did, Plain, Fields, A!None
<1>4. Timed(A!AskTime(a), a) 
  BY <1>3, ItAsksTime DEF Moved, Did
<1>5. Timed(A!AskTime(a), c)
  BY <1>3, <1>4 DEF Timed, Moved, Did
<1> QED BY <1>1, <1>2, <1>3, <1>5 DEF A!Told
-----------------------------------------------------------------------------
(* What a driver makes of a line.                                          *)

OkOr(e, c, w, good) ==
    /\ w = "OK" => good
    /\ w = "ERROR" => Restarted(e, c)
    /\ w \notin {"OK", "ERROR"} => Unmoved(e, c)

\* The states both drivers know, in which they do the same.
AtTurns(c, w, e) ==
    /\ c.state = "DISABLE_ECHO" =>
         OkOr(e, c, w, Spoke(e, c, Order("WAIT_MAC_ADDRESS"), "WAIT_MAC_ADDRESS"))
    /\ c.state = "WAIT_MAC_ADDRESS" =>
         /\ w = "OK" => \/ Moved(e, c, "NO_CONF")
                        \/ kind = "wifi" /\ Spoke(e, c, "AT+CWCOUNTRY", "RF_REGION")
                        \/ kind = "poe" /\ Spoke(e, c, "AT+CIPSNTPCFG", "SNTP_WAIT_SET")
         /\ w # "OK" => Unmoved(e, c)
    /\ c.state = "SNTP_WAIT_SET" =>
         /\ w = "+TIME_UPDATED" =>
              IF kind = "wifi" THEN Slept(e, c, "sntp")
              ELSE Spoke(e, c, "AT+MQTTCONN?", "MQTT_IS_CONNECTED")
         /\ w = "ERROR" => Restarted(e, c)
         /\ w \notin {"+TIME_UPDATED", "ERROR"} => Unmoved(e, c)
    /\ c.state = "MQTT_IS_CONNECTED" /\ w # "+MQTTCONN up" =>
         OkOr(e, c, w, Spoke(e, c, "AT+MQTTUSERCFG", "MQTT_WAIT_USR_CONF"))
    /\ c.state = "MQTT_WAIT_USR_CONF" =>
         OkOr(e, c, w, Spoke(e, c, "AT+MQTTCONNCFG", "MQTT_WAIT_CONF"))
    /\ c.state = "MQTT_WAIT_CONF" => OkOr(e, c, w, Slept(e, c, "conf"))
    /\ c.state = "MQTT_CONNECTING" => OkOr(e, c, w, Slept(e, c, "connecting"))
    /\ c.state = "MQTT_WAIT_SUB" =>
         /\ w \in {"OK", "ALREADY SUBSCRIBE"} => Moved(e, c, "IDLE")
         /\ w = "ERROR" => Restarted(e, c)
         /\ w \notin {"OK", "ALREADY SUBSCRIBE", "ERROR"} => Unmoved(e, c)
    /\ c.state = "MQTT_WAIT_PUB" =>
         OkOr(e, c, w, \E t \in {"payload meas", "payload resp"} : Paid(e, c, t))
    /\ c.state = "WAIT_TIMESTAMP" =>
         /\ w = "OK" => Moved(e, c, "IDLE")
         /\ w # "OK" => Unmoved(e, c)
    /\ c.state \in {"IDLE", "NO_CONF", "WIFI_FAIL_CONNECT"} => Unmoved(e, c)

\* Those in which they differ, or which one of them does not know.
WifiTurns(c, w, e) ==
    /\ c.state = "OFF" =>
         IF w = "ready" THEN Spoke(e, c, "AT+CWSTATE?", "IS_CONNECTED") ELSE Unmoved(e, c)
    /\ c.state = "RESTORE" =>
         /\ w = "ready" => Spoke(e, c, "ATE0", "DISABLE_ECHO")
         /\ w = "ERROR" => Restarted(e, c)
         /\ w \notin {"ready", "ERROR"} => Unmoved(e, c)
    /\ c.state = "IS_CONNECTED" =>
         /\ w \in {"OK", "ERROR"} => Restarted(e, c)
         /\ w = "+CWSTATE down" => Unmoved(e, c)
    /\ c.state = "RF_REGION" => OkOr(e, c, w, Slept(e, c, "rf"))
    /\ c.state = "WIFI_SETTING_MODE" => OkOr(e, c, w, Spoke(e, c, "AT+CWINIT", "WIFI_INIT"))
    /\ c.state = "WIFI_INIT" => OkOr(e, c, w, Slept(e, c, "init"))
    /\ c.state = "WIFI_CONNECTING" =>
         /\ w = "OK" => Spoke(e, c, "AT+CIPSNTPCFG", "SNTP_WAIT_SET")
         /\ w = "ERROR" => Moved(e, c, "WIFI_FAIL_CONNECT")
         /\ w \notin {"OK", "ERROR"} => Unmoved(e, c)
    /\ c.state = "TIMEDOUT_WIFI_WAIT_STATE" =>
         /\ w = "+CWSTATE up" => Spoke(e, c, c.beforeCmd, c.before)
         /\ w = "+CWSTATE down" => Pulsed(e, c)
         /\ w \in {"OK", "+MQTTPUB:OK"} => Unmoved(e, c)
    /\ c.state = "TIMEDOUT_MQTT_WAIT_WIFI_STATE" =>
         /\ w = "+CWSTATE up" => Spoke(e, c, "AT+MQTTCONN?", "TIMEDOUT_MQTT_WAIT_MQTT_STATE")
         /\ w = "+CWSTATE down" => Pulsed(e, c)
         /\ w \in {"OK", "+MQTTPUB:OK", "+MQTTCONN up", "+MQTTCONN down"} => Unmoved(e, c)
    /\ c.state = "TIMEDOUT_MQTT_WAIT_MQTT_STATE" =>
         /\ w = "+MQTTCONN up" => Spoke(e, c, c.beforeCmd, c.before)
         /\ w = "+MQTTCONN down" => Restarted(e, c)
         /\ w \notin {"+MQTTCONN up", "+MQTTCONN down"} => Unmoved(e, c)
PoeTurns(c, w, e) ==
    /\ c.state = "OFF" =>
         IF w = "+ETH_GOT_IP" THEN Spoke(e, c, "ATE0", "DISABLE_ECHO") ELSE Unmoved(e, c)
    /\ c.state = "TIMEDOUT_WAIT_MQTT_STATE" =>
         /\ w = "+MQTTCONN up" => Spoke(e, c, c.beforeCmd, c.before)
         /\ w = "+MQTTCONN down" => Restarted(e, c)
         /\ w \notin {"+MQTTCONN up", "+MQTTCONN down"} => Unmoved(e, c)

LEMMA WifiSpeaks ==
  ASSUME NEW c, Plain(c), kind = "wifi"
  PROVE  /\ Restarted(A!W!Reset(c), c)
         /\ Spoke(A!W!SendRfRegion(c), c, "AT+CWCOUNTRY", "RF_REGION")
         /\ Spoke(A!W!DoMqttUserConf(c), c, "AT+MQTTUSERCFG", "MQTT_WAIT_USR_CONF")
         /\ Spoke(A!W!RetryCommand(c), c, c.beforeCmd, c.before)
BY ItSpeaks, Zenon DEF A!W!Reset, A!W!SendRfRegion, A!W!DoMqttUserConf, A!W!RetryCommand,
   A!W!UserCfg, Restarted

LEMMA WifiOkOr ==
  ASSUME NEW c, Plain(c), kind = "wifi", NEW w, NEW d, NEW e, e = A!W!OkOrReset(c, w, d)
  PROVE  /\ w = "OK" => e = d
         /\ w = "ERROR" => Restarted(e, c)
         /\ w \notin {"OK", "ERROR"} => Unmoved(e, c)
BY WifiSpeaks, ItIsUnmoved DEF A!W!OkOrReset, A!W!IsOk, A!W!IsError

LEMMA WifiShares ==
  ASSUME NEW c, Plain(c), kind = "wifi", NEW w
  PROVE  AtTurns(c, w, A!W!Handle(c, w))
<1>1. PICK e : e = A!W!Handle(c, w)
  OBVIOUS
<1>2. Order("WAIT_MAC_ADDRESS") = "AT+CIPSTAMAC?" /\ kind = "wifi" /\ Unmoved(c, c)
  BY ItIsUnmoved DEF Order
<1>3. c.state = "DISABLE_ECHO" =>
        OkOr(e, c, w, Spoke(e, c, Order("WAIT_MAC_ADDRESS"), "WAIT_MAC_ADDRESS"))
  <2> HAVE c.state = "DISABLE_ECHO"
  <2>1. PICK d : d = A!W!SayAndWait(c, "AT+CIPSTAMAC?", "WAIT_MAC_ADDRESS")
    OBVIOUS
  <2>2. e = A!W!OkOrReset(c, w, d)
    BY <1>1, <2>1 DEF A!W!Handle, A!W!ProcessDisableEcho
  <2>3. Spoke(d, c, Order("WAIT_MAC_ADDRESS"), "WAIT_MAC_ADDRESS")
    BY <2>1, <1>2, ItSpeaks
  <2> QED BY <2>2, <2>3, WifiOkOr DEF OkOr
<1>4. c.state = "WAIT_MAC_ADDRESS" =>
        /\ w = "OK" => Moved(e, c, "NO_CONF") \/ Spoke(e, c, "AT+CWCOUNTRY", "RF_REGION")
        /\ w # "OK" => Unmoved(e, c)
  <2> HAVE c.state = "WAIT_MAC_ADDRESS"
  <2>1. PICK d : d = [c EXCEPT !.state = "NO_CONF"]
    OBVIOUS
  <2>2. PICK b : b = A!W!SendRfRegion(c)
    OBVIOUS
  <2>3. PICK a : a = [c EXCEPT !.mac = TRUE]
    OBVIOUS
  <2>4. Moved(d, c, "NO_CONF") /\ Spoke(b, c, "AT+CWCOUNTRY", "RF_REGION")
    BY <2>1, <2>2, ItMoves, WifiSpeaks
  <2>5. Unmoved(a, c)
    <3>1. Unmoved([c EXCEPT !.mac = TRUE], c)
      BY <1>2, ItNotes, Zenon DEF Unmoved
    <3> QED BY <2>3, <3>1
  <2>6. e = CASE w = "+CIPSTAMAC" -> a
              [] w = "OK" -> IF A!W!MemIsValid(c) THEN b ELSE d
              [] OTHER -> c
    BY <1>1, <2>1, <2>2, <2>3 DEF A!W!Handle, A!W!ProcessWaitMac, A!W!KeepMac, A!W!IsOk
  <2> QED BY <1>2, <2>4, <2>5, <2>6
<1>5. c.state = "SNTP_WAIT_SET" =>
        /\ w = "+TIME_UPDATED" => Slept(e, c, "sntp")
        /\ w = "ERROR" => Restarted(e, c)
        /\ w \notin {"+TIME_UPDATED", "ERROR"} => Unmoved(e, c)
  <2> HAVE c.state = "SNTP_WAIT_SET"
  <2>1. PICK d : d = A!W!Sleep(c, "sntp")
    OBVIOUS
  <2>2. PICK b : b = A!W!Reset(c)
    OBVIOUS
  <2>3. Slept(d, c, "sntp") /\ Restarted(b, c)
    BY <2>1, <2>2, ItSleeps, WifiSpeaks
  <2>4. e = CASE w = "+TIME_UPDATED" -> d [] w = "ERROR" -> b [] OTHER -> c
    BY <1>1, <2>1, <2>2 DEF A!W!Handle, A!W!ProcessSntp, A!W!IsError
  <2> QED BY <1>2, <2>3, <2>4
<1>6. c.state = "MQTT_IS_CONNECTED" /\ w # "+MQTTCONN up" =>
        OkOr(e, c, w, Spoke(e, c, "AT+MQTTUSERCFG", "MQTT_WAIT_USR_CONF"))
  <2> HAVE c.state = "MQTT_IS_CONNECTED" /\ w # "+MQTTCONN up"
  <2>1. PICK a : a = [c EXCEPT !.conn = A!W!ConnOf(w)]
    OBVIOUS
  <2>2. PICK b : b = A!W!DoMqttUserConf(c)
    OBVIOUS
  <2>3. PICK d : d = A!W!Reset(c)
    OBVIOUS
  <2>4. c.conn # "up" /\ A!W!ConnOf(w) = "down"
    BY DEF Plain, A!W!ConnOf
  <2>5. e = IF w \in A!W!ConnLines THEN a ELSE IF w = "OK" THEN [b EXCEPT !.conn = "down"]
            ELSE IF w = "ERROR" THEN d ELSE c
    BY <1>1, <2>1, <2>2, <2>3, <2>4 DEF A!W!Handle, A!W!ProcessIsMqttConnected, A!W!IsOk, A!W!IsError
  <2>6. Unmoved(a, c)
    <3>1. Unmoved([c EXCEPT !.conn = "down"], c)
      BY <1>2, ItNotes, Zenon DEF Unmoved
    <3> QED BY <2>1, <2>4, <3>1
  <2>7. Restarted(d, c)
    BY <2>3, WifiSpeaks
  <2>8. Spoke([b EXCEPT !.conn = "down"], c, "AT+MQTTUSERCFG", "MQTT_WAIT_USR_CONF")
    <3>1. Spoke(b, c, "AT+MQTTUSERCFG", "MQTT_WAIT_USR_CONF")
      BY <2>2, WifiSpeaks
    <3> QED BY <3>1, ItNotes, Zenon DEF Spoke
  <2>9. "OK" \notin A!W!ConnLines /\ "ERROR" \notin A!W!ConnLines
    BY DEF A!W!ConnLines
  <2> QED BY <1>2, <2>5, <2>6, <2>7, <2>8, <2>9 DEF OkOr
<1>7. c.state = "MQTT_WAIT_USR_CONF" =>
        OkOr(e, c, w, Spoke(e, c, "AT+MQTTCONNCFG", "MQTT_WAIT_CONF"))
  <2> HAVE c.state = "MQTT_WAIT_USR_CONF"
  <2>1. PICK d : d = A!W!SayAndWait(c, "AT+MQTTCONNCFG", "MQTT_WAIT_CONF")
    OBVIOUS
  <2>2. e = A!W!OkOrReset(c, w, d)
    BY <1>1, <2>1 DEF A!W!Handle, A!W!ProcessUsrConf, A!W!ConnCfg
  <2>3. Spoke(d, c, "AT+MQTTCONNCFG", "MQTT_WAIT_CONF")
    BY <2>1, ItSpeaks
  <2> QED BY <2>2, <2>3, WifiOkOr DEF OkOr
<1>8. c.state = "MQTT_WAIT_CONF" =>
        OkOr(e, c, w, Slept(e, c, "conf"))
  <2> HAVE c.state = "MQTT_WAIT_CONF"
  <2>1. PICK d : d = A!W!Sleep(c, "conf")
    OBVIOUS
  <2>2. e = A!W!OkOrReset(c, w, d)
    BY <1>1, <2>1 DEF A!W!Handle, A!W!ProcessWaitConf
  <2>3. Slept(d, c, "conf")
    BY <2>1, ItSleeps
  <2> QED BY <2>2, <2>3, WifiOkOr DEF OkOr
<1>9. c.state = "MQTT_CONNECTING" =>
        OkOr(e, c, w, Slept(e, c, "connecting"))
  <2> HAVE c.state = "MQTT_CONNECTING"
  <2>1. PICK d : d = A!W!Sleep(c, "connecting")
    OBVIOUS
  <2>2. e = A!W!OkOrReset(c, w, d)
    BY <1>1, <2>1 DEF A!W!Handle, A!W!ProcessConnecting
  <2>3. Slept(d, c, "connecting")
    BY <2>1, ItSleeps
  <2> QED BY <2>2, <2>3, WifiOkOr DEF OkOr
<1>10. c.state = "MQTT_WAIT_SUB" =>
        /\ w \in {"OK", "ALREADY SUBSCRIBE"} => Moved(e, c, "IDLE")
        /\ w = "ERROR" => Restarted(e, c)
        /\ w \notin {"OK", "ALREADY SUBSCRIBE", "ERROR"} => Unmoved(e, c)
  <2> HAVE c.state = "MQTT_WAIT_SUB"
  <2>1. PICK d : d = [c EXCEPT !.state = "IDLE"]
    OBVIOUS
  <2>2. PICK b : b = A!W!OkOrReset(c, w, d)
    OBVIOUS
  <2>3. e = IF w = "ALREADY SUBSCRIBE" THEN d ELSE b
    BY <1>1, <2>1, <2>2 DEF A!W!Handle, A!W!ProcessWaitSub
  <2>4. Moved(d, c, "IDLE")
    BY <2>1, ItMoves
  <2>5. CASE w = "ALREADY SUBSCRIBE"
    BY <2>3, <2>4, <2>5
  <2>6. CASE w # "ALREADY SUBSCRIBE"
    <3>1. e = b
      BY <2>3, <2>6
    <3>2. /\ w = "OK" => b = d
          /\ w = "ERROR" => Restarted(b, c)
          /\ w \notin {"OK", "ERROR"} => Unmoved(b, c)
      BY <2>2, WifiOkOr
    <3> QED BY <2>4, <2>6, <3>1, <3>2
  <2> QED BY <2>5, <2>6
<1>11. c.state = "MQTT_WAIT_PUB" =>
         OkOr(e, c, w, \E t \in {"payload meas", "payload resp"} : Paid(e, c, t))
  <2> HAVE c.state = "MQTT_WAIT_PUB"
  <2>1. PICK d : d = A!W!RawSend([c EXCEPT !.state = "MQTT_PUBLISHING"], A!W!Payload(c.packet))
    OBVIOUS
  <2>2. e = A!W!OkOrReset(c, w, d)
    BY <1>1, <2>1 DEF A!W!Handle, A!W!ProcessWaitPub
  <2>3. \E t \in {"payload meas", "payload resp"} : Paid(d, c, t)
    BY <2>1, ItPays
  <2>4. /\ w = "OK" => e = d
        /\ w = "ERROR" => Restarted(e, c)
        /\ w \notin {"OK", "ERROR"} => Unmoved(e, c)
    BY <2>2, WifiOkOr
  <2>5. w = "OK" => \E t \in {"payload meas", "payload resp"} : Paid(e, c, t)
    BY <2>3, <2>4, Zenon
  <2> QED BY <2>4, <2>5, Zenon DEF OkOr
<1>12. c.state = "WAIT_TIMESTAMP" =>
         /\ w = "OK" => Moved(e, c, "IDLE")
         /\ w # "OK" => Unmoved(e, c)
  <2> HAVE c.state = "WAIT_TIMESTAMP"
  <2>1. PICK d : d = [c EXCEPT !.state = "IDLE"]
    OBVIOUS
  <2>2. PICK b : b = [c EXCEPT !.time = "fresh"]
    OBVIOUS
  <2>3. e = IF w = "+SYSTIMESTAMP" THEN b ELSE IF w = "OK" THEN d ELSE c
    BY <1>1, <2>1, <2>2 DEF A!W!Handle, A!W!WaitTimestamp, A!W!IsOk
  <2>4. Moved(d, c, "IDLE")
    BY <2>1, ItMoves
  <2>5. Unmoved(b, c)
    <3>1. Unmoved([c EXCEPT !.time = "fresh"], c)
      BY <1>2, ItNotes, Zenon DEF Unmoved
    <3> QED BY <2>2, <3>1
  <2> QED BY <1>2, <2>3, <2>4, <2>5
<1>13. c.state \in {"IDLE", "NO_CONF", "WIFI_FAIL_CONNECT"} => Unmoved(e, c)
  BY <1>1, <1>2 DEF A!W!Handle
<1>20. AtTurns(c, w, e)
  BY <1>2, <1>3, <1>4, <1>5, <1>6, <1>7, <1>8, <1>9, <1>10, <1>11, <1>12, <1>13 DEF AtTurns
<1> QED BY <1>1, <1>20

LEMMA PoeSpeaks ==
  ASSUME NEW c, Plain(c), kind = "poe"
  PROVE  /\ Restarted(A!P!Reset(c), c)
         /\ Spoke(A!P!SendSntp(c), c, "AT+CIPSNTPCFG", "SNTP_WAIT_SET")
         /\ Spoke(A!P!DoMqttUserConf(c), c, "AT+MQTTUSERCFG", "MQTT_WAIT_USR_CONF")
         /\ Spoke(A!P!RetryCommand(c), c, c.beforeCmd, c.before)
<1>1. kind # "wifi"
  OBVIOUS
<1> QED BY <1>1, ItSpeaks, Zenon DEF A!P!Reset, A!P!SendSntp, A!P!DoMqttUserConf, A!P!RetryCommand,
           A!P!UserCfg, A!P!NtpCfg, Restarted

LEMMA PoeOkOr ==
  ASSUME NEW c, Plain(c), kind = "poe", NEW w, NEW d, NEW e, e = A!P!OkOrReset(c, w, d)
  PROVE  /\ w = "OK" => e = d
         /\ w = "ERROR" => Restarted(e, c)
         /\ w \notin {"OK", "ERROR"} => Unmoved(e, c)
BY PoeSpeaks, ItIsUnmoved DEF A!P!OkOrReset, A!P!IsOk, A!P!IsError

LEMMA PoeShares ==
  ASSUME NEW c, Plain(c), kind = "poe", NEW w
  PROVE  AtTurns(c, w, A!P!Handle(c, w))
<1>1. PICK e : e = A!P!Handle(c, w)
  OBVIOUS
<1>2. Order("WAIT_MAC_ADDRESS") = "AT+CIPETHMAC?" /\ kind = "poe" /\ Unmoved(c, c)
  BY ItIsUnmoved DEF Order
<1>3. c.state = "DISABLE_ECHO" =>
        OkOr(e, c, w, Spoke(e, c, Order("WAIT_MAC_ADDRESS"), "WAIT_MAC_ADDRESS"))
  <2> HAVE c.state = "DISABLE_ECHO"
  <2>1. PICK d : d = A!P!SayAndWait(c, "AT+CIPETHMAC?", "WAIT_MAC_ADDRESS")
    OBVIOUS
  <2>2. e = A!P!OkOrReset(c, w, d)
    BY <1>1, <2>1 DEF A!P!Handle, A!P!ProcessDisableEcho
  <2>3. Spoke(d, c, Order("WAIT_MAC_ADDRESS"), "WAIT_MAC_ADDRESS")
    BY <2>1, <1>2, ItSpeaks
  <2> QED BY <2>2, <2>3, PoeOkOr DEF OkOr
<1>4. c.state = "WAIT_MAC_ADDRESS" =>
        /\ w = "OK" => Moved(e, c, "NO_CONF") \/ Spoke(e, c, "AT+CIPSNTPCFG", "SNTP_WAIT_SET")
        /\ w # "OK" => Unmoved(e, c)
  <2> HAVE c.state = "WAIT_MAC_ADDRESS"
  <2>1. PICK d : d = [c EXCEPT !.state = "NO_CONF"]
    OBVIOUS
  <2>2. PICK b : b = A!P!SendSntp(c)
    OBVIOUS
  <2>3. PICK a : a = [c EXCEPT !.mac = TRUE]
    OBVIOUS
  <2>4. Moved(d, c, "NO_CONF") /\ Spoke(b, c, "AT+CIPSNTPCFG", "SNTP_WAIT_SET")
    BY <2>1, <2>2, ItMoves, PoeSpeaks
  <2>5. Unmoved(a, c)
    <3>1. Unmoved([c EXCEPT !.mac = TRUE], c)
      BY <1>2, ItNotes, Zenon DEF Unmoved
    <3> QED BY <2>3, <3>1
  <2>6. e = CASE w = "+CIPETHMAC" -> a
              [] w = "OK" -> IF A!P!MemIsValid(c) THEN b ELSE d
              [] OTHER -> c
    BY <1>1, <2>1, <2>2, <2>3 DEF A!P!Handle, A!P!ProcessWaitMac, A!P!KeepMac, A!P!IsOk
  <2> QED BY <1>2, <2>4, <2>5, <2>6
<1>5. c.state = "SNTP_WAIT_SET" =>
        /\ w = "+TIME_UPDATED" => Spoke(e, c, "AT+MQTTCONN?", "MQTT_IS_CONNECTED")
        /\ w = "ERROR" => Restarted(e, c)
        /\ w \notin {"+TIME_UPDATED", "ERROR"} => Unmoved(e, c)
  <2> HAVE c.state = "SNTP_WAIT_SET"
  <2>1. PICK d : d = A!P!SayAndWait(c, "AT+MQTTCONN?", "MQTT_IS_CONNECTED")
    OBVIOUS
  <2>2. PICK b : b = A!P!Reset(c)
    OBVIOUS
  <2>3. Spoke(d, c, "AT+MQTTCONN?", "MQTT_IS_CONNECTED") /\ Restarted(b, c)
    BY <2>1, <2>2, ItSpeaks, PoeSpeaks
  <2>4. e = CASE w = "+TIME_UPDATED" -> d [] w = "ERROR" -> b [] OTHER -> c
    BY <1>1, <2>1, <2>2 DEF A!P!Handle, A!P!ProcessSntp, A!P!IsError
  <2> QED BY <1>2, <2>3, <2>4
<1>6. c.state = "MQTT_IS_CONNECTED" /\ w # "+MQTTCONN up" =>
        OkOr(e, c, w, Spoke(e, c, "AT+MQTTUSERCFG", "MQTT_WAIT_USR_CONF"))
  <2> HAVE c.state = "MQTT_IS_CONNECTED" /\ w # "+MQTTCONN up"
  <2>1. PICK a : a = [c EXCEPT !.conn = A!P!ConnOf(w)]
    OBVIOUS
  <2>2. PICK b : b = A!P!DoMqttUserConf(c)
    OBVIOUS
  <2>3. PICK d : d = A!P!Reset(c)
    OBVIOUS
  <2>4. c.conn # "up" /\ A!P!ConnOf(w) = "down"
    BY DEF Plain, A!P!ConnOf
  <2>5. e = IF w \in A!P!ConnLines THEN a ELSE IF w = "OK" THEN [b EXCEPT !.conn = "down"]
            ELSE IF w = "ERROR" THEN d ELSE c
    BY <1>1, <2>1, <2>2, <2>3, <2>4 DEF A!P!Handle, A!P!ProcessIsMqttConnected, A!P!IsOk, A!P!IsError
  <2>6. Unmoved(a, c)
    <3>1. Unmoved([c EXCEPT !.conn = "down"], c)
      BY <1>2, ItNotes, Zenon DEF Unmoved
    <3> QED BY <2>1, <2>4, <3>1
  <2>7. Restarted(d, c)
    BY <2>3, PoeSpeaks
  <2>8. Spoke([b EXCEPT !.conn = "down"], c, "AT+MQTTUSERCFG", "MQTT_WAIT_USR_CONF")
    <3>1. Spoke(b, c, "AT+MQTTUSERCFG", "MQTT_WAIT_USR_CONF")
      BY <2>2, PoeSpeaks
    <3> QED BY <3>1, ItNotes, Zenon DEF Spoke
  <2>9. "OK" \notin A!P!ConnLines /\ "ERROR" \notin A!P!ConnLines
    BY DEF A!P!ConnLines
  <2> QED BY <1>2, <2>5, <2>6, <2>7, <2>8, <2>9 DEF OkOr
<1>7. c.state = "MQTT_WAIT_USR_CONF" =>
        OkOr(e, c, w, Spoke(e, c, "AT+MQTTCONNCFG", "MQTT_WAIT_CONF"))
  <2> HAVE c.state = "MQTT_WAIT_USR_CONF"
  <2>1. PICK d : d = A!P!SayAndWait(c, "AT+MQTTCONNCFG", "MQTT_WAIT_CONF")
    OBVIOUS
  <2>2. e = A!P!OkOrReset(c, w, d)
    BY <1>1, <2>1 DEF A!P!Handle, A!P!ProcessUsrConf, A!P!ConnCfg
  <2>3. Spoke(d, c, "AT+MQTTCONNCFG", "MQTT_WAIT_CONF")
    BY <2>1, ItSpeaks
  <2> QED BY <2>2, <2>3, PoeOkOr DEF OkOr
<1>8. c.state = "MQTT_WAIT_CONF" =>
        OkOr(e, c, w, Slept(e, c, "conf"))
  <2> HAVE c.state = "MQTT_WAIT_CONF"
  <2>1. PICK d : d = A!P!Sleep(c, "conf")
    OBVIOUS
  <2>2. e = A!P!OkOrReset(c, w, d)
    BY <1>1, <2>1 DEF A!P!Handle, A!P!ProcessWaitConf
  <2>3. Slept(d, c, "conf")
    BY <2>1, ItSleeps
  <2> QED BY <2>2, <2>3, PoeOkOr DEF OkOr
<1>9. c.state = "MQTT_CONNECTING" =>
        OkOr(e, c, w, Slept(e, c, "connecting"))
  <2> HAVE c.state = "MQTT_CONNECTING"
  <2>1. PICK d : d = A!P!Sleep(c, "connecting")
    OBVIOUS
  <2>2. e = A!P!OkOrReset(c, w, d)
    BY <1>1, <2>1 DEF A!P!Handle, A!P!ProcessConnecting
  <2>3. Slept(d, c, "connecting")
    BY <2>1, ItSleeps
  <2> QED BY <2>2, <2>3, PoeOkOr DEF OkOr
<1>10. c.state = "MQTT_WAIT_SUB" =>
        /\ w \in {"OK", "ALREADY SUBSCRIBE"} => Moved(e, c, "IDLE")
        /\ w = "ERROR" => Restarted(e, c)
        /\ w \notin {"OK", "ALREADY SUBSCRIBE", "ERROR"} => Unmoved(e, c)
  <2> HAVE c.state = "MQTT_WAIT_SUB"
  <2>1. PICK d : d = [c EXCEPT !.state = "IDLE"]
    OBVIOUS
  <2>2. PICK b : b = A!P!OkOrReset(c, w, d)
    OBVIOUS
  <2>3. e = IF w = "ALREADY SUBSCRIBE" THEN d ELSE b
    BY <1>1, <2>1, <2>2 DEF A!P!Handle, A!P!ProcessWaitSub
  <2>4. Moved(d, c, "IDLE")
    BY <2>1, ItMoves
  <2>5. CASE w = "ALREADY SUBSCRIBE"
    BY <2>3, <2>4, <2>5
  <2>6. CASE w # "ALREADY SUBSCRIBE"
    <3>1. e = b
      BY <2>3, <2>6
    <3>2. /\ w = "OK" => b = d
          /\ w = "ERROR" => Restarted(b, c)
          /\ w \notin {"OK", "ERROR"} => Unmoved(b, c)
      BY <2>2, PoeOkOr
    <3> QED BY <2>4, <2>6, <3>1, <3>2
  <2> QED BY <2>5, <2>6
<1>11. c.state = "MQTT_WAIT_PUB" =>
         OkOr(e, c, w, \E t \in {"payload meas", "payload resp"} : Paid(e, c, t))
  <2> HAVE c.state = "MQTT_WAIT_PUB"
  <2>1. PICK d : d = A!P!RawSend([c EXCEPT !.state = "MQTT_PUBLISHING"], A!P!Payload(c.packet))
    OBVIOUS
  <2>2. e = A!P!OkOrReset(c, w, d)
    BY <1>1, <2>1 DEF A!P!Handle, A!P!ProcessWaitPub
  <2>3. \E t \in {"payload meas", "payload resp"} : Paid(d, c, t)
    BY <2>1, ItPays
  <2>4. /\ w = "OK" => e = d
        /\ w = "ERROR" => Restarted(e, c)
        /\ w \notin {"OK", "ERROR"} => Unmoved(e, c)
    BY <2>2, PoeOkOr
  <2>5. w = "OK" => \E t \in {"payload meas", "payload resp"} : Paid(e, c, t)
    BY <2>3, <2>4, Zenon
  <2> QED BY <2>4, <2>5, Zenon DEF OkOr
<1>12. c.state = "WAIT_TIMESTAMP" =>
         /\ w = "OK" => Moved(e, c, "IDLE")
         /\ w # "OK" => Unmoved(e, c)
  <2> HAVE c.state = "WAIT_TIMESTAMP"
  <2>1. PICK d : d = [c EXCEPT !.state = "IDLE"]
    OBVIOUS
  <2>2. PICK b : b = [c EXCEPT !.time = "fresh"]
    OBVIOUS
  <2>3. e = IF w = "+SYSTIMESTAMP" THEN b ELSE IF w = "OK" THEN d ELSE c
    BY <1>1, <2>1, <2>2 DEF A!P!Handle, A!P!WaitTimestamp, A!P!IsOk
  <2>4. Moved(d, c, "IDLE")
    BY <2>1, ItMoves
  <2>5. Unmoved(b, c)
    <3>1. Unmoved([c EXCEPT !.time = "fresh"], c)
      BY <1>2, ItNotes, Zenon DEF Unmoved
    <3> QED BY <2>2, <3>1
  <2> QED BY <1>2, <2>3, <2>4, <2>5
<1>13. c.state \in {"IDLE", "NO_CONF", "WIFI_FAIL_CONNECT"} => Unmoved(e, c)
  BY <1>1, <1>2 DEF A!P!Handle
<1>20. AtTurns(c, w, e)
  BY <1>2, <1>3, <1>4, <1>5, <1>6, <1>7, <1>8, <1>9, <1>10, <1>11, <1>12, <1>13 DEF AtTurns
<1> QED BY <1>1, <1>20

LEMMA WifiOwn ==
  ASSUME NEW c, Plain(c), kind = "wifi", NEW w
  PROVE  WifiTurns(c, w, A!W!Handle(c, w))
<1>1. PICK e : e = A!W!Handle(c, w)
  OBVIOUS
<1>2. Unmoved(c, c)
  BY ItIsUnmoved
<1>3. PICK r : r = A!W!Reset(c)
  OBVIOUS
<1>4. Restarted(r, c)
  BY <1>3, WifiSpeaks
<1>5. PICK b : b = A!W!HwReset(c)
  OBVIOUS
<1>6. Pulsed(b, c)
  BY <1>5, ItPulses
<1>7. c.state = "OFF" =>
        IF w = "ready" THEN Spoke(e, c, "AT+CWSTATE?", "IS_CONNECTED") ELSE Unmoved(e, c)
  <2> HAVE c.state = "OFF"
  <2>1. PICK d : d = A!W!SayAndWait(c, "AT+CWSTATE?", "IS_CONNECTED")
    OBVIOUS
  <2>2. Spoke(d, c, "AT+CWSTATE?", "IS_CONNECTED")
    BY <2>1, ItSpeaks
  <2>3. e = IF w = "ready" THEN d ELSE c
    BY <1>1, <2>1 DEF A!W!Handle, A!W!ProcessOff, A!W!Start
  <2> QED BY <1>2, <2>2, <2>3
<1>8. c.state = "RESTORE" =>
        /\ w = "ready" => Spoke(e, c, "ATE0", "DISABLE_ECHO")
        /\ w = "ERROR" => Restarted(e, c)
        /\ w \notin {"ready", "ERROR"} => Unmoved(e, c)
  <2> HAVE c.state = "RESTORE"
  <2>1. PICK d : d = A!W!SayAndWait(c, "ATE0", "DISABLE_ECHO")
    OBVIOUS
  <2>2. Spoke(d, c, "ATE0", "DISABLE_ECHO")
    BY <2>1, ItSpeaks
  <2>3. e = CASE w = "ready" -> d [] w = "ERROR" -> r [] OTHER -> c
    BY <1>1, <1>3, <2>1 DEF A!W!Handle, A!W!ProcessRestore, A!W!IsError
  <2> QED BY <1>2, <1>4, <2>2, <2>3
<1>9. c.state = "IS_CONNECTED" =>
        /\ w \in {"OK", "ERROR"} => Restarted(e, c)
        /\ w = "+CWSTATE down" => Unmoved(e, c)
  <2> HAVE c.state = "IS_CONNECTED"
  <2>1. Restarted([r EXCEPT !.cw = "down"], c)
    BY <1>4, ItNotes, Zenon DEF Restarted, Spoke
  <2>2. Unmoved([c EXCEPT !.cw = "down"], c)
    BY <1>2, ItNotes, Zenon DEF Unmoved
  <2>3. c.cw = "down"
    BY DEF Plain
  <2>4. /\ w \in {"OK", "ERROR"} => e = [r EXCEPT !.cw = "down"]
        /\ w = "+CWSTATE down" => e = [c EXCEPT !.cw = "down"]
    BY <1>1, <1>3, <2>3 DEF A!W!Handle, A!W!ProcessIsConnected, A!W!IsOk, A!W!IsError
  <2> QED BY <2>1, <2>2, <2>4
<1>10. c.state = "RF_REGION" =>
        OkOr(e, c, w, Slept(e, c, "rf"))
  <2> HAVE c.state = "RF_REGION"
  <2>1. PICK d : d = A!W!Sleep(c, "rf")
    OBVIOUS
  <2>2. e = A!W!OkOrReset(c, w, d)
    BY <1>1, <2>1 DEF A!W!Handle, A!W!ProcessRfRegion
  <2>3. Slept(d, c, "rf")
    BY <2>1, ItSleeps
  <2> QED BY <2>2, <2>3, WifiOkOr DEF OkOr
<1>11. c.state = "WIFI_SETTING_MODE" =>
        OkOr(e, c, w, Spoke(e, c, "AT+CWINIT", "WIFI_INIT"))
  <2> HAVE c.state = "WIFI_SETTING_MODE"
  <2>1. PICK d : d = A!W!SayAndWait(c, "AT+CWINIT", "WIFI_INIT")
    OBVIOUS
  <2>2. e = A!W!OkOrReset(c, w, d)
    BY <1>1, <2>1 DEF A!W!Handle, A!W!ProcessSettingMode
  <2>3. Spoke(d, c, "AT+CWINIT", "WIFI_INIT")
    BY <2>1, ItSpeaks
  <2> QED BY <2>2, <2>3, WifiOkOr DEF OkOr
<1>12. c.state = "WIFI_INIT" =>
        OkOr(e, c, w, Slept(e, c, "init"))
  <2> HAVE c.state = "WIFI_INIT"
  <2>1. PICK d : d = A!W!Sleep(c, "init")
    OBVIOUS
  <2>2. e = A!W!OkOrReset(c, w, d)
    BY <1>1, <2>1 DEF A!W!Handle, A!W!ProcessWifiInit
  <2>3. Slept(d, c, "init")
    BY <2>1, ItSleeps
  <2> QED BY <2>2, <2>3, WifiOkOr DEF OkOr
<1>13. c.state = "WIFI_CONNECTING" =>
         /\ w = "OK" => Spoke(e, c, "AT+CIPSNTPCFG", "SNTP_WAIT_SET")
         /\ w = "ERROR" => Moved(e, c, "WIFI_FAIL_CONNECT")
         /\ w \notin {"OK", "ERROR"} => Unmoved(e, c)
  <2> HAVE c.state = "WIFI_CONNECTING"
  <2>1. PICK d : d = A!W!SayAndWait(c, "AT+CIPSNTPCFG", "SNTP_WAIT_SET")
    OBVIOUS
  <2>2. PICK a : a = [c EXCEPT !.state = "WIFI_FAIL_CONNECT"]
    OBVIOUS
  <2>3. Spoke(d, c, "AT+CIPSNTPCFG", "SNTP_WAIT_SET") /\ Moved(a, c, "WIFI_FAIL_CONNECT")
    BY <2>1, <2>2, ItSpeaks, ItMoves
  <2>4. e = CASE w = "OK" -> d [] w = "ERROR" -> a [] OTHER -> c
    BY <1>1, <2>1, <2>2 DEF A!W!Handle, A!W!ProcessWifiConn, A!W!IsOk, A!W!IsError, A!W!NtpCfg
  <2> QED BY <1>2, <2>3, <2>4
<1>14. c.state = "TIMEDOUT_WIFI_WAIT_STATE" =>
         /\ w = "+CWSTATE up" => Spoke(e, c, c.beforeCmd, c.before)
         /\ w = "+CWSTATE down" => Pulsed(e, c)
         /\ w \in {"OK", "+MQTTPUB:OK"} => Unmoved(e, c)
  <2> HAVE c.state = "TIMEDOUT_WIFI_WAIT_STATE"
  <2>1. PICK d : d = A!W!RetryCommand(c)
    OBVIOUS
  <2>2. Spoke(d, c, c.beforeCmd, c.before)
    BY <2>1, WifiSpeaks
  <2>3. /\ w = "+CWSTATE up" => e = d
        /\ w = "+CWSTATE down" => e = b
        /\ w \in {"OK", "+MQTTPUB:OK"} => e = c
    BY <1>1, <1>5, <2>1 DEF A!W!Handle, A!W!TimedoutWifi, A!W!CwLines
  <2> QED BY <1>2, <1>6, <2>2, <2>3
<1>15. c.state = "TIMEDOUT_MQTT_WAIT_WIFI_STATE" =>
         /\ w = "+CWSTATE up" => Spoke(e, c, "AT+MQTTCONN?", "TIMEDOUT_MQTT_WAIT_MQTT_STATE")
         /\ w = "+CWSTATE down" => Pulsed(e, c)
         /\ w \in {"OK", "+MQTTPUB:OK", "+MQTTCONN up", "+MQTTCONN down"} => Unmoved(e, c)
  <2> HAVE c.state = "TIMEDOUT_MQTT_WAIT_WIFI_STATE"
  <2>1. PICK d : d = A!W!SayAndWait(c, "AT+MQTTCONN?", "TIMEDOUT_MQTT_WAIT_MQTT_STATE")
    OBVIOUS
  <2>2. Spoke(d, c, "AT+MQTTCONN?", "TIMEDOUT_MQTT_WAIT_MQTT_STATE")
    BY <2>1, ItSpeaks
  <2>3. /\ w = "+CWSTATE up" => e = d
        /\ w = "+CWSTATE down" => e = b
        /\ w \in {"OK", "+MQTTPUB:OK", "+MQTTCONN up", "+MQTTCONN down"} => e = c
    BY <1>1, <1>5, <2>1 DEF A!W!Handle, A!W!TimedoutMqttWifi, A!W!CwLines
  <2> QED BY <1>2, <1>6, <2>2, <2>3
<1>16. c.state = "TIMEDOUT_MQTT_WAIT_MQTT_STATE" =>
         /\ w = "+MQTTCONN up" => Spoke(e, c, c.beforeCmd, c.before)
         /\ w = "+MQTTCONN down" => Restarted(e, c)
         /\ w \notin {"+MQTTCONN up", "+MQTTCONN down"} => Unmoved(e, c)
  <2> HAVE c.state = "TIMEDOUT_MQTT_WAIT_MQTT_STATE"
  <2>1. PICK d : d = A!W!RetryCommand(c)
    OBVIOUS
  <2>2. Spoke(d, c, c.beforeCmd, c.before)
    BY <2>1, WifiSpeaks
  <2>3. e = CASE w = "+MQTTCONN up" -> d [] w = "+MQTTCONN down" -> r [] OTHER -> c
    BY <1>1, <1>3, <2>1 DEF A!W!Handle, A!W!TimedoutMqtt
  <2> QED BY <1>2, <1>4, <2>2, <2>3
<1>20. WifiTurns(c, w, e)
  BY <1>7, <1>8, <1>9, <1>10, <1>11, <1>12, <1>13, <1>14, <1>15, <1>16 DEF WifiTurns
<1> QED BY <1>1, <1>20

LEMMA PoeOwn ==
  ASSUME NEW c, Plain(c), kind = "poe", NEW w
  PROVE  PoeTurns(c, w, A!P!Handle(c, w))
<1>1. PICK e : e = A!P!Handle(c, w)
  OBVIOUS
<1>2. Unmoved(c, c)
  BY ItIsUnmoved
<1>3. c.state = "OFF" =>
        IF w = "+ETH_GOT_IP" THEN Spoke(e, c, "ATE0", "DISABLE_ECHO") ELSE Unmoved(e, c)
  <2> HAVE c.state = "OFF"
  <2>1. PICK d : d = A!P!SayAndWait(c, "ATE0", "DISABLE_ECHO")
    OBVIOUS
  <2>2. Spoke(d, c, "ATE0", "DISABLE_ECHO")
    BY <2>1, ItSpeaks
  <2>3. e = IF w = "+ETH_GOT_IP" THEN d ELSE c
    BY <1>1, <2>1 DEF A!P!Handle, A!P!ProcessOff
  <2> QED BY <1>2, <2>2, <2>3
<1>4. c.state = "TIMEDOUT_WAIT_MQTT_STATE" =>
         /\ w = "+MQTTCONN up" => Spoke(e, c, c.beforeCmd, c.before)
         /\ w = "+MQTTCONN down" => Restarted(e, c)
         /\ w \notin {"+MQTTCONN up", "+MQTTCONN down"} => Unmoved(e, c)
  <2> HAVE c.state = "TIMEDOUT_WAIT_MQTT_STATE"
  <2>1. PICK d : d = A!P!RetryCommand(c)
    OBVIOUS
  <2>2. PICK r : r = A!P!Reset(c)
    OBVIOUS
  <2>3. Spoke(d, c, c.beforeCmd, c.before) /\ Restarted(r, c)
    BY <2>1, <2>2, PoeSpeaks
  <2>4. e = CASE w = "+MQTTCONN up" -> d [] w = "+MQTTCONN down" -> r [] OTHER -> c
    BY <1>1, <2>1, <2>2 DEF A!P!Handle, A!P!TimedoutMqtt
  <2> QED BY <1>2, <2>3, <2>4
<1>20. PoeTurns(c, w, e)
  BY <1>3, <1>4 DEF PoeTurns
<1> QED BY <1>1, <1>20

-----------------------------------------------------------------------------
(* What a driver makes of a line, with what Measurements does at once.     *)

Voices == {"OK", "ERROR", "ready", "+ETH_GOT_IP", "+CWSTATE up", "+CWSTATE down",
           "+MQTTCONN up", "+MQTTCONN down", "+MQTTPUB:OK", "+ERROR", "+CIPSTAMAC",
           "+CIPETHMAC", "+TIME_UPDATED", "+SYSTIMESTAMP", "ALREADY SUBSCRIBE"}

PubTurns(c, w, e) ==
    c.state = "MQTT_PUBLISHING" =>
         /\ w = "+MQTTPUB:OK" => Moved(e, c, "IDLE") \/ Timed(e, c)
         /\ w = "ERROR" => Restarted(e, c)
         /\ w \notin {"+MQTTPUB:OK", "ERROR"} => Unmoved(e, c)

Heeds(c, w, e) ==
    /\ AtTurns(c, w, e) /\ PubTurns(c, w, e)
    /\ kind = "wifi" => WifiTurns(c, w, e)
    /\ kind = "poe" => PoeTurns(c, w, e)

LEMMA ToldTurns ==
  ASSUME NEW c, NEW w, NEW e
  PROVE  /\ AtTurns(c, w, e) => AtTurns(c, w, A!Told(e))
         /\ WifiTurns(c, w, e) => WifiTurns(c, w, A!Told(e))
         /\ PoeTurns(c, w, e) => PoeTurns(c, w, A!Told(e))
<1>1. PICK d : d = A!Told(e)
  OBVIOUS
<1>2. \A s, n, x, o : Did(e, c, s, n, x, o) => Did(d, c, s, n, x, o)
  BY <1>1, ItIsTold
<1>3. /\ Unmoved(e, c) => Unmoved(d, c)
      /\ Restarted(e, c) => Restarted(d, c)
      /\ Pulsed(e, c) => Pulsed(d, c)
      /\ \A s : Moved(e, c, s) => Moved(d, c, s)
      /\ \A v, s : Spoke(e, c, v, s) => Spoke(d, c, v, s)
      /\ \A r : Slept(e, c, r) => Slept(d, c, r)
      /\ \A v : Paid(e, c, v) => Paid(d, c, v)
  BY <1>2, Zenon DEF Unmoved, Restarted, Pulsed, Moved, Spoke, Slept, Paid
<1>4. AtTurns(c, w, e) => AtTurns(c, w, d)
  <2> HAVE AtTurns(c, w, e)
  <2>1. c.state = "DISABLE_ECHO" =>
         OkOr(d, c, w, Spoke(d, c, Order("WAIT_MAC_ADDRESS"), "WAIT_MAC_ADDRESS"))
    BY <1>3, Zenon DEF AtTurns, OkOr
  <2>2. c.state = "WAIT_MAC_ADDRESS" =>
         /\ w = "OK" => \/ Moved(d, c, "NO_CONF")
                        \/ kind = "wifi" /\ Spoke(d, c, "AT+CWCOUNTRY", "RF_REGION")
                        \/ kind = "poe" /\ Spoke(d, c, "AT+CIPSNTPCFG", "SNTP_WAIT_SET")
         /\ w # "OK" => Unmoved(d, c)
    BY <1>3, Zenon DEF AtTurns, OkOr
  <2>3. c.state = "SNTP_WAIT_SET" =>
         /\ w = "+TIME_UPDATED" =>
              IF kind = "wifi" THEN Slept(d, c, "sntp")
              ELSE Spoke(d, c, "AT+MQTTCONN?", "MQTT_IS_CONNECTED")
         /\ w = "ERROR" => Restarted(d, c)
         /\ w \notin {"+TIME_UPDATED", "ERROR"} => Unmoved(d, c)
    BY <1>3, Zenon DEF AtTurns, OkOr
  <2>4. c.state = "MQTT_IS_CONNECTED" /\ w # "+MQTTCONN up" =>
         OkOr(d, c, w, Spoke(d, c, "AT+MQTTUSERCFG", "MQTT_WAIT_USR_CONF"))
    BY <1>3, Zenon DEF AtTurns, OkOr
  <2>5. c.state = "MQTT_WAIT_USR_CONF" =>
         OkOr(d, c, w, Spoke(d, c, "AT+MQTTCONNCFG", "MQTT_WAIT_CONF"))
    BY <1>3, Zenon DEF AtTurns, OkOr
  <2>6. c.state = "MQTT_WAIT_CONF" => OkOr(d, c, w, Slept(d, c, "conf"))
    BY <1>3, Zenon DEF AtTurns, OkOr
  <2>7. c.state = "MQTT_CONNECTING" => OkOr(d, c, w, Slept(d, c, "connecting"))
    BY <1>3, Zenon DEF AtTurns, OkOr
  <2>8. c.state = "MQTT_WAIT_SUB" =>
         /\ w \in {"OK", "ALREADY SUBSCRIBE"} => Moved(d, c, "IDLE")
         /\ w = "ERROR" => Restarted(d, c)
         /\ w \notin {"OK", "ALREADY SUBSCRIBE", "ERROR"} => Unmoved(d, c)
    BY <1>3, Zenon DEF AtTurns, OkOr
  <2>9. c.state = "MQTT_WAIT_PUB" =>
         OkOr(d, c, w, \E t \in {"payload meas", "payload resp"} : Paid(d, c, t))
    BY <1>3, Zenon DEF AtTurns, OkOr
  <2>10. c.state = "WAIT_TIMESTAMP" =>
         /\ w = "OK" => Moved(d, c, "IDLE")
         /\ w # "OK" => Unmoved(d, c)
    BY <1>3, Zenon DEF AtTurns, OkOr
  <2>11. c.state \in {"IDLE", "NO_CONF", "WIFI_FAIL_CONNECT"} => Unmoved(d, c)
    BY <1>3, Zenon DEF AtTurns, OkOr
  <2> QED BY <2>1, <2>2, <2>3, <2>4, <2>5, <2>6, <2>7, <2>8, <2>9, <2>10, <2>11, Zenon DEF AtTurns
<1>5. WifiTurns(c, w, e) => WifiTurns(c, w, d)
  <2> HAVE WifiTurns(c, w, e)
  <2>1. c.state = "OFF" =>
         IF w = "ready" THEN Spoke(d, c, "AT+CWSTATE?", "IS_CONNECTED") ELSE Unmoved(d, c)
    BY <1>3, Zenon DEF WifiTurns, OkOr
  <2>2. c.state = "RESTORE" =>
         /\ w = "ready" => Spoke(d, c, "ATE0", "DISABLE_ECHO")
         /\ w = "ERROR" => Restarted(d, c)
         /\ w \notin {"ready", "ERROR"} => Unmoved(d, c)
    BY <1>3, Zenon DEF WifiTurns, OkOr
  <2>3. c.state = "IS_CONNECTED" =>
         /\ w \in {"OK", "ERROR"} => Restarted(d, c)
         /\ w = "+CWSTATE down" => Unmoved(d, c)
    BY <1>3, Zenon DEF WifiTurns, OkOr
  <2>4. c.state = "RF_REGION" => OkOr(d, c, w, Slept(d, c, "rf"))
    BY <1>3, Zenon DEF WifiTurns, OkOr
  <2>5. c.state = "WIFI_SETTING_MODE" => OkOr(d, c, w, Spoke(d, c, "AT+CWINIT", "WIFI_INIT"))
    BY <1>3, Zenon DEF WifiTurns, OkOr
  <2>6. c.state = "WIFI_INIT" => OkOr(d, c, w, Slept(d, c, "init"))
    BY <1>3, Zenon DEF WifiTurns, OkOr
  <2>7. c.state = "WIFI_CONNECTING" =>
         /\ w = "OK" => Spoke(d, c, "AT+CIPSNTPCFG", "SNTP_WAIT_SET")
         /\ w = "ERROR" => Moved(d, c, "WIFI_FAIL_CONNECT")
         /\ w \notin {"OK", "ERROR"} => Unmoved(d, c)
    BY <1>3, Zenon DEF WifiTurns, OkOr
  <2>8. c.state = "TIMEDOUT_WIFI_WAIT_STATE" =>
         /\ w = "+CWSTATE up" => Spoke(d, c, c.beforeCmd, c.before)
         /\ w = "+CWSTATE down" => Pulsed(d, c)
         /\ w \in {"OK", "+MQTTPUB:OK"} => Unmoved(d, c)
    BY <1>3, Zenon DEF WifiTurns, OkOr
  <2>9. c.state = "TIMEDOUT_MQTT_WAIT_WIFI_STATE" =>
         /\ w = "+CWSTATE up" => Spoke(d, c, "AT+MQTTCONN?", "TIMEDOUT_MQTT_WAIT_MQTT_STATE")
         /\ w = "+CWSTATE down" => Pulsed(d, c)
         /\ w \in {"OK", "+MQTTPUB:OK", "+MQTTCONN up", "+MQTTCONN down"} => Unmoved(d, c)
    BY <1>3, Zenon DEF WifiTurns, OkOr
  <2>10. c.state = "TIMEDOUT_MQTT_WAIT_MQTT_STATE" =>
         /\ w = "+MQTTCONN up" => Spoke(d, c, c.beforeCmd, c.before)
         /\ w = "+MQTTCONN down" => Restarted(d, c)
         /\ w \notin {"+MQTTCONN up", "+MQTTCONN down"} => Unmoved(d, c)
    BY <1>3, Zenon DEF WifiTurns, OkOr
  <2> QED BY <2>1, <2>2, <2>3, <2>4, <2>5, <2>6, <2>7, <2>8, <2>9, <2>10, Zenon DEF WifiTurns
<1>6. PoeTurns(c, w, e) => PoeTurns(c, w, d)
  BY <1>3, Zenon DEF PoeTurns
<1> QED BY <1>1, <1>4, <1>5, <1>6

\* The end of a publication, well or not.
LEMMA ItIsRefused ==
  ASSUME NEW c, Plain(c), NEW d, d = [c EXCEPT !.ack = "nack"]
  PROVE  Plain(d) /\ d.state = c.state /\ d.nest = c.nest /\ d.out = c.out /\ d.lastCmd = c.lastCmd
         /\ d.before = c.before /\ d.beforeCmd = c.beforeCmd
BY DEF Plain, Fields

LEMMA RefusedRestarts ==
  ASSUME NEW c, Plain(c), NEW d, d = [c EXCEPT !.ack = "nack"], NEW e, Restarted(e, d)
  PROVE  Restarted(e, c)
BY ItIsRefused DEF Restarted, Spoke, Did

LEMMA WifiPublished ==
  ASSUME NEW c, Plain(c), kind = "wifi", NEW w
  PROVE  PubTurns(c, w, A!Told(A!W!Handle(c, w)))
<1>1. SUFFICES ASSUME c.state = "MQTT_PUBLISHING"
               PROVE  PubTurns(c, w, A!Told(A!W!Handle(c, w)))
  BY DEF PubTurns
<1>2. PICK e : e = A!W!Handle(c, w)
  OBVIOUS
<1>3. PICK b : b = [c EXCEPT !.state = "IDLE"]
  OBVIOUS
<1>4. PICK d : d = [c EXCEPT !.ack = "nack"]
  OBVIOUS
<1>5. e = CASE w = "+MQTTPUB:OK" -> [b EXCEPT !.ack = "ack"]
            [] w = "ERROR" -> A!W!Reset(d)
            [] OTHER -> c
  BY <1>1, <1>2, <1>3, <1>4 DEF A!W!Handle, A!W!ProcessPublishing, A!W!SentAck, A!W!IsError
<1>6. CASE w = "+MQTTPUB:OK"
  <2>1. e = [b EXCEPT !.ack = "ack"]
    BY <1>5, <1>6
  <2>2. PICK f : f = A!Told([b EXCEPT !.ack = "ack"])
    OBVIOUS
  <2>3. Moved(f, c, "IDLE") \/ Timed(f, c)
    BY <1>3, <2>2, ItIsPublished
  <2> QED BY <1>2, <1>6, <2>1, <2>2, <2>3 DEF PubTurns
<1>7. CASE w = "ERROR"
  <2>1. Restarted(e, d)
    BY <1>4, <1>5, <1>7, ItIsRefused, WifiSpeaks
  <2>2. Restarted(e, c)
    BY <1>4, <2>1, RefusedRestarts
  <2>3. Restarted(A!Told(e), c)
    BY <2>2, ItIsTold, Zenon DEF Restarted, Spoke
  <2> QED BY <1>2, <1>7, <2>3 DEF PubTurns
<1>8. CASE w \notin {"+MQTTPUB:OK", "ERROR"}
  <2>1. e = c
    BY <1>5, <1>8
  <2>2. Unmoved(A!Told(c), c)
    BY ItIsUnmoved, ItIsTold, Zenon DEF Unmoved
  <2> QED BY <1>2, <1>8, <2>1, <2>2 DEF PubTurns
<1> QED BY <1>6, <1>7, <1>8

LEMMA PoePublished ==
  ASSUME NEW c, Plain(c), kind = "poe", NEW w
  PROVE  PubTurns(c, w, A!Told(A!P!Handle(c, w)))
<1>1. SUFFICES ASSUME c.state = "MQTT_PUBLISHING"
               PROVE  PubTurns(c, w, A!Told(A!P!Handle(c, w)))
  BY DEF PubTurns
<1>2. PICK e : e = A!P!Handle(c, w)
  OBVIOUS
<1>3. PICK b : b = [c EXCEPT !.state = "IDLE"]
  OBVIOUS
<1>4. PICK d : d = [c EXCEPT !.ack = "nack"]
  OBVIOUS
<1>5. e = CASE w = "+MQTTPUB:OK" -> [b EXCEPT !.ack = "ack"]
            [] w = "ERROR" -> A!P!Reset(d)
            [] OTHER -> c
  BY <1>1, <1>2, <1>3, <1>4 DEF A!P!Handle, A!P!ProcessPublishing, A!P!SentAck, A!P!IsError
<1>6. CASE w = "+MQTTPUB:OK"
  <2>1. e = [b EXCEPT !.ack = "ack"]
    BY <1>5, <1>6
  <2>2. PICK f : f = A!Told([b EXCEPT !.ack = "ack"])
    OBVIOUS
  <2>3. Moved(f, c, "IDLE") \/ Timed(f, c)
    BY <1>3, <2>2, ItIsPublished
  <2> QED BY <1>2, <1>6, <2>1, <2>2, <2>3 DEF PubTurns
<1>7. CASE w = "ERROR"
  <2>1. Restarted(e, d)
    BY <1>4, <1>5, <1>7, ItIsRefused, PoeSpeaks
  <2>2. Restarted(e, c)
    BY <1>4, <2>1, RefusedRestarts
  <2>3. Restarted(A!Told(e), c)
    BY <2>2, ItIsTold, Zenon DEF Restarted, Spoke
  <2> QED BY <1>2, <1>7, <2>3 DEF PubTurns
<1>8. CASE w \notin {"+MQTTPUB:OK", "ERROR"}
  <2>1. e = c
    BY <1>5, <1>8
  <2>2. Unmoved(A!Told(c), c)
    BY ItIsUnmoved, ItIsTold, Zenon DEF Unmoved
  <2> QED BY <1>2, <1>8, <2>1, <2>2 DEF PubTurns
<1> QED BY <1>6, <1>7, <1>8

LEMMA ItHeeds ==
  ASSUME IsAt, NEW c, Plain(c), NEW w \in Voices
  PROVE  Heeds(c, w, A!Told(A!Process(c, w)))
<1>1. ~A!W!IsEvent(w) /\ ~A!P!IsEvent(w)
  BY DEF Voices, A!W!IsEvent, A!P!IsEvent, A!W!EventCmd, A!P!EventCmd
<1>2. CASE kind = "wifi"
  <2>1. A!Process(c, w) = A!W!Handle(c, w)
    BY <1>1, <1>2, Zenon DEF A!Process, A!W!Process
  <2>2. kind # "poe"
    BY <1>2
  <2>3. AtTurns(c, w, A!W!Handle(c, w)) /\ WifiTurns(c, w, A!W!Handle(c, w))
    BY <1>2, WifiShares, WifiOwn
  <2>4. /\ AtTurns(c, w, A!Told(A!W!Handle(c, w))) /\ WifiTurns(c, w, A!Told(A!W!Handle(c, w)))
        /\ PubTurns(c, w, A!Told(A!W!Handle(c, w)))
    BY <1>2, <2>3, ToldTurns, WifiPublished
  <2> QED BY <2>1, <2>2, <2>4 DEF Heeds
<1>3. CASE kind = "poe"
  <2>1. A!Process(c, w) = A!P!Handle(c, w)
    BY <1>1, <1>3 DEF A!Process, A!P!Process
  <2>2. kind # "wifi"
    BY <1>3
  <2>3. AtTurns(c, w, A!P!Handle(c, w)) /\ PoeTurns(c, w, A!P!Handle(c, w))
    BY <1>3, PoeShares, PoeOwn
  <2>4. /\ AtTurns(c, w, A!Told(A!P!Handle(c, w))) /\ PoeTurns(c, w, A!Told(A!P!Handle(c, w)))
        /\ PubTurns(c, w, A!Told(A!P!Handle(c, w)))
    BY <1>3, <2>3, ToldTurns, PoePublished
  <2> QED BY <2>1, <2>2, <2>4 DEF Heeds
<1> QED BY <1>2, <1>3 DEF IsAt

-----------------------------------------------------------------------------
(* What a step of the driver leaves in the UART: from the modem h, the     *)
(* commands k and the lines t still to be heard to g, j and i.             *)

Lands(o, h, k, t, g, j, i) ==
    IF o = <<"PULSE">>
    THEN j = <<>> /\ i = t \o A!BootLines /\ Set(g, FALSE, "down", FALSE, "none")
    ELSE j = k \o o /\ i = t /\ g = h

LEMMA LandsNothing ==
  ASSUME NEW h, NEW k \in Seq(Sends), NEW t, NEW g, NEW j, NEW i, Lands(<<>>, h, k, t, g, j, i)
  PROVE  j = k /\ i = t /\ g = h
BY DEF Lands

LEMMA WordIsSent ==
  ASSUME NEW w, w # "PULSE"
  PROVE  Append(<<>>, w) = <<w>> /\ <<w>> # <<"PULSE">> /\ <<>> \o <<w>> = <<w>>
OBVIOUS

\* Where each thing a handler may do leads: to e, with nothing sent, or the
\* word w.
Landed(e, s, n, x, h, k, t, g, j, i) ==
    /\ e.state = s /\ e.nest = n /\ e.lastCmd = x
    /\ j = k /\ i = t /\ g = h
SentOn(e, s, n, x, w, h, k, t, g, j, i) ==
    /\ e.state = s /\ e.nest = n /\ e.lastCmd = x
    /\ j = k \o <<w>> /\ i = t /\ g = h /\ (k = <<>> => j = <<w>>)

LEMMA ItLands ==
  ASSUME NEW c, c.out = <<>>, NEW e, NEW h, NEW k \in Seq(Sends), NEW t, NEW g, NEW j, NEW i,
         Lands(e.out, h, k, t, g, j, i)
  PROVE  /\ Unmoved(e, c) => Landed(e, c.state, c.nest, c.lastCmd, h, k, t, g, j, i)
         /\ \A s : Moved(e, c, s) => Landed(e, s, c.nest, c.lastCmd, h, k, t, g, j, i)
         /\ \A r : Slept(e, c, r) =>
              Landed(e, c.state, Append(c.nest, r), c.lastCmd, h, k, t, g, j, i)
<1>1. e.out = <<>> => j = k /\ i = t /\ g = h
  BY LandsNothing
<1>2. \A s, n, x : Did(e, c, s, n, x, c.out) => Landed(e, s, n, x, h, k, t, g, j, i)
  BY <1>1 DEF Did, Landed
<1> QED BY <1>2, Zenon DEF Unmoved, Moved, Slept

LEMMA ItSends ==
  ASSUME NEW c, c.out = <<>>, NEW e, NEW h, NEW k \in Seq(Sends), NEW t, NEW g, NEW j, NEW i,
         Lands(e.out, h, k, t, g, j, i), NEW w, w # "PULSE"
  PROVE  /\ \A s : Spoke(e, c, w, s) => SentOn(e, s, c.nest, w, w, h, k, t, g, j, i)
         /\ Paid(e, c, w) => SentOn(e, "MQTT_PUBLISHING", c.nest, c.lastCmd, w, h, k, t, g, j, i)
<1>1. e.out = Append(<<>>, w) => j = k \o <<w>> /\ i = t /\ g = h /\ (k = <<>> => j = <<w>>)
  <2> HAVE e.out = Append(<<>>, w)
  <2>1. PICK o : o = e.out
    OBVIOUS
  <2>2. o = <<w>> /\ o # <<"PULSE">> /\ <<>> \o o = o /\ Lands(o, h, k, t, g, j, i)
    BY <2>1, WordIsSent
  <2> QED BY <2>2 DEF Lands
<1>2. \A s, n, x : Did(e, c, s, n, x, Append(c.out, w)) =>
        SentOn(e, s, n, x, w, h, k, t, g, j, i)
  BY <1>1 DEF Did, SentOn
<1> QED BY <1>2, Zenon DEF Spoke, Paid

LEMMA ItSendsTime ==
  ASSUME NEW c, c.out = <<>>, NEW e, NEW h, NEW k \in Seq(Sends), NEW t, NEW g, NEW j, NEW i,
         Lands(e.out, h, k, t, g, j, i), Timed(e, c)
  PROVE  SentOn(e, "WAIT_TIMESTAMP", Append(c.nest, "time"), "AT+SYSTIMESTAMP?",
              "AT+SYSTIMESTAMP?", h, k, t, g, j, i)
<1>1. PICK w : w = "AT+SYSTIMESTAMP?"
  OBVIOUS
<1>2. Did(e, c, "WAIT_TIMESTAMP", Append(c.nest, "time"), w, Append(<<>>, w))
  BY <1>1 DEF Timed
<1>3. e.out = Append(<<>>, w) /\ w # "PULSE"
  BY <1>1, <1>2 DEF Did
<1>4. j = k \o <<w>> /\ i = t /\ g = h /\ (k = <<>> => j = <<w>>)
  <2>1. PICK o : o = e.out
    OBVIOUS
  <2>2. o = <<w>> /\ o # <<"PULSE">> /\ <<>> \o o = o /\ Lands(o, h, k, t, g, j, i)
    BY <1>3, <2>1, WordIsSent
  <2> QED BY <2>2 DEF Lands
<1> QED BY <1>1, <1>2, <1>4 DEF Did, SentOn

\* The modem is told to restart.
LEMMA RestartsBoot ==
  ASSUME IsAt, NEW m \in Scope, NEW c, c.out = <<>>, c.nest = <<>>, NEW e, NEW h,
         NEW k \in Seq(Sends), NEW t, NEW g, NEW j, NEW i, Lands(e.out, h, k, t, g, j, i),
         Restarted(e, c),
         \/ k = <<>> /\ t = <<>>
         \/ m = "lose" /\ k \in Seq(Questions) /\ t \in Seq(Noise)
  PROVE  Booting(e.state, e.nest, g, j, i, m)
<1>1. /\ e.state \in {"OFF", "RESTORE"} /\ (kind = "poe" => e.state = "OFF") /\ e.nest = <<>>
      /\ j = k \o <<"AT+RESTORE">> /\ i = t /\ (k = <<>> => j = <<"AT+RESTORE">>)
  <2>1. PICK s : s = IF kind = "wifi" THEN "RESTORE" ELSE "OFF"
    OBVIOUS
  <2>2. Spoke(e, c, "AT+RESTORE", s) /\ s \in {"OFF", "RESTORE"} /\ (kind = "poe" => s = "OFF")
    BY <2>1 DEF Restarted
  <2>3. "AT+RESTORE" # "PULSE"
    OBVIOUS
  <2>4. SentOn(e, s, c.nest, "AT+RESTORE", "AT+RESTORE", h, k, t, g, j, i)
    BY <2>2, <2>3, ItSends, Zenon
  <2> QED BY <2>2, <2>4 DEF SentOn
<1>2. "AT+RESTORE" \in Restarts
  BY DEF Restarts
<1>3. CASE k = <<>> /\ t = <<>>
  <2>1. Ends(j, Questions, Restarts) /\ j = <<"AT+RESTORE">> /\ i = <<>>
    BY <1>1, <1>2, <1>3, EndsOne
  <2>2. i \in Seq(Noise)
    BY <2>1, InOrder
  <2> QED BY <1>1, <1>2, <2>1, <2>2 DEF Booting, Scope
<1>4. CASE m = "lose" /\ k \in Seq(Questions) /\ t \in Seq(Noise)
  <2>1. Ends(<<"AT+RESTORE">>, Questions, Restarts)
    BY <1>2, EndsOne
  <2>2. Ends(j, Questions, Restarts)
    BY <1>1, <1>4, <2>1, EndsBehind
  <2> QED BY <1>1, <1>4, <2>2 DEF Booting
<1> QED BY <1>3, <1>4

\* Its reset pin is pulsed.
LEMMA PulseBoots ==
  ASSUME kind = "wifi", NEW m, NEW c, c.out = <<>>, c.nest = <<>>, NEW e, NEW h,
         NEW k, NEW t \in Seq(Noise), NEW g, NEW j, NEW i, Lands(e.out, h, k, t, g, j, i),
         Pulsed(e, c)
  PROVE  Booting(e.state, e.nest, g, j, i, m)
<1>1. e.state = "RESTORE" /\ e.nest = <<>> /\ e.out = Append(<<>>, "PULSE")
  BY DEF Pulsed, Did
<1>2. Append(<<>>, "PULSE") = <<"PULSE">>
  OBVIOUS
<1>3. j = <<>> /\ i = t \o A!BootLines /\ Set(g, FALSE, "down", FALSE, "none")
  BY <1>1, <1>2 DEF Lands
<1>4. A!BootLines = <<"ready">> /\ Bell = "ready" /\ "ready" \in {Bell}
  BY DEF A!BootLines, Bell
<1>5. Ends(A!BootLines, Noise, {Bell})
  BY <1>4, EndsOne
<1>6. Ends(i, Noise, {Bell})
  BY <1>3, <1>5, EndsBehind
<1> QED BY <1>1, <1>3, <1>6 DEF Booting, Unconfigured, Set

\* A line that changes nothing might as well have been lost.
LEMMA UnmovedLoses ==
  ASSUME NEW c, c.out = <<>>, NEW e, NEW h, NEW k \in Seq(Sends), NEW l, l # <<>>,
         NEW g, NEW j, NEW i, Lands(e.out, h, k, Tail(l), g, j, i), Unmoved(e, c)
  PROVE  /\ Talks(h, k, l, g, j, i, "lose")
         /\ e.state = c.state /\ e.nest = c.nest /\ e.lastCmd = c.lastCmd
         /\ e.before = c.before /\ e.beforeCmd = c.beforeCmd
<1>1. Landed(e, c.state, c.nest, c.lastCmd, h, k, Tail(l), g, j, i)
  BY ItLands, Zenon
<1> QED BY <1>1 DEF Landed, Talks, Loses, Unmoved, Did
-----------------------------------------------------------------------------
(* The driver's side of each stretch: it hears a line.                     *)

LEMMA HearsBooting ==
  ASSUME IsAt, NEW m \in Scope, NEW c, c.out = <<>>, NEW h,
         NEW k \in Seq(Sends), NEW l, l # <<>>, Booting(c.state, c.nest, h, k, l, m),
         NEW e, Heeds(c, Head(l), e),
         NEW g, NEW j, NEW i, Lands(e.out, h, k, Tail(l), g, j, i)
  PROVE  \/ Booting(e.state, e.nest, g, j, i, m)
         \/ Settling(e.state, e.nest, e.lastCmd, e.before, e.beforeCmd, g, j, i, m)
<1>1. c.state \in {"OFF", "RESTORE"} /\ c.nest = <<>> /\ (kind = "poe" => c.state = "OFF")
  BY DEF Booting
<1>2. PICK w : w = Head(l)
  OBVIOUS
<1>3. /\ w = Bell =>
           \/ kind = "wifi" /\ Spoke(e, c, "AT+CWSTATE?", "IS_CONNECTED")
           \/ Spoke(e, c, "ATE0", "DISABLE_ECHO")
      /\ w = "ERROR" => Unmoved(e, c) \/ Restarted(e, c)
      /\ w \notin {Bell, "ERROR"} => Unmoved(e, c)
  <2>1. CASE kind = "wifi"
    <3>1. WifiTurns(c, w, e) /\ Bell = "ready"
      BY <1>2, <2>1 DEF Heeds, Bell
    <3> QED BY <1>1, <2>1, <3>1 DEF WifiTurns
  <2>2. CASE kind = "poe"
    <3>1. PoeTurns(c, w, e) /\ Bell = "+ETH_GOT_IP" /\ c.state = "OFF"
      BY <1>1, <1>2, <2>2 DEF Heeds, Bell
    <3> QED BY <3>1 DEF PoeTurns
  <2> QED BY <2>1, <2>2 DEF IsAt
<1>4. w = Bell => k = <<>> /\ Tail(l) = <<>> /\ Unconfigured(h) /\ ~h.joined
  <2>1. w = Bell => w \notin Noise /\ w # "ERROR"
    BY DEF Noise, Bell
  <2>2. l \in Seq(Noise) => w \in Noise
    BY <1>2, Shorter
  <2>3. Ends(l, Noise, {Bell}) => w \in Noise \/ Tail(l) = <<>>
    BY <1>2, EndsTail
  <2>4. l = <<"ERROR">> => w = "ERROR"
    BY <1>2, ShortLists
  <2> QED BY <2>1, <2>2, <2>3, <2>4 DEF Booting, Failed
<1>5. CASE w = Bell
  <2>1. PICK v, s : /\ Spoke(e, c, v, s) /\ v # "PULSE" /\ s \in Alone /\ v = Order(s)
                    /\ s \notin Retried
                    /\ kind = "poe" => s \in PoeSets
    <3>1. Order("IS_CONNECTED") = "AT+CWSTATE?" /\ Order("DISABLE_ECHO") = "ATE0"
      BY DEF Order
    <3>2. CASE kind = "wifi" /\ Spoke(e, c, "AT+CWSTATE?", "IS_CONNECTED")
      BY <3>1, <3>2 DEF Alone, Retried
    <3>3. CASE Spoke(e, c, "ATE0", "DISABLE_ECHO")
      BY <3>1, <3>3 DEF Alone, Retried, PoeSets
    <3> QED BY <1>3, <1>5, <3>2, <3>3
  <2>2. e.state = s /\ e.nest = <<>> /\ j = <<Order(s)>> /\ i = <<>> /\ g = h
    <3>1. SentOn(e, s, c.nest, v, v, h, k, Tail(l), g, j, i)
      BY <2>1, ItSends, Zenon
    <3> QED BY <1>1, <1>4, <1>5, <2>1, <3>1 DEF SentOn
  <2> QED BY <1>4, <1>5, <2>1, <2>2 DEF Settling, Turn, Ordered
<1>6. CASE w = "ERROR"
  <2>1. k = <<>> /\ Tail(l) = <<>>
    <3>1. w \notin Noise /\ w \notin {Bell}
      BY <1>6 DEF Noise, Talk, Bell
    <3>2. l \notin Seq(Noise)
      BY <1>2, <3>1, Shorter
    <3>3. ~Ends(l, Noise, {Bell})
      BY <1>2, <3>1, EndsTail
    <3> QED BY <3>2, <3>3, ShortLists DEF Booting, Failed
  <2>2. CASE Restarted(e, c)
    BY <1>1, <2>1, <2>2, RestartsBoot
  <2>3. CASE Unmoved(e, c)
    <3>0. Landed(e, c.state, c.nest, c.lastCmd, h, k, Tail(l), g, j, i)
      BY <2>3, ItLands, Zenon
    <3>1. e.state = c.state /\ e.nest = c.nest /\ j = k /\ i = Tail(l)
      BY <3>0 DEF Landed
    <3>2. <<>> \in Seq(Noise)
      BY InOrder
    <3> QED BY <1>1, <2>1, <3>1, <3>2 DEF Booting
  <2> QED BY <1>3, <1>6, <2>2, <2>3
<1>7. CASE w \notin {Bell, "ERROR"}
  <2>0. Unmoved(e, c)
    BY <1>3, <1>7
  <2>1. e.state = c.state /\ e.nest = c.nest /\ j = k /\ i = Tail(l) /\ g = h
    <3>1. Landed(e, c.state, c.nest, c.lastCmd, h, k, Tail(l), g, j, i)
      BY <2>0, ItLands, Zenon
    <3> QED BY <3>1 DEF Landed
  <2>2. Ends(l, Noise, {Bell}) => Ends(i, Noise, {Bell})
    <3>1. w \notin {Bell}
      BY <1>7
    <3> QED BY <1>2, <2>1, <3>1, EndsTail
  <2>3. l \in Seq(Noise) => i \in Seq(Noise)
    BY <2>1, Shorter
  <2>4. l # <<"ERROR">>
    BY <1>2, <1>7, ShortLists
  <2> QED BY <1>1, <2>1, <2>2, <2>3, <2>4 DEF Booting, Failed
<1> QED BY <1>5, <1>6, <1>7

-----------------------------------------------------------------------------
LEMMA TurnHeard ==
  ASSUME NEW s, NEW k, NEW l, NEW m, Turn(s, k, l, m), l # <<>>
  PROVE  k = <<>> /\ (l \in Parts(s) \/ (m = "error" /\ l = <<"ERROR">>))
BY DEF Turn, Ordered, Failed, Silent

LEMMA NotPulse ==
  ASSUME NEW s
  PROVE  Order(s) # "PULSE"
BY DEF Order

\* The next order of the setting up.
LEMMA SetsOn ==
  ASSUME IsAt, NEW m \in Scope, NEW c, c.out = <<>>, c.nest = <<>>, NEW e, NEW h,
         NEW k \in Seq(Sends), k = <<>>, NEW t, t = <<>>, NEW g, NEW j, NEW i,
         Lands(e.out, h, k, t, g, j, i), Unconfigured(h),
         NEW s \in Alone \cup {"MQTT_IS_CONNECTED", "SNTP_WAIT_SET", "WIFI_CONNECTING"},
         s \in Alone => ~h.joined, kind = "poe" => s \in PoeSets, Spoke(e, c, Order(s), s)
  PROVE  Settling(e.state, e.nest, e.lastCmd, e.before, e.beforeCmd, g, j, i, m)
<1>1. SentOn(e, s, c.nest, Order(s), Order(s), h, k, t, g, j, i)
  BY NotPulse, ItSends, Zenon
<1>2. /\ e.state = s /\ e.nest = <<>> /\ e.lastCmd = Order(s)
      /\ j = <<Order(s)>> /\ i = <<>> /\ g = h
  BY <1>1 DEF SentOn
<1>3. Turn(s, j, i, m)
  BY <1>2 DEF Turn, Ordered
<1>4. CASE s \in Alone \cup {"MQTT_IS_CONNECTED"}
  BY <1>2, <1>3, <1>4 DEF Settling
<1>5. CASE s = "WIFI_CONNECTING"
  <2>1. Order(s) \in JoinOrders
    BY <1>5 DEF Order, JoinOrders
  <2>2. j \in Seq(JoinOrders) /\ i \in Seq(CwTalk)
    BY <1>2, <2>1, InOrder
  <2> QED BY <1>2, <1>3, <1>5, <2>2 DEF Settling, Scope
<1>6. CASE s = "SNTP_WAIT_SET"
  <2>1. Order(s) \in {"AT+CIPSNTPCFG"}
    BY <1>6 DEF Order
  <2>2. Ends(j, JoinOrders, {"AT+CIPSNTPCFG"}) /\ i \in Seq(CwTalk)
    BY <1>2, <2>1, EndsOne, InOrder
  <2> QED BY <1>2, <1>3, <1>6, <2>2 DEF Settling, Scope
<1> QED BY <1>4, <1>5, <1>6

\* It has its modem joined, and goes on to the broker.
LEMMA LinksOn ==
  ASSUME NEW m, NEW c, c.out = <<>>, c.nest = <<>>, NEW e, NEW h,
         NEW k \in Seq(Sends), k = <<>>, NEW t, t = <<>>, NEW g, NEW j, NEW i,
         Lands(e.out, h, k, t, g, j, i), h.raw = "none", ~h.sub,
         NEW s, Spoke(e, c, Order(s), s),
         \/ s = "MQTT_WAIT_USR_CONF" /\ h.mqtt \in {"down", "conf"}
         \/ s \in {"MQTT_WAIT_CONF", "MQTT_CONNECTING"} /\ h.mqtt = "conf"
  PROVE  Linking(e.state, e.nest, e.lastCmd, g, j, i, m)
<1>1. SentOn(e, s, c.nest, Order(s), Order(s), h, k, t, g, j, i)
  BY NotPulse, ItSends, Zenon
<1>2. /\ e.state = s /\ e.nest = <<>> /\ e.lastCmd = Order(s)
      /\ j = <<Order(s)>> /\ i = <<>> /\ g = h /\ i # <<"OK">>
  BY <1>1, ShortLists DEF SentOn
<1>3. Turn(s, j, i, m) /\ Ordered(s, j, i)
  BY <1>2 DEF Turn, Ordered
<1> QED BY <1>2, <1>3 DEF Linking

LEMMA HearsAlone ==
  ASSUME IsAt, NEW m \in Scope, NEW c, c.out = <<>>, NEW h,
         NEW k \in Seq(Sends), NEW l, l # <<>>, c.nest = <<>>, Unconfigured(h),
         kind = "poe" => c.state \in PoeSets, c.state \in Alone => ~h.joined,
         c.state \in Retried => c.lastCmd = Order(c.state),
         c.state \in Alone \cup {"MQTT_IS_CONNECTED"}, Turn(c.state, k, l, m),
         NEW e, Heeds(c, Head(l), e),
         NEW g, NEW j, NEW i, Lands(e.out, h, k, Tail(l), g, j, i)
  PROVE  \/ Booting(e.state, e.nest, g, j, i, m)
         \/ Settling(e.state, e.nest, e.lastCmd, e.before, e.beforeCmd, g, j, i, m)
         \/ Linking(e.state, e.nest, e.lastCmd, g, j, i, m)
<1>1. PICK w, t : w = Head(l) /\ t = Tail(l)
  OBVIOUS
<1>2. k = <<>> /\ (l \in Parts(c.state) \/ (m = "error" /\ l = <<"ERROR">>))
  BY TurnHeard
<1>3. Lands(e.out, h, k, t, g, j, i) /\ AtTurns(c, w, e) /\ (kind = "wifi" => WifiTurns(c, w, e))
  BY <1>1 DEF Heeds
<1>4. /\ Unmoved(e, c) => Landed(e, c.state, c.nest, c.lastCmd, h, k, t, g, j, i)
      /\ \A s : Moved(e, c, s) => Landed(e, s, c.nest, c.lastCmd, h, k, t, g, j, i)
      /\ \A r : Slept(e, c, r) =>
           Landed(e, c.state, Append(c.nest, r), c.lastCmd, h, k, t, g, j, i)
  BY <1>3, ItLands, Zenon
<1>5. Restarted(e, c) /\ t = <<>> => Booting(e.state, e.nest, g, j, i, m)
  BY <1>2, <1>3, RestartsBoot
<1>6. ASSUME NEW s \in Alone \cup {"MQTT_IS_CONNECTED", "SNTP_WAIT_SET", "WIFI_CONNECTING"},
             s \in Alone => ~h.joined, kind = "poe" => s \in PoeSets, Spoke(e, c, Order(s), s),
             t = <<>>
      PROVE  Settling(e.state, e.nest, e.lastCmd, e.before, e.beforeCmd, g, j, i, m)
  BY <1>2, <1>3, <1>6, SetsOn
<1>7. ASSUME Unmoved(e, c), t \in Parts(c.state)
      PROVE  Settling(e.state, e.nest, e.lastCmd, e.before, e.beforeCmd, g, j, i, m)
  <2>1. Landed(e, c.state, c.nest, c.lastCmd, h, k, t, g, j, i)
    BY <1>4, <1>7
  <2>2. Turn(c.state, j, i, m)
    BY <1>2, <1>7, <2>1 DEF Landed, Turn
  <2> QED BY <2>1, <2>2 DEF Landed, Settling
<1>8. l = <<"ERROR">> => w = "ERROR" /\ t = <<>>
  BY <1>1, ShortLists
<1>9. \A a : l = <<a>> => w = a /\ t = <<>>
  BY <1>1, ShortLists
<1>10. \A a, b : l = <<a, b>> => w = a /\ t = <<b>>
  BY <1>1, ShortLists
<1>11. CASE c.state = "IS_CONNECTED"
  <2>1. kind = "wifi"
    BY <1>11 DEF IsAt, PoeSets
  <2>2. l \in {<<"OK">>, <<"+CWSTATE down", "OK">>, <<"ERROR">>} /\ <<"OK">> \in Parts(c.state)
    BY <1>2, <1>11 DEF Parts
  <2>3. \/ w \in {"OK", "ERROR"} /\ t = <<>>
        \/ w = "+CWSTATE down" /\ t = <<"OK">>
    BY <1>8, <1>9, <1>10, <2>2
  <2>4. /\ w \in {"OK", "ERROR"} => Restarted(e, c)
        /\ w = "+CWSTATE down" => Unmoved(e, c)
    BY <1>3, <1>11, <2>1 DEF WifiTurns
  <2> QED BY <1>5, <1>7, <2>2, <2>3, <2>4
<1>12. CASE c.state \in {"DISABLE_ECHO", "WIFI_SETTING_MODE"}
  <2>1. l \in {<<"OK">>, <<"ERROR">>}
    BY <1>2, <1>12 DEF Parts
  <2>2. w \in {"OK", "ERROR"} /\ t = <<>>
    BY <1>8, <1>9, <2>1
  <2>3. PICK s \in Alone : /\ w = "OK" => Spoke(e, c, Order(s), s)
                           /\ w = "ERROR" => Restarted(e, c)
                           /\ kind = "poe" => s \in PoeSets
    <3>1. CASE c.state = "DISABLE_ECHO"
      <4>1. "WAIT_MAC_ADDRESS" \in Alone /\ "WAIT_MAC_ADDRESS" \in PoeSets
        BY DEF Alone, PoeSets
      <4> QED BY <1>3, <3>1, <4>1 DEF AtTurns, OkOr
    <3>2. CASE c.state = "WIFI_SETTING_MODE"
      <4>1. "WIFI_INIT" \in Alone /\ Order("WIFI_INIT") = "AT+CWINIT" /\ kind = "wifi"
        BY <3>2 DEF Alone, Order, PoeSets, IsAt
      <4> QED BY <1>3, <3>2, <4>1 DEF WifiTurns, OkOr
    <3> QED BY <1>12, <3>1, <3>2
  <2>4. ~h.joined
    BY <1>12 DEF Alone
  <2> QED BY <1>5, <1>6, <2>2, <2>3, <2>4
<1>13. CASE c.state = "WAIT_MAC_ADDRESS"
  <2>1. l \in {<<"OK">>, <<"+CIPSTAMAC", "OK">>, <<"+CIPETHMAC", "OK">>, <<"ERROR">>}
        /\ <<"OK">> \in Parts(c.state)
    BY <1>2, <1>13 DEF Parts
  <2>2. \/ w \in {"OK", "ERROR"} /\ t = <<>>
        \/ w \notin {"OK", "ERROR"} /\ t = <<"OK">>
    BY <1>8, <1>9, <1>10, <2>1
  <2>3. /\ w = "OK" => \/ Moved(e, c, "NO_CONF")
                       \/ kind = "wifi" /\ Spoke(e, c, "AT+CWCOUNTRY", "RF_REGION")
                       \/ kind = "poe" /\ Spoke(e, c, "AT+CIPSNTPCFG", "SNTP_WAIT_SET")
        /\ w # "OK" => Unmoved(e, c)
    BY <1>3, <1>13 DEF AtTurns
  <2>4. Order("RF_REGION") = "AT+CWCOUNTRY" /\ Order("SNTP_WAIT_SET") = "AT+CIPSNTPCFG"
    BY DEF Order
  <2>5. CASE Moved(e, c, "NO_CONF") /\ t = <<>>
    <3>1. Landed(e, "NO_CONF", c.nest, c.lastCmd, h, k, t, g, j, i)
      BY <1>4, <2>5
    <3> QED BY <1>2, <2>5, <3>1 DEF Landed, Settling, Silent, PoeSets, Alone, Retried
  <2>6. CASE kind = "wifi" /\ Spoke(e, c, "AT+CWCOUNTRY", "RF_REGION") /\ t = <<>>
    BY <1>6, <1>13, <2>4, <2>6 DEF Alone
  <2>7. CASE kind = "poe" /\ Spoke(e, c, "AT+CIPSNTPCFG", "SNTP_WAIT_SET") /\ t = <<>>
    BY <1>6, <2>4, <2>7 DEF PoeSets, Alone
  <2>8. CASE Unmoved(e, c) /\ t = <<>>
    <3>1. Landed(e, c.state, c.nest, c.lastCmd, h, k, t, g, j, i)
      BY <1>4, <2>8
    <3> QED BY <1>2, <1>13, <2>8, <3>1 DEF Landed, Settling, Silent, PoeSets, Alone, Retried
  <2> QED BY <1>7, <2>1, <2>2, <2>3, <2>5, <2>6, <2>7, <2>8
<1>14. CASE c.state \in {"RF_REGION", "WIFI_INIT"}
  <2>1. l \in {<<"OK">>, <<"ERROR">>} /\ kind = "wifi"
    BY <1>2, <1>14 DEF Parts, PoeSets, IsAt
  <2>2. w \in {"OK", "ERROR"} /\ t = <<>>
    BY <1>8, <1>9, <2>1
  <2>3. PICK r : /\ w = "OK" => Slept(e, c, r)
                 /\ w = "ERROR" => Restarted(e, c)
                 /\ \/ c.state = "RF_REGION" /\ r = "rf"
                    \/ c.state = "WIFI_INIT" /\ r = "init"
    BY <1>3, <1>14, <2>1 DEF WifiTurns, OkOr
  <2>4. CASE Slept(e, c, r)
    <3>1. Landed(e, c.state, Append(c.nest, r), c.lastCmd, h, k, t, g, j, i)
      BY <1>4, <2>4
    <3>2. Append(c.nest, r) = <<r>>
      BY ShortLists
    <3> QED BY <1>2, <2>1, <2>2, <2>3, <3>1, <3>2 DEF Landed, Settling, Silent
  <2> QED BY <1>5, <2>2, <2>3, <2>4
<1>15. CASE c.state = "MQTT_IS_CONNECTED"
  <2>1. l \in {<<"OK">>, <<"+MQTTCONN down", "OK">>, <<"ERROR">>} /\ <<"OK">> \in Parts(c.state)
    BY <1>2, <1>15 DEF Parts
  <2>2. \/ w \in {"OK", "ERROR"} /\ t = <<>>
        \/ w = "+MQTTCONN down" /\ t = <<"OK">>
    BY <1>8, <1>9, <1>10, <2>1
  <2>3. /\ w = "OK" => Spoke(e, c, "AT+MQTTUSERCFG", "MQTT_WAIT_USR_CONF")
        /\ w = "ERROR" => Restarted(e, c)
        /\ w = "+MQTTCONN down" => Unmoved(e, c)
    <3>1. OkOr(e, c, w, Spoke(e, c, "AT+MQTTUSERCFG", "MQTT_WAIT_USR_CONF"))
      BY <1>3, <1>15, <2>2 DEF AtTurns
    <3> QED BY <3>1 DEF OkOr
  <2>4. w = "OK" => Linking(e.state, e.nest, e.lastCmd, g, j, i, m)
    <3>1. Order("MQTT_WAIT_USR_CONF") = "AT+MQTTUSERCFG"
      BY DEF Order
    <3> QED BY <1>2, <1>3, <2>2, <2>3, <3>1, LinksOn DEF Unconfigured
  <2> QED BY <1>5, <1>7, <2>1, <2>2, <2>3, <2>4
<1> QED BY <1>11, <1>12, <1>13, <1>14, <1>15 DEF Alone

-----------------------------------------------------------------------------
LEMMA HearsJoining ==
  ASSUME IsAt, NEW m \in Scope, NEW c, c.out = <<>>, NEW h,
         NEW k \in Seq(Sends), NEW l, l # <<>>, c.nest = <<>>, Unconfigured(h),
         kind = "poe" => c.state \in PoeSets, c.lastCmd = Order(c.state),
         m = "error", c.state \in {"WIFI_CONNECTING", "SNTP_WAIT_SET"}, Turn(c.state, k, l, m),
         NEW e, Heeds(c, Head(l), e),
         NEW g, NEW j, NEW i, Lands(e.out, h, k, Tail(l), g, j, i)
  PROVE  \/ Booting(e.state, e.nest, g, j, i, m)
         \/ Settling(e.state, e.nest, e.lastCmd, e.before, e.beforeCmd, g, j, i, m)
<1>1. PICK w, t : w = Head(l) /\ t = Tail(l)
  OBVIOUS
<1>2. k = <<>> /\ (l \in Parts(c.state) \/ (m = "error" /\ l = <<"ERROR">>))
  BY TurnHeard
<1>3. Lands(e.out, h, k, t, g, j, i) /\ AtTurns(c, w, e) /\ (kind = "wifi" => WifiTurns(c, w, e))
  BY <1>1 DEF Heeds
<1>4. /\ Unmoved(e, c) => Landed(e, c.state, c.nest, c.lastCmd, h, k, t, g, j, i)
      /\ \A s : Moved(e, c, s) => Landed(e, s, c.nest, c.lastCmd, h, k, t, g, j, i)
      /\ \A r : Slept(e, c, r) =>
           Landed(e, c.state, Append(c.nest, r), c.lastCmd, h, k, t, g, j, i)
  BY <1>3, ItLands, Zenon
<1>5. Restarted(e, c) /\ t = <<>> => Booting(e.state, e.nest, g, j, i, m)
  BY <1>2, <1>3, RestartsBoot
<1>6. ASSUME NEW s \in Alone \cup {"MQTT_IS_CONNECTED", "SNTP_WAIT_SET", "WIFI_CONNECTING"},
             s \in Alone => ~h.joined, kind = "poe" => s \in PoeSets, Spoke(e, c, Order(s), s),
             t = <<>>
      PROVE  Settling(e.state, e.nest, e.lastCmd, e.before, e.beforeCmd, g, j, i, m)
  BY <1>2, <1>3, <1>6, SetsOn
<1>7. ASSUME Unmoved(e, c), t \in Parts(c.state)
      PROVE  Settling(e.state, e.nest, e.lastCmd, e.before, e.beforeCmd, g, j, i, m)
  <2>1. Landed(e, c.state, c.nest, c.lastCmd, h, k, t, g, j, i)
    BY <1>4, <1>7
  <2>2. Turn(c.state, j, i, m)
    BY <1>2, <1>7, <2>1 DEF Landed, Turn
  <2> QED BY <2>1, <2>2 DEF Landed, Settling, Alone
<1>8. l = <<"ERROR">> => w = "ERROR" /\ t = <<>>
  BY <1>1, ShortLists
<1>9. \A a : l = <<a>> => w = a /\ t = <<>>
  BY <1>1, ShortLists
<1>10. \A a, b : l = <<a, b>> => w = a /\ t = <<b>>
  BY <1>1, ShortLists
<1>11. CASE c.state = "WIFI_CONNECTING"
  <2>1. l \in {<<"OK">>, <<"ERROR">>} /\ kind = "wifi"
    BY <1>2, <1>11 DEF Parts, PoeSets, IsAt
  <2>2. w \in {"OK", "ERROR"} /\ t = <<>>
    BY <1>8, <1>9, <2>1
  <2>3. /\ w = "OK" => Spoke(e, c, "AT+CIPSNTPCFG", "SNTP_WAIT_SET")
        /\ w = "ERROR" => Moved(e, c, "WIFI_FAIL_CONNECT")
    BY <1>3, <1>11, <2>1 DEF WifiTurns
  <2>4. CASE w = "OK"
    <3>1. Order("SNTP_WAIT_SET") = "AT+CIPSNTPCFG" /\ "SNTP_WAIT_SET" \notin Alone
      BY DEF Order, Alone
    <3> QED BY <1>6, <2>1, <2>2, <2>3, <2>4, <3>1
  <2>5. CASE w = "ERROR"
    <3>1. Landed(e, "WIFI_FAIL_CONNECT", c.nest, c.lastCmd, h, k, t, g, j, i)
      BY <1>4, <2>3, <2>5
    <3> QED BY <1>2, <2>1, <2>2, <3>1 DEF Landed, Settling, Silent, Alone, Retried
  <2> QED BY <2>2, <2>4, <2>5
<1>12. CASE c.state = "SNTP_WAIT_SET"
  <2>1. l \in {<<"+TIME_UPDATED">>, <<"OK", "+TIME_UPDATED">>, <<"ERROR">>}
        /\ <<"+TIME_UPDATED">> \in Parts(c.state)
    BY <1>2, <1>12 DEF Parts
  <2>2. \/ w \in {"+TIME_UPDATED", "ERROR"} /\ t = <<>>
        \/ w = "OK" /\ t = <<"+TIME_UPDATED">>
    BY <1>8, <1>9, <1>10, <2>1
  <2>3. /\ w = "+TIME_UPDATED" /\ kind = "wifi" => Slept(e, c, "sntp")
        /\ w = "+TIME_UPDATED" /\ kind # "wifi" => Spoke(e, c, "AT+MQTTCONN?", "MQTT_IS_CONNECTED")
        /\ w = "ERROR" => Restarted(e, c)
        /\ w = "OK" => Unmoved(e, c)
    BY <1>3, <1>12 DEF AtTurns
  <2>4. CASE w = "+TIME_UPDATED" /\ kind = "wifi"
    <3>1. Landed(e, c.state, Append(c.nest, "sntp"), c.lastCmd, h, k, t, g, j, i)
      BY <1>4, <2>3, <2>4
    <3>2. Append(c.nest, "sntp") = <<"sntp">>
      BY ShortLists
    <3> QED BY <1>2, <1>12, <2>2, <2>4, <3>1, <3>2 DEF Landed, Settling, Silent, Alone
  <2>5. CASE w = "+TIME_UPDATED" /\ kind # "wifi"
    <3>1. Order("MQTT_IS_CONNECTED") = "AT+MQTTCONN?" /\ "MQTT_IS_CONNECTED" \notin Alone
          /\ "MQTT_IS_CONNECTED" \in PoeSets
      BY DEF Order, Alone, PoeSets
    <3> QED BY <1>6, <2>2, <2>3, <2>5, <3>1
  <2> QED BY <1>5, <1>7, <2>1, <2>2, <2>3, <2>4, <2>5
<1> QED BY <1>11, <1>12

\* Lines may have been lost meanwhile.
LEMMA HearsJoiningLate ==
  ASSUME IsAt, NEW c, c.out = <<>>, NEW h \in AtChips,
         NEW k \in Seq(Sends), NEW l, l # <<>>, c.nest = <<>>,
         c.state \in {"WIFI_CONNECTING", "SNTP_WAIT_SET", "TIMEDOUT_WIFI_WAIT_STATE"},
         Settling(c.state, c.nest, c.lastCmd, c.before, c.beforeCmd, h, k, l, "lose"),
         NEW e, Heeds(c, Head(l), e),
         NEW g, NEW j, NEW i, Lands(e.out, h, k, Tail(l), g, j, i)
  PROVE  \/ Booting(e.state, e.nest, g, j, i, "lose")
         \/ Settling(e.state, e.nest, e.lastCmd, e.before, e.beforeCmd, g, j, i, "lose")
<1>1. PICK w, t : w = Head(l) /\ t = Tail(l)
  OBVIOUS
<1>2. Unconfigured(h) /\ (kind = "poe" => c.state \in PoeSets) /\ "lose" \in Scope
  BY DEF Settling, Scope
<1>3. Lands(e.out, h, k, t, g, j, i) /\ AtTurns(c, w, e) /\ (kind = "wifi" => WifiTurns(c, w, e))
  BY <1>1 DEF Heeds
<1>4. \A r : Slept(e, c, r) =>
           Landed(e, c.state, Append(c.nest, r), c.lastCmd, h, k, t, g, j, i)
  BY <1>3, ItLands, Zenon
<1>5. \A v, s : Spoke(e, c, v, s) /\ v # "PULSE" => SentOn(e, s, c.nest, v, v, h, k, t, g, j, i)
  BY <1>3, ItSends, Zenon
<1>6. Unmoved(e, c) =>
        Settling(e.state, e.nest, e.lastCmd, e.before, e.beforeCmd, g, j, i, "lose")
  <2> HAVE Unmoved(e, c)
  <2>1. /\ Talks(h, k, l, g, j, i, "lose")
        /\ e.state = c.state /\ e.nest = c.nest /\ e.lastCmd = c.lastCmd
        /\ e.before = c.before /\ e.beforeCmd = c.beforeCmd
    BY UnmovedLoses
  <2>2. Settling(c.state, c.nest, c.lastCmd, c.before, c.beforeCmd, g, j, i, "lose")
    BY <1>2, <2>1, SettlingTalks
  <2> QED BY <2>1, <2>2
<1>7. CASE c.state = "WIFI_CONNECTING"
  <2>1. k \in Seq(JoinOrders) /\ l \in Seq(CwTalk) /\ kind = "wifi"
    BY <1>7 DEF Settling, Alone, Silent, IsAt, PoeSets
  <2>2. w \in CwTalk /\ t \in Seq(CwTalk) /\ "ERROR" \notin CwTalk
    BY <1>1, <2>1, Shorter DEF CwTalk
  <2>3. /\ w = "OK" => Spoke(e, c, "AT+CIPSNTPCFG", "SNTP_WAIT_SET")
        /\ w \notin {"OK", "ERROR"} => Unmoved(e, c)
    BY <1>3, <1>7, <2>1 DEF WifiTurns
  <2>4. CASE w = "OK"
    <3>1. SentOn(e, "SNTP_WAIT_SET", c.nest, "AT+CIPSNTPCFG", "AT+CIPSNTPCFG", h, k, t, g, j, i)
      BY <1>5, <2>3, <2>4
    <3>2. Ends(<<"AT+CIPSNTPCFG">>, JoinOrders, {"AT+CIPSNTPCFG"})
      BY EndsOne
    <3>3. Ends(j, JoinOrders, {"AT+CIPSNTPCFG"})
      BY <2>1, <3>1, <3>2, EndsBehind DEF SentOn
    <3>4. Order("SNTP_WAIT_SET") = "AT+CIPSNTPCFG" /\ "SNTP_WAIT_SET" \notin Alone
      BY DEF Order, Alone
    <3> QED BY <1>2, <2>1, <2>2, <3>1, <3>3, <3>4 DEF SentOn, Settling
  <2> QED BY <1>6, <2>2, <2>3, <2>4
<1>8. CASE c.state = "SNTP_WAIT_SET"
  <2>1. \/ k = <<>> /\ Ends(l, CwTalk, {"+TIME_UPDATED"})
        \/ l \in Seq(CwTalk)
    BY <1>8 DEF Settling, Alone, Silent
  <2>2. "+TIME_UPDATED" \notin CwTalk /\ "ERROR" \notin CwTalk
    BY DEF CwTalk
  <2>3. w \in CwTalk \/ (w = "+TIME_UPDATED" /\ t = <<>> /\ k = <<>>)
    <3>1. l \in Seq(CwTalk) => w \in CwTalk
      BY <1>1, Shorter
    <3>2. Ends(l, CwTalk, {"+TIME_UPDATED"}) =>
            (w \in {"+TIME_UPDATED"} /\ t = <<>>) \/ w \in CwTalk
      BY <1>1, EndsTail
    <3> QED BY <2>1, <3>1, <3>2
  <2>4. /\ w = "+TIME_UPDATED" /\ kind = "wifi" => Slept(e, c, "sntp")
        /\ w = "+TIME_UPDATED" /\ kind # "wifi" => Spoke(e, c, "AT+MQTTCONN?", "MQTT_IS_CONNECTED")
        /\ w \notin {"+TIME_UPDATED", "ERROR"} => Unmoved(e, c)
    BY <1>3, <1>8 DEF AtTurns
  <2>5. CASE w = "+TIME_UPDATED" /\ kind = "wifi"
    <3>1. Landed(e, c.state, Append(c.nest, "sntp"), c.lastCmd, h, k, t, g, j, i)
      BY <1>4, <2>4, <2>5
    <3>2. Append(c.nest, "sntp") = <<"sntp">>
      BY ShortLists
    <3>3. c.lastCmd = Order(c.state)
      BY <1>8 DEF Settling, Retried
    <3> QED BY <1>2, <1>8, <2>2, <2>3, <2>5, <3>1, <3>2, <3>3
            DEF Landed, Settling, Silent, Alone, Retried
  <2>6. CASE w = "+TIME_UPDATED" /\ kind # "wifi"
    <3>1. Order("MQTT_IS_CONNECTED") = "AT+MQTTCONN?" /\ "MQTT_IS_CONNECTED" \notin Alone
          /\ "MQTT_IS_CONNECTED" \in PoeSets
      BY DEF Order, Alone, PoeSets
    <3>2. k = <<>> /\ t = <<>>
      BY <2>2, <2>3, <2>6
    <3> QED BY <1>2, <1>3, <2>4, <2>6, <3>1, <3>2, SetsOn
  <2> QED BY <1>6, <2>2, <2>3, <2>4, <2>5, <2>6
<1>9. CASE c.state = "TIMEDOUT_WIFI_WAIT_STATE"
  <2>1. /\ c.before \in Retried /\ c.beforeCmd = Order(c.before) /\ k \in Seq({"AT+CWSTATE?"})
        /\ \/ c.before \in {"WIFI_CONNECTING", "SNTP_WAIT_SET"} /\ l \in Seq(CwTalk)
           \/ l \in Seq(CwTalk \ {"+CWSTATE up"})
    BY <1>9 DEF Settling, Alone
  <2>2. kind = "wifi"
    BY <1>2, <1>9 DEF PoeSets, IsAt
  <2>3. l \in Seq(CwTalk)
    BY <2>1, Wider
  <2>4. w \in CwTalk /\ t \in Seq(CwTalk)
    BY <1>1, <2>3, Shorter
  <2>5. w = "+CWSTATE up" => c.before \in {"WIFI_CONNECTING", "SNTP_WAIT_SET"}
    <3>1. l \in Seq(CwTalk \ {"+CWSTATE up"}) => w \in CwTalk \ {"+CWSTATE up"}
      BY <1>1, Shorter
    <3> QED BY <2>1, <3>1
  <2>6. /\ w = "+CWSTATE up" => Spoke(e, c, c.beforeCmd, c.before)
        /\ w = "+CWSTATE down" => Pulsed(e, c)
        /\ w = "OK" => Unmoved(e, c)
    BY <1>3, <1>9, <2>2 DEF WifiTurns
  <2>7. CASE w = "+CWSTATE down"
    <3>1. CwTalk \subseteq Noise
      BY DEF CwTalk, Noise, Talk, Bell
    <3>2. t \in Seq(Noise)
      BY <2>4, <3>1, Wider
    <3> QED BY <1>3, <2>2, <2>6, <2>7, <3>2, PulseBoots
  <2>8. CASE w = "+CWSTATE up"
    <3>1. PICK p \in {"WIFI_CONNECTING", "SNTP_WAIT_SET"} : p = c.before
      BY <2>5, <2>8
    <3>2. SentOn(e, p, c.nest, Order(p), Order(p), h, k, t, g, j, i)
      BY <1>5, <2>1, <2>6, <2>8, <3>1, NotPulse
    <3>3. k \in Seq(JoinOrders) /\ p \notin Alone
      BY <2>1, <3>1, Wider DEF JoinOrders, Alone
    <3>4. CASE p = "WIFI_CONNECTING"
      <4>1. Order(p) \in JoinOrders
        BY <3>4 DEF Order, JoinOrders
      <4>2. j \in Seq(JoinOrders)
        BY <3>2, <3>3, <4>1, InOrder, Joined DEF SentOn
      <4> QED BY <1>2, <2>2, <2>4, <3>2, <3>3, <3>4, <4>2 DEF SentOn, Settling
    <3>5. CASE p = "SNTP_WAIT_SET"
      <4>1. Order(p) \in {"AT+CIPSNTPCFG"}
        BY <3>5 DEF Order
      <4>2. Ends(<<Order(p)>>, JoinOrders, {"AT+CIPSNTPCFG"})
        BY <4>1, EndsOne
      <4>3. Ends(j, JoinOrders, {"AT+CIPSNTPCFG"})
        BY <3>2, <3>3, <4>2, EndsBehind DEF SentOn
      <4> QED BY <1>2, <2>2, <2>4, <3>2, <3>3, <3>5, <4>3 DEF SentOn, Settling
    <3> QED BY <3>1, <3>4, <3>5
  <2> QED BY <1>6, <2>4, <2>6, <2>7, <2>8 DEF CwTalk
<1> QED BY <1>7, <1>8, <1>9

LEMMA HearsSettling ==
  ASSUME IsAt, NEW m \in Scope, NEW c, c.out = <<>>, NEW h \in AtChips,
         NEW k \in Seq(Sends), NEW l, l # <<>>,
         Settling(c.state, c.nest, c.lastCmd, c.before, c.beforeCmd, h, k, l, m),
         NEW e, Heeds(c, Head(l), e),
         NEW g, NEW j, NEW i, Lands(e.out, h, k, Tail(l), g, j, i)
  PROVE  \/ Booting(e.state, e.nest, g, j, i, m)
         \/ Settling(e.state, e.nest, e.lastCmd, e.before, e.beforeCmd, g, j, i, m)
         \/ Linking(e.state, e.nest, e.lastCmd, g, j, i, m)
<1>1. /\ Unconfigured(h) /\ (kind = "poe" => c.state \in PoeSets)
      /\ c.state \in Alone => ~h.joined
      /\ c.state \in Retried => c.lastCmd = Order(c.state)
  BY DEF Settling
<1>2. CASE c.state \in Alone \cup {"MQTT_IS_CONNECTED"} /\ c.nest = <<>> /\ Turn(c.state, k, l, m)
  BY <1>1, <1>2, HearsAlone
<1>3. CASE /\ c.state \in {"WIFI_CONNECTING", "SNTP_WAIT_SET"} /\ c.nest = <<>>
           /\ m = "error" /\ Turn(c.state, k, l, m)
  <2>1. c.lastCmd = Order(c.state)
    BY <1>1, <1>3 DEF Retried
  <2> QED BY <1>1, <1>3, <2>1, HearsJoining
<1>4. CASE /\ c.state \in {"WIFI_CONNECTING", "SNTP_WAIT_SET", "TIMEDOUT_WIFI_WAIT_STATE"}
           /\ c.nest = <<>> /\ m = "lose"
  BY <1>4, HearsJoiningLate
<1> QED BY <1>2, <1>3, <1>4 DEF Settling, Silent

-----------------------------------------------------------------------------
LEMMA HearsLinking ==
  ASSUME IsAt, NEW m \in Scope, NEW c, c.out = <<>>, NEW h,
         NEW k \in Seq(Sends), NEW l, l # <<>>,
         Linking(c.state, c.nest, c.lastCmd, h, k, l, m),
         NEW e, Heeds(c, Head(l), e),
         NEW g, NEW j, NEW i, Lands(e.out, h, k, Tail(l), g, j, i)
  PROVE  \/ Booting(e.state, e.nest, g, j, i, m)
         \/ Linking(e.state, e.nest, e.lastCmd, g, j, i, m)
<1>1. PICK w, t : w = Head(l) /\ t = Tail(l)
  OBVIOUS
<1>2. /\ ~h.sub /\ h.raw = "none" /\ c.lastCmd = Order(c.state) /\ c.nest = <<>>
      /\ c.state \in {"MQTT_WAIT_USR_CONF", "MQTT_WAIT_CONF", "MQTT_CONNECTING"}
      /\ c.state \in {"MQTT_WAIT_USR_CONF", "MQTT_WAIT_CONF"} => Turn(c.state, k, l, m)
      /\ c.state = "MQTT_CONNECTING" => Failed(k, l, m)
      /\ l = <<"OK">> => h.mqtt = "conf"
  BY DEF Linking, Silent, Ordered
<1>3. k = <<>> /\ l \in {<<"OK">>, <<"ERROR">>} /\ (c.state = "MQTT_CONNECTING" => l = <<"ERROR">>)
  <2>1. c.state # "MQTT_CONNECTING" => Parts(c.state) = {<<"OK">>}
    BY <1>2 DEF Parts
  <2> QED BY <1>2, <2>1, TurnHeard DEF Failed
<1>4. Lands(e.out, h, k, t, g, j, i) /\ AtTurns(c, w, e)
  BY <1>1 DEF Heeds
<1>5. t = <<>> /\ (l = <<"OK">> => w = "OK") /\ (l = <<"ERROR">> => w = "ERROR")
  BY <1>1, <1>3, ShortLists
<1>6. CASE l = <<"ERROR">>
  <2>1. Restarted(e, c)
    BY <1>2, <1>4, <1>5, <1>6 DEF AtTurns, OkOr
  <2> QED BY <1>2, <1>3, <1>4, <1>5, <2>1, RestartsBoot
<1>7. CASE l = <<"OK">> /\ c.state = "MQTT_WAIT_USR_CONF"
  <2>1. Spoke(e, c, "AT+MQTTCONNCFG", "MQTT_WAIT_CONF")
    BY <1>4, <1>5, <1>7 DEF AtTurns, OkOr
  <2>2. Order("MQTT_WAIT_CONF") = "AT+MQTTCONNCFG"
    BY DEF Order
  <2> QED BY <1>2, <1>3, <1>4, <1>5, <1>7, <2>1, <2>2, LinksOn
<1>8. CASE l = <<"OK">> /\ c.state = "MQTT_WAIT_CONF"
  <2>1. Slept(e, c, "conf")
    BY <1>4, <1>5, <1>8 DEF AtTurns, OkOr
  <2>2. Landed(e, c.state, Append(c.nest, "conf"), c.lastCmd, h, k, t, g, j, i)
    BY <1>4, <2>1, ItLands, Zenon
  <2>3. Append(c.nest, "conf") = <<"conf">>
    BY <1>2, ShortLists
  <2> QED BY <1>2, <1>3, <1>5, <1>8, <2>2, <2>3 DEF Landed, Linking, Silent
<1> QED BY <1>2, <1>3, <1>6, <1>7, <1>8

\* What is on its way stays on its way behind another order.
LEMMA QueuesAppend ==
  ASSUME NEW S, NEW k \in Seq(S), NEW w
  PROVE  /\ Len(k \o <<w>>) = Len(k) + 1 /\ Len(k) \in Nat
         /\ \A i \in 1..Len(k) : (k \o <<w>>)[i] = k[i]
         /\ (k \o <<w>>)[Len(k) + 1] = w
         /\ w \in S => k \o <<w>> \in Seq(S)
OBVIOUS

LEMMA StaysBare ==
  ASSUME NEW h, NEW k \in Seq(LateOrders), NEW w, NEW j, j = k \o <<w>>
  PROVE  /\ Bare(h, k) /\ w \notin Pubs => Bare(h, j)
         /\ Subscribes(h, k) => Subscribes(h, j)
         /\ Bare(h, k) /\ w = "AT+MQTTSUB" => Subscribes(h, j)
         /\ w \in LateOrders => j \in Seq(LateOrders)
<1>1. /\ Len(j) = Len(k) + 1 /\ Len(k) \in Nat
      /\ \A i \in 1..Len(k) : j[i] = k[i]
      /\ j[Len(k) + 1] = w
      /\ w \in LateOrders => j \in Seq(LateOrders)
  BY QueuesAppend
<1>2. Bare(h, k) /\ w \notin Pubs => Bare(h, j)
  BY <1>1 DEF Bare
<1>3. Subscribes(h, k) => Subscribes(h, j)
  <2> SUFFICES ASSUME h.raw = "none",
                      \E i \in 1..Len(k) : k[i] = "AT+MQTTSUB" /\ \A a \in 1..i : k[a] \notin Pubs
               PROVE  \E i \in 1..Len(j) : j[i] = "AT+MQTTSUB" /\ \A a \in 1..i : j[a] \notin Pubs
    BY DEF Subscribes
  <2>1. PICK i \in 1..Len(k) : k[i] = "AT+MQTTSUB" /\ \A a \in 1..i : k[a] \notin Pubs
    OBVIOUS
  <2>2. i \in 1..Len(j) /\ j[i] = "AT+MQTTSUB" /\ \A a \in 1..i : j[a] \notin Pubs
    BY <1>1, <2>1
  <2> QED BY <2>2
<1>4. Bare(h, k) /\ w = "AT+MQTTSUB" => Subscribes(h, j)
  <2> HAVE Bare(h, k) /\ w = "AT+MQTTSUB"
  <2>1. h.raw = "none" /\ \A a \in 1..Len(k) : k[a] \notin Pubs
    BY DEF Bare
  <2>2. "AT+MQTTSUB" \notin Pubs
    BY DEF Pubs
  <2>3. Len(k) + 1 \in 1..Len(j) /\ j[Len(k) + 1] = "AT+MQTTSUB"
    BY <1>1
  <2>4. \A a \in 1..(Len(k) + 1) : j[a] \notin Pubs
    <3> TAKE a \in 1..(Len(k) + 1)
    <3>1. a \in 1..Len(k) \/ a = Len(k) + 1
      BY <1>1
    <3> QED BY <1>1, <2>1, <2>2, <2>3, <3>1
  <2> QED BY <2>1, <2>3, <2>4 DEF Subscribes
<1> QED BY <1>1, <1>2, <1>3, <1>4

-----------------------------------------------------------------------------
LEMMA HearsConnected ==
  ASSUME IsAt, NEW m \in Scope, NEW c, c.out = <<>>, NEW h \in AtChips,
         NEW k \in Seq(Sends), NEW l, l # <<>>,
         Connected(c.state, c.nest, c.lastCmd, h, k, l, m),
         NEW e, Heeds(c, Head(l), e),
         NEW g \in AtChips, NEW j, NEW i, Lands(e.out, h, k, Tail(l), g, j, i)
  PROVE  Connected(e.state, e.nest, e.lastCmd, g, j, i, m)
<1>1. PICK w, t : w = Head(l) /\ t = Tail(l)
  OBVIOUS
<1>2. /\ m = "lose" /\ h.mqtt = "up" /\ k \in Seq(LateOrders) /\ l \in Seq(LateTalk)
      /\ \/ c.state \in Linked \cup {"IDLE"} /\ c.nest \in Seq({"connecting"}) /\ Bare(h, k)
         \/ c.state \in {"IDLE", "WAIT_TIMESTAMP"} /\ c.nest \in {<<>>, <<"time">>}
         \/ c.state \in Publishing /\ c.nest = <<>> /\ c.lastCmd \in Pubs
      /\ c.state # "MQTT_CONNECTING" => Subscribes(h, k)
      /\ c.state \in Linked => c.lastCmd = Order(c.state)
  BY DEF Connected
<1>3. w \in LateTalk /\ t \in Seq(LateTalk) /\ "ERROR" \notin LateTalk
  <2>1. "ERROR" \notin LateTalk
    BY DEF LateTalk, StallTalk
  <2>2. w \in LateTalk /\ t \in Seq(LateTalk)
    BY <1>1, <1>2, Shorter
  <2> QED BY <2>1, <2>2
<1>4. Lands(e.out, h, k, t, g, j, i) /\ AtTurns(c, w, e) /\ PubTurns(c, w, e)
  BY <1>1 DEF Heeds
<1>5. Unmoved(e, c) => Connected(e.state, e.nest, e.lastCmd, g, j, i, m)
  <2> HAVE Unmoved(e, c)
  <2>1. /\ Talks(h, k, l, g, j, i, m) /\ e.state = c.state /\ e.nest = c.nest
        /\ e.lastCmd = c.lastCmd
    BY <1>2, UnmovedLoses
  <2>2. Connected(c.state, c.nest, c.lastCmd, g, j, i, m)
    BY <2>1, ConnectedTalks
  <2> QED BY <2>1, <2>2
<1>6. /\ \A s : Moved(e, c, s) => Landed(e, s, c.nest, c.lastCmd, h, k, t, g, j, i)
      /\ \A r : Slept(e, c, r) =>
           Landed(e, c.state, Append(c.nest, r), c.lastCmd, h, k, t, g, j, i)
  BY <1>4, ItLands, Zenon
<1>7. CASE c.state = "MQTT_CONNECTING"
  <2>1. /\ w = "OK" => Slept(e, c, "connecting")
        /\ w # "OK" => Unmoved(e, c)
    BY <1>3, <1>4, <1>7 DEF AtTurns, OkOr
  <2>2. CASE w = "OK"
    <3>1. Landed(e, c.state, Append(c.nest, "connecting"), c.lastCmd, h, k, t, g, j, i)
      BY <1>6, <2>1, <2>2
    <3>2. c.nest \in Seq({"connecting"}) /\ Bare(h, k) /\ c.lastCmd = Order(c.state)
      BY <1>2, <1>7 DEF Publishing, Linked
    <3>3. Append(c.nest, "connecting") \in Seq({"connecting"})
      BY <3>2
    <3> QED BY <1>2, <1>3, <1>7, <3>1, <3>2, <3>3 DEF Landed, Connected, Linked
  <2> QED BY <1>5, <2>1, <2>2
<1>8. CASE c.state = "MQTT_WAIT_SUB"
  <2>1. /\ w \in {"OK", "ALREADY SUBSCRIBE"} => Moved(e, c, "IDLE")
        /\ w \notin {"OK", "ALREADY SUBSCRIBE"} => Unmoved(e, c)
    BY <1>3, <1>4, <1>8 DEF AtTurns
  <2>2. CASE w \in {"OK", "ALREADY SUBSCRIBE"}
    <3>1. Landed(e, "IDLE", c.nest, c.lastCmd, h, k, t, g, j, i)
      BY <1>6, <2>1, <2>2
    <3>2. c.nest \in Seq({"connecting"}) /\ Bare(h, k)
      BY <1>2, <1>8 DEF Publishing
    <3> QED BY <1>2, <1>3, <1>8, <3>1, <3>2 DEF Landed, Connected, Linked
  <2> QED BY <1>5, <2>1, <2>2
<1>9. CASE c.state = "IDLE"
  BY <1>4, <1>5, <1>9 DEF AtTurns
<1>10. CASE c.state = "WAIT_TIMESTAMP"
  <2>1. /\ w = "OK" => Moved(e, c, "IDLE")
        /\ w # "OK" => Unmoved(e, c)
    BY <1>4, <1>10 DEF AtTurns
  <2>2. CASE w = "OK"
    <3>1. Landed(e, "IDLE", c.nest, c.lastCmd, h, k, t, g, j, i)
      BY <1>6, <2>1, <2>2
    <3>2. c.nest \in {<<>>, <<"time">>}
      BY <1>2, <1>10 DEF Publishing, Linked
    <3> QED BY <1>2, <1>3, <1>10, <3>1, <3>2 DEF Landed, Connected, Linked
  <2> QED BY <1>5, <2>1, <2>2
<1>11. CASE c.state = "MQTT_WAIT_PUB"
  <2>1. /\ w = "OK" => \E v \in {"payload meas", "payload resp"} : Paid(e, c, v)
        /\ w # "OK" => Unmoved(e, c)
    BY <1>3, <1>4, <1>11 DEF AtTurns, OkOr
  <2>2. CASE w = "OK"
    <3>1. PICK v \in {"payload meas", "payload resp"} : Paid(e, c, v)
      BY <2>1, <2>2
    <3>2. v # "PULSE" /\ v \in LateOrders
      BY DEF LateOrders
    <3>3. SentOn(e, "MQTT_PUBLISHING", c.nest, c.lastCmd, v, h, k, t, g, j, i)
      BY <1>4, <3>1, <3>2, ItSends, Zenon
    <3>4. c.nest = <<>> /\ c.lastCmd \in Pubs /\ Subscribes(h, k)
      BY <1>2, <1>11 DEF Linked
    <3>5. j \in Seq(LateOrders) /\ Subscribes(h, j)
      BY <1>2, <3>2, <3>3, <3>4, StaysBare DEF SentOn
    <3> QED BY <1>2, <1>3, <3>3, <3>4, <3>5 DEF SentOn, Connected, Publishing, Linked
  <2> QED BY <1>5, <2>1, <2>2
<1>12. CASE c.state = "MQTT_PUBLISHING"
  <2>1. /\ w = "+MQTTPUB:OK" => Moved(e, c, "IDLE") \/ Timed(e, c)
        /\ w # "+MQTTPUB:OK" => Unmoved(e, c)
    BY <1>3, <1>4, <1>12 DEF PubTurns
  <2>2. c.nest = <<>> /\ Subscribes(h, k)
    BY <1>2, <1>12 DEF Linked
  <2>3. CASE Moved(e, c, "IDLE")
    <3>1. Landed(e, "IDLE", c.nest, c.lastCmd, h, k, t, g, j, i)
      BY <1>6, <2>3
    <3> QED BY <1>2, <1>3, <2>2, <3>1 DEF Landed, Connected, Linked
  <2>4. CASE Timed(e, c)
    <3>1. PICK v : v = "AT+SYSTIMESTAMP?"
      OBVIOUS
    <3>2. SentOn(e, "WAIT_TIMESTAMP", Append(c.nest, "time"), v, v, h, k, t, g, j, i)
      BY <1>4, <2>4, <3>1, ItSendsTime, Zenon
    <3>3. Append(c.nest, "time") = <<"time">> /\ v \in LateOrders
      BY <2>2, <3>1, ShortLists DEF LateOrders
    <3>4. j \in Seq(LateOrders) /\ Subscribes(h, j)
      BY <1>2, <2>2, <3>2, <3>3, StaysBare DEF SentOn
    <3> QED BY <1>2, <1>3, <3>2, <3>3, <3>4 DEF SentOn, Connected, Linked
  <2> QED BY <1>5, <2>1, <2>3, <2>4
<1> QED BY <1>2, <1>7, <1>8, <1>9, <1>10, <1>11, <1>12 DEF Linked, Publishing

LEMMA RetriesConnected ==
  ASSUME IsAt, kind = "wifi", NEW c, c.out = <<>>, c.nest = <<>>, NEW e,
         NEW h \in AtChips, h.mqtt = "up",
         NEW k \in Seq(Sends), k \in Seq({"AT+CWSTATE?", "AT+MQTTCONN?"}),
         NEW t \in Seq(StallTalk), NEW g, NEW j, NEW i, Lands(e.out, h, k, t, g, j, i),
         Spoke(e, c, c.beforeCmd, c.before),
         \/ c.before \in Linked /\ c.beforeCmd = Order(c.before) /\ h.raw = "none"
            /\ (c.before # "MQTT_CONNECTING" => h.sub)
         \/ c.before \in Publishing /\ c.beforeCmd \in Pubs /\ h.sub
  PROVE  Connected(e.state, e.nest, e.lastCmd, g, j, i, "lose")
<1>1. PICK y, p : y = c.beforeCmd /\ p = c.before
  OBVIOUS
<1>2. /\ y \in LateOrders /\ y # "PULSE" /\ (p \in Linked => y \notin Pubs)
      /\ (p \in Linked => y = Order(p)) /\ (p \in Publishing => y \in Pubs)
  BY <1>1 DEF Linked, Publishing, Order, LateOrders, Pubs
<1>3. SentOn(e, p, c.nest, y, y, h, k, t, g, j, i)
  BY <1>1, <1>2, ItSends, Zenon
<1>4. k \in Seq(LateOrders) /\ t \in Seq(LateTalk)
  <2>1. {"AT+CWSTATE?", "AT+MQTTCONN?"} \subseteq LateOrders /\ StallTalk \subseteq LateTalk
    BY DEF LateOrders, LateTalk
  <2> QED BY <2>1, Wider
<1>5. h.raw = "none" => Bare(h, k)
  <2>1. \A a \in 1..Len(k) : k[a] \notin Pubs
    <3>1. \A a \in 1..Len(k) : k[a] \in {"AT+CWSTATE?", "AT+MQTTCONN?"}
      OBVIOUS
    <3> QED BY <3>1 DEF Pubs
  <2> QED BY <2>1 DEF Bare
<1>6. j = k \o <<y>> /\ i = t /\ g = h /\ e.state = p /\ e.nest = <<>> /\ e.lastCmd = y
  BY <1>3 DEF SentOn
<1>7. j \in Seq(LateOrders) /\ (Bare(h, k) /\ y \notin Pubs => Bare(h, j))
  BY <1>2, <1>4, <1>6, StaysBare
<1>8. h.sub => Subscribes(h, j)
  BY DEF Subscribes
<1>9. <<>> \in Seq({"connecting"})
  BY InOrder
<1>10. CASE p \in Linked /\ h.raw = "none" /\ (p # "MQTT_CONNECTING" => h.sub)
  BY <1>2, <1>4, <1>5, <1>6, <1>7, <1>8, <1>9, <1>10 DEF Connected
<1>11. CASE p \in Publishing /\ h.sub
  BY <1>2, <1>4, <1>6, <1>7, <1>8, <1>11 DEF Connected, Publishing, Linked
<1> QED BY <1>1, <1>10, <1>11

LEMMA HearsStalled ==
  ASSUME IsAt, NEW m \in Scope, NEW c, c.out = <<>>, NEW h \in AtChips,
         NEW k \in Seq(Sends), NEW l, l # <<>>,
         kind = "poe" => c.beforeCmd = "none" /\ c.before = "OFF",
         Stalled(c.state, c.nest, c.before, c.beforeCmd, h, k, l, m),
         NEW e, Heeds(c, Head(l), e),
         NEW g \in AtChips, NEW j, NEW i, Lands(e.out, h, k, Tail(l), g, j, i)
  PROVE  \/ Booting(e.state, e.nest, g, j, i, m)
         \/ Stalled(e.state, e.nest, e.before, e.beforeCmd, g, j, i, m)
         \/ Connected(e.state, e.nest, e.lastCmd, g, j, i, m)
<1>1. PICK w, t : w = Head(l) /\ t = Tail(l)
  OBVIOUS
<1>2. /\ m = "lose" /\ c.state \in Asking /\ c.nest = <<>>
      /\ kind = "poe" <=> c.state = "TIMEDOUT_WAIT_MQTT_STATE"
      /\ k \in Seq({"AT+CWSTATE?", "AT+MQTTCONN?"}) /\ l \in Seq(StallTalk)
      /\ \/ h.mqtt # "up" /\ l \in Seq(StallTalk \ {"+MQTTCONN up"})
         \/ h.mqtt = "up" /\ kind = "poe"
         \/ h.mqtt = "up" /\ c.before \in Linked /\ c.beforeCmd = Order(c.before)
            /\ h.raw = "none" /\ (c.before # "MQTT_CONNECTING" => h.sub)
         \/ h.mqtt = "up" /\ c.before \in Publishing /\ c.beforeCmd \in Pubs /\ h.sub
  BY DEF Stalled
<1>3. w \in StallTalk /\ t \in Seq(StallTalk)
  BY <1>1, <1>2, Shorter
<1>4. \A S : l \in Seq(S) => w \in S /\ t \in Seq(S)
  BY <1>1, Shorter
<1>5. /\ Lands(e.out, h, k, t, g, j, i) /\ (kind = "wifi" => WifiTurns(c, w, e))
      /\ (kind = "poe" => PoeTurns(c, w, e))
  BY <1>1 DEF Heeds
<1>6. Unmoved(e, c) => Stalled(e.state, e.nest, e.before, e.beforeCmd, g, j, i, m)
  <2> HAVE Unmoved(e, c)
  <2>1. /\ Talks(h, k, l, g, j, i, m) /\ e.state = c.state /\ e.nest = c.nest
        /\ e.before = c.before /\ e.beforeCmd = c.beforeCmd
    BY <1>2, UnmovedLoses
  <2>2. Stalled(c.state, c.nest, c.before, c.beforeCmd, g, j, i, m)
    BY <2>1, StalledTalks
  <2> QED BY <2>1, <2>2
<1>7. t \in Seq(Noise) /\ k \in Seq(Questions)
  <2>1. StallTalk \subseteq Noise /\ {"AT+CWSTATE?", "AT+MQTTCONN?"} \subseteq Questions
    BY DEF StallTalk, Noise, Talk, Bell, Questions
  <2> QED BY <1>2, <1>3, <2>1, Wider
<1>8. Restarted(e, c) => Booting(e.state, e.nest, g, j, i, m)
  BY <1>2, <1>5, <1>7, RestartsBoot
<1>9. w = "+MQTTCONN up" => h.mqtt = "up"
  <2>1. l \in Seq(StallTalk \ {"+MQTTCONN up"}) => w \in StallTalk \ {"+MQTTCONN up"}
    BY <1>4
  <2> QED BY <1>2, <2>1
<1>10. CASE c.state = "TIMEDOUT_MQTT_WAIT_WIFI_STATE"
  <2>1. kind = "wifi"
    BY <1>2, <1>10 DEF IsAt
  <2>2. /\ w = "+CWSTATE up" => Spoke(e, c, "AT+MQTTCONN?", "TIMEDOUT_MQTT_WAIT_MQTT_STATE")
        /\ w = "+CWSTATE down" => Pulsed(e, c)
        /\ w \notin {"+CWSTATE up", "+CWSTATE down"} => Unmoved(e, c)
    BY <1>3, <1>5, <1>10, <2>1 DEF WifiTurns, StallTalk
  <2>3. CASE w = "+CWSTATE down"
    BY <1>2, <1>5, <1>7, <2>1, <2>2, <2>3, PulseBoots
  <2>4. CASE w = "+CWSTATE up"
    <3>1. PICK v, s : v = "AT+MQTTCONN?" /\ s = "TIMEDOUT_MQTT_WAIT_MQTT_STATE"
      OBVIOUS
    <3>2. Spoke(e, c, v, s) /\ v # "PULSE"
      BY <2>2, <2>4, <3>1
    <3>3. SentOn(e, s, c.nest, v, v, h, k, t, g, j, i)
      BY <1>5, <3>2, ItSends, Zenon
    <3>4. e.before = c.before /\ e.beforeCmd = c.beforeCmd
      BY <3>2 DEF Spoke, Did
    <3>5. j = k \o <<v>> /\ i = t /\ g = h /\ e.state = s /\ e.nest = <<>>
      BY <1>2, <3>3 DEF SentOn
    <3>6. j \in Seq({"AT+CWSTATE?", "AT+MQTTCONN?"})
      BY <1>2, <3>1, <3>5, QueuesAppend
    <3>7. h.mqtt # "up" => i \in Seq(StallTalk \ {"+MQTTCONN up"})
      BY <1>2, <1>4, <3>5
    <3>8. s \in Asking /\ ~(kind = "poe") /\ s # "TIMEDOUT_WAIT_MQTT_STATE"
      BY <2>1, <3>1 DEF Asking
    <3> QED BY <1>2, <1>3, <3>4, <3>5, <3>6, <3>7, <3>8 DEF Stalled
  <2> QED BY <1>6, <2>2, <2>3, <2>4
<1>11. CASE c.state = "TIMEDOUT_MQTT_WAIT_MQTT_STATE"
  <2>1. kind = "wifi" /\ kind # "poe"
    BY <1>2, <1>11 DEF IsAt
  <2>2. /\ w = "+MQTTCONN up" => Spoke(e, c, c.beforeCmd, c.before)
        /\ w = "+MQTTCONN down" => Restarted(e, c)
        /\ w \notin {"+MQTTCONN up", "+MQTTCONN down"} => Unmoved(e, c)
    BY <1>5, <1>11, <2>1 DEF WifiTurns
  <2>3. CASE w = "+MQTTCONN up"
    <3>1. Spoke(e, c, c.beforeCmd, c.before)
      BY <2>2, <2>3
    <3>2. \/ c.before \in Linked /\ c.beforeCmd = Order(c.before) /\ h.raw = "none"
             /\ (c.before # "MQTT_CONNECTING" => h.sub)
          \/ c.before \in Publishing /\ c.beforeCmd \in Pubs /\ h.sub
      BY <1>2, <1>9, <2>1, <2>3
    <3> QED BY <1>2, <1>3, <1>5, <1>9, <2>1, <2>3, <3>1, <3>2, RetriesConnected
  <2> QED BY <1>6, <1>8, <2>2, <2>3
<1>12. CASE c.state = "TIMEDOUT_WAIT_MQTT_STATE"
  <2>1. kind = "poe"
    BY <1>2, <1>12
  <2>2. /\ w = "+MQTTCONN up" => Spoke(e, c, c.beforeCmd, c.before)
        /\ w = "+MQTTCONN down" => Restarted(e, c)
        /\ w \notin {"+MQTTCONN up", "+MQTTCONN down"} => Unmoved(e, c)
    BY <1>5, <1>12, <2>1 DEF PoeTurns
  <2>3. CASE w = "+MQTTCONN up"
    <3>1. PICK v, s : v = "none" /\ s = "OFF"
      OBVIOUS
    <3>2. Spoke(e, c, v, s) /\ v # "PULSE"
      BY <2>1, <2>2, <2>3, <3>1
    <3>3. SentOn(e, s, c.nest, v, v, h, k, t, g, j, i)
      BY <1>5, <3>2, ItSends, Zenon
    <3>4. j = k \o <<v>> /\ i = t /\ e.state = "OFF" /\ e.nest = <<>>
      BY <1>2, <3>1, <3>3 DEF SentOn
    <3>5. j \in Seq(Questions)
      BY <1>7, <3>1, <3>4, QueuesAppend DEF Questions
    <3> QED BY <1>2, <1>7, <3>4, <3>5 DEF Booting
  <2> QED BY <1>6, <1>8, <2>2, <2>3
<1> QED BY <1>2, <1>10, <1>11, <1>12 DEF Asking

-----------------------------------------------------------------------------
LEMMA HearsCareful ==
  ASSUME IsAt, NEW m \in Scope, NEW c, c.out = <<>>, NEW h,
         NEW k \in Seq(Sends), NEW l, l # <<>>,
         Careful(c.state, c.nest, h, k, l, m),
         NEW e, Heeds(c, Head(l), e),
         NEW g, NEW j, NEW i, Lands(e.out, h, k, Tail(l), g, j, i)
  PROVE  \/ Booting(e.state, e.nest, g, j, i, m)
         \/ Careful(e.state, e.nest, g, j, i, m)
<1>1. PICK w, t : w = Head(l) /\ t = Tail(l)
  OBVIOUS
<1>2. m = "error" /\ h.mqtt = "up" /\ k = <<>>
  <2>1. \A z : Turn(z, k, l, m) => k = <<>>
    BY TurnHeard
  <2> QED BY <2>1 DEF Careful, Silent, Failed
<1>3. Lands(e.out, h, k, t, g, j, i) /\ AtTurns(c, w, e) /\ PubTurns(c, w, e)
  BY <1>1 DEF Heeds
<1>4. /\ Unmoved(e, c) => Landed(e, c.state, c.nest, c.lastCmd, h, k, t, g, j, i)
      /\ \A s : Moved(e, c, s) => Landed(e, s, c.nest, c.lastCmd, h, k, t, g, j, i)
      /\ \A r : Slept(e, c, r) =>
           Landed(e, c.state, Append(c.nest, r), c.lastCmd, h, k, t, g, j, i)
  BY <1>3, ItLands, Zenon
<1>5. Restarted(e, c) /\ c.nest = <<>> /\ t = <<>> => Booting(e.state, e.nest, g, j, i, m)
  BY <1>2, <1>3, RestartsBoot
<1>6. \A a : l = <<a>> => w = a /\ t = <<>>
  BY <1>1, ShortLists
<1>7. \A a, b : l = <<a, b>> => w = a /\ t = <<b>>
  BY <1>1, ShortLists
<1>8. CASE /\ c.state = "MQTT_CONNECTING" /\ c.nest = <<>> /\ h.raw = "none" /\ ~h.sub
           /\ k = <<>> /\ l = <<"OK">>
  <2>1. Slept(e, c, "connecting") /\ t = <<>>
    BY <1>3, <1>6, <1>8 DEF AtTurns, OkOr
  <2>2. Landed(e, c.state, Append(c.nest, "connecting"), c.lastCmd, h, k, t, g, j, i)
    BY <1>4, <2>1
  <2>3. Append(c.nest, "connecting") = <<"connecting">>
    BY <1>8, ShortLists
  <2> QED BY <1>2, <1>8, <2>1, <2>2, <2>3 DEF Landed, Careful, Silent
<1>9. CASE /\ c.state = "MQTT_WAIT_SUB" /\ c.nest = <<>> /\ h.raw = "none"
           /\ Turn(c.state, k, l, m) /\ (h.sub <=> (l = <<"OK">>))
  <2>1. l \in {<<"OK">>, <<"ERROR">>}
    BY <1>9, TurnHeard DEF Parts
  <2>2. CASE l = <<"OK">>
    <3>1. Moved(e, c, "IDLE") /\ t = <<>>
      BY <1>3, <1>6, <1>9, <2>2 DEF AtTurns
    <3>2. Landed(e, "IDLE", c.nest, c.lastCmd, h, k, t, g, j, i)
      BY <1>4, <3>1
    <3> QED BY <1>2, <1>9, <2>2, <3>1, <3>2 DEF Landed, Careful, Silent
  <2>3. CASE l = <<"ERROR">>
    <3>1. Restarted(e, c) /\ t = <<>>
      BY <1>3, <1>6, <1>9, <2>3 DEF AtTurns
    <3> QED BY <1>5, <1>9, <3>1
  <2> QED BY <2>1, <2>2, <2>3
<1>10. CASE /\ c.state = "WAIT_TIMESTAMP" /\ c.nest \in {<<>>, <<"time">>}
            /\ h.raw = "none" /\ h.sub /\ Turn(c.state, k, l, m)
  <2>1. l \in {<<"OK">>, <<"+SYSTIMESTAMP", "OK">>, <<"ERROR">>}
        /\ <<"OK">> \in Parts(c.state)
    <3>1. Parts(c.state) = {<<"OK">>, <<"+SYSTIMESTAMP", "OK">>}
      BY <1>10 DEF Parts
    <3> QED BY <1>10, <3>1, TurnHeard
  <2>2. /\ w = "OK" => Moved(e, c, "IDLE")
        /\ w # "OK" => Unmoved(e, c)
    BY <1>3, <1>10 DEF AtTurns
  <2>3. CASE l = <<"OK">>
    <3>1. Landed(e, "IDLE", c.nest, c.lastCmd, h, k, t, g, j, i) /\ t = <<>>
      BY <1>4, <1>6, <2>2, <2>3
    <3> QED BY <1>2, <1>10, <3>1 DEF Landed, Careful, Silent
  <2>4. CASE l = <<"ERROR">>
    <3>1. w = "ERROR" /\ t = <<>>
      BY <1>6, <2>4
    <3>2. Landed(e, c.state, c.nest, c.lastCmd, h, k, t, g, j, i)
      BY <1>4, <2>2, <3>1
    <3> QED BY <1>2, <1>10, <3>1, <3>2 DEF Landed, Careful, Silent
  <2>5. CASE l = <<"+SYSTIMESTAMP", "OK">>
    <3>1. w = "+SYSTIMESTAMP" /\ t = <<"OK">>
      BY <1>7, <2>5
    <3>2. Landed(e, c.state, c.nest, c.lastCmd, h, k, t, g, j, i)
      BY <1>4, <2>2, <3>1
    <3>3. Turn(c.state, j, i, m)
      BY <1>2, <2>1, <3>1, <3>2 DEF Landed, Turn
    <3> QED BY <1>2, <1>10, <3>2, <3>3 DEF Landed, Careful
  <2> QED BY <2>1, <2>3, <2>4, <2>5
<1>11. CASE /\ c.state = "MQTT_WAIT_PUB" /\ c.nest = <<>> /\ h.sub
            /\ \/ k = <<>> /\ l = <<"OK">> /\ h.raw # "none"
               \/ Failed(k, l, m) /\ h.raw = "none"
  <2>1. CASE l = <<"OK">>
    <3>1. PICK v \in {"payload meas", "payload resp"} : Paid(e, c, v)
      BY <1>3, <1>6, <1>11, <2>1 DEF AtTurns, OkOr
    <3>2. SentOn(e, "MQTT_PUBLISHING", c.nest, c.lastCmd, v, h, k, t, g, j, i)
      <4>1. v # "PULSE"
        OBVIOUS
      <4> QED BY <1>3, <3>1, <4>1, ItSends, Zenon
    <3>3. t = <<>> /\ h.raw # "none"
      <4>1. l # <<"ERROR">>
        BY <1>6, <2>1
      <4> QED BY <1>6, <1>11, <2>1, <4>1 DEF Failed
    <3> QED BY <1>2, <1>11, <3>1, <3>2, <3>3 DEF SentOn, Careful
  <2>2. CASE l = <<"ERROR">>
    <3>1. Restarted(e, c) /\ t = <<>>
      BY <1>3, <1>6, <1>11, <2>2 DEF AtTurns, OkOr
    <3> QED BY <1>5, <1>11, <3>1
  <2> QED BY <1>11, <2>1, <2>2 DEF Failed
<1>12. CASE /\ c.state = "MQTT_PUBLISHING" /\ c.nest = <<>> /\ h.sub
            /\ k = <<>> /\ l = <<"+MQTTPUB:OK">> /\ h.raw = "none"
  <2>1. (Moved(e, c, "IDLE") \/ Timed(e, c)) /\ t = <<>>
    BY <1>3, <1>6, <1>12 DEF PubTurns
  <2>2. CASE Moved(e, c, "IDLE")
    <3>1. Landed(e, "IDLE", c.nest, c.lastCmd, h, k, t, g, j, i)
      BY <1>4, <2>2
    <3> QED BY <1>2, <1>12, <2>1, <3>1 DEF Landed, Careful, Silent
  <2>3. CASE Timed(e, c)
    <3>1. PICK v : v = "AT+SYSTIMESTAMP?"
      OBVIOUS
    <3>2. SentOn(e, "WAIT_TIMESTAMP", Append(c.nest, "time"), v, v, h, k, t, g, j, i)
      BY <1>3, <2>3, <3>1, ItSendsTime, Zenon
    <3>3. Append(c.nest, "time") = <<"time">> /\ v = Order("WAIT_TIMESTAMP")
      BY <1>12, <3>1, ShortLists DEF Order
    <3>4. /\ e.state = "WAIT_TIMESTAMP" /\ e.nest = <<"time">> /\ g = h
          /\ j = <<Order("WAIT_TIMESTAMP")>> /\ i = <<>>
      BY <1>2, <2>1, <3>2, <3>3 DEF SentOn
    <3> QED BY <1>2, <1>12, <3>4 DEF Careful, Turn, Ordered
  <2> QED BY <2>1, <2>2, <2>3
<1> QED BY <1>2, <1>8, <1>9, <1>10, <1>11, <1>12 DEF Careful, Silent

LEMMA ItsVoice ==
  ASSUME IsAt, NEW m \in Scope, NEW s, NEW n, NEW x, NEW p, NEW y, NEW h, NEW k, NEW l,
         l # <<>>, Stretch(s, n, x, p, y, h, k, l, m)
  PROVE  Head(l) \in Voices
<1>1. PICK w : w = Head(l)
  OBVIOUS
<1>2. \A S, W : Ends(l, S, W) => w \in S \cup W
  BY <1>1, EndsTail
<1>3. \A S : l \in Seq(S) => w \in S
  BY <1>1, Shorter
<1>4. \A a : l = <<a>> => w = a
  BY <1>1, ShortLists
<1>5. \A a, b : l = <<a, b>> => w = a
  BY <1>1, ShortLists
<1>6. \A z : l \in Parts(z) => w \in Voices
  <2> TAKE z
  <2> HAVE l \in Parts(z)
  <2>1. l \in {<<"OK">>, <<"+TIME_UPDATED">>} \cup
              {<<"+CWSTATE down", "OK">>, <<"+CIPSTAMAC", "OK">>, <<"+CIPETHMAC", "OK">>,
               <<"OK", "+TIME_UPDATED">>, <<"+MQTTCONN down", "OK">>, <<"+SYSTIMESTAMP", "OK">>}
    BY DEF Parts
  <2> QED BY <1>4, <1>5, <2>1 DEF Voices
<1>7. l = <<"ERROR">> => w \in Voices
  BY <1>4 DEF Voices
<1>8. \A z : Turn(z, k, l, m) => w \in Voices
  BY <1>6, <1>7, TurnHeard
<1>9. CASE Booting(s, n, h, k, l, m)
  <2>1. Noise \subseteq Voices /\ Bell \in Voices
    BY DEF Noise, Talk, Bell, Voices
  <2>2. Ends(l, Noise, {Bell}) \/ l \in Seq(Noise) \/ l = <<"ERROR">>
    BY <1>9 DEF Booting, Failed
  <2>3. Ends(l, Noise, {Bell}) => w \in Noise \cup {Bell}
    BY <1>2
  <2>4. l \in Seq(Noise) => w \in Noise
    BY <1>3
  <2> QED BY <1>7, <2>1, <2>2, <2>3, <2>4, <1>1
<1>10. CASE Settling(s, n, x, p, y, h, k, l, m)
  <2>1. CwTalk \subseteq Voices /\ "+TIME_UPDATED" \in Voices
    BY DEF CwTalk, Voices
  <2>2. \/ \E z : Turn(z, k, l, m)
        \/ l \in Seq(CwTalk) \/ l \in Seq(CwTalk \ {"+CWSTATE up"})
        \/ Ends(l, CwTalk, {"+TIME_UPDATED"})
    BY <1>10 DEF Settling, Silent
  <2>3. Ends(l, CwTalk, {"+TIME_UPDATED"}) => w \in CwTalk \cup {"+TIME_UPDATED"}
    BY <1>2
  <2>4. l \in Seq(CwTalk) => w \in CwTalk
    BY <1>3
  <2>5. l \in Seq(CwTalk \ {"+CWSTATE up"}) => w \in CwTalk \ {"+CWSTATE up"}
    BY <1>3
  <2> QED BY <1>1, <1>8, <2>1, <2>2, <2>3, <2>4, <2>5
<1>11. CASE Linking(s, n, x, h, k, l, m)
  BY <1>1, <1>7, <1>8, <1>11 DEF Linking, Silent, Ordered, Failed
<1>12. CASE Stalled(s, n, p, y, h, k, l, m)
  <2>1. l \in Seq(StallTalk) /\ StallTalk \subseteq Voices
    BY <1>12 DEF Stalled, StallTalk, Voices
  <2> QED BY <1>1, <1>3, <2>1
<1>13. CASE Connected(s, n, x, h, k, l, m)
  <2>1. l \in Seq(LateTalk) /\ LateTalk \subseteq Voices
    BY <1>13 DEF Connected, LateTalk, StallTalk, Voices
  <2> QED BY <1>1, <1>3, <2>1
<1>14. CASE Careful(s, n, h, k, l, m)
  <2>1. \/ \E z : Turn(z, k, l, m)
        \/ l = <<"OK">> \/ l = <<"ERROR">> \/ l = <<"+MQTTPUB:OK">>
    BY <1>14 DEF Careful, Silent, Failed
  <2>2. "OK" \in Voices /\ "+MQTTPUB:OK" \in Voices
    BY DEF Voices
  <2> QED BY <1>1, <1>4, <1>7, <1>8, <2>1, <2>2
<1> QED BY <1>9, <1>10, <1>11, <1>12, <1>13, <1>14 DEF Stretch

-----------------------------------------------------------------------------
(* A step of the driver, whatever its handler does.                        *)

\* The handler sent one thing at most, and forgot nothing.
Terse(o) == o = <<>> \/ \E w : o = <<w>>
Kin(e, c) == Plain(e) /\ e.before = c.before /\ e.beforeCmd = c.beforeCmd /\ Terse(e.out)

LEMMA DidIsKin ==
  ASSUME NEW c, c.out = <<>>, NEW e
  PROVE  /\ Unmoved(e, c) => Kin(e, c)
         /\ \A s : Moved(e, c, s) => Kin(e, c)
         /\ \A v, s : Spoke(e, c, v, s) => Kin(e, c)
         /\ \A r : Slept(e, c, r) => Kin(e, c)
         /\ \A v : Paid(e, c, v) => Kin(e, c)
         /\ Pulsed(e, c) => Kin(e, c)
         /\ Timed(e, c) => Kin(e, c)
         /\ Restarted(e, c) => Kin(e, c)
<1>1. \A s, n, x : Did(e, c, s, n, x, c.out) => Kin(e, c)
  BY DEF Did, Kin, Terse
<1>2. \A s, n, x, w : Did(e, c, s, n, x, Append(c.out, w)) => Kin(e, c)
  <2>1. \A w : Append(<<>>, w) = <<w>>
    OBVIOUS
  <2> QED BY <2>1 DEF Did, Kin, Terse
<1> QED BY <1>1, <1>2, Zenon DEF Unmoved, Moved, Spoke, Slept, Paid, Pulsed, Timed, Restarted

\* Whatever line it hears on its way, that is.
LEMMA HeedsAsKin ==
  ASSUME IsAt, NEW m \in Scope, NEW c, c.out = <<>>, NEW h, NEW k, NEW l, l # <<>>,
         Stretch(c.state, c.nest, c.lastCmd, c.before, c.beforeCmd, h, k, l, m),
         NEW e, Heeds(c, Head(l), e)
  PROVE  Kin(e, c)
<1>1. PICK w : w = Head(l)
  OBVIOUS
<1>2. AtTurns(c, w, e) /\ PubTurns(c, w, e) /\ (kind = "wifi" => WifiTurns(c, w, e))
      /\ (kind = "poe" => PoeTurns(c, w, e))
  BY <1>1 DEF Heeds
<1>3. /\ Unmoved(e, c) => Kin(e, c)
      /\ \A s : Moved(e, c, s) => Kin(e, c)
      /\ \A v, s : Spoke(e, c, v, s) => Kin(e, c)
      /\ \A r : Slept(e, c, r) => Kin(e, c)
      /\ \A v : Paid(e, c, v) => Kin(e, c)
      /\ Pulsed(e, c) => Kin(e, c)
      /\ Timed(e, c) => Kin(e, c)
      /\ Restarted(e, c) => Kin(e, c)
  BY DidIsKin
<1>5. c.state \in {"DISABLE_ECHO", "MQTT_WAIT_USR_CONF", "MQTT_WAIT_CONF", "MQTT_CONNECTING",
                   "MQTT_WAIT_PUB"} => Kin(e, c)
  <2>1. c.state = "DISABLE_ECHO" => Kin(e, c)
    BY <1>2, <1>3, Zenon DEF AtTurns, OkOr
  <2>2. c.state = "MQTT_WAIT_USR_CONF" => Kin(e, c)
    BY <1>2, <1>3, Zenon DEF AtTurns, OkOr
  <2>3. c.state = "MQTT_WAIT_CONF" => Kin(e, c)
    BY <1>2, <1>3, Zenon DEF AtTurns, OkOr
  <2>4. c.state = "MQTT_CONNECTING" => Kin(e, c)
    BY <1>2, <1>3, Zenon DEF AtTurns, OkOr
  <2>5. c.state = "MQTT_WAIT_PUB" => Kin(e, c)
    BY <1>2, <1>3, Zenon DEF AtTurns, OkOr
  <2> QED BY <2>1, <2>2, <2>3, <2>4, <2>5
<1>6. c.state \in {"WAIT_MAC_ADDRESS", "SNTP_WAIT_SET", "MQTT_WAIT_SUB", "WAIT_TIMESTAMP",
                   "MQTT_PUBLISHING", "IDLE", "NO_CONF", "WIFI_FAIL_CONNECT"} => Kin(e, c)
  <2>1. c.state = "WAIT_MAC_ADDRESS" => Kin(e, c)
    BY <1>2, <1>3 DEF AtTurns
  <2>2. c.state = "SNTP_WAIT_SET" => Kin(e, c)
    BY <1>2, <1>3 DEF AtTurns
  <2>3. c.state = "MQTT_WAIT_SUB" => Kin(e, c)
    BY <1>2, <1>3 DEF AtTurns
  <2>4. c.state = "WAIT_TIMESTAMP" => Kin(e, c)
    BY <1>2, <1>3 DEF AtTurns
  <2>5. c.state = "MQTT_PUBLISHING" => Kin(e, c)
    BY <1>2, <1>3 DEF PubTurns
  <2>6. c.state \in {"IDLE", "NO_CONF", "WIFI_FAIL_CONNECT"} => Kin(e, c)
    BY <1>2, <1>3 DEF AtTurns
  <2> QED BY <2>1, <2>2, <2>3, <2>4, <2>5, <2>6
<1>7. CASE c.state = "MQTT_IS_CONNECTED"
  <2>1. Turn(c.state, k, l, m)
    BY <1>7 DEF Stretch, Booting, Settling, Linking, Stalled, Connected, Careful, Alone,
       Asking, Linked, Publishing
  <2>2. l \in {<<"OK">>, <<"+MQTTCONN down", "OK">>, <<"ERROR">>}
    <3>1. Parts(c.state) = {<<"OK">>, <<"+MQTTCONN down", "OK">>}
      BY <1>7 DEF Parts
    <3> QED BY <2>1, <3>1, TurnHeard
  <2>3. w # "+MQTTCONN up"
    BY <1>1, <2>2, ShortLists
  <2> QED BY <1>2, <1>3, <1>7, <2>3, Zenon DEF AtTurns, OkOr
<1>8. CASE c.state \in {"OFF", "RESTORE"}
  <2>1. kind = "poe" => c.state = "OFF"
    BY <1>8 DEF Stretch, Booting, Settling, Linking, Stalled, Connected, Careful, Alone,
       Asking, Linked, Publishing
  <2>2. CASE kind = "wifi"
    BY <1>2, <1>3, <1>8, <2>2 DEF WifiTurns
  <2>3. CASE kind = "poe"
    BY <1>2, <1>3, <2>1, <2>3 DEF PoeTurns
  <2> QED BY <2>2, <2>3 DEF IsAt
<1>9. CASE c.state \in {"IS_CONNECTED", "RF_REGION", "WIFI_SETTING_MODE", "WIFI_INIT",
                        "WIFI_CONNECTING", "TIMEDOUT_WIFI_WAIT_STATE"}
  <2>1. Settling(c.state, c.nest, c.lastCmd, c.before, c.beforeCmd, h, k, l, m)
    BY <1>9 DEF Stretch, Booting, Linking, Stalled, Connected, Careful, Asking, Linked, Publishing
  <2>2. kind = "wifi"
    BY <1>9, <2>1 DEF Settling, PoeSets, IsAt
  <2>3. c.state = "IS_CONNECTED" => Kin(e, c)
    <3> HAVE c.state = "IS_CONNECTED"
    <3>1. Turn(c.state, k, l, m)
      BY <2>1 DEF Settling
    <3>2. l \in {<<"OK">>, <<"+CWSTATE down", "OK">>, <<"ERROR">>}
      <4>1. Parts(c.state) = {<<"OK">>, <<"+CWSTATE down", "OK">>}
        BY DEF Parts
      <4> QED BY <3>1, <4>1, TurnHeard
    <3>3. w \in {"OK", "+CWSTATE down", "ERROR"}
      <4>1. \A a : l = <<a>> => w = a
        BY <1>1, ShortLists
      <4>2. l = <<"+CWSTATE down", "OK">> => w = "+CWSTATE down"
        BY <1>1, ShortLists
      <4> QED BY <3>2, <4>1, <4>2
    <3> QED BY <1>2, <1>3, <2>2, <3>3 DEF WifiTurns
  <2>4. c.state = "RF_REGION" => Kin(e, c)
    BY <1>2, <1>3, <2>2, Zenon DEF WifiTurns, OkOr
  <2>5. c.state = "WIFI_SETTING_MODE" => Kin(e, c)
    BY <1>2, <1>3, <2>2, Zenon DEF WifiTurns, OkOr
  <2>6. c.state = "WIFI_INIT" => Kin(e, c)
    BY <1>2, <1>3, <2>2, Zenon DEF WifiTurns, OkOr
  <2>7. c.state = "WIFI_CONNECTING" => Kin(e, c)
    BY <1>2, <1>3, <2>2 DEF WifiTurns
  <2>8. c.state = "TIMEDOUT_WIFI_WAIT_STATE" => Kin(e, c)
    <3> HAVE c.state = "TIMEDOUT_WIFI_WAIT_STATE"
    <3>1. l \in Seq(CwTalk) \/ l \in Seq(CwTalk \ {"+CWSTATE up"})
      BY <2>1 DEF Settling, Alone, Silent
    <3>2. l \in Seq(CwTalk)
      BY <3>1, Wider
    <3>3. w \in CwTalk
      BY <1>1, <3>2, Shorter
    <3> QED BY <1>2, <1>3, <2>2, <3>3 DEF WifiTurns, CwTalk
  <2> QED BY <1>9, <2>3, <2>4, <2>5, <2>6, <2>7, <2>8
<1>10. CASE c.state \in Asking
  <2>1. Stalled(c.state, c.nest, c.before, c.beforeCmd, h, k, l, m)
    BY <1>10 DEF Stretch, Booting, Settling, Alone, Linking, Connected, Careful, Asking, Linked,
       Publishing
  <2>2. l \in Seq(StallTalk) /\ (kind = "poe" <=> c.state = "TIMEDOUT_WAIT_MQTT_STATE")
    BY <2>1 DEF Stalled
  <2>3. w \in StallTalk
    BY <1>1, <2>2, Shorter
  <2>4. CASE kind = "wifi"
    <3>1. c.state \in {"TIMEDOUT_MQTT_WAIT_WIFI_STATE", "TIMEDOUT_MQTT_WAIT_MQTT_STATE"}
      BY <1>10, <2>2, <2>4 DEF Asking
    <3> QED BY <1>2, <1>3, <2>3, <2>4, <3>1 DEF WifiTurns, StallTalk
  <2>5. CASE kind = "poe"
    BY <1>2, <1>3, <2>2, <2>5 DEF PoeTurns
  <2> QED BY <2>4, <2>5 DEF IsAt
<1> QED BY <1>5, <1>6, <1>7, <1>8, <1>9, <1>10 DEF Stretch, Booting, Settling, Alone, Linking,
        Stalled, Connected, Linked, Publishing, Careful

LEMMA HearsStretch ==
  ASSUME IsAt, NEW m \in Scope, NEW c, c.out = <<>>, NEW h \in AtChips,
         NEW k \in Seq(Sends), NEW l, l # <<>>,
         Stretch(c.state, c.nest, c.lastCmd, c.before, c.beforeCmd, h, k, l, m),
         NEW e, Heeds(c, Head(l), e),
         NEW g \in AtChips, NEW j, NEW i, Lands(e.out, h, k, Tail(l), g, j, i)
  PROVE  Stretch(e.state, e.nest, e.lastCmd, e.before, e.beforeCmd, g, j, i, m)
<1>1. kind = "poe" => e.beforeCmd = "none" /\ e.before = "OFF"
  <2>1. Kin(e, c)
    BY HeedsAsKin
  <2> QED BY <2>1 DEF Kin, Stretch
<1>2. CASE Booting(c.state, c.nest, h, k, l, m)
  BY <1>1, <1>2, HearsBooting DEF Stretch
<1>3. CASE Settling(c.state, c.nest, c.lastCmd, c.before, c.beforeCmd, h, k, l, m)
  BY <1>1, <1>3, HearsSettling DEF Stretch
<1>4. CASE Linking(c.state, c.nest, c.lastCmd, h, k, l, m)
  BY <1>1, <1>4, HearsLinking DEF Stretch
<1>5. CASE Stalled(c.state, c.nest, c.before, c.beforeCmd, h, k, l, m)
  <2>1. kind = "poe" => c.beforeCmd = "none" /\ c.before = "OFF"
    BY DEF Stretch
  <2> QED BY <1>1, <1>5, <2>1, HearsStalled DEF Stretch
<1>6. CASE Connected(c.state, c.nest, c.lastCmd, h, k, l, m)
  BY <1>1, <1>6, HearsConnected DEF Stretch
<1>7. CASE Careful(c.state, c.nest, h, k, l, m)
  BY <1>1, <1>7, HearsCareful DEF Stretch
<1> QED BY <1>2, <1>3, <1>4, <1>5, <1>6, <1>7 DEF Stretch

LEMMA TalksStretch ==
  ASSUME IsAt, NEW m \in Scope, NEW s, NEW n, NEW x, NEW p, NEW y, NEW h \in AtChips,
         NEW k, NEW l, NEW g \in AtChips, NEW j, NEW i,
         Stretch(s, n, x, p, y, h, k, l, m), Talks(h, k, l, g, j, i, m)
  PROVE  Stretch(s, n, x, p, y, g, j, i, m)
<1>1. CASE Booting(s, n, h, k, l, m)
  BY <1>1, BootingTalks DEF Stretch
<1>2. CASE Settling(s, n, x, p, y, h, k, l, m)
  BY <1>2, SettlingTalks DEF Stretch
<1>3. CASE Linking(s, n, x, h, k, l, m)
  BY <1>3, LinkingTalks DEF Stretch
<1>4. CASE Stalled(s, n, p, y, h, k, l, m)
  BY <1>4, StalledTalks DEF Stretch
<1>5. CASE Connected(s, n, x, h, k, l, m)
  BY <1>5, ConnectedTalks DEF Stretch
<1>6. CASE Careful(s, n, h, k, l, m)
  BY <1>6, CarefulTalks DEF Stretch
<1> QED BY <1>1, <1>2, <1>3, <1>4, <1>5, <1>6 DEF Stretch

-----------------------------------------------------------------------------
LEMMA DriverLands ==
  ASSUME IsAt, chip \in AtChips, NEW d, NEW t, NEW u, A!Driver(d, t, u),
         NEW e, e = A!Told(d), Terse(e.out)
  PROVE  /\ Lands(e.out, chip, cmds, t, chip', cmds', line')
         /\ chip' \in AtChips /\ kind' = kind /\ ctx' = [e EXCEPT !.out = <<>>]
<1>1. /\ ctx' = [e EXCEPT !.out = <<>>] /\ kind' = kind
      /\ IF A!Pulsed(e)
         THEN cmds' = <<>> /\ chip' = A!Booted /\ line' = t \o A!BootLines
         ELSE cmds' = cmds \o e.out /\ chip' = chip /\ line' = t
  BY Zenon DEF A!Driver
<1>2. PICK o : o = e.out
  OBVIOUS
<1>3. A!Pulsed(e) <=> o = <<"PULSE">>
  <2>1. A!Pulsed(e) <=> \E i \in 1..Len(o) : o[i] = "PULSE"
    BY <1>2 DEF A!Pulsed
  <2>2. CASE o = <<>>
    BY <2>1, <2>2
  <2>3. CASE \E w : o = <<w>>
    <3>1. PICK w : o = <<w>>
      BY <2>3
    <3>2. Len(o) = 1 /\ o[1] = w
      BY <3>1
    <3>3. (\E i \in 1..Len(o) : o[i] = "PULSE") <=> w = "PULSE"
      BY <3>2
    <3>4. o = <<"PULSE">> => o[1] = "PULSE"
      OBVIOUS
    <3> QED BY <2>1, <3>1, <3>2, <3>3, <3>4
  <2> QED BY <1>2, <2>2, <2>3 DEF Terse
<1>4. PICK b : b = A!Booted
  OBVIOUS
<1>5. b \in AtChips /\ Set(b, FALSE, "down", FALSE, "none")
  BY <1>4 DEF A!Booted, A!ChipOff, AtChips, Set, A!None
<1>6. CASE A!Pulsed(e)
  BY <1>1, <1>2, <1>3, <1>4, <1>5, <1>6 DEF Lands
<1>7. CASE ~A!Pulsed(e)
  BY <1>1, <1>2, <1>3, <1>7 DEF Lands
<1> QED BY <1>6, <1>7

LEMMA SentAway ==
  ASSUME NEW e, Plain(e), NEW c, c = [e EXCEPT !.out = <<>>]
  PROVE  /\ Plain(c) /\ c.out = <<>> /\ c.state = e.state /\ c.nest = e.nest
         /\ c.lastCmd = e.lastCmd /\ c.before = e.before /\ c.beforeCmd = e.beforeCmd
BY DEF Plain, Fields

\* The relation of driver and modem, for one kind of thing that goes wrong.
OnItsWay(m) ==
    /\ Plain(ctx)
    /\ Stretch(ctx.state, ctx.nest, ctx.lastCmd, ctx.before, ctx.beforeCmd, chip, cmds, line, m)

LEMMA SameStretch ==
  ASSUME kind' = kind, NEW m
  PROVE  Stretch(ctx'.state, ctx'.nest, ctx'.lastCmd, ctx'.before, ctx'.beforeCmd,
                 chip', cmds', line', m)
           <=> Stretch(ctx.state, ctx.nest, ctx.lastCmd, ctx.before, ctx.beforeCmd,
                       chip, cmds, line, m)'
<1>1. Booting(ctx'.state, ctx'.nest, chip', cmds', line', m)
        <=> Booting(ctx.state, ctx.nest, chip, cmds, line, m)'
  BY DEF Booting, Noise, Bell
<1>2. Settling(ctx'.state, ctx'.nest, ctx'.lastCmd, ctx'.before, ctx'.beforeCmd,
               chip', cmds', line', m)
        <=> Settling(ctx.state, ctx.nest, ctx.lastCmd, ctx.before, ctx.beforeCmd,
                     chip, cmds, line, m)'
  BY DEF Settling, Turn, Ordered, Order
<1>3. Linking(ctx'.state, ctx'.nest, ctx'.lastCmd, chip', cmds', line', m)
        <=> Linking(ctx.state, ctx.nest, ctx.lastCmd, chip, cmds, line, m)'
  BY DEF Linking, Turn, Ordered, Order
<1>4. Stalled(ctx'.state, ctx'.nest, ctx'.before, ctx'.beforeCmd, chip', cmds', line', m)
        <=> Stalled(ctx.state, ctx.nest, ctx.before, ctx.beforeCmd, chip, cmds, line, m)'
  BY DEF Stalled, Order
<1>5. Connected(ctx'.state, ctx'.nest, ctx'.lastCmd, chip', cmds', line', m)
        <=> Connected(ctx.state, ctx.nest, ctx.lastCmd, chip, cmds, line, m)'
  BY DEF Connected, Order
<1>6. Careful(ctx'.state, ctx'.nest, chip', cmds', line', m)
        <=> Careful(ctx.state, ctx.nest, chip, cmds, line, m)'
  BY DEF Careful, Turn, Ordered, Order
<1> QED BY <1>1, <1>2, <1>3, <1>4, <1>5, <1>6 DEF Stretch

LEMMA DriverOnItsWay ==
  ASSUME IsAt, chip \in AtChips, NEW d, NEW t, NEW u, A!Driver(d, t, u), NEW m,
         NEW e, e = A!Told(d), Plain(e), Terse(e.out),
         \A g \in AtChips : \A j, i : Lands(e.out, chip, cmds, t, g, j, i) =>
           Stretch(e.state, e.nest, e.lastCmd, e.before, e.beforeCmd, g, j, i, m)
  PROVE  OnItsWay(m)'
<1>1. /\ Lands(e.out, chip, cmds, t, chip', cmds', line')
      /\ chip' \in AtChips /\ kind' = kind /\ ctx' = [e EXCEPT !.out = <<>>]
  BY DriverLands
<1>2. Stretch(e.state, e.nest, e.lastCmd, e.before, e.beforeCmd, chip', cmds', line', m)
  BY <1>1
<1>3. PICK c : c = ctx'
  OBVIOUS
<1>4. /\ Plain(c) /\ c.state = e.state /\ c.nest = e.nest
      /\ c.lastCmd = e.lastCmd /\ c.before = e.before /\ c.beforeCmd = e.beforeCmd
  BY <1>1, <1>3, SentAway
<1>5. Plain(ctx') /\ Stretch(ctx'.state, ctx'.nest, ctx'.lastCmd, ctx'.before, ctx'.beforeCmd,
                             chip', cmds', line', m)
  BY <1>2, <1>3, <1>4
<1>6. Stretch(ctx'.state, ctx'.nest, ctx'.lastCmd, ctx'.before, ctx'.beforeCmd,
              chip', cmds', line', m)
        <=> Stretch(ctx.state, ctx.nest, ctx.lastCmd, ctx.before, ctx.beforeCmd,
                    chip, cmds, line, m)'
  BY <1>1, SameStretch
<1> QED BY <1>5, <1>6 DEF OnItsWay

LEMMA HearOnItsWay ==
  ASSUME IsAt, NEW m \in Scope, chip \in AtChips, ctx.out = <<>>, cmds \in Seq(Sends),
         OnItsWay(m), A!Hear
  PROVE  OnItsWay(m)'
<1>1. PICK w, d, e : w = Head(line) /\ d = A!Process(ctx, w) /\ e = A!Told(d)
  OBVIOUS
<1>2. line # <<>> /\ A!Driver(d, Tail(line), A!UpTold(d)) /\ Plain(ctx)
      /\ Stretch(ctx.state, ctx.nest, ctx.lastCmd, ctx.before, ctx.beforeCmd, chip, cmds, line, m)
  BY <1>1 DEF A!Hear, OnItsWay
<1>3. w \in Voices
  BY <1>1, <1>2, ItsVoice
<1>4. Heeds(ctx, Head(line), e)
  BY <1>1, <1>2, <1>3, ItHeeds
<1>5. Kin(e, ctx)
  BY <1>2, <1>4, HeedsAsKin
<1>6. \A g \in AtChips : \A j, i : Lands(e.out, chip, cmds, Tail(line), g, j, i) =>
           Stretch(e.state, e.nest, e.lastCmd, e.before, e.beforeCmd, g, j, i, m)
  BY <1>2, <1>4, HearsStretch
<1> QED BY <1>1, <1>2, <1>5, <1>6, DriverOnItsWay DEF Kin

-----------------------------------------------------------------------------
(* No answer comes: the driver's timeout.                                  *)

Asked(e, c, s) ==
    /\ Plain(e) /\ e.before = c.state /\ e.beforeCmd = c.lastCmd
    /\ e.state = s /\ e.nest = c.nest /\ e.lastCmd = "AT+CWSTATE?"
    /\ e.out = Append(c.out, "AT+CWSTATE?")
Brokering == {"MQTT_WAIT_USR_CONF", "MQTT_WAIT_CONF"} \cup Linked \cup Publishing
TimerTurns(c, e) ==
    /\ kind = "wifi" =>
         /\ c.state \in Retried => Asked(e, c, "TIMEDOUT_WIFI_WAIT_STATE")
         /\ c.state \in Brokering => Asked(e, c, "TIMEDOUT_MQTT_WAIT_WIFI_STATE")
         /\ c.state = "WIFI_FAIL_CONNECT" => Restarted(e, c)
         /\ c.state \notin Retried \cup Brokering \cup {"WIFI_FAIL_CONNECT"} => Pulsed(e, c)
    /\ kind = "poe" =>
         /\ c.state = "OFF" => Spoke(e, c, "AT+RST", "OFF")
         /\ c.state \in Brokering => Spoke(e, c, "AT+MQTTCONN?", "TIMEDOUT_WAIT_MQTT_STATE")
         /\ c.state \notin Brokering \cup {"OFF"} => Restarted(e, c)

LEMMA ItAsks ==
  ASSUME NEW c, Plain(c), NEW s
  PROVE  Asked(A!Told(A!W!TimedoutStartWifiStatus(c, s)), c, s)
<1>1. PICK b : b = A!W!SayAndWait(c, "AT+CWSTATE?", s)
  OBVIOUS
<1>2. Spoke(b, c, "AT+CWSTATE?", s)
  BY <1>1, ItSpeaks
<1>3. PICK d : d = [b EXCEPT !.beforeCmd = c.lastCmd, !.before = c.state]
  OBVIOUS
<1>4. Asked(d, c, s)
  BY <1>2, <1>3 DEF Asked, Spoke, Did, Plain, Fields
<1>5. d = A!W!TimedoutStartWifiStatus(c, s)
  BY <1>1, <1>3, Zenon DEF A!W!TimedoutStartWifiStatus
<1>6. PICK a : a = [d EXCEPT !.ack = A!None]
  OBVIOUS
<1>7. Asked(a, c, s)
  BY <1>4, <1>6 DEF Asked, Plain, Fields, A!None
<1>8. d.ack # "ack"
  BY <1>4 DEF Asked, Plain
<1>9. A!Told(d) = a
  BY <1>6, <1>8 DEF A!Told
<1> QED BY <1>5, <1>7, <1>9

\* ... also if a publication was given up before.
LEMMA RefusedAlike ==
  ASSUME NEW c, Plain(c), NEW d, d = [c EXCEPT !.ack = "nack"], NEW e
  PROVE  /\ \A s : Asked(e, d, s) => Asked(e, c, s)
         /\ \A v, s : Spoke(e, d, v, s) => Spoke(e, c, v, s)
<1>1. /\ d.state = c.state /\ d.nest = c.nest /\ d.out = c.out /\ d.lastCmd = c.lastCmd
      /\ d.before = c.before /\ d.beforeCmd = c.beforeCmd
  BY ItIsRefused
<1> QED BY <1>1 DEF Asked, Spoke, Did

LEMMA TimerTold ==
  ASSUME NEW c, NEW e
  PROVE  /\ Restarted(e, c) => Restarted(A!Told(e), c)
         /\ Pulsed(e, c) => Pulsed(A!Told(e), c)
         /\ \A v, s : Spoke(e, c, v, s) => Spoke(A!Told(e), c, v, s)
<1>1. \A s, n, x, o : Did(e, c, s, n, x, o) => Did(A!Told(e), c, s, n, x, o)
  BY ItIsTold
<1> QED BY <1>1, Zenon DEF Restarted, Pulsed, Spoke

LEMMA WifiTimer ==
  ASSUME NEW c, Plain(c), kind = "wifi"
  PROVE  TimerTurns(c, A!Told(A!W!Timeout(c)))
<1>1. PICK f, e : f = A!W!Timeout(c) /\ e = A!Told(f)
  OBVIOUS
<1>2. A!W!WifiStates = Retried /\ A!W!MqttStates = Brokering
  BY DEF A!W!WifiStates, Retried, A!W!MqttStates, Brokering, Linked, Publishing
<1>3. c.state \in Retried => Asked(e, c, "TIMEDOUT_WIFI_WAIT_STATE")
  <2> HAVE c.state \in Retried
  <2>1. f = A!W!TimedoutStartWifiStatus(c, "TIMEDOUT_WIFI_WAIT_STATE")
    <3>1. /\ c.state \notin {"OFF", "RESTORE"} /\ c.state \in A!W!WifiStates
          /\ c.state \notin A!W!MqttStates /\ c.state # "WIFI_FAIL_CONNECT"
      BY <1>2 DEF Retried, Brokering, Linked, Publishing
    <3> QED BY <1>1, <3>1, Zenon DEF A!W!Timeout
  <2> QED BY <1>1, <2>1, ItAsks
<1>4. c.state \in Brokering => Asked(e, c, "TIMEDOUT_MQTT_WAIT_WIFI_STATE")
  <2> HAVE c.state \in Brokering
  <2>1. PICK d : d = [c EXCEPT !.ack = "nack"]
    OBVIOUS
  <2>2. PICK b : b = IF c.state = "MQTT_PUBLISHING" THEN d ELSE c
    OBVIOUS
  <2>3. f = A!W!TimedoutStartWifiStatus(b, "TIMEDOUT_MQTT_WAIT_WIFI_STATE")
    <3>1. /\ c.state \notin {"OFF", "RESTORE"} /\ c.state \notin A!W!WifiStates
          /\ c.state \in A!W!MqttStates /\ c.state # "WIFI_FAIL_CONNECT"
      BY <1>2 DEF Brokering, Retried, Linked, Publishing
    <3>2. f = A!W!CheckMqttTimeout(c)
      BY <1>1, <3>1, Zenon DEF A!W!Timeout
    <3>3. A!W!SentAck(c, FALSE) = d
      BY <2>1 DEF A!W!SentAck
    <3> QED BY <2>2, <3>2, <3>3 DEF A!W!CheckMqttTimeout
  <2>4. Plain(b)
    BY <2>1, <2>2, ItIsRefused
  <2>5. Asked(e, b, "TIMEDOUT_MQTT_WAIT_WIFI_STATE")
    BY <1>1, <2>3, <2>4, ItAsks
  <2> QED BY <2>1, <2>2, <2>5, RefusedAlike
<1>5. c.state = "WIFI_FAIL_CONNECT" => Restarted(e, c)
  <2> HAVE c.state = "WIFI_FAIL_CONNECT"
  <2>1. f = A!W!Reset(c)
    <3>1. c.state \notin {"OFF", "RESTORE"} \cup A!W!WifiStates \cup A!W!MqttStates
      BY DEF A!W!WifiStates, A!W!MqttStates
    <3> QED BY <1>1, <3>1, Zenon DEF A!W!Timeout
  <2>2. Restarted(A!W!Reset(c), c)
    BY WifiSpeaks
  <2> QED BY <1>1, <2>1, <2>2, TimerTold
<1>6. c.state \notin Retried \cup Brokering \cup {"WIFI_FAIL_CONNECT"} => Pulsed(e, c)
  <2> HAVE c.state \notin Retried \cup Brokering \cup {"WIFI_FAIL_CONNECT"}
  <2>1. f = A!W!HwReset(c)
    <3>1. c.state \notin A!W!WifiStates /\ c.state \notin A!W!MqttStates
          /\ c.state # "WIFI_FAIL_CONNECT"
      BY <1>2
    <3> QED BY <1>1, <3>1, Zenon DEF A!W!Timeout
  <2> QED BY <1>1, <2>1, ItPulses, TimerTold
<1> QED BY <1>1, <1>3, <1>4, <1>5, <1>6 DEF TimerTurns

LEMMA PoeTimer ==
  ASSUME NEW c, Plain(c), kind = "poe"
  PROVE  TimerTurns(c, A!Told(A!P!Timeout(c)))
<1>1. PICK f, e : f = A!P!Timeout(c) /\ e = A!Told(f)
  OBVIOUS
<1>2. A!P!MqttStates = Brokering
  BY DEF A!P!MqttStates, Brokering, Linked, Publishing
<1>3. c.state = "OFF" => Spoke(e, c, "AT+RST", "OFF")
  <2> HAVE c.state = "OFF"
  <2>1. f = A!P!SayAndWait(c, "AT+RST", "OFF")
    <3>1. c.state \notin A!P!MqttStates
      BY DEF A!P!MqttStates
    <3> QED BY <1>1, <3>1, Zenon DEF A!P!Timeout, A!P!Start
  <2> QED BY <1>1, <2>1, ItSpeaks, TimerTold
<1>4. c.state \in Brokering => Spoke(e, c, "AT+MQTTCONN?", "TIMEDOUT_WAIT_MQTT_STATE")
  <2> HAVE c.state \in Brokering
  <2>1. PICK d : d = [c EXCEPT !.ack = "nack"]
    OBVIOUS
  <2>2. PICK b : b = IF c.state = "MQTT_PUBLISHING" THEN d ELSE c
    OBVIOUS
  <2>3. f = A!P!SayAndWait(b, "AT+MQTTCONN?", "TIMEDOUT_WAIT_MQTT_STATE")
    <3>1. c.state # "OFF" /\ c.state \in A!P!MqttStates
      BY <1>2 DEF Brokering, Linked, Publishing
    <3>2. f = A!P!CheckMqttTimeout(c)
      BY <1>1, <3>1, Zenon DEF A!P!Timeout
    <3>3. A!P!SentAck(c, FALSE) = d
      BY <2>1 DEF A!P!SentAck
    <3> QED BY <2>2, <3>2, <3>3 DEF A!P!CheckMqttTimeout
  <2>4. Plain(b)
    BY <2>1, <2>2, ItIsRefused
  <2>5. Spoke(e, b, "AT+MQTTCONN?", "TIMEDOUT_WAIT_MQTT_STATE")
    BY <1>1, <2>3, <2>4, ItSpeaks, TimerTold
  <2> QED BY <2>1, <2>2, <2>5, RefusedAlike
<1>5. c.state \notin Brokering \cup {"OFF"} => Restarted(e, c)
  <2> HAVE c.state \notin Brokering \cup {"OFF"}
  <2>1. f = A!P!Reset(c)
    <3>1. c.state # "OFF" /\ c.state \notin A!P!MqttStates
      BY <1>2
    <3> QED BY <1>1, <3>1, Zenon DEF A!P!Timeout
  <2>2. Restarted(A!P!Reset(c), c)
    BY PoeSpeaks
  <2> QED BY <1>1, <2>1, <2>2, TimerTold
<1> QED BY <1>1, <1>3, <1>4, <1>5 DEF TimerTurns

LEMMA ItTimesOut ==
  ASSUME NEW c, Plain(c), IsAt
  PROVE  TimerTurns(c, A!Told(A!Timeout(c)))
<1>1. CASE kind = "wifi"
  <2>1. A!Timeout(c) = A!W!Timeout(c)
    BY <1>1, Zenon DEF A!Timeout
  <2> QED BY <1>1, <2>1, WifiTimer
<1>2. CASE kind = "poe"
  <2>1. A!Timeout(c) = A!P!Timeout(c)
    BY <1>2 DEF A!Timeout
  <2> QED BY <1>2, <2>1, PoeTimer
<1> QED BY <1>1, <1>2 DEF IsAt

-----------------------------------------------------------------------------
\* Where driver and modem may be when neither has anything to say.
LEMMA QuietStretch ==
  ASSUME IsAt, NEW m \in Scope, NEW s, NEW x, NEW p, NEW y, NEW h, NEW k, NEW l, Silent(k, l),
         Stretch(s, <<>>, x, p, y, h, k, l, m)
  PROVE  /\ s \in Retried =>
              m = "lose" /\ Unconfigured(h) /\ x = Order(s) /\ (s \in Alone => ~h.joined)
         /\ s \in Brokering =>
              /\ m = "lose"
              /\ \/ h.mqtt # "up"
                 \/ s \in Linked /\ x = Order(s) /\ h.raw = "none"
                    /\ (s # "MQTT_CONNECTING" => h.sub)
                 \/ s \in Publishing /\ x \in Pubs /\ h.sub
<1>1. k = <<>> /\ l = <<>> /\ (\A a : <<a>> # <<>>) /\ ~Ordered(s, k, l) /\ ~Failed(k, l, m)
      /\ \A S, V : ~Ends(k, S, V) /\ ~Ends(l, S, V)
  BY DEF Silent, Ordered, Failed, Ends
<1>2. ~(l \in Parts(s))
  BY <1>1, PartsShorter
<1>3. Turn(s, k, l, m) => m = "lose"
  BY <1>1, <1>2 DEF Turn
<1>4. CASE s \in Retried
  <2>1. Settling(s, <<>>, x, p, y, h, k, l, m)
    BY <1>4 DEF Stretch, Booting, Linking, Stalled, Connected, Careful, Retried, Asking, Linked,
       Publishing
  <2>2. m = "lose"
    BY <1>1, <1>3, <1>4, <2>1 DEF Settling, Retried
  <2>3. s \notin Brokering
    BY <1>4 DEF Retried, Brokering, Linked, Publishing
  <2> QED BY <1>4, <2>1, <2>2, <2>3 DEF Settling
<1>5. CASE s \in Brokering
  <2>1. s \notin Retried
    BY <1>5 DEF Retried, Brokering, Linked, Publishing
  <2>2. \/ Linking(s, <<>>, x, h, k, l, m) \/ Connected(s, <<>>, x, h, k, l, m)
        \/ Careful(s, <<>>, h, k, l, m)
    BY <1>5 DEF Stretch, Booting, Settling, Alone, Stalled, Asking, Brokering, Linked, Publishing
  <2>3. CASE Linking(s, <<>>, x, h, k, l, m)
    <3>1. m = "lose" /\ h.mqtt # "up"
      BY <1>1, <1>3, <2>3 DEF Linking
    <3> QED BY <2>1, <3>1
  <2>4. CASE Connected(s, <<>>, x, h, k, l, m)
    <3>1. /\ m = "lose" /\ h.mqtt = "up"
          /\ \/ s \in Linked /\ Bare(h, k) /\ x = Order(s)
             \/ s \in Publishing /\ x \in Pubs
          /\ s # "MQTT_CONNECTING" => Subscribes(h, k)
      BY <1>5, <2>4 DEF Connected, Brokering, Linked, Publishing
    <3>2. Subscribes(h, k) => h.sub
      <4>1. \A i \in 1..Len(k) : FALSE
        BY <1>1
      <4> QED BY <4>1 DEF Subscribes
    <3>3. s \in Publishing => s # "MQTT_CONNECTING"
      BY DEF Publishing
    <3> QED BY <2>1, <3>1, <3>2, <3>3 DEF Bare
  <2>5. CASE Careful(s, <<>>, h, k, l, m)
    <3>1. m = "error"
      BY <2>5 DEF Careful
    <3>2. s \in Linked \cup Publishing
      BY <1>5, <2>5 DEF Careful, Brokering, Linked, Publishing
    <3> QED BY <1>1, <1>3, <2>5, <3>1, <3>2 DEF Careful, Linked, Publishing
  <2> QED BY <2>2, <2>3, <2>4, <2>5
<1> QED BY <1>4, <1>5

\* The modem of the PoE driver is started.
LEMMA StartsBoot ==
  ASSUME NEW m \in Scope, NEW c, c.out = <<>>, c.nest = <<>>, NEW e, NEW h,
         NEW k \in Seq(Sends), k = <<>>, NEW g, NEW j, NEW i, Lands(e.out, h, k, <<>>, g, j, i),
         Spoke(e, c, "AT+RST", "OFF")
  PROVE  Booting(e.state, e.nest, g, j, i, m)
<1>1. PICK w, s, t : w = "AT+RST" /\ s = "OFF" /\ t = <<>>
  OBVIOUS
<1>2. w # "PULSE" /\ Spoke(e, c, w, s) /\ Lands(e.out, h, k, t, g, j, i)
  BY <1>1
<1>3. SentOn(e, s, c.nest, w, w, h, k, t, g, j, i)
  BY <1>2, ItSends, Zenon
<1>4. e.state = "OFF" /\ e.nest = <<>> /\ j = <<w>> /\ i = <<>> /\ w \in Restarts
  BY <1>1, <1>3 DEF SentOn, Restarts
<1>5. Ends(j, Questions, Restarts) /\ i \in Seq(Noise)
  BY <1>4, EndsOne, InOrder
<1> QED BY <1>4, <1>5 DEF Booting, Scope

LEMMA TimesOut ==
  ASSUME IsAt, NEW m \in Scope, NEW c, c.out = <<>>, c.nest = <<>>, NEW h \in AtChips,
         NEW k \in Seq(Sends), NEW l, Silent(k, l),
         Stretch(c.state, c.nest, c.lastCmd, c.before, c.beforeCmd, h, k, l, m),
         NEW e, TimerTurns(c, e),
         NEW g \in AtChips, NEW j, NEW i, Lands(e.out, h, k, l, g, j, i)
  PROVE  Stretch(e.state, e.nest, e.lastCmd, e.before, e.beforeCmd, g, j, i, m)
<1>1. k = <<>> /\ l = <<>> /\ (\A S : <<>> \in Seq(S)) /\ Lands(e.out, h, k, <<>>, g, j, i)
  BY DEF Silent
<1>2. Stretch(c.state, <<>>, c.lastCmd, c.before, c.beforeCmd, h, k, l, m)
  OBVIOUS
<1>3. /\ c.state \in Retried =>
           /\ m = "lose" /\ Unconfigured(h) /\ c.lastCmd = Order(c.state)
           /\ c.state \in Alone => ~h.joined
      /\ c.state \in Brokering =>
              /\ m = "lose"
              /\ \/ h.mqtt # "up"
                 \/ c.state \in Linked /\ c.lastCmd = Order(c.state) /\ h.raw = "none"
                    /\ (c.state # "MQTT_CONNECTING" => h.sub)
                 \/ c.state \in Publishing /\ c.lastCmd \in Pubs /\ h.sub
  BY <1>2, QuietStretch
<1>4. Restarted(e, c) => Booting(e.state, e.nest, g, j, i, m)
  BY <1>1, RestartsBoot
<1>5. \A s : Asked(e, c, s) =>
        /\ e.state = s /\ e.nest = <<>> /\ e.before = c.state /\ e.beforeCmd = c.lastCmd
        /\ j = <<"AT+CWSTATE?">> /\ i = <<>> /\ g = h
  <2> TAKE s
  <2> HAVE Asked(e, c, s)
  <2>1. PICK w, o : w = "AT+CWSTATE?" /\ o = e.out
    OBVIOUS
  <2>2. o = Append(<<>>, w) /\ w # "PULSE"
    BY <2>1 DEF Asked
  <2>3. o = <<w>> /\ o # <<"PULSE">> /\ <<>> \o o = o /\ Lands(o, h, k, <<>>, g, j, i)
    BY <1>1, <2>1, <2>2, WordIsSent
  <2>4. j = <<w>> /\ i = <<>> /\ g = h
    BY <1>1, <2>3 DEF Lands
  <2> QED BY <2>1, <2>4 DEF Asked
<1>6. CASE kind = "wifi"
  <2>1. kind # "poe"
    BY <1>6
  <2>2. Pulsed(e, c) => Booting(e.state, e.nest, g, j, i, m)
    BY <1>1, <1>6, PulseBoots
  <2>3. CASE c.state \in Retried
    <3>1. Asked(e, c, "TIMEDOUT_WIFI_WAIT_STATE")
      BY <1>6, <2>3 DEF TimerTurns
    <3>2. /\ e.state = "TIMEDOUT_WIFI_WAIT_STATE" /\ e.nest = <<>>
          /\ e.before = c.state /\ e.beforeCmd = c.lastCmd
          /\ j = <<"AT+CWSTATE?">> /\ i = <<>> /\ g = h
      BY <1>5, <3>1
    <3>3. j \in Seq({"AT+CWSTATE?"}) /\ i \in Seq(CwTalk) /\ i \in Seq(CwTalk \ {"+CWSTATE up"})
      BY <1>1, <3>2, InOrder
    <3>4. "TIMEDOUT_WIFI_WAIT_STATE" \notin Alone \cup Retried
      BY DEF Alone, Retried
    <3>5. c.state \in {"WIFI_CONNECTING", "SNTP_WAIT_SET"} \/ c.state \in Alone
      BY <2>3 DEF Retried, Alone
    <3>6. Settling(e.state, e.nest, e.lastCmd, e.before, e.beforeCmd, g, j, i, m)
      BY <1>3, <2>1, <2>3, <3>2, <3>3, <3>4, <3>5 DEF Settling
    <3> QED BY <2>1, <3>6 DEF Stretch
  <2>4. CASE c.state \in Brokering
    <3>1. Asked(e, c, "TIMEDOUT_MQTT_WAIT_WIFI_STATE")
      BY <1>6, <2>4 DEF TimerTurns
    <3>2. /\ e.state = "TIMEDOUT_MQTT_WAIT_WIFI_STATE" /\ e.nest = <<>>
          /\ e.before = c.state /\ e.beforeCmd = c.lastCmd
          /\ j = <<"AT+CWSTATE?">> /\ i = <<>> /\ g = h
      BY <1>5, <3>1
    <3>3. /\ j \in Seq({"AT+CWSTATE?", "AT+MQTTCONN?"}) /\ i \in Seq(StallTalk)
          /\ i \in Seq(StallTalk \ {"+MQTTCONN up"})
      BY <1>1, <3>2, InOrder
    <3>4. e.state \in Asking /\ e.state # "TIMEDOUT_WAIT_MQTT_STATE"
      BY <3>2 DEF Asking
    <3>5. Stalled(e.state, e.nest, e.before, e.beforeCmd, g, j, i, m)
      BY <1>3, <2>1, <2>4, <3>2, <3>3, <3>4 DEF Stalled
    <3> QED BY <2>1, <3>5 DEF Stretch
  <2>5. CASE c.state \notin Retried \cup Brokering
    <3>1. Restarted(e, c) \/ Pulsed(e, c)
      BY <1>6, <2>5 DEF TimerTurns
    <3> QED BY <1>4, <2>1, <2>2, <3>1 DEF Stretch
  <2> QED BY <2>3, <2>4, <2>5
<1>7. CASE kind = "poe"
  <2>1. c.beforeCmd = "none" /\ c.before = "OFF"
    BY <1>7 DEF Stretch
  <2>2. e.beforeCmd = "none" /\ e.before = "OFF"
    <3>1. (\E v, s : Spoke(e, c, v, s)) \/ Restarted(e, c)
      BY <1>7 DEF TimerTurns
    <3> QED BY <2>1, <3>1 DEF Restarted, Spoke, Did
  <2>3. CASE c.state = "OFF"
    <3>1. Spoke(e, c, "AT+RST", "OFF")
      BY <1>7, <2>3 DEF TimerTurns
    <3>2. Booting(e.state, e.nest, g, j, i, m)
      BY <1>1, <3>1, StartsBoot
    <3> QED BY <2>2, <3>2 DEF Stretch
  <2>4. CASE c.state \in Brokering
    <3>1. PICK w, s, t : w = "AT+MQTTCONN?" /\ s = "TIMEDOUT_WAIT_MQTT_STATE" /\ t = <<>>
      OBVIOUS
    <3>2. Spoke(e, c, w, s) /\ w # "PULSE" /\ Lands(e.out, h, k, t, g, j, i)
      BY <1>1, <1>7, <2>4, <3>1 DEF TimerTurns
    <3>3. SentOn(e, s, c.nest, w, w, h, k, t, g, j, i)
      BY <3>2, ItSends, Zenon
    <3>4. e.state = s /\ e.nest = <<>> /\ j = <<w>> /\ i = <<>> /\ g = h
      BY <1>1, <3>1, <3>3 DEF SentOn
    <3>5. /\ j \in Seq({"AT+CWSTATE?", "AT+MQTTCONN?"}) /\ i \in Seq(StallTalk)
          /\ i \in Seq(StallTalk \ {"+MQTTCONN up"})
      BY <1>1, <3>1, <3>4, InOrder
    <3>6. e.state \in Asking /\ e.state = "TIMEDOUT_WAIT_MQTT_STATE"
      BY <3>1, <3>4 DEF Asking
    <3>7. Stalled(e.state, e.nest, e.before, e.beforeCmd, g, j, i, m)
      BY <1>3, <1>7, <2>4, <3>4, <3>5, <3>6 DEF Stalled
    <3> QED BY <2>2, <3>7 DEF Stretch
  <2>5. CASE c.state \notin Brokering \cup {"OFF"}
    <3>1. Restarted(e, c)
      BY <1>7, <2>5 DEF TimerTurns
    <3> QED BY <1>4, <2>2, <3>1 DEF Stretch
  <2> QED BY <2>3, <2>4, <2>5
<1> QED BY <1>6, <1>7 DEF IsAt

LEMMA NotLate ==
  ASSUME NEW m \in Scope, faults'.had \subseteq {m}
  PROVE  ~A!Fault("late")
<1>1. "late" # m
  BY DEF Scope
<1>2. A!Fault("late") => "late" \in faults'.had
  BY DEF A!Fault
<1> QED BY <1>1, <1>2

LEMMA TimerOnItsWay ==
  ASSUME IsAt, NEW m \in Scope, chip \in AtChips, ctx.out = <<>>, cmds \in Seq(Sends),
         OnItsWay(m), A!TimerFires, faults'.had \subseteq {m}
  PROVE  OnItsWay(m)'
<1>1. PICK d, e : d = A!Timeout(ctx) /\ e = A!Told(d)
  OBVIOUS
<1>2. ~A!Fault("late")
  BY NotLate
<1>3. /\ ctx.nest = <<>> /\ A!Driver(d, line, A!UpTold(d)) /\ Plain(ctx) /\ Silent(cmds, line)
      /\ Stretch(ctx.state, ctx.nest, ctx.lastCmd, ctx.before, ctx.beforeCmd, chip, cmds, line, m)
  BY <1>1, <1>2 DEF A!TimerFires, OnItsWay, A!Quiet, Silent
<1>4. TimerTurns(ctx, e)
  BY <1>1, <1>3, ItTimesOut
<1>5. Plain(e) /\ Terse(e.out)
  <2>1. \A s : Asked(e, ctx, s) => Plain(e) /\ Terse(e.out)
    <3>1. Append(<<>>, "AT+CWSTATE?") = <<"AT+CWSTATE?">>
      OBVIOUS
    <3> QED BY <3>1 DEF Asked, Terse
  <2>2. /\ Pulsed(e, ctx) => Kin(e, ctx)
        /\ \A v, s : Spoke(e, ctx, v, s) => Kin(e, ctx)
        /\ Restarted(e, ctx) => Kin(e, ctx)
    BY DidIsKin
  <2>3. \/ \E s : Asked(e, ctx, s)
        \/ \E v, s : Spoke(e, ctx, v, s)
        \/ Pulsed(e, ctx) \/ Restarted(e, ctx)
    BY <1>4 DEF TimerTurns, IsAt
  <2> QED BY <2>1, <2>2, <2>3 DEF Kin
<1>6. \A g \in AtChips : \A j, i : Lands(e.out, chip, cmds, line, g, j, i) =>
           Stretch(e.state, e.nest, e.lastCmd, e.before, e.beforeCmd, g, j, i, m)
  BY <1>3, <1>4, TimesOut
<1> QED BY <1>1, <1>3, <1>5, <1>6, DriverOnItsWay

-----------------------------------------------------------------------------
(* A handler that slept goes on.                                           *)

\* The context b is c with its innermost handler back.
Back(b, c) ==
    /\ Plain(b) /\ b.state = c.state /\ b.lastCmd = c.lastCmd /\ b.out = c.out
    /\ b.before = c.before /\ b.beforeCmd = c.beforeCmd
    /\ b.nest = SubSeq(c.nest, 1, Len(c.nest) - 1)
Revives(e, b, r) ==
    /\ kind = "wifi" =>
         /\ r = "rf" => Spoke(e, b, "AT+CWMODE", "WIFI_SETTING_MODE")
         /\ r = "init" => Spoke(e, b, "AT+CWJAP", "WIFI_CONNECTING")
         /\ r = "sntp" => Spoke(e, b, "AT+MQTTUSERCFG", "MQTT_WAIT_USR_CONF")
    /\ r = "conf" => Spoke(e, b, "AT+MQTTCONN", "MQTT_CONNECTING")
    /\ r = "connecting" => Spoke(e, b, "AT+MQTTSUB", "MQTT_WAIT_SUB")

LEMMA BringsBack ==
  ASSUME NEW c, Plain(c)
  PROVE  /\ Back(A!W!Return(c), c) /\ Back(A!P!Return(c), c) /\ Back(A!Return(c), c)
<1>1. PICK q : q = SubSeq(c.nest, 1, Len(c.nest) - 1)
  OBVIOUS
<1>2. PICK b : b = [c EXCEPT !.nest = q]
  OBVIOUS
<1>3. Back(b, c)
  BY <1>1, <1>2 DEF Back, Plain, Fields
<1>4. A!W!Return(c) = b /\ A!P!Return(c) = b /\ A!Return(c) = b
  BY <1>1, <1>2 DEF A!W!Return, A!P!Return, A!Return
<1> QED BY <1>3, <1>4

LEMMA WifiRevives ==
  ASSUME NEW c, Plain(c), kind = "wifi", NEW b, b = A!W!Return(c)
  PROVE  Revives(A!Told(A!W!AfterSleep(c)), b, A!W!Innermost(c))
<1>1. PICK r, d : r = A!W!Innermost(c) /\ d = A!W!AfterSleep(c)
  OBVIOUS
<1>2. Plain(b)
  BY BringsBack DEF Back
<1>3. \A w, s : Spoke(A!W!SayAndWait(b, w, s), b, w, s)
  BY <1>2, ItSpeaks
<1>4. ASSUME r = "rf" PROVE Spoke(d, b, "AT+CWMODE", "WIFI_SETTING_MODE")
  <2>1. d = A!W!AfterRfRegion(b)
    BY <1>1, <1>4, Zenon DEF A!W!AfterSleep
  <2> QED BY <1>3, <2>1, Zenon DEF A!W!AfterRfRegion
<1>5. ASSUME r = "init" PROVE Spoke(d, b, "AT+CWJAP", "WIFI_CONNECTING")
  <2>1. r # "rf"
    BY <1>5
  <2>2. d = A!W!AfterWifiInit(b)
    BY <1>1, <1>5, <2>1, Zenon DEF A!W!AfterSleep
  <2> QED BY <1>3, <2>2, Zenon DEF A!W!AfterWifiInit
<1>6. ASSUME r = "sntp" PROVE Spoke(d, b, "AT+MQTTUSERCFG", "MQTT_WAIT_USR_CONF")
  <2>1. r # "rf" /\ r # "init"
    BY <1>6
  <2>2. d = A!W!DoMqttUserConf(b)
    BY <1>1, <1>6, <2>1, Zenon DEF A!W!AfterSleep
  <2> QED BY <1>3, <2>2, Zenon DEF A!W!DoMqttUserConf, A!W!UserCfg
<1>7. ASSUME r = "conf" PROVE Spoke(d, b, "AT+MQTTCONN", "MQTT_CONNECTING")
  <2>1. r # "rf" /\ r # "init" /\ r # "sntp"
    BY <1>7
  <2>2. d = A!W!AfterWaitConf(b)
    BY <1>1, <1>7, <2>1, Zenon DEF A!W!AfterSleep
  <2> QED BY <1>3, <2>2, Zenon DEF A!W!AfterWaitConf, A!W!MqttConn
<1>8. ASSUME r = "connecting" PROVE Spoke(d, b, "AT+MQTTSUB", "MQTT_WAIT_SUB")
  <2>1. r # "rf" /\ r # "init" /\ r # "sntp" /\ r # "conf"
    BY <1>8
  <2>2. d = A!W!DoMqttSub(b)
    BY <1>1, <1>8, <2>1, Zenon DEF A!W!AfterSleep
  <2> QED BY <1>3, <2>2, Zenon DEF A!W!DoMqttSub, A!W!SubCfg
<1>9. \A v, s : Spoke(d, b, v, s) => Spoke(A!Told(d), b, v, s)
  BY TimerTold
<1> QED BY <1>1, <1>4, <1>5, <1>6, <1>7, <1>8, <1>9 DEF Revives

LEMMA PoeRevives ==
  ASSUME NEW c, Plain(c), kind = "poe", NEW b, b = A!P!Return(c)
  PROVE  Revives(A!Told(A!P!AfterSleep(c)), b, A!P!Innermost(c))
<1>1. PICK r, d : r = A!P!Innermost(c) /\ d = A!P!AfterSleep(c)
  OBVIOUS
<1>2. Plain(b)
  BY BringsBack DEF Back
<1>3. \A w, s : Spoke(A!P!SayAndWait(b, w, s), b, w, s)
  BY <1>2, ItSpeaks
<1>4. ASSUME r = "conf" PROVE Spoke(d, b, "AT+MQTTCONN", "MQTT_CONNECTING")
  <2>1. d = A!P!AfterWaitConf(b)
    BY <1>1, <1>4, Zenon DEF A!P!AfterSleep
  <2> QED BY <1>3, <2>1, Zenon DEF A!P!AfterWaitConf, A!P!MqttConn
<1>5. ASSUME r = "connecting" PROVE Spoke(d, b, "AT+MQTTSUB", "MQTT_WAIT_SUB")
  <2>1. r # "conf"
    BY <1>5
  <2>2. d = A!P!DoMqttSub(b)
    BY <1>1, <2>1, Zenon DEF A!P!AfterSleep
  <2> QED BY <1>3, <2>2, Zenon DEF A!P!DoMqttSub, A!P!SubCfg
<1>6. \A v, s : Spoke(d, b, v, s) => Spoke(A!Told(d), b, v, s)
  BY TimerTold
<1>7. kind # "wifi"
  OBVIOUS
<1> QED BY <1>1, <1>4, <1>5, <1>6, <1>7 DEF Revives

LEMMA ItRevives ==
  ASSUME IsAt, NEW c, Plain(c)
  PROVE  \E b : /\ Back(b, c)
                /\ Revives(A!Told(A!AfterSleep(c)), b, c.nest[Len(c.nest)])
<1>1. CASE kind = "wifi"
  <2>1. PICK b : b = A!W!Return(c)
    OBVIOUS
  <2>2. Back(b, c) /\ Revives(A!Told(A!W!AfterSleep(c)), b, A!W!Innermost(c))
    BY <1>1, <2>1, BringsBack, WifiRevives
  <2>3. A!AfterSleep(c) = A!W!AfterSleep(c) /\ A!W!Innermost(c) = c.nest[Len(c.nest)]
    BY <1>1 DEF A!AfterSleep, A!W!Innermost
  <2> QED BY <2>2, <2>3, Zenon
<1>2. CASE kind = "poe"
  <2>1. PICK b : b = A!P!Return(c)
    OBVIOUS
  <2>2. Back(b, c) /\ Revives(A!Told(A!P!AfterSleep(c)), b, A!P!Innermost(c))
    BY <1>2, <2>1, BringsBack, PoeRevives
  <2>3. A!AfterSleep(c) = A!P!AfterSleep(c) /\ A!P!Innermost(c) = c.nest[Len(c.nest)]
    BY <1>2 DEF A!AfterSleep, A!P!Innermost
  <2> QED BY <2>2, <2>3, Zenon
<1> QED BY <1>1, <1>2 DEF IsAt

-----------------------------------------------------------------------------
LEMMA RevivesStretch ==
  ASSUME IsAt, NEW m \in Scope, NEW c, c.out = <<>>, c.nest # <<>>, NEW h \in AtChips,
         NEW k \in Seq(Sends), NEW l,
         Stretch(c.state, c.nest, c.lastCmd, c.before, c.beforeCmd, h, k, l, m),
         NEW r, r = c.nest[Len(c.nest)], r # "time",
         NEW b, Back(b, c), NEW e, Revives(e, b, r),
         NEW g \in AtChips, NEW j, NEW i, Lands(e.out, h, k, l, g, j, i)
  PROVE  Stretch(e.state, e.nest, e.lastCmd, e.before, e.beforeCmd, g, j, i, m)
<1>1. PICK n, q : n = c.nest /\ q = b.nest
  OBVIOUS
<1>2. /\ n # <<>> /\ r = n[Len(n)] /\ q = SubSeq(n, 1, Len(n) - 1)
      /\ b.out = <<>> /\ b.state = c.state /\ b.before = c.before /\ b.beforeCmd = c.beforeCmd
  BY <1>1 DEF Back
<1>3. \A a : n = <<a>> => r = a /\ q = <<>>
  BY <1>2
<1>4. Stretch(c.state, n, c.lastCmd, c.before, c.beforeCmd, h, k, l, m)
  BY <1>1
<1>5. kind = "poe" => b.beforeCmd = "none" /\ b.before = "OFF"
  BY <1>2, <1>4 DEF Stretch
<1>6. \A v, s : Spoke(e, b, v, s) => e.before = b.before /\ e.beforeCmd = b.beforeCmd
  BY DEF Spoke, Did
<1>7. ASSUME Settling(c.state, n, c.lastCmd, c.before, c.beforeCmd, h, k, l, m)
      PROVE  Stretch(e.state, e.nest, e.lastCmd, e.before, e.beforeCmd, g, j, i, m)
  <2>1. /\ Unconfigured(h) /\ k = <<>> /\ l = <<>>
        /\ kind = "poe" => c.state \in PoeSets
        /\ c.state \in Alone => ~h.joined
        /\ \/ c.state = "RF_REGION" /\ n = <<"rf">>
           \/ c.state = "WIFI_INIT" /\ n = <<"init">>
           \/ n = <<"sntp">> /\ kind = "wifi"
    BY <1>2, <1>7 DEF Settling, Silent
  <2>2. kind = "wifi"
    BY <2>1 DEF IsAt, PoeSets
  <2>3. CASE n = <<"rf">>
    <3>1. Spoke(e, b, "AT+CWMODE", "WIFI_SETTING_MODE") /\ q = <<>>
      BY <1>3, <2>2, <2>3 DEF Revives
    <3>2. Order("WIFI_SETTING_MODE") = "AT+CWMODE" /\ "WIFI_SETTING_MODE" \in Alone
          /\ c.state = "RF_REGION"
      BY <1>3, <2>1, <2>3 DEF Order, Alone
    <3>3. ~h.joined
      BY <2>1, <3>2 DEF Alone
    <3>4. PICK s : s = "WIFI_SETTING_MODE"
      OBVIOUS
    <3>5. s \in Alone /\ Spoke(e, b, Order(s), s) /\ kind # "poe"
      BY <2>2, <3>1, <3>2, <3>4
    <3>6. Settling(e.state, e.nest, e.lastCmd, e.before, e.beforeCmd, g, j, i, m)
      BY <1>1, <1>2, <2>1, <3>1, <3>3, <3>5, SetsOn
    <3> QED BY <1>5, <1>6, <3>5, <3>6 DEF Stretch
  <2>4. CASE n = <<"init">>
    <3>1. Spoke(e, b, "AT+CWJAP", "WIFI_CONNECTING") /\ q = <<>>
      BY <1>3, <2>2, <2>4 DEF Revives
    <3>2. Order("WIFI_CONNECTING") = "AT+CWJAP" /\ "WIFI_CONNECTING" \notin Alone
      BY DEF Order, Alone
    <3>3. PICK s : s = "WIFI_CONNECTING"
      OBVIOUS
    <3>4. s \notin Alone /\ Spoke(e, b, Order(s), s) /\ kind # "poe"
      BY <2>2, <3>1, <3>2, <3>3
    <3>5. Settling(e.state, e.nest, e.lastCmd, e.before, e.beforeCmd, g, j, i, m)
      BY <1>1, <1>2, <2>1, <3>1, <3>3, <3>4, SetsOn
    <3> QED BY <1>5, <1>6, <3>4, <3>5 DEF Stretch
  <2>5. CASE n = <<"sntp">>
    <3>1. Spoke(e, b, "AT+MQTTUSERCFG", "MQTT_WAIT_USR_CONF") /\ q = <<>>
      BY <1>3, <2>2, <2>5 DEF Revives
    <3>2. Order("MQTT_WAIT_USR_CONF") = "AT+MQTTUSERCFG" /\ kind # "poe"
      BY <2>2 DEF Order
    <3>3. PICK s : s = "MQTT_WAIT_USR_CONF"
      OBVIOUS
    <3>4. Spoke(e, b, Order(s), s)
      BY <3>1, <3>2, <3>3
    <3>5. Linking(e.state, e.nest, e.lastCmd, g, j, i, m)
      BY <1>1, <1>2, <2>1, <3>1, <3>3, <3>4, LinksOn DEF Unconfigured
    <3> QED BY <3>2, <3>5 DEF Stretch
  <2> QED BY <2>1, <2>3, <2>4, <2>5
<1>8. ASSUME Linking(c.state, n, c.lastCmd, h, k, l, m)
      PROVE  Stretch(e.state, e.nest, e.lastCmd, e.before, e.beforeCmd, g, j, i, m)
  <2>1. /\ ~h.sub /\ h.raw = "none" /\ h.mqtt = "conf" /\ k = <<>> /\ l = <<>> /\ n = <<"conf">>
    BY <1>2, <1>8 DEF Linking, Silent
  <2>2. Spoke(e, b, "AT+MQTTCONN", "MQTT_CONNECTING") /\ q = <<>>
    BY <1>3, <2>1 DEF Revives
  <2>3. Order("MQTT_CONNECTING") = "AT+MQTTCONN"
    BY DEF Order
  <2>4. PICK s : s = "MQTT_CONNECTING"
    OBVIOUS
  <2>5. Spoke(e, b, Order(s), s)
    BY <2>2, <2>3, <2>4
  <2>6. Linking(e.state, e.nest, e.lastCmd, g, j, i, m)
    BY <1>1, <1>2, <2>1, <2>2, <2>4, <2>5, LinksOn
  <2> QED BY <1>5, <1>6, <2>5, <2>6 DEF Stretch
<1>9. ASSUME r = "connecting"
      PROVE  SentOn(e, "MQTT_WAIT_SUB", q, "AT+MQTTSUB", "AT+MQTTSUB", h, k, l, g, j, i)
  <2>1. PICK v, s : v = "AT+MQTTSUB" /\ s = "MQTT_WAIT_SUB"
    OBVIOUS
  <2>2. v # "PULSE" /\ Spoke(e, b, v, s)
    BY <1>9, <2>1 DEF Revives
  <2>3. SentOn(e, s, b.nest, v, v, h, k, l, g, j, i)
    BY <1>2, <2>2, ItSends, Zenon
  <2> QED BY <1>1, <2>1, <2>3
<1>10. r = "connecting" => Spoke(e, b, "AT+MQTTSUB", "MQTT_WAIT_SUB")
  BY DEF Revives
<1>11. ASSUME Connected(c.state, n, c.lastCmd, h, k, l, m)
       PROVE  Stretch(e.state, e.nest, e.lastCmd, e.before, e.beforeCmd, g, j, i, m)
  <2>1. /\ m = "lose" /\ h.mqtt = "up" /\ k \in Seq(LateOrders) /\ l \in Seq(LateTalk)
        /\ n \in Seq({"connecting"}) /\ Bare(h, k)
    BY <1>2, <1>3, <1>11 DEF Connected
  <2>2. r = "connecting" /\ q \in Seq({"connecting"})
    <3>1. Len(n) \in 1..Len(n)
      BY <1>2, <2>1
    <3>2. r \in {"connecting"}
      BY <1>2, <2>1, <3>1
    <3> QED BY <1>2, <2>1, <3>2
  <2>3. PICK v : v = "AT+MQTTSUB"
    OBVIOUS
  <2>4. /\ e.state = "MQTT_WAIT_SUB" /\ e.nest = q /\ e.lastCmd = v
        /\ j = k \o <<v>> /\ i = l /\ g = h
    BY <1>9, <2>2, <2>3 DEF SentOn
  <2>5. v \notin Pubs /\ v \in LateOrders /\ Order("MQTT_WAIT_SUB") = v
    BY <2>3 DEF Pubs, LateOrders, Order
  <2>6. Bare(h, j) /\ Subscribes(h, j) /\ j \in Seq(LateOrders)
    BY <2>1, <2>3, <2>4, <2>5, StaysBare
  <2>7. Connected(e.state, e.nest, e.lastCmd, g, j, i, m)
    BY <2>1, <2>2, <2>4, <2>5, <2>6 DEF Connected, Linked
  <2> QED BY <1>5, <1>6, <1>10, <2>2, <2>7 DEF Stretch
<1>12. ASSUME Careful(c.state, n, h, k, l, m)
       PROVE  Stretch(e.state, e.nest, e.lastCmd, e.before, e.beforeCmd, g, j, i, m)
  <2>1. /\ m = "error" /\ h.mqtt = "up" /\ h.raw = "none" /\ ~h.sub
        /\ k = <<>> /\ l = <<>> /\ n = <<"connecting">>
    BY <1>2, <1>3, <1>12 DEF Careful, Silent
  <2>2. r = "connecting" /\ q = <<>>
    BY <1>3, <2>1
  <2>3. PICK v : v = "AT+MQTTSUB"
    OBVIOUS
  <2>4. /\ e.state = "MQTT_WAIT_SUB" /\ e.nest = <<>>
        /\ j = <<v>> /\ i = <<>> /\ g = h
    BY <1>9, <2>1, <2>2, <2>3 DEF SentOn
  <2>5. Order("MQTT_WAIT_SUB") = v /\ i # <<"OK">>
    BY <2>3, <2>4, ShortLists DEF Order
  <2>6. Turn("MQTT_WAIT_SUB", j, i, m)
    BY <2>4, <2>5 DEF Turn, Ordered
  <2>7. Careful(e.state, e.nest, g, j, i, m)
    BY <2>1, <2>4, <2>5, <2>6 DEF Careful
  <2> QED BY <1>5, <1>6, <1>10, <2>2, <2>7 DEF Stretch
<1> QED BY <1>2, <1>4, <1>7, <1>8, <1>11, <1>12 DEF Stretch, Booting, Stalled

-----------------------------------------------------------------------------
(* The wait for the time of a message is over.                             *)

Mails(e, b) == Spoke(e, b, "AT+MQTTPUBRAW meas", "MQTT_WAIT_PUB")
Dates(e, b) == Unmoved(e, b) \/ (b.state = "IDLE" /\ Mails(e, b))

LEMMA ItMails ==
  ASSUME NEW b, Plain(b), b.state = "IDLE"
  PROVE  Mails(A!Told(A!Publish(b, "meas")), b)
<1>1. PICK w, s : w = A!PubRaw("meas") /\ s = "MQTT_WAIT_PUB"
  OBVIOUS
<1>2. PICK d, e : d = A!SayAndWait(b, w, s) /\ e = [d EXCEPT !.packet = "meas"]
  OBVIOUS
<1>3. Spoke(d, b, w, s)
  BY <1>2, ItSpeaks
<1>4. Spoke(e, b, w, s)
  BY <1>2, <1>3, ItNotes DEF Spoke
<1>5. w = "AT+MQTTPUBRAW meas"
  BY <1>1 DEF A!PubRaw
<1>6. A!Publish(b, "meas") = e
  BY <1>1, <1>2, Zenon DEF A!Publish
<1>7. Spoke(A!Told(e), b, w, s)
  BY <1>4, TimerTold
<1> QED BY <1>1, <1>5, <1>6, <1>7 DEF Mails

LEMMA ItDates ==
  ASSUME Plain(ctx), ctx.state \in {"IDLE", "WAIT_TIMESTAMP"}, NEW more, A!MessageGoes(ctx, more)
  PROVE  \E b, d, u : Back(b, ctx) /\ A!Driver(d, line, u) /\ Dates(A!Told(d), b)
<1>1. PICK a : a = A!Return(ctx)
  OBVIOUS
<1>2. Back(a, ctx)
  BY <1>1, BringsBack
<1>3. PICK f : f = [a EXCEPT !.time = A!None]
  OBVIOUS
<1>4. Back(f, ctx)
  BY <1>2, <1>3 DEF Back, Plain, Fields
<1>5. PICK b : b = A!TimeDone(ctx)
  OBVIOUS
<1>6. b = a \/ b = f
  BY <1>1, <1>3, <1>5, Zenon DEF A!TimeDone
<1>7. Back(b, ctx) /\ Plain(b) /\ b.state = ctx.state
  BY <1>2, <1>4, <1>6 DEF Back
<1>8. CASE A!TimeTaken(ctx)
  <2>1. ctx.state = "IDLE"
    BY <1>8 DEF A!TimeTaken
  <2>2. PICK d : d = A!Publish(b, "meas")
    OBVIOUS
  <2>3. \E u : A!Driver(d, line, u)
    BY <1>5, <1>8, <2>1, <2>2, Zenon DEF A!MessageGoes
  <2>4. Mails(A!Told(d), b)
    BY <1>7, <2>1, <2>2, ItMails
  <2> QED BY <1>7, <2>1, <2>3, <2>4 DEF Dates
<1>9. CASE ~A!TimeTaken(ctx)
  <2>1. \E u : A!Driver(b, line, u)
    BY <1>5, <1>9, Zenon DEF A!MessageGoes
  <2>2. Unmoved(b, b)
    BY <1>7, ItIsUnmoved
  <2>3. Unmoved(A!Told(b), b)
    BY <2>2, ItIsTold DEF Unmoved
  <2> QED BY <1>7, <2>1, <2>3 DEF Dates
<1> QED BY <1>8, <1>9

LEMMA DatesStretch ==
  ASSUME IsAt, NEW m \in Scope, NEW c, c.out = <<>>, c.nest = <<"time">>, NEW h \in AtChips,
         NEW k \in Seq(Sends), NEW l,
         Stretch(c.state, c.nest, c.lastCmd, c.before, c.beforeCmd, h, k, l, m),
         NEW b, Back(b, c), NEW e, Dates(e, b),
         NEW g \in AtChips, NEW j, NEW i, Lands(e.out, h, k, l, g, j, i)
  PROVE  Stretch(e.state, e.nest, e.lastCmd, e.before, e.beforeCmd, g, j, i, m)
<1>1. /\ b.out = <<>> /\ b.state = c.state /\ b.lastCmd = c.lastCmd
      /\ b.before = c.before /\ b.beforeCmd = c.beforeCmd
  BY DEF Back
<1>2. b.nest = <<>>
  <2>1. PICK n : n = <<"time">>
    OBVIOUS
  <2>2. Len(n) = 1 /\ SubSeq(n, 1, 0) = <<>>
    BY <2>1
  <2> QED BY <2>1, <2>2 DEF Back
<1>3. e.before = c.before /\ e.beforeCmd = c.beforeCmd
  BY <1>1 DEF Dates, Mails, Unmoved, Spoke, Did
<1>4. kind = "poe" => e.beforeCmd = "none" /\ e.before = "OFF"
  BY <1>3 DEF Stretch
<1>5. PICK n : n = c.nest
  OBVIOUS
<1>6. n # <<>> /\ n \notin Seq({"connecting"}) /\ n \notin {<<"rf">>, <<"init">>, <<"sntp">>, <<"conf">>, <<"connecting">>}
  <2>1. n = <<"time">>
    BY <1>5
  <2>2. n[1] = "time" /\ Len(n) = 1 /\ n # <<>>
    BY <2>1
  <2>3. n \in Seq({"connecting"}) => n[1] = "connecting"
    BY <2>2
  <2>4. \A a : n = <<a>> => a = "time"
    BY <2>1
  <2> QED BY <2>2, <2>3, <2>4
<1>7. Stretch(c.state, n, c.lastCmd, c.before, c.beforeCmd, h, k, l, m)
  BY <1>5
<1>8. Connected(c.state, n, c.lastCmd, h, k, l, m) \/ Careful(c.state, n, h, k, l, m)
  BY <1>6, <1>7 DEF Stretch, Booting, Settling, Linking, Stalled
<1>9. Unmoved(e, b) => Landed(e, b.state, b.nest, b.lastCmd, h, k, l, g, j, i)
  BY <1>1, ItLands, Zenon
<1>10. PICK v, s : v = "AT+MQTTPUBRAW meas" /\ s = "MQTT_WAIT_PUB"
  OBVIOUS
<1>11. v # "PULSE" /\ v \in Pubs /\ v \in LateOrders /\ (Mails(e, b) => Spoke(e, b, v, s))
  BY <1>10 DEF Mails, Pubs, LateOrders
<1>12. Mails(e, b) => SentOn(e, s, b.nest, v, v, h, k, l, g, j, i)
  <2> HAVE Mails(e, b)
  <2>1. Spoke(e, b, v, s)
    BY <1>11
  <2> QED BY <1>1, <1>11, <2>1, ItSends, Zenon
<1>13. CASE Connected(c.state, n, c.lastCmd, h, k, l, m)
  <2>1. /\ m = "lose" /\ h.mqtt = "up" /\ k \in Seq(LateOrders) /\ l \in Seq(LateTalk)
        /\ c.state \in {"IDLE", "WAIT_TIMESTAMP"} /\ Subscribes(h, k)
    BY <1>6, <1>13 DEF Connected, Linked
  <2>2. CASE Unmoved(e, b)
    <3>1. Connected(e.state, e.nest, e.lastCmd, g, j, i, m)
      BY <1>1, <1>2, <1>9, <2>1, <2>2 DEF Landed, Connected, Linked
    <3> QED BY <1>4, <3>1 DEF Stretch
  <2>3. CASE Mails(e, b)
    <3>1. /\ e.state = s /\ e.nest = <<>> /\ e.lastCmd = v
          /\ j = k \o <<v>> /\ i = l /\ g = h
      BY <1>2, <1>12, <2>3 DEF SentOn
    <3>2. Subscribes(h, j) /\ j \in Seq(LateOrders)
      BY <1>11, <2>1, <3>1, StaysBare
    <3>3. Connected(e.state, e.nest, e.lastCmd, g, j, i, m)
      BY <1>10, <1>11, <2>1, <3>1, <3>2 DEF Connected, Linked, Publishing
    <3> QED BY <1>4, <3>3 DEF Stretch
  <2> QED BY <2>2, <2>3 DEF Dates
<1>14. CASE Careful(c.state, n, h, k, l, m)
  <2>1. /\ m = "error" /\ h.mqtt = "up" /\ h.raw = "none" /\ h.sub
        /\ \/ c.state = "IDLE" /\ Silent(k, l)
           \/ c.state = "WAIT_TIMESTAMP" /\ (Turn(c.state, k, l, m) \/ Silent(k, l))
    BY <1>6, <1>14 DEF Careful
  <2>2. CASE Unmoved(e, b)
    <3>1. e.state = c.state /\ e.nest = <<>> /\ j = k /\ i = l /\ g = h
      BY <1>1, <1>2, <1>9, <2>2 DEF Landed
    <3>2. Careful(e.state, e.nest, g, j, i, m)
      BY <2>1, <3>1 DEF Careful
    <3> QED BY <1>4, <3>2 DEF Stretch
  <2>3. CASE b.state = "IDLE" /\ Mails(e, b)
    <3>1. k = <<>> /\ l = <<>>
      BY <1>1, <2>1, <2>3 DEF Silent
    <3>2. e.state = s /\ e.nest = <<>> /\ j = <<v>> /\ i = <<>> /\ g = h
      BY <1>2, <1>12, <2>3, <3>1 DEF SentOn
    <3>3. Careful(e.state, e.nest, g, j, i, m)
      BY <1>10, <1>11, <2>1, <3>2 DEF Careful
    <3> QED BY <1>4, <3>3 DEF Stretch
  <2> QED BY <2>2, <2>3 DEF Dates
<1> QED BY <1>8, <1>13, <1>14

LEMMA ResumeOnItsWay ==
  ASSUME IsAt, NEW m \in Scope, chip \in AtChips, ctx.out = <<>>, cmds \in Seq(Sends),
         OnItsWay(m), A!Resume, faults'.had \subseteq {m}
  PROVE  OnItsWay(m)'
<1>1. /\ Plain(ctx) /\ ctx.nest # <<>>
      /\ Stretch(ctx.state, ctx.nest, ctx.lastCmd, ctx.before, ctx.beforeCmd, chip, cmds, line, m)
  BY DEF OnItsWay, A!Resume
<1>2. PICK r, n : n = ctx.nest /\ r = n[Len(n)]
  OBVIOUS
<1>3. A!Innermost(ctx) = r
  BY <1>2 DEF A!Innermost
<1>4. CASE r = "time"
  <2>1. PICK more : A!MessageGoes(ctx, more)
    BY <1>3, <1>4, Zenon DEF A!Resume
  <2>2. n = <<"time">> /\ ctx.state \in {"IDLE", "WAIT_TIMESTAMP"}
    <3>1. Stretch(ctx.state, n, ctx.lastCmd, ctx.before, ctx.beforeCmd, chip, cmds, line, m)
      BY <1>1, <1>2
    <3>2. n # <<>> /\ \A a : n = <<a>> => r = a
      BY <1>1, <1>2
    <3>3. n \notin Seq({"connecting"})
      <4>1. n \in Seq({"connecting"}) => n[Len(n)] = "connecting"
        BY <3>2
      <4> QED BY <1>2, <1>4, <4>1
    <3>4. Connected(ctx.state, n, ctx.lastCmd, chip, cmds, line, m)
            \/ Careful(ctx.state, n, chip, cmds, line, m)
      BY <1>4, <3>1, <3>2 DEF Stretch, Booting, Settling, Linking, Stalled
    <3> QED BY <1>4, <3>2, <3>3, <3>4 DEF Connected, Careful
  <2>3. PICK b, d, u : Back(b, ctx) /\ A!Driver(d, line, u) /\ Dates(A!Told(d), b)
    BY <1>1, <2>1, <2>2, ItDates
  <2>4. PICK e : e = A!Told(d)
    OBVIOUS
  <2>5. Kin(e, b)
    <3>1. b.out = <<>>
      BY <2>3 DEF Back
    <3> QED BY <2>3, <2>4, <3>1, DidIsKin DEF Dates, Mails
  <2>6. \A g \in AtChips : \A j, i : Lands(e.out, chip, cmds, line, g, j, i) =>
             Stretch(e.state, e.nest, e.lastCmd, e.before, e.beforeCmd, g, j, i, m)
    BY <1>1, <1>2, <2>2, <2>3, <2>4, DatesStretch
  <2> QED BY <2>3, <2>4, <2>5, <2>6, DriverOnItsWay DEF Kin
<1>5. CASE r # "time"
  <2>1. PICK d : d = A!AfterSleep(ctx)
    OBVIOUS
  <2>2. A!Driver(d, line, A!UpTold(d))
    BY <1>3, <1>5, <2>1, Zenon DEF A!Resume
  <2>3. PICK e : e = A!Told(d)
    OBVIOUS
  <2>4. PICK b : Back(b, ctx) /\ Revives(e, b, r)
    BY <1>1, <1>2, <2>1, <2>3, ItRevives
  <2>5. \/ r \in {"rf", "init", "sntp"} /\ kind = "wifi"
        \/ r \in {"conf", "connecting"}
    <3>1. Stretch(ctx.state, n, ctx.lastCmd, ctx.before, ctx.beforeCmd, chip, cmds, line, m)
      BY <1>1, <1>2
    <3>2. n # <<>> /\ \A a : n = <<a>> => r = a
      BY <1>1, <1>2
    <3>3. n \in Seq({"connecting"}) => r = "connecting"
      <4> HAVE n \in Seq({"connecting"})
      <4>1. Len(n) \in 1..Len(n)
        BY <3>2
      <4> QED BY <1>2, <4>1
    <3>4. ASSUME Settling(ctx.state, n, ctx.lastCmd, ctx.before, ctx.beforeCmd, chip, cmds, line, m)
          PROVE  r \in {"rf", "init", "sntp"} /\ kind = "wifi"
      <4>1. /\ kind = "poe" => ctx.state \in PoeSets
            /\ \/ ctx.state = "RF_REGION" /\ n = <<"rf">>
               \/ ctx.state = "WIFI_INIT" /\ n = <<"init">>
               \/ n = <<"sntp">> /\ kind = "wifi"
        BY <3>2, <3>4 DEF Settling
      <4> QED BY <3>2, <4>1 DEF IsAt, PoeSets
    <3>5. Linking(ctx.state, n, ctx.lastCmd, chip, cmds, line, m) => r = "conf"
      BY <3>2 DEF Linking
    <3>6. Connected(ctx.state, n, ctx.lastCmd, chip, cmds, line, m) => r = "connecting"
      BY <1>5, <3>2, <3>3 DEF Connected
    <3>7. Careful(ctx.state, n, chip, cmds, line, m) => r = "connecting"
      BY <1>5, <3>2 DEF Careful
    <3> QED BY <3>1, <3>2, <3>4, <3>5, <3>6, <3>7 DEF Stretch, Booting, Stalled
  <2>6. Kin(e, b) /\ b.before = ctx.before
    <3>1. b.out = <<>> /\ b.before = ctx.before
      BY <2>4 DEF Back
    <3>2. \A v, s : Spoke(e, b, v, s) => Kin(e, b)
      BY <3>1, DidIsKin
    <3> QED BY <2>4, <2>5, <3>1, <3>2 DEF Revives
  <2>7. \A g \in AtChips : \A j, i : Lands(e.out, chip, cmds, line, g, j, i) =>
             Stretch(e.state, e.nest, e.lastCmd, e.before, e.beforeCmd, g, j, i, m)
    BY <1>1, <1>2, <1>5, <2>4, RevivesStretch
  <2> QED BY <2>2, <2>3, <2>6, <2>7, DriverOnItsWay DEF Kin
<1> QED BY <1>4, <1>5

-----------------------------------------------------------------------------
(* Measurements, and what goes wrong.                                      *)

LEMMA BusyOnItsWay ==
  ASSUME IsAt, NEW m \in Scope, chip \in AtChips, ctx.out = <<>>, cmds \in Seq(Sends),
         OnItsWay(m), ctx.nest = <<>>, A!Quiet, NEW u, A!Driver(A!Reset(ctx), line, u)
  PROVE  OnItsWay(m)'
<1>1. PICK d, e : d = A!Reset(ctx) /\ e = A!Told(d)
  OBVIOUS
<1>2. Plain(ctx) /\ cmds = <<>> /\ line = <<>>
      /\ Stretch(ctx.state, ctx.nest, ctx.lastCmd, ctx.before, ctx.beforeCmd, chip, cmds, line, m)
  BY DEF OnItsWay, A!Quiet
<1>3. Restarted(d, ctx)
  <2>1. CASE kind = "wifi"
    BY <1>1, <1>2, <2>1, WifiSpeaks DEF A!Reset
  <2>2. CASE kind = "poe"
    BY <1>1, <1>2, <2>2, PoeSpeaks DEF A!Reset
  <2> QED BY <2>1, <2>2 DEF IsAt
<1>4. Restarted(e, ctx)
  BY <1>1, <1>3, TimerTold
<1>5. Kin(e, ctx)
  BY <1>4, DidIsKin
<1>6. \A g \in AtChips : \A j, i : Lands(e.out, chip, cmds, line, g, j, i) =>
           Stretch(e.state, e.nest, e.lastCmd, e.before, e.beforeCmd, g, j, i, m)
  <2> TAKE g \in AtChips
  <2> TAKE j, i
  <2> HAVE Lands(e.out, chip, cmds, line, g, j, i)
  <2>1. Booting(e.state, e.nest, g, j, i, m)
    BY <1>2, <1>4, RestartsBoot
  <2>2. kind = "poe" => e.beforeCmd = "none" /\ e.before = "OFF"
    BY <1>2, <1>5 DEF Kin, Stretch
  <2> QED BY <2>1, <2>2 DEF Stretch
<1> QED BY <1>1, <1>5, <1>6, DriverOnItsWay DEF Kin

LEMMA SendOnItsWay ==
  ASSUME IsAt, NEW m \in Scope, chip \in AtChips, ctx.out = <<>>, cmds \in Seq(Sends),
         OnItsWay(m), A!MeasSend
  PROVE  OnItsWay(m)'
<1>1. PICK d, e : d = A!AskTime(ctx) /\ e = A!Told(d)
  OBVIOUS
<1>2. /\ Plain(ctx) /\ ctx.nest = <<>> /\ ctx.state = "IDLE" /\ A!Driver(d, line, up)
      /\ Stretch(ctx.state, ctx.nest, ctx.lastCmd, ctx.before, ctx.beforeCmd, chip, cmds, line, m)
  BY <1>1 DEF OnItsWay, A!MeasSend
<1>3. Timed(e, ctx)
  <2>1. Timed(d, ctx)
    BY <1>1, <1>2, ItAsksTime
  <2> QED BY <1>1, <2>1, ItIsTold DEF Timed
<1>4. Kin(e, ctx)
  BY <1>3, DidIsKin
<1>5. \A g \in AtChips : \A j, i : Lands(e.out, chip, cmds, line, g, j, i) =>
           Stretch(e.state, e.nest, e.lastCmd, e.before, e.beforeCmd, g, j, i, m)
  <2> TAKE g \in AtChips
  <2> TAKE j, i
  <2> HAVE Lands(e.out, chip, cmds, line, g, j, i)
  <2>1. SentOn(e, "WAIT_TIMESTAMP", Append(ctx.nest, "time"), "AT+SYSTIMESTAMP?",
               "AT+SYSTIMESTAMP?", chip, cmds, line, g, j, i)
    BY <1>3, ItSendsTime, Zenon
  <2>2. PICK v : v = "AT+SYSTIMESTAMP?"
    OBVIOUS
  <2>3. Append(ctx.nest, "time") = <<"time">>
    BY <1>2, ShortLists
  <2>4. /\ e.state = "WAIT_TIMESTAMP" /\ e.nest = <<"time">>
        /\ j = cmds \o <<v>> /\ i = line /\ g = chip /\ (cmds = <<>> => j = <<v>>)
    BY <2>1, <2>2, <2>3 DEF SentOn
  <2>5. kind = "poe" => e.beforeCmd = "none" /\ e.before = "OFF"
    BY <1>2, <1>4 DEF Kin, Stretch
  <2>6. v \in LateOrders /\ v = Order("WAIT_TIMESTAMP")
    BY <2>2 DEF LateOrders, Order
  <2>7. ASSUME Connected(ctx.state, ctx.nest, ctx.lastCmd, chip, cmds, line, m)
        PROVE  Connected(e.state, e.nest, e.lastCmd, g, j, i, m)
    <3>1. /\ m = "lose" /\ chip.mqtt = "up" /\ cmds \in Seq(LateOrders) /\ line \in Seq(LateTalk)
          /\ Subscribes(chip, cmds)
      BY <1>2, <2>7 DEF Connected
    <3>2. Subscribes(chip, j) /\ j \in Seq(LateOrders)
      BY <2>4, <2>6, <3>1, StaysBare
    <3> QED BY <2>4, <3>1, <3>2 DEF Connected, Linked
  <2>8. ASSUME Careful(ctx.state, ctx.nest, chip, cmds, line, m)
        PROVE  Careful(e.state, e.nest, g, j, i, m)
    <3>1. /\ m = "error" /\ chip.mqtt = "up" /\ chip.raw = "none" /\ chip.sub
          /\ cmds = <<>> /\ line = <<>>
      BY <1>2, <2>8 DEF Careful, Silent
    <3>2. Turn("WAIT_TIMESTAMP", j, i, m)
      BY <2>4, <2>6, <3>1 DEF Turn, Ordered
    <3> QED BY <2>4, <3>1, <3>2 DEF Careful
  <2>9. \/ Connected(ctx.state, ctx.nest, ctx.lastCmd, chip, cmds, line, m)
        \/ Careful(ctx.state, ctx.nest, chip, cmds, line, m)
    BY <1>2 DEF Stretch, Booting, Settling, Linking, Stalled, Alone, Asking
  <2> QED BY <2>5, <2>7, <2>8, <2>9 DEF Stretch
<1> QED BY <1>1, <1>2, <1>4, <1>5, DriverOnItsWay DEF Kin

LEMMA WorldOnItsWay ==
  ASSUME IsAt, NEW m \in Scope, chip \in AtChips, OnItsWay(m), faults'.had \subseteq {m},
         A!Chip \/ A!Lose \/ A!ChipFails
  PROVE  OnItsWay(m)'
<1>1. /\ chip' \in AtChips /\ kind' = kind /\ ctx' = ctx
      /\ Talks(chip, cmds, line, chip', cmds', line', m)
  BY WorldTalks
<1>2. Plain(ctx) /\ Stretch(ctx.state, ctx.nest, ctx.lastCmd, ctx.before, ctx.beforeCmd,
                            chip, cmds, line, m)
  BY DEF OnItsWay
<1>3. Stretch(ctx.state, ctx.nest, ctx.lastCmd, ctx.before, ctx.beforeCmd, chip', cmds', line', m)
  BY <1>1, <1>2, TalksStretch
<1>4. Stretch(ctx'.state, ctx'.nest, ctx'.lastCmd, ctx'.before, ctx'.beforeCmd,
              chip', cmds', line', m)
  BY <1>1, <1>3
<1>5. Stretch(ctx.state, ctx.nest, ctx.lastCmd, ctx.before, ctx.beforeCmd, chip, cmds, line, m)'
  BY <1>1, <1>4, SameStretch
<1> QED BY <1>1, <1>2, <1>5 DEF OnItsWay

LEMMA StaysOnItsWay ==
  ASSUME NEW m, OnItsWay(m), UNCHANGED <<kind, ctx, line, cmds, chip>>
  PROVE  OnItsWay(m)'
<1>1. Plain(ctx) /\ Stretch(ctx.state, ctx.nest, ctx.lastCmd, ctx.before, ctx.beforeCmd,
                            chip, cmds, line, m)
  BY DEF OnItsWay
<1>2. Stretch(ctx'.state, ctx'.nest, ctx'.lastCmd, ctx'.before, ctx'.beforeCmd,
              chip', cmds', line', m)
  BY <1>1
<1>3. Stretch(ctx.state, ctx.nest, ctx.lastCmd, ctx.before, ctx.beforeCmd, chip, cmds, line, m)'
  BY <1>2, SameStretch
<1> QED BY <1>1, <1>3 DEF OnItsWay

LEMMA StepsOnItsWay ==
  ASSUME IsAt, NEW m \in Scope, chip \in AtChips, ctx.out = <<>>, cmds \in Seq(Sends),
         OnItsWay(m), A!Next, faults'.had \subseteq {m}
  PROVE  OnItsWay(m)'
<1>1. "cmd" # m /\ "drop" # m
  BY DEF Scope
<1>2. \A f : A!Fault(f) => f = m
  <2>1. \A f : A!Fault(f) => f \in faults'.had
    BY DEF A!Fault
  <2> QED BY <2>1
<1>3. ~A!Fault("cmd") /\ ~A!Fault("drop")
  BY <1>1, <1>2
<1>4. ~A!Drop /\ (\A c : ~A!Command(c)) /\ (\A e : ~A!Remote(e))
  BY <1>3, Zenon DEF A!Drop, A!Command, A!Remote
<1>5. CASE A!Hear
  BY <1>5, HearOnItsWay
<1>6. CASE A!Resume
  BY <1>6, ResumeOnItsWay
<1>7. CASE A!TimerFires
  BY <1>7, TimerOnItsWay
<1>8. CASE A!MeasOffline
  BY <1>8, StaysOnItsWay DEF A!MeasOffline
<1>9. CASE A!MeasBusy
  <2>1. CASE UNCHANGED <<kind, ctx, line, cmds, chip>>
    BY <2>1, StaysOnItsWay
  <2>2. CASE A!Quiet /\ ctx.nest = <<>> /\ A!Driver(A!Reset(ctx), line, A!UpIdle)
    BY <2>2, BusyOnItsWay
  <2> QED BY <1>9, <2>1, <2>2, Zenon DEF A!MeasBusy
<1>10. CASE A!MeasSend
  BY <1>10, SendOnItsWay
<1>11. CASE A!Chip \/ A!Lose \/ A!ChipFails
  BY <1>11, WorldOnItsWay
<1> QED BY <1>4, <1>5, <1>6, <1>7, <1>8, <1>9, <1>10, <1>11, Zenon DEF A!Next

-----------------------------------------------------------------------------
\* What went wrong stays on record.
LEMMA FaultsKeep ==
  ASSUME A!Next
  PROVE  faults.had \subseteq faults'.had
<1>1. \A f : A!Fault(f) => faults.had \subseteq faults'.had
  BY DEF A!Fault
<1>2. A!Resume \/ A!TimerFires \/ A!ChipReadsNothing => faults.had \subseteq faults'.had
  BY <1>1, Zenon DEF A!Resume, A!TimerFires, A!ChipReadsNothing
<1>3. \A c, e : A!Command(c) \/ A!Remote(e) \/ A!Lose \/ A!ChipFails \/ A!Drop
                  => faults.had \subseteq faults'.had
  BY <1>1, Zenon DEF A!Command, A!Remote, A!Lose, A!ChipFails, A!Drop
<1>4. A!Chip => faults.had \subseteq faults'.had
  <2>1. A!ChipReads => faults.had \subseteq faults'.had
    BY DEF A!ChipReads
  <2>2. UNCHANGED <<up, faults>> => faults.had \subseteq faults'.had
    OBVIOUS
  <2> QED BY <1>2, <2>1, <2>2, Zenon DEF A!Chip
<1>5. A!Hear \/ A!MeasOffline \/ A!MeasBusy \/ A!MeasSend => faults.had \subseteq faults'.had
  <2>1. A!Hear \/ A!MeasOffline \/ A!MeasBusy \/ A!MeasSend => faults' = faults
    BY Zenon DEF A!Hear, A!MeasOffline, A!MeasBusy, A!MeasSend
  <2> QED BY <2>1
<1> QED BY <1>2, <1>3, <1>4, <1>5, Zenon DEF A!Next

LEMMA ChipStays ==
  ASSUME IsAt, NEW m \in Scope, chip \in AtChips, A!Next, faults'.had \subseteq {m}
  PROVE  chip' \in AtChips
<1>1. A!Booted \in AtChips
  BY DEF A!Booted, A!ChipOff, AtChips, A!None
<1>2. \A d, t, u : A!Driver(d, t, u) => chip' \in AtChips
  <2>1. \A d, t, u : A!Driver(d, t, u) => chip' = A!Booted \/ chip' = chip
    BY Zenon DEF A!Driver
  <2> QED BY <1>1, <2>1
<1>3. A!Hear \/ A!Resume \/ A!TimerFires \/ A!MeasSend \/ (\E c : A!Command(c)) => chip' \in AtChips
  BY <1>2, Zenon DEF A!Hear, A!Resume, A!MessageGoes, A!TimerFires, A!MeasSend, A!Command
<1>4. A!MeasBusy => chip' \in AtChips
  <2>1. A!MeasBusy => chip' = chip \/ \E d, t, u : A!Driver(d, t, u)
    BY Zenon DEF A!MeasBusy
  <2> QED BY <1>2, <2>1
<1>5. A!MeasOffline \/ (\E e : A!Remote(e)) => chip' = chip
  BY Zenon DEF A!MeasOffline, A!Remote
<1>6. A!Chip \/ A!Lose \/ A!ChipFails => chip' \in AtChips
  BY WorldTalks
<1>7. ~A!Drop
  <2>1. "drop" # m
    BY DEF Scope
  <2>2. A!Fault("drop") => "drop" \in faults'.had
    BY DEF A!Fault
  <2> QED BY <2>1, <2>2 DEF A!Drop
<1> QED BY <1>3, <1>4, <1>5, <1>6, <1>7, Zenon DEF A!Next

IdleInv ==
    IsAt => \A m \in Scope : faults.had \subseteq {m} => chip \in AtChips /\ OnItsWay(m)

LEMMA IdleBegins ==
  ASSUME ModemInit
  PROVE  IdleInv
<1> SUFFICES ASSUME IsAt, NEW m \in Scope PROVE chip \in AtChips /\ OnItsWay(m)
  BY DEF IdleInv
<1>1. A!Init
  BY DEF ModemInit, L!Init, IsAt
<1>2. PICK conf \in BOOLEAN : ctx = A!StaticCtx(conf)
  BY <1>1 DEF A!Init
<1>3. chip = A!ChipOff /\ cmds = <<>> /\ line = A!BootLines
  BY <1>1 DEF A!Init
<1>4. /\ Plain(ctx) /\ ctx.state = "OFF" /\ ctx.nest = <<>> /\ ctx.before = "OFF"
      /\ ctx.beforeCmd = "none"
  BY <1>2 DEF A!StaticCtx, A!None, Plain, Fields
<1>5. chip \in AtChips /\ Unconfigured(chip) /\ ~chip.joined
  BY <1>3 DEF A!ChipOff, A!None, AtChips, Unconfigured
<1>6. Ends(line, Noise, {Bell})
  <2>1. CASE kind = "wifi"
    <3>1. line = <<"ready">> /\ "ready" \in {Bell}
      BY <1>3, <2>1 DEF A!BootLines, Bell
    <3> QED BY <3>1, EndsOne
  <2>2. CASE kind = "poe"
    <3>1. line = <<"ready", "+ETH_GOT_IP">> /\ "+ETH_GOT_IP" \in {Bell} /\ "ready" \in Noise
      BY <1>3, <2>2 DEF A!BootLines, Bell, Noise, Talk
    <3> QED BY <3>1, EndsTwo
  <2> QED BY <2>1, <2>2 DEF IsAt
<1>7. Booting(ctx.state, ctx.nest, chip, cmds, line, m)
  BY <1>3, <1>4, <1>5, <1>6 DEF Booting
<1> QED BY <1>4, <1>5, <1>7 DEF OnItsWay, Stretch

LEMMA IdleKept ==
  ASSUME AtInv, IdleInv, [ModemNext]_modemVars
  PROVE  IdleInv'
<1>1. CASE IsAt /\ A!Next
  <2>1. ctx.out = <<>> /\ cmds \in Seq(Sends)
    BY <1>1 DEF AtInv, PairedUp
  <2>2. faults.had \subseteq faults'.had
    BY <1>1, FaultsKeep
  <2>3. ASSUME NEW m \in Scope, faults'.had \subseteq {m}
        PROVE  (chip \in AtChips)' /\ OnItsWay(m)'
    <3>1. chip \in AtChips /\ OnItsWay(m)
      BY <1>1, <2>2, <2>3 DEF IdleInv
    <3>2. chip' \in AtChips /\ OnItsWay(m)'
      BY <1>1, <2>1, <2>3, <3>1, ChipStays, StepsOnItsWay
    <3> QED BY <3>2 DEF AtChips
  <2> QED BY <2>3 DEF IdleInv, Scope
<1>2. CASE IsLora /\ L!Next
  BY <1>2, LoraKind DEF IsAt, IdleInv, IsLora
<1>3. CASE UNCHANGED modemVars
  <2>1. UNCHANGED <<kind, ctx, line, cmds, chip>> /\ faults' = faults
    BY <1>3 DEF modemVars
  <2>2. ASSUME NEW m, OnItsWay(m) PROVE OnItsWay(m)'
    BY <2>1, <2>2, StaysOnItsWay
  <2>3. IsAt' => IsAt
    BY <2>1 DEF IsAt
  <2> QED BY <2>1, <2>2, <2>3 DEF IdleInv, Scope, AtChips
<1> QED BY <1>1, <1>2, <1>3 DEF ModemNext

LEMMA IdleSubscribed ==
  ASSUME IdleInv, IsAt
  PROVE  A!IdleIsSubscribed
<1> SUFFICES ASSUME ctx.state = "IDLE", A!Quiet, faults.had \in {{}, {"lose"}, {"error"}}
             PROVE  chip.sub
  BY DEF A!IdleIsSubscribed
<1>1. PICK m \in Scope : faults.had \subseteq {m}
  BY DEF Scope
<1>2. chip \in AtChips /\ cmds = <<>> /\ line = <<>>
      /\ Stretch(ctx.state, ctx.nest, ctx.lastCmd, ctx.before, ctx.beforeCmd, chip, cmds, line, m)
  BY <1>1 DEF IdleInv, OnItsWay, A!Quiet
<1>3. \/ Connected(ctx.state, ctx.nest, ctx.lastCmd, chip, cmds, line, m)
      \/ Careful(ctx.state, ctx.nest, chip, cmds, line, m)
  BY <1>2 DEF Stretch, Booting, Settling, Linking, Stalled, Alone, Asking
<1>4. CASE Connected(ctx.state, ctx.nest, ctx.lastCmd, chip, cmds, line, m)
  <2>1. Subscribes(chip, cmds)
    BY <1>4 DEF Connected
  <2> QED BY <1>2, <2>1 DEF Subscribes
<1>5. CASE Careful(ctx.state, ctx.nest, chip, cmds, line, m)
  BY <1>5 DEF Careful
<1> QED BY <1>3, <1>4, <1>5

\* An idle WiFi or PoE device is subscribed to its commands, so that the server
\* can still reach it, once the modem has done what it was asked: whatever lines
\* were lost, or whatever commands failed, however often and in whichever state
\* of the drivers of at_wifi.c and at_poe.c.
THEOREM ModemsIdleIsSubscribed ==
  ModemSpec => [](IsAt => A!IdleIsSubscribed)
<1>1. AtInv /\ IdleInv => (IsAt => A!IdleIsSubscribed)
  BY IdleSubscribed
<1>2. ModemSpec => [](AtInv /\ IdleInv)
  BY AtInvBegins, AtInvKept, IdleBegins, IdleKept, PTL DEF ModemSpec
<1> QED BY <1>1, <1>2, PTL
===============================================================================
