---------------------------- MODULE ModemsProofs ----------------------------
(***************************************************************************)
(* Proofs about MCModems and Update: the way of messages and of firmware   *)
(* through the modems, and of firmware into the flash.                     *)
(*                                                                         *)
(* About the modems, for any bounds on lines, commands, handlers asleep    *)
(* and faults: the LoRaWAN drivers take in the chunks of firmware in their *)
(* order, a driver that is connected has a modem that has joined, and with *)
(* WiFi and PoE a payload never gets the announcement of another.          *)
(*                                                                         *)
(* About Update, for flash and images of any size and any number of        *)
(* chunks: what is flagged and started when fw@ is not repeated and the    *)
(* flag is not torn, and the types with all the faults.                    *)
(***************************************************************************)
EXTENDS Update, MCModems, FiniteSets, WellFoundedInduction, TLAPS

(* LoRaWAN: the chunks of firmware.  What a handler does with them is all  *)
(* that matters of it, and all but those of downlinks leave them alone.    *)

\* The chunks taken in are the first ones, in their order.
Taking(c) ==
    /\ {"next", "fw"} \subseteq DOMAIN c
    /\ c.next \in Nat /\ c.fw \in Seq(Nat) /\ Len(c.fw) = c.next
    /\ \A i \in 1..Len(c.fw) : c.fw[i] = i - 1

\* A handler that has nothing to do with them.
Leaves(d, c) ==
    {"next", "fw"} \subseteq DOMAIN c =>
        /\ {"next", "fw"} \subseteq DOMAIN d
        /\ d.next = c.next /\ d.fw = c.fw

LEMMA TakingLeft ==
  ASSUME NEW c, NEW d, Taking(c), Leaves(d, c)
  PROVE  Taking(d)
BY DEF Taking, Leaves

LEMMA LeavesTwice ==
  ASSUME NEW c, NEW d, NEW e, Leaves(d, c), Leaves(e, d)
  PROVE  Leaves(e, c)
BY DEF Leaves

LEMMA RakResets ==
  ASSUME NEW c PROVE Leaves(L!R!Reset(c), c)
BY DEF Leaves, L!R!Reset

LEMMA RakBoots ==
  ASSUME NEW c, NEW l
  PROVE  /\ Leaves(L!R!ProcessOff(c, l), c)
         /\ Leaves(L!R!ProcessInitWaitBoot(c, l), c)
         /\ Leaves(L!R!ProcessInitWaitReplay(c, l), c)
         /\ Leaves(L!R!ProcessInitWaitOk(c, l), c)
         /\ Leaves(L!R!ProcessJoinWaitReplay(c, l), c)
         /\ Leaves(L!R!ProcessJoinWaitOk(c, l), c)
         /\ Leaves(L!R!ProcessJoinWaitJoin(c, l), c)
         /\ Leaves(L!R!ProcessSendOk(c, l), c)
         /\ Leaves(L!R!ProcessSendAck(c, l), c)
<1>1. Leaves(L!R!ProcessOff(c, l), c)
  BY DEF L!R!ProcessOff, Leaves, L!R!Write, L!R!Printf, L!R!Reset, L!R!SentAck
<1>2. Leaves(L!R!ProcessInitWaitBoot(c, l), c)
  BY DEF L!R!ProcessInitWaitBoot, Leaves, L!R!Write, L!R!Printf, L!R!Reset, L!R!SentAck
<1>3. Leaves(L!R!ProcessInitWaitReplay(c, l), c)
  BY DEF L!R!ProcessInitWaitReplay, Leaves, L!R!Write, L!R!Printf, L!R!Reset, L!R!SentAck
<1>4. Leaves(L!R!ProcessInitWaitOk(c, l), c)
  BY DEF L!R!ProcessInitWaitOk, Leaves, L!R!Write, L!R!Printf, L!R!Reset, L!R!SentAck
<1>5. Leaves(L!R!ProcessJoinWaitReplay(c, l), c)
  BY DEF L!R!ProcessJoinWaitReplay, Leaves, L!R!Write, L!R!Printf, L!R!Reset, L!R!SentAck
<1>6. Leaves(L!R!ProcessJoinWaitOk(c, l), c)
  BY DEF L!R!ProcessJoinWaitOk, Leaves, L!R!Write, L!R!Printf, L!R!Reset, L!R!SentAck
<1>7. Leaves(L!R!ProcessJoinWaitJoin(c, l), c)
  BY DEF L!R!ProcessJoinWaitJoin, Leaves, L!R!Write, L!R!Printf, L!R!Reset, L!R!SentAck
<1>8. Leaves(L!R!ProcessSendOk(c, l), c)
  BY DEF L!R!ProcessSendOk, Leaves, L!R!Write, L!R!Printf, L!R!Reset, L!R!SentAck
<1>9. Leaves(L!R!ProcessSendAck(c, l), c)
  BY DEF L!R!ProcessSendAck, Leaves, L!R!Write, L!R!Printf, L!R!Reset, L!R!SentAck
<1> QED BY <1>1, <1>2, <1>3, <1>4, <1>5, <1>6, <1>7, <1>8, <1>9

LEMMA RakSends ==
  ASSUME NEW c, NEW w
  PROVE  /\ Leaves(L!R!Send(c, w), c)
         /\ Leaves(L!R!AfterSleep(c), c)
         /\ Leaves(L!R!SendFails(c), c)
         /\ Leaves(L!R!Timeout(c), c)
<1>1. Leaves(L!R!Send(c, w), c)
  BY DEF Leaves, L!R!Send, L!R!Sleep
<1>2. Leaves(L!R!AfterSleep(c), c)
  BY DEF Leaves, L!R!AfterSleep, L!R!Return, L!R!Write, L!R!Innermost
<1>3. Leaves(L!R!SendFails(c), c)
  BY DEF Leaves, L!R!SendFails, L!R!Return, L!R!Innermost
<1>4. Leaves(L!R!Timeout(c), c)
  BY DEF Leaves, L!R!Timeout, L!R!Send, L!R!Sleep, L!R!Write, L!R!Printf, L!R!Reset, L!R!SentAck
<1> QED BY <1>1, <1>2, <1>3, <1>4

LEMMA RakCommands ==
  ASSUME NEW c, NEW s, NEW cmd
  PROVE  /\ Leaves(L!R!CmdConfig(c, s), c)
         /\ Leaves(L!R!CmdRestart(c), c)
         /\ Leaves(L!R!CmdConnect(c), c)
         /\ Leaves(L!R!CmdTest(c), c)
<1>1. Leaves(L!R!CmdConfig(c, s), c)
  BY DEF Leaves, L!R!CmdConfig, L!R!LoadConfig, L!R!Reset
<1>2. Leaves(L!R!CmdRestart(c), c)
  BY DEF Leaves, L!R!CmdRestart, L!R!Write, L!R!Printf
<1>3. Leaves(L!R!CmdConnect(c), c)
  BY DEF Leaves, L!R!CmdConnect, L!R!Write
<1>4. Leaves(L!R!CmdTest(c), c)
  BY DEF Leaves, L!R!CmdTest, L!R!Write, L!R!Printf
<1> QED BY <1>1, <1>2, <1>3, <1>4

LEMMA RakDoCommand ==
  ASSUME NEW c, NEW cmd
  PROVE  Leaves(L!R!DoCommand(c, cmd).c, c)
<1>1. \E set : L!R!DoCommand(c, cmd) =
        CASE cmd = "restart" -> [c |-> L!R!CmdRestart(c), resp |-> 0]
          [] cmd = "connect" -> [c |-> L!R!CmdConnect(c), resp |-> 0]
          [] cmd = "test" -> [c |-> L!R!CmdTest(c), resp |-> 0]
          [] set.ok -> [c |-> L!R!CmdConfig(c, set.s), resp |-> 0]
          [] OTHER -> [c |-> c, resp |-> 1]
  BY Zenon DEF L!R!DoCommand
<1>2. PICK set : L!R!DoCommand(c, cmd) =
        CASE cmd = "restart" -> [c |-> L!R!CmdRestart(c), resp |-> 0]
          [] cmd = "connect" -> [c |-> L!R!CmdConnect(c), resp |-> 0]
          [] cmd = "test" -> [c |-> L!R!CmdTest(c), resp |-> 0]
          [] set.ok -> [c |-> L!R!CmdConfig(c, set.s), resp |-> 0]
          [] OTHER -> [c |-> c, resp |-> 1]
  BY <1>1
<1>3. Leaves(c, c)
  BY DEF Leaves
<1>4. Leaves(L!R!CmdConfig(c, set.s), c)
  BY RakCommands
<1> QED BY <1>2, <1>3, <1>4, RakCommands

LEMMA RakUnsol ==
  ASSUME NEW c, NEW l, Taking(c)
  PROVE  Taking(L!R!ProcessUnsol(c, l))
<1>1. Taking(L!R!FwChunk(c, l[2]))
  BY DEF Taking, L!R!FwChunk
<1>2. Taking(L!R!DoCommand(c, "restart").c)
  BY RakDoCommand, TakingLeft
<1>3. ASSUME NEW cmd, NEW d, d = L!R!DoCommand(c, cmd)
      PROVE  Taking([d.c EXCEPT !.err = d.resp])
  <2>1. Taking(d.c)
    BY <1>3, RakDoCommand, TakingLeft
  <2>2. Leaves([d.c EXCEPT !.err = d.resp], d.c)
    BY DEF Leaves
  <2> QED BY <2>1, <2>2, TakingLeft
<1>4. PICK d : d = L!R!DoCommand(c, "region")
  OBVIOUS
<1>5. PICK e : e = L!R!DoCommand(c, "nonsense")
  OBVIOUS
<1>6. Taking([d.c EXCEPT !.err = d.resp]) /\ Taking([e.c EXCEPT !.err = e.resp])
  BY <1>3, <1>4, <1>5
<1>7. L!R!ProcessUnsol(c, l) = 
    CASE l[1] \in L!R!Short -> c
      [] l[1] = "FW+" -> L!R!FwChunk(c, l[2])
      [] l[1] = "CMD restart" -> L!R!DoCommand(c, "restart").c
      [] l[1] = "CCMD region" -> [d.c EXCEPT !.err = d.resp]
      [] l[1] = "CCMD nonsense" -> [e.c EXCEPT !.err = e.resp]
      [] OTHER -> c
  BY <1>4, <1>5, Zenon DEF L!R!ProcessUnsol
<1> QED BY <1>1, <1>2, <1>6, <1>7

LEMMA RakProcess ==
  ASSUME NEW c, NEW l, Taking(c)
  PROVE  Taking(L!R!Process(c, l))
<1>1. PICK d : d = L!R!ProcessUnsol(c, l)
  OBVIOUS
<1>2. Taking(d)
  BY <1>1, RakUnsol
<1>3. Leaves(d, d)
  BY DEF Leaves
<1>4. Leaves(L!R!ByState(d, l), d)
  BY <1>3, RakBoots DEF L!R!ByState
<1> QED BY <1>1, <1>2, <1>4, TakingLeft DEF L!R!Process
-----------------------------------------------------------------------------
(* The RAK4270.                                                            *)

LEMMA RuiSends ==
  ASSUME NEW c, NEW what
  PROVE  /\ Leaves(L!S!Reset(c), c)
         /\ Leaves(L!S!ReloadConfig(c), c)
         /\ Leaves(L!S!Send(c, what), c)
         /\ Leaves(L!S!SendAlive(c), c)
         /\ Leaves(L!S!RetryWrite(c), c)
         /\ Leaves(L!S!WriteNextInit(c), c)
         /\ Leaves(L!S!Timeout(c), c)
<1>1. Leaves(L!S!Reset(c), c)
  BY DEF Leaves, L!S!Reset, L!S!ChipOff, L!S!Switch
<1>2. Leaves(L!S!ReloadConfig(c), c)
  BY DEF Leaves, L!S!ReloadConfig, L!S!Reset, L!S!ChipOff, L!S!Switch
<1>3. Leaves(L!S!Send(c, what), c)
  BY DEF Leaves, L!S!Send, L!S!Write
<1>4. Leaves(L!S!SendAlive(c), c)
  BY DEF Leaves, L!S!SendAlive, L!S!Write
<1>5. Leaves(L!S!RetryWrite(c), c)
  <2>1. \A d : Leaves(d, c) => Leaves(L!S!Reset(d), c)
    BY DEF Leaves, L!S!Reset, L!S!ChipOff, L!S!Switch
  <2>2. \A d, w : Leaves(d, c) => Leaves(L!S!Send(d, w), c)
    BY DEF Leaves, L!S!Send, L!S!Write
  <2>3. \A d : Leaves(d, c) => Leaves(L!S!SentAck(d, FALSE), c)
    BY DEF Leaves, L!S!SentAck
  <2>4. PICK d, e : d = [c EXCEPT !.resend = 0] /\ e = [c EXCEPT !.resend = @ + 1]
    OBVIOUS
  <2>5. PICK f : f = [e EXCEPT !.state = "IDLE"]
    OBVIOUS
  <2>6. Leaves(d, c) /\ Leaves(e, c) /\ Leaves(f, c)
    BY <2>4, <2>5 DEF Leaves
  <2>7. L!S!RetryWrite(c) \in {L!S!SentAck(L!S!Reset(d), FALSE), e,
                                L!S!Send(f, c.backup)}
    BY <2>4, <2>5 DEF L!S!RetryWrite
  <2> QED BY <2>1, <2>2, <2>3, <2>6, <2>7
<1>6. Leaves(L!S!WriteNextInit(c), c)
  BY DEF Leaves, L!S!WriteNextInit, L!S!Write
<1>7. Leaves(L!S!Timeout(c), c)
  <2>1. PICK d : d = [c EXCEPT !.silent = TRUE]
    OBVIOUS
  <2>2. Leaves(d, c) /\ Leaves(L!S!SentAck(d, FALSE), c)
    BY <2>1 DEF Leaves, L!S!SentAck
  <2>3. \A e : Leaves(e, c) => Leaves(L!S!Reset(e), c)
    BY DEF Leaves, L!S!Reset, L!S!ChipOff, L!S!Switch
  <2>4. Leaves(L!S!PowerUp(c), c)
    BY DEF Leaves, L!S!PowerUp, L!S!ChipOn, L!S!Switch
  <2>5. L!S!Timeout(c) \in {L!S!PowerUp(c), L!S!Reset(d),
                             L!S!Reset(L!S!SentAck(d, FALSE))}
    BY <2>1 DEF L!S!Timeout
  <2> QED BY <2>2, <2>3, <2>4, <2>5
<1> QED BY <1>1, <1>2, <1>3, <1>4, <1>5, <1>6, <1>7

LEMMA RuiLines ==
  ASSUME NEW c, NEW l, NEW n
  PROVE  /\ Leaves(L!S!HandleError(c, n), c)
         /\ Leaves(L!S!ProcessWaitInit(c, l), c)
         /\ Leaves(L!S!ProcessWaitInitOk(c, l), c)
         /\ Leaves(L!S!ProcessWaitReinit(c, l), c)
         /\ Leaves(L!S!ProcessWaitConn(c, l), c)
         /\ Leaves(L!S!ProcessWaitOk(c, l), c)
         /\ Leaves(L!S!ProcessWaitAck(c, l), c)
<1>1. Leaves(L!S!HandleError(c, n), c)
  <2>1. Leaves(c, c) /\ Leaves(L!S!SentAck(c, FALSE), c)
    BY DEF Leaves, L!S!SentAck
  <2>2. Leaves(L!S!Reset(L!S!SentAck(c, FALSE)), c)
    BY <2>1, RuiSends, LeavesTwice
  <2> QED BY <2>1, <2>2, RuiSends DEF L!S!HandleError
<1>2. Leaves(L!S!ProcessWaitInit(c, l), c)
  BY DEF Leaves, L!S!ProcessWaitInit, L!S!WriteNextInit, L!S!Write
<1>3. Leaves(L!S!ProcessWaitInitOk(c, l), c)
  BY DEF Leaves, L!S!ProcessWaitInitOk, L!S!WriteNextInit, L!S!Write
<1>4. Leaves(L!S!ProcessWaitReinit(c, l), c)
  BY DEF Leaves, L!S!ProcessWaitReinit, L!S!Write
<1>5. Leaves(L!S!ProcessWaitConn(c, l), c)
  BY DEF Leaves, L!S!ProcessWaitConn, L!S!SendAlive, L!S!Write
<1>6. Leaves(L!S!ProcessWaitOk(c, l), c)
  BY DEF Leaves, L!S!ProcessWaitOk
<1>7. Leaves(L!S!ProcessWaitAck(c, l), c)
  BY DEF Leaves, L!S!ProcessWaitAck, L!S!SentAck
<1> QED BY <1>1, <1>2, <1>3, <1>4, <1>5, <1>6, <1>7

LEMMA RuiDoCommand ==
  ASSUME NEW c, NEW cmd
  PROVE  Leaves(L!S!DoCommand(c, cmd), c)
<1>1. Leaves(c, c)
  BY DEF Leaves
<1>2. ASSUME NEW s PROVE Leaves(L!S!ReloadConfig([c EXCEPT !.settings = s]), c)
  <2>1. Leaves([c EXCEPT !.settings = s], c)
    BY DEF Leaves
  <2> QED BY <2>1, RuiSends, LeavesTwice
<1>3. \E set : L!S!DoCommand(c, cmd) =
        IF set.ok THEN L!S!ReloadConfig([c EXCEPT !.settings = set.s]) ELSE c
  BY Zenon DEF L!S!DoCommand
<1> QED BY <1>1, <1>2, <1>3

LEMMA RuiByLine ==
  ASSUME NEW c, NEW l, Taking(c)
  PROVE  Taking(L!S!ByLine(c, l))
<1>1. Leaves(c, c)
  BY DEF Leaves
<1>2. Taking(L!S!FwStart(c)) /\ Taking(L!S!FwChunk(c, l[2]))
  BY DEF Taking, L!S!FwStart, L!S!FwChunk
<1>3. Taking(L!S!FwComplete(c))
  BY DEF Taking, L!S!FwComplete
<1>4. Taking(L!S!DoCommand(c, "region"))
  BY RuiDoCommand, TakingLeft
<1>5. Taking(L!S!HandleUnsol(c, l))
  BY <1>2, <1>3, <1>4 DEF L!S!HandleUnsol
<1>6. Taking(L!S!HandleError(c, l[2]))
  BY RuiLines, TakingLeft
<1>7. Leaves(L!S!ByState(c, l), c)
  BY <1>1, RuiLines DEF L!S!ByState
<1>8. Taking(L!S!ByState(c, l))
  BY <1>7, TakingLeft
<1> QED BY <1>5, <1>6, <1>8 DEF L!S!ByLine

LEMMA RuiProcess ==
  ASSUME NEW c, NEW l, Taking(c)
  PROVE  Taking(L!S!Process(c, l))
<1>1. PICK h : h = [c EXCEPT !.silent = FALSE]
  OBVIOUS
<1>2. Taking(h)
  BY <1>1 DEF Taking
<1> QED BY <1>1, <1>2, RuiByLine DEF L!S!Process

-----------------------------------------------------------------------------
(* Either of them.                                                         *)

LEMMA LoraLeaves ==
  ASSUME NEW c, NEW cmd
  PROVE  /\ Leaves(L!Send(c), c)
         /\ Leaves(L!Timeout(c), c)
         /\ Leaves(L!Reset(c), c)
         /\ Leaves(L!DoCommand(c, cmd), c)
         /\ Leaves(L!Told(c), c)
<1>1. Leaves(L!Send(c), c)
  BY RakSends, RuiSends DEF L!Send
<1>2. Leaves(L!Timeout(c), c)
  BY RakSends, RuiSends DEF L!Timeout
<1>3. Leaves(L!Reset(c), c)
  BY RakResets, RuiSends DEF L!Reset
<1>4. Leaves(L!DoCommand(c, cmd), c)
  BY RakDoCommand, RuiDoCommand DEF L!DoCommand, L!Command3172
<1>5. Leaves(L!Told(c), c)
  <2>1. PICK d : d = [c EXCEPT !.ack = L!None]
    OBVIOUS
  <2>2. Leaves(d, c)
    BY <2>1 DEF Leaves
  <2>3. Leaves(L!Send(d), d)
    BY RakSends, RuiSends DEF L!Send
  <2>4. L!Told(c) = d \/ L!Told(c) = L!Send(d)
    BY <2>1 DEF L!Told
  <2> QED BY <2>2, <2>3, <2>4, LeavesTwice
<1> QED BY <1>1, <1>2, <1>3, <1>4, <1>5

LEMMA LoraProcess ==
  ASSUME NEW c, NEW l, Taking(c)
  PROVE  Taking(L!Process(c, l))
BY RakProcess, RuiProcess DEF L!Process

LEMMA LoraDriver ==
  ASSUME NEW c, NEW w, NEW u, Taking(c), L!Driver(c, w, u)
  PROVE  Taking(ctx') /\ kind' = kind
<1>1. PICK d : d = L!Told(c)
  OBVIOUS
<1>2. ctx' = [d EXCEPT !.out = <<>>] /\ kind' = kind
  BY <1>1 DEF L!Driver
<1>3. Leaves(d, c)
  BY <1>1, LoraLeaves
<1>4. Leaves(ctx', d)
  BY <1>2 DEF Leaves
<1> QED BY <1>2, <1>3, <1>4, LeavesTwice, TakingLeft

\* What a step of the driver starts from.
LEMMA LoraSteps ==
  ASSUME Taking(ctx),
         L!Hear \/ L!Resume \/ L!TimerFires \/ L!MeasBusy \/ L!MeasSend
         \/ \E cmd : L!Command(cmd)
  PROVE  Taking(ctx') /\ kind' = kind
<1>1. CASE L!Hear
  <2>1. PICK l : l = Head(line)
    OBVIOUS
  <2>2. \E w, u : L!Driver(L!Process(ctx, l), w, u)
    BY <1>1, <2>1 DEF L!Hear
  <2>3. Taking(L!Process(ctx, l))
    BY LoraProcess
  <2> QED BY <2>2, <2>3, LoraDriver
<1>2. CASE L!Resume
  <2>1. PICK d, e : d = L!R!AfterSleep(ctx) /\ e = L!R!SendFails(ctx)
    OBVIOUS
  <2>2. Taking(d) /\ Taking(e)
    BY <2>1, RakSends, TakingLeft
  <2>3. Taking(L!Reset(e))
    BY <2>2, LoraLeaves, TakingLeft
  <2>4. \E c, w, u : c \in {d, e, L!Reset(e)} /\ L!Driver(c, w, u)
    BY <1>2, <2>1 DEF L!Resume
  <2> QED BY <2>2, <2>3, <2>4, LoraDriver
<1>3. CASE L!TimerFires
  <2>1. \E w, u : L!Driver(L!Timeout(ctx), w, u)
    BY <1>3 DEF L!TimerFires
  <2>2. Taking(L!Timeout(ctx))
    BY LoraLeaves, TakingLeft
  <2> QED BY <2>1, <2>2, LoraDriver
<1>4. CASE L!MeasBusy
  <2>1. \/ ctx' = ctx /\ kind' = kind
        \/ \E w, u : L!Driver(L!Reset(ctx), w, u)
    BY <1>4 DEF L!MeasBusy
  <2>2. Taking(L!Reset(ctx))
    BY LoraLeaves, TakingLeft
  <2> QED BY <2>1, <2>2, LoraDriver
<1>5. CASE L!MeasSend
  <2>1. \E w, u : L!Driver(L!Send(ctx), w, u)
    BY <1>5 DEF L!MeasSend
  <2>2. Taking(L!Send(ctx))
    BY LoraLeaves, TakingLeft
  <2> QED BY <2>1, <2>2, LoraDriver
<1>6. CASE \E cmd : L!Command(cmd)
  <2>1. PICK cmd : L!Command(cmd)
    BY <1>6
  <2>2. PICK c \in L!Pauses : \E w, u : L!Driver(L!DoCommand(c, cmd), w, u)
    BY <2>1 DEF L!Command
  <2>3. Taking(c)
    <3>1. PICK d : d = [ctx EXCEPT !.silent = TRUE]
      OBVIOUS
    <3>2. Taking(d)
      BY <3>1 DEF Taking
    <3>3. c \in {ctx, d}
      BY <3>1 DEF L!Pauses
    <3> QED BY <3>2, <3>3
  <2>4. Taking(L!DoCommand(c, cmd))
    BY <2>3, LoraLeaves, TakingLeft
  <2> QED BY <2>2, <2>4, LoraDriver
<1> QED BY <1>1, <1>2, <1>3, <1>4, <1>5, <1>6

\* The rest of the world leaves the driver alone.
LEMMA LoraWorld ==
  ASSUME L!Next
  PROVE  \/ L!Hear \/ L!Resume \/ L!TimerFires \/ L!MeasBusy \/ L!MeasSend
         \/ \E cmd : L!Command(cmd)
         \/ ctx' = ctx /\ kind' = kind
<1>1. L!MeasOffline \/ L!Chip \/ L!Downlink \/ L!Lose \/ L!ChipFails
      \/ (\E cmd : L!Remote(cmd)) => ctx' = ctx /\ kind' = kind
  BY DEF L!MeasOffline, L!Chip, L!Downlink, L!Lose, L!ChipFails, L!Remote
<1>2. L!ChipJoined \/ L!ChipSent => ctx' = ctx /\ kind' = kind
  BY DEF L!ChipJoined, L!ChipSent, L!Airs
<1> QED BY <1>1, <1>2 DEF L!Next

LEMMA AtKind ==
  ASSUME A!Next
  PROVE  kind' = kind
<1>1. \A c, s, u : A!Driver(c, s, u) => kind' = kind
  BY DEF A!Driver
<1>2. A!Hear \/ A!Resume \/ A!TimerFires \/ A!MeasBusy \/ A!MeasSend
      \/ (\E cmd : A!Command(cmd)) => kind' = kind
  <2>1. A!Hear => kind' = kind
    BY <1>1 DEF A!Hear
  <2>2. A!Resume => kind' = kind
    BY <1>1 DEF A!Resume, A!MessageGoes
  <2>3. A!TimerFires => kind' = kind
    BY <1>1 DEF A!TimerFires
  <2>4. A!MeasBusy => kind' = kind
    BY <1>1 DEF A!MeasBusy
  <2>5. A!MeasSend => kind' = kind
    BY <1>1 DEF A!MeasSend
  <2>6. (\E cmd : A!Command(cmd)) => kind' = kind
    BY <1>1 DEF A!Command
  <2> QED BY <2>1, <2>2, <2>3, <2>4, <2>5, <2>6
<1>3. \A s, c : A!Says(s, c) => kind' = kind
  BY DEF A!Says
<1>4. A!Chip => kind' = kind
  BY <1>3 DEF A!Chip, A!ChipRestore, A!ChipPlain, A!ChipMac, A!ChipTime, A!ChipList,
     A!ChipCwState, A!ChipJoin, A!ChipSntp, A!ChipUserCfg, A!ChipConnCfg, A!ChipConn,
     A!ChipIsConn, A!ChipIsSub, A!ChipSub, A!ChipPubRaw, A!ChipUnknown, A!ChipReads,
     A!ChipReadsNothing
<1>5. A!MeasOffline \/ A!Lose \/ A!ChipFails \/ A!Drop \/ (\E e : A!Remote(e))
      => kind' = kind
  BY <1>3 DEF A!MeasOffline, A!Lose, A!ChipFails, A!Drop, A!Remote
<1> QED BY <1>2, <1>4, <1>5 DEF A!Next

-----------------------------------------------------------------------------
LoraInv == IsLora => Taking(ctx)

LEMMA LoraInvBegins ==
  ASSUME ModemInit
  PROVE  LoraInv
<1>1. CASE A!Init
  BY <1>1 DEF A!Init, LoraInv, IsLora
<1>2. CASE L!Init
  <2>1. PICK s : ctx = [(IF L!Is3172 THEN L!R!Start(s) ELSE L!S!Start(s)) EXCEPT !.out = <<>>]
    BY <1>2 DEF L!Init
  <2>2. Taking(L!R!Start(s))
    BY DEF Taking, L!R!Start
  <2>3. Taking(L!S!Start(s))
    BY DEF Taking, L!S!Start, L!S!ChipOn, L!S!Switch
  <2>4. PICK c : c = IF L!Is3172 THEN L!R!Start(s) ELSE L!S!Start(s)
    OBVIOUS
  <2>5. Taking(c) /\ ctx = [c EXCEPT !.out = <<>>]
    BY <2>1, <2>2, <2>3, <2>4
  <2>6. Leaves(ctx, c)
    BY <2>5 DEF Leaves
  <2> QED BY <2>5, <2>6, TakingLeft DEF LoraInv
<1> QED BY <1>1, <1>2 DEF ModemInit

LEMMA LoraInvKept ==
  ASSUME LoraInv, [ModemNext]_modemVars
  PROVE  LoraInv'
<1>1. CASE IsAt /\ A!Next
  BY <1>1, AtKind DEF IsAt, LoraInv, IsLora
<1>2. CASE IsLora /\ L!Next
  BY <1>2, LoraWorld, LoraSteps DEF LoraInv
<1>3. CASE UNCHANGED modemVars
  BY <1>3 DEF modemVars, LoraInv, IsLora
<1> QED BY <1>1, <1>2, <1>3 DEF ModemNext

\* The firmware taken in from the network is its chunks in their order, each
\* once, whatever the server repeats, the network loses and the driver does
\* meanwhile, for any number of chunks, faults and commands.
THEOREM ModemsTakeChunksInOrder ==
  ModemSpec => []ChunksInOrder
<1>1. LoraInv => ChunksInOrder
  BY DEF LoraInv, ChunksInOrder, L!ChunksInOrder, Taking
<1>2. ModemSpec => []LoraInv
  BY LoraInvBegins, LoraInvKept, PTL DEF ModemSpec
<1> QED BY <1>1, <1>2, PTL
-----------------------------------------------------------------------------
(* PayloadsStayApart.  What the modem has not yet done with is a queue:    *)
(* the announcement it waits for the payload of, the commands in the UART, *)
(* and what a handler is about to send.  In it no payload follows the      *)
(* announcement of the other, and a driver that waits to send a payload    *)
(* has nothing behind its announcement.                                    *)

Rests == {"rf", "init", "sntp", "conf", "connecting", "list", "listcmd", "time"}
Words == {"none", "PULSE", "ATE0", "AT+RST", "AT+RESTORE", "AT+CWSTATE?", "AT+CWCOUNTRY",
          "AT+CWMODE", "AT+CWINIT", "AT+CWJAP", "AT+CWLAP", "AT+CIPSTAMAC?",
          "AT+CIPETHMAC?", "AT+CIPSNTPCFG", "AT+SYSTIMESTAMP?", "AT+MQTTUSERCFG",
          "AT+MQTTCONNCFG", "AT+MQTTCONN", "AT+MQTTCONN?", "AT+MQTTSUB",
          "AT+MQTTSUB?", "AT+MQTTPUBRAW meas", "AT+MQTTPUBRAW resp"}
Sends == Words \cup {"payload meas", "payload resp"}

\* The states in which a command is to be tried again.
Retrying == {"TIMEDOUT_WIFI_WAIT_STATE", "TIMEDOUT_MQTT_WAIT_WIFI_STATE",
             "TIMEDOUT_MQTT_WAIT_MQTT_STATE", "TIMEDOUT_WAIT_MQTT_STATE"}
Held == Retrying \cup {"MQTT_WAIT_PUB", "AP_SCAN"}
ToTry(c) == c.state \in Retrying \/ (c.state = "AP_SCAN" /\ c.beforeList \in Retrying)

Ctx(c) ==
    /\ {"state", "before", "beforeCmd", "lastCmd", "packet", "beforeList", "out",
        "nest", "ack"} \subseteq DOMAIN c
    /\ c.out \in Seq(Sends) /\ c.nest \in Seq(Rests)
    /\ c.lastCmd \in Words /\ c.beforeCmd \in Words

\* No payload follows the announcement of the other.
Fit(q) ==
    \A i \in 1..Len(q) - 1 :
        /\ ~(q[i] = "AT+MQTTPUBRAW meas" /\ q[i + 1] = "payload resp")
        /\ ~(q[i] = "AT+MQTTPUBRAW resp" /\ q[i + 1] = "payload meas")

\* A driver that remembers the announcement of its packet.
Knows(c) ==
    /\ Ctx(c) /\ c.beforeList # "MQTT_WAIT_PUB"
    /\ kind = "poe" => c.before # "MQTT_WAIT_PUB"
    /\ c.state = "MQTT_WAIT_PUB" => c.lastCmd = A!PubRaw(c.packet)
    /\ ToTry(c) /\ c.before = "MQTT_WAIT_PUB" => c.beforeCmd = A!PubRaw(c.packet)

\* The queue q fits what the driver does next.
Queue(c, q) ==
    /\ Fit(q)
    /\ c.state = "MQTT_WAIT_PUB" /\ q # <<>> => q[Len(q)] = A!PubRaw(c.packet)

Good(c, s) == Knows(c) /\ Queue(c, s \o c.out)

Keeps(d, c) == \A s \in Seq(Sends) : Good(c, s) => Good(d, s)
-----------------------------------------------------------------------------
LEMMA KeepsTwice ==
  ASSUME NEW c, NEW d, NEW e, Keeps(d, c), Keeps(e, d)
  PROVE  Keeps(e, c)
BY DEF Keeps

LEMMA Itself ==
  ASSUME NEW c PROVE Keeps(c, c)
BY DEF Keeps

LEMMA Appended ==
  ASSUME NEW S, NEW q \in Seq(S), NEW w \in S
  PROVE  /\ Append(q, w) \in Seq(S) /\ Len(Append(q, w)) = Len(q) + 1 /\ Len(q) \in Nat
         /\ \A i \in 1..Len(q) : Append(q, w)[i] = q[i]
         /\ Append(q, w)[Len(q) + 1] = w
OBVIOUS

LEMMA Behind ==
  ASSUME NEW S, NEW s \in Seq(S), NEW o \in Seq(S), NEW w \in S
  PROVE  s \o o \in Seq(S) /\ s \o Append(o, w) = Append(s \o o, w)
OBVIOUS

LEMMA WordFits ==
  ASSUME NEW q \in Seq(Sends), NEW w \in Words, Fit(q)
  PROVE  Fit(Append(q, w))
<1>1. w # "payload meas" /\ w # "payload resp" /\ w \in Sends
  BY DEF Words, Sends
<1>2. PICK a : a = Append(q, w)
  OBVIOUS
<1>3. /\ Len(a) = Len(q) + 1 /\ Len(q) \in Nat
      /\ \A i \in 1..Len(q) : a[i] = q[i]
      /\ a[Len(q) + 1] = w
  <2>1. PICK v \in Sends : v = w
    BY <1>1
  <2>2. /\ Len(Append(q, v)) = Len(q) + 1 /\ Len(q) \in Nat
        /\ \A i \in 1..Len(q) : Append(q, v)[i] = q[i]
        /\ Append(q, v)[Len(q) + 1] = v
    BY Appended
  <2> QED BY <1>2, <2>1, <2>2, Zenon
<1>4. Len(a) - 1 = Len(q)
  BY <1>3
<1>5. ASSUME NEW i \in 1..Len(q)
      PROVE  /\ ~(a[i] = "AT+MQTTPUBRAW meas" /\ a[i + 1] = "payload resp")
             /\ ~(a[i] = "AT+MQTTPUBRAW resp" /\ a[i + 1] = "payload meas")
  <2>1. CASE i = Len(q)
    <3>1. a[i + 1] = w
      BY <2>1, <1>3
    <3> QED BY <3>1, <1>1
  <2>2. CASE i # Len(q)
    <3>1. i \in 1..Len(q) - 1 /\ i + 1 \in 1..Len(q)
      BY <2>2, <1>3
    <3>2. a[i] = q[i] /\ a[i + 1] = q[i + 1]
      BY <3>1, <1>3
    <3> QED BY <3>1, <3>2 DEF Fit
  <2> QED BY <2>1, <2>2
<1>6. Fit(a)
  BY <1>4, <1>5, Zenon DEF Fit
<1> QED BY <1>2, <1>6

LEMMA PayloadFits ==
  ASSUME NEW q \in Seq(Sends), NEW p, Fit(q), q # <<>> => q[Len(q)] = A!PubRaw(p)
  PROVE  Fit(Append(q, A!Payload(p)))
<1>1. A!Payload(p) \in Sends
  BY DEF Words, Sends, A!Payload
<1>2. PICK a : a = Append(q, A!Payload(p))
  OBVIOUS
<1>3. /\ Len(a) = Len(q) + 1 /\ Len(q) \in Nat
      /\ \A i \in 1..Len(q) : a[i] = q[i]
      /\ a[Len(q) + 1] = A!Payload(p)
  BY <1>1, <1>2, Appended
<1>4. q = <<>> => Len(q) = 0
  OBVIOUS
<1>5. ASSUME NEW i \in 1..Len(q)
      PROVE  /\ ~(a[i] = "AT+MQTTPUBRAW meas" /\ a[i + 1] = "payload resp")
             /\ ~(a[i] = "AT+MQTTPUBRAW resp" /\ a[i + 1] = "payload meas")
  <2>1. CASE i = Len(q)
    <3>1. a[i] = A!PubRaw(p) /\ a[i + 1] = A!Payload(p)
      BY <2>1, <1>5, <1>3, <1>4
    <3> QED BY <3>1 DEF A!PubRaw, A!Payload
  <2>2. CASE i # Len(q)
    <3>1. i \in 1..Len(q) - 1 /\ i + 1 \in 1..Len(q)
      BY <2>2, <1>3
    <3>2. a[i] = q[i] /\ a[i + 1] = q[i + 1]
      BY <3>1, <1>3
    <3> QED BY <3>1, <3>2 DEF Fit
  <2> QED BY <2>1, <2>2
<1>6. Len(a) - 1 = Len(q)
  BY <1>3
<1>7. Fit(a)
  BY <1>6, <1>5, Zenon DEF Fit
<1> QED BY <1>2, <1>7
-----------------------------------------------------------------------------
(* What a handler may do.                                                  *)

\* Nothing that matters here is changed.
Alike(d, c) ==
    Ctx(c) =>
    /\ Ctx(d) /\ d.state = c.state /\ d.out = c.out /\ d.lastCmd = c.lastCmd
    /\ d.packet = c.packet /\ d.before = c.before
    /\ d.beforeCmd = c.beforeCmd /\ d.beforeList = c.beforeList

\* It sends a word, and then waits for its answer in another state.
Speaks(d, c, w, s) ==
    Ctx(c) =>
    /\ Ctx(d) /\ d.state = s /\ d.out = Append(c.out, w) /\ d.lastCmd \in {w, c.lastCmd}
    /\ d.packet = c.packet /\ d.before = c.before
    /\ d.beforeCmd = c.beforeCmd /\ d.beforeList = c.beforeList

\* It goes on to another state.
Turns(d, c, s) ==
    Ctx(c) =>
    /\ Ctx(d) /\ d.state = s /\ d.out = c.out /\ d.lastCmd = c.lastCmd
    /\ d.packet = c.packet /\ d.before = c.before
    /\ d.beforeCmd = c.beforeCmd /\ d.beforeList = c.beforeList

LEMMA AlikeKeeps ==
  ASSUME NEW c, NEW d, Alike(d, c) PROVE Keeps(d, c)
BY DEF Keeps, Good, Knows, Queue, Alike, ToTry

LEMMA SpeaksKeeps ==
  ASSUME NEW c, NEW d, NEW w \in Words, NEW s, Speaks(d, c, w, s),
         s \notin Held \/ (s \in Retrying /\ (c.state \in Retrying \/ kind = "poe"))
  PROVE  Keeps(d, c)
<1> SUFFICES ASSUME NEW q \in Seq(Sends), Good(c, q) PROVE Good(d, q)
  BY DEF Keeps
<1>1. Ctx(c) /\ Ctx(d) /\ w \in Sends /\ d.out = Append(c.out, w)
  BY DEF Good, Knows, Speaks, Sends
<1>2. q \o c.out \in Seq(Sends) /\ q \o d.out = Append(q \o c.out, w)
  BY <1>1, Behind DEF Ctx
<1>3. Fit(q \o d.out)
  BY <1>2, WordFits DEF Good, Queue
<1>4. d.state # "MQTT_WAIT_PUB"
  BY <1>1 DEF Held, Retrying, Speaks
<1>5. Knows(d)
  BY <1>1, <1>4 DEF Good, Knows, Speaks, ToTry, Held, Retrying
<1> QED BY <1>3, <1>4, <1>5 DEF Good, Queue

LEMMA TurnsKeeps ==
  ASSUME NEW c, NEW d, NEW s, Turns(d, c, s),
         s \notin Held \/ (s = c.beforeList /\ c.state = "AP_SCAN")
  PROVE  Keeps(d, c)
BY DEF Keeps, Good, Knows, Queue, Turns, ToTry, Held, Retrying

LEMMA Says ==
  ASSUME NEW c, NEW w \in Words, NEW s
  PROVE  /\ Speaks(A!W!SayAndWait(c, w, s), c, w, s)
         /\ Speaks(A!P!SayAndWait(c, w, s), c, w, s)
         /\ Speaks(A!SayAndWait(c, w, s), c, w, s)
<1> DEFINE Said(d) == /\ d.out = Append(c.out, w) /\ d.lastCmd = w /\ d.state = s
                      /\ d.packet = c.packet /\ d.before = c.before /\ d.nest = c.nest
                      /\ d.beforeCmd = c.beforeCmd /\ d.beforeList = c.beforeList
                      /\ DOMAIN d = DOMAIN c
<1>1. ASSUME NEW d, Ctx(c) => Said(d) PROVE Speaks(d, c, w, s)
  <2>0. w \in Sends
    BY DEF Sends
  <2>1. Ctx(c) => Append(c.out, w) \in Seq(Sends)
    BY <2>0, Appended DEF Ctx
  <2> HIDE DEF Words
  <2> QED BY <1>1, <2>1 DEF Speaks, Ctx
<1>2. Ctx(c) => Said(A!W!SayAndWait(c, w, s))
  BY DEF Ctx, A!W!SayAndWait, A!W!Say
<1>3. Ctx(c) => Said(A!P!SayAndWait(c, w, s))
  BY DEF Ctx, A!P!SayAndWait, A!P!Say
<1>4. Ctx(c) => Said(A!SayAndWait(c, w, s))
  BY DEF Ctx, A!SayAndWait, A!Say
<1> HIDE DEF Said
<1> QED BY <1>1, <1>2, <1>3, <1>4

LEMMA Asks ==
  ASSUME NEW c, NEW w \in Words, NEW s, s \notin Held
  PROVE  /\ Keeps(A!W!SayAndWait(c, w, s), c)
         /\ Keeps(A!P!SayAndWait(c, w, s), c)
         /\ Keeps(A!SayAndWait(c, w, s), c)
BY Says, SpeaksKeeps

LEMMA Moves ==
  ASSUME NEW c, NEW s, s \notin Held \/ (s = c.beforeList /\ c.state = "AP_SCAN")
  PROVE  Keeps([c EXCEPT !.state = s], c)
<1>1. Turns([c EXCEPT !.state = s], c, s)
  BY DEF Turns, Ctx
<1> QED BY <1>1, TurnsKeeps

\* A field that matters to nothing here is set.
LEMMA Notes ==
  ASSUME NEW c, NEW x
  PROVE  /\ Keeps([c EXCEPT !.cw = x], c) /\ Keeps([c EXCEPT !.conn = x], c)
         /\ Keeps([c EXCEPT !.conf = x], c) /\ Keeps([c EXCEPT !.time = x], c)
         /\ Keeps([c EXCEPT !.mac = x], c) /\ Keeps([c EXCEPT !.auto = x], c)
         /\ Keeps([c EXCEPT !.aps = x], c) /\ Keeps([c EXCEPT !.enabled = x], c)
         /\ Keeps([c EXCEPT !.ack = x], c)
<1>1. /\ Alike([c EXCEPT !.cw = x], c) /\ Alike([c EXCEPT !.conn = x], c)
      /\ Alike([c EXCEPT !.conf = x], c)
  BY DEF Alike, Ctx
<1>2. /\ Alike([c EXCEPT !.mac = x], c) /\ Alike([c EXCEPT !.auto = x], c)
      /\ Alike([c EXCEPT !.time = x], c)
  BY DEF Alike, Ctx
<1>3. /\ Alike([c EXCEPT !.aps = x], c) /\ Alike([c EXCEPT !.enabled = x], c)
      /\ Alike([c EXCEPT !.ack = x], c)
  BY DEF Alike, Ctx
<1> QED BY <1>1, <1>2, <1>3, AlikeKeeps, Zenon

LEMMA Sleeps ==
  ASSUME NEW c, NEW r \in Rests
  PROVE  /\ Keeps(A!W!Sleep(c, r), c) /\ Keeps(A!P!Sleep(c, r), c)
         /\ Keeps(A!Sleep(c, r), c)
<1>1. Ctx(c) => Append(c.nest, r) \in Seq(Rests)
  BY DEF Ctx
<1>2. Alike(A!W!Sleep(c, r), c)
  BY <1>1 DEF Alike, Ctx, A!W!Sleep
<1>3. Alike(A!P!Sleep(c, r), c)
  BY <1>1 DEF Alike, Ctx, A!P!Sleep
<1>4. Alike(A!Sleep(c, r), c)
  BY <1>1 DEF Alike, Ctx, A!Sleep
<1> QED BY <1>2, <1>3, <1>4, AlikeKeeps
-----------------------------------------------------------------------------
(* The WiFi driver.                                                        *)

LEMMA WifiSays ==
  ASSUME NEW c
  PROVE  /\ Keeps(A!W!Reset(c), c) /\ Keeps(A!W!Start(c), c)
         /\ Keeps(A!W!IsMqttConnected(c), c) /\ Keeps(A!W!IsMqttSubscribed(c), c)
         /\ Keeps(A!W!SendRfRegion(c), c) /\ Keeps(A!W!DoMqttUserConf(c), c)
         /\ Keeps(A!W!DoMqttSub(c), c) /\ Keeps(A!W!AfterRfRegion(c), c)
         /\ Keeps(A!W!AfterWifiInit(c), c) /\ Keeps(A!W!AfterWaitConf(c), c)
<1>1. /\ "AT+RESTORE" \in Words /\ "AT+CWSTATE?" \in Words
      /\ "AT+MQTTCONN?" \in Words /\ "AT+MQTTSUB?" \in Words
      /\ "AT+CWCOUNTRY" \in Words /\ "AT+MQTTUSERCFG" \in Words
      /\ "AT+MQTTSUB" \in Words /\ "AT+CWMODE" \in Words
      /\ "AT+CWJAP" \in Words /\ "AT+MQTTCONN" \in Words
  BY DEF Words
<1>2. /\ "RESTORE" \notin Held /\ "IS_CONNECTED" \notin Held
      /\ "MQTT_IS_CONNECTED" \notin Held /\ "MQTT_IS_SUBSCRIBED" \notin Held
      /\ "RF_REGION" \notin Held /\ "MQTT_WAIT_USR_CONF" \notin Held
      /\ "MQTT_WAIT_SUB" \notin Held /\ "WIFI_SETTING_MODE" \notin Held
      /\ "WIFI_CONNECTING" \notin Held /\ "MQTT_CONNECTING" \notin Held
  BY DEF Held, Retrying
<1>3. Keeps(A!W!Reset(c), c)
  BY <1>1, <1>2, Asks, Zenon DEF A!W!Reset
<1>4. Keeps(A!W!Start(c), c)
  BY <1>1, <1>2, Asks, Itself, Zenon DEF A!W!Start
<1>5. Keeps(A!W!IsMqttConnected(c), c) /\ Keeps(A!W!IsMqttSubscribed(c), c)
  BY <1>1, <1>2, Asks, Zenon DEF A!W!IsMqttConnected, A!W!IsMqttSubscribed
<1>6. Keeps(A!W!SendRfRegion(c), c) /\ Keeps(A!W!DoMqttUserConf(c), c)
  BY <1>1, <1>2, Asks, Zenon DEF A!W!SendRfRegion, A!W!DoMqttUserConf, A!W!UserCfg
<1>7. Keeps(A!W!DoMqttSub(c), c) /\ Keeps(A!W!AfterRfRegion(c), c)
  BY <1>1, <1>2, Asks, Zenon DEF A!W!DoMqttSub, A!W!SubCfg, A!W!AfterRfRegion
<1>8. Keeps(A!W!AfterWifiInit(c), c) /\ Keeps(A!W!AfterWaitConf(c), c)
  BY <1>1, <1>2, Asks, Zenon DEF A!W!AfterWifiInit, A!W!AfterWaitConf, A!W!MqttConn
<1> QED BY <1>3, <1>4, <1>5, <1>6, <1>7, <1>8

LEMMA WifiHwReset ==
  ASSUME NEW c PROVE Keeps(A!W!HwReset(c), c)
<1>1. "PULSE" \in Words /\ "RESTORE" \notin Held /\ "PULSE" \in Sends
  BY DEF Words, Held, Retrying, Sends
<1>2. Ctx(c) => Append(c.out, "PULSE") \in Seq(Sends)
  BY <1>1, Appended, Zenon DEF Ctx
<1>3. Speaks(A!W!HwReset(c), c, "PULSE", "RESTORE")
  BY <1>2 DEF Speaks, Ctx, A!W!HwReset, A!W!RawSend
<1> QED BY <1>1, <1>3, SpeaksKeeps, Zenon

LEMMA WifiOkOrReset ==
  ASSUME NEW c, NEW l, NEW d, Keeps(d, c)
  PROVE  Keeps(A!W!OkOrReset(c, l, d), c)
BY WifiSays, Itself, Zenon DEF A!W!OkOrReset

\* The states of the way up to the subscription.
LEMMA WifiJoins ==
  ASSUME NEW c, NEW l
  PROVE  /\ Keeps(A!W!ProcessOff(c, l), c) /\ Keeps(A!W!ProcessIsConnected(c, l), c)
         /\ Keeps(A!W!ProcessRestore(c, l), c)
         /\ Keeps(A!W!ProcessDisableEcho(c, l), c)
         /\ Keeps(A!W!ProcessWaitMac(c, l), c)
         /\ Keeps(A!W!ProcessRfRegion(c, l), c)
         /\ Keeps(A!W!ProcessSettingMode(c, l), c)
         /\ Keeps(A!W!ProcessWifiInit(c, l), c)
         /\ Keeps(A!W!ProcessWifiConn(c, l), c)
         /\ Keeps(A!W!ProcessSntp(c, l), c)
<1>1. /\ "ATE0" \in Words /\ "AT+CIPSTAMAC?" \in Words /\ "AT+CWINIT" \in Words
      /\ "AT+CIPSNTPCFG" \in Words
      /\ "rf" \in Rests /\ "init" \in Rests /\ "sntp" \in Rests
  BY DEF Words, Rests
<1>2. /\ "DISABLE_ECHO" \notin Held /\ "WAIT_MAC_ADDRESS" \notin Held
      /\ "NO_CONF" \notin Held /\ "WIFI_INIT" \notin Held
      /\ "SNTP_WAIT_SET" \notin Held /\ "WIFI_FAIL_CONNECT" \notin Held
      /\ "WIFI_CONNECTING" \notin Held
  BY DEF Held, Retrying
<1>3. Keeps(A!W!ProcessOff(c, l), c)
  BY WifiSays, Itself, Zenon DEF A!W!ProcessOff
<1>4. Keeps(A!W!ProcessIsConnected(c, l), c)
  <2>1. Keeps([c EXCEPT !.state = "WIFI_CONNECTING"], c)
    BY <1>2, Moves, Zenon
  <2>2. \A d : Keeps(d, c) => Keeps([d EXCEPT !.cw = "down"], c)
    BY Notes, KeepsTwice, Zenon
  <2>3. Keeps([c EXCEPT !.cw = "up"], c) /\ Keeps([c EXCEPT !.cw = "joining"], c)
        /\ Keeps([c EXCEPT !.cw = "down"], c)
    BY Notes, Zenon
  <2>4. PICK d : d = CASE c.cw = "up" -> A!W!IsMqttConnected(c)
                       [] c.cw = "joining" -> [c EXCEPT !.state = "WIFI_CONNECTING"]
                       [] OTHER -> A!W!Reset(c)
    OBVIOUS
  <2>5. Keeps(d, c)
    BY <2>1, <2>4, WifiSays
  <2>6. Keeps([d EXCEPT !.cw = "down"], c) /\ Keeps([A!W!Reset(c) EXCEPT !.cw = "down"], c)
    BY <2>2, <2>5, WifiSays, Zenon
  <2>7. A!W!ProcessIsConnected(c, l) =
          CASE l = "+CWSTATE up" -> [c EXCEPT !.cw = "up"]
            [] l = "+CWSTATE joining" -> [c EXCEPT !.cw = "joining"]
            [] l = "+CWSTATE down" -> [c EXCEPT !.cw = "down"]
            [] A!W!IsOk(l) -> [d EXCEPT !.cw = "down"]
            [] A!W!IsError(l) -> [A!W!Reset(c) EXCEPT !.cw = "down"]
            [] OTHER -> c
    BY <2>4, Zenon DEF A!W!ProcessIsConnected
  <2> QED BY <2>3, <2>6, <2>7, Itself
<1>5. Keeps(A!W!ProcessRestore(c, l), c)
  <2>1. Keeps(A!W!SayAndWait(c, "ATE0", "DISABLE_ECHO"), c)
    BY <1>1, <1>2, Asks, Zenon
  <2> QED BY <2>1, WifiSays, Itself DEF A!W!ProcessRestore
<1>6. Keeps(A!W!ProcessDisableEcho(c, l), c)
  BY <1>1, <1>2, Asks, WifiOkOrReset, Zenon DEF A!W!ProcessDisableEcho
<1>7. Keeps(A!W!ProcessWaitMac(c, l), c)
  <2>1. Keeps(A!W!KeepMac(c), c) /\ Keeps([c EXCEPT !.state = "NO_CONF"], c)
    BY <1>2, Notes, Moves, Zenon DEF A!W!KeepMac
  <2> QED BY <2>1, WifiSays, Itself DEF A!W!ProcessWaitMac
<1>8. Keeps(A!W!ProcessRfRegion(c, l), c)
  BY <1>1, Sleeps, WifiOkOrReset, Zenon DEF A!W!ProcessRfRegion
<1>9. Keeps(A!W!ProcessSettingMode(c, l), c)
  BY <1>1, <1>2, Asks, WifiOkOrReset, Zenon DEF A!W!ProcessSettingMode
<1>10. Keeps(A!W!ProcessWifiInit(c, l), c)
  BY <1>1, Sleeps, WifiOkOrReset, Zenon DEF A!W!ProcessWifiInit
<1>11. Keeps(A!W!ProcessWifiConn(c, l), c)
  <2>1. Keeps(A!W!SayAndWait(c, A!W!NtpCfg, "SNTP_WAIT_SET"), c)
    BY <1>1, <1>2, Asks, Zenon DEF A!W!NtpCfg
  <2>2. Keeps([c EXCEPT !.state = "WIFI_FAIL_CONNECT"], c)
    BY <1>2, Moves, Zenon
  <2> QED BY <2>1, <2>2, Itself DEF A!W!ProcessWifiConn
<1>12. Keeps(A!W!ProcessSntp(c, l), c)
  <2>1. Keeps(A!W!Sleep(c, "sntp"), c)
    BY <1>1, Sleeps, Zenon
  <2> QED BY <2>1, WifiSays, Itself DEF A!W!ProcessSntp
<1> QED BY <1>3, <1>4, <1>5, <1>6, <1>7, <1>8, <1>9, <1>10, <1>11, <1>12

LEMMA WifiSubscribes ==
  ASSUME NEW c, NEW l
  PROVE  /\ Keeps(A!W!ProcessUsrConf(c, l), c)
         /\ Keeps(A!W!ProcessIsMqttConnected(c, l), c)
         /\ Keeps(A!W!ProcessIsSubscribed(c, l), c)
         /\ Keeps(A!W!ProcessWaitConf(c, l), c)
         /\ Keeps(A!W!ProcessConnecting(c, l), c)
         /\ Keeps(A!W!ProcessWaitSub(c, l), c)
<1>1. "AT+MQTTCONNCFG" \in Words /\ "conf" \in Rests /\ "connecting" \in Rests
  BY DEF Words, Rests
<1>2. "MQTT_WAIT_CONF" \notin Held /\ "IDLE" \notin Held
  BY DEF Held, Retrying
<1>3. Keeps([c EXCEPT !.state = "IDLE"], c)
  BY <1>2, Moves, Zenon
<1>4. Keeps(A!W!ProcessUsrConf(c, l), c)
  BY <1>1, <1>2, Asks, WifiOkOrReset, Zenon DEF A!W!ProcessUsrConf, A!W!ConnCfg
<1>5. Keeps(A!W!ProcessIsMqttConnected(c, l), c)
  <2>1. Keeps([c EXCEPT !.conn = A!W!ConnOf(l)], c)
    BY Notes, Zenon
  <2>2. PICK d : d = IF c.conn = "up" THEN A!W!IsMqttSubscribed(c) ELSE A!W!DoMqttUserConf(c)
    OBVIOUS
  <2>3. Keeps(d, c)
    BY <2>2, WifiSays
  <2>4. Keeps([d EXCEPT !.conn = "down"], c)
    BY <2>3, Notes, KeepsTwice, Zenon
  <2> QED BY <2>1, <2>2, <2>4, WifiSays, Itself, Zenon DEF A!W!ProcessIsMqttConnected
<1>6. Keeps(A!W!ProcessIsSubscribed(c, l), c)
  BY <1>3, WifiSays, WifiOkOrReset, Zenon DEF A!W!ProcessIsSubscribed
<1>7. Keeps(A!W!ProcessWaitConf(c, l), c) /\ Keeps(A!W!ProcessConnecting(c, l), c)
  BY <1>1, Sleeps, WifiOkOrReset, Zenon DEF A!W!ProcessWaitConf, A!W!ProcessConnecting
<1>8. Keeps(A!W!ProcessWaitSub(c, l), c)
  BY <1>3, WifiOkOrReset, Zenon DEF A!W!ProcessWaitSub
<1> QED BY <1>4, <1>5, <1>6, <1>7, <1>8

\* The announcement of a packet, and the wait to send it.
Announces(d, c, p) ==
    Ctx(c) =>
    /\ Ctx(d) /\ d.state = "MQTT_WAIT_PUB" /\ d.out = Append(c.out, A!PubRaw(p))
    /\ d.lastCmd = A!PubRaw(p) /\ d.packet = p
    /\ d.before = c.before /\ d.beforeCmd = c.beforeCmd /\ d.beforeList = c.beforeList

LEMMA PubRawIsWord ==
  ASSUME NEW p
  PROVE  /\ A!PubRaw(p) \in Words /\ A!PubRaw(p) \in Sends
         /\ A!W!PubRaw(p) = A!PubRaw(p) /\ A!P!PubRaw(p) = A!PubRaw(p)
         /\ A!W!Payload(p) = A!Payload(p) /\ A!P!Payload(p) = A!Payload(p)
         /\ A!Payload(p) \in Sends
<1>1. A!PubRaw(p) \in Words /\ A!PubRaw(p) \in Sends
  BY DEF A!PubRaw, Words, Sends
<1>2. A!W!PubRaw(p) = A!PubRaw(p) /\ A!P!PubRaw(p) = A!PubRaw(p)
  BY DEF A!PubRaw, A!W!PubRaw, A!P!PubRaw
<1>3. A!W!Payload(p) = A!Payload(p) /\ A!P!Payload(p) = A!Payload(p)
  BY DEF A!Payload, A!W!Payload, A!P!Payload
<1>4. A!Payload(p) \in Sends
  BY DEF A!Payload, Sends
<1> QED BY <1>1, <1>2, <1>3, <1>4

LEMMA AnnouncesKeeps ==
  ASSUME NEW c, NEW d, NEW p, Announces(d, c, p)
  PROVE  Keeps(d, c)
<1> SUFFICES ASSUME NEW q \in Seq(Sends), Good(c, q) PROVE Good(d, q)
  BY DEF Keeps
<1>1. Ctx(c) /\ Ctx(d) /\ d.out = Append(c.out, A!PubRaw(p))
  BY DEF Good, Knows, Announces
<1>2. q \o c.out \in Seq(Sends) /\ q \o d.out = Append(q \o c.out, A!PubRaw(p))
  BY <1>1, Behind, PubRawIsWord DEF Ctx
<1>3. Fit(q \o d.out)
  BY <1>2, WordFits, PubRawIsWord DEF Good, Queue
<1>4. PICK a : a = Append(q \o c.out, A!PubRaw(p))
  OBVIOUS
<1>5. a[Len(a)] = A!PubRaw(p)
  BY <1>2, <1>4, PubRawIsWord, Appended
<1>6. d.state = "MQTT_WAIT_PUB" /\ d.packet = p /\ d.lastCmd = A!PubRaw(p)
  BY <1>1 DEF Announces
<1>7. Knows(d)
  BY <1>1, <1>6 DEF Good, Knows, Announces, ToTry, Retrying
<1>8. Queue(d, a)
  BY <1>3, <1>2, <1>4, <1>5, <1>6 DEF Queue
<1> QED BY <1>2, <1>4, <1>7, <1>8 DEF Good

LEMMA Publishes ==
  ASSUME NEW c, NEW t
  PROVE  /\ Keeps(A!W!Publish(c, t), c) /\ Keeps(A!P!Publish(c, t), c)
         /\ Keeps(A!Publish(c, t), c)
<1> DEFINE Said(d) == /\ d.out = Append(c.out, A!PubRaw(t)) /\ d.lastCmd = A!PubRaw(t)
                      /\ d.state = "MQTT_WAIT_PUB" /\ d.packet = t
                      /\ d.before = c.before /\ d.nest = c.nest
                      /\ d.beforeCmd = c.beforeCmd /\ d.beforeList = c.beforeList
                      /\ DOMAIN d = DOMAIN c
<1>1. ASSUME NEW d, Ctx(c) => Said(d) PROVE Keeps(d, c)
  <2>1. Ctx(c) => Append(c.out, A!PubRaw(t)) \in Seq(Sends)
    BY PubRawIsWord, Appended DEF Ctx
  <2>2. Announces(d, c, t)
    BY <1>1, <2>1, PubRawIsWord DEF Announces, Ctx
  <2> QED BY <2>2, AnnouncesKeeps
<1>2. Ctx(c) => Said([A!W!SayAndWait(c, A!PubRaw(t), "MQTT_WAIT_PUB") EXCEPT !.packet = t])
  BY DEF Ctx, A!W!SayAndWait, A!W!Say
<1>3. Ctx(c) => Said([A!P!SayAndWait(c, A!PubRaw(t), "MQTT_WAIT_PUB") EXCEPT !.packet = t])
  BY DEF Ctx, A!P!SayAndWait, A!P!Say
<1>4. Ctx(c) => Said([A!SayAndWait(c, A!PubRaw(t), "MQTT_WAIT_PUB") EXCEPT !.packet = t])
  BY DEF Ctx, A!SayAndWait, A!Say
<1> HIDE DEF Said
<1>5. Keeps(A!W!Publish(c, t), c)
  BY <1>1, <1>2, PubRawIsWord, Itself, Zenon DEF A!W!Publish
<1>6. Keeps(A!P!Publish(c, t), c)
  BY <1>1, <1>3, PubRawIsWord, Itself, Zenon DEF A!P!Publish
<1>7. Keeps(A!Publish(c, t), c)
  BY <1>1, <1>4, PubRawIsWord, Itself, Zenon DEF A!Publish
<1> QED BY <1>5, <1>6, <1>7

\* The payload goes out.
LEMMA PaysKeeps ==
  ASSUME NEW c, NEW d, c.state = "MQTT_WAIT_PUB",
         Ctx(c) => /\ Ctx(d) /\ d.state = "MQTT_PUBLISHING"
                   /\ d.out = Append(c.out, A!Payload(c.packet))
                   /\ d.before = c.before /\ d.beforeList = c.beforeList
  PROVE  Keeps(d, c)
<1> SUFFICES ASSUME NEW q \in Seq(Sends), Good(c, q) PROVE Good(d, q)
  BY DEF Keeps
<1>1. Ctx(c) /\ Ctx(d) /\ d.out = Append(c.out, A!Payload(c.packet))
  BY DEF Good, Knows
<1>2. q \o c.out \in Seq(Sends) /\ q \o d.out = Append(q \o c.out, A!Payload(c.packet))
  BY <1>1, Behind, PubRawIsWord DEF Ctx
<1>3. PICK a : a = q \o c.out
  OBVIOUS
<1>4. a \in Seq(Sends) /\ Fit(a) /\ (a # <<>> => a[Len(a)] = A!PubRaw(c.packet))
  BY <1>2, <1>3 DEF Good, Queue
<1>5. Fit(Append(a, A!Payload(c.packet)))
  BY <1>4, PayloadFits
<1>6. Fit(q \o d.out)
  BY <1>2, <1>3, <1>5
<1>7. Knows(d)
  BY <1>1 DEF Good, Knows, ToTry, Retrying
<1> QED BY <1>1, <1>6, <1>7 DEF Good, Queue

LEMMA Pays ==
  ASSUME NEW c, c.state = "MQTT_WAIT_PUB"
  PROVE  /\ Keeps(A!W!RawSend([c EXCEPT !.state = "MQTT_PUBLISHING"], A!W!Payload(c.packet)), c)
         /\ Keeps(A!P!RawSend([c EXCEPT !.state = "MQTT_PUBLISHING"], A!P!Payload(c.packet)), c)
<1>1. Ctx(c) => Append(c.out, A!Payload(c.packet)) \in Seq(Sends)
  BY PubRawIsWord, Appended DEF Ctx
<1>2. PICK p : p = A!Payload(c.packet)
  OBVIOUS
<1>3. Keeps(A!W!RawSend([c EXCEPT !.state = "MQTT_PUBLISHING"], p), c)
  <2> DEFINE d == A!W!RawSend([c EXCEPT !.state = "MQTT_PUBLISHING"], p)
  <2>1. Ctx(c) => /\ Ctx(d) /\ d.state = "MQTT_PUBLISHING"
                  /\ d.out = Append(c.out, A!Payload(c.packet))
                  /\ d.before = c.before /\ d.beforeList = c.beforeList
    BY <1>1, <1>2 DEF Ctx, A!W!RawSend
  <2> HIDE DEF d
  <2>2. Keeps(d, c)
    BY <2>1, PaysKeeps
  <2> QED BY <2>2 DEF d
<1>4. Keeps(A!P!RawSend([c EXCEPT !.state = "MQTT_PUBLISHING"], p), c)
  <2> DEFINE d == A!P!RawSend([c EXCEPT !.state = "MQTT_PUBLISHING"], p)
  <2>1. Ctx(c) => /\ Ctx(d) /\ d.state = "MQTT_PUBLISHING"
                  /\ d.out = Append(c.out, A!Payload(c.packet))
                  /\ d.before = c.before /\ d.beforeList = c.beforeList
    BY <1>1, <1>2 DEF Ctx, A!P!RawSend
  <2> HIDE DEF d
  <2>2. Keeps(d, c)
    BY <2>1, PaysKeeps
  <2> QED BY <2>2 DEF d
<1> QED BY <1>2, <1>3, <1>4, PubRawIsWord, Zenon

\* A command is tried again: if it is an announcement, it is that of the packet.
LEMMA Retries ==
  ASSUME NEW c, c.state \in Retrying
  PROVE  Keeps(A!W!RetryCommand(c), c) /\ Keeps(A!P!RetryCommand(c), c)
<1>1. ASSUME NEW d,
             Ctx(c) => /\ d.out = Append(c.out, c.beforeCmd) /\ d.lastCmd = c.beforeCmd
                       /\ d.state = c.before
                       /\ d.packet = c.packet /\ d.before = c.before /\ d.nest = c.nest
                       /\ d.beforeCmd = c.beforeCmd /\ d.beforeList = c.beforeList
                       /\ DOMAIN d = DOMAIN c
      PROVE  Keeps(d, c)
  <2> SUFFICES ASSUME NEW q \in Seq(Sends), Good(c, q) PROVE Good(d, q)
    BY DEF Keeps
  <2>1. Ctx(c) /\ c.beforeCmd \in Words /\ c.beforeCmd \in Sends /\ ToTry(c)
    BY DEF Good, Knows, Ctx, Sends, ToTry
  <2>2. Append(c.out, c.beforeCmd) \in Seq(Sends)
    BY <2>1, Appended DEF Ctx
  <2>3. Ctx(d)
    BY <1>1, <2>1, <2>2 DEF Ctx
  <2>4. PICK w : w = c.beforeCmd
    OBVIOUS
  <2>5. PICK o : o = c.out
    OBVIOUS
  <2>6. /\ w \in Words /\ w \in Sends /\ o \in Seq(Sends)
        /\ d.out = Append(o, w) /\ Fit(q \o o)
    BY <1>1, <2>1, <2>4, <2>5 DEF Ctx, Good, Queue
  <2>7. q \o o \in Seq(Sends) /\ q \o d.out = Append(q \o o, w)
    BY <2>6, Behind
  <2>8. PICK b : b = q \o o
    OBVIOUS
  <2>9. Fit(Append(b, w))
    BY <2>6, <2>7, <2>8, WordFits
  <2>10. Append(b, w)[Len(Append(b, w))] = w
    BY <2>6, <2>7, <2>8, Appended
  <2>11. PICK a : a = Append(b, w)
    OBVIOUS
  <2>12. c.before = "MQTT_WAIT_PUB" => c.beforeCmd = A!PubRaw(c.packet)
    BY <2>1 DEF Good, Knows
  <2>13. Knows(d)
    BY <1>1, <2>1, <2>3, <2>12 DEF Good, Knows, ToTry, Retrying
  <2>14. Queue(d, a)
    BY <1>1, <2>1, <2>4, <2>9, <2>10, <2>11, <2>12 DEF Queue
  <2> QED BY <2>7, <2>8, <2>11, <2>13, <2>14 DEF Good
<1>2. Keeps(A!W!RetryCommand(c), c)
  <2> DEFINE d == A!W!RetryCommand(c)
  <2>1. Ctx(c) => /\ d.out = Append(c.out, c.beforeCmd) /\ d.lastCmd = c.beforeCmd
                  /\ d.state = c.before
                  /\ d.packet = c.packet /\ d.before = c.before /\ d.nest = c.nest
                  /\ d.beforeCmd = c.beforeCmd /\ d.beforeList = c.beforeList
                  /\ DOMAIN d = DOMAIN c
    BY DEF Ctx, A!W!RetryCommand, A!W!SayAndWait, A!W!Say
  <2> HIDE DEF d
  <2>2. Keeps(d, c)
    BY <1>1, <2>1
  <2> QED BY <2>2 DEF d
<1>3. Keeps(A!P!RetryCommand(c), c)
  <2> DEFINE d == A!P!RetryCommand(c)
  <2>1. Ctx(c) => /\ d.out = Append(c.out, c.beforeCmd) /\ d.lastCmd = c.beforeCmd
                  /\ d.state = c.before
                  /\ d.packet = c.packet /\ d.before = c.before /\ d.nest = c.nest
                  /\ d.beforeCmd = c.beforeCmd /\ d.beforeList = c.beforeList
                  /\ DOMAIN d = DOMAIN c
    BY DEF Ctx, A!P!RetryCommand, A!P!SayAndWait, A!P!Say
  <2> HIDE DEF d
  <2>2. Keeps(d, c)
    BY <1>1, <2>1
  <2> QED BY <2>2 DEF d
<1> QED BY <1>2, <1>3

LEMMA SpeaksAgain ==
  ASSUME NEW c, NEW w \in Words, NEW s \in Retrying,
         c.state \in Retrying \/ kind = "poe"
  PROVE  Keeps(A!W!SayAndWait(c, w, s), c) /\ Keeps(A!P!SayAndWait(c, w, s), c)
BY Says, SpeaksKeeps

LEMMA WifiPublishes ==
  ASSUME NEW c, NEW l
  PROVE  /\ c.state = "MQTT_WAIT_PUB" => Keeps(A!W!ProcessWaitPub(c, l), c)
         /\ Keeps(A!W!ProcessPublishing(c, l), c)
         /\ Keeps(A!W!SentAck(c, TRUE), c) /\ Keeps(A!W!SentAck(c, FALSE), c)
         /\ Keeps(A!W!WaitTimestamp(c, l), c)
<1>1. "IDLE" \notin Held
  BY DEF Held, Retrying
<1>2. c.state = "MQTT_WAIT_PUB" => Keeps(A!W!ProcessWaitPub(c, l), c)
  BY Pays, WifiOkOrReset, Zenon DEF A!W!ProcessWaitPub
<1>3. \A d, ok : Keeps(A!W!SentAck(d, ok), d)
  BY Notes, Zenon DEF A!W!SentAck
<1>4. Keeps([c EXCEPT !.state = "IDLE"], c)
  BY <1>1, Moves, Zenon
<1>5. Keeps(A!W!SentAck([c EXCEPT !.state = "IDLE"], TRUE), c)
  BY <1>3, <1>4, KeepsTwice, Zenon
<1>6. Keeps(A!W!SentAck(c, TRUE), c) /\ Keeps(A!W!SentAck(c, FALSE), c)
  BY <1>3, Zenon
<1>7. Keeps(A!W!Reset(A!W!SentAck(c, FALSE)), c)
  BY <1>6, WifiSays, KeepsTwice, Zenon
<1>8. Keeps(A!W!ProcessPublishing(c, l), c)
  BY <1>5, <1>7, Itself DEF A!W!ProcessPublishing
<1>9. Keeps([c EXCEPT !.time = "fresh"], c)
  BY Notes, Zenon
<1>10. Keeps(A!W!WaitTimestamp(c, l), c)
  BY <1>4, <1>9, Itself, Zenon DEF A!W!WaitTimestamp
<1> QED BY <1>2, <1>6, <1>8, <1>10

LEMMA WifiRecovers ==
  ASSUME NEW c, NEW l, c.state \in Retrying
  PROVE  /\ Keeps(A!W!TimedoutWifi(c, l), c) /\ Keeps(A!W!TimedoutMqttWifi(c, l), c)
         /\ Keeps(A!W!TimedoutMqtt(c, l), c)
<1>1. "AT+MQTTCONN?" \in Words /\ "TIMEDOUT_MQTT_WAIT_MQTT_STATE" \in Retrying
  BY DEF Words, Retrying
<1>2. Keeps(A!W!SayAndWait(c, "AT+MQTTCONN?", "TIMEDOUT_MQTT_WAIT_MQTT_STATE"), c)
  BY <1>1, SpeaksAgain, Zenon
<1>3. Keeps(A!W!TimedoutWifi(c, l), c)
  BY Retries, WifiHwReset, Itself DEF A!W!TimedoutWifi
<1>4. Keeps(A!W!TimedoutMqttWifi(c, l), c)
  BY <1>2, WifiHwReset, Itself DEF A!W!TimedoutMqttWifi
<1>5. Keeps(A!W!TimedoutMqtt(c, l), c)
  BY Retries, WifiSays, Itself DEF A!W!TimedoutMqtt
<1> QED BY <1>3, <1>4, <1>5

LEMMA WifiScanEnds ==
  ASSUME NEW c, NEW l, c.state = "AP_SCAN"
  PROVE  Keeps(A!W!ProcessApScan(c, l), c)
<1>1. Keeps([c EXCEPT !.state = c.beforeList], c)
  BY Moves, Zenon
<1>2. PICK n : n = IF c.aps < MaxAps THEN c.aps + 1 ELSE c.aps
  OBVIOUS
<1>3. Keeps([c EXCEPT !.aps = n], c)
  BY Notes
<1>4. [c EXCEPT !.aps = IF @ < MaxAps THEN @ + 1 ELSE @] = [c EXCEPT !.aps = n]
  BY <1>2
<1> QED BY <1>1, <1>3, <1>4, Itself DEF A!W!ProcessApScan

LEMMA WifiHandles ==
  ASSUME NEW c, NEW l
  PROVE  Keeps(A!W!Handle(c, l), c)
<1>1. /\ "TIMEDOUT_WIFI_WAIT_STATE" \in Retrying
      /\ "TIMEDOUT_MQTT_WAIT_WIFI_STATE" \in Retrying
      /\ "TIMEDOUT_MQTT_WAIT_MQTT_STATE" \in Retrying
  BY DEF Retrying
<1>2. /\ c.state = "TIMEDOUT_WIFI_WAIT_STATE" => Keeps(A!W!TimedoutWifi(c, l), c)
      /\ c.state = "TIMEDOUT_MQTT_WAIT_WIFI_STATE" => Keeps(A!W!TimedoutMqttWifi(c, l), c)
      /\ c.state = "TIMEDOUT_MQTT_WAIT_MQTT_STATE" => Keeps(A!W!TimedoutMqtt(c, l), c)
  BY <1>1, WifiRecovers, Zenon
<1>3. c.state = "AP_SCAN" => Keeps(A!W!ProcessApScan(c, l), c)
  BY WifiScanEnds
<1> QED BY <1>2, <1>3, WifiPublishes, WifiSubscribes, WifiJoins, Itself DEF A!W!Handle

LEMMA Settings ==
  ASSUME NEW c
  PROVE  /\ Keeps(A!W!Configure(c), c) /\ Keeps(A!P!Configure(c), c)
BY Notes, Zenon DEF A!W!Configure, A!P!Configure

\* The scan, which remembers the state it came from.
LEMMA WifiScans ==
  ASSUME NEW c, NEW r \in Rests
  PROVE  Keeps(A!W!ListStations(c, r), c)
<1>1. "AT+CWLAP" \in Words
  BY DEF Words
<1>2. Speaks(A!W!SayAndWait(c, "AT+CWLAP", "AP_SCAN"), c, "AT+CWLAP", "AP_SCAN")
  BY <1>1, Says, Zenon
<1>3. PICK e : e = (c.enabled /\ ~A!W!Connected(c))
  OBVIOUS
<1>4. PICK b : b = A!W!SayAndWait(c, "AT+CWLAP", "AP_SCAN")
  OBVIOUS
<1>5. PICK d : d = [b EXCEPT !.beforeList = c.state, !.aps = 0, !.enabled = e]
  OBVIOUS
<1>6. Ctx(c) =>
        /\ Ctx(d) /\ d.state = "AP_SCAN" /\ d.out = Append(c.out, "AT+CWLAP")
        /\ d.packet = c.packet /\ d.before = c.before
        /\ d.beforeCmd = c.beforeCmd /\ d.beforeList = c.state
  BY <1>2, <1>4, <1>5 DEF Speaks, Ctx
<1>7. c.state \in A!W!CanList => Keeps(d, c)
  <2> SUFFICES ASSUME c.state \in A!W!CanList, NEW q \in Seq(Sends), Good(c, q)
               PROVE  Good(d, q)
    BY DEF Keeps
  <2>1. Ctx(c) /\ "AT+CWLAP" \in Sends
    BY <1>1 DEF Good, Knows, Sends
  <2>2. PICK o : o = c.out
    OBVIOUS
  <2>3. PICK w : w = "AT+CWLAP"
    OBVIOUS
  <2>4. o \in Seq(Sends) /\ w \in Sends /\ w \in Words /\ d.out = Append(o, w)
    BY <1>1, <1>6, <2>1, <2>2, <2>3 DEF Ctx
  <2>5. q \o o \in Seq(Sends) /\ q \o d.out = Append(q \o o, w)
    BY <2>4, Behind
  <2>6. Fit(q \o o)
    BY <2>2 DEF Good, Queue
  <2>7. Fit(q \o d.out)
    BY <2>4, <2>5, <2>6, WordFits
  <2>8. c.state # "MQTT_WAIT_PUB"
    BY DEF A!W!CanList
  <2>9. Knows(d)
    BY <1>6, <2>1, <2>8 DEF Good, Knows, ToTry, Retrying
  <2> QED BY <1>6, <2>1, <2>7, <2>9 DEF Good, Queue
<1>8. Keeps(A!W!Sleep(d, r), d)
  BY Sleeps
<1>9. A!W!ListStations(c, r) = IF c.state \notin A!W!CanList THEN c ELSE A!W!Sleep(d, r)
  BY <1>3, <1>4, <1>5, Zenon DEF A!W!ListStations
<1> QED BY <1>7, <1>8, <1>9, Itself, KeepsTwice

LEMMA WifiCommands ==
  ASSUME NEW c, NEW cmd, NEW r \in Rests
  PROVE  Keeps(A!W!DoCommand(c, cmd, r), c)
<1>1. Keeps(A!W!Configure(c), c)
  BY Settings
<1>2. Keeps(A!W!SendRfRegion(A!W!Configure(c)), c) /\ Keeps(A!W!Reset(A!W!Configure(c)), c)
  BY <1>1, WifiSays, KeepsTwice, Zenon
<1>3. Keeps(A!W!CmdConfig(c), c)
  BY <1>1, <1>2 DEF A!W!CmdConfig
<1>4. PICK a : a = ~c.auto
  OBVIOUS
<1>5. Keeps([c EXCEPT !.auto = a], c)
  BY Notes
<1>6. [c EXCEPT !.auto = ~@] = [c EXCEPT !.auto = a]
  BY <1>4
<1> QED BY <1>3, <1>5, <1>6, WifiSays, WifiScans, Itself DEF A!W!DoCommand

LEMMA WifiProcesses ==
  ASSUME NEW c, NEW l PROVE Keeps(A!W!Process(c, l), c)
<1>1. "listcmd" \in Rests
  BY DEF Rests
<1>2. PICK d : d = A!W!DoCommand(c, A!W!EventCmd[l], "listcmd")
  OBVIOUS
<1>3. Keeps(d, c)
  BY <1>1, <1>2, WifiCommands, Zenon
<1>4. Keeps(A!W!Publish(d, "resp"), c)
  BY <1>3, Publishes, KeepsTwice, Zenon
<1> QED BY <1>2, <1>3, <1>4, WifiHandles, Zenon DEF A!W!Process

\* A handler asleep is one of those.
LEMMA Inner ==
  ASSUME NEW c, Ctx(c), c.nest # <<>>
  PROVE  /\ c.nest[Len(c.nest)] \in Rests
         /\ SubSeq(c.nest, 1, Len(c.nest) - 1) \in Seq(Rests)
<1>1. PICK n \in Seq(Rests) : n = c.nest
  BY DEF Ctx
<1>2. n[Len(n)] \in Rests /\ SubSeq(n, 1, Len(n) - 1) \in Seq(Rests)
  BY <1>1
<1> QED BY <1>1, <1>2

LEMMA Returns ==
  ASSUME NEW c, c.nest # <<>>
  PROVE  /\ Keeps(A!W!Return(c), c) /\ Keeps(A!P!Return(c), c) /\ Keeps(A!Return(c), c)
<1>1. Ctx(c) => SubSeq(c.nest, 1, Len(c.nest) - 1) \in Seq(Rests)
  BY Inner
<1>2. PICK n : n = SubSeq(c.nest, 1, Len(c.nest) - 1)
  OBVIOUS
<1>3. Alike([c EXCEPT !.nest = n], c)
  BY <1>1, <1>2 DEF Alike, Ctx
<1>4. Keeps([c EXCEPT !.nest = n], c)
  BY <1>3, AlikeKeeps
<1> QED BY <1>2, <1>4, Zenon DEF A!W!Return, A!P!Return, A!Return

LEMMA WifiWakes ==
  ASSUME NEW c, c.nest # <<>>, A!Innermost(c) # "time"
  PROVE  Keeps(A!W!AfterSleep(c), c)
<1> SUFFICES ASSUME Ctx(c) PROVE Keeps(A!W!AfterSleep(c), c)
  BY DEF Keeps, Good, Knows
<1>1. Keeps(A!W!Return(c), c)
  BY Returns
<1>2. PICK d : d = A!W!Return(c)
  OBVIOUS
<1>3. /\ Keeps(A!W!AfterRfRegion(d), c) /\ Keeps(A!W!AfterWifiInit(d), c)
      /\ Keeps(A!W!DoMqttUserConf(d), c) /\ Keeps(A!W!AfterWaitConf(d), c)
      /\ Keeps(A!W!DoMqttSub(d), c) /\ Keeps(A!W!Reset(d), c) /\ Keeps(d, c)
  BY <1>1, <1>2, WifiSays, KeepsTwice, Zenon
<1>4. PICK e : e = IF c.state = "AP_SCAN" THEN A!W!Reset(d) ELSE d
  OBVIOUS
<1>5. Keeps(e, c)
  BY <1>3, <1>4
<1>6. Keeps([e EXCEPT !.enabled = TRUE], c)
  BY <1>5, Notes, KeepsTwice, Zenon
<1>7. A!W!ListDone(c) = [e EXCEPT !.enabled = TRUE]
  BY <1>2, <1>4, Zenon DEF A!W!ListDone
<1>8. Keeps(A!W!ListDone(c), c) /\ Keeps(A!W!Publish(A!W!ListDone(c), "resp"), c)
  BY <1>6, <1>7, Publishes, KeepsTwice, Zenon
<1>9. /\ A!W!Innermost(c) \in Rests /\ A!W!Innermost(c) # "time"
  BY Inner DEF A!W!Innermost, A!Innermost
<1>10. PICK r : r = A!W!Innermost(c)
  OBVIOUS
<1>11. r \in {"rf", "init", "sntp", "conf", "connecting", "list", "listcmd"}
  BY <1>9, <1>10 DEF Rests
<1>12. A!W!AfterSleep(c) =
         CASE r = "rf" -> A!W!AfterRfRegion(d)
           [] r = "init" -> A!W!AfterWifiInit(d)
           [] r = "sntp" -> A!W!DoMqttUserConf(d)
           [] r = "conf" -> A!W!AfterWaitConf(d)
           [] r = "connecting" -> A!W!DoMqttSub(d)
           [] r = "list" -> A!W!ListDone(c)
           [] r = "listcmd" -> A!W!Publish(A!W!ListDone(c), "resp")
  BY <1>2, <1>10, Zenon DEF A!W!AfterSleep
<1> QED BY <1>3, <1>8, <1>11, <1>12

\* Out of time: the command is remembered, and with it the announcement.
LEMMA WifiTimesOut ==
  ASSUME NEW c, kind # "poe"
  PROVE  Keeps(A!W!Timeout(c), c)
<1>1. ASSUME NEW b, NEW s \in Retrying
      PROVE  Keeps(A!W!TimedoutStartWifiStatus(b, s), b)
  <2>1. "AT+CWSTATE?" \in Words /\ "AT+CWSTATE?" \in Sends
    BY DEF Words, Sends
  <2>2. Speaks(A!W!SayAndWait(b, "AT+CWSTATE?", s), b, "AT+CWSTATE?", s)
    BY <2>1, Says, Zenon
  <2>3. PICK e : e = A!W!SayAndWait(b, "AT+CWSTATE?", s)
    OBVIOUS
  <2>4. PICK w : w = "AT+CWSTATE?"
    OBVIOUS
  <2>5. PICK d : d = [e EXCEPT !.beforeCmd = b.lastCmd, !.before = b.state]
    OBVIOUS
  <2>6. Ctx(b) =>
          /\ Ctx(d) /\ d.state = s /\ d.out = Append(b.out, w) /\ d.packet = b.packet
          /\ d.before = b.state /\ d.beforeCmd = b.lastCmd /\ d.beforeList = b.beforeList
    BY <2>2, <2>3, <2>4, <2>5 DEF Speaks, Ctx
  <2>7. Keeps(d, b)
    <3> SUFFICES ASSUME NEW q \in Seq(Sends), Good(b, q) PROVE Good(d, q)
      BY DEF Keeps
    <3>1. Ctx(b)
      BY DEF Good, Knows
    <3>2. PICK o : o = b.out
      OBVIOUS
    <3>3. o \in Seq(Sends) /\ w \in Sends /\ w \in Words /\ d.out = Append(o, w)
      BY <2>1, <2>4, <2>6, <3>1, <3>2 DEF Ctx
    <3>4. q \o o \in Seq(Sends) /\ q \o d.out = Append(q \o o, w)
      BY <3>3, Behind
    <3>5. Fit(q \o o)
      BY <3>2 DEF Good, Queue
    <3>6. Fit(q \o d.out)
      BY <3>3, <3>4, <3>5, WordFits
    <3>7. Knows(d)
      BY <2>6, <3>1 DEF Good, Knows, ToTry, Retrying
    <3> QED BY <2>6, <3>1, <3>6, <3>7 DEF Good, Queue, Retrying
  <2> QED BY <2>3, <2>5, <2>7, Zenon DEF A!W!TimedoutStartWifiStatus
<1>2. "TIMEDOUT_WIFI_WAIT_STATE" \in Retrying /\ "TIMEDOUT_MQTT_WAIT_WIFI_STATE" \in Retrying
  BY DEF Retrying
<1>3. PICK d : d = IF c.state = "MQTT_PUBLISHING" THEN A!W!SentAck(c, FALSE) ELSE c
  OBVIOUS
<1>4. Keeps(d, c)
  BY <1>3, WifiPublishes, Itself
<1>5. Keeps(A!W!TimedoutStartWifiStatus(d, "TIMEDOUT_MQTT_WAIT_WIFI_STATE"), c)
  BY <1>1, <1>2, <1>4, KeepsTwice, Zenon
<1>6. Keeps(A!W!CheckMqttTimeout(c), c)
  BY <1>3, <1>5, Zenon DEF A!W!CheckMqttTimeout
<1>7. Keeps(A!W!TimedoutStartWifiStatus(c, "TIMEDOUT_WIFI_WAIT_STATE"), c)
  BY <1>1, <1>2, Zenon
<1> QED BY <1>6, <1>7, WifiHwReset, WifiSays DEF A!W!Timeout
-----------------------------------------------------------------------------
(* The PoE driver.                                                         *)

LEMMA PoeSays ==
  ASSUME NEW c
  PROVE  /\ Keeps(A!P!Start(c), c) /\ Keeps(A!P!Reset(c), c) /\ Keeps(A!P!SendSntp(c), c)
         /\ Keeps(A!P!DoMqttUserConf(c), c) /\ Keeps(A!P!DoMqttSub(c), c)
         /\ Keeps(A!P!AfterWaitConf(c), c)
<1>1. /\ "AT+RST" \in Words /\ "AT+RESTORE" \in Words /\ "AT+CIPSNTPCFG" \in Words
      /\ "AT+MQTTUSERCFG" \in Words /\ "AT+MQTTSUB" \in Words /\ "AT+MQTTCONN" \in Words
  BY DEF Words
<1>2. /\ "OFF" \notin Held /\ "SNTP_WAIT_SET" \notin Held
      /\ "MQTT_WAIT_USR_CONF" \notin Held /\ "MQTT_WAIT_SUB" \notin Held
      /\ "MQTT_CONNECTING" \notin Held
  BY DEF Held, Retrying
<1>3. Keeps(A!P!Start(c), c) /\ Keeps(A!P!Reset(c), c)
  BY <1>1, <1>2, Asks, Zenon DEF A!P!Start, A!P!Reset
<1>4. Keeps(A!P!SendSntp(c), c) /\ Keeps(A!P!DoMqttUserConf(c), c)
  BY <1>1, <1>2, Asks, Zenon DEF A!P!SendSntp, A!P!NtpCfg, A!P!DoMqttUserConf, A!P!UserCfg
<1>5. Keeps(A!P!DoMqttSub(c), c) /\ Keeps(A!P!AfterWaitConf(c), c)
  BY <1>1, <1>2, Asks, Zenon DEF A!P!DoMqttSub, A!P!SubCfg, A!P!AfterWaitConf, A!P!MqttConn
<1> QED BY <1>3, <1>4, <1>5

LEMMA PoeOkOrReset ==
  ASSUME NEW c, NEW l, NEW d, Keeps(d, c)
  PROVE  Keeps(A!P!OkOrReset(c, l, d), c)
BY PoeSays, Itself, Zenon DEF A!P!OkOrReset

LEMMA PoeSubscribes ==
  ASSUME NEW c, NEW l
  PROVE  /\ Keeps(A!P!ProcessOff(c, l), c) /\ Keeps(A!P!ProcessDisableEcho(c, l), c)
         /\ Keeps(A!P!ProcessWaitMac(c, l), c) /\ Keeps(A!P!ProcessSntp(c, l), c)
         /\ Keeps(A!P!ProcessIsMqttConnected(c, l), c)
         /\ Keeps(A!P!ProcessUsrConf(c, l), c)
         /\ Keeps(A!P!ProcessIsSubscribed(c, l), c)
         /\ Keeps(A!P!ProcessWaitConf(c, l), c)
         /\ Keeps(A!P!ProcessConnecting(c, l), c)
         /\ Keeps(A!P!ProcessWaitSub(c, l), c)
<1>1. /\ "ATE0" \in Words /\ "AT+CIPETHMAC?" \in Words /\ "AT+MQTTCONN?" \in Words
      /\ "AT+MQTTSUB?" \in Words /\ "AT+MQTTCONNCFG" \in Words
      /\ "conf" \in Rests /\ "connecting" \in Rests
  BY DEF Words, Rests
<1>2. /\ "DISABLE_ECHO" \notin Held /\ "WAIT_MAC_ADDRESS" \notin Held
      /\ "NO_CONF" \notin Held /\ "MQTT_IS_CONNECTED" \notin Held
      /\ "MQTT_IS_SUBSCRIBED" \notin Held /\ "MQTT_WAIT_CONF" \notin Held
      /\ "IDLE" \notin Held
  BY DEF Held, Retrying
<1>3. /\ Keeps(A!P!SayAndWait(c, "ATE0", "DISABLE_ECHO"), c)
      /\ Keeps(A!P!SayAndWait(c, "AT+CIPETHMAC?", "WAIT_MAC_ADDRESS"), c)
      /\ Keeps(A!P!SayAndWait(c, "AT+MQTTCONN?", "MQTT_IS_CONNECTED"), c)
      /\ Keeps(A!P!SayAndWait(c, "AT+MQTTSUB?", "MQTT_IS_SUBSCRIBED"), c)
      /\ Keeps(A!P!SayAndWait(c, "AT+MQTTCONNCFG", "MQTT_WAIT_CONF"), c)
  BY <1>1, <1>2, Asks, Zenon
<1>4. Keeps([c EXCEPT !.state = "IDLE"], c) /\ Keeps([c EXCEPT !.state = "NO_CONF"], c)
  BY <1>2, Moves, Zenon
<1>5. Keeps(A!P!ProcessOff(c, l), c)
  BY <1>3, Itself, Zenon DEF A!P!ProcessOff
<1>6. Keeps(A!P!ProcessDisableEcho(c, l), c) /\ Keeps(A!P!ProcessUsrConf(c, l), c)
  BY <1>3, PoeOkOrReset, Zenon DEF A!P!ProcessDisableEcho, A!P!ProcessUsrConf, A!P!ConnCfg
<1>7. Keeps(A!P!ProcessWaitMac(c, l), c)
  <2>1. Keeps(A!P!KeepMac(c), c)
    BY Notes, Zenon DEF A!P!KeepMac
  <2> QED BY <1>4, <2>1, PoeSays, Itself DEF A!P!ProcessWaitMac
<1>8. Keeps(A!P!ProcessSntp(c, l), c)
  BY <1>3, PoeSays, Itself DEF A!P!ProcessSntp
<1>9. Keeps(A!P!ProcessIsMqttConnected(c, l), c)
  <2>1. Keeps([c EXCEPT !.conn = A!P!ConnOf(l)], c)
    BY Notes, Zenon
  <2>2. PICK d : d = IF c.conn = "up"
                     THEN A!P!SayAndWait(c, "AT+MQTTSUB?", "MQTT_IS_SUBSCRIBED")
                     ELSE A!P!DoMqttUserConf(c)
    OBVIOUS
  <2>3. Keeps(d, c)
    BY <1>3, <2>2, PoeSays
  <2>4. Keeps([d EXCEPT !.conn = "down"], c)
    BY <2>3, Notes, KeepsTwice, Zenon
  <2> QED BY <2>1, <2>2, <2>4, PoeSays, Itself, Zenon DEF A!P!ProcessIsMqttConnected
<1>10. Keeps(A!P!ProcessIsSubscribed(c, l), c)
  BY <1>4, PoeSays, PoeOkOrReset, Zenon DEF A!P!ProcessIsSubscribed
<1>11. Keeps(A!P!ProcessWaitConf(c, l), c) /\ Keeps(A!P!ProcessConnecting(c, l), c)
  BY <1>1, Sleeps, PoeOkOrReset, Zenon DEF A!P!ProcessWaitConf, A!P!ProcessConnecting
<1>12. Keeps(A!P!ProcessWaitSub(c, l), c)
  BY <1>4, PoeOkOrReset, Zenon DEF A!P!ProcessWaitSub
<1> QED BY <1>5, <1>6, <1>7, <1>8, <1>9, <1>10, <1>11, <1>12

LEMMA PoePublishes ==
  ASSUME NEW c, NEW l
  PROVE  /\ c.state = "MQTT_WAIT_PUB" => Keeps(A!P!ProcessWaitPub(c, l), c)
         /\ Keeps(A!P!ProcessPublishing(c, l), c)
         /\ Keeps(A!P!SentAck(c, TRUE), c) /\ Keeps(A!P!SentAck(c, FALSE), c)
         /\ Keeps(A!P!WaitTimestamp(c, l), c)
         /\ c.state = "TIMEDOUT_WAIT_MQTT_STATE" => Keeps(A!P!TimedoutMqtt(c, l), c)
<1>1. "IDLE" \notin Held /\ "TIMEDOUT_WAIT_MQTT_STATE" \in Retrying
  BY DEF Held, Retrying
<1>2. c.state = "MQTT_WAIT_PUB" => Keeps(A!P!ProcessWaitPub(c, l), c)
  BY Pays, PoeOkOrReset, Zenon DEF A!P!ProcessWaitPub
<1>3. \A d, ok : Keeps(A!P!SentAck(d, ok), d)
  BY Notes, Zenon DEF A!P!SentAck
<1>4. Keeps([c EXCEPT !.state = "IDLE"], c)
  BY <1>1, Moves, Zenon
<1>5. Keeps(A!P!SentAck([c EXCEPT !.state = "IDLE"], TRUE), c)
  BY <1>3, <1>4, KeepsTwice, Zenon
<1>6. Keeps(A!P!SentAck(c, TRUE), c) /\ Keeps(A!P!SentAck(c, FALSE), c)
  BY <1>3, Zenon
<1>7. Keeps(A!P!Reset(A!P!SentAck(c, FALSE)), c)
  BY <1>6, PoeSays, KeepsTwice, Zenon
<1>8. Keeps(A!P!ProcessPublishing(c, l), c)
  BY <1>5, <1>7, Itself DEF A!P!ProcessPublishing
<1>9. Keeps([c EXCEPT !.time = "fresh"], c)
  BY Notes, Zenon
<1>10. Keeps(A!P!WaitTimestamp(c, l), c)
  BY <1>4, <1>9, Itself, Zenon DEF A!P!WaitTimestamp
<1>11. c.state = "TIMEDOUT_WAIT_MQTT_STATE" => Keeps(A!P!TimedoutMqtt(c, l), c)
  BY <1>1, Retries, PoeSays, Itself DEF A!P!TimedoutMqtt
<1> QED BY <1>2, <1>6, <1>8, <1>10, <1>11

LEMMA PoeCommands ==
  ASSUME NEW c, NEW cmd
  PROVE  Keeps(A!P!DoCommand(c, cmd), c)
<1>1. Keeps(A!P!Configure(c), c)
  BY Settings
<1>2. Keeps(A!P!SendSntp(A!P!Configure(c)), c) /\ Keeps(A!P!Start(A!P!Configure(c)), c)
  BY <1>1, PoeSays, KeepsTwice, Zenon
<1>3. Keeps(A!P!CmdConfig(c), c)
  BY <1>2 DEF A!P!CmdConfig
<1> QED BY <1>3, PoeSays, Itself DEF A!P!DoCommand

LEMMA PoeProcesses ==
  ASSUME NEW c, NEW l PROVE Keeps(A!P!Process(c, l), c)
<1>1. Keeps(A!P!Handle(c, l), c)
  BY PoePublishes, PoeSubscribes, Itself DEF A!P!Handle
<1>2. Keeps(A!P!Publish(A!P!DoCommand(c, A!P!EventCmd[l]), "resp"), c)
  BY PoeCommands, Publishes, KeepsTwice, Zenon
<1> QED BY <1>1, <1>2, Zenon DEF A!P!Process

LEMMA PoeWakes ==
  ASSUME NEW c, c.nest # <<>>
  PROVE  Keeps(A!P!AfterSleep(c), c)
<1>1. Keeps(A!P!Return(c), c)
  BY Returns
<1>2. Keeps(A!P!AfterWaitConf(A!P!Return(c)), c) /\ Keeps(A!P!DoMqttSub(A!P!Return(c)), c)
  BY <1>1, PoeSays, KeepsTwice, Zenon
<1> QED BY <1>2 DEF A!P!AfterSleep

LEMMA PoeTimesOut ==
  ASSUME NEW c, kind = "poe"
  PROVE  Keeps(A!P!Timeout(c), c)
<1>1. "AT+MQTTCONN?" \in Words /\ "TIMEDOUT_WAIT_MQTT_STATE" \in Retrying
  BY DEF Words, Retrying
<1>2. PICK d : d = IF c.state = "MQTT_PUBLISHING" THEN A!P!SentAck(c, FALSE) ELSE c
  OBVIOUS
<1>3. Keeps(d, c)
  BY <1>2, PoePublishes, Itself
<1>4. Keeps(A!P!SayAndWait(d, "AT+MQTTCONN?", "TIMEDOUT_WAIT_MQTT_STATE"), c)
  BY <1>1, <1>3, SpeaksAgain, KeepsTwice, Zenon
<1>5. Keeps(A!P!CheckMqttTimeout(c), c)
  BY <1>2, <1>4, Zenon DEF A!P!CheckMqttTimeout
<1> QED BY <1>5, PoeSays DEF A!P!Timeout
-----------------------------------------------------------------------------
(* Either of them.                                                         *)

LEMMA AtKeeps ==
  ASSUME NEW c, NEW l, IsAt
  PROVE  /\ Keeps(A!Process(c, l), c) /\ Keeps(A!Timeout(c), c) /\ Keeps(A!Reset(c), c)
         /\ Keeps(A!AskTime(c), c) /\ Keeps(A!Told(c), c)
         /\ c.nest # <<>> => Keeps(A!TimeDone(c), c)
         /\ c.nest # <<>> /\ A!Innermost(c) # "time" => Keeps(A!AfterSleep(c), c)
<1>1. kind = "wifi" \/ kind = "poe"
  BY DEF IsAt
<1>2. Keeps(A!Process(c, l), c) /\ Keeps(A!Reset(c), c)
  BY WifiProcesses, PoeProcesses, WifiSays, PoeSays DEF A!Process, A!Reset
<1>3. Keeps(A!Timeout(c), c)
  <2>1. CASE kind = "wifi"
    <3>1. kind # "poe"
      BY <2>1
    <3> QED BY <2>1, <3>1, WifiTimesOut, Zenon DEF A!Timeout
  <2>2. CASE kind = "poe"
    <3>1. kind # "wifi"
      BY <2>2
    <3> QED BY <2>2, <3>1, PoeTimesOut, Zenon DEF A!Timeout
  <2> QED BY <1>1, <2>1, <2>2
<1>4. \A d : Keeps(A!AskTime(d), d)
  <2> TAKE d
  <2>1. "AT+SYSTIMESTAMP?" \in Words /\ "WAIT_TIMESTAMP" \notin Held /\ "time" \in Rests
    BY DEF Words, Held, Retrying, Rests
  <2>2. PICK b : b = A!SayAndWait(d, "AT+SYSTIMESTAMP?", "WAIT_TIMESTAMP")
    OBVIOUS
  <2>3. Keeps(b, d)
    BY <2>1, <2>2, Asks, Zenon
  <2>4. PICK t : t = IF b.time = A!None THEN A!None ELSE "old"
    OBVIOUS
  <2>5. Keeps([b EXCEPT !.time = t], d)
    BY <2>3, Notes, KeepsTwice, Zenon
  <2>6. PICK e : e = [b EXCEPT !.time = t]
    OBVIOUS
  <2>7. Keeps(A!Sleep(e, "time"), d)
    BY <2>1, <2>5, <2>6, Sleeps, KeepsTwice, Zenon
  <2>8. e = [b EXCEPT !.time = IF @ = A!None THEN A!None ELSE "old"]
    BY <2>4, <2>6
  <2> QED BY <2>2, <2>7, <2>8, Zenon DEF A!AskTime
<1>5. Keeps(A!Told(c), c)
  <2>1. Keeps([c EXCEPT !.ack = A!None], c)
    BY Notes, Zenon
  <2>2. Keeps(A!AskTime([c EXCEPT !.ack = A!None]), c)
    BY <1>4, <2>1, KeepsTwice, Zenon
  <2> QED BY <2>1, <2>2, Zenon DEF A!Told
<1>6. c.nest # <<>> => Keeps(A!TimeDone(c), c)
  <2> HAVE c.nest # <<>>
  <2>1. Keeps(A!Return(c), c)
    BY Returns
  <2>2. Keeps([A!Return(c) EXCEPT !.time = A!None], c)
    BY <2>1, Notes, KeepsTwice, Zenon
  <2> QED BY <2>1, <2>2, Zenon DEF A!TimeDone
<1>7. c.nest # <<>> /\ A!Innermost(c) # "time" => Keeps(A!AfterSleep(c), c)
  BY WifiWakes, PoeWakes DEF A!AfterSleep
<1> QED BY <1>2, <1>3, <1>4, <1>5, <1>6, <1>7
-----------------------------------------------------------------------------
(* What the modem has not yet done with.                                   *)

Waiting(c, q) == IF c.raw = A!None THEN q ELSE <<A!PubRaw(c.raw)>> \o q

PairedUp ==
    /\ ctx.out = <<>> /\ cmds \in Seq(Sends)
    /\ {"raw", "mixed"} \subseteq DOMAIN chip
    /\ chip.raw \in {A!None, "meas", "resp"} /\ ~chip.mixed
    /\ Good(ctx, Waiting(chip, cmds))

AtInv == IsAt => PairedUp

LEMMA FitTail ==
  ASSUME NEW q \in Seq(Sends), q # <<>>, NEW c, Queue(c, q)
  PROVE  Queue(c, Tail(q)) /\ Tail(q) \in Seq(Sends)
<1>1. PICK t : t = Tail(q)
  OBVIOUS
<1>2. t \in Seq(Sends) /\ Len(t) = Len(q) - 1 /\ \A i \in 1..Len(t) : t[i] = q[i + 1]
  BY <1>1
<1>3. Fit(t)
  <2>1. ASSUME NEW i \in 1..Len(t) - 1
        PROVE  i + 1 \in 1..Len(q) - 1 /\ t[i] = q[i + 1] /\ t[i + 1] = q[(i + 1) + 1]
    BY <1>2
  <2>2. Fit(q)
    BY DEF Queue
  <2>3. ASSUME NEW i \in 1..Len(t) - 1
        PROVE  /\ ~(t[i] = "AT+MQTTPUBRAW meas" /\ t[i + 1] = "payload resp")
               /\ ~(t[i] = "AT+MQTTPUBRAW resp" /\ t[i + 1] = "payload meas")
    BY <2>1, <2>2, Zenon DEF Fit
  <2> QED BY <2>3, Zenon DEF Fit
<1>4. t # <<>> => t[Len(t)] = q[Len(q)]
  BY <1>2
<1> QED BY <1>1, <1>2, <1>3, <1>4 DEF Queue

LEMMA WaitingQueue ==
  ASSUME NEW q \in Seq(Sends), NEW o \in Seq(Sends), NEW c
  PROVE  Waiting(c, q) \in Seq(Sends) /\ Waiting(c, q \o o) = Waiting(c, q) \o o
<1>1. \A S : \A h \in S : \A a, b \in Seq(S) :
         <<h>> \o a \in Seq(S) /\ <<h>> \o (a \o b) = (<<h>> \o a) \o b
  OBVIOUS
<1>2. PICK h \in Sends : h = A!PubRaw(c.raw)
  BY PubRawIsWord
<1>3. <<h>> \o q \in Seq(Sends) /\ <<h>> \o (q \o o) = (<<h>> \o q) \o o
  BY <1>1
<1> QED BY <1>2, <1>3 DEF Waiting

\* With what a handler sends the queue is as the handler kept it.
LEMMA AtDriver ==
  ASSUME PairedUp, IsAt, NEW c, NEW w, NEW u, Keeps(c, ctx), A!Driver(c, w, u)
  PROVE  PairedUp' /\ kind' = kind
<1>1. PICK d : d = A!Told(c)
  OBVIOUS
<1>2. Keeps(d, ctx)
  BY <1>1, AtKeeps, KeepsTwice, Zenon
<1>3. PICK q : q = Waiting(chip, cmds)
  OBVIOUS
<1>4. q \in Seq(Sends) /\ Good(d, q)
  <2>1. \A o \in Seq(Sends) : q \in Seq(Sends)
    BY <1>3, WaitingQueue DEF PairedUp
  <2>2. ctx.out \in Seq(Sends) /\ Good(ctx, q)
    BY <1>3 DEF PairedUp, Good, Knows, Ctx
  <2> QED BY <1>2, <2>1, <2>2 DEF Keeps
<1>5. /\ kind' = kind /\ ctx' = [d EXCEPT !.out = <<>>]
      /\ \/ cmds' = <<>> /\ chip' = A!Booted
         \/ cmds' = cmds \o d.out /\ chip' = chip
  BY <1>1 DEF A!Driver
<1>6. Ctx(d) /\ d.out \in Seq(Sends) /\ Knows(d) /\ Queue(d, q \o d.out)
  BY <1>4 DEF Good, Knows, Ctx
<1>7. /\ ctx'.out = <<>> /\ ctx'.state = d.state /\ ctx'.packet = d.packet
      /\ ctx'.before = d.before /\ ctx'.beforeCmd = d.beforeCmd
      /\ ctx'.beforeList = d.beforeList /\ ctx'.lastCmd = d.lastCmd /\ ctx'.nest = d.nest
      /\ DOMAIN ctx' = DOMAIN d
  BY <1>5, <1>6 DEF Ctx
<1>8. <<>> \in Seq(Sends)
  OBVIOUS
<1>9. Knows(ctx')
  BY <1>6, <1>7, <1>8 DEF Knows, Ctx, ToTry
<1>10. Knows(ctx)'
  BY <1>5, <1>9 DEF Knows, Ctx, ToTry
<1>11. \A p : Queue(d, p) => Queue(ctx', p)
  BY <1>7 DEF Queue
<1>12. \A p \in Seq(Sends) : p \o <<>> = p
  OBVIOUS
<1>13. CASE cmds' = <<>> /\ chip' = A!Booted
  <2>1. /\ chip'.raw = A!None /\ chip'.mixed = chip.mixed
        /\ {"raw", "mixed"} \subseteq DOMAIN chip'
    BY <1>13 DEF A!Booted, A!ChipOff
  <2>2. Queue(ctx', <<>>)
    BY DEF Queue, Fit
  <2>3. Waiting(chip', cmds') = <<>>
    BY <1>13, <2>1 DEF Waiting
  <2>4. Good(ctx, Waiting(chip, cmds))'
    BY <1>7, <1>8, <1>10, <1>12, <2>2, <2>3 DEF Good, Queue
  <2> QED BY <1>5, <1>7, <1>8, <1>13, <2>1, <2>4 DEF PairedUp
<1>14. CASE cmds' = cmds \o d.out /\ chip' = chip
  <2>1. PICK o \in Seq(Sends) : o = d.out
    BY <1>6
  <2>2. cmds \in Seq(Sends)
    BY DEF PairedUp
  <2>3. Waiting(chip, cmds \o o) = q \o o
    BY <1>3, <2>2, WaitingQueue
  <2>4. PICK p : p = q \o o
    OBVIOUS
  <2>5. p \in Seq(Sends) /\ cmds \o o \in Seq(Sends)
    BY <1>4, <2>2, <2>4
  <2>6. Waiting(chip', cmds') = p
    BY <1>14, <2>1, <2>3, <2>4
  <2>7. Queue(ctx', p)
    BY <1>6, <1>11, <2>1, <2>4
  <2>8. p \o ctx'.out = p
    BY <1>7, <1>12, <2>5
  <2>9. Good(ctx, Waiting(chip, cmds))'
    BY <1>10, <2>6, <2>7, <2>8 DEF Good, Queue
  <2> QED BY <1>5, <1>7, <1>14, <2>1, <2>5, <2>9 DEF PairedUp
<1> QED BY <1>5, <1>13, <1>14

\* The steps of the driver and of Measurements.
LEMMA AtSteps ==
  ASSUME PairedUp, IsAt,
         A!Hear \/ A!Resume \/ A!TimerFires \/ A!MeasBusy \/ A!MeasSend
         \/ \E cmd : A!Command(cmd)
  PROVE  PairedUp' /\ kind' = kind
<1>1. CASE A!Hear
  <2>1. PICK l : l = Head(line)
    OBVIOUS
  <2>2. \E w, u : A!Driver(A!Process(ctx, l), w, u)
    BY <1>1, <2>1 DEF A!Hear
  <2>3. Keeps(A!Process(ctx, l), ctx)
    BY AtKeeps
  <2> QED BY <2>2, <2>3, AtDriver
<1>2. CASE A!Resume
  <2>1. ctx.nest # <<>>
    BY <1>2 DEF A!Resume
  <2>2. CASE A!Innermost(ctx) = "time"
    <3>1. PICK d : d = A!TimeDone(ctx)
      OBVIOUS
    <3>2. Keeps(d, ctx)
      BY <2>1, <3>1, AtKeeps
    <3>3. Keeps(A!Publish(d, "meas"), ctx)
      BY <3>2, Publishes, KeepsTwice, Zenon
    <3>4. Keeps(A!Reset(A!Publish(d, "meas")), ctx)
      <4>1. PICK e : e = A!Publish(d, "meas")
        OBVIOUS
      <4>2. Keeps(A!Reset(e), e)
        BY AtKeeps
      <4> QED BY <3>3, <4>1, <4>2, KeepsTwice
    <3>5. \E c, w, u : /\ c = d \/ c = A!Publish(d, "meas") \/ c = A!Reset(A!Publish(d, "meas"))
                       /\ A!Driver(c, w, u)
      BY <1>2, <2>2, <3>1 DEF A!Resume, A!MessageGoes
    <3> QED BY <3>2, <3>3, <3>4, <3>5, AtDriver
  <2>3. CASE A!Innermost(ctx) # "time"
    <3>1. \E w, u : A!Driver(A!AfterSleep(ctx), w, u)
      BY <1>2, <2>3 DEF A!Resume
    <3>2. Keeps(A!AfterSleep(ctx), ctx)
      BY <2>1, <2>3, AtKeeps
    <3> QED BY <3>1, <3>2, AtDriver
  <2> QED BY <2>2, <2>3
<1>3. CASE A!TimerFires
  <2>1. \E w, u : A!Driver(A!Timeout(ctx), w, u)
    BY <1>3 DEF A!TimerFires
  <2>2. Keeps(A!Timeout(ctx), ctx)
    BY AtKeeps
  <2> QED BY <2>1, <2>2, AtDriver
<1>4. CASE A!MeasBusy
  <2>1. \/ UNCHANGED <<kind, ctx, cmds, chip>>
        \/ \E w, u : A!Driver(A!Reset(ctx), w, u)
    BY <1>4 DEF A!MeasBusy
  <2>2. Keeps(A!Reset(ctx), ctx)
    BY AtKeeps
  <2>3. UNCHANGED <<kind, ctx, cmds, chip>> => PairedUp' /\ kind' = kind
    BY DEF PairedUp, Good, Knows, Ctx, ToTry, Queue, Waiting
  <2> QED BY <2>1, <2>2, <2>3, AtDriver
<1>5. CASE A!MeasSend
  <2>1. \E w, u : A!Driver(A!AskTime(ctx), w, u)
    BY <1>5 DEF A!MeasSend
  <2>2. Keeps(A!AskTime(ctx), ctx)
    BY AtKeeps
  <2> QED BY <2>1, <2>2, AtDriver
<1>6. CASE \E cmd : A!Command(cmd)
  <2>1. PICK cmd : A!Command(cmd)
    BY <1>6
  <2>2. PICK c : c = IF kind = "wifi" THEN A!W!DoCommand(ctx, cmd, "list")
                     ELSE A!P!DoCommand(ctx, cmd)
    OBVIOUS
  <2>3. \E w, u : A!Driver(c, w, u)
    BY <2>1, <2>2 DEF A!Command
  <2>4. Keeps(A!W!DoCommand(ctx, cmd, "list"), ctx)
    <3>1. "list" \in Rests
      BY DEF Rests
    <3> QED BY <3>1, WifiCommands, Zenon
  <2>5. Keeps(c, ctx)
    BY <2>2, <2>4, PoeCommands
  <2> QED BY <2>3, <2>5, AtDriver
<1> QED BY <1>1, <1>2, <1>3, <1>4, <1>5, <1>6
-----------------------------------------------------------------------------
(* The modem and the world.                                                *)

\* A queue shorter at its head, with the driver as it is.
LEMMA AtShorter ==
  ASSUME PairedUp, UNCHANGED <<kind, ctx>>, cmds' \in Seq(Sends),
         {"raw", "mixed"} \subseteq DOMAIN chip',
         chip'.raw \in {A!None, "meas", "resp"}, ~chip'.mixed,
         Queue(ctx, Waiting(chip', cmds'))
  PROVE  PairedUp'
<1>1. Waiting(chip', cmds') \in Seq(Sends) /\ ctx.out = <<>> /\ Knows(ctx)
  <2>1. \A o \in Seq(Sends) : Waiting(chip', cmds') \in Seq(Sends)
    BY WaitingQueue
  <2>2. <<>> \in Seq(Sends)
    OBVIOUS
  <2> QED BY <2>1, <2>2 DEF PairedUp, Good
<1>2. PICK q \in Seq(Sends) : q = Waiting(chip', cmds')
  BY <1>1
<1>3. q \o <<>> = q
  OBVIOUS
<1>4. Knows(ctx)'
  BY <1>1 DEF Knows, Ctx, ToTry
<1>5. Queue(ctx, q)'
  BY <1>2 DEF Queue
<1>6. Good(ctx, Waiting(chip, cmds))'
  BY <1>1, <1>2, <1>3, <1>4, <1>5 DEF Good, Queue
<1> QED BY <1>1, <1>6 DEF PairedUp

LEMMA AtQueue ==
  ASSUME PairedUp
  PROVE  Queue(ctx, Waiting(chip, cmds)) /\ Waiting(chip, cmds) \in Seq(Sends)
<1>1. cmds \in Seq(Sends) /\ <<>> \in Seq(Sends) /\ ctx.out = <<>>
  BY DEF PairedUp
<1>2. PICK q : q = Waiting(chip, cmds)
  OBVIOUS
<1>3. q \in Seq(Sends)
  BY <1>1, <1>2, WaitingQueue
<1>4. q \o <<>> = q
  BY <1>3
<1>5. Queue(ctx, q)
  BY <1>1, <1>2, <1>4 DEF PairedUp, Good
<1> QED BY <1>2, <1>3, <1>5

LEMMA ChipAnswers ==
  ASSUME PairedUp, NEW ls, NEW c, A!Says(ls, c), cmds # <<>>, chip.raw = A!None,
         {"raw", "mixed"} \subseteq DOMAIN c, c.raw = A!None, c.mixed = chip.mixed
  PROVE  PairedUp'
<1>1. cmds' = Tail(cmds) /\ chip' = c /\ UNCHANGED <<kind, ctx>>
  BY DEF A!Says
<1>2. Waiting(chip, cmds) = cmds /\ Waiting(chip', cmds') = Tail(cmds)
  BY <1>1 DEF Waiting
<1>3. cmds \in Seq(Sends) /\ Queue(ctx, cmds) /\ ~chip.mixed
  BY <1>2, AtQueue DEF PairedUp
<1>4. Queue(ctx, Tail(cmds)) /\ Tail(cmds) \in Seq(Sends)
  BY <1>3, FitTail
<1> QED BY <1>1, <1>2, <1>3, <1>4, AtShorter

LEMMA ChipTakes ==
  ASSUME PairedUp, A!ChipPubRaw
  PROVE  PairedUp'
<1>1. PICK t \in {"meas", "resp"} :
        /\ A!Cmd(A!PubRaw(t))
        /\ \/ A!Says(<<"ERROR">>, chip)
           \/ A!Says(<<"OK">>, [chip EXCEPT !.raw = t])
  BY DEF A!ChipPubRaw
<1>2. cmds # <<>> /\ chip.raw = A!None /\ Head(cmds) = A!PubRaw(t)
  BY <1>1 DEF A!Cmd
<1>3. {"raw", "mixed"} \subseteq DOMAIN chip /\ cmds \in Seq(Sends) /\ ~chip.mixed
  BY DEF PairedUp
<1>4. CASE A!Says(<<"ERROR">>, chip)
  BY <1>2, <1>3, <1>4, ChipAnswers
<1>5. CASE A!Says(<<"OK">>, [chip EXCEPT !.raw = t])
  <2>1. /\ cmds' = Tail(cmds) /\ chip' = [chip EXCEPT !.raw = t]
        /\ UNCHANGED <<kind, ctx>>
    BY <1>5 DEF A!Says
  <2>2. /\ chip'.raw = t /\ chip'.mixed = chip.mixed
        /\ {"raw", "mixed"} \subseteq DOMAIN chip' /\ t # A!None
    BY <1>3, <2>1 DEF A!None
  <2>3. \A S : \A p \in Seq(S) : p # <<>> => <<Head(p)>> \o Tail(p) = p /\ Tail(p) \in Seq(S)
    OBVIOUS
  <2>4. <<Head(cmds)>> \o Tail(cmds) = cmds /\ Tail(cmds) \in Seq(Sends)
    BY <1>2, <1>3, <2>3
  <2>5. Waiting(chip', cmds') = cmds
    BY <1>2, <2>1, <2>2, <2>4 DEF Waiting
  <2>6. Waiting(chip, cmds) = cmds
    BY <1>2 DEF Waiting
  <2>7. Queue(ctx, cmds)
    BY <2>6, AtQueue
  <2> QED BY <1>3, <2>1, <2>2, <2>4, <2>5, <2>7, AtShorter
<1> QED BY <1>1, <1>4, <1>5

\* The payload it reads is not the other's.
LEMMA ChipReading ==
  ASSUME PairedUp, A!ChipReads
  PROVE  PairedUp'
<1>1. /\ chip.raw # A!None /\ cmds # <<>>
      /\ cmds' = Tail(cmds) /\ chip' = A!Published(Head(cmds)) /\ UNCHANGED <<kind, ctx>>
  BY DEF A!ChipReads, A!Says
<1>2. /\ {"raw", "mixed"} \subseteq DOMAIN chip /\ cmds \in Seq(Sends) /\ ~chip.mixed
      /\ chip.raw \in {A!None, "meas", "resp"}
  BY DEF PairedUp
<1>3. PICK h \in Sends : h = Head(cmds)
  BY <1>1, <1>2
<1>4. PICK a \in Sends : a = A!PubRaw(chip.raw)
  BY PubRawIsWord
<1>5. PICK q : q = <<a>> \o cmds
  OBVIOUS
<1>6. q \in Seq(Sends) /\ q # <<>> /\ Tail(q) = cmds /\ Len(q) >= 2
      /\ q[1] = a /\ q[2] = h /\ Len(q) \in Nat
  <2>1. \A S : \A x \in S : \A p \in Seq(S) : p # <<>> =>
          /\ <<x>> \o p \in Seq(S) /\ <<x>> \o p # <<>> /\ Tail(<<x>> \o p) = p
          /\ Len(<<x>> \o p) >= 2 /\ (<<x>> \o p)[1] = x /\ (<<x>> \o p)[2] = Head(p)
          /\ Len(<<x>> \o p) \in Nat
    OBVIOUS
  <2> QED BY <1>1, <1>2, <1>3, <1>5, <2>1
<1>7. Waiting(chip, cmds) = q
  BY <1>1, <1>4, <1>5 DEF Waiting
<1>8. Queue(ctx, q)
  BY <1>7, AtQueue
<1>9. 1 \in 1..Len(q) - 1
  BY <1>6
<1>10. /\ ~(a = "AT+MQTTPUBRAW meas" /\ h = "payload resp")
       /\ ~(a = "AT+MQTTPUBRAW resp" /\ h = "payload meas")
  <2>1. Fit(q) /\ 1 + 1 = 2
    BY <1>8 DEF Queue
  <2>2. /\ ~(q[1] = "AT+MQTTPUBRAW meas" /\ q[1 + 1] = "payload resp")
        /\ ~(q[1] = "AT+MQTTPUBRAW resp" /\ q[1 + 1] = "payload meas")
    BY <1>9, <2>1, Zenon DEF Fit
  <2> QED BY <1>6, <2>1, <2>2
<1>11. ~(h \in A!Payloads /\ h # A!Payload(chip.raw))
  BY <1>1, <1>2, <1>4, <1>10 DEF A!Payloads, A!Payload, A!PubRaw
<1>12. /\ chip'.raw = A!None /\ ~chip'.mixed
       /\ {"raw", "mixed"} \subseteq DOMAIN chip'
  BY <1>1, <1>2, <1>3, <1>11 DEF A!Published
<1>13. Queue(ctx, cmds)
  BY <1>6, <1>8, FitTail
<1>14. Queue(ctx, Tail(cmds)) /\ Tail(cmds) \in Seq(Sends)
  BY <1>1, <1>2, <1>13, FitTail
<1>15. Waiting(chip', cmds') = Tail(cmds)
  BY <1>1, <1>12 DEF Waiting
<1> QED BY <1>1, <1>12, <1>14, <1>15, AtShorter

LEMMA ChipReadingNothing ==
  ASSUME PairedUp, A!ChipReadsNothing
  PROVE  PairedUp'
<1>1. cmds = <<>> /\ chip' = A!Published(A!None) /\ UNCHANGED <<kind, ctx, cmds>>
  BY DEF A!ChipReadsNothing
<1>2. {"raw", "mixed"} \subseteq DOMAIN chip /\ cmds \in Seq(Sends) /\ ~chip.mixed
  BY DEF PairedUp
<1>3. /\ chip'.raw = A!None /\ ~chip'.mixed
      /\ {"raw", "mixed"} \subseteq DOMAIN chip'
  BY <1>1, <1>2 DEF A!Published, A!Payloads, A!None
<1>4. Waiting(chip', cmds') = <<>>
  BY <1>1, <1>3 DEF Waiting
<1>5. Queue(ctx, <<>>)
  BY DEF Queue, Fit
<1> QED BY <1>1, <1>2, <1>3, <1>4, <1>5, AtShorter

LEMMA ChipSteps ==
  ASSUME PairedUp, A!Chip
  PROVE  PairedUp'
<1>1. {"raw", "mixed"} \subseteq DOMAIN chip
  BY DEF PairedUp
<1>2. ASSUME NEW ls, NEW s, A!Cmd(s), A!Says(ls, chip) PROVE PairedUp'
  BY <1>1, <1>2, ChipAnswers DEF A!Cmd
<1>3. ASSUME NEW ls, NEW s, NEW c, A!Cmd(s), A!Says(ls, c),
             {"raw", "mixed"} \subseteq DOMAIN c, c.raw = chip.raw, c.mixed = chip.mixed
      PROVE  PairedUp'
  BY <1>3, ChipAnswers DEF A!Cmd
<1>4. A!ChipRestore => PairedUp'
  <2> HAVE A!ChipRestore
  <2>1. PICK s, ls : A!Cmd(s) /\ A!Says(ls, A!Booted)
    BY DEF A!ChipRestore
  <2>2. PICK c : c = A!Booted
    OBVIOUS
  <2>3. {"raw", "mixed"} \subseteq DOMAIN c /\ c.raw = A!None /\ c.mixed = chip.mixed
    BY <2>2 DEF A!Booted, A!ChipOff
  <2> QED BY <2>1, <2>2, <2>3, ChipAnswers DEF A!Cmd
<1>5. A!ChipPlain \/ A!ChipMac \/ A!ChipTime \/ A!ChipList \/ A!ChipCwState => PairedUp'
  BY <1>2 DEF A!ChipPlain, A!ChipMac, A!ChipTime, A!ChipList, A!ChipCwState
<1>6. A!ChipSntp \/ A!ChipConnCfg \/ A!ChipIsConn \/ A!ChipIsSub => PairedUp'
  BY <1>2 DEF A!ChipSntp, A!ChipConnCfg, A!ChipIsConn, A!ChipIsSub
<1>7. A!ChipJoin => PairedUp'
  BY <1>1, <1>3 DEF A!ChipJoin
<1>8. A!ChipUserCfg => PairedUp'
  BY <1>1, <1>3 DEF A!ChipUserCfg
<1>9. A!ChipConn => PairedUp'
  BY <1>1, <1>2, <1>3 DEF A!ChipConn
<1>10. A!ChipSub => PairedUp'
  BY <1>1, <1>2, <1>3 DEF A!ChipSub
<1>11. A!ChipUnknown => PairedUp'
  BY <1>1, ChipAnswers DEF A!ChipUnknown
<1> QED BY <1>4, <1>5, <1>6, <1>7, <1>8, <1>9, <1>10, <1>11, ChipTakes, ChipReading,
           ChipReadingNothing DEF A!Chip

LEMMA AtWorld ==
  ASSUME PairedUp, A!MeasOffline \/ A!Lose \/ A!ChipFails \/ A!Drop \/ \E e : A!Remote(e)
  PROVE  PairedUp'
<1>1. {"raw", "mixed"} \subseteq DOMAIN chip /\ cmds \in Seq(Sends)
      /\ chip.raw \in {A!None, "meas", "resp"} /\ ~chip.mixed
      /\ Queue(ctx, Waiting(chip, cmds))
  BY AtQueue DEF PairedUp
<1>2. A!MeasOffline \/ A!Lose \/ (\E e : A!Remote(e)) => UNCHANGED <<kind, ctx, cmds, chip>>
  BY DEF A!MeasOffline, A!Lose, A!Remote
<1>3. UNCHANGED <<kind, ctx, cmds, chip>> => PairedUp'
  BY <1>1, AtShorter
<1>4. A!ChipFails => PairedUp'
  BY <1>1, ChipAnswers DEF A!ChipFails
<1>5. A!Drop => PairedUp'
  <2> HAVE A!Drop
  <2>1. UNCHANGED <<kind, ctx, cmds>> /\ chip'.raw = chip.raw /\ chip'.mixed = chip.mixed
        /\ {"raw", "mixed"} \subseteq DOMAIN chip'
    BY <1>1 DEF A!Drop
  <2>2. Waiting(chip', cmds') = Waiting(chip, cmds)
    BY <2>1 DEF Waiting
  <2> QED BY <1>1, <2>1, <2>2, AtShorter
<1> QED BY <1>2, <1>3, <1>4, <1>5
-----------------------------------------------------------------------------
LEMMA LoraKind ==
  ASSUME L!Next
  PROVE  kind' = kind
<1>1. \A c, w, u : L!Driver(c, w, u) => kind' = kind
  BY DEF L!Driver
<1>2. L!Hear => kind' = kind
  BY <1>1 DEF L!Hear
<1>3. L!Resume => kind' = kind
  BY <1>1 DEF L!Resume
<1>4. L!TimerFires => kind' = kind
  BY <1>1 DEF L!TimerFires
<1>5. L!MeasBusy => kind' = kind
  BY <1>1 DEF L!MeasBusy
<1>6. L!MeasSend => kind' = kind
  BY <1>1 DEF L!MeasSend
<1>7. (\E cmd : L!Command(cmd)) => kind' = kind
  BY <1>1 DEF L!Command
<1> QED BY <1>2, <1>3, <1>4, <1>5, <1>6, <1>7, LoraWorld

LEMMA AtInvBegins ==
  ASSUME ModemInit
  PROVE  AtInv
<1>1. CASE A!Init
  <2>1. PICK conf \in BOOLEAN : ctx = A!StaticCtx(conf)
    BY <1>1 DEF A!Init
  <2>2. cmds = <<>> /\ chip = A!ChipOff
    BY <1>1 DEF A!Init
  <2>3. /\ chip.raw = A!None /\ ~chip.mixed /\ {"raw", "mixed"} \subseteq DOMAIN chip
    BY <2>2 DEF A!ChipOff
  <2>4. "none" \in Words /\ <<>> \in Seq(Sends) /\ <<>> \in Seq(Rests)
    BY DEF Words
  <2>5. /\ ctx.out = <<>> /\ ctx.state = "OFF" /\ ctx.beforeList = "OFF"
        /\ ctx.before = "OFF"
        /\ {"state", "before", "beforeCmd", "lastCmd", "packet", "beforeList", "out",
            "nest", "ack"} \subseteq DOMAIN ctx
        /\ ctx.nest = <<>> /\ ctx.lastCmd = "none" /\ ctx.beforeCmd = "none"
    BY <2>1 DEF A!StaticCtx, A!None
  <2>6. Knows(ctx)
    BY <2>4, <2>5 DEF Knows, Ctx, ToTry, Retrying
  <2>7. Waiting(chip, cmds) = <<>>
    BY <2>2, <2>3 DEF Waiting
  <2>8. Good(ctx, <<>>)
    BY <2>5, <2>6 DEF Good, Queue, Fit
  <2> QED BY <2>2, <2>3, <2>4, <2>5, <2>7, <2>8 DEF AtInv, PairedUp
<1>2. CASE L!Init
  BY <1>2 DEF L!Init, AtInv, IsAt
<1> QED BY <1>1, <1>2 DEF ModemInit

LEMMA AtInvKept ==
  ASSUME AtInv, [ModemNext]_modemVars
  PROVE  AtInv'
<1>1. CASE IsAt /\ A!Next
  <2>1. PairedUp
    BY <1>1 DEF AtInv
  <2>2. PairedUp'
    BY <1>1, <2>1, AtSteps, ChipSteps, AtWorld DEF A!Next
  <2> QED BY <2>2 DEF AtInv
<1>2. CASE IsLora /\ L!Next
  BY <1>2, LoraKind DEF IsAt, AtInv, IsLora
<1>3. CASE UNCHANGED modemVars
  BY <1>3 DEF modemVars, AtInv, IsAt, PairedUp, Good, Knows, Ctx, ToTry, Queue, Waiting
<1> QED BY <1>1, <1>2, <1>3 DEF ModemNext

\* What the modem reads as the payload of a message is never the answer to a
\* command, nor the other way round, for any number of faults, commands,
\* retries and lines on the wire.
THEOREM ModemsPayloadsStayApart ==
  ModemSpec => []PayloadsStayApart
<1>1. AtInv => PayloadsStayApart
  BY DEF AtInv, PairedUp, PayloadsStayApart, A!PayloadsStayApart
<1>2. ModemSpec => []AtInv
  BY AtInvBegins, AtInvKept, PTL DEF ModemSpec
<1> QED BY <1>1, <1>2, PTL
-----------------------------------------------------------------------------
(* When Measurements hears of its message.                                 *)

\* What a handler may do to a message that is out: leave it alone or restart
\* the modem, or else tell Measurements of it.
Stays(d) ==
    d.ack = A!None /\ d.state \in {"MQTT_PUBLISHING", "OFF", "RESTORE"}
Answers(d) == Stays(d) \/ d.ack \in {"ack", "nack"}

LEMMA WifiPublishing ==
  ASSUME NEW c, Ctx(c), c.state = "MQTT_PUBLISHING", c.ack = A!None
  PROVE  /\ \A l : Answers(A!W!Process(c, l))
         /\ \A cmd, r : Stays(A!W!DoCommand(c, cmd, r))
         /\ Answers(A!W!Timeout(c))
         /\ c.nest # <<>> /\ A!Innermost(c) \in {"list", "listcmd"}
            => Stays(A!W!AfterSleep(c))
<1>1. {"state", "ack", "out", "lastCmd", "nest"} \subseteq DOMAIN c
  BY DEF Ctx
<1>2. \A d : {"state", "ack"} \subseteq DOMAIN d /\ d.ack = A!None => Stays(A!W!Reset(d))
  BY DEF Stays, A!W!Reset, A!W!SayAndWait, A!W!Say
<1>3. ASSUME NEW cmd, NEW r PROVE Stays(A!W!DoCommand(c, cmd, r))
  <2>1. A!W!ListStations(c, r) = c
    BY DEF A!W!ListStations, A!W!CanList
  <2>2. PICK d : d = A!W!Configure(c)
    OBVIOUS
  <2>3. {"state", "ack"} \subseteq DOMAIN d /\ d.ack = A!None /\ d.state = "MQTT_PUBLISHING"
    BY <1>1, <2>2 DEF A!W!Configure
  <2>4. A!W!CmdConfig(c) = A!W!Reset(d) \/ A!W!CmdConfig(c) = d
    BY <2>2 DEF A!W!CmdConfig
  <2>5. Stays(A!W!CmdConfig(c))
    BY <1>2, <2>3, <2>4 DEF Stays
  <2>6. Stays([c EXCEPT !.auto = ~@]) /\ Stays(c)
    BY <1>1 DEF Stays
  <2> QED BY <1>1, <1>2, <2>1, <2>5, <2>6, Zenon DEF A!W!DoCommand
<1>4. \A d : Stays(d) => A!W!Publish(d, "resp") = d
  BY DEF Stays, A!W!Publish
<1>5. ASSUME NEW l PROVE Answers(A!W!Process(c, l))
  <2>1. Answers(A!W!ProcessPublishing(c, l))
    BY <1>1 DEF Answers, Stays, A!W!ProcessPublishing, A!W!SentAck, A!W!Reset,
       A!W!SayAndWait, A!W!Say
  <2>2. A!W!Handle(c, l) = A!W!ProcessPublishing(c, l)
    BY DEF A!W!Handle
  <2>3. PICK d : d = A!W!DoCommand(c, A!W!EventCmd[l], "listcmd")
    OBVIOUS
  <2>4. Stays(d)
    BY <1>3, <2>3
  <2>5. A!W!Process(c, l) = A!W!Handle(c, l) \/ A!W!Process(c, l) = d
    BY <1>4, <2>3, <2>4 DEF A!W!Process
  <2> QED BY <2>1, <2>2, <2>4, <2>5 DEF Answers
<1>6. Answers(A!W!Timeout(c))
  <2>1. A!W!Timeout(c) = A!W!CheckMqttTimeout(c)
    BY DEF A!W!Timeout, A!W!WifiStates, A!W!MqttStates
  <2>2. PICK d : d = A!W!SentAck(c, FALSE)
    OBVIOUS
  <2>3. d.ack = "nack" /\ "ack" \in DOMAIN d
    BY <1>1, <2>2 DEF A!W!SentAck
  <2>4. A!W!Timeout(c) = A!W!TimedoutStartWifiStatus(d, "TIMEDOUT_MQTT_WAIT_WIFI_STATE")
    BY <2>1, <2>2 DEF A!W!CheckMqttTimeout
  <2>5. A!W!Timeout(c).ack = "nack"
    BY <2>3, <2>4 DEF A!W!TimedoutStartWifiStatus, A!W!SayAndWait, A!W!Say
  <2> QED BY <2>5 DEF Answers
<1>7. c.nest # <<>> /\ A!Innermost(c) \in {"list", "listcmd"} => Stays(A!W!AfterSleep(c))
  <2> HAVE c.nest # <<>> /\ A!Innermost(c) \in {"list", "listcmd"}
  <2>1. PICK d : d = A!W!ListDone(c)
    OBVIOUS
  <2>2. PICK e : e = A!W!Return(c)
    OBVIOUS
  <2>3. {"state", "ack"} \subseteq DOMAIN e /\ e.ack = A!None /\ e.state = "MQTT_PUBLISHING"
    BY <1>1, <2>2 DEF A!W!Return
  <2>4. d = [e EXCEPT !.enabled = TRUE]
    BY <2>1, <2>2 DEF A!W!ListDone
  <2>5. Stays(d)
    BY <2>3, <2>4 DEF Stays
  <2>6. A!W!AfterSleep(c) = d \/ A!W!AfterSleep(c) = A!W!Publish(d, "resp")
    BY <2>1 DEF A!W!AfterSleep, A!W!Innermost, A!Innermost
  <2> QED BY <1>4, <2>5, <2>6
<1> QED BY <1>3, <1>5, <1>6, <1>7

LEMMA PoePublishing ==
  ASSUME NEW c, Ctx(c), c.state = "MQTT_PUBLISHING", c.ack = A!None
  PROVE  /\ \A l : Answers(A!P!Process(c, l))
         /\ \A cmd : Stays(A!P!DoCommand(c, cmd))
         /\ Answers(A!P!Timeout(c))
<1>1. {"state", "ack", "out", "lastCmd", "nest"} \subseteq DOMAIN c
  BY DEF Ctx
<1>2. \A d : {"state", "ack"} \subseteq DOMAIN d /\ d.ack = A!None
             => Stays(A!P!Reset(d)) /\ Stays(A!P!Start(d))
  BY DEF Stays, A!P!Reset, A!P!Start, A!P!SayAndWait, A!P!Say
<1>3. ASSUME NEW cmd PROVE Stays(A!P!DoCommand(c, cmd))
  <2>1. PICK d : d = A!P!Configure(c)
    OBVIOUS
  <2>2. {"state", "ack"} \subseteq DOMAIN d /\ d.ack = A!None
    BY <1>1, <2>1 DEF A!P!Configure
  <2>3. A!P!CmdConfig(c) = A!P!Start(d)
    BY <2>1 DEF A!P!CmdConfig
  <2>4. Stays(A!P!CmdConfig(c)) /\ Stays(c)
    BY <1>2, <2>2, <2>3 DEF Stays
  <2> QED BY <1>1, <1>2, <2>4, Zenon DEF A!P!DoCommand
<1>4. ASSUME NEW l PROVE Answers(A!P!Process(c, l))
  <2>1. Answers(A!P!ProcessPublishing(c, l))
    BY <1>1 DEF Answers, Stays, A!P!ProcessPublishing, A!P!SentAck, A!P!Reset,
       A!P!SayAndWait, A!P!Say
  <2>2. A!P!Handle(c, l) = A!P!ProcessPublishing(c, l)
    BY DEF A!P!Handle
  <2>3. PICK d : d = A!P!DoCommand(c, A!P!EventCmd[l])
    OBVIOUS
  <2>4. Stays(d)
    BY <1>3, <2>3
  <2>5. A!P!Publish(d, "resp") = d
    BY <2>4 DEF Stays, A!P!Publish
  <2>6. A!P!Process(c, l) = A!P!Handle(c, l) \/ A!P!Process(c, l) = d
    BY <2>3, <2>5 DEF A!P!Process
  <2> QED BY <2>1, <2>2, <2>4, <2>6 DEF Answers
<1>5. Answers(A!P!Timeout(c))
  <2>1. A!P!Timeout(c) = A!P!CheckMqttTimeout(c)
    BY DEF A!P!Timeout, A!P!MqttStates
  <2>2. A!P!CheckMqttTimeout(c).ack = "nack"
    BY <1>1 DEF A!P!CheckMqttTimeout, A!P!SentAck, A!P!SayAndWait, A!P!Say
  <2> QED BY <2>1, <2>2 DEF Answers
<1> QED BY <1>3, <1>4, <1>5

\* Only the WiFi driver scans for access points.
Stacked(c) == kind = "poe" => c.nest \in Seq({"conf", "connecting", "time"})
Level(d, c) == DOMAIN d = DOMAIN c /\ d.nest = c.nest
Deeper(d, c) == Level(d, c) \/ d = A!P!Sleep(c, "conf") \/ d = A!P!Sleep(c, "connecting")

LEMMA PoeLevel ==
  ASSUME NEW c, Ctx(c)
  PROVE  /\ \A w, s : Level(A!P!SayAndWait(c, w, s), c)
         /\ \A s : Level([c EXCEPT !.state = s], c)
         /\ Level(A!P!Reset(c), c)
<1>1. \A w, s : Level(A!P!SayAndWait(c, w, s), c)
  BY DEF Level, Ctx, A!P!SayAndWait, A!P!Say
<1>2. \A s : Level([c EXCEPT !.state = s], c)
  BY DEF Level, Ctx
<1> QED BY <1>1, <1>2, Zenon DEF A!P!Reset

LEMMA PoeHandlesLevel ==
  ASSUME NEW c, NEW l, Ctx(c)
  PROVE  Deeper(A!P!Handle(c, l), c)
<1>0. Level(c, c)
  BY DEF Level
<1>1. /\ \A w, s : Level(A!P!SayAndWait(c, w, s), c)
      /\ \A s : Level([c EXCEPT !.state = s], c) /\ Level(A!P!Reset(c), c)
  BY PoeLevel
<1>2. \A d : Deeper(d, c) => Deeper(A!P!OkOrReset(c, l, d), c)
  BY <1>0, <1>1, Zenon DEF Deeper, A!P!OkOrReset
<1>3. Level(A!P!ProcessOff(c, l), c) /\ Level(A!P!TimedoutMqtt(c, l), c)
  BY <1>0, <1>1, Zenon DEF A!P!ProcessOff, A!P!TimedoutMqtt, A!P!RetryCommand
<1>4. Deeper(A!P!ProcessDisableEcho(c, l), c) /\ Deeper(A!P!ProcessUsrConf(c, l), c)
  BY <1>1, <1>2, Zenon DEF Deeper, A!P!ProcessDisableEcho, A!P!ProcessUsrConf
<1>5. Deeper(A!P!ProcessWaitMac(c, l), c)
  <2>1. Level(A!P!KeepMac(c), c)
    BY DEF Level, Ctx, A!P!KeepMac
  <2> QED BY <1>0, <1>1, <2>1, Zenon DEF Deeper, A!P!ProcessWaitMac, A!P!SendSntp
<1>6. Deeper(A!P!ProcessSntp(c, l), c)
  BY <1>0, <1>1, Zenon DEF Deeper, A!P!ProcessSntp
<1>7. Deeper(A!P!ProcessIsMqttConnected(c, l), c)
  <2>1. \A d, x : Level(d, c) => Level([d EXCEPT !.conn = x], c)
    BY DEF Level, Ctx
  <2> QED BY <1>0, <1>1, <2>1, Zenon DEF Deeper, A!P!ProcessIsMqttConnected, A!P!DoMqttUserConf
<1>8. Deeper(A!P!ProcessIsSubscribed(c, l), c) /\ Deeper(A!P!ProcessWaitSub(c, l), c)
  BY <1>1, <1>2, Zenon DEF Deeper, A!P!ProcessIsSubscribed, A!P!ProcessWaitSub, A!P!DoMqttSub
<1>9. Deeper(A!P!ProcessWaitConf(c, l), c) /\ Deeper(A!P!ProcessConnecting(c, l), c)
  BY <1>2, Zenon DEF Deeper, A!P!ProcessWaitConf, A!P!ProcessConnecting
<1>10. Deeper(A!P!ProcessWaitPub(c, l), c)
  <2>1. Level(A!P!RawSend([c EXCEPT !.state = "MQTT_PUBLISHING"], A!P!Payload(c.packet)), c)
    BY DEF Level, Ctx, A!P!RawSend
  <2> QED BY <1>2, <2>1, Zenon DEF Deeper, A!P!ProcessWaitPub
<1>11. Deeper(A!P!ProcessPublishing(c, l), c)
  <2>1. \A d, ok : Level(d, c) => Level(A!P!SentAck(d, ok), c)
    BY DEF Level, Ctx, A!P!SentAck
  <2>2. Level(A!P!Reset(A!P!SentAck(c, FALSE)), c)
    BY DEF Level, Ctx, A!P!SentAck, A!P!Reset, A!P!SayAndWait, A!P!Say
  <2> QED BY <1>0, <1>1, <2>1, <2>2, Zenon DEF Deeper, A!P!ProcessPublishing
<1>12. Deeper(A!P!WaitTimestamp(c, l), c)
  BY DEF Deeper, Level, Ctx, A!P!WaitTimestamp
<1>13. \A d : Level(d, c) => Deeper(d, c)
  BY DEF Deeper
<1> QED BY <1>0, <1>3, <1>4, <1>5, <1>6, <1>7, <1>8, <1>9, <1>10, <1>11, <1>12, <1>13
        DEF A!P!Handle

LEMMA PoeStacked ==
  ASSUME NEW c, Ctx(c), Stacked(c), kind = "poe"
  PROVE  /\ \A l : Stacked(A!P!Process(c, l))
         /\ \A cmd : Stacked(A!P!DoCommand(c, cmd))
         /\ c.nest # <<>> => Stacked(A!P!AfterSleep(c))
         /\ Stacked(A!P!Timeout(c)) /\ Stacked(A!P!Reset(c))
<1>1. \A d : Level(d, c) => Stacked(d)
  BY DEF Level, Stacked
<1>2. \A d : Deeper(d, c) => Stacked(d)
  <2>1. PICK n \in Seq({"conf", "connecting", "time"}) : n = c.nest
    BY DEF Stacked
  <2>2. Append(n, "conf") \in Seq({"conf", "connecting", "time"})
        /\ Append(n, "connecting") \in Seq({"conf", "connecting", "time"})
    BY <2>1
  <2>3. A!P!Sleep(c, "conf").nest = Append(n, "conf")
        /\ A!P!Sleep(c, "connecting").nest = Append(n, "connecting")
    BY <2>1 DEF Ctx, A!P!Sleep
  <2> QED BY <1>1, <2>2, <2>3 DEF Deeper, Stacked
<1>3. ASSUME NEW cmd PROVE Level(A!P!DoCommand(c, cmd), c)
  <2>1. PICK d : d = A!P!Configure(c)
    OBVIOUS
  <2>2. Level(d, c) /\ {"state", "out", "lastCmd"} \subseteq DOMAIN d
    BY <2>1 DEF Level, Ctx, A!P!Configure
  <2>3. \A w, s : Level(A!P!SayAndWait(d, w, s), c)
    BY <2>2 DEF Level, Ctx, A!P!SayAndWait, A!P!Say
  <2>4. Level(A!P!CmdConfig(c), c)
    BY <2>1, <2>3, Zenon DEF A!P!CmdConfig, A!P!SendSntp, A!P!Start
  <2>5. Level(c, c) /\ Level(A!P!Reset(c), c)
    BY PoeLevel DEF Level
  <2> QED BY <2>4, <2>5, Zenon DEF A!P!DoCommand
<1>4. ASSUME NEW l PROVE Stacked(A!P!Process(c, l))
  <2>1. PICK d : d = A!P!DoCommand(c, A!P!EventCmd[l])
    OBVIOUS
  <2>2. Level(d, c)
    BY <1>3, <2>1
  <2>3. Level(A!P!Publish(d, "resp"), c)
    BY <2>2 DEF Level, Ctx, A!P!Publish, A!P!SayAndWait, A!P!Say
  <2> QED BY <1>1, <1>2, <2>1, <2>3, PoeHandlesLevel, Zenon DEF A!P!Process
<1>5. ASSUME c.nest # <<>> PROVE Stacked(A!P!AfterSleep(c))
  <2>1. PICK n \in Seq({"conf", "connecting", "time"}) : n = c.nest
    BY DEF Stacked
  <2>2. SubSeq(n, 1, Len(n) - 1) \in Seq({"conf", "connecting", "time"})
    BY <1>5, <2>1
  <2>3. PICK d : d = A!P!Return(c)
    OBVIOUS
  <2>4. /\ "nest" \in DOMAIN d /\ d.nest = SubSeq(n, 1, Len(n) - 1)
    BY <2>1, <2>3 DEF Ctx, A!P!Return
  <2>5. \A w, s : A!P!SayAndWait(d, w, s).nest = d.nest
    BY <2>4 DEF A!P!SayAndWait, A!P!Say
  <2>6. A!P!AfterSleep(c).nest = d.nest
    BY <2>3, <2>5, Zenon DEF A!P!AfterSleep, A!P!AfterWaitConf, A!P!DoMqttSub
  <2> QED BY <2>2, <2>4, <2>6 DEF Stacked
<1>6. Level(A!P!Timeout(c), c)
  <2>1. PICK d : d = IF c.state = "MQTT_PUBLISHING" THEN A!P!SentAck(c, FALSE) ELSE c
    OBVIOUS
  <2>2. Level(d, c) /\ {"state", "out", "lastCmd"} \subseteq DOMAIN d
    BY <2>1 DEF Level, Ctx, A!P!SentAck
  <2>3. \A w, s : Level(A!P!SayAndWait(d, w, s), c)
    BY <2>2 DEF Level, Ctx, A!P!SayAndWait, A!P!Say
  <2>4. Level(A!P!CheckMqttTimeout(c), c)
    BY <2>1, <2>3, Zenon DEF A!P!CheckMqttTimeout
  <2> QED BY <2>4, PoeLevel, Zenon DEF A!P!Timeout, A!P!Start
<1> QED BY <1>1, <1>3, <1>4, <1>5, <1>6, PoeLevel

\* What Measurements does.
LEMMA MeasStacked ==
  ASSUME NEW c, Ctx(c), Stacked(c)
  PROVE  /\ Stacked(A!AskTime(c)) /\ Stacked(A!Reset(c))
         /\ c.nest # <<>> => /\ Stacked(A!TimeDone(c))
                             /\ Stacked(A!Publish(A!TimeDone(c), "meas"))
                             /\ Stacked(A!Reset(A!Publish(A!TimeDone(c), "meas")))
<1>0. SUFFICES ASSUME kind = "poe"
               PROVE  /\ Stacked(A!AskTime(c)) /\ Stacked(A!Reset(c))
                      /\ c.nest # <<>> =>
                            /\ Stacked(A!TimeDone(c))
                            /\ Stacked(A!Publish(A!TimeDone(c), "meas"))
                            /\ Stacked(A!Reset(A!Publish(A!TimeDone(c), "meas")))
  BY DEF Stacked
<1>1. PICK n \in Seq({"conf", "connecting", "time"}) : n = c.nest
  BY <1>0 DEF Stacked
<1>2. /\ Append(n, "time") \in Seq({"conf", "connecting", "time"})
      /\ n # <<>> => SubSeq(n, 1, Len(n) - 1) \in Seq({"conf", "connecting", "time"})
  BY <1>1
<1>3. A!AskTime(c).nest = Append(n, "time")
  BY <1>1 DEF Ctx, A!AskTime, A!Sleep, A!SayAndWait, A!Say
<1>4. \A d : "nest" \in DOMAIN d =>
            /\ "nest" \in DOMAIN A!Publish(d, "meas") /\ A!Publish(d, "meas").nest = d.nest
            /\ A!P!Reset(d).nest = d.nest
  BY DEF A!Publish, A!SayAndWait, A!Say, A!P!Reset, A!P!SayAndWait, A!P!Say
<1>5. A!Reset(c).nest = n /\ \A d : A!Reset(d) = A!P!Reset(d)
  BY <1>0, <1>1, <1>4 DEF Ctx, A!Reset
<1>6. "nest" \in DOMAIN A!TimeDone(c) /\ A!TimeDone(c).nest = SubSeq(n, 1, Len(n) - 1)
  BY <1>1 DEF Ctx, A!TimeDone, A!Return
<1>7. PICK d : d = A!TimeDone(c)
  OBVIOUS
<1>8. /\ A!Publish(d, "meas").nest = d.nest
      /\ A!Reset(A!Publish(d, "meas")).nest = d.nest
  BY <1>4, <1>5, <1>6, <1>7
<1> QED BY <1>1, <1>2, <1>3, <1>5, <1>6, <1>7, <1>8 DEF Stacked

\* Between handlers nothing is left to tell.
AllTold == "owed" \in DOMAIN up /\ ctx.ack = A!None /\ Stacked(ctx)

\* Measurements hears of the message that is out, or it stays out.
Owing ==
    /\ ctx.state = "MQTT_PUBLISHING"
    /\ \/ ctx.nest = <<>>
       \/ A!Innermost(ctx) \in {"time", "list", "listcmd"}
Settles(c, u) ==
    /\ "owed" \in DOMAIN u /\ Stacked(c)
    /\ Owing => Stays(c) \/ ~u.owed

LEMMA DriverTells ==
  ASSUME PairedUp, IsAt, NEW c, NEW w, NEW u, Keeps(c, ctx), A!Driver(c, w, u),
         Settles(c, u)
  PROVE  AllTold' /\ A!AnswerComesFirst
<1>1. Ctx(c)
  <2>1. \A o \in Seq(Sends) : Waiting(chip, cmds) \in Seq(Sends)
    BY WaitingQueue DEF PairedUp
  <2>2. ctx.out \in Seq(Sends) /\ Good(ctx, Waiting(chip, cmds))
    BY DEF PairedUp, Good, Knows, Ctx
  <2> QED BY <2>1, <2>2 DEF Keeps, Good, Knows
<1>2. PICK d : d = A!Told(c)
  OBVIOUS
<1>3. PICK e : e = [c EXCEPT !.ack = A!None]
  OBVIOUS
<1>4. {"state", "ack"} \subseteq DOMAIN e /\ e.ack = A!None /\ e.state = c.state
  BY <1>1, <1>3 DEF Ctx
<1>5. "state" \in DOMAIN d /\ "ack" \in DOMAIN d /\ d.ack = A!None /\ Stacked(d)
  <2>0. "nest" \in DOMAIN e /\ e.nest = c.nest /\ Stacked(c)
    BY <1>1, <1>3 DEF Ctx, Settles
  <2>1. CASE d = e
    BY <1>4, <2>0, <2>1 DEF Stacked
  <2>2. CASE d = A!AskTime(e)
    <3>1. /\ "state" \in DOMAIN d /\ "ack" \in DOMAIN d /\ d.ack = A!None
          /\ d.nest = Append(c.nest, "time")
      BY <1>4, <2>0, <2>2 DEF A!AskTime, A!Sleep, A!SayAndWait, A!Say
    <3>2. \A n \in Seq({"conf", "connecting", "time"}) :
             Append(n, "time") \in Seq({"conf", "connecting", "time"})
      OBVIOUS
    <3> QED BY <2>0, <3>1, <3>2 DEF Stacked
  <2> QED BY <1>2, <1>3, <2>1, <2>2 DEF A!Told
<1>6. c.ack # "ack" => d.state = c.state
  BY <1>2, <1>3, <1>4 DEF A!Told
<1>7. up' = u /\ ctx' = [d EXCEPT !.out = <<>>]
  BY <1>2 DEF A!Driver
<1>8. ctx'.ack = A!None /\ ctx'.state = d.state /\ (kind' = "poe" => ctx'.nest = d.nest)
  <2>1. "nest" \in DOMAIN d
    BY <1>1, <1>2, <1>3 DEF Ctx, A!Told, A!AskTime, A!Sleep, A!SayAndWait, A!Say
  <2> QED BY <1>5, <1>7, <2>1
<1>9. AllTold'
  BY <1>5, <1>7, <1>8 DEF AllTold, Settles, Stacked, A!Driver
<1>10. Stays(c) => ctx'.state \in {"MQTT_PUBLISHING", "OFF", "RESTORE"}
  BY <1>6, <1>8 DEF Stays, A!None
<1>11. A!AnswerComesFirst
  BY <1>7, <1>10 DEF A!AnswerComesFirst, Settles, Owing
<1> QED BY <1>9, <1>11

\* What Measurements takes a handler's word for.
LEMMA Hears ==
  ASSUME AllTold, NEW c, Owing => Answers(c), Stacked(c)
  PROVE  Settles(c, A!UpTold(c))
<1>1. "owed" \in DOMAIN A!UpIdle /\ ~A!UpIdle.owed
  BY DEF A!UpIdle
<1>2. PICK u : u = [up EXCEPT !.owed = FALSE, !.arrived = FALSE]
  OBVIOUS
<1>3. "owed" \in DOMAIN u /\ ~u.owed
  BY <1>2 DEF AllTold
<1>4. A!UpTold(c) = CASE c.ack = "ack" -> u [] c.ack = "nack" -> A!UpIdle [] OTHER -> up
  BY <1>2 DEF A!UpTold
<1>5. "owed" \in DOMAIN A!UpTold(c)
  BY <1>1, <1>3, <1>4 DEF AllTold
<1>6. Answers(c) => Stays(c) \/ ~A!UpTold(c).owed
  BY <1>1, <1>3, <1>4 DEF Answers
<1> QED BY <1>5, <1>6 DEF Settles

LEMMA AtSettles ==
  ASSUME PairedUp, IsAt, AllTold, A!Next
  PROVE  AllTold' /\ A!AnswerComesFirst
<1>0. Stacked(ctx)
  BY DEF AllTold
<1>1. Ctx(ctx) /\ (kind = "wifi" \/ kind = "poe")
  BY DEF PairedUp, Good, Knows, IsAt
<1>2. "owed" \in DOMAIN A!UpIdle /\ ~A!UpIdle.owed
  BY DEF A!UpIdle
<1>3. ASSUME UNCHANGED <<kind, ctx>>, "owed" \in DOMAIN up' PROVE AllTold' /\ A!AnswerComesFirst
  BY <1>3 DEF AllTold, Stacked, A!AnswerComesFirst
<1>4. \A c : Stacked(c) => Settles(c, A!UpIdle)
  BY <1>2 DEF Settles
<1>5. CASE A!Hear
  <2>1. PICK l : l = Head(line)
    OBVIOUS
  <2>2. PICK c : c = A!Process(ctx, l)
    OBVIOUS
  <2>3. Owing => Answers(c)
    BY <1>1, <2>2, WifiPublishing, PoePublishing DEF Owing, AllTold, A!Process
  <2>4. PICK w : A!Driver(c, w, A!UpTold(c))
    BY <1>5, <2>1, <2>2 DEF A!Hear
  <2>5. Keeps(c, ctx)
    BY <2>2, AtKeeps
  <2>6. Stacked(c)
    BY <1>1, <1>0, <2>2, PoeStacked DEF Stacked, A!Process
  <2>7. Settles(c, A!UpTold(c))
    BY <2>3, <2>6, Hears
  <2> QED BY <2>4, <2>5, <2>7, DriverTells
<1>6. CASE A!Resume /\ A!Innermost(ctx) = "time"
  <2>1. ctx.nest # <<>>
    BY <1>6 DEF A!Resume
  <2>2. PICK d : d = A!TimeDone(ctx)
    OBVIOUS
  <2>3. PICK p : p = A!Publish(d, "meas")
    OBVIOUS
  <2>4. Keeps(d, ctx)
    BY <2>1, <2>2, AtKeeps
  <2>5. Keeps(p, ctx)
    BY <2>3, <2>4, Publishes, KeepsTwice, Zenon
  <2>6. Keeps(A!Reset(p), ctx)
    BY <2>5, AtKeeps, KeepsTwice, Zenon
  <2>7. PICK more \in BOOLEAN : A!MessageGoes(ctx, more)
    BY <1>6 DEF A!Resume
  <2>8. CASE A!TimeTaken(ctx) /\ ctx.state = "IDLE"
    <3>1. PICK u : u = [pending |-> more, owed |-> TRUE, arrived |-> FALSE]
      OBVIOUS
    <3>2. A!Driver(p, line, u)
      BY <2>2, <2>3, <2>7, <2>8, <3>1 DEF A!MessageGoes
    <3>3. Settles(p, u)
      BY <1>1, <1>0, <2>1, <2>2, <2>3, <2>8, <3>1, MeasStacked DEF Settles, Owing
    <3> QED BY <2>5, <3>2, <3>3, DriverTells
  <2>9. CASE A!TimeTaken(ctx) /\ ctx.state # "IDLE"
    <3>1. A!Driver(A!Reset(p), line, A!UpIdle)
      BY <2>2, <2>3, <2>7, <2>9 DEF A!MessageGoes
    <3>2. Settles(A!Reset(p), A!UpIdle)
      BY <1>1, <1>4, <1>0, <2>1, <2>2, <2>3, MeasStacked
    <3> QED BY <2>6, <3>1, <3>2, DriverTells
  <2>10. CASE ~A!TimeTaken(ctx)
    <3>1. PICK u : u = [up EXCEPT !.pending = FALSE]
      OBVIOUS
    <3>2. A!Driver(d, line, u)
      BY <2>2, <2>7, <2>10, <3>1 DEF A!MessageGoes
    <3>3. Owing => Stays(d)
      <4> HAVE Owing
      <4>1. PICK e : e = A!Return(ctx)
        OBVIOUS
      <4>2. e.ack = A!None /\ e.state = "MQTT_PUBLISHING" /\ {"ack", "state"} \subseteq DOMAIN e
        BY <1>1, <4>1 DEF A!Return, AllTold, Owing, Ctx
      <4>3. d = [e EXCEPT !.time = A!None]
        BY <2>2, <4>1 DEF A!TimeDone, Owing
      <4> QED BY <4>2, <4>3 DEF Stays
    <3>4. Settles(d, u)
      BY <1>1, <1>0, <2>1, <2>2, <3>1, <3>3, MeasStacked DEF Settles, AllTold
    <3> QED BY <2>4, <3>2, <3>4, DriverTells
  <2> QED BY <2>8, <2>9, <2>10
<1>7. CASE A!Resume /\ A!Innermost(ctx) # "time"
  <2>1. ctx.nest # <<>>
    BY <1>7 DEF A!Resume
  <2>2. PICK c : c = A!AfterSleep(ctx)
    OBVIOUS
  <2>3. Owing => Answers(c)
    <3> HAVE Owing
    <3>1. A!Innermost(ctx) \in {"list", "listcmd"}
      BY <1>7, <2>1 DEF Owing
    <3>2. kind = "wifi" => Stays(c)
      BY <1>1, <2>1, <2>2, <3>1, WifiPublishing DEF Owing, AllTold, A!AfterSleep
    <3>3. kind # "poe"
      <4>1. \A n \in Seq({"conf", "connecting", "time"}) :
               n # <<>> => n[Len(n)] \in {"conf", "connecting", "time"}
        OBVIOUS
      <4> QED BY <1>0, <2>1, <3>1, <4>1 DEF Stacked, A!Innermost
    <3> QED BY <1>1, <3>2, <3>3 DEF Answers
  <2>4. A!Driver(c, line, A!UpTold(c))
    BY <1>7, <2>2 DEF A!Resume
  <2>5. Keeps(c, ctx)
    BY <1>7, <2>1, <2>2, AtKeeps
  <2>6. Stacked(c)
    BY <1>1, <1>0, <2>1, <2>2, PoeStacked DEF Stacked, A!AfterSleep
  <2>7. Settles(c, A!UpTold(c))
    BY <2>3, <2>6, Hears
  <2> QED BY <2>4, <2>5, <2>7, DriverTells
<1>8. CASE A!TimerFires
  <2>1. PICK c : c = A!Timeout(ctx)
    OBVIOUS
  <2>2. A!Driver(c, line, A!UpTold(c))
    BY <1>8, <2>1 DEF A!TimerFires
  <2>3. Owing => Answers(c)
    BY <1>1, <2>1, WifiPublishing, PoePublishing DEF Owing, AllTold, A!Timeout
  <2>4. Keeps(c, ctx)
    BY <2>1, AtKeeps
  <2>5. Stacked(c)
    BY <1>1, <1>0, <2>1, PoeStacked DEF Stacked, A!Timeout
  <2>6. Settles(c, A!UpTold(c))
    BY <2>3, <2>5, Hears
  <2> QED BY <2>2, <2>4, <2>6, DriverTells
<1>9. CASE A!MeasBusy
  <2>1. CASE UNCHANGED <<kind, ctx>> /\ up' = [up EXCEPT !.pending = TRUE]
    BY <1>3, <2>1 DEF AllTold
  <2>2. CASE A!Driver(A!Reset(ctx), line, A!UpIdle)
    <3>1. Settles(A!Reset(ctx), A!UpIdle)
      BY <1>1, <1>4, <1>0, MeasStacked
    <3> QED BY <2>2, <3>1, AtKeeps, DriverTells
  <2> QED BY <1>9, <2>1, <2>2 DEF A!MeasBusy
<1>10. CASE A!MeasSend
  <2>1. A!Driver(A!AskTime(ctx), line, up) /\ ctx.state = "IDLE"
    BY <1>10 DEF A!MeasSend
  <2>2. Settles(A!AskTime(ctx), up)
    BY <1>1, <1>0, <2>1, MeasStacked DEF Settles, Owing, AllTold
  <2> QED BY <2>1, <2>2, AtKeeps, DriverTells
<1>11. CASE \E cmd : A!Command(cmd)
  <2>1. PICK cmd : A!Command(cmd)
    BY <1>11
  <2>2. PICK c : c = IF kind = "wifi" THEN A!W!DoCommand(ctx, cmd, "list")
                     ELSE A!P!DoCommand(ctx, cmd)
    OBVIOUS
  <2>3. A!Driver(c, line, up)
    BY <2>1, <2>2 DEF A!Command
  <2>4. "list" \in Rests
    BY DEF Rests
  <2>5. Keeps(c, ctx)
    <3>1. Keeps(A!W!DoCommand(ctx, cmd, "list"), ctx)
      BY <2>4, WifiCommands, Zenon
    <3> QED BY <2>2, <3>1, PoeCommands
  <2>6. Owing => Stays(c)
    BY <1>1, <2>2, WifiPublishing, PoePublishing DEF Owing, AllTold
  <2>7. Stacked(c)
    BY <1>1, <1>0, <2>2, PoeStacked DEF Stacked
  <2>8. Settles(c, up)
    BY <2>6, <2>7 DEF Settles, AllTold
  <2> QED BY <2>3, <2>5, <2>8, DriverTells
<1>12. CASE A!MeasOffline \/ A!Lose \/ A!ChipFails \/ A!Drop \/ \E e : A!Remote(e)
  <2>1. UNCHANGED <<kind, ctx>> /\ (up' = up \/ up' = A!UpIdle)
    BY <1>12 DEF A!MeasOffline, A!Lose, A!ChipFails, A!Drop, A!Remote, A!Says
  <2> QED BY <1>2, <1>3, <2>1 DEF AllTold
<1>13. CASE A!Chip
  <2>1. \A ls, c : A!Says(ls, c) => UNCHANGED <<kind, ctx>>
    BY DEF A!Says
  <2>2. UNCHANGED <<kind, ctx>>
    BY <1>13, <2>1 DEF A!Chip, A!ChipRestore, A!ChipPlain, A!ChipMac, A!ChipTime, A!ChipList,
       A!ChipCwState, A!ChipJoin, A!ChipSntp, A!ChipUserCfg, A!ChipConnCfg, A!ChipConn,
       A!ChipIsConn, A!ChipIsSub, A!ChipSub, A!ChipPubRaw, A!ChipUnknown, A!ChipReads,
       A!ChipReadsNothing
  <2>3. up' = up \/ up' = [up EXCEPT !.arrived = TRUE]
    BY <1>13 DEF A!Chip, A!ChipReads, A!ChipReadsNothing
  <2> QED BY <1>3, <2>2, <2>3 DEF AllTold
<1> QED BY <1>5, <1>6, <1>7, <1>8, <1>9, <1>10, <1>11, <1>12, <1>13 DEF A!Next

AtToldInv == IsAt => AllTold

LEMMA AtToldBegins ==
  ASSUME ModemInit
  PROVE  AtToldInv
<1>1. A!Init => AllTold
  <2>1. <<>> \in Seq({"conf", "connecting", "time"})
    OBVIOUS
  <2>2. ASSUME A!Init PROVE ctx.ack = A!None /\ ctx.nest = <<>>
    <3>1. PICK conf \in BOOLEAN : ctx = A!StaticCtx(conf)
      BY <2>2 DEF A!Init
    <3> QED BY <3>1 DEF A!StaticCtx
  <2>3. A!Init => "owed" \in DOMAIN up
    BY DEF A!Init, A!UpIdle
  <2> QED BY <2>1, <2>2, <2>3 DEF AllTold, Stacked
<1>2. L!Init => ~IsAt
  BY DEF L!Init, IsAt
<1> QED BY <1>1, <1>2 DEF ModemInit, AtToldInv

LEMMA AtToldKept ==
  ASSUME AtInv, AtToldInv, [ModemNext]_modemVars
  PROVE  AtToldInv' /\ [IsAt => A!AnswerComesFirst]_modemVars
<1>1. CASE IsAt /\ A!Next
  BY <1>1, AtSettles DEF AtInv, AtToldInv
<1>2. CASE IsLora /\ L!Next
  BY <1>2, LoraKind DEF IsAt, AtToldInv, IsLora
<1>3. CASE UNCHANGED modemVars
  BY <1>3 DEF modemVars, AtToldInv, IsAt, AllTold, Stacked
<1> QED BY <1>1, <1>2, <1>3 DEF ModemNext

\* With WiFi or PoE, Measurements hears what became of its message before the
\* modem takes the next one, for any number of faults, commands and retries:
\* the half of AnswersAreTrue that is about these modems.
THEOREM ModemsAnswerFirst ==
  ModemSpec => [][IsAt => A!AnswerComesFirst]_modemVars
BY AtInvBegins, AtInvKept, AtToldBegins, AtToldKept, PTL DEF ModemSpec
-----------------------------------------------------------------------------
(* LoRaWAN: a driver that is connected has a modem that has joined.  What  *)
(* may be between them at a time is one question, to join or to send, and  *)
(* then its answer: the driver's state tells which, and a driver that asks *)
(* or awaits nothing has no answer coming.                                 *)

\* What goes either way.
CmdWords == {"init", "join", "ATZ", "restart", "test", "send meas", "send alive", "send err"}
LineWords == CmdWords \cup {"INIT", "OK", "JOINED", "JOIN_FAILED", "ACK", "NACK", "ERROR",
                            "FW-", "FW+", "FW@"}
Orders == CmdWords \X Nat
Lines == LineWords \X Nat
Downs == {"FW-", "FW+", "FW@"} \X Nat
Signals == {L!R!HardReset, L!S!PowerOn, L!S!PowerOff}

\* A question, and a line that is the answer to one.
Opens(o) == o[1] \in {"join", "send meas", "send alive", "send err"}
Closes(l) == l[1] \in {"JOINED", "JOIN_FAILED", "ACK", "NACK", "ERROR"}
\* The states in which an answer is awaited, to a join or to a message.
Joining == {"JOIN_WAIT_REPLAY", "JOIN_WAIT_OK", "JOIN_WAIT_JOIN", "WAIT_CONN"}
Sending == {"SEND_WAIT_OK", "SEND_WAIT_ACK", "WAIT_OK", "WAIT_ACK"}
On == Sending \cup {"IDLE"}

Unopened(q) == \A i \in 1..Len(q) : ~Opens(q[i])
Unclosed(q) == \A i \in 1..Len(q) : ~Closes(q[i])

Chips == [on : BOOLEAN, boots : BOOLEAN, echo : BOOLEAN, joined : BOOLEAN,
          air : {L!None, "join", "meas", "alive", "err"}]
Wires == [line : Seq(Lines), cmds : Seq(Orders), chip : Chips]

\* At most one question is open: in the last command, on the air, or in one line.
Single(w) ==
    /\ ~Unopened(w.cmds) => w.chip.air = L!None /\ Unclosed(w.line)
    /\ w.chip.air # L!None => Unclosed(w.line)
    /\ \A i \in 1..Len(w.cmds) : Opens(w.cmds[i]) => i = Len(w.cmds)
    /\ \A i, j \in 1..Len(w.line) : Closes(w.line[i]) /\ Closes(w.line[j]) => i = j

\* No question is open.
Nothing(w) == Unopened(w.cmds) /\ w.chip.air = L!None /\ Unclosed(w.line)

\* If one is, it is the join, and the modem joins before it says so.
Joins(w) ==
    /\ \A i \in 1..Len(w.cmds) : Opens(w.cmds[i]) => w.cmds[i] = <<"join", 0>>
    /\ w.chip.air \in {L!None, "join"}
    /\ w.chip.air = "join" => w.cmds = <<>>
    /\ \A j \in 1..Len(w.line) : Closes(w.line[j]) =>
          /\ w.cmds = <<>>
          /\ w.line[j] \in {<<"JOINED", 0>>, <<"JOIN_FAILED", 0>>, <<"ERROR", 99>>}
          /\ w.line[j] = <<"JOINED", 0>> => w.chip.joined

\* The modem has joined, and nothing is under way that changes this.
Upon(w) ==
    /\ w.chip.joined
    /\ \A i \in 1..Len(w.cmds) : Opens(w.cmds[i]) /\ w.cmds[i][1] # "join"
    /\ w.chip.air # "join"
    /\ \A j \in 1..Len(w.line) : w.line[j][1] # "JOINED"

\* The modem's end goes with the driver's state.
Fine(s, w) ==
    /\ Single(w)
    /\ s \in Joining => Joins(w)
    /\ s \in On => Upon(w)
    /\ s \notin Joining \cup Sending => Nothing(w)

-----------------------------------------------------------------------------
LEMMA WireOf ==
  ASSUME NEW q \in Seq(Lines), NEW k \in Seq(Orders), NEW h \in Chips
  PROVE  [line |-> q, cmds |-> k, chip |-> h] \in Wires
BY DEF Wires

LEMMA Heard ==
  ASSUME NEW w \in Wires, NEW s, Fine(s, w), w.line # <<>>,
         NEW l, l = Head(w.line),
         NEW v, v = [w EXCEPT !.line = Tail(w.line)]
  PROVE  /\ v \in Wires /\ l \in Lines /\ Fine(s, v)
         /\ Closes(l) => Nothing(v) /\ s \in Joining \cup Sending
         /\ s \in Joining /\ Closes(l) =>
               l \in {<<"JOINED", 0>>, <<"JOIN_FAILED", 0>>, <<"ERROR", 99>>}
         /\ s \in Joining /\ l = <<"JOINED", 0>> => Upon(v)
         /\ s \in On => Upon(v) /\ l # <<"JOINED", 0>>
<1>1. PICK q \in Seq(Lines), k \in Seq(Orders), h \in Chips :
          w = [line |-> q, cmds |-> k, chip |-> h]
  BY DEF Wires
<1>2. /\ q # <<>> /\ l = q[1] /\ v = [line |-> Tail(q), cmds |-> k, chip |-> h]
  <2>1. w.line = q
    BY <1>1
  <2>2. q # <<>> /\ l = Head(q) /\ v = [w EXCEPT !.line = Tail(q)]
    BY <2>1
  <2>3. l = q[1]
    BY <2>2
  <2>4. v = [line |-> Tail(q), cmds |-> k, chip |-> h]
    BY <1>1, <2>2
  <2> QED BY <2>2, <2>3, <2>4
<1>3. PICK t : t = Tail(q)
  OBVIOUS
<1>4. /\ t \in Seq(Lines) /\ Len(t) = Len(q) - 1 /\ Len(q) \in Nat /\ Len(q) >= 1
      /\ \A i \in 1..Len(t) : i + 1 \in 1..Len(q) /\ t[i] = q[i + 1]
  BY <1>2, <1>3
<1>5. 1 \in 1..Len(q)
  BY <1>4
<1>6. v \in Wires /\ l \in Lines
  <2>1. l \in Lines
    BY <1>2, <1>5
  <2>2. v = [line |-> t, cmds |-> k, chip |-> h] /\ t \in Seq(Lines)
    BY <1>2, <1>3, <1>4
  <2>3. v \in Wires
    BY <2>2, WireOf
  <2> QED BY <2>1, <2>3
<1>7. Unclosed(q) => Unclosed(t)
  BY <1>4 DEF Unclosed
<1>8. Single(w) => Single(v)
  BY <1>1, <1>2, <1>3, <1>4, <1>7 DEF Single
<1>9. Single(w) /\ Closes(l) => Nothing(v)
  <2> SUFFICES ASSUME Single(w), Closes(l)
               PROVE  Nothing(v)
    OBVIOUS
  <2>1. ~Unclosed(q)
    BY <1>2, <1>5 DEF Unclosed
  <2>2. Unopened(k) /\ h.air = L!None
    BY <1>1, <2>1 DEF Single
  <2>3. \A i \in 1..Len(t) : ~Closes(t[i])
    <3> SUFFICES ASSUME NEW i \in 1..Len(t), Closes(t[i])
                 PROVE  FALSE
      OBVIOUS
    <3>1. Closes(q[i + 1]) /\ Closes(q[1]) /\ i + 1 \in 1..Len(q)
      BY <1>2, <1>4
    <3>2. i + 1 = 1
      BY <1>1, <1>5, <3>1 DEF Single
    <3> QED BY <1>4, <3>2
  <2> QED BY <1>2, <1>3, <2>2, <2>3 DEF Nothing, Unclosed
<1>10. Joins(w) => Joins(v)
  <2> SUFFICES ASSUME Joins(w)
               PROVE  Joins(v)
    OBVIOUS
  <2>1. \A j \in 1..Len(t) : Closes(t[j]) =>
          /\ k = <<>>
          /\ t[j] \in {<<"JOINED", 0>>, <<"JOIN_FAILED", 0>>, <<"ERROR", 99>>}
          /\ t[j] = <<"JOINED", 0>> => h.joined
    BY <1>1, <1>4 DEF Joins
  <2> QED BY <1>1, <1>2, <1>3, <2>1 DEF Joins
<1>11. Upon(w) => Upon(v)
  BY <1>1, <1>2, <1>3, <1>4 DEF Upon
<1>12. Nothing(w) => Nothing(v)
  BY <1>1, <1>2, <1>3, <1>7 DEF Nothing
<1>13. Fine(s, v)
  BY <1>8, <1>10, <1>11, <1>12 DEF Fine
<1>14. Closes(l) => Nothing(v) /\ s \in Joining \cup Sending
  <2>1. Closes(l) => ~Nothing(w)
    BY <1>1, <1>2, <1>5 DEF Nothing, Unclosed
  <2> QED BY <1>9, <2>1 DEF Fine
<1>15. s \in Joining /\ Closes(l) =>
          /\ l \in {<<"JOINED", 0>>, <<"JOIN_FAILED", 0>>, <<"ERROR", 99>>}
          /\ k = <<>> /\ (l = <<"JOINED", 0>> => h.joined)
  BY <1>1, <1>2, <1>5 DEF Fine, Joins
<1>16. s \in Joining /\ l = <<"JOINED", 0>> => Upon(v)
  <2> SUFFICES ASSUME s \in Joining, l = <<"JOINED", 0>>
               PROVE  Upon(v)
    OBVIOUS
  <2>1. Closes(l)
    BY DEF Closes
  <2>2. Nothing(v) /\ k = <<>> /\ h.joined
    BY <2>1, <1>14, <1>15
  <2>3. h.air # "join"
    BY <1>2, <2>2 DEF Nothing, L!None
  <2>4. \A j \in 1..Len(t) : t[j][1] # "JOINED"
    BY <1>2, <1>3, <2>2 DEF Nothing, Unclosed, Closes
  <2> QED BY <1>2, <1>3, <2>2, <2>3, <2>4 DEF Upon
<1>17. s \in On => Upon(v) /\ l # <<"JOINED", 0>>
  BY <1>1, <1>2, <1>5, <1>11 DEF Fine, Upon
<1> QED BY <1>6, <1>13, <1>14, <1>15, <1>16, <1>17

LEMMA PutNone ==
  ASSUME NEW w
  PROVE  L!PutAll(w, <<>>) = w
<1>1. PICK f : f = [i \in 0..Len(<<>>) |-> w]
  OBVIOUS
<1>2. \E g : g = [i \in 0..Len(<<>>) |->
                    IF i = 0 THEN w ELSE L!Put(g[i - 1], <<>>[i])]
  <2>1. 0..Len(<<>>) = {0}
    OBVIOUS
  <2>2. f = [i \in 0..Len(<<>>) |-> IF i = 0 THEN w ELSE L!Put(f[i - 1], <<>>[i])]
    BY <1>1, <2>1
  <2> QED BY <2>2
<1>3. PICK g : g = CHOOSE h : h = [i \in 0..Len(<<>>) |->
                    IF i = 0 THEN w ELSE L!Put(h[i - 1], <<>>[i])]
  OBVIOUS
<1>4. g = [i \in 0..Len(<<>>) |-> IF i = 0 THEN w ELSE L!Put(g[i - 1], <<>>[i])]
  BY <1>2, <1>3, Zenon
<1>5. g[Len(<<>>)] = w
  BY <1>4
<1> QED BY <1>3, <1>5 DEF L!PutAll

LEMMA PutOne ==
  ASSUME NEW w, NEW o
  PROVE  L!PutAll(w, <<o>>) = L!Put(w, o)
<1>1. PICK f : f = [i \in 0..Len(<<o>>) |-> IF i = 0 THEN w ELSE L!Put(w, o)]
  OBVIOUS
<1>2. \E g : g = [i \in 0..Len(<<o>>) |->
                    IF i = 0 THEN w ELSE L!Put(g[i - 1], <<o>>[i])]
  <2>1. 0..Len(<<o>>) = {0, 1}
    OBVIOUS
  <2>2. f[0] = w /\ f[1] = L!Put(w, o)
    BY <1>1, <2>1
  <2>3. f = [i \in 0..Len(<<o>>) |-> IF i = 0 THEN w ELSE L!Put(f[i - 1], <<o>>[i])]
    <3>1. \A i \in {0, 1} : (IF i = 0 THEN w ELSE L!Put(w, o))
                         = IF i = 0 THEN w ELSE L!Put(f[i - 1], <<o>>[i])
      BY <2>2
    <3> QED BY <1>1, <2>1, <3>1
  <2> QED BY <2>3
<1>3. PICK g : g = CHOOSE h : h = [i \in 0..Len(<<o>>) |->
                    IF i = 0 THEN w ELSE L!Put(h[i - 1], <<o>>[i])]
  OBVIOUS
<1>4. g = [i \in 0..Len(<<o>>) |-> IF i = 0 THEN w ELSE L!Put(g[i - 1], <<o>>[i])]
  BY <1>2, <1>3, Zenon
<1>5. g[0] = w
  BY <1>4
<1>6. g[1] = L!Put(w, o)
  BY <1>4, <1>5
<1>7. g[Len(<<o>>)] = g[1]
  OBVIOUS
<1> QED BY <1>3, <1>6, <1>7 DEF L!PutAll

Quietens(o) == o \in Signals \/ (o \in Orders /\ ~Opens(o))

LEMMA ChipKinds ==
  /\ {L!ChipOff, L!ChipBooted, L!ChipBooting} \subseteq Chips
  /\ \A h \in {L!ChipOff, L!ChipBooted, L!ChipBooting} : h.air = L!None
<1>1. L!ChipOff \in Chips /\ L!ChipOff.air = L!None
  BY DEF L!ChipOff, Chips
<1>2. L!ChipBooted \in Chips /\ L!ChipBooted.air = L!None
  BY <1>1 DEF L!ChipBooted, Chips
<1>3. L!ChipBooting \in Chips /\ L!ChipBooting.air = L!None
  BY <1>2 DEF L!ChipBooting, Chips
<1> QED BY <1>1, <1>2, <1>3

LEMMA PutAppends ==
  ASSUME NEW w, NEW o \in Orders
  PROVE  L!Put(w, o) \in {w, [w EXCEPT !.cmds = Append(@, o)]}
<1>1. o[1] \in CmdWords
  BY DEF Orders
<1>2. o[1] \notin {"PULSE", "OFF", "ON"}
  BY <1>1 DEF CmdWords
<1>3. o # L!R!HardReset /\ o # L!S!PowerOff /\ o # L!S!PowerOn
  BY <1>2 DEF L!R!HardReset, L!S!PowerOff, L!S!PowerOn
<1> QED BY <1>3, Zenon DEF L!Put

LEMMA PutSignals ==
  ASSUME NEW w
  PROVE  /\ L!Put(w, L!R!HardReset) = [line |-> Append(w.line, L!R!INIT), cmds |-> <<>>,
                                      chip |-> L!ChipBooted]
         /\ L!Put(w, L!S!PowerOff) = [w EXCEPT !.cmds = <<>>, !.chip = L!ChipOff]
         /\ L!Put(w, L!S!PowerOn) =
               IF w.chip.on THEN w
               ELSE [w EXCEPT !.chip = L!ChipBooting]
<1>1. /\ L!R!HardReset # L!S!PowerOff /\ L!R!HardReset # L!S!PowerOn
      /\ L!S!PowerOff # L!S!PowerOn
  BY DEF L!R!HardReset, L!S!PowerOff, L!S!PowerOn
<1>2. L!Put(w, L!R!HardReset) = [line |-> Append(w.line, L!R!INIT), cmds |-> <<>>,
                                 chip |-> L!ChipBooted]
  BY <1>1 DEF L!Put
<1>3. L!Put(w, L!S!PowerOff) = [w EXCEPT !.cmds = <<>>, !.chip = L!ChipOff]
  BY <1>1, Zenon DEF L!Put
<1>4. w.chip.on => L!Put(w, L!S!PowerOn) = w
  BY <1>1, Zenon DEF L!Put
<1>5. ~w.chip.on => L!Put(w, L!S!PowerOn) = [w EXCEPT !.chip = L!ChipBooting]
  BY <1>1, Zenon DEF L!Put
<1> QED BY <1>2, <1>3, <1>4, <1>5

LEMMA PutCalm ==
  ASSUME NEW w \in Wires, Nothing(w), NEW o, Quietens(o)
  PROVE  L!Put(w, o) \in Wires /\ Nothing(L!Put(w, o))
<1>1. PICK q \in Seq(Lines), k \in Seq(Orders), h \in Chips :
          w = [line |-> q, cmds |-> k, chip |-> h]
  BY DEF Wires
<1>2. Unopened(k) /\ h.air = L!None /\ Unclosed(q)
  BY <1>1 DEF Nothing
<1>3. \A i \in Lines : ~Closes(i) =>
          Append(q, i) \in Seq(Lines) /\ Unclosed(Append(q, i))
  BY <1>2 DEF Unclosed
<1>4. \A i \in Orders : ~Opens(i) =>
          Append(k, i) \in Seq(Orders) /\ Unopened(Append(k, i))
  BY <1>2 DEF Unopened
<1>5. L!R!INIT \in Lines /\ ~Closes(L!R!INIT) /\ L!S!INIT = L!R!INIT
  BY DEF L!R!INIT, L!S!INIT, Lines, LineWords, Closes
<1>6. <<>> \in Seq(Orders) /\ Unopened(<<>>)
  BY DEF Unopened
<1>7. PICK v : v = L!Put(w, o)
  OBVIOUS
<1>8. \E r \in Seq(Lines), c \in Seq(Orders), g \in Chips :
          /\ v = [line |-> r, cmds |-> c, chip |-> g]
          /\ Unclosed(r) /\ Unopened(c) /\ g.air = L!None
  <2>1. CASE o = L!R!HardReset
    <3>1. v = [line |-> Append(q, L!R!INIT), cmds |-> <<>>, chip |-> L!ChipBooted]
      <4>1. w.line = q
        BY <1>1
      <4> QED BY <1>7, <2>1, <4>1, PutSignals
    <3> QED BY <1>3, <1>5, <1>6, <3>1, ChipKinds
  <2>2. CASE o = L!S!PowerOff
    <3>1. v = [w EXCEPT !.cmds = <<>>, !.chip = L!ChipOff]
      BY <1>7, <2>2, PutSignals
    <3>2. v = [line |-> q, cmds |-> <<>>, chip |-> L!ChipOff]
      BY <1>1, <3>1
    <3> QED BY <1>2, <1>6, <3>2, ChipKinds
  <2>3. CASE o = L!S!PowerOn
    <3>1. v = IF h.on THEN w
              ELSE [w EXCEPT !.chip = L!ChipBooting]
      BY <1>1, <1>7, <2>3, PutSignals
    <3>2. v = w \/ v = [line |-> q, cmds |-> k, chip |-> L!ChipBooting]
      BY <1>1, <3>1
    <3> QED BY <1>1, <1>2, <3>2, ChipKinds
  <2>4. CASE o \in Orders /\ ~Opens(o)
    <3>1. v = w \/ v = [w EXCEPT !.cmds = Append(@, o)]
      BY <1>7, <2>4, PutAppends
    <3>2. v = w \/ v = [line |-> q, cmds |-> Append(k, o), chip |-> h]
      BY <1>1, <3>1
    <3> QED BY <1>1, <1>2, <1>4, <2>4, <3>2
  <2> QED BY <2>1, <2>2, <2>3, <2>4 DEF Quietens, Signals
<1> QED BY <1>7, <1>8, WireOf DEF Nothing

LEMMA PutOpens ==
  ASSUME NEW w \in Wires, Nothing(w), NEW o \in Orders, Opens(o)
  PROVE  /\ L!Put(w, o) \in Wires /\ Single(L!Put(w, o))
         /\ o = L!R!JoinMsg => Joins(L!Put(w, o))
         /\ Upon(w) /\ o[1] # "join" => Upon(L!Put(w, o))
<1>1. PICK q \in Seq(Lines), k \in Seq(Orders), h \in Chips :
          w = [line |-> q, cmds |-> k, chip |-> h]
  BY DEF Wires
<1>2. Unopened(k) /\ h.air = L!None /\ Unclosed(q)
  BY <1>1 DEF Nothing
<1>3. PICK v : v = L!Put(w, o)
  OBVIOUS
<1>4. v = w \/ v = [line |-> q, cmds |-> Append(k, o), chip |-> h]
  <2>1. v = w \/ v = [w EXCEPT !.cmds = Append(@, o)]
    BY <1>3, PutAppends
  <2> QED BY <1>1, <2>1
<1>5. \A i \in 1..Len(q) : ~Closes(q[i])
  BY <1>2 DEF Unclosed
<1>6. CASE v = w
  <2>1. Single(w)
    BY <1>1, <1>2, <1>5 DEF Single, Unopened
  <2>2. o = L!R!JoinMsg => Joins(w)
    BY <1>1, <1>2, <1>5 DEF Joins, L!None, Unopened
  <2> QED BY <1>3, <1>6, <2>1, <2>2
<1>7. CASE v = [line |-> q, cmds |-> Append(k, o), chip |-> h]
  <2>1. PICK c : c = Append(k, o)
    OBVIOUS
  <2>2. /\ c \in Seq(Orders)
        /\ Len(c) = Len(k) + 1 /\ Len(k) \in Nat
        /\ \A i \in 1..Len(c) : IF i = Len(c) THEN c[i] = o ELSE i \in 1..Len(k) /\ c[i] = k[i]
    BY <2>1
  <2>3. \A i \in 1..Len(c) : Opens(c[i]) => i = Len(c)
    BY <1>2, <2>2 DEF Unopened
  <2>4. v = [line |-> q, cmds |-> c, chip |-> h]
    BY <1>7, <2>1
  <2>5. v \in Wires
    BY <2>2, <2>4, WireOf
  <2>6. Single(v)
    BY <1>2, <1>5, <2>3, <2>4 DEF Single
  <2>7. o = L!R!JoinMsg => Joins(v)
    <3> SUFFICES ASSUME o = <<"join", 0>> PROVE Joins(v)
      BY DEF L!R!JoinMsg
    <3>1. \A i \in 1..Len(c) : Opens(c[i]) => c[i] = <<"join", 0>>
      BY <2>2, <2>3
    <3>2. h.air # "join"
      BY <1>2 DEF L!None
    <3> QED BY <1>2, <1>5, <2>4, <3>1, <3>2 DEF Joins
  <2>8. Upon(w) /\ o[1] # "join" => Upon(v)
    <3> SUFFICES ASSUME Upon(w), o[1] # "join" PROVE Upon(v)
      OBVIOUS
    <3>1. \A i \in 1..Len(c) : Opens(c[i]) /\ c[i][1] # "join"
      BY <1>1, <2>2 DEF Upon
    <3> QED BY <1>1, <2>4, <3>1 DEF Upon
  <2> QED BY <1>3, <2>5, <2>6, <2>7, <2>8
<1> QED BY <1>4, <1>6, <1>7

-----------------------------------------------------------------------------
(* The driver: what a handler leaves behind, and what becomes of it.       *)

\* A context without console commands: nothing fails on the way to the modem
\* but the message of a measurement.
Sound(c) ==
    /\ {"state", "out", "ack", "nest", "init"} \subseteq DOMAIN c
    /\ c.init \in Nat /\ c.nest \in {<<>>, <<"meas">>}
    /\ c.nest # <<>> => L!Is3172 /\ c.state = "IDLE"
    /\ L!Is3172 => c.state \in L!R!States /\ "err" \in DOMAIN c /\ c.err = 0
    /\ ~L!Is3172 => /\ c.state \in L!S!States
                  /\ {"backup", "resend"} \subseteq DOMAIN c
                  /\ c.backup \in {L!None, "meas"}
AtRest(c) == Sound(c) /\ c.out = <<>> /\ c.ack = L!None

\* What a handler leaves behind goes well with the modem.
Goes(d, v) ==
    \/ d.out = <<>> /\ Fine(d.state, v)
    \/ /\ Nothing(v) /\ d.state \notin Joining \cup On
       /\ \E o : Quietens(o) /\ d.out = <<o>>
    \/ Nothing(v) /\ d.state \in Joining /\ d.out = <<L!R!JoinMsg>>
    \/ /\ Nothing(v) /\ Upon(v) /\ d.state \in Sending
       /\ \E o \in Orders : Opens(o) /\ o[1] # "join" /\ d.out = <<o>>

LEMMA NothingSingle ==
  ASSUME NEW w \in Wires, Nothing(w)
  PROVE  Single(w)
BY DEF Nothing, Single, Unopened, Unclosed

LEMMA StateClasses ==
  /\ Joining \cap On = {} /\ Sending \subseteq On /\ "IDLE" \notin Sending
  /\ "IDLE" \in On /\ On \subseteq Sending \cup {"IDLE"}
BY DEF Joining, Sending, On

LEMMA JoinOpens ==
  L!R!JoinMsg \in Orders /\ Opens(L!R!JoinMsg) /\ L!S!JoinMsg = L!R!JoinMsg
BY DEF L!R!JoinMsg, L!S!JoinMsg, Orders, CmdWords, Opens

LEMMA GoesWell ==
  ASSUME NEW v \in Wires, NEW d, Goes(d, v)
  PROVE  L!PutAll(v, d.out) \in Wires /\ Fine(d.state, L!PutAll(v, d.out))
<1>1. CASE d.out = <<>> /\ Fine(d.state, v)
  BY <1>1, PutNone
<1>2. CASE /\ Nothing(v) /\ d.state \notin Joining \cup On
           /\ \E o : Quietens(o) /\ d.out = <<o>>
  <2>1. PICK o : Quietens(o) /\ d.out = <<o>>
    BY <1>2
  <2>2. L!Put(v, o) \in Wires /\ Nothing(L!Put(v, o))
    BY <1>2, <2>1, PutCalm
  <2> QED BY <1>2, <2>1, <2>2, PutOne, NothingSingle DEF Fine
<1>3. CASE Nothing(v) /\ d.state \in Joining /\ d.out = <<L!R!JoinMsg>>
  <2>1. /\ L!Put(v, L!R!JoinMsg) \in Wires /\ Single(L!Put(v, L!R!JoinMsg))
        /\ Joins(L!Put(v, L!R!JoinMsg))
    BY <1>3, JoinOpens, PutOpens
  <2> QED BY <1>3, <2>1, PutOne, StateClasses DEF Fine
<1>4. CASE /\ Nothing(v) /\ Upon(v) /\ d.state \in Sending
           /\ \E o \in Orders : Opens(o) /\ o[1] # "join" /\ d.out = <<o>>
  <2>1. PICK o \in Orders : Opens(o) /\ o[1] # "join" /\ d.out = <<o>>
    BY <1>4
  <2>2. L!Put(v, o) \in Wires /\ Single(L!Put(v, o)) /\ Upon(L!Put(v, o))
    BY <1>4, <2>1, PutOpens
  <2> QED BY <1>4, <2>1, <2>2, PutOne, StateClasses DEF Fine
<1> QED BY <1>1, <1>2, <1>3, <1>4 DEF Goes

LEMMA IdleFine ==
  ASSUME NEW v \in Wires, Nothing(v), Upon(v)
  PROVE  Fine("IDLE", v)
BY NothingSingle, StateClasses DEF Fine

\* The fragment that follows is sent, or slept for.
LEMMA SendsOn ==
  ASSUME NEW c, AtRest(c), c.state = "IDLE", c.nest = <<>>, IsLora,
         NEW v \in Wires, Nothing(v), Upon(v), NEW d, d = L!Send(c)
  PROVE  Sound(d) /\ d.ack = L!None /\ Goes(d, v)
<1>1. CASE L!Is3172
  <2>1. d = [c EXCEPT !.nest = Append(@, "meas")]
    BY <1>1 DEF L!Send, L!Is3172, L!R!Send, L!R!SendReady, L!R!Sleep
  <2>2. d.nest = <<"meas">> /\ d.state = "IDLE" /\ d.out = <<>> /\ d.ack = L!None
    BY <2>1 DEF AtRest, Sound
  <2>3. Sound(d)
    BY <1>1, <2>1, <2>2 DEF AtRest, Sound
  <2> QED BY <2>2, <2>3, IdleFine DEF Goes
<1>2. CASE ~L!Is3172
  <2>1. PICK o : o = <<"send meas", 0>>
    OBVIOUS
  <2>2. o \in Orders /\ Opens(o) /\ o[1] # "join"
    BY <2>1 DEF Orders, CmdWords, Opens
  <2>3. d = [c EXCEPT !.out = Append(@, o), !.silent = FALSE, !.state = "WAIT_OK",
                      !.backup = "meas"]
    BY <1>2, <2>1 DEF L!Send, L!Is3172, L!S!Send, L!S!SendReady, L!S!Write,
       L!S!SendMsg
  <2>4. d.state = "WAIT_OK" /\ d.out = <<o>> /\ d.ack = L!None
    BY <1>2, <2>3 DEF AtRest, Sound
  <2>5. Sound(d)
    BY <1>2, <2>3, <2>4 DEF AtRest, Sound, L!S!States
  <2> QED BY <2>2, <2>4, <2>5 DEF Goes, Sending
<1> QED BY <1>1, <1>2

\* A step of the driver.
\* The same with what Measurements is told: a success leaves the driver idle,
\* and only then another message follows at once.
Leads(d, v) ==
    /\ Sound(d) /\ Goes(d, v)
    /\ d.ack = "ack" => /\ d.state = "IDLE" /\ d.nest = <<>> /\ d.out = <<>>
                        /\ Nothing(v) /\ Upon(v)

LEMMA DriverLeads ==
  ASSUME NEW d, NEW v \in Wires, Leads(d, v), IsLora, NEW u, L!Driver(d, v, u)
  PROVE  /\ AtRest(ctx)' /\ L!Wire' \in Wires /\ Fine(ctx.state, L!Wire)'
         /\ kind' = kind /\ server' = server
<1>1. PICK e : e = [d EXCEPT !.ack = L!None]
  OBVIOUS
<1>2. /\ Sound(e) /\ e.ack = L!None /\ e.out = d.out /\ e.state = d.state
      /\ e.nest = d.nest
  BY <1>1 DEF Leads, Sound
<1>3. Goes(e, v)
  BY <1>2, Zenon DEF Leads, Goes
<1>4. PICK t : t = L!Told(d)
  OBVIOUS
<1>5. Sound(t) /\ t.ack = L!None /\ Goes(t, v)
  <2>1. CASE t = e
    BY <1>2, <1>3, <2>1
  <2>2. CASE d.ack = "ack" /\ t = L!Send(e)
    <3>1. AtRest(e) /\ e.state = "IDLE" /\ e.nest = <<>> /\ Nothing(v) /\ Upon(v)
      BY <1>2, <2>2 DEF Leads, AtRest
    <3> QED BY <2>2, <3>1, SendsOn
  <2>3. t = e \/ (d.ack = "ack" /\ t = L!Send(e))
    BY <1>1, <1>4 DEF L!Told
  <2> QED BY <2>1, <2>2, <2>3
<1>6. PICK p : p = L!PutAll(v, t.out)
  OBVIOUS
<1>7. p \in Wires /\ Fine(t.state, p)
  BY <1>5, <1>6, GoesWell
<1>8. /\ ctx' = [t EXCEPT !.out = <<>>] /\ kind' = kind /\ server' = server
      /\ line' = p.line /\ cmds' = p.cmds /\ chip' = p.chip
  BY <1>4, <1>6 DEF L!Driver
<1>9. L!Wire' = p
  <2>1. L!Wire' = [line |-> p.line, cmds |-> p.cmds, chip |-> p.chip]
    BY <1>8 DEF L!Wire
  <2> QED BY <1>7, <2>1 DEF Wires
<1>10. ctx'.state = t.state
  BY <1>5, <1>8 DEF Sound
<1>11. AtRest(ctx)'
  <2>1. PICK c : c = ctx'
    OBVIOUS
  <2>2. c.out = <<>> /\ c.ack = L!None /\ Sound(c)
    BY <1>5, <1>8, <2>1 DEF Sound
  <2>3. Sound(ctx)'
    BY <1>8, <2>1, <2>2 DEF Sound, L!Is3172
  <2> QED BY <2>1, <2>2, <2>3 DEF AtRest
<1>12. Fine(ctx.state, L!Wire)'
  BY <1>7, <1>9, <1>10
<1> QED BY <1>7, <1>8, <1>9, <1>11, <1>12

-----------------------------------------------------------------------------
(* The RAK3172's handlers.                                                 *)

LEMMA RakMovesTo ==
  ASSUME NEW c, AtRest(c), L!Is3172, c.nest = <<>>, NEW s \in L!R!States,
         NEW d, d = [c EXCEPT !.state = s]
  PROVE  AtRest(d) /\ d.state = s /\ d.nest = <<>>
BY DEF AtRest, Sound

LEMMA RakPrints ==
  ASSUME NEW b, AtRest(b), L!Is3172, NEW o, NEW d, d = L!R!Printf(b, o)
  PROVE  /\ Sound(d) /\ d.ack = L!None /\ d.state = b.state /\ d.nest = b.nest
         /\ d.out = <<o>>
<1>1. d = [[b EXCEPT !.out = Append(@, o)] EXCEPT !.lastSent = o]
  BY DEF L!R!Printf, L!R!Write
<1>2. PICK e : e = [b EXCEPT !.out = Append(@, o)]
  OBVIOUS
<1>3. Sound(e) /\ e.out = <<o>> /\ e.ack = L!None /\ e.state = b.state /\ e.nest = b.nest
  BY <1>2 DEF AtRest, Sound
<1> QED BY <1>1, <1>2, <1>3 DEF Sound

LEMMA RakStates ==
  L!R!States = {"OFF", "INIT_WAIT_BOOT", "INIT_WAIT_OK", "INIT_WAIT_REPLAY",
                "JOIN_WAIT_OK", "JOIN_WAIT_REPLAY", "JOIN_WAIT_JOIN", "RESETTING",
                "IDLE", "SEND_WAIT_OK", "SEND_WAIT_ACK"}
BY DEF L!R!States

LEMMA InitQuietens ==
  ASSUME NEW n \in Nat
  PROVE  Quietens(L!R!InitMsg(n)) /\ L!S!InitMsg(n) = L!R!InitMsg(n)
BY DEF Quietens, L!R!InitMsg, L!S!InitMsg, Orders, CmdWords, Opens

\* What is said while the modem is set up.
LEMMA RakPrepares ==
  ASSUME NEW b, AtRest(b), L!Is3172, b.state \notin Joining \cup On,
         NEW v, Nothing(v), NEW o, Quietens(o)
  PROVE  Leads(L!R!Printf(b, o), v)
<1>1. PICK d : d = L!R!Printf(b, o)
  OBVIOUS
<1>2. Sound(d) /\ d.ack = L!None /\ d.state = b.state /\ d.out = <<o>>
  BY <1>1, RakPrints
<1>3. Goes(d, v)
  BY <1>2 DEF Goes
<1> QED BY <1>1, <1>2, <1>3 DEF Leads, L!None

\* A state of the same class.
LEMMA StaysFine ==
  ASSUME NEW d, AtRest(d), NEW v, Fine(d.state, v)
  PROVE  Leads(d, v)
BY DEF AtRest, Leads, Goes, L!None

LEMMA SameClass ==
  ASSUME NEW s, NEW t, NEW v, Fine(s, v),
         \/ s \in Joining /\ t \in Joining
         \/ s \in Sending /\ t \in Sending
         \/ {s, t} \cap (Joining \cup On) = {}
  PROVE  Fine(t, v)
<1>1. CASE s \in Joining /\ t \in Joining
  BY <1>1, StateClasses DEF Fine
<1>2. CASE s \in Sending /\ t \in Sending
  BY <1>2, StateClasses DEF Fine
<1>3. CASE {s, t} \cap (Joining \cup On) = {}
  BY <1>3, StateClasses DEF Fine
<1> QED BY <1>1, <1>2, <1>3

LEMMA GivesUp ==
  ASSUME NEW d, AtRest(d), d.state \notin Joining \cup On, NEW v \in Wires, Nothing(v)
  PROVE  Leads(d, v)
<1>1. Fine(d.state, v)
  BY NothingSingle, StateClasses DEF Fine
<1> QED BY <1>1, StaysFine

\* A driver that hears a line, with what is left of the modem's end.
Hearing(c, l, v) ==
    /\ v \in Wires /\ l \in Lines /\ Fine(c.state, v)
    /\ Closes(l) => Nothing(v) /\ c.state \in Joining \cup Sending
    /\ c.state \in Joining /\ Closes(l) =>
          l \in {<<"JOINED", 0>>, <<"JOIN_FAILED", 0>>, <<"ERROR", 99>>}
    /\ c.state \in Joining /\ l = <<"JOINED", 0>> => Upon(v)
    /\ c.state \in On => Upon(v) /\ l # <<"JOINED", 0>>

LEMMA RakBooting ==
  ASSUME NEW c, AtRest(c), L!Is3172, NEW l, NEW v, Hearing(c, l, v),
         c.state \in {"OFF", "INIT_WAIT_BOOT", "INIT_WAIT_REPLAY", "RESETTING", "IDLE"}
  PROVE  Leads(L!R!ByState(c, l), v)
<1>1. Leads(c, v)
  BY StaysFine DEF Hearing
<1>2. CASE c.state = "OFF"
  <2>1. L!R!ByState(c, l) = L!R!ProcessOff(c, l)
    BY <1>2, Zenon DEF L!R!ByState
  <2>2. PICK b : b = [c EXCEPT !.state = "INIT_WAIT_BOOT", !.init = 0]
    OBVIOUS
  <2>3. \/ L!R!ByState(c, l) = c
        \/ L!R!ByState(c, l) = L!R!Printf(b, L!R!InitMsg(0))
    BY <2>1, <2>2 DEF L!R!ProcessOff
  <2>4. c.nest = <<>> /\ Nothing(v) /\ v \in Wires
    BY <1>2 DEF AtRest, Sound, Hearing, Fine, Joining, Sending
  <2>5. "INIT_WAIT_BOOT" \in L!R!States \ (Joining \cup On)
    BY RakStates DEF Joining, On, Sending
  <2>6. AtRest(b) /\ b.state = "INIT_WAIT_BOOT"
    <3>1. "INIT_WAIT_BOOT" \in L!R!States /\ 0 \in Nat
      BY <2>5
    <3> QED BY <2>2, <2>4, <3>1 DEF AtRest, Sound
  <2>7. Leads(L!R!Printf(b, L!R!InitMsg(0)), v)
    BY <2>4, <2>5, <2>6, InitQuietens, RakPrepares
  <2> QED BY <1>1, <2>3, <2>7
<1>3. CASE c.state = "INIT_WAIT_BOOT"
  <2>1. L!R!ByState(c, l) = L!R!ProcessInitWaitBoot(c, l)
    BY <1>3, Zenon DEF L!R!ByState
  <2>2. PICK n \in Nat : n = c.init + 1
    BY DEF AtRest, Sound
  <2>3. PICK b : b = [c EXCEPT !.state = "INIT_WAIT_OK", !.init = n]
    OBVIOUS
  <2>4. \/ L!R!ByState(c, l) = c
        \/ L!R!ByState(c, l) = L!R!Printf(b, L!R!InitMsg(n))
    BY <2>1, <2>2, <2>3 DEF L!R!ProcessInitWaitBoot
  <2>5. c.nest = <<>> /\ Nothing(v) /\ v \in Wires
    BY <1>3 DEF AtRest, Sound, Hearing, Fine, Joining, Sending
  <2>6. "INIT_WAIT_OK" \in L!R!States \ (Joining \cup On)
    BY RakStates DEF Joining, On, Sending
  <2>7. AtRest(b) /\ b.state = "INIT_WAIT_OK"
    <3>1. "INIT_WAIT_OK" \in L!R!States /\ n \in Nat
      BY <2>6
    <3> QED BY <2>3, <2>5, <3>1 DEF AtRest, Sound
  <2>8. Leads(L!R!Printf(b, L!R!InitMsg(n)), v)
    BY <2>5, <2>6, <2>7, InitQuietens, RakPrepares
  <2> QED BY <1>1, <2>4, <2>8
<1>4. CASE c.state = "INIT_WAIT_REPLAY"
  <2>1. L!R!ByState(c, l) = L!R!ProcessInitWaitReplay(c, l)
    BY <1>4, Zenon DEF L!R!ByState
  <2>2. PICK d : d = [c EXCEPT !.state = "INIT_WAIT_OK"]
    OBVIOUS
  <2>3. L!R!ByState(c, l) = c \/ L!R!ByState(c, l) = d
    BY <2>1, <2>2 DEF L!R!ProcessInitWaitReplay
  <2>4. c.nest = <<>> /\ Nothing(v) /\ v \in Wires
    BY <1>4 DEF AtRest, Sound, Hearing, Fine, Joining, Sending
  <2>5. AtRest(d) /\ d.state = "INIT_WAIT_OK"
    BY <1>4, <2>2, <2>4, RakStates, RakMovesTo
  <2>6. Leads(d, v)
    BY <2>4, <2>5, GivesUp DEF Joining, On, Sending
  <2> QED BY <1>1, <2>3, <2>6
<1>5. CASE c.state \in {"RESETTING", "IDLE"}
  <2>1. L!R!ByState(c, l) = c
    BY <1>5, Zenon DEF L!R!ByState
  <2> QED BY <1>1, <2>1
<1> QED BY <1>2, <1>3, <1>4, <1>5

LEMMA RakInits ==
  ASSUME NEW c, AtRest(c), L!Is3172, NEW l, NEW v, Hearing(c, l, v),
         c.state = "INIT_WAIT_OK"
  PROVE  Leads(L!R!ByState(c, l), v)
<1>1. Leads(c, v)
  BY StaysFine DEF Hearing
<1>2. L!R!ByState(c, l) = L!R!ProcessInitWaitOk(c, l)
  BY Zenon DEF L!R!ByState
<1>3. PICK n \in Nat : n = c.init + 1
  BY DEF AtRest, Sound
<1>4. PICK s : s = IF c.init > 2 THEN "INIT_WAIT_REPLAY" ELSE "INIT_WAIT_OK"
  OBVIOUS
<1>5. PICK b : b = [c EXCEPT !.state = s, !.init = n]
  OBVIOUS
<1>6. PICK e : e = [c EXCEPT !.state = "JOIN_WAIT_REPLAY"]
  OBVIOUS
<1>7. \/ L!R!ByState(c, l) = c
      \/ L!R!ByState(c, l) = L!R!Printf(e, L!R!JoinMsg)
      \/ L!R!ByState(c, l) = L!R!Printf(b, L!R!InitMsg(n))
  BY <1>2, <1>3, <1>4, <1>5, <1>6 DEF L!R!ProcessInitWaitOk
<1>8. c.nest = <<>> /\ Nothing(v) /\ v \in Wires
  BY DEF AtRest, Sound, Hearing, Fine, Joining, Sending
<1>9. s \in L!R!States \ (Joining \cup On)
  BY <1>4, RakStates DEF Joining, On, Sending
<1>10. Leads(L!R!Printf(b, L!R!InitMsg(n)), v)
  <2>1. AtRest(b) /\ b.state = s
    <3>1. s \in L!R!States /\ n \in Nat
      BY <1>9
    <3> QED BY <1>5, <1>8, <3>1 DEF AtRest, Sound
  <2> QED BY <1>8, <1>9, <2>1, InitQuietens, RakPrepares
<1>11. Leads(L!R!Printf(e, L!R!JoinMsg), v)
  <2>1. PICK d : d = L!R!Printf(e, L!R!JoinMsg)
    OBVIOUS
  <2>2. "JOIN_WAIT_REPLAY" \in L!R!States
    BY RakStates
  <2>3. AtRest(e) /\ e.state = "JOIN_WAIT_REPLAY"
    BY <1>6, <1>8, <2>2, RakMovesTo
  <2>4. /\ Sound(d) /\ d.ack = L!None /\ d.state = "JOIN_WAIT_REPLAY"
        /\ d.out = <<L!R!JoinMsg>>
    BY <2>1, <2>3, RakPrints
  <2>5. Goes(d, v)
    BY <1>8, <2>4 DEF Goes, Joining
  <2> QED BY <2>1, <2>4, <2>5 DEF Leads, L!None
<1> QED BY <1>1, <1>7, <1>10, <1>11

LEMMA RakJoins ==
  ASSUME NEW c, AtRest(c), L!Is3172, NEW l, NEW v, Hearing(c, l, v),
         c.state \in Joining
  PROVE  Leads(L!R!ByState(c, l), v)
<1>1. Leads(c, v)
  BY StaysFine DEF Hearing
<1>2. c.nest = <<>> /\ v \in Wires /\ c.state \in L!R!States
  BY DEF AtRest, Sound, Hearing, Joining
<1>3. \A s \in L!R!States \cap Joining : Leads([c EXCEPT !.state = s], v)
  <2> SUFFICES ASSUME NEW s \in L!R!States \cap Joining
               PROVE  Leads([c EXCEPT !.state = s], v)
    OBVIOUS
  <2>1. PICK d : d = [c EXCEPT !.state = s]
    OBVIOUS
  <2>2. s \in L!R!States /\ s \in Joining
    OBVIOUS
  <2>3. AtRest(d) /\ d.state = s
    BY <1>2, <2>1, <2>2, RakMovesTo
  <2>4. Fine(s, v)
    BY <2>2, SameClass DEF Hearing
  <2> QED BY <2>1, <2>3, <2>4, StaysFine
<1>4. CASE c.state = "JOIN_WAIT_REPLAY"
  <2>1. L!R!ByState(c, l) = L!R!ProcessJoinWaitReplay(c, l)
    BY <1>4, Zenon DEF L!R!ByState
  <2>2. L!R!ByState(c, l) = c \/ L!R!ByState(c, l) = [c EXCEPT !.state = "JOIN_WAIT_OK"]
    BY <2>1 DEF L!R!ProcessJoinWaitReplay
  <2>3. "JOIN_WAIT_OK" \in L!R!States \cap Joining
    BY RakStates DEF Joining
  <2> QED BY <1>1, <1>3, <2>2, <2>3
<1>5. CASE c.state = "JOIN_WAIT_OK"
  <2>1. L!R!ByState(c, l) = L!R!ProcessJoinWaitOk(c, l)
    BY <1>5, Zenon DEF L!R!ByState
  <2>2. L!R!ByState(c, l) = c \/ L!R!ByState(c, l) = [c EXCEPT !.state = "JOIN_WAIT_JOIN"]
    BY <2>1 DEF L!R!ProcessJoinWaitOk
  <2>3. "JOIN_WAIT_JOIN" \in L!R!States \cap Joining
    BY RakStates DEF Joining
  <2> QED BY <1>1, <1>3, <2>2, <2>3
<1>6. CASE c.state = "JOIN_WAIT_JOIN"
  <2>1. L!R!ByState(c, l) = L!R!ProcessJoinWaitJoin(c, l)
    BY <1>6, Zenon DEF L!R!ByState
  <2>2. PICK d : d = [c EXCEPT !.state = "IDLE"]
    OBVIOUS
  <2>3. PICK e : e = [c EXCEPT !.state = "RESETTING"]
    OBVIOUS
  <2>4. CASE l = L!R!JOINED
    <3>1. L!R!ByState(c, l) = d
      <4>1. l # L!R!JOIN_FAILED
        BY <2>4 DEF L!R!JOINED, L!R!JOIN_FAILED
      <4> QED BY <2>1, <2>2, <2>4, <4>1, Zenon DEF L!R!ProcessJoinWaitJoin
    <3>2. Upon(v) /\ Nothing(v)
      BY <2>4 DEF Hearing, L!R!JOINED, Closes
    <3>3. AtRest(d) /\ d.state = "IDLE"
      BY <1>2, <2>2, RakStates, RakMovesTo
    <3> QED BY <1>2, <3>1, <3>2, <3>3, IdleFine, StaysFine
  <2>5. CASE l = L!R!JOIN_FAILED
    <3>1. L!R!ByState(c, l) = e
      BY <1>6, <2>1, <2>3, <2>5 DEF L!R!ProcessJoinWaitJoin, L!R!Reset, L!R!JOINED,
         L!R!JOIN_FAILED
    <3>2. Nothing(v)
      BY <2>5 DEF Hearing, L!R!JOIN_FAILED, Closes
    <3>3. AtRest(e) /\ e.state = "RESETTING"
      BY <1>2, <2>3, RakStates, RakMovesTo
    <3>4. e.state \notin Joining \cup On
      BY <3>3 DEF Joining, On, Sending
    <3> QED BY <1>2, <3>1, <3>2, <3>3, <3>4, GivesUp
  <2>6. CASE l # L!R!JOINED /\ l # L!R!JOIN_FAILED
    <3>1. L!R!ByState(c, l) = c
      BY <2>1, <2>6 DEF L!R!ProcessJoinWaitJoin
    <3> QED BY <1>1, <3>1
  <2> QED BY <2>4, <2>5, <2>6
<1> QED BY <1>2, <1>4, <1>5, <1>6, RakStates DEF Joining

LEMMA RakAwaits ==
  ASSUME NEW c, AtRest(c), L!Is3172, NEW l, NEW v, Hearing(c, l, v),
         c.state \in Sending
  PROVE  Leads(L!R!ByState(c, l), v)
<1>1. Leads(c, v)
  BY StaysFine DEF Hearing
<1>2. c.nest = <<>> /\ v \in Wires /\ c.state \in L!R!States
  BY DEF AtRest, Sound, Hearing, Sending
<1>3. CASE c.state = "SEND_WAIT_OK"
  <2>1. L!R!ByState(c, l) = L!R!ProcessSendOk(c, l)
    BY <1>3, Zenon DEF L!R!ByState
  <2>2. PICK d : d = [c EXCEPT !.state = "SEND_WAIT_ACK"]
    OBVIOUS
  <2>3. L!R!ByState(c, l) = c \/ L!R!ByState(c, l) = d
    BY <2>1, <2>2 DEF L!R!ProcessSendOk
  <2>4. AtRest(d) /\ d.state = "SEND_WAIT_ACK"
    BY <1>2, <2>2, RakStates, RakMovesTo
  <2>5. Fine("SEND_WAIT_ACK", v)
    BY <1>3, SameClass DEF Hearing, Sending
  <2> QED BY <1>1, <2>3, <2>4, <2>5, StaysFine
<1>4. CASE c.state = "SEND_WAIT_ACK"
  <2>1. L!R!ByState(c, l) = L!R!ProcessSendAck(c, l)
    BY <1>4, Zenon DEF L!R!ByState
  <2>2. PICK d : d = [c EXCEPT !.state = "IDLE"]
    OBVIOUS
  <2>3. PICK e : e = [c EXCEPT !.state = "RESETTING"]
    OBVIOUS
  <2>4. CASE l = L!R!ACK
    <3>1. L!R!ByState(c, l) = [d EXCEPT !.ack = "ack"]
      <4>1. l # L!R!NACK
        BY <2>4 DEF L!R!ACK, L!R!NACK
      <4>2. L!R!ByState(c, l) = L!R!SentAck(d, TRUE)
        BY <2>1, <2>2, <2>4, <4>1, Zenon DEF L!R!ProcessSendAck
      <4> QED BY <4>2 DEF L!R!SentAck
    <3>2. Upon(v) /\ Nothing(v)
      BY <1>4, <2>4 DEF Hearing, L!R!ACK, Closes, On, Sending
    <3>3. AtRest(d) /\ d.state = "IDLE" /\ d.nest = <<>>
      BY <1>2, <2>2, RakStates, RakMovesTo
    <3>4. PICK f : f = [d EXCEPT !.ack = "ack"]
      OBVIOUS
    <3>5. Sound(f) /\ f.out = <<>> /\ f.state = "IDLE" /\ f.nest = <<>>
      BY <3>3, <3>4 DEF AtRest, Sound
    <3>6. Fine("IDLE", v)
      BY <1>2, <3>2, IdleFine
    <3>7. Leads(f, v)
      BY <3>2, <3>5, <3>6 DEF Leads, Goes
    <3> QED BY <3>1, <3>4, <3>7
  <2>5. CASE l = L!R!NACK
    <3>1. L!R!ByState(c, l) = e
      BY <1>4, <2>1, <2>3, <2>5 DEF L!R!ProcessSendAck, L!R!Reset, L!R!ACK, L!R!NACK
    <3>2. Nothing(v)
      BY <2>5 DEF Hearing, L!R!NACK, Closes
    <3>3. AtRest(e) /\ e.state = "RESETTING"
      BY <1>2, <2>3, RakStates, RakMovesTo
    <3>4. e.state \notin Joining \cup On
      BY <3>3 DEF Joining, On, Sending
    <3> QED BY <1>2, <3>1, <3>2, <3>3, <3>4, GivesUp
  <2>6. CASE l # L!R!ACK /\ l # L!R!NACK
    <3>1. L!R!ByState(c, l) = c
      BY <2>1, <2>6 DEF L!R!ProcessSendAck
    <3> QED BY <1>1, <3>1
  <2> QED BY <2>4, <2>5, <2>6
<1> QED BY <1>2, <1>3, <1>4, RakStates DEF Sending

LEMMA RakHears ==
  ASSUME NEW c, AtRest(c), L!Is3172, NEW l, NEW v, Hearing(c, l, v)
  PROVE  Leads(L!R!Process(c, l), v)
<1>1. PICK d : d = L!R!ProcessUnsol(c, l)
  OBVIOUS
<1>2. AtRest(d) /\ d.state = c.state
  <2>1. l[1] # "CMD restart" /\ l[1] # "CCMD region" /\ l[1] # "CCMD nonsense"
    <3>1. l[1] \in LineWords
      BY DEF Hearing, Lines
    <3> QED BY <3>1 DEF LineWords, CmdWords
  <2>2. d = c \/ d = L!R!FwChunk(c, l[2])
    <3>1. PICK r : r = L!R!DoCommand(c, "region")
      OBVIOUS
    <3>2. PICK n : n = L!R!DoCommand(c, "nonsense")
      OBVIOUS
    <3>3. L!R!ProcessUnsol(c, l) =
        CASE l[1] \in L!R!Short -> c
          [] l[1] = "FW+" -> L!R!FwChunk(c, l[2])
          [] l[1] = "CMD restart" -> L!R!DoCommand(c, "restart").c
          [] l[1] = "CCMD region" -> [r.c EXCEPT !.err = r.resp]
          [] l[1] = "CCMD nonsense" -> [n.c EXCEPT !.err = n.resp]
          [] OTHER -> c
      BY <3>1, <3>2, Zenon DEF L!R!ProcessUnsol
    <3> QED BY <1>1, <2>1, <3>3
  <2>3. CASE d = L!R!FwChunk(c, l[2])
    <3>1. \E n : d = c \/ d = [c EXCEPT !.next = n, !.fw = Append(@, l[2])]
      BY <2>3 DEF L!R!FwChunk
    <3> QED BY <3>1 DEF AtRest, Sound
  <2> QED BY <2>2, <2>3
<1>3. Hearing(d, l, v)
  BY <1>2 DEF Hearing
<1>4. d.state \in L!R!States
  BY <1>2 DEF AtRest, Sound
<1>5. L!R!Process(c, l) = L!R!ByState(d, l)
  BY <1>1 DEF L!R!Process
<1>6. \/ d.state \in {"OFF", "INIT_WAIT_BOOT", "INIT_WAIT_REPLAY", "RESETTING", "IDLE"}
      \/ d.state = "INIT_WAIT_OK" \/ d.state \in Joining \/ d.state \in Sending
  BY <1>4, RakStates DEF Joining, Sending
<1> QED BY <1>2, <1>3, <1>5, <1>6, RakBooting, RakInits, RakJoins, RakAwaits

-----------------------------------------------------------------------------
(* The RAK4270's handlers.                                                 *)

LEMMA RuiStates ==
  L!S!States = {"OFF", "WAIT_INIT", "WAIT_INIT_OK", "WAIT_REINIT", "WAIT_CONN",
                "WAIT_OK", "WAIT_ACK", "IDLE", "UNCONFIGURED"}
BY DEF L!S!States

LEMMA RuiMovesTo ==
  ASSUME NEW c, AtRest(c), ~L!Is3172, NEW s \in L!S!States,
         NEW d, d = [c EXCEPT !.state = s]
  PROVE  AtRest(d) /\ d.state = s
BY DEF AtRest, Sound

LEMMA RuiWrites ==
  ASSUME NEW c, Sound(c), c.out = <<>>, ~L!Is3172, NEW o, NEW d, d = L!S!Write(c, o)
  PROVE  Sound(d) /\ d.ack = c.ack /\ d.state = c.state /\ d.out = <<o>> /\ d.init = c.init
BY DEF Sound, L!S!Write

LEMMA RuiPrepares ==
  ASSUME NEW c, Sound(c), c.out = <<>>, c.ack # "ack", ~L!Is3172,
         c.state \notin Joining \cup On, NEW v, Nothing(v), NEW o, Quietens(o)
  PROVE  Leads(L!S!Write(c, o), v)
<1>1. PICK d : d = L!S!Write(c, o)
  OBVIOUS
<1>2. Sound(d) /\ d.ack # "ack" /\ d.state = c.state /\ d.out = <<o>>
  BY <1>1, RuiWrites
<1>3. Goes(d, v)
  BY <1>2 DEF Goes
<1> QED BY <1>1, <1>2, <1>3 DEF Leads

LEMMA RuiSwitches ==
  ASSUME NEW c, Sound(c), c.out = <<>>, c.ack # "ack", ~L!Is3172,
         c.state \notin Joining \cup On, NEW v, Nothing(v), NEW o, Quietens(o)
  PROVE  Leads(L!S!Switch(c, o), v)
<1>1. PICK d : d = L!S!Switch(c, o)
  OBVIOUS
<1>2. Sound(d) /\ d.ack # "ack" /\ d.state = c.state /\ d.out = <<o>>
  BY <1>1 DEF Sound, L!S!Switch
<1>3. Goes(d, v)
  BY <1>2 DEF Goes
<1> QED BY <1>1, <1>2, <1>3 DEF Leads

LEMMA RuiNextInit ==
  ASSUME NEW c, AtRest(c), ~L!Is3172, c.state \notin Joining \cup On,
         NEW v \in Wires, Nothing(v)
  PROVE  Leads(L!S!WriteNextInit(c), v)
<1>1. CASE L!S!WriteNextInit(c) = c
  BY <1>1, GivesUp
<1>2. CASE L!S!WriteNextInit(c) # c
  <2>1. PICK b : b = L!S!Write(c, L!S!InitMsg(c.init))
    OBVIOUS
  <2>2. L!S!WriteNextInit(c) = [b EXCEPT !.init = @ + 1]
    BY <1>2, <2>1 DEF L!S!WriteNextInit
  <2>3. c.init \in Nat /\ Sound(c) /\ c.out = <<>> /\ c.ack = L!None
    BY DEF AtRest, Sound
  <2>4. PICK o : o = L!S!InitMsg(c.init) /\ Quietens(o)
    BY <2>3, InitQuietens
  <2>5. Sound(b) /\ b.ack = L!None /\ b.state = c.state /\ b.out = <<o>>
    BY <2>1, <2>3, <2>4, RuiWrites
  <2>6. PICK d : d = [b EXCEPT !.init = @ + 1]
    OBVIOUS
  <2>7. Sound(d) /\ d.ack = L!None /\ d.state = c.state /\ d.out = <<o>>
    BY <2>5, <2>6 DEF Sound
  <2>8. Goes(d, v)
    BY <2>4, <2>7 DEF Goes
  <2> QED BY <2>2, <2>6, <2>7, <2>8 DEF Leads, L!None
<1> QED BY <1>1, <1>2

LEMMA RuiResetLeads ==
  ASSUME NEW c, Sound(c), c.out = <<>>, c.ack # "ack", ~L!Is3172, c.state # "OFF",
         NEW v, Nothing(v)
  PROVE  Leads(L!S!Reset(c), v)
<1>1. PICK a : a = [c EXCEPT !.resets = IF @ > L!S!SlowAfter THEN @ ELSE @ + 1,
                             !.slow = c.resets >= L!S!SlowAfter]
  OBVIOUS
<1>2. PICK b : b = [a EXCEPT !.state = "OFF"]
  OBVIOUS
<1>3. L!S!Reset(c) = L!S!Switch(b, L!S!PowerOff)
  BY <1>1, <1>2 DEF L!S!Reset, L!S!ChipOff
<1>4. Sound(a) /\ a.out = <<>> /\ a.ack # "ack"
  BY <1>1 DEF Sound
<1>5. Sound(b) /\ b.out = <<>> /\ b.ack # "ack" /\ b.state = "OFF"
  BY <1>2, <1>4, RuiStates DEF Sound
<1>6. Quietens(L!S!PowerOff)
  BY DEF Quietens, Signals
<1>7. b.state \notin Joining \cup On
  BY <1>5 DEF Joining, On, Sending
<1> QED BY <1>3, <1>5, <1>6, <1>7, RuiSwitches

LEMMA NackLeads ==
  ASSUME NEW d, NEW v, Leads(d, v), NEW e, e = [d EXCEPT !.ack = "nack"]
  PROVE  Leads(e, v)
<1>1. Sound(e) /\ e.ack = "nack" /\ e.out = d.out /\ e.state = d.state
  BY DEF Leads, Sound
<1>2. Goes(e, v)
  BY <1>1, Zenon DEF Leads, Goes
<1> QED BY <1>1, <1>2 DEF Leads

LEMMA RuiRetries ==
  ASSUME NEW c, AtRest(c), ~L!Is3172, IsLora, c.state \in Sending,
         NEW v \in Wires, Fine(c.state, v), Nothing(v), Upon(v)
  PROVE  Leads(L!S!RetryWrite(c), v)
<1>1. CASE c.resend >= MaxResend
  <2>1. PICK b : b = [c EXCEPT !.resend = 0]
    OBVIOUS
  <2>2. AtRest(b) /\ b.state = c.state /\ b.state # "OFF"
    BY <2>1 DEF AtRest, Sound, Sending
  <2>3. Leads(L!S!Reset(b), v)
    BY <2>2, RuiResetLeads DEF AtRest, L!None
  <2>4. L!S!RetryWrite(c) = [L!S!Reset(b) EXCEPT !.ack = "nack"]
    BY <1>1, <2>1 DEF L!S!RetryWrite, L!S!SentAck
  <2> QED BY <2>3, <2>4, NackLeads
<1>2. CASE ~(c.resend >= MaxResend)
  <2>1. PICK d : d = [c EXCEPT !.resend = @ + 1]
    OBVIOUS
  <2>2. AtRest(d) /\ d.state = c.state /\ d.backup = c.backup /\ d.nest = <<>>
    BY <2>1 DEF AtRest, Sound
  <2>3. PICK b : b = [d EXCEPT !.state = "IDLE"]
    OBVIOUS
  <2>4. AtRest(b) /\ b.state = "IDLE" /\ b.nest = <<>>
    BY <2>2, <2>3, RuiStates DEF AtRest, Sound
  <2>5. Leads(L!Send(b), v)
    BY <2>4, SendsOn DEF Leads, L!None
  <2>6. Leads(d, v)
    BY <2>2, StaysFine
  <2>7. L!S!RetryWrite(c) = IF c.backup = L!None THEN d ELSE L!S!Send(b, c.backup)
    BY <1>2, <2>1, <2>3 DEF L!S!RetryWrite, L!S!None, L!None
  <2>8. c.backup \in {L!None, "meas"} /\ L!Send(b) = L!S!Send(b, "meas")
    BY DEF AtRest, Sound, L!Send
  <2> QED BY <2>5, <2>6, <2>7, <2>8
<1> QED BY <1>1, <1>2

LEMMA RuiErrors ==
  ASSUME NEW c, AtRest(c), ~L!Is3172, IsLora, NEW l, NEW v, Hearing(c, l, v),
         l[1] = "ERROR"
  PROVE  Leads(L!S!HandleError(c, l[2]), v)
<1>1. Nothing(v) /\ v \in Wires /\ c.state \in Joining \cup Sending
  BY DEF Hearing, Closes
<1>2. c.state # "OFF" /\ Sound(c) /\ c.out = <<>> /\ c.ack = L!None
  BY <1>1 DEF Joining, Sending, AtRest
<1>3. Leads(L!S!Reset(c), v)
  BY <1>1, <1>2, RuiResetLeads DEF L!None
<1>4. CASE c.state \in Joining
  <2>1. l[2] = 99
    BY <1>4 DEF Hearing, Closes
  <2>2. L!S!HandleError(c, l[2]) = L!S!Reset(c)
    BY <2>1 DEF L!S!HandleError
  <2> QED BY <1>3, <2>2
<1>5. CASE c.state \in Sending
  <2>1. Upon(v) /\ Fine(c.state, v)
    BY <1>5, StateClasses DEF Hearing
  <2>2. Leads(L!S!RetryWrite(c), v)
    BY <1>1, <1>5, <2>1, RuiRetries
  <2>3. PICK b : b = [c EXCEPT !.ack = "nack"]
    OBVIOUS
  <2>4. Sound(b) /\ b.out = <<>> /\ b.ack = "nack" /\ b.state = c.state
    BY <1>2, <2>3 DEF Sound
  <2>5. Leads(L!S!Reset(b), v)
    BY <1>1, <1>2, <2>4, RuiResetLeads
  <2>6. Leads(c, v)
    BY <2>1, StaysFine
  <2>7. L!S!SentAck(c, FALSE) = b
    BY <2>3 DEF L!S!SentAck
  <2>8. L!S!HandleError(c, l[2]) \in {L!S!RetryWrite(c), L!S!Reset(b), L!S!Reset(c), c}
    BY <2>7 DEF L!S!HandleError
  <2> QED BY <1>3, <2>2, <2>5, <2>6, <2>8
<1> QED BY <1>1, <1>4, <1>5

LEMMA RuiDownlinks ==
  ASSUME NEW c, AtRest(c), ~L!Is3172, NEW l, NEW v, Hearing(c, l, v),
         l[1] \in L!S!Downlinks
  PROVE  Leads(L!S!HandleUnsol(c, l), v)
<1>1. PICK d : d = L!S!HandleUnsol(c, l)
  OBVIOUS
<1>2. l[1] # "CCMD region"
  <2>1. l[1] \in LineWords
    BY DEF Hearing, Lines
  <2> QED BY <2>1 DEF LineWords, CmdWords
<1>3. d \in {c, L!S!FwStart(c), L!S!FwChunk(c, l[2]), L!S!FwComplete(c)}
  BY <1>1, <1>2 DEF L!S!HandleUnsol
<1>4. \A e \in {L!S!FwStart(c), L!S!FwChunk(c, l[2]), L!S!FwComplete(c)} :
          AtRest(e) /\ e.state = c.state
  <2>1. AtRest(L!S!FwStart(c)) /\ L!S!FwStart(c).state = c.state
    BY DEF AtRest, Sound, L!S!FwStart
  <2>2. AtRest(L!S!FwChunk(c, l[2])) /\ L!S!FwChunk(c, l[2]).state = c.state
    BY DEF AtRest, Sound, L!S!FwChunk
  <2>3. AtRest(L!S!FwComplete(c)) /\ L!S!FwComplete(c).state = c.state
    BY DEF AtRest, Sound, L!S!FwComplete
  <2> QED BY <2>1, <2>2, <2>3
<1>5. AtRest(d) /\ d.state = c.state
  BY <1>3, <1>4
<1> QED BY <1>1, <1>5, StaysFine DEF Hearing

LEMMA RuiBooting ==
  ASSUME NEW c, AtRest(c), ~L!Is3172, NEW l, NEW v, Hearing(c, l, v),
         c.state \in {"OFF", "WAIT_INIT", "WAIT_INIT_OK", "WAIT_REINIT", "IDLE", "UNCONFIGURED"}
  PROVE  Leads(L!S!ByState(c, l), v)
<1>1. Leads(c, v)
  BY StaysFine DEF Hearing
<1>2. Nothing(v) /\ v \in Wires
  BY DEF Hearing, Fine, Joining, Sending
<1>3. CASE c.state = "WAIT_INIT"
  <2>1. PICK d : d = [c EXCEPT !.state = "WAIT_INIT_OK"]
    OBVIOUS
  <2>2. L!S!ByState(c, l) = L!S!ProcessWaitInit(c, l)
    BY <1>3, Zenon DEF L!S!ByState
  <2>3. L!S!ByState(c, l) \in {c, L!S!WriteNextInit(d)}
    BY <2>1, <2>2 DEF L!S!ProcessWaitInit
  <2>4. AtRest(d) /\ d.state = "WAIT_INIT_OK"
    BY <2>1, RuiStates, RuiMovesTo
  <2>5. d.state \notin Joining \cup On
    BY <2>4 DEF Joining, On, Sending
  <2>6. Leads(L!S!WriteNextInit(d), v)
    BY <1>2, <2>4, <2>5, RuiNextInit
  <2> QED BY <1>1, <2>3, <2>6
<1>4. CASE c.state = "WAIT_INIT_OK"
  <2>1. PICK d : d = [c EXCEPT !.state = "WAIT_REINIT"]
    OBVIOUS
  <2>2. L!S!ByState(c, l) = L!S!ProcessWaitInitOk(c, l)
    BY <1>4, Zenon DEF L!S!ByState
  <2>3. L!S!ByState(c, l) \in {c, L!S!WriteNextInit(c), L!S!Write(d, L!S!RestartMsg)}
    BY <2>1, <2>2 DEF L!S!ProcessWaitInitOk
  <2>4. c.state \notin Joining \cup On
    BY <1>4 DEF Joining, On, Sending
  <2>5. Leads(L!S!WriteNextInit(c), v)
    BY <1>2, <2>4, RuiNextInit
  <2>6. AtRest(d) /\ d.state = "WAIT_REINIT"
    BY <2>1, RuiStates, RuiMovesTo
  <2>7. Sound(d) /\ d.out = <<>> /\ d.ack # "ack" /\ d.state \notin Joining \cup On
    BY <2>6 DEF AtRest, L!None, Joining, On, Sending
  <2>8. Quietens(L!S!RestartMsg)
    BY DEF Quietens, L!S!RestartMsg, Orders, CmdWords, Opens
  <2>9. Leads(L!S!Write(d, L!S!RestartMsg), v)
    BY <1>2, <2>7, <2>8, RuiPrepares
  <2> QED BY <1>1, <2>3, <2>5, <2>9
<1>5. CASE c.state = "WAIT_REINIT"
  <2>1. PICK d : d = [c EXCEPT !.state = "WAIT_CONN"]
    OBVIOUS
  <2>2. L!S!ByState(c, l) = L!S!ProcessWaitReinit(c, l)
    BY <1>5, Zenon DEF L!S!ByState
  <2>3. PICK e : e = L!S!Write(d, L!S!JoinMsg)
    OBVIOUS
  <2>4. L!S!ByState(c, l) \in {c, e}
    BY <2>1, <2>2, <2>3 DEF L!S!ProcessWaitReinit
  <2>5. AtRest(d) /\ d.state = "WAIT_CONN"
    BY <2>1, RuiStates, RuiMovesTo
  <2>6. Sound(e) /\ e.ack = L!None /\ e.state = "WAIT_CONN" /\ e.out = <<L!R!JoinMsg>>
    BY <2>3, <2>5, JoinOpens, RuiWrites DEF AtRest
  <2>7. Goes(e, v)
    BY <1>2, <2>6 DEF Goes, Joining
  <2> QED BY <1>1, <2>4, <2>6, <2>7 DEF Leads, L!None
<1>6. CASE c.state \in {"OFF", "IDLE", "UNCONFIGURED"}
  <2>1. L!S!ByState(c, l) = c
    BY <1>6, Zenon DEF L!S!ByState
  <2> QED BY <1>1, <2>1
<1> QED BY <1>3, <1>4, <1>5, <1>6

LEMMA RuiAwaits ==
  ASSUME NEW c, AtRest(c), ~L!Is3172, NEW l, NEW v, Hearing(c, l, v),
         c.state \in {"WAIT_CONN", "WAIT_OK", "WAIT_ACK"}
  PROVE  Leads(L!S!ByState(c, l), v)
<1>1. Leads(c, v)
  BY StaysFine DEF Hearing
<1>2. v \in Wires
  BY DEF Hearing
<1>3. CASE c.state = "WAIT_CONN"
  <2>1. PICK d : d = [c EXCEPT !.state = "WAIT_OK"]
    OBVIOUS
  <2>2. L!S!ByState(c, l) = L!S!ProcessWaitConn(c, l)
    BY <1>3, Zenon DEF L!S!ByState
  <2>3. PICK o : o = <<"send alive", 0>>
    OBVIOUS
  <2>4. PICK e : e = L!S!Write(d, o)
    OBVIOUS
  <2>5. L!S!ByState(c, l) = c \/ (L!S!ByState(c, l) = e /\ l = L!S!JOINED)
    BY <2>1, <2>2, <2>3, <2>4 DEF L!S!ProcessWaitConn, L!S!SendAlive, L!S!SendMsg
  <2>6. AtRest(d) /\ d.state = "WAIT_OK"
    BY <2>1, RuiStates, RuiMovesTo
  <2>7. Sound(e) /\ e.ack = L!None /\ e.state = "WAIT_OK" /\ e.out = <<o>>
    BY <2>4, <2>6, RuiWrites DEF AtRest
  <2>8. l = L!S!JOINED => Upon(v) /\ Nothing(v)
    BY <1>3 DEF Hearing, L!S!JOINED, Closes, Joining
  <2>9. o \in Orders /\ Opens(o) /\ o[1] # "join"
    BY <2>3 DEF Orders, CmdWords, Opens
  <2>10. l = L!S!JOINED => Goes(e, v)
    BY <2>7, <2>8, <2>9 DEF Goes, Sending
  <2> QED BY <1>1, <2>5, <2>7, <2>10 DEF Leads, L!None
<1>4. CASE c.state = "WAIT_OK"
  <2>1. PICK d : d = [c EXCEPT !.state = "WAIT_ACK"]
    OBVIOUS
  <2>2. L!S!ByState(c, l) = L!S!ProcessWaitOk(c, l)
    BY <1>4, Zenon DEF L!S!ByState
  <2>3. L!S!ByState(c, l) \in {c, d}
    BY <2>1, <2>2 DEF L!S!ProcessWaitOk
  <2>4. AtRest(d) /\ d.state = "WAIT_ACK"
    BY <2>1, RuiStates, RuiMovesTo
  <2>5. Fine("WAIT_ACK", v)
    BY <1>4, SameClass DEF Hearing, Sending
  <2> QED BY <1>1, <2>3, <2>4, <2>5, StaysFine
<1>5. CASE c.state = "WAIT_ACK"
  <2>1. PICK d : d = [c EXCEPT !.state = "IDLE", !.resend = 0, !.resets = 0,
                        !.backup = L!None]
    OBVIOUS
  <2>2. L!S!ByState(c, l) = L!S!ProcessWaitAck(c, l)
    BY <1>5, Zenon DEF L!S!ByState
  <2>3. PICK e : e = [d EXCEPT !.ack = "ack"]
    OBVIOUS
  <2>4. L!S!ByState(c, l) = c \/ (L!S!ByState(c, l) = e /\ l = L!S!ACK)
    BY <2>1, <2>2, <2>3 DEF L!S!ProcessWaitAck, L!S!SentAck, L!S!None, L!None
  <2>5. c.nest = <<>> /\ Sound(c) /\ c.out = <<>>
    BY DEF AtRest, Sound
  <2>6. Sound(d) /\ d.state = "IDLE" /\ d.nest = <<>> /\ d.out = <<>>
    BY <2>1, <2>5, RuiStates DEF Sound
  <2>7. Sound(e) /\ e.state = "IDLE" /\ e.nest = <<>> /\ e.out = <<>>
    BY <2>3, <2>6 DEF Sound
  <2>8. l = L!S!ACK => Upon(v) /\ Nothing(v)
    BY <1>5 DEF Hearing, L!S!ACK, Closes, On, Sending
  <2>9. l = L!S!ACK => Fine("IDLE", v)
    BY <1>2, <2>8, IdleFine
  <2>10. l = L!S!ACK => Leads(e, v)
    BY <2>7, <2>8, <2>9 DEF Leads, Goes
  <2> QED BY <1>1, <2>4, <2>10
<1> QED BY <1>3, <1>4, <1>5

LEMMA RuiByLineLeads ==
  ASSUME NEW c, AtRest(c), ~L!Is3172, IsLora, NEW l, NEW v, Hearing(c, l, v)
  PROVE  Leads(L!S!ByLine(c, l), v)
<1>1. Leads(c, v)
  BY StaysFine DEF Hearing
<1>2. c.state \in L!S!States
  BY DEF AtRest, Sound
<1>3. Leads(L!S!ByState(c, l), v)
  BY <1>2, RuiStates, RuiBooting, RuiAwaits
<1>4. l[1] = "ERROR" => Leads(L!S!HandleError(c, l[2]), v)
  BY RuiErrors
<1>5. l[1] \in L!S!Downlinks => Leads(L!S!HandleUnsol(c, l), v)
  BY RuiDownlinks
<1>6. \/ l[1] = "ERROR" /\ L!S!ByLine(c, l) = L!S!HandleError(c, l[2])
      \/ l[1] \in L!S!Downlinks /\ L!S!ByLine(c, l) = L!S!HandleUnsol(c, l)
      \/ L!S!ByLine(c, l) = c \/ L!S!ByLine(c, l) = L!S!ByState(c, l)
  BY DEF L!S!ByLine
<1> QED BY <1>1, <1>3, <1>4, <1>5, <1>6

LEMMA RuiHears ==
  ASSUME NEW c, AtRest(c), ~L!Is3172, IsLora, NEW l, NEW v, Hearing(c, l, v)
  PROVE  Leads(L!S!Process(c, l), v)
<1>1. PICK h : h = [c EXCEPT !.silent = FALSE]
  OBVIOUS
<1>2. AtRest(h) /\ h.state = c.state
  BY <1>1 DEF AtRest, Sound
<1>3. Hearing(h, l, v)
  BY <1>2 DEF Hearing
<1> QED BY <1>1, <1>2, <1>3, RuiByLineLeads DEF L!S!Process
-----------------------------------------------------------------------------
(* The driver's steps.                                                     *)

\* The faults the property is about: a line is lost, the radio fails, the ring
\* is full.
Fair == {"lose", "radio", "full"}
World == server \in Seq(Downs) /\ L!Wire \in Wires
JoinInv ==
    IsLora /\ faults.had \subseteq Fair =>
        AtRest(ctx) /\ World /\ Fine(ctx.state, L!Wire)

LEMMA LoraHears ==
  ASSUME IsLora, AtRest(ctx), World, Fine(ctx.state, L!Wire), L!Hear
  PROVE  AtRest(ctx)' /\ World' /\ Fine(ctx.state, L!Wire)' /\ kind' = kind
<1>1. PICK l : l = Head(line)
  OBVIOUS
<1>2. PICK v : v = [L!Wire EXCEPT !.line = Tail(line)]
  OBVIOUS
<1>3. line # <<>> /\ (\E u : L!Driver(L!Process(ctx, l), v, u))
  BY <1>1, <1>2 DEF L!Hear
<1>4. L!Wire \in Wires /\ L!Wire.line = line
  BY DEF World, L!Wire
<1>5. Hearing(ctx, l, v)
  BY <1>1, <1>2, <1>3, <1>4, Heard DEF Hearing
<1>6. Leads(L!Process(ctx, l), v)
  BY <1>5, RakHears, RuiHears DEF L!Process
<1>7. v \in Wires
  BY <1>5 DEF Hearing
<1> QED BY <1>3, <1>6, <1>7, DriverLeads DEF World

LEMMA QuietNothing ==
  ASSUME L!Quiet
  PROVE  Nothing(L!Wire)
BY DEF L!Quiet, L!Wire, Nothing, Unopened, Unclosed

LEMMA ResetLeads ==
  ASSUME NEW c, Sound(c), c.out = <<>>, c.ack # "ack", c.nest = <<>>, c.state # "OFF",
         NEW v \in Wires, Nothing(v), IsLora
  PROVE  Leads(L!Reset(c), v)
<1>1. CASE ~L!Is3172
  BY <1>1, RuiResetLeads DEF L!Reset
<1>2. CASE L!Is3172
  <2>1. PICK d : d = [c EXCEPT !.state = "RESETTING"]
    OBVIOUS
  <2>2. L!Reset(c) = IF c.state = "RESETTING" THEN c ELSE d
    BY <1>2, <2>1 DEF L!Reset, L!R!Reset
  <2>3. \A e \in {c, d} : e.state = "RESETTING" =>
            /\ Sound(e) /\ e.out = <<>> /\ e.ack # "ack"
            /\ e.state \notin Joining \cup On
    BY <1>2, <2>1, RakStates DEF Sound, Joining, On, Sending
  <2>4. d.state = "RESETTING"
    BY <2>1 DEF Sound
  <2>5. \A s : s \notin Joining \cup On => Fine(s, v)
    BY NothingSingle, StateClasses DEF Fine
  <2>6. \A e \in {c, d} : e.state = "RESETTING" => Leads(e, v)
    BY <2>3, <2>5, Zenon DEF Leads, Goes
  <2> QED BY <2>2, <2>4, <2>6
<1> QED BY <1>1, <1>2

LEMMA LoraWakes ==
  ASSUME IsLora, AtRest(ctx), World, Fine(ctx.state, L!Wire), L!Resume
  PROVE  AtRest(ctx)' /\ World' /\ Fine(ctx.state, L!Wire)' /\ kind' = kind
<1>1. ctx.nest = <<"meas">> /\ L!Is3172 /\ ctx.state = "IDLE" /\ Sound(ctx)
  BY DEF L!Resume, AtRest, Sound
<1>2. L!R!Innermost(ctx) = "meas" /\ L!Innermost(ctx) = "meas"
  BY <1>1 DEF L!R!Innermost, L!Innermost
<1>3. L!Wire \in Wires /\ Nothing(L!Wire) /\ Upon(L!Wire)
  BY <1>1, StateClasses DEF World, Fine, Joining
<1>4. PICK r : r = L!R!Return(ctx)
  OBVIOUS
<1>5. AtRest(r) /\ r.nest = <<>> /\ r.state = "IDLE" /\ r.err = 0
  <2>1. r = [ctx EXCEPT !.nest = SubSeq(<<"meas">>, 1, 0)]
    BY <1>1, <1>4 DEF L!R!Return
  <2>2. SubSeq(<<"meas">>, 1, 0) = <<>>
    OBVIOUS
  <2> QED BY <1>1, <2>1, <2>2 DEF AtRest, Sound
<1>6. PICK d : d = L!R!AfterSleep(ctx)
  OBVIOUS
<1>7. Leads(d, L!Wire)
  <2>1. PICK o : o = <<"send meas", 0>>
    OBVIOUS
  <2>2. L!R!SendMsg("meas") = o
    BY <2>1 DEF L!R!SendMsg
  <2>3. PICK b : b = L!R!Write(r, o)
    OBVIOUS
  <2>4. Sound(b) /\ b.out = <<o>> /\ b.ack = L!None /\ b.nest = <<>> /\ b.err = 0
    BY <1>5, <2>3 DEF L!R!Write, AtRest, Sound
  <2>5. d = [b EXCEPT !.state = "SEND_WAIT_OK", !.err = @]
    BY <1>2, <1>4, <1>6, <2>2, <2>3 DEF L!R!AfterSleep
  <2>6. Sound(d) /\ d.out = <<o>> /\ d.ack = L!None /\ d.state = "SEND_WAIT_OK"
    BY <1>1, <2>4, <2>5, RakStates DEF Sound
  <2>7. o \in Orders /\ Opens(o) /\ o[1] # "join"
    BY <2>1 DEF Orders, CmdWords, Opens
  <2>8. Goes(d, L!Wire)
    BY <1>3, <2>6, <2>7 DEF Goes, Sending
  <2> QED BY <2>6, <2>8 DEF Leads, L!None
<1>8. PICK e : e = L!R!SendFails(ctx)
  OBVIOUS
<1>9. Leads(L!Reset(e), L!Wire)
  <2>1. e = [r EXCEPT !.err = @]
    BY <1>2, <1>4, <1>8 DEF L!R!SendFails
  <2>2. Sound(e) /\ e.out = <<>> /\ e.ack = L!None /\ e.nest = <<>> /\ e.state = "IDLE"
    BY <1>5, <2>1 DEF AtRest, Sound
  <2> QED BY <1>3, <2>2, ResetLeads DEF L!None
<1>10. \E u : L!Driver(d, L!Wire, u) \/ L!Driver(L!Reset(e), L!Wire, u)
  BY <1>2, <1>6, <1>8 DEF L!Resume
<1> QED BY <1>3, <1>7, <1>9, <1>10, DriverLeads DEF World

LEMMA TimeoutLeads ==
  ASSUME IsLora, AtRest(ctx), World, Nothing(L!Wire), L!HasTimeout(ctx), ctx.nest = <<>>
  PROVE  Leads(L!Timeout(ctx), L!Wire)
<1>1. Sound(ctx) /\ ctx.out = <<>> /\ ctx.ack = L!None /\ L!None # "ack" /\ L!Wire \in Wires
  BY DEF AtRest, World, L!None
<1>2. PICK n : n = [ctx EXCEPT !.ack = "nack"]
  OBVIOUS
<1>3. Sound(n) /\ n.out = <<>> /\ n.ack = "nack" /\ n.nest = <<>> /\ n.state = ctx.state
  BY <1>1, <1>2 DEF Sound
<1>4. ctx.state # "OFF" => Leads(L!Reset(ctx), L!Wire) /\ Leads(L!Reset(n), L!Wire)
  BY <1>1, <1>3, ResetLeads
<1>5. CASE L!Is3172
  <2>1. ctx.state # "IDLE"
    BY <1>1, <1>5 DEF L!HasTimeout, L!R!HasTimeout, Sound
  <2>2. CASE ctx.state = "OFF"
    <3>1. PICK d : d = L!R!Write(ctx, L!R!HardReset)
      OBVIOUS
    <3>2. L!Timeout(ctx) = d
      BY <1>5, <2>2, <3>1, Zenon DEF L!Timeout, L!R!Timeout
    <3>3. /\ Sound(d) /\ d.out = <<L!R!HardReset>> /\ d.ack = L!None
          /\ d.state = "OFF"
      BY <1>1, <2>2, <3>1 DEF L!R!Write, Sound
    <3>4. Quietens(L!R!HardReset)
      BY DEF Quietens, Signals
    <3>5. Goes(d, L!Wire)
      BY <3>3, <3>4 DEF Goes, Joining, On, Sending
    <3> QED BY <1>1, <3>2, <3>3, <3>5 DEF Leads
  <2>3. CASE ctx.state = "RESETTING"
    <3>1. PICK b : b = [ctx EXCEPT !.state = "OFF"]
      OBVIOUS
    <3>2. L!Timeout(ctx) = L!R!Printf(b, L!R!ResetMsg)
      BY <1>5, <2>3, <3>1, Zenon DEF L!Timeout, L!R!Timeout
    <3>3. AtRest(b) /\ b.state = "OFF"
      BY <1>5, <3>1, RakStates, RakMovesTo
    <3>4. Quietens(L!R!ResetMsg)
      BY DEF Quietens, L!R!ResetMsg, Orders, CmdWords, Opens
    <3> QED BY <1>5, <3>2, <3>3, <3>4, RakPrepares DEF Joining, On, Sending
  <2>4. CASE ctx.state \notin {"OFF", "RESETTING"}
    <3>1. L!R!SentAck(ctx, FALSE) = n
      BY <1>2 DEF L!R!SentAck
    <3>2. L!Timeout(ctx) \in {L!Reset(ctx), L!Reset(n)}
      BY <1>5, <2>1, <2>4, <3>1 DEF L!Timeout, L!R!Timeout, L!Reset
    <3> QED BY <1>4, <2>4, <3>2
  <2> QED BY <2>2, <2>3, <2>4
<1>6. CASE ~L!Is3172
  <2>1. CASE ctx.state = "OFF"
    <3>1. PICK a : a = [ctx EXCEPT !.silent = @ \/ ctx.slow, !.slow = FALSE]
      OBVIOUS
    <3>2. PICK b : b = [a EXCEPT !.state = "WAIT_INIT", !.init = 0]
      OBVIOUS
    <3>3. L!Timeout(ctx) = L!S!PowerUp(ctx)
      BY <1>6, <2>1, Zenon DEF L!Timeout, L!S!Timeout
    <3>4. L!S!PowerUp(ctx) = L!S!Switch(b, L!S!PowerOn)
      BY <3>1, <3>2 DEF L!S!PowerUp, L!S!ChipOn
    <3>5. Sound(a) /\ a.out = <<>> /\ a.ack = L!None
      BY <1>1, <3>1 DEF Sound
    <3>6. Sound(b) /\ b.out = <<>> /\ b.ack = L!None /\ b.state = "WAIT_INIT"
      BY <1>6, <3>2, <3>5, RuiStates DEF Sound
    <3>7. Quietens(L!S!PowerOn)
      BY DEF Quietens, Signals
    <3>8. b.state \notin Joining \cup On
      BY <3>6 DEF Joining, On, Sending
    <3> QED BY <1>1, <1>6, <3>3, <3>4, <3>6, <3>7, <3>8, RuiSwitches
  <2>2. CASE ctx.state # "OFF"
    <3>1. PICK d : d = [ctx EXCEPT !.silent = TRUE]
      OBVIOUS
    <3>2. PICK e : e = [d EXCEPT !.ack = "nack"]
      OBVIOUS
    <3>3. /\ Sound(d) /\ d.out = <<>> /\ d.ack = L!None /\ d.nest = <<>>
          /\ d.state = ctx.state
      BY <1>1, <3>1 DEF Sound
    <3>4. /\ Sound(e) /\ e.out = <<>> /\ e.ack = "nack" /\ e.nest = <<>>
          /\ e.state = ctx.state
      BY <3>2, <3>3 DEF Sound
    <3>5. Leads(L!Reset(d), L!Wire) /\ Leads(L!Reset(e), L!Wire)
      BY <1>1, <2>2, <3>3, <3>4, ResetLeads
    <3>6. L!S!SentAck(d, FALSE) = e
      BY <3>2 DEF L!S!SentAck
    <3>7. L!Timeout(ctx) \in {L!Reset(d), L!Reset(e)}
      BY <1>6, <2>2, <3>1, <3>6 DEF L!Timeout, L!S!Timeout, L!Reset
    <3> QED BY <3>5, <3>7
  <2> QED BY <2>1, <2>2
<1> QED BY <1>5, <1>6

LEMMA LoraTimesOut ==
  ASSUME IsLora, AtRest(ctx), World, Fine(ctx.state, L!Wire), L!TimerFires,
         faults'.had \subseteq Fair
  PROVE  AtRest(ctx)' /\ World' /\ Fine(ctx.state, L!Wire)' /\ kind' = kind
<1>1. ctx.nest = <<>> /\ L!HasTimeout(ctx) /\ (\E u : L!Driver(L!Timeout(ctx), L!Wire, u))
  BY DEF L!TimerFires
<1>2. ~L!Fault("late")
  BY DEF L!Fault, Fair
<1>3. ctx.state # "IDLE"
  BY <1>1 DEF L!HasTimeout, L!R!HasTimeout, L!S!HasTimeout, AtRest, Sound
<1>4. L!Quiet \/ ctx.state \in {"RESETTING", "WAIT_INIT"}
  BY <1>2, <1>3 DEF L!TimerFires, L!Due, L!S!Overdue
<1>5. Nothing(L!Wire)
  BY <1>4, QuietNothing DEF Fine, Joining, Sending
<1>6. Leads(L!Timeout(ctx), L!Wire) /\ L!Wire \in Wires
  BY <1>1, <1>5, TimeoutLeads DEF World
<1> QED BY <1>1, <1>6, DriverLeads DEF World

LEMMA LoraMeasures ==
  ASSUME IsLora, AtRest(ctx), World, Fine(ctx.state, L!Wire), L!MeasBusy \/ L!MeasSend
  PROVE  AtRest(ctx)' /\ World' /\ Fine(ctx.state, L!Wire)' /\ kind' = kind
<1>1. CASE L!MeasBusy
  <2>1. CASE UNCHANGED <<kind, ctx, line, cmds, chip, server>>
    BY <2>1 DEF AtRest, Sound, World, L!Wire, L!Is3172
  <2>2. CASE L!Quiet /\ L!Driver(L!Reset(ctx), L!Wire, L!UpIdle)
    <3>1. ctx.nest = <<>> /\ ctx.state # "OFF"
      BY <1>1 DEF L!MeasBusy, L!Connected, L!R!Connected, L!S!Connected
    <3>2. Sound(ctx) /\ ctx.out = <<>> /\ ctx.ack # "ack" /\ L!Wire \in Wires
      BY DEF AtRest, World, L!None
    <3>3. Leads(L!Reset(ctx), L!Wire)
      BY <2>2, <3>1, <3>2, QuietNothing, ResetLeads
    <3> QED BY <2>2, <3>2, <3>3, DriverLeads DEF World
  <2> QED BY <1>1, <2>1, <2>2 DEF L!MeasBusy
<1>2. CASE L!MeasSend
  <2>1. ctx.nest = <<>> /\ ctx.state = "IDLE" /\ (\E u : L!Driver(L!Send(ctx), L!Wire, u))
    BY <1>2 DEF L!MeasSend
  <2>2. L!Wire \in Wires /\ Nothing(L!Wire) /\ Upon(L!Wire)
    BY <2>1, StateClasses DEF World, Fine
  <2>3. Leads(L!Send(ctx), L!Wire)
    BY <2>1, <2>2, SendsOn DEF Leads, L!None
  <2> QED BY <2>1, <2>2, <2>3, DriverLeads DEF World
<1> QED BY <1>1, <1>2

-----------------------------------------------------------------------------
(* The modem's steps.                                                      *)

\* A line that grows by lines that answer nothing.
Grown(p, q) ==
    /\ p \in Seq(Lines)
    /\ \A i \in 1..Len(p) : Closes(p[i]) => i \in 1..Len(q) /\ p[i] = q[i]

LEMMA GrownBy ==
  ASSUME NEW q \in Seq(Lines), NEW a \in Seq(Lines), Unclosed(a)
  PROVE  Grown(q \o a, q)
<1>1. PICK p : p = q \o a
  OBVIOUS
<1>2. /\ p \in Seq(Lines) /\ Len(p) = Len(q) + Len(a) /\ Len(q) \in Nat /\ Len(a) \in Nat
      /\ \A i \in 1..Len(p) : IF i \in 1..Len(q) THEN p[i] = q[i]
                              ELSE i - Len(q) \in 1..Len(a) /\ p[i] = a[i - Len(q)]
  BY <1>1
<1>3. \A i \in 1..Len(p) : Closes(p[i]) => i \in 1..Len(q) /\ p[i] = q[i]
  BY <1>2 DEF Unclosed
<1> QED BY <1>1, <1>2, <1>3 DEF Grown

LEMMA GrownTwice ==
  ASSUME NEW q, NEW p, Grown(p, q), NEW r, Grown(r, p)
  PROVE  Grown(r, q)
BY DEF Grown

LEMMA GrownAnswersNothing ==
  ASSUME NEW q \in Seq(Lines), NEW p, Grown(p, q)
  PROVE  /\ Unclosed(q) => Unclosed(p)
         /\ \A i \in 1..Len(p) : p[i][1] = "JOINED" => i \in 1..Len(q) /\ p[i] = q[i]
         /\ (\A i, j \in 1..Len(q) : Closes(q[i]) /\ Closes(q[j]) => i = j) =>
                \A i, j \in 1..Len(p) : Closes(p[i]) /\ Closes(p[j]) => i = j
<1>1. \A x : x[1] = "JOINED" => Closes(x)
  BY DEF Closes
<1> QED BY <1>1 DEF Grown, Unclosed

LEMMA Tails ==
  ASSUME NEW k \in Seq(Orders), k # <<>>
  PROVE  /\ Head(k) = k[1] /\ Head(k) \in Orders /\ 1 \in 1..Len(k) /\ Tail(k) \in Seq(Orders)
         /\ Len(Tail(k)) = Len(k) - 1 /\ Len(k) \in Nat
         /\ \A i \in 1..Len(Tail(k)) : i + 1 \in 1..Len(k) /\ Tail(k)[i] = k[i + 1]
OBVIOUS

\* What the driver is told of a command that is no question.
LEMMA TalkFine ==
  ASSUME NEW w \in Wires, NEW s, Fine(s, w), w.cmds # <<>>, ~Opens(Head(w.cmds)),
         NEW p, Grown(p, w.line), NEW k \in Chips, k.air \in {w.chip.air, L!None},
         NEW v, v = [line |-> p, cmds |-> Tail(w.cmds), chip |-> k]
  PROVE  v \in Wires /\ Fine(s, v)
<1>1. PICK q \in Seq(Lines), c \in Seq(Orders), h \in Chips :
          w = [line |-> q, cmds |-> c, chip |-> h]
  BY DEF Wires
<1>2. PICK t : t = Tail(c)
  OBVIOUS
<1>3. w.cmds = c /\ w.line = q /\ w.chip = h
  BY <1>1
<1>4. /\ c # <<>> /\ Grown(p, q) /\ k.air \in {h.air, L!None} /\ ~Opens(c[1])
      /\ v = [line |-> p, cmds |-> t, chip |-> k]
  BY <1>2, <1>3, Tails
<1>5. /\ 1 \in 1..Len(c) /\ t \in Seq(Orders) /\ Len(t) = Len(c) - 1 /\ Len(c) \in Nat
      /\ \A i \in 1..Len(t) : i + 1 \in 1..Len(c) /\ t[i] = c[i + 1]
  BY <1>2, <1>4, Tails
<1>6. v \in Wires /\ v.line = p /\ v.cmds = t /\ v.chip = k
  <2>1. v \in Wires
    BY <1>4, <1>5, WireOf DEF Grown
  <2>2. v.line = p /\ v.cmds = t /\ v.chip = k
    BY <1>4
  <2> QED BY <2>1, <2>2
<1>7. Unopened(c) => Unopened(t)
  BY <1>5 DEF Unopened
<1>8. Unclosed(q) => Unclosed(p)
  BY <1>4, GrownAnswersNothing
<1>9. Single(w) => Single(v)
  <2> SUFFICES ASSUME Single(w)
               PROVE  Single(v)
    OBVIOUS
  <2>1. ~Unopened(t) => k.air = L!None /\ Unclosed(p)
    BY <1>3, <1>4, <1>7, <1>8 DEF Single
  <2>2. k.air # L!None => Unclosed(p)
    BY <1>3, <1>4, <1>8 DEF Single
  <2>3. \A i \in 1..Len(t) : Opens(t[i]) => i = Len(t)
    BY <1>3, <1>5 DEF Single
  <2>4. \A i, j \in 1..Len(p) : Closes(p[i]) /\ Closes(p[j]) => i = j
    BY <1>3, <1>4, GrownAnswersNothing DEF Single
  <2> QED BY <1>6, <2>1, <2>2, <2>3, <2>4 DEF Single
<1>10. Joins(w) => Joins(v)
  <2> SUFFICES ASSUME Joins(w)
               PROVE  Joins(v)
    OBVIOUS
  <2>1. \A i \in 1..Len(t) : Opens(t[i]) => t[i] = <<"join", 0>>
    BY <1>3, <1>5 DEF Joins
  <2>2. h.air = L!None /\ Unclosed(q)
    BY <1>3, <1>4 DEF Joins, Unclosed
  <2>3. k.air = L!None /\ L!None # "join" /\ \A i \in 1..Len(p) : ~Closes(p[i])
    BY <1>4, <1>8, <2>2 DEF Unclosed, L!None
  <2> QED BY <1>4, <2>1, <2>3 DEF Joins
<1>11. ~Upon(w)
  BY <1>3, <1>4, <1>5 DEF Upon
<1>12. Nothing(w) => Nothing(v)
  BY <1>3, <1>4, <1>6, <1>7, <1>8 DEF Nothing
<1> QED BY <1>6, <1>9, <1>10, <1>11, <1>12 DEF Fine

LEMMA SaysGrows ==
  ASSUME World, NEW ls \in Seq(Lines), Unclosed(ls), NEW k, L!Says(ls, k), cmds # <<>>
  PROVE  Grown(line', line) /\ chip' = k
<1>1. line \in Seq(Lines) /\ cmds \in Seq(Orders) /\ chip \in Chips
  BY DEF World, L!Wire, Wires
<1>2. PICK o : o = Head(cmds)
  OBVIOUS
<1>3. o \in Lines /\ ~Closes(o)
  <2>1. o \in Orders
    BY <1>1, <1>2, Tails
  <2>2. o[1] \in CmdWords /\ o \in Lines
    BY <2>1 DEF Orders, Lines, LineWords
  <2> QED BY <2>2 DEF CmdWords, Closes
<1>4. PICK e : e = IF chip.echo THEN <<o>> ELSE <<>>
  OBVIOUS
<1>5. e \in Seq(Lines) /\ Unclosed(e)
  BY <1>3, <1>4 DEF Unclosed
<1>6. PICK p : p = line \o e
  OBVIOUS
<1>7. Grown(p, line)
  BY <1>1, <1>5, <1>6, GrownBy
<1>8. line' = p \o ls /\ chip' = k
  BY <1>2, <1>4, <1>6 DEF L!Says
<1>9. Grown(line', p)
  BY <1>7, <1>8, GrownBy DEF Grown
<1> QED BY <1>7, <1>8, <1>9, GrownTwice

LEMMA PlainLines ==
  /\ <<L!R!INIT>> \in Seq(Lines) /\ Unclosed(<<L!R!INIT>>)
  /\ <<L!R!OK>> \in Seq(Lines) /\ Unclosed(<<L!R!OK>>)
  /\ <<>> \in Seq(Lines) /\ Unclosed(<<>>)
<1>1. L!R!INIT \in Lines /\ ~Closes(L!R!INIT)
  BY DEF L!R!INIT, Lines, LineWords, Closes
<1>2. L!R!OK \in Lines /\ ~Closes(L!R!OK)
  BY DEF L!R!OK, Lines, LineWords, Closes
<1> QED BY <1>1, <1>2 DEF Unclosed

LEMMA ChipPlain ==
  ASSUME World, Fine(ctx.state, L!Wire), L!ChipInit \/ L!ChipRestart \/ L!ChipTest
  PROVE  L!Wire' \in Wires /\ Fine(ctx.state, L!Wire')
<1>1. /\ cmds # <<>> /\ cmds' = Tail(cmds)
      /\ Head(cmds)[1] \in {"init", "ATZ", "restart", "test"}
  BY DEF L!ChipInit, L!ChipRestart, L!ChipTest, L!Takes
<1>2. PICK e : e = [chip EXCEPT !.echo = TRUE]
  OBVIOUS
<1>3. \E ls \in {<<L!R!INIT>>, <<L!R!OK>>}, k \in {L!ChipBooted, chip, e} : L!Says(ls, k)
  <2>1. CASE L!ChipInit
    BY <1>2, <2>1 DEF L!ChipInit
  <2>2. CASE L!ChipRestart
    <3>1. L!S!INIT = L!R!INIT
      BY DEF L!S!INIT, L!R!INIT
    <3> QED BY <2>2, <3>1 DEF L!ChipRestart
  <2>3. CASE L!ChipTest
    BY <2>3 DEF L!ChipTest
  <2> QED BY <2>1, <2>2, <2>3
<1>4. PICK ls \in {<<L!R!INIT>>, <<L!R!OK>>}, k \in {L!ChipBooted, chip, e} : L!Says(ls, k)
  BY <1>3
<1>5. /\ L!Wire \in Wires /\ chip \in Chips
      /\ L!Wire.line = line /\ L!Wire.cmds = cmds /\ L!Wire.chip = chip
  BY DEF World, L!Wire, Wires
<1>6. e \in Chips /\ e.air = chip.air
  BY <1>2, <1>5 DEF Chips
<1>7. k \in Chips /\ k.air \in {chip.air, L!None}
  BY <1>5, <1>6, ChipKinds
<1>8. Grown(line', line) /\ chip' = k
  BY <1>1, <1>4, SaysGrows, PlainLines
<1>9. ~Opens(Head(cmds))
  BY <1>1 DEF Opens
<1>10. L!Wire' = [line |-> line', cmds |-> Tail(cmds), chip |-> k]
  BY <1>1, <1>8 DEF L!Wire
<1> QED BY <1>1, <1>5, <1>7, <1>8, <1>9, <1>10, TalkFine

\* A question is the last command.
LEMMA OpenEnds ==
  ASSUME World, Fine(ctx.state, L!Wire), cmds # <<>>, Opens(Head(cmds))
  PROVE  /\ chip.air = L!None /\ Unclosed(line)
         /\ Head(cmds)[1] = "join" => ctx.state \in Joining
         /\ Head(cmds)[1] # "join" => ctx.state \in Sending /\ chip.joined
         /\ Head(cmds)[1] # "join" \/ ctx.state \in Joining => Tail(cmds) = <<>>
<1>1. /\ line \in Seq(Lines) /\ cmds \in Seq(Orders)
      /\ L!Wire.line = line /\ L!Wire.cmds = cmds /\ L!Wire.chip = chip
  BY DEF World, L!Wire, Wires
<1>2. 1 \in 1..Len(cmds) /\ Opens(cmds[1]) /\ Head(cmds) = cmds[1]
  BY <1>1, Tails
<1>3. ~Unopened(cmds)
  BY <1>2 DEF Unopened
<1>4. chip.air = L!None /\ Unclosed(line) /\ Len(cmds) = 1
  BY <1>1, <1>2, <1>3 DEF Fine, Single
<1>5. Tail(cmds) = <<>>
  <2>1. PICK t : t = Tail(cmds)
    OBVIOUS
  <2>2. t \in Seq(Orders) /\ Len(t) = 0
    BY <1>1, <1>4, <2>1, Tails
  <2>3. t = <<>>
    BY <2>2
  <2> QED BY <2>1, <2>3
<1>6. ctx.state \in Joining \cup Sending
  BY <1>1, <1>3 DEF Fine, Nothing
<1>7. ctx.state \in Joining => cmds[1] = <<"join", 0>>
  BY <1>1, <1>2 DEF Fine, Joins
<1>8. ctx.state \in Sending => cmds[1][1] # "join" /\ chip.joined
  BY <1>1, <1>2, StateClasses DEF Fine, Upon
<1> QED BY <1>2, <1>4, <1>5, <1>6, <1>7, <1>8

LEMMA ChipJoins ==
  ASSUME World, Fine(ctx.state, L!Wire), L!ChipJoin
  PROVE  L!Wire' \in Wires /\ Fine(ctx.state, L!Wire')
<1>1. cmds # <<>> /\ cmds' = Tail(cmds) /\ Head(cmds)[1] = "join" /\ Opens(Head(cmds))
  BY DEF L!ChipJoin, L!Takes, Opens
<1>2. /\ chip.air = L!None /\ Unclosed(line) /\ ctx.state \in Joining /\ cmds' = <<>>
  BY <1>1, OpenEnds
<1>3. PICK k : k = [chip EXCEPT !.joined = FALSE, !.air = "join"]
  OBVIOUS
<1>4. line \in Seq(Lines) /\ chip \in Chips
  BY DEF World, L!Wire, Wires
<1>5. k \in Chips /\ k.air = "join"
  BY <1>3, <1>4 DEF Chips
<1>6. \E ls \in {<<L!R!OK>>, <<>>} : L!Says(ls, k)
  BY <1>3 DEF L!ChipJoin
<1>7. Grown(line', line) /\ chip' = k
  BY <1>1, <1>6, SaysGrows, PlainLines
<1>8. line' \in Seq(Lines) /\ Unclosed(line')
  BY <1>2, <1>4, <1>7, GrownAnswersNothing DEF Grown
<1>9. PICK w : w = [line |-> line', cmds |-> <<>>, chip |-> k]
  OBVIOUS
<1>10. L!Wire' = w /\ w \in Wires
  <2>1. <<>> \in Seq(Orders)
    OBVIOUS
  <2>2. w \in Wires
    BY <1>5, <1>8, <1>9, <2>1, WireOf
  <2>3. L!Wire' = w
    BY <1>2, <1>7, <1>9 DEF L!Wire
  <2> QED BY <2>2, <2>3
<1>11. w.line = line' /\ w.cmds = <<>> /\ w.chip = k
  BY <1>9
<1>12. \A i \in 1..Len(line') : ~Closes(line'[i])
  BY <1>8 DEF Unclosed
<1>13. Single(w)
  BY <1>8, <1>11, <1>12 DEF Single, Unopened
<1>14. Joins(w)
  BY <1>5, <1>11, <1>12 DEF Joins
<1> QED BY <1>2, <1>10, <1>13, <1>14, StateClasses DEF Fine

LEMMA ChipSends ==
  ASSUME World, Fine(ctx.state, L!Wire), L!ChipSend
  PROVE  L!Wire' \in Wires /\ Fine(ctx.state, L!Wire')
<1>1. PICK what \in {"meas", "alive", "err"} :
          /\ L!Takes(L!R!SendMsg(what)[1])
          /\ IF chip.joined /\ chip.air = L!None
             THEN L!Says(<<L!R!OK>>, [chip EXCEPT !.air = what])
             ELSE L!Says(<<IF L!Is3172 THEN L!R!BUSY
                           ELSE L!S!Error(IF chip.joined THEN 80 ELSE 86)>>, chip)
  BY DEF L!ChipSend
<1>2. L!R!SendMsg(what)[1] \in {"send meas", "send alive", "send err"}
  BY DEF L!R!SendMsg
<1>3. cmds # <<>> /\ cmds' = Tail(cmds) /\ Head(cmds)[1] # "join" /\ Opens(Head(cmds))
  BY <1>1, <1>2 DEF L!Takes, Opens
<1>4. /\ chip.air = L!None /\ Unclosed(line) /\ ctx.state \in Sending /\ chip.joined
      /\ cmds' = <<>>
  BY <1>3, OpenEnds
<1>5. PICK k : k = [chip EXCEPT !.air = what]
  OBVIOUS
<1>6. line \in Seq(Lines) /\ chip \in Chips
  BY DEF World, L!Wire, Wires
<1>7. k \in Chips /\ k.air = what /\ k.joined
  BY <1>4, <1>5, <1>6 DEF Chips
<1>8. L!Says(<<L!R!OK>>, k)
  BY <1>1, <1>4, <1>5
<1>9. Grown(line', line) /\ chip' = k
  BY <1>3, <1>8, SaysGrows, PlainLines
<1>10. line' \in Seq(Lines) /\ Unclosed(line')
  BY <1>4, <1>6, <1>9, GrownAnswersNothing DEF Grown
<1>11. PICK w : w = [line |-> line', cmds |-> <<>>, chip |-> k]
  OBVIOUS
<1>12. L!Wire' = w /\ w \in Wires
  <2>1. <<>> \in Seq(Orders)
    OBVIOUS
  <2>2. w \in Wires
    BY <1>7, <1>10, <1>11, <2>1, WireOf
  <2>3. L!Wire' = w
    BY <1>4, <1>9, <1>11 DEF L!Wire
  <2> QED BY <2>2, <2>3
<1>13. w.line = line' /\ w.cmds = <<>> /\ w.chip = k
  BY <1>11
<1>14. \A i \in 1..Len(line') : ~Closes(line'[i]) /\ line'[i][1] # "JOINED"
  BY <1>10 DEF Unclosed, Closes
<1>15. Single(w)
  BY <1>10, <1>13, <1>14 DEF Single, Unopened
<1>16. Upon(w)
  BY <1>7, <1>13, <1>14 DEF Upon
<1> QED BY <1>4, <1>12, <1>15, <1>16, StateClasses DEF Fine

\* The end of what is on the air.
LEMMA AirEnds ==
  ASSUME World, Fine(ctx.state, L!Wire), chip.air # L!None
  PROVE  /\ Unclosed(line) /\ cmds = <<>> /\ chip \in Chips /\ line \in Seq(Lines)
         /\ chip.air = "join" => ctx.state \in Joining
         /\ chip.air # "join" => ctx.state \in Sending /\ chip.joined
<1>1. /\ L!Wire.line = line /\ L!Wire.cmds = cmds /\ L!Wire.chip = chip
      /\ chip \in Chips /\ line \in Seq(Lines) /\ cmds \in Seq(Orders)
  BY DEF World, L!Wire, Wires
<1>2. Unclosed(line) /\ Unopened(cmds)
  BY <1>1 DEF Fine, Single
<1>3. ctx.state \in Joining \cup Sending
  BY <1>1 DEF Fine, Nothing
<1>4. ctx.state \in Joining => chip.air = "join" /\ cmds = <<>>
  BY <1>1 DEF Fine, Joins
<1>5. ctx.state \in Sending => /\ chip.air # "join" /\ chip.joined
                              /\ \A i \in 1..Len(cmds) : Opens(cmds[i])
  BY <1>1, StateClasses DEF Fine, Upon
<1>6. ctx.state \in Sending => cmds = <<>>
  BY <1>1, <1>2, <1>5 DEF Unopened
<1> QED BY <1>1, <1>2, <1>3, <1>4, <1>5, <1>6

LEMMA AirFine ==
  ASSUME World, Fine(ctx.state, L!Wire), chip.air # L!None,
         NEW l \in Lines, NEW k \in Chips, k.air = L!None,
         line' = Append(line, l), cmds' = cmds, chip' = k,
         IF chip.air = "join"
         THEN /\ l \in {<<"JOINED", 0>>, <<"JOIN_FAILED", 0>>, <<"ERROR", 99>>}
              /\ l = <<"JOINED", 0>> => k.joined
         ELSE l[1] # "JOINED" /\ k.joined
  PROVE  L!Wire' \in Wires /\ Fine(ctx.state, L!Wire')
<1>1. /\ Unclosed(line) /\ cmds = <<>> /\ line \in Seq(Lines)
      /\ chip.air = "join" => ctx.state \in Joining
      /\ chip.air # "join" => ctx.state \in Sending
  BY AirEnds
<1>2. PICK p : p = Append(line, l)
  OBVIOUS
<1>3. /\ p \in Seq(Lines)
      /\ \A i \in 1..Len(p) : IF i = Len(p) THEN p[i] = l ELSE ~Closes(p[i])
  BY <1>1, <1>2 DEF Unclosed
<1>4. PICK w : w = [line |-> p, cmds |-> <<>>, chip |-> k]
  OBVIOUS
<1>5. L!Wire' = w
  BY <1>1, <1>2, <1>4 DEF L!Wire
<1>6. w \in Wires
  <2>1. <<>> \in Seq(Orders)
    OBVIOUS
  <2> QED BY <1>3, <1>4, <2>1, WireOf
<1>7. w.line = p /\ w.cmds = <<>> /\ w.chip = k
  BY <1>4
<1>8. Single(w)
  BY <1>3, <1>7 DEF Single, Unopened
<1>9. CASE chip.air = "join"
  <2>1. \A i \in 1..Len(p) : Closes(p[i]) => p[i] = l
    BY <1>3
  <2>2. Joins(w)
    BY <1>7, <1>9, <2>1 DEF Joins
  <2> QED BY <1>1, <1>5, <1>6, <1>8, <1>9, <2>2, StateClasses DEF Fine
<1>10. CASE chip.air # "join"
  <2>1. \A i \in 1..Len(p) : p[i][1] # "JOINED"
    BY <1>3, <1>10 DEF Closes
  <2>2. k.air # "join"
    BY DEF L!None
  <2>3. Upon(w)
    BY <1>7, <1>10, <2>1, <2>2 DEF Upon
  <2> QED BY <1>1, <1>5, <1>6, <1>8, <1>10, <2>3, StateClasses DEF Fine
<1> QED BY <1>9, <1>10

LEMMA AirLines ==
  /\ L!R!JOINED \in Lines /\ L!R!JOINED = <<"JOINED", 0>>
  /\ L!R!JOIN_FAILED \in Lines /\ L!R!JOIN_FAILED = <<"JOIN_FAILED", 0>>
  /\ L!R!ACK \in Lines /\ L!R!ACK[1] # "JOINED"
  /\ L!R!NACK \in Lines /\ L!R!NACK[1] # "JOINED"
  /\ \A n \in Nat : /\ L!S!Error(n) \in Lines /\ L!S!Error(n)[1] # "JOINED"
                   /\ L!S!Error(n) = <<"ERROR", n>>
BY DEF L!R!JOINED, L!R!JOIN_FAILED, L!R!ACK, L!R!NACK, L!S!Error, Lines, LineWords

LEMMA JoinEnds ==
  ASSUME World, Fine(ctx.state, L!Wire), L!ChipJoined
  PROVE  L!Wire' \in Wires /\ Fine(ctx.state, L!Wire')
<1>1. chip.air = "join" /\ chip.air # L!None
  BY DEF L!ChipJoined, L!None
<1>2. chip \in Chips
  BY <1>1, AirEnds
<1>3. PICK j : j = [chip EXCEPT !.joined = TRUE]
  OBVIOUS
<1>4. PICK k : k = [j EXCEPT !.air = L!None]
  OBVIOUS
<1>5. PICK m : m = [chip EXCEPT !.air = L!None]
  OBVIOUS
<1>6. /\ k \in Chips /\ k.air = L!None /\ k.joined
      /\ m \in Chips /\ m.air = L!None
  BY <1>2, <1>3, <1>4, <1>5 DEF Chips
<1>7. \/ line' = Append(line, L!R!JOINED) /\ chip' = k /\ cmds' = cmds
      \/ \E l \in {L!R!JOIN_FAILED, L!S!Error(99)} :
             line' = Append(line, l) /\ chip' = m /\ cmds' = cmds
  BY <1>3, <1>4, <1>5 DEF L!ChipJoined, L!Airs
<1>8. CASE line' = Append(line, L!R!JOINED) /\ chip' = k /\ cmds' = cmds
  BY <1>1, <1>6, <1>8, AirFine, AirLines
<1>9. CASE \E l \in {L!R!JOIN_FAILED, L!S!Error(99)} :
             line' = Append(line, l) /\ chip' = m /\ cmds' = cmds
  <2>1. PICK l \in {L!R!JOIN_FAILED, L!S!Error(99)} :
             line' = Append(line, l) /\ chip' = m /\ cmds' = cmds
    BY <1>9
  <2>2. l \in Lines /\ l \in {<<"JOIN_FAILED", 0>>, <<"ERROR", 99>>} /\ l # <<"JOINED", 0>>
    BY AirLines
  <2> QED BY <1>1, <1>6, <2>1, <2>2, AirFine
<1> QED BY <1>7, <1>8, <1>9

LEMMA SendEnds ==
  ASSUME World, Fine(ctx.state, L!Wire), L!ChipSent
  PROVE  L!Wire' \in Wires /\ Fine(ctx.state, L!Wire')
<1>1. chip.air # "join" /\ chip.air # L!None
  BY DEF L!ChipSent, L!None
<1>2. chip \in Chips /\ chip.joined
  BY <1>1, AirEnds
<1>3. PICK m : m = [chip EXCEPT !.air = L!None]
  OBVIOUS
<1>4. m \in Chips /\ m.air = L!None /\ m.joined
  BY <1>2, <1>3 DEF Chips
<1>5. \E l \in {L!R!ACK, L!R!NACK, L!S!Error(96), L!S!Error(97), L!S!Error(100)} :
          line' = Append(line, l) /\ chip' = m /\ cmds' = cmds
  BY <1>3 DEF L!ChipSent, L!Airs
<1>6. PICK l \in {L!R!ACK, L!R!NACK, L!S!Error(96), L!S!Error(97), L!S!Error(100)} :
          line' = Append(line, l) /\ chip' = m /\ cmds' = cmds
  BY <1>5
<1>7. l \in Lines /\ l[1] # "JOINED"
  BY AirLines
<1> QED BY <1>1, <1>4, <1>6, <1>7, AirFine

\* A line that answers nothing is added.
LEMMA LineAdded ==
  ASSUME World, Fine(ctx.state, L!Wire), NEW p, Grown(p, line),
         line' = p, cmds' = cmds,
         chip' \in Chips, chip'.joined = chip.joined, chip'.air = chip.air
  PROVE  L!Wire' \in Wires /\ Fine(ctx.state, L!Wire')
<1>1. PICK w : w = L!Wire
  OBVIOUS
<1>2. PICK v : v = L!Wire'
  OBVIOUS
<1>3. line \in Seq(Lines) /\ cmds \in Seq(Orders) /\ chip \in Chips
  BY DEF World, L!Wire, Wires
<1>4. w.line = line /\ w.cmds = cmds /\ w.chip = chip
  BY <1>1 DEF L!Wire
<1>5. v = [line |-> p, cmds |-> cmds, chip |-> chip']
  BY <1>2 DEF L!Wire
<1>6. /\ v.line = p /\ v.cmds = cmds
      /\ v.chip.joined = w.chip.joined /\ v.chip.air = w.chip.air
  BY <1>4, <1>5
<1>7. v \in Wires
  <2>1. p \in Seq(Lines)
    BY DEF Grown
  <2> QED BY <1>3, <1>5, <2>1, WireOf
<1>8. /\ Unclosed(line) => Unclosed(p)
      /\ \A i \in 1..Len(p) : p[i][1] = "JOINED" => i \in 1..Len(line) /\ p[i] = line[i]
      /\ (\A i, j \in 1..Len(line) : Closes(line[i]) /\ Closes(line[j]) => i = j) =>
             \A i, j \in 1..Len(p) : Closes(p[i]) /\ Closes(p[j]) => i = j
  BY <1>3, GrownAnswersNothing
<1>9. Single(w) => Single(v)
  BY <1>4, <1>6, <1>8 DEF Single
<1>10. Joins(w) => Joins(v)
  BY <1>4, <1>6 DEF Joins, Grown
<1>11. Upon(w) => Upon(v)
  BY <1>4, <1>6, <1>8 DEF Upon
<1>12. Nothing(w) => Nothing(v)
  BY <1>4, <1>6, <1>8 DEF Nothing
<1>13. Fine(ctx.state, w)
  BY <1>1
<1>14. Fine(ctx.state, v)
  BY <1>9, <1>10, <1>11, <1>12, <1>13 DEF Fine
<1> QED BY <1>2, <1>7, <1>14

LEMMA ServerSends ==
  ASSUME World, Fine(ctx.state, L!Wire), L!Downlink
  PROVE  L!Wire' \in Wires /\ Fine(ctx.state, L!Wire') /\ server' \in Seq(Downs)
<1>1. /\ server # <<>> /\ server' = Tail(server) /\ server \in Seq(Downs)
      /\ line' = Append(line, Head(server)) /\ cmds' = cmds /\ chip' = chip
      /\ line \in Seq(Lines)
  BY DEF L!Downlink, World, L!Wire, Wires
<1>2. PICK l : l = Head(server)
  OBVIOUS
<1>3. l \in Downs /\ server' \in Seq(Downs)
  BY <1>1, <1>2
<1>4. l \in Lines /\ ~Closes(l)
  BY <1>3 DEF Downs, Lines, LineWords, Closes
<1>5. PICK p : p = Append(line, l)
  OBVIOUS
<1>6. p \in Seq(Lines) /\ \A i \in 1..Len(p) : Closes(p[i]) => i \in 1..Len(line) /\ p[i] = line[i]
  BY <1>1, <1>4, <1>5
<1>7. Grown(p, line)
  BY <1>6 DEF Grown
<1>8. line' = p /\ cmds' = cmds /\ chip' = chip
  BY <1>1, <1>2, <1>5
<1>9. chip \in Chips
  BY DEF World, L!Wire, Wires
<1> QED BY <1>3, <1>7, <1>8, <1>9, LineAdded

LEMMA ChipComesUp ==
  ASSUME World, Fine(ctx.state, L!Wire), L!ChipBoots
  PROVE  L!Wire' \in Wires /\ Fine(ctx.state, L!Wire')
<1>1. line \in Seq(Lines) /\ chip \in Chips
  BY DEF World, L!Wire, Wires
<1>2. L!S!INIT = L!R!INIT
  BY DEF L!S!INIT, L!R!INIT
<1>3. PICK p : p = Append(line, L!R!INIT)
  OBVIOUS
<1>4. L!R!INIT \in Lines /\ ~Closes(L!R!INIT)
  BY DEF L!R!INIT, Lines, LineWords, Closes
<1>5. /\ p \in Seq(Lines)
      /\ \A i \in 1..Len(p) : Closes(p[i]) => i \in 1..Len(line) /\ p[i] = line[i]
  BY <1>1, <1>3, <1>4
<1>6. Grown(p, line)
  BY <1>5 DEF Grown
<1>7. PICK h : h = [chip EXCEPT !.boots = FALSE]
  OBVIOUS
<1>8. h \in Chips /\ h.joined = chip.joined /\ h.air = chip.air
  BY <1>1, <1>7 DEF Chips
<1>9. line' = p /\ cmds' = cmds /\ chip' = h
  BY <1>2, <1>3, <1>7 DEF L!ChipBoots
<1> QED BY <1>6, <1>8, <1>9, LineAdded

LEMMA LineLost ==
  ASSUME World, Fine(ctx.state, L!Wire), L!Lose
  PROVE  L!Wire' \in Wires /\ Fine(ctx.state, L!Wire') /\ server' \in Seq(Downs)
<1>1. L!Wire \in Wires /\ server \in Seq(Downs)
  BY DEF World
<1>2. cmds' = cmds /\ chip' = chip
  BY DEF L!Lose
<1>3. CASE line # <<>> /\ line' = Tail(line) /\ server' = server
  <2>1. PICK w : w = L!Wire
    OBVIOUS
  <2>2. PICK t : t = Tail(line)
    OBVIOUS
  <2>3. PICK v : v = [w EXCEPT !.line = t]
    OBVIOUS
  <2>4. w = [line |-> line, cmds |-> cmds, chip |-> chip]
    BY <2>1 DEF L!Wire
  <2>5. v = [line |-> t, cmds |-> cmds, chip |-> chip]
    BY <2>3, <2>4
  <2>6. L!Wire' = v
    BY <1>2, <1>3, <2>2, <2>5 DEF L!Wire
  <2>7. w.line = line /\ w \in Wires /\ Fine(ctx.state, w)
    BY <1>1, <2>1, <2>4
  <2>8. v = [w EXCEPT !.line = Tail(w.line)] /\ w.line # <<>>
    BY <1>3, <2>2, <2>3, <2>7
  <2>9. v \in Wires /\ Fine(ctx.state, v)
    BY <2>7, <2>8, Heard
  <2> QED BY <1>1, <1>3, <2>6, <2>9
<1>4. CASE /\ \E n \in 1..Len(server) : server' = SubSeq(server, n + 1, Len(server))
           /\ line' = line
  <2>1. L!Wire' = L!Wire
    BY <1>2, <1>4 DEF L!Wire
  <2>2. server' \in Seq(Downs)
    BY <1>1, <1>4
  <2> QED BY <1>1, <2>1, <2>2
<1> QED BY <1>3, <1>4 DEF L!Lose

\* A step in which the driver has no part.
LEMMA AtRestStays ==
  ASSUME AtRest(ctx), ctx' = ctx, kind' = kind
  PROVE  AtRest(ctx)'
BY DEF AtRest, Sound, L!Is3172

LEMMA WorldStays ==
  ASSUME AtRest(ctx), ctx' = ctx, kind' = kind, server' \in Seq(Downs),
         L!Wire' \in Wires, Fine(ctx.state, L!Wire')
  PROVE  AtRest(ctx)' /\ World' /\ Fine(ctx.state, L!Wire)' /\ kind' = kind
<1>1. Fine(ctx.state, L!Wire)'
  <2>1. ctx.state' = ctx.state
    OBVIOUS
  <2> QED BY <2>1 DEF Fine, Single, Joins, Upon, Nothing
<1>2. World'
  BY DEF World
<1> QED BY <1>1, <1>2, AtRestStays

LEMMA LoraChipSteps ==
  ASSUME AtRest(ctx), World, Fine(ctx.state, L!Wire),
         L!Chip \/ L!ChipJoined \/ L!ChipSent
  PROVE  AtRest(ctx)' /\ World' /\ Fine(ctx.state, L!Wire)' /\ kind' = kind
<1>1. L!Wire' \in Wires /\ Fine(ctx.state, L!Wire')
  BY ChipComesUp, ChipPlain, ChipJoins, ChipSends, JoinEnds, SendEnds DEF L!Chip
<1>2. ctx' = ctx /\ kind' = kind /\ server' = server
  BY DEF L!Chip, L!ChipJoined, L!ChipSent, L!Airs
<1>3. server' \in Seq(Downs)
  BY <1>2 DEF World
<1> QED BY <1>1, <1>2, <1>3, WorldStays

\* What is left out: a fault that is none of those looked at.
LEMMA FaultsStay ==
  ASSUME L!Next
  PROVE  /\ faults.had \subseteq faults'.had
         /\ faults'.had \subseteq Fair =>
               \/ L!Hear \/ L!Resume \/ L!TimerFires
               \/ L!MeasOffline \/ L!MeasBusy \/ L!MeasSend
               \/ L!Chip \/ L!ChipJoined \/ L!ChipSent \/ L!Downlink \/ L!Lose
<1>1. \A f : L!Fault(f) => faults.had \subseteq faults'.had /\ f \in faults'.had
  BY DEF L!Fault
<1>2. CASE L!Hear \/ L!MeasOffline \/ L!MeasBusy \/ L!MeasSend \/ L!Chip \/ L!Downlink
  <2>1. faults' = faults
    BY <1>2 DEF L!Hear, L!MeasOffline, L!MeasBusy, L!MeasSend, L!Chip, L!Downlink
  <2> QED BY <1>2, <2>1
<1>3. CASE L!Resume \/ L!TimerFires \/ L!ChipJoined \/ L!ChipSent \/ L!Lose
  <2>1. faults' = faults \/ \E f : L!Fault(f)
    BY <1>3, Zenon DEF L!Resume, L!TimerFires, L!ChipJoined, L!ChipSent, L!Lose
  <2> QED BY <1>1, <1>3, <2>1
<1>4. CASE \/ L!ChipFails
           \/ \E cmd \in {"CMD restart", "CMD connect", "CCMD region", "CCMD nonsense"} :
                  L!Remote(cmd)
           \/ \E cmd \in L!Commands \cup {"restart", "connect", "test"} : L!Command(cmd)
  <2>1. L!Fault("error") \/ L!Fault("cmd")
    BY <1>4 DEF L!ChipFails, L!Remote, L!Command
  <2>2. "error" \notin Fair /\ "cmd" \notin Fair
    BY DEF Fair
  <2>3. faults.had \subseteq faults'.had /\ ~(faults'.had \subseteq Fair)
    BY <1>1, <2>1, <2>2
  <2> QED BY <2>3
<1> QED BY <1>2, <1>3, <1>4 DEF L!Next

LEMMA JoinKept ==
  ASSUME JoinInv, [ModemNext]_modemVars
  PROVE  JoinInv'
<1>1. CASE IsAt /\ A!Next
  BY <1>1, AtKind DEF IsAt, JoinInv, IsLora
<1>2. CASE IsLora /\ L!Next
  <2> SUFFICES ASSUME IsLora', faults'.had \subseteq Fair
               PROVE  AtRest(ctx)' /\ World' /\ Fine(ctx.state, L!Wire)'
    BY DEF JoinInv
  <2>1. AtRest(ctx) /\ World /\ Fine(ctx.state, L!Wire)
    BY <1>2, FaultsStay DEF JoinInv
  <2>2. CASE L!Hear
    BY <1>2, <2>1, <2>2, LoraHears
  <2>3. CASE L!Resume
    BY <1>2, <2>1, <2>3, LoraWakes
  <2>4. CASE L!TimerFires
    BY <1>2, <2>1, <2>4, LoraTimesOut
  <2>5. CASE L!MeasOffline
    <3>1. /\ ctx' = ctx /\ kind' = kind /\ server' = server
          /\ line' = line /\ cmds' = cmds /\ chip' = chip
      BY <2>5 DEF L!MeasOffline
    <3>2. L!Wire' = L!Wire
      BY <3>1 DEF L!Wire
    <3>3. server' \in Seq(Downs) /\ L!Wire' \in Wires /\ Fine(ctx.state, L!Wire')
      BY <2>1, <3>1, <3>2 DEF World
    <3> QED BY <2>1, <3>1, <3>3, WorldStays
  <2>6. CASE L!MeasBusy \/ L!MeasSend
    BY <1>2, <2>1, <2>6, LoraMeasures
  <2>7. CASE L!Chip \/ L!ChipJoined \/ L!ChipSent
    BY <2>1, <2>7, LoraChipSteps
  <2>8. CASE L!Downlink \/ L!Lose
    <3>1. L!Wire' \in Wires /\ Fine(ctx.state, L!Wire') /\ server' \in Seq(Downs)
      BY <2>1, <2>8, ServerSends, LineLost
    <3>2. ctx' = ctx /\ kind' = kind
      BY <2>8 DEF L!Downlink, L!Lose
    <3> QED BY <2>1, <3>1, <3>2, WorldStays
  <2>9. \/ L!Hear \/ L!Resume \/ L!TimerFires
        \/ L!MeasOffline \/ L!MeasBusy \/ L!MeasSend
        \/ L!Chip \/ L!ChipJoined \/ L!ChipSent \/ L!Downlink \/ L!Lose
    BY <1>2, FaultsStay
  <2> QED BY <2>2, <2>3, <2>4, <2>5, <2>6, <2>7, <2>8, <2>9
<1>3. CASE UNCHANGED modemVars
  <2>1. /\ kind' = kind /\ ctx' = ctx /\ line' = line /\ cmds' = cmds /\ chip' = chip
        /\ server' = server /\ faults' = faults
    BY <1>3 DEF modemVars
  <2> SUFFICES ASSUME IsLora', faults'.had \subseteq Fair
               PROVE  AtRest(ctx)' /\ World' /\ Fine(ctx.state, L!Wire)'
    BY DEF JoinInv
  <2>2. AtRest(ctx) /\ World /\ Fine(ctx.state, L!Wire)
    BY <2>1 DEF JoinInv, IsLora
  <2>3. L!Wire' = L!Wire
    BY <2>1 DEF L!Wire
  <2>4. server' \in Seq(Downs) /\ L!Wire' \in Wires /\ Fine(ctx.state, L!Wire')
    BY <2>1, <2>2, <2>3 DEF World
  <2> QED BY <2>1, <2>2, <2>4, WorldStays
<1> QED BY <1>1, <1>2, <1>3 DEF ModemNext

-----------------------------------------------------------------------------
\* What holds of 0, and of n + 1 when it holds of n, up to a number.
LEMMA UpTo ==
  ASSUME NEW N \in Nat, NEW Q, 0 \in Q,
         \A n \in 0..N : n \in Q /\ n < N => n + 1 \in Q
  PROVE  N \in Q
<1> SUFFICES ASSUME N \notin Q PROVE FALSE
  OBVIOUS
<1> DEFINE T == {n \in 0..N : n \notin Q}
<1>1. T \subseteq Nat /\ T # {}
  OBVIOUS
<1>2. \E x \in T : \A y \in T : ~(<<y, x>> \in OpToRel(<, Nat))
  BY <1>1, NatLessThanWellFounded, WFMin, Zenon
<1>3. PICK x \in T : \A y \in T : ~(<<y, x>> \in OpToRel(<, Nat))
  BY <1>2
<1>4. \A y \in T : ~(y < x)
  BY <1>1, <1>3, Zenon DEF OpToRel
<1>5. x \in 0..N /\ x # 0 /\ x \notin Q
  OBVIOUS
<1>6. x - 1 \in 0..N /\ x - 1 < x /\ x - 1 < N
  BY <1>5
<1>7. x - 1 \in Q
  BY <1>4, <1>6
<1>8. (x - 1) + 1 \in Q
  BY <1>6, <1>7
<1> QED BY <1>5, <1>8

\* What the server sends is made of downlinks.
LEMMA DownloadSent ==
  ASSUME Chunks \in Nat
  PROVE  L!Download \in Seq(Downs)
<1> DEFINE Both(k) == L!Twice(<<"FW+", k - 1>>)
<1>1. \A k \in Nat : k # 0 => Both(k) \in Seq(Downs)
  BY DEF L!Twice, Downs
<1>2. \E h : h = [k \in 0..Chunks |-> IF k = 0 THEN <<>> ELSE h[k - 1] \o Both(k)]
  <2> DEFINE P(k) == [i \in 1..2 * k |-> <<"FW+", ((i + 1) \div 2) - 1>>]
  <2>1. PICK f : f = [k \in 0..Chunks |-> P(k)]
    OBVIOUS
  <2>2. P(0) = <<>>
    OBVIOUS
  <2>3. \A k \in 1..Chunks : P(k) = P(k - 1) \o Both(k)
    <3> TAKE k \in 1..Chunks
    <3>1. PICK a : a = P(k - 1)
      OBVIOUS
    <3>2. PICK x : x = <<"FW+", k - 1>>
      OBVIOUS
    <3>3. a \in Seq({"FW+"} \X Int) /\ Len(a) = 2 * k - 2
      BY <3>1
    <3>4. x \in {"FW+"} \X Int
      BY <3>2
    <3>5. PICK b : b = a \o <<x, x>>
      OBVIOUS
    <3>6. /\ b \in Seq({"FW+"} \X Int) /\ Len(b) = 2 * k
          /\ \A i \in 1..2 * k : b[i] = IF i <= 2 * k - 2 THEN a[i] ELSE x
      BY <3>3, <3>4, <3>5
    <3>7. \A i \in 1..2 * k : b[i] = <<"FW+", ((i + 1) \div 2) - 1>>
      <4> TAKE i \in 1..2 * k
      <4>1. CASE i <= 2 * k - 2
        BY <3>1, <3>6, <4>1
      <4>2. CASE i > 2 * k - 2
        <5>1. (i + 1) \div 2 = k
          BY <4>2
        <5> QED BY <3>2, <3>6, <4>2, <5>1
      <4> QED BY <4>1, <4>2
    <3>8. b = [i \in 1..2 * k |-> b[i]]
      BY <3>6
    <3>9. b = P(k)
      BY <3>7, <3>8
    <3> QED BY <3>1, <3>2, <3>5, <3>9 DEF L!Twice
  <2>4. f = [k \in 0..Chunks |-> IF k = 0 THEN <<>> ELSE f[k - 1] \o Both(k)]
    <3>1. \A k \in 0..Chunks : P(k) = IF k = 0 THEN <<>> ELSE f[k - 1] \o Both(k)
      <4> HIDE DEF P, Both
      <4> TAKE k \in 0..Chunks
      <4>1. CASE k = 0
        BY <2>2, <4>1
      <4>2. CASE k # 0
        <5>1. k \in 1..Chunks /\ k - 1 \in 0..Chunks
          BY <4>2
        <5>2. f[k - 1] = P(k - 1)
          BY <2>1, <5>1
        <5> QED BY <2>3, <4>2, <5>1, <5>2
      <4> QED BY <4>1, <4>2
    <3> HIDE DEF P, Both
    <3> QED BY <2>1, <3>1, Zenon
  <2> HIDE DEF Both
  <2> QED BY <2>4, Zenon
<1>3. PICK g : g = CHOOSE h : h = [k \in 0..Chunks |->
                    IF k = 0 THEN <<>> ELSE h[k - 1] \o L!Twice(<<"FW+", k - 1>>)]
  OBVIOUS
<1>4. g = [k \in 0..Chunks |-> IF k = 0 THEN <<>> ELSE g[k - 1] \o Both(k)]
  BY <1>2, <1>3, Zenon
<1>5. g[Chunks] \in Seq(Downs)
  <2> DEFINE Q == {k \in 0..Chunks : g[k] \in Seq(Downs)}
  <2> HIDE DEF Both
  <2>1. 0 \in Q
    BY <1>4
  <2>2. \A n \in 0..Chunks : n \in Q /\ n < Chunks => n + 1 \in Q
    <3> SUFFICES ASSUME NEW n \in 0..Chunks, n \in Q, n < Chunks
                 PROVE  n + 1 \in Q
      OBVIOUS
    <3>1. n + 1 \in 0..Chunks /\ n + 1 # 0 /\ (n + 1) - 1 = n /\ n + 1 \in Nat
      OBVIOUS
    <3>2. g[n + 1] = g[n] \o Both(n + 1)
      BY <1>4, <3>1
    <3>3. g[n] \in Seq(Downs) /\ Both(n + 1) \in Seq(Downs)
      BY <1>1, <3>1
    <3>4. g[n + 1] \in Seq(Downs)
      BY <3>2, <3>3
    <3> QED BY <3>1, <3>4
  <2>3. Chunks \in Q
    <3> HIDE DEF Q
    <3> QED BY <2>1, <2>2, UpTo
  <2> QED BY <2>3
<1>6. L!Twice(<<"FW-", 0>>) \in Seq(Downs) /\ L!Twice(<<"FW@", 0>>) \in Seq(Downs)
  BY DEF L!Twice, Downs
<1>7. L!Download = L!Twice(<<"FW-", 0>>) \o g[Chunks] \o L!Twice(<<"FW@", 0>>)
  BY <1>3 DEF L!Download
<1> QED BY <1>5, <1>6, <1>7

LEMMA JoinBegins ==
  ASSUME ModemInit
  PROVE  JoinInv
<1>1. CASE A!Init
  BY <1>1 DEF A!Init, JoinInv, IsLora
<1>2. CASE L!Init
  <2>1. PICK s \in L!Configs : ctx = [(IF L!Is3172 THEN L!R!Start(s) ELSE L!S!Start(s))
                                      EXCEPT !.out = <<>>]
    BY <1>2 DEF L!Init
  <2>2. /\ line = IF L!Is3172 THEN <<L!R!INIT>> ELSE <<>>
        /\ chip \in {L!ChipOff, L!ChipBooted, L!ChipBooting}
        /\ cmds = <<>> /\ server \in {<<>>, L!Download}
    BY <1>2 DEF L!Init
  <2>3. server \in Seq(Downs)
    <3>1. Chunks \in Nat
      BY ModemsAssumption DEF L!LoraAssumption
    <3>2. <<>> \in Seq(Downs) /\ L!Download \in Seq(Downs)
      BY <3>1, DownloadSent
    <3> QED BY <2>2, <3>2
  <2>4. PICK w : w = L!Wire
    OBVIOUS
  <2>5. w = [line |-> line, cmds |-> <<>>, chip |-> chip]
    BY <2>2, <2>4 DEF L!Wire
  <2>6. line \in Seq(Lines) /\ Unclosed(line)
    BY <2>2 DEF L!R!INIT, Lines, LineWords, Unclosed, Closes
  <2>7. chip \in Chips /\ chip.air = L!None
    BY <2>2, ChipKinds
  <2>8. w \in Wires
    <3>1. <<>> \in Seq(Orders)
      OBVIOUS
    <3> QED BY <2>5, <2>6, <2>7, <3>1, WireOf
  <2>9. Nothing(w)
    BY <2>5, <2>6, <2>7 DEF Nothing, Unopened
  <2>10. AtRest(ctx) /\ ctx.state \in {"OFF", "WAIT_INIT", "UNCONFIGURED"}
    <3>1. PICK d : d = IF L!Is3172 THEN L!R!Start(s) ELSE L!S!Start(s)
      OBVIOUS
    <3>2. /\ Sound(d) /\ d.ack = L!None
          /\ d.state \in {"OFF", "WAIT_INIT", "UNCONFIGURED"}
      <4>1. CASE L!Is3172
        <5>1. d = L!R!Start(s)
          BY <3>1, <4>1
        <5> QED BY <4>1, <5>1 DEF L!R!Start, Sound, L!R!States, L!R!None, L!None
      <4>2. CASE ~L!Is3172
        <5>1. PICK c : c = [state |-> "OFF", init |-> 0, resend |-> 0, backup |-> L!None,
                            settings |-> s, next |-> 0, fw |-> <<>>, done |-> FALSE,
                            nest |-> <<>>, out |-> <<>>, ack |-> L!None,
                            silent |-> FALSE, resets |-> 0, slow |-> FALSE]
          OBVIOUS
        <5>2. d = IF L!S!IsValid(s) THEN L!S!ChipOn(c) ELSE [c EXCEPT !.state = "UNCONFIGURED"]
          <6>1. d = L!S!Start(s)
            BY <3>1, <4>2
          <6> QED BY <5>1, <6>1 DEF L!S!Start, L!S!None, L!None
        <5>3. CASE d = [c EXCEPT !.state = "UNCONFIGURED"]
          BY <4>2, <5>1, <5>3 DEF Sound, L!S!States
        <5>4. CASE d = L!S!ChipOn(c)
          <6>1. PICK e : e = [c EXCEPT !.state = "WAIT_INIT", !.init = 0]
            OBVIOUS
          <6>2. d = [e EXCEPT !.out = Append(@, L!S!PowerOn)]
            BY <5>4, <6>1 DEF L!S!ChipOn, L!S!Switch
          <6>3. /\ Sound(e) /\ e.ack = L!None /\ e.state = "WAIT_INIT"
            BY <4>2, <5>1, <6>1 DEF Sound, L!S!States
          <6> QED BY <6>2, <6>3 DEF Sound
        <5> QED BY <5>2, <5>3, <5>4
      <4> QED BY <4>1, <4>2
    <3>3. ctx = [d EXCEPT !.out = <<>>]
      BY <2>1, <3>1
    <3> QED BY <3>2, <3>3 DEF AtRest, Sound
  <2>11. Fine(ctx.state, w)
    <3>1. ctx.state \notin Joining \cup On
      BY <2>10 DEF Joining, On, Sending
    <3> QED BY <2>8, <2>9, <3>1, NothingSingle, StateClasses DEF Fine
  <2> QED BY <2>3, <2>4, <2>8, <2>10, <2>11 DEF JoinInv, World
<1> QED BY <1>1, <1>2 DEF ModemInit

\* A LoRaWAN driver that takes itself for connected has a modem that has joined,
\* whatever number of lines is lost, joins and messages fail and messages find
\* the ring full: the LoRaWAN part of ReadyIsReal that is not about types.
THEOREM ModemsConnectedHasJoined ==
  ModemSpec => [](IsLora => L!ConnectedIsJoined)
<1>1. JoinInv => (IsLora => L!ConnectedIsJoined)
  <2> SUFFICES ASSUME JoinInv, IsLora, L!Connected(ctx), faults.had \subseteq Fair
               PROVE  chip.joined
    BY DEF L!ConnectedIsJoined, Fair
  <2>1. AtRest(ctx) /\ Fine(ctx.state, L!Wire)
    BY DEF JoinInv
  <2>2. ctx.state \in On
    BY DEF L!Connected, L!R!Connected, L!S!Connected, On, Sending
  <2>3. Upon(L!Wire)
    BY <2>1, <2>2 DEF Fine
  <2> QED BY <2>3 DEF Upon, L!Wire
<1>2. ModemSpec => []JoinInv
  BY JoinBegins, JoinKept, PTL DEF ModemSpec
<1> QED BY <1>1, <1>2, PTL
-----------------------------------------------------------------------------
(* Update.                                                                 *)

Calm == {"again", "tear"} \cap Faults = {}

Flags == 1 .. Max

\* What is known of an image that is, or will be, flagged with the size n.
Safe(n) ==
    n \in Flags => ready # None /\ Len(ready) = n /\ Holds(staged, ready)

AppKnown == Holds(app, ran) \/ (ready # None /\ Holds(app, ready))

Types ==
    /\ flag \in 0 .. Max \cup {Erased}
    /\ pending \in 0 .. Max
    /\ ready \in Images \cup {None} /\ crc \in Images \cup {None}
    /\ saving \in [to : 0 .. Max, erased : BOOLEAN] \cup {None}

\* The configuration page is written with no flag, or with that in RAM.
SaveInv ==
    saving # None => \/ mode \in {"run", "start"} /\ saving.to = 0
                     \/ mode = "run" /\ saving.to = pending

\* The staged image changes only while nothing is flagged, the other only
\* while something is.
WriteInv ==
    writing # None =>
        /\ saving = None
        /\ "area" \in DOMAIN writing
        /\ \/ /\ mode = "run" /\ writing.area = "staged"
              /\ pending = 0 /\ flag \notin Flags
           \/ mode = "copy" /\ writing.area = "app" /\ flag \in Flags

RunInv ==
    mode = "run" =>
        /\ Holds(app, ran)
        /\ pending = 0 => flag \notin Flags \/ (saving # None /\ saving.to = 0)
        /\ pos >= 0 \/ crc # None => pending = 0

BootInv ==
    /\ mode = "start" => AppKnown /\ (saving # None \/ flag \notin Flags)
    /\ mode = "copy" => flag \in Flags /\ saving = None
    /\ flag \notin Flags => AppKnown

Inv == Types /\ Safe(flag) /\ Safe(pending) /\ SaveInv /\ WriteInv
        /\ RunInv /\ BootInv

-----------------------------------------------------------------------------
LEMMA MaxType == Max \in Nat
BY UpdateAssumption DEF Max

LEMMA FlagsType ==
    /\ 0 \in 0 .. Max /\ 0 \notin Flags
    /\ Erased \notin 0 .. Max /\ Erased \notin Flags
    /\ Flags \subseteq 0 .. Max
BY MaxType, UpdateAssumption DEF Flags

LEMMA CommitType ==
    ASSUME NEW f \in 0 .. Max
    PROVE  /\ Commit(f) \in [to : 0 .. Max, erased : BOOLEAN]
           /\ Commit(f) # None /\ Commit(f).to = f
<1>1. Commit(f) \in [to : 0 .. Max, erased : BOOLEAN]
  BY DEF Commit
<1> QED BY <1>1, UpdateAssumption DEF Commit

\* An image begins with a byte, so that it is not taken for none.
LEMMA ImageType ==
    ASSUME NEW image \in Images
    PROVE  /\ image # None
           /\ Len(image) \in Flags
           /\ image[1] # Erased
<1>1. image \in Image /\ None \notin Image
  BY UpdateAssumption
<1>2. PICK n \in 1 .. Max : image \in [1 .. n -> Byte]
  BY <1>1 DEF Image
<1>3. n \in Nat /\ 1 \in 1 .. n
  BY MaxType
<1>4. image \in Seq(Byte) /\ Len(image) = n
  BY <1>2, <1>3
<1>5. image[1] \in Byte
  BY <1>2, <1>3
<1> QED BY <1>1, <1>4, <1>5, UpdateAssumption DEF Flags

LEMMA InitInv == Init => Inv
<1> SUFFICES ASSUME Init PROVE Inv
  OBVIOUS
<1>1. Types /\ flag \notin Flags /\ pending \notin Flags
  BY FlagsType DEF Init, Types
<1>2. Holds(app, ran)
  <2> SUFFICES ASSUME NEW k \in 1 .. Len(Old) PROVE app[k - 1] = Old[k]
    BY DEF Init, Holds
  <2>1. PICK n \in 1 .. Max : Old \in [1 .. n -> Byte]
    BY UpdateAssumption DEF Image
  <2>2. n \in Nat /\ Len(Old) = n
    BY <2>1, MaxType
  <2>3. k - 1 \in Addr /\ k - 1 < Len(Old) /\ (k - 1) + 1 = k
    BY <2>2, MaxType DEF Addr
  <2> QED BY <2>3 DEF Init
<1> QED BY <1>1, <1>2
        DEF Init, Inv, Safe, SaveInv, WriteInv, RunInv, BootInv, AppKnown
-----------------------------------------------------------------------------
(* Steps.  Flash that stays as it is keeps its images.                     *)

LEMMA Stopped ==
    ASSUME Inv, NEW to \in {"boot", "error"}, Stop(to),
           UNCHANGED <<flashVars, knownVars>>
    PROVE  Inv'
<1>1. Types' /\ Safe(flag)' /\ Safe(pending)'
  BY FlagsType DEF Inv, Types, Safe, Stop, flashVars, knownVars
<1>2. SaveInv' /\ WriteInv' /\ RunInv'
  BY DEF Stop, SaveInv, WriteInv, RunInv
<1>3. AppKnown' = AppKnown
  BY DEF AppKnown, flashVars, knownVars
<1>4. BootInv'
  BY <1>3 DEF Inv, Stop, BootInv, flashVars
<1> QED BY <1>1, <1>2, <1>4 DEF Inv

LEMMA WriteStepInv == Inv /\ WriteStep => Inv'
<1> SUFFICES ASSUME Inv, WriteStep PROVE Inv'
  OBVIOUS
<1> USE DEF WriteStep, knownVars
<1>1. /\ saving = None
      /\ \/ /\ mode = "run" /\ writing.area = "staged" /\ UNCHANGED app
            /\ pending = 0 /\ flag \notin Flags
         \/ /\ mode = "copy" /\ writing.area = "app" /\ UNCHANGED staged
            /\ flag \in Flags
  BY DEF Inv, WriteInv
<1>2. Types'
  BY DEF Inv, Types
<1>3. Safe(flag)' /\ Safe(pending)'
  BY <1>1, FlagsType DEF Inv, Safe
<1>4. SaveInv'
  BY <1>1 DEF SaveInv
<1>5. WriteInv'
  <2>1. "area" \in DOMAIN writing
    BY DEF Inv, WriteInv
  <2>2. CASE writing' = [writing EXCEPT !.done = @ + 1]
    BY <1>1, <2>1, <2>2 DEF WriteInv
  <2>3. CASE writing' = None
    BY <2>3 DEF WriteInv
  <2> QED BY <2>2, <2>3
<1>6. RunInv'
  BY <1>1 DEF Inv, RunInv
<1>7. BootInv'
  BY <1>1 DEF Inv, RunInv, BootInv, AppKnown
<1> QED BY <1>2, <1>3, <1>4, <1>5, <1>6, <1>7 DEF Inv

LEMMA SaveInvStep == Inv /\ (SaveErase \/ SaveEnd) => Inv'
<1> SUFFICES ASSUME Inv, SaveErase \/ SaveEnd PROVE Inv'
  OBVIOUS
<1> USE DEF ramVars, knownVars
<1>1. saving # None /\ writing = None
  BY DEF SaveErase, SaveEnd, Inv, WriteInv
<1>2. \/ mode \in {"run", "start"} /\ saving.to = 0
      \/ mode = "run" /\ saving.to = pending
  BY <1>1 DEF Inv, SaveInv
<1>3. saving \in [to : 0 .. Max, erased : BOOLEAN]
  BY <1>1 DEF Inv, Types
<1>4. AppKnown
  BY <1>2 DEF Inv, RunInv, BootInv, AppKnown
<1>5. CASE SaveErase
  <2>1. flag' \notin Flags /\ flag' \in 0 .. Max \cup {Erased}
    BY <1>5, FlagsType DEF SaveErase
  <2>2. /\ saving' \in [to : 0 .. Max, erased : BOOLEAN]
        /\ saving'.to = saving.to /\ saving' # None
    BY <1>3, <1>5, UpdateAssumption DEF SaveErase
  <2>3. Types' /\ Safe(flag)' /\ Safe(pending)'
    BY <1>5, <2>1, <2>2 DEF SaveErase, Inv, Types, Safe
  <2>4. SaveInv' /\ WriteInv'
    BY <1>1, <1>2, <1>5, <2>2 DEF SaveErase, SaveInv, WriteInv
  <2>5. RunInv' /\ BootInv'
    BY <1>2, <1>4, <1>5, <2>1, <2>2
       DEF SaveErase, Inv, RunInv, BootInv, AppKnown
  <2> QED BY <2>3, <2>4, <2>5 DEF Inv
<1>6. CASE SaveEnd
  <2>1. flag' = 0 \/ (mode = "run" /\ flag' = pending)
    BY <1>2, <1>6 DEF SaveEnd
  <2>2. Types' /\ Safe(flag)' /\ Safe(pending)'
    BY <1>3, <1>6, <2>1, FlagsType DEF SaveEnd, Inv, Types, Safe
  <2>3. SaveInv' /\ WriteInv'
    BY <1>1, <1>6 DEF SaveEnd, SaveInv, WriteInv
  <2>4. RunInv' /\ BootInv'
    BY <1>2, <1>4, <1>6, <2>1, FlagsType
       DEF SaveEnd, Inv, RunInv, BootInv, AppKnown
  <2> QED BY <2>2, <2>3, <2>4 DEF Inv
<1> QED BY <1>5, <1>6

LEMMA FaultsInv ==
    ASSUME Calm, Inv, WriteFails \/ ErrorState \/ PowerLoss
    PROVE  Inv'
<1>1. CASE PowerLoss
  BY <1>1, Stopped DEF PowerLoss, Calm, flashVars
<1>2. CASE ErrorState
  BY <1>2, Stopped DEF ErrorState
<1>3. CASE WriteFails /\ mode # "run"
  BY <1>3, Stopped DEF WriteFails
<1>4. CASE WriteFails /\ mode = "run"
  BY <1>4 DEF WriteFails, flashVars, knownVars, Inv, Types, Safe, SaveInv,
              WriteInv, RunInv, BootInv, AppKnown
<1> QED BY <1>1, <1>2, <1>3, <1>4

\* Commands and messages that change no flash and flag nothing.
LEMMA ChunksInv ==
    ASSUME Inv,
           \/ \E b \in Byte : FwAdd(b)
           \/ AddTooBig \/ LwStart
           \/ \E id \in 0 .. MaxChunks - 1, s \in Chunk : LwChunk(id, s)
    PROVE  Inv'
<1>1. /\ mode = "run"
      /\ UNCHANGED <<mode, flashVars, jobVars, pending, crc, knownVars>>
      /\ pos' = pos \/ pos' = -1
  BY DEF FwAdd, AddTooBig, LwStart, LwChunk, Idle, Adding
<1> QED BY <1>1 DEF flashVars, jobVars, knownVars, Inv, Types, Safe, SaveInv,
                    WriteInv, RunInv, BootInv, AppKnown

LEMMA AddFirstInv == Inv /\ AddFirst => Inv'
<1> SUFFICES ASSUME Inv, AddFirst PROVE Inv'
  OBVIOUS
<1> USE DEF flashVars, knownVars
<1>1. mode = "run" /\ writing = None /\ saving = None
  BY DEF AddFirst, Adding, Quiet
<1>2. (saving' = None /\ flag = 0) \/ saving' = Commit(0)
  BY Zenon DEF AddFirst, CommitChange
<1>3. /\ saving' \in [to : 0 .. Max, erased : BOOLEAN] \cup {None}
      /\ saving' # None => saving'.to = 0
      /\ flag \notin Flags \/ saving' # None
  BY <1>2, CommitType, FlagsType
<1>4. Types' /\ Safe(flag)' /\ Safe(pending)'
  BY <1>3, FlagsType DEF AddFirst, Inv, Types, Safe
<1>5. SaveInv' /\ WriteInv'
  BY <1>1, <1>3 DEF AddFirst, SaveInv, WriteInv
<1>6. RunInv' /\ BootInv'
  BY <1>1, <1>3 DEF AddFirst, Inv, RunInv, BootInv, AppKnown
<1> QED BY <1>4, <1>5, <1>6 DEF Inv

\* A page of the staged image is written only when nothing is flagged.
Staging ==
    /\ mode = "run" /\ saving = None /\ pending = 0 /\ flag \notin Flags
    /\ \/ writing' = None
       \/ "area" \in DOMAIN writing' /\ writing'.area = "staged"
    /\ crc' \in Images \cup {None}
    /\ UNCHANGED <<mode, flashVars, saving, pending, knownVars>>

LEMMA StagingInv == Inv /\ Staging => Inv'
<1> SUFFICES ASSUME Inv, Staging PROVE Inv'
  OBVIOUS
<1> USE DEF Staging, flashVars, knownVars
<1>1. Types' /\ Safe(flag)' /\ Safe(pending)'
  BY DEF Inv, Types, Safe
<1>2. SaveInv' /\ WriteInv'
  BY DEF SaveInv, WriteInv
<1>3. RunInv' /\ BootInv'
  BY DEF Inv, RunInv, BootInv, AppKnown
<1> QED BY <1>1, <1>2, <1>3 DEF Inv

LEMMA AddByteInv == Inv /\ AddByte => Inv'
<1> SUFFICES ASSUME Inv, AddByte PROVE Inv'
  OBVIOUS
<1>1. mode = "run" /\ saving = None /\ pos >= 0
  BY DEF AddByte, Adding, Quiet
<1>2. pending = 0 /\ flag \notin Flags
  BY <1>1 DEF Inv, RunInv
<1>3. \/ writing' = None
      \/ "area" \in DOMAIN writing' /\ writing'.area = "staged"
  BY DEF AddByte, Rewrite
<1>4. /\ UNCHANGED <<mode, flashVars, saving, pending, knownVars>>
      /\ crc' \in Images \cup {None}
  BY DEF AddByte, Inv, Types
<1> QED BY <1>1, <1>2, <1>3, <1>4, StagingInv DEF Staging

LEMMA FinishInv ==
    ASSUME Calm, Inv, NEW image \in Images, FwFin(image) \/ LwComplete(image)
    PROVE  Inv'
<1>1. /\ mode = "run" /\ saving = None /\ Finish(image)
      /\ UNCHANGED <<mode, flashVars, saving, pos, pending, knownVars>>
  BY DEF FwFin, LwComplete, Idle, Quiet
<1>2. crc' \in Images \cup {None} /\ (pos >= 0 \/ pending = 0)
  BY <1>1 DEF Finish, Calm
<1>3. pending = 0 /\ flag \notin Flags
  BY <1>1, <1>2 DEF Inv, RunInv
<1>4. \/ writing' = None
      \/ "area" \in DOMAIN writing' /\ writing'.area = "staged"
  BY <1>1 DEF Finish, Rewrite
<1> QED BY <1>1, <1>2, <1>3, <1>4, StagingInv DEF Staging

LEMMA AcceptInv == Inv /\ Accept => Inv'
<1> SUFFICES ASSUME Inv, Accept PROVE Inv'
  OBVIOUS
<1> USE DEF flashVars
<1>1. /\ mode = "run" /\ saving = None /\ writing = None
      /\ crc \in Images /\ pos = Len(crc) /\ Holds(staged, crc)
  BY DEF Accept, Checking, Quiet, CrcRight, Inv, Types
<1>2. flag \notin Flags /\ Holds(app, ran)
  BY <1>1 DEF Accept, Checking, Inv, RunInv
<1>3. pos \in Flags /\ pos \in 0 .. Max /\ crc # None
  BY <1>1, ImageType, FlagsType
<1>4. (saving' = None /\ flag = pos) \/ saving' = Commit(pos)
  BY Zenon DEF Accept, CommitChange
<1>5. /\ saving' \in [to : 0 .. Max, erased : BOOLEAN] \cup {None}
      /\ saving' # None => saving'.to = pos
  BY <1>3, <1>4, CommitType
<1>6. Types' /\ Safe(flag)' /\ Safe(pending)'
  BY <1>1, <1>2, <1>3, <1>5 DEF Accept, Inv, Types, Safe
<1>7. SaveInv' /\ WriteInv'
  BY <1>1, <1>5 DEF Accept, SaveInv, WriteInv
<1>8. RunInv' /\ BootInv'
  BY <1>1, <1>2, <1>3 DEF Accept, RunInv, BootInv, AppKnown
<1> QED BY <1>6, <1>7, <1>8 DEF Inv

LEMMA RejectInv == Inv /\ Reject => Inv'
BY DEF Reject, Checking, flashVars, jobVars, knownVars, Inv, Types, Safe,
       SaveInv, WriteInv, RunInv, BootInv, AppKnown

LEMMA SaveStepInv == Inv /\ Save => Inv'
<1> SUFFICES ASSUME Inv, Save PROVE Inv'
  OBVIOUS
<1>1. mode = "run" /\ writing = None /\ saving' = Commit(pending)
  BY DEF Save, Idle, Quiet
<1>2. /\ saving' \in [to : 0 .. Max, erased : BOOLEAN]
      /\ saving' # None /\ saving'.to = pending
  BY <1>1, CommitType DEF Inv, Types
<1> QED BY <1>1, <1>2 DEF Save, flashVars, ramVars, knownVars, Inv, Types,
           Safe, SaveInv, WriteInv, RunInv, BootInv, AppKnown

LEMMA FirmwareInv ==
    ASSUME Calm, Inv, Firmware
    PROVE  Inv'
<1>1. CASE Crash
  BY <1>1, Stopped DEF Crash
<1> QED BY <1>1, ChunksInv, AddFirstInv, AddByteInv, FinishInv, AcceptInv,
           RejectInv, SaveStepInv DEF Firmware

\* A flag that is set, and not torn, is that of an image.
LEMMA FlaggedType ==
    ASSUME Inv, Flagged
    PROVE  /\ flag \in Flags /\ flag \in Nat /\ flag # Torn
           /\ ready \in Images /\ Len(ready) = flag /\ Holds(staged, ready)
<1>1. flag \in 0 .. Max /\ flag # 0
  BY DEF Flagged, Inv, Types
<1>2. flag \in Flags /\ flag \in Nat /\ flag # Torn
  BY <1>1, MaxType, UpdateAssumption DEF Flags
<1> QED BY <1>2 DEF Inv, Types, Safe

LEMMA BootFlaggedInv == Inv /\ BootFlagged => Inv'
<1> SUFFICES ASSUME Inv, BootFlagged PROVE Inv'
  OBVIOUS
<1> USE DEF flashVars, ramVars, knownVars
<1>1. /\ mode = "boot" /\ writing = None /\ saving = None
      /\ flag \in Flags /\ staged[0] # Erased
  <2>1. /\ ready \in Images /\ flag \in Flags
        /\ Len(ready) = flag /\ Holds(staged, ready)
    BY FlaggedType DEF BootFlagged
  <2>2. 1 \in 1 .. Len(ready) /\ 1 - 1 = 0
    BY <2>1, MaxType DEF Flags
  <2>3. staged[0] = ready[1]
    BY <2>1, <2>2 DEF Holds
  <2> QED BY <2>1, <2>3, ImageType DEF BootFlagged, Quiet
<1>2. mode' = "copy" /\ UNCHANGED saving
  BY <1>1 DEF BootFlagged
<1>3. Types' /\ Safe(flag)' /\ Safe(pending)'
  BY <1>2 DEF BootFlagged, Inv, Types, Safe
<1> QED BY <1>1, <1>2, <1>3
        DEF BootFlagged, Inv, SaveInv, WriteInv, RunInv, BootInv, AppKnown

LEMMA BootUnflaggedInv == Inv /\ BootUnflagged => Inv'
<1> SUFFICES ASSUME Inv, BootUnflagged PROVE Inv'
  OBVIOUS
<1>1. flag \notin Flags
  BY FlagsType DEF BootUnflagged, Flagged
<1> QED BY <1>1
        DEF BootUnflagged, Quiet, flashVars, jobVars, ramVars, knownVars, Inv,
            Types, Safe, SaveInv, WriteInv, RunInv, BootInv, AppKnown

LEMMA CopyPageInv == Inv /\ CopyPage => Inv'
<1> SUFFICES ASSUME Inv, CopyPage PROVE Inv'
  OBVIOUS
<1>1. "area" \in DOMAIN writing' /\ writing'.area = "app"
  BY DEF CopyPage, Rewrite
<1> QED BY <1>1
        DEF CopyPage, Quiet, flashVars, ramVars, knownVars, Inv, Types, Safe,
            SaveInv, WriteInv, RunInv, BootInv, AppKnown

LEMMA CopyEndInv ==
    ASSUME Inv, CopyEnd
    PROVE  Inv'
<1> USE DEF flashVars, ramVars, knownVars
<1>1. /\ mode = "copy" /\ writing = None /\ saving = None /\ flag \in Flags
      /\ UNCHANGED <<app, flag, knownVars>>
  BY DEF CopyEnd, Quiet, Inv, BootInv
<1>2. /\ flag # Torn /\ flag \in Nat
      /\ ready \in Images /\ Len(ready) = flag /\ Holds(staged, ready)
  BY <1>1, FlaggedType, FlagsType DEF Flagged
<1>3. staged' = staged
  BY <1>2 DEF CopyEnd
<1>4. CASE Same
  <2>1. Holds(app, ready)
    BY <1>2, <1>4 DEF Same, Holds
  <2>2. AppKnown'
    BY <1>1, <1>2, <2>1, ImageType DEF AppKnown
  <2> QED BY <1>1, <1>3, <1>4, <2>2, CommitType, FlagsType
          DEF CopyEnd, Inv, Types, Safe, SaveInv, WriteInv, RunInv, BootInv
<1>5. CASE ~Same
  BY <1>1, <1>3, <1>5, Stopped DEF CopyEnd
<1> QED BY <1>4, <1>5

LEMMA RunStepInv == Inv /\ Run => Inv'
<1> SUFFICES ASSUME Inv, Run PROVE Inv'
  OBVIOUS
<1> USE DEF flashVars, jobVars, knownVars
<1>1. /\ mode = "start" /\ writing = None /\ saving = None
      /\ flag \notin Flags /\ AppKnown
  BY DEF Run, Quiet, Inv, BootInv
<1>2. flag = 0 \/ flag = Erased
  BY <1>1, MaxType DEF Inv, Types, Flags
<1>3. pending' = 0 /\ UNCHANGED <<flashVars, jobVars, crc, ready>>
  BY <1>2 DEF Run
<1>4. Holds(app, ran)'
  BY <1>1, <1>3 DEF Run, AppKnown
<1>5. Types' /\ Safe(flag)' /\ Safe(pending)'
  BY <1>1, <1>3, FlagsType DEF Inv, Types, Safe
<1> QED BY <1>1, <1>3, <1>4, <1>5
        DEF Run, Inv, SaveInv, WriteInv, RunInv, BootInv, AppKnown

LEMMA NextInv ==
    ASSUME Calm, Inv, [Next]_vars
    PROVE  Inv'
<1>1. CASE UNCHANGED vars
  BY <1>1 DEF vars, flashVars, jobVars, ramVars, knownVars, Inv, Types, Safe,
              SaveInv, WriteInv, RunInv, BootInv, AppKnown
<1>2. CASE Firmware
  BY <1>2, FirmwareInv
<1>3. CASE BootLoader
  BY <1>3, BootUnflaggedInv, BootFlaggedInv, CopyPageInv, CopyEndInv,
     RunStepInv, FaultsInv DEF BootLoader
<1>4. CASE Flash
  BY <1>4, WriteStepInv, SaveInvStep DEF Flash
<1>5. CASE WriteFails \/ PowerLoss
  BY <1>5, FaultsInv
<1> QED BY <1>1, <1>2, <1>3, <1>4, <1>5 DEF Next

-----------------------------------------------------------------------------
\* The flag names a staged image only while it is all there and its CRC has
\* been found right, at every moment power can be lost.
THEOREM UpdateIsReady ==
    ASSUME Calm
    PROVE  Spec => []ReadyIsStaged
<1>1. Inv => ReadyIsStaged
  BY DEF Inv, Safe, Flags, ReadyIsStaged
<1> QED BY <1>1, InitInv, NextInv, PTL DEF Spec

\* A reset at any moment leads to an image that has run or been accepted.
THEOREM UpdateRecovers ==
    ASSUME Calm
    PROVE  Spec => []Recoverable
<1>1. Inv => Recoverable
  BY DEF Inv, Safe, Flags, BootInv, AppKnown, Recoverable
<1> QED BY <1>1, InitInv, NextInv, PTL DEF Spec

\* The boot loader starts nothing else.
THEOREM UpdateStartsKnown ==
    ASSUME Calm
    PROVE  Spec => StartsKnown
<1> DEFINE Start == mode # "run" /\ mode' = "run" =>
                        Holds(app, ran) \/ (ready # None /\ Holds(app, ready))
<1>1. ASSUME Inv, [Next]_vars PROVE Start
  <2> SUFFICES ASSUME mode # "run", mode' = "run" PROVE AppKnown
    BY DEF AppKnown
  <2>1. Run
    BY <1>1 DEF Next, Firmware, BootLoader, Flash, FwAdd, AddTooBig, AddFirst,
       AddByte, FwFin, LwComplete, Accept, Reject, Crash, LwStart, LwChunk,
       Save, Idle, Adding, Checking, BootUnflagged, BootFlagged, CopyPage,
       CopyEnd, WriteStep, SaveErase, SaveEnd, WriteFails, ErrorState,
       PowerLoss, Stop, vars
  <2> QED BY <1>1, <2>1 DEF Run, Inv, BootInv
<1>2. Inv /\ [Next]_vars => [Start]_vars
  BY <1>1
<1> QED BY <1>2, InitInv, NextInv, PTL DEF Spec, StartsKnown
-----------------------------------------------------------------------------
(* Types, with all the faults.  Pages and offsets stay within the flash.   *)

LEMMA DivType ==
    ASSUME NEW P \in Nat, P > 0, NEW n \in Nat
    PROVE  /\ n \div P \in Nat /\ n % P \in 0 .. P - 1
           /\ n = P * (n \div P) + (n % P)
OBVIOUS

LEMMA LessFactor ==
    ASSUME NEW P \in Nat, P > 0, NEW Q \in Nat, NEW d \in Nat, P * d < P * Q
    PROVE  d < Q
OBVIOUS

LEMMA SizeType ==
    /\ PageSize \in Nat /\ PageSize >= 2 /\ Pages \in Nat /\ Pages > 0
    /\ Max = PageSize * Pages /\ Max >= 1
    /\ 0 \in Offset /\ 0 \in PageNo
<1>1. /\ PageSize \in Nat /\ PageSize >= 2 /\ Pages \in Nat /\ Pages > 0
  BY UpdateAssumption
<1>2. Max = PageSize * Pages
  BY DEF Max
<1>3. PageSize * 0 < PageSize * Pages
  BY <1>1
<1> QED BY <1>1, <1>2, <1>3, MaxType DEF Offset, PageNo

\* Where a word is.
LEMMA PlaceType ==
    ASSUME NEW n \in 0 .. Max - 1
    PROVE  n \div PageSize \in PageNo /\ n % PageSize \in Offset
<1>1. n \in Nat /\ n < PageSize * Pages
  BY SizeType
<1>2. /\ n \div PageSize \in Nat /\ n % PageSize \in 0 .. PageSize - 1
      /\ n = PageSize * (n \div PageSize) + (n % PageSize)
  BY <1>1, SizeType, DivType
<1>3. PageSize * (n \div PageSize) < PageSize * Pages
  BY <1>1, <1>2, SizeType
<1>4. n \div PageSize < Pages
  BY <1>2, <1>3, SizeType, LessFactor
<1> QED BY <1>2, <1>4, SizeType DEF PageNo, Offset

\* The end of the flash is the end of a page.
LEMMA LastType ==
    ASSUME NEW n \in 0 .. Max, n % PageSize # 0
    PROVE  n \in 0 .. Max - 1
<1>1. SUFFICES ASSUME n = PageSize * Pages
               PROVE  FALSE
  BY SizeType
<1>2. n \in Nat
  BY MaxType
<1>3. /\ n \div PageSize \in Nat /\ n % PageSize \in 0 .. PageSize - 1
      /\ n = PageSize * (n \div PageSize) + (n % PageSize)
  BY <1>2, SizeType, DivType
<1>4. PageSize * (n \div PageSize) < PageSize * Pages
  BY <1>1, <1>3, SizeType
<1>5. n \div PageSize + 1 <= Pages
  BY <1>3, <1>4, SizeType, LessFactor
<1>6. PageSize * (n \div PageSize + 1) <= PageSize * Pages
  BY <1>3, <1>5, SizeType
<1>7. PageSize * (n \div PageSize + 1) = PageSize * (n \div PageSize) + PageSize
  BY <1>3, SizeType
<1> QED BY <1>1, <1>3, <1>6, <1>7, SizeType

\* As many pages as n words take.
LEMMA CountType ==
    ASSUME NEW n \in 0 .. Max
    PROVE  (n + PageSize - 1) \div PageSize \in 0 .. Pages
<1> DEFINE m == n + PageSize - 1
           d == m \div PageSize
<1>1. m \in Nat
  BY SizeType
<1> HIDE DEF m
<1>2. d \in Nat /\ m % PageSize \in 0 .. PageSize - 1 /\ m = PageSize * d + (m % PageSize)
  BY <1>1, SizeType, DivType
<1> HIDE DEF d
<1>3. m < PageSize * Pages + PageSize
  BY SizeType DEF m
<1>4. PageSize * (Pages + 1) = PageSize * Pages + PageSize
  BY SizeType
<1>5. PageSize * d < PageSize * (Pages + 1)
  BY <1>2, <1>3, <1>4, SizeType
<1>6. d < Pages + 1
  BY <1>2, <1>5, SizeType, LessFactor
<1>7. d \in 0 .. Pages
  BY <1>2, <1>6, SizeType
<1> QED BY <1>7 DEF d, m

\* The words of a page.
LEMMA WordOf ==
    ASSUME NEW p \in PageNo, NEW i \in Offset
    PROVE  p * PageSize + i \in Addr
<1>1. p \in Nat /\ p + 1 <= Pages /\ i \in 0 .. PageSize - 1
  BY SizeType DEF PageNo, Offset
<1>2. PageSize * (p + 1) <= PageSize * Pages
  BY <1>1, SizeType
<1>3. PageSize * (p + 1) = p * PageSize + PageSize
  BY <1>1, SizeType
<1>4. p * PageSize \in Nat
  BY <1>1, SizeType
<1> QED BY <1>1, <1>2, <1>3, <1>4, SizeType DEF Addr

Pieces == [area : {"staged", "app"}, page : PageNo, data : [Offset -> Word], done : 0 .. PageSize]
Saves == [to : 0 .. Max, erased : BOOLEAN]

LEMMA RewriteType ==
    ASSUME NEW area \in {"staged", "app"}, NEW n \in PageNo, NEW data \in [Offset -> Word]
    PROVE  Rewrite(area, n, data) \in Pieces
<1>1. 0 \in 0 .. PageSize
  BY SizeType
<1> QED BY <1>1 DEF Rewrite, Pieces

LEMMA PieceType ==
    ASSUME NEW w \in Pieces, w.done < PageSize
    PROVE  [w EXCEPT !.done = @ + 1] \in Pieces
<1>1. w.done + 1 \in 0 .. PageSize
  BY SizeType DEF Pieces
<1> QED BY <1>1 DEF Pieces

LEMMA CommitTypes ==
    ASSUME NEW f \in 0 .. Max
    PROVE  CommitChange(f) \in Saves \cup {None} /\ Commit(f) \in Saves
BY CommitType DEF CommitChange, Saves

\* The boot loader goes on with no torn flag.
Whole ==
    /\ mode = "start" /\ saving = None => flag # Torn
    /\ mode = "copy" => saving = None /\ flag # Erased

TypesHold == TypeOK /\ Whole

LEMMA InitTypes == Init => TypesHold
<1> SUFFICES ASSUME Init PROVE TypesHold
  OBVIOUS
<1>1. Old \in Image
  BY UpdateAssumption
<1>2. PICK n \in 1 .. Max : Old \in [1 .. n -> Byte]
  BY <1>1 DEF Image
<1>3. n \in Nat /\ Len(Old) = n
  BY <1>2, MaxType
<1>4. \A a \in Addr : a < Len(Old) => Old[a + 1] \in Byte
  BY <1>2, <1>3, MaxType DEF Addr
<1>5. app \in [Addr -> Word] /\ staged \in [Addr -> Word]
  BY <1>4 DEF Init, Word
<1>6. flag \in Flag /\ pos \in -1 .. Max /\ pending \in 0 .. Max /\ next \in 0 .. MaxChunks
      /\ copied \in 0 .. Pages
  BY MaxType, SizeType, UpdateAssumption DEF Init, Flag
<1>7. page \in [Offset -> Word] /\ input \in Seq(Byte)
  BY DEF Init, Zeroes, Word
<1>8. ran \in Images \cup {Old} /\ ready \in Images \cup {None} /\ crc \in Images \cup {None}
  BY DEF Init
<1> QED BY <1>5, <1>6, <1>7, <1>8 DEF Init, TypesHold, TypeOK, Whole

LEMMA StopTypes ==
    ASSUME TypeOK, NEW to \in {"boot", "error"}, Stop(to)
    PROVE  /\ mode' \in {"boot", "copy", "start", "run", "error"}
           /\ writing' = None /\ saving' = None /\ copied' \in 0 .. Pages
           /\ pos' \in -1 .. Max /\ page' \in [Offset -> Word] /\ pending' \in 0 .. Max
           /\ next' \in 0 .. MaxChunks /\ input' \in Seq(Byte) /\ crc' \in Images \cup {None}
           /\ Whole'
<1>1. page' \in [Offset -> Word] /\ input' \in Seq(Byte)
  BY DEF Stop, Zeroes, Word
<1>2. 0 \in 0 .. Pages /\ -1 \in -1 .. Max /\ 0 \in 0 .. Max /\ 0 \in 0 .. MaxChunks
  BY SizeType, UpdateAssumption
<1> QED BY <1>1, <1>2 DEF Stop, Whole

LEMMA StoppedTypes ==
    ASSUME TypesHold, NEW to \in {"boot", "error"}, Stop(to),
           staged' \in [Addr -> Word], UNCHANGED <<app, knownVars>>, flag' \in Flag
    PROVE  TypesHold'
<1>1. TypeOK
  BY DEF TypesHold
<1> QED BY <1>1, StopTypes DEF TypesHold, TypeOK, knownVars

LEMMA WriteStepTypes ==
    ASSUME TypesHold, WriteStep
    PROVE  TypesHold'
<1>1. writing \in Pieces
  BY DEF TypesHold, TypeOK, WriteStep, Pieces
<1>2. ASSUME NEW area \in [Addr -> Word]
      PROVE  Written(area) \in [Addr -> Word]
  <2>1. \A a \in Addr : a % PageSize \in Offset
    BY PlaceType DEF Addr
  <2>2. \A i \in Offset : writing.data[i] \in Word
    BY <1>1 DEF Pieces
  <2> QED BY <2>1, <2>2, <1>2 DEF Written, Word
<1>3. staged' \in [Addr -> Word] /\ app' \in [Addr -> Word]
  BY <1>2 DEF TypesHold, TypeOK, WriteStep
<1>4. writing' \in Pieces \cup {None}
  BY <1>1, PieceType DEF WriteStep
<1>5. page' \in [Offset -> Word]
  BY DEF WriteStep, Zeroes, Word, TypesHold, TypeOK
<1>6. UNCHANGED <<mode, flag, saving, copied, pos, pending, next, input, crc, ready, ran>>
  BY DEF WriteStep, knownVars
<1> QED BY <1>3, <1>4, <1>5, <1>6 DEF TypesHold, TypeOK, Whole, Pieces

LEMMA SaveTypes ==
    ASSUME TypesHold, SaveErase \/ SaveEnd
    PROVE  TypesHold'
<1>1. saving \in Saves /\ saving # None
  BY DEF TypesHold, TypeOK, SaveErase, SaveEnd, Saves
<1>2. UNCHANGED <<mode, staged, app, writing, copied, pos, page, pending, next, input, crc, ready, ran>>
  BY DEF SaveErase, SaveEnd, ramVars, knownVars
<1>3. CASE SaveErase
  <2>1. saving' \in Saves /\ saving' # None /\ flag' = Erased
    BY <1>1, <1>3, UpdateAssumption DEF SaveErase, Saves
  <2>2. Whole'
    BY <1>1, <1>2, <2>1 DEF TypesHold, Whole
  <2> QED BY <1>2, <2>1, <2>2 DEF TypesHold, TypeOK, Saves, Flag
<1>4. CASE SaveEnd
  <2>1. saving' = None /\ flag' = saving.to /\ saving.to \in 0 .. Max
    BY <1>1, <1>4 DEF SaveEnd, Saves
  <2>2. flag' # Torn
    BY <2>1, MaxType, UpdateAssumption
  <2>3. Whole'
    BY <1>1, <1>2, <2>1, <2>2 DEF TypesHold, Whole
  <2> QED BY <1>2, <2>1, <2>3 DEF TypesHold, TypeOK, Flag
<1> QED BY <1>3, <1>4

LEMMA FaultTypes ==
    ASSUME TypesHold, WriteFails \/ PowerLoss \/ ErrorState \/ Crash
    PROVE  TypesHold'
<1>1. CASE WriteFails /\ mode = "run"
  <2>1. writing' = None /\ input' = <<>>
        /\ UNCHANGED <<mode, staged, app, flag, saving, copied, pos, page, pending, next, crc, ready, ran>>
    BY <1>1 DEF WriteFails, flashVars, knownVars
  <2> QED BY <2>1 DEF TypesHold, TypeOK, Whole
<1>2. CASE \/ WriteFails /\ mode # "run"
          \/ ErrorState
          \/ Crash
  <2>1. PICK to \in {"boot", "error"} : Stop(to)
    BY <1>2 DEF WriteFails, ErrorState, Crash
  <2>2. UNCHANGED <<staged, app, flag, knownVars>>
    BY <1>2 DEF WriteFails, ErrorState, Crash, flashVars
  <2> QED BY <2>1, <2>2, StoppedTypes DEF TypesHold, TypeOK
<1>3. CASE PowerLoss
  <2>1. Stop("boot") /\ UNCHANGED <<staged, app, knownVars>> /\ flag' \in Flag
    BY <1>3 DEF PowerLoss, TypesHold, TypeOK, Flag
  <2> QED BY <2>1, StoppedTypes DEF TypesHold, TypeOK
<1> QED BY <1>1, <1>2, <1>3

\* The firmware leaves the boot loader's variables alone.
LEMMA RunTypes ==
    ASSUME TypesHold, mode = "run", UNCHANGED <<mode, staged, app, flag, copied>>,
           writing' \in Pieces \cup {None}, saving' \in Saves \cup {None},
           pos' \in -1 .. Max, page' \in [Offset -> Word], pending' \in 0 .. Max,
           next' \in 0 .. MaxChunks, input' \in Seq(Byte), crc' \in Images \cup {None},
           ready' \in Images \cup {None}, ran' = ran
    PROVE  TypesHold'
BY DEF TypesHold, TypeOK, Whole, Pieces, Saves

LEMMA FinishTypes ==
    ASSUME TypesHold, NEW image \in Images, Finish(image)
    PROVE  writing' \in Pieces \cup {None} /\ crc' \in Images \cup {None}
<1>1. page \in [Offset -> Word] /\ pos \in -1 .. Max
  BY DEF TypesHold, TypeOK
<1>2. crc' = image
  BY DEF Finish
<1>3. CASE pos < 0
  <2>1. writing' = Rewrite("staged", 0, page)
    BY <1>3 DEF Finish
  <2>2. writing' \in Pieces
    BY <1>1, <2>1, SizeType, RewriteType
  <2> QED BY <1>2, <2>2
<1>4. CASE pos >= 0 /\ pos % PageSize # 0
  <2>1. pos \in 0 .. Max - 1
    BY <1>1, <1>4, MaxType, LastType
  <2>2. writing' = Rewrite("staged", pos \div PageSize, page)
    BY <1>1, <1>4 DEF Finish
  <2>3. writing' \in Pieces
    BY <1>1, <2>1, <2>2, PlaceType, RewriteType
  <2> QED BY <1>2, <2>3
<1>5. CASE pos >= 0 /\ pos % PageSize = 0
  <2>1. writing' = None
    BY <1>1, <1>5 DEF Finish
  <2> QED BY <1>2, <2>1
<1> QED BY <1>1, <1>3, <1>4, <1>5, MaxType

LEMMA FirmwareTypes ==
    ASSUME TypesHold, Firmware
    PROVE  TypesHold'
<1>1. /\ writing \in Pieces \cup {None} /\ saving \in Saves \cup {None}
      /\ pos \in -1 .. Max /\ page \in [Offset -> Word] /\ pending \in 0 .. Max
      /\ next \in 0 .. MaxChunks /\ input \in Seq(Byte) /\ crc \in Images \cup {None}
      /\ ready \in Images \cup {None}
  BY DEF TypesHold, TypeOK, Pieces, Saves
<1>2. 0 \in 0 .. Max /\ -1 \in -1 .. Max /\ 1 \in -1 .. Max /\ 0 \in 0 .. MaxChunks
  BY SizeType, MaxType, UpdateAssumption
<1>3. ASSUME NEW b \in Byte, FwAdd(b)
      PROVE  TypesHold'
  <2>1. input' = <<b>> /\ mode = "run"
        /\ UNCHANGED <<mode, staged, app, flag, writing, saving, copied, pos, page, pending,
                       next, crc, ready, ran>>
    BY <1>3 DEF FwAdd, Idle, flashVars, jobVars, knownVars
  <2>2. input' \in Seq(Byte)
    BY <2>1
  <2> QED BY <1>1, <2>1, <2>2, RunTypes
<1>4. CASE AddTooBig
  <2>1. input' = <<>> /\ pos' = -1 /\ mode = "run"
        /\ UNCHANGED <<mode, staged, app, flag, writing, saving, copied, page, pending,
                       next, crc, ready, ran>>
    BY <1>4 DEF AddTooBig, Adding, flashVars, jobVars, knownVars
  <2>2. input' \in Seq(Byte)
    BY <2>1
  <2> QED BY <1>1, <1>2, <2>1, <2>2, RunTypes
<1>5. CASE AddFirst
  <2>1. input # <<>> /\ mode = "run" /\ pos' = 1 /\ pending' = 0
        /\ page' = [Blank EXCEPT ![0] = Head(input)] /\ saving' = CommitChange(0)
        /\ input' = Tail(input)
        /\ UNCHANGED <<mode, staged, app, flag, writing, copied, next, crc, ready, ran>>
    BY <1>5 DEF AddFirst, Adding, flashVars, knownVars
  <2>2. input' \in Seq(Byte) /\ Head(input) \in Word
    BY <1>1, <2>1 DEF Word
  <2>3. page' \in [Offset -> Word]
    BY <2>1, <2>2 DEF Blank, Word
  <2>4. saving' \in Saves \cup {None}
    BY <1>2, <2>1, CommitTypes
  <2> QED BY <1>1, <1>2, <2>1, <2>2, <2>3, <2>4, RunTypes
<1>6. CASE AddByte
  <2>1. input # <<>> /\ mode = "run" /\ pos' = pos + 1 /\ input' = Tail(input)
        /\ UNCHANGED <<mode, staged, app, flag, saving, copied, pending, next, crc, ready, ran>>
    BY <1>6 DEF AddByte, Adding, flashVars, knownVars
  <2>2. input' \in Seq(Byte) /\ Head(input) \in Word
    BY <1>1, <2>1 DEF Word
  <2>3. page' \in [Offset -> Word]
    BY <1>1, <1>6, <2>2 DEF AddByte
  <2>4. pos \in 0 .. Max - 1 /\ pos' \in -1 .. Max
    BY <1>1, <1>6, <2>1, MaxType DEF AddByte, Fits
  <2>5. writing' = None \/ writing' = Rewrite("staged", pos \div PageSize, page')
    BY <1>6 DEF AddByte
  <2>6. Rewrite("staged", pos \div PageSize, page') \in Pieces
    BY <2>3, <2>4, PlaceType, RewriteType
  <2> QED BY <1>1, <2>1, <2>2, <2>3, <2>4, <2>5, <2>6, RunTypes
<1>7. ASSUME NEW image \in Images, FwFin(image) \/ LwComplete(image)
      PROVE  TypesHold'
  <2>1. mode = "run" /\ Finish(image) /\ next' \in {next, 0}
        /\ UNCHANGED <<mode, staged, app, flag, saving, copied, pos, page, pending,
                       input, ready, ran>>
    BY <1>7 DEF FwFin, LwComplete, Idle, flashVars, knownVars
  <2>2. writing' \in Pieces \cup {None} /\ crc' \in Images \cup {None}
    BY <2>1, FinishTypes
  <2> QED BY <1>1, <1>2, <2>1, <2>2, RunTypes
<1>8. CASE Accept
  <2>1. mode = "run" /\ crc # None /\ pos = Len(crc) /\ ready' = crc
        /\ pending' = pos /\ saving' = CommitChange(pos) /\ pos' = -1 /\ crc' = None
        /\ UNCHANGED <<mode, staged, app, flag, writing, copied, page, next, input, ran>>
    BY <1>8 DEF Accept, Checking, CrcRight, flashVars
  <2>2. pos \in 0 .. Max
    BY <1>1, <2>1, ImageType, FlagsType
  <2>3. saving' \in Saves \cup {None}
    BY <2>1, <2>2, CommitTypes
  <2> QED BY <1>1, <1>2, <2>1, <2>2, <2>3, RunTypes
<1>9. CASE Reject
  <2>1. mode = "run" /\ pos' = -1 /\ crc' = None
        /\ UNCHANGED <<mode, staged, app, flag, writing, saving, copied, page, pending, next,
                       input, ready, ran>>
    BY <1>9 DEF Reject, Checking, flashVars, jobVars, knownVars
  <2> QED BY <1>1, <1>2, <2>1, RunTypes
<1>10. CASE Crash
  BY <1>10, FaultTypes
<1>11. CASE LwStart
  <2>1. mode = "run" /\ pos' = -1 /\ next' = 0
        /\ UNCHANGED <<mode, staged, app, flag, writing, saving, copied, page, pending,
                       input, crc, ready, ran>>
    BY <1>11 DEF LwStart, Idle, flashVars, jobVars, knownVars
  <2> QED BY <1>1, <1>2, <2>1, RunTypes
<1>12. ASSUME NEW id \in 0 .. MaxChunks - 1, NEW bytes \in Chunk, LwChunk(id, bytes)
       PROVE  TypesHold'
  <2>1. mode = "run" /\ next' = id + 1 /\ input' = bytes
        /\ UNCHANGED <<mode, staged, app, flag, writing, saving, copied, pos, page, pending,
                       crc, ready, ran>>
    BY <1>12 DEF LwChunk, Idle, flashVars, jobVars, knownVars
  <2>2. input' \in Seq(Byte)
    <3>1. CASE bytes \in {<<b>> : b \in Byte}
      <4>1. PICK b \in Byte : bytes = <<b>>
        BY <3>1
      <4> QED BY <2>1, <4>1
    <3>2. CASE bytes \in {<<b, d>> : b \in Byte, d \in Byte}
      <4>1. PICK b \in Byte, d \in Byte : bytes = <<b, d>>
        BY <3>2
      <4> QED BY <2>1, <4>1
    <3> QED BY <3>1, <3>2 DEF Chunk
  <2>3. next' \in 0 .. MaxChunks
    BY <2>1, UpdateAssumption
  <2> QED BY <1>1, <2>1, <2>2, <2>3, RunTypes
<1>13. CASE Save
  <2>1. mode = "run" /\ saving' = Commit(pending)
        /\ UNCHANGED <<mode, staged, app, flag, writing, copied, pos, page, pending, next,
                       input, crc, ready, ran>>
    BY <1>13 DEF Save, Idle, flashVars, ramVars, knownVars
  <2>2. saving' \in Saves \cup {None}
    BY <1>1, <2>1, CommitTypes
  <2> QED BY <1>1, <2>1, <2>2, RunTypes
<1> QED BY <1>3, <1>4, <1>5, <1>6, <1>7, <1>8, <1>9, <1>10, <1>11, <1>12, <1>13 DEF Firmware

LEMMA BootTypes ==
    ASSUME TypesHold, BootLoader
    PROVE  TypesHold'
<1>1. CASE BootUnflagged
  <2>1. mode' = "start" /\ flag \in {0, Erased}
        /\ UNCHANGED <<staged, app, flag, writing, saving, copied, pos, page, pending, next,
                       input, crc, ready, ran>>
    BY <1>1 DEF BootUnflagged, Flagged, flashVars, jobVars, ramVars, knownVars
  <2>2. flag # Torn
    BY <2>1, UpdateAssumption
  <2> QED BY <2>1, <2>2 DEF TypesHold, TypeOK, Whole
<1>2. CASE BootFlagged
  <2>1. flag # Erased /\ saving = None
        /\ UNCHANGED <<staged, app, flag, writing, pos, page, pending, next,
                       input, crc, ready, ran>>
    BY <1>2 DEF BootFlagged, Flagged, Quiet, flashVars, ramVars, knownVars
  <2>2. CASE staged[0] = Erased
    <3>1. saving' = Commit(0) /\ mode' = "start" /\ UNCHANGED copied
      BY <1>2, <2>2 DEF BootFlagged
    <3>2. saving' \in Saves /\ saving' # None
      BY <3>1, SizeType, MaxType, CommitTypes, CommitType
    <3> QED BY <2>1, <3>1, <3>2 DEF TypesHold, TypeOK, Whole, Saves
  <2>3. CASE staged[0] # Erased
    <3>1. mode' = "copy" /\ copied' = 0 /\ UNCHANGED saving
      BY <1>2, <2>3 DEF BootFlagged
    <3>2. copied' \in 0 .. Pages
      BY <3>1, SizeType
    <3> QED BY <2>1, <3>1, <3>2 DEF TypesHold, TypeOK, Whole
  <2> QED BY <2>2, <2>3
<1>3. CASE CopyPage
  <2>1. mode = "copy" /\ copied < PageCount /\ copied' = copied + 1
        /\ writing' = Rewrite("app", copied, [i \in Offset |-> staged[copied * PageSize + i]])
        /\ UNCHANGED <<mode, staged, app, flag, saving, pos, page, pending, next,
                       input, crc, ready, ran>>
    BY <1>3 DEF CopyPage, flashVars, ramVars, knownVars
  <2>2. PageCount \in 0 .. Pages
    <3>1. flag \in 0 .. Max \/ flag = Torn
      BY <2>1 DEF TypesHold, TypeOK, Whole, Flag
    <3>2. CASE flag = Torn
      BY <3>2, SizeType DEF PageCount
    <3>3. CASE flag # Torn
      BY <3>1, <3>3, CountType DEF PageCount
    <3> QED BY <3>2, <3>3
  <2>3. copied \in PageNo /\ copied' \in 0 .. Pages
    BY <2>1, <2>2, SizeType DEF TypesHold, TypeOK, PageNo
  <2>4. [i \in Offset |-> staged[copied * PageSize + i]] \in [Offset -> Word]
    BY <2>3, WordOf DEF TypesHold, TypeOK
  <2>5. writing' \in Pieces
    BY <2>1, <2>3, <2>4, RewriteType
  <2> QED BY <2>1, <2>3, <2>5 DEF TypesHold, TypeOK, Whole, Pieces
<1>4. CASE CopyEnd
  <2>1. staged' \in [Addr -> Word] /\ UNCHANGED <<app, flag, knownVars>>
    BY <1>4 DEF CopyEnd, TypesHold, TypeOK, Word
  <2>2. CASE Same
    <3>1. saving' = Commit(0) /\ mode' = "start"
          /\ UNCHANGED <<writing, copied, pos, page, pending, next, input, crc>>
      BY <1>4, <2>2 DEF CopyEnd, ramVars
    <3>2. saving' \in Saves /\ saving' # None
      BY <3>1, SizeType, MaxType, CommitTypes, CommitType
    <3> QED BY <2>1, <3>1, <3>2 DEF TypesHold, TypeOK, Whole, Saves, knownVars
  <2>3. CASE ~Same
    <3>1. Stop("error")
      BY <1>4, <2>3 DEF CopyEnd
    <3> QED BY <2>1, <3>1, StoppedTypes DEF TypesHold, TypeOK
  <2> QED BY <2>2, <2>3
<1>5. CASE Run
  <2>1. mode' = "run" /\ mode = "start" /\ saving = None
        /\ pending' = (IF flag = Erased THEN 0 ELSE flag)
        /\ ran' = (IF ready # None /\ Holds(app, ready) THEN ready ELSE ran)
        /\ UNCHANGED <<staged, app, flag, writing, saving, copied, pos, page, next,
                       input, crc, ready>>
    BY <1>5 DEF Run, Quiet, flashVars, jobVars
  <2>2. flag \in 0 .. Max \cup {Erased}
    BY <2>1 DEF TypesHold, TypeOK, Whole, Flag
  <2>3. pending' \in 0 .. Max
    BY <2>1, <2>2, MaxType
  <2>4. ran' \in Images \cup {Old}
    BY <2>1 DEF TypesHold, TypeOK
  <2> QED BY <2>1, <2>3, <2>4 DEF TypesHold, TypeOK, Whole
<1>6. CASE ErrorState
  BY <1>6, FaultTypes
<1> QED BY <1>1, <1>2, <1>3, <1>4, <1>5, <1>6 DEF BootLoader

\* Whatever fails and whenever power is lost, no page outside the flash is
\* written, and pending_fw in RAM is a size of it.
THEOREM UpdateTypes == Spec => []TypeOK
<1>1. TypesHold /\ [Next]_vars => TypesHold'
  <2> SUFFICES ASSUME TypesHold, [Next]_vars PROVE TypesHold'
    OBVIOUS
  <2>1. CASE UNCHANGED vars
    BY <2>1 DEF vars, flashVars, jobVars, ramVars, knownVars, TypesHold, TypeOK, Whole
  <2>2. CASE Flash
    BY <2>2, WriteStepTypes, SaveTypes DEF Flash
  <2> QED BY <2>1, <2>2, FirmwareTypes, BootTypes, FaultTypes DEF Next
<1>2. TypesHold => TypeOK
  BY DEF TypesHold
<1> QED BY InitTypes, <1>1, <1>2, PTL DEF Spec
=============================================================================
