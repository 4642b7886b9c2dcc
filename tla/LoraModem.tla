----------------------------- MODULE LoraModem ------------------------------
(***************************************************************************)
(* A LoRaWAN device: one of the two drivers, its modem with the network    *)
(* and the server behind it, the two directions of the UART, and the part  *)
(* of Measurements that hands messages to the driver and waits for their   *)
(* acknowledgement.  The modem is made of what the drivers expect of it.   *)
(*                                                                         *)
(* A timeout of the driver fires when no answer is on its way any more,    *)
(* or, as a fault, too early for an answer that is late.  The RAK4270's    *)
(* fires on any turn once it is overdue: the modem is powered and has yet  *)
(* to boot.  Each fault that happens uses up one of MaxFaults.             *)
(***************************************************************************)
EXTENDS Lw, FiniteSets

CONSTANTS
    Kinds,          \* the drivers to look at: "rak3172", "rak4270"
    Inits,          \* messages that set the modem up
    MaxResend,      \* RAK4270_MAX_RESEND
    MaxLines,       \* lines in the UART from the modem
    MaxNest,        \* handlers asleep inside one another
    MaxFaults,      \* faults and commands in one behaviour
    Faults          \* of them, those that may happen

\* init_wait_ok treats the first three messages differently.
LoraAssumption ==
    /\ Kinds \subseteq {"rak3172", "rak4270"}
    /\ {Chunks, Inits, MaxResend, MaxLines, MaxNest, MaxFaults} \subseteq Nat
    /\ Inits > 4

VARIABLES
    kind,       \* the driver of this device
    ctx,        \* its context
    line,       \* lines from the modem
    cmds,       \* commands to the modem
    chip,       \* the modem: powered, booting, replaying lines, joined, on
                \* the air
    server,     \* downlinks the server has yet to send
    up,         \* Measurements: a fragment is to follow, a message is out,
                \* and it arrived
    faults      \* faults left, and those there were

vars == <<kind, ctx, line, cmds, chip, server, up, faults>>

R == INSTANCE Rak3172
S == INSTANCE Rak4270
Is3172 == kind = "rak3172"

Process(c, l) == IF Is3172 THEN R!Process(c, l) ELSE S!Process(c, l)
Send(c) == IF Is3172 THEN R!Send(c, "meas") ELSE S!Send(c, "meas")
Timeout(c) == IF Is3172 THEN R!Timeout(c) ELSE S!Timeout(c)
HasTimeout(c) == IF Is3172 THEN R!HasTimeout(c) ELSE S!HasTimeout(c)
Reset(c) == IF Is3172 THEN R!Reset(c) ELSE S!Reset(c)
Connected(c) == IF Is3172 THEN R!Connected(c) ELSE S!Connected(c)
SendAllowed(c) == IF Is3172 THEN R!SendAllowed(c) ELSE S!SendAllowed(c)
Command3172(c, cmd) == R!DoCommand(c, cmd).c
DoCommand(c, cmd) == IF Is3172 THEN Command3172(c, cmd) ELSE S!DoCommand(c, cmd)

ChipOff == [on |-> FALSE, boots |-> FALSE, echo |-> FALSE, joined |-> FALSE,
            air |-> None]
ChipBooted == [ChipOff EXCEPT !.on = TRUE]
ChipBooting == [ChipBooted EXCEPT !.boots = TRUE]
UpIdle == [pending |-> FALSE, owed |-> FALSE, arrived |-> FALSE]
Configs == {[DefaultConfig EXCEPT !.eui = TRUE, !.key = k] : k \in BOOLEAN}

\* The RAK3172 starts with the device, the RAK4270 is started by its driver.
Init ==
    /\ kind \in Kinds
    /\ \E s \in Configs :
           ctx = [(IF Is3172 THEN R!Start(s) ELSE S!Start(s)) EXCEPT !.out = <<>>]
    /\ line = IF Is3172 THEN <<R!INIT>> ELSE <<>>
    /\ chip = CASE Is3172 -> ChipBooted
                [] ~Is3172 /\ IsValid(ctx.settings) -> ChipBooting
                [] OTHER -> ChipOff
    /\ cmds = <<>>
    /\ server \in {<<>>, Download}
    /\ up = UpIdle
    /\ faults = [left |-> MaxFaults, had |-> {}]

Fault(f) ==
    /\ f \in Faults /\ faults.left > 0
    /\ faults' = [left |-> faults.left - 1, had |-> faults.had \cup {f}]

Quiet == line = <<>> /\ cmds = <<>> /\ chip.air = None /\ ~chip.boots
-----------------------------------------------------------------------------
(* A step of the driver: what it sends goes to the modem, what it tells    *)
(* Measurements is taken.  The reset line works at once.                   *)

\* After an acknowledgement the fragment that follows is sent, in the same
\* call.
Told(c) ==
    IF c.ack = "ack" /\ up.pending
    THEN Send([c EXCEPT !.ack = None])
    ELSE [c EXCEPT !.ack = None]

UpTold(c) ==
    CASE c.ack = "ack" /\ up.pending ->
             {[pending |-> more, owed |-> TRUE, arrived |-> FALSE] :
              more \in BOOLEAN}
      [] c.ack = "ack" /\ ~up.pending -> {UpIdle}
      [] c.ack = "nack" -> {UpIdle}
      [] OTHER -> {up}

\* The modem's end of both directions after the driver's output.  A modem that
\* boots hears nothing.
Wire == [line |-> line, cmds |-> cmds, chip |-> chip]
Put(w, o) ==
    CASE o = R!HardReset -> [line |-> Append(w.line, R!INIT), cmds |-> <<>>,
                             chip |-> ChipBooted]
      [] o = S!PowerOff -> [w EXCEPT !.cmds = <<>>, !.chip = ChipOff]
      [] o = S!PowerOn /\ ~w.chip.on ->
             [w EXCEPT !.chip = ChipBooting]
      [] o = S!PowerOn /\ w.chip.on -> w
      [] OTHER -> IF w.chip.on /\ ~w.chip.boots
                  THEN [w EXCEPT !.cmds = Append(@, o)] ELSE w
PutAll(w, out) ==
    LET after[i \in 0..Len(out)] ==
            IF i = 0 THEN w ELSE Put(after[i - 1], out[i])
    IN  after[Len(out)]

Driver(c, w, newUp) ==
    LET d == Told(c)
        v == PutAll(w, d.out)
    IN  /\ Len(d.nest) <= MaxNest /\ Len(v.line) <= MaxLines
        /\ ctx' = [d EXCEPT !.out = <<>>]
        /\ line' = v.line /\ cmds' = v.cmds /\ chip' = v.chip
        /\ up' = newUp
        /\ UNCHANGED <<kind, server>>

Hear ==
    /\ line # <<>>
    /\ LET c == Process(ctx, Head(line))
       IN  \E u \in UpTold(c) : Driver(c, [Wire EXCEPT !.line = Tail(line)], u)
    /\ UNCHANGED faults

\* The two seconds before a message of the RAK3172 are over, or the ring is
\* full; Measurements resets the driver then.
Resume ==
    /\ ctx.nest # <<>>
    /\ \/ Driver(R!AfterSleep(ctx), Wire, up) /\ UNCHANGED faults
       \/ /\ Fault("full")
          /\ IF Innermost(ctx) = "err" THEN Driver(R!SendFails(ctx), Wire, up)
             ELSE Driver(Reset(R!SendFails(ctx)), Wire, UpIdle)

\* What is no matter of an answer, or is overdue.
Due == ctx.state \in {"IDLE", "RESETTING"} \/ (~Is3172 /\ S!Overdue(ctx))

\* osm_rak*_loop_iteration, once per turn of the main loop.
TimerFires ==
    /\ ctx.nest = <<>> /\ HasTimeout(ctx)
    /\ \/ Quiet /\ UNCHANGED faults
       \/ ~Quiet /\ ctx.state # "IDLE" /\ Fault("late")
       \/ ~Quiet /\ Due /\ UNCHANGED faults
    /\ LET c == Timeout(ctx)
       IN  \E u \in UpTold(c) : Driver(c, Wire, u)
-----------------------------------------------------------------------------
(* Measurements: _measurements_send, when its interval is over, and what   *)
(* the main loop does when the device is not connected.                    *)

MeasOffline ==
    /\ ctx.nest = <<>> /\ ~Connected(ctx)
    /\ up' = UpIdle /\ up # UpIdle
    /\ UNCHANGED <<kind, ctx, line, cmds, chip, server, faults>>

MeasBusy ==
    /\ ctx.nest = <<>>
    /\ Connected(ctx) /\ ctx.state # "IDLE" /\ ~SendAllowed(ctx)
    /\ \/ /\ ~up.pending
          /\ up' = [up EXCEPT !.pending = TRUE]
          /\ UNCHANGED <<kind, ctx, line, cmds, chip, server>>
       \/ /\ up.pending /\ Quiet            \* over INTERVAL_TRANSMIT_MS/4
          /\ Driver(Reset(ctx), Wire, UpIdle)
    /\ UNCHANGED faults

MeasSend ==
    /\ ctx.nest = <<>> /\ ctx.state = "IDLE"
    /\ \E more \in BOOLEAN :
           Driver(Send(ctx), Wire,
                  [pending |-> more, owed |-> TRUE, arrived |-> FALSE])
    /\ UNCHANGED faults

\* Commands from the console.  Nothing else may have been said to or by a
\* RAK4270 that waits for no line, for as long as you like.
Pauses ==
    {ctx} \cup (IF ~Is3172 /\ ctx.state \in {"IDLE", "UNCONFIGURED"}
               THEN {[ctx EXCEPT !.silent = TRUE]} ELSE {})

Command(cmd) ==
    /\ ctx.nest = <<>> /\ Fault("cmd")
    /\ \E c \in Pauses : Driver(DoCommand(c, cmd), Wire, up)
-----------------------------------------------------------------------------
(* The modem, one command at a time.                                       *)

Takes(s) == cmds # <<>> /\ cmds' = Tail(cmds) /\ Head(cmds)[1] = s

Says(lines, c) ==
    /\ line' = line \o (IF chip.echo THEN <<Head(cmds)>> ELSE <<>>) \o lines
    /\ chip' = c
    /\ Len(line') <= MaxLines

\* The first message restores the RAK3172, the second restarts it, and from
\* the third on it replays what it is told.
ChipInit ==
    /\ Takes("init")
    /\ LET k == Head(cmds)[2] IN
       CASE Is3172 /\ k = 0 -> Says(<<R!INIT>>, ChipBooted)
         [] Is3172 /\ k = 1 -> \/ Says(<<R!INIT>>, ChipBooted)
                               \/ Says(<<R!OK>>, chip)
         [] Is3172 /\ k = 2 -> Says(<<R!OK>>, [chip EXCEPT !.echo = TRUE])
         [] OTHER -> Says(<<R!OK>>, chip)

ChipRestart ==
    \/ Takes("ATZ") /\ Says(<<R!INIT>>, ChipBooted)
    \/ Takes("restart") /\ Says(<<S!INIT>>, ChipBooted)

ChipTest == Takes("test") /\ Says(<<R!OK>>, chip)

ChipJoin ==
    /\ Takes("join")
    /\ Says(IF Is3172 THEN <<R!OK>> ELSE <<>>,
            [chip EXCEPT !.joined = FALSE, !.air = "join"])

\* One message at a time, and none before it has joined.
ChipSend ==
    \E what \in {"meas", "alive", "err"} :
        /\ Takes(R!SendMsg(what)[1])
        /\ IF chip.joined /\ chip.air = None
           THEN Says(<<R!OK>>, [chip EXCEPT !.air = what])
           ELSE Says(<<IF Is3172 THEN R!BUSY
                       ELSE S!Error(IF chip.joined THEN 80 ELSE 86)>>, chip)

ChipBoots ==
    /\ chip.boots /\ chip' = [chip EXCEPT !.boots = FALSE]
    /\ line' = Append(line, S!INIT) /\ Len(line') <= MaxLines
    /\ UNCHANGED cmds

Chip == /\ \/ ChipBoots \/ ChipInit \/ ChipRestart \/ ChipTest \/ ChipJoin \/ ChipSend
        /\ UNCHANGED <<kind, ctx, server, up, faults>>

\* The air: joining takes longer than a turn of the main loop, which lets
\* Measurements see that the device is not connected.
Airs(l, c) ==
    /\ line' = Append(line, l) /\ Len(line') <= MaxLines
    /\ chip' = [c EXCEPT !.air = None]
    /\ UNCHANGED <<kind, ctx, cmds, server>>

ChipJoined ==
    /\ chip.air = "join" /\ (up = UpIdle \/ Connected(ctx))
    /\ \/ Airs(R!JOINED, [chip EXCEPT !.joined = TRUE]) /\ UNCHANGED faults
       \/ /\ Fault("radio")
          /\ Airs(IF Is3172 THEN R!JOIN_FAILED ELSE S!Error(99), chip)
    /\ UNCHANGED up

Arrives == up' = IF chip.air = "meas" /\ up.owed
                 THEN [up EXCEPT !.arrived = TRUE] ELSE up

ChipSent ==
    /\ chip.air \in {"meas", "alive", "err"}
    /\ \/ Airs(R!ACK, chip) /\ Arrives /\ UNCHANGED faults
       \/ /\ Fault("radio")
          /\ \E n \in {96, 97, 100} : Airs(IF Is3172 THEN R!NACK ELSE S!Error(n), chip)
          /\ UNCHANGED up \/ Arrives

\* What the server sends the modem passes on.
Downlink ==
    /\ server # <<>> /\ chip.joined
    /\ server' = Tail(server)
    /\ line' = Append(line, Head(server)) /\ Len(line') <= MaxLines
    /\ UNCHANGED <<kind, ctx, cmds, chip, up, faults>>
-----------------------------------------------------------------------------
(* What else may happen.                                                   *)

\* A line is lost, or downlinks are, as many as follow one another.
Lose ==
    /\ Fault("lose")
    /\ \/ line # <<>> /\ line' = Tail(line) /\ UNCHANGED server
       \/ /\ \E n \in 1..Len(server) :
                 server' = SubSeq(server, n + 1, Len(server))
          /\ UNCHANGED line
    /\ UNCHANGED <<kind, ctx, cmds, chip, up>>

\* The modem cannot do a command.
ChipFails ==
    /\ Fault("error") /\ cmds # <<>>
    /\ cmds' = Tail(cmds)
    /\ \E n \in {1, 80, 87} :
           Says(<<IF Is3172 THEN R!BUSY ELSE S!Error(n)>>, chip)
    /\ UNCHANGED <<kind, ctx, server, up>>

\* The server sends a command.
Remote(cmd) ==
    /\ Fault("cmd") /\ chip.joined
    /\ line' = Append(line, <<cmd, 0>>) /\ Len(line') <= MaxLines
    /\ UNCHANGED <<kind, ctx, cmds, chip, server, up>>
-----------------------------------------------------------------------------
Commands == {"dev-eui", "app-key", "region", "nonsense"}

Next ==
    \/ Hear \/ Resume \/ TimerFires
    \/ MeasOffline \/ MeasBusy \/ MeasSend
    \/ \E cmd \in Commands \cup {"restart", "connect", "test"} : Command(cmd)
    \/ Chip \/ ChipJoined \/ ChipSent \/ Downlink
    \/ Lose \/ ChipFails
    \/ \E cmd \in {"CMD restart", "CMD connect", "CCMD region", "CCMD nonsense"} :
           Remote(cmd)

\* The main loop turns, the modem answers and the radio gets through;
\* Measurements tries again and again.
Fairness ==
    /\ WF_vars(Hear) /\ WF_vars(Resume) /\ WF_vars(TimerFires)
    /\ WF_vars(Chip) /\ WF_vars(ChipJoined) /\ WF_vars(ChipSent)
    /\ WF_vars(MeasBusy) /\ WF_vars(MeasOffline)

Spec == Init /\ [][Next]_vars /\ Fairness
-----------------------------------------------------------------------------
TypeOK ==
    /\ kind \in Kinds
    /\ ctx.state \in (IF Is3172 THEN R!States ELSE S!States)
    /\ ctx.init \in 0..(IF Is3172 THEN Inits - 1 ELSE Inits)
    /\ ctx.next \in 0..Chunks
    /\ ctx.out = <<>> /\ ctx.ack = None
    /\ Len(line) <= MaxLines /\ Len(ctx.nest) <= MaxNest
    /\ ~Is3172 => /\ ctx.resend \in 0..MaxResend /\ ctx.resets \in 0..3
                  /\ ctx.silent \in BOOLEAN /\ ctx.slow \in BOOLEAN
    /\ up \in [{"pending", "owed", "arrived"} -> BOOLEAN]
    /\ faults \in [left : 0..MaxFaults, had : SUBSET Faults]

\* The RAK3172's driver tells Measurements of a success only when a message of
\* its own is out and has arrived: an acknowledgement that comes after the
\* driver has given up counts for nothing.  Answers to commands, and the
\* RAK4270's first message after it has joined, are passed on as well.  Nothing
\* in an acknowledgement says which message it is of: it takes eight timeouts
\* that are too early until the driver, a setup ahead of the modem, errs.
AckIsDeserved ==
    (/\ Hear /\ Process(ctx, Head(line)).ack = "ack"
     /\ Is3172 /\ "cmd" \notin faults.had)
    => (up.owed /\ up.arrived)

\* A device that takes itself for connected has joined the network, whatever
\* was lost, refused or failed, once the modem has done what it was told.
\* Commands that restart the modem behind a message being sent, and the
\* RAK4270's retries of what an error before the restart was about, are no
\* part of this.
ConnectedIsJoined ==
    (/\ Connected(ctx) /\ Quiet
     /\ faults.had \subseteq {"lose", "radio", "full"}) => chip.joined

\* The firmware taken in is the chunks in their order, each of them once, of
\* however many the server sends twice and however many are lost.
ChunksInOrder == \A i \in DOMAIN ctx.fw : ctx.fw[i] = i - 1

\* The device is usable, gets messages through, or waits to be configured,
\* again and again; or it is a RAK4270 that has not heard a line since a
\* timeout, which it powers off and on again faster than it may boot.
UsableOrOverdue ==
    \/ ctx.state = "IDLE" \/ up.arrived \/ ~IsValid(ctx.settings)
    \/ ~Is3172 /\ ctx.silent
=============================================================================
