------------------------------- MODULE Modbus -------------------------------
(***************************************************************************)
(* The Modbus master of src/core/modbus.c: one half-duplex bus, a queue of *)
(* registers to read whose head is the request being answered, retries of  *)
(* the head, and the write of mb_reg_set, for which the command waits in a *)
(* nested main loop.  The slaves are the environment.                      *)
(*                                                                         *)
(* Time is what the code compares it with: whether OSM_MODBUS_RESP_TIMEOUT *)
(* and MODBUS_TX_GAP have passed.  A frame reaches the UART ring in two    *)
(* parts, its header and its body.                                         *)
(***************************************************************************)
EXTENDS Naturals, Sequences

CONSTANTS
    Reg,             \* the registers that have been set up
    UnitOf,          \* reg->unit_id
    Words,           \* 16 bit words of the register's type
    Value,           \* what mb_reg_set writes
    Slots,           \* MODBUS_SLOTS
    MaxRetransmits,  \* MODBUS_MAX_RETRANSMITS
    Echo,            \* osm_modbus_requires_echo_removal()
    Binary,          \* modbus_bus->binary_protocol
    Faults,          \* what else may happen, see below
    MaxWire,         \* bound: requests the slaves keep, later ones are lost
    MaxRing,         \* bound: parts of frames the in ring has room for
    None

(* late: an answer may come, or be read, after the response timeout;       *)
(* garble: a frame may arrive corrupted; cut: the second part of a frame   *)
(* may be lost; gapread: a read may be started while the queue waits to be *)
(* sent; overfill: one may be started when there is no slot.  That a       *)
(* request or its answer is lost as a whole is always possible.            *)
AllFaults == {"late", "garble", "cut", "gapread", "overfill"}

VARIABLES
    queue,        \* _message_queue
    want_rx,      \* modbus_want_rx
    sent_old,     \* the timeout has passed since modbus_cur_send_time
    timing,       \* modbus_read_timing_init
    gap,          \* MODBUS_TX_GAP_MS have passed since modbus_read_last_good
    retransmits,  \* modbus_retransmit_count
    body,         \* the frame whose body is awaited (modbuspacket_len # 0)
    echo,         \* _echo_bytes # 0
    expected,     \* _modbus_reg_set_expected
    state,        \* reg->value_state
    from,         \* the register whose value reg->value_data is
    ring,         \* the EXT_UART in ring
    cmd,          \* the last mb_reg_set: running, or what it reported
    wire,         \* requests the slaves have not answered
    tail,         \* the frame whose second part is still to come
    slave,        \* the last value each register was written with
    tries         \* how often the queue's head has been transmitted

busVars == <<ring, wire, tail, slave>>
regVars == <<state, from>>
vars == <<queue, want_rx, sent_old, timing, gap, retransmits, body, echo,
          expected, state, from, ring, cmd, wire, tail, slave, tries>>

Reading(r)    == [kind |-> "read", reg |-> r, val |-> None]
Writing(r, v) == [kind |-> "write", reg |-> r, val |-> v]
Request == {Reading(r) : r \in Reg}
             \cup {Writing(r, v) : r \in Reg, v \in Value}

(* value, exception: the answers to a read; ack, reject: those to a write. *)
Answer(k, q, ok) == [kind |-> k, reg |-> q.reg, val |-> q.val, crc |-> ok]
AnswersTo(q) == IF q.kind = "read" THEN {"value", "exception"}
                                   ELSE {"ack", "reject"}
Frame == {Answer(k, q, ok) : k \in {"value", "exception", "ack", "reject"},
                             q \in Request, ok \in BOOLEAN}
ModbusAssumption ==
    /\ Words \in [Reg -> {1, 2}]
    /\ DOMAIN UnitOf = Reg
    /\ Slots \in Nat /\ Slots >= 1
    /\ MaxRetransmits \in Nat /\ MaxRetransmits >= 1
    /\ Echo \in BOOLEAN /\ Binary \in BOOLEAN
    /\ Faults \subseteq AllFaults
    /\ MaxWire \in Nat /\ MaxWire >= 1
    /\ MaxRing \in Nat /\ MaxRing >= 3
    /\ None \notin Reg \cup Value
    /\ None \notin Frame /\ None # "ok"

Part(p, f) == [part |-> p, frame |-> f]

Init ==
    /\ queue = <<>> /\ want_rx = FALSE /\ retransmits = 0
    /\ sent_old = FALSE /\ timing = "off" /\ gap = TRUE
    /\ body = None /\ echo = FALSE
    /\ expected = [not_done |-> FALSE, reg |-> None, val |-> None,
                   pass |-> FALSE]
    /\ state \in [Reg -> {"invalid", "waiting"}]
    /\ from = [r \in Reg |-> None]
    /\ ring = <<>> /\ wire = <<>> /\ tail = None
    /\ cmd = [on |-> FALSE, reg |-> None, val |-> None, res |-> None]
    /\ slave = [r \in Reg |-> None]
    /\ tries = 0
-----------------------------------------------------------------------------
(* Sending.  On a platform that hears itself the ring gets every frame     *)
(* back; _echo_bytes is set for reads alone.  The echo of a write of one   *)
(* word is byte for byte its acknowledgement, that of a longer one is no   *)
(* valid answer.                                                           *)

EchoOf(q) ==
    IF ~Echo THEN <<>>
    ELSE IF q.kind = "read" THEN <<Part("echo", Answer("value", q, FALSE))>>
    ELSE LET f == Answer("ack", q, Words[q.reg] = 1)
         IN  <<Part("head", f), Part("body", f)>>

OnWire(q) == IF Len(wire) < MaxWire THEN Append(wire, q) ELSE wire

\* What does not fit in the ring is dropped.
IntoRing(s, t) == IF Len(s \o t) <= MaxRing THEN s \o t ELSE s

\* _modbus_do_start_read, the ring holding `left' when it is called.
SendRead(r, left) ==
    /\ want_rx' = TRUE /\ sent_old' = FALSE
    /\ wire' = OnWire(Reading(r))
    /\ ring' = IntoRing(left, EchoOf(Reading(r)))
    /\ echo' = (echo \/ Echo)
    /\ state' = [state EXCEPT ![r] = "waiting"]

\* tries is counted up to one more than there should be.
Again(n) == IF n > MaxRetransmits THEN n ELSE n + 1

HasPending == want_rx \/ queue # <<>>

\* Mutant: sent at once even if an answer is awaited.
StartReadAtOnce(r) ==
    /\ ~cmd.on
    /\ Len(queue) < Slots
    /\ queue' = Append(queue, r)
    /\ SendRead(r, ring)
    /\ tries' = IF queue = <<>> THEN 1 ELSE tries
    /\ UNCHANGED <<timing, gap, retransmits, body, expected, from, cmd,
                   tail, slave>>

\* osm_modbus_start_read with a free slot: sent at once unless an answer is
\* awaited.
StartRead(r) ==
    /\ ~cmd.on
    /\ Len(queue) < Slots
    /\ queue' = Append(queue, r)
    /\ IF want_rx
       THEN /\ state' = [state EXCEPT ![r] = "waiting"]
            /\ UNCHANGED <<want_rx, sent_old, wire, ring, echo, tries>>
       ELSE /\ queue = <<>> \/ "gapread" \in Faults
            /\ SendRead(r, ring)
            /\ tries' = IF queue = <<>> THEN 1 ELSE tries
    /\ UNCHANGED <<timing, gap, retransmits, body, expected, from, cmd,
                   tail, slave>>

\* osm_modbus_start_read with none: refused while an answer may still come
\* (no step), else the slots are restarted.  modbus_read_timing_init and
\* modbuspacket_len are left as they are.
Restart(r) ==
    /\ ~cmd.on
    /\ "overfill" \in Faults
    /\ Len(queue) = Slots
    /\ want_rx => sent_old
    /\ queue' = <<r>>
    /\ gap' = TRUE
    /\ timing' = IF timing = "new" THEN "stale" ELSE timing
    /\ SendRead(r, ring)
    /\ tries' = 1
    /\ UNCHANGED <<retransmits, body, expected, from, cmd, tail, slave>>

\* _modbus_set_reg_cb and osm_modbus_set_reg.
Write(r, v) ==
    /\ ~cmd.on
    /\ ~HasPending
    /\ expected' = [not_done |-> TRUE, reg |-> r, val |-> v, pass |-> FALSE]
    /\ want_rx' = TRUE /\ sent_old' = FALSE
    /\ wire' = OnWire(Writing(r, v))
    /\ ring' = IntoRing(ring, EchoOf(Writing(r, v)))
    /\ cmd' = [on |-> TRUE, reg |-> r, val |-> v, res |-> None]
    /\ UNCHANGED <<queue, timing, gap, retransmits, body, echo, regVars,
                   tail, slave, tries>>

\* osm_main_loop_iterate_for returns TRUE ...
WriteDone ==
    /\ cmd.on
    /\ ~HasPending /\ ~expected.not_done
    /\ cmd' = [cmd EXCEPT !.on = FALSE,
                          !.res = IF expected.pass THEN "ok" ELSE "failed"]
    /\ UNCHANGED <<queue, want_rx, sent_old, timing, gap, retransmits, body,
                   echo, expected, regVars, busVars, tries>>

\* ... or FALSE: "Timed out waiting for acknowledgement."
WriteTimesOut ==
    /\ cmd.on
    /\ HasPending \/ expected.not_done
    /\ sent_old
    /\ cmd' = [cmd EXCEPT !.on = FALSE, !.res = "timeout"]
    /\ UNCHANGED <<queue, want_rx, sent_old, timing, gap, retransmits, body,
                   echo, expected, regVars, busVars, tries>>
-----------------------------------------------------------------------------
(* osm_modbus_uart_ring_in_process, a call of it per step.                 *)

TimedOut == IF timing = "off" THEN sent_old ELSE timing = "old"

\* No answer awaited: what has come is thrown away ...
RxClear ==
    /\ ~want_rx /\ ring # <<>>
    /\ queue = <<>> \/ ~gap
    /\ ring' = <<>>
    /\ UNCHANGED <<queue, want_rx, sent_old, timing, gap, retransmits, body,
                   echo, expected, regVars, cmd, wire, tail, slave, tries>>

\* ... and the head of the queue is sent once the bus has been quiet.
RxNext ==
    /\ ~want_rx /\ queue # <<>> /\ gap
    /\ SendRead(Head(queue), <<>>)
    /\ tries' = Again(tries)
    /\ UNCHANGED <<queue, timing, gap, retransmits, body, expected, from,
                   cmd, tail, slave>>

\* _modbus_has_timedout: the head is sent again ...
RxResend ==
    /\ want_rx /\ TimedOut
    /\ retransmits + 1 < MaxRetransmits
    /\ retransmits' = retransmits + 1
    /\ body' = None /\ timing' = "off"
    /\ IF queue = <<>>
       THEN /\ want_rx' = FALSE /\ ring' = <<>>
            /\ UNCHANGED <<sent_old, wire, echo, state, tries>>
       ELSE /\ SendRead(Head(queue), <<>>)
            /\ tries' = Again(tries)
    /\ UNCHANGED <<queue, gap, expected, from, cmd, tail, slave>>

\* Mutant: the count starts again but the head stays.
RxDropNothing ==
    /\ want_rx /\ TimedOut
    /\ retransmits + 1 >= MaxRetransmits
    /\ retransmits' = 0
    /\ body' = None /\ timing' = "off"
    /\ want_rx' = FALSE /\ ring' = <<>>
    /\ tries' = 0
    /\ UNCHANGED <<queue, sent_old, gap, echo, expected, regVars, cmd, wire,
                   tail, slave>>

\* Mutant: the head is sent again before it is dropped.
RxDropResends ==
    /\ want_rx /\ TimedOut
    /\ retransmits + 1 >= MaxRetransmits
    /\ retransmits' = 0
    /\ body' = None /\ timing' = "off"
    /\ IF queue = <<>>
       THEN /\ want_rx' = FALSE /\ ring' = <<>>
            /\ UNCHANGED <<queue, sent_old, echo, state, wire>>
       ELSE SendRead(Head(queue), <<>>) /\ queue' = Tail(queue)
    /\ tries' = 0
    /\ UNCHANGED <<gap, expected, from, cmd, tail, slave>>

\* ... or given up.  Its value_state stays as it is.
RxDrop ==
    /\ want_rx /\ TimedOut
    /\ retransmits + 1 >= MaxRetransmits
    /\ retransmits' = 0
    /\ body' = None /\ timing' = "off"
    /\ want_rx' = FALSE /\ ring' = <<>>
    /\ queue' = IF queue = <<>> THEN <<>> ELSE Tail(queue)
    /\ tries' = 0
    /\ UNCHANGED <<sent_old, gap, echo, expected, regVars, cmd, wire, tail,
                   slave>>

Listening == want_rx /\ ~TimedOut /\ ring # <<>>

RxEcho ==
    /\ Listening /\ echo
    /\ echo' = FALSE
    /\ ring' = Tail(ring)
    /\ UNCHANGED <<queue, want_rx, sent_old, timing, gap, retransmits, body,
                   expected, regVars, cmd, wire, tail, slave, tries>>

\* Bytes that are the start of no answer are skipped ...
RxSkip ==
    /\ Listening /\ ~echo /\ body = None
    /\ ring[1].part # "head"
    /\ ring' = Tail(ring)
    /\ timing' = "off"
    /\ UNCHANGED <<queue, want_rx, sent_old, gap, retransmits, body, echo,
                   expected, regVars, cmd, wire, tail, slave, tries>>

\* ... unless they look like one.  A header restarts the timeout.
RxHeader ==
    /\ Listening /\ ~echo /\ body = None
    /\ ring[1].part = "head" => Len(ring) = 1
    /\ body' = IF ring[1].part = "head" THEN ring[1].frame
               ELSE Answer(ring[1].frame.kind, ring[1].frame, FALSE)
    /\ ring' = Tail(ring)
    /\ timing' = "new"
    /\ UNCHANGED <<queue, want_rx, sent_old, gap, retransmits, echo,
                   expected, regVars, cmd, wire, tail, slave, tries>>

\* The frame whose header has been read, earlier or in this call, and where
\* in the ring its body is; the body may be read once it can be long enough.
Cur == IF body # None THEN body ELSE ring[1].frame
BodyAt == IF body # None THEN 1 ELSE 2
Whole ==
    /\ Listening /\ ~echo
    /\ Len(ring) >= BodyAt
    /\ IF body # None THEN ring[1].part = "body" \/ Len(ring) > 1
                      ELSE ring[1].part = "head"

Intact == Cur.crc /\ ring[BodyAt] = Part("body", Cur)

RxBad ==
    /\ Whole /\ ~Intact
    /\ ring' = SubSeq(ring, BodyAt + 1, Len(ring))
    /\ timing' = "off"
    /\ \/ /\ body' = None /\ want_rx' = FALSE           \* "Bad CRC"
       \/ /\ Binary /\ body' = Cur /\ UNCHANGED want_rx  \* no frame stop
    /\ UNCHANGED <<queue, sent_old, gap, retransmits, echo, expected,
                   regVars, cmd, wire, tail, slave, tries>>

\* Common to every frame with a good CRC.
Received ==
    /\ Whole /\ Intact
    /\ ring' = SubSeq(ring, BodyAt + 1, Len(ring))
    /\ body' = None /\ timing' = "off" /\ want_rx' = FALSE

\* The acknowledgement of a write is compared with what was written: a
\* write of one word by unit, address and value, a longer one by unit,
\* address and number of registers.
Matches(f) ==
    /\ expected.not_done
    /\ f.reg = expected.reg
    /\ Words[f.reg] = 1 => f.val = expected.val

\* Mutant: the exception bit of the function is masked.
AcknowledgesMasked(f) == f.kind \in {"ack", "reject"}

\* Told by its function.
Acknowledges(f) == f.kind = "ack"

RxAck ==
    /\ Received
    /\ Acknowledges(Cur)
    /\ expected' = [expected EXCEPT !.not_done = FALSE, !.pass = Matches(Cur)]
    /\ UNCHANGED <<queue, sent_old, gap, retransmits, echo, regVars, cmd,
                   wire, tail, slave, tries>>

\* Any other frame is for the head of the queue: "Modbus comms issues!" if
\* there is none.
RxNoneQueued ==
    /\ Received
    /\ ~Acknowledges(Cur) /\ queue = <<>>
    /\ UNCHANGED <<queue, sent_old, gap, retransmits, echo, expected,
                   regVars, cmd, wire, tail, slave, tries>>

\* What the head of the queue may become: the answer is its own if the unit
\* is and the length fits.  The refusal of a write is taken for a reading,
\* its exception code for the number of bytes.
Stored(f, r) ==
    IF f.kind = "exception" \/ UnitOf[f.reg] # UnitOf[r] THEN {"invalid"}
    ELSE IF f.kind = "reject" THEN {"invalid", "ready"}
    ELSE IF Words[f.reg] = Words[r] THEN {"ready"} ELSE {"invalid"}

RxReply ==
    /\ Received
    /\ ~Acknowledges(Cur) /\ queue # <<>>
    /\ queue' = Tail(queue)
    /\ gap' = FALSE
    /\ retransmits' = 0
    /\ tries' = 0
    /\ \E s \in Stored(Cur, Head(queue)) :
         /\ state' = [state EXCEPT ![Head(queue)] = s]
         /\ from' = IF s # "ready" THEN from
                    ELSE [from EXCEPT ![Head(queue)] =
                            IF Cur.kind = "value" THEN Cur.reg ELSE None]
    /\ UNCHANGED <<sent_old, echo, expected, cmd, wire, tail, slave>>

Rx == RxClear \/ RxNext \/ RxResend \/ RxDrop \/ RxEcho \/ RxSkip
        \/ RxHeader \/ RxBad \/ RxAck \/ RxNoneQueued \/ RxReply
-----------------------------------------------------------------------------
(* The slaves and the passing of time.                                     *)

InFlight == wire # <<>> \/ tail # None

\* Slaves answer in the order they were asked.
SlaveAnswers ==
    /\ wire # <<>> /\ tail = None
    /\ \E k \in AnswersTo(Head(wire)),
          ok \in IF "garble" \in Faults THEN BOOLEAN ELSE {TRUE} :
         LET f == Answer(k, Head(wire), ok)
         IN  /\ ring' = IntoRing(ring, <<Part("head", f)>>)
             /\ tail' = f
             /\ slave' = IF k = "ack" THEN [slave EXCEPT ![f.reg] = f.val]
                         ELSE slave
    /\ wire' = Tail(wire)
    /\ UNCHANGED <<queue, want_rx, sent_old, timing, gap, retransmits, body,
                   echo, expected, regVars, cmd, tries>>

\* A request the slave did not get, or whose answer did not come.
Lost ==
    /\ wire # <<>>
    /\ wire' = Tail(wire)
    /\ \/ UNCHANGED slave
       \/ /\ Head(wire).kind = "write"
          /\ slave' = [slave EXCEPT ![Head(wire).reg] = Head(wire).val]
    /\ UNCHANGED <<queue, want_rx, sent_old, timing, gap, retransmits, body,
                   echo, expected, regVars, ring, cmd, tail, tries>>

RestComes ==
    /\ tail # None
    /\ ring' = IntoRing(ring, <<Part("body", tail)>>)
    /\ tail' = None
    /\ UNCHANGED <<queue, want_rx, sent_old, timing, gap, retransmits, body,
                   echo, expected, regVars, cmd, wire, slave, tries>>

RestLost ==
    /\ "cut" \in Faults
    /\ tail # None
    /\ tail' = None
    /\ UNCHANGED <<queue, want_rx, sent_old, timing, gap, retransmits, body,
                   echo, expected, regVars, ring, cmd, wire, slave, tries>>

Slaves == SlaveAnswers \/ Lost \/ RestComes \/ RestLost

\* What is not late has come, and has been read, before the timeout: the
\* ring is empty or holds less than the body that is awaited.
AnswersAreIn ==
    \/ "late" \in Faults
    \/ /\ ~InFlight
       /\ Len(ring) <= 1
       /\ ring # <<>> => body # None /\ ring[1].part # "body"

SendAges ==
    /\ want_rx \/ cmd.on
    /\ ~sent_old
    /\ AnswersAreIn
    /\ sent_old' = TRUE
    /\ UNCHANGED <<queue, want_rx, timing, gap, retransmits, body, echo,
                   expected, regVars, busVars, cmd, tries>>

\* "stale": started before the current request was sent.
TimingAges ==
    /\ \/ timing = "new" /\ sent_old /\ AnswersAreIn
       \/ timing = "stale"
    /\ timing' = "old"
    /\ UNCHANGED <<queue, want_rx, sent_old, gap, retransmits, body, echo,
                   expected, regVars, busVars, cmd, tries>>

GapEnds ==
    /\ ~gap
    /\ gap' = TRUE
    /\ UNCHANGED <<queue, want_rx, sent_old, timing, retransmits, body, echo,
                   expected, regVars, busVars, cmd, tries>>

Ages == SendAges \/ TimingAges \/ GapEnds

Starts == \E r \in Reg : \/ StartRead(r) \/ Restart(r)
                         \/ \E v \in Value : Write(r, v)
Next == Starts \/ WriteDone \/ WriteTimesOut \/ Rx \/ Slaves \/ Ages

Spec == Init /\ [][Next]_vars

\* The main loop calls in_process again and again, the nested one of
\* mb_reg_set ends, time passes, and a slave that is not late has answered or
\* not by the timeout.
FairSpec == /\ Spec
            /\ WF_vars(Rx) /\ WF_vars(WriteDone \/ WriteTimesOut)
            /\ WF_vars(Ages) /\ WF_vars(Slaves)
-----------------------------------------------------------------------------
TypeOK ==
    /\ queue \in Seq(Reg) /\ Len(queue) <= Slots
    /\ want_rx \in BOOLEAN /\ sent_old \in BOOLEAN /\ gap \in BOOLEAN
    /\ timing \in {"off", "new", "stale", "old"}
    /\ retransmits \in 0 .. MaxRetransmits - 1
    /\ body \in Frame \cup {None}
    /\ echo \in BOOLEAN
    /\ expected \in [not_done : BOOLEAN, reg : Reg \cup {None},
                     val : Value \cup {None}, pass : BOOLEAN]
    /\ state \in [Reg -> {"invalid", "waiting", "ready"}]
    /\ from \in [Reg -> Reg \cup {None}]
    /\ ring \in Seq([part : {"head", "body", "echo"}, frame : Frame])
    /\ Len(ring) <= MaxRing
    /\ cmd \in [on : BOOLEAN, reg : Reg \cup {None}, val : Value \cup {None},
                res : {"ok", "failed", "timeout", None}]
    /\ wire \in Seq(Request) /\ Len(wire) <= MaxWire
    /\ tail \in Frame \cup {None}
    /\ slave \in [Reg -> Value \cup {None}]
    /\ tries \in 0 .. MaxRetransmits + 1

\* A register that is READY holds a value its own slave gave for it: the
\* frame that took it from the queue answered the request for it.
AnswerIsOwn == \A r \in Reg : state[r] = "ready" => from[r] = r

\* The bus is half duplex: while a request or its answer is on the way no
\* other request is sent.
OneOnTheBus == Len(wire) + (IF tail = None THEN 0 ELSE 1) <= 1

\* "Successfully set" is reported only of a write the slave has done.
WriteIsDone == cmd.res = "ok" => slave[cmd.reg] = cmd.val

\* No request is transmitted more than MODBUS_MAX_RETRANSMITS times.
TriesBounded == tries <= MaxRetransmits

\* Once nobody asks for more, the bus comes to rest, whatever is lost.
ComesToRest == []<><<Starts>>_vars \/ <>[](~HasPending)
=============================================================================
