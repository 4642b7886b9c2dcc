---------------------------- MODULE ModbusProofs ----------------------------
(***************************************************************************)
(* Proofs about Modbus, for any registers, units, numbers of slots and of  *)
(* transmissions.                                                          *)
(***************************************************************************)
EXTENDS Modbus, SequenceTheorems, TLAPS

Parts == [part : {"head", "body", "echo"}, frame : Frame]
Commands == [on : BOOLEAN, reg : Reg \cup {None}, val : Value \cup {None},
             res : {"ok", "failed", "timeout", None}]
Expectations == [not_done : BOOLEAN, reg : Reg \cup {None},
                 val : Value \cup {None}, pass : BOOLEAN]

-----------------------------------------------------------------------------
(* Requests, frames and short sequences.                                   *)

LEMMA RequestType ==
    /\ \A r \in Reg : Reading(r) \in Request
    /\ \A r \in Reg, v \in Value : Writing(r, v) \in Request
    /\ \A q \in Request : q.reg \in Reg /\ q.val \in Value \cup {None} /\ q.kind \in {"read", "write"}
    /\ \A q \in Request : q.kind = "write" => q.val \in Value
<1>1. /\ \A r \in Reg : Reading(r) \in Request
      /\ \A r \in Reg, v \in Value : Writing(r, v) \in Request
  BY DEF Request
<1>2. ASSUME NEW q \in Request
      PROVE  /\ q.reg \in Reg /\ q.val \in Value \cup {None} /\ q.kind \in {"read", "write"}
             /\ q.kind = "write" => q.val \in Value
  <2>1. CASE \E r \in Reg : q = Reading(r)
    BY <2>1 DEF Reading
  <2>2. CASE \E r \in Reg, v \in Value : q = Writing(r, v)
    BY <2>2 DEF Writing
  <2> QED BY <2>1, <2>2 DEF Request
<1> QED BY <1>1, <1>2

LEMMA AnswerType ==
    ASSUME NEW k \in {"value", "exception", "ack", "reject"}, NEW q \in Request, NEW ok \in BOOLEAN
    PROVE  /\ Answer(k, q, ok) \in Frame
           /\ Answer(k, q, ok).kind = k /\ Answer(k, q, ok).reg = q.reg
           /\ Answer(k, q, ok).val = q.val /\ Answer(k, q, ok).crc = ok
BY DEF Frame, Answer

LEMMA FrameType ==
    ASSUME NEW f \in Frame
    PROVE  /\ f.kind \in {"value", "exception", "ack", "reject"}
           /\ f.reg \in Reg /\ f.val \in Value \cup {None} /\ f.crc \in BOOLEAN
           /\ Answer(f.kind, f, FALSE) \in Frame
<1>1. PICK k \in {"value", "exception", "ack", "reject"}, q \in Request, ok \in BOOLEAN :
        f = Answer(k, q, ok)
  BY DEF Frame
<1>2. f = [kind |-> k, reg |-> q.reg, val |-> q.val, crc |-> ok]
  BY <1>1 DEF Answer
<1>3. Answer(f.kind, f, FALSE) = Answer(k, q, FALSE)
  BY <1>2 DEF Answer
<1>5. Answer(k, q, FALSE) \in Frame
  BY AnswerType
<1>6. q.reg \in Reg /\ q.val \in Value \cup {None}
  BY RequestType
<1> QED BY <1>2, <1>3, <1>5, <1>6

LEMMA PartType ==
    ASSUME NEW p \in {"head", "body", "echo"}, NEW f \in Frame
    PROVE  /\ Part(p, f) \in Parts
           /\ Part(p, f).part = p /\ Part(p, f).frame = f
BY DEF Parts, Part

LEMMA IntoRingType ==
    ASSUME ModbusAssumption, NEW s \in Seq(Parts), Len(s) <= MaxRing, NEW t \in Seq(Parts)
    PROVE  IntoRing(s, t) \in Seq(Parts) /\ Len(IntoRing(s, t)) <= MaxRing
BY DEF IntoRing

LEMMA EchoType ==
    ASSUME ModbusAssumption, NEW q \in Request
    PROVE  EchoOf(q) \in Seq(Parts)
<1>1. Answer("value", q, FALSE) \in Frame
  BY AnswerType
<1>2. Answer("ack", q, Words[q.reg] = 1) \in Frame
  BY AnswerType
<1>3. CASE ~Echo
  BY <1>3 DEF EchoOf
<1>4. CASE Echo /\ q.kind = "read"
  <2> DEFINE p == Part("echo", Answer("value", q, FALSE))
  <2>1. EchoOf(q) = <<p>>
    BY <1>4 DEF EchoOf
  <2>2. p \in Parts
    BY <1>1, PartType
  <2> HIDE DEF p
  <2> QED BY <2>1, <2>2
<1>5. CASE Echo /\ q.kind # "read"
  <2> DEFINE f == Answer("ack", q, Words[q.reg] = 1)
  <2>1. EchoOf(q) = <<Part("head", f), Part("body", f)>>
    BY <1>5 DEF EchoOf
  <2>2. Part("head", f) \in Parts /\ Part("body", f) \in Parts
    BY <1>2, PartType
  <2> QED BY <2>1, <2>2
<1> QED BY <1>3, <1>4, <1>5

LEMMA OnWireType ==
    ASSUME ModbusAssumption, TypeOK, NEW q \in Request
    PROVE  OnWire(q) \in Seq(Request) /\ Len(OnWire(q)) <= MaxWire
BY DEF OnWire, TypeOK, ModbusAssumption

-----------------------------------------------------------------------------
(* Types.                                                                  *)

LEMMA InitType ==
    ASSUME ModbusAssumption, Init
    PROVE  TypeOK
<1>1. state \in [Reg -> {"invalid", "waiting", "ready"}]
  BY DEF Init
<1>2. /\ queue \in Seq(Reg) /\ Len(queue) <= Slots
      /\ wire \in Seq(Request) /\ Len(wire) <= MaxWire
      /\ ring \in Seq(Parts) /\ Len(ring) <= MaxRing
  BY DEF Init, ModbusAssumption
<1>3. retransmits \in 0 .. MaxRetransmits - 1 /\ tries \in 0 .. MaxRetransmits + 1
  BY DEF Init, ModbusAssumption
<1>4. /\ from \in [Reg -> Reg \cup {None}]
      /\ slave \in [Reg -> Value \cup {None}]
  BY DEF Init
<1> QED BY <1>1, <1>2, <1>3, <1>4 DEF Init, TypeOK, Parts

LEMMA SendReadType ==
    ASSUME ModbusAssumption, TypeOK, NEW r \in Reg, NEW left \in Seq(Parts), Len(left) <= MaxRing,
           SendRead(r, left)
    PROVE  /\ want_rx' \in BOOLEAN /\ sent_old' \in BOOLEAN /\ echo' \in BOOLEAN
           /\ wire' \in Seq(Request) /\ Len(wire') <= MaxWire
           /\ ring' \in Seq(Parts) /\ Len(ring') <= MaxRing
           /\ state' \in [Reg -> {"invalid", "waiting", "ready"}]
<1>1. Reading(r) \in Request
  BY RequestType
<1>2. wire' \in Seq(Request) /\ Len(wire') <= MaxWire
  BY <1>1, OnWireType DEF SendRead
<1>3. ring' \in Seq(Parts) /\ Len(ring') <= MaxRing
  BY <1>1, EchoType, IntoRingType DEF SendRead
<1> QED BY <1>2, <1>3 DEF SendRead, TypeOK, ModbusAssumption

\* mb_reg_set ends.
LEMMA CommandType ==
    ASSUME NEW c \in Commands, NEW x \in {"ok", "failed", "timeout"}
    PROVE  LET d == [c EXCEPT !.on = FALSE, !.res = x]
           IN  /\ d \in Commands
               /\ d.on = FALSE /\ d.res = x /\ d.reg = c.reg /\ d.val = c.val
BY DEF Commands

\* A write is acknowledged.
LEMMA ExpectationType ==
    ASSUME NEW e \in Expectations, NEW x \in BOOLEAN
    PROVE  LET d == [e EXCEPT !.not_done = FALSE, !.pass = x]
           IN  /\ d \in Expectations
               /\ d.not_done = FALSE /\ d.pass = x /\ d.reg = e.reg /\ d.val = e.val
BY DEF Expectations

\* The first part in the ring, and what is left behind it.
LEMMA RingType ==
    ASSUME TypeOK, ring # <<>>
    PROVE  /\ ring \in Seq(Parts) /\ ring[1] \in Parts
           /\ ring[1].frame \in Frame /\ ring[1].part \in {"head", "body", "echo"}
           /\ Tail(ring) \in Seq(Parts) /\ Len(Tail(ring)) = Len(ring) - 1
<1>1. ring \in Seq(Parts)
  BY DEF TypeOK, Parts
<1>2. ring[1] \in Parts
  BY <1>1
<1> QED BY <1>1, <1>2 DEF Parts

\* What is behind the first k of a sequence.
LEMMA BehindType ==
    ASSUME NEW S, NEW s \in Seq(S), NEW k \in 0 .. Len(s)
    PROVE  /\ SubSeq(s, k + 1, Len(s)) \in Seq(S)
           /\ Len(SubSeq(s, k + 1, Len(s))) = Len(s) - k
           /\ \A i \in 1 .. Len(s) - k : SubSeq(s, k + 1, Len(s))[i] = s[k + i]
<1>1. k + 1 \in Int /\ Len(s) \in Int /\ Len(s) - (k + 1) + 1 = Len(s) - k
  OBVIOUS
<1>2. \A i \in k + 1 .. Len(s) : s[i] \in S
  OBVIOUS
<1>3. /\ SubSeq(s, k + 1, Len(s)) \in Seq(S)
      /\ Len(SubSeq(s, k + 1, Len(s))) = IF k + 1 <= Len(s) THEN Len(s) - (k + 1) + 1 ELSE 0
      /\ \A i \in 1 .. Len(s) - (k + 1) + 1 : SubSeq(s, k + 1, Len(s))[i] = s[k + 1 + i - 1]
  BY <1>1, <1>2, SubSeqProperties
<1>4. \A i \in 1 .. Len(s) - k : SubSeq(s, k + 1, Len(s))[i] = s[k + i]
  <2>1. ASSUME NEW i \in 1 .. Len(s) - k
        PROVE  k + 1 + i - 1 = k + i /\ i \in 1 .. Len(s) - (k + 1) + 1
    OBVIOUS
  <2> QED BY <2>1, <1>3
<1>5. Len(SubSeq(s, k + 1, Len(s))) = Len(s) - k
  <2>1. CASE k + 1 <= Len(s)
    BY <2>1, <1>1, <1>3
  <2>2. CASE ~(k + 1 <= Len(s))
    <3>1. Len(s) - k = 0
      BY <2>2
    <3> QED BY <2>2, <3>1, <1>3
  <2> QED BY <2>1, <2>2
<1> QED BY <1>3, <1>4, <1>5

LEMMA WholeType ==
    ASSUME TypeOK, Whole
    PROVE  /\ Cur \in Frame
           /\ BodyAt \in {1, 2} /\ Len(ring) >= BodyAt
           /\ SubSeq(ring, BodyAt + 1, Len(ring)) \in Seq(Parts)
           /\ Len(SubSeq(ring, BodyAt + 1, Len(ring))) = Len(ring) - BodyAt
<1>1. BodyAt \in {1, 2} /\ Len(ring) >= BodyAt /\ ring # <<>>
  BY DEF Whole, BodyAt, Listening
<1>2. Cur \in Frame
  BY <1>1, RingType DEF Cur, TypeOK
<1>3. ring \in Seq(Parts) /\ Len(ring) \in Nat
  BY <1>1, RingType
<1>4. BodyAt \in 0 .. Len(ring)
  BY <1>1, <1>3
<1> QED BY <1>1, <1>2, <1>3, <1>4, BehindType


-----------------------------------------------------------------------------
(* Each step keeps the types.                                              *)

LEMMA SendType ==
    ASSUME ModbusAssumption, TypeOK, NEW r \in Reg, NEW left \in Seq(Parts), Len(left) <= MaxRing,
           SendRead(r, left)
    PROVE  /\ want_rx' \in BOOLEAN /\ sent_old' \in BOOLEAN /\ echo' \in BOOLEAN
           /\ wire' \in Seq(Request) /\ Len(wire') <= MaxWire
           /\ ring' \in Seq(Parts) /\ Len(ring') <= MaxRing
           /\ state' \in [Reg -> {"invalid", "waiting", "ready"}]
<1>1. Reading(r) \in Request
  BY RequestType
<1>2. wire' \in Seq(Request) /\ Len(wire') <= MaxWire
  BY <1>1, OnWireType DEF SendRead
<1>3. ring' \in Seq(Parts) /\ Len(ring') <= MaxRing
  BY <1>1, EchoType, IntoRingType DEF SendRead
<1> QED BY <1>2, <1>3 DEF SendRead, TypeOK, ModbusAssumption

LEMMA StartReadType ==
    ASSUME ModbusAssumption, TypeOK, NEW r \in Reg, StartRead(r)
    PROVE  TypeOK'
<1>1. queue' \in Seq(Reg) /\ Len(queue') <= Slots
  BY DEF StartRead, TypeOK, ModbusAssumption
<1>2. UNCHANGED <<timing, gap, retransmits, body, expected, from, cmd, tail, slave>>
  BY DEF StartRead
<1>3. CASE want_rx
  <2>1. state' \in [Reg -> {"invalid", "waiting", "ready"}]
    BY <1>3 DEF StartRead, TypeOK
  <2>2. UNCHANGED <<want_rx, sent_old, wire, ring, echo, tries>>
    BY <1>3 DEF StartRead
  <2> QED BY <1>1, <1>2, <2>1, <2>2 DEF TypeOK
<1>4. CASE ~want_rx
  <2>1. SendRead(r, ring) /\ ring \in Seq(Parts) /\ Len(ring) <= MaxRing
    BY <1>4 DEF StartRead, TypeOK, Parts
  <2>2. tries' \in 0 .. MaxRetransmits + 1
    BY <1>4 DEF StartRead, TypeOK, ModbusAssumption
  <2>3. /\ want_rx' \in BOOLEAN /\ sent_old' \in BOOLEAN /\ echo' \in BOOLEAN
        /\ wire' \in Seq(Request) /\ Len(wire') <= MaxWire
        /\ ring' \in Seq(Parts) /\ Len(ring') <= MaxRing
        /\ state' \in [Reg -> {"invalid", "waiting", "ready"}]
    BY <2>1, SendType
  <2> QED BY <1>1, <1>2, <2>2, <2>3 DEF TypeOK, Parts
<1> QED BY <1>3, <1>4

LEMMA RestartType ==
    ASSUME ModbusAssumption, TypeOK, NEW r \in Reg, Restart(r)
    PROVE  TypeOK'
<1>1. queue' \in Seq(Reg) /\ Len(queue') <= Slots
  BY DEF Restart, ModbusAssumption
<1>2. SendRead(r, ring) /\ ring \in Seq(Parts) /\ Len(ring) <= MaxRing
  BY DEF Restart, TypeOK, Parts
<1>3. /\ tries' \in 0 .. MaxRetransmits + 1 /\ gap' \in BOOLEAN
      /\ timing' \in {"off", "new", "stale", "old"}
  BY DEF Restart, TypeOK, ModbusAssumption
<1>4. /\ want_rx' \in BOOLEAN /\ sent_old' \in BOOLEAN /\ echo' \in BOOLEAN
      /\ wire' \in Seq(Request) /\ Len(wire') <= MaxWire
      /\ ring' \in Seq(Parts) /\ Len(ring') <= MaxRing
      /\ state' \in [Reg -> {"invalid", "waiting", "ready"}]
  BY <1>2, SendType
<1>5. UNCHANGED <<retransmits, body, expected, from, cmd, tail, slave>>
  BY DEF Restart
<1> QED BY <1>1, <1>3, <1>4, <1>5 DEF TypeOK, Parts

LEMMA WriteType ==
    ASSUME ModbusAssumption, TypeOK, NEW r \in Reg, NEW v \in Value, Write(r, v)
    PROVE  TypeOK'
<1>1. Writing(r, v) \in Request
  BY RequestType
<1>2. wire' \in Seq(Request) /\ Len(wire') <= MaxWire
  BY <1>1, OnWireType DEF Write
<1>3. ring' \in Seq(Parts) /\ Len(ring') <= MaxRing
  BY <1>1, EchoType, IntoRingType DEF Write, TypeOK, Parts
<1>4. expected' \in Expectations
  BY DEF Write, Expectations
<1>5. cmd' \in Commands
  BY DEF Write, Commands
<1>6. want_rx' \in BOOLEAN /\ sent_old' \in BOOLEAN
  BY DEF Write
<1>7. UNCHANGED <<queue, timing, gap, retransmits, body, echo, state, from, tail, slave, tries>>
  BY DEF Write, regVars
<1> QED BY <1>2, <1>3, <1>4, <1>5, <1>6, <1>7 DEF TypeOK, Parts, Expectations, Commands

\* Both ways in which mb_reg_set ends.
LEMMA EndsType ==
    ASSUME TypeOK, WriteDone \/ WriteTimesOut
    PROVE  TypeOK'
<1>1. PICK x \in {"ok", "failed", "timeout"} : cmd' = [cmd EXCEPT !.on = FALSE, !.res = x]
  BY DEF WriteDone, WriteTimesOut
<1>2. cmd \in Commands
  BY DEF TypeOK, Commands
<1>3. cmd' \in Commands
  BY <1>1, <1>2, CommandType
<1>4. UNCHANGED <<queue, want_rx, sent_old, timing, gap, retransmits, body, echo,
                  expected, state, from, ring, wire, tail, slave, tries>>
  BY DEF WriteDone, WriteTimesOut, regVars, busVars
<1> QED BY <1>3, <1>4 DEF TypeOK, Commands

LEMMA ClearType ==
    ASSUME ModbusAssumption, TypeOK, RxClear
    PROVE  TypeOK'
<1>1. ring' \in Seq(Parts) /\ Len(ring') <= MaxRing
  BY DEF RxClear, ModbusAssumption
<1>2. UNCHANGED <<queue, want_rx, sent_old, timing, gap, retransmits, body, echo,
                  expected, state, from, cmd, wire, tail, slave, tries>>
  BY DEF RxClear, regVars
<1> QED BY <1>1, <1>2 DEF TypeOK, Parts

LEMMA AgainType ==
    ASSUME ModbusAssumption, TypeOK
    PROVE  /\ Again(tries) \in 0 .. MaxRetransmits + 1
           /\ <<>> \in Seq(Parts) /\ Len(<<>>) <= MaxRing
BY DEF Again, TypeOK, ModbusAssumption

LEMMA NextType ==
    ASSUME ModbusAssumption, TypeOK, RxNext
    PROVE  TypeOK'
<1>1. Head(queue) \in Reg
  BY DEF RxNext, TypeOK
<1>2. SendRead(Head(queue), <<>>)
  BY DEF RxNext
<1>3. /\ want_rx' \in BOOLEAN /\ sent_old' \in BOOLEAN /\ echo' \in BOOLEAN
      /\ wire' \in Seq(Request) /\ Len(wire') <= MaxWire
      /\ ring' \in Seq(Parts) /\ Len(ring') <= MaxRing
      /\ state' \in [Reg -> {"invalid", "waiting", "ready"}]
  BY <1>1, <1>2, SendType, AgainType
<1>4. tries' \in 0 .. MaxRetransmits + 1
  BY AgainType DEF RxNext
<1>5. UNCHANGED <<queue, timing, gap, retransmits, body, expected, from, cmd, tail, slave>>
  BY DEF RxNext
<1> QED BY <1>3, <1>4, <1>5 DEF TypeOK, Parts

LEMMA ResendType ==
    ASSUME ModbusAssumption, TypeOK, RxResend
    PROVE  TypeOK'
<1>1. /\ retransmits' \in 0 .. MaxRetransmits - 1
      /\ body' \in Frame \cup {None} /\ timing' \in {"off", "new", "stale", "old"}
  BY DEF RxResend, TypeOK, ModbusAssumption
<1>2. UNCHANGED <<queue, gap, expected, from, cmd, tail, slave>>
  BY DEF RxResend
<1>3. CASE queue = <<>>
  <2>1. /\ want_rx' \in BOOLEAN
        /\ ring' \in Seq(Parts) /\ Len(ring') <= MaxRing
    BY <1>3, AgainType DEF RxResend
  <2>2. UNCHANGED <<sent_old, wire, echo, state, tries>>
    BY <1>3 DEF RxResend
  <2> QED BY <1>1, <1>2, <2>1, <2>2 DEF TypeOK, Parts
<1>4. CASE queue # <<>>
  <2>1. Head(queue) \in Reg
    BY <1>4 DEF TypeOK
  <2>2. SendRead(Head(queue), <<>>)
    BY <1>4 DEF RxResend
  <2>3. /\ want_rx' \in BOOLEAN /\ sent_old' \in BOOLEAN /\ echo' \in BOOLEAN
        /\ wire' \in Seq(Request) /\ Len(wire') <= MaxWire
        /\ ring' \in Seq(Parts) /\ Len(ring') <= MaxRing
        /\ state' \in [Reg -> {"invalid", "waiting", "ready"}]
    BY <2>1, <2>2, SendType, AgainType
  <2>4. tries' \in 0 .. MaxRetransmits + 1
    BY <1>4, AgainType DEF RxResend
  <2> QED BY <1>1, <1>2, <2>3, <2>4 DEF TypeOK, Parts
<1> QED BY <1>3, <1>4

LEMMA DropType ==
    ASSUME ModbusAssumption, TypeOK, RxDrop
    PROVE  TypeOK'
<1>1. /\ retransmits' \in 0 .. MaxRetransmits - 1 /\ tries' \in 0 .. MaxRetransmits + 1
      /\ body' \in Frame \cup {None} /\ timing' \in {"off", "new", "stale", "old"}
      /\ want_rx' \in BOOLEAN
  <2>1. retransmits' = 0 /\ tries' = 0 /\ body' = None /\ timing' = "off" /\ want_rx' = FALSE
    BY DEF RxDrop
  <2>2. 0 \in 0 .. MaxRetransmits - 1 /\ 0 \in 0 .. MaxRetransmits + 1
    BY DEF ModbusAssumption
  <2> QED BY <2>1, <2>2
<1>2. ring' \in Seq(Parts) /\ Len(ring') <= MaxRing
  BY DEF RxDrop, ModbusAssumption
<1>3. queue' \in Seq(Reg) /\ Len(queue') <= Slots
  BY DEF RxDrop, TypeOK, ModbusAssumption
<1>4. UNCHANGED <<sent_old, gap, echo, expected, state, from, cmd, wire, tail, slave>>
  BY DEF RxDrop, regVars
<1> QED BY <1>1, <1>2, <1>3, <1>4 DEF TypeOK, Parts

LEMMA SkipType ==
    ASSUME ModbusAssumption, TypeOK, RxEcho \/ RxSkip
    PROVE  TypeOK'
<1>1. ring # <<>> /\ ring' = Tail(ring)
  BY DEF RxEcho, RxSkip, Listening
<1>2. ring' \in Seq(Parts) /\ Len(ring') <= MaxRing
  BY <1>1, RingType DEF TypeOK, ModbusAssumption
<1>3. echo' \in BOOLEAN /\ timing' \in {"off", "new", "stale", "old"}
  BY DEF RxEcho, RxSkip, TypeOK
<1>4. UNCHANGED <<queue, want_rx, sent_old, gap, retransmits, body,
                  expected, state, from, cmd, wire, tail, slave, tries>>
  BY DEF RxEcho, RxSkip, regVars
<1> QED BY <1>2, <1>3, <1>4 DEF TypeOK, Parts

LEMMA HeaderType ==
    ASSUME ModbusAssumption, TypeOK, RxHeader
    PROVE  TypeOK'
<1>1. ring # <<>> /\ ring' = Tail(ring)
  BY DEF RxHeader, Listening
<1>2. ring' \in Seq(Parts) /\ Len(ring') <= MaxRing
  BY <1>1, RingType DEF TypeOK, ModbusAssumption
<1>3. body' \in Frame
  BY <1>1, RingType, FrameType DEF RxHeader
<1>4. timing' \in {"off", "new", "stale", "old"}
  BY DEF RxHeader
<1>5. UNCHANGED <<queue, want_rx, sent_old, gap, retransmits, echo,
                  expected, state, from, cmd, wire, tail, slave, tries>>
  BY DEF RxHeader, regVars
<1> QED BY <1>2, <1>3, <1>4, <1>5 DEF TypeOK, Parts

LEMMA BadType ==
    ASSUME ModbusAssumption, TypeOK, RxBad
    PROVE  TypeOK'
<1>1. ring' \in Seq(Parts) /\ Len(ring') <= MaxRing
  BY WholeType DEF RxBad, TypeOK, ModbusAssumption
<1>2. body' \in Frame \cup {None} /\ want_rx' \in BOOLEAN
  BY WholeType DEF RxBad, TypeOK
<1>3. timing' \in {"off", "new", "stale", "old"}
  BY DEF RxBad
<1>4. UNCHANGED <<queue, sent_old, gap, retransmits, echo,
                  expected, state, from, cmd, wire, tail, slave, tries>>
  BY DEF RxBad, regVars
<1> QED BY <1>1, <1>2, <1>3, <1>4 DEF TypeOK, Parts

LEMMA ReceivedType ==
    ASSUME ModbusAssumption, TypeOK, Received
    PROVE  /\ Cur \in Frame
           /\ ring' \in Seq(Parts) /\ Len(ring') <= MaxRing
           /\ body' \in Frame \cup {None} /\ want_rx' \in BOOLEAN
           /\ timing' \in {"off", "new", "stale", "old"}
<1>1. Whole /\ body' = None /\ timing' = "off" /\ want_rx' = FALSE
  BY DEF Received
<1>2. ring' = SubSeq(ring, BodyAt + 1, Len(ring))
  BY DEF Received
<1>3. ring' \in Seq(Parts) /\ Len(ring') <= MaxRing
  BY <1>1, <1>2, WholeType DEF TypeOK, ModbusAssumption
<1> QED BY <1>1, <1>3, WholeType

LEMMA AckType ==
    ASSUME ModbusAssumption, TypeOK, RxAck
    PROVE  TypeOK'
<1>1. PICK x \in BOOLEAN : expected' = [expected EXCEPT !.not_done = FALSE, !.pass = x]
  <2>1. Matches(Cur) \in BOOLEAN
    BY DEF Matches
  <2> QED BY <2>1 DEF RxAck
<1>2. expected \in Expectations
  BY DEF TypeOK, Expectations
<1>3. expected' \in Expectations
  BY <1>1, <1>2, ExpectationType
<1>4. /\ ring' \in Seq(Parts) /\ Len(ring') <= MaxRing
      /\ body' \in Frame \cup {None} /\ want_rx' \in BOOLEAN
      /\ timing' \in {"off", "new", "stale", "old"}
  BY ReceivedType DEF RxAck
<1>5. UNCHANGED <<queue, sent_old, gap, retransmits, echo, state, from, cmd, wire, tail, slave, tries>>
  BY DEF RxAck, regVars
<1> QED BY <1>3, <1>4, <1>5 DEF TypeOK, Parts, Expectations

LEMMA NoneQueuedType ==
    ASSUME ModbusAssumption, TypeOK, RxNoneQueued
    PROVE  TypeOK'
<1>1. /\ ring' \in Seq(Parts) /\ Len(ring') <= MaxRing
      /\ body' \in Frame \cup {None} /\ want_rx' \in BOOLEAN
      /\ timing' \in {"off", "new", "stale", "old"}
  BY ReceivedType DEF RxNoneQueued
<1>2. UNCHANGED <<queue, sent_old, gap, retransmits, echo, expected, state, from, cmd,
                  wire, tail, slave, tries>>
  BY DEF RxNoneQueued, regVars
<1> QED BY <1>1, <1>2 DEF TypeOK, Parts

LEMMA ReplyType ==
    ASSUME ModbusAssumption, TypeOK, RxReply
    PROVE  TypeOK'
<1>1. /\ ring' \in Seq(Parts) /\ Len(ring') <= MaxRing
      /\ body' \in Frame \cup {None} /\ want_rx' \in BOOLEAN
      /\ timing' \in {"off", "new", "stale", "old"}
  BY ReceivedType DEF RxReply
<1>2. Cur.reg \in Reg
  BY ReceivedType, FrameType DEF RxReply
<1>3. queue' \in Seq(Reg) /\ Len(queue') <= Slots
  BY DEF RxReply, TypeOK, ModbusAssumption
<1>4. /\ retransmits' \in 0 .. MaxRetransmits - 1 /\ tries' \in 0 .. MaxRetransmits + 1
      /\ gap' \in BOOLEAN
  <2>1. retransmits' = 0 /\ tries' = 0 /\ gap' = FALSE
    BY DEF RxReply
  <2>2. 0 \in 0 .. MaxRetransmits - 1 /\ 0 \in 0 .. MaxRetransmits + 1
    BY DEF ModbusAssumption
  <2> QED BY <2>1, <2>2
<1>5. PICK s \in Stored(Cur, Head(queue)) :
         /\ state' = [state EXCEPT ![Head(queue)] = s]
         /\ from' = IF s # "ready" THEN from
                    ELSE [from EXCEPT ![Head(queue)] =
                            IF Cur.kind = "value" THEN Cur.reg ELSE None]
  BY DEF RxReply
<1>6. s \in {"invalid", "ready"}
  BY DEF Stored
<1>7. state' \in [Reg -> {"invalid", "waiting", "ready"}]
  BY <1>5, <1>6 DEF TypeOK
<1>8. from' \in [Reg -> Reg \cup {None}]
  BY <1>2, <1>5 DEF TypeOK
<1>9. UNCHANGED <<sent_old, echo, expected, cmd, wire, tail, slave>>
  BY DEF RxReply
<1> QED BY <1>1, <1>3, <1>4, <1>7, <1>8, <1>9 DEF TypeOK, Parts

LEMMA AnswersType ==
    ASSUME ModbusAssumption, TypeOK, SlaveAnswers
    PROVE  TypeOK'
<1>1. wire \in Seq(Request) /\ wire # <<>> /\ Len(wire) <= MaxWire
  BY DEF SlaveAnswers, TypeOK
<1>2. wire' \in Seq(Request) /\ Len(wire') <= MaxWire
  BY <1>1 DEF SlaveAnswers, ModbusAssumption
<1>3. Head(wire) \in Request
  BY <1>1
<1>4. PICK k \in AnswersTo(Head(wire)), ok \in BOOLEAN :
        LET f == Answer(k, Head(wire), ok)
        IN  /\ ring' = IntoRing(ring, <<Part("head", f)>>)
            /\ tail' = f
            /\ slave' = IF k = "ack" THEN [slave EXCEPT ![f.reg] = f.val]
                         ELSE slave
  BY DEF SlaveAnswers
<1>5. k \in {"value", "exception", "ack", "reject"}
  BY DEF AnswersTo
<1> DEFINE f == Answer(k, Head(wire), ok)
<1>6. f \in Frame /\ f.reg = Head(wire).reg /\ f.val = Head(wire).val
  BY <1>3, <1>5, AnswerType
<1>7. ring' = IntoRing(ring, <<Part("head", f)>>) /\ tail' = f
      /\ slave' = IF k = "ack" THEN [slave EXCEPT ![f.reg] = f.val] ELSE slave
  BY <1>4
<1> HIDE DEF f
<1>8. Part("head", f) \in Parts
  BY <1>6, PartType
<1>9. ring' \in Seq(Parts) /\ Len(ring') <= MaxRing
  <2>1. <<Part("head", f)>> \in Seq(Parts)
    BY <1>8
  <2>2. ring \in Seq(Parts) /\ Len(ring) <= MaxRing
    BY DEF TypeOK, Parts
  <2> QED BY <1>7, <2>1, <2>2, IntoRingType
<1>10. slave' \in [Reg -> Value \cup {None}]
  BY <1>3, <1>6, <1>7, RequestType DEF TypeOK
<1>11. UNCHANGED <<queue, want_rx, sent_old, timing, gap, retransmits, body, echo,
                   expected, state, from, cmd, tries>>
  BY DEF SlaveAnswers, regVars
<1> QED BY <1>2, <1>6, <1>7, <1>9, <1>10, <1>11 DEF TypeOK, Parts

LEMMA LostType ==
    ASSUME ModbusAssumption, TypeOK, Lost
    PROVE  TypeOK'
<1>1. wire \in Seq(Request) /\ wire # <<>> /\ Len(wire) <= MaxWire
  BY DEF Lost, TypeOK
<1>2. wire' \in Seq(Request) /\ Len(wire') <= MaxWire
  BY <1>1 DEF Lost, ModbusAssumption
<1>3. Head(wire) \in Request
  BY <1>1
<1>4. slave' \in [Reg -> Value \cup {None}]
  BY <1>3, RequestType DEF Lost, TypeOK
<1>5. UNCHANGED <<queue, want_rx, sent_old, timing, gap, retransmits, body, echo,
                  expected, state, from, ring, cmd, tail, tries>>
  BY DEF Lost, regVars
<1> QED BY <1>2, <1>4, <1>5 DEF TypeOK

LEMMA RestType ==
    ASSUME ModbusAssumption, TypeOK, RestComes \/ RestLost
    PROVE  TypeOK'
<1>1. tail \in Frame /\ tail' = None
  BY DEF RestComes, RestLost, TypeOK
<1>2. Part("body", tail) \in Parts
  BY <1>1, PartType
<1>3. IntoRing(ring, <<Part("body", tail)>>) \in Seq(Parts)
      /\ Len(IntoRing(ring, <<Part("body", tail)>>)) <= MaxRing
  <2>1. <<Part("body", tail)>> \in Seq(Parts)
    BY <1>2
  <2>2. ring \in Seq(Parts) /\ Len(ring) <= MaxRing
    BY DEF TypeOK, Parts
  <2> QED BY <2>1, <2>2, IntoRingType
<1>4. ring' \in Seq(Parts) /\ Len(ring') <= MaxRing
  BY <1>3 DEF RestComes, RestLost, TypeOK, Parts
<1>5. UNCHANGED <<queue, want_rx, sent_old, timing, gap, retransmits, body, echo,
                  expected, state, from, cmd, wire, slave, tries>>
  BY DEF RestComes, RestLost, regVars
<1> QED BY <1>1, <1>4, <1>5 DEF TypeOK, Parts

LEMMA AgesType ==
    ASSUME TypeOK, Ages
    PROVE  TypeOK'
<1>1. /\ sent_old' \in BOOLEAN /\ timing' \in {"off", "new", "stale", "old"} /\ gap' \in BOOLEAN
  BY DEF Ages, SendAges, TimingAges, GapEnds, TypeOK
<1>2. UNCHANGED <<queue, want_rx, retransmits, body, echo, expected, state, from,
                  ring, wire, tail, slave, cmd, tries>>
  BY DEF Ages, SendAges, TimingAges, GapEnds, regVars, busVars
<1> QED BY <1>1, <1>2 DEF TypeOK

LEMMA TypeStep ==
    ASSUME ModbusAssumption, TypeOK, [Next]_vars
    PROVE  TypeOK'
<1>1. CASE Starts
  BY <1>1, StartReadType, RestartType, WriteType DEF Starts
<1>2. CASE WriteDone \/ WriteTimesOut
  BY <1>2, EndsType
<1>3. CASE Rx
  BY <1>3, ClearType, NextType, ResendType, DropType, SkipType, HeaderType, BadType,
     AckType, NoneQueuedType, ReplyType DEF Rx
<1>4. CASE Slaves
  BY <1>4, AnswersType, LostType, RestType DEF Slaves
<1>5. CASE Ages
  BY <1>5, AgesType
<1>6. CASE UNCHANGED vars
  BY <1>6 DEF vars, TypeOK
<1> QED BY <1>1, <1>2, <1>3, <1>4, <1>5, <1>6 DEF Next

\* Every variable of the master keeps its type and its bounds: whatever the
\* slaves do and is lost, the queue never holds more than MODBUS_SLOTS
\* registers and the head is given up after MODBUS_MAX_RETRANSMITS.
THEOREM ModbusTypes == ASSUME ModbusAssumption PROVE Spec => []TypeOK
<1>1. Init => TypeOK
  BY InitType
<1>2. TypeOK /\ [Next]_vars => TypeOK'
  BY TypeStep
<1> QED BY <1>1, <1>2, PTL DEF Spec

-----------------------------------------------------------------------------
(* The order of things on the bus, as long as answers are in time, no read *)
(* is started in the gap before the next or over the slots, and the        *)
(* platform does not hear itself.  Frames may be lost, cut and corrupted.  *)

Calm == Faults \cap {"late", "gapread", "overfill"} = {} /\ ~Echo

Empty == ring = <<>> /\ wire = <<>> /\ tail = None

\* The ring holds parts of one frame: what has not been read of it.
Form ==
    \/ ring = <<>>
    \/ /\ body = None
       /\ \E f \in Frame : \/ ring = <<Part("head", f)>>
                          \/ ring = <<Part("head", f), Part("body", f)>>
    \/ body \in Frame /\ ring = <<Part("body", body)>>

\* A request, the rest of its answer and what is read of it follow one
\* another.
Phases ==
    /\ echo = FALSE
    /\ wire # <<>> => Len(wire) = 1 /\ tail = None /\ ring = <<>> /\ body = None
    /\ tail # None => \/ ring = <<>> /\ body = tail
                      \/ ring = <<Part("head", tail)>> /\ body = None
    /\ Form

\* When nothing is awaited, or the time for it has passed, nothing comes.
Times ==
    /\ ~want_rx => Empty /\ body = None /\ timing = "off"
    /\ sent_old => Empty
    /\ timing # "stale" /\ (timing = "old" => sent_old)

\* A request goes out on a bus where nothing else is.
LEMMA SendsAlone ==
    ASSUME ModbusAssumption, Calm, TypeOK, Phases, Empty, NEW q \in Request
    PROVE  /\ OnWire(q) = <<q>>
           /\ EchoOf(q) = <<>> /\ IntoRing(<<>>, EchoOf(q)) = <<>>
<1>1. OnWire(q) = <<q>>
  BY DEF OnWire, Empty, ModbusAssumption
<1>2. EchoOf(q) = <<>>
  BY DEF EchoOf, Calm
<1>3. IntoRing(<<>>, <<>>) = <<>>
  BY DEF IntoRing
<1> QED BY <1>1, <1>2, <1>3

LEMMA SendsRead ==
    ASSUME ModbusAssumption, Calm, TypeOK, Phases, Empty, NEW r \in Reg, SendRead(r, <<>>)
    PROVE  /\ wire' = <<Reading(r)>> /\ ring' = <<>> /\ echo' = FALSE
           /\ want_rx' = TRUE /\ sent_old' = FALSE
<1>1. Reading(r) \in Request
  BY RequestType
<1>2. /\ OnWire(Reading(r)) = <<Reading(r)>>
      /\ IntoRing(<<>>, EchoOf(Reading(r))) = <<>>
  BY <1>1, SendsAlone
<1>3. echo' = FALSE
  BY DEF SendRead, Phases, Calm
<1> QED BY <1>2, <1>3 DEF SendRead

\* What a timeout means: the bus is empty.
LEMMA TimedOutEmpty ==
    ASSUME Times, TimedOut
    PROVE  Empty
BY DEF Times, TimedOut

\* The frame being read.
LEMMA WholeFrame ==
    ASSUME ModbusAssumption, TypeOK, Phases, Whole
    PROVE  /\ wire = <<>> /\ tail = None
           /\ SubSeq(ring, BodyAt + 1, Len(ring)) = <<>>
           /\ Cur = ring[1].frame /\ ring[BodyAt] = Part("body", Cur)
<1>1. ring # <<>> /\ Len(ring) >= BodyAt
  BY DEF Whole, Listening
<1>2. wire = <<>>
  BY <1>1 DEF Phases
<1>3. CASE body = None
  <2>1. PICK f \in Frame : \/ ring = <<Part("head", f)>>
                          \/ ring = <<Part("head", f), Part("body", f)>>
    BY <1>1, <1>3 DEF Phases, Form, ModbusAssumption
  <2>2. BodyAt = 2
    BY <1>3 DEF BodyAt
  <2>3. ring = <<Part("head", f), Part("body", f)>>
    BY <1>1, <2>1, <2>2
  <2>4. ring[1] = Part("head", f) /\ ring[2] = Part("body", f) /\ Len(ring) = 2
    BY <2>3
  <2>5. Cur = f /\ ring[1].frame = f
    BY <1>3, <2>4, PartType DEF Cur
  <2>6. SubSeq(ring, BodyAt + 1, Len(ring)) = <<>>
    BY <2>2, <2>4, SubSeqEmpty
  <2>7. tail = None
    <3>1. SUFFICES ASSUME tail # None
                   PROVE  FALSE
      OBVIOUS
    <3>2. ring = <<Part("head", tail)>>
      BY <1>1, <3>1 DEF Phases
    <3> QED BY <2>4, <3>2
  <2> QED BY <1>2, <2>2, <2>4, <2>5, <2>6, <2>7
<1>4. CASE body # None
  <2>1. body \in Frame /\ ring = <<Part("body", body)>>
    BY <1>1, <1>4 DEF Phases, Form
  <2>2. ring[1] = Part("body", body) /\ Len(ring) = 1
    BY <2>1
  <2>3. BodyAt = 1 /\ Cur = body
    BY <1>4 DEF BodyAt, Cur
  <2>4. ring[1].frame = body
    BY <2>1, <2>2, PartType
  <2>5. SubSeq(ring, BodyAt + 1, Len(ring)) = <<>>
    BY <2>2, <2>3, SubSeqEmpty
  <2>6. tail = None
    BY <1>1, <1>4 DEF Phases
  <2> QED BY <1>2, <2>2, <2>3, <2>4, <2>5, <2>6
<1> QED BY <1>3, <1>4

Quiet == Phases /\ Times

LEMMA QuietInit ==
    ASSUME Init
    PROVE  Quiet
BY DEF Init, Quiet, Phases, Times, Form, Empty

\* A request has just been sent.
LEMMA QuietSent ==
    ASSUME NEW q, wire' = <<q>>, ring' = <<>>, tail' = None, body' = None,
           echo' = FALSE, want_rx' = TRUE, sent_old' = FALSE, timing' = "off"
    PROVE  Quiet'
BY DEF Quiet, Phases, Times, Form, Empty

\* What is awaited has come, or has been given up.
LEMMA QuietRests ==
    ASSUME wire' = <<>>, ring' = <<>>, tail' = None, body' = None,
           echo' = FALSE, timing' = "off"
    PROVE  Quiet'
BY DEF Quiet, Phases, Times, Form, Empty

LEMMA QuietIdle ==
    ASSUME Quiet, ~want_rx
    PROVE  Empty /\ body = None /\ timing = "off" /\ Phases
BY DEF Quiet, Times

LEMMA QuietStarts ==
    ASSUME ModbusAssumption, Calm, TypeOK, Quiet, Starts
    PROVE  Quiet'
<1>1. ASSUME NEW r \in Reg, StartRead(r)
      PROVE  Quiet'
  <2>1. CASE want_rx
    <3>1. UNCHANGED <<want_rx, sent_old, wire, ring, echo, timing, body, tail>>
      BY <1>1, <2>1 DEF StartRead
    <3> QED BY <3>1 DEF Quiet, Phases, Times, Form, Empty
  <2>2. CASE ~want_rx
    <3>1. Empty /\ body = None /\ timing = "off" /\ Phases
      BY <2>2, QuietIdle
    <3>2. SendRead(r, <<>>)
      BY <1>1, <2>2, <3>1 DEF StartRead, Empty
    <3>3. UNCHANGED <<timing, body, tail>>
      BY <1>1 DEF StartRead
    <3> QED BY <3>1, <3>2, <3>3, SendsRead, QuietSent DEF Empty
  <2> QED BY <2>1, <2>2
<1>2. ASSUME NEW r \in Reg, Restart(r)
      PROVE  Quiet'
  BY <1>2 DEF Restart, Calm
<1>3. ASSUME NEW r \in Reg, NEW v \in Value, Write(r, v)
      PROVE  Quiet'
  <2>1. Empty /\ body = None /\ timing = "off" /\ Phases
    BY <1>3, QuietIdle DEF Write, HasPending
  <2>2. Writing(r, v) \in Request
    BY RequestType
  <2>3. wire' = <<Writing(r, v)>> /\ ring' = <<>>
    BY <1>3, <2>1, <2>2, SendsAlone DEF Write, Empty
  <2>4. want_rx' = TRUE /\ sent_old' = FALSE /\ UNCHANGED <<timing, body, echo, tail>>
    BY <1>3 DEF Write
  <2> QED BY <2>1, <2>3, <2>4, QuietSent DEF Empty, Phases
<1> QED BY <1>1, <1>2, <1>3 DEF Starts

LEMMA QuietSame ==
    ASSUME Quiet, UNCHANGED <<want_rx, sent_old, wire, ring, echo, timing, body, tail>>
    PROVE  Quiet'
BY DEF Quiet, Phases, Times, Form, Empty

\* Whoever reads a whole frame leaves nothing behind.
LEMMA QuietReceived ==
    ASSUME ModbusAssumption, TypeOK, Quiet, Received, UNCHANGED <<sent_old, echo, wire, tail>>
    PROVE  Quiet'
<1>1. wire = <<>> /\ tail = None /\ ring' = <<>>
  BY WholeFrame DEF Received, Quiet
<1>2. body' = None /\ timing' = "off"
  BY DEF Received
<1> QED BY <1>1, <1>2, QuietRests DEF Quiet, Phases

LEMMA QuietRx ==
    ASSUME ModbusAssumption, Calm, TypeOK, Quiet, Rx
    PROVE  Quiet'
<1>1. CASE RxClear
  BY <1>1, QuietIdle DEF RxClear, Empty
<1>2. CASE RxNext
  <2>1. Empty /\ body = None /\ timing = "off" /\ Phases
    BY <1>2, QuietIdle DEF RxNext
  <2>2. Head(queue) \in Reg /\ SendRead(Head(queue), <<>>) /\ UNCHANGED <<timing, body, tail>>
    BY <1>2 DEF RxNext, TypeOK
  <2> QED BY <2>1, <2>2, SendsRead, QuietSent DEF Empty
<1>3. CASE RxResend
  <2>1. Empty /\ Phases
    BY <1>3, TimedOutEmpty DEF RxResend, Quiet
  <2>2. body' = None /\ timing' = "off" /\ tail' = tail
    BY <1>3 DEF RxResend
  <2>3. CASE queue = <<>>
    <3>1. want_rx' = FALSE /\ ring' = <<>> /\ UNCHANGED <<sent_old, wire, echo>>
      BY <1>3, <2>3 DEF RxResend
    <3> QED BY <2>1, <2>2, <3>1, QuietRests DEF Empty, Phases
  <2>4. CASE queue # <<>>
    <3>1. Head(queue) \in Reg /\ SendRead(Head(queue), <<>>)
      BY <1>3, <2>4 DEF RxResend, TypeOK
    <3> QED BY <2>1, <2>2, <3>1, SendsRead, QuietSent DEF Empty
  <2> QED BY <2>3, <2>4
<1>4. CASE RxDrop
  <2>1. Empty /\ Phases
    BY <1>4, TimedOutEmpty DEF RxDrop, Quiet
  <2>2. body' = None /\ timing' = "off" /\ ring' = <<>> /\ UNCHANGED <<echo, wire, tail>>
    BY <1>4 DEF RxDrop
  <2> QED BY <2>1, <2>2, QuietRests DEF Empty, Phases
<1>5. CASE RxEcho
  BY <1>5 DEF RxEcho, Quiet, Phases
<1>6. CASE RxSkip
  <2>1. ring # <<>> /\ body = None /\ ring[1].part # "head"
    BY <1>6 DEF RxSkip, Listening
  <2>2. PICK f \in Frame : \/ ring = <<Part("head", f)>>
                          \/ ring = <<Part("head", f), Part("body", f)>>
    BY <2>1 DEF Quiet, Phases, Form, ModbusAssumption
  <2>3. ring[1] = Part("head", f)
    BY <2>2
  <2> QED BY <2>1, <2>3, PartType
<1>7. CASE RxHeader
  <2>1. ring # <<>> /\ body = None /\ (ring[1].part = "head" => Len(ring) = 1) /\ want_rx
    BY <1>7 DEF RxHeader, Listening
  <2>2. PICK f \in Frame : \/ ring = <<Part("head", f)>>
                          \/ ring = <<Part("head", f), Part("body", f)>>
    BY <2>1 DEF Quiet, Phases, Form, ModbusAssumption
  <2>3. ring[1] = Part("head", f) /\ ring[1].part = "head" /\ ring[1].frame = f
    BY <2>2, PartType
  <2>4. ring = <<Part("head", f)>>
    BY <2>1, <2>2, <2>3
  <2>5. body' = f /\ ring' = <<>> /\ timing' = "new"
    BY <1>7, <2>3, <2>4 DEF RxHeader
  <2>6. UNCHANGED <<want_rx, sent_old, echo, wire, tail>>
    BY <1>7 DEF RxHeader
  <2>7. wire = <<>> /\ ~sent_old
    BY <2>1 DEF Quiet, Phases, Times, Empty
  <2>8. tail # None => tail = f
    <3>1. tail # None => Part("head", tail) = Part("head", f)
      BY <2>1, <2>4 DEF Quiet, Phases
    <3> QED BY <3>1 DEF Part
  <2>9. Phases'
    BY <2>5, <2>6, <2>7, <2>8 DEF Quiet, Phases, Form
  <2>10. Times'
    BY <2>1, <2>5, <2>6, <2>7 DEF Times
  <2> QED BY <2>9, <2>10 DEF Quiet
<1>8. CASE RxBad
  <2>1. /\ wire = <<>> /\ tail = None /\ Cur \in Frame
        /\ SubSeq(ring, BodyAt + 1, Len(ring)) = <<>>
    BY <1>8, WholeFrame, WholeType DEF RxBad, Quiet
  <2>2. ring' = <<>> /\ timing' = "off" /\ UNCHANGED <<sent_old, echo, wire, tail>>
    BY <1>8, <2>1 DEF RxBad
  <2>3. CASE body' = None
    BY <2>1, <2>2, <2>3, QuietRests DEF Quiet, Phases
  <2>4. CASE body' = Cur /\ want_rx' = want_rx
    <3>1. want_rx'
      BY <1>8, <2>4 DEF RxBad, Whole, Listening
    <3>2. Phases'
      BY <2>1, <2>2, <2>4 DEF Quiet, Phases, Form
    <3>3. Times'
      BY <2>1, <2>2, <3>1 DEF Times, Empty
    <3> QED BY <3>2, <3>3 DEF Quiet
  <2> QED BY <1>8, <2>3, <2>4 DEF RxBad
<1>9. CASE RxAck
  BY <1>9, QuietReceived DEF RxAck
<1>10. CASE RxNoneQueued
  BY <1>10, QuietReceived DEF RxNoneQueued
<1>11. CASE RxReply
  BY <1>11, QuietReceived DEF RxReply
<1> QED BY <1>1, <1>2, <1>3, <1>4, <1>5, <1>6, <1>7, <1>8, <1>9, <1>10, <1>11 DEF Rx

LEMMA QuietSlaves ==
    ASSUME ModbusAssumption, Calm, TypeOK, Quiet, Slaves
    PROVE  Quiet'
<1>1. CASE SlaveAnswers
  <2>1. wire # <<>> /\ wire' = Tail(wire)
    BY <1>1 DEF SlaveAnswers
  <2>2. Len(wire) = 1 /\ tail = None /\ ring = <<>> /\ body = None /\ want_rx /\ ~sent_old
    BY <2>1 DEF Quiet, Phases, Times, Empty
  <2>3. wire' = <<>>
    BY <2>1, <2>2 DEF TypeOK
  <2>4. PICK k \in AnswersTo(Head(wire)), ok \in BOOLEAN :
          LET f == Answer(k, Head(wire), ok)
          IN  /\ ring' = IntoRing(ring, <<Part("head", f)>>)
              /\ tail' = f
    BY <1>1 DEF SlaveAnswers
  <2>5. Head(wire) \in Request
    BY <2>1 DEF TypeOK
  <2>6. k \in {"value", "exception", "ack", "reject"}
    BY DEF AnswersTo
  <2> DEFINE f == Answer(k, Head(wire), ok)
  <2>7. f \in Frame
    BY <2>5, <2>6, AnswerType
  <2>8. ring' = IntoRing(ring, <<Part("head", f)>>) /\ tail' = f
    BY <2>4
  <2> HIDE DEF f
  <2>9. ring' = <<Part("head", f)>>
    BY <2>2, <2>8 DEF IntoRing, ModbusAssumption
  <2>10. UNCHANGED <<want_rx, sent_old, timing, body, echo>>
    BY <1>1 DEF SlaveAnswers
  <2>11. Phases'
    BY <2>2, <2>3, <2>7, <2>8, <2>9, <2>10 DEF Quiet, Phases, Form
  <2>12. Times'
    BY <2>2, <2>10 DEF Quiet, Times
  <2> QED BY <2>11, <2>12 DEF Quiet
<1>2. CASE Lost
  <2>1. Len(wire) = 1 /\ tail = None /\ ring = <<>> /\ body = None /\ wire' = Tail(wire)
    BY <1>2 DEF Lost, Quiet, Phases
  <2>2. wire' = <<>>
    BY <2>1 DEF TypeOK
  <2>3. UNCHANGED <<want_rx, sent_old, timing, body, echo, ring, tail>>
    BY <1>2 DEF Lost
  <2> QED BY <2>1, <2>2, <2>3 DEF Quiet, Phases, Times, Form, Empty
<1>3. CASE RestComes
  <2>1. tail # None /\ tail \in Frame /\ want_rx /\ ~sent_old /\ wire = <<>>
    BY <1>3 DEF RestComes, TypeOK, Quiet, Phases, Times, Empty
  <2>2. /\ ring' = IntoRing(ring, <<Part("body", tail)>>) /\ tail' = None
        /\ UNCHANGED <<want_rx, sent_old, timing, body, echo, wire>>
    BY <1>3 DEF RestComes
  <2>3. CASE ring = <<>> /\ body = tail
    <3>1. ring' = <<Part("body", tail)>>
      BY <2>2, <2>3 DEF IntoRing, ModbusAssumption
    <3> QED BY <2>1, <2>2, <2>3, <3>1 DEF Quiet, Phases, Times, Form
  <2>4. CASE ring = <<Part("head", tail)>> /\ body = None
    <3>1. ring' = <<Part("head", tail), Part("body", tail)>>
      <4> DEFINE h == Part("head", tail)
                 b == Part("body", tail)
      <4>1. ring = <<h>> /\ ring' = IntoRing(ring, <<b>>)
        BY <2>2, <2>4
      <4> HIDE DEF h, b
      <4>2. <<h>> \in Seq({h, b}) /\ <<b>> \in Seq({h, b}) /\ <<h, b>> \in Seq({h, b})
        OBVIOUS
      <4>3. /\ <<h>> \o <<b>> \in Seq({h, b}) /\ Len(<<h>> \o <<b>>) = 2
            /\ (<<h>> \o <<b>>)[1] = h /\ (<<h>> \o <<b>>)[2] = b
        BY <4>2, ConcatProperties
      <4>4. <<h>> \o <<b>> = <<h, b>>
        <5>1. Len(<<h, b>>) = 2 /\ <<h, b>>[1] = h /\ <<h, b>>[2] = b
          OBVIOUS
        <5>2. \A i \in 1 .. 2 : i = 1 \/ i = 2
          OBVIOUS
        <5>3. \A i \in 1 .. Len(<<h>> \o <<b>>) : (<<h>> \o <<b>>)[i] = <<h, b>>[i]
          BY <4>3, <5>1, <5>2
        <5> QED BY <4>2, <4>3, <5>1, <5>3, SeqEqual
      <4>5. 2 <= MaxRing
        BY DEF ModbusAssumption
      <4>6. ring' = <<h, b>>
        BY <4>1, <4>3, <4>4, <4>5 DEF IntoRing
      <4> QED BY <4>6 DEF h, b
    <3> QED BY <2>1, <2>2, <2>4, <3>1 DEF Quiet, Phases, Times, Form
  <2> QED BY <2>1, <2>3, <2>4 DEF Quiet, Phases
<1>4. CASE RestLost
  <2>1. tail' = None /\ UNCHANGED <<want_rx, sent_old, timing, body, echo, wire, ring>>
    BY <1>4 DEF RestLost
  <2> QED BY <2>1 DEF Quiet, Phases, Times, Form, Empty
<1> QED BY <1>1, <1>2, <1>3, <1>4 DEF Slaves

LEMMA QuietAges ==
    ASSUME ModbusAssumption, Calm, TypeOK, Quiet, Ages
    PROVE  Quiet'
<1>1. UNCHANGED <<want_rx, body, echo, ring, wire, tail>>
  BY DEF Ages, SendAges, TimingAges, GapEnds, busVars
<1>2. CASE SendAges
  <2>1. wire = <<>> /\ tail = None /\ (ring # <<>> => body # None /\ ring[1].part # "body")
    BY <1>2 DEF SendAges, AnswersAreIn, InFlight, Calm
  <2>2. ring = <<>>
    <3>1. SUFFICES ASSUME ring # <<>>
                   PROVE  FALSE
      OBVIOUS
    <3>2. body \in Frame /\ ring = <<Part("body", body)>>
      BY <2>1, <3>1 DEF Quiet, Phases, Form
    <3>3. ring[1].part = "body"
      BY <3>2, PartType
    <3> QED BY <2>1, <3>1, <3>3
  <2>3. sent_old' = TRUE /\ timing' = timing
    BY <1>2 DEF SendAges
  <2> QED BY <1>1, <2>1, <2>2, <2>3 DEF Quiet, Phases, Times, Form, Empty
<1>3. CASE TimingAges
  <2>1. sent_old /\ timing = "new" /\ timing' = "old" /\ sent_old' = sent_old
    BY <1>3 DEF TimingAges, Quiet, Times
  <2> QED BY <1>1, <2>1 DEF Quiet, Phases, Times, Form, Empty
<1>4. CASE GapEnds
  BY <1>1, <1>4, QuietSame DEF GapEnds
<1> QED BY <1>2, <1>3, <1>4 DEF Ages

LEMMA QuietStep ==
    ASSUME ModbusAssumption, Calm, TypeOK, Quiet, [Next]_vars
    PROVE  Quiet'
<1>1. CASE WriteDone \/ WriteTimesOut
  BY <1>1, QuietSame DEF WriteDone, WriteTimesOut, busVars
<1>2. CASE UNCHANGED vars
  BY <1>2, QuietSame DEF vars
<1> QED BY <1>1, <1>2, QuietStarts, QuietRx, QuietSlaves, QuietAges DEF Next

LEMMA QuietAlways == ASSUME ModbusAssumption, Calm PROVE Spec => [](TypeOK /\ Quiet)
<1>1. Init => TypeOK /\ Quiet
  BY InitType, QuietInit
<1>2. TypeOK /\ Quiet /\ [Next]_vars => TypeOK' /\ Quiet'
  BY TypeStep, QuietStep
<1> QED BY <1>1, <1>2, PTL DEF Spec

LEMMA QuietAlone ==
    ASSUME TypeOK, Quiet
    PROVE  OneOnTheBus
<1>1. CASE wire = <<>>
  BY <1>1 DEF OneOnTheBus
<1>2. CASE wire # <<>>
  <2>1. Len(wire) = 1 /\ tail = None
    BY <1>2 DEF Quiet, Phases
  <2> QED BY <2>1 DEF OneOnTheBus
<1> QED BY <1>1, <1>2

\* A request is sent only when the answer to the one before has come as a
\* whole or will not come any more: two are never on the bus, for any number
\* of registers, slots and transmissions.
THEOREM OneRequestOnTheBus == ASSUME ModbusAssumption, Calm PROVE Spec => []OneOnTheBus
<1>1. TypeOK /\ Quiet => OneOnTheBus
  BY QuietAlone
<1> QED BY <1>1, QuietAlways, PTL

-----------------------------------------------------------------------------
(* What is on the bus is about what the master waits for.                  *)

\* mb_reg_set waits for q to be acknowledged.
Awaited(q) ==
    /\ cmd.on /\ expected.not_done /\ queue = <<>>
    /\ q.reg = expected.reg /\ q.val = expected.val

Asked(q) == IF q.kind = "read" THEN queue # <<>> /\ q.reg = Head(queue)
                               ELSE Awaited(q)

Given(f) ==
    /\ f.kind \in {"value", "exception"} => queue # <<>> /\ f.reg = Head(queue)
    /\ f.kind \in {"ack", "reject"} => Awaited(f)
    /\ f.kind = "ack" => slave[f.reg] = f.val

Meant ==
    /\ wire # <<>> => Asked(Head(wire))
    /\ tail # None => Given(tail)
    /\ ring # <<>> => Given(ring[1].frame)

\* The write that is waited for is the one that is expected, and the slave has
\* done what was acknowledged.
Written ==
    cmd.on =>
        /\ expected.reg = cmd.reg /\ expected.val = cmd.val /\ cmd.res # "ok"
        /\ ~expected.not_done /\ expected.pass => slave[cmd.reg] = cmd.val

True == Meant /\ Written /\ WriteIsDone /\ AnswerIsOwn

LEMMA TrueInit ==
    ASSUME ModbusAssumption, Init
    PROVE  True
<1>1. Meant /\ Written
  BY DEF Init, Meant, Written
<1>2. WriteIsDone
  BY DEF Init, WriteIsDone, ModbusAssumption
<1>3. AnswerIsOwn
  BY DEF Init, AnswerIsOwn
<1> QED BY <1>1, <1>2, <1>3 DEF True

\* Nothing is on the bus.
LEMMA MeantEmpty ==
    ASSUME Empty'
    PROVE  Meant'
BY DEF Empty, Meant

\* Nothing that counts has changed.
LEMMA MeantSame ==
    ASSUME Meant, UNCHANGED <<wire, tail, ring, queue, cmd, expected, slave>>
    PROVE  Meant'
BY DEF Meant, Asked, Given, Awaited

\* The head of the queue has been asked for.
LEMMA MeantRead ==
    ASSUME NEW r \in Reg, wire' = <<Reading(r)>>, ring' = <<>>, tail' = None,
           queue' # <<>>, r = Head(queue')
    PROVE  Meant'
<1>1. Head(wire') = Reading(r) /\ Reading(r).kind = "read" /\ Reading(r).reg = r
  BY DEF Reading
<1> QED BY <1>1 DEF Meant, Asked

\* A read leaves the answers as they are; the register it is for is not ready.
LEMMA ReadRest ==
    ASSUME TypeOK, NEW r \in Reg, AnswerIsOwn,
           state' = [state EXCEPT ![r] = "waiting"], UNCHANGED from
    PROVE  AnswerIsOwn'
BY DEF AnswerIsOwn, TypeOK

LEMMA WrittenSame ==
    ASSUME Written, WriteIsDone, UNCHANGED <<cmd, expected, slave>>
    PROVE  Written' /\ WriteIsDone'
BY DEF Written, WriteIsDone

LEMMA OwnSame ==
    ASSUME AnswerIsOwn, UNCHANGED <<state, from>>
    PROVE  AnswerIsOwn'
BY DEF AnswerIsOwn

LEMMA TrueStarts ==
    ASSUME ModbusAssumption, Calm, TypeOK, Quiet, True, Starts
    PROVE  True'
<1>1. ASSUME NEW r \in Reg, StartRead(r)
      PROVE  True'
  <2>1. /\ ~cmd.on /\ queue' = Append(queue, r)
        /\ UNCHANGED <<expected, from, cmd, tail, slave>>
    BY <1>1 DEF StartRead
  <2>2. Written' /\ WriteIsDone'
    BY <2>1, WrittenSame DEF True
  <2>3. state' = [state EXCEPT ![r] = "waiting"]
    BY <1>1 DEF StartRead, SendRead
  <2>4. AnswerIsOwn'
    BY <2>1, <2>3, ReadRest DEF True
  <2>5. CASE want_rx
    <3>1. UNCHANGED <<wire, ring>>
      BY <1>1, <2>5 DEF StartRead
    <3>2. queue # <<>> => queue' # <<>> /\ Head(queue') = Head(queue)
      BY <2>1 DEF TypeOK
    <3>3. ASSUME NEW q, Asked(q)
          PROVE  Asked(q)'
      BY <2>1, <3>2, <3>3 DEF Asked, Awaited
    <3>4. ASSUME NEW f, Given(f)
          PROVE  Given(f)'
      BY <2>1, <3>2, <3>4 DEF Given, Awaited
    <3>5. Meant'
      BY <2>1, <3>1, <3>3, <3>4 DEF True, Meant
    <3> QED BY <2>2, <2>4, <3>5 DEF True
  <2>6. CASE ~want_rx
    <3>1. Empty /\ Phases
      BY <2>6, QuietIdle
    <3>2. queue = <<>> /\ SendRead(r, <<>>)
      BY <1>1, <2>6, <3>1 DEF StartRead, Empty, Calm
    <3>3. queue' = <<r>>
      BY <2>1, <3>2
    <3>4. wire' = <<Reading(r)>> /\ ring' = <<>>
      BY <3>1, <3>2, SendsRead
    <3>5. Meant'
      BY <2>1, <3>1, <3>3, <3>4, MeantRead DEF Empty
    <3> QED BY <2>2, <2>4, <3>5 DEF True
  <2> QED BY <2>5, <2>6
<1>2. ASSUME NEW r \in Reg, Restart(r)
      PROVE  True'
  BY <1>2 DEF Restart, Calm
<1>3. ASSUME NEW r \in Reg, NEW v \in Value, Write(r, v)
      PROVE  True'
  <2>1. Empty /\ Phases
    BY <1>3, QuietIdle DEF Write, HasPending
  <2>2. Writing(r, v) \in Request /\ Writing(r, v).kind = "write"
        /\ Writing(r, v).reg = r /\ Writing(r, v).val = v
    BY RequestType DEF Writing
  <2>3. wire' = <<Writing(r, v)>> /\ ring' = <<>>
    BY <1>3, <2>1, <2>2, SendsAlone DEF Write, Empty
  <2>4. /\ expected' = [not_done |-> TRUE, reg |-> r, val |-> v, pass |-> FALSE]
        /\ cmd' = [on |-> TRUE, reg |-> r, val |-> v, res |-> None]
        /\ queue = <<>> /\ UNCHANGED <<queue, tail, slave, state, from>>
    BY <1>3 DEF Write, HasPending, regVars
  <2>5. Awaited(Writing(r, v))'
    BY <2>2, <2>4 DEF Awaited
  <2>6. Head(wire') = Writing(r, v)
    BY <2>3
  <2>7. Meant'
    BY <2>1, <2>2, <2>3, <2>4, <2>5, <2>6 DEF Meant, Asked, Empty
  <2>8. Written' /\ WriteIsDone'
    BY <2>4 DEF Written, WriteIsDone, ModbusAssumption
  <2>9. AnswerIsOwn'
    BY <2>4, OwnSame DEF True
  <2> QED BY <2>7, <2>8, <2>9 DEF True
<1> QED BY <1>1, <1>2, <1>3 DEF Starts

\* mb_reg_set ends: nothing is on the bus any more.
LEMMA TrueEnds ==
    ASSUME ModbusAssumption, TypeOK, Quiet, True, WriteDone \/ WriteTimesOut
    PROVE  True'
<1>1. Empty
  BY DEF WriteDone, WriteTimesOut, HasPending, Quiet, Times
<1>2. UNCHANGED <<wire, ring, tail, queue, expected, slave, state, from>>
  BY DEF WriteDone, WriteTimesOut, regVars, busVars
<1>3. Meant'
  BY <1>1, <1>2, MeantEmpty DEF Empty
<1>4. cmd \in Commands
  BY DEF TypeOK, Commands
<1>5. PICK x \in {"ok", "failed", "timeout"} :
        /\ cmd' = [cmd EXCEPT !.on = FALSE, !.res = x]
        /\ x = "ok" => ~expected.not_done /\ expected.pass
  BY DEF WriteDone, WriteTimesOut
<1>6. cmd'.on = FALSE /\ cmd'.res = x /\ cmd'.reg = cmd.reg /\ cmd'.val = cmd.val
  BY <1>4, <1>5, CommandType
<1>7. cmd.on
  BY DEF WriteDone, WriteTimesOut
<1>8. Written'
  BY <1>6 DEF Written
<1>9. WriteIsDone'
  BY <1>2, <1>5, <1>6, <1>7 DEF True, Written, WriteIsDone
<1>10. AnswerIsOwn'
  BY <1>2, OwnSame DEF True
<1> QED BY <1>3, <1>8, <1>9, <1>10 DEF True

\* What is said of the frame that is received.
LEMMA ReceivedGiven ==
    ASSUME ModbusAssumption, TypeOK, Quiet, True, Received, UNCHANGED <<wire, tail>>
    PROVE  Given(Cur) /\ Cur \in Frame /\ Meant'
<1>1. Whole /\ ring # <<>>
  BY DEF Received, Whole, Listening
<1>2. /\ wire = <<>> /\ tail = None /\ Cur = ring[1].frame /\ Cur \in Frame
      /\ SubSeq(ring, BodyAt + 1, Len(ring)) = <<>>
  BY <1>1, WholeFrame, WholeType DEF Quiet
<1>3. Empty'
  BY <1>2 DEF Received, Empty
<1> QED BY <1>1, <1>2, <1>3, MeantEmpty DEF True, Meant

\* An empty bus that stays empty, and a command that goes on.
LEMMA TrueEmpty ==
    ASSUME True, Empty', UNCHANGED <<cmd, expected, slave, state, from>>
    PROVE  True'
BY MeantEmpty, WrittenSame, OwnSame DEF True

LEMMA TrueSendsNext ==
    ASSUME ModbusAssumption, Calm, TypeOK, True, Phases, Empty, queue # <<>>,
           SendRead(Head(queue), <<>>), UNCHANGED <<queue, expected, from, cmd, tail, slave>>
    PROVE  True'
<1>1. Head(queue) \in Reg
  BY DEF TypeOK
<1>2. wire' = <<Reading(Head(queue))>> /\ ring' = <<>>
  BY <1>1, SendsRead
<1>3. Meant'
  BY <1>1, <1>2, MeantRead DEF Empty
<1>4. AnswerIsOwn'
  BY <1>1, ReadRest DEF True, SendRead
<1> QED BY <1>3, <1>4, WrittenSame DEF True

LEMMA TrueRx ==
    ASSUME ModbusAssumption, Calm, TypeOK, Quiet, True, Rx
    PROVE  True'
<1>1. CASE RxClear
  BY <1>1, QuietIdle DEF RxClear, Empty
<1>2. CASE RxNext
  <2>1. Empty /\ Phases
    BY <1>2, QuietIdle DEF RxNext
  <2> QED BY <1>2, <2>1, TrueSendsNext DEF RxNext
<1>3. CASE RxResend
  <2>1. Empty /\ Phases
    BY <1>3, TimedOutEmpty DEF RxResend, Quiet
  <2>2. CASE queue = <<>>
    <3>1. ring' = <<>> /\ UNCHANGED <<wire, tail, cmd, expected, slave, state, from>>
      BY <1>3, <2>2 DEF RxResend
    <3> QED BY <2>1, <3>1, TrueEmpty DEF Empty
  <2>3. CASE queue # <<>>
    <3>1. SendRead(Head(queue), <<>>) /\ UNCHANGED <<queue, expected, from, cmd, tail, slave>>
      BY <1>3, <2>3 DEF RxResend
    <3> QED BY <2>1, <2>3, <3>1, TrueSendsNext
  <2> QED BY <2>2, <2>3
<1>4. CASE RxDrop
  <2>1. Empty
    BY <1>4, TimedOutEmpty DEF RxDrop, Quiet
  <2>2. ring' = <<>> /\ UNCHANGED <<wire, tail, cmd, expected, slave, state, from>>
    BY <1>4 DEF RxDrop, regVars
  <2> QED BY <2>1, <2>2, TrueEmpty DEF Empty
<1>5. CASE RxEcho
  BY <1>5 DEF RxEcho, Quiet, Phases
<1>6. CASE RxSkip
  <2>1. ring # <<>> /\ body = None /\ ring[1].part # "head"
    BY <1>6 DEF RxSkip, Listening
  <2>2. PICK f \in Frame : \/ ring = <<Part("head", f)>>
                          \/ ring = <<Part("head", f), Part("body", f)>>
    BY <2>1 DEF Quiet, Phases, Form, ModbusAssumption
  <2>3. ring[1] = Part("head", f)
    BY <2>2
  <2> QED BY <2>1, <2>3, PartType
<1>7. CASE RxHeader
  <2>1. ring # <<>> /\ body = None /\ (ring[1].part = "head" => Len(ring) = 1)
    BY <1>7 DEF RxHeader, Listening
  <2>2. PICK f \in Frame : \/ ring = <<Part("head", f)>>
                          \/ ring = <<Part("head", f), Part("body", f)>>
    BY <2>1 DEF Quiet, Phases, Form, ModbusAssumption
  <2>3. ring[1] = Part("head", f) /\ ring[1].part = "head"
    BY <2>2, PartType
  <2>4. ring = <<Part("head", f)>>
    BY <2>1, <2>2, <2>3
  <2>5. ring' = <<>> /\ wire = <<>>
        /\ UNCHANGED <<wire, tail, queue, cmd, expected, slave, state, from>>
    BY <1>7, <2>1, <2>4 DEF RxHeader, Quiet, Phases, regVars
  <2>6. tail # None => Given(tail)'
    BY <2>5 DEF True, Meant, Given, Awaited
  <2>7. Meant'
    BY <2>5, <2>6 DEF Meant
  <2> QED BY <2>5, <2>7, WrittenSame, OwnSame DEF True
<1>8. CASE RxBad
  <2>1. wire = <<>> /\ tail = None /\ SubSeq(ring, BodyAt + 1, Len(ring)) = <<>>
    BY <1>8, WholeFrame DEF RxBad, Quiet
  <2>2. ring' = <<>> /\ UNCHANGED <<wire, tail, cmd, expected, slave, state, from>>
    BY <1>8, <2>1 DEF RxBad, regVars
  <2> QED BY <2>1, <2>2, TrueEmpty DEF Empty
<1>9. CASE RxAck
  <2>1. Received /\ Acknowledges(Cur)
        /\ expected' = [expected EXCEPT !.not_done = FALSE, !.pass = Matches(Cur)]
        /\ UNCHANGED <<wire, tail, queue, cmd, slave, state, from>>
    BY <1>9 DEF RxAck, regVars
  <2>2. Given(Cur) /\ Cur \in Frame /\ Meant'
    BY <2>1, ReceivedGiven
  <2>3. /\ cmd.on /\ Cur.reg = expected.reg /\ Cur.val = expected.val
        /\ slave[Cur.reg] = Cur.val
    BY <2>1, <2>2 DEF Acknowledges, Given, Awaited
  <2>4. expected \in Expectations /\ Matches(Cur) \in BOOLEAN
    BY DEF TypeOK, Expectations, Matches
  <2>5. expected'.reg = expected.reg /\ expected'.val = expected.val
    BY <2>1, <2>4, ExpectationType
  <2>6. Written'
    BY <2>1, <2>3, <2>5 DEF True, Written
  <2>7. WriteIsDone'
    BY <2>1 DEF True, WriteIsDone
  <2> QED BY <2>1, <2>2, <2>6, <2>7, OwnSame DEF True
<1>10. CASE RxNoneQueued
  <2>1. Received /\ UNCHANGED <<wire, tail, cmd, expected, slave, state, from>>
    BY <1>10 DEF RxNoneQueued, regVars
  <2> QED BY <2>1, ReceivedGiven, WrittenSame, OwnSame DEF True
<1>11. CASE RxReply
  <2>1. Received /\ ~Acknowledges(Cur) /\ queue # <<>>
        /\ UNCHANGED <<wire, tail, cmd, expected, slave>>
    BY <1>11 DEF RxReply
  <2>2. Given(Cur) /\ Cur \in Frame /\ Meant'
    BY <2>1, ReceivedGiven
  <2>3. Cur.kind \in {"value", "exception", "ack", "reject"}
    BY <2>2, FrameType
  <2>4. Cur.kind \in {"value", "exception"}
    BY <2>1, <2>2, <2>3 DEF Given, Awaited, Acknowledges
  <2>5. Cur.reg = Head(queue) /\ Head(queue) \in Reg
    BY <2>1, <2>2, <2>4 DEF Given, TypeOK
  <2>6. PICK s \in Stored(Cur, Head(queue)) :
          /\ state' = [state EXCEPT ![Head(queue)] = s]
          /\ from' = IF s # "ready" THEN from
                     ELSE [from EXCEPT ![Head(queue)] =
                             IF Cur.kind = "value" THEN Cur.reg ELSE None]
    BY <1>11 DEF RxReply
  <2>7. s = "ready" => Cur.kind = "value"
    BY <2>4 DEF Stored
  <2>8. AnswerIsOwn'
    <3>1. ASSUME NEW r \in Reg, state'[r] = "ready"
          PROVE  from'[r] = r
      <4>1. CASE r = Head(queue)
        <5>1. s = "ready"
          BY <3>1, <4>1, <2>6 DEF TypeOK
        <5>2. from' = [from EXCEPT ![Head(queue)] = Cur.reg]
          BY <5>1, <2>6, <2>7
        <5> QED BY <4>1, <5>2, <2>5 DEF TypeOK
      <4>2. CASE r # Head(queue)
        <5>1. state'[r] = state[r] /\ from'[r] = from[r]
          BY <4>2, <2>6 DEF TypeOK
        <5> QED BY <3>1, <5>1 DEF True, AnswerIsOwn
      <4> QED BY <4>1, <4>2
    <3> QED BY <3>1 DEF AnswerIsOwn
  <2> QED BY <2>1, <2>2, <2>8, WrittenSame DEF True
<1> QED BY <1>1, <1>2, <1>3, <1>4, <1>5, <1>6, <1>7, <1>8, <1>9, <1>10, <1>11 DEF Rx

LEMMA TrueSlaves ==
    ASSUME ModbusAssumption, Calm, TypeOK, Quiet, True, Slaves
    PROVE  True'
<1>1. CASE SlaveAnswers
  <2>1. wire # <<>> /\ wire' = Tail(wire)
        /\ UNCHANGED <<queue, cmd, expected, state, from>>
    BY <1>1 DEF SlaveAnswers, regVars
  <2>2. Len(wire) = 1 /\ tail = None /\ ring = <<>>
    BY <2>1 DEF Quiet, Phases
  <2>3. wire' = <<>>
    BY <2>1, <2>2 DEF TypeOK
  <2> DEFINE q == Head(wire)
  <2>4. PICK k \in AnswersTo(q), ok \in BOOLEAN :
          LET f == Answer(k, q, ok)
          IN  /\ ring' = IntoRing(ring, <<Part("head", f)>>)
              /\ tail' = f
              /\ slave' = IF k = "ack" THEN [slave EXCEPT ![f.reg] = f.val]
                          ELSE slave
    BY <1>1 DEF SlaveAnswers
  <2>5. q \in Request
    BY <2>1 DEF TypeOK
  <2>6. k \in {"value", "exception", "ack", "reject"}
    BY DEF AnswersTo
  <2>7. q.reg \in Reg /\ q.kind \in {"read", "write"}
    BY <2>5, RequestType
  <2>8. Asked(q)
    BY <2>1 DEF True, Meant
  <2>9. PICK f \in Frame :
          /\ f = Answer(k, q, ok) /\ f.kind = k /\ f.reg = q.reg /\ f.val = q.val
    BY <2>5, <2>6, AnswerType
  <2>10. /\ ring' = IntoRing(ring, <<Part("head", f)>>) /\ tail' = f
         /\ slave' = IF k = "ack" THEN [slave EXCEPT ![f.reg] = f.val] ELSE slave
    BY <2>4, <2>9
  <2>11. ring' = <<Part("head", f)>>
    BY <2>2, <2>10 DEF IntoRing, ModbusAssumption
  <2>12. ring'[1].frame = f
    BY <2>9, <2>11, PartType
  <2>13. k \in {"ack", "reject"} => Awaited(q)
    BY <2>8 DEF AnswersTo, Asked
  <2>14. k \in {"value", "exception"} => queue # <<>> /\ q.reg = Head(queue)
    BY <2>8 DEF AnswersTo, Asked
  <2>15. k = "ack" => slave'[f.reg] = f.val
    BY <2>7, <2>9, <2>10 DEF TypeOK
  <2>16. Awaited(q) => Awaited(f)'
    BY <2>1, <2>9, <2>10 DEF Awaited
  <2>17. Given(f)'
    BY <2>1, <2>9, <2>10, <2>13, <2>14, <2>15, <2>16 DEF Given
  <2>18. Meant'
    BY <2>3, <2>10, <2>12, <2>17 DEF Meant
  <2>19. Written' /\ WriteIsDone'
    <3>1. CASE k = "ack"
      <4>1. cmd.on /\ expected.not_done
        BY <3>1, <2>13 DEF Awaited
      <4> QED BY <4>1, <2>1 DEF True, Written, WriteIsDone
    <3>2. CASE k # "ack"
      BY <3>2, <2>1, <2>10, WrittenSame DEF True
    <3> QED BY <3>1, <3>2
  <2> QED BY <2>1, <2>18, <2>19, OwnSame DEF True
<1>2. CASE Lost
  <2>1. wire # <<>> /\ wire' = Tail(wire)
        /\ UNCHANGED <<queue, cmd, expected, state, from, ring, tail>>
    BY <1>2 DEF Lost, regVars
  <2>2. Len(wire) = 1 /\ tail = None /\ ring = <<>>
    BY <2>1 DEF Quiet, Phases
  <2>3. wire' = <<>>
    BY <2>1, <2>2 DEF TypeOK
  <2>4. Meant'
    BY <2>1, <2>2, <2>3, MeantEmpty DEF Empty
  <2>5. Written' /\ WriteIsDone'
    <3>1. CASE slave' = slave
      BY <3>1, <2>1, WrittenSame DEF True
    <3>2. CASE Head(wire).kind = "write"
      <4>1. cmd.on /\ expected.not_done
        BY <3>2, <2>1 DEF True, Meant, Asked, Awaited
      <4> QED BY <4>1, <2>1 DEF True, Written, WriteIsDone
    <3> QED BY <1>2, <3>1, <3>2 DEF Lost
  <2> QED BY <2>1, <2>4, <2>5, OwnSame DEF True
<1>3. CASE RestComes
  <2>1. tail # None /\ tail \in Frame /\ tail' = None
        /\ ring' = IntoRing(ring, <<Part("body", tail)>>)
        /\ UNCHANGED <<wire, queue, cmd, expected, slave, state, from>>
    BY <1>3 DEF RestComes, TypeOK, regVars
  <2>2. wire = <<>> /\ Given(tail)
    BY <2>1 DEF Quiet, Phases, True, Meant
  <2>3. PICK f \in Frame : f = tail
    BY <2>1
  <2>4. Given(f)'
    BY <2>1, <2>2, <2>3 DEF Given, Awaited
  <2>5. ring' # <<>> /\ ring'[1].frame = f
    <3>1. CASE ring = <<>>
      <4>1. ring' = <<Part("body", f)>>
        BY <2>1, <2>3, <3>1 DEF IntoRing, ModbusAssumption
      <4> QED BY <4>1, PartType
    <3>2. CASE ring = <<Part("head", f)>>
      <4> DEFINE h == Part("head", f)
                 b == Part("body", f)
      <4>1. ring = <<h>> /\ ring' = IntoRing(ring, <<b>>) /\ h.frame = f
        BY <2>1, <2>3, <3>2, PartType
      <4> HIDE DEF h, b
      <4>2. <<h>> \in Seq({h, b}) /\ <<b>> \in Seq({h, b})
        OBVIOUS
      <4>3. Len(<<h>> \o <<b>>) = 2 /\ (<<h>> \o <<b>>)[1] = h
        BY <4>2, ConcatProperties
      <4>4. ring' # <<>> /\ ring'[1] = h
        BY <4>1, <4>3 DEF IntoRing
      <4> QED BY <4>1, <4>4
    <3> QED BY <2>1, <2>3, <3>1, <3>2 DEF Quiet, Phases
  <2>6. Meant'
    BY <2>1, <2>2, <2>4, <2>5 DEF Meant
  <2> QED BY <2>1, <2>6, WrittenSame, OwnSame DEF True
<1>4. CASE RestLost
  <2>1. tail' = None /\ UNCHANGED <<wire, ring, queue, cmd, expected, slave, state, from>>
    BY <1>4 DEF RestLost, regVars
  <2>2. Meant'
    BY <2>1 DEF True, Meant, Asked, Given, Awaited
  <2> QED BY <2>1, <2>2, WrittenSame, OwnSame DEF True
<1> QED BY <1>1, <1>2, <1>3, <1>4 DEF Slaves

LEMMA TrueStep ==
    ASSUME ModbusAssumption, Calm, TypeOK, Quiet, True, [Next]_vars
    PROVE  True'
<1>1. CASE Ages
  <2>1. UNCHANGED <<wire, tail, ring, queue, cmd, expected, slave, state, from>>
    BY <1>1 DEF Ages, SendAges, TimingAges, GapEnds, busVars, regVars
  <2> QED BY <2>1, MeantSame, WrittenSame, OwnSame DEF True
<1>2. CASE UNCHANGED vars
  <2>1. UNCHANGED <<wire, tail, ring, queue, cmd, expected, slave, state, from>>
    BY <1>2 DEF vars
  <2> QED BY <2>1, MeantSame, WrittenSame, OwnSame DEF True
<1> QED BY <1>1, <1>2, TrueStarts, TrueEnds, TrueRx, TrueSlaves DEF Next

LEMMA TrueAlways == ASSUME ModbusAssumption, Calm PROVE Spec => []True
<1>1. Init => True
  BY TrueInit
<1>2. TypeOK /\ Quiet /\ True /\ [Next]_vars => True'
  BY TrueStep
<1> QED BY <1>1, <1>2, QuietAlways, PTL DEF Spec

\* The frame that takes a register from the queue answers the request for that
\* register, so that a reading is never stored for another one, even if the two
\* have the same unit and the same length.
THEOREM ReadingIsOfItsRegister == ASSUME ModbusAssumption, Calm PROVE Spec => []AnswerIsOwn
<1>1. True => AnswerIsOwn
  BY DEF True
<1> QED BY <1>1, TrueAlways, PTL

\* What mb_reg_set reports as done the slave has done, although the
\* acknowledgement of a longer write is not compared with its value.
THEOREM SuccessIsReal == ASSUME ModbusAssumption, Calm PROVE Spec => []WriteIsDone
<1>1. True => WriteIsDone
  BY DEF True
<1> QED BY <1>1, TrueAlways, PTL

-----------------------------------------------------------------------------
(* How often the head of the queue is sent, if no frame is corrupted.  A   *)
(* corrupted one ends the waiting for an answer without being counted, so  *)
(* that the head may then be sent for ever.                                *)

Clean == Calm /\ "garble" \notin Faults

Checked ==
    /\ tail # None => tail.crc
    /\ ring # <<>> => ring[1].frame.crc

Counted ==
    /\ tries <= retransmits + 1
    /\ ~want_rx \/ queue = <<>> => tries = 0

LEMMA CheckedKept ==
    ASSUME Checked, ring' = <<>> \/ ring' = ring, tail' = None \/ tail' = tail
    PROVE  Checked'
BY DEF Checked

LEMMA CheckedMaster ==
    ASSUME ModbusAssumption, Calm, TypeOK, Quiet, Checked,
           Starts \/ Rx \/ WriteDone \/ WriteTimesOut \/ Ages \/ UNCHANGED vars
    PROVE  Checked'
<1>1. tail' = tail
  BY DEF Starts, StartRead, Restart, Write, WriteDone, WriteTimesOut, Ages, SendAges,
         TimingAges, GapEnds, Rx, RxClear, RxNext, RxResend, RxDrop, RxEcho, RxSkip, RxHeader,
         RxBad, RxAck, RxNoneQueued, RxReply, busVars, vars
<1>2. CASE ring' = ring
  BY <1>1, <1>2, CheckedKept
<1>3. CASE Starts
  <2>1. ASSUME NEW r \in Reg, StartRead(r), ~want_rx
        PROVE  ring' = <<>>
    <3>1. Empty /\ Phases
      BY <2>1, QuietIdle
    <3>2. SendRead(r, <<>>)
      BY <2>1, <3>1 DEF StartRead, Empty
    <3> QED BY <3>1, <3>2, SendsRead
  <2>2. ASSUME NEW r \in Reg, StartRead(r), want_rx
        PROVE  ring' = ring
    BY <2>2 DEF StartRead
  <2>3. ASSUME NEW r \in Reg, NEW v \in Value, Write(r, v)
        PROVE  ring' = <<>>
    <3>1. Empty /\ Phases
      BY <2>3, QuietIdle DEF Write, HasPending
    <3>2. Writing(r, v) \in Request
      BY RequestType
    <3> QED BY <2>3, <3>1, <3>2, SendsAlone DEF Write, Empty
  <2>4. ASSUME NEW r \in Reg, Restart(r)
        PROVE  FALSE
    BY <2>4 DEF Restart, Calm
  <2> QED BY <1>1, <1>3, <2>1, <2>2, <2>3, <2>4, CheckedKept DEF Starts
<1>4. CASE Rx
  <2>1. CASE RxNext
    <3>1. Empty /\ Phases
      BY <2>1, QuietIdle DEF RxNext
    <3>2. Head(queue) \in Reg /\ SendRead(Head(queue), <<>>)
      BY <2>1 DEF RxNext, TypeOK
    <3> QED BY <1>1, <3>1, <3>2, SendsRead, CheckedKept
  <2>2. CASE RxResend
    <3>1. Empty /\ Phases
      BY <2>2, TimedOutEmpty DEF RxResend, Quiet
    <3>2. CASE queue = <<>>
      BY <1>1, <2>2, <3>2, CheckedKept DEF RxResend
    <3>3. CASE queue # <<>>
      <4>1. Head(queue) \in Reg /\ SendRead(Head(queue), <<>>)
        BY <2>2, <3>3 DEF RxResend, TypeOK
      <4> QED BY <1>1, <3>1, <4>1, SendsRead, CheckedKept
    <3> QED BY <3>2, <3>3
  <2>3. CASE RxClear \/ RxDrop
    BY <1>1, <2>3, CheckedKept DEF RxClear, RxDrop
  <2>4. CASE RxEcho
    BY <2>4 DEF RxEcho, Quiet, Phases
  <2>5. CASE RxSkip \/ RxHeader
    <3>1. ring # <<>> /\ ring' = Tail(ring) /\ body = None
      BY <2>5 DEF RxSkip, RxHeader, Listening
    <3>2. PICK f \in Frame : \/ ring = <<Part("head", f)>>
                            \/ ring = <<Part("head", f), Part("body", f)>>
      BY <3>1 DEF Quiet, Phases, Form, ModbusAssumption
    <3>3. ring[1].part = "head"
      <4>1. ring[1] = Part("head", f)
        BY <3>2
      <4> QED BY <4>1, PartType
    <3>4. Len(ring) = 1
      BY <2>5, <3>3 DEF RxSkip, RxHeader
    <3>5. ring' = <<>>
      BY <3>1, <3>4 DEF TypeOK
    <3> QED BY <1>1, <3>5, CheckedKept
  <2>6. CASE RxBad \/ RxAck \/ RxNoneQueued \/ RxReply
    <3>1. Whole /\ ring' = SubSeq(ring, BodyAt + 1, Len(ring))
      BY <2>6 DEF RxBad, RxAck, RxNoneQueued, RxReply, Received
    <3>2. ring' = <<>>
      BY <3>1, WholeFrame DEF Quiet
    <3> QED BY <1>1, <3>2, CheckedKept
  <2> QED BY <1>4, <2>1, <2>2, <2>3, <2>4, <2>5, <2>6 DEF Rx
<1>5. CASE WriteDone \/ WriteTimesOut \/ Ages \/ UNCHANGED vars
  <2>1. ring' = ring
    BY <1>5 DEF WriteDone, WriteTimesOut, Ages, SendAges, TimingAges, GapEnds, busVars, vars
  <2> QED BY <1>2, <2>1
<1> QED BY <1>3, <1>4, <1>5

LEMMA CheckedSlaves ==
    ASSUME ModbusAssumption, Clean, TypeOK, Quiet, Checked, Slaves
    PROVE  Checked'
<1>1. CASE SlaveAnswers
  <2>1. wire # <<>>
    BY <1>1 DEF SlaveAnswers
  <2>2. ring = <<>> /\ Head(wire) \in Request
    BY <2>1 DEF Quiet, Phases, TypeOK
  <2>3. PICK k \in AnswersTo(Head(wire)) :
          LET f == Answer(k, Head(wire), TRUE)
          IN  ring' = IntoRing(ring, <<Part("head", f)>>) /\ tail' = f
    BY <1>1 DEF SlaveAnswers, Clean
  <2>4. k \in {"value", "exception", "ack", "reject"}
    BY DEF AnswersTo
  <2>5. PICK f \in Frame : f = Answer(k, Head(wire), TRUE) /\ f.crc
    BY <2>2, <2>4, AnswerType
  <2>6. ring' = <<Part("head", f)>> /\ tail' = f
    <3>1. ring' = IntoRing(<<>>, <<Part("head", f)>>) /\ tail' = f
      BY <2>2, <2>3, <2>5
    <3> QED BY <3>1 DEF IntoRing, ModbusAssumption
  <2>7. ring'[1].frame = f
    BY <2>6, PartType
  <2> QED BY <2>5, <2>6, <2>7 DEF Checked
<1>2. CASE Lost \/ RestLost
  BY <1>2, CheckedKept DEF Lost, RestLost
<1>3. CASE RestComes
  <2>1. tail # None /\ tail \in Frame /\ tail' = None /\ tail.crc
        /\ ring' = IntoRing(ring, <<Part("body", tail)>>)
    BY <1>3 DEF RestComes, TypeOK, Checked
  <2>2. PICK f \in Frame : f = tail
    BY <2>1
  <2>3. CASE ring = <<>>
    <3>1. ring' = <<Part("body", f)>>
      BY <2>1, <2>2, <2>3 DEF IntoRing, ModbusAssumption
    <3>2. ring'[1].frame = f
      BY <3>1, PartType
    <3> QED BY <2>1, <2>2, <3>2 DEF Checked
  <2>4. CASE ring # <<>>
    <3>1. ring \in Seq(Parts) /\ Len(ring) > 0
      BY <2>4 DEF TypeOK, Parts
    <3> DEFINE b == Part("body", f)
    <3>2. b \in Parts /\ ring' = IntoRing(ring, <<b>>)
      BY <2>1, <2>2, PartType
    <3> HIDE DEF b
    <3>3. <<b>> \in Seq(Parts)
      BY <3>2
    <3>4. (ring \o <<b>>)[1] = ring[1]
      BY <3>1, <3>3, ConcatProperties
    <3>5. ring'[1] = ring[1]
      BY <3>2, <3>4 DEF IntoRing
    <3> QED BY <2>1, <2>4, <3>5 DEF Checked
  <2> QED BY <2>3, <2>4
<1> QED BY <1>1, <1>2, <1>3 DEF Slaves

LEMMA CountedStep ==
    ASSUME ModbusAssumption, Clean, TypeOK, Quiet, True, Checked, Counted, [Next]_vars
    PROVE  Counted'
<1>1. ASSUME NEW r \in Reg, StartRead(r)
      PROVE  Counted'
  <2>1. queue' = Append(queue, r) /\ retransmits' = retransmits
    BY <1>1 DEF StartRead
  <2>2. queue' # <<>>
    BY <2>1 DEF TypeOK
  <2>3. CASE want_rx
    BY <1>1, <2>1, <2>2, <2>3 DEF StartRead, Counted
  <2>4. CASE ~want_rx
    <3>1. queue = <<>> /\ want_rx' = TRUE /\ tries' = 1
      BY <1>1, <2>4 DEF StartRead, SendRead, Clean, Calm
    <3> QED BY <2>1, <2>2, <3>1 DEF Counted, TypeOK
  <2> QED BY <2>3, <2>4
<1>2. ASSUME NEW r \in Reg, Restart(r)
      PROVE  FALSE
  BY <1>2 DEF Restart, Clean, Calm
<1>3. ASSUME NEW r \in Reg, NEW v \in Value, Write(r, v)
      PROVE  Counted'
  <2>1. tries = 0 /\ UNCHANGED <<queue, retransmits, tries>>
    BY <1>3 DEF Write, HasPending, Counted
  <2> QED BY <2>1 DEF Counted, TypeOK
<1>4. CASE RxNext
  <2>1. tries = 0 /\ tries' = Again(tries) /\ want_rx' = TRUE
        /\ UNCHANGED <<queue, retransmits>> /\ queue # <<>>
    BY <1>4 DEF RxNext, SendRead, Counted
  <2>2. tries' = 1
    BY <2>1 DEF Again, ModbusAssumption
  <2> QED BY <2>1, <2>2 DEF Counted, TypeOK
<1>5. CASE RxResend
  <2>1. retransmits' = retransmits + 1 /\ UNCHANGED queue
    BY <1>5 DEF RxResend
  <2>2. CASE queue = <<>>
    <3>1. tries = 0 /\ tries' = 0
      BY <1>5, <2>2 DEF RxResend, Counted
    <3> QED BY <2>1, <3>1 DEF Counted, TypeOK
  <2>3. CASE queue # <<>>
    <3>1. tries' = Again(tries) /\ want_rx' = TRUE
      BY <1>5, <2>3 DEF RxResend, SendRead
    <3>2. tries' <= tries + 1
      BY <3>1 DEF Again, TypeOK
    <3>3. tries' \in Nat
      BY <3>1 DEF Again, TypeOK, ModbusAssumption
    <3>4. tries' <= retransmits' + 1
      BY <2>1, <3>2, <3>3 DEF Counted, TypeOK, ModbusAssumption
    <3> QED BY <2>1, <2>3, <3>1, <3>4 DEF Counted
  <2> QED BY <2>2, <2>3
<1>6. CASE RxDrop \/ RxReply
  <2>1. tries' = 0 /\ retransmits' = 0
    BY <1>6 DEF RxDrop, RxReply
  <2> QED BY <2>1 DEF Counted
<1>7. CASE RxBad
  <2>1. Cur = ring[1].frame /\ ring[BodyAt] = Part("body", Cur) /\ ring # <<>>
    BY <1>7, WholeFrame DEF RxBad, Quiet, Whole, Listening
  <2> QED BY <1>7, <2>1 DEF RxBad, Intact, Checked
<1>8. CASE RxAck
  <2>1. Received /\ UNCHANGED <<wire, tail, queue, retransmits, tries>> /\ Acknowledges(Cur)
    BY <1>8 DEF RxAck
  <2>2. queue = <<>>
    BY <2>1, ReceivedGiven DEF Given, Acknowledges, Awaited
  <2> QED BY <2>1, <2>2 DEF Counted
<1>9. CASE RxNoneQueued
  BY <1>9 DEF RxNoneQueued, Counted
<1>10. CASE UNCHANGED <<want_rx, queue, tries, retransmits>>
  BY <1>10 DEF Counted
<1>11. CASE \/ WriteDone \/ WriteTimesOut \/ Slaves \/ Ages \/ UNCHANGED vars
          \/ RxClear \/ RxEcho \/ RxSkip \/ RxHeader
  <2>1. UNCHANGED <<want_rx, queue, tries, retransmits>>
    BY <1>11 DEF WriteDone, WriteTimesOut, Slaves, SlaveAnswers, Lost, RestComes, RestLost,
       Ages, SendAges, TimingAges, GapEnds, vars, RxClear, RxEcho, RxSkip, RxHeader
  <2> QED BY <1>10, <2>1
<1> QED BY <1>1, <1>2, <1>3, <1>4, <1>5, <1>6, <1>7, <1>8, <1>9, <1>11 DEF Next, Starts, Rx

\* If no answer is corrupted, a register is asked for at most
\* MODBUS_MAX_RETRANSMITS times before the next one has its turn.
THEOREM EachIsTriedSoOften == ASSUME ModbusAssumption, Clean PROVE Spec => []TriesBounded
<1> DEFINE Inv == Checked /\ Counted
<1>1. Init => Inv
  BY DEF Init, Checked, Counted
<1>2. TypeOK /\ Quiet /\ True /\ Inv /\ [Next]_vars => Inv'
  BY CheckedMaster, CheckedSlaves, CountedStep DEF Next, Clean
<1>3. TypeOK /\ Inv => TriesBounded
  BY DEF Counted, TypeOK, TriesBounded, ModbusAssumption
<1>4. Calm
  BY DEF Clean
<1> HIDE DEF Inv
<1> QED BY <1>1, <1>2, <1>3, <1>4, QuietAlways, TrueAlways, PTL DEF Spec

=============================================================================
