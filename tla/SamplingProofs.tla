--------------------------- MODULE SamplingProofs ---------------------------
(***************************************************************************)
(* What is proved of Sampling, for every interval length T, number N of    *)
(* measurements and table of definitions with intervals of one or two      *)
(* sends: no measurement whose collection time has room is left being      *)
(* collected (NotLocked), and its samples have the time they need and are  *)
(* all in their report (SamplesAreReported).                               *)
(*                                                                         *)
(* The argument is about one measurement.  Its definition says at which    *)
(* time of the interval the next thing happens to it (NextAt); the time to *)
(* the next check, wait - checked, never passes that (InStep).  So a pass  *)
(* comes at that time and not after it, and a pass has one of six outcomes *)
(* (Outcomes), each of which works out a wait for the next time of this    *)
(* measurement; the wait that counts is the least of all.  At the end of   *)
(* the interval everything begun is collected, so that the send resets     *)
(* nothing that is still open.                                             *)
(*                                                                         *)
(* That needs the turns and sends to be in time, so the parts of IInv name *)
(* the faults they allow.  A sensor that is busy or fails keeps its        *)
(* measurement in step (Unlocked) but not its times, unless it takes some  *)
(* time to collect (Timely, Prompt).                                       *)
(***************************************************************************)
EXTENDS Sampling, WellFoundedInduction, TLAPS

(***************************************************************************)
(* Numbers.                                                                *)
(***************************************************************************)
LEMMA Times == \A a, b, n \in Nat : a <= b => a * n <= b * n
  BY SMT
LEMMA OneMore == \A a, n \in Nat : (a + 1) * n = a * n + n
  BY SMT
LEMMA Division ==
  ASSUME NEW x \in Nat, NEW n \in Nat, n > 0
  PROVE  /\ x \div n \in Nat /\ n * (x \div n) <= x /\ x \div n <= x
         /\ x % n \in 0..(n - 1) /\ x % n = x - n * (x \div n)
  BY SMT
LEMMA Halves == \A x \in Nat : x \div 2 \in Nat /\ 2 * (x \div 2) <= x /\ x < 2 * (x \div 2) + 2
  BY SMT
LEMMA SmallRemainder ==
  ASSUME NEW x \in Nat, NEW n \in Nat, x + 1 < n PROVE (x + 1) % n = x + 1
  BY SMT
LEMMA Products == \A a, n \in Nat : a * n \in Nat
  BY SMT

\* The least of a set of naturals is one of them, and none is less.
LEMMA LeastIs ==
  ASSUME NEW S \in SUBSET Nat, S # {}
  PROVE  /\ Min(S) \in S /\ Min(S) \in Nat
         /\ \A x \in S : Min(S) <= x
<1>1. \E x \in S : \A y \in S : ~(<<y, x>> \in OpToRel(<, Nat))
  BY NatLessThanWellFounded, WFMin, Zenon
<1>2. PICK x \in S : \A y \in S : ~(<<y, x>> \in OpToRel(<, Nat))
  BY <1>1
<1>3. \A y \in S : ~(y < x)
  BY <1>2, Zenon DEF OpToRel
<1>4. \A y \in S : x <= y
  BY <1>3
<1>5. \E z \in S : \A y \in S : z <= y
  BY <1>4
<1> QED BY <1>5 DEF Min

LEMMA LeastOfTwo ==
  ASSUME NEW a \in Nat, NEW b \in Nat
  PROVE  /\ Min({a, b}) \in Nat /\ Min({a, b}) \in {a, b}
         /\ Min({a, b}) <= a /\ Min({a, b}) <= b
<1>1. {a, b} \in SUBSET Nat /\ {a, b} # {}
  OBVIOUS
<1> QED BY <1>1, LeastIs
-----------------------------------------------------------------------------
(***************************************************************************)
(* The counters of one measurement.                                        *)
(***************************************************************************)
Counter == 0..(CounterMod - 1)
InRange(d) ==
    [inits : Counter, collected : Counter, samples : Counter, collecting : BOOLEAN,
     cache : 0..d.takes, age : Nat, given : Nat, sent : Nat]
Says == {"SUCCESS", "ERROR", "BUSY"}

LEMMA UpIsCounter == \A n \in Nat : Up(n) \in Counter
  BY SamplingAssumption, Division DEF Up, Counter

LEMMA CountersAreNat == Counter \subseteq Nat
  BY SamplingAssumption DEF Counter

LEMMA ZeroIsCounter == 0 \in Counter
  BY SamplingAssumption DEF Counter

\* What each operator on the counters leaves, field by field.
LEMMA BegunFields ==
  ASSUME NEW d \in Definition, NEW s \in InRange(d)
  PROVE  /\ Begun(s) \in InRange(d)
         /\ Begun(s).inits = Up(s.inits) /\ Begun(s).collected = s.collected
         /\ Begun(s).samples = s.samples /\ Begun(s).collecting = TRUE
         /\ Begun(s).cache = s.cache /\ Begun(s).age = 0
         /\ Begun(s).given = s.given /\ Begun(s).sent = s.sent
<1>1. s.inits \in Counter /\ s.inits \in Nat
  BY CountersAreNat DEF InRange
<1>2. Up(s.inits) \in Counter
  BY <1>1, UpIsCounter
<1> QED BY <1>2 DEF Begun, InRange

LEMMA SkippedFields ==
  ASSUME NEW d \in Definition, NEW s \in InRange(d)
  PROVE  /\ Skipped(s) \in InRange(d)
         /\ Skipped(s).inits = Up(s.inits) /\ Skipped(s).collected = Up(s.collected)
         /\ Skipped(s).samples = s.samples /\ Skipped(s).collecting = s.collecting
         /\ Skipped(s).cache = s.cache /\ Skipped(s).age = s.age
         /\ Skipped(s).given = s.given /\ Skipped(s).sent = s.sent
<1>1. s.inits \in Nat /\ s.collected \in Nat
  BY CountersAreNat DEF InRange
<1>2. Up(s.inits) \in Counter /\ Up(s.collected) \in Counter
  BY <1>1, UpIsCounter
<1> QED BY <1>2 DEF Skipped, InRange

LEMMA GivenUpFields ==
  ASSUME NEW d \in Definition, NEW s \in InRange(d), NEW g,
         g = [s EXCEPT !.collected = Up(@)]
  PROVE  /\ g \in InRange(d)
         /\ g.inits = s.inits /\ g.collected = Up(s.collected)
         /\ g.samples = s.samples /\ g.collecting = s.collecting
         /\ g.cache = s.cache /\ g.age = s.age
         /\ g.given = s.given /\ g.sent = s.sent
<1>1. s.collected \in Nat
  BY CountersAreNat DEF InRange
<1>2. Up(s.collected) \in Counter
  BY <1>1, UpIsCounter
<1> QED BY <1>2 DEF InRange

WasGet(d, s, r, g) ==
    /\ g \in InRange(d)
    /\ g.inits = s.inits /\ g.collecting = FALSE /\ g.age = s.age /\ g.sent = s.sent
    /\ r = "BUSY" => g.collected = s.collected
    /\ r # "BUSY" => g.collected = Up(s.collected)
    /\ r = "SUCCESS" => g.samples = Up(s.samples) /\ g.cache = d.takes /\ g.given = s.age
    /\ r # "SUCCESS" => g.samples = s.samples /\ g.cache = s.cache /\ g.given = s.given

LEMMA GetFields ==
  ASSUME NEW d \in Definition, NEW s \in InRange(d), NEW r \in Says,
         NEW g, g = GetIteration(d, s, r)
  PROVE  WasGet(d, s, r, g)
<1> USE DEF WasGet
<1>1. s.collected \in Nat /\ s.samples \in Nat
  BY CountersAreNat DEF InRange
<1>2. Up(s.collected) \in Counter /\ Up(s.samples) \in Counter
  BY <1>1, UpIsCounter
<1>3. d.takes \in 0..d.takes
  BY DEF Definition
<1>4. CASE r = "SUCCESS"
  <2>1. g = [s EXCEPT !.collecting = FALSE, !.collected = Up(@), !.samples = Up(@),
                      !.cache = d.takes, !.given = s.age]
    BY <1>4 DEF GetIteration, InRange
  <2> QED BY <1>2, <1>3, <1>4, <2>1 DEF InRange
<1>5. CASE r = "ERROR"
  <2>1. g = [s EXCEPT !.collecting = FALSE, !.collected = Up(@)]
    BY <1>5 DEF GetIteration, InRange
  <2> QED BY <1>2, <1>5, <2>1 DEF InRange
<1>6. CASE r = "BUSY"
  <2>1. g = [s EXCEPT !.collecting = FALSE]
    BY <1>6 DEF GetIteration, InRange
  <2> QED BY <1>6, <2>1 DEF InRange
<1> QED BY <1>4, <1>5, <1>6 DEF Says
-----------------------------------------------------------------------------
(***************************************************************************)
(* The times of one measurement.                                           *)
(***************************************************************************)
LEMMA DeltaIs ==
  ASSUME NEW a \in Nat, NEW b \in Nat
  PROVE  /\ b <= a => Delta(a, b) = a - b
         /\ a <= Huge => Delta(a, b) \in 0..Huge
  BY SamplingAssumption DEF Delta

\* An interval is at most two of INTERVAL_TRANSMIT_MS.
LEMMA SpanIs ==
  ASSUME NEW d \in Definition
  PROVE  d.interval * T \in Nat /\ d.interval * T <= 2 * T /\ T <= d.interval * T
  BY SamplingAssumption DEF Definition, Cycle

LEMMA IntervalIs ==
  ASSUME NEW d \in Definition
  PROVE  /\ Interval(d) \in Nat /\ Interval(d) <= 2 * T
         /\ d.samples * Interval(d) <= d.interval * T
         /\ LeftOver(d) \in Nat /\ d.interval * T = d.samples * Interval(d) + LeftOver(d)
<1>1. d.samples \in Nat /\ d.samples > 0 /\ d.samples * Interval(d) \in Int
  BY Division, SpanIs DEF Definition, Interval
<1>2. d.interval * T \in Nat
  BY SpanIs
<1> DEFINE x == d.interval * T
<1>3. /\ x \div d.samples \in Nat /\ d.samples * (x \div d.samples) <= x /\ x \div d.samples <= x
      /\ x % d.samples \in 0..(d.samples - 1) /\ x % d.samples = x - d.samples * (x \div d.samples)
  BY <1>1, <1>2, Division
<1>4. x <= 2 * T /\ x \in Nat
  BY SpanIs
<1>5. T \in Nat
  BY SamplingAssumption
<1> QED BY <1>1, <1>3, <1>4, <1>5 DEF Interval, LeftOver

LEMMA OffsetIs ==
  ASSUME NEW d \in Definition
  PROVE  /\ Offset(d) \in Nat /\ Offset(d) <= Interval(d)
         /\ Interval(d) > 2 => Interval(d) \div 2 <= Offset(d) /\ Offset(d) < Interval(d)
<1>1. Interval(d) \in Nat
  BY IntervalIs
<1>2. Interval(d) \div 2 \in Nat /\ 2 * (Interval(d) \div 2) <= Interval(d)
  BY <1>1, Halves
<1>3. CASE d.immediate /\ d.samples = 1
  <2>1. d.interval * T \in Nat /\ T <= d.interval * T
    BY SpanIs
  <2>2. Interval(d) = (d.interval * T) \div 1
    BY <1>3 DEF Interval
  <2>3. Interval(d) > 0
    <3>1. \A x \in Nat : x \div 1 = x
      BY SMT
    <3> QED BY <2>1, <2>2, <3>1, SamplingAssumption
  <2>4. Offset(d) = Interval(d) - 1
    BY <1>3 DEF Offset
  <2> QED BY <1>1, <1>2, <2>3, <2>4
<1>4. CASE ~(d.immediate /\ d.samples = 1)
  <2>1. Offset(d) = Interval(d) \div 2
    BY <1>4 DEF Offset
  <2> QED BY <1>1, <1>2, <2>1
<1> QED BY <1>3, <1>4

\* The end of a time is its beginning and at most an interval more.
LEMMA BoundaryIs ==
  ASSUME NEW d \in Definition, NEW s \in InRange(d)
  PROVE  /\ Boundary(d, s) \in Nat /\ CollectAt(d, s) \in Nat
         /\ Boundary(d, s) <= Huge
         /\ CollectAt(d, s) + Interval(d) <= Huge
<1>1. /\ s.inits \in Nat /\ s.inits <= CounterMod - 1
      /\ s.collected \in Nat /\ s.collected <= CounterMod - 1
  BY SamplingAssumption DEF InRange, Counter
<1>2. Interval(d) \in Nat /\ Interval(d) <= 2 * T
  BY IntervalIs
<1>3. Offset(d) \in Nat /\ Offset(d) <= Interval(d)
  BY OffsetIs
<1>4. CounterMod \in Nat /\ CounterMod > 0 /\ T \in Nat /\ Huge \in Nat /\ Huge > 4 * CounterMod * T
  BY SamplingAssumption
<1>5. ASSUME NEW n \in Nat, n <= CounterMod - 1
      PROVE  /\ n * Interval(d) + Offset(d) \in Nat
             /\ n * Interval(d) + Offset(d) + Interval(d) <= Huge
  <2>1. n * Interval(d) \in Nat /\ n * (2 * T) \in Nat
    BY <1>2, <1>4, Products
  <2>2. Interval(d) * n <= (2 * T) * n
    BY <1>2, <1>4, Times
  <2>3. n * (2 * T) <= (CounterMod - 1) * (2 * T)
    BY <1>4, <1>5, Times
  <2>4. (CounterMod - 1) * (2 * T) = 2 * CounterMod * T - 2 * T
    BY <1>4, OneMore
  <2>5. CounterMod * T >= T /\ CounterMod * T \in Nat /\ 4 * CounterMod * T = 2 * (2 * CounterMod * T)
        /\ 2 * CounterMod * T = 2 * (CounterMod * T)
    BY <1>4
  <2> QED BY <1>2, <1>3, <1>4, <2>1, <2>2, <2>3, <2>4, <2>5
<1>6. /\ s.inits * Interval(d) + Offset(d) \in Nat
      /\ s.inits * Interval(d) + Offset(d) + Interval(d) <= Huge
      /\ s.collected * Interval(d) + Offset(d) \in Nat
      /\ s.collected * Interval(d) + Offset(d) + Interval(d) <= Huge
  BY <1>1, <1>5
<1> QED BY <1>2, <1>4, <1>6 DEF Boundary, CollectAt
LEMMA ShortenedFields ==
  ASSUME NEW d \in Definition, NEW s \in InRange(d), NEW h, h = Shortened(d, s)
  PROVE  /\ h \in InRange(d)
         /\ h.inits = s.inits /\ h.collected = s.collected /\ h.samples = s.samples
         /\ h.collecting = s.collecting /\ h.age = s.age /\ h.given = s.given /\ h.sent = s.sent
         /\ h.cache <= Boundary(d, s) /\ h.cache <= s.cache
         /\ s.cache <= Boundary(d, s) => h.cache = s.cache
         /\ Boundary(d, h) = Boundary(d, s) /\ CollectAt(d, h) = CollectAt(d, s)
<1>1. Boundary(d, s) \in Nat /\ s.cache \in Nat /\ s.cache <= d.takes /\ d.takes \in Nat
  BY BoundaryIs DEF InRange, Definition
<1> DEFINE c == IF Boundary(d, s) < s.cache THEN Boundary(d, s) ELSE s.cache
<1>2. c \in 0..d.takes /\ c <= Boundary(d, s) /\ c <= s.cache /\ (s.cache <= Boundary(d, s) => c = s.cache)
  BY <1>1
<1>3. h = [s EXCEPT !.cache = c]
  BY DEF Shortened, InRange
<1> HIDE DEF c
<1>4. /\ h \in InRange(d) /\ h.inits = s.inits /\ h.collected = s.collected /\ h.samples = s.samples
      /\ h.collecting = s.collecting /\ h.age = s.age /\ h.given = s.given /\ h.sent = s.sent
      /\ h.cache = c
  BY <1>2, <1>3 DEF InRange
<1>5. Boundary(d, h) = Boundary(d, s) /\ CollectAt(d, h) = CollectAt(d, s)
  BY <1>4 DEF Boundary, CollectAt
<1> QED BY <1>2, <1>4, <1>5

\* What was begun and could not be collected is given up when the next begins.
GivenUp(s) == IF s.collected < s.inits THEN Up(s.collected) ELSE s.collected
Prepared(s) == IF s.collected < s.inits THEN [s EXCEPT !.collected = Up(@)] ELSE s

WasInit(d, s, b, h) ==
    /\ h \in InRange(d)
    /\ h.samples = s.samples /\ h.cache = s.cache /\ h.given = s.given /\ h.sent = s.sent
    /\ s.collecting \/ b = "ERROR" =>
           /\ h.inits = Up(s.inits) /\ h.collected = Up(GivenUp(s))
           /\ h.collecting = s.collecting /\ h.age = s.age
    /\ ~s.collecting /\ b = "SUCCESS" =>
           /\ h.inits = Up(s.inits) /\ h.collected = GivenUp(s)
           /\ h.collecting = TRUE /\ h.age = 0
    /\ ~s.collecting /\ b = "BUSY" =>
           /\ h.inits = s.inits /\ h.collected = GivenUp(s)
           /\ h.collecting = FALSE /\ h.age = s.age

LEMMA InitFields ==
  ASSUME NEW d \in Definition, NEW s \in InRange(d), NEW b \in Says,
         NEW h, h = InitIteration(Prepared(s), b)
  PROVE  WasInit(d, s, b, h)
<1> USE DEF WasInit
<1>0. PICK g : g = Prepared(s)
  OBVIOUS
<1>1. /\ g \in InRange(d)
      /\ g.inits = s.inits /\ g.collected = GivenUp(s) /\ g.samples = s.samples
      /\ g.collecting = s.collecting /\ g.cache = s.cache /\ g.age = s.age
      /\ g.given = s.given /\ g.sent = s.sent
  <2>1. CASE s.collected < s.inits
    <3> DEFINE u == [s EXCEPT !.collected = Up(@)]
    <3>1. /\ u \in InRange(d)
          /\ u.inits = s.inits /\ u.collected = Up(s.collected)
          /\ u.samples = s.samples /\ u.collecting = s.collecting
          /\ u.cache = s.cache /\ u.age = s.age
          /\ u.given = s.given /\ u.sent = s.sent
      BY GivenUpFields
    <3>2. g = u /\ GivenUp(s) = Up(s.collected)
      BY <1>0, <2>1 DEF GivenUp, Prepared
    <3> HIDE DEF u
    <3> QED BY <3>1, <3>2
  <2>2. CASE ~(s.collected < s.inits)
    <3>1. g = s /\ GivenUp(s) = s.collected
      BY <1>0, <2>2 DEF GivenUp, Prepared
    <3> QED BY <3>1
  <2> QED BY <2>1, <2>2
<1>2. h = InitIteration(g, b)
  BY <1>0
<1>3. /\ Skipped(g) \in InRange(d)
      /\ Skipped(g).inits = Up(g.inits) /\ Skipped(g).collected = Up(g.collected)
      /\ Skipped(g).samples = g.samples /\ Skipped(g).collecting = g.collecting
      /\ Skipped(g).cache = g.cache /\ Skipped(g).age = g.age
      /\ Skipped(g).given = g.given /\ Skipped(g).sent = g.sent
  BY <1>1, SkippedFields
<1>4. /\ Begun(g) \in InRange(d)
      /\ Begun(g).inits = Up(g.inits) /\ Begun(g).collected = g.collected
      /\ Begun(g).samples = g.samples /\ Begun(g).collecting = TRUE
      /\ Begun(g).cache = g.cache /\ Begun(g).age = 0
      /\ Begun(g).given = g.given /\ Begun(g).sent = g.sent
  BY <1>1, BegunFields
<1>5. s.collecting \in BOOLEAN
  BY DEF InRange
<1>6. CASE s.collecting \/ b = "ERROR"
  <2>1. h = Skipped(g)
    BY <1>1, <1>2, <1>6 DEF InitIteration
  <2> QED BY <1>1, <1>3, <1>5, <1>6, <2>1
<1>7. CASE ~s.collecting /\ b = "SUCCESS"
  <2>1. h = Begun(g)
    BY <1>1, <1>2, <1>7 DEF InitIteration
  <2> QED BY <1>1, <1>4, <1>7, <2>1
<1>8. CASE ~s.collecting /\ b = "BUSY"
  <2>1. h = g
    BY <1>1, <1>2, <1>8 DEF InitIteration
  <2> QED BY <1>1, <1>8, <2>1
<1> QED BY <1>5, <1>6, <1>7, <1>8 DEF Says

LEMMA BeginFields ==
  ASSUME NEW d \in Definition, NEW s \in InRange(d), s.cache <= Boundary(d, s),
         NEW t \in Nat, NEW b \in Says, NEW w, w = BeginPart(d, s, t, b)
  PROVE  LET init == Boundary(d, s) - s.cache
         IN  /\ w.data \in InRange(d) /\ w.wait \in 0..Huge
             /\ t < init => w.data = s /\ w.wait = init - t
             /\ init <= t =>
                  /\ w.data = InitIteration(Prepared(s), b)
                  /\ w.wait = IF ~s.collecting /\ b = "BUSY" THEN 0 ELSE Delta(Boundary(d, s), t)
<1> DEFINE init == Boundary(d, s) - s.cache
           h == InitIteration(Prepared(s), b)
<1>1. Boundary(d, s) \in Nat /\ Boundary(d, s) <= Huge /\ s.cache \in Nat /\ Huge \in Nat
  BY BoundaryIs, SamplingAssumption DEF InRange
<1>2. init \in Nat /\ init <= Huge /\ s.cache + init = Boundary(d, s)
  BY <1>1
<1>3. h \in InRange(d)
  BY InitFields DEF WasInit
<1>4. Delta(init, t) \in 0..Huge /\ (t <= init => Delta(init, t) = init - t)
  BY <1>2, DeltaIs
<1>5. Delta(Boundary(d, s), t) \in 0..Huge
  BY <1>1, DeltaIs
<1>6. w = IF t < init THEN [data |-> s, wait |-> Delta(init, t)]
          ELSE [data |-> h,
                wait |-> IF ~s.collecting /\ b = "BUSY" THEN 0 ELSE Delta(s.cache + init, t)]
  BY DEF BeginPart, Prepared
<1> HIDE DEF h, init
<1>7. CASE t < init
  <2>1. w.data = s /\ w.wait = Delta(init, t)
    BY <1>6, <1>7
  <2> QED BY <1>2, <1>4, <1>7, <2>1 DEF init
<1>8. CASE ~(t < init)
  <2>1. w.data = h /\ w.wait = IF ~s.collecting /\ b = "BUSY" THEN 0 ELSE Delta(Boundary(d, s), t)
    BY <1>2, <1>6, <1>8
  <2>2. w.wait \in 0..Huge
    BY <1>1, <1>5, <2>1
  <2> QED BY <1>2, <1>3, <1>8, <2>1, <2>2 DEF h, init
<1> QED BY <1>7, <1>8

LEMMA CollectFields ==
  ASSUME NEW d \in Definition, NEW s \in InRange(d), NEW v \in 0..Huge,
         NEW t \in Nat, NEW c \in Nat, c + Interval(d) <= Huge, NEW r \in Says,
         NEW was, was = [data |-> s, wait |-> v],
         NEW o, o = CollectPart(d, was, t, c, r)
  PROVE  /\ o.data \in InRange(d) /\ o.wait \in 0..Huge
         /\ s.collected = s.inits => o = was
         /\ s.collected + 1 = s.inits =>
              /\ t < c => o.data = s /\ o.wait = Delta(c, t)
              /\ c <= t => /\ o.data = GetIteration(d, s, r)
                           /\ o.wait = IF r = "BUSY" THEN 0
                                       ELSE Delta(c + Interval(d), o.data.cache + t)
<1> DEFINE g == GetIteration(d, s, r)
<1>1. s.inits \in Counter /\ s.inits \in Nat /\ s.collected \in Nat
  BY CountersAreNat DEF InRange
<1>2. g \in InRange(d)
  BY GetFields DEF WasGet
<1>w. was.data = s /\ was.wait = v
  OBVIOUS
<1> HIDE DEF g
<1>3. g.cache \in Nat /\ Interval(d) \in Nat /\ Huge \in Nat
  BY <1>2, IntervalIs, SamplingAssumption DEF InRange
<1>4. Delta(c, t) \in 0..Huge /\ Delta(c + Interval(d), g.cache + t) \in 0..Huge
  <2>1. c + Interval(d) \in Nat /\ g.cache + t \in Nat /\ c <= Huge
    BY <1>3
  <2> QED BY <2>1, DeltaIs
<1>c. o = CASE s.collected = s.inits -> was
          [] s.collected + 1 = s.inits ->
                IF t < c THEN [data |-> s, wait |-> Delta(c, t)]
                ELSE [data |-> g,
                      wait |-> IF r = "BUSY" THEN 0
                               ELSE Delta(c + Interval(d), g.cache + t)]
          [] OTHER -> [was EXCEPT !.data.collected = s.inits]
  BY <1>w DEF CollectPart, g
<1>5. CASE s.collected = s.inits
  <2>1. o = was
    BY <1>1, <1>5, <1>c
  <2> QED BY <1>1, <1>5, <1>w, <2>1
<1>6. CASE s.collected + 1 = s.inits /\ t < c
  <2>1. o = [data |-> s, wait |-> Delta(c, t)]
    BY <1>1, <1>6, <1>c
  <2> QED BY <1>1, <1>4, <1>6, <2>1
<1>7. CASE s.collected + 1 = s.inits /\ ~(t < c)
  <2>1. o = [data |-> g, wait |-> IF r = "BUSY" THEN 0 ELSE Delta(c + Interval(d), g.cache + t)]
    BY <1>1, <1>7, <1>c
  <2>2. o.data = g /\ o.wait = IF r = "BUSY" THEN 0 ELSE Delta(c + Interval(d), g.cache + t)
    BY <2>1
  <2>3. o.wait \in 0..Huge
    BY <1>3, <1>4, <2>2
  <2> QED BY <1>1, <1>2, <1>7, <2>2, <2>3 DEF g
<1>8. CASE ~(s.collected = s.inits) /\ ~(s.collected + 1 = s.inits)
  <2>1. o = [was EXCEPT !.data.collected = s.inits]
    BY <1>1, <1>8, <1>c
  <2>2. o = [data |-> [s EXCEPT !.collected = s.inits], wait |-> was.wait]
    BY <2>1
  <2>3. [s EXCEPT !.collected = s.inits] \in InRange(d)
    BY <1>1 DEF InRange
  <2> QED BY <1>8, <2>2, <2>3
<1> QED BY <1>5, <1>6, <1>7, <1>8
LEMMA SampleIs ==
  ASSUME NEW d \in Definition, NEW s \in InRange(d), NEW t \in Nat, NEW b \in Says, NEW r \in Says,
         NEW h, h = Shortened(d, s), NEW w, w = BeginPart(d, h, t, b),
         NEW n, n = CollectPart(d, w, t, CollectAt(d, s), r),
         NEW o, o = SampleOne(d, s, t, b, r)
  PROVE  /\ h \in InRange(d) /\ w.data \in InRange(d) /\ w.wait \in 0..Huge
         /\ w = [data |-> w.data, wait |-> w.wait]
         /\ o.data = n.data /\ o.data \in InRange(d)
         /\ o.wait \in 0..Huge /\ o.wait <= w.wait /\ o.wait <= n.wait
<1>1. h \in InRange(d) /\ h.cache <= Boundary(d, h)
  BY ShortenedFields
<1>2. w.data \in InRange(d) /\ w.wait \in 0..Huge
  BY <1>1, BeginFields
<1>3. w = [data |-> w.data, wait |-> w.wait]
  BY DEF BeginPart
<1>4. CollectAt(d, s) \in Nat /\ CollectAt(d, s) + Interval(d) <= Huge
  BY BoundaryIs
<1>5. n.data \in InRange(d) /\ n.wait \in 0..Huge
  BY <1>2, <1>3, <1>4, CollectFields
<1>6. o = [data |-> n.data, wait |-> Min({w.wait, n.wait})]
  BY DEF SampleOne
<1>7. /\ Min({w.wait, n.wait}) \in Nat /\ Min({w.wait, n.wait}) \in {w.wait, n.wait}
      /\ Min({w.wait, n.wait}) <= w.wait /\ Min({w.wait, n.wait}) <= n.wait
  <2>1. w.wait \in Nat /\ n.wait \in Nat
    BY <1>2, <1>5
  <2> QED BY <2>1, LeastOfTwo
<1> QED BY <1>1, <1>2, <1>3, <1>5, <1>6, <1>7

-----------------------------------------------------------------------------
(***************************************************************************)
(* One measurement that is sound, in a pass t into its intervals.          *)
(***************************************************************************)
NextAt(d, s) == IF s.collecting THEN CollectAt(d, s) ELSE Boundary(d, s) - s.cache

\* With left to the next pass: its samples are begun and collected in turn, and
\* one that is begun is in time to be collected.
InStep(d, s, t, left) ==
    /\ s.cache = d.takes
    /\ s.inits <= d.samples
    /\ s.inits \in {s.collected, s.collected + 1}
    /\ s.collecting => /\ s.inits = s.collected + 1
                       /\ t <= CollectAt(d, s) /\ t + left <= CollectAt(d, s)

LEMMA SoundHasRoom ==
  ASSUME NEW d \in Definition, SoundDef(d)
  PROVE  /\ d.takes \in Nat /\ d.samples \in Nat /\ d.samples < CounterMod
         /\ Interval(d) \in Nat /\ Offset(d) \in Nat /\ LeftOver(d) \in Nat
         /\ d.takes + 1 + LeftOver(d) < Offset(d) /\ Offset(d) < Interval(d)
         /\ d.samples * Interval(d) \in Nat
         /\ d.interval * T = d.samples * Interval(d) + LeftOver(d)
<1>1. d.takes \in Nat /\ d.samples \in Nat
  BY DEF Definition
<1>2. /\ Interval(d) \in Nat
      /\ LeftOver(d) \in Nat /\ d.interval * T = d.samples * Interval(d) + LeftOver(d)
  BY IntervalIs
<1>3. d.samples < CounterMod /\ d.takes + 1 + LeftOver(d) < Interval(d) \div 2
  BY DEF SoundDef
<1>4. Interval(d) \div 2 \in Nat /\ 2 * (Interval(d) \div 2) <= Interval(d)
  BY <1>2, Halves
<1>5. Interval(d) > 2
  BY <1>1, <1>2, <1>3, <1>4
<1>6. Offset(d) \in Nat /\ Interval(d) \div 2 <= Offset(d) /\ Offset(d) < Interval(d)
  BY <1>5, OffsetIs
<1>7. d.samples * Interval(d) \in Nat
  BY <1>1, <1>2, Products
<1> QED BY <1>1, <1>2, <1>3, <1>4, <1>6, <1>7

\* The times of a measurement in step, in plain numbers.
LEMMA TimesInStep ==
  ASSUME NEW d \in Definition, SoundDef(d), NEW s \in InRange(d),
         s.cache = d.takes, s.inits <= d.samples, s.inits \in {s.collected, s.collected + 1}
  PROVE  /\ s.inits \in Nat /\ s.collected \in Nat
         /\ Boundary(d, s) \in Nat /\ CollectAt(d, s) \in Nat
         /\ d.takes + 1 < Boundary(d, s)
         /\ s.inits = s.collected => Boundary(d, s) = CollectAt(d, s)
         /\ s.inits = s.collected + 1 => Boundary(d, s) = CollectAt(d, s) + Interval(d)
         /\ s.inits = d.samples => Boundary(d, s) - d.takes > d.interval * T + 1
         /\ s.inits < d.samples => Boundary(d, s) < d.interval * T
         /\ s.collected < d.samples => CollectAt(d, s) < d.interval * T
         /\ Boundary(d, s) <= 4 * T
<1>1. /\ d.takes \in Nat /\ d.samples \in Nat
      /\ Interval(d) \in Nat /\ Offset(d) \in Nat /\ LeftOver(d) \in Nat
      /\ d.takes + 1 + LeftOver(d) < Offset(d) /\ Offset(d) < Interval(d)
      /\ d.samples * Interval(d) \in Nat
      /\ d.interval * T = d.samples * Interval(d) + LeftOver(d)
  BY SoundHasRoom
<1>2. s.inits \in Nat /\ s.collected \in Nat
  BY CountersAreNat DEF InRange
<1>3. /\ s.inits * Interval(d) \in Nat /\ s.collected * Interval(d) \in Nat
      /\ (s.collected + 1) * Interval(d) = s.collected * Interval(d) + Interval(d)
      /\ (s.inits + 1) * Interval(d) = s.inits * Interval(d) + Interval(d)
  BY <1>1, <1>2, Products, OneMore
<1>4. s.inits < d.samples => s.inits * Interval(d) + Interval(d) <= d.samples * Interval(d)
  <2>1. s.inits < d.samples => (s.inits + 1) * Interval(d) <= d.samples * Interval(d)
    BY <1>1, <1>2, Times
  <2> QED BY <1>3, <2>1
<1>5. s.collected < d.samples => s.collected * Interval(d) + Interval(d) <= d.samples * Interval(d)
  <2>1. s.collected < d.samples => (s.collected + 1) * Interval(d) <= d.samples * Interval(d)
    BY <1>1, <1>2, Times
  <2> QED BY <1>3, <2>1
<1>6. s.inits * Interval(d) <= d.samples * Interval(d)
  BY <1>1, <1>2, Times
<1>7. /\ Boundary(d, s) = s.inits * Interval(d) + Offset(d)
      /\ CollectAt(d, s) = s.collected * Interval(d) + Offset(d)
  BY DEF Boundary, CollectAt
<1>8. /\ s.inits = s.collected => s.inits * Interval(d) = s.collected * Interval(d)
      /\ s.inits = s.collected + 1 =>
            s.inits * Interval(d) = s.collected * Interval(d) + Interval(d)
      /\ s.inits = d.samples => s.inits * Interval(d) = d.samples * Interval(d)
  BY <1>3
<1>9. d.interval * T <= 2 * T /\ Interval(d) <= 2 * T /\ T \in Nat
  BY SpanIs, IntervalIs, SamplingAssumption
<1> DEFINE x == s.inits * Interval(d)
           y == s.collected * Interval(d)
           z == d.samples * Interval(d)
           sp == d.interval * T
<1>10. /\ x \in Nat /\ y \in Nat /\ z \in Nat /\ sp = z + LeftOver(d) /\ sp <= 2 * T
       /\ s.inits < d.samples => x + Interval(d) <= z
       /\ s.collected < d.samples => y + Interval(d) <= z
       /\ x <= z
       /\ Boundary(d, s) = x + Offset(d) /\ CollectAt(d, s) = y + Offset(d)
       /\ s.inits = s.collected => x = y
       /\ s.inits = s.collected + 1 => x = y + Interval(d)
       /\ s.inits = d.samples => x = z
  BY <1>1, <1>3, <1>4, <1>5, <1>6, <1>7, <1>8, <1>9
<1> HIDE DEF x, y, z, sp
<1>11. /\ Boundary(d, s) \in Nat /\ CollectAt(d, s) \in Nat
       /\ d.takes + 1 < Boundary(d, s)
       /\ s.inits = s.collected => Boundary(d, s) = CollectAt(d, s)
       /\ s.inits = s.collected + 1 => Boundary(d, s) = CollectAt(d, s) + Interval(d)
       /\ s.inits = d.samples => Boundary(d, s) - d.takes > sp + 1
       /\ s.inits < d.samples => Boundary(d, s) < sp
       /\ s.collected < d.samples => CollectAt(d, s) < sp
       /\ Boundary(d, s) <= 4 * T
  BY <1>1, <1>2, <1>9, <1>10
<1> QED BY <1>2, <1>11 DEF sp
\* What a pass makes of it: nothing; it is read; it is begun; both; it fails to
\* begin; it is busy.
Stays(d, s, t, o) ==
    /\ t < Boundary(d, s) - d.takes
    /\ o.data = s /\ o.wait <= Boundary(d, s) - d.takes - t
    /\ s.inits # s.collected => t < CollectAt(d, s) /\ o.wait <= CollectAt(d, s) - t

Read(d, s, t, r, o) ==
    /\ t < Boundary(d, s) - d.takes /\ CollectAt(d, s) <= t
    /\ s.inits = s.collected + 1
    /\ o.data.inits = s.inits /\ o.data.collecting = FALSE
    /\ o.data.collected = IF r = "BUSY" THEN s.collected ELSE s.inits
    /\ o.data.samples = IF r = "SUCCESS" THEN Up(s.samples) ELSE s.samples
    /\ o.data.given = IF r = "SUCCESS" THEN s.age ELSE s.given
    /\ r # "BUSY" => o.wait <= CollectAt(d, s) + Interval(d) - d.takes - t

BegunNow(d, s, t, o) ==
    /\ Boundary(d, s) - d.takes <= t /\ t < CollectAt(d, s)
    /\ s.inits = s.collected
    /\ o.data.inits = s.inits + 1 /\ o.data.collected = s.collected
    /\ o.data.collecting = TRUE /\ o.data.age = 0
    /\ o.data.samples = s.samples /\ o.data.given = s.given
    /\ o.wait <= CollectAt(d, s) - t

BegunAndRead(d, s, t, r, o) ==
    /\ Boundary(d, s) - d.takes <= t /\ CollectAt(d, s) <= t
    /\ o.data.inits = s.inits + 1 /\ o.data.collecting = FALSE
    /\ o.data.collected = IF r = "BUSY" THEN s.inits ELSE s.inits + 1
    /\ o.data.samples = IF r = "SUCCESS" THEN Up(s.samples) ELSE s.samples
    /\ o.data.given = IF r = "SUCCESS" THEN 0 ELSE s.given
    /\ r # "BUSY" /\ d.takes + t <= CollectAt(d, s) + Interval(d) =>
            o.wait <= CollectAt(d, s) + Interval(d) - d.takes - t

NotBegun(d, s, t, o) ==
    /\ Boundary(d, s) - d.takes <= t
    /\ o.data.inits = s.inits + 1 /\ o.data.collected = s.inits + 1
    /\ o.data.collecting = FALSE
    /\ o.data.samples = s.samples /\ o.data.given = s.given
    /\ t <= Boundary(d, s) => o.wait <= Boundary(d, s) - t

PutOff(d, s, t, o) ==
    /\ Boundary(d, s) - d.takes <= t
    /\ o.data.inits = s.inits /\ o.data.collected = s.inits
    /\ o.data.collecting = FALSE
    /\ o.data.samples = s.samples /\ o.data.given = s.given

LEMMA Outcomes ==
  ASSUME NEW d \in Definition, SoundDef(d), NEW s \in InRange(d), NEW t \in Nat, t <= d.interval * T + 1,
         s.cache = d.takes, s.inits <= d.samples, s.inits \in {s.collected, s.collected + 1},
         s.collecting => s.inits = s.collected + 1 /\ t <= CollectAt(d, s) + 1,
         NEW b \in Says, NEW r \in Says, NEW o, o = SampleOne(d, s, t, b, r)
  PROVE  /\ o.data \in InRange(d) /\ o.wait \in 0..Huge
         /\ o.data.cache = d.takes /\ o.data.sent = s.sent
         /\ \/ Stays(d, s, t, o) \/ Read(d, s, t, r, o)
            \/ s.inits < d.samples /\ b = "SUCCESS" /\ BegunNow(d, s, t, o)
            \/ s.inits < d.samples /\ b = "SUCCESS" /\ BegunAndRead(d, s, t, r, o)
            \/ s.inits < d.samples /\ b = "ERROR" /\ NotBegun(d, s, t, o)
            \/ b = "BUSY" /\ PutOff(d, s, t, o)
<1> DEFINE B == Boundary(d, s)
           C == CollectAt(d, s)
           I == Interval(d)
           span == d.interval * T
<1>1. /\ d.takes \in Nat /\ d.samples \in Nat /\ d.samples < CounterMod /\ CounterMod \in Nat
      /\ I \in Nat /\ d.takes + 1 < I
  BY SoundHasRoom, SamplingAssumption
<1>2. /\ s.inits \in Nat /\ s.collected \in Nat
      /\ B \in Nat /\ C \in Nat /\ d.takes + 1 < B
      /\ s.inits = s.collected => B = C
      /\ s.inits = s.collected + 1 => B = C + I
      /\ s.inits = d.samples => B - d.takes > span + 1
  BY TimesInStep
<1>3. s.collecting \in BOOLEAN /\ s.cache = d.takes /\ s.inits <= d.samples
      /\ s.inits \in {s.collected, s.collected + 1} /\ s.age \in Nat /\ s.samples \in Nat
      /\ span \in Nat /\ t <= span + 1
  BY SpanIs, CountersAreNat DEF InRange
<1>4. PICK h : h = Shortened(d, s)
  OBVIOUS
<1>5. PICK w : w = BeginPart(d, h, t, b)
  OBVIOUS
<1>6. PICK n : n = CollectPart(d, w, t, CollectAt(d, s), r)
  OBVIOUS
<1>7. /\ h \in InRange(d) /\ w.data \in InRange(d) /\ w.wait \in 0..Huge
      /\ w = [data |-> w.data, wait |-> w.wait]
      /\ o.data = n.data /\ o.data \in InRange(d)
      /\ o.wait \in 0..Huge /\ o.wait <= w.wait /\ o.wait <= n.wait
  BY <1>4, <1>5, <1>6, SampleIs
<1>8. /\ h.inits = s.inits /\ h.collected = s.collected /\ h.samples = s.samples
      /\ h.collecting = s.collecting /\ h.age = s.age /\ h.given = s.given /\ h.sent = s.sent
      /\ h.cache = d.takes /\ Boundary(d, h) = B
  <2>1. s.cache <= Boundary(d, s)
    BY <1>1, <1>2
  <2> QED BY <1>4, <2>1, ShortenedFields
<1>9. h = s
  <2>1. h = [s EXCEPT !.cache = s.cache]
    BY <1>1, <1>2, <1>4 DEF Shortened, InRange
  <2> QED BY <2>1 DEF InRange
<1>10. /\ t < B - d.takes => w.data = s /\ w.wait = B - d.takes - t
       /\ B - d.takes <= t =>
            /\ w.data = InitIteration(Prepared(s), b)
            /\ w.wait = IF ~s.collecting /\ b = "BUSY" THEN 0 ELSE Delta(B, t)
  <2>1. h.cache <= Boundary(d, h)
    BY <1>1, <1>2, <1>8
  <2> QED BY <1>5, <1>8, <1>9, <2>1, BeginFields
<1>11. /\ w.data.collected = w.data.inits => n = w
       /\ w.data.collected + 1 = w.data.inits =>
            /\ t < C => n.data = w.data /\ n.wait = Delta(C, t)
            /\ C <= t => /\ n.data = GetIteration(d, w.data, r)
                         /\ n.wait = IF r = "BUSY" THEN 0
                                     ELSE Delta(C + I, n.data.cache + t)
  <2>1. C \in Nat /\ C + I <= Huge
    BY BoundaryIs
  <2> QED BY <1>6, <1>7, <2>1, CollectFields
<1> HIDE DEF B, C, I, span
<1>12. CASE t < B - d.takes
  <2>1. w.data = s /\ w.wait = B - d.takes - t
    BY <1>10, <1>12
  <2>2. CASE s.collected = s.inits
    <3>1. o.data = s /\ o.wait <= B - d.takes - t
      BY <1>7, <1>11, <2>1, <2>2
    <3>2. Stays(d, s, t, o)
      BY <1>12, <2>2, <3>1 DEF Stays, B
    <3> QED BY <1>3, <1>7, <3>1, <3>2
  <2>3. CASE s.collected + 1 = s.inits /\ t < C
    <3>1. o.data = s /\ o.wait <= B - d.takes - t /\ o.wait <= Delta(C, t)
      BY <1>7, <1>11, <2>1, <2>3
    <3>2. Delta(C, t) = C - t
      BY <1>2, <2>3, DeltaIs
    <3>3. Stays(d, s, t, o)
      BY <1>12, <2>3, <3>1, <3>2 DEF Stays, B, C
    <3> QED BY <1>3, <1>7, <3>1, <3>3
  <2>4. CASE s.collected + 1 = s.inits /\ C <= t
    <3>0. PICK g : g = GetIteration(d, s, r)
      OBVIOUS
    <3>1. /\ g.inits = s.inits /\ g.collecting = FALSE /\ g.sent = s.sent
          /\ r = "BUSY" => g.collected = s.collected
          /\ r # "BUSY" => g.collected = Up(s.collected)
          /\ r = "SUCCESS" => g.samples = Up(s.samples) /\ g.cache = d.takes /\ g.given = s.age
          /\ r # "SUCCESS" => g.samples = s.samples /\ g.cache = s.cache /\ g.given = s.given
      <4>1. WasGet(d, s, r, g)
        BY <3>0, GetFields
      <4> QED BY <4>1 DEF WasGet
    <3>2. o.data = g /\ n.data = g
      BY <1>7, <1>11, <2>1, <2>4, <3>0
    <3>3. g.cache = d.takes
      BY <1>3, <3>1
    <3>4. r # "BUSY" => o.wait <= C + I - d.takes - t
      <4>1. r # "BUSY" => o.wait <= Delta(C + I, d.takes + t)
        BY <1>7, <1>11, <2>1, <2>4, <3>2, <3>3
      <4>2. d.takes + t <= C + I /\ C + I \in Nat /\ d.takes + t \in Nat
        BY <1>1, <1>2, <1>12, <2>4
      <4>3. Delta(C + I, d.takes + t) = (C + I) - (d.takes + t)
        BY <4>2, DeltaIs
      <4> QED BY <1>1, <1>2, <4>1, <4>3
    <3>5. Up(s.collected) = s.inits
      <4>1. s.collected + 1 < CounterMod
        BY <1>1, <1>2, <1>3, <2>4
      <4>2. (s.collected + 1) % CounterMod = s.collected + 1
        BY <1>1, <1>2, <4>1, SmallRemainder
      <4> QED BY <2>4, <4>2 DEF Up
    <3>6. Read(d, s, t, r, o)
      BY <1>12, <2>4, <3>1, <3>2, <3>4, <3>5 DEF Read, B, C, I
    <3> QED BY <1>7, <3>1, <3>2, <3>3, <3>6
  <2> QED BY <1>2, <1>3, <2>2, <2>3, <2>4
<1>13. CASE B - d.takes <= t
  <2>1. ~s.collecting
    <3>1. s.collecting => s.inits = s.collected + 1 /\ t <= C + 1
      BY DEF C
    <3> QED BY <1>1, <1>2, <1>3, <1>13, <3>1
  <2>2. s.inits < d.samples
    BY <1>1, <1>2, <1>3, <1>13
  <2>3. Up(s.inits) = s.inits + 1 /\ Up(s.collected) = s.collected + 1
    <3>1. s.inits + 1 < CounterMod /\ s.collected + 1 < CounterMod
      BY <1>1, <1>2, <1>3, <2>2
    <3>2. (s.inits + 1) % CounterMod = s.inits + 1 /\ (s.collected + 1) % CounterMod = s.collected + 1
      BY <1>1, <1>2, <3>1, SmallRemainder
    <3> QED BY <3>2 DEF Up
  <2>4. GivenUp(s) = s.inits
    BY <1>2, <1>3, <2>3 DEF GivenUp
  <2>5. PICK v : v = InitIteration(Prepared(s), b)
    OBVIOUS
  <2>6. /\ v \in InRange(d)
        /\ v.samples = s.samples /\ v.cache = s.cache /\ v.given = s.given /\ v.sent = s.sent
        /\ b = "ERROR" =>
               /\ v.inits = Up(s.inits) /\ v.collected = Up(GivenUp(s))
               /\ v.collecting = s.collecting /\ v.age = s.age
        /\ b = "SUCCESS" =>
               /\ v.inits = Up(s.inits) /\ v.collected = GivenUp(s)
               /\ v.collecting = TRUE /\ v.age = 0
        /\ b = "BUSY" =>
               /\ v.inits = s.inits /\ v.collected = GivenUp(s)
               /\ v.collecting = FALSE /\ v.age = s.age
    <3>1. WasInit(d, s, b, v)
      BY <2>5, InitFields
    <3> QED BY <2>1, <3>1 DEF WasInit
  <2>7. w.data = v /\ w.wait = IF b = "BUSY" THEN 0 ELSE Delta(B, t)
    BY <1>10, <1>13, <2>1, <2>5
  <2>8. CASE b = "BUSY"
    <3>1. o.data = v
      BY <1>7, <1>11, <2>4, <2>6, <2>7, <2>8
    <3>2. PutOff(d, s, t, o)
      BY <1>13, <2>4, <2>6, <2>8, <3>1 DEF PutOff, B
    <3> QED BY <1>3, <1>7, <2>6, <2>8, <3>1, <3>2
  <2>9. CASE b = "ERROR"
    <3>1. v.inits = s.inits + 1 /\ v.collected = s.inits + 1 /\ v.collecting = FALSE
      BY <1>3, <2>1, <2>3, <2>4, <2>6, <2>9
    <3>2. o.data = v
      BY <1>7, <1>11, <2>7, <3>1
    <3>3. t <= B => o.wait <= B - t
      <4>1. t <= B => Delta(B, t) = B - t
        BY <1>2, DeltaIs
      <4> QED BY <1>7, <2>7, <2>9, <4>1
    <3>4. NotBegun(d, s, t, o)
      BY <1>13, <2>6, <3>1, <3>2, <3>3 DEF NotBegun, B
    <3> QED BY <1>3, <1>7, <2>2, <2>6, <2>9, <3>2, <3>4
  <2>10. CASE b = "SUCCESS"
    <3>1. v.inits = s.inits + 1 /\ v.collected = s.inits /\ v.collecting = TRUE /\ v.age = 0
          /\ v.collected + 1 = v.inits
      BY <1>2, <2>3, <2>4, <2>6, <2>10
    <3>2. CASE t < C
      <4>1. o.data = v /\ o.wait <= Delta(C, t)
        BY <1>7, <1>11, <2>7, <3>1, <3>2
      <4>2. Delta(C, t) = C - t
        BY <1>2, <3>2, DeltaIs
      <4>3. s.inits = s.collected
        BY <1>1, <1>2, <1>3, <1>13, <3>2
      <4>4. BegunNow(d, s, t, o)
        BY <1>13, <2>6, <3>1, <3>2, <4>1, <4>2, <4>3 DEF BegunNow, B, C
      <4> QED BY <1>3, <1>7, <2>2, <2>6, <2>10, <4>1, <4>4
    <3>3. CASE C <= t
      <4>0. PICK g : g = GetIteration(d, v, r)
        OBVIOUS
      <4>1. /\ g.inits = v.inits /\ g.collecting = FALSE /\ g.sent = v.sent
            /\ r = "BUSY" => g.collected = v.collected
            /\ r # "BUSY" => g.collected = Up(v.collected)
            /\ r = "SUCCESS" => g.samples = Up(v.samples) /\ g.cache = d.takes /\ g.given = v.age
            /\ r # "SUCCESS" => g.samples = v.samples /\ g.cache = v.cache /\ g.given = v.given
        <5>0. v \in InRange(d)
          BY <2>6
        <5>1. WasGet(d, v, r, g)
          BY <4>0, <5>0, GetFields
        <5> QED BY <5>1 DEF WasGet
      <4>2. o.data = g /\ n.data = g
        BY <1>7, <1>11, <2>7, <3>1, <3>3, <4>0
      <4>3. g.cache = d.takes
        BY <1>3, <2>6, <4>1
      <4>4. r # "BUSY" /\ d.takes + t <= C + I => o.wait <= C + I - d.takes - t
        <5>1. r # "BUSY" => o.wait <= Delta(C + I, d.takes + t)
          BY <1>7, <1>11, <2>7, <3>1, <3>3, <4>2, <4>3
        <5>2. C + I \in Nat /\ d.takes + t \in Nat
          BY <1>1, <1>2
        <5>3. d.takes + t <= C + I => Delta(C + I, d.takes + t) = (C + I) - (d.takes + t)
          BY <5>2, DeltaIs
        <5> QED BY <1>1, <1>2, <5>1, <5>3
      <4>5. BegunAndRead(d, s, t, r, o)
        BY <1>13, <2>3, <2>6, <3>1, <3>3, <4>1, <4>2, <4>4 DEF BegunAndRead, B, C, I
      <4> QED BY <1>3, <1>7, <2>2, <2>6, <2>10, <4>1, <4>2, <4>3, <4>5
    <3> QED BY <1>2, <3>2, <3>3
  <2> QED BY <2>8, <2>9, <2>10 DEF Says
<1> QED BY <1>1, <1>2, <1>12, <1>13
LEMMA PassInStep ==
  ASSUME NEW d \in Definition, SoundDef(d), NEW s \in InRange(d), NEW t \in Nat, t <= d.interval * T + 1,
         s.cache = d.takes, s.inits <= d.samples, s.inits \in {s.collected, s.collected + 1},
         s.collecting => s.inits = s.collected + 1 /\ t <= CollectAt(d, s) + 1,
         NEW b \in Says, NEW r \in Says, NEW o, o = SampleOne(d, s, t, b, r),
         NEW left \in Int, left <= o.wait
  PROVE  /\ InStep(d, o.data, t, left)
         /\ o.data.collecting => o.wait <= 4 * T
<1>1. /\ o.data \in InRange(d) /\ o.wait \in 0..Huge /\ o.data.cache = d.takes
      /\ \/ Stays(d, s, t, o) \/ Read(d, s, t, r, o)
         \/ s.inits < d.samples /\ BegunNow(d, s, t, o)
         \/ s.inits < d.samples /\ BegunAndRead(d, s, t, r, o)
         \/ s.inits < d.samples /\ NotBegun(d, s, t, o)
         \/ PutOff(d, s, t, o)
  BY Outcomes
<1>2. /\ s.inits \in Nat /\ s.collected \in Nat /\ d.samples \in Nat
      /\ CollectAt(d, s) \in Nat /\ Boundary(d, s) <= 4 * T
      /\ Boundary(d, s) \in Nat /\ Interval(d) \in Nat
      /\ s.inits = s.collected => Boundary(d, s) = CollectAt(d, s)
      /\ s.inits = s.collected + 1 => Boundary(d, s) = CollectAt(d, s) + Interval(d)
  BY TimesInStep, SoundHasRoom
<1>3. s.inits <= d.samples /\ s.inits \in {s.collected, s.collected + 1} /\ o.wait \in Nat /\ T \in Nat
  BY <1>1, SamplingAssumption
<1>4. CASE Stays(d, s, t, o)
  <2>1. o.data = s /\ (s.inits # s.collected => t < CollectAt(d, s) /\ o.wait <= CollectAt(d, s) - t)
    BY <1>4 DEF Stays
  <2>2. s.collecting => s.inits = s.collected + 1
    OBVIOUS
  <2>3. s.collecting => t <= CollectAt(d, s) /\ t + left <= CollectAt(d, s) /\ o.wait <= 4 * T
    BY <1>2, <1>3, <2>1, <2>2
  <2> QED BY <1>1, <1>3, <2>1, <2>2, <2>3 DEF InStep
<1>5. CASE Read(d, s, t, r, o)
  <2>1. /\ o.data.inits = s.inits /\ ~o.data.collecting /\ s.inits = s.collected + 1
        /\ o.data.collected \in {s.collected, s.inits}
    BY <1>5 DEF Read
  <2> QED BY <1>1, <1>2, <1>3, <2>1 DEF InStep
<1>6. CASE s.inits < d.samples /\ BegunNow(d, s, t, o)
  <2>1. /\ o.data.inits = s.inits + 1 /\ o.data.collected = s.collected /\ s.inits = s.collected
        /\ t < CollectAt(d, s) /\ o.wait <= CollectAt(d, s) - t
    BY <1>6 DEF BegunNow
  <2>2. CollectAt(d, o.data) = CollectAt(d, s)
    BY <2>1 DEF CollectAt
  <2>3. t <= CollectAt(d, o.data) /\ t + left <= CollectAt(d, o.data) /\ o.wait <= 4 * T
    BY <1>2, <1>3, <2>1, <2>2
  <2>4. o.data.inits = o.data.collected + 1 /\ o.data.inits <= d.samples
    BY <1>2, <1>6, <2>1
  <2> QED BY <1>1, <2>3, <2>4 DEF InStep
<1>7. CASE s.inits < d.samples /\ BegunAndRead(d, s, t, r, o)
  <2>1. /\ o.data.inits = s.inits + 1 /\ ~o.data.collecting
        /\ o.data.collected \in {s.inits, s.inits + 1}
    BY <1>7 DEF BegunAndRead
  <2>2. o.data.inits <= d.samples
    BY <1>2, <1>7, <2>1
  <2> QED BY <1>1, <1>2, <2>1, <2>2 DEF InStep
<1>8. CASE s.inits < d.samples /\ NotBegun(d, s, t, o)
  <2>1. o.data.inits = s.inits + 1 /\ ~o.data.collecting /\ o.data.collected = s.inits + 1
    BY <1>8 DEF NotBegun
  <2>2. o.data.inits <= d.samples
    BY <1>2, <1>8, <2>1
  <2> QED BY <1>1, <1>2, <2>1, <2>2 DEF InStep
<1>9. CASE PutOff(d, s, t, o)
  <2>1. o.data.inits = s.inits /\ ~o.data.collecting /\ o.data.collected = s.inits
    BY <1>9 DEF PutOff
  <2> QED BY <1>1, <1>2, <1>3, <2>1 DEF InStep
<1> QED BY <1>1, <1>4, <1>5, <1>6, <1>7, <1>8, <1>9

\* With left to the next pass: no time that is to come has passed, and what is
\* being collected has had, or has until then, the time it takes.
InTime(d, s, t, left) ==
    /\ ~s.collecting => s.inits = s.collected
    /\ t <= NextAt(d, s) /\ t + left <= NextAt(d, s)
    /\ s.given >= d.takes - 1
    /\ s.collecting => s.age + CollectAt(d, s) >= d.takes - 1 + t

\* What the passes of such a measurement start from.
AtPass(d, s, t) ==
    /\ s.cache = d.takes /\ s.inits <= d.samples
    /\ s.inits = IF s.collecting THEN s.collected + 1 ELSE s.collected
    /\ t <= NextAt(d, s) + 1
    /\ s.given >= d.takes - 1
    /\ s.collecting => s.age + CollectAt(d, s) >= d.takes - 1 + t

LEMMA AtPassTimes ==
  ASSUME NEW d \in Definition, SoundDef(d), NEW s \in InRange(d), NEW t \in Nat, AtPass(d, s, t)
  PROVE  /\ s.cache = d.takes /\ s.inits <= d.samples /\ s.inits \in {s.collected, s.collected + 1}
         /\ s.collecting => s.inits = s.collected + 1 /\ t <= CollectAt(d, s) + 1
                            /\ t < Boundary(d, s) - d.takes
         /\ ~s.collecting => s.inits = s.collected /\ t <= Boundary(d, s) - d.takes + 1
         /\ Boundary(d, s) \in Nat /\ CollectAt(d, s) \in Nat /\ Boundary(d, s) <= 4 * T
         /\ s.inits = s.collected => Boundary(d, s) = CollectAt(d, s)
         /\ s.inits = s.collected + 1 => Boundary(d, s) = CollectAt(d, s) + Interval(d)
         /\ s.inits \in Nat /\ s.collected \in Nat /\ s.age \in Nat /\ s.given \in Nat
         /\ s.collecting \in BOOLEAN
<1>1. s.collecting \in BOOLEAN /\ s.inits \in Nat /\ s.collected \in Nat /\ s.age \in Nat /\ s.given \in Nat
  BY CountersAreNat DEF InRange
<1>2. /\ s.cache = d.takes /\ s.inits <= d.samples
      /\ s.collecting => s.inits = s.collected + 1 /\ t <= CollectAt(d, s) + 1
      /\ ~s.collecting => s.inits = s.collected /\ t <= Boundary(d, s) - s.cache + 1
  BY DEF AtPass, NextAt
<1>3. s.inits \in {s.collected, s.collected + 1}
  BY <1>1, <1>2
<1>4. /\ Boundary(d, s) \in Nat /\ CollectAt(d, s) \in Nat /\ Boundary(d, s) <= 4 * T
      /\ s.inits = s.collected => Boundary(d, s) = CollectAt(d, s)
      /\ s.inits = s.collected + 1 => Boundary(d, s) = CollectAt(d, s) + Interval(d)
  BY <1>2, <1>3, TimesInStep
<1>5. d.takes \in Nat /\ Interval(d) \in Nat /\ d.takes + 1 < Interval(d)
  BY SoundHasRoom
<1>6. s.collecting => t < Boundary(d, s) - d.takes
  BY <1>2, <1>4, <1>5
<1> QED BY <1>1, <1>2, <1>3, <1>4, <1>6

LEMMA PassInTime ==
  ASSUME NEW d \in Definition, SoundDef(d), NEW s \in InRange(d), NEW t \in Nat, t <= d.interval * T + 1,
         AtPass(d, s, t),
         NEW b \in Says, NEW r \in Says, b # "BUSY", r # "BUSY", b = "SUCCESS" \/ d.takes >= 1,
         NEW o, o = SampleOne(d, s, t, b, r),
         NEW left \in Int, left <= o.wait
  PROVE  InTime(d, o.data, t, left) /\ o.wait <= 4 * T
<1>1. /\ s.cache = d.takes /\ s.inits <= d.samples /\ s.inits \in {s.collected, s.collected + 1}
      /\ s.collecting => s.inits = s.collected + 1 /\ t <= CollectAt(d, s) + 1
                         /\ t < Boundary(d, s) - d.takes
      /\ ~s.collecting => s.inits = s.collected /\ t <= Boundary(d, s) - d.takes + 1
      /\ Boundary(d, s) \in Nat /\ CollectAt(d, s) \in Nat /\ Boundary(d, s) <= 4 * T
      /\ s.inits = s.collected => Boundary(d, s) = CollectAt(d, s)
      /\ s.inits = s.collected + 1 => Boundary(d, s) = CollectAt(d, s) + Interval(d)
      /\ s.inits \in Nat /\ s.collected \in Nat /\ s.age \in Nat /\ s.given \in Nat
      /\ s.collecting \in BOOLEAN
  BY AtPassTimes
<1>2. /\ o.data \in InRange(d) /\ o.wait \in 0..Huge /\ o.data.cache = d.takes
      /\ \/ Stays(d, s, t, o) \/ Read(d, s, t, r, o)
         \/ s.inits < d.samples /\ b = "SUCCESS" /\ BegunNow(d, s, t, o)
         \/ s.inits < d.samples /\ b = "SUCCESS" /\ BegunAndRead(d, s, t, r, o)
         \/ s.inits < d.samples /\ b = "ERROR" /\ NotBegun(d, s, t, o)
         \/ b = "BUSY" /\ PutOff(d, s, t, o)
  BY <1>1, Outcomes
<1>3. /\ s.given >= d.takes - 1
      /\ s.collecting => s.age + CollectAt(d, s) >= d.takes - 1 + t
  BY DEF AtPass
<1>4. /\ d.takes \in Nat /\ Interval(d) \in Nat /\ d.takes + 1 < Interval(d) /\ o.wait \in Nat
      /\ Interval(d) <= 2 * T /\ T \in Nat
  BY <1>2, SoundHasRoom, IntervalIs, SamplingAssumption
<1>5. CASE Stays(d, s, t, o)
  <2>1. /\ o.data = s /\ t < Boundary(d, s) - d.takes
        /\ o.wait <= Boundary(d, s) - d.takes - t
        /\ s.inits # s.collected => t < CollectAt(d, s) /\ o.wait <= CollectAt(d, s) - t
    BY <1>5 DEF Stays
  <2>2. s.collecting => NextAt(d, s) = CollectAt(d, s) /\ s.inits # s.collected
    BY <1>1 DEF NextAt
  <2>3. ~s.collecting => NextAt(d, s) = Boundary(d, s) - d.takes
    BY <1>1 DEF NextAt
  <2>4. t <= NextAt(d, s) /\ t + left <= NextAt(d, s) /\ o.wait <= 4 * T
    BY <1>1, <1>4, <2>1, <2>2, <2>3
  <2> QED BY <1>1, <1>3, <2>1, <2>4 DEF InTime
<1>6. CASE Read(d, s, t, r, o)
  <2>1. /\ s.inits = s.collected + 1 /\ CollectAt(d, s) <= t /\ t < Boundary(d, s) - d.takes
        /\ o.data.inits = s.inits /\ ~o.data.collecting
        /\ o.data.collected = s.inits
        /\ o.data.given = IF r = "SUCCESS" THEN s.age ELSE s.given
        /\ o.wait <= CollectAt(d, s) + Interval(d) - d.takes - t
    BY <1>6 DEF Read
  <2>2. s.collecting
    BY <1>1, <2>1
  <2>3. o.data.given >= d.takes - 1
    BY <1>1, <1>3, <1>4, <2>1, <2>2
  <2>4. Boundary(d, o.data) = Boundary(d, s)
    BY <2>1 DEF Boundary
  <2>5. NextAt(d, o.data) = Boundary(d, s) - d.takes
    BY <1>2, <2>1, <2>4 DEF NextAt
  <2>6. t <= NextAt(d, o.data) /\ t + left <= NextAt(d, o.data) /\ o.wait <= 4 * T
    BY <1>1, <1>4, <2>1, <2>5
  <2> QED BY <2>1, <2>3, <2>6 DEF InTime
<1>7. CASE BegunNow(d, s, t, o)
  <2>1. /\ Boundary(d, s) - d.takes <= t /\ t < CollectAt(d, s) /\ s.inits = s.collected
        /\ o.data.inits = s.inits + 1 /\ o.data.collected = s.collected
        /\ o.data.collecting = TRUE /\ o.data.age = 0
        /\ o.data.given = s.given /\ o.wait <= CollectAt(d, s) - t
    BY <1>7 DEF BegunNow
  <2>2. CollectAt(d, o.data) = CollectAt(d, s) /\ NextAt(d, o.data) = CollectAt(d, o.data)
    BY <2>1 DEF CollectAt, NextAt
  <2>3. t <= NextAt(d, o.data) /\ t + left <= NextAt(d, o.data) /\ o.wait <= 4 * T
    BY <1>1, <1>4, <2>1, <2>2
  <2>4. ~s.collecting
    BY <1>1, <2>1
  <2>5. o.data.age + CollectAt(d, o.data) >= d.takes - 1 + t
    BY <1>1, <1>4, <2>1, <2>2, <2>4
  <2> QED BY <1>3, <2>1, <2>3, <2>5 DEF InTime
<1>8. CASE BegunAndRead(d, s, t, r, o)
  <2>1. /\ Boundary(d, s) - d.takes <= t /\ CollectAt(d, s) <= t
        /\ o.data.inits = s.inits + 1 /\ ~o.data.collecting
        /\ o.data.collected = s.inits + 1
        /\ o.data.given = IF r = "SUCCESS" THEN 0 ELSE s.given
        /\ d.takes + t <= CollectAt(d, s) + Interval(d) =>
              o.wait <= CollectAt(d, s) + Interval(d) - d.takes - t
    BY <1>8 DEF BegunAndRead
  <2>2. ~s.collecting
    BY <1>1, <1>4, <2>1
  <2>3. s.inits = s.collected /\ t <= Boundary(d, s) - d.takes + 1 /\ Boundary(d, s) = CollectAt(d, s)
    BY <1>1, <2>2
  <2>4. d.takes <= 1
    BY <1>1, <1>4, <2>1, <2>3
  <2>5. o.data.given >= d.takes - 1
    BY <1>1, <1>3, <1>4, <2>1, <2>4
  <2>6. Boundary(d, o.data) = Boundary(d, s) + Interval(d)
    <3>1. (s.inits + 1) * Interval(d) = s.inits * Interval(d) + Interval(d)
      BY <1>1, <1>4, OneMore
    <3>2. s.inits * Interval(d) \in Nat /\ Offset(d) \in Nat
      BY <1>1, <1>4, Products, OffsetIs
    <3> QED BY <1>4, <2>1, <3>1, <3>2 DEF Boundary
  <2>7. NextAt(d, o.data) = Boundary(d, s) + Interval(d) - d.takes
    <3>1. NextAt(d, o.data) = Boundary(d, o.data) - o.data.cache
      BY <2>1 DEF NextAt
    <3>2. o.data.cache = d.takes
      BY <1>2
    <3> QED BY <1>1, <1>4, <2>6, <3>1, <3>2
  <2>8. t <= NextAt(d, o.data) /\ t + left <= NextAt(d, o.data) /\ o.wait <= 4 * T
    BY <1>1, <1>4, <2>1, <2>3, <2>7
  <2> QED BY <2>1, <2>5, <2>8 DEF InTime
<1>9. CASE b = "ERROR" /\ NotBegun(d, s, t, o)
  <2>1. /\ Boundary(d, s) - d.takes <= t
        /\ o.data.inits = s.inits + 1 /\ o.data.collected = s.inits + 1 /\ ~o.data.collecting
        /\ o.data.given = s.given
        /\ t <= Boundary(d, s) => o.wait <= Boundary(d, s) - t
    BY <1>9 DEF NotBegun
  <2>2. ~s.collecting
    BY <1>1, <1>4, <2>1
  <2>3. s.inits = s.collected /\ t <= Boundary(d, s) - d.takes + 1 /\ d.takes >= 1
    BY <1>1, <1>9, <2>2
  <2>4. Boundary(d, o.data) = Boundary(d, s) + Interval(d)
    <3>1. (s.inits + 1) * Interval(d) = s.inits * Interval(d) + Interval(d)
      BY <1>1, <1>4, OneMore
    <3>2. s.inits * Interval(d) \in Nat /\ Offset(d) \in Nat
      BY <1>1, <1>4, Products, OffsetIs
    <3> QED BY <1>4, <2>1, <3>1, <3>2 DEF Boundary
  <2>5. NextAt(d, o.data) = Boundary(d, s) + Interval(d) - d.takes
    <3>1. NextAt(d, o.data) = Boundary(d, o.data) - o.data.cache
      BY <2>1 DEF NextAt
    <3>2. o.data.cache = d.takes
      BY <1>2
    <3> QED BY <1>1, <1>4, <2>4, <3>1, <3>2
  <2>6. t <= NextAt(d, o.data) /\ t + left <= NextAt(d, o.data) /\ o.wait <= 4 * T
    BY <1>1, <1>4, <2>1, <2>3, <2>5
  <2> QED BY <1>3, <2>1, <2>6 DEF InTime
<1> QED BY <1>2, <1>5, <1>6, <1>7, <1>8, <1>9
\* Nothing fails: what is collected is counted.
Counted(d, s) == s.samples = s.collected /\ s.sent = d.samples

LEMMA PassCounted ==
  ASSUME NEW d \in Definition, SoundDef(d), NEW s \in InRange(d), NEW t \in Nat, t <= d.interval * T + 1,
         AtPass(d, s, t), Counted(d, s),
         NEW o, o = SampleOne(d, s, t, "SUCCESS", "SUCCESS")
  PROVE  Counted(d, o.data)
<1>1. /\ s.cache = d.takes /\ s.inits <= d.samples /\ s.inits \in {s.collected, s.collected + 1}
      /\ s.collecting => s.inits = s.collected + 1 /\ t <= CollectAt(d, s) + 1
                         /\ t < Boundary(d, s) - d.takes
      /\ ~s.collecting => s.inits = s.collected /\ t <= Boundary(d, s) - d.takes + 1
      /\ Boundary(d, s) \in Nat /\ CollectAt(d, s) \in Nat /\ Boundary(d, s) <= 4 * T
      /\ s.inits = s.collected => Boundary(d, s) = CollectAt(d, s)
      /\ s.inits = s.collected + 1 => Boundary(d, s) = CollectAt(d, s) + Interval(d)
      /\ s.inits \in Nat /\ s.collected \in Nat /\ s.age \in Nat /\ s.given \in Nat
      /\ s.collecting \in BOOLEAN
  BY AtPassTimes
<1>2. "SUCCESS" \in Says /\ "SUCCESS" # "ERROR" /\ "SUCCESS" # "BUSY"
  BY DEF Says
<1>3. /\ o.data.sent = s.sent
      /\ \/ Stays(d, s, t, o) \/ Read(d, s, t, "SUCCESS", o)
         \/ s.inits < d.samples /\ BegunNow(d, s, t, o)
         \/ s.inits < d.samples /\ BegunAndRead(d, s, t, "SUCCESS", o)
  BY <1>1, <1>2, Outcomes
<1>4. s.samples = s.collected /\ s.sent = d.samples
  BY DEF Counted
<1>5. d.samples \in Nat /\ d.samples < CounterMod /\ CounterMod \in Nat /\ d.takes \in Nat
  BY SoundHasRoom, SamplingAssumption
<1>6. s.collected < d.samples => Up(s.samples) = s.collected + 1
  <2>1. s.collected < d.samples => (s.collected + 1) % CounterMod = s.collected + 1
    BY <1>1, <1>5, SmallRemainder
  <2> QED BY <1>4, <2>1 DEF Up
<1>7. CASE Stays(d, s, t, o)
  BY <1>4, <1>7 DEF Stays, Counted
<1>8. CASE Read(d, s, t, "SUCCESS", o)
  <2>1. o.data.samples = Up(s.samples) /\ o.data.collected = s.inits /\ s.inits = s.collected + 1
    BY <1>2, <1>8 DEF Read
  <2>2. s.collected < d.samples
    BY <1>1, <1>5, <2>1
  <2> QED BY <1>3, <1>4, <1>6, <2>1, <2>2 DEF Counted
<1>9. CASE BegunNow(d, s, t, o)
  <2>1. o.data.samples = s.samples /\ o.data.collected = s.collected
    BY <1>9 DEF BegunNow
  <2> QED BY <1>3, <1>4, <2>1 DEF Counted
<1>10. CASE s.inits < d.samples /\ BegunAndRead(d, s, t, "SUCCESS", o)
  <2>1. /\ o.data.samples = Up(s.samples) /\ o.data.collected = s.inits + 1
        /\ Boundary(d, s) - d.takes <= t
    BY <1>2, <1>10 DEF BegunAndRead
  <2>2. s.inits = s.collected
    BY <1>1, <1>5, <2>1
  <2> QED BY <1>3, <1>4, <1>6, <1>10, <2>1, <2>2 DEF Counted
<1> QED BY <1>3, <1>7, <1>8, <1>9, <1>10

-----------------------------------------------------------------------------
(***************************************************************************)
(* The other steps of one measurement.                                     *)
(***************************************************************************)
Aged(d, s, k) == [s EXCEPT !.age = Min({@ + k, d.takes})]

WasAged(d, s, k, h) ==
    /\ h \in InRange(d)
    /\ h.inits = s.inits /\ h.collected = s.collected /\ h.samples = s.samples
    /\ h.collecting = s.collecting /\ h.cache = s.cache /\ h.given = s.given /\ h.sent = s.sent
    /\ h.age \in {s.age + k, d.takes}
    /\ Boundary(d, h) = Boundary(d, s) /\ CollectAt(d, h) = CollectAt(d, s)
    /\ NextAt(d, h) = NextAt(d, s)

LEMMA AgedFields ==
  ASSUME NEW d \in Definition, NEW s \in InRange(d), NEW k \in Nat, NEW h, h = Aged(d, s, k)
  PROVE  WasAged(d, s, k, h)
<1>1. s.age + k \in Nat /\ d.takes \in Nat
  BY DEF InRange, Definition
<1>2. Min({s.age + k, d.takes}) \in Nat /\ Min({s.age + k, d.takes}) \in {s.age + k, d.takes}
  BY <1>1, LeastOfTwo
<1>3. PICK m : m = Min({s.age + k, d.takes})
  OBVIOUS
<1>4. h = [s EXCEPT !.age = m]
  BY <1>3 DEF Aged, InRange
<1>5. m \in Nat /\ m \in {s.age + k, d.takes}
  BY <1>2, <1>3
<1>6. /\ h \in InRange(d)
      /\ h.inits = s.inits /\ h.collected = s.collected /\ h.samples = s.samples
      /\ h.collecting = s.collecting /\ h.cache = s.cache /\ h.given = s.given /\ h.sent = s.sent
      /\ h.age = m
  BY <1>4, <1>5 DEF InRange
<1>7. Boundary(d, h) = Boundary(d, s) /\ CollectAt(d, h) = CollectAt(d, s)
  BY <1>6 DEF Boundary, CollectAt
<1>8. NextAt(d, h) = NextAt(d, s)
  BY <1>6, <1>7 DEF NextAt
<1> QED BY <1>5, <1>6, <1>7, <1>8 DEF WasAged

LEMMA ResetFields ==
  ASSUME NEW d \in Definition, NEW s \in InRange(d), NEW h, h = Reset(s)
  PROVE  /\ h \in InRange(d)
         /\ h.inits = 0 /\ h.collected = 0 /\ h.samples = 0 /\ h.sent = s.samples
         /\ h.collecting = s.collecting /\ h.cache = s.cache /\ h.given = s.given /\ h.age = s.age
<1>1. 0 \in Counter /\ s.samples \in Nat
  BY ZeroIsCounter, CountersAreNat DEF InRange
<1> QED BY <1>1 DEF Reset, InRange

\* Time does not pass backwards for it, whatever else changes.
LEMMA InStepEarlier ==
  ASSUME NEW d \in Definition, NEW s \in InRange(d), NEW t \in Int, NEW left \in Int, InStep(d, s, t, left),
         NEW u \in Int, NEW rest \in Int, u <= t, u + rest <= t + left
  PROVE  InStep(d, s, u, rest)
<1>1. CollectAt(d, s) \in Int
  BY BoundaryIs
<1> QED BY <1>1 DEF InStep

LEMMA InTimeEarlier ==
  ASSUME NEW d \in Definition, NEW s \in InRange(d), NEW t \in Int, NEW left \in Int, InTime(d, s, t, left),
         NEW u \in Int, NEW rest \in Int, u <= t, u + rest <= t + left
  PROVE  InTime(d, s, u, rest)
<1>1. /\ CollectAt(d, s) \in Int /\ Boundary(d, s) - s.cache \in Int /\ s.age \in Int /\ d.takes \in Int
  BY BoundaryIs DEF InRange, Definition
<1>2. NextAt(d, s) \in Int
  BY <1>1 DEF NextAt
<1> QED BY <1>1, <1>2 DEF InTime

\* A turn that does not check: what is left is one less.
LEMMA InStepLater ==
  ASSUME NEW d \in Definition, NEW s \in InRange(d), NEW t \in Int, NEW left \in Int, InStep(d, s, t, left),
         NEW h, h = Aged(d, s, 1), s.collecting => left >= 1
  PROVE  InStep(d, h, t + 1, left - 1)
<1>1. CollectAt(d, s) \in Int
  BY BoundaryIs
<1>2. /\ h.inits = s.inits /\ h.collected = s.collected
      /\ h.collecting = s.collecting /\ h.cache = s.cache
      /\ CollectAt(d, h) = CollectAt(d, s)
  BY AgedFields DEF WasAged
<1> QED BY <1>1, <1>2 DEF InStep

LEMMA InTimeLater ==
  ASSUME NEW d \in Definition, NEW s \in InRange(d), NEW t \in Int, NEW left \in Int, InTime(d, s, t, left),
         NEW h, h = Aged(d, s, 1), left >= 1
  PROVE  InTime(d, h, t + 1, left - 1)
<1>1. /\ CollectAt(d, s) \in Int /\ Boundary(d, s) - s.cache \in Int /\ s.age \in Int /\ d.takes \in Int
  BY BoundaryIs DEF InRange, Definition
<1>2. NextAt(d, s) \in Int
  BY <1>1 DEF NextAt
<1>3. /\ h.inits = s.inits /\ h.collected = s.collected /\ h.given = s.given
      /\ h.collecting = s.collecting
      /\ CollectAt(d, h) = CollectAt(d, s) /\ NextAt(d, h) = NextAt(d, s)
      /\ h.age \in {s.age + 1, d.takes}
  BY AgedFields DEF WasAged
<1>4. t + 1 <= NextAt(d, h) /\ (t + 1) + (left - 1) <= NextAt(d, h)
  BY <1>2, <1>3 DEF InTime
<1>5. s.collecting => NextAt(d, s) = CollectAt(d, s)
  BY DEF NextAt
<1>6. h.collecting => h.age + CollectAt(d, h) >= d.takes - 1 + (t + 1)
  <2>1. s.collecting => s.age + CollectAt(d, s) >= d.takes - 1 + t
    BY DEF InTime
  <2> QED BY <1>1, <1>3, <1>4, <1>5, <2>1
<1> QED BY <1>3, <1>4, <1>6 DEF InTime

\* What a pass starts from, after a turn.
LEMMA AtPassLater ==
  ASSUME NEW d \in Definition, NEW s \in InRange(d), NEW t \in Int, NEW left \in Int,
         InStep(d, s, t, left), InTime(d, s, t, left), NEW h, h = Aged(d, s, 1)
  PROVE  AtPass(d, h, t + 1)
<1>1. /\ CollectAt(d, s) \in Int /\ Boundary(d, s) - s.cache \in Int /\ s.age \in Int /\ d.takes \in Int
  BY BoundaryIs DEF InRange, Definition
<1>2. NextAt(d, s) \in Int
  BY <1>1 DEF NextAt
<1>3. /\ h.inits = s.inits /\ h.collected = s.collected /\ h.given = s.given
      /\ h.collecting = s.collecting /\ h.cache = s.cache
      /\ CollectAt(d, h) = CollectAt(d, s) /\ NextAt(d, h) = NextAt(d, s)
      /\ h.age \in {s.age + 1, d.takes}
  BY AgedFields DEF WasAged
<1>4. /\ h.cache = d.takes /\ h.inits <= d.samples /\ t <= NextAt(d, s)
      /\ h.given >= d.takes - 1
  BY <1>3 DEF InStep, InTime
<1>5. h.inits = IF h.collecting THEN h.collected + 1 ELSE h.collected
  BY <1>3 DEF InStep, InTime
<1>6. h.collecting => h.age + CollectAt(d, h) >= d.takes - 1 + (t + 1)
  <2>1. s.collecting => s.age + CollectAt(d, s) >= d.takes - 1 + t /\ NextAt(d, s) = CollectAt(d, s)
    BY DEF InTime, NextAt
  <2> QED BY <1>1, <1>3, <1>4, <2>1
<1>7. t + 1 <= NextAt(d, h) + 1
  BY <1>2, <1>3, <1>4
<1> QED BY <1>4, <1>5, <1>6, <1>7 DEF AtPass

\* The send at the end of its interval: nothing is being collected then, all
\* its samples have been, and there is time before the first of the next.
LEMMA ResetInStep ==
  ASSUME NEW d \in Definition, SoundDef(d), NEW s \in InRange(d),
         NEW left \in Int, InStep(d, s, d.interval * T + 1, left),
         NEW rest \in Int, NEW h, h = Reset(s)
  PROVE  InStep(d, h, 0, rest) /\ ~h.collecting /\ ~s.collecting
<1>1. /\ s.cache = d.takes /\ s.inits <= d.samples /\ s.inits \in {s.collected, s.collected + 1}
      /\ s.collecting => s.inits = s.collected + 1 /\ d.interval * T + 1 <= CollectAt(d, s)
  BY DEF InStep
<1>2. /\ s.inits \in Nat /\ s.collected \in Nat /\ CollectAt(d, s) \in Nat
      /\ s.collected < d.samples => CollectAt(d, s) < d.interval * T
  BY <1>1, TimesInStep
<1>3. d.samples \in Nat /\ d.interval * T \in Nat
  BY SoundHasRoom, SpanIs
<1>4. ~s.collecting
  BY <1>1, <1>2, <1>3
<1>5. h.inits = 0 /\ h.collected = 0 /\ h.collecting = s.collecting /\ h.cache = s.cache
  BY ResetFields
<1> QED BY <1>1, <1>3, <1>4, <1>5 DEF InStep

LEMMA ResetInTime ==
  ASSUME NEW d \in Definition, SoundDef(d), NEW s \in InRange(d),
         NEW left \in Int, InStep(d, s, d.interval * T + 1, left), InTime(d, s, d.interval * T + 1, left),
         NEW rest \in Int, rest <= left, NEW h, h = Reset(s)
  PROVE  /\ InTime(d, h, 0, rest)
         /\ s.collected = d.samples
<1>1. ~h.collecting /\ ~s.collecting
  BY ResetInStep
<1>2. s.cache = d.takes /\ s.inits <= d.samples /\ s.inits \in {s.collected, s.collected + 1}
  BY DEF InStep
<1>3. /\ s.inits \in Nat /\ s.collected \in Nat /\ Boundary(d, s) \in Nat
      /\ s.inits < d.samples => Boundary(d, s) < d.interval * T
  BY <1>2, TimesInStep
<1>4. /\ d.samples \in Nat /\ d.takes \in Nat /\ Interval(d) \in Nat /\ Offset(d) \in Nat
      /\ LeftOver(d) \in Nat /\ d.takes + 1 + LeftOver(d) < Offset(d)
      /\ d.samples * Interval(d) \in Nat
      /\ d.interval * T = d.samples * Interval(d) + LeftOver(d)
  BY SoundHasRoom
<1>5. /\ s.inits = s.collected
      /\ d.interval * T + 1 <= NextAt(d, s) /\ d.interval * T + 1 + left <= NextAt(d, s)
      /\ s.given >= d.takes - 1
  BY <1>1 DEF InTime
<1>6. NextAt(d, s) = Boundary(d, s) - d.takes
  BY <1>1, <1>2 DEF NextAt
<1>7. d.interval * T \in Nat
  BY SpanIs
<1>8. s.inits = d.samples
  BY <1>2, <1>3, <1>4, <1>5, <1>6, <1>7
<1>9. Boundary(d, s) = d.samples * Interval(d) + Offset(d)
  BY <1>8 DEF Boundary
<1>10. h.inits = 0 /\ h.collected = 0 /\ h.cache = s.cache /\ h.given = s.given
  BY ResetFields
<1>11. Boundary(d, h) = Offset(d)
  <2>1. 0 * Interval(d) = 0
    BY <1>4
  <2> QED BY <1>4, <1>10, <2>1 DEF Boundary
<1>12. NextAt(d, h) = Offset(d) - d.takes
  <2>1. NextAt(d, h) = Boundary(d, h) - h.cache
    BY <1>1 DEF NextAt
  <2> QED BY <1>2, <1>10, <1>11, <2>1
<1>13. left <= Offset(d) - d.takes /\ 0 <= Offset(d) - d.takes
  BY <1>4, <1>5, <1>6, <1>7, <1>9
<1>14. 0 <= NextAt(d, h) /\ 0 + rest <= NextAt(d, h)
  BY <1>4, <1>12, <1>13
<1> QED BY <1>1, <1>5, <1>8, <1>10, <1>14 DEF InTime
-----------------------------------------------------------------------------
(***************************************************************************)
(* One measurement in a turn of the main loop.                             *)
(***************************************************************************)
HeldAt(d, s, t, w, c) ==
    SoundDef(d) => InStep(d, s, t, w - c) /\ (s.collecting => w <= 4 * T)
TimelyAt(d, s, t, w, c) == InTime(d, s, t, w - c) /\ w <= 4 * T

\* After the check of the time, t into its intervals: it is a turn older, or
\* there was a pass, and v is the least of the waits that came of it.
Turned(d, s, t, b, r, w, c, m, v, e) ==
    \/ c + 1 <= w /\ m = Aged(d, s, 1) /\ v = w /\ e = Min({c + 1, Huge - 1})
    \/ /\ m = SampleOne(d, Aged(d, s, 1), t, b, r).data
       /\ v <= SampleOne(d, Aged(d, s, 1), t, b, r).wait /\ e = 0

LEMMA FarFromHuge == 4 * T + 1 < Huge \/ CounterMod = 1
<1>1. T \in Nat /\ T > 0 /\ CounterMod \in Nat /\ CounterMod > 0 /\ Huge \in Nat /\ Huge > 4 * CounterMod * T
  BY SamplingAssumption
<1>2. CASE CounterMod >= 2
  <2>1. 2 * (4 * T) <= CounterMod * (4 * T)
    BY <1>1, <1>2, Times
  <2>2. CounterMod * (4 * T) = 4 * CounterMod * T
    BY <1>1
  <2> QED BY <1>1, <2>1, <2>2
<1> QED BY <1>1, <1>2

LEMMA SoundIsNear ==
  ASSUME NEW d \in Definition, SoundDef(d) PROVE 4 * T + 1 < Huge
<1>1. d.samples \in Nat /\ d.samples > 0 /\ d.samples < CounterMod
  BY SoundHasRoom DEF Definition
<1> QED BY <1>1, FarFromHuge, SamplingAssumption

LEMMA NextCheck ==
  ASSUME NEW w \in Nat, NEW c \in Nat, c + 1 <= w, w <= 4 * T, 4 * T + 1 < Huge
  PROVE  Min({c + 1, Huge - 1}) = c + 1
<1>1. c + 1 \in Nat /\ Huge - 1 \in Nat /\ c + 1 < Huge - 1
  BY SamplingAssumption
<1>2. Min({c + 1, Huge - 1}) \in {c + 1, Huge - 1} /\ Min({c + 1, Huge - 1}) <= c + 1
  BY <1>1, LeastOfTwo
<1> QED BY <1>1, <1>2

LEMMA TurnHeld ==
  ASSUME NEW d \in Definition, NEW s \in InRange(d), NEW b \in Says, NEW r \in Says,
         NEW t \in Nat, t + 1 <= d.interval * T + 1,
         NEW w \in Nat, NEW c \in Nat, HeldAt(d, s, t, w, c),
         NEW m, NEW v \in Nat, NEW e \in Nat, Turned(d, s, t + 1, b, r, w, c, m, v, e)
  PROVE  HeldAt(d, m, t + 1, v, e)
<1> SUFFICES ASSUME SoundDef(d) PROVE InStep(d, m, t + 1, v - e) /\ (m.collecting => v <= 4 * T)
  BY DEF HeldAt
<1>1. InStep(d, s, t, w - c) /\ (s.collecting => w <= 4 * T)
  BY DEF HeldAt
<1>2. PICK h : h = Aged(d, s, 1)
  OBVIOUS
<1>3. /\ h \in InRange(d) /\ h.inits = s.inits /\ h.collected = s.collected
      /\ h.collecting = s.collecting /\ h.cache = s.cache /\ CollectAt(d, h) = CollectAt(d, s)
  <2>1. WasAged(d, s, 1, h)
    BY <1>2, AgedFields
  <2> QED BY <2>1 DEF WasAged
<1>4. CASE c + 1 <= w /\ m = h /\ v = w /\ e = Min({c + 1, Huge - 1})
  <2>1. CASE s.collecting
    <3>1. e = c + 1
      BY <1>1, <1>4, <2>1, NextCheck, SoundIsNear
    <3>2. w - c \in Int /\ w - c >= 1 /\ v - e = (w - c) - 1 /\ t \in Int
      BY <1>4, <3>1
    <3>3. InStep(d, h, t + 1, (w - c) - 1)
      BY <1>1, <1>2, <3>2, InStepLater
    <3> QED BY <1>1, <1>4, <2>1, <3>2, <3>3
  <2>2. CASE ~s.collecting
    <3>1. ~h.collecting
      BY <1>3, <2>2
    <3> QED BY <1>1, <1>3, <1>4, <3>1 DEF InStep
  <2> QED BY <2>1, <2>2
<1>5. CASE /\ m = SampleOne(d, h, t + 1, b, r).data /\ v <= SampleOne(d, h, t + 1, b, r).wait
           /\ e = 0
  <2>1. PICK o : o = SampleOne(d, h, t + 1, b, r)
    OBVIOUS
  <2>2. CollectAt(d, s) \in Nat
    BY BoundaryIs
  <2>3. /\ h.cache = d.takes /\ h.inits <= d.samples /\ h.inits \in {h.collected, h.collected + 1}
        /\ h.collecting => h.inits = h.collected + 1 /\ t + 1 <= CollectAt(d, h) + 1
    BY <1>1, <1>3, <2>2 DEF InStep
  <2>4. v - e \in Int /\ v - e <= o.wait /\ v <= o.wait /\ t + 1 \in Nat
    BY <1>5, <2>1
  <2>5. InStep(d, o.data, t + 1, v - e) /\ (o.data.collecting => o.wait <= 4 * T)
    BY <1>3, <2>1, <2>3, <2>4, PassInStep
  <2>6. o.wait \in Nat /\ T \in Nat
    <3>1. o.wait \in 0..Huge
      BY <1>3, <2>1, <2>4, SampleIs
    <3> QED BY <3>1, SamplingAssumption
  <2>7. m = o.data /\ v <= o.wait
    BY <1>5, <2>1
  <2> QED BY <2>5, <2>6, <2>7
<1> QED BY <1>2, <1>4, <1>5 DEF Turned

LEMMA TurnTimely ==
  ASSUME NEW d \in Definition, SoundDef(d), NEW s \in InRange(d), NEW b \in Says, NEW r \in Says,
         b # "BUSY", r # "BUSY", b = "SUCCESS" \/ d.takes >= 1,
         NEW t \in Nat, t + 1 <= d.interval * T + 1,
         NEW w \in Nat, NEW c \in Nat, HeldAt(d, s, t, w, c), TimelyAt(d, s, t, w, c),
         NEW m, NEW v \in Nat, NEW e \in Nat, Turned(d, s, t + 1, b, r, w, c, m, v, e)
  PROVE  TimelyAt(d, m, t + 1, v, e)
<1>1. InStep(d, s, t, w - c) /\ InTime(d, s, t, w - c) /\ w <= 4 * T
  BY DEF HeldAt, TimelyAt
<1>2. PICK h : h = Aged(d, s, 1)
  OBVIOUS
<1>3. h \in InRange(d)
  BY <1>2, AgedFields DEF WasAged
<1>4. CASE c + 1 <= w /\ m = h /\ v = w /\ e = Min({c + 1, Huge - 1})
  <2>1. e = c + 1
    BY <1>1, <1>4, NextCheck, SoundIsNear
  <2>2. w - c \in Int /\ w - c >= 1 /\ v - e = (w - c) - 1 /\ t \in Int
    BY <1>4, <2>1
  <2>3. InTime(d, h, t + 1, (w - c) - 1)
    BY <1>1, <1>2, <2>2, InTimeLater
  <2> QED BY <1>1, <1>4, <2>2, <2>3 DEF TimelyAt
<1>5. CASE /\ m = SampleOne(d, h, t + 1, b, r).data /\ v <= SampleOne(d, h, t + 1, b, r).wait
           /\ e = 0
  <2>1. PICK o : o = SampleOne(d, h, t + 1, b, r)
    OBVIOUS
  <2>2. w - c \in Int /\ t \in Int /\ t + 1 \in Nat
    OBVIOUS
  <2>3. AtPass(d, h, t + 1)
    BY <1>1, <1>2, <2>2, AtPassLater
  <2>4. v - e \in Int /\ v - e <= o.wait /\ v <= o.wait
    BY <1>5, <2>1
  <2>5. InTime(d, o.data, t + 1, v - e) /\ o.wait <= 4 * T
    BY <1>3, <2>1, <2>2, <2>3, <2>4, PassInTime
  <2>6. o.wait \in Nat /\ T \in Nat
    <3>1. o.wait \in 0..Huge
      BY <1>3, <2>1, <2>2, SampleIs
    <3> QED BY <3>1, SamplingAssumption
  <2>7. m = o.data /\ v <= 4 * T
    BY <1>5, <2>1, <2>4, <2>5, <2>6
  <2> QED BY <2>5, <2>7 DEF TimelyAt
<1> QED BY <1>2, <1>4, <1>5 DEF Turned

LEMMA TurnCounted ==
  ASSUME NEW d \in Definition, SoundDef(d), NEW s \in InRange(d),
         NEW t \in Nat, t + 1 <= d.interval * T + 1,
         NEW w \in Nat, NEW c \in Nat, HeldAt(d, s, t, w, c), TimelyAt(d, s, t, w, c), Counted(d, s),
         NEW m, NEW v \in Nat, NEW e \in Nat,
         Turned(d, s, t + 1, "SUCCESS", "SUCCESS", w, c, m, v, e)
  PROVE  Counted(d, m)
<1>1. InStep(d, s, t, w - c) /\ InTime(d, s, t, w - c)
  BY DEF HeldAt, TimelyAt
<1>2. PICK h : h = Aged(d, s, 1)
  OBVIOUS
<1>3. h \in InRange(d) /\ h.collected = s.collected /\ h.samples = s.samples /\ h.sent = s.sent
  <2>1. WasAged(d, s, 1, h)
    BY <1>2, AgedFields
  <2> QED BY <2>1 DEF WasAged
<1>4. Counted(d, h)
  BY <1>3 DEF Counted
<1>5. CASE m = SampleOne(d, h, t + 1, "SUCCESS", "SUCCESS").data
  <2>1. PICK o : o = SampleOne(d, h, t + 1, "SUCCESS", "SUCCESS")
    OBVIOUS
  <2>2. w - c \in Int /\ t \in Int /\ t + 1 \in Nat
    OBVIOUS
  <2>3. AtPass(d, h, t + 1)
    BY <1>1, <1>2, <2>2, AtPassLater
  <2>4. Counted(d, o.data)
    BY <1>3, <1>4, <2>1, <2>2, <2>3, PassCounted
  <2> QED BY <1>5, <2>1, <2>4
<1> QED BY <1>2, <1>4, <1>5 DEF Turned

LEMMA TurnedType ==
  ASSUME NEW d \in Definition, NEW s \in InRange(d), NEW b \in Says, NEW r \in Says, NEW t \in Nat,
         NEW k \in Nat
  PROVE  /\ Aged(d, s, k) \in InRange(d)
         /\ SampleOne(d, Aged(d, s, k), t, b, r).data \in InRange(d)
         /\ SampleOne(d, Aged(d, s, k), t, b, r).wait \in 0..Huge
<1>1. Aged(d, s, k) \in InRange(d)
  BY AgedFields DEF WasAged
<1> QED BY <1>1, SampleIs
-----------------------------------------------------------------------------
(***************************************************************************)
(* The inductive invariant.                                                *)
(***************************************************************************)
Only(fs) == faults.had \subseteq fs
FaultsType == [left : Nat, had : SUBSET AllFaults]

Types ==
    /\ def \in [Measurement -> Definition]
    /\ data = [i \in Measurement |-> data[i]]
    /\ \A i \in Measurement : data[i] \in InRange(def[i])
    /\ since \in 0..(2 * T + MaxLate) /\ checked \in 0..(Huge - 1) /\ wait \in 0..Huge
    /\ count \in {0, 1} /\ link \in {"up", "down", "fw"}
    /\ noticed \in BOOLEAN /\ pending \in BOOLEAN
    /\ faults \in FaultsType

\* Where the time and the link are only because of a fault.
Kept ==
    /\ link = "fw" => "fw" \in faults.had
    /\ pending => "notready" \in faults.had
    /\ since > T => faults.had \cap {"late", "fw"} # {}

Unlocked ==
    Only({"begin", "busy", "read", "down"}) =>
        \A i \in Measurement : HeldAt(def[i], data[i], Time(def[i], since, count), wait, checked)

\* A sensor that fails to begin at once, and takes no time, may be late: then the
\* wait that is worked out does not end.
Prompt(d) ==
    \/ Only({"down"})
    \/ d.takes >= 1 /\ Only({"begin", "read", "down"})

Timely ==
    \A i \in Measurement :
        Sound(i) /\ Prompt(def[i]) =>
            TimelyAt(def[i], data[i], Time(def[i], since, count), wait, checked)

AllCounted == Only({"down"}) => \A i \in Measurement : Sound(i) => Counted(def[i], data[i])

IInv == Types /\ Kept /\ Unlocked /\ Timely /\ AllCounted

-----------------------------------------------------------------------------
(***************************************************************************)
(* The turn of the main loop.                                              *)
(***************************************************************************)
AnswersType == [Measurement -> [begin : Says, read : Says]]

LEMMA TimeIs ==
  ASSUME NEW d \in Definition, NEW t \in Nat, NEW c \in {0, 1}
  PROVE  /\ Time(d, t, c) \in Nat /\ Time(d, t + 1, c) = Time(d, t, c) + 1
         /\ Time(d, 0, c) <= Time(d, t, c)
         /\ t <= T => Time(d, t, c) <= d.interval * T
<1>1. d.interval \in {1, 2} /\ T \in Nat
  BY SamplingAssumption DEF Definition, Cycle
<1>2. CASE d.interval = 1
  <2>1. c % d.interval = 0
    BY <1>2, SMT
  <2>2. (c % d.interval) * T = 0 /\ d.interval * T = T
    BY <1>1, <1>2, <2>1
  <2> QED BY <1>1, <2>2 DEF Time
<1>3. CASE d.interval = 2
  <2>1. c % d.interval = c
    BY <1>3, SMT
  <2>2. (c % d.interval) * T \in Nat /\ (c % d.interval) * T <= T /\ d.interval * T = 2 * T
    BY <1>1, <1>3, <2>1
  <2> QED BY <1>1, <2>2 DEF Time
<1> QED BY <1>1, <1>2, <1>3

LEMMA TimeGrows ==
  ASSUME NEW d \in Definition, NEW t \in Nat, NEW u \in Nat, u <= t, NEW c \in {0, 1}
  PROVE  Time(d, u, c) <= Time(d, t, c)
<1>1. d.interval \in {1, 2} /\ T \in Nat
  BY SamplingAssumption DEF Definition, Cycle
<1>2. c % d.interval \in Nat
  BY <1>1, SMT
<1>3. PICK x \in Nat : x = (c % d.interval) * T
  BY <1>1, <1>2
<1>4. Time(d, u, c) = u + x /\ Time(d, t, c) = t + x
  BY <1>3 DEF Time
<1> QED BY <1>4

\* When its interval ends: what is due has its time, and what is not is a turn back.
LEMMA TimeAtSend ==
  ASSUME NEW d \in Definition, NEW c \in {0, 1}, NEW n, n = (c + 1) % Cycle
  PROVE  /\ n \in {0, 1}
         /\ n % d.interval = 0 => Time(d, T + 1, c) = d.interval * T + 1 /\ Time(d, 0, n) = 0
         /\ n % d.interval # 0 => Time(d, 0, n) = Time(d, T + 1, c) - 1
<1>1. d.interval \in {1, 2} /\ T \in Nat /\ n = (c + 1) % 2
  BY SamplingAssumption DEF Definition, Cycle
<1>2. n = 1 - c
  BY <1>1, SMT
<1>3. CASE d.interval = 1
  <2>1. c % d.interval = 0 /\ n % d.interval = 0
    BY <1>2, <1>3, SMT
  <2>2. (c % d.interval) * T = 0 /\ (n % d.interval) * T = 0 /\ d.interval * T = T
    BY <1>1, <1>3, <2>1
  <2>3. Time(d, T + 1, c) = T + 1 /\ Time(d, 0, n) = 0
    BY <1>1, <2>2 DEF Time
  <2> QED BY <1>1, <1>2, <2>1, <2>2, <2>3
<1>4. CASE d.interval = 2
  <2>1. c % d.interval = c /\ n % d.interval = n
    BY <1>2, <1>4, SMT
  <2>2. Time(d, T + 1, c) = T + 1 + c * T /\ Time(d, 0, n) = 0 + n * T
    BY <2>1 DEF Time
  <2>3. CASE c = 0
    <3>1. n = 1 /\ c * T = 0 /\ n * T = T
      BY <1>1, <1>2, <2>3
    <3> QED BY <1>1, <2>1, <2>2, <2>3, <3>1
  <2>4. CASE c = 1
    <3>1. n = 0 /\ c * T = T /\ n * T = 0 /\ d.interval * T = 2 * T
      BY <1>1, <1>2, <1>4, <2>4
    <3> QED BY <1>1, <2>1, <2>2, <2>4, <3>1
  <2> QED BY <2>3, <2>4
<1> QED BY <1>1, <1>3, <1>4

\* The check of the time, for every measurement.
LEMMA CheckIs ==
  ASSUME Types, NEW k \in Nat, NEW answers \in AnswersType, NEW now, now = Check(k, answers)
  PROVE  /\ now.wait \in 0..Huge /\ now.checked \in 0..(Huge - 1)
         /\ now.data = [i \in Measurement |-> now.data[i]]
         /\ \A i \in Measurement : now.data[i] \in InRange(def[i])
         /\ k = 1 =>
             \A i \in Measurement :
                 Turned(def[i], data[i], Time(def[i], since + 1, count),
                        answers[i].begin, answers[i].read, wait, checked,
                        now.data[i], now.wait, now.checked)
<1>1. /\ checked \in Nat /\ checked <= Huge - 1 /\ wait \in 0..Huge /\ Huge \in Nat /\ Huge > 0
      /\ since + k \in Nat /\ count \in {0, 1}
  <2>1. T \in Nat /\ T > 0 /\ CounterMod \in Nat /\ CounterMod > 0 /\ Huge \in Nat
        /\ Huge > 4 * CounterMod * T /\ MaxLate \in Nat
    BY SamplingAssumption
  <2>2. 4 * CounterMod * T >= 0
    BY <2>1
  <2> QED BY <2>1, <2>2 DEF Types
<1>2. ASSUME NEW i \in Measurement
      PROVE  /\ def[i] \in Definition /\ data[i] \in InRange(def[i])
             /\ answers[i].begin \in Says /\ answers[i].read \in Says
             /\ Time(def[i], since + k, count) \in Nat
             /\ Older(data, k)[i] = Aged(def[i], data[i], k)
             /\ Aged(def[i], data[i], k) \in InRange(def[i])
  <2>1. def[i] \in Definition /\ data[i] \in InRange(def[i])
    BY DEF Types
  <2>2. answers[i].begin \in Says /\ answers[i].read \in Says
    BY DEF AnswersType
  <2>3. Time(def[i], since + k, count) \in Nat
    BY <1>1, <2>1, TimeIs
  <2>4. Older(data, k)[i] = Aged(def[i], data[i], k)
    BY DEF Older, Aged
  <2>5. Aged(def[i], data[i], k) \in InRange(def[i])
    BY <2>1, <2>2, <2>3, TurnedType
  <2> QED BY <2>1, <2>2, <2>3, <2>4, <2>5
<1>3. Older(data, k) = [i \in Measurement |-> Older(data, k)[i]]
  BY DEF Older
<1>4. CASE checked + k <= wait
  <2>1. now = [data |-> Older(data, k), wait |-> wait, checked |-> Min({checked + k, Huge - 1})]
    BY <1>4 DEF Check
  <2>2. PICK e : e = Min({checked + k, Huge - 1})
    OBVIOUS
  <2>3. e \in 0..(Huge - 1)
    <3>1. checked + k \in Nat /\ Huge - 1 \in Nat
      BY <1>1
    <3>2. e \in Nat /\ e <= Huge - 1
      BY <2>2, <3>1, LeastOfTwo
    <3> QED BY <1>1, <3>2
  <2>4. now.data = Older(data, k) /\ now.wait = wait /\ now.checked = e
    BY <2>1, <2>2
  <2>5. ASSUME k = 1, NEW i \in Measurement
        PROVE  Turned(def[i], data[i], Time(def[i], since + 1, count),
                      answers[i].begin, answers[i].read, wait, checked,
                      now.data[i], now.wait, now.checked)
    BY <1>2, <1>4, <2>2, <2>4, <2>5 DEF Turned
  <2> QED BY <1>1, <1>2, <1>3, <2>3, <2>4, <2>5
<1>5. CASE ~(checked + k <= wait)
  <2>1. PICK all : all = Sampled(k, answers)
    OBVIOUS
  <2>2. ASSUME NEW i \in Measurement
        PROVE  all[i] = SampleOne(def[i], Aged(def[i], data[i], k), Time(def[i], since + k, count),
                                  answers[i].begin, answers[i].read)
    BY <1>2, <2>1 DEF Sampled
  <2>3. ASSUME NEW i \in Measurement
        PROVE  all[i].data \in InRange(def[i]) /\ all[i].wait \in 0..Huge
    BY <1>2, <2>2, TurnedType
  <2>4. PICK v : v = Min({all[i].wait : i \in Measurement})
    OBVIOUS
  <2>5. v \in 0..Huge /\ \A i \in Measurement : v <= all[i].wait
    <3> DEFINE S == {all[i].wait : i \in Measurement}
    <3>1. S \in SUBSET Nat /\ \A x \in S : x <= Huge
      BY <1>1, <2>3
    <3>2. 1 \in Measurement
      BY SamplingAssumption DEF Measurement
    <3>3. S # {}
      BY <3>2
    <3>4. Min(S) \in S /\ Min(S) \in Nat /\ \A x \in S : Min(S) <= x
      BY <3>1, <3>3, LeastIs
    <3>5. \A i \in Measurement : all[i].wait \in S
      OBVIOUS
    <3>6. v = Min(S)
      BY <2>4
    <3>7. v \in S /\ v \in Nat /\ \A x \in S : v <= x
      BY <3>4, <3>6
    <3> HIDE DEF S
    <3>8. v <= Huge
      BY <3>1, <3>7
    <3>9. \A i \in Measurement : v <= all[i].wait
      BY <3>5, <3>7
    <3> QED BY <1>1, <3>7, <3>8, <3>9
  <2>6. now = [data |-> [i \in Measurement |-> all[i].data], wait |-> v, checked |-> 0]
    BY <1>5, <2>1, <2>4 DEF Check, Passed
  <2>7. /\ now.data = [i \in Measurement |-> all[i].data] /\ now.wait = v /\ now.checked = 0
    BY <2>6
  <2>8. \A i \in Measurement : now.data[i] = all[i].data
    BY <2>7
  <2>9. ASSUME k = 1, NEW i \in Measurement
        PROVE  Turned(def[i], data[i], Time(def[i], since + 1, count),
                      answers[i].begin, answers[i].read, wait, checked,
                      now.data[i], now.wait, now.checked)
    BY <2>2, <2>5, <2>7, <2>8, <2>9 DEF Turned
  <2> QED BY <1>1, <2>3, <2>5, <2>7, <2>8, <2>9
<1> QED BY <1>4, <1>5
\* A turn: the check, and the send.
LEMMA TurnIs ==
  ASSUME NEW k \in Nat, NEW answers \in AnswersType, NEW ready, Turn(k, answers, ready)
  PROVE  \E now :
           /\ now = Check(k, answers)
           /\ wait' = now.wait /\ checked' = now.checked
           /\ Send(now.data, since + k, ready)
           /\ link # "down" /\ link' = link /\ def' = def /\ noticed' = noticed
  BY DEF Turn, Connected

LEMMA SendIs ==
  ASSUME NEW ds, NEW t, NEW ready \in BOOLEAN, Send(ds, t, ready), link \in {"up", "fw"}
  PROVE  \/ t <= T /\ data' = ds /\ since' = t /\ count' = count /\ pending' = pending
         \/ /\ ~(t <= T) /\ count' = (count + 1) % Cycle
            /\ \/ link = "fw" /\ data' = ds /\ since' = t /\ pending' = pending
               \/ /\ link = "up" /\ ready /\ since' = 0 /\ pending' = FALSE
                  /\ data' = SendAll(ds, (count + 1) % Cycle)
               \/ link = "up" /\ ~ready /\ data' = ds /\ since' = 0 /\ pending' = TRUE
<1>1. CASE t <= T
  BY <1>1 DEF Send
<1>2. CASE ~(t <= T)
  <2>1. count' = (count + 1) % Cycle
    BY <1>2 DEF Send
  <2>2. CASE link = "fw"
    BY <1>2, <2>1, <2>2 DEF Send
  <2>3. CASE link = "up" /\ ready
    BY <1>2, <2>1, <2>3 DEF Send
  <2>4. CASE link = "up" /\ ~ready
    BY <1>2, <2>1, <2>4 DEF Send
  <2> QED BY <2>2, <2>3, <2>4
<1> QED BY <1>1, <1>2

LEMMA SendAllIs ==
  ASSUME NEW ds, NEW c, NEW i \in Measurement
  PROVE  /\ c % def[i].interval = 0 => SendAll(ds, c)[i] = Reset(ds[i])
         /\ c % def[i].interval # 0 => SendAll(ds, c)[i] = ds[i]
  BY DEF SendAll, Due

LEMMA SendAllType ==
  ASSUME NEW ds, NEW c, def \in [Measurement -> Definition],
         \A i \in Measurement : ds[i] \in InRange(def[i])
  PROVE  /\ SendAll(ds, c) = [i \in Measurement |-> SendAll(ds, c)[i]]
         /\ \A i \in Measurement : SendAll(ds, c)[i] \in InRange(def[i])
<1>1. SendAll(ds, c) = [i \in Measurement |-> SendAll(ds, c)[i]]
  BY DEF SendAll
<1>2. ASSUME NEW i \in Measurement PROVE SendAll(ds, c)[i] \in InRange(def[i])
  <2>1. Reset(ds[i]) \in InRange(def[i])
    BY ResetFields
  <2> QED BY <2>1, SendAllIs
<1> QED BY <1>1, <1>2

LEMMA TypesTurn ==
  ASSUME Types, Bound, NEW k \in Nat, k = 1 \/ k <= MaxLate, NEW answers \in AnswersType,
         NEW ready \in BOOLEAN, Turn(k, answers, ready), faults' \in FaultsType
  PROVE  Types'
<1>1. PICK now : /\ now = Check(k, answers)
                 /\ wait' = now.wait /\ checked' = now.checked
                 /\ Send(now.data, since + k, ready)
                 /\ link # "down" /\ link' = link /\ def' = def /\ noticed' = noticed
  BY TurnIs
<1>2. /\ now.wait \in 0..Huge /\ now.checked \in 0..(Huge - 1)
      /\ now.data = [i \in Measurement |-> now.data[i]]
      /\ \A i \in Measurement : now.data[i] \in InRange(def[i])
  BY <1>1, CheckIs
<1>3. /\ def \in [Measurement -> Definition] /\ count \in {0, 1} /\ link \in {"up", "fw"}
      /\ noticed \in BOOLEAN /\ pending \in BOOLEAN /\ since \in 0..(2 * T + MaxLate)
  BY <1>1 DEF Types
<1>4. /\ T \in Nat /\ MaxLate \in Nat
  BY SamplingAssumption
<1>5. (count + 1) % Cycle \in {0, 1}
  BY <1>3, SMT DEF Cycle
<1>6. /\ link' \in {"up", "down", "fw"} /\ noticed' \in BOOLEAN /\ def' \in [Measurement -> Definition]
      /\ wait' \in 0..Huge /\ checked' \in 0..(Huge - 1)
  BY <1>1, <1>2, <1>3
<1>7. CASE since + k <= T /\ data' = now.data /\ since' = since + k /\ count' = count /\ pending' = pending
  <2>1. since' \in 0..(2 * T + MaxLate)
    BY <1>3, <1>4, <1>7
  <2> QED BY <1>1, <1>2, <1>3, <1>6, <1>7, <2>1 DEF Types
<1>8. CASE /\ count' = (count + 1) % Cycle
           /\ link = "fw" /\ data' = now.data /\ since' = since + k /\ pending' = pending
  <2>1. since < 2 * T
    BY <1>8 DEF Bound
  <2>2. since' \in 0..(2 * T + MaxLate)
    BY <1>3, <1>4, <1>8, <2>1
  <2> QED BY <1>1, <1>2, <1>3, <1>5, <1>6, <1>8, <2>2 DEF Types
<1>9. CASE /\ count' = (count + 1) % Cycle
           /\ since' = 0 /\ pending' \in BOOLEAN
           /\ data' = now.data \/ data' = SendAll(now.data, (count + 1) % Cycle)
  <2>1. since' \in 0..(2 * T + MaxLate)
    BY <1>4, <1>9
  <2>2. /\ data' = [i \in Measurement |-> data'[i]]
        /\ \A i \in Measurement : data'[i] \in InRange(def[i])
    <3>1. CASE data' = now.data
      BY <1>2, <3>1
    <3>2. CASE data' = SendAll(now.data, (count + 1) % Cycle)
      BY <1>2, <1>3, <3>2, SendAllType
    <3> QED BY <1>9, <3>1, <3>2
  <2> QED BY <1>1, <1>5, <1>6, <1>9, <2>1, <2>2 DEF Types
<1>10. \/ since + k <= T /\ data' = now.data /\ since' = since + k /\ count' = count /\ pending' = pending
       \/ /\ ~(since + k <= T) /\ count' = (count + 1) % Cycle
          /\ \/ link = "fw" /\ data' = now.data /\ since' = since + k /\ pending' = pending
             \/ /\ link = "up" /\ ready /\ since' = 0 /\ pending' = FALSE
                /\ data' = SendAll(now.data, (count + 1) % Cycle)
             \/ link = "up" /\ ~ready /\ data' = now.data /\ since' = 0 /\ pending' = TRUE
  BY <1>1, <1>3, SendIs
<1> QED BY <1>7, <1>8, <1>9, <1>10

-----------------------------------------------------------------------------
\* The end of an interval, for one measurement.
LEMMA SentHeld ==
  ASSUME NEW d \in Definition, NEW m \in InRange(d), NEW v \in Nat, NEW e \in Nat,
         HeldAt(d, m, d.interval * T + 1, v, e)
  PROVE  HeldAt(d, Reset(m), 0, v, e)
<1> SUFFICES ASSUME SoundDef(d)
             PROVE  InStep(d, Reset(m), 0, v - e) /\ (Reset(m).collecting => v <= 4 * T)
  BY DEF HeldAt
<1>1. InStep(d, m, d.interval * T + 1, v - e) /\ v - e \in Int
  BY DEF HeldAt
<1>2. PICK h : h = Reset(m)
  OBVIOUS
<1>3. InStep(d, h, 0, v - e) /\ ~h.collecting
  BY <1>1, <1>2, ResetInStep
<1> QED BY <1>2, <1>3

LEMMA SentTimely ==
  ASSUME NEW d \in Definition, SoundDef(d), NEW m \in InRange(d), NEW v \in Nat, NEW e \in Nat,
         HeldAt(d, m, d.interval * T + 1, v, e), TimelyAt(d, m, d.interval * T + 1, v, e)
  PROVE  TimelyAt(d, Reset(m), 0, v, e) /\ m.collected = d.samples
<1>1. /\ InStep(d, m, d.interval * T + 1, v - e) /\ InTime(d, m, d.interval * T + 1, v - e)
      /\ v - e \in Int /\ v - e <= v - e
  BY DEF HeldAt, TimelyAt
<1>2. PICK h : h = Reset(m)
  OBVIOUS
<1>3. InTime(d, h, 0, v - e) /\ m.collected = d.samples
  BY <1>1, <1>2, ResetInTime
<1> QED BY <1>2, <1>3 DEF TimelyAt

LEMMA EarlierHeld ==
  ASSUME NEW d \in Definition, NEW m \in InRange(d), NEW v \in Nat, NEW e \in Nat, NEW c \in Nat,
         NEW t \in Nat, NEW u \in Nat, u <= t, e <= c, HeldAt(d, m, t, v, e)
  PROVE  HeldAt(d, m, u, v, c)
<1>1. u + (v - c) <= t + (v - e) /\ v - c \in Int /\ v - e \in Int
  OBVIOUS
<1> QED BY <1>1, InStepEarlier DEF HeldAt

LEMMA EarlierTimely ==
  ASSUME NEW d \in Definition, NEW m \in InRange(d), NEW v \in Nat, NEW e \in Nat, NEW c \in Nat,
         NEW t \in Nat, NEW u \in Nat, u <= t, e <= c, TimelyAt(d, m, t, v, e)
  PROVE  TimelyAt(d, m, u, v, c)
<1>1. u + (v - c) <= t + (v - e) /\ v - c \in Int /\ v - e \in Int
  OBVIOUS
<1> QED BY <1>1, InTimeEarlier DEF TimelyAt
-----------------------------------------------------------------------------
\* What a turn does to one measurement, when nothing holds the turn up: it goes
\* on, or the interval ends and it is sent.
Moves(i, m, v, e) ==
    \/ /\ data'[i] = m /\ wait' = v /\ checked' = e
       /\ Time(def[i], since', count') = Time(def[i], since, count) + 1
    \/ /\ data'[i] = Reset(m) /\ wait' = v /\ checked' = e
       /\ Time(def[i], since, count) + 1 = def[i].interval * T + 1
       /\ Time(def[i], since', count') = 0
    \/ /\ data'[i] = m /\ wait' = v /\ checked' = e
       /\ Time(def[i], since', count') = Time(def[i], since, count)

LEMMA TurnMoves ==
  ASSUME Types, Kept, faults.had \cap {"late", "fw"} = {}, NEW answers \in AnswersType,
         Turn(1, answers, TRUE)
  PROVE  /\ since <= T /\ since' <= T /\ pending' => pending
         /\ link # "fw" /\ link' = link /\ def' = def
         /\ \A i \in Measurement :
              \E m \in InRange(def[i]), v \in Nat, e \in Nat :
                  /\ Turned(def[i], data[i], Time(def[i], since, count) + 1,
                            answers[i].begin, answers[i].read, wait, checked, m, v, e)
                  /\ Moves(i, m, v, e)
<1>1. PICK now : /\ now = Check(1, answers)
                 /\ wait' = now.wait /\ checked' = now.checked
                 /\ Send(now.data, since + 1, TRUE)
                 /\ link # "down" /\ link' = link /\ def' = def /\ noticed' = noticed
  BY TurnIs
<1>2. /\ now.wait \in 0..Huge /\ now.checked \in 0..(Huge - 1)
      /\ \A i \in Measurement : now.data[i] \in InRange(def[i])
      /\ \A i \in Measurement :
             Turned(def[i], data[i], Time(def[i], since + 1, count),
                    answers[i].begin, answers[i].read, wait, checked,
                    now.data[i], now.wait, now.checked)
  BY <1>1, CheckIs
<1>3. /\ def \in [Measurement -> Definition] /\ count \in {0, 1} /\ link \in {"up", "fw"}
      /\ since \in Nat /\ T \in Nat /\ pending \in BOOLEAN
  BY <1>1, SamplingAssumption DEF Types
<1>4. link # "fw" /\ since <= T
  <2>1. "fw" \notin faults.had
    OBVIOUS
  <2>2. link # "fw"
    BY <2>1 DEF Kept
  <2>3. ~(since > T)
    BY DEF Kept
  <2> QED BY <1>3, <2>2, <2>3
<1>5. now.wait \in Nat /\ now.checked \in Nat
  BY <1>2, SamplingAssumption
<1>6. \/ since + 1 <= T /\ data' = now.data /\ since' = since + 1 /\ count' = count /\ pending' = pending
      \/ /\ ~(since + 1 <= T) /\ count' = (count + 1) % Cycle /\ since' = 0 /\ pending' = FALSE
         /\ data' = SendAll(now.data, (count + 1) % Cycle)
  <2>1. TRUE \in BOOLEAN
    OBVIOUS
  <2> QED BY <1>1, <1>3, <1>4, <2>1, SendIs
<1>7. since' <= T /\ (pending' => pending)
  BY <1>3, <1>6
<1>8. ASSUME NEW i \in Measurement
      PROVE  \E m \in InRange(def[i]), v \in Nat, e \in Nat :
                 /\ Turned(def[i], data[i], Time(def[i], since, count) + 1,
                           answers[i].begin, answers[i].read, wait, checked, m, v, e)
                 /\ Moves(i, m, v, e)
  <2>1. def[i] \in Definition
    BY <1>3
  <2>2. Time(def[i], since + 1, count) = Time(def[i], since, count) + 1
    BY <1>3, <2>1, TimeIs
  <2>3. Turned(def[i], data[i], Time(def[i], since, count) + 1,
               answers[i].begin, answers[i].read, wait, checked,
               now.data[i], now.wait, now.checked)
    BY <1>2, <2>2
  <2>4. Moves(i, now.data[i], now.wait, now.checked)
    <3>1. CASE data' = now.data /\ since' = since + 1 /\ count' = count
      BY <1>1, <2>2, <3>1 DEF Moves
    <3>2. CASE /\ ~(since + 1 <= T) /\ count' = (count + 1) % Cycle /\ since' = 0
               /\ data' = SendAll(now.data, (count + 1) % Cycle)
      <4>1. since = T
        BY <1>3, <1>4, <3>2
      <4>2. /\ count' % def[i].interval = 0 =>
                   Time(def[i], T + 1, count) = def[i].interval * T + 1 /\ Time(def[i], 0, count') = 0
            /\ count' % def[i].interval # 0 =>
                   Time(def[i], 0, count') = Time(def[i], T + 1, count) - 1
        BY <1>3, <2>1, <3>2, TimeAtSend
      <4>3. /\ count' % def[i].interval = 0 => data'[i] = Reset(now.data[i])
            /\ count' % def[i].interval # 0 => data'[i] = now.data[i]
        BY <3>2, SendAllIs
      <4>4. Time(def[i], since, count) \in Nat
        BY <1>3, <2>1, TimeIs
      <4>5. CASE count' % def[i].interval = 0
        <5>1. /\ Time(def[i], since, count) + 1 = def[i].interval * T + 1
              /\ Time(def[i], since', count') = 0
          BY <2>2, <3>2, <4>1, <4>2, <4>5
        <5> QED BY <1>1, <4>3, <4>5, <5>1 DEF Moves
      <4>6. CASE count' % def[i].interval # 0
        <5>1. Time(def[i], since', count') = Time(def[i], since, count)
          BY <2>2, <3>2, <4>1, <4>2, <4>4, <4>6
        <5> QED BY <1>1, <4>3, <4>6, <5>1 DEF Moves
      <4> QED BY <4>5, <4>6
    <3> QED BY <1>6, <3>1, <3>2
  <2>5. now.data[i] \in InRange(def[i])
    BY <1>2
  <2> QED BY <1>5, <2>3, <2>4, <2>5
<1> QED BY <1>1, <1>4, <1>7, <1>8

\* Which sensors fail in a turn, and what there has been of faults after it.
TurnOf(answers) ==
    /\ faults.had \subseteq faults'.had
    /\ faults'.had \subseteq {"down"} =>
           \A i \in Measurement : answers[i].begin = "SUCCESS" /\ answers[i].read = "SUCCESS"
    /\ faults'.had \subseteq {"begin", "read", "down"} =>
           \A i \in Measurement : answers[i].begin # "BUSY" /\ answers[i].read # "BUSY"

LEMMA TurnKeeps ==
  ASSUME IInv, NEW answers \in AnswersType, Turn(1, answers, TRUE), TurnOf(answers),
         Kept'
  PROVE  Unlocked' /\ Timely' /\ AllCounted'
<1> DEFINE Calm == {"begin", "busy", "read", "down"}
<1>1. Types /\ Kept /\ Unlocked /\ Timely /\ AllCounted
  BY DEF IInv
<1>2. ASSUME faults'.had \subseteq Calm, NEW i \in Measurement
      PROVE  /\ HeldAt(def'[i], data'[i], Time(def'[i], since', count'), wait', checked')
             /\ Sound(i)' /\ Prompt(def[i])' =>
                  TimelyAt(def'[i], data'[i], Time(def'[i], since', count'), wait', checked')
             /\ Sound(i)' /\ faults'.had \subseteq {"down"} => Counted(def'[i], data'[i])
  <2>1. faults.had \subseteq Calm /\ faults.had \cap {"late", "fw"} = {}
    BY <1>2 DEF TurnOf
  <2>2. /\ since <= T /\ def' = def
        /\ \E m \in InRange(def[i]), v \in Nat, e \in Nat :
             /\ Turned(def[i], data[i], Time(def[i], since, count) + 1,
                       answers[i].begin, answers[i].read, wait, checked, m, v, e)
             /\ Moves(i, m, v, e)
    <3>1. since <= T
      <4>1. since \in Nat /\ T \in Nat /\ ~(since > T)
        BY <1>1, <2>1, SamplingAssumption DEF Types, Kept
      <4> QED BY <4>1
    <3>2. def' = def
      BY <1>1, <2>1, TurnMoves
    <3>3. \A j \in Measurement :
              \E m \in InRange(def[j]), v \in Nat, e \in Nat :
                  /\ Turned(def[j], data[j], Time(def[j], since, count) + 1,
                            answers[j].begin, answers[j].read, wait, checked, m, v, e)
                  /\ Moves(j, m, v, e)
      BY <1>1, <2>1, TurnMoves
    <3> QED BY <3>1, <3>2, <3>3
  <2>3. PICK m \in InRange(def[i]), v \in Nat, e \in Nat :
             /\ Turned(def[i], data[i], Time(def[i], since, count) + 1,
                       answers[i].begin, answers[i].read, wait, checked, m, v, e)
             /\ Moves(i, m, v, e)
    BY <2>2
  <2>4. /\ def[i] \in Definition /\ data[i] \in InRange(def[i])
        /\ answers[i].begin \in Says /\ answers[i].read \in Says
        /\ since \in Nat /\ count \in {0, 1} /\ wait \in Nat /\ checked \in Nat
    BY <1>1, SamplingAssumption DEF Types, AnswersType
  <2>5. PICK t \in Nat : t = Time(def[i], since, count)
    BY <2>4, TimeIs
  <2>6. t + 1 <= def[i].interval * T + 1
    <3>1. t <= def[i].interval * T
      BY <2>2, <2>4, <2>5, TimeIs
    <3>2. def[i].interval * T \in Nat
      BY <2>4, SpanIs
    <3> QED BY <3>1, <3>2
  <2>7. HeldAt(def[i], data[i], t, wait, checked)
    BY <1>1, <2>1, <2>5 DEF Unlocked, Only
  <2>8. HeldAt(def[i], m, t + 1, v, e)
    BY <2>3, <2>4, <2>5, <2>6, <2>7, TurnHeld
  <2>9. Sound(i) /\ Prompt(def[i])' => TimelyAt(def[i], data[i], t, wait, checked) /\ TimelyAt(def[i], m, t + 1, v, e)
    <3> SUFFICES ASSUME Sound(i), Prompt(def[i])'
                 PROVE  TimelyAt(def[i], data[i], t, wait, checked) /\ TimelyAt(def[i], m, t + 1, v, e)
      OBVIOUS
    <3>1. \/ faults'.had \subseteq {"down"}
          \/ def[i].takes >= 1 /\ faults'.had \subseteq {"begin", "read", "down"}
      BY <2>2 DEF Prompt, Only
    <3>2. Prompt(def[i])
      BY <3>1 DEF Prompt, Only, TurnOf
    <3>3. TimelyAt(def[i], data[i], t, wait, checked)
      BY <1>1, <2>5, <3>2 DEF Timely
    <3>4. SoundDef(def[i])
      BY DEF Sound
    <3>5. /\ answers[i].begin # "BUSY" /\ answers[i].read # "BUSY"
          /\ answers[i].begin = "SUCCESS" \/ def[i].takes >= 1
      BY <3>1 DEF TurnOf
    <3> QED BY <2>3, <2>4, <2>5, <2>6, <2>7, <3>3, <3>4, <3>5, TurnTimely
  <2>10. Sound(i) /\ faults'.had \subseteq {"down"} => Counted(def[i], data[i]) /\ Counted(def[i], m)
    <3> SUFFICES ASSUME Sound(i), faults'.had \subseteq {"down"}
                 PROVE  Counted(def[i], data[i]) /\ Counted(def[i], m)
      OBVIOUS
    <3>1. faults.had \subseteq {"down"}
      BY DEF TurnOf
    <3>2. Counted(def[i], data[i])
      BY <1>1, <3>1 DEF AllCounted, Only
    <3>3. TimelyAt(def[i], data[i], t, wait, checked)
      BY <1>1, <2>5, <3>1 DEF Timely, Prompt, Only
    <3>4. SoundDef(def[i])
      BY DEF Sound
    <3>5. answers[i].begin = "SUCCESS" /\ answers[i].read = "SUCCESS"
      BY DEF TurnOf
    <3>6. Turned(def[i], data[i], t + 1, "SUCCESS", "SUCCESS", wait, checked, m, v, e)
      BY <2>3, <2>5, <3>5
    <3>7. Counted(def[i], m)
      BY <2>4, <2>6, <2>7, <3>2, <3>3, <3>4, <3>6, TurnCounted
    <3> QED BY <3>2, <3>7
  <2>11. (Sound(i)' <=> Sound(i)) /\ (Sound(i) <=> SoundDef(def[i])) /\ def'[i] = def[i]
         /\ (faults'.had \subseteq {"down"} => Prompt(def[i])')
    BY <2>2 DEF Sound, Prompt, Only
  <2>12. CASE /\ data'[i] = m /\ wait' = v /\ checked' = e
              /\ Time(def[i], since', count') = t + 1
    BY <2>8, <2>9, <2>10, <2>11, <2>12
  <2>13. CASE /\ data'[i] = Reset(m) /\ wait' = v /\ checked' = e
              /\ t + 1 = def[i].interval * T + 1
              /\ Time(def[i], since', count') = 0
    <3>1. HeldAt(def[i], m, def[i].interval * T + 1, v, e)
      BY <2>8, <2>13
    <3>2. HeldAt(def[i], Reset(m), 0, v, e)
      BY <2>4, <3>1, SentHeld
    <3>3. Sound(i) /\ Prompt(def[i])' => TimelyAt(def[i], Reset(m), 0, v, e) /\ m.collected = def[i].samples
      <4> SUFFICES ASSUME Sound(i), Prompt(def[i])'
                   PROVE  TimelyAt(def[i], Reset(m), 0, v, e) /\ m.collected = def[i].samples
        OBVIOUS
      <4>1. TimelyAt(def[i], m, def[i].interval * T + 1, v, e)
        BY <2>9, <2>13
      <4> QED BY <2>4, <2>11, <3>1, <4>1, SentTimely
    <3>4. Sound(i) /\ faults'.had \subseteq {"down"} => Counted(def[i], Reset(m))
      <4> SUFFICES ASSUME Sound(i), faults'.had \subseteq {"down"}
                   PROVE  Counted(def[i], Reset(m))
        OBVIOUS
      <4>1. m.samples = m.collected /\ m.collected = def[i].samples
        BY <2>10, <2>11, <3>3 DEF Counted
      <4>2. PICK h : h = Reset(m)
        OBVIOUS
      <4>3. h.collected = 0 /\ h.samples = 0 /\ h.sent = m.samples
        BY <2>4, <4>2, ResetFields
      <4> QED BY <4>1, <4>2, <4>3 DEF Counted
    <3> QED BY <2>11, <2>13, <3>2, <3>3, <3>4
  <2>14. CASE /\ data'[i] = m /\ wait' = v /\ checked' = e
              /\ Time(def[i], since', count') = t
    <3>1. t <= t + 1 /\ t + 1 \in Nat /\ e <= e
      OBVIOUS
    <3>2. HeldAt(def[i], m, t, v, e)
      BY <2>4, <2>8, <3>1, EarlierHeld
    <3>3. Sound(i) /\ Prompt(def[i])' => TimelyAt(def[i], m, t, v, e)
      BY <2>4, <2>9, <3>1, EarlierTimely
    <3> QED BY <2>10, <2>11, <2>14, <3>2, <3>3
  <2>15. \/ /\ data'[i] = m /\ wait' = v /\ checked' = e
            /\ Time(def[i], since', count') = t + 1
         \/ /\ data'[i] = Reset(m) /\ wait' = v /\ checked' = e
            /\ t + 1 = def[i].interval * T + 1
            /\ Time(def[i], since', count') = 0
         \/ /\ data'[i] = m /\ wait' = v /\ checked' = e
            /\ Time(def[i], since', count') = t
    BY <2>3, <2>5 DEF Moves
  <2> QED BY <2>12, <2>13, <2>14, <2>15
<1>3. Unlocked'
  BY <1>2 DEF Unlocked, Only
<1>4. Timely'
  <2>1. ASSUME NEW i \in Measurement, Sound(i)', Prompt(def[i])'
        PROVE  TimelyAt(def'[i], data'[i], Time(def'[i], since', count'), wait', checked')
    <3>1. faults'.had \subseteq Calm
      BY <2>1 DEF Prompt, Only
    <3> QED BY <1>2, <2>1, <3>1
  <2> QED BY <2>1 DEF Timely
<1>5. AllCounted'
  <2>1. ASSUME faults'.had \subseteq {"down"}, NEW i \in Measurement, Sound(i)'
        PROVE  Counted(def'[i], data'[i])
    <3>1. faults'.had \subseteq Calm
      BY <2>1
    <3> QED BY <1>2, <2>1, <3>1
  <2> QED BY <2>1 DEF AllCounted, Only
<1> QED BY <1>3, <1>4, <1>5
-----------------------------------------------------------------------------
(***************************************************************************)
(* The actions.                                                            *)
(***************************************************************************)
LEMMA AnswersAre ==
  ASSUME NEW b, NEW r, b = NoOne \/ b \in Answer, r = NoOne \/ r \in Answer
  PROVE  /\ Answers(b, r) \in AnswersType
         /\ b = NoOne => \A i \in Measurement : Answers(b, r)[i].begin = "SUCCESS"
         /\ r = NoOne => \A i \in Measurement : Answers(b, r)[i].read = "SUCCESS"
         /\ b.resp # "BUSY" => \A i \in Measurement : Answers(b, r)[i].begin # "BUSY"
         /\ r.resp # "BUSY" => \A i \in Measurement : Answers(b, r)[i].read # "BUSY"
<1>1. b.resp \in Says /\ r.resp \in Says
  BY DEF NoOne, Answer, Says
<1>2. ASSUME NEW i \in Measurement
      PROVE  /\ Answers(b, r)[i] = [begin |-> IF b.who = i THEN b.resp ELSE "SUCCESS",
                                    read |-> IF r.who = i THEN r.resp ELSE "SUCCESS"]
             /\ Answers(b, r)[i].begin = IF b.who = i THEN b.resp ELSE "SUCCESS"
             /\ Answers(b, r)[i].read = IF r.who = i THEN r.resp ELSE "SUCCESS"
  BY DEF Answers
<1>3. Answers(b, r) \in AnswersType
  BY <1>1, <1>2 DEF Answers, AnswersType, Says
<1>4. NoOne.resp = "SUCCESS"
  BY DEF NoOne
<1> QED BY <1>2, <1>3, <1>4

\* A fault is one of Faults, and is remembered.
LEMMA FaultIs ==
  ASSUME Types, NEW f, Fault(f)
  PROVE  faults' \in FaultsType /\ faults'.had = faults.had \cup {f}
<1>1. f \in AllFaults /\ faults.left \in Nat /\ faults.left > 0 /\ faults.had \in SUBSET AllFaults
  BY SamplingAssumption DEF Fault, Types, FaultsType
<1>2. faults' = [left |-> faults.left - 1, had |-> faults.had \cup {f}]
  BY DEF Fault
<1> QED BY <1>1, <1>2 DEF FaultsType

LEMMA KeptTurn ==
  ASSUME Types, Kept, NEW k \in Nat, NEW answers \in AnswersType, NEW ready \in BOOLEAN,
         Turn(k, answers, ready), faults.had \subseteq faults'.had,
         k = 1 \/ "late" \in faults'.had, ready \/ "notready" \in faults'.had
  PROVE  Kept'
<1>1. PICK now : /\ now = Check(k, answers)
                 /\ wait' = now.wait /\ checked' = now.checked
                 /\ Send(now.data, since + k, ready)
                 /\ link # "down" /\ link' = link /\ def' = def /\ noticed' = noticed
  BY TurnIs
<1>2. link \in {"up", "fw"} /\ since \in Nat /\ T \in Nat
  BY <1>1, SamplingAssumption DEF Types
<1>3. /\ link = "fw" => "fw" \in faults.had
      /\ pending => "notready" \in faults.had
      /\ since > T => faults.had \cap {"late", "fw"} # {}
  BY DEF Kept
<1>4. /\ \/ since' = since + k /\ (since' <= T \/ link = "fw")
         \/ since' = 0
      /\ pending' => pending \/ ~ready
  BY <1>1, <1>2, SendIs
<1>5. since' > T => faults'.had \cap {"late", "fw"} # {}
  BY <1>2, <1>3, <1>4
<1> QED BY <1>1, <1>3, <1>4, <1>5 DEF Kept

\* The turns in which the sensors answer as they do.
LEMMA TurnStep ==
  ASSUME IInv, Bound, NEW answers \in AnswersType, Turn(1, answers, TRUE), TurnOf(answers),
         faults' \in FaultsType
  PROVE  IInv'
<1>1. Types /\ Kept
  BY DEF IInv
<1>2. TRUE \in BOOLEAN /\ 1 \in Nat
  OBVIOUS
<1>3. Types'
  BY <1>1, <1>2, TypesTurn
<1>4. faults.had \subseteq faults'.had
  BY DEF TurnOf
<1>5. Kept'
  BY <1>1, <1>2, <1>4, KeptTurn
<1>6. Unlocked' /\ Timely' /\ AllCounted'
  BY <1>5, TurnKeeps
<1> QED BY <1>3, <1>5, <1>6 DEF IInv

\* After some faults, nothing is said of the measurements.
LEMMA NothingSaid ==
  ASSUME NEW f \in AllFaults \ {"begin", "busy", "read", "down"}, f \in faults'.had
  PROVE  Unlocked' /\ Timely' /\ AllCounted'
<1>1. /\ ~(faults'.had \subseteq {"begin", "busy", "read", "down"})
      /\ ~(faults'.had \subseteq {"begin", "read", "down"})
      /\ ~(faults'.had \subseteq {"down"})
  OBVIOUS
<1>2. Unlocked'
  BY <1>1 DEF Unlocked, Only
<1>3. Timely'
  BY <1>1 DEF Timely, Prompt, Only
<1>4. AllCounted'
  BY <1>1 DEF AllCounted, Only
<1> QED BY <1>2, <1>3, <1>4

\* Where a step leaves the measurements alone, and time is no later.
LEMMA Unmoved ==
  ASSUME IInv, Types', faults.had \subseteq faults'.had, UNCHANGED <<def, data, wait, count>>,
         since' <= since, checked <= checked'
  PROVE  Unlocked' /\ Timely' /\ AllCounted'
<1>1. Types /\ Unlocked /\ Timely /\ AllCounted
  BY DEF IInv
<1>2. /\ count \in {0, 1} /\ since \in Nat /\ since' \in Nat
      /\ checked \in Nat /\ checked' \in Nat /\ wait \in Nat
  BY <1>1, SamplingAssumption DEF Types
<1>3. ASSUME NEW i \in Measurement
      PROVE  /\ def[i] \in Definition /\ data[i] \in InRange(def[i])
             /\ Time(def[i], since, count) \in Nat /\ Time(def[i], since', count) \in Nat
             /\ Time(def[i], since', count) <= Time(def[i], since, count)
  <2>1. def[i] \in Definition /\ data[i] \in InRange(def[i])
    BY <1>1 DEF Types
  <2>2. Time(def[i], since, count) \in Nat /\ Time(def[i], since', count) \in Nat
    BY <1>2, <2>1, TimeIs
  <2>3. Time(def[i], since', count) <= Time(def[i], since, count)
    BY <1>2, <2>1, TimeGrows
  <2> QED BY <2>1, <2>2, <2>3
<1>4. Unlocked'
  <2>1. ASSUME faults'.had \subseteq {"begin", "busy", "read", "down"}, NEW i \in Measurement
        PROVE  HeldAt(def[i], data[i], Time(def[i], since', count), wait, checked')
    <3>1. HeldAt(def[i], data[i], Time(def[i], since, count), wait, checked)
      BY <1>1, <2>1 DEF Unlocked, Only
    <3> QED BY <1>2, <1>3, <3>1, EarlierHeld
  <2> QED BY <2>1 DEF Unlocked, Only
<1>5. Timely'
  <2>1. ASSUME NEW i \in Measurement, Sound(i), Prompt(def[i])'
        PROVE  TimelyAt(def[i], data[i], Time(def[i], since', count), wait, checked')
    <3>1. Prompt(def[i])
      BY <2>1 DEF Prompt, Only
    <3>2. TimelyAt(def[i], data[i], Time(def[i], since, count), wait, checked)
      BY <1>1, <2>1, <3>1 DEF Timely
    <3> QED BY <1>2, <1>3, <3>2, EarlierTimely
  <2>2. \A i \in Measurement : Sound(i)' <=> Sound(i)
    BY DEF Sound
  <2> QED BY <2>1, <2>2 DEF Timely
<1>6. AllCounted'
  <2>1. \A i \in Measurement : Sound(i)' <=> Sound(i)
    BY DEF Sound
  <2>2. faults'.had \subseteq {"down"} => faults.had \subseteq {"down"}
    OBVIOUS
  <2> QED BY <1>1, <2>1, <2>2 DEF AllCounted, Only
<1> QED BY <1>4, <1>5, <1>6
LEMMA FairStep ==
  ASSUME IInv, Bound, Fair PROVE IInv'
<1>1. PICK answers : answers = Answers(NoOne, NoOne)
  OBVIOUS
<1>2. /\ answers \in AnswersType
      /\ \A i \in Measurement : answers[i].begin = "SUCCESS" /\ answers[i].read = "SUCCESS"
  BY <1>1, AnswersAre
<1>3. Turn(1, answers, TRUE) /\ faults' = faults
  BY <1>1 DEF Fair
<1>4. faults' \in FaultsType
  BY <1>3 DEF IInv, Types
<1>5. TurnOf(answers)
  BY <1>2, <1>3 DEF TurnOf
<1> QED BY <1>2, <1>3, <1>4, <1>5, TurnStep

LEMMA LateStep ==
  ASSUME IInv, Bound, Late PROVE IInv'
<1>1. PICK k \in 2..MaxLate : Turn(k, Answers(NoOne, NoOne), TRUE) /\ Fault("late")
  BY DEF Late
<1>2. Types /\ Kept
  BY DEF IInv
<1>3. faults' \in FaultsType /\ faults'.had = faults.had \cup {"late"}
  BY <1>1, <1>2, FaultIs
<1>4. PICK answers : answers = Answers(NoOne, NoOne)
  OBVIOUS
<1>5. answers \in AnswersType
  BY <1>4, AnswersAre
<1>6. k \in Nat /\ k <= MaxLate /\ TRUE \in BOOLEAN
  BY SamplingAssumption
<1>7. Types'
  BY <1>1, <1>2, <1>3, <1>4, <1>5, <1>6, TypesTurn
<1>8. Kept'
  BY <1>1, <1>2, <1>3, <1>4, <1>5, <1>6, KeptTurn
<1>9. "late" \in AllFaults \ {"begin", "busy", "read", "down"}
  BY DEF AllFaults
<1>10. Unlocked' /\ Timely' /\ AllCounted'
  BY <1>3, <1>9, NothingSaid
<1> QED BY <1>7, <1>8, <1>10 DEF IInv

LEMMA FailureIs ==
  ASSUME NEW a \in Answer, NEW f, Failure(a, f)
  PROVE  a.resp \in {"ERROR", "BUSY"} /\ Fault(IF a.resp = "BUSY" THEN "busy" ELSE f)
  BY DEF Failure, Answer

LEMMA BeginStep ==
  ASSUME IInv, Bound, BeginFails PROVE IInv'
<1>1. PICK b \in Answer : Turn(1, Answers(b, NoOne), TRUE) /\ Failure(b, "begin")
  BY DEF BeginFails
<1>2. Types
  BY DEF IInv
<1>3. PICK f : f = IF b.resp = "BUSY" THEN "busy" ELSE "begin"
  OBVIOUS
<1>4. Fault(f) /\ b.resp \in {"ERROR", "BUSY"}
  BY <1>1, <1>3, FailureIs
<1>5. faults' \in FaultsType /\ faults'.had = faults.had \cup {f}
  BY <1>2, <1>4, FaultIs
<1>6. PICK answers : answers = Answers(b, NoOne)
  OBVIOUS
<1>7. /\ answers \in AnswersType
      /\ \A i \in Measurement : answers[i].read = "SUCCESS"
      /\ b.resp # "BUSY" => \A i \in Measurement : answers[i].begin # "BUSY"
  BY <1>6, AnswersAre
<1>8. f \in {"busy", "begin"} /\ (b.resp = "BUSY" => f = "busy")
  BY <1>3
<1>9. TurnOf(answers)
  BY <1>5, <1>7, <1>8 DEF TurnOf
<1> QED BY <1>1, <1>5, <1>6, <1>7, <1>9, TurnStep

LEMMA ReadStep ==
  ASSUME IInv, Bound, ReadFails PROVE IInv'
<1>1. PICK r \in Answer : Turn(1, Answers(NoOne, r), TRUE) /\ Failure(r, "read")
  BY DEF ReadFails
<1>2. Types
  BY DEF IInv
<1>3. PICK f : f = IF r.resp = "BUSY" THEN "busy" ELSE "read"
  OBVIOUS
<1>4. Fault(f) /\ r.resp \in {"ERROR", "BUSY"}
  BY <1>1, <1>3, FailureIs
<1>5. faults' \in FaultsType /\ faults'.had = faults.had \cup {f}
  BY <1>2, <1>4, FaultIs
<1>6. PICK answers : answers = Answers(NoOne, r)
  OBVIOUS
<1>7. /\ answers \in AnswersType
      /\ \A i \in Measurement : answers[i].begin = "SUCCESS"
      /\ r.resp # "BUSY" => \A i \in Measurement : answers[i].read # "BUSY"
  BY <1>6, AnswersAre
<1>8. f \in {"busy", "read"} /\ (r.resp = "BUSY" => f = "busy")
  BY <1>3
<1>9. TurnOf(answers)
  BY <1>5, <1>7, <1>8 DEF TurnOf
<1> QED BY <1>1, <1>5, <1>6, <1>7, <1>9, TurnStep

LEMMA NotReadyStep ==
  ASSUME IInv, Bound, NotReady PROVE IInv'
<1>1. Turn(1, Answers(NoOne, NoOne), FALSE) /\ Fault("notready")
  BY DEF NotReady
<1>2. Types /\ Kept
  BY DEF IInv
<1>3. faults' \in FaultsType /\ faults'.had = faults.had \cup {"notready"}
  BY <1>1, <1>2, FaultIs
<1>4. PICK answers : answers = Answers(NoOne, NoOne)
  OBVIOUS
<1>5. answers \in AnswersType
  BY <1>4, AnswersAre
<1>6. 1 \in Nat /\ FALSE \in BOOLEAN
  OBVIOUS
<1>7. Types'
  BY <1>1, <1>2, <1>3, <1>4, <1>5, <1>6, TypesTurn
<1>8. Kept'
  BY <1>1, <1>2, <1>3, <1>4, <1>5, <1>6, KeptTurn
<1>9. "notready" \in AllFaults \ {"begin", "busy", "read", "down"}
  BY DEF AllFaults
<1>10. Unlocked' /\ Timely' /\ AllCounted'
  BY <1>3, <1>9, NothingSaid
<1> QED BY <1>7, <1>8, <1>10 DEF IInv

LEMMA IteratedFields ==
  ASSUME NEW d \in Definition, NEW s \in InRange(d) PROVE Iterated(s) \in InRange(d)
<1>1. Skipped(s) \in InRange(d)
  BY SkippedFields
<1> QED BY <1>1 DEF Iterated, InRange

LEMMA IterateStep ==
  ASSUME IInv, IterateFails PROVE IInv'
<1>1. PICK i \in Measurement : data' = [data EXCEPT ![i] = Iterated(@)]
  BY DEF IterateFails
<1>2. Types /\ Kept
  BY DEF IInv
<1>3. Fault("iterate") /\ UNCHANGED <<def, since, checked, wait, count, link, noticed, pending>>
  BY DEF IterateFails
<1>4. faults' \in FaultsType /\ faults'.had = faults.had \cup {"iterate"}
  BY <1>2, <1>3, FaultIs
<1>5. data = [j \in Measurement |-> data[j]] /\ \A j \in Measurement : data[j] \in InRange(def[j])
      /\ def \in [Measurement -> Definition]
  BY <1>2 DEF Types
<1>6. \A j \in Measurement : data'[j] = IF j = i THEN Iterated(data[i]) ELSE data[j]
  BY <1>1, <1>5
<1>7. data' = [j \in Measurement |-> data'[j]]
  BY <1>1, <1>5
<1>8. Iterated(data[i]) \in InRange(def[i])
  BY <1>5, IteratedFields
<1>9. \A j \in Measurement : data'[j] \in InRange(def[j])
  BY <1>5, <1>6, <1>8
<1>10. Types'
  BY <1>2, <1>3, <1>4, <1>7, <1>9 DEF Types
<1>11. Kept'
  BY <1>2, <1>3, <1>4 DEF Kept
<1>12. "iterate" \in AllFaults \ {"begin", "busy", "read", "down"}
  BY DEF AllFaults
<1>13. Unlocked' /\ Timely' /\ AllCounted'
  BY <1>4, <1>12, NothingSaid
<1> QED BY <1>10, <1>11, <1>13 DEF IInv

LEMMA UnconnectedStep ==
  ASSUME IInv, Unconnected PROVE IInv'
<1>1. /\ noticed' = TRUE /\ pending' = FALSE
      /\ UNCHANGED <<def, data, since, checked, wait, count, link, faults>>
  BY DEF Unconnected
<1>2. Types /\ Kept
  BY DEF IInv
<1>3. Types'
  BY <1>1, <1>2 DEF Types
<1>4. Kept'
  BY <1>1, <1>2 DEF Kept
<1>5. since' <= since /\ checked <= checked'
  <2>1. since \in Nat /\ checked \in Nat
    BY <1>2, SamplingAssumption DEF Types
  <2> QED BY <1>1, <2>1
<1>6. Unlocked' /\ Timely' /\ AllCounted'
  BY <1>1, <1>3, <1>5, Unmoved
<1> QED BY <1>3, <1>4, <1>6 DEF IInv

LEMMA ReconnectedStep ==
  ASSUME IInv, Reconnected PROVE IInv'
<1>1. /\ noticed' = FALSE /\ since' = 0 /\ checked' = Min({checked + MaxLate, Huge - 1})
      /\ UNCHANGED <<def, data, wait, count, link, pending, faults>>
  BY DEF Reconnected
<1>2. Types /\ Kept
  BY DEF IInv
<1>3. since \in Nat /\ checked \in Nat /\ checked <= Huge - 1 /\ Huge \in Nat /\ MaxLate \in Nat /\ T \in Nat
  BY <1>2, SamplingAssumption DEF Types
<1>4. checked' \in 0..(Huge - 1) /\ checked <= checked'
  <2>1. checked + MaxLate \in Nat /\ Huge - 1 \in Nat
    BY <1>3
  <2>2. PICK e : e = Min({checked + MaxLate, Huge - 1})
    OBVIOUS
  <2>3. e \in Nat /\ e \in {checked + MaxLate, Huge - 1} /\ e <= Huge - 1
    BY <2>1, <2>2, LeastOfTwo
  <2>4. e \in 0..(Huge - 1) /\ checked <= e
    BY <1>3, <2>3
  <2> QED BY <1>1, <2>2, <2>4
<1>5. since' \in 0..(2 * T + MaxLate) /\ since' <= since /\ ~(since' > T)
  BY <1>1, <1>3
<1>6. Types'
  BY <1>1, <1>2, <1>4, <1>5 DEF Types
<1>7. Kept'
  BY <1>1, <1>2, <1>5 DEF Kept
<1>8. Unlocked' /\ Timely' /\ AllCounted'
  BY <1>1, <1>4, <1>5, <1>6, Unmoved
<1> QED BY <1>6, <1>7, <1>8 DEF IInv

LEMMA AckedStep ==
  ASSUME IInv, Acked PROVE IInv'
<1>1. /\ pending /\ data' = SendAll(data, count) /\ pending' = FALSE
      /\ UNCHANGED <<def, since, checked, wait, count, link, noticed, faults>>
  BY DEF Acked
<1>2. Types /\ Kept
  BY DEF IInv
<1>3. def \in [Measurement -> Definition] /\ \A i \in Measurement : data[i] \in InRange(def[i])
  BY <1>2 DEF Types
<1>4. /\ data' = [i \in Measurement |-> data'[i]]
      /\ \A i \in Measurement : data'[i] \in InRange(def[i])
  BY <1>1, <1>3, SendAllType
<1>5. Types'
  BY <1>1, <1>2, <1>4 DEF Types
<1>6. Kept'
  BY <1>1, <1>2 DEF Kept
<1>7. "notready" \in faults'.had /\ "notready" \in AllFaults \ {"begin", "busy", "read", "down"}
  BY <1>1, <1>2 DEF Kept, AllFaults
<1>8. Unlocked' /\ Timely' /\ AllCounted'
  BY <1>7, NothingSaid
<1> QED BY <1>5, <1>6, <1>8 DEF IInv

LEMMA LinkStep ==
  ASSUME IInv, Link PROVE IInv'
<1>1. /\ \/ link' \in {"up", "down"} /\ faults' = faults
         \/ link' = "down" /\ Fault("down")
         \/ link' = "fw" /\ Fault("fw")
      /\ UNCHANGED <<def, data, since, checked, wait, count, noticed, pending>>
  BY DEF Link
<1>2. Types /\ Kept
  BY DEF IInv
<1>3. /\ faults' \in FaultsType /\ faults.had \subseteq faults'.had
      /\ link' = "fw" => "fw" \in faults'.had
      /\ link' \in {"up", "down", "fw"}
  <2>1. CASE link' \in {"up", "down"} /\ faults' = faults
    BY <1>2, <2>1 DEF Types
  <2>2. CASE link' = "down" /\ Fault("down")
    BY <1>2, <2>2, FaultIs
  <2>3. CASE link' = "fw" /\ Fault("fw")
    BY <1>2, <2>3, FaultIs
  <2> QED BY <1>1, <2>1, <2>2, <2>3
<1>4. Types'
  BY <1>1, <1>2, <1>3 DEF Types
<1>5. Kept'
  BY <1>1, <1>2, <1>3 DEF Kept
<1>6. since' <= since /\ checked <= checked'
  <2>1. since \in Nat /\ checked \in Nat
    BY <1>2, SamplingAssumption DEF Types
  <2> QED BY <1>1, <2>1
<1>7. Unlocked' /\ Timely' /\ AllCounted'
  BY <1>1, <1>3, <1>4, <1>6, Unmoved
<1> QED BY <1>4, <1>5, <1>7 DEF IInv

LEMMA RecountStep ==
  ASSUME IInv, Recount PROVE IInv'
<1>1. PICK i \in Measurement, n \in 1..2 : def' = [def EXCEPT ![i].samples = n]
  BY DEF Recount
<1>2. Types /\ Kept
  BY DEF IInv
<1>3. Fault("recount") /\ UNCHANGED <<data, since, checked, wait, count, link, noticed, pending>>
  BY DEF Recount
<1>4. faults' \in FaultsType /\ faults'.had = faults.had \cup {"recount"}
  BY <1>2, <1>3, FaultIs
<1>5. def \in [Measurement -> Definition] /\ \A j \in Measurement : data[j] \in InRange(def[j])
  BY <1>2 DEF Types
<1>6. def' = [def EXCEPT ![i] = [def[i] EXCEPT !.samples = n]]
  BY <1>1
<1>7. [def[i] EXCEPT !.samples = n] \in Definition /\ [def[i] EXCEPT !.samples = n].takes = def[i].takes
  <2>1. def[i] \in Definition /\ n \in Nat \ {0}
    BY <1>5
  <2> QED BY <2>1 DEF Definition
<1>8. def' \in [Measurement -> Definition]
  BY <1>5, <1>6, <1>7
<1>9. \A j \in Measurement : def'[j].takes = def[j].takes
  BY <1>5, <1>6, <1>7
<1>10. \A j \in Measurement : data'[j] \in InRange(def'[j])
  BY <1>3, <1>5, <1>9 DEF InRange
<1>11. Types'
  BY <1>2, <1>3, <1>4, <1>8, <1>10 DEF Types
<1>12. Kept'
  BY <1>2, <1>3, <1>4 DEF Kept
<1>13. "recount" \in AllFaults \ {"begin", "busy", "read", "down"}
  BY DEF AllFaults
<1>14. Unlocked' /\ Timely' /\ AllCounted'
  BY <1>4, <1>13, NothingSaid
<1> QED BY <1>11, <1>12, <1>14 DEF IInv

-----------------------------------------------------------------------------
LEMMA FreshFields ==
  ASSUME NEW d \in Definition
  PROVE  /\ Fresh(d) \in InRange(d)
         /\ Fresh(d).inits = 0 /\ Fresh(d).collected = 0 /\ Fresh(d).collecting = FALSE
         /\ Fresh(d).cache = d.takes /\ Fresh(d).given = d.takes
         /\ Fresh(d).samples = 0 /\ Fresh(d).sent = d.samples
<1>1. d.takes \in Nat /\ d.samples \in Nat /\ d.takes \in 0..d.takes
  BY DEF Definition
<1> QED BY <1>1, ZeroIsCounter DEF Fresh, InRange

LEMMA Initially ==
  ASSUME Init PROVE IInv
<1>1. /\ def \in Tables /\ data = [i \in Measurement |-> Fresh(def[i])]
      /\ since = 0 /\ checked = 0 /\ wait = 0 /\ count = 0
      /\ link = "down" /\ noticed = FALSE /\ pending = FALSE
      /\ faults = [left |-> MaxFaults, had |-> {}]
  BY DEF Init
<1>2. def \in [Measurement -> Definition]
  BY <1>1, SamplingAssumption
<1>3. T \in Nat /\ MaxLate \in Nat /\ MaxFaults \in Nat /\ Huge \in Nat /\ Huge > 0
  <2>1. T \in Nat /\ T > 0 /\ CounterMod \in Nat /\ CounterMod > 0 /\ Huge \in Nat
        /\ Huge > 4 * CounterMod * T /\ MaxLate \in Nat /\ MaxFaults \in Nat
    BY SamplingAssumption
  <2>2. 4 * CounterMod * T >= 0
    BY <2>1
  <2> QED BY <2>1, <2>2
<1>4. \A i \in Measurement : data[i] = Fresh(def[i]) /\ def[i] \in Definition
  BY <1>1, <1>2
<1>5. \A i \in Measurement : data[i] \in InRange(def[i])
  BY <1>4, FreshFields
<1>6. data = [i \in Measurement |-> data[i]]
  BY <1>1
<1>7. faults \in FaultsType
  BY <1>1, <1>3 DEF FaultsType
<1>8. Types
  <2>1. since \in 0..(2 * T + MaxLate)
    <3>1. 0 <= 2 * T + MaxLate /\ 2 * T + MaxLate \in Int
      BY <1>3
    <3> QED BY <3>1, <1>1
  <2>2. checked \in 0..(Huge - 1) /\ wait \in 0..Huge
    <3>1. 0 <= Huge - 1 /\ Huge - 1 \in Int
      BY <1>3
    <3> QED BY <3>1, <1>1, <1>3
  <2>3. count \in {0, 1} /\ link \in {"up", "down", "fw"}
    BY <1>1
  <2>4. noticed \in BOOLEAN /\ pending \in BOOLEAN
    BY <1>1
  <2> QED BY <1>2, <1>5, <1>6, <1>7, <2>1, <2>2, <2>3, <2>4, Zenon DEF Types
<1>9. Kept
  BY <1>1, <1>3 DEF Kept
<1>10. ASSUME NEW i \in Measurement, SoundDef(def[i])
       PROVE  /\ InStep(def[i], data[i], Time(def[i], since, count), wait - checked)
              /\ InTime(def[i], data[i], Time(def[i], since, count), wait - checked)
              /\ Counted(def[i], data[i]) /\ wait <= 4 * T
  <2>1. PICK d \in Definition : d = def[i]
    BY <1>4
  <2>2. PICK s \in InRange(d) : s = data[i]
    BY <1>5, <2>1
  <2>3. /\ s.inits = 0 /\ s.collected = 0 /\ ~s.collecting /\ s.cache = d.takes /\ s.given = d.takes
        /\ s.samples = 0 /\ s.sent = d.samples
    BY <1>4, <2>1, <2>2, FreshFields
  <2>4. d.samples \in Nat /\ d.takes \in Nat
    BY DEF Definition
  <2>5. Time(d, 0, 0) = 0
    <3>1. d.interval \in {1, 2}
      BY DEF Definition, Cycle
    <3>2. 0 % d.interval = 0
      BY <3>1, SMT
    <3> QED BY <1>3, <3>2 DEF Time
  <2>6. Boundary(d, s) \in Nat /\ d.takes + 1 < Boundary(d, s)
    <3>1. s.inits <= d.samples /\ s.inits \in {s.collected, s.collected + 1}
      BY <2>3, <2>4
    <3> QED BY <1>10, <2>1, <2>3, <3>1, TimesInStep
  <2>7. NextAt(d, s) = Boundary(d, s) - d.takes
    BY <2>3 DEF NextAt
  <2>8. 0 <= NextAt(d, s) /\ 0 + (0 - 0) <= NextAt(d, s)
    BY <2>4, <2>6, <2>7
  <2>9. InStep(d, s, 0, 0 - 0) /\ InTime(d, s, 0, 0 - 0) /\ Counted(d, s)
    BY <2>3, <2>4, <2>8 DEF InStep, InTime, Counted
  <2> QED BY <1>1, <1>3, <2>1, <2>2, <2>5, <2>9
<1>11. Unlocked
  BY <1>10 DEF Unlocked, HeldAt
<1>12. Timely
  BY <1>10 DEF Timely, TimelyAt, Sound
<1>13. AllCounted
  BY <1>10 DEF AllCounted, Sound
<1> QED BY <1>8, <1>9, <1>11, <1>12, <1>13 DEF IInv

LEMMA Stutter ==
  ASSUME IInv, UNCHANGED vars PROVE IInv'
<1>1. /\ def' = def /\ data' = data /\ since' = since /\ checked' = checked /\ wait' = wait
      /\ count' = count /\ link' = link /\ noticed' = noticed /\ pending' = pending
      /\ faults' = faults
  BY DEF vars
<1>2. Types /\ Kept
  BY DEF IInv
<1>3. Types'
  BY <1>1, <1>2 DEF Types
<1>4. Kept'
  BY <1>1, <1>2 DEF Kept
<1>5. since' <= since /\ checked <= checked'
  <2>1. since \in Nat /\ checked \in Nat
    BY <1>2, SamplingAssumption DEF Types
  <2> QED BY <1>1, <2>1
<1>6. Unlocked' /\ Timely' /\ AllCounted'
  BY <1>1, <1>3, <1>5, Unmoved
<1> QED BY <1>3, <1>4, <1>6 DEF IInv

LEMMA Steps ==
  ASSUME IInv, [Next]_vars PROVE IInv'
<1>1. CASE Bound /\ Fair
  BY <1>1, FairStep
<1>2. CASE Bound /\ Late
  BY <1>2, LateStep
<1>3. CASE Bound /\ BeginFails
  BY <1>3, BeginStep
<1>4. CASE Bound /\ ReadFails
  BY <1>4, ReadStep
<1>5. CASE Bound /\ NotReady
  BY <1>5, NotReadyStep
<1>6. CASE IterateFails
  BY <1>6, IterateStep
<1>7. CASE Unconnected
  BY <1>7, UnconnectedStep
<1>8. CASE Reconnected
  BY <1>8, ReconnectedStep
<1>9. CASE Acked
  BY <1>9, AckedStep
<1>10. CASE Link
  BY <1>10, LinkStep
<1>11. CASE Recount
  BY <1>11, RecountStep
<1>12. CASE UNCHANGED vars
  BY <1>12, Stutter
<1> QED BY <1>1, <1>2, <1>3, <1>4, <1>5, <1>6, <1>7, <1>8, <1>9, <1>10, <1>11, <1>12 DEF Next

LEMMA Invariance == Spec => []IInv
<1>1. Init => IInv
  BY Initially
<1>2. IInv /\ [Next]_vars => IInv'
  BY Steps
<1> QED BY <1>1, <1>2, PTL DEF Spec

-----------------------------------------------------------------------------
(***************************************************************************)
(* What follows.                                                           *)
(***************************************************************************)
LEMMA HadOnly ==
  ASSUME Types, NEW fs \in SUBSET AllFaults, ~Had(AllFaults \ fs)
  PROVE  Only(fs)
<1>1. faults.had \in SUBSET AllFaults
  BY DEF Types, FaultsType
<1> QED BY <1>1 DEF Had, Only

LEMMA LockedNever ==
  ASSUME IInv PROVE NotLocked
<1> SUFFICES ASSUME ~Had(AllFaults \ {"begin", "busy", "read", "down"}), NEW i \in Measurement,
                    Sound(i), data[i].collecting
             PROVE  Active(data[i])
  BY DEF NotLocked
<1>1. Types /\ Unlocked
  BY DEF IInv
<1>2. {"begin", "busy", "read", "down"} \in SUBSET AllFaults
  BY DEF AllFaults
<1>3. Only({"begin", "busy", "read", "down"})
  BY <1>1, <1>2, HadOnly
<1>4. data[i].inits = data[i].collected + 1
  BY <1>1, <1>3 DEF Unlocked, HeldAt, InStep, Sound
<1>5. data[i].collected \in Nat
  <2>1. data[i] \in InRange(def[i])
    BY <1>1 DEF Types
  <2> QED BY <2>1, CountersAreNat DEF InRange
<1> QED BY <1>4, <1>5 DEF Active

LEMMA ReportedAlways ==
  ASSUME IInv PROVE SamplesAreReported
<1>1. Types /\ Timely /\ AllCounted
  BY DEF IInv
<1>2. TypeOK
  <2>1. ASSUME NEW i \in Measurement
        PROVE  /\ data[i].inits \in 0..(CounterMod - 1) /\ data[i].collected \in 0..(CounterMod - 1)
               /\ data[i].samples \in 0..(CounterMod - 1) /\ data[i].cache \in 0..def[i].takes
    <3>1. data[i] \in InRange(def[i])
      BY <1>1 DEF Types
    <3> QED BY <3>1 DEF InRange, Counter
  <2>2. since \in 0..(2 * T + MaxLate) /\ checked \in 0..Huge /\ wait \in 0..Huge
    <3>1. checked \in 0..(Huge - 1) /\ Huge \in Nat
      BY <1>1, SamplingAssumption DEF Types
    <3>2. checked \in 0..Huge
      BY <3>1
    <3> QED BY <1>1, <3>2 DEF Types
  <2> QED BY <2>1, <2>2 DEF TypeOK
<1>3. HadItsTime
  <2> SUFFICES ASSUME ~Had(AllFaults \ {"begin", "read", "down"}), NEW i \in Measurement, Sound(i)
               PROVE  data[i].given >= def[i].takes - 1
    BY DEF HadItsTime
  <2>1. {"begin", "read", "down"} \in SUBSET AllFaults
    BY DEF AllFaults
  <2>2. Only({"begin", "read", "down"})
    BY <1>1, <2>1, HadOnly
  <2>3. def[i].takes \in Nat /\ data[i].given \in Nat
    BY <1>1 DEF Types, Definition, InRange
  <2>4. CASE def[i].takes = 0
    BY <2>3, <2>4
  <2>5. CASE def[i].takes >= 1
    BY <1>1, <2>2, <2>5 DEF Timely, Prompt, TimelyAt, InTime
  <2> QED BY <2>3, <2>4, <2>5
<1>4. AllSampled
  <2>1. {"down"} \in SUBSET AllFaults
    BY DEF AllFaults
  <2>2. ~Had(AllFaults \ {"down"}) => Only({"down"})
    BY <1>1, <2>1, HadOnly
  <2> QED BY <1>1, <2>2 DEF AllSampled, AllCounted, Counted
<1> QED BY <1>2, <1>3, <1>4 DEF SamplesAreReported

\* While the turns of the main loop and the sends are in time, a measurement
\* that has been begun is collected before a send starts its counters again, in
\* any table of definitions, whichever sensors fail or are busy and however
\* often the connection is lost: none is left being collected for ever.
THEOREM SamplingIsNotLocked == Spec => []NotLocked
<1>1. IInv => NotLocked
  BY LockedNever
<1> QED BY <1>1, Invariance, PTL

\* In any table of definitions: the counters keep to their range, whatever
\* fails; a sensor is read no sooner than it said, but for the turn it may be
\* begun late, though some fail; and without failures each report has all the
\* samples of its interval.
THEOREM SamplingIsReported == Spec => []SamplesAreReported
<1>1. IInv => SamplesAreReported
  BY ReportedAlways
<1> QED BY <1>1, Invariance, PTL
=============================================================================
