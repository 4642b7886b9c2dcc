--------------------------- MODULE SensingProofs ----------------------------
(***************************************************************************)
(* Proofs about sensing: of AdcSystem, the analogue converter with its     *)
(* current clamps, inputs and battery, of SensorSystem, one chip on a bus, *)
(* and of MCSensing, which has a behaviour of the one or of the other.     *)
(* First numbers and sequences, then the converter up to AdcInvKept, then  *)
(* the chips up to ChipInvKept, last the theorems about both.              *)
(***************************************************************************)
EXTENDS MCSensing, WellFoundedInduction, TLAPS
(***************************************************************************)
(* Numbers and sequences.                                                  *)
(***************************************************************************)
LEMMA Division ==
  ASSUME NEW x \in Nat, NEW n \in Nat, n > 0
  PROVE  x % n \in 0..(n - 1)
  BY SMT

\* A full round leads back to where it began.
LEMMA Round ==
  ASSUME NEW x \in Nat, NEW n \in Nat, NEW k \in Nat, x < n
  PROVE  (x + k * n) % n = x
  BY SMT

LEMMA Products == \A a, n \in Nat : a * n \in Nat
  BY SMT

\* What holds of 0, and of n + 1 when it holds of n, holds of every number.
LEMMA Induction ==
  ASSUME NEW Q, 0 \in Q, \A n \in Nat : n \in Q => n + 1 \in Q
  PROVE  Nat \subseteq Q
<1> SUFFICES ASSUME Nat \ Q # {} PROVE FALSE
  OBVIOUS
<1> DEFINE T == Nat \ Q
<1>1. T \subseteq Nat /\ T # {}
  OBVIOUS
<1>2. \E x \in T : \A y \in T : ~(<<y, x>> \in OpToRel(<, Nat))
  BY <1>1, NatLessThanWellFounded, WFMin, Zenon
<1>3. PICK x \in T : \A y \in T : ~(<<y, x>> \in OpToRel(<, Nat))
  BY <1>2
<1>4. \A y \in T : ~(y < x)
  BY <1>3, Zenon DEF OpToRel
<1>5. x \in Nat /\ x # 0
  OBVIOUS
<1>6. x - 1 \in Nat /\ x - 1 < x
  BY <1>5
<1>7. x - 1 \in Q
  BY <1>4, <1>6
<1>8. (x - 1) + 1 \in Q
  BY <1>6, <1>7
<1> QED BY <1>5, <1>8

-----------------------------------------------------------------------------
(***************************************************************************)
(* The converter.                                                          *)
(***************************************************************************)
Clamps == {Cc(i) : i \in 1..NumCc}
Inputs == {Ft(j) : j \in 1..NumFt}
Keys == {None, "CC", "FT", "BAT"}
Says == {None, "OK", "FAIL", "WAIT", "SUCCESS", "ERROR", "BUSY"}
Reads == [of : Sensors \cup {NoSensor}, from : SUBSET (Sensors \cup {NoSensor})]

Driver ==
    [inUse : BOOLEAN, key : Keys, seq : Seq(Sensors), buf : Seq(Sensors), on : BOOLEAN,
     active : Seq(Clamps), alone : Clamps \cup {NoSensor}, running : SUBSET Clamps,
     ftOn : BOOLEAN, inited : SUBSET Inputs, bat : BOOLEAN,
     resp : Says, read : Reads]

LEMMA Kinds ==
  /\ Sensors = Clamps \cup Inputs \cup {Bat}
  /\ \A n \in Clamps : n[1] = "CC" /\ KeyOf(n) = "CC"
  /\ \A n \in Inputs : n[1] = "FT" /\ KeyOf(n) = "FT" /\ n[2] \in 1..NumFt /\ n = Ft(n[2])
  /\ Bat[1] = "BAT" /\ KeyOf(Bat) = "BAT"
  BY DEF Sensors, Clamps, Inputs, Bat, Cc, Ft, KeyOf

LEMMA SensingNumbers == NumCc \in Nat /\ NumCc >= 1 /\ NumFt \in Nat /\ NumFt >= 1
  BY SensingAssumption DEF AdcSystemAssumption

LEMMA Whole ==
  /\ AllCc \in Seq(Clamps) /\ Len(AllCc) = NumCc /\ Range(AllCc) = Clamps /\ AllCc # <<>>
  /\ AllFt \in Seq(Inputs) /\ Len(AllFt) = NumFt /\ AllFt # <<>>
  /\ \A j \in 1..NumFt : AllFt[j] = Ft(j)
<1>1. AllCc \in Seq(Clamps) /\ Len(AllCc) = NumCc
  BY SensingNumbers DEF AllCc, Clamps
<1>2. Range(AllCc) = Clamps
  BY SensingNumbers DEF AllCc, Clamps, Range
<1>3. AllFt \in Seq(Inputs) /\ Len(AllFt) = NumFt /\ \A j \in 1..NumFt : AllFt[j] = Ft(j)
  BY SensingNumbers DEF AllFt, Inputs
<1> QED BY <1>1, <1>2, <1>3, SensingNumbers

LEMMA ClampsAreSensors ==
  ASSUME NEW q \in Seq(Clamps) PROVE q \in Seq(Sensors)
  BY Kinds

LEMMA InputsAreSensors ==
  ASSUME NEW q \in Seq(Inputs) PROVE q \in Seq(Sensors)
  BY Kinds

LEMMA ReplyFields ==
  ASSUME NEW s \in Driver, NEW r \in Says
  PROVE  /\ Reply(s, r) \in Driver /\ Reply(s, r).resp = r
         /\ Reply(s, r) = [s EXCEPT !.resp = r]
  BY DEF Reply, Driver

\* t is s but for what was answered and read, and the clamp that runs alone;
\* and but for the clamps that are active.
ButActive(s, t) ==
    /\ t.inUse = s.inUse /\ t.key = s.key /\ t.seq = s.seq /\ t.buf = s.buf
    /\ t.on = s.on /\ t.running = s.running
    /\ t.ftOn = s.ftOn /\ t.inited = s.inited /\ t.bat = s.bat
Like(s, t) == ButActive(s, t) /\ t.active = s.active

\* What osm_adcs_begin leaves.
HasBegun(s, channels, key, early, t) ==
    /\ channels # <<>> /\ ~s.inUse /\ s.key = None
    /\ t.inUse = ~early /\ t.key = key /\ t.seq = channels /\ t.on = TRUE
    /\ t.buf = s.buf /\ t.active = s.active /\ t.running = s.running
    /\ t.ftOn = s.ftOn /\ t.inited = s.inited /\ t.bat = s.bat

LEMMA BeginFields ==
  ASSUME NEW s \in Driver, NEW channels \in Seq(Sensors), NEW key \in Keys,
         NEW early \in BOOLEAN, NEW t, t = Begin(s, channels, key, early)
  PROVE  /\ t \in Driver /\ t.alone = s.alone /\ t.read = s.read
         /\ \/ t.resp = "FAIL" /\ channels = <<>> /\ Like(s, t)
            \/ t.resp = "WAIT" /\ channels # <<>> /\ (s.inUse \/ s.key # None) /\ Like(s, t)
            \/ t.resp = "OK" /\ HasBegun(s, channels, key, early, t)
<1>1. CASE channels = <<>>
  BY <1>1 DEF Begin, Reply, Driver, Like, ButActive, Says
<1>2. CASE channels # <<>> /\ (s.inUse \/ s.key # None)
  <2>1. t = [s EXCEPT !.resp = "WAIT"]
    BY <1>2 DEF Begin, Reply
  <2>2. t \in Driver
    BY <2>1 DEF Driver, Says
  <2>3. t.alone = s.alone /\ t.read = s.read /\ t.resp = "WAIT" /\ Like(s, t)
    BY <2>1 DEF Driver, Like, ButActive
  <2> QED
    BY <1>2, <2>2, <2>3
<1>3. CASE channels # <<>> /\ ~s.inUse /\ s.key = None
  <2>1. t = [s EXCEPT !.inUse = ~early, !.key = key, !.seq = channels,
                      !.on = TRUE, !.resp = "OK"]
    BY <1>3 DEF Begin
  <2>2. t \in Driver
    BY <2>1 DEF Driver, Says
  <2>3. t.alone = s.alone /\ t.read = s.read /\ t.resp = "OK"
    BY <2>1 DEF Driver
  <2>4. HasBegun(s, channels, key, early, t)
    BY <1>3, <2>1 DEF Driver, HasBegun
  <2> QED
    BY <2>2, <2>3, <2>4
<1> QED BY <1>1, <1>2, <1>3

LEMMA ReleaseFields ==
  ASSUME NEW s \in Driver, NEW key \in Keys, NEW t, t = Release(s, key)
  PROVE  /\ t \in Driver /\ t.key = (IF s.key = key THEN None ELSE s.key)
         /\ t.inUse = s.inUse /\ t.seq = s.seq /\ t.buf = s.buf
         /\ t.on = s.on /\ t.active = s.active /\ t.running = s.running
         /\ t.ftOn = s.ftOn /\ t.inited = s.inited /\ t.bat = s.bat
         /\ t.alone = s.alone /\ t.resp = s.resp /\ t.read = s.read
  BY DEF Release, Driver, Keys

\* Every channel that a reading takes its samples from is in the buffer.
LEMMA SamplesAreChannels ==
  ASSUME NEW buf \in Seq(Sensors), buf # <<>>, NEW start \in Nat, NEW step \in Nat
  PROVE  SamplesOf(buf, start, step) \subseteq Sensors
<1>1. ASSUME NEW n \in 0..(Len(buf) - 1)
      PROVE  buf[((start + n * step) % Len(buf)) + 1] \in Sensors
  <2>1. Len(buf) \in Nat /\ Len(buf) > 0 /\ n \in Nat
    OBVIOUS
  <2>2. n * step \in Nat
    BY <2>1, Products
  <2>3. PICK x \in Nat : x = start + n * step
    BY <2>2
  <2>4. x % Len(buf) \in 0..(Len(buf) - 1)
    BY <2>1, Division
  <2>5. (x % Len(buf)) + 1 \in 1..Len(buf)
    BY <2>1, <2>4
  <2> QED BY <2>3, <2>5
<1> QED BY <1>1 DEF SamplesOf

LEMMA CollectFields ==
  ASSUME NEW s \in Driver, NEW n \in Sensors, NEW start \in Nat, NEW step \in Nat,
         s.buf = <<>> => s.inUse \/ s.key = None,
         NEW t, t = Collect(s, n, start, step)
  PROVE  /\ t \in Driver /\ Like(s, t) /\ t.alone = s.alone
         /\ \/ t.resp = "WAIT" /\ (s.inUse \/ s.key # KeyOf(n)) /\ t.read = s.read
            \/ /\ t.resp = "OK" /\ ~s.inUse /\ s.key = KeyOf(n)
               /\ t.read = [of |-> n, from |-> SamplesOf(s.buf, start, step)]
<1>1. CASE s.inUse \/ s.key # KeyOf(n)
  BY <1>1 DEF Collect, Reply, Driver, Like, ButActive, Says
<1>2. CASE ~s.inUse /\ s.key = KeyOf(n)
  <2>1. t = [s EXCEPT !.resp = "OK",
                      !.read = [of |-> n, from |-> SamplesOf(s.buf, start, step)]]
    BY <1>2 DEF Collect
  <2>2. KeyOf(n) # None
    BY Kinds DEF None
  <2>3. s.buf \in Seq(Sensors) /\ s.buf # <<>>
    BY <1>2, <2>2 DEF Driver
  <2>4. SamplesOf(s.buf, start, step) \subseteq Sensors
    BY <2>3, SamplesAreChannels
  <2>5. [of |-> n, from |-> SamplesOf(s.buf, start, step)] \in Reads
    BY <2>4 DEF Reads
  <2> QED
    BY <1>2, <2>1, <2>5 DEF Driver, Like, ButActive, Says
<1> QED BY <1>1, <1>2

-----------------------------------------------------------------------------
(* The converter's key is with whom it is said to be: with the clamps that *)
(* run, the inputs that were begun, the battery's request.                 *)

Sound(s) ==
    /\ s.buf = <<>> => (s.inUse \/ s.key = None)
    /\ s.buf = <<>> => (s.inUse \/ ~s.on)
    /\ s.on => s.seq # <<>>
    /\ s.running # {} => s.key = "CC"
    /\ s.bat <=> s.key = "BAT"
    /\ s.inited # {} <=> s.key = "FT"
    /\ s.ftOn => s.inited # {}
    /\ s.key = "FT" => s.seq = AllFt
    /\ s.key = "BAT" => s.seq = <<Bat>>

LEMMA SoundLike ==
  ASSUME NEW s, NEW t, Sound(s), ButActive(s, t)
  PROVE  Sound(t)
  BY DEF Sound, ButActive

LEMMA PlaceIs ==
  ASSUME NEW q \in Seq(Clamps), NEW n \in Range(q)
  PROVE  Place(q, n) \in 1..Len(q) /\ q[Place(q, n)] = n
<1>1. \E i \in DOMAIN q : q[i] = n
  BY DEF Range
<1>2. DOMAIN q = 1..Len(q)
  OBVIOUS
<1> QED BY <1>1, <1>2 DEF Place

\* What Ordered goes through, clamp by clamp.
Step(q, i, W) == IF Cc(i) \in W THEN Append(q, Cc(i)) ELSE q
Walk(f, n, W) == f = [i \in 0..n |-> IF i = 0 THEN <<>> ELSE Step(f[i - 1], i, W)]

LEMMA WalkExists ==
  ASSUME NEW W, NEW n \in Nat
  PROVE  \E f : Walk(f, n, W)
<1> DEFINE Q == {k \in Nat : \E f : Walk(f, k, W)}
<1>1. 0 \in Q
  <2>1. Walk([i \in 0..0 |-> <<>>], 0, W)
    BY DEF Walk
  <2> QED BY <2>1
<1>2. ASSUME NEW k \in Nat, k \in Q PROVE k + 1 \in Q
  <2>1. PICK f : Walk(f, k, W)
    BY <1>2
  <2> DEFINE g == [i \in 0..(k + 1) |-> IF i = k + 1 THEN Step(f[k], i, W) ELSE f[i]]
  <2>2. \A i \in 0..k : g[i] = f[i]
    OBVIOUS
  <2>3. g[k + 1] = Step(g[k], k + 1, W)
    BY <2>2
  <2>4. \A i \in 0..k : g[i] = IF i = 0 THEN <<>> ELSE Step(g[i - 1], i, W)
    BY <2>1, <2>2 DEF Walk
  <2>5. g = [i \in 0..(k + 1) |-> g[i]]
    OBVIOUS
  <2> HIDE DEF g
  <2>6. \A i \in 0..(k + 1) : g[i] = IF i = 0 THEN <<>> ELSE Step(g[i - 1], i, W)
    BY <2>3, <2>4
  <2>7. Walk(g, k + 1, W)
    BY <2>5, <2>6 DEF Walk
  <2> QED BY <2>7
<1> HIDE DEF Q
<1>3. Nat \subseteq Q
  BY <1>1, <1>2, Induction
<1> QED BY <1>3 DEF Q

LEMMA RangeOfAppend ==
  ASSUME NEW T, NEW q \in Seq(T), NEW e \in T
  PROVE  Range(Append(q, e)) = Range(q) \cup {e}
<1>1. PICK a : a = Append(q, e)
  OBVIOUS
<1>2. /\ DOMAIN a = 1..(Len(q) + 1) /\ DOMAIN q = 1..Len(q) /\ Len(q) \in Nat
      /\ a[Len(q) + 1] = e /\ \A i \in 1..Len(q) : a[i] = q[i]
  BY <1>1
<1>3. Range(a) \subseteq Range(q) \cup {e}
  <2> SUFFICES ASSUME NEW i \in 1..(Len(q) + 1) PROVE a[i] \in Range(q) \cup {e}
    BY <1>2 DEF Range
  <2>1. CASE i \in 1..Len(q)
    BY <1>2, <2>1 DEF Range
  <2>2. CASE i = Len(q) + 1
    BY <1>2, <2>2
  <2> QED BY <1>2, <2>1, <2>2
<1>4. Range(q) \subseteq Range(a)
  BY <1>2 DEF Range
<1>5. e \in Range(a)
  BY <1>2 DEF Range
<1> QED BY <1>1, <1>3, <1>4, <1>5

LEMMA OrderedIs ==
  ASSUME NEW W
  PROVE  Ordered(W) \in Seq(Clamps) /\ Range(Ordered(W)) = W \cap Clamps
<1> DEFINE f == CHOOSE f : Walk(f, NumCc, W)
<1>1. Walk(f, NumCc, W)
  BY WalkExists, SensingNumbers
<1>2. Ordered(W) = f[NumCc]
  BY DEF Ordered, Walk, Step
<1> HIDE DEF f
<1> DEFINE UpTo(i) == {Cc(j) : j \in 1..i}
           Q == {k \in Nat : k <= NumCc => /\ f[k] \in Seq(Clamps)
                                           /\ Range(f[k]) = W \cap UpTo(k)}
<1>3. 0 \in Q
  <2>1. f[0] = <<>>
    BY <1>1, SensingNumbers DEF Walk
  <2>2. UpTo(0) = {}
    OBVIOUS
  <2>3. <<>> \in Seq(Clamps) /\ Range(<<>>) = {}
    BY DEF Range
  <2>4. f[0] \in Seq(Clamps) /\ Range(f[0]) = W \cap UpTo(0)
    BY <2>1, <2>2, <2>3
  <2> QED BY <2>4
<1>4. ASSUME NEW k \in Nat, k \in Q PROVE k + 1 \in Q
  <2> SUFFICES ASSUME k + 1 <= NumCc
               PROVE  f[k + 1] \in Seq(Clamps) /\ Range(f[k + 1]) = W \cap UpTo(k + 1)
    OBVIOUS
  <2>1. f[k] \in Seq(Clamps) /\ Range(f[k]) = W \cap UpTo(k)
    BY <1>4, SensingNumbers
  <2>2. f[k + 1] = Step(f[k], k + 1, W)
    BY <1>1, SensingNumbers DEF Walk
  <2>3. UpTo(k + 1) = UpTo(k) \cup {Cc(k + 1)}
    BY DEF Cc
  <2>4. Cc(k + 1) \in Clamps
    BY SensingNumbers DEF Clamps
  <2>5. CASE Cc(k + 1) \in W
    <3>1. f[k + 1] = Append(f[k], Cc(k + 1))
      BY <2>2, <2>5 DEF Step
    <3>2. PICK q \in Seq(Clamps) : q = f[k]
      BY <2>1
    <3>3. Range(Append(q, Cc(k + 1))) = Range(q) \cup {Cc(k + 1)}
      BY <2>4, <3>2, RangeOfAppend
    <3> QED BY <2>1, <2>3, <2>4, <2>5, <3>1, <3>2, <3>3
  <2>6. CASE Cc(k + 1) \notin W
    BY <2>1, <2>2, <2>3, <2>6 DEF Step
  <2> QED BY <2>5, <2>6
<1> HIDE DEF Q
<1>5. Nat \subseteq Q
  BY <1>3, <1>4, Induction
<1>6. UpTo(NumCc) = Clamps
  BY DEF Clamps
<1>7. NumCc \in Q
  BY <1>5, SensingNumbers
<1>8. f[NumCc] \in Seq(Clamps) /\ Range(f[NumCc]) = W \cap UpTo(NumCc)
  BY <1>7, SensingNumbers DEF Q
<1> HIDE DEF UpTo
<1> QED BY <1>2, <1>6, <1>8

-----------------------------------------------------------------------------
(* The clamps.                                                             *)

LEMMA ActiveAreClamps ==
  ASSUME NEW s \in Driver
  PROVE  /\ s.active \in Seq(Clamps) /\ Range(s.active) \subseteq Clamps
         /\ s.active \in Seq(Sensors)
<1>1. s.active \in Seq(Clamps)
  BY DEF Driver
<1>2. PICK q \in Seq(Clamps) : q = s.active
  BY <1>1
<1>3. Range(q) \subseteq Clamps
  BY DEF Range
<1> QED BY <1>2, <1>3, ClampsAreSensors

LEMMA CcSetActiveFields ==
  ASSUME NEW s \in Driver, NEW clamps \in Seq(Clamps), NEW t, t = CcSetActive(s, clamps)
  PROVE  /\ t \in Driver /\ ButActive(s, t) /\ t.alone = s.alone /\ t.read = s.read
         /\ s.running # {} => t.active = s.active /\ t.resp = "FAIL"
         /\ s.running = {} => t.active = clamps /\ t.resp = "OK"
<1>1. CASE s.running # {}
  <2>1. t = [s EXCEPT !.resp = "FAIL"]
    BY <1>1 DEF CcSetActive, Reply
  <2>2. t \in Driver
    BY <2>1 DEF Driver, Says
  <2> QED BY <1>1, <2>1, <2>2 DEF Driver, ButActive
<1>2. CASE s.running = {}
  <2>1. t = [s EXCEPT !.active = clamps, !.resp = "OK"]
    BY <1>2 DEF CcSetActive, Reply
  <2>2. t \in Driver
    BY <2>1 DEF Driver, Says
  <2> QED BY <1>2, <2>1, <2>2 DEF Driver, ButActive
<1> QED BY <1>1, <1>2

LEMMA CcEnableFields ==
  ASSUME NEW s \in Driver, NEW n \in Clamps, NEW on \in BOOLEAN, NEW t, t = CcEnable(s, n, on)
  PROVE  /\ t \in Driver /\ ButActive(s, t) /\ t.alone = s.alone /\ t.read = s.read
         /\ s.running # {} => t.active = s.active
         /\ s.running = {} /\ on => Range(t.active) = Range(s.active) \cup {n}
         /\ s.running = {} /\ ~on => Range(t.active) = Range(s.active) \ {n}
<1>1. PICK W : W = IF on THEN Range(s.active) \cup {n} ELSE Range(s.active) \ {n}
  OBVIOUS
<1>2. W \subseteq Clamps
  BY <1>1, ActiveAreClamps
<1>3. Ordered(W) \in Seq(Clamps) /\ Range(Ordered(W)) = W
  BY <1>2, OrderedIs
<1>4. t = CcSetActive(s, Ordered(W))
  BY <1>1 DEF CcEnable
<1>5. /\ t \in Driver /\ ButActive(s, t) /\ t.alone = s.alone /\ t.read = s.read
      /\ s.running # {} => t.active = s.active
      /\ s.running = {} => t.active = Ordered(W)
  BY <1>3, <1>4, CcSetActiveFields
<1> QED BY <1>1, <1>3, <1>5

\* Nobody has the converter, or it was refused: nothing happens.
CcRefused(s, t) == t.resp \in {"ERROR", "BUSY"} /\ Like(s, t)

\* A clamp joins those that run.
CcJoined(s, n, t) ==
    /\ t.resp = "SUCCESS" /\ s.running # {} /\ s.active # <<>>
    /\ t.inUse = s.inUse /\ t.key = s.key /\ t.seq = s.seq /\ t.buf = s.buf
    /\ t.on = s.on /\ t.active = s.active /\ t.running = s.running \cup {n}
    /\ t.ftOn = s.ftOn /\ t.inited = s.inited /\ t.bat = s.bat

CcStarted(s, n, channels, early, t) ==
    /\ t.resp = "SUCCESS" /\ s.key = None /\ s.running = {}
    /\ channels # <<>>
    /\ t.inUse = ~early /\ t.key = "CC" /\ t.seq = channels /\ t.buf = s.buf
    /\ t.on = TRUE /\ t.active = s.active /\ t.running = {n}
    /\ t.ftOn = s.ftOn /\ t.inited = s.inited /\ t.bat = s.bat

LEMMA CcBegunFields ==
  ASSUME NEW s \in Driver, NEW n \in Clamps, NEW channels \in Seq(Sensors), channels # <<>>,
         NEW early \in BOOLEAN, Sound(s),
         NEW t, t = CcBegun(Begin(s, channels, "CC", early), n)
  PROVE  /\ t \in Driver /\ t.alone = s.alone /\ t.read = s.read
         /\ CcRefused(s, t) \/ CcStarted(s, n, channels, early, t)
<1>1. PICK b : b = Begin(s, channels, "CC", early)
  OBVIOUS
<1>2. /\ b \in Driver /\ b.alone = s.alone /\ b.read = s.read
      /\ \/ b.resp = "WAIT" /\ Like(s, b)
         \/ b.resp = "OK" /\ HasBegun(s, channels, "CC", early, b)
  BY <1>1, BeginFields DEF Keys
<1>3. CASE b.resp = "WAIT"
  <2>1. t = [b EXCEPT !.resp = "BUSY"]
    BY <1>1, <1>3 DEF CcBegun, Reply
  <2>2. t \in Driver
    BY <1>2, <2>1 DEF Driver, Says
  <2>3. Like(b, t) /\ t.resp = "BUSY" /\ t.alone = b.alone /\ t.read = b.read
    BY <1>2, <2>1 DEF Driver, Like, ButActive
  <2>4. Like(s, b)
    BY <1>2, <1>3
  <2> QED BY <1>2, <2>2, <2>3, <2>4 DEF CcRefused, Like, ButActive
<1>4. CASE b.resp = "OK"
  <2> DEFINE r == b.running \cup {n}
  <2>0. r \in SUBSET Clamps
    BY <1>2 DEF Driver
  <2>1. t = [b EXCEPT !.running = r, !.resp = "SUCCESS"]
    BY <1>1, <1>4 DEF CcBegun, Reply
  <2>2. t \in Driver
    <3> HIDE DEF r
    <3> QED BY <1>2, <2>0, <2>1 DEF Driver, Says
  <2>3. HasBegun(s, channels, "CC", early, b)
    BY <1>2, <1>4
  <2>4. s.running = {}
    BY <2>3 DEF Sound, HasBegun, None
  <2>5. CcStarted(s, n, channels, early, t)
    BY <1>2, <2>1, <2>3, <2>4 DEF Driver, HasBegun, CcStarted
  <2>6. t.alone = b.alone /\ t.read = b.read
    BY <1>2, <2>1 DEF Driver
  <2> QED BY <1>2, <2>2, <2>5, <2>6
<1> QED BY <1>2, <1>3, <1>4

LEMMA CcBeginFields ==
  ASSUME NEW s \in Driver, NEW n \in Clamps, NEW isolated \in BOOLEAN, NEW early \in BOOLEAN,
         Sound(s), NEW t, t = CcBegin(s, n, isolated, early)
  PROVE  /\ t \in Driver /\ t.read = s.read /\ (~isolated => t.alone = s.alone)
         /\ \/ CcRefused(s, t)
            \/ ~isolated /\ CcJoined(s, n, t)
            \/ isolated /\ CcStarted(s, n, <<n>>, early, t)
            \/ ~isolated /\ s.alone = NoSensor /\ CcStarted(s, n, s.active, early, t)
<1> DEFINE others == s.running \ {n}
<1>1. CASE isolated /\ others # {}
  <2>1. t = [s EXCEPT !.resp = "ERROR"]
    BY <1>1 DEF CcBegin, Reply
  <2>2. t \in Driver
    BY <2>1 DEF Driver, Says
  <2>3. Like(s, t) /\ t.resp = "ERROR" /\ t.read = s.read
    BY <2>1 DEF Driver, Like, ButActive
  <2> QED BY <1>1, <2>2, <2>3 DEF CcRefused
<1>2. CASE isolated /\ others = {}
  <2>1. PICK a : a = [s EXCEPT !.alone = n]
    OBVIOUS
  <2>2. a \in Driver
    BY <2>1 DEF Driver
  <2>3. Like(s, a) /\ a.read = s.read
    BY <2>1 DEF Driver, Like, ButActive
  <2>4. Sound(a)
    BY <2>3, SoundLike DEF Like
  <2>5. PICK q : q = <<n>>
    OBVIOUS
  <2>6. q \in Seq(Sensors) /\ q # <<>>
    BY <2>5, Kinds
  <2>10. t = CcBegun(Begin(a, q, "CC", early), n)
    BY <1>2, <2>1, <2>5 DEF CcBegin
  <2>11. t \in Driver /\ t.read = a.read /\ (CcRefused(a, t) \/ CcStarted(a, n, q, early, t))
    BY <2>2, <2>4, <2>6, <2>10, CcBegunFields
  <2>7. /\ t \in Driver /\ t.read = a.read
        /\ CcRefused(a, t) \/ CcStarted(a, n, <<n>>, early, t)
    BY <2>5, <2>11
  <2>8. CASE CcRefused(a, t)
    BY <1>2, <2>3, <2>7, <2>8 DEF CcRefused, Like, ButActive
  <2>9. CASE CcStarted(a, n, <<n>>, early, t)
    <3>1. CcStarted(s, n, <<n>>, early, t)
      BY <2>3, <2>9 DEF CcStarted, Like, ButActive
    <3> QED BY <1>2, <2>3, <2>7, <3>1
  <2> QED BY <2>7, <2>8, <2>9
<1>3. CASE ~isolated /\ (s.active = <<>> \/ s.alone # NoSensor)
  <2>1. t = [s EXCEPT !.resp = "ERROR"]
    BY <1>3 DEF CcBegin, Reply
  <2>2. t \in Driver
    BY <2>1 DEF Driver, Says
  <2>3. Like(s, t) /\ t.resp = "ERROR" /\ t.read = s.read /\ t.alone = s.alone
    BY <2>1 DEF Driver, Like, ButActive
  <2> QED BY <2>2, <2>3 DEF CcRefused
<1>4. CASE ~isolated /\ s.active # <<>> /\ s.alone = NoSensor /\ others # {}
  <2> DEFINE r == s.running \cup {n}
  <2>0. r \in SUBSET Clamps
    BY DEF Driver
  <2>1. t = [s EXCEPT !.running = r, !.resp = "SUCCESS"]
    BY <1>4 DEF CcBegin, Reply
  <2>2. t \in Driver
    <3> HIDE DEF r
    <3> QED BY <2>0, <2>1 DEF Driver, Says
  <2>3. s.running # {}
    BY <1>4
  <2>4. CcJoined(s, n, t) /\ t.read = s.read /\ t.alone = s.alone
    BY <1>4, <2>1, <2>3 DEF Driver, CcJoined
  <2> QED BY <1>4, <2>2, <2>4
<1>5. CASE ~isolated /\ s.active # <<>> /\ s.alone = NoSensor /\ others = {}
  <2>1. t = CcBegun(Begin(s, s.active, "CC", early), n)
    BY <1>5 DEF CcBegin
  <2>2. /\ t \in Driver /\ t.read = s.read /\ t.alone = s.alone
        /\ CcRefused(s, t) \/ CcStarted(s, n, s.active, early, t)
    BY <1>5, <2>1, ActiveAreClamps, CcBegunFields
  <2> QED BY <1>5, <2>2
<1> QED BY <1>1, <1>2, <1>3, <1>4, <1>5

\* What a driver's state keeps under every outcome of the beginning of a clamp.
LEMMA CcBeginSound ==
  ASSUME NEW s \in Driver, NEW n \in Clamps, NEW channels, NEW early \in BOOLEAN,
         Sound(s), early => s.buf # <<>>, NEW t,
         CcRefused(s, t) \/ CcJoined(s, n, t) \/ CcStarted(s, n, channels, early, t)
  PROVE  Sound(t)
<1>1. CASE CcRefused(s, t)
  BY <1>1, SoundLike DEF CcRefused, Like
<1>2. CASE CcJoined(s, n, t)
  BY <1>2 DEF CcJoined, Sound
<1>3. CASE CcStarted(s, n, channels, early, t)
  BY <1>3 DEF CcStarted, Sound, None
<1> QED BY <1>1, <1>2, <1>3

CcNotGot(s, n, t) ==
    /\ Like(s, t) /\ t.read = s.read
    /\ \/ t.resp = "ERROR" /\ (n \notin Range(s.active) \/ n \notin s.running)
       \/ t.resp = "BUSY" /\ s.inUse

CcGot(s, n, t) ==
    /\ n \in Range(s.active) /\ n \in s.running /\ s.key = "CC" /\ ~s.inUse
    /\ t.resp \in {"SUCCESS", "ERROR"}
    /\ t.inUse = s.inUse /\ t.seq = s.seq /\ t.buf = s.buf /\ t.on = s.on
    /\ t.active = s.active /\ t.running = s.running \ {n}
    /\ t.running = {} => t.key = None
    /\ t.running # {} => t.key = "CC"
    /\ t.ftOn = s.ftOn /\ t.inited = s.inited /\ t.bat = s.bat

CcReading(s, n) ==
    [of |-> n, from |-> SamplesOf(s.buf, Place(s.active, n) - 1,
                                  IF s.alone # NoSensor THEN 1 ELSE Len(s.active))]

LEMMA CcGetFields ==
  ASSUME NEW s \in Driver, NEW n \in Clamps, NEW fine \in BOOLEAN, Sound(s),
         NEW t, t = CcGet(s, n, fine)
  PROVE  /\ t \in Driver /\ Sound(t) /\ t.alone \in {s.alone, NoSensor}
         /\ \/ CcNotGot(s, n, t)
            \/ CcGot(s, n, t) /\ t.read = CcReading(s, n)
<1>1. CASE n \notin Range(s.active) \/ n \notin s.running
  <2>1. t = [s EXCEPT !.resp = "ERROR"]
    BY <1>1 DEF CcGet, IsActive, Reply
  <2>2. t \in Driver
    BY <2>1 DEF Driver, Says
  <2>3. Like(s, t) /\ t.resp = "ERROR" /\ t.read = s.read /\ t.alone = s.alone
    BY <2>1 DEF Driver, Like, ButActive
  <2>4. Sound(t)
    BY <2>3, SoundLike DEF Like
  <2> QED BY <1>1, <2>2, <2>3, <2>4 DEF CcNotGot
<1>2. CASE n \in Range(s.active) /\ n \in s.running
  <2>1. PICK start : start = Place(s.active, n) - 1
    OBVIOUS
  <2>2. PICK step : step = IF s.alone # NoSensor THEN 1 ELSE Len(s.active)
    OBVIOUS
  <2>3. PICK a : a = [s EXCEPT !.alone = NoSensor]
    OBVIOUS
  <2>4. PICK b : b = Collect(a, n, start, step)
    OBVIOUS
  <2>5. start \in Nat /\ step \in Nat
    <3>1. PICK q \in Seq(Clamps) : q = s.active
      BY ActiveAreClamps
    <3>2. Place(q, n) \in 1..Len(q)
      BY <1>2, <3>1, PlaceIs
    <3> QED BY <2>1, <2>2, <3>1, <3>2
  <2>6. a \in Driver /\ a.alone = NoSensor /\ a.read = s.read
    BY <2>3 DEF Driver
  <2>7. Like(s, a)
    BY <2>3 DEF Driver, Like, ButActive
  <2>8. n \in Sensors /\ KeyOf(n) = "CC"
    BY Kinds
  <2>9. a.buf = <<>> => a.inUse \/ a.key = None
    BY <2>7 DEF Sound, Like, ButActive
  <2>10. /\ b \in Driver /\ Like(a, b) /\ b.alone = NoSensor
         /\ \/ b.resp = "WAIT" /\ (a.inUse \/ a.key # "CC") /\ b.read = s.read
            \/ /\ b.resp = "OK" /\ ~a.inUse /\ a.key = "CC"
               /\ b.read = [of |-> n, from |-> SamplesOf(a.buf, start, step)]
    BY <2>4, <2>5, <2>6, <2>8, <2>9, CollectFields
  <2>11. s.key = "CC"
    BY <1>2 DEF Sound
  <2>12. Like(s, b)
    BY <2>7, <2>10 DEF Like, ButActive
  <2>13. t = IF b.resp = "WAIT" THEN Reply(b, "BUSY")
             ELSE Reply(CcReleaseAuto([b EXCEPT !.running = @ \ {n}]),
                        IF fine THEN "SUCCESS" ELSE "ERROR")
    BY <1>2, <2>1, <2>2, <2>3, <2>4 DEF CcGet, IsActive
  <2>14. CASE b.resp = "WAIT"
    <3>1. t = [b EXCEPT !.resp = "BUSY"]
      BY <2>13, <2>14 DEF Reply
    <3>2. t \in Driver
      BY <2>10, <3>1 DEF Driver, Says
    <3>3. Like(b, t) /\ t.resp = "BUSY" /\ t.read = b.read /\ t.alone = b.alone
      BY <2>10, <3>1 DEF Driver, Like, ButActive
    <3>4. Like(s, t)
      BY <2>12, <3>3 DEF Like, ButActive
    <3>5. Sound(t)
      BY <3>4, SoundLike DEF Like
    <3>6. s.inUse
      BY <2>7, <2>10, <2>11, <2>14 DEF Like, ButActive
    <3>7. b.read = s.read
      BY <2>10, <2>14
    <3>8. CcNotGot(s, n, t)
      BY <3>3, <3>4, <3>6, <3>7 DEF CcNotGot
    <3> QED BY <2>10, <3>2, <3>3, <3>5, <3>8
  <2>15. CASE b.resp = "OK"
    <3> DEFINE r == b.running \ {n}
    <3>1. PICK c : c = [b EXCEPT !.running = r]
      OBVIOUS
    <3>2. r \in SUBSET Clamps
      BY <2>10 DEF Driver
    <3>3. c \in Driver
      <4> HIDE DEF r
      <4> QED BY <2>10, <3>1, <3>2 DEF Driver
    <3>4. /\ c.running = r /\ c.inUse = b.inUse /\ c.key = b.key /\ c.seq = b.seq
          /\ c.buf = b.buf /\ c.on = b.on /\ c.active = b.active /\ c.ftOn = b.ftOn
          /\ c.inited = b.inited /\ c.bat = b.bat /\ c.alone = b.alone /\ c.read = b.read
      <4> HIDE DEF r
      <4> QED BY <2>10, <3>1 DEF Driver
    <3>5. PICK e : e = CcReleaseAuto(c)
      OBVIOUS
    <3>6. /\ e \in Driver /\ e.running = c.running /\ e.inUse = c.inUse /\ e.seq = c.seq
          /\ e.buf = c.buf /\ e.on = c.on /\ e.active = c.active /\ e.ftOn = c.ftOn
          /\ e.inited = c.inited /\ e.bat = c.bat /\ e.alone = c.alone /\ e.read = c.read
      BY <3>3, <3>5, ReleaseFields DEF CcReleaseAuto, Keys
    <3>7. /\ c.running = {} => e.key = IF c.key = "CC" THEN None ELSE c.key
          /\ c.running # {} => e.key = c.key
      BY <3>3, <3>5, ReleaseFields DEF CcReleaseAuto, Keys
    <3>8. PICK says \in {"SUCCESS", "ERROR"} : t = [e EXCEPT !.resp = says]
      BY <2>13, <2>15, <3>1, <3>5 DEF Reply
    <3>9. t \in Driver
      BY <3>6, <3>8 DEF Driver, Says
    <3>10. Like(e, t) /\ t.resp \in {"SUCCESS", "ERROR"} /\ t.read = e.read /\ t.alone = e.alone
      BY <3>6, <3>8 DEF Driver, Like, ButActive
    <3>11. ~s.inUse
      BY <2>7, <2>10, <2>15 DEF Like, ButActive
    <3>12. c.key = "CC" /\ r = s.running \ {n}
      BY <2>11, <2>12, <3>4 DEF Like, ButActive
    <3> HIDE DEF r
    <3>13. CcGot(s, n, t)
      BY <1>2, <2>11, <2>12, <3>4, <3>6, <3>7, <3>10, <3>11, <3>12
         DEF CcGot, Like, ButActive
    <3>14. a.buf = s.buf
      BY <2>7 DEF Like, ButActive
    <3>15. b.read = [of |-> n, from |-> SamplesOf(s.buf, start, step)]
      BY <2>10, <2>15, <3>14
    <3>16. t.read = CcReading(s, n)
      BY <2>1, <2>2, <3>4, <3>6, <3>10, <3>15 DEF CcReading
    <3>17. Sound(t)
      BY <3>13 DEF CcGot, Sound, None
    <3> QED BY <2>10, <3>4, <3>6, <3>9, <3>10, <3>13, <3>16, <3>17
  <2> QED BY <2>10, <2>14, <2>15
<1> QED BY <1>1, <1>2

\* The rest of a clamp's operations: all clamps let go.
CcLetGo(s, t) ==
    /\ t.inUse = s.inUse /\ t.seq = s.seq /\ t.buf = s.buf /\ t.on = s.on
    /\ t.ftOn = s.ftOn /\ t.inited = s.inited /\ t.bat = s.bat
    /\ t.running = {}
    /\ s.key = "CC" => t.key = None
    /\ s.key # "CC" => t.key = s.key

LEMMA CcReleaseAllFields ==
  ASSUME NEW s \in Driver, Sound(s), NEW t, t = CcReleaseAll(s)
  PROVE  /\ t \in Driver /\ Sound(t) /\ t.alone = s.alone /\ t.active = s.active
         /\ CcLetGo(s, t) /\ t.resp = s.resp /\ t.read = s.read
<1>1. PICK a : a = [s EXCEPT !.running = {}]
  OBVIOUS
<1>2. a \in Driver /\ a.running = {}
  BY <1>1 DEF Driver
<1>3. /\ a.inUse = s.inUse /\ a.key = s.key /\ a.seq = s.seq /\ a.buf = s.buf /\ a.on = s.on
      /\ a.active = s.active /\ a.ftOn = s.ftOn /\ a.inited = s.inited /\ a.bat = s.bat
      /\ a.alone = s.alone /\ a.resp = s.resp /\ a.read = s.read
  BY <1>1 DEF Driver
<1>4. t = Release(a, "CC")
  BY <1>1 DEF CcReleaseAll
<1>5. /\ t \in Driver /\ t.inUse = a.inUse /\ t.seq = a.seq /\ t.buf = a.buf
      /\ t.on = a.on /\ t.active = a.active /\ t.running = a.running
      /\ t.ftOn = a.ftOn /\ t.inited = a.inited /\ t.bat = a.bat
      /\ t.alone = a.alone /\ t.resp = a.resp /\ t.read = a.read
  BY <1>2, <1>4, ReleaseFields DEF Keys
<1>6. t.key = IF a.key = "CC" THEN None ELSE a.key
  BY <1>2, <1>4, ReleaseFields DEF Keys
<1>7. CcLetGo(s, t)
  BY <1>2, <1>3, <1>5, <1>6 DEF CcLetGo
<1>8. Sound(t)
  BY <1>7 DEF CcLetGo, Sound, None
<1> QED BY <1>3, <1>5, <1>7, <1>8

\* _cc_calibrate: all clamps are active, and converted when nobody had it.
CalStarted(s, t) ==
    /\ t.resp = "OK" /\ s.key = None /\ s.running = {}
    /\ t.inUse = TRUE /\ t.key = "CC" /\ t.seq = AllCc /\ t.buf = s.buf
    /\ t.on = TRUE /\ t.active = AllCc /\ t.running = s.running
    /\ t.ftOn = s.ftOn /\ t.inited = s.inited /\ t.bat = s.bat

LEMMA CcCalibrateBeginFields ==
  ASSUME NEW s \in Driver, Sound(s), NEW t, t = CcCalibrateBegin(s, FALSE)
  PROVE  /\ t \in Driver /\ Sound(t) /\ t.alone = s.alone /\ t.read = s.read
         /\ t.active = AllCc
         /\ (t.resp # "OK" /\ ButActive(s, t)) \/ CalStarted(s, t)
<1>1. PICK a : a = [s EXCEPT !.active = AllCc]
  OBVIOUS
<1>2. a \in Driver /\ a.active = AllCc /\ a.alone = s.alone /\ a.read = s.read
  BY <1>1, Whole DEF Driver
<1>3. ButActive(s, a)
  BY <1>1 DEF Driver, ButActive
<1>4. t = Begin(a, AllCc, "CC", FALSE)
  BY <1>1 DEF CcCalibrateBegin
<1>5. AllCc \in Seq(Sensors) /\ AllCc # <<>>
  BY Whole, ClampsAreSensors
<1>6. /\ t \in Driver /\ t.alone = a.alone /\ t.read = a.read
      /\ \/ t.resp = "WAIT" /\ Like(a, t)
         \/ t.resp = "OK" /\ HasBegun(a, AllCc, "CC", FALSE, t)
  <2>1. PICK q : q = AllCc
    OBVIOUS
  <2>0. PICK e \in BOOLEAN : e = FALSE
    OBVIOUS
  <2>2. "CC" \in Keys /\ q \in Seq(Sensors) /\ q # <<>> /\ t = Begin(a, q, "CC", e)
    BY <1>4, <1>5, <2>0, <2>1 DEF Keys
  <2>3. /\ t \in Driver /\ t.alone = a.alone /\ t.read = a.read
        /\ \/ t.resp = "FAIL" /\ q = <<>>
           \/ t.resp = "WAIT" /\ Like(a, t)
           \/ t.resp = "OK" /\ HasBegun(a, q, "CC", e, t)
    <3>1. /\ a \in Driver /\ q \in Seq(Sensors) /\ "CC" \in Keys /\ e \in BOOLEAN
          /\ q # <<>> /\ t = Begin(a, q, "CC", e)
      BY <1>2, <2>2
    <3>2. /\ t \in Driver /\ t.alone = a.alone /\ t.read = a.read
          /\ \/ t.resp = "FAIL" /\ q = <<>> /\ Like(a, t)
             \/ t.resp = "WAIT" /\ q # <<>> /\ (a.inUse \/ a.key # None) /\ Like(a, t)
             \/ t.resp = "OK" /\ HasBegun(a, q, "CC", e, t)
      BY <3>1, BeginFields
    <3> QED BY <3>1, <3>2
  <2> QED BY <2>0, <2>1, <2>2, <2>3
<1>7. Sound(a)
  BY <1>3, SoundLike
<1>8. CASE t.resp = "WAIT" /\ Like(a, t)
  <2>1. ButActive(s, t) /\ t.active = AllCc
    BY <1>2, <1>3, <1>8 DEF Like, ButActive
  <2>2. Sound(t)
    BY <2>1, SoundLike
  <2> QED BY <1>2, <1>6, <1>8, <2>1, <2>2
<1>9. CASE t.resp = "OK" /\ HasBegun(a, AllCc, "CC", FALSE, t)
  <2>1. a.running = {} /\ a.key = None
    BY <1>7, <1>9 DEF Sound, HasBegun, None
  <2>2. CalStarted(s, t)
    BY <1>2, <1>3, <1>9, <2>1 DEF CalStarted, HasBegun, ButActive
  <2>3. Sound(t)
    BY <1>5, <2>2 DEF CalStarted, Sound, None
  <2> QED BY <1>2, <1>6, <2>2, <2>3 DEF CalStarted
<1> QED BY <1>6, <1>8, <1>9

\* How a wait for clamps ends: as it was, or with all clamps let go; then the
\* active clamps may be those of before.
CcEnded(s, before, t) ==
    \/ Like(s, t)
    \/ CcLetGo(s, t) /\ t.active \in {s.active, before}

LEMMA CcCalibrateEndFields ==
  ASSUME NEW s \in Driver, Sound(s), NEW before \in Seq(Clamps), NEW waited \in BOOLEAN,
         NEW t, t = CcCalibrateEnd(s, before, waited)
  PROVE  t \in Driver /\ Sound(t) /\ CcLetGo(s, t) /\ t.active \in {s.active, before}
<1>1. PICK b : b = Collect(s, Cc(1), 0, NumCc)
  OBVIOUS
<1>2. Cc(1) \in Sensors
  BY SensingNumbers DEF Sensors
<1>3. s.buf = <<>> => s.inUse \/ s.key = None
  BY DEF Sound
<1>4. b \in Driver /\ Like(s, b)
  BY <1>1, <1>2, <1>3, CollectFields, SensingNumbers
<1>5. CASE waited /\ b.resp = "OK"
  <2>1. PICK c : c = CcReleaseAll(b)
    OBVIOUS
  <2>2. Sound(b)
    BY <1>4, SoundLike DEF Like
  <2>3. c \in Driver /\ Sound(c) /\ CcLetGo(b, c)
    BY <1>4, <2>1, <2>2, CcReleaseAllFields
  <2>4. t = [c EXCEPT !.active = before]
    BY <1>1, <1>5, <2>1 DEF CcCalibrateEnd
  <2>5. t \in Driver /\ t.active = before
    BY <2>3, <2>4 DEF Driver
  <2>6. ButActive(c, t)
    BY <2>3, <2>4 DEF Driver, ButActive
  <2>7. Sound(t)
    BY <2>3, <2>6, SoundLike
  <2>8. CcLetGo(s, t)
    BY <1>4, <2>3, <2>6 DEF CcLetGo, Like, ButActive
  <2> QED BY <2>5, <2>7, <2>8
<1>6. CASE ~(waited /\ b.resp = "OK")
  <2>1. t = CcReleaseAll(s)
    BY <1>1, <1>6 DEF CcCalibrateEnd
  <2> QED BY <2>1, CcReleaseAllFields
<1> QED BY <1>5, <1>6

LEMMA CcBlockingEndFields ==
  ASSUME NEW s \in Driver, Sound(s), NEW n \in Clamps, NEW waited \in BOOLEAN,
         NEW fine \in BOOLEAN, NEW t, t = CcBlockingEnd(s, n, waited, fine)
  PROVE  /\ t \in Driver /\ Sound(t)
         /\ ~waited => t = s
         /\ waited => CcLetGo(s, t) /\ t.active = s.active
<1>1. CASE ~waited
  BY <1>1 DEF CcBlockingEnd
<1>2. CASE waited
  <2>1. PICK b : b = CcGet(s, n, fine)
    OBVIOUS
  <2>2. b \in Driver /\ Sound(b) /\ (CcNotGot(s, n, b) \/ CcGot(s, n, b))
    BY <2>1, CcGetFields
  <2>3. t = CcReleaseAll(b)
    BY <1>2, <2>1 DEF CcBlockingEnd
  <2>4. t \in Driver /\ Sound(t) /\ CcLetGo(b, t) /\ t.active = b.active
    BY <2>2, <2>3, CcReleaseAllFields
  <2>5. CASE CcNotGot(s, n, b)
    BY <1>2, <2>4, <2>5 DEF CcNotGot, CcLetGo, Like, ButActive
  <2>6. CASE CcGot(s, n, b)
    BY <1>2, <2>4, <2>6 DEF CcGot, CcLetGo, None
  <2> QED BY <2>2, <2>5, <2>6
<1> QED BY <1>1, <1>2

\* osm_cc_get_all_blocking: what begins all clamps, and what reads them, one by one.
BegunStep(t, i, early) ==
    IF t.resp \in {"OK", "SUCCESS"} THEN CcBegin(t, Cc(i), FALSE, early) ELSE t
Beginning(f, n, s, early) ==
    f = [i \in 0..n |-> IF i = 0 THEN CcSetActive(s, AllCc)
                        ELSE BegunStep(f[i - 1], i, early)]
GotStep(t, i, fine) == IF t.resp = "SUCCESS" THEN CcGet(t, Cc(i), fine) ELSE t
Getting(f, n, s, fine) ==
    f = [i \in 0..n |-> IF i = 0 THEN Reply(s, "SUCCESS") ELSE GotStep(f[i - 1], i, fine)]

LEMMA BeginningExists ==
  ASSUME NEW s, NEW x, NEW n \in Nat
  PROVE  \E f : Beginning(f, n, s, x)
<1> DEFINE Q == {k \in Nat : \E f : Beginning(f, k, s, x)}
<1>1. 0 \in Q
  <2>1. Beginning([i \in 0..0 |-> CcSetActive(s, AllCc)], 0, s, x)
    BY DEF Beginning
  <2> QED BY <2>1
<1>2. ASSUME NEW k \in Nat, k \in Q PROVE k + 1 \in Q
  <2>1. PICK f : Beginning(f, k, s, x)
    BY <1>2
  <2> DEFINE g == [i \in 0..(k + 1) |-> IF i = k + 1 THEN BegunStep(f[k], i, x) ELSE f[i]]
  <2>2. \A i \in 0..k : g[i] = f[i]
    OBVIOUS
  <2>3. g[k + 1] = BegunStep(g[k], k + 1, x)
    BY <2>2
  <2>4. \A i \in 0..k : g[i] = IF i = 0 THEN CcSetActive(s, AllCc) ELSE BegunStep(g[i - 1], i, x)
    BY <2>1, <2>2 DEF Beginning
  <2>5. g = [i \in 0..(k + 1) |-> g[i]]
    OBVIOUS
  <2> HIDE DEF g
  <2>6. \A i \in 0..(k + 1) : g[i] = IF i = 0 THEN CcSetActive(s, AllCc) ELSE BegunStep(g[i - 1], i, x)
    BY <2>3, <2>4
  <2>7. Beginning(g, k + 1, s, x)
    BY <2>5, <2>6 DEF Beginning
  <2> QED BY <2>7
<1> HIDE DEF Q
<1>3. Nat \subseteq Q
  BY <1>1, <1>2, Induction
<1> QED BY <1>3 DEF Q

LEMMA GettingExists ==
  ASSUME NEW s, NEW x, NEW n \in Nat
  PROVE  \E f : Getting(f, n, s, x)
<1> DEFINE Q == {k \in Nat : \E f : Getting(f, k, s, x)}
<1>1. 0 \in Q
  <2>1. Getting([i \in 0..0 |-> Reply(s, "SUCCESS")], 0, s, x)
    BY DEF Getting
  <2> QED BY <2>1
<1>2. ASSUME NEW k \in Nat, k \in Q PROVE k + 1 \in Q
  <2>1. PICK f : Getting(f, k, s, x)
    BY <1>2
  <2> DEFINE g == [i \in 0..(k + 1) |-> IF i = k + 1 THEN GotStep(f[k], i, x) ELSE f[i]]
  <2>2. \A i \in 0..k : g[i] = f[i]
    OBVIOUS
  <2>3. g[k + 1] = GotStep(g[k], k + 1, x)
    BY <2>2
  <2>4. \A i \in 0..k : g[i] = IF i = 0 THEN Reply(s, "SUCCESS") ELSE GotStep(g[i - 1], i, x)
    BY <2>1, <2>2 DEF Getting
  <2>5. g = [i \in 0..(k + 1) |-> g[i]]
    OBVIOUS
  <2> HIDE DEF g
  <2>6. \A i \in 0..(k + 1) : g[i] = IF i = 0 THEN Reply(s, "SUCCESS") ELSE GotStep(g[i - 1], i, x)
    BY <2>3, <2>4
  <2>7. Getting(g, k + 1, s, x)
    BY <2>5, <2>6 DEF Getting
  <2> QED BY <2>7
<1> HIDE DEF Q
<1>3. Nat \subseteq Q
  BY <1>1, <1>2, Induction
<1> QED BY <1>3 DEF Q


LEMMA CcAllBeginIs ==
  ASSUME NEW s, NEW early
  PROVE  \E f : Beginning(f, NumCc, s, early) /\ CcAllBegin(s, early) = f[NumCc]
<1> DEFINE f == CHOOSE f : Beginning(f, NumCc, s, early)
<1>1. Beginning(f, NumCc, s, early)
  BY BeginningExists, SensingNumbers
<1>2. CcAllBegin(s, early) = f[NumCc]
  BY DEF CcAllBegin, Beginning, BegunStep
<1> HIDE DEF f
<1> QED BY <1>1, <1>2

LEMMA CcAllEndIs ==
  ASSUME NEW s, NEW before, NEW fine
  PROVE  \E f : /\ Getting(f, NumCc, s, fine)
                /\ CcAllEnd(s, before, TRUE, fine) \in
                       {CcSetActive(CcReleaseAll(f[NumCc]), before), CcReleaseAll(f[NumCc])}
<1> DEFINE f == CHOOSE f : Getting(f, NumCc, s, fine)
<1>1. Getting(f, NumCc, s, fine)
  BY GettingExists, SensingNumbers
<1>2. CcAllEnd(s, before, TRUE, fine) =
          IF f[NumCc].resp = "SUCCESS"
          THEN CcSetActive(CcReleaseAll(f[NumCc]), before)
          ELSE CcReleaseAll(f[NumCc])
  BY DEF CcAllEnd, Getting, GotStep
<1> HIDE DEF f
<1> QED BY <1>1, <1>2

LEMMA CcJoins ==
  ASSUME NEW s \in Driver, NEW n \in Clamps, NEW m \in s.running, m # n,
         s.active # <<>>, s.alone = NoSensor, NEW early \in BOOLEAN,
         NEW t, t = CcBegin(s, n, FALSE, early)
  PROVE  t \in Driver /\ CcJoined(s, n, t) /\ t.alone = s.alone /\ t.read = s.read
<1> DEFINE r == s.running \cup {n}
<1>1. r \in SUBSET Clamps
  BY DEF Driver
<1>2. s.running \ {n} # {} /\ s.running # {}
  OBVIOUS
<1>3. t = [s EXCEPT !.running = r, !.resp = "SUCCESS"]
  BY <1>2 DEF CcBegin, Reply
<1>4. t \in Driver
  <2> HIDE DEF r
  <2> QED BY <1>1, <1>3 DEF Driver, Says
<1>5. CcJoined(s, n, t) /\ t.read = s.read /\ t.alone = s.alone
  BY <1>2, <1>3 DEF Driver, CcJoined
<1> QED BY <1>4, <1>5

\* Nothing was begun: at most all clamps are active now.
AllRefused(s, t) ==
    /\ t.resp \notin {"OK", "SUCCESS"}
    /\ ButActive(s, t)
    /\ t.active = s.active \/ (s.running = {} /\ t.active = AllCc)

AllStarted(s, t) ==
    /\ t.resp = "SUCCESS" /\ s.key = None /\ s.running = {}
    /\ t.inUse = TRUE /\ t.key = "CC" /\ t.seq = AllCc /\ t.buf = s.buf
    /\ t.on = TRUE /\ t.active = AllCc /\ Cc(1) \in t.running
    /\ t.ftOn = s.ftOn /\ t.inited = s.inited /\ t.bat = s.bat

BegunSoFar(s, i, t) ==
    /\ t \in Driver /\ Sound(t) /\ t.alone = s.alone /\ t.read = s.read
    /\ \/ AllRefused(s, t)
       \/ /\ i = 0 /\ t.resp = "OK" /\ s.running = {}
          /\ ButActive(s, t) /\ t.active = AllCc
       \/ i # 0 /\ s.alone = NoSensor /\ AllStarted(s, t)

LEMMA BegunFirst ==
  ASSUME NEW s \in Driver, Sound(s), NEW t, t = CcSetActive(s, AllCc)
  PROVE  BegunSoFar(s, 0, t)
<1>1. /\ t \in Driver /\ ButActive(s, t) /\ t.alone = s.alone /\ t.read = s.read
      /\ s.running # {} => t.active = s.active /\ t.resp = "FAIL"
      /\ s.running = {} => t.active = AllCc /\ t.resp = "OK"
  <2>1. PICK q \in Seq(Clamps) : q = AllCc
    BY Whole
  <2>2. t = CcSetActive(s, q)
    BY <2>1
  <2>3. /\ t \in Driver /\ ButActive(s, t) /\ t.alone = s.alone /\ t.read = s.read
        /\ s.running # {} => t.active = s.active /\ t.resp = "FAIL"
        /\ s.running = {} => t.active = q /\ t.resp = "OK"
    BY <2>2, CcSetActiveFields
  <2> QED BY <2>1, <2>3
<1>2. Sound(t)
  BY <1>1, SoundLike
<1> QED BY <1>1, <1>2 DEF BegunSoFar, AllRefused

LEMMA BegunNext ==
  ASSUME NEW s \in Driver, NEW i \in 1..NumCc, NEW b, BegunSoFar(s, i - 1, b),
         NEW t, t = BegunStep(b, i, FALSE)
  PROVE  BegunSoFar(s, i, t)
<1>1. b \in Driver /\ Sound(b) /\ b.alone = s.alone /\ b.read = s.read
  BY DEF BegunSoFar
<1>2. Cc(i) \in Clamps /\ Cc(1) \in Clamps
  BY SensingNumbers DEF Clamps
<1>3. CASE AllRefused(s, b)
  <2>1. t = b
    BY <1>3 DEF BegunStep, AllRefused
  <2> QED BY <1>1, <1>3, <2>1 DEF BegunSoFar
<1>4. CASE /\ i - 1 = 0 /\ b.resp = "OK" /\ s.running = {}
           /\ ButActive(s, b) /\ b.active = AllCc
  <2>1. PICK no \in BOOLEAN : no = FALSE
    OBVIOUS
  <2>2. PICK n \in Clamps : n = Cc(i)
    BY <1>2
  <2>3. t = CcBegin(b, n, no, no)
    BY <1>4, <2>1, <2>2 DEF BegunStep
  <2>4. /\ t \in Driver /\ t.read = b.read /\ (~no => t.alone = b.alone)
        /\ \/ CcRefused(b, t)
           \/ ~no /\ CcJoined(b, n, t)
           \/ no /\ CcStarted(b, n, <<n>>, no, t)
           \/ ~no /\ b.alone = NoSensor /\ CcStarted(b, n, b.active, no, t)
    BY <1>1, <2>3, CcBeginFields
  <2>5. t.alone = s.alone /\ t.read = s.read
    BY <1>1, <2>1, <2>4
  <2>6. CASE CcRefused(b, t)
    <3>1. AllRefused(s, t)
      BY <1>4, <2>6 DEF AllRefused, CcRefused, Like, ButActive
    <3>2. Sound(t)
      BY <1>1, <2>6, SoundLike DEF CcRefused, Like
    <3> QED BY <2>4, <2>5, <3>1, <3>2 DEF BegunSoFar
  <2>7. CASE CcJoined(b, n, t)
    BY <1>4, <2>7 DEF CcJoined, ButActive
  <2>8. CASE b.alone = NoSensor /\ CcStarted(b, n, b.active, no, t)
    <3>1. i = 1
      BY <1>4
    <3>2. AllStarted(s, t)
      BY <1>4, <2>1, <2>2, <2>8, <3>1 DEF AllStarted, CcStarted, ButActive
    <3>3. Sound(t)
      <4>1. (no => b.buf # <<>>) /\ CcStarted(b, n, b.active, no, t)
        BY <2>1, <2>8
      <4> QED BY <1>1, <4>1, CcBeginSound
    <3>4. s.alone = NoSensor
      BY <1>1, <2>8
    <3>5. i # 0
      BY <3>1
    <3> QED BY <2>4, <2>5, <3>2, <3>3, <3>4, <3>5, Zenon DEF BegunSoFar
  <2> QED BY <2>1, <2>4, <2>6, <2>7, <2>8
<1>5. CASE i - 1 # 0 /\ s.alone = NoSensor /\ AllStarted(s, b)
  <2>1. PICK n \in Clamps : n = Cc(i)
    BY <1>2
  <2>2. PICK m : m = Cc(1)
    OBVIOUS
  <2>3. m # n
    BY <1>5, <2>1, <2>2 DEF Cc
  <2>4. PICK no \in BOOLEAN : no = FALSE
    OBVIOUS
  <2>5. m \in b.running /\ b.active # <<>> /\ b.alone = NoSensor
    BY <1>1, <1>5, <2>2, Whole DEF AllStarted
  <2>6. t = CcBegin(b, n, FALSE, no)
    BY <1>5, <2>1, <2>4 DEF BegunStep, AllStarted
  <2>7. t \in Driver /\ CcJoined(b, n, t) /\ t.alone = b.alone /\ t.read = b.read
    BY <1>1, <2>3, <2>5, <2>6, CcJoins
  <2>8. AllStarted(s, t)
    BY <1>5, <2>7 DEF AllStarted, CcJoined
  <2>9. Sound(t)
    BY <1>1, <2>7 DEF CcJoined, Sound
  <2>10. i # 0
    OBVIOUS
  <2>11. t.alone = s.alone /\ t.read = s.read
    BY <1>1, <2>7
  <2> QED BY <1>5, <2>7, <2>8, <2>9, <2>10, <2>11 DEF BegunSoFar
<1> QED BY <1>3, <1>4, <1>5 DEF BegunSoFar

LEMMA CcAllBeginFields ==
  ASSUME NEW s \in Driver, Sound(s), NEW t, t = CcAllBegin(s, FALSE)
  PROVE  /\ t \in Driver /\ Sound(t) /\ t.alone = s.alone /\ t.read = s.read
         /\ AllRefused(s, t) \/ AllStarted(s, t)
<1>0. PICK no \in BOOLEAN : no = FALSE
  OBVIOUS
<1>1. PICK f : Beginning(f, NumCc, s, no) /\ t = f[NumCc]
  BY <1>0, CcAllBeginIs
<1> DEFINE Q == {k \in Nat : k <= NumCc => BegunSoFar(s, k, f[k])}
<1>2. 0 \in Q
  <2>1. f[0] = CcSetActive(s, AllCc)
    BY <1>1, SensingNumbers DEF Beginning
  <2> QED BY <2>1, BegunFirst
<1>3. ASSUME NEW k \in Nat, k \in Q PROVE k + 1 \in Q
  <2> SUFFICES ASSUME k + 1 <= NumCc PROVE BegunSoFar(s, k + 1, f[k + 1])
    OBVIOUS
  <2>1. PICK i \in 1..NumCc : i = k + 1
    BY SensingNumbers
  <2>2. i - 1 = k /\ k <= NumCc
    BY <2>1, SensingNumbers
  <2>3. f[i] = BegunStep(f[i - 1], i, no)
    BY <1>1, <2>1, SensingNumbers DEF Beginning
  <2>4. BegunSoFar(s, i - 1, f[i - 1])
    BY <1>3, <2>2
  <2>5. BegunSoFar(s, i, f[i])
    BY <1>0, <2>3, <2>4, BegunNext
  <2> QED BY <2>1, <2>5
<1> HIDE DEF Q
<1>4. Nat \subseteq Q
  BY <1>2, <1>3, Induction
<1>5. NumCc \in Q
  BY <1>4, SensingNumbers
<1>6. BegunSoFar(s, NumCc, f[NumCc])
  BY <1>5, SensingNumbers DEF Q
<1>7. NumCc # 0
  BY SensingNumbers
<1> QED BY <1>1, <1>6, <1>7, Zenon DEF BegunSoFar

LEMMA CcPutBack ==
  ASSUME NEW s \in Driver, Sound(s), NEW clamps \in Seq(Clamps),
         NEW t, t = CcSetActive(s, clamps)
  PROVE  t \in Driver /\ Sound(t) /\ ButActive(s, t) /\ t.active \in {s.active, clamps}
<1>1. /\ t \in Driver /\ ButActive(s, t) /\ t.alone = s.alone /\ t.read = s.read
      /\ s.running # {} => t.active = s.active /\ t.resp = "FAIL"
      /\ s.running = {} => t.active = clamps /\ t.resp = "OK"
  BY CcSetActiveFields
<1> QED BY <1>1, SoundLike

\* What reading clamps changes: some of them no longer run.
SomeGot(s, t) ==
    /\ t.inUse = s.inUse /\ t.seq = s.seq /\ t.buf = s.buf /\ t.on = s.on
    /\ t.active = s.active
    /\ t.ftOn = s.ftOn /\ t.inited = s.inited /\ t.bat = s.bat
    /\ t.key = s.key \/ (s.key = "CC" /\ t.key = None)

GotSoFar(s, t) == t \in Driver /\ Sound(t) /\ SomeGot(s, t)

LEMMA GotNext ==
  ASSUME NEW s \in Driver, NEW i \in 1..NumCc, NEW fine \in BOOLEAN,
         NEW b, GotSoFar(s, b), NEW t, t = GotStep(b, i, fine)
  PROVE  GotSoFar(s, t)
<1>1. CASE b.resp # "SUCCESS"
  BY <1>1 DEF GotStep
<1>2. CASE b.resp = "SUCCESS"
  <2>1. PICK n \in Clamps : n = Cc(i)
    BY DEF Clamps
  <2>2. b \in Driver /\ Sound(b) /\ t = CcGet(b, n, fine)
    BY <1>2, <2>1 DEF GotSoFar, GotStep
  <2>3. t \in Driver /\ Sound(t) /\ (CcNotGot(b, n, t) \/ CcGot(b, n, t))
    BY <2>2, CcGetFields
  <2>4. CASE CcNotGot(b, n, t)
    BY <2>3, <2>4 DEF GotSoFar, SomeGot, CcNotGot, Like, ButActive
  <2>5. CASE CcGot(b, n, t)
    BY <2>3, <2>5 DEF GotSoFar, SomeGot, CcGot, None
  <2> QED BY <2>3, <2>4, <2>5
<1> QED BY <1>1, <1>2

LEMMA CcAllEndFields ==
  ASSUME NEW s \in Driver, Sound(s), NEW before \in Seq(Clamps), NEW fine \in BOOLEAN,
         NEW t, t = CcAllEnd(s, before, TRUE, fine)
  PROVE  t \in Driver /\ Sound(t) /\ CcLetGo(s, t) /\ t.active \in {s.active, before}
<1>1. PICK f : /\ Getting(f, NumCc, s, fine)
               /\ t \in {CcSetActive(CcReleaseAll(f[NumCc]), before), CcReleaseAll(f[NumCc])}
  BY CcAllEndIs
<1> DEFINE Q == {k \in Nat : k <= NumCc => GotSoFar(s, f[k])}
<1>2. 0 \in Q
  <2>1. f[0] = Reply(s, "SUCCESS")
    BY <1>1, SensingNumbers DEF Getting
  <2>2. PICK a : a = [s EXCEPT !.resp = "SUCCESS"]
    OBVIOUS
  <2>3. a \in Driver
    BY <2>2 DEF Driver, Says
  <2>4. Like(s, a)
    BY <2>2 DEF Driver, Like, ButActive
  <2>5. Sound(a)
    BY <2>4, SoundLike DEF Like
  <2>6. GotSoFar(s, a)
    BY <2>3, <2>4, <2>5 DEF GotSoFar, SomeGot, Like, ButActive
  <2> QED BY <2>1, <2>2, <2>6 DEF Reply
<1>3. ASSUME NEW k \in Nat, k \in Q PROVE k + 1 \in Q
  <2> SUFFICES ASSUME k + 1 <= NumCc PROVE GotSoFar(s, f[k + 1])
    OBVIOUS
  <2>1. PICK i \in 1..NumCc : i = k + 1
    BY SensingNumbers
  <2>2. i - 1 = k /\ k <= NumCc
    BY <2>1, SensingNumbers
  <2>3. f[i] = GotStep(f[i - 1], i, fine)
    BY <1>1, <2>1, SensingNumbers DEF Getting
  <2>4. GotSoFar(s, f[i - 1])
    BY <1>3, <2>2
  <2>5. GotSoFar(s, f[i])
    BY <2>3, <2>4, GotNext
  <2> QED BY <2>1, <2>5
<1> HIDE DEF Q
<1>4. Nat \subseteq Q
  BY <1>2, <1>3, Induction
<1>5. PICK b : b = f[NumCc]
  OBVIOUS
<1>6. GotSoFar(s, b)
  BY <1>4, <1>5, SensingNumbers DEF Q
<1>7. b \in Driver /\ Sound(b) /\ SomeGot(s, b)
  BY <1>6 DEF GotSoFar
<1>8. PICK c : c = CcReleaseAll(b)
  OBVIOUS
<1>9. c \in Driver /\ Sound(c) /\ c.active = b.active /\ CcLetGo(b, c)
  BY <1>7, <1>8, CcReleaseAllFields
<1>10. CcLetGo(s, c) /\ c.active = s.active
  BY <1>7, <1>9 DEF SomeGot, CcLetGo, None
<1>11. CASE t = c
  BY <1>9, <1>10, <1>11
<1>12. CASE t = CcSetActive(c, before)
  <2>1. t \in Driver /\ Sound(t) /\ ButActive(c, t) /\ t.active \in {c.active, before}
    BY <1>9, <1>12, CcPutBack
  <2>2. CcLetGo(s, t)
    BY <1>10, <2>1 DEF CcLetGo, ButActive
  <2> QED BY <1>10, <2>1, <2>2
<1> QED BY <1>1, <1>5, <1>8, <1>11, <1>12

-----------------------------------------------------------------------------
(* The 4-20 mA inputs.                                                     *)

Refused(s, t) == t.resp \in {"ERROR", "BUSY"} /\ Like(s, t)

FtJoined(s, n, t) ==
    /\ t.resp = "SUCCESS" /\ s.ftOn
    /\ t.inUse = s.inUse /\ t.key = s.key /\ t.seq = s.seq /\ t.buf = s.buf
    /\ t.on = s.on /\ t.active = s.active /\ t.running = s.running
    /\ t.ftOn = s.ftOn /\ t.inited = s.inited \cup {n} /\ t.bat = s.bat

FtStarted(s, n, early, t) ==
    /\ t.resp = "SUCCESS" /\ s.key = None
    /\ t.inUse = ~early /\ t.key = "FT" /\ t.seq = AllFt /\ t.buf = s.buf
    /\ t.on = TRUE /\ t.active = s.active /\ t.running = s.running
    /\ t.ftOn = TRUE /\ t.inited = s.inited \cup {n} /\ t.bat = s.bat

LEMMA Replied ==
  ASSUME NEW s \in Driver, Sound(s), NEW r \in Says, NEW t, t = [s EXCEPT !.resp = r]
  PROVE  /\ t \in Driver /\ Sound(t) /\ Like(s, t)
         /\ t.resp = r /\ t.alone = s.alone /\ t.read = s.read
<1>1. t \in Driver
  BY DEF Driver
<1>2. Like(s, t) /\ t.resp = r /\ t.alone = s.alone /\ t.read = s.read
  BY DEF Driver, Like, ButActive
<1>3. Sound(t)
  BY <1>2, SoundLike DEF Like
<1> QED BY <1>1, <1>2, <1>3

LEMMA FtBeginFields ==
  ASSUME NEW s \in Driver, Sound(s), NEW n \in Inputs, NEW early \in BOOLEAN,
         early => s.buf # <<>>, NEW late \in BOOLEAN, NEW t, t = FtBegin(s, n, early, late)
  PROVE  /\ t \in Driver /\ Sound(t) /\ t.alone = s.alone /\ t.read = s.read
         /\ Refused(s, t) \/ FtJoined(s, n, t) \/ FtStarted(s, n, early, t)
<1>1. CASE n \in s.inited \/ (s.ftOn /\ late)
  <2>1. t = [s EXCEPT !.resp = "ERROR"]
    BY <1>1 DEF FtBegin, Reply
  <2>2. "ERROR" \in Says
    BY DEF Says
  <2>3. /\ t \in Driver /\ Sound(t) /\ Like(s, t)
        /\ t.resp = "ERROR" /\ t.alone = s.alone /\ t.read = s.read
    BY <2>1, <2>2, Replied
  <2> QED BY <2>3 DEF Refused
<1>2. CASE n \notin s.inited /\ s.ftOn /\ ~late
  <2>1. PICK r : r = s.inited \cup {n}
    OBVIOUS
  <2>2. r \in SUBSET Inputs
    BY <2>1 DEF Driver
  <2>3. t = [s EXCEPT !.inited = r, !.resp = "SUCCESS"]
    BY <1>2, <2>1 DEF FtBegin, Reply
  <2>4. t \in Driver
    BY <2>2, <2>3 DEF Driver, Says
  <2>5. t.inited = r /\ t.alone = s.alone /\ t.read = s.read
    BY <2>3 DEF Driver
  <2>6. /\ t.resp = "SUCCESS" /\ t.inUse = s.inUse /\ t.key = s.key /\ t.seq = s.seq
        /\ t.buf = s.buf /\ t.on = s.on /\ t.active = s.active /\ t.running = s.running
        /\ t.ftOn = s.ftOn /\ t.bat = s.bat
    BY <2>3 DEF Driver
  <2>7. FtJoined(s, n, t)
    BY <1>2, <2>1, <2>5, <2>6 DEF FtJoined
  <2>8. t.inited # {} /\ s.inited # {}
    BY <1>2, <2>1, <2>5 DEF Sound
  <2>9. Sound(t)
    BY <2>6, <2>8 DEF Sound
  <2> QED BY <2>4, <2>5, <2>7, <2>9
<1>3. CASE n \notin s.inited /\ ~s.ftOn
  <2>1. PICK q : q = AllFt
    OBVIOUS
  <2>2. q \in Seq(Sensors) /\ q # <<>> /\ "FT" \in Keys
    BY <2>1, Whole, InputsAreSensors DEF Keys
  <2>3. PICK b : b = Begin(s, q, "FT", early)
    OBVIOUS
  <2>4. /\ b \in Driver /\ b.alone = s.alone /\ b.read = s.read
        /\ \/ b.resp = "FAIL" /\ q = <<>> /\ Like(s, b)
           \/ b.resp = "WAIT" /\ q # <<>> /\ (s.inUse \/ s.key # None) /\ Like(s, b)
           \/ b.resp = "OK" /\ HasBegun(s, q, "FT", early, b)
    BY <2>2, <2>3, BeginFields
  <2>5. t = CASE b.resp = "FAIL" -> Reply(b, "ERROR")
              [] b.resp = "WAIT" -> Reply(b, "BUSY")
              [] b.resp = "OK" ->
                     Reply([b EXCEPT !.ftOn = TRUE, !.inited = @ \cup {n}], "SUCCESS")
    BY <1>3, <2>1, <2>3 DEF FtBegin
  <2>6. CASE b.resp = "WAIT" /\ Like(s, b)
    <3>1. t = [b EXCEPT !.resp = "BUSY"]
      BY <2>5, <2>6 DEF Reply
    <3>2. Sound(b) /\ "BUSY" \in Says
      BY <2>6, SoundLike DEF Like, Says
    <3>3. /\ t \in Driver /\ Sound(t) /\ Like(b, t)
          /\ t.resp = "BUSY" /\ t.alone = b.alone /\ t.read = b.read
      BY <2>4, <3>1, <3>2, Replied
    <3>4. Like(s, t)
      BY <2>6, <3>3 DEF Like, ButActive
    <3> QED BY <2>4, <3>3, <3>4 DEF Refused
  <2>7. CASE b.resp = "OK" /\ HasBegun(s, q, "FT", early, b)
    <3>1. PICK r : r = b.inited \cup {n}
      OBVIOUS
    <3>2. r \in SUBSET Inputs
      BY <2>4, <3>1 DEF Driver
    <3>3. t = [b EXCEPT !.ftOn = TRUE, !.inited = r, !.resp = "SUCCESS"]
      BY <2>5, <2>7, <3>1 DEF Reply
    <3>4. t \in Driver
      BY <2>4, <3>2, <3>3 DEF Driver, Says
    <3>5. t.inited = r /\ t.alone = s.alone /\ t.read = s.read
      BY <2>4, <3>3 DEF Driver
    <3>6. /\ t.resp = "SUCCESS" /\ t.inUse = b.inUse /\ t.key = b.key /\ t.seq = b.seq
          /\ t.buf = b.buf /\ t.on = b.on /\ t.active = b.active /\ t.running = b.running
          /\ t.ftOn = TRUE /\ t.bat = b.bat
      BY <2>4, <3>3 DEF Driver
    <3>7. FtStarted(s, n, early, t)
      BY <2>1, <2>7, <3>1, <3>5, <3>6 DEF FtStarted, HasBegun
    <3>8. t.inited # {}
      BY <3>1, <3>5
    <3>9. Sound(t)
      BY <2>1, <2>2, <3>7, <3>8 DEF FtStarted, Sound, None
    <3> QED BY <3>4, <3>5, <3>7, <3>9
  <2> QED BY <2>2, <2>4, <2>6, <2>7
<1> QED BY <1>1, <1>2, <1>3

FtNotGot(s, n, t) ==
    /\ Like(s, t) /\ t.read = s.read
    /\ \/ t.resp = "ERROR" /\ n \notin s.inited
       \/ t.resp = "BUSY" /\ s.inUse

FtGot(s, n, t) ==
    /\ n \in s.inited /\ s.key = "FT" /\ ~s.inUse /\ t.resp \in {"SUCCESS", "ERROR"}
    /\ t.inUse = s.inUse /\ t.seq = s.seq /\ t.buf = s.buf /\ t.on = s.on
    /\ t.active = s.active /\ t.running = s.running
    /\ ~t.ftOn /\ t.inited = s.inited \ {n} /\ t.bat = s.bat
    /\ t.inited = {} => t.key = None
    /\ t.inited # {} => t.key = "FT"

LEMMA FtGetFields ==
  ASSUME NEW s \in Driver, Sound(s), NEW n \in Inputs, NEW fine \in BOOLEAN,
         NEW t, t = FtGet(s, n, fine)
  PROVE  /\ t \in Driver /\ Sound(t) /\ t.alone = s.alone
         /\ \/ FtNotGot(s, n, t)
            \/ /\ FtGot(s, n, t)
               /\ t.read = [of |-> n, from |-> SamplesOf(s.buf, n[2] - 1, NumFt)]
<1>1. CASE n \notin s.inited
  <2>1. t = [s EXCEPT !.resp = "ERROR"]
    BY <1>1 DEF FtGet, Reply
  <2>2. "ERROR" \in Says
    BY DEF Says
  <2>3. /\ t \in Driver /\ Sound(t) /\ Like(s, t)
        /\ t.resp = "ERROR" /\ t.alone = s.alone /\ t.read = s.read
    BY <2>1, <2>2, Replied
  <2> QED BY <1>1, <2>3 DEF FtNotGot
<1>2. CASE n \in s.inited
  <2>1. PICK start : start = n[2] - 1
    OBVIOUS
  <2>2. start \in Nat /\ n \in Sensors /\ KeyOf(n) = "FT" /\ NumFt \in Nat
    BY <2>1, Kinds, SensingNumbers
  <2>3. PICK b : b = Collect(s, n, start, NumFt)
    OBVIOUS
  <2>4. s.buf = <<>> => s.inUse \/ s.key = None
    BY DEF Sound
  <2>5. /\ b \in Driver /\ Like(s, b) /\ b.alone = s.alone
        /\ \/ b.resp = "WAIT" /\ (s.inUse \/ s.key # KeyOf(n)) /\ b.read = s.read
           \/ /\ b.resp = "OK" /\ ~s.inUse /\ s.key = KeyOf(n)
              /\ b.read = [of |-> n, from |-> SamplesOf(s.buf, start, NumFt)]
    BY <2>2, <2>3, <2>4, CollectFields
  <2>6. t = IF b.resp = "WAIT" THEN Reply(b, "BUSY")
            ELSE Reply(FtAutoRelease([b EXCEPT !.ftOn = FALSE, !.inited = @ \ {n}]),
                       IF fine THEN "SUCCESS" ELSE "ERROR")
    BY <1>2, <2>1, <2>3 DEF FtGet
  <2>7. s.key = "FT"
    BY <1>2 DEF Sound
  <2>8. Sound(b)
    BY <2>5, SoundLike DEF Like
  <2>9. CASE b.resp = "WAIT"
    <3>1. t = [b EXCEPT !.resp = "BUSY"]
      BY <2>6, <2>9 DEF Reply
    <3>2. "BUSY" \in Says
      BY DEF Says
    <3>3. /\ t \in Driver /\ Sound(t) /\ Like(b, t)
          /\ t.resp = "BUSY" /\ t.alone = b.alone /\ t.read = b.read
      BY <2>5, <2>8, <3>1, <3>2, Replied
    <3>4. Like(s, t)
      BY <2>5, <3>3 DEF Like, ButActive
    <3>5. s.inUse /\ b.read = s.read
      BY <2>2, <2>5, <2>7, <2>9
    <3> QED BY <2>5, <3>3, <3>4, <3>5 DEF FtNotGot
  <2>10. CASE b.resp = "OK"
    <3>1. PICK r : r = b.inited \ {n}
      OBVIOUS
    <3>2. r \in SUBSET Inputs
      BY <2>5, <3>1 DEF Driver
    <3>3. PICK c : c = [b EXCEPT !.ftOn = FALSE, !.inited = r]
      OBVIOUS
    <3>4. c \in Driver
      BY <2>5, <3>2, <3>3 DEF Driver
    <3>5. /\ c.inited = r /\ ~c.ftOn /\ c.inUse = b.inUse /\ c.key = b.key /\ c.seq = b.seq
          /\ c.buf = b.buf /\ c.on = b.on /\ c.active = b.active /\ c.running = b.running
          /\ c.bat = b.bat /\ c.alone = b.alone /\ c.read = b.read
      BY <2>5, <3>3 DEF Driver
    <3>6. PICK e : e = FtAutoRelease(c)
      OBVIOUS
    <3>7. /\ e \in Driver /\ e.running = c.running /\ e.inUse = c.inUse /\ e.seq = c.seq
          /\ e.buf = c.buf /\ e.on = c.on /\ e.active = c.active /\ e.ftOn = c.ftOn
          /\ e.inited = c.inited /\ e.bat = c.bat /\ e.alone = c.alone /\ e.read = c.read
      BY <3>4, <3>6, ReleaseFields DEF FtAutoRelease, Keys
    <3>8. /\ c.inited = {} => e.key = IF c.key = "FT" THEN None ELSE c.key
          /\ c.inited # {} => e.key = c.key
      BY <3>4, <3>6, ReleaseFields DEF FtAutoRelease, Keys
    <3>9. PICK says \in {"SUCCESS", "ERROR"} : t = [e EXCEPT !.resp = says]
      BY <2>6, <2>10, <3>1, <3>3, <3>6 DEF Reply
    <3>10. t \in Driver
      BY <3>7, <3>9 DEF Driver, Says
    <3>11. Like(e, t) /\ t.resp \in {"SUCCESS", "ERROR"} /\ t.read = e.read /\ t.alone = e.alone
      BY <3>7, <3>9 DEF Driver, Like, ButActive
    <3>12. ~s.inUse /\ b.read = [of |-> n, from |-> SamplesOf(s.buf, start, NumFt)]
      BY <2>5, <2>10
    <3>13. c.key = "FT" /\ r = s.inited \ {n}
      BY <2>5, <2>7, <3>1, <3>5 DEF Like, ButActive
    <3>14. FtGot(s, n, t)
      BY <1>2, <2>5, <2>7, <3>5, <3>7, <3>8, <3>11, <3>12, <3>13
         DEF FtGot, Like, ButActive
    <3>15. t.read = [of |-> n, from |-> SamplesOf(s.buf, n[2] - 1, NumFt)]
      BY <2>1, <3>5, <3>7, <3>11, <3>12
    <3>16. Sound(t)
      BY <3>14 DEF FtGot, Sound, None
    <3> QED BY <2>5, <3>5, <3>7, <3>10, <3>11, <3>14, <3>15, <3>16
  <2> QED BY <2>5, <2>9, <2>10
<1> QED BY <1>1, <1>2

-----------------------------------------------------------------------------
(* The battery.                                                            *)

\* The rest of the state is as it was.
BatElse(s, t) ==
    /\ t.active = s.active /\ t.running = s.running
    /\ t.ftOn = s.ftOn /\ t.inited = s.inited /\ t.buf = s.buf

BatRefused(s, t) ==
    /\ t.resp \in {"ERROR", "BUSY"}
    /\ BatElse(s, t) /\ t.inUse = s.inUse /\ t.seq = s.seq /\ t.on = s.on
    /\ ~t.bat
    /\ s.key = "BAT" => t.key = None
    /\ s.key # "BAT" => t.key = s.key

BatStarted(s, early, t) ==
    /\ t.resp = "SUCCESS" /\ s.key \in {None, "BAT"}
    /\ BatElse(s, t) /\ t.inUse = ~early /\ t.key = "BAT" /\ t.seq = <<Bat>> /\ t.on = TRUE
    /\ t.bat

LEMMA BatForgets ==
  ASSUME NEW s \in Driver, Sound(s), NEW c, c = BatCheckRequest(s)
  PROVE  /\ c \in Driver /\ Sound(c) /\ c.alone = s.alone /\ c.read = s.read
         /\ BatElse(s, c) /\ c.inUse = s.inUse /\ c.seq = s.seq /\ c.on = s.on
         /\ ~c.bat
         /\ s.key = "BAT" => c.key = None
         /\ s.key # "BAT" => c.key = s.key
<1>1. CASE ~s.bat
  <2>1. c = s
    BY <1>1 DEF BatCheckRequest
  <2> QED BY <1>1, <2>1 DEF BatElse, Sound
<1>2. CASE s.bat
  <2>1. PICK a : a = [s EXCEPT !.bat = FALSE]
    OBVIOUS
  <2>2. a \in Driver
    BY <2>1 DEF Driver
  <2>3. /\ BatElse(s, a) /\ a.inUse = s.inUse /\ a.seq = s.seq /\ a.on = s.on /\ ~a.bat
        /\ a.key = s.key /\ a.alone = s.alone /\ a.read = s.read
    BY <2>1 DEF Driver, BatElse
  <2>4. c = Release(a, "BAT")
    BY <1>2, <2>1 DEF BatCheckRequest
  <2>5. /\ c \in Driver /\ c.key = (IF a.key = "BAT" THEN None ELSE a.key)
        /\ c.inUse = a.inUse /\ c.seq = a.seq /\ c.buf = a.buf
        /\ c.on = a.on /\ c.active = a.active /\ c.running = a.running
        /\ c.ftOn = a.ftOn /\ c.inited = a.inited /\ c.bat = a.bat
        /\ c.alone = a.alone /\ c.resp = a.resp /\ c.read = a.read
    BY <2>2, <2>4, ReleaseFields DEF Keys
  <2>6. s.key = "BAT"
    BY <1>2 DEF Sound
  <2>7. c.key = None /\ ~c.bat
    BY <2>3, <2>5, <2>6
  <2>8. BatElse(s, c) /\ c.inUse = s.inUse /\ c.seq = s.seq /\ c.on = s.on
    BY <2>3, <2>5 DEF BatElse
  <2>9. Sound(c)
    BY <2>6, <2>7, <2>8 DEF Sound, BatElse, None
  <2> QED BY <2>3, <2>5, <2>6, <2>7, <2>8, <2>9
<1> QED BY <1>1, <1>2

LEMMA BatBeginFields ==
  ASSUME NEW s \in Driver, Sound(s), NEW early \in BOOLEAN, early => s.buf # <<>>,
         NEW t, t = BatBegin(s, early)
  PROVE  /\ t \in Driver /\ Sound(t) /\ t.alone = s.alone /\ t.read = s.read
         /\ BatRefused(s, t) \/ BatStarted(s, early, t)
<1>1. PICK c : c = BatCheckRequest(s)
  OBVIOUS
<1>2. /\ c \in Driver /\ Sound(c) /\ c.alone = s.alone /\ c.read = s.read
      /\ BatElse(s, c) /\ c.inUse = s.inUse /\ c.seq = s.seq /\ c.on = s.on
      /\ ~c.bat
      /\ s.key = "BAT" => c.key = None
      /\ s.key # "BAT" => c.key = s.key
  BY <1>1, BatForgets
<1>3. PICK q : q = <<Bat>>
  OBVIOUS
<1>4. q \in Seq(Sensors) /\ q # <<>> /\ "BAT" \in Keys
  BY <1>3, Kinds DEF Keys
<1>5. PICK b : b = Begin(c, q, "BAT", early)
  OBVIOUS
<1>6. c \in Driver
  BY <1>2
<1>7. /\ b \in Driver /\ b.alone = c.alone /\ b.read = c.read
      /\ \/ b.resp = "FAIL" /\ q = <<>> /\ Like(c, b)
         \/ b.resp = "WAIT" /\ q # <<>> /\ (c.inUse \/ c.key # None) /\ Like(c, b)
         \/ b.resp = "OK" /\ HasBegun(c, q, "BAT", early, b)
  BY <1>4, <1>5, <1>6, BeginFields
<1>8. t = CASE b.resp = "FAIL" -> Reply(b, "ERROR")
            [] b.resp = "WAIT" -> Reply(b, "BUSY")
            [] b.resp = "OK" -> Reply([b EXCEPT !.bat = TRUE], "SUCCESS")
  BY <1>1, <1>3, <1>5 DEF BatBegin
<1>9. CASE b.resp = "WAIT" /\ Like(c, b)
  <2>1. t = [b EXCEPT !.resp = "BUSY"]
    BY <1>8, <1>9 DEF Reply
  <2>2. Sound(b) /\ "BUSY" \in Says
    BY <1>2, <1>9, SoundLike DEF Like, Says
  <2>3. /\ t \in Driver /\ Sound(t) /\ Like(b, t)
        /\ t.resp = "BUSY" /\ t.alone = b.alone /\ t.read = b.read
    BY <1>7, <2>1, <2>2, Replied
  <2>4. BatRefused(s, t)
    BY <1>2, <1>9, <2>3 DEF BatRefused, BatElse, Like, ButActive
  <2> QED BY <1>2, <1>7, <2>3, <2>4
<1>10. CASE b.resp = "OK" /\ HasBegun(c, q, "BAT", early, b)
  <2>1. t = [b EXCEPT !.bat = TRUE, !.resp = "SUCCESS"]
    BY <1>8, <1>10 DEF Reply
  <2>2. t \in Driver
    BY <1>7, <2>1 DEF Driver, Says
  <2>3. /\ t.resp = "SUCCESS" /\ t.inUse = b.inUse /\ t.key = b.key /\ t.seq = b.seq
        /\ t.buf = b.buf /\ t.on = b.on /\ t.active = b.active /\ t.running = b.running
        /\ t.ftOn = b.ftOn /\ t.inited = b.inited /\ t.bat
        /\ t.alone = b.alone /\ t.read = b.read
    BY <1>7, <2>1 DEF Driver
  <2>4. s.key \in {None, "BAT"}
    BY <1>2, <1>10 DEF HasBegun
  <2>5. BatStarted(s, early, t)
    BY <1>2, <1>3, <1>10, <2>3, <2>4 DEF BatStarted, BatElse, HasBegun
  <2>6. c.key = None /\ c.running = {} /\ c.inited = {} /\ ~c.ftOn
    BY <1>2, <1>10 DEF HasBegun, Sound, None
  <2>7. t.running = {} /\ t.inited = {} /\ ~t.ftOn /\ t.key = "BAT"
    BY <1>10, <2>3, <2>6 DEF HasBegun
  <2>8. t.inUse = ~early /\ t.buf = s.buf /\ t.seq = <<Bat>> /\ t.seq # <<>>
    BY <1>3, <1>4, <2>5 DEF BatStarted, BatElse
  <2>9. Sound(t)
    BY <2>3, <2>7, <2>8 DEF Sound, None
  <2> QED BY <1>2, <1>7, <2>2, <2>3, <2>5, <2>9
<1> QED BY <1>4, <1>7, <1>9, <1>10

\* The request is answered, or given up.
BatLetGo(s, t) ==
    /\ BatElse(s, t) /\ t.inUse = s.inUse /\ t.seq = s.seq /\ t.on = s.on
    /\ s.bat /\ s.key = "BAT" /\ ~t.bat /\ t.key = None

BatNotGot(s, t) ==
    /\ Like(s, t) /\ t.read = s.read
    /\ ~s.bat \/ s.inUse

BatReading(s) == [of |-> Bat, from |-> SamplesOf(s.buf, 0, 1)]

LEMMA BatGetFields ==
  ASSUME NEW s \in Driver, Sound(s), NEW t, t = BatGet(s)
  PROVE  /\ t \in Driver /\ Sound(t) /\ t.alone = s.alone
         /\ \/ BatNotGot(s, t) /\ (t.resp = "BUSY" \/ ~s.bat)
            \/ BatLetGo(s, t) /\ ~s.inUse /\ t.read = BatReading(s) /\ t.resp # "BUSY"
<1>1. CASE ~s.bat
  <2>1. t = [s EXCEPT !.resp = "ERROR"]
    BY <1>1 DEF BatGet, Reply
  <2>2. "ERROR" \in Says
    BY DEF Says
  <2>3. /\ t \in Driver /\ Sound(t) /\ Like(s, t)
        /\ t.resp = "ERROR" /\ t.alone = s.alone /\ t.read = s.read
    BY <2>1, <2>2, Replied
  <2> QED BY <1>1, <2>3 DEF BatNotGot
<1>2. CASE s.bat
  <2>1. Bat \in Sensors /\ KeyOf(Bat) = "BAT" /\ s.key = "BAT"
    BY <1>2, Kinds DEF Sound
  <2>2. PICK n : n = Bat
    OBVIOUS
  <2>3. PICK b : b = Collect(s, n, 0, 1)
    OBVIOUS
  <2>4. s.buf = <<>> => s.inUse \/ s.key = None
    BY DEF Sound
  <2>5. /\ b \in Driver /\ Like(s, b) /\ b.alone = s.alone
        /\ \/ b.resp = "WAIT" /\ (s.inUse \/ s.key # KeyOf(n)) /\ b.read = s.read
           \/ /\ b.resp = "OK" /\ ~s.inUse /\ s.key = KeyOf(n)
              /\ b.read = [of |-> n, from |-> SamplesOf(s.buf, 0, 1)]
    BY <2>1, <2>2, <2>3, <2>4, CollectFields
  <2>6. t = IF b.resp = "WAIT" THEN Reply(b, "BUSY")
            ELSE Reply(Release([b EXCEPT !.bat = FALSE], "BAT"), "SUCCESS")
    BY <1>2, <2>2, <2>3 DEF BatGet
  <2>7. Sound(b)
    BY <2>5, SoundLike DEF Like
  <2>8. CASE b.resp = "WAIT"
    <3>1. t = [b EXCEPT !.resp = "BUSY"]
      BY <2>6, <2>8 DEF Reply
    <3>2. "BUSY" \in Says
      BY DEF Says
    <3>3. /\ t \in Driver /\ Sound(t) /\ Like(b, t)
          /\ t.resp = "BUSY" /\ t.alone = b.alone /\ t.read = b.read
      BY <2>5, <2>7, <3>1, <3>2, Replied
    <3>4. Like(s, t)
      BY <2>5, <3>3 DEF Like, ButActive
    <3>5. s.inUse /\ b.read = s.read
      BY <2>1, <2>2, <2>5, <2>8
    <3> QED BY <2>5, <3>3, <3>4, <3>5 DEF BatNotGot
  <2>9. CASE b.resp = "OK"
    <3>1. PICK c : c = [b EXCEPT !.bat = FALSE]
      OBVIOUS
    <3>2. c \in Driver
      BY <2>5, <3>1 DEF Driver
    <3>3. /\ ~c.bat /\ c.inUse = b.inUse /\ c.key = b.key /\ c.seq = b.seq
          /\ c.buf = b.buf /\ c.on = b.on /\ c.active = b.active /\ c.running = b.running
          /\ c.ftOn = b.ftOn /\ c.inited = b.inited /\ c.alone = b.alone /\ c.read = b.read
      BY <2>5, <3>1 DEF Driver
    <3>4. PICK e : e = Release(c, "BAT")
      OBVIOUS
    <3>5. /\ e \in Driver /\ e.key = (IF c.key = "BAT" THEN None ELSE c.key)
          /\ e.inUse = c.inUse /\ e.seq = c.seq /\ e.buf = c.buf
          /\ e.on = c.on /\ e.active = c.active /\ e.running = c.running
          /\ e.ftOn = c.ftOn /\ e.inited = c.inited /\ e.bat = c.bat
          /\ e.alone = c.alone /\ e.resp = c.resp /\ e.read = c.read
      BY <3>2, <3>4, ReleaseFields DEF Keys
    <3>6. t = [e EXCEPT !.resp = "SUCCESS"]
      BY <2>6, <2>9, <3>1, <3>4 DEF Reply
    <3>7. t \in Driver
      BY <3>5, <3>6 DEF Driver, Says
    <3>8. Like(e, t) /\ t.resp = "SUCCESS" /\ t.read = e.read /\ t.alone = e.alone
      BY <3>5, <3>6 DEF Driver, Like, ButActive
    <3>9. c.key = "BAT" /\ ~s.inUse
      BY <2>1, <2>5, <2>9, <3>3 DEF Like, ButActive
    <3>10. BatLetGo(s, t)
      BY <1>2, <2>1, <2>5, <3>3, <3>5, <3>8, <3>9 DEF BatLetGo, BatElse, Like, ButActive
    <3>11. Sound(t)
      BY <3>10 DEF BatLetGo, BatElse, Sound, None
    <3>12. b.read = [of |-> n, from |-> SamplesOf(s.buf, 0, 1)]
      BY <2>5, <2>9
    <3>13. t.read = BatReading(s)
      BY <2>2, <3>3, <3>5, <3>8, <3>12 DEF BatReading
    <3> QED BY <2>5, <3>3, <3>5, <3>7, <3>8, <3>9, <3>10, <3>11, <3>13
  <2> QED BY <2>5, <2>8, <2>9
<1> QED BY <1>1, <1>2

LEMMA BatOnBatteryEndFields ==
  ASSUME NEW s \in Driver, Sound(s), NEW waited \in BOOLEAN, waited => ~s.inUse,
         NEW t, t = BatOnBatteryEnd(s, waited)
  PROVE  /\ t \in Driver /\ Sound(t) /\ t.alone = s.alone
         /\ \/ t = s /\ ~(waited /\ s.bat)
            \/ BatLetGo(s, t) /\ ~s.inUse /\ t.read = BatReading(s)
<1>1. CASE ~(waited /\ s.bat)
  BY <1>1 DEF BatOnBatteryEnd
<1>2. CASE waited /\ s.bat
  <2>1. Bat \in Sensors /\ KeyOf(Bat) = "BAT" /\ s.key = "BAT" /\ s.buf # <<>>
    BY <1>2, Kinds DEF Sound, None
  <2>2. PICK n : n = Bat
    OBVIOUS
  <2>3. PICK c : c = [s EXCEPT !.bat = FALSE]
    OBVIOUS
  <2>4. c \in Driver
    BY <2>3 DEF Driver
  <2>5. /\ ~c.bat /\ c.inUse = s.inUse /\ c.key = s.key /\ c.seq = s.seq
        /\ c.buf = s.buf /\ c.on = s.on /\ c.active = s.active /\ c.running = s.running
        /\ c.ftOn = s.ftOn /\ c.inited = s.inited /\ c.alone = s.alone /\ c.read = s.read
    BY <2>3 DEF Driver
  <2>6. PICK b : b = Collect(c, n, 0, 1)
    OBVIOUS
  <2>7. c.buf = <<>> => c.inUse \/ c.key = None
    BY <2>1, <2>5
  <2>8. /\ b \in Driver /\ Like(c, b) /\ b.alone = c.alone
        /\ \/ b.resp = "WAIT" /\ (c.inUse \/ c.key # KeyOf(n)) /\ b.read = c.read
           \/ /\ b.resp = "OK" /\ ~c.inUse /\ c.key = KeyOf(n)
              /\ b.read = [of |-> n, from |-> SamplesOf(c.buf, 0, 1)]
    <3>1. n \in Sensors /\ 0 \in Nat /\ 1 \in Nat
      BY <2>1, <2>2
    <3>2. c \in Driver /\ (c.buf = <<>> => c.inUse \/ c.key = None)
      BY <2>4, <2>7
    <3> QED BY <2>6, <3>1, <3>2, CollectFields
  <2>9. ~s.inUse /\ b.read = BatReading(s)
    BY <1>2, <2>1, <2>2, <2>5, <2>8 DEF BatReading
  <2>10. t = Release(b, "BAT")
    BY <1>2, <2>2, <2>3, <2>6 DEF BatOnBatteryEnd
  <2>11. /\ t \in Driver /\ t.key = (IF b.key = "BAT" THEN None ELSE b.key)
         /\ t.inUse = b.inUse /\ t.seq = b.seq /\ t.buf = b.buf
         /\ t.on = b.on /\ t.active = b.active /\ t.running = b.running
         /\ t.ftOn = b.ftOn /\ t.inited = b.inited /\ t.bat = b.bat
         /\ t.alone = b.alone /\ t.resp = b.resp /\ t.read = b.read
    BY <2>8, <2>10, ReleaseFields DEF Keys
  <2>12. BatLetGo(s, t)
    BY <1>2, <2>1, <2>5, <2>8, <2>11 DEF BatLetGo, BatElse, Like, ButActive
  <2>13. Sound(t)
    BY <2>12 DEF BatLetGo, BatElse, Sound, None
  <2> QED BY <2>5, <2>8, <2>9, <2>11, <2>12, <2>13
<1> QED BY <1>1, <1>2

-----------------------------------------------------------------------------
(***************************************************************************)
(* The invariant of the converter at work, of a driver's state s, the      *)
(* measurements "en" that have an interval and "op" that are being         *)
(* sampled, the commands q that wait and the faults h there were.          *)
(***************************************************************************)
Calls ==
    [what : {"cc"}, n : Clamps] \cup [what : {"ccs", "cal"}, before : Seq(Clamps)]
        \cup [what : {"bat", "onbat"}] \cup [what : {"read"}, n : Sensors, was : BOOLEAN]

CcCall(c) == c.what \in {"cc", "ccs", "cal"} \/ (c.what = "read" /\ c.n \in Clamps)
ReadOf(c, n) == c.what = "read" /\ c.n = n
SwitchedOn(c, n) == c.what = "read" /\ c.was /\ c.n = n

\* A command that waits is one of the faults there were.
CallHad(c, h) ==
    /\ c.what \in {"cc", "ccs"} => "cc" \in h
    /\ c.what = "cal" => "cal" \in h
    /\ c.what = "read" => "read" \in h

\* A conversion goes round the clamps that are active, and the buffer is of it.
PureP(s) ==
    /\ s.read.from = {s.read.of}
    /\ ~s.inUse /\ s.key # None => s.buf = s.seq
    /\ s.running # {} => s.seq = s.active
    /\ s.alone = NoSensor

\* A command that waits for clamps has the converter for itself.
AloneP(s, q) ==
    \A i \in DOMAIN q : CcCall(q[i]) =>
        /\ i = Len(q) /\ s.key = "CC"
        /\ q[i].what = "read" => s.running = {q[i].n} /\ q[i].n \in Range(s.active)

\* The clamps that are measured are active, and will be after any command.
MeasuredP(s, en, q) ==
    /\ en \cap Clamps \subseteq Range(s.active)
    /\ \A i \in DOMAIN q :
           /\ q[i].what \in {"ccs", "cal"} => en \cap Clamps \subseteq Range(q[i].before)
           /\ q[i].what = "read" /\ q[i].was => q[i].n \in Clamps \ en

HeldP(s, op, q) ==
    /\ s.key = "CC" => \/ \E i \in DOMAIN q : CcCall(q[i])
                       \/ s.running # {} /\ s.running \subseteq op \cap Range(s.active)
    /\ \A n \in s.inited : n \in op \/ \E i \in DOMAIN q : ReadOf(q[i], n)
    /\ s.bat => Bat \in op \/ \E i \in DOMAIN q : KeyOfCall(q[i]) = "BAT"

ActiveP(s, en, q) ==
    \A n \in Clamps :
        n \in Range(s.active) <=> n \in en \/ \E i \in DOMAIN q : SwitchedOn(q[i], n)

PureFs == {"race", "cc", "read", "cal"}
AloneFs == {"slow"}
MeasuredFs == {"interval"}
HeldFs == {"slow", "interval", "cut"}
ActiveFs == {"interval", "cc", "cal", "slow"}
Clear(h, fs) == h \cap fs = {}

TypesP(s, en, op, q, h) ==
    /\ s \in Driver /\ Sound(s)
    /\ en \subseteq Sensors /\ op \subseteq Sensors
    /\ q \in Seq(Calls) /\ \A i \in DOMAIN q : CallHad(q[i], h)

InvP(s, en, op, q, h) ==
    /\ TypesP(s, en, op, q, h)
    /\ Clear(h, PureFs) => PureP(s)
    /\ Clear(h, AloneFs) => AloneP(s, q)
    /\ Clear(h, MeasuredFs) => MeasuredP(s, en, q)
    /\ Clear(h, HeldFs) => HeldP(s, op, q)
    /\ Clear(h, ActiveFs) => ActiveP(s, en, q)

LEMMA InvParts ==
  ASSUME NEW s, NEW en, NEW op, NEW q, NEW h, InvP(s, en, op, q, h), NEW g, h \subseteq g
  PROVE  /\ TypesP(s, en, op, q, h)
         /\ s \in Driver /\ Sound(s) /\ q \in Seq(Calls)
         /\ Clear(g, PureFs) => PureP(s)
         /\ Clear(g, AloneFs) => AloneP(s, q)
         /\ Clear(g, MeasuredFs) => MeasuredP(s, en, q)
         /\ Clear(g, HeldFs) => HeldP(s, op, q)
         /\ Clear(g, ActiveFs) => ActiveP(s, en, q)
<1>1. \A fs : Clear(g, fs) => Clear(h, fs)
  BY DEF Clear
<1> QED BY <1>1 DEF InvP, TypesP

LEMMA PartsLike ==
  ASSUME NEW s, NEW t, Like(s, t), NEW en, NEW op, NEW q
  PROVE  /\ AloneP(s, q) => AloneP(t, q)
         /\ MeasuredP(s, en, q) => MeasuredP(t, en, q)
         /\ HeldP(s, op, q) => HeldP(t, op, q)
         /\ ActiveP(s, en, q) => ActiveP(t, en, q)
<1>1. AloneP(s, q) => AloneP(t, q)
  BY DEF Like, ButActive, AloneP
<1>2. MeasuredP(s, en, q) => MeasuredP(t, en, q)
  BY DEF Like, ButActive, MeasuredP
<1>3. HeldP(s, op, q) => HeldP(t, op, q)
  BY DEF Like, ButActive, HeldP
<1>4. ActiveP(s, en, q) => ActiveP(t, en, q)
  BY DEF Like, ButActive, ActiveP
<1> QED BY <1>1, <1>2, <1>3, <1>4

\* Nothing happened but that something was read, or a clamp is to run alone.
LEMMA InvLike ==
  ASSUME NEW s, NEW en, NEW op, NEW q, NEW h, InvP(s, en, op, q, h), NEW g, h \subseteq g,
         NEW t \in Driver, Like(s, t),
         Clear(g, PureFs) => /\ t.read.from = {t.read.of}
                             /\ t.alone \in {s.alone, NoSensor}
  PROVE  InvP(t, en, op, q, g)
<1>1. TypesP(t, en, op, q, g)
  BY InvParts, SoundLike DEF TypesP, Like, CallHad
<1>2. Clear(g, PureFs) => PureP(t)
  BY InvParts DEF PureP, Like, ButActive
<1>3. Clear(g, AloneFs) => AloneP(t, q)
  BY InvParts, PartsLike
<1>4. Clear(g, MeasuredFs) => MeasuredP(t, en, q)
  BY InvParts, PartsLike
<1>5. Clear(g, HeldFs) => HeldP(t, op, q)
  BY InvParts, PartsLike
<1>6. Clear(g, ActiveFs) => ActiveP(t, en, q)
  BY InvParts, PartsLike
<1> QED BY <1>1, <1>2, <1>3, <1>4, <1>5, <1>6 DEF InvP

LEMMA UnreadIs ==
  /\ Unread.from = {Unread.of} /\ Unread.of = NoSensor
  /\ \A s \in Driver : s.resp \in Says
  BY DEF Unread, Driver

LEMMA InvClean ==
  ASSUME NEW s, NEW en, NEW op, NEW q, NEW h, InvP(s, en, op, q, h),
         NEW t, t = Clean(s)
  PROVE  InvP(t, en, op, q, h) /\ t.resp = None
<1>1. s \in Driver
  BY InvParts
<1>2. t = [s EXCEPT !.resp = None]
  BY DEF Clean
<1>3. t \in Driver
  BY <1>1, <1>2 DEF Driver, Says
<1>4. Like(s, t) /\ t.alone = s.alone /\ t.read = s.read /\ t.resp = None
  BY <1>1, <1>2 DEF Driver, Like, ButActive
<1>5. Clear(h, PureFs) => t.read.from = {t.read.of} /\ t.alone \in {s.alone, NoSensor}
  BY <1>4, InvParts DEF PureP
<1>6. InvP(t, en, op, q, h)
  BY <1>3, <1>4, <1>5, InvLike
<1> QED BY <1>4, <1>6

LEMMA ClearMore ==
  ASSUME NEW g
  PROVE  /\ Clear(g, HeldFs) => /\ Clear(g, AloneFs) /\ Clear(g, MeasuredFs)
                                /\ "slow" \notin g /\ "interval" \notin g /\ "cut" \notin g
         /\ Clear(g, ActiveFs) => /\ Clear(g, AloneFs) /\ Clear(g, MeasuredFs)
                                  /\ "slow" \notin g /\ "interval" \notin g
                                  /\ "cc" \notin g /\ "cal" \notin g
         /\ Clear(g, PureFs) => /\ "race" \notin g /\ "cc" \notin g
                                /\ "read" \notin g /\ "cal" \notin g
         /\ Clear(g, AloneFs) => "slow" \notin g
         /\ Clear(g, MeasuredFs) => "interval" \notin g
  BY DEF Clear, HeldFs, AloneFs, MeasuredFs, ActiveFs, PureFs

LEMMA NoCalls ==
  ASSUME NEW q, q = <<>>
  PROVE  q \in Seq(Calls) /\ \A i \in DOMAIN q : FALSE
  OBVIOUS

LEMMA SameActive ==
  ASSUME NEW s, NEW t, t.active = s.active, NEW en, NEW q
  PROVE  /\ MeasuredP(s, en, q) => MeasuredP(t, en, q)
         /\ ActiveP(s, en, q) => ActiveP(t, en, q)
  BY DEF MeasuredP, ActiveP

LEMMA CcBeginPlain ==
  ASSUME NEW s \in Driver, Sound(s), NEW n \in Clamps, NEW early \in BOOLEAN
  PROVE  \A t : t = CcBegin(s, n, FALSE, early) =>
             /\ t \in Driver /\ t.read = s.read /\ t.alone = s.alone
             /\ CcRefused(s, t) \/ CcJoined(s, n, t) \/ CcStarted(s, n, s.active, early, t)
<1>1. ASSUME NEW no \in BOOLEAN, NEW t, t = CcBegin(s, n, no, early)
      PROVE  /\ t \in Driver /\ t.read = s.read /\ (~no => t.alone = s.alone)
             /\ \/ CcRefused(s, t)
                \/ ~no /\ CcJoined(s, n, t)
                \/ no /\ CcStarted(s, n, <<n>>, early, t)
                \/ ~no /\ s.alone = NoSensor /\ CcStarted(s, n, s.active, early, t)
  BY <1>1, CcBeginFields
<1> QED BY <1>1

LEMMA CcBeginAlone ==
  ASSUME NEW s \in Driver, Sound(s), NEW n \in Clamps, NEW early \in BOOLEAN,
         NEW t, t = CcBegin(s, n, TRUE, early)
  PROVE  /\ t \in Driver /\ t.read = s.read
         /\ CcRefused(s, t) \/ CcStarted(s, n, <<n>>, early, t)
<1>1. PICK yes \in BOOLEAN : yes = TRUE
  OBVIOUS
<1>2. t = CcBegin(s, n, yes, early)
  BY <1>1
<1>3. /\ t \in Driver /\ t.read = s.read /\ (~yes => t.alone = s.alone)
      /\ \/ CcRefused(s, t)
         \/ ~yes /\ CcJoined(s, n, t)
         \/ yes /\ CcStarted(s, n, <<n>>, early, t)
         \/ ~yes /\ s.alone = NoSensor /\ CcStarted(s, n, s.active, early, t)
  BY <1>2, CcBeginFields
<1> QED BY <1>1, <1>3

\* A sample of a clamp is begun.
LEMMA CcSample ==
  ASSUME NEW s, NEW en, NEW op, NEW q, NEW h, InvP(s, en, op, q, h), NEW g, h \subseteq g,
         q = <<>>, NEW n \in Clamps, n \in en, NEW early \in BOOLEAN,
         early => s.buf # <<>> /\ "race" \in g,
         NEW t, t = CcBegin(s, n, FALSE, early),
         NEW op2, op2 = IF t.resp = "SUCCESS" THEN op \cup {n} ELSE op
  PROVE  InvP(t, en, op2, q, g)
<1>1. s \in Driver /\ Sound(s) /\ TypesP(s, en, op, q, h)
  BY InvParts
<1>5. /\ t \in Driver /\ t.read = s.read /\ t.alone = s.alone
      /\ CcRefused(s, t) \/ CcJoined(s, n, t) \/ CcStarted(s, n, s.active, early, t)
  BY <1>1, CcBeginPlain
<1>6. Sound(t)
  BY <1>1, <1>5, CcBeginSound
<1>7. n \in Sensors
  BY Kinds
<1>8. CASE CcRefused(s, t)
  <2>1. op2 = op
    BY <1>8 DEF CcRefused
  <2>2. Clear(g, PureFs) => t.read.from = {t.read.of} /\ t.alone \in {s.alone, NoSensor}
    BY <1>5, InvParts DEF PureP
  <2>3. InvP(t, en, op, q, g)
    BY <1>5, <1>8, <2>2, InvLike DEF CcRefused
  <2> QED BY <2>1, <2>3
<1>9. ASSUME t.resp = "SUCCESS"
      PROVE  TypesP(t, en, op2, q, g) /\ AloneP(t, q)
  <2>1. op2 \subseteq Sensors
    BY <1>1, <1>7, <1>9 DEF TypesP
  <2>2. TypesP(t, en, op2, q, g)
    BY <1>1, <1>5, <1>6, <2>1, NoCalls DEF TypesP
  <2> QED BY <2>2, NoCalls DEF AloneP
<1>10. Clear(g, HeldFs) => n \in Range(s.active)
  BY ClearMore, InvParts DEF MeasuredP
<1>11. CASE CcJoined(s, n, t)
  <2>1. op2 = op \cup {n}
    BY <1>11 DEF CcJoined
  <2>2. Clear(g, PureFs) => PureP(t)
    BY <1>5, <1>11, InvParts DEF PureP, CcJoined
  <2>3. Clear(g, MeasuredFs) => MeasuredP(t, en, q)
    BY <1>11, InvParts, SameActive DEF CcJoined
  <2>4. ASSUME Clear(g, HeldFs) PROVE HeldP(t, op2, q)
    <3>1. HeldP(s, op, q)
      BY <2>4, InvParts
    <3>2. s.key = "CC"
      BY <1>1, <1>11 DEF Sound, CcJoined
    <3>3. s.running \subseteq op \cap Range(s.active)
      BY <3>1, <3>2, NoCalls DEF HeldP
    <3>4. t.running \subseteq op2 \cap Range(t.active) /\ t.running # {}
      BY <1>10, <1>11, <2>1, <2>4, <3>3 DEF CcJoined
    <3>5. t.inited = s.inited /\ t.bat = s.bat
      BY <1>11 DEF CcJoined
    <3> QED BY <2>1, <3>1, <3>4, <3>5 DEF HeldP
  <2>5. Clear(g, ActiveFs) => ActiveP(t, en, q)
    BY <1>11, InvParts, SameActive DEF CcJoined
  <2> QED BY <1>9, <1>11, <2>2, <2>3, <2>4, <2>5 DEF InvP, CcJoined
<1>12. CASE CcStarted(s, n, s.active, early, t)
  <2>1. op2 = op \cup {n}
    BY <1>12 DEF CcStarted
  <2>2. ASSUME Clear(g, PureFs) PROVE PureP(t)
    <3>1. ~early /\ PureP(s)
      BY <2>2, ClearMore, InvParts
    <3> QED BY <1>5, <1>12, <3>1 DEF PureP, CcStarted
  <2>3. Clear(g, MeasuredFs) => MeasuredP(t, en, q)
    BY <1>12, InvParts, SameActive DEF CcStarted
  <2>4. ASSUME Clear(g, HeldFs) PROVE HeldP(t, op2, q)
    <3>1. HeldP(s, op, q)
      BY <2>4, InvParts
    <3>2. t.running \subseteq op2 \cap Range(t.active) /\ t.running # {}
      BY <1>10, <1>12, <2>1, <2>4 DEF CcStarted
    <3>3. t.inited = s.inited /\ t.bat = s.bat
      BY <1>12 DEF CcStarted
    <3> QED BY <2>1, <3>1, <3>2, <3>3 DEF HeldP
  <2>5. Clear(g, ActiveFs) => ActiveP(t, en, q)
    BY <1>12, InvParts, SameActive DEF CcStarted
  <2> QED BY <1>9, <1>12, <2>2, <2>3, <2>4, <2>5 DEF InvP, CcStarted
<1> QED BY <1>5, <1>8, <1>11, <1>12

\* A call joins those that wait, or was the last of them.
Added(q, c, r) ==
    /\ r \in Seq(Calls) /\ q \in Seq(Calls) /\ c \in Calls
    /\ DOMAIN r = DOMAIN q \cup {Len(r)} /\ Len(r) \notin DOMAIN q
    /\ r[Len(r)] = c /\ \A i \in DOMAIN q : r[i] = q[i]

LEMMA AppendAdds ==
  ASSUME NEW q \in Seq(Calls), NEW c \in Calls, NEW r, r = Append(q, c)
  PROVE  Added(q, c, r)
<1>1. r \in Seq(Calls) /\ Len(r) = Len(q) + 1 /\ Len(q) \in Nat
  OBVIOUS
<1>2. DOMAIN r = 1..(Len(q) + 1) /\ DOMAIN q = 1..Len(q)
  OBVIOUS
<1>3. r[Len(r)] = c /\ \A i \in DOMAIN q : r[i] = q[i]
  OBVIOUS
<1> QED BY <1>1, <1>2, <1>3 DEF Added

LEMMA OuterAdds ==
  ASSUME NEW r \in Seq(Calls), r # <<>>, NEW q, q = Outer(r), NEW c, c = Innermost(r)
  PROVE  Added(q, c, r)
<1>1. Len(r) \in Nat /\ Len(r) >= 1 /\ DOMAIN r = 1..Len(r)
  OBVIOUS
<1>2. q = SubSeq(r, 1, Len(r) - 1)
  BY DEF Outer
<1>3. q \in Seq(Calls) /\ Len(q) = Len(r) - 1 /\ DOMAIN q = 1..(Len(r) - 1)
  BY <1>1, <1>2
<1>4. \A i \in DOMAIN q : r[i] = q[i]
  BY <1>1, <1>2, <1>3
<1>5. c = r[Len(r)] /\ c \in Calls
  BY <1>1 DEF Innermost
<1> QED BY <1>1, <1>3, <1>4, <1>5 DEF Added

\* A call that has nothing to do with the clamps.
Plain(c, g) ==
    /\ c \in Calls /\ CallHad(c, g) /\ ~CcCall(c)
    /\ c.what = "read" => ~c.was

LEMMA PlainAdded ==
  ASSUME NEW q, NEW c, NEW g, NEW r, Added(q, c, r), Plain(c, g), NEW s, NEW en
  PROVE  /\ (\A i \in DOMAIN q : ~CcCall(q[i])) => \A i \in DOMAIN r : ~CcCall(r[i])
         /\ MeasuredP(s, en, q) => MeasuredP(s, en, r)
         /\ ActiveP(s, en, q) => ActiveP(s, en, r)
<1>1. \A i \in DOMAIN r : (i \in DOMAIN q /\ r[i] = q[i]) \/ r[i] = c
  BY DEF Added
<1>2. \A i \in DOMAIN q : i \in DOMAIN r /\ r[i] = q[i]
  BY DEF Added
<1>3. ~CcCall(c) /\ c.what \notin {"ccs", "cal"} /\ \A n : ~SwitchedOn(c, n)
  BY DEF Plain, CcCall, SwitchedOn
<1>4. c.what = "read" => ~c.was
  BY DEF Plain
<1>5. (\A i \in DOMAIN q : ~CcCall(q[i])) => \A i \in DOMAIN r : ~CcCall(r[i])
  BY <1>1, <1>3
<1>6. MeasuredP(s, en, q) => MeasuredP(s, en, r)
  BY <1>1, <1>3, <1>4 DEF MeasuredP
<1>7. \A n : (\E i \in DOMAIN r : SwitchedOn(r[i], n)) <=> \E i \in DOMAIN q : SwitchedOn(q[i], n)
  BY <1>1, <1>2, <1>3
<1>8. ActiveP(s, en, q) => ActiveP(s, en, r)
  BY <1>7 DEF ActiveP
<1> QED BY <1>5, <1>6, <1>8

\* Whatever is begun: a sample in "opens", or a call that comes to those of q.
Comes(op, q, g, op2, r) ==
    /\ op \subseteq op2 /\ op2 \subseteq Sensors
    /\ r = q \/ \E c : Added(q, c, r) /\ Plain(c, g)

Kept(s, en, q, g, r) ==
    /\ r \in Seq(Calls) /\ \A i \in DOMAIN r : CallHad(r[i], g)
    /\ MeasuredP(s, en, q) => MeasuredP(s, en, r)
    /\ ActiveP(s, en, q) => ActiveP(s, en, r)
    /\ AloneP(s, q) /\ s.key # "CC" => \A i \in DOMAIN r : ~CcCall(r[i])
    /\ \A i \in DOMAIN q : i \in DOMAIN r /\ r[i] = q[i]

LEMMA ComesKeeps ==
  ASSUME NEW s, NEW en, NEW op, NEW q, NEW h, TypesP(s, en, op, q, h), NEW g, h \subseteq g,
         NEW op2, NEW r, Comes(op, q, g, op2, r)
  PROVE  Kept(s, en, q, g, r)
<1>1. q \in Seq(Calls) /\ \A i \in DOMAIN q : CallHad(q[i], g)
  BY DEF TypesP, CallHad
<1>2. AloneP(s, q) /\ s.key # "CC" => \A i \in DOMAIN q : ~CcCall(q[i])
  BY DEF AloneP
<1>3. CASE r = q
  BY <1>1, <1>2, <1>3 DEF Kept
<1>4. CASE \E c : Added(q, c, r) /\ Plain(c, g)
  <2>1. PICK c : Added(q, c, r) /\ Plain(c, g)
    BY <1>4
  <2>2. \A i \in DOMAIN r : (i \in DOMAIN q /\ r[i] = q[i]) \/ r[i] = c
    BY <2>1 DEF Added
  <2>3. CallHad(c, g)
    BY <2>1 DEF Plain
  <2>4. r \in Seq(Calls)
    BY <2>1 DEF Added
  <2>5. \A i \in DOMAIN r : CallHad(r[i], g)
    BY <1>1, <2>2, <2>3
  <2>6. \A i \in DOMAIN q : i \in DOMAIN r /\ r[i] = q[i]
    BY <2>1 DEF Added
  <2> QED BY <1>2, <2>1, <2>4, <2>5, <2>6, PlainAdded DEF Kept
<1> QED BY <1>3, <1>4 DEF Comes

\* An input is begun.
LEMMA FtBegun ==
  ASSUME NEW s, NEW en, NEW op, NEW q, NEW h, InvP(s, en, op, q, h), NEW g, h \subseteq g,
         NEW n \in Inputs, NEW early \in BOOLEAN, early => s.buf # <<>> /\ "race" \in g,
         NEW late \in BOOLEAN, NEW t, t = FtBegin(s, n, early, late), t.resp = "SUCCESS",
         NEW op2, NEW r, Comes(op, q, g, op2, r),
         n \in op2 \/ \E i \in DOMAIN r : ReadOf(r[i], n)
  PROVE  InvP(t, en, op2, r, g)
<1>1. s \in Driver /\ Sound(s) /\ TypesP(s, en, op, q, h)
  BY InvParts
<1>2. /\ t \in Driver /\ Sound(t) /\ t.alone = s.alone /\ t.read = s.read
      /\ Refused(s, t) \/ FtJoined(s, n, t) \/ FtStarted(s, n, early, t)
  BY <1>1, FtBeginFields
<1>3. FtJoined(s, n, t) \/ FtStarted(s, n, early, t)
  BY <1>2 DEF Refused
<1>4. s.key # "CC" /\ t.key # "CC"
  BY <1>1, <1>3 DEF FtJoined, FtStarted, Sound, None
<1>5. t.active = s.active /\ t.running = s.running /\ t.bat = s.bat
      /\ t.inited = s.inited \cup {n}
  BY <1>3 DEF FtJoined, FtStarted
<1>6. /\ r \in Seq(Calls) /\ \A i \in DOMAIN r : CallHad(r[i], g)
      /\ MeasuredP(s, en, q) => MeasuredP(s, en, r)
      /\ ActiveP(s, en, q) => ActiveP(s, en, r)
      /\ AloneP(s, q) /\ s.key # "CC" => \A i \in DOMAIN r : ~CcCall(r[i])
      /\ \A i \in DOMAIN q : i \in DOMAIN r /\ r[i] = q[i]
  BY <1>1, ComesKeeps DEF Kept
<1>7. TypesP(t, en, op2, r, g)
  BY <1>1, <1>2, <1>6 DEF TypesP, Comes
<1>8. ASSUME Clear(g, PureFs) PROVE PureP(t)
  <2>1. ~early /\ PureP(s)
    BY <1>8, ClearMore, InvParts
  <2>2. s.running = {}
    BY <1>1, <1>4 DEF Sound
  <2> QED BY <1>2, <1>3, <1>5, <2>1, <2>2 DEF PureP, FtJoined, FtStarted
<1>9. Clear(g, AloneFs) => AloneP(t, r)
  BY <1>4, <1>6, InvParts DEF AloneP
<1>10. Clear(g, MeasuredFs) => MeasuredP(t, en, r)
  BY <1>5, <1>6, InvParts, SameActive
<1>11. ASSUME Clear(g, HeldFs) PROVE HeldP(t, op2, r)
  <2>1. HeldP(s, op, q)
    BY <1>11, InvParts
  <2>2. op \subseteq op2
    BY DEF Comes
  <2>3. \A m \in t.inited : m \in op2 \/ \E i \in DOMAIN r : ReadOf(r[i], m)
    BY <1>5, <1>6, <2>1, <2>2 DEF HeldP
  <2>4. t.bat => Bat \in op2 \/ \E i \in DOMAIN r : KeyOfCall(r[i]) = "BAT"
    BY <1>5, <1>6, <2>1, <2>2 DEF HeldP
  <2> QED BY <1>4, <2>3, <2>4 DEF HeldP
<1>12. Clear(g, ActiveFs) => ActiveP(t, en, r)
  BY <1>5, <1>6, InvParts, SameActive
<1> QED BY <1>7, <1>8, <1>9, <1>10, <1>11, <1>12 DEF InvP

\* A request of the battery's is forgotten.
LEMMA BatGivenUp ==
  ASSUME NEW s, NEW en, NEW op, NEW q, NEW h, InvP(s, en, op, q, h), NEW g, h \subseteq g,
         NEW t \in Driver, Sound(t), BatRefused(s, t), t.alone = s.alone, t.read = s.read
  PROVE  InvP(t, en, op, q, g)
<1>1. s \in Driver /\ Sound(s) /\ TypesP(s, en, op, q, h)
  BY InvParts
<1>2. /\ t.active = s.active /\ t.running = s.running /\ t.inited = s.inited
      /\ t.buf = s.buf /\ t.inUse = s.inUse /\ t.seq = s.seq /\ ~t.bat
      /\ t.key = s.key \/ t.key = None
      /\ s.key = "CC" <=> t.key = "CC"
  BY DEF BatRefused, BatElse, None
<1>3. TypesP(t, en, op, q, g)
  BY <1>1 DEF TypesP, CallHad
<1>4. Clear(g, PureFs) => PureP(t)
  BY <1>2, InvParts DEF PureP
<1>5. Clear(g, AloneFs) => AloneP(t, q)
  BY <1>2, InvParts DEF AloneP
<1>6. Clear(g, MeasuredFs) => MeasuredP(t, en, q)
  BY <1>2, InvParts, SameActive
<1>7. Clear(g, HeldFs) => HeldP(t, op, q)
  BY <1>2, InvParts DEF HeldP
<1>8. Clear(g, ActiveFs) => ActiveP(t, en, q)
  BY <1>2, InvParts, SameActive
<1> QED BY <1>3, <1>4, <1>5, <1>6, <1>7, <1>8 DEF InvP

LEMMA BatBegun ==
  ASSUME NEW s, NEW en, NEW op, NEW q, NEW h, InvP(s, en, op, q, h), NEW g, h \subseteq g,
         NEW early \in BOOLEAN, early => "race" \in g,
         NEW t \in Driver, Sound(t), BatStarted(s, early, t), t.alone = s.alone, t.read = s.read,
         NEW op2, NEW r, Comes(op, q, g, op2, r),
         Bat \in op2 \/ \E i \in DOMAIN r : KeyOfCall(r[i]) = "BAT"
  PROVE  InvP(t, en, op2, r, g)
<1>1. s \in Driver /\ Sound(s) /\ TypesP(s, en, op, q, h)
  BY InvParts
<1>2. s.key # "CC" /\ t.key = "BAT" /\ t.active = s.active /\ t.inited = s.inited
      /\ t.running = s.running /\ t.inUse = ~early
  BY DEF BatStarted, BatElse, None
<1>3. s.running = {}
  BY <1>1, <1>2 DEF Sound
<1>4. /\ r \in Seq(Calls) /\ \A i \in DOMAIN r : CallHad(r[i], g)
      /\ MeasuredP(s, en, q) => MeasuredP(s, en, r)
      /\ ActiveP(s, en, q) => ActiveP(s, en, r)
      /\ AloneP(s, q) /\ s.key # "CC" => \A i \in DOMAIN r : ~CcCall(r[i])
      /\ \A i \in DOMAIN q : i \in DOMAIN r /\ r[i] = q[i]
  <2>1. Kept(s, en, q, g, r)
    BY <1>1, ComesKeeps
  <2> QED BY <2>1 DEF Kept
<1>5. TypesP(t, en, op2, r, g)
  BY <1>1, <1>4 DEF TypesP, Comes
<1>6. ASSUME Clear(g, PureFs) PROVE PureP(t)
  <2>1. ~early /\ PureP(s)
    BY <1>6, ClearMore, InvParts
  <2> QED BY <1>2, <1>3, <2>1 DEF PureP
<1>7. Clear(g, AloneFs) => AloneP(t, r)
  BY <1>2, <1>4, InvParts DEF AloneP
<1>8. Clear(g, MeasuredFs) => MeasuredP(t, en, r)
  BY <1>2, <1>4, InvParts, SameActive
<1>9. ASSUME Clear(g, HeldFs) PROVE HeldP(t, op2, r)
  <2>1. HeldP(s, op, q)
    BY <1>9, InvParts
  <2>2. op \subseteq op2
    BY DEF Comes
  <2>3. \A m \in t.inited : m \in op2 \/ \E i \in DOMAIN r : ReadOf(r[i], m)
    BY <1>2, <1>4, <2>1, <2>2 DEF HeldP
  <2> QED BY <1>2, <2>3 DEF HeldP
<1>10. Clear(g, ActiveFs) => ActiveP(t, en, r)
  BY <1>2, <1>4, InvParts, SameActive
<1> QED BY <1>5, <1>6, <1>7, <1>8, <1>9, <1>10 DEF InvP

-----------------------------------------------------------------------------
(* What a reading is made from.                                            *)

\* As many steps as there are channels lead round to the channel of before.
LEMMA OneRound ==
  ASSUME NEW buf \in Seq(Sensors), NEW p \in 1..Len(buf)
  PROVE  SamplesOf(buf, p - 1, Len(buf)) = {buf[p]}
<1>1. ASSUME NEW k \in 0..(Len(buf) - 1)
      PROVE  (((p - 1) + k * Len(buf)) % Len(buf)) + 1 = p
  <2>1. PICK l \in Nat : l = Len(buf)
    OBVIOUS
  <2>2. PICK x \in Nat : x = p - 1
    OBVIOUS
  <2>3. x < l /\ k \in Nat
    BY <2>1, <2>2
  <2>4. (x + k * l) % l = x
    BY <2>3, Round
  <2> QED BY <2>1, <2>2, <2>4
<1>2. 0 \in 0..(Len(buf) - 1)
  OBVIOUS
<1>3. SamplesOf(buf, p - 1, Len(buf)) =
          {buf[(((p - 1) + k * Len(buf)) % Len(buf)) + 1] : k \in 0..(Len(buf) - 1)}
  BY DEF SamplesOf
<1> QED BY <1>1, <1>2, <1>3

LEMMA CcReadsItself ==
  ASSUME NEW s \in Driver, PureP(s), NEW n, n \in Range(s.active),
         n \in s.running, s.key = "CC", ~s.inUse
  PROVE  CcReading(s, n).from = {CcReading(s, n).of}
<1>1. s.buf = s.active /\ s.alone = NoSensor
  BY DEF PureP, None
<1>2. PICK q \in Seq(Clamps) : q = s.active
  BY ActiveAreClamps
<1>3. q \in Seq(Sensors)
  BY ClampsAreSensors
<1>4. PICK p : p = Place(q, n)
  OBVIOUS
<1>5. p \in 1..Len(q) /\ q[p] = n
  BY <1>2, <1>4, PlaceIs
<1>6. SamplesOf(q, p - 1, Len(q)) = {n}
  BY <1>3, <1>5, OneRound
<1>7. CcReading(s, n) = [of |-> n, from |-> SamplesOf(q, p - 1, Len(q))]
  BY <1>1, <1>2, <1>4 DEF CcReading
<1> QED BY <1>6, <1>7

LEMMA FtReadsItself ==
  ASSUME NEW s \in Driver, Sound(s), PureP(s), NEW n \in Inputs, s.key = "FT", ~s.inUse
  PROVE  SamplesOf(s.buf, n[2] - 1, NumFt) = {n}
<1>1. PICK q : q = AllFt
  OBVIOUS
<1>2. s.buf = q
  BY <1>1 DEF PureP, Sound, None
<1>3. q \in Seq(Sensors) /\ Len(q) = NumFt
  BY <1>1, Whole, InputsAreSensors
<1>4. PICK p \in 1..NumFt : p = n[2] /\ q[p] = n
  BY <1>1, Kinds, Whole
<1>5. SamplesOf(q, p - 1, Len(q)) = {q[p]}
  BY <1>3, <1>4, OneRound
<1> QED BY <1>2, <1>3, <1>4, <1>5

LEMMA BatReadsItself ==
  ASSUME NEW s \in Driver, Sound(s), PureP(s), s.key = "BAT", ~s.inUse
  PROVE  BatReading(s).from = {BatReading(s).of}
<1>1. PICK q : q = <<Bat>>
  OBVIOUS
<1>2. s.buf = q
  BY <1>1 DEF PureP, Sound, None
<1>3. q \in Seq(Sensors) /\ Len(q) = 1 /\ q[1] = Bat
  BY <1>1, Kinds
<1>4. PICK p \in 1..Len(q) : p = 1
  BY <1>3
<1>5. SamplesOf(q, p - 1, Len(q)) = {q[p]}
  BY <1>3, OneRound
<1>6. SamplesOf(q, 0, 1) = {Bat}
  BY <1>3, <1>4, <1>5
<1> QED BY <1>2, <1>6 DEF BatReading

\* A sample of n is over, or a command that waited for n.
Goes(op, q, n, op2, r) ==
    \/ r = q /\ op2 \in {op, op \ {n}}
    \/ /\ op2 = op
       /\ \E c : /\ Added(r, c, q) /\ ~CcCall(c) /\ KeyOfCall(c) = KeyOf(n)
                 /\ \A m : ReadOf(c, m) => m = n

Left(s, en, op, q, n, g, op2, r) ==
    /\ r \in Seq(Calls) /\ \A i \in DOMAIN r : CallHad(r[i], g)
    /\ op2 \subseteq Sensors
    /\ MeasuredP(s, en, q) => MeasuredP(s, en, r)
    /\ MeasuredP(s, en, q) /\ ActiveP(s, en, q) => ActiveP(s, en, r)
    /\ AloneP(s, q) => AloneP(s, r)
    /\ (\E i \in DOMAIN q : CcCall(q[i])) => \E i \in DOMAIN r : CcCall(r[i])
    /\ \A m \in op : m # n => m \in op2
    /\ \A m : m # n /\ (\E i \in DOMAIN q : ReadOf(q[i], m))
                => \E i \in DOMAIN r : ReadOf(r[i], m)
    /\ KeyOf(n) # "BAT" /\ (\E i \in DOMAIN q : KeyOfCall(q[i]) = "BAT")
                => \E i \in DOMAIN r : KeyOfCall(r[i]) = "BAT"

LEMMA GoesLeaves ==
  ASSUME NEW s, NEW en, NEW op, NEW q, NEW h, TypesP(s, en, op, q, h), NEW g, h \subseteq g,
         NEW n \in Sensors \ Clamps, NEW op2, NEW r, Goes(op, q, n, op2, r)
  PROVE  Left(s, en, op, q, n, g, op2, r)
<1>1. q \in Seq(Calls) /\ \A i \in DOMAIN q : CallHad(q[i], g)
  BY DEF TypesP, CallHad
<1>2. op \subseteq Sensors
  BY DEF TypesP
<1>3. CASE r = q /\ op2 \in {op, op \ {n}}
  BY <1>1, <1>2, <1>3 DEF Left
<1>4. CASE op2 = op /\ \E c : /\ Added(r, c, q) /\ ~CcCall(c) /\ KeyOfCall(c) = KeyOf(n)
                              /\ \A m : ReadOf(c, m) => m = n
  <2>1. PICK c : /\ Added(r, c, q) /\ ~CcCall(c) /\ KeyOfCall(c) = KeyOf(n)
                 /\ \A m : ReadOf(c, m) => m = n
    BY <1>4
  <2>2. /\ r \in Seq(Calls) /\ Len(q) \in DOMAIN q /\ q[Len(q)] = c /\ Len(q) \notin DOMAIN r
        /\ \A i \in DOMAIN r : i \in DOMAIN q /\ q[i] = r[i]
        /\ \A i \in DOMAIN q : i = Len(q) \/ i \in DOMAIN r
    BY <2>1 DEF Added
  <2>3. \A i \in DOMAIN q : q[i] = c \/ (i \in DOMAIN r /\ r[i] = q[i])
    BY <2>2
  <2>4. \A i \in DOMAIN r : CallHad(r[i], g)
    BY <1>1, <2>2
  <2>5. MeasuredP(s, en, q) => MeasuredP(s, en, r)
    BY <2>2 DEF MeasuredP
  <2>6. ASSUME MeasuredP(s, en, q), ActiveP(s, en, q) PROVE ActiveP(s, en, r)
    <3>1. \A m \in Clamps : ~SwitchedOn(c, m)
      BY <2>1 DEF SwitchedOn, ReadOf
    <3>2. \A m \in Clamps : (\E i \in DOMAIN r : SwitchedOn(r[i], m))
                               <=> \E i \in DOMAIN q : SwitchedOn(q[i], m)
      BY <2>2, <2>3, <3>1
    <3> QED BY <2>6, <3>2 DEF ActiveP
  <2>7. AloneP(s, q) => AloneP(s, r)
    BY <2>2 DEF AloneP
  <2>8. (\E i \in DOMAIN q : CcCall(q[i])) => \E i \in DOMAIN r : CcCall(r[i])
    BY <2>1, <2>3
  <2>9. \A m : m # n /\ (\E i \in DOMAIN q : ReadOf(q[i], m))
                 => \E i \in DOMAIN r : ReadOf(r[i], m)
    BY <2>1, <2>3
  <2>10. KeyOf(n) # "BAT" /\ (\E i \in DOMAIN q : KeyOfCall(q[i]) = "BAT")
                 => \E i \in DOMAIN r : KeyOfCall(r[i]) = "BAT"
    BY <2>1, <2>3
  <2> QED BY <1>2, <1>4, <2>2, <2>4, <2>5, <2>6, <2>7, <2>8, <2>9, <2>10 DEF Left
<1> QED BY <1>3, <1>4 DEF Goes

\* An input is read, by a sample or by a command.
LEMMA FtDone ==
  ASSUME NEW s, NEW en, NEW op, NEW q, NEW h, InvP(s, en, op, q, h), NEW g, h \subseteq g,
         NEW n \in Inputs, NEW fine \in BOOLEAN, NEW t, t = FtGet(s, n, fine),
         NEW op2, NEW r, Goes(op, q, n, op2, r),
         t.resp = "BUSY" /\ s.inUse => (op2 = op /\ r = q) \/ "slow" \in g
  PROVE  InvP(t, en, op2, r, g)
<1>1. s \in Driver /\ Sound(s) /\ TypesP(s, en, op, q, h)
  BY InvParts
<1>2. /\ t \in Driver /\ Sound(t) /\ t.alone = s.alone
      /\ \/ FtNotGot(s, n, t)
         \/ /\ FtGot(s, n, t)
            /\ t.read = [of |-> n, from |-> SamplesOf(s.buf, n[2] - 1, NumFt)]
  BY <1>1, FtGetFields
<1>3. n \in Sensors \ Clamps /\ KeyOf(n) = "FT" /\ n # Bat
  BY Kinds
<1>4. Left(s, en, op, q, n, g, op2, r)
  BY <1>1, <1>3, GoesLeaves
<1>5. TypesP(t, en, op2, r, g)
  BY <1>1, <1>2, <1>4 DEF TypesP, Left
<1>6. /\ t.active = s.active /\ t.running = s.running /\ t.bat = s.bat
      /\ t.inited \subseteq s.inited /\ t.inUse = s.inUse /\ t.buf = s.buf /\ t.seq = s.seq
      /\ t.key = s.key \/ t.key = None \/ t.key = "FT"
  BY <1>2 DEF FtNotGot, FtGot, Like, ButActive
<1>7. ASSUME Clear(g, PureFs) PROVE PureP(t)
  <2>1. PureP(s)
    BY <1>7, InvParts
  <2>2. CASE FtNotGot(s, n, t)
    BY <1>2, <2>1, <2>2 DEF PureP, FtNotGot, Like, ButActive
  <2>3. CASE /\ FtGot(s, n, t)
             /\ t.read = [of |-> n, from |-> SamplesOf(s.buf, n[2] - 1, NumFt)]
    <3>1. s.key = "FT" /\ ~s.inUse
      BY <2>3 DEF FtGot
    <3>2. SamplesOf(s.buf, n[2] - 1, NumFt) = {n}
      BY <1>1, <2>1, <3>1, FtReadsItself
    <3>3. t.read.from = {t.read.of}
      BY <2>3, <3>2
    <3>4. s.running = {}
      BY <1>1, <3>1 DEF Sound
    <3>5. ~t.inUse /\ t.buf = t.seq
      BY <1>6, <2>1, <3>1 DEF PureP, None
    <3> QED BY <1>2, <1>6, <2>1, <3>3, <3>4, <3>5 DEF PureP
  <2> QED BY <1>2, <2>2, <2>3
<1>8. \/ t.key = s.key
      \/ s.key # "CC" /\ t.key # "CC"
  BY <1>2 DEF FtNotGot, FtGot, Like, ButActive, None
<1>9. ASSUME Clear(g, AloneFs) PROVE AloneP(t, r)
  <2>1. AloneP(s, r)
    BY <1>4, <1>9, InvParts DEF Left
  <2> QED BY <1>6, <1>8, <2>1 DEF AloneP
<1>10. Clear(g, MeasuredFs) => MeasuredP(t, en, r)
  <2>1. Clear(g, MeasuredFs) => MeasuredP(s, en, r)
    BY <1>4, InvParts DEF Left
  <2> QED BY <1>6, <2>1, SameActive
<1>11. ASSUME Clear(g, HeldFs) PROVE HeldP(t, op2, r)
  <2>1. HeldP(s, op, q) /\ "slow" \notin g
    BY <1>11, ClearMore, InvParts
  <2>2. t.key = "CC" => \/ \E i \in DOMAIN r : CcCall(r[i])
                        \/ t.running # {} /\ t.running \subseteq op2 \cap Range(t.active)
    <3>1. SUFFICES ASSUME t.key = "CC", ~\E i \in DOMAIN r : CcCall(r[i])
                   PROVE  t.running # {} /\ t.running \subseteq op2 \cap Range(t.active)
      OBVIOUS
    <3>2. s.key = "CC" /\ ~\E i \in DOMAIN q : CcCall(q[i])
      BY <1>4, <1>8, <3>1 DEF Left
    <3>3. s.running # {} /\ s.running \subseteq op \cap Range(s.active)
      BY <2>1, <3>2 DEF HeldP
    <3>4. \A m \in s.running : m # n
      BY <1>1, <1>3 DEF Driver
    <3>5. s.running \subseteq op2
      BY <1>4, <3>3, <3>4 DEF Left
    <3> QED BY <1>6, <3>3, <3>5
  <2>3. \A m \in t.inited : m \in op2 \/ \E i \in DOMAIN r : ReadOf(r[i], m)
    <3>1. SUFFICES ASSUME NEW m \in t.inited
                   PROVE  m \in op2 \/ \E i \in DOMAIN r : ReadOf(r[i], m)
      OBVIOUS
    <3>2. m \in op \/ \E i \in DOMAIN q : ReadOf(q[i], m)
      BY <1>6, <2>1 DEF HeldP
    <3>3. CASE m # n
      BY <1>4, <3>2, <3>3 DEF Left
    <3>4. CASE m = n
      <4>1. t.resp = "BUSY" /\ s.inUse
        BY <1>2, <1>6, <3>4 DEF FtNotGot, FtGot
      <4>2. op2 = op /\ r = q
        BY <2>1, <4>1
      <4> QED BY <3>2, <4>2
    <3> QED BY <3>3, <3>4
  <2>4. t.bat => Bat \in op2 \/ \E i \in DOMAIN r : KeyOfCall(r[i]) = "BAT"
    BY <1>3, <1>4, <1>6, <2>1 DEF HeldP, Left
  <2> QED BY <2>2, <2>3, <2>4 DEF HeldP
<1>12. Clear(g, ActiveFs) => ActiveP(t, en, r)
  <2>1. Clear(g, ActiveFs) => ActiveP(s, en, r)
    BY <1>4, ClearMore, InvParts DEF Left
  <2> QED BY <1>6, <2>1, SameActive
<1> QED BY <1>5, <1>7, <1>9, <1>10, <1>11, <1>12 DEF InvP

\* The battery is read, by a sample or by a command, or a command gives up.
LEMMA BatDone ==
  ASSUME NEW s, NEW en, NEW op, NEW q, NEW h, InvP(s, en, op, q, h), NEW g, h \subseteq g,
         NEW t \in Driver, Sound(t), t.alone = s.alone,
         \/ BatLetGo(s, t) /\ ~s.inUse /\ t.read = BatReading(s)
         \/ BatNotGot(s, t),
         NEW op2, NEW r, Goes(op, q, Bat, op2, r),
         s.bat /\ s.inUse => (op2 = op /\ r = q) \/ "slow" \in g
  PROVE  InvP(t, en, op2, r, g)
<1>1. s \in Driver /\ Sound(s) /\ TypesP(s, en, op, q, h)
  BY InvParts
<1>2. PICK n \in Sensors \ Clamps : n = Bat
  BY Kinds
<1>3. Goes(op, q, n, op2, r)
  BY <1>2
<1>4. Left(s, en, op, q, n, g, op2, r)
  BY <1>1, <1>3, GoesLeaves
<1>5. TypesP(t, en, op2, r, g)
  BY <1>1, <1>4 DEF TypesP, Left
<1>6. /\ t.active = s.active /\ t.running = s.running
      /\ t.inited = s.inited /\ t.inUse = s.inUse /\ t.buf = s.buf /\ t.seq = s.seq
      /\ t.bat => s.bat
  BY DEF BatNotGot, BatLetGo, BatElse, Like, ButActive
<1>7. \/ t.key = s.key
      \/ s.key # "CC" /\ t.key = None
  BY DEF BatNotGot, BatLetGo, Like, ButActive
<1>8. ASSUME Clear(g, PureFs) PROVE PureP(t)
  <2>1. PureP(s)
    BY <1>8, InvParts
  <2>2. CASE BatNotGot(s, t)
    BY <2>1, <2>2 DEF PureP, BatNotGot, Like, ButActive
  <2>3. CASE BatLetGo(s, t) /\ ~s.inUse /\ t.read = BatReading(s)
    <3>1. s.key = "BAT" /\ t.key = None
      BY <2>3 DEF BatLetGo
    <3>2. t.read.from = {t.read.of}
      BY <1>1, <2>1, <2>3, <3>1, BatReadsItself
    <3>3. s.running = {}
      BY <1>1, <3>1 DEF Sound
    <3> QED BY <1>6, <2>1, <3>1, <3>2, <3>3 DEF PureP
  <2> QED BY <2>2, <2>3
<1>9. ASSUME Clear(g, AloneFs) PROVE AloneP(t, r)
  <2>1. AloneP(s, r)
    BY <1>4, <1>9, InvParts DEF Left
  <2> QED BY <1>6, <1>7, <2>1 DEF AloneP
<1>10. Clear(g, MeasuredFs) => MeasuredP(t, en, r)
  <2>1. Clear(g, MeasuredFs) => MeasuredP(s, en, r)
    BY <1>4, InvParts DEF Left
  <2> QED BY <1>6, <2>1, SameActive
<1>11. ASSUME Clear(g, HeldFs) PROVE HeldP(t, op2, r)
  <2>1. HeldP(s, op, q) /\ "slow" \notin g
    BY <1>11, ClearMore, InvParts
  <2>2. t.key = "CC" => \/ \E i \in DOMAIN r : CcCall(r[i])
                        \/ t.running # {} /\ t.running \subseteq op2 \cap Range(t.active)
    <3>1. SUFFICES ASSUME t.key = "CC", ~\E i \in DOMAIN r : CcCall(r[i])
                   PROVE  t.running # {} /\ t.running \subseteq op2 \cap Range(t.active)
      OBVIOUS
    <3>2. s.key = "CC" /\ ~\E i \in DOMAIN q : CcCall(q[i])
      BY <1>4, <1>7, <3>1 DEF Left, None
    <3>3. s.running # {} /\ s.running \subseteq op \cap Range(s.active)
      BY <2>1, <3>2 DEF HeldP
    <3>4. \A m \in s.running : m # n
      BY <1>1, <1>2 DEF Driver
    <3>5. s.running \subseteq op2
      BY <1>4, <3>3, <3>4 DEF Left
    <3> QED BY <1>6, <3>3, <3>5
  <2>3. \A m \in t.inited : m \in op2 \/ \E i \in DOMAIN r : ReadOf(r[i], m)
    <3>1. \A m \in s.inited : m # n
      BY <1>1, <1>2, Kinds DEF Driver
    <3> QED BY <1>4, <1>6, <2>1, <3>1 DEF HeldP, Left
  <2>4. t.bat => Bat \in op2 \/ \E i \in DOMAIN r : KeyOfCall(r[i]) = "BAT"
    <3>1. SUFFICES ASSUME t.bat
                   PROVE  Bat \in op2 \/ \E i \in DOMAIN r : KeyOfCall(r[i]) = "BAT"
      OBVIOUS
    <3>2. s.bat /\ s.inUse
      BY <1>6, <3>1 DEF BatNotGot, BatLetGo
    <3>3. op2 = op /\ r = q
      BY <2>1, <3>2
    <3> QED BY <2>1, <3>2, <3>3 DEF HeldP
  <2> QED BY <2>2, <2>3, <2>4 DEF HeldP
<1>12. Clear(g, ActiveFs) => ActiveP(t, en, r)
  <2>1. Clear(g, ActiveFs) => ActiveP(s, en, r)
    BY <1>4, ClearMore, InvParts DEF Left
  <2> QED BY <1>6, <2>1, SameActive
<1> QED BY <1>5, <1>8, <1>9, <1>10, <1>11, <1>12 DEF InvP

\* A sample of a clamp is collected.
LEMMA CcCollected ==
  ASSUME NEW s, NEW en, NEW op, NEW q, NEW h, InvP(s, en, op, q, h), NEW g, h \subseteq g,
         q = <<>>, NEW n \in Clamps, NEW fine \in BOOLEAN, NEW t, t = CcGet(s, n, fine),
         NEW op2, op2 = IF t.resp = "BUSY" THEN op ELSE op \ {n}
  PROVE  InvP(t, en, op2, q, g)
<1>1. s \in Driver /\ Sound(s) /\ TypesP(s, en, op, q, h)
  BY InvParts
<1>2. /\ t \in Driver /\ Sound(t) /\ t.alone \in {s.alone, NoSensor}
      /\ CcNotGot(s, n, t) \/ (CcGot(s, n, t) /\ t.read = CcReading(s, n))
  BY <1>1, CcGetFields
<1>3. TypesP(t, en, op2, q, g)
  BY <1>1, <1>2, NoCalls DEF TypesP
<1>4. AloneP(t, q)
  BY NoCalls DEF AloneP
<1>5. /\ t.active = s.active /\ t.inited = s.inited /\ t.bat = s.bat
      /\ t.inUse = s.inUse /\ t.buf = s.buf /\ t.seq = s.seq
      /\ t.running \subseteq s.running
      /\ t.key = s.key \/ (t.key = None /\ t.running = {})
  BY <1>2 DEF CcNotGot, CcGot, Like, ButActive
<1>6. ASSUME Clear(g, PureFs) PROVE PureP(t)
  <2>1. PureP(s)
    BY <1>6, InvParts
  <2>2. CASE CcNotGot(s, n, t)
    BY <1>2, <2>1, <2>2 DEF PureP, CcNotGot, Like, ButActive
  <2>3. CASE CcGot(s, n, t) /\ t.read = CcReading(s, n)
    <3>1. t.read.from = {t.read.of}
      BY <1>1, <2>1, <2>3, CcReadsItself DEF CcGot
    <3>2. t.running # {} => s.running # {}
      BY <1>5
    <3> QED BY <1>2, <1>5, <2>1, <3>1, <3>2 DEF PureP
  <2> QED BY <1>2, <2>2, <2>3
<1>7. Clear(g, MeasuredFs) => MeasuredP(t, en, q)
  BY <1>5, InvParts, SameActive
<1>8. ASSUME Clear(g, HeldFs) PROVE HeldP(t, op2, q)
  <2>1. HeldP(s, op, q)
    BY <1>8, InvParts
  <2>2. n \notin s.inited /\ n # Bat
    BY <1>1, Kinds DEF Driver
  <2>3. \A m \in t.inited : m \in op2 \/ \E i \in DOMAIN q : ReadOf(q[i], m)
    BY <1>5, <2>1, <2>2 DEF HeldP
  <2>4. t.bat => Bat \in op2 \/ \E i \in DOMAIN q : KeyOfCall(q[i]) = "BAT"
    BY <1>5, <2>1, <2>2 DEF HeldP
  <2>5. ASSUME t.key = "CC" PROVE t.running # {} /\ t.running \subseteq op2 \cap Range(t.active)
    <3>1. s.key = "CC"
      BY <1>5, <2>5 DEF None
    <3>2. s.running # {} /\ s.running \subseteq op \cap Range(s.active)
      BY <2>1, <3>1, NoCalls DEF HeldP
    <3>3. CASE CcNotGot(s, n, t)
      <4>1. t.running = s.running
        BY <3>3 DEF CcNotGot, Like, ButActive
      <4>2. t.resp = "BUSY" \/ n \notin s.running
        BY <3>2, <3>3 DEF CcNotGot
      <4> QED BY <1>5, <3>2, <4>1, <4>2
    <3>4. CASE CcGot(s, n, t)
      <4>1. t.running = s.running \ {n} /\ t.running # {}
        BY <2>5, <3>4 DEF CcGot, None
      <4> QED BY <1>5, <3>2, <4>1
    <3> QED BY <1>2, <3>3, <3>4
  <2> QED BY <2>3, <2>4, <2>5 DEF HeldP
<1>9. Clear(g, ActiveFs) => ActiveP(t, en, q)
  BY <1>5, InvParts, SameActive
<1> QED BY <1>3, <1>4, <1>6, <1>7, <1>8, <1>9 DEF InvP

-----------------------------------------------------------------------------
(* Commands that want clamps.                                              *)

\* What is known of the calls of q when c is its last one.
LEMMA LastCall ==
  ASSUME NEW r, NEW c, NEW q, Added(r, c, q), NEW s, NEW en
  PROVE  /\ r \in Seq(Calls) /\ c \in Calls
         /\ \A i \in DOMAIN r : i \in DOMAIN q /\ q[i] = r[i]
         /\ \A i \in DOMAIN q : q[i] = c \/ (i \in DOMAIN r /\ r[i] = q[i])
         /\ \E i \in DOMAIN q : q[i] = c
         /\ MeasuredP(s, en, q) => MeasuredP(s, en, r)
         /\ AloneP(s, q) => \A i \in DOMAIN r : ~CcCall(r[i])
<1>1. /\ r \in Seq(Calls) /\ c \in Calls
      /\ Len(q) \in DOMAIN q /\ q[Len(q)] = c /\ Len(q) \notin DOMAIN r
      /\ \A i \in DOMAIN r : i \in DOMAIN q /\ q[i] = r[i]
      /\ \A i \in DOMAIN q : i = Len(q) \/ i \in DOMAIN r
  BY DEF Added
<1>2. \A i \in DOMAIN q : q[i] = c \/ (i \in DOMAIN r /\ r[i] = q[i])
  BY <1>1
<1>3. MeasuredP(s, en, q) => MeasuredP(s, en, r)
  BY <1>1 DEF MeasuredP
<1>4. AloneP(s, q) => \A i \in DOMAIN r : ~CcCall(r[i])
  BY <1>1 DEF AloneP
<1> QED BY <1>1, <1>2, <1>3, <1>4

\* A command begins to wait for clamps, which nobody had.
LEMMA CcCallBegun ==
  ASSUME NEW s, NEW en, NEW op, NEW q, NEW h, InvP(s, en, op, q, h), NEW g, h \subseteq g,
         NEW t \in Driver, Sound(t), s.key = None, t.key = "CC",
         Range(s.active) \subseteq Range(t.active), t.inited = s.inited, t.bat = s.bat,
         NEW c \in Calls, c.what \in {"cc", "ccs", "cal"}, CallHad(c, g),
         c.what # "cc" => c.before = s.active,
         NEW r, Added(q, c, r)
  PROVE  InvP(t, en, op, r, g)
<1>1. s \in Driver /\ Sound(s) /\ TypesP(s, en, op, q, h)
  BY InvParts
<1>2. /\ r \in Seq(Calls) /\ r[Len(r)] = c /\ Len(r) \in DOMAIN r
      /\ \A i \in DOMAIN r : i = Len(r) \/ (i \in DOMAIN q /\ r[i] = q[i])
  BY DEF Added
<1>3. \A i \in DOMAIN r : CallHad(r[i], g)
  BY <1>1, <1>2 DEF TypesP, CallHad
<1>4. TypesP(t, en, op, r, g)
  BY <1>1, <1>2, <1>3 DEF TypesP
<1>5. "cc" \in g \/ "cal" \in g
  BY DEF CallHad
<1>6. ~Clear(g, PureFs) /\ ~Clear(g, ActiveFs)
  BY <1>5, ClearMore
<1>7. ASSUME Clear(g, AloneFs) PROVE AloneP(t, r)
  <2>1. \A i \in DOMAIN q : ~CcCall(q[i])
    BY <1>7, InvParts DEF AloneP, None
  <2>2. c.what # "read"
    OBVIOUS
  <2> QED BY <1>2, <2>1, <2>2 DEF AloneP
<1>8. ASSUME Clear(g, MeasuredFs) PROVE MeasuredP(t, en, r)
  <2>1. MeasuredP(s, en, q)
    BY <1>8, InvParts
  <2>2. en \cap Clamps \subseteq Range(s.active)
    BY <2>1 DEF MeasuredP
  <2>3. en \cap Clamps \subseteq Range(t.active)
    BY <2>2
  <2>4. c.what \in {"ccs", "cal"} => en \cap Clamps \subseteq Range(c.before)
    BY <2>2
  <2>5. \A i \in DOMAIN r :
           /\ r[i].what \in {"ccs", "cal"} => en \cap Clamps \subseteq Range(r[i].before)
           /\ r[i].what = "read" /\ r[i].was => r[i].n \in Clamps \ en
    <3> SUFFICES ASSUME NEW i \in DOMAIN r
                 PROVE  /\ r[i].what \in {"ccs", "cal"} => en \cap Clamps \subseteq Range(r[i].before)
                        /\ r[i].what = "read" /\ r[i].was => r[i].n \in Clamps \ en
      OBVIOUS
    <3>1. CASE i = Len(r)
      BY <1>2, <2>4, <3>1
    <3>2. CASE i \in DOMAIN q /\ r[i] = q[i]
      BY <2>1, <3>2 DEF MeasuredP
    <3> QED BY <1>2, <3>1, <3>2
  <2> QED BY <2>3, <2>5 DEF MeasuredP
<1>9. HeldP(t, op, r)
  <2>1. t.inited = {} /\ ~t.bat
    BY <1>1 DEF Sound, None
  <2>2. CcCall(c)
    BY DEF CcCall
  <2> QED BY <1>2, <2>1, <2>2 DEF HeldP
<1> QED BY <1>4, <1>6, <1>7, <1>8, <1>9 DEF InvP

\* Such a command was refused: at most, more clamps are active.
LEMMA CcCallRefused ==
  ASSUME NEW s, NEW en, NEW op, NEW q, NEW h, InvP(s, en, op, q, h), NEW g, h \subseteq g,
         NEW t \in Driver, Sound(t), ButActive(s, t), Range(s.active) \subseteq Range(t.active),
         "cc" \in g \/ "cal" \in g
  PROVE  InvP(t, en, op, q, g)
<1>1. TypesP(s, en, op, q, h)
  BY InvParts
<1>2. TypesP(t, en, op, q, g)
  BY <1>1 DEF TypesP, CallHad
<1>3. ~Clear(g, PureFs) /\ ~Clear(g, ActiveFs)
  BY ClearMore
<1>4. Clear(g, AloneFs) => AloneP(t, q)
  BY InvParts DEF AloneP, ButActive
<1>5. Clear(g, MeasuredFs) => MeasuredP(t, en, q)
  BY InvParts DEF MeasuredP
<1>6. Clear(g, HeldFs) => HeldP(t, op, q)
  BY InvParts DEF HeldP, ButActive
<1> QED BY <1>2, <1>3, <1>4, <1>5, <1>6 DEF InvP

\* The innermost command, which waited for clamps, is done with them or gave up.
LEMMA CcCallEnded ==
  ASSUME NEW s, NEW en, NEW op, NEW q, NEW h, InvP(s, en, op, q, h), NEW g, h \subseteq g,
         NEW c, NEW r, Added(r, c, q), c.what \in {"cc", "ccs", "cal"},
         NEW t \in Driver, Sound(t),
         \/ CcLetGo(s, t) /\ (t.active = s.active \/ (c.what # "cc" /\ t.active = c.before))
         \/ Like(s, t) /\ "slow" \in g
  PROVE  InvP(t, en, op, r, g)
<1>1. s \in Driver /\ Sound(s) /\ TypesP(s, en, op, q, h)
  BY InvParts
<1>2. /\ r \in Seq(Calls) /\ c \in Calls
      /\ \A i \in DOMAIN r : i \in DOMAIN q /\ q[i] = r[i]
      /\ \A i \in DOMAIN q : q[i] = c \/ (i \in DOMAIN r /\ r[i] = q[i])
      /\ \E i \in DOMAIN q : q[i] = c
      /\ MeasuredP(s, en, q) => MeasuredP(s, en, r)
      /\ AloneP(s, q) => \A i \in DOMAIN r : ~CcCall(r[i])
  BY LastCall
<1>3. \A i \in DOMAIN q : CallHad(q[i], g)
  BY <1>1 DEF TypesP, CallHad
<1>4. TypesP(t, en, op, r, g)
  BY <1>1, <1>2, <1>3 DEF TypesP
<1>5. CallHad(c, g)
  BY <1>2, <1>3
<1>6. ~Clear(g, PureFs) /\ ~Clear(g, ActiveFs)
  BY <1>5, ClearMore DEF CallHad
<1>7. Clear(g, AloneFs) => AloneP(t, r)
  BY <1>2, InvParts DEF AloneP
<1>8. ASSUME Clear(g, MeasuredFs) PROVE MeasuredP(t, en, r)
  <2>1. MeasuredP(s, en, q) /\ MeasuredP(s, en, r)
    BY <1>2, <1>8, InvParts
  <2>2. CASE t.active = s.active
    BY <2>1, <2>2, SameActive
  <2>3. CASE c.what # "cc" /\ t.active = c.before
    <3>1. en \cap Clamps \subseteq Range(c.before)
      BY <1>2, <2>1, <2>3 DEF MeasuredP
    <3> QED BY <2>1, <2>3, <3>1 DEF MeasuredP
  <2> QED BY <2>2, <2>3 DEF Like
<1>9. ASSUME Clear(g, HeldFs) PROVE HeldP(t, op, r)
  <2>1. HeldP(s, op, q) /\ "slow" \notin g
    BY <1>9, ClearMore, InvParts
  <2>2. CcLetGo(s, t)
    BY <2>1
  <2>3. t.key # "CC" /\ t.inited = s.inited /\ t.bat = s.bat
    BY <2>2 DEF CcLetGo, None
  <2>4. (\A n : ~ReadOf(c, n)) /\ KeyOfCall(c) # "BAT"
    BY DEF ReadOf, KeyOfCall
  <2> QED BY <1>2, <2>1, <2>3, <2>4 DEF HeldP
<1> QED BY <1>4, <1>6, <1>7, <1>8, <1>9 DEF InvP

\* A clamp that was switched on for a command which was refused is off again.
LEMMA CcReadRefused ==
  ASSUME NEW s, NEW en, NEW op, NEW q, NEW h, InvP(s, en, op, q, h), NEW g, h \subseteq g,
         NEW t \in Driver, Sound(t), ButActive(s, t), Range(t.active) = Range(s.active),
         "read" \in g
  PROVE  InvP(t, en, op, q, g)
<1>1. TypesP(s, en, op, q, h)
  BY InvParts
<1>2. TypesP(t, en, op, q, g)
  BY <1>1 DEF TypesP, CallHad
<1>3. ~Clear(g, PureFs)
  BY ClearMore
<1>4. Clear(g, AloneFs) => AloneP(t, q)
  BY InvParts DEF AloneP, ButActive
<1>5. Clear(g, MeasuredFs) => MeasuredP(t, en, q)
  BY InvParts DEF MeasuredP
<1>6. Clear(g, HeldFs) => HeldP(t, op, q)
  BY InvParts DEF HeldP, ButActive
<1>7. Clear(g, ActiveFs) => ActiveP(t, en, q)
  BY InvParts DEF ActiveP
<1> QED BY <1>2, <1>3, <1>4, <1>5, <1>6, <1>7 DEF InvP

\* A command that reads a clamp begins to wait.
LEMMA CcReadBegun ==
  ASSUME NEW s, NEW en, NEW op, NEW q, NEW h, InvP(s, en, op, q, h), NEW g, h \subseteq g,
         NEW n \in Clamps, NEW was \in BOOLEAN, was <=> n \notin Range(s.active),
         NEW t \in Driver, Sound(t), s.key = None, t.key = "CC", t.running = {n},
         Range(t.active) = Range(s.active) \cup {n}, t.inited = s.inited, t.bat = s.bat,
         "read" \in g, NEW c, c = [what |-> "read", n |-> n, was |-> was],
         NEW r, Added(q, c, r)
  PROVE  InvP(t, en, op, r, g)
<1>1. s \in Driver /\ Sound(s) /\ TypesP(s, en, op, q, h)
  BY InvParts
<1>2. /\ r \in Seq(Calls) /\ r[Len(r)] = c /\ Len(r) \in DOMAIN r
      /\ \A i \in DOMAIN r : i = Len(r) \/ (i \in DOMAIN q /\ r[i] = q[i])
      /\ \A i \in DOMAIN q : i \in DOMAIN r /\ r[i] = q[i]
  BY DEF Added
<1>3. c.what = "read" /\ c.n = n /\ c.was = was /\ CcCall(c)
  BY DEF CcCall
<1>4. \A i \in DOMAIN r : CallHad(r[i], g)
  BY <1>1, <1>2, <1>3 DEF TypesP, CallHad
<1>5. TypesP(t, en, op, r, g)
  BY <1>1, <1>2, <1>4 DEF TypesP
<1>6. ~Clear(g, PureFs)
  BY ClearMore
<1>7. Clear(g, AloneFs) => \A i \in DOMAIN q : ~CcCall(q[i])
  BY InvParts DEF AloneP, None
<1>8. Clear(g, AloneFs) => AloneP(t, r)
  BY <1>2, <1>3, <1>7 DEF AloneP
<1>9. ASSUME Clear(g, MeasuredFs) PROVE MeasuredP(t, en, r)
  <2>1. MeasuredP(s, en, q)
    BY <1>9, InvParts
  <2>2. en \cap Clamps \subseteq Range(s.active)
    BY <2>1 DEF MeasuredP
  <2>3. en \cap Clamps \subseteq Range(t.active)
    BY <2>2
  <2>4. was => n \in Clamps \ en
    BY <2>2
  <2>5. \A i \in DOMAIN r :
           /\ r[i].what \in {"ccs", "cal"} => en \cap Clamps \subseteq Range(r[i].before)
           /\ r[i].what = "read" /\ r[i].was => r[i].n \in Clamps \ en
    <3> SUFFICES ASSUME NEW i \in DOMAIN r
                 PROVE  /\ r[i].what \in {"ccs", "cal"} => en \cap Clamps \subseteq Range(r[i].before)
                        /\ r[i].what = "read" /\ r[i].was => r[i].n \in Clamps \ en
      OBVIOUS
    <3>1. CASE i = Len(r)
      BY <1>2, <1>3, <2>4, <3>1
    <3>2. CASE i \in DOMAIN q /\ r[i] = q[i]
      BY <2>1, <3>2 DEF MeasuredP
    <3> QED BY <1>2, <3>1, <3>2
  <2> QED BY <2>3, <2>5 DEF MeasuredP
<1>10. HeldP(t, op, r)
  <2>1. t.inited = {} /\ ~t.bat
    BY <1>1 DEF Sound, None
  <2> QED BY <1>2, <1>3, <2>1 DEF HeldP
<1>11. ASSUME Clear(g, ActiveFs) PROVE ActiveP(t, en, r)
  <2>1. ActiveP(s, en, q)
    BY <1>11, InvParts
  <2>2. \A m : (\E i \in DOMAIN r : SwitchedOn(r[i], m))
                  <=> ((was /\ m = n) \/ \E i \in DOMAIN q : SwitchedOn(q[i], m))
    <3>1. \A m : SwitchedOn(c, m) <=> (was /\ m = n)
      BY <1>3 DEF SwitchedOn
    <3> QED BY <1>2, <3>1
  <2>3. \A m \in Clamps : m \in Range(t.active) <=> (m \in Range(s.active) \/ (was /\ m = n))
    OBVIOUS
  <2> QED BY <2>1, <2>2, <2>3 DEF ActiveP
<1> QED BY <1>5, <1>6, <1>8, <1>9, <1>10, <1>11 DEF InvP

\* The innermost command has read its clamp, or gives up; a clamp that it
\* switched on is switched off.
LEMMA CcReadEnded ==
  ASSUME NEW s, NEW en, NEW op, NEW q, NEW h, InvP(s, en, op, q, h), NEW g, h \subseteq g,
         NEW n \in Clamps, NEW was \in BOOLEAN,
         NEW c, c = [what |-> "read", n |-> n, was |-> was], NEW r, Added(r, c, q),
         s.inUse => "slow" \in g, NEW fine \in BOOLEAN,
         NEW b, b = CcGet(s, n, fine), NEW t, t = ReadDisable(b, n, was)
  PROVE  InvP(t, en, op, r, g)
<1>1. s \in Driver /\ Sound(s) /\ TypesP(s, en, op, q, h)
  BY InvParts
<1>2. b \in Driver /\ Sound(b) /\ (CcNotGot(s, n, b) \/ CcGot(s, n, b))
  BY <1>1, CcGetFields
<1>3. /\ t \in Driver /\ ButActive(b, t)
      /\ ~was => t.active = b.active
      /\ b.running # {} => t.active = b.active
      /\ b.running = {} /\ was => Range(t.active) = Range(b.active) \ {n}
  <2>1. CASE ~was
    <3>1. t = b
      BY <2>1 DEF ReadDisable
    <3> QED BY <1>2, <2>1, <3>1 DEF ButActive
  <2>2. CASE was
    <3>1. b \in Driver /\ t = CcEnable(b, n, FALSE)
      BY <1>2, <2>2, Kinds DEF ReadDisable, EnableCb
    <3>2. \A on \in BOOLEAN : \A u : u = CcEnable(b, n, on) =>
             /\ u \in Driver /\ ButActive(b, u) /\ u.alone = b.alone /\ u.read = b.read
             /\ b.running # {} => u.active = b.active
             /\ b.running = {} /\ on => Range(u.active) = Range(b.active) \cup {n}
             /\ b.running = {} /\ ~on => Range(u.active) = Range(b.active) \ {n}
      BY <1>2, CcEnableFields
    <3> QED BY <2>2, <3>1, <3>2
  <2> QED BY <2>1, <2>2
<1>4. Sound(t)
  BY <1>2, <1>3, SoundLike
<1>5. /\ r \in Seq(Calls) /\ c \in Calls
      /\ \A i \in DOMAIN r : i \in DOMAIN q /\ q[i] = r[i]
      /\ \A i \in DOMAIN q : q[i] = c \/ (i \in DOMAIN r /\ r[i] = q[i])
      /\ \E i \in DOMAIN q : q[i] = c
      /\ MeasuredP(s, en, q) => MeasuredP(s, en, r)
      /\ AloneP(s, q) => \A i \in DOMAIN r : ~CcCall(r[i])
  BY LastCall
<1>6. c.what = "read" /\ c.n = n /\ c.was = was /\ CcCall(c)
  BY DEF CcCall
<1>7. \A i \in DOMAIN q : CallHad(q[i], g)
  BY <1>1 DEF TypesP, CallHad
<1>8. TypesP(t, en, op, r, g)
  BY <1>1, <1>3, <1>4, <1>5, <1>7 DEF TypesP
<1>9. ~Clear(g, PureFs)
  BY <1>5, <1>6, <1>7, ClearMore DEF CallHad
<1>10. Clear(g, AloneFs) => AloneP(t, r)
  BY <1>5, InvParts DEF AloneP
<1>11. b.active = s.active /\ b.inited = s.inited /\ b.bat = s.bat
  BY <1>2 DEF CcNotGot, CcGot, Like, ButActive
<1>12. ASSUME Clear(g, MeasuredFs) PROVE MeasuredP(t, en, r)
  <2>1. MeasuredP(s, en, q) /\ MeasuredP(s, en, r)
    BY <1>5, <1>12, InvParts
  <2>2. was => n \notin en
    BY <1>5, <1>6, <2>1 DEF MeasuredP
  <2>3. en \cap Clamps \subseteq Range(t.active)
    BY <1>3, <1>11, <2>1, <2>2 DEF MeasuredP
  <2> QED BY <2>1, <2>3 DEF MeasuredP
<1>13. ASSUME Clear(g, AloneFs)
       PROVE  b.running = {} /\ b.key = None /\ n \in Range(s.active)
  <2>1. AloneP(s, q) /\ "slow" \notin g
    BY <1>13, ClearMore, InvParts
  <2>2. ~s.inUse /\ s.running = {n} /\ n \in Range(s.active)
    BY <1>5, <1>6, <2>1 DEF AloneP
  <2>3. CcGot(s, n, b)
    BY <1>2, <2>2 DEF CcNotGot
  <2> QED BY <2>2, <2>3 DEF CcGot
<1>14. ASSUME Clear(g, HeldFs) PROVE HeldP(t, op, r)
  <2>1. HeldP(s, op, q) /\ b.key = None
    BY <1>13, <1>14, ClearMore, InvParts
  <2>2. t.key # "CC" /\ t.inited = s.inited /\ t.bat = s.bat
    BY <1>3, <1>11, <2>1 DEF ButActive, None
  <2>3. (\A m : ReadOf(c, m) => m = n) /\ KeyOfCall(c) # "BAT"
    BY <1>6, Kinds DEF ReadOf, KeyOfCall
  <2>4. \A m \in s.inited : m # n
    BY <1>1, Kinds DEF Driver
  <2> QED BY <1>5, <2>1, <2>2, <2>3, <2>4 DEF HeldP
<1>15. ASSUME Clear(g, ActiveFs) PROVE ActiveP(t, en, r)
  <2>1. /\ ActiveP(s, en, q) /\ MeasuredP(s, en, q) /\ b.running = {}
        /\ \A i \in DOMAIN r : ~CcCall(r[i])
    BY <1>5, <1>13, <1>15, ClearMore, InvParts
  <2>2. \A i \in DOMAIN q, m \in Clamps : SwitchedOn(q[i], m) <=> q[i] = c /\ was /\ m = n
    BY <1>5, <1>6, <2>1 DEF SwitchedOn, CcCall
  <2>3. \A m \in Clamps : ~\E i \in DOMAIN r : SwitchedOn(r[i], m)
    BY <2>1 DEF SwitchedOn, CcCall
  <2>4. was => n \notin en
    BY <1>5, <1>6, <2>1 DEF MeasuredP
  <2>5. \A m \in Clamps : m \in Range(s.active) <=> m \in en \/ (was /\ m = n)
    BY <1>5, <2>1, <2>2 DEF ActiveP
  <2>6. \A m \in Clamps : m \in Range(t.active) <=> m \in en
    BY <1>3, <1>11, <2>1, <2>4, <2>5
  <2> QED BY <2>3, <2>6 DEF ActiveP
<1> QED BY <1>8, <1>9, <1>10, <1>12, <1>14, <1>15 DEF InvP

-----------------------------------------------------------------------------
(* The rest of the steps.                                                  *)

LEMMA InvMore ==
  ASSUME NEW s, NEW en, NEW op, NEW q, NEW h, InvP(s, en, op, q, h), NEW g, h \subseteq g
  PROVE  InvP(s, en, op, q, g)
<1>1. s \in Driver /\ Like(s, s)
  BY InvParts DEF Like, ButActive
<1>2. Clear(g, PureFs) => s.read.from = {s.read.of} /\ s.alone \in {s.alone, NoSensor}
  BY InvParts DEF PureP
<1> QED BY <1>1, <1>2, InvLike

\* A measurement is given an interval, or has none any more.
LEMMA IntervalSet ==
  ASSUME NEW s, NEW en, NEW op, NEW q, NEW h, InvP(s, en, op, q, h), NEW g, h \subseteq g,
         "interval" \in g, NEW n \in Sensors, NEW on \in BOOLEAN,
         NEW t, t = EnableCb(s, n, on), NEW en2 \in SUBSET Sensors
  PROVE  InvP(t, en2, op, q, g)
<1>1. TypesP(s, en, op, q, h) /\ s \in Driver /\ Sound(s)
  BY InvParts
<1>2. /\ t \in Driver /\ ButActive(s, t) /\ t.alone = s.alone /\ t.read = s.read
      /\ s.running # {} => t.active = s.active
  <2>1. CASE n \in Clamps
    <3>1. t = CcEnable(s, n, on)
      BY <2>1, Kinds DEF EnableCb
    <3> QED BY <1>1, <2>1, <3>1, CcEnableFields
  <2>2. CASE n \notin Clamps
    <3>1. n[1] # "CC"
      BY <2>2, Kinds
    <3>2. t = s
      BY <3>1 DEF EnableCb
    <3> QED BY <1>1, <3>2 DEF ButActive
  <2> QED BY <2>1, <2>2
<1>3. Sound(t)
  BY <1>1, <1>2, SoundLike
<1>4. TypesP(t, en2, op, q, g)
  BY <1>1, <1>2, <1>3 DEF TypesP, CallHad
<1>5. Clear(g, PureFs) => PureP(t)
  BY <1>2, InvParts DEF PureP, ButActive
<1>6. Clear(g, AloneFs) => AloneP(t, q)
  <2>1. SUFFICES ASSUME AloneP(s, q) PROVE AloneP(t, q)
    BY InvParts
  <2>2. ASSUME NEW i \in DOMAIN q, CcCall(q[i])
        PROVE  /\ i = Len(q) /\ t.key = "CC"
               /\ q[i].what = "read" => t.running = {q[i].n} /\ q[i].n \in Range(t.active)
    <3>1. i = Len(q) /\ t.key = "CC"
      BY <1>2, <2>1, <2>2 DEF AloneP, ButActive
    <3>2. ASSUME q[i].what = "read"
          PROVE  t.running = {q[i].n} /\ q[i].n \in Range(t.active)
      <4>1. s.running = {q[i].n} /\ q[i].n \in Range(s.active)
        BY <2>1, <2>2, <3>2 DEF AloneP
      <4>2. t.active = s.active /\ t.running = s.running
        BY <1>2, <4>1 DEF ButActive
      <4> QED BY <4>1, <4>2
    <3> QED BY <3>1, <3>2
  <2> QED BY <2>2 DEF AloneP
<1>7. ~Clear(g, MeasuredFs) /\ ~Clear(g, HeldFs) /\ ~Clear(g, ActiveFs)
  BY ClearMore
<1> QED BY <1>4, <1>5, <1>6, <1>7 DEF InvP

\* A sample is cut off.
LEMMA SampleCut ==
  ASSUME NEW s, NEW en, NEW op, NEW q, NEW h, InvP(s, en, op, q, h), NEW g, h \subseteq g,
         "cut" \in g, NEW op2 \in SUBSET op
  PROVE  InvP(s, en, op2, q, g)
<1>1. TypesP(s, en, op, q, h)
  BY InvParts
<1>2. TypesP(s, en, op2, q, g)
  BY <1>1 DEF TypesP, CallHad
<1>3. ~Clear(g, HeldFs)
  BY ClearMore
<1> QED BY <1>2, <1>3, InvParts DEF InvP

\* The converter is switched off.
LEMMA SwitchedOff ==
  ASSUME NEW s, NEW en, NEW op, NEW q, NEW h, InvP(s, en, op, q, h), NEW g, h \subseteq g,
         NEW t, t = OffAndOn(s)
  PROVE  InvP(t, en, op, q, g)
<1>1. TypesP(s, en, op, q, h) /\ s \in Driver /\ Sound(s)
  BY InvParts
<1>2. t \in Driver
  BY <1>1 DEF OffAndOn, Driver
<1>3. /\ t.inUse = s.inUse /\ t.key = s.key /\ t.seq = s.seq /\ t.buf = s.buf /\ ~t.on
      /\ t.active = s.active /\ t.running = s.running /\ t.alone = s.alone
      /\ t.ftOn = s.ftOn /\ t.inited = s.inited /\ t.bat = s.bat /\ t.read = s.read
  BY <1>1 DEF OffAndOn, Driver
<1>4. Sound(t)
  BY <1>1, <1>3 DEF Sound
<1>5. TypesP(t, en, op, q, g)
  BY <1>1, <1>2, <1>4 DEF TypesP, CallHad
<1>6. Clear(g, PureFs) => PureP(t)
  BY <1>3, InvParts DEF PureP
<1>7. Clear(g, AloneFs) => AloneP(t, q)
  BY <1>3, InvParts DEF AloneP
<1>8. Clear(g, MeasuredFs) => MeasuredP(t, en, q)
  BY <1>3, InvParts, SameActive
<1>9. Clear(g, HeldFs) => HeldP(t, op, q)
  BY <1>3, InvParts DEF HeldP
<1>10. Clear(g, ActiveFs) => ActiveP(t, en, q)
  BY <1>3, InvParts, SameActive
<1> QED BY <1>5, <1>6, <1>7, <1>8, <1>9, <1>10 DEF InvP

\* A round of the conversion is over.
LEMMA Converted ==
  ASSUME NEW s, NEW en, NEW op, NEW q, NEW h, InvP(s, en, op, q, h), NEW g, h \subseteq g,
         s.on, NEW t, t = DmaComplete(s)
  PROVE  InvP(t, en, op, q, g)
<1>1. TypesP(s, en, op, q, h) /\ s \in Driver /\ Sound(s)
  BY InvParts
<1>2. t \in Driver
  BY <1>1 DEF DmaComplete, Driver
<1>3. /\ ~t.inUse /\ t.key = s.key /\ t.seq = s.seq /\ t.buf = s.seq /\ t.on = s.on
      /\ t.active = s.active /\ t.running = s.running /\ t.alone = s.alone
      /\ t.ftOn = s.ftOn /\ t.inited = s.inited /\ t.bat = s.bat /\ t.read = s.read
  BY <1>1 DEF DmaComplete, Driver
<1>4. Sound(t)
  BY <1>1, <1>3 DEF Sound
<1>5. TypesP(t, en, op, q, g)
  BY <1>1, <1>2, <1>4 DEF TypesP, CallHad
<1>6. Clear(g, PureFs) => PureP(t)
  BY <1>3, InvParts DEF PureP
<1>7. Clear(g, AloneFs) => AloneP(t, q)
  BY <1>3, InvParts DEF AloneP
<1>8. Clear(g, MeasuredFs) => MeasuredP(t, en, q)
  BY <1>3, InvParts, SameActive
<1>9. Clear(g, HeldFs) => HeldP(t, op, q)
  BY <1>3, InvParts DEF HeldP
<1>10. Clear(g, ActiveFs) => ActiveP(t, en, q)
  BY <1>3, InvParts, SameActive
<1> QED BY <1>5, <1>6, <1>7, <1>8, <1>9, <1>10 DEF InvP

NowActive(s, n, on, t) ==
    /\ t \in Driver /\ ButActive(s, t) /\ t.alone = s.alone /\ t.read = s.read
    /\ s.running # {} => t.active = s.active
    /\ s.running = {} /\ on => Range(t.active) = Range(s.active) \cup {n}
    /\ s.running = {} /\ ~on => Range(t.active) = Range(s.active) \ {n}

LEMMA CcEnableIs ==
  ASSUME NEW s \in Driver, NEW n \in Clamps, NEW on \in BOOLEAN
  PROVE  \A t : t = CcEnable(s, n, on) => NowActive(s, n, on, t)
<1> SUFFICES ASSUME NEW t, t = CcEnable(s, n, on) PROVE NowActive(s, n, on, t)
  OBVIOUS
<1>1. /\ t \in Driver /\ ButActive(s, t) /\ t.alone = s.alone /\ t.read = s.read
      /\ s.running # {} => t.active = s.active
      /\ s.running = {} /\ on => Range(t.active) = Range(s.active) \cup {n}
      /\ s.running = {} /\ ~on => Range(t.active) = Range(s.active) \ {n}
  BY CcEnableFields
<1> QED BY <1>1 DEF NowActive

ForIt(s, n, was, b) ==
    /\ b \in Driver /\ Sound(b) /\ ButActive(s, b) /\ b.alone = s.alone
    /\ s.running = {} => Range(b.active) = Range(s.active) \cup {n}
    /\ was /\ s.running # {} => b.active = s.active
    /\ ~was => b = s

AfterIt(s, n, was, t) ==
    /\ t \in Driver /\ Sound(t) /\ ButActive(s, t)
    /\ was /\ s.running = {} => Range(t.active) = Range(s.active) \ {n}
    /\ s.running # {} => t.active = s.active
    /\ ~was => t = s

\* A command asks for a clamp, that is switched on for it when it is not active.
LEMMA SwitchedOnFor ==
  ASSUME NEW s \in Driver, Sound(s), NEW n \in Clamps, NEW was \in BOOLEAN,
         was <=> n \notin Range(s.active),
         NEW b, b = IF was THEN EnableCb(s, n, TRUE) ELSE s
  PROVE  ForIt(s, n, was, b)
<1>1. CASE was
  <2>1. PICK yes \in BOOLEAN : yes = TRUE
    OBVIOUS
  <2>2. b = CcEnable(s, n, yes)
    BY <1>1, <2>1, Kinds DEF EnableCb
  <2>3. NowActive(s, n, yes, b)
    BY <2>2, CcEnableIs
  <2>4. Sound(b)
    BY <2>3, SoundLike DEF NowActive
  <2> QED BY <1>1, <2>1, <2>3, <2>4 DEF NowActive, ForIt
<1>2. CASE ~was
  BY <1>2 DEF ButActive, ForIt
<1> QED BY <1>1, <1>2

LEMMA SwitchedOffAfter ==
  ASSUME NEW s \in Driver, Sound(s), NEW n \in Clamps, NEW was \in BOOLEAN,
         NEW t, t = ReadDisable(s, n, was)
  PROVE  AfterIt(s, n, was, t)
<1>1. CASE was
  <2>1. PICK no \in BOOLEAN : no = FALSE
    OBVIOUS
  <2>2. t = CcEnable(s, n, no)
    BY <1>1, <2>1, Kinds DEF EnableCb, ReadDisable
  <2>3. NowActive(s, n, no, t)
    BY <2>2, CcEnableIs
  <2>4. Sound(t)
    BY <2>3, SoundLike DEF NowActive
  <2> QED BY <1>1, <2>1, <2>3, <2>4 DEF NowActive, AfterIt
<1>2. CASE ~was
  BY <1>2 DEF ButActive, ReadDisable, AfterIt
<1> QED BY <1>1, <1>2

LEMMA CcReadAsked ==
  ASSUME NEW s, NEW en, NEW op, NEW q, NEW h, InvP(s, en, op, q, h), NEW g, h \subseteq g,
         "read" \in g, NEW n \in Clamps, NEW was \in BOOLEAN, was <=> n \notin Range(s.active),
         NEW b, b = IF was THEN EnableCb(s, n, TRUE) ELSE s,
         NEW no \in BOOLEAN, ~no, NEW t, t = CcBegin(b, n, TRUE, no),
         NEW u, u = ReadDisable(t, n, was),
         NEW c, c = [what |-> "read", n |-> n, was |-> was],
         NEW r, Added(q, c, r)
  PROVE  /\ t.resp = "SUCCESS" => InvP(t, en, op, r, g)
         /\ t.resp # "SUCCESS" => InvP(u, en, op, q, g)
<1>1. s \in Driver /\ Sound(s)
  BY InvParts
<1>2. /\ b \in Driver /\ Sound(b) /\ ButActive(s, b) /\ b.alone = s.alone
      /\ s.running = {} => Range(b.active) = Range(s.active) \cup {n}
      /\ was /\ s.running # {} => b.active = s.active
      /\ ~was => b = s
  <2>1. ForIt(s, n, was, b)
    BY <1>1, SwitchedOnFor
  <2> QED BY <2>1 DEF ForIt
<1>3. /\ t \in Driver /\ t.read = b.read
      /\ CcRefused(b, t) \/ CcStarted(b, n, <<n>>, no, t)
  BY <1>2, CcBeginAlone
<1>4. PICK m : m = <<n>>
  OBVIOUS
<1>5. Sound(t)
  <2>1. CcRefused(b, t) \/ CcJoined(b, n, t) \/ CcStarted(b, n, m, no, t)
    BY <1>3, <1>4
  <2> QED BY <1>2, <2>1, CcBeginSound
<1>6. CASE CcRefused(b, t)
  <2>1. t.resp # "SUCCESS" /\ Like(b, t)
    BY <1>6 DEF CcRefused
  <2>2. t.active = b.active /\ t.running = s.running
    BY <1>2, <2>1 DEF Like, ButActive
  <2>3. /\ u \in Driver /\ Sound(u) /\ ButActive(t, u)
        /\ was /\ t.running = {} => Range(u.active) = Range(t.active) \ {n}
        /\ t.running # {} => u.active = t.active
        /\ ~was => u = t
    <3>1. AfterIt(t, n, was, u)
      BY <1>3, <1>5, SwitchedOffAfter
    <3> QED BY <3>1 DEF AfterIt
  <2>4. ButActive(s, u)
    BY <1>2, <2>1, <2>3 DEF Like, ButActive
  <2>5. Range(u.active) = Range(s.active)
    <3>1. CASE ~was
      BY <1>2, <2>2, <2>3, <3>1
    <3>2. CASE was /\ s.running # {}
      BY <1>2, <2>2, <2>3, <3>2
    <3>3. CASE was /\ s.running = {}
      <4>1. Range(u.active) = Range(b.active) \ {n}
        BY <2>2, <2>3, <3>3
      <4>2. Range(b.active) = Range(s.active) \cup {n} /\ n \notin Range(s.active)
        BY <1>2, <3>3
      <4> QED BY <4>1, <4>2
    <3> QED BY <3>1, <3>2, <3>3
  <2>6. InvP(u, en, op, q, g)
    BY <2>3, <2>4, <2>5, CcReadRefused
  <2> QED BY <2>1, <2>6
<1>7. CASE CcStarted(b, n, <<n>>, no, t)
  <2>1. /\ t.resp = "SUCCESS" /\ b.key = None /\ b.running = {} /\ t.key = "CC"
        /\ t.active = b.active /\ t.running = {n}
        /\ t.inited = b.inited /\ t.bat = b.bat
    BY <1>7 DEF CcStarted
  <2>2. /\ s.key = None /\ s.running = {} /\ t.inited = s.inited /\ t.bat = s.bat
    BY <1>2, <2>1 DEF ButActive
  <2>3. Range(t.active) = Range(s.active) \cup {n}
    BY <1>2, <2>1, <2>2
  <2>4. InvP(t, en, op, r, g)
    BY <1>3, <1>5, <2>1, <2>2, <2>3, CcReadBegun
  <2> QED BY <2>1, <2>4
<1> QED BY <1>3, <1>6, <1>7

-----------------------------------------------------------------------------
(* A sample, of whatever sensor.                                           *)

LEMMA SampleBegun ==
  ASSUME NEW s, NEW en, NEW op, NEW q, NEW h, InvP(s, en, op, q, h), q = <<>>,
         NEW n \in Sensors, n \in en, NEW early \in BOOLEAN, NEW late \in BOOLEAN,
         early => s.buf # <<>> /\ "race" \in h,
         NEW t, t = InitCb(s, n, FALSE, early, late),
         NEW op2, op2 = IF t.resp = "SUCCESS" THEN op \cup {n} ELSE op
  PROVE  InvP(t, en, op2, q, h)
<1>1. TypesP(s, en, op, q, h) /\ s \in Driver /\ Sound(s) /\ op \subseteq Sensors /\ h \subseteq h
  <2>1. h \subseteq h
    OBVIOUS
  <2>2. TypesP(s, en, op, q, h)
    BY <2>1, InvParts
  <2> QED BY <2>1, <2>2 DEF TypesP
<1>2. CASE n \in Clamps
  <2>1. t = CcBegin(s, n, FALSE, early)
    BY <1>2, Kinds DEF InitCb
  <2> QED BY <1>1, <1>2, <2>1, CcSample
<1>3. CASE n \in Inputs
  <2>1. t = FtBegin(s, n, early, late)
    BY <1>3, Kinds DEF InitCb
  <2>2. /\ t \in Driver /\ Sound(t) /\ t.alone = s.alone /\ t.read = s.read
        /\ Refused(s, t) \/ FtJoined(s, n, t) \/ FtStarted(s, n, early, t)
    BY <1>1, <1>3, <2>1, FtBeginFields
  <2>3. CASE t.resp = "SUCCESS"
    <3>1. op2 = op \cup {n}
      BY <2>3
    <3>2. Comes(op, q, h, op2, q)
      BY <1>1, <3>1 DEF Comes
    <3>3. n \in op2
      BY <3>1
    <3> QED BY <1>1, <1>3, <2>1, <2>3, <3>2, <3>3, FtBegun
  <2>4. CASE t.resp # "SUCCESS"
    <3>1. Like(s, t)
      BY <2>2, <2>4 DEF Refused, FtJoined, FtStarted
    <3>2. op2 = op
      BY <2>4
    <3>3. Clear(h, PureFs) => t.read.from = {t.read.of} /\ t.alone \in {s.alone, NoSensor}
      BY <1>1, <2>2, InvParts DEF PureP
    <3>4. InvP(t, en, op, q, h)
      BY <1>1, <2>2, <3>1, <3>3, InvLike
    <3> QED BY <3>2, <3>4
  <2> QED BY <2>3, <2>4
<1>4. CASE n = Bat
  <2>1. t = BatBegin(s, early)
    BY <1>4, Kinds DEF InitCb
  <2>2. /\ t \in Driver /\ Sound(t) /\ t.alone = s.alone /\ t.read = s.read
        /\ BatRefused(s, t) \/ BatStarted(s, early, t)
    BY <1>1, <2>1, BatBeginFields
  <2>3. CASE BatStarted(s, early, t)
    <3>1. op2 = op \cup {Bat}
      BY <1>4, <2>3 DEF BatStarted
    <3>2. Bat \in Sensors
      BY <1>4
    <3>3. Comes(op, q, h, op2, q)
      BY <1>1, <3>1, <3>2 DEF Comes
    <3>4. Bat \in op2
      BY <3>1
    <3> QED BY <1>1, <2>2, <2>3, <3>3, <3>4, BatBegun
  <2>4. CASE BatRefused(s, t)
    <3>1. op2 = op
      BY <2>4 DEF BatRefused
    <3>2. InvP(t, en, op, q, h)
      BY <1>1, <2>2, <2>4, BatGivenUp
    <3> QED BY <3>1, <3>2
  <2> QED BY <2>2, <2>3, <2>4
<1> QED BY <1>2, <1>3, <1>4, Kinds

LEMMA SampleGot ==
  ASSUME NEW s, NEW en, NEW op, NEW q, NEW h, InvP(s, en, op, q, h), q = <<>>,
         NEW n \in Sensors, NEW fine \in BOOLEAN, NEW t, t = GetCb(s, n, fine),
         NEW op2, op2 = IF t.resp = "BUSY" THEN op ELSE op \ {n}
  PROVE  InvP(t, en, op2, q, h)
<1>1. s \in Driver /\ Sound(s) /\ h \subseteq h
  BY InvParts
<1>2. CASE n \in Clamps
  <2>1. t = CcGet(s, n, fine)
    BY <1>2, Kinds DEF GetCb
  <2> QED BY <1>1, <1>2, <2>1, CcCollected
<1>3. Goes(op, q, n, op2, q)
  BY DEF Goes
<1>4. CASE n \in Inputs
  <2>1. t = FtGet(s, n, fine)
    BY <1>4, Kinds DEF GetCb
  <2>2. t.resp = "BUSY" => op2 = op
    OBVIOUS
  <2>3. PICK r : r = q
    OBVIOUS
  <2>4. Goes(op, q, n, op2, r) /\ (t.resp = "BUSY" /\ s.inUse => (op2 = op /\ r = q) \/ "slow" \in h)
    BY <1>3, <2>2, <2>3
  <2>5. InvP(t, en, op2, r, h)
    BY <1>1, <1>4, <2>1, <2>4, FtDone
  <2> QED BY <2>3, <2>5
<1>5. CASE n = Bat
  <2>1. t = BatGet(s)
    BY <1>5, Kinds DEF GetCb
  <2>2. /\ t \in Driver /\ Sound(t) /\ t.alone = s.alone
        /\ \/ BatNotGot(s, t) /\ (t.resp = "BUSY" \/ ~s.bat)
           \/ BatLetGo(s, t) /\ ~s.inUse /\ t.read = BatReading(s) /\ t.resp # "BUSY"
    BY <1>1, <2>1, BatGetFields
  <2>3. \/ BatLetGo(s, t) /\ ~s.inUse /\ t.read = BatReading(s)
        \/ BatNotGot(s, t)
    BY <2>2
  <2>4. s.bat /\ s.inUse => op2 = op
    BY <2>2
  <2>5. PICK r : r = q
    OBVIOUS
  <2>6. Goes(op, q, Bat, op2, r) /\ (s.bat /\ s.inUse => (op2 = op /\ r = q) \/ "slow" \in h)
    BY <1>3, <1>5, <2>4, <2>5
  <2>7. InvP(t, en, op2, r, h)
    BY <1>1, <2>2, <2>3, <2>6, BatDone
  <2> QED BY <2>5, <2>7
<1> QED BY <1>2, <1>4, <1>5, Kinds

-----------------------------------------------------------------------------
(* The commands that wait.                                                 *)

LEMMA CcAsked ==
  ASSUME NEW s, NEW en, NEW op, NEW q, NEW h, InvP(s, en, op, q, h), "cc" \in h,
         NEW n \in Clamps, NEW no \in BOOLEAN, ~no,
         NEW t, t = CcBegin(s, n, TRUE, no),
         NEW c, c = [what |-> "cc", n |-> n],
         NEW r, r = IF t.resp = "SUCCESS" THEN Append(q, c) ELSE q
  PROVE  InvP(t, en, op, r, h)
<1>1. s \in Driver /\ Sound(s) /\ q \in Seq(Calls)
  BY InvParts
<1>2. h \subseteq h
  OBVIOUS
<1>3. /\ t \in Driver /\ t.read = s.read
      /\ CcRefused(s, t) \/ CcStarted(s, n, <<n>>, no, t)
  BY <1>1, CcBeginAlone
<1>4. PICK m : m = <<n>>
  OBVIOUS
<1>5. Sound(t)
  <2>1. CcRefused(s, t) \/ CcJoined(s, n, t) \/ CcStarted(s, n, m, no, t)
    BY <1>3, <1>4
  <2> QED BY <1>1, <1>3, <2>1, CcBeginSound
<1>6. CASE CcRefused(s, t)
  <2>1. r = q /\ Like(s, t)
    BY <1>6 DEF CcRefused
  <2>2. ~Clear(h, PureFs)
    BY ClearMore
  <2>3. InvP(t, en, op, q, h)
    BY <1>2, <1>3, <2>1, <2>2, InvLike
  <2> QED BY <2>1, <2>3
<1>7. CASE CcStarted(s, n, <<n>>, no, t)
  <2>1. /\ t.resp = "SUCCESS" /\ s.key = None /\ t.key = "CC"
        /\ t.active = s.active /\ t.inited = s.inited /\ t.bat = s.bat
    BY <1>7 DEF CcStarted
  <2>2. c \in Calls /\ c.what = "cc"
    BY DEF Calls
  <2>3. CallHad(c, h)
    BY <2>2 DEF CallHad
  <2>4. Added(q, c, r)
    BY <1>1, <2>1, <2>2, AppendAdds
  <2>5. Range(s.active) \subseteq Range(t.active)
    BY <2>1
  <2>6. c.what \in {"cc", "ccs", "cal"} /\ (c.what # "cc" => c.before = s.active)
    BY <2>2
  <2> QED BY <1>2, <1>3, <1>5, <2>1, <2>2, <2>3, <2>4, <2>5, <2>6, CcCallBegun
<1> QED BY <1>3, <1>6, <1>7

\* A call for all of the clamps.
LEMMA ForAll ==
  ASSUME NEW s \in Driver, NEW w \in {"ccs", "cal"}, NEW h,
         w = "ccs" => "cc" \in h, w = "cal" => "cal" \in h,
         NEW c, c = [what |-> w, before |-> s.active]
  PROVE  c \in Calls /\ CallHad(c, h) /\ c.what = w /\ c.before = s.active
<1>1. s.active \in Seq(Clamps)
  BY ActiveAreClamps
<1>2. c \in Calls
  BY <1>1 DEF Calls
<1>3. c.what = w /\ c.before = s.active
  OBVIOUS
<1> QED BY <1>2, <1>3 DEF CallHad

LEMMA AllAsked ==
  ASSUME NEW s, NEW en, NEW op, NEW q, NEW h, InvP(s, en, op, q, h), "cc" \in h,
         NEW t, t = CcAllBegin(s, FALSE),
         NEW c, c = [what |-> "ccs", before |-> s.active],
         NEW r, r = IF t.resp = "SUCCESS" THEN Append(q, c) ELSE q
  PROVE  InvP(t, en, op, r, h)
<1>1. s \in Driver /\ Sound(s) /\ q \in Seq(Calls)
  BY InvParts
<1>2. h \subseteq h
  OBVIOUS
<1>3. /\ t \in Driver /\ Sound(t) /\ t.alone = s.alone /\ t.read = s.read
      /\ AllRefused(s, t) \/ AllStarted(s, t)
  BY <1>1, CcAllBeginFields
<1>4. Range(s.active) \subseteq Range(AllCc)
  BY <1>1, ActiveAreClamps, Whole
<1>5. CASE AllRefused(s, t)
  <2>1. r = q /\ ButActive(s, t) /\ Range(s.active) \subseteq Range(t.active)
    BY <1>4, <1>5 DEF AllRefused
  <2>2. InvP(t, en, op, q, h)
    BY <1>2, <1>3, <2>1, CcCallRefused
  <2> QED BY <2>1, <2>2
<1>6. CASE AllStarted(s, t)
  <2>1. /\ t.resp = "SUCCESS" /\ s.key = None /\ t.key = "CC"
        /\ t.active = AllCc /\ t.inited = s.inited /\ t.bat = s.bat
    BY <1>6 DEF AllStarted
  <2>2. c \in Calls /\ CallHad(c, h) /\ c.what = "ccs" /\ c.before = s.active
    BY <1>1, ForAll
  <2>3. Added(q, c, r)
    BY <1>1, <2>1, <2>2, AppendAdds
  <2>4. Range(s.active) \subseteq Range(t.active)
    BY <1>4, <2>1
  <2>5. c.what \in {"cc", "ccs", "cal"} /\ (c.what # "cc" => c.before = s.active)
    BY <2>2
  <2> QED BY <1>2, <1>3, <2>1, <2>2, <2>3, <2>4, <2>5, CcCallBegun
<1> QED BY <1>3, <1>5, <1>6

LEMMA CalAsked ==
  ASSUME NEW s, NEW en, NEW op, NEW q, NEW h, InvP(s, en, op, q, h), "cal" \in h,
         NEW t, t = CcCalibrateBegin(s, FALSE),
         NEW c, c = [what |-> "cal", before |-> s.active],
         NEW r, r = IF t.resp = "OK" THEN Append(q, c) ELSE q
  PROVE  InvP(t, en, op, r, h)
<1>1. s \in Driver /\ Sound(s) /\ q \in Seq(Calls)
  BY InvParts
<1>2. h \subseteq h
  OBVIOUS
<1>3. /\ t \in Driver /\ Sound(t) /\ t.alone = s.alone /\ t.read = s.read
      /\ t.active = AllCc
      /\ (t.resp # "OK" /\ ButActive(s, t)) \/ CalStarted(s, t)
  BY <1>1, CcCalibrateBeginFields
<1>4. Range(s.active) \subseteq Range(t.active)
  BY <1>1, <1>3, ActiveAreClamps, Whole
<1>5. CASE t.resp # "OK" /\ ButActive(s, t)
  <2>1. r = q
    BY <1>5
  <2>2. InvP(t, en, op, q, h)
    BY <1>2, <1>3, <1>4, <1>5, CcCallRefused
  <2> QED BY <2>1, <2>2
<1>6. CASE CalStarted(s, t)
  <2>1. /\ t.resp = "OK" /\ s.key = None /\ t.key = "CC"
        /\ t.inited = s.inited /\ t.bat = s.bat
    BY <1>6 DEF CalStarted
  <2>2. c \in Calls /\ CallHad(c, h) /\ c.what = "cal" /\ c.before = s.active
    BY <1>1, ForAll
  <2>3. Added(q, c, r)
    BY <1>1, <2>1, <2>2, AppendAdds
  <2>4. c.what \in {"cc", "ccs", "cal"} /\ (c.what # "cc" => c.before = s.active)
    BY <2>2
  <2> QED BY <1>2, <1>3, <1>4, <2>1, <2>2, <2>3, <2>4, CcCallBegun
<1> QED BY <1>3, <1>5, <1>6

\* The battery, by a command or by the main loop.
LEMMA BatAsked ==
  ASSUME NEW s, NEW en, NEW op, NEW q, NEW h, InvP(s, en, op, q, h),
         NEW early \in BOOLEAN, early => s.buf # <<>> /\ "race" \in h,
         NEW t, t = BatBegin(s, early), NEW w \in {"bat", "onbat"},
         NEW c, c = [what |-> w],
         NEW r, r = IF t.resp = "SUCCESS" THEN Append(q, c) ELSE q
  PROVE  InvP(t, en, op, r, h)
<1>1. s \in Driver /\ Sound(s) /\ q \in Seq(Calls) /\ TypesP(s, en, op, q, h)
  BY InvParts
<1>2. h \subseteq h
  OBVIOUS
<1>3. /\ t \in Driver /\ Sound(t) /\ t.alone = s.alone /\ t.read = s.read
      /\ BatRefused(s, t) \/ BatStarted(s, early, t)
  BY <1>1, BatBeginFields
<1>4. CASE BatRefused(s, t)
  <2>1. r = q
    BY <1>4 DEF BatRefused
  <2>2. InvP(t, en, op, q, h)
    BY <1>2, <1>3, <1>4, BatGivenUp
  <2> QED BY <2>1, <2>2
<1>5. CASE BatStarted(s, early, t)
  <2>1. r = Append(q, c)
    BY <1>5 DEF BatStarted
  <2>2. c \in Calls /\ c.what = w
    BY DEF Calls
  <2>3. Plain(c, h)
    BY <2>2 DEF Plain, CallHad, CcCall
  <2>4. Added(q, c, r)
    BY <1>1, <2>1, <2>2, AppendAdds
  <2>5. op \subseteq Sensors
    BY <1>1 DEF TypesP
  <2>6. Comes(op, q, h, op, r)
    BY <2>3, <2>4, <2>5 DEF Comes
  <2>7. KeyOfCall(c) = "BAT"
    BY <2>2 DEF KeyOfCall
  <2>8. \E i \in DOMAIN r : KeyOfCall(r[i]) = "BAT"
    BY <2>4, <2>7 DEF Added
  <2>9. Bat \in op \/ \E i \in DOMAIN r : KeyOfCall(r[i]) = "BAT"
    BY <2>8
  <2> QED BY <1>2, <1>3, <1>5, <2>6, <2>9, BatBegun
<1> QED BY <1>3, <1>4, <1>5

\* get_meas asks for a sensor, a clamp on its own.
LEMMA ReadAsked ==
  ASSUME NEW s, NEW en, NEW op, NEW q, NEW h, InvP(s, en, op, q, h), "read" \in h,
         NEW n \in Sensors, NEW was \in BOOLEAN, was <=> n \in Clamps /\ n \notin Range(s.active),
         NEW b, b = IF was THEN EnableCb(s, n, TRUE) ELSE s,
         NEW late \in BOOLEAN, NEW no \in BOOLEAN, ~no,
         NEW t, t = InitCb(b, n, TRUE, no, late),
         NEW u, u = ReadDisable(t, n, was),
         NEW c, c = [what |-> "read", n |-> n, was |-> was],
         NEW r, r = Append(q, c)
  PROVE  /\ t.resp = "SUCCESS" => InvP(t, en, op, r, h)
         /\ t.resp # "SUCCESS" => InvP(u, en, op, q, h)
<1>1. s \in Driver /\ Sound(s) /\ q \in Seq(Calls) /\ TypesP(s, en, op, q, h)
  BY InvParts
<1>2. h \subseteq h /\ op \subseteq Sensors
  BY <1>1 DEF TypesP
<1>3. c \in Calls /\ c.what = "read" /\ c.n = n /\ c.was = was
  BY DEF Calls
<1>4. Added(q, c, r)
  BY <1>1, <1>3, AppendAdds
<1>5. CASE n \in Clamps
  <2>1. t = CcBegin(b, n, TRUE, no)
    BY <1>5, Kinds DEF InitCb
  <2>2. was <=> n \notin Range(s.active)
    BY <1>5
  <2> QED BY <1>2, <1>4, <1>5, <2>1, <2>2, CcReadAsked
<1>6. CASE n \notin Clamps
  <2>1. ~was /\ b = s
    BY <1>6
  <2>2. u = t
    BY <2>1 DEF ReadDisable
  <2>3. Plain(c, h)
    BY <1>3, <1>6, <2>1 DEF Plain, CallHad, CcCall
  <2>4. Comes(op, q, h, op, r)
    BY <1>2, <1>4, <2>3 DEF Comes
  <2>5. r[Len(r)] = c /\ Len(r) \in DOMAIN r
    BY <1>4 DEF Added
  <2>6. CASE n \in Inputs
    <3>1. t = FtBegin(s, n, no, late)
      BY <2>1, <2>6, Kinds DEF InitCb
    <3>2. /\ t \in Driver /\ Sound(t) /\ t.alone = s.alone /\ t.read = s.read
          /\ Refused(s, t) \/ FtJoined(s, n, t) \/ FtStarted(s, n, no, t)
      BY <1>1, <2>6, <3>1, FtBeginFields
    <3>3. CASE t.resp = "SUCCESS"
      <4>1. ReadOf(c, n)
        BY <1>3 DEF ReadOf
      <4>2. n \in op \/ \E i \in DOMAIN r : ReadOf(r[i], n)
        BY <2>5, <4>1
      <4>3. InvP(t, en, op, r, h)
        BY <1>2, <2>4, <2>6, <3>1, <3>3, <4>2, FtBegun
      <4> QED BY <3>3, <4>3
    <3>4. CASE t.resp # "SUCCESS"
      <4>1. Like(s, t)
        BY <3>2, <3>4 DEF Refused, FtJoined, FtStarted
      <4>2. Clear(h, PureFs) => t.read.from = {t.read.of} /\ t.alone \in {s.alone, NoSensor}
        BY ClearMore
      <4>3. InvP(t, en, op, q, h)
        BY <1>2, <3>2, <4>1, <4>2, InvLike
      <4> QED BY <2>2, <3>4, <4>3
    <3> QED BY <3>3, <3>4
  <2>7. CASE n = Bat
    <3>1. t = BatBegin(s, no)
      BY <2>1, <2>7, Kinds DEF InitCb
    <3>2. /\ t \in Driver /\ Sound(t) /\ t.alone = s.alone /\ t.read = s.read
          /\ BatRefused(s, t) \/ BatStarted(s, no, t)
      BY <1>1, <3>1, BatBeginFields
    <3>3. CASE BatStarted(s, no, t)
      <4>1. KeyOfCall(c) = "BAT"
        BY <1>3, <2>7, Kinds DEF KeyOfCall
      <4>2. Bat \in op \/ \E i \in DOMAIN r : KeyOfCall(r[i]) = "BAT"
        BY <2>5, <4>1
      <4>3. InvP(t, en, op, r, h)
        BY <1>2, <2>4, <3>2, <3>3, <4>2, BatBegun
      <4>4. t.resp = "SUCCESS"
        BY <3>3 DEF BatStarted
      <4> QED BY <4>3, <4>4
    <3>4. CASE BatRefused(s, t)
      <4>1. InvP(t, en, op, q, h)
        BY <1>2, <3>2, <3>4, BatGivenUp
      <4>2. t.resp # "SUCCESS"
        BY <3>4 DEF BatRefused
      <4> QED BY <2>2, <4>1, <4>2
    <3> QED BY <3>2, <3>3, <3>4
  <2> QED BY <1>6, <2>6, <2>7, Kinds
<1> QED BY <1>5, <1>6
-----------------------------------------------------------------------------
(* The end of the innermost wait.                                          *)

LEMMA CcAnswered ==
  ASSUME NEW s, NEW en, NEW op, NEW q, NEW h, InvP(s, en, op, q, h),
         NEW c, NEW r, Added(r, c, q), s.inUse => "slow" \in h, NEW fine \in BOOLEAN,
         NEW waited \in BOOLEAN, waited <=> ~s.inUse, NEW t,
         \/ c.what = "cc" /\ t = CcBlockingEnd(s, c.n, waited, fine)
         \/ c.what = "ccs" /\ t = CcAllEnd(s, c.before, waited, fine)
         \/ c.what = "cal" /\ t = CcCalibrateEnd(s, c.before, waited)
  PROVE  InvP(t, en, op, r, h)
<1>1. s \in Driver /\ Sound(s) /\ q \in Seq(Calls)
  BY InvParts
<1>2. h \subseteq h
  OBVIOUS
<1>3. c \in Calls
  BY DEF Added
<1>4. Like(s, s)
  BY DEF Like, ButActive
<1>5. CASE c.what = "cc" /\ t = CcBlockingEnd(s, c.n, waited, fine)
  <2>1. PICK n : n = c.n
    OBVIOUS
  <2>2. n \in Clamps
    BY <1>3, <1>5, <2>1 DEF Calls
  <2>3. t = CcBlockingEnd(s, n, waited, fine)
    BY <1>5, <2>1
  <2>4. /\ t \in Driver /\ Sound(t)
        /\ ~waited => t = s
        /\ waited => CcLetGo(s, t) /\ t.active = s.active
    BY <1>1, <2>2, <2>3, CcBlockingEndFields
  <2>5. \/ CcLetGo(s, t) /\ (t.active = s.active \/ (c.what # "cc" /\ t.active = c.before))
        \/ Like(s, t) /\ "slow" \in h
    BY <1>4, <2>4
  <2>6. c.what \in {"cc", "ccs", "cal"}
    BY <1>5
  <2> QED BY <1>2, <2>4, <2>5, <2>6, CcCallEnded
<1>6. ASSUME c.what \in {"ccs", "cal"}, t \in Driver, Sound(t),
             \/ CcLetGo(s, t) /\ t.active \in {s.active, c.before}
             \/ Like(s, t) /\ "slow" \in h
      PROVE  InvP(t, en, op, r, h)
  <2>1. \/ CcLetGo(s, t) /\ (t.active = s.active \/ (c.what # "cc" /\ t.active = c.before))
        \/ Like(s, t) /\ "slow" \in h
    BY <1>6
  <2>2. c.what \in {"cc", "ccs", "cal"}
    BY <1>6
  <2> QED BY <1>2, <1>6, <2>1, <2>2, CcCallEnded
<1>7. c.what \in {"ccs", "cal"} => c.before \in Seq(Clamps)
  BY <1>3 DEF Calls
<1>8. PICK before : before = c.before
  OBVIOUS
<1>9. CASE c.what = "ccs" /\ t = CcAllEnd(s, c.before, waited, fine)
  <2>1. CASE ~waited
    <3>1. t = s
      BY <1>9, <2>1 DEF CcAllEnd
    <3> QED BY <1>1, <1>4, <1>6, <1>9, <2>1, <3>1
  <2>2. CASE waited
    <3>1. before \in Seq(Clamps)
      BY <1>7, <1>8, <1>9
    <3>2. t = CcAllEnd(s, before, TRUE, fine)
      BY <1>8, <1>9, <2>2
    <3>3. t \in Driver /\ Sound(t) /\ CcLetGo(s, t) /\ t.active \in {s.active, before}
      BY <1>1, <3>1, <3>2, CcAllEndFields
    <3> QED BY <1>6, <1>8, <1>9, <3>3
  <2> QED BY <2>1, <2>2
<1>10. CASE c.what = "cal" /\ t = CcCalibrateEnd(s, c.before, waited)
  <2>1. before \in Seq(Clamps)
    BY <1>7, <1>8, <1>10
  <2>2. t = CcCalibrateEnd(s, before, waited)
    BY <1>8, <1>10
  <2>3. t \in Driver /\ Sound(t) /\ CcLetGo(s, t) /\ t.active \in {s.active, before}
    BY <1>1, <2>1, <2>2, CcCalibrateEndFields
  <2> QED BY <1>6, <1>8, <1>10, <2>3
<1> QED BY <1>5, <1>9, <1>10

LEMMA BatAnswered ==
  ASSUME NEW s, NEW en, NEW op, NEW q, NEW h, InvP(s, en, op, q, h),
         NEW c, NEW r, Added(r, c, q), s.inUse => "slow" \in h,
         NEW waited \in BOOLEAN, waited <=> ~s.inUse, NEW t,
         \/ c.what = "bat" /\ t = BatBlockingEnd(s, waited)
         \/ c.what = "onbat" /\ t = BatOnBatteryEnd(s, waited)
         \/ c.what = "read" /\ c.n = Bat /\ t = BatGet(s)
  PROVE  InvP(t, en, op, r, h)
<1>1. s \in Driver /\ Sound(s)
  BY InvParts
<1>2. h \subseteq h
  OBVIOUS
<1>3. ~CcCall(c) /\ KeyOfCall(c) = KeyOf(Bat) /\ \A m : ReadOf(c, m) => m = Bat
  BY Kinds DEF CcCall, KeyOfCall, ReadOf, Bat, Clamps, Cc
<1>4. Goes(op, q, Bat, op, r)
  BY <1>3 DEF Goes
<1>5. t = s \/ t = BatGet(s) => t \in Driver /\ Sound(t) /\ t.alone = s.alone
  <2>1. CASE t = BatGet(s)
    BY <1>1, <2>1, BatGetFields
  <2>2. CASE t = s
    BY <1>1, <2>2
  <2> QED BY <2>1, <2>2
<1>6. ~s.bat \/ s.inUse => BatNotGot(s, s)
  BY DEF BatNotGot, Like, ButActive
<1>7. /\ t \in Driver /\ Sound(t) /\ t.alone = s.alone
      /\ \/ BatLetGo(s, t) /\ ~s.inUse /\ t.read = BatReading(s)
         \/ BatNotGot(s, t)
  <2>1. CASE t = BatGet(s)
    <3>1. \/ BatNotGot(s, t) /\ (t.resp = "BUSY" \/ ~s.bat)
          \/ BatLetGo(s, t) /\ ~s.inUse /\ t.read = BatReading(s) /\ t.resp # "BUSY"
      BY <1>1, <2>1, BatGetFields
    <3> QED BY <1>5, <2>1, <3>1
  <2>2. CASE c.what = "bat" /\ t = BatBlockingEnd(s, waited)
    <3>1. CASE waited
      <4>1. t = BatGet(s)
        BY <2>2, <3>1 DEF BatBlockingEnd
      <4> QED BY <2>1, <4>1
    <3>2. CASE ~waited
      <4>1. t = s
        BY <2>2, <3>2 DEF BatBlockingEnd
      <4> QED BY <1>5, <1>6, <3>2, <4>1
    <3> QED BY <3>1, <3>2
  <2>3. CASE c.what = "onbat" /\ t = BatOnBatteryEnd(s, waited)
    <3>1. waited => ~s.inUse
      OBVIOUS
    <3>2. /\ t \in Driver /\ Sound(t) /\ t.alone = s.alone
          /\ \/ t = s /\ ~(waited /\ s.bat)
             \/ BatLetGo(s, t) /\ ~s.inUse /\ t.read = BatReading(s)
      BY <1>1, <2>3, <3>1, BatOnBatteryEndFields
    <3> QED BY <1>6, <3>2
  <2> QED BY <2>1, <2>2, <2>3
<1>8. s.bat /\ s.inUse => (op = op /\ r = q) \/ "slow" \in h
  OBVIOUS
<1> QED BY <1>2, <1>4, <1>7, <1>8, BatDone

LEMMA ReadAnswered ==
  ASSUME NEW s, NEW en, NEW op, NEW q, NEW h, InvP(s, en, op, q, h),
         NEW c \in Calls, NEW r, Added(r, c, q), s.inUse => "slow" \in h, NEW fine \in BOOLEAN,
         c.what = "read", NEW t, t = ReadDisable(GetCb(s, c.n, fine), c.n, c.was)
  PROVE  InvP(t, en, op, r, h)
<1>1. s \in Driver /\ Sound(s)
  BY InvParts
<1>2. h \subseteq h
  OBVIOUS
<1>3. PICK n \in Sensors, was \in BOOLEAN : c = [what |-> "read", n |-> n, was |-> was]
  BY DEF Calls
<1>4. c.n = n /\ c.was = was
  BY <1>3
<1>5. PICK b : b = GetCb(s, n, fine)
  OBVIOUS
<1>6. t = ReadDisable(b, n, was)
  BY <1>4, <1>5
<1>7. CASE n \in Clamps
  <2>1. b = CcGet(s, n, fine)
    BY <1>5, <1>7, Kinds DEF GetCb
  <2> QED BY <1>2, <1>3, <1>6, <1>7, <2>1, CcReadEnded
<1>8. CASE n \notin Clamps
  <2>1. t = b
    BY <1>6, <1>8, Kinds DEF ReadDisable, EnableCb
  <2>2. CASE n \in Inputs
    <3>1. t = FtGet(s, n, fine)
      BY <1>5, <2>1, <2>2, Kinds DEF GetCb
    <3>2. ~CcCall(c) /\ KeyOfCall(c) = KeyOf(n) /\ \A m : ReadOf(c, m) => m = n
      BY <1>4, <1>8 DEF CcCall, KeyOfCall, ReadOf
    <3>3. Goes(op, q, n, op, r)
      BY <3>2 DEF Goes
    <3>4. t.resp = "BUSY" /\ s.inUse => (op = op /\ r = q) \/ "slow" \in h
      OBVIOUS
    <3> QED BY <1>2, <2>2, <3>1, <3>3, <3>4, FtDone
  <2>3. CASE n = Bat
    <3>1. t = BatGet(s) /\ c.n = Bat
      BY <1>4, <1>5, <2>1, <2>3, Kinds DEF GetCb
    <3>2. PICK waited \in BOOLEAN : waited = ~s.inUse
      BY <1>1 DEF Driver
    <3> QED BY <3>1, <3>2, BatAnswered
  <2> QED BY <1>8, <2>2, <2>3, Kinds
<1> QED BY <1>7, <1>8

-----------------------------------------------------------------------------
(***************************************************************************)
(* The converter's invariant, and that every action keeps it.              *)
(***************************************************************************)
AdcInv ==
    /\ InvP(adc, enabled, open, nest, faults.had)
    /\ adc.resp = None /\ busy \subseteq Sensors

LEMMA FaultHad ==
  ASSUME NEW f, Fault(f)
  PROVE  faults.had \subseteq faults'.had /\ f \in faults'.had
BY DEF Fault

LEMMA EarlyHad ==
  ASSUME NEW e \in BOOLEAN, Early(e)
  PROVE  /\ faults.had \subseteq faults'.had
         /\ e => "race" \in faults'.had /\ adc.on /\ ~adc.inUse
<1>1. CASE e
  BY <1>1, FaultHad DEF Early
<1>2. CASE ~e
  BY <1>2 DEF Early
<1> QED BY <1>1, <1>2

LEMMA KeptInv ==
  ASSUME AdcInv, NEW g, faults.had \subseteq g, NEW k, k = Keep
  PROVE  InvP(k, enabled, open, nest, g) /\ Like(adc, k) /\ k.alone = adc.alone
<1>1. InvP(adc, enabled, open, nest, faults.had)
  BY DEF AdcInv
<1>2. adc \in Driver
  BY <1>1, InvParts
<1>3. Unread \in Reads
  BY DEF Unread, Reads
<1>4. k \in Driver
  BY <1>2, <1>3 DEF Driver, Says, Keep
<1>5. Like(adc, k) /\ k.alone = adc.alone /\ k.read = Unread
  BY <1>2 DEF Driver, Like, ButActive, Keep
<1>6. Clear(g, PureFs) => k.read.from = {k.read.of} /\ k.alone \in {adc.alone, NoSensor}
  BY <1>5, UnreadIs
<1>7. InvP(k, enabled, open, nest, g)
  BY <1>1, <1>4, <1>5, <1>6, InvLike
<1> QED BY <1>5, <1>7

\* A conversion that can be interrupted has been through the buffer.
LEMMA EarlyFilled ==
  ASSUME AdcInv, NEW k, Like(adc, k), adc.on, ~adc.inUse
  PROVE  k.buf # <<>>
<1>1. Sound(adc)
  BY InvParts DEF AdcInv
<1> QED BY <1>1 DEF Sound, Like, ButActive

\* What a step leaves in adc, its answer taken off.
LEMMA CleanedInv ==
  ASSUME NEW t, NEW en, NEW op, NEW q, NEW h, InvP(t, en, op, q, h), adc' = Clean(t),
         enabled' = en, open' = op, nest' = q, faults'.had = h, busy' \subseteq Sensors
  PROVE  AdcInv'
<1>1. InvP(adc', en, op, q, h) /\ adc'.resp = None
  BY InvClean
<1> QED BY <1>1 DEF AdcInv

LEMMA AdcInvStays ==
  ASSUME AdcInv, UNCHANGED vars
  PROVE  AdcInv'
BY DEF AdcInv, vars

LEMMA AdcTypes ==
  ASSUME AdcInv
  PROVE  /\ adc \in Driver /\ Sound(adc)
         /\ enabled \subseteq Sensors /\ open \subseteq Sensors /\ busy \subseteq Sensors
         /\ nest \in Seq(Calls)
BY InvParts DEF AdcInv, TypesP

LEMMA SampleInitStep ==
  ASSUME AdcInv, NEW n \in Sensors, SampleInit(n)
  PROVE  AdcInv'
<1>1. CASE n \in busy
  BY <1>1, AdcInvStays DEF SampleInit
<1>2. CASE n \notin busy
  <2>1. PICK early \in BOOLEAN, late \in Lates :
            /\ Early(early)
            /\ adc' = Clean(InitCb(Keep, n, FALSE, early, late))
            /\ open' = IF InitCb(Keep, n, FALSE, early, late).resp = "SUCCESS"
                       THEN open \cup {n} ELSE open
            /\ busy' = IF InitCb(Keep, n, FALSE, early, late).resp = "SUCCESS"
                       THEN busy \cup {n} ELSE busy
            /\ UNCHANGED <<enabled, nest>>
    BY <1>2 DEF SampleInit
  <2>2. PICK k : k = Keep
    OBVIOUS
  <2>3. PICK t : t = InitCb(k, n, FALSE, early, late)
    OBVIOUS
  <2>4. PICK h : h = faults'.had
    OBVIOUS
  <2>5. faults.had \subseteq h /\ (early => "race" \in h /\ adc.on /\ ~adc.inUse)
    BY <2>1, <2>4, EarlyHad
  <2>6. InvP(k, enabled, open, nest, h) /\ Like(adc, k)
    BY <2>2, <2>5, KeptInv
  <2>7. early => k.buf # <<>> /\ "race" \in h
    BY <2>5, <2>6, EarlyFilled
  <2>8. late \in BOOLEAN
    BY DEF Lates
  <2>9. nest = <<>> /\ n \in enabled
    BY DEF SampleInit
  <2>10. open' = IF t.resp = "SUCCESS" THEN open \cup {n} ELSE open
    BY <2>1, <2>2, <2>3
  <2>11. InvP(t, enabled, open', nest, h)
    BY <2>3, <2>6, <2>7, <2>8, <2>9, <2>10, SampleBegun
  <2>12. adc' = Clean(t)
    BY <2>1, <2>2, <2>3
  <2>13. busy' \subseteq Sensors
    BY <2>1, AdcTypes
  <2> QED BY <2>1, <2>4, <2>11, <2>12, <2>13, CleanedInv
<1> QED BY <1>1, <1>2

LEMMA SampleGetStep ==
  ASSUME AdcInv, NEW n \in Sensors, SampleGet(n)
  PROVE  AdcInv'
<1>1. PICK fine \in BOOLEAN :
          /\ adc' = Clean(GetCb(Keep, n, fine))
          /\ open' = IF GetCb(Keep, n, fine).resp = "BUSY" THEN open ELSE open \ {n}
          /\ busy' = busy \ {n}
          /\ UNCHANGED <<enabled, nest, faults>>
  BY DEF SampleGet
<1>2. PICK k : k = Keep
  OBVIOUS
<1>3. PICK t : t = GetCb(k, n, fine)
  OBVIOUS
<1>4. PICK h : h = faults'.had
  OBVIOUS
<1>5. faults.had \subseteq h
  BY <1>1, <1>4
<1>6. InvP(k, enabled, open, nest, h)
  BY <1>2, <1>5, KeptInv
<1>7. nest = <<>>
  BY DEF SampleGet
<1>8. open' = IF t.resp = "BUSY" THEN open ELSE open \ {n}
  BY <1>1, <1>2, <1>3
<1>9. InvP(t, enabled, open', nest, h)
  BY <1>3, <1>6, <1>7, <1>8, SampleGot
<1>10. adc' = Clean(t)
  BY <1>1, <1>2, <1>3
<1>11. busy' \subseteq Sensors
  BY <1>1, AdcTypes
<1> QED BY <1>1, <1>4, <1>9, <1>10, <1>11, CleanedInv

LEMMA CutStep ==
  ASSUME AdcInv, NEW n \in Sensors, Cut(n)
  PROVE  AdcInv'
<1>1. /\ Fault("cut") /\ open' = open \ {n}
      /\ adc' = adc /\ enabled' = enabled /\ busy' = busy /\ nest' = nest
  BY DEF Cut
<1>2. PICK h : h = faults'.had
  OBVIOUS
<1>3. faults.had \subseteq h /\ "cut" \in h
  BY <1>1, <1>2, FaultHad
<1>4. open' \in SUBSET open
  BY <1>1
<1>5. InvP(adc, enabled, open', nest, h)
  BY <1>3, <1>4, SampleCut DEF AdcInv
<1> QED BY <1>1, <1>2, <1>5 DEF AdcInv

\* The converter is switched off and on, by the main loop or by a command.
LEMMA OffAndOnStep ==
  ASSUME AdcInv, faults.had \subseteq faults'.had, adc' = OffAndOn(Keep),
         UNCHANGED <<enabled, open, busy, nest>>
  PROVE  AdcInv'
<1>1. PICK k : k = Keep
  OBVIOUS
<1>2. PICK h : h = faults'.had
  OBVIOUS
<1>3. InvP(k, enabled, open, nest, h)
  BY <1>1, <1>2, KeptInv
<1>4. PICK t : t = OffAndOn(k)
  OBVIOUS
<1>5. h \subseteq h
  OBVIOUS
<1>6. InvP(t, enabled, open, nest, h)
  BY <1>3, <1>4, <1>5, SwitchedOff
<1>7. k.resp = None /\ k \in Driver
  BY <1>1, AdcTypes, <1>3, InvParts, <1>5 DEF Keep, Driver
<1>8. t.resp = None
  BY <1>4, <1>7 DEF OffAndOn, Driver
<1>9. adc' = t
  BY <1>1, <1>4
<1> QED BY <1>2, <1>6, <1>8, <1>9 DEF AdcInv

LEMMA DmaStep ==
  ASSUME AdcInv, Dma
  PROVE  AdcInv'
<1>1. PICK k : k = Keep
  OBVIOUS
<1>2. PICK h : h = faults'.had
  OBVIOUS
<1>3. faults.had \subseteq h /\ adc.on /\ adc' = DmaComplete(Keep)
      /\ UNCHANGED <<enabled, open, busy, nest>>
  BY <1>2 DEF Dma
<1>4. InvP(k, enabled, open, nest, h) /\ Like(adc, k)
  BY <1>1, <1>3, KeptInv
<1>5. PICK t : t = DmaComplete(k)
  OBVIOUS
<1>6. h \subseteq h
  OBVIOUS
<1>7. k.on
  BY <1>3, <1>4 DEF Like, ButActive
<1>8. InvP(t, enabled, open, nest, h)
  BY <1>4, <1>5, <1>6, <1>7, Converted
<1>9. k.resp = None /\ k \in Driver
  BY <1>1, AdcTypes, <1>4, InvParts, <1>6 DEF Keep, Driver
<1>10. t.resp = None
  BY <1>5, <1>9 DEF DmaComplete, Driver
<1>11. adc' = t
  BY <1>1, <1>3, <1>5
<1> QED BY <1>2, <1>3, <1>8, <1>10, <1>11 DEF AdcInv

LEMMA SleepIterationStep ==
  ASSUME AdcInv, SleepIteration
  PROVE  AdcInv'
<1>1. UNCHANGED <<enabled, open, busy>>
  BY DEF SleepIteration
<1>2. CASE adc' = OffAndOn(Keep) /\ UNCHANGED <<nest, faults>>
  <2>1. faults.had \subseteq faults'.had
    BY <1>2
  <2> QED BY <1>1, <1>2, <2>1, OffAndOnStep
<1>3. CASE ~(adc' = OffAndOn(Keep) /\ UNCHANGED <<nest, faults>>)
  <2>1. PICK early \in BOOLEAN :
            /\ Early(early)
            /\ adc' = Clean(BatBegin(Keep, early))
            /\ nest' = IF BatBegin(Keep, early).resp = "SUCCESS"
                       THEN <<[what |-> "onbat"]>> ELSE nest
    BY <1>3 DEF SleepIteration
  <2>2. PICK k : k = Keep
    OBVIOUS
  <2>3. PICK t : t = BatBegin(k, early)
    OBVIOUS
  <2>4. PICK h : h = faults'.had
    OBVIOUS
  <2>5. faults.had \subseteq h /\ (early => "race" \in h /\ adc.on /\ ~adc.inUse)
    BY <2>1, <2>4, EarlyHad
  <2>6. InvP(k, enabled, open, nest, h) /\ Like(adc, k)
    BY <2>2, <2>5, KeptInv
  <2>7. early => k.buf # <<>> /\ "race" \in h
    BY <2>5, <2>6, EarlyFilled
  <2>8. PICK c : c = [what |-> "onbat"]
    OBVIOUS
  <2>9. nest = <<>>
    BY DEF SleepIteration
  <2>10. nest' = IF t.resp = "SUCCESS" THEN <<c>> ELSE nest
    BY <2>1, <2>2, <2>3, <2>8
  <2>11. <<c>> = Append(nest, c)
    BY <2>9
  <2>12. nest' = IF t.resp = "SUCCESS" THEN Append(nest, c) ELSE nest
    BY <2>10, <2>11
  <2>13. PICK w \in {"bat", "onbat"} : w = "onbat"
    OBVIOUS
  <2>14. c = [what |-> w]
    BY <2>8, <2>13
  <2>15. PICK r : r = nest'
    OBVIOUS
  <2>16. r = IF t.resp = "SUCCESS" THEN Append(nest, c) ELSE nest
    BY <2>12, <2>15
  <2>17. InvP(t, enabled, open, r, h)
    BY <2>3, <2>6, <2>7, <2>14, <2>16, BatAsked
  <2>18. adc' = Clean(t)
    BY <2>1, <2>2, <2>3
  <2>19. busy' \subseteq Sensors
    BY <1>1, AdcTypes
  <2> QED BY <1>1, <2>4, <2>15, <2>17, <2>18, <2>19, CleanedInv
<1> QED BY <1>2, <1>3

LEMMA SleepNowStep ==
  ASSUME AdcInv, SleepNow
  PROVE  AdcInv'
<1>1. /\ Fault("sleep") /\ adc' = OffAndOn(Keep)
      /\ UNCHANGED <<enabled, open, busy, nest>>
  BY DEF SleepNow
<1>2. faults.had \subseteq faults'.had
  BY <1>1, FaultHad
<1> QED BY <1>1, <1>2, OffAndOnStep

LEMMA SetIntervalStep ==
  ASSUME AdcInv, NEW n \in Sensors, SetInterval(n)
  PROVE  AdcInv'
<1>1. /\ Fault("interval")
      /\ adc' = Clean(EnableCb(Keep, n, n \notin enabled))
      /\ enabled' = IF n \in enabled THEN enabled \ {n} ELSE enabled \cup {n}
      /\ open' = open /\ busy' = busy /\ nest' = nest
  BY DEF SetInterval
<1>2. PICK k : k = Keep
  OBVIOUS
<1>3. PICK on \in BOOLEAN : on = (n \notin enabled)
  OBVIOUS
<1>4. PICK t : t = EnableCb(k, n, on)
  OBVIOUS
<1>5. PICK h : h = faults'.had
  OBVIOUS
<1>6. faults.had \subseteq h /\ "interval" \in h /\ h \subseteq h
  BY <1>1, <1>5, FaultHad
<1>7. InvP(k, enabled, open, nest, h)
  BY <1>2, <1>6, KeptInv
<1>8. enabled' \in SUBSET Sensors
  BY <1>1, AdcTypes
<1>9. InvP(t, enabled', open, nest, h)
  BY <1>4, <1>6, <1>7, <1>8, IntervalSet
<1>10. adc' = Clean(t)
  BY <1>1, <1>2, <1>3, <1>4
<1>11. busy' \subseteq Sensors
  BY <1>1, AdcTypes
<1> QED BY <1>1, <1>5, <1>9, <1>10, <1>11, CleanedInv

\* A command that waits, whichever: t is what its begin left.
LEMMA WaitsStep ==
  ASSUME NEW t, NEW ok, NEW c, Waits(t, ok, c), UNCHANGED <<enabled, open>>, NEW h,
         h = faults'.had, NEW r, r = IF t.resp = ok THEN Append(nest, c) ELSE nest,
         InvP(t, enabled, open, r, h), busy' \subseteq Sensors
  PROVE  AdcInv'
<1>1. adc' = Clean(t) /\ nest' = r /\ enabled' = enabled /\ open' = open
  BY DEF Waits
<1> QED BY <1>1, CleanedInv

LEMMA CommandStep ==
  ASSUME AdcInv, Command
  PROVE  AdcInv'
<1>1. UNCHANGED <<enabled, open, busy>>
  BY DEF Command
<1>2. busy' \subseteq Sensors
  BY <1>1, AdcTypes
<1>3. PICK k : k = Keep
  OBVIOUS
<1>4. PICK h : h = faults'.had
  OBVIOUS
<1>5. ASSUME NEW f, Fault(f)
      PROVE  InvP(k, enabled, open, nest, h) /\ Like(adc, k) /\ f \in h
  <2>1. faults.had \subseteq h /\ f \in h
    BY <1>4, <1>5, FaultHad
  <2> QED BY <1>3, <2>1, KeptInv
<1>6. PICK no \in BOOLEAN : no = FALSE
  OBVIOUS
<1>7. ASSUME Fault("cc"), NEW i \in 1..NumCc,
             Waits(CcBegin(Keep, Cc(i), TRUE, FALSE), "SUCCESS", [what |-> "cc", n |-> Cc(i)])
      PROVE  AdcInv'
  <2>1. PICK n : n = Cc(i)
    OBVIOUS
  <2>2. PICK t : t = CcBegin(k, n, TRUE, no)
    OBVIOUS
  <2>3. PICK c : c = [what |-> "cc", n |-> n]
    OBVIOUS
  <2>4. PICK r : r = IF t.resp = "SUCCESS" THEN Append(nest, c) ELSE nest
    OBVIOUS
  <2>5. Waits(t, "SUCCESS", c)
    BY <1>3, <1>6, <1>7, <2>1, <2>2, <2>3
  <2>6. n \in Clamps
    BY <2>1 DEF Clamps
  <2>7. InvP(k, enabled, open, nest, h) /\ "cc" \in h
    BY <1>5, <1>7
  <2>8. ~no
    BY <1>6
  <2>9. InvP(t, enabled, open, r, h)
    BY <2>2, <2>3, <2>4, <2>6, <2>7, <2>8, CcAsked
  <2> QED BY <1>1, <1>2, <1>4, <2>4, <2>5, <2>9, WaitsStep
<1>8. ASSUME Fault("cc"),
             Waits(CcAllBegin(Keep, FALSE), "SUCCESS", [what |-> "ccs", before |-> adc.active])
      PROVE  AdcInv'
  <2>1. InvP(k, enabled, open, nest, h) /\ "cc" \in h /\ k.active = adc.active
    BY <1>5, <1>8 DEF Like
  <2>2. PICK t : t = CcAllBegin(k, FALSE)
    OBVIOUS
  <2>3. PICK c : c = [what |-> "ccs", before |-> k.active]
    OBVIOUS
  <2>4. PICK r : r = IF t.resp = "SUCCESS" THEN Append(nest, c) ELSE nest
    OBVIOUS
  <2>5. Waits(t, "SUCCESS", c)
    BY <1>3, <1>8, <2>1, <2>2, <2>3
  <2>6. InvP(t, enabled, open, r, h)
    BY <2>1, <2>2, <2>3, <2>4, AllAsked
  <2> QED BY <1>1, <1>2, <1>4, <2>4, <2>5, <2>6, WaitsStep
<1>9. ASSUME Fault("cal"),
             Waits(CcCalibrateBegin(Keep, FALSE), "OK", [what |-> "cal", before |-> adc.active])
      PROVE  AdcInv'
  <2>1. InvP(k, enabled, open, nest, h) /\ "cal" \in h /\ k.active = adc.active
    BY <1>5, <1>9 DEF Like
  <2>2. PICK t : t = CcCalibrateBegin(k, FALSE)
    OBVIOUS
  <2>3. PICK c : c = [what |-> "cal", before |-> k.active]
    OBVIOUS
  <2>4. PICK r : r = IF t.resp = "OK" THEN Append(nest, c) ELSE nest
    OBVIOUS
  <2>5. Waits(t, "OK", c)
    BY <1>3, <1>9, <2>1, <2>2, <2>3
  <2>6. InvP(t, enabled, open, r, h)
    BY <2>1, <2>2, <2>3, <2>4, CalAsked
  <2> QED BY <1>1, <1>2, <1>4, <2>4, <2>5, <2>6, WaitsStep
<1>10. ASSUME Fault("bat"), Waits(BatBegin(Keep, FALSE), "SUCCESS", [what |-> "bat"])
       PROVE  AdcInv'
  <2>1. InvP(k, enabled, open, nest, h)
    BY <1>5, <1>10
  <2>2. PICK t : t = BatBegin(k, no)
    OBVIOUS
  <2>3. PICK w \in {"bat", "onbat"} : w = "bat"
    OBVIOUS
  <2>4. PICK c : c = [what |-> w]
    OBVIOUS
  <2>5. PICK r : r = IF t.resp = "SUCCESS" THEN Append(nest, c) ELSE nest
    OBVIOUS
  <2>6. Waits(t, "SUCCESS", c)
    BY <1>3, <1>6, <1>10, <2>2, <2>3, <2>4
  <2>7. no => k.buf # <<>> /\ "race" \in h
    BY <1>6
  <2>8. InvP(t, enabled, open, r, h)
    BY <2>1, <2>2, <2>4, <2>5, <2>7, BatAsked
  <2> QED BY <1>1, <1>2, <1>4, <2>5, <2>6, <2>8, WaitsStep
<1> QED BY <1>7, <1>8, <1>9, <1>10 DEF Command

LEMMA ReadMeasurementStep ==
  ASSUME AdcInv, NEW n \in Sensors, ReadMeasurement(n)
  PROVE  AdcInv'
<1>1. Fault("read") /\ UNCHANGED <<enabled, open>>
  BY DEF ReadMeasurement
<1>2. PICK was \in BOOLEAN : was = (n[1] = "CC" /\ ~IsActive(adc, n))
  OBVIOUS
<1>3. PICK k : k = Keep
  OBVIOUS
<1>4. PICK h : h = faults'.had
  OBVIOUS
<1>5. faults.had \subseteq h /\ "read" \in h
  BY <1>1, <1>4, FaultHad
<1>6. InvP(k, enabled, open, nest, h) /\ Like(adc, k)
  BY <1>3, <1>5, KeptInv
<1>7. PICK b : b = IF was THEN EnableCb(k, n, TRUE) ELSE k
  OBVIOUS
<1>8. PICK no \in BOOLEAN : no = FALSE
  OBVIOUS
<1>8a. PICK late \in BOOLEAN : \E t :
          /\ t = InitCb(b, n, TRUE, no, late)
          /\ IF t.resp = "SUCCESS"
             THEN /\ Waits(t, "SUCCESS", [what |-> "read", n |-> n, was |-> was])
                  /\ busy' = busy \cup {n}
             ELSE /\ adc' = Clean(ReadDisable(t, n, was))
                  /\ busy' = busy \ {n} /\ UNCHANGED nest
  BY <1>2, <1>3, <1>7, <1>8 DEF ReadMeasurement, Lates
<1>9. PICK t :
          /\ t = InitCb(b, n, TRUE, no, late)
          /\ IF t.resp = "SUCCESS"
             THEN /\ Waits(t, "SUCCESS", [what |-> "read", n |-> n, was |-> was])
                  /\ busy' = busy \cup {n}
             ELSE /\ adc' = Clean(ReadDisable(t, n, was))
                  /\ busy' = busy \ {n} /\ UNCHANGED nest
  BY <1>8a
<1>10. PICK u : u = ReadDisable(t, n, was)
  OBVIOUS
<1>11. PICK c : c = [what |-> "read", n |-> n, was |-> was]
  OBVIOUS
<1>12. PICK r : r = Append(nest, c)
  OBVIOUS
<1>13. was <=> n \in Clamps /\ n \notin Range(k.active)
  <2>1. k.active = adc.active
    BY <1>6 DEF Like
  <2>2. n[1] = "CC" <=> n \in Clamps
    BY Kinds
  <2> QED BY <1>2, <2>1, <2>2 DEF IsActive
<1>14. ~no
  BY <1>8
<1>15. /\ t.resp = "SUCCESS" => InvP(t, enabled, open, r, h)
       /\ t.resp # "SUCCESS" => InvP(u, enabled, open, nest, h)
  <2>1. t = InitCb(b, n, TRUE, no, late)
    BY <1>9
  <2> QED BY <1>5, <1>6, <1>7, <1>10, <1>11, <1>12, <1>13, <1>14, <2>1, ReadAsked
<1>16. busy' \subseteq Sensors
  BY <1>9, AdcTypes
<1>17. CASE t.resp = "SUCCESS"
  <2>1. adc' = Clean(t) /\ nest' = r
    BY <1>9, <1>11, <1>12, <1>17 DEF Waits
  <2> QED BY <1>1, <1>4, <1>15, <1>16, <1>17, <2>1, CleanedInv
<1>18. CASE t.resp # "SUCCESS"
  <2>1. adc' = Clean(u) /\ nest' = nest
    BY <1>9, <1>10, <1>18
  <2> QED BY <1>1, <1>4, <1>15, <1>16, <1>18, <2>1, CleanedInv
<1> QED BY <1>17, <1>18

LEMMA ReturnStep ==
  ASSUME AdcInv, Return
  PROVE  AdcInv'
<1>1. nest # <<>> /\ UNCHANGED <<enabled, open>>
  BY DEF Return
<1>2. PICK c : c = Innermost(nest)
  OBVIOUS
<1>3. PICK r : r = Outer(nest)
  OBVIOUS
<1>4. nest' = r /\ busy' \subseteq Sensors
  BY <1>3, AdcTypes DEF Return
<1>5. nest \in Seq(Calls)
  BY AdcTypes
<1>6. Added(r, c, nest)
  BY <1>1, <1>2, <1>3, <1>5, OuterAdds
<1>7. c \in Calls
  BY <1>6 DEF Added
<1>8. PICK h : h = faults'.had
  OBVIOUS
<1>9. faults.had \subseteq h /\ (adc.inUse => "slow" \in h)
  <2>1. CASE adc.inUse
    BY <1>8, <2>1, FaultHad DEF Return
  <2>2. CASE ~adc.inUse
    BY <1>8, <2>2 DEF Return
  <2> QED BY <2>1, <2>2
<1>10. PICK k : k = Keep
  OBVIOUS
<1>11. InvP(k, enabled, open, nest, h) /\ Like(adc, k)
  BY <1>9, <1>10, KeptInv
<1>12. k.inUse = adc.inUse
  BY <1>11 DEF Like, ButActive
<1>13. PICK waited \in BOOLEAN : waited = ~adc.inUse
  BY AdcTypes DEF Driver
<1>14. (k.inUse => "slow" \in h) /\ (waited <=> ~k.inUse)
  BY <1>9, <1>12, <1>13
<1>15. PICK fine \in BOOLEAN : adc' = Clean(Ended(c, waited, fine))
  BY <1>2, <1>13 DEF Return
<1>16. PICK t : t = Ended(c, waited, fine)
  OBVIOUS
<1>17. c.what \in {"cc", "ccs", "cal", "bat", "onbat", "read"}
  BY <1>7 DEF Calls
<1>18. InvP(t, enabled, open, r, h)
  <2>1. CASE c.what \in {"cc", "ccs", "cal"}
    <3>1. \/ c.what = "cc" /\ t = CcBlockingEnd(k, c.n, waited, fine)
          \/ c.what = "ccs" /\ t = CcAllEnd(k, c.before, waited, fine)
          \/ c.what = "cal" /\ t = CcCalibrateEnd(k, c.before, waited)
      BY <1>10, <1>16, <2>1 DEF Ended
    <3> QED BY <1>6, <1>11, <1>14, <3>1, CcAnswered
  <2>2. CASE c.what \in {"bat", "onbat"}
    <3>1. \/ c.what = "bat" /\ t = BatBlockingEnd(k, waited)
          \/ c.what = "onbat" /\ t = BatOnBatteryEnd(k, waited)
          \/ c.what = "read" /\ c.n = Bat /\ t = BatGet(k)
      BY <1>10, <1>16, <2>2 DEF Ended
    <3> QED BY <1>6, <1>11, <1>14, <3>1, BatAnswered
  <2>3. CASE c.what = "read"
    <3>1. t = ReadDisable(GetCb(k, c.n, fine), c.n, c.was)
      BY <1>10, <1>16, <2>3 DEF Ended
    <3> QED BY <1>6, <1>7, <1>11, <1>14, <2>3, <3>1, ReadAnswered
  <2> QED BY <1>17, <2>1, <2>2, <2>3
<1>19. adc' = Clean(t)
  BY <1>15, <1>16
<1> QED BY <1>1, <1>4, <1>8, <1>18, <1>19, CleanedInv

LEMMA AdcInvKept ==
  ASSUME AdcInv, [Next]_vars
  PROVE  AdcInv'
<1>1. CASE Next
  BY <1>1, SampleInitStep, SampleGetStep, CutStep, SleepIterationStep, DmaStep, CommandStep,
     SleepNowStep, ReturnStep, ReadMeasurementStep, SetIntervalStep DEF Next
<1>2. CASE UNCHANGED vars
  BY <1>2, AdcInvStays
<1> QED BY <1>1, <1>2

LEMMA AdcInvBegins ==
  ASSUME Init
  PROVE  AdcInv
<1>1. PICK active : active = Ordered(Enabled)
  OBVIOUS
<1>2. active \in Seq(Clamps) /\ Range(active) = Enabled \cap Clamps
  BY <1>1, OrderedIs
<1>3. /\ enabled = Enabled /\ open = {} /\ busy = {} /\ nest = <<>> /\ faults.had = {}
      /\ adc = [Start EXCEPT !.active = active]
  BY <1>1 DEF Init
<1>4. /\ ~adc.inUse /\ adc.key = None /\ adc.seq = <<>> /\ adc.buf = <<>> /\ ~adc.on
      /\ adc.active = active /\ adc.alone = NoSensor /\ adc.running = {}
      /\ ~adc.ftOn /\ adc.inited = {} /\ ~adc.bat /\ adc.resp = None /\ adc.read = Unread
  BY <1>3 DEF Start
<1>5. Unread \in Reads
  BY DEF Unread, Reads
<1>6. adc \in Driver
  <2>1. <<>> \in Seq(Sensors) /\ <<>> \in Seq(Clamps)
    OBVIOUS
  <2>2. Start \in Driver
    BY <1>5, <2>1 DEF Start, Driver, Keys, Says
  <2> QED BY <1>2, <1>3, <2>2 DEF Driver
<1>7. Sound(adc)
  BY <1>4 DEF Sound, None
<1>8. nest \in Seq(Calls) /\ \A i \in DOMAIN nest : FALSE
  BY <1>3, NoCalls
<1>9. TypesP(adc, enabled, open, nest, faults.had)
  <2>1. Enabled \subseteq Sensors
    BY SensingAssumption DEF AdcSystemAssumption
  <2> QED BY <1>3, <1>6, <1>7, <1>8, <2>1 DEF TypesP
<1>10. PureP(adc)
  BY <1>4, UnreadIs DEF PureP
<1>11. AloneP(adc, nest)
  BY <1>8 DEF AloneP
<1>12. MeasuredP(adc, enabled, nest)
  BY <1>2, <1>3, <1>4, <1>8 DEF MeasuredP
<1>13. HeldP(adc, open, nest)
  BY <1>4 DEF HeldP, None
<1>14. ActiveP(adc, enabled, nest)
  BY <1>2, <1>3, <1>4, <1>8 DEF ActiveP
<1> QED BY <1>3, <1>4, <1>9, <1>10, <1>11, <1>12, <1>13, <1>14 DEF AdcInv, InvP

LEMMA AdcInvOwn ==
  ASSUME AdcInv
  PROVE  OwnSamples
BY DEF AdcInv, InvP, OwnSamples, Had, Clear, PureFs, PureP

LEMMA AdcInvHeld ==
  ASSUME AdcInv
  PROVE  HeldForUse
<1>1. SUFFICES ASSUME ~Had({"slow", "interval", "cut"}), adc.key # None
               PROVE  \/ \E n \in open : KeyOf(n) = adc.key
                      \/ \E i \in DOMAIN nest : KeyOfCall(nest[i]) = adc.key
  BY DEF HeldForUse
<1>2. HeldP(adc, open, nest)
  BY <1>1 DEF AdcInv, InvP, Had, Clear, HeldFs
<1>3. adc \in Driver /\ Sound(adc)
  BY AdcTypes
<1>4. CASE adc.key = "CC"
  <2>1. ASSUME NEW c, CcCall(c)
        PROVE  KeyOfCall(c) = "CC"
    BY <2>1, Kinds DEF CcCall, KeyOfCall
  <2>2. ASSUME adc.running # {}, adc.running \subseteq open
        PROVE  \E n \in open : KeyOf(n) = "CC"
    BY <1>3, <2>2, Kinds DEF Driver
  <2> QED BY <1>2, <1>4, <2>1, <2>2 DEF HeldP
<1>5. CASE adc.key = "FT"
  <2>1. PICK n : n \in adc.inited
    BY <1>3, <1>5 DEF Sound
  <2>2. n \in Inputs /\ KeyOf(n) = "FT"
    BY <1>3, <2>1, Kinds DEF Driver
  <2>3. ASSUME NEW c, ReadOf(c, n)
        PROVE  KeyOfCall(c) = "FT"
    BY <2>2, <2>3 DEF ReadOf, KeyOfCall
  <2> QED BY <1>2, <1>5, <2>1, <2>2, <2>3 DEF HeldP
<1>6. CASE adc.key = "BAT"
  BY <1>2, <1>3, <1>6, Kinds DEF HeldP, Sound
<1> QED BY <1>1, <1>3, <1>4, <1>5, <1>6 DEF Driver, Keys

LEMMA AdcInvActive ==
  ASSUME AdcInv
  PROVE  ActiveIsEnabled
<1>1. SUFFICES ASSUME nest = <<>>, ~Had({"interval", "cc", "cal", "slow"})
               PROVE  Range(adc.active) = enabled \cap Clamps
  BY Whole DEF ActiveIsEnabled
<1>2. ActiveP(adc, enabled, nest)
  BY <1>1 DEF AdcInv, InvP, Had, Clear, ActiveFs
<1>3. Range(adc.active) \subseteq Clamps
  BY AdcTypes, ActiveAreClamps
<1>4. \A i \in DOMAIN nest : FALSE
  BY <1>1, NoCalls
<1>5. \A n \in Clamps : n \in Range(adc.active) <=> n \in enabled
  BY <1>2, <1>4 DEF ActiveP
<1> QED BY <1>3, <1>5

LEMMA AdcInvTypes ==
  ASSUME AdcInv
  PROVE  TypeOK
<1>1. Range(adc.active) \subseteq Range(AllCc)
  BY AdcTypes, ActiveAreClamps, Whole
<1>2. Range(AllFt) = Inputs
  BY DEF AllFt, Inputs, Range
<1>3. adc.running \subseteq Clamps /\ adc.inited \subseteq Inputs
      /\ adc.key \in Keys /\ adc.inUse \in BOOLEAN
  BY AdcTypes DEF Driver
<1>4. adc.resp = None
  BY DEF AdcInv
<1> QED BY <1>1, <1>2, <1>3, <1>4, Whole, AdcTypes DEF TypeOK, Keys

-----------------------------------------------------------------------------
(***************************************************************************)
(* The chips: an invariant for each driver, of its state s, the samples O  *)
(* that are open, the command's K, those that are marked as collecting B,  *)
(* the measurements N and the faults h.                                    *)
(***************************************************************************)
ChipSays == {"none", "SUCCESS", "BUSY", "ERROR"}
ChipReads == {"none", "new", "old"}

HpmDriver ==
    [kind : {"hpm"}, valid : BOOLEAN, on : BOOLEAN, ref : Nat, uart : BOOLEAN,
     age : {"young", "ripe", "late"}, messages : 0..3, header : BOOLEAN,
     fresh : SUBSET S!HpmNames, resp : ChipSays, read : ChipReads]
VemlDriver ==
    [kind : {"veml"}, state : {"OFF", "READING", "DONE"}, gain : 0..3, int : 2..5,
     valid : BOOLEAN, fresh : SUBSET {S!Light}, resp : ChipSays, read : ChipReads]
DsDriver ==
    [kind : {"ds"}, converting : BOOLEAN, fresh : SUBSET {S!Probe},
     resp : ChipSays, read : ChipReads]
SenDriver ==
    [kind : {"sen"}, active : BOOLEAN, fresh : {{}, S!SenNames},
     resp : ChipSays, read : ChipReads]
RsDriver ==
    [kind : {"rs"}, stored : {"none", "old", "new"}, errored : BOOLEAN,
     line : Seq({"old", "new"}), resp : ChipSays, read : ChipReads]

\* Whatever is begun is marked as collecting, and a command's is not a sample's.
Apart(O, K, B) == O \cup K \subseteq B /\ O \cap K = {}

HpmI(s, O, K, B, N, h) ==
    /\ s \in HpmDriver /\ N \subseteq S!HpmNames
    /\ "slow" \notin h =>
           /\ Apart(O, K, B) /\ s.read # "old"
           /\ s.uart => s.on
           /\ O \cup K # {} => s.age # "late" /\ (s.uart => s.age = "young")
           /\ \A n \in O \cup K : s.age = "ripe" => n \in s.fresh /\ s.valid
    /\ "slow" \notin h /\ "cut" \notin h /\ (\A n, m \in N : n = m) =>
           /\ s.ref \in {0, 1}
           /\ s.ref = 1 => s.on /\ s.uart /\ s.age = "young" /\ O \cup K # {}

VemlI(s, O, K, B, N, h) ==
    /\ s \in VemlDriver /\ N \subseteq {S!Light}
    /\ s.read # "old"
    /\ s.state = "DONE" => s.fresh = {S!Light}
    /\ {"slow", "cut", "i2c"} \cap h = {} => (s.state # "OFF" => O \cup K # {})

DsI(s, O, K, B, N, h) ==
    /\ s \in DsDriver /\ N \subseteq {S!Probe}
    /\ O \cup K # {} => s.converting \/ s.fresh = {S!Probe}
    /\ "slow" \notin h => s.read # "old"

SenI(s, O, K, B, N, h) ==
    /\ s \in SenDriver /\ N \subseteq S!SenNames
    /\ "slow" \notin h => s.read # "old"

RsI(s, O, K, B, N, h) ==
    /\ s \in RsDriver /\ N \subseteq {S!Serial}
    /\ "slow" \notin h =>
           /\ Apart(O, K, B) /\ s.read # "old"
           /\ O \cup K # {} => \/ s.line # <<>> /\ s.line[Len(s.line)] = "new"
                               \/ s.errored \/ s.stored = "new"

ChipI(s, O, K, B, N, h) ==
    /\ O \subseteq N /\ K \subseteq N /\ B \subseteq N
    /\ \/ HpmI(s, O, K, B, N, h) \/ VemlI(s, O, K, B, N, h) \/ DsI(s, O, K, B, N, h)
       \/ SenI(s, O, K, B, N, h) \/ RsI(s, O, K, B, N, h)

\* The time that a driver asked for is over (HadItsTime).
Ripe(s) ==
    /\ s.kind = "hpm" => s.age # "young"
    /\ s.kind = "ds" => ~s.converting
    /\ s.kind = "sen" /\ s.active => s.fresh # {}
    /\ s.kind = "rs" => s.line = <<>>

LEMMA ChipKinds ==
  /\ \A s \in HpmDriver : s.kind = "hpm"
  /\ \A s \in VemlDriver : s.kind = "veml"
  /\ \A s \in DsDriver : s.kind = "ds"
  /\ \A s \in SenDriver : s.kind = "sen"
  /\ \A s \in RsDriver : s.kind = "rs"
BY DEF HpmDriver, VemlDriver, DsDriver, SenDriver, RsDriver

\* A new sample: a driver is asked to begin n.
Asked(s, O, K, B, N, h, n, t) ==
    /\ t.resp = "SUCCESS" => /\ ChipI(t, O \cup {n}, K, B \cup {n}, N, h)
                             /\ ChipI(t, O, K \cup {n}, B \cup {n}, N, h)
    /\ t.resp # "SUCCESS" => ChipI(t, O, K, B, N, h)

LEMMA HpmAsked ==
  ASSUME NEW s, NEW O, NEW K, NEW B, NEW N, NEW h, HpmI(s, O, K, B, N, h),
         O \subseteq N, K \subseteq N, B \subseteq N, NEW n \in N, n \notin B,
         NEW t, t = S!HpmInit(s, n)
  PROVE  Asked(s, O, K, B, N, h, n, t) /\ t.ref = s.ref + 1
<1>1. s \in HpmDriver /\ n \in S!HpmNames
  BY DEF HpmI
<1>2. /\ t \in HpmDriver
      /\ t.on /\ t.uart /\ t.age = "young" /\ t.ref = s.ref + 1 /\ t.resp = "SUCCESS"
      /\ t.read = s.read
  <2>1. PICK u : u = [s EXCEPT !.uart = TRUE, !.fresh = @ \ {n}]
    OBVIOUS
  <2>2. u \in HpmDriver /\ u.uart /\ u.ref = s.ref /\ u.read = s.read
    BY <1>1, <2>1 DEF HpmDriver
  <2>3. PICK v : v = S!HpmEnable(u, TRUE)
    OBVIOUS
  <2>4. u.ref \in Nat
    BY <2>2 DEF HpmDriver
  <2>5. PICK ref \in Nat : ref = u.ref + 1
    BY <2>4
  <2>6. v = [u EXCEPT !.on = TRUE, !.age = "young", !.ref = ref]
    BY <2>3, <2>5 DEF S!HpmEnable
  <2>7. v \in HpmDriver /\ v.on /\ v.uart /\ v.age = "young" /\ v.ref = ref /\ v.read = s.read
    BY <2>2, <2>6 DEF HpmDriver
  <2>8. t = [v EXCEPT !.resp = "SUCCESS"]
    BY <2>1, <2>3 DEF S!HpmInit, S!Reply
  <2>9. /\ t \in HpmDriver /\ t.on /\ t.uart /\ t.age = "young" /\ t.ref = ref
        /\ t.resp = "SUCCESS" /\ t.read = s.read
    BY <2>7, <2>8 DEF HpmDriver, ChipSays
  <2> QED BY <2>2, <2>5, <2>9
<1>3. ASSUME NEW P, NEW Q, P \cup Q = O \cup K \cup {n}, P \subseteq N, Q \subseteq N,
             O \cap K = {} /\ n \notin O \cup K => P \cap Q = {}
      PROVE  ChipI(t, P, Q, B \cup {n}, N, h)
  <2>1. ASSUME "slow" \notin h
        PROVE  Apart(P, Q, B \cup {n}) /\ t.read # "old" /\ n \notin O \cup K
    <3>1. Apart(O, K, B) /\ s.read # "old"
      BY <2>1 DEF HpmI
    <3>2. n \notin O \cup K
      BY <3>1 DEF Apart
    <3>3. P \cap Q = {} /\ P \cup Q \subseteq B \cup {n}
      BY <1>3, <3>1, <3>2 DEF Apart
    <3> QED BY <1>2, <3>1, <3>2, <3>3 DEF Apart
  <2>2. ASSUME "slow" \notin h, "cut" \notin h, \A l, m \in N : l = m
        PROVE  t.ref = 1 /\ P \cup Q # {}
    <3>1. O \cup K = {}
      BY <2>1, <2>2
    <3>2. s.ref = 0
      BY <2>2, <3>1 DEF HpmI
    <3> QED BY <1>2, <1>3, <3>2
  <2>3. HpmI(t, P, Q, B \cup {n}, N, h)
    BY <1>1, <1>2, <2>1, <2>2 DEF HpmI
  <2> QED BY <1>3, <2>3 DEF ChipI
<1>4. ChipI(t, O \cup {n}, K, B \cup {n}, N, h)
  <2>1. PICK P : P = O \cup {n}
    OBVIOUS
  <2> QED BY <1>3, <2>1
<1>5. ChipI(t, O, K \cup {n}, B \cup {n}, N, h)
  <2>1. PICK P : P = K \cup {n}
    OBVIOUS
  <2> QED BY <1>3, <2>1
<1> QED BY <1>2, <1>4, <1>5 DEF Asked

LEMMA VemlAsked ==
  ASSUME NEW s, NEW O, NEW K, NEW B, NEW N, NEW h, VemlI(s, O, K, B, N, h),
         O \subseteq N, K \subseteq N, B \subseteq N, NEW n \in N, n \notin B,
         NEW fine \in BOOLEAN, ~fine => "i2c" \in h,
         NEW late \in BOOLEAN, late => "slow" \in h \/ "i2c" \in h,
         NEW t, t = S!VemlInit(s, fine, late)
  PROVE  Asked(s, O, K, B, N, h, n, t)
<1>1. s \in VemlDriver /\ s.read # "old"
  BY DEF VemlI
<1>2. CASE s.state = "READING" /\ ~late
  <2>1. t = [s EXCEPT !.resp = "BUSY"]
    BY <1>2 DEF S!VemlInit, S!Reply
  <2>2. /\ t \in VemlDriver /\ t.resp = "BUSY" /\ t.state = s.state /\ t.read = s.read
        /\ t.fresh = s.fresh
    BY <1>1, <2>1 DEF VemlDriver, ChipSays
  <2>3. VemlI(t, O, K, B, N, h)
    BY <2>2 DEF VemlI
  <2> QED BY <2>2, <2>3 DEF Asked, ChipI
<1>3. CASE s.state = "DONE"
  <2>1. t = [s EXCEPT !.resp = "ERROR"]
    BY <1>3 DEF S!VemlInit, S!Reply
  <2>2. /\ t \in VemlDriver /\ t.resp = "ERROR" /\ t.state = s.state /\ t.read = s.read
        /\ t.fresh = s.fresh
    BY <1>1, <2>1 DEF VemlDriver, ChipSays
  <2>3. VemlI(t, O, K, B, N, h)
    BY <2>2 DEF VemlI
  <2> QED BY <2>2, <2>3 DEF Asked, ChipI
<1>4. CASE s.state # "DONE" /\ ~(s.state = "READING" /\ ~late)
  <2>1. PICK u : u = [s EXCEPT !.state = "READING", !.fresh = {}]
    OBVIOUS
  <2>1a. PICK gain \in 0..3, int \in 2..5 : gain = 0 /\ int = 2
    OBVIOUS
  <2>2. PICK v : gain = 0 /\ int = 2 /\ v = [u EXCEPT !.gain = gain, !.int = int]
    BY <2>1a
  <2>3. PICK said \in ChipSays : said = IF fine THEN "SUCCESS" ELSE "ERROR"
    BY DEF ChipSays
  <2>4. t = [v EXCEPT !.resp = said]
    BY <1>4, <2>1, <2>2, <2>3 DEF S!VemlInit, S!Reply, S!ResetCtx
  <2>5. u \in VemlDriver /\ u.state = "READING" /\ u.read = s.read
    BY <1>1, <2>1 DEF VemlDriver
  <2>6. v \in VemlDriver /\ v.state = "READING" /\ v.read = s.read
    BY <2>2, <2>5 DEF VemlDriver
  <2>7. t \in VemlDriver /\ t.state = "READING" /\ t.read = s.read /\ t.resp = said
    BY <2>4, <2>6 DEF VemlDriver
  <2>8. ASSUME NEW P, NEW Q, P \cup Q # {} \/ "i2c" \in h
        PROVE  VemlI(t, P, Q, B \cup {n}, N, h) /\ VemlI(t, P, Q, B, N, h)
    BY <1>1, <2>7, <2>8 DEF VemlI
  <2>9. O \cup (K \cup {n}) # {} /\ (O \cup {n}) \cup K # {} /\ (said # "SUCCESS" => "i2c" \in h)
    BY <2>3
  <2>10. said = "SUCCESS" => /\ VemlI(t, O \cup {n}, K, B \cup {n}, N, h)
                             /\ VemlI(t, O, K \cup {n}, B \cup {n}, N, h)
    BY <2>8, <2>9
  <2>11. said # "SUCCESS" => VemlI(t, O, K, B, N, h)
    BY <2>8, <2>9
  <2> QED BY <2>7, <2>10, <2>11 DEF Asked, ChipI
<1> QED BY <1>2, <1>3, <1>4

LEMMA DsAsked ==
  ASSUME NEW s, NEW O, NEW K, NEW B, NEW N, NEW h, DsI(s, O, K, B, N, h),
         O \subseteq N, K \subseteq N, B \subseteq N, NEW n \in N,
         NEW fine \in BOOLEAN, NEW t, t = S!DsInit(s, fine)
  PROVE  Asked(s, O, K, B, N, h, n, t)
<1>1. s \in DsDriver
  BY DEF DsI
<1>2. CASE fine
  <2>1. PICK u : u = [s EXCEPT !.converting = TRUE, !.fresh = {}]
    OBVIOUS
  <2>2. u \in DsDriver /\ u.converting /\ u.read = s.read
    BY <1>1, <2>1 DEF DsDriver
  <2>3. t = [u EXCEPT !.resp = "SUCCESS"]
    BY <1>2, <2>1 DEF S!DsInit, S!Reply
  <2>4. t \in DsDriver /\ t.converting /\ t.read = s.read /\ t.resp = "SUCCESS"
    BY <2>2, <2>3 DEF DsDriver, ChipSays
  <2>5. \A P, Q : DsI(t, P, Q, B \cup {n}, N, h)
    BY <2>4 DEF DsI
  <2> QED BY <2>4, <2>5 DEF Asked, ChipI
<1>3. CASE ~fine
  <2>1. t = [s EXCEPT !.resp = "ERROR"]
    BY <1>3 DEF S!DsInit, S!Reply
  <2>2. /\ t \in DsDriver /\ t.converting = s.converting /\ t.fresh = s.fresh
        /\ t.read = s.read /\ t.resp = "ERROR"
    BY <1>1, <2>1 DEF DsDriver, ChipSays
  <2>3. DsI(t, O, K, B, N, h)
    BY <2>2 DEF DsI
  <2> QED BY <2>2, <2>3 DEF Asked, ChipI
<1> QED BY <1>2, <1>3

LEMMA SenStarted ==
  ASSUME NEW s \in SenDriver, NEW fine \in BOOLEAN, NEW t, t = S!SenxxInit(s, fine)
  PROVE  t \in SenDriver /\ t.read = s.read
BY DEF S!SenxxInit, SenDriver

LEMMA SenAsked ==
  ASSUME NEW s, NEW O, NEW K, NEW B, NEW N, NEW h, SenI(s, O, K, B, N, h),
         O \subseteq N, K \subseteq N, B \subseteq N, NEW n \in N,
         NEW fine \in BOOLEAN, NEW t, t = S!SenStartCb(s, fine, TRUE)
  PROVE  Asked(s, O, K, B, N, h, n, t)
<1>1. s \in SenDriver
  BY DEF SenI
<1>2. PICK u : u = IF ~s.active THEN S!SenxxInit(s, fine) ELSE s
  OBVIOUS
<1>3. u \in SenDriver /\ u.read = s.read
  BY <1>1, <1>2, SenStarted
<1>4. PICK said \in ChipSays : said = IF u.active THEN "SUCCESS" ELSE "ERROR"
  BY DEF ChipSays
<1>5. t = [u EXCEPT !.resp = said]
  BY <1>2, <1>4 DEF S!SenStartCb, S!Reply
<1>6. t \in SenDriver /\ t.read = s.read
  BY <1>3, <1>5 DEF SenDriver
<1>7. \A P, Q, C : SenI(t, P, Q, C, N, h)
  BY <1>6 DEF SenI
<1> QED BY <1>7 DEF Asked, ChipI

LEMMA RsAsked ==
  ASSUME NEW s, NEW O, NEW K, NEW B, NEW N, NEW h, RsI(s, O, K, B, N, h),
         O \subseteq N, K \subseteq N, B \subseteq N, NEW n \in N, n \notin B,
         NEW t, t = S!RsInit(s)
  PROVE  Asked(s, O, K, B, N, h, n, t)
<1>1. s \in RsDriver
  BY DEF RsI
<1>2. PICK old : old = [i \in DOMAIN s.line |-> "old"]
  OBVIOUS
<1>3. old \in Seq({"old", "new"})
  BY <1>1, <1>2 DEF RsDriver
<1>4. PICK line : line = Append(old, "new")
  OBVIOUS
<1>5. line \in Seq({"old", "new"}) /\ line # <<>> /\ line[Len(line)] = "new"
  BY <1>3, <1>4
<1>6. PICK stored \in {"none", "old", "new"} : stored = IF s.stored = "none" THEN "none" ELSE "old"
  OBVIOUS
<1>7. t = [s EXCEPT !.line = line, !.stored = stored, !.resp = "SUCCESS"]
  BY <1>1, <1>2, <1>4, <1>6 DEF S!RsInit, S!Reply, S!NoMsg, RsDriver
<1>8. /\ t \in RsDriver /\ t.line = line /\ t.resp = "SUCCESS" /\ t.read = s.read
  BY <1>1, <1>5, <1>7 DEF RsDriver, ChipSays
<1>9. ASSUME NEW P, NEW Q, P \cup Q = O \cup K \cup {n},
             O \cap K = {} /\ n \notin O \cup K => P \cap Q = {}
      PROVE  RsI(t, P, Q, B \cup {n}, N, h)
  <2>1. ASSUME "slow" \notin h
        PROVE  Apart(P, Q, B \cup {n}) /\ t.read # "old"
    <3>1. Apart(O, K, B) /\ s.read # "old"
      BY <2>1 DEF RsI
    <3>2. n \notin O \cup K
      BY <3>1 DEF Apart
    <3>3. P \cap Q = {} /\ P \cup Q \subseteq B \cup {n}
      BY <1>9, <3>1, <3>2 DEF Apart
    <3> QED BY <1>8, <3>1, <3>3 DEF Apart
  <2> QED BY <1>5, <1>8, <2>1 DEF RsI
<1>10. RsI(t, O \cup {n}, K, B \cup {n}, N, h)
  <2>1. PICK P : P = O \cup {n}
    OBVIOUS
  <2> QED BY <1>9, <2>1
<1>11. RsI(t, O, K \cup {n}, B \cup {n}, N, h)
  <2>1. PICK P : P = K \cup {n}
    OBVIOUS
  <2> QED BY <1>9, <2>1
<1> QED BY <1>8, <1>10, <1>11 DEF Asked, ChipI

LEMMA ChipAsked ==
  ASSUME NEW s, NEW O, NEW K, NEW B, NEW N, NEW h, ChipI(s, O, K, B, N, h),
         NEW n \in N, n \notin B, NEW fine \in BOOLEAN, ~fine => "i2c" \in h,
         NEW late \in BOOLEAN, late => "slow" \in h \/ "i2c" \in h,
         NEW t, t = S!InitCb(s, n, fine, late)
  PROVE  Asked(s, O, K, B, N, h, n, t) /\ (s.kind = "hpm" => t.ref = s.ref + 1)
<1>1. O \subseteq N /\ K \subseteq N /\ B \subseteq N
  BY DEF ChipI
<1>2. CASE HpmI(s, O, K, B, N, h)
  <2>1. s.kind = "hpm"
    BY <1>2, ChipKinds DEF HpmI
  <2>2. t = S!HpmInit(s, n)
    BY <2>1 DEF S!InitCb
  <2> QED BY <1>1, <1>2, <2>2, HpmAsked
<1>3. CASE VemlI(s, O, K, B, N, h)
  <2>1. s.kind = "veml"
    BY <1>3, ChipKinds DEF VemlI
  <2>2. t = S!VemlInit(s, fine, late)
    BY <2>1 DEF S!InitCb
  <2> QED BY <1>1, <1>3, <2>1, <2>2, VemlAsked
<1>4. CASE DsI(s, O, K, B, N, h)
  <2>1. s.kind = "ds"
    BY <1>4, ChipKinds DEF DsI
  <2>2. t = S!DsInit(s, fine)
    BY <2>1 DEF S!InitCb
  <2> QED BY <1>1, <1>4, <2>1, <2>2, DsAsked
<1>5. CASE SenI(s, O, K, B, N, h)
  <2>1. s.kind = "sen"
    BY <1>5, ChipKinds DEF SenI
  <2>2. t = S!SenStartCb(s, fine, TRUE)
    BY <2>1 DEF S!InitCb
  <2> QED BY <1>1, <1>5, <2>1, <2>2, SenAsked
<1>6. CASE RsI(s, O, K, B, N, h)
  <2>1. s.kind = "rs"
    BY <1>6, ChipKinds DEF RsI
  <2>2. t = S!RsInit(s)
    BY <2>1 DEF S!InitCb
  <2> QED BY <1>1, <1>6, <2>1, <2>2, RsAsked
<1> QED BY <1>2, <1>3, <1>4, <1>5, <1>6 DEF ChipI

-----------------------------------------------------------------------------
\* A reading: a driver is asked for that of n.
Got(s, O, K, B, N, h, n, t) ==
    /\ Ripe(t) \/ "slow" \in h
    /\ t.resp # "BUSY" => /\ n \in O => ChipI(t, O \ {n}, K, B \ {n}, N, h)
                          /\ K = {n} => ChipI(t, O, {}, B \ {n}, N, h)
    /\ t.resp = "BUSY" => ChipI(t, O, K, B \ {n}, N, h)

LEMMA ApartLess ==
  ASSUME NEW O, NEW K, NEW B, Apart(O, K, B), NEW n
  PROVE  /\ n \in O => Apart(O \ {n}, K, B \ {n})
         /\ K = {n} => Apart(O, {}, B \ {n})
BY DEF Apart

\* What Got asks, when it is true of whatever of n is left.
LEMMA GotAnyway ==
  ASSUME NEW s, NEW O, NEW K, NEW B, NEW N, NEW h, ChipI(s, O, K, B, N, h),
         NEW n, NEW t, Ripe(t) \/ "slow" \in h,
         \A P, Q : /\ P \subseteq N /\ Q \subseteq N /\ P \cup Q \subseteq O \cup K
                   /\ t.resp = "BUSY" => P = O /\ Q = K
                   => ChipI(t, P, Q, B \ {n}, N, h)
  PROVE  Got(s, O, K, B, N, h, n, t)
<1>1. O \subseteq N /\ K \subseteq N
  BY DEF ChipI
<1>2. PICK P : P = O \ {n}
  OBVIOUS
<1>3. PICK Q : Q = {}
  OBVIOUS
<1>4. t.resp # "BUSY" => ChipI(t, P, K, B \ {n}, N, h) /\ ChipI(t, O, Q, B \ {n}, N, h)
  BY <1>1, <1>2, <1>3
<1>5. t.resp = "BUSY" => ChipI(t, O, K, B \ {n}, N, h)
  BY <1>1
<1> QED BY <1>2, <1>3, <1>4, <1>5 DEF Got

LEMMA HpmGot ==
  ASSUME NEW s, NEW O, NEW K, NEW B, NEW N, NEW h, HpmI(s, O, K, B, N, h),
         O \subseteq N, K \subseteq N, B \subseteq N, NEW n \in O \cup K,
         Ripe(s) \/ "slow" \in h, NEW t, t = S!HpmGet(s, n)
  PROVE  Got(s, O, K, B, N, h, n, t)
<1>1. s \in HpmDriver /\ s.kind = "hpm"
  BY ChipKinds DEF HpmI
<1>2. PICK valid \in BOOLEAN : valid = S!HpmIsValidNow(s)
  BY <1>1 DEF S!HpmIsValidNow, HpmDriver
<1>3. PICK now : now = [s EXCEPT !.valid = valid]
  OBVIOUS
<1>4. /\ now \in HpmDriver /\ now.valid = valid /\ now.age = s.age /\ now.fresh = s.fresh
      /\ now.read = s.read /\ now.ref = s.ref /\ now.uart = s.uart /\ now.on = s.on
  BY <1>1, <1>3 DEF HpmDriver
<1>5. t = CASE valid -> S!Give(now, n, now.fresh)
            [] ~valid /\ now.age # "late" -> S!Reply(now, "BUSY")
            [] OTHER -> S!Reply(S!HpmEnable(now, FALSE), "ERROR")
  BY <1>1, <1>2, <1>3, <1>4 DEF S!HpmGet
<1>6. PICK read \in ChipReads : read = IF n \in now.fresh /\ now.read # "old" THEN "new" ELSE "old"
  BY DEF ChipReads
<1>7. valid => t = [now EXCEPT !.resp = "SUCCESS", !.read = read]
  BY <1>4, <1>5, <1>6 DEF S!Give, HpmDriver
<1>8. valid => /\ t \in HpmDriver /\ t.age = s.age /\ t.read = read /\ t.valid /\ t.fresh = s.fresh
               /\ t.ref = s.ref /\ t.uart = s.uart /\ t.on = s.on /\ t.resp = "SUCCESS"
  BY <1>4, <1>7 DEF HpmDriver, ChipSays
<1>9. t \in HpmDriver /\ t.age = s.age
  <2>1. CASE valid
    BY <1>8, <2>1
  <2>2. CASE ~valid /\ now.age # "late"
    <3>1. t = [now EXCEPT !.resp = "BUSY"]
      BY <1>5, <2>2 DEF S!Reply
    <3> QED BY <1>4, <3>1 DEF HpmDriver, ChipSays
  <2>3. CASE ~valid /\ now.age = "late"
    <3>1. now.ref \in Nat
      BY <1>4 DEF HpmDriver
    <3>2. PICK ref \in Nat : ref = IF now.ref = 0 THEN 0 ELSE now.ref - 1
      BY <3>1
    <3>3. PICK off : off = [now EXCEPT !.on = FALSE, !.ref = ref]
      OBVIOUS
    <3>4. off = S!HpmEnable(now, FALSE)
      BY <1>4, <3>2, <3>3 DEF S!HpmEnable, HpmDriver
    <3>5. off \in HpmDriver /\ off.age = s.age
      BY <1>4, <3>3 DEF HpmDriver
    <3>6. t = [off EXCEPT !.resp = "ERROR"]
      BY <1>5, <2>3, <3>4 DEF S!Reply
    <3> QED BY <3>5, <3>6 DEF HpmDriver, ChipSays
  <2> QED BY <1>2, <2>1, <2>2, <2>3
<1>10. t.kind = "hpm"
  BY <1>9, ChipKinds
<1>11. Ripe(t) \/ "slow" \in h
  BY <1>1, <1>9, <1>10 DEF Ripe
<1>12. CASE "slow" \in h
  <2>1. \A P, Q : HpmI(t, P, Q, B \ {n}, N, h)
    BY <1>9, <1>12 DEF HpmI
  <2>2. ChipI(s, O, K, B, N, h)
    BY DEF ChipI
  <2> QED BY <1>11, <2>1, <2>2, GotAnyway DEF ChipI
<1>13. CASE "slow" \notin h
  <2>1. s.age # "late" /\ s.age # "young"
    BY <1>1, <1>13 DEF HpmI, Ripe
  <2>2. s.age = "ripe"
    BY <1>1, <2>1 DEF HpmDriver
  <2>3. n \in s.fresh /\ s.valid /\ s.read # "old" /\ (s.uart => s.on) /\ ~s.uart
    BY <1>13, <2>2 DEF HpmI
  <2>4. valid
    BY <1>2, <2>2, <2>3 DEF S!HpmIsValidNow
  <2>5. read # "old"
    BY <1>4, <1>6, <2>3
  <2>6. ASSUME NEW P, NEW Q, P \cup Q \subseteq O \cup K, Apart(P, Q, B \ {n})
        PROVE  HpmI(t, P, Q, B \ {n}, N, h)
    <3>1. \A m \in P \cup Q : m \in t.fresh /\ t.valid
      BY <1>8, <1>13, <2>2, <2>4, <2>6 DEF HpmI
    <3>2. "cut" \notin h /\ (\A l, m \in N : l = m) => t.ref = 0
      BY <1>8, <1>13, <2>2, <2>4 DEF HpmI
    <3>3. t.age = "ripe" /\ t.read # "old" /\ ~t.uart
      BY <1>8, <2>2, <2>3, <2>4, <2>5
    <3>4. N \subseteq S!HpmNames
      BY DEF HpmI
    <3> QED BY <1>9, <2>6, <3>1, <3>2, <3>3, <3>4 DEF HpmI
  <2>7. Apart(O, K, B)
    BY <1>13 DEF HpmI
  <2>8. n \in O => HpmI(t, O \ {n}, K, B \ {n}, N, h)
    <3>1. PICK P : P = O \ {n}
      OBVIOUS
    <3> QED BY <2>6, <2>7, <3>1, ApartLess
  <2>9. K = {n} => HpmI(t, O, {}, B \ {n}, N, h)
    <3>1. PICK Q : Q = {}
      OBVIOUS
    <3> QED BY <2>6, <2>7, <3>1, ApartLess
  <2>10. t.resp = "SUCCESS"
    BY <1>8, <2>4
  <2> QED BY <1>11, <2>8, <2>9, <2>10 DEF Got, ChipI
<1> QED BY <1>12, <1>13

LEMMA VemlGot ==
  ASSUME NEW s, NEW O, NEW K, NEW B, NEW N, NEW h, VemlI(s, O, K, B, N, h),
         O \subseteq N, K \subseteq N, B \subseteq N, NEW n \in O \cup K,
         NEW late \in BOOLEAN, late => "slow" \in h \/ "i2c" \in h,
         NEW t, t = S!VemlGet(s, late)
  PROVE  Got(s, O, K, B, N, h, n, t)
<1>1. s \in VemlDriver /\ s.read # "old"
  BY DEF VemlI
<1>2. /\ t \in VemlDriver /\ t.read # "old"
      /\ t.state = "DONE" => t.fresh = {S!Light}
      /\ t.state = "OFF" \/ (t.state = s.state /\ t.resp = "BUSY") \/ "slow" \in h \/ "i2c" \in h
  <2>1. CASE s.state = "OFF"
    <3>1. t = [s EXCEPT !.resp = "ERROR"]
      BY <2>1 DEF S!VemlGet, S!Reply
    <3> QED BY <1>1, <2>1, <3>1 DEF VemlDriver, ChipSays
  <2>2. CASE s.state = "READING"
    <3>1. PICK said \in ChipSays : said = IF late THEN "ERROR" ELSE "BUSY"
      BY DEF ChipSays
    <3>2. t = [s EXCEPT !.resp = said]
      BY <2>2, <3>1 DEF S!VemlGet, S!Reply
    <3>3. t \in VemlDriver /\ t.read # "old" /\ t.state = "READING" /\ t.resp = said
      BY <1>1, <2>2, <3>2 DEF VemlDriver
    <3> QED BY <2>2, <3>1, <3>3
  <2>3. CASE s.state = "DONE" /\ ~s.valid
    <3>1. t = [s EXCEPT !.state = "OFF", !.resp = "ERROR"]
      BY <2>3 DEF S!VemlGet, S!Reply
    <3> QED BY <1>1, <3>1 DEF VemlDriver, ChipSays
  <2>4. CASE s.state = "DONE" /\ s.valid
    <3>1. PICK u : u = [s EXCEPT !.state = "OFF", !.valid = FALSE]
      OBVIOUS
    <3>2. u \in VemlDriver /\ u.state = "OFF" /\ u.read = s.read
      BY <1>1, <3>1 DEF VemlDriver
    <3>3. t = S!Give(u, S!Light, s.fresh)
      BY <2>4, <3>1 DEF S!VemlGet
    <3>4. S!Light \in s.fresh
      BY <2>4 DEF VemlI
    <3>5. t = [u EXCEPT !.resp = "SUCCESS", !.read = "new"]
      BY <1>1, <3>2, <3>3, <3>4 DEF S!Give, VemlDriver
    <3> QED BY <3>2, <3>5 DEF VemlDriver, ChipSays, ChipReads
  <2> QED BY <1>1, <2>1, <2>2, <2>3, <2>4 DEF VemlDriver
<1>3. t.kind = "veml"
  BY <1>2, ChipKinds
<1>4. ASSUME NEW P, NEW Q, t.resp = "BUSY" => P = O /\ Q = K
      PROVE  VemlI(t, P, Q, B \ {n}, N, h)
  <2>1. N \subseteq {S!Light}
    BY DEF VemlI
  <2>2. {"slow", "cut", "i2c"} \cap h = {} => (t.state # "OFF" => P \cup Q # {})
    BY <1>2, <1>4
  <2> QED BY <1>2, <2>1, <2>2 DEF VemlI
<1>5. Ripe(t)
  BY <1>3 DEF Ripe
<1>6. ChipI(s, O, K, B, N, h)
  BY DEF ChipI
<1> QED BY <1>4, <1>5, <1>6, GotAnyway DEF ChipI

LEMMA DsGot ==
  ASSUME NEW s, NEW O, NEW K, NEW B, NEW N, NEW h, DsI(s, O, K, B, N, h),
         O \subseteq N, K \subseteq N, B \subseteq N, NEW n \in O \cup K,
         Ripe(s) \/ "slow" \in h, NEW fine \in BOOLEAN, NEW t, t = S!DsCollect(s, fine)
  PROVE  Got(s, O, K, B, N, h, n, t)
<1>1. s \in DsDriver /\ s.kind = "ds"
  BY ChipKinds DEF DsI
<1>2. PICK read \in ChipReads : read = IF S!Probe \in s.fresh /\ s.read # "old" THEN "new" ELSE "old"
  BY DEF ChipReads
<1>3. /\ t \in DsDriver /\ t.converting = s.converting /\ t.fresh = s.fresh
      /\ t.read \in {read, s.read}
  <2>1. CASE fine
    <3>1. t = [s EXCEPT !.resp = "SUCCESS", !.read = read]
      BY <1>1, <1>2, <2>1 DEF S!DsCollect, S!Give, DsDriver
    <3> QED BY <1>1, <3>1 DEF DsDriver, ChipSays
  <2>2. CASE ~fine
    <3>1. t = [s EXCEPT !.resp = "ERROR"]
      BY <2>2 DEF S!DsCollect, S!Reply
    <3> QED BY <1>1, <3>1 DEF DsDriver, ChipSays
  <2> QED BY <2>1, <2>2
<1>4. "slow" \notin h => t.read # "old"
  <2>1. SUFFICES ASSUME "slow" \notin h PROVE read # "old" /\ s.read # "old"
    BY <1>3
  <2>2. s.read # "old" /\ (s.converting \/ s.fresh = {S!Probe})
    BY <2>1 DEF DsI
  <2>3. ~s.converting
    BY <1>1, <2>1 DEF Ripe
  <2> QED BY <1>2, <2>2, <2>3
<1>5. t.kind = "ds"
  BY <1>3, ChipKinds
<1>6. Ripe(t) \/ "slow" \in h
  BY <1>1, <1>3, <1>5 DEF Ripe
<1>7. ASSUME NEW P, NEW Q, P \cup Q \subseteq O \cup K
      PROVE  DsI(t, P, Q, B \ {n}, N, h)
  BY <1>3, <1>4, <1>7 DEF DsI
<1>8. ChipI(s, O, K, B, N, h)
  BY DEF ChipI
<1> QED BY <1>6, <1>7, <1>8, GotAnyway DEF ChipI

LEMMA SenGot ==
  ASSUME NEW s, NEW O, NEW K, NEW B, NEW N, NEW h, SenI(s, O, K, B, N, h),
         O \subseteq N, K \subseteq N, B \subseteq N, NEW n \in O \cup K,
         Ripe(s) \/ "slow" \in h, NEW t, t = S!SenCollect(s, n)
  PROVE  Got(s, O, K, B, N, h, n, t)
<1>1. s \in SenDriver /\ s.kind = "sen" /\ n \in S!SenNames
  BY ChipKinds DEF SenI
<1>2. PICK read \in ChipReads : read = IF n \in s.fresh /\ s.read # "old" THEN "new" ELSE "old"
  BY DEF ChipReads
<1>3. /\ t \in SenDriver /\ t.active = s.active /\ t.fresh = s.fresh
      /\ t.read = IF s.active THEN read ELSE s.read
  <2>1. CASE s.active
    <3>1. t = [s EXCEPT !.resp = "SUCCESS", !.read = read]
      BY <1>1, <1>2, <2>1 DEF S!SenCollect, S!Give, SenDriver
    <3>2. t \in SenDriver /\ t.active = s.active /\ t.fresh = s.fresh /\ t.read = read
      BY <1>1, <3>1 DEF SenDriver, ChipSays
    <3> QED BY <2>1, <3>2
  <2>2. CASE ~s.active
    <3>1. t = [s EXCEPT !.resp = "ERROR"]
      BY <2>2 DEF S!SenCollect, S!Reply
    <3>2. t \in SenDriver /\ t.active = s.active /\ t.fresh = s.fresh /\ t.read = s.read
      BY <1>1, <3>1 DEF SenDriver, ChipSays
    <3> QED BY <2>2, <3>2
  <2> QED BY <2>1, <2>2
<1>4. "slow" \notin h => t.read # "old"
  <2>1. SUFFICES ASSUME "slow" \notin h, s.active PROVE read # "old"
    BY <1>3 DEF SenI
  <2>2. s.read # "old"
    BY <2>1 DEF SenI
  <2>3. s.fresh = S!SenNames
    BY <1>1, <2>1 DEF Ripe, SenDriver
  <2> QED BY <1>1, <1>2, <2>2, <2>3
<1>5. t.kind = "sen"
  BY <1>3, ChipKinds
<1>6. Ripe(t) \/ "slow" \in h
  BY <1>1, <1>3, <1>5 DEF Ripe
<1>7. \A P, Q : SenI(t, P, Q, B \ {n}, N, h)
  BY <1>3, <1>4 DEF SenI
<1>8. ChipI(s, O, K, B, N, h)
  BY DEF ChipI
<1> QED BY <1>6, <1>7, <1>8, GotAnyway DEF ChipI

LEMMA RsGot ==
  ASSUME NEW s, NEW O, NEW K, NEW B, NEW N, NEW h, RsI(s, O, K, B, N, h),
         O \subseteq N, K \subseteq N, B \subseteq N, NEW n \in O \cup K,
         Ripe(s) \/ "slow" \in h, NEW t, t = S!RsCollect(s)
  PROVE  Got(s, O, K, B, N, h, n, t)
<1>1. s \in RsDriver /\ s.kind = "rs"
  BY ChipKinds DEF RsI
<1>2. PICK u : u = [s EXCEPT !.stored = "none", !.errored = FALSE]
  OBVIOUS
<1>3. u \in RsDriver /\ u.line = s.line /\ u.read = s.read
  BY <1>1, <1>2 DEF RsDriver
<1>4. /\ t \in RsDriver /\ t.line = s.line /\ t.resp # "BUSY"
      /\ t.read = IF s.errored \/ s.stored = "none" THEN s.read ELSE s.stored
  <2>1. CASE s.errored \/ s.stored = "none"
    <3>1. t = [u EXCEPT !.resp = "ERROR"]
      BY <1>2, <2>1 DEF S!RsCollect, S!Reply, S!NoMsg
    <3>2. t \in RsDriver /\ t.line = s.line /\ t.resp = "ERROR" /\ t.read = s.read
      BY <1>3, <3>1 DEF RsDriver, ChipSays
    <3> QED BY <2>1, <3>2
  <2>2. CASE ~(s.errored \/ s.stored = "none")
    <3>1. t = [u EXCEPT !.resp = "SUCCESS", !.read = s.stored]
      BY <1>2, <2>2 DEF S!RsCollect, S!NoMsg
    <3>2. s.stored \in ChipReads
      BY <1>1 DEF RsDriver, ChipReads
    <3>3. t \in RsDriver /\ t.line = s.line /\ t.resp = "SUCCESS" /\ t.read = s.stored
      BY <1>3, <3>1, <3>2 DEF RsDriver, ChipSays
    <3> QED BY <2>2, <3>3
  <2> QED BY <2>1, <2>2
<1>5. t.kind = "rs"
  BY <1>4, ChipKinds
<1>6. Ripe(t) \/ "slow" \in h
  BY <1>1, <1>4, <1>5 DEF Ripe
<1>7. CASE "slow" \in h
  <2>1. \A P, Q : RsI(t, P, Q, B \ {n}, N, h)
    BY <1>4, <1>7 DEF RsI
  <2>2. ChipI(s, O, K, B, N, h)
    BY DEF ChipI
  <2> QED BY <1>6, <2>1, <2>2, GotAnyway DEF ChipI
<1>8. CASE "slow" \notin h
  <2>1. Apart(O, K, B) /\ s.read # "old" /\ s.line = <<>>
    BY <1>1, <1>8 DEF RsI, Ripe
  <2>2. s.errored \/ s.stored = "new"
    BY <1>8, <2>1 DEF RsI
  <2>3. t.read # "old"
    BY <1>4, <2>1, <2>2
  <2>4. \A l, m \in N : l = m
    BY DEF RsI
  <2>5. ASSUME NEW P, NEW Q, P \cup Q = {}, Apart(P, Q, B \ {n})
        PROVE  RsI(t, P, Q, B \ {n}, N, h)
    BY <1>4, <2>3, <2>5 DEF RsI
  <2>6. n \in O => RsI(t, O \ {n}, K, B \ {n}, N, h)
    <3>1. PICK P : P = O \ {n}
      OBVIOUS
    <3>2. n \in O => P \cup K = {}
      BY <2>1, <2>4, <3>1 DEF Apart
    <3> QED BY <2>1, <2>5, <3>1, <3>2, ApartLess
  <2>7. K = {n} => RsI(t, O, {}, B \ {n}, N, h)
    <3>1. PICK Q : Q = {}
      OBVIOUS
    <3>2. K = {n} => O \cup Q = {}
      BY <2>1, <2>4, <3>1 DEF Apart
    <3> QED BY <2>1, <2>5, <3>1, <3>2, ApartLess
  <2> QED BY <1>4, <1>6, <2>6, <2>7 DEF Got, ChipI
<1> QED BY <1>7, <1>8

LEMMA ChipGot ==
  ASSUME NEW s, NEW O, NEW K, NEW B, NEW N, NEW h, ChipI(s, O, K, B, N, h),
         NEW n \in O \cup K, Ripe(s) \/ "slow" \in h, NEW fine \in BOOLEAN,
         NEW late \in BOOLEAN, late => "slow" \in h \/ "i2c" \in h,
         NEW t, t = S!GetCb(s, n, fine, late)
  PROVE  Got(s, O, K, B, N, h, n, t)
<1>1. O \subseteq N /\ K \subseteq N /\ B \subseteq N
  BY DEF ChipI
<1>2. CASE HpmI(s, O, K, B, N, h)
  <2>1. s.kind = "hpm"
    BY <1>2, ChipKinds DEF HpmI
  <2>2. t = S!HpmGet(s, n)
    BY <2>1 DEF S!GetCb
  <2> QED BY <1>1, <1>2, <2>2, HpmGot
<1>3. CASE VemlI(s, O, K, B, N, h)
  <2>1. s.kind = "veml"
    BY <1>3, ChipKinds DEF VemlI
  <2>2. t = S!VemlGet(s, late)
    BY <2>1 DEF S!GetCb
  <2> QED BY <1>1, <1>3, <2>2, VemlGot
<1>4. CASE DsI(s, O, K, B, N, h)
  <2>1. s.kind = "ds"
    BY <1>4, ChipKinds DEF DsI
  <2>2. t = S!DsCollect(s, fine)
    BY <2>1 DEF S!GetCb
  <2> QED BY <1>1, <1>4, <2>2, DsGot
<1>5. CASE SenI(s, O, K, B, N, h)
  <2>1. s.kind = "sen"
    BY <1>5, ChipKinds DEF SenI
  <2>2. t = S!SenCollect(s, n)
    BY <2>1 DEF S!GetCb
  <2> QED BY <1>1, <1>5, <2>2, SenGot
<1>6. CASE RsI(s, O, K, B, N, h)
  <2>1. s.kind = "rs"
    BY <1>6, ChipKinds DEF RsI
  <2>2. t = S!RsCollect(s)
    BY <2>1 DEF S!GetCb
  <2> QED BY <1>1, <1>6, <2>2, RsGot
<1> QED BY <1>2, <1>3, <1>4, <1>5, <1>6 DEF ChipI
-----------------------------------------------------------------------------
\* What was said and read is taken off.
LEMMA ChipCleaned ==
  ASSUME NEW s, NEW O, NEW K, NEW B, NEW N, NEW h, ChipI(s, O, K, B, N, h), NEW g, h \subseteq g,
         NEW t, t = S!Clean(s)
  PROVE  /\ ChipI(t, O, K, B, N, g) /\ t.kind = s.kind
         /\ Ripe(s) => Ripe(t)
         /\ s.kind = "hpm" => t.ref = s.ref
<1>1. t = [s EXCEPT !.resp = "none", !.read = "none"]
  BY DEF S!Clean
<1>2. CASE HpmI(s, O, K, B, N, h)
  <2>1. s \in HpmDriver /\ s.kind = "hpm"
    BY <1>2, ChipKinds DEF HpmI
  <2>2. /\ t \in HpmDriver /\ t.kind = s.kind /\ t.valid = s.valid /\ t.on = s.on /\ t.ref = s.ref
        /\ t.uart = s.uart /\ t.age = s.age /\ t.fresh = s.fresh /\ t.read = "none"
    BY <1>1, <2>1 DEF HpmDriver, ChipSays, ChipReads
  <2>3. HpmI(t, O, K, B, N, g)
    BY <1>2, <2>2 DEF HpmI
  <2> QED BY <2>1, <2>2, <2>3 DEF ChipI, Ripe
<1>3. CASE VemlI(s, O, K, B, N, h)
  <2>1. s \in VemlDriver /\ s.kind = "veml"
    BY <1>3, ChipKinds DEF VemlI
  <2>2. /\ t \in VemlDriver /\ t.kind = s.kind /\ t.state = s.state
        /\ t.fresh = s.fresh /\ t.read = "none"
    BY <1>1, <2>1 DEF VemlDriver, ChipSays, ChipReads
  <2>3. VemlI(t, O, K, B, N, g)
    BY <1>3, <2>2 DEF VemlI
  <2> QED BY <2>1, <2>2, <2>3 DEF ChipI, Ripe
<1>4. CASE DsI(s, O, K, B, N, h)
  <2>1. s \in DsDriver /\ s.kind = "ds"
    BY <1>4, ChipKinds DEF DsI
  <2>2. /\ t \in DsDriver /\ t.kind = s.kind /\ t.converting = s.converting
        /\ t.fresh = s.fresh /\ t.read = "none"
    BY <1>1, <2>1 DEF DsDriver, ChipSays, ChipReads
  <2>3. DsI(t, O, K, B, N, g)
    BY <1>4, <2>2 DEF DsI
  <2> QED BY <2>1, <2>2, <2>3 DEF ChipI, Ripe
<1>5. CASE SenI(s, O, K, B, N, h)
  <2>1. s \in SenDriver /\ s.kind = "sen"
    BY <1>5, ChipKinds DEF SenI
  <2>2. /\ t \in SenDriver /\ t.kind = s.kind /\ t.active = s.active
        /\ t.fresh = s.fresh /\ t.read = "none"
    BY <1>1, <2>1 DEF SenDriver, ChipSays, ChipReads
  <2>3. SenI(t, O, K, B, N, g)
    BY <1>5, <2>2 DEF SenI
  <2> QED BY <2>1, <2>2, <2>3 DEF ChipI, Ripe
<1>6. CASE RsI(s, O, K, B, N, h)
  <2>1. s \in RsDriver /\ s.kind = "rs"
    BY <1>6, ChipKinds DEF RsI
  <2>2. /\ t \in RsDriver /\ t.kind = s.kind /\ t.line = s.line /\ t.errored = s.errored
        /\ t.stored = s.stored /\ t.read = "none"
    BY <1>1, <2>1 DEF RsDriver, ChipSays, ChipReads
  <2>3. RsI(t, O, K, B, N, g)
    BY <1>6, <2>2 DEF RsI
  <2> QED BY <2>1, <2>2, <2>3 DEF ChipI, Ripe
<1> QED BY <1>2, <1>3, <1>4, <1>5, <1>6 DEF ChipI

\* The samples that were open are cut off.
LEMMA ChipCut ==
  ASSUME NEW s, NEW O, NEW B, NEW N, NEW h, ChipI(s, O, {}, B, N, h),
         O = {} \/ "cut" \in h
  PROVE  ChipI(s, {}, {}, B, N, h)
<1>1. PICK P : P = {}
  OBVIOUS
<1>2. CASE HpmI(s, O, {}, B, N, h)
  <2>1. HpmI(s, P, {}, B, N, h)
    BY <1>1, <1>2 DEF HpmI, Apart
  <2> QED BY <1>1, <2>1 DEF ChipI
<1>3. CASE VemlI(s, O, {}, B, N, h)
  <2>1. VemlI(s, P, {}, B, N, h)
    BY <1>1, <1>3 DEF VemlI
  <2> QED BY <1>1, <2>1 DEF ChipI
<1>4. CASE DsI(s, O, {}, B, N, h)
  <2>1. DsI(s, P, {}, B, N, h)
    BY <1>1, <1>4 DEF DsI
  <2> QED BY <1>1, <2>1 DEF ChipI
<1>5. CASE SenI(s, O, {}, B, N, h)
  <2>1. SenI(s, P, {}, B, N, h)
    BY <1>1, <1>5 DEF SenI
  <2> QED BY <1>1, <2>1 DEF ChipI
<1>6. CASE RsI(s, O, {}, B, N, h)
  <2>1. RsI(s, P, {}, B, N, h)
    BY <1>1, <1>6 DEF RsI, Apart
  <2> QED BY <1>1, <2>1 DEF ChipI
<1> QED BY <1>2, <1>3, <1>4, <1>5, <1>6 DEF ChipI

\* A command gives up.
LEMMA ChipGivenUp ==
  ASSUME NEW s, NEW O, NEW K, NEW B, NEW N, NEW h, ChipI(s, O, K, B, N, h), "slow" \in h, NEW n
  PROVE  ChipI(s, O, {}, B \ {n}, N, h)
<1>1. PICK P : P = {}
  OBVIOUS
<1>2. CASE HpmI(s, O, K, B, N, h)
  <2>1. HpmI(s, O, P, B \ {n}, N, h)
    BY <1>2 DEF HpmI
  <2> QED BY <1>1, <2>1 DEF ChipI
<1>3. CASE VemlI(s, O, K, B, N, h)
  <2>1. VemlI(s, O, P, B \ {n}, N, h)
    BY <1>3 DEF VemlI
  <2> QED BY <1>1, <2>1 DEF ChipI
<1>4. CASE DsI(s, O, K, B, N, h)
  <2>1. DsI(s, O, P, B \ {n}, N, h)
    BY <1>1, <1>4 DEF DsI
  <2> QED BY <1>1, <2>1 DEF ChipI
<1>5. CASE SenI(s, O, K, B, N, h)
  <2>1. SenI(s, O, P, B \ {n}, N, h)
    BY <1>5 DEF SenI
  <2> QED BY <1>1, <2>1 DEF ChipI
<1>6. CASE RsI(s, O, K, B, N, h)
  <2>1. RsI(s, O, P, B \ {n}, N, h)
    BY <1>6 DEF RsI
  <2> QED BY <1>1, <2>1 DEF ChipI
<1> QED BY <1>2, <1>3, <1>4, <1>5, <1>6 DEF ChipI
-----------------------------------------------------------------------------
(* What each chip does by itself.                                          *)

VemlGoesOn(t, O, K, B, N, h, n) ==
    /\ ChipI(t, O, K, B, N, h) /\ t.kind = "veml"
    /\ t.resp = "ERROR" => ChipI(t, O \ {n}, K, B \ {n}, N, h)

LEMMA VemlIterated ==
  ASSUME NEW s, NEW O, NEW K, NEW B, NEW N, NEW h, ChipI(s, O, K, B, N, h), s.kind = "veml",
         NEW fine \in BOOLEAN, NEW bright \in BOOLEAN, NEW late \in BOOLEAN,
         NEW t, t = S!VemlIterate(s, fine, bright, late), NEW n
  PROVE  VemlGoesOn(t, O, K, B, N, h, n)
<1>1. VemlI(s, O, K, B, N, h)
  BY ChipKinds DEF ChipI, HpmI, DsI, SenI, RsI
<1>2. s \in VemlDriver /\ s.read # "old"
  BY <1>1 DEF VemlI
<1>3. /\ t \in VemlDriver /\ t.read = s.read
      /\ t.state = "DONE" => t.fresh = {S!Light}
      /\ t.state = "OFF" \/ (s.state # "OFF" /\ t.resp # "ERROR")
  <2>1. CASE s.state # "READING"
    <3>1. t = [s EXCEPT !.resp = "SUCCESS"]
      BY <2>1 DEF S!VemlIterate, S!Reply
    <3>2. t \in VemlDriver /\ t.state = s.state /\ t.fresh = s.fresh /\ t.read = s.read
          /\ t.resp = "SUCCESS"
      BY <1>2, <3>1 DEF VemlDriver, ChipSays
    <3> QED BY <1>1, <3>2 DEF VemlI
  <2>2. CASE s.state = "READING" /\ (late \/ ~fine)
    <3>1. PICK u : u = [s EXCEPT !.state = "OFF"]
      OBVIOUS
    <3>2. t = [u EXCEPT !.resp = "ERROR"]
      BY <2>2, <3>1 DEF S!VemlIterate, S!VemlOff, S!Reply
    <3> QED BY <1>2, <3>1, <3>2 DEF VemlDriver, ChipSays
  <2>3. CASE s.state = "READING" /\ ~late /\ fine /\ (bright \/ S!AtMost(s))
    <3>1. PICK u : u = [s EXCEPT !.state = "DONE", !.valid = TRUE, !.fresh = {S!Light}]
      OBVIOUS
    <3>2. u \in VemlDriver /\ u.state = "DONE" /\ u.fresh = {S!Light} /\ u.read = s.read
      BY <1>2, <3>1 DEF VemlDriver
    <3>3. t = [u EXCEPT !.resp = "BUSY"]
      BY <2>3, <3>1 DEF S!VemlIterate, S!VemlDone, S!Reply
    <3>4. /\ t \in VemlDriver /\ t.state = "DONE" /\ t.fresh = {S!Light} /\ t.read = s.read
          /\ t.resp = "BUSY"
      BY <3>2, <3>3 DEF VemlDriver, ChipSays
    <3> QED BY <2>3, <3>4
  <2>4. CASE s.state = "READING" /\ ~late /\ fine /\ ~bright /\ ~S!AtMost(s)
    <3>1. s.gain \in 0..3 /\ s.int \in 2..5
      BY <1>2 DEF VemlDriver
    <3>2. Len(S!Gains) = 4 /\ Len(S!IntegrationTimes) = 6
      BY DEF S!Gains, S!IntegrationTimes
    <3>3. ~(s.gain = 3 /\ s.int = 5)
      BY <2>4, <3>1, <3>2 DEF S!AtMost
    <3>4. PICK gain \in 0..3, int \in 2..5 :
              /\ s.gain + 1 < 4 => gain = s.gain + 1 /\ int = s.int
              /\ ~(s.gain + 1 < 4) => gain = 0 /\ int = s.int + 1
      BY <3>1, <3>3
    <3>5. PICK u : u = [s EXCEPT !.gain = gain, !.int = int]
      OBVIOUS
    <3>6. u = S!IncreaseSettings(s)
      <4>1. CASE s.gain + 1 < 4
        <5>1. gain = s.gain + 1 /\ int = s.int
          BY <3>4, <4>1
        <5>2. S!IncreaseSettings(s) = [s EXCEPT !.gain = gain]
          BY <3>2, <4>1, <5>1 DEF S!IncreaseSettings
        <5> QED BY <1>2, <3>5, <5>1, <5>2 DEF VemlDriver
      <4>2. CASE ~(s.gain + 1 < 4)
        <5>1. gain = 0 /\ int = s.int + 1
          BY <3>4, <4>2
        <5> QED BY <3>2, <3>5, <4>2, <5>1 DEF S!IncreaseSettings
      <4> QED BY <4>1, <4>2
    <3>7. u \in VemlDriver /\ u.state = "READING" /\ u.read = s.read
      BY <1>2, <2>4, <3>5 DEF VemlDriver
    <3>8. t = [u EXCEPT !.resp = "BUSY"]
      BY <2>4, <3>6 DEF S!VemlIterate, S!Reply
    <3>9. t \in VemlDriver /\ t.state = "READING" /\ t.read = s.read /\ t.resp = "BUSY"
      BY <3>7, <3>8 DEF VemlDriver, ChipSays
    <3> QED BY <2>4, <3>9
  <2> QED BY <2>1, <2>2, <2>3, <2>4
<1>4. t.kind = "veml"
  BY <1>3, ChipKinds
<1>5. VemlI(t, O, K, B, N, h)
  BY <1>1, <1>2, <1>3 DEF VemlI
<1>6. t.resp = "ERROR" => VemlI(t, O \ {n}, K, B \ {n}, N, h)
  BY <1>1, <1>2, <1>3 DEF VemlI
<1> QED BY <1>4, <1>5, <1>6 DEF ChipI, VemlGoesOn

\* The particulate sensor is turned off by its answer.
TurnedOff(s, t) ==
    /\ t \in HpmDriver /\ t.valid /\ t.fresh = S!HpmNames /\ t.read = s.read
    /\ t.age = (IF s.age = "late" THEN "late" ELSE "ripe")
    /\ s.on => ~t.on /\ ~t.uart /\ t.ref = (IF s.ref = 0 THEN 0 ELSE s.ref - 1)
    /\ ~s.on => ~t.on /\ t.uart = s.uart /\ t.ref = s.ref

LEMMA HpmAnswered ==
  ASSUME NEW s \in HpmDriver, NEW t, t = S!HpmTurnOff(S!HpmIsValid(s))
  PROVE  TurnedOff(s, t)
<1>1. PICK age \in {"late", "ripe"} : age = IF s.age = "late" THEN "late" ELSE "ripe"
  OBVIOUS
<1>2. PICK u : u = [s EXCEPT !.valid = TRUE, !.age = age, !.fresh = S!HpmNames]
  OBVIOUS
<1>3. u = S!HpmIsValid(s)
  BY <1>1, <1>2 DEF S!HpmIsValid, HpmDriver
<1>4. /\ u \in HpmDriver /\ u.valid /\ u.fresh = S!HpmNames /\ u.read = s.read /\ u.age = age
      /\ u.on = s.on /\ u.uart = s.uart /\ u.ref = s.ref
  BY <1>2 DEF HpmDriver
<1>5. CASE s.on
  <2>1. u.ref \in Nat
    BY <1>4 DEF HpmDriver
  <2>2. PICK ref \in Nat : ref = IF u.ref = 0 THEN 0 ELSE u.ref - 1
    BY <2>1
  <2>3. PICK v : v = [u EXCEPT !.on = FALSE, !.ref = ref]
    OBVIOUS
  <2>4. v = S!HpmEnable(u, FALSE)
    BY <1>4, <2>2, <2>3 DEF S!HpmEnable, HpmDriver
  <2>5. /\ v \in HpmDriver /\ v.valid /\ v.fresh = S!HpmNames /\ v.read = s.read /\ v.age = age
        /\ ~v.on /\ v.ref = ref
    BY <1>4, <2>3 DEF HpmDriver
  <2>6. t = [v EXCEPT !.uart = FALSE]
    BY <1>3, <1>4, <1>5, <2>4 DEF S!HpmTurnOff
  <2>7. /\ t \in HpmDriver /\ t.valid /\ t.fresh = S!HpmNames /\ t.read = s.read /\ t.age = age
        /\ ~t.on /\ t.ref = ref /\ ~t.uart
    BY <2>5, <2>6 DEF HpmDriver
  <2> QED BY <1>1, <1>4, <1>5, <2>2, <2>7 DEF TurnedOff
<1>6. CASE ~s.on
  <2>1. t = u
    BY <1>3, <1>4, <1>6 DEF S!HpmTurnOff
  <2> QED BY <1>1, <1>4, <1>6, <2>1 DEF TurnedOff
<1> QED BY <1>5, <1>6 DEF HpmDriver

LEMMA HpmProcessed ==
  ASSUME NEW s, NEW O, NEW K, NEW B, NEW N, NEW h, ChipI(s, O, K, B, N, h), s.kind = "hpm",
         s.uart, NEW packet \in {"long", "short", "bad", "cut"},
         NEW t, t = S!HpmRingProcess(s, packet)
  PROVE  ChipI(t, O, K, B, N, h) /\ t.kind = "hpm" /\ t.ref <= s.ref
<1>1. HpmI(s, O, K, B, N, h)
  BY ChipKinds DEF ChipI, VemlI, DsI, SenI, RsI
<1>2. s \in HpmDriver
  BY <1>1 DEF HpmI
<1>3. s.ref \in Nat
  BY <1>2 DEF HpmDriver
<1>4. ASSUME NEW v, v = S!HpmTurnOff(S!HpmIsValid(s)), NEW w \in HpmDriver,
             w.valid = v.valid, w.fresh = v.fresh, w.read = v.read, w.age = v.age,
             w.on = v.on, w.uart = v.uart, w.ref = v.ref
      PROVE  HpmI(w, O, K, B, N, h) /\ w.ref <= s.ref
  <2>1. /\ v \in HpmDriver /\ v.valid /\ v.fresh = S!HpmNames /\ v.read = s.read
        /\ v.age = (IF s.age = "late" THEN "late" ELSE "ripe")
        /\ s.on => ~v.on /\ ~v.uart /\ v.ref = (IF s.ref = 0 THEN 0 ELSE s.ref - 1)
        /\ ~s.on => ~v.on /\ v.uart = s.uart /\ v.ref = s.ref
    <3>1. TurnedOff(s, v)
      BY <1>2, <1>4, HpmAnswered
    <3> QED BY <3>1 DEF TurnedOff
  <2>2. ASSUME "slow" \notin h
        PROVE  /\ Apart(O, K, B) /\ w.read # "old" /\ ~w.uart
               /\ O \cup K # {} => w.age # "late"
               /\ \A n \in O \cup K : n \in w.fresh /\ w.valid
    <3>1. /\ Apart(O, K, B) /\ s.read # "old" /\ s.on
          /\ O \cup K # {} => s.age # "late"
          /\ O \cup K \subseteq S!HpmNames
      BY <1>1, <2>2 DEF HpmI, ChipI
    <3> QED BY <1>4, <2>1, <3>1
  <2>3. ASSUME "slow" \notin h, "cut" \notin h, \A l, m \in N : l = m
        PROVE  w.ref = 0
    <3>1. s.ref \in {0, 1} /\ s.on
      BY <1>1, <2>3 DEF HpmI
    <3> QED BY <1>4, <2>1, <3>1
  <2>4. HpmI(w, O, K, B, N, h)
    BY <1>1, <1>4, <2>2, <2>3 DEF HpmI
  <2>5. w.ref <= s.ref
    <3>1. w.ref = s.ref \/ w.ref = 0 \/ w.ref = s.ref - 1
      BY <1>2, <1>4, <2>1 DEF HpmDriver
    <3> QED BY <1>3, <3>1
  <2> QED BY <2>4, <2>5
<1>5. HpmI(t, O, K, B, N, h) /\ t.ref <= s.ref
  <2>1. CASE ~s.header /\ packet = "short"
    <3>1. PICK v : v = S!HpmTurnOff(S!HpmIsValid(s))
      OBVIOUS
    <3>2. t = v
      BY <2>1, <3>1 DEF S!HpmRingProcess, S!PartMeasure
    <3>3. t \in HpmDriver
      BY <1>2, <3>1, <3>2, HpmAnswered DEF TurnedOff
    <3> QED BY <1>4, <3>1, <3>2, <3>3
  <2>2. CASE ~s.header /\ packet = "long" /\ s.messages > 2
    <3>1. PICK v : v = S!HpmTurnOff(S!HpmIsValid(s))
      OBVIOUS
    <3>2. v \in HpmDriver
      BY <1>2, <3>1, HpmAnswered DEF TurnedOff
    <3>3. PICK none \in 0..3 : none = 0
      OBVIOUS
    <3>4. t = [v EXCEPT !.messages = none]
      BY <2>2, <3>1, <3>3 DEF S!HpmRingProcess, S!PartMeasureLong
    <3>5. /\ t \in HpmDriver /\ t.valid = v.valid /\ t.fresh = v.fresh /\ t.read = v.read
          /\ t.age = v.age /\ t.on = v.on /\ t.uart = v.uart /\ t.ref = v.ref
      BY <3>2, <3>4 DEF HpmDriver
    <3> QED BY <1>4, <3>1, <3>5
  <2>3. CASE ~s.header /\ packet = "long" /\ ~(s.messages > 2)
    <3>1. s.messages \in 0..3
      BY <1>2 DEF HpmDriver
    <3>2. PICK messages \in 0..3 : messages = s.messages + 1
      BY <2>3, <3>1
    <3>3. PICK fresh \in SUBSET S!HpmNames : fresh = {}
      OBVIOUS
    <3>4. t = [s EXCEPT !.messages = messages, !.fresh = fresh]
      BY <1>2, <2>3, <3>2, <3>3 DEF S!HpmRingProcess, S!PartMeasureLong, HpmDriver
    <3>5. /\ t \in HpmDriver /\ t.valid = s.valid /\ t.read = s.read
          /\ t.age = s.age /\ t.on = s.on /\ t.uart = s.uart /\ t.ref = s.ref
      BY <1>2, <3>4 DEF HpmDriver
    <3>6. "slow" \notin h => \A n \in O \cup K : t.age # "ripe"
      BY <1>1, <3>5 DEF HpmI
    <3>7. HpmI(t, O, K, B, N, h)
      BY <1>1, <3>5, <3>6 DEF HpmI
    <3> QED BY <1>3, <3>5, <3>7
  <2>4. CASE s.header \/ packet \in {"bad", "cut"}
    <3>1. PICK header \in BOOLEAN : header = IF s.header THEN FALSE ELSE packet = "cut"
      BY <1>2 DEF HpmDriver
    <3>2. t = [s EXCEPT !.header = header]
      <4>1. CASE s.header
        BY <3>1, <4>1 DEF S!HpmRingProcess
      <4>2. CASE ~s.header /\ packet = "cut"
        BY <3>1, <4>2 DEF S!HpmRingProcess
      <4>3. CASE ~s.header /\ packet = "bad"
        <5>1. t = s /\ header = s.header
          BY <1>2, <3>1, <4>3 DEF S!HpmRingProcess, HpmDriver
        <5> QED BY <1>2, <5>1 DEF HpmDriver
      <4> QED BY <1>2, <2>4, <4>1, <4>2, <4>3 DEF HpmDriver
    <3>3. /\ t \in HpmDriver /\ t.valid = s.valid /\ t.read = s.read /\ t.fresh = s.fresh
          /\ t.age = s.age /\ t.on = s.on /\ t.uart = s.uart /\ t.ref = s.ref
      BY <1>2, <3>2 DEF HpmDriver
    <3>4. HpmI(t, O, K, B, N, h)
      BY <1>1, <3>3 DEF HpmI
    <3> QED BY <1>3, <3>3, <3>4
  <2> QED BY <1>2, <2>1, <2>2, <2>3, <2>4 DEF HpmDriver
<1>6. t.kind = "hpm"
  BY <1>5, ChipKinds DEF HpmI
<1> QED BY <1>5, <1>6 DEF ChipI

LEMMA HpmAges ==
  ASSUME NEW s, NEW O, NEW K, NEW B, NEW N, NEW h, ChipI(s, O, K, B, N, h), s.kind = "hpm",
         O \cup K # {} => "slow" \in h, NEW t, t = S!HpmPasses(s)
  PROVE  ChipI(t, O, K, B, N, h) /\ t.kind = "hpm" /\ t.ref = s.ref
<1>1. HpmI(s, O, K, B, N, h)
  BY ChipKinds DEF ChipI, VemlI, DsI, SenI, RsI
<1>2. s \in HpmDriver
  BY <1>1 DEF HpmI
<1>3. PICK age \in {"ripe", "late"} : age = IF s.age = "young" THEN "ripe" ELSE "late"
  OBVIOUS
<1>4. t = [s EXCEPT !.age = age]
  BY <1>2, <1>3 DEF S!HpmPasses, HpmDriver
<1>5. /\ t \in HpmDriver /\ t.valid = s.valid /\ t.read = s.read /\ t.fresh = s.fresh
      /\ t.on = s.on /\ t.uart = s.uart /\ t.ref = s.ref
  BY <1>2, <1>4 DEF HpmDriver
<1>6. HpmI(t, O, K, B, N, h)
  BY <1>1, <1>5 DEF HpmI
<1> QED BY <1>5, <1>6, ChipKinds DEF ChipI

LEMMA DsConverts ==
  ASSUME NEW s, NEW O, NEW K, NEW B, NEW N, NEW h, ChipI(s, O, K, B, N, h), s.kind = "ds",
         NEW t, t = S!DsConverted(s)
  PROVE  ChipI(t, O, K, B, N, h) /\ t.kind = "ds"
<1>1. DsI(s, O, K, B, N, h)
  BY ChipKinds DEF ChipI, HpmI, VemlI, SenI, RsI
<1>2. s \in DsDriver
  BY <1>1 DEF DsI
<1>3. t \in DsDriver /\ t.fresh = {S!Probe} /\ t.read = s.read
  BY <1>2 DEF S!DsConverted, DsDriver
<1>4. DsI(t, O, K, B, N, h)
  BY <1>1, <1>3 DEF DsI
<1> QED BY <1>3, <1>4, ChipKinds DEF ChipI

LEMMA SenIterated ==
  ASSUME NEW s, NEW O, NEW K, NEW B, NEW N, NEW h, ChipI(s, O, K, B, N, h), s.kind = "sen",
         NEW fine \in BOOLEAN, NEW warmup \in BOOLEAN, NEW t, t = S!SenxxIterate(s, fine, warmup)
  PROVE  ChipI(t, O, K, B, N, h) /\ t.kind = "sen"
<1>1. SenI(s, O, K, B, N, h)
  BY ChipKinds DEF ChipI, HpmI, VemlI, DsI, RsI
<1>2. s \in SenDriver
  BY <1>1 DEF SenI
<1>3. t \in SenDriver /\ t.read = s.read
  <2>1. CASE s.active /\ fine
    BY <1>2, <2>1 DEF S!SenxxIterate, SenDriver
  <2>2. CASE s.active /\ ~fine
    BY <1>2, <2>2 DEF S!SenxxIterate, SenDriver
  <2>3. CASE ~s.active /\ warmup
    <3>1. t = S!SenxxInit(s, fine)
      BY <2>3 DEF S!SenxxIterate
    <3> QED BY <1>2, <3>1, SenStarted
  <2>4. CASE ~s.active /\ ~warmup
    <3>1. t = s
      BY <2>4 DEF S!SenxxIterate
    <3> QED BY <1>2, <3>1
  <2> QED BY <1>2, <2>1, <2>2, <2>3, <2>4 DEF SenDriver
<1>4. SenI(t, O, K, B, N, h)
  BY <1>1, <1>3 DEF SenI
<1> QED BY <1>3, <1>4, ChipKinds DEF ChipI

LEMMA RsProcessed ==
  ASSUME NEW s, NEW O, NEW K, NEW B, NEW N, NEW h, ChipI(s, O, K, B, N, h), s.kind = "rs",
         s.line # <<>>, NEW t, t = S!RsProcess(s)
  PROVE  ChipI(t, O, K, B, N, h) /\ t.kind = "rs"
<1>1. RsI(s, O, K, B, N, h)
  BY ChipKinds DEF ChipI, HpmI, VemlI, DsI, SenI
<1>2. s \in RsDriver
  BY <1>1 DEF RsI
<1>3. PICK line : line = s.line
  OBVIOUS
<1>4. line \in Seq({"old", "new"}) /\ line # <<>>
  BY <1>2, <1>3 DEF RsDriver
<1>5. PICK rest : rest = Tail(line)
  OBVIOUS
<1>6. PICK head : head = Head(line)
  OBVIOUS
<1>7. rest \in Seq({"old", "new"}) /\ head \in {"old", "new"}
  BY <1>4, <1>5, <1>6
<1>8. line[Len(line)] = "new" => head = "new" \/ (rest # <<>> /\ rest[Len(rest)] = "new")
  <2>1. CASE Len(line) = 1
    BY <1>4, <1>6, <2>1
  <2>2. CASE Len(line) # 1
    <3>0. Len(line) \in Nat /\ Len(line) # 0
      BY <1>4
    <3>1. Len(line) \in Nat /\ Len(line) > 1
      <4>1. \A n \in Nat : n # 0 /\ n # 1 => n > 1
        OBVIOUS
      <4> QED BY <2>2, <3>0, <4>1
    <3>2. Len(rest) = Len(line) - 1 /\ \A i \in 1..Len(rest) : rest[i] = line[i + 1]
      BY <1>4, <1>5
    <3>3. Len(rest) \in 1..Len(rest) /\ Len(rest) + 1 = Len(line)
      BY <3>1, <3>2
    <3>4. rest[Len(rest)] = line[Len(line)]
      BY <3>2, <3>3
    <3>5. rest # <<>>
      BY <3>3
    <3> QED BY <3>4, <3>5
  <2> QED BY <2>1, <2>2
<1>9. PICK u : u = [s EXCEPT !.line = rest]
  OBVIOUS
<1>10. /\ u \in RsDriver /\ u.line = rest /\ u.stored = s.stored /\ u.errored = s.errored
       /\ u.read = s.read
  BY <1>2, <1>7, <1>9 DEF RsDriver
<1>11. u = [s EXCEPT !.line = Tail(@)]
  BY <1>2, <1>3, <1>5, <1>9 DEF RsDriver
<1>12. /\ t \in RsDriver /\ t.line = rest /\ t.read = s.read
       /\ s.errored => t.errored /\ t.stored = s.stored
       /\ ~s.errored => t.stored = head /\ t.errored = (s.stored # "none")
  <2>1. CASE s.errored
    <3>1. t = u
      BY <1>11, <2>1 DEF S!RsProcess
    <3> QED BY <1>10, <2>1, <3>1
  <2>2. CASE ~s.errored
    <3>1. PICK errored \in BOOLEAN : errored = (s.stored # "none")
      OBVIOUS
    <3>2. t = [u EXCEPT !.stored = head, !.errored = errored]
      BY <1>3, <1>6, <1>11, <2>2, <3>1 DEF S!RsProcess, S!NoMsg
    <3>3. /\ t \in RsDriver /\ t.line = rest /\ t.read = s.read
          /\ t.stored = head /\ t.errored = errored
      BY <1>7, <1>10, <3>2 DEF RsDriver
    <3> QED BY <2>2, <3>1, <3>3
  <2> QED BY <2>1, <2>2
<1>13. ASSUME "slow" \notin h, O \cup K # {}
       PROVE  (t.line # <<>> /\ t.line[Len(t.line)] = "new") \/ t.errored \/ t.stored = "new"
  <2>1. \/ s.line # <<>> /\ s.line[Len(s.line)] = "new"
        \/ s.errored \/ s.stored = "new"
    BY <1>1, <1>13 DEF RsI
  <2> QED BY <1>3, <1>8, <1>12, <2>1
<1>14. RsI(t, O, K, B, N, h)
  BY <1>1, <1>12, <1>13 DEF RsI
<1> QED BY <1>12, <1>14, ChipKinds DEF ChipI

-----------------------------------------------------------------------------
(* Humidity and temperature: either of one chip.                           *)

HtuDriver ==
    [kind : {"htu"}, flags : SUBSET S!HtuNames, state : [S!HtuNames -> {"IDLE", "REQ"}],
     valid : [S!HtuNames -> BOOLEAN], fresh : [S!HtuNames -> SUBSET S!HtuNames],
     resp : ChipSays, read : ChipReads]

\* No sample was cut off, no wait timed out and no transfer failed.
AllWell(h) == {"slow", "cut", "i2c"} \cap h = {}

\* What was begun is requested from the chip, or was read: the humidity after
\* the temperature.
HtuRight(s) ==
    /\ s.read # "old"
    /\ \A n \in s.flags : \/ s.state["TEMP"] = "REQ" \/ n \in s.fresh[n]
                          \/ n = "HUMI" /\ s.state["HUMI"] = "REQ"
    /\ s.state["HUMI"] = "REQ" => "HUMI" \in s.flags /\ s.valid["TEMP"]
    /\ s.state["TEMP"] = "REQ" => s.flags # {} /\ s.state["HUMI"] # "REQ"

HtuI(s, O, K, B, h) ==
    /\ s \in HtuDriver
    /\ AllWell(h) => B = s.flags /\ s.flags = O \cup K /\ HtuRight(s)

LEMMA HtuValues ==
  ASSUME NEW s \in HtuDriver
  PROVE  /\ s.kind = "htu" /\ s.flags \subseteq {"TEMP", "HUMI"}
         /\ s.state["TEMP"] \in {"IDLE", "REQ"} /\ s.state["HUMI"] \in {"IDLE", "REQ"}
         /\ s.valid["TEMP"] \in BOOLEAN /\ s.valid["HUMI"] \in BOOLEAN
         /\ \A n \in S!HtuNames : s.fresh[n] \subseteq S!HtuNames
         /\ S!HtuNames = {"TEMP", "HUMI"}
BY DEF HtuDriver, S!HtuNames

\* The field of n is changed.
LEMMA HtuRequest ==
  ASSUME NEW s \in HtuDriver, NEW n \in S!HtuNames, NEW r \in {"IDLE", "REQ"},
         NEW t, t = [s EXCEPT !.state[n] = r]
  PROVE  /\ t \in HtuDriver /\ t.flags = s.flags /\ t.valid = s.valid /\ t.fresh = s.fresh
         /\ t.resp = s.resp /\ t.read = s.read
         /\ t.state[n] = r /\ \A m \in S!HtuNames : m # n => t.state[m] = s.state[m]
<1>1. PICK state : state = [s.state EXCEPT ![n] = r]
  OBVIOUS
<1>2. s.state \in [S!HtuNames -> {"IDLE", "REQ"}]
  BY DEF HtuDriver
<1>3. /\ state \in [S!HtuNames -> {"IDLE", "REQ"}]
      /\ state[n] = r /\ \A m \in S!HtuNames : m # n => state[m] = s.state[m]
  BY <1>1, <1>2
<1>4. t = [s EXCEPT !.state = state]
  BY <1>1 DEF HtuDriver
<1>5. /\ t \in HtuDriver /\ t.flags = s.flags /\ t.valid = s.valid /\ t.fresh = s.fresh
      /\ t.resp = s.resp /\ t.read = s.read /\ t.state = state
  BY <1>3, <1>4 DEF HtuDriver
<1> QED BY <1>3, <1>5

LEMMA HtuSays ==
  ASSUME NEW s \in HtuDriver, NEW r \in ChipSays, NEW t, t = S!Reply(s, r)
  PROVE  /\ t \in HtuDriver /\ t.flags = s.flags /\ t.valid = s.valid /\ t.fresh = s.fresh
         /\ t.resp = r /\ t.read = s.read /\ t.state = s.state
BY DEF S!Reply, HtuDriver

HtuBegun(t, O, K, B, h, n) ==
    /\ t \in HtuDriver
    /\ AllWell(h) => /\ t.resp = "SUCCESS" /\ t.state["TEMP"] = "REQ"
                     /\ HtuI(t, O \cup {n}, K, B \cup {n}, h)
                     /\ HtuI(t, O, K \cup {n}, B \cup {n}, h)

LEMMA HtuAsked ==
  ASSUME NEW s, NEW O, NEW K, NEW B, NEW h, HtuI(s, O, K, B, h), NEW n \in S!HtuNames,
         AllWell(h) => n \notin s.flags /\ (s.flags = {} \/ s.state["TEMP"] = "REQ"),
         NEW t, t = S!HtuInit(s, n)
  PROVE  HtuBegun(t, O, K, B, h, n)
<1>1. s \in HtuDriver
  BY DEF HtuI
<1>2. CASE n \in s.flags
  <2>1. t = S!Reply(s, "BUSY")
    BY <1>2 DEF S!HtuInit
  <2>2. t \in HtuDriver
    BY <1>1, <2>1 DEF S!Reply, HtuDriver, ChipSays
  <2> QED BY <1>2, <2>2 DEF HtuBegun
<1>3. CASE n \notin s.flags
  <2>1. PICK flags : flags = s.flags \cup {n}
    OBVIOUS
  <2>2. PICK fresh : fresh = [m \in S!HtuNames |-> s.fresh[m] \ {n}]
    OBVIOUS
  <2>3. fresh \in [S!HtuNames -> SUBSET S!HtuNames]
    BY <1>1, <2>2 DEF HtuDriver
  <2>4. flags \subseteq S!HtuNames /\ flags # {}
    BY <1>1, <2>1 DEF HtuDriver
  <2>5. PICK u : u = [s EXCEPT !.flags = flags, !.fresh = fresh]
    OBVIOUS
  <2>6. /\ u \in HtuDriver /\ u.flags = flags /\ u.state = s.state /\ u.valid = s.valid
        /\ u.read = s.read
    BY <1>1, <2>3, <2>4, <2>5 DEF HtuDriver
  <2>7. PICK v : v = IF s.flags = {} THEN S!Request(u, "TEMP") ELSE u
    OBVIOUS
  <2>8. t = S!Reply(v, "SUCCESS")
    BY <1>1, <1>3, <2>1, <2>2, <2>5, <2>7 DEF S!HtuInit, HtuDriver
  <2>9. /\ v \in HtuDriver /\ v.flags = flags /\ v.valid = s.valid /\ v.read = s.read
        /\ v.state["HUMI"] = s.state["HUMI"]
        /\ IF s.flags = {} THEN v.state["TEMP"] = "REQ" ELSE v.state["TEMP"] = s.state["TEMP"]
    <3>1. CASE s.flags = {}
      <4>1. v = [u EXCEPT !.state["TEMP"] = "REQ"]
        BY <2>7, <3>1 DEF S!Request
      <4>2. PICK temp, req : temp = "TEMP" /\ req = "REQ"
        OBVIOUS
      <4>3. v = [u EXCEPT !.state[temp] = req] /\ temp \in S!HtuNames /\ req \in {"IDLE", "REQ"}
        BY <4>1, <4>2 DEF S!HtuNames
      <4>4. /\ v \in HtuDriver /\ v.flags = u.flags /\ v.valid = u.valid /\ v.fresh = u.fresh
            /\ v.resp = u.resp /\ v.read = u.read
            /\ v.state[temp] = req /\ \A m \in S!HtuNames : m # temp => v.state[m] = u.state[m]
        BY <2>6, <4>3, HtuRequest
      <4>5. v.state["HUMI"] = u.state["HUMI"]
        BY <4>2, <4>4 DEF S!HtuNames
      <4> QED BY <2>6, <3>1, <4>2, <4>4, <4>5
    <3>2. CASE s.flags # {}
      BY <2>6, <2>7, <3>2
    <3> QED BY <3>1, <3>2
  <2>10. PICK ok \in ChipSays : ok = "SUCCESS"
    BY DEF ChipSays
  <2>11. /\ t \in HtuDriver /\ t.flags = v.flags /\ t.valid = v.valid /\ t.resp = ok
         /\ t.read = v.read /\ t.state = v.state
    BY <2>8, <2>9, <2>10, HtuSays
  <2>12. ASSUME AllWell(h)
         PROVE  /\ t.state["TEMP"] = "REQ" /\ HtuRight(t) /\ t.flags = O \cup K \cup {n} /\ B = s.flags
    <3>1. HtuRight(s) /\ B = s.flags /\ s.flags = O \cup K
      BY <2>12 DEF HtuI
    <3>2. t.state["TEMP"] = "REQ"
      BY <2>9, <2>11, <2>12
    <3>3. s.state["HUMI"] # "REQ"
      BY <2>12, <3>1 DEF HtuRight
    <3>4. t.state["HUMI"] # "REQ" /\ t.read # "old" /\ t.flags # {}
      BY <2>4, <2>9, <2>11, <3>1, <3>3 DEF HtuRight
    <3>5. HtuRight(t)
      BY <3>2, <3>4 DEF HtuRight
    <3> QED BY <2>1, <2>9, <2>11, <3>1, <3>2, <3>5
  <2>13. ASSUME AllWell(h), NEW P, NEW Q, P \cup Q = O \cup K \cup {n}
         PROVE  HtuI(t, P, Q, B \cup {n}, h)
    BY <2>1, <2>9, <2>11, <2>12, <2>13 DEF HtuI
  <2>14. AllWell(h) => HtuI(t, O \cup {n}, K, B \cup {n}, h)
    <3>1. PICK P : P = O \cup {n}
      OBVIOUS
    <3> QED BY <2>13, <3>1
  <2>15. AllWell(h) => HtuI(t, O, K \cup {n}, B \cup {n}, h)
    <3>1. PICK P : P = K \cup {n}
      OBVIOUS
    <3> QED BY <2>13, <3>1
  <2> QED BY <2>10, <2>11, <2>12, <2>14, <2>15 DEF HtuBegun
<1> QED BY <1>2, <1>3

\* A result is read from the chip, or the transfer fails.
HtuHas(s, t, n, ok) ==
    /\ t \in HtuDriver /\ t.flags = s.flags /\ t.read = s.read
    /\ t.state[n] = "IDLE"
    /\ t.resp = (IF ok THEN "SUCCESS" ELSE "ERROR")
    /\ ok => t.valid[n] /\ n \in t.fresh[n]
    /\ \A m \in S!HtuNames :
           m # n => t.state[m] = s.state[m] /\ t.valid[m] = s.valid[m] /\ t.fresh[m] = s.fresh[m]

LEMMA HtuCollected ==
  ASSUME NEW s \in HtuDriver, NEW n \in S!HtuNames, NEW fine \in BOOLEAN,
         NEW t, t = S!Collect(s, n, fine)
  PROVE  HtuHas(s, t, n, fine /\ (n = "HUMI" => s.valid["TEMP"]))
<1>1. PICK r \in {"IDLE", "REQ"} : r = "IDLE"
  OBVIOUS
<1>2. PICK u : u = [s EXCEPT !.state[n] = r]
  OBVIOUS
<1>3. /\ u \in HtuDriver /\ u.flags = s.flags /\ u.valid = s.valid /\ u.fresh = s.fresh
      /\ u.resp = s.resp /\ u.read = s.read
      /\ u.state[n] = r /\ \A m \in S!HtuNames : m # n => u.state[m] = s.state[m]
  BY <1>2, HtuRequest
<1>4. PICK ok \in BOOLEAN : ok = (fine /\ (n = "HUMI" => s.valid["TEMP"]))
  OBVIOUS
<1>5. t = IF ok THEN S!Reply([u EXCEPT !.valid[n] = TRUE, !.fresh[n] = S!HtuNames], "SUCCESS")
          ELSE S!Reply(u, "ERROR")
  <2>1. u = [s EXCEPT !.state[n] = "IDLE"]
    BY <1>1, <1>2
  <2>2. ok \/ ~ok
    OBVIOUS
  <2>3. CASE ok
    <3>1. fine /\ (n = "HUMI" => s.valid["TEMP"])
      BY <1>4, <2>3
    <3>2. t = S!Reply([u EXCEPT !.valid[n] = TRUE, !.fresh[n] = S!HtuNames], "SUCCESS")
      BY <2>1, <3>1 DEF S!Collect
    <3> QED BY <2>3, <3>2
  <2>4. CASE ~ok
    <3>1. ~(fine /\ (n = "HUMI" => s.valid["TEMP"]))
      BY <1>4, <2>4
    <3> QED BY <2>1, <2>4, <3>1, Zenon DEF S!Collect
  <2> QED BY <2>2, <2>3, <2>4
<1>6. CASE ok
  <2>1. PICK valid : valid = [u.valid EXCEPT ![n] = TRUE]
    OBVIOUS
  <2>2. PICK fresh : fresh = [u.fresh EXCEPT ![n] = S!HtuNames]
    OBVIOUS
  <2>3. u.valid \in [S!HtuNames -> BOOLEAN] /\ u.fresh \in [S!HtuNames -> SUBSET S!HtuNames]
    BY <1>3 DEF HtuDriver
  <2>4. /\ valid \in [S!HtuNames -> BOOLEAN] /\ valid[n]
        /\ \A m \in S!HtuNames : m # n => valid[m] = s.valid[m]
    BY <1>3, <2>1, <2>3
  <2>5. /\ fresh \in [S!HtuNames -> SUBSET S!HtuNames] /\ n \in fresh[n]
        /\ \A m \in S!HtuNames : m # n => fresh[m] = s.fresh[m]
    BY <1>3, <2>2, <2>3
  <2>6. PICK v : v = [u EXCEPT !.valid = valid, !.fresh = fresh]
    OBVIOUS
  <2>7. v = [u EXCEPT !.valid[n] = TRUE, !.fresh[n] = S!HtuNames]
    BY <1>3, <2>1, <2>2, <2>6 DEF HtuDriver
  <2>8. /\ v \in HtuDriver /\ v.flags = s.flags /\ v.read = s.read /\ v.state = u.state
        /\ v.valid = valid /\ v.fresh = fresh
    BY <1>3, <2>4, <2>5, <2>6 DEF HtuDriver
  <2>9. t = S!Reply(v, "SUCCESS")
    BY <1>5, <1>6, <2>7
  <2>10. PICK said \in ChipSays : said = "SUCCESS"
    BY DEF ChipSays
  <2>11. /\ t \in HtuDriver /\ t.flags = v.flags /\ t.valid = v.valid /\ t.fresh = v.fresh
         /\ t.resp = said /\ t.read = v.read /\ t.state = v.state
    BY <2>8, <2>9, <2>10, HtuSays
  <2>12. HtuHas(s, t, n, ok)
    BY <1>1, <1>3, <1>6, <2>4, <2>5, <2>8, <2>10, <2>11 DEF HtuHas
  <2> QED BY <1>4, <2>12
<1>7. CASE ~ok
  <2>1. PICK said \in ChipSays : said = "ERROR"
    BY DEF ChipSays
  <2>2. t = S!Reply(u, said)
    BY <1>5, <1>7, <2>1
  <2>3. /\ t \in HtuDriver /\ t.flags = u.flags /\ t.valid = u.valid /\ t.fresh = u.fresh
        /\ t.resp = said /\ t.read = u.read /\ t.state = u.state
    BY <1>3, <2>1, <2>2, HtuSays
  <2>4. HtuHas(s, t, n, ok)
    BY <1>1, <1>3, <1>7, <2>1, <2>3 DEF HtuHas
  <2> QED BY <1>4, <2>4
<1> QED BY <1>6, <1>7

HtuGiven(t, O, K, B, h, n) ==
    /\ t \in HtuDriver
    /\ AllWell(h) => t.resp # "BUSY" /\ S!HtuRests(t)
    /\ n \in O => HtuI(t, O \ {n}, {}, B \ {n}, h)
    /\ K = {n} => HtuI(t, O, {}, B \ {n}, h)

LEMMA HtuGot ==
  ASSUME NEW s, NEW O, NEW K, NEW B, NEW h, HtuI(s, O, K, B, h), NEW n \in S!HtuNames,
         AllWell(h) => S!HtuRests(s) /\ n \in O \cup K /\ (O = {} \/ K = {}) /\ K \subseteq {n},
         NEW t, t = S!HtuGet(s, n)
  PROVE  HtuGiven(t, O, K, B, h, n)
<1>1. s \in HtuDriver
  BY DEF HtuI
<1>2. PICK flags : flags = s.flags \ {n}
  OBVIOUS
<1>3. PICK u : u = [s EXCEPT !.flags = flags]
  OBVIOUS
<1>4. /\ u \in HtuDriver /\ u.flags = flags /\ u.state = s.state /\ u.valid = s.valid
      /\ u.fresh = s.fresh /\ u.read = s.read
  BY <1>1, <1>2, <1>3 DEF HtuDriver
<1>5. PICK gives \in BOOLEAN : gives = (n \in s.flags /\ s.valid[n])
  BY <1>1 DEF HtuDriver
<1>6. t = IF gives THEN S!Give(u, n, u.fresh[n]) ELSE S!Reply(u, "ERROR")
  BY <1>1, <1>2, <1>3, <1>5 DEF S!HtuGet, HtuDriver
<1>7. PICK read \in ChipReads : read = IF n \in s.fresh[n] /\ s.read # "old" THEN "new" ELSE "old"
  BY DEF ChipReads
<1>8. /\ t \in HtuDriver /\ t.flags = flags /\ t.state = s.state /\ t.valid = s.valid
      /\ t.fresh = s.fresh /\ t.resp # "BUSY"
      /\ t.read \in {read, s.read}
  <2>1. CASE gives
    <3>1. t = [u EXCEPT !.resp = "SUCCESS", !.read = read]
      BY <1>4, <1>6, <1>7, <2>1 DEF S!Give, HtuDriver
    <3> QED BY <1>4, <3>1 DEF HtuDriver, ChipSays
  <2>2. CASE ~gives
    <3>1. PICK said \in ChipSays : said = "ERROR"
      BY DEF ChipSays
    <3>2. t = S!Reply(u, said)
      BY <1>6, <2>2, <3>1
    <3>3. /\ t \in HtuDriver /\ t.flags = u.flags /\ t.valid = u.valid /\ t.fresh = u.fresh
          /\ t.resp = said /\ t.read = u.read /\ t.state = u.state
      BY <1>4, <3>1, <3>2, HtuSays
    <3> QED BY <1>4, <3>1, <3>3
  <2> QED BY <2>1, <2>2
<1>9. ASSUME AllWell(h)
      PROVE  /\ HtuRight(t) /\ S!HtuRests(t) /\ B = s.flags /\ s.flags = O \cup K
  <2>1. HtuRight(s) /\ B = s.flags /\ s.flags = O \cup K /\ S!HtuRests(s)
    BY <1>9 DEF HtuI
  <2>2. s.state["TEMP"] # "REQ" /\ s.state["HUMI"] # "REQ"
    BY <2>1 DEF HtuRight, S!HtuRests, S!Requested, S!HtuNames
  <2>3. n \in s.fresh[n] /\ s.read # "old"
    BY <1>9, <2>1, <2>2 DEF HtuRight
  <2>4. t.read # "old"
    BY <1>7, <1>8, <2>3
  <2>5. HtuRight(t)
    BY <1>2, <1>8, <2>1, <2>2, <2>4 DEF HtuRight
  <2>6. S!HtuRests(t)
    BY <1>8, <2>2 DEF S!HtuRests, S!Requested, S!HtuNames
  <2> QED BY <2>1, <2>5, <2>6
<1>10. ASSUME NEW P, NEW Q, AllWell(h) => P \cup Q = (O \cup K) \ {n}
       PROVE  HtuI(t, P, Q, B \ {n}, h)
  BY <1>2, <1>8, <1>9, <1>10 DEF HtuI
<1>11. n \in O => HtuI(t, O \ {n}, {}, B \ {n}, h)
  <2>1. PICK P, Q : P = O \ {n} /\ Q = {}
    OBVIOUS
  <2>2. n \in O /\ AllWell(h) => P \cup Q = (O \cup K) \ {n}
    BY <2>1
  <2> QED BY <1>10, <2>1, <2>2
<1>12. K = {n} => HtuI(t, O, {}, B \ {n}, h)
  <2>1. PICK Q : Q = {}
    OBVIOUS
  <2>2. K = {n} /\ AllWell(h) => O \cup Q = (O \cup K) \ {n}
    BY <2>1
  <2> QED BY <1>10, <2>1, <2>2
<1> QED BY <1>8, <1>9, <1>11, <1>12 DEF HtuGiven

\* What HtuI asks of a state, when the rest is as it was.
LEMMA HtuKept ==
  ASSUME NEW s, NEW O, NEW K, NEW B, NEW h, HtuI(s, O, K, B, h),
         NEW t \in HtuDriver, t.flags = s.flags, AllWell(h) => HtuRight(t)
  PROVE  HtuI(t, O, K, B, h)
BY DEF HtuI

LEMMA HtuTemperature ==
  ASSUME NEW s, NEW O, NEW K, NEW B, NEW h, HtuI(s, O, K, B, h), NEW n \in S!HtuNames,
         NEW fine \in BOOLEAN, ~fine => ~AllWell(h), s.flags # {}, s.state["TEMP"] = "REQ",
         NEW t, t = S!HtuIterate(s, n, fine)
  PROVE  HtuI(t, O, K, B, h) /\ (AllWell(h) => t.resp # "ERROR")
<1>1. s \in HtuDriver
  BY DEF HtuI
<1>2. PICK temp : temp = "TEMP"
  OBVIOUS
<1>3. PICK u : u = S!Collect(s, temp, fine)
  OBVIOUS
<1>5. HtuHas(s, u, temp, fine)
  <2>1. temp \in S!HtuNames
    BY <1>2 DEF S!HtuNames
  <2>2. HtuHas(s, u, temp, fine /\ (temp = "HUMI" => s.valid["TEMP"]))
    BY <1>1, <1>3, <2>1, HtuCollected
  <2> QED BY <1>2, <2>2 DEF HtuHas
<1>6. /\ u \in HtuDriver /\ u.flags = s.flags /\ u.read = s.read /\ u.state["TEMP"] = "IDLE"
      /\ u.resp = (IF fine THEN "SUCCESS" ELSE "ERROR")
      /\ fine => u.valid["TEMP"] /\ "TEMP" \in u.fresh["TEMP"]
      /\ u.state["HUMI"] = s.state["HUMI"] /\ u.fresh["HUMI"] = s.fresh["HUMI"]
  BY <1>2, <1>5 DEF HtuHas, S!HtuNames
<1>7. t = IF u.resp = "ERROR" THEN S!Failed(u, "TEMP", n)
          ELSE IF "HUMI" \in s.flags THEN S!Reply(S!Request(u, "HUMI"), "BUSY") ELSE u
  BY <1>2, <1>3 DEF S!HtuIterate
<1>8. CASE ~fine
  <2>1. PICK said \in ChipSays : said = IF n = "TEMP" THEN "ERROR" ELSE "BUSY"
    BY DEF ChipSays
  <2>2. t = S!Reply(u, said)
    BY <1>6, <1>7, <1>8, <2>1 DEF S!Failed
  <2>3. t \in HtuDriver /\ t.flags = u.flags
    BY <1>6, <2>1, <2>2, HtuSays
  <2>4. ~AllWell(h)
    BY <1>8
  <2> QED BY <1>6, <2>3, <2>4, HtuKept
<1>9. CASE fine /\ "HUMI" \in s.flags
  <2>1. PICK humi, req : humi = "HUMI" /\ req = "REQ"
    OBVIOUS
  <2>2. PICK v : v = [u EXCEPT !.state[humi] = req]
    OBVIOUS
  <2>3. humi \in S!HtuNames /\ req \in {"IDLE", "REQ"}
    BY <2>1 DEF S!HtuNames
  <2>4. /\ v \in HtuDriver /\ v.flags = u.flags /\ v.valid = u.valid /\ v.fresh = u.fresh
        /\ v.resp = u.resp /\ v.read = u.read
        /\ v.state[humi] = req /\ \A m \in S!HtuNames : m # humi => v.state[m] = u.state[m]
    BY <1>6, <2>2, <2>3, HtuRequest
  <2>5. PICK said \in ChipSays : said = "BUSY"
    BY DEF ChipSays
  <2>6. t = S!Reply(v, said)
    BY <1>6, <1>7, <1>9, <2>1, <2>2, <2>5 DEF S!Request
  <2>7. /\ t \in HtuDriver /\ t.flags = v.flags /\ t.valid = v.valid /\ t.fresh = v.fresh
        /\ t.resp = said /\ t.read = v.read /\ t.state = v.state
    BY <2>4, <2>5, <2>6, HtuSays
  <2>8. t.state["HUMI"] = "REQ" /\ t.state["TEMP"] = "IDLE"
    BY <1>6, <2>1, <2>4, <2>7 DEF S!HtuNames
  <2>9. AllWell(h) => HtuRight(t)
    <3>1. SUFFICES ASSUME AllWell(h) PROVE HtuRight(t)
      OBVIOUS
    <3>2. HtuRight(s)
      BY <3>1 DEF HtuI
    <3>3. t.read # "old" /\ t.valid["TEMP"] /\ "TEMP" \in t.fresh["TEMP"] /\ "HUMI" \in t.flags
      BY <1>6, <1>9, <2>4, <2>7, <3>2 DEF HtuRight
    <3>4. t.flags \subseteq {"TEMP", "HUMI"}
      BY <2>7, HtuValues
    <3> QED BY <2>8, <3>3, <3>4 DEF HtuRight
  <2>10. t.flags = s.flags /\ t.resp # "ERROR"
    BY <1>6, <2>4, <2>5, <2>7
  <2> QED BY <2>7, <2>9, <2>10, HtuKept
<1>10. CASE fine /\ "HUMI" \notin s.flags
  <2>1. t = u
    BY <1>6, <1>7, <1>10
  <2>2. AllWell(h) => HtuRight(t)
    <3>1. SUFFICES ASSUME AllWell(h) PROVE HtuRight(t)
      OBVIOUS
    <3>2. HtuRight(s)
      BY <3>1 DEF HtuI
    <3>3. t.read # "old" /\ t.state["HUMI"] # "REQ" /\ "TEMP" \in t.fresh["TEMP"]
      BY <1>6, <1>10, <2>1, <3>2 DEF HtuRight
    <3>4. t.flags \subseteq {"TEMP", "HUMI"} /\ "HUMI" \notin t.flags
      BY <1>6, <1>10, <2>1, HtuValues
    <3> QED BY <1>6, <2>1, <3>3, <3>4 DEF HtuRight
  <2> QED BY <1>6, <1>10, <2>1, <2>2, HtuKept
<1> QED BY <1>8, <1>9, <1>10

LEMMA HtuHumidity ==
  ASSUME NEW s, NEW O, NEW K, NEW B, NEW h, HtuI(s, O, K, B, h), NEW n \in S!HtuNames,
         NEW fine \in BOOLEAN, ~fine => ~AllWell(h),
         "HUMI" \in s.flags, s.state["TEMP"] # "REQ", s.state["HUMI"] = "REQ",
         NEW t, t = S!HtuIterate(s, n, fine)
  PROVE  HtuI(t, O, K, B, h) /\ (AllWell(h) => t.resp # "ERROR")
<1>1. s \in HtuDriver
  BY DEF HtuI
<1>2. PICK humi : humi = "HUMI"
  OBVIOUS
<1>3. PICK u : u = S!Collect(s, humi, fine)
  OBVIOUS
<1>4. PICK ok \in BOOLEAN : ok = (fine /\ (humi = "HUMI" => s.valid["TEMP"]))
  OBVIOUS
<1>5. HtuHas(s, u, humi, ok)
  <2>1. humi \in S!HtuNames
    BY <1>2 DEF S!HtuNames
  <2>2. HtuHas(s, u, humi, fine /\ (humi = "HUMI" => s.valid["TEMP"]))
    BY <1>1, <1>3, <2>1, HtuCollected
  <2> QED BY <1>4, <2>2
<1>6. /\ u \in HtuDriver /\ u.flags = s.flags /\ u.read = s.read /\ u.state["HUMI"] = "IDLE"
      /\ u.resp = (IF ok THEN "SUCCESS" ELSE "ERROR")
      /\ ok => "HUMI" \in u.fresh["HUMI"]
      /\ u.state["TEMP"] = s.state["TEMP"] /\ u.fresh["TEMP"] = s.fresh["TEMP"]
  BY <1>2, <1>5 DEF HtuHas, S!HtuNames
<1>7. PICK v : v = IF s.flags = {"HUMI"} THEN [u EXCEPT !.valid["TEMP"] = FALSE] ELSE u
  OBVIOUS
<1>8. /\ v \in HtuDriver /\ v.flags = s.flags /\ v.read = s.read /\ v.state = u.state
      /\ v.fresh = u.fresh /\ v.resp = u.resp
  <2>1. CASE s.flags = {"HUMI"}
    <3>1. PICK valid : valid = [u.valid EXCEPT !["TEMP"] = FALSE]
      OBVIOUS
    <3>2. valid \in [S!HtuNames -> BOOLEAN]
      BY <1>6, <3>1 DEF HtuDriver
    <3>3. v = [u EXCEPT !.valid = valid]
      BY <1>6, <1>7, <2>1, <3>1 DEF HtuDriver
    <3> QED BY <1>6, <3>2, <3>3 DEF HtuDriver
  <2>2. CASE s.flags # {"HUMI"}
    BY <1>6, <1>7, <2>2
  <2> QED BY <2>1, <2>2
<1>9. t = IF u.resp = "ERROR" THEN S!Failed(v, "HUMI", n) ELSE v
  BY <1>2, <1>3, <1>7 DEF S!HtuIterate
<1>10. CASE ok
  <2>1. t = v /\ t.resp # "ERROR"
    BY <1>6, <1>8, <1>9, <1>10
  <2>2. AllWell(h) => HtuRight(t)
    <3>1. SUFFICES ASSUME AllWell(h) PROVE HtuRight(t)
      OBVIOUS
    <3>2. HtuRight(s)
      BY <3>1 DEF HtuI
    <3>3. "TEMP" \in s.flags => "TEMP" \in s.fresh["TEMP"]
      BY <3>2 DEF HtuRight
    <3>4. t.read # "old"
      BY <1>8, <2>1, <3>2 DEF HtuRight
    <3>5. t.state["HUMI"] # "REQ" /\ t.state["TEMP"] # "REQ"
      BY <1>6, <1>8, <2>1
    <3>6. t.flags \subseteq {"TEMP", "HUMI"}
      BY <1>8, <2>1, HtuValues
    <3>7. \A m \in t.flags : m \in t.fresh[m]
      BY <1>6, <1>8, <1>10, <2>1, <3>3, <3>6
    <3> QED BY <3>4, <3>5, <3>7 DEF HtuRight
  <2> QED BY <1>8, <2>1, <2>2, HtuKept
<1>11. CASE ~ok
  <2>1. PICK said \in ChipSays : said = IF n = "HUMI" THEN "ERROR" ELSE "BUSY"
    BY DEF ChipSays
  <2>2. t = S!Reply(v, said)
    BY <1>6, <1>9, <1>11, <2>1 DEF S!Failed
  <2>3. t \in HtuDriver /\ t.flags = v.flags
    BY <1>8, <2>1, <2>2, HtuSays
  <2>4. ~AllWell(h)
    <3>1. AllWell(h) => s.valid["TEMP"]
      BY DEF HtuI, HtuRight
    <3> QED BY <1>4, <1>11, <3>1
  <2> QED BY <1>8, <2>3, <2>4, HtuKept
<1> QED BY <1>10, <1>11

LEMMA HtuIterated ==
  ASSUME NEW s, NEW O, NEW K, NEW B, NEW h, HtuI(s, O, K, B, h), NEW n \in S!HtuNames,
         NEW fine \in BOOLEAN, ~fine => ~AllWell(h), NEW t, t = S!HtuIterate(s, n, fine)
  PROVE  HtuI(t, O, K, B, h) /\ (AllWell(h) => t.resp # "ERROR")
<1>1. s \in HtuDriver
  BY DEF HtuI
<1>2. CASE s.flags # {} /\ s.state["TEMP"] = "REQ"
  BY <1>2, HtuTemperature
<1>3. CASE "HUMI" \in s.flags /\ s.state["TEMP"] # "REQ" /\ s.state["HUMI"] = "REQ"
  BY <1>3, HtuHumidity
<1>4. CASE /\ ~(s.flags # {} /\ s.state["TEMP"] = "REQ")
           /\ ~("HUMI" \in s.flags /\ s.state["TEMP"] # "REQ" /\ s.state["HUMI"] = "REQ")
  <2>1. PICK said \in ChipSays : said = "BUSY"
    BY DEF ChipSays
  <2>2. t = S!Reply(s, said)
    BY <1>4, <2>1, Zenon DEF S!HtuIterate
  <2>3. /\ t \in HtuDriver /\ t.flags = s.flags /\ t.valid = s.valid /\ t.fresh = s.fresh
        /\ t.resp = said /\ t.read = s.read /\ t.state = s.state
    BY <1>1, <2>1, <2>2, HtuSays
  <2>4. AllWell(h) => HtuRight(t)
    BY <2>3 DEF HtuI, HtuRight
  <2>5. t.resp # "ERROR" /\ t.flags = s.flags
    BY <2>1, <2>3
  <2> QED BY <2>3, <2>4, <2>5, HtuKept
<1> QED BY <1>2, <1>3, <1>4, Zenon

LEMMA HtuCleaned ==
  ASSUME NEW s, NEW O, NEW K, NEW B, NEW h, HtuI(s, O, K, B, h), NEW g, h \subseteq g,
         NEW t, t = S!Clean(s)
  PROVE  HtuI(t, O, K, B, g) /\ (S!HtuRests(s) => S!HtuRests(t)) /\ t.flags = s.flags
<1>1. s \in HtuDriver
  BY DEF HtuI
<1>2. t = [s EXCEPT !.resp = "none", !.read = "none"]
  BY DEF S!Clean
<1>3. /\ t \in HtuDriver /\ t.flags = s.flags /\ t.valid = s.valid /\ t.fresh = s.fresh
      /\ t.read = "none" /\ t.state = s.state
  BY <1>1, <1>2 DEF HtuDriver, ChipSays, ChipReads
<1>4. AllWell(g) => AllWell(h)
  BY DEF AllWell
<1>5. AllWell(h) => HtuRight(t)
  BY <1>3 DEF HtuI, HtuRight
<1>6. HtuI(t, O, K, B, g)
  BY <1>3, <1>4, <1>5 DEF HtuI
<1>7. S!HtuRests(s) => S!HtuRests(t)
  BY <1>3 DEF S!HtuRests, S!Requested
<1> QED BY <1>3, <1>6, <1>7

-----------------------------------------------------------------------------
(* A pass over the table of measurements.                                  *)

States == {"todo", "open", "failed", "over"}
OpenIn(smp) == {n \in DOMAIN smp : smp[n] = "open"}
At(s, smp, B) == [d |-> s, sample |-> smp, busy |-> B]

Changed(smp, new, n, v, N) ==
    /\ new \in [N -> States]
    /\ v = "open" => OpenIn(new) = OpenIn(smp) \cup {n}
    /\ v # "open" => OpenIn(new) = OpenIn(smp) \ {n}
    /\ v # "open" /\ smp[n] # "open" => OpenIn(new) = OpenIn(smp)

LEMMA OneSample ==
  ASSUME NEW N, NEW smp \in [N -> States], NEW n \in N, NEW v \in States,
         NEW new, new = [smp EXCEPT ![n] = v]
  PROVE  Changed(smp, new, n, v, N)
BY DEF Changed, OpenIn

\* A driver stays the one it is; only a new sample raises hpm_use_ref.
Grows(s, t, by) ==
    t.kind = s.kind /\ (s.kind = "hpm" => t.ref \in Nat /\ t.ref <= s.ref + by)

LEMMA Begins ==
  ASSUME NEW s, NEW O, NEW K, NEW B, NEW N, NEW h, ChipI(s, O, K, B, N, h),
         NEW n, NEW fine \in BOOLEAN, NEW late \in BOOLEAN,
         NEW t, t = S!InitCb(s, n, fine, late)
  PROVE  t.kind = s.kind
<1>1. CASE s \in HpmDriver
  <2>1. s.kind = "hpm"
    BY <1>1, ChipKinds
  <2>2. t = S!HpmInit(s, n)
    BY <2>1 DEF S!InitCb
  <2> QED BY <1>1, <2>2 DEF S!HpmInit, S!HpmEnable, S!Reply, HpmDriver
<1>2. CASE s \in VemlDriver
  <2>1. s.kind = "veml"
    BY <1>2, ChipKinds
  <2>2. t = S!VemlInit(s, fine, late)
    BY <2>1 DEF S!InitCb
  <2> QED BY <1>2, <2>2 DEF S!VemlInit, S!ResetCtx, S!Reply, VemlDriver
<1>3. CASE s \in DsDriver
  <2>1. s.kind = "ds"
    BY <1>3, ChipKinds
  <2>2. t = S!DsInit(s, fine)
    BY <2>1 DEF S!InitCb
  <2> QED BY <1>3, <2>2 DEF S!DsInit, S!Reply, DsDriver
<1>4. CASE s \in SenDriver
  <2>1. s.kind = "sen"
    BY <1>4, ChipKinds
  <2>2. t = S!SenStartCb(s, fine, TRUE)
    BY <2>1 DEF S!InitCb
  <2> QED BY <1>4, <2>2 DEF S!SenStartCb, S!SenxxInit, S!Reply, SenDriver
<1>5. CASE s \in RsDriver
  <2>1. s.kind = "rs"
    BY <1>5, ChipKinds
  <2>2. t = S!RsInit(s)
    BY <2>1 DEF S!InitCb
  <2> QED BY <1>5, <2>2 DEF S!RsInit, S!Reply, RsDriver
<1> QED BY <1>1, <1>2, <1>3, <1>4, <1>5 DEF ChipI, HpmI, VemlI, DsI, SenI, RsI

LEMMA Collects ==
  ASSUME NEW s, NEW O, NEW K, NEW B, NEW N, NEW h, ChipI(s, O, K, B, N, h),
         NEW n, NEW fine \in BOOLEAN, NEW late \in BOOLEAN,
         NEW t, t = S!GetCb(s, n, fine, late)
  PROVE  t.kind = s.kind /\ (s.kind = "hpm" => t.ref \in Nat /\ t.ref <= s.ref)
<1>1. CASE s \in HpmDriver
  <2>1. s.kind = "hpm" /\ s.ref \in Nat
    BY <1>1 DEF HpmDriver
  <2>2. t = S!HpmGet(s, n)
    BY <2>1 DEF S!GetCb
  <2>3. PICK ref \in Nat : ref = s.ref
    BY <2>1
  <2>4. t.kind = "hpm" /\ t.ref \in {ref, IF ref = 0 THEN 0 ELSE ref - 1}
    BY <1>1, <2>2, <2>3 DEF S!HpmGet, S!HpmEnable, S!Give, S!Reply, HpmDriver
  <2>5. (IF ref = 0 THEN 0 ELSE ref - 1) \in Nat /\ (IF ref = 0 THEN 0 ELSE ref - 1) <= ref
    OBVIOUS
  <2>6. ref <= ref
    OBVIOUS
  <2> QED BY <2>1, <2>3, <2>4, <2>5, <2>6
<1>2. CASE s \in VemlDriver
  <2>1. s.kind = "veml"
    BY <1>2, ChipKinds
  <2>2. t = S!VemlGet(s, late)
    BY <2>1 DEF S!GetCb
  <2> QED BY <1>2, <2>1, <2>2 DEF S!VemlGet, S!Give, S!Reply, VemlDriver
<1>3. CASE s \in DsDriver
  <2>1. s.kind = "ds"
    BY <1>3, ChipKinds
  <2>2. t = S!DsCollect(s, fine)
    BY <2>1 DEF S!GetCb
  <2> QED BY <1>3, <2>1, <2>2 DEF S!DsCollect, S!Give, S!Reply, DsDriver
<1>4. CASE s \in SenDriver
  <2>1. s.kind = "sen"
    BY <1>4, ChipKinds
  <2>2. t = S!SenCollect(s, n)
    BY <2>1 DEF S!GetCb
  <2> QED BY <1>4, <2>1, <2>2 DEF S!SenCollect, S!Give, S!Reply, SenDriver
<1>5. CASE s \in RsDriver
  <2>1. s.kind = "rs"
    BY <1>5, ChipKinds
  <2>2. t = S!RsCollect(s)
    BY <2>1 DEF S!GetCb
  <2> QED BY <1>5, <2>1, <2>2 DEF S!RsCollect, S!Reply, RsDriver
<1> QED BY <1>1, <1>2, <1>3, <1>4, <1>5 DEF ChipI, HpmI, VemlI, DsI, SenI, RsI

\* A pass keeps ChipI.
PassKept(q, N, h) ==
    \E t : \E smp \in [N -> States], B \in SUBSET N, K \in {{}} :
        q = At(t, smp, B) /\ ChipI(t, OpenIn(smp), K, B, N, h)

LEMMA PassKeptBy ==
  ASSUME NEW q, NEW N, NEW h, NEW t, NEW smp \in [N -> States], NEW B \in SUBSET N,
         NEW K, K = {}, q = At(t, smp, B), ChipI(t, OpenIn(smp), K, B, N, h)
  PROVE  PassKept(q, N, h) /\ q.d = t
<1>1. q.d = t
  BY DEF At
<1>2. K \in {{}}
  OBVIOUS
<1>3. PassKept(q, N, h)
  BY <1>2, Zenon DEF PassKept
<1> QED BY <1>1, <1>3

LEMMA BeginOneKept ==
  ASSUME NEW N, NEW h, NEW s, NEW smp \in [N -> States], NEW B \in SUBSET N,
         NEW K, K = {}, ChipI(s, OpenIn(smp), K, B, N, h), s.kind = "hpm" => s.ref \in Nat,
         NEW n \in N, NEW bad, n = bad => "i2c" \in h,
         NEW late \in BOOLEAN, late => "slow" \in h \/ "i2c" \in h,
         NEW q, q = S!BeginOne(At(s, smp, B), n, bad, late)
  PROVE  PassKept(q, N, h) /\ Grows(s, q.d, 1)
<1>1. PICK p : p = At(s, smp, B)
  OBVIOUS
<1>2. p.d = s /\ p.sample = smp /\ p.busy = B
  BY <1>1 DEF At
<1>3. PICK fine \in BOOLEAN : fine = (n # bad)
  OBVIOUS
<1>4. PICK t : t = S!InitCb(s, n, fine, late)
  OBVIOUS
<1>5. \A m \in Nat : m <= m + 1
  OBVIOUS
<1>6. CASE smp[n] # "todo"
  <2>1. q = p
    BY <1>1, <1>2, <1>6 DEF S!BeginOne
  <2>2. Grows(s, s, 1)
    BY <1>5 DEF Grows
  <2> QED BY <1>1, <2>1, <2>2, PassKeptBy
<1>7. CASE smp[n] = "todo" /\ n \in B
  <2>1. PICK over \in States : over = "over"
    BY DEF States
  <2>2. PICK new : new = [smp EXCEPT ![n] = over]
    OBVIOUS
  <2>3. new \in [N -> States] /\ OpenIn(new) = OpenIn(smp)
    <3>1. Changed(smp, new, n, over, N)
      BY <1>7, <2>1, <2>2, OneSample
    <3> QED BY <1>7, <2>1, <2>2, <3>1 DEF Changed
  <2>4. q = At(s, new, B)
    BY <1>1, <1>2, <1>7, <2>1, <2>2 DEF S!BeginOne, At
  <2>5. Grows(s, s, 1)
    BY <1>5 DEF Grows
  <2> QED BY <2>3, <2>4, <2>5, PassKeptBy
<1>8. CASE smp[n] = "todo" /\ n \notin B
  <2>1. Asked(s, OpenIn(smp), K, B, N, h, n, t) /\ (s.kind = "hpm" => t.ref = s.ref + 1)
    <3>1. ~fine => "i2c" \in h
      BY <1>3
    <3> QED BY <1>4, <1>8, <3>1, ChipAsked
  <2>2. t.kind = s.kind
    BY <1>4, Begins
  <2>3. Grows(s, t, 1)
    <3>1. \A m \in Nat : m + 1 \in Nat /\ m + 1 <= m + 1
      OBVIOUS
    <3> QED BY <2>1, <2>2, <3>1 DEF Grows
  <2>4. q = [d |-> t, busy |-> IF t.resp = "SUCCESS" THEN B \cup {n} ELSE B,
             sample |-> CASE t.resp = "BUSY" -> smp
                          [] t.resp = "SUCCESS" -> [smp EXCEPT ![n] = "open"]
                          [] OTHER -> [smp EXCEPT ![n] = "over"]]
    <3>1. t = S!InitCb(p.d, n, n # bad, late)
      BY <1>2, <1>3, <1>4
    <3> QED BY <1>1, <1>2, <1>8, <3>1 DEF S!BeginOne
  <2>5. CASE t.resp = "SUCCESS"
    <3>1. PICK v \in States : v = "open"
      BY DEF States
    <3>2. PICK new : new = [smp EXCEPT ![n] = v]
      OBVIOUS
    <3>3. PICK C : C = B \cup {n}
      OBVIOUS
    <3>4. new \in [N -> States] /\ OpenIn(new) = OpenIn(smp) \cup {n} /\ C \in SUBSET N
      <4>1. Changed(smp, new, n, v, N)
        BY <3>1, <3>2, <3>3, OneSample
      <4> QED BY <3>1, <3>2, <3>3, <4>1 DEF Changed
    <3>5. ChipI(t, OpenIn(new), K, C, N, h)
      BY <2>1, <2>5, <3>3, <3>4 DEF Asked
    <3>6. q = At(t, new, C)
      BY <2>4, <2>5, <3>1, <3>2, <3>3 DEF At
    <3> QED BY <2>3, <3>4, <3>5, <3>6, PassKeptBy
  <2>6. CASE t.resp = "BUSY"
    <3>1. ChipI(t, OpenIn(smp), K, B, N, h)
      BY <2>1, <2>6 DEF Asked
    <3>2. q = At(t, smp, B)
      BY <2>4, <2>6 DEF At
    <3> QED BY <2>3, <3>1, <3>2, PassKeptBy
  <2>7. CASE t.resp # "BUSY" /\ t.resp # "SUCCESS"
    <3>1. PICK v \in States : v = "over"
      BY DEF States
    <3>2. PICK new : new = [smp EXCEPT ![n] = v]
      OBVIOUS
    <3>3. new \in [N -> States] /\ OpenIn(new) = OpenIn(smp)
      <4>1. Changed(smp, new, n, v, N)
        BY <1>8, <3>1, <3>2, OneSample
      <4> QED BY <1>8, <3>1, <3>2, <4>1 DEF Changed
    <3>4. ChipI(t, OpenIn(smp), K, B, N, h)
      BY <2>1, <2>7 DEF Asked
    <3>5. q = At(t, new, B)
      BY <2>4, <2>7, <3>1, <3>2 DEF At
    <3> QED BY <2>3, <3>3, <3>4, <3>5, PassKeptBy
  <2> QED BY <2>5, <2>6, <2>7
<1> QED BY <1>6, <1>7, <1>8

LEMMA CollectOneKept ==
  ASSUME NEW N, NEW h, NEW s, NEW smp \in [N -> States], NEW B \in SUBSET N,
         NEW K, K = {}, ChipI(s, OpenIn(smp), K, B, N, h), s.kind = "hpm" => s.ref \in Nat,
         Ripe(s) \/ "slow" \in h,
         NEW n \in N, NEW fine \in BOOLEAN,
         NEW late \in BOOLEAN, late => "slow" \in h \/ "i2c" \in h,
         NEW q, q = S!CollectOne(At(s, smp, B), n, fine, late)
  PROVE  PassKept(q, N, h) /\ Grows(s, q.d, 0) /\ (Ripe(q.d) \/ "slow" \in h)
<1>1. PICK p : p = At(s, smp, B)
  OBVIOUS
<1>2. p.d = s /\ p.sample = smp /\ p.busy = B
  BY <1>1 DEF At
<1>3. PICK t : t = S!GetCb(s, n, fine, late)
  OBVIOUS
<1>4. PICK C : C = B \ {n}
  OBVIOUS
<1>5. \A m \in Nat : m <= m + 0
  OBVIOUS
<1>6. CASE smp[n] # "open"
  <2>1. q = p
    BY <1>1, <1>2, <1>6 DEF S!CollectOne
  <2>2. Grows(s, s, 0)
    BY <1>5 DEF Grows
  <2> QED BY <1>1, <1>2, <2>1, <2>2, PassKeptBy
<1>7. CASE smp[n] = "open"
  <2>1. n \in OpenIn(smp) \cup K
    BY <1>7 DEF OpenIn
  <2>2. Got(s, OpenIn(smp), K, B, N, h, n, t)
    BY <1>3, <2>1, ChipGot
  <2>3. t.kind = s.kind /\ (s.kind = "hpm" => t.ref \in Nat /\ t.ref <= s.ref)
    BY <1>3, Collects
  <2>4. Grows(s, t, 0)
    <3>1. \A k, m \in Nat : k <= m => k <= m + 0
      OBVIOUS
    <3> QED BY <2>3, <3>1 DEF Grows
  <2>5. q = [d |-> t, busy |-> C,
             sample |-> IF t.resp = "BUSY" THEN smp ELSE [smp EXCEPT ![n] = "over"]]
    BY <1>1, <1>2, <1>3, <1>4, <1>7 DEF S!CollectOne
  <2>6. Ripe(q.d) \/ "slow" \in h
    BY <2>2, <2>5 DEF Got
  <2>7. CASE t.resp = "BUSY"
    <3>1. ChipI(t, OpenIn(smp), K, C, N, h)
      BY <1>4, <2>2, <2>7 DEF Got
    <3>2. q = At(t, smp, C)
      BY <2>5, <2>7 DEF At
    <3> QED BY <1>4, <2>4, <2>6, <3>1, <3>2, PassKeptBy
  <2>8. CASE t.resp # "BUSY"
    <3>1. PICK v \in States : v = "over"
      BY DEF States
    <3>2. PICK new : new = [smp EXCEPT ![n] = v]
      OBVIOUS
    <3>3. new \in [N -> States] /\ OpenIn(new) = OpenIn(smp) \ {n}
      <4>1. Changed(smp, new, n, v, N)
        BY <3>1, <3>2, OneSample
      <4> QED BY <3>1, <3>2, <4>1 DEF Changed
    <3>4. ChipI(t, OpenIn(new), K, C, N, h)
      BY <1>4, <1>7, <2>2, <2>8, <3>3 DEF Got, OpenIn
    <3>5. q = At(t, new, C)
      BY <2>5, <2>8, <3>1, <3>2 DEF At
    <3> QED BY <1>4, <2>4, <2>6, <3>3, <3>4, <3>5, PassKeptBy
  <2> QED BY <2>7, <2>8
<1> QED BY <1>6, <1>7

\* The same of humidity and temperature, whose samples are all at one point
\* when all is well: the sample of n has come to v.
HtuCame(q, smp, n, v, N, h) ==
    \E t : \E new \in [N -> States], B \in SUBSET N, K \in {{}} :
        /\ q = At(t, new, B) /\ HtuI(t, OpenIn(new), K, B, h)
        /\ AllWell(h) => new = [smp EXCEPT ![n] = v]

LEMMA HtuCameBy ==
  ASSUME NEW q, NEW N, NEW h, NEW t, NEW smp, NEW n, NEW v, NEW new \in [N -> States],
         NEW B \in SUBSET N, NEW K, K = {}, q = At(t, new, B), HtuI(t, OpenIn(new), K, B, h),
         AllWell(h) => new = [smp EXCEPT ![n] = v]
  PROVE  HtuCame(q, smp, n, v, N, h) /\ q.d = t
<1>1. q.d = t
  BY DEF At
<1>2. K \in {{}}
  OBVIOUS
<1>3. HtuCame(q, smp, n, v, N, h)
  BY <1>2, Zenon DEF HtuCame
<1> QED BY <1>1, <1>3

\* The next measurement of a pass can be begun.
NextBegins(s, smp, n) == smp[n] = "todo" /\ (s.flags = {} \/ s.state["TEMP"] = "REQ")

LEMMA HtuBeginsOne ==
  ASSUME NEW N, NEW h, NEW s, NEW smp \in [N -> States], NEW B \in SUBSET N, N \subseteq S!HtuNames,
         NEW K, K = {}, HtuI(s, OpenIn(smp), K, B, h), NEW n \in N, NEW bad, NEW late,
         AllWell(h) => NextBegins(s, smp, n),
         NEW q, q = S!BeginOne(At(s, smp, B), n, bad, late)
  PROVE  /\ HtuCame(q, smp, n, "open", N, h)
         /\ AllWell(h) => q.d.state["TEMP"] = "REQ"
<1>1. PICK p : p = At(s, smp, B)
  OBVIOUS
<1>2. p.d = s /\ p.sample = smp /\ p.busy = B
  BY <1>1 DEF At
<1>3. PICK t : t = S!HtuInit(s, n)
  OBVIOUS
<1>4. s \in HtuDriver /\ s.kind = "htu"
  BY HtuValues DEF HtuI
<1>5. PICK v \in States : v = "open"
  BY DEF States
<1>6. AllWell(h) => n \notin B /\ n \notin s.flags
  BY DEF HtuI, OpenIn, NextBegins
<1>7. CASE smp[n] # "todo"
  <2>1. q = p /\ ~AllWell(h)
    BY <1>1, <1>2, <1>7 DEF S!BeginOne, NextBegins
  <2>2. HtuCame(q, smp, n, v, N, h)
    BY <1>1, <2>1, HtuCameBy
  <2> QED BY <1>5, <2>1, <2>2
<1>8. CASE smp[n] = "todo" /\ n \in B
  <2>1. PICK over \in States : over = "over"
    BY DEF States
  <2>2. PICK new : new = [smp EXCEPT ![n] = over]
    OBVIOUS
  <2>3. Changed(smp, new, n, over, N)
    BY <2>2, OneSample
  <2>4. new \in [N -> States] /\ OpenIn(new) = OpenIn(smp)
    BY <1>8, <2>1, <2>3 DEF Changed
  <2>5. q = At(s, new, B)
    BY <1>1, <1>2, <1>8, <2>1, <2>2 DEF S!BeginOne, At
  <2>6. ~AllWell(h)
    BY <1>6, <1>8
  <2>7. HtuI(s, OpenIn(new), K, B, h)
    BY <2>4
  <2>8. HtuCame(q, smp, n, v, N, h)
    BY <2>4, <2>5, <2>6, <2>7, HtuCameBy
  <2> QED BY <1>5, <2>6, <2>8
<1>9. CASE smp[n] = "todo" /\ n \notin B
  <2>1. PICK O : O = OpenIn(smp)
    OBVIOUS
  <2>2. /\ t \in HtuDriver
        /\ AllWell(h) => /\ t.resp = "SUCCESS" /\ t.state["TEMP"] = "REQ"
                         /\ HtuI(t, O \cup {n}, K, B \cup {n}, h)
                         /\ HtuI(t, O, K \cup {n}, B \cup {n}, h)
    <3>1. n \in S!HtuNames /\ HtuI(s, O, K, B, h)
      BY <2>1
    <3>2. AllWell(h) => n \notin s.flags /\ (s.flags = {} \/ s.state["TEMP"] = "REQ")
      BY <1>6 DEF NextBegins
    <3>3. HtuBegun(t, O, K, B, h, n)
      BY <1>3, <3>1, <3>2, HtuAsked
    <3> QED BY <3>3 DEF HtuBegun
  <2>3. q = [d |-> t, busy |-> IF t.resp = "SUCCESS" THEN B \cup {n} ELSE B,
             sample |-> CASE t.resp = "BUSY" -> smp
                          [] t.resp = "SUCCESS" -> [smp EXCEPT ![n] = "open"]
                          [] OTHER -> [smp EXCEPT ![n] = "over"]]
    <3>1. t = S!InitCb(p.d, n, n # bad, late)
      BY <1>2, <1>3, <1>4 DEF S!InitCb
    <3> QED BY <1>1, <1>2, <1>9, <3>1 DEF S!BeginOne
  <2>4. \A P, C : ~AllWell(h) => HtuI(t, P, K, C, h)
    BY <2>2 DEF HtuI
  <2>5. CASE t.resp = "SUCCESS"
    <3>1. PICK new : new = [smp EXCEPT ![n] = v]
      OBVIOUS
    <3>2. PICK C : C = B \cup {n}
      OBVIOUS
    <3>3. Changed(smp, new, n, v, N)
      BY <3>1, OneSample
    <3>4. new \in [N -> States] /\ OpenIn(new) = O \cup {n} /\ C \in SUBSET N
      BY <1>5, <2>1, <3>2, <3>3 DEF Changed
    <3>5. HtuI(t, OpenIn(new), K, C, h)
      <4>1. CASE AllWell(h)
        BY <2>2, <3>2, <3>4, <4>1
      <4>2. CASE ~AllWell(h)
        BY <2>4, <4>2
      <4> QED BY <4>1, <4>2
    <3>6. q = At(t, new, C)
      BY <1>5, <2>3, <2>5, <3>1, <3>2 DEF At
    <3>7. AllWell(h) => new = [smp EXCEPT ![n] = v]
      BY <3>1
    <3>8. new \in [N -> States] /\ C \in SUBSET N
      BY <3>4
    <3>9. HtuCame(q, smp, n, v, N, h) /\ q.d = t
      BY <3>5, <3>6, <3>7, <3>8, HtuCameBy
    <3> QED BY <1>5, <2>2, <3>9
  <2>6. CASE t.resp = "BUSY"
    <3>1. ~AllWell(h)
      BY <2>2, <2>6
    <3>2. HtuI(t, OpenIn(smp), K, B, h)
      BY <2>4, <3>1
    <3>3. q = At(t, smp, B)
      BY <2>3, <2>6 DEF At
    <3>4. HtuCame(q, smp, n, v, N, h)
      BY <3>1, <3>2, <3>3, HtuCameBy
    <3> QED BY <1>5, <3>1, <3>4
  <2>7. CASE t.resp # "BUSY" /\ t.resp # "SUCCESS"
    <3>1. ~AllWell(h)
      BY <2>2, <2>7
    <3>2. PICK over \in States : over = "over"
      BY DEF States
    <3>3. PICK new : new = [smp EXCEPT ![n] = over]
      OBVIOUS
    <3>4. Changed(smp, new, n, over, N)
      BY <3>3, OneSample
    <3>5. new \in [N -> States]
      BY <3>4 DEF Changed
    <3>6. HtuI(t, OpenIn(new), K, B, h)
      BY <2>4, <3>1
    <3>7. q = At(t, new, B)
      BY <2>3, <2>7, <3>2, <3>3 DEF At
    <3>8. HtuCame(q, smp, n, v, N, h)
      BY <3>1, <3>5, <3>6, <3>7, HtuCameBy
    <3> QED BY <1>5, <3>1, <3>8
  <2> QED BY <2>5, <2>6, <2>7
<1> QED BY <1>7, <1>8, <1>9

LEMMA HtuCollectsOne ==
  ASSUME NEW N, NEW h, NEW s, NEW smp \in [N -> States], NEW B \in SUBSET N, N \subseteq S!HtuNames,
         NEW K, K = {}, HtuI(s, OpenIn(smp), K, B, h), NEW n \in N, NEW fine, NEW late,
         AllWell(h) => smp[n] = "open" /\ S!HtuRests(s),
         NEW q, q = S!CollectOne(At(s, smp, B), n, fine, late)
  PROVE  /\ HtuCame(q, smp, n, "over", N, h)
         /\ AllWell(h) => S!HtuRests(q.d)
<1>1. PICK p : p = At(s, smp, B)
  OBVIOUS
<1>2. p.d = s /\ p.sample = smp /\ p.busy = B
  BY <1>1 DEF At
<1>3. PICK t : t = S!HtuGet(s, n)
  OBVIOUS
<1>4. s \in HtuDriver /\ s.kind = "htu"
  BY HtuValues DEF HtuI
<1>5. PICK v \in States : v = "over"
  BY DEF States
<1>6. CASE smp[n] # "open"
  <2>1. q = p /\ ~AllWell(h)
    BY <1>1, <1>2, <1>6 DEF S!CollectOne
  <2>2. HtuCame(q, smp, n, v, N, h)
    BY <1>1, <2>1, HtuCameBy
  <2> QED BY <1>5, <2>1, <2>2
<1>7. CASE smp[n] = "open"
  <2>1. PICK O : O = OpenIn(smp)
    OBVIOUS
  <2>2. n \in O \cup K /\ n \in O
    BY <1>7, <2>1 DEF OpenIn
  <2>3. /\ AllWell(h) => t.resp # "BUSY" /\ S!HtuRests(t)
        /\ n \in O => HtuI(t, O \ {n}, K, B \ {n}, h)
    <3>1. n \in S!HtuNames /\ HtuI(s, O, K, B, h)
      BY <2>1
    <3>2. AllWell(h) => S!HtuRests(s) /\ n \in O \cup K /\ (O = {} \/ K = {}) /\ K \subseteq {n}
      BY <2>2
    <3>3. HtuGiven(t, O, K, B, h, n)
      BY <1>3, <3>1, <3>2, HtuGot
    <3> QED BY <3>3 DEF HtuGiven
  <2>4. PICK C : C = B \ {n}
    OBVIOUS
  <2>5. q = [d |-> t, busy |-> C,
             sample |-> IF t.resp = "BUSY" THEN smp ELSE [smp EXCEPT ![n] = "over"]]
    <3>1. t = S!GetCb(p.d, n, fine, late)
      BY <1>2, <1>3, <1>4 DEF S!GetCb
    <3> QED BY <1>1, <1>2, <1>7, <2>4, <3>1 DEF S!CollectOne
  <2>6. CASE t.resp = "BUSY"
    <3>1. ~AllWell(h)
      BY <2>3, <2>6
    <3>2. HtuI(t, OpenIn(smp), K, C, h)
      BY <2>2, <2>3, <3>1 DEF HtuI
    <3>3. q = At(t, smp, C)
      BY <2>5, <2>6 DEF At
    <3>4. C \in SUBSET N
      BY <2>4
    <3>5. HtuCame(q, smp, n, v, N, h)
      BY <3>1, <3>2, <3>3, <3>4, HtuCameBy
    <3> QED BY <1>5, <3>1, <3>5
  <2>7. CASE t.resp # "BUSY"
    <3>1. PICK new : new = [smp EXCEPT ![n] = v]
      OBVIOUS
    <3>2. Changed(smp, new, n, v, N)
      BY <3>1, OneSample
    <3>3. new \in [N -> States] /\ OpenIn(new) = O \ {n} /\ C \in SUBSET N
      BY <1>5, <2>1, <2>4, <3>2 DEF Changed
    <3>4. HtuI(t, OpenIn(new), K, C, h)
      BY <2>2, <2>3, <2>4, <3>3
    <3>5. q = At(t, new, C)
      BY <1>5, <2>5, <2>7, <3>1 DEF At
    <3>6. AllWell(h) => new = [smp EXCEPT ![n] = v]
      BY <3>1
    <3>7. HtuCame(q, smp, n, v, N, h) /\ q.d = t
      BY <3>3, <3>4, <3>5, <3>6, HtuCameBy
    <3> QED BY <1>5, <2>3, <3>7
  <2> QED BY <2>6, <2>7
<1> QED BY <1>6, <1>7

-----------------------------------------------------------------------------
(* The invariant of a behaviour of a chip, and its steps.  It is stated of *)
(* values, so that a step need only say what they become.                  *)

Even(smp) == \E v \in {"todo", "open", "over"} : \A n \in DOMAIN smp : smp[n] = v

ChipAt(s, smp, B, c, N, h) ==
    /\ smp \in [N -> States] /\ B \in SUBSET N /\ "none" \notin N
    /\ c = S!NoCmd \/ c \in [n : N, at : {"get", "iterate"}]
    /\ c.at = "iterate" => s.kind \in {"htu", "veml"}
    /\ s.kind # "htu" => ChipI(s, OpenIn(smp), {c.n} \cap N, B, N, h)
    /\ s.kind = "hpm" => s.ref <= MaxRef + 2
    /\ s.kind = "htu" =>
           /\ HtuI(s, OpenIn(smp), {c.n} \cap N, B, h) /\ N \subseteq S!HtuNames
           /\ AllWell(h) => Even(smp) /\ (c # S!NoCmd => OpenIn(smp) = {})

\* A chip has one measurement, or two.
OneOrTwo(N) ==
    \/ \E n : measured = <<n>> /\ N = {n}
    \/ \E n, m : n # m /\ measured = <<n, m>> /\ N = {n, m}

ChipInv ==
    /\ OneOrTwo(S!Names) /\ S!SensorSystemAssumption
    /\ ChipAt(d, sample, busy, cmd, S!Names, faults.had)

LEMMA SFaultHad ==
  ASSUME NEW b, NEW f, S!FaultIf(b, f)
  PROVE  faults.had \subseteq faults'.had /\ (b => f \in faults'.had)
BY DEF S!FaultIf, S!Fault

LEMMA LateHad ==
  ASSUME NEW late \in S!Lates, NEW h, faults.had \subseteq h
  PROVE  late \in BOOLEAN /\ (late => "slow" \in h \/ "i2c" \in h)
BY DEF S!Lates, S!Had

LEMMA HpmRef ==
  ASSUME NEW s, NEW O, NEW K, NEW B, NEW N, NEW h, ChipI(s, O, K, B, N, h), s.kind = "hpm"
  PROVE  s \in HpmDriver /\ s.ref \in Nat /\ HpmI(s, O, K, B, N, h)
<1>1. HpmI(s, O, K, B, N, h)
  BY ChipKinds DEF ChipI, VemlI, DsI, SenI, RsI
<1> QED BY <1>1 DEF HpmI, HpmDriver

\* What ChipAt asks of a driver that is not that of humidity and temperature.
LEMMA PlainAt ==
  ASSUME NEW s, NEW N, NEW h, "none" \notin N, NEW smp \in [N -> States], NEW B \in SUBSET N,
         NEW c, c = S!NoCmd \/ c \in [n : N, at : {"get", "iterate"}],
         c.at = "iterate" => s.kind = "veml", NEW K, K = {c.n} \cap N,
         ChipI(s, OpenIn(smp), K, B, N, h), s.kind # "htu",
         s.kind = "hpm" => s.ref <= MaxRef + 2
  PROVE  ChipAt(s, smp, B, c, N, h)
BY DEF ChipAt

\* The last of a step.
LEMMA ChipInvNext ==
  ASSUME ChipInv, UNCHANGED measured,
         ChipAt(d', sample', busy', cmd', S!Names, faults'.had)
  PROVE  ChipInv'
<1>1. S!Names' = S!Names
  BY DEF S!Names
<1>2. OneOrTwo(S!Names)'
  BY <1>1 DEF ChipInv, OneOrTwo
<1>3. S!SensorSystemAssumption'
  BY DEF ChipInv, S!SensorSystemAssumption
<1> QED BY <1>1, <1>2, <1>3 DEF ChipInv

\* What a step starts from: the samples O that are open and the command's K.

\* What a step starts from: the command's measurement, if there is one, is K.
Starts(K) ==
    /\ sample \in [S!Names -> States] /\ busy \in SUBSET S!Names /\ "none" \notin S!Names
    /\ cmd = S!NoCmd \/ cmd \in [n : S!Names, at : {"get", "iterate"}]
    /\ cmd.at = "iterate" => d.kind \in {"htu", "veml"}
    /\ S!Open = OpenIn(sample) /\ K = {cmd.n} \cap S!Names
    /\ d.kind # "htu" => ChipI(d, S!Open, K, busy, S!Names, faults.had)
    /\ d.kind = "hpm" => d.ref \in Nat /\ d.ref <= MaxRef + 2
    /\ d.kind = "htu" =>
           /\ HtuI(d, S!Open, K, busy, faults.had) /\ S!Names \subseteq S!HtuNames
           /\ AllWell(faults.had) => Even(sample) /\ (~S!Idle => S!Open = {})
    /\ S!Idle => K = {}
    /\ ~S!Idle => K = {cmd.n} /\ cmd.n \in S!Names
    /\ MaxRef \in Nat

LEMMA ChipStarts ==
  ASSUME ChipInv
  PROVE  \E K : Starts(K)
<1>1. PICK K : K = {cmd.n} \cap S!Names
  OBVIOUS
<1>2. /\ sample \in [S!Names -> States] /\ busy \in SUBSET S!Names /\ "none" \notin S!Names
      /\ cmd = S!NoCmd \/ cmd \in [n : S!Names, at : {"get", "iterate"}]
      /\ cmd.at = "iterate" => d.kind \in {"htu", "veml"}
      /\ d.kind = "hpm" => d.ref <= MaxRef + 2
  BY DEF ChipInv, ChipAt
<1>3. S!Open = OpenIn(sample)
  BY <1>2 DEF S!Open, OpenIn
<1>4. d.kind # "htu" => ChipI(d, S!Open, K, busy, S!Names, faults.had)
  BY <1>1, <1>3 DEF ChipInv, ChipAt
<1>5. d.kind = "hpm" => d.ref \in Nat
  BY <1>4, HpmRef
<1>6. d.kind = "htu" =>
        /\ HtuI(d, S!Open, K, busy, faults.had) /\ S!Names \subseteq S!HtuNames
        /\ AllWell(faults.had) => Even(sample) /\ (~S!Idle => S!Open = {})
  BY <1>1, <1>3 DEF ChipInv, ChipAt, S!Idle
<1>7. S!Idle => K = {}
  BY <1>1, <1>2 DEF S!Idle, S!NoCmd
<1>8. ~S!Idle => K = {cmd.n} /\ cmd.n \in S!Names
  BY <1>1, <1>2 DEF S!Idle
<1>9. MaxRef \in Nat
  BY DEF ChipInv, S!SensorSystemAssumption
<1>10. Starts(K)
  BY <1>1, <1>2, <1>3, <1>4, <1>5, <1>6, <1>7, <1>8, <1>9 DEF Starts
<1> QED BY <1>10

-----------------------------------------------------------------------------
(* The passes, of a driver that is not that of humidity and temperature.   *)

LEMMA BeginAllKept ==
  ASSUME NEW N, OneOrTwo(N), NEW h, NEW s, NEW smp \in [N -> States], NEW B \in SUBSET N,
         NEW K, K = {}, ChipI(s, OpenIn(smp), K, B, N, h),
         NEW bad, bad \in N => "i2c" \in h,
         NEW late \in BOOLEAN, late => "slow" \in h \/ "i2c" \in h,
         NEW q, q = S!BeginAll(At(s, smp, B), bad, late)
  PROVE  PassKept(q, N, h) /\ Grows(s, q.d, 2)
<1>1. \A n \in N : n = bad => "i2c" \in h
  OBVIOUS
<1>2. \A k, m, r \in Nat : /\ k <= m + 1 => k <= m + 2
                           /\ k <= r + 1 /\ r <= m + 1 => k <= m + 2
  OBVIOUS
<1>3. s.kind = "hpm" => s.ref \in Nat
  BY HpmRef
<1>4. CASE \E n : measured = <<n>> /\ N = {n}
  <2>1. PICK n : measured = <<n>> /\ N = {n}
    BY <1>4
  <2>2. q = S!BeginOne(At(s, smp, B), n, bad, late)
    BY <2>1 DEF S!BeginAll
  <2>3. PassKept(q, N, h) /\ Grows(s, q.d, 1)
    BY <1>1, <1>3, <2>1, <2>2, BeginOneKept
  <2> QED BY <1>2, <1>3, <2>3 DEF Grows
<1>5. CASE \E n, m : n # m /\ measured = <<n, m>> /\ N = {n, m}
  <2>1. PICK n, m : n # m /\ measured = <<n, m>> /\ N = {n, m}
    BY <1>5
  <2>2. PICK p : p = S!BeginOne(At(s, smp, B), n, bad, late)
    OBVIOUS
  <2>3. q = S!BeginOne(p, m, bad, late)
    BY <2>1, <2>2 DEF S!BeginAll
  <2>4. PassKept(p, N, h) /\ Grows(s, p.d, 1)
    BY <1>1, <1>3, <2>1, <2>2, BeginOneKept
  <2>5. PICK t : \E new \in [N -> States], C \in SUBSET N, M \in {{}} :
                     p = At(t, new, C) /\ ChipI(t, OpenIn(new), M, C, N, h)
    BY <2>4 DEF PassKept
  <2>6. PICK new \in [N -> States], C \in SUBSET N, M \in {{}} :
                     p = At(t, new, C) /\ ChipI(t, OpenIn(new), M, C, N, h)
    BY <2>5
  <2>7. p.d = t /\ M = {}
    BY <2>6 DEF At
  <2>8. t.kind = "hpm" => t.ref \in Nat
    BY <2>6, HpmRef
  <2>9. PassKept(q, N, h) /\ Grows(t, q.d, 1)
    <3>1. m \in N /\ (m = bad => "i2c" \in h)
      BY <1>1, <2>1
    <3>2. q = S!BeginOne(At(t, new, C), m, bad, late)
      BY <2>3, <2>6
    <3> QED BY <2>6, <2>7, <2>8, <3>1, <3>2, BeginOneKept
  <2> QED BY <1>2, <1>3, <2>4, <2>7, <2>8, <2>9 DEF Grows
<1> QED BY <1>4, <1>5 DEF OneOrTwo

LEMMA CollectAllKept ==
  ASSUME NEW N, OneOrTwo(N), NEW h, NEW s, NEW smp \in [N -> States], NEW B \in SUBSET N,
         NEW K, K = {}, ChipI(s, OpenIn(smp), K, B, N, h),
         Ripe(s) \/ "slow" \in h, NEW fine \in BOOLEAN,
         NEW late \in BOOLEAN, late => "slow" \in h \/ "i2c" \in h,
         NEW q, q = S!CollectAll(At(s, smp, B), fine, late)
  PROVE  PassKept(q, N, h) /\ Grows(s, q.d, 0)
<1>2. \A k, m, r \in Nat : k <= r + 0 /\ r <= m + 0 => k <= m + 0
  OBVIOUS
<1>3. s.kind = "hpm" => s.ref \in Nat
  BY HpmRef
<1>4. CASE \E n : measured = <<n>> /\ N = {n}
  <2>1. PICK n : measured = <<n>> /\ N = {n}
    BY <1>4
  <2>2. q = S!CollectOne(At(s, smp, B), n, fine, late)
    BY <2>1 DEF S!CollectAll
  <2>3. PassKept(q, N, h) /\ Grows(s, q.d, 0) /\ (Ripe(q.d) \/ "slow" \in h)
    BY <1>3, <2>1, <2>2, CollectOneKept
  <2> QED BY <2>3
<1>5. CASE \E n, m : n # m /\ measured = <<n, m>> /\ N = {n, m}
  <2>1. PICK n, m : n # m /\ measured = <<n, m>> /\ N = {n, m}
    BY <1>5
  <2>2. PICK p : p = S!CollectOne(At(s, smp, B), n, fine, late)
    OBVIOUS
  <2>3. q = S!CollectOne(p, m, fine, late)
    BY <2>1, <2>2 DEF S!CollectAll
  <2>4. PassKept(p, N, h) /\ Grows(s, p.d, 0) /\ (Ripe(p.d) \/ "slow" \in h)
    BY <1>3, <2>1, <2>2, CollectOneKept
  <2>5. PICK t : \E new \in [N -> States], C \in SUBSET N, M \in {{}} :
                     p = At(t, new, C) /\ ChipI(t, OpenIn(new), M, C, N, h)
    BY <2>4 DEF PassKept
  <2>6. PICK new \in [N -> States], C \in SUBSET N, M \in {{}} :
                     p = At(t, new, C) /\ ChipI(t, OpenIn(new), M, C, N, h)
    BY <2>5
  <2>7. p.d = t /\ M = {}
    BY <2>6 DEF At
  <2>8. t.kind = "hpm" => t.ref \in Nat
    BY <2>6, HpmRef
  <2>9. PassKept(q, N, h) /\ Grows(t, q.d, 0) /\ (Ripe(q.d) \/ "slow" \in h)
    BY <2>1, <2>3, <2>4, <2>6, <2>7, <2>8, CollectOneKept
  <2> QED BY <1>2, <1>3, <2>4, <2>7, <2>8, <2>9 DEF Grows
<1> QED BY <1>4, <1>5 DEF OneOrTwo

\* What a pass leaves keeps the invariant.
LEMMA PlainPassed ==
  ASSUME ChipInv, S!Idle, UNCHANGED <<measured, cmd>>, d.kind # "htu",
         NEW q, PassKept(q, S!Names, faults'.had), S!Do(q),
         q.d.kind = d.kind, d.kind = "hpm" => q.d.ref <= MaxRef + 2
  PROVE  ChipInv'
<1>1. PICK K : Starts(K)
  BY ChipStarts
<1>2. PICK t : \E smp \in [S!Names -> States], B \in SUBSET S!Names, M \in {{}} :
                   q = At(t, smp, B) /\ ChipI(t, OpenIn(smp), M, B, S!Names, faults'.had)
  BY DEF PassKept
<1>3. PICK smp \in [S!Names -> States], B \in SUBSET S!Names, M \in {{}} :
          q = At(t, smp, B) /\ ChipI(t, OpenIn(smp), M, B, S!Names, faults'.had)
  BY <1>2
<1>4. d' = t /\ sample' = smp /\ busy' = B /\ q.d = t
  BY <1>3 DEF S!Do, At
<1>5. t.kind = d.kind /\ (t.kind = "hpm" => t.ref <= MaxRef + 2)
  BY <1>4
<1>7. "none" \notin S!Names /\ cmd = S!NoCmd /\ M = {cmd.n} \cap S!Names
  BY <1>1, <1>3 DEF Starts, S!Idle
<1>8. cmd.at # "iterate"
  BY <1>7 DEF S!NoCmd
<1>9. ChipAt(t, smp, B, cmd, S!Names, faults'.had)
  BY <1>3, <1>5, <1>7, <1>8, PlainAt
<1> QED BY <1>4, <1>9, ChipInvNext

LEMMA PlainBeginPass ==
  ASSUME ChipInv, S!BeginPass, d.kind # "htu"
  PROVE  ChipInv'
<1>1. PICK K : Starts(K)
  BY ChipStarts
<1>2. PICK bad \in {"none"} \cup S!Names, late \in S!Lates :
          /\ S!FaultIf(bad # "none", "i2c")
          /\ S!Do(S!BeginAll(S!Now, bad, late))
  BY DEF S!BeginPass
<1>3. PICK h : h = faults'.had
  OBVIOUS
<1>4. PICK hit \in BOOLEAN, what \in {"i2c"} : hit = (bad # "none") /\ what = "i2c"
  OBVIOUS
<1>5. faults.had \subseteq h /\ (hit => what \in h)
  BY <1>2, <1>3, <1>4, SFaultHad
<1>6. late \in BOOLEAN /\ (late => "slow" \in h \/ "i2c" \in h)
  BY <1>2, <1>5, LateHad
<1>7. PICK s : s = S!Clean(d)
  OBVIOUS
<1>8. PICK O : O = OpenIn(sample)
  OBVIOUS
<1>9. /\ ChipI(s, O, K, busy, S!Names, h) /\ s.kind = d.kind
      /\ Ripe(d) => Ripe(s)
      /\ d.kind = "hpm" => s.ref = d.ref
  <2>1. ChipI(d, O, K, busy, S!Names, faults.had)
    BY <1>1, <1>8 DEF Starts
  <2> QED BY <1>5, <1>7, <2>1, ChipCleaned
<1>10. PICK q : q = S!BeginAll(At(s, sample, busy), bad, late)
  OBVIOUS
<1>11. S!Idle /\ UNCHANGED <<measured, cmd>> /\ S!Do(q)
  BY <1>2, <1>7, <1>10 DEF S!BeginPass, S!Now, At
<1>12. PassKept(q, S!Names, h) /\ Grows(s, q.d, 2)
  <2>1. OneOrTwo(S!Names)
    BY DEF ChipInv
  <2>2. K = {} /\ sample \in [S!Names -> States] /\ busy \in SUBSET S!Names
    BY <1>1, <1>11 DEF Starts
  <2>3. bad \in S!Names => "i2c" \in h
    BY <1>1, <1>4, <1>5 DEF Starts
  <2> QED BY <1>6, <1>8, <1>9, <1>10, <2>1, <2>2, <2>3, BeginAllKept
<1>13. q.d.kind = d.kind /\ (d.kind = "hpm" => q.d.ref <= MaxRef + 2)
  <2>1. \A k, l, m \in Nat : k < m /\ l <= k + 2 => l <= m + 2
    OBVIOUS
  <2>2. d.kind = "hpm" => d.ref < MaxRef
    BY DEF S!BeginPass
  <2> QED BY <1>1, <1>9, <1>12, <2>1, <2>2 DEF Starts, Grows
<1> QED BY <1>3, <1>11, <1>12, <1>13, PlainPassed

\* HadItsTime, and the fault that it is when a reading is collected before.
LEMMA PlainRipe ==
  ASSUME NEW fine \in S!Fines,
         S!FaultIf(~fine \/ ~S!HadItsTime, IF fine THEN "slow" ELSE "i2c"), d.kind # "htu"
  PROVE  /\ fine \in BOOLEAN /\ faults.had \subseteq faults'.had
         /\ Ripe(d) \/ "slow" \in faults'.had
<1>1. fine \in BOOLEAN /\ (~fine => d.kind = "ds" /\ ~d.converting)
  BY DEF S!Fines
<1>2. PICK what : what = IF fine THEN "slow" ELSE "i2c"
  OBVIOUS
<1>3. PICK hit \in BOOLEAN : hit = (~fine \/ ~S!HadItsTime)
  OBVIOUS
<1>4. faults.had \subseteq faults'.had /\ (hit => what \in faults'.had)
  BY <1>2, <1>3, SFaultHad
<1>5. S!HadItsTime => Ripe(d)
  BY DEF S!HadItsTime, Ripe
<1>6. ~fine => Ripe(d)
  BY <1>1 DEF Ripe
<1> QED BY <1>1, <1>2, <1>3, <1>4, <1>5, <1>6

LEMMA PlainCollectPass ==
  ASSUME ChipInv, S!CollectPass, d.kind # "htu"
  PROVE  ChipInv'
<1>1. PICK K : Starts(K)
  BY ChipStarts
<1>2. PICK fine \in S!Fines, late \in S!Lates :
          /\ S!FaultIf(~fine \/ ~S!HadItsTime, IF fine THEN "slow" ELSE "i2c")
          /\ S!Do(S!CollectAll(S!Now, fine, late))
  BY DEF S!CollectPass
<1>3. PICK h : h = faults'.had
  OBVIOUS
<1>4. fine \in BOOLEAN /\ faults.had \subseteq h /\ (Ripe(d) \/ "slow" \in h)
  BY <1>2, <1>3, PlainRipe
<1>5. late \in BOOLEAN /\ (late => "slow" \in h \/ "i2c" \in h)
  BY <1>2, <1>4, LateHad
<1>6. PICK s : s = S!Clean(d)
  OBVIOUS
<1>7. PICK O : O = OpenIn(sample)
  OBVIOUS
<1>8. /\ ChipI(s, O, K, busy, S!Names, h) /\ s.kind = d.kind
      /\ Ripe(d) => Ripe(s)
      /\ d.kind = "hpm" => s.ref = d.ref
  <2>1. ChipI(d, O, K, busy, S!Names, faults.had)
    BY <1>1, <1>7 DEF Starts
  <2> QED BY <1>4, <1>6, <2>1, ChipCleaned
<1>9. PICK q : q = S!CollectAll(At(s, sample, busy), fine, late)
  OBVIOUS
<1>10. S!Idle /\ UNCHANGED <<measured, cmd>> /\ S!Do(q)
  BY <1>2, <1>6, <1>9 DEF S!CollectPass, S!Now, At
<1>11. PassKept(q, S!Names, h) /\ Grows(s, q.d, 0)
  <2>1. OneOrTwo(S!Names)
    BY DEF ChipInv
  <2>2. K = {} /\ sample \in [S!Names -> States] /\ busy \in SUBSET S!Names
    BY <1>1, <1>10 DEF Starts
  <2>3. Ripe(s) \/ "slow" \in h
    BY <1>4, <1>8
  <2> QED BY <1>4, <1>5, <1>7, <1>8, <1>9, <2>1, <2>2, <2>3, CollectAllKept
<1>12. q.d.kind = d.kind /\ (d.kind = "hpm" => q.d.ref <= MaxRef + 2)
  <2>1. \A k, l, m \in Nat : k <= m + 2 /\ l <= k + 0 => l <= m + 2
    OBVIOUS
  <2> QED BY <1>1, <1>8, <1>11, <2>1 DEF Starts, Grows
<1> QED BY <1>3, <1>10, <1>11, <1>12, PlainPassed

-----------------------------------------------------------------------------
(* The other steps of such a driver.                                       *)

PlainFrom(s, O, K, h) ==
    /\ ChipI(s, O, K, busy, S!Names, h) /\ s.kind = d.kind /\ (Ripe(d) => Ripe(s))
    /\ d.kind = "hpm" => s.ref = d.ref /\ s.ref \in Nat /\ s.ref <= MaxRef + 2

LEMMA PlainStarts ==
  ASSUME d.kind # "htu", NEW K, Starts(K), NEW h, faults.had \subseteq h,
         NEW s, s = S!Clean(d), NEW O, O = OpenIn(sample)
  PROVE  PlainFrom(s, O, K, h)
<1>1. ChipI(d, O, K, busy, S!Names, faults.had)
  BY DEF Starts
<1>2. /\ ChipI(s, O, K, busy, S!Names, h) /\ s.kind = d.kind
      /\ Ripe(d) => Ripe(s)
      /\ d.kind = "hpm" => s.ref = d.ref
  BY <1>1, ChipCleaned
<1> QED BY <1>2 DEF PlainFrom, Starts

LEMMA PlainEnds ==
  ASSUME ChipInv, UNCHANGED measured, d.kind # "htu", d'.kind = d.kind,
         sample' \in [S!Names -> States], busy' \in SUBSET S!Names,
         cmd' = S!NoCmd \/ cmd' \in [n : S!Names, at : {"get", "iterate"}],
         cmd'.at = "iterate" => d.kind = "veml", NEW K, K = {cmd'.n} \cap S!Names,
         ChipI(d', OpenIn(sample'), K, busy', S!Names, faults'.had),
         d.kind = "hpm" => d'.ref <= MaxRef + 2
  PROVE  ChipInv'
<1>1. "none" \notin S!Names
  BY DEF ChipInv, ChipAt
<1>2. PICK s, smp, B, c, h : s = d' /\ smp = sample' /\ B = busy' /\ c = cmd' /\ h = faults'.had
  OBVIOUS
<1>3. ChipAt(s, smp, B, c, S!Names, h)
  BY <1>1, <1>2, PlainAt
<1> QED BY <1>2, <1>3, ChipInvNext

LEMMA PlainNextInterval ==
  ASSUME ChipInv, S!NextInterval, d.kind # "htu"
  PROVE  ChipInv'
<1>1. PICK K : Starts(K)
  BY ChipStarts
<1>2. PICK h, s, O : h = faults'.had /\ s = S!Clean(d) /\ O = OpenIn(sample)
  OBVIOUS
<1>3. faults.had \subseteq h /\ (O = {} \/ "cut" \in h)
  <2>1. PICK hit \in BOOLEAN, what \in {"cut"} : hit = (S!Open # {}) /\ what = "cut"
    OBVIOUS
  <2>2. S!FaultIf(hit, what)
    BY <2>1 DEF S!NextInterval
  <2>3. faults.had \subseteq h /\ (hit => what \in h)
    BY <1>2, <2>2, SFaultHad
  <2> QED BY <1>1, <1>2, <2>1, <2>3 DEF Starts
<1>4. PlainFrom(s, O, K, h)
  BY <1>1, <1>2, <1>3, PlainStarts
<1>5. K = {} /\ cmd = S!NoCmd /\ K = {cmd.n} \cap S!Names
  BY <1>1 DEF Starts, S!NextInterval, S!Idle
<1>6. ChipI(s, O, {}, busy, S!Names, h)
  BY <1>4, <1>5 DEF PlainFrom
<1>7. ChipI(s, {}, {}, busy, S!Names, h)
  BY <1>3, <1>6, ChipCut
<1>8. sample' \in [S!Names -> States] /\ OpenIn(sample') = {}
  BY DEF S!NextInterval, States, OpenIn
<1>9. UNCHANGED <<measured, busy, cmd>> /\ d' = s
  BY <1>2 DEF S!NextInterval
<1>10. ChipI(d', OpenIn(sample'), K, busy', S!Names, faults'.had)
  BY <1>2, <1>5, <1>7, <1>8, <1>9
<1>11. /\ d'.kind = d.kind /\ busy' \in SUBSET S!Names /\ cmd' = S!NoCmd /\ cmd'.at # "iterate"
       /\ d.kind = "hpm" => d'.ref <= MaxRef + 2
       /\ K = {cmd'.n} \cap S!Names
  BY <1>1, <1>4, <1>5, <1>9 DEF PlainFrom, Starts, S!NoCmd
<1> QED BY <1>8, <1>9, <1>10, <1>11, PlainEnds

LEMMA PlainIterate ==
  ASSUME ChipInv, NEW n \in S!Names, S!Iterate(n), d.kind # "htu"
  PROVE  ChipInv'
<1>1. PICK K : Starts(K)
  BY ChipStarts
<1>2. PICK fine \in BOOLEAN, bright \in BOOLEAN, late \in S!Lates :
          LET t == S!IterationCb(S!Clean(d), n, fine, bright, late)
              failed == t.resp = "ERROR"
          IN  /\ S!FaultIf(~fine, "i2c")
              /\ d' = t
              /\ sample' = IF failed THEN [sample EXCEPT ![n] = "failed"] ELSE sample
              /\ busy' = IF failed THEN busy \ {n} ELSE busy
  BY DEF S!Iterate
<1>3. PICK h, s, O : h = faults'.had /\ s = S!Clean(d) /\ O = OpenIn(sample)
  OBVIOUS
<1>4. faults.had \subseteq h
  <2>1. PICK hit, what : hit = ~fine /\ what = "i2c"
    OBVIOUS
  <2> QED BY <1>2, <1>3, <2>1, SFaultHad
<1>5. PlainFrom(s, O, K, h)
  BY <1>1, <1>3, <1>4, PlainStarts
<1>6. s.kind = "veml" /\ d.kind = "veml"
  BY <1>5 DEF PlainFrom, S!Iterate, S!HasIteration
<1>7. PICK t : t = S!VemlIterate(s, fine, bright, late)
  OBVIOUS
<1>8. late \in BOOLEAN
  BY <1>2, <1>4, LateHad
<1>9. /\ ChipI(t, O, K, busy, S!Names, h) /\ t.kind = "veml"
      /\ t.resp = "ERROR" => ChipI(t, O \ {n}, K, busy \ {n}, S!Names, h)
  <2>1. ChipI(s, O, K, busy, S!Names, h)
    BY <1>5 DEF PlainFrom
  <2>2. VemlGoesOn(t, O, K, busy, S!Names, h, n)
    BY <1>2, <1>6, <1>7, <1>8, <2>1, VemlIterated
  <2> QED BY <2>2 DEF VemlGoesOn
<1>10. /\ d' = t
       /\ sample' = IF t.resp = "ERROR" THEN [sample EXCEPT ![n] = "failed"] ELSE sample
       /\ busy' = IF t.resp = "ERROR" THEN busy \ {n} ELSE busy
  BY <1>2, <1>3, <1>6, <1>7 DEF S!IterationCb
<1>11. /\ ChipI(t, OpenIn(sample'), K, busy', S!Names, h)
       /\ sample' \in [S!Names -> States] /\ busy' \in SUBSET S!Names
  <2>1. CASE t.resp = "ERROR"
    <3>1. PICK v \in States : v = "failed"
      BY DEF States
    <3>2. PICK new : new = [sample EXCEPT ![n] = v]
      OBVIOUS
    <3>3. Changed(sample, new, n, v, S!Names)
      BY <1>1, <3>2, OneSample DEF Starts
    <3>4. new \in [S!Names -> States] /\ OpenIn(new) = O \ {n}
      BY <1>3, <3>1, <3>3 DEF Changed
    <3>5. sample' = new /\ busy' = busy \ {n}
      BY <1>10, <2>1, <3>1, <3>2
    <3> QED BY <1>1, <1>9, <2>1, <3>4, <3>5 DEF Starts
  <2>2. CASE t.resp # "ERROR"
    BY <1>1, <1>3, <1>9, <1>10, <2>2 DEF Starts
  <2> QED BY <2>1, <2>2
<1>12. cmd' = S!NoCmd /\ K = {cmd'.n} \cap S!Names /\ UNCHANGED measured /\ cmd'.at # "iterate"
  BY <1>1 DEF Starts, S!Iterate, S!Idle, S!NoCmd
<1>13. d'.kind = d.kind /\ d.kind # "hpm"
  BY <1>6, <1>9, <1>10
<1>14. ChipI(d', OpenIn(sample'), K, busy', S!Names, faults'.had)
  BY <1>3, <1>10, <1>11
<1> QED BY <1>11, <1>12, <1>13, <1>14, PlainEnds

LEMMA PlainGetMeas ==
  ASSUME ChipInv, NEW n \in S!Names, S!GetMeas(n), d.kind # "htu"
  PROVE  ChipInv'
<1>1. PICK K : Starts(K)
  BY ChipStarts
<1>2. PICK late \in S!Lates : d' = S!InitCb(S!Clean(d), n, TRUE, late)
  BY DEF S!GetMeas
<1>3. PICK h, s, O : h = faults'.had /\ s = S!Clean(d) /\ O = OpenIn(sample)
  OBVIOUS
<1>4. faults.had \subseteq h
  BY <1>3 DEF S!GetMeas, S!Fault
<1>5. PlainFrom(s, O, K, h)
  BY <1>1, <1>3, <1>4, PlainStarts
<1>6. late \in BOOLEAN /\ (late => "slow" \in h \/ "i2c" \in h)
  BY <1>2, <1>4, LateHad
<1>7. PICK fine \in BOOLEAN : fine = TRUE
  OBVIOUS
<1>8. PICK t : t = S!InitCb(s, n, fine, late)
  OBVIOUS
<1>9. ChipI(s, O, K, busy, S!Names, h)
  BY <1>5 DEF PlainFrom
<1>10. Asked(s, O, K, busy, S!Names, h, n, t) /\ (s.kind = "hpm" => t.ref = s.ref + 1)
  <2>1. n \notin busy /\ (~fine => "i2c" \in h)
    BY <1>7 DEF S!GetMeas
  <2> QED BY <1>6, <1>8, <1>9, <2>1, ChipAsked
<1>11. d' = t /\ t.kind = d.kind
  <2>1. t.kind = s.kind
    BY <1>8, <1>6, <1>9, Begins
  <2> QED BY <1>2, <1>3, <1>5, <1>7, <1>8, <2>1 DEF PlainFrom
<1>12. d.kind = "hpm" => d'.ref <= MaxRef + 2
  <2>1. \A k, m \in Nat : k < m => k + 1 <= m + 2
    OBVIOUS
  <2>2. d.kind = "hpm" => d.ref < MaxRef
    BY DEF S!GetMeas
  <2> QED BY <1>1, <1>5, <1>10, <1>11, <2>1, <2>2 DEF PlainFrom, Starts
<1>13. K = {} /\ cmd = S!NoCmd
  BY <1>1 DEF Starts, S!GetMeas, S!Idle
<1>14. UNCHANGED <<measured, sample>> /\ sample' \in [S!Names -> States] /\ O = OpenIn(sample')
  BY <1>1, <1>3 DEF Starts, S!GetMeas
<1>15. CASE t.resp = "SUCCESS"
  <2>1. busy' = busy \cup {n} /\ cmd' = [n |-> n, at |-> IF S!HasIteration(d) THEN "iterate" ELSE "get"]
    BY <1>11, <1>15 DEF S!GetMeas
  <2>2. PICK M : M = {n}
    OBVIOUS
  <2>3. ChipI(t, O, M, busy', S!Names, h)
    BY <1>10, <1>13, <1>15, <2>1, <2>2 DEF Asked
  <2>4. ChipI(d', OpenIn(sample'), M, busy', S!Names, faults'.had)
    BY <1>3, <1>11, <1>14, <2>3
  <2>5. cmd' \in [n : S!Names, at : {"get", "iterate"}] /\ M = {cmd'.n} \cap S!Names
    BY <2>1, <2>2
  <2>6. cmd'.at = "iterate" => d.kind = "veml"
    BY <2>1 DEF S!HasIteration
  <2>7. busy' \in SUBSET S!Names /\ d'.kind = d.kind
    BY <1>1, <1>11, <2>1 DEF Starts
  <2> QED BY <1>12, <1>14, <2>4, <2>5, <2>6, <2>7, PlainEnds
<1>16. CASE t.resp # "SUCCESS"
  <2>1. UNCHANGED <<busy, cmd>>
    BY <1>11, <1>16 DEF S!GetMeas
  <2>2. ChipI(t, O, K, busy', S!Names, h)
    BY <1>10, <1>16, <2>1 DEF Asked
  <2>3. ChipI(d', OpenIn(sample'), K, busy', S!Names, faults'.had)
    BY <1>3, <1>11, <1>14, <2>2
  <2>4. cmd' = S!NoCmd /\ cmd'.at # "iterate" /\ K = {cmd'.n} \cap S!Names
    BY <1>1, <1>13, <2>1 DEF Starts, S!NoCmd
  <2>5. busy' \in SUBSET S!Names /\ d'.kind = d.kind
    BY <1>1, <1>11, <2>1 DEF Starts
  <2> QED BY <1>12, <1>14, <2>3, <2>4, <2>5, PlainEnds
<1> QED BY <1>15, <1>16

LEMMA PlainGetMeasIterate ==
  ASSUME ChipInv, S!GetMeasIterate, d.kind # "htu"
  PROVE  ChipInv'
<1>1. PICK K : Starts(K)
  BY ChipStarts
<1>2. PICK fine \in BOOLEAN, bright \in BOOLEAN, late \in S!Lates :
          /\ S!FaultIf(~fine, "i2c")
          /\ d' = S!IterationCb(S!Clean(d), cmd.n, fine, bright, late)
  BY DEF S!GetMeasIterate
<1>3. PICK h, s, O : h = faults'.had /\ s = S!Clean(d) /\ O = OpenIn(sample)
  OBVIOUS
<1>4. faults.had \subseteq h
  <2>1. PICK hit, what : hit = ~fine /\ what = "i2c"
    OBVIOUS
  <2> QED BY <1>2, <1>3, <2>1, SFaultHad
<1>5. PlainFrom(s, O, K, h)
  BY <1>1, <1>3, <1>4, PlainStarts
<1>6. cmd.at = "iterate"
  BY DEF S!GetMeasIterate
<1>7. s.kind = "veml" /\ d.kind = "veml"
  BY <1>1, <1>5, <1>6 DEF PlainFrom, Starts
<1>8. PICK t : t = S!VemlIterate(s, fine, bright, late)
  OBVIOUS
<1>9. late \in BOOLEAN
  BY <1>2, <1>4, LateHad
<1>10. ChipI(t, O, K, busy, S!Names, h) /\ t.kind = "veml"
  <2>1. ChipI(s, O, K, busy, S!Names, h)
    BY <1>5 DEF PlainFrom
  <2>2. VemlGoesOn(t, O, K, busy, S!Names, h, cmd.n)
    BY <1>2, <1>7, <1>8, <1>9, <2>1, VemlIterated
  <2> QED BY <2>2 DEF VemlGoesOn
<1>11. d' = t
  BY <1>2, <1>3, <1>7, <1>8 DEF S!IterationCb
<1>12. UNCHANGED <<measured, sample, busy>> /\ cmd' = IF d'.resp = "SUCCESS" THEN [cmd EXCEPT !.at = "get"] ELSE cmd
  BY DEF S!GetMeasIterate
<1>13. cmd \in [n : S!Names, at : {"get", "iterate"}]
  BY <1>1, <1>6 DEF Starts, S!NoCmd
<1>14. cmd' \in [n : S!Names, at : {"get", "iterate"}] /\ cmd'.n = cmd.n
  BY <1>12, <1>13
<1>15. ChipI(d', OpenIn(sample'), K, busy', S!Names, faults'.had)
  BY <1>3, <1>10, <1>11, <1>12
<1>16. /\ sample' \in [S!Names -> States] /\ busy' \in SUBSET S!Names /\ K = {cmd'.n} \cap S!Names
       /\ d'.kind = d.kind
  BY <1>1, <1>7, <1>10, <1>11, <1>12, <1>14 DEF Starts
<1>17. d.kind # "hpm"
  BY <1>7
<1> QED BY <1>7, <1>12, <1>14, <1>15, <1>16, <1>17, PlainEnds

LEMMA PlainGetMeasGet ==
  ASSUME ChipInv, S!GetMeasGet, d.kind # "htu"
  PROVE  ChipInv'
<1>1. PICK K : Starts(K)
  BY ChipStarts
<1>2. PICK fine \in S!Fines, late \in S!Lates :
          /\ S!FaultIf(~fine \/ ~S!HadItsTime, IF fine THEN "slow" ELSE "i2c")
          /\ d' = S!GetCb(S!Clean(d), cmd.n, fine, late)
  BY DEF S!GetMeasGet
<1>3. PICK h, s, O : h = faults'.had /\ s = S!Clean(d) /\ O = OpenIn(sample)
  OBVIOUS
<1>4. fine \in BOOLEAN /\ faults.had \subseteq h /\ (Ripe(d) \/ "slow" \in h)
  BY <1>2, <1>3, PlainRipe
<1>5. late \in BOOLEAN /\ (late => "slow" \in h \/ "i2c" \in h)
  BY <1>2, <1>4, LateHad
<1>6. PlainFrom(s, O, K, h)
  BY <1>1, <1>3, <1>4, PlainStarts
<1>7. PICK n, B : n = cmd.n /\ B = busy
  OBVIOUS
<1>8. cmd.at = "get" /\ ~S!Idle
  BY DEF S!GetMeasGet, S!Idle, S!NoCmd
<1>9. n \in S!Names /\ K = {n} /\ cmd \in [n : S!Names, at : {"get", "iterate"}]
  BY <1>1, <1>7, <1>8 DEF Starts, S!Idle
<1>10. PICK t : t = S!GetCb(s, n, fine, late)
  OBVIOUS
<1>11. d' = t
  BY <1>2, <1>3, <1>7, <1>10
<1>12. ChipI(s, O, K, B, S!Names, h) /\ (Ripe(s) \/ "slow" \in h)
  BY <1>4, <1>6, <1>7 DEF PlainFrom
<1>13. Got(s, O, K, B, S!Names, h, n, t)
  BY <1>4, <1>5, <1>9, <1>10, <1>12, ChipGot
<1>14. t.kind = s.kind /\ (s.kind = "hpm" => t.ref \in Nat /\ t.ref <= s.ref)
  BY <1>4, <1>5, <1>10, <1>12, Collects
<1>15. d'.kind = d.kind /\ (d.kind = "hpm" => d'.ref <= MaxRef + 2)
  <2>1. \A k, l, m \in Nat : k <= m + 2 /\ l <= k => l <= m + 2
    OBVIOUS
  <2> QED BY <1>1, <1>6, <1>11, <1>14, <2>1 DEF PlainFrom, Starts
<1>16. /\ UNCHANGED <<measured, sample>> /\ sample' \in [S!Names -> States] /\ O = OpenIn(sample')
       /\ busy' = B \ {n} /\ busy' \in SUBSET S!Names
       /\ cmd' = IF t.resp = "BUSY" THEN cmd ELSE S!NoCmd
  BY <1>1, <1>3, <1>7, <1>11 DEF Starts, S!GetMeasGet
<1>17. CASE t.resp = "BUSY"
  <2>1. ChipI(t, O, K, busy', S!Names, h)
    BY <1>13, <1>16, <1>17 DEF Got
  <2>2. ChipI(d', OpenIn(sample'), K, busy', S!Names, faults'.had)
    BY <1>3, <1>11, <1>16, <2>1
  <2>3. /\ cmd' \in [n : S!Names, at : {"get", "iterate"}] /\ cmd'.at # "iterate"
        /\ K = {cmd'.n} \cap S!Names
    BY <1>7, <1>8, <1>9, <1>16, <1>17
  <2> QED BY <1>15, <1>16, <2>2, <2>3, PlainEnds
<1>18. CASE t.resp # "BUSY"
  <2>1. PICK M : M = {}
    OBVIOUS
  <2>2. ChipI(t, O, M, busy', S!Names, h)
    BY <1>9, <1>13, <1>16, <1>18, <2>1 DEF Got
  <2>3. ChipI(d', OpenIn(sample'), M, busy', S!Names, faults'.had)
    BY <1>3, <1>11, <1>16, <2>2
  <2>4. cmd' = S!NoCmd /\ cmd'.at # "iterate" /\ M = {cmd'.n} \cap S!Names
    BY <1>1, <1>16, <1>18, <2>1 DEF Starts, S!NoCmd
  <2> QED BY <1>15, <1>16, <2>3, <2>4, PlainEnds
<1> QED BY <1>17, <1>18

LEMMA PlainGetMeasTimeout ==
  ASSUME ChipInv, S!GetMeasTimeout, d.kind # "htu"
  PROVE  ChipInv'
<1>1. PICK K : Starts(K)
  BY ChipStarts
<1>2. PICK h, s, O, n, B : h = faults'.had /\ s = S!Clean(d) /\ O = OpenIn(sample) /\ n = cmd.n /\ B = busy
  OBVIOUS
<1>3. faults.had \subseteq h /\ "slow" \in h
  BY <1>2 DEF S!GetMeasTimeout, S!Hopeless, S!Fault
<1>4. PlainFrom(s, O, K, h)
  BY <1>1, <1>2, <1>3, PlainStarts
<1>5. ChipI(s, O, K, B, S!Names, h)
  BY <1>2, <1>4 DEF PlainFrom
<1>6. ChipI(s, O, {}, B \ {n}, S!Names, h)
  BY <1>3, <1>5, ChipGivenUp
<1>7. PICK M : M = {}
  OBVIOUS
<1>8. /\ UNCHANGED <<measured, sample>> /\ sample' \in [S!Names -> States] /\ O = OpenIn(sample')
      /\ busy' = B \ {n} /\ busy' \in SUBSET S!Names /\ cmd' = S!NoCmd /\ d' = s
  BY <1>1, <1>2 DEF Starts, S!GetMeasTimeout
<1>9. ChipI(d', OpenIn(sample'), M, busy', S!Names, faults'.had)
  BY <1>2, <1>6, <1>7, <1>8
<1>10. /\ cmd'.at # "iterate" /\ M = {cmd'.n} \cap S!Names /\ d'.kind = d.kind
       /\ d.kind = "hpm" => d'.ref <= MaxRef + 2
  BY <1>1, <1>4, <1>7, <1>8 DEF Starts, S!NoCmd, PlainFrom
<1> QED BY <1>8, <1>9, <1>10, PlainEnds

\* A step of the chip alone.
LEMMA PlainAlone ==
  ASSUME ChipInv, UNCHANGED <<measured, sample, busy, cmd>>, d.kind # "htu",
         NEW K, Starts(K), d'.kind = d.kind,
         ChipI(d', OpenIn(sample), K, busy, S!Names, faults'.had),
         d.kind = "hpm" => d'.ref <= MaxRef + 2
  PROVE  ChipInv'
<1>1. /\ sample' \in [S!Names -> States] /\ busy' \in SUBSET S!Names /\ K = {cmd'.n} \cap S!Names
      /\ cmd' = S!NoCmd \/ cmd' \in [n : S!Names, at : {"get", "iterate"}]
      /\ cmd'.at = "iterate" => d.kind = "veml"
  BY DEF Starts
<1>2. ChipI(d', OpenIn(sample'), K, busy', S!Names, faults'.had) /\ UNCHANGED measured
  OBVIOUS
<1> QED BY <1>1, <1>2, PlainEnds

LEMMA PlainChip ==
  ASSUME ChipInv, S!Chip, d.kind # "htu"
  PROVE  ChipInv'
<1>1. PICK K : Starts(K)
  BY ChipStarts
<1>2. PICK h, s, O : h = faults'.had /\ s = S!Clean(d) /\ O = OpenIn(sample)
  OBVIOUS
<1>3. UNCHANGED <<measured, sample, busy, cmd>>
  BY DEF S!Chip
<1>4. CASE /\ d.kind = "hpm" /\ S!HpmPowered(d) /\ d.uart
           /\ \E packet \in {"long", "short", "bad", "cut"} :
                  /\ S!FaultIf(packet \in {"bad", "cut"}, "noise")
                  /\ d' = S!HpmRingProcess(S!Clean(d), packet)
  <2>1. PICK packet \in {"long", "short", "bad", "cut"} :
            /\ S!FaultIf(packet \in {"bad", "cut"}, "noise")
            /\ d' = S!HpmRingProcess(S!Clean(d), packet)
    BY <1>4
  <2>2. faults.had \subseteq h
    <3>1. PICK hit, what : hit = (packet \in {"bad", "cut"}) /\ what = "noise"
      OBVIOUS
    <3> QED BY <1>2, <2>1, <3>1, SFaultHad
  <2>3. PlainFrom(s, O, K, h)
    BY <1>1, <1>2, <2>2, PlainStarts
  <2>4. PICK t : t = S!HpmRingProcess(s, packet)
    OBVIOUS
  <2>5. s.kind = "hpm" /\ ChipI(s, O, K, busy, S!Names, h) /\ s.uart
    <3>1. d \in HpmDriver
      BY <1>1, <1>4, HpmRef DEF Starts
    <3>2. s.uart = d.uart
      BY <1>2, <3>1 DEF S!Clean, HpmDriver
    <3> QED BY <1>4, <2>3, <3>2 DEF PlainFrom
  <2>6. ChipI(t, O, K, busy, S!Names, h) /\ t.kind = "hpm" /\ t.ref <= s.ref
    BY <2>1, <2>4, <2>5, HpmProcessed
  <2>7. d' = t
    BY <1>2, <2>1, <2>4
  <2>8. d'.kind = d.kind /\ d'.ref <= MaxRef + 2
    <3>1. \A k, l, m \in Nat : k <= m + 2 /\ l <= k => l <= m + 2
      OBVIOUS
    <3>2. t.ref \in Nat
      BY <2>6, HpmRef
    <3> QED BY <1>1, <1>4, <2>3, <2>6, <2>7, <3>1, <3>2 DEF PlainFrom, Starts
  <2>9. ChipI(d', OpenIn(sample), K, busy, S!Names, faults'.had)
    BY <1>2, <2>6, <2>7
  <2> QED BY <1>1, <1>3, <2>8, <2>9, PlainAlone
<1>5. CASE d.kind = "ds" /\ d.converting /\ d' = S!DsConverted(S!Clean(d)) /\ UNCHANGED faults
  <2>1. faults.had \subseteq h
    BY <1>2, <1>5
  <2>2. PlainFrom(s, O, K, h)
    BY <1>1, <1>2, <2>1, PlainStarts
  <2>3. PICK t : t = S!DsConverted(s)
    OBVIOUS
  <2>4. s.kind = "ds" /\ ChipI(s, O, K, busy, S!Names, h)
    BY <1>5, <2>2 DEF PlainFrom
  <2>5. ChipI(t, O, K, busy, S!Names, h) /\ t.kind = "ds"
    BY <2>3, <2>4, DsConverts
  <2>6. d' = t /\ d'.kind = d.kind /\ d.kind # "hpm"
    BY <1>2, <1>5, <2>3, <2>5
  <2>7. ChipI(d', OpenIn(sample), K, busy, S!Names, faults'.had)
    BY <1>2, <2>5, <2>6
  <2> QED BY <1>1, <1>3, <2>6, <2>7, PlainAlone
<1>6. CASE /\ d.kind = "sen"
           /\ \E fine \in BOOLEAN,
                 warmup \in {FALSE} \cup IF S!Had({"i2c"}) THEN {TRUE} ELSE {} :
                  S!FaultIf(~fine, "i2c") /\ d' = S!SenxxIterate(S!Clean(d), fine, warmup)
  <2>1. PICK fine \in BOOLEAN, warmup \in BOOLEAN :
            S!FaultIf(~fine, "i2c") /\ d' = S!SenxxIterate(S!Clean(d), fine, warmup)
    BY <1>6
  <2>2. faults.had \subseteq h
    <3>1. PICK hit, what : hit = ~fine /\ what = "i2c"
      OBVIOUS
    <3> QED BY <1>2, <2>1, <3>1, SFaultHad
  <2>3. PlainFrom(s, O, K, h)
    BY <1>1, <1>2, <2>2, PlainStarts
  <2>4. PICK t : t = S!SenxxIterate(s, fine, warmup)
    OBVIOUS
  <2>5. s.kind = "sen" /\ ChipI(s, O, K, busy, S!Names, h)
    BY <1>6, <2>3 DEF PlainFrom
  <2>6. ChipI(t, O, K, busy, S!Names, h) /\ t.kind = "sen"
    BY <2>1, <2>4, <2>5, SenIterated
  <2>7. d' = t /\ d'.kind = d.kind /\ d.kind # "hpm"
    BY <1>2, <1>6, <2>1, <2>4, <2>6
  <2>8. ChipI(d', OpenIn(sample), K, busy, S!Names, faults'.had)
    BY <1>2, <2>6, <2>7
  <2> QED BY <1>1, <1>3, <2>7, <2>8, PlainAlone
<1>7. CASE d.kind = "rs" /\ d.line # <<>> /\ d' = S!RsProcess(S!Clean(d)) /\ UNCHANGED faults
  <2>1. faults.had \subseteq h
    BY <1>2, <1>7
  <2>2. PlainFrom(s, O, K, h)
    BY <1>1, <1>2, <2>1, PlainStarts
  <2>3. PICK t : t = S!RsProcess(s)
    OBVIOUS
  <2>4. s.kind = "rs" /\ ChipI(s, O, K, busy, S!Names, h) /\ s.line # <<>>
    <3>1. d \in RsDriver
      BY <1>1, <1>7, ChipKinds DEF Starts, ChipI, HpmI, VemlI, DsI, SenI, RsI
    <3>2. s.line = d.line
      BY <1>2, <3>1 DEF S!Clean, RsDriver
    <3> QED BY <1>7, <2>2, <3>2 DEF PlainFrom
  <2>5. ChipI(t, O, K, busy, S!Names, h) /\ t.kind = "rs"
    BY <2>3, <2>4, RsProcessed
  <2>6. d' = t /\ d'.kind = d.kind /\ d.kind # "hpm"
    BY <1>2, <1>7, <2>3, <2>5
  <2>7. ChipI(d', OpenIn(sample), K, busy, S!Names, faults'.had)
    BY <1>2, <2>5, <2>6
  <2> QED BY <1>1, <1>3, <2>6, <2>7, PlainAlone
<1> QED BY <1>4, <1>5, <1>6, <1>7 DEF S!Chip

LEMMA PlainLater ==
  ASSUME ChipInv, S!Later, d.kind # "htu"
  PROVE  ChipInv'
<1>1. PICK K : Starts(K)
  BY ChipStarts
<1>2. PICK h, s, O : h = faults'.had /\ s = S!Clean(d) /\ O = OpenIn(sample)
  OBVIOUS
<1>3. PICK hit \in BOOLEAN, what \in {"slow"} : hit = (S!Open # {} \/ cmd # S!NoCmd) /\ what = "slow"
  OBVIOUS
<1>4. faults.had \subseteq h /\ (hit => what \in h)
  BY <1>2, <1>3, SFaultHad DEF S!Later
<1>5. PlainFrom(s, O, K, h)
  BY <1>1, <1>2, <1>4, PlainStarts
<1>6. O \cup K # {} => "slow" \in h
  BY <1>1, <1>2, <1>3, <1>4 DEF Starts, S!Idle
<1>7. PICK t : t = S!HpmPasses(s)
  OBVIOUS
<1>8. d.kind = "hpm" /\ s.kind = "hpm" /\ ChipI(s, O, K, busy, S!Names, h)
  BY <1>5 DEF S!Later, PlainFrom
<1>9. ChipI(t, O, K, busy, S!Names, h) /\ t.kind = "hpm" /\ t.ref = s.ref
  BY <1>6, <1>7, <1>8, HpmAges
<1>10. UNCHANGED <<measured, sample, busy, cmd>> /\ d' = t
  BY <1>2, <1>7 DEF S!Later
<1>11. d'.kind = d.kind /\ d'.ref <= MaxRef + 2
  BY <1>5, <1>8, <1>9, <1>10 DEF PlainFrom
<1>12. ChipI(d', OpenIn(sample), K, busy, S!Names, faults'.had)
  BY <1>2, <1>9, <1>10
<1> QED BY <1>1, <1>10, <1>11, <1>12, PlainAlone

-----------------------------------------------------------------------------
(* The faults are a record of two fields.                                  *)

FaultsAre(f) == f = [left |-> f.left, had |-> f.had]

LEMMA FaultIfAre ==
  ASSUME FaultsAre(faults), NEW b, NEW f, S!FaultIf(b, f)
  PROVE  FaultsAre(faults')
<1>1. CASE b
  <2>1. faults' = [left |-> faults.left - 1, had |-> faults.had \cup {f}]
    BY <1>1 DEF S!FaultIf, S!Fault
  <2> QED BY <2>1 DEF FaultsAre
<1>2. CASE ~b
  BY <1>2 DEF S!FaultIf
<1> QED BY <1>1, <1>2

LEMMA FaultAre ==
  ASSUME NEW f, S!Fault(f)
  PROVE  FaultsAre(faults')
<1>1. faults' = [left |-> faults.left - 1, had |-> faults.had \cup {f}]
  BY DEF S!Fault
<1> QED BY <1>1 DEF FaultsAre

LEMMA TimeoutIsSlow ==
  ASSUME S!GetMeasTimeout, FaultsAre(faults)
  PROVE  FaultsAre(faults') /\ faults.had \subseteq faults'.had /\ "slow" \in faults'.had
<1>1. CASE S!Hopeless
  <2>1. PICK more : more = faults.had \cup {"slow"}
    OBVIOUS
  <2>2. PICK left : left = faults.left
    OBVIOUS
  <2>3. faults' = [left |-> left, had |-> more]
    BY <1>1, <2>1, <2>2 DEF S!GetMeasTimeout, FaultsAre
  <2> QED BY <2>1, <2>3 DEF FaultsAre
<1>2. CASE ~S!Hopeless
  <2>1. PICK what : what = "slow"
    OBVIOUS
  <2>2. S!Fault(what)
    BY <1>2, <2>1 DEF S!GetMeasTimeout
  <2>3. FaultsAre(faults')
    BY <2>2, FaultAre
  <2> QED BY <2>1, <2>2, <2>3 DEF S!Fault
<1> QED BY <1>1, <1>2

LEMMA FaultsStay ==
  ASSUME FaultsAre(faults), S!Next
  PROVE  FaultsAre(faults')
<1>1. (\E b, f : S!FaultIf(b, f)) => FaultsAre(faults')
  BY FaultIfAre
<1>2. (\E f : S!Fault(f)) => FaultsAre(faults')
  BY FaultAre
<1>3. UNCHANGED faults => FaultsAre(faults')
  OBVIOUS
<1>4. S!BeginPass => FaultsAre(faults')
  BY <1>1 DEF S!BeginPass
<1>5. S!CollectPass => FaultsAre(faults')
  BY <1>1 DEF S!CollectPass
<1>6. S!NextInterval => FaultsAre(faults')
  BY <1>1 DEF S!NextInterval
<1>7. \A n \in S!Names : S!Iterate(n) => FaultsAre(faults')
  BY <1>1 DEF S!Iterate
<1>8. \A n \in S!Names : S!GetMeas(n) => FaultsAre(faults')
  BY <1>2 DEF S!GetMeas
<1>9. S!GetMeasIterate => FaultsAre(faults')
  BY <1>1 DEF S!GetMeasIterate
<1>10. S!GetMeasGet => FaultsAre(faults')
  BY <1>1 DEF S!GetMeasGet
<1>11. S!GetMeasTimeout => FaultsAre(faults')
  BY TimeoutIsSlow
<1>12. S!Chip => FaultsAre(faults')
  BY <1>1, <1>3 DEF S!Chip
<1>13. S!Later => FaultsAre(faults')
  BY <1>1 DEF S!Later
<1> QED BY <1>4, <1>5, <1>6, <1>7, <1>8, <1>9, <1>10, <1>11, <1>12, <1>13 DEF S!Next

-----------------------------------------------------------------------------
(* Humidity and temperature: the steps.                                    *)

HtuFrom(s, O, K, h) ==
    /\ HtuI(s, O, K, busy, h) /\ s.kind = "htu" /\ S!Names \subseteq S!HtuNames
    /\ S!HtuRests(d) => S!HtuRests(s)
    /\ AllWell(h) => Even(sample) /\ (~S!Idle => O = {})

LEMMA HtuStarts ==
  ASSUME d.kind = "htu", NEW K, Starts(K), NEW h, faults.had \subseteq h,
         NEW s, s = S!Clean(d), NEW O, O = OpenIn(sample)
  PROVE  HtuFrom(s, O, K, h)
<1>1. HtuI(d, O, K, busy, faults.had)
  BY DEF Starts
<1>2. HtuI(s, O, K, busy, h) /\ (S!HtuRests(d) => S!HtuRests(s)) /\ s.flags = d.flags
  BY <1>1, HtuCleaned
<1>3. s.kind = "htu"
  BY <1>2, HtuValues DEF HtuI
<1>4. AllWell(h) => AllWell(faults.had)
  BY DEF AllWell
<1> QED BY <1>2, <1>3, <1>4 DEF HtuFrom, Starts

\* What ChipAt asks of the driver of humidity and temperature.
LEMMA HtuAt ==
  ASSUME NEW s, NEW N, NEW h, "none" \notin N, NEW smp \in [N -> States], NEW B \in SUBSET N,
         NEW c, c = S!NoCmd \/ c \in [n : N, at : {"get", "iterate"}],
         NEW K, K = {c.n} \cap N, HtuI(s, OpenIn(smp), K, B, h), N \subseteq S!HtuNames,
         AllWell(h) => Even(smp) /\ (c # S!NoCmd => OpenIn(smp) = {})
  PROVE  ChipAt(s, smp, B, c, N, h)
<1>1. s.kind = "htu"
  BY HtuValues DEF HtuI
<1> QED BY <1>1 DEF ChipAt

LEMMA HtuEnds ==
  ASSUME ChipInv, UNCHANGED measured, S!Names \subseteq S!HtuNames,
         sample' \in [S!Names -> States], busy' \in SUBSET S!Names,
         cmd' = S!NoCmd \/ cmd' \in [n : S!Names, at : {"get", "iterate"}],
         NEW K, K = {cmd'.n} \cap S!Names,
         HtuI(d', OpenIn(sample'), K, busy', faults'.had),
         AllWell(faults'.had) => Even(sample') /\ (cmd' # S!NoCmd => OpenIn(sample') = {})
  PROVE  ChipInv'
<1>1. "none" \notin S!Names
  BY DEF ChipInv, ChipAt
<1>2. PICK s, smp, B, c, h : s = d' /\ smp = sample' /\ B = busy' /\ c = cmd' /\ h = faults'.had
  OBVIOUS
<1>3. ChipAt(s, smp, B, c, S!Names, h)
  BY <1>1, <1>2, HtuAt
<1> QED BY <1>2, <1>3, ChipInvNext

HtuPassed(q, N, h) ==
    \E t : \E new \in [N -> States], B \in SUBSET N, K \in {{}} :
        /\ q = At(t, new, B) /\ HtuI(t, OpenIn(new), K, B, h)
        /\ AllWell(h) => Even(new)

AllAre(smp, v) == \A n \in DOMAIN smp : smp[n] = v

LEMMA HtuBeginsAll ==
  ASSUME NEW N, OneOrTwo(N), NEW h, NEW s, NEW smp \in [N -> States], NEW B \in SUBSET N,
         N \subseteq S!HtuNames, NEW K, K = {}, HtuI(s, OpenIn(smp), K, B, h), NEW bad, NEW late,
         AllWell(h) => AllAre(smp, "todo"),
         NEW q, q = S!BeginAll(At(s, smp, B), bad, late)
  PROVE  HtuPassed(q, N, h)
<1>1. AllWell(h) => s.flags = {}
  BY DEF HtuI, OpenIn, AllAre
<1>2. CASE \E n : measured = <<n>> /\ N = {n}
  <2>1. PICK n : measured = <<n>> /\ N = {n}
    BY <1>2
  <2>2. q = S!BeginOne(At(s, smp, B), n, bad, late)
    BY <2>1 DEF S!BeginAll
  <2>3. n \in N /\ (AllWell(h) => NextBegins(s, smp, n))
    BY <1>1, <2>1 DEF AllAre, NextBegins
  <2>4. HtuCame(q, smp, n, "open", N, h)
    BY <2>2, <2>3, HtuBeginsOne
  <2>5. \A new \in [N -> States] : new = [smp EXCEPT ![n] = "open"] => Even(new)
    BY <2>1 DEF Even
  <2> QED BY <2>4, <2>5 DEF HtuCame, HtuPassed
<1>3. CASE \E n, m : n # m /\ measured = <<n, m>> /\ N = {n, m}
  <2>1. PICK n, m : n # m /\ measured = <<n, m>> /\ N = {n, m}
    BY <1>3
  <2>2. PICK p : p = S!BeginOne(At(s, smp, B), n, bad, late)
    OBVIOUS
  <2>3. q = S!BeginOne(p, m, bad, late)
    BY <2>1, <2>2 DEF S!BeginAll
  <2>4. n \in N /\ (AllWell(h) => NextBegins(s, smp, n))
    BY <1>1, <2>1 DEF AllAre, NextBegins
  <2>5. /\ HtuCame(p, smp, n, "open", N, h)
        /\ AllWell(h) => p.d.state["TEMP"] = "REQ"
    BY <2>2, <2>4, HtuBeginsOne
  <2>6. PICK t : \E new \in [N -> States], C \in SUBSET N, M \in {{}} :
            /\ p = At(t, new, C) /\ HtuI(t, OpenIn(new), M, C, h)
            /\ AllWell(h) => new = [smp EXCEPT ![n] = "open"]
    BY <2>5 DEF HtuCame
  <2>7. PICK new \in [N -> States], C \in SUBSET N, M \in {{}} :
            /\ p = At(t, new, C) /\ HtuI(t, OpenIn(new), M, C, h)
            /\ AllWell(h) => new = [smp EXCEPT ![n] = "open"]
    BY <2>6
  <2>8. p.d = t /\ M = {}
    BY <2>7 DEF At
  <2>9. m \in N /\ (AllWell(h) => NextBegins(t, new, m))
    BY <2>1, <2>5, <2>7, <2>8 DEF AllAre, NextBegins
  <2>10. q = S!BeginOne(At(t, new, C), m, bad, late)
    BY <2>3, <2>7
  <2>11. HtuCame(q, new, m, "open", N, h)
    BY <2>7, <2>8, <2>9, <2>10, HtuBeginsOne
  <2>12. \A last \in [N -> States] :
             AllWell(h) /\ last = [new EXCEPT ![m] = "open"] => Even(last)
    BY <2>1, <2>7 DEF Even
  <2> QED BY <2>11, <2>12 DEF HtuCame, HtuPassed
<1> QED BY <1>2, <1>3 DEF OneOrTwo

LEMMA HtuCollectsAll ==
  ASSUME NEW N, OneOrTwo(N), NEW h, NEW s, NEW smp \in [N -> States], NEW B \in SUBSET N,
         N \subseteq S!HtuNames, NEW K, K = {}, HtuI(s, OpenIn(smp), K, B, h), NEW fine, NEW late,
         AllWell(h) => S!HtuRests(s) /\ AllAre(smp, "open"),
         NEW q, q = S!CollectAll(At(s, smp, B), fine, late)
  PROVE  HtuPassed(q, N, h)
<1>1. CASE \E n : measured = <<n>> /\ N = {n}
  <2>1. PICK n : measured = <<n>> /\ N = {n}
    BY <1>1
  <2>2. q = S!CollectOne(At(s, smp, B), n, fine, late)
    BY <2>1 DEF S!CollectAll
  <2>3. n \in N /\ (AllWell(h) => smp[n] = "open" /\ S!HtuRests(s))
    BY <2>1 DEF AllAre
  <2>4. HtuCame(q, smp, n, "over", N, h)
    BY <2>2, <2>3, HtuCollectsOne
  <2>5. \A new \in [N -> States] : new = [smp EXCEPT ![n] = "over"] => Even(new)
    BY <2>1 DEF Even
  <2> QED BY <2>4, <2>5 DEF HtuCame, HtuPassed
<1>2. CASE \E n, m : n # m /\ measured = <<n, m>> /\ N = {n, m}
  <2>1. PICK n, m : n # m /\ measured = <<n, m>> /\ N = {n, m}
    BY <1>2
  <2>2. PICK p : p = S!CollectOne(At(s, smp, B), n, fine, late)
    OBVIOUS
  <2>3. q = S!CollectOne(p, m, fine, late)
    BY <2>1, <2>2 DEF S!CollectAll
  <2>4. n \in N /\ (AllWell(h) => smp[n] = "open" /\ S!HtuRests(s))
    BY <2>1 DEF AllAre
  <2>5. /\ HtuCame(p, smp, n, "over", N, h)
        /\ AllWell(h) => S!HtuRests(p.d)
    BY <2>2, <2>4, HtuCollectsOne
  <2>6. PICK t : \E new \in [N -> States], C \in SUBSET N, M \in {{}} :
            /\ p = At(t, new, C) /\ HtuI(t, OpenIn(new), M, C, h)
            /\ AllWell(h) => new = [smp EXCEPT ![n] = "over"]
    BY <2>5 DEF HtuCame
  <2>7. PICK new \in [N -> States], C \in SUBSET N, M \in {{}} :
            /\ p = At(t, new, C) /\ HtuI(t, OpenIn(new), M, C, h)
            /\ AllWell(h) => new = [smp EXCEPT ![n] = "over"]
    BY <2>6
  <2>8. p.d = t /\ M = {}
    BY <2>7 DEF At
  <2>9. m \in N /\ (AllWell(h) => new[m] = "open" /\ S!HtuRests(t))
    BY <2>1, <2>5, <2>7, <2>8 DEF AllAre
  <2>10. q = S!CollectOne(At(t, new, C), m, fine, late)
    BY <2>3, <2>7
  <2>11. HtuCame(q, new, m, "over", N, h)
    BY <2>7, <2>8, <2>9, <2>10, HtuCollectsOne
  <2>12. \A last \in [N -> States] :
             AllWell(h) /\ last = [new EXCEPT ![m] = "over"] => Even(last)
    BY <2>1, <2>7 DEF Even
  <2> QED BY <2>11, <2>12 DEF HtuCame, HtuPassed
<1> QED BY <1>1, <1>2 DEF OneOrTwo

LEMMA HtuPassEnds ==
  ASSUME ChipInv, S!Idle, UNCHANGED <<measured, cmd>>, S!Names \subseteq S!HtuNames,
         NEW q, HtuPassed(q, S!Names, faults'.had), S!Do(q)
  PROVE  ChipInv'
<1>1. PICK K : Starts(K)
  BY ChipStarts
<1>2. PICK t : \E new \in [S!Names -> States], B \in SUBSET S!Names, M \in {{}} :
          /\ q = At(t, new, B) /\ HtuI(t, OpenIn(new), M, B, faults'.had)
          /\ AllWell(faults'.had) => Even(new)
  BY DEF HtuPassed
<1>3. PICK new \in [S!Names -> States], B \in SUBSET S!Names, M \in {{}} :
          /\ q = At(t, new, B) /\ HtuI(t, OpenIn(new), M, B, faults'.had)
          /\ AllWell(faults'.had) => Even(new)
  BY <1>2
<1>4. d' = t /\ sample' = new /\ busy' = B
  BY <1>3 DEF S!Do, At
<1>5. cmd' = S!NoCmd /\ M = {cmd'.n} \cap S!Names
  BY <1>1, <1>3 DEF Starts, S!Idle, S!NoCmd
<1>6. /\ sample' \in [S!Names -> States] /\ busy' \in SUBSET S!Names
      /\ HtuI(d', OpenIn(sample'), M, busy', faults'.had)
      /\ AllWell(faults'.had) => Even(sample')
  BY <1>3, <1>4
<1> QED BY <1>5, <1>6, HtuEnds

LEMMA HtuBeginPass ==
  ASSUME ChipInv, S!BeginPass, d.kind = "htu"
  PROVE  ChipInv'
<1>1. PICK K : Starts(K)
  BY ChipStarts
<1>2. PICK bad \in {"none"} \cup S!Names, late \in S!Lates :
          /\ S!FaultIf(bad # "none", "i2c")
          /\ S!Do(S!BeginAll(S!Now, bad, late))
  BY DEF S!BeginPass
<1>3. PICK h, s, O : h = faults'.had /\ s = S!Clean(d) /\ O = OpenIn(sample)
  OBVIOUS
<1>4. faults.had \subseteq h
  <2>1. PICK hit, what : hit = (bad # "none") /\ what = "i2c"
    OBVIOUS
  <2> QED BY <1>2, <1>3, <2>1, SFaultHad
<1>5. HtuFrom(s, O, K, h)
  BY <1>1, <1>3, <1>4, HtuStarts
<1>6. PICK q : q = S!BeginAll(At(s, sample, busy), bad, late)
  OBVIOUS
<1>7. S!Idle /\ UNCHANGED <<measured, cmd>> /\ S!Do(q)
  BY <1>2, <1>3, <1>6 DEF S!BeginPass, S!Now, At
<1>8. HtuPassed(q, S!Names, h)
  <2>1. OneOrTwo(S!Names)
    BY DEF ChipInv
  <2>2. K = {} /\ sample \in [S!Names -> States] /\ busy \in SUBSET S!Names
    BY <1>1, <1>7 DEF Starts
  <2>3. HtuI(s, OpenIn(sample), K, busy, h) /\ S!Names \subseteq S!HtuNames
    BY <1>3, <1>5 DEF HtuFrom
  <2>4. AllWell(h) => AllAre(sample, "todo")
    <3>1. PICK n \in S!Names : sample[n] = "todo"
      BY DEF S!BeginPass
    <3>2. AllWell(h) => Even(sample)
      BY <1>5 DEF HtuFrom
    <3> QED BY <2>2, <3>1, <3>2 DEF Even, AllAre
  <2> QED BY <1>6, <2>1, <2>2, <2>3, <2>4, HtuBeginsAll
<1>9. S!Names \subseteq S!HtuNames
  BY <1>5 DEF HtuFrom
<1> QED BY <1>3, <1>7, <1>8, <1>9, HtuPassEnds

\* Whatever is collected too soon is the fault "slow".
LEMMA HtuRipe ==
  ASSUME NEW fine \in S!Fines,
         S!FaultIf(~fine \/ ~S!HadItsTime, IF fine THEN "slow" ELSE "i2c"), d.kind = "htu"
  PROVE  faults.had \subseteq faults'.had /\ (AllWell(faults'.had) => S!HtuRests(d))
<1>1. fine
  BY DEF S!Fines
<1>2. PICK what : what = "slow"
  OBVIOUS
<1>3. PICK hit \in BOOLEAN : hit = ~S!HadItsTime
  OBVIOUS
<1>4. S!FaultIf(hit, what)
  BY <1>1, <1>2, <1>3
<1>5. faults.had \subseteq faults'.had /\ (hit => what \in faults'.had)
  BY <1>4, SFaultHad
<1>6. S!HadItsTime => S!HtuRests(d)
  BY DEF S!HadItsTime
<1> QED BY <1>2, <1>3, <1>5, <1>6 DEF AllWell

LEMMA HtuCollectPass ==
  ASSUME ChipInv, S!CollectPass, d.kind = "htu"
  PROVE  ChipInv'
<1>1. PICK K : Starts(K)
  BY ChipStarts
<1>2. PICK fine \in S!Fines, late \in S!Lates :
          /\ S!FaultIf(~fine \/ ~S!HadItsTime, IF fine THEN "slow" ELSE "i2c")
          /\ S!Do(S!CollectAll(S!Now, fine, late))
  BY DEF S!CollectPass
<1>3. PICK h, s, O : h = faults'.had /\ s = S!Clean(d) /\ O = OpenIn(sample)
  OBVIOUS
<1>4. faults.had \subseteq h /\ (AllWell(h) => S!HtuRests(d))
  BY <1>2, <1>3, HtuRipe
<1>5. HtuFrom(s, O, K, h)
  BY <1>1, <1>3, <1>4, HtuStarts
<1>6. PICK q : q = S!CollectAll(At(s, sample, busy), fine, late)
  OBVIOUS
<1>7. S!Idle /\ UNCHANGED <<measured, cmd>> /\ S!Do(q)
  BY <1>2, <1>3, <1>6 DEF S!CollectPass, S!Now, At
<1>8. HtuPassed(q, S!Names, h)
  <2>1. OneOrTwo(S!Names)
    BY DEF ChipInv
  <2>2. K = {} /\ sample \in [S!Names -> States] /\ busy \in SUBSET S!Names
    BY <1>1, <1>7 DEF Starts
  <2>3. HtuI(s, OpenIn(sample), K, busy, h) /\ S!Names \subseteq S!HtuNames
    BY <1>3, <1>5 DEF HtuFrom
  <2>4. AllWell(h) => S!HtuRests(s) /\ AllAre(sample, "open")
    <3>1. PICK n \in S!Names : sample[n] = "open"
      BY DEF S!CollectPass, S!Open
    <3>2. AllWell(h) => Even(sample) /\ S!HtuRests(s)
      BY <1>4, <1>5 DEF HtuFrom
    <3> QED BY <2>2, <3>1, <3>2 DEF Even, AllAre
  <2> QED BY <1>6, <2>1, <2>2, <2>3, <2>4, HtuCollectsAll
<1>9. S!Names \subseteq S!HtuNames
  BY <1>5 DEF HtuFrom
<1> QED BY <1>3, <1>7, <1>8, <1>9, HtuPassEnds

LEMMA HtuNextInterval ==
  ASSUME ChipInv, S!NextInterval, d.kind = "htu"
  PROVE  ChipInv'
<1>1. PICK K : Starts(K)
  BY ChipStarts
<1>2. PICK h, s, O : h = faults'.had /\ s = S!Clean(d) /\ O = OpenIn(sample)
  OBVIOUS
<1>3. faults.had \subseteq h /\ (O = {} \/ "cut" \in h)
  <2>1. PICK hit \in BOOLEAN, what \in {"cut"} : hit = (S!Open # {}) /\ what = "cut"
    OBVIOUS
  <2>2. S!FaultIf(hit, what)
    BY <2>1 DEF S!NextInterval
  <2>3. faults.had \subseteq h /\ (hit => what \in h)
    BY <1>2, <2>2, SFaultHad
  <2> QED BY <1>1, <1>2, <2>1, <2>3 DEF Starts
<1>4. HtuFrom(s, O, K, h)
  BY <1>1, <1>2, <1>3, HtuStarts
<1>5. K = {} /\ cmd = S!NoCmd /\ K = {cmd.n} \cap S!Names
  BY <1>1 DEF Starts, S!NextInterval, S!Idle
<1>6. sample' \in [S!Names -> States] /\ OpenIn(sample') = {} /\ Even(sample')
  BY DEF S!NextInterval, States, OpenIn, Even
<1>7. UNCHANGED <<measured, busy, cmd>> /\ d' = s
  BY <1>2 DEF S!NextInterval
<1>8. HtuI(d', OpenIn(sample'), K, busy', faults'.had)
  <2>1. HtuI(s, O, K, busy, h)
    BY <1>4 DEF HtuFrom
  <2>2. AllWell(h) => O = OpenIn(sample')
    BY <1>3, <1>6 DEF AllWell
  <2> QED BY <1>2, <1>7, <2>1, <2>2 DEF HtuI
<1>9. /\ busy' \in SUBSET S!Names /\ cmd' = S!NoCmd /\ K = {cmd'.n} \cap S!Names
      /\ S!Names \subseteq S!HtuNames
  BY <1>1, <1>4, <1>5, <1>7 DEF HtuFrom, Starts
<1> QED BY <1>6, <1>7, <1>8, <1>9, HtuEnds

LEMMA HtuIterates ==
  ASSUME ChipInv, NEW n \in S!Names, S!Iterate(n), d.kind = "htu"
  PROVE  ChipInv'
<1>1. PICK K : Starts(K)
  BY ChipStarts
<1>2. PICK fine \in BOOLEAN, bright \in BOOLEAN, late \in S!Lates :
          LET t == S!IterationCb(S!Clean(d), n, fine, bright, late)
              failed == t.resp = "ERROR"
          IN  /\ S!FaultIf(~fine, "i2c")
              /\ d' = t
              /\ sample' = IF failed THEN [sample EXCEPT ![n] = "failed"] ELSE sample
              /\ busy' = IF failed THEN busy \ {n} ELSE busy
  BY DEF S!Iterate
<1>3. PICK h, s, O, B : h = faults'.had /\ s = S!Clean(d) /\ O = OpenIn(sample) /\ B = busy
  OBVIOUS
<1>4. faults.had \subseteq h /\ (~fine => ~AllWell(h))
  <2>1. PICK hit, what : hit = ~fine /\ what = "i2c"
    OBVIOUS
  <2>2. faults.had \subseteq h /\ (hit => what \in h)
    BY <1>2, <1>3, <2>1, SFaultHad
  <2> QED BY <2>1, <2>2 DEF AllWell
<1>5. HtuFrom(s, O, K, h)
  BY <1>1, <1>3, <1>4, HtuStarts
<1>6. PICK t : t = S!HtuIterate(s, n, fine)
  OBVIOUS
<1>7. HtuI(t, O, K, B, h) /\ (AllWell(h) => t.resp # "ERROR")
  <2>1. HtuI(s, O, K, B, h) /\ n \in S!HtuNames
    BY <1>3, <1>5 DEF HtuFrom
  <2> QED BY <1>2, <1>4, <1>6, <2>1, HtuIterated
<1>8. /\ d' = t
      /\ sample' = IF t.resp = "ERROR" THEN [sample EXCEPT ![n] = "failed"] ELSE sample
      /\ busy' = IF t.resp = "ERROR" THEN busy \ {n} ELSE busy
  <2>1. S!Clean(d).kind = "htu"
    BY <1>3, <1>5 DEF HtuFrom
  <2> QED BY <1>2, <1>3, <1>6, <2>1 DEF S!IterationCb
<1>9. sample \in [S!Names -> States] /\ busy \in SUBSET S!Names
  BY <1>1 DEF Starts
<1>10. /\ sample' \in [S!Names -> States] /\ busy' \in SUBSET S!Names
       /\ AllWell(h) => sample' = sample /\ busy' = busy
  BY <1>7, <1>8, <1>9 DEF States
<1>11. cmd' = S!NoCmd /\ K = {cmd'.n} \cap S!Names /\ UNCHANGED measured
  BY <1>1 DEF Starts, S!Iterate, S!Idle
<1>12. HtuI(d', OpenIn(sample'), K, busy', faults'.had)
  BY <1>3, <1>7, <1>8, <1>10 DEF HtuI
<1>13. S!Names \subseteq S!HtuNames /\ (AllWell(faults'.had) => Even(sample'))
  BY <1>3, <1>5, <1>10 DEF HtuFrom
<1> QED BY <1>10, <1>11, <1>12, <1>13, HtuEnds

LEMMA HtuUnwell ==
  ASSUME NEW t \in HtuDriver, NEW h, ~AllWell(h), NEW O, NEW K, NEW B
  PROVE  HtuI(t, O, K, B, h)
BY DEF HtuI

LEMMA HtuGetMeas ==
  ASSUME ChipInv, NEW n \in S!Names, S!GetMeas(n), d.kind = "htu"
  PROVE  ChipInv'
<1>1. PICK K : Starts(K)
  BY ChipStarts
<1>2. PICK late \in S!Lates : d' = S!InitCb(S!Clean(d), n, TRUE, late)
  BY DEF S!GetMeas
<1>3. PICK h, s, O, B : h = faults'.had /\ s = S!Clean(d) /\ O = OpenIn(sample) /\ B = busy
  OBVIOUS
<1>4. faults.had \subseteq h
  BY <1>3 DEF S!GetMeas, S!Fault
<1>5. HtuFrom(s, O, K, h)
  BY <1>1, <1>3, <1>4, HtuStarts
<1>6. HtuI(s, O, K, B, h) /\ n \in S!HtuNames /\ S!Names \subseteq S!HtuNames /\ s.kind = "htu"
  BY <1>3, <1>5 DEF HtuFrom
<1>7. K = {} /\ cmd = S!NoCmd /\ n \notin B
  BY <1>1, <1>3 DEF Starts, S!GetMeas, S!Idle
<1>8. AllWell(h) => O = {} /\ s.flags = {}
  <2>1. SUFFICES ASSUME AllWell(h) PROVE O = {} /\ s.flags = {}
    OBVIOUS
  <2>2. B = s.flags /\ s.flags = O
    BY <1>6, <1>7, <2>1 DEF HtuI
  <2>3. Even(sample) /\ sample \in [S!Names -> States]
    BY <1>1, <1>5, <2>1 DEF HtuFrom, Starts
  <2>4. n \notin O
    BY <1>7, <2>2
  <2>5. O = {}
    BY <1>3, <2>3, <2>4 DEF Even, OpenIn
  <2> QED BY <2>2, <2>5
<1>9. PICK t : t = S!HtuInit(s, n)
  OBVIOUS
<1>10. HtuBegun(t, O, K, B, h, n)
  <2>1. AllWell(h) => n \notin s.flags /\ (s.flags = {} \/ s.state["TEMP"] = "REQ")
    BY <1>8
  <2> QED BY <1>6, <1>9, <2>1, HtuAsked
<1>11. d' = t
  BY <1>2, <1>3, <1>6, <1>9 DEF S!InitCb
<1>12. UNCHANGED <<measured, sample>> /\ sample' \in [S!Names -> States] /\ O = OpenIn(sample')
  BY <1>1, <1>3 DEF Starts, S!GetMeas
<1>13. AllWell(h) => Even(sample') /\ O = {}
  BY <1>5, <1>8, <1>12 DEF HtuFrom
<1>14. CASE t.resp = "SUCCESS"
  <2>1. busy' = busy \cup {n} /\ cmd' = [n |-> n, at |-> IF S!HasIteration(d) THEN "iterate" ELSE "get"]
    BY <1>11, <1>14 DEF S!GetMeas
  <2>2. PICK M, C : M = {n} /\ C = B \cup {n}
    OBVIOUS
  <2>3. HtuI(t, O, M, C, h)
    <3>1. CASE AllWell(h)
      BY <1>7, <1>10, <2>2, <3>1 DEF HtuBegun
    <3>2. CASE ~AllWell(h)
      BY <1>10, <3>2, HtuUnwell DEF HtuBegun
    <3> QED BY <3>1, <3>2
  <2>4. HtuI(d', OpenIn(sample'), M, busy', faults'.had)
    BY <1>3, <1>11, <1>12, <2>1, <2>2, <2>3
  <2>5. cmd' \in [n : S!Names, at : {"get", "iterate"}] /\ M = {cmd'.n} \cap S!Names
    BY <2>1, <2>2
  <2>6. busy' \in SUBSET S!Names
    BY <1>1, <2>1 DEF Starts
  <2>7. AllWell(faults'.had) => Even(sample') /\ (cmd' # S!NoCmd => OpenIn(sample') = {})
    BY <1>3, <1>12, <1>13
  <2> QED BY <1>6, <1>12, <2>4, <2>5, <2>6, <2>7, HtuEnds
<1>15. CASE t.resp # "SUCCESS"
  <2>1. UNCHANGED <<busy, cmd>>
    BY <1>11, <1>15 DEF S!GetMeas
  <2>2. ~AllWell(h)
    BY <1>10, <1>15 DEF HtuBegun
  <2>3. HtuI(d', OpenIn(sample'), K, busy', faults'.had)
    BY <1>3, <1>10, <1>11, <2>2, HtuUnwell DEF HtuBegun
  <2>4. cmd' = S!NoCmd /\ K = {cmd'.n} \cap S!Names /\ busy' \in SUBSET S!Names
    BY <1>1, <1>7, <2>1 DEF Starts
  <2> QED BY <1>3, <1>6, <1>12, <2>2, <2>3, <2>4, HtuEnds
<1> QED BY <1>14, <1>15

LEMMA HtuGetMeasIterate ==
  ASSUME ChipInv, S!GetMeasIterate, d.kind = "htu"
  PROVE  ChipInv'
<1>1. PICK K : Starts(K)
  BY ChipStarts
<1>2. PICK fine \in BOOLEAN, bright \in BOOLEAN, late \in S!Lates :
          /\ S!FaultIf(~fine, "i2c")
          /\ d' = S!IterationCb(S!Clean(d), cmd.n, fine, bright, late)
  BY DEF S!GetMeasIterate
<1>3. PICK h, s, O, B, n : h = faults'.had /\ s = S!Clean(d) /\ O = OpenIn(sample) /\ B = busy /\ n = cmd.n
  OBVIOUS
<1>4. faults.had \subseteq h /\ (~fine => ~AllWell(h))
  <2>1. PICK hit, what : hit = ~fine /\ what = "i2c"
    OBVIOUS
  <2>2. faults.had \subseteq h /\ (hit => what \in h)
    BY <1>2, <1>3, <2>1, SFaultHad
  <2> QED BY <2>1, <2>2 DEF AllWell
<1>5. HtuFrom(s, O, K, h)
  BY <1>1, <1>3, <1>4, HtuStarts
<1>6. cmd.at = "iterate" /\ ~S!Idle /\ cmd # S!NoCmd
  BY DEF S!GetMeasIterate, S!Idle, S!NoCmd
<1>7. cmd \in [n : S!Names, at : {"get", "iterate"}] /\ n \in S!Names
  BY <1>1, <1>3, <1>6 DEF Starts
<1>8. PICK t : t = S!HtuIterate(s, n, fine)
  OBVIOUS
<1>9. HtuI(t, O, K, B, h)
  <2>1. HtuI(s, O, K, B, h) /\ n \in S!HtuNames
    BY <1>3, <1>5, <1>7 DEF HtuFrom
  <2> QED BY <1>2, <1>4, <1>8, <2>1, HtuIterated
<1>10. d' = t
  <2>1. S!Clean(d).kind = "htu"
    BY <1>3, <1>5 DEF HtuFrom
  <2> QED BY <1>2, <1>3, <1>8, <2>1 DEF S!IterationCb
<1>11. UNCHANGED <<measured, sample, busy>> /\ cmd' = IF d'.resp = "SUCCESS" THEN [cmd EXCEPT !.at = "get"] ELSE cmd
  BY DEF S!GetMeasIterate
<1>12. cmd' \in [n : S!Names, at : {"get", "iterate"}] /\ cmd'.n = cmd.n
  BY <1>7, <1>11
<1>13. HtuI(d', OpenIn(sample'), K, busy', faults'.had)
  BY <1>3, <1>9, <1>10, <1>11
<1>14. /\ sample' \in [S!Names -> States] /\ busy' \in SUBSET S!Names /\ K = {cmd'.n} \cap S!Names
       /\ S!Names \subseteq S!HtuNames
  BY <1>1, <1>5, <1>11, <1>12 DEF Starts, HtuFrom
<1>15. AllWell(faults'.had) => Even(sample') /\ OpenIn(sample') = {}
  BY <1>3, <1>5, <1>6, <1>11 DEF HtuFrom
<1> QED BY <1>11, <1>12, <1>13, <1>14, <1>15, HtuEnds

LEMMA HtuGetMeasGet ==
  ASSUME ChipInv, S!GetMeasGet, d.kind = "htu"
  PROVE  ChipInv'
<1>1. PICK K : Starts(K)
  BY ChipStarts
<1>2. PICK fine \in S!Fines, late \in S!Lates :
          /\ S!FaultIf(~fine \/ ~S!HadItsTime, IF fine THEN "slow" ELSE "i2c")
          /\ d' = S!GetCb(S!Clean(d), cmd.n, fine, late)
  BY DEF S!GetMeasGet
<1>3. PICK h, s, O, B, n : h = faults'.had /\ s = S!Clean(d) /\ O = OpenIn(sample) /\ B = busy /\ n = cmd.n
  OBVIOUS
<1>4. faults.had \subseteq h /\ (AllWell(h) => S!HtuRests(d))
  BY <1>2, <1>3, HtuRipe
<1>5. HtuFrom(s, O, K, h)
  BY <1>1, <1>3, <1>4, HtuStarts
<1>6. cmd.at = "get" /\ ~S!Idle
  BY DEF S!GetMeasGet, S!Idle, S!NoCmd
<1>7. n \in S!Names /\ K = {n} /\ cmd \in [n : S!Names, at : {"get", "iterate"}]
  BY <1>1, <1>3, <1>6 DEF Starts, S!Idle
<1>8. PICK t : t = S!HtuGet(s, n)
  OBVIOUS
<1>9. HtuGiven(t, O, K, B, h, n)
  <2>1. HtuI(s, O, K, B, h) /\ n \in S!HtuNames
    BY <1>3, <1>5, <1>7 DEF HtuFrom
  <2>2. AllWell(h) => S!HtuRests(s) /\ n \in O \cup K /\ (O = {} \/ K = {}) /\ K \subseteq {n}
    BY <1>4, <1>5, <1>6, <1>7 DEF HtuFrom
  <2> QED BY <1>8, <2>1, <2>2, HtuGot
<1>10. d' = t
  <2>1. s.kind = "htu"
    BY <1>5 DEF HtuFrom
  <2> QED BY <1>2, <1>3, <1>8, <2>1 DEF S!GetCb
<1>11. /\ UNCHANGED <<measured, sample>> /\ sample' \in [S!Names -> States] /\ O = OpenIn(sample')
       /\ busy' = B \ {n} /\ busy' \in SUBSET S!Names
       /\ cmd' = IF t.resp = "BUSY" THEN cmd ELSE S!NoCmd
  BY <1>1, <1>3, <1>10 DEF Starts, S!GetMeasGet
<1>12. S!Names \subseteq S!HtuNames /\ (AllWell(faults'.had) => Even(sample') /\ OpenIn(sample') = {})
  BY <1>3, <1>5, <1>6, <1>11 DEF HtuFrom
<1>13. CASE t.resp = "BUSY"
  <2>1. ~AllWell(h) /\ t \in HtuDriver
    BY <1>9, <1>13 DEF HtuGiven
  <2>2. HtuI(d', OpenIn(sample'), K, busy', faults'.had)
    BY <1>3, <1>10, <2>1, HtuUnwell
  <2>3. cmd' \in [n : S!Names, at : {"get", "iterate"}] /\ K = {cmd'.n} \cap S!Names
    BY <1>3, <1>7, <1>11, <1>13
  <2> QED BY <1>11, <1>12, <2>2, <2>3, HtuEnds
<1>14. CASE t.resp # "BUSY"
  <2>1. PICK M : M = {}
    OBVIOUS
  <2>2. HtuI(t, O, M, B \ {n}, h)
    BY <1>7, <1>9, <2>1 DEF HtuGiven
  <2>3. HtuI(d', OpenIn(sample'), M, busy', faults'.had)
    BY <1>3, <1>10, <1>11, <2>2
  <2>4. cmd' = S!NoCmd /\ M = {cmd'.n} \cap S!Names
    BY <1>1, <1>11, <1>14, <2>1 DEF Starts, S!NoCmd
  <2> QED BY <1>11, <1>12, <2>3, <2>4, HtuEnds
<1> QED BY <1>13, <1>14

LEMMA HtuGetMeasTimeout ==
  ASSUME ChipInv, S!GetMeasTimeout, FaultsAre(faults), d.kind = "htu"
  PROVE  ChipInv'
<1>1. PICK K : Starts(K)
  BY ChipStarts
<1>2. PICK h, s, O : h = faults'.had /\ s = S!Clean(d) /\ O = OpenIn(sample)
  OBVIOUS
<1>3. faults.had \subseteq h /\ "slow" \in h
  BY <1>2, TimeoutIsSlow
<1>4. ~AllWell(h)
  BY <1>3 DEF AllWell
<1>5. HtuFrom(s, O, K, h)
  BY <1>1, <1>2, <1>3, HtuStarts
<1>6. s \in HtuDriver
  BY <1>5 DEF HtuFrom, HtuI
<1>7. PICK M : M = {}
  OBVIOUS
<1>8. /\ UNCHANGED <<measured, sample>> /\ sample' \in [S!Names -> States]
      /\ busy' \in SUBSET S!Names /\ cmd' = S!NoCmd /\ d' = s
  BY <1>1, <1>2 DEF Starts, S!GetMeasTimeout
<1>9. HtuI(d', OpenIn(sample'), M, busy', faults'.had) /\ M = {cmd'.n} \cap S!Names
  <2>1. HtuI(d', OpenIn(sample'), M, busy', faults'.had)
    BY <1>2, <1>4, <1>6, <1>8, HtuUnwell
  <2> QED BY <1>1, <1>7, <1>8, <2>1 DEF Starts, S!NoCmd
<1>10. S!Names \subseteq S!HtuNames
  BY <1>5 DEF HtuFrom
<1> QED BY <1>2, <1>4, <1>8, <1>9, <1>10, HtuEnds

-----------------------------------------------------------------------------
(* All the steps of a chip.                                                *)

LEMMA ChipStep ==
  ASSUME ChipInv, FaultsAre(faults), S!Next
  PROVE  ChipInv'
<1>1. S!BeginPass => ChipInv'
  BY PlainBeginPass, HtuBeginPass
<1>2. S!CollectPass => ChipInv'
  BY PlainCollectPass, HtuCollectPass
<1>3. S!NextInterval => ChipInv'
  BY PlainNextInterval, HtuNextInterval
<1>4. \A n \in S!Names : S!Iterate(n) => ChipInv'
  BY PlainIterate, HtuIterates
<1>5. \A n \in S!Names : S!GetMeas(n) => ChipInv'
  BY PlainGetMeas, HtuGetMeas
<1>6. S!GetMeasIterate => ChipInv'
  BY PlainGetMeasIterate, HtuGetMeasIterate
<1>7. S!GetMeasGet => ChipInv'
  BY PlainGetMeasGet, HtuGetMeasGet
<1>8. S!GetMeasTimeout => ChipInv'
  BY PlainGetMeasTimeout, HtuGetMeasTimeout
<1>9. S!Chip => ChipInv'
  <2>1. S!Chip => d.kind # "htu"
    BY DEF S!Chip
  <2> QED BY <2>1, PlainChip
<1>10. S!Later => ChipInv'
  <2>1. S!Later => d.kind # "htu"
    BY DEF S!Later
  <2> QED BY <2>1, PlainLater
<1> QED BY <1>1, <1>2, <1>3, <1>4, <1>5, <1>6, <1>7, <1>8, <1>9, <1>10 DEF S!Next

LEMMA ChipInvKept ==
  ASSUME ChipInv, FaultsAre(faults), [S!Next]_(S!vars)
  PROVE  ChipInv' /\ FaultsAre(faults')
<1>1. CASE S!Next
  BY <1>1, ChipStep, FaultsStay
<1>2. CASE UNCHANGED S!vars
  <2>1. UNCHANGED <<d, measured, sample, busy, cmd, faults>>
    BY <1>2 DEF S!vars
  <2>2. S!Names' = S!Names
    BY <2>1 DEF S!Names
  <2>3. ChipAt(d', sample', busy', cmd', S!Names, faults'.had)
    BY <2>1 DEF ChipInv
  <2>4. ChipInv'
    BY <2>1, <2>3, ChipInvNext
  <2> QED BY <2>1, <2>4
<1> QED BY <1>1, <1>2

-----------------------------------------------------------------------------
(* Each driver as it starts.                                               *)

ChipStartsAt(s, N) ==
    IF s.kind = "htu" THEN HtuI(s, {}, {}, {}, {}) /\ N \subseteq S!HtuNames
    ELSE ChipI(s, {}, {}, {}, N, {}) /\ (s.kind = "hpm" => s.ref <= MaxRef + 2)

LEMMA DriverStarts ==
  ASSUME MaxRef \in Nat, NEW chip \in S!Kinds, NEW s, s = S!StartOf(chip),
         NEW N, N \subseteq S!NamesOf(chip)
  PROVE  ChipStartsAt(s, N)
<1>1. CASE chip = "hpm"
  <2>1. s = S!HpmStart /\ N \subseteq S!HpmNames
    BY <1>1 DEF S!StartOf, S!NamesOf
  <2>2. s \in HpmDriver /\ s.kind = "hpm" /\ s.ref = 0 /\ s.read = "none" /\ ~s.uart
    BY <2>1 DEF S!HpmStart, HpmDriver, ChipSays, ChipReads
  <2>3. HpmI(s, {}, {}, {}, N, {})
    BY <2>1, <2>2 DEF HpmI, Apart
  <2>4. 0 <= MaxRef + 2
    OBVIOUS
  <2> QED BY <2>2, <2>3, <2>4 DEF ChipStartsAt, ChipI
<1>2. CASE chip = "htu"
  <2>1. s = S!HtuStart /\ N \subseteq S!HtuNames
    BY <1>2 DEF S!StartOf, S!NamesOf
  <2>2. /\ s \in HtuDriver /\ s.kind = "htu" /\ s.flags = {} /\ s.read = "none"
        /\ s.state = [n \in S!HtuNames |-> "IDLE"]
    BY <2>1 DEF S!HtuStart, HtuDriver, ChipSays, ChipReads
  <2>3. s.state["TEMP"] = "IDLE" /\ s.state["HUMI"] = "IDLE"
    BY <2>2 DEF S!HtuNames
  <2>4. HtuRight(s)
    BY <2>2, <2>3 DEF HtuRight
  <2>5. HtuI(s, {}, {}, {}, {})
    BY <2>2, <2>4 DEF HtuI
  <2> QED BY <2>1, <2>2, <2>5 DEF ChipStartsAt
<1>3. CASE chip = "veml"
  <2>1. s = S!VemlStart /\ N \subseteq {S!Light}
    BY <1>3 DEF S!StartOf, S!NamesOf
  <2>2. s \in VemlDriver /\ s.kind = "veml" /\ s.state = "OFF" /\ s.read = "none"
    BY <2>1 DEF S!VemlStart, VemlDriver, ChipSays, ChipReads
  <2>3. VemlI(s, {}, {}, {}, N, {})
    BY <2>1, <2>2 DEF VemlI
  <2> QED BY <2>2, <2>3 DEF ChipStartsAt, ChipI
<1>4. CASE chip = "ds"
  <2>1. s = S!DsStart /\ N \subseteq {S!Probe}
    BY <1>4 DEF S!StartOf, S!NamesOf
  <2>2. s \in DsDriver /\ s.kind = "ds" /\ s.read = "none"
    BY <2>1 DEF S!DsStart, DsDriver, ChipSays, ChipReads
  <2>3. DsI(s, {}, {}, {}, N, {})
    BY <2>1, <2>2 DEF DsI
  <2> QED BY <2>2, <2>3 DEF ChipStartsAt, ChipI
<1>5. CASE chip = "sen"
  <2>1. s = S!SenStart /\ N \subseteq S!SenNames
    BY <1>5 DEF S!StartOf, S!NamesOf
  <2>2. s \in SenDriver /\ s.kind = "sen" /\ s.read = "none"
    BY <2>1 DEF S!SenStart, SenDriver, ChipSays, ChipReads
  <2>3. SenI(s, {}, {}, {}, N, {})
    BY <2>1, <2>2 DEF SenI
  <2> QED BY <2>2, <2>3 DEF ChipStartsAt, ChipI
<1>6. CASE chip = "rs"
  <2>1. s = S!RsStart /\ N \subseteq {S!Serial}
    BY <1>6 DEF S!StartOf, S!NamesOf
  <2>2. s \in RsDriver /\ s.kind = "rs" /\ s.read = "none"
    BY <2>1 DEF S!RsStart, RsDriver, ChipSays, ChipReads, S!NoMsg
  <2>3. RsI(s, {}, {}, {}, N, {})
    BY <2>1, <2>2 DEF RsI, Apart
  <2> QED BY <2>2, <2>3 DEF ChipStartsAt, ChipI
<1> QED BY <1>1, <1>2, <1>3, <1>4, <1>5, <1>6 DEF S!Kinds

LEMMA NoneIsNoName ==
  ASSUME NEW chip \in S!Kinds
  PROVE  "none" \notin S!NamesOf(chip)
BY DEF S!Kinds, S!NamesOf, S!HpmNames, S!HtuNames, S!SenNames, S!Light, S!Probe, S!Serial

LEMMA StartAt ==
  ASSUME NEW s, NEW N, ChipStartsAt(s, N), "none" \notin N,
         NEW smp, smp = [n \in N |-> "todo"]
  PROVE  ChipAt(s, smp, {}, S!NoCmd, N, {})
<1>1. smp \in [N -> States] /\ OpenIn(smp) = {} /\ Even(smp)
  BY DEF States, OpenIn, Even
<1>2. S!NoCmd.n = "none" /\ S!NoCmd.at = "none"
  BY DEF S!NoCmd
<1>3. {S!NoCmd.n} \cap N = {}
  BY <1>2
<1>4. PICK O, K, B, h : O = {} /\ K = {} /\ B = {} /\ h = {}
  OBVIOUS
<1>5. CASE s.kind = "htu"
  <2>1. HtuI(s, O, K, B, h) /\ N \subseteq S!HtuNames
    BY <1>4, <1>5 DEF ChipStartsAt
  <2>2. ChipAt(s, smp, B, S!NoCmd, N, h)
    BY <1>1, <1>2, <1>3, <1>4, <1>5, <2>1 DEF ChipAt
  <2> QED BY <1>4, <2>2
<1>6. CASE s.kind # "htu"
  <2>1. ChipI(s, O, K, B, N, h) /\ (s.kind = "hpm" => s.ref <= MaxRef + 2)
    BY <1>4, <1>6 DEF ChipStartsAt
  <2>2. ChipAt(s, smp, B, S!NoCmd, N, h)
    BY <1>1, <1>2, <1>3, <1>4, <1>6, <2>1 DEF ChipAt
  <2> QED BY <1>4, <2>2
<1> QED BY <1>5, <1>6

LEMMA ChipInvBegins ==
  ASSUME S!SensorSystemAssumption, S!Init
  PROVE  ChipInv /\ FaultsAre(faults)
<1>1. PICK c \in Chips :
          /\ d = S!StartOf(c.chip) /\ measured = c.measured
          /\ sample = [n \in S!Range(c.measured) |-> "todo"]
          /\ busy = {} /\ cmd = S!NoCmd
          /\ faults = [left |-> MaxFaults, had |-> {}]
  BY DEF S!Init
<1>2. PICK chip \in S!Kinds : chip = c.chip
  BY <1>1 DEF S!SensorSystemAssumption
<1>3. \/ \E n \in S!NamesOf(chip) : measured = <<n>>
      \/ \E n, m \in S!NamesOf(chip) : n # m /\ measured = <<n, m>>
  BY <1>1, <1>2 DEF S!SensorSystemAssumption
<1>4. OneOrTwo(S!Names) /\ S!Names \subseteq S!NamesOf(chip)
  <2>1. CASE \E n \in S!NamesOf(chip) : measured = <<n>>
    <3>1. PICK n \in S!NamesOf(chip) : measured = <<n>>
      BY <2>1
    <3>2. S!Names = {n}
      BY <3>1 DEF S!Names, S!Range
    <3> QED BY <3>1, <3>2 DEF OneOrTwo
  <2>2. CASE \E n, m \in S!NamesOf(chip) : n # m /\ measured = <<n, m>>
    <3>1. PICK n \in S!NamesOf(chip), m \in S!NamesOf(chip) : n # m /\ measured = <<n, m>>
      BY <2>2
    <3>2. S!Names = {n, m}
      BY <3>1 DEF S!Names, S!Range
    <3> QED BY <3>1, <3>2 DEF OneOrTwo
  <2> QED BY <1>3, <2>1, <2>2
<1>5. ChipStartsAt(d, S!Names)
  BY <1>1, <1>2, <1>4, DriverStarts DEF S!SensorSystemAssumption
<1>6. "none" \notin S!Names
  BY <1>4, NoneIsNoName
<1>7. sample = [n \in S!Names |-> "todo"]
  BY <1>1 DEF S!Names
<1>8. ChipAt(d, sample, {}, S!NoCmd, S!Names, {})
  BY <1>5, <1>6, <1>7, StartAt
<1>9. faults.had = {} /\ FaultsAre(faults)
  BY <1>1 DEF FaultsAre
<1> QED BY <1>1, <1>4, <1>8, <1>9 DEF ChipInv

-----------------------------------------------------------------------------
(* What the invariant of the chips says.                                   *)

LEMMA ChipInvDriver ==
  ASSUME ChipInv, NEW K, Starts(K)
  PROVE  \/ HpmI(d, S!Open, K, busy, S!Names, faults.had)
         \/ VemlI(d, S!Open, K, busy, S!Names, faults.had)
         \/ DsI(d, S!Open, K, busy, S!Names, faults.had)
         \/ SenI(d, S!Open, K, busy, S!Names, faults.had)
         \/ RsI(d, S!Open, K, busy, S!Names, faults.had)
         \/ HtuI(d, S!Open, K, busy, faults.had)
BY DEF Starts, ChipI

LEMMA WellUnlessHad ==
  /\ S!Had({"slow"}) <=> "slow" \in faults.had
  /\ S!Had({"i2c"}) <=> "i2c" \in faults.had
  /\ S!Had({"cut", "slow"}) <=> ("cut" \in faults.had \/ "slow" \in faults.had)
  /\ S!Had({"i2c", "cut"}) <=> ("cut" \in faults.had \/ "i2c" \in faults.had)
BY DEF S!Had

LEMMA ChipInvFresh ==
  ASSUME ChipInv
  PROVE  S!Fresh
<1>1. PICK K : Starts(K)
  BY ChipStarts
<1>2. PICK O, B, N, h : O = S!Open /\ B = busy /\ N = S!Names /\ h = faults.had
  OBVIOUS
<1>3. CASE HpmI(d, O, K, B, N, h)
  <2>1. d.kind = "hpm" /\ ("slow" \notin h => d.read # "old")
    BY <1>3, ChipKinds DEF HpmI
  <2> QED BY <1>2, <2>1, WellUnlessHad DEF S!Fresh, S!ReadingIsNew
<1>4. CASE VemlI(d, O, K, B, N, h)
  BY <1>4 DEF VemlI, S!Fresh, S!ReadingIsNew
<1>5. CASE DsI(d, O, K, B, N, h)
  <2>1. d.kind = "ds" /\ ("slow" \notin h => d.read # "old")
    BY <1>5, ChipKinds DEF DsI
  <2> QED BY <1>2, <2>1, WellUnlessHad DEF S!Fresh, S!ReadingIsNew
<1>6. CASE SenI(d, O, K, B, N, h)
  <2>1. d.kind = "sen" /\ ("slow" \notin h => d.read # "old")
    BY <1>6, ChipKinds DEF SenI
  <2> QED BY <1>2, <2>1, WellUnlessHad DEF S!Fresh, S!ReadingIsNew
<1>7. CASE RsI(d, O, K, B, N, h)
  <2>1. d.kind = "rs" /\ ("slow" \notin h => d.read # "old")
    BY <1>7, ChipKinds DEF RsI
  <2> QED BY <1>2, <2>1, WellUnlessHad DEF S!Fresh, S!ReadingIsNew
<1>8. CASE HtuI(d, O, K, B, h)
  <2>1. d.kind = "htu" /\ (AllWell(h) => d.read # "old")
    BY <1>8, HtuValues DEF HtuI, HtuRight
  <2>2. ~AllWell(h) => S!Had({"slow"}) \/ S!Had({"i2c", "cut"})
    BY <1>2, WellUnlessHad DEF AllWell
  <2> QED BY <2>1, <2>2 DEF S!Fresh, S!ReadingIsNew
<1> QED BY <1>1, <1>2, <1>3, <1>4, <1>5, <1>6, <1>7, <1>8, ChipInvDriver

LEMMA ChipInvOwned ==
  ASSUME ChipInv
  PROVE  S!Owned
<1>1. PICK K : Starts(K)
  BY ChipStarts
<1>2. PICK O, B, N, h : O = S!Open /\ B = busy /\ N = S!Names /\ h = faults.had
  OBVIOUS
<1>3. /\ O \subseteq N /\ O \subseteq S!Wanted /\ K \subseteq S!Wanted /\ K \subseteq N
      /\ N = S!Names
  BY <1>1, <1>2 DEF Starts, S!Open, S!Wanted
<1>4. O \cup K # {} => S!Wanted \cap S!Names # {}
  BY <1>3
<1>5. SUFFICES ASSUME ~S!Had({"cut", "slow"}), ~(d.kind # "hpm" /\ S!Had({"i2c"}))
               PROVE  S!Owned
  BY DEF S!Owned
<1>6. "slow" \notin h /\ "cut" \notin h /\ (d.kind # "hpm" => AllWell(h))
  BY <1>2, <1>5, WellUnlessHad DEF AllWell
<1>7. CASE HpmI(d, O, K, B, N, h)
  <2>1. d.kind = "hpm" /\ d.ref \in Nat
    BY <1>7, ChipKinds DEF HpmI, HpmDriver
  <2>2. ASSUME Len(measured) = 1, d.ref > 0
        PROVE  O \cup K # {}
    <3>1. \A n, m \in N : n = m
      BY <1>2, <2>2 DEF ChipInv, OneOrTwo
    <3>2. d.ref \in {0, 1} /\ (d.ref = 1 => O \cup K # {})
      BY <1>6, <1>7, <3>1 DEF HpmI
    <3> QED BY <2>2, <3>2
  <2> QED BY <1>4, <2>1, <2>2 DEF S!Owned
<1>8. CASE VemlI(d, O, K, B, N, h)
  <2>1. d.kind = "veml"
    BY <1>8, ChipKinds DEF VemlI
  <2>2. d.state # "OFF" => O \cup K # {}
    BY <1>6, <1>8, <2>1 DEF VemlI, AllWell
  <2> QED BY <1>4, <2>1, <2>2 DEF S!Owned
<1>9. CASE HtuI(d, O, K, B, h)
  <2>1. d.kind = "htu"
    BY <1>9, HtuValues DEF HtuI
  <2>2. d.flags = O \cup K
    BY <1>6, <1>9, <2>1 DEF HtuI
  <2> QED BY <1>3, <2>1, <2>2 DEF S!Owned
<1>10. CASE DsI(d, O, K, B, N, h) \/ SenI(d, O, K, B, N, h) \/ RsI(d, O, K, B, N, h)
  <2>1. d.kind \in {"ds", "sen", "rs"}
    BY <1>10, ChipKinds DEF DsI, SenI, RsI
  <2> QED BY <2>1 DEF S!Owned
<1> QED BY <1>1, <1>2, <1>7, <1>8, <1>9, <1>10, ChipInvDriver

LEMMA ChipInvTypes ==
  ASSUME ChipInv
  PROVE  S!TypeOK
<1>1. PICK K : Starts(K)
  BY ChipStarts
<1>2. sample \in [S!Names -> {"todo", "open", "failed", "over"}] /\ busy \subseteq S!Names
  BY <1>1 DEF Starts, States
<1>3. cmd.n \in S!Names \cup {"none"}
  BY <1>1 DEF Starts, S!NoCmd
<1>4. d.read \in {"none", "new", "old"}
  BY <1>1, ChipInvDriver
  DEF HpmI, VemlI, DsI, SenI, RsI, HtuI, HpmDriver, VemlDriver, DsDriver, SenDriver,
      RsDriver, HtuDriver, ChipReads
<1>5. ASSUME d.kind = "hpm"
      PROVE  d.messages \in 0..3 /\ d.ref \in 0..(MaxRef + 2)
  <2>1. d \in HpmDriver
    BY <1>1, <1>5, HpmRef DEF Starts
  <2>2. d.messages \in 0..3
    BY <2>1 DEF HpmDriver
  <2>3. d.ref \in Nat /\ d.ref <= MaxRef + 2 /\ MaxRef \in Nat
    BY <1>1, <1>5 DEF Starts
  <2> QED BY <2>2, <2>3
<1> QED BY <1>2, <1>3, <1>4, <1>5 DEF S!TypeOK

\* The largest product of the multipliers that are used.
LEMMA MultiplierFits ==
  ASSUME NEW s, s.gain \in 0..3, s.int \in 2..5
  PROVE  /\ s.gain + 1 \in DOMAIN S!Gains /\ s.int + 1 \in DOMAIN S!IntegrationTimes
         /\ S!Multiplier(s) < 256
<1>1. PICK g \in 1..4, i \in 3..6 : g = s.gain + 1 /\ i = s.int + 1
  <2>1. s.gain + 1 \in 1..4 /\ s.int + 1 \in 3..6
    OBVIOUS
  <2> QED BY <2>1
<1>2. g \in DOMAIN S!Gains /\ S!Gains[g] \in {16, 8, 2, 1}
  BY DEF S!Gains
<1>3. i \in DOMAIN S!IntegrationTimes /\ S!IntegrationTimes[i] \in {8, 4, 2, 1}
  BY DEF S!IntegrationTimes
<1>4. \A x \in {16, 8, 2, 1}, y \in {8, 4, 2, 1} : x * y < 256
  OBVIOUS
<1>5. S!Gains[g] * S!IntegrationTimes[i] < 256
  BY <1>2, <1>3, <1>4
<1> QED BY <1>1, <1>2, <1>3, <1>5 DEF S!Multiplier

LEMMA ChipInvSettings ==
  ASSUME ChipInv
  PROVE  S!SettingsFit
<1>1. SUFFICES ASSUME d.kind = "veml"
               PROVE  /\ d.gain + 1 \in DOMAIN S!Gains
                      /\ d.int + 1 \in DOMAIN S!IntegrationTimes
                      /\ S!Multiplier(d) < 256
  BY DEF S!SettingsFit
<1>2. PICK K : Starts(K)
  BY ChipStarts
<1>3. d \in VemlDriver
  BY <1>1, <1>2, ChipInvDriver, ChipKinds, HtuValues DEF HpmI, VemlI, DsI, SenI, RsI, HtuI
<1>4. d.gain \in 0..3 /\ d.int \in 2..5
  BY <1>3 DEF VemlDriver
<1> QED BY <1>4, MultiplierFits

-----------------------------------------------------------------------------
(* Both parts: a behaviour has one of them, and the other's variables are  *)
(* left alone.                                                             *)

SensingInv == (IsAdc => AdcInv) /\ (IsChip => ChipInv /\ FaultsAre(faults))

LEMMA SensingInvBegins ==
  ASSUME MCInit
  PROVE  SensingInv
<1>1. AdcSystemAssumption /\ S!SensorSystemAssumption
  BY SensingAssumption
<1>2. CASE IsAdc /\ Init
  BY <1>2, AdcInvBegins DEF SensingInv, IsAdc, IsChip
<1>3. CASE IsChip /\ S!Init
  BY <1>1, <1>3, ChipInvBegins DEF SensingInv, IsAdc, IsChip
<1> QED BY <1>2, <1>3 DEF MCInit

LEMMA SensingInvKept ==
  ASSUME SensingInv, [MCNext]_<<part, vars, ChipVars>>
  PROVE  SensingInv'
<1>1. CASE IsAdc /\ Next /\ UNCHANGED <<part, ChipVars>>
  <2>1. AdcInv'
    BY <1>1, AdcInvKept DEF SensingInv
  <2> QED BY <1>1, <2>1 DEF SensingInv, IsAdc, IsChip
<1>2. CASE IsChip /\ S!Next /\ UNCHANGED <<part, AdcVars>>
  <2>1. ChipInv' /\ FaultsAre(faults')
    BY <1>2, ChipInvKept DEF SensingInv
  <2> QED BY <1>2, <2>1 DEF SensingInv, IsAdc, IsChip
<1>3. CASE UNCHANGED <<part, vars, ChipVars>>
  <2>1. IsAdc => AdcInv'
    BY <1>3, AdcInvKept DEF SensingInv
  <2>2. UNCHANGED S!vars
    BY <1>3 DEF vars, ChipVars, S!vars
  <2>3. IsChip => ChipInv' /\ FaultsAre(faults')
    BY <2>2, ChipInvKept DEF SensingInv
  <2> QED BY <1>3, <2>1, <2>3 DEF SensingInv, IsAdc, IsChip
<1> QED BY <1>1, <1>2, <1>3 DEF MCNext

LEMMA SensingInvHolds == MCSpec => []SensingInv
<1>1. MCInit => SensingInv
  BY SensingInvBegins
<1>2. SensingInv /\ [MCNext]_<<part, vars, ChipVars>> => SensingInv'
  BY SensingInvKept
<1> QED BY <1>1, <1>2, PTL DEF MCSpec

\* A sample is given its own reading, whatever the sensors, their order and the
\* faults: of the analogue converter, which they share, made from the samples
\* of its channel and of no other; of a chip, read after the sample was begun.
THEOREM SensingReadsOwn == MCSpec => []OwnReadings
<1>1. SensingInv => OwnReadings
  BY AdcInvOwn, ChipInvFresh DEF SensingInv, OwnReadings
<1> QED BY <1>1, SensingInvHolds, PTL

\* What a driver has claimed or begun is going to be given back or collected:
\* there is a sample open, a command or a callback under way, that does so for
\* the converter, for the power of the particulate sensor, the bus of the one
\* for humidity and temperature and the state of the light sensor.
THEOREM SensingOwned == MCSpec => []Owned
<1>1. SensingInv => Owned
  BY AdcInvHeld, ChipInvOwned DEF SensingInv, Owned
<1> QED BY <1>1, SensingInvHolds, PTL

\* The settings are in their range and agree: the clamps that are converted are
\* those with an interval, and the light sensor's multipliers stay in their
\* tables and their product in the eight bits it is computed in.
THEOREM SensingSettingsAgree == MCSpec => []SettingsAgree
<1>1. SensingInv => SettingsAgree
  BY AdcInvTypes, AdcInvActive, ChipInvTypes, ChipInvSettings DEF SensingInv, SettingsAgree
<1> QED BY <1>1, SensingInvHolds, PTL
=============================================================================
