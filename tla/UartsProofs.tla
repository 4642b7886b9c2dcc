---------------------------- MODULE UartsProofs ----------------------------
(***************************************************************************)
(* Proofs about the UARTs.  First about Ring, for every size of the ring,  *)
(* every set of bytes and every length of the line buffer; then about      *)
(* Uarts, for rings and DMA buffers of any size and any number of lines,   *)
(* frames and strings.                                                     *)
(***************************************************************************)
EXTENDS Ring, Uarts, SequenceTheorems, TLAPS

\* How the ring has to be used: a read asks only for what it saw pending, and
\* the ring is cleared only where an addition cannot be cut in two.
SafeUse == ~OverRead /\ (IsrAdd \/ "clear" \notin Ops)

-----------------------------------------------------------------------------
(* Positions.                                                              *)

LEMMA IncIsAt ==
    ASSUME NEW p \in Pos PROVE Inc(p) = At(p, 1) /\ Inc(p) \in Pos
<1>1. CASE p + 1 < BufSize
  <2>1. (p + 1) % BufSize = p + 1
    BY <1>1, RingAssumption DEF Pos
  <2> QED BY <1>1, <2>1, RingAssumption DEF Inc, At, Pos
<1>2. CASE p + 1 = BufSize
  <2>1. BufSize % BufSize = 0
    BY RingAssumption
  <2> QED BY <1>2, <2>1, RingAssumption DEF Inc, At, Pos
<1> QED BY <1>1, <1>2, RingAssumption DEF Pos

LEMMA DistType ==
    ASSUME NEW p \in Pos, NEW q \in Pos
    PROVE  Dist(p, q) \in 0 .. BufSize - 1 /\ (Dist(p, q) = 0 <=> p = q)
BY RingAssumption DEF Dist, Pos

LEMMA AtType ==
    ASSUME NEW p \in Pos, NEW n \in 0 .. BufSize - 1
    PROVE  At(p, n) \in Pos
BY RingAssumption DEF At, Pos

LEMMA AtSum ==
    ASSUME NEW p \in Pos, NEW n \in 0 .. BufSize - 1, NEW m \in 0 .. BufSize - 1,
           n + m < BufSize
    PROVE  At(At(p, n), m) = At(p, n + m)
BY RingAssumption DEF At, Pos

\* Stepping back over what was not consumed ends where n bytes were.
LEMMA BackAt ==
    ASSUME NEW p \in Pos, NEW m \in 0 .. BufSize - 1, NEW n \in 0 .. m
    PROVE  Back(At(p, m), m - n) = At(p, n)
BY RingAssumption DEF Back, At, Pos

\* Moving the reader n slots on leaves n bytes fewer.
LEMMA DistAt ==
    ASSUME NEW p \in Pos, NEW q \in Pos, NEW n \in 0 .. Dist(p, q)
    PROVE  Dist(At(p, n), q) = Dist(p, q) - n
BY RingAssumption DEF At, Dist, Pos

\* The slots before w_pos are not the slot at w_pos.
LEMMA AtBefore ==
    ASSUME NEW p \in Pos, NEW q \in Pos, NEW n \in 0 .. BufSize - 1
    PROVE  /\ n < Dist(p, q) => At(p, n) # q
           /\ n = Dist(p, q) => At(p, n) = q
BY RingAssumption DEF At, Dist, Pos

\* Moving the writer one slot on, with room for it, makes one byte more.
LEMMA DistInc ==
    ASSUME NEW p \in Pos, NEW q \in Pos, Inc(q) # p
    PROVE  Dist(p, Inc(q)) = Dist(p, q) + 1
BY IncIsAt, RingAssumption DEF At, Dist, Pos

\* Room seen is room kept: the reader never moves past the writer.
LEMMA RoomKept ==
    ASSUME NEW p \in Pos, NEW q \in Pos, NEW n \in 0 .. Dist(p, q),
           Inc(q) # p
    PROVE  Inc(q) # At(p, n)
BY IncIsAt, RingAssumption DEF At, Dist, Pos
-----------------------------------------------------------------------------
(* The invariant.                                                          *)

RingIInv == RingTypeOK /\ RingHolds

LEMMA RingInitIInv == RingInit => RingIInv
<1> SUFFICES ASSUME RingInit PROVE RingIInv
  OBVIOUS
<1>1. RingTypeOK
  BY RingAssumption, EmptySeq DEF RingInit, RingTypeOK, Pos, AddPcs, RdPcs
<1>2. RingHolds
  BY DEF RingInit, RingHolds, AdderHolds, ReaderHolds
<1> QED BY <1>1, <1>2 DEF RingIInv

LEMMA AdderStep == ASSUME RingIInv, SafeUse, Adder PROVE RingIInv'
<1> USE RingAssumption DEF RingIInv, RingHolds, AskedTooMuch
<1>0. r_pos \in Pos /\ w_pos \in Pos /\ GetPending \in 0 .. BufSize - 1
  BY DistType DEF RingTypeOK, GetPending
<1>1. CASE \E b \in Byte : AddStart(b)
  BY <1>1 DEF AddStart, SafeUse, readerVars, RingTypeOK, AddPcs, AdderHolds, ReaderHolds,
              CopiedPrefix, GetPending
<1>2. CASE AddFull
  BY <1>2 DEF AddFull, readerVars, RingTypeOK, AddPcs, AdderHolds, ReaderHolds,
              CopiedPrefix, GetPending
<1>3. CASE AddRoom
  BY <1>3 DEF AddRoom, readerVars, RingTypeOK, AddPcs, AdderHolds, ReaderHolds,
              CopiedPrefix, GetPending
<1>4. CASE AddWrite
  <2> USE <1>4 DEF AddWrite, readerVars
  <2>1. RingTypeOK'
    BY DEF RingTypeOK, AddPcs
  <2>2. AdderHolds'
    BY DEF RingTypeOK, AdderHolds
  <2>3. add_w = w_pos /\ \A s \in Pos : s # w_pos => buf'[s] = buf[s]
    BY DEF RingTypeOK, AdderHolds
  <2>4. \A k \in 0 .. GetPending - 1 : /\ At(r_pos, k) \in Pos
                                       /\ At(r_pos, k) # w_pos
    <3> SUFFICES ASSUME NEW k \in 0 .. GetPending - 1
                 PROVE  At(r_pos, k) \in Pos /\ At(r_pos, k) # w_pos
      OBVIOUS
    <3>1. k \in 0 .. BufSize - 1 /\ k < Dist(r_pos, w_pos)
      BY <1>0 DEF GetPending
    <3> QED BY <1>0, <3>1, AtType, AtBefore
  <2>5. CopiedPrefix => CopiedPrefix'
    BY <1>0, <2>3, <2>4 DEF CopiedPrefix, GetPending, RingTypeOK
  <2>6. pc \in {"check", "pcheck"} => r # w_pos
    <3>1. ASSUME pc = "check" PROVE r # w_pos
      <4>1. r = r_pos /\ GetPending # 0
        BY <3>1, <1>0 DEF ReaderHolds, RingTypeOK
      <4> QED BY <4>1, <1>0, DistType DEF GetPending
    <3>2. ASSUME pc = "pcheck" PROVE r # w_pos
      <4>1. r = At(r_pos, Len(got)) /\ Len(got) \in 0 .. GetPending - 1
        BY <3>2, <1>0, LenProperties DEF ReaderHolds, CopiedPrefix, RingTypeOK
      <4> QED BY <4>1, <2>4
    <3> QED BY <3>1, <3>2
  <2>7. ReaderHolds'
    BY <2>3, <2>5, <2>6 DEF ReaderHolds, GetPending, RingTypeOK
  <2> QED BY <2>1, <2>2, <2>7
<1>5. CASE AddPublish
  <2> USE <1>5 DEF AddPublish, readerVars
  <2>1. add_w = w_pos /\ Inc(w_pos) # r_pos
    BY DEF AdderHolds
  <2>2. Inc(w_pos) \in Pos
    BY <1>0, IncIsAt
  <2>3. RingTypeOK' /\ AdderHolds'
    BY <2>1, <2>2 DEF RingTypeOK, AddPcs, AdderHolds
  <2>4. GetPending' = GetPending + 1
    BY <1>0, <2>1, DistInc DEF GetPending
  <2>5. CopiedPrefix => CopiedPrefix'
    BY <1>0, <2>4 DEF CopiedPrefix, RingTypeOK
  <2>6. ReaderHolds'
    BY <1>0, <2>4, <2>5 DEF ReaderHolds, RingTypeOK
  <2> QED BY <2>3, <2>6
<1> QED BY <1>1, <1>2, <1>3, <1>4, <1>5 DEF Adder

\* While r has not reached w_pos there is more to copy.
LEMMA MoreToCopy ==
    ASSUME RingIInv, CopiedPrefix, r # w_pos
    PROVE  Len(got) + 1 <= GetPending
<1>1. /\ r_pos \in Pos /\ w_pos \in Pos /\ GetPending \in 0 .. BufSize - 1
      /\ Len(got) \in 0 .. GetPending
  BY DistType, LenProperties, RingAssumption
     DEF RingIInv, RingTypeOK, GetPending, CopiedPrefix
<1> QED BY <1>1, AtBefore, RingAssumption DEF CopiedPrefix, GetPending

\* Facts about a byte copied on from position r while r has not reached w_pos.
LEMMA PrefixGrows ==
    ASSUME RingIInv, CopiedPrefix, r # w_pos,
           got' = Append(got, buf[r]), r' = Inc(r),
           UNCHANGED <<buf, r_pos, w_pos>>
    PROVE  /\ CopiedPrefix'
           /\ Len(got') = Len(got) + 1
           /\ got' \in Seq(Byte)
           /\ r' \in Pos
<1> USE RingAssumption DEF RingIInv
<1>1. /\ r_pos \in Pos /\ w_pos \in Pos /\ GetPending \in 0 .. BufSize - 1
      /\ Len(got) \in 0 .. GetPending /\ r \in Pos
      /\ buf[r] \in Byte /\ got \in Seq(Byte)
  BY DistType, LenProperties DEF RingTypeOK, GetPending, CopiedPrefix
<1>2. Len(got) < GetPending
  BY <1>1, MoreToCopy
<1>3. /\ got' \in Seq(Byte) /\ Len(got') = Len(got) + 1
      /\ \A k \in 1 .. Len(got) : got'[k] = got[k]
      /\ got'[Len(got) + 1] = buf[r]
  BY <1>1, AppendProperties
<1>4. r' = At(r_pos, Len(got) + 1) /\ r' \in Pos
  <2>1. r' = At(At(r_pos, Len(got)), 1) /\ r' \in Pos
    BY <1>1, IncIsAt DEF CopiedPrefix
  <2> QED BY <2>1, <1>1, <1>2, AtSum
<1>5. GetPending' = GetPending
  BY DEF GetPending
<1>6. CopiedPrefix'
  <2>1. \A k \in 1 .. Len(got') : got'[k] = buf[At(r_pos, k - 1)]
    BY <1>1, <1>3 DEF CopiedPrefix
  <2> QED BY <2>1, <1>1, <1>2, <1>3, <1>4, <1>5 DEF CopiedPrefix
<1> QED BY <1>3, <1>4, <1>6

\* The reader gives n bytes up by moving r_pos, and is then where it believes.
LEMMA MoveOn ==
    ASSUME RingIInv, NEW n \in 0 .. GetPending,
           r_pos' = At(r_pos, n), UNCHANGED <<buf, w_pos, addVars>>
    PROVE  /\ r_pos' \in Pos
           /\ GetPending' = GetPending - n
           /\ AdderHolds'
<1> USE RingAssumption DEF RingIInv
<1>1. /\ r_pos \in Pos /\ w_pos \in Pos /\ GetPending \in 0 .. BufSize - 1
  BY DistType DEF RingTypeOK, GetPending
<1>2. r_pos' \in Pos
  BY <1>1, AtType
<1>3. GetPending' = GetPending - n
  BY <1>1, DistAt DEF GetPending
<1>4. Inc(w_pos) # r_pos => Inc(w_pos) # r_pos'
  BY <1>1, RoomKept DEF GetPending
<1> QED BY <1>2, <1>3, <1>4 DEF RingHolds, AdderHolds, addVars

\* When a step may let the adder start again, and when it does not matter.
LEMMA AskedAfter ==
    ASSUME pc' \in {"load", "check"} /\ len' > GetPending' => add_pc' = "idle",
           pc' \in {"pload", "pcheck"} /\ Len(got') + len' > GetPending'
               => add_pc' = "idle"
    PROVE  AskedTooMuch' => add_pc' = "idle"
BY DEF AskedTooMuch

LEMMA NotAskedAfter ==
    ASSUME pc' \notin {"load", "check", "pload", "pcheck"}
    PROVE  ~AskedTooMuch'
BY DEF AskedTooMuch

LEMMA NoneYet ==
    ASSUME NEW x \in Int, NEW n \in Int, n >= 1, x = 0
    PROVE  x + n = n /\ x <= n
OBVIOUS

LEMMA BeginStep ==
    ASSUME RingIInv, SafeUse, NEW n \in 1 .. BufSize,
           ReadBegin(n) \/ PeekBegin(n) \/ DiscardBegin(n)
             \/ ConsumeBegin(n) \/ LineBegin
    PROVE  RingIInv'
<1> USE RingAssumption DEF RingIInv, RingHolds
<1>0. /\ r_pos \in Pos /\ w_pos \in Pos /\ GetPending \in 0 .. BufSize - 1
  BY DistType DEF RingTypeOK, GetPending
<1>1. /\ got' = <<>> /\ r' = r_pos
      /\ UNCHANGED <<buf, r_pos, w_pos, addVars, c, given>>
      /\ len' \in 1 .. BufSize
      /\ pc' \in {"load", "pload", "skip", "scan", "copy"}
      /\ pc' \in {"load", "pload"} => len' <= GetPending \/ add_pc = "idle"
      /\ pc' = "scan" => len' <= GetPending
  BY <1>0 DEF MayAsk, SafeUse, ReadBegin, PeekBegin, DiscardBegin, ConsumeBegin,
              LineBegin, BeginOp
<1>2. RingTypeOK' /\ AdderHolds'
  BY <1>0, <1>1, EmptySeq DEF RingTypeOK, RdPcs, AdderHolds, addVars
<1>3. Len(got') = 0 /\ At(r_pos, 0) = r_pos /\ GetPending' = GetPending
  BY <1>0, <1>1, EmptySeq DEF At, Pos, GetPending
<1>4. CopiedPrefix'
  BY <1>0, <1>1, <1>3 DEF CopiedPrefix
<1>5. Len(got') + len' = len' /\ Len(got') <= len'
  <2>1. len' \in Int /\ len' >= 1
    BY <1>1
  <2>2. Len(got') = 0 /\ Len(got') \in Int
    BY <1>3
  <2> QED BY <2>1, <2>2, NoneYet
<1>6. UNCHANGED r_pos
  BY <1>1
<1>7. AskedTooMuch' => add_pc' = "idle"
  <2>1. pc' \in {"load", "pload"} => len' <= GetPending' \/ add_pc' = "idle"
    BY <1>1, <1>3 DEF addVars
  <2>2. len' \in Int /\ GetPending' \in Int
    BY <1>0, <1>1, <1>3
  <2>3. pc' \in {"load", "pload"} /\ len' > GetPending' => add_pc' = "idle"
    BY <2>1, <2>2
  <2>4. Len(got') + len' > GetPending' => len' > GetPending'
    BY <1>5
  <2> QED BY <1>1, <2>3, <2>4, AskedAfter
<1>8. ReaderHolds'
  BY <1>1, <1>3, <1>4, <1>5, <1>6, <1>7 DEF ReaderHolds
<1> QED BY <1>2, <1>8

\* Reading, peeking and skipping, a byte at a time.
LEMMA ByteStep ==
    ASSUME RingIInv,
           ReadLoad \/ ReadEmpty \/ ReadOne \/ PeekLoad \/ PeekEmpty
             \/ PeekOne \/ SkipEmpty \/ SkipOne
    PROVE  RingIInv'
<1> USE RingAssumption DEF RingIInv, RingHolds
<1>0. /\ r_pos \in Pos /\ w_pos \in Pos /\ GetPending \in 0 .. BufSize - 1
      /\ r \in Pos /\ buf[r] \in Byte /\ got \in Seq(Byte)
      /\ Len(got) \in Nat /\ len \in 0 .. BufSize
      /\ (r_pos # w_pos => GetPending >= 1)
  BY DistType, LenProperties DEF RingTypeOK, GetPending
<1>1. CASE ReadLoad \/ PeekLoad
  <2>1. AskedTooMuch' => AskedTooMuch
    BY <1>1 DEF ReadLoad, PeekLoad, AskedTooMuch, GetPending
  <2> QED
    BY <1>0, <1>1, <2>1 DEF ReadLoad, PeekLoad, RingTypeOK, RdPcs, AdderHolds,
                            addVars, ReaderHolds, CopiedPrefix, GetPending
<1>2. CASE ReadEmpty \/ SkipEmpty
  <2>1. ~AskedTooMuch'
    BY <1>2, NotAskedAfter DEF ReadEmpty, SkipEmpty
  <2> QED
    BY <1>0, <1>2, <2>1 DEF ReadEmpty, SkipEmpty, RingTypeOK, RdPcs, AdderHolds,
                            addVars, localVars, ReaderHolds
<1>3. CASE ReadOne \/ SkipOne
  <2>1. /\ r = r_pos /\ len >= 1 /\ r # w_pos
        /\ r_pos' = Inc(r) /\ r' = Inc(r) /\ len' = len - 1
        /\ UNCHANGED <<buf, w_pos, addVars, c, got>>
    BY <1>3 DEF ReadOne, SkipOne, ReaderHolds
  <2>2. 1 \in 0 .. GetPending /\ r_pos' = At(r_pos, 1)
    BY <1>0, <2>1, IncIsAt
  <2>3. r_pos' \in Pos /\ GetPending' = GetPending - 1 /\ AdderHolds'
    BY <2>1, <2>2, MoveOn
  <2>4. given' \in Seq(Byte) /\ pc' \in {"idle", "load", "skip"}
    <3>1. given \in Seq(Byte) /\ c \in Byte
      BY DEF RingTypeOK
    <3>2. <<c>> \in Seq(Byte)
      BY <3>1
    <3> QED BY <1>3, <3>1, <3>2 DEF ReadOne, SkipOne
  <2>5. RingTypeOK'
    BY <1>0, <2>1, <2>3, <2>4 DEF RingTypeOK, RdPcs, addVars
  <2>6. pc' # "idle" => len' >= 1
    BY <1>0, <1>3, <2>1 DEF ReadOne, SkipOne
  <2>7. pc' = "load" => len' <= GetPending' \/ add_pc' = "idle"
    <3>1. pc = "check" /\ len > GetPending => add_pc = "idle"
      BY DEF ReaderHolds, AskedTooMuch
    <3>2. pc' = "load" => pc = "check"
      BY <1>3 DEF ReadOne, SkipOne
    <3>3. add_pc' = add_pc /\ (len - 1 > GetPending - 1 <=> len > GetPending)
      BY <1>0, <2>1 DEF addVars
    <3> QED BY <1>0, <2>1, <2>3, <3>1, <3>2, <3>3
  <2>8. AskedTooMuch' => add_pc' = "idle"
    <3>1. len' \in Int /\ GetPending' \in Int
      BY <1>0, <2>1, <2>3
    <3>2. pc' = "load" /\ len' > GetPending' => add_pc' = "idle"
      BY <2>7, <3>1
    <3> QED BY <2>4, <3>2, AskedAfter
  <2>9. ReaderHolds'
    BY <2>1, <2>4, <2>6, <2>8 DEF ReaderHolds
  <2> QED BY <2>3, <2>5, <2>9
<1>4. CASE PeekEmpty
  <2>1. ~AskedTooMuch'
    BY <1>4, NotAskedAfter DEF PeekEmpty, PeekDone
  <2> QED
    BY <1>0, <1>4, <2>1 DEF PeekEmpty, PeekDone, RingTypeOK, RdPcs, AdderHolds,
                            addVars, localVars, ReaderHolds
<1>5. CASE PeekOne
  <2>1. CASE len = 1
    <3>1. Append(got, c) \in Seq(Byte)
      BY <1>0, AppendProperties DEF RingTypeOK
    <3>2. ~AskedTooMuch'
      BY <1>5, <2>1, NotAskedAfter DEF PeekOne, PeekDone
    <3> QED BY <1>0, <1>5, <2>1, <3>1, <3>2
            DEF PeekOne, PeekDone, RingTypeOK, RdPcs, AdderHolds, addVars,
                localVars, ReaderHolds
  <2>2. CASE len # 1
    <3>1. /\ got' = Append(got, buf[r]) /\ r' = Inc(r) /\ r # w_pos
          /\ len' = len - 1 /\ pc' = "pload" /\ CopiedPrefix
          /\ UNCHANGED <<buf, r_pos, w_pos, addVars, c, given>>
          /\ len >= 2 /\ (Len(got) + len <= GetPending \/ add_pc = "idle")
      <4>1. pc = "pcheck" /\ Len(got) + len > GetPending => add_pc = "idle"
        BY DEF ReaderHolds, AskedTooMuch
      <4>2. Len(got) + len \in Int /\ GetPending \in Int
        BY <1>0
      <4>3. pc = "pcheck" => Len(got) + len <= GetPending \/ add_pc = "idle"
        BY <4>1, <4>2
      <4> QED BY <1>0, <1>5, <2>2, <4>3 DEF PeekOne, ReaderHolds
    <3>2. /\ CopiedPrefix' /\ Len(got') = Len(got) + 1
          /\ got' \in Seq(Byte) /\ r' \in Pos
      BY <3>1, PrefixGrows
    <3>3. RingTypeOK' /\ AdderHolds'
      BY <1>0, <3>1, <3>2 DEF RingTypeOK, RdPcs, AdderHolds, addVars
    <3>4. /\ GetPending' = GetPending /\ len' >= 1
          /\ Len(got') + len' <= GetPending' \/ add_pc' = "idle"
      BY <1>0, <3>1, <3>2 DEF GetPending, addVars
    <3>5. AskedTooMuch' => add_pc' = "idle"
      <4>1. Len(got') + len' \in Int /\ GetPending' \in Int
        BY <1>0, <3>1, <3>2, <3>4
      <4>2. Len(got') + len' > GetPending' => add_pc' = "idle"
        BY <3>4, <4>1
      <4> QED BY <3>1, <4>2, AskedAfter
    <3>6. ReaderHolds'
      BY <3>1, <3>2, <3>4, <3>5 DEF ReaderHolds
    <3> QED BY <3>3, <3>6
  <2> QED BY <2>1, <2>2
<1> QED BY <1>1, <1>2, <1>3, <1>4, <1>5

\* The scan for a line and the copy of consume.
LEMMA CopyStep ==
    ASSUME RingIInv,
           LineByte \/ LineEol \/ LineEol2 \/ LineEnd \/ CopyOne \/ CopyEnd
    PROVE  RingIInv'
<1> USE RingAssumption DEF RingIInv, RingHolds
<1>0. /\ r_pos \in Pos /\ w_pos \in Pos /\ GetPending \in 0 .. BufSize - 1
      /\ r \in Pos /\ got \in Seq(Byte)
      /\ Len(got) \in Nat /\ len \in 0 .. BufSize
  BY DistType, LenProperties DEF RingTypeOK, GetPending
<1>1. UNCHANGED <<buf, r_pos, w_pos, addVars, len, c, given>>
  BY DEF LineByte, LineEol, LineEol2, LineEnd, CopyOne, CopyEnd, localVars
<1>2. AdderHolds' /\ GetPending' = GetPending /\ CopiedPrefix
  BY <1>1 DEF AdderHolds, addVars, GetPending, LineByte, LineEol, LineEol2,
              LineEnd, CopyOne, CopyEnd, ReaderHolds
<1>3. CASE UNCHANGED <<r, got>>
  <2>1. pc' \in {"commit", "idle", "cb"} /\ (pc' = "cb" => Len(got) <= len)
    BY <1>3, <1>0 DEF LineByte, LineEol, LineEol2, LineEnd, CopyOne, CopyEnd,
                      localVars, ReaderHolds
  <2>2. CopiedPrefix'
    BY <1>1, <1>2, <1>3 DEF CopiedPrefix
  <2>3. RingTypeOK'
    BY <1>1, <1>3, <2>1 DEF RingTypeOK, RdPcs, addVars
  <2>4. ReaderHolds'
    BY <1>1, <1>3, <2>1, <2>2 DEF ReaderHolds, AskedTooMuch
  <2> QED BY <1>2, <2>3, <2>4
<1>4. CASE got' = Append(got, buf[r]) /\ r' = Inc(r)
  <2>1. r # w_pos
    <3>1. CASE CopyOne
      BY <3>1 DEF CopyOne
    <3>2. CASE ~CopyOne
      <4>1. Len(got) \in 0 .. BufSize - 1 /\ Len(got) < GetPending
        BY <1>0, <1>4, <3>2
           DEF LineByte, LineEol, LineEol2, LineEnd, CopyEnd, localVars,
               ReaderHolds
      <4> QED BY <1>0, <1>2, <4>1, AtBefore DEF CopiedPrefix, GetPending
    <3> QED BY <3>1, <3>2
  <2>2. /\ CopiedPrefix' /\ Len(got') = Len(got) + 1
        /\ got' \in Seq(Byte) /\ r' \in Pos
    BY <1>1, <1>2, <1>4, <2>1, PrefixGrows
  <2>3. /\ pc' \in {"scan", "eol", "commit", "copy"}
        /\ pc' \in {"scan", "copy"} => Len(got) < len
        /\ pc' = "eol" => Len(got) + 1 < len
        /\ pc' \in {"scan", "eol"} => len <= GetPending
    BY <1>0, <1>4 DEF LineByte, LineEol, LineEol2, LineEnd, CopyOne, CopyEnd,
                      localVars, ReaderHolds
  <2>4. RingTypeOK'
    BY <1>1, <2>2, <2>3 DEF RingTypeOK, RdPcs, addVars
  <2>5. /\ pc' \in {"scan", "copy"} => Len(got') <= len'
        /\ pc' = "eol" => Len(got') < len'
        /\ pc' \in {"scan", "eol"} => len' <= GetPending'
    BY <1>0, <1>1, <1>2, <2>2, <2>3
  <2>6. ReaderHolds'
    BY <2>2, <2>3, <2>5 DEF ReaderHolds, AskedTooMuch
  <2> QED BY <1>2, <2>4, <2>6
<1> QED BY <1>3, <1>4 DEF LineByte, LineEol, LineEol2, LineEnd, CopyOne,
                          CopyEnd, localVars

LEMMA CallbackStep ==
    ASSUME RingIInv, NEW n \in 0 .. Len(got), Callback(n)
    PROVE  RingIInv'
<1> USE RingAssumption DEF RingIInv, RingHolds
<1>0. /\ r_pos \in Pos /\ w_pos \in Pos /\ GetPending \in 0 .. BufSize - 1
      /\ r \in Pos /\ got \in Seq(Byte) /\ Len(got) \in 0 .. GetPending
      /\ CopiedPrefix /\ pc = "cb" /\ n \in Nat
  BY DistType, LenProperties
     DEF RingTypeOK, GetPending, Callback, ReaderHolds, CopiedPrefix
<1>1. /\ got' = SubSeq(got, 1, n) /\ r' = Back(r, Len(got) - n)
      /\ pc' = "commit"
      /\ UNCHANGED <<buf, r_pos, w_pos, addVars, len, c, given>>
  BY DEF Callback
<1>2. /\ got' \in Seq(Byte) /\ Len(got') = n
      /\ \A k \in 1 .. n : got'[k] = got[k]
  <2>1. \A k \in 1 .. n : got[k] \in Byte
    BY <1>0, ElementOfSeq
  <2>2. /\ SubSeq(got, 1, n) \in Seq(Byte)
        /\ Len(SubSeq(got, 1, n)) = IF 1 <= n THEN n - 1 + 1 ELSE 0
        /\ \A k \in 1 .. n - 1 + 1 : SubSeq(got, 1, n)[k] = got[1 + k - 1]
    BY <1>0, <2>1, SubSeqProperties
  <2> QED BY <1>0, <1>1, <2>2
<1>3. r' = At(r_pos, n) /\ r' \in Pos
  <2>1. r = At(r_pos, Len(got))
    BY <1>0 DEF CopiedPrefix
  <2>2. Len(got) \in 0 .. BufSize - 1 /\ n \in 0 .. BufSize - 1
    BY <1>0
  <2> QED BY <1>0, <1>1, <2>1, <2>2, BackAt, AtType
<1>4. AdderHolds' /\ GetPending' = GetPending
  BY <1>1 DEF AdderHolds, addVars, GetPending
<1>5. CopiedPrefix'
  <2>1. \A k \in 1 .. n : k \in 1 .. Len(got)
    BY <1>0
  <2>2. \A k \in 1 .. n : got'[k] = buf[At(r_pos, k - 1)]
    BY <1>0, <1>2, <2>1 DEF CopiedPrefix
  <2> QED BY <1>0, <1>1, <1>2, <1>3, <1>4, <2>2 DEF CopiedPrefix
<1>6. RingTypeOK'
  BY <1>1, <1>2, <1>3 DEF RingTypeOK, RdPcs, addVars
<1>7. ReaderHolds'
  BY <1>1, <1>5 DEF ReaderHolds, AskedTooMuch
<1> QED BY <1>4, <1>6, <1>7

LEMMA CommitStep == ASSUME RingIInv, Commit PROVE RingIInv'
<1> USE RingAssumption DEF RingIInv, RingHolds
<1>1. /\ pc = "commit" /\ pc' = "idle" /\ r_pos' = r /\ given' = got
      /\ UNCHANGED <<buf, w_pos, addVars, localVars>>
  BY DEF Commit
<1>2. Len(got) \in 0 .. GetPending /\ r_pos' = At(r_pos, Len(got))
  <2>1. Len(got) \in Nat
    BY LenProperties DEF RingTypeOK
  <2> QED BY <1>1, <2>1, DistType DEF ReaderHolds, CopiedPrefix, RingTypeOK, GetPending
<1>3. r_pos' \in Pos /\ AdderHolds'
  BY <1>1, <1>2, MoveOn
<1>4. RingTypeOK' /\ ReaderHolds'
  BY <1>1, <1>3 DEF RingTypeOK, RdPcs, addVars, localVars, ReaderHolds,
                    AskedTooMuch
<1> QED BY <1>3, <1>4

\* Clearing is safe only because no addition is under way at either store.
LEMMA ClearStep == ASSUME RingIInv, SafeUse, ClearR \/ ClearW PROVE RingIInv'
<1> USE RingAssumption DEF RingIInv, RingHolds
<1>1. 0 \in Pos
  BY DEF Pos
<1>2. CASE ClearR
  <2>1. add_pc = "idle"
    BY <1>2 DEF ClearR, MainRuns, SafeUse
  <2> QED BY <1>1, <1>2, <2>1
          DEF ClearR, RingTypeOK, RdPcs, AdderHolds, addVars, localVars,
              ReaderHolds, SafeUse
<1>3. CASE ClearW
  <2>1. add_pc = "idle"
    BY <1>3 DEF ClearW, MainRuns, ReaderHolds
  <2> QED BY <1>1, <1>3, <2>1
          DEF ClearW, RingTypeOK, RdPcs, AdderHolds, addVars, localVars,
              ReaderHolds
<1> QED BY <1>2, <1>3

LEMMA StutterStep == ASSUME RingIInv, UNCHANGED ringVars PROVE RingIInv'
BY DEF RingIInv, ringVars, RingTypeOK, RingHolds, AdderHolds, ReaderHolds, CopiedPrefix,
       AskedTooMuch, GetPending

LEMMA RingNextIInv == ASSUME RingIInv, SafeUse, [RingNext]_ringVars PROVE RingIInv'
<1>1. ASSUME NEW n \in 1 .. BufSize,
             ReadBegin(n) \/ PeekBegin(n) \/ DiscardBegin(n)
               \/ ConsumeBegin(n)
      PROVE  RingIInv'
  BY <1>1, BeginStep
<1>2. ASSUME LineBegin PROVE RingIInv'
  <2>1. 1 \in 1 .. BufSize
    BY RingAssumption
  <2> QED BY <1>2, <2>1, BeginStep
<1>3. ASSUME NEW n \in 0 .. Len(got), Callback(n) PROVE RingIInv'
  BY <1>3, CallbackStep
<1>4. CASE Adder
  BY <1>4, AdderStep
<1>5. CASE Reader
  BY <1>1, <1>2, <1>3, <1>5, ByteStep, CopyStep, CommitStep, ClearStep
     DEF Reader
<1>6. CASE UNCHANGED ringVars
  BY <1>6, StutterStep
<1> QED BY <1>4, <1>5, <1>6 DEF RingNext

\* Used as SafeUse asks, the ring keeps every position inside its buffer, for
\* every size and every interleaving of the adder and the reader.
THEOREM RingTypeCorrect == ASSUME SafeUse PROVE RingSpec => []RingTypeOK
<1>1. RingInit => RingIInv
  BY RingInitIInv
<1>2. RingIInv /\ [RingNext]_ringVars => RingIInv'
  BY RingNextIInv
<1>3. RingIInv => RingTypeOK
  BY DEF RingIInv
<1> QED BY <1>1, <1>2, <1>3, PTL DEF RingSpec

\* And both sides hold what they believe they hold: an addition its slot, a
\* read the oldest bytes of the ring, whatever the other side does meanwhile.
THEOREM RingSafe == ASSUME SafeUse PROVE RingSpec => []RingHolds
<1>1. RingInit => RingIInv
  BY RingInitIInv
<1>2. RingIInv /\ [RingNext]_ringVars => RingIInv'
  BY RingNextIInv
<1>3. RingIInv => RingHolds
  BY DEF RingIInv
<1> QED BY <1>1, <1>2, <1>3, PTL DEF RingSpec
-----------------------------------------------------------------------------
(* The ring implements the FIFO.                                           *)

LEMMA ContentsType ==
    ASSUME RingTypeOK, pc # "clear"
    PROVE  /\ Contents \in Seq(Byte)
           /\ Len(Contents) = GetPending
           /\ GetPending \in 0 .. BufSize - 1
           /\ \A k \in 1 .. GetPending : Contents[k] = buf[At(r_pos, k - 1)]
<1>1. GetPending \in 0 .. BufSize - 1 /\ GetPending \in Nat
  BY DistType, RingAssumption DEF RingTypeOK, GetPending
<1>2. Contents = [k \in 1 .. GetPending |-> buf[At(r_pos, k - 1)]]
  BY DEF Contents
<1>3. \A k \in 1 .. GetPending : buf[At(r_pos, k - 1)] \in Byte
  <2> SUFFICES ASSUME NEW k \in 1 .. GetPending
               PROVE  buf[At(r_pos, k - 1)] \in Byte
    OBVIOUS
  <2>1. k - 1 \in 0 .. BufSize - 1
    BY <1>1, RingAssumption
  <2> QED BY <2>1, AtType DEF RingTypeOK
<1>4. Contents \in [1 .. GetPending -> Byte]
  BY <1>2, <1>3
<1>5. Contents \in Seq(Byte)
  BY <1>1, <1>4, SeqDef
<1>6. Len(Contents) = GetPending
  BY <1>1, <1>4, <1>5
<1> QED BY <1>1, <1>2, <1>5, <1>6

\* What the reader has copied is the front of the queue.
LEMMA CopiedIsFront ==
    ASSUME RingTypeOK, pc # "clear", CopiedPrefix
    PROVE  got = SubSeq(Contents, 1, Len(got)) /\ Len(got) \in 0 .. Len(Contents)
<1>1. /\ Contents \in Seq(Byte) /\ Len(Contents) = GetPending
      /\ GetPending \in 0 .. BufSize - 1
      /\ \A k \in 1 .. GetPending : Contents[k] = buf[At(r_pos, k - 1)]
  BY ContentsType
<1>2. got \in Seq(Byte) /\ Len(got) \in 0 .. GetPending
  BY <1>1, LenProperties DEF RingTypeOK, CopiedPrefix
<1>3. \A k \in 1 .. Len(got) : Contents[k] \in Byte /\ k \in 1 .. GetPending
  BY <1>1, <1>2, ElementOfSeq
<1>4. /\ SubSeq(Contents, 1, Len(got)) \in Seq(Byte)
      /\ Len(SubSeq(Contents, 1, Len(got))) =
            IF 1 <= Len(got) THEN Len(got) - 1 + 1 ELSE 0
      /\ \A k \in 1 .. Len(got) - 1 + 1 :
            SubSeq(Contents, 1, Len(got))[k] = Contents[1 + k - 1]
  BY <1>2, <1>3, SubSeqProperties
<1>5. Len(SubSeq(Contents, 1, Len(got))) = Len(got)
  BY <1>2, <1>4
<1>6. \A k \in 1 .. Len(got) : got[k] = SubSeq(Contents, 1, Len(got))[k]
  BY <1>1, <1>2, <1>3, <1>4 DEF CopiedPrefix
<1>7. got = SubSeq(Contents, 1, Len(got))
  BY <1>2, <1>4, <1>5, <1>6, SeqEqual
<1> QED BY <1>1, <1>2, <1>7

\* Moving r_pos n slots on removes the n oldest bytes of the queue.
LEMMA MovedContents ==
    ASSUME RingIInv, NEW n \in 0 .. GetPending, pc # "clear", pc' # "clear", RingTypeOK',
           r_pos' = At(r_pos, n), UNCHANGED <<buf, w_pos, addVars>>
    PROVE  Contents' = SubSeq(Contents, n + 1, Len(Contents))
<1> DEFINE rest == SubSeq(Contents, n + 1, Len(Contents))
<1>0. r_pos \in Pos
  BY DEF RingIInv, RingTypeOK
<1>1. /\ Contents \in Seq(Byte) /\ Len(Contents) = GetPending
      /\ GetPending \in 0 .. BufSize - 1
      /\ \A k \in 1 .. GetPending : Contents[k] = buf[At(r_pos, k - 1)]
  BY ContentsType DEF RingIInv
<1>2. /\ Contents' \in Seq(Byte) /\ Len(Contents') = GetPending'
      /\ GetPending' \in 0 .. BufSize - 1
      /\ \A k \in 1 .. GetPending' : Contents'[k] = buf'[At(r_pos', k - 1)]
  <2>1. (RingTypeOK /\ pc # "clear" =>
           /\ Contents \in Seq(Byte) /\ Len(Contents) = GetPending
           /\ GetPending \in 0 .. BufSize - 1
           /\ \A k \in 1 .. GetPending : Contents[k] = buf[At(r_pos, k - 1)])'
    BY ContentsType, PTL
  <2> QED BY <2>1
<1>3. GetPending' = GetPending - n
  BY MoveOn
<1>4. \A i \in n + 1 .. GetPending : Contents[i] \in Byte
  BY <1>1, ElementOfSeq
<1>5. /\ rest \in Seq(Byte)
      /\ Len(rest) = IF n + 1 <= GetPending THEN GetPending - (n + 1) + 1 ELSE 0
      /\ \A i \in 1 .. GetPending - (n + 1) + 1 : rest[i] = Contents[n + 1 + i - 1]
  BY <1>1, <1>4, SubSeqProperties
<1>6. Len(rest) = GetPending - n /\ GetPending - n \in Nat
  BY <1>1, <1>5
<1>7. ASSUME NEW i \in 1 .. GetPending - n PROVE Contents'[i] = rest[i]
  <2>1. /\ i - 1 \in 0 .. BufSize - 1 /\ n \in 0 .. BufSize - 1
        /\ n + (i - 1) < BufSize
    BY <1>1, RingAssumption
  <2>2. At(r_pos', i - 1) = At(r_pos, n + (i - 1))
    BY <1>0, <2>1, AtSum
  <2>3. Contents'[i] = buf[At(r_pos, n + (i - 1))]
    BY <1>2, <1>3, <2>2
  <2>4. /\ n + i \in 1 .. GetPending /\ (n + i) - 1 = n + (i - 1)
        /\ n + 1 + i - 1 = n + i /\ i \in 1 .. GetPending - (n + 1) + 1
    BY <1>1
  <2>5. rest[i] = buf[At(r_pos, n + (i - 1))]
    BY <1>1, <1>5, <2>4
  <2> QED BY <2>3, <2>5
<1>8. Len(Contents') = Len(rest)
  BY <1>2, <1>3, <1>6
<1>9. \A i \in 1 .. Len(Contents') : Contents'[i] = rest[i]
  BY <1>2, <1>3, <1>7
<1> QED BY <1>2, <1>5, <1>8, <1>9, SeqEqual

LEMMA ContentsTypePrime ==
    ASSUME RingTypeOK', pc' # "clear"
    PROVE  /\ Contents' \in Seq(Byte)
           /\ Len(Contents') = GetPending'
           /\ GetPending' \in 0 .. BufSize - 1
           /\ \A k \in 1 .. GetPending' : Contents'[k] = buf'[At(r_pos', k - 1)]
<1>1. (RingTypeOK /\ pc # "clear" =>
         /\ Contents \in Seq(Byte) /\ Len(Contents) = GetPending
         /\ GetPending \in 0 .. BufSize - 1
         /\ \A k \in 1 .. GetPending : Contents[k] = buf[At(r_pos, k - 1)])'
  BY ContentsType, PTL
<1> QED BY <1>1

LEMMA SameContents ==
    ASSUME UNCHANGED <<buf, r_pos, w_pos>>, pc' = "clear" <=> pc = "clear"
    PROVE  Contents' = Contents
BY DEF Contents, GetPending

LEMMA PublishIsPut ==
    ASSUME RingIInv, RingIInv', AddPublish, pc # "clear"
    PROVE  Fifo!Put(add_c)
<1> USE DEF RingIInv, RingHolds
<1>1. /\ add_w = w_pos /\ Inc(w_pos) # r_pos /\ buf[w_pos] = add_c
      /\ w_pos' = Inc(w_pos) /\ UNCHANGED <<buf, r_pos, given, pc>>
      /\ add_c \in Byte /\ r_pos \in Pos /\ w_pos \in Pos
  BY DEF AddPublish, readerVars, AdderHolds, RingTypeOK
<1>2. /\ Contents \in Seq(Byte) /\ Len(Contents) = GetPending
      /\ GetPending \in 0 .. BufSize - 1
      /\ \A k \in 1 .. GetPending : Contents[k] = buf[At(r_pos, k - 1)]
  BY ContentsType
<1>3. /\ Contents' \in Seq(Byte) /\ Len(Contents') = GetPending'
      /\ GetPending' \in 0 .. BufSize - 1
      /\ \A k \in 1 .. GetPending' : Contents'[k] = buf'[At(r_pos', k - 1)]
  BY <1>1, ContentsTypePrime
<1>4. GetPending' = GetPending + 1
  BY <1>1, DistInc DEF GetPending
<1>5. Len(Contents) < BufSize - 1
  BY <1>2, <1>3, <1>4, RingAssumption
<1>6. /\ Append(Contents, add_c) \in Seq(Byte)
      /\ Len(Append(Contents, add_c)) = Len(Contents) + 1
      /\ \A i \in 1 .. Len(Contents) : Append(Contents, add_c)[i] = Contents[i]
      /\ Append(Contents, add_c)[Len(Contents) + 1] = add_c
  BY <1>1, <1>2, AppendProperties
<1>7. At(r_pos, GetPending) = w_pos
  BY <1>1, <1>2, AtBefore DEF GetPending
<1>8. ASSUME NEW i \in 1 .. GetPending + 1
      PROVE  Contents'[i] = Append(Contents, add_c)[i]
  <2>1. Contents'[i] = buf[At(r_pos, i - 1)]
    BY <1>1, <1>3, <1>4
  <2>2. CASE i = GetPending + 1
    <3>1. i - 1 = GetPending
      BY <2>2, <1>2
    <3> QED BY <2>1, <2>2, <3>1, <1>1, <1>2, <1>6, <1>7
  <2>3. CASE i # GetPending + 1
    <3>1. i \in 1 .. GetPending
      BY <2>3, <1>2
    <3> QED BY <2>1, <3>1, <1>2, <1>6
  <2> QED BY <2>2, <2>3
<1>9. Len(Contents') = Len(Append(Contents, add_c))
  BY <1>2, <1>3, <1>4, <1>6
<1>10. \A i \in 1 .. Len(Contents') : Contents'[i] = Append(Contents, add_c)[i]
  BY <1>3, <1>4, <1>8
<1>11. Contents' = Append(Contents, add_c)
  BY <1>3, <1>6, <1>9, <1>10, SeqEqual
<1> QED BY <1>1, <1>5, <1>11 DEF Fifo!Put

\* Storing the byte in the free slot is not seen in the queue.
LEMMA WriteIsHidden ==
    ASSUME RingIInv, RingIInv', AddWrite
    PROVE  Contents' = Contents
<1> USE DEF RingIInv, RingHolds
<1>1. /\ add_w = w_pos /\ UNCHANGED <<r_pos, w_pos, pc>>
      /\ buf' = [buf EXCEPT ![w_pos] = add_c]
      /\ r_pos \in Pos /\ w_pos \in Pos /\ buf \in [Pos -> Byte]
  BY DEF AddWrite, readerVars, AdderHolds, RingTypeOK
<1>2. CASE pc = "clear"
  BY <1>1, <1>2 DEF Contents
<1>3. CASE pc # "clear"
  <2>1. /\ Contents \in Seq(Byte) /\ Len(Contents) = GetPending
        /\ GetPending \in 0 .. BufSize - 1
        /\ \A k \in 1 .. GetPending : Contents[k] = buf[At(r_pos, k - 1)]
    BY <1>3, ContentsType
  <2>2. /\ Contents' \in Seq(Byte) /\ Len(Contents') = GetPending'
        /\ \A k \in 1 .. GetPending' : Contents'[k] = buf'[At(r_pos', k - 1)]
    BY <1>1, <1>3, ContentsTypePrime
  <2>3. GetPending' = GetPending
    BY <1>1 DEF GetPending
  <2>4. ASSUME NEW k \in 1 .. GetPending PROVE Contents'[k] = Contents[k]
    <3>1. k - 1 \in 0 .. BufSize - 1 /\ k - 1 < Dist(r_pos, w_pos)
      BY <2>1, RingAssumption DEF GetPending
    <3>2. At(r_pos, k - 1) \in Pos /\ At(r_pos, k - 1) # w_pos
      BY <1>1, <3>1, AtType, AtBefore
    <3>3. buf'[At(r_pos, k - 1)] = buf[At(r_pos, k - 1)]
      BY <1>1, <3>2
    <3> QED BY <1>1, <2>1, <2>2, <2>3, <3>3
  <2> QED BY <2>1, <2>2, <2>3, <2>4, SeqEqual
<1> QED BY <1>2, <1>3

LEMMA AdderRefines ==
    ASSUME RingIInv, RingIInv', Adder
    PROVE  Fifo!FifoNext \/ UNCHANGED Fifo!fifoVars
<1>1. CASE (\E b \in Byte : AddStart(b)) \/ AddFull \/ AddRoom
  <2>1. UNCHANGED <<buf, r_pos, w_pos, pc, given>>
    BY <1>1 DEF AddStart, AddFull, AddRoom, readerVars
  <2> QED BY <2>1, SameContents DEF Fifo!fifoVars
<1>2. CASE AddWrite
  BY <1>2, WriteIsHidden DEF AddWrite, readerVars, Fifo!fifoVars
<1>3. CASE AddPublish /\ pc # "clear"
  <2>1. add_c \in Byte
    BY DEF RingIInv, RingTypeOK
  <2> QED BY <1>3, <2>1, PublishIsPut DEF Fifo!FifoNext
<1>4. CASE AddPublish /\ pc = "clear"
  BY <1>4 DEF AddPublish, readerVars, Contents, Fifo!fifoVars
<1> QED BY <1>1, <1>2, <1>3, <1>4 DEF Adder

LEMMA ReaderRefines ==
    ASSUME RingIInv, RingIInv', Reader
    PROVE  Fifo!FifoNext \/ UNCHANGED Fifo!fifoVars
<1> USE DEF RingIInv, RingHolds
<1>0. pc # "clear" => /\ Contents \in Seq(Byte) /\ Len(Contents) = GetPending
                      /\ GetPending \in 0 .. BufSize - 1
  BY ContentsType
\* The steps that touch neither the ring nor what the caller has.
<1>1. ASSUME \/ \E n \in 1 .. BufSize : ReadBegin(n) \/ PeekBegin(n)
                                       \/ DiscardBegin(n) \/ ConsumeBegin(n)
             \/ ReadLoad \/ ReadEmpty \/ PeekLoad \/ SkipEmpty
             \/ LineBegin \/ LineByte \/ LineEol \/ LineEol2 \/ LineEnd
             \/ CopyOne \/ CopyEnd
             \/ \E n \in 0 .. Len(got) : Callback(n)
      PROVE  UNCHANGED Fifo!fifoVars
  <2>1. /\ UNCHANGED <<buf, r_pos, w_pos, given>>
        /\ pc # "clear" /\ pc' # "clear"
    BY <1>1 DEF ReadBegin, PeekBegin, DiscardBegin, ConsumeBegin, BeginOp,
                ReadLoad, ReadEmpty, PeekLoad, SkipEmpty, LineBegin, LineByte,
                LineEol, LineEol2, LineEnd, CopyOne, CopyEnd, Callback
  <2> QED BY <2>1, SameContents DEF Fifo!fifoVars
\* The byte a read takes is the oldest one.
<1>2. ASSUME ReadOne \/ SkipOne PROVE Fifo!FifoNext
  <2>1. /\ r = r_pos /\ r # w_pos /\ r_pos' = Inc(r) /\ pc # "clear"
        /\ pc' # "clear" /\ UNCHANGED <<buf, w_pos, addVars>>
    BY <1>2 DEF ReadOne, SkipOne, ReaderHolds
  <2>2. r_pos \in Pos /\ w_pos \in Pos
    BY DEF RingTypeOK
  <2>3. 1 \in 0 .. GetPending /\ r_pos' = At(r_pos, 1)
    BY <1>0, <2>1, <2>2, DistType, IncIsAt DEF GetPending
  <2>4. Contents' = SubSeq(Contents, 2, Len(Contents))
    BY <2>1, <2>3, MovedContents
  <2>5. Contents # <<>> /\ 1 \in 0 .. Len(Contents)
    BY <1>0, <2>1, <2>3, EmptySeq
  <2>6. CASE SkipOne
    BY <2>4, <2>5, <2>6 DEF SkipOne, Fifo!Skip, Fifo!FifoNext
  <2>7. CASE ReadOne
    <3>1. Contents[1] = buf[At(r_pos, 0)] /\ At(r_pos, 0) = r_pos
      BY <1>0, <2>1, <2>2, <2>3, ContentsType, RingAssumption DEF At, Pos
    <3>2. given' = <<Contents[1]>>
      BY <2>1, <2>7, <3>1 DEF ReadOne, ReaderHolds
    <3>3. 1 \in 1 .. Len(Contents)
      BY <1>0, <2>1, <2>3
    <3>4. SubSeq(Contents, 1, 1) = <<Contents[1]>>
      <4>1. /\ Contents[1] \in Byte /\ <<Contents[1]>> \in Seq(Byte)
            /\ Len(<<Contents[1]>>) = 1 /\ <<Contents[1]>>[1] = Contents[1]
        BY <1>0, <2>1, <3>3, ElementOfSeq
      <4>2. \A i \in 1 .. 1 : Contents[i] \in Byte
        BY <4>1
      <4>3. /\ SubSeq(Contents, 1, 1) \in Seq(Byte)
            /\ Len(SubSeq(Contents, 1, 1)) = 1
            /\ SubSeq(Contents, 1, 1)[1] = Contents[1]
        BY <4>2, SubSeqProperties
      <4>4. \A i \in 1 .. Len(SubSeq(Contents, 1, 1)) :
               SubSeq(Contents, 1, 1)[i] = <<Contents[1]>>[i]
        BY <4>1, <4>3
      <4> QED BY <4>1, <4>3, <4>4, SeqEqual
    <3> QED BY <2>4, <2>5, <3>2, <3>4 DEF Fifo!Take, Fifo!FifoNext
  <2> QED BY <1>2, <2>6, <2>7
<1>3. ASSUME PeekEmpty \/ (PeekOne /\ len # 1)
      PROVE  Fifo!FifoNext \/ UNCHANGED Fifo!fifoVars
  <2>1. /\ UNCHANGED <<buf, r_pos, w_pos>> /\ pc # "clear" /\ pc' # "clear"
        /\ CopiedPrefix
    BY <1>3 DEF PeekEmpty, PeekOne, PeekDone, ReaderHolds
  <2>2. Contents' = Contents
    BY <2>1, SameContents
  <2>3. CASE PeekEmpty
    BY <2>1, <2>2, <2>3, CopiedIsFront
       DEF PeekEmpty, PeekDone, Fifo!Look, Fifo!FifoNext
  <2>4. CASE PeekOne /\ len # 1
    BY <2>2, <2>4 DEF PeekOne, Fifo!fifoVars
  <2> QED BY <1>3, <2>3, <2>4
<1>4. ASSUME PeekOne, len = 1 PROVE Fifo!FifoNext
  <2>1. /\ UNCHANGED <<buf, r_pos, w_pos>> /\ pc # "clear" /\ pc' # "clear"
        /\ CopiedPrefix /\ c = buf[r] /\ r # w_pos
        /\ given' = Append(got, c)
    BY <1>4 DEF PeekOne, PeekDone, ReaderHolds
  <2>2. Contents' = Contents
    BY <2>1, SameContents
  <2>3. got = SubSeq(Contents, 1, Len(got)) /\ Len(got) \in 0 .. Len(Contents)
    BY <2>1, CopiedIsFront
  <2>4. /\ Len(got) + 1 \in 1 .. Len(Contents)
        /\ Contents[Len(got) + 1] = c
    <3>1. Len(got) + 1 \in 1 .. GetPending /\ (Len(got) + 1) - 1 = Len(got)
      BY <1>0, <2>1, <2>3, MoreToCopy
    <3> QED BY <1>0, <2>1, <3>1, ContentsType DEF CopiedPrefix
  <2>5. SubSeq(Contents, 1, Len(got) + 1) = Append(got, c)
    <3>1. SubSeq(Contents, 1, Len(got) + 1)
            = SubSeq(Contents, 1, (Len(got) + 1) - 1)
                \o <<Contents[Len(got) + 1]>>
      <4>1. 1 \in 1 .. Len(Contents) /\ Len(got) + 1 \in 1 .. Len(Contents)
        BY <1>0, <2>1, <2>4
      <4> QED BY <1>0, <2>1, <4>1, SubSeqRecursiveSecond
    <3>2. (Len(got) + 1) - 1 = Len(got)
      BY <2>3
    <3>3. Append(got, c) = got \o <<c>>
      BY AppendIsConcat DEF RingTypeOK
    <3> QED BY <2>3, <2>4, <3>1, <3>2, <3>3
  <2>6. Len(got) + 1 \in 0 .. Len(Contents)
    BY <2>4
  <2> QED BY <2>1, <2>2, <2>5, <2>6 DEF Fifo!Look, Fifo!FifoNext
<1>5. ASSUME Commit PROVE Fifo!FifoNext
  <2>1. /\ pc = "commit" /\ pc' = "idle" /\ r_pos' = At(r_pos, Len(got))
        /\ given' = got /\ UNCHANGED <<buf, w_pos, addVars>> /\ CopiedPrefix
    BY <1>5 DEF Commit, ReaderHolds, CopiedPrefix
  <2>2. got = SubSeq(Contents, 1, Len(got)) /\ Len(got) \in 0 .. Len(Contents)
    BY <2>1, CopiedIsFront
  <2>3. Len(got) \in 0 .. GetPending
    BY <1>0, <2>1, <2>2
  <2>4. Contents' = SubSeq(Contents, Len(got) + 1, Len(Contents))
    BY <2>1, <2>3, MovedContents
  <2> QED BY <2>1, <2>2, <2>4 DEF Fifo!Take, Fifo!FifoNext
<1>6. ASSUME ClearR PROVE Fifo!FifoNext
  BY <1>6 DEF ClearR, Contents, Fifo!Clear, Fifo!FifoNext
<1>7. ASSUME ClearW PROVE UNCHANGED Fifo!fifoVars
  <2>1. pc = "clear" /\ pc' = "idle" /\ r_pos' = 0 /\ w_pos' = 0
    BY <1>7 DEF ClearW, ReaderHolds
  <2>2. GetPending' = 0
    BY <2>1 DEF GetPending, Dist
  <2>3. Contents' \in Seq(Byte) /\ Len(Contents') = 0
    BY <2>1, <2>2, ContentsTypePrime
  <2>4. Contents' = <<>>
    BY <2>3, EmptySeq
  <2> QED BY <1>7, <2>1, <2>4 DEF ClearW, Contents, Fifo!fifoVars
<1> QED BY <1>1, <1>2, <1>3, <1>4, <1>5, <1>6, <1>7 DEF Reader

LEMMA InitRefines == ASSUME RingInit PROVE Fifo!FifoInit
<1>1. RingTypeOK /\ pc # "clear"
  BY RingInitIInv DEF RingIInv, RingInit
<1>2. GetPending = 0
  BY DEF RingInit, GetPending, Dist
<1>3. Contents \in Seq(Byte) /\ Len(Contents) = 0
  BY <1>1, <1>2, ContentsType
<1>4. Contents = <<>>
  BY <1>3, EmptySeq
<1> QED BY <1>4 DEF RingInit, Fifo!FifoInit

\* Used as SafeUse asks, a ring of any size is a first-in first-out queue of
\* BufSize - 1 bytes: ring.c loses, invents, repeats and reorders nothing.
THEOREM RingIsFifo == ASSUME SafeUse PROVE RingSpec => ImplementsFifo
<1>1. RingInit => RingIInv /\ Fifo!FifoInit
  BY RingInitIInv, InitRefines
<1>2. RingIInv /\ [RingNext]_ringVars => RingIInv'
  BY RingNextIInv
<1>3. RingIInv /\ RingIInv' /\ [RingNext]_ringVars => [Fifo!FifoNext]_(Fifo!fifoVars)
  <2>1. ASSUME UNCHANGED ringVars PROVE UNCHANGED Fifo!fifoVars
    BY <2>1 DEF ringVars, Contents, GetPending, Fifo!fifoVars
  <2> QED BY <2>1, AdderRefines, ReaderRefines DEF RingNext
<1> QED BY <1>1, <1>2, <1>3, PTL DEF RingSpec, ImplementsFifo, Fifo!FifoSpec

-----------------------------------------------------------------------------
(* The way out: the bytes of texts, frames and strings, and what else      *)
(* stands in the ring.                                                     *)

Octet == Nat \X Nat
Cell == Octet \cup {None}

Shared == {"isr", "blocking", "raw", "dump", "setup"}
Calm == had \cap Shared = {}
-----------------------------------------------------------------------------
(* What main may still have to do: the step at its head may be half done.  *)

TextSteps == [op : {"load", "wait"}, byte : Octet]
FormatSteps == [op : {"format"}, byte : Octet]
FillSteps == [op : {"fill"}, byte : Nat \X (1..2)]
DrainSteps == [op : {"drain", "drain all"}, byte : {None}]
Steps == TextSteps \cup FormatSteps \cup FillSteps \cup DrainSteps
SendSteps == [op : {"send"}, byte : Octet]
StoreSteps == [op : {"store"}, byte : Octet, at : Nat]
AnyStep == Steps \cup SendSteps \cup StoreSteps

Running(m) ==
    /\ m \in Seq(AnyStep)
    /\ \A i \in 2..Len(m) : m[i] \in Steps

\* After the load of a text's first byte comes that of another byte.
Pairs(m) == \A i \in 1..Len(m) : m[i].op = "load" /\ m[i].byte[2] = 1 => i < Len(m)

\* A byte that is being stored goes where the ring has room.
StoreInv ==
    main # <<>> /\ main[1].op = "store" =>
        main[1].at <= Len(ring) /\ main[1].at < Size - 1

MainOfKind ==
    /\ kind = "debug" => Running(main) /\ Pairs(main) /\ StoreInv
    /\ kind = "rs485" => main = <<>>
    /\ kind = "modem" =>
          \/ main = <<>>
          \/ main = <<Step("drain all", None), Step("transmitted", None), Step("take", None)>>
          \/ main = <<Step("transmitted", None), Step("take", None)>> /\ ring = <<>>
          \/ main = <<Step("take", None)>> /\ ring = <<>> /\ ~Pending(hw)

OnWire == [byte : Octet, ok : BOOLEAN]
HwTypes == [shift : OnWire \cup {None}, tdr : Cell, doing : BOOLEAN, rest : Seq(Cell),
            complete : BOOLEAN]
RsTypes == [on : BOOLEAN, start : {"over", "running"}, stopping : BOOLEAN,
            stop : {"over", "running"}, last : OnWire \cup {None}]

Types ==
    /\ kind \in Kinds
    /\ ring \in Seq(Cell) /\ Len(ring) < Size
    /\ hw \in HwTypes
    /\ wire \in Seq(OnWire)
    /\ accepted \in Seq(Octet)
    /\ logbuf \in [1..2 -> Cell]
    /\ rs \in RsTypes
    /\ direct \in BOOLEAN /\ writes \in Nat
    /\ had \subseteq Faults \cup {"full", "raw"}

HwInv ==
    /\ Len(hw.rest) < Pck
    /\ hw.rest # <<>> => hw.doing /\ ~hw.complete
    /\ hw.complete => hw.doing

\* The frames and strings have no text in log_buffer.
WholeBytes ==
    kind # "debug" => ring \in Seq(Octet) /\ hw.rest \in Seq(Octet)

\* The DMA has a byte for TDR before the shift register is empty.
NoGap == kind = "modem" /\ hw.rest # <<>> => hw.tdr # None \/ hw.shift # None

DirectInv == direct => main = <<>> /\ kind = "modem" /\ ring = <<>> /\ ~Pending(hw)

\* The driver is on for what goes out, and while it is about to be switched
\* off nothing goes out but the byte that went when the delay began.
DriverInv ==
    kind = "rs485" /\ ~Had({"refill"}) =>
        /\ hw.tdr # None \/ hw.rest # <<>> \/ hw.shift # None => rs.on
        /\ hw.shift # None => hw.shift.ok
        /\ rs.stopping =>
              /\ ring = <<>> /\ ~hw.doing /\ hw.rest = <<>> /\ hw.tdr = None
              /\ hw.shift \in {None, rs.last}
              /\ rs.stop = "over" => hw.shift = None
OtherKinds == kind # "rs485" => ~rs.on /\ (hw.shift # None => hw.shift.ok)

Inv1 == /\ Types /\ MainOfKind /\ HwInv /\ WholeBytes /\ NoGap
        /\ DirectInv /\ DriverInv /\ OtherKinds /\ (rs.stopping => rs.on) /\ Driven
-----------------------------------------------------------------------------
(* The text of a line is in log_buffer when it is wanted: the last step    *)
(* before that puts something in its place puts it, or it is there.        *)

Uses(s) == s.op \in {"load", "wait", "send", "store"} /\ s.byte[2] \in 1..2
Touches(s, k) == s.op = "format" \/ (s.op = "fill" /\ s.byte[2] = k)
Puts(s, b) == (s.op = "format" /\ s.byte[1] = b[1]) \/ (s.op = "fill" /\ s.byte = b)

InPlace(m, lb, i) ==
    LET b == m[i].byte IN
    \/ lb[b[2]] = b /\ \A l \in 1..(i - 1) : ~Touches(m[l], b[2])
    \/ \E j \in 1..(i - 1) :
           /\ Puts(m[j], b)
           /\ \A l \in (j + 1)..(i - 1) : ~Touches(m[l], b[2])
TextReady(m, lb) == \A i \in 1..Len(m) : Uses(m[i]) => InPlace(m, lb, i)

SendInv ==
    /\ (\E i \in 1..Len(main) : main[i].op \in {"wait", "send"}) =>
           /\ ring = <<>> /\ hw.rest = <<>>
           /\ \A i \in 1..Len(main) : main[i].op \notin {"load", "store"}
    /\ main # <<>> /\ main[1].op = "send" => hw.tdr = None
    /\ main # <<>> /\ main[1].op = "store" => main[1].at = Len(ring)

OrderInv ==
    Calm => /\ ring \in Seq(Octet) /\ hw.rest \in Seq(Octet)
            /\ kind = "debug" => TextReady(main, logbuf) /\ SendInv
            /\ Sent \o ring = accepted
-----------------------------------------------------------------------------
(* Sequences of steps.                                                     *)

LEMMA NoneIsNone ==
    ASSUME UartsAssumption
    PROVE  None \notin Octet /\ None \notin OnWire
BY DEF UartsAssumption, Octet, OnWire

LEMMA StepsAreAny == Steps \subseteq AnyStep
BY DEF AnyStep

LEMMA TwoCells ==
    ASSUME NEW a \in Cell, NEW b \in Cell
    PROVE  <<a, b>> \in [1..2 -> Cell]
<1>1. <<a, b>> \in Seq(Cell) /\ Len(<<a, b>>) = 2
  OBVIOUS
<1> QED
  BY <1>1, LenProperties

LEMMA SeqOfElements ==
    ASSUME NEW S, NEW R, NEW s \in Seq(S), \A i \in 1..Len(s) : s[i] \in R
    PROVE  s \in Seq(R)
<1>1. Len(s) \in Nat /\ SubSeq(s, 1, Len(s)) = s
  BY SubSeqFull, LenProperties
<1> QED
  BY <1>1, SubSeqProperties

\* The rest of a sequence.
LEMMA Rest ==
    ASSUME NEW S, NEW m \in Seq(S), m # <<>>
    PROVE  /\ Len(m) \in Nat \ {0} /\ DOMAIN m = 1..Len(m)
           /\ Head(m) = m[1] /\ m[1] \in S
           /\ Tail(m) \in Seq(S) /\ Len(Tail(m)) = Len(m) - 1
           /\ \A i \in 1..(Len(m) - 1) : Tail(m)[i] = m[i + 1]
<1>1. Len(m) \in Nat \ {0} /\ DOMAIN m = 1..Len(m)
  BY EmptySeq, LenProperties
<1>2. Head(m) = m[1] /\ m[1] \in S
  BY <1>1, ElementOfSeq
<1> QED
  BY <1>1, <1>2, HeadTailProperties

LEMMA RestIsLess ==
    ASSUME NEW S, NEW m \in Seq(S), m # <<>>
    PROVE  Tail(m) # m
<1> SUFFICES ASSUME Tail(m) = m PROVE FALSE
  OBVIOUS
<1>1. Len(m) \in Nat /\ Len(Tail(m)) = Len(m) - 1
  BY Rest
<1>2. Len(m) = Len(m) - 1
  BY <1>1
<1> QED
  BY <1>1, <1>2

LEMMA RunTail ==
    ASSUME NEW m, Running(m), m # <<>>
    PROVE  Running(Tail(m)) /\ Tail(m) \in Seq(Steps)
<1>1. m \in Seq(AnyStep)
  BY DEF Running
<1>2. Tail(m) \in Seq(AnyStep) /\ \A i \in 1..Len(Tail(m)) : Tail(m)[i] \in Steps
  BY <1>1, Rest DEF Running
<1>3. Tail(m) \in Seq(Steps)
  BY <1>2, SeqOfElements
<1>4. \A i \in 2..Len(Tail(m)) : Tail(m)[i] \in Steps
  BY <1>2
<1> QED
  BY <1>2, <1>3, <1>4 DEF Running

LEMMA PairsTail ==
    ASSUME NEW m, Running(m), m # <<>>, Pairs(m)
    PROVE  Pairs(Tail(m))
<1>1. m \in Seq(AnyStep)
  BY DEF Running
<1> QED
  BY <1>1, Rest DEF Pairs

\* The steps of a program before others.
LEMMA RunConcat ==
    ASSUME NEW a \in Seq(Steps), NEW b \in Seq(Steps), Pairs(a), Pairs(b)
    PROVE  a \o b \in Seq(Steps) /\ Running(a \o b) /\ Pairs(a \o b)
<1> DEFINE x == a \o b
<1>1. /\ x \in Seq(Steps) /\ Len(x) = Len(a) + Len(b)
      /\ \A i \in 1..(Len(a) + Len(b)) : x[i] = IF i <= Len(a) THEN a[i] ELSE b[i - Len(a)]
  BY ConcatProperties
<1>2. Len(a) \in Nat /\ Len(b) \in Nat
  BY LenProperties
<1> HIDE DEF x
<1>3. Running(x)
  <2>1. \A i \in 2..Len(x) : x[i] \in Steps
    BY <1>1, <1>2, ElementOfSeq
  <2>2. x \in Seq(AnyStep)
    BY <1>1, StepsAreAny, SeqMonotonic
  <2> QED
    BY <2>1, <2>2 DEF Running
<1>4. Pairs(x)
  <2> SUFFICES ASSUME NEW i \in 1..Len(x), x[i].op = "load", x[i].byte[2] = 1
               PROVE  i < Len(x)
    BY DEF Pairs
  <2>1. CASE i <= Len(a)
    <3>1. i < Len(a)
      BY <1>1, <1>2, <2>1 DEF Pairs
    <3> QED
      BY <1>1, <1>2, <3>1
  <2>2. CASE i > Len(a)
    <3>1. i - Len(a) \in 1..Len(b) /\ x[i] = b[i - Len(a)]
      BY <1>1, <1>2, <2>2
    <3>2. i - Len(a) < Len(b)
      BY <3>1 DEF Pairs
    <3> QED
      BY <1>1, <1>2, <3>2
  <2> QED
    BY <1>2, <2>1, <2>2
<1> QED
  BY <1>1, <1>3, <1>4 DEF x

\* The step at the head half done.
LEMMA HalfDone ==
    ASSUME NEW s \in AnyStep, NEW t \in Seq(Steps)
    PROVE  /\ <<s>> \o t \in Seq(AnyStep) /\ Running(<<s>> \o t)
           /\ Len(<<s>> \o t) = Len(t) + 1 /\ Len(t) \in Nat
           /\ (<<s>> \o t)[1] = s
           /\ \A i \in 2..(Len(t) + 1) : (<<s>> \o t)[i] = t[i - 1]
<1>1. t \in Seq(AnyStep) /\ Len(t) \in Nat
  BY StepsAreAny, SeqMonotonic, LenProperties
<1>2. <<s>> \in Seq(AnyStep) /\ Len(<<s>>) = 1 /\ <<s>>[1] = s
  OBVIOUS
<1> DEFINE x == <<s>> \o t
<1>3. /\ x \in Seq(AnyStep) /\ Len(x) = 1 + Len(t)
      /\ \A i \in 1 .. 1 + Len(t) : x[i] = IF i <= 1 THEN <<s>>[i] ELSE t[i - 1]
  BY <1>1, <1>2, ConcatProperties
<1> HIDE DEF x
<1>4. x[1] = s /\ \A i \in 2..(Len(t) + 1) : x[i] = t[i - 1]
  BY <1>1, <1>2, <1>3
<1>5. \A i \in 1..Len(t) : t[i] \in Steps
  BY ElementOfSeq
<1>6. \A i \in 2..Len(x) : x[i] \in Steps
  BY <1>1, <1>3, <1>4, <1>5
<1>7. Running(x)
  BY <1>3, <1>6 DEF Running
<1> QED
  BY <1>1, <1>3, <1>4, <1>7 DEF x

LEMMA PairsHalfDone ==
    ASSUME NEW m, Running(m), m # <<>>, Pairs(m), NEW s \in AnyStep, s.op # "load"
    PROVE  Running(<<s>> \o Tail(m)) /\ Pairs(<<s>> \o Tail(m))
<1> DEFINE t == Tail(m)
<1>1. t \in Seq(Steps) /\ Pairs(t)
  BY RunTail, PairsTail
<1> HIDE DEF t
<1> DEFINE x == <<s>> \o t
<1>2. /\ Running(x) /\ Len(x) = Len(t) + 1 /\ Len(t) \in Nat /\ x[1] = s
      /\ \A i \in 2..(Len(t) + 1) : x[i] = t[i - 1]
  BY <1>1, HalfDone
<1> HIDE DEF x
<1>3. Pairs(x)
  <2> SUFFICES ASSUME NEW i \in 1..Len(x), x[i].op = "load", x[i].byte[2] = 1
               PROVE  i < Len(x)
    BY DEF Pairs
  <2>1. i \in 2..(Len(t) + 1)
    BY <1>2
  <2>2. i - 1 \in 1..Len(t) /\ x[i] = t[i - 1]
    BY <1>2, <2>1
  <2>3. i - 1 < Len(t)
    BY <1>1, <2>2 DEF Pairs
  <2> QED
    BY <1>2, <2>1, <2>3
<1> QED
  BY <1>2, <1>3 DEF x, t

LEMMA CalledRuns ==
    ASSUME Running(main), Pairs(main), main # <<>>, Head(main).op = "load"
    PROVE  Called \in Seq(Steps) /\ Pairs(Called)
<1>1. main \in Seq(AnyStep)
  BY DEF Running
<1>2. /\ Head(main) = main[1] /\ Len(main) \in Nat \ {0} /\ Len(Tail(main)) = Len(main) - 1
  BY <1>1, Rest
<1>3. Tail(main) \in Seq(Steps) /\ Pairs(Tail(main)) /\ Running(Tail(main))
  BY RunTail, PairsTail
<1>4. CASE Head(main).byte[2] = 1
  <2>1. 1 < Len(main)
    BY <1>2, <1>4 DEF Pairs
  <2>2. Tail(main) # <<>>
    BY <1>2, <2>1, <1>3
  <2> QED
    BY <1>3, <1>4, <2>2, RunTail, PairsTail DEF Called
<1> QED
  BY <1>3, <1>4 DEF Called

\* What main sets out to do.
Program(p) == p \in Seq(Steps) /\ p # <<>> /\ Pairs(p) /\ p[1].op # "store"

LEMMA TextStep ==
    ASSUME NEW k \in Nat, NEW i \in Nat, NEW o \in {"load", "wait", "format"}
    PROVE  Step(o, <<k, i>>) \in Steps
BY DEF Step, Steps, TextSteps, FormatSteps, Octet

LEMMA FillStep ==
    ASSUME NEW k \in Nat, NEW i \in 1..2
    PROVE  Step("fill", <<k, i>>) \in Steps
BY DEF Step, Steps, FillSteps

LEMMA DrainStep ==
    ASSUME NEW o \in {"drain", "drain all"}
    PROVE  Step(o, None) \in Steps
BY DEF Step, Steps, DrainSteps

LEMMA Ten ==
    ASSUME NEW S, NEW a \in S, NEW b \in S, NEW z \in S, NEW d \in S, NEW e \in S,
           NEW f \in S, NEW g \in S, NEW h \in S, NEW i \in S, NEW j \in S
    PROVE  <<a, b, z, d, e, f, g, h, i, j>> \in Seq(S)
OBVIOUS

LEMMA ProgramsRun ==
    ASSUME NEW p, Program(p)
    PROVE  p \in Seq(AnyStep) /\ Running(p) /\ Pairs(p)
<1>1. p \in Seq(AnyStep) /\ \A i \in 2..Len(p) : p[i] \in Steps
  BY StepsAreAny, SeqMonotonic, ElementOfSeq, LenProperties DEF Program
<1> QED
  BY <1>1 DEF Running, Program

LEMMA LineRuns ==
    ASSUME NEW n \in Nat
    PROVE  Program(Line(n))
<1>0. /\ Step("format", <<n, 0>>) \in Steps
      /\ Step("load", <<n, 1>>) \in Steps
      /\ Step("load", <<n, 2>>) \in Steps
      /\ Step("load", <<n, 3>>) \in Steps
  BY TextStep
<1>1. Line(n) \in Seq(Steps)
  BY <1>0 DEF Line
<1>2. Line(n) # <<>> /\ Line(n)[1].op # "store"
  BY DEF Line, Step
<1>3. Pairs(Line(n))
  BY DEF Line, Step, Pairs
<1> QED
  BY <1>1, <1>2, <1>3 DEF Program

LEMMA BlockingRuns ==
    ASSUME NEW n \in Nat
    PROVE  Program(Blocking(n))
<1>0. /\ Step("format", <<n, 0>>) \in Steps
      /\ Step("wait", <<n, 1>>) \in Steps
      /\ Step("wait", <<n, 2>>) \in Steps
      /\ Step("wait", <<n, 3>>) \in Steps
  BY TextStep
<1>1. Blocking(n) \in Seq(Steps)
  BY <1>0 DEF Blocking
<1>2. Blocking(n) # <<>> /\ Blocking(n)[1].op # "store"
  BY DEF Blocking, Step
<1>3. Pairs(Blocking(n))
  BY DEF Blocking, Step, Pairs
<1> QED
  BY <1>1, <1>2, <1>3 DEF Program

LEMMA DumpRuns ==
    ASSUME NEW n \in Nat
    PROVE  Program(Dump(n))
<1>0. /\ Step("fill", <<n, 1>>) \in Steps /\ Step("fill", <<n, 2>>) \in Steps
      /\ Step("load", <<n, 1>>) \in Steps /\ Step("load", <<n, 2>>) \in Steps
      /\ Step("load", <<n, 3>>) \in Steps
  BY TextStep, FillStep
<1>5. Step("drain", None) \in Steps
  BY DrainStep
<1>1. Dump(n) \in Seq(Steps)
  BY <1>0, <1>5 DEF Dump
<1>2. Dump(n) # <<>> /\ Dump(n)[1].op # "store"
  BY DEF Dump, Step
<1>3. Pairs(Dump(n))
  BY DEF Dump, Step, Pairs
<1> QED
  BY <1>1, <1>2, <1>3 DEF Program

LEMMA LoadsRun ==
    ASSUME NEW n \in Nat
    PROVE  Program(Loads(n))
<1>0. /\ Step("load", <<n, 1>>) \in Steps
      /\ Step("load", <<n, 2>>) \in Steps
      /\ Step("load", <<n, 3>>) \in Steps
  BY TextStep
<1>1. Loads(n) \in Seq(Steps)
  BY <1>0 DEF Loads
<1>2. Loads(n) # <<>> /\ Loads(n)[1].op # "store"
  BY DEF Loads, Step
<1>3. Pairs(Loads(n))
  BY DEF Loads, Step, Pairs
<1> QED
  BY <1>1, <1>2, <1>3 DEF Program

LEMMA MessageRuns == Program(Message)
<1>1. Step("wait", <<0, 0>>) \in Steps
  BY TextStep
<1>2. Message \in Seq(Steps)
  BY <1>1 DEF Message
<1>3. Message # <<>> /\ Message[1].op # "store"
  BY DEF Message, Step
<1>4. Pairs(Message)
  BY DEF Message, Step, Pairs
<1> QED
  BY <1>2, <1>3, <1>4 DEF Program

LEMMA HelpRuns ==
    ASSUME NEW n \in Nat
    PROVE  Program(Help(n))
<1>1. PICK m \in Nat : m = n + 1
  OBVIOUS
<1> DEFINE h == <<Step("format", <<n, 0>>),
                  Step("load", <<n, 1>>), Step("load", <<n, 2>>), Step("load", <<n, 3>>),
                  Step("drain all", None),
                  Step("format", <<m, 0>>), Step("load", <<m, 1>>),
                  Step("load", <<m, 2>>), Step("load", <<m, 3>>),
                  Step("drain all", None)>>
<1>2. Help(n) = h
  BY <1>1 DEF Help
<1>0. /\ Step("format", <<n, 0>>) \in Steps /\ Step("format", <<m, 0>>) \in Steps
      /\ Step("load", <<n, 1>>) \in Steps /\ Step("load", <<m, 1>>) \in Steps
      /\ Step("load", <<n, 2>>) \in Steps /\ Step("load", <<m, 2>>) \in Steps
      /\ Step("load", <<n, 3>>) \in Steps /\ Step("load", <<m, 3>>) \in Steps
  BY TextStep
<1>7. Step("drain all", None) \in Steps
  BY DrainStep
<1>3. h \in Seq(Steps)
  BY <1>0, <1>7, Ten
<1> HIDE DEF h
<1>4. h # <<>> /\ h[1].op # "store" /\ Len(h) = 10
  BY DEF Step, h
<1>5. h[10].op = "drain all"
  BY DEF Step, h
<1>6. Pairs(h)
  <2> SUFFICES ASSUME NEW i \in 1..Len(h), h[i].op = "load" PROVE i < Len(h)
    BY DEF Pairs
  <2>1. i # 10
    BY <1>5
  <2> QED
    BY <1>4, <2>1
<1> QED
  BY <1>2, <1>3, <1>4, <1>6 DEF Program
-----------------------------------------------------------------------------
(* The hardware and the drain.                                             *)

\* What a drain takes from the ring is in TDR and the DMA's buffer.
LEMMA HandMoves ==
    ASSUME UartsAssumption, NEW S, S \subseteq Cell, ring \in Seq(S), hw \in HwTypes, HwInv,
           Hand, ring # <<>>, TxEmpty
    PROVE  \E d \in Seq(S) :
               /\ d # <<>> /\ d[1] \in S /\ Tail(d) \in Seq(S)
               /\ ring' \in Seq(S) /\ d \o ring' = ring /\ Len(ring') <= Len(ring)
               /\ hw' \in HwTypes /\ hw'.shift = hw.shift
               /\ hw'.tdr = d[1] /\ hw'.rest = Tail(d)
               /\ Len(hw'.rest) < Pck /\ ~hw'.complete
               /\ hw'.rest # <<>> => hw'.doing
<1>1. Len(ring) \in Nat \ {0} /\ Pck \in Nat \ {0}
  BY EmptySeq DEF UartsAssumption
<1>2. hw.rest = <<>> /\ ~hw.doing /\ ~hw.complete /\ hw.tdr = None
  BY DEF TxEmpty, HwInv
<1> DEFINE n == IF Len(ring) > Pck THEN Pck ELSE Len(ring)
           d == SubSeq(ring, 1, n)
<1>3. n \in 1..Len(ring) /\ n <= Pck
  BY <1>1
<1>4. hw' = DmaOut(d) /\ ring' = SubSeq(ring, n + 1, Len(ring))
  BY DEF Hand
<1> HIDE DEF n
<1>5. \A i \in 1..Len(ring) : ring[i] \in S
  BY ElementOfSeq
<1>6. d \in Seq(S) /\ Len(d) = n /\ d # <<>>
  <2>1. \A i \in 1..n : ring[i] \in S
    BY <1>1, <1>3, <1>5
  <2>2. d \in Seq(S) /\ Len(d) = n
    BY <1>3, <2>1, SubSeqProperties
  <2> QED
    BY <1>3, <2>2, EmptySeq
<1>7. ring' \in Seq(S) /\ Len(ring') <= Len(ring)
  <2>1. \A i \in (n + 1)..Len(ring) : ring[i] \in S
    BY <1>1, <1>3, <1>5
  <2>2. n + 1 \in Int /\ Len(ring) \in Int
    BY <1>1, <1>3
  <2>3. ring' \in Seq(S) /\ Len(ring') = IF n + 1 <= Len(ring) THEN Len(ring) - (n + 1) + 1 ELSE 0
    BY <1>4, <2>1, <2>2, SubSeqProperties
  <2> QED
    BY <1>1, <1>3, <2>3
<1>8. d \o ring' = ring
  <2>1. 1 \in 1..(Len(ring) + 1) /\ n \in (1 - 1)..Len(ring)
    BY <1>1, <1>3
  <2>2. SubSeq(ring, 1, n) \o SubSeq(ring, n + 1, Len(ring)) = SubSeq(ring, 1, Len(ring))
    BY <1>1, <1>3, <2>1, ConcatAdjacentSubSeq
  <2> QED
    BY <1>4, <2>2, SubSeqFull
<1> HIDE DEF d
<1>9. d[1] \in S /\ Tail(d) \in Seq(S) /\ Len(Tail(d)) = n - 1
  BY <1>3, <1>6, Rest
<1>10. Tail(d) \in Seq(Cell) /\ d[1] \in Cell
  BY <1>9, SeqMonotonic
<1>11. /\ hw' \in HwTypes /\ hw'.shift = hw.shift /\ hw'.tdr = d[1] /\ hw'.rest = Tail(d)
       /\ ~hw'.complete /\ (hw'.rest # <<>> => hw'.doing)
  <2>1. CASE Len(d) = 1
    <3>1. Tail(d) = <<>>
      <4>1. Len(Tail(d)) = 0
        BY <1>3, <1>6, <1>9, <2>1
      <4> QED
        BY <1>9, <4>1, EmptySeq
    <3>2. hw' = [hw EXCEPT !.tdr = d[1]]
      BY <1>4, <2>1 DEF DmaOut
    <3> QED
      BY <1>2, <1>10, <3>1, <3>2 DEF HwTypes
  <2>2. CASE Len(d) # 1
    <3>1. hw' = [hw EXCEPT !.doing = TRUE, !.tdr = d[1], !.rest = Tail(d)]
      BY <1>4, <2>2 DEF DmaOut
    <3> QED
      BY <1>2, <1>10, <3>1 DEF HwTypes
  <2> QED
    BY <2>1, <2>2
<1>12. Len(hw'.rest) < Pck
  BY <1>1, <1>3, <1>9, <1>11
<1> QED
  BY <1>6, <1>7, <1>8, <1>9, <1>11, <1>12

LEMMA HandWaits ==
    ASSUME Hand, ring = <<>> \/ ~TxEmpty
    PROVE  ring' = ring /\ hw' = hw
BY DEF Hand

LEMMA Start ==
    ASSUME UartsAssumption, Init
    PROVE  Inv1 /\ OrderInv
<1>1. kind \in {"debug", "rs485", "modem"} /\ Size \in Nat /\ 0 < Size /\ 0 < Pck
  BY DEF UartsAssumption, Init
<1>2. Types
  <2>1. ring \in Seq(Cell) /\ Len(ring) = 0 /\ wire \in Seq(OnWire) /\ accepted \in Seq(Octet)
    BY EmptySeq DEF Init
  <2>2. hw \in HwTypes
    BY EmptySeq DEF Init, Quiescent, HwTypes, Cell
  <2>3. rs \in RsTypes /\ logbuf \in [1..2 -> Cell]
    BY DEF Init, Released, RsTypes, Cell
  <2> QED
    BY <1>1, <2>1, <2>2, <2>3 DEF Init, Types
<1>3. MainOfKind
  <2>1. main = <<>> /\ Running(main) /\ Pairs(main) /\ StoreInv
    BY EmptySeq DEF Init, Running, Pairs, StoreInv
  <2> QED
    BY <1>1, <2>1 DEF MainOfKind
<1>4. HwInv /\ WholeBytes /\ NoGap /\ DirectInv
  BY <1>1, EmptySeq DEF Init, Quiescent, HwInv, WholeBytes, NoGap, DirectInv
<1>5. DriverInv /\ OtherKinds /\ (rs.stopping => rs.on) /\ Driven
  BY <1>1 DEF Init, Quiescent, Released, DriverInv, OtherKinds, Driven
<1>6. OrderInv
  <2>1. TextReady(main, logbuf) /\ SendInv
    BY DEF Init, TextReady, SendInv
  <2>2. Sent \o ring = accepted
    <3>1. hw.shift = None /\ hw.tdr = None /\ hw.rest = <<>> /\ wire = <<>> /\ ring = <<>>
      BY DEF Init, Quiescent
    <3>2. [i \in DOMAIN wire |-> wire[i].byte] = <<>>
      BY <3>1
    <3> QED
      BY <3>1, <3>2, EmptySeq, ConcatEmptySeq DEF Init, Sent, Or
  <2> QED
    BY <2>1, <2>2, EmptySeq DEF OrderInv, Init, Quiescent
<1> QED
  BY <1>2, <1>3, <1>4, <1>5, <1>6 DEF Inv1
-----------------------------------------------------------------------------
(* The steps of main for a line, in the kind that has them.                *)

\* What a step of main leaves alone, and the types of what it changes.
LEMMA MainKept ==
    ASSUME UartsAssumption, Inv1, kind = "debug", MainStep
    PROVE  /\ Running(main') /\ Pairs(main')
           /\ main' \in Seq(Steps) \/ Load \/ Wait \/ main' = main
           /\ direct' = direct /\ UNCHANGED <<kind, wire, rs, writes>>
<1>1. main # <<>> /\ Running(main) /\ Pairs(main) /\ UNCHANGED <<kind, wire, rs, writes>>
  BY DEF MainStep, Inv1, MainOfKind
<1>2. main \in Seq(AnyStep) /\ Head(main) = main[1] /\ main[1] \in AnyStep
  BY <1>1, Rest DEF Running
<1>3. Tail(main) \in Seq(Steps) /\ Running(Tail(main)) /\ Pairs(Tail(main))
  BY <1>1, RunTail, PairsTail
<1>4. Head(main).op # "take" /\ Head(main).op # "transmitted"
  BY <1>2 DEF AnyStep, Steps, TextSteps, FormatSteps, FillSteps, DrainSteps, SendSteps, StoreSteps
<1>15. direct' = direct
  BY <1>4 DEF MainStep
<1> SUFFICES /\ Running(main') /\ Pairs(main')
             /\ main' \in Seq(Steps) \/ Load \/ Wait \/ main' = main
  BY <1>1, <1>15
<1>5. CASE Format
  BY <1>3, <1>5 DEF Format
<1>6. CASE Fill
  BY <1>3, <1>6 DEF Fill
<1>7. CASE Nested
  <2>1. Loads(0) \in Seq(Steps) /\ Pairs(Loads(0))
    BY LoadsRun DEF Program
  <2>2. /\ Running(Loads(0) \o Tail(main)) /\ Pairs(Loads(0) \o Tail(main))
        /\ Loads(0) \o Tail(main) \in Seq(Steps)
    BY <1>3, <2>1, RunConcat
  <2>3. main' = Tail(main) \/ main' = Loads(0) \o Tail(main)
    BY <1>7 DEF Nested
  <2> QED
    BY <1>3, <2>2, <2>3
<1>8. CASE Load
  <2> DEFINE s == [op |-> "store", byte |-> Head(main).byte, at |-> Len(ring)]
  <2>1. Head(main).byte \in Octet /\ Len(ring) \in Nat
    BY <1>2, <1>8, LenProperties
       DEF Load, AnyStep, Steps, TextSteps, FormatSteps, FillSteps, DrainSteps, SendSteps,
           StoreSteps, Inv1, Types
  <2>2. s \in AnyStep /\ s.op # "load"
    BY <2>1 DEF AnyStep, StoreSteps
  <2>3. main' = <<s>> \o Tail(main)
    BY <1>8 DEF Load
  <2> HIDE DEF s
  <2> QED
    BY <1>1, <1>8, <2>2, <2>3, PairsHalfDone
<1>9. CASE LoadFull
  <2>1. Head(main).op = "load"
    BY <1>9 DEF LoadFull
  <2>2. Called \in Seq(Steps) /\ Pairs(Called)
    BY <1>1, <2>1, CalledRuns
  <2>3. Message \in Seq(Steps) /\ Pairs(Message)
    BY MessageRuns DEF Program
  <2>4. /\ Running(Message \o Called) /\ Pairs(Message \o Called)
        /\ Message \o Called \in Seq(Steps)
    BY <2>2, <2>3, RunConcat
  <2>5. main' = Tail(main) \/ main' = Message \o Called
    BY <1>9 DEF LoadFull
  <2> QED
    BY <1>3, <2>4, <2>5
<1>10. CASE Store
  BY <1>3, <1>10 DEF Store
<1>11. CASE Wait
  <2> DEFINE s == [Head(main) EXCEPT !.op = "send"]
  <2>1. Head(main) \in TextSteps
    BY <1>2, <1>11 DEF Wait, AnyStep, Steps, TextSteps, FormatSteps, FillSteps, DrainSteps,
                       SendSteps, StoreSteps
  <2>2. s \in AnyStep /\ s.op # "load"
    BY <2>1 DEF AnyStep, SendSteps, TextSteps
  <2>3. main' = <<s>> \o Tail(main)
    BY <1>11 DEF Wait
  <2> HIDE DEF s
  <2> QED
    BY <1>1, <1>11, <2>2, <2>3, PairsHalfDone
<1>12. CASE Send
  BY <1>3, <1>12 DEF Send
<1>13. CASE DrainAll
  <2>1. main' = main \/ main' = Tail(main)
    BY <1>13 DEF DrainAll
  <2> QED
    BY <1>1, <1>3, <2>1
<1>14. \/ Format \/ Fill \/ Nested \/ Load \/ LoadFull \/ Store \/ Wait \/ Send \/ DrainAll
  BY <1>4 DEF MainStep, Transmitted
<1> QED
  BY <1>5, <1>6, <1>7, <1>8, <1>9, <1>10, <1>11, <1>12, <1>13, <1>14

LEMMA MainTypes ==
    ASSUME UartsAssumption, Inv1, kind = "debug", MainStep
    PROVE  /\ ring' \in Seq(Cell) /\ Len(ring') < Size
           /\ hw' \in HwTypes /\ HwInv' /\ hw'.shift = hw.shift
           /\ accepted' \in Seq(Octet) /\ logbuf' \in [1..2 -> Cell]
           /\ had' \subseteq Faults \cup {"full", "raw"}
<1>1. /\ main # <<>> /\ Running(main) /\ StoreInv
      /\ ring \in Seq(Cell) /\ Len(ring) \in Nat /\ Len(ring) < Size /\ Size \in Nat
      /\ hw \in HwTypes /\ HwInv /\ logbuf \in [1..2 -> Cell] /\ accepted \in Seq(Octet)
      /\ had \subseteq Faults \cup {"full", "raw"}
  BY LenProperties DEF MainStep, Inv1, MainOfKind, Types, UartsAssumption
<1>2. main \in Seq(AnyStep) /\ Head(main) = main[1] /\ main[1] \in AnyStep
  BY <1>1, Rest DEF Running
<1>3. ASSUME Hand PROVE /\ ring' \in Seq(Cell) /\ Len(ring') < Size
                        /\ hw' \in HwTypes /\ HwInv' /\ hw'.shift = hw.shift
  <2>1. CASE ring = <<>> \/ ~TxEmpty
    BY <1>1, <1>3, <2>1, HandWaits DEF HwInv
  <2>2. CASE ring # <<>> /\ TxEmpty
    <3>1. /\ ring' \in Seq(Cell) /\ Len(ring') <= Len(ring)
          /\ hw' \in HwTypes /\ hw'.shift = hw.shift
          /\ Len(hw'.rest) < Pck /\ ~hw'.complete
          /\ hw'.rest # <<>> => hw'.doing
      BY <1>1, <1>3, <2>2, HandMoves
    <3>2. Len(ring') \in Nat
      BY <3>1, LenProperties
    <3> QED
      BY <1>1, <3>1, <3>2 DEF HwInv
  <2> QED
    BY <2>1, <2>2
<1>4. \A b \in Octet : Text(b) \in Cell
  BY <1>1 DEF Text, Cell
<1>5. CASE Format
  <2>1. Head(main).byte \in Octet
    BY <1>2, <1>5 DEF Format, AnyStep, Steps, TextSteps, FormatSteps, FillSteps, DrainSteps,
                      SendSteps, StoreSteps
  <2>2. <<Head(main).byte[1], 1>> \in Cell /\ <<Head(main).byte[1], 2>> \in Cell
    BY <2>1 DEF Octet, Cell
  <2>3. logbuf' = << <<Head(main).byte[1], 1>>, <<Head(main).byte[1], 2>> >>
    BY <1>5 DEF Format
  <2>4. logbuf' \in [1..2 -> Cell]
    BY <2>2, <2>3, TwoCells
  <2> QED
    BY <1>1, <1>5, <2>4 DEF Format, HwInv
<1>6. CASE Fill
  <2>1. Head(main).byte \in Nat \X (1..2)
    BY <1>2, <1>6 DEF Fill, AnyStep, Steps, TextSteps, FormatSteps, FillSteps, DrainSteps,
                      SendSteps, StoreSteps
  <2>2. Head(main).byte \in Cell
    BY <2>1 DEF Octet, Cell
  <2>3. logbuf' \in [1..2 -> Cell]
    BY <1>1, <1>6, <2>2 DEF Fill
  <2> QED
    BY <1>1, <1>6, <2>3 DEF Fill, HwInv
<1>7. CASE Nested
  <2>1. Hand /\ accepted' = accepted
    BY <1>7 DEF Nested
  <2>2. had' \subseteq Faults \cup {"full", "raw"}
    BY <1>1, <1>7 DEF Nested, With
  <2>3. logbuf' \in [1..2 -> Cell]
    <3>1. <<0, 1>> \in Cell /\ <<0, 2>> \in Cell
      BY DEF Octet, Cell
    <3>2. logbuf' = logbuf \/ logbuf' = << <<0, 1>>, <<0, 2>> >>
      BY <1>7 DEF Nested
    <3>3. << <<0, 1>>, <<0, 2>> >> \in [1..2 -> Cell]
      BY <3>1, TwoCells
    <3> QED
      BY <1>1, <3>2, <3>3
  <2> QED
    BY <1>1, <1>3, <2>1, <2>2, <2>3
<1>8. CASE Load
  BY <1>1, <1>8 DEF Load, HwInv
<1>9. CASE LoadFull
  <2>1. had' \subseteq Faults \cup {"full", "raw"}
    BY <1>1, <1>9 DEF LoadFull, Note
  <2> QED
    BY <1>1, <1>9, <2>1 DEF LoadFull, HwInv
<1>10. CASE Store
  <2>1. Head(main).byte \in Octet /\ Head(main).at \in Nat
    BY <1>2, <1>10 DEF Store, AnyStep, Steps, TextSteps, FormatSteps, FillSteps, DrainSteps,
                       SendSteps, StoreSteps
  <2>2. Head(main).at <= Len(ring) /\ Head(main).at < Size - 1
    BY <1>1, <1>2, <1>10 DEF StoreInv, Store
  <2> DEFINE kept == SubSeq(ring, 1, Head(main).at)
  <2>3. kept \in Seq(Cell) /\ Len(kept) = Head(main).at
    <3>1. \A i \in 1..Head(main).at : ring[i] \in Cell
      BY <1>1, <2>1, <2>2, ElementOfSeq
    <3>2. kept \in Seq(Cell) /\ Len(kept) = IF 1 <= Head(main).at THEN Head(main).at - 1 + 1 ELSE 0
      BY <2>1, <3>1, SubSeqProperties
    <3> QED
      BY <2>1, <3>2
  <2>4. Text(Head(main).byte) \in Cell /\ ring' = Append(kept, Text(Head(main).byte))
    BY <1>4, <1>10, <2>1 DEF Store
  <2> HIDE DEF kept
  <2>5. ring' \in Seq(Cell) /\ Len(ring') = Head(main).at + 1
    BY <2>3, <2>4, AppendProperties
  <2>6. accepted' \in Seq(Octet)
    BY <1>1, <1>10, <2>1, AppendProperties DEF Store
  <2>7. Len(ring') < Size
    BY <1>1, <2>1, <2>2, <2>5
  <2> QED
    BY <1>1, <1>10, <2>5, <2>6, <2>7 DEF Store, HwInv
<1>11. CASE Wait
  BY <1>1, <1>11 DEF Wait, HwInv
<1>12. CASE Send
  <2>1. Head(main).byte \in Octet
    BY <1>2, <1>12 DEF Send, AnyStep, Steps, TextSteps, FormatSteps, FillSteps, DrainSteps,
                       SendSteps, StoreSteps
  <2>2. accepted' \in Seq(Octet)
    BY <1>1, <1>12, <2>1, AppendProperties DEF Send
  <2>3. Text(Head(main).byte) \in Cell
    BY <1>4, <2>1
  <2>4. hw' \in HwTypes /\ HwInv' /\ hw'.shift = hw.shift
    BY <1>1, <1>12, <2>3 DEF Send, HwTypes, HwInv
  <2> QED
    BY <1>1, <1>12, <2>2, <2>4 DEF Send
<1>13. CASE DrainAll
  <2>1. Hand /\ UNCHANGED <<accepted, logbuf, had>>
    BY <1>13 DEF DrainAll
  <2> QED
    BY <1>1, <1>3, <2>1
<1>14. \/ Format \/ Fill \/ Nested \/ Load \/ LoadFull \/ Store \/ Wait \/ Send \/ DrainAll
  <2>1. Head(main).op # "take" /\ Head(main).op # "transmitted"
    BY <1>2 DEF AnyStep, Steps, TextSteps, FormatSteps, FillSteps, DrainSteps, SendSteps, StoreSteps
  <2> QED
    BY <2>1 DEF MainStep, Transmitted
<1> QED
  BY <1>5, <1>6, <1>7, <1>8, <1>9, <1>10, <1>11, <1>12, <1>13, <1>14

LEMMA MainStepInv ==
    ASSUME UartsAssumption, Inv1, kind = "debug", MainStep
    PROVE  Inv1'
<1>1. /\ Running(main') /\ Pairs(main') /\ direct' = direct
      /\ UNCHANGED <<kind, wire, rs, writes>>
      /\ main' \in Seq(Steps) \/ Load \/ Wait \/ main' = main
  BY MainKept
<1>2. /\ ring' \in Seq(Cell) /\ Len(ring') < Size
      /\ hw' \in HwTypes /\ HwInv' /\ hw'.shift = hw.shift
      /\ accepted' \in Seq(Octet) /\ logbuf' \in [1..2 -> Cell]
      /\ had' \subseteq Faults \cup {"full", "raw"}
  BY MainTypes
<1>3. Types'
  BY <1>1, <1>2 DEF Inv1, Types
<1>4. main # <<>> /\ Running(main) /\ StoreInv /\ ~direct
  BY DEF MainStep, Inv1, MainOfKind, DirectInv
<1>5. StoreInv'
  <2>1. CASE main' \in Seq(Steps)
    <3>1. main' # <<>> => main'[1] \in Steps
      BY <2>1, Rest
    <3>2. main' # <<>> => main'[1].op # "store"
      BY <3>1 DEF Steps, TextSteps, FormatSteps, FillSteps, DrainSteps
    <3> QED
      BY <3>2 DEF StoreInv
  <2>2. CASE Load
    <3> DEFINE s == [op |-> "store", byte |-> Head(main).byte, at |-> Len(ring)]
    <3>1. Tail(main) \in Seq(Steps) /\ main' = <<s>> \o Tail(main)
      BY <1>4, <2>2, RunTail DEF Load
    <3>2. main'[1] = s
      <4>1. main[1] \in AnyStep /\ Head(main) = main[1] /\ Len(ring) \in Nat
        BY <1>4, Rest, LenProperties DEF Running, Inv1, Types
      <4>2. Head(main).byte \in Octet
        BY <2>2, <4>1 DEF Load, AnyStep, Steps, TextSteps, FormatSteps, FillSteps, DrainSteps,
                          SendSteps, StoreSteps
      <4>3. s \in AnyStep
        BY <4>1, <4>2 DEF AnyStep, StoreSteps
      <4> HIDE DEF s
      <4> QED
        BY <3>1, <4>3, HalfDone
    <3>3. main'[1].at = Len(ring) /\ ring' = ring /\ ~Full(ring) /\ Size \in Nat /\ Len(ring) \in Nat
      BY <2>2, <3>2, LenProperties DEF Load, UartsAssumption, Inv1, Types
    <3> QED
      BY <3>3 DEF StoreInv, Full
  <2>3. CASE Wait
    <3> DEFINE s == [Head(main) EXCEPT !.op = "send"]
    <3>1. Tail(main) \in Seq(Steps) /\ main' = <<s>> \o Tail(main)
      BY <1>4, <2>3, RunTail DEF Wait
    <3>2. main'[1] = s /\ s.op = "send"
      <4>1. main[1] \in AnyStep /\ Head(main) = main[1]
        BY <1>4, Rest DEF Running
      <4>2. Head(main) \in TextSteps
        BY <2>3, <4>1 DEF Wait, AnyStep, Steps, TextSteps, FormatSteps, FillSteps, DrainSteps,
                          SendSteps, StoreSteps
      <4>3. s \in AnyStep /\ s.op = "send"
        BY <4>2 DEF AnyStep, SendSteps, TextSteps
      <4> HIDE DEF s
      <4> QED
        BY <3>1, <4>3, HalfDone
    <3> QED
      BY <3>2 DEF StoreInv
  <2>4. CASE main' = main
    <3>1. CASE Head(main).op = "store"
      <4>1. Store
        BY <3>1 DEF MainStep, Format, Fill, Nested, Load, LoadFull, Store, Wait, Send, DrainAll, Transmitted
      <4>2. main' = Tail(main) /\ Tail(main) # main
        BY <1>4, <4>1, RestIsLess DEF Store, Running
      <4> QED
        BY <2>4, <4>2
    <3>2. CASE Head(main).op # "store"
      <4>1. Head(main) = main[1]
        BY <1>4, Rest DEF Running
      <4>2. main'[1].op # "store"
        BY <2>4, <3>2, <4>1
      <4> QED
        BY <4>2 DEF StoreInv
    <3> QED
      BY <3>1, <3>2
  <2> QED
    BY <1>1, <2>1, <2>2, <2>3, <2>4
<1>6. MainOfKind'
  BY <1>1, <1>5 DEF MainOfKind
<1>7. WholeBytes' /\ NoGap' /\ DirectInv' /\ DriverInv'
  BY <1>1, <1>4 DEF WholeBytes, NoGap, DirectInv, DriverInv
<1>8. OtherKinds' /\ (rs'.stopping => rs'.on)
  BY <1>1, <1>2 DEF OtherKinds, Inv1
<1>9. Driven'
  <2>1. had \subseteq had'
    BY DEF MainStep, Format, Fill, Nested, Load, LoadFull, Store, Wait, Send, DrainAll, Transmitted,
           With, Note
  <2> QED
    BY <1>1, <2>1 DEF Driven, Had, Inv1
<1> QED
  BY <1>2, <1>3, <1>6, <1>7, <1>8, <1>9 DEF Inv1
-----------------------------------------------------------------------------
(* The other steps.                                                        *)

LEMMA ThreeSteps ==
    ASSUME NEW a, NEW b, NEW z
    PROVE  /\ <<a, b, z>> # <<>> /\ Head(<<a, b, z>>) = a /\ Tail(<<a, b, z>>) = <<b, z>>
           /\ <<b, z>> # <<>> /\ Head(<<b, z>>) = b /\ Tail(<<b, z>>) = <<z>>
           /\ <<z>> # <<>> /\ Head(<<z>>) = z /\ Tail(<<z>>) = <<>>
OBVIOUS

\* What a step of main may do where pins are given away.
LEMMA DirectStepInv ==
    ASSUME UartsAssumption, Inv1, kind = "modem", MainStep
    PROVE  Inv1'
<1> DEFINE a == Step("drain all", None)
           b == Step("transmitted", None)
           z == Step("take", None)
<1>1. /\ main # <<>> /\ UNCHANGED <<kind, wire, rs, writes>>
      /\ \/ main = <<a, b, z>>
         \/ main = <<b, z>> /\ ring = <<>>
         \/ main = <<z>> /\ ring = <<>> /\ ~Pending(hw)
  BY DEF MainStep, Inv1, MainOfKind
<1>2. a.op = "drain all" /\ b.op = "transmitted" /\ z.op = "take"
  BY DEF Step
<1> HIDE DEF a, b, z
<1>3. ~direct
  BY <1>1 DEF Inv1, DirectInv
<1>4. /\ ring \in Seq(Cell) /\ Len(ring) < Size /\ hw \in HwTypes /\ HwInv
      /\ ring \in Seq(Octet) /\ hw.rest \in Seq(Octet) /\ None \notin Octet
      /\ Size \in Nat /\ Len(ring) \in Nat
  BY <1>1, LenProperties, NoneIsNone DEF Inv1, Types, WholeBytes, UartsAssumption
<1>5. CASE main = <<a, b, z>>
  <2>1. Head(main) = a /\ Tail(main) = <<b, z>>
    BY <1>5, ThreeSteps
  <2>2. DrainAll /\ direct' = direct
    BY <1>2, <2>1 DEF MainStep, Format, Fill, Nested, Load, LoadFull, Store, Wait, Send, Transmitted
  <2>3. /\ ring' \in Seq(Octet) /\ ring' \in Seq(Cell) /\ Len(ring') < Size /\ hw' \in HwTypes /\ HwInv'
        /\ hw'.rest \in Seq(Octet) /\ hw'.shift = hw.shift
        /\ hw' = hw \/ hw'.tdr # None
    <3>1. CASE ring = <<>> \/ ~TxEmpty
      BY <1>4, <2>2, <3>1, HandWaits DEF DrainAll, HwInv
    <3>2. CASE ring # <<>> /\ TxEmpty
      <4>1. PICK d \in Seq(Octet) :
               /\ d # <<>> /\ d[1] \in Octet /\ Tail(d) \in Seq(Octet)
               /\ ring' \in Seq(Octet) /\ d \o ring' = ring /\ Len(ring') <= Len(ring)
               /\ hw' \in HwTypes /\ hw'.shift = hw.shift
               /\ hw'.tdr = d[1] /\ hw'.rest = Tail(d)
               /\ Len(hw'.rest) < Pck /\ ~hw'.complete
               /\ hw'.rest # <<>> => hw'.doing
        <5>1. Octet \subseteq Cell /\ Hand
          BY <2>2 DEF Cell, DrainAll
        <5> QED
          BY <1>4, <3>2, <5>1, HandMoves
      <4>2. ring' \in Seq(Cell) /\ Len(ring') \in Nat
        BY <4>1, SeqMonotonic, LenProperties DEF Cell
      <4> QED
        BY <1>4, <4>1, <4>2 DEF HwInv
    <3> QED
      BY <3>1, <3>2
  <2>4. UNCHANGED <<accepted, logbuf, had>>
    BY <2>2 DEF DrainAll
  <2>5. Types'
    BY <1>1, <2>2, <2>3, <2>4 DEF Types, Inv1
  <2>6. MainOfKind'
    <3>1. \/ main' = <<a, b, z>>
          \/ main' = <<b, z>> /\ ring' = <<>>
      BY <1>5, <2>1, <2>2, HandWaits DEF DrainAll
    <3> QED
      BY <1>1, <3>1 DEF MainOfKind, a, b, z
  <2>7. WholeBytes' /\ NoGap' /\ DirectInv' /\ DriverInv' /\ OtherKinds' /\ (rs'.stopping => rs'.on)
    BY <1>1, <1>3, <2>2, <2>3 DEF Inv1, WholeBytes, NoGap, DirectInv, DriverInv, OtherKinds
  <2>8. Driven'
    BY <1>1, <2>4 DEF Inv1, Driven, Had
  <2> QED
    BY <2>3, <2>5, <2>6, <2>7, <2>8 DEF Inv1
<1>6. CASE main = <<b, z>> /\ ring = <<>>
  <2>1. Head(main) = b /\ Tail(main) = <<z>>
    BY <1>6, ThreeSteps
  <2>2. Transmitted /\ direct' = direct
    BY <1>2, <2>1 DEF MainStep, Format, Fill, Nested, Load, LoadFull, Store, Wait, Send, DrainAll
  <2>3. UNCHANGED <<ring, hw, accepted, logbuf, had>> /\ main' = <<z>> /\ ring' = <<>>
    BY <1>6, <2>1, <2>2 DEF Transmitted
  <2>4. ~Pending(hw) /\ ~Pending(hw)'
    BY <1>1, <2>2, <2>3 DEF Transmitted, Pending, Inv1, NoGap
  <2>5. Types' /\ MainOfKind'
    BY <1>1, <2>2, <2>3, <2>4 DEF Types, MainOfKind, Inv1, z
  <2> QED
    BY <1>1, <1>3, <2>2, <2>3, <2>5
       DEF Inv1, HwInv, WholeBytes, NoGap, DirectInv, DriverInv, OtherKinds, Driven, Had
<1>7. CASE main = <<z>> /\ ring = <<>> /\ ~Pending(hw)
  <2>1. Head(main) = z /\ Tail(main) = <<>>
    BY <1>7, ThreeSteps
  <2>2. main' = <<>> /\ direct' = TRUE /\ UNCHANGED <<ring, hw, accepted, logbuf, had>>
    BY <1>2, <2>1 DEF MainStep, Format, Fill, Nested, Load, LoadFull, Store, Wait, Send, DrainAll, Transmitted
  <2>3. ~Pending(hw)' /\ ring' = <<>>
    BY <1>7, <2>2 DEF Pending
  <2>4. Types' /\ MainOfKind' /\ DirectInv'
    BY <1>1, <2>2, <2>3 DEF Types, MainOfKind, DirectInv, Inv1
  <2> QED
    BY <1>1, <2>2, <2>4 DEF Inv1, HwInv, WholeBytes, NoGap, DriverInv, OtherKinds, Driven, Had
<1> QED
  BY <1>1, <1>5, <1>6, <1>7

LEMMA OutDrainInv ==
    ASSUME UartsAssumption, Inv1, OutDrain
    PROVE  Inv1'
<1>1. /\ main = <<>> /\ ~direct /\ Drain
      /\ UNCHANGED <<kind, wire, accepted, main, logbuf, direct, writes, had>>
  BY DEF OutDrain, Idle
<1>2. /\ ring \in Seq(Cell) /\ Len(ring) < Size /\ hw \in HwTypes /\ HwInv /\ rs \in RsTypes
      /\ None \notin Octet /\ Size \in Nat /\ Len(ring) \in Nat
  BY LenProperties, NoneIsNone DEF Inv1, Types, UartsAssumption
<1>3. ASSUME Hand, ring # <<>>, TxEmpty
      PROVE  /\ ring' \in Seq(Cell) /\ Len(ring') < Size /\ hw' \in HwTypes /\ HwInv'
             /\ hw'.shift = hw.shift /\ WholeBytes' /\ NoGap'
  <2> DEFINE S == IF kind = "debug" THEN Cell ELSE Octet
  <2>1. S \subseteq Cell /\ ring \in Seq(S)
    BY <1>2 DEF Cell, Inv1, WholeBytes
  <2> HIDE DEF S
  <2>2. PICK d \in Seq(S) :
           /\ d # <<>> /\ d[1] \in S /\ Tail(d) \in Seq(S)
           /\ ring' \in Seq(S) /\ d \o ring' = ring /\ Len(ring') <= Len(ring)
           /\ hw' \in HwTypes /\ hw'.shift = hw.shift
           /\ hw'.tdr = d[1] /\ hw'.rest = Tail(d)
           /\ Len(hw'.rest) < Pck /\ ~hw'.complete
           /\ hw'.rest # <<>> => hw'.doing
    BY <1>2, <1>3, <2>1, HandMoves
  <2>3. ring' \in Seq(Cell) /\ Len(ring') \in Nat
    BY <2>1, <2>2, SeqMonotonic, LenProperties
  <2>4. WholeBytes' /\ NoGap'
    BY <1>1, <1>2, <2>2 DEF WholeBytes, NoGap, S
  <2> QED
    BY <1>2, <2>2, <2>3, <2>4 DEF HwInv
<1>4. ASSUME Hand PROVE /\ ring' \in Seq(Cell) /\ Len(ring') < Size /\ hw' \in HwTypes /\ HwInv'
                        /\ hw'.shift = hw.shift /\ WholeBytes' /\ NoGap'
  <2>1. CASE ring = <<>> \/ ~TxEmpty
    <3>1. ring' = ring /\ hw' = hw
      BY <1>4, <2>1, HandWaits
    <3> QED
      BY <1>1, <1>2, <3>1 DEF Inv1, HwInv, WholeBytes, NoGap
  <2> QED
    BY <1>3, <1>4, <2>1
<1>5. MainOfKind'
  <2>1. main' = <<>> /\ Running(main') /\ Pairs(main') /\ StoreInv'
    BY <1>1, EmptySeq DEF Running, Pairs, StoreInv
  <2> QED
    BY <1>1, <2>1 DEF MainOfKind
<1>6. DirectInv' /\ Driven'
  BY <1>1 DEF DirectInv, Driven, Had, Inv1
<1>7. CASE kind # "rs485"
  <2>1. Hand /\ rs' = rs
    BY <1>1, <1>7 DEF Drain
  <2>2. Types'
    BY <1>1, <1>4, <2>1 DEF Types, Inv1
  <2>3. DriverInv' /\ OtherKinds' /\ (rs'.stopping => rs'.on)
    BY <1>1, <1>4, <1>7, <2>1 DEF DriverInv, OtherKinds, Inv1
  <2> QED
    BY <1>4, <1>5, <1>6, <2>1, <2>2, <2>3 DEF Inv1
<1>8. CASE kind = "rs485" /\ RsEmpty
  <2>1. ring = <<>> /\ ring' = ring /\ rs.on /\ hw.tdr = None /\ ~hw.doing /\ hw.rest = <<>>
    BY <1>2, <1>8 DEF RsEmpty, TxEmpty, HwInv
  <2>2. CASE ~rs.stopping /\ rs' = [rs EXCEPT !.stopping = TRUE, !.stop = "running", !.last = hw.shift] /\ hw' = hw
    <3>1. rs' \in RsTypes /\ rs'.on /\ rs'.stopping /\ rs'.stop = "running" /\ rs'.last = hw.shift
      BY <1>2, <2>1, <2>2 DEF RsTypes, HwTypes
    <3>2. Types'
      BY <1>1, <1>2, <2>1, <2>2, <3>1 DEF Types, Inv1
    <3>3. DriverInv'
      BY <1>1, <2>1, <2>2, <3>1 DEF DriverInv, Had, Inv1
    <3> QED
      BY <1>1, <1>5, <1>6, <1>8, <2>1, <2>2, <3>1, <3>2, <3>3
         DEF Inv1, HwInv, WholeBytes, NoGap, OtherKinds
  <2>3. CASE /\ rs.stopping /\ rs.stop = "over" /\ rs' = Released
             /\ hw' = IF hw.shift = None THEN hw ELSE [hw EXCEPT !.shift.ok = FALSE]
    <3>1. rs' \in RsTypes /\ ~rs'.on /\ ~rs'.stopping
      BY <2>3 DEF Released, RsTypes
    <3>2. /\ hw' \in HwTypes /\ hw'.tdr = None /\ hw'.rest = <<>> /\ hw'.doing = hw.doing
          /\ hw'.complete = hw.complete
          /\ hw.shift = None => hw' = hw
      BY <1>2, <2>1, <2>3 DEF HwTypes, OnWire
    <3>3. Types'
      BY <1>1, <1>2, <2>1, <3>1, <3>2 DEF Types, Inv1
    <3>4. DriverInv'
      BY <1>1, <1>8, <2>1, <2>3, <3>1, <3>2 DEF DriverInv, Had, Inv1
    <3>5. HwInv' /\ WholeBytes' /\ NoGap' /\ OtherKinds'
      BY <1>1, <1>2, <1>8, <2>1, <3>2, EmptySeq DEF Inv1, HwInv, WholeBytes, NoGap, OtherKinds
    <3> QED
      BY <1>5, <1>6, <3>1, <3>3, <3>4, <3>5 DEF Inv1
  <2> QED
    BY <1>8, <2>2, <2>3 DEF RsEmpty
<1>9. CASE kind = "rs485" /\ RsSend
  <2>1. ring # <<>>
    BY <1>9 DEF RsSend
  <2>2. CASE ~rs.on /\ rs' = [rs EXCEPT !.on = TRUE, !.start = "running"] /\ UNCHANGED <<ring, hw>>
    <3>1. rs' \in RsTypes /\ rs'.on /\ rs'.stopping = rs.stopping /\ ~rs.stopping
      BY <1>2, <2>2 DEF RsTypes, Inv1
    <3>2. Types'
      BY <1>1, <1>2, <2>2, <3>1 DEF Types, Inv1
    <3>3. DriverInv'
      BY <1>1, <2>2, <3>1 DEF DriverInv, Had, Inv1
    <3> QED
      BY <1>1, <1>5, <1>6, <1>9, <2>2, <3>1, <3>2, <3>3
         DEF Inv1, HwInv, WholeBytes, NoGap, OtherKinds
  <2>3. CASE rs.on /\ rs.start = "over" /\ rs' = rs /\ Hand
    <3>1. Types'
      BY <1>1, <1>2, <1>4, <2>3 DEF Types, Inv1
    <3>2. DriverInv'
      BY <1>1, <1>4, <1>9, <2>1, <2>3 DEF DriverInv, Had, Inv1
    <3> QED
      BY <1>1, <1>4, <1>5, <1>6, <1>9, <2>3, <3>1, <3>2 DEF Inv1, OtherKinds
  <2> QED
    BY <1>9, <2>2, <2>3 DEF RsSend
<1> QED
  BY <1>1, <1>7, <1>8, <1>9 DEF Drain

LEMMA HardwareInv ==
    ASSUME UartsAssumption, Inv1, Shift \/ DmaMove \/ ByteOut \/ DmaIsr
    PROVE  Inv1'
<1>1. UNCHANGED <<kind, ring, accepted, main, logbuf, rs, direct, writes, had>>
  BY DEF Shift, DmaMove, ByteOut, DmaIsr
<1>2. /\ hw \in HwTypes /\ HwInv /\ rs \in RsTypes /\ wire \in Seq(OnWire)
      /\ None \notin Octet /\ None \notin OnWire /\ kind \in {"debug", "rs485", "modem"}
  BY NoneIsNone DEF Inv1, Types, UartsAssumption
<1>3. CASE Shift
  <2> DEFINE s == [byte |-> hw.tdr, ok |-> kind = "rs485" => rs.on]
  <2>1. hw.tdr \in Octet /\ s \in OnWire /\ s # None /\ (s.ok <=> (kind = "rs485" => rs.on))
    <3>1. hw.tdr \in Octet
      BY <1>2, <1>3 DEF Shift, HwTypes, Cell
    <3>2. s \in OnWire
      BY <3>1 DEF OnWire
    <3> QED
      BY <1>2, <3>1, <3>2
  <2> HIDE DEF s
  <2>2. hw' = [hw EXCEPT !.tdr = None, !.shift = s] /\ wire' = wire
    BY <1>3 DEF Shift, s
  <2>3. /\ hw' \in HwTypes /\ hw'.shift = s /\ hw'.tdr = None /\ hw'.rest = hw.rest
        /\ hw'.doing = hw.doing /\ hw'.complete = hw.complete
    BY <1>2, <2>1, <2>2 DEF HwTypes, Cell
  <2>4. Types'
    BY <1>1, <2>2, <2>3 DEF Types, Inv1
  <2>5. MainOfKind'
    BY <1>1, <1>3 DEF MainOfKind, StoreInv, Shift, Pending, Inv1
  <2>6. HwInv' /\ WholeBytes' /\ NoGap'
    BY <1>1, <2>1, <2>3 DEF HwInv, WholeBytes, NoGap, Inv1
  <2>7. DirectInv'
    BY <1>1, <1>3 DEF DirectInv, Shift, Pending, Inv1
  <2>8. DriverInv' /\ OtherKinds'
    BY <1>1, <1>2, <1>3, <2>1, <2>3 DEF DriverInv, OtherKinds, Shift, Had, Inv1
  <2> QED
    BY <1>1, <2>2, <2>4, <2>5, <2>6, <2>7, <2>8 DEF Inv1, Driven, Had
<1>4. CASE DmaMove
  <2>1. hw.rest \in Seq(Cell) /\ hw.rest # <<>> /\ hw.tdr = None /\ wire' = wire
    BY <1>2, <1>4 DEF DmaMove, HwTypes
  <2>2. /\ hw' = [hw EXCEPT !.tdr = hw.rest[1], !.rest = Tail(hw.rest),
                            !.complete = (Len(hw.rest) = 1)]
        /\ hw.rest[1] \in Cell /\ Tail(hw.rest) \in Seq(Cell)
        /\ Len(hw.rest) \in Nat \ {0} /\ Len(Tail(hw.rest)) = Len(hw.rest) - 1
    BY <1>4, <2>1, Rest DEF DmaMove
  <2>3. /\ hw' \in HwTypes /\ hw'.shift = hw.shift /\ hw'.tdr = hw.rest[1]
        /\ hw'.rest = Tail(hw.rest) /\ hw'.doing = hw.doing
        /\ hw'.complete <=> Len(hw.rest) = 1
    BY <1>2, <2>2 DEF HwTypes
  <2>4. Types'
    BY <1>1, <2>1, <2>3 DEF Types, Inv1
  <2>5. MainOfKind' /\ DirectInv'
    <3>1. Pending(hw)
      BY <2>1 DEF Pending
    <3> QED
      BY <1>1, <3>1 DEF MainOfKind, StoreInv, DirectInv, Inv1
  <2>6. HwInv'
    <3>1. Len(Tail(hw.rest)) < Pck
      BY <2>2 DEF Inv1, HwInv, UartsAssumption
    <3>2. Tail(hw.rest) # <<>> => Len(hw.rest) # 1
      <4>1. Tail(hw.rest) # <<>> => Len(Tail(hw.rest)) # 0
        BY <2>2, EmptySeq
      <4> QED
        BY <2>2, <4>1
    <3> QED
      BY <2>1, <2>3, <3>1, <3>2 DEF Inv1, HwInv
  <2>7. kind # "debug" => hw.rest[1] \in Octet /\ Tail(hw.rest) \in Seq(Octet)
    BY <2>1, Rest DEF Inv1, WholeBytes
  <2>8. WholeBytes' /\ NoGap'
    BY <1>1, <1>2, <2>3, <2>7 DEF WholeBytes, NoGap, Inv1
  <2>9. DriverInv' /\ OtherKinds'
    BY <1>1, <1>2, <2>1, <2>3 DEF DriverInv, OtherKinds, Had, Inv1
  <2> QED
    BY <1>1, <2>1, <2>4, <2>5, <2>6, <2>8, <2>9 DEF Inv1, Driven, Had
<1>5. CASE ByteOut
  <2>1. /\ hw.shift # None /\ hw.shift \in OnWire /\ wire' = Append(wire, hw.shift)
        /\ ~(hw.rest # <<>> /\ hw.tdr = None)
        /\ hw' = [hw EXCEPT !.shift = None]
    BY <1>2, <1>5 DEF ByteOut, HwTypes
  <2>2. /\ hw' \in HwTypes /\ hw'.shift = None /\ hw'.tdr = hw.tdr
        /\ hw'.rest = hw.rest /\ hw'.doing = hw.doing /\ hw'.complete = hw.complete
    BY <1>2, <2>1 DEF HwTypes
  <2>3. /\ wire' \in Seq(OnWire) /\ Len(wire') = Len(wire) + 1 /\ Len(wire) \in Nat
        /\ DOMAIN wire = 1..Len(wire) /\ DOMAIN wire' = 1..Len(wire')
        /\ \A i \in 1..Len(wire) : wire'[i] = wire[i]
        /\ wire'[Len(wire) + 1] = hw.shift
    BY <1>2, <2>1, AppendProperties, LenProperties
  <2>4. Types'
    BY <1>1, <2>2, <2>3 DEF Types, Inv1
  <2>5. MainOfKind' /\ DirectInv'
    <3>1. Pending(hw)
      BY <2>1 DEF Pending
    <3> QED
      BY <1>1, <3>1 DEF MainOfKind, StoreInv, DirectInv, Inv1
  <2>6. HwInv' /\ WholeBytes' /\ NoGap'
    BY <1>1, <2>1, <2>2 DEF HwInv, WholeBytes, NoGap, Inv1
  <2>7. DriverInv' /\ OtherKinds'
    BY <1>1, <1>2, <2>1, <2>2 DEF DriverInv, OtherKinds, Had, Inv1
  <2>8. Driven'
    <3> SUFFICES ASSUME ~Had({"refill"}), NEW i \in DOMAIN wire' PROVE wire'[i].ok
      BY <1>1 DEF Driven, Had
    <3>1. hw.shift.ok
      BY <1>2, <2>1 DEF Inv1, DriverInv, OtherKinds
    <3>2. \A l \in 1..Len(wire) : wire[l].ok
      BY <2>3 DEF Inv1, Driven
    <3>3. i \in 1..Len(wire) \/ i = Len(wire) + 1
      BY <2>3
    <3> QED
      BY <2>3, <3>1, <3>2, <3>3
  <2> QED
    BY <1>1, <2>4, <2>5, <2>6, <2>7, <2>8 DEF Inv1
<1>6. CASE DmaIsr
  <2>1. /\ hw.complete /\ wire' = wire
        /\ hw' = [hw EXCEPT !.complete = FALSE, !.doing = FALSE]
    BY <1>6 DEF DmaIsr
  <2>2. /\ hw' \in HwTypes /\ hw'.shift = hw.shift /\ hw'.tdr = hw.tdr
        /\ hw'.rest = hw.rest /\ ~hw'.doing /\ ~hw'.complete /\ hw.rest = <<>>
    BY <1>2, <2>1 DEF HwTypes, HwInv
  <2>3. Types'
    BY <1>1, <2>1, <2>2 DEF Types, Inv1
  <2>4. MainOfKind' /\ DirectInv'
    BY <1>1, <2>2 DEF MainOfKind, StoreInv, DirectInv, Pending, Inv1
  <2>5. HwInv' /\ WholeBytes' /\ NoGap'
    BY <1>1, <2>2 DEF HwInv, WholeBytes, NoGap, Inv1
  <2>6. DriverInv' /\ OtherKinds'
    BY <1>1, <2>2 DEF DriverInv, OtherKinds, Had, Inv1
  <2> QED
    BY <1>1, <2>1, <2>3, <2>4, <2>5, <2>6 DEF Inv1, Driven, Had
<1> QED
  BY <1>3, <1>4, <1>5, <1>6

LEMMA DelayInv ==
    ASSUME UartsAssumption, Inv1, StartDelay \/ StopDelay
    PROVE  Inv1'
<1>1. UNCHANGED <<kind, ring, hw, wire, accepted, main, logbuf, direct, writes, had>>
  BY DEF StartDelay, StopDelay
<1>2. /\ rs' \in RsTypes /\ rs'.on = rs.on /\ rs'.stopping = rs.stopping /\ rs'.last = rs.last
      /\ rs'.stop = rs.stop \/ hw.shift = None \/ hw.shift # rs.last
  BY DEF StartDelay, StopDelay, Inv1, Types, RsTypes
<1>3. Types' /\ MainOfKind' /\ DirectInv'
  BY <1>1, <1>2 DEF Types, MainOfKind, StoreInv, DirectInv, Pending, Inv1
<1>4. DriverInv'
  BY <1>1, <1>2 DEF DriverInv, Had, Inv1
<1> QED
  BY <1>1, <1>2, <1>3, <1>4 DEF Inv1, HwInv, WholeBytes, NoGap, OtherKinds, Driven, Had

\* Main sets out to do something.
LEMMA BeginInv ==
    ASSUME UartsAssumption, Inv1, LogLine \/ LogBlock \/ LogDump \/ LogHelp
    PROVE  /\ Inv1' /\ kind = "debug" /\ main = <<>> /\ ~direct
           /\ UNCHANGED <<kind, ring, hw, wire, accepted, logbuf, rs, direct>>
           /\ Program(main')
<1>1. /\ writes \in Nat /\ kind = "debug" /\ main = <<>> /\ ~direct
      /\ UNCHANGED <<kind, ring, hw, wire, accepted, logbuf, rs, direct>>
      /\ main' \in {Line(writes), Blocking(writes), Dump(writes), Help(writes)}
  BY DEF LogLine, LogBlock, LogDump, LogHelp, Begin, Idle, Inv1, Types
<1>2. Program(main')
  BY <1>1, LineRuns, BlockingRuns, DumpRuns, HelpRuns
<1>3. Running(main') /\ Pairs(main')
  BY <1>2, ProgramsRun
<1>4. main' # <<>> /\ main'[1].op # "store"
  BY <1>2 DEF Program
<1>5. had \subseteq had' /\ had' \subseteq Faults \cup {"full", "raw"}
  BY DEF LogLine, LogBlock, LogDump, LogHelp, With, Inv1, Types
<1>6. writes' \in Nat
  BY <1>1 DEF LogLine, LogBlock, LogDump, LogHelp, Count
<1>7. Types'
  BY <1>1, <1>5, <1>6 DEF Types, Inv1
<1>8. MainOfKind' /\ DirectInv' /\ DriverInv'
  BY <1>1, <1>3, <1>4 DEF MainOfKind, StoreInv, DirectInv, DriverInv
<1>9. Driven'
  BY <1>1, <1>5 DEF Driven, Had, Inv1
<1> QED
  BY <1>1, <1>2, <1>7, <1>8, <1>9 DEF Inv1, HwInv, WholeBytes, NoGap, OtherKinds

LEMMA DirectInvKept ==
    ASSUME UartsAssumption, Inv1, EnterDirect \/ ExitDirect
    PROVE  Inv1'
<1>1. CASE EnterDirect
  <2>1. /\ kind = "modem" /\ ~direct
        /\ UNCHANGED <<kind, ring, hw, wire, accepted, logbuf, rs, direct, writes, had>>
    BY <1>1 DEF EnterDirect, Idle
  <2>2. Types' /\ MainOfKind'
    BY <1>1, <2>1 DEF EnterDirect, Types, MainOfKind, Inv1
  <2> QED
    BY <2>1, <2>2
       DEF Inv1, HwInv, WholeBytes, NoGap, DirectInv, DriverInv, OtherKinds, Driven, Had
<1>2. CASE ExitDirect
  <2>1. /\ direct' = FALSE
        /\ UNCHANGED <<kind, ring, hw, wire, accepted, main, logbuf, rs, writes, had>>
    BY <1>2 DEF ExitDirect
  <2>2. Types' /\ MainOfKind'
    BY <2>1 DEF Types, MainOfKind, StoreInv, Pending, Inv1
  <2> QED
    BY <2>1, <2>2
       DEF Inv1, HwInv, WholeBytes, NoGap, DirectInv, DriverInv, OtherKinds, Driven, Had
<1> QED
  BY <1>1, <1>2

LEMMA BytesOf ==
    ASSUME NEW n \in Nat, NEW j \in 0..3
    PROVE  SubSeq(Bytes(n), 1, j) \in Seq(Octet) /\ Len(SubSeq(Bytes(n), 1, j)) = j
<1>1. <<n, 1>> \in Octet /\ <<n, 2>> \in Octet /\ <<n, 3>> \in Octet
  BY DEF Octet
<1>2. Bytes(n) \in Seq(Octet) /\ Len(Bytes(n)) = 3
  BY <1>1 DEF Bytes
<1>3. ASSUME NEW i \in 1..j
      PROVE  Bytes(n)[i] \in Octet
  <2>1. i \in {1, 2, 3}
    OBVIOUS
  <2> QED
    BY <1>1, <2>1 DEF Bytes
<1> QED
  BY <1>2, <1>3, SubSeqProperties

\* What is written has room in the ring.
LEMMA Fits ==
    ASSUME UartsAssumption, NEW S, Octet \subseteq S, ring \in Seq(S), Len(ring) < Size,
           NEW n \in Nat, NEW k \in 1..3,
           NEW j, j = IF k > Size - 1 - Len(ring) THEN Size - 1 - Len(ring) ELSE k
    PROVE  /\ SubSeq(Bytes(n), 1, j) \in Seq(Octet)
           /\ ring \o SubSeq(Bytes(n), 1, j) \in Seq(S)
           /\ Len(ring \o SubSeq(Bytes(n), 1, j)) < Size
           /\ Len(ring) <= Len(ring \o SubSeq(Bytes(n), 1, j))
<1>1. Len(ring) \in Nat /\ Size \in Nat
  BY LenProperties DEF UartsAssumption
<1>2. j \in 0..3 /\ Len(ring) + j < Size
  BY <1>1
<1> DEFINE d == SubSeq(Bytes(n), 1, j)
<1>3. d \in Seq(Octet) /\ Len(d) = j
  BY <1>2, BytesOf
<1> HIDE DEF d
<1>4. d \in Seq(S)
  BY <1>3, SeqMonotonic
<1>5. ring \o d \in Seq(S) /\ Len(ring \o d) = Len(ring) + Len(d)
  BY <1>4, ConcatProperties
<1>6. Len(ring \o d) < Size /\ Len(ring) <= Len(ring \o d)
  BY <1>1, <1>2, <1>3, <1>5
<1> QED
  BY <1>3, <1>5, <1>6 DEF d

LEMMA WriteInv ==
    ASSUME UartsAssumption, Inv1, NEW k \in 1..3, Write(k)
    PROVE  Inv1'
<1>1. /\ main = <<>> /\ ~direct /\ kind # "debug" /\ writes \in Nat /\ writes' = writes + 1
      /\ UNCHANGED <<kind, hw, wire, main, logbuf, rs, direct>>
  BY DEF Write, Idle, Count, Inv1, Types
<1>2. /\ had \subseteq had' /\ had' \subseteq Faults \cup {"full", "raw"}
      /\ rs.on /\ rs.stopping => "refill" \in had'
  BY DEF Write, With, When, Inv1, Types
<1> DEFINE j == IF k > Size - 1 - Len(ring) THEN Size - 1 - Len(ring) ELSE k
<1>3. /\ ring' = ring \o SubSeq(Bytes(writes), 1, j)
      /\ accepted' = accepted \o SubSeq(Bytes(writes), 1, j)
  BY DEF Write
<1> HIDE DEF j
<1>4. /\ ring' \in Seq(Cell) /\ ring' \in Seq(Octet) /\ Len(ring') < Size
      /\ SubSeq(Bytes(writes), 1, j) \in Seq(Octet)
  <2>1. ring \in Seq(Cell) /\ ring \in Seq(Octet) /\ Len(ring) < Size /\ Octet \subseteq Cell
    BY <1>1 DEF Inv1, Types, WholeBytes, Cell
  <2>2. /\ SubSeq(Bytes(writes), 1, j) \in Seq(Octet)
        /\ ring' \in Seq(Octet) /\ Len(ring') < Size
    BY <1>1, <1>3, <2>1, Fits DEF j
  <2> QED
    BY <2>1, <2>2, SeqMonotonic
<1>5. accepted' \in Seq(Octet)
  BY <1>3, <1>4, ConcatProperties DEF Inv1, Types
<1>6. Types'
  BY <1>1, <1>2, <1>4, <1>5 DEF Types, Inv1
<1>7. MainOfKind' /\ DirectInv'
  BY <1>1 DEF MainOfKind, DirectInv
<1>8. DriverInv' /\ Driven'
  BY <1>1, <1>2 DEF DriverInv, Driven, Had, Inv1
<1> QED
  BY <1>1, <1>4, <1>6, <1>7, <1>8 DEF Inv1, HwInv, WholeBytes, NoGap, OtherKinds

LEMMA SetupInv ==
    ASSUME UartsAssumption, Inv1, Setup
    PROVE  Inv1'
<1>1. /\ kind = "rs485" /\ main = <<>> /\ ~direct
      /\ hw' = [hw EXCEPT !.shift = None, !.tdr = None]
      /\ UNCHANGED <<kind, ring, wire, accepted, main, logbuf, rs, direct, writes>>
      /\ had \subseteq had' /\ had' \subseteq Faults \cup {"full", "raw"}
  BY DEF Setup, Idle, With, Inv1, Types
<1>2. /\ hw' \in HwTypes /\ hw'.shift = None /\ hw'.tdr = None /\ hw'.rest = hw.rest
      /\ hw'.doing = hw.doing /\ hw'.complete = hw.complete
  BY <1>1 DEF HwTypes, Cell, Inv1, Types
<1>3. Types'
  BY <1>1, <1>2 DEF Types, Inv1
<1>4. MainOfKind' /\ DirectInv'
  BY <1>1 DEF MainOfKind, DirectInv
<1>5. DriverInv' /\ OtherKinds'
  BY <1>1, <1>2 DEF DriverInv, OtherKinds, Had, Inv1
<1>6. HwInv' /\ WholeBytes' /\ NoGap'
  BY <1>1, <1>2 DEF HwInv, WholeBytes, NoGap, Inv1
<1> QED
  BY <1>1, <1>3, <1>4, <1>5, <1>6 DEF Inv1, Driven, Had

LEMMA IsrLogInv ==
    ASSUME UartsAssumption, Inv1, IsrLog
    PROVE  Inv1'
<1>1. /\ kind = "debug" /\ ~direct /\ writes \in Nat /\ writes' = writes + 1
      /\ UNCHANGED <<kind, hw, wire, main, rs, direct>>
      /\ logbuf' = << <<writes, 1>>, <<writes, 2>> >>
      /\ had \subseteq had' /\ had' \subseteq Faults \cup {"full", "raw"}
  BY DEF IsrLog, Count, With, Inv1, Types
<1> DEFINE j == IF 3 > Size - 1 - Len(ring) THEN Size - 1 - Len(ring) ELSE 3
<1>2. ring \in Seq(Cell) /\ Len(ring) < Size /\ Len(ring) \in Nat /\ Size \in Nat
  BY LenProperties DEF Inv1, Types, UartsAssumption
<1>3. j = IF Size - 1 - Len(ring) < 3 THEN Size - 1 - Len(ring) ELSE 3
  BY <1>2
<1>4. /\ ring' = ring \o SubSeq(Bytes(writes), 1, j)
      /\ accepted' = accepted \o SubSeq(Bytes(writes), 1, j)
  BY <1>3 DEF IsrLog
<1> HIDE DEF j
<1>5. /\ ring' \in Seq(Cell) /\ Len(ring') < Size /\ Len(ring) <= Len(ring')
      /\ SubSeq(Bytes(writes), 1, j) \in Seq(Octet)
  <2> DEFINE d == SubSeq(Bytes(writes), 1, j)
  <2>1. 3 \in 1..3 /\ Octet \subseteq Cell
    BY DEF Cell
  <2>2. /\ d \in Seq(Octet) /\ ring \o d \in Seq(Cell) /\ Len(ring \o d) < Size
        /\ Len(ring) <= Len(ring \o d)
    BY <1>1, <1>2, <2>1, Fits DEF j
  <2> QED
    BY <1>4, <2>2
<1>6. accepted' \in Seq(Octet)
  BY <1>4, <1>5, ConcatProperties DEF Inv1, Types
<1>7. logbuf' \in [1..2 -> Cell]
  BY <1>1, TwoCells DEF Octet, Cell
<1>8. Types'
  BY <1>1, <1>5, <1>6, <1>7 DEF Types, Inv1
<1>9. StoreInv'
  <2>1. Running(main) /\ StoreInv
    BY <1>1 DEF Inv1, MainOfKind
  <2>2. main # <<>> /\ main[1].op = "store" => main[1].at \in Nat
    <3>1. main # <<>> => main[1] \in AnyStep
      BY <2>1, Rest DEF Running
    <3> QED
      BY <3>1 DEF AnyStep, Steps, TextSteps, FormatSteps, FillSteps, DrainSteps, SendSteps,
                  StoreSteps
  <2>3. Len(ring') \in Nat
    BY <1>5, LenProperties
  <2> QED
    BY <1>1, <1>2, <1>5, <2>1, <2>2, <2>3 DEF StoreInv
<1>10. MainOfKind' /\ DirectInv' /\ DriverInv' /\ Driven'
  BY <1>1, <1>9 DEF MainOfKind, DirectInv, DriverInv, Driven, Had, Inv1
<1> QED
  BY <1>1, <1>8, <1>10 DEF Inv1, HwInv, WholeBytes, NoGap, OtherKinds

LEMMA Inv1Kept ==
    ASSUME UartsAssumption, Inv1, [Next]_vars
    PROVE  Inv1'
<1>1. CASE Next
  <2>1. CASE Shift \/ DmaMove \/ ByteOut \/ DmaIsr
    BY <2>1, HardwareInv
  <2>2. CASE OutDrain
    BY <2>2, OutDrainInv
  <2>3. CASE StartDelay \/ StopDelay
    BY <2>3, DelayInv
  <2>4. CASE LogLine \/ LogBlock \/ LogDump \/ LogHelp
    BY <2>4, BeginInv
  <2>5. CASE MainStep
    <3>1. kind \in {"debug", "rs485", "modem"}
      BY DEF Inv1, Types, UartsAssumption
    <3>2. kind # "rs485"
      BY <2>5 DEF MainStep, Inv1, MainOfKind
    <3> QED
      BY <2>5, <3>1, <3>2, MainStepInv, DirectStepInv
  <2>6. CASE EnterDirect \/ ExitDirect
    BY <2>6, DirectInvKept
  <2>7. CASE \E k \in 1..3 : Write(k)
    BY <2>7, WriteInv
  <2>8. CASE Setup
    BY <2>8, SetupInv
  <2>9. CASE IsrLog
    BY <2>9, IsrLogInv
  <2> QED
    BY <1>1, <2>1, <2>2, <2>3, <2>4, <2>5, <2>6, <2>7, <2>8, <2>9 DEF Next
<1>2. CASE UNCHANGED vars
  <2>1. UNCHANGED <<kind, ring, hw, wire, accepted, main, logbuf, rs, direct, writes, had>>
    BY <1>2 DEF vars
  <2>2. Types' /\ MainOfKind'
    BY <2>1 DEF Types, MainOfKind, StoreInv, Pending, Inv1
  <2>3. DriverInv' /\ DirectInv'
    BY <2>1 DEF DriverInv, DirectInv, Pending, Had, Inv1
  <2> QED
    BY <2>1, <2>2, <2>3 DEF Inv1, HwInv, WholeBytes, NoGap, OtherKinds, Driven, Had
<1> QED
  BY <1>1, <1>2

LEMMA Inv1Always ==
    ASSUME UartsAssumption
    PROVE  Spec => []Inv1
<1>1. Init => Inv1
  BY Start
<1>2. Inv1 /\ [Next]_vars => Inv1'
  BY Inv1Kept
<1> QED
  BY <1>1, <1>2, PTL DEF Spec

LEMMA Inv1Sound ==
    ASSUME UartsAssumption, Inv1
    PROVE  SentWhole
<1>1. TypeOK
  BY DEF TypeOK, Inv1, Types, HwInv, DirectInv
<1>2. TakenWhole
  BY DEF TakenWhole, Inv1, DirectInv
<1> QED
  BY <1>1, <1>2 DEF SentWhole, Inv1

\* Whatever goes wrong, the variables are of their types, every byte of a frame
\* is driven to its end unless a frame came in the delay after another, and
\* comms_direct takes the pins from no byte that is on its way.
THEOREM UartsSendWhole ==
    ASSUME UartsAssumption
    PROVE  Spec => []SentWhole
<1>1. Inv1 => SentWhole
  BY Inv1Sound
<1> QED
  BY <1>1, Inv1Always, PTL
-----------------------------------------------------------------------------
(* What has been sent, is being sent and waits in the ring.                *)

Shifted == [i \in DOMAIN wire |-> wire[i].byte]
           \o (IF hw.shift = None THEN <<>> ELSE <<hw.shift.byte>>)

LEMMA SentIs == Sent = Shifted \o Or(hw.tdr) \o hw.rest
BY DEF Sent, Shifted

LEMMA WireBytes ==
    ASSUME NEW w \in Seq(OnWire)
    PROVE  /\ [i \in DOMAIN w |-> w[i].byte] \in Seq(Octet)
           /\ Len([i \in DOMAIN w |-> w[i].byte]) = Len(w)
           /\ \A i \in 1..Len(w) : [l \in DOMAIN w |-> w[l].byte][i] = w[i].byte
<1>1. DOMAIN w = 1..Len(w) /\ Len(w) \in Nat
  BY LenProperties
<1>2. \A i \in 1..Len(w) : w[i].byte \in Octet
  <2>1. \A i \in 1..Len(w) : w[i] \in OnWire
    BY ElementOfSeq
  <2> QED
    BY <2>1 DEF OnWire
<1> QED
  BY <1>1, <1>2

LEMMA ShiftedType ==
    ASSUME Types
    PROVE  Shifted \in Seq(Octet)
<1>1. [i \in DOMAIN wire |-> wire[i].byte] \in Seq(Octet)
  BY WireBytes DEF Types
<1>2. hw.shift # None => hw.shift.byte \in Octet
  BY DEF Types, HwTypes, OnWire
<1>3. (IF hw.shift = None THEN <<>> ELSE <<hw.shift.byte>>) \in Seq(Octet)
  BY <1>2, EmptySeq
<1> QED
  BY <1>1, <1>3, ConcatProperties DEF Shifted

LEMMA OrIs ==
    ASSUME UartsAssumption
    PROVE  Or(None) = <<>> /\ \A b \in Octet : Or(b) = <<b>> /\ Or(b) \in Seq(Octet)
BY NoneIsNone DEF Or

\* The brackets do not matter.
LEMMA Brackets ==
    \A a, b, z \in Seq(Octet) : (a \o b) \o z = a \o (b \o z)
BY ConcatAssociative

LEMMA HeadAndTail ==
    ASSUME NEW S, NEW d \in Seq(S), d # <<>>
    PROVE  d = <<d[1]>> \o Tail(d) /\ <<d[1]>> \in Seq(S) /\ Tail(d) \in Seq(S)
<1>1. Len(d) \in Nat \ {0} /\ Head(d) = d[1] /\ d[1] \in S /\ Tail(d) \in Seq(S)
  BY Rest
<1>2. d = <<Head(d)>> \o Tail(d)
  OBVIOUS
<1> QED
  BY <1>1, <1>2

\* The first bytes of the ring in TDR and the DMA's buffer.
LEMMA Drained ==
    ASSUME NEW x \in Seq(Octet), NEW d \in Seq(Octet), d # <<>>, NEW q \in Seq(Octet)
    PROVE  x \o <<d[1]>> \o Tail(d) \o q = x \o (d \o q)
<1>1. PICK h \in Seq(Octet), t \in Seq(Octet) : h = <<d[1]>> /\ t = Tail(d) /\ d = h \o t
  BY HeadAndTail
<1>2. (x \o h) \o t = x \o (h \o t)
  BY Brackets, Zenon
<1>3. (x \o d) \o q = x \o (d \o q)
  BY Brackets, Zenon
<1>4. (x \o h) \o t = x \o d
  BY <1>1, <1>2, Zenon
<1>5. ((x \o h) \o t) \o q = x \o (d \o q)
  BY <1>3, <1>4, Zenon
<1> QED
  BY <1>1, <1>5, Zenon

LEMMA ShiftedSame ==
    ASSUME UNCHANGED wire, hw'.shift = hw.shift
    PROVE  Shifted' = Shifted
BY DEF Shifted

LEMMA SentType ==
    ASSUME UartsAssumption, Types, hw.rest \in Seq(Octet), hw.tdr \in Octet \cup {None}
    PROVE  Sent \in Seq(Octet)
<1>1. Shifted \in Seq(Octet) /\ Or(hw.tdr) \in Seq(Octet)
  BY ShiftedType, OrIs, EmptySeq
<1>2. Shifted \o Or(hw.tdr) \in Seq(Octet)
  BY <1>1, ConcatProperties
<1> QED
  BY <1>2, SentIs, ConcatProperties

\* What the drain does to them.
LEMMA HandSent ==
    ASSUME UartsAssumption, Types, HwInv, ring \in Seq(Octet), hw.rest \in Seq(Octet),
           Hand, UNCHANGED wire
    PROVE  /\ ring' \in Seq(Octet) /\ hw'.rest \in Seq(Octet)
           /\ Sent' \o ring' = Sent \o ring
<1>1. CASE ring = <<>> \/ ~TxEmpty
  <2>1. ring' = ring /\ hw' = hw
    BY <1>1, HandWaits
  <2> QED
    BY <2>1 DEF Sent
<1>2. CASE ring # <<>> /\ TxEmpty
  <2>1. PICK d \in Seq(Octet) :
           /\ d # <<>> /\ d[1] \in Octet /\ Tail(d) \in Seq(Octet)
           /\ ring' \in Seq(Octet) /\ d \o ring' = ring
           /\ hw'.shift = hw.shift /\ hw'.tdr = d[1] /\ hw'.rest = Tail(d)
    <3>1. Octet \subseteq Cell /\ hw \in HwTypes
      BY DEF Cell, Types
    <3> QED
      BY <1>2, <3>1, HandMoves
  <2>2. hw.tdr = None /\ hw.rest = <<>>
    BY <1>2 DEF TxEmpty, HwInv
  <2> DEFINE x == Shifted
  <2>3. x \in Seq(Octet) /\ Shifted' = x
    BY <2>1, ShiftedType, ShiftedSame
  <2>4. Sent = x
    <3>1. Sent = x \o <<>> \o <<>>
      BY <2>2, SentIs, OrIs
    <3> QED
      BY <2>3, <3>1, ConcatEmptySeq
  <2>5. Sent' = x \o <<d[1]>> \o Tail(d)
    <3>1. Sent' = Shifted' \o Or(hw'.tdr) \o hw'.rest
      BY DEF Sent, Shifted
    <3>2. Or(hw'.tdr) = <<d[1]>>
      BY <2>1, OrIs
    <3> QED
      BY <2>1, <2>3, <3>1, <3>2
  <2> HIDE DEF x
  <2>6. x \o <<d[1]>> \o Tail(d) \o ring' = x \o (d \o ring')
    BY <2>1, <2>3, Drained
  <2> QED
    BY <2>1, <2>4, <2>5, <2>6
<1> QED
  BY <1>1, <1>2

\* What the hardware does to them.
LEMMA HardwareSent ==
    ASSUME UartsAssumption, Inv1, hw.rest \in Seq(Octet),
           Shift \/ DmaMove \/ ByteOut \/ DmaIsr
    PROVE  hw'.rest \in Seq(Octet) /\ Sent' = Sent
<1>1. /\ Types /\ hw \in HwTypes /\ wire \in Seq(OnWire) /\ None \notin OnWire
      /\ None \notin Octet
  BY NoneIsNone DEF Inv1, Types
<1> DEFINE w == [i \in DOMAIN wire |-> wire[i].byte]
<1>2. w \in Seq(Octet) /\ Shifted \in Seq(Octet)
  BY <1>1, WireBytes, ShiftedType
<1>3. CASE Shift
  <2>1. /\ hw.tdr \in Octet /\ hw.shift = None /\ wire' = wire
        /\ hw' = [hw EXCEPT !.tdr = None, !.shift = [byte |-> hw.tdr,
                                                     ok |-> kind = "rs485" => rs.on]]
    BY <1>1, <1>3 DEF Shift, HwTypes, Cell
  <2> DEFINE s == [byte |-> hw.tdr, ok |-> kind = "rs485" => rs.on]
  <2>2. s \in OnWire /\ s # None /\ s.byte = hw.tdr
    <3>1. s \in OnWire
      BY <2>1 DEF OnWire
    <3> QED
      BY <1>1, <3>1
  <2> HIDE DEF s
  <2>3. hw'.tdr = None /\ hw'.shift = s /\ hw'.rest = hw.rest
    BY <1>1, <2>1 DEF HwTypes, s
  <2>4. Sent = w \o <<>> \o <<hw.tdr>> \o hw.rest
    BY <2>1, SentIs, OrIs DEF Shifted
  <2>5. Sent' = w \o <<hw.tdr>> \o <<>> \o hw.rest
    <3>1. Sent' = Shifted' \o Or(hw'.tdr) \o hw'.rest
      BY DEF Sent, Shifted
    <3>2. Shifted' = w \o <<hw.tdr>>
      BY <2>1, <2>2, <2>3 DEF Shifted
    <3> QED
      BY <2>3, <3>1, <3>2, OrIs
  <2> HIDE DEF w
  <2>6. w \o <<>> = w /\ w \o <<hw.tdr>> \in Seq(Octet)
    BY <1>2, <2>1, ConcatEmptySeq, ConcatProperties
  <2>7. (w \o <<hw.tdr>>) \o <<>> = w \o <<hw.tdr>>
    BY <2>6, ConcatEmptySeq
  <2> QED
    BY <2>3, <2>4, <2>5, <2>6, <2>7
<1>4. CASE DmaMove
  <2>1. /\ hw.rest # <<>> /\ hw.tdr = None /\ wire' = wire
        /\ hw' = [hw EXCEPT !.tdr = hw.rest[1], !.rest = Tail(hw.rest),
                            !.complete = (Len(hw.rest) = 1)]
    BY <1>4, Rest DEF DmaMove
  <2>2. /\ hw.rest = <<hw.rest[1]>> \o Tail(hw.rest) /\ <<hw.rest[1]>> \in Seq(Octet)
        /\ Tail(hw.rest) \in Seq(Octet) /\ hw.rest[1] \in Octet
    BY <2>1, HeadAndTail, Rest
  <2>3. hw'.tdr = hw.rest[1] /\ hw'.shift = hw.shift /\ hw'.rest = Tail(hw.rest)
    BY <1>1, <2>1 DEF HwTypes
  <2>4. Sent = Shifted \o <<>> \o hw.rest /\ Shifted \o <<>> = Shifted
    BY <1>2, <2>1, SentIs, OrIs, ConcatEmptySeq
  <2>5. Sent' = Shifted \o <<hw.rest[1]>> \o Tail(hw.rest)
    <3>1. Sent' = Shifted' \o Or(hw'.tdr) \o hw'.rest
      BY DEF Sent, Shifted
    <3>2. Shifted' = Shifted
      BY <2>1, <2>3, ShiftedSame
    <3> QED
      BY <2>2, <2>3, <3>1, <3>2, OrIs
  <2>6. Shifted \o <<hw.rest[1]>> \o Tail(hw.rest) = Shifted \o (<<hw.rest[1]>> \o Tail(hw.rest))
    <3>1. PICK h \in Seq(Octet) : h = <<hw.rest[1]>>
      BY <2>2
    <3>2. Shifted \in Seq(Octet) /\ Tail(hw.rest) \in Seq(Octet)
      BY <1>2, <2>2
    <3>3. PICK y \in Seq(Octet), t \in Seq(Octet) : y = Shifted /\ t = Tail(hw.rest)
      BY <3>2
    <3>4. (y \o h) \o t = y \o (h \o t)
      BY Brackets
    <3> QED
      BY <3>1, <3>3, <3>4
  <2> QED
    BY <2>2, <2>3, <2>4, <2>5, <2>6
<1>5. CASE ByteOut
  <2>1. /\ hw.shift # None /\ hw.shift \in OnWire /\ wire' = Append(wire, hw.shift)
        /\ hw' = [hw EXCEPT !.shift = None]
    BY <1>1, <1>5 DEF ByteOut, HwTypes
  <2>2. hw'.tdr = hw.tdr /\ hw'.shift = None /\ hw'.rest = hw.rest
    BY <1>1, <2>1 DEF HwTypes
  <2>3. [i \in DOMAIN wire' |-> wire'[i].byte] = w \o <<hw.shift.byte>>
    <3> DEFINE v == [i \in DOMAIN wire' |-> wire'[i].byte]
               u == w \o <<hw.shift.byte>>
    <3>1. /\ wire' \in Seq(OnWire) /\ Len(wire') = Len(wire) + 1 /\ Len(wire) \in Nat
          /\ \A i \in 1..Len(wire) : wire'[i] = wire[i]
          /\ wire'[Len(wire) + 1] = hw.shift
      BY <1>1, <2>1, AppendProperties, LenProperties
    <3>2. v \in Seq(Octet) /\ Len(v) = Len(wire') /\ \A i \in 1..Len(wire') : v[i] = wire'[i].byte
      BY <3>1, WireBytes
    <3>3. Len(w) = Len(wire) /\ \A i \in 1..Len(wire) : w[i] = wire[i].byte
      BY <1>1, WireBytes
    <3>4. hw.shift.byte \in Octet
      BY <2>1 DEF OnWire
    <3> HIDE DEF v, w
    <3>5. u = Append(w, hw.shift.byte)
      BY <1>2, <3>4, AppendIsConcat
    <3> HIDE DEF u
    <3>6. /\ u \in Seq(Octet) /\ Len(u) = Len(w) + 1 /\ u[Len(w) + 1] = hw.shift.byte
          /\ \A i \in 1..Len(w) : u[i] = w[i]
      BY <1>2, <3>4, <3>5, AppendProperties
    <3>7. Len(v) = Len(u) /\ \A i \in 1..Len(v) : v[i] = u[i]
      <4>1. Len(v) = Len(u)
        BY <3>1, <3>2, <3>3, <3>6
      <4>2. \A i \in 1..Len(wire) : v[i] = u[i]
        BY <3>1, <3>2, <3>3, <3>6
      <4>3. v[Len(wire) + 1] = u[Len(wire) + 1]
        BY <3>1, <3>2, <3>3, <3>6
      <4>4. \A i \in 1..Len(v) : i \in 1..Len(wire) \/ i = Len(wire) + 1
        BY <3>1, <3>2
      <4> QED
        BY <4>1, <4>2, <4>3, <4>4
    <3>8. v = u
      BY <3>2, <3>6, <3>7, SeqEqual
    <3> QED
      BY <3>8 DEF v, u
  <2>4. Sent = w \o <<hw.shift.byte>> \o Or(hw.tdr) \o hw.rest
    BY <2>1, SentIs DEF Shifted
  <2>5. Sent' = (w \o <<hw.shift.byte>>) \o <<>> \o Or(hw.tdr) \o hw.rest
    <3>1. Sent' = Shifted' \o Or(hw'.tdr) \o hw'.rest
      BY DEF Sent, Shifted
    <3>2. Shifted' = (w \o <<hw.shift.byte>>) \o <<>>
      BY <2>2, <2>3 DEF Shifted
    <3> QED
      BY <2>2, <3>1, <3>2
  <2>6. (w \o <<hw.shift.byte>>) \o <<>> = w \o <<hw.shift.byte>>
    <3>1. <<hw.shift.byte>> \in Seq(Octet)
      BY <2>1 DEF OnWire
    <3> HIDE DEF w
    <3>2. w \o <<hw.shift.byte>> \in Seq(Octet)
      BY <1>2, <3>1, ConcatProperties
    <3> QED
      BY <3>2, ConcatEmptySeq
  <2> QED
    BY <2>2, <2>4, <2>5, <2>6
<1>6. CASE DmaIsr
  <2>1. hw'.shift = hw.shift /\ hw'.tdr = hw.tdr /\ hw'.rest = hw.rest /\ wire' = wire
    BY <1>1, <1>6 DEF DmaIsr, HwTypes
  <2> QED
    BY <2>1 DEF Sent
<1> QED
  BY <1>3, <1>4, <1>5, <1>6
-----------------------------------------------------------------------------
(* The text is in log_buffer.                                              *)

\* Steps touch and put by what they are.
LEMMA StepKinds ==
    ASSUME NEW s \in AnyStep
    PROVE  /\ Uses(s) => s.byte \in Octet /\ s.byte[2] \in 1..2
           /\ s.op \notin {"format", "fill"} => \A k, b : ~Touches(s, k) /\ ~Puts(s, b)
           /\ s.op = "format" => s.byte \in Octet
           /\ s.op = "fill" => s.byte \in Nat \X (1..2)
<1>1. Uses(s) => s.byte \in Octet /\ s.byte[2] \in 1..2
  BY DEF Uses, AnyStep, Steps, TextSteps, FormatSteps, FillSteps, DrainSteps, SendSteps, StoreSteps
<1>2. s.op \notin {"format", "fill"} => \A k, b : ~Touches(s, k) /\ ~Puts(s, b)
  BY DEF Touches, Puts
<1>3. s.op = "format" => s.byte \in Octet
  BY DEF AnyStep, Steps, TextSteps, FormatSteps, FillSteps, DrainSteps, SendSteps, StoreSteps
<1>4. s.op = "fill" => s.byte \in Nat \X (1..2)
  BY DEF AnyStep, Steps, TextSteps, FormatSteps, FillSteps, DrainSteps, SendSteps, StoreSteps
<1> QED
  BY <1>1, <1>2, <1>3, <1>4

\* A step is done, with what it puts in log_buffer.
LEMMA ReadyTail ==
    ASSUME NEW m \in Seq(AnyStep), m # <<>>, NEW lb, NEW lc, TextReady(m, lb),
           \A k \in 1..2 : ~Touches(m[1], k) => lc[k] = lb[k],
           \A b \in Octet : b[2] \in 1..2 /\ Puts(m[1], b) => lc[b[2]] = b
    PROVE  TextReady(Tail(m), lc)
<1> DEFINE t == Tail(m)
<1>1. /\ t \in Seq(AnyStep) /\ Len(t) = Len(m) - 1 /\ Len(m) \in Nat \ {0}
      /\ \A i \in 1..Len(t) : t[i] = m[i + 1] /\ i + 1 \in 1..Len(m)
  BY Rest
<1> HIDE DEF t
<1> SUFFICES ASSUME NEW i \in 1..Len(t), Uses(t[i]) PROVE InPlace(t, lc, i)
  BY DEF TextReady, t
<1>2. i \in Nat /\ i + 1 \in 1..Len(m) /\ t[i] = m[i + 1] /\ i < Len(m)
  BY <1>1
<1>3. Uses(m[i + 1])
  BY <1>2
<1>4. InPlace(m, lb, i + 1)
  BY <1>2, <1>3 DEF TextReady
<1>5. PICK b \in Octet : b = m[i + 1].byte /\ b = t[i].byte /\ b[2] \in 1..2
  BY <1>2, <1>3, StepKinds, ElementOfSeq
<1>6. \A l \in 1..(i - 1) : t[l] = m[l + 1] /\ l + 1 \in 2..i
  <2> TAKE l \in 1..(i - 1)
  <2>1. l \in 1..Len(t) /\ l + 1 \in 2..i
    BY <1>1, <1>2
  <2> QED
    BY <1>1, <2>1
<1>7. CASE lb[b[2]] = b /\ \A l \in 1..i : ~Touches(m[l], b[2])
  <2>1. ~Touches(m[1], b[2])
    BY <1>2, <1>7
  <2>2. lc[b[2]] = b
    BY <1>5, <1>7, <2>1
  <2>3. \A l \in 1..(i - 1) : ~Touches(t[l], b[2])
    BY <1>2, <1>6, <1>7
  <2> QED
    BY <1>5, <2>2, <2>3 DEF InPlace
<1>8. ASSUME NEW j \in 1..i, Puts(m[j], b), \A l \in (j + 1)..i : ~Touches(m[l], b[2])
      PROVE  InPlace(t, lc, i)
  <2>1. CASE j = 1
    <3>1. lc[b[2]] = b
      BY <1>5, <1>8, <2>1
    <3>2. \A l \in 1..(i - 1) : ~Touches(t[l], b[2])
      BY <1>2, <1>6, <1>8, <2>1
    <3> QED
      BY <1>5, <3>1, <3>2 DEF InPlace
  <2>2. CASE j # 1
    <3>1. j - 1 \in 1..(i - 1) /\ t[j - 1] = m[j]
      BY <1>2, <1>6, <2>2
    <3>2. Puts(t[j - 1], b)
      BY <1>8, <3>1
    <3>3. \A l \in ((j - 1) + 1)..(i - 1) : ~Touches(t[l], b[2])
      <4> SUFFICES ASSUME NEW l \in ((j - 1) + 1)..(i - 1) PROVE ~Touches(t[l], b[2])
        OBVIOUS
      <4>1. l \in 1..(i - 1) /\ l + 1 \in (j + 1)..i
        BY <1>2, <3>1
      <4> QED
        BY <1>6, <1>8, <4>1
    <3> QED
      BY <1>5, <3>1, <3>2, <3>3 DEF InPlace
  <2> QED
    BY <2>1, <2>2
<1>9. (i + 1) - 1 = i
  BY <1>2
<1> QED
  BY <1>4, <1>5, <1>7, <1>8, <1>9 DEF InPlace

\* The step at the head is half done, it uses the same byte.
LEMMA ReadyHalfDone ==
    ASSUME NEW m \in Seq(AnyStep), m # <<>>, NEW lb, TextReady(m, lb),
           Tail(m) \in Seq(Steps), NEW s \in AnyStep, s.byte = m[1].byte,
           m[1].op \in {"load", "wait"}, s.op \in {"store", "send"}
    PROVE  TextReady(<<s>> \o Tail(m), lb)
<1> DEFINE t == Tail(m)
           x == <<s>> \o t
<1>1. /\ Len(t) = Len(m) - 1 /\ Len(m) \in Nat \ {0}
      /\ \A i \in 1..(Len(m) - 1) : t[i] = m[i + 1]
  BY Rest
<1>2. Len(x) = Len(t) + 1 /\ x[1] = s /\ \A i \in 2..(Len(t) + 1) : x[i] = t[i - 1]
  BY HalfDone
<1> HIDE DEF t, x
<1>3. Len(x) = Len(m) /\ \A i \in 2..Len(m) : x[i] = m[i]
  <2>1. \A i \in 2..Len(m) : i - 1 \in 1..(Len(m) - 1) /\ (i - 1) + 1 = i
    BY <1>1
  <2>2. \A i \in 2..Len(m) : x[i] = t[i - 1] /\ t[i - 1] = m[(i - 1) + 1]
    BY <1>1, <1>2, <2>1
  <2> QED
    BY <1>1, <1>2, <2>1, <2>2
<1>4. m[1] \in AnyStep
  BY <1>1, ElementOfSeq
<1>5. \A k, b : ~Touches(m[1], k) /\ ~Puts(m[1], b) /\ ~Touches(x[1], k) /\ ~Puts(x[1], b)
  BY <1>2 DEF Touches, Puts
<1>6. Uses(x[1]) => Uses(m[1])
  BY <1>2 DEF Uses
<1>7. \A i \in 1..Len(m) : /\ Uses(x[i]) => Uses(m[i])
                           /\ x[i].byte = m[i].byte
                           /\ \A k : Touches(x[i], k) <=> Touches(m[i], k)
                           /\ \A b : Puts(x[i], b) <=> Puts(m[i], b)
  <2> SUFFICES ASSUME NEW i \in 1..Len(m)
               PROVE  /\ Uses(x[i]) => Uses(m[i])
                      /\ x[i].byte = m[i].byte
                      /\ \A k : Touches(x[i], k) <=> Touches(m[i], k)
                      /\ \A b : Puts(x[i], b) <=> Puts(m[i], b)
    OBVIOUS
  <2>1. CASE i = 1
    BY <1>2, <1>5, <1>6, <2>1
  <2>2. CASE i # 1
    <3>1. x[i] = m[i]
      BY <1>3, <2>2
    <3> QED
      BY <3>1
  <2> QED
    BY <2>1, <2>2
<1>8. ASSUME NEW i \in 1..Len(x), Uses(x[i]) PROVE InPlace(x, lb, i)
  <2>1. i \in 1..Len(m) /\ Uses(m[i]) /\ InPlace(m, lb, i)
    BY <1>3, <1>7, <1>8 DEF TextReady
  <2>2. PICK b : b = m[i].byte /\ b = x[i].byte
    BY <1>7, <2>1
  <2>3. \A l \in 1..(i - 1) : l \in 1..Len(m)
    BY <1>1, <2>1
  <2>4. CASE lb[b[2]] = b /\ \A l \in 1..(i - 1) : ~Touches(m[l], b[2])
    BY <1>7, <2>2, <2>3, <2>4 DEF InPlace
  <2>5. ASSUME NEW j \in 1..(i - 1), Puts(m[j], b),
               \A l \in (j + 1)..(i - 1) : ~Touches(m[l], b[2])
        PROVE  InPlace(x, lb, i)
    <3>1. Puts(x[j], b)
      BY <1>7, <2>3, <2>5
    <3>2. \A l \in (j + 1)..(i - 1) : l \in 1..(i - 1)
      BY <2>1, <2>5
    <3>3. \A l \in (j + 1)..(i - 1) : ~Touches(x[l], b[2])
      BY <1>7, <2>3, <2>5, <3>2
    <3> QED
      BY <2>2, <3>1, <3>3 DEF InPlace
  <2> QED
    BY <2>1, <2>2, <2>4, <2>5 DEF InPlace
<1> QED
  BY <1>8 DEF TextReady, x, t

\* What main sets out to do has its texts formatted first.
Ready(p) ==
    /\ \A lb : TextReady(p, lb)
    /\ p[1].op \notin {"send", "store"}

LEMMA LineReady ==
    ASSUME NEW n \in Nat
    PROVE  Ready(Line(n)) /\ \A i \in 1..Len(Line(n)) : Line(n)[i].op \in {"format", "load"}
<1> DEFINE p == Line(n)
<1>1. /\ Len(p) = 4 /\ p[1].op = "format" /\ p[1].byte = <<n, 0>>
      /\ p[2].op = "load" /\ p[2].byte = <<n, 1>>
      /\ p[3].op = "load" /\ p[3].byte = <<n, 2>>
      /\ p[4].op = "load" /\ p[4].byte = <<n, 3>>
  BY DEF Line, Step
<1> HIDE DEF p
<1>2. Puts(p[1], <<n, 1>>) /\ Puts(p[1], <<n, 2>>) /\ ~Uses(p[1]) /\ ~Uses(p[4])
  BY <1>1 DEF Puts, Uses
<1>3. ~Touches(p[2], 2)
  BY <1>1 DEF Touches
<1>4. \A lb : InPlace(p, lb, 2)
  BY <1>1, <1>2 DEF InPlace
<1>5. \A lb : InPlace(p, lb, 3)
  BY <1>1, <1>2, <1>3 DEF InPlace
<1>6. \A i \in 1..4 : i = 1 \/ i = 2 \/ i = 3 \/ i = 4
  OBVIOUS
<1>7. \A lb : TextReady(p, lb)
  BY <1>1, <1>2, <1>4, <1>5, <1>6 DEF TextReady
<1>8. \A i \in 1..Len(p) : p[i].op \in {"format", "load"}
  BY <1>1, <1>6
<1> QED
  BY <1>1, <1>7, <1>8 DEF Ready, p

LEMMA BlockingReady ==
    ASSUME NEW n \in Nat
    PROVE  Ready(Blocking(n)) /\ \A i \in 1..Len(Blocking(n)) : Blocking(n)[i].op \in {"format", "wait"}
<1> DEFINE p == Blocking(n)
<1>1. /\ Len(p) = 4 /\ p[1].op = "format" /\ p[1].byte = <<n, 0>>
      /\ p[2].op = "wait" /\ p[2].byte = <<n, 1>>
      /\ p[3].op = "wait" /\ p[3].byte = <<n, 2>>
      /\ p[4].op = "wait" /\ p[4].byte = <<n, 3>>
  BY DEF Blocking, Step
<1> HIDE DEF p
<1>2. Puts(p[1], <<n, 1>>) /\ Puts(p[1], <<n, 2>>) /\ ~Uses(p[1]) /\ ~Uses(p[4])
  BY <1>1 DEF Puts, Uses
<1>3. ~Touches(p[2], 2)
  BY <1>1 DEF Touches
<1>4. \A lb : InPlace(p, lb, 2)
  BY <1>1, <1>2 DEF InPlace
<1>5. \A lb : InPlace(p, lb, 3)
  BY <1>1, <1>2, <1>3 DEF InPlace
<1>6. \A i \in 1..4 : i = 1 \/ i = 2 \/ i = 3 \/ i = 4
  OBVIOUS
<1>7. \A lb : TextReady(p, lb)
  BY <1>1, <1>2, <1>4, <1>5, <1>6 DEF TextReady
<1>8. \A i \in 1..Len(p) : p[i].op \in {"format", "wait"}
  BY <1>1, <1>6
<1> QED
  BY <1>1, <1>7, <1>8 DEF Ready, p

LEMMA DumpReady ==
    ASSUME NEW n \in Nat
    PROVE  Ready(Dump(n)) /\ \A i \in 1..Len(Dump(n)) : Dump(n)[i].op \in {"fill", "drain", "load"}
<1> DEFINE p == Dump(n)
<1>1. /\ Len(p) = 6 /\ p[1].op = "fill" /\ p[1].byte = <<n, 1>>
      /\ p[2].op = "drain" /\ p[3].op = "fill" /\ p[3].byte = <<n, 2>>
      /\ p[4].op = "load" /\ p[4].byte = <<n, 1>>
      /\ p[5].op = "load" /\ p[5].byte = <<n, 2>>
      /\ p[6].op = "load" /\ p[6].byte = <<n, 3>>
  BY DEF Dump, Step
<1> HIDE DEF p
<1>2. Puts(p[1], <<n, 1>>) /\ Puts(p[3], <<n, 2>>)
  BY <1>1 DEF Puts
<1>3. ~Uses(p[1]) /\ ~Uses(p[2]) /\ ~Uses(p[3]) /\ ~Uses(p[6])
  BY <1>1 DEF Uses
<1>4. ~Touches(p[2], 1) /\ ~Touches(p[3], 1) /\ ~Touches(p[4], 2)
  BY <1>1 DEF Touches
<1>5. \A lb : InPlace(p, lb, 4)
  <2>1. \A l \in 2..3 : ~Touches(p[l], 1)
    BY <1>4
  <2> QED
    BY <1>1, <1>2, <2>1 DEF InPlace
<1>6. \A lb : InPlace(p, lb, 5)
  BY <1>1, <1>2, <1>4 DEF InPlace
<1>7. \A i \in 1..6 : i = 1 \/ i = 2 \/ i = 3 \/ i = 4 \/ i = 5 \/ i = 6
  OBVIOUS
<1>8. \A lb : TextReady(p, lb)
  BY <1>1, <1>3, <1>5, <1>6, <1>7 DEF TextReady
<1>9. \A i \in 1..Len(p) : p[i].op \in {"fill", "drain", "load"}
  BY <1>1, <1>7
<1> QED
  BY <1>1, <1>8, <1>9 DEF Ready, p

LEMMA HelpReady ==
    ASSUME NEW n \in Nat
    PROVE  Ready(Help(n)) /\ \A i \in 1..Len(Help(n)) : Help(n)[i].op \in {"format", "load", "drain all"}
<1>1. PICK m \in Nat : m = n + 1
  OBVIOUS
<1> DEFINE p == Help(n)
<1>2. Len(p) = 10
  BY DEF Help, Step
<1>3. p[1].op = "format" /\ p[1].byte = <<n, 0>> /\ p[6].op = "format" /\ p[6].byte = <<m, 0>>
  BY <1>1 DEF Help, Step
<1>4. /\ p[2].op = "load" /\ p[2].byte = <<n, 1>> /\ p[3].op = "load" /\ p[3].byte = <<n, 2>>
  BY DEF Help, Step
<1>5. /\ p[7].op = "load" /\ p[7].byte = <<m, 1>> /\ p[8].op = "load" /\ p[8].byte = <<m, 2>>
  BY <1>1 DEF Help, Step
<1>6. /\ p[4].op = "load" /\ p[4].byte = <<n, 3>>
      /\ p[9].op = "load" /\ p[9].byte = <<m, 3>>
  BY <1>1 DEF Help, Step
<1>7. p[5].op = "drain all" /\ p[10].op = "drain all"
  BY <1>1 DEF Help, Step
<1> HIDE DEF p
<1>8. Puts(p[1], <<n, 1>>) /\ Puts(p[1], <<n, 2>>)
  BY <1>3 DEF Puts
<1>9. Puts(p[6], <<m, 1>>) /\ Puts(p[6], <<m, 2>>)
  BY <1>3 DEF Puts
<1>10. ~Touches(p[2], 2) /\ ~Touches(p[7], 2)
  BY <1>4, <1>5 DEF Touches
<1>11. \A lb : InPlace(p, lb, 2)
  BY <1>4, <1>8 DEF InPlace
<1>12. \A lb : InPlace(p, lb, 3)
  BY <1>4, <1>8, <1>10 DEF InPlace
<1>13. \A lb : InPlace(p, lb, 7)
  BY <1>5, <1>9 DEF InPlace
<1>14. \A lb : InPlace(p, lb, 8)
  BY <1>5, <1>9, <1>10 DEF InPlace
<1>15. \A i \in 1..10 : i = 1 \/ i = 2 \/ i = 3 \/ i = 4 \/ i = 5 \/ i = 6 \/ i = 7 \/ i = 8
                        \/ i = 9 \/ i = 10
  OBVIOUS
<1>16. ~Uses(p[1]) /\ ~Uses(p[6]) /\ ~Uses(p[5]) /\ ~Uses(p[10])
  BY <1>3, <1>7 DEF Uses
<1>17. ~Uses(p[4]) /\ ~Uses(p[9])
  BY <1>6 DEF Uses
<1>18. \A lb : TextReady(p, lb)
  BY <1>2, <1>11, <1>12, <1>13, <1>14, <1>15, <1>16, <1>17 DEF TextReady
<1>19. \A i \in 1..Len(p) : p[i].op \in {"format", "load", "drain all"}
  <2>1. \A i \in {1, 6} : p[i].op = "format"
    BY <1>3
  <2>2. \A i \in {2, 3, 4, 7, 8, 9} : p[i].op = "load"
    BY <1>4, <1>5, <1>6
  <2> QED
    BY <1>2, <1>7, <1>15, <2>1, <2>2
<1> QED
  BY <1>3, <1>18, <1>19 DEF Ready, p
-----------------------------------------------------------------------------
(* The order is kept.                                                      *)

Ordered ==
    /\ ring \in Seq(Octet) /\ hw.rest \in Seq(Octet)
    /\ kind = "debug" => TextReady(main, logbuf) /\ SendInv
    /\ Sent \o ring = accepted

\* Nothing of what main does is left out.
LEMMA OrderOfMain ==
    ASSUME UartsAssumption, Inv1, Ordered, kind = "debug", MainStep, Calm'
    PROVE  Ordered'
<1>1. /\ main # <<>> /\ Running(main) /\ TextReady(main, logbuf) /\ SendInv
      /\ UNCHANGED <<kind, wire, rs, writes>>
      /\ ring \in Seq(Octet) /\ hw.rest \in Seq(Octet) /\ Sent \o ring = accepted
      /\ Types /\ HwInv /\ hw \in HwTypes /\ accepted \in Seq(Octet)
  BY DEF MainStep, Inv1, MainOfKind, Ordered, Types
<1>2. /\ main \in Seq(AnyStep) /\ Head(main) = main[1] /\ main[1] \in AnyStep
      /\ Len(main) \in Nat \ {0} /\ Len(Tail(main)) = Len(main) - 1
      /\ \A i \in 1..(Len(main) - 1) : Tail(main)[i] = main[i + 1]
  BY <1>1, Rest DEF Running
<1>3. Tail(main) \in Seq(Steps)
  BY <1>1, RunTail
<1>4. \A i \in 1..Len(Tail(main)) : /\ Tail(main)[i] = main[i + 1] /\ i + 1 \in 1..Len(main)
                                    /\ Tail(main)[i].op \notin {"send", "store"}
  <2>1. \A i \in 1..Len(Tail(main)) : Tail(main)[i] \in Steps
    BY <1>3, ElementOfSeq
  <2>2. \A st \in Steps : st.op \notin {"send", "store"}
    BY DEF Steps, TextSteps, FormatSteps, FillSteps, DrainSteps
  <2> QED
    BY <1>2, <2>1, <2>2
<1>5. ASSUME main' = Tail(main), ring = <<>> => ring' = <<>> \/ main[1].op = "store",
             ring = <<>> /\ hw.rest = <<>> => hw'.rest = <<>>
      PROVE  SendInv'
  <2>1. main' # <<>> => 1 \in 1..Len(Tail(main))
    BY <1>3, <1>5, Rest
  <2>2. main' # <<>> => main'[1].op \notin {"send", "store"}
    BY <1>4, <1>5, <2>1
  <2>3. ASSUME NEW i \in 1..Len(main'), main'[i].op \in {"wait", "send"}
        PROVE  /\ ring' = <<>> /\ hw'.rest = <<>>
               /\ \A l \in 1..Len(main') : main'[l].op \notin {"load", "store"}
    <3>1. i + 1 \in 1..Len(main) /\ main[i + 1].op \in {"wait", "send"}
      BY <1>4, <1>5, <2>3
    <3>2. /\ ring = <<>> /\ hw.rest = <<>>
          /\ \A l \in 1..Len(main) : main[l].op \notin {"load", "store"}
      BY <1>1, <3>1 DEF SendInv
    <3>3. main[1].op # "store"
      BY <1>2, <3>2
    <3>4. \A l \in 1..Len(main') : main'[l].op \notin {"load", "store"}
      BY <1>4, <1>5, <3>2
    <3> QED
      BY <1>5, <3>2, <3>3, <3>4
  <2> QED
    BY <2>2, <2>3 DEF SendInv
<1>6. ASSUME main' = Tail(main), logbuf' = logbuf, main[1].op \notin {"format", "fill"}
      PROVE  TextReady(main', logbuf')
  <2>1. \A k, b : ~Touches(main[1], k) /\ ~Puts(main[1], b)
    BY <1>6 DEF Touches, Puts
  <2> QED
    BY <1>1, <1>2, <1>6, <2>1, ReadyTail
<1>7. CASE Format
  <2>1. /\ main' = Tail(main) /\ UNCHANGED <<ring, hw, accepted, had>>
        /\ main[1].op = "format"
        /\ logbuf' = << <<main[1].byte[1], 1>>, <<main[1].byte[1], 2>> >>
    BY <1>2, <1>7 DEF Format
  <2>2. \A l \in 1..2 : Touches(main[1], l)
    BY <2>1 DEF Touches
  <2>3. ASSUME NEW b \in Octet, b[2] \in 1..2, Puts(main[1], b) PROVE logbuf'[b[2]] = b
    <3>1. main[1].byte[1] = b[1]
      BY <2>1, <2>3 DEF Puts
    <3>2. b = <<b[1], b[2]>>
      BY DEF Octet
    <3>3. b[2] = 1 \/ b[2] = 2
      BY <2>3
    <3>4. logbuf'[1] = <<b[1], 1>> /\ logbuf'[2] = <<b[1], 2>>
      BY <2>1, <3>1
    <3> QED
      BY <3>2, <3>3, <3>4
  <2>4. TextReady(main', logbuf')
    BY <1>1, <1>2, <2>1, <2>2, <2>3, ReadyTail
  <2>5. SendInv'
    BY <1>5, <2>1
  <2> QED
    BY <1>1, <2>1, <2>4, <2>5 DEF Ordered, Sent
<1>8. CASE Fill
  <2>1. /\ main' = Tail(main) /\ UNCHANGED <<ring, hw, accepted, had>>
        /\ main[1].op = "fill" /\ logbuf' = [logbuf EXCEPT ![main[1].byte[2]] = main[1].byte]
        /\ logbuf \in [1..2 -> Cell]
    BY <1>1, <1>2, <1>8 DEF Fill, Types
  <2>2. \A l \in 1..2 : ~Touches(main[1], l) => logbuf'[l] = logbuf[l]
    BY <2>1 DEF Touches
  <2>3. \A b \in Octet : b[2] \in 1..2 /\ Puts(main[1], b) => logbuf'[b[2]] = b
    BY <2>1 DEF Puts
  <2>4. TextReady(main', logbuf')
    <3>1. TextReady(Tail(main), logbuf')
      BY <1>1, <1>2, <2>2, <2>3, ReadyTail
    <3> QED
      BY <2>1, <3>1
  <2>5. SendInv'
    BY <1>5, <2>1
  <2> QED
    BY <1>1, <2>1, <2>4, <2>5 DEF Ordered, Sent
<1>9. CASE Nested
  <2>1. /\ main' = Tail(main) /\ logbuf' = logbuf /\ accepted' = accepted /\ Hand
        /\ main[1].op = "drain"
    <3>1. "dump" \notin had'
      BY DEF Calm, Shared
    <3> QED
      BY <1>2, <1>9, <3>1 DEF Nested, With
  <2>2. ring = <<>> => ring' = <<>> /\ hw' = hw
    BY <2>1, HandWaits
  <2>3. ring' \in Seq(Octet) /\ hw'.rest \in Seq(Octet) /\ Sent' \o ring' = Sent \o ring
    BY <1>1, <2>1, HandSent
  <2>4. TextReady(main', logbuf') /\ SendInv'
    BY <1>5, <1>6, <2>1, <2>2
  <2> QED
    BY <1>1, <2>1, <2>3, <2>4 DEF Ordered
<1>10. CASE Load
  <2> DEFINE st == [op |-> "store", byte |-> Head(main).byte, at |-> Len(ring)]
  <2>1. /\ main' = <<st>> \o Tail(main) /\ UNCHANGED <<ring, hw, accepted, logbuf, had>>
        /\ main[1].op = "load"
    BY <1>2, <1>10 DEF Load
  <2>2. st \in AnyStep /\ st.op = "store" /\ st.byte = main[1].byte /\ st.at = Len(ring)
    <3>1. main[1].byte \in Octet /\ Len(ring) \in Nat
      BY <1>1, <1>2, <2>1, LenProperties
         DEF AnyStep, Steps, TextSteps, FormatSteps, FillSteps, DrainSteps, SendSteps, StoreSteps
    <3> QED
      BY <1>2, <3>1 DEF AnyStep, StoreSteps
  <2> HIDE DEF st
  <2>3. TextReady(main', logbuf')
    BY <1>1, <1>2, <1>3, <2>1, <2>2, ReadyHalfDone
  <2>4. /\ main'[1] = st /\ Len(main') = Len(Tail(main)) + 1 /\ Len(Tail(main)) \in Nat
        /\ \A i \in 2..(Len(Tail(main)) + 1) : main'[i] = Tail(main)[i - 1]
    BY <1>3, <2>1, <2>2, HalfDone
  <2>5. \A i \in 1..Len(main) : main[i].op \notin {"wait", "send"}
    BY <1>1, <1>2, <2>1 DEF SendInv
  <2>6. \A i \in 1..Len(main') : main'[i].op \notin {"wait", "send"}
    <3> SUFFICES ASSUME NEW i \in 1..Len(main') PROVE main'[i].op \notin {"wait", "send"}
      OBVIOUS
    <3>1. CASE i = 1
      BY <2>2, <2>4, <3>1
    <3>2. CASE i # 1
      <4>1. i - 1 \in 1..Len(Tail(main)) /\ main'[i] = Tail(main)[i - 1]
        BY <2>4, <3>2
      <4>2. Tail(main)[i - 1] = main[(i - 1) + 1] /\ (i - 1) + 1 \in 1..Len(main)
        BY <1>4, <4>1
      <4> QED
        BY <2>5, <4>1, <4>2
    <3> QED
      BY <3>1, <3>2
  <2>7. SendInv'
    BY <2>1, <2>2, <2>4, <2>6 DEF SendInv
  <2> QED
    BY <1>1, <2>1, <2>3, <2>7 DEF Ordered, Sent
<1>11. CASE LoadFull
  <2>1. /\ main' = Tail(main) /\ UNCHANGED <<ring, hw, accepted, logbuf>> /\ main[1].op = "load"
    <3>1. "raw" \notin had'
      BY DEF Calm, Shared
    <3> QED
      BY <1>2, <1>11, <3>1 DEF LoadFull, Note
  <2>2. TextReady(main', logbuf') /\ SendInv'
    BY <1>5, <1>6, <2>1
  <2> QED
    BY <1>1, <2>1, <2>2 DEF Ordered, Sent
<1>12. CASE Store
  <2> DEFINE b == main[1].byte
  <2>1. /\ main' = Tail(main) /\ UNCHANGED <<hw, logbuf, had>> /\ main[1].op = "store"
        /\ ring' = Append(SubSeq(ring, 1, main[1].at), Text(b))
        /\ accepted' = Append(accepted, b)
    BY <1>2, <1>12 DEF Store
  <2>2. b \in Octet /\ main[1].at = Len(ring)
    <3>1. b \in Octet
      BY <1>2, <2>1 DEF AnyStep, Steps, TextSteps, FormatSteps, FillSteps, DrainSteps,
                        SendSteps, StoreSteps
    <3> QED
      BY <1>1, <2>1, <3>1 DEF SendInv
  <2>3. Text(b) = b
    <3>1. CASE b[2] \in 1..2
      <4>1. Uses(main[1])
        BY <2>1, <3>1 DEF Uses
      <4>2. InPlace(main, logbuf, 1)
        BY <1>1, <1>2, <4>1 DEF TextReady
      <4>3. logbuf[b[2]] = b
        BY <4>2 DEF InPlace
      <4> QED
        BY <3>1, <4>3 DEF Text
    <3> QED
      BY <3>1 DEF Text
  <2> HIDE DEF b
  <2>4. ring' = Append(ring, b)
    BY <1>1, <2>1, <2>2, <2>3, SubSeqFull
  <2>5. ring' \in Seq(Octet)
    BY <1>1, <2>2, <2>4, AppendProperties
  <2>6. Sent' \o ring' = accepted'
    <3>1. Sent' = Sent
      BY <1>1, <2>1 DEF Sent
    <3>2. ring' = ring \o <<b>> /\ accepted' = accepted \o <<b>> /\ <<b>> \in Seq(Octet)
      BY <1>1, <2>1, <2>2, <2>4, AppendIsConcat
    <3>3. Sent \in Seq(Octet)
      BY <1>1, SentType DEF HwTypes, Cell
    <3>4. PICK h \in Seq(Octet), u \in Seq(Octet), q \in Seq(Octet) : h = <<b>> /\ u = Sent /\ q = ring
      BY <1>1, <3>2, <3>3
    <3>5. (u \o q) \o h = u \o (q \o h)
      BY Brackets, Zenon
    <3> QED
      BY <1>1, <3>1, <3>2, <3>4, <3>5
  <2>7. TextReady(main', logbuf') /\ SendInv'
    BY <1>5, <1>6, <2>1
  <2> QED
    BY <1>1, <2>1, <2>5, <2>6, <2>7 DEF Ordered
<1>13. CASE Wait
  <2> DEFINE st == [Head(main) EXCEPT !.op = "send"]
  <2>1. /\ main' = <<st>> \o Tail(main) /\ UNCHANGED <<ring, hw, accepted, logbuf, had>>
        /\ main[1].op = "wait" /\ hw.tdr = None
    BY <1>2, <1>13 DEF Wait
  <2>2. st \in AnyStep /\ st.op = "send" /\ st.byte = main[1].byte
    <3>1. main[1] \in TextSteps
      BY <1>2, <2>1 DEF AnyStep, Steps, TextSteps, FormatSteps, FillSteps, DrainSteps,
                        SendSteps, StoreSteps
    <3> QED
      BY <1>2, <3>1 DEF AnyStep, SendSteps, TextSteps
  <2> HIDE DEF st
  <2>3. TextReady(main', logbuf')
    BY <1>1, <1>2, <1>3, <2>1, <2>2, ReadyHalfDone
  <2>4. /\ main'[1] = st /\ Len(main') = Len(Tail(main)) + 1 /\ Len(Tail(main)) \in Nat
        /\ \A i \in 2..(Len(Tail(main)) + 1) : main'[i] = Tail(main)[i - 1]
    BY <1>3, <2>1, <2>2, HalfDone
  <2>5. /\ ring = <<>> /\ hw.rest = <<>>
        /\ \A i \in 1..Len(main) : main[i].op \notin {"load", "store"}
    <3>1. 1 \in 1..Len(main) /\ main[1].op \in {"wait", "send"}
      BY <1>2, <2>1
    <3> QED
      BY <1>1, <3>1 DEF SendInv
  <2>6. \A i \in 1..Len(main') : main'[i].op \notin {"load", "store"}
    <3> SUFFICES ASSUME NEW i \in 1..Len(main') PROVE main'[i].op \notin {"load", "store"}
      OBVIOUS
    <3>1. CASE i = 1
      BY <2>2, <2>4, <3>1
    <3>2. CASE i # 1
      <4>1. i - 1 \in 1..Len(Tail(main)) /\ main'[i] = Tail(main)[i - 1]
        BY <2>4, <3>2
      <4>2. Tail(main)[i - 1] = main[(i - 1) + 1] /\ (i - 1) + 1 \in 1..Len(main)
        BY <1>4, <4>1
      <4> QED
        BY <2>5, <4>1, <4>2
    <3> QED
      BY <3>1, <3>2
  <2>7. SendInv'
    BY <2>1, <2>2, <2>4, <2>5, <2>6 DEF SendInv
  <2> QED
    BY <1>1, <2>1, <2>3, <2>7 DEF Ordered, Sent
<1>14. CASE Send
  <2> DEFINE b == main[1].byte
  <2>1. /\ main' = Tail(main) /\ UNCHANGED <<ring, logbuf, had>> /\ main[1].op = "send"
        /\ hw' = [hw EXCEPT !.tdr = Text(b)] /\ accepted' = Append(accepted, b)
    BY <1>2, <1>14 DEF Send
  <2>2. b \in Octet
    BY <1>2, <2>1 DEF AnyStep, Steps, TextSteps, FormatSteps, FillSteps, DrainSteps,
                      SendSteps, StoreSteps
  <2>3. ring = <<>> /\ hw.rest = <<>> /\ hw.tdr = None
    <3>1. 1 \in 1..Len(main) /\ main[1].op \in {"wait", "send"}
      BY <1>2, <2>1
    <3> QED
      BY <1>1, <2>1, <3>1 DEF SendInv
  <2>4. Text(b) = b
    <3>1. CASE b[2] \in 1..2
      <4>1. Uses(main[1])
        BY <2>1, <3>1 DEF Uses
      <4>2. InPlace(main, logbuf, 1)
        BY <1>1, <1>2, <4>1 DEF TextReady
      <4>3. logbuf[b[2]] = b
        BY <4>2 DEF InPlace
      <4> QED
        BY <3>1, <4>3 DEF Text
    <3> QED
      BY <3>1 DEF Text
  <2> HIDE DEF b
  <2>5. hw'.tdr = b /\ hw'.shift = hw.shift /\ hw'.rest = <<>>
    BY <1>1, <2>1, <2>3, <2>4 DEF HwTypes
  <2>6. Shifted \in Seq(Octet) /\ Shifted' = Shifted
    BY <1>1, <2>5, ShiftedType, ShiftedSame
  <2>7. Sent \o ring = Shifted
    <3>1. Sent = Shifted \o <<>> \o <<>>
      BY <2>3, SentIs, OrIs
    <3> QED
      BY <2>3, <2>6, <3>1, ConcatEmptySeq
  <2>8. Sent' \o ring' = Shifted \o <<b>>
    <3>1. Sent' = Shifted' \o Or(hw'.tdr) \o hw'.rest
      BY DEF Sent, Shifted
    <3>2. Sent' = Shifted \o <<b>> \o <<>>
      BY <2>2, <2>5, <2>6, <3>1, OrIs
    <3>3. Shifted \o <<b>> \in Seq(Octet)
      BY <2>2, <2>6, ConcatProperties
    <3>4. ring' = <<>>
      BY <2>1, <2>3
    <3> QED
      BY <3>2, <3>3, <3>4, ConcatEmptySeq
  <2>9. accepted' = Shifted \o <<b>>
    BY <1>1, <2>1, <2>2, <2>6, <2>7, AppendIsConcat
  <2>10. TextReady(main', logbuf') /\ SendInv'
    BY <1>5, <1>6, <2>1, <2>5
  <2> QED
    BY <1>1, <2>1, <2>5, <2>8, <2>9, <2>10, EmptySeq DEF Ordered
<1>15. CASE DrainAll
  <2>1. /\ Hand /\ UNCHANGED <<accepted, logbuf, had>> /\ main[1].op = "drain all"
        /\ \/ ring # <<>> /\ main' = main
           \/ ring = <<>> /\ main' = Tail(main)
    BY <1>2, <1>15 DEF DrainAll
  <2>2. ring = <<>> => ring' = <<>> /\ hw' = hw
    BY <2>1, HandWaits
  <2>3. ring' \in Seq(Octet) /\ hw'.rest \in Seq(Octet) /\ Sent' \o ring' = Sent \o ring
    BY <1>1, <2>1, HandSent
  <2>4. CASE ring # <<>> /\ main' = main
    <3>1. \A i \in 1..Len(main) : main[i].op \notin {"wait", "send"}
      BY <1>1, <2>4 DEF SendInv
    <3>2. SendInv' /\ TextReady(main', logbuf')
      BY <1>1, <2>1, <2>4, <3>1 DEF SendInv
    <3> QED
      BY <1>1, <2>1, <2>3, <3>2 DEF Ordered
  <2>5. CASE ring = <<>> /\ main' = Tail(main)
    <3>1. TextReady(main', logbuf') /\ SendInv'
      BY <1>5, <1>6, <2>1, <2>2, <2>5
    <3> QED
      BY <1>1, <2>1, <2>3, <3>1 DEF Ordered
  <2> QED
    BY <2>1, <2>4, <2>5
<1>16. \/ Format \/ Fill \/ Nested \/ Load \/ LoadFull \/ Store \/ Wait \/ Send \/ DrainAll
  <2>1. Head(main).op # "take" /\ Head(main).op # "transmitted"
    BY <1>2 DEF AnyStep, Steps, TextSteps, FormatSteps, FillSteps, DrainSteps, SendSteps, StoreSteps
  <2> QED
    BY <2>1 DEF MainStep, Transmitted
<1> QED
  BY <1>7, <1>8, <1>9, <1>10, <1>11, <1>12, <1>13, <1>14, <1>15, <1>16

LEMMA OrderKept ==
    ASSUME UartsAssumption, Inv1, OrderInv, [Next]_vars
    PROVE  OrderInv'
<1> SUFFICES ASSUME Calm' PROVE Ordered'
  BY DEF OrderInv, Ordered
<1>1. had \subseteq had'
  BY DEF Next, vars, Shift, DmaMove, ByteOut, DmaIsr, OutDrain, StartDelay, StopDelay,
         LogLine, LogBlock, LogDump, LogHelp, Begin, With, Note, MainStep, Format, Fill, Nested,
         Load, LoadFull, Store, Wait, Send, DrainAll, Transmitted, EnterDirect, ExitDirect,
         Write, Setup, IsrLog
<1>2. Ordered
  BY <1>1 DEF OrderInv, Ordered, Calm
<1>3. /\ Types /\ HwInv /\ ring \in Seq(Octet) /\ hw.rest \in Seq(Octet) /\ hw \in HwTypes
      /\ Sent \o ring = accepted /\ kind \in {"debug", "rs485", "modem"}
      /\ kind = "debug" => TextReady(main, logbuf) /\ SendInv
  BY <1>2 DEF Inv1, Types, Ordered, UartsAssumption
<1>4. ASSUME main' = <<>> \/ kind # "debug", kind' = kind
      PROVE  kind' = "debug" => TextReady(main', logbuf') /\ SendInv'
  <2> SUFFICES ASSUME main' = <<>> PROVE TextReady(main', logbuf') /\ SendInv'
    BY <1>4
  <2>1. Len(main') = 0
    BY EmptySeq
  <2> QED
    BY <2>1 DEF TextReady, SendInv
<1>5. CASE Shift \/ DmaMove \/ ByteOut \/ DmaIsr
  <2>1. hw'.rest \in Seq(Octet) /\ Sent' = Sent
    BY <1>3, <1>5, HardwareSent
  <2>2. UNCHANGED <<kind, ring, accepted, main, logbuf>>
    BY <1>5 DEF Shift, DmaMove, ByteOut, DmaIsr
  <2>3. /\ hw.rest = <<>> => hw'.rest = <<>>
        /\ hw.rest = <<>> /\ hw.tdr = None => hw'.tdr = None
    BY <1>3, <1>5 DEF Shift, DmaMove, ByteOut, DmaIsr, HwTypes
  <2>4. kind = "debug" => SendInv'
    <3>1. kind = "debug" /\ main # <<>> => 1 \in 1..Len(main)
      <4>1. kind = "debug" => main \in Seq(AnyStep)
        BY DEF Inv1, MainOfKind, Running
      <4> QED
        BY <4>1, EmptySeq
    <3> QED
      BY <1>3, <2>2, <2>3, <3>1 DEF SendInv
  <2> QED
    BY <1>3, <2>1, <2>2, <2>4 DEF Ordered
<1>6. CASE OutDrain
  <2>1. main' = <<>> /\ UNCHANGED <<kind, wire, accepted>> /\ Drain
    BY <1>6 DEF OutDrain, Idle
  <2>2. CASE Hand
    <3>1. ring' \in Seq(Octet) /\ hw'.rest \in Seq(Octet) /\ Sent' \o ring' = Sent \o ring
      BY <1>3, <2>1, <2>2, HandSent
    <3> QED
      BY <1>3, <1>4, <2>1, <3>1 DEF Ordered
  <2>3. CASE ~Hand
    <3>1. /\ ring' = ring /\ hw'.tdr = hw.tdr /\ hw'.rest = hw.rest
          /\ hw.shift = None => hw'.shift = None
          /\ hw.shift # None => hw'.shift # None /\ hw'.shift.byte = hw.shift.byte
      <4>1. ring' = ring
        BY <2>1, <2>3 DEF Drain, RsEmpty, RsSend
      <4>2. CASE hw' = hw
        BY <4>1, <4>2
      <4>3. CASE hw' # hw
        <5>1. hw.shift # None /\ hw' = [hw EXCEPT !.shift.ok = FALSE]
          BY <2>1, <2>3, <4>3 DEF Drain, RsEmpty, RsSend
        <5>2. hw.shift \in OnWire /\ None \notin OnWire
          BY <1>3, <5>1, NoneIsNone DEF HwTypes
        <5>3. /\ hw'.shift = [hw.shift EXCEPT !.ok = FALSE] /\ hw'.tdr = hw.tdr
              /\ hw'.rest = hw.rest
          BY <1>3, <5>1 DEF HwTypes
        <5>4. hw'.shift \in OnWire /\ hw'.shift.byte = hw.shift.byte
          BY <5>2, <5>3 DEF OnWire
        <5> QED
          BY <4>1, <5>1, <5>2, <5>3, <5>4
      <4> QED
        BY <4>2, <4>3
    <3>2. Sent' = Sent
      BY <2>1, <3>1 DEF Sent
    <3> QED
      BY <1>3, <1>4, <2>1, <3>1, <3>2 DEF Ordered
  <2> QED
    BY <2>2, <2>3
<1>7. CASE StartDelay \/ StopDelay \/ ExitDirect \/ UNCHANGED vars
  <2>1. UNCHANGED <<kind, ring, hw, wire, accepted, main, logbuf>>
    BY <1>7 DEF StartDelay, StopDelay, ExitDirect, vars
  <2>2. SendInv => SendInv'
    BY <2>1 DEF SendInv
  <2> QED
    BY <1>3, <2>1, <2>2 DEF Ordered, Sent
<1>8. CASE LogLine \/ LogBlock \/ LogDump \/ LogHelp
  <2>1. /\ UNCHANGED <<kind, ring, hw, wire, accepted, logbuf>> /\ writes \in Nat
    BY <1>8, BeginInv DEF Inv1, Types
  <2>2. Sent' = Sent
    BY <2>1 DEF Sent
  <2>3. /\ Ready(main')
        /\ \/ \A i \in 1..Len(main') : main'[i].op \notin {"wait", "send"}
           \/ /\ \A i \in 1..Len(main') : main'[i].op \notin {"load", "store"}
              /\ ring = <<>> /\ hw.rest = <<>>
    <3>1. CASE LogLine
      <4>1. main' = Line(writes)
        BY <3>1 DEF LogLine, Begin
      <4>2. Ready(main') /\ \A i \in 1..Len(main') : main'[i].op \in {"format", "load"}
        BY <2>1, <4>1, LineReady
      <4> QED
        BY <4>2
    <3>2. CASE LogBlock
      <4>1. main' = Blocking(writes)
        BY <3>2 DEF LogBlock, Begin
      <4>2. Ready(main') /\ \A i \in 1..Len(main') : main'[i].op \in {"format", "wait"}
        BY <2>1, <4>1, BlockingReady
      <4>3. ring = <<>> /\ hw.rest = <<>>
        <5>1. "blocking" \notin had'
          BY DEF Calm, Shared
        <5> QED
          BY <3>2, <5>1 DEF LogBlock, With, When
      <4> QED
        BY <4>2, <4>3
    <3>3. CASE LogDump
      <4>1. main' = Dump(writes)
        BY <3>3 DEF LogDump, Begin
      <4>2. Ready(main') /\ \A i \in 1..Len(main') : main'[i].op \in {"fill", "drain", "load"}
        BY <2>1, <4>1, DumpReady
      <4> QED
        BY <4>2
    <3>4. CASE LogHelp
      <4>1. main' = Help(writes)
        BY <3>4 DEF LogHelp, Begin
      <4>2. Ready(main') /\ \A i \in 1..Len(main') : main'[i].op \in {"format", "load", "drain all"}
        BY <2>1, <4>1, HelpReady
      <4> QED
        BY <4>2
    <3> QED
      BY <1>8, <3>1, <3>2, <3>3, <3>4
  <2>4. TextReady(main', logbuf') /\ main'[1].op \notin {"send", "store"}
    BY <2>3 DEF Ready
  <2>5. SendInv'
    BY <2>1, <2>3, <2>4 DEF SendInv
  <2> QED
    BY <1>3, <2>1, <2>2, <2>4, <2>5 DEF Ordered
<1>9. CASE MainStep
  <2>1. CASE kind = "debug"
    BY <1>2, <1>9, <2>1, OrderOfMain
  <2>2. CASE kind # "debug"
    <3>1. main # <<>> /\ UNCHANGED <<kind, wire>>
      BY <1>9 DEF MainStep
    <3>2. kind = "modem" /\ Head(main).op \in {"drain all", "transmitted", "take"}
      <4>1. kind = "modem"
        BY <1>3, <2>2, <3>1 DEF Inv1, MainOfKind
      <4> DEFINE a == Step("drain all", None)
                 b == Step("transmitted", None)
                 z == Step("take", None)
      <4>2. main = <<a, b, z>> \/ main = <<b, z>> \/ main = <<z>>
        BY <3>1, <4>1 DEF Inv1, MainOfKind
      <4>3. a.op = "drain all" /\ b.op = "transmitted" /\ z.op = "take"
        BY DEF Step
      <4> HIDE DEF a, b, z
      <4>4. Head(main) = a \/ Head(main) = b \/ Head(main) = z
        BY <4>2, ThreeSteps
      <4> QED
        BY <4>1, <4>3, <4>4
    <3>3. accepted' = accepted /\ (Hand \/ UNCHANGED <<ring, hw>>)
      BY <1>9, <3>2 DEF MainStep, Format, Fill, Nested, Load, LoadFull, Store, Wait, Send, DrainAll,
                        Transmitted
    <3>4. CASE Hand
      <4>1. ring' \in Seq(Octet) /\ hw'.rest \in Seq(Octet) /\ Sent' \o ring' = Sent \o ring
        BY <1>3, <3>1, <3>4, HandSent
      <4> QED
        BY <1>3, <2>2, <3>1, <3>3, <4>1 DEF Ordered
    <3>5. CASE UNCHANGED <<ring, hw>>
      BY <1>3, <2>2, <3>1, <3>3, <3>5 DEF Ordered, Sent
    <3> QED
      BY <3>3, <3>4, <3>5
  <2> QED
    BY <2>1, <2>2
<1>10. CASE EnterDirect
  <2>1. UNCHANGED <<kind, ring, hw, wire, accepted>> /\ kind # "debug"
    BY <1>10 DEF EnterDirect
  <2> QED
    BY <1>3, <2>1 DEF Ordered, Sent
<1>11. ASSUME NEW n \in Nat, NEW j, SubSeq(Bytes(n), 1, j) \in Seq(Octet),
              ring' = ring \o SubSeq(Bytes(n), 1, j),
              accepted' = accepted \o SubSeq(Bytes(n), 1, j), UNCHANGED <<wire, hw>>
       PROVE  ring' \in Seq(Octet) /\ hw'.rest \in Seq(Octet) /\ Sent' \o ring' = accepted'
  <2>1. Sent' = Sent
    BY <1>11 DEF Sent
  <2>2. Sent \in Seq(Octet)
    BY <1>3, SentType DEF HwTypes, Cell
  <2>3. PICK u \in Seq(Octet), d \in Seq(Octet), q \in Seq(Octet) :
            u = Sent /\ d = SubSeq(Bytes(n), 1, j) /\ q = ring
    BY <1>3, <1>11, <2>2
  <2>4. (u \o q) \o d = u \o (q \o d)
    BY Brackets, Zenon
  <2>5. q \o d \in Seq(Octet)
    BY ConcatProperties
  <2> QED
    BY <1>3, <1>11, <2>1, <2>3, <2>4, <2>5
<1>12. CASE \E k \in 1..3 : Write(k)
  <2>1. PICK k \in 1..3 : Write(k)
    BY <1>12
  <2> DEFINE j == IF k > Size - 1 - Len(ring) THEN Size - 1 - Len(ring) ELSE k
  <2>2. /\ ring' = ring \o SubSeq(Bytes(writes), 1, j)
        /\ accepted' = accepted \o SubSeq(Bytes(writes), 1, j)
        /\ UNCHANGED <<kind, hw, wire>> /\ kind # "debug" /\ writes \in Nat
    BY <1>3, <2>1 DEF Write, Types
  <2>3. SubSeq(Bytes(writes), 1, j) \in Seq(Octet)
    <3>1. ring \in Seq(Octet) /\ Len(ring) < Size /\ Octet \subseteq Octet
      BY <1>3 DEF Types
    <3> QED
      BY <2>2, <3>1, Fits
  <2> HIDE DEF j
  <2>4. ring' \in Seq(Octet) /\ hw'.rest \in Seq(Octet) /\ Sent' \o ring' = accepted'
    BY <1>11, <2>2, <2>3
  <2> QED
    BY <2>2, <2>4 DEF Ordered
<1>13. CASE Setup
  <2>1. "setup" \in had'
    BY <1>13 DEF Setup, With
  <2> QED
    BY <2>1 DEF Calm, Shared
<1>14. CASE IsrLog
  <2>1. main = <<>> /\ main' = main
    <3>1. "isr" \notin had'
      BY DEF Calm, Shared
    <3> QED
      BY <1>14, <3>1 DEF IsrLog, With, When
  <2> DEFINE j == IF 3 > Size - 1 - Len(ring) THEN Size - 1 - Len(ring) ELSE 3
  <2>2. Size - 1 - Len(ring) \in Int
    BY <1>3, LenProperties DEF UartsAssumption
  <2>3. j = IF Size - 1 - Len(ring) < 3 THEN Size - 1 - Len(ring) ELSE 3
    BY <2>2
  <2>4. /\ ring' = ring \o SubSeq(Bytes(writes), 1, j)
        /\ accepted' = accepted \o SubSeq(Bytes(writes), 1, j)
        /\ UNCHANGED <<kind, hw, wire>> /\ writes \in Nat
    BY <1>3, <1>14, <2>3 DEF IsrLog, Types
  <2>5. SubSeq(Bytes(writes), 1, j) \in Seq(Octet)
    <3>1. ring \in Seq(Octet) /\ Len(ring) < Size /\ Octet \subseteq Octet /\ 3 \in 1..3
      BY <1>3 DEF Types
    <3> QED
      BY <2>4, <3>1, Fits
  <2> HIDE DEF j
  <2>6. ring' \in Seq(Octet) /\ hw'.rest \in Seq(Octet) /\ Sent' \o ring' = accepted'
    BY <1>11, <2>4, <2>5
  <2> QED
    BY <1>4, <2>1, <2>4, <2>6 DEF Ordered
<1> QED
  BY <1>5, <1>6, <1>7, <1>8, <1>9, <1>10, <1>12, <1>13, <1>14 DEF Next

\* Of what a UART is given nothing is lost, doubled, mixed or passed by what
\* came later, as long as log_buffer and the ring are main's alone, nothing is
\* sent past the ring and mb_setup cuts nothing: the DMA, the drains inside
\* commands, a full ring and comms_direct do not matter.
THEOREM UartsKeepOrder ==
    ASSUME UartsAssumption
    PROVE  Spec => []InOrder
<1>1. Init => Inv1 /\ OrderInv
  BY Start
<1>2. Inv1 /\ OrderInv /\ [Next]_vars => Inv1' /\ OrderInv'
  BY Inv1Kept, OrderKept
<1>3. OrderInv => InOrder
  BY DEF OrderInv, Calm, Shared, InOrder, Had
<1> QED
  BY <1>1, <1>2, <1>3, PTL DEF Spec
=============================================================================
