-------------------------------- MODULE Ring --------------------------------
(***************************************************************************)
(* The byte ring of src/core/ring.c, between the side that adds (a UART    *)
(* interrupt on the STM32, a task on the ESP32, a thread on Linux) and the *)
(* main loop that reads.  Every load or store of the shared r_pos, w_pos   *)
(* and buf that the other side can see is a step of its own, in the order  *)
(* the C code makes them; the volatile accesses are taken as sequentially  *)
(* consistent.                                                             *)
(***************************************************************************)
EXTENDS Integers, Sequences

CONSTANTS
    BufSize,   \* ring_buf->size
    Byte,      \* the bytes that can be added
    Eol,       \* those that end a line: '\n' and '\r'
    LineLen,   \* the len given to osm_ring_buf_readline (CMD_LINELEN)
    Ops,       \* the operations the reading side uses
    IsrAdd,    \* TRUE: an addition preempts the reader and runs to its end
    OverRead   \* TRUE: bytes may be added while a read asks for more than
               \* is pending (osm_can_drain_array)

AllOps == {"read", "peek", "discard", "readline", "consume", "clear"}

ASSUME RingAssumption ==
    /\ BufSize \in Nat /\ BufSize >= 2
    /\ LineLen \in Nat /\ LineLen >= 2
    /\ Eol \subseteq Byte
    /\ Ops \subseteq AllOps
    /\ IsrAdd \in BOOLEAN /\ OverRead \in BOOLEAN

VARIABLES
    buf, r_pos, w_pos,      \* osm_ring_buf_t
    add_pc, add_c, add_w,   \* osm_ring_buf_add: where it is, c, its w_pos
    pc,                     \* where the reading side is
    r,                      \* its local r_pos
    len,                    \* how many bytes it still may touch
    c,                      \* the byte it has just loaded
    got,                    \* the bytes it has copied so far
    given                   \* what the last finished read gave its caller

addVars    == <<add_pc, add_c, add_w>>
localVars  == <<r, len, c, got>>
readerVars == <<pc, r, len, c, got, given>>
ringVars   == <<buf, r_pos, w_pos, add_pc, add_c, add_w,
                pc, r, len, c, got, given>>

Pos == 0 .. BufSize - 1

Inc(p) == (p + 1) % BufSize

\* The slot n bytes after p, and the number of bytes from p up to q.
At(p, n)   == IF p + n < BufSize THEN p + n ELSE p + n - BufSize
Dist(p, q) == IF p <= q THEN q - p ELSE BufSize - p + q

\* osm_ring_buf_get_pending
GetPending == Dist(r_pos, w_pos)

RingInit ==
    /\ buf \in [Pos -> Byte]
    /\ r_pos = 0 /\ w_pos = 0
    /\ add_pc = "idle" /\ add_c \in Byte /\ add_w = 0
    /\ pc = "idle" /\ r = 0 /\ len = 0 /\ c \in Byte
    /\ got = <<>> /\ given = <<>>
-----------------------------------------------------------------------------
(* osm_ring_buf_add, load by load.                                         *)

\* A read or peek under way asks for more than there is.
AskedTooMuch ==
    \/ pc \in {"load", "check"} /\ len > GetPending
    \/ pc \in {"pload", "pcheck"} /\ Len(got) + len > GetPending

AddStart(b) ==
    /\ add_pc = "idle"
    /\ OverRead \/ ~AskedTooMuch
    /\ add_c' = b /\ add_w' = w_pos /\ add_pc' = "check"
    /\ UNCHANGED <<buf, r_pos, w_pos, readerVars>>

AddFull ==
    /\ add_pc = "check"
    /\ Inc(add_w) = r_pos
    /\ add_pc' = "idle"
    /\ UNCHANGED <<buf, r_pos, w_pos, add_c, add_w, readerVars>>

\* Mutant: the full ring is not noticed.
AddRoomUnchecked ==
    /\ add_pc = "check"
    /\ add_pc' = "write"
    /\ UNCHANGED <<buf, r_pos, w_pos, add_c, add_w, readerVars>>

AddRoom ==
    /\ add_pc = "check"
    /\ Inc(add_w) # r_pos
    /\ add_pc' = "write"
    /\ UNCHANGED <<buf, r_pos, w_pos, add_c, add_w, readerVars>>

AddWrite ==
    /\ add_pc = "write"
    /\ buf' = [buf EXCEPT ![add_w] = add_c]
    /\ add_pc' = "publish"
    /\ UNCHANGED <<r_pos, w_pos, add_c, add_w, readerVars>>

AddPublish ==
    /\ add_pc = "publish"
    /\ w_pos' = Inc(add_w)
    /\ add_pc' = "idle"
    /\ UNCHANGED <<buf, r_pos, add_c, add_w, readerVars>>

Adder == (\E b \in Byte : AddStart(b))
         \/ AddFull \/ AddRoom \/ AddWrite \/ AddPublish
-----------------------------------------------------------------------------
(* The reading side.  An interrupt runs to its end before main goes on.    *)

MainRuns == IsrAdd => add_pc = "idle"

\* Common to the start of every operation: no byte copied yet, the local
\* position taken from the shared one.
BeginOp(op, next, n) ==
    /\ pc = "idle" /\ op \in Ops /\ MainRuns
    /\ pc' = next /\ len' = n /\ r' = r_pos /\ got' = <<>>
    /\ UNCHANGED <<buf, r_pos, w_pos, addVars, c, given>>

\* The callers in modbus.c and hpm.c ask for what they have seen pending, the
\* tests for more in a ring nobody adds to; osm_can_drain_array asks for a
\* whole packet whatever is there or comes.
MayAsk(n) == OverRead \/ n <= GetPending \/ add_pc = "idle"

ReadBegin(n) == MayAsk(n) /\ BeginOp("read", "load", n)

\* The byte is loaded before the position is compared with w_pos.
ReadLoad ==
    /\ pc = "load" /\ MainRuns
    /\ c' = buf[r] /\ pc' = "check"
    /\ UNCHANGED <<buf, r_pos, w_pos, addVars, r, len, got, given>>

ReadEmpty ==
    /\ pc = "check" /\ MainRuns
    /\ r = w_pos
    /\ pc' = "idle"
    /\ UNCHANGED <<buf, r_pos, w_pos, addVars, localVars, given>>

ReadOne ==
    /\ pc = "check" /\ MainRuns
    /\ r # w_pos
    /\ r' = Inc(r) /\ r_pos' = Inc(r)
    /\ len' = len - 1 /\ given' = <<c>>
    /\ pc' = IF len = 1 THEN "idle" ELSE "load"
    /\ UNCHANGED <<buf, w_pos, addVars, c, got>>

PeekBegin(n) == MayAsk(n) /\ BeginOp("peek", "pload", n)

PeekLoad ==
    /\ pc = "pload" /\ MainRuns
    /\ c' = buf[r] /\ pc' = "pcheck"
    /\ UNCHANGED <<buf, r_pos, w_pos, addVars, r, len, got, given>>

PeekDone(bytes) ==
    /\ given' = bytes /\ pc' = "idle"
    /\ UNCHANGED <<buf, r_pos, w_pos, addVars, localVars>>

PeekEmpty == pc = "pcheck" /\ MainRuns /\ r = w_pos /\ PeekDone(got)

PeekOne ==
    /\ pc = "pcheck" /\ MainRuns
    /\ r # w_pos
    /\ IF len = 1
       THEN PeekDone(Append(got, c))
       ELSE /\ r' = Inc(r) /\ len' = len - 1 /\ got' = Append(got, c)
            /\ pc' = "pload"
            /\ UNCHANGED <<buf, r_pos, w_pos, addVars, c, given>>

DiscardBegin(n) == BeginOp("discard", "skip", n)

SkipEmpty ==
    /\ pc = "skip" /\ MainRuns
    /\ r = w_pos
    /\ pc' = "idle"
    /\ UNCHANGED <<buf, r_pos, w_pos, addVars, localVars, given>>

SkipOne ==
    /\ pc = "skip" /\ MainRuns
    /\ r # w_pos
    /\ r' = Inc(r) /\ r_pos' = Inc(r) /\ len' = len - 1
    /\ pc' = IF len = 1 THEN "idle" ELSE "skip"
    /\ UNCHANGED <<buf, w_pos, addVars, c, got, given>>
-----------------------------------------------------------------------------
(* osm_ring_buf_readline: nothing is published before the line is complete *)

LineBegin ==
    /\ GetPending # 0
    /\ BeginOp("readline", "scan",
               IF GetPending > LineLen - 1 THEN LineLen - 1 ELSE GetPending)

\* A byte of the line; the scan ends without one when toread bytes are gone,
\* and then gives the bytes up only if the caller's buffer is full.
LineByte ==
    /\ pc = "scan" /\ MainRuns
    /\ Len(got) < len
    /\ buf[r] \notin Eol
    /\ got' = Append(got, buf[r]) /\ r' = Inc(r)
    /\ UNCHANGED <<buf, r_pos, w_pos, addVars, pc, len, c, given>>

LineEol ==
    /\ pc = "scan" /\ MainRuns
    /\ Len(got) < len
    /\ buf[r] \in Eol
    /\ got' = Append(got, buf[r]) /\ r' = Inc(r)
    /\ pc' = IF Len(got) + 1 < len THEN "eol" ELSE "commit"
    /\ UNCHANGED <<buf, r_pos, w_pos, addVars, len, c, given>>

\* The second byte of a two byte terminator goes with the line.
LineEol2 ==
    /\ pc = "eol" /\ MainRuns
    /\ IF buf[r] \in Eol
       THEN got' = Append(got, buf[r]) /\ r' = Inc(r)
       ELSE UNCHANGED <<got, r>>
    /\ pc' = "commit"
    /\ UNCHANGED <<buf, r_pos, w_pos, addVars, len, c, given>>

\* Mutant: the room for the terminating zero is forgotten in the comparison.
LineEndOffByOne ==
    /\ pc = "scan" /\ MainRuns
    /\ Len(got) = len
    /\ pc' = IF len = LineLen THEN "commit" ELSE "idle"
    /\ UNCHANGED <<buf, r_pos, w_pos, addVars, localVars, given>>

LineEnd ==
    /\ pc = "scan" /\ MainRuns
    /\ Len(got) = len
    /\ pc' = IF len = LineLen - 1 THEN "commit" ELSE "idle"
    /\ UNCHANGED <<buf, r_pos, w_pos, addVars, localVars, given>>

Commit ==
    /\ pc = "commit" /\ MainRuns
    /\ r_pos' = r /\ given' = got /\ pc' = "idle"
    /\ UNCHANGED <<buf, w_pos, addVars, localVars>>
-----------------------------------------------------------------------------
(* osm_ring_buf_consume: copy, hand to the callback, step back over what   *)
(* the callback did not take.                                              *)

ConsumeBegin(n) == BeginOp("consume", "copy", n)

CopyOne ==
    /\ pc = "copy" /\ MainRuns
    /\ Len(got) < len /\ r # w_pos
    /\ got' = Append(got, buf[r]) /\ r' = Inc(r)
    /\ UNCHANGED <<buf, r_pos, w_pos, addVars, pc, len, c, given>>

CopyEnd ==
    /\ pc = "copy" /\ MainRuns
    /\ Len(got) = len \/ r = w_pos
    /\ pc' = IF got = <<>> THEN "idle" ELSE "cb"
    /\ UNCHANGED <<buf, r_pos, w_pos, addVars, localVars, given>>

\* `while(unconsumed--)': back one slot at a time, from 0 to size - 1.
Back(p, n) == IF n <= p THEN p - n ELSE p + BufSize - n

\* Mutant: what the callback left is not given back.
CallbackKeeps(consumed) ==
    /\ pc = "cb" /\ MainRuns
    /\ got' = SubSeq(got, 1, consumed)
    /\ pc' = "commit"
    /\ UNCHANGED <<buf, r_pos, w_pos, addVars, r, len, c, given>>

Callback(consumed) ==
    /\ pc = "cb" /\ MainRuns
    /\ r' = Back(r, Len(got) - consumed)
    /\ got' = SubSeq(got, 1, consumed)
    /\ pc' = "commit"
    /\ UNCHANGED <<buf, r_pos, w_pos, addVars, len, c, given>>
-----------------------------------------------------------------------------
(* ring_buf_clear and _uart_rings_wipe: two stores, r_pos first.           *)

ClearR ==
    /\ pc = "idle" /\ "clear" \in Ops /\ MainRuns
    /\ r_pos' = 0 /\ pc' = "clear"
    /\ UNCHANGED <<buf, w_pos, addVars, localVars, given>>

ClearW ==
    /\ pc = "clear" /\ MainRuns
    /\ w_pos' = 0 /\ pc' = "idle"
    /\ UNCHANGED <<buf, r_pos, addVars, localVars, given>>

Reader == \/ \E n \in 1 .. BufSize : ReadBegin(n) \/ PeekBegin(n)
                                  \/ DiscardBegin(n) \/ ConsumeBegin(n)
          \/ ReadLoad \/ ReadEmpty \/ ReadOne
          \/ PeekLoad \/ PeekEmpty \/ PeekOne
          \/ SkipEmpty \/ SkipOne
          \/ LineBegin \/ LineByte \/ LineEol \/ LineEol2 \/ LineEnd
          \/ CopyOne \/ CopyEnd
          \/ \E n \in 0 .. Len(got) : Callback(n)
          \/ Commit
          \/ ClearR \/ ClearW

RingNext == Adder \/ Reader

RingSpec == RingInit /\ [][RingNext]_ringVars
-----------------------------------------------------------------------------
(* The main loop drains the ring over and over (osm_uart_rings_in_drain)   *)
(* and an addition once begun ends.                                        *)
FairSpec ==
    /\ RingSpec
    /\ WF_ringVars(AddFull \/ AddRoom \/ AddWrite \/ AddPublish)
    /\ WF_ringVars(Reader)
-----------------------------------------------------------------------------
(* Properties.                                                             *)

AddPcs == {"idle", "check", "write", "publish"}
RdPcs  == {"idle", "load", "check", "pload", "pcheck", "skip", "scan", "eol",
           "copy", "cb", "commit", "clear"}

\* Every position stays inside the buffer and every local has its type: no
\* operation of ring.c, in any interleaving, walks off the end of buf.
RingTypeOK ==
    /\ buf \in [Pos -> Byte]
    /\ r_pos \in Pos /\ w_pos \in Pos
    /\ add_pc \in AddPcs /\ add_c \in Byte /\ add_w \in Pos
    /\ pc \in RdPcs /\ r \in Pos /\ c \in Byte
    /\ len \in 0 .. BufSize
    /\ got \in Seq(Byte) /\ given \in Seq(Byte)

\* An addition under way still holds the slot it chose: nobody moved w_pos,
\* and once room was seen the slot after it stays free.
AdderHolds ==
    /\ add_pc # "idle" => add_w = w_pos
    /\ add_pc \in {"write", "publish"} => Inc(w_pos) # r_pos
    /\ add_pc = "publish" => buf[w_pos] = add_c

\* The bytes copied so far are the oldest ones of the ring, in order.
CopiedPrefix ==
    /\ Len(got) <= GetPending
    /\ r = At(r_pos, Len(got))
    /\ \A k \in 1 .. Len(got) : got[k] = buf[At(r_pos, k - 1)]

\* A read under way stays within what it found pending when it began, however
\* many bytes the other side adds meanwhile, and what it has copied is intact.
ReaderHolds ==
    /\ pc \in {"pload", "pcheck", "scan", "eol", "copy", "cb", "commit"}
         => CopiedPrefix
    /\ pc \in {"load", "check", "skip"} => r = r_pos /\ len >= 1
    /\ pc \in {"pload", "pcheck"} => len >= 1
    /\ AskedTooMuch => add_pc = "idle"
    /\ pc \in {"check", "pcheck"} => c = buf[r]
    /\ pc = "scan" => Len(got) <= len /\ len <= GetPending
    /\ pc = "eol" => Len(got) < len /\ len <= GetPending
    /\ pc \in {"copy", "cb"} => Len(got) <= len
    /\ pc = "clear" => r_pos = 0
    /\ pc = "clear" => IsrAdd /\ "clear" \in Ops

\* The invariant of the ring: both sides hold what they believe they hold.
RingHolds == AdderHolds /\ ReaderHolds

\* The queue the ring stands for.  Between the two stores of a clear it is
\* empty already.
Contents == IF pc = "clear" THEN <<>>
            ELSE [k \in 1 .. GetPending |-> buf[At(r_pos, k - 1)]]

Fifo == INSTANCE ByteFifo
            WITH Cap <- BufSize - 1, queue <- Contents, taken <- given

\* The ring implements a bounded FIFO: no byte is lost, invented, repeated or
\* overwritten between osm_ring_buf_add and the reading operations, and what
\* a read hands over is the oldest bytes, in order.
ImplementsFifo == Fifo!FifoSpec

\* A ring full of bytes without a terminator does not wedge the main loop:
\* readline gives a full line buffer away, so the ring gets room again.
FullDrains == (GetPending = BufSize - 1) ~> (GetPending < BufSize - 1)

\* A terminator that has arrived gets its line out of the ring.
HasLine == \E k \in 1 .. GetPending : buf[At(r_pos, k - 1)] \in Eol
LineComesOut == HasLine ~> (pc = "commit")
=============================================================================
