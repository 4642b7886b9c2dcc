------------------------------ MODULE Numbers -------------------------------
(* Integers as bytes.  A byte has Base values: 256 in the code, fewer for  *)
(* TLC, so that the limits of the wider types stay small numbers.          *)
EXTENDS Integers, SequencesExt

CONSTANT Base

ASSUME NumbersAssumption == Base \in Nat /\ Base > 1 /\ Base % 2 = 0

\* The n low bytes of v, the lowest first: how the processors keep it.
Bytes(n, v) == [i \in 1..n |-> (v \div Base^(i - 1)) % Base]

Number(bytes) == FoldRight(LAMBDA b, rest : b + Base * rest, bytes, 0)

\* v kept in n bytes, without and with a sign.
Unsigned(n, v) == v % Base^n
Signed(n, v) ==
    IF Unsigned(n, v) < Base^n \div 2 THEN Unsigned(n, v) ELSE Unsigned(n, v) - Base^n

\* The division of C.
Over(a, b) == IF a >= 0 THEN a \div b ELSE -((-a) \div b)
=============================================================================
