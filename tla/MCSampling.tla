----------------------------- MODULE MCSampling -----------------------------
(***************************************************************************)
(* Two measurements, of one and two intervals, one, two and three samples, *)
(* with and without a collection time, and samples that do not divide the  *)
(* interval; and one with more samples than its counters count.            *)
(***************************************************************************)
EXTENDS Sampling

Def(interval, samples, takes) ==
    [interval |-> interval, samples |-> samples, takes |-> takes, immediate |-> FALSE]
Immediate == [interval |-> 1, samples |-> 1, takes |-> 2, immediate |-> TRUE]

SomeTables ==
    {<<Def(1, 2, 2), Def(1, 2, 2)>>, <<Def(1, 1, 2), Def(1, 2, 2)>>, <<Def(1, 2, 0), Def(2, 1, 2)>>,
     <<Immediate, Def(2, 2, 2)>>, <<Def(1, 4, 0), Def(1, 1, 2)>>,
     <<Def(1, 2, 4), Def(1, 1, 2)>>, <<Def(2, 3, 1), Def(1, 2, 2)>>}
=============================================================================
