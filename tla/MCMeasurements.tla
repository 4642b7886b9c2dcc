--------------------------- MODULE MCMeasurements ---------------------------
(***************************************************************************)
(* Measurements for TLC, in two setups: with messages that are refused,    *)
(* lost or put off, and a counter that is in the first fragment of a       *)
(* message (the constants of the configuration); and with nothing that     *)
(* fails, and a counter that is reported every third interval.  That a     *)
(* send ends when all may happen is checked in MCReports.                 *)
(***************************************************************************)
EXTENDS Measurements, TLC

VARIABLE setup      \* "lossy" or "reliable"

\* Slot 0 is reported every second interval, slot 2 every third, the others
\* each time.
Intervals == 0 :> 2 @@ 1 :> 1 @@ 2 :> 3 @@ 3 :> 1

Lossy == {"nack", "silent", "sendfail", "fw"}

Reliable == INSTANCE Measurements WITH Pulses <- 2, MaxPulses <- 3, ReportFaults <- {}

IsLossy == setup = "lossy"
IsReliable == setup = "reliable"

MCInit ==
    \/ IsLossy /\ ReportInit
    \/ IsReliable /\ Reliable!ReportInit

MCNext ==
    /\ \/ IsLossy /\ ReportNext
       \/ IsReliable /\ Reliable!ReportNext
    /\ UNCHANGED setup

Fairness ==
    /\ WF_reportVars(IsReliable /\ Reliable!Loop)
    /\ WF_reportVars(IsReliable /\ Reliable!CommsAnswer)
    /\ \A i \in Slot : WF_reportVars(IsReliable /\ Reliable!Collect(i))
    /\ WF_reportVars(IsReliable /\ Reliable!Up)
    /\ WF_reportVars(IsReliable /\ Reliable!Age)

MCSpec == MCInit /\ [][MCNext]_<<setup, reportVars>> /\ Fairness
-----------------------------------------------------------------------------
\* When nothing fails, every pulse is delivered in the end, and none twice; and
\* a reading that has been collected is reported in the end.
NoPulseTwice == IsReliable => delivered + pulse <= total
PulsesArrive ==
    \A k \in 1 .. 3 : (IsReliable /\ total >= k) ~> delivered >= k
ReadingsAreSent ==
    \A i \in Slot : (IsReliable /\ reading[i] # Nothing) ~> reading[i] = Nothing
AllArrives == []NoPulseTwice /\ PulsesArrive /\ ReadingsAreSent
=============================================================================
