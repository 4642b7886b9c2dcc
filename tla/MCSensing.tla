----------------------------- MODULE MCSensing ------------------------------
(***************************************************************************)
(* The sensors of a device: those on the analogue converter, which share   *)
(* it (AdcSystem), or a chip with a driver of its own (SensorSystem).      *)
(* Nothing is shared between the two, so that a behaviour has one of them. *)
(***************************************************************************)
EXTENDS AdcSystem

CONSTANTS Chips, MaxRef             \* of SensorSystem

VARIABLES
    part,                           \* "adc" or "chip"
    d, measured, sample, cmd        \* of SensorSystem

AdcVars == <<adc, enabled, open, nest>>
ChipVars == <<d, measured, sample, cmd>>

S == INSTANCE SensorSystem

ASSUME SensingAssumption == AdcSystemAssumption /\ S!SensorSystemAssumption

IsAdc == part = "adc"
IsChip == part = "chip"

MCInit ==
    \/ /\ IsAdc /\ Init
       /\ d = [kind |-> "none"] /\ measured = <<>> /\ sample = <<>> /\ cmd = S!NoCmd
    \/ /\ IsChip /\ S!Init
       /\ adc = Start /\ enabled = {} /\ open = {} /\ nest = <<>>

MCNext ==
    \/ IsAdc /\ Next /\ UNCHANGED <<part, ChipVars>>
    \/ IsChip /\ S!Next /\ UNCHANGED <<part, AdcVars>>

AdcPart == <<part, vars>>
ChipPart == <<part, S!vars>>

MCFairness ==
    /\ WF_AdcPart(IsAdc /\ Dma /\ UNCHANGED part)
    /\ WF_AdcPart(IsAdc /\ Return /\ UNCHANGED part)
    /\ \A n \in Sensors : WF_AdcPart(IsAdc /\ SampleGet(n) /\ UNCHANGED part)
    /\ WF_ChipPart(IsChip /\ S!BeginPass /\ UNCHANGED part)
    /\ SF_ChipPart(IsChip /\ S!CollectPass /\ UNCHANGED part)
    /\ WF_ChipPart(IsChip /\ S!Chip /\ UNCHANGED part)
    /\ \A n \in S!Iterated :
           WF_ChipPart(IsChip /\ n \in S!Names /\ S!Iterate(n) /\ UNCHANGED part)
    /\ WF_ChipPart(IsChip /\ S!GetMeasIterate /\ UNCHANGED part)
    /\ SF_ChipPart(IsChip /\ S!GetMeasGet /\ UNCHANGED part)
    /\ WF_ChipPart(IsChip /\ S!Hopeless /\ S!GetMeasTimeout /\ UNCHANGED part)

MCSpec == MCInit /\ [][MCNext]_<<part, vars, ChipVars>> /\ MCFairness
-----------------------------------------------------------------------------
\* The measurements of the analogue converter that have an interval.
OnAdc == <<<<"CC", 1>>, <<"CC", 2>>, <<"FT", 1>>, <<"BAT", 1>>>>
OnAdcSet == {OnAdc[i] : i \in DOMAIN OnAdc}
OnAdcAtOnce == {<<"CC", 1>>, <<"FT", 1>>}

TheChips ==
    {[chip |-> "hpm", measured |-> <<"PM10">>],
     [chip |-> "hpm", measured |-> <<"PM10", "PM25">>],
     [chip |-> "htu", measured |-> <<"TEMP">>],
     [chip |-> "htu", measured |-> <<"HUMI">>],
     [chip |-> "htu", measured |-> <<"TEMP", "HUMI">>],
     [chip |-> "htu", measured |-> <<"HUMI", "TEMP">>],
     [chip |-> "veml", measured |-> <<"LIGHT">>],
     [chip |-> "ds", measured |-> <<"TEMP">>],
     [chip |-> "sen", measured |-> <<"PM10", "REL_HUM">>],
     [chip |-> "rs", measured |-> <<"FW">>]}

AllFaults ==
    {"race", "cc", "cal", "bat", "read", "interval", "sleep", "slow", "cut"}
        \cup {"i2c", "noise"}
-----------------------------------------------------------------------------
\* A sample is given its own reading: of the analogue converter, made from the
\* samples of its channel and of no other; of a chip, read after the sample was
\* begun.
OwnReadings == (IsAdc => OwnSamples) /\ (IsChip => S!Fresh)

\* What a driver has claimed or begun is going to be given back or collected:
\* the analogue converter, the power and the bus of a chip.
Owned == (IsAdc => HeldForUse) /\ (IsChip => S!Owned)

\* The settings are in their range and agree: the clamps that are converted are
\* those that are measured, the light sensor's multipliers stay in their tables
\* and their product in eight bits.
SettingsAgree ==
    /\ IsAdc => TypeOK /\ ActiveIsEnabled
    /\ IsChip => S!TypeOK /\ S!SettingsFit

\* Every sample that is begun ends: those of the analogue converter, and those
\* of a chip, the i-th measurement's of either.
Awaited(i) == IF IsAdc THEN Expected(OnAdc[i]) ELSE S!Expected(i)
SamplesEnd == \A i \in DOMAIN OnAdc : Awaited(i) ~> ~Awaited(i)
=============================================================================
