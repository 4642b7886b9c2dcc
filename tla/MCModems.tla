------------------------------ MODULE MCModems ------------------------------
(***************************************************************************)
(* A device has one modem: WiFi or PoE, which AtModem models, or one of    *)
(* the two LoRaWAN modems of LoraModem.  Both are written over the same    *)
(* variables; "kind" says which of them a behaviour is about.              *)
(***************************************************************************)
EXTENDS Naturals

CONSTANTS
    MaxAps,                         \* AT_WIFI_AP_LIST_LEN
    AtLines, AtCmds, AtNest,        \* bounds: lines and commands in the UART,
                                    \* handlers asleep inside one another
    AtMaxFaults, AtFaults,          \* faults in a behaviour of WiFi or PoE
    Chunks, Inits, MaxResend,       \* of the two LoRaWAN drivers
    LoraLines, LoraNest,            \* as above
    LoraMaxFaults, LoraFaults

VARIABLES kind, ctx, line, cmds, chip, server, up, faults

modemVars == <<kind, ctx, line, cmds, chip, server, up, faults>>

A == INSTANCE AtModem WITH
        Kinds <- {"wifi", "poe"}, MaxLines <- AtLines, MaxCmds <- AtCmds,
        MaxNest <- AtNest, MaxFaults <- AtMaxFaults, Faults <- AtFaults
L == INSTANCE LoraModem WITH
        Kinds <- {"rak3172", "rak4270"}, MaxLines <- LoraLines,
        MaxNest <- LoraNest, MaxFaults <- LoraMaxFaults, Faults <- LoraFaults

ASSUME ModemsAssumption == A!AtAssumption /\ L!LoraAssumption

IsAt == kind \in {"wifi", "poe"}
IsLora == kind \in {"rak3172", "rak4270"}

ModemInit ==
    \/ A!Init /\ server = <<>>
    \/ L!Init

ModemNext ==
    \/ IsAt /\ A!Next /\ UNCHANGED server
    \/ IsLora /\ L!Next

AtVars == A!vars
LoraVars == L!vars

AtFairness ==
    /\ WF_AtVars(IsAt /\ A!Hear)
    /\ WF_AtVars(IsAt /\ A!Resume)
    /\ WF_AtVars(IsAt /\ A!TimerFires)
    /\ WF_AtVars(IsAt /\ A!Chip)
    /\ WF_AtVars(IsAt /\ A!MeasBusy)
    /\ WF_AtVars(IsAt /\ A!MeasOffline)

LoraFairness ==
    /\ WF_LoraVars(IsLora /\ L!Hear)
    /\ WF_LoraVars(IsLora /\ L!Resume)
    /\ WF_LoraVars(IsLora /\ L!TimerFires)
    /\ WF_LoraVars(IsLora /\ L!Chip)
    /\ WF_LoraVars(IsLora /\ L!ChipJoined)
    /\ WF_LoraVars(IsLora /\ L!ChipSent)
    /\ WF_LoraVars(IsLora /\ L!MeasBusy)
    /\ WF_LoraVars(IsLora /\ L!MeasOffline)

ModemSpec == ModemInit /\ [][ModemNext]_modemVars /\ AtFairness /\ LoraFairness
-----------------------------------------------------------------------------
\* WiFi, PoE: what the modem reads as the payload of a message or of a
\* command's answer is never the other's.
PayloadsStayApart == IsAt => A!PayloadsStayApart

\* A device that takes itself for ready is: with WiFi or PoE an idle one is
\* subscribed to its commands, with LoRaWAN a connected one has joined.  And
\* the variables have their types.
ReadyIsReal ==
    /\ IsAt => A!TypeOK /\ A!IdleIsSubscribed
    /\ IsLora => L!TypeOK /\ L!ConnectedIsJoined

\* LoRaWAN: the firmware taken in is its chunks in their order, each once.
ChunksInOrder == IsLora => L!ChunksInOrder

\* What Measurements is told of a message is in time and true: with WiFi or PoE
\* it hears before the modem is free again, with LoRaWAN it hears of a success
\* only if the message arrived.
AnswersAreTrue ==
    [][(IsAt => A!AnswerComesFirst) /\ (IsLora => L!AckIsDeserved)]_modemVars

\* Any modem: the device is usable, or waits to be configured, again and
\* again.  A RAK4270 that has timed out is left to the next line it hears: it
\* may be powered off and on for ever before its modem has booted.
ComesBack == []<>(IF IsAt THEN A!UsableOrStuck ELSE L!UsableOrOverdue)
=============================================================================
