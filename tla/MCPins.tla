------------------------------- MODULE MCPins -------------------------------
(***************************************************************************)
(* The two pulse pins of the env01f boards.  The first is given every      *)
(* command and counts when it has no settings; the second is watched.      *)
(***************************************************************************)
EXTENDS PinsSystem, TLC

TwoPins == {0, 1}
InOrder == <<0, 1>>
OneEdge == {"falling"}
CountAndWatch == (0 :> "falling") @@ (1 :> "watch")
\* Address 0 is the boot loader's: its stack starts at 0x20010000, of which
\* the second half is a counter's use.
OfTheBootLoader == (0 :> "none") @@ (1 :> "falling")
Output == {[input |-> FALSE, pull |-> FALSE]}
TheCommands ==
    [c \in {"en_w1", "en_pulse", "en_watch", "io", "on", "pulse_dbnc"} |-> {0}]
AllFaults == {"restart", "boot", "reset", "en_w1", "en_pulse", "en_watch", "io", "pulse_dbnc"}
=============================================================================
