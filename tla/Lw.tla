--------------------------------- MODULE Lw ---------------------------------
(***************************************************************************)
(* What the two LoRaWAN drivers share: the settings of src/comms/lw.c and  *)
(* the firmware that comes down from the network server, which both        *)
(* drivers take in with the same code.                                     *)
(*                                                                         *)
(* A command for the modem and a line from it are pairs: what it is, and   *)
(* the number it carries.                                                  *)
(***************************************************************************)
EXTENDS Handlers

CONSTANTS Chunks        \* chunks of the firmware that is sent

\* _lw_region: the number of a region is its place here.
RegionNames == <<"EU433", "CN470", "RU864", "IN865", "EU868", "US915",
                 "AU915", "KR920", "AS923-1", "AS923-2", "AS923-3", "AS923-4">>
RegionMax == Len(RegionNames) - 1
EU868 == 4

\* _lw_config_init2: neither the dev-eui nor the app-key is set.
DefaultConfig == [eui |-> FALSE, key |-> FALSE, region |-> EU868]

\* osm_lw_persist_data_is_valid
IsValid(s) == s.eui /\ s.key /\ s.region <= RegionMax

\* osm_lw_config_setup_str: what an item is set to has to have its length, or
\* be the name of a region; without it the item is only shown.
Set(s, ok) == [ok |-> ok, s |-> s]
ConfigSetup(s, item, arg) ==
    CASE item = "dev-eui" /\ arg = "right" -> Set([s EXCEPT !.eui = TRUE], TRUE)
      [] item = "app-key" /\ arg = "right" -> Set([s EXCEPT !.key = TRUE], TRUE)
      [] item = "region" /\ \E i \in DOMAIN RegionNames : RegionNames[i] = arg ->
             Set([s EXCEPT !.region =
                      (CHOOSE i \in DOMAIN RegionNames : RegionNames[i] = arg) - 1],
                 TRUE)
      [] OTHER -> Set(s, FALSE)
-----------------------------------------------------------------------------
(* Firmware: "next" is the chunk that is expected, "fw" the chunks that    *)
(* were handed on to the update, and "done" tells that it accepted them.   *)

FwStart(c) == [c EXCEPT !.next = 0, !.fw = <<>>]

\* Mutant: a chunk is taken in after others that never came.
FwChunkAfterGap(c, k) ==
    IF c.next > k THEN c
    ELSE [c EXCEPT !.next = k + 1, !.fw = Append(@, k)]

FwChunk(c, k) ==
    IF c.next # k THEN c
    ELSE [c EXCEPT !.next = k + 1, !.fw = Append(@, k)]

\* osm_fw_ota_complete compares the CRC.
FwComplete(c) ==
    IF c.next = 0 THEN c
    ELSE [c EXCEPT !.next = 0, !.fw = <<>>,
                   !.done = @ \/ c.fw = [i \in 1..Chunks |-> i - 1]]

\* What python/lw_fw_download.py sends: everything twice.
Twice(d) == <<d, d>>
Download ==
    LET chunk[k \in 0..Chunks] ==
            IF k = 0 THEN <<>> ELSE chunk[k - 1] \o Twice(<<"FW+", k - 1>>)
    IN  Twice(<<"FW-", 0>>) \o chunk[Chunks] \o Twice(<<"FW@", 0>>)
=============================================================================
