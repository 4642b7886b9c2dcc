-------------------------------- MODULE Update --------------------------------
(***************************************************************************)
(* Firmware update on the STM32: src/ports/stm/update.c stages an image in *)
(* the second half of the flash, the boot loader copies it over the first  *)
(* when the flag pending_fw of the configuration page says so.             *)
(*                                                                         *)
(* Flash is changed by erasing a page and then programming it word by      *)
(* word, each a step, so power may be lost between any two of them.  A     *)
(* word stands for what is programmed at once.  An image is accepted by    *)
(* its CRC, taken here to tell any two images apart.                       *)
(***************************************************************************)
EXTENDS Integers, Sequences

CONSTANTS
    Byte,        \* what a word of an image may be
    Erased,      \* a word of erased flash, 0xFF...
    Zero,        \* a word of the page buffer after it has been written
    Torn,        \* pending_fw with one of its two halves programmed
    PageSize,    \* FLASH_PAGE_SIZE, in words
    Pages,       \* FW_PAGES
    Old,         \* the image the device left the factory with
    Images,      \* those that are sent to it
    MaxChunks,   \* bound: chunks of a download by LoRaWAN
    Faults,      \* what else may happen, see below
    None

(* tear: power may be lost between the two flash words pending_fw lies in; *)
(* flashfail: a page may fail to be written, three times over; again: fw@  *)
(* may be given again when an image is ready.                              *)
AllFaults == {"tear", "flashfail", "again"}

Max == PageSize * Pages        \* FW_MAX_SIZE

Image == UNION {[1 .. n -> Byte] : n \in 1 .. Max}

ASSUME UpdateAssumption ==
    /\ PageSize \in Nat /\ PageSize >= 2
    /\ Pages \in Nat \ {0}
    /\ {Old} \cup Images \subseteq Image
    /\ {Erased, Zero} \cap Byte = {}
    /\ Erased # Zero
    /\ {Erased, Torn} \cap Nat = {} /\ Erased # Torn
    /\ MaxChunks \in Nat
    /\ Faults \subseteq AllFaults
    /\ None \notin Image \cup [to : 0 .. Max, erased : BOOLEAN]

VARIABLES
    mode,      \* "boot", "copy", "start" in the boot loader, "run", "error"
    staged,    \* the flash from NEW_FW_ADDR on
    app,       \* the flash from FW_ADDR on
    flag,      \* pending_fw in the configuration page
    writing,   \* the page of one of them being written, or None
    saving,    \* the configuration page being written, or None
    copied,    \* pages the boot loader has copied
    pos,       \* _fw_ota_pos
    page,      \* _fw_page
    pending,   \* persist_data.pending_fw
    next,      \* _rak3172_next_fw_chunk_id
    input,     \* the bytes of a chunk not yet added
    crc,       \* the image whose CRC is being checked, or None
    ready,     \* the last image accepted, or None
    ran        \* the image that last ran

flashVars == <<staged, app, flag>>
jobVars   == <<writing, saving>>
ramVars   == <<pos, page, pending, next, input, crc>>
knownVars == <<ready, ran>>
vars == <<mode, flashVars, jobVars, copied, ramVars, knownVars>>

Addr   == 0 .. Max - 1
PageNo == 0 .. Pages - 1
Offset == 0 .. PageSize - 1
Word   == Byte \cup {Erased, Zero}
Flag   == 0 .. Max \cup {Erased, Torn}

Blank  == [i \in Offset |-> Erased]
Zeroes == [i \in Offset |-> Zero]

\* Area starts with the image.
Holds(area, image) == \A k \in 1 .. Len(image) : area[k - 1] = image[k]

Quiet == writing = None /\ saving = None
-----------------------------------------------------------------------------
(* Flash.                                                                  *)

\* A page of area to be erased, then programmed with data; done counts the
\* words programmed.
Rewrite(area, n, data) ==
    [area |-> area, page |-> n, data |-> data, done |-> 0]

\* The page that is being written after its next step.
Written(area) ==
    [a \in Addr |->
        IF a \div PageSize # writing.page THEN area[a]
        ELSE IF a % PageSize < writing.done THEN writing.data[a % PageSize]
        ELSE Erased]

\* The page buffer is cleared when its page has been written.
WriteStep ==
    /\ writing # None
    /\ IF writing.area = "staged"
       THEN staged' = Written(staged) /\ UNCHANGED app
       ELSE app' = Written(app) /\ UNCHANGED staged
    /\ IF writing.done < PageSize
       THEN /\ writing' = [writing EXCEPT !.done = @ + 1]
            /\ UNCHANGED page
       ELSE /\ writing' = None
            /\ page' = IF mode = "run" THEN Zeroes ELSE page
    /\ UNCHANGED <<mode, flag, saving, copied, pos, pending, next, input, crc,
                   knownVars>>

\* osm_platform_persist_commit: the configuration page is erased ...
Commit(f) == [to |-> f, erased |-> FALSE]

\* osm_persist_commit writes nothing if nothing has changed.
CommitChange(f) == IF f = flag THEN None ELSE Commit(f)

SaveErase ==
    /\ saving # None /\ ~saving.erased
    /\ flag' = Erased
    /\ saving' = [saving EXCEPT !.erased = TRUE]
    /\ UNCHANGED <<mode, staged, app, writing, copied, ramVars, knownVars>>

\* ... and programmed.
SaveEnd ==
    /\ saving # None /\ saving.erased
    /\ flag' = saving.to
    /\ saving' = None
    /\ UNCHANGED <<mode, staged, app, writing, copied, ramVars, knownVars>>

\* RAM and what was being done are lost.
Stop(to) ==
    /\ mode' = to /\ writing' = None /\ saving' = None /\ copied' = 0
    /\ pos' = -1 /\ page' = Zeroes /\ pending' = 0 /\ next' = 0
    /\ input' = <<>> /\ crc' = None

\* A page is not what was programmed, whatever is tried: the firmware drops
\* the chunk and goes on, the boot loader ends in error_state.
WriteFails ==
    /\ "flashfail" \in Faults
    /\ writing # None
    /\ IF mode = "run"
       THEN /\ writing' = None /\ input' = <<>>
            /\ UNCHANGED <<mode, saving, copied, pos, page, pending, next,
                           crc>>
       ELSE Stop("error")
    /\ UNCHANGED <<flashVars, knownVars>>

\* error_state resets when it has shown its lights.
ErrorState ==
    /\ mode = "error"
    /\ Stop("boot")
    /\ UNCHANGED <<flashVars, knownVars>>

\* Power is lost, or there is a reset, as by fw_reset; pending_fw lies across
\* two flash words.
PowerLoss ==
    /\ Stop("boot")
    /\ \/ UNCHANGED flag
       \/ /\ "tear" \in Faults /\ saving # None /\ saving.erased
          /\ flag' = Torn
    /\ UNCHANGED <<staged, app, knownVars>>
-----------------------------------------------------------------------------
(* The firmware.                                                           *)

Idle == mode = "run" /\ Quiet /\ input = <<>> /\ crc = None

\* fw+ with one byte; more are as many such calls, the rest of which is
\* dropped when one fails.
FwAdd(b) ==
    /\ Idle
    /\ input' = <<b>>
    /\ UNCHANGED <<mode, flashVars, jobVars, copied, pos, page, pending, next,
                   crc, knownVars>>

Adding == mode = "run" /\ Quiet /\ input # <<>>

\* osm_fw_ota_add_chunk of one byte: what does not fit ends the download ...
Fits == pos + 1 <= Max

AddTooBig ==
    /\ Adding
    /\ pos >= 0 /\ ~Fits
    /\ pos' = -1 /\ input' = <<>>
    /\ UNCHANGED <<mode, flashVars, jobVars, copied, page, pending, next, crc,
                   knownVars>>

\* Mutant: what was ready still is.
AddFirstKeepsFlag ==
    /\ Adding
    /\ pos < 0
    /\ pos' = 1
    /\ page' = [Blank EXCEPT ![0] = Head(input)]
    /\ input' = Tail(input)
    /\ UNCHANGED <<mode, flashVars, jobVars, copied, pending, next, crc,
                   knownVars>>

\* ... and the first byte starts one: what was ready is no longer.
AddFirst ==
    /\ Adding
    /\ pos < 0
    /\ pos' = 1
    /\ page' = [Blank EXCEPT ![0] = Head(input)]
    /\ pending' = 0 /\ saving' = CommitChange(0)
    /\ input' = Tail(input)
    /\ UNCHANGED <<mode, flashVars, writing, copied, next, crc, knownVars>>

AddByte ==
    /\ Adding
    /\ pos >= 0 /\ Fits
    /\ pos' = pos + 1
    /\ page' = [page EXCEPT ![pos % PageSize] = Head(input)]
    /\ writing' = IF (pos + 1) % PageSize = 0
                  THEN Rewrite("staged", pos \div PageSize, page') ELSE None
    /\ input' = Tail(input)
    /\ UNCHANGED <<mode, flashVars, saving, copied, pending, next, crc,
                   knownVars>>

\* osm_fw_ota_complete: the page begun is written.  -1 % FLASH_PAGE_SIZE is
\* not 0 and -1 / FLASH_PAGE_SIZE is: with no download the first page is.
Finish(image) ==
    /\ pos >= 0 \/ pending = 0 \/ "again" \in Faults
    /\ crc' = image
    /\ writing' = IF pos < 0 THEN Rewrite("staged", 0, page)
                  ELSE IF pos % PageSize # 0
                       THEN Rewrite("staged", pos \div PageSize, page)
                       ELSE None

FwFin(image) ==
    /\ Idle
    /\ Finish(image)
    /\ UNCHANGED <<mode, flashVars, saving, copied, pos, page, pending, next,
                   input, knownVars>>

Checking == mode = "run" /\ Quiet /\ crc # None

\* Mutant: the CRC is not compared.
CrcUnchecked == pos >= 0

CrcRight == pos = Len(crc) /\ Holds(staged, crc)

\* Mutant: the position is not reset.
AcceptKeepsPos ==
    /\ Checking
    /\ CrcRight
    /\ ready' = crc
    /\ pending' = pos /\ saving' = CommitChange(pos)
    /\ crc' = None
    /\ UNCHANGED <<mode, flashVars, writing, copied, pos, page, next, input,
                   ran>>

\* The CRC is right: the image is flagged.
Accept ==
    /\ Checking
    /\ CrcRight
    /\ ready' = crc
    /\ pending' = pos /\ saving' = CommitChange(pos)
    /\ pos' = -1 /\ crc' = None
    /\ UNCHANGED <<mode, flashVars, writing, copied, page, next, input, ran>>

Reject ==
    /\ Checking
    /\ pos >= 0
    /\ ~CrcRight
    /\ pos' = -1 /\ crc' = None
    /\ UNCHANGED <<mode, flashVars, jobVars, copied, page, pending, next,
                   input, knownVars>>

\* With no download the CRC is taken of 4 GB, which faults: error_state.
Crash ==
    /\ Checking
    /\ pos < 0
    /\ Stop("error")
    /\ UNCHANGED <<flashVars, knownVars>>

\* FW-, FW+ and FW@ by LoRaWAN, each of which is sent twice: a chunk that is
\* not the one expected is ignored, and so is the end of nothing.
LwStart ==
    /\ Idle
    /\ next' = 0 /\ pos' = -1
    /\ UNCHANGED <<mode, flashVars, jobVars, copied, page, pending, input, crc,
                   knownVars>>

LwChunk(id, bytes) ==
    /\ Idle
    /\ id = next
    /\ next' = id + 1
    /\ input' = bytes
    /\ UNCHANGED <<mode, flashVars, jobVars, copied, pos, page, pending, crc,
                   knownVars>>

LwComplete(image) ==
    /\ Idle
    /\ next # 0
    /\ next' = 0
    /\ Finish(image)
    /\ UNCHANGED <<mode, flashVars, saving, copied, pos, page, pending, input,
                   knownVars>>

\* osm_persist_commit of other settings.
Save ==
    /\ Idle
    /\ saving' = Commit(pending)
    /\ UNCHANGED <<mode, flashVars, writing, copied, ramVars, knownVars>>
-----------------------------------------------------------------------------
(* The boot loader.                                                        *)

Flagged == flag \notin {0, Erased}

BootUnflagged ==
    /\ mode = "boot" /\ Quiet
    /\ ~Flagged
    /\ mode' = "start"
    /\ UNCHANGED <<flashVars, jobVars, copied, ramVars, knownVars>>

\* With "No New Firmware!" the flag is cleared; that takes an update that was
\* begun while the flag was set.
BootFlagged ==
    /\ mode = "boot" /\ Quiet
    /\ Flagged
    /\ IF staged[0] = Erased
       THEN saving' = Commit(0) /\ mode' = "start" /\ UNCHANGED copied
       ELSE mode' = "copy" /\ copied' = 0 /\ UNCHANGED saving
    /\ UNCHANGED <<flashVars, writing, ramVars, knownVars>>

\* Mutant: the last page is forgotten if it is not full.
PageCountDown == IF flag = Torn THEN Pages ELSE flag \div PageSize

\* A torn flag is a size far beyond the flash.
PageCount == IF flag = Torn THEN Pages
             ELSE (flag + PageSize - 1) \div PageSize

CopyPage ==
    /\ mode = "copy" /\ Quiet
    /\ copied < PageCount
    /\ writing' = Rewrite("app", copied,
                          [i \in Offset |-> staged[copied * PageSize + i]])
    /\ copied' = copied + 1
    /\ UNCHANGED <<mode, flashVars, saving, ramVars, knownVars>>

Same == flag # Torn /\ \A a \in 0 .. flag - 1 : app[a] = staged[a]

\* The flag is cleared when all of it has been copied.  With a torn flag the
\* copy goes on over the staged image until it faults beyond the flash.
CopyEnd ==
    /\ mode = "copy" /\ Quiet
    /\ copied = PageCount
    /\ IF Same
       THEN /\ saving' = Commit(0) /\ mode' = "start"
            /\ UNCHANGED <<writing, copied, ramVars>>
       ELSE Stop("error")
    /\ staged' = IF flag # Torn THEN staged
                 ELSE [a \in Addr |-> IF a < PageSize THEN Erased
                                      ELSE staged[a]]
    /\ UNCHANGED <<app, flag, knownVars>>

\* run_firmware, which is refused when there is none, and osm_persistent_init:
\* a configuration page that is lost is taken for a new one.
Run ==
    /\ mode = "start" /\ Quiet
    /\ app[0] # Erased
    /\ mode' = "run"
    /\ pending' = IF flag = Erased THEN 0 ELSE flag
    /\ ran' = IF ready # None /\ Holds(app, ready) THEN ready ELSE ran
    /\ UNCHANGED <<flashVars, jobVars, copied, pos, page, next, input, crc,
                   ready>>
-----------------------------------------------------------------------------
Init ==
    /\ mode = "boot" /\ writing = None /\ saving = None /\ copied = 0
    /\ staged = [a \in Addr |-> Erased]
    /\ app = [a \in Addr |-> IF a < Len(Old) THEN Old[a + 1] ELSE Erased]
    /\ flag \in {0, Erased}
    /\ pos = -1 /\ page = Zeroes /\ pending = 0 /\ next = 0
    /\ input = <<>> /\ crc = None
    /\ ready = None /\ ran = Old

\* What a message by LoRaWAN carries: at most two words.
Chunk == {<<b>> : b \in Byte} \cup {<<b, d>> : b \in Byte, d \in Byte}

Firmware == \/ \E b \in Byte : FwAdd(b)
            \/ AddTooBig \/ AddFirst \/ AddByte
            \/ \E image \in Images : FwFin(image) \/ LwComplete(image)
            \/ Accept \/ Reject \/ Crash
            \/ LwStart
            \/ \E id \in 0 .. MaxChunks - 1, s \in Chunk : LwChunk(id, s)
            \/ Save

BootLoader == BootUnflagged \/ BootFlagged \/ CopyPage \/ CopyEnd \/ Run
                \/ ErrorState

Flash == WriteStep \/ SaveErase \/ SaveEnd

Next == Firmware \/ BootLoader \/ Flash \/ WriteFails \/ PowerLoss

Spec == Init /\ [][Next]_vars

\* The processor goes on with what it is doing.
FairSpec == Spec /\ WF_vars(BootLoader) /\ WF_vars(Flash)
-----------------------------------------------------------------------------
TypeOK ==
    /\ mode \in {"boot", "copy", "start", "run", "error"}
    /\ staged \in [Addr -> Word] /\ app \in [Addr -> Word]
    /\ flag \in Flag
    /\ writing \in [area : {"staged", "app"}, page : PageNo,
                    data : [Offset -> Word], done : 0 .. PageSize]
                     \cup {None}
    /\ saving \in [to : 0 .. Max, erased : BOOLEAN] \cup {None}
    /\ copied \in 0 .. Pages
    /\ pos \in -1 .. Max
    /\ page \in [Offset -> Word]
    /\ pending \in 0 .. Max
    /\ next \in 0 .. MaxChunks
    /\ input \in Seq(Byte)
    /\ crc \in Images \cup {None}
    /\ ready \in Images \cup {None} /\ ran \in Images \cup {Old}

\* pending_fw names a staged image only while it is all there and its CRC has
\* been found right: the boot loader, which looks at nothing else, may copy it
\* whenever power is lost.
ReadyIsStaged ==
    flag \in 1 .. Max =>
        ready # None /\ Len(ready) = flag /\ Holds(staged, ready)

\* At every moment a reset leads to an image that has run or been accepted:
\* it is in its place, or the flag is set and it is staged.
Recoverable ==
    \/ Holds(app, ran)
    \/ ready # None /\ Holds(app, ready)
    \/ flag \in 1 .. Max /\ ready # None /\ Holds(staged, ready)

\* The boot loader starts only what has run before or has been accepted.
StartsKnown ==
    [][mode # "run" /\ mode' = "run" =>
          Holds(app, ran) \/ (ready # None /\ Holds(app, ready))]_vars

\* Power that goes in error_state does no more than its own reset.
Disturbed ==
    []<><<PowerLoss /\ mode # "error">>_vars \/ []<><<WriteFails>>_vars

\* Left alone, an image that is flagged when the boot loader starts gets to
\* run.
NewIsRun ==
    \/ Disturbed
    \/ [](mode = "boot" /\ flag \in 1 .. Max =>
             <>(mode = "run" /\ ran = ready))
=============================================================================
