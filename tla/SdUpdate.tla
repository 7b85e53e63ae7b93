------------------------------ MODULE SdUpdate ------------------------------
(***************************************************************************)
(* sd_update.cpp and sd_owner.h: installation from the microSD card.  The  *)
(* card is shared with the audio worker through one atomic lease, so a     *)
(* session first waits for the worker to let go, then reads the whole file *)
(* once (Checking), waits for the owner's confirmation (Ready) and reads   *)
(* it again while writing the inactive slot (Writing).                     *)
(*                                                                         *)
(* The audio worker appears here only as the other user of the lease: it   *)
(* may take it whenever it is free and keep it as long as it likes, which  *)
(* covers a worker that stalls.  What makes it let go is AudioOutput's.    *)
(***************************************************************************)
EXTENDS OtaImage

CONSTANTS SdSessionTicks,  \* 300000 ms
          SdWaitTicks,     \* 10000 ms
          SdRestartTicks,  \* 1000 ms
          SdChunk,         \* 4096 bytes, in units
          Cards            \* what the update path of a card may hold

NoFile == <<>>             \* no card, or no file at the update path

ASSUME SdAssumption ==
  /\ SdSessionTicks \in Nat /\ SdWaitTicks \in Nat \ {0}
  /\ SdWaitTicks <= SdSessionTicks
  /\ SdRestartTicks \in Nat \ {0}
  /\ SdChunk \in Nat /\ SdChunk >= Len(Header)
  /\ Cards \subseteq Seq(Units)

VARIABLES
  sd,        \* SdUpdateStatus and the file's own statics
  sd_image,  \* OtaImageCheck image
  card,      \* the file at sd_update_path() on the inserted card
  sd_owner   \* the lease: std::atomic<SdOwner>

sdVars == <<sd, sd_image>>

Phases ==
  {"Idle", "Waiting", "Checking", "Ready", "Writing", "Success", "Failed"}

SdClosed ==
  [active |-> FALSE, phase |-> "Idle", total |-> 0, checked |-> 0,
   written |-> 0, owned |-> FALSE, handle_open |-> FALSE, age |-> 0,
   reboot_age |-> 0]

SdStates ==
  [active : BOOLEAN, phase : Phases, total : Nat, checked : Nat,
   written : Nat, owned : BOOLEAN, handle_open : BOOLEAN,
   age : 0..SdSessionTicks, reboot_age : 0..SdRestartTicks]

SdTypeOK ==
  /\ sd \in SdStates
  /\ sd_image \in OtaImageChecks
  /\ card \in Cards \cup {NoFile}
  /\ sd_owner \in {"None", "Audio", "Update"}

SdInit ==
  /\ sd = SdClosed
  /\ sd_image = FreshCheck
  /\ card \in Cards \cup {NoFile}
  /\ sd_owner = "None"

-----------------------------------------------------------------------------
(* The lease and the audio worker *)

\* sd_acquire(Update): a compare-and-swap from None.
SdAcquire == sd_owner = "None" /\ sd_owner' = "Update"

\* release_card: close, unmount, give the lease back if it is ours.
ReleaseCard == sd_owner' = IF sd.owned /\ sd_owner = "Update" THEN "None" ELSE sd_owner

\* The worker's ensure_mounted and release, and its failed reads.
AudioTakesCard == sd_owner = "None" /\ sd_owner' = "Audio"
AudioFreesCard == sd_owner = "Audio" /\ sd_owner' = "None"

\* Somebody takes the card out or puts another one in.
CardSwapped ==
  \E other \in Cards \cup {NoFile} :
    /\ other # card
    /\ card' = other

-----------------------------------------------------------------------------
(* The session *)

\* fail: abort the handle, release the card, keep the session open.
SdFail ==
  /\ sd' = [sd EXCEPT !.phase = "Failed", !.handle_open = FALSE, !.owned = FALSE]
  /\ ReleaseCard
  /\ UNCHANGED sd_image

\* sd_update_begin, which compatible_slots() may fail at once.  The sound_init
\* it calls asks the worker to let go of the card.
SdBegin ==
  /\ ~sd.active
  /\ sd' = [SdClosed EXCEPT !.active = TRUE,
                            !.phase = IF layout THEN "Waiting" ELSE "Failed"]
  /\ UNCHANGED <<sd_image, sd_owner>>

\* Mutant of SdConfirm: the checker goes on where the first reading ended.
SdConfirmKeepsCheck ==
  /\ sd.phase = "Ready"
  /\ sd' = [sd EXCEPT !.phase = "Writing"]
  /\ UNCHANGED <<sd_image, sd_owner>>

\* sd_update_confirm: only a checked image, and the check starts over.
SdConfirm ==
  /\ sd.phase = "Ready"
  /\ sd' = [sd EXCEPT !.phase = "Writing"]
  /\ sd_image' = FreshCheck
  /\ UNCHANGED sd_owner

\* sd_update_stop: nothing once the boot slot is selected.
SdStop ==
  /\ IF sd.phase = "Success"
     THEN UNCHANGED <<sd, sd_owner>>
     ELSE ReleaseCard /\ sd' = SdClosed
  /\ UNCHANGED sd_image

\* open_card: not while audio holds the lease.
OpenCard ==
  \/ /\ sd_owner # "None"
     /\ UNCHANGED <<sd, sd_image, sd_owner>>
  \/ /\ SdAcquire
     /\ Len(card) \in MinSize..SlotSize
     /\ sd_image' = FreshCheck
     /\ sd' = [sd EXCEPT !.owned = TRUE, !.total = Len(card), !.phase = "Checking"]
  \/ /\ sd_owner = "None"      \* acquire, fail and release: no mount or no file,
     /\ \/ sd' = [sd EXCEPT !.phase = "Failed"]
        \/ /\ Len(card) \notin MinSize..SlotSize            \* or a wrong size
           /\ sd' = [sd EXCEPT !.phase = "Failed", !.total = Len(card)]
     /\ UNCHANGED <<sd_image, sd_owner>>

Position == IF sd.phase = "Writing" THEN sd.written ELSE sd.checked

\* transfer's bounded read: the next chunk of what the card holds by now.
NextChunk ==
  LET left == sd.total - Position
  IN SubSeq(card, Position + 1, Position + (IF left < SdChunk THEN left ELSE SdChunk))

\* The file is still as long as it was and the read succeeds.
Readable == Len(card) = sd.total /\ Position < sd.total

\* transfer while Checking.
CheckChunk ==
  LET fed == Feed(sd_image, NextChunk)
      checked == sd.checked + Len(NextChunk)
  IN /\ sd.phase = "Checking"
     /\ Readable
     /\ AppHeader(fed)
     /\ checked = sd.total => fed.board_found
     /\ sd_image' = fed
     /\ sd' = [sd EXCEPT !.checked = checked,
                         !.phase = IF checked = sd.total THEN "Ready" ELSE @]
     /\ UNCHANGED <<sd_owner, espVars>>

\* transfer while Writing, up to the last chunk but one.
WriteChunk ==
  LET fed == Feed(sd_image, NextChunk)
      start == IF sd.handle_open THEN flash[Target] ELSE <<>>
  IN /\ sd.phase = "Writing"
     /\ Readable
     /\ AppHeader(fed)
     /\ sd.handle_open \/ EspBeginAllowed
     /\ sd.written + Len(NextChunk) < sd.total
     /\ sd_image' = fed
     /\ flash' = [flash EXCEPT ![Target] = start \o NextChunk]
     /\ sd' = [sd EXCEPT !.handle_open = TRUE, !.written = @ + Len(NextChunk)]
     /\ UNCHANGED <<sd_owner, img_state, selected, running, layout>>

\* Mutant of Compatible: what the first reading found is trusted.
CompatibleByFirstReading(fed) == TRUE

\* finish's own check of everything that was written.
Compatible(fed) == fed.board_found /\ fed.bytes = sd.total

\* transfer with the last chunk, and finish(): check again, verify, select.
WriteLast ==
  LET fed == Feed(sd_image, NextChunk)
      start == IF sd.handle_open THEN flash[Target] ELSE <<>>
      image == start \o NextChunk
  IN /\ sd.phase = "Writing"
     /\ Readable
     /\ AppHeader(fed)
     /\ sd.handle_open \/ EspBeginAllowed
     /\ sd.written + Len(NextChunk) = sd.total
     /\ sd_image' = fed
     /\ flash' = [flash EXCEPT ![Target] = image]
     /\ \/ /\ Compatible(fed)
           /\ EspSelect(Target, image)
           /\ ReleaseCard
           /\ sd' = [sd EXCEPT !.phase = "Success", !.written = sd.total,
                               !.handle_open = FALSE, !.owned = FALSE]
        \/ /\ ReleaseCard                       \* a check or an ESP-IDF call fails
           /\ sd' = [sd EXCEPT !.phase = "Failed", !.written = sd.total,
                               !.handle_open = FALSE, !.owned = FALSE]
           /\ UNCHANGED <<img_state, selected>>
     /\ UNCHANGED <<running, layout>>

\* transfer's fail calls: the handle is aborted, the card released.
TransferFail(s) ==
  /\ sd' = [s EXCEPT !.phase = "Failed", !.handle_open = FALSE, !.owned = FALSE]
  /\ ReleaseCard
  /\ UNCHANGED <<img_state, selected, running, layout>>

\* The file's size changed, or the read fails.
ReadFails ==
  /\ sd.phase \in {"Checking", "Writing"}
  /\ TransferFail(sd)
  /\ UNCHANGED <<sd_image, flash>>

\* No application, or all of it checked without the marker or a way back.
CheckFails ==
  LET fed == Feed(sd_image, NextChunk)
      checked == sd.checked + Len(NextChunk)
  IN /\ sd.phase = "Checking"
     /\ Readable
     /\ sd_image' = fed
     /\ \/ ~AppHeader(fed) /\ TransferFail(sd)
        \/ /\ AppHeader(fed) /\ checked = sd.total
           /\ TransferFail([sd EXCEPT !.checked = checked])
     /\ UNCHANGED flash

\* No application, or esp_ota_begin or esp_ota_write fails.
WriteFails ==
  /\ sd.phase = "Writing"
  /\ Readable
  /\ sd_image' = Feed(sd_image, NextChunk)
  /\ TransferFail(sd)
  /\ \/ UNCHANGED flash
     \/ /\ AppHeader(Feed(sd_image, NextChunk))
        /\ sd.handle_open \/ EspBeginAllowed
        /\ \E kept \in 0..Len(NextChunk) :
             flash' = [flash EXCEPT ![Target] =
                         (IF sd.handle_open THEN @ ELSE <<>>) \o Take(NextChunk, kept)]

\* sd_update_poll without its restart, which FirmwareUpdate adds.
SdPoll ==
  \/ /\ ~sd.active \/ sd.phase \in {"Failed", "Success", "Ready"}
     /\ sd.phase = "Ready" => sd.age < SdSessionTicks
     /\ sd.phase = "Success" => sd.reboot_age < SdRestartTicks
     /\ UNCHANGED <<sdVars, sd_owner, espVars>>
  \/ /\ sd.phase \in {"Waiting", "Checking", "Ready", "Writing"}
     /\ sd.age >= SdSessionTicks
     /\ SdFail /\ UNCHANGED espVars
  \/ /\ sd.phase = "Waiting" /\ sd.age < SdSessionTicks
     /\ IF sd.age >= SdWaitTicks THEN SdFail ELSE OpenCard
     /\ UNCHANGED espVars
  \/ /\ sd.phase \in {"Checking", "Writing"} /\ sd.age < SdSessionTicks
     /\ \/ CheckChunk \/ WriteChunk \/ WriteLast
        \/ ReadFails \/ CheckFails \/ WriteFails
=============================================================================
