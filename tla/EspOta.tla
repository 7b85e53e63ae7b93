------------------------------- MODULE EspOta -------------------------------
(***************************************************************************)
(* The two application slots, the OTA metadata and the bootloader, as the  *)
(* firmware uses them through esp_ota_ops.h.  This is ESP-IDF, not code of *)
(* the repository: every definition here is an external one, modelled from *)
(* the calls in ota_update.cpp, sd_update.cpp and ota_boot.cpp and from    *)
(* what docs/OTA.md says the installed bootloader provides (rollback).     *)
(***************************************************************************)
EXTENDS Integers, Sequences

CONSTANTS SlotSize,     \* capacity of an application slot, in units of data
          Intact        \* the images ESP-IDF's own checks (checksum, hash) accept

(***************************************************************************)
(* An application file is a sequence of units.  The update code tells four *)
(* kinds apart: the two halves of a 36-byte ESP32-S3 application header, a *)
(* unit that completes the board/layout marker, and everything else.       *)
(***************************************************************************)
Units == {"magic", "chip", "board", "code"}
Header == <<"magic", "chip">>

ASSUME EspAssumption ==
  /\ SlotSize \in Nat
  /\ Len(Header) < SlotSize
  /\ Intact \subseteq Seq(Units)

Slots == {0, 1}         \* app0 at 0x10000, app1 at 0x650000
NoSlot == -1            \* the bootloader finds nothing to start
Other(s) == 1 - s

ImageStates == {"undefined", "new", "pending", "valid", "aborted"}

VARIABLES
  flash,      \* what each slot holds
  img_state,  \* the ota_img_state of each slot in the OTA metadata
  selected,   \* the slot the OTA metadata selects for the next boot
  running,    \* the slot this boot runs from, NoSlot when nothing boots
  layout      \* the partition table is the committed OTA v1 pair

espVars == <<flash, img_state, selected, running, layout>>

EspTypeOK ==
  /\ flash \in [Slots -> Seq(Units)]
  /\ img_state \in [Slots -> ImageStates]
  /\ selected \in Slots
  /\ running \in Slots \cup {NoSlot}
  /\ layout \in BOOLEAN

\* Does this sequence of units carry the marker of this board and layout?
HasMarker(img) == \E i \in 1..Len(img) : img[i] = "board"

\* An image that runs on this board: accepted by ESP-IDF and built for it.
Genuine(img) == img \in Intact /\ HasMarker(img)

(***************************************************************************)
(* First boot: the image was installed over USB, so it is genuine and has  *)
(* no OTA state; the other slot holds anything an earlier session left.    *)
(***************************************************************************)
EspInit(Leftovers) ==
  /\ running = 0
  /\ selected = 0
  /\ \E app \in Intact, left \in Leftovers :
       HasMarker(app) /\ flash = [s \in Slots |-> IF s = 0 THEN app ELSE left]
  /\ img_state = [s \in Slots |-> "undefined"]
  /\ layout \in BOOLEAN

\* esp_ota_get_next_update_partition(nullptr): never the running slot.
Target == Other(running)

\* esp_ota_begin refuses while the running image awaits confirmation.
EspBeginAllowed == img_state[running] # "pending"

\* esp_ota_end, then esp_ota_set_boot_partition: the image in the slot verifies
\* and the slot is selected.
EspSelect(s, image) ==
  /\ image \in Intact
  /\ selected' = s
  /\ img_state' = [img_state EXCEPT ![s] = "new"]

\* esp_ota_mark_app_valid_cancel_rollback
EspConfirm == img_state' = [img_state EXCEPT ![running] = "valid"]

(***************************************************************************)
(* Reset or power-up.  An image started once and never confirmed is        *)
(* aborted; the selected slot is started if it may be, else the other one. *)
(***************************************************************************)
EspBoot ==
  LET judged == IF img_state[selected] = "pending"
                THEN [img_state EXCEPT ![selected] = "aborted"]
                ELSE img_state
      bootable == {s \in Slots : judged[s] # "aborted" /\ flash[s] \in Intact}
      choice == IF selected \in bootable THEN selected ELSE Other(selected)
  IN IF choice \in bootable
     THEN /\ running' = choice
          /\ selected' = choice
          /\ img_state' = [judged EXCEPT ![choice] =
                             IF @ = "new" THEN "pending" ELSE @]
     ELSE /\ running' = NoSlot
          /\ img_state' = judged
          /\ UNCHANGED selected
=============================================================================
