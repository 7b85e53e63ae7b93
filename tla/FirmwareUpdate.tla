--------------------------- MODULE FirmwareUpdate ---------------------------
(***************************************************************************)
(* The firmware update as a whole: loop() of OTA-bot-Mochi.ino drives the  *)
(* two updaters and the health check from one task, while the audio worker *)
(* shares the card, time passes, cards are swapped and power is lost at    *)
(* any step.                                                               *)
(*                                                                         *)
(* One loop() iteration takes two steps here, "top" (ota_boot_poll) and    *)
(* "service" (the branch that serves the session).  A firmware upload is   *)
(* served inside one handleClient() call, so it keeps the loop at          *)
(* "request", or at "deadline" between a part event and the deadline test  *)
(* that ends upload(); only the rest of the world moves meanwhile.         *)
(***************************************************************************)
EXTENDS OtaUpdate, SdUpdate, OtaBoot

CONSTANTS Bodies,      \* what an uploaded file may hold
          Leftovers    \* what the second slot may hold at first boot

ASSUME BodiesAssumption == Bodies \subseteq Seq(Units) /\ Leftovers \subseteq Seq(Units)

VARIABLE pc            \* where the main task is in loop()

vars == <<espVars, otaVars, sdVars, card, sd_owner, bootVars, pc>>

TypeOK ==
  /\ EspTypeOK /\ OtaTypeOK /\ SdTypeOK /\ OtaBootTypeOK
  /\ pc \in {"top", "service", "poll", "request", "deadline"}

Init ==
  /\ EspInit(Leftovers)
  /\ OtaInit /\ SdInit /\ OtaBootInit
  /\ pc = "top"

-----------------------------------------------------------------------------
(* Groups left alone by a step *)

sessionVars == <<otaVars, sdVars>>

\* A step of handleClient() on an upload leaves everything else alone.
OutsideUpload ==
  UNCHANGED <<running, layout, sdVars, card, sd_owner, bootVars>>

-----------------------------------------------------------------------------
(* The main loop *)

Running == running # NoSlot

\* loop(): ota_boot_poll comes first, whatever the mode.
LoopTop ==
  /\ Running /\ pc = "top"
  /\ OtaBootPoll
  /\ pc' = "service"
  /\ UNCHANGED <<flash, selected, running, layout, sessionVars, card, sd_owner,
                 screen_ready, boot_ready>>

\* sd_update_screen_poll: a tap first, then the poll, in one call.
SdService(Step) ==
  /\ Running
  /\ Step
  /\ UNCHANGED <<otaVars, card, bootVars>>

SdTap(Step) ==
  /\ pc = "service" /\ sd.active
  /\ SdService(Step /\ UNCHANGED espVars)
  /\ pc' = "poll"

\* Back, which sd_update_stop ignores once the boot slot is selected.
SdBack == SdTap(SdStop)

\* START: the poll of the same call writes the first chunk.
SdStart == SdTap(SdConfirm)

\* sd_update_poll, after whatever the tap did.
SdPollStep ==
  /\ pc = "poll" \/ (pc = "service" /\ sd.active)
  /\ SdService(SdPoll)
  /\ pc' = "top"

\* ota_screen_poll and ota_poll around an iteration that serves no upload.
OtaService(Step) ==
  /\ Running /\ pc = "service"
  /\ ~sd.active /\ ota.active
  /\ Step
  /\ pc' = "top"
  /\ UNCHANGED <<espVars, sdVars, card, sd_owner, bootVars>>

\* Back works unless a transfer is running.
OtaBack ==
  OtaService(~ota.receiving /\ ~ota.success /\ OtaStop)

\* The deadline, or a new LAN address for which no token can be drawn.
OtaCloses ==
  OtaService(~ota.success /\ (Expired \/ ota.lan) /\ OtaStop)

\* No client: only the tail of ota_poll.
OtaIdle ==
  OtaService(/\ ~ota.success /\ ~Expired
             /\ ota' = PollTail(ota)
             /\ UNCHANGED <<ota_image, request>>)

\* Waiting out the second before the restart.
OtaRestartWait ==
  OtaService(ota.success /\ ota.reboot_age < RestartTicks /\ UNCHANGED otaVars)

\* POST /settings/action firmware
OtaFirmwareMode == OtaService(SettingsFirmware)

\* handleClient() finds a client that posts to /update.
UploadArrives ==
  /\ Running /\ pc = "service"
  /\ ~sd.active /\ ota.active
  /\ ~ota.success /\ ~Expired /\ ota.wifi_started
  /\ RequestArrives
  /\ pc' = "request"
  /\ UNCHANGED <<espVars, sdVars, card, sd_owner, bootVars>>

\* The parser's next part event; upload() refuses it or goes on to its last test.
UploadEvent ==
  /\ Running /\ pc = "request"
  /\ \/ \E body \in Bodies, declared \in 0..SlotSize + 1, named \in BOOLEAN :
          PartStart(body, declared, named)
     \/ \E size \in 1..SlotSize : PartWrite(size)
     \/ PartEnd
     \/ PartAborted
  /\ pc' = IF Authorized /\ ~ota.faces THEN "deadline" ELSE "request"
  /\ UNCHANGED <<img_state, selected>>
  /\ OutsideUpload

UploadChecksDeadline ==
  /\ Running /\ pc = "deadline"
  /\ UploadDeadline
  /\ pc' = "request"
  /\ UNCHANGED <<flash, img_state, selected>>
  /\ OutsideUpload

\* handleClient() returns, with or without a call of finish().
UploadReturns ==
  /\ Running /\ pc = "request"
  /\ Finish \/ RequestDropped
  /\ pc' = "top"
  /\ OutsideUpload

-----------------------------------------------------------------------------
(* Normal operation: no session is open *)

Normal(Step) ==
  /\ Running /\ pc = "service"
  /\ ~sd.active /\ ~ota.active
  /\ Step
  /\ pc' = "top"
  /\ UNCHANGED <<espVars, bootVars, card, sd_owner>>

\* Settings -> Firmware update, or the settings page in faces mode.
OpenOta ==
  Normal(/\ screen_ready
         /\ \E faces \in BOOLEAN : OtaBegin(faces)
         /\ UNCHANGED sdVars)

\* Settings -> Firmware from SD
OpenSd ==
  Normal(screen_ready /\ SdBegin /\ UNCHANGED otaVars)

\* An iteration that opens no session.
NormalLoop == Normal(UNCHANGED sessionVars)

-----------------------------------------------------------------------------
(* Restarts and the rest of the world *)

\* All RAM is lost; the slots and the OTA metadata survive.
Reset ==
  /\ EspBoot
  /\ SetUp
  /\ ota' = Closed /\ ota_image' = FreshCheck /\ request' = NoRequest
  /\ sd' = SdClosed /\ sd_image' = FreshCheck
  /\ sd_owner' = "None"
  /\ pc' = "top"
  /\ UNCHANGED <<flash, layout, card>>

\* ESP.restart() a second after success.
Restart ==
  /\ Running
  /\ \/ /\ pc \in {"service", "poll"}
        /\ sd.active /\ sd.phase = "Success" /\ sd.reboot_age >= SdRestartTicks
     \/ /\ pc = "service"
        /\ ~sd.active /\ ota.active /\ ota.success /\ ota.reboot_age >= RestartTicks
  /\ Reset

\* Power loss, the RESET key, a brown-out, a panic or a USB reboot command.
PowerCycle == Running /\ Reset

Aged(age, limit) == IF age < limit THEN age + 1 ELSE age

\* millis() advances; every difference the code takes grows, up to the
\* largest value any test compares it with.
Tick ==
  /\ Running
  /\ ota' = [ota EXCEPT !.age = IF ota.active THEN Aged(@, SessionTicks) ELSE @,
                        !.reboot_age = IF ota.success THEN Aged(@, RestartTicks) ELSE @]
  /\ sd' = [sd EXCEPT !.age = IF sd.active THEN Aged(@, SdSessionTicks) ELSE @,
                      !.reboot_age = IF sd.phase = "Success"
                                     THEN Aged(@, SdRestartTicks) ELSE @]
  /\ health' = [health EXCEPT !.age = IF health.observing /\ ~health.checked
                                      THEN Aged(@, HealthyTicks) ELSE @]
  /\ <<ota', sd', health'>> # <<ota, sd, health>>
  /\ UNCHANGED <<espVars, ota_image, request, sd_image, card, sd_owner,
                 screen_ready, boot_ready, pc>>

\* The audio worker and whoever handles the card.
Surroundings ==
  /\ Running
  /\ \/ (AudioTakesCard \/ AudioFreesCard) /\ UNCHANGED card
     \/ CardSwapped /\ UNCHANGED sd_owner
  /\ UNCHANGED <<espVars, sessionVars, bootVars, pc>>

Main ==
  \/ LoopTop
  \/ SdPollStep \/ SdBack \/ SdStart
  \/ OtaBack \/ OtaCloses \/ OtaIdle \/ OtaRestartWait \/ OtaFirmwareMode
  \/ UploadArrives \/ UploadEvent \/ UploadChecksDeadline \/ UploadReturns
  \/ OpenOta \/ OpenSd \/ NormalLoop
  \/ Restart

Next == Main \/ Tick \/ Surroundings \/ PowerCycle

Spec == Init /\ [][Next]_vars

-----------------------------------------------------------------------------
(* Fairness: loop() is called again and again, handleClient() returns (its *)
(* parser times out on a silent client), and time passes.  Nothing is      *)
(* assumed of the user, the client, the audio worker or the power supply.  *)

ServeUpload == UploadEvent \/ UploadChecksDeadline \/ UploadReturns

ServeSession ==
  \/ SdPollStep \/ SdBack \/ SdStart
  \/ OtaBack \/ OtaCloses \/ OtaIdle \/ OtaRestartWait \/ OtaFirmwareMode
  \/ UploadArrives \/ OpenOta \/ OpenSd \/ NormalLoop \/ Restart

Fairness ==
  /\ WF_vars(LoopTop) /\ WF_vars(ServeSession) /\ WF_vars(ServeUpload)
  /\ WF_vars(Tick)

FairSpec == Spec /\ Fairness

-----------------------------------------------------------------------------
(* Safety *)

\* Whatever was interrupted, mixed up or cut off, the slot the next reset
\* starts holds a whole image of this board.
SelectedIsGenuine == Running /\ Genuine(flash[selected])

OnTrial(s) == img_state[s] \in {"new", "pending"}

\* An image on trial never costs the image it replaces: until it is confirmed
\* the other slot still holds the one the bootloader returns to.
FallbackKept ==
  OnTrial(selected) =>
    /\ Genuine(flash[Other(selected)])
    /\ img_state[Other(selected)] \in {"undefined", "valid"}

\* Success is reported exactly when the boot slot was changed: between boots
\* no other step of either updater moves the selection, and none that moves
\* it is reported as a failure or lost in a closed session.
SuccessMeansSelected ==
  Running => (selected # running <=> ota.success \/ sd.phase = "Success")

\* The slots at every step, and what is said of them.
SlotsSafe == SelectedIsGenuine /\ FallbackKept /\ SuccessMeansSelected

\* The updaters exclude each other although ota_begin never asks for the other
\* one, so the spare slot has at most one writer.
OneSession == ~(ota.active /\ sd.active) /\ ~(ota.handle_open /\ sd.handle_open)

\* The card is read and written about under the lease only, and the lease never
\* outlives the session that took it.
LeaseHeld ==
  /\ sd.owned <=> sd_owner = "Update"
  /\ sd.phase \in {"Checking", "Ready", "Writing"} <=> sd.owned

\* ota_update.cpp:322: "A malformed/disconnected request must never retain an
\* open flash handle."  Between requests the handle is open only for a file
\* that arrived whole, or until the next poll of an expired session; nor is
\* Back disabled by a transfer that is no longer under way.
HandleNotRetained ==
  pc \in {"top", "service", "poll"} =>
    /\ ota.handle_open => ota.file_done \/ Expired
    /\ ota.receiving => Expired

\* The small header is held back and written later: still every unit of the
\* upload reaches the slot once and in order, however it is cut into chunks.
UploadWrittenInOrder ==
  ota.handle_open /\ ota.receiving /\ request.part /\ ~request.cut =>
    flash[Target] = SubSeq(request.body, 1, request.sent)

\* An upload, from its first part to the request's end.
UploadRight == HandleNotRetained /\ UploadWrittenInOrder

\* Nothing but an ESP32-S3 application is ever written, not even its first bytes.
OnlyApplicationsWritten ==
  (ota.handle_open /\ ota.receiving) \/ sd.handle_open =>
    Take(flash[Target], Len(Header)) = Header

\* The second reading of the card is what the slot holds, even when the card
\* was changed after the first one, and the check saw all of it.
CardWrittenAsChecked ==
  sd.handle_open =>
    /\ Len(flash[Target]) = sd.written /\ sd_image.bytes = sd.written
    /\ sd_image.board_found <=> HasMarker(flash[Target])

\* An installation from the card, from the lease to the last chunk.
CardRight == LeaseHeld /\ OnlyApplicationsWritten /\ CardWrittenAsChecked

-----------------------------------------------------------------------------
(* The inductive invariant behind the safety properties *)

\* The slots and the OTA metadata: the running image is whole, a selected one
\* too, and a trial leaves the other slot and its state alone.
SlotsInv ==
  /\ Running
  /\ Genuine(flash[running]) /\ Genuine(flash[selected])
  /\ img_state[running] \in {"undefined", "valid", "pending"}
  /\ selected # running =>
       img_state[selected] = "new" /\ img_state[running] # "pending"
  /\ img_state[running] = "pending" =>
       Genuine(flash[Target]) /\ img_state[Target] \in {"undefined", "valid"}

\* The sessions: at most one, which owns every open handle and the selection.
SessionInv ==
  /\ ~(ota.active /\ sd.active)
  /\ ~ota.active => ~ota.handle_open /\ ~ota.success
  /\ ~sd.active => sd.phase = "Idle"
  /\ sd.handle_open => sd.phase = "Writing"
  /\ ota.success => ~ota.handle_open
  /\ ota.receiving => ota.attempted /\ ~ota.error
  /\ ota.file_done => ota.attempted /\ ~ota.receiving
  /\ ota.success \/ sd.phase = "Success" <=> selected # running
  /\ ota.handle_open \/ sd.handle_open => img_state[running] # "pending"
  /\ pc \in {"request", "deadline"} => ota.active /\ ~ota.success

\* The checker: what it found is in the header it keeps or in the spare slot.
ImageInv ==
  /\ ota.receiving /\ ~ota.handle_open =>
       /\ ota_image.bytes = Len(ota_image.header)
       /\ Len(ota_image.header) < Len(Header)
       /\ ota_image.board_found => HasMarker(ota_image.header)
  /\ ota.handle_open /\ ota_image.board_found => HasMarker(flash[Target])
  /\ sd.phase = "Writing" /\ ~sd.handle_open => ~sd_image.board_found
  /\ sd.handle_open /\ sd_image.board_found => HasMarker(flash[Target])

\* The card: the lease goes with the session, the second reading starts from nothing, and the
\* spare slot is what it has written so far.
CardInv ==
  /\ LeaseHeld /\ CardWrittenAsChecked
  /\ sd.phase \in {"Waiting", "Checking", "Ready"} => sd.written = 0
  /\ sd.phase \in {"Ready", "Writing"} => sd.checked = sd.total
  /\ sd.phase = "Writing" /\ ~sd.handle_open => sd.written = 0 /\ sd_image = FreshCheck
  /\ sd.handle_open => Take(flash[Target], Len(Header)) = Header

\* The upload: it was admitted, and all it has sent is in the slot or still held back.
UploadInv ==
  /\ ota.handle_open => ota.receiving \/ ota.file_done
  /\ ota.receiving /\ ~Expired =>
       /\ pc \in {"request", "deadline"}
       /\ request.auth /\ ota.wifi_started /\ ~ota.faces
       /\ request.part /\ ~request.cut
  /\ request.part => request.sent <= Len(request.body)
  /\ ota.receiving /\ request.part /\ ~request.cut =>
       SubSeq(request.body, 1, request.sent) =
         IF ota.handle_open THEN flash[Target] ELSE ota_image.header
  /\ ota.handle_open /\ ota.receiving => Take(flash[Target], Len(Header)) = Header

IndInv == TypeOK /\ SlotsInv /\ SessionInv /\ ImageInv /\ CardInv /\ UploadInv

-----------------------------------------------------------------------------
(* Steps *)

\* No step rewrites the running image or one that was already selected.
OnlySpareWritten ==
  [][\A s \in Slots : flash'[s] # flash[s] => s # running /\ s # selected]_vars

\* docs/OTA.md:45: "Merely opening the screen or inserting the card never writes
\* firmware."  A slot changes in an admitted upload or after the confirmation
\* of a card whose whole file passed the check.
WritesAreAskedFor ==
  [][flash' # flash =>
       \/ ota.receiving /\ request.auth /\ ~ota.faces
       \/ sd.phase = "Writing" /\ sd.checked = sd.total]_vars

\* Nothing but a restart ends a session that has selected a new image.
SuccessIsFinal ==
  [][ota.success \/ sd.phase = "Success" =>
       (ota'.success \/ sd'.phase = "Success") \/ running' = selected]_vars

\* What a step may do to the slots and to a success.
StepsSafe == OnlySpareWritten /\ WritesAreAskedFor /\ SuccessIsFinal

-----------------------------------------------------------------------------
(* Refinement: the device as a two-slot update *)

AB == INSTANCE AbUpdate WITH
        genuine <- {s \in Slots : Genuine(flash[s])},
        trial <- CASE img_state[selected] = "new" -> "armed"
                   [] img_state[selected] = "pending" -> "running"
                   [] OTHER -> "none"

ImplementsAbUpdate == AB!AbSpec

-----------------------------------------------------------------------------
(* Liveness *)

\* A maintenance session over the network ends by itself, however the client behaves; waiting
\* for the card is bounded even if the audio worker never lets go, and the card goes back to it.
Busy == ota.active \/ sd.phase = "Waiting" \/ sd_owner = "Update"
SessionsEnd == Busy ~> ~Busy

\* A trial of an image that came up healthy is decided.
TrialDecided ==
  Running /\ img_state[running] = "pending" /\ Healthy ~>
    img_state[running] # "pending" \/ health.checked
=============================================================================
