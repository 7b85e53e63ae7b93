----------------------------- MODULE OtaUpdate -----------------------------
(***************************************************************************)
(* ota_update.cpp: the temporary maintenance session.  A session is opened *)
(* from the menu, serves settings pages ("faces" mode) or one firmware     *)
(* upload, and ends by Back, by its deadline or by a restart.  The web     *)
(* server calls upload() for every event of a multipart request and then   *)
(* finish(), all inside one handleClient() call of the main loop.          *)
(*                                                                         *)
(* Each operator below is the effect of one handler on this module's       *)
(* variables and on the slots.  FirmwareUpdate places the handlers in the  *)
(* main loop and adds the card updater, the audio worker and power.        *)
(***************************************************************************)
EXTENDS OtaImage

CONSTANTS SessionTicks,  \* SESSION_MS, five minutes
          RestartTicks,  \* the second between success and ESP.restart()
          MaxParts       \* file parts in one request

ASSUME OtaAssumption ==
  /\ SessionTicks \in Nat \ {0}
  /\ RestartTicks \in Nat \ {0}
  /\ MaxParts \in Nat \ {0}

VARIABLES
  ota,        \* OtaStatus and the file's own statics
  ota_image,  \* OtaImageCheck image
  request     \* the multipart request handleClient() is working through

otaVars == <<ota, ota_image, request>>

\* OtaStatus{} with the statics ota_stop() clears.  error stands for the
\* message, age for millis() - started, reboot_age for now - reboot_at.
Closed ==
  [active |-> FALSE, faces |-> FALSE, lan |-> FALSE, receiving |-> FALSE,
   success |-> FALSE, error |-> FALSE, received |-> 0, total |-> 0,
   attempted |-> FALSE, file_done |-> FALSE, handle_open |-> FALSE,
   wifi_started |-> FALSE, age |-> 0, reboot_age |-> 0]

\* auth: the request came through the session's own address with the
\* session's token.  part: a file part is open, of which body[1..sent] was
\* delivered.  cut: server.client().stop() closed the connection.
NoRequest == [auth |-> FALSE, part |-> FALSE, body |-> <<>>, sent |-> 0,
              parts |-> 0, cut |-> FALSE]

OtaStates ==
  [active : BOOLEAN, faces : BOOLEAN, lan : BOOLEAN, receiving : BOOLEAN,
   success : BOOLEAN, error : BOOLEAN, received : Nat, total : 0..SlotSize,
   attempted : BOOLEAN, file_done : BOOLEAN, handle_open : BOOLEAN,
   wifi_started : BOOLEAN, age : 0..SessionTicks, reboot_age : 0..RestartTicks]

Requests ==
  [auth : BOOLEAN, part : BOOLEAN, body : Seq(Units), sent : Nat,
   parts : 0..MaxParts, cut : BOOLEAN]

OtaTypeOK ==
  /\ ota \in OtaStates
  /\ ota_image \in OtaImageChecks
  /\ request \in Requests

OtaInit ==
  /\ ota = Closed
  /\ ota_image = FreshCheck
  /\ request = NoRequest

-----------------------------------------------------------------------------
(* Helpers on the session record *)

\* Mutant of Failed: the transfer is still under way.
FailedKeepsReceiving(o) == [o EXCEPT !.handle_open = FALSE, !.error = TRUE]

\* fail: abort the handle and keep the error; the boot slot is untouched.
Failed(o) == [o EXCEPT !.handle_open = FALSE, !.receiving = FALSE, !.error = TRUE]

\* Mutant of Expired: no deadline.
NeverExpired == FALSE

Expired == ota.age >= SessionTicks

\* Mutant of Authorized: the token is not compared.
AuthorizedAnyToken == ota.active /\ ota.wifi_started /\ ~ota.success /\ ~Expired

\* authorized: an open, unfinished session within its deadline, right token.
Authorized ==
  /\ ota.active /\ ota.wifi_started /\ ~ota.success
  /\ request.auth
  /\ ~Expired

\* The last statement of ota_poll, run when handleClient() returns.
PollTail(o) ==
  IF o.handle_open /\ ~o.receiving /\ ~o.file_done THEN Failed(o) ELSE o

-----------------------------------------------------------------------------
(* Opening and closing *)

\* ota_begin: every early return leaves an active session with its error.
OtaBegin(faces) ==
  LET opened == [Closed EXCEPT !.active = TRUE, !.faces = faces]
      failed == [opened EXCEPT !.error = TRUE]
  IN /\ ~ota.active
     /\ \/ ota' = failed       \* slots, entropy, AP identity or AP start
        \/ /\ faces \/ layout
           /\ \E lan \in BOOLEAN :
                ota' = [opened EXCEPT !.lan = lan, !.wifi_started = TRUE]
     /\ UNCHANGED <<ota_image, request>>

\* ota_stop: abort an incomplete update, drop the token and the session.
OtaStop ==
  /\ ota' = IF ota.success THEN ota
            ELSE [Closed EXCEPT !.attempted = ota.attempted]
  /\ UNCHANGED <<ota_image, request>>

\* settings_action: the explicit switch from settings to firmware mode.
\* wifi_scan, ntp_sync and sound stop with it; only sound is modelled.
SettingsFirmware ==
  /\ ota.active /\ ota.wifi_started /\ ~ota.success /\ ~Expired
  /\ ota.faces /\ layout
  /\ ota' = PollTail([ota EXCEPT !.faces = FALSE, !.error = FALSE])
  /\ UNCHANGED <<ota_image, request>>

-----------------------------------------------------------------------------
(* One multipart request: upload() for every part event, then finish() *)

\* handleClient() accepts a connection for POST /update.
RequestArrives ==
  \E auth \in BOOLEAN :
    /\ request' = [NoRequest EXCEPT !.auth = auth]
    /\ UNCHANGED <<ota, ota_image>>

\* upload's first test: deny with 403, close, and mutate nothing of ours.
Denied(req) ==
  /\ ~Authorized \/ ota.faces
  /\ request' = [req EXCEPT !.cut = TRUE]
  /\ UNCHANGED <<ota, ota_image, flash>>

Admitted(req) ==
  /\ Authorized /\ ~ota.faces
  /\ request' = req

\* Mutant of UploadStart: a second file of the session is taken.
UploadStartAgain(declared, named) ==
  LET total == OtaImageSize(declared)
      fresh == [ota EXCEPT !.attempted = TRUE, !.error = FALSE,
                           !.received = 0, !.total = total]
  IN /\ ota_image' = FreshCheck
     /\ ota' = IF total = 0 \/ ~named THEN Failed(fresh)
               ELSE [fresh EXCEPT !.receiving = TRUE]

\* UPLOAD_FILE_START: one file per session, a plausible size, the right names.
UploadStart(declared, named) ==
  LET total == OtaImageSize(declared)
      fresh == [ota EXCEPT !.attempted = TRUE, !.error = FALSE,
                           !.received = 0, !.total = total]
  IN IF ota.attempted
     THEN ota' = Failed(ota) /\ UNCHANGED ota_image
     ELSE /\ ota_image' = FreshCheck
          /\ ota' = IF total = 0 \/ ~named THEN Failed(fresh)
                    ELSE [fresh EXCEPT !.receiving = TRUE]

\* The header, completed by this chunk, and what of the chunk follows it.
HeaderAndRest(check, chunk) ==
  Feed(check, chunk).header
    \o SubSeq(chunk, Len(Header) - Len(check.header) + 1, Len(chunk))

\* A chunk that fits.  The header is written once it is complete, followed by
\* the rest of the chunk; what came before stays in image.header until then.
\* kept is what a failed write leaves in the slot.
UploadChunk(chunk) ==
  LET fed == Feed(ota_image, chunk)
      got == [ota EXCEPT !.received = @ + Len(chunk)]
      opening == ~ota.handle_open /\ fed.bytes >= Len(Header)
      data == IF opening THEN HeaderAndRest(ota_image, chunk) ELSE chunk
      start == IF opening THEN <<>> ELSE flash[Target]
  IN /\ ota_image' = fed
     /\ \/ /\ ~ota.handle_open /\ ~opening      \* still inside the header
           /\ ota' = got
           /\ UNCHANGED flash
        \/ /\ opening         \* not an application, or esp_ota_begin fails
           /\ ota' = Failed(got)
           /\ UNCHANGED flash
        \/ /\ ota.handle_open \/ (opening /\ AppHeader(fed) /\ EspBeginAllowed)
           /\ \/ /\ ota' = [got EXCEPT !.handle_open = TRUE]
                 /\ flash' = [flash EXCEPT ![Target] = start \o data]
              \/ /\ ota' = Failed(got)          \* esp_ota_write fails
                 /\ \E kept \in 0..Len(data) - 1 :
                      flash' = [flash EXCEPT ![Target] = start \o Take(data, kept)]

\* UPLOAD_FILE_WRITE
UploadWrite(chunk) ==
  IF ~ota.receiving \/ ota.error
  THEN UNCHANGED <<ota, ota_image, flash>>
  ELSE IF Len(chunk) > ota.total - ota.received
       THEN ota' = Failed(ota) /\ UNCHANGED <<ota_image, flash>>
       ELSE UploadChunk(chunk)

\* UPLOAD_FILE_END
UploadEnd ==
  ota' = IF ota.receiving /\ ~ota.error
         THEN [ota EXCEPT !.file_done = TRUE, !.receiving = FALSE]
         ELSE ota

\* The parser opens a file part: any content, any declared size and names.
PartStart(body, declared, named) ==
  LET req == [request EXCEPT !.part = TRUE, !.body = body, !.sent = 0,
                             !.parts = @ + 1]
  IN /\ ~request.part /\ ~request.cut /\ request.parts < MaxParts
     /\ \/ Denied(req)
        \/ Admitted(req) /\ UploadStart(declared, named) /\ UNCHANGED flash

\* The parser delivers the next size units of the part.
PartWrite(size) ==
  LET sent == request.sent + size
      chunk == SubSeq(request.body, request.sent + 1, sent)
      req == [request EXCEPT !.sent = sent]
  IN /\ request.part /\ ~request.cut /\ sent <= Len(request.body)
     /\ \/ Denied(req)
        \/ Admitted(req) /\ UploadWrite(chunk)

\* The closing boundary, after the whole body.
PartEnd ==
  LET req == [request EXCEPT !.part = FALSE, !.body = <<>>, !.sent = 0]
  IN /\ request.part /\ ~request.cut /\ request.sent = Len(request.body)
     /\ \/ Denied(req)
        \/ Admitted(req) /\ UploadEnd /\ UNCHANGED <<ota_image, flash>>

\* The connection broke inside the part: UPLOAD_FILE_ABORTED.
PartAborted ==
  LET req == [request EXCEPT !.part = FALSE, !.body = <<>>, !.sent = 0,
                             !.cut = TRUE]
  IN /\ request.part
     /\ \/ Denied(req)
        \/ Admitted(req) /\ ota' = Failed(ota) /\ UNCHANGED <<ota_image, flash>>

\* The last lines of upload(): the deadline holds even while data keeps coming.
UploadDeadline ==
  /\ IF Expired
     THEN ota' = Failed(ota) /\ request' = [request EXCEPT !.cut = TRUE]
     ELSE UNCHANGED <<ota, request>>
  /\ UNCHANGED ota_image

\* The request ends without reaching finish(): malformed or disconnected.
RequestDropped ==
  /\ ~request.part
  /\ request' = NoRequest
  /\ ota' = PollTail(ota)
  /\ UNCHANGED <<ota_image, flash, img_state, selected>>

\* Mutant of Complete: the board marker is not asked for.
CompleteAnyBoard ==
  /\ ota.file_done /\ ota.handle_open /\ ~ota.error
  /\ ota.received = ota.total

Complete ==
  /\ ota.file_done /\ ota.handle_open
  /\ ota.received = ota.total
  /\ ota_image.board_found
  /\ ~ota.error

\* finish: verify, then select.  The last disjunct of the ones after Complete
\* is the only place this module changes the boot slot.
Finish ==
  /\ ~request.part
  /\ request' = NoRequest
  /\ \/ /\ ~Authorized \/ ota.faces
        /\ ota' = PollTail(ota)
        /\ UNCHANGED <<img_state, selected>>
     \/ /\ Authorized /\ ~ota.faces
        /\ ~Complete
        /\ ota' = PollTail(Failed(ota))
        /\ UNCHANGED <<img_state, selected>>
     \/ /\ Authorized /\ ~ota.faces
        /\ Complete                             \* esp_ota_end or selection fails
        /\ ota' = PollTail(Failed(ota))
        /\ UNCHANGED <<img_state, selected>>
     \/ /\ Authorized /\ ~ota.faces
        /\ Complete
        /\ EspSelect(Target, flash[Target])
        /\ ota' = [ota EXCEPT !.handle_open = FALSE, !.success = TRUE]
  /\ UNCHANGED <<ota_image, flash>>
=============================================================================
