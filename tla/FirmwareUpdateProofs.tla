------------------------ MODULE FirmwareUpdateProofs ------------------------
(***************************************************************************)
(* Proofs about FirmwareUpdate for every slot size, chunk size, timing     *)
(* bound and set of files.                                                 *)
(***************************************************************************)
EXTENDS FirmwareUpdate, SequenceTheorems, TLAPS

-----------------------------------------------------------------------------
(* Helpers on streams of units *)

\* Take keeps the beginning of a stream.
LEMMA TakeProperties ==
  ASSUME NEW s \in Seq(Units), NEW n \in Nat
  PROVE  /\ Take(s, n) \in Seq(Units)
         /\ Len(Take(s, n)) = IF n < Len(s) THEN n ELSE Len(s)
         /\ \A i \in 1..Len(Take(s, n)) : Take(s, n)[i] = s[i]
  BY DEF Take

\* A bounded piece of a stream is a stream.
LEMMA SubSeqType ==
  ASSUME NEW s \in Seq(Units), NEW m \in Nat \ {0}, NEW n \in Int, n <= Len(s)
  PROVE  SubSeq(s, m, n) \in Seq(Units)
  OBVIOUS

LEMMA TakeShort ==
  ASSUME NEW s \in Seq(Units), NEW n \in Nat
  PROVE  Take(s, n) \in Seq(Units) /\ Len(Take(s, n)) <= n
  <1>1. Take(s, n) \in Seq(Units) /\ Len(Take(s, n)) = IF n < Len(s) THEN n ELSE Len(s)
    BY TakeProperties
  <1>2. QED
    BY <1>1

LEMMA HeaderFacts == Header \in Seq(Units) /\ Len(Header) = 2
  BY DEF Header, Units

LEMMA FeedType ==
  ASSUME NEW check \in OtaImageChecks, NEW chunk \in Seq(Units)
  PROVE  Feed(check, chunk) \in OtaImageChecks
  <1>1. check.header \o chunk \in Seq(Units)
    BY DEF OtaImageChecks
  <1>2. /\ Take(check.header \o chunk, Len(Header)) \in Seq(Units)
        /\ Len(Take(check.header \o chunk, Len(Header))) <= Len(Header)
    BY <1>1, TakeShort, HeaderFacts
  <1>3. check.bytes + Len(chunk) \in Nat
    BY DEF OtaImageChecks
  <1>4. (check.board_found \/ HasMarker(chunk)) \in BOOLEAN
    BY DEF OtaImageChecks, HasMarker
  <1>5. QED
    BY <1>2, <1>3, <1>4 DEF Feed, OtaImageChecks

\* What the declared size may yield.
LEMMA SizeType ==
  ASSUME NEW declared \in Int
  PROVE  OtaImageSize(declared) \in 0..SlotSize
  BY EspAssumption, MinSizeAssumption, HeaderFacts DEF OtaImageSize

-----------------------------------------------------------------------------
(* Type correctness *)

LEMMA InitType == Init => TypeOK
  <1> SUFFICES ASSUME Init PROVE TypeOK
    OBVIOUS
  <1>1. EspTypeOK
    BY EspAssumption, BodiesAssumption
    DEF Init, EspInit, EspTypeOK, Slots, NoSlot, ImageStates
  <1>2. OtaTypeOK
    BY EspAssumption, OtaAssumption
    DEF Init, OtaInit, OtaTypeOK, Closed, NoRequest, OtaStates, Requests,
        FreshCheck, OtaImageChecks
  <1>3. SdTypeOK
    BY SdAssumption
    DEF Init, SdInit, SdTypeOK, SdClosed, SdStates, Phases, FreshCheck,
        OtaImageChecks
  <1>4. OtaBootTypeOK
    BY HealthyAssumption DEF Init, OtaBootInit, OtaBootTypeOK, Unobserved
  <1>5. QED
    BY <1>1, <1>2, <1>3, <1>4 DEF Init, TypeOK

\* A failed session is a session.
LEMMA FailedType ==
  ASSUME NEW o \in OtaStates
  PROVE  Failed(o) \in OtaStates /\ PollTail(o) \in OtaStates
  BY DEF Failed, PollTail, OtaStates

LEMMA OpenedType ==
  ASSUME NEW o \in OtaStates
  PROVE  [o EXCEPT !.handle_open = TRUE] \in OtaStates
  BY DEF OtaStates

\* A chunk leaves a session, a check and slots of the right type.
LEMMA UploadChunkType ==
  ASSUME TypeOK, Running, NEW chunk \in Seq(Units), UploadChunk(chunk)
  PROVE  /\ ota' \in OtaStates /\ ota_image' \in OtaImageChecks
         /\ flash' \in [Slots -> Seq(Units)]
  <1> DEFINE fed == Feed(ota_image, chunk)
             got == [ota EXCEPT !.received = @ + Len(chunk)]
             held == Len(ota_image.header)
             opening == ~ota.handle_open /\ fed.bytes >= Len(Header)
             data == IF opening THEN HeaderAndRest(ota_image, chunk) ELSE chunk
             start == IF opening THEN <<>> ELSE flash[Target]
  <1>1. fed \in OtaImageChecks /\ fed.header \in Seq(Units)
    BY FeedType DEF TypeOK, OtaTypeOK, OtaImageChecks
  <1>2. got \in OtaStates
    BY DEF TypeOK, OtaTypeOK, OtaStates
  <1>3. Target \in Slots
    BY DEF TypeOK, EspTypeOK, Target, Other, Slots, Running
  <1>4. start \in Seq(Units)
    BY <1>3 DEF TypeOK, EspTypeOK
  <1>5. data \in Seq(Units)
    <2>1. held \in Nat /\ held <= 2
      BY HeaderFacts DEF TypeOK, OtaTypeOK, OtaImageChecks
    <2>2. SubSeq(chunk, Len(Header) - held + 1, Len(chunk)) \in Seq(Units)
      BY <2>1, HeaderFacts, SubSeqType
    <2>3. QED
      BY <1>1, <2>2 DEF HeaderAndRest
  <1>6. start \o data \in Seq(Units)
    BY <1>4, <1>5
  <1> HIDE DEF data, start
  <1>7. ASSUME NEW kept \in 0..Len(data) - 1
        PROVE  start \o Take(data, kept) \in Seq(Units)
    <2>1. kept \in Nat
      BY <1>5
    <2>2. Take(data, kept) \in Seq(Units)
      BY <1>5, <2>1, TakeShort
    <2>3. QED
      BY <1>4, <2>2
  <1>8. Failed(got) \in OtaStates /\ [got EXCEPT !.handle_open = TRUE] \in OtaStates
    BY <1>2, FailedType, OpenedType
  <1> HIDE DEF fed, got
  <1>9. ota_image' = fed
    BY DEF UploadChunk, fed
  <1>10. ota' \in {got, Failed(got), [got EXCEPT !.handle_open = TRUE]}
    BY DEF UploadChunk, got
  <1>11. \/ flash' = flash
         \/ flash' = [flash EXCEPT ![Target] = start \o data]
         \/ \E kept \in 0..Len(data) - 1 :
              flash' = [flash EXCEPT ![Target] = start \o Take(data, kept)]
    BY DEF UploadChunk, fed, data, start
  <1>12. flash' \in [Slots -> Seq(Units)]
    BY <1>3, <1>6, <1>7, <1>11 DEF TypeOK, EspTypeOK
  <1>13. QED
    BY <1>1, <1>2, <1>8, <1>9, <1>10, <1>12

LEMMA EmptyStream == <<>> \in Seq(Units) /\ Len(<<>>) = 0
  OBVIOUS

LEMMA FreshCheckType == FreshCheck \in OtaImageChecks
  <1>1. <<>> \in {h \in Seq(Units) : Len(h) <= Len(Header)}
    BY EmptyStream, HeaderFacts
  <1>2. QED
    BY <1>1 DEF FreshCheck, OtaImageChecks

LEMMA CutType ==
  ASSUME NEW r \in Requests
  PROVE  [r EXCEPT !.cut = TRUE] \in Requests
  BY DEF Requests

LEMMA PartClosedType ==
  ASSUME NEW r \in Requests
  PROVE  [r EXCEPT !.part = FALSE, !.body = <<>>, !.sent = 0] \in Requests
  BY EmptyStream DEF Requests

LEMMA NoRequestType ==
  ASSUME NEW b \in BOOLEAN
  PROVE  NoRequest \in Requests /\ [NoRequest EXCEPT !.auth = b] \in Requests
  <1>1. NoRequest \in Requests
    BY EmptyStream, OtaAssumption DEF Requests, NoRequest
  <1>2. \A r \in Requests : [r EXCEPT !.auth = b] \in Requests
    BY DEF Requests
  <1>3. QED
    BY <1>1, <1>2

\* Every part event keeps the types of what it touches.
LEMMA UploadEventType ==
  ASSUME TypeOK, UploadEvent
  PROVE  TypeOK'
  <1>1. /\ ota \in OtaStates /\ ota_image \in OtaImageChecks
        /\ request \in Requests /\ flash \in [Slots -> Seq(Units)]
    BY DEF TypeOK, OtaTypeOK, EspTypeOK
  <1>2. Running
    BY DEF UploadEvent
  <1>3. /\ ota' \in OtaStates /\ ota_image' \in OtaImageChecks
        /\ request' \in Requests /\ flash' \in [Slots -> Seq(Units)]
    <2>1. CASE \E body \in Bodies, declared \in 0..SlotSize + 1, named \in BOOLEAN :
                 PartStart(body, declared, named)
      <3>1. PICK body \in Bodies, declared \in 0..SlotSize + 1, named \in BOOLEAN :
                   PartStart(body, declared, named)
        BY <2>1
      <3> DEFINE req == [request EXCEPT !.part = TRUE, !.body = body, !.sent = 0,
                                        !.parts = @ + 1]
      <3>2. req \in Requests /\ [req EXCEPT !.cut = TRUE] \in Requests
        <4>1. body \in Seq(Units)
          BY BodiesAssumption
        <4>2. request.parts + 1 \in 0..MaxParts
          BY <1>1, <3>1, OtaAssumption DEF PartStart, Requests
        <4>3. req \in Requests
          BY <1>1, <4>1, <4>2 DEF Requests
        <4>4. QED
          BY <4>3, CutType
      <3>3. request' \in {req, [req EXCEPT !.cut = TRUE]}
        BY <3>1 DEF PartStart, Denied, Admitted
      <3>4. /\ flash' = flash
            /\ ota_image' \in {ota_image, FreshCheck}
        BY <3>1 DEF PartStart, Denied, UploadStart
      <3> DEFINE total == OtaImageSize(declared)
                 fresh == [ota EXCEPT !.attempted = TRUE, !.error = FALSE,
                                      !.received = 0, !.total = total]
      <3>5. total \in 0..SlotSize
        BY SizeType, EspAssumption
      <3> HIDE DEF total
      <3>6. fresh \in OtaStates /\ [fresh EXCEPT !.receiving = TRUE] \in OtaStates
        BY <1>1, <3>5 DEF OtaStates
      <3>7. ota' \in {ota, Failed(ota), Failed(fresh), [fresh EXCEPT !.receiving = TRUE]}
        BY <3>1 DEF PartStart, Denied, UploadStart, total
      <3>8. ota' \in OtaStates
        BY <1>1, <3>6, <3>7, FailedType
      <3>9. ota_image' \in OtaImageChecks
        BY <1>1, <3>4, FreshCheckType
      <3>10. QED
        BY <1>1, <3>2, <3>3, <3>4, <3>8, <3>9
    <2>2. CASE \E size \in 1..SlotSize : PartWrite(size)
      <3>1. PICK size \in 1..SlotSize : PartWrite(size)
        BY <2>2
      <3> DEFINE sent == request.sent + size
                 chunk == SubSeq(request.body, request.sent + 1, sent)
                 req == [request EXCEPT !.sent = sent]
      <3>2. sent \in Nat /\ sent <= Len(request.body)
        BY <1>1, <3>1, EspAssumption DEF PartWrite, Requests
      <3>3. chunk \in Seq(Units)
        BY <1>1, <3>2, SubSeqType DEF Requests
      <3>4. req \in Requests /\ [req EXCEPT !.cut = TRUE] \in Requests
        <4>1. req \in Requests
          BY <1>1, <3>2 DEF Requests
        <4>2. QED
          BY <4>1, CutType
      <3>5. request' \in {req, [req EXCEPT !.cut = TRUE]}
        BY <3>1 DEF PartWrite, Denied, Admitted
      <3>6. \/ UNCHANGED <<ota, ota_image, flash>>
            \/ ota' = Failed(ota) /\ UNCHANGED <<ota_image, flash>>
            \/ UploadChunk(chunk)
        BY <3>1 DEF PartWrite, Denied, UploadWrite
      <3> HIDE DEF chunk
      <3>7. ota' \in OtaStates /\ ota_image' \in OtaImageChecks
            /\ flash' \in [Slots -> Seq(Units)]
        BY <1>1, <1>2, <3>3, <3>6, FailedType, UploadChunkType
      <3>8. QED
        BY <3>4, <3>5, <3>7
    <2>3. CASE PartEnd
      <3> DEFINE req == [request EXCEPT !.part = FALSE, !.body = <<>>, !.sent = 0]
      <3>1. req \in Requests /\ [req EXCEPT !.cut = TRUE] \in Requests
        BY <1>1, PartClosedType, CutType
      <3>2. request' \in {req, [req EXCEPT !.cut = TRUE]}
        BY <2>3 DEF PartEnd, Denied, Admitted
      <3>3. ota' \in {ota, [ota EXCEPT !.file_done = TRUE, !.receiving = FALSE]}
            /\ UNCHANGED <<ota_image, flash>>
        BY <2>3 DEF PartEnd, Denied, UploadEnd
      <3>4. [ota EXCEPT !.file_done = TRUE, !.receiving = FALSE] \in OtaStates
        BY <1>1 DEF OtaStates
      <3>5. QED
        BY <1>1, <3>1, <3>2, <3>3, <3>4
    <2>4. CASE PartAborted
      <3> DEFINE closed == [request EXCEPT !.part = FALSE, !.body = <<>>, !.sent = 0]
                 req == [closed EXCEPT !.cut = TRUE]
      <3>1. req \in Requests
        BY <1>1, PartClosedType, CutType
      <3>2. request' = req
        BY <1>1, <2>4 DEF PartAborted, Denied, Admitted, Requests
      <3>3. ota' \in {ota, Failed(ota)} /\ UNCHANGED <<ota_image, flash>>
        BY <2>4 DEF PartAborted, Denied
      <3>4. QED
        BY <1>1, <3>1, <3>2, <3>3, FailedType
    <2>5. QED
      BY <2>1, <2>2, <2>3, <2>4 DEF UploadEvent
  <1>4. pc' \in {"deadline", "request"}
    BY DEF UploadEvent
  <1>5. UNCHANGED <<img_state, selected, running, layout, sd, sd_image, card,
                    sd_owner, health, screen_ready, boot_ready>>
    BY DEF UploadEvent, OutsideUpload, sdVars, bootVars
  <1>6. QED
    BY <1>3, <1>4, <1>5
    DEF TypeOK, EspTypeOK, OtaTypeOK, SdTypeOK, OtaBootTypeOK

LEMMA ClosedType ==
  /\ Closed \in OtaStates
  /\ SdClosed \in SdStates
  /\ Unobserved \in [observing : BOOLEAN, age : 0..HealthyTicks, checked : BOOLEAN]
  BY EspAssumption, OtaAssumption, SdAssumption, HealthyAssumption, HeaderFacts
  DEF Closed, OtaStates, SdClosed, SdStates, Phases, Unobserved

\* What the handlers make of an open session.
LEMMA SessionChangeType ==
  ASSUME NEW o \in OtaStates
  PROVE  /\ \A b \in BOOLEAN : [Closed EXCEPT !.attempted = b] \in OtaStates
         /\ [o EXCEPT !.faces = FALSE, !.error = FALSE] \in OtaStates
         /\ [o EXCEPT !.handle_open = FALSE, !.success = TRUE] \in OtaStates
  <1>1. \A p \in OtaStates : /\ [p EXCEPT !.faces = FALSE, !.error = FALSE] \in OtaStates
                             /\ [p EXCEPT !.handle_open = FALSE, !.success = TRUE] \in OtaStates
    BY DEF OtaStates
  <1>2. \A p \in OtaStates : \A b \in BOOLEAN : [p EXCEPT !.attempted = b] \in OtaStates
    BY DEF OtaStates
  <1>3. QED
    BY <1>1, <1>2, ClosedType

\* What ota_begin makes of a closed one.
LEMMA OpenedSessionType ==
  ASSUME NEW faces \in BOOLEAN, NEW lan \in BOOLEAN
  PROVE  LET opened == [Closed EXCEPT !.active = TRUE, !.faces = faces]
         IN /\ [opened EXCEPT !.error = TRUE] \in OtaStates
            /\ [opened EXCEPT !.lan = lan, !.wifi_started = TRUE] \in OtaStates
  <1> DEFINE opened == [Closed EXCEPT !.active = TRUE, !.faces = faces]
  <1>1. \A p \in OtaStates : [p EXCEPT !.active = TRUE, !.faces = faces] \in OtaStates
    BY DEF OtaStates
  <1>2. opened \in OtaStates
    BY <1>1, ClosedType
  <1>3. \A p \in OtaStates : /\ [p EXCEPT !.error = TRUE] \in OtaStates
                             /\ [p EXCEPT !.lan = lan, !.wifi_started = TRUE] \in OtaStates
    BY DEF OtaStates
  <1>4. QED
    BY <1>2, <1>3

\* The steps of the network session outside an upload's part events.
LEMMA OtaStepType ==
  ASSUME TypeOK,
         OtaBack \/ OtaCloses \/ OtaIdle \/ OtaRestartWait \/ OtaFirmwareMode
           \/ UploadArrives \/ UploadChecksDeadline \/ UploadReturns \/ OpenOta
  PROVE  TypeOK'
  <1>1. /\ ota \in OtaStates /\ ota_image \in OtaImageChecks /\ request \in Requests
        /\ ota.attempted \in BOOLEAN
    BY DEF TypeOK, OtaTypeOK, OtaStates
  <1> DEFINE Rest == UNCHANGED <<flash, running, layout, sd, sd_image, card, sd_owner,
                                 health, screen_ready, boot_ready>>
             Kept == UNCHANGED <<img_state, selected>>
             OtaTyped == ota' \in OtaStates /\ ota_image' \in OtaImageChecks
                           /\ request' \in Requests
             Selects == img_state' \in [Slots -> ImageStates] /\ selected' \in Slots
  <1>2. ASSUME OtaBack \/ OtaCloses
        PROVE  OtaTyped /\ Rest /\ Kept /\ pc' = "top"
    <2>1. ota' \in {ota, [Closed EXCEPT !.attempted = ota.attempted]}
          /\ UNCHANGED <<ota_image, request>>
      BY <1>2 DEF OtaBack, OtaCloses, OtaService, OtaStop
    <2>2. ota' \in OtaStates
      BY <1>1, <2>1, SessionChangeType
    <2>3. QED
      BY <1>1, <1>2, <2>1, <2>2
      DEF OtaBack, OtaCloses, OtaService, espVars, sdVars, bootVars
  <1>3. ASSUME OtaIdle \/ OtaRestartWait
        PROVE  OtaTyped /\ Rest /\ Kept /\ pc' = "top"
    <2>1. ota' \in {ota, PollTail(ota)} /\ UNCHANGED <<ota_image, request>>
      BY <1>3 DEF OtaIdle, OtaRestartWait, OtaService, otaVars
    <2>2. QED
      BY <1>1, <1>3, <2>1, FailedType
      DEF OtaIdle, OtaRestartWait, OtaService, espVars, sdVars, bootVars
  <1>4. ASSUME OtaFirmwareMode
        PROVE  OtaTyped /\ Rest /\ Kept /\ pc' = "top"
    <2>1. ota' = PollTail([ota EXCEPT !.faces = FALSE, !.error = FALSE])
          /\ UNCHANGED <<ota_image, request>>
      BY <1>4 DEF OtaFirmwareMode, OtaService, SettingsFirmware
    <2>2. QED
      BY <1>1, <1>4, <2>1, FailedType, SessionChangeType
      DEF OtaFirmwareMode, OtaService, espVars, sdVars, bootVars
  <1>5. ASSUME UploadArrives
        PROVE  OtaTyped /\ Rest /\ Kept /\ pc' = "request"
    <2>1. PICK auth \in BOOLEAN : request' = [NoRequest EXCEPT !.auth = auth]
      BY <1>5 DEF UploadArrives, RequestArrives
    <2>2. QED
      BY <1>1, <1>5, <2>1, NoRequestType
      DEF UploadArrives, RequestArrives, espVars, sdVars, bootVars
  <1>6. ASSUME UploadChecksDeadline
        PROVE  OtaTyped /\ Rest /\ Kept /\ pc' = "request"
    <2>1. ota' \in {ota, Failed(ota)} /\ ota_image' = ota_image
          /\ request' \in {request, [request EXCEPT !.cut = TRUE]}
      BY <1>6 DEF UploadChecksDeadline, UploadDeadline
    <2>2. QED
      BY <1>1, <1>6, <2>1, FailedType, CutType
      DEF UploadChecksDeadline, OutsideUpload, sdVars, bootVars
  <1>7. ASSUME UploadReturns
        PROVE  OtaTyped /\ Rest /\ Selects /\ pc' = "top"
    <2>1. /\ ota' \in {PollTail(ota), PollTail(Failed(ota)),
                       [ota EXCEPT !.handle_open = FALSE, !.success = TRUE]}
          /\ ota_image' = ota_image /\ request' = NoRequest
          /\ pc' = "top"
      BY <1>7 DEF UploadReturns, Finish, RequestDropped
    <2>2. OtaTyped
      BY <1>1, <2>1, FailedType, SessionChangeType, NoRequestType
    <2>3. Rest
      BY <1>7 DEF UploadReturns, Finish, RequestDropped, OutsideUpload, sdVars, bootVars
    <2>4. Kept \/ EspSelect(Target, flash[Target])
      BY <1>7 DEF UploadReturns, Finish, RequestDropped
    <2>5. Target \in Slots
      BY <1>7 DEF UploadReturns, Running, TypeOK, EspTypeOK, Target, Other, Slots
    <2>6. Selects
      BY <2>4, <2>5 DEF EspSelect, TypeOK, EspTypeOK, ImageStates
    <2>7. QED
      BY <2>1, <2>2, <2>3, <2>6
  <1>8. ASSUME OpenOta
        PROVE  OtaTyped /\ Rest /\ Kept /\ pc' = "top"
    <2>1. PICK faces \in BOOLEAN : OtaBegin(faces)
      BY <1>8 DEF OpenOta, Normal
    <2> DEFINE opened == [Closed EXCEPT !.active = TRUE, !.faces = faces]
    <2>2. \/ ota' = [opened EXCEPT !.error = TRUE]
          \/ \E lan \in BOOLEAN : ota' = [opened EXCEPT !.lan = lan, !.wifi_started = TRUE]
      BY <2>1 DEF OtaBegin
    <2>3. ota' \in OtaStates
      BY <2>2, OpenedSessionType
    <2>4. QED
      BY <1>1, <1>8, <2>1, <2>3
      DEF OpenOta, Normal, OtaBegin, espVars, sdVars, bootVars
  <1>9. OtaTyped /\ Rest /\ (Kept \/ Selects) /\ pc' \in {"top", "request"}
    BY <1>2, <1>3, <1>4, <1>5, <1>6, <1>7, <1>8
  <1>10. QED
    BY <1>9 DEF TypeOK, EspTypeOK, OtaTypeOK, SdTypeOK, OtaBootTypeOK

\* What the handlers make of a card session.
LEMMA SdPhaseType ==
  ASSUME NEW s \in SdStates, NEW ph \in Phases
  PROVE  /\ [s EXCEPT !.phase = ph] \in SdStates
         /\ [s EXCEPT !.active = TRUE, !.phase = ph] \in SdStates
         /\ [s EXCEPT !.phase = ph, !.handle_open = FALSE, !.owned = FALSE] \in SdStates
  BY DEF SdStates

LEMMA SdOpenedType ==
  ASSUME NEW s \in SdStates, NEW n \in Nat
  PROVE  [s EXCEPT !.owned = TRUE, !.total = n, !.phase = "Checking"] \in SdStates
  BY DEF SdStates, Phases

LEMMA SdCheckedType ==
  ASSUME NEW s \in SdStates, NEW n \in Nat, NEW ph \in Phases
  PROVE  [s EXCEPT !.checked = n, !.phase = ph] \in SdStates
  BY DEF SdStates

LEMMA SdWrittenType ==
  ASSUME NEW s \in SdStates, NEW n \in Nat
  PROVE  [s EXCEPT !.handle_open = TRUE, !.written = n] \in SdStates
  BY DEF SdStates

LEMMA SdFinishedType ==
  ASSUME NEW s \in SdStates, NEW n \in Nat, NEW ph \in Phases
  PROVE  [s EXCEPT !.phase = ph, !.written = n, !.handle_open = FALSE,
                   !.owned = FALSE] \in SdStates
  BY DEF SdStates

\* The chunk transfer() reads is a piece of the card's file.
LEMMA NextChunkType ==
  ASSUME TypeOK, Readable
  PROVE  /\ NextChunk \in Seq(Units)
         /\ Len(NextChunk) \in Nat \ {0}
         /\ Len(NextChunk) <= sd.total - Position
  <1> DEFINE left == sd.total - Position
             count == IF left < SdChunk THEN left ELSE SdChunk
  <1>1. card \in Seq(Units)
    BY SdAssumption, EmptyStream DEF TypeOK, SdTypeOK, NoFile
  <1>2. sd.total \in Nat /\ Position \in Nat /\ Position < sd.total /\ Len(card) = sd.total
    BY DEF TypeOK, SdTypeOK, SdStates, Position, Readable
  <1>3. count \in Nat \ {0} /\ count <= left
    BY <1>2, SdAssumption, HeaderFacts
  <1> HIDE DEF count
  <1>4. Position + 1 \in Nat \ {0} /\ Position + count <= Len(card) /\ Position + count \in Int
    BY <1>2, <1>3
  <1>5. SubSeq(card, Position + 1, Position + count) \in Seq(Units)
    BY <1>1, <1>4, SubSeqType
  <1>6. Len(SubSeq(card, Position + 1, Position + count)) = count
    BY <1>1, <1>2, <1>3, <1>4
  <1>7. NextChunk = SubSeq(card, Position + 1, Position + count)
    BY DEF NextChunk, count
  <1>8. QED
    BY <1>3, <1>5, <1>6, <1>7

\* The steps of the card session.
LEMMA SdStepType ==
  ASSUME TypeOK, SdPollStep \/ SdBack \/ SdStart \/ OpenSd
  PROVE  TypeOK'
  <1>1. /\ sd \in SdStates /\ sd_image \in OtaImageChecks
        /\ sd_owner \in {"None", "Audio", "Update"}
        /\ flash \in [Slots -> Seq(Units)] /\ img_state \in [Slots -> ImageStates]
        /\ selected \in Slots
        /\ sd.phase \in Phases /\ sd.total \in Nat /\ sd.written \in Nat /\ sd.checked \in Nat
    BY DEF TypeOK, SdTypeOK, EspTypeOK, SdStates
  <1>2. Running /\ Target \in Slots
    BY DEF SdPollStep, SdBack, SdStart, SdTap, OpenSd, SdService, Normal, Running,
           TypeOK, EspTypeOK, Target, Other, Slots
  <1> DEFINE Rest == UNCHANGED <<running, layout, ota, ota_image, request, card,
                                 health, screen_ready, boot_ready>>
             SdTyped == sd' \in SdStates /\ sd_image' \in OtaImageChecks
                          /\ sd_owner' \in {"None", "Audio", "Update"}
             SlotsTyped == /\ flash' \in [Slots -> Seq(Units)]
                           /\ img_state' \in [Slots -> ImageStates]
                           /\ selected' \in Slots
  <1>3. ReleaseCard => sd_owner' \in {"None", "Audio", "Update"}
    BY <1>1 DEF ReleaseCard
  <1>4. Phases = {"Idle", "Waiting", "Checking", "Ready", "Writing", "Success", "Failed"}
    BY DEF Phases
  <1>5. SdFail => SdTyped
    <2>1. [sd EXCEPT !.phase = "Failed", !.handle_open = FALSE, !.owned = FALSE] \in SdStates
      BY <1>1, <1>4, SdPhaseType
    <2>2. QED
      BY <1>1, <1>3, <2>1 DEF SdFail
  <1>6. ASSUME SdPoll PROVE SdTyped /\ SlotsTyped /\ UNCHANGED <<running, layout>>
    <2>1. CASE UNCHANGED <<sdVars, sd_owner, espVars>>
      BY <1>1, <2>1 DEF sdVars, espVars
    <2>2. CASE SdFail /\ UNCHANGED espVars
      BY <1>1, <1>5, <2>2 DEF espVars
    <2>3. CASE OpenCard /\ UNCHANGED espVars
      <3>1. Len(card) \in Nat
        BY SdAssumption, EmptyStream DEF TypeOK, SdTypeOK, NoFile
      <3>2. /\ [sd EXCEPT !.owned = TRUE, !.total = Len(card), !.phase = "Checking"] \in SdStates
            /\ [sd EXCEPT !.phase = "Failed"] \in SdStates
        BY <1>1, <1>4, <3>1, SdOpenedType, SdPhaseType
      <3>3. [sd EXCEPT !.phase = "Failed", !.total = Len(card)] \in SdStates
        BY <1>1, <1>4, <3>1 DEF SdStates
      <3>4. SdTyped
        BY <1>1, <2>3, <3>2, <3>3, FreshCheckType DEF OpenCard, SdAcquire
      <3>5. QED
        BY <1>1, <2>3, <3>4 DEF espVars
    <2>4. CASE CheckChunk
      <3>1. NextChunk \in Seq(Units) /\ Len(NextChunk) \in Nat
        BY <2>4, NextChunkType DEF CheckChunk
      <3>2. Feed(sd_image, NextChunk) \in OtaImageChecks
        BY <1>1, <3>1, FeedType
      <3>3. sd.checked + Len(NextChunk) \in Nat
        BY <1>1, <3>1
      <3>4. \E ph \in Phases :
              sd' = [sd EXCEPT !.checked = sd.checked + Len(NextChunk), !.phase = ph]
        <4> DEFINE n == sd.checked + Len(NextChunk)
        <4>1. sd' = [sd EXCEPT !.checked = n, !.phase = IF n = sd.total THEN "Ready" ELSE @]
          BY <2>4 DEF CheckChunk
        <4> HIDE DEF n
        <4> DEFINE ph == IF n = sd.total THEN "Ready" ELSE sd.phase
        <4>2. ph \in Phases
          BY <1>1, <1>4
        <4>3. sd' = [sd EXCEPT !.checked = n, !.phase = ph]
          BY <4>1
        <4>4. QED
          BY <4>2, <4>3 DEF n
      <3>5. sd' \in SdStates
        <4>1. \A n \in Nat, ph \in Phases :
                [sd EXCEPT !.checked = n, !.phase = ph] \in SdStates
          BY <1>1, SdCheckedType
        <4>2. QED
          BY <3>3, <3>4, <4>1
      <3>6. QED
        BY <1>1, <2>4, <3>2, <3>5 DEF CheckChunk, espVars
    <2>5. CASE WriteChunk
      <3>1. NextChunk \in Seq(Units) /\ Len(NextChunk) \in Nat
        BY <2>5, NextChunkType DEF WriteChunk
      <3>2. Feed(sd_image, NextChunk) \in OtaImageChecks
        BY <1>1, <3>1, FeedType
      <3>3. sd.written + Len(NextChunk) \in Nat
        BY <1>1, <3>1
      <3>4. sd' \in SdStates
        <4>1. sd' = [sd EXCEPT !.handle_open = TRUE, !.written = sd.written + Len(NextChunk)]
          BY <2>5 DEF WriteChunk
        <4>2. \A n \in Nat : [sd EXCEPT !.handle_open = TRUE, !.written = n] \in SdStates
          BY <1>1, SdWrittenType
        <4>3. QED
          BY <3>3, <4>1, <4>2
      <3>5. (IF sd.handle_open THEN flash[Target] ELSE <<>>) \o NextChunk \in Seq(Units)
        BY <1>1, <1>2, <3>1, EmptyStream
      <3>6. QED
        BY <1>1, <2>5, <3>2, <3>4, <3>5 DEF WriteChunk
    <2>6. CASE WriteLast
      <3>1. NextChunk \in Seq(Units) /\ Len(NextChunk) \in Nat
        BY <2>6, NextChunkType DEF WriteLast
      <3>2. Feed(sd_image, NextChunk) \in OtaImageChecks
        BY <1>1, <3>1, FeedType
      <3>3. sd' \in SdStates
        <4>1. \E ph \in Phases :
                sd' = [sd EXCEPT !.phase = ph, !.written = sd.total,
                                 !.handle_open = FALSE, !.owned = FALSE]
          BY <1>4, <2>6 DEF WriteLast
        <4>2. \A ph \in Phases :
                [sd EXCEPT !.phase = ph, !.written = sd.total,
                           !.handle_open = FALSE, !.owned = FALSE] \in SdStates
          BY <1>1, SdFinishedType
        <4>3. QED
          BY <4>1, <4>2
      <3>4. (IF sd.handle_open THEN flash[Target] ELSE <<>>) \o NextChunk \in Seq(Units)
        BY <1>1, <1>2, <3>1, EmptyStream
      <3>5. img_state' \in [Slots -> ImageStates] /\ selected' \in Slots
        BY <1>1, <1>2, <2>6 DEF WriteLast, EspSelect, ImageStates
      <3>6. QED
        BY <1>1, <1>3, <2>6, <3>2, <3>3, <3>4, <3>5 DEF WriteLast
    <2>7. CASE ReadFails \/ CheckFails \/ WriteFails
      <3> DEFINE n == sd.checked + Len(NextChunk)
      <3>1. ASSUME NEW s \in SdStates, TransferFail(s)
            PROVE  sd' \in SdStates /\ sd_owner' \in {"None", "Audio", "Update"}
        <4>1. [s EXCEPT !.phase = "Failed", !.handle_open = FALSE, !.owned = FALSE] \in SdStates
          BY <1>4, SdPhaseType
        <4>2. QED
          BY <1>3, <3>1, <4>1 DEF TransferFail
      <3>2. CASE ReadFails
        BY <1>1, <3>1, <3>2 DEF ReadFails, TransferFail
      <3>3. ASSUME Readable
            PROVE  NextChunk \in Seq(Units) /\ Feed(sd_image, NextChunk) \in OtaImageChecks
                   /\ n \in Nat
        <4>1. NextChunk \in Seq(Units) /\ Len(NextChunk) \in Nat
          BY <3>3, NextChunkType
        <4>2. QED
          BY <1>1, <4>1, FeedType
      <3>4. CASE CheckFails
        <4>1. Readable /\ UNCHANGED flash /\ sd_image' = Feed(sd_image, NextChunk)
          BY <3>4 DEF CheckFails
        <4> HIDE DEF n
        <4>2. TransferFail(sd) \/ TransferFail([sd EXCEPT !.checked = n])
          BY <3>4 DEF CheckFails, n
        <4>3. [sd EXCEPT !.checked = n] \in SdStates
          BY <1>1, <3>3, <4>1 DEF SdStates
        <4>4. QED
          BY <1>1, <3>1, <3>3, <4>1, <4>2, <4>3 DEF TransferFail
      <3>5. CASE WriteFails
        <4>1. Readable /\ sd_image' = Feed(sd_image, NextChunk) /\ TransferFail(sd)
          BY <3>5 DEF WriteFails
        <4>2. ASSUME NEW kept \in 0..Len(NextChunk)
              PROVE  (IF sd.handle_open THEN flash[Target] ELSE <<>>) \o Take(NextChunk, kept)
                       \in Seq(Units)
          <5>1. NextChunk \in Seq(Units) /\ kept \in Nat
            BY <3>3, <4>1
          <5>2. Take(NextChunk, kept) \in Seq(Units)
            BY <5>1, TakeShort
          <5>3. QED
            BY <1>1, <1>2, <5>2, EmptyStream
        <4>3. flash' \in [Slots -> Seq(Units)]
          BY <1>1, <1>2, <3>5, <4>2 DEF WriteFails
        <4>4. QED
          BY <1>1, <3>1, <3>3, <4>1, <4>3 DEF TransferFail
      <3>6. QED
        BY <2>7, <3>2, <3>4, <3>5
    <2>8. QED
      BY <1>6, <2>1, <2>2, <2>3, <2>4, <2>5, <2>6, <2>7 DEF SdPoll
  <1>7. CASE SdPollStep
    BY <1>6, <1>7 DEF SdPollStep, SdService, otaVars, bootVars,
                      TypeOK, EspTypeOK, OtaTypeOK, SdTypeOK, OtaBootTypeOK
  <1>8. CASE SdBack \/ SdStart \/ OpenSd
    <2>1. /\ [sd EXCEPT !.phase = "Writing"] \in SdStates
          /\ \A ph \in Phases : [SdClosed EXCEPT !.active = TRUE, !.phase = ph] \in SdStates
      BY <1>1, <1>4, SdPhaseType, ClosedType
    <2>2. SdTyped
      BY <1>1, <1>3, <1>4, <1>8, <2>1, ClosedType, FreshCheckType
      DEF SdBack, SdStart, SdTap, OpenSd, SdService, Normal, SdStop, SdConfirm, SdBegin
    <2>3. Rest /\ UNCHANGED <<flash, img_state, selected>> /\ pc' \in {"top", "poll"}
      BY <1>8 DEF SdBack, SdStart, SdTap, OpenSd, SdService, Normal, SdBegin,
                  otaVars, bootVars, espVars
    <2>4. QED
      BY <2>2, <2>3 DEF TypeOK, EspTypeOK, OtaTypeOK, SdTypeOK, OtaBootTypeOK
  <1>9. QED
    BY <1>7, <1>8

\* An age stays within the limit it saturates at.
LEMMA AgedType ==
  ASSUME NEW limit \in Nat, NEW age \in 0..limit
  PROVE  Aged(age, limit) \in 0..limit
  BY DEF Aged

\* The boot health check, the passing of time and the rest of the world.
LEMMA OtherStepType ==
  ASSUME TypeOK, LoopTop \/ NormalLoop \/ Tick \/ Surroundings
  PROVE  TypeOK'
  <1>1. CASE LoopTop
    <2> DEFINE HealthStates == [observing : BOOLEAN, age : 0..HealthyTicks, checked : BOOLEAN]
    <2>1. /\ \A h \in HealthStates, b \in BOOLEAN :
               [h EXCEPT !.observing = b, !.age = 0] \in HealthStates
          /\ \A h \in HealthStates : [h EXCEPT !.checked = TRUE] \in HealthStates
      <3>1. 0 \in 0..HealthyTicks
        BY HealthyAssumption
      <3>2. \A h \in HealthStates, b \in BOOLEAN :
               [h EXCEPT !.observing = b, !.age = 0] \in HealthStates
        BY <3>1
      <3>3. \A h \in HealthStates : [h EXCEPT !.checked = TRUE] \in HealthStates
        OBVIOUS
      <3>4. QED
        BY <3>2, <3>3
    <2>2. health \in HealthStates
      BY DEF TypeOK, OtaBootTypeOK
    <2>3. Observe \in HealthStates
      BY <2>1, <2>2 DEF Observe
    <2> HIDE DEF HealthStates
    <2>4. health' \in HealthStates
      BY <1>1, <2>1, <2>2, <2>3 DEF LoopTop, OtaBootPoll
    <2>5. img_state' \in [Slots -> ImageStates]
      BY <1>1 DEF LoopTop, OtaBootPoll, EspConfirm, TypeOK, EspTypeOK, ImageStates
    <2>6. /\ UNCHANGED <<flash, selected, running, layout, ota, ota_image, request,
                         sd, sd_image, card, sd_owner, screen_ready, boot_ready>>
          /\ pc' = "service"
      BY <1>1 DEF LoopTop, sessionVars, otaVars, sdVars
    <2>7. QED
      BY <2>4, <2>5, <2>6
      DEF TypeOK, EspTypeOK, OtaTypeOK, SdTypeOK, OtaBootTypeOK, HealthStates
  <1>2. CASE NormalLoop
    BY <1>2 DEF NormalLoop, Normal, sessionVars, otaVars, sdVars, espVars, bootVars,
                TypeOK, EspTypeOK, OtaTypeOK, SdTypeOK, OtaBootTypeOK
  <1>3. CASE Tick
    <2> DEFINE age1 == IF ota.active THEN Aged(ota.age, SessionTicks) ELSE ota.age
               age2 == IF ota.success THEN Aged(ota.reboot_age, RestartTicks)
                       ELSE ota.reboot_age
               age3 == IF sd.active THEN Aged(sd.age, SdSessionTicks) ELSE sd.age
               age4 == IF sd.phase = "Success" THEN Aged(sd.reboot_age, SdRestartTicks)
                       ELSE sd.reboot_age
               age5 == IF health.observing /\ ~health.checked
                       THEN Aged(health.age, HealthyTicks) ELSE health.age
    <2>1. age1 \in 0..SessionTicks /\ age2 \in 0..RestartTicks
      BY AgedType, OtaAssumption DEF TypeOK, OtaTypeOK, OtaStates
    <2>2. age3 \in 0..SdSessionTicks /\ age4 \in 0..SdRestartTicks
      BY AgedType, SdAssumption DEF TypeOK, SdTypeOK, SdStates
    <2>3. age5 \in 0..HealthyTicks
      BY AgedType, HealthyAssumption DEF TypeOK, OtaBootTypeOK
    <2>4. /\ ota' = [ota EXCEPT !.age = age1, !.reboot_age = age2]
          /\ sd' = [sd EXCEPT !.age = age3, !.reboot_age = age4]
          /\ health' = [health EXCEPT !.age = age5]
      BY <1>3 DEF Tick
    <2> HIDE DEF age1, age2, age3, age4, age5
    <2>5. ota' \in OtaStates
      BY <2>1, <2>4 DEF TypeOK, OtaTypeOK, OtaStates
    <2>6. sd' \in SdStates
      BY <2>2, <2>4 DEF TypeOK, SdTypeOK, SdStates
    <2>7. health' \in [observing : BOOLEAN, age : 0..HealthyTicks, checked : BOOLEAN]
      BY <2>3, <2>4 DEF TypeOK, OtaBootTypeOK
    <2>8. QED
      BY <1>3, <2>5, <2>6, <2>7
      DEF Tick, espVars, TypeOK, EspTypeOK, OtaTypeOK, SdTypeOK, OtaBootTypeOK
  <1>4. CASE Surroundings
    BY <1>4 DEF Surroundings, AudioTakesCard, AudioFreesCard, CardSwapped,
                sessionVars, otaVars, sdVars, espVars, bootVars,
                TypeOK, EspTypeOK, OtaTypeOK, SdTypeOK, OtaBootTypeOK
  <1>5. QED
    BY <1>1, <1>2, <1>3, <1>4

\* Whatever was running, a reset starts from well-typed state.
LEMMA ResetType ==
  ASSUME TypeOK, Reset
  PROVE  TypeOK'
  <1>1. /\ img_state' \in [Slots -> ImageStates]
        /\ selected' \in Slots /\ running' \in Slots \cup {NoSlot}
    <2> DEFINE judged == IF img_state[selected] = "pending"
                         THEN [img_state EXCEPT ![selected] = "aborted"] ELSE img_state
               bootable == {s \in Slots : judged[s] # "aborted" /\ flash[s] \in Intact}
               choice == IF selected \in bootable THEN selected ELSE Other(selected)
    <2>1. judged \in [Slots -> ImageStates]
      BY DEF TypeOK, EspTypeOK, ImageStates
    <2>2. choice \in Slots
      BY DEF TypeOK, EspTypeOK, Other, Slots
    <2>3. [judged EXCEPT ![choice] = IF @ = "new" THEN "pending" ELSE @]
            \in [Slots -> ImageStates]
      BY <2>1, <2>2 DEF ImageStates
    <2> HIDE DEF judged, bootable
    <2>4. \/ /\ running' = choice /\ selected' = choice
             /\ img_state' = [judged EXCEPT ![choice] = IF @ = "new" THEN "pending" ELSE @]
          \/ running' = NoSlot /\ img_state' = judged /\ selected' = selected
      BY DEF Reset, EspBoot, judged, bootable
    <2> HIDE DEF choice
    <2>5. QED
      BY <2>1, <2>2, <2>3, <2>4 DEF TypeOK, EspTypeOK
  <1>2. /\ ota' \in OtaStates /\ ota_image' \in OtaImageChecks /\ request' \in Requests
        /\ sd' \in SdStates /\ sd_image' \in OtaImageChecks
    BY ClosedType, FreshCheckType, NoRequestType DEF Reset
  <1>3. /\ health' \in [observing : BOOLEAN, age : 0..HealthyTicks, checked : BOOLEAN]
        /\ screen_ready' \in BOOLEAN /\ boot_ready' \in BOOLEAN
    BY ClosedType DEF Reset, SetUp
  <1>4. UNCHANGED <<flash, layout, card>> /\ sd_owner' = "None" /\ pc' = "top"
    BY DEF Reset
  <1>5. QED
    BY <1>1, <1>2, <1>3, <1>4
    DEF TypeOK, EspTypeOK, OtaTypeOK, SdTypeOK, OtaBootTypeOK

LEMMA StutterType == ASSUME TypeOK, UNCHANGED vars PROVE TypeOK'
  BY DEF vars, espVars, otaVars, sdVars, bootVars,
         TypeOK, EspTypeOK, OtaTypeOK, SdTypeOK, OtaBootTypeOK

LEMMA NextType == TypeOK /\ [Next]_vars => TypeOK'
  <1> SUFFICES ASSUME TypeOK, [Next]_vars PROVE TypeOK'
    OBVIOUS
  <1>1. CASE LoopTop \/ NormalLoop \/ Tick \/ Surroundings
    BY <1>1, OtherStepType
  <1>2. CASE SdPollStep \/ SdBack \/ SdStart \/ OpenSd
    BY <1>2, SdStepType
  <1>3. CASE OtaBack \/ OtaCloses \/ OtaIdle \/ OtaRestartWait \/ OtaFirmwareMode
               \/ UploadArrives \/ UploadChecksDeadline \/ UploadReturns \/ OpenOta
    BY <1>3, OtaStepType
  <1>4. CASE UploadEvent
    BY <1>4, UploadEventType
  <1>5. CASE Restart \/ PowerCycle
    BY <1>5, ResetType DEF Restart, PowerCycle
  <1>6. CASE UNCHANGED vars
    BY <1>6, StutterType
  <1>7. QED
    BY <1>1, <1>2, <1>3, <1>4, <1>5, <1>6 DEF Next, Main

\* Every variable keeps its type: no count of a session, age or position of a
\* transfer leaves the range the code's types and tests give it.
THEOREM TypeCorrect == Spec => []TypeOK
  <1>1. QED
    BY InitType, NextType, PTL DEF Spec

-----------------------------------------------------------------------------
(***************************************************************************)
(* The safety of the firmware update: whatever is sent, put on the card,   *)
(* cut off or reset, the slot the next boot starts holds a whole image of  *)
(* this board.  First the part of the inductive invariant IndInv of        *)
(* FirmwareUpdate that speaks of the slots, the sessions and the checker;  *)
(* then the parts about a transfer from the card and from a client; then   *)
(* what one step does to the slots, which gives the action properties and  *)
(* the refinement of AbUpdate.                                             *)
(***************************************************************************)
\* The slots, who may write them, and what the checker knows of them.
Safe == SlotsInv /\ SessionInv /\ ImageInv

-----------------------------------------------------------------------------
(* Markers in streams *)

\* A stream carries the marker if one of two pieces it is made of does.
LEMMA MarkerConcat ==
  ASSUME NEW s \in Seq(Units), NEW t \in Seq(Units)
  PROVE  HasMarker(s \o t) <=> HasMarker(s) \/ HasMarker(t)
  <1>1. ASSUME HasMarker(s) PROVE HasMarker(s \o t)
    <2>1. PICK i \in 1..Len(s) : s[i] = "board"
      BY <1>1 DEF HasMarker
    <2>2. i \in 1..Len(s \o t) /\ (s \o t)[i] = "board"
      BY <2>1
    <2>3. QED
      BY <2>2 DEF HasMarker
  <1>2. ASSUME HasMarker(t) PROVE HasMarker(s \o t)
    <2>1. PICK i \in 1..Len(t) : t[i] = "board"
      BY <1>2 DEF HasMarker
    <2>2. Len(s) + i \in 1..Len(s \o t) /\ (s \o t)[Len(s) + i] = "board"
      BY <2>1
    <2>3. QED
      BY <2>2 DEF HasMarker
  <1>3. ASSUME HasMarker(s \o t), ~HasMarker(s) PROVE HasMarker(t)
    <2>1. PICK i \in 1..Len(s \o t) : (s \o t)[i] = "board"
      BY <1>3 DEF HasMarker
    <2>2. i > Len(s)
      BY <1>3, <2>1 DEF HasMarker
    <2>3. i - Len(s) \in 1..Len(t) /\ t[i - Len(s)] = "board"
      BY <2>1, <2>2
    <2>4. QED
      BY <2>3 DEF HasMarker
  <1>4. QED
    BY <1>1, <1>2, <1>3

\* A stream is the concatenation of its beginning and its end.
LEMMA TwoPieces ==
  ASSUME NEW w \in Seq(Units), NEW f \in Seq(Units), NEW r \in Seq(Units),
         Len(w) = Len(f) + Len(r),
         \A i \in 1..Len(f) : f[i] = w[i],
         \A i \in 1..Len(r) : r[i] = w[Len(f) + i]
  PROVE  f \o r = w
  <1>1. /\ f \o r \in Seq(Units) /\ Len(f \o r) = Len(w)
        /\ \A i \in 1..Len(f) + Len(r) :
             (f \o r)[i] = IF i <= Len(f) THEN f[i] ELSE r[i - Len(f)]
    BY ConcatProperties
  <1>2. ASSUME NEW i \in 1..Len(f \o r) PROVE (f \o r)[i] = w[i]
    <2>1. CASE i <= Len(f)
      BY <1>1, <2>1
    <2>2. CASE i > Len(f)
      <3>1. i - Len(f) \in 1..Len(r) /\ Len(f) + (i - Len(f)) = i
        BY <1>1, <2>2
      <3>2. QED
        BY <1>1, <2>2, <3>1
    <2>3. QED
      BY <1>1, <2>1, <2>2
  <1>3. QED
    BY <1>1, <1>2, SeqEqual

\* A header of k units completed from a chunk, followed by the rest of the
\* chunk, is what was held back followed by the whole chunk.
LEMMA HeaderThenRest ==
  ASSUME NEW h \in Seq(Units), NEW c \in Seq(Units), NEW k \in Nat,
         Len(h) < k, Len(h) + Len(c) >= k
  PROVE  Take(h \o c, k) \o SubSeq(c, k - Len(h) + 1, Len(c)) = h \o c
  <1> DEFINE w == h \o c
             front == Take(w, k)
             rest == SubSeq(c, k - Len(h) + 1, Len(c))
  <1>1. /\ w \in Seq(Units) /\ Len(w) = Len(h) + Len(c)
        /\ \A i \in 1..Len(h) + Len(c) : w[i] = IF i <= Len(h) THEN h[i] ELSE c[i - Len(h)]
    BY ConcatProperties
  <1>2. Len(h) \in Nat /\ Len(c) \in Nat
    OBVIOUS
  <1>3. /\ rest \in Seq(Units) /\ Len(rest) = Len(h) + Len(c) - k
        /\ \A i \in 1..Len(rest) : rest[i] = c[k - Len(h) + i]
    OBVIOUS
  <1> HIDE DEF w, rest
  <1>4. /\ front \in Seq(Units)
        /\ Len(front) = IF k < Len(w) THEN k ELSE Len(w)
        /\ \A i \in 1..Len(front) : front[i] = w[i]
    BY <1>1, TakeProperties
  <1> HIDE DEF front
  <1>5. Len(front) = k
    <2>1. k <= Len(w) /\ Len(w) \in Nat
      BY <1>1, <1>2
    <2>2. (IF k < Len(w) THEN k ELSE Len(w)) = k
      BY <2>1
    <2>3. QED
      BY <1>4, <2>2
  <1>6. ASSUME NEW i \in 1..Len(rest) PROVE rest[i] = w[Len(front) + i]
    <2>1. /\ k + i \in 1..Len(h) + Len(c) /\ ~(k + i <= Len(h))
          /\ (k + i) - Len(h) = k - Len(h) + i
      BY <1>2, <1>3
    <2>2. w[k + i] = c[(k + i) - Len(h)]
      BY <1>1, <2>1
    <2>3. QED
      BY <1>3, <1>5, <2>1, <2>2
  <1>7. Len(w) = Len(front) + Len(rest)
    BY <1>1, <1>2, <1>3, <1>5
  <1>8. front \o rest = w
    BY <1>1, <1>3, <1>4, <1>6, <1>7, TwoPieces
  <1>9. QED
    BY <1>8 DEF w, front, rest

-----------------------------------------------------------------------------
(* The initial states, and steps that do little *)

LEMMA InitSafe == Init => Safe
  <1> SUFFICES ASSUME Init PROVE Safe
    OBVIOUS
  <1>1. running = 0 /\ selected = 0 /\ Genuine(flash[0])
        /\ img_state = [s \in Slots |-> "undefined"]
    BY DEF Init, EspInit, Genuine, Slots
  <1>2. SlotsInv
    BY <1>1 DEF SlotsInv, Running, NoSlot, Slots
  <1>3. SessionInv /\ ImageInv
    BY <1>1 DEF Init, OtaInit, SdInit, Closed, SdClosed, FreshCheck, SessionInv,
                ImageInv, Slots
  <1>4. QED
    BY <1>2, <1>3 DEF Safe

\* The slots stay as they are.
LEMMA SlotsKept ==
  ASSUME SlotsInv, UNCHANGED espVars
  PROVE  SlotsInv'
  BY DEF SlotsInv, espVars, Running, Genuine, HasMarker, Target, Other

\* A step of the network session that opens nothing, selects nothing and writes
\* nothing: it may fail the upload, end a file or change what is not a handle.
OtaQuiet ==
  /\ ota'.active = ota.active /\ ota'.success = ota.success
  /\ ota'.handle_open => ota.handle_open
  /\ ota'.receiving => ota.receiving /\ ota'.handle_open = ota.handle_open
  /\ ota'.receiving => ota'.attempted /\ ~ota'.error
  /\ ota'.file_done => ota'.attempted /\ ~ota'.receiving
  /\ UNCHANGED <<espVars, ota_image, sdVars>>
  /\ pc' \in {"request", "deadline"} => ota.active /\ ~ota.success

LEMMA QuietSafe ==
  ASSUME Safe, OtaQuiet
  PROVE  Safe'
  <1>1. SlotsInv'
    BY SlotsKept DEF Safe, OtaQuiet
  <1>2. SessionInv'
    BY DEF Safe, OtaQuiet, SessionInv, espVars, sdVars
  <1>3. ImageInv'
    BY DEF Safe, OtaQuiet, ImageInv, espVars, sdVars, Target, Other, HasMarker
  <1>4. QED
    BY <1>1, <1>2, <1>3 DEF Safe

\* What fail does to the fields the invariant speaks of.
LEMMA FailedFields ==
  ASSUME NEW o \in OtaStates
  PROVE  /\ Failed(o).active = o.active /\ Failed(o).success = o.success
         /\ Failed(o).attempted = o.attempted /\ Failed(o).file_done = o.file_done
         /\ Failed(o).handle_open = FALSE /\ Failed(o).receiving = FALSE
         /\ PollTail(o) \in {o, Failed(o)}
  BY DEF Failed, PollTail, OtaStates

\* The steps of the network session that change no slot.
LEMMA OtaQuietSteps ==
  ASSUME TypeOK, Safe,
         OtaIdle \/ OtaRestartWait \/ OtaFirmwareMode \/ UploadArrives
           \/ UploadChecksDeadline
  PROVE  Safe'
  <1>1. ota \in OtaStates
    BY DEF TypeOK, OtaTypeOK
  <1>2. /\ ota.receiving => ota.attempted /\ ~ota.error
        /\ ota.file_done => ota.attempted /\ ~ota.receiving
        /\ pc \in {"request", "deadline"} => ota.active /\ ~ota.success
    BY DEF Safe, SessionInv
  <1>3. CASE OtaIdle \/ OtaRestartWait
    <2>1. ota' \in {ota, Failed(ota)}
      BY <1>1, <1>3, FailedFields DEF OtaIdle, OtaRestartWait, OtaService, otaVars
    <2>2. OtaQuiet
      BY <1>1, <1>2, <1>3, <2>1, FailedFields
      DEF OtaIdle, OtaRestartWait, OtaService, OtaQuiet, otaVars
    <2>3. QED
      BY <2>2, QuietSafe
  <1>4. CASE OtaFirmwareMode
    <2> DEFINE o == [ota EXCEPT !.faces = FALSE, !.error = FALSE]
    <2>1. /\ o \in OtaStates /\ o.active = ota.active /\ o.success = ota.success
          /\ o.handle_open = ota.handle_open /\ o.receiving = ota.receiving
          /\ o.file_done = ota.file_done /\ o.attempted = ota.attempted
          /\ o.error = FALSE
      BY <1>1 DEF OtaStates
    <2>2. ota' = PollTail(o) /\ UNCHANGED <<espVars, ota_image, sdVars>> /\ pc' = "top"
      BY <1>4 DEF OtaFirmwareMode, OtaService, SettingsFirmware
    <2> HIDE DEF o
    <2>3. ota' \in {o, Failed(o)}
      BY <2>1, <2>2, FailedFields
    <2>4. OtaQuiet
      BY <1>2, <2>1, <2>2, <2>3, FailedFields DEF OtaQuiet
    <2>5. QED
      BY <2>4, QuietSafe
  <1>5. CASE UploadArrives
    <2>1. OtaQuiet
      BY <1>2, <1>5 DEF UploadArrives, RequestArrives, OtaQuiet
    <2>2. QED
      BY <2>1, QuietSafe
  <1>6. CASE UploadChecksDeadline
    <2>1. /\ ota' \in {ota, Failed(ota)} /\ pc = "deadline"
          /\ UNCHANGED <<espVars, ota_image, sdVars>>
      BY <1>6 DEF UploadChecksDeadline, UploadDeadline, OutsideUpload, espVars
    <2>2. OtaQuiet
      BY <1>1, <1>2, <2>1, FailedFields DEF OtaQuiet
    <2>3. QED
      BY <2>2, QuietSafe
  <1>7. QED
    BY <1>3, <1>4, <1>5, <1>6

\* Opening and closing the network session.
LEMMA OtaOpenCloseSafe ==
  ASSUME TypeOK, Safe, OtaBack \/ OtaCloses \/ OpenOta
  PROVE  Safe'
  <1>1. UNCHANGED <<espVars, ota_image, sdVars>> /\ pc' = "top"
    BY DEF OtaBack, OtaCloses, OtaService, OtaStop, OpenOta, Normal, OtaBegin
  <1>2. /\ ~ota'.handle_open /\ ~ota'.receiving
        /\ ~ota'.file_done /\ ~ota'.success /\ ~ota.success
        /\ ota'.active => ~sd.active
    <2>1. CASE OtaBack \/ OtaCloses
      <3>1. ota' = [Closed EXCEPT !.attempted = ota.attempted] /\ ~ota.success
        BY <2>1 DEF OtaBack, OtaCloses, OtaService, OtaStop
      <3>2. QED
        BY <3>1 DEF Closed
    <2>2. CASE OpenOta
      <3>1. PICK faces \in BOOLEAN : OtaBegin(faces)
        BY <2>2 DEF OpenOta, Normal
      <3>2. \/ ota' = [[Closed EXCEPT !.active = TRUE, !.faces = faces] EXCEPT !.error = TRUE]
            \/ \E lan \in BOOLEAN :
                 ota' = [[Closed EXCEPT !.active = TRUE, !.faces = faces]
                           EXCEPT !.lan = lan, !.wifi_started = TRUE]
        BY <3>1 DEF OtaBegin
      <3>3. ~sd.active /\ ~ota.active
        BY <2>2 DEF OpenOta, Normal
      <3>4. ~ota.success
        BY <3>3 DEF Safe, SessionInv
      <3>5. QED
        BY <2>2, <3>2, <3>3, <3>4 DEF Closed
    <2>3. QED
      BY <2>1, <2>2
  <1>3. SlotsInv'
    BY <1>1, SlotsKept DEF Safe
  <1>4. SessionInv'
    BY <1>1, <1>2 DEF Safe, SessionInv, espVars, sdVars
  <1>5. ImageInv'
    BY <1>1, <1>2 DEF Safe, ImageInv, espVars, sdVars, Target, Other, HasMarker
  <1>6. QED
    BY <1>3, <1>4, <1>5 DEF Safe

-----------------------------------------------------------------------------
(* Uploads *)

\* The spare slot is none of the slots a boot depends on.
LEMMA TargetFacts ==
  ASSUME TypeOK, Running
  PROVE  /\ running \in Slots /\ Target \in Slots /\ Target # running
         /\ Other(Target) = running /\ Slots = {running, Target}
  BY DEF TypeOK, EspTypeOK, Running, Target, Other, Slots

LEMMA SpareWritten ==
  ASSUME TypeOK, SlotsInv, NEW data,
         selected = running, img_state[running] # "pending",
         flash' = [flash EXCEPT ![Target] = data],
         UNCHANGED <<img_state, selected, running, layout>>
  PROVE  SlotsInv' /\ flash'[Target] = data
  <1>1. /\ running \in Slots /\ Target \in Slots /\ Target # running
        /\ flash \in [Slots -> Seq(Units)]
    BY TargetFacts DEF SlotsInv, TypeOK, EspTypeOK
  <1>2. flash'[running] = flash[running] /\ flash'[Target] = data
    BY <1>1
  <1>3. Genuine(flash'[running])
    BY <1>2 DEF SlotsInv
  <1>4. QED
    BY <1>2, <1>3 DEF SlotsInv, Running, Genuine, HasMarker, Target

\* A session that is open and not finished has the spare slot to itself.
LEMMA UploadOwnsSpare ==
  ASSUME Safe, ota.active, ~ota.success
  PROVE  ~sd.active /\ sd.phase = "Idle" /\ ~sd.handle_open /\ selected = running
  BY DEF Safe, SessionInv

LEMMA UploadChunkSafe ==
  ASSUME TypeOK, Safe, NEW chunk \in Seq(Units), UploadChunk(chunk),
         ota.receiving, ota.active, ~ota.success,
         UNCHANGED <<img_state, selected, running, layout, sdVars>>
  PROVE  Safe'
  <1> DEFINE fed == Feed(ota_image, chunk)
             got == [ota EXCEPT !.received = @ + Len(chunk)]
             opened == [got EXCEPT !.handle_open = TRUE]
             held == ota_image.header
             opening == ~ota.handle_open /\ fed.bytes >= Len(Header)
             data == IF opening THEN HeaderAndRest(ota_image, chunk) ELSE chunk
             start == IF opening THEN <<>> ELSE flash[Target]
  <1>1. /\ ota \in OtaStates /\ ota_image \in OtaImageChecks
        /\ flash \in [Slots -> Seq(Units)] /\ flash[Target] \in Seq(Units)
        /\ Running /\ SlotsInv /\ SessionInv /\ ImageInv
    BY TargetFacts DEF TypeOK, OtaTypeOK, EspTypeOK, Safe, SlotsInv
  <1>2. /\ got \in OtaStates /\ got.active = ota.active /\ got.success = ota.success
        /\ got.handle_open = ota.handle_open /\ got.receiving = ota.receiving
        /\ got.file_done = ota.file_done /\ got.attempted = ota.attempted
        /\ got.error = ota.error
    <2>1. ota.received + Len(chunk) \in Nat
      BY <1>1 DEF OtaStates
    <2>2. got \in OtaStates
      BY <1>1, <2>1 DEF OtaStates
    <2>3. QED
      BY <1>1, <2>2 DEF OtaStates
  <1>3. /\ opened.active = ota.active /\ opened.success = ota.success
        /\ opened.handle_open = TRUE /\ opened.receiving = ota.receiving
        /\ opened.file_done = ota.file_done /\ opened.attempted = ota.attempted
        /\ opened.error = ota.error
    BY <1>2 DEF OtaStates
  <1>4. /\ Failed(got).active = ota.active /\ Failed(got).success = ota.success
        /\ Failed(got).handle_open = FALSE /\ Failed(got).receiving = FALSE
        /\ Failed(got).file_done = ota.file_done
        /\ Failed(got).attempted = ota.attempted
    BY <1>2, FailedFields
  <1>5. /\ fed.bytes = ota_image.bytes + Len(chunk)
        /\ fed.header = Take(held \o chunk, Len(Header))
        /\ fed.board_found <=> ota_image.board_found \/ HasMarker(chunk)
    BY DEF Feed
  <1>6. held \in Seq(Units) /\ ota_image.bytes \in Nat /\ Len(chunk) \in Nat
    BY <1>1 DEF OtaImageChecks
  <1>7. ~sd.active /\ sd.phase = "Idle" /\ ~sd.handle_open /\ selected = running
    BY UploadOwnsSpare
  <1> HIDE DEF fed, got, opened, data, start
  <1>8. ota_image' = fed
    BY DEF UploadChunk, fed
  <1>9. \/ /\ ~ota.handle_open /\ ~opening
           /\ ota' = got /\ flash' = flash
        \/ ota' = Failed(got) /\ flash' = flash
        \/ /\ ota.handle_open \/ (opening /\ EspBeginAllowed)
           /\ \/ /\ ota' = opened
                 /\ flash' = [flash EXCEPT ![Target] = start \o data]
              \/ /\ ota' = Failed(got)
                 /\ \E kept : flash' = [flash EXCEPT ![Target] = start \o Take(data, kept)]
    BY DEF UploadChunk, fed, got, opened, data, start
  <1>10. ota.handle_open \/ EspBeginAllowed => img_state[running] # "pending"
    BY <1>1 DEF SessionInv, EspBeginAllowed
  <1>11. SlotsInv'
    <2>1. CASE flash' = flash
      BY <1>1, <2>1, SlotsKept DEF espVars
    <2>2. CASE flash' # flash
      <3>1. img_state[running] # "pending"
            /\ \E d : flash' = [flash EXCEPT ![Target] = d]
        BY <1>9, <1>10, <2>2
      <3>2. QED
        BY <1>1, <1>7, <3>1, SpareWritten
    <2>3. QED
      BY <2>1, <2>2
  <1>12. /\ ota'.active = ota.active /\ ota'.success = ota.success
         /\ ota'.file_done = ota.file_done /\ ota'.attempted = ota.attempted
         /\ ota'.receiving => ota'.error = ota.error
         /\ ota'.handle_open => ota.handle_open \/ EspBeginAllowed
    BY <1>2, <1>3, <1>4, <1>9
  <1>13. SessionInv'
    BY <1>1, <1>7, <1>10, <1>12 DEF SessionInv, sdVars
  <1>14. ImageInv'
    <2>1. ASSUME ota'.receiving, ~ota'.handle_open
          PROVE  /\ ota_image'.bytes = Len(ota_image'.header)
                 /\ Len(ota_image'.header) < Len(Header)
                 /\ ota_image'.board_found => HasMarker(ota_image'.header)
      <3>1. ~ota.handle_open /\ ~opening
        BY <1>3, <1>4, <1>9, <2>1
      <3>2. /\ ota_image.bytes = Len(held)
            /\ ota_image.board_found => HasMarker(held)
        BY <1>1, <3>1 DEF ImageInv
      <3>3. /\ held \o chunk \in Seq(Units)
            /\ Len(held \o chunk) = Len(held) + Len(chunk)
        BY <1>6, ConcatProperties
      <3>4. Len(held \o chunk) < Len(Header)
        BY <1>5, <1>6, <3>1, <3>2, <3>3, HeaderFacts
      <3>5. fed.header = held \o chunk
        <4>1. ~(Len(Header) < Len(held \o chunk))
          BY <1>6, <3>3, <3>4, HeaderFacts
        <4>2. Take(held \o chunk, Len(Header)) = held \o chunk
          BY <3>3, <4>1 DEF Take
        <4>3. QED
          BY <1>5, <4>2
      <3>6. fed.board_found => HasMarker(fed.header)
        BY <1>5, <1>6, <3>2, <3>5, MarkerConcat
      <3>7. QED
        BY <1>5, <1>8, <3>2, <3>3, <3>4, <3>5, <3>6
    <2>2. ASSUME ota'.handle_open, ota_image'.board_found
          PROVE  HasMarker(flash'[Target'])
      <3>1. ota' = opened /\ flash' = [flash EXCEPT ![Target] = start \o data]
        BY <1>2, <1>4, <1>9, <2>2
      <3>2. flash'[Target] = start \o data /\ Target' = Target
        BY <1>1, <3>1, TargetFacts DEF Target
      <3>3. ota_image.board_found \/ HasMarker(chunk)
        BY <1>5, <1>8, <2>2
      <3>4. CASE ~opening
        <4>1. start = flash[Target] /\ data = chunk
          BY <3>4 DEF start, data
        <4>2. ota.handle_open
          BY <1>2, <1>3, <1>4, <1>9, <2>2, <3>4
        <4>3. HasMarker(flash[Target]) \/ HasMarker(chunk)
          BY <1>1, <3>3, <4>2 DEF ImageInv
        <4>4. HasMarker(flash[Target] \o chunk)
          BY <1>1, <4>3, MarkerConcat
        <4>5. QED
          BY <3>2, <4>1, <4>4
      <3>5. CASE opening
        <4>1. /\ ota_image.bytes = Len(held) /\ Len(held) < Len(Header)
              /\ ota_image.board_found => HasMarker(held)
          BY <1>1, <3>5 DEF ImageInv
        <4>2. Len(held) + Len(chunk) >= Len(Header)
          BY <1>5, <3>5, <4>1
        <4>3. data = held \o chunk
          <5>1. Len(Header) \in Nat
            BY HeaderFacts
          <5>2. Take(held \o chunk, Len(Header))
                  \o SubSeq(chunk, Len(Header) - Len(held) + 1, Len(chunk)) = held \o chunk
            BY <1>6, <4>1, <4>2, <5>1, HeaderThenRest
          <5>3. QED
            BY <1>5, <3>5, <5>2 DEF data, HeaderAndRest, fed
        <4>4. held \o chunk \in Seq(Units) /\ HasMarker(held \o chunk)
          BY <1>6, <3>3, <4>1, MarkerConcat
        <4>5. start = <<>>
          BY <3>5 DEF start
        <4>6. start \o data = held \o chunk
          BY <4>3, <4>4, <4>5
        <4>7. QED
          BY <3>2, <4>4, <4>6
      <3>6. QED
        BY <3>4, <3>5
    <2>3. sd' = sd
      BY DEF sdVars
    <2>4. QED
      BY <1>7, <2>1, <2>2, <2>3 DEF ImageInv
  <1>15. QED
    BY <1>11, <1>13, <1>14 DEF Safe

\* A file part that is accepted starts from a fresh check.
LEMMA UploadStartSafe ==
  ASSUME TypeOK, Safe, NEW declared \in 0..SlotSize + 1, NEW named \in BOOLEAN,
         UploadStart(declared, named), ota.active, ~ota.success,
         UNCHANGED <<espVars, sdVars>>
  PROVE  Safe'
  <1> DEFINE total == OtaImageSize(declared)
             fresh == [ota EXCEPT !.attempted = TRUE, !.error = FALSE,
                                  !.received = 0, !.total = total]
             begun == [fresh EXCEPT !.receiving = TRUE]
  <1>1. ota \in OtaStates /\ total \in 0..SlotSize
    BY SizeType, EspAssumption DEF TypeOK, OtaTypeOK
  <1> HIDE DEF total
  <1>2. /\ fresh \in OtaStates /\ fresh.active = ota.active /\ fresh.success = ota.success
        /\ fresh.handle_open = ota.handle_open /\ fresh.file_done = ota.file_done
        /\ fresh.attempted = TRUE /\ fresh.error = FALSE
    BY <1>1 DEF OtaStates
  <1>3. /\ begun.active = ota.active /\ begun.success = ota.success
        /\ begun.handle_open = ota.handle_open /\ begun.file_done = ota.file_done
        /\ begun.attempted = TRUE /\ begun.error = FALSE /\ begun.receiving = TRUE
    BY <1>2 DEF OtaStates
  <1>4. \/ ota.attempted /\ ota' = Failed(ota) /\ ota_image' = ota_image
        \/ ~ota.attempted /\ ota' \in {Failed(fresh), begun} /\ ota_image' = FreshCheck
    BY DEF UploadStart, total
  <1> HIDE DEF fresh, begun
  <1>5. /\ ota'.active = ota.active /\ ota'.success = ota.success
        /\ ota'.handle_open => ota.handle_open /\ ota_image' = FreshCheck
        /\ ota'.receiving => ~ota.attempted /\ ~ota'.error /\ ota_image' = FreshCheck
        /\ ota'.file_done = ota.file_done
        /\ ota'.attempted
    BY <1>1, <1>2, <1>3, <1>4, FailedFields
  <1>6. SlotsInv'
    BY SlotsKept DEF Safe
  <1>7. SessionInv'
    BY <1>5 DEF Safe, SessionInv, espVars, sdVars
  <1>8. ImageInv'
    BY <1>5, HeaderFacts, EmptyStream
    DEF Safe, ImageInv, espVars, sdVars, FreshCheck, HasMarker, Target, Other
  <1>9. QED
    BY <1>6, <1>7, <1>8 DEF Safe

LEMMA UploadEventSafe ==
  ASSUME TypeOK, Safe, UploadEvent
  PROVE  Safe'
  <1>1. /\ ota \in OtaStates /\ request \in Requests
        /\ UNCHANGED <<img_state, selected, running, layout, sdVars>>
    BY DEF TypeOK, OtaTypeOK, UploadEvent, OutsideUpload
  <1>2. pc = "request" /\ ota.active /\ ~ota.success
    BY DEF UploadEvent, Safe, SessionInv
  <1>3. /\ ota.receiving => ota.attempted /\ ~ota.error
        /\ ota.file_done => ota.attempted /\ ~ota.receiving
    BY DEF Safe, SessionInv
  <1>4. ASSUME ota' \in {ota, Failed(ota)}, UNCHANGED <<ota_image, flash>>
        PROVE  Safe'
    <2>1. OtaQuiet
      BY <1>1, <1>2, <1>3, <1>4, FailedFields DEF OtaQuiet, espVars
    <2>2. QED
      BY <2>1, QuietSafe
  <1>5. CASE \E body \in Bodies, declared \in 0..SlotSize + 1, named \in BOOLEAN :
               PartStart(body, declared, named)
    <2>1. PICK body \in Bodies, declared \in 0..SlotSize + 1, named \in BOOLEAN :
                 PartStart(body, declared, named)
      BY <1>5
    <2>2. \/ UNCHANGED <<ota, ota_image, flash>>
          \/ UploadStart(declared, named) /\ UNCHANGED flash
      BY <2>1 DEF PartStart, Denied
    <2>3. CASE UploadStart(declared, named) /\ UNCHANGED flash
      BY <1>1, <1>2, <2>3, UploadStartSafe DEF espVars
    <2>4. QED
      BY <1>4, <2>2, <2>3
  <1>6. CASE \E size \in 1..SlotSize : PartWrite(size)
    <2>1. PICK size \in 1..SlotSize : PartWrite(size)
      BY <1>6
    <2> DEFINE sent == request.sent + size
               chunk == SubSeq(request.body, request.sent + 1, sent)
    <2>2. chunk \in Seq(Units)
      <3>1. sent \in Nat /\ sent <= Len(request.body)
        BY <1>1, <2>1, EspAssumption DEF PartWrite, Requests
      <3>2. QED
        BY <1>1, <3>1, SubSeqType DEF Requests
    <2>3. \/ ota' \in {ota, Failed(ota)} /\ UNCHANGED <<ota_image, flash>>
          \/ ota.receiving /\ UploadChunk(chunk)
      BY <2>1 DEF PartWrite, Denied, UploadWrite
    <2> HIDE DEF chunk
    <2>4. CASE ota.receiving /\ UploadChunk(chunk)
      BY <1>1, <1>2, <2>2, <2>4, UploadChunkSafe
    <2>5. QED
      BY <1>4, <2>3, <2>4
  <1>7. CASE PartEnd
    <2> DEFINE done == [ota EXCEPT !.file_done = TRUE, !.receiving = FALSE]
    <2>1. /\ done.active = ota.active /\ done.success = ota.success
          /\ done.handle_open = ota.handle_open /\ done.receiving = FALSE
          /\ done.attempted = ota.attempted
      BY <1>1 DEF OtaStates
    <2>2. \/ ota' = ota
          \/ ota' = done /\ ota.receiving
      BY <1>7 DEF PartEnd, Denied, UploadEnd
    <2>3. UNCHANGED <<ota_image, flash>>
      BY <1>7 DEF PartEnd, Denied
    <2> HIDE DEF done
    <2>4. ota.receiving => ota.attempted
      BY DEF Safe, SessionInv
    <2>5. OtaQuiet
      BY <1>1, <1>2, <1>3, <2>1, <2>2, <2>3, <2>4 DEF OtaQuiet, espVars
    <2>6. QED
      BY <2>5, QuietSafe
  <1>8. CASE PartAborted
    <2>1. ota' \in {ota, Failed(ota)} /\ UNCHANGED <<ota_image, flash>>
      BY <1>8 DEF PartAborted, Denied
    <2>2. QED
      BY <1>4, <2>1
  <1>9. QED
    BY <1>5, <1>6, <1>7, <1>8 DEF UploadEvent

\* Selecting a whole image of this board arms a trial and nothing else.
LEMMA SelectSafe ==
  ASSUME TypeOK, SlotsInv, selected = running, img_state[running] # "pending",
         EspSelect(Target, flash'[Target]), HasMarker(flash'[Target]),
         UNCHANGED <<running, layout>>, flash'[running] = flash[running]
  PROVE  SlotsInv' /\ selected' # running'
  <1>1. /\ running \in Slots /\ Target \in Slots /\ Target # running
        /\ img_state \in [Slots -> ImageStates]
    BY TargetFacts DEF SlotsInv, TypeOK, EspTypeOK
  <1>2. selected' = Target /\ img_state' = [img_state EXCEPT ![Target] = "new"]
        /\ Genuine(flash'[Target])
    BY DEF EspSelect, Genuine
  <1>3. Genuine(flash'[running])
    BY DEF SlotsInv
  <1>4. img_state'[running] = img_state[running] /\ img_state'[Target] = "new"
    BY <1>1, <1>2
  <1>5. QED
    BY <1>1, <1>2, <1>3, <1>4 DEF SlotsInv, Running, Genuine, HasMarker

LEMMA UploadReturnsSafe ==
  ASSUME TypeOK, Safe, UploadReturns
  PROVE  Safe'
  <1>1. /\ ota \in OtaStates /\ pc = "request" /\ pc' = "top"
        /\ UNCHANGED <<running, layout, sdVars, ota_image, flash>>
    BY DEF TypeOK, OtaTypeOK, UploadReturns, OutsideUpload, Finish, RequestDropped
  <1>2. /\ ota.receiving => ota.attempted /\ ~ota.error
        /\ ota.file_done => ota.attempted /\ ~ota.receiving
        /\ ota.active /\ ~ota.success
    BY <1>1 DEF Safe, SessionInv
  <1> DEFINE ended == [ota EXCEPT !.handle_open = FALSE, !.success = TRUE]
  <1>3. /\ ended.active = ota.active /\ ended.success = TRUE
        /\ ended.handle_open = FALSE /\ ended.receiving = ota.receiving
        /\ ended.file_done = ota.file_done /\ ended.attempted = ota.attempted
        /\ ended.error = ota.error
    BY <1>1 DEF OtaStates
  <1>4. \/ /\ ota' \in {PollTail(ota), PollTail(Failed(ota))}
           /\ UNCHANGED <<img_state, selected>>
        \/ Complete /\ EspSelect(Target, flash[Target]) /\ ota' = ended
    BY DEF UploadReturns, Finish, RequestDropped
  <1> HIDE DEF ended
  <1>5. CASE /\ ota' \in {PollTail(ota), PollTail(Failed(ota))}
             /\ UNCHANGED <<img_state, selected>>
    <2>1. Failed(ota) \in OtaStates
      BY <1>1, FailedType
    <2>2. \/ ota' = ota
          \/ /\ ota'.active = ota.active /\ ota'.success = ota.success
             /\ ota'.attempted = ota.attempted /\ ota'.file_done = ota.file_done
             /\ ota'.handle_open = FALSE /\ ota'.receiving = FALSE
      BY <1>1, <1>5, <2>1, FailedFields
    <2>3. OtaQuiet
      BY <1>1, <1>2, <1>5, <2>2 DEF OtaQuiet, espVars
    <2>4. QED
      BY <2>3, QuietSafe
  <1>6. CASE Complete /\ EspSelect(Target, flash[Target]) /\ ota' = ended
    <2>1. ~sd.active /\ sd.phase = "Idle" /\ ~sd.handle_open /\ selected = running
      BY <1>2, UploadOwnsSpare
    <2>2. ota.file_done /\ ota.handle_open /\ ota_image.board_found
      BY <1>6 DEF Complete
    <2>3. HasMarker(flash[Target]) /\ img_state[running] # "pending"
      BY <2>2 DEF Safe, ImageInv, SessionInv
    <2>4. SlotsInv' /\ selected' # running'
      BY <1>1, <1>6, <2>1, <2>3, SelectSafe DEF Safe
    <2>5. SessionInv'
      BY <1>1, <1>2, <1>3, <1>6, <2>1, <2>4 DEF SessionInv, sdVars
    <2>6. ImageInv'
      BY <1>1, <1>2, <1>3, <1>6, <2>1, <2>2 DEF ImageInv, sdVars
    <2>7. QED
      BY <2>4, <2>5, <2>6 DEF Safe
  <1>7. QED
    BY <1>4, <1>5, <1>6

-----------------------------------------------------------------------------
(* The card session *)

\* A step of the card session that writes and selects nothing and leaves no
\* handle open.
SdQuiet ==
  /\ UNCHANGED <<espVars, otaVars>>
  /\ ~sd'.handle_open
  /\ sd'.phase = "Success" <=> sd.phase = "Success"
  /\ sd'.active => ~ota.active
  /\ ~sd'.active => sd'.phase = "Idle"
  /\ sd'.phase = "Writing" => ~sd_image'.board_found
  /\ pc' \in {"top", "poll"}

LEMMA SdQuietSafe ==
  ASSUME Safe, SdQuiet
  PROVE  Safe'
  <1>1. SlotsInv'
    BY SlotsKept DEF Safe, SdQuiet
  <1>2. SessionInv'
    BY DEF Safe, SdQuiet, SessionInv, espVars, otaVars
  <1>3. ImageInv'
    BY DEF Safe, SdQuiet, ImageInv, espVars, otaVars, Target, Other, HasMarker
  <1>4. QED
    BY <1>1, <1>2, <1>3 DEF Safe

\* A step that touches neither the slots nor a session.
LEMMA IdleSafe ==
  ASSUME Safe, UNCHANGED <<espVars, ota, ota_image, sdVars>>,
         pc' \in {"request", "deadline"} => pc \in {"request", "deadline"}
  PROVE  Safe'
  <1>1. SlotsInv'
    BY SlotsKept DEF Safe
  <1>2. SessionInv' /\ ImageInv'
    BY DEF Safe, SessionInv, ImageInv, espVars, sdVars, Target, Other, HasMarker
  <1>3. QED
    BY <1>1, <1>2 DEF Safe

\* Failing keeps the session open without a handle.
LEMMA SdFailFields ==
  ASSUME NEW s \in SdStates
  PROVE  LET f == [s EXCEPT !.phase = "Failed", !.handle_open = FALSE, !.owned = FALSE]
         IN f.active = s.active /\ f.phase = "Failed" /\ ~f.handle_open
  BY DEF SdStates

\* transfer writes the spare slot: the confirmed session owns it.
LEMMA SdOwnsSpare ==
  ASSUME Safe, sd.phase = "Writing", sd.handle_open \/ EspBeginAllowed
  PROVE  /\ sd.active /\ ~ota.active /\ ~ota.handle_open /\ ~ota.success
         /\ selected = running /\ img_state[running] # "pending"
  BY DEF Safe, SessionInv, EspBeginAllowed

LEMMA SdPollSafe ==
  ASSUME TypeOK, Safe, SdPoll, sd.active, UNCHANGED otaVars, pc' = "top"
  PROVE  Safe'
  <1>1. /\ sd \in SdStates /\ sd_image \in OtaImageChecks
        /\ Running /\ flash \in [Slots -> Seq(Units)] /\ flash[Target] \in Seq(Units)
    BY TargetFacts DEF TypeOK, SdTypeOK, EspTypeOK, Safe, SlotsInv
  <1>2. ~ota.active /\ ~ota.handle_open /\ ~ota.success
    BY DEF Safe, SessionInv
  <1>3. /\ sd.phase # "Writing" => ~sd.handle_open
        /\ sd.phase = "Success" <=> selected # running
        /\ SlotsInv /\ SessionInv /\ ImageInv
    BY <1>2 DEF Safe, SessionInv
  <1>4. ASSUME NEW s \in SdStates, s.active = sd.active, sd.phase # "Success",
               sd' = [s EXCEPT !.phase = "Failed", !.handle_open = FALSE, !.owned = FALSE],
               UNCHANGED espVars
        PROVE  Safe'
    <2>1. sd'.active /\ sd'.phase = "Failed" /\ ~sd'.handle_open
      BY <1>4, SdFailFields
    <2>2. SdQuiet
      BY <1>2, <1>4, <2>1 DEF SdQuiet
    <2>3. QED
      BY <2>2, SdQuietSafe
  <1>5. CASE UNCHANGED <<sdVars, sd_owner, espVars>>
    BY <1>5, IdleSafe DEF otaVars
  <1>6. CASE SdFail /\ UNCHANGED espVars /\ sd.phase # "Success"
    BY <1>1, <1>4, <1>6 DEF SdFail
  <1>7. CASE OpenCard /\ UNCHANGED espVars /\ sd.phase = "Waiting"
    <2>1. \/ sd' = sd
          \/ sd' = [sd EXCEPT !.owned = TRUE, !.total = Len(card), !.phase = "Checking"]
          \/ sd' = [sd EXCEPT !.phase = "Failed"]
          \/ sd' = [sd EXCEPT !.phase = "Failed", !.total = Len(card)]
      BY <1>7 DEF OpenCard, SdAcquire
    <2>2. /\ sd'.active = sd.active /\ sd'.handle_open = sd.handle_open
          /\ sd'.phase \in {"Waiting", "Checking", "Failed"}
      BY <1>1, <1>7, <2>1 DEF SdStates
    <2>3. SdQuiet
      BY <1>2, <1>3, <1>7, <2>2 DEF SdQuiet
    <2>4. QED
      BY <2>3, SdQuietSafe
  <1>8. CASE CheckChunk
    <2>1. /\ sd'.active = sd.active /\ sd'.handle_open = sd.handle_open
          /\ sd'.phase \in {"Checking", "Ready"}
      BY <1>1, <1>8 DEF CheckChunk, SdStates
    <2>2. SdQuiet
      BY <1>2, <1>3, <1>8, <2>1 DEF CheckChunk, SdQuiet
    <2>3. QED
      BY <2>2, SdQuietSafe
  <1>9. CASE ReadFails \/ CheckFails
    <2>1. \E s \in SdStates : TransferFail(s) /\ s.active = sd.active
      <3>1. CASE TransferFail(sd)
        BY <1>1, <3>1
      <3>2. CASE CheckFails /\ ~TransferFail(sd)
        <4> DEFINE n == sd.checked + Len(NextChunk)
        <4>1. NextChunk \in Seq(Units)
          BY <3>2, NextChunkType DEF CheckFails
        <4>2. n \in Nat
          BY <1>1, <4>1 DEF SdStates
        <4>3. TransferFail([sd EXCEPT !.checked = n])
          BY <3>2 DEF CheckFails
        <4> HIDE DEF n
        <4>4. [sd EXCEPT !.checked = n] \in SdStates
              /\ [sd EXCEPT !.checked = n].active = sd.active
          BY <1>1, <4>2 DEF SdStates
        <4>5. QED
          BY <4>3, <4>4
      <3>3. QED
        BY <1>9, <3>1, <3>2 DEF ReadFails
    <2>2. sd.phase # "Success" /\ UNCHANGED flash
      BY <1>9 DEF ReadFails, CheckFails
    <2>3. QED
      BY <1>4, <2>1, <2>2 DEF TransferFail, espVars
  <1>10. CASE WriteFails
    <2>1. TransferFail(sd) /\ sd.phase = "Writing"
      BY <1>10 DEF WriteFails
    <2>2. CASE UNCHANGED flash
      BY <1>1, <1>4, <2>1, <2>2 DEF TransferFail, espVars
    <2>3. CASE flash' # flash
      <3>1. PICK data : /\ flash' = [flash EXCEPT ![Target] = data]
                        /\ sd.handle_open \/ EspBeginAllowed
        BY <1>10, <2>3 DEF WriteFails
      <3>2. SlotsInv'
        BY <1>3, <2>1, <3>1, SdOwnsSpare, SpareWritten DEF TransferFail
      <3>3. sd'.active /\ sd'.phase = "Failed" /\ ~sd'.handle_open
        BY <1>1, <2>1, SdFailFields DEF TransferFail
      <3>4. SessionInv'
        BY <1>2, <1>3, <2>1, <3>3 DEF TransferFail, SessionInv, otaVars
      <3>5. ImageInv'
        BY <1>2, <1>3, <3>3 DEF ImageInv, otaVars
      <3>6. QED
        BY <3>2, <3>4, <3>5 DEF Safe
    <2>4. QED
      BY <2>2, <2>3
  <1>11. CASE WriteChunk \/ WriteLast
    <2> DEFINE start == IF sd.handle_open THEN flash[Target] ELSE <<>>
               image == start \o NextChunk
               fed == Feed(sd_image, NextChunk)
    <2>1. /\ sd.phase = "Writing" /\ Readable
          /\ sd.handle_open \/ EspBeginAllowed
          /\ sd_image' = fed
          /\ flash' = [flash EXCEPT ![Target] = image]
          /\ UNCHANGED <<running, layout>>
      BY <1>11 DEF WriteChunk, WriteLast
    <2>2. NextChunk \in Seq(Units) /\ start \in Seq(Units)
      BY <1>1, <2>1, NextChunkType, EmptyStream
    <2>3. /\ ~ota.active /\ ~ota.handle_open /\ ~ota.success
          /\ selected = running /\ img_state[running] # "pending"
      BY <2>1, SdOwnsSpare
    <2>4. fed.board_found => HasMarker(image)
      <3>1. fed.board_found <=> sd_image.board_found \/ HasMarker(NextChunk)
        BY DEF Feed
      <3>2. sd_image.board_found => HasMarker(start)
        BY <1>3, <2>1 DEF ImageInv
      <3>3. QED
        BY <2>2, <3>1, <3>2, MarkerConcat
    <2> HIDE DEF start, image, fed
    <2>5. /\ Target \in Slots /\ Target # running /\ Target' = Target
          /\ flash'[running] = flash[running] /\ flash'[Target] = image
      BY <1>1, <2>1, TargetFacts DEF Target
    <2>6. CASE WriteChunk
      <3>1. UNCHANGED <<img_state, selected>>
        BY <2>6 DEF WriteChunk
      <3>2. SlotsInv'
        BY <1>3, <2>1, <2>3, <3>1, SpareWritten
      <3>3. sd'.active = sd.active /\ sd'.phase = sd.phase /\ sd'.handle_open
        BY <1>1, <2>6 DEF WriteChunk, SdStates
      <3>4. SessionInv'
        BY <1>3, <2>1, <2>3, <3>1, <3>3 DEF SessionInv, otaVars
      <3>5. ImageInv'
        BY <1>3, <2>1, <2>3, <2>4, <2>5, <3>3 DEF ImageInv, otaVars
      <3>6. QED
        BY <3>2, <3>4, <3>5 DEF Safe
    <2>7. CASE WriteLast
      <3>1. \/ /\ fed.board_found /\ EspSelect(Target, image)
               /\ sd' = [sd EXCEPT !.phase = "Success", !.written = sd.total,
                                   !.handle_open = FALSE, !.owned = FALSE]
            \/ /\ UNCHANGED <<img_state, selected>>
               /\ sd' = [sd EXCEPT !.phase = "Failed", !.written = sd.total,
                                   !.handle_open = FALSE, !.owned = FALSE]
        BY <2>7 DEF WriteLast, Compatible, fed, image, start
      <3>2. /\ sd'.active = sd.active /\ ~sd'.handle_open
            /\ sd'.phase \in {"Success", "Failed"}
        BY <1>1, <3>1 DEF SdStates
      <3>3. SlotsInv' /\ (sd'.phase = "Success" <=> selected' # running')
        <4>1. CASE UNCHANGED <<img_state, selected>> /\ sd'.phase = "Failed"
          BY <1>3, <2>1, <2>3, <4>1, SpareWritten
        <4>2. CASE /\ EspSelect(Target, image) /\ fed.board_found
                   /\ sd'.phase = "Success"
          BY <1>3, <2>1, <2>3, <2>4, <2>5, <4>2, SelectSafe
        <4>3. QED
          BY <1>1, <3>1, <4>1, <4>2 DEF SdStates
      <3>4. SessionInv'
        BY <1>3, <2>1, <2>3, <3>2, <3>3 DEF SessionInv, otaVars
      <3>5. ImageInv'
        BY <1>3, <2>3, <3>2 DEF ImageInv, otaVars
      <3>6. QED
        BY <3>3, <3>4, <3>5 DEF Safe
    <2>8. QED
      BY <1>11, <2>6, <2>7
  <1>12. QED
    BY <1>5, <1>6, <1>7, <1>8, <1>9, <1>10, <1>11 DEF SdPoll

\* The steps of the card session.
LEMMA SdStepSafe ==
  ASSUME TypeOK, Safe, SdPollStep \/ SdBack \/ SdStart \/ OpenSd
  PROVE  Safe'
  <1>1. sd \in SdStates
    BY DEF TypeOK, SdTypeOK
  <1>2. CASE SdPollStep
    <2>1. CASE sd.active
      BY <1>2, <2>1, SdPollSafe DEF SdPollStep, SdService
    <2>2. CASE ~sd.active
      <3>1. sd.phase = "Idle"
        BY <2>2 DEF Safe, SessionInv
      <3>2. UNCHANGED <<sdVars, espVars, otaVars>> /\ pc' = "top"
        BY <1>2, <3>1 DEF SdPollStep, SdService, SdPoll, CheckChunk, WriteChunk,
                          WriteLast, ReadFails, CheckFails, WriteFails
      <3>3. QED
        BY <3>2, IdleSafe DEF otaVars
    <2>3. QED
      BY <2>1, <2>2
  <1>3. CASE SdBack
    <2>1. UNCHANGED <<espVars, otaVars, sd_image>> /\ pc' = "poll"
      BY <1>3 DEF SdBack, SdTap, SdService, SdStop
    <2>2. CASE sd.phase = "Success"
      <3>1. sd' = sd
        BY <1>3, <2>2 DEF SdBack, SdTap, SdService, SdStop
      <3>2. QED
        BY <2>1, <3>1, IdleSafe DEF otaVars, sdVars
    <2>3. CASE sd.phase # "Success"
      <3>1. sd' = SdClosed
        BY <1>3, <2>3 DEF SdBack, SdTap, SdService, SdStop
      <3>2. SdQuiet
        BY <2>1, <2>3, <3>1 DEF SdQuiet, SdClosed
      <3>3. QED
        BY <3>2, SdQuietSafe
    <2>4. QED
      BY <2>2, <2>3
  <1>4. CASE SdStart
    <2>1. /\ sd.active /\ sd.phase = "Ready"
          /\ sd' = [sd EXCEPT !.phase = "Writing"] /\ sd_image' = FreshCheck
          /\ UNCHANGED <<espVars, otaVars>> /\ pc' = "poll"
      BY <1>4 DEF SdStart, SdTap, SdService, SdConfirm
    <2>2. /\ sd'.active = sd.active /\ sd'.phase = "Writing"
          /\ sd'.handle_open = sd.handle_open
      BY <1>1, <2>1 DEF SdStates
    <2>3. ~sd.handle_open /\ ~ota.active
      BY <2>1 DEF Safe, SessionInv
    <2>4. SdQuiet
      BY <2>1, <2>2, <2>3 DEF SdQuiet, FreshCheck
    <2>5. QED
      BY <2>4, SdQuietSafe
  <1>5. CASE OpenSd
    <2>1. /\ ~sd.active /\ ~ota.active
          /\ \E ph \in {"Waiting", "Failed"} :
               sd' = [SdClosed EXCEPT !.active = TRUE, !.phase = ph]
          /\ UNCHANGED <<espVars, otaVars>> /\ pc' = "top"
      BY <1>5 DEF OpenSd, Normal, SdBegin
    <2>2. sd.phase = "Idle"
      BY <2>1 DEF Safe, SessionInv
    <2>3. sd'.active /\ sd'.phase \in {"Waiting", "Failed"} /\ ~sd'.handle_open
      BY <2>1 DEF SdClosed
    <2>4. SdQuiet
      BY <2>1, <2>2, <2>3 DEF SdQuiet
    <2>5. QED
      BY <2>4, SdQuietSafe
  <1>6. QED
    BY <1>2, <1>3, <1>4, <1>5

-----------------------------------------------------------------------------
(* Boot, time and the rest of the world *)

\* Confirming the running image moves no slot out of reach.
LEMMA LoopTopSafe ==
  ASSUME TypeOK, Safe, LoopTop
  PROVE  Safe'
  <1>1. /\ UNCHANGED <<flash, selected, running, layout, ota, ota_image, sdVars>>
        /\ pc' = "service"
        /\ img_state' = img_state \/ (img_state[running] = "pending" /\ EspConfirm)
    BY DEF LoopTop, OtaBootPoll, sessionVars, otaVars
  <1>2. CASE img_state' = img_state
    BY <1>1, <1>2, IdleSafe DEF espVars
  <1>3. CASE img_state[running] = "pending" /\ EspConfirm
    <2>1. /\ running \in Slots /\ img_state'[running] = "valid"
          /\ \A s \in Slots \ {running} : img_state'[s] = img_state[s]
      BY <1>3, TargetFacts DEF Safe, SlotsInv, TypeOK, EspTypeOK, EspConfirm
    <2>2. selected = running
      BY <1>3 DEF Safe, SlotsInv
    <2>3. SlotsInv'
      BY <1>1, <2>1, <2>2 DEF Safe, SlotsInv, Running, Genuine, HasMarker
    <2>4. SessionInv'
      BY <1>1, <2>1 DEF Safe, SessionInv, sdVars
    <2>5. ImageInv'
      BY <1>1 DEF Safe, ImageInv, sdVars, Target, Other, HasMarker
    <2>6. QED
      BY <2>3, <2>4, <2>5 DEF Safe
  <1>4. QED
    BY <1>1, <1>2, <1>3

\* The bootloader always finds a whole image of this board to start: the
\* selected one, or the one an abandoned trial would have replaced.
LEMMA BootSafe ==
  ASSUME TypeOK, SlotsInv, EspBoot, UNCHANGED flash
  PROVE  SlotsInv' /\ selected' = running'
  <1>1. /\ running \in Slots /\ selected \in Slots /\ Target \in Slots
        /\ Target # running /\ Other(Target) = running /\ Slots = {running, Target}
        /\ img_state \in [Slots -> ImageStates] /\ Other(running) = Target
    BY TargetFacts DEF SlotsInv, TypeOK, EspTypeOK, Target
  <1>2. \A s \in Slots : Genuine(flash[s]) => flash[s] \in Intact
    BY DEF Genuine
  <1> DEFINE judged == IF img_state[selected] = "pending"
                       THEN [img_state EXCEPT ![selected] = "aborted"] ELSE img_state
             bootable == {s \in Slots : judged[s] # "aborted" /\ flash[s] \in Intact}
             choice == IF selected \in bootable THEN selected ELSE Other(selected)
  <1>3. /\ choice \in bootable =>
              /\ running' = choice /\ selected' = choice
              /\ img_state' = [judged EXCEPT ![choice] = IF @ = "new" THEN "pending" ELSE @]
    BY DEF EspBoot
  <1>4. judged \in [Slots -> ImageStates]
    BY <1>1 DEF ImageStates
  <1>5. ASSUME NEW s \in Slots, choice = s, s \in bootable, Genuine(flash[s]),
               judged[s] \in {"undefined", "new", "valid"},
               judged[s] = "new" =>
                 /\ Genuine(flash[Other(s)])
                 /\ judged[Other(s)] \in {"undefined", "valid"}
        PROVE  SlotsInv' /\ selected' = running'
    <2> HIDE DEF judged, bootable, choice
    <2>1. /\ running' = s /\ selected' = s /\ Other(s) \in Slots /\ Other(s) # s
          /\ img_state'[s] = IF judged[s] = "new" THEN "pending" ELSE judged[s]
          /\ img_state'[Other(s)] = judged[Other(s)]
      BY <1>3, <1>4, <1>5 DEF Other, Slots
    <2>2. Target' = Other(s)
      BY <2>1 DEF Target
    <2>3. \A i \in Slots : Genuine(flash'[i]) <=> Genuine(flash[i])
      OBVIOUS
    <2>4. QED
      BY <1>5, <2>1, <2>2, <2>3 DEF SlotsInv, Running, NoSlot, Slots
  <1>6. CASE selected # running
    <2>1. selected = Target /\ img_state[selected] = "new" /\ judged = img_state
      BY <1>1, <1>6 DEF SlotsInv
    <2>2. selected \in bootable /\ choice = selected
      BY <1>1, <1>2, <2>1 DEF SlotsInv
    <2>3. /\ Genuine(flash[running])
          /\ img_state[running] \in {"undefined", "valid"}
      BY <1>6 DEF SlotsInv
    <2>4. Genuine(flash[selected])
      BY DEF SlotsInv
    <2>5. Other(selected) = running
      BY <1>1, <2>1
    <2> HIDE DEF judged, bootable, choice
    <2>6. QED
      BY <1>1, <1>5, <2>1, <2>2, <2>3, <2>4, <2>5
  <1>7. CASE selected = running /\ img_state[running] # "pending"
    <2>1. judged = img_state /\ img_state[selected] \in {"undefined", "valid"}
      BY <1>7 DEF SlotsInv
    <2>2. selected \in bootable /\ choice = selected /\ Genuine(flash[selected])
      BY <1>1, <1>2, <2>1 DEF SlotsInv
    <2> HIDE DEF judged, bootable, choice
    <2>3. QED
      BY <1>1, <1>5, <2>1, <2>2
  <1>8. CASE selected = running /\ img_state[running] = "pending"
    <2>1. /\ judged[running] = "aborted" /\ judged[Target] = img_state[Target]
          /\ Genuine(flash[Target]) /\ img_state[Target] \in {"undefined", "valid"}
      BY <1>1, <1>8 DEF SlotsInv
    <2>2. selected \notin bootable /\ Target \in bootable /\ choice = Target
      BY <1>1, <1>2, <1>8, <2>1
    <2> HIDE DEF judged, bootable, choice
    <2>3. QED
      BY <1>1, <1>5, <2>1, <2>2
  <1>9. QED
    BY <1>6, <1>7, <1>8

LEMMA ResetSafe ==
  ASSUME TypeOK, Safe, Reset
  PROVE  Safe'
  <1>1. SlotsInv' /\ selected' = running'
    BY BootSafe DEF Safe, Reset
  <1>2. /\ ota' = Closed /\ ota_image' = FreshCheck
        /\ sd' = SdClosed /\ sd_image' = FreshCheck /\ pc' = "top"
    BY DEF Reset
  <1>3. SessionInv' /\ ImageInv'
    BY <1>1, <1>2 DEF SessionInv, ImageInv, Closed, SdClosed, FreshCheck
  <1>4. QED
    BY <1>1, <1>3 DEF Safe

LEMMA TickSafe ==
  ASSUME TypeOK, Safe, Tick
  PROVE  Safe'
  <1>1. /\ UNCHANGED <<espVars, ota_image, sd_image, pc>>
        /\ ota'.active = ota.active /\ ota'.success = ota.success
        /\ ota'.handle_open = ota.handle_open /\ ota'.receiving = ota.receiving
        /\ ota'.error = ota.error /\ ota'.file_done = ota.file_done
        /\ ota'.attempted = ota.attempted
    BY DEF Tick, TypeOK, OtaTypeOK, OtaStates
  <1>2. /\ sd'.active = sd.active /\ sd'.phase = sd.phase
        /\ sd'.handle_open = sd.handle_open
    BY DEF Tick, TypeOK, SdTypeOK, SdStates
  <1>3. SlotsInv'
    BY <1>1, SlotsKept DEF Safe
  <1>4. SessionInv'
    BY <1>1, <1>2 DEF Safe, SessionInv, espVars
  <1>5. ImageInv'
    BY <1>1, <1>2 DEF Safe, ImageInv, espVars, Target, Other, HasMarker
  <1>6. QED
    BY <1>3, <1>4, <1>5 DEF Safe

LEMMA NextSafe == TypeOK /\ Safe /\ [Next]_vars => TypeOK' /\ Safe'
  <1> SUFFICES ASSUME TypeOK, Safe, [Next]_vars PROVE TypeOK' /\ Safe'
    OBVIOUS
  <1>1. TypeOK'
    BY NextType
  <1>2. CASE LoopTop
    BY <1>1, <1>2, LoopTopSafe
  <1>3. CASE SdPollStep \/ SdBack \/ SdStart \/ OpenSd
    BY <1>1, <1>3, SdStepSafe
  <1>4. CASE OtaIdle \/ OtaRestartWait \/ OtaFirmwareMode \/ UploadArrives
               \/ UploadChecksDeadline
    BY <1>1, <1>4, OtaQuietSteps
  <1>5. CASE OtaBack \/ OtaCloses \/ OpenOta
    BY <1>1, <1>5, OtaOpenCloseSafe
  <1>6. CASE UploadEvent
    BY <1>1, <1>6, UploadEventSafe
  <1>7. CASE UploadReturns
    BY <1>1, <1>7, UploadReturnsSafe
  <1>8. CASE NormalLoop \/ Surroundings \/ UNCHANGED vars
    <2>1. /\ UNCHANGED <<espVars, ota, ota_image, sdVars>>
          /\ pc' = "top" \/ pc' = pc
      BY <1>8 DEF NormalLoop, Normal, Surroundings, sessionVars, otaVars, vars
    <2>2. QED
      BY <1>1, <2>1, IdleSafe
  <1>9. CASE Tick
    BY <1>1, <1>9, TickSafe
  <1>10. CASE Restart \/ PowerCycle
    BY <1>1, <1>10, ResetSafe DEF Restart, PowerCycle
  <1>11. QED
    BY <1>1, <1>2, <1>3, <1>4, <1>5, <1>6, <1>7, <1>8, <1>9, <1>10 DEF Next, Main

-----------------------------------------------------------------------------
(* The theorems *)

LEMMA SafeAlways == Spec => [](TypeOK /\ Safe)
  <1>1. QED
    BY InitType, InitSafe, NextSafe, PTL DEF Spec

\* The device always boots: whatever a client sends, whatever is on the card
\* and wherever power is lost, the selected slot holds an image ESP-IDF accepts
\* and that was built for this board (ota_update.cpp finish, sd_update.cpp finish).
THEOREM AlwaysBootable == Spec => []SelectedIsGenuine
  <1>1. TypeOK /\ Safe => SelectedIsGenuine
    BY DEF Safe, SlotsInv, SelectedIsGenuine
  <1>2. QED
    BY <1>1, SafeAlways, PTL

\* Until a new image is confirmed the image it replaces stays whole and
\* bootable, so a rollback always has something to return to.
THEOREM RollbackPossible == Spec => []FallbackKept
  <1>1. ASSUME TypeOK, Safe PROVE FallbackKept
    <2>1. /\ running \in Slots /\ selected \in Slots /\ Target = Other(running)
          /\ Other(Target) = running /\ Slots = {running, Target}
      BY <1>1, TargetFacts DEF Safe, SlotsInv, TypeOK, EspTypeOK, Target
    <2>2. CASE selected = running
      BY <1>1, <2>1, <2>2 DEF Safe, SlotsInv, FallbackKept, OnTrial
    <2>3. CASE selected # running
      BY <1>1, <2>1, <2>3 DEF Safe, SlotsInv, FallbackKept, OnTrial
    <2>4. QED
      BY <2>2, <2>3
  <1>2. QED
    BY <1>1, SafeAlways, PTL

\* A reported success and a changed boot slot are the same thing.
THEOREM SuccessIsSelection == Spec => []SuccessMeansSelected
  <1>1. TypeOK /\ Safe => SuccessMeansSelected
    BY DEF Safe, SessionInv, SuccessMeansSelected
  <1>2. QED
    BY <1>1, SafeAlways, PTL

\* The three together: no reset at any step finds an image that does not start or cannot
\* be gone back from, nor a success that is not one.
THEOREM SlotsAlwaysSafe == Spec => []SlotsSafe
  <1>1. SelectedIsGenuine /\ FallbackKept /\ SuccessMeansSelected => SlotsSafe
    BY DEF SlotsSafe
  <1>2. QED
    BY <1>1, AlwaysBootable, RollbackPossible, SuccessIsSelection, PTL

\* The two updaters never run, nor hold a flash handle, at the same time.
THEOREM UpdatersExclude == Spec => []OneSession
  <1>1. TypeOK /\ Safe => OneSession
    BY DEF Safe, SessionInv, OneSession
  <1>2. QED
    BY <1>1, SafeAlways, PTL


-----------------------------------------------------------------------------
(* The card *)

\* Exactly the streams that are long enough have a beginning of n units.
LEMMA TakeLength ==
  ASSUME NEW s \in Seq(Units), NEW n \in Nat
  PROVE  Len(Take(s, n)) = n <=> n <= Len(s)
  <1>1. Len(s) \in Nat
    OBVIOUS
  <1>2. CASE n < Len(s)
    <2>1. Take(s, n) = SubSeq(s, 1, n)
      BY <1>2 DEF Take
    <2>2. QED
      BY <1>1, <1>2, <2>1
  <1>3. CASE ~(n < Len(s))
    <2>1. Take(s, n) = SubSeq(s, 1, Len(s))
      BY <1>3 DEF Take
    <2>2. QED
      BY <1>1, <1>3, <2>1
  <1>4. QED
    BY <1>2, <1>3

\* A stream that begins with the header goes on beginning with it.
LEMMA HeaderStays ==
  ASSUME NEW s \in Seq(Units), NEW t \in Seq(Units), Take(s, Len(Header)) = Header
  PROVE  Take(s \o t, Len(Header)) = Header
  <1> DEFINE w == s \o t
  <1>1. /\ Len(s) \in Nat /\ Len(t) \in Nat /\ Len(Header) = 2 /\ Header \in Seq(Units)
        /\ w \in Seq(Units) /\ Len(w) = Len(s) + Len(t)
        /\ \A i \in 1..Len(s) + Len(t) : w[i] = IF i <= Len(s) THEN s[i] ELSE t[i - Len(s)]
    BY HeaderFacts, ConcatProperties, LenProperties
  <1>2. /\ Take(s, 2) = Header /\ Len(Take(s, 2)) = 2
        /\ \A i \in 1..Len(Take(s, 2)) : Take(s, 2)[i] = s[i]
    BY <1>1, TakeProperties
  <1> HIDE DEF w
  <1> DEFINE k == Len(Header)
  <1>k. k \in Nat /\ k = 2 /\ Take(s, k) = Header
    BY <1>1
  <1> HIDE DEF k
  <1>3. 2 <= Len(s)
    <2>1. Len(Take(s, k)) = k <=> k <= Len(s)
      BY <1>k, TakeLength
    <2>2. Len(Take(s, k)) = k
      BY <1>1, <1>k
    <2>3. QED
      BY <1>k, <2>1, <2>2
  <1>4. \A i \in 1..2 : Header[i] = w[i]
    <2>1. ASSUME NEW i \in 1..2 PROVE w[i] = s[i]
      <3>1. i \in 1..Len(s) + Len(t) /\ i <= Len(s)
        BY <1>1, <1>3
      <3>2. QED
        BY <1>1, <3>1
    <2>2. ASSUME NEW i \in 1..2 PROVE Header[i] = s[i]
      <3>1. Take(s, 2)[i] = s[i]
        BY <1>2
      <3>2. QED
        BY <1>2, <3>1
    <2>3. QED
      BY <2>1, <2>2
  <1>5. 2 <= Len(w) /\ 2 \in Nat
    BY <1>1, <1>3
  <1>6. /\ Take(w, 2) \in Seq(Units)
        /\ \A i \in 1..Len(Take(w, 2)) : Take(w, 2)[i] = w[i]
    BY <1>1, <1>5, TakeProperties
  <1>7. Len(Take(w, 2)) = 2
    <2>1. Len(Take(w, k)) = k <=> k <= Len(w)
      BY <1>1, <1>k, TakeLength
    <2>2. QED
      BY <1>5, <1>k, <2>1
  <1>8. Take(w, 2) = Header
    <2>1. \A i \in 1..Len(Take(w, 2)) : Take(w, 2)[i] = Header[i]
      BY <1>4, <1>6, <1>7
    <2>2. Len(Take(w, 2)) = Len(Header) /\ Header \in Seq(Units)
      BY <1>1, <1>7
    <2>3. QED
      BY <1>6, <2>1, <2>2, SeqEqual
  <1>9. QED
    BY <1>1, <1>8 DEF w

\* What the invariant of the card speaks of stays.
LEMMA CardKept ==
  ASSUME CardInv, sd_image' = sd_image, running' = running, sd.handle_open => flash' = flash,
         sd'.phase = sd.phase, sd'.owned = sd.owned, sd'.handle_open = sd.handle_open,
         sd'.written = sd.written, sd'.checked = sd.checked, sd'.total = sd.total,
         sd_owner' = "Update" <=> sd_owner = "Update"
  PROVE  CardInv'
  <1>1. LeaseHeld'
    BY DEF CardInv, LeaseHeld
  <1>2. CardWrittenAsChecked' /\ (sd.handle_open => Take(flash[Target], Len(Header)) = Header)'
    BY DEF CardInv, CardWrittenAsChecked, Target, HasMarker
  <1>3. QED
    BY <1>1, <1>2 DEF CardInv

\* The lease is given back with the end of the session or of the installation.
LEMMA CardReleased ==
  ASSUME CardInv, sd'.phase \in {"Idle", "Failed", "Success"}, ~sd'.owned, ~sd'.handle_open,
         ReleaseCard
  PROVE  CardInv'
  <1>1. LeaseHeld'
    BY DEF CardInv, LeaseHeld, ReleaseCard
  <1>2. QED
    BY <1>1 DEF CardInv, CardWrittenAsChecked

\* The steps that are not those of the card session.
LEMMA CardOthers ==
  ASSUME TypeOK, Safe, CardInv,
         \/ LoopTop \/ OtaIdle \/ OtaRestartWait \/ OtaFirmwareMode \/ OtaBack \/ OtaCloses
         \/ UploadArrives \/ UploadEvent \/ UploadChecksDeadline \/ UploadReturns
         \/ OpenOta \/ NormalLoop \/ Tick \/ Surroundings \/ UNCHANGED vars
  PROVE  CardInv'
  <1>1. sd \in SdStates
    BY DEF TypeOK, SdTypeOK
  <1>2. CASE \/ LoopTop \/ OtaIdle \/ OtaRestartWait \/ OtaFirmwareMode \/ OtaBack \/ OtaCloses
             \/ UploadArrives \/ UploadChecksDeadline \/ OpenOta \/ NormalLoop \/ UNCHANGED vars
    <2>1. UNCHANGED <<sd, sd_image, sd_owner, flash, running>>
      BY <1>2
      DEF LoopTop, OtaIdle, OtaRestartWait, OtaFirmwareMode, OtaBack, OtaCloses, OtaService,
          UploadArrives, UploadChecksDeadline, OutsideUpload, OpenOta, NormalLoop, Normal,
          sessionVars, sdVars, espVars, vars
    <2>2. QED
      BY <2>1, CardKept
  <1>3. CASE UploadEvent \/ UploadReturns
    <2>1. UNCHANGED <<sd, sd_image, sd_owner, running>> /\ ~sd.handle_open
      BY <1>3 DEF UploadEvent, UploadReturns, OutsideUpload, sdVars, Safe, SessionInv
    <2>2. QED
      BY <2>1, CardKept
  <1>4. CASE Tick
    <2>1. UNCHANGED <<sd_image, sd_owner, flash, running>>
      BY <1>4 DEF Tick, espVars
    <2>2. /\ sd'.phase = sd.phase /\ sd'.owned = sd.owned /\ sd'.handle_open = sd.handle_open
          /\ sd'.written = sd.written /\ sd'.checked = sd.checked /\ sd'.total = sd.total
      BY <1>1, <1>4 DEF Tick, SdStates
    <2>3. QED
      BY <2>1, <2>2, CardKept
  <1>5. CASE Surroundings
    <2>1. /\ UNCHANGED <<sd, sd_image, flash, running>>
          /\ sd_owner' = "Update" <=> sd_owner = "Update"
      BY <1>5 DEF Surroundings, AudioTakesCard, AudioFreesCard, sessionVars, sdVars, espVars
    <2>2. QED
      BY <2>1, CardKept
  <1>6. QED
    BY <1>2, <1>3, <1>4, <1>5

\* The next piece of the card goes to the spare slot.
LEMMA CardWritten ==
  ASSUME TypeOK, Safe, CardInv, WriteChunk
  PROVE  CardInv'
  <1> DEFINE fed == Feed(sd_image, NextChunk)
             start == IF sd.handle_open THEN flash[Target] ELSE <<>>
             image == start \o NextChunk
  <1>1. /\ sd \in SdStates /\ sd_image \in OtaImageChecks /\ sd.written \in Nat
        /\ flash \in [Slots -> Seq(Units)] /\ Target \in Slots /\ Running
    BY TargetFacts DEF TypeOK, SdTypeOK, EspTypeOK, SdStates, Safe, SlotsInv
  <1>2. /\ sd.phase = "Writing" /\ Readable /\ AppHeader(fed) /\ sd_image' = fed
        /\ flash' = [flash EXCEPT ![Target] = image]
        /\ sd' = [sd EXCEPT !.handle_open = TRUE, !.written = @ + Len(NextChunk)]
        /\ sd_owner' = sd_owner /\ running' = running
    BY DEF WriteChunk
  <1>3. NextChunk \in Seq(Units) /\ Len(NextChunk) \in Nat
    BY <1>2, NextChunkType
  <1>4. /\ start \in Seq(Units) /\ Len(start) = sd.written /\ sd_image.bytes = sd.written
        /\ sd_image.board_found <=> HasMarker(start)
    <2>1. CASE sd.handle_open
      BY <1>1, <2>1 DEF CardInv, CardWrittenAsChecked
    <2>2. CASE ~sd.handle_open
      <3>1. sd_image = FreshCheck /\ sd.written = 0 /\ start = <<>>
        BY <1>2, <2>2 DEF CardInv
      <3>2. ~HasMarker(<<>>) /\ <<>> \in Seq(Units) /\ Len(<<>>) = 0
        BY EmptyStream DEF HasMarker
      <3>3. sd_image.bytes = 0 /\ ~sd_image.board_found
        BY <3>1 DEF FreshCheck
      <3>4. QED
        BY <3>1, <3>2, <3>3
    <2>3. QED
      BY <2>1, <2>2
  <1>5. /\ image \in Seq(Units) /\ Len(image) = Len(start) + Len(NextChunk)
        /\ HasMarker(image) <=> HasMarker(start) \/ HasMarker(NextChunk)
    <2>1. NextChunk \in Seq(Units) /\ start \in Seq(Units)
      BY <1>3, <1>4
    <2> HIDE DEF start
    <2>2. start \o NextChunk \in Seq(Units) /\ Len(start \o NextChunk) = Len(start) + Len(NextChunk)
      BY <2>1, ConcatProperties
    <2>3. HasMarker(start \o NextChunk) <=> HasMarker(start) \/ HasMarker(NextChunk)
      BY <2>1, MarkerConcat
    <2>4. QED
      BY <2>2, <2>3
  <1>6. /\ fed.bytes = sd_image.bytes + Len(NextChunk)
        /\ fed.board_found <=> sd_image.board_found \/ HasMarker(NextChunk)
        /\ fed.header = Take(sd_image.header \o NextChunk, Len(Header))
    BY DEF Feed
  <1>7. Take(image, Len(Header)) = Header
    <2>1. CASE sd.handle_open
      BY <1>1, <1>3, <1>4, <2>1, HeaderStays DEF CardInv
    <2>2. CASE ~sd.handle_open
      <3>1. sd_image.header = <<>> /\ start = <<>>
        BY <1>2, <2>2 DEF CardInv, FreshCheck
      <3>2. image = NextChunk /\ sd_image.header \o NextChunk = NextChunk
        BY <1>3, <3>1
      <3>3. QED
        BY <1>2, <1>6, <3>2 DEF AppHeader
    <2>3. QED
      BY <2>1, <2>2
  <1> HIDE DEF fed, start, image
  <1>8. /\ sd'.phase = "Writing" /\ sd'.handle_open /\ sd'.owned = sd.owned
        /\ sd'.written = sd.written + Len(NextChunk)
        /\ sd'.checked = sd.checked /\ sd'.total = sd.total
    BY <1>1, <1>2 DEF SdStates
  <1>9. Target' = Target /\ flash'[Target] = image
    BY <1>1, <1>2 DEF Target
  <1>10. LeaseHeld'
    BY <1>2, <1>8 DEF CardInv, LeaseHeld
  <1>11. CardWrittenAsChecked'
    <2>1. Len(image) = sd'.written /\ fed.bytes = sd'.written
      BY <1>4, <1>5, <1>6, <1>8
    <2>2. fed.board_found <=> HasMarker(image)
      BY <1>4, <1>5, <1>6
    <2>3. QED
      BY <1>2, <1>9, <2>1, <2>2 DEF CardWrittenAsChecked
  <1>12. QED
    BY <1>2, <1>7, <1>8, <1>9, <1>10, <1>11 DEF CardInv

LEMMA SdEnds ==
  ASSUME NEW s \in SdStates, NEW written \in Nat
  PROVE  /\ LET f == [s EXCEPT !.phase = "Failed", !.handle_open = FALSE, !.owned = FALSE]
            IN f.phase = "Failed" /\ ~f.handle_open /\ ~f.owned
         /\ \A phase \in {"Failed", "Success"} :
              LET f == [s EXCEPT !.phase = phase, !.written = written, !.handle_open = FALSE,
                                 !.owned = FALSE]
              IN f.phase = phase /\ ~f.handle_open /\ ~f.owned
  BY DEF SdStates

\* sd_update_poll.
LEMMA CardPolled ==
  ASSUME TypeOK, Safe, CardInv, SdPoll, running' = running
  PROVE  CardInv'
  <1>1. /\ sd \in SdStates /\ sd.total \in Nat /\ sd.checked \in Nat
        /\ sd.handle_open => sd.phase = "Writing"
    BY DEF TypeOK, SdTypeOK, SdStates, Safe, SessionInv
  <1>2. CASE UNCHANGED <<sdVars, sd_owner, espVars>>
    BY <1>2, CardKept DEF sdVars, espVars
  <1>3. CASE SdFail
    BY <1>1, <1>3, SdEnds, CardReleased DEF SdFail
  <1>4. CASE OpenCard /\ UNCHANGED espVars /\ sd.phase = "Waiting"
    <2>1. ~sd.owned /\ sd_owner # "Update" /\ sd.written = 0 /\ ~sd.handle_open
      BY <1>1, <1>4 DEF CardInv, LeaseHeld
    <2>2. \/ sd' = sd /\ sd_owner' = sd_owner
          \/ /\ sd' = [sd EXCEPT !.owned = TRUE, !.total = Len(card), !.phase = "Checking"]
             /\ sd_owner' = "Update"
          \/ sd' = [sd EXCEPT !.phase = "Failed"] /\ sd_owner' = sd_owner
          \/ sd' = [sd EXCEPT !.phase = "Failed", !.total = Len(card)] /\ sd_owner' = sd_owner
      BY <1>4 DEF OpenCard, SdAcquire
    <2>3. /\ sd'.written = 0 /\ ~sd'.handle_open
          /\ \/ sd'.phase \in {"Waiting", "Failed"} /\ ~sd'.owned /\ sd_owner' = sd_owner
             \/ sd'.phase = "Checking" /\ sd'.owned /\ sd_owner' = "Update"
      BY <1>1, <1>4, <2>1, <2>2 DEF SdStates
    <2>4. QED
      BY <2>1, <2>3 DEF CardInv, LeaseHeld, CardWrittenAsChecked
  <1>5. CASE CheckChunk
    <2>1. NextChunk \in Seq(Units) /\ Len(NextChunk) \in Nat
      BY <1>5, NextChunkType DEF CheckChunk
    <2> DEFINE checked == sd.checked + Len(NextChunk)
    <2>2. /\ checked \in Nat /\ sd.phase = "Checking" /\ sd_owner' = sd_owner
          /\ sd' = [sd EXCEPT !.checked = checked,
                              !.phase = IF checked = sd.total THEN "Ready" ELSE @]
      BY <1>1, <1>5, <2>1 DEF CheckChunk
    <2> HIDE DEF checked
    <2>3. /\ sd'.phase = (IF checked = sd.total THEN "Ready" ELSE "Checking")
          /\ sd'.checked = checked /\ sd'.total = sd.total /\ sd'.owned = sd.owned
          /\ sd'.written = sd.written /\ sd'.handle_open = sd.handle_open
      BY <1>1, <2>2 DEF SdStates
    <2>4. sd.owned /\ sd_owner = "Update" /\ sd.written = 0 /\ ~sd.handle_open
      BY <1>1, <2>2 DEF CardInv, LeaseHeld
    <2>5. QED
      BY <2>2, <2>3, <2>4 DEF CardInv, LeaseHeld, CardWrittenAsChecked
  <1>6. CASE WriteChunk
    BY <1>6, CardWritten
  <1>7. CASE WriteLast
    <2>1. ReleaseCard /\ sd'.phase \in {"Failed", "Success"} /\ ~sd'.handle_open /\ ~sd'.owned
      <3>1. \E phase \in {"Failed", "Success"} :
              sd' = [sd EXCEPT !.phase = phase, !.written = sd.total, !.handle_open = FALSE,
                               !.owned = FALSE]
        BY <1>7 DEF WriteLast
      <3>2. ReleaseCard
        BY <1>7 DEF WriteLast
      <3>3. QED
        BY <1>1, <3>1, <3>2, SdEnds
    <2>2. QED
      BY <2>1, CardReleased
  <1>8. CASE ReadFails \/ CheckFails \/ WriteFails
    <2>1. \E s \in SdStates : TransferFail(s)
      <3>1. CASE TransferFail(sd)
        BY <1>1, <3>1
      <3>2. CASE CheckFails /\ ~TransferFail(sd)
        <4> DEFINE n == sd.checked + Len(NextChunk)
        <4>1. n \in Nat
          BY <1>1, <3>2, NextChunkType DEF CheckFails
        <4>2. TransferFail([sd EXCEPT !.checked = n])
          BY <3>2 DEF CheckFails
        <4> HIDE DEF n
        <4>3. [sd EXCEPT !.checked = n] \in SdStates
          BY <1>1, <4>1 DEF SdStates
        <4>4. QED
          BY <4>2, <4>3
      <3>3. QED
        BY <1>8, <3>1, <3>2 DEF ReadFails, WriteFails
    <2>2. ReleaseCard /\ sd'.phase = "Failed" /\ ~sd'.handle_open /\ ~sd'.owned
      BY <2>1, SdEnds, <1>1 DEF TransferFail
    <2>3. QED
      BY <2>2, CardReleased
  <1>9. QED
    BY <1>2, <1>3, <1>4, <1>5, <1>6, <1>7, <1>8 DEF SdPoll

\* Opening, confirming and leaving the session.
LEMMA CardTapped ==
  ASSUME TypeOK, Safe, CardInv, SdBack \/ SdStart \/ OpenSd \/ Reset
  PROVE  CardInv'
  <1>1. sd \in SdStates /\ (sd.handle_open => sd.phase = "Writing") /\ (~sd.active => sd.phase = "Idle")
    BY DEF TypeOK, SdTypeOK, Safe, SessionInv
  <1>2. /\ SdClosed.phase = "Idle" /\ ~SdClosed.owned /\ ~SdClosed.handle_open
        /\ SdClosed.written = 0
    BY DEF SdClosed
  <1>3. CASE SdBack
    <2>1. CASE sd.phase = "Success"
      <3>1. UNCHANGED <<sd, sd_image, sd_owner, flash, running>>
        BY <1>3, <2>1 DEF SdBack, SdTap, SdService, SdStop, espVars
      <3>2. QED
        BY <3>1, CardKept
    <2>2. CASE sd.phase # "Success"
      <3>1. ReleaseCard /\ sd' = SdClosed
        BY <1>3, <2>2 DEF SdBack, SdTap, SdService, SdStop
      <3>2. QED
        BY <1>2, <3>1, CardReleased
    <2>3. QED
      BY <2>1, <2>2
  <1>4. CASE SdStart
    <2>1. /\ sd.phase = "Ready" /\ sd' = [sd EXCEPT !.phase = "Writing"] /\ sd_image' = FreshCheck
          /\ sd_owner' = sd_owner
      BY <1>4 DEF SdStart, SdTap, SdService, SdConfirm
    <2>2. /\ sd'.phase = "Writing" /\ sd'.owned = sd.owned /\ sd'.handle_open = sd.handle_open
          /\ sd'.written = sd.written /\ sd'.checked = sd.checked /\ sd'.total = sd.total
      BY <1>1, <2>1 DEF SdStates
    <2>3. QED
      BY <1>1, <2>1, <2>2 DEF CardInv, LeaseHeld, CardWrittenAsChecked
  <1>5. CASE OpenSd
    <2>1. /\ sd.phase = "Idle" /\ sd_owner' = sd_owner
          /\ sd' = [SdClosed EXCEPT !.active = TRUE, !.phase = IF layout THEN "Waiting" ELSE "Failed"]
      BY <1>1, <1>5 DEF OpenSd, Normal, SdBegin
    <2>2. sd'.phase \in {"Waiting", "Failed"} /\ ~sd'.owned /\ ~sd'.handle_open /\ sd'.written = 0
      BY <2>1 DEF SdClosed
    <2>3. QED
      BY <2>1, <2>2 DEF CardInv, LeaseHeld, CardWrittenAsChecked
  <1>6. CASE Reset
    <2>1. sd' = SdClosed /\ sd_owner' = "None"
      BY <1>6 DEF Reset
    <2>2. QED
      BY <1>2, <2>1 DEF CardInv, LeaseHeld, CardWrittenAsChecked
  <1>7. QED
    BY <1>3, <1>4, <1>5, <1>6

LEMMA CardStep ==
  ASSUME TypeOK, Safe, CardInv, [Next]_vars
  PROVE  CardInv'
  <1>1. CASE SdPollStep
    <2>1. SdPoll
      BY <1>1 DEF SdPollStep, SdService
    <2>2. running' = running
      BY <2>1
      DEF SdPoll, espVars, CheckChunk, WriteChunk, WriteLast, ReadFails, CheckFails, WriteFails,
          TransferFail
    <2>3. QED
      BY <2>1, <2>2, CardPolled
  <1>2. QED
    BY <1>1, CardOthers, CardTapped DEF Next, Main, Restart, PowerCycle

LEMMA CardInit == Init => CardInv
  <1> SUFFICES ASSUME Init PROVE CardInv
    OBVIOUS
  <1>1. sd = SdClosed /\ sd_owner = "None"
    BY DEF Init, SdInit
  <1>2. QED
    BY <1>1 DEF SdClosed, CardInv, LeaseHeld, CardWrittenAsChecked

-----------------------------------------------------------------------------
(* The upload *)

\* Nothing is being received.
LEMMA NoTransfer ==
  ASSUME ~ota'.receiving, ota'.handle_open => ota'.file_done,
         request'.part => request'.sent <= Len(request'.body)
  PROVE  UploadInv'
  BY DEF UploadInv

\* The upload is where it was.
LEMMA SameTransfer ==
  ASSUME UploadInv, UNCHANGED <<request, ota_image, running>>,
         ota.handle_open => flash' = flash,
         ota'.receiving = ota.receiving, ota'.handle_open = ota.handle_open,
         ota'.file_done = ota.file_done, ota'.wifi_started = ota.wifi_started,
         ota'.faces = ota.faces, Expired => Expired',
         pc \in {"request", "deadline"} => pc' \in {"request", "deadline"}
  PROVE  UploadInv'
  BY DEF UploadInv, Target

\* The deadline has passed, and the request that was being received is cut or over.
LEMMA StaleTransfer ==
  ASSUME UploadInv, Expired, ota' = ota, UNCHANGED <<flash, running>>,
         ~request'.part \/ request'.cut,
         request'.part => request'.sent <= Len(request'.body)
  PROVE  UploadInv'
  BY DEF UploadInv, Expired, Target

\* The steps that serve no upload.
LEMMA UploadOthers ==
  ASSUME TypeOK, Safe, UploadInv,
         \/ LoopTop \/ SdBack \/ SdStart \/ OtaIdle \/ OtaRestartWait \/ OtaFirmwareMode
         \/ OtaBack \/ OtaCloses \/ UploadArrives \/ OpenOta \/ OpenSd \/ NormalLoop
         \/ Reset \/ Tick \/ Surroundings \/ UNCHANGED vars
  PROVE  UploadInv'
  <1>1. ota \in OtaStates /\ (ota.handle_open => ota.receiving \/ ota.file_done)
    BY DEF TypeOK, OtaTypeOK, UploadInv
  <1>2. CASE \/ LoopTop \/ SdBack \/ SdStart \/ OtaRestartWait \/ OpenSd \/ NormalLoop
             \/ Surroundings \/ UNCHANGED vars
    <2>1. /\ UNCHANGED <<ota, request, ota_image, running, flash>>
          /\ pc \in {"request", "deadline"} => pc' = pc
      BY <1>2
      DEF LoopTop, SdBack, SdStart, SdTap, SdService, OtaRestartWait, OtaService, OpenSd,
          NormalLoop, Normal, Surroundings, sessionVars, otaVars, espVars, vars
    <2>2. Expired => Expired'
      BY <2>1 DEF Expired
    <2>3. QED
      BY <2>1, <2>2, SameTransfer
  <1>3. CASE Tick
    <2>1. /\ UNCHANGED <<request, ota_image, running, flash, pc>>
          /\ ota' = [ota EXCEPT !.age = IF ota.active THEN Aged(@, SessionTicks) ELSE @,
                                !.reboot_age = IF ota.success THEN Aged(@, RestartTicks) ELSE @]
      BY <1>3 DEF Tick, espVars
    <2>2. /\ ota'.receiving = ota.receiving /\ ota'.handle_open = ota.handle_open
          /\ ota'.file_done = ota.file_done /\ ota'.wifi_started = ota.wifi_started
          /\ ota'.faces = ota.faces
          /\ ota'.age = IF ota.active THEN Aged(ota.age, SessionTicks) ELSE ota.age
      BY <1>1, <2>1 DEF OtaStates
    <2>3. Expired => Expired'
      <3>1. ota.age \in Nat /\ SessionTicks \in Nat
        BY <1>1, OtaAssumption DEF OtaStates
      <3>2. Expired => ~(ota.age < SessionTicks)
        BY <3>1 DEF Expired
      <3>3. Expired => ota'.age = ota.age
        BY <2>2, <3>2 DEF Aged
      <3>4. QED
        BY <3>3 DEF Expired
    <2>4. QED
      BY <2>1, <2>2, <2>3, SameTransfer
  <1>4. CASE OtaBack \/ OtaCloses \/ OpenOta \/ Reset
    <2>1. CASE OtaBack \/ OtaCloses
      <3>1. request' = request /\ ota' = [Closed EXCEPT !.attempted = ota.attempted]
        BY <2>1 DEF OtaBack, OtaCloses, OtaService, OtaStop
      <3>2. ~ota'.receiving /\ ~ota'.handle_open
        BY <3>1 DEF Closed
      <3>3. QED
        BY <3>1, <3>2, NoTransfer DEF UploadInv
    <2>2. CASE OpenOta
      <3>1. PICK faces \in BOOLEAN : OtaBegin(faces)
        BY <2>2 DEF OpenOta, Normal
      <3>2. \/ ota' = [[Closed EXCEPT !.active = TRUE, !.faces = faces] EXCEPT !.error = TRUE]
            \/ \E lan \in BOOLEAN :
                 ota' = [[Closed EXCEPT !.active = TRUE, !.faces = faces]
                           EXCEPT !.lan = lan, !.wifi_started = TRUE]
        BY <3>1 DEF OtaBegin
      <3>3. ~ota'.receiving /\ ~ota'.handle_open
        BY <3>2 DEF Closed
      <3>4. request' = request
        BY <3>1 DEF OtaBegin
      <3>5. QED
        BY <3>3, <3>4, NoTransfer DEF UploadInv
    <2>3. CASE Reset
      <3>1. ~ota'.receiving /\ ~ota'.handle_open /\ ~request'.part
        BY <2>3 DEF Reset, Closed, NoRequest
      <3>2. QED
        BY <3>1, NoTransfer
    <2>4. QED
      BY <1>4, <2>1, <2>2, <2>3
  <1>5. CASE OtaIdle \/ OtaFirmwareMode
    <2>1. request' = request /\ ~ota.receiving
      BY <1>5 DEF OtaIdle, OtaFirmwareMode, OtaService, SettingsFirmware, UploadInv
    <2>2. \E o \in OtaStates : /\ ota' = PollTail(o) /\ o.receiving = ota.receiving
                               /\ o.handle_open = ota.handle_open /\ o.file_done = ota.file_done
      <3>1. CASE ota' = PollTail(ota)
        BY <1>1, <3>1
      <3>2. CASE ota' = PollTail([ota EXCEPT !.faces = FALSE, !.error = FALSE])
        <4> DEFINE o == [ota EXCEPT !.faces = FALSE, !.error = FALSE]
        <4>1. /\ o \in OtaStates /\ o.receiving = ota.receiving
              /\ o.handle_open = ota.handle_open /\ o.file_done = ota.file_done
          BY <1>1 DEF OtaStates
        <4> HIDE DEF o
        <4>2. QED
          BY <3>2, <4>1 DEF o
      <3>3. QED
        BY <1>5, <3>1, <3>2 DEF OtaIdle, OtaFirmwareMode, OtaService, SettingsFirmware
    <2>3. ~ota'.receiving /\ (ota'.handle_open => ota'.file_done)
      BY <1>1, <2>1, <2>2, FailedFields
    <2>4. QED
      BY <2>1, <2>3, NoTransfer DEF UploadInv
  <1>6. CASE UploadArrives
    <2>1. ota' = ota /\ ~ota.receiving /\ \E auth \in BOOLEAN :
             request' = [NoRequest EXCEPT !.auth = auth]
      BY <1>6 DEF UploadArrives, RequestArrives, UploadInv
    <2>2. ~request'.part
      BY <2>1 DEF NoRequest
    <2>3. QED
      BY <1>1, <2>1, <2>2, NoTransfer
  <1>7. QED
    BY <1>2, <1>3, <1>4, <1>5, <1>6

\* The card updater works in the spare slot only while no upload has it open.
LEMMA UploadBesideCard ==
  ASSUME TypeOK, Safe, UploadInv, SdPollStep
  PROVE  UploadInv'
  <1>1. UNCHANGED otaVars /\ SdPoll /\ pc \notin {"request", "deadline"}
    BY DEF SdPollStep, SdService
  <1>2. running' = running
    BY <1>1
    DEF SdPoll, espVars, CheckChunk, WriteChunk, WriteLast, ReadFails, CheckFails, WriteFails,
        TransferFail
  <1>3. ota.handle_open => flash' = flash
    <2>1. CASE WriteChunk \/ WriteLast \/ (WriteFails /\ flash' # flash)
      <3>1. sd.phase = "Writing" /\ (sd.handle_open \/ EspBeginAllowed)
        BY <2>1 DEF WriteChunk, WriteLast, WriteFails
      <3>2. QED
        BY <3>1, SdOwnsSpare
    <2>2. CASE ~(WriteChunk \/ WriteLast \/ (WriteFails /\ flash' # flash))
      BY <1>1, <2>2 DEF SdPoll, espVars, CheckChunk, ReadFails, CheckFails
    <2>3. QED
      BY <2>1, <2>2
  <1>4. QED
    BY <1>1, <1>2, <1>3, SameTransfer DEF otaVars, Expired

\* What a stream holds up to one place, followed by the rest up to another.
LEMMA Prefixes ==
  ASSUME NEW s \in Seq(Units), NEW m \in Nat, NEW n \in Nat, m <= n, n <= Len(s)
  PROVE  SubSeq(s, 1, m) \o SubSeq(s, m + 1, n) = SubSeq(s, 1, n)
  <1> DEFINE w == SubSeq(s, 1, n)
             f == SubSeq(s, 1, m)
             r == SubSeq(s, m + 1, n)
  <1>1. w \in Seq(Units) /\ Len(w) = n /\ \A i \in 1..n : w[i] = s[i]
    OBVIOUS
  <1>2. f \in Seq(Units) /\ Len(f) = m /\ \A i \in 1..m : f[i] = s[i]
    OBVIOUS
  <1>3. r \in Seq(Units) /\ Len(r) = n - m /\ \A i \in 1..n - m : r[i] = s[m + i]
    OBVIOUS
  <1> HIDE DEF w, f, r
  <1>4. Len(w) = Len(f) + Len(r)
    BY <1>1, <1>2, <1>3
  <1>5. \A i \in 1..Len(f) : f[i] = w[i]
    BY <1>1, <1>2
  <1>6. ASSUME NEW i \in 1..Len(r) PROVE r[i] = w[Len(f) + i]
    <2>1. m + i \in 1..n /\ r[i] = s[m + i]
      BY <1>3
    <2>2. QED
      BY <1>1, <1>2, <2>1
  <1>7. f \o r = w
    BY <1>1, <1>2, <1>3, <1>4, <1>5, <1>6, TwoPieces
  <1>8. QED
    BY <1>7 DEF w, f, r

\* A part event that is refused: the request is cut, and if a file was being received its
\* deadline has passed.
LEMMA DeniedTransfer ==
  ASSUME TypeOK, Safe, UploadInv, pc = "request", NEW req \in Requests, Denied(req),
         req.part => req.sent <= Len(req.body), running' = running
  PROVE  UploadInv'
  <1>1. /\ ota' = ota /\ UNCHANGED <<ota_image, flash>> /\ request' = [req EXCEPT !.cut = TRUE]
        /\ ~Authorized \/ ota.faces
    BY DEF Denied
  <1>2. request'.cut /\ request'.part = req.part /\ request'.sent = req.sent
        /\ request'.body = req.body
    BY <1>1 DEF Requests
  <1>3. CASE ota.receiving
    <2>1. ota.active /\ ~ota.success
      BY DEF Safe, SessionInv
    <2>2. Expired
      BY <1>1, <1>3, <2>1 DEF UploadInv, Authorized
    <2>3. QED
      BY <1>1, <1>2, <2>2, StaleTransfer
  <1>4. CASE ~ota.receiving
    BY <1>1, <1>2, <1>4, NoTransfer DEF UploadInv
  <1>5. QED
    BY <1>3, <1>4

\* A file part that is accepted has sent nothing yet.
LEMMA TransferStarts ==
  ASSUME TypeOK, Safe, UploadInv, pc = "request",
         NEW body \in Seq(Units), NEW declared \in 0..SlotSize + 1, NEW named \in BOOLEAN,
         ~request.part, ~request.cut, Authorized, ~ota.faces, UploadStart(declared, named),
         request' = [request EXCEPT !.part = TRUE, !.body = body, !.sent = 0, !.parts = @ + 1],
         running' = running, pc' \in {"request", "deadline"}
  PROVE  UploadInv'
  <1> DEFINE total == OtaImageSize(declared)
             fresh == [ota EXCEPT !.attempted = TRUE, !.error = FALSE,
                                  !.received = 0, !.total = total]
             begun == [fresh EXCEPT !.receiving = TRUE]
  <1>1. ota \in OtaStates /\ total \in 0..SlotSize
    BY SizeType, EspAssumption DEF TypeOK, OtaTypeOK
  <1> HIDE DEF total
  <1>2. fresh \in OtaStates
    BY <1>1 DEF OtaStates
  <1>3. /\ begun.handle_open = ota.handle_open /\ begun.receiving = TRUE
        /\ begun.wifi_started = ota.wifi_started /\ begun.faces = ota.faces
        /\ begun.age = ota.age
    BY <1>1 DEF OtaStates
  <1>4. /\ ota' \in {Failed(ota), Failed(fresh)} \/ (~ota.attempted /\ ota' = begun)
        /\ ota' = begun => ota_image' = FreshCheck
    <2>1. CASE ota.attempted
      BY <1>1, <1>3, <2>1, FailedFields DEF UploadStart
    <2>2. CASE ~ota.attempted
      BY <2>2 DEF UploadStart, total
    <2>3. QED
      BY <2>1, <2>2
  <1>5. /\ request'.part /\ request'.cut = request.cut /\ request'.auth = request.auth
        /\ request'.sent = 0 /\ request'.body = body
    BY DEF TypeOK, OtaTypeOK, Requests
  <1> HIDE DEF fresh, begun
  <1>6. CASE ota' \in {Failed(ota), Failed(fresh)}
    <2>1. ~ota'.receiving /\ ~ota'.handle_open
      BY <1>1, <1>2, <1>6, FailedFields
    <2>2. request'.sent <= Len(request'.body)
      BY <1>5
    <2>3. QED
      BY <2>1, <2>2, NoTransfer
  <1>7. CASE ~ota.attempted /\ ota' = begun
    <2>1. ~ota.handle_open
      BY <1>7 DEF UploadInv, Safe, SessionInv
    <2>2. SubSeq(body, 1, 0) = <<>> /\ ota_image'.header = <<>>
      BY <1>4, <1>7 DEF FreshCheck
    <2>3. request.auth /\ ota.wifi_started
      BY DEF Authorized
    <2>4. request'.sent <= Len(request'.body)
      BY <1>5
    <2>5. QED
      BY <1>3, <1>5, <1>7, <2>1, <2>2, <2>3, <2>4 DEF UploadInv
  <1>8. QED
    BY <1>4, <1>6, <1>7

\* A chunk that is accepted follows what is in the slot or held back.
LEMMA TransferContinues ==
  ASSUME TypeOK, Safe, UploadInv, pc = "request", NEW size \in 1..SlotSize,
         request.sent + size <= Len(request.body), request.part, ~request.cut,
         ota.receiving, Authorized, ~ota.faces,
         UploadChunk(SubSeq(request.body, request.sent + 1, request.sent + size)),
         request' = [request EXCEPT !.sent = request.sent + size],
         running' = running, pc' \in {"request", "deadline"}
  PROVE  UploadInv'
  <1> DEFINE sent == request.sent + size
             chunk == SubSeq(request.body, request.sent + 1, sent)
             before == SubSeq(request.body, 1, request.sent)
             fed == Feed(ota_image, chunk)
             got == [ota EXCEPT !.received = @ + Len(chunk)]
             opened == [got EXCEPT !.handle_open = TRUE]
             held == ota_image.header
             opening == ~ota.handle_open /\ fed.bytes >= Len(Header)
             data == IF opening THEN HeaderAndRest(ota_image, chunk) ELSE chunk
             start == IF opening THEN <<>> ELSE flash[Target]
  <1>1. /\ ota \in OtaStates /\ ota_image \in OtaImageChecks /\ request \in Requests
        /\ flash \in [Slots -> Seq(Units)] /\ Target \in Slots /\ Target' = Target
    BY TargetFacts DEF TypeOK, OtaTypeOK, EspTypeOK, Safe, SlotsInv, Target
  <1>2. /\ request.body \in Seq(Units) /\ request.sent \in Nat /\ sent \in Nat
        /\ request.sent <= sent /\ sent <= Len(request.body) /\ Len(request.body) \in Nat
    BY <1>1, EspAssumption DEF Requests
  <1>3. /\ chunk \in Seq(Units) /\ before \in Seq(Units) /\ Len(chunk) \in Nat
        /\ before \o chunk = SubSeq(request.body, 1, sent)
    <2>1. SubSeq(request.body, 1, request.sent) \o SubSeq(request.body, request.sent + 1, sent)
            = SubSeq(request.body, 1, sent)
      BY <1>2, Prefixes
    <2>2. chunk \in Seq(Units) /\ before \in Seq(Units)
      BY <1>2, SubSeqType
    <2>3. Len(chunk) \in Nat
      BY <2>2
    <2>4. QED
      BY <2>1, <2>2, <2>3
  <1>4. before = IF ota.handle_open THEN flash[Target] ELSE held
    BY DEF UploadInv
  <1>5. /\ request'.part /\ ~request'.cut /\ request'.auth = request.auth
        /\ request'.sent = sent /\ request'.body = request.body
    BY <1>1 DEF Requests
  <1>6. /\ got \in OtaStates /\ got.receiving /\ got.handle_open = ota.handle_open
        /\ got.wifi_started = ota.wifi_started /\ got.faces = ota.faces
    <2> HIDE DEF chunk
    <2>1. ota.received + Len(chunk) \in Nat
      <3>1. ota.received \in Nat
        BY <1>1 DEF OtaStates
      <3>2. QED
        BY <1>3, <3>1
    <2>2. QED
      BY <1>1, <2>1 DEF OtaStates
  <1>7. /\ opened.receiving /\ opened.handle_open
        /\ opened.wifi_started = ota.wifi_started /\ opened.faces = ota.faces
    BY <1>6 DEF OtaStates
  <1>8. ~Failed(got).receiving /\ ~Failed(got).handle_open
    BY <1>6, FailedFields
  <1>9. /\ fed.bytes = ota_image.bytes + Len(chunk)
        /\ fed.header = Take(held \o chunk, Len(Header))
    BY DEF Feed
  <1>10. /\ held \in Seq(Units) /\ ota_image.bytes \in Nat
         /\ ~ota.handle_open => ota_image.bytes = Len(held) /\ Len(held) < Len(Header)
    BY <1>1 DEF OtaImageChecks, Safe, ImageInv
  <1>11. request.auth /\ ota.wifi_started
    BY DEF Authorized
  <1> HIDE DEF sent, chunk, before, fed, got, opened, data, start
  <1>12. ota_image' = fed
    BY DEF UploadChunk, fed, chunk, sent
  <1>13. \/ ~ota.handle_open /\ ~opening /\ ota' = got /\ flash' = flash
         \/ ota' = Failed(got)
         \/ /\ ota.handle_open \/ (opening /\ AppHeader(fed))
            /\ ota' = opened
            /\ flash' = [flash EXCEPT ![Target] = start \o data]
    BY DEF UploadChunk, fed, got, opened, data, start, chunk, sent
  <1>14. ASSUME ota' \in {got, opened},
                SubSeq(request.body, 1, sent) = IF ota'.handle_open THEN flash'[Target]
                                                ELSE fed.header,
                ota'.handle_open => Take(flash'[Target], Len(Header)) = Header
         PROVE  UploadInv'
    <2>1. ota'.receiving /\ ota'.wifi_started /\ ~ota'.faces
      BY <1>6, <1>7, <1>11, <1>14
    <2>2. request'.sent <= Len(request'.body)
      BY <1>2, <1>5
    <2>3. QED
      BY <1>1, <1>5, <1>11, <1>12, <1>14, <2>1, <2>2 DEF UploadInv
  <1>15. CASE ~ota.handle_open /\ ~opening /\ ota' = got /\ flash' = flash
    <2>1. /\ held \o chunk \in Seq(Units) /\ Len(held \o chunk) = Len(held) + Len(chunk)
      BY <1>3, <1>10, ConcatProperties
    <2>2. Len(held \o chunk) < Len(Header) /\ Len(Header) \in Nat
      BY <1>3, <1>9, <1>10, <1>15, <2>1, HeaderFacts
    <2>3. ~(Len(Header) < Len(held \o chunk))
      BY <1>10, <2>1, <2>2, HeaderFacts
    <2>4. Take(held \o chunk, Len(Header)) = held \o chunk
      BY <2>1, <2>3 DEF Take
    <2>5. fed.header = SubSeq(request.body, 1, sent)
      BY <1>3, <1>4, <1>9, <1>15, <2>4
    <2>6. ~ota'.handle_open
      BY <1>6, <1>15
    <2>7. QED
      BY <1>14, <1>15, <2>5, <2>6
  <1>16. CASE ota' = Failed(got)
    <2>1. request'.sent <= Len(request'.body)
      BY <1>2, <1>5
    <2>2. QED
      BY <1>8, <1>16, <2>1, NoTransfer
  <1>17. CASE /\ ota.handle_open \/ (opening /\ AppHeader(fed))
              /\ ota' = opened
              /\ flash' = [flash EXCEPT ![Target] = start \o data]
    <2>1. flash'[Target] = start \o data
      BY <1>1, <1>17
    <2>2. CASE ota.handle_open
      <3>1. start = flash[Target] /\ data = chunk /\ before = flash[Target]
        BY <1>4, <2>2 DEF start, data
      <3>2. flash'[Target] = SubSeq(request.body, 1, sent)
        BY <1>3, <2>1, <3>1
      <3>3. Take(flash[Target], Len(Header)) = Header
        BY <2>2 DEF UploadInv
      <3>4. Take(flash[Target] \o chunk, Len(Header)) = Header
        BY <1>3, <3>1, <3>3, HeaderStays
      <3>5. QED
        BY <1>7, <1>14, <1>17, <2>1, <3>1, <3>2, <3>4
    <2>3. CASE ~ota.handle_open
      <3>1. opening /\ AppHeader(fed)
        BY <1>17, <2>3
      <3>2. Len(held) + Len(chunk) >= Len(Header)
        BY <1>9, <1>10, <2>3, <3>1
      <3>3. data = held \o chunk
        <4>1. Len(Header) \in Nat
          BY HeaderFacts
        <4>2. Take(held \o chunk, Len(Header))
                \o SubSeq(chunk, Len(Header) - Len(held) + 1, Len(chunk)) = held \o chunk
          BY <1>3, <1>10, <2>3, <3>2, <4>1, HeaderThenRest
        <4>3. QED
          BY <1>9, <3>1, <4>2 DEF data, HeaderAndRest, fed
      <3>4. start = <<>> /\ before = held
        BY <1>4, <2>3, <3>1 DEF start
      <3>5. held \o chunk \in Seq(Units)
        BY <1>3, <1>10
      <3>6. flash'[Target] = held \o chunk
        BY <2>1, <3>3, <3>4, <3>5
      <3>7. flash'[Target] = SubSeq(request.body, 1, sent)
        BY <1>3, <3>4, <3>6
      <3>8. Take(flash'[Target], Len(Header)) = Header
        BY <1>9, <3>1, <3>6 DEF AppHeader
      <3>9. QED
        BY <1>7, <1>14, <1>17, <3>7, <3>8
    <2>4. QED
      BY <2>2, <2>3
  <1>18. QED
    BY <1>13, <1>15, <1>16, <1>17

\* The events of a request, its end and its deadline.
LEMMA UploadServed ==
  ASSUME TypeOK, Safe, UploadInv, UploadEvent \/ UploadChecksDeadline \/ UploadReturns
  PROVE  UploadInv'
  <1>1. /\ ota \in OtaStates /\ request \in Requests /\ running' = running
        /\ ota.handle_open => ota.receiving \/ ota.file_done
        /\ request.part => request.sent <= Len(request.body)
        /\ ota.receiving => ~ota.error
    BY DEF TypeOK, OtaTypeOK, UploadEvent, UploadChecksDeadline, UploadReturns, OutsideUpload,
           UploadInv, Safe, SessionInv
  <1>2. ~Failed(ota).receiving /\ ~Failed(ota).handle_open
    BY <1>1, FailedFields
  <1> DEFINE closed == [request EXCEPT !.part = FALSE, !.body = <<>>, !.sent = 0]
  <1>3. /\ closed \in Requests /\ ~closed.part
        /\ [closed EXCEPT !.cut = TRUE] \in Requests /\ ~[closed EXCEPT !.cut = TRUE].part
    BY <1>1, PartClosedType, CutType DEF Requests
  <1>4. CASE UploadEvent
    <2>1. pc = "request" /\ pc' \in {"request", "deadline"}
      BY <1>4 DEF UploadEvent
    <2>2. CASE \E body \in Bodies, declared \in 0..SlotSize + 1, named \in BOOLEAN :
                 PartStart(body, declared, named)
      <3>1. PICK body \in Bodies, declared \in 0..SlotSize + 1, named \in BOOLEAN :
                   PartStart(body, declared, named)
        BY <2>2
      <3> DEFINE req == [request EXCEPT !.part = TRUE, !.body = body, !.sent = 0,
                                        !.parts = @ + 1]
      <3>2. body \in Seq(Units) /\ Len(body) \in Nat
        BY BodiesAssumption
      <3>3. request.parts + 1 \in 0..MaxParts
        BY <1>1, <3>1, OtaAssumption DEF PartStart, Requests
      <3>4. req \in Requests /\ req.sent = 0 /\ req.body = body
        BY <1>1, <3>2, <3>3 DEF Requests
      <3>5. /\ ~request.part /\ ~request.cut
            /\ \/ Denied(req)
               \/ Authorized /\ ~ota.faces /\ request' = req /\ UploadStart(declared, named)
        BY <3>1 DEF PartStart, Admitted
      <3>6. CASE Denied(req)
        <4>1. req.sent <= Len(req.body)
          BY <3>2, <3>4
        <4> HIDE DEF req
        <4>2. QED
          BY <1>1, <2>1, <3>4, <3>6, <4>1, DeniedTransfer
      <3>7. CASE Authorized /\ ~ota.faces /\ request' = req /\ UploadStart(declared, named)
        BY <1>1, <2>1, <3>2, <3>5, <3>7, TransferStarts
      <3>8. QED
        BY <3>5, <3>6, <3>7
    <2>3. CASE \E size \in 1..SlotSize : PartWrite(size)
      <3>1. PICK size \in 1..SlotSize : PartWrite(size)
        BY <2>3
      <3> DEFINE sent == request.sent + size
                 chunk == SubSeq(request.body, request.sent + 1, sent)
                 req == [request EXCEPT !.sent = sent]
      <3>2. sent \in Nat /\ sent <= Len(request.body)
        BY <1>1, <3>1, EspAssumption DEF PartWrite, Requests
      <3>3. req \in Requests /\ req.sent = sent /\ req.body = request.body
        BY <1>1, <3>2 DEF Requests
      <3>4. /\ request.part /\ ~request.cut
            /\ \/ Denied(req)
               \/ Authorized /\ ~ota.faces /\ request' = req /\ UploadWrite(chunk)
        BY <3>1 DEF PartWrite, Admitted
      <3>5. CASE Denied(req)
        <4>1. req.sent <= Len(req.body)
          BY <3>2, <3>3
        <4> HIDE DEF req, sent
        <4>2. QED
          BY <1>1, <2>1, <3>3, <3>5, <4>1, DeniedTransfer
      <3>6. CASE Authorized /\ ~ota.faces /\ request' = req /\ UploadWrite(chunk)
        <4>1. request'.sent <= Len(request'.body)
          BY <3>2, <3>3, <3>6
        <4>2. CASE ota.receiving /\ UploadChunk(chunk)
          BY <1>1, <2>1, <3>2, <3>4, <3>6, <4>2, TransferContinues
        <4>3. CASE ~ota.receiving /\ ota' = ota
          BY <1>1, <4>1, <4>3, NoTransfer
        <4>4. CASE ota' = Failed(ota)
          BY <1>2, <4>1, <4>4, NoTransfer
        <4> HIDE DEF chunk, req, sent
        <4>5. QED
          BY <1>1, <3>6, <4>2, <4>3, <4>4 DEF UploadWrite
      <3>7. QED
        BY <3>4, <3>5, <3>6
    <2>4. CASE PartEnd
      <3>1. \/ Denied(closed)
            \/ request' = closed /\ UploadEnd
        BY <2>4 DEF PartEnd, Admitted
      <3> DEFINE done == [ota EXCEPT !.file_done = TRUE, !.receiving = FALSE]
      <3>2. done.file_done /\ ~done.receiving
        BY <1>1 DEF OtaStates
      <3> HIDE DEF closed, done
      <3>3. CASE Denied(closed)
        BY <1>1, <1>3, <2>1, <3>3, DeniedTransfer
      <3>4. CASE request' = closed /\ UploadEnd
        <4>1. ota' = done \/ (~ota.receiving /\ ota' = ota)
          BY <1>1, <3>4 DEF UploadEnd, done
        <4>2. ~request'.part
          BY <1>3, <3>4
        <4>3. ~ota'.receiving /\ (ota'.handle_open => ota'.file_done)
          BY <1>1, <3>2, <4>1
        <4>4. QED
          BY <4>2, <4>3, NoTransfer
      <3>5. QED
        BY <3>1, <3>3, <3>4
    <2>5. CASE PartAborted
      <3> DEFINE req == [request EXCEPT !.part = FALSE, !.body = <<>>, !.sent = 0, !.cut = TRUE]
      <3>1. Denied(req) \/ (request' = req /\ ota' = Failed(ota))
        BY <2>5 DEF PartAborted, Admitted
      <3>2. req \in Requests /\ ~req.part
        BY <1>1, EmptyStream DEF Requests
      <3> HIDE DEF req
      <3>3. CASE Denied(req)
        BY <1>1, <2>1, <3>2, <3>3, DeniedTransfer
      <3>4. CASE request' = req /\ ota' = Failed(ota)
        <4>1. ~request'.part
          BY <3>2, <3>4
        <4>2. QED
          BY <1>2, <3>4, <4>1, NoTransfer
      <3>5. QED
        BY <3>1, <3>3, <3>4
    <2>6. QED
      BY <1>4, <2>2, <2>3, <2>4, <2>5 DEF UploadEvent
  <1>5. CASE UploadChecksDeadline
    <2>1. /\ pc' = "request" /\ UNCHANGED <<flash, ota_image>>
          /\ \/ ota' = Failed(ota) /\ request' = [request EXCEPT !.cut = TRUE]
             \/ UNCHANGED <<ota, request>>
      BY <1>5 DEF UploadChecksDeadline, UploadDeadline
    <2>2. CASE ota' = Failed(ota) /\ request' = [request EXCEPT !.cut = TRUE]
      <3>1. /\ request'.part = request.part /\ request'.sent = request.sent
            /\ request'.body = request.body
        BY <1>1, <2>2 DEF Requests
      <3>2. QED
        BY <1>1, <1>2, <2>2, <3>1, NoTransfer
    <2>3. CASE UNCHANGED <<ota, request>>
      BY <1>1, <2>1, <2>3, SameTransfer DEF Expired
    <2>4. QED
      BY <2>1, <2>2, <2>3
  <1>6. CASE UploadReturns
    <2> DEFINE ended == [ota EXCEPT !.handle_open = FALSE, !.success = TRUE]
    <2>1. /\ ~request.part /\ request' = NoRequest /\ UNCHANGED <<ota_image, flash>>
          /\ \/ ota' \in {PollTail(ota), PollTail(Failed(ota))}
             \/ Complete /\ ota' = ended
      BY <1>6 DEF UploadReturns, Finish, RequestDropped
    <2>2. ~request'.part
      BY <2>1 DEF NoRequest
    <2>3. ~ended.handle_open /\ ended.receiving = ota.receiving
      BY <1>1 DEF OtaStates
    <2>4. Complete => ~ota.receiving
      BY DEF Complete, Safe, SessionInv
    <2>5. Failed(ota) \in OtaStates
      BY <1>1, FailedType
    <2>6. PollTail(ota) \in {ota, Failed(ota)}
          /\ PollTail(Failed(ota)) \in {Failed(ota), Failed(Failed(ota))}
      BY <1>1, <2>5, FailedFields
    <2>7. ~Failed(Failed(ota)).receiving /\ ~Failed(Failed(ota)).handle_open
      BY <2>5, FailedFields
    <2> HIDE DEF ended
    <2>8. CASE ota' = ota /\ ota.receiving
      <3>1. Expired
        BY <2>1, <2>8 DEF UploadInv
      <3>2. QED
        BY <1>1, <2>1, <2>2, <2>8, <3>1, StaleTransfer
    <2>9. CASE ~(ota' = ota /\ ota.receiving)
      <3>1. ~ota'.receiving /\ (ota'.handle_open => ota'.file_done)
        BY <1>1, <1>2, <2>1, <2>3, <2>4, <2>6, <2>7, <2>9
      <3>2. QED
        BY <2>2, <3>1, NoTransfer
    <2>10. QED
      BY <2>8, <2>9
  <1>7. QED
    BY <1>4, <1>5, <1>6

LEMMA UploadStep ==
  ASSUME TypeOK, Safe, UploadInv, [Next]_vars
  PROVE  UploadInv'
  BY UploadOthers, UploadBesideCard, UploadServed DEF Next, Main, Restart, PowerCycle

LEMMA UploadInit == Init => UploadInv
  <1> SUFFICES ASSUME Init PROVE UploadInv
    OBVIOUS
  <1>1. ota = Closed /\ request = NoRequest
    BY DEF Init, OtaInit
  <1>2. QED
    BY <1>1 DEF Closed, NoRequest, UploadInv

-----------------------------------------------------------------------------
(* The inductive invariant and what follows from it *)

LEMMA InitInd == Init => IndInv
  BY InitType, InitSafe, CardInit, UploadInit DEF IndInv, Safe

LEMMA NextInd == IndInv /\ [Next]_vars => IndInv'
  <1> SUFFICES ASSUME TypeOK, Safe, CardInv, UploadInv, [Next]_vars PROVE IndInv'
    BY DEF IndInv, Safe
  <1>1. QED
    BY NextSafe, CardStep, UploadStep DEF IndInv, Safe

\* What FirmwareUpdate calls its inductive invariant is one.
THEOREM Inductive == Spec => []IndInv
  <1>1. QED
    BY InitInd, NextInd, PTL DEF Spec

\* An installation from the card holds the card's lease from the first byte read to the last one
\* written, writes nothing but an application, and what lies in the spare slot is what the second
\* reading saw (sd_update.cpp transfer).
THEOREM CardCorrect == Spec => []CardRight
  <1>1. ASSUME IndInv PROVE CardRight
    <2>1. OnlyApplicationsWritten
      BY <1>1 DEF IndInv, CardInv, UploadInv, OnlyApplicationsWritten
    <2>2. QED
      BY <1>1, <2>1 DEF IndInv, CardInv, CardRight
  <1>2. QED
    BY <1>1, Inductive, PTL

\* However a client cuts its request into parts and chunks, breaks it off or outlives the
\* deadline, the slot holds what it sent so far, in order, and no handle stays open behind it
\* (ota_update.cpp upload, ota_poll).
THEOREM UploadCorrect == Spec => []UploadRight
  <1>1. ASSUME IndInv PROVE UploadRight
    <2>1. HandleNotRetained
      BY <1>1 DEF IndInv, UploadInv, HandleNotRetained
    <2>2. UploadWrittenInOrder
      BY <1>1 DEF IndInv, UploadInv, UploadWrittenInOrder
    <2>3. QED
      BY <2>1, <2>2 DEF UploadRight
  <1>2. QED
    BY <1>1, Inductive, PTL

-----------------------------------------------------------------------------
(* What a step does to the slots: one of five things *)

Metadata == <<img_state, selected, running>>

KeepSlots == UNCHANGED <<flash, Metadata>>

\* The spare slot is rewritten by a transfer that somebody asked for.
Asked ==
  \/ ota.receiving /\ request.auth /\ ~ota.faces
  \/ sd.phase = "Writing" /\ sd.checked = sd.total

WriteSpare ==
  /\ selected = running /\ img_state[running] # "pending" /\ Asked
  /\ \E data : flash' = [flash EXCEPT ![Target] = data]
  /\ UNCHANGED Metadata

\* A whole image of this board is in the spare slot, or is completed by this step, and selected.
SelectSpare ==
  /\ selected = running /\ img_state[running] # "pending"
  /\ flash' = flash \/ (Asked /\ \E data : flash' = [flash EXCEPT ![Target] = data])
  /\ EspSelect(Target, flash'[Target]) /\ Genuine(flash'[Target])
  /\ running' = running

ConfirmRunning ==
  /\ img_state[running] = "pending" /\ EspConfirm
  /\ UNCHANGED <<flash, selected, running>>

Boots == EspBoot /\ flash' = flash

LEMMA UploadWrites ==
  ASSUME TypeOK, Safe, UploadInv, UploadEvent
  PROVE  KeepSlots \/ WriteSpare
  <1>1. /\ pc = "request" /\ UNCHANGED Metadata
        /\ ota.active /\ ~ota.success
    BY DEF UploadEvent, OutsideUpload, Metadata, Safe, SessionInv
  <1>2. CASE UNCHANGED flash
    BY <1>1, <1>2 DEF KeepSlots
  <1>3. CASE flash' # flash
    <2>1. PICK size \in 1..SlotSize : PartWrite(size)
      BY <1>3 DEF UploadEvent, PartStart, PartEnd, PartAborted, Denied
    <2> DEFINE chunk == SubSeq(request.body, request.sent + 1, request.sent + size)
    <2>2. Authorized /\ ~ota.faces /\ ota.receiving /\ UploadChunk(chunk)
      BY <1>3, <2>1 DEF PartWrite, Denied, Admitted, UploadWrite
    <2> HIDE DEF chunk
    <2>3. /\ ota.handle_open \/ EspBeginAllowed
          /\ \E data : flash' = [flash EXCEPT ![Target] = data]
      BY <1>3, <2>2 DEF UploadChunk
    <2>4. selected = running /\ img_state[running] # "pending"
      BY <1>1, <2>3, UploadOwnsSpare DEF Safe, SessionInv, EspBeginAllowed
    <2>5. Asked
      BY <2>2 DEF Asked, Authorized
    <2>6. QED
      BY <1>1, <2>3, <2>4, <2>5 DEF WriteSpare
  <1>4. QED
    BY <1>2, <1>3

LEMMA UploadSelects ==
  ASSUME TypeOK, Safe, UploadReturns
  PROVE  KeepSlots \/ SelectSpare
  <1>1. UNCHANGED <<flash, running>> /\ pc = "request" /\ ota.active /\ ~ota.success
    BY DEF UploadReturns, OutsideUpload, Finish, RequestDropped, Safe, SessionInv
  <1>2. CASE UNCHANGED <<img_state, selected>>
    BY <1>1, <1>2 DEF KeepSlots, Metadata
  <1>3. CASE Complete /\ EspSelect(Target, flash[Target])
    <2>1. ota.handle_open /\ HasMarker(flash[Target])
      BY <1>3 DEF Complete, Safe, ImageInv
    <2>2. selected = running /\ img_state[running] # "pending"
      BY <1>1, <2>1, UploadOwnsSpare DEF Safe, SessionInv
    <2>3. flash'[Target] = flash[Target]
      BY <1>1
    <2>4. EspSelect(Target, flash'[Target])
      BY <1>3, <2>3
    <2>5. Genuine(flash'[Target])
      BY <1>3, <2>1, <2>3 DEF EspSelect, Genuine
    <2>6. QED
      BY <1>1, <2>2, <2>4, <2>5 DEF SelectSpare
  <1>4. QED
    BY <1>2, <1>3 DEF UploadReturns, Finish, RequestDropped

LEMMA CardWrites ==
  ASSUME TypeOK, Safe, CardInv, SdPollStep
  PROVE  KeepSlots \/ WriteSpare \/ SelectSpare
  <1>1. SdPoll
    BY DEF SdPollStep, SdService
  <1>2. /\ Target \in Slots /\ flash \in [Slots -> Seq(Units)] /\ flash[Target] \in Seq(Units)
    BY TargetFacts DEF TypeOK, EspTypeOK, Safe, SlotsInv
  <1>3. CASE UNCHANGED espVars
    BY <1>3 DEF KeepSlots, Metadata, espVars
  <1>4. CASE ReadFails \/ CheckFails \/ (WriteFails /\ flash' = flash)
    BY <1>4 DEF KeepSlots, Metadata, ReadFails, CheckFails, WriteFails, TransferFail
  <1>5. ASSUME sd.phase = "Writing", sd.handle_open \/ EspBeginAllowed
        PROVE  selected = running /\ img_state[running] # "pending" /\ Asked
    BY <1>5, SdOwnsSpare DEF Asked, CardInv
  <1>6. CASE WriteFails /\ flash' # flash
    <2>1. /\ sd.phase = "Writing" /\ (sd.handle_open \/ EspBeginAllowed)
          /\ \E data : flash' = [flash EXCEPT ![Target] = data]
          /\ UNCHANGED Metadata
      BY <1>6 DEF WriteFails, TransferFail, Metadata
    <2>2. QED
      BY <1>5, <2>1 DEF WriteSpare
  <1>7. CASE WriteChunk
    <2>1. /\ sd.phase = "Writing" /\ (sd.handle_open \/ EspBeginAllowed)
          /\ \E data : flash' = [flash EXCEPT ![Target] = data]
          /\ UNCHANGED Metadata
      BY <1>7 DEF WriteChunk, Metadata
    <2>2. QED
      BY <1>5, <2>1 DEF WriteSpare
  <1>8. CASE WriteLast
    <2> DEFINE fed == Feed(sd_image, NextChunk)
               start == IF sd.handle_open THEN flash[Target] ELSE <<>>
               image == start \o NextChunk
    <2>1. /\ sd.phase = "Writing" /\ (sd.handle_open \/ EspBeginAllowed) /\ Readable
          /\ flash' = [flash EXCEPT ![Target] = image] /\ running' = running
          /\ \/ fed.board_found /\ EspSelect(Target, image)
             \/ UNCHANGED <<img_state, selected>>
      BY <1>8 DEF WriteLast, Compatible
    <2>2. CASE UNCHANGED <<img_state, selected>>
      <3> HIDE DEF image
      <3>1. QED
        BY <1>5, <2>1, <2>2 DEF WriteSpare, Metadata
    <2>3. CASE fed.board_found /\ EspSelect(Target, image)
      <3>1. NextChunk \in Seq(Units) /\ start \in Seq(Units)
        BY <1>2, <2>1, NextChunkType, EmptyStream
      <3>2. fed.board_found <=> sd_image.board_found \/ HasMarker(NextChunk)
        BY DEF Feed
      <3>3. sd_image.board_found => HasMarker(start)
        BY <2>1 DEF Safe, ImageInv
      <3> HIDE DEF start, fed
      <3>4. HasMarker(image)
        BY <2>3, <3>1, <3>2, <3>3, MarkerConcat
      <3> HIDE DEF image
      <3>5. flash'[Target] = image
        BY <1>2, <2>1
      <3>6. Genuine(flash'[Target]) /\ EspSelect(Target, flash'[Target])
        BY <2>3, <3>4, <3>5 DEF Genuine, EspSelect
      <3>7. QED
        BY <1>5, <2>1, <3>6 DEF SelectSpare
    <2>4. QED
      BY <2>1, <2>2, <2>3
  <1>9. CASE CheckChunk
    BY <1>9 DEF CheckChunk, espVars, KeepSlots, Metadata
  <1>10. QED
    BY <1>1, <1>3, <1>4, <1>6, <1>7, <1>8, <1>9 DEF SdPoll

LEMMA SlotSteps ==
  ASSUME TypeOK, Safe, CardInv, UploadInv, [Next]_vars
  PROVE  KeepSlots \/ WriteSpare \/ SelectSpare \/ ConfirmRunning \/ Boots
  <1>1. CASE LoopTop
    <2>1. /\ UNCHANGED <<flash, selected, running>>
          /\ UNCHANGED img_state \/ (img_state[running] = "pending" /\ EspConfirm)
      BY <1>1 DEF LoopTop, OtaBootPoll
    <2>2. QED
      BY <2>1 DEF KeepSlots, Metadata, ConfirmRunning
  <1>2. CASE Restart \/ PowerCycle
    BY <1>2 DEF Restart, PowerCycle, Reset, Boots
  <1>3. CASE SdPollStep
    BY <1>3, CardWrites
  <1>4. CASE UploadEvent
    BY <1>4, UploadWrites
  <1>5. CASE UploadReturns
    BY <1>5, UploadSelects
  <1>6. CASE SdBack \/ SdStart \/ OtaBack \/ OtaCloses \/ OtaIdle \/ OtaRestartWait
             \/ OtaFirmwareMode \/ UploadArrives \/ OpenOta \/ OpenSd \/ NormalLoop
             \/ Tick \/ Surroundings
    <2>1. UNCHANGED espVars
      BY <1>6
      DEF SdBack, SdStart, SdTap, SdService, OtaBack, OtaCloses, OtaIdle, OtaRestartWait,
          OtaFirmwareMode, OtaService, UploadArrives, OpenOta, OpenSd, NormalLoop, Normal,
          Tick, Surroundings
    <2>2. QED
      BY <2>1 DEF espVars, KeepSlots, Metadata
  <1>7. CASE UploadChecksDeadline \/ UNCHANGED vars
    BY <1>7 DEF UploadChecksDeadline, OutsideUpload, vars, espVars, KeepSlots, Metadata
  <1>8. QED
    BY <1>1, <1>2, <1>3, <1>4, <1>5, <1>6, <1>7 DEF Next, Main

\* What the bootloader makes of slots that are safe: it starts what was selected, puts a new image
\* on trial and gives up one that was on trial already.
LEMMA BootChoice ==
  ASSUME TypeOK, SlotsInv, EspBoot
  PROVE  /\ selected' = running'
         /\ img_state[selected] = "pending" =>
              running' = Target /\ img_state'[running'] \in {"undefined", "valid"}
         /\ img_state[selected] = "new" =>
              running' = selected /\ img_state'[running'] = "pending"
         /\ img_state[selected] \notin {"pending", "new"} =>
              running' = selected /\ img_state'[running'] \in {"undefined", "valid"}
  <1>1. /\ running \in Slots /\ selected \in Slots /\ Target \in Slots
        /\ Target # running /\ Slots = {running, Target} /\ Other(running) = Target
        /\ img_state \in [Slots -> ImageStates]
    BY TargetFacts DEF SlotsInv, TypeOK, EspTypeOK, Target
  <1> DEFINE judged == IF img_state[selected] = "pending"
                       THEN [img_state EXCEPT ![selected] = "aborted"] ELSE img_state
             bootable == {s \in Slots : judged[s] # "aborted" /\ flash[s] \in Intact}
             choice == IF selected \in bootable THEN selected ELSE Other(selected)
  <1>2. choice \in bootable =>
          /\ running' = choice /\ selected' = choice
          /\ img_state' = [judged EXCEPT ![choice] = IF @ = "new" THEN "pending" ELSE @]
    BY DEF EspBoot
  <1>3. judged \in [Slots -> ImageStates]
    BY <1>1 DEF ImageStates
  <1>4. ASSUME NEW s \in Slots, choice = s, s \in bootable
        PROVE  /\ running' = s /\ selected' = s
               /\ img_state'[s] = IF judged[s] = "new" THEN "pending" ELSE judged[s]
    <2> HIDE DEF judged, bootable, choice
    <2>1. QED
      BY <1>2, <1>3, <1>4
  <1>5. CASE img_state[selected] = "pending"
    <2>1. /\ selected = running /\ Genuine(flash[Target])
          /\ img_state[Target] \in {"undefined", "valid"}
      BY <1>5 DEF SlotsInv
    <2>2. judged[running] = "aborted" /\ judged[Target] = img_state[Target]
      BY <1>1, <1>5, <2>1
    <2>3. Target \in bootable /\ choice = Target
      BY <1>1, <2>1, <2>2 DEF Genuine
    <2> HIDE DEF judged, bootable, choice
    <2>4. QED
      BY <1>1, <1>4, <1>5, <2>1, <2>2, <2>3
  <1>6. CASE img_state[selected] # "pending"
    <2>1. img_state[selected] \in {"undefined", "valid", "new"}
      BY <1>6 DEF SlotsInv
    <2>2. judged = img_state /\ selected \in bootable /\ choice = selected
      BY <1>1, <1>6, <2>1 DEF SlotsInv, Genuine
    <2> HIDE DEF judged, bootable, choice
    <2>3. QED
      BY <1>1, <1>4, <1>6, <2>1, <2>2
  <1>7. QED
    BY <1>5, <1>6

-----------------------------------------------------------------------------
(* What a step may do to the slots and to a success *)

\* A slot that is written is the spare one.
LEMMA SpareOnly ==
  ASSUME TypeOK, Safe, NEW s \in Slots,
         flash' = flash \/ \E data : flash' = [flash EXCEPT ![Target] = data],
         flash'[s] # flash[s]
  PROVE  s = Target
  BY TargetFacts DEF TypeOK, EspTypeOK, Safe, SlotsInv

\* No step of a transfer, of a request that is cut short or of a reset rewrites the image that
\* runs or one that is already selected; every write belongs to an admitted upload or to a card
\* whose file passed the check; and a session that has selected a new image ends in its restart
\* (ota_update.cpp, sd_update.cpp; docs/OTA.md).
THEOREM StepsCorrect == Spec => StepsSafe
  <1>1. ASSUME IndInv, [Next]_vars
        PROVE  /\ \A s \in Slots : flash'[s] # flash[s] => s # running /\ s # selected
               /\ flash' # flash => Asked
               /\ ota.success \/ sd.phase = "Success" =>
                    (ota'.success \/ sd'.phase = "Success") \/ running' = selected
    <2>1. /\ TypeOK /\ Safe /\ CardInv /\ UploadInv /\ IndInv'
          /\ running \in Slots /\ Target \in Slots /\ Target # running
      BY <1>1, NextInd, TargetFacts DEF IndInv, Safe, SlotsInv
    <2>2. KeepSlots \/ WriteSpare \/ SelectSpare \/ ConfirmRunning \/ Boots
      BY <1>1, <2>1, SlotSteps
    <2>3. ASSUME NEW s \in Slots, flash'[s] # flash[s] PROVE s # running /\ s # selected
      <3>1. /\ selected = running
            /\ flash' = flash \/ \E data : flash' = [flash EXCEPT ![Target] = data]
        BY <2>2, <2>3 DEF KeepSlots, WriteSpare, SelectSpare, ConfirmRunning, Boots
      <3>2. s = Target
        BY <2>1, <2>3, <3>1, SpareOnly
      <3>3. QED
        BY <2>1, <3>1, <3>2
    <2>4. flash' # flash => Asked
      BY <2>2 DEF KeepSlots, WriteSpare, SelectSpare, ConfirmRunning, Boots
    <2>5. ASSUME ota.success \/ sd.phase = "Success"
          PROVE  (ota'.success \/ sd'.phase = "Success") \/ running' = selected
      <3>1. selected # running /\ img_state[selected] = "new"
        BY <2>1, <2>5 DEF Safe, SessionInv, SlotsInv
      <3>2. CASE Boots
        BY <2>1, <3>1, <3>2, BootChoice DEF Boots, Safe
      <3>3. CASE ~Boots
        <4>1. selected' = selected /\ running' = running
          BY <2>2, <3>1, <3>3
          DEF KeepSlots, WriteSpare, SelectSpare, ConfirmRunning, Metadata
        <4>2. (ota'.success \/ sd'.phase = "Success") <=> selected' # running'
          BY <2>1 DEF IndInv, SessionInv
        <4>3. QED
          BY <3>1, <4>1, <4>2
      <3>4. QED
        BY <3>2, <3>3
    <2>6. QED
      BY <2>3, <2>4, <2>5
  <1>2. IndInv /\ [Next]_vars =>
          /\ [\A s \in Slots : flash'[s] # flash[s] => s # running /\ s # selected]_vars
          /\ [flash' # flash =>
                \/ ota.receiving /\ request.auth /\ ~ota.faces
                \/ sd.phase = "Writing" /\ sd.checked = sd.total]_vars
          /\ [ota.success \/ sd.phase = "Success" =>
                (ota'.success \/ sd'.phase = "Success") \/ running' = selected]_vars
    BY <1>1 DEF Asked
  <1>3. Spec => OnlySpareWritten
    BY <1>2, Inductive, PTL DEF Spec, OnlySpareWritten
  <1>4. Spec => WritesAreAskedFor
    BY <1>2, Inductive, PTL DEF Spec, WritesAreAskedFor
  <1>5. Spec => SuccessIsFinal
    BY <1>2, Inductive, PTL DEF Spec, SuccessIsFinal
  <1>6. QED
    BY <1>3, <1>4, <1>5 DEF StepsSafe

-----------------------------------------------------------------------------
(* The device is a two-slot update *)

\* The refinement mapping of FirmwareUpdate, by name.
GenuineSlots == {s \in Slots : Genuine(flash[s])}
Trial == CASE img_state[selected] = "new" -> "armed"
           [] img_state[selected] = "pending" -> "running"
           [] OTHER -> "none"

LEMMA TrialIs ==
  /\ img_state[selected] = "new" => Trial = "armed"
  /\ img_state[selected] = "pending" => Trial = "running"
  /\ img_state[selected] \notin {"new", "pending"} => Trial = "none"
  BY DEF Trial

LEMMA TrialBecomes ==
  /\ (img_state[selected] = "new")' => Trial' = "armed"
  /\ (img_state[selected] = "pending")' => Trial' = "running"
  /\ (img_state[selected] \notin {"new", "pending"})' => Trial' = "none"
  BY DEF Trial

LEMMA AbstractInit == Init => AB!AbInit
  <1> SUFFICES ASSUME Init PROVE AB!AbInit
    OBVIOUS
  <1>1. /\ running = 0 /\ selected = 0 /\ Genuine(flash[0])
        /\ img_state = [s \in Slots |-> "undefined"]
    BY DEF Init, EspInit, Genuine, Slots
  <1>2. Trial = "none"
    BY <1>1, TrialIs DEF Slots
  <1>3. GenuineSlots \in SUBSET {0, 1} /\ running \in GenuineSlots
    BY <1>1 DEF GenuineSlots, Slots
  <1>4. QED
    BY <1>1, <1>2, <1>3 DEF AB!AbInit, GenuineSlots, Trial

\* Writing the spare slot makes it genuine or not and leaves the other one as it was.
LEMMA SpareRewritten ==
  ASSUME TypeOK, Safe, running' = running,
         flash' = flash \/ \E data : flash' = [flash EXCEPT ![Target] = data]
  PROVE  /\ GenuineSlots' \in {GenuineSlots \cup {Target}, GenuineSlots \ {Target}}
         /\ Genuine(flash'[Target]) => GenuineSlots' = GenuineSlots \cup {Target}
  <1>1. /\ running \in Slots /\ Target \in Slots /\ Target # running /\ Slots = {running, Target}
        /\ flash \in [Slots -> Seq(Units)]
    BY TargetFacts DEF TypeOK, EspTypeOK, Safe, SlotsInv
  <1>2. flash'[running] = flash[running]
    BY <1>1
  <1>3. \A s \in Slots : (s \in GenuineSlots <=> Genuine(flash[s]))
                         /\ (s \in GenuineSlots' <=> Genuine(flash'[s]))
    BY DEF GenuineSlots, Genuine, HasMarker
  <1>4. GenuineSlots \subseteq Slots /\ GenuineSlots' \subseteq Slots
    BY DEF GenuineSlots
  <1>5. running \in GenuineSlots <=> running \in GenuineSlots'
    BY <1>1, <1>2, <1>3
  <1>6. QED
    BY <1>1, <1>3, <1>4, <1>5

LEMMA AbstractStep ==
  ASSUME IndInv, [Next]_vars
  PROVE  [AB!AbNext]_AB!abVars
  <1>1. /\ TypeOK /\ Safe /\ CardInv /\ UploadInv
        /\ running \in Slots /\ Target \in Slots /\ Target = 1 - running
        /\ img_state \in [Slots -> ImageStates]
    BY TargetFacts DEF IndInv, Safe, SlotsInv, TypeOK, EspTypeOK, Target, Other
  <1>2. KeepSlots \/ WriteSpare \/ SelectSpare \/ ConfirmRunning \/ Boots
    BY <1>1, SlotSteps
  <1>3. selected = running /\ img_state[running] # "pending" => Trial = "none"
    <2>1. selected = running /\ img_state[running] # "pending"
            => img_state[selected] \in {"undefined", "valid"}
      BY <1>1 DEF Safe, SlotsInv
    <2>2. QED
      BY <2>1, TrialIs
  <1>4. CASE KeepSlots
    <2>1. GenuineSlots' = GenuineSlots
      BY <1>4 DEF GenuineSlots, KeepSlots, Genuine, HasMarker
    <2>2. Trial' = Trial /\ selected' = selected /\ running' = running
      BY <1>4 DEF Trial, KeepSlots, Metadata
    <2>3. QED
      BY <2>1, <2>2 DEF AB!abVars, GenuineSlots, Trial
  <1>5. CASE WriteSpare
    <2>1. GenuineSlots' \in {GenuineSlots \cup {Target}, GenuineSlots \ {Target}}
      BY <1>1, <1>5, SpareRewritten DEF WriteSpare, Metadata
    <2>2. Trial' = Trial /\ selected' = selected /\ running' = running /\ Trial = "none"
      BY <1>3, <1>5 DEF Trial, WriteSpare, Metadata
    <2>3. QED
      BY <1>1, <2>1, <2>2 DEF AB!AbNext, AB!Rewrite, AB!Spare, GenuineSlots, Trial
  <1>6. CASE SelectSpare
    <2>1. GenuineSlots' = GenuineSlots \cup {Target}
      BY <1>1, <1>6, SpareRewritten DEF SelectSpare
    <2>2. selected' = Target /\ running' = running /\ Trial = "none"
      BY <1>3, <1>6 DEF SelectSpare, EspSelect
    <2>3. Trial' = "armed"
      BY <1>1, <1>6, TrialBecomes DEF SelectSpare, EspSelect
    <2>4. QED
      BY <1>1, <2>1, <2>2, <2>3 DEF AB!AbNext, AB!Install, AB!Spare, GenuineSlots, Trial
  <1>7. CASE ConfirmRunning
    <2>1. selected = running
      BY <1>1, <1>7 DEF ConfirmRunning, Safe, SlotsInv
    <2>2. GenuineSlots' = GenuineSlots
      BY <1>7 DEF GenuineSlots, ConfirmRunning, Genuine, HasMarker
    <2>3. Trial = "running"
      BY <1>7, <2>1, TrialIs DEF ConfirmRunning
    <2>4. Trial' = "none"
      BY <1>1, <1>7, <2>1, TrialBecomes DEF ConfirmRunning, EspConfirm
    <2>5. QED
      BY <1>7, <2>2, <2>3, <2>4
      DEF ConfirmRunning, AB!AbNext, AB!Accept, GenuineSlots, Trial
  <1>8. CASE Boots
    <2>1. GenuineSlots' = GenuineSlots
      BY <1>8 DEF GenuineSlots, Boots, Genuine, HasMarker
    <2>2. /\ selected' = running'
          /\ img_state[selected] = "pending" =>
               running' = Target /\ img_state'[running'] \in {"undefined", "valid"}
          /\ img_state[selected] = "new" =>
               running' = selected /\ img_state'[running'] = "pending"
          /\ img_state[selected] \notin {"pending", "new"} =>
               running' = selected /\ img_state'[running'] \in {"undefined", "valid"}
      BY <1>1, <1>8, BootChoice DEF Boots, Safe
    <2>3. Trial' = IF Trial = "armed" THEN "running" ELSE "none"
      BY <2>2, TrialIs, TrialBecomes
    <2>4. selected' = IF Trial = "running" THEN Target ELSE selected
      BY <2>2, TrialIs
    <2>5. QED
      BY <1>1, <2>1, <2>2, <2>3, <2>4
      DEF AB!AbNext, AB!Reboot, AB!Spare, GenuineSlots, Trial
  <1>9. QED
    BY <1>2, <1>4, <1>5, <1>6, <1>7, <1>8

\* The device, with its two updaters, its audio worker, its card and its power supply, is the
\* two-slot update of AbUpdate: every step rewrites the spare slot, installs, accepts, reboots or
\* leaves the slots alone.
THEOREM Refinement == Spec => ImplementsAbUpdate
  <1>1. IndInv /\ [Next]_vars => [AB!AbNext]_AB!abVars
    BY AbstractStep
  <1>2. QED
    BY <1>1, AbstractInit, Inductive, PTL DEF Spec, ImplementsAbUpdate, AB!AbSpec
=============================================================================
