------------------------------- MODULE Ancs -------------------------------
(***************************************************************************)
(* ancs_service.cpp, ancs_parser.cpp and ams_service.cpp: the notification *)
(* and media services of an iPhone.  Bluetooth callbacks put events into a *)
(* bounded queue without waiting for room; one worker takes them out, asks *)
(* the phone for an alert's fields, then for its application's name, and   *)
(* publishes it.  Connections are numbered; a write or a discovery on one  *)
(* that is over fails.                                                     *)
(***************************************************************************)
EXTENDS UiState

CONSTANTS
  Uids,       \* notifications of the phone
  Actions,    \* MusicAction
  QueueSize,  \* 8 in the code
  MaxLinks,   \* bound: connections
  MaxNotices, \* bound: notification events of a connection
  MaxMedia,   \* bound: media and service events of a connection
  Failures    \* whether writes on a living connection may fail, and alerts be dismissed

VARIABLES
  ui,      \* ui_state
  cached,  \* the alerts and index that the screen has drawn
  link,    \* the current connection, 0 when there is none
  links,   \* connections so far
  queue,   \* events
  lost,    \* a connection event found no room
  phone,   \* [alerts: those the phone has told of, air: its replies on their way,
           \*  notices, media: events sent on this connection]
  subs,    \* the connection whose notifications are subscribed
  worker,  \* [pc, client, control, held: the command taken by AmsService::poll]
  parser,  \* [uid, pending, part: fragments of the reply so far]
  app,     \* [pending: app_pending, old: 2000 ms since app_started]
  ams      \* [remote: the connection of _remote, music: _music]

vars == <<ui, cached, link, links, queue, lost, phone, subs, worker, parser, app, ams>>

Blank == "Blank"  \* AncsAlert{}

ASSUME AncsConstants ==
  /\ {QueueSize, MaxLinks, MaxNotices, MaxMedia} \subseteq Nat /\ Failures \in BOOLEAN
  /\ Blank \notin Uids /\ NoAction \notin Actions

NoAlert == [uid |-> Blank, pending |-> FALSE, part |-> 0]
NoApp == [pending |-> FALSE, old |-> FALSE]
NoAms == [remote |-> 0, music |-> NoMusic]
Idle == [alerts |-> {}, air |-> <<>>, notices |-> 0, media |-> 0]

\* enqueue: without room, the event is gone.
Enqueue(e) == queue' = IF Len(queue) < QueueSize THEN Append(queue, e) ELSE queue

(***************************************************************************)
(* Callbacks of the Bluetooth host, and the screen.                        *)
(***************************************************************************)
\* onConnect.
Connects ==
  /\ link = 0 /\ links < MaxLinks
  /\ links' = links + 1 /\ link' = links + 1
  /\ ui' = UiConnection(ui, TRUE)
  /\ Enqueue(<<"Connected", links + 1>>)
  /\ lost' = (lost \/ Len(queue) = QueueSize)
  /\ UNCHANGED <<cached, phone, subs, worker, parser, app, ams>>

\* onDisconnect.
Disconnects ==
  /\ link # 0 /\ link' = 0 /\ subs' = 0 /\ phone' = Idle
  /\ Enqueue(<<"Disconnected", link>>)
  /\ lost' = (lost \/ Len(queue) = QueueSize)
  /\ ui' = UiConnection(ui, FALSE)
  /\ UNCHANGED <<cached, links, worker, parser, app, ams>>

Subscribed == link # 0 /\ subs = link

\* source_notify: the phone adds, modifies or removes a notification.
Notifies(uid) ==
  /\ Subscribed /\ phone.notices < MaxNotices
  /\ \E removed \in BOOLEAN :
       /\ removed => uid \in phone.alerts
       /\ phone' = [phone EXCEPT !.notices = @ + 1,
                                 !.alerts = IF removed THEN @ \ {uid} ELSE @ \cup {uid}]
       /\ Enqueue(<<IF removed THEN "Removed" ELSE "Source", uid>>)
  /\ UNCHANGED <<ui, cached, link, links, lost, subs, worker, parser, app, ams>>

\* data_notify: the next fragment that the phone owes.
Replies ==
  /\ Subscribed /\ phone.air # <<>>
  /\ phone' = [phone EXCEPT !.air = Tail(@)]
  /\ Enqueue(Head(phone.air))
  /\ UNCHANGED <<ui, cached, link, links, lost, subs, worker, parser, app, ams>>

\* media_notify, commands_notify and services_notify.
MediaEvents ==
  /\ link # 0 /\ phone.media < MaxMedia
  /\ phone' = [phone EXCEPT !.media = @ + 1]
  /\ \/ ams.remote = link /\ \E commands \in {{}, Actions} : Enqueue(<<"Commands", commands>>)
     \/ worker.client = link /\ Enqueue(<<"Services", link>>)
  /\ UNCHANGED <<ui, cached, link, links, lost, subs, worker, parser, app, ams>>

\* A tap on the Music page, one on an alert's arrows or bin, and screens_draw.
Screen ==
  /\ \/ /\ \E a \in Actions : ui' = UiRequest(ui, a)
        /\ UNCHANGED cached
     \/ /\ Failures
        /\ ui' \in {UiDismiss(ui), UiStep(ui, 1), UiStep(ui, -1)}
        /\ UNCHANGED cached
     \/ /\ ~ui.seen
        /\ ui' = UiDrawn(ui) /\ cached' = [alerts |-> ui.alerts, index |-> ui.index]
  /\ UNCHANGED <<link, links, queue, lost, phone, subs, worker, parser, app, ams>>

\* Two seconds pass after request_app.
Ages ==
  /\ app.pending /\ ~app.old
  /\ app' = [app EXCEPT !.old = TRUE]
  /\ UNCHANGED <<ui, cached, link, links, queue, lost, phone, subs, worker, parser, ams>>

(***************************************************************************)
(* The worker.                                                             *)
(***************************************************************************)
\* A write or discovery on the connection c: it may fail, and does once c is over.
Succeeds(c) == IF c # 0 /\ c = link THEN (IF Failures THEN BOOLEAN ELSE {TRUE}) ELSE {FALSE}

\* Mutant of AmsReset: the music shown is left to the next publication.
AmsResetSilent(s) == [s EXCEPT !.ams = NoAms, !.ui = UiTake(@)]

\* AmsService::reset, on the pair of ui and ams.
AmsReset(s) == [ams |-> NoAms, ui |-> UiTake(UiMusic(s.ui, NoMusic))]

\* AmsService::discover, which found the service on connection c.
AmsFound(s, c) ==
  LET music == [s.ams.music EXCEPT !.available = TRUE]
  IN [ams |-> [remote |-> c, music |-> music], ui |-> UiMusic(s.ui, music)]

AmsIs(s) == ams' = s.ams /\ ui' = s.ui
Media == [ams |-> ams, ui |-> ui]

\* service_tick, to AmsService::poll's check of the command that it took.
Tick ==
  /\ worker.pc = "tick"
  /\ IF worker.client # 0 /\ worker.client = link
     THEN /\ worker' = [worker EXCEPT !.pc = "write", !.held =
                IF ams.remote # 0 /\ Taken(ui) \in ams.music.commands THEN Taken(ui) ELSE NoAction]
          /\ ui' = UiTake(ui)
     ELSE worker' = [worker EXCEPT !.pc = "receive"] /\ UNCHANGED ui
  /\ UNCHANGED <<cached, link, links, queue, lost, phone, subs, parser, app, ams>>

\* discover and AmsService::discover on the client, where each is wanted.
Discovers(s, notices, media) ==
  /\ \E found \in IF notices THEN Succeeds(worker'.client) ELSE {FALSE} :
       /\ worker'.control = IF found THEN worker'.client ELSE IF notices THEN 0 ELSE worker.control
       /\ subs' = IF found THEN worker'.client ELSE subs
  /\ \E found \in IF media THEN Succeeds(worker'.client) ELSE {FALSE} :
       AmsIs(IF found THEN AmsFound(s, worker'.client) ELSE s)

\* The command is written, and every five seconds the services missing are sought.
Write ==
  /\ worker.pc = "write"
  /\ \E ok \in Succeeds(ams.remote), due \in BOOLEAN, control \in {worker.control, worker.client} :
       LET s == IF worker.held = NoAction \/ ok THEN Media ELSE AmsReset(Media)
       IN /\ worker' = [worker EXCEPT !.pc = "receive", !.held = NoAction, !.control = control]
          /\ Discovers(s, due /\ worker.control = 0, due /\ s.ams.remote = 0)
  /\ UNCHANGED <<cached, link, links, queue, lost, phone, parser, app>>

\* Mutant of Forget: the wait for the application's name goes on.
ForgetFields == parser' = NoAlert /\ UNCHANGED app

\* parser.reset(), and with it the request for an application's name.
Forget == parser' = NoAlert /\ app' = NoApp

\* Disconnected.
Disconnected ==
  /\ Forget /\ AmsIs(AmsReset(Media))
  /\ worker' = [worker EXCEPT !.pc = "tick", !.client = 0, !.control = 0]
  /\ UNCHANGED <<subs, phone>>

\* Connected: app_pending is not touched.
Connected(l) ==
  /\ parser' = NoAlert /\ UNCHANGED <<app, phone>>
  /\ \E control \in {0, l} : worker' = [worker EXCEPT !.pc = "tick", !.client = l, !.control = control]
  /\ Discovers(AmsReset(Media), TRUE, TRUE)

\* Services: all is found again at the next tick.
Services ==
  /\ IF worker.client # 0
     THEN /\ Forget /\ AmsIs(AmsReset(Media))
          /\ worker' = [worker EXCEPT !.pc = "tick", !.control = 0]
          /\ subs' = IF subs = worker.client THEN 0 ELSE subs
     ELSE worker' = [worker EXCEPT !.pc = "tick"] /\ UNCHANGED <<parser, app, ams, ui, subs>>
  /\ UNCHANGED phone

\* AmsService::receive of the player's commands.
Commands(commands) ==
  /\ IF ams.remote = 0 THEN UNCHANGED <<ams, ui>>
     ELSE LET music == [ams.music EXCEPT !.commands = commands]
          IN AmsIs([ams |-> [ams EXCEPT !.music = music], ui |-> UiMusic(ui, music)])
  /\ worker' = [worker EXCEPT !.pc = "tick"]
  /\ UNCHANGED <<parser, app, subs, phone>>

\* notification_event of a Source packet: whatever was waiting is given up, and
\* AncsParser::event asks for the fields of an added or modified notification.
Source(uid, removed) ==
  /\ app' = NoApp
  /\ IF removed
     THEN parser' = (IF parser.uid = uid THEN NoAlert ELSE parser) /\ UNCHANGED phone
     ELSE \E ok \in Succeeds(worker.control) :
            /\ parser' = IF ok THEN [uid |-> uid, pending |-> TRUE, part |-> 0] ELSE NoAlert
            /\ phone' = IF ok THEN [phone EXCEPT !.air = @ \o <<<<"Data", uid, 1>>, <<"Data", uid, 2>>>>]
                        ELSE phone
  /\ UNCHANGED ui

\* AncsParser::append completes the fields: the name is asked for, or the bundle's is shown.
Complete ==
  \E ok \in Succeeds(worker.control) :
    /\ parser' = [parser EXCEPT !.pending = FALSE]
    /\ app' = [pending |-> ok, old |-> FALSE]
    /\ ui' = IF ok THEN ui ELSE UiNotification(ui, parser.uid)
    /\ phone' = IF ok THEN [phone EXCEPT !.air = Append(@, <<"Data", parser.uid, 0>>)] ELSE phone

\* notification_event of a Data packet, without a name awaited: what is not the next
\* fragment of the reply resets the parser, unless its bytes pass for one.
Fields(uid, part) ==
  LET next == part = parser.part + 1
  IN \/ /\ parser.pending /\ next /\ part = 1 /\ uid = parser.uid
        /\ parser' = [parser EXCEPT !.part = 1] /\ UNCHANGED <<app, ui, phone>>
     \/ /\ parser.pending /\ next /\ part = 2
        /\ Complete
     \/ /\ ~(parser.pending /\ next /\ uid = parser.uid)
        /\ parser' = NoAlert /\ UNCHANGED <<app, ui, phone>>
     \/ /\ parser.pending /\ parser.part = 1 /\ ~(next /\ uid = parser.uid)
        /\ UNCHANGED <<parser, app, ui, phone>>

\* publish, when the name has come, or something else that ends the wait.
Named(part) ==
  /\ UNCHANGED <<parser, phone>>
  /\ \E done \in IF part = 0 THEN {TRUE} ELSE BOOLEAN :
       IF done THEN app' = NoApp /\ ui' = UiNotification(ui, parser.uid)
       ELSE UNCHANGED <<app, ui>>

\* notification_event.
NotificationEvent(e) ==
  /\ worker' = [worker EXCEPT !.pc = "tick"]
  /\ UNCHANGED <<ams, subs>>
  /\ CASE worker.control = 0 -> UNCHANGED <<parser, app, ui, phone>>
       [] worker.control # 0 /\ e[1] # "Data" -> Source(e[2], e[1] = "Removed")
       [] worker.control # 0 /\ e[1] = "Data" /\ app.pending -> Named(e[3])
       [] worker.control # 0 /\ e[1] = "Data" /\ ~app.pending -> Fields(e[2], e[3])

\* worker: the next event.
Receive ==
  /\ worker.pc = "receive" /\ queue # <<>>
  /\ queue' = Tail(queue)
  /\ LET e == Head(queue)
     IN CASE e[1] = "Disconnected" -> Disconnected
          [] e[1] = "Connected" -> Connected(e[2])
          [] e[1] = "Services" -> Services
          [] e[1] = "Commands" -> Commands(e[2])
          [] OTHER -> NotificationEvent(e)
  /\ UNCHANGED <<cached, link, links, lost>>

\* Mutant of TimedOut: the name is waited for without end.
TimedOutNever == UNCHANGED <<app, ui>>

\* The two seconds are over: the alert is published with the bundle's name.
TimedOut ==
  IF app.pending /\ app.old
  THEN app' = NoApp /\ ui' = UiNotification(ui, parser.uid)
  ELSE UNCHANGED <<app, ui>>

\* worker: 200 ms without an event.
Waits ==
  /\ worker.pc = "receive" /\ queue = <<>>
  /\ TimedOut
  /\ worker' = [worker EXCEPT !.pc = "tick"]
  /\ UNCHANGED <<cached, link, links, queue, lost, phone, subs, parser, ams>>

Init ==
  /\ ui = UiInit /\ cached = [alerts |-> <<>>, index |-> 0]
  /\ link = 0 /\ links = 0 /\ queue = <<>> /\ lost = FALSE /\ phone = Idle /\ subs = 0
  /\ worker = [pc |-> "tick", client |-> 0, control |-> 0, held |-> NoAction]
  /\ parser = NoAlert /\ app = NoApp /\ ams = NoAms

Host == Connects \/ Disconnects \/ (\E uid \in Uids : Notifies(uid)) \/ Replies \/ MediaEvents
Work == Tick \/ Write \/ Receive \/ Waits

Next == Host \/ Screen \/ Ages \/ Work

Spec == Init /\ [][Next]_vars

\* The worker is a task of its own that no other starves; time passes.
FairSpec == Spec /\ WF_vars(Work) /\ WF_vars(Ages)

(***************************************************************************)
(* Properties.                                                             *)
(***************************************************************************)
\* No alert is published of which the fields have been discarded, as long as the queue
\* has had room for every connection and disconnection.
NeverBlank == ~lost => Blank \notin Range(ui.alerts)

\* Once the worker has seen all events, the music shown is what it has from the player
\* of this connection, and nothing when that is not known: neither an earlier phone's,
\* nor that of a service which is gone.
MusicOfThisLink ==
  queue = <<>> /\ ~lost /\ ui.connected =>
    ui.music = ams.music /\ (ui.music.available => ams.remote = link)

\* screens_alert_action "ignoring taps overtaken by incoming data": what a tap removes
\* is the alert drawn, whatever arrives before it, and one of those left is selected.
DismissIsDisplayed ==
  [][Len(ui'.alerts) < Len(ui.alerts) =>
       /\ ui.alerts = cached.alerts /\ ui'.alerts = RemoveAt(cached.alerts, cached.index + 1)
       /\ ui'.alerts # <<>> => ui'.index < Len(ui'.alerts)]_vars

\* An alert complete but for its application's name is not kept waiting for ever.
AppNameEnds == app.pending ~> ~app.pending

\* UI.md:388, "Incoming iPhone alerts appear in the existing Alerts history": when
\* nothing is on its way any more, what the phone has told of is there.
IncomingAppears ==
  queue = <<>> /\ phone.air = <<>> /\ ~parser.pending /\ ~app.pending /\ worker.pc = "receive"
    => phone.alerts \subseteq Range(ui.alerts)
=============================================================================
