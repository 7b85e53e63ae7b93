--------------------------- MODULE NetworkService ---------------------------
(***************************************************************************)
(* network/: the saved network, its station, time attempts and the weather *)
(* worker, as the main task drives them, with what a settings session      *)
(* (update/ota_update.cpp) does to the radio and asks of the service.      *)
(*                                                                         *)
(* A poll, a web request and the opening or closing of a session are one   *)
(* step each: they run on the main task and share nothing with another     *)
(* task but the worker's two queues and the driver's association.  A time  *)
(* attempt, which NtpSync has in full, is only whose station it uses.      *)
(***************************************************************************)
EXTENDS Naturals, FiniteSets

CONSTANTS
  MaxSaves,      \* how often the saved network is changed
  RadioMayFail,  \* whether WiFi.mode and softAP may fail
  SessionKinds   \* the kinds of session that are opened

ASSUME NetworkConstants ==
  /\ MaxSaves \in Nat /\ RadioMayFail \in BOOLEAN
  /\ SessionKinds \subseteq {"lan", "ap", "failed", "card"}

VARIABLES
  config,    \* the saved network, as far as the service tells networks apart
  revision,  \* network_config.cpp: revision
  net,       \* seen_revision; changed and changed_at; online; associating; attempt_at
  ntp,       \* whose station the time attempt uses, ntp_tried with ntp_at
  weather,   \* worker_ready, worker_busy; the revision the weather shown and the
             \* locations are of; weather_tried with weather_at
  worker,    \* the queue requests, the job the worker holds, the queue replies
  radio,     \* Wi-Fi mode, whether the configured access point is up, association
  session    \* maintenance session: what it uses, its page; portal: portal_ap

configVars == <<config, revision>>
vars == <<configVars, net, ntp, weather, worker, radio, session>>

\* network_config_valid: weather needs an enabled network.
Configs == {c \in [enabled : BOOLEAN, weather : BOOLEAN] : c.weather => c.enabled}

Revisions == 1 .. MaxSaves + 1

\* When the next attempt of a kind may run: less than 30 s after the last only
\* if there was none, on request after that, automatically after the interval.
Tries == {"recent", "allowed", "due"}

\* ok: the transfer and its parsing succeeded.
NoJob == [revision |-> 0, search |-> FALSE, ok |-> FALSE]
Jobs == {NoJob} \cup [revision : Revisions, search : BOOLEAN, ok : BOOLEAN]

TypeOK ==
  /\ config \in Configs
  /\ revision \in Revisions
  /\ net \in [seen : Revisions, saved : {"no", "noticed", "due"}, online : BOOLEAN,
              associating : BOOLEAN, attempt : 0 .. 2]
  /\ ntp \in [attempt : {"none", "shared", "own"}, try : Tries]
  /\ weather \in [ready : BOOLEAN, busy : BOOLEAN, shown : {0} \cup Revisions,
                  locations : {0} \cup Revisions, try : Tries]
  /\ worker \in [requests : Jobs, job : Jobs, replies : Jobs]
  /\ radio \in [mode : {"OFF", "STA", "AP", "AP_STA"}, ap : BOOLEAN,
                link : {"off", "begun", "up"}]
  /\ session \in [kind : {"none", "lan", "ap", "failed", "card"}, faces : BOOLEAN,
                  portal : BOOLEAN]

NoSession == [kind |-> "none", faces |-> FALSE, portal |-> FALSE]

-----------------------------------------------------------------------------
(* The radio *)

Access == {"AP", "AP_STA"}
Station == {"STA", "AP_STA"}

\* WiFi.mode(mode): an interface that is switched off loses what it had.
InMode(r, mode) ==
  [mode |-> mode, ap |-> r.ap /\ mode \in Access,
   link |-> IF mode \in Station THEN r.link ELSE "off"]

Begun(r) == [r EXCEPT !.link = "begun"]
Left(r) == [r EXCEPT !.link = "off"]

\* What ntp_sync_stop, or the end of an attempt, does to the radio.
TimeStopped(r) == IF ntp.attempt = "own" THEN InMode(Left(r), "AP") ELSE r
NoAttempt == [ntp EXCEPT !.attempt = "none"]

\* network_restore_radio.
Restored(r) == InMode(r, IF config.enabled THEN "STA" ELSE "OFF")

\* connect, from the state n of the service and r of the radio.
Connect(n, r) ==
  \/ /\ net' = [n EXCEPT !.attempt = 0, !.online = FALSE, !.associating = TRUE]
     /\ radio' = Begun(InMode(r, IF session.portal THEN "AP_STA" ELSE "STA"))
  \/ /\ RadioMayFail
     /\ net' = [n EXCEPT !.attempt = 0, !.online = FALSE, !.associating = FALSE]
     /\ radio' = r

\* network_connected.
Connected ==
  net.seen = revision /\ config.enabled /\ net.online /\ radio.link = "up"

-----------------------------------------------------------------------------
(* The weather worker *)

WorkerTakes ==
  /\ worker.job = NoJob /\ worker.requests # NoJob
  /\ worker' = [worker EXCEPT !.requests = NoJob, !.job = worker.requests]
  /\ UNCHANGED <<configVars, net, ntp, weather, radio, session>>

\* fetch, and xQueueSend, which waits for room.
WorkerReplies ==
  /\ worker.job # NoJob /\ worker.replies = NoJob
  /\ \E ok \in BOOLEAN :
       worker' = [worker EXCEPT !.job = NoJob, !.replies = [worker.job EXCEPT !.ok = ok]]
  /\ UNCHANGED <<configVars, net, ntp, weather, radio, session>>

Worker == WorkerTakes \/ WorkerReplies

\* completed: what is known of the weather once the reply is taken.
Completed ==
  LET reply == worker.replies IN
  IF reply = NoJob THEN weather
  ELSE IF reply.revision # revision THEN [weather EXCEPT !.busy = FALSE]
  ELSE [weather EXCEPT !.busy = FALSE,
                       !.locations = IF reply.search THEN revision ELSE @,
                       !.shown = IF ~reply.search /\ reply.ok /\ config.weather
                                 THEN revision ELSE @]

Taken == [worker EXCEPT !.replies = NoJob]

\* submit, from the worker and the knowledge of the weather as they are by then.
Submit(search, known, queues) ==
  IF known.ready /\ ~known.busy
  THEN /\ weather' = [known EXCEPT !.busy = TRUE]
       /\ worker' = [queues EXCEPT !.requests =
                       [revision |-> revision, search |-> search, ok |-> FALSE]]
  ELSE weather' = known /\ worker' = queues

-----------------------------------------------------------------------------
(* network_poll *)

\* A saved change is noticed, and waits for the reply to leave the socket.
PollSaved ==
  /\ net.seen # revision /\ net.saved # "due"
  /\ net' = [net EXCEPT !.saved = "noticed"]
  /\ weather' = Completed /\ worker' = Taken
  /\ UNCHANGED <<configVars, ntp, radio, session>>

\* Mutant of Configure: the job in flight is forgotten with the old network.
ConfigureForgetsJob ==
  /\ net.seen # revision /\ net.saved = "due"
  /\ weather' = [Completed EXCEPT !.shown = 0, !.locations = 0, !.try = "due", !.busy = FALSE]
  /\ worker' = Taken
  /\ ntp' = [attempt |-> "none", try |-> "due"]
  /\ LET r == Left(TimeStopped(radio))
         n == [net EXCEPT !.seen = revision, !.saved = "no", !.online = FALSE,
                          !.associating = FALSE]
     IN IF config.enabled THEN Connect(n, r)
        ELSE /\ net' = n
             /\ radio' = IF session.portal THEN r ELSE InMode(r, "OFF")
  /\ UNCHANGED <<configVars, session>>

\* configure.
Configure ==
  /\ net.seen # revision /\ net.saved = "due"
  /\ weather' = [Completed EXCEPT !.shown = 0, !.locations = 0, !.try = "due"]
  /\ worker' = Taken
  /\ ntp' = [attempt |-> "none", try |-> "due"]
  /\ LET r == Left(TimeStopped(radio))
         n == [net EXCEPT !.seen = revision, !.saved = "no", !.online = FALSE,
                          !.associating = FALSE]
     IN IF config.enabled THEN Connect(n, r)
        ELSE /\ net' = n
             /\ radio' = IF session.portal THEN r ELSE InMode(r, "OFF")
  /\ UNCHANGED <<configVars, session>>

\* The main loop's allow_jobs.
AllowJobs == session.kind = "none" \/ session.faces

\* ntp_sync_connected finds the station connected, or just lost.
StartTime == ntp' \in [attempt : {"shared", "none"}, try : {"recent"}]

\* automatic, and what follows online: a time attempt, then the weather.
Automatic(clock, known) ==
  LET timeDue == clock.attempt = "none" /\ clock.try = "due"
      weatherDue == /\ config.weather /\ clock.attempt = "none"
                    /\ ~known.busy /\ known.try = "due"
  IN \/ timeDue /\ StartTime /\ weather' = known /\ worker' = Taken
     \/ /\ ~timeDue /\ weatherDue
        /\ ntp' = clock /\ Submit(FALSE, [known EXCEPT !.try = "recent"], Taken)
     \/ ~timeDue /\ ~weatherDue /\ ntp' = clock /\ weather' = known /\ worker' = Taken

PollOnline ==
  /\ net.seen = revision /\ config.enabled /\ radio.link = "up"
  /\ net' = [net EXCEPT !.online = TRUE, !.associating = net.online /\ @]
  /\ LET clock == IF net.online THEN ntp ELSE [ntp EXCEPT !.try = "due"]
     IN IF AllowJobs THEN Automatic(clock, Completed)
        ELSE ntp' = clock /\ weather' = Completed /\ worker' = Taken
  /\ UNCHANGED <<configVars, radio, session>>

PollLost ==
  /\ net.seen = revision /\ config.enabled /\ radio.link # "up"
  /\ net.online
  /\ net' = [net EXCEPT !.online = FALSE, !.associating = FALSE, !.attempt = 0]
  /\ ntp' = NoAttempt /\ radio' = TimeStopped(radio)
  /\ weather' = Completed /\ worker' = Taken
  /\ UNCHANGED <<configVars, session>>

\* Mutant of PollGivesUp: the attempt is still taken to be under way.
PollGivesUpAssociating ==
  /\ net.seen = revision /\ config.enabled /\ radio.link # "up"
  /\ ~net.online /\ net.associating /\ net.attempt > 0
  /\ net' = [net EXCEPT !.attempt = 0]
  /\ radio' = Left(radio)
  /\ weather' = Completed /\ worker' = Taken
  /\ UNCHANGED <<configVars, ntp, session>>

\* Twenty seconds without an association.
PollGivesUp ==
  /\ net.seen = revision /\ config.enabled /\ radio.link # "up"
  /\ ~net.online /\ net.associating /\ net.attempt > 0
  /\ net' = [net EXCEPT !.associating = FALSE, !.attempt = 0]
  /\ radio' = Left(radio)
  /\ weather' = Completed /\ worker' = Taken
  /\ UNCHANGED <<configVars, ntp, session>>

\* A minute after the last attempt.
PollReconnects ==
  /\ net.seen = revision /\ config.enabled /\ radio.link # "up"
  /\ ~net.online /\ ~net.associating /\ net.attempt = 2
  /\ Connect(net, radio)
  /\ weather' = Completed /\ worker' = Taken
  /\ UNCHANGED <<configVars, ntp, session>>

\* Nothing to do but take a reply.
PollIdle ==
  /\ net.seen = revision
  /\ config.enabled => /\ radio.link # "up" /\ ~net.online
                       /\ IF net.associating THEN net.attempt = 0 ELSE net.attempt < 2
  /\ worker.replies # NoJob
  /\ weather' = Completed /\ worker' = Taken
  /\ UNCHANGED <<configVars, net, ntp, radio, session>>

Poll ==
  \/ PollSaved \/ Configure \/ PollOnline \/ PollLost
  \/ PollGivesUp \/ PollReconnects \/ PollIdle

\* ntp_sync_poll, from network_poll or the session's poll, ends an attempt.
TimeEnds ==
  /\ ntp.attempt # "none"
  /\ net.seen = revision \/ (session.kind \in {"lan", "ap"} /\ session.faces)
  /\ ntp' = NoAttempt /\ radio' = TimeStopped(radio)
  /\ UNCHANGED <<configVars, net, weather, worker, session>>

-----------------------------------------------------------------------------
(* Requests of the settings pages and of the weather screen *)

\* The settings pages are served, and can be reached.
Served ==
  session.faces /\ (session.kind = "ap" \/ (session.kind = "lan" /\ radio.link = "up"))

\* network_config_save, for POST /network and /network/forget.
Save ==
  /\ Served /\ revision <= MaxSaves
  /\ config' \in Configs /\ revision' = revision + 1
  /\ UNCHANGED <<net, ntp, weather, worker, radio, session>>

\* network_sync_now, for POST /ntp with action=sync.
SyncNow ==
  /\ Served /\ Connected /\ ntp.attempt = "none" /\ ntp.try # "recent"
  /\ StartTime
  /\ UNCHANGED <<configVars, net, weather, worker, radio, session>>

\* ntp_sync_start, for the POST /ntp that names its own network.
LegacySync ==
  /\ Served /\ ~config.enabled /\ ntp.attempt = "none"
  /\ \/ /\ ntp' = [ntp EXCEPT !.attempt = "own"]
        /\ radio' = Begun(InMode(radio, "AP_STA"))
     \/ /\ RadioMayFail
        /\ radio' = InMode(Left(radio), "AP") /\ UNCHANGED ntp
  /\ UNCHANGED <<configVars, net, weather, worker, session>>

\* network_weather_now, for POST /weather/refresh or a tap on the weather.
WeatherNow ==
  /\ Served \/ session.kind = "none"
  /\ Connected /\ config.weather /\ ntp.attempt = "none" /\ ~weather.busy
  /\ weather.try # "recent"
  /\ Submit(FALSE, [weather EXCEPT !.try = "recent"], worker)
  /\ UNCHANGED <<configVars, net, ntp, radio, session>>

\* network_search, for POST /locations.
Search ==
  /\ Served /\ Connected /\ ntp.attempt = "none" /\ ~weather.busy
  /\ Submit(TRUE, IF weather.ready THEN [weather EXCEPT !.locations = 0] ELSE weather, worker)
  /\ UNCHANGED <<configVars, net, ntp, radio, session>>

Request == Save \/ SyncNow \/ LegacySync \/ WeatherNow \/ Search

-----------------------------------------------------------------------------
(* Maintenance sessions *)

\* ota_begin: over the station, over an access point of its own, or in vain.
OpenSession ==
  /\ session.kind = "none"
  /\ \E faces \in BOOLEAN :
       \/ /\ session' = [kind |-> "failed", faces |-> faces, portal |-> FALSE]
          /\ UNCHANGED radio
       \/ /\ Connected
          /\ session' = [kind |-> "lan", faces |-> faces, portal |-> FALSE]
          /\ UNCHANGED radio
       \/ /\ ~Connected
          /\ session' = [kind |-> "ap", faces |-> faces, portal |-> TRUE]
          /\ radio' = [InMode(radio, IF config.enabled THEN "AP_STA" ELSE "AP")
                         EXCEPT !.ap = TRUE]
       \/ /\ ~Connected /\ RadioMayFail
          /\ session' = [kind |-> "failed", faces |-> faces, portal |-> TRUE]
          /\ radio' = Restored(radio)
  /\ session'.kind \in SessionKinds
  /\ UNCHANGED <<configVars, net, ntp, weather, worker>>

\* settings_action: the session goes on for a firmware upload.
ToFirmware ==
  /\ Served
  /\ session' = [session EXCEPT !.faces = FALSE]
  /\ ntp' = NoAttempt /\ radio' = TimeStopped(radio)
  /\ UNCHANGED <<configVars, net, weather, worker>>

\* Mutant of CloseSession: the radio is switched off with the session.
CloseSessionOff ==
  /\ session.kind \in {"lan", "ap", "failed"}
  /\ session' = NoSession
  /\ ntp' = IF config.enabled THEN ntp ELSE NoAttempt
  /\ radio' = IF session.kind = "failed" THEN radio ELSE InMode(radio, "OFF")
  /\ UNCHANGED <<configVars, net, weather, worker>>

\* ota_stop.
CloseSession ==
  /\ session.kind \in {"lan", "ap", "failed"}
  /\ session' = NoSession
  /\ ntp' = IF config.enabled THEN ntp ELSE NoAttempt
  /\ LET r == IF config.enabled THEN radio ELSE TimeStopped(radio)
     IN radio' = IF session.kind = "failed" THEN r ELSE Restored([r EXCEPT !.ap = FALSE])
  /\ UNCHANGED <<configVars, net, weather, worker>>

\* sd_update_begin and sd_update_stop.
CardSession ==
  /\ \/ /\ session = NoSession /\ "card" \in SessionKinds
        /\ session' = [NoSession EXCEPT !.kind = "card"]
     \/ session.kind = "card" /\ session' = NoSession
  /\ UNCHANGED <<configVars, net, ntp, weather, worker, radio>>

Session == OpenSession \/ ToFirmware \/ CloseSession \/ CardSession

-----------------------------------------------------------------------------
(* The access point of the saved network, and time *)

Link ==
  /\ \E link \in {"off", "up"} :
       /\ radio.link # "off" /\ radio.link # link
       /\ radio' = [radio EXCEPT !.link = link]
  /\ UNCHANGED <<configVars, net, ntp, weather, worker, session>>

\* Half a second since a change was noticed.
SavedAges ==
  /\ net.saved = "noticed"
  /\ net' = [net EXCEPT !.saved = "due"]
  /\ UNCHANGED <<configVars, ntp, weather, worker, radio, session>>

\* Twenty seconds, then a minute, since attempt_at.
AttemptAges ==
  /\ net.attempt < 2
  /\ net' = [net EXCEPT !.attempt = @ + 1]
  /\ UNCHANGED <<configVars, ntp, weather, worker, radio, session>>

Later(try) == IF try = "recent" THEN "allowed" ELSE "due"

\* Thirty seconds, then the interval, since ntp_at or weather_at.
TriesAge ==
  /\ \/ ntp' = [ntp EXCEPT !.try = Later(@)] /\ UNCHANGED weather
     \/ weather' = [weather EXCEPT !.try = Later(@)] /\ UNCHANGED ntp
  /\ UNCHANGED <<configVars, net, worker, radio, session>>

-----------------------------------------------------------------------------

\* network_begin, when it has run: configure() with no session and no attempt.
Init ==
  /\ config \in Configs /\ revision = 1
  /\ ntp = [attempt |-> "none", try |-> "due"]
  /\ \E ready \in BOOLEAN :
       weather = [ready |-> ready, busy |-> FALSE, shown |-> 0, locations |-> 0, try |-> "due"]
  /\ worker = [requests |-> NoJob, job |-> NoJob, replies |-> NoJob]
  /\ session = NoSession
  /\ \E begun \in {config.enabled, config.enabled /\ ~RadioMayFail} :
       /\ net = [seen |-> 1, saved |-> "no", online |-> FALSE, associating |-> begun,
                 attempt |-> 0]
       /\ radio = [mode |-> IF begun THEN "STA" ELSE "OFF", ap |-> FALSE,
                   link |-> IF begun THEN "begun" ELSE "off"]

Next ==
  \/ Worker \/ Poll \/ TimeEnds \/ Request \/ Session
  \/ Link \/ SavedAges \/ AttemptAges \/ TriesAge

Spec == Init /\ [][Next]_vars

\* The loop polls, the worker's transfers are bounded, and time passes.
FairSpec ==
  /\ Spec
  /\ WF_vars(Poll) /\ WF_vars(Worker) /\ WF_vars(SavedAges) /\ WF_vars(AttemptAges)

-----------------------------------------------------------------------------
(* Safety *)

\* "A single queue slot and generation number bound worker ownership": at most
\* one job exists, while worker_busy, so the worker never blocks on its reply.
OneJob ==
  Cardinality({slot \in DOMAIN worker : worker[slot] # NoJob}) = IF weather.busy THEN 1 ELSE 0

\* "Ignore old-generation replies": what is shown is of the network in use.
ShownIsCurrent == {weather.shown, weather.locations} \subseteq {0, net.seen}

\* A time attempt never outlives the station it uses: the service's while it is
\* online, its own while the session that asked for it lasts.
TimeNeedsStation ==
  /\ ntp.attempt = "shared" => net.online
  /\ ntp.attempt = "own" => net.seen # revision \/ (session.kind = "ap" /\ session.faces)

\* What the service and its worker know of each other, of the network and of the time.
ServiceRight == OneJob /\ ShownIsCurrent /\ TimeNeedsStation

\* The session's access point is up until the session closes, whatever the
\* station does meanwhile.
ApKept == radio.ap <=> session.kind = "ap"

\* docs/NETWORK.md:36: "Failed refreshes retain the old data."
OldDataRetained ==
  [][weather.shown # 0 /\ weather'.shown = 0 => net'.seen # net.seen]_vars

\* docs/WEB_SETTINGS.md:64: "The saved-network path does not disconnect the station
\* when the temporary web session ends", nor when it begins or changes.
StationKept ==
  [][session' # session /\ Connected => radio'.link = "up"]_vars

\* network_service.cpp:20: "Start one station attempt, preserving only an
\* explicitly opened maintenance AP": no access point is on but that.  It does not
\* hold: README.md, section 7.
OnlyOpenedAp == radio.mode \in Access => radio.ap

-----------------------------------------------------------------------------
(* Liveness *)

\* "Connection attempts continue in the background": docs/NETWORK.md:4.  A network
\* that is wanted and stays off is tried again and again, also when the radio
\* refuses.
AttemptsContinue ==
  <>[](config.enabled /\ radio.link = "off") => []<><<PollReconnects>>_net
=============================================================================
