----------------------------- MODULE MainLoop -----------------------------
(***************************************************************************)
(* loop() of the sketch: which page is shown.  Gestures, the BOOT button,  *)
(* alerts and routes that arrive (auto_page.h), calls, the two maintenance *)
(* sessions, the start and the shutdown all want to decide it.  Callbacks  *)
(* change the shared state (UiState) between any two steps of the loop.    *)
(***************************************************************************)
EXTENDS UiState

CONSTANTS
  Carousel,  \* the main pages in their order: Eyes, Clock, Music, Navigation,
             \* Notification, Weather and Settings in the code
  Tools      \* the desk pages, Desk the first

VARIABLES
  ui,        \* ui_state
  cached,    \* calling, of the snapshot that the screen has drawn
  page,      \* current_screen
  overlay,   \* overlay_active
  auto,      \* AutoPagePolicy, with old: 60 s since notification_started
  session,   \* "none", "ota" or "sd": which updater is active
  mode,      \* [starting, shutting]
  touching,  \* touch_pressed()
  latched,   \* a session's touches have left a gesture to be taken
  dashboard, \* settings_get().dashboard
  pc,        \* the next part of loop()
  opened     \* history: the page that an alert replaced, until it is left

vars == <<ui, cached, page, overlay, auto, session, mode, touching, latched, dashboard, pc, opened>>

Pages == Range(Carousel) \cup Tools
NoPage == "NoPage"

\* screens_parent.
Parent(p) == IF p \in Tools THEN "Clock" ELSE p

\* screens_swipe.
Swipe(p, step) ==
  LET count == Len(Carousel)
      i == CHOOSE n \in 1 .. count : Carousel[n] = Parent(p)
  IN Carousel[((i - 1 + step + count) % count) + 1]

\* screens_scroll, upwards (1) and downwards (-1).
Scroll(p, way) ==
  IF way = 1
  THEN CASE p \in {"Pong", "Tris", "Dice"} -> "Games"
         [] p = "Desk" -> "Clock"
         [] p \in Tools \ {"Desk", "Pong", "Tris", "Dice"} -> "Desk"
         [] OTHER -> p
  ELSE CASE p = "Clock" -> "Desk"
         [] p = "Desk" -> IF "Games" \in Tools THEN "Games" ELSE p
         [] p \in {"Games", "Dice", "Navigation", "Weather"} -> p
         [] OTHER -> "Eyes"

\* screens_tap: only the two hubs lead elsewhere, each to its own tools.
Tap(p) ==
  LET games == {"Games", "Pong", "Tris", "Dice"}
  IN CASE p = "Desk" -> Tools \ games
       [] p = "Games" -> Tools \cap games
       [] OTHER -> {p}

Gestures == {"none", "bar", "tap", "hold", "up", "down", "left", "right"}

Unshown == UNCHANGED <<ui, cached, overlay>>

(***************************************************************************)
(* The other tasks: Bluetooth, and time.                                   *)
(***************************************************************************)
\* The callbacks.
Callbacks ==
  /\ \/ ui' = UiConnection(ui, ~ui.connected)
     \/ ui.connected /\ ui' = UiNotification(ui, "alert")
     \/ ui.connected /\ ui' = UiRinger(ui, ~ui.calling)
     \/ ui.connected /\ ui' = UiNavigation(ui, ~ui.navigating, TRUE)
  /\ UNCHANGED <<cached, page, overlay, auto, session, mode, touching, latched, dashboard, pc, opened>>

\* A minute passes after an alert.
Minute ==
  /\ auto.returning /\ ~auto.old
  /\ auto' = [auto EXCEPT !.old = TRUE]
  /\ UNCHANGED <<ui, cached, page, overlay, session, mode, touching, latched, dashboard, pc, opened>>

(***************************************************************************)
(* The loop.                                                               *)
(***************************************************************************)
\* What switch_screen and the writes to current_screen do, and the history with them.
Shows(p) == page' = p /\ opened' = IF p # page THEN NoPage ELSE opened

\* The branch of an active session: its screen takes taps only, and what else the finger
\* does is left; once it is over, Settings is shown.
Session ==
  /\ pc = "top" /\ session # "none"
  /\ latched' \in {latched, TRUE} /\ touching' \in BOOLEAN
  /\ \/ UNCHANGED <<session, page, opened>>
     \/ session' = "none" /\ Shows("Settings")
  /\ UNCHANGED <<auto, mode, dashboard, pc>> /\ Unshown

\* The power key's preview begins or ends a shutdown.
Key ==
  /\ pc = "top" /\ session = "none"
  /\ pc' = "touch"
  /\ \E preview \in BOOLEAN : mode' = [mode EXCEPT !.shutting = preview]
  /\ UNCHANGED <<page, auto, session, touching, latched, dashboard, opened>> /\ Unshown

\* The rows of the Settings page that begin a session, and its way back.
SettingsTap ==
  \/ session' = "ota" /\ pc' = "top" /\ UNCHANGED <<page, opened>>
  \/ session' = "sd" /\ pc' = "top" /\ UNCHANGED <<page, opened>>
  \/ Shows("Eyes") /\ pc' = "auto" /\ UNCHANGED session
  \/ pc' = "auto" /\ UNCHANGED <<page, session, opened>>

\* handle_touch, after the flags are taken, for the gesture g; the phone's page may scroll
\* a text of its own.
Gesture(g) ==
  LET moves(P) == (\E p \in P : Shows(p)) /\ pc' = "auto" /\ UNCHANGED session
  IN IF g = "none" \/ mode.starting \/ mode.shutting THEN moves({page})
     ELSE CASE g = "bar" /\ page \notin {"Eyes", "Settings"} -> moves({page})
            [] g \in {"up", "down"} /\ page # "Eyes" /\ ~overlay ->
                 moves((IF page = "Settings" THEN {page} ELSE {Scroll(page, IF g = "up" THEN 1 ELSE -1)})
                       \cup ({page} \cap {"Phone"}))
            [] g = "hold" /\ page = "Eyes" /\ ~overlay -> moves({"Settings"})
            [] g = "tap" /\ page = "Settings" /\ ~overlay -> SettingsTap
            [] g = "tap" /\ page # "Settings" /\ ~overlay -> moves(Tap(page))
            [] g \in {"left", "right"} -> moves({Swipe(page, IF g = "left" THEN 1 ELSE -1)})
            [] OTHER -> moves({page})

\* handle_touch: a contact goes on, or ends in a gesture; the BOOT button comes first.
Touch ==
  /\ pc = "touch" /\ latched' = FALSE
  /\ touching' \in BOOLEAN
  /\ \/ /\ ~mode.starting /\ ~mode.shutting /\ ~touching' /\ ~overlay
        /\ Shows(Swipe(page, 1)) /\ pc' = "auto" /\ UNCHANGED session
     \/ \E g \in CASE ~touching' -> Gestures
                    [] touching' /\ latched -> {"none", "hold", "up", "down"}
                    [] OTHER -> {"none", "hold"} : Gesture(g)
  /\ UNCHANGED <<auto, mode, dashboard>> /\ Unshown

\* No page waits to be returned to: what it was, and since when, is read no more.
NoReturn == [return |-> "Eyes", returning |-> FALSE, old |-> FALSE]

\* Mutant of Kept: leaving the alerts does not cancel the return from them.
KeptAlways == auto

\* Away from the alerts there is nothing to return from.
Kept == IF page = "Notification" THEN auto ELSE NoReturn

\* Mutant of Deferred: the events are taken while the finger is still down.
DeferredNot == UiNoticed(ui)

\* While a finger is down events wait.
Deferred == ui

\* AutoPagePolicy::update: a route that begins is shown before an alert, and an alert for
\* a minute, unless the user leaves it.
AutoPage ==
  LET alert == ui.events.alert
      route == ui.events.route /\ ui.events.routing
  IN /\ ui' = IF touching THEN Deferred ELSE UiNoticed(ui)
     /\ CASE touching -> auto' = Kept /\ UNCHANGED <<page, opened>>
          [] ~touching /\ route -> auto' = NoReturn /\ Shows("Navigation")
          [] ~touching /\ ~route /\ alert ->
               /\ auto' = IF page = "Notification" THEN [auto EXCEPT !.old = FALSE]
                          ELSE [old |-> FALSE, returning |-> TRUE, return |-> page]
               /\ page' = "Notification"
               /\ opened' = IF page = "Notification" THEN opened ELSE page
          [] ~touching /\ ~route /\ ~alert /\ Kept.returning /\ auto.old ->
               auto' = NoReturn /\ Shows(auto.return)
          [] OTHER -> auto' = Kept /\ UNCHANGED <<page, opened>>

\* handle_auto_page.
Auto ==
  /\ pc = "auto" /\ pc' = "draw"
  /\ IF mode.starting \/ mode.shutting THEN UNCHANGED <<ui, auto, page, opened>> ELSE AutoPage
  /\ UNCHANGED <<cached, overlay, session, mode, touching, latched, dashboard>>

\* screens_draw: a new revision is copied, and decides whether a call covers the page.
Drawn ==
  LET copy == IF ui.seen THEN cached ELSE ui.calling
  IN /\ ui' = UiDrawn(ui) /\ cached' = copy
     /\ overlay' = (copy /\ (~dashboard \/ page' = "Notification"))

\* The end of loop(): a frame, unless 33 ms have not passed; the start ends with Eyes.
Draw ==
  /\ pc = "draw" /\ pc' = "top"
  /\ \/ UNCHANGED <<page, mode, opened>> /\ Unshown
     \/ /\ ~mode.shutting /\ mode.starting
        /\ mode' = [mode EXCEPT !.starting = FALSE]
        /\ Shows("Eyes") /\ Drawn
     \/ /\ ~mode.shutting /\ ~mode.starting
        /\ UNCHANGED <<page, mode, opened>> /\ Drawn
  /\ UNCHANGED <<auto, session, touching, latched, dashboard>>

Init ==
  /\ ui = UiInit /\ cached = FALSE
  /\ page = "Eyes" /\ overlay = FALSE /\ session = "none" /\ touching = FALSE
  /\ auto = NoReturn
  /\ mode = [starting |-> TRUE, shutting |-> FALSE] /\ latched = FALSE
  /\ dashboard \in BOOLEAN /\ pc = "top" /\ opened = NoPage

Loop == Session \/ Key \/ Touch \/ Auto \/ Draw
Next == Callbacks \/ Minute \/ Loop

Spec == Init /\ [][Next]_vars

Ended == session # "none" /\ session' = "none"
Lifted == pc = "touch" /\ ~touching' /\ pc' = "auto" /\ ~mode.shutting
Shown == pc = "draw" /\ ~ui.seen /\ ui'.seen

\* loop() runs for ever.  A session ends by itself (FirmwareUpdate), fingers and the key
\* are let go at times, and frames are due at times.
FairSpec ==
  /\ Spec /\ WF_vars(Loop)
  /\ SF_vars(Session /\ Ended) /\ SF_vars(Touch /\ Lifted) /\ SF_vars(Draw /\ mode' # mode) /\ SF_vars(Draw /\ Shown)
  /\ SF_vars(Key /\ ~mode'.shutting)

(***************************************************************************)
(* Properties.                                                             *)
(***************************************************************************)
\* UI.md:187, "New notifications automatically open Alerts": the page follows a new alert,
\* however late a finger, a session or the start lets it; a route that begins comes first.
AlertOpens ==
  ui.events.alert ~> page \in {"Notification", "Navigation"}

\* UI.md:189, "Leaving Alerts manually cancels this return; opening Alerts manually does
\* not start it": the loop leaves the alerts by itself only for a route that begins, or for
\* the page that an alert replaced, if they have not been left since.
ReturnsWhereOpened ==
  [][Auto /\ page = "Notification" /\ page' # page => page' = "Navigation" \/ page' = opened]_vars

\* A call that is over, or whose phone is gone, does not cover the page for ever, which
\* would block all taps.
OverlayEnds == overlay /\ ~ui.calling ~> ~overlay \/ ui.calling
=============================================================================
