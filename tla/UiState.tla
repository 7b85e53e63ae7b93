------------------------------ MODULE UiState ------------------------------
(***************************************************************************)
(* ui_state.cpp: what the Bluetooth callbacks leave for the main loop and  *)
(* the screen, under one mutex, so that every function is one step from a  *)
(* state u to the state it returns.  Counters are kept as comparisons,     *)
(* which is all that their readers ask of them: u.seen says that the       *)
(* revision is the one of the snapshot that the screen has drawn, and      *)
(* u.events.alert and u.events.route that auto_page has not seen the       *)
(* number of alerts or of routes.  Texts are left out; an alert is the     *)
(* identifier its phone gave it.                                           *)
(***************************************************************************)
EXTENDS Integers, Sequences, SequencesExt

CONSTANT Capacity  \* ALERT_CAPACITY

ASSUME CapacityAssumption == Capacity \in Nat \ {0}

NoMusic == [available |-> FALSE, commands |-> {}]
NoAction == "None"
NoEvents == [alert |-> FALSE, route |-> FALSE, routing |-> FALSE, ringing |-> FALSE]

UiInit == [connected |-> FALSE, calling |-> FALSE, navigating |-> FALSE, music |-> NoMusic,
           pending |-> NoAction, alerts |-> <<>>, index |-> 0, events |-> NoEvents, seen |-> TRUE]

\* ++state.revision.
Revised(u) == [u EXCEPT !.seen = FALSE]

\* Mutant of UiConnection: the change is not a revision.
UiConnectionQuiet(u, connected) ==
  IF connected THEN [u EXCEPT !.connected = TRUE]
  ELSE [u EXCEPT !.connected = FALSE, !.music = NoMusic, !.pending = NoAction, !.calling = FALSE,
                 !.navigating = FALSE, !.events.ringing = FALSE, !.events.routing = FALSE]

\* ui_connection: what belongs to a link goes with it; the alerts stay.
UiConnection(u, connected) ==
  Revised(IF connected
          THEN [u EXCEPT !.connected = TRUE]
          ELSE [u EXCEPT !.connected = FALSE, !.music = NoMusic, !.pending = NoAction,
                         !.calling = FALSE, !.navigating = FALSE,
                         !.events.ringing = FALSE, !.events.routing = FALSE])

\* ui_notification: the newest is first and selected, the oldest falls off.
UiNotification(u, alert) ==
  LET all == <<alert>> \o u.alerts
  IN Revised([u EXCEPT !.alerts = SubSeq(all, 1, IF Len(all) > Capacity THEN Capacity ELSE Len(all)),
                       !.index = 0, !.events.alert = TRUE])

\* ui_notification_step, for the alert that the screen has drawn.
UiStep(u, step) ==
  LET i == u.index + step
  IN IF ~u.seen THEN u
     ELSE Revised([u EXCEPT !.index = IF i \in 0 .. Len(u.alerts) - 1 THEN i ELSE @])

\* Mutant of UiDismiss: the expected revision is not compared.
UiDismissAny(u) ==
  IF u.alerts = <<>> THEN u
  ELSE LET left == RemoveAt(u.alerts, u.index + 1)
       IN Revised([u EXCEPT !.alerts = left,
                            !.index = IF @ < Len(left) THEN @ ELSE IF left = <<>> THEN 0 ELSE Len(left) - 1])

\* ui_notification_dismiss, for the alert that the screen has drawn.
UiDismiss(u) ==
  IF ~u.seen \/ u.alerts = <<>> THEN u
  ELSE LET left == RemoveAt(u.alerts, u.index + 1)
       IN Revised([u EXCEPT !.alerts = left,
                            !.index = IF @ < Len(left) THEN @ ELSE IF left = <<>> THEN 0 ELSE Len(left) - 1])

\* ui_ringer; what counts its calls is in Sound.
UiRinger(u, active) ==
  Revised([u EXCEPT !.events.ringing = active, !.calling = active])

\* ui_config of CF_NAV_DATA.
UiNavigation(u, active, isNavigation) ==
  LET routing == active /\ isNavigation
  IN Revised([u EXCEPT !.events.route = @ \/ (routing /\ ~u.events.routing),
                       !.events.routing = routing, !.navigating = active])

\* ui_music.
UiMusic(u, music) == IF u.connected THEN Revised([u EXCEPT !.music = music]) ELSE u

\* A queued command is still one that the player offers.
Supported(u, action) ==
  u.connected /\ ~u.calling /\ u.music.available /\ action \in u.music.commands

\* ui_music_request: one command waits, at most.
UiRequest(u, action) ==
  IF Supported(u, action) /\ u.pending = NoAction THEN [u EXCEPT !.pending = action] ELSE u

\* ui_music_take: what it returns, and what it leaves.
Taken(u) == IF Supported(u, u.pending) THEN u.pending ELSE NoAction
UiTake(u) == [u EXCEPT !.pending = NoAction]

\* auto_page has compared the event counters.
UiNoticed(u) == [u EXCEPT !.events.alert = FALSE, !.events.route = FALSE]

\* The copy of the state that screens_draw keeps in cached, revision and all.
UiDrawn(u) == [u EXCEPT !.seen = TRUE]
=============================================================================
