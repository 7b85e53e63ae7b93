------------------------------- MODULE Sound -------------------------------
(***************************************************************************)
(* sound.cpp: which cue is played.  Pages, alerts, the power supply and    *)
(* the desk timer ask for cues; sound_poll promotes the one that waits,    *)
(* after checking again what the settings and the moment allow.  A cue     *)
(* refused for its cooldown is as if it had not been asked for.            *)
(***************************************************************************)
EXTENDS Integers, FiniteSets

CONSTANT Cues  \* those of SoundCue that the pages and the power supply ask for

VARIABLE s  \* [queued, active, late: queued more than 700 ms ago, failed, attached, clip: from
            \*  the card, off: categories switched off, muted, calling,
            \*  idle: the eyes are shown and no route is, polled: nothing has changed since sound_poll]

None == "None"

\* allowed: the switch of each cue, besides sound itself and the night.
Category(cue) ==
  CASE cue \in {"Charging", "Unplugged"} -> "charging"
    [] cue = "Ambient" -> "ambient"
    [] cue \in {"Tap", "Mood", "Face"} -> "faces"
    [] cue \in {"Notification", "Call"} -> "alerts"
    [] cue \in {"Rest", "Done"} -> "timer"
    [] OTHER -> "always"

Allowed(x, cue) == ~x.muted /\ Category(cue) \notin x.off

\* priority: the device's own cues are below those of the face.
Order == <<"Ambient", "Startup", "Tap", "Face", "Notification", "Rest", "Done", "Call", "Test">>
Priority(cue) ==
  CASE cue \in {"Charging", "Unplugged"} -> 2
    [] cue \in {"Startup", "Mood"} -> 1
    [] OTHER -> (CHOOSE i \in DOMAIN Order : Order[i] = cue) - 1

Below(cue, other) == other # None /\ Priority(cue) < Priority(other)

\* Mutant of Request: only what waits is compared.
RequestOverActive(x, cue) ==
  IF cue = None \/ ~Allowed(x, cue) \/ x.failed \/ Below(cue, x.queued) THEN x
  ELSE [x EXCEPT !.queued = cue, !.late = FALSE]

\* sound_request, sound_request_face.
Request(x, cue) ==
  IF cue = None \/ ~Allowed(x, cue) \/ x.failed \/ Below(cue, x.active) \/ Below(cue, x.queued) THEN x
  ELSE [x EXCEPT !.queued = cue, !.late = FALSE]

Stop(x) == [x EXCEPT !.queued = None, !.active = None, !.attached = FALSE]
Fails(x) == [Stop(x) EXCEPT !.failed = TRUE]

\* What sound_poll asks for itself: alerts and calls that its counters have not seen, and the
\* timer's change, if any.
Signals(x, alert, ring, change) ==
  LET notified == Request(x, IF alert THEN "Notification" ELSE None)
      called == Request(notified, IF ring /\ x.calling THEN "Call" ELSE None)
  IN Request(called, change)

Quiet(x) == x.idle /\ ~x.calling

\* sound_poll's second look at what is played and at what waits.
Filtered(x) ==
  LET ends == \/ x.active = "Ambient" /\ ~Quiet(x)
              \/ x.active # None /\ ~Allowed(x, x.active)
              \/ x.active = "Call" /\ ~x.calling
      drops == \/ x.queued = "Ambient" /\ ~Quiet(x)
               \/ x.queued = "Call" /\ ~x.calling
               \/ x.queued # None /\ (~Allowed(x, x.queued) \/ x.late)
  IN [x EXCEPT !.active = IF ends THEN None ELSE @, !.queued = IF drops THEN None ELSE @]

\* What waits is played next.
Promoted(x) == IF x.queued = None THEN x ELSE [x EXCEPT !.active = x.queued, !.queued = None]

\* play: the output may fail, the cue may be over; one that begins may be a clip of the card.
Plays(x, begins) ==
  IF x.active = None THEN {x}
  ELSE {Fails(x), [x EXCEPT !.active = None]} \cup
       {[x EXCEPT !.attached = TRUE, !.clip = clip] : clip \in IF begins THEN BOOLEAN ELSE {x.clip}}

\* Inputs that only some states look at.
If(condition) == IF condition THEN BOOLEAN ELSE {FALSE}

\* sound_poll; the output may have failed, and the setting that a clip needs may have gone.
Poll ==
  \E alert \in BOOLEAN, ring \in If(s.calling), change \in {None, "Rest", "Done"},
     broken \in If(s.attached), cut \in If(s.clip), ambient \in If(Quiet(s)) :
    LET signalled == Signals(IF broken THEN Fails(s) ELSE s, alert, ring, change)
        kept == IF cut THEN [signalled EXCEPT !.clip = FALSE, !.active = None] ELSE signalled
        asked == IF ambient THEN Request(Filtered(kept), "Ambient") ELSE Filtered(kept)
        played == IF s.muted THEN {[Stop(signalled) EXCEPT !.failed = FALSE]}
                  ELSE Plays(Promoted(asked), asked.queued # None)
    IN s' \in {[x EXCEPT !.polled = TRUE] : x \in played}

\* The pages and the power supply ask for a cue.
Ask == \E cue \in Cues : s' = Request(s, cue)

\* A cue has waited for 700 ms.
Late == s.queued # None /\ ~s.late /\ s' = [s EXCEPT !.late = TRUE]

\* Settings, the night, the phone and the page change.
Changes ==
  LET x == [s EXCEPT !.polled = FALSE]
  IN \/ s' = [x EXCEPT !.muted = ~@] \/ s' = [x EXCEPT !.calling = ~@] \/ s' = [x EXCEPT !.idle = ~@]
     \/ \E c \in {"charging", "ambient", "faces", "alerts", "timer"} : s' = [x EXCEPT !.off = IF c \in @ THEN {} ELSE {c}]

\* sound_init, after a session.
Reset == s' = [Stop(s) EXCEPT !.failed = FALSE]

Init ==
  s = [queued |-> None, active |-> None, late |-> FALSE, failed |-> FALSE, attached |-> FALSE, clip |-> FALSE,
       off |-> {}, muted |-> FALSE, calling |-> FALSE, idle |-> TRUE, polled |-> FALSE]

Next == Poll \/ Ask \/ Late \/ Changes \/ Reset

\* Whether a cue may be played at this moment.
Fits(x, cue) ==
  /\ ~x.muted /\ Category(cue) \notin x.off
  /\ cue = "Call" => x.calling
  /\ cue = "Ambient" => Quiet(x)

(***************************************************************************)
(* Changes of the settings, of the night, of a call or of the page stop    *)
(* what no longer fits: after every poll what is played fits the moment    *)
(* (sound_poll's filters, beside the check when a cue is asked for).  What *)
(* fitted before was replaced only by a cue that is not below it, however  *)
(* long ago that one was asked for.                                        *)
(***************************************************************************)
PlayedFits ==
  /\ s'.polled /\ s'.active # None => Fits(s', s'.active)
  /\ s.active # None /\ s'.active # None /\ Below(s'.active, s.active) => ~Fits(s, s.active) \/ s.clip
=============================================================================
