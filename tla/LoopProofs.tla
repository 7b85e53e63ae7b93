----------------------------- MODULE LoopProofs -----------------------------
(***************************************************************************)
(* Two of the parts that the loop polls.                                   *)
(*                                                                         *)
(* NtpSync: types, the invariant of an attempt and of the clock, and that  *)
(* a timely answer is applied.  TypeOK and AttemptInv are inductive only   *)
(* together: that a stored reply of the attempt finds it still querying    *)
(* rests on accepting, which the callback tested before it.                *)
(*                                                                         *)
(* MainLoop, for any carousel and any desk pages: the loop leaves the      *)
(* alerts by itself only for a route or for the page that an alert         *)
(* replaced.  What it would return to is cancelled by the first            *)
(* handle_auto_page that finds another page, so the argument is about who  *)
(* may turn the page before that one runs: a gesture does so only where    *)
(* the loop is neither starting nor shutting down, a session only where    *)
(* nothing waits to be returned to.                                        *)
(***************************************************************************)
EXTENDS MCLoop, TLAPS

-----------------------------------------------------------------------------
(* NtpSync *)


\* A valid reply may sit in received; what Finish puts on the clock is one.
IndInv == TypeOK /\ AttemptInv /\ OnlyPlausibleTime

\* No reply is one, and a reply whose attempt has ended is still one.
LEMMA ReplyFacts ==
  /\ NoReply \in Replies /\ ~NoReply.some /\ ~NoReply.own
  /\ \A reply \in Replies : Late(reply) \in Replies /\ ~Late(reply).own
  BY DEF Replies, NoReply, Late

LEMMA IdleType ==
  ASSUME NEW status \in Statuses
  PROVE  [Idle EXCEPT !.status = status] \in
           [busy : BOOLEAN, querying : BOOLEAN, station : BOOLEAN, expired : BOOLEAN,
            status : Statuses]
  BY DEF Idle, Statuses

\* Nothing is under way and the clock is not set when the service begins.
LEMMA InitInv == Init => IndInv
  <1>1. Idle \in [busy : BOOLEAN, querying : BOOLEAN, station : BOOLEAN, expired : BOOLEAN,
                  status : Statuses]
    BY DEF Idle, Statuses
  <1>2. Init => TypeOK
    BY <1>1, ReplyFacts DEF Init, TypeOK
  <1>3. Init => AttemptInv /\ OnlyPlausibleTime
    BY ReplyFacts DEF Init, AttemptInv, OnlyPlausibleTime, Idle
  <1> QED BY <1>2, <1>3 DEF IndInv

\* disconnect ends an attempt completely, whatever its state and its outcome.
LEMMA DisconnectInv ==
  ASSUME TypeOK, AttemptInv,
         NEW status \in Statuses \ {"connecting", "querying"}, Disconnect(status),
         clock' \in Replies
  PROVE  TypeOK' /\ AttemptInv'
  <1>1. callback' \in Replies /\ ~callback'.own
    BY ReplyFacts DEF Disconnect, TypeOK
  <1>2. TypeOK'
    BY <1>1, ReplyFacts, IdleType DEF TypeOK, Disconnect
  <1>3. AttemptInv'
    BY <1>1, ReplyFacts DEF TypeOK, AttemptInv, Disconnect, Idle
  <1> QED BY <1>2, <1>3

\* Every step keeps the invariant.
LEMMA NextInv == IndInv /\ [Next]_vars => IndInv'
  <1> SUFFICES ASSUME IndInv, [Next]_vars PROVE IndInv'
    OBVIOUS
  <1> USE DEF IndInv
  <1>1. ASSUME NEW status \in Statuses \ {"connecting", "querying"}, Disconnect(status),
               UNCHANGED clock
        PROVE  IndInv'
    BY <1>1, DisconnectInv DEF TypeOK, OnlyPlausibleTime
  <1>2. ASSUME Finish PROVE IndInv'
    <2>1. CASE received.valid
      BY <1>2, <2>1, DisconnectInv DEF Finish, TypeOK, OnlyPlausibleTime, Statuses
    <2>2. CASE ~received.valid
      BY <1>1, <1>2, <2>2 DEF Finish, Statuses
    <2> QED BY <2>1, <2>2
  <1>3. CASE Connected
    BY <1>3 DEF Connected, Started, Idle, TypeOK, AttemptInv, OnlyPlausibleTime, Statuses,
                Replies, NoReply
  <1>4. CASE Start
    <2>1. CASE Disconnect("wifi_failed") /\ UNCHANGED clock
      BY <1>1, <2>1 DEF Statuses
    <2>2. CASE ~Disconnect("wifi_failed")
      <3>1. /\ Started(TRUE) /\ station' = "begun" /\ received' = NoReply
            /\ UNCHANGED <<accepting, callback, clock>>
        BY <1>4, <2>2 DEF Start
      <3>2. ~ntp.querying /\ ~accepting /\ ~callback.own
        BY <1>4 DEF Start, AttemptInv
      <3>3. TypeOK'
        BY <3>1, ReplyFacts DEF Started, Idle, TypeOK, Statuses
      <3>4. AttemptInv' /\ OnlyPlausibleTime'
        BY <3>1, <3>2, ReplyFacts DEF Started, Idle, AttemptInv, OnlyPlausibleTime
      <3> QED BY <3>3, <3>4
    <2> QED BY <1>4, <2>1, <2>2 DEF Start
  <1>5. CASE PollReply
    BY <1>2, <1>5 DEF PollReply
  <1>6. CASE PollExpired
    BY <1>1, <1>6 DEF PollExpired, Statuses
  <1>7. CASE PollConnected
    BY <1>7 DEF PollConnected, TypeOK, AttemptInv, OnlyPlausibleTime, Statuses
  <1>8. CASE Stop
    <2>1. Cancelled \in Statuses \ {"connecting", "querying"}
      BY DEF Cancelled, TypeOK, AttemptInv, Statuses
    <2> QED BY <1>1, <1>2, <1>8, <2>1 DEF Stop
  <1>9. CASE ReplyTested
    BY <1>9 DEF ReplyTested, mainVars, TypeOK, AttemptInv, OnlyPlausibleTime, Replies, NoReply
  <1>10. CASE ReplyStored
    BY <1>10 DEF ReplyStored, mainVars, TypeOK, AttemptInv, OnlyPlausibleTime, Replies, NoReply
  <1>11. CASE StationChanges
    BY <1>11 DEF StationChanges, mainVars, TypeOK, AttemptInv, OnlyPlausibleTime
  <1>12. CASE Expires
    BY <1>12 DEF Expires, TypeOK, AttemptInv, OnlyPlausibleTime
  <1>13. CASE UNCHANGED vars
    BY <1>13 DEF vars, mainVars, TypeOK, AttemptInv, OnlyPlausibleTime
  <1> QED
    BY <1>3, <1>4, <1>5, <1>6, <1>7, <1>8, <1>9, <1>10, <1>11, <1>12, <1>13 DEF Next, Poll

\* The client's flag and the station never outlive their attempt, and a reply
\* that counts as the attempt's own finds it still querying.
THEOREM AttemptInvariant == Spec => [](TypeOK /\ AttemptInv)
  <1> QED BY InitInv, NextInv, PTL DEF Spec, IndInv

\* The clock is only ever set from a plausible time.
THEOREM ClockPlausible == Spec => []OnlyPlausibleTime
  <1> QED BY InitInv, NextInv, PTL DEF Spec, IndInv

\* A timely, plausible answer in received is applied by the step that removes it.
THEOREM AnswersApplied == Spec => AnswerIsApplied
  <1>1. IndInv /\ [Next]_vars
          => [received.own /\ received.valid /\ ~received'.some => clock' = received]_vars
    <2> SUFFICES ASSUME IndInv, Next, received.own, received.valid, ~received'.some
                 PROVE  clock' = received
      OBVIOUS
    <2>1. received.some /\ ntp.querying /\ ntp.busy
      BY DEF IndInv, TypeOK, AttemptInv, Replies, NoReply
    <2>2. CASE Finish
      BY <2>2 DEF Finish
    <2>3. CASE Stop
      BY <2>1, <2>2, <2>3 DEF Stop
    <2>4. CASE Poll
      BY <2>1, <2>2, <2>4 DEF Poll, PollReply, PollExpired, PollConnected
    <2>5. CASE Connected \/ Start
      BY <2>1, <2>5 DEF Connected, Start
    <2>6. CASE ReplyStored
      BY <2>1, <2>6 DEF ReplyStored
    <2>7. CASE ReplyTested \/ StationChanges \/ Expires
      BY <2>1, <2>7 DEF ReplyTested, StationChanges, Expires
    <2> QED BY <2>3, <2>4, <2>5, <2>6, <2>7 DEF Next
  <1> QED BY <1>1, InitInv, NextInv, PTL DEF Spec, AnswerIsApplied

\* An attempt over the network service's station leaves it alone to the end.
THEOREM SharedKept == Spec => SharedStationKept
  <1>1. IndInv /\ [Next]_vars
          => [ntp.busy /\ station = "shared" /\ ntp' # ntp => station' = "shared"]_vars
    <2> SUFFICES ASSUME IndInv, Next, ntp.busy, station = "shared", ntp' # ntp
                 PROVE  station' = "shared"
      OBVIOUS
    <2>1. ~ntp.station
      BY DEF IndInv, AttemptInv
    <2>2. ASSUME NEW status, Disconnect(status) PROVE station' = "shared"
      BY <2>1, <2>2 DEF Disconnect
    <2>3. CASE Poll
      BY <2>2, <2>3 DEF Poll, PollReply, PollExpired, PollConnected, Finish
    <2>4. CASE Stop
      BY <2>2, <2>4 DEF Stop, Finish
    <2>5. CASE Connected \/ Start
      BY <2>5 DEF Connected, Start
    <2>6. CASE ReplyTested \/ ReplyStored \/ StationChanges \/ Expires
      BY <2>6 DEF ReplyTested, ReplyStored, StationChanges, Expires, mainVars
    <2> QED BY <2>3, <2>4, <2>5, <2>6 DEF Next
  <1> QED BY <1>1, InitInv, NextInv, PTL DEF Spec, SharedStationKept

\* The three together: an attempt keeps its flags and its station in step, and applies its answer.
THEOREM AttemptCorrect == Spec => AttemptRight
  <1>1. TypeOK /\ AttemptInv => AttemptInv
    OBVIOUS
  <1> QED BY <1>1, AttemptInvariant, AnswersApplied, SharedKept, PTL DEF AttemptRight

-----------------------------------------------------------------------------
(* MainLoop *)


PageTypes ==
  /\ mode \in [starting : BOOLEAN, shutting : BOOLEAN]
  /\ auto.returning \in BOOLEAN
  /\ DOMAIN auto = {"return", "returning", "old"}
  /\ pc \in {"top", "touch", "auto", "draw"}
  /\ session \in {"none", "ota", "sd"}

\* What waits to be returned to, and the page that the last alert replaced.
ReturnInv ==
  /\ auto.returning /\ page = "Notification" => opened = auto.return
  /\ auto.returning /\ page # "Notification" => pc = "auto" /\ ~mode.starting /\ ~mode.shutting
  /\ session # "none" => pc = "top" /\ ~auto.returning
  /\ mode.starting => ~auto.returning

PagesInv == PageTypes /\ ReturnInv

LEMMA PagesInit == Pages!Init => PagesInv
  BY DEF Pages!Init, PagesInv, PageTypes, ReturnInv, Pages!NoReturn

\* What a gesture may do: the page turns where nothing waits for the end of a start or of a
\* shutdown, or a session begins from Settings.
LEMMA GestureTurns ==
  ASSUME NEW g, Pages!Gesture(g)
  PROVE  \/ pc' = "auto" /\ session' = session /\ page' = page /\ opened' = opened
         \/ pc' = "auto" /\ session' = session /\ ~mode.starting /\ ~mode.shutting /\ page' # page
         \/ pc' = "top" /\ session' \in {"ota", "sd"} /\ page' = page /\ opened' = opened /\ page = "Settings"
  BY Zenon DEF Pages!Gesture, Pages!SettingsTap, Pages!Shows

\* Every step of the pages keeps the invariant.
LEMMA PagesNext == PagesInv /\ [Pages!Next]_pageVars => PagesInv'
  <1> SUFFICES ASSUME PagesInv, [Pages!Next]_pageVars PROVE PagesInv'
    OBVIOUS
  <1> USE DEF PagesInv
  <1>1. ASSUME Pages!Callbacks PROVE PagesInv'
    BY <1>1 DEF Pages!Callbacks, PageTypes, ReturnInv
  <1>2. ASSUME Pages!Minute PROVE PagesInv'
    <2>1. auto'.returning = auto.returning /\ auto'.return = auto.return /\ DOMAIN auto' = DOMAIN auto
      BY <1>2 DEF Pages!Minute, PageTypes
    <2> QED BY <1>2, <2>1 DEF Pages!Minute, PageTypes, ReturnInv
  <1>3. ASSUME Pages!Session PROVE PagesInv'
    BY <1>3 DEF Pages!Session, Pages!Unshown, Pages!Shows, PageTypes, ReturnInv
  <1>4. ASSUME Pages!Key PROVE PagesInv'
    <2>1. PICK preview \in BOOLEAN : mode' = [mode EXCEPT !.shutting = preview]
      BY <1>4 DEF Pages!Key
    <2>2. mode' \in [starting : BOOLEAN, shutting : BOOLEAN] /\ mode'.starting = mode.starting
      BY <2>1 DEF PageTypes
    <2> QED BY <1>4, <2>2 DEF Pages!Key, Pages!Unshown, PageTypes, ReturnInv
  <1>5. ASSUME Pages!Touch PROVE PagesInv'
    <2>1. \/ pc' = "auto" /\ session' = session /\ page' = page /\ opened' = opened
          \/ pc' = "auto" /\ session' = session /\ ~mode.starting /\ ~mode.shutting /\ page' # page
          \/ pc' = "top" /\ session' \in {"ota", "sd"} /\ page' = page /\ opened' = opened /\ page = "Settings"
      <3>1. CASE \E g \in Pages!Gestures : Pages!Gesture(g)
        BY <3>1, GestureTurns
      <3>2. CASE ~mode.starting /\ ~mode.shutting /\ Pages!Shows(Pages!Swipe(page, 1)) /\ pc' = "auto" /\ UNCHANGED session
        BY <3>2 DEF Pages!Shows
      <3> QED BY <1>5, <3>1, <3>2 DEF Pages!Touch, Pages!Gestures
    <2>2. pc = "touch" /\ auto' = auto /\ mode' = mode
      BY <1>5 DEF Pages!Touch
    <2> QED BY <2>1, <2>2 DEF PageTypes, ReturnInv
  <1>6. ASSUME Pages!Auto PROVE PagesInv'
    <2>1. pc = "auto" /\ pc' = "draw" /\ mode' = mode /\ session' = session
      BY <1>6 DEF Pages!Auto
    <2>2. CASE mode.starting \/ mode.shutting
      BY <1>6, <2>1, <2>2 DEF Pages!Auto, PageTypes, ReturnInv
    <2>3. CASE ~mode.starting /\ ~mode.shutting
      <3>1. /\ Pages!AutoPage
            /\ Pages!Kept.returning \in BOOLEAN /\ DOMAIN Pages!Kept = {"return", "returning", "old"}
            /\ Pages!Kept.returning => page = "Notification" /\ opened = Pages!Kept.return
        BY <1>6, <2>3 DEF Pages!Auto, Pages!Kept, Pages!NoReturn, PageTypes, ReturnInv
      <3>2. \/ auto' = Pages!Kept /\ page' = page /\ opened' = opened
            \/ auto' = Pages!NoReturn
            \/ page = "Notification" /\ auto' = [auto EXCEPT !.old = FALSE] /\ page' = page /\ opened' = opened
            \/ auto' = [old |-> FALSE, returning |-> TRUE, return |-> page] /\ page' = "Notification" /\ opened' = page
        BY <3>1, Zenon DEF Pages!AutoPage
      <3>3. session = "none"
        BY <2>1 DEF ReturnInv
      <3>4. CASE auto' = Pages!Kept /\ page' = page /\ opened' = opened
        BY <2>1, <2>3, <3>1, <3>3, <3>4 DEF PageTypes, ReturnInv
      <3>5. CASE auto' = Pages!NoReturn
        BY <2>1, <2>3, <3>3, <3>5 DEF Pages!NoReturn, PageTypes, ReturnInv
      <3>6. CASE page = "Notification" /\ auto' = [auto EXCEPT !.old = FALSE] /\ page' = page /\ opened' = opened
        <4>1. auto'.returning = auto.returning /\ auto'.return = auto.return /\ DOMAIN auto' = DOMAIN auto
          BY <3>6 DEF PageTypes
        <4> QED BY <2>1, <2>3, <3>3, <3>6, <4>1 DEF PageTypes, ReturnInv
      <3>7. CASE auto' = [old |-> FALSE, returning |-> TRUE, return |-> page] /\ page' = "Notification" /\ opened' = page
        BY <2>1, <2>3, <3>3, <3>7 DEF PageTypes, ReturnInv
      <3> QED BY <3>2, <3>4, <3>5, <3>6, <3>7
    <2> QED BY <2>2, <2>3
  <1>7. ASSUME Pages!Draw PROVE PagesInv'
    <2>1. pc = "draw" /\ pc' = "top" /\ auto' = auto /\ session' = session
      BY <1>7 DEF Pages!Draw
    <2>2. \/ page' = page /\ mode' = mode /\ opened' = opened
          \/ mode.starting /\ mode' = [mode EXCEPT !.starting = FALSE]
      BY <1>7 DEF Pages!Draw
    <2>3. /\ mode' \in [starting : BOOLEAN, shutting : BOOLEAN]
          /\ mode'.starting => page' = page /\ mode' = mode /\ opened' = opened
          /\ \/ page' = page /\ mode' = mode /\ opened' = opened
             \/ ~auto.returning
      BY <2>2 DEF PageTypes, ReturnInv
    <2> QED BY <2>1, <2>3 DEF PageTypes, ReturnInv
  <1>8. CASE UNCHANGED pageVars
    BY <1>8 DEF pageVars, PageTypes, ReturnInv
  <1> QED BY <1>1, <1>2, <1>3, <1>4, <1>5, <1>6, <1>7, <1>8 DEF Pages!Next, Pages!Loop

\* handle_auto_page leaves the alerts for a route, or for what they replaced.
LEMMA AutoReturns ==
  ASSUME PagesInv
  PROVE  Pages!Auto /\ page = "Notification" /\ page' # page => page' = "Navigation" \/ page' = opened
  BY Zenon DEF PagesInv, ReturnInv, Pages!Auto, Pages!AutoPage, Pages!Kept, Pages!Shows

\* docs/UI.md:189, "Leaving Alerts manually cancels this return; opening Alerts manually does
\* not start it": the loop leaves the alerts by itself only for a route that begins, or for the
\* page that an alert replaced, if they have not been left since (ui/auto_page.h).
THEOREM ReturnsToTheReplaced == LoopSpec => ReturnsWhereOpened
  <1>1. LoopInit => PagesInv
    BY PagesInit DEF LoopInit
  <1>2. PagesInv /\ [LoopNext]_loopVars => PagesInv'
    <2> SUFFICES ASSUME PagesInv, [LoopNext]_loopVars PROVE PagesInv'
      OBVIOUS
    <2>1. [Pages!Next]_pageVars
      BY DEF LoopNext, loopVars, InNtp, InKey, InPages
    <2> QED BY <2>1, PagesNext
  <1>3. LoopSpec => []PagesInv
    BY <1>1, <1>2, PTL DEF LoopSpec
  <1>4. LoopSpec => [][Pages!Auto /\ page = "Notification" /\ page' # page => page' = "Navigation" \/ page' = opened]_pageVars
    BY <1>3, AutoReturns, PTL
  <1>5. pageVars = Pages!vars
    BY DEF pageVars, Pages!vars
  <1> QED BY <1>4, <1>5 DEF ReturnsWhereOpened, Pages!ReturnsWhereOpened, pageVars, Pages!vars
=============================================================================
