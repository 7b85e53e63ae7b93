----------------------------- MODULE AncsProofs -----------------------------
(***************************************************************************)
(* Ancs, with UiState: types and safety, for any notifications, any size   *)
(* of the queue and of the history, and any number of connections.         *)
(***************************************************************************)
EXTENDS Ancs, SequenceTheorems, TLAPS

Musics == [available : BOOLEAN, commands : SUBSET Actions]
AlertIds == Uids \cup {Blank}

UiStates ==
  [connected : BOOLEAN, calling : BOOLEAN, navigating : BOOLEAN, music : Musics,
   pending : Actions \cup {NoAction}, alerts : Seq(AlertIds), index : Nat,
   events : [alert : BOOLEAN, route : BOOLEAN, routing : BOOLEAN, ringing : BOOLEAN],
   seen : BOOLEAN]

DataEvents == {"Data"} \X Uids \X (0 .. 2)
Events ==
  ({"Connected", "Disconnected", "Services"} \X (1 .. MaxLinks)) \cup
  ({"Source", "Removed"} \X Uids) \cup ({"Commands"} \X SUBSET Actions) \cup DataEvents

PhoneType == [alerts : SUBSET Uids, air : Seq(DataEvents), notices : Nat, media : Nat]
WorkerType ==
  [pc : {"tick", "write", "receive"}, client : 0 .. MaxLinks, control : 0 .. MaxLinks,
   held : Actions \cup {NoAction}]
ParserType == [uid : AlertIds, pending : BOOLEAN, part : 0 .. 2]
AppType == [pending : BOOLEAN, old : BOOLEAN]
AmsType == [remote : 0 .. MaxLinks, music : Musics]

TypeOK ==
  /\ ui \in UiStates
  /\ cached \in [alerts : Seq(AlertIds), index : Nat]
  /\ links \in 0 .. MaxLinks /\ link \in 0 .. links /\ subs \in 0 .. MaxLinks
  /\ queue \in Seq(Events) /\ Len(queue) <= QueueSize /\ lost \in BOOLEAN /\ phone \in PhoneType
  /\ worker \in WorkerType /\ parser \in ParserType /\ app \in AppType /\ ams \in AmsType

-----------------------------------------------------------------------------

\* One of the alerts is selected, if there are any.
Selected(u) == IF u.alerts = <<>> THEN u.index = 0 ELSE u.index < Len(u.alerts)

\* The selected alert is one of those that are kept, and what the screen has drawn is what there
\* is while nothing was revised.
HistoryInv ==
  /\ Len(ui.alerts) <= Capacity
  /\ Selected(ui)
  /\ ui.seen => cached.alerts = ui.alerts /\ cached.index = ui.index

\* What the worker holds is of the connection that it believes in.
WorkerInv ==
  /\ ui.connected <=> link # 0
  /\ worker.control # 0 => worker.client # 0
  /\ ams.remote # 0 => ams.remote = worker.client
  /\ ams.music.available => ams.remote # 0
  /\ parser.pending => parser.uid \in Uids

IsConnection(e) == e[1] \in {"Connected", "Disconnected"}

\* When the worker comes to the place i of the queue it believes in no connection.
ReadyAt(i) ==
  \/ \E j \in 1 .. i - 1 : /\ queue[j][1] = "Disconnected"
                           /\ \A k \in j + 1 .. i - 1 : queue[k][1] # "Connected"
  \/ worker.client = 0 /\ \A k \in 1 .. i - 1 : queue[k][1] # "Connected"

\* Nothing from the place i of the queue on is about a connection.
QuietFrom(i) == \A k \in i .. Len(queue) : ~IsConnection(queue[k])

\* As long as no event about a connection was lost: connections are told of one after the other,
\* the last of them is the one there is, and only a name that is awaited of an alert keeps one.
QueueInv ==
  ~lost =>
    /\ \A i \in 1 .. Len(queue) : queue[i][1] = "Connected" => ReadyAt(i)
    /\ link = 0 => ReadyAt(Len(queue) + 1)
    /\ \A i \in 1 .. Len(queue) :
         IsConnection(queue[i]) /\ QuietFrom(i + 1) =>
           link = IF queue[i][1] = "Connected" THEN queue[i][2] ELSE 0
    /\ QuietFrom(1) => worker.client = link /\ (ui.connected => ui.music = ams.music)
    /\ app.pending => worker.client # 0 /\ parser.uid \in Uids
    /\ ui.alerts \in Seq(Uids)

IndInv == TypeOK /\ HistoryInv /\ WorkerInv /\ QueueInv

-----------------------------------------------------------------------------
(* The functions of ui_state.cpp *)

LEMMA Bounds ==
  /\ QueueSize \in Nat /\ MaxLinks \in Nat /\ MaxNotices \in Nat /\ MaxMedia \in Nat
  /\ Capacity \in Nat /\ Capacity > 0 /\ Failures \in BOOLEAN
  /\ Blank \notin Uids /\ NoAction \notin Actions
  BY AncsConstants, CapacityAssumption

\* What a snapshot keeps of the state whose revision it may have.
Kept(u, v) ==
  /\ v \in UiStates
  /\ v.alerts = u.alerts /\ v.index = u.index /\ v.connected = u.connected
  /\ v.seen => u.seen

LEMMA RevisedFacts ==
  ASSUME NEW u \in UiStates
  PROVE  /\ Revised(u) \in UiStates /\ ~Revised(u).seen
         /\ Revised(u).alerts = u.alerts /\ Revised(u).index = u.index
         /\ Revised(u).connected = u.connected /\ Revised(u).music = u.music
  BY DEF UiStates, Revised

\* Music and its commands are apart from the alerts.
LEMMA MusicFacts ==
  ASSUME NEW u \in UiStates, NEW music \in Musics
  PROVE  /\ Kept(u, UiMusic(u, music))
         /\ u.connected => UiMusic(u, music).music = music
  <1> DEFINE v == [u EXCEPT !.music = music]
  <1>1. /\ v \in UiStates /\ v.alerts = u.alerts /\ v.index = u.index
        /\ v.connected = u.connected /\ v.music = music
    BY DEF UiStates
  <1> HIDE DEF v
  <1>2. UiMusic(u, music) = IF u.connected THEN Revised(v) ELSE u
    BY DEF UiMusic, v
  <1>3. CASE u.connected
    <2>1. UiMusic(u, music) = Revised(v)
      BY <1>2, <1>3
    <2> QED BY <1>1, <2>1, RevisedFacts DEF Kept
  <1>4. CASE ~u.connected
    BY <1>2, <1>4 DEF Kept
  <1> QED BY <1>3, <1>4

LEMMA TakeFacts ==
  ASSUME NEW u \in UiStates
  PROVE  Kept(u, UiTake(u)) /\ UiTake(u).music = u.music /\ Taken(u) \in Actions \cup {NoAction}
  <1>1. Kept(u, UiTake(u)) /\ UiTake(u).music = u.music
    BY DEF UiStates, Kept, UiTake
  <1>2. Taken(u) \in Actions \cup {NoAction}
    BY DEF UiStates, Taken
  <1> QED BY <1>1, <1>2

LEMMA RequestFacts ==
  ASSUME NEW u \in UiStates, NEW a \in Actions
  PROVE  Kept(u, UiRequest(u, a)) /\ UiRequest(u, a).music = u.music
  BY DEF UiStates, Kept, UiRequest

\* The alerts outlive the link.
LEMMA ConnectionFacts ==
  ASSUME NEW u \in UiStates, NEW up \in BOOLEAN
  PROVE  LET v == UiConnection(u, up)
         IN /\ v \in UiStates /\ v.alerts = u.alerts /\ v.index = u.index
            /\ v.connected = up /\ ~v.seen
  <1> DEFINE on == [u EXCEPT !.connected = TRUE]
             gone == [u EXCEPT !.connected = FALSE, !.music = NoMusic, !.pending = NoAction]
             off == [gone EXCEPT !.calling = FALSE, !.navigating = FALSE,
                                 !.events = [u.events EXCEPT !.ringing = FALSE, !.routing = FALSE]]
  <1>1. on \in UiStates /\ on.alerts = u.alerts /\ on.index = u.index /\ on.connected = TRUE
    BY DEF UiStates
  <1>2. NoMusic \in Musics
    BY DEF NoMusic, Musics
  <1>3. /\ gone \in UiStates /\ gone.alerts = u.alerts /\ gone.index = u.index /\ gone.connected = FALSE
        /\ gone.events = u.events
    BY <1>2 DEF UiStates
  <1>4. [u.events EXCEPT !.ringing = FALSE, !.routing = FALSE]
          \in [alert : BOOLEAN, route : BOOLEAN, routing : BOOLEAN, ringing : BOOLEAN]
    BY DEF UiStates
  <1>5. off \in UiStates /\ off.alerts = u.alerts /\ off.index = u.index /\ off.connected = FALSE
    <2> HIDE DEF gone
    <2> QED BY <1>3, <1>4 DEF UiStates
  <1>6. UiConnection(u, up) = IF up THEN Revised(on) ELSE Revised(off)
    <2>1. off = [u EXCEPT !.connected = FALSE, !.music = NoMusic, !.pending = NoAction,
                          !.calling = FALSE, !.navigating = FALSE,
                          !.events.ringing = FALSE, !.events.routing = FALSE]
      BY DEF UiStates
    <2> QED BY <2>1 DEF UiConnection
  <1> HIDE DEF on, off
  <1>7. CASE up
    BY <1>1, <1>6, <1>7, RevisedFacts
  <1>8. CASE ~up
    BY <1>5, <1>6, <1>8, RevisedFacts
  <1> QED BY <1>7, <1>8

\* A part of a sequence is a sequence of the same set.
LEMMA SubSeqType ==
  ASSUME NEW S, NEW s \in Seq(S), NEW m \in Nat, NEW n \in Nat, m > 0, n <= Len(s)
  PROVE  /\ SubSeq(s, m, n) \in Seq(S)
         /\ Len(SubSeq(s, m, n)) = IF m <= n THEN n - m + 1 ELSE 0
  <1>1. \A i \in m .. n : s[i] \in S
    BY ElementOfSeq, LenProperties
  <1> QED BY <1>1, SubSeqProperties

\* The newest alert is selected; the history is no longer than Capacity, and never shorter than it
\* was.
LEMMA NotificationFacts ==
  ASSUME NEW u \in UiStates, Len(u.alerts) <= Capacity, NEW S, S \subseteq AlertIds,
         NEW a \in S
  PROVE  LET v == UiNotification(u, a)
         IN /\ a \in AlertIds => v \in UiStates
            /\ u.alerts \in Seq(S) => v.alerts \in Seq(S)
            /\ v.alerts # <<>> /\ Len(v.alerts) <= Capacity /\ Len(v.alerts) >= Len(u.alerts)
            /\ v.index = 0 /\ v.connected = u.connected /\ v.music = u.music /\ ~v.seen
  <1> DEFINE all == <<a>> \o u.alerts
             n == IF Len(all) > Capacity THEN Capacity ELSE Len(all)
             kept == SubSeq(all, 1, n)
  <1>1. u.alerts \in Seq(AlertIds)
    BY DEF UiStates
  <1>2. ASSUME NEW T, u.alerts \in Seq(T), a \in T
        PROVE  /\ kept \in Seq(T) /\ Len(kept) = n /\ n \in Nat /\ n > 0 /\ n <= Capacity
               /\ n >= Len(u.alerts)
    <2>1. <<a>> \in Seq(T) /\ Len(<<a>>) = 1
      BY <1>2
    <2>2. all \in Seq(T) /\ Len(all) = Len(u.alerts) + 1
      BY <1>2, <2>1, ConcatProperties
    <2>3. Len(u.alerts) \in Nat
      BY <1>2, LenProperties
    <2> HIDE DEF all
    <2>4. n \in Nat /\ n > 0 /\ n <= Len(all) /\ n <= Capacity /\ n >= Len(u.alerts)
      BY <2>2, <2>3, Bounds
    <2> HIDE DEF n
    <2>5. kept \in Seq(T) /\ Len(kept) = IF 1 <= n THEN n - 1 + 1 ELSE 0
      BY <2>2, <2>4, SubSeqType
    <2> QED BY <2>4, <2>5
  <1>3. /\ kept \in Seq(AlertIds) /\ Len(kept) > 0 /\ Len(kept) <= Capacity
        /\ Len(kept) >= Len(u.alerts) /\ kept # <<>>
    <2>1. a \in AlertIds
      OBVIOUS
    <2>2. /\ kept \in Seq(AlertIds) /\ Len(kept) = n /\ n \in Nat /\ n > 0 /\ n <= Capacity
          /\ n >= Len(u.alerts)
      BY <1>1, <1>2, <2>1
    <2>3. Len(<<>>) = 0
      OBVIOUS
    <2> HIDE DEF kept, n
    <2> QED BY <2>2, <2>3
  <1>4. u.alerts \in Seq(S) => kept \in Seq(S)
    BY <1>2
  <1> HIDE DEF kept
  <1> DEFINE v == [[u EXCEPT !.alerts = kept] EXCEPT !.index = 0]
             w == [v EXCEPT !.events = [u.events EXCEPT !.alert = TRUE]]
  <1>5. /\ v \in UiStates /\ v.alerts = kept /\ v.index = 0
        /\ v.connected = u.connected /\ v.music = u.music
    BY <1>3 DEF UiStates
  <1>6. [u.events EXCEPT !.alert = TRUE]
          \in [alert : BOOLEAN, route : BOOLEAN, routing : BOOLEAN, ringing : BOOLEAN]
    BY DEF UiStates
  <1>7. UiNotification(u, a) = Revised(w)
    <2>1. w = [u EXCEPT !.alerts = kept, !.index = 0, !.events.alert = TRUE]
      BY DEF UiStates
    <2> QED BY <2>1 DEF UiNotification, kept
  <1> HIDE DEF v
  <1>8. /\ w \in UiStates /\ w.alerts = kept /\ w.index = 0
        /\ w.connected = u.connected /\ w.music = u.music
    BY <1>5, <1>6 DEF UiStates
  <1> HIDE DEF w
  <1> QED BY <1>3, <1>4, <1>7, <1>8, RevisedFacts

LEMMA RemoveAtFacts ==
  ASSUME NEW S, NEW s \in Seq(S), NEW i \in 1 .. Len(s)
  PROVE  RemoveAt(s, i) \in Seq(S) /\ Len(RemoveAt(s, i)) = Len(s) - 1
  <1> DEFINE a == SubSeq(s, 1, i - 1)
             b == SubSeq(s, i + 1, Len(s))
  <1>1. Len(s) \in Nat
    BY LenProperties
  <1>2. a \in Seq(S) /\ Len(a) = i - 1
    BY <1>1, SubSeqType
  <1>3. b \in Seq(S) /\ Len(b) = Len(s) - i
    BY <1>1, SubSeqType
  <1>4. RemoveAt(s, i) = a \o b
    BY DEF RemoveAt
  <1> HIDE DEF a, b
  <1>5. a \o b \in Seq(S) /\ Len(a \o b) = Len(a) + Len(b)
    BY <1>2, <1>3, ConcatProperties
  <1> QED BY <1>1, <1>2, <1>3, <1>4, <1>5

\* Dismissing removes the selected alert of a snapshot that is current, and selects another.
LEMMA DismissFacts ==
  ASSUME NEW u \in UiStates, Selected(u)
  PROVE  LET v == UiDismiss(u)
         IN /\ v \in UiStates /\ v.connected = u.connected /\ v.music = u.music
            /\ Selected(v) /\ Len(v.alerts) <= Len(u.alerts)
            /\ \A S : u.alerts \in Seq(S) => v.alerts \in Seq(S)
            /\ \/ v = u
               \/ /\ u.seen /\ u.alerts # <<>> /\ v.alerts = RemoveAt(u.alerts, u.index + 1)
                  /\ ~v.seen
  <1>1. u.alerts \in Seq(AlertIds) /\ u.index \in Nat /\ Len(u.alerts) \in Nat
    BY LenProperties DEF UiStates
  <1>2. CASE ~u.seen \/ u.alerts = <<>>
    BY <1>1, <1>2 DEF UiDismiss
  <1>3. CASE u.seen /\ u.alerts # <<>>
    <2> DEFINE left == RemoveAt(u.alerts, u.index + 1)
               i == IF u.index < Len(left) THEN u.index ELSE IF left = <<>> THEN 0 ELSE Len(left) - 1
               v == [[u EXCEPT !.alerts = left] EXCEPT !.index = i]
    <2>1. u.index + 1 \in 1 .. Len(u.alerts)
      BY <1>1, <1>3 DEF Selected
    <2>2. left = RemoveAt(u.alerts, u.index + 1)
      OBVIOUS
    <2>3. /\ left \in Seq(AlertIds) /\ Len(left) = Len(u.alerts) - 1 /\ Len(left) \in Nat
          /\ \A S : u.alerts \in Seq(S) => left \in Seq(S)
          /\ left # <<>> => Len(left) > 0
      BY <1>1, <2>1, RemoveAtFacts, EmptySeq, LenProperties
    <2> HIDE DEF left
    <2>4. i \in Nat /\ IF left = <<>> THEN i = 0 ELSE i < Len(left)
      <3>1. Len(<<>>) = 0
        OBVIOUS
      <3> QED BY <1>1, <2>3, <3>1
    <2> HIDE DEF i
    <2>5. /\ v \in UiStates /\ v.alerts = left /\ v.index = i
          /\ v.connected = u.connected /\ v.music = u.music
      BY <2>3, <2>4 DEF UiStates
    <2>6. UiDismiss(u) = Revised(v)
      BY <1>3 DEF UiDismiss, left, i
    <2> HIDE DEF v
    <2>7. /\ Revised(v) \in UiStates /\ ~Revised(v).seen
          /\ Revised(v).alerts = left /\ Revised(v).index = i
          /\ Revised(v).connected = u.connected /\ Revised(v).music = u.music
      BY <2>5, RevisedFacts
    <2>8. Selected(Revised(v)) /\ Len(Revised(v).alerts) <= Len(u.alerts)
      BY <1>1, <2>3, <2>4, <2>7 DEF Selected
    <2> QED BY <1>3, <2>3, <2>6, <2>7, <2>8, <2>2
  <1> QED BY <1>2, <1>3

LEMMA StepFacts ==
  ASSUME NEW u \in UiStates, Selected(u), NEW step \in {1, -1}
  PROVE  LET v == UiStep(u, step)
         IN /\ v \in UiStates /\ v.connected = u.connected /\ v.music = u.music
            /\ Selected(v) /\ v.alerts = u.alerts
            /\ v = u \/ ~v.seen
  <1>1. u.index \in Nat /\ Len(u.alerts) \in Nat /\ (u.alerts = <<>> => Len(u.alerts) = 0)
    BY LenProperties DEF UiStates
  <1> DEFINE i == u.index + step
             j == IF i \in 0 .. Len(u.alerts) - 1 THEN i ELSE u.index
             v == [u EXCEPT !.index = j]
  <1>2. j \in Nat /\ IF u.alerts = <<>> THEN j = 0 ELSE j < Len(u.alerts)
    BY <1>1 DEF Selected
  <1>3. UiStep(u, step) = IF ~u.seen THEN u ELSE Revised(v)
    BY DEF UiStep
  <1> HIDE DEF j
  <1>4. /\ v \in UiStates /\ v.alerts = u.alerts /\ v.index = j
        /\ v.connected = u.connected /\ v.music = u.music
    BY <1>2 DEF UiStates
  <1> HIDE DEF v
  <1>5. CASE u.seen
    <2>1. UiStep(u, step) = Revised(v)
      BY <1>3, <1>5
    <2>2. Selected(Revised(v))
      BY <1>2, <1>4, RevisedFacts DEF Selected
    <2> QED BY <1>4, <2>1, <2>2, RevisedFacts
  <1>6. CASE ~u.seen
    BY <1>3, <1>6
  <1> QED BY <1>5, <1>6

-----------------------------------------------------------------------------
(* Events and their queue *)

LEMMA EventFacts ==
  ASSUME NEW e \in Events
  PROVE  /\ e[1] \in {"Connected", "Disconnected", "Services", "Source", "Removed", "Commands", "Data"}
         /\ e[1] = "Connected" => e[2] \in 1 .. MaxLinks
         /\ e[1] \in {"Source", "Removed"} => e[2] \in Uids
         /\ e[1] = "Commands" => e[2] \in SUBSET Actions
         /\ e[1] = "Data" => e[2] \in Uids /\ e[3] \in 0 .. 2
  <1>1. CASE e \in {"Connected", "Disconnected", "Services"} \X (1 .. MaxLinks)
    BY <1>1
  <1>2. CASE e \in {"Source", "Removed"} \X Uids
    BY <1>2
  <1>3. CASE e \in {"Commands"} \X SUBSET Actions
    BY <1>3
  <1>4. CASE e \in DataEvents
    BY <1>4 DEF DataEvents
  <1> QED BY <1>1, <1>2, <1>3, <1>4 DEF Events

\* An event is the last of the queue, or there was no room for it.
LEMMA EnqueueFacts ==
  ASSUME queue \in Seq(Events), Len(queue) <= QueueSize, NEW e \in Events, Enqueue(e)
  PROVE  /\ queue' \in Seq(Events) /\ Len(queue') <= QueueSize
         /\ \/ queue' = queue /\ Len(queue) = QueueSize
            \/ /\ Len(queue') = Len(queue) + 1 /\ queue'[Len(queue) + 1] = e
               /\ \A i \in 1 .. Len(queue) : queue'[i] = queue[i]
  <1>1. Len(queue) \in Nat /\ QueueSize \in Nat
    BY Bounds, LenProperties
  <1>2. CASE Len(queue) < QueueSize
    <2>1. queue' = Append(queue, e)
      BY <1>2 DEF Enqueue
    <2>2. /\ Append(queue, e) \in Seq(Events) /\ Len(Append(queue, e)) = Len(queue) + 1
          /\ \A i \in 1 .. Len(queue) : Append(queue, e)[i] = queue[i]
          /\ Append(queue, e)[Len(queue) + 1] = e
      BY AppendProperties
    <2> QED BY <1>1, <1>2, <2>1, <2>2
  <1>3. CASE ~(Len(queue) < QueueSize)
    BY <1>1, <1>3 DEF Enqueue
  <1> QED BY <1>2, <1>3

LEMMA TailFacts ==
  ASSUME NEW S, NEW s \in Seq(S), s # <<>>
  PROVE  /\ Head(s) \in S /\ Head(s) = s[1] /\ Tail(s) \in Seq(S)
         /\ Len(s) \in Nat /\ Len(s) > 0 /\ Len(Tail(s)) = Len(s) - 1
         /\ \A i \in 1 .. Len(s) - 1 : Tail(s)[i] = s[i + 1]
  BY HeadTailProperties, LenProperties, EmptySeq, ElementOfSeq

\* What a callback puts into the queue is for the worker: the phone's types are kept.
LEMMA PhoneFacts ==
  ASSUME phone \in PhoneType
  PROVE  /\ Idle \in PhoneType
         /\ \A alerts \in SUBSET Uids :
              [phone EXCEPT !.notices = @ + 1, !.alerts = alerts] \in PhoneType
         /\ [phone EXCEPT !.media = @ + 1] \in PhoneType
         /\ phone.air # <<>> => [phone EXCEPT !.air = Tail(@)] \in PhoneType
         /\ \A uid \in Uids : /\ [phone EXCEPT !.air = Append(@, <<"Data", uid, 0>>)] \in PhoneType
                              /\ [phone EXCEPT !.air = @ \o <<<<"Data", uid, 1>>, <<"Data", uid, 2>>>>]
                                   \in PhoneType
  <1>1. phone.air \in Seq(DataEvents)
    BY DEF PhoneType
  <1>2. \A air \in Seq(DataEvents) : [phone EXCEPT !.air = air] \in PhoneType
    BY DEF PhoneType
  <1>3. Idle \in PhoneType
    BY EmptySeq DEF Idle, PhoneType
  <1>4. \A alerts \in SUBSET Uids : [phone EXCEPT !.notices = @ + 1, !.alerts = alerts] \in PhoneType
    <2>1. phone.notices + 1 \in Nat
      BY DEF PhoneType
    <2>2. \A n \in Nat, alerts \in SUBSET Uids :
            [phone EXCEPT !.notices = n, !.alerts = alerts] \in PhoneType
      BY Zenon DEF PhoneType
    <2> QED BY <2>1, <2>2
  <1>5. [phone EXCEPT !.media = @ + 1] \in PhoneType
    BY DEF PhoneType
  <1>6. phone.air # <<>> => [phone EXCEPT !.air = Tail(@)] \in PhoneType
    BY <1>1, <1>2, TailFacts
  <1>7. ASSUME NEW uid \in Uids
        PROVE  /\ [phone EXCEPT !.air = Append(@, <<"Data", uid, 0>>)] \in PhoneType
               /\ [phone EXCEPT !.air = @ \o <<<<"Data", uid, 1>>, <<"Data", uid, 2>>>>] \in PhoneType
    <2>1. <<"Data", uid, 0>> \in DataEvents /\ <<"Data", uid, 1>> \in DataEvents
          /\ <<"Data", uid, 2>> \in DataEvents
      BY DEF DataEvents
    <2>2. Append(phone.air, <<"Data", uid, 0>>) \in Seq(DataEvents)
      BY <1>1, <2>1, AppendProperties
    <2>3. <<<<"Data", uid, 1>>, <<"Data", uid, 2>>>> \in Seq(DataEvents)
      BY <2>1
    <2>4. phone.air \o <<<<"Data", uid, 1>>, <<"Data", uid, 2>>>> \in Seq(DataEvents)
      BY <1>1, <2>3, ConcatProperties
    <2> QED BY <1>2, <2>2, <2>4
  <1> QED BY <1>3, <1>4, <1>5, <1>6, <1>7

-----------------------------------------------------------------------------
(* The worker *)

\* What a step of the worker makes of the state u of the screen.
Grown(u, v) ==
  /\ v \in UiStates /\ v.connected = u.connected
  /\ Selected(v) /\ Len(v.alerts) <= Capacity /\ Len(v.alerts) >= Len(u.alerts)
  /\ v.seen => u.seen /\ v.alerts = u.alerts /\ v.index = u.index

\* The music of the worker and of the screen, for the connection client.
Paired(s, client) ==
  /\ s.ams \in AmsType /\ Kept(ui, s.ui)
  /\ s.ams.remote # 0 => s.ams.remote = client
  /\ s.ams.music.available => s.ams.remote # 0
  /\ ui.connected /\ ui.music = ams.music => s.ui.music = s.ams.music

LEMMA KeptGrown ==
  ASSUME NEW u \in UiStates, Selected(u), Len(u.alerts) <= Capacity, NEW v, Kept(u, v)
  PROVE  Grown(u, v)
  <1>1. Len(u.alerts) \in Nat
    BY LenProperties DEF UiStates
  <1> QED BY <1>1 DEF Kept, Grown, Selected

LEMMA PublishedGrown ==
  ASSUME NEW u \in UiStates, Len(u.alerts) <= Capacity, NEW a \in AlertIds
  PROVE  LET v == UiNotification(u, a)
         IN /\ Grown(u, v) /\ v.music = u.music
            /\ u.alerts \in Seq(Uids) /\ a \in Uids => v.alerts \in Seq(Uids)
  <1> DEFINE v == UiNotification(u, a)
  <1>1. /\ v \in UiStates
        /\ v.alerts # <<>> /\ Len(v.alerts) <= Capacity /\ Len(v.alerts) >= Len(u.alerts)
        /\ v.index = 0 /\ v.connected = u.connected /\ v.music = u.music /\ ~v.seen
    BY NotificationFacts
  <1>2. u.alerts \in Seq(Uids) /\ a \in Uids => v.alerts \in Seq(Uids)
    BY NotificationFacts DEF AlertIds
  <1> HIDE DEF v
  <1>3. v.index < Len(v.alerts)
    BY <1>1, LenProperties, EmptySeq DEF UiStates
  <1>4. Grown(u, v) /\ v.music = u.music
    BY <1>1, <1>3 DEF Grown, Selected
  <1> QED BY <1>2, <1>4 DEF v

LEMMA KeptTwice ==
  ASSUME NEW u, NEW v, NEW w, Kept(u, v), Kept(v, w)
  PROVE  Kept(u, w)
  BY DEF Kept

\* AmsService::reset leaves no music, and shows none.
LEMMA ResetFacts ==
  ASSUME ui \in UiStates, NEW client
  PROVE  /\ Paired(AmsReset(Media), client)
         /\ ui.connected => AmsReset(Media).ui.music = AmsReset(Media).ams.music
         /\ AmsReset(Media).ams.remote = 0
  <1> DEFINE u == UiMusic(ui, NoMusic)
  <1>1. NoMusic \in Musics /\ NoAms \in AmsType /\ NoAms.remote = 0 /\ NoAms.music = NoMusic
        /\ ~NoAms.music.available
    BY Bounds DEF NoMusic, Musics, NoAms, AmsType
  <1>2. Kept(ui, u) /\ (ui.connected => u.music = NoMusic)
    BY <1>1, MusicFacts
  <1>3. u \in UiStates
    BY <1>2 DEF Kept
  <1>4. AmsReset(Media) = [ams |-> NoAms, ui |-> UiTake(u)]
    BY DEF AmsReset, Media
  <1> HIDE DEF u
  <1>5. Kept(u, UiTake(u)) /\ UiTake(u).music = u.music
    BY <1>3, TakeFacts
  <1>6. Kept(ui, UiTake(u))
    BY <1>2, <1>5, KeptTwice
  <1>7. AmsReset(Media).ams = NoAms /\ AmsReset(Media).ui = UiTake(u)
    BY <1>4
  <1> QED BY <1>1, <1>2, <1>5, <1>6, <1>7 DEF Paired

LEMMA MediaPaired ==
  ASSUME TypeOK, WorkerInv
  PROVE  Paired(Media, worker.client)
  BY DEF TypeOK, WorkerInv, Paired, Media, Kept

\* A service found on the connection is the one that the worker has.
LEMMA FoundFacts ==
  ASSUME NEW s, NEW client \in 1 .. MaxLinks, Paired(s, client)
  PROVE  /\ Paired(AmsFound(s, client), client)
         /\ ui.connected => AmsFound(s, client).ui.music = AmsFound(s, client).ams.music
  <1> DEFINE music == [s.ams.music EXCEPT !.available = TRUE]
             f == AmsFound(s, client)
  <1>1. music \in Musics /\ s.ui \in UiStates
    BY DEF Paired, AmsType, Musics, Kept
  <1>2. f = [ams |-> [remote |-> client, music |-> music], ui |-> UiMusic(s.ui, music)]
    BY DEF AmsFound
  <1>3. Kept(s.ui, UiMusic(s.ui, music)) /\ (s.ui.connected => UiMusic(s.ui, music).music = music)
    BY <1>1, MusicFacts
  <1>4. Kept(ui, UiMusic(s.ui, music))
    BY <1>3, KeptTwice DEF Paired
  <1>5. ui.connected => s.ui.connected
    BY DEF Paired, Kept
  <1> HIDE DEF music
  <1>6. f.ams.remote = client /\ f.ams.music = music /\ f.ui = UiMusic(s.ui, music)
        /\ f.ams \in AmsType
    BY <1>1, <1>2 DEF AmsType
  <1> HIDE DEF f
  <1>7. client # 0
    BY Bounds
  <1>8. Paired(f, client) /\ (ui.connected => f.ui.music = f.ams.music)
    BY <1>3, <1>4, <1>5, <1>6, <1>7 DEF Paired
  <1> QED BY <1>8 DEF f

\* The services sought are found on the connection of the worker, or are not.
LEMMA DiscoversFacts ==
  ASSUME TypeOK, worker' \in WorkerType,
         NEW s, Paired(s, worker'.client),
         NEW notices \in BOOLEAN, NEW media \in BOOLEAN, Discovers(s, notices, media)
  PROVE  /\ subs' \in 0 .. MaxLinks
         /\ worker'.control \in {0, worker'.client, worker.control}
         /\ notices => worker'.control \in {0, worker'.client}
         /\ Paired([ams |-> ams', ui |-> ui'], worker'.client)
         /\ (ui.connected => s.ui.music = s.ams.music) => (ui.connected => ui'.music = ams'.music)
  <1>1. PICK found \in IF notices THEN Succeeds(worker'.client) ELSE {FALSE} :
          /\ worker'.control = IF found THEN worker'.client ELSE IF notices THEN 0 ELSE worker.control
          /\ subs' = IF found THEN worker'.client ELSE subs
    BY DEF Discovers
  <1>2. PICK heard \in IF media THEN Succeeds(worker'.client) ELSE {FALSE} :
          AmsIs(IF heard THEN AmsFound(s, worker'.client) ELSE s)
    BY DEF Discovers
  <1>3. found \in BOOLEAN /\ heard \in BOOLEAN /\ (found => notices)
    BY <1>1, <1>2 DEF Succeeds
  <1>4. heard => worker'.client # 0
    BY <1>2 DEF Succeeds
  <1>5. worker'.client \in 0 .. MaxLinks /\ subs \in 0 .. MaxLinks
    BY DEF TypeOK, WorkerType
  <1>6. CASE ~heard
    <2>1. ams' = s.ams /\ ui' = s.ui
      BY <1>2, <1>6 DEF AmsIs
    <2> QED BY <1>1, <1>3, <1>5, <2>1 DEF Paired
  <1>7. CASE heard
    <2> DEFINE f == AmsFound(s, worker'.client)
    <2>1. worker'.client \in 1 .. MaxLinks
      BY <1>4, <1>5, <1>7, Bounds
    <2>2. ams' = f.ams /\ ui' = f.ui
      BY <1>2, <1>7 DEF AmsIs
    <2>3. Paired(f, worker'.client) /\ (ui.connected => f.ui.music = f.ams.music)
      BY <2>1, FoundFacts
    <2> HIDE DEF f
    <2> QED BY <1>1, <1>3, <1>5, <2>2, <2>3 DEF Paired
  <1> QED BY <1>6, <1>7

\* What every step of the worker does, but for what it takes out of the queue.
Worked ==
  /\ worker' \in WorkerType /\ parser' \in ParserType /\ app' \in AppType /\ ams' \in AmsType
  /\ subs' \in 0 .. MaxLinks /\ phone' \in PhoneType
  /\ Grown(ui, ui')
  /\ ui.connected /\ ui.music = ams.music => ui'.music = ams'.music
  /\ worker'.control # 0 => worker'.client # 0
  /\ ams'.remote # 0 => ams'.remote = worker'.client
  /\ ams'.music.available => ams'.remote # 0
  /\ parser'.pending => parser'.uid \in Uids
  /\ (app.pending => parser.uid \in Uids) /\ ui.alerts \in Seq(Uids) => ui'.alerts \in Seq(Uids)

\* The wait for an application's name goes on with the connection, for an alert of it.
AwaitKept ==
  (app.pending => worker.client # 0 /\ parser.uid \in Uids)
    => (app'.pending => worker'.client # 0 /\ parser'.uid \in Uids)

LEMMA PairedWorks ==
  ASSUME TypeOK, HistoryInv, Paired([ams |-> ams', ui |-> ui'], worker'.client),
         worker' \in WorkerType, parser' \in ParserType, app' \in AppType,
         subs' \in 0 .. MaxLinks, phone' \in PhoneType,
         worker'.control # 0 => worker'.client # 0,
         parser'.pending => parser'.uid \in Uids
  PROVE  Worked
  <1> DEFINE s == [ams |-> ams', ui |-> ui']
  <1>1. s.ams = ams' /\ s.ui = ui'
    OBVIOUS
  <1>2. Paired(s, worker'.client)
    OBVIOUS
  <1> HIDE DEF s
  <1>3. /\ ams' \in AmsType /\ Kept(ui, ui')
        /\ ams'.remote # 0 => ams'.remote = worker'.client
        /\ ams'.music.available => ams'.remote # 0
        /\ ui.connected /\ ui.music = ams.music => ui'.music = ams'.music
    BY <1>1, <1>2 DEF Paired
  <1>4. Grown(ui, ui')
    BY <1>3, KeptGrown DEF TypeOK, HistoryInv
  <1>5. ui'.alerts = ui.alerts
    BY <1>3 DEF Kept
  <1> QED BY <1>3, <1>4, <1>5 DEF Worked

\* The state of the screen alone changes, if anything that the music is about.
LEMMA KeptWorks ==
  ASSUME TypeOK, WorkerInv, HistoryInv, Kept(ui, ui'), ui'.music = ui.music, ams' = ams,
         worker' \in WorkerType, parser' \in ParserType, app' \in AppType,
         subs' \in 0 .. MaxLinks, phone' \in PhoneType,
         worker'.client = worker.client,
         worker'.control # 0 => worker'.client # 0,
         parser'.pending => parser'.uid \in Uids
  PROVE  Worked
  <1>1. Grown(ui, ui')
    BY KeptGrown DEF TypeOK, HistoryInv
  <1>2. ui'.alerts = ui.alerts
    BY DEF Kept
  <1> QED BY <1>1, <1>2 DEF Worked, TypeOK, WorkerInv

LEMMA StayKept == ui \in UiStates => Kept(ui, ui)
  BY DEF Kept

\* An alert is published.
LEMMA PublishedWorks ==
  ASSUME TypeOK, WorkerInv, HistoryInv, ui' = UiNotification(ui, parser.uid), ams' = ams,
         worker' \in WorkerType, parser' \in ParserType, app' \in AppType,
         subs' \in 0 .. MaxLinks, phone' \in PhoneType,
         worker'.client = worker.client,
         worker'.control # 0 => worker'.client # 0,
         parser'.pending => parser'.uid \in Uids,
         app.pending \/ parser.uid \in Uids
  PROVE  Worked
  <1>1. /\ Grown(ui, ui') /\ ui'.music = ui.music
        /\ ui.alerts \in Seq(Uids) /\ parser.uid \in Uids => ui'.alerts \in Seq(Uids)
    BY PublishedGrown DEF TypeOK, HistoryInv, ParserType
  <1> QED BY <1>1 DEF Worked, TypeOK, WorkerInv

LEMMA WorkerFacts ==
  ASSUME worker \in WorkerType, NEW pc \in {"tick", "write", "receive"}, NEW c \in 0 .. MaxLinks,
         NEW control \in 0 .. MaxLinks, NEW held \in Actions \cup {NoAction}
  PROVE  /\ [worker EXCEPT !.pc = pc] \in WorkerType
         /\ [worker EXCEPT !.pc = pc, !.held = held] \in WorkerType
         /\ [worker EXCEPT !.pc = pc, !.held = held, !.control = control] \in WorkerType
         /\ [worker EXCEPT !.pc = pc, !.control = control] \in WorkerType
         /\ [worker EXCEPT !.pc = pc, !.client = c, !.control = control] \in WorkerType
  BY Zenon DEF WorkerType

LEMMA TickWorks ==
  ASSUME TypeOK, WorkerInv, HistoryInv, Tick
  PROVE  Worked /\ AwaitKept /\ worker'.client = worker.client
  <1>1. UNCHANGED <<cached, link, links, queue, lost, phone, subs, parser, app, ams>>
    BY DEF Tick
  <1>2. /\ worker \in WorkerType /\ parser \in ParserType /\ app \in AppType
        /\ subs \in 0 .. MaxLinks /\ phone \in PhoneType /\ ui \in UiStates
    BY DEF TypeOK
  <1>3. Kept(ui, ui') /\ ui'.music = ui.music
    BY <1>2, TakeFacts, StayKept DEF Tick
  <1>4. /\ worker' \in WorkerType /\ worker'.client = worker.client
        /\ worker'.control = worker.control
    <2>1. CASE worker.client # 0 /\ worker.client = link
      <3> DEFINE held == IF ams.remote # 0 /\ Taken(ui) \in ams.music.commands THEN Taken(ui)
                         ELSE NoAction
      <3>1. held \in Actions \cup {NoAction}
        BY <1>2, TakeFacts
      <3>2. worker' = [worker EXCEPT !.pc = "write", !.held = held]
        BY <2>1 DEF Tick
      <3> HIDE DEF held
      <3> QED BY <1>2, <3>1, <3>2 DEF WorkerType
    <2>2. CASE ~(worker.client # 0 /\ worker.client = link)
      <3>1. worker' = [worker EXCEPT !.pc = "receive"]
        BY <2>2 DEF Tick
      <3> QED BY <1>2, <3>1 DEF WorkerType
    <2> QED BY <2>1, <2>2
  <1>5. Worked
    BY <1>1, <1>2, <1>3, <1>4, KeptWorks DEF WorkerInv
  <1> QED BY <1>1, <1>4, <1>5 DEF AwaitKept

LEMMA WaitsWorks ==
  ASSUME TypeOK, WorkerInv, HistoryInv, Waits
  PROVE  Worked /\ AwaitKept /\ worker'.client = worker.client
  <1>1. UNCHANGED <<cached, link, links, queue, lost, phone, subs, parser, ams>>
    BY DEF Waits
  <1>2. /\ worker \in WorkerType /\ parser \in ParserType /\ app \in AppType
        /\ subs \in 0 .. MaxLinks /\ phone \in PhoneType /\ ui \in UiStates
    BY DEF TypeOK
  <1>3. /\ worker' \in WorkerType /\ worker'.client = worker.client
        /\ worker'.control = worker.control
    BY <1>2 DEF Waits, WorkerType
  <1>4. NoApp \in AppType /\ ~NoApp.pending
    BY DEF NoApp, AppType
  <1>5. CASE app.pending /\ app.old
    <2>1. app' = NoApp /\ ui' = UiNotification(ui, parser.uid)
      BY <1>5 DEF Waits, TimedOut
    <2>2. Worked
      BY <1>1, <1>2, <1>3, <1>4, <1>5, <2>1, PublishedWorks DEF WorkerInv
    <2> QED BY <1>3, <1>4, <2>1, <2>2 DEF AwaitKept
  <1>6. CASE ~(app.pending /\ app.old)
    <2>1. app' = app /\ ui' = ui
      BY <1>6 DEF Waits, TimedOut
    <2>2. Worked
      BY <1>1, <1>2, <1>3, <2>1, KeptWorks, StayKept DEF WorkerInv
    <2> QED BY <1>1, <1>3, <2>1, <2>2 DEF AwaitKept
  <1> QED BY <1>5, <1>6

LEMMA WriteWorks ==
  ASSUME TypeOK, WorkerInv, HistoryInv, Write
  PROVE  Worked /\ AwaitKept /\ worker'.client = worker.client
  <1>1. UNCHANGED <<cached, link, links, queue, lost, phone, parser, app>>
    BY DEF Write
  <1>2. /\ worker \in WorkerType /\ parser \in ParserType /\ app \in AppType
        /\ phone \in PhoneType /\ ui \in UiStates
    BY DEF TypeOK
  <1>3. PICK ok \in Succeeds(ams.remote), due \in BOOLEAN, control \in {worker.control, worker.client} :
          LET s == IF worker.held = NoAction \/ ok THEN Media ELSE AmsReset(Media)
          IN /\ worker' = [worker EXCEPT !.pc = "receive", !.held = NoAction, !.control = control]
             /\ Discovers(s, due /\ worker.control = 0, due /\ s.ams.remote = 0)
    BY DEF Write
  <1> DEFINE s == IF worker.held = NoAction \/ ok THEN Media ELSE AmsReset(Media)
  <1>4. Discovers(s, due /\ worker.control = 0, due /\ s.ams.remote = 0)
    BY <1>3
  <1>5. Paired(s, worker.client)
    BY <1>2, MediaPaired, ResetFacts
  <1>6. control \in 0 .. MaxLinks /\ (control # 0 => worker.client # 0)
    BY <1>2 DEF WorkerType, WorkerInv
  <1>7. worker' \in WorkerType /\ worker'.client = worker.client /\ worker'.control = control
    BY <1>2, <1>3, <1>6 DEF WorkerType
  <1>8. (due /\ worker.control = 0) \in BOOLEAN /\ (due /\ s.ams.remote = 0) \in BOOLEAN
    OBVIOUS
  <1> HIDE DEF s
  <1>9. subs' \in 0 .. MaxLinks /\ Paired([ams |-> ams', ui |-> ui'], worker'.client)
    BY <1>4, <1>5, <1>7, <1>8, DiscoversFacts
  <1>10. Worked
    BY <1>1, <1>2, <1>6, <1>7, <1>9, PairedWorks DEF WorkerInv
  <1> QED BY <1>1, <1>7, <1>10 DEF AwaitKept

LEMMA ForgetFacts ==
  /\ NoAlert \in ParserType /\ ~NoAlert.pending
  /\ NoApp \in AppType /\ ~NoApp.pending
  BY DEF NoAlert, ParserType, AlertIds, NoApp, AppType

LEMMA ResetIs ==
  ASSUME TypeOK, AmsIs(AmsReset(Media)), NEW client
  PROVE  /\ Paired([ams |-> ams', ui |-> ui'], client)
         /\ ui.connected => ui'.music = ams'.music
  <1> DEFINE r == AmsReset(Media)
             s == [ams |-> ams', ui |-> ui']
  <1>1. ams' = r.ams /\ ui' = r.ui /\ s.ams = ams' /\ s.ui = ui'
    BY DEF AmsIs
  <1>2. Paired(r, client) /\ (ui.connected => r.ui.music = r.ams.music)
    BY ResetFacts DEF TypeOK
  <1> HIDE DEF r, s
  <1>3. Paired(s, client) /\ (ui.connected => ui'.music = ams'.music)
    BY <1>1, <1>2 DEF Paired
  <1> QED BY <1>3 DEF s

LEMMA DisconnectedWorks ==
  ASSUME TypeOK, WorkerInv, HistoryInv, Disconnected
  PROVE  /\ Worked /\ AwaitKept /\ worker'.client = 0
         /\ ui.connected => ui'.music = ams'.music
  <1>1. /\ worker \in WorkerType /\ subs \in 0 .. MaxLinks /\ phone \in PhoneType
        /\ 0 \in 0 .. MaxLinks
    BY Bounds DEF TypeOK
  <1>2. worker' = [worker EXCEPT !.pc = "tick", !.client = 0, !.control = 0]
    BY DEF Disconnected
  <1>3. worker' \in WorkerType /\ worker'.client = 0 /\ worker'.control = 0
    BY <1>1, <1>2 DEF WorkerType
  <1>4. parser' = NoAlert /\ app' = NoApp /\ subs' = subs /\ phone' = phone
    BY DEF Disconnected, Forget
  <1>5. AmsIs(AmsReset(Media))
    BY DEF Disconnected
  <1>6. Paired([ams |-> ams', ui |-> ui'], worker'.client) /\ (ui.connected => ui'.music = ams'.music)
    BY <1>5, ResetIs
  <1>7. Worked
    BY <1>1, <1>3, <1>4, <1>6, ForgetFacts, PairedWorks
  <1> QED BY <1>3, <1>4, <1>6, <1>7, ForgetFacts DEF AwaitKept

LEMMA ConnectedWorks ==
  ASSUME TypeOK, WorkerInv, HistoryInv, NEW l \in 1 .. MaxLinks, Connected(l)
  PROVE  /\ Worked /\ worker'.client = l /\ app' = app
         /\ ui.connected => ui'.music = ams'.music
  <1>1. /\ worker \in WorkerType /\ subs \in 0 .. MaxLinks /\ phone \in PhoneType /\ ui \in UiStates
        /\ app \in AppType
    BY DEF TypeOK
  <1>2. PICK control \in {0, l} :
          worker' = [worker EXCEPT !.pc = "tick", !.client = l, !.control = control]
    BY DEF Connected
  <1>3. l \in 0 .. MaxLinks /\ l # 0 /\ control \in 0 .. MaxLinks
    BY Bounds
  <1>4. worker' \in WorkerType /\ worker'.client = l
    BY <1>1, <1>2, <1>3 DEF WorkerType
  <1>5. parser' = NoAlert /\ app' = app /\ phone' = phone
    BY DEF Connected
  <1>6. Discovers(AmsReset(Media), TRUE, TRUE)
    BY DEF Connected
  <1>7. /\ Paired(AmsReset(Media), worker'.client)
        /\ ui.connected => AmsReset(Media).ui.music = AmsReset(Media).ams.music
    BY <1>1, ResetFacts
  <1>8. /\ subs' \in 0 .. MaxLinks
        /\ Paired([ams |-> ams', ui |-> ui'], worker'.client)
        /\ ui.connected => ui'.music = ams'.music
    BY <1>4, <1>6, <1>7, DiscoversFacts
  <1>9. Worked
    BY <1>1, <1>3, <1>4, <1>5, <1>8, ForgetFacts, PairedWorks
  <1> QED BY <1>4, <1>5, <1>8, <1>9

LEMMA ServicesWorks ==
  ASSUME TypeOK, WorkerInv, HistoryInv, Services
  PROVE  Worked /\ AwaitKept /\ worker'.client = worker.client
  <1>1. /\ worker \in WorkerType /\ subs \in 0 .. MaxLinks /\ phone \in PhoneType /\ ui \in UiStates
        /\ parser \in ParserType /\ app \in AppType /\ 0 \in 0 .. MaxLinks
    BY Bounds DEF TypeOK
  <1>2. phone' = phone
    BY DEF Services
  <1>3. CASE worker.client # 0
    <2>1. worker' = [worker EXCEPT !.pc = "tick", !.control = 0]
      BY <1>3 DEF Services
    <2>2. worker' \in WorkerType /\ worker'.client = worker.client /\ worker'.control = 0
      BY <1>1, <2>1 DEF WorkerType
    <2>3. AmsIs(AmsReset(Media)) /\ parser' = NoAlert /\ app' = NoApp
      BY <1>3 DEF Services, Forget
    <2>4. subs' \in 0 .. MaxLinks
      BY <1>1, <1>3 DEF Services
    <2>5. Paired([ams |-> ams', ui |-> ui'], worker'.client)
      BY <2>3, ResetIs
    <2>6. Worked
      BY <1>1, <1>2, <2>2, <2>3, <2>4, <2>5, ForgetFacts, PairedWorks
    <2> QED BY <2>2, <2>3, <2>6, ForgetFacts DEF AwaitKept
  <1>4. CASE worker.client = 0
    <2>1. worker' = [worker EXCEPT !.pc = "tick"]
      BY <1>4 DEF Services
    <2>2. UNCHANGED <<parser, app, ams, ui, subs>>
      BY <1>4 DEF Services
    <2>3. worker' \in WorkerType /\ worker'.client = worker.client /\ worker'.control = worker.control
      BY <1>1, <2>1 DEF WorkerType
    <2>4. Worked
      BY <1>1, <1>2, <2>2, <2>3, KeptWorks, StayKept DEF WorkerInv
    <2> QED BY <2>2, <2>3, <2>4 DEF AwaitKept
  <1> QED BY <1>3, <1>4

LEMMA CommandsWorks ==
  ASSUME TypeOK, WorkerInv, HistoryInv, NEW commands \in SUBSET Actions, Commands(commands)
  PROVE  Worked /\ AwaitKept /\ worker'.client = worker.client
  <1>1. /\ worker \in WorkerType /\ subs \in 0 .. MaxLinks /\ phone \in PhoneType /\ ui \in UiStates
        /\ parser \in ParserType /\ app \in AppType /\ ams \in AmsType
    BY DEF TypeOK
  <1>2. worker' = [worker EXCEPT !.pc = "tick"] /\ UNCHANGED <<parser, app, subs, phone>>
    BY DEF Commands
  <1>3. worker' \in WorkerType /\ worker'.client = worker.client /\ worker'.control = worker.control
    BY <1>1, <1>2 DEF WorkerType
  <1>4. Paired([ams |-> ams', ui |-> ui'], worker.client)
    <2>1. CASE ams.remote = 0
      <3>1. ams' = ams /\ ui' = ui
        BY <2>1 DEF Commands
      <3> QED BY <1>1, <3>1, StayKept DEF Paired, WorkerInv
    <2>2. CASE ams.remote # 0
      <3> DEFINE music == [ams.music EXCEPT !.commands = commands]
                 after == [ams EXCEPT !.music = music]
      <3>1. ams' = after /\ ui' = UiMusic(ui, music)
        BY <2>2 DEF Commands, AmsIs
      <3>2. music \in Musics
        BY <1>1 DEF AmsType, Musics
      <3> HIDE DEF music
      <3>3. after \in AmsType /\ after.remote = ams.remote /\ after.music = music
        BY <1>1, <3>2 DEF AmsType
      <3> HIDE DEF after
      <3>4. Kept(ui, UiMusic(ui, music)) /\ (ui.connected => UiMusic(ui, music).music = music)
        BY <1>1, <3>2, MusicFacts
      <3> QED BY <2>2, <3>1, <3>3, <3>4 DEF Paired, WorkerInv
    <2> QED BY <2>1, <2>2
  <1>5. Worked
    BY <1>1, <1>2, <1>3, <1>4, PairedWorks DEF WorkerInv
  <1> QED BY <1>2, <1>3, <1>5 DEF AwaitKept

LEMMA SourceWorks ==
  ASSUME TypeOK, WorkerInv, HistoryInv, NEW uid \in Uids, NEW removed \in BOOLEAN,
         worker' = [worker EXCEPT !.pc = "tick"], UNCHANGED <<ams, subs>>, Source(uid, removed)
  PROVE  Worked /\ AwaitKept
  <1>1. /\ worker \in WorkerType /\ subs \in 0 .. MaxLinks /\ phone \in PhoneType /\ ui \in UiStates
        /\ parser \in ParserType
    BY DEF TypeOK
  <1>2. worker' \in WorkerType /\ worker'.client = worker.client /\ worker'.control = worker.control
    BY <1>1 DEF WorkerType
  <1>3. app' = NoApp /\ ui' = ui
    BY DEF Source
  <1>4. /\ parser' \in ParserType /\ (parser'.pending => parser'.uid \in Uids)
        /\ phone' \in PhoneType
    <2>1. CASE removed
      BY <1>1, <2>1, ForgetFacts DEF Source, WorkerInv
    <2>2. CASE ~removed
      <3>1. PICK ok \in Succeeds(worker.control) :
              /\ parser' = IF ok THEN [uid |-> uid, pending |-> TRUE, part |-> 0] ELSE NoAlert
              /\ phone' = IF ok THEN [phone EXCEPT !.air = @ \o <<<<"Data", uid, 1>>, <<"Data", uid, 2>>>>]
                          ELSE phone
        BY <2>2 DEF Source
      <3>2. [uid |-> uid, pending |-> TRUE, part |-> 0] \in ParserType
        BY DEF ParserType, AlertIds
      <3>3. [phone EXCEPT !.air = @ \o <<<<"Data", uid, 1>>, <<"Data", uid, 2>>>>] \in PhoneType
        BY <1>1, PhoneFacts
      <3> QED BY <1>1, <3>1, <3>2, <3>3, ForgetFacts
    <2> QED BY <2>1, <2>2
  <1>5. Worked
    BY <1>1, <1>2, <1>3, <1>4, ForgetFacts, KeptWorks, StayKept DEF WorkerInv
  <1> QED BY <1>3, <1>5, ForgetFacts DEF AwaitKept

\* The fields are complete.
LEMMA CompleteWorks ==
  ASSUME TypeOK, WorkerInv, HistoryInv, parser.pending,
         worker' = [worker EXCEPT !.pc = "tick"], UNCHANGED <<ams, subs>>, Complete
  PROVE  Worked /\ AwaitKept
  <1>1. /\ worker \in WorkerType /\ subs \in 0 .. MaxLinks /\ phone \in PhoneType /\ ui \in UiStates
        /\ parser \in ParserType /\ parser.uid \in Uids
    BY DEF TypeOK, WorkerInv
  <1>2. worker' \in WorkerType /\ worker'.client = worker.client /\ worker'.control = worker.control
    BY <1>1 DEF WorkerType
  <1>3. PICK ok \in Succeeds(worker.control) :
          /\ parser' = [parser EXCEPT !.pending = FALSE]
          /\ app' = [pending |-> ok, old |-> FALSE]
          /\ ui' = IF ok THEN ui ELSE UiNotification(ui, parser.uid)
          /\ phone' = IF ok THEN [phone EXCEPT !.air = Append(@, <<"Data", parser.uid, 0>>)] ELSE phone
    BY DEF Complete
  <1>4. ok \in BOOLEAN /\ (ok => worker.control # 0)
    BY DEF Succeeds
  <1>5. parser' \in ParserType /\ ~parser'.pending /\ parser'.uid = parser.uid
    BY <1>1, <1>3 DEF ParserType
  <1>6. app' \in AppType /\ (app'.pending => ok)
    BY <1>3, <1>4 DEF AppType
  <1>7. phone' \in PhoneType
    BY <1>1, <1>3, PhoneFacts
  <1>8. Worked
    <2>1. CASE ok
      BY <1>1, <1>2, <1>3, <1>5, <1>6, <1>7, <2>1, KeptWorks, StayKept DEF WorkerInv
    <2>2. CASE ~ok
      BY <1>1, <1>2, <1>3, <1>5, <1>6, <1>7, <2>2, PublishedWorks DEF WorkerInv
    <2> QED BY <1>4, <2>1, <2>2
  <1>9. app'.pending => worker'.client # 0 /\ parser'.uid \in Uids
    BY <1>1, <1>2, <1>4, <1>5, <1>6 DEF WorkerInv
  <1> QED BY <1>8, <1>9 DEF AwaitKept

\* A packet of a reply: the next fragment, the last one, or one that ends the alert.
LEMMA FieldsWorks ==
  ASSUME TypeOK, WorkerInv, HistoryInv, ~app.pending, NEW uid \in Uids, NEW part \in 0 .. 2,
         worker' = [worker EXCEPT !.pc = "tick"], UNCHANGED <<ams, subs>>, Fields(uid, part)
  PROVE  Worked /\ AwaitKept
  <1>1. /\ worker \in WorkerType /\ subs \in 0 .. MaxLinks /\ phone \in PhoneType /\ ui \in UiStates
        /\ parser \in ParserType /\ app \in AppType
    BY DEF TypeOK
  <1>2. worker' \in WorkerType /\ worker'.client = worker.client /\ worker'.control = worker.control
    BY <1>1 DEF WorkerType
  <1>3. ASSUME parser' \in ParserType, parser'.pending => parser'.uid \in Uids, UNCHANGED <<app, ui, phone>>
        PROVE  Worked /\ AwaitKept
    <2>1. Worked
      BY <1>1, <1>2, <1>3, KeptWorks, StayKept DEF WorkerInv
    <2> QED BY <1>3, <2>1 DEF AwaitKept
  <1>4. CASE /\ parser.pending /\ parser' = [parser EXCEPT !.part = 1]
             /\ UNCHANGED <<app, ui, phone>>
    <2>1. parser' \in ParserType /\ parser'.uid = parser.uid
      BY <1>1, <1>4 DEF ParserType
    <2> QED BY <1>3, <1>4, <2>1 DEF WorkerInv
  <1>5. CASE parser.pending /\ Complete
    BY <1>5, CompleteWorks
  <1>6. CASE parser' = NoAlert /\ UNCHANGED <<app, ui, phone>>
    BY <1>3, <1>6, ForgetFacts
  <1>7. CASE UNCHANGED <<parser, app, ui, phone>>
    BY <1>1, <1>3, <1>7 DEF WorkerInv
  <1> QED BY <1>4, <1>5, <1>6, <1>7 DEF Fields

LEMMA NamedWorks ==
  ASSUME TypeOK, WorkerInv, HistoryInv, app.pending, NEW part,
         worker' = [worker EXCEPT !.pc = "tick"], UNCHANGED <<ams, subs>>, Named(part)
  PROVE  Worked /\ AwaitKept
  <1>1. /\ worker \in WorkerType /\ subs \in 0 .. MaxLinks /\ phone \in PhoneType /\ ui \in UiStates
        /\ parser \in ParserType /\ app \in AppType
    BY DEF TypeOK
  <1>2. worker' \in WorkerType /\ worker'.client = worker.client /\ worker'.control = worker.control
    BY <1>1 DEF WorkerType
  <1>3. UNCHANGED <<parser, phone>>
    BY DEF Named
  <1>4. CASE app' = NoApp /\ ui' = UiNotification(ui, parser.uid)
    <2>1. Worked
      BY <1>1, <1>2, <1>3, <1>4, ForgetFacts, PublishedWorks DEF WorkerInv
    <2> QED BY <1>4, <2>1, ForgetFacts DEF AwaitKept
  <1>5. CASE UNCHANGED <<app, ui>>
    <2>1. Worked
      BY <1>1, <1>2, <1>3, <1>5, KeptWorks, StayKept DEF WorkerInv
    <2> QED BY <1>2, <1>3, <1>5, <2>1 DEF AwaitKept
  <1> QED BY <1>4, <1>5 DEF Named

LEMMA NotificationEventWorks ==
  ASSUME TypeOK, WorkerInv, HistoryInv, NEW e \in Events,
         e[1] \in {"Source", "Removed", "Data"}, NotificationEvent(e)
  PROVE  Worked /\ AwaitKept /\ worker'.client = worker.client
  <1>1. /\ worker \in WorkerType /\ subs \in 0 .. MaxLinks /\ phone \in PhoneType /\ ui \in UiStates
        /\ parser \in ParserType /\ app \in AppType
    BY DEF TypeOK
  <1>2. worker' = [worker EXCEPT !.pc = "tick"] /\ UNCHANGED <<ams, subs>>
    BY DEF NotificationEvent
  <1>3. worker' \in WorkerType /\ worker'.client = worker.client /\ worker'.control = worker.control
    BY <1>1, <1>2 DEF WorkerType
  <1>4. CASE worker.control = 0
    <2>1. UNCHANGED <<parser, app, ui, phone>>
      BY <1>4 DEF NotificationEvent
    <2>2. Worked
      BY <1>1, <1>2, <1>3, <2>1, KeptWorks, StayKept DEF WorkerInv
    <2> QED BY <1>3, <2>1, <2>2 DEF AwaitKept
  <1>5. CASE worker.control # 0 /\ e[1] # "Data"
    <2>1. Source(e[2], e[1] = "Removed")
      BY <1>5 DEF NotificationEvent
    <2>2. e[2] \in Uids /\ (e[1] = "Removed") \in BOOLEAN
      BY <1>5, EventFacts
    <2> QED BY <1>2, <1>3, <2>1, <2>2, SourceWorks
  <1>6. CASE worker.control # 0 /\ e[1] = "Data" /\ app.pending
    <2>1. Named(e[3])
      BY <1>6 DEF NotificationEvent
    <2> QED BY <1>2, <1>3, <1>6, <2>1, NamedWorks
  <1>7. CASE worker.control # 0 /\ e[1] = "Data" /\ ~app.pending
    <2>1. Fields(e[2], e[3])
      BY <1>7 DEF NotificationEvent
    <2>2. e[2] \in Uids /\ e[3] \in 0 .. 2
      BY <1>7, EventFacts
    <2> QED BY <1>2, <1>3, <1>7, <2>1, <2>2, FieldsWorks
  <1> QED BY <1>4, <1>5, <1>6, <1>7

\* The connection in which the worker believes follows the events that it takes.
LEMMA ReceiveWorks ==
  ASSUME TypeOK, WorkerInv, HistoryInv, Receive
  PROVE  LET e == Head(queue)
         IN /\ Worked
            /\ e[1] # "Connected" => AwaitKept
            /\ e[1] = "Connected" => app' = app
            /\ worker'.client = IF e[1] = "Connected" THEN e[2]
                                ELSE IF e[1] = "Disconnected" THEN 0 ELSE worker.client
            /\ e[1] \in {"Connected", "Disconnected"} => (ui.connected => ui'.music = ams'.music)
  <1> DEFINE e == Head(queue)
  <1>1. e \in Events
    BY TailFacts DEF TypeOK, Receive
  <1>2. CASE e[1] = "Disconnected"
    <2>1. Disconnected
      BY <1>2 DEF Receive
    <2> QED BY <1>2, <2>1, DisconnectedWorks
  <1>3. CASE e[1] = "Connected"
    <2>1. Connected(e[2]) /\ e[2] \in 1 .. MaxLinks
      BY <1>1, <1>3, EventFacts DEF Receive
    <2> QED BY <1>3, <2>1, ConnectedWorks
  <1>4. CASE e[1] = "Services"
    <2>1. Services
      BY <1>4 DEF Receive
    <2> QED BY <1>4, <2>1, ServicesWorks
  <1>5. CASE e[1] = "Commands"
    <2>1. Commands(e[2]) /\ e[2] \in SUBSET Actions
      BY <1>1, <1>5, EventFacts DEF Receive
    <2> QED BY <1>5, <2>1, CommandsWorks
  <1>6. CASE e[1] \in {"Source", "Removed", "Data"}
    <2>1. NotificationEvent(e)
      BY <1>6 DEF Receive
    <2> QED BY <1>1, <1>6, <2>1, NotificationEventWorks
  <1> QED BY <1>1, <1>2, <1>3, <1>4, <1>5, <1>6, EventFacts

\* No step of the worker touches what the screen has drawn, nor the connection.
LEMMA WorkWorks ==
  ASSUME TypeOK, WorkerInv, HistoryInv, Work
  PROVE  /\ Worked /\ UNCHANGED <<cached, link, links, lost>>
         /\ queue' \in Seq(Events) /\ Len(queue') <= QueueSize
         /\ \/ queue' = queue /\ AwaitKept /\ worker'.client = worker.client
            \/ Receive
  <1>1. queue \in Seq(Events) /\ Len(queue) <= QueueSize /\ QueueSize \in Nat
    BY Bounds DEF TypeOK
  <1>2. CASE Tick
    BY <1>1, <1>2, TickWorks DEF Tick
  <1>3. CASE Write
    BY <1>1, <1>3, WriteWorks DEF Write
  <1>4. CASE Waits
    BY <1>1, <1>4, WaitsWorks DEF Waits
  <1>5. CASE Receive
    <2>1. queue' \in Seq(Events) /\ Len(queue') = Len(queue) - 1 /\ Len(queue) \in Nat
      BY <1>1, <1>5, TailFacts DEF Receive
    <2>2. UNCHANGED <<cached, link, links, lost>>
      BY <1>5 DEF Receive
    <2>3. Worked
      BY <1>5, ReceiveWorks
    <2> QED BY <1>1, <1>5, <2>1, <2>2, <2>3
  <1> QED BY <1>2, <1>3, <1>4, <1>5 DEF Work

-----------------------------------------------------------------------------
(* Types, the history and what the worker holds *)

\* The screen: no state but its own, where a tap may remove the alert it has drawn.
LEMMA ScreenFacts ==
  ASSUME TypeOK, HistoryInv, Screen
  PROVE  /\ ui' \in UiStates /\ ui'.connected = ui.connected /\ ui'.music = ui.music
         /\ Selected(ui') /\ Len(ui'.alerts) <= Len(ui.alerts)
         /\ cached' \in [alerts : Seq(AlertIds), index : Nat]
         /\ ui'.seen => cached'.alerts = ui'.alerts /\ cached'.index = ui'.index
         /\ \A S : ui.alerts \in Seq(S) => ui'.alerts \in Seq(S)
         /\ \/ ui'.alerts = ui.alerts
            \/ /\ ui.alerts = cached.alerts /\ ui'.alerts = RemoveAt(cached.alerts, cached.index + 1)
               /\ ~ui'.seen
  <1>1. /\ ui \in UiStates /\ cached \in [alerts : Seq(AlertIds), index : Nat]
        /\ ui.alerts \in Seq(AlertIds) /\ ui.index \in Nat /\ Len(ui.alerts) \in Nat
        /\ Selected(ui)
    BY LenProperties DEF TypeOK, UiStates, HistoryInv
  <1>2. CASE \E a \in Actions : ui' = UiRequest(ui, a) /\ UNCHANGED cached
    <2>1. Kept(ui, ui') /\ ui'.music = ui.music
      BY <1>1, <1>2, RequestFacts
    <2> QED BY <1>1, <1>2, <2>1 DEF Kept, HistoryInv, Selected
  <1>3. CASE ui' = UiDismiss(ui) /\ UNCHANGED cached
    <2>1. /\ ui' \in UiStates /\ ui'.connected = ui.connected /\ ui'.music = ui.music
          /\ Selected(ui') /\ Len(ui'.alerts) <= Len(ui.alerts)
          /\ \A S : ui.alerts \in Seq(S) => ui'.alerts \in Seq(S)
          /\ \/ ui' = ui
             \/ /\ ui.seen /\ ui.alerts # <<>> /\ ui'.alerts = RemoveAt(ui.alerts, ui.index + 1)
                /\ ~ui'.seen
      BY <1>1, <1>3, DismissFacts
    <2> QED BY <1>1, <1>3, <2>1 DEF HistoryInv
  <1>4. CASE ui' \in {UiStep(ui, 1), UiStep(ui, -1)} /\ UNCHANGED cached
    <2>1. /\ ui' \in UiStates /\ ui'.connected = ui.connected /\ ui'.music = ui.music
          /\ Selected(ui') /\ ui'.alerts = ui.alerts
          /\ ui' = ui \/ ~ui'.seen
      BY <1>1, <1>4, StepFacts
    <2> QED BY <1>1, <1>4, <2>1 DEF HistoryInv
  <1>5. CASE ui' = UiDrawn(ui) /\ cached' = [alerts |-> ui.alerts, index |-> ui.index]
    <2>1. /\ ui' \in UiStates /\ ui'.connected = ui.connected /\ ui'.music = ui.music
          /\ ui'.alerts = ui.alerts /\ ui'.index = ui.index
      BY <1>1, <1>5 DEF UiDrawn, UiStates
    <2> QED BY <1>1, <1>5, <2>1 DEF Selected
  <1> QED BY <1>2, <1>3, <1>4, <1>5 DEF Screen

\* The callbacks: the phone's connection reaches the screen at once, the worker by an event.
LEMMA HostFacts ==
  ASSUME TypeOK, Host
  PROVE  /\ UNCHANGED <<cached, worker, parser, app, ams>>
         /\ links' \in 0 .. MaxLinks /\ link' \in 0 .. links'
         /\ subs' \in 0 .. MaxLinks /\ phone' \in PhoneType
         /\ \/ Connects \/ Disconnects
            \/ /\ UNCHANGED <<ui, link, links, lost>>
               /\ \E e \in Events : ~IsConnection(e) /\ Enqueue(e)
  <1>1. /\ phone \in PhoneType /\ subs \in 0 .. MaxLinks /\ links \in 0 .. MaxLinks /\ MaxLinks \in Nat
        /\ link \in 0 .. links /\ 0 \in 0 .. MaxLinks
    BY Bounds DEF TypeOK
  <1>2. CASE Connects
    <2>1. links' \in 0 .. MaxLinks /\ link' \in 0 .. links'
      BY <1>1, <1>2 DEF Connects
    <2> QED BY <1>1, <1>2, <2>1 DEF Connects
  <1>3. CASE Disconnects
    <2>1. link' = 0 /\ subs' = 0 /\ phone' = Idle /\ UNCHANGED <<cached, links, worker, parser, app, ams>>
      BY <1>3, Zenon DEF Disconnects
    <2>2. 0 \in 0 .. links
      BY <1>1
    <2> QED BY <1>1, <1>3, <2>1, <2>2, PhoneFacts
  <1>4. ASSUME NEW uid \in Uids, Notifies(uid)
        PROVE  /\ UNCHANGED <<ui, cached, link, links, lost, subs, worker, parser, app, ams>>
               /\ phone' \in PhoneType
               /\ \E e \in Events : ~IsConnection(e) /\ Enqueue(e)
    <2>1. PICK removed \in BOOLEAN :
            /\ phone' = [phone EXCEPT !.notices = @ + 1,
                                      !.alerts = IF removed THEN @ \ {uid} ELSE @ \cup {uid}]
            /\ Enqueue(<<IF removed THEN "Removed" ELSE "Source", uid>>)
      BY <1>4 DEF Notifies
    <2>2. phone' \in PhoneType
      <3>1. (IF removed THEN phone.alerts \ {uid} ELSE phone.alerts \cup {uid}) \in SUBSET Uids
        BY <1>1 DEF PhoneType
      <3> QED BY <1>1, <2>1, <3>1, PhoneFacts
    <2>3. <<IF removed THEN "Removed" ELSE "Source", uid>> \in Events
      BY DEF Events
    <2>4. ~IsConnection(<<IF removed THEN "Removed" ELSE "Source", uid>>)
      BY DEF IsConnection
    <2> QED BY <1>4, <2>1, <2>2, <2>3, <2>4 DEF Notifies
  <1>5. CASE Replies
    <2>1. phone.air \in Seq(DataEvents) /\ phone.air # <<>>
      BY <1>1, <1>5 DEF Replies, PhoneType
    <2>2. Head(phone.air) \in DataEvents
      BY <2>1, TailFacts
    <2>3. Head(phone.air) \in Events /\ ~IsConnection(Head(phone.air))
      BY <2>2 DEF Events, DataEvents, IsConnection
    <2>4. phone' \in PhoneType
      BY <1>1, <1>5, PhoneFacts DEF Replies
    <2> QED BY <1>1, <1>5, <2>3, <2>4 DEF Replies
  <1>6. CASE MediaEvents
    <2>1. phone' \in PhoneType
      BY <1>1, <1>6, PhoneFacts DEF MediaEvents
    <2>2. \A commands \in {{}, Actions} :
            <<"Commands", commands>> \in Events /\ ~IsConnection(<<"Commands", commands>>)
      BY DEF Events, IsConnection
    <2>3. <<"Services", link>> \in Events /\ ~IsConnection(<<"Services", link>>)
      <3>1. link \in 1 .. MaxLinks
        BY <1>1, <1>6 DEF MediaEvents
      <3> QED BY <3>1 DEF Events, IsConnection
    <2> QED BY <1>1, <1>6, <2>1, <2>2, <2>3 DEF MediaEvents
  <1> QED BY <1>1, <1>2, <1>3, <1>4, <1>5, <1>6 DEF Host

LEMMA InitHolds == Init => IndInv
  <1> SUFFICES ASSUME Init PROVE IndInv
    OBVIOUS
  <1>1. /\ queue = <<>> /\ ui = UiInit /\ cached = [alerts |-> <<>>, index |-> 0]
        /\ link = 0 /\ links = 0 /\ lost = FALSE /\ phone = Idle /\ subs = 0
        /\ parser = NoAlert /\ app = NoApp /\ ams = NoAms
        /\ worker = [pc |-> "tick", client |-> 0, control |-> 0, held |-> NoAction]
    BY DEF Init
  <1>2. 0 \in 0 .. MaxLinks /\ 0 \in 0 .. 0 /\ NoMusic \in Musics
    BY Bounds DEF NoMusic, Musics
  <1>3. /\ ui \in UiStates /\ ui.alerts = <<>> /\ ui.index = 0 /\ ~ui.connected
    BY <1>1, <1>2, EmptySeq DEF UiInit, UiStates, NoEvents
  <1>4. cached \in [alerts : Seq(AlertIds), index : Nat] /\ cached.alerts = <<>> /\ cached.index = 0
    BY <1>1, EmptySeq
  <1>5. worker \in WorkerType /\ worker.client = 0 /\ worker.control = 0
    BY <1>1, <1>2 DEF WorkerType
  <1>6. ams \in AmsType /\ ams.remote = 0 /\ ~ams.music.available
    BY <1>1, <1>2 DEF AmsType, NoAms, NoMusic
  <1>7. phone \in PhoneType
    BY <1>1, EmptySeq DEF Idle, PhoneType
  <1>8. queue \in Seq(Events) /\ Len(queue) = 0
    BY <1>1, EmptySeq
  <1>9. TypeOK
    <2>1. links \in 0 .. MaxLinks /\ link \in 0 .. links /\ subs \in 0 .. MaxLinks /\ lost \in BOOLEAN
      BY <1>1, <1>2
    <2>2. parser \in ParserType /\ app \in AppType
      BY <1>1, ForgetFacts
    <2>3. Len(queue) <= QueueSize
      BY <1>8, Bounds
    <2> QED BY <1>3, <1>4, <1>5, <1>6, <1>7, <1>8, <2>1, <2>2, <2>3 DEF TypeOK
  <1>10. HistoryInv
    BY <1>3, <1>4, Bounds, EmptySeq DEF HistoryInv, Selected
  <1>11. WorkerInv
    BY <1>1, <1>3, <1>5, <1>6, ForgetFacts DEF WorkerInv
  <1>12. QueueInv
    <2>1. ReadyAt(1)
      BY <1>5 DEF ReadyAt
    <2>2. ui.alerts \in Seq(Uids)
      BY <1>3, EmptySeq
    <2> QED BY <1>1, <1>3, <1>5, <1>8, <2>1, <2>2, ForgetFacts DEF QueueInv
  <1> QED BY <1>9, <1>10, <1>11, <1>12 DEF IndInv

\* Types and what relates the parts of the state outside the queue.
LEMMA PartsStep ==
  ASSUME TypeOK, HistoryInv, WorkerInv, [Next]_vars
  PROVE  TypeOK' /\ HistoryInv' /\ WorkerInv'
  <1>1. /\ ui \in UiStates /\ queue \in Seq(Events) /\ Len(queue) <= QueueSize /\ lost \in BOOLEAN
        /\ links \in 0 .. MaxLinks /\ link \in 0 .. links
        /\ cached \in [alerts : Seq(AlertIds), index : Nat]
        /\ worker \in WorkerType /\ parser \in ParserType /\ app \in AppType /\ ams \in AmsType
        /\ phone \in PhoneType /\ subs \in 0 .. MaxLinks
        /\ Len(ui.alerts) \in Nat /\ Capacity \in Nat
    BY Bounds, LenProperties DEF TypeOK, UiStates
  <1>2. CASE Connects \/ Disconnects
    <2>1. PICK up \in BOOLEAN, e \in Events :
            /\ ui' = UiConnection(ui, up) /\ Enqueue(e) /\ (up <=> link' # 0)
            /\ lost' \in BOOLEAN
      <3>1. CASE Connects
        <4>1. links + 1 \in 1 .. MaxLinks /\ link' = links + 1 /\ MaxLinks \in Nat
          BY <1>1, <3>1, Bounds DEF Connects
        <4>2. ui' = UiConnection(ui, TRUE) /\ Enqueue(<<"Connected", links + 1>>)
          BY <3>1 DEF Connects
        <4>3. <<"Connected", links + 1>> \in Events
          BY <4>1 DEF Events
        <4>4. lost' \in BOOLEAN
          BY <3>1, Zenon DEF Connects
        <4>5. links + 1 # 0
          BY <4>1
        <4> QED BY <4>1, <4>2, <4>3, <4>4, <4>5
      <3>2. CASE Disconnects
        <4>1. link' = 0 /\ ui' = UiConnection(ui, FALSE) /\ Enqueue(<<"Disconnected", link>>) /\ link # 0
          BY <3>2, Zenon DEF Disconnects
        <4>2. link \in 1 .. MaxLinks
          BY <1>1, <4>1, Bounds
        <4>3. <<"Disconnected", link>> \in Events
          BY <4>2 DEF Events
        <4>4. lost' \in BOOLEAN
          BY <3>2, Zenon DEF Disconnects
        <4> QED BY <4>1, <4>3, <4>4
      <3> QED BY <1>2, <3>1, <3>2
    <2>2. /\ UNCHANGED <<cached, worker, parser, app, ams>>
          /\ links' \in 0 .. MaxLinks /\ link' \in 0 .. links'
          /\ subs' \in 0 .. MaxLinks /\ phone' \in PhoneType
      BY <1>2, HostFacts DEF Host
    <2>3. /\ ui' \in UiStates /\ ui'.alerts = ui.alerts /\ ui'.index = ui.index
          /\ (ui'.connected <=> link' # 0) /\ ~ui'.seen
      BY <1>1, <2>1, ConnectionFacts
    <2>4. queue' \in Seq(Events) /\ Len(queue') <= QueueSize
      BY <1>1, <2>1, EnqueueFacts
    <2>5. TypeOK'
      BY <1>1, <2>1, <2>2, <2>3, <2>4 DEF TypeOK
    <2>6. HistoryInv'
      BY <2>3 DEF HistoryInv, Selected
    <2>7. WorkerInv'
      BY <2>2, <2>3 DEF WorkerInv
    <2> QED BY <2>5, <2>6, <2>7
  <1>3. CASE Host /\ ~Connects /\ ~Disconnects
    <2>1. /\ UNCHANGED <<cached, worker, parser, app, ams, ui, link, links, lost>>
          /\ subs' \in 0 .. MaxLinks /\ phone' \in PhoneType
          /\ \E e \in Events : Enqueue(e)
      BY <1>3, HostFacts
    <2>2. queue' \in Seq(Events) /\ Len(queue') <= QueueSize
      BY <1>1, <2>1, EnqueueFacts
    <2>3. TypeOK'
      BY <1>1, <2>1, <2>2 DEF TypeOK
    <2>4. HistoryInv' /\ WorkerInv'
      BY <2>1 DEF HistoryInv, Selected, WorkerInv
    <2> QED BY <2>3, <2>4
  <1>4. CASE Screen
    <2>1. UNCHANGED <<link, links, queue, lost, phone, subs, worker, parser, app, ams>>
      BY <1>4 DEF Screen
    <2>2. /\ ui' \in UiStates /\ ui'.connected = ui.connected
          /\ Selected(ui') /\ Len(ui'.alerts) <= Len(ui.alerts)
          /\ cached' \in [alerts : Seq(AlertIds), index : Nat]
          /\ ui'.seen => cached'.alerts = ui'.alerts /\ cached'.index = ui'.index
      BY <1>4, ScreenFacts
    <2>3. Len(ui'.alerts) \in Nat
      BY <2>2, LenProperties DEF UiStates
    <2>4. TypeOK'
      BY <1>1, <2>1, <2>2 DEF TypeOK
    <2>5. HistoryInv'
      BY <1>1, <2>2, <2>3 DEF HistoryInv, Selected
    <2>6. WorkerInv'
      BY <2>1, <2>2 DEF WorkerInv
    <2> QED BY <2>4, <2>5, <2>6
  <1>5. CASE Ages
    <2>1. UNCHANGED <<ui, cached, link, links, queue, lost, phone, subs, worker, parser, ams>>
      BY <1>5 DEF Ages
    <2>2. app' \in AppType
      BY <1>1, <1>5 DEF Ages, AppType
    <2>3. TypeOK'
      BY <1>1, <2>1, <2>2 DEF TypeOK
    <2>4. HistoryInv' /\ WorkerInv'
      BY <2>1 DEF HistoryInv, Selected, WorkerInv
    <2> QED BY <2>3, <2>4
  <1>6. CASE Work
    <2>1. /\ Worked /\ UNCHANGED <<cached, link, links, lost>>
          /\ queue' \in Seq(Events) /\ Len(queue') <= QueueSize
      BY <1>6, WorkWorks
    <2>2. TypeOK'
      BY <1>1, <2>1 DEF TypeOK, Worked, Grown
    <2>3. HistoryInv'
      BY <2>1 DEF HistoryInv, Worked, Grown, Selected
    <2>4. WorkerInv'
      BY <2>1 DEF WorkerInv, Worked, Grown
    <2> QED BY <2>2, <2>3, <2>4
  <1>7. CASE UNCHANGED vars
    BY <1>7 DEF vars, TypeOK, HistoryInv, Selected, WorkerInv
  <1> QED BY <1>2, <1>3, <1>4, <1>5, <1>6, <1>7 DEF Next

-----------------------------------------------------------------------------
(* The queue *)

\* Neither the queue nor the worker's connection changes.
LEMMA SameQueue ==
  ASSUME queue' = queue, worker'.client = worker.client
  PROVE  /\ \A i : ReadyAt(i)' <=> ReadyAt(i)
         /\ \A i : QuietFrom(i)' <=> QuietFrom(i)
  BY DEF ReadyAt, QuietFrom

\* One more event that is not about a connection.
LEMMA PlainQueue ==
  ASSUME TypeOK, QueueInv, UNCHANGED <<link, lost, worker, app, parser, ui, ams>>,
         NEW e \in Events, ~IsConnection(e), Enqueue(e)
  PROVE  QueueInv'
  <1> SUFFICES ASSUME ~lost PROVE QueueInv'
    BY DEF QueueInv
  <1>1. PICK n \in Nat : n = Len(queue)
    BY LenProperties DEF TypeOK
  <1>2. CASE queue' = queue
    BY <1>2, SameQueue DEF QueueInv
  <1>3. CASE /\ Len(queue') = n + 1 /\ queue'[n + 1] = e
             /\ \A i \in 1 .. n : queue'[i] = queue[i]
    <2>1. \A i \in 1 .. n + 1 : ReadyAt(i) => ReadyAt(i)'
      BY <1>1, <1>3 DEF ReadyAt
    <2>2. ReadyAt(n + 1) => ReadyAt(n + 2)'
      BY <1>1, <1>3 DEF ReadyAt, IsConnection
    <2>3. \A i \in 1 .. n + 1 : QuietFrom(i)' <=> QuietFrom(i)
      BY <1>1, <1>3 DEF QuietFrom, IsConnection
    <2>4. \A i \in 1 .. Len(queue') : queue'[i][1] = "Connected" => ReadyAt(i)'
      BY <1>1, <1>3, <2>1 DEF QueueInv, IsConnection
    <2>5. (link = 0 => ReadyAt(Len(queue) + 1))'
      <3>1. Len(queue') + 1 = n + 2
        BY <1>1, <1>3
      <3>2. ReadyAt(n + 2)' => ReadyAt(Len(queue) + 1)'
        BY <3>1 DEF ReadyAt
      <3> QED BY <1>1, <2>2, <3>2 DEF QueueInv
    <2>6. \A i \in 1 .. Len(queue') :
            IsConnection(queue'[i]) /\ QuietFrom(i + 1)' =>
              link' = IF queue'[i][1] = "Connected" THEN queue'[i][2] ELSE 0
      <3> TAKE i \in 1 .. Len(queue')
      <3>1. CASE i = n + 1
        BY <1>3, <3>1
      <3>2. CASE i \in 1 .. n
        <4>1. i + 1 \in 1 .. n + 1
          BY <1>1, <3>2
        <4> QED BY <1>1, <1>3, <2>3, <3>2, <4>1 DEF QueueInv
      <3> QED BY <1>1, <1>3, <3>1, <3>2
    <2>7. QuietFrom(1)' => worker'.client = link' /\ (ui'.connected => ui'.music = ams'.music)
      BY <1>1, <2>3 DEF QueueInv
    <2> QED BY <2>4, <2>5, <2>6, <2>7 DEF QueueInv
  <1> QED BY <1>1, <1>2, <1>3, EnqueueFacts DEF TypeOK

\* One more event about a connection, which is the last of them, or is lost.
LEMMA ConnectionQueue ==
  ASSUME TypeOK, QueueInv, UNCHANGED <<worker, app, parser>>, ui'.alerts = ui.alerts,
         Connects \/ Disconnects
  PROVE  QueueInv'
  <1> SUFFICES ASSUME ~lost' PROVE QueueInv'
    BY DEF QueueInv
  <1>1. PICK n \in Nat : n = Len(queue)
    BY LenProperties DEF TypeOK
  <1>2. links \in 0 .. MaxLinks /\ link \in 0 .. links /\ MaxLinks \in Nat
    BY Bounds DEF TypeOK
  <1>3. PICK e \in Events :
          /\ Enqueue(e) /\ ~lost /\ Len(queue) # QueueSize
          /\ \/ e[1] = "Connected" /\ e[2] = link' /\ link = 0 /\ link' # 0
             \/ e[1] = "Disconnected" /\ link' = 0
    <2>1. CASE Connects
      <3>1. links + 1 \in 1 .. MaxLinks /\ links + 1 # 0
        BY <1>2, <2>1 DEF Connects
      <3>2. /\ link = 0 /\ link' = links + 1 /\ Enqueue(<<"Connected", links + 1>>)
            /\ ~lost /\ Len(queue) # QueueSize
        BY <2>1, Zenon DEF Connects
      <3>3. <<"Connected", links + 1>> \in Events
        BY <3>1 DEF Events
      <3> QED BY <3>1, <3>2, <3>3
    <2>2. CASE Disconnects
      <3>1. /\ link # 0 /\ link' = 0 /\ Enqueue(<<"Disconnected", link>>)
            /\ ~lost /\ Len(queue) # QueueSize
        BY <2>2, Zenon DEF Disconnects
      <3>2. link \in 1 .. MaxLinks
        BY <1>2, <3>1
      <3>3. <<"Disconnected", link>> \in Events
        BY <3>2 DEF Events
      <3> QED BY <3>1, <3>3
    <2> QED BY <2>1, <2>2
  <1>4. /\ Len(queue') = n + 1 /\ queue'[n + 1] = e
        /\ \A i \in 1 .. n : queue'[i] = queue[i]
    BY <1>1, <1>3, EnqueueFacts DEF TypeOK
  <1>5. \A i \in 1 .. n + 1 : ReadyAt(i) => ReadyAt(i)'
    BY <1>1, <1>4 DEF ReadyAt
  <1>6. \A i \in 1 .. n + 1 : ~QuietFrom(i)'
    <2> SUFFICES ASSUME NEW i \in 1 .. n + 1, QuietFrom(i)' PROVE FALSE
      OBVIOUS
    <2>1. n + 1 \in i .. Len(queue')
      BY <1>4
    <2>2. ~IsConnection(queue'[n + 1])
      BY <2>1 DEF QuietFrom, IsConnection
    <2> QED BY <1>3, <1>4, <2>2 DEF IsConnection
  <1>7. \A i \in 1 .. Len(queue') : queue'[i][1] = "Connected" => ReadyAt(i)'
    <2> TAKE i \in 1 .. Len(queue')
    <2>1. CASE i = n + 1
      BY <1>1, <1>3, <1>4, <1>5, <2>1 DEF QueueInv
    <2>2. CASE i \in 1 .. n
      BY <1>1, <1>3, <1>4, <1>5, <2>2 DEF QueueInv
    <2> QED BY <1>4, <2>1, <2>2
  <1>8. (link = 0 => ReadyAt(Len(queue) + 1))'
    <2> SUFFICES ASSUME link' = 0 PROVE ReadyAt(Len(queue) + 1)'
      OBVIOUS
    <2>1. e[1] = "Disconnected"
      BY <1>3
    <2>2. /\ n + 1 \in 1 .. (Len(queue') + 1) - 1
          /\ \A k \in (n + 1) + 1 .. (Len(queue') + 1) - 1 : queue'[k][1] # "Connected"
      BY <1>4
    <2> QED BY <1>4, <2>1, <2>2 DEF ReadyAt
  <1>9. \A i \in 1 .. Len(queue') :
          IsConnection(queue'[i]) /\ QuietFrom(i + 1)' =>
            link' = IF queue'[i][1] = "Connected" THEN queue'[i][2] ELSE 0
    <2> TAKE i \in 1 .. Len(queue')
    <2>1. CASE i = n + 1
      BY <1>3, <1>4, <2>1
    <2>2. CASE i \in 1 .. n
      <3>1. i + 1 \in 1 .. n + 1
        BY <2>2
      <3> QED BY <1>6, <3>1
    <2> QED BY <1>4, <2>1, <2>2
  <1>10. ~QuietFrom(1)'
    BY <1>6
  <1>11. /\ app'.pending => worker'.client # 0 /\ parser'.uid \in Uids
         /\ ui'.alerts \in Seq(Uids)
    BY <1>3 DEF QueueInv
  <1> QED BY <1>7, <1>8, <1>9, <1>10, <1>11 DEF QueueInv

\* The worker takes the first event: what held from the second place on holds from the first.
LEMMA TakenQueue ==
  ASSUME TypeOK, HistoryInv, WorkerInv, QueueInv, Receive
  PROVE  QueueInv'
  <1> SUFFICES ASSUME ~lost PROVE QueueInv'
    BY DEF QueueInv, Receive
  <1>1. PICK n \in Nat : n = Len(queue)
    BY LenProperties DEF TypeOK
  <1>2. PICK e \in Events : e = Head(queue)
    BY TailFacts DEF TypeOK, Receive
  <1>3. /\ n > 0 /\ e = queue[1] /\ Len(queue') = n - 1
        /\ \A i \in 1 .. n - 1 : queue'[i] = queue[i + 1]
    BY <1>1, <1>2, TailFacts DEF TypeOK, Receive
  <1>4. /\ Worked /\ link' = link
        /\ e[1] # "Connected" => AwaitKept
        /\ e[1] = "Connected" => app' = app
        /\ worker'.client = IF e[1] = "Connected" THEN e[2]
                            ELSE IF e[1] = "Disconnected" THEN 0 ELSE worker.client
        /\ e[1] \in {"Connected", "Disconnected"} => (ui.connected => ui'.music = ams'.music)
    BY <1>2, ReceiveWorks DEF Receive
  <1>5. \A i \in 1 .. n : ReadyAt(i + 1) => ReadyAt(i)'
    <2> SUFFICES ASSUME NEW i \in 1 .. n, ReadyAt(i + 1) PROVE ReadyAt(i)'
      OBVIOUS
    <2>1. ASSUME NEW j \in 1 .. i, queue[j][1] = "Disconnected",
                 \A k \in j + 1 .. i : queue[k][1] # "Connected"
          PROVE  ReadyAt(i)'
      <3>1. CASE j = 1
        <4>1. worker'.client = 0
          BY <1>3, <1>4, <2>1, <3>1
        <4>2. \A k \in 1 .. i - 1 : queue'[k][1] # "Connected"
          BY <1>3, <2>1, <3>1
        <4> QED BY <4>1, <4>2 DEF ReadyAt
      <3>2. CASE j > 1
        <4>1. j - 1 \in 1 .. i - 1 /\ queue'[j - 1][1] = "Disconnected"
          BY <1>3, <2>1, <3>2
        <4>2. \A k \in (j - 1) + 1 .. i - 1 : queue'[k][1] # "Connected"
          BY <1>3, <2>1, <3>2
        <4> QED BY <4>1, <4>2 DEF ReadyAt
      <3> QED BY <3>1, <3>2
    <2>2. ASSUME worker.client = 0, \A k \in 1 .. i : queue[k][1] # "Connected"
          PROVE  ReadyAt(i)'
      <3>1. worker'.client = 0
        BY <1>3, <1>4, <2>2
      <3>2. \A k \in 1 .. i - 1 : queue'[k][1] # "Connected"
        <4> TAKE k \in 1 .. i - 1
        <4>1. k \in 1 .. n - 1 /\ k + 1 \in 1 .. i
          OBVIOUS
        <4> QED BY <1>3, <2>2, <4>1
      <3> QED BY <3>1, <3>2 DEF ReadyAt
    <2>3. (i + 1) - 1 = i
      OBVIOUS
    <2> QED BY <2>1, <2>2, <2>3 DEF ReadyAt
  <1>6. \A i \in 1 .. n : QuietFrom(i)' => QuietFrom(i + 1)
    <2> SUFFICES ASSUME NEW i \in 1 .. n, QuietFrom(i)', NEW k \in i + 1 .. n
                 PROVE  ~IsConnection(queue[k])
      BY <1>1 DEF QuietFrom
    <2>1. k - 1 \in i .. Len(queue') /\ queue'[k - 1] = queue[k]
      BY <1>3
    <2> QED BY <2>1 DEF QuietFrom, IsConnection
  <1>7. \A i \in 1 .. Len(queue') : queue'[i][1] = "Connected" => ReadyAt(i)'
    <2> TAKE i \in 1 .. Len(queue')
    <2>1. i \in 1 .. n - 1 /\ i + 1 \in 1 .. n /\ queue'[i] = queue[i + 1]
      BY <1>3
    <2> QED BY <1>1, <1>5, <2>1 DEF QueueInv
  <1>8. (link = 0 => ReadyAt(Len(queue) + 1))'
    <2>1. n \in 1 .. n /\ Len(queue') + 1 = n
      BY <1>3
    <2>2. ReadyAt(n)' => ReadyAt(Len(queue) + 1)'
      BY <2>1 DEF ReadyAt
    <2> QED BY <1>1, <1>4, <1>5, <2>1, <2>2 DEF QueueInv
  <1>9. \A i \in 1 .. Len(queue') :
          IsConnection(queue'[i]) /\ QuietFrom(i + 1)' =>
            link' = IF queue'[i][1] = "Connected" THEN queue'[i][2] ELSE 0
    <2> TAKE i \in 1 .. Len(queue')
    <2>1. i + 1 \in 1 .. n /\ queue'[i] = queue[i + 1]
      BY <1>3
    <2>2. QuietFrom(i + 1)' => QuietFrom((i + 1) + 1)
      BY <1>6, <2>1
    <2> QED BY <1>1, <1>4, <2>1, <2>2 DEF QueueInv
  <1>10. QuietFrom(1)' => worker'.client = link' /\ (ui'.connected => ui'.music = ams'.music)
    <2> SUFFICES ASSUME QuietFrom(1)'
                 PROVE  worker'.client = link' /\ (ui'.connected => ui'.music = ams'.music)
      OBVIOUS
    <2>1. 1 \in 1 .. n /\ QuietFrom(2)
      BY <1>3, <1>6
    <2>2. ui'.connected = ui.connected
      BY <1>4 DEF Worked, Grown
    <2>3. CASE IsConnection(e)
      <3>1. link = IF e[1] = "Connected" THEN e[2] ELSE 0
        BY <1>1, <1>3, <2>1, <2>3 DEF QueueInv
      <3> QED BY <1>4, <2>2, <2>3, <3>1 DEF IsConnection
    <2>4. CASE ~IsConnection(e)
      <3>1. QuietFrom(1)
        <4> SUFFICES ASSUME NEW k \in 1 .. n PROVE ~IsConnection(queue[k])
          BY <1>1 DEF QuietFrom
        <4>1. k = 1 \/ k \in 2 .. n
          OBVIOUS
        <4> QED BY <1>1, <1>3, <2>1, <2>4, <4>1 DEF QuietFrom
      <3>2. worker.client = link /\ (ui.connected => ui.music = ams.music)
        BY <3>1 DEF QueueInv
      <3> QED BY <1>4, <2>2, <2>4, <3>2 DEF IsConnection, Worked
    <2> QED BY <2>3, <2>4
  <1>11. app'.pending => worker'.client # 0 /\ parser'.uid \in Uids
    <2>1. CASE e[1] = "Connected"
      <3>1. ReadyAt(1)
        BY <1>1, <1>3, <2>1 DEF QueueInv
      <3>2. worker.client = 0
        BY <3>1 DEF ReadyAt
      <3> QED BY <1>4, <2>1, <3>2 DEF QueueInv
    <2>2. CASE e[1] # "Connected"
      BY <1>4, <2>2 DEF QueueInv, AwaitKept
    <2> QED BY <2>1, <2>2
  <1>12. ui'.alerts \in Seq(Uids)
    BY <1>4 DEF QueueInv, Worked
  <1> QED BY <1>7, <1>8, <1>9, <1>10, <1>11, <1>12 DEF QueueInv

LEMMA QueueStep ==
  ASSUME IndInv, [Next]_vars
  PROVE  QueueInv'
  <1> USE DEF IndInv
  <1>1. CASE Host
    <2>1. CASE Connects \/ Disconnects
      <3>1. UNCHANGED <<worker, app, parser>>
        BY <1>1, HostFacts
      <3>2. ui'.alerts = ui.alerts
        BY <2>1, ConnectionFacts DEF Connects, Disconnects, TypeOK
      <3> QED BY <2>1, <3>1, <3>2, ConnectionQueue
    <2>2. CASE ~Connects /\ ~Disconnects
      BY <1>1, <2>2, HostFacts, PlainQueue
    <2> QED BY <2>1, <2>2
  <1>2. CASE Screen
    <2>1. /\ UNCHANGED <<link, links, queue, lost, phone, subs, worker, parser, app, ams>>
          /\ ui'.connected = ui.connected /\ ui'.music = ui.music
          /\ \A S : ui.alerts \in Seq(S) => ui'.alerts \in Seq(S)
      BY <1>2, ScreenFacts DEF Screen
    <2> QED BY <2>1, SameQueue DEF QueueInv
  <1>3. CASE Ages
    <2>1. UNCHANGED <<ui, cached, link, links, queue, lost, phone, subs, worker, parser, ams>>
      BY <1>3 DEF Ages
    <2>2. app.pending
      BY <1>3 DEF Ages
    <2> QED BY <2>1, <2>2, SameQueue DEF QueueInv
  <1>4. CASE Work
    <2>1. CASE queue' = queue /\ AwaitKept /\ worker'.client = worker.client
      <3>1. Worked /\ UNCHANGED <<cached, link, links, lost>>
        BY <1>4, WorkWorks
      <3> QED BY <2>1, <3>1, SameQueue DEF QueueInv, Worked, Grown, AwaitKept
    <2>2. CASE Receive
      BY <2>2, TakenQueue
    <2> QED BY <1>4, <2>1, <2>2, WorkWorks
  <1>5. CASE UNCHANGED vars
    BY <1>5, SameQueue DEF vars, QueueInv
  <1> QED BY <1>1, <1>2, <1>3, <1>4, <1>5 DEF Next

-----------------------------------------------------------------------------

\* The inductive invariant of the notification and media services, in every behaviour.
THEOREM Inductive == Spec => []IndInv
  <1>1. Init => IndInv
    BY InitHolds
  <1>2. IndInv /\ [Next]_vars => IndInv'
    BY PartsStep, QueueStep DEF IndInv
  <1> QED BY <1>1, <1>2, PTL DEF Spec

\* As long as the queue had room for what it was told of connections, what the history shows is an
\* alert of the phone, never what is left of a request that was given up: ui_notification_add is
\* called with the fields of one that was answered.
THEOREM AlertsHaveFields == Spec => []NeverBlank
  <1>1. IndInv => NeverBlank
    <2> SUFFICES ASSUME IndInv, ~lost, Blank \in Range(ui.alerts) PROVE FALSE
      BY DEF NeverBlank
    <2>1. ui.alerts \in Seq(Uids)
      BY DEF IndInv, QueueInv
    <2>2. Range(ui.alerts) \subseteq Uids
      BY <2>1 DEF Range
    <2> QED BY <2>2, Bounds
  <1> QED BY <1>1, Inductive, PTL

\* With no event left in the queue, the music that the screen shows is the one of the connection
\* there is: a service of another, or one that is gone, was reset when the worker took its event.
THEOREM MusicFollowsTheLink == Spec => []MusicOfThisLink
  <1>1. IndInv => MusicOfThisLink
    <2> SUFFICES ASSUME IndInv, queue = <<>>, ~lost, ui.connected
                 PROVE  ui.music = ams.music /\ (ui.music.available => ams.remote = link)
      BY DEF MusicOfThisLink
    <2>1. QuietFrom(1)
      <3>1. Len(queue) = 0
        BY EmptySeq
      <3> QED BY <3>1 DEF QuietFrom
    <2> QED BY <2>1 DEF IndInv, QueueInv, WorkerInv
  <1> QED BY <1>1, Inductive, PTL

\* Whatever arrives between a drawing and a tap, the alert that a tap removes is the one drawn: the
\* revision that ui_notification_dismiss compares is that of the state which the screen copied.
THEOREM TapRemovesTheDrawn == Spec => DismissIsDisplayed
  <1> DEFINE Removal ==
        Len(ui'.alerts) < Len(ui.alerts) =>
          /\ ui.alerts = cached.alerts /\ ui'.alerts = RemoveAt(cached.alerts, cached.index + 1)
          /\ ui'.alerts # <<>> => ui'.index < Len(ui'.alerts)
  <1>1. IndInv /\ [Next]_vars => [Removal]_vars
    <2> SUFFICES ASSUME IndInv, [Next]_vars, Len(ui'.alerts) < Len(ui.alerts)
                 PROVE  Removal
      OBVIOUS
    <2>1. /\ TypeOK /\ HistoryInv /\ WorkerInv /\ Len(ui.alerts) \in Nat
      BY LenProperties DEF IndInv, TypeOK, UiStates
    <2>2. ui'.alerts # ui.alerts
      BY <2>1
    <2>3. CASE Host
      BY <2>1, <2>2, <2>3, HostFacts, ConnectionFacts DEF Connects, Disconnects, TypeOK
    <2>4. CASE Screen
      BY <2>1, <2>2, <2>4, ScreenFacts DEF Selected
    <2>5. CASE Work
      <3>1. Len(ui'.alerts) >= Len(ui.alerts) /\ ui' \in UiStates
        BY <2>1, <2>5, WorkWorks DEF Worked, Grown
      <3>2. Len(ui'.alerts) \in Nat
        BY <3>1, LenProperties DEF UiStates
      <3> QED BY <2>1, <3>1, <3>2
    <2>6. CASE Ages \/ UNCHANGED vars
      BY <2>2, <2>6 DEF Ages, vars
    <2> QED BY <2>3, <2>4, <2>5, <2>6 DEF Next
  <1> QED BY <1>1, Inductive, PTL DEF Spec, DismissIsDisplayed
=============================================================================
