----------------------- MODULE NetworkServiceProofs -----------------------
(***************************************************************************)
(* NetworkService: types and safety, for any number of changes of the      *)
(* saved network, with or without radio failures and in any sessions.      *)
(***************************************************************************)
EXTENDS NetworkService, FiniteSetTheorems, TLAPS

NetType == [seen : Revisions, saved : {"no", "noticed", "due"}, online : BOOLEAN,
            associating : BOOLEAN, attempt : 0 .. 2]
TimeType == [attempt : {"none", "shared", "own"}, try : Tries]
WeatherType == [ready : BOOLEAN, busy : BOOLEAN, shown : {0} \cup Revisions,
                locations : {0} \cup Revisions, try : Tries]
QueuesType == [requests : Jobs, job : Jobs, replies : Jobs]
RadioType == [mode : {"OFF", "STA", "AP", "AP_STA"}, ap : BOOLEAN,
              link : {"off", "begun", "up"}]
SessionType == [kind : {"none", "lan", "ap", "failed", "card"}, faces : BOOLEAN,
                portal : BOOLEAN]

\* One job in the queues exactly while the worker is busy.
OneJobIn(busy, queues) ==
  \/ /\ ~busy
     /\ queues.requests = NoJob /\ queues.job = NoJob /\ queues.replies = NoJob
  \/ /\ busy
     /\ \/ queues.requests # NoJob /\ queues.job = NoJob /\ queues.replies = NoJob
        \/ queues.requests = NoJob /\ queues.job # NoJob /\ queues.replies = NoJob
        \/ queues.requests = NoJob /\ queues.job = NoJob /\ queues.replies # NoJob

\* A job of the saved network was submitted when that network was in use.
Current(job, saved, seen) == job.revision <= saved /\ (job.revision = saved => seen = saved)

JobsCurrent(queues, saved, seen) ==
  /\ Current(queues.requests, saved, seen)
  /\ Current(queues.job, saved, seen)
  /\ Current(queues.replies, saved, seen)

\* What the jobs, the revisions and what is shown have to do with each other.
JobInv ==
  /\ OneJobIn(weather.busy, worker)
  /\ JobsCurrent(worker, revision, net.seen)
  /\ net.seen <= revision
  /\ ShownIsCurrent

\* What attempts, associations and sessions have to do with each other.  Without
\* a network in use there is an association only for an attempt that began it.
StationInv ==
  /\ TimeNeedsStation
  /\ ApKept
  /\ session.kind = "ap" => session.portal
  /\ net.seen = revision /\ ~config.enabled /\ radio.link # "off" => ntp.attempt = "own"
  /\ net.seen = revision /\ ntp.attempt = "own" => ~config.enabled

IndInv == TypeOK /\ JobInv /\ StationInv

-----------------------------------------------------------------------------
(* The operators *)

\* No job is a job, and every job has a revision.
LEMMA JobFacts ==
  /\ NoJob \in Jobs
  /\ NoJob.revision = 0
  /\ \A job \in Jobs : job.revision \in Nat /\ job.search \in BOOLEAN /\ job.ok \in BOOLEAN
  <1>1. NoJob \in Jobs
    BY DEF Jobs
  <1>2. NoJob.revision = 0 /\ NoJob.search \in BOOLEAN /\ NoJob.ok \in BOOLEAN
    BY DEF NoJob
  <1>3. \A job \in [revision : Revisions, search : BOOLEAN, ok : BOOLEAN] :
          job.revision \in Nat /\ job.search \in BOOLEAN /\ job.ok \in BOOLEAN
    BY NetworkConstants DEF Revisions
  <1> QED BY <1>1, <1>2, <1>3 DEF Jobs

LEMMA RevisionFacts == Revisions \subseteq Nat \ {0} /\ 1 \in Revisions
  BY NetworkConstants DEF Revisions

\* The radio's operators return radios.
LEMMA RadioFacts ==
  ASSUME TypeOK, NEW r \in RadioType, NEW mode \in {"OFF", "STA", "AP", "AP_STA"}
  PROVE  /\ InMode(r, mode) \in RadioType
         /\ Begun(r) \in RadioType /\ Left(r) \in RadioType
         /\ TimeStopped(r) \in RadioType /\ Restored(r) \in RadioType
  <1>1. Begun(r) \in RadioType /\ Left(r) \in RadioType
    BY DEF RadioType, Begun, Left
  <1>2. \A q \in RadioType, m \in {"OFF", "STA", "AP", "AP_STA"} : InMode(q, m) \in RadioType
    BY DEF RadioType, InMode, Access, Station
  <1> QED BY <1>1, <1>2 DEF TimeStopped, Restored

\* Taking the reply: the queues and what is known agree on the job, and nothing
\* of another network is shown.
LEMMA CompletedFacts ==
  ASSUME TypeOK, JobInv
  PROVE  /\ Completed \in WeatherType /\ Taken \in QueuesType
         /\ OneJobIn(Completed.busy, Taken)
         /\ JobsCurrent(Taken, revision, net.seen)
         /\ {Completed.shown, Completed.locations} \subseteq {0, net.seen}
         /\ weather.shown # 0 => Completed.shown # 0
  <1> USE JobFacts, RevisionFacts
  <1>1. /\ weather \in WeatherType /\ worker \in QueuesType
        /\ revision \in Revisions /\ net.seen \in Revisions
    BY DEF TypeOK, WeatherType, QueuesType
  <1>2. Taken \in QueuesType
    BY <1>1 DEF Taken, QueuesType
  <1>3. Completed \in WeatherType
    BY <1>1 DEF Completed, WeatherType
  <1>4. OneJobIn(Completed.busy, Taken)
    BY <1>1 DEF JobInv, OneJobIn, Completed, Taken, WeatherType, QueuesType
  <1>5. JobsCurrent(Taken, revision, net.seen)
    BY <1>1 DEF JobInv, JobsCurrent, Current, Taken, QueuesType
  <1>6. CASE worker.replies.revision # revision \/ worker.replies = NoJob
    BY <1>1, <1>2, <1>3, <1>4, <1>5, <1>6 DEF JobInv, ShownIsCurrent, Completed, WeatherType
  <1>7. CASE worker.replies.revision = revision /\ worker.replies # NoJob
    <2>1. net.seen = revision
      BY <1>7 DEF JobInv, JobsCurrent, Current
    <2> QED BY <1>1, <1>2, <1>3, <1>4, <1>5, <1>7, <2>1
            DEF JobInv, ShownIsCurrent, Completed, WeatherType
  <1> QED BY <1>6, <1>7

\* submit adds a job of the network in use to empty queues, or nothing.
LEMMA SubmitFacts ==
  ASSUME NEW known \in WeatherType, NEW queues \in QueuesType, NEW search \in BOOLEAN,
         revision \in Revisions, OneJobIn(known.busy, queues),
         JobsCurrent(queues, revision, net.seen), net.seen = revision,
         Submit(search, known, queues)
  PROVE  /\ weather' \in WeatherType /\ worker' \in QueuesType
         /\ OneJobIn(weather'.busy, worker')
         /\ JobsCurrent(worker', revision, net.seen)
         /\ weather'.shown = known.shown /\ weather'.locations = known.locations
  <1> DEFINE job == [revision |-> revision, search |-> search, ok |-> FALSE]
  <1>1. job \in Jobs /\ job.revision = revision /\ job # NoJob
    <2>1. job \in Jobs /\ job.revision = revision
      BY DEF Jobs
    <2> QED BY <2>1, JobFacts, RevisionFacts
  <1>2. CASE known.ready /\ ~known.busy
    <2>1. weather' = [known EXCEPT !.busy = TRUE] /\ worker' = [queues EXCEPT !.requests = job]
      BY <1>2 DEF Submit
    <2> HIDE DEF job
    <2>2. /\ weather' \in WeatherType /\ weather'.busy
          /\ weather'.shown = known.shown /\ weather'.locations = known.locations
      BY <2>1 DEF WeatherType
    <2>3. /\ worker' \in QueuesType /\ worker'.requests = job
          /\ worker'.job = queues.job /\ worker'.replies = queues.replies
      BY <1>1, <2>1 DEF QueuesType
    <2>4. OneJobIn(weather'.busy, worker')
      BY <1>1, <1>2, <2>2, <2>3 DEF OneJobIn
    <2>5. JobsCurrent(worker', revision, net.seen)
      BY <1>1, <2>3, RevisionFacts DEF JobsCurrent, Current
    <2> QED BY <2>2, <2>3, <2>4, <2>5
  <1>3. CASE ~(known.ready /\ ~known.busy)
    BY <1>3 DEF Submit
  <1> QED BY <1>2, <1>3

\* connect leaves a station that is not online and keeps the access point of a
\* session, whose mode it asks for.
LEMMA ConnectFacts ==
  ASSUME TypeOK, ApKept, session.kind = "ap" => session.portal,
         NEW n \in NetType, NEW r \in RadioType, r.ap = radio.ap, Connect(n, r)
  PROVE  /\ net' \in NetType /\ radio' \in RadioType
         /\ net'.seen = n.seen /\ ~net'.online
         /\ radio'.ap <=> session.kind = "ap"
  <1>1. PICK associating \in BOOLEAN :
          net' = [n EXCEPT !.attempt = 0, !.online = FALSE, !.associating = associating]
    BY DEF Connect
  <1>2. net' \in NetType /\ net'.seen = n.seen /\ ~net'.online
    <2>1. 0 \in 0 .. 2
      OBVIOUS
    <2>2. net' \in NetType
      BY <1>1, <2>1 DEF NetType
    <2>3. net'.seen = n.seen /\ net'.online = FALSE
      BY <1>1 DEF NetType
    <2> QED BY <2>2, <2>3
  <1>3. CASE radio' = r
    BY <1>2, <1>3 DEF ApKept
  <1>4. CASE radio' = Begun(InMode(r, IF session.portal THEN "AP_STA" ELSE "STA"))
    <2>1. radio' \in RadioType
      BY <1>4 DEF Begun, InMode, RadioType, Access, Station
    <2>2. radio'.ap <=> session.kind = "ap"
      BY <1>4 DEF Begun, InMode, RadioType, Access, ApKept
    <2> QED BY <1>2, <2>1, <2>2
  <1> QED BY <1>3, <1>4 DEF Connect

-----------------------------------------------------------------------------
(* Induction *)

\* TypeOK with its sets named.
LEMMA Types ==
  TypeOK <=> /\ config \in Configs /\ revision \in Revisions /\ net \in NetType
             /\ ntp \in TimeType /\ weather \in WeatherType /\ worker \in QueuesType
             /\ radio \in RadioType /\ session \in SessionType
  BY DEF TypeOK, NetType, TimeType, WeatherType, QueuesType, RadioType, SessionType

LEMMA TypesNext ==
  TypeOK' <=> /\ config' \in Configs /\ revision' \in Revisions /\ net' \in NetType
              /\ ntp' \in TimeType /\ weather' \in WeatherType /\ worker' \in QueuesType
              /\ radio' \in RadioType /\ session' \in SessionType
  BY DEF TypeOK, NetType, TimeType, WeatherType, QueuesType, RadioType, SessionType

LEMMA Ages == {0, 1, 2} = 0 .. 2
  OBVIOUS

\* network_begin leaves nothing under way but one association.
LEMMA InitInv == Init => IndInv
  <1> SUFFICES ASSUME Init PROVE IndInv
    OBVIOUS
  <1> USE JobFacts, RevisionFacts
  <1>1. PICK begun \in {config.enabled, config.enabled /\ ~RadioMayFail} :
          /\ net = [seen |-> 1, saved |-> "no", online |-> FALSE, associating |-> begun,
                    attempt |-> 0]
          /\ radio = [mode |-> IF begun THEN "STA" ELSE "OFF", ap |-> FALSE,
                      link |-> IF begun THEN "begun" ELSE "off"]
    BY DEF Init
  <1>2. config.enabled \in BOOLEAN
    BY DEF Init, Configs
  <1>3. begun \in BOOLEAN
    BY <1>2
  <1>4. begun => config.enabled
    BY <1>2
  <1>5. TypeOK
    <2>1. net \in NetType /\ ntp \in TimeType
      BY <1>1, <1>3 DEF Init, NetType, TimeType, Tries
    <2>2. weather \in WeatherType /\ worker \in QueuesType
      BY DEF Init, WeatherType, QueuesType, Tries
    <2>3. radio \in RadioType /\ session \in SessionType
      BY <1>1 DEF Init, RadioType, SessionType, NoSession
    <2> QED BY <2>1, <2>2, <2>3, Types DEF Init
  <1>6. JobInv
    BY <1>1 DEF Init, JobInv, OneJobIn, JobsCurrent, Current, ShownIsCurrent
  <1>7. StationInv
    <2>1. /\ net.seen = 1 /\ ~net.online /\ ~radio.ap /\ (radio.link # "off" => begun)
          /\ ntp.attempt = "none" /\ session.kind = "none"
      BY <1>1 DEF Init, NoSession
    <2> QED BY <1>4, <2>1 DEF StationInv, TimeNeedsStation, ApKept
  <1> QED BY <1>5, <1>6, <1>7 DEF IndInv

\* The steps that change nothing but the queues and what is known.
LEMMA JobsOnly ==
  ASSUME IndInv, UNCHANGED <<configVars, net, ntp, radio, session>>,
         weather' \in WeatherType, worker' \in QueuesType,
         OneJobIn(weather'.busy, worker'), JobsCurrent(worker', revision, net.seen),
         {weather'.shown, weather'.locations} \subseteq {0, net.seen}
  PROVE  IndInv'
  <1>1. TypeOK'
    BY Types DEF IndInv, TypeOK, configVars, WeatherType, QueuesType
  <1>2. JobInv'
    BY DEF IndInv, JobInv, ShownIsCurrent, configVars
  <1>3. StationInv'
    BY DEF IndInv, StationInv, TimeNeedsStation, ApKept, configVars
  <1> QED BY <1>1, <1>2, <1>3 DEF IndInv

\* The steps that leave the queues, and what is known but for the next try.
LEMMA JobsLeft ==
  ASSUME IndInv, worker' = worker, net'.seen = net.seen, revision' = revision,
         weather'.busy = weather.busy, weather'.shown = weather.shown,
         weather'.locations = weather.locations
  PROVE  JobInv'
  BY DEF IndInv, JobInv, ShownIsCurrent

\* The steps that only take the reply, in a poll that finds the network in use.
LEMMA JobsTaken ==
  ASSUME IndInv, worker' = Taken, weather' = Completed, net'.seen = net.seen,
         revision' = revision
  PROVE  JobInv' /\ weather' \in WeatherType /\ worker' \in QueuesType
  BY CompletedFacts DEF IndInv, JobInv, ShownIsCurrent

\* The worker moves the job from one queue to the other.
LEMMA WorkerInv == ASSUME IndInv, Worker PROVE IndInv'
  <1> USE JobFacts, RevisionFacts
  <1>1. weather \in WeatherType /\ worker \in QueuesType /\ weather' = weather
    BY Types DEF IndInv, Worker, WorkerTakes, WorkerReplies
  <1>2. CASE WorkerTakes
    <2>1. /\ worker'.requests = NoJob /\ worker'.job = worker.requests
          /\ worker'.replies = worker.replies /\ worker' \in QueuesType
      BY <1>1, <1>2 DEF WorkerTakes, QueuesType
    <2>2. OneJobIn(weather'.busy, worker') /\ JobsCurrent(worker', revision, net.seen)
      BY <1>1, <1>2, <2>1, Types
         DEF WorkerTakes, IndInv, JobInv, OneJobIn, JobsCurrent, Current
    <2> QED BY <1>1, <1>2, <2>1, <2>2, JobsOnly
            DEF WorkerTakes, IndInv, JobInv, ShownIsCurrent
  <1>3. CASE WorkerReplies
    <2>1. PICK ok \in BOOLEAN :
            worker' = [worker EXCEPT !.job = NoJob, !.replies = [worker.job EXCEPT !.ok = ok]]
      BY <1>3 DEF WorkerReplies
    <2>2. worker.job \in [revision : Revisions, search : BOOLEAN, ok : BOOLEAN]
      BY <1>1, <1>3 DEF WorkerReplies, QueuesType, Jobs
    <2> DEFINE reply == [worker.job EXCEPT !.ok = ok]
    <2>3. reply \in Jobs /\ reply.revision = worker.job.revision /\ reply # NoJob
      <3>1. reply \in [revision : Revisions, search : BOOLEAN, ok : BOOLEAN]
        BY <2>2
      <3>2. reply.revision = worker.job.revision
        BY <2>2
      <3> QED BY <2>2, <3>1, <3>2 DEF Jobs
    <2> HIDE DEF reply
    <2>4. /\ worker'.requests = worker.requests /\ worker'.job = NoJob
          /\ worker'.replies = reply /\ worker' \in QueuesType
      BY <1>1, <2>1, <2>3 DEF reply, QueuesType
    <2>5. OneJobIn(weather'.busy, worker') /\ JobsCurrent(worker', revision, net.seen)
      BY <1>1, <1>3, <2>3, <2>4, Types
         DEF WorkerReplies, IndInv, JobInv, OneJobIn, JobsCurrent, Current
    <2> QED BY <1>1, <1>3, <2>4, <2>5, JobsOnly
            DEF WorkerReplies, IndInv, JobInv, ShownIsCurrent
  <1> QED BY <1>2, <1>3 DEF Worker

\* Every branch of network_poll.
LEMMA PollInv == ASSUME IndInv, Poll PROVE IndInv'
  <1> USE JobFacts, RevisionFacts
  <1>1. /\ config \in Configs /\ revision \in Revisions /\ net \in NetType
        /\ ntp \in TimeType /\ weather \in WeatherType /\ worker \in QueuesType
        /\ radio \in RadioType /\ session \in SessionType
    BY Types DEF IndInv
  <1>2. /\ Completed \in WeatherType /\ Taken \in QueuesType
        /\ OneJobIn(Completed.busy, Taken) /\ JobsCurrent(Taken, revision, net.seen)
        /\ {Completed.shown, Completed.locations} \subseteq {0, net.seen}
    BY CompletedFacts DEF IndInv
  <1>3. \A r \in RadioType : TimeStopped(r) \in RadioType /\ Left(r) \in RadioType
    BY RadioFacts DEF IndInv
  <1>4. CASE PollSaved
    <2>1. net' \in NetType /\ net'.seen = net.seen /\ net'.online = net.online
      BY <1>1, <1>4 DEF PollSaved, NetType
    <2>2. JobInv' /\ TypeOK'
      BY <1>1, <1>4, <2>1, JobsTaken, TypesNext DEF PollSaved, configVars
    <2>3. StationInv'
      BY <1>4, <2>1 DEF PollSaved, configVars, IndInv, StationInv, TimeNeedsStation, ApKept
    <2> QED BY <2>2, <2>3 DEF IndInv
  <1>5. CASE Configure
    <2> DEFINE r == Left(TimeStopped(radio))
               n == [net EXCEPT !.seen = revision, !.saved = "no", !.online = FALSE,
                                !.associating = FALSE]
    <2>1. r \in RadioType /\ r.link = "off" /\ r.ap = radio.ap
      <3>1. TimeStopped(radio).ap = radio.ap /\ TimeStopped(radio) \in RadioType
        BY <1>1, <1>3 DEF TimeStopped, InMode, Left, Access, RadioType
      <3> QED BY <3>1 DEF Left, RadioType
    <2>2. n \in NetType /\ n.seen = revision /\ n.online = FALSE
      BY <1>1 DEF NetType
    <2>3. \/ config.enabled /\ Connect(n, r)
          \/ /\ ~config.enabled /\ net' = n
             /\ radio' = IF session.portal THEN r ELSE InMode(r, "OFF")
      BY <1>5 DEF Configure
    <2> HIDE DEF n, r
    <2>4. /\ net' \in NetType /\ radio' \in RadioType
          /\ net'.seen = revision /\ ~net'.online /\ (radio'.ap <=> session.kind = "ap")
          /\ ~config.enabled => radio'.link = "off"
      <3>1. CASE config.enabled /\ Connect(n, r)
        BY <2>1, <2>2, <3>1, ConnectFacts DEF IndInv, StationInv
      <3>2. CASE ~config.enabled /\ session.portal
        BY <2>1, <2>2, <2>3, <3>2 DEF IndInv, StationInv, ApKept
      <3>3. CASE ~config.enabled /\ ~session.portal
        BY <2>1, <2>2, <2>3, <3>3
           DEF IndInv, StationInv, ApKept, InMode, Access, Station, RadioType
      <3> QED BY <2>3, <3>1, <3>2, <3>3
    <2>5. /\ weather' \in WeatherType /\ weather'.shown = 0 /\ weather'.locations = 0
          /\ weather'.busy = Completed.busy /\ worker' = Taken
      BY <1>2, <1>5 DEF Configure, WeatherType, Tries
    <2>6. ntp' \in TimeType /\ ntp'.attempt = "none"
      BY <1>5 DEF Configure, TimeType, Tries
    <2>7. TypeOK'
      BY <1>1, <1>2, <1>5, <2>4, <2>5, <2>6, TypesNext
         DEF Configure, configVars
    <2>8. JobInv'
      BY <1>1, <1>2, <1>5, <2>4, <2>5
         DEF Configure, configVars, JobInv, JobsCurrent, Current, ShownIsCurrent
    <2>9. StationInv'
      BY <1>5, <2>4, <2>6
         DEF Configure, configVars, IndInv, StationInv, TimeNeedsStation, ApKept
    <2> QED BY <2>7, <2>8, <2>9 DEF IndInv
  <1>6. CASE PollOnline
    <2> DEFINE clock == IF net.online THEN ntp ELSE [ntp EXCEPT !.try = "due"]
    <2>1. clock \in TimeType /\ clock.attempt = ntp.attempt
      BY <1>1 DEF TimeType, Tries
    <2>2. /\ net' \in NetType /\ net'.seen = net.seen /\ net'.online
          /\ net.seen = revision /\ config.enabled
      BY <1>1, <1>6 DEF PollOnline, NetType
    <2>3. \/ Automatic(clock, Completed)
          \/ ntp' = clock /\ weather' = Completed /\ worker' = Taken
      BY <1>6 DEF PollOnline
    <2> HIDE DEF clock
    <2>4. ntp' \in TimeType /\ ntp'.attempt \in {ntp.attempt, "shared", "none"}
      BY <2>1, <2>3 DEF Automatic, StartTime, TimeType, Tries
    <2>5. /\ weather' \in WeatherType /\ worker' \in QueuesType
          /\ OneJobIn(weather'.busy, worker') /\ JobsCurrent(worker', revision, net.seen)
          /\ {weather'.shown, weather'.locations} \subseteq {0, net.seen}
      <3>1. CASE weather' = Completed /\ worker' = Taken
        BY <1>2, <3>1
      <3>2. CASE Submit(FALSE, [Completed EXCEPT !.try = "recent"], Taken)
        <4> DEFINE known == [Completed EXCEPT !.try = "recent"]
        <4>1. /\ known \in WeatherType /\ known.busy = Completed.busy
              /\ known.shown = Completed.shown /\ known.locations = Completed.locations
          BY <1>2 DEF WeatherType, Tries
        <4> HIDE DEF known
        <4>2. Submit(FALSE, known, Taken)
          BY <3>2 DEF known
        <4> QED BY <1>1, <1>2, <2>2, <4>1, <4>2, SubmitFacts
      <3> QED BY <2>3, <3>1, <3>2 DEF Automatic
    <2>6. TypeOK'
      BY <1>1, <1>6, <2>2, <2>4, <2>5, TypesNext DEF PollOnline, configVars
    <2>7. JobInv'
      BY <1>6, <2>2, <2>5 DEF PollOnline, configVars, IndInv, JobInv, ShownIsCurrent
    <2>8. StationInv'
      BY <1>6, <2>2, <2>4
         DEF PollOnline, configVars, IndInv, StationInv, TimeNeedsStation, ApKept
    <2> QED BY <2>6, <2>7, <2>8 DEF IndInv
  <1>7. CASE PollLost
    <2>1. net' \in NetType /\ net'.seen = net.seen /\ ntp' \in TimeType /\ ntp'.attempt = "none"
      BY <1>1, <1>7, Ages DEF PollLost, NetType, NoAttempt, TimeType
    <2>2. radio' \in RadioType /\ radio'.ap = radio.ap
      BY <1>1, <1>3, <1>7 DEF PollLost, TimeStopped, InMode, Left, Access, RadioType
    <2>3. JobInv' /\ TypeOK'
      BY <1>1, <1>7, <2>1, <2>2, JobsTaken, TypesNext
         DEF PollLost, configVars
    <2>4. StationInv'
      BY <1>7, <2>1, <2>2
         DEF PollLost, configVars, IndInv, StationInv, TimeNeedsStation, ApKept
    <2> QED BY <2>3, <2>4 DEF IndInv
  <1>8. CASE PollGivesUp
    <2>1. net' \in NetType /\ net'.seen = net.seen /\ net'.online = net.online
      BY <1>1, <1>8, Ages DEF PollGivesUp, NetType
    <2>2. radio' \in RadioType /\ radio'.ap = radio.ap
      BY <1>1, <1>8 DEF PollGivesUp, Left, RadioType
    <2>3. JobInv' /\ TypeOK'
      BY <1>1, <1>8, <2>1, <2>2, JobsTaken, TypesNext
         DEF PollGivesUp, configVars
    <2>4. StationInv'
      BY <1>8, <2>1, <2>2
         DEF PollGivesUp, configVars, IndInv, StationInv, TimeNeedsStation, ApKept
    <2> QED BY <2>3, <2>4 DEF IndInv
  <1>9. CASE PollReconnects
    <2>1. /\ net' \in NetType /\ radio' \in RadioType /\ net'.seen = net.seen /\ ~net'.online
          /\ (radio'.ap <=> session.kind = "ap")
      BY <1>1, <1>9, ConnectFacts DEF PollReconnects, IndInv, StationInv
    <2>2. JobInv' /\ TypeOK'
      BY <1>1, <1>9, <2>1, JobsTaken, TypesNext
         DEF PollReconnects, configVars
    <2>3. StationInv'
      BY <1>9, <2>1 DEF PollReconnects, configVars, IndInv, StationInv, TimeNeedsStation, ApKept
    <2> QED BY <2>2, <2>3 DEF IndInv
  <1>10. CASE PollIdle
    BY <1>2, <1>10, JobsOnly DEF PollIdle
  <1> QED BY <1>4, <1>5, <1>6, <1>7, <1>8, <1>9, <1>10 DEF Poll

\* The steps that change no more than an attempt, the radio and the session.
LEMMA RadioOnly ==
  ASSUME IndInv, UNCHANGED <<configVars, net, weather, worker>>,
         ntp' \in TimeType, radio' \in RadioType, session' \in SessionType
  PROVE  TypeOK' /\ JobInv'
  <1>1. TypeOK'
    BY Types, TypesNext DEF IndInv, configVars
  <1>2. JobInv'
    BY DEF IndInv, JobInv, ShownIsCurrent, configVars
  <1> QED BY <1>1, <1>2

\* Where a time attempt stops.
LEMMA StoppedFacts ==
  ASSUME IndInv
  PROVE  /\ TimeStopped(radio) \in RadioType /\ TimeStopped(radio).ap = radio.ap
         /\ NoAttempt \in TimeType /\ NoAttempt.attempt = "none"
         /\ TimeStopped(radio).link \in {radio.link, "off"}
         /\ ntp.attempt = "own" => TimeStopped(radio).link = "off"
         /\ ntp.attempt # "own" => TimeStopped(radio) = radio
  <1>1. radio \in RadioType /\ ntp \in TimeType
    BY Types DEF IndInv
  <1> QED BY <1>1 DEF TimeStopped, NoAttempt, InMode, Left, Access, Station, RadioType, TimeType

\* Every request of the settings pages and of the weather screen.
LEMMA RequestInv == ASSUME IndInv, Request PROVE IndInv'
  <1> USE JobFacts, RevisionFacts
  <1>1. /\ config \in Configs /\ revision \in Revisions /\ net \in NetType
        /\ ntp \in TimeType /\ weather \in WeatherType /\ worker \in QueuesType
        /\ radio \in RadioType /\ session \in SessionType
    BY Types DEF IndInv
  <1>2. CASE Save
    <2>1. revision' \in Revisions /\ revision' = revision + 1
      BY <1>1, <1>2, NetworkConstants DEF Save, Revisions
    <2>2. TypeOK'
      BY <1>1, <1>2, <2>1, TypesNext DEF Save
    <2>3. UNCHANGED <<net, ntp, weather, worker, radio, session>>
      BY <1>2 DEF Save
    <2>4. /\ net.seen \in Nat /\ revision \in Nat /\ net.seen <= revision
          /\ worker.requests.revision \in Nat /\ worker.job.revision \in Nat
          /\ worker.replies.revision \in Nat
      BY <1>1 DEF IndInv, JobInv, NetType, QueuesType
    <2>5. JobsCurrent(worker, revision, net.seen)
      BY DEF IndInv, JobInv
    <2>6. JobsCurrent(worker, revision + 1, net.seen)
      <3>1. \A job : /\ job.revision \in Nat /\ Current(job, revision, net.seen)
                     => Current(job, revision + 1, net.seen)
        BY <2>4 DEF Current
      <3> QED BY <2>4, <2>5, <3>1 DEF JobsCurrent
    <2>7. net.seen <= revision + 1 /\ net.seen # revision + 1
      BY <2>4
    <2>8. JobInv'
      BY <2>1, <2>3, <2>6, <2>7 DEF IndInv, JobInv, ShownIsCurrent
    <2>9. StationInv'
      BY <2>1, <2>3, <2>7 DEF IndInv, StationInv, TimeNeedsStation, ApKept
    <2> QED BY <2>2, <2>8, <2>9 DEF IndInv
  <1>3. CASE SyncNow
    <2>1. ntp' \in TimeType /\ ntp'.attempt \in {"shared", "none"}
      BY <1>3 DEF SyncNow, StartTime, TimeType, Tries
    <2>2. TypeOK' /\ JobInv'
      BY <1>1, <1>3, <2>1, RadioOnly DEF SyncNow
    <2>3. StationInv'
      BY <1>3, <2>1
         DEF SyncNow, Connected, configVars, IndInv, StationInv, TimeNeedsStation, ApKept
    <2> QED BY <2>2, <2>3 DEF IndInv
  <1>4. CASE LegacySync
    <2>1. /\ radio' \in RadioType /\ radio'.ap = radio.ap
          /\ ntp' \in TimeType /\ (ntp'.attempt = "own" \/ (ntp' = ntp /\ radio'.link = "off"))
      BY <1>1, <1>4
         DEF LegacySync, Begun, Left, InMode, Access, Station, RadioType, TimeType
    <2>2. TypeOK' /\ JobInv'
      BY <1>1, <1>4, <2>1, RadioOnly DEF LegacySync
    <2>3. net.seen # revision \/ (session.kind = "ap" /\ session.faces)
      BY <1>4 DEF LegacySync, Served, IndInv, StationInv
    <2>4. ntp.attempt = "none" /\ ~config.enabled
      BY <1>4 DEF LegacySync
    <2>5. UNCHANGED <<config, revision, net, session>>
      BY <1>4 DEF LegacySync, configVars
    <2>6. StationInv'
      BY <2>1, <2>3, <2>4, <2>5 DEF IndInv, StationInv, TimeNeedsStation, ApKept
    <2> QED BY <2>2, <2>6 DEF IndInv
  <1>5. ASSUME NEW search \in BOOLEAN, NEW known \in WeatherType, Submit(search, known, worker),
               known.busy = weather.busy, Connected,
               known.shown = weather.shown, known.locations \in {0, weather.locations},
               UNCHANGED <<configVars, net, ntp, radio, session>>
        PROVE  IndInv'
    <2>1. net.seen = revision
      BY <1>5 DEF Connected
    <2>2. /\ weather' \in WeatherType /\ worker' \in QueuesType
          /\ OneJobIn(weather'.busy, worker') /\ JobsCurrent(worker', revision, net.seen)
          /\ weather'.shown = known.shown /\ weather'.locations = known.locations
      BY <1>1, <1>5, <2>1, SubmitFacts DEF IndInv, JobInv
    <2>3. {weather'.shown, weather'.locations} \subseteq {0, net.seen}
      BY <1>5, <2>2 DEF IndInv, JobInv, ShownIsCurrent
    <2> QED BY <1>5, <2>2, <2>3, JobsOnly
  <1>6. CASE WeatherNow
    <2> DEFINE known == [weather EXCEPT !.try = "recent"]
    <2>1. /\ known \in WeatherType /\ known.busy = weather.busy
          /\ known.shown = weather.shown /\ known.locations = weather.locations
      BY <1>1 DEF WeatherType, Tries
    <2>2. /\ Submit(FALSE, known, worker) /\ Connected
          /\ UNCHANGED <<configVars, net, ntp, radio, session>>
      BY <1>6 DEF WeatherNow
    <2> HIDE DEF known
    <2> QED BY <1>5, <2>1, <2>2
  <1>7. CASE Search
    <2> DEFINE known == IF weather.ready THEN [weather EXCEPT !.locations = 0] ELSE weather
    <2>1. /\ known \in WeatherType /\ known.busy = weather.busy
          /\ known.shown = weather.shown /\ known.locations \in {0, weather.locations}
      BY <1>1 DEF WeatherType
    <2>2. /\ Submit(TRUE, known, worker) /\ Connected
          /\ UNCHANGED <<configVars, net, ntp, radio, session>>
      BY <1>7 DEF Search
    <2> HIDE DEF known
    <2> QED BY <1>5, <2>1, <2>2
  <1> QED BY <1>2, <1>3, <1>4, <1>6, <1>7 DEF Request

\* Every step of a maintenance session.
LEMMA SessionInv == ASSUME IndInv, Session PROVE IndInv'
  <1>1. /\ config \in Configs /\ ntp \in TimeType /\ radio \in RadioType
        /\ session \in SessionType
    BY Types DEF IndInv
  <1>2. /\ TimeStopped(radio) \in RadioType /\ TimeStopped(radio).ap = radio.ap
        /\ NoAttempt \in TimeType /\ NoAttempt.attempt = "none"
        /\ TimeStopped(radio).link \in {radio.link, "off"}
        /\ ntp.attempt = "own" => TimeStopped(radio).link = "off"
        /\ ntp.attempt # "own" => TimeStopped(radio) = radio
    BY StoppedFacts
  <1>3. CASE OpenSession
    <2>1. /\ session' \in SessionType /\ radio' \in RadioType
          /\ (radio'.ap <=> session'.kind = "ap")
          /\ session'.kind = "ap" => session'.portal
          /\ radio'.link \in {radio.link, "off"}
      <3>1. ~radio.ap
        BY <1>3 DEF OpenSession, IndInv, StationInv, ApKept
      <3>2. PICK faces \in BOOLEAN :
              \/ /\ session' = [kind |-> "failed", faces |-> faces, portal |-> FALSE]
                 /\ radio' = radio
              \/ /\ session' = [kind |-> "lan", faces |-> faces, portal |-> FALSE]
                 /\ radio' = radio
              \/ /\ session' = [kind |-> "ap", faces |-> faces, portal |-> TRUE]
                 /\ radio' = [InMode(radio, IF config.enabled THEN "AP_STA" ELSE "AP")
                               EXCEPT !.ap = TRUE]
              \/ /\ session' = [kind |-> "failed", faces |-> faces, portal |-> TRUE]
                 /\ radio' = Restored(radio)
        BY <1>3 DEF OpenSession
      <3>3. session' \in SessionType /\ (session'.kind = "ap" => session'.portal)
        <4>1. \/ session' = [kind |-> "failed", faces |-> faces, portal |-> FALSE]
              \/ session' = [kind |-> "lan", faces |-> faces, portal |-> FALSE]
              \/ session' = [kind |-> "ap", faces |-> faces, portal |-> TRUE]
              \/ session' = [kind |-> "failed", faces |-> faces, portal |-> TRUE]
          BY <3>2
        <4>2. PICK kind \in {"failed", "lan", "ap"}, portal \in BOOLEAN :
                /\ session' = [kind |-> kind, faces |-> faces, portal |-> portal]
                /\ kind = "ap" => portal
          BY <4>1
        <4>3. session'.kind = kind /\ session'.portal = portal
          BY <4>2
        <4>4. session' \in SessionType
          BY <4>2 DEF SessionType
        <4> QED BY <4>2, <4>3, <4>4
      <3>4. CASE radio' = radio /\ session'.kind # "ap"
        BY <1>1, <3>1, <3>3, <3>4
      <3>5. CASE /\ session'.kind = "ap"
                 /\ radio' = [InMode(radio, IF config.enabled THEN "AP_STA" ELSE "AP")
                               EXCEPT !.ap = TRUE]
        BY <1>1, <3>3, <3>5 DEF RadioType, InMode, Access, Station
      <3>6. CASE session'.kind = "failed" /\ radio' = Restored(radio)
        BY <1>1, <3>1, <3>3, <3>6 DEF RadioType, Restored, InMode, Access, Station
      <3> QED BY <3>2, <3>4, <3>5, <3>6
    <2>2. TypeOK' /\ JobInv'
      BY <1>1, <1>3, <2>1, RadioOnly DEF OpenSession
    <2>3. session.kind = "none" /\ UNCHANGED <<config, revision, net, ntp>>
      BY <1>3 DEF OpenSession, configVars
    <2>4. StationInv'
      BY <2>1, <2>3 DEF IndInv, StationInv, TimeNeedsStation, ApKept
    <2> QED BY <2>2, <2>4 DEF IndInv
  <1>4. CASE ToFirmware
    <2>1. /\ session' \in SessionType /\ session'.kind = session.kind
          /\ session'.portal = session.portal
      BY <1>1, <1>4 DEF ToFirmware, SessionType
    <2>2. TypeOK' /\ JobInv'
      BY <1>2, <1>4, <2>1, RadioOnly DEF ToFirmware
    <2>3. StationInv'
      BY <1>2, <1>4, <2>1
         DEF ToFirmware, configVars, IndInv, StationInv, TimeNeedsStation, ApKept
    <2> QED BY <2>2, <2>3 DEF IndInv
  <1>5. CASE CloseSession
    <2>1. session' \in SessionType /\ session'.kind = "none"
      BY <1>5 DEF CloseSession, NoSession, SessionType
    <2>2. /\ ntp' \in TimeType
          /\ (ntp' = ntp /\ config.enabled) \/ (ntp' = NoAttempt /\ ~config.enabled)
      <3>1. ntp' = IF config.enabled THEN ntp ELSE NoAttempt
        BY <1>5 DEF CloseSession
      <3> QED BY <1>1, <1>2, <3>1
    <2>3. /\ radio' \in RadioType /\ ~radio'.ap
          /\ radio'.link \in {radio.link, "off"}
          /\ ~config.enabled /\ ntp.attempt = "own" => radio'.link = "off"
      <3> DEFINE r == IF config.enabled THEN radio ELSE TimeStopped(radio)
      <3>1. /\ r \in RadioType /\ r.ap = radio.ap /\ r.link \in {radio.link, "off"}
            /\ ~config.enabled /\ ntp.attempt = "own" => r.link = "off"
        BY <1>1, <1>2
      <3>2. radio' = IF session.kind = "failed" THEN r ELSE Restored([r EXCEPT !.ap = FALSE])
        BY <1>5 DEF CloseSession
      <3> HIDE DEF r
      <3>3. CASE session.kind = "failed"
        BY <3>1, <3>2, <3>3 DEF IndInv, StationInv, ApKept, RadioType
      <3>4. CASE session.kind # "failed"
        BY <3>1, <3>2, <3>4 DEF Restored, InMode, Access, Station, RadioType
      <3> QED BY <3>3, <3>4
    <2>4. TypeOK' /\ JobInv'
      BY <1>5, <2>1, <2>2, <2>3, RadioOnly DEF CloseSession
    <2>5. UNCHANGED <<config, revision, net>>
      BY <1>5 DEF CloseSession, configVars
    <2>6. StationInv'
      BY <1>2, <2>1, <2>2, <2>3, <2>5 DEF IndInv, StationInv, TimeNeedsStation, ApKept
    <2> QED BY <2>4, <2>6 DEF IndInv
  <1>6. CASE CardSession
    <2>1. session' \in SessionType /\ session'.kind # "ap" /\ session.kind # "ap"
      <3>1. NoSession \in SessionType /\ NoSession.kind = "none"
        BY DEF NoSession, SessionType
      <3>2. \/ session = NoSession /\ session' = [NoSession EXCEPT !.kind = "card"]
            \/ session.kind = "card" /\ session' = NoSession
        BY <1>6 DEF CardSession
      <3> QED BY <3>1, <3>2 DEF SessionType
    <2>2. TypeOK' /\ JobInv'
      BY <1>1, <1>6, <2>1, RadioOnly DEF CardSession
    <2>3. StationInv'
      BY <1>6, <2>1 DEF CardSession, configVars, IndInv, StationInv, TimeNeedsStation, ApKept
    <2> QED BY <2>2, <2>3 DEF IndInv
  <1> QED BY <1>3, <1>4, <1>5, <1>6 DEF Session

\* The steps that are neither the poll's, a request's nor a session's.
LEMMA OtherInv ==
  ASSUME IndInv, TimeEnds \/ Link \/ SavedAges \/ AttemptAges \/ TriesAge
  PROVE  IndInv'
  <1>1. /\ config \in Configs /\ revision \in Revisions /\ net \in NetType
        /\ ntp \in TimeType /\ weather \in WeatherType /\ worker \in QueuesType
        /\ radio \in RadioType /\ session \in SessionType
    BY Types DEF IndInv
  <1>2. CASE TimeEnds
    <2>1. /\ radio' \in RadioType /\ radio'.ap = radio.ap
          /\ ntp' \in TimeType /\ ntp'.attempt = "none"
          /\ radio'.link \in {radio.link, "off"}
          /\ ntp.attempt = "own" => radio'.link = "off"
      BY <1>2, StoppedFacts DEF TimeEnds
    <2>2. UNCHANGED <<configVars, net, weather, worker, session>>
      BY <1>2 DEF TimeEnds
    <2>3. TypeOK' /\ JobInv'
      BY <1>1, <2>1, <2>2, RadioOnly
    <2>4. StationInv'
      BY <2>1, <2>2 DEF configVars, IndInv, StationInv, TimeNeedsStation, ApKept
    <2> QED BY <2>3, <2>4 DEF IndInv
  <1>3. CASE Link
    <2>1. /\ radio' \in RadioType /\ radio'.ap = radio.ap /\ radio.link # "off"
          /\ UNCHANGED <<configVars, net, ntp, weather, worker, session>>
      BY <1>1, <1>3 DEF Link, RadioType
    <2>2. TypeOK' /\ JobInv'
      BY <1>1, <2>1, RadioOnly
    <2>3. StationInv'
      BY <2>1 DEF configVars, IndInv, StationInv, TimeNeedsStation, ApKept
    <2> QED BY <2>2, <2>3 DEF IndInv
  <1>4. CASE SavedAges \/ AttemptAges
    <2>1. /\ net' \in NetType /\ net'.seen = net.seen /\ net'.online = net.online
          /\ UNCHANGED <<configVars, ntp, weather, worker, radio, session>>
      BY <1>1, <1>4, Ages DEF SavedAges, AttemptAges, NetType
    <2>2. TypeOK'
      BY <1>1, <2>1, TypesNext DEF configVars
    <2>3. JobInv'
      BY <2>1, JobsLeft DEF configVars
    <2>4. StationInv'
      BY <2>1 DEF configVars, IndInv, StationInv, TimeNeedsStation, ApKept
    <2> QED BY <2>2, <2>3, <2>4 DEF IndInv
  <1>5. CASE TriesAge
    <2>1. \A try \in Tries : Later(try) \in Tries
      BY DEF Later, Tries
    <2>2. /\ ntp' \in TimeType /\ weather' \in WeatherType
          /\ ntp'.attempt = ntp.attempt /\ weather'.busy = weather.busy
          /\ weather'.shown = weather.shown /\ weather'.locations = weather.locations
      BY <1>1, <1>5, <2>1 DEF TriesAge, TimeType, WeatherType
    <2>3. UNCHANGED <<configVars, net, worker, radio, session>>
      BY <1>5 DEF TriesAge
    <2>4. TypeOK'
      BY <1>1, <2>2, <2>3, TypesNext DEF configVars
    <2>5. JobInv'
      BY <2>2, <2>3, JobsLeft DEF configVars
    <2>6. StationInv'
      BY <2>2, <2>3 DEF configVars, IndInv, StationInv, TimeNeedsStation, ApKept
    <2> QED BY <2>4, <2>5, <2>6 DEF IndInv
  <1> QED BY <1>2, <1>3, <1>4, <1>5

LEMMA NextInv == IndInv /\ [Next]_vars => IndInv'
  <1> SUFFICES ASSUME IndInv, [Next]_vars PROVE IndInv'
    OBVIOUS
  <1>1. CASE Next
    BY <1>1, WorkerInv, PollInv, RequestInv, SessionInv, OtherInv DEF Next
  <1>2. CASE UNCHANGED vars
    <2>1. UNCHANGED <<configVars, net, ntp, radio, session, weather, worker>>
      BY <1>2 DEF vars
    <2> QED BY <2>1, JobsOnly, Types DEF IndInv, JobInv, ShownIsCurrent
  <1> QED BY <1>1, <1>2

LEMMA Invariance == Spec => []IndInv
  BY InitInv, NextInv, PTL DEF Spec

\* Slots that hold jobs, counted.
LEMMA CountedJobs == IndInv => OneJob
  <1> SUFFICES ASSUME IndInv PROVE OneJob
    OBVIOUS
  <1> DEFINE used == {slot \in DOMAIN worker : worker[slot] # NoJob}
  <1>1. DOMAIN worker = {"requests", "job", "replies"}
    BY DEF IndInv, TypeOK
  <1>2. /\ worker.requests = worker["requests"] /\ worker.job = worker["job"]
        /\ worker.replies = worker["replies"]
    OBVIOUS
  <1>3. OneJobIn(weather.busy, worker) /\ weather.busy \in BOOLEAN
    BY DEF IndInv, JobInv, TypeOK
  <1>4. CASE ~weather.busy
    <2>1. used = {}
      BY <1>1, <1>2, <1>3, <1>4 DEF OneJobIn
    <2>2. Cardinality(used) = 0
      BY <2>1, FS_EmptySet
    <2> QED BY <1>4, <2>2 DEF OneJob
  <1>5. CASE weather.busy
    <2>1. PICK slot : used = {slot}
      <3>1. used = {"requests"} \/ used = {"job"} \/ used = {"replies"}
        BY <1>1, <1>2, <1>3, <1>5 DEF OneJobIn
      <3> QED BY <3>1
    <2>2. Cardinality(used) = 1
      BY <2>1, FS_Singleton
    <2> QED BY <1>5, <2>2 DEF OneJob
  <1> QED BY <1>4, <1>5

-----------------------------------------------------------------------------
(* Theorems *)

\* Every variable keeps its type in every behaviour of the network service.
THEOREM TypesHold == Spec => []TypeOK
  <1>1. IndInv => TypeOK
    BY DEF IndInv
  <1> QED BY <1>1, Invariance, PTL

\* The weather worker never has more than one job, and none unless the service
\* waits for it: requests and replies never find their queue full.
THEOREM WorkerOwnsOneJob == Spec => []OneJob
  BY CountedJobs, Invariance, PTL

\* Weather and locations are shown of the network in use only, however late a
\* job of an earlier one is answered.
THEOREM ShownOfCurrentNetwork == Spec => []ShownIsCurrent
  <1>1. IndInv => ShownIsCurrent
    BY DEF IndInv, JobInv
  <1> QED BY <1>1, Invariance, PTL

\* A time attempt ends before the station it uses does.
THEOREM AttemptHasStation == Spec => []TimeNeedsStation
  <1>1. IndInv => TimeNeedsStation
    BY DEF IndInv, StationInv
  <1> QED BY <1>1, Invariance, PTL

\* The three together: the worker, what is shown and the attempt agree with the service.
THEOREM ServiceAgrees == Spec => []ServiceRight
  <1>1. OneJob /\ ShownIsCurrent /\ TimeNeedsStation => ServiceRight
    BY DEF ServiceRight
  <1> QED BY <1>1, WorkerOwnsOneJob, ShownOfCurrentNetwork, AttemptHasStation, PTL

\* A session's access point is up exactly while the session lasts.
THEOREM AccessPointKept == Spec => []ApKept
  <1>1. IndInv => ApKept
    BY DEF IndInv, StationInv
  <1> QED BY <1>1, Invariance, PTL

\* What is shown is only dropped by applying another network: no failed
\* refresh, lost station or session clears it.
THEOREM RetainedUntilChange == Spec => OldDataRetained
  <1>1. ASSUME IndInv, Next, weather.shown # 0, weather'.shown = 0
        PROVE  net'.seen # net.seen
    <2>1. /\ weather \in WeatherType /\ worker \in QueuesType /\ net \in NetType
          /\ Completed \in WeatherType /\ Completed.shown # 0
      BY <1>1, Types, CompletedFacts DEF IndInv
    <2>2. ASSUME NEW known \in WeatherType, NEW search, NEW queues, known.shown # 0,
                 Submit(search, known, queues)
          PROVE  weather'.shown # 0
      BY <2>2 DEF Submit, WeatherType
    <2>3. weather' # weather /\ weather' # Completed
      BY <1>1, <2>1
    <2>4. CASE Configure
      <3>1. net'.seen = revision
        <4>1. net' \in {[net EXCEPT !.seen = revision, !.saved = "no", !.online = FALSE,
                                    !.associating = FALSE]}
              \/ \E associating \in BOOLEAN :
                   net' = [[net EXCEPT !.seen = revision, !.saved = "no", !.online = FALSE,
                                      !.associating = FALSE]
                             EXCEPT !.attempt = 0, !.online = FALSE,
                                    !.associating = associating]
          BY <2>4 DEF Configure, Connect
        <4> QED BY <2>1, <4>1 DEF NetType
      <3>2. net.seen # revision
        BY <2>4 DEF Configure
      <3> QED BY <3>1, <3>2
    <2>5. CASE PollOnline
      <3>1. PICK known \in WeatherType :
              known.shown # 0 /\ (weather' = known \/ Submit(FALSE, known, Taken))
        <4>1. [Completed EXCEPT !.try = "recent"] \in WeatherType
          BY <2>1 DEF WeatherType, Tries
        <4>2. [Completed EXCEPT !.try = "recent"].shown = Completed.shown
          BY <2>1 DEF WeatherType
        <4> QED BY <2>1, <2>5, <4>1, <4>2 DEF PollOnline, Automatic
      <3>2. CASE weather' = known
        BY <1>1, <3>1, <3>2
      <3>3. CASE Submit(FALSE, known, Taken)
        BY <1>1, <2>2, <3>1, <3>3
      <3> QED BY <3>1, <3>2, <3>3
    <2>6. CASE Request
      <3>1. \E known \in WeatherType, search \in BOOLEAN :
              known.shown # 0 /\ Submit(search, known, worker)
        <4>1. /\ [weather EXCEPT !.try = "recent"] \in WeatherType
              /\ [weather EXCEPT !.try = "recent"].shown = weather.shown
              /\ [weather EXCEPT !.locations = 0] \in WeatherType
              /\ [weather EXCEPT !.locations = 0].shown = weather.shown
          BY <2>1 DEF WeatherType, Tries
        <4>2. WeatherNow \/ Search
          BY <2>3, <2>6 DEF Request, Save, SyncNow, LegacySync
        <4>3. CASE WeatherNow
          BY <1>1, <4>1, <4>3 DEF WeatherNow
        <4>4. CASE Search
          BY <1>1, <2>1, <4>1, <4>4 DEF Search
        <4> QED BY <4>2, <4>3, <4>4
      <3> QED BY <1>1, <2>2, <3>1
    <2>7. ~TriesAge
      BY <1>1, <2>1, <2>3 DEF TriesAge, WeatherType
    <2>8. Configure \/ PollOnline \/ Request
      BY <1>1, <2>3, <2>7
         DEF Next, Worker, WorkerTakes, WorkerReplies, Poll, PollSaved, PollLost, PollGivesUp,
             PollReconnects, PollIdle, TimeEnds, Session, OpenSession, ToFirmware,
             CloseSession, CardSession, Link, SavedAges, AttemptAges
    <2> QED BY <2>4, <2>5, <2>6, <2>8
  <1>2. IndInv /\ [Next]_vars =>
          [weather.shown # 0 /\ weather'.shown = 0 => net'.seen # net.seen]_vars
    BY <1>1
  <1> QED BY <1>2, Invariance, PTL DEF Spec, OldDataRetained

\* No session takes the station from a network that is in use, neither when it
\* begins, nor when it changes, nor when it ends.
THEOREM SessionsKeepStation == Spec => StationKept
  <1>1. ASSUME IndInv, Next, session' # session, Connected
        PROVE  radio'.link = "up"
    <2>1. /\ radio \in RadioType /\ radio.link = "up" /\ config.enabled
          /\ net.seen = revision /\ ntp.attempt # "own"
      BY <1>1, Types DEF IndInv, StationInv, Connected
    <2>2. TimeStopped(radio) = radio
      BY <1>1, <2>1, StoppedFacts
    <2>3. CASE OpenSession
      BY <1>1, <2>1, <2>3 DEF OpenSession, Restored, InMode, Station
    <2>4. CASE ToFirmware \/ CardSession
      BY <2>1, <2>2, <2>4 DEF ToFirmware, CardSession
    <2>5. CASE CloseSession
      <3>1. \/ radio' = radio \/ radio' = Restored([radio EXCEPT !.ap = FALSE])
        BY <2>1, <2>5 DEF CloseSession
      <3>2. Restored([radio EXCEPT !.ap = FALSE]).link = "up"
        BY <2>1 DEF Restored, InMode, Station, RadioType
      <3> QED BY <2>1, <3>1, <3>2
    <2>6. Session
      BY <1>1 DEF Next, Worker, WorkerTakes, WorkerReplies, Poll, PollSaved, Configure,
                  PollOnline, PollLost, PollGivesUp, PollReconnects, PollIdle, TimeEnds,
                  Request, Save, SyncNow, LegacySync, WeatherNow, Search, Link, SavedAges,
                  AttemptAges, TriesAge
    <2> QED BY <2>3, <2>4, <2>5, <2>6 DEF Session
  <1>2. IndInv /\ [Next]_vars => [session' # session /\ Connected => radio'.link = "up"]_vars
    BY <1>1
  <1> QED BY <1>2, Invariance, PTL DEF Spec, StationKept
=============================================================================
