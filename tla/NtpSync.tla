------------------------------ MODULE NtpSync ------------------------------
(***************************************************************************)
(* ntp_sync.cpp: one network time attempt at a time.  The main task starts *)
(* it, polls it and stops it; the SNTP client of lwIP delivers replies on  *)
(* the TCP/IP task through sntp_sync_time, which leaves them in an atomic  *)
(* for the main task to apply.                                             *)
(*                                                                         *)
(* An operation of the main task is one step.  The callback only loads     *)
(* accepting and stores received: what it does in the middle of a step it  *)
(* could as well have done before or after, but for one case, which        *)
(* Disconnect allows for.                                                  *)
(***************************************************************************)

(***************************************************************************)
(* A reply, or none; valid: its time is plausible; own: it answers the     *)
(* attempt that is under way.  The code does not know the last: a reply    *)
(* in flight loses it when its attempt ends.                               *)
(***************************************************************************)
NoReply == [some |-> FALSE, valid |-> FALSE, own |-> FALSE]
Replies == {reply \in [some : BOOLEAN, valid : BOOLEAN, own : BOOLEAN] :
              reply.valid \/ reply.own => reply.some}

VARIABLES
  ntp,         \* busy, querying, station, status; expired: 25 s since started
  accepting,   \* atomic accepting
  received,    \* atomic received
  callback,    \* the reply sntp_sync_time has accepted and not yet stored
  station,     \* the association with an access point, and whose it is
  clock        \* the reply the clock was last set from

mainVars == <<ntp, accepting>>
vars == <<mainVars, received, callback, station, clock>>

Statuses == {"idle", "connecting", "querying", "synced", "invalid_time", "timeout",
             "cancelled", "wifi_failed"}

TypeOK ==
  /\ ntp \in [busy : BOOLEAN, querying : BOOLEAN, station : BOOLEAN, expired : BOOLEAN,
              status : Statuses]
  /\ accepting \in BOOLEAN
  /\ received \in Replies
  /\ callback \in Replies
  /\ station \in {"none", "shared", "begun", "own"}
  /\ clock \in Replies

Idle == [busy |-> FALSE, querying |-> FALSE, station |-> FALSE, expired |-> FALSE,
         status |-> "idle"]

Init ==
  /\ ntp = Idle /\ accepting = FALSE /\ received = NoReply
  /\ callback = NoReply /\ station = "none" /\ clock = NoReply

-----------------------------------------------------------------------------
(* The end of an attempt *)

\* A reply whose attempt has ended.
Late(reply) == [reply EXCEPT !.own = FALSE]

\* disconnect, with the status set next: stop the client, drop what it left,
\* and leave the station that was begun for this attempt.  A reply that is stored
\* after its caller looked at received and before this clears it is lost.
Disconnect(status) ==
  /\ ntp' = [Idle EXCEPT !.status = status]
  /\ accepting' = FALSE /\ received' = NoReply
  /\ callback' \in {Late(callback), NoReply}
  /\ station' = IF ntp.station THEN "none" ELSE station

\* finish: apply what was received, if it is a plausible time.
Finish ==
  IF received.valid
  THEN Disconnect("synced") /\ clock' = received
  ELSE Disconnect("invalid_time") /\ UNCHANGED clock

Cancelled == IF ntp.busy THEN "cancelled" ELSE ntp.status

\* ntp_sync_stop, from configure, a lost station, the firmware switch or the
\* end of a session.
Stop == IF received.some THEN Finish ELSE Disconnect(Cancelled) /\ UNCHANGED clock

-----------------------------------------------------------------------------
(* The main task *)

Started(own) ==
  ntp' = [Idle EXCEPT !.busy = TRUE, !.station = own, !.status = "connecting"]

\* ntp_sync_connected: over the station the network service owns.
Connected ==
  /\ ~ntp.busy /\ station = "shared"
  /\ Started(FALSE)
  /\ received' = NoReply
  /\ UNCHANGED <<accepting, callback, station, clock>>

\* ntp_sync_start: over a station of its own, which POST /ntp asks for only when
\* no network is saved.  disconnect() ends it at once when WiFi.mode fails.
Start ==
  /\ ~ntp.busy /\ station = "none"
  /\ \/ /\ Started(TRUE) /\ station' = "begun" /\ received' = NoReply
        /\ UNCHANGED <<accepting, callback>>
     \/ Disconnect("wifi_failed")
  /\ UNCHANGED clock

\* ntp_sync_poll: a reply, then the deadline, then the query.
PollReply == ntp.busy /\ received.some /\ Finish

\* Mutant of PollExpired: the deadline is looked at first.
PollExpiredFirst ==
  ntp.busy /\ ntp.expired /\ Disconnect("timeout") /\ UNCHANGED clock

\* Mutant of PollExpired: an attempt that is querying is not timed.
PollExpiredAssociating ==
  /\ ntp.busy /\ ~received.some
  /\ ntp.expired /\ ~ntp.querying
  /\ Disconnect("timeout") /\ UNCHANGED clock

PollExpired ==
  /\ ntp.busy /\ ~received.some
  /\ ntp.expired
  /\ Disconnect("timeout") /\ UNCHANGED clock

PollConnected ==
  /\ ntp.busy /\ ~received.some /\ ~ntp.expired
  /\ ~ntp.querying /\ station \in {"shared", "own"}
  /\ ntp' = [ntp EXCEPT !.querying = TRUE, !.status = "querying"]
  /\ accepting' = TRUE
  /\ UNCHANGED <<received, callback, station, clock>>

Poll == PollReply \/ PollExpired \/ PollConnected

-----------------------------------------------------------------------------
(* The TCP/IP task, the radio and time *)

\* sntp_sync_time, first half: the test of accepting.
ReplyTested ==
  /\ ~callback.some
  /\ accepting
  /\ \E valid \in BOOLEAN : callback' = [some |-> TRUE, valid |-> valid, own |-> TRUE]
  /\ UNCHANGED <<mainVars, received, station, clock>>

\* sntp_sync_time, second half: the store; an implausible time is stored as 1.
ReplyStored ==
  /\ callback.some
  /\ received' = callback /\ callback' = NoReply
  /\ UNCHANGED <<mainVars, station, clock>>

\* Associations come and go; the network service's is not this module's.
StationChanges ==
  /\ \/ station = "begun" /\ station' = "own"
     \/ station = "own" /\ station' = "begun"
     \/ station = "none" /\ ~ntp.busy /\ station' = "shared"
     \/ station = "shared" /\ station' = "none"
  /\ UNCHANGED <<mainVars, received, callback, clock>>

\* Twenty-five seconds have passed.
Expires ==
  /\ ntp.busy /\ ~ntp.expired
  /\ ntp' = [ntp EXCEPT !.expired = TRUE]
  /\ UNCHANGED <<accepting, received, callback, station, clock>>

Next ==
  \/ Connected \/ Start \/ Poll \/ Stop
  \/ ReplyTested \/ ReplyStored \/ StationChanges \/ Expires

Spec == Init /\ [][Next]_vars

\* network_poll and ota_poll poll on every loop(), and time passes.
FairSpec == Spec /\ WF_vars(Poll) /\ WF_vars(Expires)

-----------------------------------------------------------------------------
(* Safety *)

\* "Stop the background client before releasing its hostname or station
\* interface": the client, the flag and the station never outlive their attempt,
\* and GET /ntp reports an attempt in progress exactly while there is one.
AttemptInv ==
  /\ ntp.busy <=> ntp.status \in {"connecting", "querying"}
  /\ ~ntp.busy => ~ntp.querying /\ ~ntp.station
  /\ accepting <=> ntp.querying
  /\ station \in {"begun", "own"} <=> ntp.station
  /\ received.own \/ callback.own => ntp.querying

\* An implausible time never reaches the clock.
OnlyPlausibleTime == clock.some => clock.valid

\* An answer that came in time is never thrown away: it is taken before the
\* deadline is looked at, and before an attempt is cancelled.
AnswerIsApplied ==
  [][received.own /\ received.valid /\ ~received'.some => clock' = received]_vars

\* docs/WEB_SETTINGS.md:51: "The shared station remains connected on success,
\* timeout or session close."
SharedStationKept ==
  [][ntp.busy /\ station = "shared" /\ ntp' # ntp => station' = "shared"]_vars

\* An attempt from its start to its end.
AttemptRight == []AttemptInv /\ AnswerIsApplied /\ SharedStationKept

\* docs/WEB_SETTINGS.md:69: "Invalid/late/cancelled replies cannot silently
\* overwrite the shared clock."
LateRepliesIgnored == clock.some => clock.own

-----------------------------------------------------------------------------
(* Liveness *)

\* "One bounded asynchronous attempt": it ends whatever the server does.
AttemptEnds == ntp.busy ~> ~ntp.busy
=============================================================================
