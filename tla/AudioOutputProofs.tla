-------------------------- MODULE AudioOutputProofs --------------------------
(***************************************************************************)
(* Proofs about AudioOutput, for cues and clips of every length.           *)
(***************************************************************************)
EXTENDS AudioOutput, TLAPS

-----------------------------------------------------------------------------
(* Publishing *)

\* Four names are enough for a revision nothing alive has.
LEMMA Fresh ==
  ASSUME TypeOK
  PROVE  /\ FreshRevision \in Revisions
         /\ FreshRevision \notin {command.revision, worker.next.revision, worker.revision}
  <1>1. /\ command.revision \in 0..3 /\ worker.next.revision \in 0..3
        /\ worker.revision \in 0..3
    BY DEF TypeOK, Worker, Commands, Revisions
  <1>2. \E r \in Revisions :
          r \notin {command.revision, worker.next.revision, worker.revision}
    BY <1>1 DEF Revisions
  <1>3. QED
    BY <1>2 DEF FreshRevision

LEMMA PublishFacts ==
  ASSUME TypeOK, NEW sequence \in BOOLEAN, NEW sd \in BOOLEAN, Publish(sequence, sd)
  PROVE  /\ command' \in Commands
         /\ command'.sequence = sequence
         /\ command'.revision # worker.next.revision
         /\ playing' = sequence /\ pa' = sequence
  <1>1. command' = [sequence |-> sequence, sd |-> sd, revision |-> FreshRevision]
    BY DEF Publish
  <1>2. FreshRevision \in Revisions /\ FreshRevision # worker.next.revision
    BY Fresh
  <1>3. QED
    BY <1>1, <1>2 DEF Publish, Commands

\* After es8311_end nothing is commanded, playing or amplified, whether there
\* was a worker to mute or not.
LEMMA EndFacts ==
  ASSUME AudioInv, End
  PROVE  /\ command' \in Commands
         /\ ~command'.sequence
         /\ command'.revision = worker.next.revision => worker.next = command'
         /\ playing' = FALSE /\ pa' = FALSE
  <1>1. CASE initialized
    <2>1. Publish(FALSE, FALSE) /\ TypeOK
      BY <1>1 DEF End, AudioInv
    <2>2. QED
      BY <2>1, PublishFacts
  <1>2. CASE ~initialized
    <2>1. UNCHANGED <<command, playing, pa>> /\ ~command.sequence
      BY <1>2 DEF End, AudioInv, MainInv, SoundPolled
    <2>2. command \in Commands /\ ~pa /\ ~playing /\ pa \in BOOLEAN /\ playing \in BOOLEAN
      BY <2>1 DEF AudioInv, TypeOK, MutedStaysMuted
    <2>3. command.revision = worker.next.revision => worker.next = command
      BY DEF AudioInv, RevisionInv
    <2>4. QED
      BY <2>1, <2>2, <2>3
  <1>3. QED
    BY <1>1, <1>2

-----------------------------------------------------------------------------
(* The invariant *)

LEMMA InitInv == Init => AudioInv
  <1> SUFFICES ASSUME Init PROVE AudioInv
    OBVIOUS
  <1>1. Silence \in Commands
    BY DEF Silence, Commands, Revisions
  <1>2. worker \in Worker
    BY <1>1, AudioAssumption DEF Init, Worker, Revisions
  <1>3. TypeOK
    BY <1>1, <1>2 DEF Init, TypeOK, Sound
  <1>4. QED
    BY <1>3 DEF Init, AudioInv, Silence, MutedStaysMuted, CardInv, RevisionInv,
                MainInv, Reporting, CueDone, Audible

\* Setting up a command, and rendering a block, leave a worker.
LEMMA RestartedType ==
  ASSUME TypeOK
  PROVE  Restarted \in Worker
  <1>1. /\ worker.next.revision \in Revisions /\ worker \in Worker
        /\ (IF worker.next.sequence THEN CueBlocks ELSE 0) \in 0..CueBlocks
        /\ 0 \in 0..ClipBlocks /\ 0 \in 0..DrainBlocks
    BY AudioAssumption DEF TypeOK, Worker, Commands
  <1>2. QED
    BY <1>1 DEF Restarted, Worker

LEMMA RenderedType ==
  ASSUME TypeOK
  PROVE  Rendered \in Worker
  <1>1. Audible \in BOOLEAN
    BY DEF TypeOK, Worker, Commands, Audible
  <1>2. /\ Less(worker.notes) \in 0..CueBlocks /\ Less(worker.clip) \in 0..ClipBlocks
        /\ Less(worker.drain) \in 0..DrainBlocks
    BY AudioAssumption DEF TypeOK, Worker, Less
  <1>3. /\ (Audible \/ worker.drain > 0) \in BOOLEAN
        /\ (IF Audible THEN DrainBlocks ELSE Less(worker.drain)) \in 0..DrainBlocks
        /\ (IF worker.sd_selected THEN worker.notes ELSE Less(worker.notes)) \in 0..CueBlocks
        /\ (IF worker.sd_selected THEN Less(worker.clip) ELSE worker.clip) \in 0..ClipBlocks
        /\ worker \in Worker
    BY <1>1, <1>2, AudioAssumption DEF TypeOK, Worker
  <1>4. QED
    BY <1>3 DEF Rendered, Worker

\* The steps of the main task.
LEMMA MainStepInv ==
  ASSUME AudioInv, Main \/ SettingsChange
  PROVE  AudioInv'

  <1>1. CASE PollSilenced
    <2>1. End
      BY <1>1 DEF PollSilenced, Stop
    <2>2. /\ command' \in Commands /\ ~command'.sequence
          /\ command'.revision = worker.next.revision => worker.next = command'
          /\ playing' = FALSE /\ pa' = FALSE
      BY <2>1, EndFacts
    <2>8. sound' \in Sound
      BY <1>1 DEF AudioInv, TypeOK, Sound, PollSilenced, Stop, WithFailed
    <2>3. TypeOK'
      BY <2>2, <2>8, <1>1 DEF AudioInv, TypeOK, PollSilenced, InLoop, MainStep, cardVars
    <2>4. MutedStaysMuted' /\ CardInv'
      BY <2>2, <1>1
         DEF AudioInv, MutedStaysMuted, CardInv, PollSilenced, InLoop, MainStep, cardVars
    <2>5. RevisionInv'
      BY <2>2, <1>1
         DEF AudioInv, RevisionInv, Reporting, Audible, PollSilenced, InLoop, MainStep
    <2>6. MainInv'
      BY <2>2, <1>1 DEF MainInv, SoundPolled, PollSilenced, InLoop, MainStep, Stop, WithFailed
    <2>7. QED
      BY <2>3, <2>4, <2>5, <2>6 DEF AudioInv
  <1>2. CASE PollUnhealthy
    <2>1. End
      BY <1>2 DEF PollUnhealthy, Stop
    <2>2. /\ command' \in Commands /\ ~command'.sequence
          /\ command'.revision = worker.next.revision => worker.next = command'
          /\ playing' = FALSE /\ pa' = FALSE
      BY <2>1, EndFacts
    <2>8. sound' \in Sound
      BY <1>2 DEF AudioInv, TypeOK, Sound, PollUnhealthy, Stop, WithFailed
    <2>3. TypeOK'
      BY <2>2, <2>8, <1>2 DEF AudioInv, TypeOK, PollUnhealthy, InLoop, MainStep, cardVars
    <2>4. MutedStaysMuted' /\ CardInv'
      BY <2>2, <1>2
         DEF AudioInv, MutedStaysMuted, CardInv, PollUnhealthy, InLoop, MainStep, cardVars
    <2>5. RevisionInv'
      BY <2>2, <1>2
         DEF AudioInv, RevisionInv, Reporting, Audible, PollUnhealthy, InLoop, MainStep
    <2>6. MainInv'
      BY <2>2, <1>2 DEF MainInv, SoundPolled, PollUnhealthy, InLoop, MainStep, Stop, WithFailed
    <2>7. QED
      BY <2>3, <2>4, <2>5, <2>6 DEF AudioInv
  <1>3. CASE PollHealthy
    <2>8. sound' \in Sound
      BY <1>3 DEF AudioInv, TypeOK, PollHealthy, audioVars
    <2>3. TypeOK'
      BY <2>8, <1>3 DEF AudioInv, TypeOK, PollHealthy, InLoop, MainStep, audioVars, cardVars
    <2>4. MutedStaysMuted' /\ CardInv'
      BY <1>3
         DEF AudioInv, MutedStaysMuted, CardInv, PollHealthy, InLoop, MainStep, audioVars,
             cardVars
    <2>5. RevisionInv'
      BY <1>3
         DEF AudioInv, RevisionInv, Reporting, Audible, PollHealthy, InLoop, MainStep, audioVars
    <2>6. MainInv'
      BY <1>3
         DEF AudioInv, MainInv, SoundPolled, Reporting, CueDone, Audible, PollHealthy, InLoop,
             MainStep, audioVars
    <2>7. QED
      BY <2>3, <2>4, <2>5, <2>6 DEF AudioInv
  <1>4. CASE CancelCue
    <2>8. sound' \in Sound
      BY <1>4 DEF AudioInv, TypeOK, Sound, CancelCue, audioVars
    <2>3. TypeOK'
      BY <2>8, <1>4 DEF AudioInv, TypeOK, CancelCue, MainStep, audioVars, cardVars
    <2>4. MutedStaysMuted' /\ CardInv'
      BY <1>4 DEF AudioInv, MutedStaysMuted, CardInv, CancelCue, MainStep, audioVars, cardVars
    <2>5. RevisionInv'
      BY <1>4 DEF AudioInv, RevisionInv, Reporting, Audible, CancelCue, MainStep, audioVars
    <2>6. MainInv'
      BY <1>4
         DEF AudioInv, MainInv, SoundPolled, Reporting, CueDone, Audible, CancelCue, MainStep,
             audioVars
    <2>7. QED
      BY <2>3, <2>4, <2>5, <2>6 DEF AudioInv
  <1>5. CASE KeepCue
    <2>8. sound' \in Sound
      BY <1>5 DEF AudioInv, TypeOK, KeepCue, audioVars
    <2>3. TypeOK'
      BY <2>8, <1>5 DEF AudioInv, TypeOK, KeepCue, MainStep, audioVars, cardVars
    <2>4. MutedStaysMuted' /\ CardInv'
      BY <1>5 DEF AudioInv, MutedStaysMuted, CardInv, KeepCue, MainStep, audioVars, cardVars
    <2>5. RevisionInv'
      BY <1>5 DEF AudioInv, RevisionInv, Reporting, Audible, KeepCue, MainStep, audioVars
    <2>6. MainInv'
      BY <1>5
         DEF AudioInv, MainInv, SoundPolled, Reporting, CueDone, Audible, KeepCue, MainStep,
             audioVars
    <2>7. QED
      BY <2>3, <2>4, <2>5, <2>6 DEF AudioInv
  <1>6. CASE Mute
    <2>1. /\ command' \in Commands /\ command'.sequence = FALSE
          /\ command'.revision # worker.next.revision
          /\ playing' = FALSE /\ pa' = FALSE
      BY <1>6, PublishFacts DEF Mute, AudioInv
    <2>8. sound' \in Sound
      BY <1>6 DEF AudioInv, TypeOK, Mute
    <2>3. TypeOK'
      BY <2>1, <2>8, <1>6 DEF AudioInv, TypeOK, Mute, MainStep, cardVars
    <2>4. MutedStaysMuted' /\ CardInv'
      BY <2>1, <1>6 DEF AudioInv, MutedStaysMuted, CardInv, Mute, MainStep, cardVars
    <2>5. RevisionInv'
      BY <2>1, <1>6 DEF AudioInv, RevisionInv, Reporting, Audible, Mute, MainStep
    <2>6. MainInv'
      BY <2>1, <1>6 DEF AudioInv, MainInv, SoundPolled, Mute, MainStep
    <2>7. QED
      BY <2>3, <2>4, <2>5, <2>6 DEF AudioInv
  <1>7. CASE StartCue
    <2>8. sound' \in Sound
      BY <1>7 DEF AudioInv, TypeOK, Sound, StartCue, audioVars
    <2>3. TypeOK'
      BY <2>8, <1>7 DEF AudioInv, TypeOK, StartCue, MainStep, audioVars, cardVars
    <2>4. MutedStaysMuted' /\ CardInv'
      BY <1>7 DEF AudioInv, MutedStaysMuted, CardInv, StartCue, MainStep, audioVars, cardVars
    <2>5. RevisionInv'
      BY <1>7 DEF AudioInv, RevisionInv, Reporting, Audible, StartCue, MainStep, audioVars
    <2>6. MainInv'
      BY <1>7
         DEF AudioInv, MainInv, SoundPolled, Reporting, CueDone, Audible, StartCue, MainStep,
             audioVars
    <2>7. QED
      BY <2>3, <2>4, <2>5, <2>6 DEF AudioInv
  <1>8. CASE Continue
    <2>8. sound' \in Sound
      BY <1>8 DEF AudioInv, TypeOK, Continue, audioVars
    <2>3. TypeOK'
      BY <2>8, <1>8 DEF AudioInv, TypeOK, Continue, MainStep, audioVars, cardVars
    <2>4. MutedStaysMuted' /\ CardInv'
      BY <1>8 DEF AudioInv, MutedStaysMuted, CardInv, Continue, MainStep, audioVars, cardVars
    <2>5. RevisionInv'
      BY <1>8 DEF AudioInv, RevisionInv, Reporting, Audible, Continue, MainStep, audioVars
    <2>6. MainInv'
      BY <1>8
         DEF AudioInv, MainInv, SoundPolled, Reporting, CueDone, Audible, Continue, MainStep,
             audioVars
    <2>7. QED
      BY <2>3, <2>4, <2>5, <2>6 DEF AudioInv
  <1>9. CASE Attach
    <2>8. sound' \in Sound
      BY <1>9 DEF AudioInv, TypeOK, Sound, Attach
    <2>3. TypeOK'
      BY <2>8, <1>9 DEF AudioInv, TypeOK, Attach, MainStep, cardVars
    <2>4. MutedStaysMuted' /\ CardInv'
      BY <1>9 DEF AudioInv, MutedStaysMuted, CardInv, Attach, MainStep, cardVars
    <2>5. RevisionInv'
      BY <1>9 DEF AudioInv, RevisionInv, Reporting, Audible, Attach, MainStep
    <2>6. MainInv'
      BY <1>9 DEF AudioInv, MainInv, SoundPolled, Attach, MainStep
    <2>7. QED
      BY <2>3, <2>4, <2>5, <2>6 DEF AudioInv
  <1>10. CASE Play
    <2>8. sound' \in Sound
      BY <1>10 DEF AudioInv, TypeOK, Sound, Play, audioVars
    <2>3. TypeOK'
      BY <2>8, <1>10 DEF AudioInv, TypeOK, Play, MainStep, audioVars, cardVars
    <2>4. MutedStaysMuted' /\ CardInv'
      BY <1>10 DEF AudioInv, MutedStaysMuted, CardInv, Play, MainStep, audioVars, cardVars
    <2>5. RevisionInv'
      BY <1>10 DEF AudioInv, RevisionInv, Reporting, Audible, Play, MainStep, audioVars
    <2>6. MainInv'
      BY <1>10
         DEF AudioInv, MainInv, SoundPolled, Reporting, CueDone, Audible, Play, MainStep,
             audioVars
    <2>7. QED
      BY <2>3, <2>4, <2>5, <2>6 DEF AudioInv
  <1>11. CASE PlayFails
    <2>1. End
      BY <1>11 DEF PlayFails, Stop
    <2>2. /\ command' \in Commands /\ ~command'.sequence
          /\ command'.revision = worker.next.revision => worker.next = command'
          /\ playing' = FALSE /\ pa' = FALSE
      BY <2>1, EndFacts
    <2>8. sound' \in Sound
      BY <1>11 DEF AudioInv, TypeOK, Sound, PlayFails, Stop, WithFailed
    <2>3. TypeOK'
      BY <2>2, <2>8, <1>11 DEF AudioInv, TypeOK, PlayFails, MainStep, cardVars
    <2>4. MutedStaysMuted' /\ CardInv'
      BY <2>2, <1>11 DEF AudioInv, MutedStaysMuted, CardInv, PlayFails, MainStep, cardVars
    <2>5. RevisionInv'
      BY <2>2, <1>11 DEF AudioInv, RevisionInv, Reporting, Audible, PlayFails, MainStep
    <2>6. MainInv'
      BY <2>2, <1>11 DEF MainInv, SoundPolled, PlayFails, MainStep, Stop, WithFailed
    <2>7. QED
      BY <2>3, <2>4, <2>5, <2>6 DEF AudioInv
  <1>12. CASE PublishCue
    <2>1. /\ command' \in Commands /\ command'.sequence = TRUE
          /\ command'.revision # worker.next.revision
          /\ playing' = TRUE /\ pa' = TRUE
      BY <1>12, PublishFacts DEF PublishCue, AudioInv, TypeOK, Sound
    <2>8. sound' \in Sound
      BY <1>12 DEF AudioInv, TypeOK, Sound, PublishCue
    <2>3. TypeOK'
      BY <2>1, <2>8, <1>12 DEF AudioInv, TypeOK, PublishCue, MainStep, cardVars
    <2>4. MutedStaysMuted' /\ CardInv'
      BY <2>1, <1>12 DEF AudioInv, MutedStaysMuted, CardInv, PublishCue, MainStep, cardVars
    <2>5. RevisionInv'
      BY <2>1, <1>12 DEF AudioInv, RevisionInv, Reporting, Audible, PublishCue, MainStep
    <2>6. MainInv'
      BY <2>1, <1>12 DEF AudioInv, MainInv, SoundPolled, PublishCue, MainStep
    <2>7. QED
      BY <2>3, <2>4, <2>5, <2>6 DEF AudioInv
  <1>13. CASE CheckPlaying
    <2>8. sound' \in Sound
      BY <1>13 DEF AudioInv, TypeOK, Sound, CheckPlaying, audioVars
    <2>3. TypeOK'
      BY <2>8, <1>13 DEF AudioInv, TypeOK, CheckPlaying, MainStep, audioVars, cardVars
    <2>4. MutedStaysMuted' /\ CardInv'
      BY <1>13
         DEF AudioInv, MutedStaysMuted, CardInv, CheckPlaying, MainStep, audioVars, cardVars
    <2>5. RevisionInv'
      BY <1>13 DEF AudioInv, RevisionInv, Reporting, Audible, CheckPlaying, MainStep, audioVars
    <2>6. MainInv'
      BY <1>13
         DEF AudioInv, MainInv, SoundPolled, Reporting, CueDone, Audible, CheckPlaying, MainStep,
             audioVars
    <2>7. QED
      BY <2>3, <2>4, <2>5, <2>6 DEF AudioInv
  <1>14. CASE OpenCardSession
    <2>1. End
      BY <1>14 DEF OpenCardSession, Stop
    <2>2. /\ command' \in Commands /\ ~command'.sequence
          /\ command'.revision = worker.next.revision => worker.next = command'
          /\ playing' = FALSE /\ pa' = FALSE
      BY <2>1, EndFacts
    <2>8. sound' \in Sound
      BY <1>14 DEF AudioInv, TypeOK, Sound, OpenCardSession, InSession, Stop, WithFailed
    <2>3. TypeOK'
      BY <2>2, <2>8, <1>14 DEF AudioInv, TypeOK, OpenCardSession, InSession, cardVars
    <2>4. MutedStaysMuted' /\ CardInv'
      BY <2>2, <1>14
         DEF AudioInv, MutedStaysMuted, CardInv, OpenCardSession, InSession, cardVars
    <2>5. RevisionInv'
      BY <2>2, <1>14 DEF AudioInv, RevisionInv, Reporting, Audible, OpenCardSession, InSession
    <2>6. MainInv'
      BY <2>2, <1>14 DEF MainInv, SoundPolled, OpenCardSession, InSession, Stop, WithFailed
    <2>7. QED
      BY <2>3, <2>4, <2>5, <2>6 DEF AudioInv
  <1>15. CASE OpenOtaSession
    <2>1. End
      BY <1>15 DEF OpenOtaSession
    <2>2. /\ command' \in Commands /\ ~command'.sequence
          /\ command'.revision = worker.next.revision => worker.next = command'
          /\ playing' = FALSE /\ pa' = FALSE
      BY <2>1, EndFacts
    <2>8. sound' \in Sound
      BY <1>15 DEF AudioInv, TypeOK, OpenOtaSession, InSession
    <2>3. TypeOK'
      BY <2>2, <2>8, <1>15 DEF AudioInv, TypeOK, OpenOtaSession, InSession, cardVars
    <2>4. MutedStaysMuted' /\ CardInv'
      BY <2>2, <1>15 DEF AudioInv, MutedStaysMuted, CardInv, OpenOtaSession, InSession, cardVars
    <2>5. RevisionInv'
      BY <2>2, <1>15 DEF AudioInv, RevisionInv, Reporting, Audible, OpenOtaSession, InSession
    <2>6. MainInv'
      BY <2>2, <1>15 DEF AudioInv, MainInv, SoundPolled, OpenOtaSession, InSession
    <2>7. QED
      BY <2>3, <2>4, <2>5, <2>6 DEF AudioInv
  <1>16. CASE CardLeased
    <2>8. sound' \in Sound
      BY <1>16 DEF AudioInv, TypeOK, CardLeased, InSession, audioVars
    <2>3. TypeOK'
      BY <2>8, <1>16 DEF AudioInv, TypeOK, CardLeased, InSession, audioVars
    <2>4. MutedStaysMuted' /\ CardInv'
      BY <1>16 DEF AudioInv, MutedStaysMuted, CardInv, CardLeased, InSession, audioVars
    <2>5. RevisionInv'
      BY <1>16 DEF AudioInv, RevisionInv, Reporting, Audible, CardLeased, InSession, audioVars
    <2>6. MainInv'
      BY <1>16
         DEF AudioInv, MainInv, SoundPolled, Reporting, CueDone, Audible, CardLeased, InSession,
             audioVars
    <2>7. QED
      BY <2>3, <2>4, <2>5, <2>6 DEF AudioInv
  <1>17. CASE CardMounts
    <2>8. sound' \in Sound
      BY <1>17 DEF AudioInv, TypeOK, CardMounts, InSession, audioVars
    <2>3. TypeOK'
      BY <2>8, <1>17 DEF AudioInv, TypeOK, CardMounts, InSession, audioVars
    <2>4. MutedStaysMuted' /\ CardInv'
      BY <1>17 DEF AudioInv, MutedStaysMuted, CardInv, CardMounts, InSession, audioVars
    <2>5. RevisionInv'
      BY <1>17 DEF AudioInv, RevisionInv, Reporting, Audible, CardMounts, InSession, audioVars
    <2>6. MainInv'
      BY <1>17
         DEF AudioInv, MainInv, SoundPolled, Reporting, CueDone, Audible, CardMounts, InSession,
             audioVars
    <2>7. QED
      BY <2>3, <2>4, <2>5, <2>6 DEF AudioInv
  <1>18. CASE CardUnmounts
    <2>8. sound' \in Sound
      BY <1>18 DEF AudioInv, TypeOK, CardUnmounts, InSession, audioVars
    <2>3. TypeOK'
      BY <2>8, <1>18 DEF AudioInv, TypeOK, CardUnmounts, InSession, audioVars
    <2>4. MutedStaysMuted' /\ CardInv'
      BY <1>18 DEF AudioInv, MutedStaysMuted, CardInv, CardUnmounts, InSession, audioVars
    <2>5. RevisionInv'
      BY <1>18 DEF AudioInv, RevisionInv, Reporting, Audible, CardUnmounts, InSession, audioVars
    <2>6. MainInv'
      BY <1>18
         DEF AudioInv, MainInv, SoundPolled, Reporting, CueDone, Audible, CardUnmounts, InSession,
             audioVars
    <2>7. QED
      BY <2>3, <2>4, <2>5, <2>6 DEF AudioInv
  <1>19. CASE CardReturned
    <2>8. sound' \in Sound
      BY <1>19 DEF AudioInv, TypeOK, CardReturned, InSession, audioVars
    <2>3. TypeOK'
      BY <2>8, <1>19 DEF AudioInv, TypeOK, CardReturned, InSession, audioVars
    <2>4. MutedStaysMuted' /\ CardInv'
      BY <1>19 DEF AudioInv, MutedStaysMuted, CardInv, CardReturned, InSession, audioVars
    <2>5. RevisionInv'
      BY <1>19 DEF AudioInv, RevisionInv, Reporting, Audible, CardReturned, InSession, audioVars
    <2>6. MainInv'
      BY <1>19
         DEF AudioInv, MainInv, SoundPolled, Reporting, CueDone, Audible, CardReturned, InSession,
             audioVars
    <2>7. QED
      BY <2>3, <2>4, <2>5, <2>6 DEF AudioInv
  <1>20. CASE WaitExpires
    <2>8. sound' \in Sound
      BY <1>20 DEF AudioInv, TypeOK, WaitExpires, InSession, audioVars
    <2>3. TypeOK'
      BY <2>8, <1>20 DEF AudioInv, TypeOK, WaitExpires, InSession, audioVars, cardVars
    <2>4. MutedStaysMuted' /\ CardInv'
      BY <1>20
         DEF AudioInv, MutedStaysMuted, CardInv, WaitExpires, InSession, audioVars, cardVars
    <2>5. RevisionInv'
      BY <1>20 DEF AudioInv, RevisionInv, Reporting, Audible, WaitExpires, InSession, audioVars
    <2>6. MainInv'
      BY <1>20
         DEF AudioInv, MainInv, SoundPolled, Reporting, CueDone, Audible, WaitExpires, InSession,
             audioVars
    <2>7. QED
      BY <2>3, <2>4, <2>5, <2>6 DEF AudioInv
  <1>21. CASE CloseSession
    <2>1. End
      BY <1>21 DEF CloseSession, Stop
    <2>2. /\ command' \in Commands /\ ~command'.sequence
          /\ command'.revision = worker.next.revision => worker.next = command'
          /\ playing' = FALSE /\ pa' = FALSE
      BY <2>1, EndFacts
    <2>8. sound' \in Sound
      BY <1>21 DEF AudioInv, TypeOK, Sound, CloseSession, InSession, Stop, WithFailed
    <2>3. TypeOK'
      BY <2>2, <2>8, <1>21 DEF AudioInv, TypeOK, CloseSession, InSession, cardVars
    <2>4. MutedStaysMuted' /\ CardInv'
      BY <2>2, <1>21 DEF AudioInv, MutedStaysMuted, CardInv, CloseSession, InSession, cardVars
    <2>5. RevisionInv'
      BY <2>2, <1>21 DEF AudioInv, RevisionInv, Reporting, Audible, CloseSession, InSession
    <2>6. MainInv'
      BY <2>2, <1>21 DEF MainInv, SoundPolled, CloseSession, InSession, Stop, WithFailed
    <2>7. QED
      BY <2>3, <2>4, <2>5, <2>6 DEF AudioInv
  <1>22. CASE SettingsChange
    <2>8. sound' \in Sound
      BY <1>22 DEF AudioInv, TypeOK, SettingsChange, audioVars
    <2>3. TypeOK'
      BY <2>8, <1>22 DEF AudioInv, TypeOK, SettingsChange, MainStep, audioVars, cardVars
    <2>4. MutedStaysMuted' /\ CardInv'
      BY <1>22
         DEF AudioInv, MutedStaysMuted, CardInv, SettingsChange, MainStep, audioVars, cardVars
    <2>5. RevisionInv'
      BY <1>22
         DEF AudioInv, RevisionInv, Reporting, Audible, SettingsChange, MainStep, audioVars
    <2>6. MainInv'
      BY <1>22
         DEF AudioInv, MainInv, SoundPolled, Reporting, CueDone, Audible, SettingsChange,
             MainStep, audioVars
    <2>7. QED
      BY <2>3, <2>4, <2>5, <2>6 DEF AudioInv
  <1>23. CASE PageAction
    <2>1. End
      BY <1>23 DEF PageAction, Stop
    <2>2. /\ command' \in Commands /\ ~command'.sequence
          /\ command'.revision = worker.next.revision => worker.next = command'
          /\ playing' = FALSE /\ pa' = FALSE
      BY <2>1, EndFacts
    <2>8. sound' \in Sound
      BY <1>23 DEF AudioInv, TypeOK, Sound, PageAction, InSession, Stop, WithFailed
    <2>3. TypeOK'
      BY <2>2, <2>8, <1>23 DEF AudioInv, TypeOK, PageAction, InSession, cardVars
    <2>4. MutedStaysMuted' /\ CardInv'
      BY <2>2, <1>23 DEF AudioInv, MutedStaysMuted, CardInv, PageAction, InSession, cardVars
    <2>5. RevisionInv'
      BY <2>2, <1>23 DEF AudioInv, RevisionInv, Reporting, Audible, PageAction, InSession
    <2>6. MainInv'
      BY <2>2, <1>23 DEF MainInv, SoundPolled, PageAction, InSession, Stop, WithFailed
    <2>7. QED
      BY <2>3, <2>4, <2>5, <2>6 DEF AudioInv
  <1>24. QED
    BY <1>1, <1>2, <1>3, <1>4, <1>5, <1>6, <1>7, <1>8, <1>9, <1>10, <1>11, <1>12, <1>13,
       <1>14, <1>15, <1>16, <1>17, <1>18, <1>19, <1>20, <1>21, <1>22, <1>23
       DEF Main

\* The steps of the worker.
LEMMA WorkerStepInv ==
  ASSUME AudioInv, Audio \/ BackoffEnds
  PROVE  AudioInv'

  <1>1. CASE CopyCommand
    <2>1. worker' \in Worker
      BY <1>1 DEF AudioInv, TypeOK, Worker, CopyCommand, WorkerStep
    <2>2. TypeOK'
      BY <1>1, <2>1 DEF AudioInv, TypeOK, CopyCommand, WorkerStep, mainVars, audioVars, cardVars
    <2>3. MutedStaysMuted'
      BY <1>1, <2>2
         DEF AudioInv, MutedStaysMuted, CopyCommand, audioVars, WorkerStep, mainVars, audioVars
    <2>4. CardInv'
      BY <1>1
         DEF AudioInv, CardInv, CopyCommand, audioVars, WorkerStep, mainVars, audioVars,
             cardVars
    <2>5. RevisionInv'
      BY <1>1
         DEF AudioInv, RevisionInv, Reporting, CopyCommand, audioVars, WorkerStep, mainVars,
             audioVars
    <2>6. MainInv'
      BY <1>1
         DEF AudioInv, MainInv, SoundPolled, CueDone, Audible, CopyCommand, audioVars, WorkerStep,
             mainVars
    <2>7. QED
      BY <2>2, <2>3, <2>4, <2>5, <2>6 DEF AudioInv
  <1>2. CASE StartFromCard
    <2>1. CASE worker.mounted /\ worker' = [Restarted EXCEPT !.pc = "open"] /\ UNCHANGED sd_owner
      <3>1. worker' \in Worker
        BY <1>2, <2>1, RestartedType DEF AudioInv, Worker
      <3>2. TypeOK'
        BY <1>2, <2>1, <3>1 DEF AudioInv, TypeOK, StartFromCard, WorkerStep, mainVars, audioVars
      <3>3. MutedStaysMuted'
        BY <1>2, <2>1, <3>2
           DEF AudioInv, MutedStaysMuted, StartFromCard, Restarted, audioVars, WorkerStep,
               mainVars, audioVars
      <3>4. CardInv'
        BY <1>2, <2>1
           DEF AudioInv, CardInv, StartFromCard, Restarted, audioVars, WorkerStep, mainVars,
               audioVars
      <3>5. RevisionInv'
        BY <1>2, <2>1
           DEF AudioInv, RevisionInv, Reporting, StartFromCard, Restarted, audioVars,
               WorkerStep, mainVars, audioVars
      <3>6. MainInv'
        BY <1>2, <2>1
           DEF AudioInv, RevisionInv, MainInv, SoundPolled, CueDone, StartFromCard, Restarted,
               audioVars, WorkerStep, mainVars
      <3>7. QED
        BY <3>2, <3>3, <3>4, <3>5, <3>6 DEF AudioInv
    <2>2. CASE ~worker.mounted /\ worker' = [Restarted EXCEPT !.pc = "render"] /\ UNCHANGED sd_owner
      <3>1. worker' \in Worker
        BY <1>2, <2>2, RestartedType DEF AudioInv, Worker
      <3>2. TypeOK'
        BY <1>2, <2>2, <3>1 DEF AudioInv, TypeOK, StartFromCard, WorkerStep, mainVars, audioVars
      <3>3. MutedStaysMuted'
        BY <1>2, <2>2, <3>2
           DEF AudioInv, MutedStaysMuted, StartFromCard, Restarted, audioVars, WorkerStep,
               mainVars, audioVars
      <3>4. CardInv'
        BY <1>2, <2>2
           DEF AudioInv, CardInv, StartFromCard, Restarted, audioVars, WorkerStep, mainVars,
               audioVars
      <3>5. RevisionInv'
        BY <1>2, <2>2
           DEF AudioInv, RevisionInv, Reporting, StartFromCard, Restarted, audioVars,
               WorkerStep, mainVars, audioVars
      <3>6. MainInv'
        BY <1>2, <2>2
           DEF AudioInv, RevisionInv, MainInv, SoundPolled, CueDone, StartFromCard, Restarted,
               audioVars, WorkerStep, mainVars
      <3>7. QED
        BY <3>2, <3>3, <3>4, <3>5, <3>6 DEF AudioInv
    <2>3. CASE ~worker.mounted /\ sd_owner = "None" /\ sd_owner' = "Audio" /\ worker' = [Restarted EXCEPT !.pc = "mount"]
      <3>1. worker' \in Worker
        BY <1>2, <2>3, RestartedType DEF AudioInv, Worker
      <3>2. TypeOK'
        BY <1>2, <2>3, <3>1 DEF AudioInv, TypeOK, StartFromCard, WorkerStep, mainVars, audioVars
      <3>3. MutedStaysMuted'
        BY <1>2, <2>3, <3>2
           DEF AudioInv, MutedStaysMuted, StartFromCard, Restarted, audioVars, WorkerStep,
               mainVars, audioVars
      <3>4. CardInv'
        BY <1>2, <2>3
           DEF AudioInv, CardInv, StartFromCard, Restarted, audioVars, WorkerStep, mainVars,
               audioVars
      <3>5. RevisionInv'
        BY <1>2, <2>3
           DEF AudioInv, RevisionInv, Reporting, StartFromCard, Restarted, audioVars,
               WorkerStep, mainVars, audioVars
      <3>6. MainInv'
        BY <1>2, <2>3
           DEF AudioInv, RevisionInv, MainInv, SoundPolled, CueDone, StartFromCard, Restarted,
               audioVars, WorkerStep, mainVars
      <3>7. QED
        BY <3>2, <3>3, <3>4, <3>5, <3>6 DEF AudioInv
    <2>4. QED
      BY <1>2, <2>1, <2>2, <2>3 DEF StartFromCard
  <1>3. CASE StartWithoutCard
    <2>1. worker' \in Worker
      BY <1>3, RestartedType DEF AudioInv, Worker, StartWithoutCard
    <2>2. TypeOK'
      BY <1>3, <2>1
         DEF AudioInv, TypeOK, StartWithoutCard, WorkerStep, mainVars, audioVars, cardVars
    <2>3. MutedStaysMuted'
      BY <1>3, <2>2
         DEF AudioInv, MutedStaysMuted, StartWithoutCard, Restarted, audioVars, WorkerStep,
             mainVars, audioVars
    <2>4. CardInv'
      BY <1>3
         DEF AudioInv, CardInv, StartWithoutCard, Restarted, audioVars, WorkerStep, mainVars,
             audioVars, cardVars
    <2>5. RevisionInv'
      BY <1>3
         DEF AudioInv, RevisionInv, Reporting, StartWithoutCard, Restarted, audioVars,
             WorkerStep, mainVars, audioVars
    <2>6. MainInv'
      BY <1>3
         DEF AudioInv, RevisionInv, MainInv, SoundPolled, CueDone, StartWithoutCard, Restarted,
             audioVars, WorkerStep, mainVars
    <2>7. QED
      BY <2>2, <2>3, <2>4, <2>5, <2>6 DEF AudioInv
  <1>4. CASE Mount
    <2>1. CASE worker' = [worker EXCEPT !.mounted = TRUE, !.backoff = FALSE, !.pc = "open"]
      <3>1. worker' \in Worker
        BY <1>4, <2>1 DEF AudioInv, TypeOK, Worker
      <3>2. TypeOK'
        BY <1>4, <2>1, <3>1 DEF AudioInv, TypeOK, Mount, WorkerStep, mainVars, audioVars
      <3>3. MutedStaysMuted'
        BY <1>4, <2>1, <3>2
           DEF AudioInv, MutedStaysMuted, Mount, audioVars, WorkerStep, mainVars, audioVars
      <3>4. CardInv'
        BY <1>4, <2>1 DEF AudioInv, CardInv, Mount, audioVars, WorkerStep, mainVars, audioVars
      <3>5. RevisionInv'
        BY <1>4, <2>1
           DEF AudioInv, RevisionInv, Reporting, Mount, audioVars, WorkerStep, mainVars,
               audioVars
      <3>6. MainInv'
        BY <1>4, <2>1
           DEF AudioInv, MainInv, SoundPolled, Reporting, CueDone, Mount, audioVars, WorkerStep,
               mainVars
      <3>7. QED
        BY <3>2, <3>3, <3>4, <3>5, <3>6 DEF AudioInv
    <2>2. CASE worker' = [worker EXCEPT !.backoff = TRUE, !.back = "render", !.pc = "unmount"]
      <3>1. worker' \in Worker
        BY <1>4, <2>2 DEF AudioInv, TypeOK, Worker
      <3>2. TypeOK'
        BY <1>4, <2>2, <3>1 DEF AudioInv, TypeOK, Mount, WorkerStep, mainVars, audioVars
      <3>3. MutedStaysMuted'
        BY <1>4, <2>2, <3>2
           DEF AudioInv, MutedStaysMuted, Mount, audioVars, WorkerStep, mainVars, audioVars
      <3>4. CardInv'
        BY <1>4, <2>2 DEF AudioInv, CardInv, Mount, audioVars, WorkerStep, mainVars, audioVars
      <3>5. RevisionInv'
        BY <1>4, <2>2
           DEF AudioInv, RevisionInv, Reporting, Mount, audioVars, WorkerStep, mainVars,
               audioVars
      <3>6. MainInv'
        BY <1>4, <2>2
           DEF AudioInv, MainInv, SoundPolled, Reporting, CueDone, Mount, audioVars, WorkerStep,
               mainVars
      <3>7. QED
        BY <3>2, <3>3, <3>4, <3>5, <3>6 DEF AudioInv
    <2>3. QED
      BY <1>4, <2>1, <2>2 DEF Mount
  <1>5. CASE OpenFile
    <2>1. CASE \E blocks \in 1..ClipBlocks : worker' = [worker EXCEPT !.clip = blocks, !.sd_selected = TRUE, !.pc = "render"]
      <3>1. worker' \in Worker
        <4>1. PICK blocks \in 1..ClipBlocks :
                worker' = [worker EXCEPT !.clip = blocks, !.sd_selected = TRUE, !.pc = "render"]
          BY <2>1
        <4>2. blocks \in 0..ClipBlocks
          BY AudioAssumption
        <4>3. QED
          BY <4>1, <4>2 DEF AudioInv, TypeOK, Worker
      <3>2. TypeOK'
        <4>1. UNCHANGED <<audioVars, cardVars, mainVars>>
          BY <1>5, Zenon DEF OpenFile, WorkerStep
        <4>2. QED
          BY <3>1, <4>1 DEF AudioInv, TypeOK, mainVars, audioVars, cardVars
      <3>3. MutedStaysMuted'
        BY <1>5, <2>1, <3>2
           DEF AudioInv, MutedStaysMuted, OpenFile, Goes, audioVars, WorkerStep, mainVars,
               audioVars
      <3>4. CardInv'
        BY <1>5, <2>1
           DEF AudioInv, TypeOK, Worker, CardInv, OpenFile, Goes, audioVars, WorkerStep,
               mainVars, audioVars, cardVars
      <3>5. RevisionInv'
        <4>1. UNCHANGED <<command, playing, sound, settings, session, pc>>
          BY <1>5, Zenon DEF OpenFile, WorkerStep, audioVars, mainVars
        <4>2. /\ worker.pc = "open" /\ worker'.pc = "render" /\ worker'.revision = worker.revision
              /\ worker'.next = worker.next /\ worker'.drain = worker.drain
          BY <1>5, <2>1 DEF AudioInv, TypeOK, Worker, OpenFile, WorkerStep
        <4>3. QED
          BY <4>1, <4>2 DEF AudioInv, RevisionInv, Reporting
      <3>6. MainInv'
        BY <1>5, <2>1
           DEF AudioInv, MainInv, SoundPolled, Reporting, CueDone, OpenFile, Goes, audioVars,
               WorkerStep, mainVars
      <3>7. QED
        BY <3>2, <3>3, <3>4, <3>5, <3>6 DEF AudioInv
    <2>2. CASE worker' = [worker EXCEPT !.pc = "render"]
      <3>1. worker' \in Worker
        BY <1>5, <2>2, AudioAssumption DEF AudioInv, TypeOK, Worker, Goes
      <3>2. TypeOK'
        <4>1. UNCHANGED <<audioVars, cardVars, mainVars>>
          BY <1>5, Zenon DEF OpenFile, WorkerStep
        <4>2. QED
          BY <3>1, <4>1 DEF AudioInv, TypeOK, mainVars, audioVars, cardVars
      <3>3. MutedStaysMuted'
        BY <1>5, <2>2, <3>2
           DEF AudioInv, MutedStaysMuted, OpenFile, Goes, audioVars, WorkerStep, mainVars,
               audioVars
      <3>4. CardInv'
        BY <1>5, <2>2
           DEF AudioInv, CardInv, OpenFile, Goes, audioVars, WorkerStep, mainVars, audioVars,
               cardVars
      <3>5. RevisionInv'
        BY <1>5, <2>2
           DEF AudioInv, RevisionInv, Reporting, OpenFile, Goes, audioVars, WorkerStep,
               mainVars, audioVars
      <3>6. MainInv'
        BY <1>5, <2>2
           DEF AudioInv, MainInv, SoundPolled, Reporting, CueDone, OpenFile, Goes, audioVars,
               WorkerStep, mainVars
      <3>7. QED
        BY <3>2, <3>3, <3>4, <3>5, <3>6 DEF AudioInv
    <2>3. QED
      BY <1>5, <2>1, <2>2 DEF OpenFile, Goes
  <1>6. CASE Unmount
    <2>1. worker' \in Worker
      BY <1>6 DEF AudioInv, TypeOK, Worker, Unmount
    <2>2. TypeOK'
      BY <1>6, <2>1 DEF AudioInv, TypeOK, Unmount, WorkerStep, mainVars, audioVars
    <2>3. MutedStaysMuted'
      BY <1>6, <2>2
         DEF AudioInv, MutedStaysMuted, Unmount, audioVars, WorkerStep, mainVars, audioVars
    <2>4. CardInv'
      BY <1>6 DEF AudioInv, CardInv, Unmount, audioVars, WorkerStep, mainVars, audioVars
    <2>5. RevisionInv'
      BY <1>6
         DEF AudioInv, RevisionInv, Reporting, Audible, Unmount, audioVars, WorkerStep,
             mainVars, audioVars
    <2>6. MainInv'
      BY <1>6
         DEF AudioInv, MainInv, SoundPolled, Reporting, CueDone, Audible, Unmount, audioVars,
             WorkerStep, mainVars
    <2>7. QED
      BY <2>2, <2>3, <2>4, <2>5, <2>6 DEF AudioInv
  <1>7. CASE Release
    <2>1. worker' \in Worker
      BY <1>7 DEF AudioInv, TypeOK, Worker, Release, Goes
    <2>2. TypeOK'
      BY <1>7, <2>1 DEF AudioInv, TypeOK, Release, WorkerStep, mainVars, audioVars
    <2>3. MutedStaysMuted'
      BY <1>7, <2>2
         DEF AudioInv, MutedStaysMuted, Release, Goes, audioVars, WorkerStep, mainVars,
             audioVars
    <2>4. CardInv'
      BY <1>7
         DEF AudioInv, TypeOK, Worker, CardInv, Release, Goes, audioVars, WorkerStep, mainVars,
             audioVars
    <2>5. RevisionInv'
      BY <1>7
         DEF AudioInv, TypeOK, Worker, RevisionInv, Reporting, Audible, Release, Goes,
             audioVars, WorkerStep, mainVars, audioVars
    <2>6. MainInv'
      BY <1>7
         DEF AudioInv, MainInv, SoundPolled, Reporting, CueDone, Audible, Release, Goes,
             audioVars, WorkerStep, mainVars
    <2>7. QED
      BY <2>2, <2>3, <2>4, <2>5, <2>6 DEF AudioInv
  <1>8. CASE Render
    <2>1. worker' \in Worker
      BY <1>8, RenderedType DEF AudioInv, Render
    <2>2. TypeOK'
      BY <1>8, <2>1 DEF AudioInv, TypeOK, Render, WorkerStep, mainVars, audioVars, cardVars
    <2>3. MutedStaysMuted'
      BY <1>8, <2>2
         DEF AudioInv, MutedStaysMuted, Render, Rendered, Less, audioVars, WorkerStep, mainVars,
             audioVars
    <2>4. CardInv'
      BY <1>8
         DEF AudioInv, CardInv, Render, Rendered, Less, audioVars, WorkerStep, mainVars,
             audioVars, cardVars
    <2>5. RevisionInv'
      BY <1>8
         DEF AudioInv, TypeOK, Worker, Commands, RevisionInv, Audible, Render, Rendered, Less,
             audioVars, WorkerStep, mainVars, audioVars
    <2>6. MainInv'
      BY <1>8
         DEF AudioInv, MainInv, SoundPolled, Reporting, CueDone, Audible, Render, Rendered, Less,
             audioVars, WorkerStep, mainVars
    <2>7. QED
      BY <2>2, <2>3, <2>4, <2>5, <2>6 DEF AudioInv
  <1>9. CASE ReadFails
    <2>1. worker' \in Worker
      <3>1. Rendered \in Worker /\ 0 \in 0..ClipBlocks
        BY RenderedType, AudioAssumption DEF AudioInv
      <3>2. QED
        BY <1>9, <3>1 DEF ReadFails, Worker
    <2>2. TypeOK'
      BY <1>9, <2>1 DEF AudioInv, TypeOK, ReadFails, WorkerStep, mainVars, audioVars, cardVars
    <2>3. MutedStaysMuted'
      BY <1>9, <2>2
         DEF AudioInv, MutedStaysMuted, ReadFails, Rendered, Less, audioVars, WorkerStep,
             mainVars, audioVars
    <2>4. CardInv'
      BY <1>9
         DEF AudioInv, CardInv, ReadFails, Rendered, Less, audioVars, WorkerStep, mainVars,
             audioVars, cardVars
    <2>5. RevisionInv'
      BY <1>9
         DEF AudioInv, TypeOK, Worker, Commands, RevisionInv, Audible, ReadFails, Rendered,
             Less, audioVars, WorkerStep, mainVars, audioVars
    <2>6. MainInv'
      BY <1>9
         DEF AudioInv, MainInv, SoundPolled, CueDone, Audible, ReadFails, Rendered, Less,
             audioVars, WorkerStep, mainVars
    <2>7. QED
      BY <2>2, <2>3, <2>4, <2>5, <2>6 DEF AudioInv
  <1>10. CASE Report
    <2>1. worker' \in Worker
      BY <1>10 DEF AudioInv, TypeOK, Worker, Report, Goes
    <2>2. TypeOK'
      BY <1>10, <2>1
         DEF AudioInv, TypeOK, Worker, Commands, Report, WorkerStep, mainVars, audioVars,
             cardVars
    <2>3. MutedStaysMuted'
      BY <1>10, <2>2
         DEF AudioInv, MutedStaysMuted, RevisionInv, Reporting, Report, Goes, WorkerStep,
             mainVars, audioVars
    <2>4. CardInv'
      BY <1>10 DEF AudioInv, CardInv, Report, Goes, WorkerStep, mainVars, audioVars, cardVars
    <2>5. RevisionInv'
      BY <1>10
         DEF AudioInv, RevisionInv, Reporting, Report, Goes, WorkerStep, mainVars, audioVars
    <2>6. MainInv'
      BY <1>10
         DEF AudioInv, TypeOK, RevisionInv, MainInv, SoundPolled, Reporting, CueDone, Audible,
             Report, Goes, WorkerStep, mainVars, audioVars
    <2>7. QED
      BY <2>2, <2>3, <2>4, <2>5, <2>6 DEF AudioInv
  <1>11. CASE Write
    <2>1. CASE UNCHANGED audioVars
      <3>1. worker' \in Worker
        BY <1>11, <2>1 DEF AudioInv, TypeOK, Worker, Goes, Write
      <3>2. TypeOK'
        BY <1>11, <2>1, <3>1
           DEF AudioInv, TypeOK, Write, WorkerStep, mainVars, audioVars, cardVars
      <3>3. MutedStaysMuted'
        BY <1>11, <2>1, <3>2
           DEF AudioInv, MutedStaysMuted, Write, Goes, audioVars, WorkerStep, mainVars,
               audioVars
      <3>4. CardInv'
        BY <1>11, <2>1
           DEF AudioInv, CardInv, Write, Goes, audioVars, WorkerStep, mainVars, audioVars,
               cardVars
      <3>5. RevisionInv'
        BY <1>11, <2>1
           DEF AudioInv, RevisionInv, Reporting, Write, Goes, audioVars, WorkerStep, mainVars,
               audioVars
      <3>6. MainInv'
        BY <1>11, <2>1
           DEF AudioInv, MainInv, SoundPolled, CueDone, Audible, Write, Goes, audioVars,
               WorkerStep, mainVars
      <3>7. QED
        BY <3>2, <3>3, <3>4, <3>5, <3>6 DEF AudioInv
    <2>2. CASE transport_failed' = TRUE /\ playing' = FALSE /\ pa' = FALSE /\ UNCHANGED <<command, initialized>>
      <3>1. worker' \in Worker
        BY <1>11, <2>2 DEF AudioInv, TypeOK, Worker, Goes, Write
      <3>2. TypeOK'
        BY <1>11, <2>2, <3>1
           DEF AudioInv, TypeOK, Write, WorkerStep, mainVars, audioVars, cardVars
      <3>3. MutedStaysMuted'
        BY <1>11, <2>2, <3>2
           DEF AudioInv, MutedStaysMuted, Write, Goes, audioVars, WorkerStep, mainVars,
               audioVars
      <3>4. CardInv'
        BY <1>11, <2>2
           DEF AudioInv, CardInv, Write, Goes, audioVars, WorkerStep, mainVars, audioVars,
               cardVars
      <3>5. RevisionInv'
        BY <1>11, <2>2
           DEF AudioInv, RevisionInv, Reporting, Write, Goes, audioVars, WorkerStep, mainVars,
               audioVars
      <3>6. MainInv'
        BY <1>11, <2>2
           DEF AudioInv, MainInv, SoundPolled, Write, Goes, audioVars, WorkerStep, mainVars
      <3>7. QED
        BY <3>2, <3>3, <3>4, <3>5, <3>6 DEF AudioInv
    <2>3. QED
      BY <1>11, <2>1, <2>2 DEF Write
  <1>12. CASE BackoffEnds
    <2>1. worker' \in Worker
      BY <1>12 DEF AudioInv, TypeOK, Worker, BackoffEnds
    <2>2. TypeOK'
      BY <1>12, <2>1
         DEF AudioInv, TypeOK, BackoffEnds, WorkerStep, mainVars, audioVars, cardVars
    <2>3. MutedStaysMuted'
      BY <1>12, <2>2
         DEF AudioInv, MutedStaysMuted, BackoffEnds, audioVars, WorkerStep, mainVars, audioVars
    <2>4. CardInv'
      BY <1>12
         DEF AudioInv, CardInv, BackoffEnds, audioVars, WorkerStep, mainVars, audioVars,
             cardVars
    <2>5. RevisionInv'
      BY <1>12
         DEF AudioInv, RevisionInv, Reporting, BackoffEnds, audioVars, WorkerStep, mainVars,
             audioVars
    <2>6. MainInv'
      BY <1>12
         DEF AudioInv, MainInv, SoundPolled, CueDone, Audible, BackoffEnds, audioVars, WorkerStep,
             mainVars
    <2>7. QED
      BY <2>2, <2>3, <2>4, <2>5, <2>6 DEF AudioInv
  <1>13. QED
    BY <1>1, <1>2, <1>3, <1>4, <1>5, <1>6, <1>7, <1>8, <1>9, <1>10, <1>11, <1>12 DEF Audio

\* What AudioInv says holds in every reachable state, for cues and clips of
\* every length: the card's lease follows the bus, a mute stays, and what has
\* stopped playing was rendered to its end (es8311_output.cpp, sd_audio.h).
THEOREM AudioInvariant == Spec => []AudioInv
  <1>1. AudioInv /\ [Next]_vars => AudioInv'
    <2> SUFFICES ASSUME AudioInv, [Next]_vars PROVE AudioInv'
      OBVIOUS
    <2>1. CASE Next
      BY <2>1, MainStepInv, WorkerStepInv DEF Next
    <2>2. CASE UNCHANGED vars
      BY <2>2 DEF vars, audioVars, cardVars, mainVars, AudioInv, TypeOK, MutedStaysMuted,
                  CardInv, RevisionInv, MainInv, SoundPolled, Reporting, CueDone, Audible
    <2>3. QED
      BY <2>1, <2>2
  <1>2. QED
    BY <1>1, InitInv, PTL DEF Spec

\* Type correctness (the variables of es8311_output.cpp, sd_audio.h and sound.cpp).
THEOREM AudioTypeCorrect == Spec => []TypeOK
  BY AudioInvariant, PTL DEF AudioInv

\* The amplifier stays off after a mute whatever block the worker is rendering
\* (publish and audio_task).
THEOREM MuteIsFinal == Spec => []MutedStaysMuted
  BY AudioInvariant, PTL DEF AudioInv

\* A cue the worker reports as over was rendered and drained, or the transport
\* failed (audio_task's comparison of revisions).
THEOREM CuesPlayOut == Spec => []CueNotCutShort
  <1>1. AudioInv => CueNotCutShort
    BY DEF AudioInv, MainInv, SoundPolled, CueDone, CueNotCutShort
  <1>2. QED
    BY <1>1, AudioInvariant, PTL

\* Only the owner of the lease is between SD_MMC.begin and SD_MMC.end
\* (sd_owner.h, SdAudio::ensure_mounted and release, open_card, release_card).
THEOREM BusIsLeased == Spec => []BusNeedsLease
  <1>1. AudioInv => BusNeedsLease
    BY DEF AudioInv, TypeOK, CardInv, BusNeedsLease
  <1>2. QED
    BY <1>1, AudioInvariant, PTL

\* Once sound_poll has recorded a failure nothing is commanded or amplified
\* until the sound is initialized anew.
THEOREM FailureIsQuiet == Spec => []FailedIsQuiet
  <1>1. AudioInv => FailedIsQuiet
    BY DEF AudioInv, TypeOK, Sound, MutedStaysMuted, MainInv, SoundPolled, FailedIsQuiet
  <1>2. QED
    BY <1>1, AudioInvariant, PTL

-----------------------------------------------------------------------------
(* The lease implements the bus *)

\* A step that changes who is on the bus enters an empty one or leaves it empty.
LEMMA BusStep ==
  ASSUME AudioInv, Next, bus' # bus
  PROVE  Bus!Enter \/ Bus!Leave
  <1>1. bus \subseteq {"Audio", "Update"} /\ CardInv
    BY DEF AudioInv, TypeOK
  <1>2. CASE Mount
    <2>1. worker.pc = "mount" /\ bus' = bus \cup {"Audio"}
      BY <1>2 DEF Mount, WorkerStep
    <2>2. bus = {}
      BY <1>1, <2>1 DEF CardInv
    <2>3. QED
      BY <2>1, <2>2 DEF Bus!Enter
  <1>3. CASE CardMounts
    <2>1. session = "Mounting" /\ bus' = bus \cup {"Update"}
      BY <1>3 DEF CardMounts, InSession
    <2>2. bus = {}
      BY <1>1, <2>1 DEF CardInv
    <2>3. QED
      BY <2>1, <2>2 DEF Bus!Enter
  <1>4. CASE Unmount
    <2>1. worker.pc = "unmount" /\ bus' = bus \ {"Audio"}
      BY <1>4 DEF Unmount, WorkerStep
    <2>2. bus = {"Audio"}
      BY <1>1, <2>1 DEF CardInv
    <2>3. QED
      BY <2>1, <2>2 DEF Bus!Leave
  <1>5. CASE CardUnmounts
    <2>1. session \in {"Using", "Ending"} /\ bus' = bus \ {"Update"}
      BY <1>5 DEF CardUnmounts, InSession
    <2>2. bus = {"Update"}
      BY <1>1, <2>1 DEF CardInv
    <2>3. QED
      BY <2>1, <2>2 DEF Bus!Leave
  <1>6. Main => bus' = bus \/ CardMounts \/ CardUnmounts
    BY DEF Main, PollSilenced, PollUnhealthy, PollHealthy, CancelCue, KeepCue, Mute, StartCue,
           Continue, Attach, Play, PlayFails, PublishCue, CheckPlaying, OpenCardSession,
           OpenOtaSession, PageAction, CardLeased, CardReturned, WaitExpires, CloseSession, InLoop,
           MainStep, cardVars
  <1>7. SettingsChange \/ BackoffEnds => bus' = bus
    BY DEF SettingsChange, MainStep, BackoffEnds, cardVars
  <1>8. Audio => bus' = bus \/ Mount \/ Unmount
    BY DEF Audio, CopyCommand, StartFromCard, StartWithoutCard, OpenFile, Release, Render,
           ReadFails, Report, Write, cardVars
  <1>9. QED
    BY <1>2, <1>3, <1>4, <1>5, <1>6, <1>7, <1>8 DEF Next

\* The lease of sd_owner.h, as the worker and the updater use it, gives the
\* peripheral one user at a time: every step is one of CardBus or a stutter.
THEOREM LeaseImplementsBus == Spec => ImplementsCardBus
  <1>1. Init => Bus!BusInit
    BY DEF Init, Bus!BusInit
  <1>2. AudioInv /\ [Next]_vars => [Bus!Enter \/ Bus!Leave]_bus
    BY BusStep DEF vars, cardVars
  <1>3. QED
    BY <1>1, <1>2, AudioInvariant, PTL DEF Spec, ImplementsCardBus, Bus!BusSpec
=============================================================================
