---------------------------- MODULE AudioOutput ----------------------------
(***************************************************************************)
(* es8311_output.cpp, sd_audio.h and the part of sound.cpp that drives     *)
(* them: one worker renders the published command in 5 ms blocks, owns the *)
(* card while it plays from it, and shares the amplifier pin and three     *)
(* atomics with the main task.  The main task publishes cues and mutes,    *)
(* and takes the card for a firmware update (sd_update.cpp).               *)
(*                                                                         *)
(* A block of samples is a unit of count; which cue plays, and the cooling *)
(* times that let it, are left to the main task's free choice.             *)
(***************************************************************************)
EXTENDS Integers

CONSTANTS CueBlocks,    \* blocks of a built-in cue
          ClipBlocks,   \* blocks of the longest WAV on the card
          DrainBlocks   \* silent blocks that let the DMA run empty (five)

ASSUME AudioAssumption ==
  CueBlocks \in Nat \ {0} /\ ClipBlocks \in Nat \ {0} /\ DrainBlocks \in Nat \ {0}

(***************************************************************************)
(* AudioCommand.  A silent command is buzzer_write(0, 0) or a default one; *)
(* a sequence with sd asks for a file of the card first.  Its revision is  *)
(* only ever compared for equality with the three that are alive, so four  *)
(* names stand for the 32-bit counter.                                     *)
(***************************************************************************)
Revisions == 0..3
Commands == [sequence : BOOLEAN, sd : BOOLEAN, revision : Revisions]
Silence == [sequence |-> FALSE, sd |-> FALSE, revision |-> 0]

VARIABLES
  command,           \* the published command
  playing,           \* atomic playing
  transport_failed,  \* atomic transport_failed
  pa,                \* the amplifier pin AUDIO_PA
  initialized,       \* es8311_begin created the channel and the worker
  worker,            \* audio_task and the statics of render_block
  sd_owner,          \* the card's lease
  bus,               \* who is between SD_MMC.begin and SD_MMC.end
  sound,             \* sound.cpp's playback state
  settings,          \* the switches sound.cpp looks at
  session,           \* the maintenance session: a card update (SdUpdate has its
                     \* inside), the settings and faces page (Web), or an end
  pc                 \* where the main task is

audioVars == <<command, playing, transport_failed, pa, initialized>>
cardVars == <<sd_owner, bus>>
mainVars == <<sound, settings, session, pc>>
vars == <<audioVars, worker, cardVars, mainVars>>

\* render_block: notes and clip count the blocks left, mounted, backoff and
\* enabled are _mounted, _mount_failed and the result; back is where release()
\* was called from.
Worker ==
  [pc : {"top", "start", "mount", "open", "unmount", "release", "render",
         "report", "write"},
   back : {"render", "report"},
   next : Commands, revision : Revisions, sd_selected : BOOLEAN,
   notes : 0..CueBlocks, clip : 0..ClipBlocks, drain : 0..DrainBlocks,
   enabled : BOOLEAN, mounted : BOOLEAN, backoff : BOOLEAN]

Sound ==
  [active : BOOLEAN, attached : BOOLEAN, failed : BOOLEAN,
   playback_started : BOOLEAN, playback_sd : BOOLEAN]

TypeOK ==
  /\ command \in Commands
  /\ playing \in BOOLEAN /\ transport_failed \in BOOLEAN
  /\ pa \in BOOLEAN /\ initialized \in BOOLEAN
  /\ worker \in Worker
  /\ sd_owner \in {"None", "Audio", "Update"}
  /\ bus \subseteq {"Audio", "Update"}
  /\ sound \in Sound
  /\ settings \in [sound : BOOLEAN, sd : BOOLEAN]
  /\ session \in {"None", "Waiting", "Mounting", "Using", "Ending", "Releasing", "Over", "Web"}
  /\ pc \in {"loop", "cancel", "mute", "next", "play", "publish", "check"}

Init ==
  /\ command = Silence
  /\ playing = FALSE /\ transport_failed = FALSE /\ pa = FALSE /\ initialized = FALSE
  /\ worker = [pc |-> "top", back |-> "render", next |-> Silence, revision |-> 0,
               sd_selected |-> FALSE, notes |-> 0, clip |-> 0, drain |-> 0,
               enabled |-> FALSE, mounted |-> FALSE, backoff |-> FALSE]
  /\ sd_owner = "None" /\ bus = {}
  /\ sound = [active |-> FALSE, attached |-> FALSE, failed |-> FALSE,
              playback_started |-> FALSE, playback_sd |-> FALSE]
  /\ settings \in [sound : BOOLEAN, sd : BOOLEAN]
  /\ session = "None"
  /\ pc = "loop"

-----------------------------------------------------------------------------
(* Publishing *)

FreshRevision ==
  CHOOSE r \in Revisions : r \notin {command.revision, worker.next.revision, worker.revision}

\* Mutant of Publish: the flag is left to the worker.
PublishUnflagged(sequence, sd) ==
  /\ command' = [sequence |-> sequence, sd |-> sd, revision |-> FreshRevision]
  /\ playing' = playing
  /\ pa' = sequence

\* publish, under the worker's lock: the command, its flag and the amplifier.
\* Every audible command has a level, 1 to 30 by settings_valid.
Publish(sequence, sd) ==
  /\ command' = [sequence |-> sequence, sd |-> sd, revision |-> FreshRevision]
  /\ playing' = sequence
  /\ pa' = sequence

\* es8311_end, reached through buzzer_end: a no-op until a first es8311_begin.
End ==
  IF initialized
  THEN Publish(FALSE, FALSE)
  ELSE UNCHANGED <<command, playing, pa>>

\* stop of sound.cpp: forget the cue, mute, detach; left is the rest.
Stop(left) ==
  /\ sound' = [left EXCEPT !.active = FALSE, !.attached = FALSE]
  /\ End

WithFailed(failed) == [sound EXCEPT !.failed = failed]

-----------------------------------------------------------------------------
(* The main task: sound_poll and what it calls *)

MainStep(from, to) == pc = from /\ pc' = to /\ UNCHANGED <<worker, cardVars>>

\* loop() polls the sound outside every session, ota_poll while its page is the
\* settings and faces page.
SoundPolled == session \in {"None", "Web"}

InLoop(to) == MainStep("loop", to) /\ SoundPolled /\ UNCHANGED settings

\* Sound is off or the night mutes it.
PollSilenced ==
  /\ InLoop("loop") /\ ~settings.sound
  /\ Stop(WithFailed(FALSE))
  /\ UNCHANGED <<transport_failed, initialized, session>>

\* The worker latched a transport failure.
PollUnhealthy ==
  /\ InLoop("cancel") /\ settings.sound
  /\ sound.attached /\ transport_failed
  /\ Stop(WithFailed(TRUE))
  /\ UNCHANGED <<transport_failed, initialized, session>>

PollHealthy ==
  /\ InLoop("cancel") /\ settings.sound
  /\ ~(sound.attached /\ transport_failed)
  /\ UNCHANGED <<audioVars, sound, session>>

SdSwitchedOff == sound.playback_sd /\ ~settings.sd

\* The SD switch went off, or the cue's category, its call or its page ended.
\* buzzer_write(0, 0) tests the transport before it publishes.
CancelCue ==
  /\ MainStep("cancel", IF sound.attached /\ ~transport_failed THEN "mute" ELSE "next")
  /\ SdSwitchedOff \/ sound.active
  /\ sound' = [sound EXCEPT !.active = FALSE, !.playback_sd = @ /\ settings.sd]
  /\ UNCHANGED <<audioVars, settings, session>>

KeepCue ==
  /\ MainStep("cancel", "next")
  /\ ~SdSwitchedOff
  /\ UNCHANGED <<audioVars, sound, settings, session>>

Mute ==
  /\ MainStep("mute", "next")
  /\ Publish(FALSE, FALSE)
  /\ UNCHANGED <<transport_failed, initialized, sound, settings, session>>

\* A queued cue takes over; sound_request queues none after a failure.
StartCue ==
  /\ MainStep("next", "play")
  /\ ~sound.failed
  /\ sound' = [sound EXCEPT !.active = TRUE, !.playback_started = FALSE]
  /\ UNCHANGED <<audioVars, settings, session>>

\* Nothing queued: go on with the active cue, if there is one.
Continue ==
  /\ MainStep("next", IF ~sound.active THEN "loop"
                      ELSE IF sound.playback_started THEN "check" ELSE "play")
  /\ UNCHANGED <<audioVars, sound, settings, session>>

\* es8311_begin: the first creates the worker, a later one clears the failure.
Attach ==
  /\ MainStep("play", "play")
  /\ ~sound.attached
  /\ sound' = [sound EXCEPT !.attached = TRUE]
  /\ initialized' = TRUE
  /\ transport_failed' = (transport_failed /\ ~initialized)
  /\ UNCHANGED <<command, playing, pa, settings, session>>

\* es8311_play tests the transport outside the lock.
Play ==
  /\ MainStep("play", "publish")
  /\ sound.attached /\ ~transport_failed
  /\ sound' = [sound EXCEPT !.playback_sd = settings.sd]
  /\ UNCHANGED <<audioVars, settings, session>>

\* The codec cannot be set up, or the transport has failed.
PlayFails ==
  /\ MainStep("play", "loop")
  /\ IF sound.attached THEN transport_failed ELSE ~initialized
  /\ Stop([WithFailed(TRUE) EXCEPT !.playback_sd = settings.sd])
  /\ UNCHANGED <<transport_failed, initialized, settings, session>>

PublishCue ==
  /\ MainStep("publish", "check")
  /\ Publish(TRUE, sound.playback_sd)
  /\ sound' = [sound EXCEPT !.playback_started = TRUE]
  /\ UNCHANGED <<transport_failed, initialized, settings, session>>

\* The last line of play: a cue is over when the worker says so.
CheckPlaying ==
  /\ MainStep("check", "loop")
  /\ sound' = [sound EXCEPT !.active = playing]
  /\ UNCHANGED <<audioVars, settings, session>>

\* A switch is changed from the menu, the web page, USB or the night schedule.
SettingsChange ==
  /\ MainStep("loop", "loop") /\ SoundPolled
  /\ settings' \in [sound : BOOLEAN, sd : BOOLEAN] \ {settings}
  /\ UNCHANGED <<audioVars, sound, session>>

-----------------------------------------------------------------------------
(* The main task: maintenance sessions.  loop() runs nothing but theirs. *)

InSession(from, to) ==
  /\ pc = "loop" /\ session = from /\ session' = to
  /\ UNCHANGED <<worker, settings, pc>>

\* sd_update_begin calls sound_init, which stops the sound and forgets failures.
OpenCardSession ==
  /\ InSession("None", "Waiting")
  /\ Stop(WithFailed(FALSE))
  /\ UNCHANGED <<transport_failed, initialized, cardVars>>

\* ota_screen_begin only mutes; the active cue stays as it is.
OpenOtaSession ==
  /\ \/ InSession("None", "Over") \/ InSession("None", "Web")
  /\ End
  /\ UNCHANGED <<transport_failed, initialized, cardVars, sound>>

\* The page's sound test and its way to the firmware page call sound_init.
PageAction ==
  /\ \/ InSession("Web", "Web") \/ InSession("Web", "Over")
  /\ Stop(WithFailed(FALSE))
  /\ UNCHANGED <<transport_failed, initialized, cardVars>>

\* open_card: sd_acquire, then SD_MMC.begin.
CardLeased ==
  /\ InSession("Waiting", "Mounting")
  /\ sd_owner = "None" /\ sd_owner' = "Update"
  /\ UNCHANGED <<audioVars, bus, sound>>

CardMounts ==
  /\ \/ InSession("Mounting", "Using") \/ InSession("Mounting", "Ending")
  /\ bus' = bus \cup {"Update"}
  /\ UNCHANGED <<audioVars, sd_owner, sound>>

\* release_card: SD_MMC.end, then sd_release.
CardUnmounts ==
  /\ \/ InSession("Using", "Releasing") \/ InSession("Ending", "Releasing")
  /\ bus' = bus \ {"Update"}
  /\ UNCHANGED <<audioVars, sd_owner, sound>>

CardReturned ==
  /\ InSession("Releasing", "Over")
  /\ sd_owner' = IF sd_owner = "Update" THEN "None" ELSE sd_owner
  /\ UNCHANGED <<audioVars, bus, sound>>

\* Ten seconds without the lease.
WaitExpires ==
  /\ InSession("Waiting", "Over")
  /\ UNCHANGED <<audioVars, cardVars, sound>>

\* Back: loop() calls sound_init when the session has closed.
CloseSession ==
  /\ \/ InSession("Over", "None") \/ InSession("Web", "None")
  /\ Stop(WithFailed(FALSE))
  /\ UNCHANGED <<transport_failed, initialized, cardVars>>

Main ==
  \/ PollSilenced \/ PollUnhealthy \/ PollHealthy \/ CancelCue \/ KeepCue \/ Mute
  \/ StartCue \/ Continue \/ Attach \/ Play \/ PlayFails \/ PublishCue \/ CheckPlaying
  \/ OpenCardSession \/ OpenOtaSession \/ PageAction \/ CardLeased \/ CardMounts
  \/ CardUnmounts \/ CardReturned \/ WaitExpires \/ CloseSession

-----------------------------------------------------------------------------
(* The worker: audio_task, render_block and SdAudio *)

WorkerStep(from) == initialized /\ worker.pc = from /\ UNCHANGED mainVars

Goes(to) == worker' = [worker EXCEPT !.pc = to]

\* The top of the loop: nothing at all after a transport failure.
CopyCommand ==
  /\ WorkerStep("top")
  /\ ~transport_failed
  /\ worker' = [worker EXCEPT !.next = command,
                              !.pc = IF command.revision = worker.revision
                                     THEN "render" ELSE "start"]
  /\ UNCHANGED <<audioVars, cardVars>>

\* The statics render_block resets for a new command; the clip is closed too.
Restarted ==
  [worker EXCEPT !.revision = worker.next.revision, !.drain = 0, !.sd_selected = FALSE,
                 !.clip = 0, !.notes = IF worker.next.sequence THEN CueBlocks ELSE 0]

\* Mutant of StartFromCard: the result of sd_acquire is ignored.
StartUnleased ==
  /\ WorkerStep("start")
  /\ worker.next.sequence /\ worker.next.sd
  /\ worker' = [Restarted EXCEPT !.pc = IF worker.mounted THEN "open" ELSE "mount"]
  /\ sd_owner' = IF sd_owner = "None" THEN "Audio" ELSE sd_owner
  /\ UNCHANGED <<audioVars, bus>>

\* SdAudio::start: mount on first use, unless a mount failed a moment ago or
\* another owner has the card.
StartFromCard ==
  /\ WorkerStep("start")
  /\ worker.next.sequence /\ worker.next.sd
  /\ \/ /\ worker.mounted
        /\ worker' = [Restarted EXCEPT !.pc = "open"]
        /\ UNCHANGED sd_owner
     \/ /\ ~worker.mounted
        /\ worker.backoff \/ sd_owner # "None"
        /\ worker' = [Restarted EXCEPT !.pc = "render"]
        /\ UNCHANGED sd_owner
     \/ /\ ~worker.mounted
        /\ sd_owner = "None" /\ sd_owner' = "Audio"
        /\ worker' = [Restarted EXCEPT !.pc = "mount"]
  /\ UNCHANGED <<audioVars, bus>>

\* Mutant of StartWithoutCard: the card stays mounted.
StartKeepsCard ==
  /\ WorkerStep("start")
  /\ ~(worker.next.sequence /\ worker.next.sd)
  /\ worker' = [Restarted EXCEPT !.pc = "render"]
  /\ UNCHANGED <<audioVars, cardVars>>

\* Any other command gives the card back.
StartWithoutCard ==
  /\ WorkerStep("start")
  /\ ~(worker.next.sequence /\ worker.next.sd)
  /\ worker' = [Restarted EXCEPT !.back = "render", !.backoff = FALSE,
                                 !.pc = IF worker.mounted THEN "unmount" ELSE "render"]
  /\ UNCHANGED <<audioVars, cardVars>>

Mount ==
  /\ WorkerStep("mount")
  /\ bus' = bus \cup {"Audio"}
  /\ \/ worker' = [worker EXCEPT !.mounted = TRUE, !.backoff = FALSE, !.pc = "open"]
     \/ worker' = [worker EXCEPT !.backoff = TRUE, !.back = "render", !.pc = "unmount"]
  /\ UNCHANGED <<audioVars, sd_owner>>

\* A file, its family's or its cue's, or none that is a supported WAV.
OpenFile ==
  /\ WorkerStep("open")
  /\ \/ \E blocks \in 1..ClipBlocks :
          worker' = [worker EXCEPT !.clip = blocks, !.sd_selected = TRUE, !.pc = "render"]
     \/ Goes("render")
  /\ UNCHANGED <<audioVars, cardVars>>

Unmount ==
  /\ WorkerStep("unmount")
  /\ bus' = bus \ {"Audio"}
  /\ worker' = [worker EXCEPT !.mounted = FALSE, !.pc = "release"]
  /\ UNCHANGED <<audioVars, sd_owner>>

Release ==
  /\ WorkerStep("release")
  /\ sd_owner' = IF sd_owner = "Audio" THEN "None" ELSE sd_owner
  /\ Goes(worker.back)
  /\ UNCHANGED <<audioVars, bus>>

\* Mutant of Audible: a cue is heard as long as it is the command.
AudibleWhileCommanded == worker.next.sequence

\* Blocks left to hear, judged before the block is rendered.
Audible ==
  worker.next.sequence /\ (IF worker.sd_selected THEN worker.clip > 0 ELSE worker.notes > 0)

Less(n) == IF n > 0 THEN n - 1 ELSE 0

\* One block, and the silent ones that drain the DMA after the last.
Rendered ==
  [worker EXCEPT !.enabled = Audible \/ worker.drain > 0,
                 !.drain = IF Audible THEN DrainBlocks ELSE Less(@),
                 !.notes = IF worker.sd_selected THEN @ ELSE Less(@),
                 !.clip = IF worker.sd_selected THEN Less(@) ELSE @,
                 !.pc = "report"]

Render ==
  /\ WorkerStep("render")
  /\ worker' = Rendered
  /\ UNCHANGED <<audioVars, cardVars>>

\* The card was pulled: the clip is over and the card given back.
ReadFails ==
  /\ WorkerStep("render")
  /\ worker.sd_selected /\ worker.clip > 0
  /\ worker' = [Rendered EXCEPT !.clip = 0, !.backoff = FALSE, !.back = "report",
                                !.pc = "unmount"]
  /\ UNCHANGED <<audioVars, cardVars>>

\* The mount is tried again after ten seconds.
BackoffEnds ==
  /\ WorkerStep("top")
  /\ worker.backoff
  /\ worker' = [worker EXCEPT !.backoff = FALSE]
  /\ UNCHANGED <<audioVars, cardVars>>

\* Mutant of Report: the revision is not compared.
ReportAlways ==
  /\ WorkerStep("report")
  /\ pa' = worker.enabled
  /\ playing' = (worker.next.sequence /\ worker.enabled)
  /\ Goes("write")
  /\ UNCHANGED <<command, transport_failed, initialized, cardVars>>

\* Under the lock: only the command that was rendered may be reported on.
Report ==
  /\ WorkerStep("report")
  /\ IF command.revision = worker.next.revision
     THEN /\ pa' = worker.enabled
          /\ playing' = (worker.next.sequence /\ worker.enabled)
     ELSE UNCHANGED <<pa, playing>>
  /\ Goes("write")
  /\ UNCHANGED <<command, transport_failed, initialized, cardVars>>

\* i2s_channel_write; a failure is latched and mutes under the lock.
Write ==
  /\ WorkerStep("write")
  /\ \/ UNCHANGED audioVars
     \/ /\ transport_failed' = TRUE /\ playing' = FALSE /\ pa' = FALSE
        /\ UNCHANGED <<command, initialized>>
  /\ Goes("top")
  /\ UNCHANGED cardVars

Audio ==
  \/ CopyCommand \/ StartFromCard \/ StartWithoutCard \/ Mount \/ OpenFile
  \/ Unmount \/ Release \/ Render \/ ReadFails \/ Report \/ Write

Next == Main \/ SettingsChange \/ Audio \/ BackoffEnds

Spec == Init /\ [][Next]_vars

\* loop() and the scheduler keep both tasks going.
Fairness == WF_vars(Main) /\ WF_vars(Audio)

FairSpec == Spec /\ Fairness

-----------------------------------------------------------------------------
(* Safety *)

\* A mute is final: whatever block the worker is about to report, the amplifier
\* stays off until the main task publishes another cue.
MutedStaysMuted == ~command.sequence => ~pa /\ ~playing

\* A cue the main task takes to be over was played to its last block and
\* drained, unless the transport failed.
CueNotCutShort ==
  command.sequence /\ ~playing =>
    \/ transport_failed
    \/ /\ worker.next = command /\ ~Audible /\ worker.drain = 0

\* The card is on the bus for the lease's owner only.
BusNeedsLease == \A user \in bus : sd_owner = user

\* After a failure the speaker is off until the sound is switched on anew.
FailedIsQuiet == sound.failed => ~pa /\ ~command.sequence

\* docs/SOUND.md:84: "Master/night/category cancellation immediately lowers the
\* amplifier enable; DMA errors do so in the worker itself."  It does not hold:
\* README.md, section 7.
FailureLowersAmplifier == transport_failed => ~pa

\* docs/SOUND.md:275: "The card is mounted once and stays mounted while SD sounds
\* are enabled".  A clip that cannot be read and a stop of the whole sound, which
\* detaches, are not counted.  It does not hold either.
StaysMounted ==
  [][worker.mounted /\ ~worker'.mounted /\ worker.back = "render" =>
       ~settings.sd \/ ~settings.sound \/ ~sound.attached \/ session # "None"]_vars

Bus == INSTANCE CardBus WITH users <- bus, Owners <- {"Audio", "Update"}

ImplementsCardBus == Bus!BusSpec

-----------------------------------------------------------------------------
(* The inductive invariant behind the safety properties *)

\* The card: each user's steps through the lease and the bus.
CardInv ==
  /\ sd_owner = "Audio" <=> worker.mounted \/ worker.pc \in {"mount", "unmount", "release"}
  /\ "Audio" \in bus <=> worker.mounted \/ worker.pc = "unmount"
  /\ worker.pc \in {"mount", "release"} => ~worker.mounted
  /\ worker.pc = "open" => worker.mounted
  /\ worker.sd_selected /\ worker.clip > 0 => worker.mounted /\ worker.pc # "unmount"
  /\ sd_owner = "Update" <=> session \in {"Mounting", "Using", "Ending", "Releasing"}
  /\ "Update" \in bus <=> session \in {"Using", "Ending"}

\* The worker is in the middle of a block it will report on.
Reporting ==
  worker.pc = "report" \/ (worker.pc \in {"unmount", "release"} /\ worker.back = "report")

\* Revisions name commands, and what the worker has left belongs to its own.
RevisionInv ==
  /\ worker.next.revision = command.revision => worker.next = command
  /\ worker.pc = "start" <=> worker.revision # worker.next.revision
  /\ worker.pc # "start" /\ worker.drain > 0 => worker.next.sequence
  /\ Reporting /\ worker.enabled => worker.next.sequence
  /\ Reporting /\ ~worker.enabled => ~Audible /\ worker.drain = 0

\* The worker has rendered the whole cue and drained it.
CueDone ==
  /\ worker.next = command /\ worker.revision = command.revision
  /\ ~Audible /\ worker.drain = 0
  /\ Reporting \/ worker.pc \in {"top", "render", "write"}

\* What the main task relies on.
MainInv ==
  /\ sound.attached => initialized
  /\ command.sequence \/ pc = "publish" => sound.attached
  /\ command.sequence /\ ~playing => transport_failed \/ CueDone
  /\ sound.failed => ~command.sequence /\ ~sound.active /\ pc \notin {"play", "publish", "check"}
  /\ pc # "loop" => SoundPolled

AudioInv == TypeOK /\ MutedStaysMuted /\ CardInv /\ RevisionInv /\ MainInv

-----------------------------------------------------------------------------
(* Liveness *)

\* Every cue ends or makes way for another: playing is never left standing by a
\* worker that stopped working.
CueEnds == []<>(~playing \/ pc = "publish")

\* A worker that still works gives the card back once it has nothing to play, as
\* a maintenance session has seen to before it waits for the card.
WorkerYields ==
  sd_owner = "Audio" /\ ~command.sequence ~>
    sd_owner # "Audio" \/ command.sequence \/ transport_failed
=============================================================================
