# MOCHI: a verification development

MOCHI is a desk companion on an ESP32-S3: an animated face on a small display,
with sounds, touch, phone notifications over Bluetooth, network time and
weather, and firmware updates over Wi-Fi or from a memory card.  This directory
holds TLA+ models of its program, the TLC configurations that check them on
small instances, and TLAPS proofs.  File names below are relative to
`src/OTA-bot-Mochi/src/`, those of documents to `src/docs/`; `sketch` is
`src/OTA-bot-Mochi/OTA-bot-Mochi.ino`.

## 1. The system

One *main task* runs `loop()` (sketch 381): everything that draws, saves or
updates happens there.  Around it run the audio worker (`mochi-audio`), the
weather worker (`mochi-weather`), the ANCS worker, the Bluetooth host task, which
calls back into `companion/`, `ancs/` and `ui/ui_state.cpp`, and the TCP/IP task,
which calls the SNTP callback.  They meet in a mutex (`companion`, `ui_state`,
the audio command), in bounded queues (`ancs`, weather), in atomics (`ntp_sync`,
the audio flags) and in the memory card's lease (`bus/sd_owner.h`).

| Component | State | Hard behaviour | What makes it correct | Module |
|---|---|---|---|---|
| Network update `update/ota_update.cpp` | session, request, flash handle, check | a body in chunks of any size, aborts, two clients, expiry inside a request | the slot holds what was declared and sent; nothing selected unless whole | OtaUpdate |
| Card update `update/sd_update.cpp` | session phase, lease, file, handle | two readings of a removable card, a worker that owns it | what is selected was checked *while written*; the lease goes back | SdUpdate |
| Boot `update/ota_boot.*` | health window | reset during the trial | a trial is decided; a bad image falls back | OtaBoot, EspOta |
| Audio worker `sound/es8311_output.cpp`, `sd_audio.h` | command, revision, mount | worker against main task | a mute stays mute; a cue is not cut short; the lease is given back | AudioOutput |
| Sound requests `sound/sound.cpp` | queued and active cue | what was allowed when asked for is not when played | what is played fits the moment | Sound |
| Network time `update/ntp_sync.cpp` | attempt, two atomics | callback on another task | an attempt leaves nothing behind, its answer is applied | NtpSync |
| Network service `network/` | station, configuration, job | old replies, reconnects, two queues | replies of an old network are dropped | NetworkService |
| Network page and scan `update/network_web.h`, `wifi_scan.h` | scan, revision | forms read earlier, session ends | no unseen network is replaced, no scan outlives its session | NetworkPage |
| Companion app `companion/` | phone's content, alarms, command | a snapshot used after the unlock | a one-shot alarm rings once | Companion, CompanionPolicy |
| iPhone `ancs/` | queue, parser, pending name | bounded queue, replies out of order | an alert shows its own fields | Ancs |
| Shared screen state `ui/ui_state.cpp` | alerts, call, route, music | callbacks against the main task | what is dismissed is what was seen | UiState |
| Pages, sketch and `ui/` | page, overlay, return | six sources that want to turn the page | an alert opens, and returns where it came from | MainLoop |
| Settings `settings/` | profile, face filter, saved copies | two records, four writers, power loss | what is not shown as unsaved survives | Settings, Terminal, Records, SettingsMenu |
| Power `power/` | keys, battery, charger, brightness | readings that fail, events that accumulate | one press is one click; each change is told once | PowerKey, Buttons, PowerSupply, Backlight |
| Touch `touch/` | contact | two trackers of the same samples | one contact, one gesture | Touch |
| Desk tools `play/`, `ui/view_state.h` | timer, game, dice | the loop stops for a session | time is kept, a game is lawful | DeskTools |
| Eyes `eyes/` | face, orientation, detectors | reactions over reactions, late samples | excluded faces stay hidden, the image is not turned by a bump | Faces, Orientation, Motion |
| Inputs: sounds, texts, dates | none | data that others made | nothing beyond the file, no cut character | Inputs |

Interactions: the main loop polls every component; `sd_update_begin` refuses
while a network session is active and calls `sound_init`, which tells the audio
worker to drop the card; `ota_boot_poll` runs before either session;
`network_poll` gets no jobs during maintenance; `companion` and `ancs` feed
`ui_state`, which `auto_page`, `sound` and the screens read; nearly everything
reads the settings, and what the settings exclude must leave the other modules.

PROJECT.json lists every component with its status and every hazard at its line,
with the properties that cover it.

## 2. Plan

The core (firmware update, audio, time and network) and the phone came first;
then everything the main loop polls.  Done:

1. **FirmwareUpdate**, **AudioOutput**, **NtpSync**, **NetworkService**: modelled,
   checked and proved, with the abstract specifications `AbUpdate` and `CardBus`.
2. **Companion**, **CompanionPolicy**, **Ancs**, **UiState**: the phones.
3. **MainLoop**, **PowerKey**, **Buttons**, **Touch**, **SettingsMenu**: input and pages.
4. **Settings**, **Records**, **Terminal**, **NetworkPage**: what is kept, and its writers.
5. **Sound**, **Faces**, **Orientation**, **Motion**, **PowerSupply**, **Backlight**,
   **DeskTools**, **Inputs**.

The first two groups are proved, and the fourth and the fifth; of the third `Buttons`,
`Touch`, `SettingsMenu` and the return of a notice (`MainLoop`).  What is left is in section
6, with the reason.

## 3. The modules and the code

### Firmware update

`FirmwareUpdate` composes `OtaUpdate`, `SdUpdate` and `OtaBoot` over `EspOta`
and `OtaImage`; `AbUpdate` is what they promise.

| Module | Code | State |
|---|---|---|
| EspOta | ESP-IDF: slots, OTA metadata, bootloader (external) | `flash`, `img_state`, `selected`, `running`, `layout` |
| OtaImage | `update/ota_image.h` | the check record: bytes, header, board_found |
| OtaUpdate | `update/ota_update.cpp` | `ota` (`OtaStatus` and the file's statics), `ota_image`, `request` |
| SdUpdate | `update/sd_update.cpp`, `bus/sd_owner.h` | `sd`, `sd_image`, `card`, `sd_owner` |
| OtaBoot | `update/ota_boot.*`, readiness of `setup()` | `health`, `screen_ready`, `boot_ready` |
| FirmwareUpdate | sketch `loop()`, `ota_screen.cpp`, `sd_update_screen.cpp` | `pc` |

*Data.*  An application is a sequence of units of four kinds, the ones the code
tells apart: the two halves of the small header (`magic`, `chip`), a unit that
completes the board marker (`board`) and everything else (`code`).  `Intact` is
the set of images ESP-IDF's own checksum accepts, so it is a constant and not a
property of the units.  The error message of a session is one Boolean; a token
is right or wrong (`request.auth`).  Ages (`millis()` differences) are counters
that stop at the largest bound the code compares them with.  The marker matcher
is the statement "a `board` unit went by".

*Control.*  One `loop()` iteration is `LoopTop` (`ota_boot_poll`) and one
service step.  Each `OtaService`/`SdService` action is one branch of
`ota_poll`/`sd_update_poll` with its early returns.  An upload is served inside
one `handleClient()`: `UploadArrives`, then one `UploadEvent` per call of
`upload()`, its last lines (`UploadChecksDeadline`), and `UploadReturns`
(`finish()`, or a connection that broke).  Time, resets and the card's owner move
between those steps, since they are other tasks, hardware or people.

*Failures.*  Every ESP-IDF call the code tests may fail, with what a failed write
leaves in the slot; power is lost at any step (`PowerCycle`) and the bootloader
rolls back an unconfirmed image (`EspBoot`).  A USB reboot command in faces mode
is a `PowerCycle`.  The LCD board, which has no card, is the case `layout =
FALSE` of `SdBegin`.

### Audio

`AudioOutput` has the worker (`audio_task`, `render_block`, `SdAudio`), the main
task's use of it (`sound_poll`, `play`, `stop`, `es8311_*`) and the card session
of `SdUpdate` reduced to its lease.  The main task's program counter `pc` has a
value for each point of `sound_poll` between two accesses to what the worker
shares: `transport_failed` is tested outside the lock (`cancel`, `play`), the
command is published under it (`mute`, `publish`), and `playing` is read last
(`check`).  The worker's has one for each of its own: copying the command
(`top`), the lease (`start`), the peripheral (`mount`, `unmount`, `release`),
rendering, reporting under the lock, writing to the DMA.

A session with the pages (`Web`) goes on polling the sound, as `ota_poll` does; its sound
test and its way to the firmware page are `PageAction`.

Which cue plays is left free there; `settings.sound` stands for the master switch
and the night mute together; a revision is one of four names, since the code
compares revisions only for equality and three of them are alive.  A block is a
unit of count: `CueBlocks`, `ClipBlocks` and `DrainBlocks` bound a cue.
`CardBus` is the abstract specification: one user on the peripheral.  In
`SdUpdate` the worker is only the other user of the lease; `AudioOutput` has the
worker in full and the updater's session reduced to its lease steps, so each
side of the lease is checked against the other.

`Sound` is the choice: `Ask` is any request, `Poll` is `sound_poll` from the filters
to the promotion of the cue that waits, `Changes` what the settings, the night, a
call or the page do between two polls.  A cue refused for its cooldown is as if it
had not been asked for.

### Network

`NtpSync` is `update/ntp_sync.cpp`: an attempt (`ntp`), the two atomics, the reply
that the callback holds between its test of `accepting` and its store, and the
association.  A reply is marked with whether it answers the attempt under way,
which the code does not know and two properties ask about; the operations of the
main task are one step each, with the one interleaving that this would lose
(a store inside `disconnect`) allowed for.

`NetworkService` is `network/network_service.cpp` with the worker, its queues of
one entry, and what `ota_begin`, `ota_stop` and the pages of a session do to it.
Its actions are the branches of `network_poll`, each of which begins with
`completed`; the entry points the pages call; the opening, change and closing of
a session; the worker; the association; and time.  A network is a pair of
switches and a revision: what the service does depends on nothing else, and a
reply is right when it is of the revision in use.  Times since `attempt_at`,
`changed_at`, `ntp_at` and `weather_at` are the side of their bounds they are on,
and advance independently of each other.  A time attempt is reduced to whose
station it uses; NtpSync has the rest.

`NetworkPage` is the other side: `Poll` is one `ota_poll`, which serves a request
(`Served`: start or read a scan, read the page, save or forget a network, change to
firmware mode) and then polls the scan with a `now` that is older than the request.
`copy` is what the browser's page has shown; `Reboot` loads the record.

### Phones and pages

`Companion` is `companion_state.cpp` (`state` and `action`, under one mutex) and
`companion_service.cpp` (`local`, the main task's).  `companion_poll` is a step
for each use of the mutex or of the link (`PollBegin` takes the snapshot, `EndSearch` stops
the phone, `Take` empties the queue, `Act` sends what was taken, `AlarmFires` calls
`companion_alarm_used`) and for each reading of the clock (`Stamp`, `Hour`, `Minute`), since
packets, links and minutes may come between them.  An
alarm carries the number of the packet that set it, a queued command and the
ringing phone the number of their connection: what the code cannot know and the
properties are about.  A day has one hour or two of one minute, so that an alarm comes again.
`CompanionPolicy` has the three pure functions of `companion_policy.h`, evaluated
for every window, interval and mask against definitions that go forward from the
start of a window, or by the bits CHRONOS.md names.

`UiState` has the functions of `ui/ui_state.cpp` as operators from a state to the
state they return, each under the mutex.  Its counters are kept as comparisons
(`seen`: the revision is the drawn one; `events`: alerts and routes the page has not
looked at), which is all that their readers ask.  Two modules use them:

- `Ancs`: callbacks (`Connects`, `Notifies`, `Replies`, `MediaEvents`) put events into
  the queue without waiting for room; `Tick`, `Write`, `Receive` and `Waits` are the
  worker's loop, one step for each place where it may block or another task may come
  in between.  Connections are numbered, so that a write on one that is over fails.
- `MainLoop`: `Session`, `Key`, `Touch`, `Auto` and `Draw` are `loop()` in its order,
  with `Callbacks` between any two of them.  A gesture is what it does to the page.

### What the main loop polls

These modules keep one record `s`; where a module has several units that share
nothing, a field says whose state it is.

| Module | Code | Actions | Abstraction |
|---|---|---|---|
| Settings | `settings/settings.cpp`, `update/settings_web.h`, `face_web.h` | edits, saves in two writes, forms, sessions, reboots | a profile is its expression and one value for the rest; a form is of the open session or refused |
| Records | `settings/settings_model.h`, `companion/companion_language.cpp` | write, lose a bit, upgrade; bind, receive, restart | a byte is a set of bits |
| Terminal | `settings/usb_commands.cpp` | a byte arrives, a poll; a command | two characters, a control character, a terminator; commands are words |
| SettingsMenu | `settings/settings_menu.cpp` | taps and scrolls; a number is stepped | places of the rows, not their texts |
| PowerKey | `power/power_button.cpp` | the key moves, two transfers | events are a set |
| Buttons | `power/power_button_policy.h`, `ui/boot_button.h` | a poll with a level | ages in polls |
| PowerSupply | `power/charging.*`, `battery.cpp` | a reading | voltages at each step of the curve |
| Backlight | `power/backlight.cpp`, `brightness_policy.h`, `settings/night_policy.h` | an iteration of the loop or of a session | three levels, four hours |
| Touch | `touch/*` | a sample, a lift, an invalid sample | places relative to the first |
| DeskTools | `ui/view_state.h`, `play/tic_tac_toe.h`, `dice.h` | taps and ticks | minutes |
| Faces | `eyes/face_policy.h`, `face_variety.h`, `face_filter.h`, `eyes_faces.cpp` | poll, touch, motion, settings | six faces; durations are choices |
| Orientation | `eyes/imu_orientation.h`, `imu_calibration_store.h`, `eyes_imu.cpp` | polls, calibrate, manual turn, reboot | gravity is one of three poses |
| Motion | `eyes/motion_filter.h`, `pickup_policy.h` | a sample after some time; the filter is replaced | classes of accelerations, poses on a line |
| Inputs | `sound/wav_reader.h`, `ui/utf8_text.h`, `ui/text_layout.h`, `network_weather_parse.cpp` | one call | inputs at the limits of the formats |

The variables named as history in these modules (an alarm's packet, what a contact
was taken for, the impulses of a shake) record what happened for a property to speak
of; apart from a bound on them, no action reads them.

## 4. The runs

| Run | Question | Bounds | Result |
|---|---|---|---|
| firmware_upload | everything an upload may do, one part per request | slots of 4 units, files of 3 and 4, every chunking, ages up to 2 | holds |
| firmware_card | installation from a card swapped at any moment | four cards, chunks of 2 units (a file is two or three chunks) | holds |
| firmware_live | requests with a second file; sessions end and trials are decided, of uploads and of cards | one body, two parts; one card | holds, the last two under fairness |
| audio_output | cues against cancellation, mutes, sessions, failures; cues end and a silent worker gives the card back | cue, clip and drain of 1 block | holds, the last two under fairness |
| network_service | jobs, associations, attempts and sessions across a changed network; a lost network is tried again | one change | holds, the last under fairness |
| loop | time attempts, the power key's preview, pages, alerts and calls | five pages of the carousel, one desk page, one alert | holds under fairness |
| phones | an iPhone whose events fill the queue; a companion app that reconnects | queue of 3, two connections; three connections, one search | holds, the last two under fairness |
| device | eighteen parts that share no state | below | holds |
| ntp_sync_late | WEB_SETTINGS.md:69: late replies are ignored | none needed | violated, see 7 |
| companion_alarm | companion_state.h:46: what is disabled is the fired one-shot | one slot, two alarms, three minutes | violated, see 7 |
| iphone_burst | UI.md:388: incoming alerts appear | two notifications | violated, see 7 |
| scan_cut_short | NETWORK.md:69: a scan has fifteen seconds | one scan | violated, see 7 |

*Merged runs.*  In `device`, `loop`, `phones` and `firmware_live` the instances share
no state: a constant variable (`part`, `source`) names the one whose behaviour it is,
and the others keep their initial state.  Fairness of a disjunction over the parts is
fairness of the part there is.

*What the names of the properties stand for.*

| Property | Its conjuncts |
|---|---|
| StepsSafe | only the spare slot is written; nothing is written unasked; a success stays one |
| SlotsSafe | the selected image is genuine; the fallback of a trial is kept; success means selected |
| CardRight | the lease is held while the card is used; only applications are written; what is written is what was checked |
| UploadRight | no handle outlives its request; an upload is written once and in order |
| SessionsEnd, TrialDecided | every session, and the wait for the card, ends; the trial of a healthy image is decided |
| ServiceRight | one job at a time; what is shown is of the network in use; a time attempt has its station |
| AttemptRight | `AttemptInv`; an answer that is there is applied; a borrowed station is kept |
| LinkRight | a queued command, and the wish to stop a ringing phone, are of the connection there is |
| SettingsRight | Settings: the profile is one its filter allows, and what is not shown as unsaved is what a restart brings back; NetworkPage: no scan outlives its session, no page replaces a network it has not shown, a password is that of its network |
| FormIsCurrent | a form is accepted only while all it replaces is as its page showed it |
| OneGesture | Touch: a contact is one of tap, hold, swipe and petting; Buttons: a shutdown needs the hold, a page turn a click that nothing has blocked, and a bounce or the press that started the device is neither |
| AlgorithmsRight | DeskTools: the timer counts what it ran, a game is lawful and decided once, a tray is of its dice; Terminal: each line is carried out once, whole, and changes the one field it names within its range; Records: a record is read as written, one with a lost bit is refused, one of an older version keeps all it holds, and a language number has one meaning; Inputs: WAV ranges lie in the file, prefixes are whole characters (against table 3-7 of the Unicode standard), wrapping loses, repeats and cuts nothing it need not, weekdays are those of a count of days |
| FacesRight | an excluded face is never shown; a sequence owes no face when it begins again |
| OrientationRight | Orientation: the record is that of the last success, the display is turned only by a pose that has lasted; Motion: a shake has three reversals without a pause and its cooldown, or a filter replaced since the last, a lift its rest, its impulse, its settled change of pose and its cooldown |
| MenuRight | a row that is drawn exists; a number that is reached is accepted |
| PowerBelieved | PowerSupply: a change of supply is told once, the percentage follows the voltage; Backlight: the brightness is what profile, clock, windows and idle time call for |
| SchedulesRight | windows last their length, reminders come at their intervals, masks mean their days |
| PlayedFits | after each poll what is played is allowed by then, and displaced only something that is not above it |
| OneShotOnce, AlertsAdvance | an alarm rings once for each time it is set; missed minutes are not replayed |
| AlertOpens, ReturnsWhereOpened, OverlayEnds | a new alert is shown, however late; the page returns only to where the alert came; a call that is over covers nothing |
| NeverBlank, MusicOfThisLink, DismissIsDisplayed, AppNameEnds | an alert has its fields, unless an event of a connection was lost; music is that of the phone there is; what is dismissed is what was drawn; a name is not awaited for ever |
| SearchEnds, PreviewEnds, AttemptEnds | the phone stops ringing; a farewell does not stay over a key that is up; a time attempt ends |

*Why the bounds are enough.*  A file of three units has a header that one chunk
completes, splits or follows, and a unit behind it, which are the cases
`upload_write` and `transfer` distinguish; the fourth unit makes a file longer
than another's declared size and makes a swapped card of a different length.  An
age of 2 lies on each side of a bound of 1.  For the audio worker "none left" and
"some left" are the cases the code tests, of a cue, a clip and the drain; section 6
has the invariants for cues of any length.  One change of the network gives the two
revisions a reply, a request and a session can disagree about, and the half
second in which they do.  Two alarms make the one a poll saw and the one it
disables; a day of one hour of one minute makes every minute of the clock the one an alarm is set
for, so that the alarm comes again with the next and the clock may be set back to
it; in `companion_alarm` a day of two tells the packet's time from the poll's.  For commands
and the search, three connections are one before, one under and one after a command.  A queue of
three is full while a connection, a notification and a reply wait.

For the parts of `device`: days of eight minutes have windows of every length on
either side of midnight with intervals that do and do not divide them.  Times keep
the order of the code's limits and a step on each side of each (Buttons: 30 ms, 4 s
and a session longer than either; Motion: five impulses, one more than a shake
needs, a cooldown that is longer than a second shake, so that one with a replaced filter
falls into it, and a lift's window that is longer than its settling; Orientation; Backlight).
The terminal's buffer of two characters is filled, overrun and met exactly by lines
of up to six bytes, read two at a time; its numbers are both sides of each limit, and
two commands make a profile that neither makes alone (equal hours).  Texts of six
characters have words shorter than, as long as and longer than their one to three
columns, and more lines than the three that are kept.  A file of three chunks has a
format and a sound in either order, beside another chunk or beyond the last that is
looked at, with sizes on both sides of each limit.  Years are those around each rule
of the calendar and around the range.  Records are all combinations of the flags
of each byte, each number at its limits, every version, and every bit that may be
lost.  Six faces make a sequence with two of one family, one excluded and one from
outside the pools.  The page's two saves make a form older than both, one or none.

Three revisions of the settings let something else change between the reading of a form and
its return, twice, and make both records unsaved together, so that a save is two writes.
What the menu, the terminal or a page begins is within that bound; the return of a form and
the writes of a save are not, so that it is the comparison of revisions, not the bound, that
refuses a form.  Tokens are random and do not come back: the model forgets a form when its
session ends.

The theorems of section 6 hold for every value of these constants.  Each property
has a mutant: a plausible change of the code's definition (a flag left out, a
comparison dropped, a lease not returned) that makes the same run fail.

## 5. Fairness

`FairSpec` of FirmwareUpdate: `loop()` is called again and again by the Arduino
core (`LoopTop`, `ServeSession`), the request parser of the web server times out
on a silent client, so `handleClient()` returns (`ServeUpload`), and time passes
(`Tick`).  Nothing is assumed of the user, the client, the card, the audio worker
or the power supply.  `FairSpec` of AudioOutput: the main task and the worker are
both scheduled (`Main`, `Audio`); nothing is assumed of switches or of the end of
a mount's ten-second pause.  A worker that stopped after a transport failure has
no enabled step, and the properties say what then holds.  `FairSpec` of NtpSync
and of NetworkService: both are polled by every `loop()` (sketch 383), a transfer
is given up after twenty seconds, so the weather worker goes on, and time passes.
`FairSpec` of Companion: `loop()` calls `companion_poll` (sketch 409), outside
maintenance, and time passes; nothing is assumed of the phone or the link.
`FairSpec` of Ancs: the worker is a task that no other starves, and time passes.
`Progress` of PowerKey: the loop polls every 40 ms, and a transfer succeeds at times.

`FairSpec` of MainLoop: `loop()` runs for ever (weak), and, strongly, what the loop
meets again and again happens at some time: an open session ends (which
`SessionsEnd` of FirmwareUpdate shows of the updaters), a finger is lifted, the key
is let go, a start is over and a frame is due.  The last two are times (the loop
compares `millis()`), the others are users.  Without a user who ever lifts the
finger the code is meant not to turn the page.

Nothing is assumed of servers, access points, phones, users or the radio, which may
refuse every attempt; what `AttemptsContinue` then promises is the next attempt.

## 6. The proofs

FirmwareUpdateProofs proves type correctness, the
inductive invariant `IndInv`, and from it that the selected slot is always a whole
image of this board, that a trial's fallback survives, that success is reported
exactly when the selection moved (`SlotsAlwaysSafe`), that the updaters exclude
each other, that the card is used under its lease and gives what was checked
(`CardCorrect`) and that an upload is written once and in order (`UploadCorrect`).
None of those is inductive alone.  That the image `finish()` selects
carries the marker needs `ImageInv`: what the checker has seen is in the header it
holds back or already in the slot, for every chunking; the lemmas `MarkerConcat` and
`HeaderThenRest` are the argument.  That the slot is the one that was checked
needs `SessionInv`: at most one session, which owns the only open handle.  That a
rollback finds an image needs `SlotsInv`: while an image is on trial
`esp_ota_begin` is refused, so the other slot is not written.

What a card's file and an upload become needs two more conjuncts.  `CardInv` says that
the lease goes with the session's phases, that the second reading of the card starts
from a fresh check of the same length, and that the slot is what that reading has
seen.  `UploadInv` says that an upload under way is the one admitted, and that what
was sent is what is in the slot followed by what is held back.

The action property and the refinement share one classification of the steps,
`SlotSteps`: each step of the system keeps the slots, writes the spare one for a
session, selects what that session has written, boots, or confirms the trial.
Each class is a step of `AbUpdate` or a stutter (`Refinement`) and keeps the
promises of `StepsSafe` (`StepsCorrect`).  `SlotSteps` itself rests on `IndInv`: that
a write goes to the spare slot is `SessionInv`, that the image selected is genuine
is `ImageInv`.

AudioOutputProofs proves `AudioInv` and from it that mutes are final, that a cue
reported as over was rendered and drained, that the bus is used under the lease,
that a recorded failure leaves the speaker quiet, and that the lease implements
`CardBus`.  The key conjunct is `RevisionInv`: a revision the worker holds names
the published command only if it *is* that command, so its report under the lock
cannot speak for another; lemma `Fresh` says four names are enough for that.
`CardInv` ties each program counter to the lease and the peripheral.

LoopProofs proves that `AttemptInv` of NtpSync is inductive with the types, for every
interleaving of the callback: a reply of the attempt that is stored finds it still
querying, so it is applied (`AnswerIsApplied`), and a finished attempt leaves
neither a flag nor a station, unless the station was the service's
(`SharedStationKept`); `AttemptCorrect` has the three together.  Of MainLoop it proves,
for any carousel and any pages of the desk, that the page returns by itself only to
the page that the notice or the call replaced (`ReturnsToTheReplaced`): `PagesInv` has
the types, and `ReturnInv` that a return that is kept while the notice is shown is the page
the notice replaced, and that it outlives the notice's page only until `auto_page` of the
same iteration, never into a session or a start.

NetworkServiceProofs proves `IndInv` for any number of saved changes, with or
without radio failures and in any kinds of sessions: the types, `JobInv` and
`StationInv`.  The point of `JobInv` is that the worker's job is in exactly one
of three places while `worker_busy`, and that a job of the saved revision was
submitted when that revision was the one in use, although `revision` moves first
and `seen_revision` half a second later; so a reply that passes the test of
`completed` is of the network shown.  `StationInv` adds to what the runs check
that without a network in use nothing but an attempt's own station is
associated, and that the service's access-point mode outlives no session.  From
it follow `ServiceAgrees`, `SessionsKeepStation` and two facts that only the proof
covers: `ApKept` and `OldDataRetained`.

CompanionProofs proves for any slots, reminders, length of the day and number of
packets and connections that an alarm rings once for each packet that sets it
(`OneShotRings`), that queued commands and a ringing phone belong to the connection
there is (`LinkCorrect`) and that missed minutes are not replayed
(`MinutesAdvance`).  Its `AlarmInv` is about the two copies of the alarms: a one-shot that has rung
is neither enabled in the session's copy nor still to be looked at in the poll's
(`Pending`), an alarm that is due has not been given at this minute, and a packet's
alarm is in one slot, so that disabling a slot disables what rang.  `LinkInv` says how
old the numbers of connections in the snapshot, the queue and the phone may be.

AncsProofs proves for any capacities and numbers of connections that no alert is
blank as long as no event of a connection is lost (`AlertsHaveFields`), that music is of the phone there is
(`MusicFollowsTheLink`) and that a tap dismisses what was drawn
(`TapRemovesTheDrawn`).  `HistoryInv` says that what is drawn is what is in the history as long as
its revision is the one seen; `WorkerInv` that what the worker holds is of the
connection it believes in.  `QueueInv`, as long as no event of a connection was lost,
says that the queue tells of connections one after the other and ends with the one
there is, and that a name is awaited only of an alert whose fields are there, which is
what `NeverBlank` rests on.

DeviceProofs proves nine properties of `device`, and AlgorithmsProofs a tenth, each of the
behaviours its part names (`PartsAlone`: a step of the device is one of its part).

- `MenuCorrect`: `MenuInv` bounds the first row by the list that is drawn; each list has
  at least three rows, and every way into or out of a list sets the first row anew.
- `SoundCorrect`: `SoundInv` says that a cue that waits was asked for over nothing above
  it, for any cues the pages ask for.
- `SettingsCorrect`: `SettingsInv` says that `saved` is what the two records hold whenever the
  storage is ready, between the two writes of a save too, that only a ready storage is
  written, and that the expression is allowed at every point between.  `PageOf` says of the
  network page that the radio scans for a session only and that the page the browser has
  is of no later revision than the configuration, and shows it if it is of the same.
- `FormsReplaceTheShown`: `FormInv` says that the revisions have counted every change since
  the form of the open session was read (`RevisionsAgree`); a restart, which counts anew, ends
  the session.
- `GesturesCorrect`: `TouchInv` says that an active contact has gone one way or is held,
  and that it was taken only for what it still is; both trackers look at that.  `ButtonsInv` ties
  the debounced level and the press's history to the same readings: only a press that
  began after the start is armed, and a press is longer than the hold that is measured
  of it by at least the debounce.
- `PowerCorrect`: `SupplyInv` says what each tracker knows of the last readings it took, so
  that a change is told by the one reading that confirms it; the percentage is monotone in
  the voltage for any ends of the board's battery.  `BacklightInv` says that the level that
  was set last is the one of the settings, the clock and the windows (`LevelKept`), whichever
  of its four writers set it, and the duty that of the level and the idle time (`DutyKept`).
- `OrientationCorrect`: `OrientationInv` says that a pose which has been held has been seen by
  the follower for as long, whatever ended in between.  For shakes the device's counter is the
  number of reversals of the recorded impulses, all of them of the filter there is, and the
  time since the last shake is the cooldown's as long as the filter is the same; for lifts every rest the policy knows is in
  the record, with an age that is not shorter.
- `FacesCorrect`: `FacesKept` says that a face which is shown, waits or is the base is allowed, and
  (`MissingInv`) that each face the sequence owes may be shown next, was not shown last, and
  has its place before the one of the watched face, counted from where the sequence is.
  The catalog turns (`OrderKept`, `TakenIsLast`), so the watched face cannot be reached
  before them.
- `SchedulesCorrect`: the minutes since a window's start are counted forward (`ForwardInDay`,
  `ForwardOnly`), for a day of any length; a bit of a mask is a remainder (`MaskBits`).  Its other
  half is the type correctness of both instances of `Companion`, from CompanionProofs.

AlgorithmsProofs proves `AlgorithmsRight` (`AlgorithmsCorrect`) from one theorem for each of
the four parts.  Most of what they compute is the result of a loop, which the modules write as
a recursive function.  The induction theorems of the library take an operator that the provers
cannot instantiate; the proofs take the least (or the greatest) place at which the claim
would fail instead (`LeastOf`, `GreatestOf`), and show that the place before it fails too.

- `ToolsKeep`: for the timer `ExactOf` carries what is left through the tick that
  toggle and cycle take first; on the board crosses and noughts are counted (`MarkPut`), a reply
  is one free cell (`FinishingRight`, `FirstFree`), and nine cells cannot be shared equally, so
  that only the player's mark ends in a draw.
- `TerminalObeyed`: `LinesInv` says what the buffer holds of the line that has begun, for any
  buffer, budget and bytes, so that a line is carried out at its end or not at all.
  `Candidates` shows of each field that both checks of a command leave its documented range.
- `RecordsKept`: `Holds` says what each byte of a record of each version is.  A flag is one
  bit of it, and a number is the sum of its bits; the checksum is a sum of which one term
  has changed if a bit was lost (`LostIsRefused`).  For the languages, `LanguageInv` has the
  record equal to what is bound, which is why a restart changes no meaning.
- `InputsCorrect`: of a sound, that each chunk begins behind the one before, that what
  `wav_open` found before it stopped is what is in the file, and that a plain file of a
  format and a sound is not refused.  Of a text in UTF-8, that the ranges of the first two
  bytes are what a decoded value in range needs (`TwoBytes`, `ThreeBytes`, `FourBytes`), and
  that the code's jumps go on past every other way of cutting the prefix into characters
  (`WayIsTaken`).  Of wrapping, that between two lines nothing but spaces,
  and the newline that ended the first, is skipped (`Skipped`).  Of dates, that the table of months and the division
  by 4, 100 and 400 count the days.  The lemmas are about any file, any bytes
  and any width, not only those that the runs give.

Assumptions: the named ASSUMEs of the modules, which TLC evaluates in each run:
positive bounds, times and deadlines, a slot larger than the header, streams of units, a
catalog numbered from zero, cues of `SoundCue`, places that are integers, ends of a battery
in order (`boards/validate.h`), windows of hours, a catalog that names each face once and
filters that allow one, numbers of lines, chunks and bytes that are numbers, years that are
integers, and numbers of languages that fit into a byte.

Only model-checked: everything under fairness (liveness is out of the prover's
reach), and `OverlayEnds` and the pages but for the return, which are stated under fairness.
Every invariant that a run checks is stated by a theorem.

## 7. Where the code and its documents differ

Four runs show a disagreement:

- `ntp_sync_late`: `sntp_sync_time` (ntp_sync.cpp:80) tests and then stores.  An
  attempt that ends in between leaves a reply in `received`, which the next
  `ntp_sync_stop` applies without asking whether an attempt is under way: a time
  that was right when it came and may be hours old.
- `companion_alarm`: `schedules()` (companion_service.cpp:65) disables the one-shot
  that is in the slot by then, not the one it saw due: an alarm the phone sets
  while the poll runs is lost.
- `iphone_burst`: each notification event discards the alert whose fields are on
  their way (ancs_service.cpp:168), and the reply to it then discards the next: of
  two notifications in quick succession neither is shown.
- `scan_cut_short`: `ota_poll(now)` serves a request and then polls the scan with
  the `now` it was called with (ota_update.cpp:315).  The request's own `millis()` may
  be later, and `uint32_t(now - started)` is then close to 2^32: the scan that has
  just begun is cancelled.  The same holds where the menu or a page begins something
  with `millis()` that the iteration then measures with its earlier `now`: an IMU
  calibration (eyes_imu.cpp:131), a time attempt, a sound test that waits
  (sound.cpp:184), the idle time of the screen, which is dimmed for one iteration
  (`LevelCurrent` leaves that iteration out).

More formulas are stated in their modules and have no run of their own; each is
violated when it is added to its module's run (`SentIsCurrent` to that of the links, `phones`).

- `FailureLowersAmplifier` (AudioOutput): `es8311_play` (es8311_output.cpp:188)
  tests the transport before it takes the lock.  A failure between the test and
  the publication is followed by the amplifier being switched on for a worker that
  has stopped; it stays on until the next `sound_poll` sees the failure.
  SOUND.md:84 has the worker itself lower it.
- `StaysMounted` (AudioOutput): the silence published to cancel a cue makes the
  worker release and unmount the card, although SD sounds stay enabled and
  SOUND.md:275 has it mounted once; the next card cue mounts it again.
- `OnlyOpenedAp` (NetworkService): `ota_begin` tells the service of its access point
  before it starts it (ota_update.cpp:287) and does not take that back on failure
  (299).  If the saved network is tried again while the error is on the screen, the
  station comes up with the access point interface, which closing the session does
  not switch off.
- `SentIsCurrent` (Companion): `commands()` takes the queued command under the mutex
  (companion_service.cpp:43) and sends it afterwards (44-48).  If the link is lost and another
  is up by then, the command goes to that one: what `companion_connection` clears
  (companion_state.cpp:92) is only what is still queued.
- `ShakesApart` (Motion): `eyes_imu_poll` replaces the filter when the display has turned
  (eyes_imu.cpp:200) and resets it after a calibration (208), with its cooldown: two shakes
  with a turn of the device between them may be less than the five seconds of UI.md:369 apart.
- `OncePerMinute` (Companion): `schedules()` reads the epoch (57), the hour and the minute
  (58) one after the other.  If the minute ends after the first, the new minute's alert is recorded
  under the old one, and given again a quarter of a second later, where
  CHRONOS.md:17 has alerts fire once per minute.
- `PetIsAffectionate` (Faces): `FacePolicy::sample` shows a face of motion without
  clearing `affection`, and a further stroke then keeps that face
  (face_policy.h:151) where SETTINGS.md:321 has petting ask for an affectionate one.
- `OnlyTrueHolds` (Buttons): the key of the LCD board is not polled during a
  maintenance session, after which a press that spans it counts from before:
  two short presses may be a hold of four seconds (BOARDS.md:147).

Smaller ones, seen while reading and not stated as formulas: when the queue loses a
`Disconnected`, the next `Connected` leaves `app_pending` set (ancs_service.cpp:202) and a
name may be given to an alert whose fields are gone, which the premise of `NeverBlank` leaves
out; UI.md:366 has the gaze
move at most eight pixels, `MotionFilter::bounded` allows fourteen; the comment of
`MotionFilter::detect` has three impulses within 800 ms, the code (and UI.md:369)
800 ms between two; the locations of the weather search are not made distinct, as
their comment says; a line that fills its columns, followed by a space and the end
of the line, is wrapped with a blank line after it; `sound_init` at the end of a
session forgets which alert was signalled (SOUND.md:45); a Dizzy whose end falls on
`millis() == 0` does not end by itself.

## 8. Not modelled

Drawing, layout, fonts, translations, animation, gaze and tone synthesis: the larger
part of the repository's lines, without a state that anything else reads.  The host
tests, the emulator of the display and the scripts are not part of the device.  The
codec's register sequence; HTML, QR codes, tokens and access point names.  The LCD
board's PWM buzzer, which has no worker.  The bytes of the stored network and the
check of its text fields beyond `PlainText`; the JSON of the weather service.  Pong,
whose ball is floating point.  The set-up of the boards.  The revisions of the
settings that a night edge counts, which only refuse a form.  Ages that wrap after
49 days of an open session.  The builds without rollback support.

Hazards beyond those of PROJECT.json that properties of `device` cover: the terminal's
line that overruns its buffer across two polls, a record of an older version or with
a lost bit, samples of the accelerometer that come late, and a phone's text that is
cut within a character.
