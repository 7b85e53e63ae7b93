----------------------------- MODULE Terminal -----------------------------
(***************************************************************************)
(* usb_commands.cpp: the lines that a serial terminal sends, assembled     *)
(* from a few bytes of each pass of the loop, and the commands in them     *)
(* that change a setting.  The two share no state; s.unit says whose state *)
(* s is.                                                                   *)
(***************************************************************************)
EXTENDS Integers, Sequences, FiniteSets

CONSTANTS
  Budget,     \* bytes read in a pass of the loop (32)
  MaxLine,    \* characters of a line (95)
  MaxBytes,   \* bound: bytes that are sent
  MaxSets,    \* bound: commands
  Moods,      \* expressions
  Allowed,    \* those that the face filter allows
  Numbers     \* numbers that are typed

VARIABLE s

(***************************************************************************)
(* Lines: [line, overflow: the variables of the unit; waiting: bytes in    *)
(* the buffer of the port; said: the lines carried out, or TooLong].       *)
(* History: sent, all the bytes.  A byte is one of two characters, a       *)
(* control character or a terminator.                                      *)
(***************************************************************************)
Characters == {"a", "b"}
TooLong == <<"too long">>
Bytes == Characters \cup {"control", "end"}

\* settings_usb_poll's body, with a byte.
Terminated(x) ==
  [x EXCEPT !.line = <<>>, !.overflow = FALSE,
            !.said = IF x.overflow THEN Append(@, TooLong) ELSE IF x.line # <<>> THEN Append(@, x.line) ELSE @]

Taken(x, byte) ==
  CASE byte = "end" -> Terminated(x)
    [] byte # "end" /\ x.overflow -> x
    [] byte # "end" /\ ~x.overflow /\ (byte = "control" \/ Len(x.line) = MaxLine) -> [x EXCEPT !.overflow = TRUE]
    [] OTHER -> [x EXCEPT !.line = Append(@, byte)]

\* settings_usb_poll, as a function of the bytes still to be read.
Polled(x, count) ==
  LET f[n \in 0 .. count] ==
        IF n = 0 \/ f[n - 1].waiting = <<>> THEN (IF n = 0 THEN x ELSE f[n - 1])
        ELSE [Taken(f[n - 1], Head(f[n - 1].waiting)) EXCEPT !.waiting = Tail(@)]
  IN f[count]

Sends(byte) ==
  /\ Len(s.sent) < MaxBytes
  /\ s' = [s EXCEPT !.waiting = Append(@, byte), !.sent = Append(@, byte)]

Lines == (\E byte \in Bytes : Sends(byte)) \/ s' = Polled(s, Budget)

LinesInit == s = [unit |-> "lines", line |-> <<>>, overflow |-> FALSE, waiting |-> <<>>, said |-> <<>>, sent |-> <<>>]

(***************************************************************************)
(* Commands: [profile, command: the last one, accepted].  History: before, *)
(* the profile before it; count, the commands.                             *)
(***************************************************************************)
Default == [mood |-> 0, brightness |-> 30, nightBrightness |-> 5, soundLevel |-> 10, nightStart |-> 22, nightEnd |-> 7]

\* settings_valid.
Valid(p) ==
  /\ p.mood \in Moods
  /\ p.brightness \in 5 .. 90 /\ p.nightBrightness \in 1 .. 20 /\ p.soundLevel \in 1 .. 30
  /\ p.nightStart \in 0 .. 23 /\ p.nightEnd \in 0 .. 23 /\ p.nightStart # p.nightEnd

\* assign: the candidate, and if it is accepted.  A number that no byte holds is refused first.
Assigned(p, field, n) ==
  LET q == [p EXCEPT ![field] = n]
  IN CASE field = "mood" -> <<q, n \in Moods \cap Allowed>>
       [] field \in {"nightStart", "nightEnd"} -> <<q, n \in 0 .. 23 /\ Valid(q)>>
       [] field \in {"brightness", "nightBrightness", "soundLevel"} -> <<q, n \in 1 .. 90 /\ Valid(q)>>

\* settings_parse of words, <<verb, field, number>> or fewer or more: the candidate of a Set.
Parsed(words, p) ==
  CASE Len(words) = 3 /\ words[1] = "set" -> Assigned(p, words[2], words[3])
    [] Len(words) = 2 /\ words[1] = "mood" -> Assigned(p, "mood", words[2])
    [] OTHER -> <<p, FALSE>>

Commands ==
  {<<"set", field, n>> : field \in DOMAIN Default, n \in Numbers} \cup {<<"mood", n>> : n \in Numbers}
    \cup {<<"set", "mood">>, <<"set", "mood", 0, "more">>, <<"mood", 0, "more">>}

\* execute: settings_update of the candidate.
Executes(words) ==
  LET parsed == Parsed(words, s.profile)
      accepted == parsed[2] /\ parsed[1].mood \in Allowed
  IN /\ s.count < MaxSets
     /\ s' = [s EXCEPT !.count = @ + 1, !.command = words, !.accepted = accepted,
                       !.before = s.profile, !.profile = IF accepted THEN parsed[1] ELSE @]

FirstProfile == [unit |-> "commands", profile |-> Default, before |-> Default, command |-> <<>>, accepted |-> FALSE,
                 count |-> 0]
CommandsInit == s = FirstProfile

\* The reboot command: nothing was saved.
Reboots == s' = FirstProfile

Init == LinesInit \/ CommandsInit

Next ==
  \/ s.unit = "lines" /\ Lines
  \/ s.unit = "commands" /\ (Reboots \/ \E words \in Commands : Executes(words))
-----------------------------------------------------------------------------

\* The lines that were read to their ends: what lies between two terminators.
Read == SubSeq(s.sent, 1, Len(s.sent) - Len(s.waiting))
Ends == {i \in 1 .. Len(Read) : Read[i] = "end"}
Start(end) == CHOOSE i \in 0 .. end - 1 : (i = 0 \/ i \in Ends) /\ \A j \in i + 1 .. end - 1 : j \notin Ends
Line(end) == SubSeq(Read, Start(end) + 1, end - 1)

Says(line) ==
  IF Len(line) <= MaxLine /\ \A i \in 1 .. Len(line) : line[i] \in Characters THEN line ELSE TooLong

\* "bounded to 95 bytes, and take effect on receipt of a line terminator", and "oversized lines are
\* rejected" (docs/SETTINGS.md:159 and 196): each line is carried out once, in its order, whole.
LinesOnce ==
  LET whole == {e \in Ends : Line(e) # <<>>}
  IN /\ Len(s.said) = Cardinality(whole)
     /\ \A e \in whole : s.said[Cardinality({d \in whole : d <= e})] = Says(Line(e))
     /\ Len(s.line) <= MaxLine

\* What docs/SETTINGS.md:193 lets a command do: "accepts 5-90%", "accepts 1-20%", a face that is not
\* excluded, and two different hours.
Ranges == [mood |-> Moods \cap Allowed, brightness |-> 5 .. 90, nightBrightness |-> 1 .. 20, soundLevel |-> 1 .. 30,
          nightStart |-> 0 .. 23 \ {s.before.nightEnd}, nightEnd |-> 0 .. 23 \ {s.before.nightStart}]

\* A command of the right words names a field and a number.
Named ==
  CASE Len(s.command) = 3 /\ s.command[1] = "set" -> {<<s.command[2], s.command[3]>>}
    [] Len(s.command) = 2 /\ s.command[1] = "mood" -> {<<"mood", s.command[2]>>}
    [] OTHER -> {}

\* A command sets the field it names to any value in its range, and nothing else; the profile stays
\* one that the next start accepts.
OneField ==
  /\ Valid(s.profile) /\ s.profile.mood \in Allowed
  /\ s.accepted => \E c \in Named : c[2] \in Ranges[c[1]] /\ s.profile = [s.before EXCEPT ![c[1]] = c[2]]
  /\ ~s.accepted => s.profile = s.before /\ \A c \in Named : c[2] \notin Ranges[c[1]]

TerminalRight ==
  /\ s.unit = "lines" => LinesOnce
  /\ s.unit = "commands" => OneField
=============================================================================
