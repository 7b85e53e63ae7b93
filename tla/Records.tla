----------------------------- MODULE Records -----------------------------
(***************************************************************************)
(* settings_model.h and companion_language.cpp: the record of a profile,   *)
(* whose flags share bytes, and the record of what the numbers of an app's *)
(* languages mean.  A byte is the set of its bits that are 1.  The two     *)
(* share no state; s.unit says whose state s is.                           *)
(***************************************************************************)
EXTENDS Integers, Sequences, FiniteSets

CONSTANT Languages  \* numbers that an app sends, 255 not among them

VARIABLE s

None == 255

(***************************************************************************)
(* The record of a profile.                                                *)
(***************************************************************************)
Byte(n) == {i \in 0 .. 7 : (n \div (2 ^ i)) % 2 = 1}
Number(b) == LET f[i \in 0 .. 8] == IF i = 0 THEN 0 ELSE f[i - 1] + (IF i - 1 \in b THEN 2 ^ (i - 1) ELSE 0) IN f[8]
Xor(a, b) == (a \ b) \cup (b \ a)

\* The flags of the two bytes that hold seven and more of them, by their bits.
Display == <<"night", "dashboard", "shake", "dim", "random", "imu", "route", "ios">>
Audible == <<"sound", "soundFaces", "soundTimer", "soundAlerts", "soundAmbient", "nightMute", "sd">>

\* The numbers of a profile, by their bytes, with their limits (settings_valid).
Fields == <<"style", "color", "mood", "brightness", "nightBrightness">>
Limits == [style |-> 0 .. 6, color |-> 0 .. 5, mood |-> 0 .. 145, brightness |-> 5 .. 90, nightBrightness |-> 1 .. 20,
           soundLevel |-> 1 .. 30, animation |-> 0 .. 2, language |-> 0 .. 1, faceFlow |-> 0 .. 3,
           nightStart |-> 0 .. 23, nightEnd |-> 0 .. 23]
Valid(p) == (\A f \in DOMAIN Limits : p.number[f] \in Limits[f]) /\ p.number.nightStart # p.number.nightEnd

Default ==
  [on |-> {"dashboard", "route", "soundFaces", "soundTimer", "soundAlerts", "soundAmbient", "nightMute", "soundCharging"},
   number |-> [style |-> 1, color |-> 0, mood |-> 0, brightness |-> 30, nightBrightness |-> 5, soundLevel |-> 10,
               animation |-> 1, language |-> 0, faceFlow |-> 0, nightStart |-> 22, nightEnd |-> 7]]

Packed(p, flags) == {i - 1 : i \in {j \in DOMAIN flags : flags[j] \in p.on}}
Unpacked(b, flags) == {flags[i + 1] : i \in b \cap (0 .. Len(flags) - 1)}
Bit(p, flag) == IF flag \in p.on THEN {0} ELSE {}

Checksum(bytes) ==
  LET f[n \in 0 .. Len(bytes)] == IF n = 0 THEN Byte(165) ELSE Xor(f[n - 1], bytes[n])
  IN f[Len(bytes)]

\* settings_encode: byte 1 here is byte 0 of the code.
Encode(p) ==
  LET bytes == <<Byte(10)>> \o [i \in 1 .. 5 |-> Byte(p.number[Fields[i]])]
               \o <<Packed(p, Display), Packed(p, Audible),
                    Byte(p.number.soundLevel), Byte(p.number.animation), Byte(p.number.language),
                    Bit(p, "flipped") \cup {i + 1 : i \in Byte(p.number.faceFlow)},
                    Bit(p, "nightAuto"), Byte(p.number.nightStart), Byte(p.number.nightEnd), Bit(p, "soundCharging")>>
  IN Append(bytes, Checksum(bytes))

\* The lengths and the versions that they hold.
Lengths(version) == CASE version \in 1 .. 3 -> 8 [] version = 4 -> 12 [] version \in 5 .. 8 -> 13 [] version = 9 -> 16 [] OTHER -> 17

\* The bits that a version leaves 0.
Unused(version) ==
  [b6 |-> CASE version = 1 -> 4 .. 7 [] version = 2 -> 6 .. 7 [] version \in 3 .. 6 -> {7} [] OTHER -> {},
   b7 |-> IF version >= 8 THEN {7} ELSE {6, 7},
   b11 |-> IF version = 5 THEN 1 .. 7 ELSE 3 .. 7]

\* The profile of the bytes of a record whose form is right: what a version lacks is the default.
Read(bytes, version) ==
  LET n(i) == Number(bytes[i + 1])
      Since(first, value, default) == IF version >= first THEN value ELSE default
      Flag(first, i, flag) == IF version >= first /\ 0 \in bytes[i + 1] THEN {flag} ELSE {}
      d == Default.number
  IN [on |-> Unpacked(bytes[7], Display) \cup Since(3, {}, {"route"})
             \cup Since(4, Unpacked(bytes[8], Audible), Default.on \cap {Audible[i] : i \in DOMAIN Audible})
             \cup Flag(5, 11, "flipped") \cup Flag(9, 12, "nightAuto")
             \cup Since(10, Flag(10, 15, "soundCharging"), {"soundCharging"}),
      number |-> [style |-> n(1), color |-> n(2), mood |-> n(3), brightness |-> n(4), nightBrightness |-> n(5),
                  soundLevel |-> Since(4, n(8), d.soundLevel), animation |-> Since(4, n(9), d.animation),
                  language |-> Since(4, n(10), d.language), faceFlow |-> Since(6, n(11) \div 2, d.faceFlow),
                  nightStart |-> Since(9, n(13), d.nightStart), nightEnd |-> Since(9, n(14), d.nightEnd)]]

\* settings_decode: {} if it refuses.
Decode(bytes) ==
  LET version == Number(bytes[1])
      unused == Unused(version)
      form == /\ version \in 1 .. 10 /\ Len(bytes) = Lengths(version)
              /\ bytes[Len(bytes)] = Checksum(SubSeq(bytes, 1, Len(bytes) - 1))
              /\ bytes[7] \cap unused.b6 = {}
              /\ version >= 4 => bytes[8] \cap unused.b7 = {}
              /\ version >= 5 => bytes[12] \cap unused.b11 = {}
              /\ version >= 9 => bytes[13] \subseteq {0}
              /\ version >= 10 => bytes[16] \subseteq {0}
  IN IF form /\ Valid(Read(bytes, version)) THEN {Read(bytes, version)} ELSE {}

\* What an older version wrote, as settings_decode expects it: the bytes up to its length.
Older(p, version) ==
  LET bytes == Encode(p)
      head == <<Byte(version)>> \o SubSeq(bytes, 2, Lengths(version) - 1)
      unused == Unused(version)
      cleared == [i \in DOMAIN head |->
                    CASE i = 7 -> head[i] \ unused.b6
                      [] i = 8 /\ version >= 4 -> head[i] \ unused.b7
                      [] i = 12 /\ version >= 5 -> head[i] \ unused.b11
                      [] OTHER -> head[i]]
  IN Append(cleared, Checksum(cleared))

\* The profiles: all the flags of a byte, and the limits of each number.
Limit(S) == {x \in S : (\A y \in S : x <= y) \/ \A y \in S : x >= y}
Flagged(on) == [Default EXCEPT !.on = Xor(@, on)]
Profiles ==
  {Flagged(on) : on \in (SUBSET {Display[i] : i \in 1 .. 8}) \cup (SUBSET {Audible[i] : i \in 1 .. 7})}
  \cup (UNION {{[Default EXCEPT !.number[f] = n] : n \in Limit(Limits[f])} : f \in DOMAIN Limits})
  \cup (UNION {{[Flagged(on) EXCEPT !.number.faceFlow = n] : n \in Limits.faceFlow} :
                on \in SUBSET {"flipped", "nightAuto", "soundCharging"}})

\* A record is written, or is one of an older version; a bit of it is lost (bound: if it is of the
\* current version, and a number of it is not the default).
Writes == s.bytes = <<>> /\ s' = [s EXCEPT !.bytes = Encode(s.profile), !.version = 10]
Loses == s.version = 10 /\ s.profile.number # Default.number /\ ~s.lost /\ \E i \in DOMAIN s.bytes, bit \in 0 .. 7 :
           s' = [s EXCEPT !.bytes[i] = Xor(@, {bit}), !.lost = TRUE]
Upgrades == s.bytes = <<>> /\ \E version \in 1 .. 9 : s' = [s EXCEPT !.bytes = Older(s.profile, version), !.version = version]

Erases == s.bytes # <<>> /\ s' = [s EXCEPT !.bytes = <<>>, !.version = 0, !.lost = FALSE]

ProfileInit == \E p \in Profiles : s = [unit |-> "profile", profile |-> p, bytes |-> <<>>, version |-> 0, lost |-> FALSE]

(***************************************************************************)
(* Languages: [bound: bindings, of English and Italian; stored: the record,*)
(* or none; received: the last number; locale: of the profile].  History:  *)
(* meant, the locale that each number was last saved for, or None.         *)
(***************************************************************************)
\* companion_language_get.
Known(bound, id) == IF id = None THEN None ELSE IF id = bound[1] THEN 0 ELSE IF id = bound[2] THEN 1 ELSE None

\* companion_language_init.
Restarts == s' = [s EXCEPT !.bound = IF s.stored = <<>> THEN <<None, None>> ELSE s.stored, !.received = None, !.locale = 0]

\* language of companion_service.cpp, when the app sends a number.
Receives(id) ==
  s' = [s EXCEPT !.received = id, !.locale = IF Known(s.bound, id) = None THEN @ ELSE Known(s.bound, id)]

\* companion_language_bind, of the number that was received: the write may fail.
Binds(locale) ==
  LET other == IF s.bound[2 - locale] = s.received THEN None ELSE s.bound[2 - locale]
      next == IF locale = 0 THEN <<s.received, other>> ELSE <<other, s.received>>
  IN /\ s.received # None
     /\ s' = [s EXCEPT !.bound = next, !.stored = next,
                       !.meant = [l \in Languages |->
                                    IF l = s.received THEN locale ELSE IF @[l] = locale THEN None ELSE @[l]]]

LanguageInit ==
  s = [unit |-> "language", bound |-> <<None, None>>, stored |-> <<>>, received |-> None, locale |-> 0,
       meant |-> [l \in Languages |-> None]]

Init == ProfileInit \/ LanguageInit

Next ==
  \/ s.unit = "profile" /\ (Writes \/ Loses \/ Upgrades \/ Erases)
  \/ s.unit = "language" /\ (Restarts \/ (\E id \in Languages : Receives(id)) \/ \E locale \in {0, 1} : Binds(locale))

-----------------------------------------------------------------------------

\* A profile that is written is read again as it was, a record of which a bit was lost is refused,
\* and one of an older version keeps all that it holds.
NumberSince ==
  [f \in DOMAIN Limits |->
     CASE f \in {"soundLevel", "animation", "language"} -> 4
       [] f = "faceFlow" -> 6
       [] f \in {"nightStart", "nightEnd"} -> 9
       [] OTHER -> 1]
FlagsSince ==
  [f \in {Display[i] : i \in DOMAIN Display} \cup {Audible[i] : i \in DOMAIN Audible}
         \cup {"flipped", "nightAuto", "soundCharging"} |->
     CASE f \in {"random", "imu"} -> 2 [] f = "route" -> 3 [] f = "ios" -> 7 [] f = "sd" -> 8 [] f = "flipped" -> 5
       [] f = "nightAuto" -> 9 [] f = "soundCharging" -> 10
       [] f \in {Audible[i] : i \in 1 .. 6} -> 4 [] OTHER -> 1]
ProfileKept ==
  s.bytes # <<>> =>
    IF s.lost THEN Decode(s.bytes) = {}
    ELSE \E q \in Decode(s.bytes) :
           /\ \A f \in DOMAIN Limits : q.number[f] = IF s.version >= NumberSince[f] THEN s.profile.number[f] ELSE Default.number[f]
           /\ \A f \in DOMAIN FlagsSince : f \in q.on <=> f \in (IF s.version >= FlagsSince[f] THEN s.profile.on ELSE Default.on)

\* "associate that exact ID with the desired locale", "Unknown IDs leave the selected locale
\* unchanged" (docs/CHRONOS.md:42): a number has the meaning that it was last saved for, also after
\* a restart, and one meaning.
LanguageKept == \A l \in Languages : Known(s.bound, l) = s.meant[l]

RecordsRight ==
  /\ s.unit = "profile" => ProfileKept
  /\ s.unit = "language" => LanguageKept
=============================================================================
