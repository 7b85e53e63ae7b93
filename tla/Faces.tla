------------------------------- MODULE Faces -------------------------------
(***************************************************************************)
(* face_policy.h, face_variety.h and their callers: which expression the   *)
(* eyes show, between the selected mood, reactions to touch and to motion, *)
(* faces that follow each other by themselves, and Dizzy over all of them. *)
(* How long a face has been shown is left open: whether it is over, and    *)
(* whether the next one is due, is chosen at each poll.                    *)
(***************************************************************************)
EXTENDS Integers, Sequences, FiniteSets

CONSTANTS
  Faces,        \* the expressions, from 0: Neutral is the first
  Dizzy,
  Catalog,      \* automatic_at: the others, in menu order
  TapFaces, PlayFaces, PetFaces, MotionFaces,  \* the pools
  LongFaces,    \* a cycle of these is over three seconds
  Families,     \* face_family: the representative of each face
  Recent,       \* FaceVariety::CAPACITY
  Group,        \* how many faces a group has
  Moods, Filters,  \* bounds: the moods that are selected, the sets of allowed faces
  Watched       \* a face of the catalog

VARIABLE s  \* FacePolicy: [base, face, previous, active, motion, manual, affection, chain, next: sequence_index,
            \*  recent], [shown, dizzy, saved] of EyeConfig and EyeState, and [allowed, mode, random, imu, shake]
            \*  of the settings; history: missing, the faces that the sequence owes since the watched one,
            \*  owed: what it owed when that one came again, strange: a stroke kept a face of no affection

Neutral == 0
Modes == {"return", "group", "sequence", "continuous"}

\* FaceFilter::resolve: the first allowed face instead of an excluded one.
Resolve(allowed, face) == IF face \in allowed THEN face ELSE CHOOSE f \in allowed : \A g \in allowed : f <= g

-----------------------------------------------------------------------------
(* The policy *)

\* What the sequence has to show before the watched face comes again.
Missing(x) == ({Catalog[i] : i \in DOMAIN Catalog} \cap x.allowed) \ {x.base, Watched}

\* History: any way to show a face counts.
Shows(x, face) == [x EXCEPT !.missing = @ \ {face}]

\* FaceVariety::excludes and remember.
Varied(x, face) ==
  /\ Families[face] \notin {Families[x.face], Families[x.base]}
  /\ \A i \in DOMAIN x.recent : face # x.recent[i] /\ (i <= 2 => Families[face] # Families[x.recent[i]])

Remembered(recent, face) == SubSeq(<<face>> \o recent, 1, IF Len(recent) < Recent THEN Len(recent) + 1 ELSE Recent)

\* FacePolicy::react: a face of the pool that is neither the base nor a repetition, or else
\* only not the base; nothing if there is none.
React(x, pool) ==
  LET usable == (pool \cap x.allowed) \ {x.base}
      fresh == usable \ {x.previous, x.face}
  IN {[Shows(x, face) EXCEPT !.face = face, !.previous = face, !.active = TRUE, !.motion = FALSE, !.manual = TRUE,
                             !.affection = FALSE, !.chain = 0] :
        face \in IF fresh # {} THEN fresh ELSE usable}

\* The places of the catalog from which the next automatic face may be taken.
Places(x) ==
  LET usable == {i \in DOMAIN Catalog : Catalog[i] \in x.allowed \ {x.base}}
      fresh == {i \in usable : /\ Catalog[i] \notin {x.previous, x.face}
                               /\ x.mode = "continuous" => Varied(x, Catalog[i])}
  IN IF fresh # {} THEN fresh ELSE usable

\* The first of them from where the sequence is, or any.
Chosen(x) ==
  LET from(i) == (i - 1 - x.next + Len(Catalog)) % Len(Catalog)
  IN IF x.mode # "sequence" THEN Places(x) ELSE {CHOOSE i \in Places(x) : \A j \in Places(x) : from(i) <= from(j)}

\* FacePolicy::automatic_face.
Automatic(x) ==
  LET picked(face) ==
        IF face # Watched \/ x.mode # "sequence" THEN Shows(x, face)
        ELSE [x EXCEPT !.owed = x.missing, !.missing = Missing(x)]
  IN IF Places(x) = {} THEN {[x EXCEPT !.active = FALSE, !.face = x.base, !.chain = 0]}
     ELSE {[picked(Catalog[i]) EXCEPT
              !.face = Catalog[i], !.previous = Catalog[i], !.next = i % Len(Catalog),
              !.recent = IF x.mode = "continuous" THEN Remembered(@, Catalog[i]) ELSE @,
              !.chain = IF @ < Group THEN @ + 1 ELSE @,
              !.active = TRUE, !.motion = FALSE, !.manual = FALSE, !.affection = FALSE] : i \in Chosen(x)}

\* FacePolicy::pet: what is shown is kept while it lasts; strange is history.
Pet(x, over) ==
  IF x.active /\ x.affection /\ x.face \in x.allowed /\ ~over
  THEN {[x EXCEPT !.strange = x.face \notin PetFaces]}
  ELSE {[y EXCEPT !.affection = TRUE] : y \in React(x, PetFaces)}

\* FacePolicy::sample of motion that lasts, and that suggests a face.
Sample(x, face, over) ==
  LET long == x.mode # "continuous" \/ x.face \in LongFaces
      kept == x.active /\ ~over /\ (x.manual \/ (~x.motion /\ long))
  IN IF kept \/ ~x.imu \/ face \notin x.allowed \ {Neutral} THEN x
     ELSE [Shows(x, face) EXCEPT !.face = face, !.active = TRUE, !.motion = TRUE, !.manual = FALSE]

\* FacePolicy::update; over: the reaction has lasted its time, due: the next one may begin.
Update(x, over, due) ==
  LET current == [x EXCEPT !.base = Resolve(x.allowed, @), !.active = @ /\ x.face \in x.allowed,
                           !.chain = IF x.active /\ x.face \notin x.allowed THEN 0 ELSE @]
      expired == current.active /\ over
      follows == /\ expired /\ ~x.manual /\ (x.motion => x.mode = "continuous")
                 /\ x.random /\ x.mode # "return" /\ (x.mode = "group" => current.chain < Group)
      ends == current.active /\ (expired \/ (x.motion /\ ~x.imu) \/ (~x.motion /\ ~x.random /\ ~x.manual))
      rests == ends /\ (x.mode = "group" \/ (x.mode = "return" /\ expired /\ ~x.manual /\ ~x.motion))
      ended == IF ends THEN [current EXCEPT !.active = FALSE, !.chain = 0] ELSE current
  IN IF follows \/ (due /\ ~rests /\ ~ended.active /\ x.random)
     THEN Automatic(IF follows THEN current ELSE ended)
     ELSE {ended}

\* eyes_faces_step: below Dizzy, the face waits.
Step(x, over, due) ==
  {LET face == IF y.active THEN y.face ELSE y.base
   IN IF y.dizzy THEN [y EXCEPT !.saved = face] ELSE [y EXCEPT !.shown = face] : y \in Update(x, over, due)}

-----------------------------------------------------------------------------
(* The eyes *)

\* eyes_imu_trigger_shake: Dizzy comes over what is shown.
Shaken(x) == IF x.dizzy THEN x ELSE [x EXCEPT !.dizzy = TRUE, !.shown = Dizzy, !.saved = x.shown]

\* eyes_imu_poll, which may find motion or a shake.
Senses(x) ==
  LET moved == {Sample(x, face, over) : face \in MotionFaces \cup {Neutral}, over \in BOOLEAN}
  IN moved \cup IF x.shake /\ Dizzy \in x.allowed THEN {Shaken(y) : y \in moved} ELSE {}

\* The loop on another page.
ImuPoll == s' \in Senses(s)

\* eyes_update: Dizzy may be over.
EyesUpdate ==
  \E over, due \in BOOLEAN, awake \in {[s EXCEPT !.dizzy = FALSE, !.shown = IF s.dizzy THEN s.saved ELSE @], s} :
    \E sensed \in Senses(awake) : s' \in Step(sensed, over, due)

\* A reaction that begins is not over, and where there is none x goes on.
Answered(reactions, x, overs) ==
  IF reactions = {} THEN \E over \in overs, due \in BOOLEAN : s' \in Step(x, over, due)
  ELSE \E y \in reactions : s' \in Step(y, FALSE, FALSE)

\* eyes_faces_tap and eyes_faces_greet, eyes_faces_double, eyes_faces_pet.
Touched ==
  /\ ~s.dizzy
  /\ \/ \E pool \in {TapFaces, PlayFaces} : Answered(React(s, pool), s, BOOLEAN)
     \/ \E over \in BOOLEAN : Answered(Pet(s, over), [s EXCEPT !.affection = FALSE], {over})

\* FacePolicy::reset, and the history of a new sequence.
Reset(x, base) ==
  [x EXCEPT !.base = base, !.face = base, !.previous = base, !.active = FALSE, !.motion = FALSE, !.manual = FALSE,
            !.affection = FALSE, !.chain = 0, !.next = 0, !.recent = <<>>, !.missing = {}, !.owed = {}, !.strange = FALSE]

\* Mutant of Apply: excluding Dizzy does not end it.
ApplyDizzy(x, mood) ==
  LET y == [Reset(x, Resolve(x.allowed, mood)) EXCEPT !.dizzy = @ /\ x.shake]
  IN IF y.dizzy THEN [y EXCEPT !.saved = y.base] ELSE [y EXCEPT !.shown = y.base]

\* settings_apply and eyes_set_expression.
Apply(x, mood) ==
  LET y == [Reset(x, Resolve(x.allowed, mood)) EXCEPT !.dizzy = @ /\ x.shake /\ Dizzy \in x.allowed]
  IN IF y.dizzy THEN [y EXCEPT !.saved = y.base] ELSE [y EXCEPT !.shown = y.base]

\* settings_update, of one setting at a time; a mood that is excluded is refused.
SettingsUpdate ==
  \/ s' \in {Apply([s EXCEPT !.random = ~@], s.base), Apply([s EXCEPT !.imu = ~@], s.base),
             Apply([s EXCEPT !.shake = ~@], s.base)}
  \/ \E mood \in (Moods \cap s.allowed) \ {s.base} : s' = Apply(s, mood)

\* settings_faces_update: the mood stays if it can.
FilterUpdate == \E allowed \in Filters \ {s.allowed} : s' = Apply([s EXCEPT !.allowed = allowed], s.base)

Init ==
  \E mode \in Modes :
    s = [base |-> Neutral, face |-> Neutral, previous |-> Neutral, active |-> FALSE, motion |-> FALSE,
         manual |-> FALSE, affection |-> FALSE, chain |-> 0, next |-> 0, recent |-> <<>>, shown |-> Neutral,
         dizzy |-> FALSE, saved |-> Neutral, allowed |-> Faces, mode |-> mode, random |-> TRUE, imu |-> TRUE,
         shake |-> TRUE, missing |-> {}, owed |-> {}, strange |-> FALSE]

Next == ImuPoll \/ EyesUpdate \/ Touched \/ SettingsUpdate \/ FilterUpdate

-----------------------------------------------------------------------------

(***************************************************************************)
(* An excluded face is not shown, nor does one wait below Dizzy, whatever  *)
(* was going on when it was excluded: face_filter.h, docs/FACE_LIBRARY.md. *)
(***************************************************************************)
FaceAllowed == s.shown \in s.allowed /\ (s.dizzy => s.shown = Dizzy /\ s.saved \in s.allowed)

\* "Sequence continuously visits faces in enum/menu order" (docs/SETTINGS.md:263): a face comes
\* again by itself only when the others have been seen, whatever reactions came between.
SequenceFair == s.owed = {}

FacesRight == FaceAllowed /\ SequenceFair

\* "Petting still requests affectionate faces, and further strokes keep the same face"
\* (docs/SETTINGS.md:321): a stroke is not answered with a face of motion.
PetIsAffectionate == ~s.strange
=============================================================================
