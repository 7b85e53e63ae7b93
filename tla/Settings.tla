----------------------------- MODULE Settings -----------------------------
(***************************************************************************)
(* settings.cpp with the writers of the profile and of the face filter:    *)
(* the menu, the USB terminal and the two web pages of a session.  The     *)
(* records are two preferences, written one after the other; power may     *)
(* fail at any point.  Of the profile, the expression is kept, and one     *)
(* value for all that the filter does not touch.                           *)
(***************************************************************************)
EXTENDS Integers, FiniteSets

CONSTANTS
  Faces,        \* 0 .. EXPRESSION_COUNT - 1
  Values,       \* what the rest of a profile may be, the default 0 among it
  MaxRevision   \* bound: revisions between two boots

VARIABLES
  profile,  \* profile
  faces,    \* face_filter()
  rotate,   \* imu_orientation().enabled
  saved,    \* [ready: storage_ready, profile: saved or None, faces: saved_faces]
  rev,      \* [all: revision, faces: faces_revision]
  nvs,      \* the two records
  saving,   \* what the save under way has still to write
  session,  \* a web session is open
  form      \* what a browser has read, and will send back; mine: under this session's token

vars == <<profile, faces, rotate, saved, rev, nvs, saving, session, form>>

Current == 10  \* the version that settings_encode writes
None == [missing |-> TRUE]
Default == [mood |-> 0, rest |-> 0]

\* What settings_encode and FaceFilter::encode write.
Encoded(p) == [version |-> Current, profile |-> p]
EncodedFaces(f) == [count |-> Cardinality(Faces), mask |-> f]

Smallest(S) == CHOOSE x \in S : \A y \in S : x <= y

\* FaceFilter::resolve.
Resolve(f, mood) == IF mood \in f THEN mood ELSE Smallest(f)

\* FaceFilter::decode: a shorter catalog allows the faces appended since.
LoadedFaces(n) == IF n.faces = None THEN Faces ELSE n.faces.mask \cup {x \in Faces : x >= n.faces.count}

\* settings_init's profile.
LoadedProfile(n) ==
  LET p == IF n.profile = None THEN Default ELSE n.profile.profile
  IN [p EXCEPT !.mood = Resolve(LoadedFaces(n), @)]

NoRecords == [profile |-> None, faces |-> None]

\* settings_init, of the records n when the storage opens: revisions begin again.
Loaded(n, ready) ==
  LET m == IF ready THEN n ELSE NoRecords
  IN /\ faces' = LoadedFaces(m) /\ profile' = LoadedProfile(m)
     /\ saved' = [ready |-> ready, profile |-> m.profile, faces |-> LoadedFaces(m)]
     /\ rev' = [all |-> 1, faces |-> 1]

\* Revisions that are not counted beyond the bound would repeat.
Counts == rev.all < MaxRevision

\* settings_update of a valid profile.
Update(value) ==
  /\ value.mood \in faces
  /\ profile' = value
  /\ rev' = IF value = profile THEN rev ELSE [rev EXCEPT !.all = @ + 1]

\* settings_faces_update.
FacesUpdate(f) ==
  /\ f # {}
  /\ IF f = faces THEN UNCHANGED <<faces, profile, rev>>
     ELSE /\ faces' = f
          /\ rev' = [all |-> rev.all + 1, faces |-> rev.faces + 1]
          /\ profile' = [profile EXCEPT !.mood = Resolve(f, @)]

FacesDirty == faces # saved.faces

\* Mutant of Dirty: the filter is forgotten.
DirtyProfile == saved.profile # Encoded(profile)

\* settings_dirty.
Dirty == saved.profile # Encoded(profile) \/ FacesDirty

(***************************************************************************)
(* The writers.  The loop runs one at a time: none runs during a save.     *)
(* What begins anew of itself is within the bound; what it is followed by, *)
(* a save or a form that is sent, is not.                                  *)
(***************************************************************************)
Quiet == saving = {}
Bounded == Quiet /\ Counts

\* A row of the menu, a cell of its grid, the quick mute, a set command of the terminal.
Edit ==
  /\ Bounded
  /\ \E value \in [mood : Faces, rest : Values] : Update(value)
  /\ UNCHANGED <<faces, rotate, saved, nvs, saving, session, form>>

\* grid_cell of the filter, which a session hides: FaceFilter::set refuses to exclude the last.
Toggle(face) ==
  /\ Bounded /\ ~session
  /\ IF face \in faces THEN faces # {face} /\ FacesUpdate(faces \ {face}) ELSE FacesUpdate(faces \cup {face})
  /\ UNCHANGED <<rotate, saved, nvs, saving, session, form>>

\* settings_defaults.
Defaults ==
  /\ Bounded
  /\ faces' = Faces /\ profile' = Default
  /\ LET filter == IF faces = Faces THEN 0 ELSE 1
         p == IF profile = Default THEN 0 ELSE 1
     IN rev' = [all |-> rev.all + filter + p, faces |-> rev.faces + filter]
  /\ UNCHANGED <<rotate, saved, nvs, saving, session, form>>

\* The auto-rotate row of the menu.
Rotates ==
  /\ Bounded /\ ~session /\ rotate' = ~rotate
  /\ UNCHANGED <<profile, faces, saved, rev, nvs, saving, session, form>>

\* settings_save and settings_faces_save begin: without storage nothing is written.
Save(what) ==
  /\ saved.ready /\ saving' = what

SaveButton ==
  /\ Quiet /\ Save({"profile", "faces"})
  /\ UNCHANGED <<profile, faces, rotate, saved, rev, nvs, session, form>>

\* settings_save, its first write: if it fails the second is not tried.
WriteProfile ==
  /\ "profile" \in saving
  /\ \/ /\ saved.profile = Encoded(profile) /\ saving' = saving \ {"profile"}
        /\ UNCHANGED <<nvs, saved, rev>>
     \/ /\ saved.profile # Encoded(profile) /\ saving' = saving \ {"profile"}
        /\ nvs' = [nvs EXCEPT !.profile = Encoded(profile)]
        /\ saved' = [saved EXCEPT !.profile = Encoded(profile)]
        /\ rev' = [rev EXCEPT !.all = @ + 1]
     \/ /\ saved.profile # Encoded(profile) /\ saving' = {} /\ UNCHANGED <<nvs, saved, rev>>
  /\ UNCHANGED <<profile, faces, rotate, session, form>>

\* settings_faces_save.
WriteFaces ==
  /\ saving = {"faces"} /\ saving' = {}
  /\ \/ UNCHANGED <<nvs, saved, rev>>
     \/ /\ FacesDirty
        /\ nvs' = [nvs EXCEPT !.faces = EncodedFaces(faces)]
        /\ saved' = [saved EXCEPT !.faces = faces]
        /\ rev' = [rev EXCEPT !.all = @ + 1]
  /\ UNCHANGED <<profile, faces, rotate, session, form>>

(***************************************************************************)
(* The web pages of a session.                                             *)
(***************************************************************************)
\* No page read, or only under the token of an earlier session: the tokens are random and do
\* not come back, so that form is refused from then on, also where revisions begin again.
NoForm == [mine |-> FALSE]

\* settings_web::revision.
Tag == <<rev.all, rotate>>

\* A session with a token of its own begins, or ends.
Sessions ==
  /\ Quiet /\ session' = ~session /\ form' = NoForm
  /\ UNCHANGED <<profile, faces, rotate, saved, rev, nvs, saving>>

\* GET of both states.
Reads ==
  /\ session /\ Bounded
  /\ form' = [mine |-> TRUE, tag |-> Tag, faces_tag |-> rev.faces,
              profile |-> profile, faces |-> faces, rotate |-> rotate]
  /\ UNCHANGED <<profile, faces, rotate, saved, rev, nvs, saving, session>>

\* The token that a request carries is this session's.
Authorized == session /\ form.mine

\* settings_web::save of a complete form, whose fields the user may have changed.
SettingsForm ==
  /\ Quiet /\ Authorized /\ form.tag = Tag
  /\ \E value \in [mood : Faces, rest : Values] : Update(value)
  /\ rotate' \in BOOLEAN
  /\ IF saved.ready THEN Save({"profile", "faces"}) ELSE UNCHANGED saving
  /\ UNCHANGED <<faces, saved, nvs, session, form>>

\* Mutant of FacesForm: the revision that the page was read at is not compared.
FacesFormUnread ==
  /\ Quiet /\ Authorized
  /\ \E f \in SUBSET Faces : FacesUpdate(f)
  /\ IF saved.ready THEN Save({"faces"}) ELSE UNCHANGED saving
  /\ UNCHANGED <<rotate, saved, nvs, session, form>>

\* face_web::save.
FacesForm ==
  /\ Quiet /\ Authorized /\ form.faces_tag = rev.faces
  /\ \E f \in SUBSET Faces : FacesUpdate(f)
  /\ IF saved.ready THEN Save({"faces"}) ELSE UNCHANGED saving
  /\ UNCHANGED <<rotate, saved, nvs, session, form>>

\* Power fails and comes back, or the terminal restarts the board.
Reboot ==
  /\ \E ready \in BOOLEAN : Loaded(nvs, ready)
  /\ saving' = {} /\ rotate' = FALSE /\ session' = FALSE /\ form' = NoForm
  /\ UNCHANGED nvs

\* The records of this firmware, of an older one or none, and one boot.
Init ==
  /\ nvs \in [profile : {None, [version |-> Current - 1, profile |-> Default]},
              faces : {None, [count |-> 1, mask |-> {0}]}]
  /\ faces = LoadedFaces(nvs) /\ profile = LoadedProfile(nvs)
  /\ saved = [ready |-> TRUE, profile |-> nvs.profile, faces |-> faces]
  /\ rev = [all |-> 1, faces |-> 1] /\ rotate = FALSE
  /\ saving = {} /\ session = FALSE /\ form = NoForm

Next ==
  \/ Edit \/ Defaults \/ Rotates \/ SaveButton \/ WriteProfile \/ WriteFaces
  \/ \E face \in Faces : Toggle(face)
  \/ Sessions \/ Reads \/ SettingsForm \/ FacesForm \/ Reboot

Spec == Init /\ [][Next]_vars

(***************************************************************************)
(* Properties.                                                             *)
(***************************************************************************)
\* The types of the records; and the expression shown is one the filter allows, which is
\* not empty, now and after any loss of power.
TypeOK ==
  /\ profile \in [mood : faces, rest : Values] /\ faces \in (SUBSET Faces) \ {{}}
  /\ LoadedProfile(nvs).mood \in LoadedFaces(nvs)
  /\ saving \subseteq {"profile", "faces"} /\ rotate \in BOOLEAN

\* What is not shown as unsaved is what a restart brings back.
CleanSurvives ==
  saving = {} /\ ~Dirty => LoadedProfile(nvs) = profile /\ LoadedFaces(nvs) = faces

\* The profile and the filter, now and after any loss of power.
SettingsRight == TypeOK /\ CleanSurvives

\* A form is accepted only while all that it replaces is as its page showed it: no change
\* made since, by the terminal, the menu or another page, is overwritten unseen.
FormIsCurrent ==
  [][ /\ SettingsForm => profile = form.profile /\ rotate = form.rotate
      /\ FacesForm => faces = form.faces ]_vars
=============================================================================
