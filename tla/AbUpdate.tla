------------------------------ MODULE AbUpdate ------------------------------
(***************************************************************************)
(* What a two-slot firmware update promises, whatever carries the image:   *)
(* the device always runs, and always selects, an image made for it; a new *)
(* image is on trial for one boot and the old one stays until it passed.   *)
(***************************************************************************)
EXTENDS Integers

VARIABLES
  genuine,   \* the slots that hold a complete image of this board
  selected,  \* the slot the next boot starts
  running,   \* the slot this boot runs from
  trial      \* "none"; "armed" once selected, "running" once started

abVars == <<genuine, selected, running, trial>>

Spare == 1 - running

AbInit ==
  /\ running \in {0, 1}
  /\ selected = running
  /\ genuine \in SUBSET {0, 1}
  /\ running \in genuine
  /\ trial = "none"

\* The spare slot is rewritten, for better or worse, unless it is the fallback
\* of a running trial or awaits its own.
Rewrite ==
  /\ trial = "none"
  /\ genuine' \in {genuine \cup {Spare}, genuine \ {Spare}}
  /\ UNCHANGED <<selected, running, trial>>

\* The spare slot is rewritten with a genuine image and selected.
Install ==
  /\ trial = "none"
  /\ genuine' = genuine \cup {Spare}
  /\ selected' = Spare
  /\ trial' = "armed"
  /\ UNCHANGED running

\* The image on trial has proved itself.
Accept ==
  /\ trial = "running"
  /\ trial' = "none"
  /\ UNCHANGED <<genuine, selected, running>>

\* A reset starts an armed trial and ends a running one in the old image.
Reboot ==
  /\ trial' = IF trial = "armed" THEN "running" ELSE "none"
  /\ selected' = IF trial = "running" THEN Spare ELSE selected
  /\ running' = selected'
  /\ UNCHANGED genuine

AbNext == Rewrite \/ Install \/ Accept \/ Reboot

AbSpec == AbInit /\ [][AbNext]_abVars
=============================================================================
