------------------------------ MODULE MCPhones ------------------------------
(***************************************************************************)
(* The two kinds of phone, checked in one run of two parts, each in the    *)
(* behaviours in which part names it: an iPhone's services (Ancs, the      *)
(* module that is extended), and the link of the companion app, with       *)
(* neither alarms nor reminders (Companion).                               *)
(***************************************************************************)
EXTENDS Ancs

VARIABLES part, state, action, main, local, clock, ringing, ios, rung, heard

linkVars == <<state, action, main, local, clock, ringing, ios, rung, heard>>
phoneVars == <<part, vars, linkVars>>

Link == INSTANCE Companion WITH
  Slots <- {}, Reminders <- {}, DayHours <- 1, HourMinutes <- 1, MaxMinute <- 2, MaxSets <- 0,
  MaxLinks <- 3, MaxFinds <- 1,
  phone <- ringing

\* An action of one part.
InAncs(Action) == part = "ancs" /\ Action /\ UNCHANGED <<part, linkVars>>
InLink(Action) == part = "link" /\ Action /\ UNCHANGED <<part, vars>>

PhoneInit == part \in {"ancs", "link"} /\ Init /\ Link!Init

PhoneNext == InAncs(Next) \/ InLink(Link!Next)

\* The fairness of both parts.
PhoneSpec ==
  /\ PhoneInit /\ [][PhoneNext]_phoneVars
  /\ WF_vars(InAncs(Work)) /\ WF_vars(InAncs(Ages))
  /\ WF_linkVars(InLink(Link!Poll)) /\ WF_linkVars(InLink(Link!FindAges))

-----------------------------------------------------------------------------

\* What the two tasks hold of the link and of the search: Companion.
LinkRight == Link!LinkRight

\* The search for the phone ends while connected: Companion.
SearchEnds == Link!SearchEnds
=============================================================================
