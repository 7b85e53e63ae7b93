------------------------------ MODULE MCLoop -------------------------------
(***************************************************************************)
(* Parts that the loop polls and that must come to an end, checked in one  *)
(* run, each in the behaviours in which part names it: network time, the   *)
(* module that is extended; the power key (PowerKey, on s); and the pages  *)
(* (MainLoop).                                                             *)
(***************************************************************************)
EXTENDS NtpSync

CONSTANTS Capacity, Carousel, Tools  \* of MainLoop

\* Music and Weather are pages of the carousel like the others.
MCCarousel == <<"Eyes", "Clock", "Navigation", "Notification", "Settings">>

VARIABLES
  part, s,
  ui, cached, page, overlay, auto, session, mode, touching, latched, dashboard, pc, opened

pageVars == <<ui, cached, page, overlay, auto, session, mode, touching, latched, dashboard, pc, opened>>
loopVars == <<part, s, vars, pageVars>>

Key == INSTANCE PowerKey

Pages == INSTANCE MainLoop

\* Where a part does not move, its state is one of those it begins in.
LoopInit ==
  /\ part \in {"ntp", "key", "pages"}
  /\ Init /\ Key!Init /\ Pages!Init
  /\ part # "key" => ~s.down
  /\ part # "pages" => dashboard

\* An action of one part.
InNtp(Action) == part = "ntp" /\ Action /\ UNCHANGED <<part, s, pageVars>>
InKey(Action) == part = "key" /\ Action /\ UNCHANGED <<part, vars, pageVars>>
InPages(Action) == part = "pages" /\ Action /\ UNCHANGED <<part, s, vars>>

LoopNext == InNtp(Next) \/ InKey(Key!Next) \/ InPages(Pages!Next)

\* The fairness of each part.  As part never changes, fairness of a disjunction over
\* the parts is that of each.
LoopSpec ==
  /\ LoopInit /\ [][LoopNext]_loopVars
  /\ WF_loopVars(InNtp(Poll) \/ (InKey(Key!Read) /\ s'.pc = "ack") \/ InPages(Pages!Loop))
  /\ WF_loopVars(InNtp(Expires) \/ InKey(Key!Acknowledge))
  /\ SF_loopVars(InPages(Pages!Session /\ Pages!Ended)) /\ SF_loopVars(InPages(Pages!Touch /\ Pages!Lifted))
  /\ SF_loopVars(InPages(Pages!Draw /\ mode' # mode)) /\ SF_loopVars(InPages(Pages!Draw /\ Pages!Shown))
  /\ SF_loopVars(InPages(Pages!Key /\ ~mode'.shutting))

-----------------------------------------------------------------------------

\* A farewell is not drawn for ever over a key that is up: PowerKey.
PreviewEnds == Key!PreviewEnds

\* A new alert is shown, however late: MainLoop.
AlertOpens == Pages!AlertOpens

\* The loop returns only to the page that the alert replaced: MainLoop.
ReturnsWhereOpened == Pages!ReturnsWhereOpened

\* A call that is over does not cover the page for ever: MainLoop.
OverlayEnds == Pages!OverlayEnds
=============================================================================
