------------------------------ MODULE PowerKey ------------------------------
(***************************************************************************)
(* power_button.cpp: the preview of a shutdown while the key is held, from *)
(* the events that the power chip latches.  The status register is read    *)
(* and then acknowledged in two transfers; either may fail, and the key    *)
(* may move in between.  power_button_init's failures, after which         *)
(* power_button_preview does nothing, are left out.                        *)
(***************************************************************************)
VARIABLE s  \* [down: the key, held: for a second, irq: latched events, key_down, preview,
            \*  read: events read but not acknowledged,
            \*  pc: "idle", "ack", or "moved" if the key did since they were read]

KeyEvents == {"press", "long", "release"}

\* The chip latches the edges, and the press that lasts a second.  Between the two transfers
\* of one poll, which are less than a millisecond apart, there is time for one edge only.
Key ==
  LET latch(event) == [s EXCEPT !.irq = @ \cup {event}, !.pc = IF @ = "ack" THEN "moved" ELSE @]
  IN \/ s.pc # "moved" /\ ~s.down /\ s' = [latch("press") EXCEPT !.down = TRUE, !.held = FALSE]
     \/ s.pc # "moved" /\ s.down /\ ~s.held /\ s' = [latch("long") EXCEPT !.held = TRUE]
     \/ s.pc # "moved" /\ s.down /\ s' = [latch("release") EXCEPT !.down = FALSE, !.held = FALSE]

\* A failed transfer ends the preview.
Failed == s' = [s EXCEPT !.key_down = FALSE, !.preview = FALSE, !.read = {}, !.pc = "idle"]

\* power_button_preview, its first transfer.
Read ==
  /\ s.pc = "idle"
  /\ \/ Failed
     \/ s.irq # {} /\ s' = [s EXCEPT !.read = s.irq, !.pc = "ack"]

\* Mutant of Cleared: every key event is acknowledged, read or not.
ClearedAll == {}

\* What the acknowledgement leaves latched: it clears the events that were read.
Cleared == s.irq \ s.read

\* power_button_preview, its second transfer, and what the events mean; a release wins.
Acknowledge ==
  /\ s.pc \in {"ack", "moved"}
  /\ \/ Failed
     \/ LET down == s.key_down \/ "press" \in s.read
        IN s' = [s EXCEPT !.irq = Cleared, !.read = {}, !.pc = "idle",
                          !.key_down = down /\ "release" \notin s.read,
                          !.preview = (@ \/ (down /\ "long" \in s.read)) /\ "release" \notin s.read]

\* power_button_init clears what the press that switched the board on has latched.
Init ==
  \E down, held \in BOOLEAN :
    s = [down |-> down, held |-> down /\ held, irq |-> {}, key_down |-> FALSE, preview |-> FALSE,
         read |-> {}, pc |-> "idle"]

Next == Key \/ Read \/ Acknowledge

\* The loop polls at 40 ms, and transfers succeed at times.
Progress == WF_s(Read /\ s'.pc = "ack") /\ WF_s(Acknowledge)

\* "Release wins if both edges accumulated while the main task was busy": a farewell is not
\* drawn for ever over a key that is up, whenever it was let go.
PreviewEnds == s.preview /\ ~s.down ~> ~s.preview \/ s.down
=============================================================================
