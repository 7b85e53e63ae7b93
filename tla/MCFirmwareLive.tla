--------------------------- MODULE MCFirmwareLive ---------------------------
(***************************************************************************)
(* The liveness of FirmwareUpdate on two small instances in one run, which *)
(* source tells apart: uploads without a card, the module that is          *)
(* extended, and cards without uploads.                                    *)
(***************************************************************************)
EXTENDS MCFirmwareUpdate

VARIABLE source

Card == INSTANCE FirmwareUpdate WITH
  Bodies <- {}, Cards <- MCOneBody, MaxParts <- 1, SdSessionTicks <- 2

\* An action of one instance.
InUpload(Action) == source = "upload" /\ Action /\ UNCHANGED source
InCard(Action) == source = "card" /\ Action /\ UNCHANGED source

LiveInit == (source = "upload" /\ Init) \/ (source = "card" /\ Card!Init)
LiveNext == InUpload(Next) \/ InCard(Card!Next)

\* The fairness of both instances.
LiveSpec ==
  /\ LiveInit /\ [][LiveNext]_<<vars, source>>
  /\ WF_vars(source = "upload" /\ LoopTop) /\ WF_vars(source = "upload" /\ ServeSession)
  /\ WF_vars(source = "upload" /\ ServeUpload) /\ WF_vars(source = "upload" /\ Tick)
  /\ WF_vars(source = "card" /\ Card!LoopTop) /\ WF_vars(source = "card" /\ Card!ServeSession)
  /\ WF_vars(source = "card" /\ Card!ServeUpload) /\ WF_vars(source = "card" /\ Card!Tick)
=============================================================================
