------------------------------ MODULE OtaBoot ------------------------------
(***************************************************************************)
(* ota_boot.cpp and ota_boot.h: a freshly installed image runs on trial    *)
(* until the main loop has seen it healthy for fifteen seconds; a reset    *)
(* before that makes the bootloader abandon it.                            *)
(***************************************************************************)
EXTENDS EspOta

CONSTANT HealthyTicks     \* 15000 ms

ASSUME HealthyAssumption == HealthyTicks \in Nat \ {0}

VARIABLES
  health,         \* OtaBootHealth, and checked of ota_boot_poll
  screen_ready,   \* setup() initialised the display and the UI
  boot_ready      \* setup() ran to its end with Bluetooth up

bootVars == <<health, screen_ready, boot_ready>>

\* age stands for now - since_ while observing.
Unobserved == [observing |-> FALSE, age |-> 0, checked |-> FALSE]

OtaBootTypeOK ==
  /\ health \in [observing : BOOLEAN, age : 0..HealthyTicks, checked : BOOLEAN]
  /\ screen_ready \in BOOLEAN
  /\ boot_ready \in BOOLEAN

\* setup(): boot_ready is assigned last, after the display came up.
SetUp ==
  /\ health' = Unobserved
  /\ screen_ready' \in BOOLEAN
  /\ boot_ready' \in BOOLEAN
  /\ boot_ready' => screen_ready'

OtaBootInit ==
  /\ health = Unobserved
  /\ screen_ready \in BOOLEAN
  /\ boot_ready \in BOOLEAN
  /\ boot_ready => screen_ready

Healthy == boot_ready /\ screen_ready

\* Mutant of Observe: every poll restarts the window.
ObserveAfresh == [health EXCEPT !.observing = Healthy, !.age = 0]

\* OtaBootHealth::ready: an unhealthy poll restarts the window.
Observe ==
  IF ~Healthy THEN [health EXCEPT !.observing = FALSE, !.age = 0]
  ELSE IF health.observing THEN health
  ELSE [health EXCEPT !.observing = TRUE, !.age = 0]

Ready(h) == h.observing /\ h.age >= HealthyTicks

\* ota_boot_poll: look once; confirm only an image that is on trial.
OtaBootPoll ==
  IF health.checked
  THEN UNCHANGED <<health, img_state>>
  ELSE IF ~Ready(Observe)
  THEN health' = Observe /\ UNCHANGED img_state
  ELSE /\ health' = [Observe EXCEPT !.checked = TRUE]
       /\ \/ img_state[running] = "pending" /\ EspConfirm
          \/ UNCHANGED img_state   \* not on trial, or ESP-IDF reports an error
=============================================================================
