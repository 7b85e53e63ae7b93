---------------------------- MODULE PowerSupply ----------------------------
(***************************************************************************)
(* charging.h, charging.cpp and battery.cpp: what is believed of the power *)
(* supply and of the battery after readings that fail or are implausible.  *)
(* They do not share any state; s.unit says whose state s is.              *)
(***************************************************************************)
EXTENDS Integers, Sequences

CONSTANTS
  Voltages,  \* readings of the battery, in mV: 0 is none
  Empty, Full  \* MOCHI_BATTERY_EMPTY_PERCENT and MOCHI_BATTERY_FULL_PERCENT

VARIABLE s

(***************************************************************************)
(* The power chip: [charge, power: two ChargingTracker, unplugged], and    *)
(* history: started, what the last poll returned; seen, the last two       *)
(* readings of each, and known, the last one of each that came twice.      *)
(***************************************************************************)
Fresh == [candidate |-> "unknown", stable |-> "unknown", samples |-> 0]

\* Mutant of Tracked: a reading that failed does not interrupt.
TrackedOn(t, state) ==
  LET same == [t EXCEPT !.candidate = state, !.samples = IF state # t.candidate THEN 1 ELSE 2]
  IN IF state = "unknown" THEN t
     ELSE IF same.samples < 2 THEN same ELSE [same EXCEPT !.stable = state]

\* ChargingTracker::update: two readings in a row are believed.
Tracked(t, state) ==
  LET same == [t EXCEPT !.candidate = state,
                        !.samples = IF state # t.candidate \/ t.samples = 0 THEN 1 ELSE 2]
  IN IF state = "unknown" THEN [t EXCEPT !.samples = 0]
     ELSE IF same.samples < 2 THEN same ELSE [same EXCEPT !.stable = state]

\* History.
Noted(seen, reading) == <<seen[2], reading>>
Twice(seen, known) == IF seen[1] = seen[2] /\ seen[2] # "unknown" THEN seen[2] ELSE known

\* charging_poll, each half second; the current's direction may be a reserved value, which is
\* taken for a reading that failed.
ChargingPoll ==
  \E charge \in {"unknown", "idle", "charging"}, supply \in {"idle", "charging"} :
    LET vbus == IF charge = "unknown" THEN "unknown" ELSE supply
        charger == Tracked(s.charge, charge)
        power == Tracked(s.power, vbus)
        seen == [charge |-> Noted(s.seen.charge, charge), power |-> Noted(s.seen.power, vbus)]
    IN s' = [s EXCEPT !.charge = charger, !.power = power, !.seen = seen,
                      !.unplugged = s.power.stable = "charging" /\ power.stable = "idle",
                      !.started = charger.stable = "charging" /\ s.charge.stable = "idle",
                      !.was = s.known,
                      !.known = [charge |-> Twice(seen.charge, @.charge), power |-> Twice(seen.power, @.power)]]

\* charging_poll, sooner: the loop has told the sound of what the last one said.
Early == s' = [s EXCEPT !.unplugged = FALSE, !.started = FALSE, !.was = s.known]

NoReadings == [charge |-> <<"unknown", "unknown">>, power |-> <<"unknown", "unknown">>]
NotKnown == [charge |-> "unknown", power |-> "unknown"]

Charger == s.unit = "charger" /\ (ChargingPoll \/ Early)

ChargerInit ==
  [unit |-> "charger", charge |-> Fresh, power |-> Fresh, unplugged |-> FALSE, started |-> FALSE,
   seen |-> NoReadings, known |-> NotKnown, was |-> NotKnown]

-----------------------------------------------------------------------------
(***************************************************************************)
(* The battery: [plausible, implausible, percent], and history: adopted,   *)
(* the reading that percent is of, and run, how many readings in a row     *)
(* were plausible, if positive, or were not.                               *)
(***************************************************************************)
Unavailable == -1
Curve == <<<<3000, 0>>, <<3300, 5>>, <<3450, 10>>, <<3680, 20>>, <<3740, 30>>, <<3770, 40>>,
           <<3820, 50>>, <<3870, 60>>, <<3920, 70>>, <<3980, 80>>, <<4060, 90>>, <<4200, 100>>>>

Byte(n) == n % 256

\* nominal_percent_mv: between two anchors of the curve.
Nominal(mv) ==
  LET above == {i \in DOMAIN Curve : mv <= Curve[i][1]}
      i == CHOOSE j \in above : \A k \in above : j <= k
      low == Curve[i - 1]
      high == Curve[i]
  IN CASE above = {} -> 100
       [] 1 \in above -> 0
       [] OTHER -> low[2] + Byte(((mv - low[1]) * (high[2] - low[2])) \div (high[1] - low[1]))

\* battery_percent_mv: stretched between what the board calls empty and full.
Percent(mv) ==
  LET range == Full - Empty
  IN CASE Nominal(mv) <= Empty -> 0
       [] Nominal(mv) >= Full -> 100
       [] OTHER -> Byte(((Nominal(mv) - Empty) * 100 + range \div 2) \div range)

Plausible(mv) == mv >= 2800 /\ mv <= 4350
AtMost(n, bound) == IF n < bound THEN n ELSE bound

\* BatteryTracker::update_mv, from battery_sample: three plausible readings in a row are
\* believed, and five that are not end that.
BatterySample ==
  \E mv \in Voltages :
    LET plausible == AtMost(s.plausible + 1, 3)
        implausible == AtMost(s.implausible + 1, 5)
    IN s' = IF Plausible(mv)
            THEN [s EXCEPT !.implausible = 0, !.plausible = plausible,
                           !.percent = IF plausible >= 3 THEN Percent(mv) ELSE @,
                           !.adopted = IF plausible >= 3 THEN mv ELSE @]
            ELSE [s EXCEPT !.plausible = 0, !.implausible = implausible,
                           !.percent = IF implausible >= 5 THEN Unavailable ELSE @,
                           !.adopted = IF implausible >= 5 THEN 0 ELSE @]

Battery == s.unit = "battery" /\ BatterySample

BatteryInit == [unit |-> "battery", plausible |-> 0, implausible |-> 0, percent |-> Unavailable, adopted |-> 0]

Init == s \in {ChargerInit, BatteryInit}
Next == Charger \/ Battery

-----------------------------------------------------------------------------

(***************************************************************************)
(* The two trackers answer for different things from the same poll: a cue  *)
(* is given once for each change that two readings in a row confirm, and   *)
(* never for one that a failed reading interrupts.                         *)
(***************************************************************************)
ChangesToldOnce ==
  /\ s.unplugged <=> s.was.power = "charging" /\ s.known.power = "idle"
  /\ s.started <=> s.was.charge = "idle" /\ s.known.charge = "charging"

\* More voltage is never shown as less charge, whatever the board's ends are, and all of it as 100.
PercentOrdered ==
  /\ s.adopted # 0 <=> s.percent # Unavailable
  /\ s.adopted # 0 => s.percent \in 0 .. 100
  /\ \A mv \in Voltages : Plausible(mv) /\ s.adopted # 0 =>
       (mv >= s.adopted => Percent(mv) >= s.percent) /\ (mv <= s.adopted => Percent(mv) <= s.percent)

PowerBelieved == IF s.unit = "charger" THEN ChangesToldOnce ELSE PercentOrdered
=============================================================================
