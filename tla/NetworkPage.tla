---------------------------- MODULE NetworkPage ----------------------------
(***************************************************************************)
(* wifi_scan.h and the forms of network_web.h, as a session serves them    *)
(* (ota_update.cpp): the scan for networks, and the network that a page    *)
(* read earlier and sends back.  A step of Poll is one ota_poll, whose now *)
(* was taken before the request that it serves.                            *)
(***************************************************************************)
EXTENDS Integers

CONSTANTS
  Deadline,   \* of a scan, and between two of them (15 s), in polls
  Networks,   \* names that a user may type
  MaxSaves    \* bound: changes of the configuration

\* session: what is served; running, attempted, age: wifi_scan, the age of started at the now of a
\* poll; driver: what the radio does; config, revision, exists, flash: network_config; copy: the
\* page's copy of them.  History: cut: a poll has ended a scan before its time; unseen: a form has
\* replaced what its page had not shown
VARIABLE s

NoNetwork == [ssid |-> "", password |-> "", rest |-> 0]
NoCopy == [revision |-> 0, config |-> NoNetwork]

\* uint32_t(now - started) of a stamp that is later than now is close to 2^32.
Passed(age) == age < 0 \/ age >= Deadline

\* wifi_scan::stop.
Stop(x) == [x EXCEPT !.running = FALSE, !.attempted = FALSE, !.driver = "idle"]

\* wifi_scan::start: what the network and a time attempt allow, and what the radio answers; the
\* millisecond may have ended since now was taken.
Start(x) ==
  IF x.running \/ (x.attempted /\ ~Passed(x.age)) THEN {x}
  ELSE {x} \cup
       {[x EXCEPT !.attempted = TRUE, !.age = age, !.running = driver = "scanning", !.driver = driver] :
          age \in {0, -1}, driver \in {"scanning", "done", "idle"}}

\* wifi_scan::results.
Results(x) == [x EXCEPT !.running = @ /\ x.attempted /\ x.driver = "scanning"]

\* wifi_scan::poll.
ScanPoll(x) ==
  IF x.running /\ Passed(x.age)
  THEN [x EXCEPT !.running = FALSE, !.driver = "idle", !.cut = @ \/ (x.age < 0 /\ x.driver = "scanning")]
  ELSE x

\* network_web::state.
Reads(x) == [x EXCEPT !.copy = [revision |-> x.revision, config |-> x.config]]

\* network_config_save, which may not be able to write.
Saved(x, next) ==
  {x} \cup {[x EXCEPT !.config = next, !.exists = TRUE, !.revision = @ + 1, !.flash = next,
                      !.unseen = @ \/ x.copy.config # x.config]}

\* network_web::candidate: the password stays, for the same network, is left out, or is typed.
Candidate(x) ==
  {next \in [ssid : Networks, password : Networks \cup {"", x.config.password}, rest : {0, 1}] :
     \/ next.password \in {"", next.ssid}
     \/ x.exists /\ next.ssid = x.config.ssid /\ next.password = x.config.password}

\* network_web::save and network_web::forget.
Save(x) ==
  IF x.copy.revision # x.revision \/ x.revision > MaxSaves THEN {x}
  ELSE UNION {Saved(x, next) : next \in Candidate(x) \cup {NoNetwork}}

\* settings_action: firmware mode, from which no settings page is served.
Firmware(x) == [Stop(x) EXCEPT !.session = "firmware"]

\* A request that is authorized, or none.
Served(x) ==
  {x} \cup IF x.session = "settings" THEN Start(x) \cup Save(x) \cup {Results(x), Reads(x), Firmware(x)} ELSE {}

\* The session ends: ota_stop.
Closed(x) == [Stop(x) EXCEPT !.session = "none", !.copy = NoCopy]

Older(x, polls) == [x EXCEPT !.age = IF x.age + polls > Deadline THEN Deadline ELSE x.age + polls]

Poll ==
  /\ s.session # "none"
  /\ \E polls \in {1, Deadline} :
       \/ \E x \in Served(IF s.attempted THEN Older(s, polls) ELSE s) : s' = ScanPoll(x)
       \/ s' = Closed(s)

\* The radio finishes by itself.
Scanned == s.driver = "scanning" /\ s' = [s EXCEPT !.driver = "done"]

\* ota_begin: a token of its own, so that a page of an earlier session is not authorized.
Opens == s.session = "none" /\ \E mode \in {"settings", "firmware"} : s' = [s EXCEPT !.session = mode]

Booted(flash, revision) ==
  [session |-> "none", running |-> FALSE, attempted |-> FALSE, age |-> 0, driver |-> "idle",
   config |-> flash, revision |-> revision, exists |-> FALSE, flash |-> flash, copy |-> NoCopy,
   cut |-> FALSE, unseen |-> FALSE]

\* network_config_init: the record is the one that was written last, if any was.
Reboot == s' = [Booted(s.flash, 1) EXCEPT !.exists = s.exists, !.cut = s.cut, !.unseen = s.unseen]

Init == s = Booted(NoNetwork, 1)
Next == Poll \/ Scanned \/ Opens \/ Reboot

-----------------------------------------------------------------------------

\* The radio scans only while a settings session runs that ends the scan with it, "on session
\* close or firmware entry" (docs/NETWORK.md:69).
ScansOfSession == s.driver = "scanning" => s.session = "settings" /\ s.running

\* A page replaces only a network that it has shown, and a password is that of its network.
NetworkSeen == ~s.unseen /\ s.config.password \in {"", s.config.ssid} /\ s.flash = s.config

(***************************************************************************)
(* Scans, forms, failed writes and ends of sessions in every order.        *)
(***************************************************************************)
PageRight == ScansOfSession /\ NetworkSeen

\* docs/NETWORK.md:69: "Scans have a 15-second deadline"
ScanLasts == ~s.cut
=============================================================================
