------------------------------ MODULE CardBus ------------------------------
(***************************************************************************)
(* What sd_owner.h promises: the SDMMC peripheral has one user at a time.  *)
(* A user is on the bus from its SD_MMC.begin to its SD_MMC.end.           *)
(***************************************************************************)
CONSTANT Owners

VARIABLE users

BusInit == users = {}

Enter == users = {} /\ \E owner \in Owners : users' = {owner}

Leave == users # {} /\ users' = {}

BusSpec == BusInit /\ [][Enter \/ Leave]_users
=============================================================================
