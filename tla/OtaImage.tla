------------------------------ MODULE OtaImage ------------------------------
(***************************************************************************)
(* ota_image.h: the streaming compatibility check both updaters share.     *)
(* OtaImageCheck keeps the first bytes of the stream as a header and       *)
(* remembers whether the board/layout marker went by.                      *)
(***************************************************************************)
EXTENDS EspOta

CONSTANT MinSize        \* 288 bytes, the smallest application

ASSUME MinSizeAssumption == MinSize \in Nat /\ MinSize >= Len(Header)

\* OtaImageCheck image = OtaImageCheck{};
FreshCheck == [bytes |-> 0, header |-> <<>>, board_found |-> FALSE]

OtaImageChecks ==
  [bytes : Nat, header : {h \in Seq(Units) : Len(h) <= Len(Header)},
   board_found : BOOLEAN]

\* The first n units of a stream, or all of it when it is shorter.
Take(s, n) == SubSeq(s, 1, IF n < Len(s) THEN n ELSE Len(s))

\* feed: count the bytes, retain the header, look for the marker.
Feed(check, chunk) ==
  [bytes       |-> check.bytes + Len(chunk),
   header      |-> Take(check.header \o chunk, Len(Header)),
   board_found |-> check.board_found \/ HasMarker(chunk)]

\* app_header: an ESP32-S3 application, no bootloader or full image.
AppHeader(check) == check.bytes >= Len(Header) /\ check.header = Header

\* ota_image_size: the declared size, or 0 when it cannot be an application.
OtaImageSize(declared) ==
  IF declared \in MinSize..SlotSize THEN declared ELSE 0
=============================================================================
