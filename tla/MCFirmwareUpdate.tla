-------------------------- MODULE MCFirmwareUpdate --------------------------
(***************************************************************************)
(* Small instances of FirmwareUpdate.                                      *)
(***************************************************************************)
EXTENDS FirmwareUpdate

\* This board's release, two images of another board, a file that is no
\* application, and an application ESP-IDF refuses.
Release == <<"magic", "chip", "board">>
OtherBoard == <<"magic", "chip", "code">>
OtherBoardLong == <<"magic", "chip", "code", "code">>
NoApplication == <<"code", "chip", "board">>
Corrupt == <<"magic", "chip", "board", "code">>

MCIntact == {Release, OtherBoard, OtherBoardLong}

\* Cards of equal and of different length, to be swapped under the updater.
MCCards == {Release, OtherBoard, NoApplication, Corrupt}

\* Uploads, one of them longer than the others' declared size.
MCBodies == {Release, OtherBoardLong, NoApplication}
MCOneBody == {Release}
MCLeftovers == {<<>>, OtherBoard}
=============================================================================
