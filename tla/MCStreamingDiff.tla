--------------------------- MODULE MCStreamingDiff ---------------------------
(* Small instances of StreamingDiff for TLC: see the .cfg files.           *)
EXTENDS StreamingDiff, TLC

CONSTANTS m1

ThreeKeys == 1 .. 3
FourKeys  == 1 .. 4
OneMeta == {m1}
AnyRecord   == {m1, Absent, Blank, Corrupt}
PlainRecord == {m1, Absent}

BadListings  == {"listError", "shortPage", "repeatPage", "cancel"}
LiveSource   == {"cancel", "sourceChange"}
ListErrors   == {"listError"}
=============================================================================
