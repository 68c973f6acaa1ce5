--------------------------- MODULE MCMeterDisplay ---------------------------
(* Counts of one to four digits, of either sign, with up to four of them   *)
(* after the point: all that fits the six characters of the text.          *)
EXTENDS MeterDisplay

MCNumbers == {0, -1, 52, -758, 6000}
MCPlaces == 0..4
MCKinds == AllKinds
MCLengths == {7, 9, 24}
=============================================================================
