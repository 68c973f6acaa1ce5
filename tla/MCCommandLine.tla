--------------------------- MODULE MCCommandLine ---------------------------
(* CommandLine with events that tell readable items from unreadable ones,   *)
(* and the names of up to two characters among a space, an A, a no-break    *)
(* space and an e with an acute accent.                                     *)
EXTENDS CommandLine

MCEvent == [kind : {"Connected", "Item", "Disconnected", "WaitingForDevice",
                    "Retrying", "GaveUp"},
            attempt : 0..MaxCount, valid : BOOLEAN]

MCNames == UNION {[1..n -> {32, 65, 160, 233}] : n \in 0..2}
=============================================================================
