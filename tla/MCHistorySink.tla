---------------------------- MODULE MCHistorySink ----------------------------
(* A unit of the clock is 20 s; the 2 m and the 1 h tier are two units wide. *)
EXTENDS RollupReaders, Integers, TLC

CONSTANTS a1, a2

Widths == <<1, 2, 2>>
Retentions == <<4, 5, 8>>
InStep == [n \in Agents |-> 0]
OneBehind == [n \in Agents |-> IF n = a2 THEN -1 ELSE 0]
HeatmapOf == (4 :> 2) @@ (5 :> 4)
=============================================================================
