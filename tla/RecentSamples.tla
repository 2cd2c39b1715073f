---------------------------- MODULE RecentSamples ----------------------------
(***************************************************************************)
(* What the high-resolution cache promises of each series of readings of a *)
(* GPU: the last Capacity of those that were stored, in the order of their *)
(* storing, and nothing about indices.                                     *)
(***************************************************************************)
EXTENDS Naturals, Sequences

CONSTANTS Series,   \* the basic and the performance readings of each GPU
          Capacity

VARIABLE recent   \* of each series: its last readings, oldest first

\* A sequence without what is more than Capacity from its end.
LastOf(s) ==
    IF Len(s) <= Capacity THEN s
    ELSE SubSeq(s, Len(s) - Capacity + 1, Len(s))

RecentInit == recent = [g \in Series |-> <<>>]

\* A reading is stored in series g: it is its new last element.
Stored(g) ==
    LET new == recent'[g]
    IN new # <<>> /\ new = LastOf(Append(recent[g], new[Len(new)]))

\* One snapshot stores at most one reading in each series.
RecentNext == \A g \in Series : recent'[g] = recent[g] \/ Stored(g)

Recent == RecentInit /\ [][RecentNext]_recent
=============================================================================
