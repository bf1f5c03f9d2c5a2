---------------------------- MODULE MCIdPoller ----------------------------
(* One identity, one fullSync at a time, and intervals of each kind. *)
EXTENDS IdPoller

CONSTANTS a, s1, i0, i10, i15, bad

MCIds == {a}
MCSyncers == {s1}
MCIntervals == {i0, i10, i15, bad}
MCUnparsable == {bad}
MCOutOfRange == {i0, bad}
=============================================================================
