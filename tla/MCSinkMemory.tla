----------------------------- MODULE MCSinkMemory -----------------------------
(***************************************************************************)
(* SinkMemory for TLC, with what -s is given: no room for the cursor        *)
(* buffers, none for the frames, ample, to the byte what the smaller of the *)
(* two displays needs, one that wraps to 0, in each way of writing it, and  *)
(* one that cannot be read.                                                *)
(***************************************************************************)
EXTENDS SinkMemory

MCSizes == {[b |-> 1, multiplier |-> "G"], [b |-> 64, multiplier |-> "M"],
            [b |-> 16384, multiplier |-> "K"], [b |-> 3145728, multiplier |-> ""],
            [b |-> 17274812, multiplier |-> ""],
            [b |-> 32, multiplier |-> "other"]}
=============================================================================
