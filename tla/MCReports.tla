----------------------------- MODULE MCReports -----------------------------
(* Reports for TLC: two lanes of one camera, one of another.               *)
EXTENDS Reports

MCLanes == {[camera |-> "c1", lane |-> "a", way |-> "forward"],
            [camera |-> "c1", lane |-> "b", way |-> "none"],
            [camera |-> "c2", lane |-> "a", way |-> "backward"]}
=============================================================================
