----------------------------- MODULE FrameReader -----------------------------
(***************************************************************************)
(* The receive path as UpgradeProc sees it: whole frames, damaged or not,  *)
(* are reported in the order they were sent, each at most once.            *)
(***************************************************************************)
EXTENDS FrameReading

VARIABLES frames, reported

Init == reported = << >>

Report ==
  \E i \in DOMAIN frames, n \in DOMAIN frames :
    /\ FirstGood(frames, i)
    /\ i <= n
    /\ frames' = Unread(frames, n)
    /\ reported' = Append(reported, frames[i])

Skip ==
  \E n \in DOMAIN frames :
    /\ NothingGood(frames, n)
    /\ frames' = Unread(frames, n)
    /\ UNCHANGED reported

Spec == Init /\ [][Report \/ Skip]_<<frames, reported>>
=============================================================================
