--------------------------- MODULE ExclusiveHold ---------------------------
(***************************************************************************)
(* What the cluster lock promises (README, "Shared cluster: the lock"): at *)
(* most one hold at a time, and everybody who changes the cluster is under *)
(* that hold.  A hold starts on a cluster nobody changes, and is given up  *)
(* only when the last one under it has stopped.                            *)
(***************************************************************************)
CONSTANTS User, Hold, Nobody

VARIABLES holder, users

Init == holder = Nobody /\ users = {}

Acquire(u, h) ==
  /\ holder = Nobody /\ users = {}
  /\ holder' = h /\ users' = {u}

\* A nested command, or one that runs inside `cluster-lock run'.
Join(u) ==
  /\ holder # Nobody
  /\ users' = users \cup {u}
  /\ UNCHANGED holder

Leave(u) ==
  /\ u \in users
  /\ users' = users \ {u}
  /\ holder' = holder \/ (users' = {} /\ holder' = Nobody)

\* A hold whose users were all killed is removed by hand.
Free ==
  /\ users = {}
  /\ holder' = Nobody
  /\ UNCHANGED users

Next ==
  \/ \E u \in User : (\E h \in Hold : Acquire(u, h)) \/ Join(u) \/ Leave(u)
  \/ Free

Spec == Init /\ [][Next]_<<holder, users>>
=============================================================================
