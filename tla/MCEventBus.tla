----------------------------- MODULE MCEventBus -----------------------------
(***************************************************************************)
(* What tells the staff, for TLC: the bus with two browsers, and the       *)
(* notices of three facts.  They share no state: a behaviour is of one of  *)
(* them, and the other stays as it began.                                  *)
(***************************************************************************)
EXTENDS Alerts, TLC

CONSTANTS staff, session, cashier, diner

MCListens == [c \in Clients |-> IF c = cashier THEN {staff} ELSE {session}]
\* The staff sees everything; some of it the table's session sees too.
MCAnnounced == {{staff}, {staff, session}}

CONSTANTS inApp, order1, sale1, sale2
VARIABLE part

\* The channels of each type of event, as notification_channel_preferences has them.
EnabledFor == order1 :> {inApp, Push} @@ sale1 :> {} @@ sale2 :> {}

ASSUME N!WellFormed

MCInit == part \in {"bus", "notices"} /\ Init /\ N!Init

MCNext ==
  /\ UNCHANGED part
  /\ \/ part = "bus" /\ Next /\ UNCHANGED noticeVars
     \/ part = "notices" /\ N!Next /\ UNCHANGED vars

Symmetry == Permutations(Devices) \cup Permutations({sale1, sale2})

MCSpec == MCInit /\ [][MCNext]_<<vars, noticeVars, part>>
=============================================================================
