------------------------------ MODULE MCQuotas ------------------------------
(* The slots of one session for TLC, when Redis answers every command and processes die. *)
EXTENDS Quotas

MCKeys   == <<"ip", "table">>
MCLowest == -1

\* Redis never fails: what is left is a process that dies, which is what _acquire_slot's EXPIRE
\* is there for.
SlotSpec == Init /\ kind = "slot" /\ [][Answered \/ Tick \/ Dies]_vars /\ Fairness
=============================================================================
