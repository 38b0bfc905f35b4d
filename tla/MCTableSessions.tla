--------------------------- MODULE MCTableSessions ---------------------------
(* Small instances of TableSessions for TLC. *)
EXTENDS TableSessions, TLC

\* Rows and requests of a kind are interchangeable.
Symmetry == Permutations(Tables) \cup Permutations(Sessions) \cup Permutations(Diners)
              \cup Permutations(Orders) \cup Permutations(Requests)

\* The first bound: requests overlap, with each other and with anything else, on one
\* table.  A second table comes in by an order that is moved, which is how tables meet,
\* and with both in use there is one request at a time.
InUse == {t \in Tables : \/ \E s \in Sessions : session[s].table = t
                         \/ \E o \in Orders : order[o].table = t
                         \/ \E r \in Requests : req[r].table = t}
Both == Cardinality(InUse) > 1
TablesMeet ==
  Both => /\ \E o \in Orders : /\ order[o].status # "ausente"
                               /\ order[o].table # session[order[o].ses].table
          /\ Cardinality({r \in Requests : req[r].step # "idle"}) <= 1
SerialAcross == Both => OneAtATime

\* The second: one of the orders, and one of the sessions, is not over yet.
NotAllOver ==
  /\ \E o \in Orders : order[o].status \notin Terminal
  /\ \E s \in Sessions : session[s].status # "closed"
=============================================================================
