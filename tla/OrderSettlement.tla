--------------------------- MODULE OrderSettlement ---------------------------
(***************************************************************************)
(* OrderLifecycle implements LineSettlement: the refinement mapping.       *)
(***************************************************************************)
EXTENDS OrderLifecycle

\* What the rows of the database say of line l.  A state that says none of the four
\* (charged twice, charged and cancelled, paid for and not charged) is "lost", which
\* the abstract specification does not know.
FateOf(l) ==
  IF line[l].order = NoOrder THEN "free"
  ELSE LET s      == Status(line[l].order)
           voided == line[l].cocina = "anulado"
       IN  IF billed[l] = 1 /\ s = "pagada" /\ ~voided THEN "charged"
           ELSE IF billed[l] = 0 /\ (voided \/ s = "cancelada") THEN "dropped"
           ELSE IF billed[l] = 0 /\ s \in {"recibida", "abierta", "bloqueada"} THEN "owed"
           ELSE "lost"

Fate == [l \in Lines |-> FateOf(l)]

Settlement == INSTANCE LineSettlement WITH fate <- Fate

\* Every behaviour of the orders, with lines edited in confirmed orders only, is a
\* behaviour of the abstract specification: each ordered line is charged by one sale
\* or dropped, never both, and never taken up again.
SettlesEveryLine == Settlement!Spec
==============================================================================
