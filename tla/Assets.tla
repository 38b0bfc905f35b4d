-------------------------------- MODULE Assets --------------------------------
(***************************************************************************)
(* The images that rows refer to and the files behind them: core/          *)
(* asset_refs.py and storage.py, with products/service.py and tenant/      *)
(* router.py, which replace an image and then delete its file.             *)
(*                                                                         *)
(* A handler reads its row unlocked and decides what the form's image      *)
(* means.  To apply one it locks the key, asks the storage whether the     *)
(* file is there, and commits; only then, in a transaction of its own, it  *)
(* locks the old key, looks for rows that use it, and deletes the file.    *)
(*                                                                         *)
(* Rows are those of one folder of one tenant: a new key of another is     *)
(* refused.  The images of payment methods and receipts are never deleted, *)
(* and are left out.                                                       *)
(*                                                                         *)
(* Beside the handlers run two scripts: one that turns the URLs of rows    *)
(* into keys, or back (scripts/migrate_image_keys_relative.py), and one    *)
(* that reports rows and files that do not match (scripts/                 *)
(* reconcile_r2_references.py).  What is in Alone overlaps nothing else.   *)
(***************************************************************************)
EXTENDS Naturals

CONSTANTS
  Rows,       \* products or tenants
  Keys,       \* keys of the folder
  Foreign,    \* references to another origin
  Forms,      \* how rows are written at first: "key", and "url" for those not migrated
  Requests,
  Alone,      \* "rewrite": an image kept that was a URL; "script": a migration
  None

Refs == Keys \cup Foreign

VARIABLES
  row,        \* [ref, form] of each row; None: no image
  stored,     \* the files there are
  holder,     \* who holds the advisory lock of each key
  req,        \* what each request has read, and how far it is
  script      \* what the migration has read

vars == <<row, stored, holder, req, script>>

Idle   == [stage |-> "idle"]
Value  == [ref : Refs, form : {"key", "url"}]
Deciding == [stage : {"decided", "checked"}, row : Rows, sent : Refs, old : Value \cup {None},
             decision : {"keep", "apply"}]
Cleaning == [stage : {"clean", "unused"}, key : Keys]

\* What the theorems assume of the constants.
Distinct == /\ None \notin Requests \cup Refs \cup Value
            /\ \A mode \in {"migrate", "revert"}, old \in [Rows -> Value \cup {None}] :
                 None # [mode |-> mode, read |-> old]
            /\ Keys \cap Foreign = {}

\* What the code does not ensure: nothing overlaps the turning of a URL into its key, by a
\* request or by a migration.
RewritesAlone == {"rewrite", "script"} \subseteq Alone

TypeOK ==
  /\ row \in [Rows -> Value \cup {None}]
  /\ stored \subseteq Keys
  /\ holder \in [Keys -> Requests \cup {None}]
  /\ req \in [Requests -> {Idle} \cup Deciding \cup Cleaning]
  /\ script = None \/ script.read \in [Rows -> Value \cup {None}]

Init ==
  /\ row \in [Rows -> {v \in Value : v.form \in IF v.ref \in Keys THEN Forms ELSE {"key"}}
                        \cup {None}]
  /\ stored = {row[w].ref : w \in {x \in Rows : row[x] # None}} \cap Keys
  /\ holder = [k \in Keys |-> None]
  /\ req = [r \in Requests |-> Idle]
  /\ script = None

\* normalize_asset_ref: the form of a reference is not part of it.
RefOf(v) == IF v = None THEN None ELSE v.ref

\* decide_image_change, of an image the form sends over the base it was filled in from.
Decision(sent, base, current) ==
  CASE sent = current -> "keep"
    [] sent # current /\ base # current -> "ignore"
    [] OTHER -> "apply"

\* presign_upload, and the client's PUT.
Upload(k) ==
  /\ stored' = stored \cup {k}
  /\ UNCHANGED <<row, holder, req, script>>

Quiet == (\A r \in Requests : req[r] = Idle) /\ script = None
Rewrites(q) == q.stage = "decided" /\ q.decision = "keep" /\ q.old.form = "url"

\* A form arrives.  An empty image keeps the one there is.
Send(r, w, sent, base) ==
  LET decision == Decision(sent, base, RefOf(row[w]))
  IN  /\ req[r] = Idle
      /\ "script" \in Alone => script = None
      /\ "rewrite" \in Alone => /\ \A q \in Requests : ~Rewrites(req[q])
                                /\ decision = "keep" /\ row[w].form = "url" => Quiet
      /\ decision # "ignore"
      /\ req' = [req EXCEPT ![r] = [stage |-> "decided", row |-> w, sent |-> sent, old |-> row[w],
                                    decision |-> decision]]
      /\ UNCHANGED <<row, stored, holder, script>>

Locked(r, k) == holder[k] = None /\ holder' = [holder EXCEPT ![k] = r]
Free(r) == [k \in Keys |-> IF holder[k] = r THEN None ELSE holder[k]]

\* resolve_image_change: lock the key and ask for the file, or leave everything as it was when
\* it is not there or the storage does not answer.
Exists_Unlocked(r, k) == k \in stored /\ holder[k] = None /\ UNCHANGED holder
Exists(r, k) == k \in stored /\ Locked(r, k)

Check(r) ==
  LET q == req[r]
  IN  /\ q.stage = "decided" /\ q.decision = "apply" /\ q.sent \in Keys
      /\ Exists(r, q.sent)
      /\ req' = [req EXCEPT ![r].stage = "checked"]
      /\ UNCHANGED <<row, stored, script>>

\* deletable_key of what was read.
Deletable(v) == v # None /\ v.ref \in Keys

\* The commit, which frees the lock.  An image kept is written again only to turn a URL into
\* its key, and under no lock.
Commit(r) ==
  LET q == req[r]
      cleans == q.decision = "apply" /\ Deletable(q.old)
  IN  /\ \/ q.stage = "checked"
         \/ q.stage = "decided" /\ (q.decision = "keep" \/ q.sent \in Foreign)
      /\ row' = IF q.decision = "keep" /\ q.old.form = "key" THEN row
                ELSE [row EXCEPT ![q.row] = [ref |-> q.sent, form |-> "key"]]
      /\ holder' = Free(r)
      /\ req' = [req EXCEPT ![r] = IF cleans THEN [stage |-> "clean", key |-> q.old.ref] ELSE Idle]
      /\ UNCHANGED <<stored, script>>

\* is_key_referenced.
Referenced(k) == \E w \in Rows : RefOf(row[w]) = k

\* delete_if_unreferenced: lock, look, and delete.
Unused_Unlooked(r, k) == Locked(r, k)
Unused(r, k) == Locked(r, k) /\ ~Referenced(k)

FindUnused(r) ==
  LET q == req[r]
  IN  /\ q.stage = "clean" /\ Unused(r, q.key)
      /\ req' = [req EXCEPT ![r].stage = "unused"]
      /\ UNCHANGED <<row, stored, script>>

Delete(r) ==
  LET q == req[r]
  IN  /\ q.stage = "unused"
      /\ stored' = stored \ {q.key}
      /\ holder' = Free(r) /\ req' = [req EXCEPT ![r] = Idle]
      /\ UNCHANGED <<row, script>>

\* A refusal, a storage that does not answer, or a process that dies.
Fail(r) ==
  /\ req[r] # Idle
  /\ req' = [req EXCEPT ![r] = Idle] /\ holder' = Free(r)
  /\ UNCHANGED <<row, stored, script>>

-----------------------------------------------------------------------------
(* The scripts. *)

\* _transform_value: a URL of the bucket becomes its key, and back; references to another
\* origin are left as they are.
Transformed(v, mode) ==
  IF ~Deletable(v) THEN v ELSE [v EXCEPT !.form = IF mode = "revert" THEN "url" ELSE "key"]

\* _process_tenant reads every row ...
ScriptReads(mode) ==
  /\ script = None /\ ("script" \in Alone => Quiet)
  /\ script' = [mode |-> mode, read |-> row]
  /\ UNCHANGED <<row, stored, holder, req>>

\* ... and commits, whatever the rows are by then, those it would change as it read them.
Rewritten(w) == script.read[w] # Transformed(script.read[w], script.mode)

ScriptCommits ==
  /\ script # None
  /\ row' = [w \in Rows |-> IF Rewritten(w) THEN Transformed(script.read[w], script.mode)
                            ELSE row[w]]
  /\ script' = None
  /\ UNCHANGED <<stored, holder, req>>

\* What reconcile lists first: the rows whose image is not in the bucket.  References to
\* another origin are not looked at.
WithoutFile == {w \in Rows : RefOf(row[w]) \in Keys \ stored}

-----------------------------------------------------------------------------

Next ==
  \/ \E k \in Keys : Upload(k)
  \/ \E r \in Requests :
       \/ \E w \in Rows, sent \in Refs, base \in Refs \cup {None} : Send(r, w, sent, base)
       \/ Check(r) \/ Commit(r) \/ FindUnused(r) \/ Delete(r) \/ Fail(r)
  \/ \E mode \in {"migrate", "revert"} : ScriptReads(mode)
  \/ ScriptCommits

Spec == Init /\ [][Next]_vars

\* A database once migrated: rows are written as keys, and no migration runs any more.
Migrated == Forms = {"key"}
MigratedSpec == Init /\ [][Next /\ script' = None]_vars

-----------------------------------------------------------------------------
(* Properties. *)

\* What makes it inductive: who has checked a file, or found it unused, holds its lock; the
\* first still finds it there, and the second still finds it unused; and while a row is about
\* to be rewritten, by a request or by the script, nothing else runs and it is as it was read.
IInv ==
  /\ WithoutFile = {}
  /\ \A r \in Requests :
       /\ req[r].stage = "checked" => holder[req[r].sent] = r /\ req[r].sent \in stored
       /\ req[r].stage = "unused"  => holder[req[r].key] = r /\ ~Referenced(req[r].key)
       /\ Rewrites(req[r]) => /\ row[req[r].row] = req[r].old /\ req[r].sent = RefOf(req[r].old)
                              /\ \A q \in Requests \ {r} : req[q] = Idle
                              /\ script = None
  /\ script # None => script.read = row /\ \A r \in Requests : req[r] = Idle

\* Every image a row shows is a file that exists, whatever saves and deletions overlap
\* (asset_refs.py: "sin carrera entre guardar y borrar"): the report lists no row.  With the
\* rewriting of a URL, and the migration, in Alone; overlapping others they do break it.
ReferencedIsStored == WithoutFile = {}
=============================================================================
