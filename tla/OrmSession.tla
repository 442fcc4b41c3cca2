----------------------------- MODULE OrmSession -----------------------------
(***************************************************************************)
(* What the SQLAlchemy session of src/app/deps.py (async_session, with     *)
(* expire_on_commit=False) and of the worker tasks does with one row.      *)
(*                                                                         *)
(* A handler loads a row, assigns attributes of the loaded object and      *)
(* flushes.  The UPDATE that the flush emits names only the columns whose  *)
(* assigned value differs from the loaded one.  No model declares a        *)
(* version counter and no query takes FOR UPDATE, so the UPDATE applies to *)
(* the row as it is then, whatever was committed since the load.           *)
(*                                                                         *)
(* PostgreSQL runs at READ COMMITTED.  Nobody reads a row that another     *)
(* transaction has flushed and not committed, and an UPDATE of such a row  *)
(* waits for the other transaction to end.  The flush and the end of its   *)
(* transaction are therefore one step of the models.                       *)
(***************************************************************************)

\* Fault variant of Flushed: an UPDATE that names every column.
FlushedWhole(stored, loaded, assigned) == assigned

\* The stored row after the flush of an object that was loaded as `loaded`
\* and now holds `assigned`.
Flushed(stored, loaded, assigned) ==
    [c \in DOMAIN stored |->
        IF assigned[c] = loaded[c] THEN stored[c] ELSE assigned[c]]
=============================================================================
