----------------------------- MODULE OrmSession -----------------------------
(***************************************************************************)
(* What a session of the controller's session factory does to a column.    *)
(* SQLite opens no transaction for a SELECT and the tables have no version *)
(* column: a repository operation that reads a row and assigns to it is a  *)
(* snapshot followed, later, by a commit, and another thread may commit in *)
(* between.                                                                *)
(***************************************************************************)

(* What SQLAlchemy flushes to a column: nothing when the value assigned is *)
(* the value that was loaded, otherwise the value assigned, whatever the   *)
(* column holds by now.                                                    *)
Flush(seen, new, current) == IF new = seen THEN current ELSE new

=============================================================================
