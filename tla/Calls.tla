--------------------------------- MODULE Calls ---------------------------------
(***************************************************************************)
(* What the modules of the office (Fleet, Registry, Imports, Purchasing,   *)
(* ...) have in common.  Each HTTP call has a database session of its own  *)
(* (core/db.py) and is one READ COMMITTED transaction: a SELECT sees what  *)
(* is committed at that moment, a row that is written stays locked until   *)
(* the end, and nothing is locked by being read.  A call that reads and    *)
(* then writes is therefore several steps, and other calls come between.   *)
(***************************************************************************)
CONSTANTS Sessions,     \* the calls that may overlap
          None          \* SQL NULL

=============================================================================
