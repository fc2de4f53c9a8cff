------------------------------ MODULE NoneValue ------------------------------
(* Python's None, also for a file that is not there. *)
CONSTANT None
=============================================================================
