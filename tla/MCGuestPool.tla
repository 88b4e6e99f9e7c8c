----------------------------- MODULE MCGuestPool -----------------------------
(* Two worker threads, two guests, and every lifecycle call.                *)
EXTENDS GuestPool

CONSTANTS web, db, t1, t2

=============================================================================
