---------------------------- MODULE MCGuestDetails ----------------------------
(* Two worker threads, and a reader of the guests' details.                 *)
EXTENDS GuestDetails

CONSTANTS web, t1, t2

=============================================================================
