------------------------------ MODULE MCLiveView ------------------------------
(* One browser tab and a history shorter than a run.                *)
EXTENDS LiveView

CONSTANTS web, db, rootkit, tab
===============================================================================
