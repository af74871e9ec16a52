---------------------------- MODULE MCJobService ----------------------------
(* Constants for model checking JobService: two webhook requests, up to    *)
(* two cancel requests for the job of the first.                           *)
EXTENDS JobService, TLC

CONSTANTS h1, h2, j1, j2

Own == (h1 :> j1) @@ (h2 :> j2)

All == Handlers \cup Cancellers \cup {Worker}

CancelFirst == [c \in Cancellers |-> j1]
=============================================================================
