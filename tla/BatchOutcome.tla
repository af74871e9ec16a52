---------------------------- MODULE BatchOutcome ----------------------------
(***************************************************************************)
(* What run_stages relies on when it calls process_games_concurrently      *)
(* (job.rs): every game of the batch is settled at most once, and the call *)
(* returns Ok only when no game failed and every game was settled, except  *)
(* those a dead worker thread took with it.  How the worker threads and    *)
(* channels achieve this is the business of module GameBatch.              *)
(***************************************************************************)
CONSTANT Games

VARIABLES rendered,  \* games reported with usable frames
          skipped,   \* games reported without usable frames
          lost,      \* games lost to worker threads that panicked
          firstErr,  \* has an error been reported to the caller's loop?
          result     \* what the call returned

vars == <<rendered, skipped, lost, firstErr, result>>

Settled == rendered \cup skipped \cup lost

Init == /\ rendered = {}
        /\ skipped = {}
        /\ lost = {}
        /\ firstErr = FALSE
        /\ result = "none"

Open(g) == result = "none" /\ g \notin Settled

Render(g) == /\ Open(g)
             /\ rendered' = rendered \cup {g}
             /\ UNCHANGED <<skipped, lost, firstErr, result>>

Skip(g) == /\ Open(g)
           /\ skipped' = skipped \cup {g}
           /\ UNCHANGED <<rendered, lost, firstErr, result>>

(* One dead thread can take several games with it.                        *)
Lose(S) == /\ \A g \in S : Open(g)
           /\ lost' = lost \cup S
           /\ UNCHANGED <<rendered, skipped, firstErr, result>>

Fail == /\ result = "none"
        /\ firstErr' = TRUE
        /\ UNCHANGED <<rendered, skipped, lost, result>>

ReturnOk == /\ result = "none"
            /\ ~firstErr
            /\ Settled = Games
            /\ result' = "ok"
            /\ UNCHANGED <<rendered, skipped, lost, firstErr>>

ReturnErr == /\ result = "none"
             /\ firstErr
             /\ result' = "err"
             /\ UNCHANGED <<rendered, skipped, lost, firstErr>>

Next == \/ \E g \in Games : Render(g) \/ Skip(g)
        \/ \E S \in SUBSET Games : S # {} /\ Lose(S)
        \/ Fail
        \/ ReturnOk
        \/ ReturnErr

Spec == Init /\ [][Next]_vars
=============================================================================
