---------------------------- MODULE JobLifecycle ----------------------------
(***************************************************************************)
(* What a client that polls GET /jobs/:id of emudb may see of a job, when  *)
(* nobody cancels: the job is queued, then runs and moves forward through  *)
(* the stages, then ends; a terminal state is never taken back; and only   *)
(* a job that has ended disappears.                                        *)
(***************************************************************************)
EXTENDS Naturals

CONSTANTS Ids,    \* job ids
          Steps   \* how many progress marks a job has

VARIABLE seen     \* for each job, what a poll returns

Phase == {"none", "queued", "running", "completed", "failed", "already_completed"}
Final == {"completed", "failed", "already_completed"}
View  == [phase : Phase, step : 0..Steps]

Absent == [phase |-> "none", step |-> 0]

Init == seen = [id \in Ids |-> Absent]

Accepts(a, b) == a = Absent /\ b.phase = "queued" /\ b.step = 0

(* A poll can miss states, but never sees an earlier one again.            *)
Advances(a, b) == /\ b.phase = "running"
                  /\ \/ a.phase = "queued"
                     \/ a.phase = "running" /\ a.step < b.step

(* Only a job that went through all its steps is completed.                *)
Ends(a, b) == /\ a.phase \in {"queued", "running"}
              /\ b.phase \in Final
              /\ a.step <= b.step
              /\ b.phase = "completed" => b.step = Steps

Expires(a, b) == a.phase \in Final /\ b = Absent

Moves(a, b) == Accepts(a, b) \/ Advances(a, b) \/ Ends(a, b) \/ Expires(a, b)

(* A restart can move several jobs at once.                                *)
Next == /\ seen' \in [Ids -> View]
        /\ \A id \in Ids : seen'[id] # seen[id] => Moves(seen[id], seen'[id])

Spec == Init /\ [][Next]_seen
=============================================================================
