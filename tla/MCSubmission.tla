---------------------------- MODULE MCSubmission ----------------------------
(* Constants for model checking Submission: two requests for commit c1, of *)
(* which one spells it in capitals, a forced one for c2, and one for a     *)
(* commit that the remote does not have.  All commits begin with the same  *)
(* letters.                                                                *)
EXTENDS Submission, TLC

CONSTANTS a, u, f, x, c1, c2, c3

Names == (a :> c1) @@ (u :> c1) @@ (f :> c2) @@ (x :> c3)

Same == [c \in Commits \cup {NoCommit} |-> "a1b2c3d"]

AllSubmissions == [of : Commits \cup {NoCommit}, by : Jobs, image : Built]
=============================================================================
