----------------------------- MODULE MCGameOutput -----------------------------
(* Constants for model checking GameOutput: two games.  The container of   *)
(* the first may write any four frames, that of the second at most one.    *)
(* The title and the play of the first may be exchanged.                   *)
EXTENDS GameOutput, TLC

CONSTANTS g1, g2, title, play, black, art

AnyCapture ==
  [frames : [Index -> {title, play, black, NoFrame}], extra : {{}}]

ShortCapture ==
  [frames : {f \in [Index -> {art, Broken, Torn, NoFrame}] :
               \A n \in Index \ {1} : f[n] = NoFrame},
   extra : {{}, {"png"}, {"other"}}]

TwoGames == [g \in {g1, g2} |-> IF g = g1 THEN AnyCapture ELSE ShortCapture]

AllSettings == [mode : {"single", "multi"}, removeSolid : BOOLEAN, dedupe : BOOLEAN]

Alike == Permutations({title, play})
=============================================================================
