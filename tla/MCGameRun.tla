------------------------------ MODULE MCGameRun ------------------------------
(* Constants for model checking GameRun: lists of up to two games with     *)
(* every fault that validate_game_set knows, of entries with every outcome *)
(* of stage_one_game.                                                      *)
EXTENDS GameRun, TLC

CONSTANTS zipCue,  \* an archive with a .bin before its .cue
          zipIso,  \* one with a text, a directory and an .iso
          zipDol,  \* one with an extension ANCHOR_PRIORITY does not have, twice
          zipEsc,  \* one with a path that is not sanitised
          zipText, \* one without a disc
          isoFile, absolute, text, dots,
          stem1, stem2, id1, id2

Stem == (zipCue :> stem1) @@ (zipIso :> stem2) @@ (zipDol :> stem1) @@ (zipEsc :> stem1)
          @@ (zipText :> stem1) @@ (isoFile :> stem2) @@ (absolute :> stem1)
          @@ (text :> stem1) @@ (dots :> NoStem)

Ext == [e \in Entries |-> IF e \in {isoFile, absolute} THEN "iso"
                          ELSE IF e \in {text, dots} THEN "txt" ELSE "zip"]

M(k, n, x) == [kind |-> k, path |-> [name |-> n, ext |-> x]]

Archived == [e \in Entries |->
  CASE e = zipCue  -> <<M("file", "a", "bin"), M("file", "a", "cue")>>
    [] e = zipIso  -> <<M("file", "b", "txt"), M("dir", "a", "txt"), M("file", "a", "iso")>>
    [] e = zipDol  -> <<M("file", "a", "dol"), M("file", "a", "dol")>>
    [] e = zipEsc  -> <<M("file", "a", "iso"), M("illegal", "a", "bin")>>
    [] e = zipText -> <<M("file", "a", "txt")>>
    [] OTHER       -> <<>>]

Priority == <<"cue", "iso", "bin">>

UpTo2(S) == {<<>>} \cup {<<x>> : x \in S} \cup {<<x, y>> : x, y \in S}

Pairs == {<<zipCue, isoFile>>, <<zipCue, zipEsc>>, <<isoFile, zipIso>>, <<zipText, zipText>>, <<dots, isoFile>>}

Lists == {<<>>} \cup {<<e>> : e \in Entries} \cup Pairs

Lines == [id : {id1, id2}, stem : {stem1, stem2}] \cup {Malformed}

(* The ids are interchangeable.                                            *)
FirstIdFirst(t) == Len(t) > 0 /\ t[1] # Malformed => t[1].id = id1

AllSets == [gamelist : Lists, titlemap : {t \in UpTo2(Lines) : FirstIdFirst(t)}]
=============================================================================
