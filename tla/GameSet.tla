------------------------------- MODULE GameSet -------------------------------
(***************************************************************************)
(* gamelist.txt and titlemap.txt of a screenshotter: validate_game_set     *)
(* (screenshotter.rs), and the gamelist entry that resolve_games (roms.rs) *)
(* finds for each titlemap line.                                           *)
(***************************************************************************)
EXTENDS Naturals, Sequences, FiniteSets

CONSTANTS Entries,   \* lines of gamelist.txt
          Stems,     \* file names without extension
          NoStem,    \* what an entry such as ".." has
          StemOf,    \* entry_stem
          GameIds,   \* valid UNIQUE_IDs
          Malformed  \* a titlemap line read_titlemap refuses

ASSUME GameSetAssumption ==
  /\ NoStem \notin Stems
  /\ StemOf \in [Entries -> Stems \cup {NoStem}]

Title == [id : GameIds, stem : Stems]

ASSUME MalformedAssumption == Malformed \notin Title

(* The entries and the lines that have a stem, by position.                *)
Matches(gamelist, s) == {k \in DOMAIN gamelist : StemOf[gamelist[k]] = s}

References(titlemap, s) == {k \in DOMAIN titlemap : titlemap[k].stem = s}

IsReadable(titlemap) == \A k \in DOMAIN titlemap : titlemap[k] # Malformed

UniqueIds(titlemap) ==
  \A k, l \in DOMAIN titlemap : titlemap[k].id = titlemap[l].id => k = l

(* Mutant: nobody looks for ids that occur twice.                          *)
IsValidWithoutIds(gamelist, titlemap) ==
  /\ \A k \in DOMAIN gamelist : StemOf[gamelist[k]] # NoStem
  /\ \A k \in DOMAIN titlemap : Cardinality(Matches(gamelist, titlemap[k].stem)) = 1
  /\ \A k \in DOMAIN gamelist : Cardinality(References(titlemap, StemOf[gamelist[k]])) = 1

(* validate_game_set counts how often each stem occurs on either side.     *)
IsValid(gamelist, titlemap) ==
  /\ UniqueIds(titlemap)
  /\ \A k \in DOMAIN gamelist : StemOf[gamelist[k]] # NoStem
  /\ \A k \in DOMAIN titlemap : Cardinality(Matches(gamelist, titlemap[k].stem)) = 1
  /\ \A k \in DOMAIN gamelist : Cardinality(References(titlemap, StemOf[gamelist[k]])) = 1

(* stem_to_entry: of several entries with one stem, the last.              *)
EntryFor(gamelist, s) ==
  gamelist[CHOOSE k \in Matches(gamelist, s) : \A l \in Matches(gamelist, s) : l <= k]
=============================================================================
