SPECIFICATION FairSpec
CONSTANTS
  zipCue = zipCue
  zipIso = zipIso
  zipDol = zipDol
  zipEsc = zipEsc
  zipText = zipText
  isoFile = isoFile
  absolute = absolute
  text = text
  dots = dots
  stem1 = stem1
  stem2 = stem2
  id1 = id1
  id2 = id2
  Entries = {zipCue, zipIso, zipDol, zipEsc, zipText, isoFile, absolute, text, dots}
  Stems = {stem1, stem2}
  NoStem = NoStem
  StemOf <- Stem
  GameIds = {id1, id2}
  Malformed = Malformed
  GameSets <- AllSets
  MaxGames = 2
  Illegal = {absolute}
  Exts = {"bin", "cue", "dol", "iso", "txt", "zip"}
  ExtOf <- Ext
  Direct = {"bin", "cue", "dol", "iso"}
  Archives = {"zip"}
  AnchorPriority <- Priority
  Names = {"a", "b"}
  MembersOf <- Archived
  Retries = 2
  NoPath = NoPath
  NoFile = NoFile
  Part = Part
  Workers = {"gecko", "ymir"}
  Rates = {5, 6}
  Iterations = 4
  Every = 2
  Intervals = 2
  MaxTorn = 1
CHECK_DEADLOCK FALSE
INVARIANTS
  TypeOK
  ResolvedOneToOne
  StagedInputIsRom
  SoundArchiveIsRetried
  CaptureIsComplete
  ShotsAreFresh
PROPERTIES
  StagingEnds
