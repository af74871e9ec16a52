SPECIFICATION Spec
CONSTANTS
  g1 = g1
  g2 = g2
  title = title
  play = play
  black = black
  art = art
  Games = {g1, g2}
  Images = {title, play, black, art}
  Solid = {black}
  Broken = Broken
  Torn = Torn
  NoFrame = NoFrame
  MaxIndex = 3
  Captures <- TwoGames
  Settings <- AllSettings
  MaxFaults = 1
  MaxLost = 1
SYMMETRY Alike
INVARIANTS
  TypeOK
  OutputIsWanted
  RefusalHasCause
