\* One result is enough: the text is classified before anything is searched for.
SPECIFICATION Spec
CONSTANTS
  MaxResults = 1
  RankWeight = 10
  DurationBonus = 15
  NoisePenalty = 20
  SongMinLength = 2
  SongMaxLength = 2
  MaxDuration = 3
  Durations = {0, 1, 2, 3, 4}
  NoiseSets = {{}, {"live"}, {"mix"}, {"mix", "remix"}, {"live", "mix"}}
INVARIANTS
  LinksReachTheParser
