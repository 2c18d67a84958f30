\* Up to three results; 1 is too short for a song, 2 one, 3 too long for one and
\* 4 too long for the bot.  A remix is a mix.
SPECIFICATION Spec
CONSTANTS
  MaxResults = 3
  RankWeight = 10
  DurationBonus = 15
  NoisePenalty = 20
  SongMinLength = 2
  SongMaxLength = 2
  MaxDuration = 3
  Durations = {0, 1, 2, 3, 4}
  NoiseSets = {{}, {"live"}, {"mix"}, {"mix", "remix"}, {"live", "mix"}}
INVARIANTS
  LinksToYouTube
  PicksTheBest
  AskingHelps
  Presentable
