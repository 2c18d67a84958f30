--------------------------- MODULE IdentifyProofs ---------------------------
(***************************************************************************)
(* Theorems about Identify, for search results of any length, videos of    *)
(* any duration, any weights and any finite sets of keywords.              *)
(***************************************************************************)
EXTENDS Identify, FiniteSetTheorems, TLAPS

Types ==
  /\ stage \in Stages
  /\ text \in Texts
  /\ found \in Seq(Candidates)
  /\ i \in Nat \ {0}
  /\ bestScore \in Int
  /\ ok \in BOOLEAN

(* What candidate l would have to be for k to be preferred.                *)
Beats(k, l, asks) ==
  Score(k, asks) > Score(l, asks) \/ (Score(k, asks) = Score(l, asks) /\ k <= l)

(* The loop before round i: the best of the candidates seen so far.        *)
LoopInv ==
  /\ stage \in {"message", "search"} => i = 1 /\ ~ok
  /\ stage = "rank" =>
       /\ i <= Len(found) + 1
       /\ ok => /\ best \in 1..(i - 1) /\ Usable(found[best])
                /\ bestScore = Score(best, text.asks)
                /\ \A l \in 1..(i - 1) : Usable(found[l]) => Beats(best, l, text.asks)
       /\ ~ok => \A l \in 1..(i - 1) : ~Usable(found[l])

RankInv == Types /\ LoopInv

SongInv == stage = "answered" => \E info \in Infos : song = TitleAndArtist(info)

-----------------------------------------------------------------------------
(* metadata.go.                                                            *)

LEMMA SongShown ==
  ASSUME NEW info \in Infos
  PROVE  LET s == TitleAndArtist(info) IN
         /\ s.artist # None /\ s.of = info
         /\ s.title = None => info.track = None /\ info.form = "blank" /\ ~info.tag
         /\ s.title = "tag" => info.form = "blank"
<1> DEFINE named == IF info.artist # None THEN info.artist ELSE ChannelName(info)
           split == info.track = None /\ Clean(info) = "split"
           s == TitleAndArtist(info)
<1>1. /\ info.track \in {None, "track"} /\ info.form \in {"blank", "plain", "split"}
      /\ info.tag \in BOOLEAN
  BY DEF Infos
<1>2. Clean(info) = IF info.form # "blank" THEN info.form ELSE IF info.tag THEN "tag" ELSE None
  BY DEF Clean
<1>3. s.of = info
  BY DEF TitleAndArtist
<1>4. s.title = IF info.track # None THEN info.track ELSE IF split THEN "after" ELSE Clean(info)
  BY DEF TitleAndArtist
<1>5. s.artist = IF named # None THEN named ELSE IF split THEN "before" ELSE "unknown"
  BY DEF TitleAndArtist
<1> HIDE DEF s, named
<1>6. s.artist # None
  BY <1>5 DEF None
<1>7. s.title = None => info.track = None /\ info.form = "blank" /\ ~info.tag
  BY <1>1, <1>2, <1>4 DEF None
<1>8. s.title = "tag" => info.form = "blank"
  BY <1>1, <1>2, <1>4 DEF None
<1> QED
  BY <1>3, <1>6, <1>7, <1>8 DEF s

(* Whatever yt-dlp reports or leaves out, a song is shown with an artist,  *)
(* with a title if there is one, and without tags if anything else is left *)
(* (metadata.go, titleAndArtist).                                          *)
THEOREM SongsArePresentable == Spec => []Presentable
<1>1. Init => SongInv
  BY DEF Init, SongInv
<1>2. SongInv /\ [Next]_vars => SongInv'
  <2> SUFFICES ASSUME SongInv, [Next]_vars PROVE SongInv'
    OBVIOUS
  <2>1. CASE Resolve
    BY <2>1 DEF Resolve, SongInv
  <2>2. CASE Classify
    <3>1. stage' # "answered"
      BY <2>2 DEF Classify
    <3> QED
      BY <3>1 DEF SongInv
  <2>3. CASE Search \/ Consider \/ Choose \/ Done \/ UNCHANGED vars
    BY <2>3 DEF Search, Consider, Choose, Picked, Done, vars, SongInv
  <2> QED
    BY <2>1, <2>2, <2>3 DEF Next
<1>3. SongInv => Presentable
  <2> SUFFICES ASSUME SongInv, stage = "answered"
               PROVE  /\ song.artist # None
                      /\ song.title = None => song.of.track = None /\ song.of.form = "blank" /\ ~song.of.tag
                      /\ song.title = "tag" => song.of.form = "blank"
    BY DEF Presentable
  <2>1. PICK info \in Infos : song = TitleAndArtist(info)
    BY DEF SongInv
  <2> QED
    BY <2>1, SongShown
<1> QED
  BY <1>1, <1>2, <1>3, PTL DEF Spec

-----------------------------------------------------------------------------
(* bestMatch.                                                              *)

LEMMA NoiseFinite ==
  ASSUME Types, NEW k \in DOMAIN found, NEW asks
  PROVE  /\ IsFiniteSet(found[k].noise)
         /\ UnwantedKeywords(found[k], asks) \in Nat
<1>1. found[k] \in Candidates
  BY DEF Types
<1>2. IsFiniteSet(found[k].noise)
  BY <1>1, IdentifyAssumption DEF Candidates, IdentifyAssumption
<1>3. Cardinality(found[k].noise \ asks) \in Nat
  BY <1>2, FS_Difference, FS_CardinalityType
<1> QED
  BY <1>2, <1>3 DEF UnwantedKeywords

LEMMA ScoreIsInt ==
  ASSUME Types, NEW k \in DOMAIN found, NEW asks
  PROVE  Score(k, asks) \in Int
<1>1. Len(found) \in Nat /\ k \in Nat
  BY DEF Types
<1>2. {RankWeight, DurationBonus, NoisePenalty} \subseteq Nat
  BY IdentifyAssumption DEF IdentifyAssumption
<1>3. UnwantedKeywords(found[k], asks) \in Nat
  BY NoiseFinite
<1>4. /\ (Len(found) - k + 1) * RankWeight \in Int
      /\ NoisePenalty * UnwantedKeywords(found[k], asks) \in Int
  BY <1>1, <1>2, <1>3
<1> QED
  BY <1>2, <1>4 DEF Score

(* There is one best candidate, so whoever beats all others is it.         *)
LEMMA BestIsUnique ==
  ASSUME Types, NEW asks, NEW k \in Playable, \A l \in Playable : Beats(k, l, asks)
  PROVE  k = Best(asks)
<1> DEFINE b == Best(asks)
<1>1. b \in Playable /\ \A l \in Playable : Beats(b, l, asks)
  BY DEF Best, Beats
<1>2. Beats(k, b, asks) /\ Beats(b, k, asks)
  BY <1>1
<1>3. /\ k \in DOMAIN found /\ b \in DOMAIN found
      /\ k \in Int /\ b \in Int
  BY <1>1 DEF Playable, Types
<1>4. Score(k, asks) \in Int /\ Score(b, asks) \in Int
  BY <1>3, ScoreIsInt
<1> HIDE DEF b
<1>5. k = b
  BY <1>2, <1>3, <1>4 DEF Beats
<1> QED
  BY <1>5 DEF b

LEMMA ConsiderKeeps ==
  ASSUME RankInv, Consider
  PROVE  RankInv'
<1> DEFINE score == Score(i, text.asks)
<1>1. /\ stage = "rank" /\ stage' = stage /\ text' = text /\ found' = found /\ i' = i + 1
      /\ IF Usable(found[i]) /\ (~ok \/ score > bestScore)
           THEN best' = i /\ bestScore' = score /\ ok' = TRUE
           ELSE best' = best /\ bestScore' = bestScore /\ ok' = ok
  BY DEF Consider
<1>2. /\ Types /\ i \in Nat \ {0} /\ Len(found) \in Nat /\ i <= Len(found)
      /\ i \in DOMAIN found
  BY DEF RankInv, Types, Consider
<1>3. score \in Int
  BY <1>2, ScoreIsInt
<1>4. Types'
  <2>1. bestScore' \in Int /\ i' \in Nat \ {0}
    BY <1>1, <1>2, <1>3 DEF Types
  <2>2. ok' \in BOOLEAN
    BY <1>1, <1>2 DEF Types
  <2> QED
    BY <1>1, <1>2, <2>1, <2>2 DEF Types
<1>5. \A k, l : Beats(k, l, text.asks)' <=> Beats(k, l, text.asks)
  BY <1>1 DEF Beats, Score, UnwantedKeywords
<1>6. /\ ok => /\ best \in 1..(i - 1) /\ Usable(found[best])
               /\ bestScore = Score(best, text.asks)
               /\ \A l \in 1..(i - 1) : Usable(found[l]) => Beats(best, l, text.asks)
      /\ ~ok => \A l \in 1..(i - 1) : ~Usable(found[l])
  BY <1>1 DEF RankInv, LoopInv
<1>7. i' - 1 = i /\ i' <= Len(found) + 1 /\ \A l \in 1..i : l \in 1..(i - 1) \/ l = i
  BY <1>1, <1>2
<1>8. \A l \in 1..(i - 1) : l \in DOMAIN found /\ l < i /\ Score(l, text.asks) \in Int
  BY <1>2, ScoreIsInt
<1>10. CASE Usable(found[i]) /\ (~ok \/ score > bestScore)
  <2>1. best' = i /\ bestScore' = score /\ ok'
    BY <1>1, <1>10
  <2>2. \A l \in 1..(i - 1) : Usable(found[l]) => Beats(i, l, text.asks)
    <3> SUFFICES ASSUME NEW l \in 1..(i - 1), Usable(found[l])
                 PROVE  score > Score(l, text.asks)
      BY DEF Beats
    <3>1. ok /\ Beats(best, l, text.asks) /\ bestScore = Score(best, text.asks)
      BY <1>6
    <3>2. best \in 1..(i - 1)
      BY <1>6, <3>1
    <3> QED
      BY <1>3, <1>8, <1>10, <3>1, <3>2 DEF Beats
  <2>3. Beats(i, i, text.asks)
    BY <1>2 DEF Beats
  <2>4. \A l \in 1..(i' - 1) : Usable(found[l]) => Beats(i, l, text.asks)
    BY <1>7, <2>2, <2>3
  <2>5. i \in 1..(i' - 1)
    BY <1>2, <1>7
  <2> QED
    BY <1>1, <1>4, <1>5, <1>7, <1>10, <2>1, <2>4, <2>5
       DEF RankInv, LoopInv, Usable, Score, UnwantedKeywords
<1>11. CASE ~(Usable(found[i]) /\ (~ok \/ score > bestScore))
  <2>1. best' = best /\ bestScore' = bestScore /\ ok' = ok
    BY <1>1, <1>11
  <2>2. ASSUME ok PROVE \A l \in 1..(i' - 1) : Usable(found[l]) => Beats(best, l, text.asks)
    <3>1. Usable(found[i]) => Beats(best, i, text.asks)
      BY <1>2, <1>3, <1>6, <1>8, <1>11, <2>2 DEF Beats
    <3> QED
      BY <1>6, <1>7, <2>2, <3>1
  <2>3. ASSUME ~ok PROVE \A l \in 1..(i' - 1) : ~Usable(found[l])
    BY <1>6, <1>7, <1>11, <2>3
  <2>4. ok => best \in 1..(i' - 1)
    BY <1>2, <1>6, <1>7
  <2>5. stage' = "rank" => 
          /\ i' <= Len(found') + 1
          /\ ok' => /\ best' \in 1..(i' - 1) /\ Usable(found'[best'])
                    /\ bestScore' = Score(best, text.asks)'
                    /\ \A l \in 1..(i' - 1) : Usable(found'[l]) => Beats(best, l, text.asks)'
          /\ ~ok' => \A l \in 1..(i' - 1) : ~Usable(found'[l])
    BY <1>1, <1>5, <1>6, <1>7, <2>1, <2>2, <2>3, <2>4 DEF Score, UnwantedKeywords
  <2> QED
    BY <1>1, <1>4, <2>5 DEF RankInv, LoopInv, Usable
<1> QED
  BY <1>10, <1>11

LEMMA RankKept == RankInv /\ [Next]_vars => RankInv'
<1> SUFFICES ASSUME RankInv, [Next]_vars PROVE RankInv'
  OBVIOUS
<1>1. CASE Classify
  <2>1. /\ stage = "message" /\ stage' \in {"rejected", "resolve", "empty", "search"}
        /\ UNCHANGED <<text, found, i, best, bestScore, ok>>
    BY <1>1 DEF Classify
  <2> QED
    BY <2>1 DEF RankInv, Types, LoopInv, Stages
<1>2. CASE Search
  <2>1. found' \in Seq(Candidates) /\ stage' \in {"failed", "not_found", "rank"}
    <3>1. CASE found' = found
      BY <1>2, <3>1 DEF Search, RankInv, Types
    <3>2. ASSUME NEW n \in 0..MaxResults, found' \in [1..n -> Candidates]
          PROVE  found' \in Seq(Candidates)
      <4>1. n \in Nat
        BY IdentifyAssumption DEF IdentifyAssumption
      <4> QED
        BY <3>2, <4>1
    <3> QED
      BY <1>2, <3>1, <3>2 DEF Search, RankInv, Types
  <2>2. stage = "search" /\ i = 1 /\ ok = FALSE
    BY <1>2 DEF Search, RankInv, LoopInv, Types
  <2>3. UNCHANGED <<text, i, best, bestScore, ok>>
    BY <1>2 DEF Search
  <2>4. Types'
    BY <2>1, <2>3 DEF RankInv, Types, Stages
  <2>5. Len(found') \in Nat
    BY <2>1
  <2>6. i' <= Len(found') + 1 /\ ~ok' /\ 1..(i' - 1) = {}
    BY <2>2, <2>3, <2>5
  <2> QED
    BY <2>1, <2>4, <2>6 DEF RankInv, LoopInv
<1>3. CASE Choose
  <2>1. /\ stage' \in {"resolve", "not_found"} /\ text' = text
        /\ found' = <<>> /\ i' = 1 /\ bestScore' = 0 /\ ok' = FALSE
    BY <1>3 DEF Choose
  <2>2. i' \in Nat \ {0} /\ bestScore' \in Int /\ found' \in Seq(Candidates)
    BY <2>1
  <2> QED
    BY <2>1, <2>2 DEF RankInv, Types, LoopInv, Stages
<1>4. CASE Resolve
  BY <1>4 DEF Resolve, RankInv, Types, LoopInv, Stages
<1>5. CASE Done \/ UNCHANGED vars
  <2>1. UNCHANGED vars
    BY <1>5 DEF Done
  <2>2. Types'
    BY <2>1 DEF vars, RankInv, Types
  <2>3. LoopInv'
    BY <2>1 DEF vars, RankInv, LoopInv, Usable, Beats, Score, UnwantedKeywords
  <2> QED
    BY <2>2, <2>3 DEF RankInv
<1> QED
  BY <1>1, <1>2, <1>3, <1>4, <1>5, ConsiderKeeps DEF Next

LEMMA RankInvariant == Spec => []RankInv
<1>1. Init => RankInv
  <2> SUFFICES ASSUME Init PROVE RankInv
    OBVIOUS
  <2>1. i = 1 /\ ok = FALSE /\ bestScore = 0 /\ found = <<>> /\ stage = "message" /\ text \in Texts
    BY DEF Init
  <2>2. i \in Nat \ {0} /\ bestScore \in Int /\ found \in Seq(Candidates)
    BY <2>1
  <2> QED
    BY <2>1, <2>2 DEF RankInv, Types, LoopInv, Stages
<1> QED
  BY <1>1, RankKept, PTL DEF Spec

LEMMA PickedIsBest ==
  ASSUME RankInv, Picked
  PROVE  IF ok THEN best \in Playable /\ best = Best(text.asks) ELSE Playable = {}
<1>1. /\ Types /\ DOMAIN found = 1..(i - 1) /\ stage = "rank"
  BY DEF RankInv, Types, LoopInv, Picked
<1>2. CASE ok
  <2>1. best \in Playable /\ \A l \in Playable : Beats(best, l, text.asks)
    BY <1>1, <1>2 DEF RankInv, LoopInv, Playable
  <2> QED
    BY <1>1, <1>2, <2>1, BestIsUnique
<1>3. CASE ~ok
  BY <1>1, <1>3 DEF RankInv, LoopInv, Playable
<1> QED
  BY <1>2, <1>3 DEF RankInv, Types

(* The loop of bestMatch returns the first of the highest scores, however  *)
(* many results there are and whatever the weights, and nothing only if    *)
(* nothing can be played (ranker.go, bestMatch).                           *)
THEOREM LoopPicksTheBest == Spec => []PicksTheBest
<1>1. RankInv => PicksTheBest
  BY PickedIsBest DEF PicksTheBest
<1> QED
  BY <1>1, RankInvariant, PTL

-----------------------------------------------------------------------------
(* A query that asks for more.                                             *)

Forgiven(k, asks) == found[k].noise \cap (asks \ text.asks)

LEMMA Product ==
  ASSUME NEW n \in Nat, NEW a \in Nat, NEW b \in Nat
  PROVE  /\ n * (a + b) = n * a + n * b /\ n * a \in Nat /\ n * b \in Nat
         /\ a <= b => n * a <= n * b
<1>1. n * (a + b) = n * a + n * b /\ n * a \in Nat /\ n * b \in Nat
  OBVIOUS
<1>2. ASSUME a <= b PROVE n * a <= n * b
  <2>1. PICK d \in Nat : b = a + d
    <3>1. b - a \in Nat /\ b = a + (b - a)
      BY <1>2
    <3> QED
      BY <3>1
  <2>2. n * b = n * a + n * d /\ n * d \in Nat /\ n * a \in Nat
    BY <2>1
  <2> QED
    BY <2>2
<1> QED
  BY <1>1, <1>2

(* A longer query raises a candidate's score by what is no longer held     *)
(* against it.                                                             *)
LEMMA ScoreGains ==
  ASSUME Types, NEW k \in DOMAIN found, NEW asks, text.asks \subseteq asks
  PROVE  /\ Cardinality(Forgiven(k, asks)) \in Nat
         /\ Score(k, asks) = Score(k, text.asks) + NoisePenalty * Cardinality(Forgiven(k, asks))
<1> DEFINE noise == found[k].noise
           before == UnwantedKeywords(found[k], text.asks)
           after == UnwantedKeywords(found[k], asks)
           gain == Cardinality(Forgiven(k, asks))
           rank == (Len(found) - k + 1) * RankWeight
           bonus == IF found[k].duration \in SongMinLength..SongMaxLength
                      THEN DurationBonus ELSE 0
<1>1. IsFiniteSet(noise) /\ before \in Nat /\ after \in Nat
  BY NoiseFinite
<1>2. IsFiniteSet(noise \ text.asks)
  BY <1>1, FS_Difference
<1>3. /\ (noise \ text.asks) \ asks = noise \ asks
      /\ (noise \ text.asks) \cap asks = Forgiven(k, asks)
  BY DEF Forgiven
<1>4. Cardinality(noise \ asks) = Cardinality(noise \ text.asks) - gain
  BY <1>2, <1>3, FS_Difference
<1>5. gain \in Nat
  BY <1>1, FS_Intersection, FS_CardinalityType DEF Forgiven
<1>6. before = after + gain
  BY <1>1, <1>4, <1>5 DEF UnwantedKeywords
<1>7. NoisePenalty \in Nat /\ RankWeight \in Nat /\ DurationBonus \in Nat
  BY IdentifyAssumption DEF IdentifyAssumption
<1>8. /\ NoisePenalty * before = NoisePenalty * after + NoisePenalty * gain
      /\ NoisePenalty * after \in Nat /\ NoisePenalty * gain \in Nat
  BY <1>1, <1>5, <1>6, <1>7, Product
<1>9. rank \in Int /\ bonus \in Int
  <2>1. Len(found) - k + 1 \in Int
    BY DEF Types
  <2> QED
    BY <1>7, <2>1
<1>10. /\ Score(k, text.asks) = rank + (bonus - NoisePenalty * before)
       /\ Score(k, asks) = rank + (bonus - NoisePenalty * after)
  BY Zenon DEF Score
<1> HIDE DEF rank, bonus, before, after, gain
<1>11. Score(k, asks) = Score(k, text.asks) + NoisePenalty * gain
  BY <1>8, <1>9, <1>10
<1> QED
  BY <1>5, <1>11 DEF gain

(* Nobody is forgiven more than the one that has all that is asked for in  *)
(* addition: what was picked is picked again.                              *)
LEMMA StillTheBest ==
  ASSUME RankInv, Picked, ok, NEW asks \in NoiseSets,
         text.asks \subseteq asks, asks \subseteq text.asks \cup found[best].noise
  PROVE  best = Best(asks)
<1> DEFINE extra == asks \ text.asks
           gain(k) == Cardinality(Forgiven(k, asks))
<1>1. Types /\ DOMAIN found = 1..(i - 1) /\ stage = "rank"
  BY DEF RankInv, Types, LoopInv, Picked
<1>2. best \in Playable /\ \A l \in Playable : Beats(best, l, text.asks)
  BY <1>1 DEF RankInv, LoopInv, Playable
<1>3. IsFiniteSet(extra)
  BY FS_Difference, IdentifyAssumption DEF IdentifyAssumption
<1>4. Forgiven(best, asks) = extra
  BY DEF Forgiven
<1>5. ASSUME NEW l \in Playable PROVE Beats(best, l, asks)
  <2>1. l \in DOMAIN found /\ best \in DOMAIN found
    BY <1>2 DEF Playable
  <2>2. gain(l) <= gain(best)
    BY <1>3, <1>4, FS_Intersection DEF Forgiven
  <2>3. /\ gain(l) \in Nat /\ gain(best) \in Nat
        /\ Score(l, asks) = Score(l, text.asks) + NoisePenalty * gain(l)
        /\ Score(best, asks) = Score(best, text.asks) + NoisePenalty * gain(best)
    BY <1>1, <2>1, ScoreGains
  <2>4. /\ NoisePenalty * gain(l) <= NoisePenalty * gain(best)
        /\ NoisePenalty * gain(l) \in Nat /\ NoisePenalty * gain(best) \in Nat
    BY <2>2, <2>3, Product, IdentifyAssumption DEF IdentifyAssumption
  <2>5. Score(l, text.asks) \in Int /\ Score(best, text.asks) \in Int
    BY <1>1, <2>1, ScoreIsInt
  <2>6. Beats(best, l, text.asks)
    BY <1>2
  <2> HIDE DEF gain
  <2> QED
    BY <2>3, <2>4, <2>5, <2>6 DEF Beats
<1> QED
  BY <1>1, <1>2, <1>5, BestIsUnique

(* Whoever adds to a query a keyword of the recording that was picked gets *)
(* a recording with that keyword again, in fact the same one, for any      *)
(* weights: asking for a live version is never punished (ranker.go,        *)
(* unwantedKeywords).                                                      *)
THEOREM AskingNeverHurts == Spec => []AskingHelps
<1>1. RankInv => AskingHelps
  <2> SUFFICES ASSUME RankInv, Picked, ok,
                      NEW kw \in found[best].noise,
                      NEW asks \in {n \in NoiseSets : text.asks \cup {kw} \subseteq n},
                      asks \subseteq text.asks \cup found[best].noise
               PROVE  kw \in found[Best(asks)].noise
    BY DEF AskingHelps
  <2>1. asks \in NoiseSets /\ text.asks \subseteq asks
    OBVIOUS
  <2> QED
    BY <2>1, StillTheBest
<1> QED
  BY <1>1, RankInvariant, PTL

=============================================================================
