------------------------------ MODULE Identify ------------------------------
(***************************************************************************)
(* From the text of a message to the song that is meant: classify          *)
(* (internal/bot/parse.go), identify (internal/downloader/service.go) with *)
(* the ranking loop of bestMatch (ranker.go), and what                     *)
(* internal/youtube/metadata.go makes of yt-dlp's answers.                 *)
(*                                                                         *)
(* A text is what classify looks at, a title the noise keywords in it or   *)
(* its parts, a string one of those it may be taken from.                  *)
(***************************************************************************)
EXTENDS Integers, Sequences, FiniteSets

CONSTANTS
  MaxResults,     \* entries of a search
  RankWeight, DurationBonus, NoisePenalty,
  SongMinLength, SongMaxLength, MaxDuration,
  Durations,      \* of the videos there are; 0 is a missing one
  NoiseSets       \* noise keywords a title or a query may contain together

ASSUME IdentifyAssumption ==
  /\ {MaxResults, RankWeight, DurationBonus, NoisePenalty} \subseteq Nat
  /\ {SongMinLength, SongMaxLength, MaxDuration} \cup Durations \subseteq Nat
  /\ \A noise \in NoiseSets : IsFiniteSet(noise)

VARIABLES
  stage,
  text,       \* the message
  found,      \* what Search returned
  i,          \* the candidate the loop of bestMatch is at
  best, bestScore, ok,
  song        \* title and artist of what Resolve returned

vars == <<stage, text, found, i, best, bestScore, ok, song>>

Stages == {"message", "search", "rank", "resolve", "answered", "rejected",
           "empty", "not_found", "failed"}

-----------------------------------------------------------------------------
(* parse.go.  A text has a scheme in front, or none, and then perhaps one  *)
(* further on, and what follows it is a host: listed and recognised        *)
(* without a scheme, listed only, or anything else.  parses is false if    *)
(* url.Parse makes an error of it.                                         *)

AllTexts == [blank : BOOLEAN, space : BOOLEAN, scheme : {"none", "http", "other"},
             later : BOOLEAN, host : {"bare", "listed", "foreign"},
             parses : BOOLEAN, asks : NoiseSets]

LooksLikeURL(t) ==
  /\ ~t.blank /\ ~t.space
  /\ t.scheme = "http" \/ (t.scheme = "none" /\ t.host = "bare")

(* What only a link is asked for is varied only in what is taken for one. *)
Texts == {t \in AllTexts :
            /\ t.later => t.scheme = "none"
            /\ t.later \/ ~t.parses => LooksLikeURL(t)}

(* https:// goes in front of a text that has no scheme anywhere. *)
WithScheme(t) ==
  IF t.scheme = "none" /\ ~t.later THEN [t EXCEPT !.scheme = "http"] ELSE t

(* Mutant: the prefix that was recognised is taken for the host. *)
WatchableByPrefix(t) == t.parses /\ t.host \in {"bare", "listed"}

(* parsed.Host is empty without a scheme in front. *)
Watchable(t) ==
  LET u == WithScheme(t) IN
  u.parses /\ u.scheme # "none" /\ u.host \in {"bare", "listed"}

Classify ==
  /\ stage = "message"
  /\ stage' = CASE LooksLikeURL(text) /\ ~Watchable(text) -> "rejected"
                [] LooksLikeURL(text) /\ Watchable(text) -> "resolve"
                [] text.blank -> "empty"
                [] OTHER -> "search"
  /\ UNCHANGED <<text, found, i, best, bestScore, ok, song>>

-----------------------------------------------------------------------------
(* Search and bestMatch.                                                   *)

(* candidates leaves out the entries without an ID, so what comes back is  *)
(* any list of up to MaxResults that have one.                             *)
Candidates == [duration : Durations, noise : NoiseSets]

Search ==
  /\ stage = "search"
  /\ \/ stage' = "failed" /\ UNCHANGED found
     \/ \E n \in 0..MaxResults :
          /\ found' \in [1..n -> Candidates]
          /\ stage' = IF found' = <<>> THEN "not_found" ELSE "rank"
  /\ UNCHANGED <<text, i, best, bestScore, ok, song>>

Usable(c) == c.duration > 0 /\ c.duration <= MaxDuration

(* Mutant: the keywords the user asks for are those held against a title. *)
CountAsked(c, asks) == Cardinality(c.noise \cap asks)

UnwantedKeywords(c, asks) == Cardinality(c.noise \ asks)

Score(k, asks) ==
  LET c == found[k] IN
  (Len(found) - k + 1) * RankWeight
    + (IF c.duration \in SongMinLength..SongMaxLength THEN DurationBonus ELSE 0)
    - NoisePenalty * UnwantedKeywords(c, asks)

(* Mutant: a first score is good only if it beats zero. *)
ConsiderAboveZero ==
  /\ stage = "rank" /\ i <= Len(found)
  /\ LET score == Score(i, text.asks) IN
     IF Usable(found[i]) /\ score > bestScore
       THEN best' = i /\ bestScore' = score /\ ok' = TRUE
       ELSE UNCHANGED <<best, bestScore, ok>>
  /\ i' = i + 1
  /\ UNCHANGED <<stage, text, found, song>>

(* One round of the loop. *)
Consider ==
  /\ stage = "rank" /\ i <= Len(found)
  /\ LET score == Score(i, text.asks) IN
     IF Usable(found[i]) /\ (~ok \/ score > bestScore)
       THEN best' = i /\ bestScore' = score /\ ok' = TRUE
       ELSE UNCHANGED <<best, bestScore, ok>>
  /\ i' = i + 1
  /\ UNCHANGED <<stage, text, found, song>>

Picked == stage = "rank" /\ i > Len(found)

(* identify goes on with the match, by its ID. *)
Choose ==
  /\ Picked
  /\ stage' = IF ok THEN "resolve" ELSE "not_found"
  /\ found' = <<>> /\ i' = 1 /\ best' = 0 /\ bestScore' = 0 /\ ok' = FALSE
  /\ UNCHANGED <<text, song>>

-----------------------------------------------------------------------------
(* Resolve and metadata.go.                                                *)

None == ""

(* A title is blank, plain or "Artist - Track", perhaps with a promotional *)
(* tag; a channel may be nothing but the Topic suffix.                     *)
Infos == [track : {None, "track"}, artist : {None, "artist"},
          form : {"blank", "plain", "split"}, tag : BOOLEAN,
          channel : {None, "channel", "topic"}, uploader : {None, "uploader"}]

ChannelName(info) ==
  CASE info.channel = None -> info.uploader
    [] info.channel = "topic" -> None
    [] OTHER -> info.channel

(* Mutant: a title that is all tags becomes blank. *)
StripAll(info) == IF info.form = "blank" THEN None ELSE info.form

(* The title without its tags, unless nothing is left. *)
Clean(info) ==
  CASE info.form # "blank" -> info.form
    [] info.form = "blank" /\ info.tag -> "tag"
    [] OTHER -> None

TitleAndArtist(info) ==
  LET named == IF info.artist # None THEN info.artist ELSE ChannelName(info)
      split == info.track = None /\ Clean(info) = "split"
  IN [title  |-> CASE info.track # None -> info.track
                   [] split -> "after"
                   [] OTHER -> Clean(info),
      artist |-> CASE named # None -> named
                   [] named = None /\ split -> "before"
                   [] OTHER -> "unknown",
      of     |-> info]

Resolve ==
  /\ stage = "resolve"
  /\ \/ stage' = "failed" /\ UNCHANGED song
     \/ stage' = "not_found" /\ UNCHANGED song
     \/ \E info \in Infos :
          /\ stage' = "answered"
          /\ song' = TitleAndArtist(info)
  /\ UNCHANGED <<text, found, i, best, bestScore, ok>>

Final == {"answered", "rejected", "empty", "not_found", "failed"}
Done == stage \in Final /\ UNCHANGED vars

NoSong == [title |-> None, artist |-> None, of |-> None]

Init ==
  /\ stage = "message"
  /\ text \in Texts
  /\ found = <<>>
  /\ i = 1
  /\ best = 0
  /\ bestScore = 0
  /\ ok = FALSE
  /\ song = NoSong

Next == Classify \/ Search \/ Consider \/ Choose \/ Resolve \/ Done

Spec == Init /\ [][Next]_vars

-----------------------------------------------------------------------------

(* What yt-dlp is given as a link is a web address on YouTube as it is     *)
(* handed over, with or without a scheme of its own, and no web address    *)
(* that is written with its scheme and without a space is searched for.    *)
(* Other texts a reader may take for a link are: without a scheme, with    *)
(* another one, or with a space (parse.go, classify).                      *)
LinksToYouTube ==
  /\ stage \in {"resolve", "answered"} /\ LooksLikeURL(text) =>
       LET u == WithScheme(text) IN
       u.scheme = "http" /\ u.host # "foreign" /\ u.parses
  /\ stage \in {"search", "rank"} => text.blank \/ text.space \/ text.scheme # "http"

(* bestMatch picks the first of the highest scores among the candidates    *)
(* that can be played, negative ones included, and nothing only if there   *)
(* are none (ranker.go, bestMatch).                                        *)
Playable == {k \in DOMAIN found : Usable(found[k])}
Best(asks) ==
  CHOOSE k \in Playable : \A l \in Playable :
    Score(k, asks) > Score(l, asks) \/ (Score(k, asks) = Score(l, asks) /\ k <= l)

PicksTheBest ==
  Picked => IF ok THEN best \in Playable /\ best = Best(text.asks) ELSE Playable = {}

(* "A deliberate search for a live version is not punished": whoever adds  *)
(* to the query a keyword of the recording that was picked gets one with   *)
(* that keyword again (ranker.go, unwantedKeywords).                       *)
AskingHelps ==
  Picked /\ ok =>
    \A kw \in found[best].noise :
      \A asks \in {n \in NoiseSets : text.asks \cup {kw} \subseteq n} :
        asks \subseteq text.asks \cup found[best].noise
          => kw \in found[Best(asks)].noise

(* A song is never shown without an artist, nor without a title if the     *)
(* video has any, and promotional tags show only if they are all there is  *)
(* (metadata.go, titleAndArtist).                                          *)
Presentable ==
  stage = "answered" =>
    /\ song.artist # None
    /\ song.title = None => song.of.track = None /\ song.of.form = "blank" /\ ~song.of.tag
    /\ song.title = "tag" => song.of.form = "blank"

-----------------------------------------------------------------------------
(* Statements of the documentation that the code does not keep.            *)

(* parse.go, looksLikeURL: "anything that could be a link is handed to the *)
(* parser, which has the final say" - so no text the parser would accept   *)
(* once https:// is in front of it is searched for.                        *)
LinksReachTheParser ==
  stage = "search" => text.space \/ text.scheme # "none" \/ ~Watchable(text)

=============================================================================
