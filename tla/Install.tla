------------------------------ MODULE Install -------------------------------
(***************************************************************************)
(* Install of internal/youtube/install.go: how a start finds yt-dlp,       *)
(* ffmpeg and ffprobe in the managed cache, which survives on the volume,  *)
(* and on PATH, which comes with the image.                                *)
(*                                                                         *)
(* What go-ytdlp does is modelled from the comments of install.go: it      *)
(* takes the cached copy ahead of PATH, fails when that does not execute,  *)
(* and downloads what it finds nowhere.                                    *)
(***************************************************************************)
EXTENDS Naturals

CONSTANTS
  Attempts,   \* installAttempts
  MaxFaults   \* bound on the faults of a behaviour

VARIABLES
  host,     \* the image: copies on PATH, what a download gives, YTDLP_PATH
  cache,    \* the managed copies, on the volume
  step,     \* where Install is
  usable,   \* the companions lookupUsable found
  ffmpeg,   \* where Binaries.FFmpeg points
  attempt,  \* of installYTDLP
  stuck,    \* companions whose removal failed in this life
  lost,     \* downloads of yt-dlp that failed in this life (history)
  ctxDone,
  faults    \* faults so far (bounded by MaxFaults)

Companions == {"ffmpeg", "ffprobe"}
Names == Companions \cup {"ytdlp"}
Copies == {"absent", "works", "broken"}
Steps == {"cache_dir", "purge_ffmpeg", "purge_ffprobe", "lookup_ffmpeg",
          "lookup_ffprobe", "install_ffmpeg", "install_ffprobe",
          "install_ytdlp", "sleep", "done", "failed"}

Fault == faults < MaxFaults /\ faults' = faults + 1

(* runnable: a copy that works still fails its probe when ctx is done, or  *)
(* when it is slower than versionTimeout.                                  *)
Probe(copy, ok) ==
  \/ ok = (copy = "works" /\ ~ctxDone) /\ UNCHANGED faults
  \/ ~ok /\ copy = "works" /\ ~ctxDone /\ Fault

UseCacheDir ==
  /\ step = "cache_dir"
  /\ \/ step' = "purge_ffmpeg" /\ UNCHANGED faults
     \/ step' = "failed" /\ Fault
  /\ UNCHANGED <<host, cache, usable, ffmpeg, attempt, stuck, lost, ctxDone>>

Remove(n) ==
  \/ cache' = [cache EXCEPT ![n] = "absent"] /\ UNCHANGED <<stuck, faults>>
  \/ stuck' = stuck \cup {n} /\ UNCHANGED cache /\ Fault

(* Mutant: what is there is taken for usable. *)
PurgeNothing(n, at, next) ==
  /\ step = at
  /\ step' = next
  /\ UNCHANGED <<host, cache, usable, ffmpeg, attempt, stuck, lost, ctxDone, faults>>

(* One round of purgeUnusable. *)
Purge(n, at, next) ==
  /\ step = at
  /\ \/ /\ cache[n] = "absent" \/ (cache[n] = "works" /\ ~ctxDone)
        /\ UNCHANGED <<cache, stuck, faults>>
     \/ /\ cache[n] # "absent" /\ (cache[n] = "broken" \/ ctxDone)
        /\ Remove(n)
     \/ /\ cache[n] = "works" /\ ~ctxDone
        /\ Fault
        /\ cache' = [cache EXCEPT ![n] = "absent"]
        /\ UNCHANGED stuck
  /\ step' = next
  /\ UNCHANGED <<host, usable, ffmpeg, attempt, lost, ctxDone>>

(* lookupUsable. *)
Lookup(n) ==
  \E ok \in BOOLEAN :
    /\ Probe(host.path[n], ok)
    /\ usable' = IF ok THEN usable \cup {n} ELSE usable

LookupFFmpeg ==
  /\ step = "lookup_ffmpeg"
  /\ Lookup("ffmpeg")
  /\ step' = "lookup_ffprobe"
  /\ UNCHANGED <<host, cache, ffmpeg, attempt, stuck, lost, ctxDone>>

(* Mutant: ffmpeg alone decides. *)
PreferPathBlindly ==
  /\ step = "lookup_ffprobe"
  /\ Lookup("ffprobe")
  /\ IF "ffmpeg" \in usable
       THEN step' = "install_ytdlp" /\ ffmpeg' = "path"
       ELSE step' = "install_ffmpeg" /\ UNCHANGED ffmpeg
  /\ UNCHANGED <<host, cache, attempt, stuck, lost, ctxDone>>

(* The second lookup of resolveFFmpeg, and what it makes of both. *)
PreferPath ==
  /\ step = "lookup_ffprobe"
  /\ Lookup("ffprobe")
  /\ IF usable' = Companions
       THEN step' = "install_ytdlp" /\ ffmpeg' = "path"
       ELSE step' = "install_ffmpeg" /\ UNCHANGED ffmpeg
  /\ UNCHANGED <<host, cache, attempt, stuck, lost, ctxDone>>

(* go-ytdlp looking for n and finding it at place ... *)
OnPath(n) == IF n \in Companions THEN host.path[n] ELSE "absent"

Resolves(n, place) ==
  /\ ~ctxDone
  /\ \/ place = "cache" /\ cache[n] = "works" /\ UNCHANGED cache
     \/ place = "path" /\ cache[n] = "absent" /\ OnPath(n) = "works" /\ UNCHANGED cache
     \/ /\ place = "cache" /\ cache[n] = "absent" /\ OnPath(n) # "works"
        /\ host.build[n] = "works"
        /\ cache' = [cache EXCEPT ![n] = "works"]
  /\ UNCHANGED faults

(* ... or failing: a copy that does not execute, be it there or just       *)
(* downloaded, a download that does not finish, or a context that is done. *)
CannotResolve(n) ==
  \/ ctxDone /\ UNCHANGED <<cache, faults>>
  \/ cache[n] = "broken" /\ UNCHANGED <<cache, faults>>
  \/ cache[n] = "absent" /\ OnPath(n) = "broken" /\ UNCHANGED <<cache, faults>>
  \/ /\ cache[n] = "absent" /\ OnPath(n) # "works"
     /\ host.build[n] = "broken"
     /\ cache' = [cache EXCEPT ![n] = "broken"]
     /\ UNCHANGED faults
  \/ /\ cache[n] = "absent" /\ OnPath(n) # "works"
     /\ Fault
     /\ UNCHANGED cache

(* The fallback of resolveFFmpeg. *)
InstallFFmpeg ==
  /\ step = "install_ffmpeg"
  /\ \/ /\ \E place \in {"cache", "path"} : Resolves("ffmpeg", place) /\ ffmpeg' = place
        /\ step' = "install_ffprobe"
     \/ CannotResolve("ffmpeg") /\ step' = "failed" /\ UNCHANGED ffmpeg
  /\ UNCHANGED <<host, usable, attempt, stuck, lost, ctxDone>>

InstallFFprobe ==
  /\ step = "install_ffprobe"
  /\ \/ \E place \in {"cache", "path"} : Resolves("ffprobe", place) /\ step' = "install_ytdlp"
     \/ CannotResolve("ffprobe") /\ step' = "failed"
  /\ UNCHANGED <<host, usable, ffmpeg, attempt, stuck, lost, ctxDone>>

(* YTDLP_PATH is used verbatim. *)
UseYTDLP ==
  /\ step = "install_ytdlp"
  /\ host.ytdlp
  /\ step' = "done"
  /\ UNCHANGED <<host, cache, usable, ffmpeg, attempt, stuck, lost, ctxDone, faults>>

(* A round of installYTDLP. *)
InstallYTDLP ==
  /\ step = "install_ytdlp"
  /\ ~host.ytdlp
  /\ \/ Resolves("ytdlp", "cache") /\ step' = "done" /\ UNCHANGED lost
     \/ /\ CannotResolve("ytdlp")
        /\ step' = IF ctxDone THEN "failed" ELSE "sleep"
        /\ lost' = IF faults' # faults THEN lost + 1 ELSE lost
  /\ UNCHANGED <<host, usable, ffmpeg, attempt, stuck, ctxDone>>

(* Mutant: the last attempt is not made. *)
SleepAndGiveUp ==
  /\ step = "sleep"
  /\ IF attempt + 1 < Attempts
       THEN step' = "install_ytdlp" /\ attempt' = attempt + 1
       ELSE step' = "failed" /\ UNCHANGED attempt
  /\ UNCHANGED <<host, cache, usable, ffmpeg, stuck, lost, ctxDone, faults>>

(* sleep returns at once when ctx is done; the loop goes on either way. *)
Sleep ==
  /\ step = "sleep"
  /\ IF attempt < Attempts
       THEN step' = "install_ytdlp" /\ attempt' = attempt + 1
       ELSE step' = "failed" /\ UNCHANGED attempt
  /\ UNCHANGED <<host, cache, usable, ffmpeg, stuck, lost, ctxDone, faults>>

PurgeFFmpeg == Purge("ffmpeg", "purge_ffmpeg", "purge_ffprobe")
PurgeFFprobe == Purge("ffprobe", "purge_ffprobe", "lookup_ffmpeg")

(* The process begins: nothing but volume and image is there. *)
Begin ==
  /\ step' = "cache_dir"
  /\ usable' = {}
  /\ ffmpeg' = "none"
  /\ attempt' = 1
  /\ stuck' = {}
  /\ lost' = 0

Next ==
  \/ UseCacheDir \/ PurgeFFmpeg \/ PurgeFFprobe
  \/ LookupFFmpeg \/ PreferPath \/ InstallFFmpeg \/ InstallFFprobe
  \/ UseYTDLP \/ InstallYTDLP \/ Sleep

(* Any image on any volume.  Downloads of yt-dlp run everywhere; those of  *)
(* the companions do or do not, by the image's libc.                       *)
Init ==
  /\ \E path \in [Companions -> Copies], build \in {"works", "broken"}, own \in BOOLEAN :
       host = [path |-> path, ytdlp |-> own,
               build |-> [n \in Names |-> IF n \in Companions THEN build ELSE "works"]]
  /\ cache \in [Names -> Copies]
  /\ step = "cache_dir"
  /\ usable = {}
  /\ ffmpeg = "none"
  /\ attempt = 1
  /\ stuck = {}
  /\ lost = 0
  /\ ctxDone = FALSE
  /\ faults = 0

=============================================================================
