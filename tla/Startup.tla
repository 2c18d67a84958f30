------------------------------ MODULE Startup -------------------------------
(***************************************************************************)
(* The start of run (cmd/songbot/main.go), life after life: Install, then  *)
(* Open, under one context.  Volume and image survive a life, nothing else *)
(* does.  A start that fails ends the process with an error and Kubernetes *)
(* starts it again; at most one runs at a time (README.md, Recreate).      *)
(***************************************************************************)
EXTENDS Naturals, Sequences

CONSTANTS
  Attempts,    \* installAttempts
  MaxFaults,   \* bound on the faults, signals and deaths of a behaviour
  Migrations,  \* migrations of the newest release
  MaxReleases  \* bound on the deployments of a behaviour

ASSUME StartupAssumption ==
  /\ Attempts \in Nat \ {0}
  /\ {MaxFaults, Migrations, MaxReleases} \subseteq Nat

VARIABLES
  host, cache, step, usable, ffmpeg, attempt, stuck, lost,  \* Install
  known, db, tx, mstep, cur,                                \* Migrate
  ctxDone, faults,                                          \* both
  releases   \* deployments so far

I == INSTANCE Install
M == INSTANCE Migrate

ivars == <<host, cache, step, usable, ffmpeg, attempt, stuck, lost>>
mvars == <<known, db, tx, mstep, cur>>
vars == <<ivars, mvars, ctxDone, faults, releases>>

Failed == step = "failed" \/ mstep = "failed"
Ready == mstep = "done"
Running == ~Failed /\ ~Ready

Installing == I!Next /\ UNCHANGED <<mvars, releases>>
Migrating == M!Next /\ UNCHANGED <<ivars, releases>>

(* Install has returned: on to Open. *)
Open ==
  /\ step = "done" /\ mstep = "off"
  /\ mstep' = "create"
  /\ UNCHANGED <<ivars, known, db, tx, cur, ctxDone, faults, releases>>

Signal ==
  /\ Running /\ ~ctxDone /\ faults < MaxFaults
  /\ ctxDone' = TRUE
  /\ faults' = faults + 1
  /\ UNCHANGED <<ivars, mvars, releases>>

(* A new process on the same volume. *)
NewLife ==
  /\ I!Begin
  /\ mstep' = "off"
  /\ cur' = 1
  /\ tx' = M!Empty
  /\ ctxDone' = FALSE
  /\ UNCHANGED <<cache, db>>

Die ==
  /\ Running /\ faults < MaxFaults
  /\ faults' = faults + 1
  /\ NewLife
  /\ UNCHANGED <<host, known, releases>>

Restart ==
  /\ Failed
  /\ NewLife
  /\ UNCHANGED <<host, known, faults, releases>>

(* Another release, newer or older, replaces one that runs. *)
Redeploy ==
  /\ Ready /\ releases < MaxReleases
  /\ releases' = releases + 1
  /\ known' \in 1..Migrations
  /\ NewLife
  /\ UNCHANGED <<host, faults>>

Serve == Ready /\ UNCHANGED vars

Init ==
  /\ I!Init
  /\ known \in 1..Migrations
  /\ db = M!Empty
  /\ tx = M!Empty
  /\ mstep = "off"
  /\ cur = 1
  /\ releases = 0

Next ==
  \/ Installing \/ Open \/ Migrating
  \/ Signal \/ Die \/ Restart \/ Redeploy \/ Serve

(* main's goroutine runs, every call it makes has a bound, and Kubernetes  *)
(* restarts what exits.  Signals, deaths and deployments need not happen.  *)
Spec == Init /\ [][Next]_vars
FairSpec == Spec /\ WF_vars(Installing \/ Open \/ Migrating \/ Restart)

-----------------------------------------------------------------------------

(* What yt-dlp finds when it looks for a companion: the cache is prepended *)
(* to its PATH.                                                            *)
Effective(n) == IF cache[n] # "absent" THEN cache[n] ELSE host.path[n]

(* A start that gets through Install leaves yt-dlp companions that run,    *)
(* and points to an ffmpeg that does: a volume with a bad copy is healed,  *)
(* unless the bad copy could not be removed (purgeUnusable,                *)
(* resolveFFmpeg).                                                         *)
CompanionsRun ==
  step = "done" =>
    /\ \A n \in I!Companions : Effective(n) = "works" \/ n \in stuck
    /\ ffmpeg = "path" => host.path["ffmpeg"] = "works"
    /\ ffmpeg = "cache" => cache["ffmpeg"] = "works"

(* Fewer lost downloads of yt-dlp than installAttempts do not fail a       *)
(* start that was not told to stop (installYTDLP).                         *)
RetriesRideOut ==
  step = "failed" /\ lost > 0 => lost >= Attempts \/ ctxDone

(* What the database holds is a prefix of the migrations, each applied     *)
(* once, in order, and recorded, however often a start was cut short and   *)
(* whichever releases followed one another (migrate).                      *)
MigratedOnce ==
  /\ db.version = 1..Len(db.schema)
  /\ \A i \in DOMAIN db.schema : db.schema[i] = i

(* A database that Open hands out knows all its release needs. *)
OpenIsMigrated == Ready => 1..known \subseteq db.version

(* With an image that can run the bot, and no yt-dlp on the volume that    *)
(* does not execute, starts succeed in the end, whatever is wrong with the *)
(* cached companions: no crash loop (README.md, "heals itself").           *)
CanRun ==
  /\ host.ytdlp \/ cache["ytdlp"] # "broken"
  /\ \/ \A n \in I!Companions : host.path[n] = "works"
     \/ host.build["ffmpeg"] = "works" /\ \A n \in I!Companions : host.path[n] # "broken"

StartsInTheEnd == CanRun ~> Ready

=============================================================================
