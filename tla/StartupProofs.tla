---------------------------- MODULE StartupProofs ---------------------------
(***************************************************************************)
(* Theorems about Startup, for any number of migrations, attempts, faults  *)
(* and releases: what the database holds, what the companions are worth,   *)
(* and how many lost downloads a start survives.                           *)
(***************************************************************************)
EXTENDS Startup, Integers, TLAPS

-----------------------------------------------------------------------------
(* The database.                                                           *)

Database == [schema : Seq(Nat), version : SUBSET Nat]

MTypes ==
  /\ db \in Database /\ tx \in Database
  /\ mstep \in M!MSteps
  /\ cur \in Nat \ {0} /\ known \in Nat

(* The loop has what comes before the migration it is at.                  *)
LoopReached ==
  /\ mstep \in {"check", "apply", "record", "commit"} => 1..(cur - 1) \subseteq db.version
  /\ mstep = "done" => 1..known \subseteq db.version

(* The transaction adds the next migration, step by step.                  *)
OneAhead ==
  /\ mstep \in {"apply", "record", "commit"} => cur = Len(db.schema) + 1
  /\ mstep = "apply" => tx = db
  /\ mstep \in {"record", "commit"} => tx.schema = Append(db.schema, cur)
  /\ mstep = "record" => tx.version = db.version
  /\ mstep = "commit" => tx.version = db.version \cup {cur}

MInv == MTypes /\ MigratedOnce /\ LoopReached /\ OneAhead

(* With what precedes cur applied and cur not, cur is the next.            *)
LEMMA NextMigration ==
  ASSUME MTypes, MigratedOnce, 1..(cur - 1) \subseteq db.version, cur \notin db.version
  PROVE  cur = Len(db.schema) + 1
<1>1. Len(db.schema) \in Nat /\ db.version = 1..Len(db.schema)
  BY DEF MTypes, Database, MigratedOnce
<1>2. cur > Len(db.schema)
  BY <1>1 DEF MTypes
<1>3. ~(cur > Len(db.schema) + 1)
  <2> SUFFICES ASSUME cur > Len(db.schema) + 1 PROVE FALSE
    OBVIOUS
  <2>1. Len(db.schema) + 1 \in 1..(cur - 1)
    BY <1>1 DEF MTypes
  <2> QED
    BY <1>1, <2>1
<1> QED
  BY <1>1, <1>2, <1>3 DEF MTypes

LEMMA EmptyDatabase == M!Empty \in Database
  BY DEF M!Empty, Database

LEMMA InitMInv == Init => MInv
<1> SUFFICES ASSUME Init PROVE MInv
  OBVIOUS
<1>1. MTypes
  BY EmptyDatabase, StartupAssumption DEF StartupAssumption, Init, MTypes, M!MSteps
<1>2. MigratedOnce
  BY DEF Init, MigratedOnce, M!Empty
<1> QED
  BY <1>1, <1>2 DEF Init, MInv, LoopReached, OneAhead

(* A step of migrate that leaves the database alone.                       *)
LEMMA MigrateKeeps == MInv /\ Migrating => MInv'
<1> SUFFICES ASSUME MInv, Migrating PROVE MInv'
  OBVIOUS
<1> USE DEF MInv
<1>1. CASE M!Create
  BY <1>1 DEF M!Create, M!Statement, MTypes, M!MSteps, MigratedOnce, LoopReached, OneAhead
<1>2. CASE M!Skip
  <2>1. MTypes' /\ MigratedOnce' /\ OneAhead'
    BY <1>2 DEF M!Skip, M!Statement, MTypes, M!MSteps, MigratedOnce, OneAhead
  <2>2. LoopReached'
    BY <1>2 DEF M!Skip, M!Statement, MTypes, LoopReached
  <2> QED
    BY <2>1, <2>2
<1>3. CASE M!BeginTx
  <2>1. MTypes' /\ MigratedOnce'
    BY <1>3 DEF M!BeginTx, M!Statement, MTypes, M!MSteps, MigratedOnce
  <2>2. LoopReached' /\ 1..(cur - 1) \subseteq db.version
    BY <1>3 DEF M!BeginTx, M!Statement, LoopReached
  <2>3. OneAhead'
    BY <1>3, <2>2, NextMigration DEF M!BeginTx, M!Statement, OneAhead
  <2> QED
    BY <2>1, <2>2, <2>3
<1>4. CASE M!Apply
  <2>1. tx' = [tx EXCEPT !.schema = Append(@, cur)] /\ UNCHANGED <<db, cur, known>>
    BY <1>4 DEF M!Apply, M!Statement
  <2>2. tx' \in Database
    <3>1. tx.schema \in Seq(Nat) /\ cur \in Nat
      BY DEF MTypes, Database
    <3>2. Append(tx.schema, cur) \in Seq(Nat)
      BY <3>1
    <3> QED
      BY <2>1, <3>2 DEF MTypes, Database
  <2>3. MTypes' /\ MigratedOnce' /\ LoopReached'
    BY <1>4, <2>1, <2>2 DEF M!Apply, M!Statement, MTypes, M!MSteps, MigratedOnce, LoopReached
  <2>4. tx'.schema = Append(db.schema, cur) /\ tx'.version = db.version
    BY <1>4, <2>1 DEF M!Apply, M!Statement, MTypes, Database, OneAhead
  <2>5. OneAhead'
    BY <1>4, <2>1, <2>4 DEF M!Apply, M!Statement, OneAhead
  <2> QED
    BY <2>3, <2>5
<1>5. CASE M!Record
  <2>1. tx' = [tx EXCEPT !.version = @ \cup {cur}] /\ UNCHANGED <<db, cur, known>>
    BY <1>5 DEF M!Record, M!Statement
  <2>2. tx' \in Database
    BY <2>1 DEF MTypes, Database
  <2>3. MTypes' /\ MigratedOnce' /\ LoopReached'
    BY <1>5, <2>1, <2>2 DEF M!Record, M!Statement, MTypes, M!MSteps, MigratedOnce, LoopReached
  <2>4. /\ tx'.schema = Append(db.schema, cur)
        /\ tx'.version = db.version \cup {cur}
    BY <1>5, <2>1 DEF M!Record, M!Statement, MTypes, Database, OneAhead
  <2>5. OneAhead'
    BY <1>5, <2>1, <2>4 DEF M!Record, M!Statement, OneAhead
  <2> QED
    BY <2>3, <2>5
<1>6. CASE M!Commit
  <2>1. db' = tx /\ cur' = cur + 1 /\ tx' = M!Empty /\ known' = known /\ mstep' = "check"
    BY <1>6 DEF M!Commit, M!Statement
  <2>2. MTypes'
    BY <2>1, EmptyDatabase DEF MTypes, M!MSteps
  <2>3. /\ cur = Len(db.schema) + 1 /\ db'.schema = Append(db.schema, cur)
        /\ db'.version = db.version \cup {cur}
    BY <1>6, <2>1 DEF M!Commit, M!Statement, OneAhead
  <2>4. db.schema \in Seq(Nat) /\ Len(db.schema) \in Nat /\ cur \in Nat
    BY DEF MTypes, Database
  <2>5. Len(db'.schema) = Len(db.schema) + 1
    BY <2>3, <2>4
  <2>6. db'.version = 1..Len(db'.schema)
    BY <2>3, <2>4, <2>5 DEF MigratedOnce
  <2>7. \A i \in DOMAIN db'.schema : db'.schema[i] = i
    BY <2>3, <2>4, <2>5 DEF MigratedOnce
  <2>8. MigratedOnce'
    BY <2>6, <2>7 DEF MigratedOnce
  <2>9. LoopReached' /\ OneAhead'
    BY <2>1, <2>3, <2>4, <2>5, <2>6 DEF LoopReached, OneAhead
  <2> QED
    BY <2>2, <2>8, <2>9
<1>7. CASE M!Finish
  BY <1>7 DEF M!Finish, MTypes, M!MSteps, MigratedOnce, LoopReached, OneAhead
<1>8. CASE M!StatementFails
  BY <1>8, EmptyDatabase DEF M!StatementFails, MTypes, M!MSteps, MigratedOnce, LoopReached, OneAhead
<1> QED
  BY <1>1, <1>2, <1>3, <1>4, <1>5, <1>6, <1>7, <1>8 DEF Migrating, M!Next

(* A new life finds the database as it was and no transaction.             *)
LEMMA NewLifeKeepsDatabase ==
  ASSUME MInv, NewLife, known' \in Nat
  PROVE  MInv'
  BY EmptyDatabase DEF MInv, NewLife, MTypes, M!MSteps, MigratedOnce, LoopReached, OneAhead

LEMMA NextMInv == MInv /\ [Next]_vars => MInv'
<1> SUFFICES ASSUME MInv, [Next]_vars PROVE MInv'
  OBVIOUS
<1>1. CASE Migrating
  BY <1>1, MigrateKeeps
<1>2. CASE Die \/ Restart \/ Redeploy
  <2>1. known' \in Nat
    BY <1>2, StartupAssumption DEF StartupAssumption, Die, Restart, Redeploy, MInv, MTypes
  <2> QED
    BY <1>2, <2>1, NewLifeKeepsDatabase DEF Die, Restart, Redeploy
<1>3. CASE Open
  BY <1>3 DEF Open, MInv, MTypes, M!MSteps, MigratedOnce, LoopReached, OneAhead
<1>4. CASE Installing \/ Signal \/ Serve \/ UNCHANGED vars
  <2>1. UNCHANGED mvars
    BY <1>4 DEF Installing, Signal, Serve, vars
  <2> QED
    BY <2>1 DEF mvars, MInv, MTypes, MigratedOnce, LoopReached, OneAhead
<1> QED
  BY <1>1, <1>2, <1>3, <1>4 DEF Next

LEMMA DatabaseInvariance == Spec => []MInv
  BY InitMInv, NextMInv, PTL DEF Spec

(* What the database holds is a prefix of the migrations, each applied     *)
(* once, in order, and recorded, wherever a start was cut short (migrate). *)
THEOREM MigrationsApplyOnce == Spec => []MigratedOnce
<1>1. MInv => MigratedOnce
  BY DEF MInv
<1> QED
  BY <1>1, DatabaseInvariance, PTL

(* A database that Open hands out has every migration its release knows,   *)
(* whatever releases ran before (migrate).                                 *)
THEOREM OpenGivesMigrated == Spec => []OpenIsMigrated
<1>1. MInv => OpenIsMigrated
  BY DEF MInv, LoopReached, OpenIsMigrated, Ready
<1> QED
  BY <1>1, DatabaseInvariance, PTL

-----------------------------------------------------------------------------
(* The companions.                                                         *)

ITypes ==
  /\ host \in [path : [I!Companions -> I!Copies], ytdlp : BOOLEAN,
               build : [I!Names -> {"works", "broken"}]]
  /\ cache \in [I!Names -> I!Copies]
  /\ step \in I!Steps
  /\ ffmpeg \in {"none", "path", "cache"}
  /\ usable \subseteq I!Companions

(* What the purge has been over runs or could not be removed.              *)
Purged(n) == cache[n] # "broken" \/ n \in stuck
Served(n) == Effective(n) = "works" \/ n \in stuck

(* What each step of Install may rely on.                                  *)
CompanionsSoFar ==
  /\ step \in {"purge_ffprobe", "lookup_ffmpeg", "lookup_ffprobe", "install_ffmpeg"} =>
       Purged("ffmpeg")
  /\ step \in {"lookup_ffmpeg", "lookup_ffprobe", "install_ffmpeg", "install_ffprobe"} =>
       Purged("ffprobe")
  /\ \A n \in usable : host.path[n] = "works"
  /\ step \in {"install_ffprobe", "install_ytdlp", "sleep", "done"} => Served("ffmpeg")
  /\ step \in {"install_ytdlp", "sleep", "done"} => Served("ffprobe")
  /\ step \in {"install_ffprobe", "install_ytdlp", "sleep", "done"} =>
       /\ ffmpeg = "path" => host.path["ffmpeg"] = "works"
       /\ ffmpeg = "cache" => cache["ffmpeg"] = "works"

CInv == ITypes /\ CompanionsSoFar

(* The image's own copy counts where the purge left none.                  *)
LEMMA PurgedAndOnPath ==
  ASSUME ITypes, NEW n \in I!Companions, Purged(n), host.path[n] = "works"
  PROVE  Served(n)
  BY DEF ITypes, Purged, Served, Effective, I!Names, I!Copies

LEMMA InitCInv == Init => CInv
<1> SUFFICES ASSUME Init PROVE CInv
  OBVIOUS
<1>1. host \in [path : [I!Companions -> I!Copies], ytdlp : BOOLEAN,
                build : [I!Names -> {"works", "broken"}]]
  BY DEF Init, I!Init
<1>2. ITypes
  BY <1>1 DEF Init, I!Init, ITypes, I!Steps
<1> QED
  BY <1>2 DEF Init, I!Init, CInv, CompanionsSoFar

LEMMA InstallKeeps == CInv /\ Installing => CInv'
<1> SUFFICES ASSUME CInv, Installing PROVE CInv'
  OBVIOUS
<1> USE DEF CInv
<1>1. CASE I!UseCacheDir
  BY <1>1 DEF I!UseCacheDir, ITypes, I!Steps, CompanionsSoFar
<1>2. CASE I!PurgeFFmpeg
  <2>1. ITypes'
    BY <1>2 DEF I!PurgeFFmpeg, I!Purge, I!Remove, ITypes, I!Steps, I!Copies, I!Names, I!Companions
  <2>2. Purged("ffmpeg")'
    BY <1>2 DEF I!PurgeFFmpeg, I!Purge, I!Remove, ITypes, Purged, I!Copies, I!Names, I!Companions
  <2> QED
    BY <1>2, <2>1, <2>2 DEF I!PurgeFFmpeg, I!Purge, CompanionsSoFar
<1>3. CASE I!PurgeFFprobe
  <2>1. ITypes'
    BY <1>3 DEF I!PurgeFFprobe, I!Purge, I!Remove, ITypes, I!Steps, I!Copies, I!Names, I!Companions
  <2>2. Purged("ffprobe")'
    BY <1>3 DEF I!PurgeFFprobe, I!Purge, I!Remove, ITypes, Purged, I!Copies, I!Names, I!Companions
  <2>3. Purged("ffmpeg")'
    BY <1>3 DEF I!PurgeFFprobe, I!Purge, I!Remove, ITypes, Purged, I!Copies, I!Names,
       I!Companions, CompanionsSoFar
  <2> QED
    BY <1>3, <2>1, <2>2, <2>3 DEF I!PurgeFFprobe, I!Purge, CompanionsSoFar
<1>4. CASE I!LookupFFmpeg
  <2>1. \A n \in usable' : host.path[n] = "works"
    BY <1>4 DEF I!LookupFFmpeg, I!Lookup, I!Probe, CompanionsSoFar
  <2>2. ITypes'
    BY <1>4 DEF I!LookupFFmpeg, I!Lookup, ITypes, I!Steps, I!Companions
  <2> QED
    BY <1>4, <2>1, <2>2 DEF I!LookupFFmpeg, CompanionsSoFar, Purged
<1>5. CASE I!PreferPath
  <2>1. \A n \in usable' : host.path[n] = "works"
    BY <1>5 DEF I!PreferPath, I!Lookup, I!Probe, CompanionsSoFar
  <2>2. ITypes'
    BY <1>5 DEF I!PreferPath, I!Lookup, ITypes, I!Steps, I!Companions
  <2>3. UNCHANGED <<host, cache, stuck>>
    BY <1>5 DEF I!PreferPath
  <2>4. Purged("ffmpeg") /\ Purged("ffprobe")
    BY <1>5 DEF I!PreferPath, CompanionsSoFar
  <2>5. usable' = I!Companions => Served("ffmpeg")' /\ Served("ffprobe")'
    BY <2>1, <2>3, <2>4, PurgedAndOnPath DEF Served, Effective, I!Companions
  <2>6. usable' = I!Companions => host.path["ffmpeg"] = "works"
    BY <2>1 DEF I!Companions
  <2> QED
    BY <1>5, <2>1, <2>2, <2>3, <2>4, <2>5, <2>6 DEF I!PreferPath, CompanionsSoFar, Purged
<1>6. CASE I!InstallFFmpeg
  <2>1. ITypes'
    BY <1>6 DEF I!InstallFFmpeg, I!Resolves, I!CannotResolve, ITypes, I!Steps, I!Copies,
       I!Names, I!Companions
  <2>2. CASE step' = "failed"
    BY <1>6, <2>1, <2>2 DEF I!InstallFFmpeg, CompanionsSoFar
  <2>3. CASE step' = "install_ffprobe"
    <3>1. PICK place \in {"cache", "path"} :
            I!Resolves("ffmpeg", place) /\ ffmpeg' = place
      BY <1>6, <2>3 DEF I!InstallFFmpeg
    <3>2. /\ place = "cache" => cache'["ffmpeg"] = "works"
          /\ place = "path" => cache'["ffmpeg"] = "absent" /\ host.path["ffmpeg"] = "works"
      BY <3>1 DEF I!Resolves, I!OnPath, ITypes, I!Names, I!Companions
    <3>3. Served("ffmpeg")'
      BY <1>6, <3>1, <3>2 DEF I!InstallFFmpeg, Served, Effective
    <3>4. Purged("ffprobe")'
      BY <1>6, <3>1 DEF I!InstallFFmpeg, I!Resolves, CompanionsSoFar, Purged, ITypes,
         I!Names, I!Companions
    <3> QED
      BY <1>6, <2>1, <2>3, <3>1, <3>2, <3>3, <3>4 DEF I!InstallFFmpeg, CompanionsSoFar
  <2> QED
    BY <1>6, <2>2, <2>3 DEF I!InstallFFmpeg
<1>7. CASE I!InstallFFprobe
  <2>1. ITypes'
    BY <1>7 DEF I!InstallFFprobe, I!Resolves, I!CannotResolve, ITypes, I!Steps, I!Copies,
       I!Names, I!Companions
  <2>2. CASE step' = "failed"
    BY <1>7, <2>1, <2>2 DEF I!InstallFFprobe, CompanionsSoFar
  <2>3. CASE step' = "install_ytdlp"
    <3>1. PICK place \in {"cache", "path"} : I!Resolves("ffprobe", place)
      BY <1>7, <2>3 DEF I!InstallFFprobe
    <3>2. \/ cache'["ffprobe"] = "works"
          \/ cache'["ffprobe"] = "absent" /\ host.path["ffprobe"] = "works"
      BY <3>1 DEF I!Resolves, I!OnPath, ITypes, I!Names, I!Companions
    <3>3. Served("ffprobe")'
      BY <1>7, <3>2 DEF I!InstallFFprobe, Served, Effective
    <3>4. cache'["ffmpeg"] = cache["ffmpeg"]
      BY <3>1 DEF I!Resolves, ITypes, I!Names, I!Companions
    <3>5. Served("ffmpeg")'
      BY <1>7, <3>4 DEF I!InstallFFprobe, CompanionsSoFar, Served, Effective
    <3> QED
      BY <1>7, <2>1, <2>3, <3>3, <3>4, <3>5 DEF I!InstallFFprobe, CompanionsSoFar
  <2> QED
    BY <1>7, <2>2, <2>3 DEF I!InstallFFprobe
<1>8. CASE I!UseYTDLP \/ I!Sleep
  BY <1>8 DEF I!UseYTDLP, I!Sleep, ITypes, I!Steps, CompanionsSoFar, Purged, Served, Effective
<1>9. CASE I!InstallYTDLP
  <2>1. ITypes'
    BY <1>9 DEF I!InstallYTDLP, I!Resolves, I!CannotResolve, ITypes, I!Steps, I!Copies,
       I!Names, I!Companions
  <2>2. cache'["ffmpeg"] = cache["ffmpeg"] /\ cache'["ffprobe"] = cache["ffprobe"]
    BY <1>9 DEF I!InstallYTDLP, I!Resolves, I!CannotResolve, ITypes, I!Names, I!Companions
  <2>3. Served("ffmpeg")' /\ Served("ffprobe")'
    BY <1>9, <2>2 DEF I!InstallYTDLP, CompanionsSoFar, Served, Effective
  <2> QED
    BY <1>9, <2>1, <2>2, <2>3 DEF I!InstallYTDLP, CompanionsSoFar
<1> QED
  BY <1>1, <1>2, <1>3, <1>4, <1>5, <1>6, <1>7, <1>8, <1>9 DEF Installing, I!Next

LEMMA NextCInv == CInv /\ [Next]_vars => CInv'
<1> SUFFICES ASSUME CInv, [Next]_vars PROVE CInv'
  OBVIOUS
<1>1. CASE Installing
  BY <1>1, InstallKeeps
<1>2. CASE Die \/ Restart \/ Redeploy
  BY <1>2 DEF Die, Restart, Redeploy, NewLife, I!Begin, CInv, ITypes, I!Steps, CompanionsSoFar
<1>3. CASE Migrating \/ Open \/ Signal \/ Serve \/ UNCHANGED vars
  <2>1. UNCHANGED ivars
    BY <1>3 DEF Migrating, Open, Signal, Serve, vars
  <2> QED
    BY <2>1 DEF ivars, CInv, ITypes, CompanionsSoFar, Purged, Served, Effective
<1> QED
  BY <1>1, <1>2, <1>3 DEF Next

(* A start that gets through Install leaves companions that run, unless a  *)
(* bad copy could not be removed (purgeUnusable, resolveFFmpeg).           *)
THEOREM CompanionsRunAlways == Spec => []CompanionsRun
<1>1. CInv => CompanionsRun
  BY DEF CInv, CompanionsSoFar, CompanionsRun, Served, I!Companions
<1> QED
  BY <1>1, InitCInv, NextCInv, PTL DEF Spec

-----------------------------------------------------------------------------
(* The attempts at yt-dlp.                                                 *)

RTypes ==
  /\ lost \in Nat /\ attempt \in 1..Attempts /\ faults \in Nat
  /\ host.build["ytdlp"] = "works"

(* Every attempt but the one under way lost a download, unless none was    *)
(* needed: the cached yt-dlp does not execute.                             *)
AttemptsCounted ==
  /\ step \notin {"install_ytdlp", "sleep", "done", "failed"} => lost = 0 /\ attempt = 1
  /\ step = "install_ytdlp" => lost = IF cache["ytdlp"] = "broken" THEN 0 ELSE attempt - 1
  /\ step = "sleep" => lost = IF cache["ytdlp"] = "broken" THEN 0 ELSE attempt
  /\ step = "failed" => lost = 0 \/ lost >= Attempts \/ ctxDone

RInv == RTypes /\ AttemptsCounted

LEMMA InitRInv == Init => RInv
  BY StartupAssumption DEF StartupAssumption, Init, I!Init, I!Names, I!Companions, RInv,
     RTypes, AttemptsCounted

(* A round that fails without the context being done has lost a download   *)
(* or met a cached yt-dlp that does not execute.                           *)
LEMMA RoundLost ==
  ASSUME RTypes, ~ctxDone, I!CannotResolve("ytdlp")
  PROVE  /\ cache' = cache
         /\ faults' = faults <=> cache["ytdlp"] = "broken"
  BY DEF RTypes, I!CannotResolve, I!OnPath, I!Fault, I!Companions

LEMMA RetryKeeps == RInv /\ Installing => RInv'
<1> SUFFICES ASSUME RInv, Installing PROVE RInv'
  OBVIOUS
<1> USE DEF RInv
<1>1. CASE \/ I!UseCacheDir \/ I!PurgeFFmpeg \/ I!PurgeFFprobe \/ I!LookupFFmpeg
           \/ I!PreferPath \/ I!InstallFFmpeg \/ I!InstallFFprobe
  <2>1. UNCHANGED <<host, lost, attempt, ctxDone>>
    BY <1>1 DEF I!UseCacheDir, I!PurgeFFmpeg, I!PurgeFFprobe, I!Purge, I!LookupFFmpeg,
       I!PreferPath, I!InstallFFmpeg, I!InstallFFprobe
  <2>2. faults' = faults \/ faults' = faults + 1
    BY <1>1 DEF I!UseCacheDir, I!PurgeFFmpeg, I!PurgeFFprobe, I!Purge, I!Remove,
       I!LookupFFmpeg, I!PreferPath, I!Lookup, I!Probe, I!InstallFFmpeg, I!InstallFFprobe,
       I!Resolves, I!CannotResolve, I!Fault
  <2>3. lost = 0 /\ attempt = 1 /\ step' # "sleep"
    BY <1>1 DEF I!UseCacheDir, I!PurgeFFmpeg, I!PurgeFFprobe, I!Purge, I!LookupFFmpeg,
       I!PreferPath, I!InstallFFmpeg, I!InstallFFprobe, AttemptsCounted
  <2> QED
    BY <2>1, <2>2, <2>3 DEF RTypes, AttemptsCounted
<1>2. CASE I!UseYTDLP
  BY <1>2 DEF I!UseYTDLP, RTypes, AttemptsCounted
<1>3. CASE I!InstallYTDLP
  <2>1. UNCHANGED <<host, attempt, ctxDone>> /\ step = "install_ytdlp"
    BY <1>3 DEF I!InstallYTDLP
  <2>2. CASE step' = "done"
    <3>1. lost' = lost /\ faults' = faults
      BY <1>3, <2>2 DEF I!InstallYTDLP, I!Resolves
    <3> QED
      BY <2>1, <2>2, <3>1 DEF RTypes, AttemptsCounted
  <2>3. CASE step' # "done"
    <3>1. /\ I!CannotResolve("ytdlp")
          /\ step' = IF ctxDone THEN "failed" ELSE "sleep"
          /\ lost' = IF faults' # faults THEN lost + 1 ELSE lost
      BY <1>3, <2>3 DEF I!InstallYTDLP
    <3>2. faults' = faults \/ faults' = faults + 1
      BY <3>1 DEF I!CannotResolve, I!Fault
    <3>3. RTypes'
      BY <2>1, <3>1, <3>2 DEF RTypes
    <3>4. CASE ctxDone
      BY <2>1, <3>1, <3>3, <3>4 DEF AttemptsCounted
    <3>5. CASE ~ctxDone
      <4>1. CASE faults' # faults
        <5>1. cache["ytdlp"] # "broken" /\ cache' = cache
          BY <3>1, <3>5, <4>1, RoundLost
        <5> QED
          BY <2>1, <3>1, <3>3, <3>5, <4>1, <5>1 DEF RTypes, AttemptsCounted
      <4>2. CASE faults' = faults
        <5>1. cache["ytdlp"] = "broken" /\ cache' = cache
          BY <3>1, <3>5, <4>2, RoundLost
        <5> QED
          BY <2>1, <3>1, <3>3, <3>5, <4>2, <5>1 DEF RTypes, AttemptsCounted
      <4> QED
        BY <4>1, <4>2
    <3> QED
      BY <3>4, <3>5
  <2> QED
    BY <2>2, <2>3
<1>4. CASE I!Sleep
  BY <1>4, StartupAssumption DEF StartupAssumption, I!Sleep, RTypes, AttemptsCounted
<1> QED
  BY <1>1, <1>2, <1>3, <1>4 DEF Installing, I!Next

LEMMA NextRInv == RInv /\ [Next]_vars => RInv'
<1> SUFFICES ASSUME RInv, [Next]_vars PROVE RInv'
  OBVIOUS
<1>1. CASE Installing
  BY <1>1, RetryKeeps
<1>2. CASE Die \/ Restart \/ Redeploy
  BY <1>2, StartupAssumption DEF StartupAssumption, Die, Restart, Redeploy, NewLife,
     I!Begin, RInv, RTypes, AttemptsCounted
<1>3. CASE Migrating
  <2>1. UNCHANGED ivars /\ (faults' = faults \/ faults' = faults + 1) /\ ctxDone' = ctxDone
    BY <1>3 DEF Migrating, M!Next, M!Create, M!Skip, M!BeginTx, M!Apply, M!Record, M!Commit,
       M!Finish, M!StatementFails, M!Statement
  <2> QED
    BY <2>1 DEF ivars, RInv, RTypes, AttemptsCounted
<1>4. CASE Open \/ Signal \/ Serve \/ UNCHANGED vars
  BY <1>4 DEF Open, Signal, Serve, vars, ivars, RInv, RTypes, AttemptsCounted
<1> QED
  BY <1>1, <1>2, <1>3, <1>4 DEF Next

(* Fewer lost downloads than attempts do not fail a start that was not     *)
(* told to stop (installYTDLP).                                            *)
THEOREM RetriesSuffice == Spec => []RetriesRideOut
<1>1. RInv => RetriesRideOut
  BY DEF RInv, RTypes, AttemptsCounted, RetriesRideOut
<1> QED
  BY <1>1, InitRInv, NextRInv, PTL DEF Spec

=============================================================================
