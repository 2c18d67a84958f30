----------------------------- MODULE Lifecycle ------------------------------
(***************************************************************************)
(* How the process starts, serves and stops: run and shutdown of           *)
(* cmd/songbot/main.go, the three components it waits for (health.Run,     *)
(* the pipeline's Run with its workers, bot.Run) and the database they     *)
(* share.  A component hands its error over on the channel errs when it    *)
(* returns; shutdown waits for all that were started, closes the channel   *)
(* and folds the errors into the exit code.                                *)
(***************************************************************************)
EXTENDS Integers, Sequences, FiniteSets

CONSTANTS
  Workers,     \* goroutines of the pool
  Components   \* capacity of errs, the constant components of main.go

ASSUME LifecycleAssumption ==
  /\ Components \in Nat
  /\ IsFiniteSet(Workers)

Comps == {"probes", "pipeline", "bot"}

VARIABLES
  main,      \* where run is
  cause,     \* what shutdown is called with
  ctxDone,   \* ctx is cancelled, by a signal or by shutdown
  comp,      \* each component's goroutine
  worker,    \* each worker of the pipeline
  errs,      \* the channel
  closed,    \* whether it was closed
  db,        \* the database handle
  exit       \* the exit code, once there is one

vars == <<main, cause, ctxDone, comp, worker, errs, closed, db, exit>>

MainStages == {"install", "open_db", "new_bot", "start_pipeline", "start_bot",
               "cancel", "wait", "fold", "close_db", "exited"}
CompStages == {"off", "running", "failed", "finished", "done"}

Failed(c) == comp[c] = "failed"
Reporting(c) == comp[c] \in {"failed", "finished"}
Returned(c) == comp[c] \in {"off", "done"}

-----------------------------------------------------------------------------
(* run.                                                                    *)

(* A step of the start-up: on to the next, or to shutdown with the error.  *)
StartUp(at, next) ==
  /\ main = at
  /\ \/ main' = next /\ UNCHANGED cause
     \/ main' = "cancel" /\ cause' = "error"

Install ==
  /\ StartUp("install", "open_db")
  /\ UNCHANGED <<ctxDone, comp, worker, errs, closed, db, exit>>

OpenDB ==
  /\ StartUp("open_db", "new_bot")
  /\ db' = IF main' = "new_bot" THEN "open" ELSE db
  /\ UNCHANGED <<ctxDone, comp, worker, errs, closed, exit>>

NewBot ==
  /\ StartUp("new_bot", "start_pipeline")
  /\ UNCHANGED <<ctxDone, comp, worker, errs, closed, db, exit>>

Start(at, c, next) ==
  /\ main = at
  /\ comp' = [comp EXCEPT ![c] = "running"]
  /\ main' = next
  /\ UNCHANGED <<cause, ctxDone, worker, errs, closed, db, exit>>

StartPipeline == Start("start_pipeline", "pipeline", "start_bot")

(* The bot, and shutdown with a nil cancel. *)
StartBot == Start("start_bot", "bot", "wait")

(* shutdown: cancel ... *)
CancelAll ==
  /\ main = "cancel"
  /\ ctxDone' = TRUE
  /\ main' = "wait"
  /\ UNCHANGED <<cause, comp, worker, errs, closed, db, exit>>

(* Mutant: nothing is waited for. *)
WaitNone ==
  /\ main = "wait"
  /\ closed' = TRUE
  /\ main' = "fold"
  /\ UNCHANGED <<cause, ctxDone, comp, worker, errs, db, exit>>

(* Mutant: the pipeline is started outside the wait group. *)
WaitForTwo ==
  /\ main = "wait"
  /\ Returned("probes") /\ Returned("bot")
  /\ closed' = TRUE
  /\ main' = "fold"
  /\ UNCHANGED <<cause, ctxDone, comp, worker, errs, db, exit>>

(* ... wg.Wait and close(errs) ... *)
WaitAll ==
  /\ main = "wait"
  /\ \A c \in Comps : Returned(c)
  /\ closed' = TRUE
  /\ main' = "fold"
  /\ UNCHANGED <<cause, ctxDone, comp, worker, errs, db, exit>>

(* Mutant: only the start-up's error counts. *)
FoldCause ==
  /\ main = "fold"
  /\ exit' = IF cause = "error" THEN "error" ELSE "ok"
  /\ main' = "close_db"
  /\ UNCHANGED <<cause, ctxDone, comp, worker, errs, closed, db>>

(* ... and the errors joined. *)
Fold ==
  /\ main = "fold"
  /\ exit' = IF cause = "error" \/ \E i \in DOMAIN errs : errs[i] = "error"
               THEN "error" ELSE "ok"
  /\ main' = "close_db"
  /\ UNCHANGED <<cause, ctxDone, comp, worker, errs, closed, db>>

(* run's deferred calls, then main's exit. *)
CloseDB ==
  /\ main = "close_db"
  /\ db' = IF db = "open" THEN "closed" ELSE db
  /\ ctxDone' = TRUE
  /\ main' = "exited"
  /\ UNCHANGED <<cause, comp, worker, errs, closed, exit>>

Main ==
  \/ Install \/ OpenDB \/ NewBot \/ StartPipeline \/ StartBot
  \/ CancelAll \/ WaitAll \/ Fold \/ CloseDB

-----------------------------------------------------------------------------
(* The components.                                                         *)

End(c, how) ==
  /\ comp[c] = "running"
  /\ comp' = [comp EXCEPT ![c] = how]
  /\ UNCHANGED <<main, cause, ctxDone, worker, errs, closed, db, exit>>

(* health.Run: the listener fails, or ctx is done and it is drained, in    *)
(* time or not.                                                            *)
ProbesFail == End("probes", "failed")
ProbesStop == ctxDone /\ End("probes", "finished")

(* Run of the pipeline: no work directory ... *)
PipelineFails ==
  /\ \A w \in Workers : worker[w] = "off"
  /\ End("pipeline", "failed")

(* ... or a pool of workers ... *)
PoolStarts ==
  /\ comp["pipeline"] = "running"
  /\ \A w \in Workers : worker[w] = "off"
  /\ worker' = [w \in Workers |-> "idle"]
  /\ UNCHANGED <<main, cause, ctxDone, comp, errs, closed, db, exit>>

(* ... that it waits for. *)
PipelineStops ==
  /\ \A w \in Workers : worker[w] = "stopped"
  /\ End("pipeline", "finished")

(* Mutant: nobody calls Stop. *)
BotStays == comp["bot"] = "running" /\ UNCHANGED vars

(* bot.Start returns when the goroutine that waits for ctx calls Stop. *)
BotStops == ctxDone /\ End("bot", "finished")

(* errs <- ... and the goroutine is gone. *)
Report(c) ==
  /\ Reporting(c)
  /\ Len(errs) < Components
  /\ errs' = Append(errs, IF Failed(c) THEN "error" ELSE "ok")
  /\ comp' = [comp EXCEPT ![c] = "done"]
  /\ UNCHANGED <<main, cause, ctxDone, worker, closed, db, exit>>

Stops == ProbesStop \/ PipelineStops \/ BotStops \/ \E c \in Comps : Report(c)

(* A worker takes a job, finishes one, or sees that ctx is done. *)
WorkerMoves(w, from, to) ==
  /\ worker[w] = from
  /\ worker' = [worker EXCEPT ![w] = to]
  /\ UNCHANGED <<main, cause, ctxDone, comp, errs, closed, db, exit>>

TakeJob(w) == WorkerMoves(w, "idle", "busy")
FinishJob(w) == WorkerMoves(w, "busy", "idle")
StopWorker(w) == ctxDone /\ WorkerMoves(w, "idle", "stopped")

-----------------------------------------------------------------------------

Signal ==
  /\ ~ctxDone
  /\ ctxDone' = TRUE
  /\ UNCHANGED <<main, cause, comp, worker, errs, closed, db, exit>>

Exited == main = "exited" /\ UNCHANGED vars

(* The probe server's goroutine is started before anything can fail. *)
Init ==
  /\ main = "install"
  /\ cause = "none"
  /\ ctxDone = FALSE
  /\ comp = [c \in Comps |-> IF c = "probes" THEN "running" ELSE "off"]
  /\ worker = [w \in Workers |-> "off"]
  /\ errs = <<>>
  /\ closed = FALSE
  /\ db = "none"
  /\ exit = "none"

Next ==
  \/ Main
  \/ ProbesFail \/ PipelineFails \/ PoolStarts \/ Stops
  \/ \E w \in Workers : TakeJob(w) \/ FinishJob(w) \/ StopWorker(w)
  \/ Signal
  \/ Exited

Spec == Init /\ [][Next]_vars

(* Every goroutine runs.  A select between a job and ctx.Done() picks each *)
(* now and then: a worker that could stop again and again does.            *)
FairSpec ==
  /\ Spec
  /\ WF_vars(Main)
  /\ WF_vars(PipelineFails \/ PoolStarts)
  /\ WF_vars(ProbesStop) /\ WF_vars(PipelineStops) /\ WF_vars(BotStops)
  /\ \A c \in Comps : WF_vars(Report(c))
  /\ \A w \in Workers : WF_vars(FinishJob(w)) /\ SF_vars(StopWorker(w))

-----------------------------------------------------------------------------

TypeOK ==
  /\ main \in MainStages
  /\ cause \in {"none", "error"}
  /\ ctxDone \in BOOLEAN
  /\ comp \in [Comps -> CompStages]
  /\ worker \in [Workers -> {"off", "idle", "busy", "stopped"}]
  /\ errs \in Seq({"ok", "error"}) /\ Len(errs) <= Components
  /\ closed \in BOOLEAN
  /\ db \in {"none", "open", "closed"}
  /\ exit \in {"none", "ok", "error"}

(* No component ever sends on the closed channel, which would panic, and   *)
(* none ever waits for room in it (main.go, components and shutdown).      *)
ErrsIsSafe ==
  \A c \in Comps : Reporting(c) => ~closed /\ Len(errs) < Components

(* A worker with a job has a database to look up and save in, up to the    *)
(* last one to stop (main.go, defer db.Close()).                           *)
DbOutlivesWorkers ==
  \A w \in Workers : worker[w] # "off" /\ db # "open" => worker[w] = "stopped"

(* No error is lost on the way to the exit code, nor made up (shutdown).   *)
ExitTellsTheTruth ==
  main = "exited" =>
    (exit = "error" <=> cause = "error" \/ \E i \in DOMAIN errs : errs[i] = "error")
    /\ Len(errs) = Cardinality({c \in Comps : comp[c] = "done"})

(* A process that is cancelled exits, wherever the start-up, the           *)
(* components and the workers are at that moment, and so does one whose    *)
(* start-up fails, with nobody sending a signal (run and shutdown).        *)
CancelEnds == ctxDone \/ cause = "error" ~> main = "exited"

=============================================================================
