--------------------------- MODULE LifecycleProofs --------------------------
(***************************************************************************)
(* Theorems about Lifecycle: types, the error channel, the database and    *)
(* the exit code, for any pool.                                            *)
(***************************************************************************)
EXTENDS Lifecycle, FiniteSetTheorems, TLAPS

DoneComps == {c \in Comps : comp[c] = "done"}
AfterWait == main \in {"fold", "close_db", "exited"}

(* The channel holds a word of every component that is done. *)
Ledger == Len(errs) = Cardinality(DoneComps)

(* It is closed when all that were started have returned, for good. *)
ClosedLast ==
  /\ closed => AfterWait
  /\ AfterWait => \A c \in Comps : Returned(c)

(* Pipeline and bot are not started twice, and the pipeline not before the *)
(* database is open.                                                       *)
StartedOnce ==
  /\ main \in {"install", "open_db", "new_bot", "start_pipeline"} =>
       comp["pipeline"] = "off"
  /\ main \in {"install", "open_db", "new_bot", "start_pipeline", "start_bot"} =>
       comp["bot"] = "off"
  /\ main \in {"new_bot", "start_pipeline"} => db = "open"

(* The pipeline runs while run waits, its workers while it does. *)
PipelineInside ==
  /\ comp["pipeline"] = "running" => db = "open" /\ main \in {"start_bot", "wait"}
  /\ \A w \in Workers :
       worker[w] \in {"idle", "busy"} => comp["pipeline"] = "running"

(* Once folded, the errors stay what they were. *)
Folded ==
  main \in {"close_db", "exited"} =>
    (exit = "error" <=> cause = "error" \/ \E i \in DOMAIN errs : errs[i] = "error")

Types ==
  /\ main \in MainStages /\ cause \in {"none", "error"} /\ ctxDone \in BOOLEAN
  /\ comp \in [Comps -> CompStages]
  /\ worker \in [Workers -> {"off", "idle", "busy", "stopped"}]
  /\ errs \in Seq({"ok", "error"})
  /\ closed \in BOOLEAN
  /\ db \in {"none", "open", "closed"} /\ exit \in {"none", "ok", "error"}

IInv == Types /\ Ledger /\ ClosedLast /\ StartedOnce /\ PipelineInside /\ Folded

-----------------------------------------------------------------------------

LEMMA CompsCount == IsFiniteSet(Comps) /\ Cardinality(Comps) = 3
<1>1. IsFiniteSet({"probes"}) /\ Cardinality({"probes"}) = 1
  BY FS_Singleton
<1>2. {"probes", "pipeline"} = {"probes"} \cup {"pipeline"}
  OBVIOUS
<1>3. IsFiniteSet({"probes", "pipeline"}) /\ Cardinality({"probes", "pipeline"}) = 2
  BY <1>1, <1>2, FS_AddElement
<1>4. Comps = {"probes", "pipeline"} \cup {"bot"}
  BY DEF Comps
<1> QED
  BY <1>3, <1>4, FS_AddElement

(* A component that has yet to report leaves room in the channel. *)
LEMMA RoomToReport ==
  ASSUME NEW c \in Comps, comp[c] # "done"
  PROVE  IsFiniteSet(DoneComps) /\ Cardinality(DoneComps) \in 0..2
<1>1. DoneComps \subseteq Comps \ {c}
  BY DEF DoneComps
<1>2. IsFiniteSet(Comps \ {c}) /\ Cardinality(Comps \ {c}) = 2
  BY CompsCount, FS_RemoveElement
<1>3. IsFiniteSet(DoneComps) /\ Cardinality(DoneComps) <= 2
  BY <1>1, <1>2, FS_Subset
<1> QED
  BY <1>3, FS_CardinalityType

LEMMA DoneFinite == IsFiniteSet(DoneComps) /\ Cardinality(DoneComps) \in 0..3
<1>1. DoneComps \subseteq Comps
  BY DEF DoneComps
<1>2. IsFiniteSet(DoneComps) /\ Cardinality(DoneComps) <= 3
  BY <1>1, CompsCount, FS_Subset
<1> QED
  BY <1>2, FS_CardinalityType

(* No step but Report changes who is done. *)
LEMMA LedgerUndisturbed ==
  ASSUME Ledger, UNCHANGED errs,
         \A c \in Comps : comp'[c] = "done" <=> comp[c] = "done"
  PROVE  Ledger'
<1>1. DoneComps' = DoneComps
  BY DEF DoneComps
<1> QED
  BY <1>1 DEF Ledger

LEMMA InitIInv == Init => IInv
<1> SUFFICES ASSUME Init PROVE IInv
  OBVIOUS
<1>1. DoneComps = {}
  BY DEF DoneComps, Init
<1>2. Ledger
  BY <1>1, FS_EmptySet DEF Ledger, Init
<1>3. comp \in [Comps -> CompStages] /\ errs \in Seq({"ok", "error"})
  BY DEF Init, CompStages
<1>4. worker \in [Workers -> {"off", "idle", "busy", "stopped"}]
  BY DEF Init
<1>5. Types
  BY <1>3, <1>4 DEF Types, Init, MainStages
<1> QED
  BY <1>2, <1>5 DEF IInv, ClosedLast, StartedOnce, PipelineInside, Folded,
     AfterWait, Init, Comps

-----------------------------------------------------------------------------
(* One lemma for each group of steps. *)

(* run, up to the wait: nobody's word is in the channel yet that was not.  *)
LEMMA MainKeeps == IInv /\ Main => IInv'
<1> SUFFICES ASSUME IInv, Main PROVE IInv'
  OBVIOUS
<1> USE DEF IInv
<1>1. CASE Install \/ OpenDB \/ NewBot
  <2>1. comp' = comp /\ worker' = worker /\ errs' = errs /\ closed' = closed /\ exit' = exit
    BY <1>1 DEF Install, OpenDB, NewBot
  <2>2. Types'
    BY <1>1 DEF Install, OpenDB, NewBot, StartUp, Types, MainStages
  <2>3. Ledger'
    BY <2>1, LedgerUndisturbed
  <2>4. ClosedLast'
    BY <1>1, <2>1 DEF Install, OpenDB, NewBot, StartUp, ClosedLast, AfterWait
  <2>5. StartedOnce'
    BY <1>1, <2>1 DEF Install, OpenDB, NewBot, StartUp, StartedOnce
  <2>6. comp["pipeline"] = "off"
    BY <1>1 DEF Install, OpenDB, NewBot, StartUp, StartedOnce
  <2>7. PipelineInside'
    BY <2>1, <2>6 DEF PipelineInside
  <2>8. Folded'
    BY <1>1 DEF Install, OpenDB, NewBot, StartUp, Folded
  <2> QED
    BY <2>2, <2>3, <2>4, <2>5, <2>7, <2>8
<1>2. CASE StartPipeline \/ StartBot
  <2>1. /\ worker' = worker /\ errs' = errs /\ closed' = closed /\ exit' = exit
        /\ db' = db /\ cause' = cause /\ ctxDone' = ctxDone
    BY <1>2 DEF StartPipeline, StartBot, Start
  <2>2. main' \in {"start_bot", "wait"} /\ main \in {"start_pipeline", "start_bot"}
    BY <1>2 DEF StartPipeline, StartBot, Start
  <2>3. comp' \in [Comps -> CompStages]
    BY <1>2 DEF StartPipeline, StartBot, Start, Types, Comps, CompStages
  <2>4. Types'
    BY <2>1, <2>2, <2>3 DEF Types, MainStages
  <2>5. \A c \in Comps : comp'[c] = "done" <=> comp[c] = "done"
    BY <1>2 DEF StartPipeline, StartBot, Start, Types, StartedOnce, Comps
  <2>6. Ledger'
    BY <2>1, <2>5, LedgerUndisturbed
  <2>7. ClosedLast' /\ Folded'
    BY <2>1, <2>2 DEF ClosedLast, AfterWait, Folded
  <2>8. StartedOnce'
    BY <1>2 DEF StartPipeline, StartBot, Start, StartedOnce, Types, Comps
  <2>9. PipelineInside'
    BY <1>2, <2>1 DEF StartPipeline, StartBot, Start, PipelineInside, StartedOnce, Types, Comps
  <2> QED
    BY <2>4, <2>6, <2>7, <2>8, <2>9
<1>3. CASE CancelAll
  <2>1. Types'
    BY <1>3 DEF CancelAll, Types, MainStages
  <2>2. Ledger'
    BY <1>3, LedgerUndisturbed DEF CancelAll
  <2> QED
    BY <1>3, <2>1, <2>2 DEF CancelAll, ClosedLast, StartedOnce, PipelineInside, Folded, AfterWait
<1>4. CASE WaitAll
  <2>1. Types'
    BY <1>4 DEF WaitAll, Types, MainStages
  <2>2. Ledger'
    BY <1>4, LedgerUndisturbed DEF WaitAll
  <2>3. comp["pipeline"] # "running"
    BY <1>4 DEF WaitAll, Returned, Comps
  <2> QED
    BY <1>4, <2>1, <2>2, <2>3 DEF WaitAll, ClosedLast, StartedOnce, PipelineInside,
       Folded, AfterWait, Returned
<1>5. CASE Fold \/ CloseDB
  <2>1. Types'
    BY <1>5 DEF Fold, CloseDB, Types, MainStages
  <2>2. Ledger'
    BY <1>5, LedgerUndisturbed DEF Fold, CloseDB
  <2>3. comp["pipeline"] # "running"
    BY <1>5 DEF Fold, CloseDB, ClosedLast, AfterWait, Returned, Comps
  <2>4. Folded'
    BY <1>5 DEF Fold, CloseDB, Folded
  <2> QED
    BY <1>5, <2>1, <2>2, <2>3, <2>4 DEF Fold, CloseDB, ClosedLast, StartedOnce,
       PipelineInside, AfterWait, Returned
<1> QED
  BY <1>1, <1>2, <1>3, <1>4, <1>5 DEF Main

(* A component's end: it ran, so run has not gone past the wait. *)
LEMMA EndKeeps ==
  ASSUME IInv, NEW c \in Comps, NEW how \in {"failed", "finished"}, End(c, how),
         c = "pipeline" => \A w \in Workers : worker[w] \in {"off", "stopped"}
  PROVE  IInv'
<1> USE DEF IInv
<1>1. /\ comp[c] = "running" /\ comp' = [comp EXCEPT ![c] = how]
      /\ UNCHANGED <<main, cause, ctxDone, worker, errs, closed, db, exit>>
  BY DEF End
<1>2. comp' \in [Comps -> CompStages]
  BY <1>1 DEF Types, CompStages
<1>3. Types'
  BY <1>1, <1>2 DEF Types
<1>4. \A d \in Comps : comp'[d] = "done" <=> comp[d] = "done"
  BY <1>1 DEF Types
<1>5. Ledger'
  BY <1>1, <1>4, LedgerUndisturbed
<1>6. ~AfterWait
  BY <1>1 DEF ClosedLast, Returned
<1>7. ClosedLast' /\ Folded'
  BY <1>1, <1>6 DEF ClosedLast, AfterWait, Folded
<1>8. StartedOnce'
  BY <1>1 DEF StartedOnce, Types, Comps
<1>9. PipelineInside'
  BY <1>1 DEF PipelineInside, Types, Comps
<1> QED
  BY <1>3, <1>5, <1>7, <1>8, <1>9

(* A component's word: one more done, one more in the channel. *)
LEMMA ReportKeeps ==
  ASSUME IInv, NEW c \in Comps, Report(c)
  PROVE  IInv'
<1> USE DEF IInv
<1> DEFINE word == IF Failed(c) THEN "error" ELSE "ok"
<1>1. /\ comp[c] \in {"failed", "finished"} /\ comp' = [comp EXCEPT ![c] = "done"]
      /\ errs' = Append(errs, word)
      /\ UNCHANGED <<main, cause, ctxDone, worker, closed, db, exit>>
  BY DEF Report, Reporting
<1>2. errs' \in Seq({"ok", "error"}) /\ Len(errs') = Len(errs) + 1
  BY <1>1 DEF Types
<1>3. comp' \in [Comps -> CompStages]
  BY <1>1 DEF Types, CompStages
<1>4. Types'
  BY <1>1, <1>2, <1>3 DEF Types
<1>5. DoneComps' = DoneComps \cup {c} /\ c \notin DoneComps
  BY <1>1 DEF DoneComps, Types
<1>6. Cardinality(DoneComps') = Cardinality(DoneComps) + 1
  BY <1>5, DoneFinite, FS_AddElement
<1>7. Ledger'
  BY <1>2, <1>6 DEF Ledger
<1>8. ~AfterWait
  BY <1>1 DEF ClosedLast, Returned
<1>9. ClosedLast' /\ Folded'
  BY <1>1, <1>8 DEF ClosedLast, AfterWait, Folded
<1>10. StartedOnce'
  BY <1>1 DEF StartedOnce, Types, Comps
<1>11. PipelineInside'
  BY <1>1 DEF PipelineInside, Types, Comps
<1> QED
  BY <1>4, <1>7, <1>9, <1>10, <1>11

LEMMA WorkersKeep ==
  ASSUME IInv, NEW w \in Workers, TakeJob(w) \/ FinishJob(w) \/ StopWorker(w)
  PROVE  IInv'
<1> USE DEF IInv
<1>1. UNCHANGED <<main, cause, ctxDone, comp, errs, closed, db, exit>>
  BY DEF TakeJob, FinishJob, StopWorker, WorkerMoves
<1>2. \E to \in {"idle", "busy", "stopped"} :
        worker' = [worker EXCEPT ![w] = to] /\ worker[w] \in {"idle", "busy"}
  BY DEF TakeJob, FinishJob, StopWorker, WorkerMoves
<1>3. Types'
  BY <1>1, <1>2 DEF Types
<1>4. Ledger'
  BY <1>1, LedgerUndisturbed
<1>5. PipelineInside'
  BY <1>1, <1>2 DEF PipelineInside, Types
<1> QED
  BY <1>1, <1>3, <1>4, <1>5 DEF ClosedLast, AfterWait, StartedOnce, Folded, Returned

LEMMA PoolStartsKeeps == IInv /\ PoolStarts => IInv'
<1> SUFFICES ASSUME IInv, PoolStarts PROVE IInv'
  OBVIOUS
<1> USE DEF IInv
<1>1. UNCHANGED <<main, cause, ctxDone, comp, errs, closed, db, exit>>
  BY DEF PoolStarts
<1>2. Types'
  BY DEF PoolStarts, Types
<1>3. Ledger'
  BY <1>1, LedgerUndisturbed
<1>4. PipelineInside'
  BY DEF PoolStarts, PipelineInside
<1> QED
  BY <1>1, <1>2, <1>3, <1>4 DEF ClosedLast, AfterWait, StartedOnce, Folded, Returned

LEMMA IdleKeeps == IInv /\ (Signal \/ UNCHANGED vars) => IInv'
<1> SUFFICES ASSUME IInv, Signal \/ UNCHANGED vars PROVE IInv'
  OBVIOUS
<1> USE DEF IInv
<1>1. UNCHANGED <<main, cause, comp, worker, errs, closed, db, exit>>
  BY DEF Signal, vars
<1>2. Types'
  BY DEF Signal, vars, Types
<1>3. Ledger'
  BY <1>1, LedgerUndisturbed
<1> QED
  BY <1>1, <1>2, <1>3 DEF ClosedLast, AfterWait, StartedOnce, PipelineInside, Folded, Returned

LEMMA NextKeeps == IInv /\ [Next]_vars => IInv'
<1> SUFFICES ASSUME IInv, [Next]_vars PROVE IInv'
  OBVIOUS
<1>1. CASE Main
  BY <1>1, MainKeeps
<1>2. CASE ProbesFail \/ ProbesStop
  BY <1>2, EndKeeps DEF ProbesFail, ProbesStop, Comps
<1>3. CASE PipelineFails \/ PipelineStops
  BY <1>3, EndKeeps DEF PipelineFails, PipelineStops, Comps
<1>4. CASE BotStops
  BY <1>4, EndKeeps DEF BotStops, Comps
<1>5. CASE \E c \in Comps : Report(c)
  BY <1>5, ReportKeeps
<1>6. CASE PoolStarts
  BY <1>6, PoolStartsKeeps
<1>7. CASE \E w \in Workers : TakeJob(w) \/ FinishJob(w) \/ StopWorker(w)
  BY <1>7, WorkersKeep
<1>8. CASE Signal \/ Exited \/ UNCHANGED vars
  BY <1>8, IdleKeeps DEF Exited
<1> QED
  BY <1>1, <1>2, <1>3, <1>4, <1>5, <1>6, <1>7, <1>8 DEF Next, Stops

LEMMA Invariance == Spec => []IInv
  BY InitIInv, NextKeeps, PTL DEF Spec

-----------------------------------------------------------------------------

(* With room for every component, the capacity of main.go, types are       *)
(* invariant; the channel never holds more than it can.                    *)
THEOREM TypeCorrect == Components >= 3 => (Spec => []TypeOK)
<1> SUFFICES ASSUME Components >= 3 PROVE Spec => []TypeOK
  OBVIOUS
<1>1. IInv => TypeOK
  BY DoneFinite, LifecycleAssumption DEF LifecycleAssumption, IInv, Types, Ledger, TypeOK
<1> QED
  BY <1>1, Invariance, PTL

(* No component sends on the closed channel or waits for room in it        *)
(* (main.go, components and shutdown).                                     *)
THEOREM ChannelIsSafe == Components >= 3 => (Spec => []ErrsIsSafe)
<1> SUFFICES ASSUME Components >= 3 PROVE Spec => []ErrsIsSafe
  OBVIOUS
<1>1. IInv => ErrsIsSafe
  <2> SUFFICES ASSUME IInv, NEW c \in Comps, Reporting(c)
               PROVE  ~closed /\ Len(errs) < Components
    BY DEF ErrsIsSafe
  <2>1. ~closed
    BY DEF IInv, ClosedLast, Returned, Reporting
  <2>2. Len(errs) \in 0..2
    BY RoomToReport DEF IInv, Ledger, Reporting
  <2>3. \A n \in 0..2 : n < Components
    BY LifecycleAssumption DEF LifecycleAssumption
  <2> QED
    BY <2>1, <2>2, <2>3
<1> QED
  BY <1>1, Invariance, PTL

(* A worker with a job has a database, up to the last one to stop          *)
(* (main.go, defer db.Close()).                                            *)
THEOREM WorkersHaveDatabase == Spec => []DbOutlivesWorkers
<1>1. IInv => DbOutlivesWorkers
  BY DEF IInv, Types, PipelineInside, DbOutlivesWorkers
<1> QED
  BY <1>1, Invariance, PTL

(* The exit code tells whether anything failed, and every component that   *)
(* is done was heard (shutdown).                                           *)
THEOREM ExitIsHonest == Spec => []ExitTellsTheTruth
<1>1. IInv => ExitTellsTheTruth
  BY DEF IInv, Folded, Ledger, DoneComps, ExitTellsTheTruth
<1> QED
  BY <1>1, Invariance, PTL

=============================================================================
