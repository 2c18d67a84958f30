------------------------------ MODULE Pipeline ------------------------------
(***************************************************************************)
(* The bot as the code runs it: the handlers, the channel and the worker   *)
(* goroutines of JobQueue, and what handleRequest and process do with a    *)
(* request in JobRun, each step of either with what it is in the other     *)
(* (bot.go, handleRequest; service.go, Submit, worker and process).        *)
(*                                                                         *)
(* A worker that receives a job derives the job's context in the same      *)
(* step: between the receive and the derivation it only publishes the      *)
(* queue's length, and a signal that comes in between finds a context to   *)
(* cancel or is found by the one derived, which is the same.               *)
(***************************************************************************)
EXTENDS JobQueue

CONSTANTS Videos, Unplayable, Faults, MaxDeaths, NoVideo, NoFile, NoRow \* JobRun

VARIABLES stage, ctx, err, song, fileID, status, inbox, tracks, scratch,
          deaths, unheard, leftovers   \* JobRun, which shares stopping

Taken == {holds[w] : w \in Workers} \ {NoJob}
Done == {j \in Jobs : stage[j] \in {"delivered", "abandoned", "failed"}}
Left == {w \in Workers : worker[w] = "stopped"}

(* The requests, and the line and the pool these goroutines amount to;     *)
(* Songbot through SongbotProofs, whose theorems come with the definitions *)
(* (JobQueueProofs cites them).                                            *)
Bot == INSTANCE SongbotProofs WITH
       PoolSize <- Cardinality(Workers),
       line     <- queue,
       running  <- Taken,
       ended    <- Done,
       gone     <- Cardinality(Left)

ASSUME PipelineAssumption ==
  /\ Workers # {}
  /\ Unplayable \subseteq Videos /\ Faults \subseteq Bot!FaultKinds
  /\ MaxDeaths \in Nat
  /\ NoVideo \notin Videos /\ NoFile \notin Jobs /\ NoRow \notin Jobs \cup {NoFile}

requests == <<stage, ctx, err, song, fileID, status, inbox, tracks, scratch,
              deaths, unheard, leftovers>>
pvars == <<vars, requests>>

-----------------------------------------------------------------------------
(* handleRequest *)

Arrive(j) == (Bot!Drop(j) \/ Bot!PlaceStatus(j)) /\ UNCHANGED vars

Answer(j) == Bot!TellRefused(j) /\ UNCHANGED vars

(* Submit, on the goroutine of the handler. *)
Accepted(j) == Enqueue(j) /\ Bot!Submit(j) /\ stage'[j] = "queued"

Rejected(j) ==
  /\ RateLimited(j) \/ QueueFull(j)
  /\ Bot!Submit(j) /\ stage'[j] = "refusing"

Submitted(j) ==
  \/ stage[j] = "placed" /\ Admit(j) /\ UNCHANGED requests
  \/ Accepted(j) \/ Rejected(j)
  \/ (HandlerMeasures(j) \/ HandlerPublishes(j)) /\ UNCHANGED requests

-----------------------------------------------------------------------------
(* worker and process *)

Receive(w) == Take(w) /\ Bot!Begin(Head(queue))

Publish(w) == (WorkerMeasures(w) \/ WorkerPublishes(w)) /\ UNCHANGED requests

(* Mutant: process runs on a goroutine of its own. *)
ProcessAside(w) ==
  \/ worker[w] = "busy" /\ Release(w) /\ Bot!Run(holds[w])
  \/ \E j \in Jobs : j \notin Taken /\ Bot!Run(j) /\ UNCHANGED vars

(* process, call by call; its return brings the worker back to its select. *)
Process(w) ==
  /\ worker[w] = "busy"
  /\ Bot!Run(holds[w])
  /\ IF stage'[holds[w]] \in Bot!Final THEN Release(w) ELSE UNCHANGED vars

Leave(w) == StopWorker(w) /\ UNCHANGED requests

-----------------------------------------------------------------------------
(* The clock, the signal and the end of the process. *)

Elapse(j) == (Bot!ReportProgress(j) \/ Bot!Expire(j)) /\ UNCHANGED vars

Earn == Refill /\ UNCHANGED requests

Signal == Cancel /\ Bot!Shutdown

(* Channel, goroutines and budgets are the process's, and begin anew. *)
Restart ==
  /\ Bot!Die
  /\ queue' = <<>> /\ accepted' = <<>> /\ started' = <<>>
  /\ handler' = [j \in Jobs |-> "idle"]
  /\ worker' = [w \in Workers |-> "select"]
  /\ holds' = [w \in Workers |-> NoJob]
  /\ seen' = [p \in Jobs \cup Workers |-> 0]
  /\ gauge' = 0
  /\ budget' = [u \in Users |-> Burst]

(* Run has returned. *)
Ended == Left = Workers /\ UNCHANGED pvars

PInit == Init /\ Bot!Init

PNext ==
  \/ \E j \in Jobs : Arrive(j) \/ Submitted(j) \/ Answer(j) \/ Elapse(j)
  \/ \E w \in Workers : Receive(w) \/ Publish(w) \/ Process(w) \/ Leave(w)
  \/ Earn
  \/ Signal
  \/ Restart
  \/ Ended

PSpec == PInit /\ [][PNext]_pvars

-----------------------------------------------------------------------------

(* What channel and goroutines do to the requests is what Songbot says:    *)
(* a line that loses and reorders nothing, a worker for every job begun,   *)
(* none for a job that ended, and a pool that empties (service.go).        *)
ImplementsSongbot == Bot!SSpec

=============================================================================
