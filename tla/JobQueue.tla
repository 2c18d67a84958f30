----------------------------- MODULE JobQueue ------------------------------
(***************************************************************************)
(* The queue and the worker pool of internal/downloader/service.go:        *)
(* Submit, called by one goroutine per Telegram update, and the worker     *)
(* loop.  What a worker does with a job (process) is one busy spell here;  *)
(* JobRun.tla opens it up.                                                 *)
(*                                                                         *)
(* Submit is cut at every access to shared state: the user's budget, the   *)
(* channel, and the two halves of metrics.SetQueueDepth(len(s.jobs)), the  *)
(* read of the length and the store of the gauge.  The worker's take is    *)
(* cut in the same way.  The request counters change in the step that      *)
(* decides the answer and are read off the handler's state.                *)
(*                                                                         *)
(* A user's budget is that of Tokens.tla, by which UserLimiter.tla is      *)
(* shown to answer: spent one token a request, earned back at any time.    *)
(***************************************************************************)
EXTENDS Integers, Sequences, FiniteSets

CONSTANTS
  Jobs,       \* the requests that arrive
  Users,
  UserOf,     \* who sends which
  Workers,    \* the pool, limits.Workers goroutines
  QueueSize,  \* cap(s.jobs)
  Burst,      \* limits.UserBurst
  NoJob       \* what an unoccupied worker holds

ASSUME QueueAssumption ==
  /\ UserOf \in [Jobs -> Users]
  /\ QueueSize \in Nat \ {0}
  /\ Burst \in Nat \ {0}
  /\ IsFiniteSet(Workers)
  /\ NoJob \notin Jobs
  /\ Jobs \cap Workers = {}

VARIABLES
  queue,      \* the channel s.jobs
  handler,    \* how far the call of Submit for each job is
  worker,     \* how far each worker's loop is
  holds,      \* the job each worker has taken
  seen,       \* the length a handler or worker read and has yet to publish, or 0
  gauge,      \* metrics.queueDepth
  budget,     \* tokens left per user
  stopping,   \* ctx.Done() is closed
  accepted,   \* history: jobs sent into the channel, in order
  started     \* history: jobs received from it, in order

vars == <<queue, handler, worker, holds, seen, gauge, budget, stopping,
          accepted, started>>

HandlerStates == {"idle", "admitted", "sent", "measured", "accepted", "rejected"}
WorkerStates == {"select", "took", "measured", "busy", "stopped"}

Elements(s) == {s[i] : i \in DOMAIN s}

Tok == INSTANCE Tokens WITH tokens <- budget

-----------------------------------------------------------------------------
(* Submit *)

(* s.users.allow consumes a token ... *)
Admit(j) ==
  /\ handler[j] = "idle"
  /\ Tok!Spend(UserOf[j])
  /\ handler' = [handler EXCEPT ![j] = "admitted"]
  /\ UNCHANGED <<queue, worker, holds, seen, gauge, stopping, accepted, started>>

(* ... or finds none: ErrRateLimited. *)
RateLimited(j) ==
  /\ handler[j] = "idle"
  /\ Tok!Deny(UserOf[j])
  /\ handler' = [handler EXCEPT ![j] = "rejected"]
  /\ UNCHANGED <<queue, worker, holds, seen, gauge, stopping, accepted, started>>

(* Mutant: a queue without a limit. *)
EnqueueUnbounded(j) ==
  /\ handler[j] = "admitted"
  /\ queue' = Append(queue, j)
  /\ accepted' = Append(accepted, j)
  /\ handler' = [handler EXCEPT ![j] = "sent"]
  /\ UNCHANGED <<worker, holds, seen, gauge, budget, stopping, started>>

(* case s.jobs <- job *)
Enqueue(j) ==
  /\ handler[j] = "admitted"
  /\ Len(queue) < QueueSize
  /\ queue' = Append(queue, j)
  /\ accepted' = Append(accepted, j)
  /\ handler' = [handler EXCEPT ![j] = "sent"]
  /\ UNCHANGED <<worker, holds, seen, gauge, budget, stopping, started>>

(* Mutant: no default case, the send waits for room. *)
SendBlocks(j) == handler[j] = "admitted" /\ Len(queue) = QueueSize /\ FALSE

(* default: ErrQueueFull.  The token stays spent. *)
QueueFull(j) ==
  /\ handler[j] = "admitted"
  /\ Len(queue) = QueueSize
  /\ handler' = [handler EXCEPT ![j] = "rejected"]
  /\ UNCHANGED <<queue, worker, holds, seen, gauge, budget, stopping, accepted,
                 started>>

(* IncRequest, and len(s.jobs) ... *)
HandlerMeasures(j) ==
  /\ handler[j] = "sent"
  /\ seen' = [seen EXCEPT ![j] = Len(queue)]
  /\ handler' = [handler EXCEPT ![j] = "measured"]
  /\ UNCHANGED <<queue, worker, holds, gauge, budget, stopping, accepted, started>>

(* ... is stored, and Submit returns nil. *)
HandlerPublishes(j) ==
  /\ handler[j] = "measured"
  /\ gauge' = seen[j]
  /\ seen' = [seen EXCEPT ![j] = 0]
  /\ handler' = [handler EXCEPT ![j] = "accepted"]
  /\ UNCHANGED <<queue, worker, holds, budget, stopping, accepted, started>>

Submit(j) ==
  \/ Admit(j) \/ RateLimited(j)
  \/ Enqueue(j) \/ QueueFull(j)
  \/ HandlerMeasures(j) \/ HandlerPublishes(j)

-----------------------------------------------------------------------------
(* worker.  With its context done and a job in the channel, select picks   *)
(* either case.                                                            *)

(* Mutant: last come, first served. *)
TakeLast(w) ==
  /\ worker[w] = "select"
  /\ queue # <<>>
  /\ holds' = [holds EXCEPT ![w] = queue[Len(queue)]]
  /\ started' = Append(started, queue[Len(queue)])
  /\ queue' = SubSeq(queue, 1, Len(queue) - 1)
  /\ worker' = [worker EXCEPT ![w] = "took"]
  /\ UNCHANGED <<handler, seen, gauge, budget, stopping, accepted>>

Take(w) ==
  /\ worker[w] = "select"
  /\ queue # <<>>
  /\ holds' = [holds EXCEPT ![w] = Head(queue)]
  /\ started' = Append(started, Head(queue))
  /\ queue' = Tail(queue)
  /\ worker' = [worker EXCEPT ![w] = "took"]
  /\ UNCHANGED <<handler, seen, gauge, budget, stopping, accepted>>

WorkerMeasures(w) ==
  /\ worker[w] = "took"
  /\ seen' = [seen EXCEPT ![w] = Len(queue)]
  /\ worker' = [worker EXCEPT ![w] = "measured"]
  /\ UNCHANGED <<queue, handler, holds, gauge, budget, stopping, accepted, started>>

WorkerPublishes(w) ==
  /\ worker[w] = "measured"
  /\ gauge' = seen[w]
  /\ seen' = [seen EXCEPT ![w] = 0]
  /\ worker' = [worker EXCEPT ![w] = "busy"]
  /\ UNCHANGED <<queue, handler, holds, budget, stopping, accepted, started>>

(* process returns. *)
Release(w) ==
  /\ worker[w] = "busy"
  /\ holds' = [holds EXCEPT ![w] = NoJob]
  /\ worker' = [worker EXCEPT ![w] = "select"]
  /\ UNCHANGED <<queue, handler, seen, gauge, budget, stopping, accepted, started>>

(* case <-ctx.Done() *)
StopWorker(w) ==
  /\ worker[w] = "select"
  /\ stopping
  /\ worker' = [worker EXCEPT ![w] = "stopped"]
  /\ UNCHANGED <<queue, handler, holds, seen, gauge, budget, stopping, accepted,
                 started>>

Work(w) ==
  \/ Take(w) \/ WorkerMeasures(w) \/ WorkerPublishes(w)
  \/ Release(w) \/ StopWorker(w)

-----------------------------------------------------------------------------
(* The environment: time earns tokens, a signal cancels the context. *)

Refill ==
  /\ Tok!Earn
  /\ UNCHANGED <<queue, handler, worker, holds, seen, gauge, stopping, accepted,
                 started>>

Cancel ==
  /\ ~stopping
  /\ stopping' = TRUE
  /\ UNCHANGED <<queue, handler, worker, holds, seen, gauge, budget, accepted,
                 started>>

(* Run returns once every worker has; requests may still be turned in. *)
Stopped ==
  /\ \A w \in Workers : worker[w] = "stopped"
  /\ \A j \in Jobs : handler[j] \in {"accepted", "rejected"}
  /\ UNCHANGED vars

Init ==
  /\ queue = <<>>
  /\ handler = [j \in Jobs |-> "idle"]
  /\ worker = [w \in Workers |-> "select"]
  /\ holds = [w \in Workers |-> NoJob]
  /\ seen = [p \in Jobs \cup Workers |-> 0]
  /\ gauge = 0
  /\ Tok!Init
  /\ stopping = FALSE
  /\ accepted = <<>>
  /\ started = <<>>

Next ==
  \/ \E j \in Jobs : Submit(j)
  \/ \E w \in Workers : Work(w)
  \/ Refill
  \/ Cancel
  \/ Stopped

Spec == Init /\ [][Next]_vars

-----------------------------------------------------------------------------

TypeOK ==
  /\ queue \in Seq(Jobs)
  /\ handler \in [Jobs -> HandlerStates]
  /\ worker \in [Workers -> WorkerStates]
  /\ holds \in [Workers -> Jobs \cup {NoJob}]
  /\ seen \in [Jobs \cup Workers -> 0..QueueSize]
  /\ gauge \in 0..QueueSize
  /\ budget \in [Users -> 0..Burst]
  /\ stopping \in BOOLEAN
  /\ accepted \in Seq(Jobs)
  /\ started \in Seq(Jobs)

(* The channel neither loses, duplicates nor reorders: what was accepted   *)
(* is what was taken up followed by what still waits (service.go, the      *)
(* buffered channel between Submit and the workers).                       *)
NothingLost == accepted = started \o queue

(* Every job enters the channel once, so none is run again after it was    *)
(* finished (service.go, Submit).                                          *)
AcceptedOnce ==
  \A i, k \in DOMAIN accepted : accepted[i] = accepted[k] => i = k

(* No two workers ever run the same request (service.go, worker).          *)
NoSharedJob ==
  \A v, w \in Workers : holds[v] = holds[w] => v = w \/ holds[w] = NoJob

(* The pipeline is a bounded first-come first-served line. *)
WQ == INSTANCE WorkQueue WITH
        PoolSize <- Cardinality(Workers),
        waiting  <- queue,
        running  <- {holds[w] : w \in Workers} \ {NoJob},
        finished <- Elements(started) \ {holds[w] : w \in Workers}
ImplementsWorkQueue == WQ!Spec

(* "It never blocks" (Submit's comment): a request in Submit can go on to  *)
(* its answer in every state, whatever queue and workers do.               *)
Submitting(j) == handler[j] \notin {"idle", "accepted", "rejected"}
SubmitNeverBlocks == \A j \in Jobs : Submitting(j) => ENABLED Submit(j)

-----------------------------------------------------------------------------
(* A statement of the documentation that the code does not keep. *)

(* config.go: UserBurst "doubles as the cap on how many jobs one user may  *)
(* have in flight".                                                        *)
InFlight(u) ==
  {j \in Elements(queue) \cup {holds[w] : w \in Workers} : j # NoJob /\ UserOf[j] = u}
InFlightCapped == \A u \in Users : Cardinality(InFlight(u)) <= Burst

=============================================================================
