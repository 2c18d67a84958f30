------------------------------ MODULE Songbot -------------------------------
(***************************************************************************)
(* The bot and the pipeline together: requests as in JobRun, which wait in *)
(* the line WorkQueue promises (JobQueue shows the channel and the pool to *)
(* keep that promise) and are run by workers that leave when the process   *)
(* is told to stop (service.go, Submit, worker and Run).                   *)
(***************************************************************************)
EXTENDS JobRun

CONSTANT QueueSize   \* limits.QueueSize

ASSUME SongbotAssumption == QueueSize \in Nat \ {0}

VARIABLES
  line,     \* the channel
  running,  \* jobs workers hold
  ended,    \* jobs workers are done with
  gone      \* how many workers have left their loop

svars == <<vars, line, running, ended, gone>>

L == INSTANCE WorkQueue WITH waiting <- line, finished <- ended

Still == UNCHANGED <<line, running, ended, gone>>

(* A worker that is at its select. *)
Free == Cardinality(running) + gone < PoolSize

(* handleRequest; Submit puts the job into the line or turns it away. *)
HandleRequest(j) ==
  /\ Handle(j)
  /\ IF stage'[j] = "queued" THEN L!Accept(j) ELSE UNCHANGED <<line, running, ended>>
  /\ UNCHANGED gone

(* worker: case job := <-s.jobs. *)
StartJob(j) ==
  /\ Free
  /\ line # <<>> /\ Head(line) = j
  /\ Begin(j)
  /\ L!Start
  /\ UNCHANGED gone

(* Mutant: a job dropped in silence keeps its worker. *)
RunJobForgetting(j) ==
  /\ Run(j)
  /\ IF stage'[j] \in Final \ {"abandoned"} THEN L!Finish(j) ELSE UNCHANGED <<line, running, ended>>
  /\ UNCHANGED gone

RunJob(j) ==
  /\ Run(j)
  /\ IF stage'[j] \in Final THEN L!Finish(j) ELSE UNCHANGED <<line, running, ended>>
  /\ UNCHANGED gone

(* Mutant: a default case that ends the loop. *)
LeaveIdle ==
  /\ stopping \/ line = <<>>
  /\ Free
  /\ gone' = gone + 1
  /\ UNCHANGED <<vars, line, running, ended>>

(* Mutant: a plain receive, deaf to the context. *)
LeaveNever == stopping /\ FALSE

(* worker: case <-ctx.Done(), whatever is still in the line. *)
Leave ==
  /\ stopping
  /\ Free
  /\ gone' = gone + 1
  /\ UNCHANGED <<vars, line, running, ended>>

(* A new process has an empty channel and a full pool. *)
DieAndRestart ==
  /\ Die
  /\ line' = <<>>
  /\ running' = {}
  /\ gone' = 0
  /\ UNCHANGED ended

(* Run has returned and the process exits; what still waits goes with it. *)
Stopped == stopping /\ gone = PoolSize /\ UNCHANGED svars

SInit == Init /\ L!Init /\ gone = 0

SNext ==
  \/ \E j \in Jobs : \/ HandleRequest(j) \/ StartJob(j) \/ RunJob(j)
                     \/ (ReportProgress(j) \/ Expire(j)) /\ Still
  \/ Leave
  \/ (Shutdown \/ Done) /\ Still
  \/ DieAndRestart
  \/ Stopped

SSpec == SInit /\ [][SNext]_svars

(* A handler inside Submit or its last edit, a worker with a job and a     *)
(* worker that could take one are scheduled.  One that comes back to its   *)
(* select again and again with ctx done leaves now and then.               *)
FairSSpec ==
  /\ SSpec
  /\ \A j \in Jobs : /\ WF_svars(stage[j] # "new" /\ HandleRequest(j))
                     /\ WF_svars(RunJob(j))
                     /\ WF_svars(StartJob(j))
  /\ SF_svars(Leave)

-----------------------------------------------------------------------------

(* Line and pool are what the requests' stages say: no worker is lost to a *)
(* job that has ended, no job waits that was begun (service.go, worker).   *)
LineMatches ==
  /\ {line[i] : i \in DOMAIN line} = {j \in Jobs : stage[j] = "queued"}
  /\ Len(line) <= QueueSize
  /\ running = {j \in Jobs : stage[j] \in InHand}
  /\ gone \in 0..PoolSize /\ Cardinality(running) + gone <= PoolSize

(* From the placeholder to the answer: a request the bot has acknowledged  *)
(* comes to an end unless the process is told to stop or dies, through     *)
(* every failure on the way and whoever else is waiting (handleRequest,    *)
(* worker, process).                                                       *)
AcceptedIsAnswered ==
  \A j \in Jobs : stage[j] # "new" ~> stage[j] \in Final \/ stopping

(* Told to stop, the bot begins no send, whatever workers are in the       *)
(* middle of and whatever they still take from the line; only a send that  *)
(* was under way may still post, which is what the deployment grants it    *)
(* time for (Service.process: the job's context is a child of the          *)
(* process's; Bot.send; k8s/bot/deployment.yaml, the grace period).        *)
StopMeansStop ==
  [][stopping => \A j \in Jobs :
       /\ stage'[j] \in Sending => stage[j] \in Sending
       /\ inbox'[j] # inbox[j] => stage[j] \in Sending]_svars

(* Told to stop, the pool ends, with requests still waiting and others     *)
(* still coming in (Service.Run, wg.Wait).                                 *)
PoolEnds == stopping ~> gone = PoolSize \/ ~stopping

=============================================================================
