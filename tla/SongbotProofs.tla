--------------------------- MODULE SongbotProofs ----------------------------
(***************************************************************************)
(* Theorems about Songbot, for every set of requests and videos, every     *)
(* pool, every queue and every combination of faults.  Alone or in the     *)
(* line, a request makes the steps of JobRun, so what JobRunProofs proves  *)
(* of it holds here; the rest is about line, pool and stop.                *)
(***************************************************************************)
EXTENDS Songbot, JobRunProofs, FiniteSetTheorems

Queued == {j \in Jobs : stage[j] = "queued"}
Busy == {j \in Jobs : stage[j] \in InHand}

(* Each job waits in one place of the line only.                           *)
Distinct(q) == \A i, k \in DOMAIN q : q[i] = q[k] => i = k

LineInv ==
  /\ line \in Seq(Jobs)
  /\ Distinct(line)
  /\ {line[i] : i \in DOMAIN line} = Queued
  /\ Len(line) <= QueueSize

PoolInv ==
  /\ running = Busy
  /\ IsFiniteSet(running)
  /\ gone \in 0..PoolSize
  /\ Cardinality(running) + gone <= PoolSize

(* The signal reaches every job, also those begun after it.                *)
AllCancelled == stopping => \A j \in Jobs : ~Live(j)

-----------------------------------------------------------------------------
(* Steps of the composition are steps of JobRun.                           *)

LEMMA StepsOfJobRun == [SNext]_svars => [Next]_vars
  BY DEF SNext, svars, HandleRequest, StartJob, RunJob, Leave, DieAndRestart,
         Stopped, Next, vars

(* A request in the line behaves as it does alone; the theorems about      *)
(* JobRun hold of the whole (handleRequest, Submit, worker, process).      *)
THEOREM RequestsAsAlone == SSpec => Spec
<1>1. SInit => Init
  BY DEF SInit
<1> QED
  BY <1>1, StepsOfJobRun, PTL DEF SSpec, Spec

(* So queue, pool and stop together keep the promise of SongDelivery.      *)
THEOREM PromiseSurvivesQueue == SSpec => ImplementsSongDelivery
  BY RequestsAsAlone, CodeKeepsPromise

LEMMA StagesKnown == SSpec => []IInv
  BY RequestsAsAlone, Invariance

-----------------------------------------------------------------------------
(* What the steps of a request do to its stage and its context.            *)

LEMMA HandlerOutside ==
  ASSUME IInv, NEW j \in Jobs, Handle(j)
  PROVE  /\ stage[j] \in {"new", "placed", "refusing"}
         /\ stage'[j] \in {"dropped", "placed", "queued", "refusing", "refused"}
         /\ ctx' = ctx /\ inbox' = inbox /\ stopping' = stopping
  BY DEF Handle, Drop, PlaceStatus, Submit, TellRefused, Goto, IInv, TypeOK, process

LEMMA BeginEnters ==
  ASSUME IInv, NEW j \in Jobs, Begin(j)
  PROVE  /\ stage[j] = "queued" /\ stage'[j] \in {"searching", "resolve"}
         /\ inbox' = inbox /\ stopping' = stopping
         /\ ctx'[j] = "live" => ~stopping
  BY DEF Begin, Goto, IInv, TypeOK, process

LEMMA RunStays ==
  ASSUME IInv, NEW j \in Jobs, Run(j)
  PROVE  /\ stage[j] \in InHand
         /\ stage'[j] \in InHand \cup Final
         /\ stopping' = stopping
         /\ ctx'[j] = "live" => Live(j)
<1> USE DEF Goto, IInv, TypeOK, process, InHand, Final, Fetching, Sending, Live,
            Abort, CtxDone, WaitTooLong
<1>1. CASE Searching(j) \/ AnnounceDownload(j) \/ NoteUpload(j)
  BY <1>1 DEF Searching, AnnounceDownload, NoteUpload, Announce
<1>2. CASE Search(j) \/ Resolve(j) \/ Lookup(j)
  BY <1>2 DEF Search, NoMatch, YtdlpFails, Resolve, Lookup
<1>3. CASE Resend(j) \/ Repost(j) \/ Deliver(j) \/ Upload(j)
  BY <1>3 DEF Resend, Repost, Deliver, Upload, StartSend, SendFails
<1>4. CASE Mkdir(j) \/ Download(j) \/ ClearStatus(j) \/ Save(j) \/ Cleanup(j)
  BY <1>4 DEF Mkdir, Download, NoOutput, TooLarge, YtdlpFails, ClearStatus, Save,
              Cleanup
<1>5. CASE Settle(j) \/ Notify(j)
  BY <1>5 DEF Settle, Outcome, Notify
<1> QED
  BY <1>1, <1>2, <1>3, <1>4, <1>5 DEF Run

(* Only a live context enters a send, and only a send posts.               *)
LEMMA SendsNeedContext ==
  ASSUME IInv, NEW j \in Jobs, Run(j)
  PROVE  /\ stage[j] \notin Sending => inbox' = inbox
         /\ ~Live(j) /\ stage'[j] \in Sending => stage[j] \in Sending
<1> USE DEF Goto, IInv, TypeOK, Sending, Abort, CtxDone, WaitTooLong
<1>1. CASE Searching(j) \/ AnnounceDownload(j) \/ NoteUpload(j)
  BY <1>1 DEF Searching, AnnounceDownload, NoteUpload, Announce
<1>2. CASE Search(j) \/ Resolve(j) \/ Lookup(j)
  BY <1>2 DEF Search, NoMatch, YtdlpFails, Resolve, Lookup
<1>3. CASE Resend(j) \/ Deliver(j)
  BY <1>3 DEF Resend, Deliver, StartSend
<1>4. CASE Repost(j) \/ Upload(j)
  BY <1>4 DEF Repost, Upload
<1>5. CASE Mkdir(j) \/ Download(j) \/ ClearStatus(j) \/ Save(j) \/ Cleanup(j)
  BY <1>5 DEF Mkdir, Download, NoOutput, TooLarge, YtdlpFails, ClearStatus, Save,
              Cleanup
<1>6. CASE Settle(j) \/ Notify(j)
  BY <1>6 DEF Settle, Outcome, Notify
<1> QED
  BY <1>1, <1>2, <1>3, <1>4, <1>5, <1>6 DEF Run

-----------------------------------------------------------------------------
(* The stop.                                                               *)

Quieter ==
  \A j \in Jobs : /\ stage'[j] \in Sending => stage[j] \in Sending
                  /\ inbox'[j] # inbox[j] => stage[j] \in Sending

LEMMA StopReaches ==
  ASSUME IInv, AllCancelled, [Next]_vars
  PROVE  AllCancelled' /\ (stopping => Quieter)
<1>1. ASSUME NEW j \in Jobs,
             Handle(j) \/ Begin(j) \/ Run(j) \/ ReportProgress(j) \/ Expire(j)
      PROVE  AllCancelled' /\ (stopping => Quieter)
  <2>1. \A k \in Jobs \ {j} : /\ Live(k)' => Live(k)
                              /\ stage'[k] = stage[k] /\ inbox'[k] = inbox[k]
    BY <1>1, StepsTouchOne DEF Untouched, Live
  <2>2. /\ stopping' = stopping
        /\ stopping /\ Live(j)' => Live(j)
        /\ stage[j] \notin Sending => inbox' = inbox
        /\ ~Live(j) /\ stage'[j] \in Sending => stage[j] \in Sending
    <3>1. CASE Handle(j)
      BY <3>1, HandlerOutside DEF Live, Sending
    <3>2. CASE Begin(j)
      BY <3>2, BeginEnters DEF Live, Sending
    <3>3. CASE Run(j)
      BY <3>3, RunStays, SendsNeedContext DEF Live
    <3>4. CASE ReportProgress(j) \/ Expire(j)
      BY <3>4 DEF ReportProgress, Expire, Live, IInv, TypeOK, process
    <3> QED
      BY <1>1, <3>1, <3>2, <3>3, <3>4
  <2> QED
    BY <2>1, <2>2 DEF AllCancelled, Quieter
<1>2. CASE Shutdown
  BY <1>2 DEF Shutdown, AllCancelled, Live
<1>3. CASE Die
  <2>1. AllCancelled'
    BY <1>3 DEF Die, AllCancelled
  <2>2. Quieter
    BY <1>3 DEF Die, Quieter, Sending, Final
  <2> QED
    BY <2>1, <2>2
<1>4. CASE UNCHANGED vars
  BY <1>4 DEF vars, AllCancelled, Live, Quieter
<1> QED
  BY <1>1, <1>2, <1>3, <1>4 DEF Next, Done

(* Once told to stop the bot begins no send until it is started again, and *)
(* only a send that was under way still posts, for any number of workers   *)
(* and waiting requests (Service.process, Bot.send).                       *)
THEOREM StopIsFinal == SSpec => StopMeansStop
<1>1. SInit => AllCancelled
  BY DEF SInit, Init, AllCancelled
<1>2. IInv /\ AllCancelled /\ [SNext]_svars => AllCancelled'
  BY StopReaches, StepsOfJobRun
<1>3. IInv /\ AllCancelled /\ [SNext]_svars =>
        [stopping => \A j \in Jobs :
           /\ stage'[j] \in Sending => stage[j] \in Sending
           /\ inbox'[j] # inbox[j] => stage[j] \in Sending]_svars
  BY StopReaches, StepsOfJobRun DEF Quieter
<1> QED
  BY <1>1, <1>2, <1>3, StagesKnown, PTL DEF SSpec, StopMeansStop

-----------------------------------------------------------------------------
(* The line and the pool.                                                  *)

(* A step of request j moves nobody else in or out.                        *)
LEMMA OthersStay ==
  ASSUME IInv, NEW j \in Jobs,
         Handle(j) \/ Begin(j) \/ Run(j) \/ ReportProgress(j) \/ Expire(j)
  PROVE  \A k \in Jobs \ {j} : stage'[k] = stage[k]
  BY StepsTouchOne DEF Untouched

LEMMA NobodyMoves ==
  ASSUME LineInv, PoolInv, UNCHANGED <<line, running, gone>>,
         \A k \in Jobs : (stage'[k] = "queued") <=> (stage[k] = "queued"),
         \A k \in Jobs : (stage'[k] \in InHand) <=> (stage[k] \in InHand)
  PROVE  LineInv' /\ PoolInv'
<1>1. Queued' = Queued /\ Busy' = Busy
  BY DEF Queued, Busy
<1> QED
  BY <1>1 DEF LineInv, PoolInv, Distinct

LEMMA AppendLine ==
  ASSUME NEW q \in Seq(Jobs), NEW j \in Jobs, Distinct(q), \A i \in DOMAIN q : q[i] # j
  PROVE  /\ Append(q, j) \in Seq(Jobs)
         /\ Distinct(Append(q, j))
         /\ {Append(q, j)[i] : i \in DOMAIN Append(q, j)} = {q[i] : i \in DOMAIN q} \cup {j}
         /\ Len(Append(q, j)) = Len(q) + 1
<1> DEFINE r == Append(q, j)
<1>1. r \in Seq(Jobs) /\ Len(r) = Len(q) + 1 /\ Len(q) \in Nat
  OBVIOUS
<1>2. DOMAIN r = 1..(Len(q) + 1) /\ DOMAIN q = 1..Len(q)
  BY <1>1
<1>3. \A i \in DOMAIN q : r[i] = q[i]
  BY <1>2
<1>4. r[Len(q) + 1] = j
  BY <1>1
<1>5. \A i \in DOMAIN r : i \in DOMAIN q \/ i = Len(q) + 1
  BY <1>1, <1>2
<1>6. DOMAIN q \subseteq DOMAIN r /\ Len(q) + 1 \in DOMAIN r
  BY <1>1, <1>2
<1> HIDE DEF r
<1>7. Distinct(r)
  BY <1>3, <1>4, <1>5 DEF Distinct
<1>8. {r[i] : i \in DOMAIN r} = {q[i] : i \in DOMAIN q} \cup {j}
  BY <1>3, <1>4, <1>5, <1>6
<1> QED
  BY <1>1, <1>7, <1>8 DEF r

LEMMA TailLine ==
  ASSUME NEW q \in Seq(Jobs), q # <<>>, Distinct(q)
  PROVE  /\ Tail(q) \in Seq(Jobs)
         /\ Distinct(Tail(q))
         /\ {Tail(q)[i] : i \in DOMAIN Tail(q)} = {q[i] : i \in DOMAIN q} \ {Head(q)}
         /\ Len(Tail(q)) <= Len(q)
<1> DEFINE r == Tail(q)
<1>1. r \in Seq(Jobs) /\ Len(q) \in Nat \ {0} /\ Len(r) = Len(q) - 1
  OBVIOUS
<1>2. DOMAIN r = 1..(Len(q) - 1) /\ DOMAIN q = 1..Len(q)
  BY <1>1
<1>3. \A i \in DOMAIN r : i + 1 \in DOMAIN q /\ r[i] = q[i + 1] /\ i \in Nat \ {0}
  BY <1>1, <1>2
<1>4. \A i \in DOMAIN q : i = 1 \/ (i - 1 \in DOMAIN r /\ r[i - 1] = q[i])
  BY <1>1, <1>2
<1>5. 1 \in DOMAIN q /\ Head(q) = q[1]
  BY <1>1, <1>2
<1> HIDE DEF r
<1>6. Distinct(r)
  <2> SUFFICES ASSUME NEW i \in DOMAIN r, NEW k \in DOMAIN r, r[i] = r[k] PROVE i = k
    BY DEF Distinct
  <2>1. i + 1 = k + 1
    BY <1>3 DEF Distinct
  <2> QED
    BY <2>1, <1>3
<1>7. \A i \in DOMAIN r : r[i] # Head(q)
  <2> SUFFICES ASSUME NEW i \in DOMAIN r, q[i + 1] = q[1] PROVE FALSE
    BY <1>3, <1>5
  <2>1. i + 1 = 1
    BY <1>3, <1>5 DEF Distinct
  <2> QED
    BY <2>1, <1>3
<1>8. {r[i] : i \in DOMAIN r} = {q[i] : i \in DOMAIN q} \ {Head(q)}
  BY <1>3, <1>4, <1>5, <1>7
<1>9. Len(r) <= Len(q)
  BY <1>1
<1> QED
  BY <1>1, <1>6, <1>8, <1>9 DEF r

LEMMA HandleKeepsLine ==
  ASSUME IInv, LineInv, PoolInv, NEW j \in Jobs, HandleRequest(j)
  PROVE  LineInv' /\ PoolInv'
<1>1. Handle(j) /\ gone' = gone
  BY DEF HandleRequest
<1>2. \A k \in Jobs \ {j} : stage'[k] = stage[k]
  BY <1>1, OthersStay
<1>3. /\ stage[j] \notin InHand \cup {"queued"} /\ stage'[j] \notin InHand
  BY <1>1, HandlerOutside DEF InHand, Fetching, Sending
<1>4. CASE stage'[j] # "queued"
  BY <1>1, <1>2, <1>3, <1>4, NobodyMoves DEF HandleRequest
<1>5. CASE stage'[j] = "queued"
  <2>1. L!Accept(j)
    BY <1>5 DEF HandleRequest
  <2>2. /\ line' = Append(line, j) /\ Len(line) < QueueSize /\ running' = running
    BY <2>1 DEF L!Accept
  <2>3. Queued' = Queued \cup {j} /\ Busy' = Busy
    BY <1>2, <1>3, <1>5 DEF Queued, Busy
  <2>4. \A i \in DOMAIN line : line[i] # j
    BY <1>3 DEF LineInv, Queued
  <2>5. Len(line) \in Nat
    BY DEF LineInv
  <2>6. LineInv'
    BY <2>2, <2>3, <2>4, <2>5, AppendLine, SongbotAssumption
       DEF LineInv, SongbotAssumption
  <2> QED
    BY <1>1, <2>2, <2>3, <2>6 DEF PoolInv
<1> QED
  BY <1>4, <1>5

LEMMA StartKeepsLine ==
  ASSUME IInv, LineInv, PoolInv, NEW j \in Jobs, StartJob(j)
  PROVE  LineInv' /\ PoolInv'
<1>1. /\ Free /\ line # <<>> /\ Head(line) = j /\ Begin(j) /\ gone' = gone
      /\ line' = Tail(line) /\ running' = running \cup {j}
  BY DEF StartJob, L!Start
<1>2. \A k \in Jobs \ {j} : stage'[k] = stage[k]
  BY <1>1, OthersStay
<1>3. stage[j] = "queued" /\ stage'[j] \in {"searching", "resolve"}
  BY <1>1, BeginEnters
<1>4. Queued' = Queued \ {j} /\ Busy' = Busy \cup {j} /\ j \notin Busy
  BY <1>2, <1>3 DEF Queued, Busy, InHand, Fetching, Sending
<1>5. LineInv'
  <2>1. /\ Tail(line) \in Seq(Jobs) /\ Distinct(Tail(line)) /\ Len(Tail(line)) <= Len(line)
        /\ {Tail(line)[i] : i \in DOMAIN Tail(line)} = Queued \ {j}
    BY <1>1, TailLine DEF LineInv
  <2>2. Len(line) \in Nat /\ Len(Tail(line)) \in Nat
    BY <2>1, LenProperties DEF LineInv
  <2>3. Len(Tail(line)) <= QueueSize
    BY <2>1, <2>2, SongbotAssumption DEF LineInv, SongbotAssumption
  <2> QED
    BY <1>1, <1>4, <2>1, <2>3, Zenon DEF LineInv
<1>6. PoolInv'
  <2>1. IsFiniteSet(running') /\ Cardinality(running') = Cardinality(running) + 1
    BY <1>1, <1>4, FS_AddElement DEF PoolInv
  <2>2. Cardinality(running) \in Nat
    BY FS_CardinalityType DEF PoolInv
  <2> QED
    BY <1>1, <1>4, <2>1, <2>2, JobRunAssumption DEF PoolInv, Free, JobRunAssumption
<1> QED
  BY <1>5, <1>6

LEMMA RunKeepsPool ==
  ASSUME IInv, LineInv, PoolInv, NEW j \in Jobs, RunJob(j)
  PROVE  LineInv' /\ PoolInv'
<1>1. Run(j) /\ gone' = gone
  BY DEF RunJob
<1>2. \A k \in Jobs \ {j} : stage'[k] = stage[k]
  BY <1>1, OthersStay
<1>3. stage[j] \in InHand /\ stage'[j] \in InHand \cup Final
  BY <1>1, RunStays
<1>4. "queued" \notin InHand \cup Final /\ InHand \cap Final = {}
  BY DEF InHand, Final, Fetching, Sending
<1>5. CASE stage'[j] \notin Final
  BY <1>1, <1>2, <1>3, <1>4, <1>5, NobodyMoves DEF RunJob
<1>6. CASE stage'[j] \in Final
  <2>1. line' = line /\ running' = running \ {j} /\ j \in running
    BY <1>6 DEF RunJob, L!Finish
  <2>2. Queued' = Queued /\ Busy' = Busy \ {j}
    BY <1>2, <1>3, <1>4, <1>6 DEF Queued, Busy
  <2>3. IsFiniteSet(running') /\ Cardinality(running') = Cardinality(running) - 1
    BY <2>1, FS_RemoveElement DEF PoolInv
  <2>4. Cardinality(running) \in Nat
    BY FS_CardinalityType DEF PoolInv
  <2>5. LineInv'
    BY <2>1, <2>2 DEF LineInv, Distinct
  <2>6. PoolInv'
    BY <1>1, <2>1, <2>2, <2>3, <2>4, JobRunAssumption DEF PoolInv, JobRunAssumption
  <2> QED
    BY <2>5, <2>6
<1> QED
  BY <1>5, <1>6

LEMMA LeaveKeepsPool ==
  ASSUME LineInv, PoolInv, Leave
  PROVE  LineInv' /\ PoolInv'
<1>1. /\ UNCHANGED <<stage, line, running>> /\ gone' = gone + 1
      /\ Cardinality(running) + gone < PoolSize
  BY DEF Leave, Free, vars
<1>2. Cardinality(running) \in Nat
  BY FS_CardinalityType DEF PoolInv
<1>3. Queued' = Queued /\ Busy' = Busy
  BY <1>1 DEF Queued, Busy
<1> QED
  BY <1>1, <1>2, <1>3, JobRunAssumption DEF LineInv, PoolInv, Distinct, JobRunAssumption

LEMMA DeathEmpties ==
  ASSUME IInv, LineInv, PoolInv, DieAndRestart
  PROVE  LineInv' /\ PoolInv'
<1>1. line' = <<>> /\ running' = {} /\ gone' = 0
  BY DEF DieAndRestart
<1>2. \A k \in Jobs : stage'[k] \in Final \cup {"new"}
  BY DEF DieAndRestart, Die, IInv, TypeOK, Final
<1>3. Queued' = {} /\ Busy' = {}
  BY <1>2 DEF Queued, Busy, InHand, Fetching, Sending, Final
<1> QED
  BY <1>1, <1>3, FS_EmptySet, SongbotAssumption, JobRunAssumption
     DEF LineInv, PoolInv, Distinct, SongbotAssumption, JobRunAssumption

LEMMA LineKept == IInv /\ LineInv /\ PoolInv /\ [SNext]_svars => LineInv' /\ PoolInv'
<1> SUFFICES ASSUME IInv, LineInv, PoolInv, [SNext]_svars PROVE LineInv' /\ PoolInv'
  OBVIOUS
<1>1. CASE \E j \in Jobs : (ReportProgress(j) \/ Expire(j)) /\ Still
  BY <1>1, NobodyMoves DEF ReportProgress, Expire, Still
<1>2. CASE (Shutdown \/ Done) /\ Still
  BY <1>2, NobodyMoves DEF Shutdown, Done, vars, Still
<1>3. CASE UNCHANGED svars
  BY <1>3, NobodyMoves DEF svars, vars
<1> QED
  BY <1>1, <1>2, <1>3, HandleKeepsLine, StartKeepsLine, RunKeepsPool, LeaveKeepsPool,
     DeathEmpties DEF SNext, Stopped

(* However requests come, end, expire or are cut off, no worker is lost    *)
(* and the line holds exactly the requests that wait (Submit, worker).     *)
THEOREM NoWorkerLost == SSpec => []LineMatches
<1>1. SInit => LineInv /\ PoolInv
  BY FS_EmptySet, SongbotAssumption, JobRunAssumption
     DEF SInit, Init, L!Init, LineInv, PoolInv, Distinct, Queued, Busy, InHand,
         Fetching, Sending, SongbotAssumption, JobRunAssumption
<1>2. LineInv /\ PoolInv => LineMatches
  BY DEF LineInv, PoolInv, LineMatches, Queued, Busy
<1> QED
  BY <1>1, <1>2, LineKept, StagesKnown, PTL DEF SSpec

=============================================================================
