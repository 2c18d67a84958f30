------------------------------ MODULE Outbound ------------------------------
(***************************************************************************)
(* The pacing of what the workers say: sendLimiter (internal/bot/          *)
(* limiter.go), which every call of internal/bot/deliver.go waits for, the *)
(* throttle of progressReporter and the apology with a context of its own  *)
(* (internal/downloader/service.go).                                       *)
(*                                                                         *)
(* A tick is the time one token takes (1/sendRate s).  golang.org/x/time/  *)
(* rate reserves: a call that has to wait takes its token in advance, the  *)
(* credit goes negative, and the call's turn is as many ticks away.  A     *)
(* timer's lateness is neglected: time does not pass a turn that has come. *)
(***************************************************************************)
EXTENDS Integers, FiniteSets

CONSTANTS
  Workers,
  Burst,        \* sendBurst
  NotifyTicks,  \* notifyTimeout
  MinGap,       \* progressMinGap
  Step,         \* progressStep
  Top,          \* the percentage of a finished download
  Callbacks     \* bound on the progress callbacks of a job at a time

ASSUME OutboundAssumption ==
  /\ IsFiniteSet(Workers)
  /\ {Burst, Step, Callbacks} \subseteq Nat \ {0}
  /\ {NotifyTicks, MinGap, Top} \subseteq Nat

VARIABLES
  credit,  \* the limiter's tokens, negative when reserved in advance
  call,    \* ticks until the turn of each call that waits, or Off
  phase,   \* what each worker is doing
  ctx,     \* the worker's job context: live, expired or canceled
  since,   \* lastAt: ticks since the last report, up to MinGap
  last,    \* lastPcnt
  reports, \* progress reports of the job (history)
  stopping, \* the process has been told to stop
  level    \* history: calls gone out beyond one a tick

vars == <<credit, call, phase, ctx, since, last, reports, stopping, level>>

Off == -1
Callers == Workers \X (0..Callbacks)
Own(w) == <<w, 0>>
Waiting(c) == call[c] # Off
Phases == {"idle", "begin", "work", "download", "failing", "sorry", "unheard"}

-----------------------------------------------------------------------------
(* rate.Limiter.                                                           *)

Wait == IF credit > 0 THEN 0 ELSE 1 - credit

Reserve(c) ==
  /\ credit' = credit - 1
  /\ call' = [call EXCEPT ![c] = Wait]

(* A reservation given up is handed back only if none was made after it.   *)
GiveUp(c) ==
  /\ credit' = IF call[c] > 0 /\ call[c] = -credit THEN credit + 1 ELSE credit
  /\ call' = [call EXCEPT ![c] = Off]

(* What follows a call: after an apology the worker is free; after one of  *)
(* the job's it may be the download, which fetch announces first.          *)
FreshReporter(w) ==
  /\ since' = [since EXCEPT ![w] = MinGap]
  /\ last' = [last EXCEPT ![w] = 0]
  /\ reports' = [reports EXCEPT ![w] = 0]

Granted(c) ==
  LET w == c[1] IN
  /\ phase' \in CASE phase[w] = "sorry" -> {[phase EXCEPT ![w] = "idle"]}
                   [] phase[w] = "download" -> {phase}
                   [] OTHER -> {[phase EXCEPT ![w] = p] : p \in {"work", "download"}}
  /\ IF phase[w] = "download" THEN UNCHANGED <<since, last, reports>> ELSE FreshReporter(w)
  /\ level' = level + 1

(* Mutant: a call whose turn has come looks for a token again.             *)
GrantIfFree(c) ==
  /\ call[c] = 0
  /\ IF credit >= 0
       THEN call' = [call EXCEPT ![c] = Off] /\ Granted(c)
       ELSE call' = [call EXCEPT ![c] = 1] /\ UNCHANGED <<phase, since, last, reports, level>>
  /\ UNCHANGED <<credit, ctx, stopping>>

(* wait returns and the call goes out. *)
Grant(c) ==
  /\ call[c] = 0
  /\ call' = [call EXCEPT ![c] = Off]
  /\ Granted(c)
  /\ UNCHANGED <<credit, ctx, stopping>>

Tick ==
  /\ \A c \in Callers : call[c] # 0
  /\ credit' = IF credit < Burst THEN credit + 1 ELSE credit
  /\ call' = [c \in Callers |-> IF Waiting(c) THEN call[c] - 1 ELSE Off]
  /\ since' = [w \in Workers |-> IF since[w] < MinGap THEN since[w] + 1 ELSE MinGap]
  /\ level' = IF level > 0 THEN level - 1 ELSE 0
  /\ UNCHANGED <<phase, ctx, last, reports, stopping>>

-----------------------------------------------------------------------------
(* A worker and the job it has.                                            *)

Goto(w, p) == phase' = [phase EXCEPT ![w] = p]
Live(w) == ctx[w] = "live"
AtWork(w) == phase[w] \in {"begin", "work"}
Quiet(w) == \A i \in 0..Callbacks : ~Waiting(<<w, i>>)

(* A worker takes a job; its context is a child of the process's. *)
Begin(w) ==
  /\ phase[w] = "idle"
  /\ Goto(w, "begin")
  /\ ctx' = [ctx EXCEPT ![w] = IF stopping THEN "canceled" ELSE "live"]
  /\ UNCHANGED <<credit, call, since, last, reports, stopping, level>>

(* Mutant: clearStatus deletes without waiting. *)
CallAtOnce(w) ==
  /\ AtWork(w) /\ Quiet(w) /\ Live(w)
  /\ level' = level + 1
  /\ UNCHANGED <<credit, call, phase, ctx, since, last, reports, stopping>>

(* editStatus, send, clearStatus. *)
Call(w) ==
  /\ AtWork(w) /\ Quiet(w) /\ Live(w)
  /\ Reserve(Own(w))
  /\ UNCHANGED <<phase, ctx, since, last, reports, stopping, level>>

(* The job fails: a call's turn would come after its deadline, its context *)
(* is done, or something else went wrong.                                  *)
Fail(w) ==
  /\ AtWork(w) /\ Quiet(w)
  /\ Goto(w, "failing")
  /\ UNCHANGED <<credit, call, ctx, since, last, reports, stopping, level>>

Expire(w) ==
  /\ phase[w] \in {"begin", "work", "download"} /\ Live(w)
  /\ ctx' = [ctx EXCEPT ![w] = "expired"]
  /\ UNCHANGED <<credit, call, phase, since, last, reports, stopping, level>>

Shutdown ==
  /\ ~stopping
  /\ stopping' = TRUE
  /\ ctx' = [w \in Workers |-> IF Live(w) THEN "canceled" ELSE ctx[w]]
  /\ UNCHANGED <<credit, call, phase, since, last, reports, level>>

(* Whoever waits with a context that is done gives up, or goes out when    *)
(* the turn has come.  The job fails, in silence if it was cancelled; only *)
(* clearStatus, never a job's first call, does not mind.                   *)
StopWaiting(c) ==
  LET w == c[1] IN
  /\ ~Live(w) /\ Waiting(c) /\ phase[w] # "sorry"
  /\ GiveUp(c)
  /\ \/ c # Own(w) /\ UNCHANGED phase
     \/ c = Own(w) /\ ctx[w] = "expired" /\ Goto(w, "failing")
     \/ c = Own(w) /\ (ctx[w] = "canceled" \/ phase[w] = "work") /\ Goto(w, "idle")
  /\ UNCHANGED <<ctx, since, last, reports, stopping, level>>

(* Mutant: the gap between two reports is not kept. *)
ReportEagerly(w, i, p) ==
  /\ phase[w] = "download" /\ ~Waiting(<<w, i>>)
  /\ p - last[w] >= Step
  /\ since' = [since EXCEPT ![w] = 0]
  /\ last' = [last EXCEPT ![w] = p]
  /\ reports' = [reports EXCEPT ![w] = @ + 1]
  /\ Reserve(<<w, i>>)
  /\ UNCHANGED <<phase, ctx, stopping, level>>

(* Mutant: the last percentage is not remembered. *)
ReportForgetting(w, i, p) ==
  /\ phase[w] = "download" /\ ~Waiting(<<w, i>>)
  /\ p - last[w] >= Step /\ since[w] >= MinGap
  /\ since' = [since EXCEPT ![w] = 0]
  /\ reports' = [reports EXCEPT ![w] = @ + 1]
  /\ Reserve(<<w, i>>)
  /\ UNCHANGED <<phase, ctx, last, stopping, level>>

(* The callback of progressReporter: what passes the throttle is noted     *)
(* under the mutex, and waits outside it; a refused wait is only logged.   *)
Report(w, i, p) ==
  /\ phase[w] = "download" /\ ~Waiting(<<w, i>>)
  /\ p - last[w] >= Step /\ since[w] >= MinGap
  /\ since' = [since EXCEPT ![w] = 0]
  /\ last' = [last EXCEPT ![w] = p]
  /\ reports' = [reports EXCEPT ![w] = @ + 1]
  /\ \/ Live(w) /\ Reserve(<<w, i>>)
     \/ (~Live(w) \/ Wait > 0) /\ UNCHANGED <<credit, call>>
  /\ UNCHANGED <<phase, ctx, stopping, level>>

(* Download returns when yt-dlp and its callbacks have. *)
EndDownload(w) ==
  /\ phase[w] = "download" /\ Quiet(w)
  /\ (Live(w) /\ Goto(w, "work")) \/ Goto(w, "failing")
  /\ FreshReporter(w)
  /\ UNCHANGED <<credit, call, ctx, stopping, level>>

(* process returns: the song was sent, or the shutdown cut the job off. *)
Finish(w) ==
  /\ \/ phase[w] = "work" /\ Quiet(w)
     \/ phase[w] = "failing" /\ ctx[w] = "canceled"
  /\ Goto(w, "idle")
  /\ UNCHANGED <<credit, call, ctx, since, last, reports, stopping, level>>

(* Mutant: the apology is left to a goroutine of its own, the worker goes  *)
(* on with the next job.                                                   *)
ApologiseAside(w) ==
  /\ phase[w] = "failing"
  /\ IF Wait <= NotifyTicks
       THEN \E i \in 1..Callbacks : /\ ~Waiting(<<w, i>>)
                                    /\ Reserve(<<w, i>>)
                                    /\ Goto(w, "idle")
       ELSE Goto(w, "unheard") /\ UNCHANGED <<credit, call>>
  /\ UNCHANGED <<ctx, since, last, reports, stopping, level>>

(* Out.Fail under notifyCtx, which a wait beyond notifyTimeout fails. *)
Apologise(w) ==
  /\ phase[w] = "failing"
  /\ IF Wait <= NotifyTicks
       THEN Reserve(Own(w)) /\ Goto(w, "sorry")
       ELSE Goto(w, "unheard") /\ UNCHANGED <<credit, call>>
  /\ UNCHANGED <<ctx, since, last, reports, stopping, level>>

Job(w) ==
  \/ Begin(w) \/ Call(w) \/ Fail(w) \/ Expire(w)
  \/ \E i \in 1..Callbacks, p \in 0..Top : Report(w, i, p)
  \/ EndDownload(w) \/ Finish(w) \/ Apologise(w)

Init ==
  /\ credit = Burst
  /\ call = [c \in Callers |-> Off]
  /\ phase = [w \in Workers |-> "idle"]
  /\ ctx = [w \in Workers |-> "canceled"]
  /\ since = [w \in Workers |-> MinGap]
  /\ last = [w \in Workers |-> 0]
  /\ reports = [w \in Workers |-> 0]
  /\ stopping = FALSE
  /\ level = 0

Next ==
  \/ \E w \in Workers : Job(w)
  \/ \E c \in Callers : Grant(c) \/ StopWaiting(c)
  \/ Shutdown
  \/ Tick

Spec == Init /\ [][Next]_vars

(* Time passes and timers fire; nothing is assumed of the workers. *)
FairSpec == Spec /\ WF_vars(Tick) /\ \A c \in Callers : WF_vars(Grant(c))

-----------------------------------------------------------------------------

(* Each worker has at most three reservations ahead: one clearStatus gave  *)
(* up, one its next job gave up, and the apology for that.                 *)
MaxDebt == 3 * Cardinality(Workers)

TypeOK ==
  /\ credit \in (-MaxDebt)..Burst
  /\ call \in [Callers -> Off..MaxDebt]
  /\ phase \in [Workers -> Phases]
  /\ ctx \in [Workers -> {"live", "expired", "canceled"}]
  /\ since \in [Workers -> 0..MinGap]
  /\ last \in [Workers -> 0..Top] /\ reports \in [Workers -> Nat]
  /\ stopping \in BOOLEAN
  /\ level \in Nat

(* However many workers and callbacks talk, and whoever gives up waiting,  *)
(* in no stretch of time more calls go out than Burst and one for each     *)
(* tick of it: with the code's figures, 30 in a second (bot.go, sendRate   *)
(* and sendBurst).                                                         *)
Paced == level <= Burst

(* An apology is never refused for the length of the line in front of it   *)
(* (service.go, notifyTimeout): what JobRun's Notify relies on.            *)
ApologyHeard == \A w \in Workers : phase[w] # "unheard"

(* A download costs a bounded number of edits, however often the           *)
(* percentage moves, and falls back (progressReporter).                    *)
FewReports == \A w \in Workers : reports[w] <= Top \div Step

(* No report of a download overtakes another on the way out, although      *)
(* nothing orders them once the mutex is released (progressReporter).      *)
ReportsInOrder ==
  \A w \in Workers : Cardinality({i \in 1..Callbacks : Waiting(<<w, i>>)}) <= 1

(* No call waits for ever, whoever else keeps calling (sendLimiter.wait).  *)
CallsGoOut == \A c \in Callers : Waiting(c) ~> ~Waiting(c)

=============================================================================
