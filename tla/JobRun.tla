------------------------------- MODULE JobRun -------------------------------
(***************************************************************************)
(* One request from the message that brings it to its answer: the handler  *)
(* of internal/bot/bot.go, process, run, identify and fetch of             *)
(* internal/downloader/service.go with the Telegram calls of               *)
(* internal/bot/deliver.go, the failures internal/youtube/client.go        *)
(* reports and the table of internal/storage/track_repo.go.  The queue in  *)
(* between is JobQueue.tla; here a job waits until a worker begins it.     *)
(*                                                                         *)
(* A stage is the call a request is about to make; a step makes it, with   *)
(* every outcome it can have.  A call that takes a context succeeds only   *)
(* while it is live: a context done during the call is one done after it.  *)
(* An edit is one step with its wait for the send limiter for the same     *)
(* reason.  A send is two: deliver.go's send enters the wait with a live   *)
(* context, and then the job waits for its turn or uploads, and what it    *)
(* posts may come after the end of the context, which the upload does not  *)
(* take.                                                                   *)
(*                                                                         *)
(* A Telegram file is named by the job that uploaded it.                   *)
(***************************************************************************)
EXTENDS Integers, Sequences, FiniteSets

CONSTANTS
  Jobs,        \* requests
  Videos,      \* what they may resolve to
  Unplayable,  \* videos that are live or longer than MaxDuration
  PoolSize,    \* limits.Workers
  Faults,      \* what may go wrong around the program, of FaultKinds
  MaxDeaths,   \* bound on how often the process dies
  NoVideo,     \* no song resolved yet
  NoFile,      \* the empty file ID
  NoRow        \* the table has no row for a video

FaultKinds == {"telegram", "not_audio", "db", "disk"}

ASSUME JobRunAssumption ==
  /\ Unplayable \subseteq Videos
  /\ PoolSize \in Nat \ {0}
  /\ Faults \subseteq FaultKinds
  /\ MaxDeaths \in Nat
  /\ NoVideo \notin Videos
  /\ NoFile \notin Jobs
  /\ NoRow \notin Jobs \cup {NoFile}

VARIABLES
  stage,      \* where each request is
  ctx,        \* the job's context, if a worker has it: live, expired
              \* (DeadlineExceeded) or canceled
  err,        \* what run returned: none, canceled (context.Canceled) or failed
  song,       \* what identify returned
  fileID,     \* the file ID in the job's hands
  status,     \* the placeholder message
  inbox,      \* history: files posted in answer to each request
  tracks,     \* the table tracks: file ID by video
  scratch,    \* jobs whose scratch directory exists
  stopping,   \* the process has been told to stop
  deaths,     \* how often it has died
  unheard,    \* history: requests whose last message did not get through
  leftovers   \* history: jobs whose clean-up failed

vars == <<stage, ctx, err, song, fileID, status, inbox, tracks, scratch,
          stopping, deaths, unheard, leftovers>>

Fetching == {"announce", "download", "note", "send", "sending", "save", "cleanup"}
Sending == {"resending", "sending"}
InHand == Fetching \cup Sending \cup
          {"searching", "search", "resolve", "lookup", "resend", "mkdir", "clear",
           "settle", "notify"}
Final == {"dropped", "refused", "delivered", "abandoned", "failed", "lost"}
Stages == InHand \cup Final \cup {"new", "placed", "refusing", "queued"}
Texts == {"none", "queued", "searching", "downloading", "uploading", "failure",
          "deleted"}

-----------------------------------------------------------------------------
(* What the calls have in common.                                          *)

Goto(j, s) == stage' = [stage EXCEPT ![j] = s]

Live(j) == ctx[j] = "live"
CtxErr(j) == IF ctx[j] = "canceled" THEN "canceled" ELSE "failed"

(* Mutant: no deferred clean-up. *)
AbortLeaving(j, e) ==
  /\ err' = [err EXCEPT ![j] = e]
  /\ Goto(j, "settle")

(* run returns e; fetch's deferred clean-up comes first. *)
Abort(j, e) ==
  /\ err' = [err EXCEPT ![j] = e]
  /\ Goto(j, IF j \in scratch THEN "cleanup" ELSE "settle")

(* A call that takes the job's context fails with it once it is done. *)
CtxDone(j) == ~Live(j) /\ Abort(j, CtxErr(j))

(* sendLimiter.wait refuses ahead of time a wait that would outlast the    *)
(* deadline.                                                               *)
WaitTooLong(j) == Live(j) /\ Abort(j, "failed")

(* A yt-dlp run that was killed, found nothing or broke: extractorError. *)
YtdlpFails(j) == Abort(j, "failed")

(* A search whose results are all live or too long: bestMatch has none. *)
NoMatch(j) == Live(j) /\ Abort(j, "failed")

(* yt-dlp succeeds and leaves no audio file behind: findOutput has none. *)
NoOutput(j) == Abort(j, "failed")

(* A file Telegram would not take. *)
TooLarge(j) == Live(j) /\ Abort(j, "failed")

Fault(kind) == kind \in Faults

(* bot.Edit of the placeholder, whose errors are logged and dropped. *)
Edited(j, text) ==
  status' = [status EXCEPT ![j] = IF @ = "deleted" THEN @ ELSE text]
EditTo(j, text) == Edited(j, text) \/ (Fault("telegram") /\ UNCHANGED status)

(* bot.Delete of it, likewise. *)
DeleteStatus(j) == EditTo(j, "deleted")

(* The edit that tells the user why there is no song, and is the last. *)
Apologise(j) ==
  \/ Edited(j, "failure") /\ UNCHANGED unheard
  \/ Fault("telegram") /\ unheard' = unheard \cup {j} /\ UNCHANGED status

(* send, up to where sendLimiter.wait has let the job into the line. *)
StartSend(j, s) ==
  \/ CtxDone(j) \/ WaitTooLong(j)
  \/ Live(j) /\ Goto(j, s) /\ UNCHANGED err

(* bot.Send of file f: posted, or not, or posted with the reply lost. *)
Posted(j, f) == inbox' = [inbox EXCEPT ![j] = Append(@, f)]

SendFails(j, f) ==
  /\ Fault("telegram")
  /\ Posted(j, f) \/ UNCHANGED inbox
  /\ Abort(j, "failed")

process == <<stopping, deaths>>
notes == <<unheard, leftovers>>
table == <<tracks, scratch>>

-----------------------------------------------------------------------------
(* handleRequest.                                                          *)

(* The sender is not allowed, the text is no request or the placeholder    *)
(* could not be sent, or was and the reply got lost: nothing is submitted. *)
Drop(j) ==
  /\ stage[j] = "new"
  /\ UNCHANGED status \/ (Fault("telegram") /\ Edited(j, "queued"))
  /\ Goto(j, "dropped")
  /\ UNCHANGED <<ctx, err, song, fileID, inbox, table, process, notes>>

PlaceStatus(j) ==
  /\ stage[j] = "new"
  /\ status' = [status EXCEPT ![j] = "queued"]
  /\ Goto(j, "placed")
  /\ UNCHANGED <<ctx, err, song, fileID, inbox, table, process, notes>>

(* Submit accepts or rejects. *)
Submit(j) ==
  /\ stage[j] = "placed"
  /\ Goto(j, "queued") \/ Goto(j, "refusing")
  /\ UNCHANGED <<ctx, err, song, fileID, status, inbox, table, process, notes>>

TellRefused(j) ==
  /\ stage[j] = "refusing"
  /\ Apologise(j)
  /\ Goto(j, "refused")
  /\ UNCHANGED <<ctx, err, song, fileID, inbox, table, process, leftovers>>

-----------------------------------------------------------------------------
(* process and identify.                                                   *)

(* Mutant: the job's context is derived from nothing. *)
BeginDetached(j) ==
  /\ stage[j] = "queued"
  /\ Cardinality({k \in Jobs : stage[k] \in InHand}) < PoolSize
  /\ ctx' = [ctx EXCEPT ![j] = "live"]
  /\ Goto(j, "searching") \/ Goto(j, "resolve")
  /\ UNCHANGED <<err, song, fileID, status, inbox, table, process, notes>>

(* A worker takes the job, a URL or a query to search for; the context it  *)
(* derives is born done if the process is stopping.                        *)
Begin(j) ==
  /\ stage[j] = "queued"
  /\ Cardinality({k \in Jobs : stage[k] \in InHand}) < PoolSize
  /\ ctx' = [ctx EXCEPT ![j] = IF stopping THEN "canceled" ELSE "live"]
  /\ Goto(j, "searching") \/ Goto(j, "resolve")
  /\ UNCHANGED <<err, song, fileID, status, inbox, table, process, notes>>

(* editStatus with the job's context, then on to stage s. *)
Announce(j, text, s) ==
  /\ \/ /\ CtxDone(j) \/ WaitTooLong(j)
        /\ UNCHANGED status
     \/ /\ Live(j)
        /\ EditTo(j, text)
        /\ Goto(j, s)
        /\ UNCHANGED err
  /\ UNCHANGED <<ctx, song, fileID, inbox, table, process, notes>>

Searching(j) == stage[j] = "searching" /\ Announce(j, "searching", "search")

(* Search and bestMatch. *)
Search(j) ==
  /\ stage[j] = "search"
  /\ \/ CtxDone(j)
     \/ YtdlpFails(j)
     \/ NoMatch(j)
     \/ Live(j) /\ Goto(j, "resolve") /\ UNCHANGED err
  /\ UNCHANGED <<ctx, song, fileID, status, inbox, table, process, notes>>

(* Mutant: nobody looks at the metadata. *)
ResolveUnchecked(j) ==
  /\ stage[j] = "resolve"
  /\ \/ CtxDone(j) /\ UNCHANGED song
     \/ YtdlpFails(j) /\ UNCHANGED song
     \/ /\ Live(j)
        /\ \E v \in Videos : song' = [song EXCEPT ![j] = v]
        /\ Goto(j, "lookup")
        /\ UNCHANGED err
  /\ UNCHANGED <<ctx, fileID, status, inbox, table, process, notes>>

(* Resolve, and run's refusal of what is live or too long. *)
Resolve(j) ==
  /\ stage[j] = "resolve"
  /\ \/ CtxDone(j) /\ UNCHANGED song
     \/ YtdlpFails(j) /\ UNCHANGED song
     \/ /\ Live(j)
        /\ \E v \in Videos :
             /\ song' = [song EXCEPT ![j] = v]
             /\ IF v \in Unplayable
                  THEN Abort(j, "failed")
                  ELSE Goto(j, "lookup") /\ UNCHANGED err
  /\ UNCHANGED <<ctx, fileID, status, inbox, table, process, notes>>

(* Mutant: the query forgets its WHERE. *)
LookupAnything(j) ==
  /\ stage[j] = "lookup"
  /\ Live(j)
  /\ \E v \in Videos :
       /\ fileID' = [fileID EXCEPT ![j] = IF tracks[v] = NoRow THEN @ ELSE tracks[v]]
       /\ Goto(j, IF tracks[v] \in Jobs THEN "resend" ELSE "mkdir")
  /\ UNCHANGED <<ctx, err, notes, song, status, inbox, table, process>>

(* Mutant: an empty ID is taken for one. *)
LookupTrusting(j) ==
  LET row == tracks[song[j]] IN
  /\ stage[j] = "lookup"
  /\ Live(j)
  /\ fileID' = [fileID EXCEPT ![j] = IF row = NoRow THEN @ ELSE row]
  /\ Goto(j, IF row # NoRow THEN "resend" ELSE "mkdir")
  /\ UNCHANGED <<ctx, err, notes, song, status, inbox, table, process>>

(* repo.FileID: an empty ID is a miss just like a missing row. *)
Lookup(j) ==
  LET row == tracks[song[j]] IN
  /\ stage[j] = "lookup"
  /\ \/ CtxDone(j) /\ UNCHANGED fileID
     \/ Fault("db") /\ Abort(j, "failed") /\ UNCHANGED fileID
     \/ /\ Live(j)
        /\ row \in Jobs
        /\ fileID' = [fileID EXCEPT ![j] = row]
        /\ Goto(j, "resend")
        /\ UNCHANGED err
     \/ /\ Live(j)
        /\ row \in {NoFile, NoRow}
        /\ Goto(j, "mkdir")
        /\ UNCHANGED <<fileID, err>>
  /\ UNCHANGED <<ctx, song, status, inbox, table, process, notes>>

(* DeliverCached, into send ... *)
Resend(j) ==
  /\ stage[j] = "resend"
  /\ StartSend(j, "resending")
  /\ UNCHANGED <<ctx, song, fileID, status, inbox, table, process, notes>>

(* ... and to clearStatus: its turn comes, context or not, or the context  *)
(* cuts the wait short.                                                    *)
Repost(j) ==
  /\ stage[j] = "resending"
  /\ \/ CtxDone(j) /\ UNCHANGED inbox
     \/ SendFails(j, fileID[j])
     \/ /\ Posted(j, fileID[j])
        /\ Goto(j, "clear")
        /\ UNCHANGED err
  /\ UNCHANGED <<ctx, song, fileID, status, table, process, notes>>

-----------------------------------------------------------------------------
(* fetch.                                                                  *)

Mkdir(j) ==
  /\ stage[j] = "mkdir"
  /\ \/ scratch' = scratch \cup {j} /\ Goto(j, "announce") /\ UNCHANGED err
     \/ Fault("disk") /\ Abort(j, "failed") /\ UNCHANGED scratch
  /\ UNCHANGED <<ctx, song, fileID, status, inbox, tracks, process, notes>>

AnnounceDownload(j) ==
  stage[j] = "announce" /\ Announce(j, "downloading", "download")

(* The progress callback edits the same message; its errors go nowhere. *)
ReportProgress(j) ==
  /\ stage[j] = "download"
  /\ Live(j)
  /\ EditTo(j, "downloading")
  /\ UNCHANGED <<stage, ctx, err, song, fileID, inbox, table, process, notes>>

(* Download with findOutput, and the size check. *)
Download(j) ==
  /\ stage[j] = "download"
  /\ \/ CtxDone(j)
     \/ YtdlpFails(j)
     \/ NoOutput(j)
     \/ TooLarge(j)
     \/ Live(j) /\ Goto(j, "note") /\ UNCHANGED err
  /\ UNCHANGED <<ctx, song, fileID, status, inbox, table, process, notes>>

NoteUpload(j) == stage[j] = "note" /\ Announce(j, "uploading", "send")

(* Deliver, into send ... *)
Deliver(j) ==
  /\ stage[j] = "send"
  /\ StartSend(j, "sending")
  /\ UNCHANGED <<ctx, song, fileID, status, inbox, table, process, notes>>

(* Mutant: a send that failed is tried again. *)
UploadRetrying(j) ==
  /\ stage[j] = "sending"
  /\ \/ CtxDone(j) /\ UNCHANGED <<fileID, inbox>>
     \/ /\ Fault("telegram")
        /\ Len(inbox[j]) < 2
        /\ Posted(j, j)
        /\ UNCHANGED <<stage, err, fileID>>
     \/ /\ Posted(j, j)
        /\ fileID' = [fileID EXCEPT ![j] = j]
        /\ Goto(j, "clear")
        /\ UNCHANGED err
  /\ UNCHANGED <<ctx, song, status, table, process, notes>>

(* ... and to clearStatus, as in Repost.  Telegram may take the file for   *)
(* something other than audio, and then it has no ID to cache.             *)
Upload(j) ==
  /\ stage[j] = "sending"
  /\ \/ CtxDone(j) /\ UNCHANGED <<fileID, inbox>>
     \/ SendFails(j, j) /\ UNCHANGED fileID
     \/ /\ Posted(j, j)
        /\ fileID' = [fileID EXCEPT ![j] = j]
        /\ Goto(j, "clear")
        /\ UNCHANGED err
     \/ /\ "not_audio" \in Faults
        /\ Posted(j, j)
        /\ Goto(j, "clear")
        /\ UNCHANGED <<err, fileID>>
  /\ UNCHANGED <<ctx, song, status, table, process, notes>>

(* Mutant: clearStatus waits for its turn, context or not. *)
ClearStubbornly(j) ==
  /\ stage[j] = "clear"
  /\ Live(j)
  /\ DeleteStatus(j)
  /\ Goto(j, IF j \in scratch THEN "save" ELSE "settle")
  /\ UNCHANGED <<ctx, err, song, fileID, inbox, table, process, notes>>

(* clearStatus, which gives up quietly without a live context. *)
ClearStatus(j) ==
  /\ stage[j] = "clear"
  /\ \/ UNCHANGED status
     \/ Live(j) /\ DeleteStatus(j)
  /\ Goto(j, IF j \in scratch THEN "save" ELSE "settle")
  /\ UNCHANGED <<ctx, err, song, fileID, inbox, table, process, notes>>

(* Mutant: Save's error is only logged. *)
SaveLoosely(j) ==
  /\ stage[j] = "save"
  /\ \/ tracks' = [tracks EXCEPT ![song[j]] = fileID[j]]
     \/ ~Live(j) /\ UNCHANGED tracks
  /\ Goto(j, "cleanup")
  /\ UNCHANGED <<ctx, err, notes, song, fileID, status, inbox, scratch, process>>

(* repo.Save, with the job's context and whatever ID Deliver returned. *)
Save(j) ==
  /\ stage[j] = "save"
  /\ \/ CtxDone(j) /\ UNCHANGED tracks
     \/ Fault("db") /\ Abort(j, "failed") /\ UNCHANGED tracks
     \/ /\ Live(j)
        /\ tracks' = [tracks EXCEPT ![song[j]] = fileID[j]]
        /\ Goto(j, "cleanup")
        /\ UNCHANGED err
  /\ UNCHANGED <<ctx, song, fileID, status, inbox, scratch, process, notes>>

(* The deferred RemoveAll. *)
Cleanup(j) ==
  /\ stage[j] = "cleanup"
  /\ \/ scratch' = scratch \ {j} /\ UNCHANGED leftovers
     \/ Fault("disk") /\ leftovers' = leftovers \cup {j} /\ UNCHANGED scratch
  /\ Goto(j, "settle")
  /\ UNCHANGED <<ctx, err, song, fileID, status, inbox, tracks, process, unheard>>

-----------------------------------------------------------------------------
(* process, after run.  Its return cancels the job's context.              *)

(* Mutant: the kind of error is not looked at. *)
OutcomeByContext(j) ==
  CASE err[j] = "none" -> "delivered"
    [] err[j] # "none" /\ ~Live(j) -> "abandoned"
    [] OTHER -> "notify"

Outcome(j) ==
  CASE err[j] = "none"                     -> "delivered"
    [] err[j] = "canceled" /\ ~Live(j)     -> "abandoned"
    [] OTHER                               -> "notify"

Settle(j) ==
  /\ stage[j] = "settle"
  /\ Goto(j, Outcome(j))
  /\ ctx' = IF Outcome(j) \in Final THEN [ctx EXCEPT ![j] = "none"] ELSE ctx
  /\ UNCHANGED <<err, song, fileID, status, inbox, table, process, notes>>

(* Mutant: Fail with the job's own context. *)
NotifyOnJobCtx(j) ==
  /\ stage[j] = "notify"
  /\ IF Live(j) THEN Apologise(j) ELSE UNCHANGED <<status, unheard>>
  /\ Goto(j, "failed")
  /\ ctx' = [ctx EXCEPT ![j] = "none"]
  /\ UNCHANGED <<err, song, fileID, inbox, table, process, leftovers>>

(* Fail, with a context of its own.  Its wait for the send limiter is      *)
(* never refused: each worker has at most three calls in a line that moves *)
(* 25 a second (Outbound.tla), far below notifyTimeout for a pool of at    *)
(* most 32 (config.go).                                                    *)
Notify(j) ==
  /\ stage[j] = "notify"
  /\ Apologise(j)
  /\ Goto(j, "failed")
  /\ ctx' = [ctx EXCEPT ![j] = "none"]
  /\ UNCHANGED <<err, song, fileID, inbox, table, process, leftovers>>

Handle(j) == Drop(j) \/ PlaceStatus(j) \/ Submit(j) \/ TellRefused(j)

Run(j) ==
  \/ Searching(j) \/ Search(j) \/ Resolve(j) \/ Lookup(j) \/ Resend(j) \/ Repost(j)
  \/ Mkdir(j) \/ AnnounceDownload(j) \/ Download(j) \/ NoteUpload(j)
  \/ Deliver(j) \/ Upload(j) \/ ClearStatus(j) \/ Save(j) \/ Cleanup(j)
  \/ Settle(j) \/ Notify(j)

-----------------------------------------------------------------------------
(* The clock, the signal and the end of the process.                       *)

Expire(j) ==
  /\ Live(j)
  /\ ctx' = [ctx EXCEPT ![j] = "expired"]
  /\ UNCHANGED <<stage, err, song, fileID, status, inbox, table, process, notes>>

Shutdown ==
  /\ ~stopping
  /\ stopping' = TRUE
  /\ ctx' = [j \in Jobs |-> IF Live(j) THEN "canceled" ELSE ctx[j]]
  /\ UNCHANGED <<stage, err, song, fileID, status, inbox, table, deaths, notes>>

(* The process ends, stopped or killed, and a new one starts.  The table   *)
(* and the scratch volume are still there; queue and workers are gone.     *)
Die ==
  /\ deaths < MaxDeaths
  /\ deaths' = deaths + 1
  /\ stopping' = FALSE
  /\ stage' = [j \in Jobs |-> IF stage[j] \in Final \cup {"new"} THEN stage[j]
                              ELSE "lost"]
  /\ ctx' = [j \in Jobs |-> "none"]
  /\ UNCHANGED <<err, song, fileID, status, inbox, table, notes>>

Done ==
  /\ \A j \in Jobs : stage[j] \in Final
  /\ UNCHANGED vars

Init ==
  /\ stage = [j \in Jobs |-> "new"]
  /\ ctx = [j \in Jobs |-> "none"]
  /\ err = [j \in Jobs |-> "none"]
  /\ song = [j \in Jobs |-> NoVideo]
  /\ fileID = [j \in Jobs |-> NoFile]
  /\ status = [j \in Jobs |-> "none"]
  /\ inbox = [j \in Jobs |-> <<>>]
  /\ tracks = [v \in Videos |-> NoRow]
  /\ scratch = {}
  /\ stopping = FALSE
  /\ deaths = 0
  /\ unheard = {}
  /\ leftovers = {}

Next ==
  \/ \E j \in Jobs : \/ Handle(j) \/ Begin(j) \/ Run(j)
                     \/ ReportProgress(j) \/ Expire(j)
  \/ Shutdown
  \/ Die
  \/ Done

Spec == Init /\ [][Next]_vars

-----------------------------------------------------------------------------

TypeOK ==
  /\ stage \in [Jobs -> Stages]
  /\ ctx \in [Jobs -> {"none", "live", "expired", "canceled"}]
  /\ err \in [Jobs -> {"none", "canceled", "failed"}]
  /\ song \in [Jobs -> Videos \cup {NoVideo}]
  /\ fileID \in [Jobs -> Jobs \cup {NoFile}]
  /\ status \in [Jobs -> Texts]
  /\ inbox \in [Jobs -> Seq(Jobs)]
  /\ tracks \in [Videos -> Jobs \cup {NoFile, NoRow}]
  /\ scratch \subseteq Jobs
  /\ stopping \in BOOLEAN
  /\ deaths \in 0..MaxDeaths
  /\ unheard \subseteq Jobs
  /\ leftovers \subseteq Jobs

(* Nobody gets somebody else's song, and what is cached for a video was    *)
(* uploaded for that video and reached a chat, whichever jobs race to fill *)
(* the cache and wherever the process dies (service.go, run and fetch).    *)
Uploaded(f) == \E i \in DOMAIN inbox[f] : inbox[f][i] = f
RightSong ==
  /\ \A j \in Jobs : \A i \in DOMAIN inbox[j] :
       song[inbox[j][i]] = song[j] /\ Uploaded(inbox[j][i])
  /\ \A v \in Videos : tracks[v] \in Jobs =>
       song[tracks[v]] = v /\ Uploaded(tracks[v])

(* A job counted as delivered put exactly one file into the chat and left  *)
(* a row for its video behind (service.go, process: IncDownload).          *)
DeliveredIsDone ==
  \A j \in Jobs : stage[j] = "delivered" =>
    Len(inbox[j]) = 1 /\ tracks[song[j]] # NoRow

(* A request that failed or was refused is told so, unless the very edit   *)
(* that tells it fails: whatever went wrong before, also when the job ran  *)
(* out of time, and also when the process is stopping (service.go,         *)
(* process: the apology's own context).  One abandoned to a shutdown or    *)
(* lost with the process is told nothing.                                  *)
NobodyLeftWaiting ==
  \A j \in Jobs :
    stage[j] \in {"failed", "refused"} /\ j \notin unheard =>
      status[j] = "failure" \/ (status[j] = "deleted" /\ inbox[j] # <<>>)

(* Silence is for shutdowns: a job is dropped without a word only once the *)
(* process was told to stop and only if that is what cut it off; one that  *)
(* had run out of time before is still answered (service.go, process).     *)
AbandonedOnlyWhenStopping ==
  [][\A j \in Jobs : stage[j] # "abandoned" /\ stage'[j] = "abandoned" =>
       stopping /\ ctx[j] = "canceled"]_vars

(* "The directory is removed whether or not the job succeeded" (fetch), on *)
(* every way out of it, unless its removal fails.  A process that dies     *)
(* leaves it behind, and nothing removes it later.                         *)
ScratchIsRemoved ==
  \A j \in scratch : stage[j] \in Fetching \cup {"clear", "lost"} \/ j \in leftovers

(* "Refused without downloading anything" (README): what is live or too    *)
(* long leaves no trace on the disk or in a chat.                          *)
RefusedUntransferred ==
  \A j \in Jobs : song[j] \in Unplayable =>
    inbox[j] = <<>> /\ j \notin scratch

(* The code keeps the promise of SongDelivery.                             *)
OutcomeOf(j) ==
  CASE stage[j] \in {"dropped", "refused"} -> "turned_away"
    [] stage[j] \in Final \ {"dropped", "refused"} -> stage[j]
    [] OTHER -> "pending"
SD == INSTANCE SongDelivery WITH
        wanted  <- song,
        sent    <- inbox,
        library <- tracks,
        outcome <- [j \in Jobs |-> OutcomeOf(j)]
ImplementsSongDelivery == SD!Spec

(* Every job a worker begins comes to an end, whatever fails on the way    *)
(* (service.go, process returns to the worker loop).                       *)
JobsSettle == \A j \in Jobs : stage[j] \in InHand ~> stage[j] \in Final

-----------------------------------------------------------------------------
(* Statements of the documentation that the code does not keep.            *)

(* deliver.go: Fail gives "the reason the request went nowhere"; metrics.go *)
(* counts it as "a job that ended without a delivery".                     *)
FailureMeansNothingSent ==
  \A j \in Jobs : stage[j] = "failed" => inbox[j] = <<>>

=============================================================================
