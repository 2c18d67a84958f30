---------------------------- MODULE JobRunProofs ----------------------------
(***************************************************************************)
(* Theorems about JobRun, for every set of requests and videos, every pool *)
(* and every combination of faults.                                        *)
(*                                                                         *)
(* The invariant says, by stage, what a request has in its hands.  A       *)
(* request's part of it speaks of other requests only through Held, which  *)
(* is never undone, so a step has to be looked at for its own request.     *)
(***************************************************************************)
EXTENDS JobRun, SequenceTheorems, TLAPS

Playable == Videos \ Unplayable

BeforeSong == {"new", "placed", "refusing", "queued", "searching", "search",
               "resolve", "dropped", "refused"}
BeforeFile == BeforeSong \cup {"lookup", "mkdir", "announce", "download", "note",
                               "send", "sending"}
BeforeScratch == BeforeSong \cup {"lookup", "resend", "resending", "mkdir"}
Unsent == BeforeFile \cup {"resend", "resending"}
Playing == Fetching \cup {"lookup", "resend", "resending", "mkdir", "clear",
                         "delivered"}
Ending == Final \cup {"cleanup", "settle", "notify"}

(* f was uploaded for the request it is named after, which resolved to v.  *)
Held(f, v) == song[f] = v /\ inbox[f] = <<f>>

SongByStage(j) ==
  /\ stage[j] \in BeforeSong => song[j] = NoVideo
  /\ stage[j] \in Playing => song[j] \in Playable

InboxByStage(j) ==
  /\ \/ inbox[j] = <<>>
     \/ /\ song[j] \in Playable
        /\ \E f \in Jobs : inbox[j] = <<f>> /\ Held(f, song[j])
  /\ stage[j] \in Unsent => inbox[j] = <<>>
  /\ stage[j] \in {"clear", "save", "delivered"} => inbox[j] # <<>>

FileByStage(j) ==
  /\ stage[j] \in BeforeFile => fileID[j] = NoFile
  /\ stage[j] \in {"resend", "resending"} =>
       fileID[j] \in Jobs /\ Held(fileID[j], song[j])
  /\ stage[j] = "save" \/ (stage[j] = "clear" /\ j \in scratch) =>
       inbox[j] = <<j>> /\ fileID[j] \in {j, NoFile}

ScratchByStage(j) ==
  /\ stage[j] \in Fetching => j \in scratch
  /\ stage[j] \in BeforeScratch => j \notin scratch
  /\ j \in scratch =>
       /\ song[j] \in Playable
       /\ stage[j] \in Fetching \cup {"clear", "lost"} \/ j \in leftovers

RowByStage(j) ==
  /\ stage[j] \in {"resend", "resending"} \/ (stage[j] = "clear" /\ j \notin scratch) =>
       tracks[song[j]] # NoRow
  /\ stage[j] = "delivered" \/ (stage[j] \in {"cleanup", "settle"} /\ err[j] = "none") =>
       song[j] \in Videos /\ inbox[j] # <<>> /\ tracks[song[j]] # NoRow

ErrByStage(j) ==
  /\ stage[j] \notin Ending => err[j] = "none"
  /\ stage[j] \in {"cleanup", "settle"} /\ err[j] = "canceled" => ctx[j] = "canceled"
  /\ ctx[j] = "canceled" => stopping

StatusByStage(j) ==
  /\ status[j] = "deleted" => inbox[j] # <<>>
  /\ stage[j] \in {"failed", "refused"} /\ j \notin unheard =>
       status[j] \in {"failure", "deleted"}

JobInv(j) ==
  /\ SongByStage(j)
  /\ InboxByStage(j)
  /\ FileByStage(j)
  /\ ScratchByStage(j)
  /\ RowByStage(j)
  /\ ErrByStage(j)
  /\ StatusByStage(j)

(* What the table names was uploaded for that video.                       *)
RowsHeld == \A v \in Videos : tracks[v] \in Jobs => Held(tracks[v], v)

IInv == TypeOK /\ RowsHeld /\ \A j \in Jobs : JobInv(j)

-----------------------------------------------------------------------------
(* A step of request j, as the others see it.                              *)

Untouched(k) ==
  /\ stage'[k] = stage[k]
  /\ ctx'[k] = ctx[k]
  /\ err'[k] = err[k]
  /\ song'[k] = song[k]
  /\ fileID'[k] = fileID[k]
  /\ status'[k] = status[k]
  /\ inbox'[k] = inbox[k]
  /\ k \in scratch' <=> k \in scratch
  /\ k \in unheard' <=> k \in unheard
  /\ k \in leftovers' <=> k \in leftovers
  /\ stopping' = stopping

Monotone ==
  /\ \A f \in Jobs : inbox[f] = <<f>> => inbox'[f] = <<f>> /\ song'[f] = song[f]
  /\ \A v \in Videos : tracks[v] # NoRow => tracks'[v] # NoRow

StepOf(j) ==
  /\ TypeOK'
  /\ \A k \in Jobs \ {j} : Untouched(k)
  /\ Monotone
  /\ RowsHeld'
  /\ JobInv(j)'

(* A request nobody touched keeps its part of the invariant.               *)
LEMMA OthersKeep ==
  ASSUME TypeOK, Monotone, NEW k \in Jobs, JobInv(k), Untouched(k)
  PROVE  JobInv(k)'
<1>1. SongByStage(k)'
  BY DEF JobInv, SongByStage, Untouched, Playable
<1>2. InboxByStage(k)'
  BY DEF JobInv, InboxByStage, Untouched, Playable, Monotone, Held
<1>3. FileByStage(k)'
  BY DEF JobInv, FileByStage, Untouched, Monotone, Held
<1>4. ScratchByStage(k)'
  BY DEF JobInv, ScratchByStage, Untouched, Playable
<1>5. RowByStage(k)'
  BY DEF JobInv, RowByStage, SongByStage, Playing, Playable, Untouched, Monotone
<1>6. ErrByStage(k)'
  BY DEF JobInv, ErrByStage, Untouched
<1>7. StatusByStage(k)'
  BY DEF JobInv, StatusByStage, Untouched
<1> QED
  BY <1>1, <1>2, <1>3, <1>4, <1>5, <1>6, <1>7 DEF JobInv

(* So it is enough to look at the request that makes the step.             *)
LEMMA StepKeeps ==
  ASSUME IInv, NEW j \in Jobs, StepOf(j)
  PROVE  IInv'
<1>1. \A k \in Jobs \ {j} : JobInv(k)'
  BY OthersKeep DEF IInv, StepOf
<1> QED
  BY <1>1 DEF IInv, StepOf

(* A step that posts nothing, resolves nothing and saves nothing.          *)
LEMMA Quiet ==
  ASSUME RowsHeld, UNCHANGED <<song, inbox, tracks>>
  PROVE  Monotone /\ RowsHeld'
  BY DEF Monotone, RowsHeld, Held

LEMMA AppendFirst == ASSUME NEW f PROVE Append(<<>>, f) = <<f>> /\ <<f>> # <<>>
  OBVIOUS

(* What every step below starts from, and the stages by name.              *)
LEMMA Parts ==
  ASSUME IInv
  PROVE  TypeOK /\ RowsHeld /\ \A j \in Jobs : JobInv(j)
  BY DEF IInv

LEMMA StageNames ==
  {"new", "placed", "refusing", "queued", "searching", "search", "resolve", "lookup",
   "resend", "resending", "mkdir", "announce", "download", "note", "send", "sending",
   "save", "clear", "cleanup", "settle", "notify", "dropped", "refused", "delivered",
   "abandoned", "failed", "lost"} \subseteq Stages
  BY DEF Stages, InHand, Fetching, Sending, Final

(* A request that moves on moves to a stage, with an error if it gives up,  *)
(* and an edit leaves one of the texts.                                    *)
LEMMA GotoTyped ==
  ASSUME TypeOK, NEW j \in Jobs, NEW s \in Stages, Goto(j, s)
  PROVE  stage' \in [Jobs -> Stages]
  BY DEF Goto, TypeOK

LEMMA AbortTyped ==
  ASSUME TypeOK, NEW j \in Jobs, NEW e \in {"canceled", "failed"}, Abort(j, e)
  PROVE  /\ stage' \in [Jobs -> Stages]
         /\ err' \in [Jobs -> {"none", "canceled", "failed"}]
<1>1. stage' \in [Jobs -> Stages]
  BY StageNames, GotoTyped DEF Abort
<1>2. err' \in [Jobs -> {"none", "canceled", "failed"}]
  BY DEF Abort, TypeOK
<1> QED
  BY <1>1, <1>2

LEMMA CtxDoneTyped ==
  ASSUME TypeOK, NEW j \in Jobs, CtxDone(j)
  PROVE  /\ stage' \in [Jobs -> Stages]
         /\ err' \in [Jobs -> {"none", "canceled", "failed"}]
<1>1. CtxErr(j) \in {"canceled", "failed"}
  BY DEF CtxErr
<1> QED
  BY <1>1, AbortTyped DEF CtxDone

LEMMA EditedTyped ==
  ASSUME TypeOK, NEW j \in Jobs, NEW t \in Texts, Edited(j, t)
  PROVE  status' \in [Jobs -> Texts]
  BY DEF Edited, TypeOK

LEMMA TextNames ==
  {"queued", "searching", "downloading", "uploading", "failure", "deleted"}
    \subseteq Texts
  BY DEF Texts

LEMMA Typed ==
  ASSUME TypeOK
  PROVE  /\ stage \in [Jobs -> Stages]
         /\ err \in [Jobs -> {"none", "canceled", "failed"}]
         /\ status \in [Jobs -> Texts]
  BY DEF TypeOK

USE DEF Goto, Live, Abort, CtxErr, CtxDone, WaitTooLong, YtdlpFails, Fault,
        Edited, EditTo, StartSend, table, process, notes
USE DEF Fetching, Sending, Final, Texts, BeforeSong, BeforeFile,
        BeforeScratch, Unsent, Playing, Ending, Playable

(* Between its file and its last call a request posts nothing.             *)
LEMMA InboxStays ==
  ASSUME NEW j \in Jobs, InboxByStage(j), UNCHANGED <<song, inbox>>,
         stage'[j] \in Unsent => stage[j] \in Unsent,
         stage'[j] \in {"clear", "save", "delivered"} => stage[j] = "clear"
  PROVE  InboxByStage(j)'
  BY DEF InboxByStage, Held

(* The handler, and a worker taking the job.                               *)
LEMMA HandlerSteps ==
  ASSUME IInv, NEW j \in Jobs,
         Handle(j) \/ Begin(j)
  PROVE  StepOf(j)
<1> USE DEF Handle, Drop, PlaceStatus, Submit, TellRefused, Apologise, Begin
<1>0. TypeOK /\ RowsHeld /\ JobInv(j)
  BY Parts
<1>1. TypeOK'
  <2> HIDE DEF Goto, Abort, CtxDone, Edited
  <2>1. stage' \in [Jobs -> Stages]
    BY <1>0, Typed, StageNames, GotoTyped, AbortTyped, CtxDoneTyped
  <2>2. ctx' \in [Jobs -> {"none", "live", "expired", "canceled"}]
    BY <1>0 DEF TypeOK
  <2>3. status' \in [Jobs -> Texts]
    BY <1>0, Typed, TextNames, EditedTyped
  <2> QED
    BY <1>0, <2>1, <2>2, <2>3 DEF TypeOK
<1>2. \A k \in Jobs \ {j} : Untouched(k)
  BY <1>0 DEF TypeOK, Untouched
<1>3. Monotone /\ RowsHeld'
  BY <1>0, Quiet
<1>4. JobInv(j)'
  <2>1. CASE Handle(j)
    <3>4. /\ UNCHANGED <<song, inbox, fileID>>
          /\ stage[j] \in BeforeSong /\ stage'[j] \in BeforeSong
      BY <1>0, <2>1 DEF TypeOK
    <3> HIDE DEF Handle
    <3>1. SongByStage(j)' /\ InboxByStage(j)' /\ FileByStage(j)'
      <4>1. SongByStage(j)'
        BY <1>0, <3>4 DEF JobInv, SongByStage
      <4>2. InboxByStage(j)'
        BY <1>0, <3>4, InboxStays DEF JobInv
      <4>3. FileByStage(j)'
        BY <1>0, <3>4 DEF JobInv, FileByStage
      <4> QED
        BY <4>1, <4>2, <4>3
    <3> USE DEF Handle
    <3>2. ScratchByStage(j)' /\ RowByStage(j)' /\ ErrByStage(j)'
      BY <1>0, <2>1 DEF TypeOK, JobInv, ScratchByStage, RowByStage, ErrByStage
    <3>3. StatusByStage(j)'
      BY <1>0, <2>1 DEF TypeOK, JobInv, StatusByStage, InboxByStage
    <3> QED
      BY <3>1, <3>2, <3>3 DEF JobInv
  <2>2. CASE Begin(j)
    BY <1>0, <2>2 DEF TypeOK, JobInv, SongByStage, InboxByStage, FileByStage,
                      ScratchByStage, RowByStage, ErrByStage, StatusByStage, Held
  <2> QED
    BY <2>1, <2>2
<1> QED
  BY <1>1, <1>2, <1>3, <1>4 DEF StepOf

(* The calls that move neither songs nor files nor rows.                   *)
LEMMA QuietSteps ==
  ASSUME IInv, NEW j \in Jobs,
         \/ Searching(j) \/ Search(j) \/ Mkdir(j) \/ AnnounceDownload(j)
         \/ ReportProgress(j) \/ Download(j) \/ NoteUpload(j)
         \/ Resend(j) \/ Deliver(j) \/ ClearStatus(j) \/ Cleanup(j)
  PROVE  StepOf(j)
<1> USE DEF Searching, AnnounceDownload, NoteUpload, Announce, Search, NoMatch, Mkdir,
            ReportProgress, Download, NoOutput, TooLarge, Resend, Deliver,
            ClearStatus, DeleteStatus, Cleanup
<1>0. TypeOK /\ RowsHeld /\ JobInv(j)
  BY Parts
<1>1. TypeOK'
  <2> HIDE DEF Goto, Abort, CtxDone, Edited
  <2>1. stage' \in [Jobs -> Stages]
    BY <1>0, Typed, StageNames, GotoTyped, AbortTyped, CtxDoneTyped
  <2>2. err' \in [Jobs -> {"none", "canceled", "failed"}]
    BY <1>0, Typed, AbortTyped, CtxDoneTyped
  <2>3. status' \in [Jobs -> Texts]
    BY <1>0, Typed, TextNames, EditedTyped
  <2> QED
    BY <1>0, <2>1, <2>2, <2>3 DEF TypeOK
<1>2. \A k \in Jobs \ {j} : Untouched(k)
  BY <1>0 DEF TypeOK, Untouched
<1>3. Monotone /\ RowsHeld'
  BY <1>0, Quiet
<1>4. JobInv(j)'
  <2>1. /\ UNCHANGED <<song, inbox>>
        /\ stage'[j] \in Unsent => stage[j] \in Unsent
        /\ stage'[j] \in {"clear", "save", "delivered"} => stage[j] = "clear"
        /\ stage'[j] \in BeforeSong => stage[j] \in BeforeSong
        /\ stage'[j] \in Playing => stage[j] \in Playing
    <3> USE <1>0 DEF TypeOK, JobInv, ScratchByStage
    <3>1. UNCHANGED <<song, inbox>>
      OBVIOUS
    <3>2. CASE Searching(j) \/ AnnounceDownload(j) \/ NoteUpload(j)
      BY <3>1, <3>2
    <3>3. CASE Search(j) \/ Mkdir(j) \/ Download(j)
      BY <3>1, <3>3
    <3>4. CASE ReportProgress(j) \/ ClearStatus(j) \/ Cleanup(j)
      BY <3>1, <3>4
    <3>5. CASE Resend(j) \/ Deliver(j)
      BY <3>1, <3>5
    <3> QED
      BY <3>2, <3>3, <3>4, <3>5
  <2>2. SongByStage(j)'
    BY <1>0, <2>1 DEF JobInv, SongByStage
  <2>3. InboxByStage(j)'
    BY <1>0, <2>1, InboxStays DEF JobInv
  <2>4. FileByStage(j)'
    BY <1>0 DEF TypeOK, JobInv, FileByStage, ScratchByStage, Held
  <2>5. ScratchByStage(j)'
    BY <1>0 DEF TypeOK, JobInv, ScratchByStage, SongByStage
  <2>6. RowByStage(j)'
    BY <1>0 DEF TypeOK, JobInv, RowByStage, SongByStage, InboxByStage, ErrByStage,
                ScratchByStage
  <2>7. ErrByStage(j)'
    BY <1>0 DEF TypeOK, JobInv, ErrByStage
  <2>8. StatusByStage(j)'
    BY <1>0 DEF TypeOK, JobInv, StatusByStage, InboxByStage
  <2> QED
    BY <2>2, <2>3, <2>4, <2>5, <2>6, <2>7, <2>8 DEF JobInv
<1> QED
  BY <1>1, <1>2, <1>3, <1>4 DEF StepOf

(* Running out of time, and the end of process.                            *)
LEMMA EndSteps ==
  ASSUME IInv, NEW j \in Jobs,
         Expire(j) \/ Settle(j) \/ Notify(j)
  PROVE  StepOf(j)
<1> USE DEF Expire, Settle, Outcome, Notify, Apologise
<1>0. TypeOK /\ RowsHeld /\ JobInv(j)
  BY Parts
<1>1. TypeOK'
  <2> HIDE DEF Goto, Abort, CtxDone, Edited
  <2>1. stage' \in [Jobs -> Stages]
    BY <1>0, Typed, StageNames, GotoTyped, AbortTyped, CtxDoneTyped
  <2>2. ctx' \in [Jobs -> {"none", "live", "expired", "canceled"}]
    BY <1>0 DEF TypeOK
  <2>3. status' \in [Jobs -> Texts]
    BY <1>0, Typed, TextNames, EditedTyped
  <2> QED
    BY <1>0, <2>1, <2>2, <2>3 DEF TypeOK
<1>2. \A k \in Jobs \ {j} : Untouched(k)
  BY <1>0 DEF TypeOK, Untouched
<1>3. Monotone /\ RowsHeld'
  BY <1>0, Quiet
<1>4. JobInv(j)'
  <2>1. UNCHANGED <<song, inbox, fileID, tracks, scratch, leftovers, stopping>>
    OBVIOUS
  <2>2. \/ stage'[j] = stage[j]
        \/ /\ stage[j] \in {"settle", "notify"}
           /\ stage'[j] \in {"delivered", "abandoned", "notify", "failed"}
           /\ stage'[j] = "delivered" => stage[j] = "settle" /\ err[j] = "none"
    <3>1. CASE Expire(j)
      BY <3>1
    <3>2. CASE Settle(j)
      <4>1. stage[j] = "settle" /\ stage'[j] = Outcome(j)
        BY <1>0, <3>2 DEF TypeOK
      <4>2. Outcome(j) \in {"delivered", "abandoned", "notify"}
            /\ (Outcome(j) = "delivered" => err[j] = "none")
        OBVIOUS
      <4> HIDE DEF Outcome, Settle
      <4> QED
        BY <4>1, <4>2
    <3>3. CASE Notify(j)
      BY <1>0, <3>3 DEF TypeOK
    <3> QED
      BY <3>1, <3>2, <3>3
  <2>3. SongByStage(j)'
    BY <1>0, <2>1, <2>2 DEF JobInv, SongByStage, InboxByStage, RowByStage
  <2>4. InboxByStage(j)'
    BY <1>0, <2>1, <2>2 DEF JobInv, InboxByStage, RowByStage, Held
  <2>5. FileByStage(j)'
    BY <1>0, <2>1, <2>2 DEF JobInv, FileByStage, Held
  <2>6. ScratchByStage(j)'
    BY <1>0, <2>1, <2>2 DEF JobInv, ScratchByStage
  <2>7. RowByStage(j)'
    BY <1>0, <2>1, <2>2 DEF JobInv, RowByStage
  <2>8. ErrByStage(j)'
    BY <1>0, <2>2 DEF TypeOK, JobInv, ErrByStage
  <2>9. StatusByStage(j)'
    BY <1>0 DEF TypeOK, JobInv, StatusByStage
  <2> QED
    BY <2>3, <2>4, <2>5, <2>6, <2>7, <2>8, <2>9 DEF JobInv
<1> QED
  BY <1>1, <1>2, <1>3, <1>4 DEF StepOf

(* Resolve names the song of a request that has posted nothing yet.        *)
LEMMA ResolveStep ==
  ASSUME IInv, NEW j \in Jobs,
         Resolve(j)
  PROVE  StepOf(j)
<1> USE DEF Resolve
<1>0. TypeOK /\ RowsHeld /\ JobInv(j)
  BY Parts
<1>1. TypeOK'
  <2> HIDE DEF Goto, Abort, CtxDone, Edited
  <2>1. stage' \in [Jobs -> Stages]
    BY <1>0, Typed, StageNames, GotoTyped, AbortTyped, CtxDoneTyped
  <2>2. err' \in [Jobs -> {"none", "canceled", "failed"}]
    BY <1>0, Typed, AbortTyped, CtxDoneTyped
  <2>3. song' \in [Jobs -> Videos \cup {NoVideo}]
    BY <1>0 DEF TypeOK
  <2> QED
    BY <1>0, <2>1, <2>2, <2>3 DEF TypeOK
<1>2. \A k \in Jobs \ {j} : Untouched(k)
  BY <1>0 DEF TypeOK, Untouched
<1>3. Monotone /\ RowsHeld'
  <2>1. stage[j] = "resolve" /\ inbox[j] = <<>>
    BY <1>0 DEF JobInv, InboxByStage
  <2>2. \A f \in Jobs : inbox[f] = <<f>> => song'[f] = song[f]
    BY <1>0, <2>1, AppendFirst DEF TypeOK
  <2> QED
    BY <1>0, <2>2 DEF TypeOK, Monotone, RowsHeld, Held
<1>4. JobInv(j)'
  <2>1. /\ stage[j] = "resolve" /\ inbox[j] = <<>> /\ fileID[j] = NoFile /\ j \notin scratch
        /\ stage'[j] \in {"lookup", "settle"} /\ UNCHANGED <<inbox, fileID, scratch>>
    BY <1>0 DEF TypeOK, JobInv, InboxByStage, FileByStage, ScratchByStage
  <2>2. SongByStage(j)'
    <3>1. CASE UNCHANGED song
      BY <1>0, <2>1, <3>1 DEF TypeOK, SongByStage
    <3>2. CASE \E v \in Videos : /\ song' = [song EXCEPT ![j] = v]
                                /\ v \in Unplayable => stage'[j] = "settle"
      <4>1. stage'[j] = "lookup" => song'[j] \in Playable
        BY <1>0, <3>2 DEF TypeOK
      <4> HIDE DEF Resolve
      <4> QED
        BY <2>1, <4>1 DEF SongByStage
    <3> QED
      BY <1>0, <2>1, <3>1, <3>2 DEF TypeOK
  <2>3. InboxByStage(j)' /\ FileByStage(j)' /\ ScratchByStage(j)'
    BY <2>1 DEF InboxByStage, FileByStage, ScratchByStage
  <2>4. RowByStage(j)' /\ ErrByStage(j)'
    BY <1>0 DEF TypeOK, JobInv, RowByStage, ErrByStage
  <2>5. StatusByStage(j)'
    BY <1>0, <2>1 DEF JobInv, StatusByStage
  <2> QED
    BY <2>2, <2>3, <2>4, <2>5 DEF JobInv
<1> QED
  BY <1>1, <1>2, <1>3, <1>4 DEF StepOf

(* Lookup finds a file that was uploaded for the song, or none.            *)
LEMMA LookupStep ==
  ASSUME IInv, NEW j \in Jobs,
         Lookup(j)
  PROVE  StepOf(j)
<1> USE DEF Lookup
<1>0. TypeOK /\ RowsHeld /\ JobInv(j)
  BY Parts
<1>1. TypeOK'
  <2> HIDE DEF Goto, Abort, CtxDone, Edited
  <2>1. stage' \in [Jobs -> Stages]
    BY <1>0, Typed, StageNames, GotoTyped, AbortTyped, CtxDoneTyped
  <2>2. err' \in [Jobs -> {"none", "canceled", "failed"}]
    BY <1>0, Typed, AbortTyped, CtxDoneTyped
  <2>3. fileID' \in [Jobs -> Jobs \cup {NoFile}]
    BY <1>0 DEF TypeOK
  <2> QED
    BY <1>0, <2>1, <2>2, <2>3 DEF TypeOK
<1>2. \A k \in Jobs \ {j} : Untouched(k)
  BY <1>0 DEF TypeOK, Untouched
<1>3. Monotone /\ RowsHeld'
  BY <1>0, Quiet
<1>4. JobInv(j)'
  BY <1>0, JobRunAssumption DEF RowsHeld, TypeOK, JobInv, SongByStage, InboxByStage, FileByStage, ScratchByStage,
         RowByStage, ErrByStage, StatusByStage, Held
<1> QED
  BY <1>1, <1>2, <1>3, <1>4 DEF StepOf

(* DeliverCached posts a file some other request uploaded for the song.    *)
LEMMA RepostStep ==
  ASSUME IInv, NEW j \in Jobs, Repost(j)
  PROVE  StepOf(j)
<1> USE DEF Repost, SendFails, Posted
<1>0. TypeOK /\ RowsHeld /\ JobInv(j)
  BY Parts
<1> DEFINE f == fileID[j]
<1>1. /\ stage[j] = "resending" /\ inbox[j] = <<>>
      /\ f \in Jobs /\ song[f] = song[j] /\ inbox[f] = <<f>>
      /\ song[j] \in Playable /\ tracks[song[j]] # NoRow /\ j \notin scratch
  BY <1>0 DEF JobInv, SongByStage, InboxByStage, FileByStage, RowByStage,
              ScratchByStage, Held
<1>2. inbox' = inbox \/ inbox' = [inbox EXCEPT ![j] = <<f>>]
  BY <1>1, AppendFirst
<1>3. inbox' \in [Jobs -> Seq(Jobs)]
  <2>1. <<f>> \in Seq(Jobs)
    BY <1>1
  <2>2. inbox \in [Jobs -> Seq(Jobs)]
    BY <1>0 DEF TypeOK
  <2> QED
    BY <1>2, <2>1, <2>2
<1>4. TypeOK'
  <2> HIDE DEF Goto, Abort, CtxDone, Edited
  <2>1. stage' \in [Jobs -> Stages]
    BY <1>0, Typed, StageNames, GotoTyped, AbortTyped, CtxDoneTyped
  <2>2. err' \in [Jobs -> {"none", "canceled", "failed"}]
    BY <1>0, Typed, AbortTyped, CtxDoneTyped
  <2> QED
    BY <1>0, <1>3, <2>1, <2>2 DEF TypeOK
<1>5. \A k \in Jobs \ {j} : Untouched(k)
  BY <1>0 DEF TypeOK, Untouched
<1>6. \A g \in Jobs : inbox[g] = <<g>> => inbox'[g] = <<g>>
  BY <1>0, <1>1, <1>2, AppendFirst DEF TypeOK
<1>7. Monotone /\ RowsHeld'
  BY <1>0, <1>6 DEF TypeOK, Monotone, RowsHeld, Held
<1>8. JobInv(j)'
  <2>1. inbox'[j] = <<>> \/ (inbox'[j] = <<f>> /\ <<f>> # <<>>)
    BY <1>0, <1>1, <1>2, AppendFirst DEF TypeOK
  <2>2. inbox'[f] = <<f>> /\ song' = song /\ f \in Jobs
    BY <1>1, <1>6
  <2>3. stage'[j] = "clear" => inbox'[j] = <<f>>
    BY <1>0, <1>1, AppendFirst DEF TypeOK
  <2>4. stage'[j] \in {"clear", "settle"}
    BY <1>0, <1>1 DEF TypeOK
  <2>5. SongByStage(j)'
    BY <1>0, <1>1, <2>4 DEF SongByStage
  <2>6. InboxByStage(j)'
    <3>1. stage'[j] \notin Unsent
      BY <2>4
    <3>2. inbox'[j] = <<>> \/ \E g \in Jobs : inbox'[j] = <<g>> /\ Held(g, song[j])'
      BY <1>1, <2>1, <2>2 DEF Held
    <3>3. stage'[j] \in {"clear", "save", "delivered"} => inbox'[j] # <<>>
      BY <2>1, <2>3, <2>4
    <3> HIDE DEF Repost
    <3> QED
      BY <1>1, <2>2, <3>1, <3>2, <3>3 DEF InboxByStage
  <2>7. FileByStage(j)' /\ ScratchByStage(j)'
    BY <1>0, <1>1, <2>4 DEF FileByStage, ScratchByStage
  <2>8. RowByStage(j)' /\ ErrByStage(j)'
    BY <1>0, <1>1, <2>4 DEF TypeOK, JobInv, RowByStage, ErrByStage
  <2>9. StatusByStage(j)'
    BY <1>0, <1>1, <2>4 DEF JobInv, StatusByStage
  <2> QED
    BY <2>5, <2>6, <2>7, <2>8, <2>9 DEF JobInv
<1> QED
  BY <1>4, <1>5, <1>7, <1>8 DEF StepOf

(* Deliver posts the file under the request's own name.                    *)
LEMMA UploadStep ==
  ASSUME IInv, NEW j \in Jobs, Upload(j)
  PROVE  StepOf(j)
<1> USE DEF Upload, SendFails, Posted
<1>0. TypeOK /\ RowsHeld /\ JobInv(j)
  BY Parts
<1>1. /\ stage[j] = "sending" /\ inbox[j] = <<>> /\ fileID[j] = NoFile
      /\ song[j] \in Playable /\ j \in scratch
  BY <1>0 DEF JobInv, SongByStage, InboxByStage, FileByStage, ScratchByStage
<1>2. inbox' = inbox \/ inbox' = [inbox EXCEPT ![j] = <<j>>]
  BY <1>1, AppendFirst
<1>3. inbox' \in [Jobs -> Seq(Jobs)]
  <2>1. <<j>> \in Seq(Jobs)
    OBVIOUS
  <2>2. inbox \in [Jobs -> Seq(Jobs)]
    BY <1>0 DEF TypeOK
  <2> QED
    BY <1>2, <2>1, <2>2
<1>4. TypeOK'
  <2> HIDE DEF Goto, Abort, CtxDone, Edited
  <2>1. fileID' \in [Jobs -> Jobs \cup {NoFile}]
    BY <1>0 DEF TypeOK
  <2>2. stage' \in [Jobs -> Stages]
    BY <1>0, Typed, StageNames, GotoTyped, AbortTyped, CtxDoneTyped
  <2>3. err' \in [Jobs -> {"none", "canceled", "failed"}]
    BY <1>0, Typed, AbortTyped, CtxDoneTyped
  <2> QED
    BY <1>0, <1>3, <2>1, <2>2, <2>3 DEF TypeOK
<1>5. \A k \in Jobs \ {j} : Untouched(k)
  BY <1>0 DEF TypeOK, Untouched
<1>6. \A g \in Jobs : inbox[g] = <<g>> => inbox'[g] = <<g>>
  <2> HIDE DEF Upload
  <2>1. ASSUME NEW g \in Jobs, inbox[g] = <<g>> PROVE inbox'[g] = <<g>>
    <3>1. g # j
      BY <1>1, <2>1, AppendFirst
    <3> QED
      BY <1>0, <1>2, <2>1, <3>1 DEF TypeOK
  <2> QED
    BY <2>1
<1>7. Monotone /\ RowsHeld'
  BY <1>0, <1>6 DEF TypeOK, Monotone, RowsHeld, Held
<1>8. JobInv(j)'
  <2>1. inbox'[j] = <<>> \/ (inbox'[j] = <<j>> /\ <<j>> # <<>>)
    BY <1>0, <1>1, <1>2, AppendFirst DEF TypeOK
  <2>2. stage'[j] = "clear" => inbox'[j] = <<j>> /\ fileID'[j] \in {j, NoFile}
    BY <1>0, <1>1, AppendFirst DEF TypeOK
  <2>3. stage'[j] \in {"clear", "cleanup"}
    BY <1>0, <1>1 DEF TypeOK
  <2>4. SongByStage(j)'
    BY <1>0, <1>1, <2>3 DEF SongByStage
  <2>5. InboxByStage(j)'
    BY <1>1, <2>1, <2>2, <2>3 DEF InboxByStage, Held
  <2>6. FileByStage(j)' /\ ScratchByStage(j)'
    BY <1>0, <1>1, <2>2, <2>3 DEF FileByStage, ScratchByStage
  <2>7. RowByStage(j)' /\ ErrByStage(j)'
    BY <1>0, <1>1, <2>3 DEF TypeOK, JobInv, RowByStage, ErrByStage
  <2>8. StatusByStage(j)'
    BY <1>0, <1>1, <2>3 DEF JobInv, StatusByStage
  <2> QED
    BY <2>4, <2>5, <2>6, <2>7, <2>8 DEF JobInv
<1> QED
  BY <1>4, <1>5, <1>7, <1>8 DEF StepOf

(* Save names a file its request has just posted, or none.                 *)
LEMMA SaveStep ==
  ASSUME IInv, NEW j \in Jobs, Save(j)
  PROVE  StepOf(j)
<1> USE DEF Save
<1>0. TypeOK /\ RowsHeld /\ JobInv(j)
  BY Parts
<1>1. /\ stage[j] = "save" /\ inbox[j] = <<j>> /\ fileID[j] \in {j, NoFile}
      /\ song[j] \in Playable /\ j \in scratch /\ fileID[j] # NoRow
  BY <1>0, JobRunAssumption
     DEF JobInv, SongByStage, FileByStage, ScratchByStage
<1>2. TypeOK'
  <2> HIDE DEF Goto, Abort, CtxDone, Edited
  <2>1. stage' \in [Jobs -> Stages]
    BY <1>0, Typed, StageNames, GotoTyped, AbortTyped, CtxDoneTyped
  <2>2. err' \in [Jobs -> {"none", "canceled", "failed"}]
    BY <1>0, Typed, AbortTyped, CtxDoneTyped
  <2>3. tracks' \in [Videos -> Jobs \cup {NoFile, NoRow}]
    BY <1>0, <1>1 DEF TypeOK
  <2> QED
    BY <1>0, <2>1, <2>2, <2>3 DEF TypeOK
<1>3. \A k \in Jobs \ {j} : Untouched(k)
  BY <1>0 DEF TypeOK, Untouched
<1>4. \A v \in Videos : tracks'[v] = tracks[v] \/ (v = song[j] /\ tracks'[v] = fileID[j])
  BY <1>0 DEF TypeOK
<1>5. Monotone
  BY <1>1, <1>4 DEF Monotone
<1>6. RowsHeld'
  BY <1>0, <1>1, <1>4, JobRunAssumption DEF RowsHeld, Held
<1>7. JobInv(j)'
  <2>1. stage'[j] = "cleanup"
    BY <1>0, <1>1 DEF TypeOK
  <2>2. err'[j] = "none" => tracks'[song[j]] # NoRow
    BY <1>0, <1>1 DEF TypeOK
  <2>3. SongByStage(j)' /\ InboxByStage(j)' /\ FileByStage(j)'
    BY <1>0, <1>1, <2>1 DEF JobInv, SongByStage, InboxByStage, FileByStage, Held
  <2>4. ScratchByStage(j)' /\ RowByStage(j)'
    BY <1>1, <2>1, <2>2, AppendFirst DEF ScratchByStage, RowByStage
  <2>5. ErrByStage(j)' /\ StatusByStage(j)'
    BY <1>0, <1>1, <2>1, AppendFirst DEF TypeOK, JobInv, ErrByStage, StatusByStage
  <2> QED
    BY <2>3, <2>4, <2>5 DEF JobInv
<1> QED
  BY <1>2, <1>3, <1>5, <1>6, <1>7 DEF StepOf

(* The signal only turns live contexts into cancelled ones.                *)
LEMMA ShutdownKeeps ==
  ASSUME IInv, Shutdown
  PROVE  IInv'
<1>1. TypeOK'
  BY Parts DEF Shutdown, TypeOK
<1>2. RowsHeld'
  BY Parts, Quiet DEF Shutdown
<1>3. ASSUME NEW j \in Jobs PROVE JobInv(j)'
  <2>1. TypeOK /\ JobInv(j)
    BY Parts
  <2> QED
    BY <2>1 DEF Shutdown, TypeOK, JobInv, SongByStage, InboxByStage, FileByStage,
                ScratchByStage, RowByStage, ErrByStage, StatusByStage, Held
<1> QED
  BY <1>1, <1>2, <1>3 DEF IInv

(* A death loses what was in hand and keeps the table and the disk.        *)
LEMMA DieKeeps ==
  ASSUME IInv, Die
  PROVE  IInv'
<1>1. TypeOK'
  <2>1. deaths' \in 0..MaxDeaths
    BY Parts, JobRunAssumption DEF Die, TypeOK
  <2>2. stage' \in [Jobs -> Stages]
        /\ ctx' \in [Jobs -> {"none", "live", "expired", "canceled"}]
    BY Parts, StageNames DEF Die, TypeOK
  <2> QED
    BY Parts, <2>1, <2>2 DEF Die, TypeOK
<1>2. RowsHeld'
  BY Parts, Quiet DEF Die
<1>3. ASSUME NEW j \in Jobs PROVE JobInv(j)'
  <2>1. TypeOK /\ JobInv(j)
    BY Parts
  <2>2. stage'[j] = IF stage[j] \in Final \cup {"new"} THEN stage[j] ELSE "lost"
    BY DEF Die
  <2>3. ctx'[j] = "none"
    BY DEF Die
  <2> QED
    BY <2>1, <2>2, <2>3
       DEF Die, TypeOK, JobInv, SongByStage, InboxByStage, FileByStage,
           ScratchByStage, RowByStage, ErrByStage, StatusByStage, Held
<1> QED
  BY <1>1, <1>2, <1>3 DEF IInv

(* At the start nobody has anything.                                       *)
LEMMA InitIInv == Init => IInv
<1> SUFFICES ASSUME Init PROVE IInv
  OBVIOUS
<1>1. TypeOK
  <2>1. 0 \in 0..MaxDeaths
    BY JobRunAssumption
  <2>2. inbox \in [Jobs -> Seq(Jobs)]
    BY DEF Init
  <2>3. /\ stage \in [Jobs -> Stages]
        /\ ctx \in [Jobs -> {"none", "live", "expired", "canceled"}]
        /\ err \in [Jobs -> {"none", "canceled", "failed"}]
        /\ status \in [Jobs -> Texts]
    BY StageNames DEF Init
  <2>4. /\ song \in [Jobs -> Videos \cup {NoVideo}]
        /\ fileID \in [Jobs -> Jobs \cup {NoFile}]
        /\ tracks \in [Videos -> Jobs \cup {NoFile, NoRow}]
    BY DEF Init
  <2> QED
    BY <2>1, <2>2, <2>3, <2>4 DEF Init, TypeOK
<1>2. RowsHeld
  BY JobRunAssumption DEF Init, RowsHeld
<1>3. ASSUME NEW j \in Jobs PROVE JobInv(j)
  BY DEF Init, JobInv, SongByStage, InboxByStage, FileByStage, ScratchByStage,
         RowByStage, ErrByStage, StatusByStage
<1> QED
  BY <1>1, <1>2, <1>3 DEF IInv

(* A step of a request is a step of no other.                              *)
LEMMA StepsTouchOne ==
  ASSUME IInv, NEW j \in Jobs,
         Handle(j) \/ Begin(j) \/ Run(j) \/ ReportProgress(j) \/ Expire(j)
  PROVE  StepOf(j) /\ \A k \in Jobs \ {j} : Untouched(k)
<1>1. StepOf(j)
  <2>1. CASE Handle(j) \/ Begin(j)
    BY <2>1, HandlerSteps
  <2>2. CASE Run(j)
    BY <2>2, QuietSteps, ResolveStep, LookupStep, RepostStep, UploadStep, SaveStep,
       EndSteps DEF Run
  <2>3. CASE ReportProgress(j) \/ Expire(j)
    BY <2>3, QuietSteps, EndSteps
  <2> QED
    BY <2>1, <2>2, <2>3
<1> QED
  BY <1>1 DEF StepOf

(* Every step keeps the invariant.                                         *)
LEMMA NextKeeps == IInv /\ [Next]_vars => IInv'
<1> SUFFICES ASSUME IInv, [Next]_vars PROVE IInv'
  OBVIOUS
<1>1. ASSUME NEW j \in Jobs,
             Handle(j) \/ Begin(j) \/ Run(j) \/ ReportProgress(j) \/ Expire(j)
      PROVE  IInv'
  BY <1>1, StepsTouchOne, StepKeeps
<1>2. CASE UNCHANGED vars
  <2>1. TypeOK'
    BY <1>2, Parts DEF vars, TypeOK
  <2>2. Monotone /\ RowsHeld'
    BY <1>2, Parts, Quiet DEF vars
  <2>3. ASSUME NEW j \in Jobs PROVE JobInv(j)'
    <3>1. Untouched(j)
      BY <1>2 DEF vars, Untouched
    <3> QED
      BY <2>2, <3>1, Parts, OthersKeep
  <2> QED
    BY <2>1, <2>2, <2>3 DEF IInv
<1> QED
  BY <1>1, <1>2, ShutdownKeeps, DieKeeps DEF Next, Done

(* One action settles a request without a word.                            *)
LEMMA OnlySettleAbandons ==
  ASSUME IInv, [Next]_vars, NEW j \in Jobs,
         stage[j] # "abandoned", stage'[j] = "abandoned"
  PROVE  Settle(j)
<1>1. ASSUME NEW k \in Jobs,
             Handle(k) \/ Begin(k) \/ Run(k) \/ ReportProgress(k) \/ Expire(k)
      PROVE  Settle(j)
  <2>1. k = j
    BY <1>1, StepsTouchOne DEF Untouched
  <2> QED
    BY <1>1, <2>1, Parts
       DEF Handle, Drop, PlaceStatus, Submit, TellRefused, Begin, Run, Searching,
           AnnounceDownload, NoteUpload, Announce, Search, NoMatch, Resolve, Lookup,
           Resend, Repost, SendFails, Mkdir, Download, NoOutput, TooLarge, Deliver,
           Upload, ClearStatus, Save, Cleanup, Notify, ReportProgress, Expire, TypeOK
<1>2. ~Shutdown /\ ~Die /\ ~UNCHANGED vars
  BY Parts DEF Shutdown, Die, vars, TypeOK
<1> QED
  BY <1>1, <1>2 DEF Next, Done

-----------------------------------------------------------------------------

(* Whatever happens, every request has in its hands what its stage says.   *)
THEOREM Invariance == Spec => []IInv
  BY InitIInv, NextKeeps, PTL DEF Spec

(* No stage, context, error, message or file outside those named; the      *)
(* table holds files of requests or none (process, run and fetch).         *)
THEOREM TypeCorrect == Spec => []TypeOK
<1>1. IInv => TypeOK
  BY DEF IInv
<1> QED
  BY <1>1, Invariance, PTL

(* Nobody gets somebody else's song, and the cache names only what was     *)
(* delivered, however many jobs race and however often the process dies    *)
(* (run and fetch).                                                        *)
THEOREM EverybodyGetsTheirSong == Spec => []RightSong
<1>1. IInv => RightSong
  <2> SUFFICES ASSUME IInv PROVE RightSong
    OBVIOUS
  <2>1. \A f \in Jobs : inbox[f] = <<f>> => Uploaded(f)
    BY DEF Uploaded
  <2>2. ASSUME NEW j \in Jobs, NEW i \in DOMAIN inbox[j]
        PROVE  song[inbox[j][i]] = song[j] /\ Uploaded(inbox[j][i])
    <3>1. inbox[j] # <<>>
      BY <2>2
    <3>2. PICK f \in Jobs : inbox[j] = <<f>> /\ Held(f, song[j])
      BY <3>1, Parts DEF JobInv, InboxByStage
    <3>3. inbox[j][i] = f
      BY <2>2, <3>2
    <3> QED
      BY <2>1, <3>2, <3>3 DEF Held
  <2>3. ASSUME NEW v \in Videos, tracks[v] \in Jobs
        PROVE  song[tracks[v]] = v /\ Uploaded(tracks[v])
    BY <2>1, <2>3, Parts DEF RowsHeld, Held
  <2> QED
    BY <2>2, <2>3 DEF RightSong
<1> QED
  BY <1>1, Invariance, PTL

(* A job counted as delivered sent one file and left a row behind          *)
(* (process).                                                              *)
THEOREM DeliveryIsComplete == Spec => []DeliveredIsDone
<1>1. IInv => DeliveredIsDone
  <2> SUFFICES ASSUME IInv, NEW j \in Jobs, stage[j] = "delivered"
               PROVE  Len(inbox[j]) = 1 /\ tracks[song[j]] # NoRow
    BY DEF DeliveredIsDone
  <2>1. inbox[j] # <<>> /\ tracks[song[j]] # NoRow
    BY Parts DEF JobInv, RowByStage
  <2>2. PICK f \in Jobs : inbox[j] = <<f>>
    BY <2>1, Parts DEF JobInv, InboxByStage
  <2> QED
    BY <2>1, <2>2
<1> QED
  BY <1>1, Invariance, PTL

(* A request that failed or was refused is told so, unless that very       *)
(* message fails; abandoned and lost ones are not (process, Fail).         *)
THEOREM FailureIsTold == Spec => []NobodyLeftWaiting
<1>1. IInv => NobodyLeftWaiting
  BY Parts DEF NobodyLeftWaiting, JobInv, StatusByStage
<1> QED
  BY <1>1, Invariance, PTL

(* No scratch directory outlives its job, unless its removal fails or the  *)
(* process dies (fetch).                                                   *)
THEOREM ScratchGoes == Spec => []ScratchIsRemoved
<1>1. IInv => ScratchIsRemoved
  BY Parts DEF ScratchIsRemoved, JobInv, ScratchByStage, TypeOK
<1> QED
  BY <1>1, Invariance, PTL

(* What is live or too long is never downloaded or sent (run).             *)
THEOREM NothingUnplayableMoves == Spec => []RefusedUntransferred
<1>1. IInv => RefusedUntransferred
  BY Parts DEF RefusedUntransferred, JobInv, InboxByStage, ScratchByStage
<1> QED
  BY <1>1, Invariance, PTL

(* Only a cancelled job is dropped without a word, and only a shutdown     *)
(* cancels (process).                                                      *)
THEOREM SilenceIsForShutdowns == Spec => AbandonedOnlyWhenStopping
<1>1. ASSUME IInv, [Next]_vars, NEW j \in Jobs,
             stage[j] # "abandoned", stage'[j] = "abandoned"
      PROVE  stopping /\ ctx[j] = "canceled"
  <2>1. TypeOK /\ JobInv(j)
    BY <1>1, Parts
  <2>2. Settle(j)
    BY <1>1, <2>1, OnlySettleAbandons
  <2>3. stage[j] = "settle" /\ err[j] = "canceled"
    BY <1>1, <2>1, <2>2 DEF Settle, Outcome, TypeOK
  <2> QED
    BY <2>1, <2>3 DEF JobInv, ErrByStage
<1>2. IInv /\ [Next]_vars =>
        [\A j \in Jobs : stage[j] # "abandoned" /\ stage'[j] = "abandoned" =>
           stopping /\ ctx[j] = "canceled"]_vars
  BY <1>1
<1> QED
  BY <1>2, Invariance, PTL DEF Spec, AbandonedOnlyWhenStopping

-----------------------------------------------------------------------------
(* Progress.  The calls of a request come in an order that no failure, no  *)
(* deadline and no stop turns round.                                       *)

Rank(s) ==
  CASE s = "new" -> 0
    [] s = "placed" -> 1
    [] s \in {"queued", "refusing"} -> 2
    [] s = "searching" -> 3
    [] s = "search" -> 4
    [] s = "resolve" -> 5
    [] s = "lookup" -> 6
    [] s \in {"resend", "mkdir"} -> 7
    [] s = "announce" -> 8
    [] s = "download" -> 9
    [] s = "note" -> 10
    [] s = "send" -> 11
    [] s \in Sending -> 12
    [] s = "clear" -> 13
    [] s = "save" -> 14
    [] s = "cleanup" -> 15
    [] s = "settle" -> 16
    [] s = "notify" -> 17
    [] s \in Final -> 18

Forward(j) == Rank(stage'[j]) > Rank(stage[j])

(* A request only ever moves on: what the handler, the worker and process  *)
(* do for it takes it a call further, and nothing takes it back, so no     *)
(* call is made twice and a job is at its end after at most one of each    *)
(* (service.go, process, run and fetch).                                   *)
OnlyForward ==
  [][\A j \in Jobs :
       /\ stage'[j] = stage[j] \/ Forward(j)
       /\ Handle(j) \/ Begin(j) \/ Run(j) => Forward(j)]_vars

LEMMA HandlerMovesOn ==
  ASSUME TypeOK, NEW j \in Jobs, Handle(j) \/ Begin(j)
  PROVE  Forward(j)
<1>1. CASE Drop(j)
  BY <1>1 DEF Drop, Goto, TypeOK, Forward, Rank, Final
<1>2. CASE PlaceStatus(j)
  BY <1>2 DEF PlaceStatus, Goto, TypeOK, Forward, Rank, Final
<1>3. CASE Submit(j)
  BY <1>3 DEF Submit, Goto, TypeOK, Forward, Rank, Final
<1>4. CASE TellRefused(j)
  BY <1>4 DEF TellRefused, Goto, TypeOK, Forward, Rank, Final
<1>5. CASE Begin(j)
  BY <1>5 DEF Begin, Goto, TypeOK, Forward, Rank, Final
<1> QED
  BY <1>1, <1>2, <1>3, <1>4, <1>5 DEF Handle

(* What fails ends, by way of the clean-up if there is something to clean. *)
LEMMA AbortMovesOn ==
  ASSUME TypeOK, NEW j \in Jobs, NEW e, Abort(j, e),
         stage[j] \in InHand \ {"cleanup", "settle", "notify"}
  PROVE  Forward(j)
<1>1. stage'[j] \in {"cleanup", "settle"}
  BY DEF Abort, Goto, TypeOK
<1>2. Rank(stage'[j]) \in {15, 16}
  BY <1>1 DEF Rank, Final
<1>3. Rank(stage[j]) \in 3..14
  BY DEF Rank, Final, InHand, Fetching
<1> QED
  BY <1>2, <1>3 DEF Forward

LEMMA CallMovesOn ==
  ASSUME TypeOK, NEW j \in Jobs, Run(j)
  PROVE  Forward(j)
<1> USE DEF Goto
<1>1. CASE Searching(j) \/ AnnounceDownload(j) \/ NoteUpload(j)
  <2>1. PICK e : \/ Abort(j, e)
                 \/ stage[j] = "searching" /\ stage'[j] = "search"
                 \/ stage[j] = "announce" /\ stage'[j] = "download"
                 \/ stage[j] = "note" /\ stage'[j] = "send"
    BY <1>1 DEF Searching, AnnounceDownload, NoteUpload, Announce, CtxDone,
                WaitTooLong, TypeOK
  <2>2. stage[j] \in {"searching", "announce", "note"}
    BY <1>1 DEF Searching, AnnounceDownload, NoteUpload
  <2>3. CASE Abort(j, e)
    BY <2>2, <2>3, AbortMovesOn DEF InHand, Fetching
  <2>4. CASE ~Abort(j, e)
    BY <2>1, <2>2, <2>4 DEF Forward, Rank, Final
  <2> QED
    BY <2>3, <2>4
<1>2. CASE Search(j) \/ Resolve(j)
  <2>1. PICK e : Abort(j, e) \/ stage'[j] = IF stage[j] = "search" THEN "resolve" ELSE "lookup"
    BY <1>2 DEF Search, Resolve, CtxDone, YtdlpFails, NoMatch, TypeOK
  <2>2. stage[j] \in {"search", "resolve"}
    BY <1>2 DEF Search, Resolve
  <2>3. CASE Abort(j, e)
    BY <2>2, <2>3, AbortMovesOn DEF InHand, Fetching
  <2>4. CASE ~Abort(j, e)
    BY <2>1, <2>2, <2>4 DEF Forward, Rank, Final
  <2> QED
    BY <2>3, <2>4
<1>3. CASE Lookup(j)
  <2>1. PICK e : Abort(j, e) \/ stage'[j] \in {"resend", "mkdir"}
    BY <1>3 DEF Lookup, CtxDone, TypeOK
  <2>2. stage[j] = "lookup"
    BY <1>3 DEF Lookup
  <2>3. CASE Abort(j, e)
    BY <2>2, <2>3, AbortMovesOn DEF InHand, Fetching
  <2>4. CASE ~Abort(j, e)
    BY <2>1, <2>2, <2>4 DEF Forward, Rank, Final
  <2> QED
    BY <2>3, <2>4
<1>4. CASE Resend(j) \/ Deliver(j)
  <2>1. PICK e : Abort(j, e) \/ stage'[j] \in Sending
    BY <1>4 DEF Resend, Deliver, StartSend, CtxDone, WaitTooLong, TypeOK
  <2>2. stage[j] \in {"resend", "send"}
    BY <1>4 DEF Resend, Deliver
  <2>3. CASE Abort(j, e)
    BY <2>2, <2>3, AbortMovesOn DEF InHand, Fetching
  <2>4. CASE ~Abort(j, e)
    BY <2>1, <2>2, <2>4 DEF Forward, Rank, Final
  <2> QED
    BY <2>3, <2>4
<1>10. CASE Repost(j) \/ Upload(j)
  <2>1. PICK e : Abort(j, e) \/ stage'[j] = "clear"
    BY <1>10 DEF Repost, Upload, CtxDone, SendFails, TypeOK
  <2>2. stage[j] \in Sending
    BY <1>10 DEF Repost, Upload
  <2>3. CASE Abort(j, e)
    BY <2>2, <2>3, AbortMovesOn DEF InHand, Fetching
  <2>4. CASE ~Abort(j, e)
    BY <2>1, <2>2, <2>4 DEF Forward, Rank, Final
  <2> QED
    BY <2>3, <2>4
<1>5. CASE Mkdir(j) \/ Download(j)
  <2>1. PICK e : Abort(j, e) \/ stage'[j] = IF stage[j] = "mkdir" THEN "announce" ELSE "note"
    BY <1>5 DEF Mkdir, Download, CtxDone, YtdlpFails, NoOutput, TooLarge, TypeOK
  <2>2. stage[j] \in {"mkdir", "download"}
    BY <1>5 DEF Mkdir, Download
  <2>3. CASE Abort(j, e)
    BY <2>2, <2>3, AbortMovesOn DEF InHand, Fetching
  <2>4. CASE ~Abort(j, e)
    BY <2>1, <2>2, <2>4 DEF Forward, Rank, Final
  <2> QED
    BY <2>3, <2>4
<1>6. CASE ClearStatus(j)
  BY <1>6 DEF ClearStatus, TypeOK, Forward, Rank, Final
<1>7. CASE Save(j)
  <2>1. PICK e : Abort(j, e) \/ stage'[j] = "cleanup"
    BY <1>7 DEF Save, CtxDone, TypeOK
  <2>2. stage[j] = "save"
    BY <1>7 DEF Save
  <2>3. CASE Abort(j, e)
    BY <2>2, <2>3, AbortMovesOn DEF InHand, Fetching
  <2>4. CASE ~Abort(j, e)
    BY <2>1, <2>2, <2>4 DEF Forward, Rank, Final
  <2> QED
    BY <2>3, <2>4
<1>8. CASE Cleanup(j)
  BY <1>8 DEF Cleanup, TypeOK, Forward, Rank, Final
<1>9. CASE Settle(j) \/ Notify(j)
  BY <1>9 DEF Settle, Outcome, Notify, TypeOK, Forward, Rank, Final
<1> QED
  BY <1>1, <1>2, <1>3, <1>4, <1>5, <1>6, <1>7, <1>8, <1>9, <1>10 DEF Run

(* No request goes back, and no call is made twice, whatever fails, runs   *)
(* out of time or is stopped: the measure that falls on the way to the end *)
(* of every job (process, run and fetch).                                  *)
THEOREM NobodyGoesBack == Spec => OnlyForward
<1> DEFINE Moves(k) ==
      /\ stage'[k] = stage[k] \/ Forward(k)
      /\ Handle(k) \/ Begin(k) \/ Run(k) => Forward(k)
<1>1. ASSUME IInv, [Next]_vars, vars' # vars, NEW k \in Jobs
      PROVE  Moves(k)
  <2>1. TypeOK
    BY <1>1, Parts
  <2>2. Handle(k) \/ Begin(k) \/ Run(k) => Forward(k)
    BY <2>1, HandlerMovesOn, CallMovesOn
  <2>3. ASSUME NEW j \in Jobs,
               Handle(j) \/ Begin(j) \/ Run(j) \/ ReportProgress(j) \/ Expire(j)
        PROVE  stage'[k] = stage[k] \/ Forward(k)
    <3>1. j # k => stage'[k] = stage[k]
      BY <1>1, <2>3, StepsTouchOne DEF Untouched
    <3>2. ReportProgress(j) \/ Expire(j) => stage' = stage
      BY DEF ReportProgress, Expire
    <3> QED
      BY <2>2, <2>3, <3>1, <3>2
  <2>4. Shutdown => stage' = stage
    BY DEF Shutdown
  <2>5. ASSUME Die PROVE stage'[k] = stage[k] \/ Forward(k)
    <3>1. stage'[k] = stage[k] \/ (stage[k] \notin Final /\ stage'[k] = "lost")
      BY <2>5 DEF Die
    <3>2. stage[k] \in Stages
      BY <2>1 DEF TypeOK
    <3> QED
      BY <3>1, <3>2 DEF Forward, Rank, Final, Stages, InHand, Fetching
  <2>6. stage'[k] = stage[k] \/ Forward(k)
    BY <1>1, <2>3, <2>4, <2>5 DEF Next, Done, vars
  <2> QED
    BY <2>2, <2>6
<1>2. IInv /\ [Next]_vars =>
        [\A j \in Jobs :
           /\ stage'[j] = stage[j] \/ Forward(j)
           /\ Handle(j) \/ Begin(j) \/ Run(j) => Forward(j)]_vars
  BY <1>1
<1> QED
  BY <1>2, Invariance, PTL DEF Spec, OnlyForward

-----------------------------------------------------------------------------
(* The code implements SongDelivery: identifying, sending, remembering and *)
(* settling are steps of the promise, everything else is hidden from it.   *)

(* A request that is pending before a step and after it.                   *)
LEMMA StillPending ==
  ASSUME TypeOK, NEW j \in Jobs, \A k \in Jobs \ {j} : Untouched(k),
         stage[j] \notin Final, stage'[j] \notin Final
  PROVE  /\ UNCHANGED [k \in Jobs |-> OutcomeOf(k)]
         /\ OutcomeOf(j) = "pending"
<1>1. \A k \in Jobs : OutcomeOf(k)' = OutcomeOf(k)
  BY DEF OutcomeOf, Untouched
<1> QED
  BY <1>1 DEF OutcomeOf

(* What the promise does not see.                                          *)
LEMMA HiddenSteps ==
  ASSUME IInv, NEW j \in Jobs,
         \/ PlaceStatus(j) \/ Submit(j) \/ Begin(j) \/ Searching(j) \/ Search(j)
         \/ Lookup(j) \/ Mkdir(j) \/ AnnounceDownload(j) \/ ReportProgress(j)
         \/ Download(j) \/ NoteUpload(j) \/ Resend(j) \/ Deliver(j) \/ ClearStatus(j)
         \/ Cleanup(j) \/ Expire(j)
  PROVE  UNCHANGED SD!vars
<1> USE DEF PlaceStatus, Submit, Begin, Searching, Announce, AnnounceDownload,
            NoteUpload, Search, NoMatch, Lookup, Mkdir, ReportProgress, Download,
            NoOutput, TooLarge, Resend, Deliver, ClearStatus, DeleteStatus, Cleanup,
            Expire
<1>1. TypeOK
  BY Parts
<1>2. UNCHANGED <<song, inbox, tracks, stopping>>
  OBVIOUS
<1>3. \A k \in Jobs : stage'[k] \in Final <=> stage[k] \in Final
  BY <1>1 DEF TypeOK
<1>4. \A k \in Jobs : stage[k] \in Final => stage'[k] = stage[k]
  BY <1>1 DEF TypeOK
<1>5. \A k \in Jobs : OutcomeOf(k)' = OutcomeOf(k)
  BY <1>3, <1>4 DEF OutcomeOf
<1> QED
  BY <1>2, <1>5 DEF SD!vars

(* What it does see, one lemma for each.                                   *)
LEMMA ResolveIdentifies ==
  ASSUME IInv, NEW j \in Jobs, Resolve(j)
  PROVE  (\E v \in Videos : SD!Identify(j, v)) \/ UNCHANGED SD!vars
<1> USE DEF Resolve
<1>0. TypeOK /\ JobInv(j) /\ \A k \in Jobs \ {j} : Untouched(k)
  BY Parts, ResolveStep DEF StepOf
<1>1. stage[j] = "resolve" /\ song[j] = NoVideo /\ stage'[j] \notin Final
  BY <1>0 DEF TypeOK, JobInv, SongByStage
<1>2. /\ UNCHANGED [k \in Jobs |-> OutcomeOf(k)]
      /\ OutcomeOf(j) = "pending"
  BY <1>0, <1>1, StillPending
<1>3. UNCHANGED <<inbox, tracks, stopping>>
  OBVIOUS
<1>4. CASE UNCHANGED song
  BY <1>2, <1>3, <1>4 DEF SD!vars
<1>5. CASE \E v \in Videos : song' = [song EXCEPT ![j] = v]
  BY <1>1, <1>2, <1>3, <1>5 DEF SD!Identify, SD!Pending
<1> QED
  BY <1>4, <1>5

LEMMA RepostSends ==
  ASSUME IInv, NEW j \in Jobs, Repost(j)
  PROVE  (\E f \in Jobs : SD!Send(j, f)) \/ UNCHANGED SD!vars
<1> USE DEF Repost, SendFails, Posted
<1>0. TypeOK /\ JobInv(j) /\ \A k \in Jobs \ {j} : Untouched(k)
  BY Parts, RepostStep DEF StepOf
<1> DEFINE f == fileID[j]
<1>1. /\ stage[j] = "resending" /\ inbox[j] = <<>> /\ song[j] \in Playable
      /\ f \in Jobs /\ Held(f, song[j]) /\ stage'[j] \notin Final
  BY <1>0 DEF TypeOK, JobInv, SongByStage, InboxByStage, FileByStage
<1>2. /\ UNCHANGED [k \in Jobs |-> OutcomeOf(k)]
      /\ OutcomeOf(j) = "pending"
  BY <1>0, <1>1, StillPending
<1>3. inbox' = inbox \/ inbox' = [inbox EXCEPT ![j] = <<f>>]
  BY <1>1, AppendFirst
<1>4. SD!Holds(f, song[j])
  BY <1>1 DEF SD!Holds, Held
<1>5. UNCHANGED <<song, tracks, stopping>>
  OBVIOUS
<1>6. CASE inbox' = inbox
  BY <1>2, <1>5, <1>6 DEF SD!vars
<1>7. CASE inbox' = [inbox EXCEPT ![j] = <<f>>]
  <2>1. SD!Send(j, f)
    BY <1>1, <1>2, <1>4, <1>5, <1>7 DEF SD!Send, SD!Pending
  <2> QED
    BY <1>1, <2>1
<1> QED
  BY <1>3, <1>6, <1>7

LEMMA UploadSends ==
  ASSUME IInv, NEW j \in Jobs, Upload(j)
  PROVE  SD!Send(j, j) \/ UNCHANGED SD!vars
<1> USE DEF Upload, SendFails, Posted
<1>0. TypeOK /\ JobInv(j) /\ \A k \in Jobs \ {j} : Untouched(k)
  BY Parts, UploadStep DEF StepOf
<1>1. /\ stage[j] = "sending" /\ inbox[j] = <<>> /\ song[j] \in Playable
      /\ stage'[j] \notin Final
  BY <1>0 DEF TypeOK, JobInv, SongByStage, InboxByStage
<1>2. /\ UNCHANGED [k \in Jobs |-> OutcomeOf(k)]
      /\ OutcomeOf(j) = "pending"
  BY <1>0, <1>1, StillPending
<1>3. inbox' = inbox \/ inbox' = [inbox EXCEPT ![j] = <<j>>]
  BY <1>1, AppendFirst
<1>4. UNCHANGED <<song, tracks, stopping>>
  OBVIOUS
<1>5. CASE inbox' = inbox
  BY <1>2, <1>4, <1>5 DEF SD!vars
<1>6. CASE inbox' = [inbox EXCEPT ![j] = <<j>>]
  BY <1>1, <1>2, <1>4, <1>6 DEF SD!Send, SD!Pending
<1> QED
  BY <1>3, <1>5, <1>6

LEMMA SaveRemembers ==
  ASSUME IInv, NEW j \in Jobs, Save(j)
  PROVE  SD!Remember(j, fileID[j]) \/ UNCHANGED SD!vars
<1> USE DEF Save
<1>0. TypeOK /\ JobInv(j) /\ \A k \in Jobs \ {j} : Untouched(k)
  BY Parts, SaveStep DEF StepOf
<1>1. /\ stage[j] = "save" /\ inbox[j] = <<j>> /\ fileID[j] \in {j, NoFile}
      /\ stage'[j] \notin Final
  BY <1>0 DEF TypeOK, JobInv, FileByStage
<1>2. /\ UNCHANGED [k \in Jobs |-> OutcomeOf(k)]
      /\ OutcomeOf(j) = "pending"
  BY <1>0, <1>1, StillPending
<1>3. UNCHANGED <<song, inbox, stopping>>
  OBVIOUS
<1>4. CASE UNCHANGED tracks
  BY <1>2, <1>3, <1>4 DEF SD!vars
<1>5. CASE tracks' = [tracks EXCEPT ![song[j]] = fileID[j]]
  BY <1>1, <1>2, <1>3, <1>5 DEF SD!Remember, SD!Pending
<1> QED
  BY <1>4, <1>5

(* The steps that end a request.                                           *)
LEMMA EndingSettles ==
  ASSUME IInv, NEW j \in Jobs,
         Drop(j) \/ TellRefused(j) \/ Settle(j) \/ Notify(j)
  PROVE  SD!Settle(j) \/ UNCHANGED SD!vars
<1> USE DEF Drop, TellRefused, Settle, Outcome, Notify
<1>0. TypeOK /\ JobInv(j) /\ \A k \in Jobs \ {j} : Untouched(k)
  BY Parts, StepsTouchOne DEF Handle, Run
<1>1. UNCHANGED <<song, inbox, tracks, stopping>>
  OBVIOUS
<1>2. stage[j] \in {"new", "refusing", "settle", "notify"}
  OBVIOUS
<1>3. /\ OutcomeOf(j) = "pending"
      /\ [k \in Jobs |-> OutcomeOf(k)]' =
           [[k \in Jobs |-> OutcomeOf(k)] EXCEPT ![j] = OutcomeOf(j)']
  <2>1. OutcomeOf(j) = "pending"
    BY <1>2 DEF OutcomeOf
  <2>2. \A k \in Jobs \ {j} : OutcomeOf(k)' = OutcomeOf(k)
    BY <1>0 DEF OutcomeOf, Untouched
  <2> HIDE DEF Drop, TellRefused, Settle, Notify
  <2> QED
    BY <2>1, <2>2
<1>4. CASE stage'[j] = "notify"
  <2>1. UNCHANGED [k \in Jobs |-> OutcomeOf(k)]
    BY <1>0, <1>2, <1>4, StillPending
  <2> QED
    BY <1>1, <2>1 DEF SD!vars
<1>5. CASE stage'[j] \in {"dropped", "refused"}
  <2>1. song[j] = NoVideo /\ OutcomeOf(j)' = "turned_away"
    BY <1>0, <1>5 DEF TypeOK, JobInv, SongByStage, OutcomeOf
  <2> QED
    BY <1>1, <1>3, <2>1 DEF SD!Settle, SD!Pending
<1>6. CASE stage'[j] = "failed"
  <2>1. OutcomeOf(j)' = "failed"
    BY <1>6 DEF OutcomeOf
  <2> QED
    BY <1>1, <1>3, <2>1 DEF SD!Settle, SD!Pending
<1>7. CASE stage'[j] = "abandoned"
  <2>1. stopping /\ OutcomeOf(j)' = "abandoned"
    BY <1>0, <1>7 DEF TypeOK, JobInv, ErrByStage, OutcomeOf
  <2> QED
    BY <1>1, <1>3, <2>1 DEF SD!Settle, SD!Pending
<1>8. CASE stage'[j] = "delivered"
  <2>1. /\ inbox[j] # <<>> /\ tracks[song[j]] # NoRow
        /\ OutcomeOf(j)' = "delivered"
    BY <1>0, <1>8 DEF TypeOK, JobInv, RowByStage, OutcomeOf
  <2> QED
    BY <1>1, <1>3, <2>1 DEF SD!Settle, SD!Pending
<1> QED
  BY <1>0, <1>2, <1>4, <1>5, <1>6, <1>7, <1>8 DEF TypeOK

(* The process as a whole.                                                 *)
LEMMA ProcessStops ==
  ASSUME IInv, Shutdown
  PROVE  SD!Stop
<1>1. UNCHANGED [k \in Jobs |-> OutcomeOf(k)]
  BY DEF Shutdown, OutcomeOf
<1> QED
  BY <1>1 DEF Shutdown, SD!Stop

LEMMA DeathRestarts ==
  ASSUME IInv, Die
  PROVE  SD!Restart
<1> DEFINE out == [k \in Jobs |-> OutcomeOf(k)]
<1>0. TypeOK
  BY Parts
<1>1. ASSUME NEW k \in Jobs
      PROVE  /\ OutcomeOf(k)' \in SD!Outcomes
             /\ OutcomeOf(k)' \in {OutcomeOf(k), "lost"}
             /\ OutcomeOf(k) # "pending" => OutcomeOf(k)' = OutcomeOf(k)
  <2>1. stage'[k] = IF stage[k] \in Final \cup {"new"} THEN stage[k] ELSE "lost"
    BY DEF Die
  <2> QED
    BY <1>0, <2>1 DEF TypeOK, OutcomeOf, SD!Outcomes
<1>2. out' \in [Jobs -> SD!Outcomes]
  BY <1>1
<1> QED
  BY <1>1, <1>2 DEF Die, SD!Restart, SD!Pending

(* Whichever jobs race, whatever fails and whenever the process dies, the  *)
(* code does nothing the promise does not allow (process, run and fetch).  *)
THEOREM CodeKeepsPromise == Spec => ImplementsSongDelivery
<1>1. Init => SD!Init
  BY DEF Init, SD!Init, OutcomeOf
<1>2. IInv /\ [Next]_vars => [SD!Next]_(SD!vars)
  <2> SUFFICES ASSUME IInv, [Next]_vars
               PROVE  SD!Next \/ UNCHANGED SD!vars
    OBVIOUS
  <2>1. ASSUME NEW j \in Jobs,
               Handle(j) \/ Begin(j) \/ Run(j) \/ ReportProgress(j) \/ Expire(j)
        PROVE  SD!Next \/ UNCHANGED SD!vars
    <3>1. CASE Resolve(j)
      BY <3>1, ResolveIdentifies DEF SD!Next
    <3>2. CASE Repost(j)
      BY <3>2, RepostSends DEF SD!Next
    <3>3. CASE Upload(j)
      BY <3>3, UploadSends DEF SD!Next
    <3>4. CASE Save(j)
      <4>1. fileID[j] \in Jobs \cup {NoFile}
        BY Parts DEF TypeOK
      <4> QED
        BY <3>4, <4>1, SaveRemembers DEF SD!Next
    <3>5. CASE Drop(j) \/ TellRefused(j) \/ Settle(j) \/ Notify(j)
      BY <3>5, EndingSettles DEF SD!Next
    <3> QED
      BY <2>1, <3>1, <3>2, <3>3, <3>4, <3>5, HiddenSteps DEF Handle, Run
  <2>2. CASE Shutdown
    BY <2>2, ProcessStops DEF SD!Next
  <2>3. CASE Die
    BY <2>3, DeathRestarts DEF SD!Next
  <2>4. CASE UNCHANGED vars
    BY <2>4 DEF vars, SD!vars, OutcomeOf
  <2> QED
    BY <2>1, <2>2, <2>3, <2>4 DEF Next, Done
<1> QED
  BY <1>1, <1>2, Invariance, PTL DEF ImplementsSongDelivery, SD!Spec, Spec

=============================================================================
