---------------------------- MODULE SongDelivery ----------------------------
(***************************************************************************)
(* What a user is promised, with no stages, contexts or status messages:   *)
(* a request is settled once, is answered with at most one file, and that  *)
(* file holds the song the request resolved to, uploaded for it or for an  *)
(* earlier request of the same song.  The library never holds a file that  *)
(* was not delivered.  JobRun.tla is the code that implements this.        *)
(*                                                                         *)
(* A file is named by the request it was first uploaded for.               *)
(***************************************************************************)
EXTENDS Sequences

CONSTANTS Jobs, Videos, Unplayable, NoVideo, NoFile, NoRow

VARIABLES
  wanted,     \* the song each request resolved to
  sent,       \* the files sent in answer to each request
  library,    \* the file remembered for each video
  outcome,    \* how each request ended
  stopping    \* the service is being shut down

vars == <<wanted, sent, library, outcome, stopping>>

Outcomes == {"pending", "turned_away", "delivered", "failed", "abandoned", "lost"}

Pending(j) == outcome[j] = "pending"

Init ==
  /\ wanted = [j \in Jobs |-> NoVideo]
  /\ sent = [j \in Jobs |-> <<>>]
  /\ library = [v \in Videos |-> NoRow]
  /\ outcome = [j \in Jobs |-> "pending"]
  /\ stopping = FALSE

Identify(j, v) ==
  /\ Pending(j)
  /\ wanted[j] = NoVideo
  /\ wanted' = [wanted EXCEPT ![j] = v]
  /\ UNCHANGED <<sent, library, outcome, stopping>>

(* A file may be sent that was uploaded for the same song before, or now. *)
Holds(f, v) == wanted[f] = v /\ \E i \in DOMAIN sent[f] : sent[f][i] = f

Send(j, f) ==
  /\ Pending(j)
  /\ wanted[j] \in Videos \ Unplayable
  /\ sent[j] = <<>>
  /\ f = j \/ Holds(f, wanted[j])
  /\ sent' = [sent EXCEPT ![j] = <<f>>]
  /\ UNCHANGED <<wanted, library, outcome, stopping>>

(* A file of the video, or the note that it has none worth keeping. *)
Remember(j, f) ==
  /\ Pending(j)
  /\ sent[j] = <<j>>
  /\ f \in {j, NoFile}
  /\ library' = [library EXCEPT ![wanted[j]] = f]
  /\ UNCHANGED <<wanted, sent, outcome, stopping>>

Settle(j) ==
  /\ Pending(j)
  /\ \/ outcome' = [outcome EXCEPT ![j] = "turned_away"] /\ wanted[j] = NoVideo
     \/ outcome' = [outcome EXCEPT ![j] = "failed"]
     \/ outcome' = [outcome EXCEPT ![j] = "abandoned"] /\ stopping
     \/ /\ outcome' = [outcome EXCEPT ![j] = "delivered"]
        /\ sent[j] # <<>>
        /\ library[wanted[j]] # NoRow
  /\ UNCHANGED <<wanted, sent, library, stopping>>

Stop ==
  /\ stopping' = TRUE
  /\ UNCHANGED <<wanted, sent, library, outcome>>

(* The service restarts; some requests are forgotten. *)
Restart ==
  /\ stopping' = FALSE
  /\ outcome' \in [Jobs -> Outcomes]
  /\ \A j \in Jobs : outcome'[j] \in {outcome[j], "lost"}
  /\ \A j \in Jobs : ~Pending(j) => outcome'[j] = outcome[j]
  /\ UNCHANGED <<wanted, sent, library>>

Next ==
  \/ \E j \in Jobs :
       \/ Settle(j)
       \/ \E v \in Videos : Identify(j, v)
       \/ \E f \in Jobs : Send(j, f)
       \/ \E f \in Jobs \cup {NoFile} : Remember(j, f)
  \/ Stop
  \/ Restart

Spec == Init /\ [][Next]_vars

=============================================================================
