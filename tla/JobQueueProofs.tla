--------------------------- MODULE JobQueueProofs ---------------------------
(***************************************************************************)
(* Theorems about JobQueue, for every number of requests, users and        *)
(* workers, every queue size and every budget.                             *)
(* The last part is about Pipeline, where the requests of JobRun go        *)
(* through this queue, for every combination of faults besides.            *)
(***************************************************************************)
EXTENDS Pipeline, SequenceTheorems, FiniteSetTheorems, TLAPS

(* The channel is never longer than its capacity. *)
QueueBounded == Len(queue) <= QueueSize

(* A job whose Submit has not sent it into the channel was never accepted. *)
NotYetAccepted ==
  \A j \in Jobs :
    handler[j] \in {"idle", "admitted", "rejected"} => j \notin Elements(accepted)

(* A worker holds a job exactly while it works, and got it from the        *)
(* channel.                                                                *)
HeldWasStarted ==
  \A w \in Workers :
    /\ worker[w] \in {"select", "stopped"} <=> holds[w] = NoJob
    /\ holds[w] # NoJob => holds[w] \in Elements(started)

IInv ==
  /\ TypeOK
  /\ QueueBounded
  /\ NothingLost
  /\ AcceptedOnce
  /\ NotYetAccepted
  /\ HeldWasStarted
  /\ NoSharedJob

-----------------------------------------------------------------------------
(* Facts about sequences and their elements.                               *)

LEMMA ElementsOf ==
  ASSUME NEW S, NEW s \in Seq(S)
  PROVE  Elements(s) = {s[i] : i \in 1..Len(s)} /\ Elements(s) \subseteq S
  BY LenProperties, ElementOfSeq DEF Elements

LEMMA ElementsAppend ==
  ASSUME NEW S, NEW s \in Seq(S), NEW e \in S
  PROVE  Elements(Append(s, e)) = Elements(s) \cup {e}
<1>1. Append(s, e) \in Seq(S)
  BY AppendProperties
<1>2. Elements(Append(s, e)) = {Append(s, e)[i] : i \in 1..(Len(s) + 1)}
  BY <1>1, ElementsOf, AppendProperties
<1>3. Elements(s) = {s[i] : i \in 1..Len(s)}
  BY ElementsOf
<1>4. Len(s) \in Nat
  BY LenProperties
<1>5. \A i \in 1..(Len(s) + 1) : Append(s, e)[i] = IF i = Len(s) + 1 THEN e ELSE s[i]
  BY <1>4, AppendProperties
<1> QED
  BY <1>2, <1>3, <1>4, <1>5

(* Moving the head of one sequence to the end of the other changes nothing *)
(* of their concatenation.                                                 *)
LEMMA MoveHead ==
  ASSUME NEW S, NEW s \in Seq(S), NEW t \in Seq(S), t # <<>>
  PROVE  Append(s, Head(t)) \o Tail(t) = s \o t
<1> DEFINE a == Append(s, Head(t))
           lhs == a \o Tail(t)
           rhs == s \o t
<1>1. Head(t) \in S /\ Tail(t) \in Seq(S) /\ Len(Tail(t)) = Len(t) - 1
      /\ \A i \in 1..Len(Tail(t)) : Tail(t)[i] = t[i + 1]
  BY HeadTailProperties
<1>2. Len(s) \in Nat /\ Len(t) \in Nat \ {0} /\ Head(t) = t[1]
  BY LenProperties, EmptySeq
<1>3. a \in Seq(S) /\ Len(a) = Len(s) + 1
      /\ \A i \in 1..Len(s) : a[i] = s[i]
      /\ a[Len(s) + 1] = t[1]
  BY <1>1, <1>2, AppendProperties
<1>4. lhs \in Seq(S) /\ Len(lhs) = Len(s) + Len(t)
      /\ \A i \in 1..(Len(s) + Len(t)) :
           lhs[i] = IF i <= Len(s) + 1 THEN a[i] ELSE Tail(t)[i - (Len(s) + 1)]
  <2>1. Len(a) + Len(Tail(t)) = Len(s) + Len(t)
    BY <1>1, <1>2, <1>3
  <2> QED
    BY <1>1, <1>3, <2>1, ConcatProperties
<1>5. rhs \in Seq(S) /\ Len(rhs) = Len(s) + Len(t)
      /\ \A i \in 1..(Len(s) + Len(t)) :
           rhs[i] = IF i <= Len(s) THEN s[i] ELSE t[i - Len(s)]
  BY ConcatProperties
<1>6. ASSUME NEW i \in 1..(Len(s) + Len(t)) PROVE lhs[i] = rhs[i]
  <2>1. CASE i <= Len(s)
    BY <1>2, <1>3, <1>4, <1>5, <2>1
  <2>2. CASE i = Len(s) + 1
    BY <1>2, <1>3, <1>4, <1>5, <2>2
  <2>3. CASE i > Len(s) + 1
    <3>1. i - (Len(s) + 1) \in 1..Len(Tail(t))
      BY <1>1, <1>2, <2>3
    <3>2. Tail(t)[i - (Len(s) + 1)] = t[i - Len(s)]
      BY <1>1, <1>2, <3>1
    <3> QED
      BY <1>2, <1>4, <1>5, <2>3, <3>2
  <2> QED
    BY <1>2, <2>1, <2>2, <2>3
<1> QED
  BY <1>4, <1>5, <1>6, SeqEqual

(* What still waits was never taken up.                                    *)
LEMMA QueueApart ==
  ASSUME TypeOK, NothingLost, AcceptedOnce, NEW i \in 1..Len(queue)
  PROVE  queue[i] \notin Elements(started)
<1>1. queue \in Seq(Jobs) /\ started \in Seq(Jobs)
  BY DEF TypeOK
<1>2. Len(queue) \in Nat /\ Len(started) \in Nat
  BY <1>1, LenProperties
<1>3. accepted \in Seq(Jobs) /\ Len(accepted) = Len(started) + Len(queue)
      /\ \A k \in 1..(Len(started) + Len(queue)) :
           accepted[k] = IF k <= Len(started) THEN started[k]
                                              ELSE queue[k - Len(started)]
  BY <1>1, ConcatProperties DEF NothingLost
<1>4. DOMAIN accepted = 1..(Len(started) + Len(queue))
  BY <1>3, LenProperties
<1>5. SUFFICES ASSUME NEW k \in 1..Len(started), started[k] = queue[i]
               PROVE  FALSE
  BY <1>1, ElementsOf
<1>6. accepted[k] = started[k]
  BY <1>2, <1>3
<1>7. accepted[Len(started) + i] = queue[i]
  <2>1. (Len(started) + i) - Len(started) = i /\ ~(Len(started) + i <= Len(started))
        /\ Len(started) + i \in 1..(Len(started) + Len(queue))
    BY <1>2
  <2> QED
    BY <1>3, <2>1
<1>8. k # Len(started) + i
      /\ k \in DOMAIN accepted /\ Len(started) + i \in DOMAIN accepted
  BY <1>2, <1>4
<1> QED
  BY <1>5, <1>6, <1>7, <1>8 DEF AcceptedOnce

-----------------------------------------------------------------------------

LEMMA InitIInv == Init => IInv
<1> SUFFICES ASSUME Init PROVE IInv
  OBVIOUS
<1>1. <<>> \in Seq(Jobs) /\ Len(<<>>) = 0
  BY EmptySeq
<1>2. TypeOK
  <2>1. 0 \in 0..QueueSize /\ Burst \in 0..Burst
    BY QueueAssumption
  <2>2. queue \in Seq(Jobs) /\ accepted \in Seq(Jobs) /\ started \in Seq(Jobs)
    BY <1>1 DEF Init
  <2>3. /\ handler \in [Jobs -> HandlerStates]
        /\ worker \in [Workers -> WorkerStates]
        /\ holds \in [Workers -> Jobs \cup {NoJob}]
        /\ stopping \in BOOLEAN
    BY DEF Init, HandlerStates, WorkerStates
  <2>4. /\ seen \in [Jobs \cup Workers -> 0..QueueSize]
        /\ gauge \in 0..QueueSize
        /\ budget \in [Users -> 0..Burst]
    BY <2>1 DEF Init, Tok!Init
  <2> QED
    BY <2>2, <2>3, <2>4 DEF TypeOK
<1>3. NothingLost
  BY <1>1, ConcatEmptySeq DEF Init, NothingLost
<1>4. Elements(accepted) = {} /\ AcceptedOnce
  BY DEF Init, AcceptedOnce, Elements
<1>5. QueueBounded
  BY <1>1, QueueAssumption DEF Init, QueueBounded
<1>6. NotYetAccepted /\ HeldWasStarted /\ NoSharedJob
  BY <1>4 DEF Init, NotYetAccepted, HeldWasStarted, NoSharedJob
<1> QED
  BY <1>2, <1>3, <1>4, <1>5, <1>6 DEF IInv

(* The same of a process that begins anew.                                 *)
LEMMA InitIInvAfter == Init' => IInv'
  BY InitIInv, PTL

(* Steps that leave the channel alone: a handler not yet in it stays out,  *)
(* a worker keeps its job.                                                 *)
LEMMA HandlerKeeps ==
  ASSUME IInv, NEW j \in Jobs,
         \/ Admit(j) \/ RateLimited(j) \/ QueueFull(j)
         \/ HandlerMeasures(j) \/ HandlerPublishes(j)
  PROVE  IInv'
<1> USE DEF Admit, RateLimited, QueueFull, HandlerMeasures, HandlerPublishes, Tok!Spend,
            Tok!Deny
<1>1. UNCHANGED <<queue, worker, holds, stopping, accepted, started>>
  OBVIOUS
<1>2. TypeOK'
  <2>1. Len(queue) \in 0..QueueSize /\ 0 \in 0..QueueSize
    BY LenProperties, QueueAssumption DEF IInv, TypeOK, QueueBounded
  <2>2. budget' \in [Users -> 0..Burst]
    <3>1. CASE Admit(j)
      <4>1. UserOf[j] \in Users /\ budget[UserOf[j]] \in 0..Burst
        BY QueueAssumption DEF IInv, TypeOK
      <4>2. budget[UserOf[j]] - 1 \in 0..Burst
        BY <3>1, <4>1, QueueAssumption
      <4> QED
        BY <3>1, <4>2 DEF IInv, TypeOK
    <3>2. CASE ~Admit(j)
      <4>1. budget' = budget
        BY <3>2
      <4> QED
        BY <4>1 DEF IInv, TypeOK
    <3> QED
      BY <3>1, <3>2
  <2>3. handler' \in [Jobs -> HandlerStates]
    BY DEF IInv, TypeOK, HandlerStates
  <2>4. seen' \in [Jobs \cup Workers -> 0..QueueSize] /\ gauge' \in 0..QueueSize
    BY <2>1 DEF IInv, TypeOK
  <2> QED
    BY <1>1, <2>2, <2>3, <2>4 DEF IInv, TypeOK
<1>3. NotYetAccepted'
  BY <1>1 DEF IInv, TypeOK, NotYetAccepted, Elements
<1>4. QueueBounded' /\ NothingLost' /\ AcceptedOnce' /\ HeldWasStarted' /\ NoSharedJob'
  BY <1>1 DEF IInv, QueueBounded, NothingLost, AcceptedOnce, HeldWasStarted,
     NoSharedJob, Elements
<1> QED
  BY <1>2, <1>3, <1>4 DEF IInv

LEMMA EnqueueKeeps == ASSUME IInv, NEW j \in Jobs, Enqueue(j) PROVE IInv'
<1>1. /\ queue \in Seq(Jobs) /\ started \in Seq(Jobs) /\ accepted \in Seq(Jobs)
      /\ queue' = Append(queue, j)
      /\ accepted' = Append(accepted, j)
      /\ UNCHANGED <<worker, holds, started>>
  BY DEF Enqueue, IInv, TypeOK
<1>2. queue' \in Seq(Jobs) /\ Len(queue') = Len(queue) + 1
      /\ accepted' \in Seq(Jobs) /\ Len(accepted') = Len(accepted) + 1
      /\ Len(queue) \in Nat /\ Len(accepted) \in Nat
  BY <1>1, AppendProperties, LenProperties
<1>3. TypeOK'
  BY <1>2 DEF Enqueue, IInv, TypeOK, HandlerStates
<1>4. QueueBounded'
  BY <1>2, QueueAssumption DEF Enqueue, QueueBounded
<1>5. NothingLost'
  <2>1. <<j>> \in Seq(Jobs)
    OBVIOUS
  <2>2. accepted' = (started \o queue) \o <<j>>
    BY <1>1, AppendIsConcat DEF IInv, NothingLost
  <2>3. accepted' = started \o (queue \o <<j>>)
    BY <1>1, <2>1, <2>2, ConcatAssociative
  <2> QED
    BY <1>1, <2>3, AppendIsConcat DEF NothingLost
<1>6. j \notin Elements(accepted)
  BY DEF Enqueue, IInv, NotYetAccepted
<1>7. Elements(accepted') = Elements(accepted) \cup {j}
  BY <1>1, ElementsAppend
<1>8. AcceptedOnce'
  <2>1. DOMAIN accepted = 1..Len(accepted) /\ DOMAIN accepted' = 1..(Len(accepted) + 1)
    BY <1>1, <1>2, LenProperties
  <2>2. \A i \in 1..Len(accepted) : accepted'[i] = accepted[i] /\ accepted[i] # j
    BY <1>1, <1>6, AppendProperties, ElementsOf
  <2>3. accepted'[Len(accepted) + 1] = j
    BY <1>1, AppendProperties
  <2>4. SUFFICES ASSUME NEW i \in 1..(Len(accepted) + 1),
                        NEW k \in 1..(Len(accepted) + 1),
                        accepted'[i] = accepted'[k]
                 PROVE  i = k
    BY <2>1 DEF AcceptedOnce
  <2>5. CASE i = Len(accepted) + 1 \/ k = Len(accepted) + 1
    BY <1>2, <2>2, <2>3, <2>4, <2>5
  <2>6. CASE i \in 1..Len(accepted) /\ k \in 1..Len(accepted)
    BY <2>1, <2>2, <2>4, <2>6 DEF IInv, AcceptedOnce
  <2> QED
    BY <1>2, <2>5, <2>6
<1>9. NotYetAccepted'
  BY <1>7 DEF Enqueue, IInv, TypeOK, NotYetAccepted
<1>10. HeldWasStarted' /\ NoSharedJob'
  BY <1>1 DEF IInv, HeldWasStarted, NoSharedJob
<1> QED
  BY <1>3, <1>4, <1>5, <1>8, <1>9, <1>10 DEF IInv

LEMMA TakeKeeps == ASSUME IInv, NEW w \in Workers, Take(w) PROVE IInv'
<1>1. /\ queue \in Seq(Jobs) /\ started \in Seq(Jobs) /\ queue # <<>>
      /\ queue' = Tail(queue)
      /\ started' = Append(started, Head(queue))
      /\ accepted' = accepted /\ handler' = handler
      /\ holds' = [holds EXCEPT ![w] = Head(queue)]
      /\ worker' = [worker EXCEPT ![w] = "took"]
  BY DEF Take, IInv, TypeOK
<1>2. /\ Head(queue) \in Jobs /\ Head(queue) # NoJob
      /\ queue' \in Seq(Jobs) /\ Len(queue') = Len(queue) - 1
      /\ started' \in Seq(Jobs)
      /\ Elements(started') = Elements(started) \cup {Head(queue)}
  BY <1>1, HeadTailProperties, AppendProperties, ElementsAppend, QueueAssumption
<1>3. Head(queue) \notin Elements(started)
  <2>1. Head(queue) = queue[1] /\ 1 \in 1..Len(queue)
    BY <1>1, EmptySeq
  <2> QED
    BY <2>1, QueueApart DEF IInv
<1>4. TypeOK'
  BY <1>1, <1>2 DEF Take, IInv, TypeOK, WorkerStates
<1>5. QueueBounded'
  BY <1>1, <1>2, LenProperties, QueueAssumption DEF IInv, QueueBounded
<1>6. NothingLost'
  BY <1>1, MoveHead DEF IInv, NothingLost
<1>7. AcceptedOnce' /\ NotYetAccepted'
  BY <1>1 DEF IInv, AcceptedOnce, NotYetAccepted, Elements
<1>8. HeldWasStarted'
  BY <1>1, <1>2 DEF IInv, TypeOK, HeldWasStarted
<1>9. NoSharedJob'
  <2>1. \A v \in Workers : holds[v] # Head(queue)
    BY <1>2, <1>3 DEF IInv, HeldWasStarted
  <2>2. \A v \in Workers : holds'[v] = IF v = w THEN Head(queue) ELSE holds[v]
    BY <1>1 DEF IInv, TypeOK
  <2> QED
    BY <2>1, <2>2 DEF IInv, NoSharedJob
<1> QED
  BY <1>4, <1>5, <1>6, <1>7, <1>8, <1>9 DEF IInv

LEMMA WorkerKeeps ==
  ASSUME IInv, NEW w \in Workers,
         WorkerMeasures(w) \/ WorkerPublishes(w) \/ Release(w) \/ StopWorker(w)
  PROVE  IInv'
<1> USE DEF WorkerMeasures, WorkerPublishes, Release, StopWorker
<1>1. UNCHANGED <<queue, handler, budget, accepted, started>>
  OBVIOUS
<1>2. TypeOK'
  <2>1. Len(queue) \in 0..QueueSize /\ 0 \in 0..QueueSize
    BY LenProperties, QueueAssumption DEF IInv, TypeOK, QueueBounded
  <2>2. worker' \in [Workers -> WorkerStates] /\ holds' \in [Workers -> Jobs \cup {NoJob}]
    BY DEF IInv, TypeOK, WorkerStates
  <2>3. seen' \in [Jobs \cup Workers -> 0..QueueSize] /\ gauge' \in 0..QueueSize
    <3>1. CASE WorkerMeasures(w)
      BY <2>1, <3>1 DEF IInv, TypeOK
    <3>2. CASE WorkerPublishes(w)
      BY <2>1, <3>2 DEF IInv, TypeOK
    <3>3. CASE Release(w) \/ StopWorker(w)
      BY <3>3 DEF IInv, TypeOK
    <3> QED
      BY <3>1, <3>2, <3>3
  <2>4. stopping' \in BOOLEAN
    BY DEF IInv, TypeOK
  <2> QED
    BY <1>1, <2>2, <2>3, <2>4 DEF IInv, TypeOK
<1>3. HeldWasStarted'
  BY <1>1 DEF IInv, TypeOK, HeldWasStarted, Elements
<1>4. NoSharedJob'
  BY DEF IInv, TypeOK, NoSharedJob
<1>5. QueueBounded' /\ NothingLost' /\ AcceptedOnce' /\ NotYetAccepted'
  BY <1>1 DEF IInv, QueueBounded, NothingLost, AcceptedOnce, NotYetAccepted, Elements
<1> QED
  BY <1>2, <1>3, <1>4, <1>5 DEF IInv

(* Steps that concern neither handlers nor workers.                        *)
LEMMA EnvironmentKeeps ==
  ASSUME IInv,
         UNCHANGED <<queue, handler, worker, holds, seen, gauge, accepted, started>>,
         budget' \in [Users -> 0..Burst], stopping' \in BOOLEAN
  PROVE  IInv'
<1>1. TypeOK'
  BY DEF IInv, TypeOK
<1>2. QueueBounded' /\ NothingLost' /\ AcceptedOnce'
  BY DEF IInv, QueueBounded, NothingLost, AcceptedOnce
<1>3. NotYetAccepted' /\ HeldWasStarted' /\ NoSharedJob'
  BY DEF IInv, NotYetAccepted, HeldWasStarted, NoSharedJob, Elements
<1> QED
  BY <1>1, <1>2, <1>3 DEF IInv

LEMMA StepKeeps == IInv /\ [Next]_vars => IInv'
<1> SUFFICES ASSUME IInv, [Next]_vars PROVE IInv'
  OBVIOUS
<1>1. ASSUME NEW j \in Jobs, Submit(j) PROVE IInv'
  BY <1>1, HandlerKeeps, EnqueueKeeps DEF Submit
<1>2. ASSUME NEW w \in Workers, Work(w) PROVE IInv'
  BY <1>2, TakeKeeps, WorkerKeeps DEF Work
<1>3. CASE Refill
  <2>1. budget \in [Users -> 0..Burst]
    BY DEF IInv, TypeOK
  <2>2. budget' \in [Users -> 0..Burst] /\ stopping' \in BOOLEAN
    BY <1>3, <2>1, QueueAssumption DEF Refill, Tok!Earn, IInv, TypeOK
  <2> QED
    BY <1>3, <2>2, EnvironmentKeeps DEF Refill
<1>4. CASE Cancel
  <2>1. budget' \in [Users -> 0..Burst] /\ stopping' \in BOOLEAN
    BY <1>4 DEF Cancel, IInv, TypeOK
  <2> QED
    BY <1>4, <2>1, EnvironmentKeeps DEF Cancel
<1>5. CASE Stopped \/ UNCHANGED vars
  <2>1. budget' \in [Users -> 0..Burst] /\ stopping' \in BOOLEAN
    BY <1>5 DEF Stopped, vars, IInv, TypeOK
  <2> QED
    BY <1>5, <2>1, EnvironmentKeeps DEF Stopped, vars
<1> QED
  BY <1>1, <1>2, <1>3, <1>4, <1>5 DEF Next

(* Every reachable state satisfies the inductive invariant.                *)
THEOREM Invariance == Spec => []IInv
<1> QED
  BY InitIInv, StepKeeps, PTL DEF Spec

(* Types are kept; in particular no reading of the queue's length ever     *)
(* exceeds its capacity (service.go, Submit and worker).                   *)
THEOREM TypeCorrect == Spec => []TypeOK
<1>1. IInv => TypeOK
  BY DEF IInv
<1> QED
  BY <1>1, Invariance, PTL

(* The channel loses, duplicates and reorders nothing (service.go).        *)
THEOREM QueueIsFifo == Spec => []NothingLost
<1>1. IInv => NothingLost
  BY DEF IInv
<1> QED
  BY <1>1, Invariance, PTL

(* Nothing is accepted twice (service.go, Submit).                         *)
THEOREM NeverTwice == Spec => []AcceptedOnce
<1>1. IInv => AcceptedOnce
  BY DEF IInv
<1> QED
  BY <1>1, Invariance, PTL

(* No two workers run the same job (service.go, worker).                   *)
THEOREM WorkersApart == Spec => []NoSharedJob
<1>1. IInv => NoSharedJob
  BY DEF IInv
<1> QED
  BY <1>1, Invariance, PTL

-----------------------------------------------------------------------------
(* The queue and its pool implement WorkQueue.                             *)

Held == {holds[w] : w \in Workers}
Running == Held \ {NoJob}
Finished == Elements(started) \ Held

LEMMA ElementsConcat ==
  ASSUME NEW S, NEW s \in Seq(S), NEW t \in Seq(S)
  PROVE  Elements(s \o t) = Elements(s) \cup Elements(t)
<1>1. s \o t \in Seq(S) /\ Len(s \o t) = Len(s) + Len(t)
      /\ \A i \in 1..(Len(s) + Len(t)) :
           (s \o t)[i] = IF i <= Len(s) THEN s[i] ELSE t[i - Len(s)]
  BY ConcatProperties
<1>2. Len(s) \in Nat /\ Len(t) \in Nat
  BY LenProperties
<1>3. /\ Elements(s \o t) = {(s \o t)[i] : i \in 1..(Len(s) + Len(t))}
      /\ Elements(s) = {s[i] : i \in 1..Len(s)}
      /\ Elements(t) = {t[i] : i \in 1..Len(t)}
  BY <1>1, ElementsOf
<1>4. ASSUME NEW i \in 1..Len(s) PROVE s[i] \in Elements(s \o t)
  BY <1>1, <1>2, <1>3
<1>5. ASSUME NEW i \in 1..Len(t) PROVE t[i] \in Elements(s \o t)
  <2>1. (s \o t)[Len(s) + i] = t[i] /\ Len(s) + i \in 1..(Len(s) + Len(t))
    <3>1. /\ (Len(s) + i) - Len(s) = i
          /\ ~(Len(s) + i <= Len(s))
          /\ Len(s) + i \in 1..(Len(s) + Len(t))
      BY <1>2
    <3> QED
      BY <1>1, <3>1
  <2> QED
    BY <1>3, <2>1
<1>6. ASSUME NEW i \in 1..(Len(s) + Len(t))
      PROVE  (s \o t)[i] \in Elements(s) \cup Elements(t)
  <2>1. CASE i <= Len(s)
    BY <1>1, <1>2, <1>3, <2>1
  <2>2. CASE i > Len(s)
    <3>1. i - Len(s) \in 1..Len(t)
      BY <1>2, <2>2
    <3> QED
      BY <1>1, <1>2, <1>3, <2>2, <3>1
  <2> QED
    BY <1>2, <2>1, <2>2
<1> QED
  BY <1>3, <1>4, <1>5, <1>6

(* What the abstract line knows is what was accepted.                      *)
LEMMA KnownIsAccepted ==
  ASSUME IInv
  PROVE  WQ!Known = Elements(accepted)
<1>1. Elements(accepted) = Elements(started) \cup Elements(queue)
  BY ElementsConcat DEF IInv, TypeOK, NothingLost
<1>2. Running \subseteq Elements(started)
  BY DEF Running, Held, IInv, HeldWasStarted
<1>3. Running \cup Finished = Elements(started)
  <2>1. NoJob \notin Elements(started)
    BY ElementsOf, QueueAssumption DEF IInv, TypeOK
  <2> QED
    BY <1>2, <2>1 DEF Running, Finished
<1>4. WQ!Known = Elements(queue) \cup Running \cup Finished
  BY DEF WQ!Known, Elements, Running, Finished, Held
<1> QED
  BY <1>1, <1>3, <1>4

(* The instance's copy of Cardinality is Cardinality.                      *)
LEMMA SameCardinality == \A S : WQ!Cardinality(S) = Cardinality(S)
  BY DEF WQ!Cardinality, Cardinality

(* A worker without a job leaves room in the pool.                         *)
LEMMA RoomToStart ==
  ASSUME IInv, NEW w \in Workers, holds[w] = NoJob
  PROVE  Cardinality(Running) < Cardinality(Workers)
<1> DEFINE Others == Workers \ {w}
           T == {holds[v] : v \in Others}
           f == [v \in Others |-> holds[v]]
<1>1. /\ IsFiniteSet(Others)
      /\ Cardinality(Others) = Cardinality(Workers) - 1
      /\ Cardinality(Workers) \in Nat
  BY QueueAssumption, FS_RemoveElement, FS_CardinalityType
<1>2. f \in Surjection(Others, T)
  BY DEF Surjection
<1>3. IsFiniteSet(T) /\ Cardinality(T) <= Cardinality(Others)
  BY <1>1, <1>2, FS_Surjection
<1>4. Running \subseteq T
  BY DEF Running, Held
<1>5. Cardinality(Running) <= Cardinality(T)
  BY <1>3, <1>4, FS_Subset
<1>6. IsFiniteSet(Running)
  BY <1>3, <1>4, FS_Subset
<1>7. Cardinality(Running) \in Nat /\ Cardinality(T) \in Nat /\ Cardinality(Others) \in Nat
  BY <1>1, <1>3, <1>6, FS_CardinalityType
<1> QED
  BY <1>1, <1>3, <1>5, <1>7

LEMMA EnqueueAccepts ==
  ASSUME IInv, NEW j \in Jobs, Enqueue(j)
  PROVE  WQ!Accept(j)
<1>1. j \notin WQ!Known
  BY KnownIsAccepted DEF Enqueue, IInv, NotYetAccepted
<1> QED
  BY <1>1 DEF Enqueue, WQ!Accept

LEMMA TakeStarts ==
  ASSUME IInv, NEW w \in Workers, Take(w)
  PROVE  WQ!Start
<1>1. holds[w] = NoJob
  BY DEF Take, IInv, HeldWasStarted
<1>2. Cardinality(Running) < Cardinality(Workers)
  BY <1>1, RoomToStart
<1>3. queue \in Seq(Jobs) /\ started \in Seq(Jobs) /\ queue # <<>>
      /\ Head(queue) \in Jobs /\ Head(queue) # NoJob
  BY HeadTailProperties, QueueAssumption DEF Take, IInv, TypeOK
<1>4. Elements(started') = Elements(started) \cup {Head(queue)}
  BY <1>3, ElementsAppend DEF Take
<1>5. \A v \in Workers : holds'[v] = IF v = w THEN Head(queue) ELSE holds[v]
  BY DEF Take, IInv, TypeOK
<1>6. Running' = Running \cup {Head(queue)}
  BY <1>1, <1>3, <1>5 DEF Running, Held
<1>7. Finished' = Finished
  <2>1. NoJob \notin Elements(started)
    BY <1>3, ElementsOf, QueueAssumption
  <2>2. Head(queue) \notin Elements(started)
    <3>1. Head(queue) = queue[1] /\ 1 \in 1..Len(queue)
      BY <1>3, EmptySeq
    <3> QED
      BY <3>1, QueueApart DEF IInv
  <2>3. Held' \cup {NoJob} = Held \cup {Head(queue), NoJob}
    BY <1>1, <1>5 DEF Held
  <2> QED
    BY <1>3, <1>4, <2>1, <2>2, <2>3 DEF Finished
<1>8. queue' = Tail(queue)
  BY DEF Take
<1> QED
  BY <1>2, <1>3, <1>6, <1>7, <1>8, SameCardinality
     DEF WQ!Start, Running, Finished, Held

LEMMA ReleaseFinishes ==
  ASSUME IInv, NEW w \in Workers, Release(w), NEW j \in Jobs, j = holds[w]
  PROVE  WQ!Finish(j)
<1>1. holds[w] # NoJob /\ holds[w] \in Elements(started)
  BY DEF Release, IInv, TypeOK, HeldWasStarted
<1>2. \A v \in Workers : holds'[v] = IF v = w THEN NoJob ELSE holds[v]
  BY DEF Release, IInv, TypeOK
<1>3. \A v \in Workers : v # w => holds[v] # holds[w]
  BY <1>1 DEF IInv, NoSharedJob
<1>4. Running' = Running \ {holds[w]} /\ holds[w] \in Running
  BY <1>1, <1>2, <1>3 DEF Running, Held
<1>5. Finished' = Finished \cup {holds[w]}
  <2>1. Elements(started)' = Elements(started) /\ NoJob \notin Elements(started)
    BY ElementsOf, QueueAssumption DEF Release, IInv, TypeOK, Elements
  <2>2. Held' = (Held \ {holds[w]}) \cup {NoJob}
    BY <1>1, <1>2, <1>3 DEF Held
  <2> QED
    BY <1>1, <2>1, <2>2 DEF Finished
<1> QED
  BY <1>1, <1>4, <1>5 DEF Release, WQ!Finish, Running, Finished, Held

LEMMA OthersStutter ==
  ASSUME UNCHANGED <<queue, holds, started>>
  PROVE  UNCHANGED WQ!vars
  BY DEF WQ!vars, Elements

(* Submit and the workers together are a bounded first-come first-served   *)
(* line in front of a fixed number of servers (service.go).                *)
THEOREM QueueImplementsLine == Spec => ImplementsWorkQueue
<1>1. Init => WQ!Init
  BY DEF Init, WQ!Init, Elements
<1>2. IInv /\ [Next]_vars => [WQ!Next]_(WQ!vars)
  <2> SUFFICES ASSUME IInv, [Next]_vars
               PROVE  WQ!Next \/ UNCHANGED WQ!vars
    OBVIOUS
  <2>1. ASSUME NEW j \in Jobs, Submit(j)
        PROVE  WQ!Next \/ UNCHANGED WQ!vars
    <3>1. CASE Enqueue(j)
      BY <3>1, EnqueueAccepts DEF WQ!Next
    <3>2. CASE ~Enqueue(j)
      <4>1. UNCHANGED <<queue, holds, started>>
        BY <2>1, <3>2 DEF Submit, Admit, RateLimited, QueueFull, HandlerMeasures,
           HandlerPublishes
      <4> QED
        BY <4>1, OthersStutter
    <3> QED
      BY <3>1, <3>2
  <2>2. ASSUME NEW w \in Workers, Work(w)
        PROVE  WQ!Next \/ UNCHANGED WQ!vars
    <3>1. CASE Take(w)
      BY <3>1, TakeStarts DEF WQ!Next
    <3>2. CASE Release(w)
      <4>1. PICK j \in Jobs : j = holds[w]
        BY <3>2 DEF Release, IInv, TypeOK, HeldWasStarted
      <4>2. WQ!Finish(j)
        BY <3>2, <4>1, ReleaseFinishes
      <4> QED
        BY <4>2 DEF WQ!Next
    <3>3. CASE WorkerMeasures(w) \/ WorkerPublishes(w) \/ StopWorker(w)
      <4>1. UNCHANGED <<queue, holds, started>>
        BY <3>3 DEF WorkerMeasures, WorkerPublishes, StopWorker
      <4> QED
        BY <4>1, OthersStutter
    <3> QED
      BY <2>2, <3>1, <3>2, <3>3 DEF Work
  <2>3. CASE Refill \/ Cancel \/ Stopped \/ UNCHANGED vars
    <3>1. UNCHANGED <<queue, holds, started>>
      BY <2>3 DEF Refill, Cancel, Stopped, vars
    <3> QED
      BY <3>1, OthersStutter
  <2> QED
    BY <2>1, <2>2, <2>3 DEF Next
<1> QED
  BY <1>1, <1>2, Invariance, PTL DEF ImplementsWorkQueue, WQ!Spec, Spec

-----------------------------------------------------------------------------
(* The queue and its pool with the requests in them implement Songbot.     *)

Waits == {j \in Jobs : stage[j] = "queued"}
Busy == {j \in Jobs : stage[j] \in Bot!InHand}

(* A request waits in the channel, is in a worker's hands, or neither, as  *)
(* its own stage has it.                                                   *)
Matched ==
  /\ stage \in [Jobs -> Bot!Stages]
  /\ Elements(queue) = Waits
  /\ Taken = Busy

(* Where a worker's job ends; elsewhere it is in the worker's hands.       *)
Ends == {"delivered", "abandoned", "failed"}
Moves(j, S) == \E s \in S : stage' = [stage EXCEPT ![j] = s]

LEMMA StageSets ==
  /\ Ends \subseteq Bot!Final /\ Bot!InHand \cup Bot!Final \subseteq Bot!Stages
  /\ {"new", "placed", "refusing", "queued"} \subseteq Bot!Stages
  /\ Bot!InHand \cap Bot!Final = {}
  /\ {"new", "placed", "refusing", "queued"} \cap (Bot!InHand \cup Bot!Final) = {}
  /\ {"searching", "resolve"} \subseteq Bot!InHand
  /\ {"dropped", "refused", "lost"} \subseteq Bot!Final \ Ends
  BY DEF Ends, Bot!Final, Bot!InHand, Bot!Fetching, Bot!Sending, Bot!Stages

LEMMA RunMoves ==
  ASSUME stage \in [Jobs -> Bot!Stages], NEW j \in Jobs, Bot!Run(j)
  PROVE  stage[j] \in Bot!InHand /\ Moves(j, Bot!InHand \cup Ends)
<1> USE DEF Bot!Goto, Moves, Bot!InHand, Bot!Fetching, Bot!Sending, Bot!Abort,
            Bot!CtxDone, Bot!WaitTooLong
<1>1. CASE Bot!Searching(j) \/ Bot!AnnounceDownload(j) \/ Bot!NoteUpload(j)
  BY <1>1 DEF Bot!Searching, Bot!AnnounceDownload, Bot!NoteUpload, Bot!Announce
<1>2. CASE Bot!Search(j) \/ Bot!Resolve(j) \/ Bot!Lookup(j)
  BY <1>2 DEF Bot!Search, Bot!NoMatch, Bot!YtdlpFails, Bot!Resolve, Bot!Lookup
<1>3. CASE Bot!Resend(j) \/ Bot!Repost(j) \/ Bot!Deliver(j) \/ Bot!Upload(j)
  BY <1>3 DEF Bot!Resend, Bot!Repost, Bot!Deliver, Bot!Upload, Bot!StartSend,
              Bot!SendFails
<1>4. CASE \/ Bot!Mkdir(j) \/ Bot!Download(j) \/ Bot!ClearStatus(j) \/ Bot!Save(j)
           \/ Bot!Cleanup(j)
  BY <1>4 DEF Bot!Mkdir, Bot!Download, Bot!NoOutput, Bot!TooLarge, Bot!YtdlpFails,
              Bot!ClearStatus, Bot!Save, Bot!Cleanup
<1>5. CASE Bot!Settle(j) \/ Bot!Notify(j)
  BY <1>5 DEF Bot!Settle, Bot!Outcome, Bot!Notify, Ends
<1> QED
  BY <1>1, <1>2, <1>3, <1>4, <1>5 DEF Bot!Run

LEMMA HandleMoves ==
  ASSUME stage \in [Jobs -> Bot!Stages], NEW j \in Jobs, Arrive(j) \/ Answer(j)
  PROVE  /\ stage[j] \in {"new", "refusing"}
         /\ Moves(j, {"dropped", "placed", "refused"})
         /\ Bot!Handle(j)
  BY DEF Arrive, Answer, Bot!Drop, Bot!PlaceStatus, Bot!TellRefused, Bot!Goto, Moves,
         Bot!Handle

(* A step that brings no request into or out of line, hands or answer.     *)
LEMMA NobodyMoves ==
  ASSUME Matched, UNCHANGED <<queue, holds>>, stage' \in [Jobs -> Bot!Stages],
         \A j \in Jobs : /\ stage'[j] = "queued" <=> stage[j] = "queued"
                         /\ stage'[j] \in Bot!InHand <=> stage[j] \in Bot!InHand
                         /\ stage'[j] \in Ends <=> stage[j] \in Ends
  PROVE  Matched' /\ Taken' = Taken /\ Done' = Done
<1>1. Waits' = Waits /\ Busy' = Busy
  BY DEF Waits, Busy
<1>2. Elements(queue') = Elements(queue) /\ Taken' = Taken
  BY DEF Elements, Taken
<1>3. Done' = Done
  BY DEF Done, Ends
<1> QED
  BY <1>1, <1>2, <1>3 DEF Matched, Elements

(* A worker at its select leaves room in the pool, those that have left    *)
(* counted as taken.                                                       *)
LEMMA RoomInPool ==
  ASSUME IInv, NEW w \in Workers, worker[w] = "select"
  PROVE  /\ IsFiniteSet(Left) /\ Cardinality(Left) \in Nat
         /\ IsFiniteSet(Taken) /\ Cardinality(Taken) \in Nat
         /\ Cardinality(Taken) + Cardinality(Left) < Cardinality(Workers)
<1> DEFINE Hands == {v \in Workers : holds[v] # NoJob}
           f == [v \in Hands |-> holds[v]]
           Both == Hands \cup Left
<1>1. Hands \cap Left = {} /\ Both \subseteq Workers \ {w}
  BY DEF IInv, HeldWasStarted, Left
<1>2. /\ IsFiniteSet(Workers \ {w})
      /\ Cardinality(Workers \ {w}) = Cardinality(Workers) - 1
      /\ Cardinality(Workers) \in Nat
  BY QueueAssumption, FS_RemoveElement, FS_CardinalityType
<1>3. IsFiniteSet(Hands) /\ IsFiniteSet(Left)
  BY QueueAssumption, FS_Subset, Hands \subseteq Workers, Left \subseteq Workers DEF Left
<1>4. Cardinality(Both) = Cardinality(Hands) + Cardinality(Left)
      /\ Cardinality(Both) <= Cardinality(Workers) - 1
  <2>1. Cardinality(Hands \cap Left) = 0
    BY <1>1, FS_EmptySet
  <2>2. Cardinality(Both) = Cardinality(Hands) + Cardinality(Left) - Cardinality(Hands \cap Left)
    BY <1>3, FS_Union
  <2>3. Cardinality(Both) <= Cardinality(Workers \ {w})
    BY <1>1, <1>2, FS_Subset
  <2> QED
    BY <1>2, <1>3, <2>1, <2>2, <2>3, FS_CardinalityType
<1>5. f \in Surjection(Hands, Taken)
  BY DEF Surjection, Taken
<1>6. IsFiniteSet(Taken) /\ Cardinality(Taken) <= Cardinality(Hands)
  BY <1>3, <1>5, FS_Surjection
<1>7. Cardinality(Hands) \in Nat /\ Cardinality(Left) \in Nat /\ Cardinality(Taken) \in Nat
  BY <1>3, <1>6, FS_CardinalityType
<1> HIDE DEF Hands, Both
<1> QED
  BY <1>2, <1>3, <1>4, <1>6, <1>7

LEMMA SameCount ==
  \A S : Bot!Cardinality(S) = Cardinality(S) /\ Bot!L!Cardinality(S) = Cardinality(S)
  BY DEF Bot!Cardinality, Bot!L!Cardinality, Cardinality

LEMMA ArriveSteps ==
  ASSUME IInv, Matched, NEW j \in Jobs, Arrive(j) \/ Answer(j)
  PROVE  Matched' /\ Bot!HandleRequest(j)
<1>1. /\ stage[j] \in {"new", "refusing"} /\ Bot!Handle(j)
      /\ Moves(j, {"dropped", "placed", "refused"})
  BY HandleMoves DEF Matched
<1>2. UNCHANGED vars
  BY DEF Arrive, Answer
<1>3. /\ stage' \in [Jobs -> Bot!Stages]
      /\ \A k \in Jobs : /\ stage'[k] = "queued" <=> stage[k] = "queued"
                         /\ stage'[k] \in Bot!InHand <=> stage[k] \in Bot!InHand
                         /\ stage'[k] \in Ends <=> stage[k] \in Ends
      /\ stage'[j] # "queued"
  BY <1>1, StageSets DEF Moves, Matched
<1>4. Matched' /\ Taken' = Taken /\ Done' = Done
  BY <1>2, <1>3, NobodyMoves DEF vars
<1>5. Left' = Left
  BY <1>2 DEF vars, Left
<1> QED
  BY <1>1, <1>2, <1>3, <1>4, <1>5 DEF Bot!HandleRequest, vars

LEMMA RejectSteps ==
  ASSUME IInv, Matched, NEW j \in Jobs, Rejected(j)
  PROVE  Matched' /\ Bot!HandleRequest(j)
<1>1. stage[j] = "placed" /\ stage' = [stage EXCEPT ![j] = "refusing"] /\ Bot!Handle(j)
  BY DEF Rejected, Bot!Submit, Bot!Goto, Bot!Handle, Matched
<1>2. UNCHANGED <<queue, holds, worker>>
  BY DEF Rejected, RateLimited, QueueFull
<1>3. /\ stage' \in [Jobs -> Bot!Stages]
      /\ \A k \in Jobs : /\ stage'[k] = "queued" <=> stage[k] = "queued"
                         /\ stage'[k] \in Bot!InHand <=> stage[k] \in Bot!InHand
                         /\ stage'[k] \in Ends <=> stage[k] \in Ends
      /\ stage'[j] # "queued"
  BY <1>1, StageSets DEF Matched
<1>4. Matched' /\ Taken' = Taken /\ Done' = Done
  BY <1>2, <1>3, NobodyMoves
<1>5. Left' = Left
  BY <1>2 DEF Left
<1> QED
  BY <1>1, <1>2, <1>3, <1>4, <1>5 DEF Bot!HandleRequest

LEMMA AcceptSteps ==
  ASSUME IInv, Matched, NEW j \in Jobs, Accepted(j)
  PROVE  Matched' /\ Bot!HandleRequest(j)
<1>1. stage[j] = "placed" /\ stage' = [stage EXCEPT ![j] = "queued"] /\ Bot!Handle(j)
  BY DEF Accepted, Bot!Submit, Bot!Goto, Bot!Handle, Matched
<1>2. /\ queue' = Append(queue, j) /\ Len(queue) < QueueSize
      /\ UNCHANGED <<holds, worker>>
  BY DEF Accepted, Enqueue
<1>3. Taken' = Taken /\ Left' = Left
  BY <1>2 DEF Taken, Left
<1>4. Busy' = Busy /\ Waits' = Waits \cup {j} /\ Done' = Done
  BY <1>1, StageSets DEF Matched, Busy, Waits, Done, Ends
<1>5. Elements(queue') = Elements(queue) \cup {j}
  BY <1>2, ElementsAppend DEF IInv, TypeOK
<1>6. Matched'
  BY <1>1, <1>3, <1>4, <1>5, StageSets DEF Matched, Elements
<1>7. j \notin Elements(queue) /\ j \notin Taken /\ j \notin Done
  BY <1>1, StageSets DEF Matched, Waits, Busy, Done, Ends
<1>8. Bot!L!Accept(j)
  BY <1>2, <1>3, <1>4, <1>7 DEF Bot!L!Accept, Bot!L!Known, Elements
<1>9. stage'[j] = "queued"
  BY <1>1 DEF Matched
<1> QED
  BY <1>1, <1>3, <1>6, <1>8, <1>9 DEF Bot!HandleRequest

(* No job waits twice.                                                     *)
LEMMA QueueDistinct ==
  ASSUME TypeOK, NothingLost, AcceptedOnce,
         NEW i \in 1..Len(queue), NEW k \in 1..Len(queue), queue[i] = queue[k]
  PROVE  i = k
<1>1. queue \in Seq(Jobs) /\ started \in Seq(Jobs)
  BY DEF TypeOK
<1>2. Len(queue) \in Nat /\ Len(started) \in Nat
  BY <1>1, LenProperties
<1>3. accepted \in Seq(Jobs) /\ Len(accepted) = Len(started) + Len(queue)
      /\ \A n \in 1..(Len(started) + Len(queue)) :
           accepted[n] = IF n <= Len(started) THEN started[n]
                                              ELSE queue[n - Len(started)]
  BY <1>1, ConcatProperties DEF NothingLost
<1>4. DOMAIN accepted = 1..(Len(started) + Len(queue))
  BY <1>3, LenProperties
<1>5. ASSUME NEW n \in 1..Len(queue)
      PROVE  Len(started) + n \in DOMAIN accepted /\ accepted[Len(started) + n] = queue[n]
  <2>1. (Len(started) + n) - Len(started) = n /\ ~(Len(started) + n <= Len(started))
        /\ Len(started) + n \in 1..(Len(started) + Len(queue))
    BY <1>2
  <2> QED
    BY <1>3, <1>4, <2>1
<1>6. Len(started) + i = Len(started) + k
  BY <1>5 DEF AcceptedOnce
<1> QED
  BY <1>2, <1>6

LEMMA HeadLeaves ==
  ASSUME IInv, queue # <<>>
  PROVE  /\ Head(queue) \in Elements(queue)
         /\ Elements(Tail(queue)) = Elements(queue) \ {Head(queue)}
<1>1. queue \in Seq(Jobs) /\ Len(queue) \in Nat \ {0}
  BY EmptySeq, LenProperties DEF IInv, TypeOK
<1>2. /\ Tail(queue) \in Seq(Jobs) /\ Len(Tail(queue)) = Len(queue) - 1
      /\ \A i \in 1..Len(Tail(queue)) : Tail(queue)[i] = queue[i + 1]
  BY <1>1, HeadTailProperties
<1>3. Head(queue) = queue[1] /\ 1 \in 1..Len(queue)
  BY <1>1
<1>4. /\ Elements(queue) = {queue[i] : i \in 1..Len(queue)}
      /\ Elements(Tail(queue)) = {Tail(queue)[i] : i \in 1..Len(Tail(queue))}
  BY <1>1, <1>2, ElementsOf
<1>5. ASSUME NEW i \in 1..Len(Tail(queue))
      PROVE  Tail(queue)[i] \in Elements(queue) \ {Head(queue)}
  <2>1. i + 1 \in 1..Len(queue) /\ i + 1 # 1
    BY <1>1, <1>2
  <2>2. queue[i + 1] # queue[1]
    BY <1>3, <2>1, QueueDistinct DEF IInv
  <2> QED
    BY <1>2, <1>3, <1>4, <2>1, <2>2
<1>6. ASSUME NEW i \in 1..Len(queue), queue[i] # Head(queue)
      PROVE  queue[i] \in Elements(Tail(queue))
  <2>1. i - 1 \in 1..Len(Tail(queue)) /\ (i - 1) + 1 = i
    BY <1>1, <1>2, <1>3, <1>6
  <2> QED
    BY <1>2, <1>4, <2>1
<1> QED
  BY <1>3, <1>4, <1>5, <1>6

LEMMA ReceiveSteps ==
  ASSUME IInv, Matched, NEW w \in Workers, Receive(w)
  PROVE  Matched' /\ \E j \in Jobs : Bot!StartJob(j)
<1> DEFINE j == Head(queue)
<1>1. /\ worker[w] = "select" /\ queue # <<>> /\ queue' = Tail(queue)
      /\ holds' = [holds EXCEPT ![w] = j]
      /\ worker' = [worker EXCEPT ![w] = "took"]
  BY DEF Receive, Take
<1>2. j \in Jobs /\ j # NoJob /\ j \in Elements(queue)
  <2>1. queue \in Seq(Jobs) /\ queue # <<>>
    BY <1>1 DEF IInv, TypeOK
  <2>2. j \in Jobs
    BY <2>1, HeadTailProperties
  <2>3. j \in Elements(queue)
    BY <1>1, HeadLeaves
  <2> QED
    BY <2>2, <2>3, QueueAssumption
<1>3. Bot!Begin(j) /\ stage[j] = "queued" /\ Moves(j, {"searching", "resolve"})
  BY DEF Receive, Bot!Begin, Bot!Goto, Moves
<1>4. /\ stage' \in [Jobs -> Bot!Stages]
      /\ Waits' = Waits \ {j} /\ Busy' = Busy \cup {j} /\ Done' = Done
  BY <1>2, <1>3, StageSets DEF Moves, Matched, Waits, Busy, Done, Ends
<1>5. Elements(queue') = Elements(queue) \ {j}
  BY <1>1, HeadLeaves
<1>6. Taken' = Taken \cup {j}
  <2>1. holds[w] = NoJob
    BY <1>1 DEF IInv, HeldWasStarted
  <2>2. \A v \in Workers : holds'[v] = IF v = w THEN j ELSE holds[v]
    BY <1>1 DEF IInv, TypeOK
  <2> QED
    BY <1>2, <2>1, <2>2 DEF Taken
<1>7. Matched'
  BY <1>4, <1>5, <1>6 DEF Matched, Elements
<1>8. Left' = Left
  BY <1>1 DEF Left, IInv, TypeOK
<1>9. Cardinality(Taken) + Cardinality(Left) < Cardinality(Workers)
      /\ Cardinality(Taken) < Cardinality(Workers)
  <2>1. /\ Cardinality(Taken) \in Nat /\ Cardinality(Left) \in Nat
        /\ Cardinality(Taken) + Cardinality(Left) < Cardinality(Workers)
    BY <1>1, RoomInPool
  <2>2. Cardinality(Workers) \in Nat
    BY QueueAssumption, FS_CardinalityType
  <2> QED
    BY <2>1, <2>2
<1>10. Bot!L!Start
  BY <1>1, <1>4, <1>6, <1>9, SameCount DEF Bot!L!Start
<1>11. Bot!StartJob(j)
  BY <1>1, <1>3, <1>8, <1>9, <1>10, SameCount DEF Bot!StartJob, Bot!Free
<1> QED
  BY <1>2, <1>7, <1>11

LEMMA ProcessSteps ==
  ASSUME IInv, Matched, NEW w \in Workers, Process(w)
  PROVE  Matched' /\ \E j \in Jobs : Bot!RunJob(j)
<1> DEFINE j == holds[w]
<1>1. worker[w] = "busy" /\ Bot!Run(j)
  BY DEF Process
<1>2. j \in Jobs /\ j # NoJob /\ j \in Taken
  BY <1>1 DEF IInv, TypeOK, HeldWasStarted, Taken
<1>3. stage[j] \in Bot!InHand /\ Moves(j, Bot!InHand \cup Ends)
  BY <1>1, <1>2, RunMoves DEF Matched
<1>4. stage' \in [Jobs -> Bot!Stages] /\ stage'[j] \in Bot!InHand \cup Ends
  BY <1>2, <1>3, StageSets DEF Moves, Matched
<1>5. CASE stage'[j] \in Bot!Final
  <2>1. /\ holds' = [holds EXCEPT ![w] = NoJob]
        /\ worker' = [worker EXCEPT ![w] = "select"]
        /\ queue' = queue
    BY <1>5 DEF Process, Release
  <2>2. Taken' = Taken \ {j}
    <3>1. \A v \in Workers : holds'[v] = IF v = w THEN NoJob ELSE holds[v]
      BY <2>1 DEF IInv, TypeOK
    <3>2. \A v \in Workers : v # w => holds[v] # j
      BY <1>2 DEF IInv, NoSharedJob
    <3> QED
      BY <3>1, <3>2 DEF Taken
  <2>3. stage'[j] \in Ends
    BY <1>4, <1>5, StageSets
  <2>4. Waits' = Waits /\ Busy' = Busy \ {j} /\ Done' = Done \cup {j}
    BY <1>2, <1>3, <2>3, StageSets DEF Moves, Matched, Waits, Busy, Done, Ends
  <2>5. Matched'
    BY <1>4, <2>1, <2>2, <2>4 DEF Matched, Elements
  <2>6. Left' = Left
    BY <1>1, <2>1 DEF Left, IInv, TypeOK
  <2>7. Bot!L!Finish(j)
    BY <1>2, <2>1, <2>2, <2>4 DEF Bot!L!Finish
  <2>8. Bot!RunJob(j)
    BY <1>1, <1>5, <2>6, <2>7 DEF Bot!RunJob
  <2> QED
    BY <1>2, <2>5, <2>8
<1>6. CASE stage'[j] \notin Bot!Final
  <2>1. UNCHANGED <<queue, holds, worker>>
    BY <1>6 DEF Process, vars
  <2>2. stage'[j] \in Bot!InHand
    BY <1>4, <1>6, StageSets
  <2>3. \A k \in Jobs : /\ stage'[k] = "queued" <=> stage[k] = "queued"
                        /\ stage'[k] \in Bot!InHand <=> stage[k] \in Bot!InHand
                        /\ stage'[k] \in Ends <=> stage[k] \in Ends
    BY <1>2, <1>3, <2>2, StageSets DEF Moves, Matched
  <2>4. Matched' /\ Taken' = Taken /\ Done' = Done
    BY <1>4, <2>1, <2>3, NobodyMoves
  <2>5. Left' = Left
    BY <2>1 DEF Left
  <2>6. Bot!RunJob(j)
    BY <1>1, <1>6, <2>1, <2>4, <2>5 DEF Bot!RunJob
  <2> QED
    BY <1>2, <2>4, <2>6
<1> QED
  BY <1>5, <1>6

LEMMA LeaveSteps ==
  ASSUME IInv, Matched, NEW w \in Workers, Leave(w)
  PROVE  Matched' /\ Bot!Leave
<1>1. /\ worker[w] = "select" /\ stopping /\ UNCHANGED <<queue, holds, stopping, requests>>
      /\ worker' = [worker EXCEPT ![w] = "stopped"]
  BY DEF Leave, StopWorker
<1>2. Matched' /\ Taken' = Taken /\ Done' = Done
  BY <1>1, NobodyMoves DEF Matched, requests
<1>3. Left' = Left \cup {w} /\ w \notin Left
  BY <1>1 DEF Left, IInv, TypeOK
<1>4. /\ IsFiniteSet(Left)
      /\ Cardinality(Taken) + Cardinality(Left) < Cardinality(Workers)
  BY <1>1, RoomInPool
<1>5. Cardinality(Left') = Cardinality(Left) + 1
  BY <1>3, <1>4, FS_AddElement
<1>6. UNCHANGED Bot!vars
  BY <1>1 DEF requests, Bot!vars
<1> QED
  BY <1>1, <1>2, <1>4, <1>5, <1>6, SameCount DEF Bot!Leave, Bot!Free

LEMMA RestartSteps ==
  ASSUME IInv, Matched, Restart
  PROVE  IInv' /\ Matched' /\ Bot!DieAndRestart
<1>1. /\ Bot!Die /\ stopping' = FALSE
      /\ queue' = <<>> /\ worker' = [v \in Workers |-> "select"]
      /\ holds' = [v \in Workers |-> NoJob]
  BY DEF Restart, Bot!Die
<1>2. stage' = [j \in Jobs |-> IF stage[j] \in Bot!Final \cup {"new"} THEN stage[j]
                               ELSE "lost"]
  BY <1>1 DEF Bot!Die
<1>3. /\ stage' \in [Jobs -> Bot!Stages]
      /\ Waits' = {} /\ Busy' = {} /\ Done' = Done
  BY <1>2, StageSets DEF Matched, Waits, Busy, Done, Ends
<1>4. Taken' = {} /\ Left' = {}
  BY <1>1 DEF Taken, Left
<1>5. Elements(queue') = {}
  BY <1>1 DEF Elements
<1>6. Matched'
  BY <1>3, <1>4, <1>5 DEF Matched, Elements
<1>7. Bot!DieAndRestart
  BY <1>1, <1>3, <1>4, FS_EmptySet, SameCount DEF Bot!DieAndRestart
<1>8. Init'
  BY <1>1 DEF Restart, Init, Tok!Init
<1>9. IInv'
  BY <1>8, InitIInvAfter
<1> QED
  BY <1>6, <1>7, <1>9

LEMMA AroundSteps ==
  ASSUME IInv, Matched, Signal \/ \E j \in Jobs : Elapse(j)
  PROVE  Matched' /\ Bot!SNext
<1>1. UNCHANGED <<queue, holds, worker, stage>>
  BY DEF Signal, Cancel, Elapse, vars, Bot!Shutdown, Bot!ReportProgress, Bot!Expire
<1>2. Matched' /\ Taken' = Taken /\ Done' = Done
  BY <1>1, NobodyMoves DEF Matched
<1>3. Left' = Left
  BY <1>1 DEF Left
<1>4. Bot!Still
  BY <1>1, <1>2, <1>3 DEF Bot!Still
<1> QED
  BY <1>2, <1>4 DEF Signal, Elapse, Bot!SNext

(* What only the queue's side can tell.                                    *)
LEMMA UnseenSteps ==
  ASSUME IInv, Matched,
         \/ \E j \in Jobs : /\ Admit(j) \/ HandlerMeasures(j) \/ HandlerPublishes(j)
                            /\ UNCHANGED requests
         \/ \E w \in Workers : Publish(w)
         \/ Earn
         \/ UNCHANGED pvars
  PROVE  Matched' /\ UNCHANGED Bot!svars
<1>1. UNCHANGED <<queue, holds, stopping, requests>>
  BY DEF Admit, HandlerMeasures, HandlerPublishes, Publish, WorkerMeasures,
         WorkerPublishes, Earn, Refill, pvars, vars
<1>2. Matched' /\ Taken' = Taken /\ Done' = Done
  BY <1>1, NobodyMoves DEF Matched, requests
<1>3. Left' = Left
  BY DEF Left, IInv, TypeOK, Admit, HandlerMeasures, HandlerPublishes, Publish,
         WorkerMeasures, WorkerPublishes, Earn, Refill, pvars, vars
<1> QED
  BY <1>1, <1>2, <1>3 DEF Bot!svars, Bot!vars, requests

LEMMA PipelineSteps ==
  ASSUME IInv, Matched, [PNext]_pvars
  PROVE  IInv' /\ Matched' /\ (Bot!SNext \/ UNCHANGED Bot!svars)
<1>1. IInv'
  <2>1. CASE Restart
    BY <2>1, RestartSteps
  <2>2. CASE ~Restart
    <3>1. [Next]_vars
      BY <2>2 DEF PNext, pvars, Arrive, Submitted, Accepted, Rejected, Answer, Elapse, Receive,
         Publish, Process, Leave, Earn, Signal, Ended, Next, Submit, Work
    <3> QED
      BY <3>1, StepKeeps
  <2> QED
    BY <2>1, <2>2
<1>2. ASSUME NEW j \in Jobs, Arrive(j) \/ Answer(j) \/ Accepted(j) \/ Rejected(j)
      PROVE  Matched' /\ Bot!SNext
  BY <1>2, ArriveSteps, AcceptSteps, RejectSteps DEF Bot!SNext
<1>3. ASSUME NEW w \in Workers, Receive(w) \/ Process(w) \/ Leave(w)
      PROVE  Matched' /\ Bot!SNext
  BY <1>3, ReceiveSteps, ProcessSteps, LeaveSteps DEF Bot!SNext
<1>4. CASE Restart
  BY <1>4, <1>1, RestartSteps DEF Bot!SNext
<1> QED
  BY <1>1, <1>2, <1>3, <1>4, AroundSteps, UnseenSteps DEF PNext, Submitted, Ended

LEMMA PipelineInit == PInit => IInv /\ Matched /\ Bot!SInit
<1> SUFFICES ASSUME PInit PROVE IInv /\ Matched /\ Bot!SInit
  OBVIOUS
<1>1. IInv
  BY InitIInv DEF PInit
<1>2. Waits = {} /\ Busy = {} /\ Done = {} /\ stage \in [Jobs -> Bot!Stages]
  BY StageSets DEF PInit, Bot!Init, Waits, Busy, Done
<1>3. Elements(queue) = {} /\ Taken = {} /\ Left = {}
  BY DEF PInit, Init, Elements, Taken, Left
<1>4. Matched
  BY <1>2, <1>3 DEF Matched
<1>5. Bot!SInit
  BY <1>2, <1>3, FS_EmptySet, SameCount DEF PInit, Init, Bot!SInit, Bot!L!Init
<1> QED
  BY <1>1, <1>4, <1>5

(* However handlers, workers, clock, signal and deaths interleave, what    *)
(* requests see of channel, budgets and goroutines is Songbot's line and   *)
(* pool (handleRequest, Submit, worker, process).                          *)
THEOREM PipelineImplementsSongbot == PSpec => ImplementsSongbot
<1>1. IInv /\ Matched /\ [PNext]_pvars => IInv' /\ Matched'
  BY PipelineSteps
<1>2. IInv /\ Matched /\ [PNext]_pvars => [Bot!SNext]_(Bot!svars)
  BY PipelineSteps
<1> QED
  BY <1>1, <1>2, PipelineInit, PTL DEF PSpec, ImplementsSongbot, Bot!SSpec

(* What the instance's theorems assume of the constants. *)
LEMMA BotAssumptions ==
  /\ QueueSize \in Nat \ {0}
  /\ Cardinality(Workers) \in Nat \ {0}
  /\ Unplayable \subseteq Videos /\ Faults \subseteq Bot!FaultKinds
  /\ MaxDeaths \in Nat
  /\ NoVideo \notin Videos /\ NoFile \notin Jobs /\ NoRow \notin Jobs \cup {NoFile}
<1>1. Cardinality(Workers) \in Nat /\ (Cardinality(Workers) = 0 <=> Workers = {})
  BY QueueAssumption, FS_CardinalityType, FS_EmptySet
<1> QED
  BY <1>1, QueueAssumption, PipelineAssumption

(* Whatever the interleaving of handlers, workers, clock, signal and       *)
(* deaths, the whole bot keeps the promise of SongDelivery: at most one    *)
(* file, of the song asked for, and an outcome that says what happened     *)
(* (bot.go, service.go).                                                   *)
THEOREM BotKeepsPromise == PSpec => Bot!ImplementsSongDelivery
BY PipelineImplementsSongbot, BotAssumptions, Bot!PromiseSurvivesQueue, PTL
   DEF ImplementsSongbot

(* Once told to stop the bot begins no send, whatever waits in the channel *)
(* and whichever workers still take from it; a send under way may still    *)
(* post (service.go, worker and process; deliver.go, send).                *)
THEOREM BotStops == PSpec => Bot!StopMeansStop
BY PipelineImplementsSongbot, BotAssumptions, Bot!StopIsFinal, PTL
   DEF ImplementsSongbot

(* The channel is the requests waiting and the workers hold those in hand, *)
(* through every shutdown and death: no worker is lost to a job that ended *)
(* (service.go, worker returns to its select).                             *)
THEOREM BotLosesNoWorker == PSpec => []Bot!LineMatches
BY PipelineImplementsSongbot, BotAssumptions, Bot!NoWorkerLost, PTL
   DEF ImplementsSongbot

(* Every request of the whole bot: the right song, no delivery that was    *)
(* none, a message if it failed or was refused, silence for a shutdown's   *)
(* own victims only, no scratch directory but a dead process's or one that *)
(* would not go, and nothing unplayable moved (service.go, run and fetch). *)
THEOREM BotIsHonest ==
  PSpec => /\ []Bot!RightSong
           /\ []Bot!DeliveredIsDone
           /\ []Bot!NobodyLeftWaiting
           /\ []Bot!ScratchIsRemoved
           /\ []Bot!RefusedUntransferred
           /\ Bot!AbandonedOnlyWhenStopping
<1>1. PSpec => Bot!Spec
  BY PipelineImplementsSongbot, BotAssumptions, Bot!RequestsAsAlone, PTL
     DEF ImplementsSongbot
<1>2. Bot!Spec => []Bot!RightSong
  BY BotAssumptions, Bot!EverybodyGetsTheirSong, PTL
<1>3. Bot!Spec => []Bot!DeliveredIsDone
  BY BotAssumptions, Bot!DeliveryIsComplete, PTL
<1>4. Bot!Spec => []Bot!NobodyLeftWaiting
  BY BotAssumptions, Bot!FailureIsTold, PTL
<1>5. Bot!Spec => []Bot!ScratchIsRemoved
  BY BotAssumptions, Bot!ScratchGoes, PTL
<1>6. Bot!Spec => []Bot!RefusedUntransferred
  BY BotAssumptions, Bot!NothingUnplayableMoves, PTL
<1>7. Bot!Spec => Bot!AbandonedOnlyWhenStopping
  BY BotAssumptions, Bot!SilenceIsForShutdowns, PTL
<1> QED
  BY <1>1, <1>2, <1>3, <1>4, <1>5, <1>6, <1>7, PTL

(* No request of the whole bot goes back or has a call made for it twice,  *)
(* whichever workers and handlers run beside it, and whoever dies between  *)
(* (service.go, process, run and fetch).                                   *)
THEOREM BotGoesForward == PSpec => Bot!OnlyForward
<1>1. PSpec => Bot!Spec
  BY PipelineImplementsSongbot, BotAssumptions, Bot!RequestsAsAlone, PTL
     DEF ImplementsSongbot
<1>2. Bot!Spec => Bot!OnlyForward
  BY BotAssumptions, Bot!NobodyGoesBack, PTL
<1> QED
  BY <1>1, <1>2, PTL

=============================================================================
