--------------------------- MODULE OutboundProofs ---------------------------
(***************************************************************************)
(* Theorems about Outbound, for any number of workers and callbacks and    *)
(* every setting of the limiter and the throttle.                          *)
(*                                                                         *)
(* Paced rests on what the reservations look like: no two calls have the   *)
(* same turn ahead, none a later one than the credit is negative, and what *)
(* has gone out, what may go out at once and what is left fit the burst.   *)
(***************************************************************************)
EXTENDS Outbound, FiniteSetTheorems, TLAPS

Numbers ==
  /\ credit \in Int /\ credit <= Burst
  /\ call \in [Callers -> Int]
  /\ \A c \in Callers : call[c] >= Off
  /\ level \in Nat

TurnsCovered == \A c \in Callers : call[c] > 0 => call[c] <= -credit

TurnsApart == \A c, d \in Callers : call[c] > 0 /\ call[c] = call[d] => c = d

Due == {c \in Callers : call[c] = 0}
Spare == IF credit > 0 THEN credit ELSE 0

Fits == level + Cardinality(Due) + Spare <= Burst

LineInv == Numbers /\ TurnsCovered /\ TurnsApart /\ Fits

(* Reports wait during a download, everything else outside one: an apology *)
(* finds nothing else of its worker in the line.                           *)
WhoWaits ==
  /\ phase \in [Workers -> Phases]
  /\ call \in [Callers -> Int]
  /\ \A w \in Workers : Waiting(Own(w)) => phase[w] \in {"begin", "work", "sorry"}
  /\ \A w \in Workers, i \in 1..Callbacks : Waiting(<<w, i>>) => phase[w] = "download"

-----------------------------------------------------------------------------

LEMMA Finite == IsFiniteSet(Callers) /\ IsFiniteSet(Due) /\ Cardinality(Due) \in Nat
<1>1. IsFiniteSet(0..Callbacks)
  BY FS_Interval, OutboundAssumption DEF OutboundAssumption
<1>2. IsFiniteSet(Callers)
  BY <1>1, FS_Product, OutboundAssumption DEF Callers, OutboundAssumption
<1> QED
  BY <1>2, FS_Subset, FS_CardinalityType DEF Due

(* A call takes a place: at once if there is spare credit, at the end of   *)
(* the line otherwise.                                                     *)
LEMMA ReserveKeeps ==
  ASSUME LineInv, NEW c \in Callers, ~Waiting(c), Reserve(c), level' = level
  PROVE  LineInv'
<1>1. /\ credit' = credit - 1 /\ call' = [call EXCEPT ![c] = Wait] /\ call[c] = Off
  BY DEF Reserve, Waiting
<1>2. Wait \in Int /\ Wait >= 0 /\ (Wait > 0 => Wait = -credit' /\ credit <= 0)
      /\ (Wait = 0 <=> credit > 0)
  BY <1>1 DEF Wait, LineInv, Numbers
<1>3. /\ \A d \in Callers \ {c} : call'[d] = call[d]
      /\ call'[c] = Wait
  BY <1>1 DEF LineInv, Numbers
<1>4. Numbers'
  BY <1>1, <1>2, OutboundAssumption DEF LineInv, Numbers, Off, OutboundAssumption
<1>5. TurnsCovered'
  BY <1>1, <1>2, <1>3 DEF LineInv, Numbers, TurnsCovered
<1>6. TurnsApart'
  BY <1>1, <1>2, <1>3 DEF LineInv, Numbers, TurnsCovered, TurnsApart
<1>7. Fits'
  <2>1. CASE credit > 0
    <3>1. Due' = Due \cup {c} /\ c \notin Due
      BY <1>1, <1>2, <1>3, <2>1 DEF Due, Off
    <3>2. Cardinality(Due') = Cardinality(Due) + 1
      BY <3>1, Finite, FS_AddElement
    <3> QED
      BY <1>1, <2>1, <3>2, Finite DEF LineInv, Numbers, Fits, Spare
  <2>2. CASE credit <= 0
    <3>1. Due' = Due
      BY <1>1, <1>2, <1>3, <2>2 DEF Due, Off, LineInv, Numbers
    <3> QED
      BY <1>1, <2>2, <3>1, Finite DEF LineInv, Numbers, Fits, Spare
  <2> QED
    BY <2>1, <2>2 DEF LineInv, Numbers
<1> QED
  BY <1>4, <1>5, <1>6, <1>7 DEF LineInv

(* Whoever gives up last frees the end of the line, others leave a gap.    *)
LEMMA GiveUpKeeps ==
  ASSUME LineInv, NEW c \in Callers, Waiting(c), GiveUp(c), level' = level
  PROVE  LineInv'
<1>1. /\ call' = [call EXCEPT ![c] = Off]
      /\ credit' = IF call[c] > 0 /\ call[c] = -credit THEN credit + 1 ELSE credit
  BY DEF GiveUp
<1>2. /\ \A d \in Callers \ {c} : call'[d] = call[d]
      /\ call'[c] = Off
  BY <1>1 DEF LineInv, Numbers
<1>3. Numbers'
  BY <1>1, OutboundAssumption DEF LineInv, Numbers, Off, OutboundAssumption
<1>4. TurnsCovered'
  <2> SUFFICES ASSUME NEW d \in Callers, call'[d] > 0 PROVE call'[d] <= -credit'
    BY DEF TurnsCovered
  <2>1. d # c /\ call'[d] = call[d] /\ call[d] <= -credit
    BY <1>2 DEF Off, LineInv, TurnsCovered
  <2>2. call[d] = call[c] => call[c] <= 0
    BY <2>1, <1>2 DEF LineInv, TurnsApart
  <2> QED
    BY <1>1, <2>1, <2>2 DEF LineInv, Numbers
<1>5. TurnsApart'
  BY <1>2 DEF LineInv, TurnsApart, Off
<1>6. Fits'
  <2>1. Due' = Due \ {c}
    BY <1>2 DEF Due, Off
  <2>2. Cardinality(Due') <= Cardinality(Due) /\ Cardinality(Due') \in Nat
    BY <2>1, Finite, FS_Subset, FS_CardinalityType
  <2>3. Spare' = Spare
    BY <1>1 DEF Spare, LineInv, Numbers
  <2>4. Spare \in Int
    BY DEF Spare, LineInv, Numbers
  <2> QED
    BY <2>2, <2>3, <2>4, Finite, OutboundAssumption
       DEF LineInv, Numbers, Fits, OutboundAssumption
<1> QED
  BY <1>3, <1>4, <1>5, <1>6 DEF LineInv

LEMMA GrantKeeps ==
  ASSUME LineInv, NEW c \in Callers, Grant(c)
  PROVE  LineInv'
<1>1. /\ call[c] = 0 /\ call' = [call EXCEPT ![c] = Off]
      /\ credit' = credit /\ level' = level + 1
  BY DEF Grant, Granted
<1>2. /\ \A d \in Callers \ {c} : call'[d] = call[d]
      /\ call'[c] = Off
  BY <1>1 DEF LineInv, Numbers
<1>3. Numbers'
  BY <1>1 DEF LineInv, Numbers, Off
<1>4. TurnsCovered' /\ TurnsApart'
  BY <1>1, <1>2 DEF LineInv, TurnsCovered, TurnsApart, Off
<1>5. Due' = Due \ {c} /\ c \in Due
  BY <1>1, <1>2 DEF Due, Off
<1>6. Cardinality(Due') = Cardinality(Due) - 1
  BY <1>5, Finite, FS_RemoveElement
<1>7. Fits'
  BY <1>1, <1>6, Finite DEF LineInv, Numbers, Fits, Spare
<1> QED
  BY <1>3, <1>4, <1>7 DEF LineInv

(* Of the turns ahead one at most is the next, and it uses up the token    *)
(* the tick brings.                                                        *)
LEMMA TickKeeps ==
  ASSUME LineInv, Tick
  PROVE  LineInv'
<1>1. /\ \A c \in Callers : call[c] # 0
      /\ credit' = IF credit < Burst THEN credit + 1 ELSE credit
      /\ call' = [c \in Callers |-> IF Waiting(c) THEN call[c] - 1 ELSE Off]
      /\ level' = IF level > 0 THEN level - 1 ELSE 0
  BY DEF Tick
<1>2. \A c \in Callers : call[c] \in Int /\ (call[c] = Off \/ call[c] > 0)
  BY <1>1 DEF LineInv, Numbers, Off
<1>3. \A c \in Callers : call'[c] = IF call[c] > 0 THEN call[c] - 1 ELSE Off
  BY <1>1, <1>2 DEF Waiting, Off
<1>4. Burst \in Nat \ {0}
  BY OutboundAssumption DEF OutboundAssumption
<1>5. Numbers'
  BY <1>1, <1>2, <1>4 DEF LineInv, Numbers, Off, Waiting
<1>6. TurnsCovered'
  BY <1>1, <1>2, <1>3, <1>4 DEF LineInv, Numbers, TurnsCovered, Off
<1>7. TurnsApart'
  BY <1>2, <1>3 DEF LineInv, TurnsApart, Off
<1>8. Fits'
  <2>1. Due = {} /\ Cardinality(Due) = 0
    BY <1>1, FS_EmptySet DEF Due
  <2>2. CASE credit >= 0
    <3>1. Due' = {}
      BY <1>2, <1>3, <2>2 DEF LineInv, Numbers, TurnsCovered, Due, Off
    <3> QED
      BY <1>1, <1>4, <2>1, <2>2, <3>1 DEF LineInv, Numbers, Fits, Spare
  <2>3. CASE credit < 0
    <3>1. \A c, d \in Due' : c = d
      BY <1>2, <1>3 DEF LineInv, TurnsApart, Due, Off
    <3>2. Cardinality(Due') \in 0..1
      <4>1. CASE Due' = {}
        BY <4>1, FS_EmptySet
      <4>2. ASSUME NEW c \in Due' PROVE Cardinality(Due') = 1
        <5>1. Due' = {c}
          BY <3>1
        <5> QED
          BY <5>1, FS_Singleton
      <4> QED
        BY <4>1, <4>2
    <3>3. CASE level > 0 \/ Due' = {}
      BY <1>1, <1>4, <2>1, <2>3, <3>2, <3>3, FS_EmptySet DEF LineInv, Numbers, Fits, Spare
    <3>4. CASE level = 0
      BY <1>1, <1>4, <2>1, <2>3, <3>2, <3>4 DEF LineInv, Numbers, Fits, Spare
    <3> QED
      BY <3>3, <3>4 DEF LineInv, Numbers
  <2> QED
    BY <2>2, <2>3 DEF LineInv, Numbers
<1> QED
  BY <1>5, <1>6, <1>7, <1>8 DEF LineInv

LEMMA CallersAre ==
  \A w \in Workers : Own(w) \in Callers /\ \A i \in 1..Callbacks : <<w, i>> \in Callers
  BY OutboundAssumption DEF Own, Callers, OutboundAssumption

LEMMA ReserveWaits ==
  ASSUME WhoWaits, NEW w \in Workers, NEW i \in 0..Callbacks, Reserve(<<w, i>>),
         phase' \in [Workers -> Phases], \A v \in Workers \ {w} : phase'[v] = phase[v],
         IF i = 0 THEN phase'[w] \in {"begin", "work", "sorry"} /\ phase[w] # "download"
                  ELSE phase'[w] = "download" /\ phase[w] = "download",
         Wait \in Int
  PROVE  WhoWaits'
<1>1. call' = [call EXCEPT ![<<w, i>>] = Wait] /\ <<w, i>> \in Callers
  BY DEF Reserve, Callers
<1>2. call' \in [Callers -> Int]
  BY <1>1 DEF WhoWaits
<1>3. \A v \in Workers, k \in 0..Callbacks :
        <<v, k>> # <<w, i>> => call'[<<v, k>>] = call[<<v, k>>]
  BY <1>1 DEF WhoWaits, Callers
<1>4. ASSUME NEW v \in Workers, Waiting(Own(v))'
      PROVE  phase'[v] \in {"begin", "work", "sorry"}
  BY <1>3, <1>4, OutboundAssumption DEF WhoWaits, Waiting, Own, OutboundAssumption
<1>5. ASSUME NEW v \in Workers, NEW k \in 1..Callbacks, Waiting(<<v, k>>)'
      PROVE  phase'[v] = "download"
  BY <1>3, <1>5, OutboundAssumption DEF WhoWaits, Waiting, OutboundAssumption
<1> QED
  BY <1>2, <1>4, <1>5 DEF WhoWaits

(* A worker that moves on has nothing in the line that keeps it.           *)
LEMMA MoveWaits ==
  ASSUME WhoWaits, call' = call, NEW w \in Workers, phase' \in [Workers -> Phases],
         \A v \in Workers \ {w} : phase'[v] = phase[v],
         Quiet(w) \/ phase[w] \in {"idle", "failing"}
  PROVE  WhoWaits'
<1>1. ~Waiting(Own(w)) /\ \A i \in 1..Callbacks : ~Waiting(<<w, i>>)
  BY OutboundAssumption DEF WhoWaits, Quiet, Own, OutboundAssumption
<1> QED
  BY <1>1 DEF WhoWaits, Waiting, Own

LEMMA SilenceWaits ==
  ASSUME WhoWaits, NEW c \in Callers, Waiting(c), call' = [call EXCEPT ![c] = Off],
         phase' \in [Workers -> Phases],
         \A v \in Workers \ {c[1]} : phase'[v] = phase[v],
         c = Own(c[1]) \/ phase' = phase
  PROVE  WhoWaits'
<1>1. call' \in [Callers -> Int] /\ \A d \in Callers : Waiting(d)' => Waiting(d) /\ d # c
  BY DEF WhoWaits, Waiting, Off
<1>2. CASE phase' = phase
  BY <1>1, <1>2, CallersAre DEF WhoWaits
<1>3. CASE c = Own(c[1])
  <2> DEFINE w == c[1]
  <2>1. w \in Workers /\ phase[w] # "download"
    BY <1>3 DEF WhoWaits, Callers
  <2>2. \A i \in 1..Callbacks : ~Waiting(<<w, i>>)
    BY <2>1 DEF WhoWaits
  <2>3. ~Waiting(Own(w))'
    BY <1>1, <1>3
  <2> HIDE DEF w
  <2>4. \A v \in Workers \ {w} : phase'[v] = phase[v]
    BY DEF w
  <2> QED
    BY <1>1, <2>1, <2>2, <2>3, <2>4, CallersAre DEF WhoWaits
<1> QED
  BY <1>2, <1>3

LEMMA Stays ==
  ASSUME LineInv, UNCHANGED <<credit, call, level>>
  PROVE  LineInv'
  BY DEF LineInv, Numbers, TurnsCovered, TurnsApart, Fits, Due, Spare

LEMMA JobKeepsWho ==
  ASSUME WhoWaits, LineInv, NEW w \in Workers, Job(w)
  PROVE  WhoWaits'
<1> USE DEF Goto
<1>1. w \in Workers /\ phase \in [Workers -> Phases] /\ Wait \in Int
  BY DEF WhoWaits, LineInv, Numbers, Wait
<1>2. 0 \in 0..Callbacks /\ \A i \in 1..Callbacks : i \in 0..Callbacks /\ i # 0
  BY OutboundAssumption DEF OutboundAssumption
<1>3. CASE Begin(w) \/ Fail(w) \/ Expire(w) \/ EndDownload(w) \/ Finish(w)
  <2>1. call' = call /\ phase' \in [Workers -> Phases]
    BY <1>1, <1>3 DEF Begin, Fail, Expire, EndDownload, Finish, Phases
  <2>2. \A v \in Workers \ {w} : phase'[v] = phase[v]
    BY <1>1, <1>3 DEF Begin, Fail, Expire, EndDownload, Finish
  <2>3. CASE Expire(w)
    BY <2>3 DEF Expire, WhoWaits, Waiting, Own
  <2>4. CASE ~Expire(w)
    <3>1. Quiet(w) \/ phase[w] \in {"idle", "failing"}
      BY <1>3, <2>4 DEF Begin, Fail, EndDownload, Finish
    <3> QED
      BY <2>1, <2>2, <3>1, MoveWaits
  <2> QED
    BY <2>3, <2>4
<1>4. CASE Call(w)
  <2>1. Reserve(<<w, 0>>) /\ phase' = phase /\ phase[w] \in {"begin", "work"}
    BY <1>4 DEF Call, AtWork, Own
  <2> QED
    BY <1>1, <1>2, <2>1, ReserveWaits
<1>5. ASSUME NEW i \in 1..Callbacks, NEW p \in 0..Top, Report(w, i, p) PROVE WhoWaits'
  <2>1. phase' = phase /\ phase[w] = "download"
    BY <1>5 DEF Report
  <2>2. Reserve(<<w, i>>) \/ call' = call
    BY <1>5 DEF Report
  <2>3. CASE Reserve(<<w, i>>)
    BY <1>1, <1>2, <2>1, <2>3, ReserveWaits
  <2>4. CASE call' = call
    BY <2>1, <2>4 DEF WhoWaits, Waiting, Own
  <2> QED
    BY <2>2, <2>3, <2>4
<1>6. CASE Apologise(w)
  <2>1. phase[w] = "failing"
    BY <1>6 DEF Apologise
  <2>2. CASE Reserve(Own(w)) /\ Goto(w, "sorry")
    <3>1. Reserve(<<w, 0>>) /\ phase' = [phase EXCEPT ![w] = "sorry"]
      BY <2>2 DEF Own
    <3>2. phase' \in [Workers -> Phases]
      BY <1>1, <3>1 DEF Phases
    <3> QED
      BY <1>1, <1>2, <2>1, <3>1, <3>2, ReserveWaits
  <2>3. CASE Goto(w, "unheard") /\ call' = call
    <3>1. phase' \in [Workers -> Phases]
      BY <1>1, <2>3 DEF Phases
    <3> QED
      BY <1>1, <2>1, <2>3, <3>1, MoveWaits
  <2> QED
    BY <1>6, <2>2, <2>3 DEF Apologise
<1> QED
  BY <1>3, <1>4, <1>5, <1>6 DEF Job

LEMMA CallKeepsWho ==
  ASSUME WhoWaits, NEW c \in Callers, Grant(c) \/ StopWaiting(c)
  PROVE  WhoWaits'
<1> USE DEF Goto
<1>1. /\ c[1] \in Workers /\ phase \in [Workers -> Phases]
      /\ call' = [call EXCEPT ![c] = Off] /\ Waiting(c)
  BY DEF Callers, Grant, StopWaiting, GiveUp, Waiting, Off, WhoWaits
<1>2. phase' \in [Workers -> Phases] /\ \A v \in Workers \ {c[1]} : phase'[v] = phase[v]
  <2>1. phase' = phase \/ \E p \in Phases : phase' = [phase EXCEPT ![c[1]] = p]
    BY DEF Grant, Granted, StopWaiting, Phases
  <2> QED
    BY <1>1, <2>1
<1>3. c = Own(c[1]) \/ (\E i \in 1..Callbacks : c = <<c[1], i>>)
  BY OutboundAssumption DEF Callers, Own, OutboundAssumption
<1>4. c = Own(c[1]) \/ phase' = phase
  <2>1. ASSUME c # Own(c[1]) PROVE phase[c[1]] = "download"
    BY <1>1, <1>3, <2>1 DEF WhoWaits
  <2> QED
    BY <2>1 DEF Grant, Granted, StopWaiting
<1> QED
  BY <1>1, <1>2, <1>4, SilenceWaits

LEMMA LineKept == LineInv /\ WhoWaits /\ [Next]_vars => LineInv' /\ WhoWaits'
<1> SUFFICES ASSUME LineInv, WhoWaits, [Next]_vars PROVE LineInv' /\ WhoWaits'
  OBVIOUS
<1>1. ASSUME NEW w \in Workers, Job(w) PROVE LineInv' /\ WhoWaits'
  <2>1. Own(w) \in Callers
    BY CallersAre
  <2>2. Quiet(w) \/ phase[w] = "failing" => ~Waiting(Own(w))
    BY OutboundAssumption DEF Quiet, Own, WhoWaits, OutboundAssumption
  <2>3. ASSUME Begin(w) \/ Fail(w) \/ Expire(w) \/ EndDownload(w) \/ Finish(w)
        PROVE  LineInv'
    BY <2>3, Stays DEF Begin, Fail, Expire, EndDownload, Finish
  <2>4. ASSUME Call(w) PROVE LineInv'
    BY <2>1, <2>2, <2>4, ReserveKeeps DEF Call
  <2>5. ASSUME NEW i \in 1..Callbacks, NEW p \in 0..Top, Report(w, i, p) PROVE LineInv'
    <3>1. <<w, i>> \in Callers
      BY CallersAre
    <3>2. ~Waiting(<<w, i>>) /\ level' = level
      BY <2>5 DEF Report
    <3>3. Reserve(<<w, i>>) \/ UNCHANGED <<credit, call>>
      BY <2>5 DEF Report
    <3> QED
      BY <3>1, <3>2, <3>3, ReserveKeeps, Stays
  <2>6. ASSUME Apologise(w) PROVE LineInv'
    <3>1. ~Waiting(Own(w)) /\ level' = level
      BY <2>2, <2>6 DEF Apologise
    <3>2. Reserve(Own(w)) \/ UNCHANGED <<credit, call>>
      BY <2>6 DEF Apologise
    <3> QED
      BY <2>1, <3>1, <3>2, ReserveKeeps, Stays
  <2> QED
    BY <1>1, <2>3, <2>4, <2>5, <2>6, JobKeepsWho DEF Job
<1>2. ASSUME NEW c \in Callers, Grant(c) \/ StopWaiting(c) PROVE LineInv' /\ WhoWaits'
  BY <1>2, GrantKeeps, GiveUpKeeps, CallKeepsWho DEF StopWaiting
<1>3. CASE Shutdown \/ UNCHANGED vars
  BY <1>3, Stays DEF Shutdown, vars, WhoWaits, Waiting, Own
<1>4. CASE Tick
  <2>1. phase' = phase /\ \A c \in Callers : Waiting(c)' => Waiting(c)
    BY <1>4 DEF Tick, Waiting
  <2>2. call' \in [Callers -> Int]
    BY <1>4, TickKeeps DEF LineInv, Numbers
  <2> QED
    BY <1>4, <2>1, <2>2, TickKeeps, CallersAre DEF WhoWaits
<1> QED
  BY <1>1, <1>2, <1>3, <1>4 DEF Next

LEMMA LineInit == Init => LineInv /\ WhoWaits
<1> SUFFICES ASSUME Init PROVE LineInv /\ WhoWaits
  OBVIOUS
<1>1. \A c \in Callers : call[c] = Off
  BY DEF Init
<1>2. Due = {} /\ Cardinality(Due) = 0
  BY <1>1, FS_EmptySet DEF Due, Off
<1>3. Numbers /\ Fits
  BY <1>2, OutboundAssumption
     DEF Init, Numbers, Fits, Spare, Off, OutboundAssumption
<1>4. WhoWaits
  BY <1>1, <1>3, CallersAre DEF Init, WhoWaits, Waiting, Numbers, Phases
<1> QED
  BY <1>1, <1>3, <1>4 DEF LineInv, TurnsCovered, TurnsApart, Off

(* However many workers and callbacks talk, and whoever gives up waiting,  *)
(* the calls that go out fit Burst and one for each tick: sendLimiter does *)
(* what bot.go sets it up for.                                             *)
THEOREM CallsArePaced == Spec => []Paced
<1>1. LineInv => Paced
  <2> SUFFICES ASSUME LineInv PROVE Paced
    OBVIOUS
  <2>1. Spare \in Nat
    BY DEF Spare, LineInv, Numbers
  <2> QED
    BY <2>1, Finite, OutboundAssumption
       DEF LineInv, Numbers, Fits, Paced, OutboundAssumption
<1> QED
  BY <1>1, LineInit, LineKept, PTL DEF Spec

-----------------------------------------------------------------------------
(* The line itself: who is in it only moves up, whoever else comes or      *)
(* gives up.                                                               *)

(* A turn once given never moves back, and time brings it nearer: a call   *)
(* waits for no more ticks than stood in front of it when it came          *)
(* (sendLimiter.wait).                                                     *)
TurnsComeNearer ==
  [][\A c \in Callers : Waiting(c) =>
       /\ call'[c] <= call[c]
       /\ Tick => call'[c] < call[c]]_vars

(* Whoever joins the line has a later turn than all in it, also after one  *)
(* of them gave up and its place was handed back; only where there is no   *)
(* line, and all may go out at once, is nobody first (sendLimiter.wait).   *)
NobodyCutsIn ==
  [][\A c, d \in Callers : Waiting(c) /\ ~Waiting(d) /\ Waiting(d)' =>
       call'[d] > call[c] \/ (call[c] = 0 /\ call'[d] = 0)]_vars

LEMMA LineMoves ==
  ASSUME LineInv, WhoWaits, [Next]_vars
  PROVE  \/ Tick
         \/ call' = call
         \/ \E d \in Callers : ~Waiting(d) /\ Reserve(d)
         \/ \E d \in Callers : call' = [call EXCEPT ![d] = Off]
<1> DEFINE Joins == \E d \in Callers : ~Waiting(d) /\ Reserve(d)
<1>1. ASSUME NEW w \in Workers, Job(w) PROVE call' = call \/ Joins
  <2>1. Own(w) \in Callers /\ \A i \in 1..Callbacks : <<w, i>> \in Callers
    BY CallersAre
  <2>2. Quiet(w) \/ phase[w] = "failing" => ~Waiting(Own(w))
    BY OutboundAssumption DEF Quiet, Own, WhoWaits, OutboundAssumption
  <2>3. CASE Begin(w) \/ Fail(w) \/ Expire(w) \/ EndDownload(w) \/ Finish(w)
    BY <2>3 DEF Begin, Fail, Expire, EndDownload, Finish
  <2>4. CASE Call(w)
    BY <2>1, <2>2, <2>4 DEF Call
  <2>5. ASSUME NEW i \in 1..Callbacks, NEW p \in 0..Top, Report(w, i, p)
        PROVE  call' = call \/ Joins
    BY <2>1, <2>5 DEF Report
  <2>6. CASE Apologise(w)
    BY <2>1, <2>2, <2>6 DEF Apologise
  <2> QED
    BY <1>1, <2>3, <2>4, <2>5, <2>6 DEF Job
<1>2. ASSUME NEW c \in Callers, Grant(c) \/ StopWaiting(c)
      PROVE  call' = [call EXCEPT ![c] = Off]
  BY <1>2 DEF Grant, StopWaiting, GiveUp
<1>3. Shutdown \/ UNCHANGED vars => call' = call
  BY DEF Shutdown, vars
<1> QED
  BY <1>1, <1>2, <1>3 DEF Next

(* What a step does to one who waits, and to one who comes.                *)
LEMMA TurnsMove ==
  ASSUME LineInv, WhoWaits, [Next]_vars, NEW c \in Callers, Waiting(c)
  PROVE  /\ call'[c] <= call[c]
         /\ Tick => call'[c] < call[c]
         /\ \A d \in Callers : ~Waiting(d) /\ Waiting(d)' =>
              call'[d] > call[c] \/ (call[c] = 0 /\ call'[d] = 0)
<1>1. /\ call \in [Callers -> Int] /\ credit \in Int
      /\ call[c] >= 0 /\ (call[c] > 0 => call[c] <= -credit)
  BY DEF LineInv, Numbers, TurnsCovered, Waiting, Off
<1>2. CASE Tick
  <2>1. \A d \in Callers : call'[d] = IF Waiting(d) THEN call[d] - 1 ELSE Off
    BY <1>2 DEF Tick
  <2> QED
    BY <1>1, <2>1 DEF Waiting
<1>3. CASE ~Tick /\ call' = call
  BY <1>1, <1>3 DEF Waiting
<1>4. ASSUME ~Tick, NEW d \in Callers, ~Waiting(d), Reserve(d)
      PROVE  /\ call'[c] = call[c]
             /\ \A e \in Callers : ~Waiting(e) /\ Waiting(e)' =>
                  call'[e] > call[c] \/ (call[c] = 0 /\ call'[e] = 0)
  <2>1. call' = [call EXCEPT ![d] = Wait] /\ d # c
    BY <1>4 DEF Reserve
  <2>2. Wait > call[c] \/ (call[c] = 0 /\ Wait = 0)
    BY <1>1 DEF Wait
  <2>3. \A e \in Callers : ~Waiting(e) /\ Waiting(e)' => e = d
    BY <1>1, <2>1 DEF Waiting
  <2> QED
    BY <1>1, <2>1, <2>2, <2>3
<1>5. ASSUME ~Tick, NEW d \in Callers, call' = [call EXCEPT ![d] = Off]
      PROVE  call'[c] <= call[c] /\ \A e \in Callers : Waiting(e)' => Waiting(e)
  BY <1>1, <1>5 DEF Waiting, Off
<1> QED
  BY <1>1, <1>2, <1>3, <1>4, <1>5, LineMoves

LEMMA LineAlways == Spec => [](LineInv /\ WhoWaits)
BY LineInit, LineKept, PTL DEF Spec

(* No call falls back in the line, and every tick brings it nearer: what   *)
(* keeps a caller from waiting for ever, however many others keep calling  *)
(* (sendLimiter.wait).                                                     *)
THEOREM NobodyFallsBack == Spec => TurnsComeNearer
<1>1. LineInv /\ WhoWaits /\ [Next]_vars =>
        [\A c \in Callers : Waiting(c) =>
           /\ call'[c] <= call[c]
           /\ Tick => call'[c] < call[c]]_vars
  BY TurnsMove
<1> QED
  BY <1>1, LineAlways, PTL DEF Spec, TurnsComeNearer

(* The line is first come first served, although whoever gives up leaves a *)
(* gap in it or hands back its end (sendLimiter.wait).                     *)
THEOREM LineKeepsOrder == Spec => NobodyCutsIn
<1>1. LineInv /\ WhoWaits /\ [Next]_vars =>
        [\A c, d \in Callers : Waiting(c) /\ ~Waiting(d) /\ Waiting(d)' =>
           call'[d] > call[c] \/ (call[c] = 0 /\ call'[d] = 0)]_vars
  BY TurnsMove
<1> QED
  BY <1>1, LineAlways, PTL DEF Spec, NobodyCutsIn

-----------------------------------------------------------------------------
(* The throttle.                                                           *)

(* Each report has cost the download Step percent.                         *)
ReportsPaid ==
  /\ last \in [Workers -> 0..Top]
  /\ reports \in [Workers -> Nat]
  /\ \A w \in Workers : reports[w] * Step <= last[w]

LEMMA OneStepMore ==
  ASSUME NEW r \in Nat, NEW s \in Nat, NEW l \in Nat, NEW p \in Nat,
         r * s <= l, p - l >= s
  PROVE  (r + 1) * s <= p
<1>1. (r + 1) * s = r * s + s /\ r * s \in Nat
  OBVIOUS
<1> QED
  BY <1>1

LEMMA FreshIsPaid ==
  ASSUME ReportsPaid, NEW w \in Workers, FreshReporter(w)
  PROVE  ReportsPaid'
  BY OutboundAssumption DEF ReportsPaid, FreshReporter, OutboundAssumption

LEMMA PaidKept == ReportsPaid /\ [Next]_vars => ReportsPaid'
<1> SUFFICES ASSUME ReportsPaid, [Next]_vars PROVE ReportsPaid'
  OBVIOUS
<1>1. CASE UNCHANGED <<last, reports>>
  BY <1>1 DEF ReportsPaid
<1>2. ASSUME NEW w \in Workers, Job(w) PROVE ReportsPaid'
  <2>1. CASE Begin(w) \/ Call(w) \/ Fail(w) \/ Expire(w) \/ Finish(w) \/ Apologise(w)
    BY <1>1, <2>1 DEF Begin, Call, Fail, Expire, Finish, Apologise
  <2>2. CASE EndDownload(w)
    BY <2>2, FreshIsPaid DEF EndDownload
  <2>3. ASSUME NEW i \in 1..Callbacks, NEW p \in 0..Top, Report(w, i, p)
        PROVE  ReportsPaid'
    <3>1. /\ p - last[w] >= Step /\ last' = [last EXCEPT ![w] = p]
          /\ reports' = [reports EXCEPT ![w] = @ + 1]
      BY <2>3 DEF Report
    <3>2. /\ reports[w] \in Nat /\ last[w] \in Nat /\ p \in Nat /\ Step \in Nat
          /\ reports[w] * Step <= last[w]
      BY OutboundAssumption DEF ReportsPaid, OutboundAssumption
    <3>3. (reports[w] + 1) * Step <= p
      BY <3>1, <3>2, OneStepMore
    <3> QED
      BY <3>1, <3>2, <3>3 DEF ReportsPaid
  <2> QED
    BY <1>2, <2>1, <2>2, <2>3 DEF Job
<1>3. ASSUME NEW c \in Callers, Grant(c) \/ StopWaiting(c) PROVE ReportsPaid'
  <2>1. c[1] \in Workers
    BY DEF Callers
  <2> QED
    BY <1>1, <1>3, <2>1, FreshIsPaid DEF Grant, Granted, StopWaiting
<1>4. CASE Shutdown \/ Tick \/ UNCHANGED vars
  BY <1>1, <1>4 DEF Shutdown, Tick, vars
<1> QED
  BY <1>2, <1>3, <1>4 DEF Next

LEMMA Divides ==
  ASSUME NEW r \in Nat, NEW s \in Nat \ {0}, NEW t \in Nat, r * s <= t
  PROVE  r <= t \div s
<1> DEFINE q == t \div s
<1>1. q \in Nat /\ t < (q + 1) * s
  BY SMTT(30)
<1> HIDE DEF q
<1>2. ASSUME r >= q + 1 PROVE FALSE
  <2>1. r * s >= (q + 1) * s
    BY <1>1, <1>2
  <2> QED
    BY <1>1, <2>1
<1> QED
  BY <1>1, <1>2 DEF q

(* A download costs at most one edit for each Step percent it can make,    *)
(* whatever percentages yt-dlp reports and in whatever order they come     *)
(* (progressReporter).                                                     *)
THEOREM ReportsAreFew == Spec => []FewReports
<1>1. Init => ReportsPaid
  BY OutboundAssumption DEF Init, ReportsPaid, OutboundAssumption
<1>2. ReportsPaid => FewReports
  <2> SUFFICES ASSUME ReportsPaid, NEW w \in Workers
               PROVE  reports[w] <= Top \div Step
    BY DEF FewReports
  <2>1. reports[w] \in Nat /\ last[w] \in 0..Top /\ reports[w] * Step <= last[w]
    BY DEF ReportsPaid
  <2>2. Step \in Nat \ {0} /\ Top \in Nat
    BY OutboundAssumption DEF OutboundAssumption
  <2>3. reports[w] * Step <= Top
    BY <2>1, <2>2
  <2> QED
    BY <2>1, <2>2, <2>3, Divides
<1> QED
  BY <1>1, <1>2, PaidKept, PTL DEF Spec

-----------------------------------------------------------------------------
(* The debt.  Every turn ahead was reserved by some worker, and a worker   *)
(* has seats for three: what an earlier job's clearStatus gave up, what    *)
(* the job itself reserved, and the apology.  A grant empties them all,    *)
(* for no turn before the granted one is still ahead.                      *)

Labels == {"before", "job", "sorry"}
Seats == Workers \X Labels

(* The line is as long as the progress gap and the apology's timeout allow *)
(* for.  In the code they are 100 and 250 ticks (4 s and 10 s at 25 calls  *)
(* a second), and the 32 workers of the largest pool fill 96.              *)
LineIsShort == MinGap >= MaxDebt /\ NotifyTicks >= MaxDebt

Owed == IF credit < 0 THEN -credit ELSE 0

(* f says how far ahead the turn in each seat is, 0 for an empty one.      *)
Bounded(f) == \A s \in Seats : f[s] <= Owed
Covers(f) == \A k \in 1..Owed : \E s \in Seats : f[s] = k

(* What a worker waits for is the last of its turns.                       *)
WaitsLast(f, w) ==
  \A i \in 0..Callbacks, l \in Labels :
    Waiting(<<w, i>>) => f[<<w, l>>] <= call[<<w, i>>]

OneReport(w) ==
  \A i, k \in 1..Callbacks : Waiting(<<w, i>>) /\ Waiting(<<w, k>>) => i = k

(* Which seats may be taken, by what the worker is doing.                  *)
Seating(f, w) ==
  /\ phase[w] # "sorry" => f[<<w, "sorry">>] = 0
  /\ phase[w] = "idle" => stopping \/ f[<<w, "job">>] = 0
  /\ phase[w] = "begin" /\ Live(w) /\ ~Waiting(Own(w)) => f[<<w, "job">>] = 0
  /\ phase[w] = "work" => f[<<w, "job">>] = 0
  /\ phase[w] = "work" /\ ~Waiting(Own(w)) => f[<<w, "before">>] = 0
  /\ phase[w] = "download" => f[<<w, "before">>] = 0

(* A report is out, or its turn gone by, when the next may come.           *)
ReportsApart(f, w) ==
  phase[w] = "download" =>
    /\ f[<<w, "job">>] > 0 => f[<<w, "job">>] + since[w] < MaxDebt
    /\ \A i \in 1..Callbacks : Waiting(<<w, i>>) => call[<<w, i>>] + since[w] < MaxDebt
    /\ Live(w) /\ f[<<w, "job">>] > 0 => \E i \in 1..Callbacks : Waiting(<<w, i>>)

Rules(f, w) ==
  /\ phase[w] # "unheard"
  /\ WaitsLast(f, w)
  /\ OneReport(w)
  /\ Seating(f, w)
  /\ ReportsApart(f, w)

Seated(f) ==
  /\ f \in [Seats -> Nat]
  /\ Bounded(f)
  /\ Covers(f)
  /\ \A w \in Workers : Rules(f, w)

DebtInv == \E f : Seated(f)

(* The rest of the types, and who has its context cancelled.               *)
OtherTypes ==
  /\ phase \in [Workers -> Phases]
  /\ ctx \in [Workers -> {"live", "expired", "canceled"}]
  /\ since \in [Workers -> 0..MinGap]
  /\ last \in [Workers -> 0..Top] /\ reports \in [Workers -> Nat]
  /\ stopping \in BOOLEAN
  /\ \A w \in Workers : ctx[w] = "canceled" => stopping \/ phase[w] = "idle"

-----------------------------------------------------------------------------

LEMMA DebtType == MaxDebt \in Nat /\ IsFiniteSet(Seats) /\ Cardinality(Seats) = MaxDebt
<1>1. IsFiniteSet(Workers) /\ Cardinality(Workers) \in Nat
  BY OutboundAssumption, FS_CardinalityType DEF OutboundAssumption
<1>2. IsFiniteSet({"before", "job"}) /\ Cardinality({"before", "job"}) = 2
  <2>1. IsFiniteSet({"before"}) /\ Cardinality({"before"}) = 1
    BY FS_Singleton
  <2>2. {"before", "job"} = {"before"} \cup {"job"}
    OBVIOUS
  <2> QED
    BY <2>1, <2>2, FS_AddElement
<1>3. IsFiniteSet(Labels) /\ Cardinality(Labels) = 3
  <2>1. Labels = {"before", "job"} \cup {"sorry"}
    BY DEF Labels
  <2> QED
    BY <1>2, <2>1, FS_AddElement
<1>4. IsFiniteSet(Seats) /\ Cardinality(Seats) = Cardinality(Workers) * Cardinality(Labels)
  BY <1>1, <1>3, FS_Product DEF Seats
<1> QED
  BY <1>1, <1>3, <1>4 DEF MaxDebt

(* Who fills 1..n from some seats has at least n.                          *)
LEMMA SeatsSuffice ==
  ASSUME NEW f \in [Seats -> Nat], NEW n \in Nat, NEW S \in SUBSET Seats,
         \A k \in 1..n : \E s \in S : f[s] = k
  PROVE  n <= Cardinality(S)
<1> DEFINE T == {s \in S : f[s] \in 1..n}
           g == [s \in T |-> f[s]]
<1>1. IsFiniteSet(S) /\ IsFiniteSet(T) /\ Cardinality(T) <= Cardinality(S)
  BY DebtType, FS_Subset, T \in SUBSET S
<1>2. g \in Surjection(T, 1..n)
  BY DEF Surjection
<1>3. Cardinality(1..n) <= Cardinality(T)
  BY <1>1, <1>2, FS_Surjection
<1>4. Cardinality(1..n) = n
  BY FS_Interval
<1> QED
  BY <1>1, <1>3, <1>4, FS_CardinalityType

(* An empty seat is a turn less to wait for.                               *)
LEMMA DebtFits ==
  ASSUME NEW f \in [Seats -> Nat], Covers(f), Numbers
  PROVE  /\ Owed \in Nat
         /\ Owed <= MaxDebt
         /\ \A s \in Seats : f[s] = 0 => Owed < MaxDebt
<1>1. Owed \in Nat
  BY DEF Owed, Numbers
<1>2. Owed <= MaxDebt
  BY <1>1, SeatsSuffice, DebtType DEF Covers
<1>3. ASSUME NEW s \in Seats, f[s] = 0 PROVE Owed < MaxDebt
  <2>1. \A k \in 1..Owed : \E r \in Seats \ {s} : f[r] = k
    BY <1>3 DEF Covers
  <2>2. Owed <= Cardinality(Seats \ {s})
    BY <1>1, <2>1, SeatsSuffice
  <2>3. Cardinality(Seats \ {s}) = MaxDebt - 1
    BY DebtType, FS_RemoveElement
  <2> QED
    BY <1>1, <2>2, <2>3, DebtType
<1> QED
  BY <1>1, <1>2, <1>3

(* A worker that is left alone keeps to the rules, with fewer turns too.   *)
LEMMA OthersKeepRules ==
  ASSUME NEW f \in [Seats -> Nat], NEW g \in [Seats -> Nat], NEW w \in Workers,
         \A l \in Labels : g[<<w, l>>] <= f[<<w, l>>],
         \A i \in 0..Callbacks : call'[<<w, i>>] = call[<<w, i>>],
         phase'[w] = phase[w], ctx'[w] = ctx[w], since'[w] = since[w],
         stopping => stopping',
         OtherTypes, Numbers, Rules(f, w)
  PROVE  Rules(g, w)'
<1>1. /\ \A l \in Labels : f[<<w, l>>] \in Nat /\ g[<<w, l>>] \in Nat
      /\ \A i \in 0..Callbacks : call[<<w, i>>] \in Int
      /\ since[w] \in Nat
  BY OutboundAssumption DEF Seats, Callers, Numbers, OtherTypes, OutboundAssumption
<1>2. 0 \in 0..Callbacks /\ \A i \in 1..Callbacks : i \in 0..Callbacks
  BY OutboundAssumption DEF OutboundAssumption
<1>3. WaitsLast(g, w)'
  BY <1>1 DEF Rules, WaitsLast, Waiting
<1>4. OneReport(w)'
  BY <1>2 DEF Rules, OneReport, Waiting
<1>5. Seating(g, w)'
  BY <1>1, <1>2 DEF Rules, Seating, Waiting, Live, Own, Labels
<1>6. ReportsApart(g, w)'
  BY <1>1, <1>2, DebtType DEF Rules, ReportsApart, Waiting, Live, Labels
<1> QED
  BY <1>3, <1>4, <1>5, <1>6 DEF Rules

(* Turns that are gone leave their seats.                                  *)
LEMMA SeatsEmptied ==
  ASSUME NEW f \in [Seats -> Nat], Bounded(f), Covers(f), Owed \in Nat,
         Owed' \in Nat, Owed' <= Owed
  PROVE  \E g \in [Seats -> Nat] :
           Bounded(g)' /\ Covers(g)' /\ \A s \in Seats : g[s] <= f[s]
<1>1. PICK n \in Nat : n = Owed'
  OBVIOUS
<1>2. PICK g : g = [s \in Seats |-> IF f[s] > n THEN 0 ELSE f[s]]
  OBVIOUS
<1>3. g \in [Seats -> Nat] /\ \A s \in Seats : g[s] <= f[s] /\ g[s] <= n
  BY <1>2
<1>4. \A k \in 1..n : \E s \in Seats : g[s] = k
  BY <1>1, <1>2 DEF Covers
<1> QED
  BY <1>1, <1>3, <1>4 DEF Bounded, Covers

(* A reservation takes an empty seat, behind everything reserved before.   *)
LEMMA SeatTaken ==
  ASSUME NEW f \in [Seats -> Nat], Bounded(f), Covers(f), Numbers,
         NEW s \in Seats, f[s] = 0, credit' = credit - 1
  PROVE  /\ Wait \in Nat
         /\ \A r \in Seats : f[r] <= Wait
         /\ \E g \in [Seats -> Nat] :
              /\ Bounded(g)' /\ Covers(g)'
              /\ g[s] = Wait /\ \A r \in Seats \ {s} : g[r] = f[r]
<1>1. /\ Wait \in Nat /\ Owed \in Nat /\ Owed' \in Nat
      /\ credit > 0 => Wait = 0 /\ Owed = 0 /\ Owed' = 0
      /\ credit <= 0 => Wait = Owed + 1 /\ Owed' = Wait
  BY DEF Numbers, Wait, Owed
<1>2. \A r \in Seats : f[r] <= Wait
  BY <1>1 DEF Bounded, Numbers
<1>3. PICK n \in Nat : n = Wait
  BY <1>1
<1>4. PICK g : g = [f EXCEPT ![s] = n]
  OBVIOUS
<1>5. g \in [Seats -> Nat] /\ g[s] = n /\ \A r \in Seats \ {s} : g[r] = f[r]
  BY <1>4
<1>6. Owed' = n
  BY <1>1, <1>3 DEF Numbers
<1>7. \A r \in Seats : g[r] <= n
  BY <1>2, <1>3, <1>5
<1>8. \A k \in 1..n : \E r \in Seats : g[r] = k
  <2> SUFFICES ASSUME NEW k \in 1..n, k # n PROVE \E r \in Seats : g[r] = k
    BY <1>5
  <2>1. k \in 1..Owed
    BY <1>1, <1>3 DEF Numbers
  <2>2. PICK r \in Seats : f[r] = k
    BY <2>1 DEF Covers
  <2> QED
    BY <1>5, <2>2
<1>9. Bounded(g)' /\ Covers(g)'
  BY <1>6, <1>7, <1>8 DEF Bounded, Covers
<1> QED
  BY <1>1, <1>2, <1>3, <1>5, <1>9

(* The step of a worker that reserves, with nothing of its own in line.    *)
LEMMA WorkerTakesSeat ==
  ASSUME NEW f, Seated(f), LineInv, OtherTypes,
         NEW w \in Workers, NEW i \in 0..Callbacks, NEW l \in Labels,
         f[<<w, l>>] = 0, Quiet(w), Reserve(<<w, i>>),
         \A v \in Workers \ {w} :
           phase'[v] = phase[v] /\ ctx'[v] = ctx[v] /\ since'[v] = since[v],
         stopping' = stopping
  PROVE  /\ Wait \in Nat /\ Wait <= MaxDebt
         /\ \E g \in [Seats -> Nat] :
              /\ Bounded(g)' /\ Covers(g)'
              /\ \A v \in Workers \ {w} : Rules(g, v)'
              /\ WaitsLast(g, w)' /\ OneReport(w)'
              /\ g[<<w, l>>] = Wait
              /\ \A m \in Labels \ {l} : g[<<w, m>>] = f[<<w, m>>]
              /\ \A m \in Labels : g[<<w, m>>] = 0 => Wait < MaxDebt
<1>1. /\ f \in [Seats -> Nat] /\ Bounded(f) /\ Covers(f) /\ Numbers
      /\ credit' = credit - 1 /\ call' = [call EXCEPT ![<<w, i>>] = Wait]
      /\ <<w, l>> \in Seats /\ <<w, i>> \in Callers
  BY DEF Seated, LineInv, Reserve, Seats, Callers
<1>2. /\ Wait \in Nat /\ \A r \in Seats : f[r] <= Wait
      /\ \E g \in [Seats -> Nat] :
           /\ Bounded(g)' /\ Covers(g)'
           /\ g[<<w, l>>] = Wait /\ \A r \in Seats \ {<<w, l>>} : g[r] = f[r]
  BY <1>1, SeatTaken
<1>3. PICK g \in [Seats -> Nat] :
         /\ Bounded(g)' /\ Covers(g)'
         /\ g[<<w, l>>] = Wait /\ \A r \in Seats \ {<<w, l>>} : g[r] = f[r]
  BY <1>2
<1>4. /\ call'[<<w, i>>] = Wait
      /\ \A v \in Workers, k \in 0..Callbacks :
           <<v, k>> # <<w, i>> => call'[<<v, k>>] = call[<<v, k>>]
  BY <1>1 DEF Numbers, Callers
<1>5. \A v \in Workers \ {w} : Rules(g, v)'
  <2> SUFFICES ASSUME NEW v \in Workers \ {w} PROVE Rules(g, v)'
    OBVIOUS
  <2>1. \A m \in Labels : g[<<v, m>>] <= f[<<v, m>>]
    BY <1>1, <1>3 DEF Seats
  <2>2. \A k \in 0..Callbacks : call'[<<v, k>>] = call[<<v, k>>]
    BY <1>4
  <2> QED
    BY <1>1, <2>1, <2>2, OthersKeepRules DEF Seated
<1>6. \A k \in 0..Callbacks : Waiting(<<w, k>>)' => k = i
  BY <1>4 DEF Quiet, Waiting
<1>7. WaitsLast(g, w)'
  <2>1. \A m \in Labels : g[<<w, m>>] <= Wait
    BY <1>1, <1>2, <1>3 DEF Seats
  <2> QED
    BY <1>4, <1>6, <2>1 DEF WaitsLast
<1>8. OneReport(w)'
  BY <1>6, OutboundAssumption DEF OneReport, OutboundAssumption
<1>9. Owed <= MaxDebt /\ Owed < MaxDebt /\ Owed \in Nat
  BY <1>1, DebtFits
<1>10. Wait <= MaxDebt
  BY <1>9, <1>1, DebtType DEF Wait, Owed, Numbers
<1>11. ASSUME NEW m \in Labels, g[<<w, m>>] = 0 PROVE Wait < MaxDebt
  <2>1. CASE Wait = 0
    BY <1>9, <2>1, DebtType
  <2>2. CASE Wait > 0
    <3>1. PICK n \in Nat : n = Owed'
      BY <1>1, <1>2 DEF Owed, Numbers
    <3>2. n = Wait
      BY <1>1, <2>2, <3>1 DEF Owed, Wait, Numbers
    <3>3. \A k \in 1..n : \E s \in Seats \ {<<w, m>>} : g[s] = k
      BY <1>3, <1>11, <3>1 DEF Covers
    <3>4. n <= Cardinality(Seats \ {<<w, m>>})
      BY <3>3, SeatsSuffice
    <3>5. Cardinality(Seats \ {<<w, m>>}) = MaxDebt - 1
      BY DebtType, FS_RemoveElement DEF Seats
    <3> QED
      BY <3>2, <3>4, <3>5, DebtType
  <2> QED
    BY <1>2, <2>1, <2>2
<1>12. \A m \in Labels \ {l} : g[<<w, m>>] = f[<<w, m>>]
  BY <1>3 DEF Seats
<1> QED
  BY <1>2, <1>3, <1>5, <1>7, <1>8, <1>10, <1>11, <1>12

(* The step of a worker that leaves the line alone.                        *)
LEMMA WorkerMoves ==
  ASSUME NEW f, Seated(f), LineInv, OtherTypes, NEW w \in Workers,
         UNCHANGED <<credit, call, stopping>>,
         \A v \in Workers \ {w} :
           phase'[v] = phase[v] /\ ctx'[v] = ctx[v] /\ since'[v] = since[v],
         phase'[w] # "unheard",
         Seating(f, w)', ReportsApart(f, w)'
  PROVE  Seated(f)'
<1>1. f \in [Seats -> Nat] /\ Numbers /\ Owed' = Owed
  BY DEF Seated, LineInv, Owed
<1>2. Bounded(f)' /\ Covers(f)'
  BY <1>1 DEF Seated, Bounded, Covers
<1>3. ASSUME NEW v \in Workers \ {w} PROVE Rules(f, v)'
  <2>1. \A l \in Labels : f[<<v, l>>] \in Nat
    BY <1>1 DEF Seats
  <2>2. Rules(f, v)
    BY DEF Seated
  <2> QED
    BY <1>1, <2>1, <2>2, OthersKeepRules
<1>4. Rules(f, w)'
  BY DEF Seated, Rules, WaitsLast, OneReport, Waiting
<1> QED
  BY <1>1, <1>2, <1>3, <1>4 DEF Seated

-----------------------------------------------------------------------------

LEMMA OtherTypesInit == Init => OtherTypes
<1>1. MinGap \in 0..MinGap /\ 0 \in 0..Top
  BY OutboundAssumption DEF OutboundAssumption
<1> SUFFICES ASSUME Init PROVE OtherTypes
  OBVIOUS
<1>2. /\ phase \in [Workers -> Phases]
      /\ ctx \in [Workers -> {"live", "expired", "canceled"}]
      /\ \A w \in Workers : phase[w] = "idle"
  BY DEF Init, Phases
<1>3. since \in [Workers -> 0..MinGap] /\ last \in [Workers -> 0..Top]
  BY <1>1 DEF Init
<1>4. reports \in [Workers -> Nat] /\ stopping \in BOOLEAN
  BY DEF Init
<1> QED
  BY <1>2, <1>3, <1>4 DEF OtherTypes

(* Where a worker goes when its turn has come.                             *)
LEMMA GrantMoves ==
  ASSUME NEW c \in Callers, Grant(c)
  PROVE  /\ phase[c[1]] = "sorry" => phase' = [phase EXCEPT ![c[1]] = "idle"]
         /\ phase[c[1]] = "download" => phase' = phase
         /\ phase[c[1]] \notin {"sorry", "download"} =>
              \E p \in {"work", "download"} : phase' = [phase EXCEPT ![c[1]] = p]
<1>1. CASE phase[c[1]] = "sorry"
  BY <1>1 DEF Grant, Granted
<1>2. CASE phase[c[1]] = "download"
  BY <1>2 DEF Grant, Granted
<1>3. CASE phase[c[1]] \notin {"sorry", "download"}
  BY <1>3 DEF Grant, Granted
<1> QED
  BY <1>1, <1>2, <1>3

LEMMA FreshTypes ==
  ASSUME OtherTypes, NEW w \in Workers, FreshReporter(w)
  PROVE  /\ since' \in [Workers -> 0..MinGap]
         /\ last' \in [Workers -> 0..Top] /\ reports' \in [Workers -> Nat]
         /\ since'[w] = MinGap
         /\ \A v \in Workers \ {w} : since'[v] = since[v]
  BY OutboundAssumption DEF FreshReporter, OtherTypes, OutboundAssumption

LEMMA OtherTypesKept == OtherTypes /\ WhoWaits /\ [Next]_vars => OtherTypes'
<1> SUFFICES ASSUME OtherTypes, WhoWaits, [Next]_vars PROVE OtherTypes'
  OBVIOUS
<1> USE DEF Goto
<1>1. ASSUME NEW w \in Workers, Job(w) PROVE OtherTypes'
  <2>1. CASE Begin(w)
    BY <2>1 DEF Begin, OtherTypes, Phases
  <2>2. CASE Call(w)
    BY <2>2 DEF Call, OtherTypes
  <2>3. CASE Fail(w)
    BY <2>3 DEF Fail, AtWork, OtherTypes, Phases
  <2>4. CASE Expire(w)
    BY <2>4 DEF Expire, OtherTypes
  <2>5. ASSUME NEW i \in 1..Callbacks, NEW p \in 0..Top, Report(w, i, p)
        PROVE  OtherTypes'
    BY <2>5, OutboundAssumption DEF Report, OtherTypes, OutboundAssumption
  <2>6. CASE EndDownload(w)
    BY <2>6, FreshTypes DEF EndDownload, OtherTypes, Phases
  <2>7. CASE Finish(w)
    BY <2>7 DEF Finish, OtherTypes, Phases
  <2>8. CASE Apologise(w)
    BY <2>8 DEF Apologise, OtherTypes, Phases
  <2> QED
    BY <1>1, <2>1, <2>2, <2>3, <2>4, <2>5, <2>6, <2>7, <2>8 DEF Job
<1>2. ASSUME NEW c \in Callers, Grant(c) PROVE OtherTypes'
  <2>1. c[1] \in Workers
    BY DEF Callers
  <2>2. phase[c[1]] # "idle"
    <3>1. c = Own(c[1]) \/ \E i \in 1..Callbacks : c = <<c[1], i>>
      BY OutboundAssumption DEF Callers, Own, OutboundAssumption
    <3> QED
      BY <1>2, <2>1, <3>1 DEF Grant, WhoWaits, Waiting, Off
  <2>3. CASE phase[c[1]] = "download"
    BY <1>2, <2>3, GrantMoves DEF Grant, Granted, OtherTypes
  <2>4. CASE phase[c[1]] # "download"
    <3>1. FreshReporter(c[1])
      BY <1>2, <2>4 DEF Grant, Granted
    <3>2. \E p \in {"idle", "work", "download"} : phase' = [phase EXCEPT ![c[1]] = p]
      BY <1>2, <2>4, GrantMoves
    <3> QED
      BY <1>2, <2>1, <2>2, <3>1, <3>2, FreshTypes DEF Grant, OtherTypes, Phases
  <2> QED
    BY <2>3, <2>4
<1>3. ASSUME NEW c \in Callers, StopWaiting(c) PROVE OtherTypes'
  <2>1. c[1] \in Workers
    BY DEF Callers
  <2> QED
    BY <1>3, <2>1 DEF StopWaiting, OtherTypes, Phases
<1>4. CASE Shutdown
  BY <1>4 DEF Shutdown, OtherTypes
<1>5. CASE Tick
  BY <1>5, OutboundAssumption DEF Tick, OtherTypes, OutboundAssumption
<1>6. CASE UNCHANGED vars
  BY <1>6 DEF vars, OtherTypes
<1> QED
  BY <1>1, <1>2, <1>3, <1>4, <1>5, <1>6 DEF Next

LEMMA SeatFacts ==
  ASSUME NEW f, Seated(f), LineInv, OtherTypes, NEW w \in Workers
  PROVE  /\ f \in [Seats -> Nat] /\ Rules(f, w) /\ Numbers
         /\ \A l \in Labels : f[<<w, l>>] \in Nat
         /\ \A i \in 0..Callbacks : call[<<w, i>>] \in Int /\ call[<<w, i>>] >= Off
         /\ since[w] \in Nat /\ MaxDebt \in Nat /\ MinGap \in Nat
         /\ 0 \in 0..Callbacks /\ \A i \in 1..Callbacks : i \in 0..Callbacks /\ i # 0
<1>1. f \in [Seats -> Nat] /\ Rules(f, w) /\ Numbers
  BY DEF Seated, LineInv
<1>2. \A l \in Labels : f[<<w, l>>] \in Nat
  BY <1>1 DEF Seats
<1>3. \A i \in 0..Callbacks : call[<<w, i>>] \in Int /\ call[<<w, i>>] >= Off
  BY <1>1 DEF Numbers, Callers
<1>4. since[w] \in Nat /\ MinGap \in Nat
  BY OutboundAssumption DEF OtherTypes, OutboundAssumption
<1>5. 0 \in 0..Callbacks /\ \A i \in 1..Callbacks : i \in 0..Callbacks /\ i # 0
  BY OutboundAssumption DEF OutboundAssumption
<1> QED
  BY <1>1, <1>2, <1>3, <1>4, <1>5, DebtType

(* Steps that reserve nothing and give nothing up.                         *)
LEMMA MovesKeepDebt ==
  ASSUME NEW f, Seated(f), LineInv, WhoWaits, OtherTypes, NEW w \in Workers,
         Begin(w) \/ Fail(w) \/ Expire(w) \/ EndDownload(w) \/ Finish(w)
  PROVE  Seated(f)'
<1> USE DEF Goto
<1>1. /\ f \in [Seats -> Nat] /\ Rules(f, w)
      /\ 0 \in 0..Callbacks /\ \A i \in 1..Callbacks : i \in 0..Callbacks
      /\ \A l \in Labels : f[<<w, l>>] \in Nat
  BY SeatFacts
<1>2. /\ phase \in [Workers -> Phases] /\ ctx \in [Workers -> {"live", "expired", "canceled"}]
      /\ since \in [Workers -> 0..MinGap]
      /\ ctx[w] = "canceled" => stopping \/ phase[w] = "idle"
  BY DEF OtherTypes
<1>3. Seating(f, w)
  BY <1>1 DEF Rules
<1>4. CASE Begin(w)
  <2>1. Seating(f, w)'
    BY <1>2, <1>3, <1>4 DEF Begin, Seating, Live
  <2>2. ReportsApart(f, w)' /\ phase'[w] # "unheard"
    BY <1>2, <1>4 DEF Begin, ReportsApart
  <2> QED
    BY <1>2, <1>4, <2>1, <2>2, WorkerMoves DEF Begin
<1>5. CASE Fail(w)
  <2>1. Seating(f, w)'
    BY <1>2, <1>3, <1>5 DEF Fail, AtWork, Seating
  <2>2. ReportsApart(f, w)' /\ phase'[w] # "unheard"
    BY <1>2, <1>5 DEF Fail, ReportsApart
  <2> QED
    BY <1>2, <1>5, <2>1, <2>2, WorkerMoves DEF Fail
<1>6. CASE Expire(w)
  <2>1. Seating(f, w)'
    BY <1>2, <1>3, <1>6 DEF Expire, Seating, Live, Waiting, Own
  <2>2. ReportsApart(f, w)' /\ phase'[w] # "unheard"
    BY <1>1, <1>2, <1>6 DEF Rules, Expire, ReportsApart, Live, Waiting
  <2> QED
    BY <1>2, <1>6, <2>1, <2>2, WorkerMoves DEF Expire
<1>7. CASE EndDownload(w)
  <2>1. f[<<w, "before">>] = 0 /\ f[<<w, "sorry">>] = 0
    BY <1>3, <1>7 DEF EndDownload, Seating
  <2>2. Live(w) => f[<<w, "job">>] = 0
    <3>1. \A i \in 1..Callbacks : ~Waiting(<<w, i>>)
      BY <1>1, <1>7 DEF EndDownload, Quiet
    <3>2. f[<<w, "job">>] \in Nat
      BY <1>1 DEF Labels
    <3>3. ReportsApart(f, w) /\ phase[w] = "download"
      BY <1>1, <1>7 DEF EndDownload, Rules
    <3>4. ~(Live(w) /\ f[<<w, "job">>] > 0)
      BY <3>1, <3>3 DEF ReportsApart
    <3> QED
      BY <3>2, <3>4
  <2>3. phase'[w] \in {"work", "failing"} /\ (phase'[w] = "work" => Live(w))
    BY <1>2, <1>7 DEF EndDownload
  <2>4. Seating(f, w)'
    BY <2>1, <2>2, <2>3 DEF Seating
  <2>5. ReportsApart(f, w)' /\ phase'[w] # "unheard"
    BY <2>3 DEF ReportsApart
  <2>6. \A v \in Workers \ {w} : phase'[v] = phase[v] /\ since'[v] = since[v]
    BY <1>2, <1>7 DEF EndDownload, FreshReporter
  <2> QED
    BY <1>7, <2>4, <2>5, <2>6, WorkerMoves DEF EndDownload
<1>8. CASE Finish(w)
  <2>1. Seating(f, w)'
    BY <1>2, <1>3, <1>8 DEF Finish, Seating
  <2>2. ReportsApart(f, w)' /\ phase'[w] # "unheard"
    BY <1>2, <1>8 DEF Finish, ReportsApart
  <2> QED
    BY <1>2, <1>8, <2>1, <2>2, WorkerMoves DEF Finish
<1> QED
  BY <1>4, <1>5, <1>6, <1>7, <1>8

(* A call of the job's: at the start of the job it joins what the last one *)
(* left, later a grant has been there before.                              *)
LEMMA CallKeepsDebt ==
  ASSUME NEW f, Seated(f), LineInv, WhoWaits, OtherTypes, NEW w \in Workers, Call(w)
  PROVE  DebtInv'
<1>1. /\ phase[w] \in {"begin", "work"} /\ Quiet(w) /\ Live(w) /\ Reserve(<<w, 0>>)
      /\ UNCHANGED <<phase, ctx, since, last, reports, stopping, level>>
  BY DEF Call, AtWork, Own
<1>2. /\ f \in [Seats -> Nat] /\ Rules(f, w) /\ Numbers
      /\ 0 \in 0..Callbacks
  BY SeatFacts
<1>3. ~Waiting(Own(w)) /\ Seating(f, w)
  BY <1>1, <1>2 DEF Quiet, Own, Rules
<1>4. PICK l \in {"before", "job"} :
        /\ f[<<w, l>>] = 0
        /\ phase[w] = "begin" => l = "job"
        /\ phase[w] = "work" => l = "before"
  BY <1>1, <1>3 DEF Seating
<1>5. l \in Labels
  BY DEF Labels
<1>6. Wait \in Nat
  BY <1>2 DEF Wait, Numbers
<1>7. PICK g \in [Seats -> Nat] :
         /\ Bounded(g)' /\ Covers(g)'
         /\ \A v \in Workers \ {w} : Rules(g, v)'
         /\ WaitsLast(g, w)' /\ OneReport(w)'
         /\ g[<<w, l>>] = Wait
         /\ \A m \in Labels \ {l} : g[<<w, m>>] = f[<<w, m>>]
  BY <1>1, <1>2, <1>4, <1>5, WorkerTakesSeat
<1>8. Waiting(Own(w))'
  BY <1>1, <1>2, <1>6 DEF Reserve, Numbers, Callers, Own, Waiting, Off
<1>9. g[<<w, "sorry">>] = 0 /\ (phase[w] = "work" => g[<<w, "job">>] = 0)
  BY <1>1, <1>3, <1>4, <1>7 DEF Labels, Seating
<1>10. Seating(g, w)'
  BY <1>1, <1>8, <1>9 DEF Seating
<1>11. ReportsApart(g, w)' /\ phase'[w] # "unheard"
  BY <1>1 DEF ReportsApart
<1> QED
  BY <1>7, <1>10, <1>11 DEF DebtInv, Seated, Rules

(* The gap has outlasted whatever stood before the last report.            *)
LEMMA ReportKeepsDebt ==
  ASSUME LineIsShort, NEW f, Seated(f), LineInv, WhoWaits, OtherTypes,
         NEW w \in Workers, NEW i \in 1..Callbacks, NEW p \in 0..Top, Report(w, i, p)
  PROVE  DebtInv'
<1>1. /\ phase[w] = "download" /\ since[w] >= MinGap
      /\ since' = [since EXCEPT ![w] = 0]
      /\ Reserve(<<w, i>>) \/ UNCHANGED <<credit, call>>
      /\ UNCHANGED <<phase, ctx, stopping, level>>
  BY DEF Report
<1>2. /\ f \in [Seats -> Nat] /\ Rules(f, w) /\ Numbers
      /\ f[<<w, "job">>] \in Nat
      /\ \A k \in 0..Callbacks : call[<<w, k>>] \in Int /\ call[<<w, k>>] >= Off
      /\ since[w] \in Nat /\ MaxDebt \in Nat /\ MinGap \in Nat
      /\ i \in 0..Callbacks
      /\ \A k \in 1..Callbacks : k \in 0..Callbacks
  BY SeatFacts DEF Labels
<1>3. f[<<w, "job">>] = 0
  BY <1>1, <1>2 DEF Rules, ReportsApart, LineIsShort
<1>4. \A k \in 1..Callbacks : ~Waiting(<<w, k>>)
  BY <1>1, <1>2 DEF Rules, ReportsApart, LineIsShort, Waiting, Off
<1>5. Quiet(w)
  BY <1>1, <1>4 DEF WhoWaits, Own, Quiet
<1>6. Seating(f, w)
  BY <1>2 DEF Rules
<1>7. /\ since'[w] = 0
      /\ \A v \in Workers \ {w} : since'[v] = since[v]
  BY <1>1 DEF OtherTypes
<1>8. CASE Reserve(<<w, i>>)
  <2>1. "job" \in Labels
    BY DEF Labels
  <2>2. Wait \in Nat
    BY <1>2 DEF Wait, Numbers
  <2>3. PICK g \in [Seats -> Nat] :
           /\ Bounded(g)' /\ Covers(g)'
           /\ \A v \in Workers \ {w} : Rules(g, v)'
           /\ WaitsLast(g, w)' /\ OneReport(w)'
           /\ g[<<w, "job">>] = Wait
           /\ \A m \in Labels \ {"job"} : g[<<w, m>>] = f[<<w, m>>]
           /\ \A m \in Labels : g[<<w, m>>] = 0 => Wait < MaxDebt
    BY <1>1, <1>2, <1>3, <1>5, <1>7, <1>8, <2>1, WorkerTakesSeat
  <2>4. g[<<w, "before">>] = 0 /\ g[<<w, "sorry">>] = 0 /\ Wait < MaxDebt
    BY <1>1, <1>6, <2>3 DEF Labels, Seating
  <2>5. Seating(g, w)'
    BY <1>1, <2>4 DEF Seating
  <2>6. /\ call'[<<w, i>>] = Wait
        /\ \A k \in 1..Callbacks : Waiting(<<w, k>>)' => k = i
    BY <1>2, <1>4, <1>8 DEF Reserve, Numbers, Callers, Waiting
  <2>7. ReportsApart(g, w)'
    BY <1>2, <1>7, <2>2, <2>3, <2>4, <2>6 DEF ReportsApart, Waiting, Off
  <2>8. phase'[w] # "unheard"
    BY <1>1
  <2> QED
    BY <2>3, <2>5, <2>7, <2>8 DEF DebtInv, Seated, Rules
<1>9. CASE UNCHANGED <<credit, call>>
  <2>1. Seating(f, w)'
    BY <1>1, <1>6, <1>9 DEF Seating, Live, Own, Waiting
  <2>2. ReportsApart(f, w)'
    BY <1>3, <1>4, <1>9 DEF ReportsApart, Waiting
  <2> QED
    BY <1>1, <1>7, <1>9, <2>1, <2>2, WorkerMoves DEF DebtInv
<1> QED
  BY <1>1, <1>8, <1>9

(* An apology finds its seat empty, so it is not refused.                  *)
LEMMA ApologyKeepsDebt ==
  ASSUME LineIsShort, NEW f, Seated(f), LineInv, WhoWaits, OtherTypes,
         NEW w \in Workers, Apologise(w)
  PROVE  DebtInv'
<1> USE DEF Goto
<1>1. /\ phase[w] = "failing"
      /\ UNCHANGED <<ctx, since, last, reports, stopping, level>>
  BY DEF Apologise
<1>2. /\ f \in [Seats -> Nat] /\ Rules(f, w) /\ Numbers /\ MaxDebt \in Nat
      /\ 0 \in 0..Callbacks
  BY SeatFacts
<1>3. Quiet(w)
  BY <1>1, OutboundAssumption DEF WhoWaits, Own, Quiet, OutboundAssumption
<1>4. f[<<w, "sorry">>] = 0 /\ <<w, "sorry">> \in Seats /\ "sorry" \in Labels
  BY <1>1, <1>2 DEF Rules, Seating, Seats, Labels
<1>5. Wait <= NotifyTicks
  <2>1. Owed < MaxDebt /\ Owed \in Nat
    BY <1>2, <1>4, DebtFits DEF Seated
  <2> QED
    BY <1>2, <2>1, OutboundAssumption DEF Wait, Owed, Numbers, LineIsShort, OutboundAssumption
<1>6. Reserve(<<w, 0>>) /\ phase' = [phase EXCEPT ![w] = "sorry"]
  BY <1>5 DEF Apologise, Own
<1>7. /\ phase'[w] = "sorry"
      /\ \A v \in Workers \ {w} : phase'[v] = phase[v]
  BY <1>6 DEF WhoWaits
<1>8. PICK g \in [Seats -> Nat] :
         /\ Bounded(g)' /\ Covers(g)'
         /\ \A v \in Workers \ {w} : Rules(g, v)'
         /\ WaitsLast(g, w)' /\ OneReport(w)'
  BY <1>1, <1>2, <1>3, <1>4, <1>6, <1>7, WorkerTakesSeat
<1>9. Seating(g, w)' /\ ReportsApart(g, w)' /\ phase'[w] # "unheard"
  BY <1>7 DEF Seating, ReportsApart
<1> QED
  BY <1>8, <1>9 DEF DebtInv, Seated, Rules

(* A grant: every turn of the worker's is past, the one granted included.  *)
LEMMA GrantKeepsDebt ==
  ASSUME NEW f, Seated(f), LineInv, WhoWaits, OtherTypes, NEW c \in Callers, Grant(c)
  PROVE  Seated(f)'
<1> DEFINE w == c[1]
           i == c[2]
<1>1. w \in Workers /\ i \in 0..Callbacks /\ c = <<w, i>>
  BY DEF Callers
<1> HIDE DEF w, i
<1>2. /\ f \in [Seats -> Nat] /\ Rules(f, w) /\ Numbers
      /\ \A l \in Labels : f[<<w, l>>] \in Nat
      /\ 0 \in 0..Callbacks /\ \A k \in 1..Callbacks : k \in 0..Callbacks /\ k # 0
  BY <1>1, SeatFacts
<1>3. /\ call[<<w, i>>] = 0 /\ call' = [call EXCEPT ![<<w, i>>] = Off]
      /\ UNCHANGED <<credit, ctx, stopping>>
  BY <1>1 DEF Grant
<1>4. Waiting(<<w, i>>)
  BY <1>3 DEF Waiting, Off
<1>5. \A l \in Labels : f[<<w, l>>] = 0
  BY <1>1, <1>2, <1>3, <1>4 DEF Rules, WaitsLast
<1>6. /\ call'[<<w, i>>] = Off
      /\ \A v \in Workers, k \in 0..Callbacks :
           <<v, k>> # <<w, i>> => call'[<<v, k>>] = call[<<v, k>>]
  BY <1>2, <1>3, <1>1 DEF Numbers, Callers
<1>7. \A v \in Workers \ {w} : phase'[v] = phase[v] /\ since'[v] = since[v]
  <2>1. phase' = phase \/ \E p \in Phases : phase' = [phase EXCEPT ![w] = p]
    BY GrantMoves DEF Phases, w
  <2>2. UNCHANGED since \/ since' = [since EXCEPT ![w] = MinGap]
    BY DEF Grant, Granted, FreshReporter, w
  <2> QED
    BY <2>1, <2>2 DEF OtherTypes
<1>8. ASSUME NEW v \in Workers \ {w} PROVE Rules(f, v)'
  <2>1. \A l \in Labels : f[<<v, l>>] <= f[<<v, l>>]
    BY <1>2 DEF Seats
  <2>2. \A k \in 0..Callbacks : call'[<<v, k>>] = call[<<v, k>>]
    BY <1>6
  <2>3. Rules(f, v)
    BY DEF Seated
  <2> QED
    BY <1>2, <1>3, <1>7, <2>1, <2>2, <2>3, OthersKeepRules
<1>9. \A k \in 0..Callbacks : Waiting(<<w, k>>)' => Waiting(<<w, k>>) /\ k # i
  BY <1>1, <1>6 DEF Waiting
<1>10. WaitsLast(f, w)' /\ OneReport(w)'
  <2>1. \A k \in 0..Callbacks : Waiting(<<w, k>>)' => call'[<<w, k>>] >= 0
    BY <1>1, <1>2, <1>6 DEF Waiting, Numbers, Callers, Off
  <2>2. WaitsLast(f, w)'
    BY <1>5, <2>1 DEF WaitsLast
  <2>3. OneReport(w)'
    BY <1>2, <1>9 DEF Rules, OneReport
  <2> QED
    BY <2>2, <2>3
<1>11. f[<<w, "before">>] = 0 /\ f[<<w, "job">>] = 0 /\ f[<<w, "sorry">>] = 0
  BY <1>5 DEF Labels
<1>12. Seating(f, w)'
  BY <1>11 DEF Seating
<1>13. phase'[w] \in {"idle", "work", "download"}
  BY <1>1, GrantMoves DEF WhoWaits, w
<1>14. \A k \in 1..Callbacks : ~Waiting(<<w, k>>)'
  <2>1. ASSUME NEW k \in 1..Callbacks, Waiting(<<w, k>>)' PROVE FALSE
    <3>1. Waiting(<<w, k>>) /\ k # i
      BY <1>2, <1>9, <2>1
    <3>2. phase[w] = "download"
      BY <1>1, <3>1 DEF WhoWaits
    <3>3. i # 0
      BY <1>1, <1>4, <3>2 DEF WhoWaits, Own
    <3> QED
      BY <1>1, <1>2, <1>4, <3>1, <3>3 DEF Rules, OneReport
  <2> QED
    BY <2>1
<1>15. ReportsApart(f, w)'
  BY <1>11, <1>14 DEF ReportsApart
<1>16. Bounded(f)' /\ Covers(f)'
  BY <1>3 DEF Seated, Bounded, Covers, Owed
<1> QED
  BY <1>2, <1>8, <1>10, <1>12, <1>13, <1>15, <1>16 DEF Seated, Rules

(* A turn given up keeps its seat until it is past.                        *)
LEMMA GiveUpKeepsDebt ==
  ASSUME NEW f, Seated(f), LineInv, WhoWaits, OtherTypes,
         NEW c \in Callers, StopWaiting(c)
  PROVE  DebtInv'
<1> USE DEF Goto
<1> DEFINE w == c[1]
           i == c[2]
<1>1. w \in Workers /\ i \in 0..Callbacks /\ c = <<w, i>>
  BY DEF Callers
<1>2. /\ ~Live(w) /\ Waiting(c) /\ phase[w] # "sorry" /\ GiveUp(c)
      /\ \/ c # Own(w) /\ UNCHANGED phase
         \/ c = Own(w) /\ ctx[w] = "expired" /\ phase' = [phase EXCEPT ![w] = "failing"]
         \/ c = Own(w) /\ (ctx[w] = "canceled" \/ phase[w] = "work")
                       /\ phase' = [phase EXCEPT ![w] = "idle"]
      /\ UNCHANGED <<ctx, since, stopping>>
  BY DEF StopWaiting
<1> HIDE DEF w, i
<1>3. /\ f \in [Seats -> Nat] /\ Bounded(f) /\ Covers(f) /\ Rules(f, w) /\ Numbers
      /\ \A l \in Labels : f[<<w, l>>] \in Nat
      /\ 0 \in 0..Callbacks /\ \A k \in 1..Callbacks : k \in 0..Callbacks /\ k # 0
  BY <1>1, SeatFacts DEF Seated
<1>4. Owed \in Nat /\ Owed' \in Nat /\ Owed' <= Owed
  BY <1>2, <1>3 DEF GiveUp, Owed, Numbers
<1>5. PICK g \in [Seats -> Nat] :
         Bounded(g)' /\ Covers(g)' /\ \A s \in Seats : g[s] <= f[s]
  BY <1>3, <1>4, SeatsEmptied
<1>6. /\ call'[<<w, i>>] = Off
      /\ \A v \in Workers, k \in 0..Callbacks :
           <<v, k>> # <<w, i>> => call'[<<v, k>>] = call[<<v, k>>]
  BY <1>1, <1>2, <1>3 DEF GiveUp, Numbers, Callers
<1>7. \A v \in Workers \ {w} : phase'[v] = phase[v]
  BY <1>2 DEF OtherTypes
<1>8. ASSUME NEW v \in Workers \ {w} PROVE Rules(g, v)'
  <2>1. \A l \in Labels : g[<<v, l>>] <= f[<<v, l>>]
    BY <1>5 DEF Seats
  <2>2. \A k \in 0..Callbacks : call'[<<v, k>>] = call[<<v, k>>]
    BY <1>6
  <2>3. Rules(f, v) /\ ctx'[v] = ctx[v] /\ since'[v] = since[v] /\ stopping' = stopping
    BY <1>2 DEF Seated
  <2> QED
    BY <1>3, <1>5, <1>7, <2>1, <2>2, <2>3, OthersKeepRules
<1>9. \A l \in Labels : g[<<w, l>>] \in Nat /\ g[<<w, l>>] <= f[<<w, l>>]
  BY <1>1, <1>5 DEF Seats
<1>10. \A k \in 0..Callbacks :
         Waiting(<<w, k>>)' => Waiting(<<w, k>>) /\ call'[<<w, k>>] = call[<<w, k>>]
  BY <1>1, <1>6 DEF Waiting
<1>11. WaitsLast(g, w)' /\ OneReport(w)'
  <2>1. WaitsLast(g, w)'
    <3> SUFFICES ASSUME NEW k \in 0..Callbacks, NEW l \in Labels, Waiting(<<w, k>>)'
                 PROVE  g[<<w, l>>] <= call'[<<w, k>>]
      BY DEF WaitsLast
    <3>1. f[<<w, l>>] <= call[<<w, k>>] /\ call'[<<w, k>>] = call[<<w, k>>]
      BY <1>3, <1>10 DEF Rules, WaitsLast
    <3>2. call[<<w, k>>] \in Int
      BY <1>1, <1>3 DEF Numbers, Callers
    <3> QED
      BY <1>3, <1>9, <3>1, <3>2
  <2>2. OneReport(w)'
    BY <1>3, <1>10 DEF Rules, OneReport
  <2> QED
    BY <2>1, <2>2
<1>12. phase[w] \in {"begin", "work", "download"} /\ (c = Own(w) => phase[w] # "download")
  <2>1. c = Own(w) \/ i \in 1..Callbacks
    BY <1>1, OutboundAssumption DEF Own, OutboundAssumption
  <2> QED
    BY <1>1, <1>2, <2>1 DEF WhoWaits
<1>13. \A l \in Labels : f[<<w, l>>] = 0 => g[<<w, l>>] = 0
  BY <1>9
<1>14. f[<<w, "sorry">>] = 0 /\ g[<<w, "sorry">>] = 0
  BY <1>3, <1>12, <1>13 DEF Rules, Seating, Labels
<1>15. CASE c = Own(w)
  <2>1. phase'[w] \in {"failing", "idle"}
    BY <1>1, <1>2, <1>15 DEF OtherTypes
  <2>2. phase'[w] = "idle" => stopping \/ g[<<w, "job">>] = 0
    <3>1. phase'[w] = "idle" => ctx[w] = "canceled" \/ phase[w] = "work"
      BY <1>1, <1>2, <1>15 DEF OtherTypes
    <3>2. ctx[w] = "canceled" => stopping
      BY <1>1, <1>12 DEF OtherTypes
    <3>3. phase[w] = "work" => g[<<w, "job">>] = 0
      BY <1>3, <1>13 DEF Rules, Seating, Labels
    <3> QED
      BY <3>1, <3>2, <3>3
  <2>3. Seating(g, w)'
    BY <1>2, <1>14, <2>1, <2>2 DEF Seating
  <2>4. ReportsApart(g, w)' /\ phase'[w] # "unheard"
    BY <2>1 DEF ReportsApart
  <2> QED
    BY <1>5, <1>8, <1>11, <2>3, <2>4 DEF DebtInv, Seated, Rules
<1>16. CASE c # Own(w)
  <2>1. phase' = phase /\ phase[w] = "download"
    <3>1. i \in 1..Callbacks
      BY <1>1, <1>16 DEF Own
    <3> QED
      BY <1>1, <1>2, <1>16, <3>1 DEF WhoWaits
  <2>2. g[<<w, "before">>] = 0
    BY <1>3, <1>13, <2>1 DEF Rules, Seating, Labels
  <2>3. Seating(g, w)'
    BY <1>14, <2>1, <2>2 DEF Seating
  <2>4. ReportsApart(f, w) /\ "job" \in Labels
    BY <1>3 DEF Rules, Labels
  <2>5. since[w] \in Nat /\ since'[w] = since[w] /\ ~Live(w)' /\ MaxDebt \in Nat
    BY <1>1, <1>2, SeatFacts DEF Live
  <2>6. g[<<w, "job">>] > 0 => g[<<w, "job">>] + since'[w] < MaxDebt
    BY <1>3, <1>9, <2>1, <2>4, <2>5 DEF ReportsApart
  <2>7. \A k \in 1..Callbacks : Waiting(<<w, k>>)' => call'[<<w, k>>] + since'[w] < MaxDebt
    BY <1>3, <1>10, <2>1, <2>4, <2>5 DEF ReportsApart
  <2>8. ReportsApart(g, w)'
    BY <2>5, <2>6, <2>7 DEF ReportsApart
  <2>9. phase'[w] # "unheard"
    BY <2>1
  <2> QED
    BY <1>5, <1>8, <1>11, <2>3, <2>8, <2>9 DEF DebtInv, Seated, Rules
<1> QED
  BY <1>15, <1>16

LEMMA ShutdownKeepsDebt ==
  ASSUME NEW f, Seated(f), LineInv, OtherTypes, Shutdown
  PROVE  Seated(f)'
<1>1. /\ UNCHANGED <<credit, call, phase, since>> /\ stopping' = TRUE
      /\ \A w \in Workers : ctx'[w] # "live"
  BY DEF Shutdown, Live
<1>2. Bounded(f)' /\ Covers(f)'
  BY <1>1 DEF Seated, Bounded, Covers, Owed
<1>3. ASSUME NEW w \in Workers PROVE Rules(f, w)'
  <2>1. Rules(f, w)
    BY DEF Seated
  <2>2. WaitsLast(f, w)' /\ OneReport(w)' /\ phase'[w] # "unheard"
    BY <1>1, <2>1 DEF Rules, WaitsLast, OneReport, Waiting
  <2>3. Seating(f, w)'
    BY <1>1, <2>1 DEF Rules, Seating, Live, Waiting, Own
  <2>4. ReportsApart(f, w)'
    BY <1>1, <2>1 DEF Rules, ReportsApart, Live, Waiting
  <2> QED
    BY <2>2, <2>3, <2>4 DEF Rules
<1> QED
  BY <1>1, <1>2, <1>3 DEF Seated

(* Every turn comes a tick nearer.                                         *)
LEMMA TickKeepsDebt ==
  ASSUME LineIsShort, NEW f, Seated(f), LineInv, OtherTypes, Tick
  PROVE  DebtInv'
<1>1. /\ f \in [Seats -> Nat] /\ Numbers
      /\ \A c \in Callers : call[c] # 0
      /\ credit' = IF credit < Burst THEN credit + 1 ELSE credit
      /\ call' = [c \in Callers |-> IF Waiting(c) THEN call[c] - 1 ELSE Off]
      /\ since' = [w \in Workers |-> IF since[w] < MinGap THEN since[w] + 1 ELSE MinGap]
      /\ UNCHANGED <<phase, ctx, stopping>>
  BY DEF Seated, LineInv, Tick
<1>2. PICK g : g = [s \in Seats |-> IF f[s] > 0 THEN f[s] - 1 ELSE 0]
  OBVIOUS
<1>3. g \in [Seats -> Nat]
  BY <1>1, <1>2
<1>4. PICK n \in Nat : n = Owed'
  BY <1>1, OutboundAssumption DEF Owed, Numbers, OutboundAssumption
<1>5. n = (IF Owed > 0 THEN Owed - 1 ELSE 0) /\ Owed \in Nat
  BY <1>1, <1>4, OutboundAssumption DEF Owed, Numbers, OutboundAssumption
<1>6. \A s \in Seats : g[s] <= n
  BY <1>1, <1>2, <1>5 DEF Seated, Bounded
<1>7. \A k \in 1..n : \E s \in Seats : g[s] = k
  <2> SUFFICES ASSUME NEW k \in 1..n PROVE \E s \in Seats : g[s] = k
    OBVIOUS
  <2>1. k + 1 \in 1..Owed
    BY <1>5
  <2>2. PICK s \in Seats : f[s] = k + 1
    BY <2>1 DEF Seated, Covers
  <2> QED
    BY <1>2, <2>2
<1>8. Bounded(g)' /\ Covers(g)'
  BY <1>4, <1>6, <1>7 DEF Bounded, Covers
<1>9. ASSUME NEW w \in Workers PROVE Rules(g, w)'
  <2>1. /\ Rules(f, w)
        /\ \A l \in Labels : f[<<w, l>>] \in Nat
        /\ \A i \in 0..Callbacks : call[<<w, i>>] \in Int /\ call[<<w, i>>] >= Off
        /\ since[w] \in Nat /\ MaxDebt \in Nat /\ MinGap \in Nat
        /\ 0 \in 0..Callbacks /\ \A i \in 1..Callbacks : i \in 0..Callbacks /\ i # 0
    BY SeatFacts
  <2>2. \A l \in Labels :
          g[<<w, l>>] = IF f[<<w, l>>] > 0 THEN f[<<w, l>>] - 1 ELSE 0
    BY <1>2 DEF Seats
  <2>3. \A i \in 0..Callbacks :
          /\ Waiting(<<w, i>>)' <=> Waiting(<<w, i>>)
          /\ Waiting(<<w, i>>) => call'[<<w, i>>] = call[<<w, i>>] - 1 /\ call[<<w, i>>] > 0
    <3> SUFFICES ASSUME NEW i \in 0..Callbacks
                 PROVE  /\ Waiting(<<w, i>>)' <=> Waiting(<<w, i>>)
                        /\ Waiting(<<w, i>>) => /\ call'[<<w, i>>] = call[<<w, i>>] - 1
                                                /\ call[<<w, i>>] > 0
      OBVIOUS
    <3>1. <<w, i>> \in Callers
      BY DEF Callers
    <3>2. call[<<w, i>>] \in Int /\ call[<<w, i>>] >= Off /\ call[<<w, i>>] # 0
      BY <1>1, <2>1, <3>1
    <3> QED
      BY <1>1, <3>1, <3>2 DEF Waiting, Off
  <2>4. since'[w] = IF since[w] < MinGap THEN since[w] + 1 ELSE MinGap
    BY <1>1
  <2>5. WaitsLast(g, w)'
    BY <2>1, <2>2, <2>3 DEF Rules, WaitsLast
  <2>6. OneReport(w)'
    BY <2>1, <2>3 DEF Rules, OneReport
  <2>7. Seating(g, w)'
    BY <1>1, <2>1, <2>2, <2>3 DEF Rules, Seating, Live, Own, Labels
  <2>8. ReportsApart(g, w)'
    <3> SUFFICES ASSUME phase[w] = "download" PROVE ReportsApart(g, w)'
      BY <1>1 DEF ReportsApart
    <3>1. /\ f[<<w, "job">>] \in Nat
          /\ g[<<w, "job">>] = IF f[<<w, "job">>] > 0 THEN f[<<w, "job">>] - 1 ELSE 0
      BY <2>1, <2>2 DEF Labels
    <3>2. g[<<w, "job">>] > 0 => g[<<w, "job">>] + since'[w] < MaxDebt
      BY <2>1, <2>4, <3>1 DEF Rules, ReportsApart, LineIsShort
    <3>3. \A i \in 1..Callbacks : Waiting(<<w, i>>)' => call'[<<w, i>>] + since'[w] < MaxDebt
      BY <2>1, <2>3, <2>4 DEF Rules, ReportsApart, LineIsShort
    <3>4. Live(w)' /\ g[<<w, "job">>] > 0 => \E i \in 1..Callbacks : Waiting(<<w, i>>)'
      <4>1. SUFFICES ASSUME Live(w)', g[<<w, "job">>] > 0
                     PROVE  \E i \in 1..Callbacks : Waiting(<<w, i>>)'
        OBVIOUS
      <4>2. Live(w) /\ f[<<w, "job">>] > 0 /\ ReportsApart(f, w)
        BY <1>1, <2>1, <3>1, <4>1 DEF Rules, Live
      <4>3. PICK i \in 1..Callbacks : Waiting(<<w, i>>)
        BY <4>2 DEF ReportsApart
      <4> QED
        BY <2>1, <2>3, <4>3
    <3> QED
      BY <3>2, <3>3, <3>4 DEF ReportsApart
  <2>9. phase'[w] # "unheard"
    BY <1>1, <2>1 DEF Rules
  <2> QED
    BY <2>5, <2>6, <2>7, <2>8, <2>9 DEF Rules
<1> QED
  BY <1>3, <1>8, <1>9 DEF DebtInv, Seated

LEMMA DebtKept ==
  LineIsShort /\ LineInv /\ WhoWaits /\ OtherTypes /\ DebtInv /\ [Next]_vars => DebtInv'
<1> SUFFICES ASSUME LineIsShort, LineInv, WhoWaits, OtherTypes, DebtInv, [Next]_vars
             PROVE  DebtInv'
  OBVIOUS
<1>1. PICK f : Seated(f)
  BY DEF DebtInv
<1>2. ASSUME NEW w \in Workers, Job(w) PROVE DebtInv'
  <2>1. CASE Begin(w) \/ Fail(w) \/ Expire(w) \/ EndDownload(w) \/ Finish(w)
    BY <1>1, <2>1, MovesKeepDebt DEF DebtInv
  <2>2. CASE Call(w)
    BY <1>1, <2>2, CallKeepsDebt
  <2>3. ASSUME NEW i \in 1..Callbacks, NEW p \in 0..Top, Report(w, i, p) PROVE DebtInv'
    BY <1>1, <2>3, ReportKeepsDebt
  <2>4. CASE Apologise(w)
    BY <1>1, <2>4, ApologyKeepsDebt
  <2> QED
    BY <1>2, <2>1, <2>2, <2>3, <2>4 DEF Job
<1>3. ASSUME NEW c \in Callers, Grant(c) PROVE DebtInv'
  BY <1>1, <1>3, GrantKeepsDebt DEF DebtInv
<1>4. ASSUME NEW c \in Callers, StopWaiting(c) PROVE DebtInv'
  BY <1>1, <1>4, GiveUpKeepsDebt
<1>5. CASE Shutdown
  BY <1>1, <1>5, ShutdownKeepsDebt DEF DebtInv
<1>6. CASE Tick
  BY <1>1, <1>6, TickKeepsDebt
<1>7. CASE UNCHANGED vars
  <2>1. Bounded(f)' /\ Covers(f)'
    BY <1>1, <1>7 DEF vars, Seated, Bounded, Covers, Owed
  <2>2. ASSUME NEW w \in Workers PROVE Rules(f, w)'
    <3>1. Rules(f, w)
      BY <1>1 DEF Seated
    <3> QED
      BY <1>7, <3>1 DEF vars, Rules, WaitsLast, OneReport, Seating, ReportsApart,
                        Waiting, Live, Own
  <2> QED
    BY <1>1, <2>1, <2>2 DEF DebtInv, Seated
<1> QED
  BY <1>2, <1>3, <1>4, <1>5, <1>6, <1>7 DEF Next

LEMMA DebtInit == Init => DebtInv
<1> SUFFICES ASSUME Init PROVE DebtInv
  OBVIOUS
<1>1. PICK f : f = [s \in Seats |-> 0]
  OBVIOUS
<1>2. f \in [Seats -> Nat] /\ \A s \in Seats : f[s] = 0
  BY <1>1
<1>3. Owed = 0
  BY OutboundAssumption DEF Init, Owed, OutboundAssumption
<1>4. Bounded(f) /\ Covers(f)
  BY <1>2, <1>3 DEF Bounded, Covers
<1>5. ASSUME NEW w \in Workers PROVE Rules(f, w)
  <2>1. \A i \in 0..Callbacks : ~Waiting(<<w, i>>)
    BY DEF Init, Callers, Waiting, Off
  <2>2. \A l \in Labels : f[<<w, l>>] = 0
    BY <1>2 DEF Seats
  <2>3. phase[w] = "idle" /\ f[<<w, "sorry">>] = 0 /\ f[<<w, "job">>] = 0
    BY <2>2 DEF Init, Labels
  <2>4. WaitsLast(f, w) /\ OneReport(w)
    BY <2>1, OutboundAssumption DEF WaitsLast, OneReport, OutboundAssumption
  <2> QED
    BY <2>3, <2>4 DEF Rules, Seating, ReportsApart
<1> QED
  BY <1>2, <1>4, <1>5 DEF DebtInv, Seated

LEMMA DebtAlways ==
  LineIsShort => (Spec => [](LineInv /\ WhoWaits /\ OtherTypes /\ DebtInv))
<1> SUFFICES ASSUME LineIsShort
             PROVE  Spec => [](LineInv /\ WhoWaits /\ OtherTypes /\ DebtInv)
  OBVIOUS
<1>1. Init => LineInv /\ WhoWaits /\ OtherTypes /\ DebtInv
  BY LineInit, OtherTypesInit, DebtInit
<1>2. LineInv /\ WhoWaits /\ OtherTypes /\ DebtInv /\ [Next]_vars
        => (LineInv /\ WhoWaits /\ OtherTypes /\ DebtInv)'
  BY LineKept, OtherTypesKept, DebtKept
<1> QED
  BY <1>1, <1>2, PTL DEF Spec

(* Whatever workers say and give up, the limiter never owes more than      *)
(* three turns to a worker, so no wait is longer (sendLimiter.wait).       *)
THEOREM LineIsBounded == LineIsShort => (Spec => []TypeOK)
<1> SUFFICES ASSUME LineIsShort PROVE Spec => []TypeOK
  OBVIOUS
<1>1. LineInv /\ OtherTypes /\ DebtInv => TypeOK
  <2> SUFFICES ASSUME LineInv, OtherTypes, DebtInv PROVE TypeOK
    OBVIOUS
  <2>1. PICK f : Seated(f)
    BY DEF DebtInv
  <2>2. Numbers /\ Owed <= MaxDebt /\ Owed \in Nat /\ MaxDebt \in Nat
    BY <2>1, DebtFits, DebtType DEF Seated, LineInv
  <2>3. credit \in (-MaxDebt)..Burst
    BY <2>2, OutboundAssumption DEF Numbers, Owed, OutboundAssumption
  <2>4. \A c \in Callers : call[c] \in Off..MaxDebt
    <3> SUFFICES ASSUME NEW c \in Callers PROVE call[c] \in Off..MaxDebt
      OBVIOUS
    <3>1. call[c] \in Int /\ call[c] >= Off /\ (call[c] > 0 => call[c] <= -credit)
      BY <2>2 DEF Numbers, LineInv, TurnsCovered
    <3> QED
      BY <2>2, <2>3, <3>1 DEF Off
  <2>5. call \in [Callers -> Off..MaxDebt]
    BY <2>2, <2>4 DEF Numbers
  <2> QED
    BY <2>2, <2>3, <2>5 DEF TypeOK, OtherTypes, Numbers
<1> QED
  BY <1>1, DebtAlways, PTL

(* No apology is refused for the length of the line: notifyTimeout covers  *)
(* the longest wait there can be (service.go, process).                    *)
THEOREM ApologiesAreHeard == LineIsShort => (Spec => []ApologyHeard)
<1> SUFFICES ASSUME LineIsShort PROVE Spec => []ApologyHeard
  OBVIOUS
<1>1. DebtInv => ApologyHeard
  BY DEF DebtInv, Seated, Rules, ApologyHeard
<1> QED
  BY <1>1, DebtAlways, PTL

(* The reports of a download leave in the order in which they were made,   *)
(* although nothing but progressMinGap keeps them apart once the mutex is  *)
(* released (progressReporter).                                            *)
THEOREM ReportsStayInOrder == LineIsShort => (Spec => []ReportsInOrder)
<1> SUFFICES ASSUME LineIsShort PROVE Spec => []ReportsInOrder
  OBVIOUS
<1>1. DebtInv => ReportsInOrder
  <2> SUFFICES ASSUME DebtInv, NEW w \in Workers
               PROVE  Cardinality({i \in 1..Callbacks : Waiting(<<w, i>>)}) <= 1
    BY DEF ReportsInOrder
  <2>1. OneReport(w)
    BY DEF DebtInv, Seated, Rules
  <2> DEFINE S == {i \in 1..Callbacks : Waiting(<<w, i>>)}
  <2>2. \A i, k \in S : i = k
    BY <2>1 DEF OneReport
  <2> HIDE DEF S
  <2>3. S = {} \/ \E i : S = {i}
    BY <2>2
  <2>4. Cardinality(S) = 0 \/ Cardinality(S) = 1
    BY <2>3, FS_EmptySet, FS_Singleton
  <2>5. Cardinality(S) <= 1
    BY <2>4
  <2> QED
    BY <2>5 DEF S
<1> QED
  BY <1>1, DebtAlways, PTL

=============================================================================
