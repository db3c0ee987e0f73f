------------------------ MODULE CommandIntakeProofs ------------------------
(***************************************************************************)
(* Intake acts on the contracted commands and on no other, for any number  *)
(* of workers, commands and faults and any prefetch window.                *)
(*                                                                         *)
(* The properties speak of where commands ended.  What carries them is     *)
(* what a handler has found out about its command when it is about to      *)
(* settle it: HandlersAreRight.                                            *)
(***************************************************************************)
EXTENDS CommandIntake, TLAPS

-----------------------------------------------------------------------------
(***************************************************************************)
(* The verdict, reached check by check, is the contract, stated as a table *)
(* of what may be published under which key (validation.py).               *)
(***************************************************************************)
LEMMA VerdictIsTheContract ==
    ASSUME NEW c \in AnyCommand
    PROVE  /\ Verdict(c) \in {"run", "cancel"} <=> IsContracted(c)
           /\ Verdict(c) = "cancel" => c.eventType = "cancel"
<1>1. c.jobType \in JobTypes /\ c.body \in {"bytes", "text", "value", "malformed", "valid"}
          /\ c.eventType \in {"requested", "cancel"}
  BY DEF AnyCommand
<1>2. RequestKey["VIDEO_ANALYSIS"] = VideoKey /\ RequestKey["DOCUMENT_EXTRACTION"] = DocKey
  BY DEF RequestKey, JobTypes
<1>3. CASE c.body = "valid"
  BY <1>1, <1>2, <1>3 DEF Verdict, IsValid, IsConsistentRequest, IsConsistentCancel,
      IsContracted, JobTypes, DocKey, VideoKey, CancelKey
<1>4. CASE c.body # "valid"
  BY <1>1, <1>4 DEF Verdict, IsValid, IsContracted
<1> QED BY <1>3, <1>4

LEMMA InitIsRight == Init => IntakeInvariant
<1> SUFFICES ASSUME Init PROVE IntakeInvariant
  OBVIOUS
<1>1. Index = {}
  BY DEF Init, Index
<1>2. TypeOK
  <2>1. place \in [Index -> Places \cup Worker]
    BY <1>1 DEF Init
  <2> QED BY <1>1, <2>1 DEF Init, TypeOK, Phases
<1> QED BY <1>1, <1>2 DEF Init, IntakeInvariant, HandlersAreRight, PlacesAreRight, IntentsAreRight

(***************************************************************************)
(* Every step keeps the invariant.                                         *)
(***************************************************************************)
LEMMA StepIsRight == IntakeInvariant /\ [Next]_vars => IntakeInvariant'
<1> SUFFICES ASSUME IntakeInvariant, [Next]_vars PROVE IntakeInvariant'
  OBVIOUS
<1> USE IntakeAssumption
<1> USE DEF IntakeInvariant
<1>1. ASSUME NEW c \in Command, Send(c) PROVE IntakeInvariant'
  <2>1. /\ sent' = Append(sent, c) /\ Len(sent') = Len(sent) + 1 /\ Len(sent) \in Nat
        /\ sent' \in Seq(Command)
        /\ \A i \in Index : sent'[i] = sent[i]
    BY <1>1 DEF Send, TypeOK, Index
  <2>2. Index \subseteq Index' /\ Index' = Index \cup {Len(sent) + 1}
    BY <2>1 DEF Index
  <2>3. /\ place' \in [Index' -> Places \cup Worker]
        /\ \A i \in Index : place'[i] = place[i]
        /\ place'[Len(sent) + 1] \in {"ready", "dropped"}
    <3> DEFINE P == Places \cup Worker
               v == IF c.routingKey \in BoundKeys THEN "ready" ELSE "dropped"
    <3>0. place \in [1 .. Len(sent) -> P]
      BY DEF TypeOK, Index
    <3>1. place \in Seq(P) /\ Len(place) = Len(sent)
      <4> HIDE DEF P
      <4> QED BY <2>1, <3>0
    <3>2. v \in P /\ v \in {"ready", "dropped"} /\ place' = Append(place, v)
      BY <1>1 DEF Send, Places
    <3> HIDE DEF P, v
    <3>3. /\ place' \in Seq(P) /\ Len(place') = Len(sent) + 1
          /\ \A i \in 1 .. Len(sent) : place'[i] = place[i]
          /\ place'[Len(sent) + 1] = v
      BY <3>1, <3>2
    <3>4. place' \in [1 .. Len(place') -> P]
      BY <3>3
    <3> QED BY <3>2, <3>3, <3>4, <2>1 DEF P, Index
  <2>4. TypeOK'
    <3>1. inbox' \in [Worker -> Seq(Index')]
      BY <1>1, <2>2 DEF Send, TypeOK
    <3> QED BY <1>1, <2>1, <2>2, <2>3, <3>1 DEF Send, TypeOK
  <2>5. HandlersAreRight'
    BY <1>1, <2>1, <2>2 DEF Send, TypeOK, HandlersAreRight, Current
  <2>6. PlacesAreRight'
    BY <2>1, <2>2, <2>3, <1>1 DEF Send, PlacesAreRight
  <2>7. IntentsAreRight'
    BY <1>1, <2>1, <2>2 DEF Send, IntentsAreRight
  <2> QED BY <2>4, <2>5, <2>6, <2>7
<1>2. ASSUME NEW w \in Worker, NEW i \in Index, Deliver(w, i) PROVE IntakeInvariant'
  BY <1>2 DEF Deliver, TypeOK, HandlersAreRight, PlacesAreRight, IntentsAreRight, Current,
      Index, Places
<1>3. ASSUME NEW w \in Worker, StartConsuming(w) PROVE IntakeInvariant'
  BY <1>3 DEF StartConsuming, TypeOK, Phases, HandlersAreRight, PlacesAreRight,
      IntentsAreRight, Current, Index
<1>4. ASSUME NEW w \in Worker, Dispatch(w) PROVE IntakeInvariant'
  <2>1. Head(inbox[w]) \in Index /\ Head(inbox[w]) # 0 /\ Tail(inbox[w]) \in Seq(Index)
    BY <1>4 DEF Dispatch, TypeOK, Index
  <2> QED BY <1>4, <2>1 DEF Dispatch, TypeOK, Phases, HandlersAreRight, PlacesAreRight,
      IntentsAreRight, Current, Index
<1>5. ASSUME NEW w \in Worker, NEW where \in {"dead", "acked", "done"},
             Settle(w, where), Return(w), handling[w] # 0,
             where = "dead" => Verdict(Current(w)) = "reject",
             where = "acked" => Verdict(Current(w)) = "cancel" /\ Current(w).job \in cancelled,
             where = "done" => Verdict(Current(w)) = "run"
      PROVE  IntakeInvariant'
  BY <1>5 DEF Settle, Return, TypeOK, Phases, Places, HandlersAreRight, PlacesAreRight,
      IntentsAreRight, Current, Index
<1>6. ASSUME NEW w \in Worker, Reject(w) PROVE IntakeInvariant'
  BY <1>5, <1>6 DEF Reject, Decides, HandlersAreRight
<1>7. ASSUME NEW w \in Worker, RecordCancel(w) PROVE IntakeInvariant'
  <2>1. handling[w] \in Index /\ Verdict(Current(w)) = "cancel" /\ Current(w) \in AnyCommand
    BY <1>7 DEF RecordCancel, Decides, HandlersAreRight, TypeOK, Current, Index
  <2>2. Current(w).job \in Job
    BY <2>1 DEF AnyCommand
  <2>3. TypeOK'
    BY <1>7, <2>2 DEF RecordCancel, TypeOK, Phases, Index
  <2>4. HandlersAreRight' /\ PlacesAreRight'
    BY <1>7, <2>1 DEF RecordCancel, Decides, TypeOK, HandlersAreRight, PlacesAreRight,
        Current, Index
  <2>5. IntentsAreRight'
    BY <1>7, <2>1 DEF RecordCancel, IntentsAreRight, Current, Index
  <2> QED BY <2>3, <2>4, <2>5
<1>8. ASSUME NEW w \in Worker, AckCancel(w) PROVE IntakeInvariant'
  BY <1>5, <1>8 DEF AckCancel, HandlersAreRight
<1>9. ASSUME NEW w \in Worker, StartRun(w) PROVE IntakeInvariant'
  BY <1>9 DEF StartRun, Decides, TypeOK, Phases, HandlersAreRight, PlacesAreRight,
      IntentsAreRight, Current, Index
<1>10. ASSUME NEW w \in Worker, FinishRun(w) PROVE IntakeInvariant'
  BY <1>5, <1>10 DEF FinishRun, HandlersAreRight
<1>11. ASSUME NEW w \in Worker, ConnectionGone(w) PROVE IntakeInvariant'
  BY <1>11 DEF ConnectionGone, Down, TypeOK, Phases, HandlersAreRight, PlacesAreRight,
      IntentsAreRight, Current, Index
<1>12. ASSUME NEW w \in Worker, Requeue(w), UNCHANGED <<sent, cancelled>>, faults' \in Nat,
              UNCHANGED <<phase, handling, running>> \/ Down(w)
       PROVE  IntakeInvariant'
  <2>1. /\ sent' \in Seq(Command) /\ Index' = Index
        /\ inbox' \in [Worker -> Seq(Index)]
        /\ connected' \subseteq Worker /\ cancelled' \subseteq Job
    BY <1>12 DEF Requeue, TypeOK, Index
  <2>2. place' \in [Index -> Places \cup Worker]
    BY <1>12 DEF Requeue, TypeOK, Places
  <2>3. /\ phase' \in [Worker -> Phases]
        /\ handling' \in [Worker -> Index \cup {0}]
        /\ running' \in [Worker -> Index \cup {0}]
    BY <1>12 DEF Down, TypeOK, Phases
  <2>4. HandlersAreRight'
    BY <1>12 DEF Down, HandlersAreRight, TypeOK, Current
  <2>5. PlacesAreRight'
    BY <1>12, <2>1 DEF Requeue, PlacesAreRight
  <2>6. IntentsAreRight'
    BY <1>12, <2>1 DEF IntentsAreRight
  <2> QED BY <1>12, <2>1, <2>2, <2>3, <2>4, <2>5, <2>6 DEF TypeOK
<1>13. ASSUME NEW w \in Worker, RaiseOutOfHandler(w) PROVE IntakeInvariant'
  BY <1>12, <1>13 DEF RaiseOutOfHandler, TypeOK
<1>14. ASSUME NEW w \in Worker, LoseConnection(w) PROVE IntakeInvariant'
  BY <1>12, <1>14 DEF LoseConnection, TypeOK
<1>15. ASSUME NEW w \in Worker, Crash(w) PROVE IntakeInvariant'
  <2>1. faults' \in Nat
    BY <1>15 DEF Crash, TypeOK
  <2> QED BY <1>12, <1>15, <2>1 DEF Crash
<1>16. CASE UNCHANGED vars
  BY <1>16 DEF vars, TypeOK, HandlersAreRight, PlacesAreRight, IntentsAreRight, Current, Index
<1> QED
  BY <1>1, <1>2, <1>3, <1>4, <1>6, <1>7, <1>8, <1>9, <1>10, <1>11, <1>13, <1>14, <1>15, <1>16
  DEF Next, Handle

(***************************************************************************)
(* Every reachable state satisfies the invariant.                          *)
(***************************************************************************)
THEOREM IntakeIsRight == Spec => []IntakeInvariant
<1> QED BY InitIsRight, StepIsRight, PTL DEF Spec

(***************************************************************************)
(* A command that starts a run or records an intent is one that the Spring *)
(* core sends by contract.                                                 *)
(***************************************************************************)
THEOREM OnlyContractedCommandsAct == Spec => []OnlyContractedActs
<1>1. ASSUME IntakeInvariant PROVE OnlyContractedActs
  <2>1. \A i \in Index : sent[i] \in AnyCommand
    BY <1>1, IntakeAssumption DEF IntakeInvariant, TypeOK, Index
  <2>2. \A i \in Index : ActedOn(i) => Verdict(sent[i]) \in {"run", "cancel"}
    BY <1>1 DEF IntakeInvariant, HandlersAreRight, PlacesAreRight, ActedOn, Current
  <2> QED BY <1>1, <2>1, <2>2, VerdictIsTheContract
      DEF IntakeInvariant, IntentsAreRight, OnlyContractedActs
<1> QED BY <1>1, IntakeIsRight, PTL

(***************************************************************************)
(* Intake dead-letters no command the Spring core sends by contract.       *)
(***************************************************************************)
THEOREM ContractedCommandsAreTaken == Spec => []ContractedIsNeverDead
<1>1. ASSUME IntakeInvariant PROVE ContractedIsNeverDead
  <2>1. \A i \in Index : sent[i] \in AnyCommand
    BY <1>1, IntakeAssumption DEF IntakeInvariant, TypeOK, Index
  <2>2. \A i \in Index : place[i] = "dead" => Verdict(sent[i]) = "reject"
    BY <1>1 DEF IntakeInvariant, PlacesAreRight
  <2> QED BY <2>1, <2>2, VerdictIsTheContract DEF ContractedIsNeverDead
<1> QED BY <1>1, IntakeIsRight, PTL

(***************************************************************************)
(* No cancel is forgotten: the broker is told only of recorded ones.       *)
(***************************************************************************)
THEOREM AckedCancelsAreRecorded == Spec => []AckedCancelIsRecorded
<1>1. IntakeInvariant => AckedCancelIsRecorded
  BY DEF IntakeInvariant, PlacesAreRight, AckedCancelIsRecorded
<1> QED BY <1>1, IntakeIsRight, PTL

-----------------------------------------------------------------------------
(***************************************************************************)
(* While a process runs a pipeline its handler does nothing else.          *)
(***************************************************************************)
LEMMA RunsKeepRunning ==
    IntakeInvariant /\ RunsAreRunning /\ [Next]_vars => RunsAreRunning'
<1> SUFFICES ASSUME IntakeInvariant, RunsAreRunning, [Next]_vars PROVE RunsAreRunning'
  OBVIOUS
<1> USE DEF RunsAreRunning
<1>1. /\ running \in [Worker -> Index \cup {0}] /\ phase \in [Worker -> Phases]
      /\ Worker \cap Places = {}
  BY IntakeAssumption DEF IntakeInvariant, TypeOK
<1>2. CASE UNCHANGED <<running, phase>>
  BY <1>2
<1>3. ASSUME NEW w \in Worker, Down(w) PROVE RunsAreRunning'
  BY <1>1, <1>3 DEF Down
<1>4. ASSUME NEW w \in Worker, Return(w) PROVE RunsAreRunning'
  BY <1>1, <1>4 DEF Return
<1>5. ASSUME NEW w \in Worker, StartConsuming(w) \/ Dispatch(w) \/ RecordCancel(w) \/ StartRun(w)
      PROVE  RunsAreRunning'
  BY <1>1, <1>5 DEF StartConsuming, Dispatch, MayDispatch, RecordCancel, Decides, StartRun
<1>6. ASSUME NEW c \in Command, Send(c) PROVE UNCHANGED <<running, phase>>
  BY <1>6 DEF Send
<1>7. ASSUME NEW w \in Worker, NEW i \in Index, Deliver(w, i) PROVE UNCHANGED <<running, phase>>
  BY <1>7 DEF Deliver
<1>8. ASSUME NEW w \in Worker, LoseConnection(w) PROVE UNCHANGED <<running, phase>>
  BY <1>8 DEF LoseConnection
<1>9. ASSUME NEW w \in Worker, Handle(w) \/ Crash(w) PROVE RunsAreRunning'
  BY <1>3, <1>4, <1>5, <1>9
  DEF Handle, Reject, RaiseOutOfHandler, AckCancel, FinishRun, ConnectionGone, Crash
<1>10. CASE UNCHANGED vars
  BY <1>2, <1>10 DEF vars
<1> QED BY <1>2, <1>5, <1>6, <1>7, <1>8, <1>9, <1>10 DEF Next

(***************************************************************************)
(* The intent that stops a run was recorded by another process than the    *)
(* one that runs it (consumer.py:69-72, 117).                              *)
(***************************************************************************)
THEOREM CancelsComeFromPeers == Spec => MidRunCancelIsAPeers
<1> DEFINE Peers ==
      \A w \in Worker :
          running[w] # 0 /\ sent[running[w]].job \in cancelled' \ cancelled =>
              \E v \in Worker \ {w} : phase[v] = "validating" /\ phase'[v] = "recorded"
<1>1. Init => RunsAreRunning
  BY DEF Init, RunsAreRunning
<1>2. IntakeInvariant /\ RunsAreRunning /\ [Next]_vars => [Peers]_vars
  <2> SUFFICES ASSUME IntakeInvariant, RunsAreRunning, Next PROVE Peers
    OBVIOUS
  <2>1. ASSUME NEW v \in Worker, RecordCancel(v) PROVE Peers
    <3>1. phase[v] = "validating" /\ phase'[v] = "recorded"
      BY <2>1 DEF RecordCancel, Decides, IntakeInvariant, TypeOK
    <3>2. \A w \in Worker : running[w] # 0 => w # v
      BY <3>1 DEF RunsAreRunning
    <3> QED BY <3>1, <3>2
  <2>2. CASE cancelled' = cancelled
    BY <2>2
  <2>3. (\E v \in Worker : RecordCancel(v)) \/ cancelled' = cancelled
    BY DEF Next, Handle, Send, StartConsuming, Deliver, Dispatch, Reject, RaiseOutOfHandler,
           AckCancel, StartRun, FinishRun, ConnectionGone, LoseConnection, Crash, Return
  <2> QED BY <2>1, <2>2, <2>3
<1>3. Spec => [](IntakeInvariant /\ RunsAreRunning)
  BY <1>1, IntakeIsRight, RunsKeepRunning, PTL DEF Spec
<1> QED BY <1>2, <1>3, PTL DEF Spec, MidRunCancelIsAPeers

=============================================================================
