------------------------- MODULE LocalJobStoreProofs -------------------------
(***************************************************************************)
(* The in-memory store, for every number of requests, inputs and restarts. *)
(*                                                                         *)
(* LocalInvariant is inductive.  Its core is ClaimHasItsRun: the entry is  *)
(* undecided exactly while the one handler holds the claim, so resolve     *)
(* never answers IN_PROGRESS and no acknowledgement leaves a request       *)
(* without its answer.                                                     *)
(***************************************************************************)
EXTENDS LocalJobStore, TLAPS

USE LocalAssumption

LEMMA InitInvariant == Init => LocalInvariant
<1> SUFFICES ASSUME Init PROVE LocalInvariant
  OBVIOUS
<1>1. LocalTypeOK
  BY DEF Init, LocalTypeOK, Phase
<1>2. AckedIsAnswered /\ AnswersItsInput
  BY DEF Init, AckedIsAnswered, AnswersItsInput
<1> QED
  BY <1>1, <1>2 DEF Init, LocalInvariant, ClaimHasItsRun, EntryIsOurs, ResultIsOfInput, ResultIsOfThisLife,
     PublishedIsAnswered

\* what is known of the entry and of the handler outside "idle"
LEMMA BusyHandler ==
    ASSUME LocalInvariant, phase # "idle"
    PROVE  /\ msg \in Delivery /\ entry \in Entry /\ entry # None
           /\ entry.identity = identityOf[msg]
           /\ entry.event = None <=> phase \in {"claimed", "running"}
           /\ entry.event # None =>
                 entry.event \in Event /\ identityOf[entry.event.request] = identityOf[msg]
  BY DEF LocalInvariant, LocalTypeOK, EntryIsOurs, ClaimHasItsRun, ResultIsOfInput, ResultIsOfThisLife, Entry

\* one step per action
LEMMA StepInvariant == LocalInvariant /\ [Next]_vars => LocalInvariant'
<1> SUFFICES ASSUME LocalInvariant, [Next]_vars
             PROVE  LocalInvariant'
  OBVIOUS
<1> USE DEF LocalInvariant
<1>1. ASSUME NEW d \in Delivery, Resolve(d)
      PROVE  LocalInvariant'
  <2>1. Resolution(d) # "IN_PROGRESS"
    BY <1>1 DEF Resolve, Resolution, ClaimHasItsRun
  <2>2. CASE entry = None
    <3>1. /\ entry' = [identity |-> identityOf[d], event |-> None]
          /\ Take(d, "claimed")
          /\ UNCHANGED <<cancelled, announced, lives>>
      BY <1>1, <2>2 DEF Resolve, Resolution
    <3>2. entry' \in Entry /\ entry' # None
      BY <3>1 DEF Entry
    <3> QED
      BY <3>1, <3>2 DEF Take, LocalTypeOK, ClaimHasItsRun, EntryIsOurs, ResultIsOfInput, ResultIsOfThisLife,
         PublishedIsAnswered, AnswersItsInput, AckedIsAnswered, Phase
  <2>3. CASE entry # None /\ entry.identity # identityOf[d]
    <3>1. SettleAtOnce(d, "dead") /\ UNCHANGED <<entry, cancelled, announced, lives>>
      BY <1>1, <2>3 DEF Resolve, Resolution
    <3> QED
      BY <1>1, <3>1 DEF Resolve, SettleAtOnce, LocalTypeOK, ClaimHasItsRun, EntryIsOurs,
         ResultIsOfInput, ResultIsOfThisLife, PublishedIsAnswered, AnswersItsInput, AckedIsAnswered
  <2>4. CASE entry # None /\ entry.identity = identityOf[d]
    <3>1. entry.event # None
      BY <1>1, <2>4 DEF Resolve, ClaimHasItsRun
    <3>2. Take(d, "republish") /\ UNCHANGED <<entry, cancelled, announced, lives>>
      BY <1>1, <2>4, <3>1 DEF Resolve, Resolution
    <3> QED
      BY <1>1, <2>4, <3>1, <3>2 DEF Resolve, Take, LocalTypeOK, ClaimHasItsRun, EntryIsOurs,
         ResultIsOfInput, ResultIsOfThisLife, PublishedIsAnswered, AnswersItsInput, AckedIsAnswered, Phase
  <2> QED
    BY <2>2, <2>3, <2>4
<1>2. ASSUME Republish
      PROVE  LocalInvariant'
  <2>1. entry.event \in Event /\ entry.event # None /\ msg \in Delivery
        /\ identityOf[entry.event.request] = identityOf[msg]
    BY <1>2, BusyHandler DEF Republish
  <2>2. Settle("acked") \/ Settle("dead")
    BY <1>2 DEF Republish
  <2>3. LocalTypeOK'
    BY <1>2, <2>1, <2>2 DEF Republish, Announce, Settle, LocalTypeOK, Phase
  <2>4. AnswersItsInput'
    BY <1>2, <2>1 DEF Republish, Announce, AnswersItsInput
  <2>5. AckedIsAnswered'
    <3>1. CASE Announce(entry.event) /\ Settle("acked")
      <4>1. [to |-> msg, event |-> entry.event] \in announced' /\ announced \subseteq announced'
        BY <3>1 DEF Announce
      <4>2. \A d \in Delivery : settled'[d] = "acked" => d = msg \/ settled[d] = "acked"
        BY <3>1, <2>1 DEF Settle, LocalTypeOK
      <4> QED
        BY <1>2, <4>1, <4>2 DEF Republish, AckedIsAnswered
    <3>2. CASE Settle("dead") /\ UNCHANGED announced
      BY <1>2, <3>2, <2>1 DEF Republish, Settle, AckedIsAnswered, LocalTypeOK
    <3> QED
      BY <1>2, <3>1, <3>2 DEF Republish
  <2> QED
    BY <1>2, <2>1, <2>2, <2>3, <2>4, <2>5 DEF Republish, Settle, ClaimHasItsRun, EntryIsOurs,
       ResultIsOfInput, ResultIsOfThisLife, PublishedIsAnswered
<1>3. ASSUME SkipCancelled \/ JobCancelled \/ UnexpectedError
      PROVE  LocalInvariant'
  <2>1. msg \in Delivery /\ entry' = None /\ UNCHANGED <<cancelled, announced, lives>>
    BY <1>3, BusyHandler DEF SkipCancelled, JobCancelled, UnexpectedError, Forget
  <2>2. (Settle("acked") /\ cancelled) \/ Settle("dead")
    BY <1>3 DEF SkipCancelled, JobCancelled, UnexpectedError
  <2> QED
    BY <2>1, <2>2 DEF Settle, LocalTypeOK, ClaimHasItsRun, EntryIsOurs, ResultIsOfInput, ResultIsOfThisLife,
       PublishedIsAnswered, AnswersItsInput, AckedIsAnswered, Phase
<1>4. ASSUME StartPipeline
      PROVE  LocalInvariant'
  BY <1>4 DEF StartPipeline, LocalTypeOK, ClaimHasItsRun, EntryIsOurs, ResultIsOfInput, ResultIsOfThisLife,
     PublishedIsAnswered, AnswersItsInput, AckedIsAnswered, Phase
<1>5. ASSUME CommitResult
      PROVE  LocalInvariant'
  <2>1. msg \in Delivery
    BY <1>5, BusyHandler DEF CommitResult
  <2>2. PICK e \in Event : e.request = msg /\ e.life = lives /\ entry' = [identity |-> identityOf[msg], event |-> e]
    BY <1>5, <2>1 DEF CommitResult, MarkTerminal, Event, LocalTypeOK
  <2>3. entry' \in Entry /\ entry' # None /\ entry'.event = e /\ e # None
    BY <2>1, <2>2 DEF Entry
  <2> QED
    BY <1>5, <2>1, <2>2, <2>3 DEF CommitResult, LocalTypeOK, ClaimHasItsRun, EntryIsOurs,
       ResultIsOfInput, ResultIsOfThisLife, PublishedIsAnswered, AnswersItsInput, AckedIsAnswered, Phase
<1>6. ASSUME Publish
      PROVE  LocalInvariant'
  <2>1. entry.event \in Event /\ entry.event # None /\ msg \in Delivery
        /\ identityOf[entry.event.request] = identityOf[msg]
    BY <1>6, BusyHandler DEF Publish
  <2>2. LocalTypeOK'
    BY <1>6, <2>1 DEF Publish, Announce, Settle, LocalTypeOK, Phase
  <2>3. AnswersItsInput'
    BY <1>6, <2>1 DEF Publish, Announce, AnswersItsInput
  <2>4. AckedIsAnswered'
    BY <1>6, <2>1 DEF Publish, Announce, Settle, AckedIsAnswered, LocalTypeOK
  <2>5. PublishedIsAnswered'
    <3>1. CASE Announce(entry.event) /\ phase' = "mark" /\ UNCHANGED <<msg, settled>>
      <4>1. [to |-> msg, event |-> entry.event] \in announced' /\ msg' = msg
        BY <3>1 DEF Announce
      <4> QED
        BY <4>1 DEF PublishedIsAnswered
    <3>2. CASE Settle("dead") /\ UNCHANGED announced
      BY <3>2 DEF Settle, PublishedIsAnswered
    <3> QED
      BY <1>6, <3>1, <3>2 DEF Publish
  <2> QED
    BY <1>6, <2>1, <2>2, <2>3, <2>4, <2>5 DEF Publish, Settle, ClaimHasItsRun, EntryIsOurs,
       ResultIsOfInput, ResultIsOfThisLife
<1>7. ASSUME FinishRecord
      PROVE  LocalInvariant'
  <2>1. entry.event \in Event /\ entry.event # None /\ msg \in Delivery
        /\ identityOf[entry.event.request] = identityOf[msg]
    BY <1>7, BusyHandler DEF FinishRecord
  <2>2. entry' \in Entry /\ entry' # None /\ entry'.event = entry.event
        /\ entry'.identity = identityOf[msg]
    BY <1>7, <2>1 DEF FinishRecord, MarkTerminal, Entry
  <2> QED
    BY <1>7, <2>1, <2>2 DEF FinishRecord, Settle, LocalTypeOK, ClaimHasItsRun, EntryIsOurs,
       ResultIsOfInput, ResultIsOfThisLife, PublishedIsAnswered, AnswersItsInput, AckedIsAnswered, Phase
<1>8. ASSUME MarkCancelled
      PROVE  LocalInvariant'
  BY <1>8 DEF MarkCancelled, LocalTypeOK, ClaimHasItsRun, EntryIsOurs, ResultIsOfInput, ResultIsOfThisLife,
     PublishedIsAnswered, AnswersItsInput, AckedIsAnswered
<1>9. ASSUME Restart
      PROVE  LocalInvariant'
  BY <1>9 DEF Restart, LocalTypeOK, ClaimHasItsRun, EntryIsOurs, ResultIsOfInput, ResultIsOfThisLife,
     PublishedIsAnswered, AnswersItsInput, AckedIsAnswered, Phase
<1>10. CASE UNCHANGED vars
  BY <1>10 DEF vars, LocalTypeOK, ClaimHasItsRun, EntryIsOurs, ResultIsOfInput, ResultIsOfThisLife,
     PublishedIsAnswered, AnswersItsInput, AckedIsAnswered
<1> QED
  BY <1>1, <1>2, <1>3, <1>4, <1>5, <1>6, <1>7, <1>8, <1>9, <1>10 DEF Next

\* one step per action that changes what the job's outcome is made of
LEMMA StepOutcome ==
    ASSUME LocalInvariant, [Next]_vars
    PROVE  [Outcome!Next \/ lives' # lives]_(Outcome!vars)
<1>1. CASE \/ \E d \in Delivery : Resolve(d)
           \/ SkipCancelled \/ StartPipeline \/ JobCancelled \/ UnexpectedError
           \/ MarkCancelled \/ UNCHANGED vars
  <2>1. UNCHANGED <<announced, lives>>
    BY <1>1 DEF Resolve, SkipCancelled, StartPipeline, JobCancelled, UnexpectedError,
       MarkCancelled, vars
  <2>2. Decided' = Decided
    <3>1. CASE \E d \in Delivery : Resolve(d)
      <4>1. entry' = entry \/ (entry = None /\ entry'.event = None)
        BY <3>1 DEF Resolve, Resolution
      <4> QED
        BY <4>1 DEF Decided
    <3>2. CASE SkipCancelled \/ JobCancelled \/ UnexpectedError
      BY <3>2 DEF SkipCancelled, JobCancelled, UnexpectedError, Forget, Decided
    <3>3. CASE StartPipeline \/ MarkCancelled \/ UNCHANGED vars
      BY <3>3 DEF StartPipeline, MarkCancelled, vars, Decided
    <3> QED
      BY <1>1, <3>1, <3>2, <3>3
  <2> QED
    BY <2>1, <2>2 DEF Outcome!vars, AnnouncedThisLife
<1>2. CASE CommitResult
  <2>1. Decided = None
    BY <1>2 DEF CommitResult, LocalInvariant, ClaimHasItsRun, Decided
  <2>2. Decided' \in Event
    <3>1. msg \in Delivery
      BY <1>2, BusyHandler DEF CommitResult
    <3>2. PICK e \in Event : entry' = [identity |-> identityOf[msg], event |-> e]
      BY <1>2, <3>1 DEF CommitResult, MarkTerminal, Event, LocalInvariant, LocalTypeOK
    <3>3. entry' \in Entry
      BY <3>1, <3>2 DEF Entry
    <3> QED
      BY <3>2, <3>3 DEF Decided
  <2>3. AnnouncedThisLife' = AnnouncedThisLife
    BY <1>2 DEF CommitResult, AnnouncedThisLife
  <2> QED
    BY <2>1, <2>2, <2>3 DEF Outcome!Next, Outcome!Decide
<1>3. CASE Publish \/ Republish
  <2>1. /\ entry # None /\ entry.event # None /\ entry.event.life = lives
        /\ Decided' = Decided /\ Decided = entry.event /\ lives' = lives
    BY <1>3, BusyHandler DEF Publish, Republish, LocalInvariant, ResultIsOfThisLife, Decided
  <2>2. CASE UNCHANGED announced
    BY <2>1, <2>2 DEF Outcome!vars, AnnouncedThisLife
  <2>3. CASE Announce(entry.event)
    <3> DEFINE new == [to |-> msg, event |-> entry.event]
    <3>0. /\ announced' = announced \cup {new} /\ new.event = Decided
          /\ new.event.life = lives' /\ lives' = lives
      BY <2>1, <2>3 DEF Announce
    <3>1. AnnouncedThisLife' = AnnouncedThisLife \cup {Decided}
      <4> HIDE DEF new
      <4>1. \A x : x \in AnnouncedThisLife' <=>
                     \E a \in announced' : a.event.life = lives' /\ x = a.event
        BY DEF AnnouncedThisLife
      <4>2. \A x : x \in AnnouncedThisLife <=>
                     \E a \in announced : a.event.life = lives /\ x = a.event
        BY DEF AnnouncedThisLife
      <4> QED
        BY <3>0, <4>1, <4>2
    <3> QED
      BY <2>1, <3>1 DEF Outcome!Next, Outcome!Announce
  <2> QED
    BY <1>3, <2>2, <2>3 DEF Publish, Republish
<1>4. CASE FinishRecord
  <2>1. entry \in Entry /\ entry # None /\ msg \in Delivery
    BY <1>4, BusyHandler DEF FinishRecord
  <2>2. entry' \in Entry /\ entry'.event = entry.event
    BY <1>4, <2>1 DEF FinishRecord, MarkTerminal, Entry, LocalInvariant, LocalTypeOK
  <2>3. entry' # None
    BY <2>2
  <2> QED
    BY <1>4, <2>1, <2>2, <2>3 DEF FinishRecord, Decided, AnnouncedThisLife, Outcome!vars
<1>5. CASE Restart
  <2>1. lives' # lives
    BY <1>5 DEF Restart, LocalInvariant, LocalTypeOK
  <2> QED
    BY <2>1
<1> QED
  BY <1>1, <1>2, <1>3, <1>4, <1>5 DEF Next

(***************************************************************************)
(* The inductive invariant of the in-memory store under one worker.        *)
(***************************************************************************)
THEOREM LocalStoreIsRight == Spec => []LocalInvariant
BY InitInvariant, StepInvariant, PTL DEF Spec

(***************************************************************************)
(* A request acknowledged by a worker with an in-memory store was          *)
(* answered, or its job is cancelled (idempotency.py:91-119 under          *)
(* worker.py:148-347).                                                     *)
(***************************************************************************)
THEOREM AckedIsAnsweredAlways == Spec => []AckedIsAnswered
<1>1. LocalInvariant => AckedIsAnswered
  BY DEF LocalInvariant
<1> QED
  BY <1>1, LocalStoreIsRight, PTL

(***************************************************************************)
(* Every answer was computed for the input it answers                      *)
(* (idempotency.py:98-100).                                                *)
(***************************************************************************)
THEOREM AnswersMatchInputs == Spec => []AnswersItsInput
<1>1. LocalInvariant => AnswersItsInput
  BY DEF LocalInvariant
<1> QED
  BY <1>1, LocalStoreIsRight, PTL

(***************************************************************************)
(* A request is acknowledged only with an answer of its own or a cancel    *)
(* (worker.py:148-347).                                                    *)
(***************************************************************************)
THEOREM EveryRequestIsServed == Spec => []RequestsAreServed
BY AckedIsAnsweredAlways, AnswersMatchInputs, PTL DEF RequestsAreServed

(***************************************************************************)
(* Within one life of the process the in-memory store keeps the promise of *)
(* JobOutcome: one result, decided before it is announced                  *)
(* (idempotency.py:14-16, 121-124).                                        *)
(***************************************************************************)
THEOREM OutcomeHolds == Spec => OutcomeWhileItLives
<1>2. Init => Outcome!Init
  BY DEF Init, Outcome!Init, Decided, AnnouncedThisLife
<1>3. LocalInvariant /\ [Next]_vars => [Outcome!Next \/ lives' # lives]_(Outcome!vars)
  BY StepOutcome
<1> QED
  BY <1>2, <1>3, LocalStoreIsRight, PTL DEF Spec, OutcomeWhileItLives

=============================================================================
