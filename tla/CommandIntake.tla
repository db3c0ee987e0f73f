--------------------------- MODULE CommandIntake ---------------------------
(***************************************************************************)
(* What stands between the command queues and a pipeline run: routing,     *)
(* the prefetch window of each consumer, dispatch by the one thread that   *)
(* owns the connection, and the verdict handle_command reaches before it   *)
(* asks the job store (app/messaging/, app/contracts/validation.py,        *)
(* app/worker.py:64-147).                                                  *)
(*                                                                         *)
(* A worker process has one channel with a consumer per queue.  The broker *)
(* pushes up to Prefetch unsettled commands of each queue into the         *)
(* process, which handles them one at a time, in the order in which they   *)
(* came.  While a handler runs a pipeline its thread pumps the connection, *)
(* which takes deliveries in but dispatches none.                          *)
(*                                                                         *)
(* A request that passed intake is run and settled: what else can happen   *)
(* to it is AiWorker.  Every queue has one binding, so a queue goes by its *)
(* routing key here.                                                       *)
(***************************************************************************)
EXTENDS Naturals, Sequences, FiniteSets

CONSTANTS
    Worker,         \* worker processes
    Job,            \* jobIds
    Command,        \* the commands a sender may publish
    Prefetch,       \* worker_prefetch
    MaxSent,        \* commands sent in a behaviour (a bound)
    MaxFaults       \* crashes and lost connections (a bound)

DocKey == "ai.document-extraction.requested.v1"
VideoKey == "ai.video-analysis.requested.v1"
CancelKey == "ai.job.cancel.requested.v1"

BoundKeys == {DocKey, VideoKey, CancelKey}

JobTypes == {"DOCUMENT_EXTRACTION", "VIDEO_ANALYSIS"}

(***************************************************************************)
(* A command as validation looks at it.  body: bytes that are no Unicode   *)
(* text, a text that is no JSON, a JSON value that makes intake raise (no  *)
(* object, or a list where a type name belongs), an object that fits no    *)
(* supported schema, or one that fits the schema its event type and job    *)
(* type select.  subjectIsInput: subjectId is the documentId or videoId of *)
(* the input.                                                              *)
(***************************************************************************)
AnyCommand ==
    [ job : Job,
      body : {"bytes", "text", "value", "malformed", "valid"},
      eventType : {"requested", "cancel"},
      jobType : JobTypes,
      routingKey : BoundKeys \cup {"other"},
      producer : {"m4trust-core-api", "other"},
      subjectIsInput : BOOLEAN ]

Places == {"dropped", "ready", "dead", "acked", "done"}

ASSUME IntakeAssumption ==
    /\ Command \subseteq AnyCommand
    /\ Worker \cap Places = {}
    /\ Prefetch \in Nat \ {0} /\ MaxSent \in Nat /\ MaxFaults \in Nat

VARIABLES
    sent,           \* the commands, in the order the broker took them
    place,          \* place[i]: where the i-th command is
    inbox,          \* inbox[w]: what w prefetched and has not dispatched
    handling,       \* handling[w]: the command w is inside a handler for, or 0
    running,        \* running[w]: the request whose pipeline runs in w, or 0
    phase,          \* phase[w]: what the thread that owns the connection does
    connected,      \* the workers whose connection is up
    cancelled,      \* jobs with a recorded cancellation intent
    faults          \* crashes and lost connections so far

vars == <<sent, place, inbox, handling, running, phase, connected, cancelled, faults>>

Index == 1 .. Len(sent)

Phases == {"down", "idle", "validating", "recorded", "running"}

TypeOK ==
    /\ sent \in Seq(Command)
    /\ place \in [Index -> Places \cup Worker]
    /\ inbox \in [Worker -> Seq(Index)]
    /\ handling \in [Worker -> Index \cup {0}]
    /\ running \in [Worker -> Index \cup {0}]
    /\ phase \in [Worker -> Phases]
    /\ connected \subseteq Worker
    /\ cancelled \subseteq Job
    /\ faults \in Nat

Init ==
    /\ sent = <<>>
    /\ place = <<>>
    /\ inbox = [w \in Worker |-> <<>>]
    /\ handling = [w \in Worker |-> 0]
    /\ running = [w \in Worker |-> 0]
    /\ phase = [w \in Worker |-> "down"]
    /\ connected = {}
    /\ cancelled = {}
    /\ faults = 0

-----------------------------------------------------------------------------
(***************************************************************************)
(* The verdict on a command (validation.py).                               *)
(***************************************************************************)
RequestKey == [t \in JobTypes |-> IF t = "VIDEO_ANALYSIS" THEN VideoKey ELSE DocKey]

\* validate_command raises no ContractViolation
IsValid(c) == c.body = "valid"

\* Faulty variant: whichever queue it came from.
IsConsistentAnywhere(c) == c.producer = "m4trust-core-api" /\ c.subjectIsInput

\* validate_semantic_consistency
IsConsistentRequest(c) ==
    /\ c.producer = "m4trust-core-api"
    /\ c.routingKey = RequestKey[c.jobType]
    /\ c.subjectIsInput

\* Faulty variant: a cancel is held to the routing key of its job's request.
IsConsistentLikeARequest(c) ==
    c.producer = "m4trust-core-api" /\ c.routingKey = RequestKey[c.jobType]

\* validate_cancel_semantic_consistency
IsConsistentCancel(c) ==
    c.producer = "m4trust-core-api" /\ c.routingKey = CancelKey

Verdict(c) ==
    CASE c.body = "text" -> "reject"
      [] c.body \in {"bytes", "value"} -> "raise"
      [] c.body \in {"malformed", "valid"} ->
            IF ~IsValid(c) THEN "reject"
            ELSE IF c.eventType = "cancel"
            THEN IF IsConsistentCancel(c) THEN "cancel" ELSE "reject"
            ELSE IF IsConsistentRequest(c) THEN "run" ELSE "reject"

-----------------------------------------------------------------------------
(***************************************************************************)
(* The broker.                                                             *)
(***************************************************************************)
Send(c) ==
    /\ Len(sent) < MaxSent
    /\ sent' = Append(sent, c)
    /\ place' = Append(place, IF c.routingKey \in BoundKeys THEN "ready" ELSE "dropped")
    /\ UNCHANGED <<inbox, handling, running, phase, connected, cancelled, faults>>

\* What consumer w has not settled of queue k.
Unsettled(w, k) == {i \in Index : place[i] = w /\ sent[i].routingKey = k}

IsHead(i) ==
    /\ place[i] = "ready"
    /\ \A j \in 1 .. i - 1 : sent[j].routingKey = sent[i].routingKey => place[j] # "ready"

\* basic_qos(prefetch_count) holds for each consumer, that is for each queue
Deliver(w, i) ==
    /\ w \in connected
    /\ IsHead(i)
    /\ Cardinality(Unsettled(w, sent[i].routingKey)) < Prefetch
    /\ place' = [place EXCEPT ![i] = w]
    /\ inbox' = [inbox EXCEPT ![w] = Append(@, i)]
    /\ UNCHANGED <<sent, handling, running, phase, connected, cancelled, faults>>

\* The broker requeues, each at its old place in its queue, what w holds.
Requeue(w) ==
    /\ place' = [i \in Index |-> IF place[i] = w THEN "ready" ELSE place[i]]
    /\ inbox' = [inbox EXCEPT ![w] = <<>>]
    /\ connected' = connected \ {w}

Settle(w, where) == place' = [place EXCEPT ![handling[w]] = where]

\* the process of w is gone, and with it what its threads were doing
Down(w) ==
    /\ phase' = [phase EXCEPT ![w] = "down"]
    /\ handling' = [handling EXCEPT ![w] = 0]
    /\ running' = [running EXCEPT ![w] = 0]

-----------------------------------------------------------------------------
(***************************************************************************)
(* The worker process.                                                     *)
(***************************************************************************)
\* main and start_consuming: connection, topology, consumers
StartConsuming(w) ==
    /\ phase[w] = "down"
    /\ phase' = [phase EXCEPT ![w] = "idle"]
    /\ connected' = connected \cup {w}
    /\ UNCHANGED <<sent, place, inbox, handling, running, cancelled, faults>>

\* Faulty variant: the pumped connection also dispatches to callbacks.
MayDispatchNested(w) == phase[w] \in {"idle", "running"}

\* no callback is entered while one is running
MayDispatch(w) == phase[w] = "idle"

Dispatch(w) ==
    /\ MayDispatch(w)
    /\ inbox[w] # <<>>
    /\ handling' = [handling EXCEPT ![w] = Head(inbox[w])]
    /\ inbox' = [inbox EXCEPT ![w] = Tail(@)]
    /\ phase' = [phase EXCEPT ![w] = "validating"]
    /\ UNCHANGED <<sent, place, running, connected, cancelled, faults>>

Current(w) == sent[handling[w]]

\* handle_command is about to act on its command, with this verdict
Decides(w, verdict) == phase[w] = "validating" /\ Verdict(Current(w)) = verdict

Return(w) ==
    /\ phase' = [phase EXCEPT ![w] = "idle"]
    /\ handling' = [handling EXCEPT ![w] = 0]
    /\ running' = [running EXCEPT ![w] = 0]
    /\ UNCHANGED <<sent, inbox, connected, cancelled, faults>>

\* Faulty variant: the violation is counted and logged, and that is all.
RejectSilently(w) == Decides(w, "reject") /\ w \in connected /\ UNCHANGED place /\ Return(w)

\* basic_nack(requeue=False)
Reject(w) == Decides(w, "reject") /\ w \in connected /\ Settle(w, "dead") /\ Return(w)

\* json.loads of bytes it cannot decode, which is no JSONDecodeError, or raw.get
\* of a body without one: the exception leaves start_consuming, whose finally
\* closes the connection, and ends the process
RaiseOutOfHandler(w) ==
    /\ Decides(w, "raise")
    /\ Requeue(w)
    /\ Down(w)
    /\ UNCHANGED <<sent, cancelled, faults>>

\* Faulty variant: the cancel is acknowledged before its intent is recorded.
AckBeforeRecord(w) ==
    /\ Decides(w, "cancel")
    /\ w \in connected
    /\ Settle(w, "acked")
    /\ phase' = [phase EXCEPT ![w] = "recorded"]
    /\ UNCHANGED <<sent, inbox, handling, running, connected, cancelled, faults>>

\* mark_cancelled
RecordCancel(w) ==
    /\ Decides(w, "cancel")
    /\ cancelled' = cancelled \cup {Current(w).job}
    /\ phase' = [phase EXCEPT ![w] = "recorded"]
    /\ UNCHANGED <<sent, place, inbox, handling, running, connected, faults>>

AckCancel(w) ==
    /\ phase[w] = "recorded"
    /\ w \in connected
    /\ Settle(w, "acked")
    /\ Return(w)

\* the request is claimed and its pipeline runs on another thread
StartRun(w) ==
    /\ Decides(w, "run")
    /\ phase' = [phase EXCEPT ![w] = "running"]
    /\ running' = [running EXCEPT ![w] = handling[w]]
    /\ UNCHANGED <<sent, place, inbox, handling, connected, cancelled, faults>>

\* the rest of handle_command, to its ack or nack
FinishRun(w) ==
    /\ phase[w] = "running"
    /\ w \in connected
    /\ Settle(w, "done")
    /\ Return(w)

\* a pumping or a settling call finds the connection gone: the process ends
ConnectionGone(w) ==
    /\ phase[w] # "down" /\ w \notin connected
    /\ Down(w)
    /\ UNCHANGED <<sent, place, inbox, connected, cancelled, faults>>

LoseConnection(w) ==
    /\ faults < MaxFaults
    /\ w \in connected
    /\ Requeue(w)
    /\ faults' = faults + 1
    /\ UNCHANGED <<sent, handling, running, phase, cancelled>>

Crash(w) ==
    /\ faults < MaxFaults
    /\ phase[w] # "down"
    /\ Requeue(w)
    /\ Down(w)
    /\ faults' = faults + 1
    /\ UNCHANGED <<sent, cancelled>>

-----------------------------------------------------------------------------
Handle(w) ==
    \/ Dispatch(w)
    \/ Reject(w)
    \/ RaiseOutOfHandler(w)
    \/ RecordCancel(w)
    \/ AckCancel(w)
    \/ StartRun(w)
    \/ FinishRun(w)
    \/ ConnectionGone(w)

Next ==
    \/ \E c \in Command : Send(c)
    \/ \E w \in Worker :
        \/ StartConsuming(w)
        \/ \E i \in Index : Deliver(w, i)
        \/ Handle(w)
        \/ LoseConnection(w)
        \/ Crash(w)

Spec == Init /\ [][Next]_vars

(***************************************************************************)
(* The broker pushes while there is room, a process that ended is started  *)
(* again, and every step of a handler is taken: a run ends (RunEnds of     *)
(* JobAttemptsProperties), and an ack or nack does not block.  A command   *)
(* at the head of its queue that only a worker with a full window could    *)
(* take is delivered when that worker has settled.                         *)
(***************************************************************************)
FairSpec ==
    /\ Spec
    /\ WF_vars(\E w \in Worker, i \in Index : Deliver(w, i))
    /\ \A w \in Worker : WF_vars(StartConsuming(w)) /\ WF_vars(Handle(w))

-----------------------------------------------------------------------------
(***************************************************************************)
(* What the Spring core publishes by contract: a well-formed request under *)
(* the key of its job type, about its own input, or a well-formed cancel   *)
(* under the cancel key, whatever the job type of the job it cancels.      *)
(***************************************************************************)
IsContracted(c) ==
    /\ c.body = "valid"
    /\ c.producer = "m4trust-core-api"
    /\ \/ /\ <<c.eventType, c.jobType, c.routingKey>> \in
               { <<"requested", "DOCUMENT_EXTRACTION", DocKey>>,
                 <<"requested", "VIDEO_ANALYSIS", VideoKey>> }
          /\ c.subjectIsInput
       \/ c.eventType = "cancel" /\ c.routingKey = CancelKey

\* The i-th command has had an effect: a run, or a recorded intent.
ActedOn(i) ==
    \/ place[i] \in {"acked", "done"}
    \/ \E w \in Worker : handling[w] = i /\ phase[w] \in {"running", "recorded"}

(***************************************************************************)
(* Nothing but a contracted command starts a run or cancels a job: one     *)
(* that another producer sent, that came through the wrong queue or that   *)
(* is about another subject goes to the dead-letter queue, whatever is     *)
(* redelivered or in flight (validation.py: shape alone is not enough).    *)
(***************************************************************************)
OnlyContractedActs ==
    /\ \A i \in Index : ActedOn(i) => IsContracted(sent[i])
    /\ \A j \in cancelled :
        \E i \in Index : sent[i].job = j /\ sent[i].eventType = "cancel" /\ IsContracted(sent[i])

(***************************************************************************)
(* Intake dead-letters no contracted command: not a cancel that is held to *)
(* the routing keys of requests, which once lost every valid cancel        *)
(* (validation.py:152-157).                                                *)
(***************************************************************************)
ContractedIsNeverDead == \A i \in Index : place[i] = "dead" => ~IsContracted(sent[i])

(***************************************************************************)
(* A cancel the broker was told to forget is recorded: a crash or a lost   *)
(* connection between the two redelivers it instead (worker.py:107-113).   *)
(***************************************************************************)
AckedCancelIsRecorded ==
    \A i \in Index : place[i] = "acked" => sent[i].job \in cancelled

(***************************************************************************)
(* A worker never learns of the cancel of the job it runs from its own     *)
(* queue: an intent that appears during the run was recorded by another    *)
(* process, so a single worker finishes what it started, and a cancel it   *)
(* prefetched waits for the run (consumer.py:69-72, 117).                  *)
(***************************************************************************)
MidRunCancelIsAPeers ==
    [][ \A w \in Worker :
          running[w] # 0 /\ sent[running[w]].job \in cancelled' \ cancelled =>
              \E v \in Worker \ {w} : phase[v] = "validating" /\ phase'[v] = "recorded" ]_vars

(***************************************************************************)
(* Every command a queue took is settled in the end, although workers      *)
(* crash with commands prefetched and commands wait behind a run; unless   *)
(* a body that makes intake raise was sent, which ends every worker that   *)
(* meets it and so holds up the rest.                                      *)
(***************************************************************************)
EveryCommandSettles ==
    \A i \in 1 .. MaxSent :
        i \in Index /\ place[i] # "dropped" ~>
            \/ i \in Index /\ place[i] \in {"dead", "acked", "done"}
            \/ \E j \in Index : sent[j].body \in {"bytes", "value"}

(***************************************************************************)
(* A body that is no JSON object is dead-lettered like any other contract  *)
(* violation (validation.py:91-92: "command payload must be a JSON         *)
(* object").                                                               *)
(***************************************************************************)
NonObjectIsDeadLettered ==
    \A i \in 1 .. MaxSent :
        i \in Index /\ place[i] = "ready" /\ sent[i].body = "value" ~>
            i \in Index /\ place[i] = "dead"

-----------------------------------------------------------------------------
(***************************************************************************)
(* Why they hold: what a handler knows of its command when it settles it,  *)
(* what the end of a command says of its verdict, and where the recorded   *)
(* intents come from.                                                      *)
(***************************************************************************)
HandlersAreRight ==
    \A w \in Worker :
        /\ phase[w] \in {"validating", "recorded", "running"} => handling[w] # 0
        /\ phase[w] = "recorded" =>
              Verdict(Current(w)) = "cancel" /\ Current(w).job \in cancelled
        /\ phase[w] = "running" => Verdict(Current(w)) = "run"

PlacesAreRight ==
    \A i \in Index :
        /\ place[i] = "dead" => Verdict(sent[i]) = "reject"
        /\ place[i] = "acked" => Verdict(sent[i]) = "cancel" /\ sent[i].job \in cancelled
        /\ place[i] = "done" => Verdict(sent[i]) = "run"

IntentsAreRight ==
    \A j \in cancelled : \E i \in Index : sent[i].job = j /\ Verdict(sent[i]) = "cancel"

\* a run keeps its handler; beside the invariant, for the step properties
RunsAreRunning == \A w \in Worker : running[w] # 0 => phase[w] = "running"

IntakeInvariant == TypeOK /\ HandlersAreRight /\ PlacesAreRight /\ IntentsAreRight

=============================================================================
