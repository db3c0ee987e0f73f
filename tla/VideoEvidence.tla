--------------------------- MODULE VideoEvidence ----------------------------
(***************************************************************************)
(* From a downloaded video or photo to the advisory result: the frames     *)
(* that are sampled (frames.py), the two models asked about each           *)
(* (pipeline.py, roboflow_client.py) and what their predictions add up to  *)
(* (aggregation.py).                                                       *)
(*                                                                         *)
(* Confidences are clamped and in steps.  Frame rates and the sampling     *)
(* interval are fractions over one denominator, Scale, which their         *)
(* products keep: what a float loses of a product is left out, what it     *)
(* loses of a time before it is truncated is not.  Checkpoints between the *)
(* steps are those of JobAttempts.                                         *)
(***************************************************************************)
EXTENDS Integers, FiniteSets, SequencesExt

CONSTANTS
    Label,              \* classes of the logistics model
    NoClass,            \* a prediction without one
    Confidence,         \* clamped confidences
    MinConfidence,      \* roboflow_min_confidence
    Scale,              \* rates and the interval are in units of 1/Scale
    ReportedFps,        \* values of CAP_PROP_FPS, 0 when the container does not say
    SampleSeconds,      \* video_frame_sample_interval_seconds
    MaxSampled,         \* video_max_sampled_frames
    MaxFrames,          \* frames of one video (a bound)
    MaxPredictions,     \* predictions of both models on the frames of a video (a bound)
    MaxExpected,        \* expectedObjects of one request (a bound)
    MaxCount            \* expectedCount (a bound)

ASSUME VideoAssumption ==
    /\ NoClass \notin Label /\ "UNKNOWN" \notin Label
    /\ Confidence \subseteq Nat /\ MinConfidence \in Nat
    /\ Scale \in Nat \ {0} /\ ReportedFps \subseteq Int /\ SampleSeconds \in Int
    /\ MaxSampled \in Nat \ {0}
    /\ {MaxFrames, MaxPredictions, MaxExpected, MaxCount} \subseteq Nat

Upto(S, n) == UNION {[1 .. l -> S] : l \in 0 .. n}

Prediction == [class : Label \cup {NoClass}, confidence : Confidence]
Item == [label : Label, expectedCount : 0 .. MaxCount]

VARIABLES
    type,           \* "video" or "image"
    expected,       \* expectedObjects of the request
    fps,            \* frames per second
    index,          \* frame_index
    frames,         \* indices of the frames sampled
    unencoded,      \* the frames that were due and could not be encoded (a history)
    objects,        \* logistics_per_frame
    damages,        \* damage_per_frame, their confidences
    observations,
    seen,           \* seen_labels
    scanned,        \* the frames the loops of aggregate_results have passed
    worst,          \* best_damage: its confidence and its frame
    reasons,        \* review_reasons
    videoPhase,
    videoFailure

videoVars == <<type, expected, fps, index, frames, unencoded, objects, damages,
          observations, seen, scanned, worst, reasons, videoPhase, videoFailure>>

NoDamage == [confidence |-> 0, frame |-> 0]

DefaultFps == 25 * Scale

Rates == {IF reported <= 0 THEN DefaultFps ELSE reported : reported \in ReportedFps}

\* a photo is one frame and has no rate
VideoStart(types, lists) ==
    /\ type \in types
    /\ expected \in lists
    /\ fps \in IF type = "video" THEN Rates ELSE {DefaultFps}
    /\ index = 0 /\ frames = <<>> /\ unencoded = {} /\ objects = <<>> /\ damages = <<>>
    /\ observations = <<>> /\ seen = {} /\ scanned = 0 /\ worst = NoDamage
    /\ reasons = <<>> /\ videoPhase = "sampling" /\ videoFailure = "none"

VideoInit == VideoStart({"video", "image"}, Upto(Item, MaxExpected))

VideoFail(code) ==
    /\ videoFailure' = code
    /\ videoPhase' = "failed"
    /\ UNCHANGED <<type, expected, fps, index, frames, unencoded, objects,
                   damages, observations, seen, scanned, worst, reasons>>

\* Faulty variant: int() for round().
RoundedDown(x, d) == x \div d

\* round(x / d): to the nearest whole number, to the even one of two that are as near
Round(x, d) ==
    LET low == x \div d
        rest == x % d
    IN  IF 2 * rest < d \/ (2 * rest = d /\ low % 2 = 0) THEN low ELSE low + 1

Interval ==
    LET rounded == Round(fps * SampleSeconds, Scale * Scale)
    IN  IF rounded < 1 THEN 1 ELSE rounded

\* what int((n / fps) * 1000) may be: a quotient short of a whole number of
\* milliseconds by its last bit is truncated to the millisecond before
TimesMs(n) ==
    LET exact == (1000 * Scale * n) \div fps
    IN  IF n > 0 /\ (1000 * Scale * n) % fps = 0 THEN {exact - 1, exact} ELSE {exact}

-----------------------------------------------------------------------------
(* sample_frames, sample_image *)

\* Faulty variant: one frame more than the limit.
MayReadOneMore == Len(frames) <= MaxSampled

MayRead == Len(frames) < MaxSampled

IsDue(n) == n % Interval = 0

\* a frame that is due and cannot be encoded is passed over
ReadFrame ==
    /\ videoPhase = "sampling" /\ type = "video" /\ MayRead /\ index < MaxFrames
    /\ index' = index + 1
    /\ \/ ~IsDue(index) /\ UNCHANGED <<frames, unencoded>>
       \/ IsDue(index) /\ frames' = Append(frames, index) /\ UNCHANGED unencoded
       \/ IsDue(index) /\ unencoded' = unencoded \cup {index} /\ UNCHANGED frames
    /\ UNCHANGED <<type, expected, fps, objects, damages, observations, seen,
                   scanned, worst, reasons, videoPhase, videoFailure>>

\* the stream ends anywhere, or the limit is reached
EndSampling ==
    /\ videoPhase = "sampling" /\ type = "video" /\ frames # <<>>
    /\ videoPhase' = "detecting"
    /\ UNCHANGED <<type, expected, fps, index, frames, unencoded, objects,
                   damages, observations, seen, scanned, worst, reasons,
                   videoFailure>>

SampleImage ==
    /\ videoPhase = "sampling" /\ type = "image"
    /\ frames' = <<0>>
    /\ videoPhase' = "detecting"
    /\ UNCHANGED <<type, expected, fps, index, unencoded, objects, damages,
                   observations, seen, scanned, worst, reasons, videoFailure>>

\* unreadable, or not one frame
NoFrames == videoPhase = "sampling" /\ frames = <<>> /\ VideoFail("CORRUPTED_FILE")

-----------------------------------------------------------------------------
(* the loop of run *)

Left == MaxPredictions - Len(FlattenSeq(objects)) - Len(FlattenSeq(damages))

Detect ==
    /\ videoPhase = "detecting" /\ Len(objects) < Len(frames)
    /\ \E found \in Upto(Prediction, Left) :
        \E damaged \in Upto(Confidence, Left - Len(found)) :
            /\ objects' = Append(objects, found)
            /\ damages' = Append(damages, damaged)
    /\ UNCHANGED <<type, expected, fps, index, frames, unencoded, observations,
                   seen, scanned, worst, reasons, videoPhase, videoFailure>>

ProviderFails ==
    /\ videoPhase = "detecting" /\ Len(objects) < Len(frames)
    /\ \E code \in {"MODEL_PROVIDER_UNAVAILABLE", "MODEL_PROVIDER_TIMEOUT"} : VideoFail(code)

Detected ==
    /\ videoPhase = "detecting" /\ Len(objects) = Len(frames)
    /\ videoPhase' = "expected"
    /\ UNCHANGED <<type, expected, fps, index, frames, unencoded, objects,
                   damages, observations, seen, scanned, worst, reasons,
                   videoFailure>>

-----------------------------------------------------------------------------
(* aggregate_results *)

Frame == 1 .. Len(frames)
Confident(p) == p.confidence >= MinConfidence
LabelOf(p) == IF p.class = NoClass THEN "UNKNOWN" ELSE p.class

Counted(i, label) ==
    {j \in 1 .. Len(objects[i]) : Confident(objects[i][j]) /\ LabelOf(objects[i][j]) = label}

Count(i, label) == Cardinality(Counted(i, label))

\* the confidences of all predictions of a class, those below the threshold included
OfClass(i, label) == {j \in 1 .. Len(objects[i]) : objects[i][j].class = label}

BestFrame(label) ==
    CHOOSE i \in Frame : \A j \in Frame :
        \/ Count(j, label) < Count(i, label)
        \/ Count(j, label) = Count(i, label) /\ i <= j

\* Faulty variant: as many as expected is not enough.
IsAtMost(count, expectedCount) == count <= expectedCount

IsShort(count, expectedCount) == count < expectedCount

CountExpected ==
    /\ videoPhase = "expected" /\ Len(observations) < Len(expected)
    /\ LET item == expected[Len(observations) + 1]
           best == BestFrame(item.label)
           count == Count(best, item.label)
       IN  /\ observations' = Append(observations,
                [type |-> "OBJECT_COUNT", label |-> item.label, value |-> count,
                 from |-> OfClass(best, item.label), frame |-> best])
           /\ seen' = seen \cup {item.label}
           /\ reasons' = IF IsShort(count, item.expectedCount)
                         THEN Append(reasons, item.label) ELSE reasons
    /\ UNCHANGED <<type, expected, fps, index, frames, unencoded, objects,
                   damages, scanned, worst, videoPhase, videoFailure>>

ExpectedCounted ==
    /\ videoPhase = "expected" /\ Len(observations) = Len(expected)
    /\ videoPhase' = "present"
    /\ UNCHANGED <<type, expected, fps, index, frames, unencoded, objects,
                   damages, observations, seen, scanned, worst, reasons,
                   videoFailure>>

\* the classes of a frame, in the order in which their first confident prediction comes
FirstOf(i) ==
    {j \in 1 .. Len(objects[i]) :
        /\ Confident(objects[i][j])
        /\ \A l \in 1 .. j - 1 :
              Confident(objects[i][l]) => LabelOf(objects[i][l]) # LabelOf(objects[i][j])}

IsNew(i, j) == LabelOf(objects[i][j]) \notin seen

Presence(i, j) ==
    LET label == LabelOf(objects[i][j])
    IN  [type |-> "OBJECT_PRESENCE", label |-> label, value |-> 1,
         from |-> OfClass(i, label), frame |-> i]

News(i) ==
    FlattenSeq([j \in 1 .. Len(objects[i]) |->
        IF j \in FirstOf(i) /\ IsNew(i, j) THEN <<Presence(i, j)>> ELSE <<>>])

\* Faulty variant: a class is reported in every frame that shows it.
SeenBefore(i) == seen

SeenNow(i) == seen \cup {LabelOf(objects[i][j]) : j \in FirstOf(i)}

ReportPresence ==
    /\ videoPhase = "present" /\ scanned < Len(frames)
    /\ LET i == scanned + 1
       IN  /\ observations' = observations \o News(i)
           /\ seen' = SeenNow(i)
           /\ scanned' = i
    /\ UNCHANGED <<type, expected, fps, index, frames, unencoded, objects,
                   damages, worst, reasons, videoPhase, videoFailure>>

PresenceReported ==
    /\ videoPhase = "present" /\ scanned = Len(frames)
    /\ videoPhase' = "damage"
    /\ scanned' = 0
    /\ UNCHANGED <<type, expected, fps, index, frames, unencoded, objects,
                   damages, observations, seen, worst, reasons, videoFailure>>

\* Faulty variant: the last of several equally confident damages stands.
IsNoBetter(confidence, than) == than = NoDamage \/ confidence >= than.confidence

IsWorse(confidence, than) == than = NoDamage \/ confidence > than.confidence

\* best_damage after each prediction of frame i
Scan(i) ==
    LET Best[j \in 0 .. Len(damages[i])] ==
            IF j = 0 THEN worst
            ELSE IF damages[i][j] >= MinConfidence /\ IsWorse(damages[i][j], Best[j - 1])
                 THEN [confidence |-> damages[i][j], frame |-> i]
                 ELSE Best[j - 1]
    IN  Best

FindDamage ==
    /\ videoPhase = "damage" /\ scanned < Len(frames)
    /\ scanned' = scanned + 1
    /\ worst' = Scan(scanned')[Len(damages[scanned'])]
    /\ UNCHANGED <<type, expected, fps, index, frames, unencoded, objects,
                   damages, observations, seen, reasons, videoPhase,
                   videoFailure>>

\* the anomaly is worst, the outcome REVIEW_SUGGESTED if there are reasons
Conclude ==
    /\ videoPhase = "damage" /\ scanned = Len(frames)
    /\ reasons' = IF worst = NoDamage THEN reasons ELSE Append(reasons, "DAMAGED_PARCEL_DETECTED")
    /\ videoPhase' = "completed"
    /\ UNCHANGED <<type, expected, fps, index, frames, unencoded, objects,
                   damages, observations, seen, scanned, worst, videoFailure>>

VideoNext ==
    \/ ReadFrame \/ EndSampling \/ SampleImage \/ NoFrames
    \/ Detect \/ ProviderFails \/ Detected
    \/ CountExpected \/ ExpectedCounted \/ ReportPresence \/ PresenceReported
    \/ FindDamage \/ Conclude

VideoSpec == VideoInit /\ [][VideoNext]_videoVars

-----------------------------------------------------------------------------
Completed == videoPhase = "completed"

ReviewSuggested == reasons # <<>>

VideoTypeOK ==
    /\ type \in {"video", "image"} /\ expected \in Upto(Item, MaxExpected)
    /\ index \in 0 .. MaxFrames
    /\ Len(frames) <= MaxSampled /\ \A i \in Frame : frames[i] \in 0 .. MaxFrames
    /\ Len(objects) = Len(damages) /\ Len(objects) <= Len(frames)
    /\ scanned \in 0 .. Len(frames) /\ worst.frame \in 0 .. Len(frames)
    /\ videoFailure = "none" <=> videoPhase # "failed"

(***************************************************************************)
(* The samples are the frames due that could be encoded, from the first    *)
(* frame of the video on.  The times of any two are apart by the interval  *)
(* that was configured, less the half frame by which the interval is       *)
(* rounded and the millisecond by which a time is truncated; and if no     *)
(* frame between two could not be encoded, by no more than that much over  *)
(* the interval, unless they are neighbours, which no rounding brings      *)
(* closer (frames.py:43-61).  All in units of 1/(2 * fps * Scale) ms.      *)
(***************************************************************************)
Milliseconds(t) == 2 * fps * Scale * t

ConfiguredInterval == 2000 * fps * SampleSeconds

HalfAFrame == 1000 * Scale * Scale

AreFarEnough(t, u) == Milliseconds(u - t + 1) >= ConfiguredInterval - HalfAFrame

AreNearEnough(t, u) == Milliseconds(u - t - 1) <= ConfiguredInterval + HalfAFrame

NoneLostBetween(m, n) == \A k \in unencoded : k <= m \/ n <= k

SamplesAreSpaced ==
    /\ type = "video" =>
          {frames[i] : i \in Frame} = {n \in 0 .. index - 1 : n % Interval = 0} \ unencoded
    /\ \A i, j \in Frame : i < j =>
          /\ frames[i] < frames[j]
          /\ \A t \in TimesMs(frames[i]), u \in TimesMs(frames[j]) :
                /\ AreFarEnough(t, u)
                /\ j = i + 1 /\ NoneLostBetween(frames[i], frames[j]) =>
                      AreNearEnough(t, u) \/ frames[j] = frames[i] + 1

(***************************************************************************)
(* Review is suggested exactly if some expected object is not seen in its  *)
(* number in any one frame, or some frame shows damage of the confidence   *)
(* the threshold asks: neither the choice of the frame an object is        *)
(* counted in nor that of the damage reported can hide a reason            *)
(* (aggregation.py:65-93, 118-142).                                        *)
(***************************************************************************)
IsMissing(item) == \A i \in Frame : Count(i, item.label) < item.expectedCount

HasDamage(i) == \E j \in 1 .. Len(damages[i]) : damages[i][j] >= MinConfidence

ReviewIffEvidence ==
    Completed =>
        (ReviewSuggested <=>
            \/ \E k \in 1 .. Len(expected) : IsMissing(expected[k])
            \/ \E i \in Frame : HasDamage(i))

(***************************************************************************)
(* Every expected object is reported as often as the frame that shows most *)
(* of it does.  Every other class a frame shows with confidence is         *)
(* reported as present, once, at the first frame that shows it, with the   *)
(* confidence of a prediction above the threshold; and nothing is reported *)
(* present that no frame shows (aggregation.py:58-115).                    *)
(***************************************************************************)
Present(label) == {n \in 1 .. Len(observations) :
    observations[n].type = "OBJECT_PRESENCE" /\ observations[n].label = label}

IsExpected(label) == \E k \in 1 .. Len(expected) : expected[k].label = label

IsCountOf(observation, item) ==
    /\ observation.type = "OBJECT_COUNT" /\ observation.label = item.label
    /\ observation.frame \in Frame
    /\ observation.value = Count(observation.frame, item.label)
    /\ \A i \in Frame : Count(i, item.label) <= observation.value

CountsAreOfExpected(n) ==
    n <= Len(observations) /\ \A k \in 1 .. n : IsCountOf(observations[k], expected[k])

PresenceIsFirst(label) ==
    LET shown == {i \in Frame : Count(i, label) > 0}
    IN  /\ Cardinality(Present(label)) = IF shown = {} \/ IsExpected(label) THEN 0 ELSE 1
        /\ \A n \in Present(label) :
              /\ \A i \in shown : observations[n].frame <= i
              /\ label # "UNKNOWN" =>
                    \E j \in observations[n].from : Confident(objects[observations[n].frame][j])

EveryClassIsReported ==
    Completed =>
        /\ CountsAreOfExpected(Len(expected))
        /\ \A label \in Label \cup {"UNKNOWN"} : PresenceIsFirst(label)

(***************************************************************************)
(* The one damage reported is one that its frame shows, at least as        *)
(* confident as the threshold and as every other, and of the first frame   *)
(* that shows one as confident (aggregation.py:119-126).                   *)
(***************************************************************************)
WorstIsShown(n) ==
    /\ worst.frame \in 1 .. n
    /\ \E j \in 1 .. Len(damages[worst.frame]) : damages[worst.frame][j] = worst.confidence
    /\ worst.confidence >= MinConfidence

WorstOutdoes(n) ==
    \A i \in 1 .. n : \A j \in 1 .. Len(damages[i]) :
        damages[i][j] >= MinConfidence =>
            /\ damages[i][j] <= worst.confidence
            /\ damages[i][j] = worst.confidence => worst.frame <= i

DamageIsWorst ==
    Completed =>
        /\ worst # NoDamage => WorstIsShown(Len(frames))
        /\ WorstOutdoes(Len(frames))

-----------------------------------------------------------------------------
(***************************************************************************)
(* Why it holds: what each loop has found so far, of the frames, requests  *)
(* and predictions it has passed.                                          *)
(***************************************************************************)
Observation ==
    [type : {"OBJECT_COUNT", "OBJECT_PRESENCE"}, label : Label \cup {"UNKNOWN"},
     value : Nat, from : SUBSET Nat, frame : Nat]

EvidenceTypeOK ==
    /\ VideoTypeOK
    /\ videoPhase \in {"sampling", "detecting", "expected", "present", "damage", "completed", "failed"}
    /\ fps \in Nat \ {0} /\ frames \in Seq(Nat) /\ unencoded \subseteq Nat
    /\ objects \in Seq(Seq(Prediction)) /\ damages \in Seq(Seq(Confidence))
    /\ observations \in Seq(Observation) /\ reasons \in Seq(Label \cup {"DAMAGED_PARCEL_DETECTED"})
    /\ worst \in [confidence : Nat, frame : Nat]

\* no loop has begun before its phase, and each has passed everything after it
PhasesInOrder ==
    /\ videoPhase \in {"detecting", "expected", "present", "damage", "completed"} => frames # <<>>
    /\ videoPhase \in {"sampling", "detecting"} => observations = <<>> /\ seen = {} /\ reasons = <<>>
    /\ videoPhase \in {"sampling", "detecting", "expected"} => scanned = 0
    /\ videoPhase \in {"sampling", "detecting", "expected", "present"} => worst = NoDamage
    /\ videoPhase = "sampling" => objects = <<>>
    /\ videoPhase \in {"expected", "present", "damage", "completed"} => Len(objects) = Len(frames)
    /\ videoPhase = "expected" => Len(observations) <= Len(expected)
    /\ Completed => scanned = Len(frames)

SamplesSoFar ==
    /\ \A i \in Frame :
          /\ frames[i] % Interval = 0 /\ frames[i] <= index
          /\ videoPhase = "sampling" => frames[i] < index
    /\ \A i, j \in Frame : i < j => frames[i] < frames[j]
    /\ unencoded \subseteq 0 .. index - 1
    /\ type = "video" =>
          {frames[i] : i \in Frame} = {n \in 0 .. index - 1 : n % Interval = 0} \ unencoded
    /\ type = "image" => Len(frames) <= 1

\* how many of the expected objects have been counted
CountedSoFar ==
    IF videoPhase \in {"present", "damage", "completed"} THEN Len(expected) ELSE Len(observations)

MissingSoFar ==
    videoPhase \in {"sampling", "detecting", "expected", "present", "damage"} =>
        (reasons # <<>> <=> \E k \in 1 .. CountedSoFar : IsMissing(expected[k]))

CountsSoFar == videoPhase # "failed" => CountsAreOfExpected(CountedSoFar)

\* how many of the frames have been searched for other classes
SearchedSoFar == IF videoPhase \in {"damage", "completed"} THEN Len(frames) ELSE scanned

Shows(i, label) ==
    \E j \in 1 .. Len(objects[i]) : Confident(objects[i][j]) /\ LabelOf(objects[i][j]) = label

ReportedSoFar ==
    videoPhase # "failed" =>
        /\ seen = {expected[k].label : k \in 1 .. CountedSoFar}
                    \cup {label \in Label \cup {"UNKNOWN"} : \E i \in 1 .. SearchedSoFar : Shows(i, label)}
        /\ \A label \in Label \cup {"UNKNOWN"} :
              IF IsExpected(label) \/ \A i \in 1 .. SearchedSoFar : ~Shows(i, label)
              THEN Present(label) = {}
              ELSE \E n \in 1 .. Len(observations) :
                      /\ Present(label) = {n}
                      /\ observations[n].frame \in 1 .. SearchedSoFar
                      /\ Shows(observations[n].frame, label)
                      /\ observations[n].from = OfClass(observations[n].frame, label)
                      /\ \A i \in 1 .. SearchedSoFar : Shows(i, label) => observations[n].frame <= i

DamageSoFar ==
    videoPhase \in {"damage", "completed"} =>
        /\ worst = NoDamage <=> \A i \in 1 .. scanned : ~HasDamage(i)
        /\ worst.frame <= scanned
        /\ worst # NoDamage => WorstIsShown(scanned)
        /\ WorstOutdoes(scanned)

VideoInvariant ==
    /\ EvidenceTypeOK
    /\ PhasesInOrder
    /\ SamplesSoFar
    /\ MissingSoFar
    /\ CountsSoFar
    /\ ReportedSoFar
    /\ DamageSoFar
    /\ ReviewIffEvidence

=============================================================================
