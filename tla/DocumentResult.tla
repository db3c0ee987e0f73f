--------------------------- MODULE DocumentResult ---------------------------
(***************************************************************************)
(* From the model's answer to the completed event: each rule's value as    *)
(* one of a closed union (mapping.py), the warnings and the review flag    *)
(* the pipeline adds (pipeline.py) and the schema the event is held to     *)
(* before it may be published (validation.py).                             *)
(*                                                                         *)
(* An answer has the shape the provider enforces (llm.py, strict schema):  *)
(* a field may be null or out of range, never of another type.             *)
(***************************************************************************)
EXTENDS DocumentText, Integers, FiniteSets

CONSTANTS
    Null,
    Numbers,        \* what an integer field may hold, around each bound
    Rules,          \* rules the model may report, a subset of AnyRule
    Reasons,        \* review reasons of the model, "" among them
    MaxContent,     \* pages of one document and rules of its answer together (a bound)
    MaxReasons      \* review reasons of one answer (a bound)

\* "short" and "long" are words of less and of more than three letters, "sign" is no word
Currencies == {Null, "short", "sign", "iso", "long"}

\* all but "wrong" are read by date.fromisoformat
Dates == {Null, "wrong", "basic", "extended"}

AnyRule ==
    [valueType : {"MONEY"}, amountMinor : Numbers \cup {Null}, currency : Currencies]
      \cup [valueType : {"PERCENTAGE"}, basisPoints : Numbers \cup {Null}]
      \cup [valueType : {"DURATION_DAYS"}, durationDays : Numbers \cup {Null}]
      \cup [valueType : {"DATE"}, dateValue : Dates]
      \cup [valueType : {"BOOLEAN"}, booleanValue : BOOLEAN \cup {Null}]
      \cup [valueType : {"QUANTITY"}, quantityValue : Numbers \cup {Null}, quantityUnit : {Null, "unit"}]
      \cup [valueType : {"TEXT"}, textValue : {Null, "text"}]

Languages == {Null, "letter", "code"}

Answers(most) ==
    [ rules : UNION {[1 .. n -> Rules] : n \in 0 .. most},
      review : BOOLEAN,
      reasons : UNION {[1 .. n -> Reasons] : n \in 0 .. MaxReasons},
      language : Languages ]

\* Null is none of the values it stands for the absence of
ASSUME ResultAssumption ==
    /\ Numbers \subseteq Int /\ Rules \subseteq AnyRule
    /\ {MaxContent, MaxReasons} \subseteq Nat
    /\ Null \notin Numbers
    /\ Null \notin {"short", "sign", "iso", "long", "wrong", "basic", "extended", "letter", "code"}
    /\ Null \notin [rules : Seq(Rules), review : BOOLEAN, reasons : Seq(Reasons), language : Languages]
    /\ Null \notin [review : BOOLEAN, reasons : Seq(Reasons \cup {"some content was not analyzed"})]

VARIABLES
    answer,         \* the model's answer, Null before there is one
    values,         \* structuredValue of the rules mapped so far
    warnings,       \* the codes, in order
    summary,        \* requiresManualReview and reviewReasons
    language        \* detectedLanguage

resultVars == <<answer, values, warnings, summary, language>>
documentVars == <<textVars, resultVars>>

DocumentStart(sources) ==
    /\ TextStart(sources)
    /\ answer = Null /\ values = <<>> /\ warnings = <<>>
    /\ summary = Null /\ language = Null

DocumentInit == DocumentStart(Sources)

ExtractText == TextNext /\ UNCHANGED resultVars

Answer ==
    /\ phase = "asking"
    /\ answer' \in Answers(MaxContent - Len(pages))
    /\ language' = IF answer'.language = Null THEN "code" ELSE answer'.language
    /\ phase' = "mapping"
    /\ UNCHANGED <<source, pages, ocrPages, method, masked, cut, failure, values, warnings, summary>>

NoAnswer ==
    /\ phase = "asking"
    /\ \E code \in {"MODEL_PROVIDER_UNAVAILABLE", "MODEL_PROVIDER_TIMEOUT"} : Fail(code)
    /\ UNCHANGED resultVars

\* Faulty variant: a currency is taken as it is written.
AsWritten(currency) == currency

\* upper()[:3]
ThreeLetters(currency) == IF currency = "long" THEN "iso" ELSE currency

\* Faulty variant: a percentage is taken as it comes.
AnyPercentage(basisPoints) == TRUE

BasisPoints == 0 .. 10000

IsPercentage(basisPoints) == basisPoints \in BasisPoints

IsUsable(rule) ==
    /\ rule.valueType = "MONEY" => rule.amountMinor # Null /\ rule.currency # Null
    /\ rule.valueType = "PERCENTAGE" => rule.basisPoints # Null /\ IsPercentage(rule.basisPoints)
    /\ rule.valueType = "DURATION_DAYS" => rule.durationDays # Null /\ rule.durationDays >= 0
    /\ rule.valueType = "DATE" => rule.dateValue \notin {Null, "wrong"}
    /\ rule.valueType = "BOOLEAN" => rule.booleanValue # Null
    /\ rule.valueType = "QUANTITY" => rule.quantityValue # Null /\ rule.quantityUnit # Null
    /\ rule.valueType = "TEXT" => rule.textValue # Null

UsableValue(rule) ==
    CASE rule.valueType = "MONEY" ->
            [type |-> "MONEY", amountMinor |-> rule.amountMinor, currency |-> ThreeLetters(rule.currency)]
      [] rule.valueType = "PERCENTAGE" -> [type |-> "PERCENTAGE", basisPoints |-> rule.basisPoints]
      [] rule.valueType = "DURATION_DAYS" -> [type |-> "DURATION", valueSeconds |-> rule.durationDays * 86400]
      [] rule.valueType = "DATE" -> [type |-> "DATE", value |-> rule.dateValue]
      [] rule.valueType = "BOOLEAN" -> [type |-> "BOOLEAN", value |-> rule.booleanValue]
      [] rule.valueType = "QUANTITY" ->
            [type |-> "QUANTITY", value |-> rule.quantityValue, unit |-> rule.quantityUnit]
      [] rule.valueType = "TEXT" -> [type |-> "TEXT", value |-> rule.textValue]

\* the description or the title in place of the value
Fallback == [type |-> "TEXT", value |-> "description"]

MapRule ==
    /\ phase = "mapping" /\ Len(values) < Len(answer.rules)
    /\ LET rule == answer.rules[Len(values) + 1]
       IN  IF IsUsable(rule)
           THEN /\ values' = Append(values, UsableValue(rule))
                /\ UNCHANGED warnings
           ELSE /\ values' = Append(values, Fallback)
                /\ warnings' = Append(warnings, "STRUCTURED_VALUE_FALLBACK")
    /\ UNCHANGED <<textVars, answer, summary, language>>

OcrWarnings == IF ocrPages = {} THEN <<>> ELSE <<"OCR_USED">>

CutWarnings == IF cut THEN <<"PARTIAL_TEXT_EXTRACTION">> ELSE <<>>

CutReason == "some content was not analyzed"

Summary ==
    IF cut THEN [review |-> TRUE, reasons |-> <<CutReason>> \o answer.reasons]
    ELSE [review |-> answer.review, reasons |-> answer.reasons]

Summarize ==
    /\ phase = "mapping" /\ Len(values) = Len(answer.rules)
    /\ warnings' = warnings \o OcrWarnings \o CutWarnings
    /\ summary' = Summary
    /\ phase' = "validating"
    /\ UNCHANGED <<source, pages, ocrPages, method, masked, cut, failure, answer, values, language>>

\* the oneOf of structuredValue
ValueFits(v) ==
    /\ v.type = "MONEY" => v.currency = "iso"
    /\ v.type = "PERCENTAGE" => v.basisPoints \in BasisPoints
    /\ v.type = "DURATION" => v.valueSeconds >= 0
    /\ v.type = "DATE" => v.value = "extended"

\* result-payload-1.0.0, as far as an answer can miss it
EventFits ==
    /\ \A i \in 1 .. Len(values) : ValueFits(values[i])
    /\ \A i \in 1 .. Len(summary.reasons) : summary.reasons[i] # ""
    /\ language = "code"
    /\ Len(pages) >= 1

\* a ContractViolation is no PipelineFailure: the worker dead-letters the request
ValidateOutgoing ==
    /\ phase = "validating"
    /\ phase' = IF EventFits THEN "completed" ELSE "violation"
    /\ UNCHANGED <<source, pages, ocrPages, method, masked, cut, failure, resultVars>>

DocumentNext == ExtractText \/ Answer \/ NoAnswer \/ MapRule \/ Summarize \/ ValidateOutgoing

DocumentSpec == DocumentInit /\ [][DocumentNext]_documentVars

-----------------------------------------------------------------------------
Mapped == phase \in {"validating", "completed", "violation"}

Warned(code) == \E i \in 1 .. Len(warnings) : warnings[i] = code

DocumentTypeOK ==
    /\ TextTypeOK
    /\ answer # Null =>
          /\ Len(pages) + Len(answer.rules) <= MaxContent
          /\ \A i \in 1 .. Len(answer.rules) : answer.rules[i] \in Rules
    /\ Len(values) <= MaxContent
    /\ language \in Languages
    /\ Mapped <=> summary # Null

(***************************************************************************)
(* A document of which the model was not shown every page whole is warned  *)
(* about and sent to manual review for that reason first, and none of the  *)
(* model's own reasons is lost; a document it was shown whole is left as   *)
(* the model judged it.  The limit is met by the text as it is sent, whose *)
(* length the masks have changed (pipeline.py:147-176, llm.py:163).        *)
(***************************************************************************)
CutIsReviewed ==
    Mapped =>
        IF \A i \in 1 .. Len(masked) : IsShown(i)
        THEN /\ ~Warned("PARTIAL_TEXT_EXTRACTION")
             /\ summary = [review |-> answer.review, reasons |-> answer.reasons]
        ELSE /\ Warned("PARTIAL_TEXT_EXTRACTION")
             /\ summary.review
             /\ Head(summary.reasons) = CutReason
             /\ Tail(summary.reasons) = answer.reasons

(***************************************************************************)
(* Text that came from OCR is reported as such: there is a warning and the *)
(* method says OCR or HYBRID exactly if some page's text is OCR's, and OCR *)
(* only if no page's is the digital layer's (text_extraction.py:118-142).  *)
(***************************************************************************)
HasOcrText(i) == source.type = "PDF" /\ source.layer[i] < MinDigital /\ pages[i] > 0

OcrIsReported ==
    Mapped =>
        LET read == {i \in 1 .. Len(pages) : HasOcrText(i)}
        IN  /\ Warned("OCR_USED") <=> read # {}
            /\ method \in {"OCR", "HYBRID"} <=> read # {}
            /\ method = "OCR" => \A i \in 1 .. Len(pages) : source.layer[i] < MinDigital

(***************************************************************************)
(* The value of every rule is of the type the model declared, with the     *)
(* data it extracted, or it is text, and there are as many warnings as     *)
(* rules that are text in the place of something else: no value is lost in *)
(* silence, and the warnings of one rule hide no other's                   *)
(* (mapping.py:131-172).                                                   *)
(***************************************************************************)
Places(sequence, x) == {i \in 1 .. Len(sequence) : sequence[i] = x}

TypeOf(rule) == IF rule.valueType = "DURATION_DAYS" THEN "DURATION" ELSE rule.valueType

HasDeclaredType(v, rule) ==
    /\ v.type = TypeOf(rule)
    /\ v.type = "PERCENTAGE" => v.basisPoints \in BasisPoints

FallbacksAreWarned ==
    Mapped =>
        /\ Len(values) = Len(answer.rules)
        /\ \A i \in 1 .. Len(values) :
              values[i] # Fallback => HasDeclaredType(values[i], answer.rules[i])
        /\ Cardinality(Places(warnings, "STRUCTURED_VALUE_FALLBACK"))
             = Cardinality(Places(values, Fallback))

(***************************************************************************)
(* A finished analysis is thrown away by the outgoing check only for one   *)
(* of four answers: a currency without three letters, a date that          *)
(* fromisoformat reads and the schema does not, a blank review reason or a *)
(* language of one letter.  Every other bound of the schema is kept by the *)
(* mapping, whatever the model answers (mapping.py:131-172,                *)
(* pipeline.py:155-176, validation.py:51-71).                              *)
(***************************************************************************)
IsMisfit(rule) ==
    \/ rule.valueType = "MONEY" /\ rule.amountMinor # Null /\ rule.currency \in {"short", "sign"}
    \/ rule.valueType = "DATE" /\ rule.dateValue = "basic"

OnlyMisfitsAreLost ==
    phase \in {"completed", "violation"} =>
        (phase = "violation" <=>
            \/ \E i \in 1 .. Len(answer.rules) : IsMisfit(answer.rules[i])
            \/ \E i \in 1 .. Len(answer.reasons) : answer.reasons[i] = ""
            \/ answer.language = "letter")

-----------------------------------------------------------------------------
(***************************************************************************)
(* Why OCR is reported: the pages counted are those that have text of OCR, *)
(* page by page, and the warning comes with the summary.                   *)
(***************************************************************************)
Codes == {"STRUCTURED_VALUE_FALLBACK", "OCR_USED", "PARTIAL_TEXT_EXTRACTION"}

OcrInvariant ==
    /\ source \in Sources
    /\ pages \in Seq(Length)
    /\ warnings \in Seq(Codes)
    /\ ocrPages = {i \in 1 .. Len(pages) : HasOcrText(i)}
    /\ (phase \in {"extracted", "asking", "mapping"} \/ Mapped) => method = Method /\ ~AllBlank
    /\ Warned("OCR_USED") <=> Mapped /\ ocrPages # {}

(***************************************************************************)
(* Why the rest holds: what has been done with the answer so far, in the   *)
(* order of the phases.                                                    *)
(***************************************************************************)
Answered == phase = "mapping" \/ Mapped

Phases == {"open", "reading", "extracted", "asking", "mapping",
           "validating", "completed", "violation", "failed", "error"}

DocumentTyped ==
    /\ DocumentTypeOK
    /\ phase \in Phases
    /\ Len(pages) <= Len(source.layer)
    /\ IF Answered
       THEN answer \in [rules : Seq(Rules), review : BOOLEAN, reasons : Seq(Reasons), language : Languages]
       ELSE answer = Null

TextIsMeasured ==
    /\ masked \in Seq(Nat)
    /\ cut <=> Total(masked) > Limit

ValueOf(rule) == IF IsUsable(rule) THEN UsableValue(rule) ELSE Fallback

RuleValues == {ValueOf(rule) : rule \in Rules}

ValuesAreOfRules ==
    /\ values \in Seq(RuleValues)
    /\ IF Answered THEN Len(values) <= Len(answer.rules) ELSE values = <<>> /\ warnings = <<>>
    /\ Mapped => Len(values) = Len(answer.rules)
    /\ \A i \in 1 .. Len(values) : values[i] = ValueOf(answer.rules[i])

WarningsAreOfFallbacks ==
    /\ warnings \in Seq(Codes)
    /\ Cardinality(Places(warnings, "STRUCTURED_VALUE_FALLBACK"))
         = Cardinality(Places(values, Fallback))
    /\ Warned("PARTIAL_TEXT_EXTRACTION") <=> Mapped /\ cut

SummaryIsOfAnswer ==
    /\ summary = IF Mapped THEN Summary ELSE Null
    /\ Answered => language = IF answer.language = Null THEN "code" ELSE answer.language
    /\ phase \in {"completed", "violation"} => (phase = "completed" <=> EventFits)

AnswerInvariant ==
    /\ DocumentTyped
    /\ TextIsMeasured
    /\ ValuesAreOfRules
    /\ WarningsAreOfFallbacks
    /\ SummaryIsOfAnswer

=============================================================================
