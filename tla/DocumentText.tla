---------------------------- MODULE DocumentText ----------------------------
(***************************************************************************)
(* From a downloaded contract to the text the model is shown: the text     *)
(* layer of each page or its OCR (text_extraction.py), the masks that      *)
(* change its length (pii_masking.py, name_masking.py) and the limit of    *)
(* the prompt (pipeline.py, llm.py).                                       *)
(*                                                                         *)
(* A text is its length, in units of which MinDigital, Limit and Marker    *)
(* are multiples; checkpoints between the steps are those of JobAttempts.  *)
(***************************************************************************)
EXTENDS Naturals, Sequences

CONSTANTS
    MaxPages,       \* pages of one PDF (a bound)
    MaxLength,      \* length of one page, before and after masking (a bound)
    MinDigital,     \* _MIN_DIGITAL_CHARS
    Marker,         \* what "[PAGE n]" and the lines around it add to a page
    Limit           \* openai_max_source_chars

ASSUME TextAssumption ==
    /\ MaxPages \in Nat \ {0} /\ MaxLength \in Nat
    /\ MinDigital \in Nat \ {0} /\ Marker \in Nat /\ Limit \in Nat

Length == 0 .. MaxLength

VARIABLES
    source,         \* the file: its type, whether it is encrypted, its text layer
    pages,          \* lengths of the pages extracted so far
    ocrPages,       \* the pages whose text is OCR's
    method,         \* textExtractionMethod
    masked,         \* lengths of the pages after both masks
    cut,            \* truncation_warning is not None
    phase,
    failure         \* the error code of a PipelineFailure

textVars == <<source, pages, ocrPages, method, masked, cut, phase, failure>>

Layers == UNION {[1 .. n -> Length] : n \in 0 .. MaxPages}

Sources ==
    [type : {"PDF"}, locked : BOOLEAN, layer : Layers]
      \cup [type : {"DOCX"}, locked : {FALSE}, layer : [1 .. 1 -> Length]]

TextStart(sources) ==
    /\ source \in sources
    /\ pages = <<>> /\ ocrPages = {} /\ method = "UNKNOWN" /\ masked = <<>>
    /\ cut = FALSE /\ phase = "open" /\ failure = "none"

Fail(code) ==
    /\ failure' = code
    /\ phase' = "failed"
    /\ UNCHANGED <<source, pages, ocrPages, method, masked, cut>>

Unreadable ==
    /\ phase = "open"
    /\ \/ source.locked /\ Fail("ENCRYPTED_DOCUMENT_UNSUPPORTED")
       \/ ~source.locked /\ source.layer = <<>> /\ Fail("CORRUPTED_FILE")
       \/ Fail("CORRUPTED_FILE")

PageHere == Len(pages) + 1

NeedsOcr == source.type = "PDF" /\ source.layer[PageHere] < MinDigital

\* pypdf on a page's text or fitz.open, neither within a try: no PipelineFailure
RaiseOutOfRun ==
    /\ \/ phase = "open" /\ ~source.locked /\ source.layer # <<>>
       \/ phase = "reading" /\ PageHere <= Len(source.layer) /\ NeedsOcr
    /\ phase' = "error"
    /\ UNCHANGED <<source, pages, ocrPages, method, masked, cut, failure>>

Open ==
    /\ phase = "open" /\ ~source.locked /\ source.layer # <<>>
    /\ phase' = "reading"
    /\ UNCHANGED <<source, pages, ocrPages, method, masked, cut, failure>>

ReadPage ==
    /\ phase = "reading" /\ PageHere <= Len(source.layer) /\ ~NeedsOcr
    /\ pages' = Append(pages, source.layer[PageHere])
    /\ UNCHANGED <<source, ocrPages, method, masked, cut, phase, failure>>

\* Faulty variant: a page counts as read by OCR though OCR found nothing.
EveryOcrPage(length) == ocrPages \cup {PageHere}

WithOcrPage(length) == IF length > 0 THEN ocrPages \cup {PageHere} ELSE ocrPages

OcrPage ==
    /\ phase = "reading" /\ PageHere <= Len(source.layer) /\ NeedsOcr
    /\ \/ \E length \in Length :
            /\ pages' = Append(pages, length)
            /\ ocrPages' = WithOcrPage(length)
            /\ UNCHANGED <<source, method, masked, cut, phase, failure>>
       \/ Fail("MODEL_PROVIDER_UNAVAILABLE")

AllBlank == \A i \in 1 .. Len(pages) : pages[i] = 0

Method ==
    CASE source.type = "DOCX" -> "DOCX"
      [] source.type = "PDF" /\ ocrPages = {} -> "DIGITAL_PDF"
      [] source.type = "PDF" /\ ocrPages = 1 .. Len(pages) -> "OCR"
      [] OTHER -> "HYBRID"

Extracted ==
    /\ phase = "reading" /\ Len(pages) = Len(source.layer)
    /\ \/ AllBlank /\ Fail("CORRUPTED_FILE")
       \/ /\ ~AllBlank
          /\ method' = Method
          /\ phase' = "extracted"
          /\ UNCHANGED <<source, pages, ocrPages, masked, cut, failure>>

\* a placeholder or a token is longer or shorter than what it replaces, never empty
Masks == {m \in [1 .. Len(pages) -> Length] : \A i \in 1 .. Len(pages) : m[i] = 0 <=> pages[i] = 0}

\* length of the first n pages of full_text()
Joined(lengths) ==
    LET Through[n \in 0 .. Len(lengths)] == IF n = 0 THEN 0 ELSE Through[n - 1] + Marker + lengths[n]
    IN  Through

Total(lengths) == Joined(lengths)[Len(lengths)]

\* Faulty variant: the limit is held against the text before it is masked.
IsCutUnmasked(before, after) == Total(before) > Limit

IsCut(before, after) == Total(after) > Limit

MaskAndMeasure ==
    /\ phase = "extracted"
    /\ masked' \in Masks
    /\ cut' = IsCut(pages, masked')
    /\ phase' = "asking"
    /\ UNCHANGED <<source, pages, ocrPages, method, failure>>

TextNext == Unreadable \/ RaiseOutOfRun \/ Open \/ ReadPage \/ OcrPage \/ Extracted \/ MaskAndMeasure

-----------------------------------------------------------------------------
(***************************************************************************)
(* A page the model is shown whole: its end is within the first Limit      *)
(* characters of the masked text, which is all that is sent (llm.py:163).  *)
(***************************************************************************)
IsShown(i) == Joined(masked)[i] <= Limit

TextTypeOK ==
    /\ source \in Sources
    /\ pages \in Layers /\ masked \in Layers
    /\ ocrPages \subseteq 1 .. Len(pages)
    /\ method \in {"UNKNOWN", "DIGITAL_PDF", "DOCX", "OCR", "HYBRID"}
    /\ cut \in BOOLEAN
    /\ failure = "none" <=> phase # "failed"

=============================================================================
