-------------------------- MODULE MCPipelineResults --------------------------
(***************************************************************************)
(* An instance of PipelineResults: the inputs of each pass.                *)
(***************************************************************************)
EXTENDS PipelineResults

(***************************************************************************)
(* Documents: every declared type with a value, without one, and at or     *)
(* beyond each bound; the data a type does not look at is left alone.      *)
(***************************************************************************)
Around == {0 - 1, 0, 10000, 10001}

DeclaredRules ==
    { r \in AnyRule :
        /\ r.valueType = "MONEY" => r.amountMinor \in {0, Null}
        /\ r.valueType = "DURATION_DAYS" => r.durationDays \in {0 - 1, 0, Null}
        /\ r.valueType = "BOOLEAN" => r.booleanValue \in {TRUE, Null}
        /\ r.valueType = "QUANTITY" => r.quantityValue \in {0, Null} }

-----------------------------------------------------------------------------
(* Two people, one of them also in capitals. *)

CONSTANTS ali, Ali, veli

OneInCapitals == [w \in {ali, Ali, veli} |-> IF w = Ali THEN ali ELSE w]

-----------------------------------------------------------------------------
(* Mentions of two companies, one of them spelled in two ways. *)

CONSTANTS acme, acmeDot, none

TwoSpellings == [n \in {acme, acmeDot, "UNKNOWN"} |-> IF n = "UNKNOWN" THEN n ELSE acme]

-----------------------------------------------------------------------------
(***************************************************************************)
(* Four articles, one of them not accepted, in two builds that order them  *)
(* differently; queries that are near to one or two of them, or to no law. *)
(***************************************************************************)
MCArticle == {"tbk-1", "tbk-2", "kvkk-3", "heading"}
MCQuery == {"payment", "data", "delivery", "weather"}

MCScore ==
    [q \in MCQuery |->
        [a \in MCArticle |->
            CASE q = "payment" /\ a = "tbk-1"                  -> 3
              [] q = "data" /\ a = "kvkk-3"                    -> 3
              [] q = "delivery" /\ a \in {"tbk-1", "tbk-2"}    -> 2
              [] q = "data" /\ a = "heading"                   -> 2
              [] q = "weather" /\ a = "heading"                -> 3
              [] OTHER                                         -> 1]]

MCCorpora == << <<"tbk-1", "heading", "tbk-2">>,
                <<"kvkk-3", "tbk-2", "heading", "tbk-1">> >>

=============================================================================
