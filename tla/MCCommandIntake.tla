-------------------------- MODULE MCCommandIntake --------------------------
(***************************************************************************)
(* An instance of CommandIntake for TLC: what the Spring core sends by     *)
(* contract, and what differs from it in one respect.                      *)
(***************************************************************************)
EXTENDS CommandIntake

CONSTANTS j1, j2    \* model values

AnObject(j, event, type, key) ==
    [ job |-> j, body |-> "valid", eventType |-> event, jobType |-> type,
      routingKey |-> key, producer |-> "m4trust-core-api", subjectIsInput |-> TRUE ]

Request(j) == AnObject(j, "requested", "DOCUMENT_EXTRACTION", DocKey)
Cancel(j) == AnObject(j, "cancel", "DOCUMENT_EXTRACTION", CancelKey)

Contracted ==
    { Request(j1), AnObject(j2, "requested", "VIDEO_ANALYSIS", VideoKey),
      Cancel(j1), AnObject(j2, "cancel", "VIDEO_ANALYSIS", CancelKey) }

OffContract ==
    UNION { { [Request(j1) EXCEPT !.body = b] : b \in {"bytes", "text", "value", "malformed"} },
            { [Request(j1) EXCEPT !.routingKey = k] : k \in {VideoKey, "other"} },
            { [Request(j2) EXCEPT !.producer = "other"], [Request(j2) EXCEPT !.subjectIsInput = FALSE] },
            { [Cancel(j2) EXCEPT !.producer = "other"], [Cancel(j2) EXCEPT !.routingKey = DocKey] } }

SomeCommands == Contracted \cup OffContract

WithNonObject == { Request(j1), [Request(j2) EXCEPT !.body = "value"] }

=============================================================================
