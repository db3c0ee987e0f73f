--------------------------- MODULE PipelineResults ---------------------------
(***************************************************************************)
(* What the two pipelines make of a downloaded source: the passes over it, *)
(* the analysis of a document (DocumentResult), the names kept from its    *)
(* provider (NameMasking), the parties merged from the answer (PartyMerge),*)
(* the legal bases of its rules (LegalBasis) and the analysis of a video   *)
(* or photo (VideoEvidence).                                               *)
(*                                                                         *)
(* The passes hand data on but share none while they work, so the data of  *)
(* each is a matter of its own, and a behaviour follows one pass, from any *)
(* of its inputs, while the others rest.                                   *)
(***************************************************************************)
EXTENDS DocumentResult, NameMasking, PartyMerge, LegalBasis, VideoEvidence

VARIABLE pass           \* the pass that is followed

Pass == {"document", "names", "parties", "legal", "video"}

passVars == <<documentVars, namesVars, mergeVars, legalVars, videoVars>>

\* the inputs of a pass, or the one input it rests on
Followed(p, inputs, rest) == IF pass = p THEN inputs ELSE {rest}

NoSource == [type |-> "PDF", locked |-> FALSE, layer |-> <<>>]

Init ==
    /\ pass \in Pass
    /\ DocumentStart(Followed("document", Sources, NoSource))
    /\ NamesStart(Followed("names", Texts, <<>>))
    /\ MergeStart(Followed("parties", MentionLists, <<>>))
    /\ LegalInit
    /\ VideoStart(Followed("video", {"video", "image"}, "image"),
                  Followed("video", Upto(Item, MaxExpected), <<>>))

FollowDocument ==
    /\ pass = "document" /\ DocumentNext
    /\ UNCHANGED <<pass, namesVars, mergeVars, legalVars, videoVars>>

FollowNames ==
    /\ pass = "names" /\ NamesNext
    /\ UNCHANGED <<pass, documentVars, mergeVars, legalVars, videoVars>>

FollowParties ==
    /\ pass = "parties" /\ MergeNext
    /\ UNCHANGED <<pass, documentVars, namesVars, legalVars, videoVars>>

FollowLegal ==
    /\ pass = "legal" /\ LegalNext
    /\ UNCHANGED <<pass, documentVars, namesVars, mergeVars, videoVars>>

FollowVideo ==
    /\ pass = "video" /\ VideoNext
    /\ UNCHANGED <<pass, documentVars, namesVars, mergeVars, legalVars>>

Next == FollowDocument \/ FollowNames \/ FollowParties \/ FollowLegal \/ FollowVideo

Spec == Init /\ [][Next]_<<pass, passVars>>

-----------------------------------------------------------------------------
(***************************************************************************)
(* Every pass works on what it was given and keeps within its limits: the  *)
(* sample limit of a video, the pages OCR was used for, the failures that  *)
(* end a run (frames.py:47-52, text_extraction.py:106-116).                *)
(***************************************************************************)
ResultsTypeOK ==
    /\ pass \in Pass
    /\ DocumentTypeOK
    /\ MergeTypeOK
    /\ VideoTypeOK

=============================================================================
