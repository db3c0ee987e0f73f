----------------------------- MODULE PartyMerge -----------------------------
(***************************************************************************)
(* The parties of a contract from the mentions the model extracted: one    *)
(* pass that merges the mentions with one role and one normalized name     *)
(* (_map_party, _dedupe_parties of document_extraction/mapping.py).        *)
(*                                                                         *)
(* A party is given by the mentions it is made of: the first, whose role   *)
(* and tax identifier it keeps, the one whose name it carries, and the     *)
(* pages they are on, in the order in which they were found.               *)
(***************************************************************************)
EXTENDS Naturals, Sequences, FiniteSets

CONSTANTS
    Role,           \* BUYER, SELLER, OTHER, UNKNOWN
    Name,           \* names as the model may spell them
    NoName,         \* a mention without one
    Normalized,     \* _normalize_name, which also knows the name "UNKNOWN"
    MentionConfidence,     \* clamped confidences, in steps
    Page,           \* page numbers
    MaxMentions     \* mentions of one document (a bound)

ASSUME MergeAssumption ==
    /\ NoName \notin Name
    /\ DOMAIN Normalized = Name \cup {"UNKNOWN"}
    /\ MentionConfidence \subseteq Nat
    /\ MaxMentions \in Nat

Mention ==
    [ role : Role, name : Name \cup {NoName}, confidence : MentionConfidence, page : Page ]

VARIABLES
    mentions,       \* the parties of the model's answer, in its order
    mentionAt,             \* the mention the pass looks at
    merged,         \* the party of each key met so far
    order,          \* the keys, in the order in which they were met
    parties,        \* the result
    warned,         \* DUPLICATE_PARTY_MERGED
    mergeDone

mergeVars == <<mentions, mentionAt, merged, order, parties, warned, mergeDone>>

MentionIndex == 1 .. Len(mentions)

LegalName(x) == IF x.name = NoName THEN "UNKNOWN" ELSE x.name

Key(x) == <<x.role, Normalized[LegalName(x)]>>

MentionLists == UNION {[1 .. n -> Mention] : n \in 0 .. MaxMentions}

MergeStart(lists) ==
    /\ mentions \in lists
    /\ mentionAt = 1
    /\ merged = <<>>
    /\ order = <<>>
    /\ parties = <<>>
    /\ warned = FALSE
    /\ mergeDone = FALSE

MergeInit == MergeStart(MentionLists)

KeyHere == Key(mentions[mentionAt])

AddParty ==
    /\ mentionAt \in MentionIndex
    /\ KeyHere \notin DOMAIN merged
    /\ merged' = [k \in DOMAIN merged \cup {KeyHere} |->
                    IF k = KeyHere
                    THEN [first |-> mentionAt, named |-> mentionAt, pages |-> <<mentions[mentionAt].page>>]
                    ELSE merged[k]]
    /\ order' = Append(order, KeyHere)
    /\ mentionAt' = mentionAt + 1
    /\ UNCHANGED <<mentions, parties, warned, mergeDone>>

IsBetterName(p) == mentions[mentionAt].confidence > mentions[p.named].confidence

PagesOf(p) == {p.pages[i] : i \in 1 .. Len(p.pages)}

\* Faulty variant: a duplicate's page is dropped with it.
KeepPages(p) == p.pages

AddPage(p) ==
    IF mentions[mentionAt].page \in PagesOf(p) THEN p.pages ELSE Append(p.pages, mentions[mentionAt].page)

MergeIntoParty ==
    /\ mentionAt \in MentionIndex
    /\ KeyHere \in DOMAIN merged
    /\ merged' = [merged EXCEPT
                    ![KeyHere] = [first |-> @.first,
                               named |-> IF IsBetterName(@) THEN mentionAt ELSE @.named,
                               pages |-> AddPage(@)]]
    /\ mentionAt' = mentionAt + 1
    /\ UNCHANGED <<mentions, order, parties, warned, mergeDone>>

Warns == Len(order) < Len(mentions)

\* the i-th party of the result is party-i
Finish ==
    /\ mentionAt = Len(mentions) + 1 /\ ~mergeDone
    /\ parties' = [i \in 1 .. Len(order) |-> merged[order[i]]]
    /\ warned' = Warns
    /\ mergeDone' = TRUE
    /\ UNCHANGED <<mentions, mentionAt, merged, order>>

MergeNext == AddParty \/ MergeIntoParty \/ Finish

MergeSpec == MergeInit /\ [][MergeNext]_mergeVars

-----------------------------------------------------------------------------
(***************************************************************************)
(* What the merge is to achieve, read off the mentions alone.              *)
(***************************************************************************)
SameParty(i, j) == Key(mentions[i]) = Key(mentions[j])

(***************************************************************************)
(* Every mention has exactly one party in the result: the one that starts  *)
(* with its first equal, carries the name of the most confident of its     *)
(* equals (the earliest of several) and lists the pages of all of them and *)
(* no other, each once.  No mention is lost with its page, and mentions    *)
(* that differ in role or normalized name stay apart; those of one role    *)
(* without a name become one party, UNKNOWN (mapping.py:76-91).            *)
(***************************************************************************)
PartyFor(p, i) ==
    /\ SameParty(p.first, i)
    /\ \A j \in MentionIndex : SameParty(j, i) =>
        /\ p.first <= j
        /\ mentions[j].confidence <= mentions[p.named].confidence
        /\ mentions[j].confidence = mentions[p.named].confidence => p.named <= j
    /\ SameParty(p.named, i)
    /\ PagesOf(p) = {mentions[j].page : j \in {l \in MentionIndex : SameParty(l, i)}}
    /\ \A a, b \in 1 .. Len(p.pages) : p.pages[a] = p.pages[b] => a = b

MergedRight ==
    mergeDone => \A i \in MentionIndex :
        /\ \E n \in 1 .. Len(parties) : PartyFor(parties[n], i)
        /\ \A n, l \in 1 .. Len(parties) :
              SameParty(parties[n].first, i) /\ SameParty(parties[l].first, i) => n = l

(***************************************************************************)
(* The parties are numbered in the order of their first mentions, so that  *)
(* party-1 is the first party of the document whatever was merged into it, *)
(* and every reference is one of a mention.                                *)
(***************************************************************************)
NumberedByFirstMention ==
    mergeDone => \A n \in 1 .. Len(parties) :
        /\ parties[n].first \in MentionIndex
        /\ \A l \in 1 .. n - 1 : parties[l].first < parties[n].first

(***************************************************************************)
(* The warning is raised exactly when two mentions were one party.         *)
(***************************************************************************)
WarnedIffMerged ==
    mergeDone => (warned <=> \E i, j \in MentionIndex : i # j /\ SameParty(i, j))

(***************************************************************************)
(* All of it: the parties are those of the mentions, in their order, and   *)
(* the warning says whether any were merged (mapping.py:73-119).           *)
(***************************************************************************)
PartiesAreRight == MergedRight /\ NumberedByFirstMention /\ WarnedIffMerged

-----------------------------------------------------------------------------
(***************************************************************************)
(* Why it holds: the same, of the mentions the pass has seen.              *)
(***************************************************************************)
Seen == 1 .. mentionAt - 1

MergeTypeOK ==
    /\ mentions \in Seq(Mention)
    /\ mentionAt \in 1 .. Len(mentions) + 1
    /\ merged \in [DOMAIN merged -> [first : Seen, named : Seen, pages : Seq(Page)]]
    /\ order \in Seq(DOMAIN merged)
    /\ warned \in BOOLEAN /\ mergeDone \in BOOLEAN

KeysAreSeen ==
    /\ \A i \in Seen : Key(mentions[i]) \in DOMAIN merged
    /\ \A k \in DOMAIN merged :
        /\ Key(mentions[merged[k].first]) = k
        /\ Key(mentions[merged[k].named]) = k
        /\ \A i \in Seen : Key(mentions[i]) = k => merged[k].first <= i

NamesAreBest ==
    \A i \in Seen :
        LET best == merged[Key(mentions[i])].named
        IN  /\ mentions[i].confidence <= mentions[best].confidence
            /\ mentions[i].confidence = mentions[best].confidence => best <= i

PagesAreSeen ==
    \A k \in DOMAIN merged :
        /\ PagesOf(merged[k]) = {mentions[i].page : i \in {j \in Seen : Key(mentions[j]) = k}}
        /\ \A a, b \in 1 .. Len(merged[k].pages) :
              merged[k].pages[a] = merged[k].pages[b] => a = b

OrderIsOfKeys ==
    /\ \A k \in DOMAIN merged : \E n \in 1 .. Len(order) : order[n] = k
    /\ \A n, l \in 1 .. Len(order) : n < l => merged[order[n]].first < merged[order[l]].first
    /\ Len(order) <= mentionAt - 1
    /\ Len(order) < mentionAt - 1 <=> \E i, j \in Seen : i # j /\ SameParty(i, j)

ResultIsOrder ==
    mergeDone =>
        /\ mentionAt = Len(mentions) + 1
        /\ parties = [n \in 1 .. Len(order) |-> merged[order[n]]]
        /\ warned <=> Warns

MergeInvariant ==
    /\ MergeTypeOK /\ KeysAreSeen /\ NamesAreBest /\ PagesAreSeen /\ OrderIsOfKeys /\ ResultIsOrder

=============================================================================
