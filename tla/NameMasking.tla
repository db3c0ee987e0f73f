---------------------------- MODULE NameMasking -----------------------------
(***************************************************************************)
(* Person names kept from the model provider: each name found in the text  *)
(* is replaced by a token of its person, the model answers in tokens, and  *)
(* the names are put back into what it answers (name_masking.py).          *)
(*                                                                         *)
(* A text is a sequence of words, blanks and tokens; a person is a name    *)
(* in lower case with its blanks made one.                                 *)
(***************************************************************************)
EXTENDS Naturals, FiniteSets, SequencesExt

CONSTANTS
    Words,          \* words as the text may spell them
    Blank,
    Lower,          \* lower(), a function on Words
    MaxText,        \* words and blanks of one text (a bound)
    MaxEntities,    \* entities of one text (a bound)
    MaxAnswer       \* length of an answer that is no copy of the text (a bound)

ASSUME MaskingAssumption ==
    /\ Blank \notin Words
    /\ Lower \in [Words -> Words]
    /\ \A w \in Words : Lower[Lower[w]] = Lower[w]
    /\ {MaxText, MaxEntities, MaxAnswer} \subseteq Nat

Token(n) == [token |-> n]

\* a text may hold the characters of a token: such a text is not modelled
ASSUME TokenAssumption == \A n \in 1 .. MaxEntities : Token(n) \notin Words \cup {Blank}

VARIABLES
    text,
    entities,       \* what the NER model found, in the order of the text
    entityAt,             \* the entity the loop looks at
    people,         \* token_by_normalized_name: the person of each token, by its number
    names,          \* name_map: the name each token gives back
    replacements,   \* spans still to be replaced, with their tokens
    maskedText,
    tokenAnswer,         \* a text of the model's answer
    restored,
    maskPhase

namesVars == <<text, entities, entityAt, people, names, replacements, maskedText, tokenAnswer, restored, maskPhase>>

Texts == UNION {[1 .. n -> Words \cup {Blank}] : n \in 0 .. MaxText}

NamesStart(texts) ==
    /\ text \in texts
    /\ entities = <<>> /\ entityAt = 1 /\ people = <<>> /\ names = <<>>
    /\ replacements = {} /\ maskedText = text /\ tokenAnswer = <<>> /\ restored = <<>>
    /\ maskPhase = "finding"

NamesInit == NamesStart(Texts)

\* disjoint spans in the order of the text, each a confident person or not
Entity == [start : 1 .. Len(text), end : 1 .. Len(text), person : BOOLEAN]

Found ==
    {found \in UNION {[1 .. n -> Entity] : n \in 1 .. MaxEntities} :
        /\ \A i \in 1 .. Len(found) : found[i].start <= found[i].end
        /\ \A i, j \in 1 .. Len(found) : i < j => found[i].end < found[j].start}

IsBlank(words) == \A i \in 1 .. Len(words) : words[i] = Blank

\* a failing model leaves the text as it is, as does a text without a word
FindNoOne ==
    /\ maskPhase = "finding"
    /\ maskPhase' = "asking"
    /\ UNCHANGED <<text, entities, entityAt, people, names, replacements, maskedText, tokenAnswer, restored>>

FindPeople ==
    /\ maskPhase = "finding" /\ ~IsBlank(text)
    /\ entities' \in Found
    /\ maskPhase' = "naming"
    /\ UNCHANGED <<text, entityAt, people, names, replacements, maskedText, tokenAnswer, restored>>

Strip(words) ==
    SubSeq(words, SelectInSeq(words, LAMBDA w : w # Blank),
                  SelectLastInSeq(words, LAMBDA w : w # Blank))

\* one after the other, what each element of a sequence stands for
Each(words, by) == FlattenSeq([i \in 1 .. Len(words) |-> by[words[i]]])

InLower == [w \in Words \cup {Blank} |-> IF w = Blank THEN <<>> ELSE <<Lower[w]>>]

Person(words) == Each(words, InLower)

EntityHere == entities[entityAt]
Span == SubSeq(text, EntityHere.start, EntityHere.end)
Naming == maskPhase = "naming" /\ entityAt <= Len(entities)
Named == maskPhase = "naming" /\ entityAt > Len(entities)

SkipEntity ==
    /\ Naming
    /\ ~EntityHere.person \/ IsBlank(Span)
    /\ entityAt' = entityAt + 1
    /\ UNCHANGED <<text, entities, people, names, replacements, maskedText, tokenAnswer, restored, maskPhase>>

IsPerson(n) == people[n] = Person(Span)

Replacement(n) == [start |-> EntityHere.start, end |-> EntityHere.end, token |-> n]

KnownPerson ==
    /\ Naming /\ EntityHere.person /\ ~IsBlank(Span)
    /\ \E n \in 1 .. Len(people) :
        /\ IsPerson(n)
        /\ replacements' = replacements \cup {Replacement(n)}
    /\ entityAt' = entityAt + 1
    /\ UNCHANGED <<text, entities, people, names, maskedText, tokenAnswer, restored, maskPhase>>

NewPerson ==
    /\ Naming /\ EntityHere.person /\ ~IsBlank(Span)
    /\ \A n \in 1 .. Len(people) : ~IsPerson(n)
    /\ people' = Append(people, Person(Span))
    /\ names' = Append(names, Strip(Span))
    /\ replacements' = replacements \cup {Replacement(Len(people) + 1)}
    /\ entityAt' = entityAt + 1
    /\ UNCHANGED <<text, entities, maskedText, tokenAnswer, restored, maskPhase>>

\* Faulty variant: the spans are replaced from the first to the last.
FirstLeft(r) == \A q \in replacements : q.start >= r.start

LastLeft(r) == \A q \in replacements : q.start <= r.start

\* slices, which end where the text does
Before(p) == [i \in 1 .. Min({p - 1, Len(maskedText)}) |-> maskedText[i]]
After(p) == [i \in 1 .. Len(maskedText) - p |-> maskedText[p + i]]

Replace ==
    /\ Named
    /\ \E r \in replacements :
        /\ LastLeft(r)
        /\ maskedText' = Before(r.start) \o <<Token(r.token)>> \o After(r.end)
        /\ replacements' = replacements \ {r}
    /\ UNCHANGED <<text, entities, entityAt, people, names, tokenAnswer, restored, maskPhase>>

Masked ==
    /\ Named /\ replacements = {}
    /\ maskPhase' = "asking"
    /\ UNCHANGED <<text, entities, entityAt, people, names, replacements, maskedText, tokenAnswer, restored>>

\* the model copies what it was shown, or some of its words and tokens
TokenAnswers ==
    {maskedText} \cup UNION {[1 .. n -> ToSet(maskedText)] : n \in 0 .. MaxAnswer}

AnswerInTokens ==
    /\ maskPhase = "asking"
    /\ tokenAnswer' \in TokenAnswers
    /\ maskPhase' = "answered"
    /\ UNCHANGED <<text, entities, entityAt, people, names, replacements, maskedText, restored>>

\* Faulty variant: a person's name is put back in the place of its first token only.
IsFirstToken(i) == tokenAnswer[i] \in {Token(n) : n \in 1 .. Len(names)} /\ \A j \in 1 .. i - 1 : tokenAnswer[j] # tokenAnswer[i]

IsToken(i) == tokenAnswer[i] \in {Token(n) : n \in 1 .. Len(names)}

Restore ==
    /\ maskPhase = "answered"
    /\ restored' = FlattenSeq([i \in 1 .. Len(tokenAnswer) |->
                        IF IsToken(i) THEN names[tokenAnswer[i].token] ELSE <<tokenAnswer[i]>>])
    /\ maskPhase' = "restored"
    /\ UNCHANGED <<text, entities, entityAt, people, names, replacements, maskedText, tokenAnswer>>

NamesNext ==
    \/ FindNoOne \/ FindPeople \/ SkipEntity \/ KnownPerson \/ NewPerson
    \/ Replace \/ Masked \/ AnswerInTokens \/ Restore

NamesSpec == NamesInit /\ [][NamesNext]_namesVars

-----------------------------------------------------------------------------
People == {i \in 1 .. Len(entities) :
    entities[i].person /\ ~IsBlank(SubSeq(text, entities[i].start, entities[i].end))}

PersonAt(i) == Person(SubSeq(text, entities[i].start, entities[i].end))

IsIn(p, i) == entities[i].start <= p /\ p <= entities[i].end

\* the text in which only the people of a set have been replaced
Shown(done) ==
    FlattenSeq([p \in 1 .. Len(text) |->
        IF \E i \in done : entities[i].start = p THEN <<"token">>
        ELSE IF \E i \in done : IsIn(p, i) THEN <<>>
        ELSE <<text[p]>>])

Sent ==
    [p \in 1 .. Len(maskedText) |->
        IF maskedText[p] \in {Token(n) : n \in 1 .. Len(people)} THEN "token" ELSE maskedText[p]]

IsSent == maskPhase \in {"asking", "answered", "restored"}

(***************************************************************************)
(* What is sent to the provider is the text with each name found replaced  *)
(* by a token at its place, and nothing else changed: replacing one name   *)
(* does not move another out of the span that is replaced next, so no part *)
(* of a name that was found is sent (name_masking.py:106-109).             *)
(***************************************************************************)
NamesAreReplaced == IsSent => Sent = Shown(People)

(***************************************************************************)
(* A person has one token, however often and in whatever capitals the name *)
(* is found, and a token has one person; the name it gives back is one of  *)
(* that person's (name_masking.py:90-101).                                 *)
(***************************************************************************)
TokenIsThePerson ==
    /\ Len(names) = Len(people)
    /\ \A n, m \in 1 .. Len(names) : n # m => Person(names[n]) # Person(names[m])
    /\ \A r \in replacements :
          Person(names[r.token]) = Person(SubSeq(text, r.start, r.end))
    /\ maskPhase = "asking" =>
          \A i \in People : \E n \in 1 .. Len(people) : Person(names[n]) = PersonAt(i)

(***************************************************************************)
(* Of a text the model copies, everybody is back in their place: it reads  *)
(* as the original but for the spelling of a name, which is that of the    *)
(* first mention (name_masking.py:112-129).  And no token is left in an    *)
(* answer that took it whole from the text.                                *)
(***************************************************************************)
CopyReadsAsBefore ==
    maskPhase = "restored" =>
        /\ tokenAnswer = maskedText => Person(restored) = Person(text)
        /\ ToSet(restored) \subseteq Words \cup {Blank}

(***************************************************************************)
(* Both: what goes out as a token comes back as its person                 *)
(* (name_masking.py:90-129).                                               *)
(***************************************************************************)
NamesComeBack == TokenIsThePerson /\ CopyReadsAsBefore

-----------------------------------------------------------------------------
(***************************************************************************)
(* The invariant: the spans still to be replaced are those of people the   *)
(* loop has passed, all before those already replaced, so the text is what *)
(* it was up to the end of each of them; and it reads as it did when each  *)
(* token is read as its person (name_masking.py:90-129).                   *)
(***************************************************************************)
Symbols(tokens) == Words \cup {Blank} \cup {Token(n) : n \in 1 .. tokens}

NamesTyped ==
    /\ maskPhase \in {"finding", "naming"} \/ IsSent
    /\ text \in Seq(Words \cup {Blank})
    /\ entities = <<>> \/ entities \in Found
    /\ entityAt \in 1 .. Len(entities) + 1
    /\ people \in Seq(Seq(Words)) /\ names \in Seq(Seq(Words \cup {Blank}))
    /\ Len(names) = Len(people) /\ Len(people) < entityAt
    /\ maskedText \in Seq(Symbols(Len(people)))
    /\ maskPhase = "finding" => entities = <<>>

PeopleAreNamed ==
    /\ \A n \in 1 .. Len(people) : Person(names[n]) = people[n]
    /\ \A n, m \in 1 .. Len(people) : n # m => people[n] # people[m]
    /\ \A i \in People : i < entityAt => \E n \in 1 .. Len(people) : people[n] = PersonAt(i)

IsOf(r, i) ==
    /\ i < entityAt
    /\ r = [start |-> entities[i].start, end |-> entities[i].end, token |-> r.token]
    /\ r.token \in 1 .. Len(people) /\ people[r.token] = PersonAt(i)

Replaced == {i \in People : i < entityAt /\ \A r \in replacements : r.start # entities[i].start}

SpansAreOfPeople ==
    /\ \A r \in replacements : \E i \in People : IsOf(r, i)
    /\ \A r \in replacements : \A i \in Replaced : r.start < entities[i].start
    /\ \A r \in replacements : \A p \in 1 .. r.end : p <= Len(maskedText) /\ maskedText[p] = text[p]
    /\ maskPhase = "finding" \/ entityAt <= Len(entities) => Replaced = {} /\ maskedText = text
    /\ IsSent => replacements = {} /\ entityAt > Len(entities)

InPeople == [x \in Symbols(Len(people)) |-> IF x \in Words \cup {Blank} THEN InLower[x] ELSE people[x.token]]

TextIsMasked ==
    /\ Sent = Shown(Replaced)
    /\ Each(maskedText, InPeople) = Person(text)

InNames == [x \in Symbols(Len(people)) |-> IF x \in Words \cup {Blank} THEN <<x>> ELSE names[x.token]]

AnswerIsOfText ==
    /\ maskPhase \in {"answered", "restored"} => tokenAnswer \in Seq(ToSet(maskedText))
    /\ maskPhase = "restored" => restored = Each(tokenAnswer, InNames)

NamesInvariant == NamesTyped /\ PeopleAreNamed /\ SpansAreOfPeople /\ TextIsMasked /\ AnswerIsOfText

=============================================================================
