---------------------------- MODULE ResultProofs ----------------------------
(***************************************************************************)
(* What passes of the document pipeline promise, for inputs of any size:   *)
(* the merge of parties, the legal bases, the reading of the pages and the *)
(* mapping of the model's answer, each by an invariant of its own loop,    *)
(* and last that a pass among the others is the pass alone.                *)
(***************************************************************************)
EXTENDS PipelineResults, NameMaskingProofs, TLAPS

-----------------------------------------------------------------------------
(***************************************************************************)
(* Parties.  The loop invariant says of the mentions seen so far what      *)
(* MergedRight says of all of them.  Each step extends it by one mention:  *)
(* AddParty by one that equals none before it, MergeIntoParty by one that  *)
(* has a party.                                                            *)
(***************************************************************************)
LEMMA MentionsAreTyped ==
    ASSUME NEW x \in Mention
    PROVE  x.confidence \in Nat /\ x.page \in Page
<1>1. x.confidence \in MentionConfidence /\ x.page \in Page
  BY DEF Mention
<1> QED BY <1>1, MergeAssumption

LEMMA InitIsMerged == MergeInit => MergeInvariant
<1> SUFFICES ASSUME MergeInit PROVE MergeInvariant
  OBVIOUS
<1>1. mentions \in Seq(Mention) /\ Len(mentions) \in Nat
  BY MergeAssumption DEF MergeInit, MergeStart, MentionLists
<1>2. Seen = {} /\ DOMAIN merged = {} /\ order = <<>> /\ Len(order) = 0
  BY DEF MergeInit, MergeStart, Seen
<1>3. MergeTypeOK
  <2>1. merged \in [DOMAIN merged -> [first : Seen, named : Seen, pages : Seq(Page)]]
    BY <1>2 DEF MergeInit, MergeStart, MentionLists
  <2>2. order \in Seq(DOMAIN merged)
    BY <1>2
  <2>3. mentionAt = 1 /\ warned = FALSE /\ mergeDone = FALSE
    BY DEF MergeInit, MergeStart, MentionLists
  <2>4. mentionAt \in 1 .. Len(mentions) + 1
    BY <1>1, <2>3
  <2> QED BY <1>1, <2>1, <2>2, <2>3, <2>4 DEF MergeTypeOK
<1>4. KeysAreSeen /\ NamesAreBest /\ PagesAreSeen
  BY <1>2 DEF KeysAreSeen, NamesAreBest, PagesAreSeen
<1>5. OrderIsOfKeys /\ ResultIsOrder
  BY <1>2 DEF MergeInit, MergeStart, OrderIsOfKeys, ResultIsOrder
<1> QED BY <1>3, <1>4, <1>5 DEF MergeInvariant

-----------------------------------------------------------------------------
(***************************************************************************)
(* A mention that equals none before it starts a party of its own.         *)
(***************************************************************************)
LEMMA AddPartyIsRight == MergeInvariant /\ AddParty => MergeInvariant'
<1> SUFFICES ASSUME MergeInvariant, AddParty PROVE MergeInvariant'
  OBVIOUS
<1> USE DEF MergeInvariant
<1> DEFINE new == [first |-> mentionAt, named |-> mentionAt, pages |-> <<mentions[mentionAt].page>>]
<1>1. /\ mentionAt \in 1 .. Len(mentions) /\ Len(mentions) \in Nat /\ mentions[mentionAt] \in Mention
      /\ mentions' = mentions /\ mentionAt' = mentionAt + 1 /\ KeyHere \notin DOMAIN merged
      /\ KeyHere = Key(mentions[mentionAt])
  BY DEF AddParty, MergeTypeOK, MentionIndex, KeyHere
<1>2. /\ Seen' = Seen \cup {mentionAt} /\ mentionAt \notin Seen /\ Seen \subseteq Nat
      /\ \A i \in Seen : i < mentionAt /\ i \in Nat
  BY <1>1 DEF Seen
<1>3. /\ DOMAIN merged' = DOMAIN merged \cup {KeyHere}
      /\ merged'[KeyHere] = new
      /\ \A k \in DOMAIN merged : merged'[k] = merged[k]
  BY <1>1 DEF AddParty
<1>4. new \in [first : Seen', named : Seen', pages : Seq(Page)]
      /\ mentions[mentionAt].page \in Page
  BY <1>1, <1>2 DEF Mention
<1>5. /\ order \in Seq(DOMAIN merged) /\ Len(order) \in Nat
      /\ order' = Append(order, KeyHere) /\ Len(order') = Len(order) + 1
      /\ \A n \in 1 .. Len(order) : order'[n] = order[n] /\ order[n] \in DOMAIN merged
      /\ order'[Len(order) + 1] = KeyHere
  BY DEF AddParty, MergeTypeOK
<1>6. MergeTypeOK'
  <2>1. merged' \in [DOMAIN merged' -> [first : Seen', named : Seen', pages : Seq(Page)]]
    <3>1. \A k \in DOMAIN merged' :
              merged'[k] \in [first : Seen', named : Seen', pages : Seq(Page)]
      <4>1. \A k \in DOMAIN merged :
                merged[k] \in [first : Seen', named : Seen', pages : Seq(Page)]
        BY <1>2 DEF MergeTypeOK
      <4> QED BY <1>3, <1>4, <4>1
    <3>2. merged' = [k \in DOMAIN merged' |-> merged'[k]]
      BY <1>3 DEF AddParty
    <3> QED BY <3>1, <3>2
  <2>2. order' \in Seq(DOMAIN merged')
    BY <1>3, <1>5
  <2> QED BY <1>1, <2>1, <2>2 DEF AddParty, MergeTypeOK
<1>7. KeysAreSeen'
  <2>1. \A i \in Seen' : Key(mentions[i]) \in DOMAIN merged'
    BY <1>1, <1>2, <1>3 DEF KeysAreSeen
  <2>2. ASSUME NEW k \in DOMAIN merged'
        PROVE /\ Key(mentions[merged'[k].first]) = k
              /\ Key(mentions[merged'[k].named]) = k
              /\ \A i \in Seen' : Key(mentions[i]) = k => merged'[k].first <= i
    <3>1. CASE k = KeyHere
      <4>1. merged'[k].first = mentionAt /\ merged'[k].named = mentionAt
        BY <3>1, <1>3
      <4>2. \A i \in Seen : Key(mentions[i]) # k
        BY <3>1, <1>1 DEF KeysAreSeen
      <4> QED BY <3>1, <4>1, <4>2, <1>1, <1>2
    <3>2. CASE k \in DOMAIN merged
      <4>1. merged'[k] = merged[k] /\ k # KeyHere
        BY <3>2, <1>1, <1>3
      <4> QED BY <3>2, <4>1, <1>1, <1>2 DEF KeysAreSeen
    <3> QED BY <3>1, <3>2, <1>3
  <2> QED BY <1>1, <2>1, <2>2 DEF KeysAreSeen
<1>8. NamesAreBest'
  <2>1. \A i \in Seen : Key(mentions[i]) \in DOMAIN merged /\ Key(mentions[i]) # KeyHere
    BY <1>1 DEF KeysAreSeen
  <2>2. mentions[mentionAt].confidence <= mentions[mentionAt].confidence
    BY <1>1, MentionsAreTyped
  <2> QED BY <1>1, <1>2, <1>3, <2>1, <2>2 DEF NamesAreBest
<1>9. PagesAreSeen'
  <2>1. PagesOf(new) = {mentions[mentionAt].page} /\ Len(new.pages) = 1
    BY DEF PagesOf
  <2>2. {j \in Seen' : Key(mentions[j]) = KeyHere} = {mentionAt}
    BY <1>1, <1>2 DEF KeysAreSeen
  <2>3. ASSUME NEW k \in DOMAIN merged
        PROVE {j \in Seen' : Key(mentions[j]) = k} = {j \in Seen : Key(mentions[j]) = k}
    BY <1>1, <1>2
  <2>4. ASSUME NEW k \in DOMAIN merged'
        PROVE /\ PagesOf(merged'[k]) = {mentions[i].page : i \in {j \in Seen' : Key(mentions[j]) = k}}
              /\ \A a, b \in 1 .. Len(merged'[k].pages) :
                    merged'[k].pages[a] = merged'[k].pages[b] => a = b
    <3>1. CASE k = KeyHere
      <4>1. \A a, b \in 1 .. Len(new.pages) : a = b
        BY <2>1
      <4> QED BY <3>1, <1>3, <2>1, <2>2, <4>1
    <3>2. CASE k \in DOMAIN merged
      BY <3>2, <1>3, <2>3 DEF PagesAreSeen
    <3> QED BY <3>1, <3>2, <1>3
  <2> QED BY <1>1, <2>4 DEF PagesAreSeen
<1>10. OrderIsOfKeys'
  <2>1. \A k \in DOMAIN merged' : \E n \in 1 .. Len(order') : order'[n] = k
    BY <1>3, <1>5 DEF OrderIsOfKeys
  <2>2. \A k \in DOMAIN merged : merged[k].first < mentionAt
    BY <1>2 DEF MergeTypeOK
  <2>3. \A n, l \in 1 .. Len(order') :
            n < l => merged'[order'[n]].first < merged'[order'[l]].first
    <3> SUFFICES ASSUME NEW n \in 1 .. Len(order'), NEW l \in 1 .. Len(order'), n < l
                 PROVE merged'[order'[n]].first < merged'[order'[l]].first
      OBVIOUS
    <3>1. n \in 1 .. Len(order) /\ merged'[order'[n]] = merged[order[n]]
          /\ order[n] \in DOMAIN merged
      BY <1>3, <1>5
    <3>2. CASE l \in 1 .. Len(order)
      <4>1. merged'[order'[l]] = merged[order[l]]
        BY <3>2, <1>3, <1>5
      <4> QED BY <3>1, <3>2, <4>1 DEF OrderIsOfKeys
    <3>3. CASE l = Len(order) + 1
      <4>1. merged'[order'[l]].first = mentionAt
        BY <3>3, <1>3, <1>5
      <4> QED BY <3>1, <4>1, <2>2
    <3> QED BY <3>2, <3>3, <1>5
  <2>4. \A i \in Seen : ~ SameParty(i, mentionAt) /\ ~ SameParty(mentionAt, i)
    BY <1>1 DEF KeysAreSeen, SameParty
  <2>5. Len(order') < mentionAt' - 1 <=> \E i, j \in Seen' : i # j /\ SameParty(i, j)'
    <3>1. (\E i, j \in Seen' : i # j /\ SameParty(i, j)') <=>
              \E i, j \in Seen : i # j /\ SameParty(i, j)
      BY <1>1, <1>2, <2>4 DEF SameParty
    <3>2. mentionAt \in Nat /\ (Len(order') < mentionAt' - 1 <=> Len(order) < mentionAt - 1)
      BY <1>1, <1>5
    <3> QED BY <3>1, <3>2 DEF OrderIsOfKeys
  <2>6. Len(order') <= mentionAt' - 1
    BY <1>1, <1>5 DEF OrderIsOfKeys
  <2> QED BY <2>1, <2>3, <2>5, <2>6 DEF OrderIsOfKeys
<1>11. ResultIsOrder'
  BY <1>1 DEF AddParty, ResultIsOrder
<1> QED BY <1>6, <1>7, <1>8, <1>9, <1>10, <1>11

-----------------------------------------------------------------------------
(***************************************************************************)
(* A mention with a party extends it: its name only if it is the better    *)
(* one, its page only if it is new.                                        *)
(***************************************************************************)
LEMMA AddPageIsRight ==
    ASSUME MergeInvariant, mentionAt \in MentionIndex, NEW k \in DOMAIN merged
    PROVE  /\ AddPage(merged[k]) \in Seq(Page)
           /\ {AddPage(merged[k])[i] : i \in 1 .. Len(AddPage(merged[k]))} =
                  PagesOf(merged[k]) \cup {mentions[mentionAt].page}
           /\ \A a, b \in 1 .. Len(AddPage(merged[k])) :
                  AddPage(merged[k])[a] = AddPage(merged[k])[b] => a = b
<1> DEFINE p == merged[k]
           g == mentions[mentionAt].page
<1>1. p.pages \in Seq(Page) /\ Len(p.pages) \in Nat /\ g \in Page
  <2>1. mentions[mentionAt] \in Mention
    BY DEF MergeInvariant, MergeTypeOK, MentionIndex
  <2>2. merged[k] \in [first : Seen, named : Seen, pages : Seq(Page)]
    BY DEF MergeInvariant, MergeTypeOK
  <2> QED BY <2>1, <2>2, MentionsAreTyped
<1>2. \A a, b \in 1 .. Len(p.pages) : p.pages[a] = p.pages[b] => a = b
  BY DEF MergeInvariant, PagesAreSeen
<1>3. CASE g \in PagesOf(p)
  BY <1>1, <1>2, <1>3 DEF AddPage, PagesOf
<1>4. CASE g \notin PagesOf(p)
  <2> DEFINE q == Append(p.pages, g)
  <2>1. /\ q \in Seq(Page) /\ Len(q) = Len(p.pages) + 1 /\ q[Len(q)] = g
        /\ \A i \in 1 .. Len(p.pages) : q[i] = p.pages[i]
    BY <1>1
  <2>2. 1 .. Len(q) = 1 .. Len(p.pages) \cup {Len(q)}
    BY <1>1, <2>1
  <2> HIDE DEF q
  <2>3. {q[i] : i \in 1 .. Len(q)} = PagesOf(p) \cup {g}
    BY <1>1, <2>1, <2>2 DEF PagesOf
  <2>4. \A a, b \in 1 .. Len(q) : q[a] = q[b] => a = b
    BY <1>1, <1>2, <1>4, <2>1, <2>2 DEF PagesOf
  <2> QED BY <1>4, <2>1, <2>3, <2>4 DEF AddPage, q
<1> QED BY <1>3, <1>4

LEMMA MergeIntoPartyIsRight == MergeInvariant /\ MergeIntoParty => MergeInvariant'
<1> SUFFICES ASSUME MergeInvariant, MergeIntoParty PROVE MergeInvariant'
  OBVIOUS
<1> USE DEF MergeInvariant
<1> DEFINE old == merged[KeyHere]
           new == merged'[KeyHere]
<1>1. /\ mentionAt \in 1 .. Len(mentions) /\ Len(mentions) \in Nat /\ mentions[mentionAt] \in Mention
      /\ mentions' = mentions /\ mentionAt' = mentionAt + 1 /\ KeyHere \in DOMAIN merged
      /\ KeyHere = Key(mentions[mentionAt]) /\ mentionAt \in MentionIndex
      /\ order' = order
  BY DEF MergeIntoParty, MergeTypeOK, MentionIndex, KeyHere
<1>2. /\ Seen' = Seen \cup {mentionAt} /\ mentionAt \notin Seen /\ Seen \subseteq Nat
      /\ \A i \in Seen : i < mentionAt /\ i \in Nat
  BY <1>1 DEF Seen
<1>3. /\ DOMAIN merged' = DOMAIN merged
      /\ new = [first |-> old.first, named |-> IF IsBetterName(old) THEN mentionAt ELSE old.named,
                pages |-> AddPage(old)]
      /\ \A k \in DOMAIN merged : k # KeyHere => merged'[k] = merged[k]
  BY <1>1 DEF MergeIntoParty
<1>4. /\ old.first \in Seen /\ old.named \in Seen
      /\ \A k \in DOMAIN merged : merged[k].first \in Seen /\ merged[k].named \in Seen
  BY <1>1 DEF MergeTypeOK
<1>5. new.first = old.first
  BY <1>3
<1>6. MergeTypeOK'
  <2>1. AddPage(old) \in Seq(Page)
    BY <1>1, AddPageIsRight
  <2>2. new \in [first : Seen', named : Seen', pages : Seq(Page)]
    BY <1>2, <1>3, <1>4, <2>1
  <2>3. \A k \in DOMAIN merged' :
            merged'[k] \in [first : Seen', named : Seen', pages : Seq(Page)]
    <3>1. \A k \in DOMAIN merged :
              merged[k] \in [first : Seen', named : Seen', pages : Seq(Page)]
      BY <1>2 DEF MergeTypeOK
    <3> QED BY <1>3, <2>2, <3>1
  <2>4. merged' = [k \in DOMAIN merged' |-> merged'[k]]
    BY DEF MergeIntoParty, MergeTypeOK
  <2> QED BY <1>1, <1>3, <2>3, <2>4 DEF MergeIntoParty, MergeTypeOK
<1>7. /\ new.named = mentionAt \/ new.named = old.named
      /\ Key(mentions[old.named]) = KeyHere /\ Key(mentions[old.first]) = KeyHere
  BY <1>1, <1>3 DEF KeysAreSeen
<1>8. KeysAreSeen'
  <2>1. \A i \in Seen' : Key(mentions[i]) \in DOMAIN merged
    BY <1>1, <1>2 DEF KeysAreSeen
  <2>2. ASSUME NEW k \in DOMAIN merged
        PROVE /\ Key(mentions[merged'[k].first]) = k
              /\ Key(mentions[merged'[k].named]) = k
              /\ \A i \in Seen' : Key(mentions[i]) = k => merged'[k].first <= i
    <3>1. CASE k = KeyHere
      <4>1. merged'[k].first = old.first /\ old.first < mentionAt /\ old.first \in Nat
        BY <3>1, <1>2, <1>4, <1>5
      <4>2. \A i \in Seen : Key(mentions[i]) = k => old.first <= i
        BY <3>1, <1>1 DEF KeysAreSeen
      <4>3. Key(mentions[merged'[k].named]) = k
        BY <3>1, <1>1, <1>7
      <4>4. \A i \in Seen' : Key(mentions[i]) = k => merged'[k].first <= i
        BY <1>1, <1>2, <4>1, <4>2
      <4> QED BY <3>1, <1>7, <4>1, <4>3, <4>4
    <3>2. CASE k # KeyHere
      BY <3>2, <1>1, <1>2, <1>3 DEF KeysAreSeen
    <3> QED BY <3>1, <3>2
  <2> QED BY <1>1, <1>3, <2>1, <2>2 DEF KeysAreSeen
<1>9. NamesAreBest'
  <2>1. \A i \in Seen' : mentions[i].confidence \in Nat
    <3>1. \A i \in Seen' : mentions[i] \in Mention
      BY <1>1, <1>2 DEF MergeTypeOK, Seen
    <3> QED BY <3>1, MentionsAreTyped
  <2>2. ASSUME NEW i \in Seen'
        PROVE LET best == merged'[Key(mentions[i])].named
              IN  /\ mentions[i].confidence <= mentions[best].confidence
                  /\ mentions[i].confidence = mentions[best].confidence => best <= i
    <3>1. CASE Key(mentions[i]) = KeyHere
      <4>1. i \in Seen => /\ mentions[i].confidence <= mentions[old.named].confidence
                          /\ mentions[i].confidence = mentions[old.named].confidence => old.named <= i
        BY <3>1 DEF NamesAreBest
      <4>2. CASE IsBetterName(old)
        <5>1. new.named = mentionAt /\ mentions[mentionAt].confidence > mentions[old.named].confidence
          BY <1>3, <4>2 DEF IsBetterName
        <5>2. merged'[Key(mentions[i])].named = mentionAt
          BY <3>1, <5>1
        <5>3. mentionAt \in Nat /\ old.named \in Seen'
          BY <1>1, <1>2, <1>4
        <5>4. /\ mentions[i].confidence \in Nat /\ mentions[mentionAt].confidence \in Nat
              /\ mentions[old.named].confidence \in Nat
          BY <1>2, <2>1, <5>3
        <5>5. CASE i = mentionAt
          BY <5>2, <5>3, <5>4, <5>5
        <5>6. CASE i \in Seen
          BY <4>1, <5>1, <5>2, <5>4, <5>6
        <5> QED BY <5>5, <5>6, <1>2
      <4>3. CASE ~IsBetterName(old)
        <5>1. new.named = old.named /\ mentions[mentionAt].confidence <= mentions[old.named].confidence
          <6>1. mentions[mentionAt].confidence \in Nat /\ mentions[old.named].confidence \in Nat
            BY <1>2, <1>4, <2>1
          <6> QED BY <1>3, <4>3, <6>1 DEF IsBetterName
        <5>2. merged'[Key(mentions[i])].named = old.named
          BY <3>1, <5>1
        <5>3. CASE i = mentionAt
          <6>1. old.named <= mentionAt
            <7>1. old.named < mentionAt /\ old.named \in Nat
              BY <1>2, <1>4
            <7>2. mentionAt \in Nat
              BY <1>1
            <7> QED BY <7>1, <7>2
          <6> QED BY <5>1, <5>2, <5>3, <6>1
        <5>4. CASE i \in Seen
          BY <4>1, <5>2, <5>4
        <5> QED BY <5>3, <5>4, <1>2
      <4> QED BY <4>2, <4>3
    <3>2. CASE Key(mentions[i]) # KeyHere
      <4>1. i \in Seen /\ merged'[Key(mentions[i])] = merged[Key(mentions[i])]
        BY <3>2, <1>1, <1>2, <1>3 DEF KeysAreSeen
      <4> QED BY <4>1 DEF NamesAreBest
    <3> QED BY <3>1, <3>2
  <2> QED BY <1>1, <2>2 DEF NamesAreBest
<1>10. PagesAreSeen'
  <2>1. ASSUME NEW k \in DOMAIN merged
        PROVE /\ PagesOf(merged'[k]) = {mentions[i].page : i \in {j \in Seen' : Key(mentions[j]) = k}}
              /\ \A a, b \in 1 .. Len(merged'[k].pages) :
                    merged'[k].pages[a] = merged'[k].pages[b] => a = b
    <3>1. CASE k = KeyHere
      <4>1. PagesOf(new) = PagesOf(old) \cup {mentions[mentionAt].page}
            /\ \A a, b \in 1 .. Len(new.pages) : new.pages[a] = new.pages[b] => a = b
        <5>1. new.pages = AddPage(old)
          BY <1>3
        <5>2. /\ {new.pages[i] : i \in 1 .. Len(new.pages)} = PagesOf(old) \cup {mentions[mentionAt].page}
              /\ \A a, b \in 1 .. Len(new.pages) : new.pages[a] = new.pages[b] => a = b
          <6>1. mentionAt \in MentionIndex /\ KeyHere \in DOMAIN merged
            BY <1>1
          <6>2. /\ {AddPage(old)[i] : i \in 1 .. Len(AddPage(old))} =
                      PagesOf(old) \cup {mentions[mentionAt].page}
                /\ \A a, b \in 1 .. Len(AddPage(old)) : AddPage(old)[a] = AddPage(old)[b] => a = b
            BY <6>1, AddPageIsRight
          <6> HIDE DEF new, old
          <6> QED BY <5>1, <6>2
        <5> QED BY <5>2 DEF PagesOf
      <4>2. {j \in Seen' : Key(mentions[j]) = KeyHere} = {j \in Seen : Key(mentions[j]) = KeyHere} \cup {mentionAt}
        BY <1>1, <1>2
      <4>3. PagesOf(old) = {mentions[i].page : i \in {j \in Seen : Key(mentions[j]) = KeyHere}}
        BY <1>1 DEF PagesAreSeen
      <4> QED BY <3>1, <4>1, <4>2, <4>3
    <3>2. CASE k # KeyHere
      <4>1. {j \in Seen' : Key(mentions[j]) = k} = {j \in Seen : Key(mentions[j]) = k}
        BY <3>2, <1>1, <1>2
      <4> QED BY <3>2, <4>1, <1>3 DEF PagesAreSeen
    <3> QED BY <3>1, <3>2
  <2> QED BY <1>1, <1>3, <2>1 DEF PagesAreSeen
<1>11. OrderIsOfKeys'
  <2>1. \A k \in DOMAIN merged : merged'[k].first = merged[k].first
    BY <1>3, <1>5
  <2>2. \A n \in 1 .. Len(order) : order[n] \in DOMAIN merged
    BY DEF MergeTypeOK
  <2>3. Len(order) \in Nat
    BY DEF MergeTypeOK
  <2>4. old.first \in Seen' /\ mentionAt \in Seen' /\ old.first # mentionAt /\ SameParty(old.first, mentionAt)
    BY <1>1, <1>2, <1>4, <1>7 DEF SameParty
  <2>5. Len(order') < mentionAt' - 1 <=> \E i, j \in Seen' : i # j /\ SameParty(i, j)'
    BY <1>1, <2>3, <2>4 DEF OrderIsOfKeys, SameParty
  <2>6. Len(order') <= mentionAt' - 1
    BY <1>1, <2>3 DEF OrderIsOfKeys
  <2>7. \A n, l \in 1 .. Len(order') :
            n < l => merged'[order'[n]].first < merged'[order'[l]].first
    BY <1>1, <2>1, <2>2 DEF OrderIsOfKeys
  <2> QED BY <1>1, <1>3, <2>5, <2>6, <2>7 DEF OrderIsOfKeys
<1>12. ResultIsOrder'
  BY <1>1 DEF MergeIntoParty, ResultIsOrder
<1> QED BY <1>6, <1>8, <1>9, <1>10, <1>11, <1>12

-----------------------------------------------------------------------------
(***************************************************************************)
(* The loop invariant holds at every step of every pass.                   *)
(***************************************************************************)
THEOREM MergeKeepsInvariant == MergeSpec => []MergeInvariant
<1>1. ASSUME MergeInvariant, UNCHANGED <<mentions, mentionAt, merged, order>>,
             warned' \in BOOLEAN, mergeDone' \in BOOLEAN, ResultIsOrder'
      PROVE  MergeInvariant'
  <2> USE DEF MergeInvariant
  <2>1. MergeTypeOK'
    BY <1>1 DEF MergeTypeOK, Seen
  <2>2. KeysAreSeen' /\ NamesAreBest'
    BY <1>1 DEF KeysAreSeen, NamesAreBest, Seen
  <2>3. PagesAreSeen'
    <3>1. Seen' = Seen
      BY <1>1 DEF Seen
    <3> QED BY <1>1, <3>1 DEF PagesAreSeen
  <2>4. OrderIsOfKeys'
    BY <1>1 DEF OrderIsOfKeys, SameParty, Seen
  <2> QED BY <1>1, <2>1, <2>2, <2>3, <2>4
<1>2. MergeInvariant /\ (Finish \/ UNCHANGED mergeVars) => MergeInvariant'
  <2>1. MergeInvariant /\ Finish => ResultIsOrder' /\ warned' \in BOOLEAN /\ mergeDone' \in BOOLEAN
    <3> SUFFICES ASSUME Finish
                 PROVE ResultIsOrder' /\ warned' \in BOOLEAN /\ mergeDone' \in BOOLEAN
      OBVIOUS
    <3>1. Warns' <=> Warns
      BY DEF Finish, Warns
    <3>2. /\ mentionAt' = Len(mentions') + 1 /\ warned' = Warns /\ mergeDone' = TRUE
          /\ parties' = [n \in 1 .. Len(order') |-> merged'[order'[n]]]
      BY DEF Finish
    <3>3. warned' <=> Warns'
      BY <3>1, <3>2
    <3>4. warned' \in BOOLEAN
      BY <3>2 DEF Warns
    <3> QED BY <3>2, <3>3, <3>4 DEF ResultIsOrder
  <2>2. MergeInvariant /\ UNCHANGED mergeVars =>
            ResultIsOrder' /\ warned' \in BOOLEAN /\ mergeDone' \in BOOLEAN
    BY DEF mergeVars, Warns, MergeInvariant, ResultIsOrder, MergeTypeOK
  <2> QED BY <1>1, <2>1, <2>2 DEF Finish, mergeVars
<1>3. MergeInvariant /\ [MergeNext]_mergeVars => MergeInvariant'
  BY <1>2, AddPartyIsRight, MergeIntoPartyIsRight DEF MergeNext
<1> QED BY InitIsMerged, <1>3, PTL DEF MergeSpec

(***************************************************************************)
(* Every mention ends in exactly one party, with the best of the names and *)
(* all of the pages of its equals.                                         *)
(***************************************************************************)
THEOREM EveryMentionHasItsParty == MergeSpec => []MergedRight
<1>1. ASSUME MergeInvariant, mergeDone PROVE MergedRight
  <2> USE DEF MergeInvariant
  <2>1. /\ Seen = MentionIndex /\ Len(order) \in Nat
        /\ parties = [n \in 1 .. Len(order) |-> merged[order[n]]]
        /\ Len(parties) = Len(order)
    BY <1>1 DEF ResultIsOrder, MergeTypeOK, Seen, MentionIndex
  <2>2. \A n \in 1 .. Len(order) : order[n] \in DOMAIN merged
    BY <1>1 DEF MergeTypeOK
  <2>3. ASSUME NEW i \in MentionIndex
        PROVE \E n \in 1 .. Len(parties) : PartyFor(parties[n], i)
    <3> DEFINE k == Key(mentions[i])
    <3>1. k \in DOMAIN merged
      BY <1>1, <2>1 DEF KeysAreSeen
    <3>2. PICK n \in 1 .. Len(order) : order[n] = k
      BY <1>1, <3>1 DEF OrderIsOfKeys
    <3>3. parties[n] = merged[k] /\ n \in 1 .. Len(parties)
      BY <2>1, <3>2
    <3>4. /\ Key(mentions[merged[k].first]) = k /\ Key(mentions[merged[k].named]) = k
          /\ \A j \in MentionIndex : Key(mentions[j]) = k => merged[k].first <= j
      BY <1>1, <2>1, <3>1 DEF KeysAreSeen
    <3>5. \A j \in MentionIndex : Key(mentions[j]) = k =>
              /\ mentions[j].confidence <= mentions[merged[k].named].confidence
              /\ mentions[j].confidence = mentions[merged[k].named].confidence =>
                    merged[k].named <= j
      BY <1>1, <2>1 DEF NamesAreBest
    <3>6. /\ PagesOf(merged[k]) = {mentions[j].page : j \in {l \in MentionIndex : Key(mentions[l]) = k}}
          /\ \A a, b \in 1 .. Len(merged[k].pages) :
                merged[k].pages[a] = merged[k].pages[b] => a = b
      BY <1>1, <2>1, <3>1 DEF PagesAreSeen
    <3>7. PartyFor(merged[k], i)
      BY <3>4, <3>5, <3>6 DEF PartyFor, SameParty
    <3> QED BY <3>3, <3>7
  <2>4. ASSUME NEW n \in 1 .. Len(parties), NEW l \in 1 .. Len(parties),
               SameParty(parties[n].first, parties[l].first)
        PROVE n = l
    <3>1. order[n] = order[l]
      BY <1>1, <2>1, <2>2, <2>4 DEF KeysAreSeen, SameParty
    <3>2. merged[order[n]].first \in Nat
      BY <1>1, <2>1, <2>2 DEF MergeTypeOK, Seen
    <3>3. ~(n < l) /\ ~(l < n)
      BY <1>1, <2>1, <3>1, <3>2 DEF OrderIsOfKeys
    <3> QED BY <2>1, <3>3
  <2> QED BY <2>3, <2>4 DEF MergedRight, SameParty
<1>2. MergeInvariant => MergedRight
  BY <1>1 DEF MergedRight
<1> QED BY <1>2, MergeKeepsInvariant, PTL

(***************************************************************************)
(* Parties are numbered by their first mentions.                           *)
(***************************************************************************)
THEOREM PartiesAreNumberedInOrder == MergeSpec => []NumberedByFirstMention
<1>1. ASSUME MergeInvariant, mergeDone PROVE NumberedByFirstMention
  <2>1. /\ Seen = MentionIndex /\ Len(order) \in Nat
        /\ parties = [n \in 1 .. Len(order) |-> merged[order[n]]]
        /\ Len(parties) = Len(order)
        /\ \A n \in 1 .. Len(order) : order[n] \in DOMAIN merged
    BY <1>1 DEF MergeInvariant, ResultIsOrder, MergeTypeOK, Seen, MentionIndex
  <2>2. \A n \in 1 .. Len(order) : merged[order[n]].first \in MentionIndex
    BY <1>1, <2>1 DEF MergeInvariant, MergeTypeOK
  <2> QED BY <1>1, <2>1, <2>2 DEF MergeInvariant, OrderIsOfKeys, NumberedByFirstMention
<1>2. MergeInvariant => NumberedByFirstMention
  BY <1>1 DEF NumberedByFirstMention
<1> QED BY <1>2, MergeKeepsInvariant, PTL

(***************************************************************************)
(* The warning tells the truth.                                            *)
(***************************************************************************)
THEOREM WarningIsRight == MergeSpec => []WarnedIffMerged
<1>1. MergeInvariant => WarnedIffMerged
  BY DEF MergeInvariant, ResultIsOrder, OrderIsOfKeys, MergeTypeOK, Warns, Seen, MentionIndex,
      WarnedIffMerged
<1> QED BY <1>1, MergeKeepsInvariant, PTL

(***************************************************************************)
(* The parties, their order and the warning are right for every list of    *)
(* mentions (mapping.py:73-119).                                           *)
(***************************************************************************)
THEOREM MergeIsRight == MergeSpec => []PartiesAreRight
BY EveryMentionHasItsParty, PartiesAreNumberedInOrder, WarningIsRight, PTL DEF PartiesAreRight

-----------------------------------------------------------------------------
(***************************************************************************)
(* Legal bases.  Only SearchRules gives a rule a basis, and it does so     *)
(* from vectors and records of the image, if it has both.                  *)
(***************************************************************************)
LEMMA LegalStart == LegalInit => LegalInvariant
<1> SUFFICES ASSUME LegalInit PROVE LegalInvariant
  OBVIOUS
<1>1. 0 \in Builds
  BY LegalAssumption DEF Builds
<1> QED BY <1>1 DEF LegalInit, NoFiles, LegalInvariant, LegalTypeOK, LoadedIsShipped, BasisIsNearest

LEMMA BuildAndDeploy ==
    LegalInvariant /\ (WriteVectors \/ WriteChunks \/ BuildStops \/ Deploy) => LegalInvariant'
<1> USE DEF LegalInvariant
<1> SUFFICES ASSUME LegalInvariant PROVE (WriteVectors \/ WriteChunks \/ BuildStops \/ Deploy) => LegalInvariant'
  OBVIOUS
<1>1. Builds \subseteq Nat /\ 0 \in Builds /\ Len(corpora) \in Nat
  BY LegalAssumption DEF Builds
<1>2. ASSUME WriteVectors \/ WriteChunks \/ BuildStops PROVE LegalInvariant'
  <2>1. UNCHANGED <<image, cache, use, step, rules, bases>>
    BY <1>2 DEF WriteVectors, WriteChunks, BuildStops
  <2>2. files' \in [vectors : Builds, chunks : Builds] /\ building' \in Builds
    BY <1>1, <1>2 DEF WriteVectors, WriteChunks, BuildStops, LegalTypeOK, Builds
  <2>3. LegalTypeOK'
    BY <2>1, <2>2 DEF LegalTypeOK
  <2> QED BY <2>1, <2>3 DEF LoadedIsShipped, BasisIsNearest, IsNearest
<1>3. ASSUME Deploy PROVE LegalInvariant'
  BY <1>1, <1>3 DEF Deploy, Goto, NoFiles, LegalTypeOK, LoadedIsShipped, BasisIsNearest
<1> QED BY <1>2, <1>3

(***************************************************************************)
(* A retrieval that raises leaves the document without bases.              *)
(***************************************************************************)
LEMMA WithoutBases ==
    ASSUME LegalInvariant, Without, UNCHANGED cache, Unshipped
    PROVE  LegalInvariant'
<1> USE DEF LegalInvariant
<1>1. LegalTypeOK' /\ LoadedIsShipped'
  BY DEF Without, Unshipped, Goto, LegalTypeOK, LoadedIsShipped
<1>2. CASE UNCHANGED bases
  BY <1>1, <1>2 DEF Unshipped, BasisIsNearest, IsNearest
<1>3. CASE bases' = [i \in 1 .. Len(rules) |-> None]
  <2>1. DOMAIN rules = 1 .. Len(rules)
    BY DEF LegalTypeOK
  <2> QED BY <1>1, <1>3, <2>1 DEF Unshipped, BasisIsNearest
<1> QED BY <1>1, <1>2, <1>3 DEF Without

LEMMA Loading ==
    ASSUME LegalInvariant,
           \/ \E qs \in Documents : StartDocument(qs)
           \/ AlreadyLoaded \/ LoadVectors \/ LoadChunks \/ SearchContext
    PROVE  LegalInvariant'
<1> USE DEF LegalInvariant
<1>1. ASSUME NEW qs \in Documents, StartDocument(qs) PROVE LegalInvariant'
  <2>1. qs \in Seq(Query)
    BY DEF Documents
  <2> QED BY <1>1, <2>1 DEF StartDocument, Goto, LegalTypeOK, LoadedIsShipped, BasisIsNearest
<1>2. ASSUME AlreadyLoaded \/ LoadVectors \/ LoadChunks \/ SearchContext PROVE LegalInvariant'
  <2>1. UNCHANGED <<files, building, image, rules, bases>>
    BY <1>2 DEF AlreadyLoaded, LoadVectors, LoadChunks, SearchContext, Unshipped
  <2>2. BasisIsNearest'
    BY <2>1 DEF BasisIsNearest, IsNearest
  <2>3. LegalTypeOK' /\ LoadedIsShipped'
    BY <1>2, <2>1 DEF AlreadyLoaded, LoadVectors, LoadChunks, SearchContext, InStep, Goto, LegalTypeOK, LoadedIsShipped
  <2> QED BY <2>2, <2>3
<1> QED BY <1>1, <1>2

LEMMA Searching == LegalInvariant /\ SearchRules => LegalInvariant'
<1> SUFFICES ASSUME LegalInvariant, SearchRules PROVE LegalInvariant'
  OBVIOUS
<1> USE DEF LegalInvariant
<1>1. PICK rows \in [1 .. Len(rules) -> UNION {NearestRows(q) : q \in Query}] :
        /\ \A i \in DOMAIN rows : rows[i] \in NearestRows(rules[i])
        /\ \/ /\ Records(rows)
              /\ bases' = [i \in DOMAIN rows |-> Basis(rules[i], rows[i])]
              /\ Goto("none", "load")
           \/ ~Records(rows) /\ Without
  BY DEF SearchRules
<1>2. UNCHANGED cache /\ Unshipped /\ cache.vectors # 0
  BY DEF SearchRules, InStep, LoadedIsShipped
<1>3. CASE Without
  BY <1>2, <1>3, WithoutBases
<1>4. ASSUME Records(rows),
             bases' = [i \in DOMAIN rows |-> Basis(rules[i], rows[i])],
             Goto("none", "load")
      PROVE  LegalInvariant'
  <2>1. /\ DOMAIN rules = 1 .. Len(rules) /\ DOMAIN rows = 1 .. Len(rules)
        /\ rules' = rules /\ image' = image /\ cache' = cache
    BY <1>1, <1>2 DEF LegalTypeOK, Unshipped
  <2>2. cache.vectors = image.vectors /\ cache.chunks = image.chunks /\ image.chunks \in 1 .. Len(corpora)
    BY <1>2, <1>4 DEF Records, LoadedIsShipped, LegalTypeOK, Builds
  <2>3. corpora[image.chunks] \in Seq(Article)
    BY <2>2, LegalAssumption
  <2>4. ASSUME NEW i \in 1 .. Len(rules)
        PROVE  rows[i] \in DOMAIN corpora[image.chunks] /\ corpora[image.chunks][rows[i]] \in Article
    BY <1>4, <2>1, <2>2, <2>3 DEF Records
  <2>5. LegalTypeOK' /\ LoadedIsShipped'
    <3>1. \A i \in 1 .. Len(rules) : Basis(rules[i], rows[i]) \in Article \cup {None}
      BY <2>2, <2>4 DEF Basis
    <3> QED BY <1>2, <1>4, <2>1, <3>1 DEF Goto, Unshipped, LegalTypeOK, LoadedIsShipped
  <2>6. ASSUME image.vectors = image.chunks, NEW i \in 1 .. Len(rules)
        PROVE  LET a == corpora[image.chunks][rows[i]]
               IN  /\ a \in {corpora[image.chunks][j] : j \in DOMAIN corpora[image.chunks]}
                   /\ IsNearest(rules[i], a)
                   /\ bases'[i] = IF IsBasis(rules[i], a) THEN a ELSE None
    <3>1. \A s \in DOMAIN corpora[image.chunks] :
              score[rules[i]][corpora[image.chunks][s]] <= score[rules[i]][corpora[image.chunks][rows[i]]]
      BY <1>1, <2>1, <2>2, <2>6 DEF NearestRows
    <3>2. bases'[i] = Basis(rules[i], rows[i])
      BY <1>4, <2>1
    <3> QED BY <2>2, <2>4, <2>6, <3>1, <3>2 DEF IsNearest, IsBasis, Basis
  <2>7. BasisIsNearest'
    <3> DEFINE Articles == {corpora[image.chunks][j] : j \in DOMAIN corpora[image.chunks]}
               Right(i, a) == IsNearest(rules[i], a) /\ bases'[i] = IF IsBasis(rules[i], a) THEN a ELSE None
    <3>1. DOMAIN bases' = DOMAIN rules
      BY <1>4, <2>1
    <3>2. image.vectors = image.chunks => \A i \in DOMAIN rules : \E a \in Articles : Right(i, a)
      BY <2>1, <2>6
    <3>3. \A i, a : IsNearest(rules[i], a) <=> IsNearest(rules[i], a)'
      BY <2>1 DEF IsNearest
    <3> QED BY <2>1, <3>1, <3>2, <3>3 DEF BasisIsNearest, IsBasis, IsNearest
  <2> QED BY <2>5, <2>7
<1> QED BY <1>1, <1>3, <1>4

(***************************************************************************)
(* The invariant, of any corpora, builds, images and documents.            *)
(***************************************************************************)
THEOREM BasesKeepInvariant == LegalSpec => []LegalInvariant
<1>1. LegalInvariant /\ [LegalNext]_legalVars => LegalInvariant'
  <2> SUFFICES ASSUME LegalInvariant, [LegalNext]_legalVars PROVE LegalInvariant'
    OBVIOUS
  <2>1. ASSUME RetrievalFails PROVE LegalInvariant'
    BY <2>1, WithoutBases DEF RetrievalFails
  <2>2. CASE UNCHANGED legalVars
    BY <2>2 DEF legalVars, LegalInvariant, LegalTypeOK, LoadedIsShipped, BasisIsNearest, IsNearest
  <2> QED BY <2>1, <2>2, BuildAndDeploy, Loading, Searching DEF LegalNext
<1> QED BY <1>1, LegalStart, PTL DEF LegalSpec

(***************************************************************************)
(* Of an image whose files are of one build, a rule has the nearest        *)
(* article as its basis or none, however the loads before it ended         *)
(* (legal_rag.py:31-44, 62-84, mapping.py:175-190).                        *)
(***************************************************************************)
THEOREM BasesAreNearest == LegalSpec => []BasisIsNearest
<1>1. LegalInvariant => BasisIsNearest
  BY DEF LegalInvariant
<1> QED BY <1>1, BasesKeepInvariant, PTL

-----------------------------------------------------------------------------
(***************************************************************************)
(* The reading of a document.  A step that leaves the pages, their method  *)
(* and the warnings alone keeps the invariant, if it does not go back to a *)
(* phase before the pages were read or enter one after the summary.        *)
(***************************************************************************)
Read == phase \in {"extracted", "asking", "mapping"} \/ Mapped

LEMMA ReadingStart == DocumentInit => OcrInvariant
<1> SUFFICES ASSUME DocumentInit PROVE OcrInvariant
  OBVIOUS
<1>1. /\ source \in Sources /\ pages = <<>> /\ ocrPages = {} /\ warnings = <<>>
      /\ phase = "open"
  BY DEF DocumentInit, DocumentStart, TextStart
<1>2. Len(pages) = 0 /\ Len(warnings) = 0 /\ pages \in Seq(Length) /\ warnings \in Seq(Codes)
  BY <1>1
<1>3. 1 .. Len(pages) = {} /\ 1 .. Len(warnings) = {}
  BY <1>2
<1> QED BY <1>1, <1>2, <1>3 DEF OcrInvariant, Mapped, Warned

LEMMA ReadingRests ==
    ASSUME OcrInvariant, UNCHANGED <<source, pages, ocrPages, method, warnings>>,
           Read' => Read, Mapped' <=> Mapped
    PROVE  OcrInvariant'
<1>1. \A i : HasOcrText(i)' <=> HasOcrText(i)
  BY DEF HasOcrText
<1>2. Method' = Method
  BY DEF Method
<1>3. (Warned("OCR_USED")' <=> Warned("OCR_USED")) /\ (AllBlank' <=> AllBlank)
  BY DEF Warned, AllBlank
<1> QED BY <1>1, <1>2, <1>3 DEF OcrInvariant, Read

(***************************************************************************)
(* The pages.                                                              *)
(***************************************************************************)
LEMMA PageIsCounted ==
    ASSUME OcrInvariant, phase = "reading", phase' = "reading",
           NEW length \in Length, pages' = Append(pages, length),
           ocrPages' = IF NeedsOcr /\ length > 0 THEN ocrPages \cup {PageHere} ELSE ocrPages,
           UNCHANGED <<source, method, warnings>>
    PROVE  OcrInvariant'
<1>1. /\ Len(pages) \in Nat /\ Len(pages') = Len(pages) + 1 /\ pages' \in Seq(Length)
      /\ pages'[PageHere] = length /\ \A i \in 1 .. Len(pages) : pages'[i] = pages[i]
  BY DEF OcrInvariant, PageHere
<1>2. 1 .. Len(pages') = (1 .. Len(pages)) \cup {PageHere} /\ PageHere \notin 1 .. Len(pages)
  BY <1>1 DEF PageHere
<1>3. \A i \in 1 .. Len(pages) : HasOcrText(i)' <=> HasOcrText(i)
  BY <1>1 DEF HasOcrText
<1>4. ASSUME NEW i, i = PageHere PROVE HasOcrText(i)' <=> NeedsOcr /\ length > 0
  BY <1>1, <1>4 DEF HasOcrText, NeedsOcr
<1>5. ocrPages' = {i \in 1 .. Len(pages') : HasOcrText(i)'}
  BY <1>2, <1>3, <1>4 DEF OcrInvariant
<1>6. ~Warned("OCR_USED")' /\ ~Mapped'
  BY DEF OcrInvariant, Warned, Mapped
<1> QED BY <1>1, <1>5, <1>6 DEF OcrInvariant, Mapped

LEMMA LayerIsTyped ==
    ASSUME source \in Sources, NEW i \in Nat \ {0}, i <= Len(source.layer)
    PROVE  source.layer[i] \in Length
<1>1. PICK n \in Nat : source.layer \in [1 .. n -> Length]
  <2>1. CASE source.type = "PDF"
    <3>1. source.layer \in UNION {[1 .. n -> Length] : n \in 0 .. MaxPages}
      BY <2>1 DEF Sources, Layers
    <3>2. PICK n \in 0 .. MaxPages : source.layer \in [1 .. n -> Length]
      BY <3>1
    <3> QED BY <3>2, TextAssumption
  <2>2. CASE source.type = "DOCX"
    BY <2>2 DEF Sources
  <2> QED BY <2>1, <2>2 DEF Sources
<1>2. Len(source.layer) = n
  BY <1>1
<1> QED BY <1>1, <1>2

LEMMA Reading == OcrInvariant /\ ExtractText => OcrInvariant'
<1> SUFFICES ASSUME OcrInvariant, TextNext, UNCHANGED resultVars PROVE OcrInvariant'
  BY DEF ExtractText
<1>1. UNCHANGED warnings
  BY DEF resultVars
<1>2. ASSUME NEW code, Fail(code), ~Mapped PROVE OcrInvariant'
  BY <1>1, <1>2, ReadingRests DEF Fail, Read, Mapped
<1>3. CASE Unreadable
  BY <1>2, <1>3 DEF Unreadable, Mapped
<1>4. CASE RaiseOutOfRun \/ Open
  BY <1>1, <1>4, ReadingRests DEF RaiseOutOfRun, Open, Read, Mapped
<1>5. CASE ReadPage
  <2>1. PageHere \in Nat \ {0} /\ PageHere <= Len(source.layer) /\ source \in Sources
    BY <1>5 DEF ReadPage, PageHere, OcrInvariant
  <2>2. source.layer[PageHere] \in Length
    BY <2>1, LayerIsTyped
  <2> QED BY <1>1, <1>5, <2>2, PageIsCounted DEF ReadPage
<1>6. CASE OcrPage
  <2>1. ASSUME NEW length \in Length, pages' = Append(pages, length), ocrPages' = WithOcrPage(length),
               UNCHANGED <<source, method, masked, cut, phase, failure>>
        PROVE  OcrInvariant'
    BY <1>1, <1>6, <2>1, PageIsCounted DEF OcrPage, WithOcrPage
  <2> QED BY <1>2, <1>6, <2>1 DEF OcrPage, Mapped
<1>7. CASE Extracted
  <2>1. CASE /\ UNCHANGED <<source, pages, ocrPages, masked, cut, failure>>
             /\ ~AllBlank /\ method' = Method /\ phase' = "extracted"
    <3>1. \A i : HasOcrText(i)' <=> HasOcrText(i)
      BY <2>1 DEF HasOcrText
    <3>2. Method' = Method /\ (AllBlank' <=> AllBlank)
      BY <2>1 DEF Method, AllBlank
    <3>3. ~Warned("OCR_USED")' /\ ~Mapped'
      BY <1>1, <1>7, <2>1 DEF OcrInvariant, Extracted, Warned, Mapped
    <3> QED BY <1>1, <2>1, <3>1, <3>2, <3>3 DEF OcrInvariant
  <2> QED BY <1>2, <1>7, <2>1 DEF Extracted, Mapped
<1>8. CASE MaskAndMeasure
  BY <1>1, <1>8, ReadingRests DEF MaskAndMeasure, Read, Mapped
<1> QED BY <1>3, <1>4, <1>5, <1>6, <1>7, <1>8 DEF TextNext

(***************************************************************************)
(* The warnings.                                                           *)
(***************************************************************************)
LEMMA ExtendedBy ==
    ASSUME NEW S, NEW w \in Seq(S), NEW c \in S
    PROVE  /\ Append(w, c) \in Seq(S) /\ w \o <<c>> = Append(w, c)
           /\ Len(Append(w, c)) = Len(w) + 1 /\ Append(w, c)[Len(w) + 1] = c
           /\ \A i \in 1 .. Len(w) + 1 : Append(w, c)[i] = IF i <= Len(w) THEN w[i] ELSE c
OBVIOUS

LEMMA WarningsBefore ==
    ASSUME OcrInvariant, phase = "mapping", MapRule
    PROVE  OcrInvariant'
<1>1. UNCHANGED textVars
  BY DEF MapRule
<1>2. UNCHANGED <<source, pages, ocrPages, method, phase>>
  BY <1>1 DEF textVars
<1>3. warnings' = warnings \/ warnings' = Append(warnings, "STRUCTURED_VALUE_FALLBACK")
  BY DEF MapRule
<1>4. warnings' \in Seq(Codes) /\ ~Warned("OCR_USED")'
  <2>1. warnings \in Seq(Codes) /\ \A i \in 1 .. Len(warnings) : warnings[i] # "OCR_USED"
    BY DEF OcrInvariant, Mapped, Warned
  <2>2. CASE warnings' = warnings
    BY <2>1, <2>2 DEF Warned
  <2>3. CASE warnings' = Append(warnings, "STRUCTURED_VALUE_FALLBACK")
    <3>1. warnings' \in Seq(Codes) /\ \A i \in 1 .. Len(warnings') : warnings'[i] # "OCR_USED"
      BY <2>1, <2>3, ExtendedBy DEF Codes
    <3> QED BY <3>1 DEF Warned
  <2> QED BY <1>3, <2>2, <2>3
<1>5. \A i : HasOcrText(i)' <=> HasOcrText(i)
  BY <1>2 DEF HasOcrText
<1>6. Method' = Method
  BY <1>2 DEF Method
<1>7. AllBlank' <=> AllBlank
  BY <1>2 DEF AllBlank
<1> QED BY <1>2, <1>4, <1>7, <1>5, <1>6 DEF OcrInvariant, Mapped

LEMMA WarningsAtEnd ==
    ASSUME OcrInvariant, Summarize
    PROVE  OcrInvariant'
<1>1. /\ UNCHANGED <<source, pages, ocrPages, method>>
      /\ phase = "mapping" /\ phase' = "validating"
      /\ warnings' = warnings \o OcrWarnings \o CutWarnings
  BY DEF Summarize
<1>2. warnings \in Seq(Codes) /\ \A i \in 1 .. Len(warnings) : warnings[i] # "OCR_USED"
  BY <1>1 DEF OcrInvariant, Mapped, Warned
<1>3. /\ CutWarnings \in Seq(Codes)
      /\ \A i \in 1 .. Len(CutWarnings) : CutWarnings[i] # "OCR_USED"
  <2>1. CutWarnings = <<>> \/ CutWarnings = <<"PARTIAL_TEXT_EXTRACTION">>
    BY DEF CutWarnings
  <2>2. CASE CutWarnings = <<>>
    BY <2>2
  <2>3. CASE CutWarnings = <<"PARTIAL_TEXT_EXTRACTION">>
    BY <2>3 DEF Codes
  <2> QED BY <2>1, <2>2, <2>3
<1>4. warnings' \in Seq(Codes) /\ (Warned("OCR_USED")' <=> ocrPages # {})
  <2>1. CASE ocrPages = {}
    <3>1. warnings' = warnings \o CutWarnings
      BY <1>1, <1>2, <2>1 DEF OcrWarnings
    <3> QED BY <1>2, <1>3, <2>1, <3>1 DEF Warned
  <2>2. CASE ocrPages # {}
    <3> DEFINE reported == warnings \o <<"OCR_USED">>
    <3>1. warnings' = reported \o CutWarnings
      BY <1>1, <2>2 DEF OcrWarnings
    <3>2. /\ reported \in Seq(Codes) /\ Len(reported) = Len(warnings) + 1
          /\ reported[Len(warnings) + 1] = "OCR_USED"
      BY <1>2, ExtendedBy DEF Codes
    <3>3. /\ warnings' \in Seq(Codes) /\ Len(warnings) + 1 \in 1 .. Len(warnings')
          /\ warnings'[Len(warnings) + 1] = "OCR_USED"
      BY <1>2, <1>3, <3>1, <3>2
    <3> QED BY <2>2, <3>3 DEF Warned
  <2> QED BY <2>1, <2>2
<1>5. \A i : HasOcrText(i)' <=> HasOcrText(i)
  BY <1>1 DEF HasOcrText
<1>6. Method' = Method
  BY <1>1 DEF Method
<1>7. AllBlank' <=> AllBlank
  BY <1>1 DEF AllBlank
<1> QED BY <1>1, <1>4, <1>5, <1>6, <1>7 DEF OcrInvariant, Mapped

(***************************************************************************)
(* The invariant, of documents of any number of pages.                     *)
(***************************************************************************)
THEOREM ReadingKeepsInvariant == DocumentSpec => []OcrInvariant
<1>1. OcrInvariant /\ [DocumentNext]_documentVars => OcrInvariant'
  <2> SUFFICES ASSUME OcrInvariant, [DocumentNext]_documentVars PROVE OcrInvariant'
    OBVIOUS
  <2>1. CASE ExtractText
    BY <2>1, Reading
  <2>2. CASE Answer
    BY <2>2, ReadingRests DEF Answer, Read, Mapped
  <2>3. CASE NoAnswer
    BY <2>3, ReadingRests DEF NoAnswer, Fail, resultVars, Read, Mapped
  <2>4. CASE MapRule
    BY <2>4, WarningsBefore DEF MapRule
  <2>5. CASE Summarize
    BY <2>5, WarningsAtEnd
  <2>6. CASE ValidateOutgoing
    BY <2>6, ReadingRests DEF ValidateOutgoing, resultVars, Read, Mapped
  <2>7. CASE UNCHANGED documentVars
    BY <2>7, ReadingRests DEF documentVars, textVars, resultVars, Read, Mapped
  <2> QED BY <2>1, <2>2, <2>3, <2>4, <2>5, <2>6, <2>7 DEF DocumentNext
<1> QED BY <1>1, ReadingStart, PTL DEF DocumentSpec

(***************************************************************************)
(* Text of OCR is reported as such, for documents of any number of pages   *)
(* and any threshold (text_extraction.py:118-142).                         *)
(***************************************************************************)
THEOREM OcrTextIsReported == DocumentSpec => []OcrIsReported
<1>1. OcrInvariant => OcrIsReported
  <2> SUFFICES ASSUME OcrInvariant, Mapped PROVE OcrIsReported
    BY DEF OcrIsReported
  <2>1. ocrPages = {i \in 1 .. Len(pages) : HasOcrText(i)} /\ method = Method /\ 1 .. Len(pages) # {}
    BY DEF OcrInvariant, AllBlank
  <2>2. Warned("OCR_USED") <=> ocrPages # {}
    BY DEF OcrInvariant
  <2>3. ocrPages # {} => source.type = "PDF"
    BY <2>1 DEF HasOcrText
  <2>4. method \in {"OCR", "HYBRID"} <=> ocrPages # {}
    <3>1. source.type \in {"PDF", "DOCX"}
      BY DEF OcrInvariant, Sources
    <3>2. CASE ocrPages = {}
      BY <2>1, <3>1, <3>2 DEF Method
    <3>3. CASE ocrPages # {}
      BY <2>1, <2>3, <3>3 DEF Method
    <3> QED BY <3>2, <3>3
  <2>5. method = "OCR" => ocrPages = 1 .. Len(pages)
    BY <2>1 DEF Method
  <2> QED BY <2>1, <2>2, <2>4, <2>5 DEF OcrIsReported, HasOcrText
<1> QED BY <1>1, ReadingKeepsInvariant, PTL

-----------------------------------------------------------------------------
(***************************************************************************)
(* The text and its length.                                                *)
(***************************************************************************)
LEMMA LayersAreSequences ==
    ASSUME NEW x
    PROVE  x \in Layers <=> x \in Seq(Length) /\ Len(x) <= MaxPages
<1>1. ASSUME x \in Layers PROVE x \in Seq(Length) /\ Len(x) <= MaxPages
  <2>1. PICK n \in 0 .. MaxPages : x \in [1 .. n -> Length]
    BY <1>1 DEF Layers
  <2>2. n \in Nat /\ n <= MaxPages
    BY TextAssumption
  <2> QED BY <2>1, <2>2
<1>2. ASSUME x \in Seq(Length), Len(x) <= MaxPages PROVE x \in Layers
  <2>1. Len(x) \in 0 .. MaxPages /\ x \in [1 .. Len(x) -> Length]
    BY <1>2, TextAssumption
  <2> QED BY <2>1 DEF Layers
<1> QED BY <1>1, <1>2

LEMMA SourceIsTyped ==
    ASSUME NEW s \in Sources
    PROVE  s.layer \in Seq(Length) /\ Len(s.layer) <= MaxPages /\ Len(s.layer) \in Nat
<1>1. s.layer \in Layers
  <2>1. CASE s \in [type : {"PDF"}, locked : BOOLEAN, layer : Layers]
    BY <2>1
  <2>2. CASE s \in [type : {"DOCX"}, locked : {FALSE}, layer : [1 .. 1 -> Length]]
    <3>1. s.layer \in [1 .. 1 -> Length] /\ 1 \in 0 .. MaxPages
      BY <2>2, TextAssumption
    <3> QED BY <3>1 DEF Layers
  <2> QED BY <2>1, <2>2 DEF Sources
<1> QED BY <1>1, LayersAreSequences

LEMMA JoinedIs ==
    ASSUME NEW l \in Seq(Nat)
    PROVE  /\ Joined(l) \in [0 .. Len(l) -> Nat]
           /\ Joined(l)[0] = 0
           /\ \A i \in 1 .. Len(l) : Joined(l)[i] = Joined(l)[i - 1] + Marker + l[i]
<1> DEFINE n == Len(l)
           G == [p \in (1 .. n) \X Nat |-> p[2] + Marker + l[p[1]]]
           Is(f) == f = [i \in 0 .. n |-> IF i = 0 THEN 0 ELSE f[i - 1] + Marker + l[i]]
           J == CHOOSE g : Is(g)
<1>1. n \in Nat /\ 0 \in Nat
  OBVIOUS
<1>2. \A i \in 1 .. n : \A x \in Nat : G[<<i, x>>] = x + Marker + l[i] /\ G[<<i, x>>] \in Nat
  BY TextAssumption
<1> HIDE DEF G, n, J
<1>3. PICK f \in [0 .. n -> Nat] : Follows(f, G, 0, n)
  <2>1. IsStep(G, n, Nat)
    BY <1>2 DEF IsStep
  <2> QED BY <1>1, <2>1, Recursion
<1>4. Is(f)
  <2>1. ASSUME NEW i \in 1 .. n PROVE f[i] = f[i - 1] + Marker + l[i]
    <3>1. i - 1 \in 0 .. n /\ f[i - 1] \in Nat
      BY <1>1
    <3> QED BY <1>2, <1>3, <3>1 DEF Follows
  <2> QED BY <1>1, <1>3, <2>1 DEF Follows
<1>5. Is(J)
  <2> HIDE DEF Is
  <2> QED BY <1>4, Zenon DEF J
<1>6. J[0] = 0 /\ \A i \in 1 .. n : J[i] = J[i - 1] + Marker + l[i]
  BY <1>1, <1>5
<1>7. DOMAIN J = 0 .. n /\ J = [i \in 0 .. n |-> J[i]]
  BY <1>5
<1> DEFINE T == {k \in Nat : k <= n => J[k] \in Nat}
<1>8. 0 \in T
  BY <1>6
<1>9. \A k \in Nat : k \in T => k + 1 \in T
  <2> SUFFICES ASSUME NEW k \in Nat, k \in T, k + 1 <= n PROVE J[k + 1] \in Nat
    OBVIOUS
  <2>1. J[k + 1] = J[k] + Marker + l[k + 1] /\ l[k + 1] \in Nat /\ J[k] \in Nat
    BY <1>1, <1>6 DEF n
  <2> QED BY <2>1, TextAssumption
<1> HIDE DEF T
<1>10. \A k \in 0 .. n : J[k] \in Nat
  <2>1. Nat \subseteq T
    BY <1>8, <1>9, AllNumbers
  <2> QED BY <1>1, <2>1 DEF T
<1>11. J \in [0 .. n -> Nat]
  BY <1>7, <1>10
<1>12. Joined(l) = J
  BY DEF Joined, J, n
<1> QED BY <1>6, <1>11, <1>12 DEF n

(***************************************************************************)
(* Pages are shown from the first to the last: all of them are if the last *)
(* is, which is what cut says.                                             *)
(***************************************************************************)
LEMMA ShownToTheLast ==
    ASSUME masked \in Seq(Nat)
    PROVE  (\A i \in 1 .. Len(masked) : IsShown(i)) <=> ~(Total(masked) > Limit)
<1> DEFINE n == Len(masked)
           J == Joined(masked)
           T == {k \in Nat : k <= n => \A i \in 0 .. k : J[i] <= J[k]}
<1>0. n \in Nat /\ n = Len(masked) /\ \A i \in 1 .. n : masked[i] \in Nat
  OBVIOUS
<1> HIDE DEF n, J
<1>1. /\ n \in Nat /\ J[0] = 0 /\ \A i \in 0 .. n : J[i] \in Nat
      /\ \A i \in 1 .. n : J[i] = J[i - 1] + Marker + masked[i]
      /\ \A i \in 1 .. n : masked[i] \in Nat
  <2>1. /\ J \in [0 .. n -> Nat] /\ J[0] = 0
        /\ \A i \in 1 .. n : J[i] = J[i - 1] + Marker + masked[i]
    BY <1>0, JoinedIs DEF J
  <2> QED BY <1>0, <2>1
<1>2. 0 \in T
  BY <1>1
<1>3. \A k \in Nat : k \in T => k + 1 \in T
  <2> SUFFICES ASSUME NEW k \in Nat, k \in T, k + 1 <= n, NEW i \in 0 .. k + 1 PROVE J[i] <= J[k + 1]
    OBVIOUS
  <2>1. k + 1 \in 1 .. n /\ (k + 1) - 1 = k /\ k \in 0 .. n /\ i \in 0 .. n
    BY <1>1
  <2>2. J[k + 1] = J[k] + Marker + masked[k + 1] /\ J[k] <= J[k + 1]
    BY <1>1, <2>1, TextAssumption
  <2>3. i \in 0 .. k => J[i] <= J[k]
    BY <1>1, <2>1
  <2>4. J[i] \in Nat /\ J[k] \in Nat /\ J[k + 1] \in Nat
    BY <1>1, <2>1
  <2> QED BY <2>2, <2>3, <2>4
<1> HIDE DEF T
<1>4. \A i \in 0 .. n : J[i] <= J[n]
  <2>1. Nat \subseteq T
    BY <1>2, <1>3, AllNumbers
  <2>2. n \in T
    BY <1>1, <2>1
  <2> QED BY <1>1, <2>2 DEF T
<1>5. Total(masked) = J[n] /\ \A i : IsShown(i) <=> J[i] <= Limit
  BY DEF Total, IsShown, J, n
<1>6. (\A i \in 1 .. n : J[i] <= Limit) <=> ~(J[n] > Limit)
  <2>1. CASE n = 0
    BY <1>1, <2>1, TextAssumption
  <2>2. CASE n # 0
    <3>1. n \in 1 .. n /\ n \in 0 .. n /\ J[n] \in Nat /\ 1 .. n \subseteq 0 .. n
      BY <1>1, <2>2
    <3>2. \A i \in 1 .. n : J[i] \in Nat /\ J[i] <= J[n]
      BY <1>1, <1>4, <3>1
    <3> QED BY <3>1, <3>2, TextAssumption
  <2> QED BY <2>1, <2>2
<1> QED BY <1>5, <1>6 DEF n

-----------------------------------------------------------------------------
(***************************************************************************)
(* A rule and its value.                                                   *)
(***************************************************************************)
LEMMA RuleIsTyped ==
    ASSUME NEW r \in AnyRule
    PROVE  \/ r.valueType = "MONEY" /\ r.currency \in Currencies
           \/ r.valueType = "PERCENTAGE"
           \/ r.valueType = "DURATION_DAYS" /\ r.durationDays \in Numbers \cup {Null}
           \/ r.valueType = "DATE" /\ r.dateValue \in Dates
           \/ r.valueType \in {"BOOLEAN", "QUANTITY"}
           \/ r.valueType = "TEXT" /\ r.textValue \in {Null, "text"}
<1> DEFINE Money == [valueType : {"MONEY"}, amountMinor : Numbers \cup {Null}, currency : Currencies]
           Percentage == [valueType : {"PERCENTAGE"}, basisPoints : Numbers \cup {Null}]
           Duration == [valueType : {"DURATION_DAYS"}, durationDays : Numbers \cup {Null}]
           Date == [valueType : {"DATE"}, dateValue : Dates]
           Boolean == [valueType : {"BOOLEAN"}, booleanValue : BOOLEAN \cup {Null}]
           Quantity == [valueType : {"QUANTITY"}, quantityValue : Numbers \cup {Null},
                        quantityUnit : {Null, "unit"}]
           Text == [valueType : {"TEXT"}, textValue : {Null, "text"}]
<1>1. /\ r \in Money => r.valueType = "MONEY" /\ r.currency \in Currencies
      /\ r \in Percentage => r.valueType = "PERCENTAGE"
      /\ r \in Duration => r.valueType = "DURATION_DAYS" /\ r.durationDays \in Numbers \cup {Null}
      /\ r \in Date => r.valueType = "DATE" /\ r.dateValue \in Dates
      /\ r \in Boolean => r.valueType = "BOOLEAN"
      /\ r \in Quantity => r.valueType = "QUANTITY"
      /\ r \in Text => r.valueType = "TEXT" /\ r.textValue \in {Null, "text"}
  OBVIOUS
<1>2. AnyRule = Money \cup Percentage \cup Duration \cup Date \cup Boolean \cup Quantity \cup Text
  BY Zenon DEF AnyRule
<1> HIDE DEF Money, Percentage, Duration, Date, Boolean, Quantity, Text
<1> QED BY <1>1, <1>2

LEMMA ConstantsAreTyped ==
    /\ Null \notin Numbers /\ Numbers \subseteq Int /\ Rules \subseteq AnyRule
    /\ MaxContent \in Nat /\ MaxReasons \in Nat
    /\ Null \notin {"short", "sign", "iso", "long", "wrong", "basic", "extended", "letter", "code"}
<1> QED BY ONLY ResultAssumption

LEMMA ValueByType ==
    ASSUME NEW r
    PROVE  /\ r.valueType = "MONEY" => UsableValue(r) =
                [type |-> "MONEY", amountMinor |-> r.amountMinor, currency |-> ThreeLetters(r.currency)]
           /\ r.valueType = "PERCENTAGE" => UsableValue(r) =
                [type |-> "PERCENTAGE", basisPoints |-> r.basisPoints]
           /\ r.valueType = "DURATION_DAYS" => UsableValue(r) =
                [type |-> "DURATION", valueSeconds |-> r.durationDays * 86400]
           /\ r.valueType = "DATE" => UsableValue(r) = [type |-> "DATE", value |-> r.dateValue]
           /\ r.valueType = "BOOLEAN" => UsableValue(r) = [type |-> "BOOLEAN", value |-> r.booleanValue]
           /\ r.valueType = "QUANTITY" => UsableValue(r) =
                [type |-> "QUANTITY", value |-> r.quantityValue, unit |-> r.quantityUnit]
           /\ r.valueType = "TEXT" => UsableValue(r) = [type |-> "TEXT", value |-> r.textValue]
<1> DEFINE money == [type |-> "MONEY", amountMinor |-> r.amountMinor, currency |-> ThreeLetters(r.currency)]
           percentage == [type |-> "PERCENTAGE", basisPoints |-> r.basisPoints]
           duration == [type |-> "DURATION", valueSeconds |-> r.durationDays * 86400]
           date == [type |-> "DATE", value |-> r.dateValue]
           boolean == [type |-> "BOOLEAN", value |-> r.booleanValue]
           quantity == [type |-> "QUANTITY", value |-> r.quantityValue, unit |-> r.quantityUnit]
           words == [type |-> "TEXT", value |-> r.textValue]
           t == r.valueType
<1>1. UsableValue(r) = CASE t = "MONEY" -> money
                         [] t = "PERCENTAGE" -> percentage
                         [] t = "DURATION_DAYS" -> duration
                         [] t = "DATE" -> date
                         [] t = "BOOLEAN" -> boolean
                         [] t = "QUANTITY" -> quantity
                         [] t = "TEXT" -> words
  BY DEF UsableValue
<1>2. /\ t = "MONEY" => UsableValue(r) = money
      /\ t = "PERCENTAGE" => UsableValue(r) = percentage
      /\ t = "DURATION_DAYS" => UsableValue(r) = duration
      /\ t = "DATE" => UsableValue(r) = date
      /\ t = "BOOLEAN" => UsableValue(r) = boolean
      /\ t = "QUANTITY" => UsableValue(r) = quantity
      /\ t = "TEXT" => UsableValue(r) = words
  <2> HIDE DEF money, percentage, duration, date, boolean, quantity, words, t
  <2> QED BY <1>1
<1> QED BY <1>2

\* what the value of a rule is, by its declared type
Judged(r, v) ==
    /\ v = Fallback <=> ~IsUsable(r)
    /\ v # Fallback => HasDeclaredType(v, r)
    /\ ValueFits(v) <=> ~IsMisfit(r)

LEMMA ValueIsJudged ==
    ASSUME NEW r \in AnyRule
    PROVE  Judged(r, ValueOf(r))
<1> DEFINE v == ValueOf(r)
<1>1. Fallback.type = "TEXT" /\ Fallback.value = "description"
  BY DEF Fallback
<1>2. IsUsable(r) => v = UsableValue(r)
  BY DEF ValueOf
<1>3. ASSUME ~IsUsable(r) PROVE Judged(r, v)
  <2>1. v = Fallback
    BY <1>3 DEF ValueOf
  <2>2. ~IsMisfit(r)
    BY <1>3, RuleIsTyped, ConstantsAreTyped DEF IsUsable, IsMisfit
  <2> QED BY <1>1, <1>3, <2>1, <2>2 DEF Judged, ValueFits
<1> HIDE DEF v
<1>4. ASSUME IsUsable(r), r.valueType = "MONEY" PROVE Judged(r, v)
  <2>1. v.type = "MONEY" /\ v.currency = ThreeLetters(r.currency)
    BY <1>2, <1>4, ValueByType
  <2>2. v # Fallback
    BY <1>1, <2>1
  <2>3. ThreeLetters(r.currency) = "iso" <=> r.currency \notin {"short", "sign"}
    BY <1>4, RuleIsTyped, ConstantsAreTyped DEF ThreeLetters, IsUsable, Currencies
  <2> QED BY <1>4, <2>1, <2>2, <2>3 DEF Judged, HasDeclaredType, TypeOf, ValueFits, IsMisfit, IsUsable
<1>5. ASSUME IsUsable(r), r.valueType = "PERCENTAGE" PROVE Judged(r, v)
  <2>1. v.type = "PERCENTAGE" /\ v.basisPoints = r.basisPoints
    BY <1>2, <1>5, ValueByType
  <2>2. v # Fallback
    BY <1>1, <2>1
  <2>3. r.basisPoints \in BasisPoints
    BY <1>5 DEF IsUsable, IsPercentage
  <2> QED BY <1>5, <2>1, <2>2, <2>3 DEF Judged, HasDeclaredType, TypeOf, ValueFits, IsMisfit
<1>6. ASSUME IsUsable(r), r.valueType = "DURATION_DAYS" PROVE Judged(r, v)
  <2>1. v.type = "DURATION" /\ v.valueSeconds = r.durationDays * 86400
    BY <1>2, <1>6, ValueByType
  <2>2. v # Fallback
    BY <1>1, <2>1
  <2>4. r.durationDays \in Nat
    <3>1. r.durationDays # Null /\ r.durationDays >= 0
      BY <1>6 DEF IsUsable
    <3>2. r.durationDays \in Numbers
      BY <1>6, <3>1, RuleIsTyped
    <3>3. r.durationDays \in Int
      BY <3>2, ConstantsAreTyped
    <3> QED BY <3>1, <3>3
  <2>3. r.durationDays * 86400 >= 0
    BY <2>4
  <2> QED BY <1>6, <2>1, <2>2, <2>3 DEF Judged, HasDeclaredType, TypeOf, ValueFits, IsMisfit
<1>7. ASSUME IsUsable(r), r.valueType = "DATE" PROVE Judged(r, v)
  <2>1. v.type = "DATE" /\ v.value = r.dateValue
    BY <1>2, <1>7, ValueByType
  <2>2. v # Fallback
    BY <1>1, <2>1
  <2>3. r.dateValue \in {"basic", "extended"}
    BY <1>7, RuleIsTyped, ConstantsAreTyped DEF IsUsable, Dates
  <2> QED BY <1>7, <2>1, <2>2, <2>3 DEF Judged, HasDeclaredType, TypeOf, ValueFits, IsMisfit
<1>8. ASSUME IsUsable(r), r.valueType = "BOOLEAN" PROVE Judged(r, v)
  <2>1. v.type = "BOOLEAN"
    BY <1>2, <1>8, ValueByType
  <2>2. v # Fallback
    BY <1>1, <2>1
  <2> QED BY <1>8, <2>1, <2>2 DEF Judged, HasDeclaredType, TypeOf, ValueFits, IsMisfit
<1>9. ASSUME IsUsable(r), r.valueType = "QUANTITY" PROVE Judged(r, v)
  <2>1. v.type = "QUANTITY"
    BY <1>2, <1>9, ValueByType
  <2>2. v # Fallback
    BY <1>1, <2>1
  <2> QED BY <1>9, <2>1, <2>2 DEF Judged, HasDeclaredType, TypeOf, ValueFits, IsMisfit
<1>10. ASSUME IsUsable(r), r.valueType = "TEXT" PROVE Judged(r, v)
  <2>1. r.textValue = "text"
    BY <1>10, RuleIsTyped DEF IsUsable
  <2>2. v.type = "TEXT" /\ v.value = "text"
    BY <1>2, <1>10, <2>1, ValueByType
  <2>3. v # Fallback
    BY <1>1, <2>2
  <2> QED BY <1>10, <2>2, <2>3 DEF Judged, HasDeclaredType, TypeOf, ValueFits, IsMisfit
<1> QED BY <1>3, <1>4, <1>5, <1>6, <1>7, <1>8, <1>9, <1>10, RuleIsTyped DEF v


-----------------------------------------------------------------------------
(***************************************************************************)
(* The answer and what is made of it.                                      *)
(***************************************************************************)
LEMMA AnswerIsTyped ==
    ASSUME NEW most, NEW a \in Answers(most)
    PROVE  /\ a \in [rules : Seq(Rules), review : BOOLEAN, reasons : Seq(Reasons), language : Languages]
           /\ Len(a.rules) \in Nat /\ most \in Int => Len(a.rules) <= most
<1>1. PICK n \in 0 .. most : a.rules \in [1 .. n -> Rules]
  BY DEF Answers
<1>2. PICK k \in 0 .. MaxReasons : a.reasons \in [1 .. k -> Reasons]
  BY DEF Answers
<1>3. a.rules \in Seq(Rules) /\ Len(a.rules) = n /\ n \in Nat
  BY <1>1
<1>4. a.reasons \in Seq(Reasons)
  BY <1>2, ConstantsAreTyped
<1>5. a = [rules |-> a.rules, review |-> a.review, reasons |-> a.reasons, language |-> a.language]
      /\ a.review \in BOOLEAN /\ a.language \in Languages
  BY DEF Answers
<1>6. most \in Int => n <= most
  OBVIOUS
<1> QED BY <1>3, <1>4, <1>5, <1>6

LEMMA AppendIsExtended ==
    ASSUME NEW S, NEW w \in Seq(S), NEW c \in S, NEW x
    PROVE  /\ Append(w, c) \in Seq(S) /\ Len(Append(w, c)) = Len(w) + 1
           /\ Places(Append(w, c), x) = IF c = x THEN Places(w, x) \cup {Len(w) + 1} ELSE Places(w, x)
           /\ Len(w) + 1 \notin Places(w, x) /\ IsFiniteSet(Places(w, x))
<1>1. /\ Append(w, c) \in Seq(S) /\ Len(Append(w, c)) = Len(w) + 1 /\ Len(w) \in Nat
      /\ \A i \in 1 .. Len(w) + 1 : Append(w, c)[i] = IF i <= Len(w) THEN w[i] ELSE c
  BY ExtendedBy
<1> DEFINE q == Append(w, c)
<1> HIDE DEF q
<1>2. Places(q, x) = IF c = x THEN Places(w, x) \cup {Len(w) + 1} ELSE Places(w, x)
  BY <1>1 DEF Places, q
<1>3. IsFiniteSet(1 .. Len(w))
  BY <1>1, FS_Interval
<1>4. IsFiniteSet(Places(w, x))
  BY <1>3, FS_Subset DEF Places
<1> QED BY <1>1, <1>2, <1>4 DEF Places, q

LEMMA CountIsExtended ==
    ASSUME NEW S, NEW w \in Seq(S), NEW c \in S, NEW x
    PROVE  Cardinality(Places(Append(w, c), x)) = Cardinality(Places(w, x)) + (IF c = x THEN 1 ELSE 0)
           /\ Cardinality(Places(w, x)) \in Nat
<1> DEFINE before == Places(w, x)
           after == Places(Append(w, c), x)
<1>1. /\ after = IF c = x THEN before \cup {Len(w) + 1} ELSE before
      /\ Len(w) + 1 \notin before /\ IsFiniteSet(before)
  BY AppendIsExtended
<1> HIDE DEF before, after
<1>2. Cardinality(before) \in Nat /\ Cardinality(before \cup {Len(w) + 1}) = Cardinality(before) + 1
  BY <1>1, FS_CardinalityType, FS_AddElement
<1> QED BY <1>1, <1>2 DEF before, after

LEMMA SummaryIsSome ==
    ASSUME DocumentTyped, Answered
    PROVE  /\ Summary # Null /\ answer # Null
           /\ answer.rules \in Seq(Rules) /\ Len(answer.rules) \in Nat
           /\ answer.reasons \in Seq(Reasons) /\ answer.language \in Languages
<1>1. answer \in [rules : Seq(Rules), review : BOOLEAN, reasons : Seq(Reasons), language : Languages]
  BY DEF DocumentTyped
<1>2. answer # Null
  BY <1>1, ResultAssumption
<1>3. Summary \in [review : BOOLEAN, reasons : Seq(Reasons \cup {"some content was not analyzed"})]
  <2> DEFINE S == Reasons \cup {"some content was not analyzed"}
  <2>1. answer.reasons \in Seq(Reasons) /\ answer.review \in BOOLEAN
    BY <1>1
  <2>0. Reasons \subseteq S /\ CutReason \in S
    BY DEF CutReason
  <2> HIDE DEF S
  <2>2. answer.reasons \in Seq(S)
    BY <2>0, <2>1, SequenceWidens
  <2>3. <<CutReason>> \o answer.reasons \in Seq(S)
    BY <2>0, <2>2
  <2>4. Summary \in [review : BOOLEAN, reasons : Seq(S)]
    BY <2>1, <2>2, <2>3 DEF Summary
  <2> QED BY <2>4 DEF S
<1>4. Summary # Null
  BY <1>3, ResultAssumption
<1> QED BY <1>1, <1>2, <1>4


(***************************************************************************)
(* Unanswered the model has answered nothing is mapped and nothing warned of.  *)
(***************************************************************************)
Unanswered ==
    /\ ~Answered /\ phase \in Phases
    /\ TextTypeOK /\ Len(pages) <= Len(source.layer) /\ TextIsMeasured
    /\ answer = Null /\ values = <<>> /\ warnings = <<>> /\ summary = Null /\ language \in Languages

LEMMA NotAnswered == AnswerInvariant /\ ~Answered => Unanswered
BY DEF AnswerInvariant, DocumentTyped, DocumentTypeOK, Unanswered, ValuesAreOfRules, SummaryIsOfAnswer, Answered

LEMMA UnansweredIsEnough == Unanswered => AnswerInvariant
<1> SUFFICES ASSUME Unanswered PROVE AnswerInvariant
  OBVIOUS
<1>1. ~Mapped /\ Len(values) = 0 /\ Len(warnings) = 0 /\ 1 .. 0 = {} /\ 0 <= MaxContent
  BY ConstantsAreTyped DEF Unanswered, Answered
<1>2. DocumentTyped
  BY <1>1 DEF Unanswered, DocumentTyped, DocumentTypeOK
<1>3. ValuesAreOfRules
  BY <1>1 DEF Unanswered, ValuesAreOfRules
<1>4. WarningsAreOfFallbacks
  <2>1. Places(warnings, "STRUCTURED_VALUE_FALLBACK") = {} /\ Places(values, Fallback) = {}
    BY <1>1 DEF Places
  <2>2. ~Warned("PARTIAL_TEXT_EXTRACTION") /\ warnings \in Seq(Codes)
    BY <1>1 DEF Warned, Unanswered
  <2> QED BY <1>1, <2>1, <2>2 DEF WarningsAreOfFallbacks
<1>5. SummaryIsOfAnswer
  BY <1>1 DEF Unanswered, SummaryIsOfAnswer, Answered, Mapped
<1> QED BY <1>2, <1>3, <1>4, <1>5 DEF AnswerInvariant, Unanswered

LEMMA DocumentStartsUnanswered == DocumentInit => Unanswered
<1> SUFFICES ASSUME DocumentInit PROVE Unanswered
  OBVIOUS
<1>1. /\ source \in Sources /\ pages = <<>> /\ ocrPages = {} /\ method = "UNKNOWN" /\ masked = <<>>
      /\ cut = FALSE /\ phase = "open" /\ failure = "none"
      /\ answer = Null /\ values = <<>> /\ warnings = <<>> /\ summary = Null /\ language = Null
  BY DEF DocumentInit, DocumentStart, TextStart
<1>2. <<>> \in Layers
  <2>1. <<>> \in Seq(Length) /\ Len(<<>>) = 0 /\ 0 <= MaxPages
    BY TextAssumption
  <2> QED BY <2>1, LayersAreSequences
<1>3. TextTypeOK
  BY <1>1, <1>2 DEF TextTypeOK
<1>4. Len(pages) <= Len(source.layer)
  BY <1>1, SourceIsTyped
<1>5. TextIsMeasured
  <2>1. <<>> \in Seq(Nat) /\ Len(<<>>) = 0
    OBVIOUS
  <2>2. Total(<<>>) = 0
    BY <2>1, JoinedIs DEF Total
  <2> QED BY <1>1, <2>1, <2>2, TextAssumption DEF TextIsMeasured
<1> QED BY <1>1, <1>3, <1>4, <1>5 DEF Unanswered, Answered, Mapped, Phases, Languages

LEMMA FailureIsUnanswered ==
    ASSUME Unanswered, NEW code, code # "none", Fail(code), UNCHANGED resultVars
    PROVE  Unanswered'
BY DEF Unanswered, Fail, resultVars, Answered, Mapped, Phases, TextTypeOK, TextIsMeasured

LEMMA PageIsRead ==
    ASSUME Unanswered, phase = "reading", PageHere <= Len(source.layer),
           NEW length \in Length, pages' = Append(pages, length),
           ocrPages' \in {ocrPages, ocrPages \cup {PageHere}},
           UNCHANGED <<source, method, masked, cut, phase, failure>>, UNCHANGED resultVars
    PROVE  Unanswered'
<1>1. /\ pages \in Seq(Length) /\ Len(pages) <= MaxPages /\ source \in Sources
      /\ Len(pages) \in Nat /\ PageHere = Len(pages) + 1
  BY LayersAreSequences DEF Unanswered, TextTypeOK, PageHere
<1>2. Len(source.layer) <= MaxPages /\ Len(source.layer) \in Nat
  BY <1>1, SourceIsTyped
<1>3. pages' \in Seq(Length) /\ Len(pages') = Len(pages) + 1
  BY <1>1
<1>4. pages' \in Layers
  <2>1. Len(pages') <= MaxPages
    BY <1>1, <1>2, <1>3, TextAssumption
  <2> QED BY <1>3, <2>1, LayersAreSequences
<1>5. ocrPages' \subseteq 1 .. Len(pages')
  <2>1. ocrPages \subseteq 1 .. Len(pages)
    BY DEF Unanswered, TextTypeOK
  <2> QED BY <1>1, <1>3, <2>1
<1>6. TextTypeOK'
  BY <1>4, <1>5 DEF Unanswered, TextTypeOK
<1> QED BY <1>1, <1>3, <1>6 DEF Unanswered, Answered, Mapped, TextIsMeasured, resultVars

LEMMA TextIsUnanswered == Unanswered /\ ExtractText => Unanswered'
<1> SUFFICES ASSUME Unanswered, TextNext, UNCHANGED resultVars PROVE Unanswered'
  BY DEF ExtractText
<1>1. CASE Unreadable
  BY <1>1, FailureIsUnanswered DEF Unreadable
<1>2. CASE RaiseOutOfRun \/ Open
  <2>1. UNCHANGED <<source, pages, ocrPages, method, masked, cut, failure>> /\ phase' \in {"error", "reading"}
        /\ phase \in {"open", "reading"}
    BY <1>2 DEF RaiseOutOfRun, Open
  <2> QED BY <2>1 DEF Unanswered, resultVars, Answered, Mapped, Phases, TextTypeOK, TextIsMeasured
<1>3. CASE ReadPage
  <2>1. source.layer[PageHere] \in Length
    <3>1. PageHere \in Nat \ {0} /\ source \in Sources
      BY LayersAreSequences DEF Unanswered, TextTypeOK, PageHere
    <3> QED BY <1>3, <3>1, LayerIsTyped DEF ReadPage
  <2> QED BY <1>3, <2>1, PageIsRead DEF ReadPage
<1>4. CASE OcrPage
  <2>1. ASSUME NEW length \in Length, pages' = Append(pages, length), ocrPages' = WithOcrPage(length),
               UNCHANGED <<source, method, masked, cut, phase, failure>>
        PROVE  Unanswered'
    <3>1. ocrPages' \in {ocrPages, ocrPages \cup {PageHere}}
      BY <2>1 DEF WithOcrPage
    <3> QED BY <1>4, <2>1, <3>1, PageIsRead DEF OcrPage
  <2> QED BY <1>4, <2>1, FailureIsUnanswered DEF OcrPage
<1>5. CASE Extracted
  <2>1. CASE /\ UNCHANGED <<source, pages, ocrPages, masked, cut, failure>>
             /\ phase = "reading" /\ method' = Method /\ phase' = "extracted"
    <3>1. Method \in {"DIGITAL_PDF", "DOCX", "OCR", "HYBRID"}
      BY DEF Method
    <3> QED BY <2>1, <3>1 DEF Unanswered, resultVars, Answered, Mapped, Phases, TextTypeOK, TextIsMeasured
  <2> QED BY <1>5, <2>1, FailureIsUnanswered DEF Extracted
<1>6. CASE MaskAndMeasure
  <2>1. /\ UNCHANGED <<source, pages, ocrPages, method, failure>>
        /\ phase = "extracted" /\ phase' = "asking" /\ masked' \in Masks /\ cut' = (Total(masked') > Limit)
    BY <1>6 DEF MaskAndMeasure, IsCut
  <2>2. masked' \in Seq(Length) /\ Len(masked') <= MaxPages
    <3>1. pages \in Seq(Length) /\ Len(pages) <= MaxPages /\ Len(pages) \in Nat
      BY LayersAreSequences DEF Unanswered, TextTypeOK
    <3>2. masked' \in [1 .. Len(pages) -> Length]
      BY <2>1 DEF Masks
    <3> QED BY <3>1, <3>2
  <2>3. masked' \in Layers /\ masked' \in Seq(Nat)
    <3>1. Length \subseteq Nat
      BY TextAssumption DEF Length
    <3> QED BY <2>2, <3>1, LayersAreSequences, SequenceWidens
  <2>4. TextIsMeasured' /\ cut' \in BOOLEAN
    <3> DEFINE over == Total(masked') > Limit
    <3>2. over \in BOOLEAN
      OBVIOUS
    <3>1. cut' \in BOOLEAN /\ (cut' <=> over)
      <4> HIDE DEF over
      <4>1. cut' = over
        BY <2>1 DEF over
      <4> QED BY <3>2, <4>1, Zenon
    <3> QED BY <2>3, <3>1 DEF TextIsMeasured
  <2> QED BY <2>1, <2>3, <2>4 DEF Unanswered, resultVars, Answered, Mapped, Phases, TextTypeOK
<1> QED BY <1>1, <1>2, <1>3, <1>4, <1>5, <1>6 DEF TextNext


(***************************************************************************)
(* The model answers.                                                      *)
(***************************************************************************)
LEMMA ModelAnswers == Unanswered /\ Answer => AnswerInvariant'
<1> SUFFICES ASSUME Unanswered, Answer PROVE AnswerInvariant'
  OBVIOUS
<1>1. /\ UNCHANGED <<source, pages, ocrPages, method, masked, cut, failure, values, warnings, summary>>
      /\ phase = "asking" /\ phase' = "mapping"
      /\ answer' \in Answers(MaxContent - Len(pages))
      /\ language' = IF answer'.language = Null THEN "code" ELSE answer'.language
  BY DEF Answer
<1>2. ~Mapped /\ ~Mapped' /\ Answered' /\ phase' \in Phases
  BY <1>1 DEF Mapped, Answered, Phases
<1>3. Len(pages) \in Nat
  BY LayersAreSequences DEF Unanswered, TextTypeOK
<1>4. /\ answer' \in [rules : Seq(Rules), review : BOOLEAN, reasons : Seq(Reasons), language : Languages]
      /\ Len(answer'.rules) \in Nat /\ Len(answer'.rules) <= MaxContent - Len(pages)
  <2>1. MaxContent - Len(pages) \in Int
    BY <1>3, ConstantsAreTyped
  <2> QED BY <1>1, <2>1, AnswerIsTyped
<1>5. DocumentTypeOK'
  <2>1. TextTypeOK'
    BY <1>1 DEF Unanswered, TextTypeOK
  <2>2. Len(pages') + Len(answer'.rules) <= MaxContent
    BY <1>1, <1>3, <1>4, ConstantsAreTyped
  <2>3. answer'.rules \in Seq(Rules) /\ \A i \in 1 .. Len(answer'.rules) : answer'.rules[i] \in Rules
    BY <1>4
  <2>4. Len(values') <= MaxContent /\ language' \in Languages /\ summary' = Null
    <3>1. answer'.language \in Languages
      BY <1>4
    <3> QED BY <1>1, <3>1, ConstantsAreTyped DEF Unanswered, Languages
  <2> QED BY <1>2, <2>1, <2>2, <2>3, <2>4 DEF DocumentTypeOK
<1>6. DocumentTyped'
  BY <1>1, <1>2, <1>4, <1>5 DEF DocumentTyped, Unanswered
<1>7. TextIsMeasured'
  BY <1>1 DEF Unanswered, TextIsMeasured
<1>8. values' = <<>> /\ warnings' = <<>> /\ Len(values') = 0 /\ Len(warnings') = 0 /\ 1 .. 0 = {}
  BY <1>1 DEF Unanswered
<1>9. ValuesAreOfRules'
  BY <1>2, <1>4, <1>8 DEF ValuesAreOfRules
<1>10. WarningsAreOfFallbacks'
  <2>1. Places(warnings', "STRUCTURED_VALUE_FALLBACK") = {} /\ Places(values', Fallback) = {}
    BY <1>8 DEF Places
  <2>2. ~Warned("PARTIAL_TEXT_EXTRACTION")' /\ warnings' \in Seq(Codes)
    BY <1>8 DEF Warned
  <2> QED BY <1>2, <2>1, <2>2 DEF WarningsAreOfFallbacks
<1>11. SummaryIsOfAnswer'
  BY <1>1, <1>2 DEF Unanswered, SummaryIsOfAnswer
<1> QED BY <1>6, <1>7, <1>9, <1>10, <1>11 DEF AnswerInvariant

(***************************************************************************)
(* A rule is mapped: one value, and a warning if it is the fallback.       *)
(***************************************************************************)
LEMMA RuleIsMapped == AnswerInvariant /\ MapRule => AnswerInvariant'
<1> SUFFICES ASSUME AnswerInvariant, MapRule PROVE AnswerInvariant'
  OBVIOUS
<1> DEFINE n == Len(values) + 1
           v == ValueOf(answer.rules[n])
<1>1. /\ UNCHANGED <<source, pages, ocrPages, method, masked, cut, phase, failure, answer, summary, language>>
      /\ phase = "mapping" /\ Len(values) < Len(answer.rules)
  BY DEF MapRule, textVars
<1>2. ~Mapped /\ ~Mapped' /\ Answered /\ Answered'
  BY <1>1 DEF Mapped, Answered
<1>3. answer.rules \in Seq(Rules) /\ Len(answer.rules) \in Nat /\ answer # Null
  BY <1>2, SummaryIsSome DEF AnswerInvariant
<1>4. values \in Seq(RuleValues) /\ Len(values) \in Nat /\ warnings \in Seq(Codes)
  BY DEF AnswerInvariant, ValuesAreOfRules, WarningsAreOfFallbacks
<1>5. answer.rules[n] \in Rules /\ answer.rules[n] \in AnyRule /\ n \in 1 .. Len(answer.rules)
  BY <1>1, <1>3, <1>4, ConstantsAreTyped
<1>6. /\ values' = Append(values, v)
      /\ warnings' = IF v = Fallback THEN Append(warnings, "STRUCTURED_VALUE_FALLBACK") ELSE warnings
  <2>1. v = Fallback <=> ~IsUsable(answer.rules[n])
    BY <1>5, ValueIsJudged DEF Judged
  <2> QED BY <2>1 DEF MapRule, ValueOf
<1>7. v \in RuleValues
  BY <1>5 DEF RuleValues
<1> HIDE DEF v
<1>8. values' \in Seq(RuleValues) /\ Len(values') = n
  BY <1>4, <1>6, <1>7
<1>9. ValuesAreOfRules'
  <2>1. ASSUME NEW i \in 1 .. Len(values') PROVE values'[i] = ValueOf(answer'.rules[i])
    <3>1. CASE i = n
      <4>1. values'[i] = v
        BY <1>4, <1>6, <3>1
      <4> QED BY <1>1, <3>1, <4>1 DEF v
    <3>2. CASE i \in 1 .. Len(values)
      <4>1. values'[i] = values[i] /\ values[i] = ValueOf(answer.rules[i])
        BY <1>4, <1>6, <3>2 DEF AnswerInvariant, ValuesAreOfRules
      <4> QED BY <1>1, <4>1
    <3> QED BY <1>4, <1>8, <3>1, <3>2
  <2>2. Len(values') <= Len(answer'.rules)
    BY <1>1, <1>3, <1>4, <1>8
  <2> QED BY <1>2, <1>8, <2>1, <2>2 DEF ValuesAreOfRules
<1>10. WarningsAreOfFallbacks'
  <2>1. Cardinality(Places(values', Fallback)) =
           Cardinality(Places(values, Fallback)) + (IF v = Fallback THEN 1 ELSE 0)
    BY <1>4, <1>6, <1>7, CountIsExtended
  <2>2. /\ warnings' \in Seq(Codes)
        /\ Cardinality(Places(warnings', "STRUCTURED_VALUE_FALLBACK")) =
             Cardinality(Places(warnings, "STRUCTURED_VALUE_FALLBACK")) + (IF v = Fallback THEN 1 ELSE 0)
        /\ Places(warnings', "PARTIAL_TEXT_EXTRACTION") = Places(warnings, "PARTIAL_TEXT_EXTRACTION")
    <3>1. "STRUCTURED_VALUE_FALLBACK" \in Codes
      BY DEF Codes
    <3>2. Cardinality(Places(warnings, "STRUCTURED_VALUE_FALLBACK")) \in Nat
      BY <1>4, <3>1, CountIsExtended
    <3>3. CASE v = Fallback
      BY <1>4, <1>6, <3>1, <3>3, CountIsExtended, AppendIsExtended
    <3>4. CASE v # Fallback
      BY <1>4, <1>6, <3>2, <3>4
    <3> QED BY <3>3, <3>4
  <2>3. Warned("PARTIAL_TEXT_EXTRACTION")' <=> Warned("PARTIAL_TEXT_EXTRACTION")
    BY <2>2 DEF Warned, Places
  <2> QED BY <1>2, <2>1, <2>2, <2>3 DEF AnswerInvariant, WarningsAreOfFallbacks
<1>11. DocumentTyped'
  <2>1. Len(values') <= MaxContent
    <3>1. Len(pages) + Len(answer.rules) <= MaxContent /\ Len(pages) \in Nat
      BY <1>3, LayersAreSequences DEF AnswerInvariant, DocumentTyped, DocumentTypeOK, TextTypeOK
    <3> QED BY <1>1, <1>3, <1>4, <1>8, <3>1, ConstantsAreTyped
  <2> QED BY <1>1, <1>2, <2>1 DEF AnswerInvariant, DocumentTyped, DocumentTypeOK, TextTypeOK
<1>12. TextIsMeasured' /\ SummaryIsOfAnswer'
  BY <1>1, <1>2 DEF AnswerInvariant, TextIsMeasured, SummaryIsOfAnswer
<1> QED BY <1>9, <1>10, <1>11, <1>12 DEF AnswerInvariant


(***************************************************************************)
(* The answer is summed up: OCR and the cut are warned of, no fallback is. *)
(***************************************************************************)
LEMMA WarningIsAdded ==
    ASSUME NEW w \in Seq(Codes), NEW code \in Codes \ {"STRUCTURED_VALUE_FALLBACK"}
    PROVE  /\ w \o <<code>> \in Seq(Codes) /\ w \o <<>> = w
           /\ Cardinality(Places(w \o <<code>>, "STRUCTURED_VALUE_FALLBACK")) =
                Cardinality(Places(w, "STRUCTURED_VALUE_FALLBACK"))
           /\ Places(w \o <<code>>, "PARTIAL_TEXT_EXTRACTION") # {} <=>
                Places(w, "PARTIAL_TEXT_EXTRACTION") # {} \/ code = "PARTIAL_TEXT_EXTRACTION"
<1>1. w \o <<code>> = Append(w, code) /\ w \o <<>> = w
  OBVIOUS
<1>2. Append(w, code) \in Seq(Codes)
  OBVIOUS
<1>3. Places(Append(w, code), "STRUCTURED_VALUE_FALLBACK") = Places(w, "STRUCTURED_VALUE_FALLBACK")
  BY AppendIsExtended
<1>4. Places(Append(w, code), "PARTIAL_TEXT_EXTRACTION") =
        IF code = "PARTIAL_TEXT_EXTRACTION" THEN Places(w, "PARTIAL_TEXT_EXTRACTION") \cup {Len(w) + 1}
        ELSE Places(w, "PARTIAL_TEXT_EXTRACTION")
  BY AppendIsExtended
<1> QED BY <1>1, <1>2, <1>3, <1>4

LEMMA WarnedByPlace == \A code : Warned(code) <=> Places(warnings, code) # {}
BY DEF Warned, Places

LEMMA AnswerIsSummarized == AnswerInvariant /\ Summarize => AnswerInvariant'
<1> SUFFICES ASSUME AnswerInvariant, Summarize PROVE AnswerInvariant'
  OBVIOUS
<1>1. /\ UNCHANGED <<source, pages, ocrPages, method, masked, cut, failure, answer, values, language>>
      /\ phase = "mapping" /\ phase' = "validating"
      /\ Len(values) = Len(answer.rules) /\ summary' = Summary
      /\ warnings' = warnings \o OcrWarnings \o CutWarnings
  BY DEF Summarize
<1>2. ~Mapped /\ Mapped' /\ Answered /\ Answered' /\ phase' \in Phases
  BY <1>1 DEF Mapped, Answered, Phases
<1>3. Summary # Null /\ Summary' = Summary
  BY <1>1, <1>2, SummaryIsSome DEF AnswerInvariant, Summary
<1>4. WarningsAreOfFallbacks'
  <2> DEFINE reported == warnings \o OcrWarnings
             all == reported \o CutWarnings
             Fallbacks(w) == Cardinality(Places(w, "STRUCTURED_VALUE_FALLBACK"))
             Cuts(w) == Places(w, "PARTIAL_TEXT_EXTRACTION") # {}
  <2>1. warnings \in Seq(Codes) /\ ~Cuts(warnings) /\ cut \in BOOLEAN
    BY <1>2, WarnedByPlace DEF AnswerInvariant, WarningsAreOfFallbacks, DocumentTyped, DocumentTypeOK, TextTypeOK
  <2>2. reported \in Seq(Codes) /\ Fallbacks(reported) = Fallbacks(warnings) /\ ~Cuts(reported)
    <3>1. "OCR_USED" \in Codes \ {"STRUCTURED_VALUE_FALLBACK"} /\ "OCR_USED" # "PARTIAL_TEXT_EXTRACTION"
      BY DEF Codes
    <3>2. OcrWarnings \in {<<>>, <<"OCR_USED">>}
      BY DEF OcrWarnings
    <3> QED BY <2>1, <3>1, <3>2, WarningIsAdded
  <2> HIDE DEF reported
  <2>3. all \in Seq(Codes) /\ Fallbacks(all) = Fallbacks(reported) /\ (Cuts(all) <=> cut)
    <3>1. "PARTIAL_TEXT_EXTRACTION" \in Codes \ {"STRUCTURED_VALUE_FALLBACK"}
      BY DEF Codes
    <3>2. CASE cut
      <4>1. CutWarnings = <<"PARTIAL_TEXT_EXTRACTION">>
        BY <3>2 DEF CutWarnings
      <4> QED BY <2>2, <3>1, <3>2, <4>1, WarningIsAdded
    <3>3. CASE ~cut
      <4>1. CutWarnings = <<>>
        BY <3>3 DEF CutWarnings
      <4> QED BY <2>2, <3>1, <3>3, <4>1, WarningIsAdded
    <3> QED BY <3>2, <3>3
  <2>4. warnings' = all /\ values' = values
    BY <1>1 DEF reported
  <2>5. Warned("PARTIAL_TEXT_EXTRACTION")' <=> cut'
    <3>1. Warned("PARTIAL_TEXT_EXTRACTION")' <=> Places(warnings', "PARTIAL_TEXT_EXTRACTION") # {}
      BY DEF Warned, Places
    <3> QED BY <1>1, <2>3, <2>4, <3>1
  <2>6. Fallbacks(warnings) = Cardinality(Places(values, Fallback))
    BY DEF AnswerInvariant, WarningsAreOfFallbacks
  <2> HIDE DEF all
  <2> QED BY <1>2, <2>2, <2>3, <2>4, <2>5, <2>6 DEF WarningsAreOfFallbacks
<1>5. DocumentTyped'
  BY <1>1, <1>2, <1>3 DEF AnswerInvariant, DocumentTyped, DocumentTypeOK, TextTypeOK
<1>6. ValuesAreOfRules' /\ TextIsMeasured'
  BY <1>1, <1>2 DEF AnswerInvariant, ValuesAreOfRules, TextIsMeasured
<1>7. SummaryIsOfAnswer'
  BY <1>1, <1>2, <1>3 DEF AnswerInvariant, SummaryIsOfAnswer
<1> QED BY <1>4, <1>5, <1>6, <1>7 DEF AnswerInvariant

(***************************************************************************)
(* The event is held to its schema, and at other times nothing moves.      *)
(***************************************************************************)
LEMMA EventIsValidated == AnswerInvariant /\ ValidateOutgoing => AnswerInvariant'
<1> SUFFICES ASSUME AnswerInvariant, ValidateOutgoing PROVE AnswerInvariant'
  OBVIOUS
<1>1. /\ UNCHANGED <<source, pages, ocrPages, method, masked, cut, failure>>
      /\ UNCHANGED <<answer, values, warnings, summary, language>>
      /\ phase = "validating" /\ phase' = IF EventFits THEN "completed" ELSE "violation"
  BY DEF ValidateOutgoing, resultVars
<1>2. Mapped /\ Mapped' /\ Answered /\ Answered' /\ phase' \in Phases
  BY <1>1 DEF Mapped, Answered, Phases
<1>3. (EventFits' <=> EventFits) /\ Summary' = Summary
  BY <1>1 DEF EventFits, Summary
<1>4. DocumentTyped'
  BY <1>1, <1>2 DEF AnswerInvariant, DocumentTyped, DocumentTypeOK, TextTypeOK
<1>5. ValuesAreOfRules' /\ TextIsMeasured'
  BY <1>1, <1>2 DEF AnswerInvariant, ValuesAreOfRules, TextIsMeasured
<1>6. WarningsAreOfFallbacks'
  BY <1>1, <1>2 DEF AnswerInvariant, WarningsAreOfFallbacks, Warned
<1>7. SummaryIsOfAnswer'
  BY <1>1, <1>2, <1>3 DEF AnswerInvariant, SummaryIsOfAnswer
<1> QED BY <1>4, <1>5, <1>6, <1>7 DEF AnswerInvariant

LEMMA DocumentRests == AnswerInvariant /\ UNCHANGED documentVars => AnswerInvariant'
<1> SUFFICES ASSUME AnswerInvariant, UNCHANGED documentVars PROVE AnswerInvariant'
  OBVIOUS
<1>1. /\ UNCHANGED <<source, pages, ocrPages, method, masked, cut, phase, failure>>
      /\ UNCHANGED <<answer, values, warnings, summary, language>>
  BY DEF documentVars, textVars, resultVars
<1>2. (Mapped' <=> Mapped) /\ (Answered' <=> Answered) /\ (EventFits' <=> EventFits) /\ Summary' = Summary
  BY <1>1 DEF Mapped, Answered, EventFits, Summary
<1>3. DocumentTyped'
  BY <1>1, <1>2 DEF AnswerInvariant, DocumentTyped, DocumentTypeOK, TextTypeOK
<1>4. ValuesAreOfRules' /\ TextIsMeasured'
  BY <1>1, <1>2 DEF AnswerInvariant, ValuesAreOfRules, TextIsMeasured
<1>5. WarningsAreOfFallbacks'
  BY <1>1, <1>2 DEF AnswerInvariant, WarningsAreOfFallbacks, Warned
<1>6. SummaryIsOfAnswer'
  BY <1>1, <1>2 DEF AnswerInvariant, SummaryIsOfAnswer
<1> QED BY <1>3, <1>4, <1>5, <1>6 DEF AnswerInvariant

(***************************************************************************)
(* The invariant, of documents of any size and whatever the model answers. *)
(***************************************************************************)
THEOREM AnswersKeepInvariant == DocumentSpec => []AnswerInvariant
<1>1. DocumentInit => AnswerInvariant
  BY DocumentStartsUnanswered, UnansweredIsEnough
<1>2. Unanswered' => AnswerInvariant'
  BY UnansweredIsEnough, PTL
<1>3. AnswerInvariant /\ [DocumentNext]_documentVars => AnswerInvariant'
  <2> SUFFICES ASSUME AnswerInvariant, [DocumentNext]_documentVars PROVE AnswerInvariant'
    OBVIOUS
  <2>1. CASE ExtractText
    <3>1. ~Answered
      BY <2>1 DEF ExtractText, TextNext, Unreadable, RaiseOutOfRun, Open, ReadPage, OcrPage, Extracted,
                  MaskAndMeasure, Answered, Mapped
    <3> QED BY <1>2, <2>1, <3>1, NotAnswered, TextIsUnanswered
  <2>2. CASE Answer
    <3>1. ~Answered
      BY <2>2 DEF Answer, Answered, Mapped
    <3> QED BY <2>2, <3>1, NotAnswered, ModelAnswers
  <2>3. CASE NoAnswer
    <3>1. ~Answered
      BY <2>3 DEF NoAnswer, Answered, Mapped
    <3> QED BY <1>2, <2>3, <3>1, NotAnswered, FailureIsUnanswered DEF NoAnswer
  <2> QED BY <2>1, <2>2, <2>3, RuleIsMapped, AnswerIsSummarized, EventIsValidated, DocumentRests
          DEF DocumentNext
<1> QED BY <1>1, <1>3, PTL DEF DocumentSpec

(***************************************************************************)
(* A document is left to the model's own judgement exactly if the model    *)
(* was shown all of it, however the masks changed its length               *)
(* (pipeline.py:147-176, llm.py:163).                                      *)
(***************************************************************************)
THEOREM CutsAreReviewed == DocumentSpec => []CutIsReviewed
<1>1. AnswerInvariant => CutIsReviewed
  <2> SUFFICES ASSUME AnswerInvariant, Mapped PROVE CutIsReviewed
    BY DEF CutIsReviewed
  <2>1. (\A i \in 1 .. Len(masked) : IsShown(i)) <=> ~cut
    BY ShownToTheLast DEF AnswerInvariant, TextIsMeasured
  <2>2. (Warned("PARTIAL_TEXT_EXTRACTION") <=> cut) /\ summary = Summary
    BY DEF AnswerInvariant, WarningsAreOfFallbacks, SummaryIsOfAnswer
  <2>3. answer.reasons \in Seq(Reasons)
    BY SummaryIsSome DEF AnswerInvariant, Answered
  <2>4. CASE cut
    <3>1. summary = [review |-> TRUE, reasons |-> <<CutReason>> \o answer.reasons]
      BY <2>2, <2>4 DEF Summary
    <3>2. Head(<<CutReason>> \o answer.reasons) = CutReason
          /\ Tail(<<CutReason>> \o answer.reasons) = answer.reasons
      BY <2>3
    <3> QED BY <2>1, <2>2, <2>4, <3>1, <3>2 DEF CutIsReviewed
  <2>5. CASE ~cut
    BY <2>1, <2>2, <2>5 DEF CutIsReviewed, Summary
  <2> QED BY <2>4, <2>5
<1> QED BY <1>1, AnswersKeepInvariant, PTL

(***************************************************************************)
(* Every rule has a value, of its declared type or a fallback, and as many *)
(* fallbacks are warned of as there are (mapping.py:131-172).              *)
(***************************************************************************)
THEOREM FallbacksHaveWarnings == DocumentSpec => []FallbacksAreWarned
<1>1. ASSUME AnswerInvariant, Mapped PROVE FallbacksAreWarned
  <2>1. answer.rules \in Seq(Rules)
    BY <1>1, SummaryIsSome DEF AnswerInvariant, Answered
  <2>2. Len(values) = Len(answer.rules) /\ \A i \in 1 .. Len(values) : values[i] = ValueOf(answer.rules[i])
    BY <1>1 DEF AnswerInvariant, ValuesAreOfRules
  <2>3. ASSUME NEW i \in 1 .. Len(values), values[i] # Fallback
        PROVE  HasDeclaredType(values[i], answer.rules[i])
    <3>1. answer.rules[i] \in AnyRule
      BY <2>1, <2>2, ConstantsAreTyped
    <3>2. Judged(answer.rules[i], values[i])
      BY <2>2, <3>1, ValueIsJudged
    <3> QED BY <2>3, <3>2 DEF Judged
  <2>4. Cardinality(Places(warnings, "STRUCTURED_VALUE_FALLBACK")) = Cardinality(Places(values, Fallback))
    BY <1>1 DEF AnswerInvariant, WarningsAreOfFallbacks
  <2> QED BY <2>2, <2>3, <2>4 DEF FallbacksAreWarned
<1>2. AnswerInvariant => FallbacksAreWarned
  <2>1. ~Mapped => FallbacksAreWarned
    BY Zenon DEF FallbacksAreWarned
  <2> QED BY <1>1, <2>1
<1> QED BY <1>2, AnswersKeepInvariant, PTL

(***************************************************************************)
(* The outgoing check discards a finished analysis for four kinds of       *)
(* answer only (mapping.py:131-172, pipeline.py:155-176,                   *)
(* validation.py:51-71).                                                   *)
(***************************************************************************)
THEOREM MisfitsAreLost == DocumentSpec => []OnlyMisfitsAreLost
<1>1. AnswerInvariant /\ OcrInvariant => OnlyMisfitsAreLost
  <2> SUFFICES ASSUME AnswerInvariant, OcrInvariant, phase \in {"completed", "violation"}
               PROVE  OnlyMisfitsAreLost
    BY DEF OnlyMisfitsAreLost
  <2>1. Mapped /\ Answered
    BY DEF Mapped, Answered
  <2>2. /\ answer.rules \in Seq(Rules) /\ answer.reasons \in Seq(Reasons) /\ answer.language \in Languages
    BY <2>1, SummaryIsSome DEF AnswerInvariant
  <2>3. (\A i \in 1 .. Len(values) : ValueFits(values[i])) <=>
            ~ \E i \in 1 .. Len(answer.rules) : IsMisfit(answer.rules[i])
    <3>1. Len(values) = Len(answer.rules) /\ \A i \in 1 .. Len(values) : values[i] = ValueOf(answer.rules[i])
      BY <2>1 DEF AnswerInvariant, ValuesAreOfRules
    <3>2. ASSUME NEW i \in 1 .. Len(answer.rules)
          PROVE  ValueFits(values[i]) <=> ~IsMisfit(answer.rules[i])
      <4>1. answer.rules[i] \in AnyRule
        BY <2>2, ConstantsAreTyped
      <4>2. Judged(answer.rules[i], values[i])
        BY <3>1, <4>1, ValueIsJudged
      <4> QED BY <4>2 DEF Judged
    <3> QED BY <3>1, <3>2
  <2>4. (\A i \in 1 .. Len(summary.reasons) : summary.reasons[i] # "") <=>
            ~ \E i \in 1 .. Len(answer.reasons) : answer.reasons[i] = ""
    <3>1. summary = Summary
      BY <2>1 DEF AnswerInvariant, SummaryIsOfAnswer
    <3>2. CASE cut
      <4> DEFINE all == <<CutReason>> \o answer.reasons
      <4>1. /\ Len(all) = Len(answer.reasons) + 1 /\ all[1] = CutReason /\ Len(answer.reasons) \in Nat
            /\ \A i \in 1 .. Len(answer.reasons) : all[i + 1] = answer.reasons[i]
        BY <2>2
      <4>2. summary.reasons = all
        BY <3>1, <3>2 DEF Summary
      <4>3. CutReason # ""
        BY DEF CutReason
      <4> HIDE DEF all
      <4>4. \A i \in 1 .. Len(all) : i # 1 => i - 1 \in 1 .. Len(answer.reasons) /\ all[i] = answer.reasons[i - 1]
        <5> SUFFICES ASSUME NEW i \in 1 .. Len(all), i # 1
                     PROVE  i - 1 \in 1 .. Len(answer.reasons) /\ all[i] = answer.reasons[i - 1]
          OBVIOUS
        <5>1. i - 1 \in 1 .. Len(answer.reasons) /\ (i - 1) + 1 = i
          BY <4>1
        <5> QED BY <4>1, <5>1
      <4>5. \A i \in 1 .. Len(answer.reasons) : i + 1 \in 1 .. Len(all)
        BY <4>1
      <4> QED BY <4>1, <4>2, <4>3, <4>4, <4>5
    <3>3. CASE ~cut
      BY <3>1, <3>3 DEF Summary
    <3> QED BY <3>2, <3>3
  <2>5. language = "code" <=> answer.language # "letter"
    BY <2>1, <2>2, ConstantsAreTyped DEF AnswerInvariant, SummaryIsOfAnswer, Languages
  <2>6. Len(pages) >= 1
    <3>1. pages \in Seq(Length) /\ ~AllBlank
      BY <2>1 DEF OcrInvariant
    <3> QED BY <3>1 DEF AllBlank
  <2>7. phase = "completed" <=> EventFits
    BY DEF AnswerInvariant, SummaryIsOfAnswer
  <2> QED BY <2>3, <2>4, <2>5, <2>6, <2>7 DEF EventFits, OnlyMisfitsAreLost
<1> QED BY <1>1, AnswersKeepInvariant, ReadingKeepsInvariant, PTL

-----------------------------------------------------------------------------
(***************************************************************************)
(* The passes together.  Seen alone, each pass follows its own             *)
(* specification: a pass not followed rests.                               *)
(***************************************************************************)
THEOREM PassesImplementTheirSpecs ==
    Spec => DocumentSpec /\ NamesSpec /\ MergeSpec /\ LegalSpec /\ VideoSpec
<1>1. Init => DocumentInit /\ NamesInit /\ MergeInit /\ LegalInit /\ VideoInit
  <2> SUFFICES ASSUME Init PROVE DocumentInit /\ NamesInit /\ MergeInit /\ VideoInit
    BY DEF Init
  <2>1. DocumentInit
    <3>1. NoSource \in Sources
      <4>1. <<>> \in Layers
        BY TextAssumption DEF Layers
      <4> QED BY <4>1 DEF NoSource, Sources
    <3> QED BY <3>1 DEF Init, Followed, DocumentInit, DocumentStart, TextStart
  <2>2. NamesInit
    <3>1. <<>> \in Texts
      BY MaskingAssumption DEF Texts
    <3> QED BY <3>1 DEF Init, Followed, NamesInit, NamesStart
  <2>3. MergeInit
    <3>1. <<>> \in MentionLists
      BY MergeAssumption DEF MentionLists
    <3> QED BY <3>1 DEF Init, Followed, MergeInit, MergeStart
  <2>4. VideoInit
    <3>1. <<>> \in Upto(Item, MaxExpected)
      BY VideoAssumption DEF Upto
    <3> QED BY <3>1 DEF Init, Followed, VideoInit, VideoStart
  <2> QED BY <2>1, <2>2, <2>3, <2>4
<1>2. [Next]_<<pass, passVars>> =>
          /\ [DocumentNext]_documentVars /\ [NamesNext]_namesVars /\ [MergeNext]_mergeVars
          /\ [LegalNext]_legalVars /\ [VideoNext]_videoVars
  BY DEF Next, FollowDocument, FollowNames, FollowParties, FollowLegal, FollowVideo, passVars
<1> QED BY <1>1, <1>2, PTL DEF Spec, DocumentSpec, NamesSpec, MergeSpec, LegalSpec, VideoSpec

(***************************************************************************)
(* Every pass works on what it was given and keeps within its limits, for  *)
(* every instance (frames.py:47-52, text_extraction.py:106-116).           *)
(***************************************************************************)
THEOREM ResultsAreTyped == Spec => []ResultsTypeOK
<1>1. Spec => [](pass \in Pass)
  <2>1. Init => pass \in Pass
    BY DEF Init
  <2>2. pass \in Pass /\ [Next]_<<pass, passVars>> => (pass \in Pass)'
    BY DEF Next, FollowDocument, FollowNames, FollowParties, FollowLegal, FollowVideo
  <2> QED BY <2>1, <2>2, PTL DEF Spec
<1>2. AnswerInvariant /\ MergeInvariant /\ VideoInvariant /\ pass \in Pass => ResultsTypeOK
  BY DEF AnswerInvariant, DocumentTyped, MergeInvariant, VideoInvariant, EvidenceTypeOK, ResultsTypeOK
<1> QED BY <1>1, <1>2, PassesImplementTheirSpecs, AnswersKeepInvariant, MergeKeepsInvariant,
           AnalysisKeepsInvariant, PTL

(***************************************************************************)
(* What the run checks of a document, for every instance                   *)
(* (text_extraction.py:118-142, pipeline.py:147-176, mapping.py:131-172).  *)
(***************************************************************************)
THEOREM DocumentsAreRight ==
    Spec => []OcrIsReported /\ []CutIsReviewed /\ []FallbacksAreWarned /\ []OnlyMisfitsAreLost
BY PassesImplementTheirSpecs, OcrTextIsReported, CutsAreReviewed, FallbacksHaveWarnings, MisfitsAreLost, PTL

(***************************************************************************)
(* What it checks of the parties and the legal bases, whatever the         *)
(* mentions and the corpora (mapping.py:73-120, 175-190,                   *)
(* legal_rag.py:31-44, 62-84).                                             *)
(***************************************************************************)
THEOREM RulesAndPartiesAreRight == Spec => []PartiesAreRight /\ []BasisIsNearest
BY PassesImplementTheirSpecs, MergeIsRight, BasesAreNearest, PTL

(***************************************************************************)
(* What it checks of the masking of names, whatever the text, the entities *)
(* found in it and the answer (name_masking.py:90-129).                    *)
(***************************************************************************)
THEOREM NamesAreRight == Spec => []NamesAreReplaced /\ []NamesComeBack
BY PassesImplementTheirSpecs, NoNameIsSent, EveryNameComesBack, PTL

(***************************************************************************)
(* What it checks of a video or photo, whatever the predictions            *)
(* (frames.py:47-61, aggregation.py:43-145).                               *)
(***************************************************************************)
THEOREM EvidenceIsRight ==
    Spec => []SamplesAreSpaced /\ []ReviewIffEvidence /\ []EveryClassIsReported /\ []DamageIsWorst
BY PassesImplementTheirSpecs, SamplesKeepTheirDistance, ReviewNeedsEvidence, ClassesAreReported,
   WorstDamageIsReported, PTL

=============================================================================
