------------------------------ MODULE LegalBasis ------------------------------
(***************************************************************************)
(* The legal articles that a document's rules are given as their basis:    *)
(* legal_corpus/scripts/build_embeddings.py writes two files that belong   *)
(* together, an image ships them, and legal_rag.py loads them once per     *)
(* process, on the first of the two retrievals a document makes            *)
(* (llm.py:132, mapping.py:278).  Retrieval is advisory: whatever fails,   *)
(* the document is mapped, without bases.                                  *)
(*                                                                         *)
(* A file is the number of the build that wrote it, 0 if there is none;    *)
(* corpora[b] is the articles of build b, in order.  Cosine similarity is  *)
(* the constant score.                                                     *)
(***************************************************************************)
EXTENDS Naturals, Sequences

CONSTANTS
    Article,
    Accepted,       \* articles with a number and a source of the closed enum
    Query,          \* what rules ask for: title and description
    score,          \* score[q][a]
    MinScore,       \* _LEGAL_BASIS_MIN_SCORE
    corpora,        \* the articles of each build
    MaxRules,       \* bounds the rules of a document
    None            \* no basis

Builds == 0 .. Len(corpora)

ASSUME LegalAssumption ==
    /\ Accepted \subseteq Article
    /\ None \notin Article
    /\ score \in [Query -> [Article -> Nat]]
    /\ corpora \in Seq(Seq(Article) \ {<<>>})

VARIABLES
    files,          \* legal_embeddings.npz and legal_chunks.json in the repository
    building,       \* the build that has written the first of them
    image,          \* the two files as the worker's image has them
    cache,          \* _normalized_vectors and _chunks of the process
    use,            \* what the document retrieves articles for, if it does
    step,           \* where that retrieval is
    rules,          \* its rules
    bases           \* the basis of each, once it is mapped

legalVars == <<files, building, image, cache, use, step, rules, bases>>

NoFiles == [vectors |-> 0, chunks |-> 0]

LegalInit ==
    /\ files = NoFiles
    /\ building = 0
    /\ image = NoFiles
    /\ cache = NoFiles
    /\ use = "none"
    /\ step = "load"
    /\ rules = <<>>
    /\ bases = <<>>

InStep(s) == use # "none" /\ step = s
Goto(u, s) == use' = u /\ step' = s

-----------------------------------------------------------------------------
(***************************************************************************)
(* Building and shipping the corpus.                                       *)
(***************************************************************************)
WriteVectors ==
    /\ building = 0 /\ files.vectors < Len(corpora)
    /\ building' = files.vectors + 1
    /\ files' = [files EXCEPT !.vectors = building']
    /\ UNCHANGED <<image, cache, use, step, rules, bases>>

WriteChunks ==
    /\ building # 0
    /\ files' = [files EXCEPT !.chunks = building]
    /\ building' = 0
    /\ UNCHANGED <<image, cache, use, step, rules, bases>>

BuildStops ==
    /\ building # 0
    /\ building' = 0
    /\ UNCHANGED <<files, image, cache, use, step, rules, bases>>

\* a new image, and with it a new process; its document is lost
Deploy ==
    /\ image' = files
    /\ cache' = NoFiles
    /\ Goto("none", "load")
    /\ rules' = <<>>
    /\ bases' = <<>>
    /\ UNCHANGED <<files, building>>

-----------------------------------------------------------------------------
(***************************************************************************)
(* One document after the other.                                           *)
(***************************************************************************)
StartDocument(qs) ==
    /\ use = "none"
    /\ rules' = qs
    /\ bases' = <<>>
    /\ Goto("context", "load")
    /\ UNCHANGED <<files, building, image, cache>>

\* the retrieval raised: no context, or no basis for any rule
Without ==
    \/ /\ use = "context"
       /\ Goto("rules", "load")
       /\ UNCHANGED bases
    \/ /\ use = "rules"
       /\ Goto("none", "load")
       /\ bases' = [i \in 1 .. Len(rules) |-> None]

Unshipped == UNCHANGED <<files, building, image, rules>>

\* _load, whose first global says whether there is anything to load
AlreadyLoaded ==
    /\ InStep("load")
    /\ cache.vectors # 0
    /\ Goto(use, "search")
    /\ UNCHANGED <<cache, bases>> /\ Unshipped

LoadVectors ==
    /\ InStep("load")
    /\ cache.vectors = 0 /\ image.vectors # 0 /\ image.chunks # 0
    /\ cache' = [cache EXCEPT !.vectors = image.vectors]
    /\ Goto(use, "half")
    /\ UNCHANGED bases /\ Unshipped

LoadChunks ==
    /\ InStep("half")
    /\ cache' = [cache EXCEPT !.chunks = image.chunks]
    /\ Goto(use, "search")
    /\ UNCHANGED bases /\ Unshipped

\* a file that is missing or unreadable, or the embedding model fails
RetrievalFails ==
    /\ use # "none"
    /\ step = "load" => cache.vectors = 0
    /\ Without
    /\ UNCHANGED cache /\ Unshipped

\* Faulty variant: every rule is scored with the first column of the batch.
NearestRowsOfFirst(q) ==
    LET c == corpora[cache.vectors]
    IN  {r \in DOMAIN c : \A s \in DOMAIN c : score[rules[1]][c[s]] <= score[rules[1]][c[r]]}

\* np.argsort(-scores)[:1], in which any of several best may come first
NearestRows(q) ==
    LET c == corpora[cache.vectors]
    IN  {r \in DOMAIN c : \A s \in DOMAIN c : score[q][c[s]] <= score[q][c[r]]}

\* the rows found are rows of the chunk file
Records(rows) ==
    cache.chunks # 0 /\ \A i \in DOMAIN rows : rows[i] \in DOMAIN corpora[cache.chunks]

\* _legal_basis_from_results; the score is the row's, the article the record's
Basis(q, row) ==
    LET a == corpora[cache.chunks][row]
    IN  IF score[q][corpora[cache.vectors][row]] >= MinScore /\ a \in Accepted THEN a ELSE None

\* the context is informational
SearchContext ==
    /\ use = "context" /\ InStep("search")
    /\ Goto("rules", "load")
    /\ UNCHANGED <<cache, bases>> /\ Unshipped

\* retrieve_batch for all rules at once; an index or type error loses them all
SearchRules ==
    /\ use = "rules" /\ InStep("search")
    /\ \E rows \in [1 .. Len(rules) -> UNION {NearestRows(q) : q \in Query}] :
        /\ \A i \in DOMAIN rows : rows[i] \in NearestRows(rules[i])
        /\ \/ /\ Records(rows)
              /\ bases' = [i \in DOMAIN rows |-> Basis(rules[i], rows[i])]
              /\ Goto("none", "load")
           \/ ~Records(rows) /\ Without
    /\ UNCHANGED cache /\ Unshipped

Documents == UNION {[1 .. n -> Query] : n \in 1 .. MaxRules}

LegalNext ==
    \/ WriteVectors
    \/ WriteChunks
    \/ BuildStops
    \/ Deploy
    \/ \E qs \in Documents : StartDocument(qs)
    \/ AlreadyLoaded
    \/ LoadVectors
    \/ LoadChunks
    \/ RetrievalFails
    \/ SearchContext
    \/ SearchRules

LegalSpec == LegalInit /\ [][LegalNext]_legalVars

-----------------------------------------------------------------------------
(***************************************************************************)
(* From an image whose two files are of one build, a mapped document has   *)
(* no basis at all, or for each rule the article of that corpus nearest to *)
(* this rule and not to another of the batch, if it is near enough and of  *)
(* a source Spring knows: after failed and half-done loads too             *)
(* (legal_rag.py:31-44, 62-84, mapping.py:175-190, 276-286).               *)
(***************************************************************************)
IsNearest(q, a) ==
    \A i \in DOMAIN corpora[image.chunks] : score[q][corpora[image.chunks][i]] <= score[q][a]

IsBasis(q, a) == a \in Accepted /\ score[q][a] >= MinScore

BasisIsNearest ==
    image.vectors = image.chunks /\ bases # <<>> =>
        \/ bases = [i \in DOMAIN rules |-> None]
        \/ /\ DOMAIN bases = DOMAIN rules
           /\ \A i \in DOMAIN bases :
                \E a \in {corpora[image.chunks][j] : j \in DOMAIN corpora[image.chunks]} :
                    /\ IsNearest(rules[i], a)
                    /\ bases[i] = IF IsBasis(rules[i], a) THEN a ELSE None

-----------------------------------------------------------------------------
(***************************************************************************)
(* Why it holds: what the process has loaded is the image's, and nothing   *)
(* is searched before the vectors are there.                               *)
(***************************************************************************)
LegalTypeOK ==
    /\ {files, image, cache} \subseteq [vectors : Builds, chunks : Builds]
    /\ building \in Builds
    /\ use \in {"none", "context", "rules"} /\ step \in {"load", "half", "search"}
    /\ rules \in Seq(Query)
    /\ bases = <<>> \/ bases \in [1 .. Len(rules) -> Article \cup {None}]

LoadedIsShipped ==
    /\ cache.vectors \in {0, image.vectors} /\ cache.chunks \in {0, image.chunks}
    /\ step # "load" => cache.vectors # 0

LegalInvariant == LegalTypeOK /\ LoadedIsShipped /\ BasisIsNearest

=============================================================================
