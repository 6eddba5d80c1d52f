------------------------- MODULE KnowledgeBaseProofs -------------------------
(***************************************************************************)
(* For files of any length, any batches, any ceiling and any number of     *)
(* ingests, removals and failures: what the two stores hold when a command *)
(* says that it is done.  And for any number of sources: which links an    *)
(* answer has.                                                             *)
(***************************************************************************)
EXTENDS KnowledgeBase, FiniteSetTheorems, TLAPS

\* The first n chunks of the file are in the index, but for the rejected ones.
UpsertedBelow(n) ==
    \A d \in Manual : d[2] < n /\ d[2] < size /\ d \notin skipped => index[d] = version

\* The first n datapoints of the file are out of the index.
SweptBelow(n) == \A d \in Manual : d[2] < n => index[d] = 0

\* What the commands work with has its type.
WriterTypes ==
    /\ index \in [Datapoints -> Versions] /\ store \in [Datapoints -> Texts]
    /\ version \in Versions /\ size \in 0 .. MaxChunks /\ linked \in BOOLEAN
    /\ position \in Nat /\ skipped \subseteq Manual

\* The invariant behind IngestComplete and RemovedIsGone.  A command that is
\* going has not reported yet; each loop has done what is behind its position,
\* and the second store is written when the first one is done.
WriterInv ==
    /\ WriterTypes
    /\ command # "idle" => report = "none"
    /\ command = "upserting" => UpsertedBelow(position)
    /\ command = "storing" => UpsertedBelow(size)
    /\ command = "sweeping" => SweptBelow(position)
    /\ command = "deleting" => SweptBelow(Ceiling)
    /\ IngestComplete
    /\ RemovedIsGone

\* The variables of WriterInv.
stores == <<index, store, writeVars>>

\* The bounds are numbers.
LEMMA Bounds ==
    /\ MaxChunks \in Nat /\ Ceiling \in Nat
    /\ MaxVersions \in Nat \ {0} /\ UpsertBatch \in Nat \ {0} /\ Sweep \in Nat \ {0}
BY KnowledgeAssumption

\* A chunk has a number.
LEMMA Ordinals == \A d \in Manual : d \in Datapoints /\ d[2] \in Nat
BY Bounds DEF Manual, Datapoints

\* An upsert writes the version into some datapoints of the file.
LEMMA UpsertedTypes ==
    ASSUME WriterTypes, NEW D \in SUBSET Manual
    PROVE  /\ Upserted(D) \in [Datapoints -> Versions]
           /\ \A d \in Datapoints :
                 Upserted(D)[d] = IF d \in D THEN version ELSE index[d]
BY DEF WriterTypes, Upserted

\* The first state is empty.
LEMMA WriterInit == KnowledgeInit => WriterInv
<1> SUFFICES ASSUME KnowledgeInit PROVE WriterInv
  OBVIOUS
<1> USE Bounds DEF KnowledgeInit
<1>1. index \in [Datapoints -> Versions]
  BY DEF Versions
<1>2. store \in [Datapoints -> Texts]
  BY DEF Versions, Texts, NoText
<1>3. /\ version \in Versions /\ size \in 0 .. MaxChunks /\ position \in Nat
      /\ linked \in BOOLEAN /\ skipped \subseteq Manual
  <2>1. version = 0 /\ size = 0 /\ position = 0 /\ linked = FALSE /\ skipped = {}
    OBVIOUS
  <2>2. 0 \in Versions /\ 0 \in 0 .. MaxChunks /\ 0 \in Nat
    BY DEF Versions
  <2>3. linked \in BOOLEAN
    BY <2>1, Zenon
  <2> QED BY <2>1, <2>2, <2>3, Zenon
<1>4. WriterTypes
  BY <1>1, <1>2, <1>3 DEF WriterTypes
<1> QED BY <1>4 DEF WriterInv, IngestComplete, RemovedIsGone

\* What leaves the stores and the command alone preserves it.
LEMMA WriterIdle == WriterInv /\ UNCHANGED stores => WriterInv'
BY DEF stores, writeVars, WriterInv, WriterTypes, IngestComplete, RemovedIsGone,
       UpsertedBelow, SweptBelow

\* A batch, and the one-by-one replay of one that is rejected.
LEMMA UpsertInv == WriterInv /\ UpsertNext => WriterInv'
<1> SUFFICES ASSUME WriterInv, UpsertNext PROVE WriterInv'
  OBVIOUS
<1> USE Bounds
<1>1. PICK rejected \in {{}} \cup {{d} : d \in InBatch} :
         /\ index' = Upserted(InBatch \ rejected)
         /\ skipped' = skipped \cup rejected
  BY DEF UpsertNext
<1>2. rejected \subseteq InBatch /\ InBatch \subseteq Manual
  BY <1>1 DEF InBatch
<1>3. /\ index' \in [Datapoints -> Versions]
      /\ \A d \in Datapoints :
            index'[d] = IF d \in InBatch \ rejected THEN version ELSE index[d]
  BY <1>1, <1>2, UpsertedTypes DEF WriterInv
<1>4. /\ command = "upserting" /\ report = "none"
      /\ UNCHANGED <<store, version, size, linked, report>>
  BY DEF UpsertNext, WriterInv
<1>5. WriterTypes'
  <2>1. position' \in Nat
    BY DEF UpsertNext, WriterInv, WriterTypes
  <2> QED BY <1>1, <1>2, <1>3, <1>4, <2>1 DEF WriterInv, WriterTypes
\* What this batch has not rejected is in the index now.
<1>6. ASSUME NEW d \in Manual, d[2] < position + UpsertBatch, d[2] < size,
             d \notin skipped'
      PROVE  index'[d] = version'
  <2>1. d \in Datapoints /\ d[2] \in Nat
    BY Ordinals
  <2>2. d \notin skipped /\ d \notin rejected
    BY <1>1, <1>6
  <2>3. CASE d[2] < position
    BY <1>3, <1>4, <1>6, <2>1, <2>2, <2>3 DEF WriterInv, UpsertedBelow
  <2>4. CASE d[2] >= position
    <3>1. d \in InBatch
      BY <1>6, <2>1, <2>4 DEF InBatch, WriterInv, WriterTypes
    <3> QED BY <1>3, <1>4, <2>1, <2>2, <3>1
  <2> QED BY <2>1, <2>3, <2>4 DEF WriterInv, WriterTypes
<1>7. CASE position + UpsertBatch < size
  <2>1. command' = "upserting" /\ position' = position + UpsertBatch
    BY <1>4, <1>7 DEF UpsertNext
  <2>2. UpsertedBelow(position)'
    BY <1>4, <1>6, <2>1 DEF UpsertedBelow
  <2> QED BY <1>4, <1>5, <2>1, <2>2 DEF WriterInv, IngestComplete, RemovedIsGone
<1>8. CASE ~(position + UpsertBatch < size)
  <2>1. command' = "storing"
    BY <1>8 DEF UpsertNext
  <2>2. UpsertedBelow(size)'
    BY <1>4, <1>6, <1>8, Ordinals DEF UpsertedBelow, WriterInv, WriterTypes
  <2> QED BY <1>4, <1>5, <2>1, <2>2 DEF WriterInv, IngestComplete, RemovedIsGone
<1> QED BY <1>7, <1>8

\* One call of remove_article.
LEMMA SweepInv == WriterInv /\ SweepNext => WriterInv'
<1> SUFFICES ASSUME WriterInv, SweepNext PROVE WriterInv'
  OBVIOUS
<1> USE Bounds
<1>1. /\ index' \in [Datapoints -> Versions]
      /\ \A d \in Manual :
            index'[d] = IF d[2] \in position .. position + Sweep - 1 THEN 0 ELSE index[d]
  BY Ordinals DEF SweepNext, Swept, WriterInv, WriterTypes, Versions
<1>2. /\ command = "sweeping" /\ report = "none"
      /\ UNCHANGED <<store, version, size, linked, skipped, report>>
  BY DEF SweepNext, WriterInv
<1>3. WriterTypes'
  BY <1>1, <1>2 DEF SweepNext, WriterInv, WriterTypes
<1>4. ASSUME NEW d \in Manual, d[2] < position + Sweep
      PROVE  index'[d] = 0
  BY <1>1, <1>2, <1>4, Ordinals DEF SweptBelow, WriterInv, WriterTypes
<1>5. CASE position + Sweep < Ceiling
  <2>1. command' = "sweeping" /\ position' = position + Sweep
    BY <1>2, <1>5 DEF SweepNext
  <2>2. SweptBelow(position)'
    BY <1>4, <2>1 DEF SweptBelow
  <2> QED BY <1>2, <1>3, <2>1, <2>2 DEF WriterInv, IngestComplete, RemovedIsGone
<1>6. CASE ~(position + Sweep < Ceiling)
  <2>1. command' = "deleting"
    BY <1>6 DEF SweepNext
  <2>2. SweptBelow(Ceiling)'
    BY <1>4, <1>6, Ordinals DEF SweptBelow, WriterInv, WriterTypes
  <2> QED BY <1>2, <1>3, <2>1, <2>2 DEF WriterInv, IngestComplete, RemovedIsGone
<1> QED BY <1>5, <1>6

\* A command begins, and its first loop.
LEMMA BeginInv == WriterInv /\ (Ingest \/ Embed \/ RemoveFile) => WriterInv'
<1> SUFFICES ASSUME WriterInv, Ingest \/ Embed \/ RemoveFile PROVE WriterInv'
  OBVIOUS
<1> USE Bounds DEF WriterInv, WriterTypes, IngestComplete, RemovedIsGone
<1>1. CASE Ingest
  BY <1>1 DEF Ingest, Versions
<1>2. CASE Embed
  <2>1. UpsertedBelow(0)'
    BY Ordinals DEF UpsertedBelow
  <2> QED BY <1>2, <2>1 DEF Embed
<1>3. CASE RemoveFile
  <2>1. SweptBelow(position)'
    BY <1>3, Ordinals DEF RemoveFile, SweptBelow
  <2>2. WriterTypes'
    <3>1. /\ UNCHANGED <<index, store, version>> /\ position' = 0
          /\ size' = 0 /\ linked' = FALSE /\ skipped' = {}
      BY <1>3 DEF RemoveFile, NoFile
    <3>2. linked' \in BOOLEAN
      BY <3>1, Zenon
    <3>3. size' \in 0 .. MaxChunks /\ position' \in Nat
      BY <3>1
    <3> QED BY <3>1, <3>2, <3>3, Zenon
  <2> QED BY <1>3, <2>1, <2>2 DEF RemoveFile
<1> QED BY <1>1, <1>2, <1>3

\* The second store is written, and the command says that it is done.
LEMMA EndInv == WriterInv /\ (StoreTexts \/ DeleteTexts) => WriterInv'
<1> SUFFICES ASSUME WriterInv, StoreTexts \/ DeleteTexts PROVE WriterInv'
  OBVIOUS
<1> USE Ordinals DEF WriterInv, WriterTypes
<1>1. CASE StoreTexts
  <2>1. store' \in [Datapoints -> Texts]
    BY <1>1 DEF StoreTexts, Texts
  <2>2. IngestComplete'
    BY <1>1 DEF StoreTexts, IngestComplete, UpsertedBelow
  <2> QED BY <1>1, <2>1, <2>2 DEF StoreTexts, RemovedIsGone
<1>2. CASE DeleteTexts
  <2>1. store' \in [Datapoints -> Texts]
    BY <1>2, Bounds DEF DeleteTexts, Texts, NoText, Versions
  <2>2. RemovedIsGone'
    BY <1>2 DEF DeleteTexts, RemovedIsGone, SweptBelow
  <2> QED BY <1>2, <2>1, <2>2 DEF DeleteTexts, IngestComplete
<1> QED BY <1>1, <1>2

\* An exception leaves what there is, or some of a batch more.
LEMMA AbortInv == WriterInv /\ Abort => WriterInv'
<1> SUFFICES ASSUME WriterInv, Abort PROVE WriterInv'
  OBVIOUS
<1>1. InBatch \subseteq Manual
  BY DEF InBatch
<1>2. index' \in [Datapoints -> Versions]
  BY <1>1, UpsertedTypes DEF Abort, WriterInv, WriterTypes
<1>3. WriterTypes'
  <2>1. UNCHANGED <<store, version>> /\ size' = 0 /\ linked' = FALSE /\ position' = 0
        /\ skipped' = {}
    BY DEF Abort, NoFile
  <2>2. 0 \in 0 .. MaxChunks
    BY Bounds
  <2> QED BY <1>2, <2>1, <2>2 DEF WriterInv, WriterTypes
<1> QED BY <1>3 DEF Abort, WriterInv, IngestComplete, RemovedIsGone

\* Every step preserves it; questions change neither the stores nor the command.
LEMMA WriterStep == WriterInv /\ [KnowledgeStep]_knowledgeVars => WriterInv'
<1> SUFFICES ASSUME WriterInv, [KnowledgeStep]_knowledgeVars PROVE WriterInv'
  OBVIOUS
<1>1. CASE Ingest \/ Embed \/ RemoveFile
  BY <1>1, BeginInv
<1>2. CASE UpsertNext
  BY <1>2, UpsertInv
<1>3. CASE SweepNext
  BY <1>3, SweepInv
<1>4. CASE StoreTexts \/ DeleteTexts
  BY <1>4, EndInv
<1>5. CASE Abort
  BY <1>5, AbortInv
<1>6. CASE BecomesQueryable \/ Retrieve \/ ReadTexts \/ Generate \/ Forget
  BY <1>6, WriterIdle DEF BecomesQueryable, Retrieve, ReadTexts, Generate, Forget, stores
<1>7. CASE UNCHANGED knowledgeVars
  BY <1>7, WriterIdle DEF knowledgeVars, stores
<1> QED BY <1>1, <1>2, <1>3, <1>4, <1>5, <1>6, <1>7 DEF KnowledgeStep

\* Throughout: a command that is going has done what is behind it.
THEOREM WriterInvariant == KnowledgeSpec => []WriterInv
<1> QED BY WriterInit, WriterStep, PTL DEF KnowledgeSpec

\* An ingest that says it is done has put every chunk into both stores, but for
\* the datapoints that were rejected (manual_ingest.py, `ingest`).
THEOREM IngestIsComplete == KnowledgeSpec => []IngestComplete
<1>1. WriterInv => IngestComplete
  BY DEF WriterInv
<1> QED BY <1>1, WriterInvariant, PTL

\* A removal that says it is done has left nothing of the file, but for
\* datapoints above the ceiling (manual_ingest.py, `remove`).
THEOREM RemovalIsComplete == KnowledgeSpec => []RemovedIsGone
<1>1. WriterInv => RemovedIsGone
  BY DEF WriterInv
<1> QED BY <1>1, WriterInvariant, PTL

(***************************************************************************)
(* The links of an answer.                                                 *)
(***************************************************************************)

\* There is an answer only when the function has returned.
ReaderInv ==
    /\ shown.outcome = "answer" => stage = "replied"
    /\ LinksMatchMarkers

\* An answer's links, whatever markers the model puts into it.
LEMMA GenerateLinks == Generate => ReaderInv'
<1> SUFFICES ASSUME Generate, shown'.outcome = "answer" PROVE ReaderInv'
  BY DEF Generate, Gives, ReaderInv, LinksMatchMarkers
<1>1. /\ stage' = "replied" /\ UNCHANGED sources
      /\ shown'.links = Cited
  BY DEF Generate, Gives
<1> DEFINE cited == markers' \cap DOMAIN sources
           firsts == {n \in cited : sources[n].linked /\
                         \A m \in 1 .. n - 1 : sources[m].article # sources[n].article}
           chosen == {n \in Firsts(sources) : NumberOf(n) \in markers'}
<1>2. Firsts(sources) \subseteq DOMAIN sources /\ firsts \subseteq chosen
      /\ chosen \subseteq cited
  BY DEF Firsts, NumberOf
<1>3. Cited = Links(sources, IF chosen # {} THEN chosen ELSE Firsts(sources))
  BY DEF Cited
<1>4. /\ Cited \subseteq {sources[n].article : n \in DOMAIN sources}
      /\ {sources[n].article : n \in firsts} \subseteq Cited
      /\ firsts # {} => Cited \subseteq {sources[n].article : n \in cited}
  BY <1>2, <1>3 DEF Links
<1> QED BY <1>1, <1>4 DEF ReaderInv, LinksMatchMarkers

\* Every step preserves it.
LEMMA ReaderStep == ReaderInv /\ [KnowledgeStep]_knowledgeVars => ReaderInv'
<1> SUFFICES ASSUME ReaderInv, [KnowledgeStep]_knowledgeVars PROVE ReaderInv'
  OBVIOUS
<1>1. CASE Generate
  BY <1>1, GenerateLinks
<1>2. CASE Retrieve \/ ReadTexts \/ Forget
  <2>1. shown'.outcome # "answer"
    BY <1>2 DEF Retrieve, ReadTexts, Forget, GivesUp, Gives, NoAnswer, ReaderInv
  <2> QED BY <2>1 DEF ReaderInv, LinksMatchMarkers
<1>3. CASE UNCHANGED readVars
  BY <1>3 DEF readVars, ReaderInv, LinksMatchMarkers
<1> QED BY <1>1, <1>2, <1>3
        DEF KnowledgeStep, knowledgeVars, Ingest, Embed, UpsertNext, StoreTexts,
            RemoveFile, SweepNext, DeleteTexts, Abort, BecomesQueryable

\* The links below an answer are those of sources that the model was given, and
\* of the ones it cites where it cites the first source of an article
\* (rag_answer.py, `answer_with_citations`).
THEOREM LinksAreCited == KnowledgeSpec => []LinksMatchMarkers
<1>1. KnowledgeInit => ReaderInv
  BY DEF KnowledgeInit, ReaderInv, LinksMatchMarkers, NoAnswer
<1>2. ReaderInv => LinksMatchMarkers
  BY DEF ReaderInv
<1> QED BY <1>1, <1>2, ReaderStep, PTL DEF KnowledgeSpec

(***************************************************************************)
(* Types, and what a question is answered from.                            *)
(***************************************************************************)

\* Where the position of a command's loop is: each loop begins at 0, an upsert
\* has a batch left, a sweep is not past the ceiling.
CommandInv ==
    /\ served \in [Datapoints -> Versions]
    /\ command \in {"idle", "embedding", "upserting", "storing", "sweeping", "deleting"}
    /\ report \in {"none", "ingested", "removed", "failed"}
    /\ command \in {"idle", "embedding", "storing"} => position = 0
    /\ command = "embedding" => size > 0
    /\ command = "upserting" => position < size
    /\ command \in {"sweeping", "deleting"} => position <= Ceiling

\* What a handler works with has its type, and it shows nothing before it has
\* read the texts.
ReadingInv ==
    /\ stage \in {"idle", "retrieved", "grounded", "replied"}
    /\ purpose \in {"answer", "search"}
    /\ neighbours \subseteq Datapoints /\ Cardinality(neighbours) <= TopK
    /\ sources \in Seq(Sources) /\ Len(sources) <= TopK
    /\ markers \subseteq 1 .. TopK + 1
    /\ shown.outcome \in {"none", "fallback", "noContext", "answer", "links"}
    /\ shown.links \subseteq {"article", "manual"}
    /\ stage \in {"idle", "retrieved"} => sources = <<>> /\ shown.links = {}

KnowledgeInv == WriterInv /\ CommandInv /\ ReadingInv

\* The variables of ReadingInv are those of the handlers.
LEMMA ReadingIdle == ReadingInv /\ UNCHANGED readVars => ReadingInv'
BY DEF readVars, ReadingInv

\* Every command keeps its position where its loop may be.
LEMMA CommandStep ==
    ASSUME WriterInv, CommandInv, [KnowledgeStep]_knowledgeVars
    PROVE  CommandInv'
<1> USE Bounds DEF CommandInv, WriterInv, WriterTypes
<1>1. CASE Ingest
  BY <1>1 DEF Ingest
<1>2. CASE Embed
  BY <1>2 DEF Embed
<1>3. CASE UpsertNext
  BY <1>3 DEF UpsertNext
<1>4. CASE StoreTexts \/ DeleteTexts
  BY <1>4 DEF StoreTexts, DeleteTexts
<1>5. CASE RemoveFile
  BY <1>5 DEF RemoveFile, NoFile
<1>6. CASE SweepNext
  BY <1>6 DEF SweepNext
<1>7. CASE Abort
  BY <1>7 DEF Abort, NoFile
<1>8. CASE BecomesQueryable
  BY <1>8 DEF BecomesQueryable, writeVars
<1>9. CASE Retrieve \/ ReadTexts \/ Generate \/ Forget
  BY <1>9 DEF Retrieve, ReadTexts, Generate, Forget, writeVars
<1>10. CASE UNCHANGED knowledgeVars
  BY <1>10 DEF knowledgeVars, writeVars
<1> QED BY <1>1, <1>2, <1>3, <1>4, <1>5, <1>6, <1>7, <1>8, <1>9, <1>10 DEF KnowledgeStep

\* There are finitely many datapoints.
LEMMA FiniteDatapoints == IsFiniteSet(Datapoints)
<1>1. IsFiniteSet({"manual"}) /\ IsFiniteSet({<<"article", 0>>})
  BY FS_Singleton
<1>2. IsFiniteSet(0 .. MaxChunks - 1)
  BY Bounds, FS_Interval
<1>3. IsFiniteSet(Manual)
  BY <1>1, <1>2, FS_Product DEF Manual
<1> QED BY <1>1, <1>3, FS_Union DEF Datapoints, Other

\* A query finds at most TopK datapoints.
LEMMA FewNeighbours ==
    ASSUME NEW found \in Neighbours
    PROVE  found \subseteq Datapoints /\ Cardinality(found) <= TopK
<1> DEFINE hits == {d \in Datapoints : served[d] > 0}
<1>1. Cardinality(hits) \in Nat /\ TopK \in Nat
  BY FiniteDatapoints, FS_Subset, FS_CardinalityType, KnowledgeAssumption
<1> QED BY <1>1 DEF Neighbours

\* The readable ones of them, in any order, are sources of the right type, no
\* more than were found, each of the article its datapoint is of.
LEMMA NumberedSources ==
    ASSUME store \in [Datapoints -> Texts], ReadingInv,
           NEW order \in Rankings(Readable)
    PROVE  /\ Numbered(order) \in Seq(Sources) /\ Len(Numbered(order)) <= TopK
           /\ \A n \in DOMAIN Numbered(order) :
                 \E d \in Readable : Numbered(order)[n].article = d[1]
<1> DEFINE count == Cardinality(Readable)
<1>1. Readable \subseteq neighbours /\ Readable \subseteq Datapoints
  BY DEF Readable, ReadingInv
<1>2. count \in Nat /\ count <= TopK
  <2>1. IsFiniteSet(neighbours)
    BY FiniteDatapoints, FS_Subset DEF ReadingInv
  <2>2. IsFiniteSet(Readable) /\ count <= Cardinality(neighbours)
    BY <1>1, <2>1, FS_Subset
  <2>3. count \in Nat /\ Cardinality(neighbours) \in Nat /\ TopK \in Nat
    BY <2>1, <2>2, FS_CardinalityType, KnowledgeAssumption
  <2> QED BY <2>2, <2>3 DEF ReadingInv
<1> HIDE DEF count
<1>3. order \in [1 .. count -> Readable]
  BY DEF Rankings, count
<1>4. ASSUME NEW d \in Readable
      PROVE  [article |-> d[1], linked |-> store[d].linked] \in Sources
  <2>1. d[1] \in {"article", "manual"}
    BY <1>1 DEF Datapoints, Manual, Other
  <2>2. store[d] \in Texts
    BY <1>1
  <2>3. store[d].linked \in BOOLEAN
    BY <2>2, Zenon DEF Texts
  <2> QED BY <2>1, <2>3, Zenon DEF Sources
<1>5. /\ DOMAIN Numbered(order) = 1 .. count
      /\ \A n \in 1 .. count :
            /\ order[n] \in Readable
            /\ Numbered(order)[n] =
                  [article |-> order[n][1], linked |-> store[order[n]].linked]
  BY <1>3 DEF Numbered
<1>6. Numbered(order) \in [1 .. count -> Sources]
  <2>1. \A n \in 1 .. count : Numbered(order)[n] \in Sources
    BY <1>4, <1>5
  <2>2. Numbered(order) = [n \in 1 .. count |-> Numbered(order)[n]]
    BY <1>3 DEF Numbered
  <2> QED BY <2>1, <2>2
<1>7. Numbered(order) \in Seq(Sources) /\ Len(Numbered(order)) = count
  BY <1>2, <1>6
<1> QED BY <1>2, <1>5, <1>7

\* Links are the articles of the sources with these numbers.
LEMMA LinkedArticles ==
    ASSUME NEW from \in Seq(Sources), NEW numbers \in SUBSET DOMAIN from
    PROVE  Links(from, numbers) \subseteq {"article", "manual"}
<1>1. ASSUME NEW n \in numbers
      PROVE  from[n].article \in {"article", "manual"}
  <2>1. from[n] \in Sources
    OBVIOUS
  <2> QED BY <2>1, Zenon DEF Sources
<1> QED BY <1>1 DEF Links

\* What the handler shows when it returns.
LEMMA GivesInv ==
    ASSUME ReadingInv, NEW outcome, NEW links, Gives(outcome, links),
           outcome \in {"fallback", "noContext", "answer", "links"},
           links \subseteq {"article", "manual"},
           purpose' \in {"answer", "search"}, UNCHANGED sources,
           markers' \subseteq 1 .. TopK + 1
    PROVE  ReadingInv'
<1>1. Cardinality({}) = 0 /\ TopK \in Nat
  BY FS_EmptySet, KnowledgeAssumption
<1>2. neighbours' = {} /\ stage' = "replied"
      /\ shown'.outcome = outcome /\ shown'.links = links
  BY DEF Gives
<1> QED BY <1>1, <1>2 DEF ReadingInv

\* A question is asked, and its neighbours are found, or the handler gives up.
LEMMA RetrieveInv == ReadingInv /\ Retrieve => ReadingInv'
<1> SUFFICES ASSUME ReadingInv, Retrieve PROVE ReadingInv'
  OBVIOUS
<1>1. purpose' \in {"answer", "search"} /\ UNCHANGED <<sources, markers>>
      /\ stage = "idle"
  BY DEF Retrieve
<1>2. ASSUME NEW outcome \in {"noContext", "fallback"}, GivesUp(outcome)
      PROVE  ReadingInv'
  <2>1. markers' \subseteq 1 .. TopK + 1
    BY <1>1 DEF ReadingInv
  <2>2. CASE purpose' = "answer"
    BY <1>1, <1>2, <2>1, <2>2, GivesInv DEF GivesUp
  <2>3. CASE purpose' # "answer"
    BY <1>1, <1>2, <2>1, <2>3, GivesInv DEF GivesUp
  <2> QED BY <2>2, <2>3
<1>3. ASSUME NEW found \in Neighbours, neighbours' = found, stage' = "retrieved",
             UNCHANGED shown
      PROVE  ReadingInv'
  BY <1>1, <1>3, FewNeighbours DEF ReadingInv
<1> QED BY <1>2, <1>3 DEF Retrieve

\* The texts are read, and become sources or links.
LEMMA ReadTextsInv ==
    ASSUME store \in [Datapoints -> Texts], ReadingInv, ReadTexts
    PROVE  ReadingInv'
<1>1. /\ stage = "retrieved" /\ UNCHANGED <<purpose, markers>>
      /\ purpose' \in {"answer", "search"}
      /\ markers' \subseteq 1 .. TopK + 1
  BY DEF ReadTexts, ReadingInv
<1>2. ASSUME NEW outcome \in {"noContext", "fallback"}, GivesUp(outcome),
             UNCHANGED sources
      PROVE  ReadingInv'
  <2>1. CASE purpose' = "answer"
    BY <1>1, <1>2, <2>1, GivesInv DEF GivesUp
  <2>2. CASE purpose' # "answer"
    BY <1>1, <1>2, <2>2, GivesInv DEF GivesUp
  <2> QED BY <2>1, <2>2
<1>3. ASSUME NEW order \in Rankings(Readable)
      PROVE  /\ Numbered(order) \in Seq(Sources) /\ Len(Numbered(order)) <= TopK
             /\ Links(Numbered(order), Firsts(Numbered(order)))
                   \subseteq {"article", "manual"}
  <2>1. Numbered(order) \in Seq(Sources) /\ Len(Numbered(order)) <= TopK
    BY NumberedSources
  <2>2. Firsts(Numbered(order)) \subseteq DOMAIN Numbered(order)
    BY DEF Firsts
  <2> QED BY <2>1, <2>2, LinkedArticles
<1>4. ASSUME NEW order \in Rankings(Readable), UNCHANGED sources,
             Gives("links", Links(Numbered(order), Firsts(Numbered(order))))
      PROVE  ReadingInv'
  BY <1>1, <1>3, <1>4, GivesInv
<1>5. ASSUME NEW order \in Rankings(Readable), sources' = Numbered(order),
             stage' = "grounded", neighbours' = {}, UNCHANGED shown
      PROVE  ReadingInv'
  <2>1. Cardinality({}) = 0 /\ TopK \in Nat
    BY FS_EmptySet, KnowledgeAssumption
  <2> QED BY <1>1, <1>3, <1>5, <2>1 DEF ReadingInv
<1> QED BY <1>2, <1>4, <1>5 DEF ReadTexts

\* The answer, whatever the model puts into it.
LEMMA GenerateInv == ReadingInv /\ Generate => ReadingInv'
<1> SUFFICES ASSUME ReadingInv, Generate PROVE ReadingInv'
  OBVIOUS
<1>1. UNCHANGED <<purpose, sources>> /\ purpose' \in {"answer", "search"}
  BY DEF Generate, ReadingInv
<1>2. CASE (Gives("fallback", {}) \/ Gives("noContext", {})) /\ UNCHANGED markers
  <2>1. markers' \subseteq 1 .. TopK + 1
    BY <1>2 DEF ReadingInv
  <2> QED BY <1>1, <1>2, <2>1, GivesInv
<1>3. CASE markers' \in SUBSET (1 .. Len(sources) + 1) /\ Gives("answer", Cited)
  <2>1. markers' \subseteq 1 .. TopK + 1
    <3>1. Len(sources) \in Nat /\ Len(sources) <= TopK /\ TopK \in Nat
      BY KnowledgeAssumption DEF ReadingInv
    <3> QED BY <1>3, <3>1
  <2>2. Cited \subseteq {"article", "manual"}
    <3>1. Firsts(sources) \subseteq DOMAIN sources
      BY DEF Firsts
    <3>2. \E numbers \in SUBSET DOMAIN sources : Cited = Links(sources, numbers)
      BY <3>1 DEF Cited
    <3> QED BY <3>2, LinkedArticles DEF ReadingInv
  <2> QED BY <1>1, <1>3, <2>1, <2>2, GivesInv
<1> QED BY <1>2, <1>3 DEF Generate

\* Every step preserves it.
LEMMA ReadingStep ==
    ASSUME WriterInv, ReadingInv, [KnowledgeStep]_knowledgeVars
    PROVE  ReadingInv'
<1>1. CASE Retrieve
  BY <1>1, RetrieveInv
<1>2. CASE ReadTexts
  BY <1>2, ReadTextsInv DEF WriterInv, WriterTypes
<1>3. CASE Generate
  BY <1>3, GenerateInv
<1>4. CASE Forget
  <2>1. Cardinality({}) = 0 /\ TopK \in Nat
    BY FS_EmptySet, KnowledgeAssumption
  <2>2. stage' = "idle" /\ purpose' = "answer" /\ neighbours' = {} /\ sources' = <<>>
        /\ markers' = {} /\ shown'.outcome = "none" /\ shown'.links = {}
    BY <1>4 DEF Forget, NoAnswer
  <2> QED BY <2>1, <2>2 DEF ReadingInv
<1>5. CASE UNCHANGED readVars
  BY <1>5, ReadingIdle
<1> QED BY <1>1, <1>2, <1>3, <1>4, <1>5
        DEF KnowledgeStep, knowledgeVars, Ingest, Embed, UpsertNext, StoreTexts,
            RemoveFile, SweepNext, DeleteTexts, Abort, BecomesQueryable

\* Initially there is the article, and no question.
LEMMA KnowledgeInitInv == KnowledgeInit => KnowledgeInv
<1> SUFFICES ASSUME KnowledgeInit PROVE KnowledgeInv
  OBVIOUS
<1>1. WriterInv
  BY WriterInit
<1>2. CommandInv
  BY <1>1, Bounds DEF KnowledgeInit, CommandInv, WriterInv, WriterTypes
<1>3. Cardinality({}) = 0 /\ TopK \in Nat
  BY FS_EmptySet, KnowledgeAssumption
<1>4. ReadingInv
  BY <1>3 DEF KnowledgeInit, ReadingInv, NoAnswer
<1> QED BY <1>1, <1>2, <1>4 DEF KnowledgeInv

\* The commands and the questions, in any order.
THEOREM KnowledgeInvariant == KnowledgeSpec => []KnowledgeInv
<1>1. KnowledgeInv /\ [KnowledgeStep]_knowledgeVars => KnowledgeInv'
  BY WriterStep, CommandStep, ReadingStep DEF KnowledgeInv
<1> QED BY KnowledgeInitInv, <1>1, PTL DEF KnowledgeSpec

\* Every variable has its type: no batch starts after the last chunk, no sweep
\* above the ceiling, no handler has more sources than it asked for.
THEOREM KnowledgeTypes == KnowledgeSpec => []KnowledgeTypeOK
<1>1. KnowledgeInv => KnowledgeTypeOK
  <2> SUFFICES ASSUME KnowledgeInv PROVE KnowledgeTypeOK
    OBVIOUS
  <2>1. position \in 0 .. size + Ceiling
    BY Bounds DEF KnowledgeInv, WriterInv, WriterTypes, CommandInv
  <2> QED BY <2>1 DEF KnowledgeInv, WriterInv, WriterTypes, CommandInv, ReadingInv,
                      KnowledgeTypeOK
<1> QED BY <1>1, KnowledgeInvariant, PTL

\* One step, as RemovedIsNotCited says it.
CitesNoneRemoved ==
    stage = "retrieved" /\ report = "removed" =>
        /\ "manual" \notin shown'.links
        /\ \A n \in DOMAIN sources' : sources'[n].article # "manual"

\* Texts are read after the removal: of the file there are none.
LEMMA RemovedIsUnreadable ==
    ASSUME KnowledgeInv, [KnowledgeStep]_knowledgeVars
    PROVE  CitesNoneRemoved
<1> SUFFICES ASSUME stage = "retrieved", report = "removed"
             PROVE  /\ "manual" \notin shown'.links
                    /\ \A n \in DOMAIN sources' : sources'[n].article # "manual"
  BY DEF CitesNoneRemoved
<1>1. sources = <<>> /\ shown.links = {}
  BY DEF KnowledgeInv, ReadingInv
<1>2. CASE UNCHANGED <<sources, shown>>
  BY <1>1, <1>2
<1>3. CASE ReadTexts
  <2>1. \A d \in Manual : store[d].version = 0
    BY DEF KnowledgeInv, WriterInv, RemovedIsGone, NoText
  <2>2. \A d \in Readable : d[1] = "article"
    BY <2>1, Bounds DEF Readable, KnowledgeInv, ReadingInv, Datapoints, Other
  <2>3. ASSUME NEW order \in Rankings(Readable)
        PROVE  \A n \in DOMAIN Numbered(order) : Numbered(order)[n].article = "article"
    <3>1. store \in [Datapoints -> Texts] /\ ReadingInv
      BY DEF KnowledgeInv, WriterInv, WriterTypes
    <3> QED BY <2>2, <3>1, NumberedSources
  <2>4. ASSUME NEW order \in Rankings(Readable)
        PROVE  "manual" \notin Links(Numbered(order), Firsts(Numbered(order)))
    BY <2>3 DEF Links, Firsts
  <2>5. ASSUME NEW outcome, GivesUp(outcome), UNCHANGED sources
        PROVE  shown'.links = {} /\ sources' = <<>>
    BY <1>1, <2>5 DEF GivesUp, Gives
  <2> QED BY <1>1, <1>3, <2>3, <2>4, <2>5 DEF ReadTexts, Gives
<1> QED BY <1>2, <1>3
        DEF KnowledgeStep, knowledgeVars, readVars, Ingest, Embed, UpsertNext, StoreTexts,
            RemoveFile, SweepNext, DeleteTexts, Abort, BecomesQueryable, Retrieve,
            Generate, Forget

\* A removed file grounds no answer and is linked by none, however long its
\* datapoints can be found (rag_answer.py, `answer_with_citations`, `search_docs`).
THEOREM RemovedFilesAreNotCited == KnowledgeSpec => RemovedIsNotCited
<1>1. KnowledgeInv /\ [KnowledgeStep]_knowledgeVars => [CitesNoneRemoved]_knowledgeVars
  BY RemovedIsUnreadable
<1>2. [][CitesNoneRemoved]_knowledgeVars => RemovedIsNotCited
  BY DEF CitesNoneRemoved, RemovedIsNotCited
<1> QED BY <1>1, <1>2, KnowledgeInvariant, PTL DEF KnowledgeSpec

==============================================================================
