--------------------------- MODULE KnowledgeBase ---------------------------
(***************************************************************************)
(* The knowledge base while it changes and is asked: an operator puts a    *)
(* PDF file in and takes it out again (sync_job/manual_ingest.py), and the *)
(* chat service answers from what it finds (app/tools/rag_answer.py).      *)
(*                                                                         *)
(* There are two stores, of vectors (Vector Search) and of texts           *)
(* (Firestore), which have the ids of the chunks in common, and no         *)
(* transaction over both.  A write to the index takes a while until it     *)
(* can be found.                                                           *)
(***************************************************************************)
EXTENDS Naturals, Sequences, FiniteSets

CONSTANTS
    MaxChunks,    \* chunks of the PDF file (bound)
    MaxVersions,  \* how often it is put in (bound)
    UpsertBatch,  \* _UPSERT_BATCH
    Ceiling,      \* _REMOVE_ORDINAL_CEILING
    Sweep,        \* how many datapoints one call of remove_article removes
    TopK          \* neighbour_count

ASSUME KnowledgeAssumption ==
    /\ {MaxChunks, Ceiling, TopK} \subseteq Nat
    /\ {MaxVersions, UpsertBatch, Sweep} \subseteq Nat \ {0}

\* The chunks of the PDF file, and one of an article of Document360, which stays
\* as it is: the sync job writes in the same order as `ingest`.
Manual == {"manual"} \X (0 .. MaxChunks - 1)
Other == {<<"article", 0>>}
Datapoints == Manual \cup Other

Versions == 0 .. MaxVersions
Texts == [version : Versions, linked : BOOLEAN]
NoText == [version |-> 0, linked |-> FALSE]

VARIABLES
    index,       \* the version of each datapoint; 0 is none
    served,      \* the same as a query finds it
    store,       \* the text of each datapoint, and whether it has a url
    command,     \* where the operator's command is
    version,     \* the version of the PDF file that was put in last
    size,        \* len(chunk_texts), while its ingest is the last command
    linked,      \* whether --url is given with it
    position,    \* start, of the loop the command is in
    skipped,     \* datapoints that the index rejected
    report,      \* how the last command ended
    stage,       \* where the handler of a question is
    purpose,     \* answer_with_citations or search_docs
    neighbours,  \* ordered_ids, as a set
    sources,     \* the numbered sources
    markers,     \* the numbers in the model's answer
    shown        \* what the caller gets

writeVars == <<command, version, size, linked, position, skipped, report>>
readVars == <<stage, purpose, neighbours, sources, markers, shown>>
knowledgeVars == <<index, served, store, writeVars, readVars>>

NoAnswer == [outcome |-> "none", links |-> {}]

KnowledgeInit ==
    /\ index = [d \in Datapoints |-> IF d \in Other THEN 1 ELSE 0]
    /\ served = index
    /\ store = [d \in Datapoints |->
                   IF d \in Other THEN [version |-> 1, linked |-> TRUE] ELSE NoText]
    /\ command = "idle" /\ version = 0 /\ size = 0 /\ linked = FALSE
    /\ position = 0 /\ skipped = {} /\ report = "none"
    /\ stage = "idle" /\ purpose = "answer"
    /\ neighbours = {} /\ sources = <<>> /\ markers = {} /\ shown = NoAnswer

(***************************************************************************)
(* The commands of the operator, one at a time.                            *)
(***************************************************************************)

\* No command has a file at hand.
NoFile == size' = 0 /\ linked' = FALSE /\ skipped' = {}

\* A PDF file of any length, the first time or again.  Without a text, and in a
\* dry run, the command ends here.
Ingest ==
    /\ command = "idle" /\ version < MaxVersions
    /\ version' = version + 1
    /\ size' \in 1 .. MaxChunks
    /\ linked' \in BOOLEAN
    /\ command' = "embedding"
    /\ skipped' = {} /\ report' = "none"
    /\ UNCHANGED <<index, served, store, position, readVars>>

\* All vectors come before the first write.
Embed ==
    /\ command = "embedding"
    /\ command' = "upserting" /\ position' = 0
    /\ UNCHANGED <<index, served, store, version, size, linked, skipped, report,
                   readVars>>

InBatch == {d \in Manual : d[2] \in position .. position + UpsertBatch - 1 /\ d[2] < size}

Upserted(datapoints) ==
    [d \in Datapoints |-> IF d \in datapoints THEN version ELSE index[d]]

\* Mutation of UpsertNext: the last batch, if it is not full, is left out.
UpsertFullBatches ==
    /\ command = "upserting"
    /\ index' = Upserted(IF position + UpsertBatch <= size THEN InBatch ELSE {})
    /\ IF position + UpsertBatch < size
       THEN position' = position + UpsertBatch /\ UNCHANGED command
       ELSE command' = "storing" /\ position' = 0
    /\ UNCHANGED <<served, store, version, size, linked, skipped, report, readVars>>

\* Mutation of UpsertNext: one more batch when the last one is full.
UpsertPastEnd ==
    /\ command = "upserting"
    /\ index' = Upserted(InBatch)
    /\ IF position + UpsertBatch <= size
       THEN position' = position + UpsertBatch /\ UNCHANGED command
       ELSE command' = "storing" /\ position' = 0
    /\ UNCHANGED <<served, store, version, size, linked, skipped, report, readVars>>

\* A batch that is rejected is tried datapoint by datapoint; what is rejected
\* then is logged and left out, one datapoint of a file at most (bound).
UpsertNext ==
    /\ command = "upserting"
    /\ \E rejected \in {{}} \cup {{d} : d \in InBatch} :
          /\ skipped = {} \/ rejected = {}
          /\ index' = Upserted(InBatch \ rejected)
          /\ skipped' = skipped \cup rejected
    /\ IF position + UpsertBatch < size
       THEN position' = position + UpsertBatch /\ UNCHANGED command
       ELSE command' = "storing" /\ position' = 0
    /\ UNCHANGED <<served, store, version, size, linked, report, readVars>>

\* put_many, of what was rejected too: at most 450 texts, one commit (bound).
StoreTexts ==
    /\ command = "storing"
    /\ store' = [d \in Datapoints |->
                    IF d \in Manual /\ d[2] < size
                    THEN [version |-> version, linked |-> linked] ELSE store[d]]
    /\ command' = "idle" /\ report' = "ingested"
    /\ UNCHANGED <<index, served, version, size, linked, position, skipped, readVars>>

RemoveFile ==
    /\ command = "idle" /\ version > 0
    /\ command' = "sweeping" /\ position' = 0
    /\ report' = "none"
    /\ NoFile
    /\ UNCHANGED <<index, served, store, version, readVars>>

\* remove_article.
Swept ==
    [d \in Datapoints |->
        IF d \in Manual /\ d[2] \in position .. position + Sweep - 1 THEN 0
        ELSE index[d]]

\* Mutation of SweepNext: one call of remove_article.
SweepOnce ==
    /\ command = "sweeping"
    /\ index' = Swept
    /\ command' = "deleting" /\ UNCHANGED position
    /\ UNCHANGED <<served, store, version, size, linked, skipped, report, readVars>>

SweepNext ==
    /\ command = "sweeping"
    /\ index' = Swept
    /\ IF position + Sweep < Ceiling
       THEN position' = position + Sweep /\ UNCHANGED command
       ELSE command' = "deleting" /\ UNCHANGED position
    /\ UNCHANGED <<served, store, version, size, linked, skipped, report, readVars>>

\* What the collection has of the article, in one batch (bound).
DeleteTexts ==
    /\ command = "deleting"
    /\ store' = [d \in Datapoints |-> IF d \in Manual THEN NoText ELSE store[d]]
    /\ command' = "idle" /\ report' = "removed" /\ position' = 0
    /\ UNCHANGED <<index, served, version, size, linked, skipped, readVars>>

\* An exception, or the operator: in a batch that is tried datapoint by
\* datapoint some are in the index by then.
Abort ==
    /\ command # "idle"
    /\ index' \in {index} \cup
          (IF command = "upserting" THEN {Upserted(done) : done \in SUBSET InBatch}
           ELSE {})
    /\ command' = "idle" /\ report' = "failed" /\ position' = 0
    /\ NoFile
    /\ UNCHANGED <<served, store, version, readVars>>

\* Vector Search (external): a write can be found from now on.
BecomesQueryable ==
    /\ \E d \in Datapoints :
          /\ served[d] # index[d]
          /\ served' = [served EXCEPT ![d] = index[d]]
    /\ UNCHANGED <<index, store, writeVars, readVars>>

(***************************************************************************)
(* Questions, one at a time: they change nothing.                          *)
(***************************************************************************)

\* The function returns.
Gives(outcome, links) ==
    /\ stage' = "replied"
    /\ shown' = [outcome |-> outcome, links |-> links]
    /\ neighbours' = {}

\* It returns without a source, by what it was asked for.
GivesUp(outcome) == Gives(IF purpose' = "answer" THEN outcome ELSE "links", {})

\* The nearest neighbours: any TopK, or all there are.
Neighbours ==
    LET hits == {d \in Datapoints : served[d] > 0}
        count == IF Cardinality(hits) < TopK THEN Cardinality(hits) ELSE TopK IN
    {found \in SUBSET hits : Cardinality(found) = count}

Retrieve ==
    /\ stage = "idle"
    /\ purpose' \in {"answer", "search"}
    /\ \/ \E found \in Neighbours \ {{}} :
             /\ neighbours' = found /\ stage' = "retrieved"
             /\ UNCHANGED shown
       \/ {} \in Neighbours /\ GivesUp("noContext")
       \/ GivesUp("fallback")
    /\ UNCHANGED <<index, served, store, writeVars, sources, markers>>

\* Mutation of Readable: an id without a text is a source all the same.
ReadableAnyway == neighbours

\* What get_many has a text for.
Readable == {d \in neighbours : store[d].version > 0}

\* The orders in which these may have been found: the nearest first.
Rankings(datapoints) ==
    {order \in [1 .. Cardinality(datapoints) -> datapoints] :
        \A i, j \in DOMAIN order : order[i] = order[j] => i = j}

\* The numbered sources of _build_prompt, with what Firestore has by now.
Numbered(order) ==
    [n \in DOMAIN order |-> [article |-> order[n][1], linked |-> store[order[n]].linked]]

\* The sources whose link is none of an earlier source.
Firsts(from) ==
    {n \in DOMAIN from :
        /\ from[n].linked
        /\ \A m \in 1 .. n - 1 : from[m].linked => from[m].article # from[n].article}

Links(from, numbers) == {from[n].article : n \in numbers}

\* get_many, in one round trip.  search_docs is done then.
ReadTexts ==
    /\ stage = "retrieved"
    /\ UNCHANGED purpose
    /\ \/ GivesUp("fallback") /\ UNCHANGED sources
       \/ Readable = {} /\ GivesUp("noContext") /\ UNCHANGED sources
       \/ /\ Readable # {}
          /\ \E order \in Rankings(Readable) :
                \/ /\ purpose = "search"
                   /\ Gives("links", Links(Numbered(order), Firsts(Numbered(order))))
                   /\ UNCHANGED sources
                \/ /\ purpose = "answer"
                   /\ sources' = Numbered(order)
                   /\ stage' = "grounded" /\ neighbours' = {}
                   /\ UNCHANGED shown
    /\ UNCHANGED <<index, served, store, writeVars, markers>>

\* Mutation of NumberOf: the links are numbered, not the sources.
NumberAmongLinks(n) == Cardinality({m \in Firsts(sources) : m <= n})

\* The number of the citation that stands for source n.
NumberOf(n) == n

\* final_citations: those that the model cites, or all if it cites none.
Cited ==
    LET cited == {n \in Firsts(sources) : NumberOf(n) \in markers'} IN
    Links(sources, IF cited # {} THEN cited ELSE Firsts(sources))

\* The model fails or says nothing, finds the sources insufficient, or answers
\* with any markers, also of sources that there are not.
Generate ==
    /\ stage = "grounded"
    /\ \/ Gives("fallback", {}) /\ UNCHANGED markers
       \/ Gives("noContext", {}) /\ UNCHANGED markers
       \/ /\ markers' \in SUBSET (1 .. Len(sources) + 1)
          /\ Gives("answer", Cited)
    /\ UNCHANGED <<index, served, store, writeVars, purpose, sources>>

\* The caller has it; the next question may come.
Forget ==
    /\ stage = "replied"
    /\ stage' = "idle" /\ purpose' = "answer" /\ shown' = NoAnswer
    /\ neighbours' = {} /\ sources' = <<>> /\ markers' = {}
    /\ UNCHANGED <<index, served, store, writeVars>>

KnowledgeStep ==
    \/ Ingest \/ Embed \/ UpsertNext \/ StoreTexts
    \/ RemoveFile \/ SweepNext \/ DeleteTexts \/ Abort
    \/ BecomesQueryable
    \/ Retrieve \/ ReadTexts \/ Generate \/ Forget

KnowledgeSpec == KnowledgeInit /\ [][KnowledgeStep]_knowledgeVars

\* "give the streaming upsert ~1 min to become queryable".
KnowledgeFairSpec == KnowledgeSpec /\ WF_knowledgeVars(BecomesQueryable)

(***************************************************************************)
(* Properties.                                                             *)
(***************************************************************************)

Sources == [article : {"article", "manual"}, linked : BOOLEAN]

\* Every variable has its type; no batch starts after the last chunk.
KnowledgeTypeOK ==
    /\ index \in [Datapoints -> Versions] /\ served \in [Datapoints -> Versions]
    /\ store \in [Datapoints -> Texts]
    /\ command \in {"idle", "embedding", "upserting", "storing", "sweeping", "deleting"}
    /\ version \in Versions /\ size \in 0 .. MaxChunks /\ linked \in BOOLEAN
    /\ position \in 0 .. size + Ceiling /\ skipped \subseteq Manual
    /\ command = "upserting" => position < size
    /\ report \in {"none", "ingested", "removed", "failed"}
    /\ stage \in {"idle", "retrieved", "grounded", "replied"} /\ purpose \in {"answer", "search"}
    /\ neighbours \subseteq Datapoints /\ Cardinality(neighbours) <= TopK
    /\ sources \in Seq(Sources) /\ Len(sources) <= TopK
    /\ markers \subseteq 1 .. TopK + 1
    /\ shown.outcome \in {"none", "fallback", "noContext", "answer", "links"}
    /\ shown.links \subseteq {"article", "manual"}

\* When an ingest says that it is done, every chunk of the file is in both
\* stores in this version, except for the datapoints that were rejected.
IngestComplete ==
    report = "ingested" =>
        \A d \in Manual : d[2] < size =>
            /\ store[d] = [version |-> version, linked |-> linked]
            /\ d \notin skipped => index[d] = version

\* When a removal says that it is done, nothing is left of the file, however
\* often and in whatever lengths it was put in and whatever failed on the way,
\* except for datapoints without a text above the ceiling.
RemovedIsGone ==
    report = "removed" =>
        \A d \in Manual : store[d] = NoText /\ (d[2] < Ceiling => index[d] = 0)

\* A removed file grounds no answer and is linked by none, although queries may
\* find its datapoints for a while, and those above the ceiling forever.
RemovedIsNotCited ==
    [][stage = "retrieved" /\ report = "removed" =>
         /\ "manual" \notin shown'.links
         /\ \A n \in DOMAIN sources' : sources'[n].article # "manual"]_knowledgeVars

\* The links below an answer are those of sources that the model was given.
\* When it cites the first source of some article, that article is linked, and
\* none is that it does not cite.
LinksMatchMarkers ==
    shown.outcome = "answer" =>
        LET cited == markers \cap DOMAIN sources
            firsts == {n \in cited : sources[n].linked /\
                          \A m \in 1 .. n - 1 : sources[m].article # sources[n].article}
        IN  /\ shown.links \subseteq {sources[n].article : n \in DOMAIN sources}
            /\ {sources[n].article : n \in firsts} \subseteq shown.links
            /\ firsts # {} =>
                  shown.links \subseteq {sources[n].article : n \in cited}

\* What an ingest put in completely can be found in the end in both stores,
\* unless another command comes.
IngestedIsServed ==
    (report = "ingested" /\ skipped = {}) ~>
        \/ report # "ingested"
        \/ \A d \in Manual : d[2] < size =>
              served[d] = version /\ store[d].version = version
=============================================================================
