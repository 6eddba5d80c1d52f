------------------------------ MODULE SyncJob ------------------------------
(***************************************************************************)
(* The nightly job that copies a Document360 project into the two stores   *)
(* the chat service answers from: the vector index (datapoints) and the    *)
(* Firestore chunk store (texts).  One run is the body of `run_sync` in    *)
(* sync-job/sync_job/main.py; its memory between runs is one Firestore     *)
(* document, the watermark and the list of articles that failed to fetch.  *)
(*                                                                         *)
(* Editors change articles at any moment of a run.  The content of an      *)
(* article is identified by the instant it was modified; `clock` counts    *)
(* edits, and a run that starts between two edits takes the first's        *)
(* instant as its start.  So two different edits never share an instant,   *)
(* and an edit made after a run started is later than that start: the      *)
(* model assumes that Document360 and the job read comparable clocks.      *)
(***************************************************************************)
EXTENDS Integers, FiniteSets

CONSTANTS
    Articles,    \* article ids of the project version that is synced
    MaxChunks,   \* an article chunks into at most this many pieces (bound)
    Language,    \* the language code of each article
    Broken,      \* articles whose fetch fails on every attempt
    Rejected,    \* datapoints <<article, ordinal>> Vector Search refuses
    Jobs,        \* executions that may be running run_sync
    Modes,       \* command lines in use: [skip, limit]
    NoLimit,     \* the limit of a run without --limit
    Overlap,     \* whether a run may start while another one is active
    CrashAt,     \* program points at which a run may die
    MaxEdits,    \* edits before this many instants have passed (bound)
    MaxCrashes   \* runs that die (bound)

Ordinals == 0 .. (MaxChunks - 1)

\* Language codes a fetch may ask for.
Languages == {"en"} \cup {Language[a] : a \in Articles}

Steps == {"idle", "readWatermark", "readFailed", "list", "fetch", "embed",
          "upsert", "put", "writeWatermark", "writeFailed"}

ASSUME ConstantsAssumption ==
    /\ MaxChunks \in Nat
    /\ MaxEdits \in Nat
    /\ MaxCrashes \in Nat
    /\ Broken \subseteq Articles
    /\ Rejected \subseteq Articles \X Ordinals
    /\ NoLimit \notin Nat
    /\ Modes \subseteq [skip : BOOLEAN, limit : Nat \cup {NoLimit}]
    /\ Overlap \in BOOLEAN
    /\ CrashAt \subseteq Steps \ {"idle"}

VARIABLES
    \* Document360 and its editors
    article,     \* what Document360 serves for each article
    clock,       \* the instant of the latest edit
    \* the stores the chat service reads
    index,       \* content each datapoint was built from; 0: no datapoint
    store,       \* content each stored text was cut from; 0: no document
    \* the Firestore document sync_state/document360
    watermark,   \* last_synced_at; 0: never written
    failed,      \* failed_article_ids
    \* the local state of each run
    pc,          \* where the run is
    mode,        \* its command line
    started,     \* started_at
    since,       \* the watermark it read; 0: none, a full sync
    retry,       \* the failed ids it read
    targets,     \* (id, language) pairs still to fetch
    fetched,     \* content of the articles fetched; see NotFetched
    lost,        \* ids whose fetch failed in this run
    todo,        \* chunks still to write in this phase
    crashes      \* runs that died so far

sources == <<article, clock>>
stores == <<index, store>>
syncState == <<watermark, failed>>
locals == <<mode, started, since, retry, targets, fetched, lost, todo>>
vars == <<sources, stores, syncState, pc, locals, crashes>>

Content == [mod : Nat, size : 0 .. MaxChunks, indexable : BOOLEAN]

\* The value of `fetched` for an article that is not in the run's list.
NotFetched == [mod |-> 0, size |-> 0, indexable |-> FALSE]

\* A nightly run: `python -m sync_job.main` with no option.
Nightly == [skip |-> FALSE, limit |-> NoLimit]

Idle(j) == pc[j] = "idle"

(***************************************************************************)
(* What the run computes from what it has in memory.                       *)
(***************************************************************************)

\* The stubs list_articles returns: published and not hidden, and modified
\* after the watermark.  A missing watermark (0) filters nothing out.
Changed(watermarkRead) ==
    {a \in Articles : article[a].indexable /\ article[a].mod > watermarkRead}

\* stubs[:limit].  The order of the category tree is left open.
Kept(stubs, limit) ==
    IF limit = NoLimit THEN {stubs}
    ELSE {s \in SUBSET stubs : \/ Cardinality(s) = limit
                               \/ s = stubs /\ Cardinality(stubs) <= limit}

\* Mutation of FetchTargets: ids without their languages.
FetchTargetsWithoutLanguage(kept, retryIds) == kept \cup retryIds

\* Mutation of FetchTargets: the retry list is not fetched.
FetchTargetsWithoutRetry(kept, retryIds) == {<<a, Language[a]>> : a \in kept}

\* What is fetched: each kept stub in its language, and each id of the retry
\* list that is not among them, for which the language is not known, in "en".
FetchTargets(kept, retryIds) ==
    {<<a, Language[a]>> : a \in kept} \cup {<<a, "en">> : a \in retryIds \ kept}

\* The chunks of everything a run fetched.  An article without chunks (size
\* 0) contributes nothing.
ChunksOf(contents) ==
    {c \in Articles \X Ordinals : c[2] < contents[c[1]].size}

\* Mutation of Written: a complete overwrite, which drops all the rest.
WrittenCompletely(old, part, contents) ==
    [a \in Articles |-> [o \in Ordinals |->
        IF <<a, o>> \in part THEN contents[a].mod ELSE 0]]

\* The datapoints (or documents) `old` with the chunks of `part` overwritten
\* by what the run fetched.
Written(old, part, contents) ==
    [a \in Articles |-> [o \in Ordinals |->
        IF <<a, o>> \in part THEN contents[a].mod ELSE old[a][o]]]

\* The step after the stores are written: only a run with a store records
\* its progress.
AfterWrites(m) == IF m.skip THEN "idle" ELSE "writeWatermark"

(***************************************************************************)
(* Initially nothing has been synced.                                      *)
(***************************************************************************)
Init ==
    /\ article \in [Articles -> [mod : {1}, size : 0 .. MaxChunks, indexable : BOOLEAN]]
    /\ clock = 1
    /\ index = [a \in Articles |-> [o \in Ordinals |-> 0]]
    /\ store = [a \in Articles |-> [o \in Ordinals |-> 0]]
    /\ watermark = 0
    /\ failed = {}
    /\ pc = [j \in Jobs |-> "idle"]
    /\ mode = [j \in Jobs |-> Nightly]
    /\ started = [j \in Jobs |-> 0]
    /\ since = [j \in Jobs |-> 0]
    /\ retry = [j \in Jobs |-> {}]
    /\ targets = [j \in Jobs |-> {}]
    /\ fetched = [j \in Jobs |-> [a \in Articles |-> NotFetched]]
    /\ lost = [j \in Jobs |-> {}]
    /\ todo = [j \in Jobs |-> {}]
    /\ crashes = 0

\* A run ends, one way or the other: its local variables are gone.
Leave(j) ==
    /\ pc' = [pc EXCEPT ![j] = "idle"]
    /\ mode' = [mode EXCEPT ![j] = Nightly]
    /\ started' = [started EXCEPT ![j] = 0]
    /\ since' = [since EXCEPT ![j] = 0]
    /\ retry' = [retry EXCEPT ![j] = {}]
    /\ targets' = [targets EXCEPT ![j] = {}]
    /\ fetched' = [fetched EXCEPT ![j] = [a \in Articles |-> NotFetched]]
    /\ lost' = [lost EXCEPT ![j] = {}]
    /\ todo' = [todo EXCEPT ![j] = {}]

\* The run goes on at `step`, or ends when that is "idle".
Proceed(j, step) ==
    IF step = "idle" THEN Leave(j)
    ELSE /\ pc' = [pc EXCEPT ![j] = step]
         /\ UNCHANGED locals

(***************************************************************************)
(* An editor saves an article, publishes or hides it, or unpublishes it.   *)
(* Every such change moves modified_at.                                    *)
(***************************************************************************)
Edit(a, size, indexable) ==
    /\ clock < MaxEdits
    /\ clock' = clock + 1
    /\ article' = [article EXCEPT ![a] =
                     [mod |-> clock + 1, size |-> size, indexable |-> indexable]]
    /\ UNCHANGED <<stores, syncState, pc, locals, crashes>>

(***************************************************************************)
(* One run.                                                                *)
(***************************************************************************)

\* The scheduler, or an operator at a shell, starts a run.  With
\* --skip-watermark the run has no store and reads nothing.
Start(j, m) ==
    /\ Idle(j)
    /\ Overlap \/ \A k \in Jobs : Idle(k)
    /\ mode' = [mode EXCEPT ![j] = m]
    /\ started' = [started EXCEPT ![j] = clock]
    /\ pc' = [pc EXCEPT ![j] = IF m.skip THEN "list" ELSE "readWatermark"]
    /\ UNCHANGED <<sources, stores, syncState, since, retry, targets, fetched,
                   lost, todo, crashes>>

ReadWatermark(j) ==
    /\ pc[j] = "readWatermark"
    /\ since' = [since EXCEPT ![j] = watermark]
    /\ pc' = [pc EXCEPT ![j] = "readFailed"]
    /\ UNCHANGED <<sources, stores, syncState, mode, started, retry, targets,
                   fetched, lost, todo, crashes>>

\* A second read of the same document.
ReadFailed(j) ==
    /\ pc[j] = "readFailed"
    /\ retry' = [retry EXCEPT ![j] = failed]
    /\ pc' = [pc EXCEPT ![j] = "list"]
    /\ UNCHANGED <<sources, stores, syncState, mode, started, since, targets,
                   fetched, lost, todo, crashes>>

\* Mutation of List: --limit cuts the retried articles too.
ListLimitsRetries(j) ==
    /\ pc[j] = "list"
    /\ \E some \in Kept(FetchTargets(Changed(since[j]), retry[j]), mode[j].limit) :
          targets' = [targets EXCEPT ![j] = some]
    /\ pc' = [pc EXCEPT ![j] = "fetch"]
    /\ UNCHANGED <<sources, stores, syncState, mode, started, since, retry,
                   fetched, lost, todo, crashes>>

\* The category tree arrives in one response.
List(j) ==
    /\ pc[j] = "list"
    /\ \E kept \in Kept(Changed(since[j]), mode[j].limit) :
          targets' = [targets EXCEPT ![j] = FetchTargets(kept, retry[j])]
    /\ pc' = [pc EXCEPT ![j] = "fetch"]
    /\ UNCHANGED <<sources, stores, syncState, mode, started, since, retry,
                   fetched, lost, todo, crashes>>

\* get_article returns what Document360 serves now, whatever its status.
\* An article does not exist in a language it was not written in.
FetchOk(j, a, lang) ==
    /\ pc[j] = "fetch"
    /\ <<a, lang>> \in targets[j]
    /\ lang = Language[a]
    /\ a \notin Broken
    /\ fetched' = [fetched EXCEPT ![j] = [@ EXCEPT ![a] = article[a]]]
    /\ targets' = [targets EXCEPT ![j] = @ \ {<<a, lang>>}]
    /\ UNCHANGED <<sources, stores, syncState, pc, mode, started, since, retry,
                   lost, todo, crashes>>

\* Mutation of FetchFail: the failure is logged but not collected.
FetchFailUnrecorded(j, a, lang) ==
    /\ pc[j] = "fetch"
    /\ <<a, lang>> \in targets[j]
    /\ targets' = [targets EXCEPT ![j] = @ \ {<<a, lang>>}]
    /\ UNCHANGED <<sources, stores, syncState, pc, mode, started, since, retry,
                   fetched, lost, todo, crashes>>

\* Mutation of FetchFail: the exception ends the run.
FetchFailEndsRun(j, a, lang) ==
    /\ pc[j] = "fetch"
    /\ <<a, lang>> \in targets[j]
    /\ Leave(j)
    /\ UNCHANGED <<sources, stores, syncState, crashes>>

\* Any exception of get_article is confined to its article.
FetchFail(j, a, lang) ==
    /\ pc[j] = "fetch"
    /\ <<a, lang>> \in targets[j]
    /\ lost' = [lost EXCEPT ![j] = @ \cup {a}]
    /\ targets' = [targets EXCEPT ![j] = @ \ {<<a, lang>>}]
    /\ UNCHANGED <<sources, stores, syncState, pc, mode, started, since, retry,
                   fetched, todo, crashes>>

\* "nothing to sync" when no article was fetched: the progress is recorded
\* all the same.
FinishFetch(j) ==
    /\ pc[j] = "fetch"
    /\ targets[j] = {}
    /\ Proceed(j, IF \E a \in Articles : fetched[j][a].mod # 0 THEN "embed"
                  ELSE AfterWrites(mode[j]))
    /\ UNCHANGED <<sources, stores, syncState, crashes>>

\* Every article is chunked and its chunks are embedded before the first
\* write.  A run whose articles have no chunks writes nothing.
Embed(j) ==
    /\ pc[j] = "embed"
    /\ LET chunks == ChunksOf(fetched[j]) IN
          IF chunks = {} THEN Proceed(j, AfterWrites(mode[j]))
          ELSE /\ todo' = [todo EXCEPT ![j] = chunks]
               /\ pc' = [pc EXCEPT ![j] = "upsert"]
               /\ UNCHANGED <<mode, started, since, retry, targets, fetched, lost>>
    /\ UNCHANGED <<sources, stores, syncState, crashes>>

\* One upsert_datapoints call reaches the index.  A batch is up to 100
\* datapoints, or a single one when the batch was refused and is replayed one
\* by one, so any part of what is left may land at once; refused datapoints
\* are skipped for good.
Upsert(j) ==
    /\ pc[j] = "upsert"
    /\ \E batch \in SUBSET todo[j] :
          /\ batch # {}
          /\ index' = Written(index, batch \ Rejected, fetched[j])
          /\ IF batch = todo[j]
             THEN /\ todo' = [todo EXCEPT ![j] = ChunksOf(fetched[j])]
                  /\ pc' = [pc EXCEPT ![j] = "put"]
             ELSE /\ todo' = [todo EXCEPT ![j] = @ \ batch]
                  /\ UNCHANGED pc
    /\ UNCHANGED <<sources, store, syncState, mode, started, since, retry,
                   targets, fetched, lost, crashes>>

\* One commit of a Firestore batch of chunk texts (up to 450).
Put(j) ==
    /\ pc[j] = "put"
    /\ \E batch \in SUBSET todo[j] :
          /\ batch # {}
          /\ store' = Written(store, batch, fetched[j])
          /\ IF batch = todo[j] THEN Proceed(j, AfterWrites(mode[j]))
             ELSE /\ todo' = [todo EXCEPT ![j] = @ \ batch]
                  /\ UNCHANGED <<pc, mode, started, since, retry, targets,
                                 fetched, lost>>
    /\ UNCHANGED <<sources, index, syncState, crashes>>

\* Mutation of WriteWatermark: the time the run ends.
WriteWatermarkAtEnd(j) ==
    /\ pc[j] = "writeWatermark"
    /\ watermark' = clock
    /\ pc' = [pc EXCEPT ![j] = "writeFailed"]
    /\ UNCHANGED <<sources, stores, failed, locals, crashes>>

WriteWatermark(j) ==
    /\ pc[j] = "writeWatermark"
    /\ watermark' = started[j]
    /\ pc' = [pc EXCEPT ![j] = "writeFailed"]
    /\ UNCHANGED <<sources, stores, failed, locals, crashes>>

WriteFailed(j) ==
    /\ pc[j] = "writeFailed"
    /\ failed' = lost[j]
    /\ Leave(j)
    /\ UNCHANGED <<sources, stores, watermark, crashes>>

\* An exception nothing catches (the listing, the embedding, an index or
\* Firestore error after its retries), a timeout of the job, a kill.
Abort(j) ==
    /\ pc[j] \in CrashAt
    /\ crashes < MaxCrashes
    /\ crashes' = crashes + 1
    /\ Leave(j)
    /\ UNCHANGED <<sources, stores, syncState>>

RunStep(j) ==
    \/ ReadWatermark(j) \/ ReadFailed(j) \/ List(j)
    \/ \E a \in Articles, lang \in Languages :
          FetchOk(j, a, lang) \/ FetchFail(j, a, lang)
    \/ FinishFetch(j) \/ Embed(j) \/ Upsert(j) \/ Put(j)
    \/ WriteWatermark(j) \/ WriteFailed(j)

Next ==
    \/ \E a \in Articles, size \in 0 .. MaxChunks, indexable \in BOOLEAN :
          Edit(a, size, indexable)
    \/ \E j \in Jobs : (\E m \in Modes : Start(j, m)) \/ RunStep(j) \/ Abort(j)

Spec == Init /\ [][Next]_vars

(***************************************************************************)
(* Fairness.  Cloud Scheduler starts a nightly run every night, whatever   *)
(* operators run by day (hence strong); a run that is going keeps going.   *)
(* Every fetch error is transient except for the Broken articles: an       *)
(* article that is tried again and again is fetched at last.  Editors,     *)
(* operators and crashes owe nothing.                                      *)
(***************************************************************************)
Fairness ==
    /\ \A j \in Jobs : SF_vars(Start(j, Nightly))
    /\ \A j \in Jobs : WF_vars(RunStep(j))
    /\ \A j \in Jobs, a \in Articles : SF_vars(FetchOk(j, a, Language[a]))

FairSpec == Spec /\ Fairness

(***************************************************************************)
(* Properties.                                                             *)
(***************************************************************************)

\* Every variable has its type.
TypeOK ==
    /\ article \in [Articles -> Content]
    /\ clock \in Nat
    /\ index \in [Articles -> [Ordinals -> Nat]]
    /\ store \in [Articles -> [Ordinals -> Nat]]
    /\ watermark \in Nat
    /\ failed \subseteq Articles
    /\ pc \in [Jobs -> Steps]
    /\ mode \in [Jobs -> [skip : BOOLEAN, limit : Nat \cup {NoLimit}]]
    /\ started \in [Jobs -> Nat]
    /\ since \in [Jobs -> Nat]
    /\ retry \in [Jobs -> SUBSET Articles]
    /\ targets \in [Jobs -> SUBSET (Articles \X Languages)]
    /\ fetched \in [Jobs -> [Articles -> Content]]
    /\ lost \in [Jobs -> SUBSET Articles]
    /\ todo \in [Jobs -> SUBSET (Articles \X Ordinals)]
    /\ crashes \in Nat

\* Every chunk of the article's current content is in both stores, save the
\* datapoints Vector Search refuses.
Reflected(a) ==
    \A o \in Ordinals : o < article[a].size =>
        /\ store[a][o] = article[a].mod
        /\ <<a, o>> \in Rejected \/ index[a][o] = article[a].mod

\* The next run will fetch the article: it is newer than the watermark, or on
\* the retry list, or the active run is about to put it there.
Owed(a) ==
    \/ article[a].mod > watermark
    \/ a \in failed
    \/ \E j \in Jobs : pc[j] = "writeFailed" /\ a \in lost[j]

\* No edit is lost: at every moment each indexable article is either served
\* in its current content, or remembered by the sync state, however edits,
\* fetch failures and crashes interleave with the run.  This is what the two
\* halves of sync_state/document360 (watermark.py) are for, and why the
\* watermark is the START of a run.
NoLostUpdate ==
    \A a \in Articles : article[a].indexable => Reflected(a) \/ Owed(a)

\* A datapoint or a text is never replaced by an older content of its
\* article: what a run writes was fetched after everything it overwrites.
NeverRegresses ==
    [][\A a \in Articles, o \in Ordinals :
          index'[a][o] >= index[a][o] /\ store'[a][o] >= store[a][o]]_stores

\* What a run puts into the index was published and not hidden when it was
\* fetched, as document360.py promises of everything it returns.
OnlyIndexableServed ==
    [][\A a \in Articles, o \in Ordinals :
          index'[a][o] # index[a][o] =>
             \E j \in Jobs : /\ fetched[j][a].mod = index'[a][o]
                            /\ fetched[j][a].indexable]_stores

\* The watermark never moves back, which would list articles again, nor
\* passes the start of a run that is still going, whose edits it would hide.
WatermarkBehindRuns ==
    [][watermark' >= watermark /\ \A j \in Jobs : ~Idle(j) => watermark' <= started[j]]_syncState

\* An article leaves the retry list only after some run fetched it since it
\* was put there, whatever crashes and limits did in between.
RetriedUntilFetched ==
    [][\A a \in failed \ failed' :
          \E j \in Jobs : pc[j] = "writeFailed" /\ fetched[j][a].mod # 0]_syncState

\* What happens in the end: once the editors stop, every published, visible
\* article is served in its current content, except those that cannot be
\* fetched.  One broken article does not hold up the others.
EventuallyServed ==
    \A a \in Articles \ Broken :
        Language[a] = "en" => <>[](article[a].indexable => Reflected(a))

(***************************************************************************)
(* The inductive invariants behind the safety properties.                  *)
(***************************************************************************)

\* The steps of a run that follow the listing, and those that follow the
\* fetching.
Fetched == {"embed", "upsert", "put", "writeWatermark", "writeFailed"}
Listed == {"fetch"} \cup Fetched

Alone == \A j, k \in Jobs : ~Idle(j) /\ ~Idle(k) => j = k

\* Between runs nothing is left of one.
CleanWhenIdle ==
    \A j \in Jobs : Idle(j) => fetched[j] = [a \in Articles |-> NotFetched]

\* Instants: nothing is later than the clock, a run started after the
\* watermark, and the watermark becomes its start.
Instants ==
    /\ \A a \in Articles : 1 <= article[a].mod /\ article[a].mod <= clock
    /\ watermark <= clock
    /\ \A j \in Jobs : ~Idle(j) => watermark <= started[j] /\ started[j] <= clock
    /\ \A j \in Jobs : pc[j] = "writeFailed" => watermark = started[j]

\* A run without a store touches no sync state.
SkipTouchesNothing ==
    \A j \in Jobs : mode[j].skip =>
        pc[j] \notin {"readWatermark", "readFailed", "writeWatermark", "writeFailed"}

\* What a run has read of the sync state is what is there.
MemoryCurrent ==
    \A j \in Jobs : ~mode[j].skip =>
        /\ pc[j] \in {"readFailed", "list"} => since[j] = watermark
        /\ pc[j] = "list" => retry[j] = failed

\* What a run has fetched is at least as new as both stores, and no newer
\* than Document360.
FetchedNewest ==
    \A a \in Articles :
        /\ \A o \in Ordinals :
              index[a][o] <= article[a].mod /\ store[a][o] <= article[a].mod
        /\ \A j \in Jobs : fetched[j][a] # NotFetched =>
              /\ 0 < fetched[j][a].mod /\ fetched[j][a].mod <= article[a].mod
              /\ \A o \in Ordinals : /\ index[a][o] <= fetched[j][a].mod
                                     /\ store[a][o] <= fetched[j][a].mod

\* Nothing remains to be fetched after the fetching, and only what was
\* fetched is written.
PhasesInOrder ==
    \A j \in Jobs :
        /\ pc[j] \in Fetched => targets[j] = {}
        /\ pc[j] \in {"upsert", "put"} => todo[j] \subseteq ChunksOf(fetched[j])

\* The run has not forgotten an article: it is still to be fetched, or in the
\* run's own list of failures, or fetched.
Remembered(j, a) ==
    \/ \E lang \in Languages : <<a, lang>> \in targets[j]
    \/ a \in lost[j]
    \/ fetched[j][a].mod # 0

RetryRemembered ==
    \A j \in Jobs : ~mode[j].skip /\ pc[j] \in Listed =>
        \A a \in failed : Remembered(j, a)

\* Holds of runs that never overlap, with any options and crashes.
RunInv ==
    /\ TypeOK
    /\ Alone
    /\ CleanWhenIdle
    /\ Instants
    /\ SkipTouchesNothing
    /\ MemoryCurrent
    /\ FetchedNewest
    /\ PhasesInOrder
    /\ RetryRemembered

\* An article not edited since the run started is fetched as it still is.
FetchedCurrent ==
    \A j \in Jobs, a \in Articles :
        fetched[j][a].mod # 0 /\ article[a].mod <= started[j] =>
            fetched[j][a] = article[a]

\* How far the writing of a fetched chunk has come.
Indexed(j, a, o) == <<a, o>> \in Rejected \/ index[a][o] = fetched[j][a].mod
Stored(j, a, o) == store[a][o] = fetched[j][a].mod

WritesComplete ==
    \A j \in Jobs, a \in Articles, o \in Ordinals :
        <<a, o>> \in ChunksOf(fetched[j]) =>
            /\ pc[j] = "upsert" => <<a, o>> \in todo[j] \/ Indexed(j, a, o)
            /\ pc[j] = "put" =>
                  Indexed(j, a, o) /\ (<<a, o>> \in todo[j] \/ Stored(j, a, o))
            /\ pc[j] \in {"writeWatermark", "writeFailed"} =>
                  Indexed(j, a, o) /\ Stored(j, a, o)

\* Every article edited before a recording run started is served already or
\* remembered by that run.
EditsRemembered ==
    \A j \in Jobs, a \in Articles :
        /\ ~mode[j].skip
        /\ pc[j] \in Listed
        /\ article[a].indexable
        /\ article[a].mod <= started[j]
        => Reflected(a) \/ Remembered(j, a)

\* A run that records its progress was not cut short by --limit.
FullWhenRecorded == \A j \in Jobs : mode[j].skip \/ mode[j].limit = NoLimit

SyncInv ==
    /\ FetchedCurrent
    /\ WritesComplete
    /\ EditsRemembered
    /\ FullWhenRecorded
    /\ NoLostUpdate

\* The deployment in which no edit is lost: runs do not overlap, --limit is
\* used only with --skip-watermark, and no run dies between the two writes of
\* the sync state.
SafeDeployment ==
    /\ ~Overlap
    /\ "writeFailed" \notin CrashAt
    /\ \A m \in Modes : m.skip \/ m.limit = NoLimit
=============================================================================
