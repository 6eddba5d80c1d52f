---------------------------- MODULE SyncJobProofs ----------------------------
(***************************************************************************)
(* For any articles, jobs, command lines and bounds: the types; and for    *)
(* runs that never overlap, dying anywhere: RunInv is an inductive         *)
(* invariant, and what follows from it.                                    *)
(***************************************************************************)
EXTENDS SyncJob, TLAPS

(***************************************************************************)
(* Types, whether runs overlap or not.                                     *)
(***************************************************************************)

\* What the end of a run, or of one of its phases, leaves in its variables.
LEMMA LeaveType ==
    ASSUME TypeOK, NEW j \in Jobs, Leave(j)
    PROVE  /\ pc' \in [Jobs -> Steps]
           /\ mode' \in [Jobs -> [skip : BOOLEAN, limit : Nat \cup {NoLimit}]]
           /\ started' \in [Jobs -> Nat]
           /\ since' \in [Jobs -> Nat]
           /\ retry' \in [Jobs -> SUBSET Articles]
           /\ targets' \in [Jobs -> SUBSET (Articles \X Languages)]
           /\ fetched' \in [Jobs -> [Articles -> Content]]
           /\ lost' \in [Jobs -> SUBSET Articles]
           /\ todo' \in [Jobs -> SUBSET (Articles \X Ordinals)]
  BY ConstantsAssumption DEF TypeOK, Leave, Steps, Nightly, NotFetched, Content

LEMMA WrittenType ==
    ASSUME NEW old \in [Articles -> [Ordinals -> Nat]],
           NEW part,
           NEW contents \in [Articles -> Content]
    PROVE  Written(old, part, contents) \in [Articles -> [Ordinals -> Nat]]
  BY DEF Written, Content

LEMMA ChunksType ==
    ASSUME NEW contents
    PROVE  ChunksOf(contents) \subseteq Articles \X Ordinals
  BY DEF ChunksOf

\* Every step keeps the types.
LEMMA TypeStep == TypeOK /\ [Next]_vars => TypeOK'
<1> SUFFICES ASSUME TypeOK, [Next]_vars PROVE TypeOK'
  OBVIOUS
<1>1. ASSUME NEW a \in Articles, NEW size \in 0 .. MaxChunks,
             NEW indexable \in BOOLEAN, Edit(a, size, indexable)
      PROVE  TypeOK'
  BY <1>1 DEF Edit, TypeOK, Content, stores, syncState, locals
<1>2. ASSUME NEW j \in Jobs, NEW m \in Modes, Start(j, m)
      PROVE  TypeOK'
  BY <1>2, ConstantsAssumption
  DEF Start, TypeOK, Steps, sources, stores, syncState
<1>3. ASSUME NEW j \in Jobs, ReadWatermark(j) PROVE TypeOK'
  BY <1>3 DEF ReadWatermark, TypeOK, Steps, sources, stores, syncState
<1>4. ASSUME NEW j \in Jobs, ReadFailed(j) PROVE TypeOK'
  BY <1>4 DEF ReadFailed, TypeOK, Steps, sources, stores, syncState
<1>5. ASSUME NEW j \in Jobs, List(j) PROVE TypeOK'
  BY <1>5 DEF List, TypeOK, Steps, sources, stores, syncState, Kept, Changed,
              FetchTargets, Languages
<1>6. ASSUME NEW j \in Jobs, NEW a \in Articles, NEW lang \in Languages,
             FetchOk(j, a, lang)
      PROVE  TypeOK'
  BY <1>6 DEF FetchOk, TypeOK, Steps, sources, stores, syncState
<1>7. ASSUME NEW j \in Jobs, NEW a \in Articles, NEW lang \in Languages,
             FetchFail(j, a, lang)
      PROVE  TypeOK'
  BY <1>7 DEF FetchFail, TypeOK, Steps, sources, stores, syncState
<1>8. ASSUME NEW j \in Jobs, FinishFetch(j) PROVE TypeOK'
  BY <1>8, LeaveType
  DEF FinishFetch, Proceed, AfterWrites, TypeOK, Steps, sources, stores,
      syncState, locals
<1>9. ASSUME NEW j \in Jobs, Embed(j) PROVE TypeOK'
  <2>1. UNCHANGED <<article, clock, index, store, watermark, failed, crashes>>
    BY <1>9 DEF Embed, sources, stores, syncState
  <2>2. CASE ChunksOf(fetched[j]) = {}
    BY <1>9, <2>1, <2>2, LeaveType
    DEF Embed, Proceed, AfterWrites, TypeOK, Steps, locals
  <2>3. CASE ChunksOf(fetched[j]) # {}
    <3>1. /\ todo' = [todo EXCEPT ![j] = ChunksOf(fetched[j])]
          /\ pc' = [pc EXCEPT ![j] = "upsert"]
          /\ UNCHANGED <<mode, started, since, retry, targets, fetched, lost>>
      BY <1>9, <2>3 DEF Embed
    <3>2. QED
      BY <2>1, <3>1, ChunksType DEF TypeOK, Steps
  <2>4. QED
    BY <2>2, <2>3
<1>10. ASSUME NEW j \in Jobs, Upsert(j) PROVE TypeOK'
  <2>1. PICK batch \in SUBSET todo[j] :
           /\ index' = Written(index, batch \ Rejected, fetched[j])
           /\ IF batch = todo[j]
              THEN /\ todo' = [todo EXCEPT ![j] = ChunksOf(fetched[j])]
                   /\ pc' = [pc EXCEPT ![j] = "put"]
              ELSE /\ todo' = [todo EXCEPT ![j] = @ \ batch]
                   /\ UNCHANGED pc
    BY <1>10 DEF Upsert
  <2>2. /\ index' \in [Articles -> [Ordinals -> Nat]]
        /\ UNCHANGED <<article, clock, store, watermark, failed, mode, started,
                       since, retry, targets, fetched, lost, crashes>>
    BY <1>10, <2>1, WrittenType DEF Upsert, TypeOK, sources, syncState
  <2>3. /\ todo' \in [Jobs -> SUBSET (Articles \X Ordinals)]
        /\ pc' \in [Jobs -> Steps]
    <3>1. CASE batch = todo[j]
      <4>1. /\ todo' = [todo EXCEPT ![j] = ChunksOf(fetched[j])]
            /\ pc' = [pc EXCEPT ![j] = "put"]
        BY <2>1, <3>1
      <4>2. QED
        BY <4>1, ChunksType DEF TypeOK, Steps
    <3>2. CASE batch # todo[j]
      <4>1. /\ todo' = [todo EXCEPT ![j] = @ \ batch]
            /\ UNCHANGED pc
        BY <2>1, <3>2
      <4>2. QED
        BY <4>1 DEF TypeOK
    <3>3. QED
      BY <3>1, <3>2
  <2>4. QED
    BY <2>2, <2>3 DEF TypeOK
<1>11. ASSUME NEW j \in Jobs, Put(j) PROVE TypeOK'
  <2>1. PICK batch \in SUBSET todo[j] :
           /\ store' = Written(store, batch, fetched[j])
           /\ IF batch = todo[j] THEN Proceed(j, AfterWrites(mode[j]))
              ELSE /\ todo' = [todo EXCEPT ![j] = @ \ batch]
                   /\ UNCHANGED <<pc, mode, started, since, retry, targets,
                                  fetched, lost>>
    BY <1>11 DEF Put
  <2>2. /\ store' \in [Articles -> [Ordinals -> Nat]]
        /\ UNCHANGED <<article, clock, index, watermark, failed, crashes>>
    BY <1>11, <2>1, WrittenType DEF Put, TypeOK, sources, syncState
  <2>3. CASE batch = todo[j]
    <3>1. AfterWrites(mode[j]) \in Steps /\ Proceed(j, AfterWrites(mode[j]))
      BY <2>1, <2>3 DEF AfterWrites, Steps
    <3>2. QED
      BY <2>2, <3>1, LeaveType DEF Proceed, locals, TypeOK
  <2>4. CASE batch # todo[j]
    <3>1. /\ todo' = [todo EXCEPT ![j] = @ \ batch]
          /\ UNCHANGED <<pc, mode, started, since, retry, targets, fetched, lost>>
      BY <2>1, <2>4
    <3>2. QED
      BY <2>2, <3>1 DEF TypeOK
  <2>5. QED
    BY <2>3, <2>4
<1>12. ASSUME NEW j \in Jobs, WriteWatermark(j) PROVE TypeOK'
  BY <1>12 DEF WriteWatermark, TypeOK, Steps, sources, stores, locals
<1>13. ASSUME NEW j \in Jobs, WriteFailed(j) PROVE TypeOK'
  BY <1>13, LeaveType DEF WriteFailed, TypeOK, sources, stores
<1>14. ASSUME NEW j \in Jobs, Abort(j) PROVE TypeOK'
  BY <1>14, LeaveType DEF Abort, TypeOK, sources, stores, syncState
<1>15. CASE UNCHANGED vars
  BY <1>15 DEF vars, sources, stores, syncState, locals, TypeOK
<1>16. QED
  BY <1>1, <1>2, <1>3, <1>4, <1>5, <1>6, <1>7, <1>8, <1>9, <1>10, <1>11,
     <1>12, <1>13, <1>14, <1>15 DEF Next, RunStep

LEMMA TypeInit == Init => TypeOK
  BY ConstantsAssumption DEF Init, TypeOK, Content, NotFetched, Nightly, Steps, Ordinals

\* Each variable always has its type.
THEOREM TypeCorrect == Spec => []TypeOK
<1>1. Init => TypeOK
  BY TypeInit
<1>2. TypeOK /\ [Next]_vars => TypeOK'
  BY TypeStep
<1>3. QED
  BY <1>1, <1>2, PTL DEF Spec

(***************************************************************************)
(* Runs that never overlap.                                                *)
(***************************************************************************)

\* When the one active run ends, no run is active and nothing of it is left,
\* whatever its last step wrote, as long as the stores stay behind
\* Document360.
LEMMA RunEnds ==
    ASSUME RunInv, TypeOK', NEW j \in Jobs, ~Idle(j), Leave(j),
           UNCHANGED <<article, clock, watermark>>,
           \A a \in Articles, o \in Ordinals :
              index'[a][o] <= article[a].mod /\ store'[a][o] <= article[a].mod
    PROVE  RunInv'
<1>1. \A k \in Jobs : /\ pc'[k] = "idle"
                      /\ fetched'[k] = [a \in Articles |-> NotFetched]
  BY DEF RunInv, TypeOK, Alone, CleanWhenIdle, Idle, Leave
<1>2. Alone' /\ CleanWhenIdle' /\ SkipTouchesNothing' /\ MemoryCurrent'
  BY <1>1 DEF Alone, CleanWhenIdle, SkipTouchesNothing, MemoryCurrent, Idle
<1>3. PhasesInOrder' /\ RetryRemembered'
  BY <1>1 DEF PhasesInOrder, RetryRemembered, Listed, Fetched
<1>4. Instants'
  BY <1>1 DEF RunInv, Instants, Idle
<1>5. FetchedNewest'
  BY <1>1 DEF FetchedNewest
<1>6. QED
  BY <1>2, <1>3, <1>4, <1>5 DEF RunInv

\* A run that goes on remembers the retry list as long as it keeps what it
\* has fetched, failed to fetch and still to fetch.
LEMMA RetryKept ==
    ASSUME RunInv,
           UNCHANGED <<failed, mode, targets, lost, fetched>>,
           \A k \in Jobs : pc'[k] \in Listed => pc[k] \in Listed
    PROVE  RetryRemembered'
<1> SUFFICES ASSUME NEW k \in Jobs, ~mode'[k].skip, pc'[k] \in Listed,
                    NEW b \in failed'
             PROVE  Remembered(k, b)'
  BY DEF RetryRemembered
<1>1. Remembered(k, b)
  BY DEF RunInv, RetryRemembered
<1>2. QED
  BY <1>1 DEF Remembered

\* When a run moves on from one step to a later one, it still remembers what
\* it must, as long as it is at a step it may be at.
LEMMA RunGoesOn ==
    ASSUME RunInv, TypeOK', NEW j \in Jobs, NEW step \in Fetched,
           pc[j] \in Listed, targets[j] = {},
           pc' = [pc EXCEPT ![j] = step],
           mode[j].skip => step \notin {"writeWatermark", "writeFailed"},
           step = "writeFailed" => watermark' = started[j],
           step # "writeFailed" => watermark' = watermark,
           step \in {"upsert", "put"} => todo'[j] \subseteq ChunksOf(fetched[j]),
           UNCHANGED <<article, clock, failed, mode, started, since, retry,
                       targets, fetched, lost>>,
           FetchedNewest'
    PROVE  RunInv'
<1>1. /\ pc'[j] = step /\ pc'[j] # "idle" /\ pc[j] # "idle"
      /\ \A k \in Jobs : k # j => pc[k] = "idle" /\ pc'[k] = "idle"
  BY DEF RunInv, TypeOK, Alone, Idle, Listed, Fetched
<1>2. Alone' /\ CleanWhenIdle' /\ SkipTouchesNothing'
  BY <1>1 DEF RunInv, Alone, CleanWhenIdle, SkipTouchesNothing, Idle, Fetched
<1>3. MemoryCurrent'
  BY <1>1 DEF RunInv, MemoryCurrent, Fetched
<1>4. Instants'
  BY <1>1 DEF RunInv, Instants, Idle, TypeOK, Content
<1>5. PhasesInOrder'
  BY <1>1 DEF PhasesInOrder, Fetched
<1>6. RetryRemembered'
  BY <1>1, RetryKept DEF Listed, Fetched
<1>7. QED
  BY <1>2, <1>3, <1>4, <1>5, <1>6 DEF RunInv

\* Chunks are written only over contents that are not newer.
LEMMA WritesNewest ==
    ASSUME RunInv, NEW j \in Jobs, NEW part, part \subseteq ChunksOf(fetched[j]),
           NEW old \in {index, store}, NEW a \in Articles, NEW o \in Ordinals
    PROVE  /\ Written(old, part, fetched[j])[a][o] >= old[a][o]
           /\ Written(old, part, fetched[j])[a][o] <= article[a].mod
           /\ fetched[j][a] # NotFetched =>
                 Written(old, part, fetched[j])[a][o] <= fetched[j][a].mod
<1>1. /\ old[a][o] \in Nat /\ fetched[j][a] \in Content /\ article[a] \in Content
      /\ old[a][o] <= article[a].mod
      /\ fetched[j][a] # NotFetched =>
            old[a][o] <= fetched[j][a].mod /\ fetched[j][a].mod <= article[a].mod
  BY DEF RunInv, TypeOK, FetchedNewest
<1>2. CASE <<a, o>> \in part
  <2>1. fetched[j][a] # NotFetched
    BY <1>2 DEF ChunksOf, NotFetched, Ordinals
  <2>2. Written(old, part, fetched[j])[a][o] = fetched[j][a].mod
    BY <1>2 DEF Written
  <2>3. QED
    BY <1>1, <2>1, <2>2 DEF Content
<1>3. CASE <<a, o>> \notin part
  <2>1. Written(old, part, fetched[j])[a][o] = old[a][o]
    BY <1>3 DEF Written
  <2>2. QED
    BY <1>1, <2>1 DEF Content
<1>4. QED
  BY <1>2, <1>3

\* What an upsert and a put do to the stores.
LEMMA UpsertWrites ==
    ASSUME RunInv, NEW j \in Jobs, Upsert(j)
    PROVE  /\ \A a \in Articles, o \in Ordinals :
                 /\ index'[a][o] >= index[a][o]
                 /\ index'[a][o] <= article[a].mod
                 /\ fetched[j][a] # NotFetched => index'[a][o] <= fetched[j][a].mod
           /\ UNCHANGED store
<1>1. PICK batch \in SUBSET todo[j] :
         index' = Written(index, batch \ Rejected, fetched[j])
  BY DEF Upsert
<1>2. batch \ Rejected \subseteq ChunksOf(fetched[j])
  BY DEF Upsert, RunInv, PhasesInOrder
<1>3. QED
  BY <1>1, <1>2, WritesNewest DEF Upsert

LEMMA PutWrites ==
    ASSUME RunInv, NEW j \in Jobs, Put(j)
    PROVE  /\ \A a \in Articles, o \in Ordinals :
                 /\ store'[a][o] >= store[a][o]
                 /\ store'[a][o] <= article[a].mod
                 /\ fetched[j][a] # NotFetched => store'[a][o] <= fetched[j][a].mod
           /\ UNCHANGED index
<1>1. PICK batch \in SUBSET todo[j] : store' = Written(store, batch, fetched[j])
  BY DEF Put
<1>2. batch \subseteq ChunksOf(fetched[j])
  BY DEF Put, RunInv, PhasesInOrder
<1>3. QED
  BY <1>1, <1>2, WritesNewest DEF Put

(***************************************************************************)
(* RunInv is inductive.                                                    *)
(***************************************************************************)

LEMMA RunInvStep ==
    ASSUME ~Overlap, RunInv, [Next]_vars
    PROVE  RunInv'
<1>0. TypeOK /\ TypeOK'
  BY TypeStep DEF RunInv
<1>1. ASSUME NEW a \in Articles, NEW size \in 0 .. MaxChunks,
             NEW indexable \in BOOLEAN, Edit(a, size, indexable)
      PROVE  RunInv'
  <2>1. Alone' /\ CleanWhenIdle' /\ SkipTouchesNothing' /\ MemoryCurrent'
    BY <1>1 DEF Edit, RunInv, Alone, CleanWhenIdle, SkipTouchesNothing,
                MemoryCurrent, Idle, syncState, locals
  <2>2. Instants'
    BY <1>0, <1>1 DEF Edit, RunInv, Instants, TypeOK, Content, Idle, syncState, locals
  <2>3. FetchedNewest'
    BY <1>0, <1>1 DEF Edit, RunInv, FetchedNewest, Instants, TypeOK, Content,
                      stores, locals
  <2>4. PhasesInOrder'
    BY <1>1 DEF Edit, RunInv, PhasesInOrder, ChunksOf, locals
  <2>5. RetryRemembered'
    BY <1>1, RetryKept DEF Edit, syncState, locals
  <2>6. QED
    BY <1>0, <2>1, <2>2, <2>3, <2>4, <2>5 DEF RunInv
<1>2. ASSUME NEW j \in Jobs, NEW m \in Modes, Start(j, m)
      PROVE  RunInv'
  <2>1. /\ \A k \in Jobs : pc[k] = "idle"
        /\ \A k \in Jobs : k # j => pc'[k] = "idle" /\ mode'[k] = mode[k]
        /\ pc'[j] \in {"list", "readWatermark"}
        /\ mode'[j] = m /\ (m.skip => pc'[j] = "list")
    BY <1>0, <1>2, ConstantsAssumption DEF Start, TypeOK, Idle
  <2>2. Alone' /\ CleanWhenIdle' /\ SkipTouchesNothing' /\ PhasesInOrder'
    BY <1>0, <1>2, <2>1
    DEF Start, RunInv, Alone, CleanWhenIdle, SkipTouchesNothing, PhasesInOrder,
        Idle, TypeOK, Fetched
  <2>3. MemoryCurrent'
    BY <1>0, <1>2, <2>1, ConstantsAssumption
    DEF Start, MemoryCurrent, TypeOK, syncState
  <2>4. Instants'
    BY <1>0, <1>2, <2>1
    DEF Start, RunInv, Instants, TypeOK, Content, Idle, sources, syncState
  <2>5. FetchedNewest'
    BY <1>2 DEF Start, RunInv, FetchedNewest, sources, stores
  <2>6. RetryRemembered'
    BY <2>1 DEF RetryRemembered, Listed, Fetched
  <2>7. QED
    BY <1>0, <2>2, <2>3, <2>4, <2>5, <2>6 DEF RunInv
<1>3. ASSUME NEW j \in Jobs, ReadWatermark(j) PROVE RunInv'
  <2>1. Alone' /\ CleanWhenIdle' /\ SkipTouchesNothing' /\ PhasesInOrder'
    BY <1>0, <1>3
    DEF ReadWatermark, RunInv, Alone, CleanWhenIdle, SkipTouchesNothing,
        PhasesInOrder, Idle, TypeOK, Fetched
  <2>2. MemoryCurrent' /\ Instants'
    BY <1>0, <1>3
    DEF ReadWatermark, RunInv, MemoryCurrent, Instants, Idle, TypeOK, sources,
        syncState
  <2>3. FetchedNewest'
    BY <1>3 DEF ReadWatermark, RunInv, FetchedNewest, sources, stores
  <2>4. RetryRemembered'
    BY <1>0, <1>3, RetryKept DEF ReadWatermark, TypeOK, syncState, Listed, Fetched
  <2>5. QED
    BY <1>0, <2>1, <2>2, <2>3, <2>4 DEF RunInv
<1>4. ASSUME NEW j \in Jobs, ReadFailed(j) PROVE RunInv'
  <2>1. Alone' /\ CleanWhenIdle' /\ SkipTouchesNothing' /\ PhasesInOrder'
    BY <1>0, <1>4
    DEF ReadFailed, RunInv, Alone, CleanWhenIdle, SkipTouchesNothing,
        PhasesInOrder, Idle, TypeOK, Fetched
  <2>2. MemoryCurrent' /\ Instants'
    BY <1>0, <1>4
    DEF ReadFailed, RunInv, MemoryCurrent, Instants, Idle, TypeOK, sources,
        syncState
  <2>3. FetchedNewest'
    BY <1>4 DEF ReadFailed, RunInv, FetchedNewest, sources, stores
  <2>4. RetryRemembered'
    BY <1>0, <1>4, RetryKept DEF ReadFailed, TypeOK, syncState, Listed, Fetched
  <2>5. QED
    BY <1>0, <2>1, <2>2, <2>3, <2>4 DEF RunInv
<1>5. ASSUME NEW j \in Jobs, List(j) PROVE RunInv'
  <2>1. Alone' /\ CleanWhenIdle' /\ SkipTouchesNothing' /\ PhasesInOrder'
    BY <1>0, <1>5
    DEF List, RunInv, Alone, CleanWhenIdle, SkipTouchesNothing,
        PhasesInOrder, Idle, TypeOK, Fetched
  <2>2. MemoryCurrent' /\ Instants'
    BY <1>0, <1>5
    DEF List, RunInv, MemoryCurrent, Instants, Idle, TypeOK, sources, syncState
  <2>3. FetchedNewest'
    BY <1>5 DEF List, RunInv, FetchedNewest, sources, stores
  <2>4. RetryRemembered'
    <3> SUFFICES ASSUME NEW k \in Jobs, ~mode'[k].skip, pc'[k] \in Listed,
                        NEW b \in failed'
                 PROVE  Remembered(k, b)'
      BY DEF RetryRemembered
    <3>1. k = j
      BY <1>0, <1>5 DEF List, RunInv, Alone, Idle, TypeOK, Listed, Fetched
    <3>2. b \in retry[j]
      BY <1>5, <3>1 DEF List, RunInv, MemoryCurrent, syncState
    <3>3. PICK kept \in Kept(Changed(since[j]), mode[j].limit) :
             targets' = [targets EXCEPT ![j] = FetchTargets(kept, retry[j])]
      BY <1>5 DEF List
    <3>4. targets'[j] = FetchTargets(kept, retry[j])
      BY <1>0, <3>3 DEF TypeOK
    <3>5. b \in Articles
      BY <1>0, <3>2 DEF TypeOK
    <3>6. \E lang \in Languages : <<b, lang>> \in FetchTargets(kept, retry[j])
      BY <3>2, <3>5 DEF FetchTargets, Languages
    <3>7. QED
      BY <3>1, <3>4, <3>6 DEF Remembered
  <2>5. QED
    BY <1>0, <2>1, <2>2, <2>3, <2>4 DEF RunInv
<1>6. ASSUME NEW j \in Jobs, NEW a \in Articles, NEW lang \in Languages,
             FetchOk(j, a, lang)
      PROVE  RunInv'
  <2>1. Alone' /\ CleanWhenIdle' /\ SkipTouchesNothing' /\ PhasesInOrder'
    BY <1>0, <1>6
    DEF FetchOk, RunInv, Alone, CleanWhenIdle, SkipTouchesNothing,
        PhasesInOrder, Idle, TypeOK, Fetched
  <2>2. MemoryCurrent' /\ Instants'
    BY <1>0, <1>6
    DEF FetchOk, RunInv, MemoryCurrent, Instants, Idle, sources, syncState
  <2>3. FetchedNewest'
    BY <1>0, <1>6
    DEF FetchOk, RunInv, FetchedNewest, Instants, TypeOK, Content, sources, stores
  <2>4. RetryRemembered'
    <3> SUFFICES ASSUME NEW k \in Jobs, ~mode'[k].skip, pc'[k] \in Listed,
                        NEW b \in failed'
                 PROVE  Remembered(k, b)'
      BY DEF RetryRemembered
    <3>1. Remembered(k, b)
      BY <1>6 DEF FetchOk, RunInv, RetryRemembered, syncState
    <3>2. b \in Articles /\ article[a].mod # 0 /\ article[a].mod \in Nat
      BY <1>0, <1>6 DEF FetchOk, RunInv, Instants, TypeOK, Content, syncState
    <3>3. CASE k = j /\ b = a
      BY <1>0, <1>6, <3>2, <3>3 DEF FetchOk, Remembered, TypeOK
    <3>4. CASE ~(k = j /\ b = a)
      BY <1>0, <1>6, <3>1, <3>2, <3>4 DEF FetchOk, Remembered, TypeOK
    <3>5. QED
      BY <3>3, <3>4
  <2>5. QED
    BY <1>0, <2>1, <2>2, <2>3, <2>4 DEF RunInv
<1>7. ASSUME NEW j \in Jobs, NEW a \in Articles, NEW lang \in Languages,
             FetchFail(j, a, lang)
      PROVE  RunInv'
  <2>1. Alone' /\ CleanWhenIdle' /\ SkipTouchesNothing' /\ PhasesInOrder'
    BY <1>0, <1>7
    DEF FetchFail, RunInv, Alone, CleanWhenIdle, SkipTouchesNothing,
        PhasesInOrder, Idle, TypeOK, Fetched
  <2>2. MemoryCurrent' /\ Instants'
    BY <1>0, <1>7
    DEF FetchFail, RunInv, MemoryCurrent, Instants, Idle, sources, syncState
  <2>3. FetchedNewest'
    BY <1>7 DEF FetchFail, RunInv, FetchedNewest, sources, stores
  <2>4. RetryRemembered'
    <3> SUFFICES ASSUME NEW k \in Jobs, ~mode'[k].skip, pc'[k] \in Listed,
                        NEW b \in failed'
                 PROVE  Remembered(k, b)'
      BY DEF RetryRemembered
    <3>1. Remembered(k, b)
      BY <1>7 DEF FetchFail, RunInv, RetryRemembered, syncState
    <3>2. CASE k = j /\ b = a
      BY <1>0, <1>7, <3>2 DEF FetchFail, Remembered, TypeOK
    <3>3. CASE ~(k = j /\ b = a)
      BY <1>0, <1>7, <3>1, <3>3 DEF FetchFail, Remembered, TypeOK
    <3>4. QED
      BY <3>2, <3>3
  <2>5. QED
    BY <1>0, <2>1, <2>2, <2>3, <2>4 DEF RunInv
<1>8. ASSUME NEW j \in Jobs, FinishFetch(j) PROVE RunInv'
  <2>1. CASE Leave(j)
    BY <1>0, <1>8, <2>1, RunEnds
    DEF FinishFetch, RunInv, FetchedNewest, Idle, sources, stores, syncState
  <2>2. CASE ~Leave(j)
    <3>1. PICK step \in {"embed", "writeWatermark"} :
             /\ pc' = [pc EXCEPT ![j] = step]
             /\ mode[j].skip => step = "embed"
      BY <1>8, <2>2 DEF FinishFetch, Proceed, AfterWrites
    <3>2. UNCHANGED <<article, clock, index, store, watermark, failed, locals>>
      BY <1>8, <2>2 DEF FinishFetch, Proceed, sources, stores, syncState
    <3>3. pc[j] = "fetch" /\ targets[j] = {}
      BY <1>8 DEF FinishFetch
    <3>4. step \in Fetched /\ pc[j] \in Listed /\ FetchedNewest'
      BY <3>1, <3>2, <3>3 DEF RunInv, FetchedNewest, Listed, Fetched, locals
    <3>5. QED
      BY <1>0, <3>1, <3>2, <3>3, <3>4, RunGoesOn DEF locals
  <2>3. QED
    BY <2>1, <2>2
<1>9. ASSUME NEW j \in Jobs, Embed(j) PROVE RunInv'
  <2>1. CASE Leave(j)
    BY <1>0, <1>9, <2>1, RunEnds
    DEF Embed, RunInv, FetchedNewest, Idle, sources, stores, syncState
  <2>2. CASE ~Leave(j)
    <3>1. PICK step \in {"upsert", "writeWatermark"} :
             /\ pc' = [pc EXCEPT ![j] = step]
             /\ mode[j].skip => step = "upsert"
             /\ step = "upsert" => todo' = [todo EXCEPT ![j] = ChunksOf(fetched[j])]
      BY <1>9, <2>2 DEF Embed, Proceed, AfterWrites
    <3>2. UNCHANGED <<article, clock, index, store, watermark, failed, mode,
                      started, since, retry, targets, fetched, lost>>
      BY <1>9, <2>2 DEF Embed, Proceed, sources, stores, syncState, locals
    <3>3. pc[j] = "embed"
      BY <1>9 DEF Embed
    <3>4. /\ step \in Fetched /\ pc[j] \in Listed /\ targets[j] = {}
          /\ FetchedNewest'
      BY <3>1, <3>2, <3>3 DEF RunInv, PhasesInOrder, FetchedNewest, Listed, Fetched
    <3>5. step = "upsert" => todo'[j] \subseteq ChunksOf(fetched[j])
      BY <1>0, <3>1 DEF TypeOK
    <3>6. QED
      BY <1>0, <3>1, <3>2, <3>4, <3>5, RunGoesOn
  <2>3. QED
    BY <2>1, <2>2
<1>10. ASSUME NEW j \in Jobs, Upsert(j) PROVE RunInv'
  <2>1. PICK batch \in SUBSET todo[j] :
           IF batch = todo[j]
           THEN /\ todo' = [todo EXCEPT ![j] = ChunksOf(fetched[j])]
                /\ pc' = [pc EXCEPT ![j] = "put"]
           ELSE /\ todo' = [todo EXCEPT ![j] = @ \ batch]
                /\ UNCHANGED pc
    BY <1>10 DEF Upsert
  <2>2. PICK step \in {"upsert", "put"} : pc' = [pc EXCEPT ![j] = step]
    BY <1>0, <1>10, <2>1 DEF Upsert, TypeOK
  <2>3. todo[j] \subseteq ChunksOf(fetched[j]) /\ targets[j] = {}
    BY <1>10 DEF Upsert, RunInv, PhasesInOrder, Fetched
  <2>4. todo'[j] \subseteq ChunksOf(fetched[j])
    <3>1. todo'[j] = ChunksOf(fetched[j]) \/ todo'[j] = todo[j] \ batch
      BY <1>0, <2>1 DEF TypeOK
    <3>2. QED
      BY <2>3, <3>1
  <2>5. UNCHANGED <<article, clock, watermark, failed, mode, started, since,
                    retry, targets, fetched, lost>>
    BY <1>10 DEF Upsert, sources, syncState
  <2>6. FetchedNewest'
    <3> SUFFICES ASSUME NEW a \in Articles
                 PROVE  /\ \A o \in Ordinals : /\ index'[a][o] <= article[a].mod
                                               /\ store'[a][o] <= article[a].mod
                        /\ \A k \in Jobs : fetched[k][a] # NotFetched =>
                              /\ 0 < fetched[k][a].mod
                              /\ fetched[k][a].mod <= article[a].mod
                              /\ \A o \in Ordinals :
                                    /\ index'[a][o] <= fetched[k][a].mod
                                    /\ store'[a][o] <= fetched[k][a].mod
      BY <2>5 DEF FetchedNewest
    <3>1. \A k \in Jobs : fetched[k][a] # NotFetched => k = j
      BY <1>10 DEF Upsert, RunInv, Alone, CleanWhenIdle, Idle
    <3>2. QED
      BY <1>10, <3>1, UpsertWrites DEF RunInv, FetchedNewest
  <2>7. step \in Fetched /\ pc[j] \in Listed
    BY <1>10 DEF Upsert, Fetched, Listed
  <2>8. QED
    BY <1>0, <2>2, <2>3, <2>4, <2>5, <2>6, <2>7, RunGoesOn
<1>11. ASSUME NEW j \in Jobs, Put(j) PROVE RunInv'
  <2>1. UNCHANGED <<article, clock, index, watermark, failed>>
    BY <1>11 DEF Put, sources, syncState
  <2>2. CASE Leave(j)
    BY <1>0, <1>11, <2>1, <2>2, RunEnds, PutWrites DEF Put, RunInv, FetchedNewest, Idle
  <2>3. CASE ~Leave(j)
    <3>1. PICK batch \in SUBSET todo[j] :
             IF batch = todo[j] THEN Proceed(j, AfterWrites(mode[j]))
             ELSE /\ todo' = [todo EXCEPT ![j] = @ \ batch]
                  /\ UNCHANGED <<pc, mode, started, since, retry, targets,
                                 fetched, lost>>
      BY <1>11 DEF Put
    <3>2. PICK step \in {"put", "writeWatermark"} :
             /\ pc' = [pc EXCEPT ![j] = step]
             /\ mode[j].skip => step = "put"
             /\ todo'[j] \subseteq todo[j]
      <4>1. CASE batch = todo[j]
        BY <2>3, <3>1, <4>1 DEF Proceed, AfterWrites, locals
      <4>2. CASE batch # todo[j]
        BY <1>0, <1>11, <3>1, <4>2 DEF Put, TypeOK
      <4>3. QED
        BY <4>1, <4>2
    <3>3. UNCHANGED <<mode, started, since, retry, targets, fetched, lost>>
      BY <2>3, <3>1 DEF Proceed, locals
    <3>4. todo[j] \subseteq ChunksOf(fetched[j]) /\ targets[j] = {}
      BY <1>11 DEF Put, RunInv, PhasesInOrder, Fetched
    <3>5. FetchedNewest'
      <4> SUFFICES ASSUME NEW a \in Articles
                   PROVE  /\ \A o \in Ordinals : /\ index[a][o] <= article[a].mod
                                                 /\ store'[a][o] <= article[a].mod
                          /\ \A k \in Jobs : fetched[k][a] # NotFetched =>
                                /\ 0 < fetched[k][a].mod
                                /\ fetched[k][a].mod <= article[a].mod
                                /\ \A o \in Ordinals :
                                      /\ index[a][o] <= fetched[k][a].mod
                                      /\ store'[a][o] <= fetched[k][a].mod
        BY <2>1, <3>3 DEF FetchedNewest
      <4>1. \A k \in Jobs : fetched[k][a] # NotFetched => k = j
        BY <1>11 DEF Put, RunInv, Alone, CleanWhenIdle, Idle
      <4>2. QED
        BY <1>11, <4>1, PutWrites DEF RunInv, FetchedNewest
    <3>6. step \in Fetched /\ pc[j] \in Listed
      BY <1>11 DEF Put, Fetched, Listed
    <3>7. QED
      BY <1>0, <2>1, <3>2, <3>3, <3>4, <3>5, <3>6, RunGoesOn
  <2>4. QED
    BY <2>2, <2>3
<1>12. ASSUME NEW j \in Jobs, WriteWatermark(j) PROVE RunInv'
  <2>1. /\ targets[j] = {} /\ ~mode[j].skip /\ FetchedNewest'
        /\ "writeFailed" \in Fetched /\ pc[j] \in Listed
    BY <1>12 DEF WriteWatermark, RunInv, PhasesInOrder, SkipTouchesNothing,
                 FetchedNewest, Fetched, Listed, sources, stores, locals
  <2>2. /\ pc' = [pc EXCEPT ![j] = "writeFailed"] /\ watermark' = started[j]
        /\ UNCHANGED <<article, clock, failed, mode, started, since, retry,
                       targets, fetched, lost>>
    BY <1>12 DEF WriteWatermark, sources, locals
  <2>3. QED
    BY <1>0, <2>1, <2>2, RunGoesOn
<1>13. ASSUME NEW j \in Jobs, WriteFailed(j) PROVE RunInv'
  BY <1>0, <1>13, RunEnds
  DEF WriteFailed, RunInv, FetchedNewest, Idle, sources, stores
<1>14. ASSUME NEW j \in Jobs, Abort(j) PROVE RunInv'
  BY <1>0, <1>14, RunEnds, ConstantsAssumption
  DEF Abort, RunInv, FetchedNewest, Idle, sources, stores, syncState
<1>15. CASE UNCHANGED vars
  <2>1. UNCHANGED <<article, clock, index, store, watermark, failed, pc, mode,
                    started, since, retry, targets, fetched, lost, todo>>
    BY <1>15 DEF vars, sources, stores, syncState, locals
  <2>2. Alone' /\ CleanWhenIdle' /\ SkipTouchesNothing' /\ MemoryCurrent'
    BY <2>1 DEF RunInv, Alone, CleanWhenIdle, SkipTouchesNothing, MemoryCurrent, Idle
  <2>3. Instants' /\ FetchedNewest' /\ PhasesInOrder'
    BY <2>1 DEF RunInv, Instants, FetchedNewest, PhasesInOrder, Idle, ChunksOf
  <2>4. RetryRemembered'
    BY <2>1, RetryKept
  <2>5. QED
    BY <1>0, <2>2, <2>3, <2>4 DEF RunInv
<1>16. QED
  BY <1>1, <1>2, <1>3, <1>4, <1>5, <1>6, <1>7, <1>8, <1>9, <1>10, <1>11, <1>12,
     <1>13, <1>14, <1>15 DEF Next, RunStep

(***************************************************************************)
(* The theorems.                                                           *)
(***************************************************************************)

\* RunInv holds throughout when runs do not overlap, whatever the options
\* they are started with, wherever they die and whatever editors do.
THEOREM RunInvariant ==
    ASSUME ~Overlap
    PROVE  Spec => []RunInv
<1>1. Init => RunInv
  <2> SUFFICES ASSUME Init PROVE RunInv
    OBVIOUS
  <2>1. TypeOK
    BY TypeInit
  <2>2. /\ Alone /\ CleanWhenIdle /\ SkipTouchesNothing /\ MemoryCurrent
        /\ PhasesInOrder /\ RetryRemembered
    BY DEF Init, Alone, CleanWhenIdle, SkipTouchesNothing, MemoryCurrent,
           PhasesInOrder, RetryRemembered, Idle, Listed, Fetched
  <2>3. Instants /\ FetchedNewest
    BY DEF Init, Instants, FetchedNewest, Idle
  <2>4. QED
    BY <2>1, <2>2, <2>3 DEF RunInv
<1>2. RunInv /\ [Next]_vars => RunInv'
  BY RunInvStep
<1>3. QED
  BY <1>1, <1>2, PTL DEF Spec

\* When runs do not overlap, nothing in the index or the chunk store is ever
\* replaced by an older content of its article.
THEOREM NothingRegresses ==
    ASSUME ~Overlap
    PROVE  Spec => NeverRegresses
<1>1. ASSUME RunInv, [Next]_vars
      PROVE  [\A a \in Articles, o \in Ordinals :
                 index'[a][o] >= index[a][o] /\ store'[a][o] >= store[a][o]]_stores
  <2> SUFFICES ASSUME ~UNCHANGED stores
               PROVE  \A a \in Articles, o \in Ordinals :
                         index'[a][o] >= index[a][o] /\ store'[a][o] >= store[a][o]
    OBVIOUS
  <2>1. PICK j \in Jobs : Upsert(j) \/ Put(j)
    BY <1>1 DEF Next, RunStep, vars, Edit, Start, ReadWatermark, ReadFailed, List,
                FetchOk, FetchFail, FinishFetch, Embed, WriteWatermark,
                WriteFailed, Abort
  <2>2. \A a \in Articles, o \in Ordinals : index[a][o] \in Nat /\ store[a][o] \in Nat
    BY <1>1 DEF RunInv, TypeOK
  <2>3. QED
    BY <1>1, <2>1, <2>2, UpsertWrites, PutWrites
<1>2. QED
  BY <1>1, RunInvariant, PTL DEF Spec, NeverRegresses

\* When runs do not overlap, the watermark only moves forward, and never past
\* the start of a run that is still going.
THEOREM WatermarkStaysBehind ==
    ASSUME ~Overlap
    PROVE  Spec => WatermarkBehindRuns
<1>1. ASSUME RunInv, [Next]_vars
      PROVE  [/\ watermark' >= watermark
              /\ \A j \in Jobs : ~Idle(j) => watermark' <= started[j]]_syncState
  <2> SUFFICES ASSUME ~UNCHANGED syncState
               PROVE  /\ watermark' >= watermark
                      /\ \A j \in Jobs : ~Idle(j) => watermark' <= started[j]
    OBVIOUS
  <2>1. PICK k \in Jobs : WriteWatermark(k) \/ WriteFailed(k)
    BY <1>1 DEF Next, RunStep, vars, Edit, Start, ReadWatermark, ReadFailed, List,
                FetchOk, FetchFail, FinishFetch, Embed, Upsert, Put, Abort
  <2>2. CASE WriteWatermark(k)
    BY <1>1, <2>2 DEF WriteWatermark, RunInv, Alone, Instants, Idle, TypeOK
  <2>3. CASE WriteFailed(k)
    BY <1>1, <2>3 DEF WriteFailed, RunInv, Instants, TypeOK
  <2>4. QED
    BY <2>1, <2>2, <2>3
<1>2. QED
  BY <1>1, RunInvariant, PTL DEF Spec, WatermarkBehindRuns

\* When runs do not overlap, an article leaves the retry list only because a
\* run that had it on its own list fetched it, even if runs were cut short by
\* --limit or died in between.
THEOREM RetryIsNotForgotten ==
    ASSUME ~Overlap
    PROVE  Spec => RetriedUntilFetched
<1>1. ASSUME RunInv, [Next]_vars
      PROVE  [\A a \in failed \ failed' : \E j \in Jobs :
                 pc[j] = "writeFailed" /\ fetched[j][a].mod # 0]_syncState
  <2> SUFFICES ASSUME ~UNCHANGED syncState, NEW a \in failed \ failed'
               PROVE  \E j \in Jobs : pc[j] = "writeFailed" /\ fetched[j][a].mod # 0
    OBVIOUS
  <2>1. PICK k \in Jobs : WriteFailed(k)
    BY <1>1 DEF Next, RunStep, vars, Edit, Start, ReadWatermark, ReadFailed, List,
                FetchOk, FetchFail, FinishFetch, Embed, Upsert, Put, WriteWatermark,
                Abort, syncState
  <2>2. Remembered(k, a) /\ targets[k] = {}
    BY <1>1, <2>1 DEF WriteFailed, RunInv, RetryRemembered, PhasesInOrder,
                      SkipTouchesNothing, Listed, Fetched
  <2>3. QED
    BY <2>1, <2>2 DEF WriteFailed, Remembered
<1>2. QED
  BY <1>1, RunInvariant, PTL DEF Spec, RetriedUntilFetched

(***************************************************************************)
(* The safe deployment: no edit is ever lost.  SyncInv is inductive over   *)
(* RunInv, and NoLostUpdate is one of its conjuncts.                       *)
(***************************************************************************)

\* Steps that touch neither articles, stores nor sync state, and interrupt no
\* run that is about to record its failures, lose nothing.
LEMMA NothingLost ==
    ASSUME SyncInv, UNCHANGED <<article, index, store, watermark, failed>>,
           \A k \in Jobs : pc[k] = "writeFailed" =>
              pc'[k] = "writeFailed" /\ lost'[k] = lost[k]
    PROVE  NoLostUpdate'
  BY DEF SyncInv, NoLostUpdate, Reflected, Owed

\* When the one active run ends, only NoLostUpdate is left to show.
LEMMA EndKeepsRest ==
    ASSUME RunInv, SyncInv, NEW j \in Jobs, ~Idle(j), Leave(j)
    PROVE  FetchedCurrent' /\ WritesComplete' /\ EditsRemembered' /\ FullWhenRecorded'
<1>1. \A k \in Jobs : /\ pc'[k] = "idle"
                      /\ fetched'[k] = [a \in Articles |-> NotFetched]
  BY DEF RunInv, TypeOK, Alone, CleanWhenIdle, Idle, Leave
<1>2. FetchedCurrent'
  BY <1>1 DEF FetchedCurrent, NotFetched
<1>3. WritesComplete'
  BY <1>1 DEF WritesComplete
<1>4. EditsRemembered'
  BY <1>1 DEF EditsRemembered, Listed, Fetched
<1>5. FullWhenRecorded'
  <2>1. mode'[j] = Nightly /\ \A k \in Jobs : k # j => mode'[k] = mode[k]
    <3>1. mode' = [mode EXCEPT ![j] = Nightly]
      BY DEF Leave
    <3>2. mode \in [Jobs -> [skip : BOOLEAN, limit : Nat \cup {NoLimit}]]
      BY DEF RunInv, TypeOK
    <3>3. QED
      BY <3>1, <3>2
  <2>2. QED
    BY <2>1 DEF SyncInv, FullWhenRecorded, Nightly
<1>6. QED
  BY <1>2, <1>3, <1>4, <1>5

\* A run keeps remembering the edits while it goes on: served articles stay
\* served and it forgets nothing.
LEMMA EditsKept ==
    ASSUME RunInv, SyncInv, UNCHANGED <<article, mode, started>>,
           \A k \in Jobs : pc'[k] \in Listed => pc[k] \in Listed,
           \A k \in Jobs, a \in Articles :
              pc'[k] \in Listed /\ article[a].mod <= started[k] =>
                 /\ Reflected(a) => Reflected(a)'
                 /\ Remembered(k, a) => Remembered(k, a)'
    PROVE  EditsRemembered'
<1> SUFFICES ASSUME NEW k \in Jobs, NEW a \in Articles, ~mode[k].skip,
                    pc'[k] \in Listed, article[a].indexable,
                    article[a].mod <= started[k]
             PROVE  Reflected(a)' \/ Remembered(k, a)'
  BY DEF EditsRemembered
<1>1. Reflected(a) \/ Remembered(k, a)
  BY DEF SyncInv, EditsRemembered
<1>2. QED
  BY <1>1

\* When a run ends without having written anything in its last step, nothing
\* is lost, unless it was about to record its failures.
LEMMA RunLeaves ==
    ASSUME RunInv, SyncInv, NEW j \in Jobs, ~Idle(j), pc[j] # "writeFailed", Leave(j),
           UNCHANGED <<article, index, store, watermark, failed>>
    PROVE  SyncInv'
<1>1. \A k \in Jobs : pc[k] # "writeFailed"
  BY DEF RunInv, Alone, Idle
<1>2. QED
  BY <1>1, NothingLost, EndKeepsRest DEF SyncInv

\* When a run goes on to its writes, or past them for want of chunks, without
\* writing anything in this step, nothing is lost or forgotten.
LEMMA RunMoves ==
    ASSUME RunInv, SyncInv, NEW j \in Jobs,
           pc[j] \in {"fetch", "embed"},
           NEW step \in {"embed", "upsert", "writeWatermark"},
           pc' = [pc EXCEPT ![j] = step],
           step = "upsert" => todo'[j] = ChunksOf(fetched[j]),
           step = "writeWatermark" => ChunksOf(fetched[j]) = {},
           UNCHANGED <<article, index, store, watermark, failed, mode, started,
                       targets, fetched, lost>>
    PROVE  SyncInv'
<1>1. pc'[j] = step /\ \A k \in Jobs : k # j => pc[k] = "idle" /\ pc'[k] = "idle"
  BY DEF RunInv, TypeOK, Alone, Idle
<1>2. FetchedCurrent' /\ FullWhenRecorded'
  BY DEF SyncInv, FetchedCurrent, FullWhenRecorded
<1>3. WritesComplete'
  BY <1>1 DEF WritesComplete, ChunksOf
<1>4. EditsRemembered'
  <2>1. \A k \in Jobs : pc'[k] \in Listed => pc[k] \in Listed
    BY <1>1 DEF Listed, Fetched
  <2>2. \A k \in Jobs, a \in Articles :
           /\ Reflected(a) => Reflected(a)'
           /\ Remembered(k, a) => Remembered(k, a)'
    BY DEF Reflected, Remembered
  <2>3. QED
    BY <2>1, <2>2, EditsKept
<1>5. NoLostUpdate'
  BY <1>1, NothingLost
<1>6. QED
  BY <1>2, <1>3, <1>4, <1>5 DEF SyncInv

\* A write replaces what is served of an unedited article by the same content.
LEMMA WritesKeepServed ==
    ASSUME RunInv, SyncInv, NEW j \in Jobs, Upsert(j) \/ Put(j),
           NEW a \in Articles, article[a].mod <= started[j], Reflected(a)
    PROVE  Reflected(a)'
<1>1. /\ article' = article
      /\ \A o \in Ordinals : /\ index'[a][o] \in {index[a][o], fetched[j][a].mod}
                             /\ store'[a][o] \in {store[a][o], fetched[j][a].mod}
      /\ \A o \in Ordinals :
            fetched[j][a].mod = 0 =>
               index'[a][o] = index[a][o] /\ store'[a][o] = store[a][o]
  <2>1. todo[j] \subseteq ChunksOf(fetched[j])
    BY DEF Upsert, Put, RunInv, PhasesInOrder
  <2>2. \A o \in Ordinals : fetched[j][a].mod = 0 => <<a, o>> \notin ChunksOf(fetched[j])
    <3>1. fetched[j][a].mod = 0 => fetched[j][a] = NotFetched
      BY DEF RunInv, FetchedNewest
    <3>2. QED
      BY <3>1 DEF NotFetched, ChunksOf, Ordinals
  <2>3. CASE Upsert(j)
    <3>1. PICK batch \in SUBSET todo[j] :
             index' = Written(index, batch \ Rejected, fetched[j])
      BY <2>3 DEF Upsert
    <3>2. \A o \in Ordinals : index'[a][o] =
             IF <<a, o>> \in batch \ Rejected THEN fetched[j][a].mod ELSE index[a][o]
      BY <3>1 DEF Written
    <3>3. article' = article /\ store' = store
      BY <2>3 DEF Upsert, sources
    <3>4. QED
      BY <2>1, <2>2, <3>2, <3>3
  <2>4. CASE Put(j)
    <3>1. PICK batch \in SUBSET todo[j] : store' = Written(store, batch, fetched[j])
      BY <2>4 DEF Put
    <3>2. \A o \in Ordinals : store'[a][o] =
             IF <<a, o>> \in batch THEN fetched[j][a].mod ELSE store[a][o]
      BY <3>1 DEF Written
    <3>3. article' = article /\ index' = index
      BY <2>4 DEF Put, sources
    <3>4. QED
      BY <2>1, <2>2, <3>2, <3>3
  <2>5. QED
    BY <2>3, <2>4
<1>2. fetched[j][a].mod # 0 => fetched[j][a].mod = article[a].mod
  BY DEF SyncInv, FetchedCurrent
<1>3. QED
  BY <1>1, <1>2 DEF Reflected

\* What a run writes loses nothing: an article edited after it started is
\* newer than the watermark.
LEMMA WritesLoseNothing ==
    ASSUME RunInv, SyncInv, NEW j \in Jobs, Upsert(j) \/ Put(j)
    PROVE  NoLostUpdate'
<1> SUFFICES ASSUME NEW a \in Articles, article'[a].indexable
             PROVE  Reflected(a)' \/ Owed(a)'
  BY DEF NoLostUpdate
<1>1. /\ UNCHANGED <<article, watermark, failed>>
      /\ pc[j] \in {"upsert", "put"}
      /\ \A k \in Jobs : k # j => pc[k] = "idle"
  BY DEF Upsert, Put, sources, syncState, RunInv, Alone, Idle
<1>2. CASE article[a].mod <= started[j]
  <2>1. Reflected(a) \/ article[a].mod > watermark \/ a \in failed
    BY <1>1 DEF SyncInv, NoLostUpdate, Owed
  <2>2. QED
    BY <1>1, <1>2, <2>1, WritesKeepServed DEF Owed
<1>3. CASE ~(article[a].mod <= started[j])
  <2>1. watermark <= started[j]
    BY <1>1 DEF RunInv, Instants, Idle
  <2>2. article[a].mod \in Nat /\ started[j] \in Nat /\ watermark \in Nat
    BY DEF RunInv, TypeOK, Content
  <2>3. QED
    BY <1>1, <1>3, <2>1, <2>2 DEF Owed
<1>4. QED
  BY <1>2, <1>3

\* A run about to record its progress has served every article edited before
\* it started, or has it on its list of failures.
LEMMA Settled ==
    ASSUME RunInv, SyncInv, NEW j \in Jobs,
           pc[j] \in {"writeWatermark", "writeFailed"},
           NEW a \in Articles, article[a].indexable, article[a].mod <= started[j]
    PROVE  Reflected(a) \/ a \in lost[j]
<1>1. Reflected(a) \/ Remembered(j, a)
  BY DEF RunInv, SkipTouchesNothing, SyncInv, EditsRemembered, Listed, Fetched
<1>2. targets[j] = {}
  BY DEF RunInv, PhasesInOrder, Fetched
<1>3. CASE fetched[j][a].mod # 0
  <2>1. fetched[j][a] = article[a]
    BY <1>3 DEF SyncInv, FetchedCurrent
  <2>2. \A o \in Ordinals : o < article[a].size => <<a, o>> \in ChunksOf(fetched[j])
    BY <2>1 DEF ChunksOf
  <2>3. \A o \in Ordinals : o < article[a].size => Indexed(j, a, o) /\ Stored(j, a, o)
    BY <2>2 DEF SyncInv, WritesComplete
  <2>4. QED
    BY <2>1, <2>3 DEF Reflected, Indexed, Stored
<1>4. QED
  BY <1>1, <1>2, <1>3 DEF Remembered

(***************************************************************************)
(* SyncInv is inductive, given RunInv before and after the step.           *)
(***************************************************************************)

LEMMA SyncInvStep ==
    ASSUME SafeDeployment, RunInv, RunInv', SyncInv, [Next]_vars
    PROVE  SyncInv'
<1>0. TypeOK
  BY DEF RunInv
<1>1. ASSUME NEW a \in Articles, NEW size \in 0 .. MaxChunks,
             NEW indexable \in BOOLEAN, Edit(a, size, indexable)
      PROVE  SyncInv'
  <2>1. /\ article'[a].mod = clock + 1
        /\ \A b \in Articles : b # a => article'[b] = article[b]
        /\ UNCHANGED <<index, store, watermark, failed, pc, mode, started, since,
                       retry, targets, fetched, lost, todo>>
    BY <1>0, <1>1 DEF Edit, TypeOK, stores, syncState, locals
  <2>2. \A j \in Jobs : ~Idle(j) => article'[a].mod > started[j]
    BY <1>0, <2>1 DEF RunInv, Instants, TypeOK, Content
  <2>8. \A k \in Jobs : ~Idle(k) => ~(article'[a].mod <= started[k])
    BY <1>0, <2>1, <2>2 DEF TypeOK
  <2>3. FetchedCurrent'
    <3> SUFFICES ASSUME NEW k \in Jobs, NEW b \in Articles, fetched[k][b].mod # 0,
                        article'[b].mod <= started[k]
                 PROVE  fetched[k][b] = article'[b]
      BY <2>1 DEF FetchedCurrent
    <3>1. ~Idle(k)
      BY DEF RunInv, CleanWhenIdle, NotFetched
    <3>2. b # a
      BY <2>8, <3>1
    <3>3. QED
      BY <2>1, <3>2 DEF SyncInv, FetchedCurrent
  <2>4. WritesComplete' /\ FullWhenRecorded'
    BY <2>1 DEF SyncInv, WritesComplete, FullWhenRecorded, ChunksOf, Indexed, Stored
  <2>5. EditsRemembered'
    <3> SUFFICES ASSUME NEW k \in Jobs, NEW b \in Articles, ~mode[k].skip,
                        pc[k] \in Listed, article'[b].indexable,
                        article'[b].mod <= started[k]
                 PROVE  Reflected(b)' \/ Remembered(k, b)'
      BY <2>1 DEF EditsRemembered
    <3>1. b # a
      BY <2>8 DEF Idle, Listed, Fetched
    <3>2. QED
      BY <2>1, <3>1 DEF SyncInv, EditsRemembered, Reflected, Remembered
  <2>6. NoLostUpdate'
    <3> SUFFICES ASSUME NEW b \in Articles, article'[b].indexable
                 PROVE  Reflected(b)' \/ Owed(b)'
      BY DEF NoLostUpdate
    <3>1. CASE b = a
      BY <1>0, <2>1, <3>1 DEF RunInv, Instants, TypeOK, Owed
    <3>2. CASE b # a
      BY <2>1, <3>2 DEF SyncInv, NoLostUpdate, Reflected, Owed
    <3>3. QED
      BY <3>1, <3>2
  <2>7. QED
    BY <2>3, <2>4, <2>5, <2>6 DEF SyncInv
<1>2. ASSUME NEW j \in Jobs, NEW m \in Modes, Start(j, m)
      PROVE  SyncInv'
  <2>1. /\ pc'[j] \in {"list", "readWatermark"} /\ pc[j] = "idle"
        /\ \A k \in Jobs : k # j => pc'[k] = pc[k] /\ mode'[k] = mode[k]
                                    /\ started'[k] = started[k]
        /\ mode'[j] = m
        /\ UNCHANGED <<article, index, store, watermark, failed, targets,
                       fetched, lost, todo>>
    BY <1>0, <1>2 DEF Start, TypeOK, Idle, sources, stores, syncState
  <2>2. FetchedCurrent'
    BY <2>1 DEF RunInv, CleanWhenIdle, Idle, NotFetched, SyncInv, FetchedCurrent
  <2>3. WritesComplete'
    BY <2>1 DEF SyncInv, WritesComplete, ChunksOf, Indexed, Stored
  <2>4. EditsRemembered'
    BY <2>1 DEF SyncInv, EditsRemembered, Reflected, Remembered, Listed, Fetched
  <2>5. FullWhenRecorded'
    BY <2>1 DEF SafeDeployment, SyncInv, FullWhenRecorded
  <2>6. NoLostUpdate'
    BY <2>1, NothingLost
  <2>7. QED
    BY <2>2, <2>3, <2>4, <2>5, <2>6 DEF SyncInv
<1>3. ASSUME NEW j \in Jobs, ReadWatermark(j) \/ ReadFailed(j)
      PROVE  SyncInv'
  <2>1. /\ pc[j] \in {"readWatermark", "readFailed"}
        /\ pc'[j] \in {"readFailed", "list"}
        /\ \A k \in Jobs : k # j => pc'[k] = pc[k]
        /\ UNCHANGED <<article, index, store, watermark, failed, mode, started,
                       targets, fetched, lost, todo>>
    BY <1>0, <1>3 DEF ReadWatermark, ReadFailed, TypeOK, sources, stores, syncState
  <2>2. FetchedCurrent' /\ FullWhenRecorded'
    BY <2>1 DEF SyncInv, FetchedCurrent, FullWhenRecorded
  <2>3. WritesComplete'
    BY <2>1 DEF SyncInv, WritesComplete, ChunksOf, Indexed, Stored
  <2>4. EditsRemembered'
    BY <2>1 DEF SyncInv, EditsRemembered, Reflected, Remembered, Listed, Fetched
  <2>5. NoLostUpdate'
    BY <2>1, NothingLost
  <2>6. QED
    BY <2>2, <2>3, <2>4, <2>5 DEF SyncInv
<1>4. ASSUME NEW j \in Jobs, List(j) PROVE SyncInv'
  <2>1. /\ pc[j] = "list" /\ pc'[j] = "fetch"
        /\ \A k \in Jobs : k # j => pc'[k] = pc[k] /\ targets'[k] = targets[k]
        /\ UNCHANGED <<article, index, store, watermark, failed, mode, started,
                       fetched, lost, todo>>
    BY <1>0, <1>4 DEF List, TypeOK, sources, stores, syncState
  <2>2. FetchedCurrent' /\ FullWhenRecorded'
    BY <2>1 DEF SyncInv, FetchedCurrent, FullWhenRecorded
  <2>3. WritesComplete'
    BY <2>1 DEF SyncInv, WritesComplete, ChunksOf, Indexed, Stored
  <2>4. EditsRemembered'
    <3> SUFFICES ASSUME NEW k \in Jobs, NEW a \in Articles, ~mode[k].skip,
                        pc'[k] \in Listed, article[a].indexable,
                        article[a].mod <= started[k]
                 PROVE  Reflected(a)' \/ Remembered(k, a)'
      BY <2>1 DEF EditsRemembered
    <3>1. k = j
      BY <2>1 DEF RunInv, Alone, Idle, Listed, Fetched
    <3>2. /\ since[j] = watermark /\ retry[j] = failed
          /\ mode[j].limit = NoLimit
      BY <2>1, <3>1 DEF RunInv, MemoryCurrent, SyncInv, FullWhenRecorded
    <3>3. Reflected(a) \/ article[a].mod > watermark \/ a \in failed
      <4>1. \A i \in Jobs : pc[i] # "writeFailed"
        BY <2>1 DEF RunInv, Alone, Idle
      <4>2. QED
        BY <4>1 DEF SyncInv, NoLostUpdate, Owed
    <3>4. targets'[j] = FetchTargets(Changed(since[j]), retry[j])
      BY <1>0, <1>4, <3>2 DEF List, Kept, TypeOK
    <3>5. CASE Reflected(a)
      BY <2>1, <3>5 DEF Reflected
    <3>6. CASE article[a].mod > watermark \/ a \in failed
      <4>1. \E lang \in Languages : <<a, lang>> \in FetchTargets(Changed(since[j]), retry[j])
        BY <3>2, <3>6 DEF FetchTargets, Changed, Languages
      <4>2. QED
        BY <3>1, <3>4, <4>1 DEF Remembered
    <3>7. QED
      BY <3>3, <3>5, <3>6
  <2>5. NoLostUpdate'
    BY <2>1, NothingLost
  <2>6. QED
    BY <2>2, <2>3, <2>4, <2>5 DEF SyncInv
<1>5. ASSUME NEW j \in Jobs, NEW a \in Articles, NEW lang \in Languages,
             FetchOk(j, a, lang)
      PROVE  SyncInv'
  <2>1. /\ pc[j] = "fetch" /\ fetched'[j][a] = article[a]
        /\ \A b \in Articles : b # a => fetched'[j][b] = fetched[j][b]
        /\ \A k \in Jobs : k # j => fetched'[k] = fetched[k] /\ targets'[k] = targets[k]
        /\ targets'[j] = targets[j] \ {<<a, lang>>}
        /\ UNCHANGED <<article, index, store, watermark, failed, pc, mode, started,
                       lost, todo>>
    BY <1>0, <1>5 DEF FetchOk, TypeOK, sources, stores, syncState
  <2>2. FetchedCurrent' /\ FullWhenRecorded'
    BY <2>1 DEF SyncInv, FetchedCurrent, FullWhenRecorded
  <2>3. WritesComplete'
    BY <2>1 DEF SyncInv, WritesComplete, Indexed, Stored, ChunksOf
  <2>4. EditsRemembered'
    <3>1. article[a].mod # 0
      BY <1>0 DEF RunInv, Instants, TypeOK, Content
    <3>2. ASSUME NEW k \in Jobs, NEW b \in Articles, Remembered(k, b)
          PROVE  Remembered(k, b)'
      <4>1. CASE k = j /\ b = a
        BY <2>1, <3>1, <4>1 DEF Remembered
      <4>2. CASE ~(k = j /\ b = a)
        BY <2>1, <3>2, <4>2 DEF Remembered
      <4>3. QED
        BY <4>1, <4>2
    <3>3. \A b \in Articles : Reflected(b) => Reflected(b)'
      BY <2>1 DEF Reflected
    <3>4. QED
      BY <2>1, <3>2, <3>3, EditsKept
  <2>5. NoLostUpdate'
    BY <2>1, NothingLost
  <2>6. QED
    BY <2>2, <2>3, <2>4, <2>5 DEF SyncInv
<1>6. ASSUME NEW j \in Jobs, NEW a \in Articles, NEW lang \in Languages,
             FetchFail(j, a, lang)
      PROVE  SyncInv'
  <2>1. /\ pc[j] = "fetch" /\ lost'[j] = lost[j] \cup {a}
        /\ \A k \in Jobs : k # j => lost'[k] = lost[k] /\ targets'[k] = targets[k]
        /\ targets'[j] = targets[j] \ {<<a, lang>>}
        /\ UNCHANGED <<article, index, store, watermark, failed, pc, mode, started,
                       fetched, todo>>
    BY <1>0, <1>6 DEF FetchFail, TypeOK, sources, stores, syncState
  <2>2. FetchedCurrent' /\ FullWhenRecorded'
    BY <2>1 DEF SyncInv, FetchedCurrent, FullWhenRecorded
  <2>3. WritesComplete'
    BY <2>1 DEF SyncInv, WritesComplete, Indexed, Stored, ChunksOf
  <2>4. EditsRemembered'
    <3>1. ASSUME NEW k \in Jobs, NEW b \in Articles, Remembered(k, b)
          PROVE  Remembered(k, b)'
      BY <2>1, <3>1 DEF Remembered
    <3>2. \A b \in Articles : Reflected(b) => Reflected(b)'
      BY <2>1 DEF Reflected
    <3>3. QED
      BY <2>1, <3>1, <3>2, EditsKept
  <2>5. NoLostUpdate'
    BY <2>1, NothingLost
  <2>6. QED
    BY <2>2, <2>3, <2>4, <2>5 DEF SyncInv
<1>7. ASSUME NEW j \in Jobs, FinishFetch(j) PROVE SyncInv'
  <2>1. /\ pc[j] = "fetch" /\ targets[j] = {}
        /\ UNCHANGED <<article, index, store, watermark, failed>>
    BY <1>7 DEF FinishFetch, sources, stores, syncState
  <2>2. CASE Leave(j)
    BY <2>1, <2>2, RunLeaves DEF Idle
  <2>3. CASE ~Leave(j)
    <3>1. PICK step \in {"embed", "writeWatermark"} :
             /\ pc' = [pc EXCEPT ![j] = step]
             /\ step = "writeWatermark" => \A a \in Articles : fetched[j][a].mod = 0
             /\ UNCHANGED locals
      BY <1>7, <2>3 DEF FinishFetch, Proceed, AfterWrites
    <3>2. step = "writeWatermark" => ChunksOf(fetched[j]) = {}
      <4>1. ASSUME NEW a \in Articles, fetched[j][a].mod = 0
            PROVE  fetched[j][a].size = 0
        BY <1>0, <4>1 DEF RunInv, FetchedNewest, NotFetched
      <4>2. QED
        BY <3>1, <4>1 DEF ChunksOf, Ordinals
    <3>3. QED
      BY <1>0, <2>1, <3>1, <3>2, RunMoves DEF locals, Listed
  <2>4. QED
    BY <2>2, <2>3
<1>8. ASSUME NEW j \in Jobs, Embed(j) PROVE SyncInv'
  <2>1. /\ pc[j] = "embed"
        /\ UNCHANGED <<article, index, store, watermark, failed>>
    BY <1>8 DEF Embed, sources, stores, syncState
  <2>2. CASE Leave(j)
    BY <2>1, <2>2, RunLeaves DEF Idle
  <2>3. CASE ~Leave(j)
    <3>1. PICK step \in {"upsert", "writeWatermark"} :
             /\ pc' = [pc EXCEPT ![j] = step]
             /\ step = "writeWatermark" => ChunksOf(fetched[j]) = {}
             /\ step = "upsert" => todo' = [todo EXCEPT ![j] = ChunksOf(fetched[j])]
             /\ UNCHANGED <<mode, started, targets, fetched, lost>>
      BY <1>8, <2>3 DEF Embed, Proceed, AfterWrites, locals
    <3>2. step = "upsert" => todo'[j] = ChunksOf(fetched[j])
      BY <1>0, <3>1 DEF TypeOK
    <3>3. QED
      BY <1>0, <2>1, <3>1, <3>2, RunMoves DEF Listed, Fetched
  <2>4. QED
    BY <2>2, <2>3
<1>9. ASSUME NEW j \in Jobs, Upsert(j) PROVE SyncInv'
  <2>1. PICK batch \in SUBSET todo[j] :
           /\ index' = Written(index, batch \ Rejected, fetched[j])
           /\ IF batch = todo[j]
              THEN /\ todo' = [todo EXCEPT ![j] = ChunksOf(fetched[j])]
                   /\ pc' = [pc EXCEPT ![j] = "put"]
              ELSE /\ todo' = [todo EXCEPT ![j] = @ \ batch]
                   /\ UNCHANGED pc
    BY <1>9 DEF Upsert
  <2>2. /\ pc[j] = "upsert"
        /\ UNCHANGED <<article, mode, started, targets, fetched, lost>>
    BY <1>9 DEF Upsert, sources
  <2>3. /\ \A k \in Jobs : k # j => pc'[k] = "idle"
        /\ \/ pc'[j] = "upsert" /\ todo'[j] = todo[j] \ batch
           \/ pc'[j] = "put" /\ todo'[j] = ChunksOf(fetched[j]) /\ batch = todo[j]
    BY <1>0, <2>1, <2>2 DEF RunInv, Alone, Idle, TypeOK
  <2>4. FetchedCurrent' /\ FullWhenRecorded'
    BY <2>2 DEF SyncInv, FetchedCurrent, FullWhenRecorded
  <2>5. WritesComplete'
    <3> SUFFICES ASSUME NEW a \in Articles, NEW o \in Ordinals,
                        <<a, o>> \in ChunksOf(fetched[j])
                 PROVE  /\ pc'[j] = "upsert" => <<a, o>> \in todo'[j] \/ Indexed(j, a, o)'
                        /\ pc'[j] = "put" => Indexed(j, a, o)' /\ <<a, o>> \in todo'[j]
      BY <2>2, <2>3 DEF WritesComplete, ChunksOf
    <3>1. <<a, o>> \in todo[j] \/ Indexed(j, a, o)
      BY <2>2 DEF SyncInv, WritesComplete
    <3>2. index'[a][o] = IF <<a, o>> \in batch \ Rejected
                         THEN fetched[j][a].mod ELSE index[a][o]
      BY <2>1 DEF Written
    <3>3. <<a, o>> \in batch \/ Indexed(j, a, o) => Indexed(j, a, o)'
      BY <2>2, <3>2 DEF Indexed
    <3>4. QED
      BY <2>3, <3>1, <3>3
  <2>6. EditsRemembered'
    <3>1. \A k \in Jobs : pc'[k] \in Listed => pc[k] \in Listed /\ k = j
      BY <2>2, <2>3 DEF Listed, Fetched
    <3>2. \A a \in Articles : Remembered(j, a) => Remembered(j, a)'
      BY <2>2 DEF Remembered
    <3>3. QED
      BY <1>9, <2>2, <3>1, <3>2, WritesKeepServed, EditsKept
  <2>7. QED
    BY <1>9, <2>4, <2>5, <2>6, WritesLoseNothing DEF SyncInv
<1>10. ASSUME NEW j \in Jobs, Put(j) PROVE SyncInv'
  <2>1. CASE Leave(j)
    BY <1>10, <2>1, WritesLoseNothing, EndKeepsRest DEF Put, Idle, SyncInv
  <2>2. CASE ~Leave(j)
    <3>1. PICK batch \in SUBSET todo[j] :
             /\ store' = Written(store, batch, fetched[j])
             /\ IF batch = todo[j] THEN Proceed(j, AfterWrites(mode[j]))
                ELSE /\ todo' = [todo EXCEPT ![j] = @ \ batch]
                     /\ UNCHANGED <<pc, mode, started, since, retry, targets,
                                    fetched, lost>>
      BY <1>10 DEF Put
    <3>2. /\ pc[j] = "put"
          /\ UNCHANGED <<article, index, mode, started, targets, fetched, lost>>
      BY <1>10, <2>2, <3>1 DEF Put, Proceed, locals, sources
    <3>3. \/ pc' = [pc EXCEPT ![j] = "writeWatermark"] /\ batch = todo[j]
          \/ UNCHANGED pc /\ todo' = [todo EXCEPT ![j] = @ \ batch]
      BY <2>2, <3>1 DEF Proceed, AfterWrites
    <3>4. /\ \A k \in Jobs : k # j => pc'[k] = "idle"
          /\ \/ pc'[j] = "writeWatermark" /\ batch = todo[j]
             \/ pc'[j] = "put" /\ todo'[j] = todo[j] \ batch
      BY <1>0, <3>2, <3>3 DEF RunInv, Alone, Idle, TypeOK
    <3>5. FetchedCurrent' /\ FullWhenRecorded'
      BY <3>2 DEF SyncInv, FetchedCurrent, FullWhenRecorded
    <3>6. WritesComplete'
      <4> SUFFICES ASSUME NEW a \in Articles, NEW o \in Ordinals,
                          <<a, o>> \in ChunksOf(fetched[j])
                   PROVE  /\ Indexed(j, a, o)'
                          /\ pc'[j] = "put" => <<a, o>> \in todo'[j] \/ Stored(j, a, o)'
                          /\ pc'[j] = "writeWatermark" => Stored(j, a, o)'
        BY <3>2, <3>4 DEF WritesComplete, ChunksOf
      <4>1. Indexed(j, a, o) /\ (<<a, o>> \in todo[j] \/ Stored(j, a, o))
        BY <3>2 DEF SyncInv, WritesComplete
      <4>2. store'[a][o] = IF <<a, o>> \in batch THEN fetched[j][a].mod ELSE store[a][o]
        BY <3>1 DEF Written
      <4>3. <<a, o>> \in batch \/ Stored(j, a, o) => Stored(j, a, o)'
        BY <3>2, <4>2 DEF Stored
      <4>4. Indexed(j, a, o)'
        BY <3>2, <4>1 DEF Indexed
      <4>5. QED
        BY <3>4, <4>1, <4>3, <4>4
    <3>7. EditsRemembered'
      <4>1. \A k \in Jobs : pc'[k] \in Listed => pc[k] \in Listed /\ k = j
        BY <3>2, <3>4 DEF Listed, Fetched
      <4>2. \A a \in Articles : Remembered(j, a) => Remembered(j, a)'
        BY <3>2 DEF Remembered
      <4>3. QED
        BY <1>10, <3>2, <4>1, <4>2, WritesKeepServed, EditsKept
    <3>8. QED
      BY <1>10, <3>5, <3>6, <3>7, WritesLoseNothing DEF SyncInv
  <2>3. QED
    BY <2>1, <2>2
<1>11. ASSUME NEW j \in Jobs, WriteWatermark(j) PROVE SyncInv'
  <2>1. /\ pc[j] = "writeWatermark" /\ pc'[j] = "writeFailed"
        /\ \A k \in Jobs : k # j => pc[k] = "idle" /\ pc'[k] = "idle"
        /\ watermark' = started[j]
        /\ UNCHANGED <<article, index, store, mode, started, targets, fetched, lost>>
    BY <1>0, <1>11 DEF WriteWatermark, RunInv, Alone, Idle, TypeOK, sources, stores,
                       locals
  <2>2. FetchedCurrent' /\ FullWhenRecorded'
    BY <2>1 DEF SyncInv, FetchedCurrent, FullWhenRecorded
  <2>3. WritesComplete'
    BY <2>1 DEF SyncInv, WritesComplete, ChunksOf, Indexed, Stored
  <2>4. EditsRemembered'
    <3>1. \A k \in Jobs : pc'[k] \in Listed => pc[k] \in Listed
      BY <2>1 DEF Listed, Fetched
    <3>2. \A k \in Jobs, a \in Articles :
             /\ Reflected(a) => Reflected(a)'
             /\ Remembered(k, a) => Remembered(k, a)'
      BY <2>1 DEF Reflected, Remembered
    <3>3. QED
      BY <2>1, <3>1, <3>2, EditsKept
  <2>5. NoLostUpdate'
    <3> SUFFICES ASSUME NEW a \in Articles, article[a].indexable
                 PROVE  Reflected(a)' \/ Owed(a)'
      BY <2>1 DEF NoLostUpdate
    <3>1. CASE article[a].mod <= started[j]
      <4>1. Reflected(a) \/ a \in lost[j]
        BY <2>1, <3>1, Settled
      <4>2. QED
        BY <2>1, <4>1 DEF Reflected, Owed
    <3>2. CASE ~(article[a].mod <= started[j])
      BY <1>0, <2>1, <3>2 DEF TypeOK, Content, Owed
    <3>3. QED
      BY <3>1, <3>2
  <2>6. QED
    BY <2>2, <2>3, <2>4, <2>5 DEF SyncInv
<1>12. ASSUME NEW j \in Jobs, WriteFailed(j) PROVE SyncInv'
  <2>1. /\ pc[j] = "writeFailed" /\ failed' = lost[j] /\ watermark = started[j]
        /\ Leave(j)
        /\ UNCHANGED <<article, index, store, watermark>>
    BY <1>12 DEF WriteFailed, RunInv, Instants, sources, stores
  <2>2. NoLostUpdate'
    <3> SUFFICES ASSUME NEW a \in Articles, article[a].indexable
                 PROVE  Reflected(a)' \/ Owed(a)'
      BY <2>1 DEF NoLostUpdate
    <3>1. CASE article[a].mod <= started[j]
      <4>1. Reflected(a) \/ a \in lost[j]
        BY <2>1, <3>1, Settled
      <4>2. QED
        BY <2>1, <4>1 DEF Reflected, Owed
    <3>2. CASE ~(article[a].mod <= started[j])
      BY <1>0, <2>1, <3>2 DEF TypeOK, Content, Owed
    <3>3. QED
      BY <3>1, <3>2
  <2>3. QED
    BY <2>1, <2>2, EndKeepsRest DEF Idle, SyncInv
<1>13. ASSUME NEW j \in Jobs, Abort(j) PROVE SyncInv'
  <2>1. /\ ~Idle(j) /\ pc[j] # "writeFailed" /\ Leave(j)
        /\ UNCHANGED <<article, index, store, watermark, failed>>
    BY <1>13, ConstantsAssumption
    DEF Abort, SafeDeployment, Idle, sources, stores, syncState
  <2>2. QED
    BY <2>1, RunLeaves
<1>14. CASE UNCHANGED vars
  <2>1. UNCHANGED <<article, index, store, watermark, failed, pc, mode, started,
                    targets, fetched, lost, todo>>
    BY <1>14 DEF vars, sources, stores, syncState, locals
  <2>2. FetchedCurrent' /\ FullWhenRecorded'
    BY <2>1 DEF SyncInv, FetchedCurrent, FullWhenRecorded
  <2>3. WritesComplete' /\ EditsRemembered'
    BY <2>1 DEF SyncInv, WritesComplete, EditsRemembered, ChunksOf, Indexed, Stored,
                Reflected, Remembered
  <2>4. NoLostUpdate'
    BY <2>1, NothingLost
  <2>5. QED
    BY <2>2, <2>3, <2>4 DEF SyncInv
<1>15. QED
  BY <1>1, <1>2, <1>3, <1>4, <1>5, <1>6, <1>7, <1>8, <1>9, <1>10, <1>11, <1>12,
     <1>13, <1>14 DEF Next, RunStep

(***************************************************************************)
(* The theorems.                                                           *)
(***************************************************************************)

\* In the safe deployment a run always knows enough to serve or to remember
\* every edit made before it started.
THEOREM SyncInvariant ==
    ASSUME SafeDeployment
    PROVE  Spec => []SyncInv
<1>1. Init => SyncInv
  <2> SUFFICES ASSUME Init PROVE SyncInv
    OBVIOUS
  <2>1. FetchedCurrent /\ WritesComplete
    BY DEF Init, FetchedCurrent, WritesComplete, NotFetched
  <2>2. EditsRemembered /\ FullWhenRecorded
    BY DEF Init, EditsRemembered, FullWhenRecorded, Nightly, Listed, Fetched
  <2>3. NoLostUpdate
    BY DEF Init, NoLostUpdate, Owed
  <2>4. QED
    BY <2>1, <2>2, <2>3 DEF SyncInv
<1>2. RunInv /\ RunInv' /\ SyncInv /\ [Next]_vars => SyncInv'
  BY SyncInvStep
<1>3. ~Overlap
  BY DEF SafeDeployment
<1>4. QED
  BY <1>1, <1>2, <1>3, RunInvariant, PTL DEF Spec

\* In the safe deployment no edit is lost: at every moment each published,
\* visible article is either in both stores in its current content or will be
\* fetched by the next run.
THEOREM NoEditIsLost ==
    ASSUME SafeDeployment
    PROVE  Spec => []NoLostUpdate
<1>1. SyncInv => NoLostUpdate
  BY DEF SyncInv
<1>2. QED
  BY <1>1, SyncInvariant, PTL
==============================================================================
