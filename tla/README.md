# Molli: a TLA+ verification project

Molli answers employees' questions in Google Chat from the articles of a
Document360 knowledge base. This directory holds TLA+ models of it, TLC
configurations that check them on small instances, and theorems about them
that TLAPS checks for every value of the constants. Paths below are relative
to the repository.

## 1. Inventory of the system

Two programs share state through Google Cloud:

* the **sync job** (`sync-job/`), a Cloud Run job that Cloud Scheduler starts
  every night (one automatic retry of a failed task) and that operators run by
  hand; it copies articles into the vector index and the chunk store;
* the **chat service** (`chat-service/`), a FastAPI service with one event loop
  per Cloud Run instance and possibly several instances; each message or card
  click is one handler, an asyncio task.

Beside the job, operators put PDF files into the same stores and take them out
again by hand (`sync_job/manual_ingest.py`).

Shared state: the vector index (datapoints `id::ordinal`), the Firestore
collections `chunks` (texts), `sync_state/document360` (the job's memory) and
`conversations` (turns of each session). Only the job and the operators' commands
write the first three; only the service writes the last. External services: Document360, Freshservice,
Gemini, DLP, all called over HTTP with timeouts and retries.

| Component | State | Operations | What is hard | What makes it correct |
|---|---|---|---|---|
| Sync job: `sync_job/main.py`, `watermark.py` | `last_synced_at`, `failed_article_ids`; a run's stubs, articles, chunks | `run_sync`: read the sync state, list, fetch each article, chunk and embed, upsert, put, write the sync state | edits during a run, fetch failures, death between two steps, command-line options | no edit is lost; stores never go back in time; failed articles are retried until fetched; every fetchable article is served in the end |
| Stores, write side: `retrieval/index_store.py`, `chunk_store.py` | datapoints, texts | `upsert` in batches of 100 with a one-by-one fallback, `put_many` | two stores, no transaction; refused datapoints | covered by the sync job's properties |
| Document360 client: `clients/document360.py` | token bucket, lock queue, attempt counters | `_RateLimiter.acquire`, `_get`, `list_articles`, `get_article` | coroutines queueing on the limiter, sleeps under its lock, retries that take tokens again | starts stay within a rate; every call ends |
| Chunking: `sync_job/chunking.py`, the chunkers of `manual_ingest.py` | a parser's and three packers' buffers | `chunk_html`, `_chunk_text`, `_chunk_text_by_section` | packing at the size limits, flushing at tags and headings | nothing lost, order kept, sizes bounded, the right heading |
| Manual ingest: `sync_job/manual_ingest.py`, `IndexStore.remove_article` | the same two stores | `ingest`, `remove` | shrinking documents, failure between the stores, rejected datapoints | a done ingest is complete, a removed document is gone from both |
| Chat events: `chat-service/app/main.py`, `cards/` | none of its own; buttons in the chat carry texts back | `chat_event` for messages and card clicks | tasks beside the handler, awaits and blocking calls, a background task after the response; failures of any call | one reply per message; the reply carries what the message demands |
| Conversation memory: `conversation_store.py` | turns per session, 40 at most | `append_turn` (a transaction), `get_recent`, `clear` | several instances, interleaved messages of a session, resets | turns of one session only, the newest ones, in order |
| Guardrail chain: `guardrails/` | none | seven checks in order, short circuit, input and output redaction | precedence, redaction in the middle of the chain, two scanners that know different things, DLP or the classifier failing | the loudest alarm wins; recognised personal data go no further |
| Answer pipeline: `tools/rag_answer.py`, `intent.py`, `query_rewrite.py`, `topic_detection.py` | none | rewrite, classify, retrieve, read the texts, generate, cite | two stores changing underneath, classifier timeouts, numbering of sources and links | what was removed is not cited; the links are those of the sources the model cites |
| Ticket dialog: `cards/dialog.py`, `cards/form_options.py`, `ticket_analysis.py` | a draft, the values of the widgets | analyse the conversation, snap to the vocabularies, build the draft, validate the entries | drafts built over a sample, lists that depend on a system, three places that say what is required | nothing in a ticket that nobody said; what the dialog accepts is a ticket |
| Ticketing: `clients/freshservice.py`, `clients/ticketing.py` | Freshservice tickets | `submit`, `create_ticket` with retries | a retried POST, a lost answer, notification text | one ticket per submission; the user is told what happened |

Markup conversion, settings, the unused Gmail client, the
scaffold service, evaluation scripts and deployment files keep no state worth
checking. `PROJECT.json` lists every component with its files and status, and
every hazard of the code at the line where it bites.

## 2. Modules

| Module | What it is |
|---|---|
| `SyncJob` | the job, Document360's editors, both stores and the sync state |
| `MCSyncJob` | constants for TLC |
| `SyncJobProofs` | type correctness, the invariant of a run, three action properties, and that no edit is lost in the safe deployment |
| `Document360Client` | the token bucket and the retry loop |
| `MCDocument360Client` | constants for TLC |
| `Document360ClientProofs` | the invariant of the limiter and the rate it keeps |
| `Recursion` | lemmas: induction over a number and over the positions of a walk, and what a function defined by recursion over them is |
| `SessionMemory` | abstract: what the conversation memory promises |
| `ConversationMemory` | turns of sessions, under handlers on several service instances; implements `SessionMemory` |
| `MCConversationMemory` | constants for TLC |
| `ConversationMemoryProofs` | the invariant of the transactions, the refinement, what stands before an answer, and what a handler reads |
| `Ticketing` | one submission of the ticket dialog, with Freshservice |
| `GuardrailChain` | the guardrails and `run_chain`, as operators on a message |
| `ChatTurn` | a message from its arrival to the reply: chain, classifiers, answer, output scan, memory, buttons |
| `TicketForm` | from the click on "Create Ticket" to what the dialog sends back; extends `ChatTurn` |
| `ChatTurnProofs` | what the chain lets through, whose alarm wins, where personal data do not get |
| `ChatService` | composes `ChatTurn`, `TicketForm` and `Ticketing` |
| `ChatServiceProofs` | a submission and which tickets may exist, the dialog, and what the parts keep when they are composed |
| `MCChatService` | the module TLC runs on |
| `Chunking` | the chunkers of HTML and of PDF files, as operators on a document |
| `ChunkingProofs` | no chunk is too long or blank, nothing is lost, headings are the nearest, sections stay apart |
| `KnowledgeBase` | both stores under ingests, removals and questions |
| `KnowledgeBaseProofs` | what a command leaves behind that says it is done; types; the links of an answer, and of a removed file |
| `MCKnowledgeBase` | `Chunking` and `KnowledgeBase` side by side, for TLC |

### SyncJob and the code

The content of an article is identified with the instant of its last
modification (`article[a].mod`), with the number of chunks it has (`size`) and
whether it is published and not hidden (`indexable`). `index[a][o]` and
`store[a][o]` are the instants of the contents from which datapoint and text
`a::o` were made, 0 for none. `watermark` and `failed` are the two fields of
`sync_state/document360`; `since` and `retry` are what a run read of them.

| Action | Code |
|---|---|
| `Edit` | Document360, outside the repository |
| `Start` | `main()`, the beginning of `run_sync` (`started_at`) |
| `ReadWatermark`, `ReadFailed` | `get_last_synced`, `get_failed_ids`: two reads |
| `List` | `list_articles`, `stubs[:limit]` and the targets of `_gather_articles` |
| `FetchOk`, `FetchFail` | one iteration of the fetch loop |
| `FinishFetch` | the end of `_gather_articles` and the "nothing to sync" return |
| `Embed` | chunking and embedding, and the "no chunks" return |
| `Upsert`, `Put` | a batch of the index, a document of the chunk store |
| `WriteWatermark`, `WriteFailed` | `set_last_synced`, `set_failed_ids`: two writes |
| `Abort` | an exception nothing catches, a timeout, a kill |

What is abstracted, and what is assumed:

* Document360 and the job read comparable clocks and no edit falls on the very
  instant a run starts (`Instants` counts edits). The strict comparison
  `modified_at > watermark` makes a tie an open hazard of the code.
* Every change of an article, its status included, moves `modified_at`.
* The order of the listing, of fetches and of writes is left open, and any
  non-empty part of what is left may land at once: that covers a batch, a part
  of one, and the one-by-one replay of a refused batch. (`KnowledgeBase` has the
  batches themselves.)
* A retried id is fetched in "en" whatever its language (`main.py:67-75`), and
  an article does not exist in another language than its own.
* Chunks of an article that shrank, was emptied, hidden or deleted stay: the
  job calls no remover. No property claims they go.
* The texts, vectors and the restricts stored with them are not modelled.

### Document360Client and the code

A coroutine inside `_get` is `idle`, `queued` for the limiter's lock, in a
`request`, or in `backoff`. `Take`, `Sleep` and `Wake` are the three ways through
`acquire`: a token was there; the coroutine falls asleep holding the lock; it
wakes, sets the tokens to 0 and leaves `_updated` as it was. `BackOff`, `TryAgain`
and `GiveUp` are the retry loop, which sleeps after the last attempt too. One
token is `Unit` ticks' worth, and `age` (the time since `_updated`) saturates at
`Capacity`, beyond which more time changes nothing. Sleeps may last longer
than asked, never shorter; rounding of floats is ignored. `load` is a history
variable: the requests started so far in excess of `Drain` times the configured
rate, as a leaky bucket measures it.

### ConversationMemory and the code

A message is one handler on one instance. `pc[m]` goes from `unsent` over
`chain` (the guardrails), `answering` (the history has been read) and `append`
to one of `Ended`. `doc` holds the documents of the collection `conversations`.
A turn names its message, its role, and whether its text is what DLP redacted or
the placeholder stored when DLP was skipped.

| Action | Code |
|---|---|
| `Receive` | `chat_event`, `main.py` |
| `Blocked` | a guardrail answers instead: neither read nor write |
| `ReadHistory` | `get_recent`: the newest turns within the budget |
| `Fails` | an exception in `get_recent` or in the making of the answer |
| `Answered` | the last await returns |
| `OpenTxn`, `Commit`, `Abort`, `GiveUp` | one transaction of `append_turn`: read, written, refused and tried again, refused for the last time |
| `CommitUnacknowledged`, `AppendFails` | the exceptions `chat_event` catches around the two appends |
| `Reset` | the reset button: `clear` deletes the document |
| `Crash` | an instance ends with its handlers |

What is abstracted, and what is assumed:

* An instance has one process with one event loop (the Dockerfile's uvicorn has
  one worker), and the Firestore client is the blocking one: handlers of an
  instance take turns at their awaits (`Busy`), and the two appends of a message
  are not interleaved with another handler of the same instance. Nothing of the
  kind holds between instances.
* Firestore's transactions are optimistic here: one that has read a document
  which was written since cannot commit. `MaxAttempts` is the client's bound on
  repetitions (external).
* `KeyOf` is the session key of both envelopes of a Chat event. With the
  add-on envelope the handlers look for the space where it is not, and every
  session has the key `unknown`.
* The budget counts a text, its role and two characters; `Length` gives the sum,
  and a placeholder counts 1.
* A reset that fails is caught and changes nothing, so it is no action. The
  dialogs of the ticket cards only read the memory.

### Ticketing and the code

`pc` is where the handler of the submission is; `post[n]` is what became of the
POST of attempt `n`, which Freshservice may process at any time, also when the
client has stopped waiting (`Create`, `Refuse`, `Drop`, all external). The
branches of `_request` are one action each: `TimeOut`, `ServerError` and
`RateLimited` go to the backoff or give up (`RetryOrGiveUp`); `Terminal` is a
4xx that is not retried; `Created` is a ticket number; `FallThrough` is a
status no branch matches (a redirect), after which the loop goes round without
a pause; `Breaks` is an exception that is not a `TicketingError`, which the
handler does not catch. `BadEntries` and `DryRun` end a submission before
anything is sent. `told` is the text under "Got it - ticket created:" in the
notification, and `number` the attempt whose ticket it names. Two submissions
share nothing but the connection pool, so one is modelled.

### GuardrailChain, ChatTurn and the code

A message is a record of the word patterns it matches (`signals`) and of the
kinds of personal data in it (`pii`). Patterns with one effect are one signal;
the exclusion list of a guardrail is one signal too. `Check` is one guardrail,
`VerdictOf(i, ...)` what the `i`-th of `_GUARDRAIL_CHAIN` says of the text as it
is by then, and `RunChain` the `ChainResult`.

When the check for personal data redacts, the guardrail after it is asked about
what is left (`TextFor`). `Redactions` are the texts that `redact_pii` may make:
the kinds of data that the scanner knows are gone from each, and the signals that
are still looked for (`EscalationSignals`; the other guardrails have been asked by
then) may be gone with them ("email hr@..." is no request for HR once the address is
redacted), or may have come up, where the data had kept words apart.

Personal data come in kinds because two scanners look for them: the regular
expressions of `data_priv.py` (`PatternKinds`) and the information types that
`dlp.py` asks Cloud DLP for (`DlpKinds`). One kind that both know and one that only
either knows stand for all of them. Everything about redaction is claimed of
`KnownKinds` only, because the code does no better: a bank account number is
recognised by a pattern, whereupon DLP is asked to redact, which does not look
for one; a telephone number in an answer does not trigger the output scan.

`at` is where the handler of the message is:

| Action | Code |
|---|---|
| `Receive`, `Judge` | `chat_event` up to `run_chain`, with the Fair Housing classifier and DLP answering or failing |
| `Stopped`, `SendNotice` | the canned response; `_send_webhook_notification`, a background task after it |
| `Placeholder` | the answer without Gemini |
| `ReadHistory`, `HistoryUnavailable` | `get_recent`, the two `create_task`s; the exception that nothing catches |
| `TopicAnswers`, `TopicTimesOut`, `IntentAnswers`, `IntentTimesOut` | the two tasks, whenever the handler awaits something |
| `Rewrite`, `AwaitIntent`, `IntentRaised` | `rewrite_followup`, `await _intent_task` |
| `Answer`, `General`, `Scan` | `answer_with_citations` with its outcomes; the answer without sources; `scan_gemini_output` |
| `AwaitTopic`, `AppendTurns`, `Reply` | `await _topic_task`; the two appends; `answer_card` |
| `ResetHistory`, `Die` | the button; the end of the instance |

`memory` is the set of the kinds of data in the session's turns, with `"words"` for
the rest; how turns are stored is the subject of `ConversationMemory`. `buttons`
holds the texts the "Create Ticket" buttons carry.

What is abstracted, and what is assumed:

* DLP finds every instance of a type it is asked for, and so does a pattern.
* A search, a generation and a transaction block the event loop, so the two
  tasks get on only at an `await` (`Awaiting`).
* Anything may be in an answer: `Answer` takes any set of kinds, which are what
  the articles hold, not what the user wrote.
* The links below a Fair Housing block and the reply to `keepHistory` change no
  state and are left out.

### TicketForm and the code

Of a text the model keeps where it comes from: `"said"` in the conversation, out
of the `"sample"` that `make_draft` starts from, `"typed"` in the dialog, or none.
`MakeDraft`, `DraftOf`, `Snap` and `Fallback` are `make_draft`,
`analysis_to_draft_fields`, `snap_to_vocabulary` and `_fallback`. Three systems stand
for the 75 of `form_options.py`: one whose list of issues lacks "Other", one that
has it, and one without a list. `Opens` is `open_dialog`; `PressSubmit` is what the
user can make of the widgets (external but for `requiredWidgets` and the options
offered); `FitsSchema` is the strict schema of `build_ticket_payload`, and what
decides in `ChatService` whether a submission reaches `Ticketing`'s `Submit` or ends
in `BadEntries`.

`ChatService` runs the parts one after the other, in one instance: messages, then
a dialog, then its submission. `Chatting`, `FillingIn`, `Submitting` and `Ticketed`
are their steps; only the handler of the submission changes two parts at once.

### Chunking and the code

A document is a sequence of items: the parser's events for HTML, sentences or
lines for PDF files. A character carries its item and its place in it, so that a
chunk shows where each of its letters is from. `Segments` is `html_to_segments` with
the buffer, the heading flag and the skip depth of `_TextExtractor`; `ChunkHtml` is
`chunk_html`. `ChunkParagraphs` is `_chunk_text`; `ChunkSections` is
`_chunk_text_by_section` after the heuristics for headings and noise, which only
decide the kind of a line. `Pack` is the loop that `_chunk_text`, `_split_long` and
`_pack` have in common; they differ in how they cut what is too long.

`ListItemsAndSentences` is `_segments`: it splits before a bullet that a space
follows, leaves what begins with one whole, and splits the rest into sentences. An
item of the kind `"bullet"` ends with the glyph: of size 1 it is a bullet between
spaces, longer it is one glued to the word before it ("Perks•"), from which the list
item is split and to which `_pack` joins it again with a space. One that is
`"bulleted"` begins with the glyph ("•gym"): nothing is split there, but a part that
begins so stays whole. The glyph counts as a letter. A bullet within a word or
within the line of a heading is not modelled.

### KnowledgeBase and the code

`index` and `store` hold the version of the file each datapoint and text was made
from; `served` is the index as a query finds it, which lags behind
(`BecomesQueryable`, external). `command` and `position` are where the operator's
command and its loop are, `stage` is where `answer_with_citations` or `search_docs` is.

| Action | Code |
|---|---|
| `Ingest`, `Embed`, `UpsertNext`, `StoreTexts` | `ingest`: the file, all vectors, a batch of `IndexStore.upsert` with its replay one by one, `put_many` |
| `RemoveFile`, `SweepNext`, `DeleteTexts` | `remove`: calls of `remove_article` up to the ceiling, then the documents of the collection |
| `Abort` | an exception, or the operator, anywhere; a batch may be half done |
| `Retrieve`, `ReadTexts`, `Generate`, `Forget` | `find_neighbors`; `get_many` and the numbering of sources in the order of the neighbours, which nothing shows before; the model's answer, its markers and the links; the return |

An article of Document360 stands beside the file and does not change: the job
writes in the order of `ingest`, and `SyncJob` has its writes. `TopK` is one
constant for the five neighbours of an answer and the three of a search. A commit
of `put_many` holds 450 texts and a file is assumed to have no more. One datapoint
of a file at most is rejected for good.

## 3. What TLC checks

| Run | Result | Shows |
|---|---|---|
| `sync_nightly` | passes | with runs that do not overlap, `--limit` used only with `--skip-watermark`, and no death between the two writes of the sync state: `NoLostUpdate`, its inductive invariant `SyncInv`, and `EventuallyServed` |
| `sync_any_options` | passes | with any command line and a death anywhere: `RunInv`, `NeverRegresses`, `WatermarkBehindRuns`, `RetriedUntilFetched` |
| `sync_crash_between_writes` | `NoLostUpdate` violated | a run that dies after `set_last_synced` and before `set_failed_ids` forgets the articles it could not fetch |
| `sync_limit` | `NoLostUpdate` violated | `--limit` advances the watermark past what it cut off |
| `sync_hidden` | `OnlyIndexableServed` violated | an article hidden or unpublished after it was listed, or while it waits on the retry list, is indexed all the same |
| `client_rate` | passes | `WithinRate` at twice the configured rate, `EveryCallEnds` |
| `client_over_rate` | `WithinRate` violated | at the configured rate itself, the excess has no bound: the time of a sleep is counted twice |
| `memory_turns` | passes | three messages of one session on two instances, a reset, failures and crashes anywhere: `KeepsWhatWasSaid` (the refinement of `SessionMemory`), `HistoryIsNewest`, `PairsUnbroken`, `EveryMessageEnds` |
| `memory_envelope` | `OwnSpaceOnly` violated | with the add-on envelope a message is answered with the turns of another space |
| `ticket_submission` | passes | a conversation from its first message to the ticket. Messages: `KnownPiiStaysOut`, `LoudestAlarmWins`, `SafetyReferralKept`, `EmergenciesAreReported`, `EveryMessageIsAnswered`. The dialog: `NothingInvented`, `DetailBelongsToSystem`, `RequiredWidgetsSuffice`, `EveryClickEnds`. The submission: `TicketsAccountedFor` (a ticket the user is not told of comes only from an attempt whose end the client could not know), `EverySubmissionEnds` |
| `ticket_notification` | `NotificationIsTrue` violated | "Got it - ticket created" is also what a user reads when no ticket was created |
| `knowledge_base` | passes | the chunkers: `NothingLost`, `ChunksFit`, `HeadingIsNearest`, `SectionsStayApart`. The stores: `IngestComplete`, `RemovedIsGone`, `RemovedIsNotCited`, `LinksMatchMarkers`, `IngestedIsServed` |

The six violations are disagreements with what the repository's own comments
promise; `PROJECT.json` quotes them under "findings".

**Bounds.** Two articles let one be fetched, retried or refused while the other
is not; nothing in a run compares three. Two chunks (`sync_any_options`) are
enough for a partly written article, one for the rest. `MaxEdits` counts
instants: with 2, one edit may hit any point of any run; `sync_nightly` has 3, so
that an edit can hit a run that is already repairing an earlier one. Runs are
not bounded: a job may start again for ever, and the state space is finite
because a run leaves nothing but the stores and the sync state behind. One
death (`MaxCrashes`) separates a failed run from any number of good ones. Three
coroutines (`client_rate`) queue behind a sleeper in different orders; `Unit` 2
and `Capacity` 4 are a burst of two tokens, with a token's worth of time that is
not one tick; two attempts make the first, the repeated and the last one
different; the delays are none and one token's worth. The client has no time
bound: instants are kept relative to the present. Three messages
(`memory_turns`), two on one instance and one on the other, make both kinds of
concurrency occur; `MaxTurns` 3 is less than the six turns they append, so the
oldest are cut, in the middle of a pair too; one answer is longer than the
`Budget` of 2 and the other turns are not; two attempts are a first and a last
one; one reset falls on any point of any transaction.

Two messages (`ticket_submission`): the second is answered with a history and
rewritten from it, and what the first left in memory and buttons meets it. Three
traits a message (`MaxTraits`) are two alarms and the exclusion of one, or two
kinds of data and an alarm: everything that the order of the chain tells apart
pairwise. A notification is dealt with before the next message is written. The
samples are opened before the first message, "Create Ticket" after the last, and a
dry run is tried without Gemini, since these do not depend on each other. The user
fills in what is required and blank and changes one more widget at most. Two
retries have a first, a repeated and a last attempt (`ticket_notification` has the
default of three).

Three chunks (`knowledge_base`) are two batches, the second not full, and one
chunk above the ceiling of the removal, which two sweeps reach; two versions let
a shorter or longer file replace one, with a removal or a failure in between.
Three of the four datapoints are found, so that two of them are of one article
and the order of the sources matters. Documents have up to five items: a heading,
text above and below it and the tags that close them; or a short section with a
glued list item, and a heading and a long line below it. With a target of nine
characters and items of 1, 3 and 10 there are texts that fit together, that just
fail to because of the space, and that must be cut (headings, which have 60
characters at most in the code, and words with a bullet are never that long); with `MinSection` 6 two of the
shorter items may be folded into the next section or not, as a space and a bullet
more decide. The two halves of `MCKnowledgeBase` have no state in common, and each is
explored from the initial state of the other.

**Fairness.** `sync_nightly`: a nightly run starts again and again (Cloud
Scheduler fires every night; strong, because an operator's run may be in the
way at any one moment); a run that is going takes its next step (every call in
it has a timeout); an article outside `Broken` that is fetched again and again
is fetched at last (errors are transient). Nothing obliges editors, operators
or crashes. `client_rate`: time passes and the event loop runs what is ready;
httpx ends every request by a timeout. `memory_turns`: each handler goes on when
its instance's loop stays free for it, because every call in it has a timeout;
no exception, reset or crash is counted on. `ticket_submission`: the handler goes
on, since httpx ends every request by a timeout; Freshservice need not answer; a
message's handler (`ChatHandler`) and the background task (`SendNotice`) go on, as
their calls have timeouts, and only the timeouts of the classifiers and the
analysis are counted on, not their answers. `knowledge_base`: what was written to
the index can be queried in the end (`manual_ingest.py` tells the operator to give
it about a minute); no command and no question is counted on.

## 4. What is proved

For any set of articles, messages or instances, any bounds and any number of job
executions, coroutines or retries, from the named assumptions on the constants
(`ConstantsAssumption`, `ClientAssumption`, `MemoryAssumption`,
`RetriesAssumption`, `KnowledgeAssumption`, `ChatAssumption`,
`ChunkingAssumption`):

| Theorem | Under | States |
|---|---|---|
| `TypeCorrect` | - | `Spec => []TypeOK` |
| `RunInvariant` | runs do not overlap | `Spec => []RunInv` |
| `NothingRegresses` | runs do not overlap | no datapoint or text is replaced by an older one |
| `WatermarkStaysBehind` | runs do not overlap | the watermark never moves back nor past a run's start |
| `RetryIsNotForgotten` | runs do not overlap | an id leaves the retry list only when fetched |
| `SyncInvariant`, `NoEditIsLost` | `SafeDeployment` | `Spec => []SyncInv`, `Spec => []NoLostUpdate` |
| `ClientTypes` | - | `Spec => []TypeOK` |
| `LimiterInvariant` | `Drain >= 2` | `Spec => []LimiterInv` |
| `AtMostTwiceTheRate` | `Drain >= 2` | `Spec => []WithinRate` |
| `MemoryInvariant`, `MemoryTypes` | - | `Spec => []MemoryInv`, `Spec => []TypeOK` |
| `ImplementsSessionMemory` | - | `Spec => KeepsWhatWasSaid` |
| `HistoryIsTheNewest` | - | `Spec => HistoryIsNewest` |
| `PairInvariant`, `PairsAreUnbroken` | - | `Spec => []PairInv`, `Spec => []PairsUnbroken` |
| `SubmissionInvariant`, `SubmissionTypes` | - | `Spec => []SubmissionInv`, `Spec => []TypeOK` |
| `TicketsAreAccountedFor` | - | `Spec => []TicketsAccountedFor` |
| `ChatInvariant`, `ChatTypes` | - | `ChatSpec => []ChatInv`, `ChatSpec => []ChatTypeOK` |
| `KnownPiiIsKeptOut` | - | `ChatSpec => []KnownPiiStaysOut` |
| `TheLoudestAlarmWins` | - | `ChatSpec => LoudestAlarmWins` |
| `SafetyReferralIsKept` | - | `ChatSpec => SafetyReferralKept` |
| `WriterInvariant` | - | `KnowledgeSpec => []WriterInv` |
| `IngestIsComplete`, `RemovalIsComplete` | - | `KnowledgeSpec => []IngestComplete`, `KnowledgeSpec => []RemovedIsGone` |
| `LinksAreCited` | - | `KnowledgeSpec => []LinksMatchMarkers` |
| `KnowledgeInvariant`, `KnowledgeTypes` | - | `KnowledgeSpec => []KnowledgeInv`, `KnowledgeSpec => []KnowledgeTypeOK` |
| `RemovedFilesAreNotCited` | - | `KnowledgeSpec => RemovedIsNotCited` |
| `ChunkInvariant`, `EveryChunkFits` | - | `ChunkSpec => []ChunkInv`, `ChunkSpec => []ChunksFit` |
| `NothingIsLost` | - | `ChunkSpec => []NothingLost` |
| `HeadingsAreNearest` | - | `ChunkSpec => []HeadingIsNearest` |
| `SectionsStandApart` | - | `ChunkSpec => []SectionsStayApart` |
| `ConversationInvariant`, `FormTypes` | - | `ServiceSpec => []ConversationInv`, `ServiceSpec => []FormTypeOK` |
| `NothingIsInvented` | - | `ServiceSpec => []NothingInvented` |
| `DetailsBelongToSystems` | - | `ServiceSpec => []DetailBelongsToSystem` |
| `RequiredWidgetsAreEnough` | - | `ServiceSpec => []RequiredWidgetsSuffice` |
| `TicketSeedsAreRedacted` | - | `ServiceSpec => []SeedIsRedacted` |
| `ServiceSubmits`, `ServiceAccountsForTickets` | - | `ServiceSpec => Spec` of `Ticketing`, `ServiceSpec => []TicketsAccountedFor` |
| `ServiceKeepsPiiOut`, `ServiceHeedsAlarms`, `ServiceKeepsReferral` | - | what is proved of `ChatSpec`, of `ServiceSpec` |

**The argument for `NoLostUpdate`.** It is not inductive: that an article is
served or owed says nothing of a run about to move the watermark. `RunInv` holds
the order of things within a run: what it read of the sync state is still
there, its start lies between the watermark and the clock, what it fetched is
newer than both stores and no newer than Document360, and every id of the
retry list is still a target, fetched or lost again. `SyncInv` adds what makes
`WriteWatermark` safe: an article not edited since the run started was fetched
as it still is (`FetchedCurrent`); after the two write phases each of its chunks
is in both stores (`WritesComplete`); and every such article is served already or
is a target, fetched or lost (`EditsRemembered`). Then whatever the new watermark
hides is served, or in `lost`, which `WriteFailed` stores. The three conjuncts of
`SafeDeployment` are needed: the first excludes what `NeverRegresses` and
`MemoryCurrent` rest on, the other two are violated by the runs above.

**The argument for the rate.** `Owing` bounds what may still start at this
moment: while nobody sleeps, `load` and the refilled bucket together are at most
a bucket and a token; while somebody sleeps, the age of the bucket counts
twice, once for the token being waited for and once for the refill that the
next coroutine will count again. With `Drain = 2` a tick takes off `load` what it
adds to that sum.

**The argument for the memory.** Under the refinement a commit is `Say` of the
turn, a reset is `Forget`, and everything else stutters. A commit writes what
its transaction read, with the turn at the end; it is `Say` because a transaction
that is still `open` has read what the document still holds, and because the
handler's `role` says which of its turns have been said. These are the two parts
of `TxnInv`; the second is claimed only of handlers that have not ended, because
one that ends on an unacknowledged commit leaves its `role` behind.

That an answer follows its question is not inductive either: a session says
nothing of the answer that is about to be written to it. `PairInv` adds that of the
handlers of an instance at most one appends, because the last await of another
returns only when the loop is free, and that the session the answer goes to is
empty or ends in its question or in a turn of another instance. Only that other
instance, or a reset, can write in between; the cap cuts off the oldest turns, so
what it leaves has the same neighbours.

**The argument for the tickets.** `TicketsAccountedFor` says nothing of a POST
that is still on its way when its attempt ends. `SubmissionInv` adds that no
attempt beyond the current one has been sent, that the answer on its way is the
one Freshservice decided on, and that every earlier attempt ended unsure, was
refused, or is the one whose number is told: what was refused cannot become a
ticket later.

**The argument for the chain.** Only the check for personal data redacts, and one
guardrail is behind it: so the other six judge the message as the user wrote it, and
so does this one when nothing is redacted (`Judged`). Therefore the first that stops
a message comes no later than any that alone would stop it as it was written
(`ChainRank`), but for a request for HR in a message that is redacted: there it is
what is left that counts, of which `LoudestAlarmWins` says nothing but that no
other alarm is outdone by it. A message that passes was either redacted, which takes
out what both scanners know by whichever it is done (`Redacted`, `Leaves`), or had no
pattern in it (`ChainResults`). `ChatInv` carries that through the handler: a
query is rewritten from the result of the chain and from a history that DLP has
scanned, and an answer is shown and stored after the scan of it. Nothing is
assumed of DLP being there, at any of these moments.

**The argument for the stores.** That a command reports success says nothing of
one that is still going. `WriterInv` adds what each loop has done behind its
position: an upsert all but the rejected datapoints, a sweep all of them. A failed
command leaves anything behind, but it reports a failure, and the next command
starts its loops from the beginning, up to a ceiling that does not depend on the
file: that is why a removal cleans up after every history below the ceiling.

A removed file is not cited for the same reason: after `removed` no chunk of it has a
text, until the next command starts and takes the report back. `ReadTexts` looks at
the store, so what the index still finds makes no source; and a handler that has
not read the texts yet shows nothing (`ReadingInv`).

**The argument for the dialog.** `FormInv` says where the values of a dialog are
from when it opens: every draft made from an analysis has each field given
(`Drafting`, `AnalysisDrafts`), so nothing of the sample shows through, and what
`snap_to_vocabulary` makes of the issue is chosen after the system (`DraftOf`). The
user's edits are the only other source (`SubmitInv`). The composed service steps in
one part at a time, but for the handler of the submission; `ServiceSubmits` and
`ChatStepsApart` turn that into a step of `Ticketing`, of the chat, or neither, and
carry the theorems of the parts over.

**The argument for the history.** `get_recent` walks backwards over the stored
turns and drops a turn, and all before it, when it does not fit. The theorem is by
induction over the position in that walk: after k turns it holds the last j of
them (`Holding`), and j is k or the next turn does not fit. That is stated for a set
of numbers, not for a predicate, which the provers can instantiate (`Recursion`).

**The argument for the chunkers.** Every chunker is a loop over what the one before
it made, so each is followed by induction over its position: `Recursion` says that
for any base and steps there is one function that takes them, and the `...Steps`
lemmas say that it is the one the chunker defines.

No chunk is too long: texts begin and end with a letter and have spaces one at a
time (`Tidy`), a packer never has more than the target in hand (`Packings`), and the
pieces of `chunk_html` are together no longer than the target (`Pending`), so that
with a space between any two they stay below twice the target (`JoinAllFits`).
`ChunkingAssumption` wants a target of at least 2: with 1 a slice could be a lone
space. The code has 3000 and 1400.

Nothing is lost: what a text spells is what is left without its spaces
(`Letters`). It is one case of spreading a sequence out (`Spread`), which goes over
concatenation (`SpreadConcat`) and into itself (`SpreadTwice`); joining, stripping,
cutting, packing and folding keep it, each step of them. For HTML, `Reached` relates
the parser before each event to the document: it is as deep in skipped elements,
and as much in a heading, as tags were opened and not closed, and what it has told
is the text to be read so far. `WellFormed` is used where a closing tag would
otherwise close nothing, and at the end, where text in an open heading is dropped.

The nearest heading of a letter is the last one before it that has a visible text
(`Latest`). `Headed` goes with `Reached`: outside headings, the last heading
told is the nearest for all that is in the buffer, and inside one it is the last
that ended, while the buffer holds what there is of this one. So every segment of
text is from below the heading before it (`Titled`), and so is the buffer of
`chunk_html`, which is flushed at each heading.

For a handbook, the letters of a text are followed with the latest place a heading
may have among them (`Early`): 1 in a section, as a cut has no heading inside a part
(`CutInside`, `EarlyItems`), and `MinSection` after folding, as a text has no more
letters than characters (`FewerLetters`). What a section is split into and packed
again spells what it did (`PackSectionSpells`), so that no letter of a chunk has more
before it than in the section (`EarlyOneByOne`). The bound is on letters: a list item
that is packed again may stand a space further back, and a heading after it, too.
`ChunkingAssumption` wants a minimum above 0, without which there is nothing to say;
the code has 30.

**Only model-checked.** `EventuallyServed`, `EveryCallEnds`, `EveryMessageEnds`,
`EverySubmissionEnds`, `EmergenciesAreReported`, `EveryMessageIsAnswered`,
`EveryClickEnds` and `IngestedIsServed` (liveness under fairness is out of the
prover's reach); and all violations. Every safety property, invariant or action
property, of every passing run is a theorem.

## 5. What the code does that its documents do not say

The findings in `PROJECT.json` have a run each. Modelling met more, which the
models follow without a run of their own:

* The response to a user in distress says that HR has been notified
  (`mental_health.py:109`); the categories sent to the webhook (`main.py:221`) do not
  include `MENTAL_HEALTH`. `EmergenciesAreReported` is about OSHA emergencies.
* `chain.py:11` and `dlp.py:4` have personal data taken out before a text goes to
  Gemini. The Fair Housing classifier runs before the redaction, topic detection
  gets the original text (`main.py:255`), and the text of a Fair Housing block is
  embedded as it is (`main.py:235`). `KnownPiiStaysOut` covers the rest.
* `chain.py:7` puts a request for HR above the redaction. The chain redacts first and
  looks for the request in what is left (`chain.py:71,93`): a message that asks to
  email HR at an address, and holds a card number, is redacted and answered
  (`Alarm` exempts it).
* A repeated question and an unhappy user are only logged: no verdict of tier 2 or
  3 but the request for HR changes the reply. FCRA is no entry of the chain.
* `intent._parse` and `ticket_analysis._parse` say that they never raise, and do on
  JSON that is no object (`IntentRaised`, `ClickFails`).
* Two patterns of `osha.py:23-24` lack a comma between them and match only one after
  the other.
* `chunk_html` drops text inside a heading when a block ends in it, and all that
  follows an unclosed heading (hence `WellFormed`). Its chunks reach up to twice the
  target less one, as spaces between pieces are not counted (`ChunksFit`). The
  chunker by section takes a line of the body that ends in a number for one of a
  table of contents. It puts a space before a list item that had none, so that a
  heading may stand further back than the minimum length of a section and a space
  (`SectionsStayApart` counts letters).
* Sources are numbered before links are deduplicated: an answer that cites only
  the second source of an article, [2], shows no link with that number, and the
  links are then those of all sources (`LinksMatchMarkers` says what does hold).
* A file put in again with fewer chunks keeps the tail of the old one;
  `IngestComplete` speaks of the chunks it has. Datapoints above the ceiling of the
  removal stay in the index, without a text (`RemovedIsGone`).
* The sample and structured buttons open dialogs that hold a sample person's data
  (`NothingInvented` is about dialogs made from a conversation). "Other" is offered by
  some systems only, and the issues offered do not follow a change of the system.
* The "Create Ticket" button stays in the chat: a second click makes a second
  ticket.

## 6. Not modelled yet, and the plan

Overlapping runs are expressible (`Overlap`) but no property is claimed of them.
What comes next:

1. An abstract replica of the published articles, which `SyncJob` implements in
   the safe deployment.
2. `ChatTurn` over `ConversationMemory`, in place of its single step `chain`.

Not modelled, and why: the wording of patterns and prompts, markup and the
conversion of text (`text.py`), logging; settings, secrets and deployment files,
which only justify assumptions; the Gmail client, `fcra.py`, `lookup_requester`,
`to_payload` and `build_prefill_draft`, which nothing calls; the scaffold of a sync
service; the evaluation harness and the exploration scripts, which are tools of
the developers, run by hand, and keep no state.
