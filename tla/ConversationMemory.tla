------------------------- MODULE ConversationMemory -------------------------
(***************************************************************************)
(* The memory of the chat service (shared/molli_shared/                    *)
(* conversation_store.py) under the handlers that use it: `chat_event` of  *)
(* chat-service/app/main.py for messages and for the reset button.         *)
(*                                                                         *)
(* A message is one handler, a coroutine of one service instance; there    *)
(* may be several instances.  Between its awaits a handler has the event   *)
(* loop for itself, and the store's client blocks: from the last await to  *)
(* the reply, both turns are appended while nothing else runs on the       *)
(* instance.  Other instances do not wait.                                 *)
(*                                                                         *)
(* A turn is appended by a Firestore transaction that reads the session's  *)
(* document and writes it whole.  A commit fails, and the transaction is   *)
(* tried again, when the document was written since it was read.           *)
(***************************************************************************)
EXTENDS Naturals, Sequences

CONSTANTS
    Messages,     \* messages that are sent, each once
    Instances,    \* instances of the service
    On,           \* the instance that handles each message
    Space,        \* the Google Chat space of each message
    Classic,      \* whether events have the classic envelope
    MaxTurns,     \* _MAX_STORED_TURNS
    Budget,       \* char_budget
    Length,       \* what the text of each <<message, role>> counts in it
    MaxAttempts,  \* attempts of a Firestore transaction
    MaxResets     \* clicks on the reset button (bound)

ASSUME MemoryAssumption ==
    /\ On \in [Messages -> Instances]
    /\ Classic \in BOOLEAN
    /\ MaxTurns \in Nat \ {0}
    /\ Budget \in Nat
    /\ Length \in [Messages \X {"user", "molli"} -> Nat \ {0}]
    /\ MaxAttempts \in Nat \ {0}
    /\ MaxResets \in Nat

Spaces == {Space[m] : m \in Messages}

\* Mutation of KeyOf: one session per deployment.
KeyOfNothing(space) == "unknown"

\* The session of a space.  Only the classic envelope has the space at the
\* level where the handlers look for it.
KeyOf(space) == IF Classic THEN space ELSE "unknown"

Key(m) == KeyOf(Space[m])
Keys == {Key(m) : m \in Messages}

Roles == {"user", "molli"}
Texts == {"redacted", "placeholder"}
Turns == [of : Messages, role : Roles, text : Texts]

VARIABLES
    doc,       \* turns in the document of each session; <<>>: no document
    pc,        \* where the handler of each message is
    history,   \* what get_recent returned to it
    role,      \* the turn it is appending
    open,      \* its transaction: none, open, or stale (written over since)
    snap,      \* what its transaction read
    tries,     \* attempts of its transaction
    resets,    \* resets so far
    committed  \* history: turns written so far, as <<message, role>>

txn == <<role, open, snap, tries>>
vars == <<doc, pc, history, txn, resets, committed>>

Ended == {"blocked", "replied", "error"}
Running == {"chain", "answering", "append"}

Init ==
    /\ doc = [k \in Keys |-> <<>>]
    /\ pc = [m \in Messages |-> "unsent"]
    /\ history = [m \in Messages |-> <<>>]
    /\ role = [m \in Messages |-> "user"]
    /\ open = [m \in Messages |-> "no"]
    /\ snap = [m \in Messages |-> <<>>]
    /\ tries = [m \in Messages |-> 0]
    /\ resets = 0
    /\ committed = {}

\* Mutation of Busy: the client does not block.
NeverBusy(i) == FALSE

\* A handler of the instance is between its last await and its reply.
Busy(i) == \E m \in Messages : On[m] = i /\ pc[m] = "append"

Free(m) == ~Busy(On[m])

\* The handler of m returns; what it remembers goes.
EndsAt(m, place) ==
    /\ pc' = [pc EXCEPT ![m] = place]
    /\ history' = [history EXCEPT ![m] = <<>>]

CloseTxn(m) ==
    /\ open' = [open EXCEPT ![m] = "no"]
    /\ snap' = [snap EXCEPT ![m] = <<>>]

(***************************************************************************)
(* The handler of a message, up to its last await.                         *)
(***************************************************************************)

Receive(m) ==
    /\ pc[m] = "unsent" /\ Free(m)
    /\ pc' = [pc EXCEPT ![m] = "chain"]
    /\ UNCHANGED <<doc, history, txn, resets, committed>>

\* The guardrails answer instead: the memory is neither read nor written.
Blocked(m) ==
    /\ pc[m] = "chain" /\ Free(m)
    /\ EndsAt(m, "blocked")
    /\ UNCHANGED <<doc, txn, resets, committed>>

\* What a turn counts in the budget.
Cost(t) == IF t.text = "placeholder" THEN 1 ELSE Length[<<t.of, t.role>>]

\* One step of get_recent, which walks from the newest turn to the oldest.
Keep(t, acc) ==
    IF acc.full \/ (acc.used + Cost(t) > Budget /\ acc.kept # <<>>)
    THEN [acc EXCEPT !.full = TRUE]
    ELSE [acc EXCEPT !.kept = <<t>> \o @, !.used = @ + Cost(t)]

NoneKept == [kept |-> <<>>, used |-> 0, full |-> FALSE]

\* Mutation of Recent: a turn that is too long is left out, older ones are not.
RecentWithGaps(turns) ==
    LET walk[k \in 0 .. Len(turns)] ==
            IF k = 0 THEN NoneKept
            ELSE [Keep(turns[Len(turns) - k + 1], walk[k - 1]) EXCEPT !.full = FALSE]
    IN  walk[Len(turns)].kept

Recent(turns) ==
    LET walk[k \in 0 .. Len(turns)] ==
            IF k = 0 THEN NoneKept ELSE Keep(turns[Len(turns) - k + 1], walk[k - 1])
    IN  walk[Len(turns)].kept

ReadHistory(m) ==
    /\ pc[m] = "chain" /\ Free(m)
    /\ history' = [history EXCEPT ![m] = Recent(doc[Key(m)])]
    /\ pc' = [pc EXCEPT ![m] = "answering"]
    /\ UNCHANGED <<doc, txn, resets, committed>>

\* An exception before the memory is written: from get_recent, or from the
\* rewriting, retrieval and generation of the answer.
Fails(m) ==
    /\ pc[m] \in {"chain", "answering"} /\ Free(m)
    /\ EndsAt(m, "error")
    /\ UNCHANGED <<doc, txn, resets, committed>>

\* The last await returns.
Answered(m) ==
    /\ pc[m] = "answering" /\ Free(m)
    /\ pc' = [pc EXCEPT ![m] = "append"]
    /\ UNCHANGED <<doc, history, txn, resets, committed>>

(***************************************************************************)
(* append_turn, for the question and then for the answer.                  *)
(***************************************************************************)

OpenTxn(m) ==
    /\ pc[m] = "append" /\ open[m] = "no"
    /\ open' = [open EXCEPT ![m] = "open"]
    /\ snap' = [snap EXCEPT ![m] = doc[Key(m)]]
    /\ tries' = [tries EXCEPT ![m] = @ + 1]
    /\ UNCHANGED <<doc, pc, history, role, resets, committed>>

\* What DLPScanner.scan may return; it fails open.
Scans == {[text |-> "redacted", skipped |-> FALSE],
          [text |-> "raw", skipped |-> TRUE]}

\* Mutation of Stored: what the scanner returned is stored as it is.
StoredUnscanned(scan) == scan.text

Stored(scan) == IF scan.skipped THEN "placeholder" ELSE scan.text

\* Mutation of Trimmed: the cap is checked before the turn is appended.
TrimmedTooEarly(turns) ==
    IF Len(turns) <= MaxTurns + 1 THEN turns
    ELSE SubSeq(turns, Len(turns) - MaxTurns + 1, Len(turns))

Trimmed(turns) ==
    IF Len(turns) <= MaxTurns THEN turns
    ELSE SubSeq(turns, Len(turns) - MaxTurns + 1, Len(turns))

\* Transactions that have read the document of k, once it is written.
Outdated(k) ==
    [m \in Messages |-> IF open[m] = "open" /\ Key(m) = k THEN "stale" ELSE open[m]]

\* The turn of m is in the document.
WriteTurn(m) ==
    /\ \E scan \in Scans :
          doc' = [doc EXCEPT ![Key(m)] =
                    Trimmed(Append(snap[m], [of |-> m, role |-> role[m],
                                             text |-> Stored(scan)]))]
    /\ open' = [Outdated(Key(m)) EXCEPT ![m] = "no"]
    /\ snap' = [snap EXCEPT ![m] = <<>>]
    /\ tries' = [tries EXCEPT ![m] = 0]
    /\ committed' = committed \cup {<<m, role[m]>>}

\* The question is appended first, then the answer; then the reply is sent.
NextTurn(m) ==
    IF role[m] = "user"
    THEN role' = [role EXCEPT ![m] = "molli"] /\ UNCHANGED <<pc, history>>
    ELSE EndsAt(m, "replied") /\ UNCHANGED role

\* Mutation of Commit: read and write without a transaction.
CommitAnyway(m) ==
    /\ pc[m] = "append" /\ open[m] # "no"
    /\ WriteTurn(m)
    /\ NextTurn(m)
    /\ UNCHANGED <<resets>>

Commit(m) ==
    /\ pc[m] = "append" /\ open[m] = "open"
    /\ WriteTurn(m)
    /\ NextTurn(m)
    /\ UNCHANGED <<resets>>

\* The commit took place, but its answer is lost: an exception, after which
\* the handler appends nothing more.
CommitUnacknowledged(m) ==
    /\ pc[m] = "append" /\ open[m] = "open"
    /\ WriteTurn(m)
    /\ EndsAt(m, "replied")
    /\ UNCHANGED <<role, resets>>

\* Mutation of Abort: the commit is tried again, of what was read before.
AbortWithoutReading(m) ==
    /\ pc[m] = "append" /\ open[m] = "stale"
    /\ UNCHANGED vars

\* The commit is refused.  It is tried again as long as attempts are left.
Abort(m) ==
    /\ pc[m] = "append" /\ open[m] = "stale"
    /\ tries[m] < MaxAttempts
    /\ CloseTxn(m)
    /\ UNCHANGED <<doc, pc, history, role, tries, resets, committed>>

\* An exception leaves append_turn: the rest is not appended, and the reply is
\* sent all the same.
Caught(m) ==
    /\ CloseTxn(m)
    /\ tries' = [tries EXCEPT ![m] = 0]
    /\ EndsAt(m, "replied")
    /\ UNCHANGED <<doc, role, resets, committed>>

\* The last attempt is refused.
GiveUp(m) ==
    /\ pc[m] = "append" /\ open[m] = "stale"
    /\ tries[m] = MaxAttempts
    /\ Caught(m)

\* Firestore cannot be reached, or does not answer in time.
AppendFails(m) ==
    /\ pc[m] = "append"
    /\ Caught(m)

(***************************************************************************)
(* The reset button, and the end of an instance.                           *)
(***************************************************************************)

\* A click in `space`; an instance handles it that is not busy.
Reset(space) ==
    /\ resets < MaxResets
    /\ \E i \in Instances : ~Busy(i)
    /\ resets' = resets + 1
    /\ doc' = [doc EXCEPT ![KeyOf(space)] = <<>>]
    /\ open' = Outdated(KeyOf(space))
    /\ UNCHANGED <<pc, history, role, snap, tries, committed>>

\* An instance dies with its handlers.
Dying(i) == {m \in Messages : On[m] = i /\ pc[m] \in Running}

Crash(i) ==
    /\ Dying(i) # {}
    /\ pc' = [m \in Messages |-> IF m \in Dying(i) THEN "error" ELSE pc[m]]
    /\ history' = [m \in Messages |-> IF m \in Dying(i) THEN <<>> ELSE history[m]]
    /\ open' = [m \in Messages |-> IF m \in Dying(i) THEN "no" ELSE open[m]]
    /\ snap' = [m \in Messages |-> IF m \in Dying(i) THEN <<>> ELSE snap[m]]
    /\ tries' = [m \in Messages |-> IF m \in Dying(i) THEN 0 ELSE tries[m]]
    /\ UNCHANGED <<doc, role, resets, committed>>

\* What the handler of m does of itself, and what may happen to it.
Step(m) ==
    \/ Blocked(m) \/ ReadHistory(m) \/ Answered(m)
    \/ OpenTxn(m) \/ Commit(m) \/ Abort(m) \/ GiveUp(m)

Exception(m) == Fails(m) \/ CommitUnacknowledged(m) \/ AppendFails(m)

Next ==
    \/ \E m \in Messages : Receive(m) \/ Step(m) \/ Exception(m)
    \/ \E space \in Spaces : Reset(space)
    \/ \E i \in Instances : Crash(i)

Spec == Init /\ [][Next]_vars

\* A handler goes on when the loop of its instance stays free for it, and
\* when it keeps the loop: every call in it has a timeout.  No exception is
\* counted on.
FairSpec == Spec /\ \A m \in Messages : WF_vars(Step(m))

(***************************************************************************)
(* Properties.                                                             *)
(***************************************************************************)

\* Every variable has its type; in particular what is stored of a turn is
\* what DLP redacted or a placeholder, whether DLP was reachable or not.
TypeOK ==
    /\ doc \in [Keys -> Seq(Turns)]
    /\ pc \in [Messages -> {"unsent"} \cup Running \cup Ended]
    /\ history \in [Messages -> Seq(Turns)]
    /\ role \in [Messages -> Roles]
    /\ open \in [Messages -> {"no", "open", "stale"}]
    /\ snap \in [Messages -> Seq(Turns)]
    /\ tries \in [Messages -> 0 .. MaxAttempts]
    /\ resets \in 0 .. MaxResets
    /\ committed \subseteq Messages \X Roles

\* The newest turns of a session in their order, each once, a question before
\* its answer, nothing after a reset of what was before: what interleaved
\* transactions of several instances add up to is one append after the other.
Memory == INSTANCE SessionMemory WITH
              Sessions <- Keys, Session <- [m \in Messages |-> Key(m)],
              turns <- doc, said <- committed

KeepsWhatWasSaid == Memory!Spec

\* A message is answered with turns of its own space only: the session key
\* is "stable across a user's turns" and "effectively per-user".
OwnSpaceOnly ==
    \A m \in Messages : \A i \in 1 .. Len(history[m]) :
        Space[history[m][i].of] = Space[m]

\* What the turns of s count together, by position.
Total(s) ==
    LET upto[k \in 0 .. Len(s)] == IF k = 0 THEN 0 ELSE upto[k - 1] + Cost(s[k])
    IN  upto[Len(s)]

\* `recent` is the longest end of `turns` within the budget, and at least the
\* newest turn.
NewestWithinBudget(recent, turns) ==
    LET n == Len(recent)
        End(k) == SubSeq(turns, Len(turns) - k + 1, Len(turns)) IN
    /\ n <= Len(turns)
    /\ recent = End(n)
    /\ turns # <<>> => n > 0 /\ (n = 1 \/ Total(recent) <= Budget)
    /\ n < Len(turns) => Total(End(n + 1)) > Budget

\* What a message is answered with has no gaps and is as much as the budget
\* allows, whichever turns of the session are long.
HistoryIsNewest ==
    [][\A m \in Messages : pc[m] = "chain" /\ pc'[m] = "answering" =>
          NewestWithinBudget(history'[m], doc[Key(m)])]_vars

\* What may stand before the answer to m: its question, or a turn of another
\* instance.
MayPrecede(turn, m) == (turn.of = m /\ turn.role = "user") \/ On[turn.of] # On[m]

\* The question and the answer of a message are not separated by a turn of
\* the same instance, whose handlers take turns at their awaits only.
PairsUnbroken ==
    \A k \in Keys : \A i \in 2 .. Len(doc[k]) :
        doc[k][i].role = "molli" => MayPrecede(doc[k][i - 1], doc[k][i].of)

\* Every message is answered or fails: no transaction is retried for ever,
\* and no handler keeps the loop.
EveryMessageEnds == \A m \in Messages : pc[m] = "chain" ~> pc[m] \in Ended

(***************************************************************************)
(* The invariant behind KeepsWhatWasSaid.                                  *)
(***************************************************************************)

\* An open transaction has read what is in the document still, and the turn
\* that is next is not written yet, nor its question missing.
TxnInv ==
    \A m \in Messages :
        /\ open[m] = "open" => snap[m] = doc[Key(m)]
        /\ open[m] = "no" => tries[m] < MaxAttempts
        /\ pc[m] \notin Ended =>
              /\ <<m, "molli">> \notin committed
              /\ <<m, "user">> \in committed <=> role[m] = "molli"

MemoryInv == TypeOK /\ TxnInv
=============================================================================
