------------------------------ MODULE ChatTurn ------------------------------
(***************************************************************************)
(* The chat service between a user's message and the reply: the branch     *)
(* MESSAGE of `chat_event` in chat-service/app/main.py with the guardrail  *)
(* chain, the classifiers, the answer from the knowledge base, the output  *)
(* scan and the conversation memory; and the buttons of a reply that act   *)
(* on the memory.                                                          *)
(*                                                                         *)
(* One user writes one message after the other, to one instance.  (What    *)
(* concurrent messages do to the memory is in ConversationMemory.)  Within *)
(* the handler two tasks run beside it: topic detection and intent         *)
(* classification.  They get on only while the handler awaits something,   *)
(* since retrieval, generation and memory are blocking calls.              *)
(*                                                                         *)
(* Of a text the model keeps the kinds of personal data that are in it;    *)
(* "words" stands for the rest of a remembered conversation.               *)
(***************************************************************************)
EXTENDS GuardrailChain, FiniteSetsExt

CONSTANTS
    MaxMessages,   \* messages that the user writes (bound)
    MaxTraits      \* signals and kinds of data in one message (bound)

ASSUME ChatAssumption == MaxMessages \in Nat /\ MaxTraits \in Nat

Texts == [signals : SUBSET Signals, pii : SUBSET Kinds]

\* An exclusion does something only beside the signal that it excludes.
Matters(traits) ==
    /\ "figurative" \in traits => "distress" \in traits
    /\ "pastOrDrill" \in traits => "emergency" \in traits
    /\ "lawful" \in traits => "protected" \in traits
    /\ "policy" \in traits => "disclosure" \in traits
    /\ "ownCase" \in traits => "thirdParty" \in traits
    /\ "entirely" \in traits => traits \cap PatternKinds # {}
    /\ "nevermind" \in traits => "hr" \in traits

\* The messages that are tried: every set of at most MaxTraits traits.
Messages ==
    {[signals |-> t \cap Signals, pii |-> t \cap Kinds] :
        t \in {s \in UNION {kSubset(n, Signals \cup Kinds) : n \in 0 .. MaxTraits} :
                  Matters(s)}}

NoText == [signals |-> {}, pii |-> {}]
NoResult == [action |-> "allow", category |-> "CHAIN", pii |-> {}, suffix |-> FALSE]
NoReply == [from |-> "none", pii |-> {}, suffix |-> FALSE, reset |-> FALSE]

VARIABLES
    gemini,    \* the setting use_gemini
    webhook,   \* whether hr_escalation_webhook_url is set
    sent,      \* messages so far
    at,        \* where the handler of the last message is
    message,   \* its text, until the chain has judged it
    raw,       \* user_text: the personal data in it
    result,    \* chain_result
    history,   \* _history: what get_recent returned
    topic,     \* _topic_task
    intent,    \* _intent_task
    query,     \* gemini_query
    reply,     \* reply_text, and where it is from
    shown,     \* the last reply the user got
    memory,    \* what is in the turns of the session
    buttons,   \* ticket seeds of the "Create Ticket" buttons in the chat
    prompted,  \* whether there are buttons to clear or keep the history
    notice,    \* the webhook notification about the last message
    referral   \* history: the message asks for a safety referral

settings == <<gemini, webhook>>
tasks == <<topic, intent>>
cards == <<shown, buttons, prompted>>
chatVars == <<settings, sent, at, message, raw, result, history, tasks, query,
              reply, cards, memory, notice, referral>>

ChatInit ==
    /\ gemini \in BOOLEAN /\ webhook \in BOOLEAN
    /\ sent = 0 /\ at = "idle"
    /\ message = NoText /\ raw = {} /\ result = NoResult
    /\ history = {} /\ topic = "none" /\ intent = "none" /\ query = {}
    /\ reply = NoReply /\ shown = NoReply
    /\ memory = {} /\ buttons = {} /\ prompted = FALSE
    /\ notice = "none"
    /\ referral = FALSE

\* The handler returns; its variables go.
Returns(answer) ==
    /\ at' = "idle"
    /\ shown' = answer
    /\ message' = NoText /\ raw' = {} /\ result' = NoResult
    /\ history' = {} /\ topic' = "none" /\ intent' = "none" /\ query' = {}
    /\ reply' = NoReply /\ referral' = FALSE

\* An exception leaves the handler: Google Chat reports an error.
Raises ==
    /\ Returns([NoReply EXCEPT !.from = "error"])
    /\ UNCHANGED <<settings, sent, buttons, prompted, memory, notice>>

(***************************************************************************)
(* The chain, and the messages that it stops.                              *)
(***************************************************************************)

\* The next message is written when the notification about the last one has
\* been dealt with (bound).
Receive ==
    /\ at = "idle" /\ sent < MaxMessages /\ notice # "owed"
    /\ at' = "received"
    /\ sent' = sent + 1
    /\ message' \in Messages
    /\ raw' = message'.pii
    /\ referral' = ("safety" \in message'.signals /\ ~Emergency(message'))
    /\ shown' = NoReply /\ notice' = "none"
    /\ UNCHANGED <<settings, result, history, tasks, query, reply, buttons,
                   prompted, memory>>

Judge ==
    /\ at = "received"
    /\ \E fha \in IF gemini THEN Topics ELSE {"NONE"}, dlp \in BOOLEAN :
          \E redacted \in Redactions(message, dlp) :
             result' = RunChain(message, fha, redacted)
    /\ at' = IF ShouldCallGemini(result') THEN "passed" ELSE "stopped"
    /\ message' = NoText
    /\ UNCHANGED <<settings, sent, raw, history, tasks, query, reply, cards,
                   memory, notice, referral>>

\* Mutation of Notified: of the safety emergencies nobody is told.
NotifiedOfPeople == {"HR_LEGAL", "ESCALATION_HR"}

\* The categories whose escalation is sent to the webhook.
Notified == {"OSHA", "HR_LEGAL", "ESCALATION_HR"}

\* The canned response, for a Fair Housing block with links to articles: they
\* are searched for, in vain when anything fails, with the raw text.
Stopped ==
    /\ at = "stopped"
    /\ notice' =
          IF result.action = "escalate" /\ result.category \in Notified /\ webhook
          THEN "owed" ELSE notice
    /\ Returns([NoReply EXCEPT !.from = "canned"])
    /\ UNCHANGED <<settings, sent, buttons, prompted, memory>>

\* _send_webhook_notification, after the response; it raises nothing.
SendNotice ==
    /\ notice = "owed"
    /\ notice' \in {"sent", "failed"}
    /\ UNCHANGED <<settings, sent, at, message, raw, result, history, tasks,
                   query, reply, cards, memory, referral>>

(***************************************************************************)
(* Answering.                                                              *)
(***************************************************************************)

Placeholder ==
    /\ at = "passed" /\ ~gemini
    /\ reply' = [NoReply EXCEPT !.from = "placeholder"]
    /\ at' = "replying"
    /\ UNCHANGED <<settings, sent, message, raw, result, history, tasks, query,
                   cards, memory, notice, referral>>

\* What get_recent may return: the newest turns, older ones not.
RecentTurns ==
    IF memory = {} THEN {{}} ELSE {h \in SUBSET memory : "words" \in h}

\* Both tasks start; topic detection is at its end if there is no history.
ReadHistory ==
    /\ at = "passed" /\ gemini
    /\ history' \in RecentTurns
    /\ topic' = IF history' = {} THEN "same" ELSE "running"
    /\ intent' = "running"
    /\ query' = result.pii
    /\ at' = "rewriting"
    /\ UNCHANGED <<settings, sent, message, raw, result, reply, cards, memory,
                   notice, referral>>

HistoryUnavailable ==
    /\ at = "passed" /\ gemini
    /\ Raises

\* The handler awaits something: the tasks get on.
Awaiting == at \in {"rewriting", "classifying", "topic"}

\* detect_topic_change gets the text as the user wrote it.
TopicEnds(ends) ==
    /\ Awaiting /\ topic = "running"
    /\ topic' \in ends
    /\ UNCHANGED <<settings, sent, at, message, raw, result, history, intent,
                   query, reply, cards, memory, notice, referral>>

TopicAnswers == TopicEnds({"new", "same"})

\* Mutation of TopicTimesOut: no timeout.
TopicWaits == FALSE

\* The timeout of 1.5 s, or an error.
TopicTimesOut == TopicEnds({"same"})

\* classify_intent gets the redacted text.  Whatever it finds is not used.  An
\* answer that is JSON and no object makes `_parse` raise.
IntentEnds(ends) ==
    /\ Awaiting /\ intent = "running"
    /\ intent' \in ends
    /\ UNCHANGED <<settings, sent, at, message, raw, result, history, topic,
                   query, reply, cards, memory, notice, referral>>

IntentAnswers == IntentEnds({"known", "raised"})
IntentTimesOut == IntentEnds({"known"})

\* rewrite_followup: without a history, after two seconds, on an error or an
\* empty answer it is the query as it was.
Rewrite ==
    /\ at = "rewriting"
    /\ query' \in {query} \cup
          (IF history = {} THEN {} ELSE SUBSET (query \cup (history \cap Kinds)))
    /\ at' = "classifying"
    /\ UNCHANGED <<settings, sent, message, raw, result, history, tasks, reply,
                   cards, memory, notice, referral>>

AwaitIntent ==
    /\ at = "classifying" /\ intent = "known"
    /\ at' = "answering"
    /\ UNCHANGED <<settings, sent, message, raw, result, history, tasks, query,
                   reply, cards, memory, notice, referral>>

IntentRaised ==
    /\ at = "classifying" /\ intent = "raised"
    /\ Raises

\* answer_with_citations never raises: an answer, with whatever the articles
\* say in it; an apology when a part fails; or no context.  See KnowledgeBase.
Answer ==
    /\ at = "answering"
    /\ \/ /\ \E pii \in SUBSET Kinds :
                reply' = [NoReply EXCEPT !.from = "rag", !.pii = pii]
          /\ at' = "scanning"
       \/ /\ reply' = [NoReply EXCEPT !.from = "fallback"]
          /\ at' = "scanning"
       \/ /\ reply' = [NoReply EXCEPT !.from = "noContext"]
          /\ at' = "general"
    /\ UNCHANGED <<settings, sent, message, raw, result, history, tasks, query,
                   cards, memory, notice, referral>>

\* ask_gemini without sources.  An answer that only points to Freshservice or
\* Preiss Central, the fallback among them, is replaced by the no-context text.
General ==
    /\ at = "general"
    /\ \/ \E pii \in SUBSET Kinds :
             reply' = [NoReply EXCEPT !.from = "general", !.pii = pii]
       \/ UNCHANGED reply
    /\ at' = "scanning"
    /\ UNCHANGED <<settings, sent, message, raw, result, history, tasks, query,
                   cards, memory, notice, referral>>

Scan ==
    /\ at = "scanning"
    /\ \E dlp \in BOOLEAN : reply' = [reply EXCEPT !.pii = ScanOutput(@, dlp)]
    /\ at' = "topic"
    /\ UNCHANGED <<settings, sent, message, raw, result, history, tasks, query,
                   cards, memory, notice, referral>>

AwaitTopic ==
    /\ at = "topic" /\ topic # "running"
    /\ at' = "append"
    /\ UNCHANGED <<settings, sent, message, raw, result, history, tasks, query,
                   reply, cards, memory, notice, referral>>

\* What append_turn makes of a text: redacted by DLP, or the placeholder.
Stored(kinds, dlp) == {"words"} \cup IF dlp THEN DlpRedacts(kinds) ELSE {}

\* Mutation of Remembered: what DLP did not scan is stored as it is.
RememberedUnscanned(kinds) == {{"words"} \cup DlpRedacts(kinds), {"words"} \cup kinds}

Remembered(kinds) == {Stored(kinds, dlp) : dlp \in BOOLEAN}

\* The question as the user wrote it, then the reply: both, the question only,
\* or nothing, when an exception is caught.
AppendTurns ==
    /\ at = "append"
    /\ \/ UNCHANGED memory
       \/ \E question \in Remembered(raw) : memory' = memory \cup question
       \/ \E question \in Remembered(raw), said \in Remembered(reply.pii) :
             memory' = memory \cup question \cup said
    /\ at' = "replying"
    /\ UNCHANGED <<settings, sent, message, raw, result, history, tasks, query,
                   reply, cards, notice, referral>>

\* Mutation of TicketSeed: the text as the user wrote it.
TicketSeedRaw == raw

\* ticket_seed = chain_result.message_to_gemini or user_text: a message that
\* passed the chain is not empty.
TicketSeed == result.pii

\* Mutation of Suffix: an answer without context has its own advice.
SuffixOfSources == result.suffix /\ reply.from # "noContext"

Suffix == result.suffix

\* answer_card: below the text stand the buttons to clear or keep the history.
AnswerCard == [reply EXCEPT !.suffix = Suffix, !.reset = (topic = "new")]

\* show_ticket_button: retrieval had no context.
OffersTicket == reply.from \in {"noContext", "general"}

Reply ==
    /\ at = "replying"
    /\ buttons' = IF OffersTicket THEN buttons \cup {TicketSeed} ELSE buttons
    /\ prompted' = (prompted \/ topic = "new")
    /\ Returns(AnswerCard)
    /\ UNCHANGED <<settings, sent, memory, notice>>

(***************************************************************************)
(* The other buttons, and the end of the instance.                         *)
(***************************************************************************)

\* resetHistory, also while a message is being answered; a failed deletion is
\* logged.  keepHistory only replies.
ResetHistory ==
    /\ prompted
    /\ at = "idle" \/ Awaiting
    /\ memory' \in {{}, memory}
    /\ UNCHANGED <<settings, sent, at, message, raw, result, history, tasks,
                   query, reply, cards, notice, referral>>

\* The handler dies with the instance, and so do the notifications that it has
\* not sent yet.
Die ==
    /\ at # "idle" \/ notice = "owed"
    /\ notice' = "lost"
    /\ Returns(IF at = "idle" THEN shown ELSE [NoReply EXCEPT !.from = "error"])
    /\ UNCHANGED <<settings, sent, buttons, prompted, memory>>

\* What the handler does of itself: every call in it has a timeout.
ChatHandler ==
    \/ Judge \/ Stopped \/ Placeholder \/ ReadHistory
    \/ TopicTimesOut \/ IntentTimesOut
    \/ Rewrite \/ AwaitIntent \/ IntentRaised
    \/ Answer \/ General \/ Scan \/ AwaitTopic \/ AppendTurns \/ Reply

ChatStep ==
    \/ Receive \/ ChatHandler
    \/ TopicAnswers \/ IntentAnswers \/ HistoryUnavailable
    \/ SendNotice \/ ResetHistory \/ Die

ChatSpec == ChatInit /\ [][ChatStep]_chatVars

ChatFairness ==
    /\ WF_chatVars(ChatHandler)
    /\ WF_chatVars(SendNotice)

ChatFairSpec == ChatSpec /\ ChatFairness

(***************************************************************************)
(* Properties.                                                             *)
(***************************************************************************)

Sources == {"none", "error", "canned", "placeholder", "rag", "fallback",
            "noContext", "general"}
Replies == [from : Sources, pii : SUBSET Kinds, suffix : BOOLEAN, reset : BOOLEAN]

\* Every variable has its type.
ChatTypeOK ==
    /\ gemini \in BOOLEAN /\ webhook \in BOOLEAN
    /\ sent \in 0 .. MaxMessages
    /\ at \in {"idle", "received", "stopped", "passed", "rewriting", "classifying",
               "answering", "general", "scanning", "topic", "append", "replying"}
    /\ message \in Texts /\ raw \in SUBSET Kinds /\ result \in Results
    /\ history \in SUBSET (Kinds \cup {"words"})
    /\ topic \in {"none", "running", "new", "same"}
    /\ intent \in {"none", "running", "known", "raised"}
    /\ query \in SUBSET Kinds
    /\ reply \in Replies /\ shown \in Replies
    /\ memory \in SUBSET (Kinds \cup {"words"})
    /\ buttons \in SUBSET SUBSET Kinds /\ prompted \in BOOLEAN
    /\ notice \in {"none", "owed", "sent", "failed", "lost"}
    /\ referral \in BOOLEAN

\* Personal data that both scanners know, once the chain has let a message
\* pass, are in nothing that is made of it from then on: not in the query for
\* the rewriter, the embedder and the generator, not in the memory or what is
\* read of it for a later message, not in a ticket button, not in a reply;
\* whether DLP can be reached at each of these moments or not.
KnownPiiStaysOut ==
    /\ query \cap KnownKinds = {}
    /\ (history \cup memory) \cap KnownKinds = {}
    /\ (UNION buttons) \cap KnownKinds = {}
    /\ at \in {"topic", "append", "replying"} => reply.pii \cap KnownKinds = {}
    /\ shown.pii \cap KnownKinds = {}

\* The guardrails by the priority of their categories.
Priority ==
    <<"mental_health", "osha", "fair_housing", "hr_legal", "data_privacy",
      "escalation">>

\* The place of a category in it; a message that passes comes last.
Rank(category) ==
    CASE category = "MENTAL_HEALTH" -> 1
      [] category = "OSHA" -> 2
      [] category = "FAIR_HOUSING" -> 3
      [] category = "HR_LEGAL" -> 4
      [] category = "DATA_PRIVACY" -> 5
      [] category = "ESCALATION_HR" -> 6
      [] OTHER -> 7

\* What guardrail i of them demands of the message as the user wrote it.  A
\* request for HR counts only in a message that is not redacted: in one that is,
\* it may be among the words that are taken out.
Alarm(i) ==
    /\ Stops(Check(Priority[i], message, "NONE"))
    /\ Priority[i] = "escalation" => DataPrivacy(message).action # "redact"

\* No guardrail that alone would stop the message stands above the one whose
\* response is given, and none would if it passes.
LoudestHeeded ==
    \A i \in 1 .. Len(Priority) :
        Alarm(i) => at' = "stopped" /\ Rank(result'.category) <= i

\* A message is answered as the loudest of its alarms demands, whatever the model
\* says of it: a distress, an emergency, a Fair Housing question, a disclosure or
\* another person's data are not lost in what is redacted on the way, nor outdone
\* by a request for HR that is read in what is left.
LoudestAlarmWins ==
    [][at = "received" /\ at' \in {"stopped", "passed"} => LoudestHeeded]_chatVars

\* A question about safety that is answered at all is answered with the
\* referral to a supervisor, wherever the answer comes from.
SafetyReferralKept ==
    [][at = "replying" /\ at' = "idle" /\ shown'.from # "error" =>
         (referral => shown'.suffix)]_chatVars

\* With a webhook, an emergency is reported, or the attempt fails, or the
\* instance dies: it does not get lost in the chain or in the handler.
EmergenciesAreReported ==
    (at = "received" /\ webhook /\ Emergency(message)
       /\ ~Stops(MentalHealth(message)))
      ~> notice \in {"sent", "failed", "lost"}

\* Every message is answered, if only by an error.
EveryMessageIsAnswered == at = "received" ~> at = "idle"
=============================================================================
