--------------------------- MODULE ChatTurnProofs ---------------------------
(***************************************************************************)
(* For every message, whatever signals and personal data it has, and any   *)
(* number of them: what the chain lets through, whose alarm wins, and      *)
(* where personal data do not get.                                         *)
(***************************************************************************)
EXTENDS ChatTurn, TLAPS

(***************************************************************************)
(* Redaction.                                                              *)
(***************************************************************************)

\* Redaction takes out what both scanners know, by whichever it is done.
LEMMA Redacted ==
    ASSUME NEW kinds \in SUBSET Kinds, NEW dlp \in BOOLEAN
    PROVE  /\ RedactPii(kinds, dlp) \in SUBSET Kinds
           /\ RedactPii(kinds, dlp) \cap KnownKinds = {}
BY DEF RedactPii, DlpRedacts, KnownKinds

\* A redacted text holds the data that redaction leaves.
LEMMA Leaves ==
    ASSUME NEW text, NEW dlp, NEW redacted \in Redactions(text, dlp)
    PROVE  redacted.pii = RedactPii(text.pii, dlp)
BY DEF Redactions

\* So does the scan of an answer: what it leaves alone has no pattern.
LEMMA Scanned ==
    ASSUME NEW kinds \in SUBSET Kinds, NEW dlp \in BOOLEAN
    PROVE  /\ ScanOutput(kinds, dlp) \in SUBSET Kinds
           /\ ScanOutput(kinds, dlp) \cap KnownKinds = {}
BY Redacted DEF ScanOutput, DetectPii, KnownKinds

\* And the memory, which stores a placeholder when DLP is not available.
LEMMA Recorded ==
    ASSUME NEW kinds \in SUBSET Kinds, NEW said \in Remembered(kinds)
    PROVE  said \subseteq Kinds \cup {"words"} /\ said \cap KnownKinds = {}
BY DEF Remembered, Stored, DlpRedacts, KnownKinds, PatternKinds, DlpKinds

(***************************************************************************)
(* The chain.                                                              *)
(***************************************************************************)

\* The guardrails by their places.
LEMMA Places ==
    /\ Len(Chain) = 7
    /\ Chain[1] = "mental_health" /\ Chain[2] = "osha"
    /\ Chain[3] = "fair_housing" /\ Chain[4] = "fha_llm" /\ Chain[5] = "hr_legal"
    /\ Chain[6] = "data_privacy" /\ Chain[7] = "escalation"
BY DEF Chain

\* What each of them is asked.
LEMMA Asked ==
    ASSUME NEW text, NEW topicOf
    PROVE  /\ Check("mental_health", text, topicOf) = MentalHealth(text)
           /\ Check("osha", text, topicOf) = OSHA(text)
           /\ Check("fair_housing", text, topicOf) = FairHousing(text)
           /\ Check("fha_llm", text, topicOf) = FhaLlm(topicOf)
           /\ Check("hr_legal", text, topicOf) = HRLegal(text)
           /\ Check("data_privacy", text, topicOf) = DataPrivacy(text)
           /\ Check("escalation", text, topicOf) = Escalation(text)
BY DEF Check

\* Only the check for personal data redacts.
LEMMA OnlyPrivacyRedacts ==
    ASSUME NEW text, NEW topicOf, NEW i \in 1 .. 7, i # 6
    PROVE  Check(Chain[i], text, topicOf).action # "redact"
<1>1. /\ MentalHealth(text).action # "redact" /\ OSHA(text).action # "redact"
      /\ FairHousing(text).action # "redact" /\ FhaLlm(topicOf).action # "redact"
      /\ HRLegal(text).action # "redact" /\ Escalation(text).action # "redact"
  BY DEF MentalHealth, OSHA, FairHousing, FhaLlm, HRLegal, Escalation, Allow, Verdict
<1>2. i \in {1, 2, 3, 4, 5, 7}
  OBVIOUS
<1> QED BY <1>1, <1>2, Places, Asked

\* So six of them judge the message as the user wrote it, and the last one what is
\* left of it.
LEMMA Judged ==
    ASSUME NEW text \in Texts, NEW topicOf \in Topics, NEW redacted
    PROVE  /\ VerdictOf(1, text, topicOf, redacted) = MentalHealth(text)
           /\ VerdictOf(2, text, topicOf, redacted) = OSHA(text)
           /\ VerdictOf(3, text, topicOf, redacted) = FairHousing(text)
           /\ VerdictOf(4, text, topicOf, redacted) = FhaLlm(topicOf)
           /\ VerdictOf(5, text, topicOf, redacted) = HRLegal(text)
           /\ VerdictOf(6, text, topicOf, redacted) = DataPrivacy(text)
           /\ VerdictOf(7, text, topicOf, redacted) =
                 Escalation(IF DataPrivacy(text).action = "redact" THEN redacted ELSE text)
<1>1. ASSUME NEW i \in 1 .. 6
      PROVE  TextFor(i, text, topicOf, redacted) = text
  BY OnlyPrivacyRedacts DEF TextFor
<1>2. TextFor(7, text, topicOf, redacted) =
         IF DataPrivacy(text).action = "redact" THEN redacted ELSE text
  BY OnlyPrivacyRedacts, Places, Asked DEF TextFor
<1> QED BY <1>1, <1>2, Places, Asked DEF VerdictOf

\* What the chain makes of a message that some guardrail stops, and of others.
LEMMA Outcome ==
    ASSUME NEW text \in Texts, NEW topicOf \in Topics, NEW redacted
    PROVE  \/ \E i \in 1 .. 7 :
                 /\ Stops(VerdictOf(i, text, topicOf, redacted))
                 /\ \A j \in 1 .. i - 1 : ~Stops(VerdictOf(j, text, topicOf, redacted))
                 /\ RunChain(text, topicOf, redacted) =
                       [action |-> VerdictOf(i, text, topicOf, redacted).action,
                        category |-> VerdictOf(i, text, topicOf, redacted).category,
                        pii |-> {}, suffix |-> FALSE]
           \/ /\ \A i \in 1 .. 7 : ~Stops(VerdictOf(i, text, topicOf, redacted))
              /\ RunChain(text, topicOf, redacted) =
                    [action |-> IF DataPrivacy(text).action = "redact"
                                THEN "redact" ELSE "allow",
                     category |-> IF DataPrivacy(text).action = "redact"
                                  THEN "DATA_PRIVACY" ELSE "CHAIN",
                     pii |-> IF DataPrivacy(text).action = "redact"
                             THEN redacted.pii ELSE text.pii,
                     suffix |-> Referred(text, topicOf, redacted)]
<1> DEFINE V(i) == VerdictOf(i, text, topicOf, redacted)
<1>1. Stopping(text, topicOf, redacted) =
         {i \in 1 .. 7 : Stops(V(i)) /\ \A j \in 1 .. i - 1 : ~Stops(V(j))}
  BY Places DEF Stopping
<1>2. CASE Stopping(text, topicOf, redacted) # {}
  <2> DEFINE first == CHOOSE i \in Stopping(text, topicOf, redacted) : TRUE
  <2>1. first \in Stopping(text, topicOf, redacted)
    BY <1>2
  <2>2. RunChain(text, topicOf, redacted) =
           [action |-> V(first).action, category |-> V(first).category,
            pii |-> {}, suffix |-> FALSE]
    BY <1>2 DEF RunChain
  <2> HIDE DEF first
  <2> QED BY <1>1, <2>1, <2>2
<1>3. CASE Stopping(text, topicOf, redacted) = {}
  <2> HIDE DEF V
  <2>1. ~Stops(V(1)) /\ ~Stops(V(2)) /\ ~Stops(V(3))
    <3>1. ~Stops(V(1))
      BY <1>1, <1>3
    <3>2. ~Stops(V(2))
      BY <1>1, <1>3, <3>1
    <3> QED BY <1>1, <1>3, <3>1, <3>2
  <2>2. ~Stops(V(4)) /\ ~Stops(V(5))
    <3>1. ~Stops(V(4))
      BY <1>1, <1>3, <2>1
    <3> QED BY <1>1, <1>3, <2>1, <3>1
  <2>3. ~Stops(V(6)) /\ ~Stops(V(7))
    <3>1. ~Stops(V(6))
      BY <1>1, <1>3, <2>1, <2>2
    <3> QED BY <1>1, <1>3, <2>1, <2>2, <3>1
  <2>4. \A i \in 1 .. 7 : ~Stops(V(i))
    <3>1. \A i \in 1 .. 7 : i \in {1, 2, 3, 4, 5, 6, 7}
      OBVIOUS
    <3> QED BY <3>1, <2>1, <2>2, <2>3
  <2>5. (\E i \in 1 .. 7 : V(i).action = "redact") <=> DataPrivacy(text).action = "redact"
    <3>1. \A i \in 1 .. 7 : i # 6 => V(i).action # "redact"
      BY OnlyPrivacyRedacts, Places DEF V, VerdictOf
    <3> QED BY <3>1, Judged DEF V
  <2>6. (\E i \in 1 .. 7 : Check(Chain[i], text, topicOf).action = "redact")
           <=> DataPrivacy(text).action = "redact"
    BY OnlyPrivacyRedacts, Places, Asked
  <2>7. TextFor(8, text, topicOf, redacted).pii =
           IF DataPrivacy(text).action = "redact" THEN redacted.pii
           ELSE text.pii
    BY <2>6 DEF TextFor, Texts
  <2> QED BY <1>3, <2>4, <2>5, <2>7, Places DEF RunChain, V
<1> QED BY <1>2, <1>3

\* The verdicts that stop a message, by place.
LEMMA StoppingCategories ==
    ASSUME NEW text \in Texts, NEW topicOf \in Topics, NEW redacted,
           NEW i \in 1 .. 7, Stops(VerdictOf(i, text, topicOf, redacted))
    PROVE  /\ VerdictOf(i, text, topicOf, redacted).action \in {"block", "escalate"}
           /\ VerdictOf(i, text, topicOf, redacted).category \in Categories
           /\ Rank(VerdictOf(i, text, topicOf, redacted).category) =
                 IF i <= 3 THEN i ELSE i - 1
<1>1. i \in {1, 2, 3, 4, 5, 6, 7}
  OBVIOUS
<1> USE Judged DEF Stops, Verdict, Allow, Categories, Rank
<1>2. CASE i = 1
  BY <1>2 DEF MentalHealth
<1>3. CASE i = 2
  BY <1>3 DEF OSHA
<1>4. CASE i = 3
  BY <1>4 DEF FairHousing
<1>5. CASE i = 4
  BY <1>5 DEF FhaLlm
<1>6. CASE i = 5
  BY <1>6 DEF HRLegal
<1>7. CASE i = 6
  BY <1>7 DEF DataPrivacy
<1>8. CASE i = 7
  BY <1>8 DEF Escalation
<1> QED BY <1>1, <1>2, <1>3, <1>4, <1>5, <1>6, <1>7, <1>8

\* run_chain returns a result of its type; what both scanners know is not in it.
LEMMA ChainResults ==
    ASSUME NEW text \in Texts, NEW topicOf \in Topics, NEW dlp \in BOOLEAN,
           NEW redacted \in Redactions(text, dlp)
    PROVE  /\ RunChain(text, topicOf, redacted) \in Results
           /\ RunChain(text, topicOf, redacted).pii \cap KnownKinds = {}
<1>1. CASE \E i \in 1 .. 7 :
              /\ Stops(VerdictOf(i, text, topicOf, redacted))
              /\ RunChain(text, topicOf, redacted) =
                    [action |-> VerdictOf(i, text, topicOf, redacted).action,
                     category |-> VerdictOf(i, text, topicOf, redacted).category,
                     pii |-> {}, suffix |-> FALSE]
  BY <1>1, StoppingCategories DEF Results, Actions
<1>2. CASE \A i \in 1 .. 7 : ~Stops(VerdictOf(i, text, topicOf, redacted))
  <2>1. ~Stops(DataPrivacy(text))
    BY <1>2, Judged
  <2>2. DataPrivacy(text).action = "redact" \/ DetectPii(text.pii) = {}
    BY <2>1 DEF DataPrivacy, Stops, Verdict
  <2>3. text.pii \in SUBSET Kinds
    BY DEF Texts
  <2>4. /\ redacted.pii \in SUBSET Kinds
        /\ redacted.pii \cap KnownKinds = {}
    BY <2>3, Redacted, Leaves
  <2>5. Referred(text, topicOf, redacted) \in BOOLEAN
    BY DEF Referred
  <2>6. DetectPii(text.pii) = {} => text.pii \cap KnownKinds = {}
    BY DEF DetectPii, KnownKinds
  <2>7. ~\E i \in 1 .. 7 : Stops(VerdictOf(i, text, topicOf, redacted))
    BY <1>2
  <2> QED BY <2>2, <2>3, <2>4, <2>5, <2>6, <2>7, Outcome
          DEF Results, Actions, Categories
<1> QED BY <1>1, <1>2, Outcome

\* The guardrail that stops a message is not below one that alone would.
LEMMA ChainRank ==
    ASSUME NEW text \in Texts, NEW topicOf \in Topics, NEW redacted,
           NEW i \in 1 .. Len(Priority), Stops(Check(Priority[i], text, "NONE")),
           Priority[i] = "escalation" => DataPrivacy(text).action # "redact"
    PROVE  /\ ~ShouldCallGemini(RunChain(text, topicOf, redacted))
           /\ Rank(RunChain(text, topicOf, redacted).category) <= i
<1> DEFINE place == IF i <= 3 THEN i ELSE i + 1
<1>1. i \in {1, 2, 3, 4, 5, 6} /\ place \in 1 .. 7
  BY DEF Priority
<1>2. Priority[i] = Chain[place] /\ place # 4
  BY <1>1, Places DEF Priority
<1>3. Stops(VerdictOf(place, text, topicOf, redacted))
  <2>1. CASE i = 6
    BY <2>1, <1>1, <1>2, Judged, Asked, Places DEF Priority
  <2>2. CASE i # 6
    BY <2>2, <1>1, <1>2, Judged, Asked, Places
  <2> QED BY <2>1, <2>2
<1>4. PICK first \in 1 .. 7 :
         /\ Stops(VerdictOf(first, text, topicOf, redacted))
         /\ \A j \in 1 .. first - 1 : ~Stops(VerdictOf(j, text, topicOf, redacted))
         /\ RunChain(text, topicOf, redacted) =
               [action |-> VerdictOf(first, text, topicOf, redacted).action,
                category |-> VerdictOf(first, text, topicOf, redacted).category,
                pii |-> {}, suffix |-> FALSE]
  BY <1>1, <1>3, Outcome
<1>5. first <= place
  BY <1>1, <1>3, <1>4
<1>6. /\ RunChain(text, topicOf, redacted).action \in {"block", "escalate"}
      /\ Rank(RunChain(text, topicOf, redacted).category) = IF first <= 3 THEN first ELSE first - 1
  BY <1>4, StoppingCategories
<1> QED BY <1>1, <1>5, <1>6 DEF ShouldCallGemini

\* A question about safety that passes has the referral in its result.
LEMMA ChainSuffix ==
    ASSUME NEW text \in Texts, NEW topicOf \in Topics, NEW redacted,
           "safety" \in text.signals, ~Emergency(text),
           ShouldCallGemini(RunChain(text, topicOf, redacted))
    PROVE  RunChain(text, topicOf, redacted).suffix
<1>1. Referred(text, topicOf, redacted)
  <2>1. OSHA(text) = Verdict("allow", "OSHA", TRUE)
    BY DEF OSHA
  <2>2. VerdictOf(2, text, topicOf, redacted) = Verdict("allow", "OSHA", TRUE)
    BY <2>1, Judged
  <2>3. 2 \in 1 .. Len(Chain)
    BY Places
  <2> QED BY <2>2, <2>3, Zenon DEF Referred
<1>2. CASE \E i \in 1 .. 7 :
              /\ Stops(VerdictOf(i, text, topicOf, redacted))
              /\ RunChain(text, topicOf, redacted) =
                    [action |-> VerdictOf(i, text, topicOf, redacted).action,
                     category |-> VerdictOf(i, text, topicOf, redacted).category,
                     pii |-> {}, suffix |-> FALSE]
  BY <1>2 DEF ShouldCallGemini, Stops
<1> QED BY <1>1, <1>2, Outcome

(***************************************************************************)
(* The handler.                                                            *)
(***************************************************************************)

\* The invariant behind KnownPiiStaysOut and SafetyReferralKept.  The result of
\* the chain has no personal data that both scanners know, and once a message
\* has passed, its referral is in the result.
ChatInv ==
    /\ ChatTypeOK
    /\ KnownPiiStaysOut
    /\ result.pii \cap KnownKinds = {}
    /\ at = "received" =>
          referral = ("safety" \in message.signals /\ ~Emergency(message))
    /\ at \notin {"idle", "received", "stopped"} => (referral => result.suffix)

\* The messages tried are messages.
LEMMA Tried == Messages \subseteq Texts
BY DEF Messages, Texts

\* What the variables of the handler are between messages.
LEMMA Nothings ==
    /\ NoText \in Texts /\ NoResult \in Results /\ NoReply \in Replies
    /\ NoResult.pii = {} /\ NoReply.pii = {}
<1>1. NoText \in Texts
  BY DEF Texts, NoText
<1>2. NoResult \in Results /\ NoResult.pii = {}
  BY DEF Results, Actions, Categories, NoResult
<1>3. NoReply \in Replies /\ NoReply.pii = {}
  BY DEF Replies, Sources, NoReply
<1> QED BY <1>1, <1>2, <1>3

\* The first state.
LEMMA ChatInitInv == ChatInit => ChatInv
<1> SUFFICES ASSUME ChatInit PROVE ChatInv
  OBVIOUS
<1> USE DEF ChatInit
<1>1. sent \in 0 .. MaxMessages
  BY ChatAssumption
<1>2. referral \in BOOLEAN /\ prompted \in BOOLEAN
  BY Zenon
<1>3. ChatTypeOK
  BY <1>1, <1>2, Nothings DEF ChatTypeOK
<1>4. KnownPiiStaysOut
  BY Nothings DEF KnownPiiStaysOut
<1> QED BY <1>3, <1>4, Nothings DEF ChatInv

\* When the handler returns, what it gives has no such data.
LEMMA ReturnsInv ==
    ASSUME ChatInv, NEW answer \in Replies, Returns(answer),
           answer.pii \cap KnownKinds = {},
           UNCHANGED <<settings, sent, memory>>,
           buttons' \in SUBSET SUBSET Kinds, (UNION buttons') \cap KnownKinds = {},
           prompted' \in BOOLEAN,
           notice' \in {"none", "owed", "sent", "failed", "lost"}
    PROVE  ChatInv'
BY DEF Returns, ChatInv, ChatTypeOK, KnownPiiStaysOut, settings, Texts, Results, Replies,
       Actions, Categories, Sources, NoText, NoResult, NoReply

\* A message comes in and is judged.
LEMMA JudgeInv == ChatInv /\ (Receive \/ Judge) => ChatInv'
<1> SUFFICES ASSUME ChatInv, Receive \/ Judge PROVE ChatInv'
  OBVIOUS
<1> USE DEF ChatInv, ChatTypeOK, KnownPiiStaysOut
<1>1. CASE Receive
  <2>1. /\ message' \in Texts /\ raw' \in SUBSET Kinds
        /\ sent' \in 0 .. MaxMessages
    BY <1>1, Tried, ChatAssumption DEF Receive, Texts
  <2>2. referral' \in BOOLEAN
    BY <1>1 DEF Receive
  <2> QED BY <1>1, <2>1, <2>2 DEF Receive, settings, tasks, Replies, Sources, NoReply
<1>2. CASE Judge
  <2>1. PICK fha \in Topics, dlp \in BOOLEAN :
           \E redacted \in Redactions(message, dlp) :
              result' = RunChain(message, fha, redacted)
    BY <1>2 DEF Judge, Topics
  <2>2. result' \in Results /\ result'.pii \cap KnownKinds = {}
    BY <2>1, ChainResults
  <2>3. \E redacted : result' = RunChain(message, fha, redacted)
    BY <2>1
  <2>4. ASSUME at' = "passed", referral' PROVE result'.suffix
    <3>1. /\ message \in Texts
          /\ "safety" \in message.signals /\ ~Emergency(message)
          /\ ShouldCallGemini(result')
      BY <1>2, <2>4 DEF Judge
    <3> QED BY <2>3, <3>1, ChainSuffix
  <2> QED BY <1>2, <2>2, <2>4 DEF Judge, settings, tasks, cards, Texts, NoText
<1> QED BY <1>1, <1>2

\* A reply without a text from the knowledge base.
LEMMA PlainReplies ==
    ASSUME NEW from \in Sources
    PROVE  /\ [NoReply EXCEPT !.from = from] \in Replies
           /\ [NoReply EXCEPT !.from = from].pii = {}
BY DEF NoReply, Replies

\* A union is apart from a set when all of its parts are.
LEMMA UnionApart ==
    ASSUME NEW B, NEW K
    PROVE  (UNION B) \cap K = {} <=> \A b \in B : b \cap K = {}
<1>1. ASSUME (UNION B) \cap K = {}, NEW b \in B, NEW x \in b \cap K
      PROVE  FALSE
  BY <1>1
<1>2. ASSUME \A b \in B : b \cap K = {}, NEW x \in (UNION B) \cap K
      PROVE  FALSE
  <2>1. PICK b \in B : x \in b
    BY <1>2
  <2> QED BY <1>2, <2>1
<1> QED BY <1>1, <1>2

\* The handler answers without a model, raises, replies, or dies.
LEMMA EndsInv ==
    ChatInv /\ (Stopped \/ IntentRaised \/ HistoryUnavailable \/ Reply \/ Die) => ChatInv'
<1> SUFFICES ASSUME ChatInv, Stopped \/ IntentRaised \/ HistoryUnavailable \/ Reply \/ Die
             PROVE  ChatInv'
  OBVIOUS
<1>1. ASSUME NEW from \in {"canned", "error"}
      PROVE  /\ [NoReply EXCEPT !.from = from] \in Replies
             /\ [NoReply EXCEPT !.from = from].pii \cap KnownKinds = {}
  BY PlainReplies DEF Sources
<1>2. /\ buttons \in SUBSET SUBSET Kinds /\ (UNION buttons) \cap KnownKinds = {}
      /\ prompted \in BOOLEAN
      /\ notice \in {"none", "owed", "sent", "failed", "lost"}
  BY DEF ChatInv, ChatTypeOK, KnownPiiStaysOut
<1>3. CASE Stopped
  <2>1. notice' \in {"none", "owed", "sent", "failed", "lost"}
    BY <1>2, <1>3 DEF Stopped
  <2> QED BY <1>1, <1>2, <1>3, <2>1, ReturnsInv DEF Stopped
<1>4. CASE IntentRaised \/ HistoryUnavailable
  BY <1>1, <1>2, <1>4, ReturnsInv DEF IntentRaised, HistoryUnavailable, Raises
<1>5. CASE Reply
  <2>1. AnswerCard \in Replies /\ AnswerCard.pii = reply.pii
    BY DEF AnswerCard, Suffix, Replies, ChatInv, ChatTypeOK, Results
  <2>2. AnswerCard.pii \cap KnownKinds = {}
    BY <1>5, <2>1 DEF Reply, ChatInv, KnownPiiStaysOut
  <2>3. buttons' \in SUBSET SUBSET Kinds /\ (UNION buttons') \cap KnownKinds = {}
    <3>1. result.pii \in SUBSET Kinds /\ result.pii \cap KnownKinds = {}
      BY DEF ChatInv, ChatTypeOK, Results
    <3>2. buttons' \in {buttons, buttons \cup {result.pii}}
      BY <1>5 DEF Reply, TicketSeed
    <3>3. \A b \in buttons' : b \cap KnownKinds = {}
      <4>1. \A b \in buttons : b \cap KnownKinds = {}
        BY <1>2, UnionApart
      <4> QED BY <3>1, <3>2, <4>1
    <3>4. (UNION buttons') \cap KnownKinds = {}
      BY <3>3, UnionApart
    <3>5. buttons' \in SUBSET SUBSET Kinds
      BY <1>2, <3>1, <3>2
    <3> QED BY <3>4, <3>5
  <2>4. prompted' \in BOOLEAN
    BY <1>2, <1>5 DEF Reply
  <2> QED BY <1>2, <1>5, <2>1, <2>2, <2>3, <2>4, ReturnsInv DEF Reply
<1>6. CASE Die
  <2> DEFINE answer == IF at = "idle" THEN shown ELSE [NoReply EXCEPT !.from = "error"]
  <2>1. answer \in Replies /\ answer.pii \cap KnownKinds = {}
    BY <1>1 DEF ChatInv, ChatTypeOK, KnownPiiStaysOut
  <2> QED BY <1>2, <1>6, <2>1, ReturnsInv DEF Die
<1> QED BY <1>3, <1>4, <1>5, <1>6

\* What the handler gets from elsewhere: the history, the classifiers, the
\* rewritten query.
LEMMA AskInv ==
    ChatInv /\ (ReadHistory \/ TopicAnswers \/ TopicTimesOut \/ IntentAnswers
                \/ IntentTimesOut \/ Rewrite \/ AwaitIntent \/ AwaitTopic) => ChatInv'
<1> SUFFICES ASSUME ChatInv,
                    ReadHistory \/ TopicAnswers \/ TopicTimesOut \/ IntentAnswers
                      \/ IntentTimesOut \/ Rewrite \/ AwaitIntent \/ AwaitTopic
             PROVE  ChatInv'
  OBVIOUS
<1> USE DEF ChatInv, ChatTypeOK, KnownPiiStaysOut, settings, cards, tasks
<1>1. CASE ReadHistory
  <2>1. history' \subseteq memory
    BY <1>1 DEF ReadHistory, RecentTurns
  <2>2. result.pii \in SUBSET Kinds
    BY DEF Results
  <2> QED BY <1>1, <2>1, <2>2 DEF ReadHistory
<1>2. CASE TopicAnswers \/ TopicTimesOut
  BY <1>2 DEF TopicAnswers, TopicTimesOut, TopicEnds, Awaiting
<1>3. CASE IntentAnswers \/ IntentTimesOut
  BY <1>3 DEF IntentAnswers, IntentTimesOut, IntentEnds, Awaiting
<1>4. CASE Rewrite
  <2>1. query' \subseteq query \cup (history \cap Kinds)
    BY <1>4 DEF Rewrite
  <2> QED BY <1>4, <2>1 DEF Rewrite
<1>5. CASE AwaitIntent
  BY <1>5 DEF AwaitIntent
<1>6. CASE AwaitTopic
  BY <1>6 DEF AwaitTopic
<1> QED BY <1>1, <1>2, <1>3, <1>4, <1>5, <1>6

\* An answer and a general answer are replies.
LEMMA Answers ==
    ASSUME reply \in Replies, Answer \/ General
    PROVE  reply' \in Replies
<1>1. ASSUME NEW from \in {"rag", "general"}, NEW pii \in SUBSET Kinds
      PROVE  [NoReply EXCEPT !.from = from, !.pii = pii] \in Replies
  BY DEF NoReply, Replies, Sources
<1>2. ASSUME NEW from \in {"fallback", "noContext"}
      PROVE  [NoReply EXCEPT !.from = from] \in Replies
  BY PlainReplies DEF Sources
<1>3. CASE Answer
  BY <1>1, <1>2, <1>3 DEF Answer
<1>4. CASE General
  BY <1>1, <1>4 DEF General
<1> QED BY <1>3, <1>4

\* What the handler makes of it: an answer, which is scanned.
LEMMA AnswerInv ==
    ChatInv /\ (Placeholder \/ Answer \/ General \/ Scan) => ChatInv'
<1> SUFFICES ASSUME ChatInv, Placeholder \/ Answer \/ General \/ Scan PROVE ChatInv'
  OBVIOUS
<1> USE DEF ChatInv, ChatTypeOK, KnownPiiStaysOut, settings, cards, tasks
<1>1. Answer \/ General => reply' \in Replies
  BY Answers
<1>2. CASE Placeholder
  <2>1. reply' \in Replies /\ reply'.pii = {}
    BY <1>2, PlainReplies DEF Placeholder, Sources
  <2> QED BY <1>2, <2>1 DEF Placeholder
<1>3. CASE Answer
  BY <1>1, <1>3 DEF Answer
<1>4. CASE General
  BY <1>1, <1>4 DEF General
<1>5. CASE Scan
  <2>1. PICK dlp \in BOOLEAN : reply' = [reply EXCEPT !.pii = ScanOutput(@, dlp)]
    BY <1>5 DEF Scan
  <2>2. reply.pii \in SUBSET Kinds
    BY DEF Replies
  <2>3. /\ ScanOutput(reply.pii, dlp) \in SUBSET Kinds
        /\ ScanOutput(reply.pii, dlp) \cap KnownKinds = {}
    BY <2>2, Scanned
  <2>4. reply' \in Replies /\ reply'.pii \cap KnownKinds = {}
    BY <2>1, <2>3 DEF Replies
  <2> QED BY <1>5, <2>4 DEF Scan
<1> QED BY <1>2, <1>3, <1>4, <1>5

\* The memory, and the notification.
LEMMA AroundInv == ChatInv /\ (AppendTurns \/ ResetHistory \/ SendNotice) => ChatInv'
<1> SUFFICES ASSUME ChatInv, AppendTurns \/ ResetHistory \/ SendNotice PROVE ChatInv'
  OBVIOUS
<1> USE DEF ChatInv, ChatTypeOK, KnownPiiStaysOut, settings, cards, tasks
<1>1. CASE AppendTurns
  <2>1. raw \in SUBSET Kinds /\ reply.pii \in SUBSET Kinds
    BY DEF Replies
  <2>2. /\ memory' \in SUBSET (Kinds \cup {"words"})
        /\ memory' \cap KnownKinds = {}
    BY <1>1, <2>1, Recorded DEF AppendTurns
  <2> QED BY <1>1, <2>2 DEF AppendTurns
<1>2. CASE ResetHistory
  BY <1>2 DEF ResetHistory
<1>3. CASE SendNotice
  BY <1>3 DEF SendNotice
<1> QED BY <1>1, <1>2, <1>3

\* Every step preserves it.
LEMMA ChatStepInv == ChatInv /\ [ChatStep]_chatVars => ChatInv'
<1> SUFFICES ASSUME ChatInv, [ChatStep]_chatVars PROVE ChatInv'
  OBVIOUS
<1>1. CASE UNCHANGED chatVars
  BY <1>1 DEF chatVars, settings, tasks, cards, ChatInv, ChatTypeOK, KnownPiiStaysOut
<1> QED BY <1>1, JudgeInv, EndsInv, AskInv, AnswerInv, AroundInv DEF ChatStep, ChatHandler

\* Throughout.
THEOREM ChatInvariant == ChatSpec => []ChatInv
<1> QED BY ChatInitInv, ChatStepInv, PTL DEF ChatSpec

\* Every variable has its type.
THEOREM ChatTypes == ChatSpec => []ChatTypeOK
<1>1. ChatInv => ChatTypeOK
  BY DEF ChatInv
<1> QED BY <1>1, ChatInvariant, PTL

\* Personal data that both scanners know go no further than the chain, whether
\* DLP can be reached at any of the moments or not (chain.py, data_priv.py,
\* conversation_store.py, main.py).
THEOREM KnownPiiIsKeptOut == ChatSpec => []KnownPiiStaysOut
<1>1. ChatInv => KnownPiiStaysOut
  BY DEF ChatInv
<1> QED BY <1>1, ChatInvariant, PTL

\* Of several alarms in a message the loudest is answered (chain.py, run_chain),
\* at every step.
LEMMA LoudestStep ==
    ChatInv /\ [ChatStep]_chatVars =>
       [at = "received" /\ at' \in {"stopped", "passed"} => LoudestHeeded]_chatVars
<1>1. ASSUME ChatInv, [ChatStep]_chatVars,
             at = "received", at' \in {"stopped", "passed"},
             NEW i \in 1 .. Len(Priority), Alarm(i)
      PROVE  at' = "stopped" /\ Rank(result'.category) <= i
  <2>1. Judge
    BY <1>1 DEF ChatStep, ChatHandler, chatVars, Receive, Stopped, Placeholder, ReadHistory,
          TopicTimesOut, TopicAnswers, TopicEnds, IntentTimesOut, IntentAnswers, IntentEnds,
          Rewrite, AwaitIntent, IntentRaised, Answer, General, Scan, AwaitTopic, AppendTurns,
          Reply, HistoryUnavailable, SendNotice, ResetHistory, Die, Returns, Awaiting
  <2>2. PICK fha \in Topics, dlp \in BOOLEAN :
           \E redacted \in Redactions(message, dlp) :
              result' = RunChain(message, fha, redacted)
    BY <2>1 DEF Judge, Topics
  <2>3. message \in Texts
    BY <1>1 DEF ChatInv, ChatTypeOK
  <2>4. ~ShouldCallGemini(result') /\ Rank(result'.category) <= i
    BY <1>1, <2>2, <2>3, ChainRank DEF Alarm
  <2> QED BY <2>1, <2>4 DEF Judge
<1> QED BY <1>1 DEF LoudestHeeded

\* Of several alarms in a message the loudest is answered.
THEOREM TheLoudestAlarmWins == ChatSpec => LoudestAlarmWins
<1> QED BY LoudestStep, ChatInvariant, PTL DEF ChatSpec, LoudestAlarmWins

\* What the user gets has the referral, if the message asks for it.
ReferralGiven == referral => shown'.suffix

\* Whatever answers a question about safety, the referral is with it (osha.py,
\* chain.py, answer_card.py), at every step.
LEMMA ReferralStep ==
    ChatInv /\ [ChatStep]_chatVars =>
       [at = "replying" /\ at' = "idle" /\ shown'.from # "error" => ReferralGiven]_chatVars
<1>1. ASSUME ChatInv, [ChatStep]_chatVars, at = "replying", at' = "idle",
             shown'.from # "error", referral
      PROVE  shown'.suffix
  <2>1. Reply
    <3>1. Die => shown'.from = "error"
      BY <1>1 DEF Die, Returns, NoReply
    <3> QED BY <1>1, <3>1
          DEF ChatStep, ChatHandler, chatVars, Receive, Judge, Stopped, Placeholder,
          ReadHistory, TopicTimesOut, TopicAnswers, TopicEnds, IntentTimesOut, IntentAnswers,
          IntentEnds, Rewrite, AwaitIntent, IntentRaised, Answer, General, Scan, AwaitTopic,
          AppendTurns, HistoryUnavailable, SendNotice, ResetHistory, Awaiting
  <2>2. shown' = AnswerCard /\ result.suffix
    BY <1>1, <2>1 DEF Reply, Returns, ChatInv
  <2> QED BY <1>1, <2>2 DEF AnswerCard, Suffix, ChatInv, ChatTypeOK, Replies
<1> QED BY <1>1 DEF ReferralGiven

\* Whatever answers a question about safety, the referral is with it.
THEOREM SafetyReferralIsKept == ChatSpec => SafetyReferralKept
<1>1. [][at = "replying" /\ at' = "idle" /\ shown'.from # "error" => ReferralGiven]_chatVars
         => SafetyReferralKept
  BY DEF SafetyReferralKept, ReferralGiven
<1> QED BY <1>1, ReferralStep, ChatInvariant, PTL DEF ChatSpec
=============================================================================
