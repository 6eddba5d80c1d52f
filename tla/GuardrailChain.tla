--------------------------- MODULE GuardrailChain ---------------------------
(***************************************************************************)
(* The guardrails of the chat service (shared/molli_shared/guardrails) and *)
(* the order in which `run_chain` asks them.  Nothing here has state: a    *)
(* message goes in, what the request handler gets comes out.               *)
(*                                                                         *)
(* A message is the set of the word patterns that it matches, and the      *)
(* personal data that it holds.  Patterns with the same effect are one     *)
(* signal.  Personal data come in kinds, by who recognises them: the       *)
(* regular expressions of data_priv.py, Cloud DLP, or both.                *)
(***************************************************************************)
EXTENDS Naturals, Sequences, FiniteSets

Signals ==
    {"distress", "figurative",        \* mental_health.py; its exclusions
     "emergency", "pastOrDrill",      \* osha.py, tier 1; its exclusions
     "safety",                        \* osha.py, tier 2
     "protected", "lawful",           \* fair_housing.py; its exclusions
     "disclosure", "policy",          \* hr_legal.py; its exclusions
     "thirdParty", "ownCase",         \* data_priv.py; its exclusions
     "entirely",                      \* nothing but personal data
     "nevermind", "hr"}               \* escalation.py

\* A Social Security number is known to both; an account or record number has
\* a pattern but is no information type that DLP is asked for; a telephone
\* number or a street address is, but has no pattern.
PatternKinds == {"ssn", "account"}
DlpKinds == {"ssn", "phone"}
Kinds == PatternKinds \cup DlpKinds
KnownKinds == PatternKinds \cap DlpKinds

\* What DLP returns for a text, when it can be reached.
DlpRedacts(kinds) == kinds \ DlpKinds

\* Mutation of RedactPii: no fallback when DLP is not available.
RedactNothingWithoutDlp(kinds, dlp) == IF dlp THEN DlpRedacts(kinds) ELSE kinds

\* redact_pii: DLP, or the patterns when the scan is skipped or raises.
RedactPii(kinds, dlp) == IF dlp THEN DlpRedacts(kinds) ELSE kinds \ PatternKinds

\* The signals that are looked for in a redacted text: those of the guardrail that
\* is asked after the redaction.
EscalationSignals == {"nevermind", "hr"}

\* The texts that redact_pii may make of one.  Words go with the data that they
\* are part of ("email hr@...", of which DLP takes the address), and words that
\* data kept apart may now match: any signal that is still looked for may be lost,
\* or come up.  A text in which nothing is found stays as it is.
Redactions(text, dlp) ==
    LET left == RedactPii(text.pii, dlp) IN
    IF left = text.pii THEN {text}
    ELSE {[signals |-> heard, pii |-> left] : heard \in SUBSET EscalationSignals}

(***************************************************************************)
(* Verdicts.                                                               *)
(***************************************************************************)

Actions == {"allow", "block", "escalate", "redact"}

\* `canned` says whether the verdict has a canned response.
Verdict(action, category, canned) ==
    [action |-> action, category |-> category, canned |-> canned]

Allow(category) == Verdict("allow", category, FALSE)
Stops(verdict) == verdict.action \in {"block", "escalate"}

MentalHealth(text) ==
    IF "distress" \in text.signals /\ "figurative" \notin text.signals
    THEN Verdict("escalate", "MENTAL_HEALTH", TRUE)
    ELSE Allow("MENTAL_HEALTH")

Emergency(text) ==
    "emergency" \in text.signals /\ "pastOrDrill" \notin text.signals

\* Tier 1 goes before tier 2, whose canned response is to be appended.
OSHA(text) ==
    CASE Emergency(text) -> Verdict("escalate", "OSHA", TRUE)
      [] ~Emergency(text) /\ "safety" \in text.signals ->
            Verdict("allow", "OSHA", TRUE)
      [] OTHER -> Allow("OSHA")

FairHousing(text) ==
    IF "protected" \in text.signals /\ "lawful" \notin text.signals
    THEN Verdict("block", "FAIR_HOUSING", TRUE)
    ELSE Allow("FAIR_HOUSING")

\* What the model says within two seconds.  A timeout, an error and any other
\* token than these two count as NONE.
Topics == {"FHA", "NONE", "failed"}

FhaLlm(topic) ==
    IF topic = "FHA" THEN Verdict("block", "FAIR_HOUSING", TRUE)
    ELSE Allow("FHA_LLM")

HRLegal(text) ==
    IF "disclosure" \in text.signals /\ "policy" \notin text.signals
    THEN Verdict("escalate", "HR_LEGAL", TRUE)
    ELSE Allow("HR_LEGAL")

\* detect_pii.
DetectPii(kinds) == kinds \cap PatternKinds

DataPrivacy(text) ==
    LET blocked ==
          \/ "thirdParty" \in text.signals /\ "ownCase" \notin text.signals
          \/ DetectPii(text.pii) # {} /\ "entirely" \in text.signals IN
    CASE blocked -> Verdict("block", "DATA_PRIVACY", TRUE)
      [] ~blocked /\ DetectPii(text.pii) # {} ->
            Verdict("redact", "DATA_PRIVACY", TRUE)
      [] OTHER -> Allow("DATA_PRIVACY")

\* Mutation of Escalation: one category whether it escalates or not.
EscalationOfOneCategory(text) ==
    Verdict(IF "hr" \in text.signals /\ "nevermind" \notin text.signals
            THEN "escalate" ELSE "allow", "ESCALATION", TRUE)

\* Asking for a person, being unhappy with an answer and repeating a question
\* are all allowed: they differ in what is logged.
Escalation(text) ==
    IF "hr" \in text.signals /\ "nevermind" \notin text.signals
    THEN Verdict("escalate", "ESCALATION_HR", TRUE)
    ELSE Verdict("allow", "ESCALATION", "nevermind" \in text.signals)

(***************************************************************************)
(* The chain.                                                              *)
(***************************************************************************)

Check(guardrail, text, topic) ==
    CASE guardrail = "mental_health" -> MentalHealth(text)
      [] guardrail = "osha" -> OSHA(text)
      [] guardrail = "fair_housing" -> FairHousing(text)
      [] guardrail = "fha_llm" -> FhaLlm(topic)
      [] guardrail = "hr_legal" -> HRLegal(text)
      [] guardrail = "data_privacy" -> DataPrivacy(text)
      [] guardrail = "escalation" -> Escalation(text)

\* Mutation of Chain: the personal data are looked for before the disclosure.
PrivacyFirst ==
    <<"mental_health", "osha", "fair_housing", "fha_llm", "data_privacy",
      "hr_legal", "escalation">>

\* _GUARDRAIL_CHAIN.
Chain ==
    <<"mental_health", "osha", "fair_housing", "fha_llm", "hr_legal",
      "data_privacy", "escalation">>

\* What a guardrail is asked about: `redacted`, once one before it said that the
\* text is to be.
TextFor(i, text, topic, redacted) ==
    IF \E j \in 1 .. i - 1 : Check(Chain[j], text, topic).action = "redact"
    THEN redacted
    ELSE text

VerdictOf(i, text, topic, redacted) ==
    Check(Chain[i], TextFor(i, text, topic, redacted), topic)

\* The first guardrail that stops ends the loop: none after it is asked.
Stopping(text, topic, redacted) ==
    {i \in 1 .. Len(Chain) :
        /\ Stops(VerdictOf(i, text, topic, redacted))
        /\ \A j \in 1 .. i - 1 : ~Stops(VerdictOf(j, text, topic, redacted))}

\* The canned response of a safety question that is allowed is the suffix of
\* the answer.
Referred(text, topic, redacted) ==
    \E i \in 1 .. Len(Chain) :
        VerdictOf(i, text, topic, redacted) = Verdict("allow", "OSHA", TRUE)

\* run_chain: `pii` is what is left in message_to_gemini, `suffix` whether
\* there is an append_to_response.
RunChain(text, topic, redacted) ==
    LET last == TextFor(Len(Chain) + 1, text, topic, redacted)
        redacts == \E i \in 1 .. Len(Chain) :
                      VerdictOf(i, text, topic, redacted).action = "redact"
        stopping == Stopping(text, topic, redacted) IN
    IF stopping # {}
    THEN LET first == CHOOSE i \in stopping : TRUE
             verdict == VerdictOf(first, text, topic, redacted) IN
         [action |-> verdict.action, category |-> verdict.category,
          pii |-> {}, suffix |-> FALSE]
    ELSE [action |-> IF redacts THEN "redact" ELSE "allow",
          category |-> IF redacts THEN "DATA_PRIVACY" ELSE "CHAIN",
          pii |-> last.pii, suffix |-> Referred(text, topic, redacted)]

Categories ==
    {"CHAIN", "MENTAL_HEALTH", "OSHA", "FAIR_HOUSING", "HR_LEGAL",
     "DATA_PRIVACY", "ESCALATION_HR"}

Results ==
    [action : Actions, category : Categories, pii : SUBSET Kinds,
     suffix : BOOLEAN]

ShouldCallGemini(result) == result.action \in {"allow", "redact"}

\* scan_gemini_output: only what the patterns know makes it redact.
ScanOutput(kinds, dlp) ==
    IF DetectPii(kinds) # {} THEN RedactPii(kinds, dlp) ELSE kinds
=============================================================================
