-------------------------- MODULE ChatServiceProofs --------------------------
(***************************************************************************)
(* The whole of a conversation that ends in a ticket: its messages and its *)
(* submission keep what they keep alone, and for every message, draft and  *)
(* edit, what is in a ticket and where it is from.                         *)
(***************************************************************************)
EXTENDS ChatService, ChatTurnProofs

(***************************************************************************)
(* A submission, for any number of retries.                                *)
(***************************************************************************)

\* The invariant behind TicketsAccountedFor.  Attempts that were not made have
\* sent nothing; the current one has no outcome while it is waited for, and
\* its ticket is the answer's; the others have ended.
SubmissionInv ==
    /\ TypeOK
    /\ pc = "dialog" => told = "nothing" /\ \A n \in Attempts : post[n] = "unsent"
    /\ pc = "waiting" =>
          /\ told = "nothing"
          /\ post[attempt] = "created" => answer \in {"ok", "garbled", "serverError"}
          /\ answer # "none" => post[attempt] \in {"created", "refused"}
          /\ answer \in {"auth", "limited", "rejected", "redirect"} =>
                post[attempt] = "refused"
    /\ pc = "backoff" => told = "nothing" /\ attempt < MaxRetries
    /\ \A n \in Attempts : n > attempt => post[n] = "unsent"
    /\ \A n \in Attempts : post[n] # "unsent" =>
          \/ pc = "waiting" /\ n = attempt
          \/ outcome[n] = "unsure"
          \/ post[n] = "refused"
          \/ told = "number" /\ number = n

\* What Freshservice and the network do preserves it.
LEMMA ServiceInv ==
    ASSUME SubmissionInv, NEW n \in Attempts, Create(n) \/ Refuse(n) \/ Drop(n)
    PROVE  SubmissionInv'
<1> USE DEF SubmissionInv, TypeOK, Respond
<1>1. CASE Create(n)
  BY <1>1 DEF Create
<1>2. CASE Refuse(n)
  BY <1>2 DEF Refuse
<1>3. CASE Drop(n)
  BY <1>3 DEF Drop
<1> QED BY <1>1, <1>2, <1>3

\* An attempt that is sent is the current one.
LEMMA Sending ==
    ASSUME SubmissionInv, NEW n \in Attempts, Send(n),
           \A k \in Attempts : k >= n => post[k] = "unsent",
           told = "nothing", UNCHANGED <<dryRun, told, number>>,
           outcome' \in [Attempts -> {"none", "answered", "unsure"}],
           \A k \in Attempts : post[k] # "unsent" =>
              outcome'[k] = "unsure" \/ post[k] = "refused"
    PROVE  SubmissionInv'
BY RetriesAssumption DEF SubmissionInv, TypeOK, Send, Attempts

\* An attempt that is not the last one ends.
LEMMA Ending ==
    ASSUME SubmissionInv, RetryOrGiveUp, Unsure \/ Answered, pc = "waiting",
           Answered => post[attempt] = "refused"
    PROVE  SubmissionInv'
BY RetriesAssumption
   DEF SubmissionInv, TypeOK, RetryOrGiveUp, Unsure, Answered, Notify, Attempts

\* What the handler does preserves it.
LEMMA HandlerInv ==
    ASSUME SubmissionInv, BadEntries \/ DryRun \/ Submit \/ Handler
    PROVE  SubmissionInv'
<1>1. CASE BadEntries \/ DryRun
  BY <1>1 DEF BadEntries, DryRun, Notify, SubmissionInv, TypeOK
<1>2. CASE Submit
  <2>1. 0 \in Attempts
    BY RetriesAssumption DEF Attempts
  <2> QED BY <1>2, <2>1, Sending DEF Submit, SubmissionInv, TypeOK
<1>3. CASE TimeOut
  BY <1>3, Ending DEF TimeOut, Waiting, Unsure, Answered, SubmissionInv, TypeOK
<1>4. CASE ServerError
  BY <1>4, Ending DEF ServerError, Got, Waiting, Unsure, Answered, SubmissionInv, TypeOK
<1>5. CASE RateLimited
  BY <1>5, Ending DEF RateLimited, Got, Waiting, SubmissionInv
<1>6. CASE Retry
  <2>1. attempt + 1 \in Attempts
    BY <1>6, RetriesAssumption DEF Retry, SubmissionInv, TypeOK, Attempts
  <2>2. \A k \in Attempts : k >= attempt + 1 => post[k] = "unsent"
    BY DEF SubmissionInv, TypeOK, Attempts
  <2> QED BY <1>6, <2>1, <2>2, Sending DEF Retry, SubmissionInv, TypeOK
<1>7. CASE FallThrough
  <2>1. answer = "redirect" /\ pc = "waiting" /\ post[attempt] = "refused"
    BY <1>7 DEF FallThrough, Got, Waiting, Unmatched, Success, SubmissionInv
  <2>2. CASE attempt < MaxRetries
    <3>1. attempt + 1 \in Attempts
      BY <2>2, RetriesAssumption DEF SubmissionInv, TypeOK, Attempts
    <3>2. \A k \in Attempts : k >= attempt + 1 => post[k] = "unsent"
      BY DEF SubmissionInv, TypeOK, Attempts
    <3>3. Send(attempt + 1) /\ UNCHANGED <<dryRun, told, number>>
      BY <1>7, <2>2 DEF FallThrough
    <3>4. /\ outcome' \in [Attempts -> {"none", "answered", "unsure"}]
          /\ \A k \in Attempts : post[k] # "unsent" =>
                outcome'[k] = "unsure" \/ post[k] = "refused"
      BY <1>7, <2>1 DEF FallThrough, Answered, SubmissionInv, TypeOK
    <3> QED BY <2>1, <3>1, <3>2, <3>3, <3>4, Sending DEF SubmissionInv
  <2>3. CASE ~(attempt < MaxRetries)
    <3>1. /\ Notify("unreachable")
          /\ UNCHANGED <<dryRun, number, attempt, post, answer>>
      BY <1>7, <2>3 DEF FallThrough
    <3>2. Answered
      BY <1>7 DEF FallThrough
    <3> QED BY <2>1, <3>1, <3>2 DEF Notify, Answered, SubmissionInv, TypeOK
  <2> QED BY <2>2, <2>3
<1>8. CASE Terminal
  <2>1. pc = "waiting" /\ post[attempt] = "refused"
    BY <1>8 DEF Terminal, Got, Waiting, SubmissionInv
  <2>2. told' \in {"unreachable", "rejected"} /\ pc' = "done"
    BY <1>8 DEF Terminal, Notify
  <2> QED BY <1>8, <2>1, <2>2 DEF Terminal, Answered, SubmissionInv, TypeOK
<1>9. CASE Created
  <2>1. pc = "waiting"
    BY <1>9 DEF Created, Got, Waiting
  <2> QED BY <1>9, <2>1 DEF Created, Notify, Answered, SubmissionInv, TypeOK
<1>10. CASE Breaks
  <2>1. pc = "waiting"
    BY <1>10 DEF Breaks, Waiting
  <2> QED BY <1>10, <2>1 DEF Breaks, Crash, Unsure, SubmissionInv, TypeOK
<1> QED BY <1>1, <1>2, <1>3, <1>4, <1>5, <1>6, <1>7, <1>8, <1>9, <1>10 DEF Handler

\* SubmissionInv holds for ever.
THEOREM SubmissionInvariant == Spec => []SubmissionInv
<1>1. Init => SubmissionInv
  BY RetriesAssumption DEF Init, SubmissionInv, TypeOK, Attempts
<1>2. SubmissionInv /\ [Next]_vars => SubmissionInv'
  <2>1. SubmissionInv /\ UNCHANGED vars => SubmissionInv'
    BY DEF SubmissionInv, TypeOK, vars
  <2> QED BY <2>1, ServiceInv, HandlerInv DEF Next
<1> QED BY <1>1, <1>2, PTL DEF Spec

\* Every variable of a submission keeps its type.
THEOREM SubmissionTypes == Spec => []TypeOK
<1>1. SubmissionInv => TypeOK
  BY DEF SubmissionInv
<1> QED BY <1>1, SubmissionInvariant, PTL

\* Whatever the number of retries, a ticket the user is not told of was
\* created by an attempt whose end the client could not tell.
THEOREM TicketsAreAccountedFor == Spec => []TicketsAccountedFor
<1>1. SubmissionInv => TicketsAccountedFor
  BY DEF SubmissionInv, TicketsAccountedFor, Waiting
<1> QED BY <1>1, SubmissionInvariant, PTL

(***************************************************************************)
(* The dialog.                                                             *)
(***************************************************************************)

\* Values that are made from an analysis hold nothing of the sample, except
\* where the user has touched them.
FromAnalysis(values, touched) ==
    analysis # NoAnalysis =>
        /\ \A f \in {"email", "subject", "description", "priority"} \ touched :
              values[f] # "sample"
        /\ \A f \in {"system", "detail", "locations"} \ touched :
              analysis[f] = "" => Blank(values, f)
        /\ analysis.group # "IT" => values.group = "fallback"

\* The invariant behind the four about the dialog.  There is no analysis before
\* the click has one; the dialog opens with what the analysis gave, an issue of
\* its system, and a group.
FormInv ==
    /\ FormTypeOK
    /\ form \in {"none", "clicked"} => analysis = NoAnalysis
    /\ form = "dialog" =>
          /\ FromAnalysis(dialog, {})
          /\ dialog.detail \in MoreDetailOptions(dialog.system) \cup {""}
          /\ dialog.group # ""
    /\ NothingInvented
    /\ DetailBelongsToSystem
    /\ RequiredWidgetsSuffice

\* A draft has the fields of a ticket.
LEMMA ADraft ==
    ASSUME NEW d, d = [f \in Fields |-> d[f]],
           d.email \in Words, d.subject \in Words \cup {"tooLong"},
           d.description \in Words, d.system \in Systems \cup {""},
           d.detail \in Details \cup {""}, d.locations \in SUBSET Locations,
           d.priority \in Words, d.group \in {"", "IT", "Ops"}
    PROVE  d \in Tickets
BY DEF Tickets, Fields

\* What is given of a draft, and what is not.
LEMMA Drafting ==
    ASSUME NEW given
    PROVE  /\ MakeDraft(given) = [f \in Fields |-> MakeDraft(given)[f]]
           /\ \A f \in Fields :
                 MakeDraft(given)[f] = IF f \in DOMAIN given THEN given[f] ELSE Sample[f]
BY DEF MakeDraft

\* The samples are drafts.
LEMMA SamplesAreDrafts == SampleDrafts \cup StructuredDrafts \subseteq Tickets
<1> USE DEF Fields, Sample, Nothing, Words, Systems, Details, Locations
<1>1. MakeDraft(<<>>) \in Tickets
  <2>1. DOMAIN <<>> = {}
    OBVIOUS
  <2> QED BY <2>1, Drafting, ADraft
<1>2. MakeDraft([f \in {"subject", "locations"} |-> Nothing[f]]) \in Tickets
  BY Drafting, ADraft
<1>3. MakeDraft(Nothing) \in Tickets
  BY Drafting, ADraft
<1>4. ASSUME NEW g \in {"Ops", "IT"}
      PROVE  MakeDraft([subject |-> "said", description |-> "said", group |-> g]) \in Tickets
  BY <1>4, Drafting, ADraft
<1> QED BY <1>1, <1>2, <1>3, <1>4 DEF SampleDrafts, StructuredDrafts

\* A draft says nothing of the sample, and nothing where the analysis does not.
SaysNoMore(draft, found) ==
    /\ \A f \in {"email", "subject", "description", "priority"} : draft[f] # "sample"
    /\ \A f \in {"system", "detail", "locations"} : found[f] = "" => Blank(draft, f)
    /\ found.group # "IT" => draft.group = ""

\* So does every draft from an analysis.
LEMMA AnalysisDrafts ==
    ASSUME NEW found \in Analyses \cup {Fallback}, NEW email \in {"said", ""},
           NEW system \in Snap(found.system, Systems),
           NEW detail \in Snap(found.detail, MoreDetailOptions(system)),
           NEW place \in Snap(found.locations, Locations),
           NEW draft, draft = DraftOf(found, email, system, detail, place)
    PROVE  draft \in Tickets /\ SaysNoMore(draft, found)
<1> DEFINE given ==
       [email |-> email, subject |-> found.subject, description |-> "said",
        system |-> system, detail |-> detail, locations |-> {place} \ {""},
        priority |-> "said", group |-> IF found.group = "IT" THEN "IT" ELSE ""]
<1>1. /\ system \in Systems \cup {""} /\ (found.system = "" => system = "")
      /\ detail \in Details \cup {""} /\ (found.detail = "" => detail = "")
      /\ place \in Locations \cup {""} /\ (found.locations = "" => place = "")
  BY DEF Snap, MoreDetailOptions, Details
<1>2. found.subject \in {"said", "tooLong"}
  <2>1. Fallback.subject = "said"
    BY DEF Fallback
  <2>2. \A f \in Analyses : f.subject \in {"said", "tooLong"}
    BY DEF Analyses
  <2> QED BY <2>1, <2>2
<1>3. \A f \in Fields : f \in DOMAIN given /\ draft[f] = given[f]
  BY Drafting DEF Fields, DraftOf
<1>4. draft = [f \in Fields |-> draft[f]]
  BY Drafting DEF DraftOf
<1>5. /\ draft.email = email /\ draft.subject = found.subject
      /\ draft.description = "said" /\ draft.priority = "said"
      /\ draft.system = system /\ draft.detail = detail
      /\ draft.locations = {place} \ {""}
      /\ draft.group = IF found.group = "IT" THEN "IT" ELSE ""
  BY <1>3 DEF Fields
<1>6. draft \in Tickets
  BY <1>1, <1>2, <1>4, <1>5, ADraft DEF Words
<1>7. SaysNoMore(draft, found)
  BY <1>1, <1>2, <1>5 DEF SaysNoMore, Blank, Nothing, Fields
<1> QED BY <1>6, <1>7

\* The dialog shows a draft: an issue of its system, and a group.
LEMMA Showing ==
    ASSUME NEW draft \in Tickets
    PROVE  /\ Widgets(draft) \in Tickets
           /\ \A f \in Fields \ {"detail", "group"} : Widgets(draft)[f] = draft[f]
           /\ Widgets(draft).detail \in MoreDetailOptions(draft.system) \cup {""}
           /\ Widgets(draft).detail \in {draft.detail, ""}
           /\ Widgets(draft).group # ""
           /\ draft.group = "" => Widgets(draft).group = "fallback"
<1>1. /\ draft = [email |-> draft.email, subject |-> draft.subject,
                  description |-> draft.description, system |-> draft.system,
                  detail |-> draft.detail, locations |-> draft.locations,
                  priority |-> draft.priority, group |-> draft.group]
      /\ draft.detail \in Details \cup {""} /\ draft.group \in {"", "IT", "Ops", "fallback"}
  BY DEF Tickets
<1> DEFINE detail == IF draft.detail \in MoreDetailOptions(draft.system)
                     THEN draft.detail ELSE ""
           group == IF draft.group = "" THEN "fallback" ELSE draft.group
<1>2. Widgets(draft) = [draft EXCEPT !.detail = detail, !.group = group]
  BY DEF Widgets
<1>3. /\ detail \in Details \cup {""} /\ detail \in MoreDetailOptions(draft.system) \cup {""}
      /\ detail \in {draft.detail, ""}
      /\ group \in {"", "IT", "Ops", "fallback"} /\ group # ""
      /\ draft.group = "" => group = "fallback"
  BY <1>1
<1> HIDE DEF detail, group
<1>4. [draft EXCEPT !.detail = detail, !.group = group] \in Tickets
  BY <1>3 DEF Tickets
<1>5. /\ \A f \in Fields \ {"detail", "group"} : Widgets(draft)[f] = draft[f]
      /\ Widgets(draft).detail = detail /\ Widgets(draft).group = group
  BY <1>2 DEF Tickets, Fields
<1> QED BY <1>2, <1>3, <1>4, <1>5

\* The widgets by what is in a ticket.
LEMMA TicketFields ==
    ASSUME NEW t \in Tickets
    PROVE  /\ t.email \in Words \cup {"invalid"} /\ t.subject \in Words \cup {"tooLong"}
           /\ t.description \in Words /\ t.system \in Systems \cup {""}
           /\ t.detail \in Details \cup {""} /\ t.locations \in SUBSET Locations
           /\ t.priority \in Words /\ t.group \in {"", "IT", "Ops", "fallback"}
BY DEF Tickets

LEMMA NothingIsATicket == Nothing \in Tickets
BY DEF Nothing, Tickets, Fields, Words

\* The dialog opens on a draft of its own, or of an analysis.
LEMMA OpensInv ==
    ASSUME FormInv, NEW draft \in Tickets, Opens(draft),
           analysis' \in Analyses \cup {Fallback, NoAnalysis},
           analysis' # NoAnalysis => SaysNoMore(draft, analysis'),
           UNCHANGED <<ticket, edited>>
    PROVE  FormInv'
<1> USE DEF Opens
<1>1. /\ dialog' \in Tickets
      /\ \A f \in Fields \ {"detail", "group"} : dialog'[f] = draft[f]
      /\ dialog'.detail \in MoreDetailOptions(dialog'.system) \cup {""}
      /\ dialog'.detail \in {draft.detail, ""}
      /\ dialog'.group # "" /\ (draft.group = "" => dialog'.group = "fallback")
  BY Showing DEF Fields
<1>2. FormTypeOK'
  BY <1>1 DEF FormInv, FormTypeOK
<1>3. FromAnalysis(dialog, {})'
  BY <1>1 DEF FromAnalysis, SaysNoMore, Fields, Blank, Nothing
<1> QED BY <1>1, <1>2, <1>3
        DEF FormInv, NothingInvented, DetailBelongsToSystem, RequiredWidgetsSuffice

\* A button opens the dialog, at once or with an analysis.
LEMMA OpeningInv ==
    FormInv /\ ChatTypeOK /\ (OpenSample \/ ClickCreateTicket \/ AnalysisAnswers
                                \/ AnalysisTimesOut \/ ClickFails) => FormInv'
<1> SUFFICES ASSUME FormInv, ChatTypeOK,
                    OpenSample \/ ClickCreateTicket \/ AnalysisAnswers
                      \/ AnalysisTimesOut \/ ClickFails
             PROVE  FormInv'
  OBVIOUS
<1>1. CASE OpenSample
  <2>1. PICK draft \in SampleDrafts \cup StructuredDrafts : Opens(draft)
    BY <1>1 DEF OpenSample
  <2>2. draft \in Tickets
    BY SamplesAreDrafts
  <2>3. analysis' = NoAnalysis /\ UNCHANGED <<ticket, edited>>
    BY <1>1 DEF OpenSample, FormInv
  <2> QED BY <2>1, <2>2, <2>3, OpensInv
<1>2. CASE ClickCreateTicket
  <2>1. seed' \in SUBSET Kinds /\ form' = "clicked"
    BY <1>2 DEF ClickCreateTicket, ChatTypeOK
  <2>2. form = "none" /\ UNCHANGED <<analysis, dialog, ticket, edited>>
    BY <1>2 DEF ClickCreateTicket
  <2> QED BY <2>1, <2>2 DEF FormInv, FormTypeOK, NothingInvented,
             DetailBelongsToSystem, RequiredWidgetsSuffice
<1>3. ASSUME NEW analyses \in SUBSET (Analyses \cup {Fallback}), DraftFrom(analyses)
      PROVE  FormInv'
  <2>1. PICK email \in {"said", ""}, system \in Snap(analysis'.system, Systems),
             place \in Snap(analysis'.locations, Locations) :
           \E detail \in Snap(analysis'.detail, MoreDetailOptions(system)) :
              Opens(DraftOf(analysis', email, system, detail, place))
    BY <1>3 DEF DraftFrom
  <2>2. PICK detail \in Snap(analysis'.detail, MoreDetailOptions(system)) :
           Opens(DraftOf(analysis', email, system, detail, place))
    BY <2>1
  <2>3. analysis' \in Analyses \cup {Fallback} /\ UNCHANGED <<ticket, edited>>
    BY <1>3 DEF DraftFrom
  <2>4. PICK found \in Analyses \cup {Fallback} : found = analysis'
    BY <2>3
  <2>5. PICK draft : draft = DraftOf(found, email, system, detail, place)
    OBVIOUS
  <2>6. /\ system \in Snap(found.system, Systems)
        /\ detail \in Snap(found.detail, MoreDetailOptions(system))
        /\ place \in Snap(found.locations, Locations)
    BY <2>4
  <2>7. draft \in Tickets /\ SaysNoMore(draft, analysis')
    BY <2>4, <2>5, <2>6, AnalysisDrafts
  <2> QED BY <2>2, <2>3, <2>4, <2>5, <2>7, OpensInv
<1>4. CASE AnalysisAnswers \/ AnalysisTimesOut
  BY <1>3, <1>4 DEF AnalysisAnswers, AnalysisTimesOut
<1>5. CASE ClickFails
  BY <1>5 DEF ClickFails, FormInv, FormTypeOK, NothingInvented,
     DetailBelongsToSystem, RequiredWidgetsSuffice
<1> QED BY <1>1, <1>2, <1>4, <1>5

\* What can be put into a widget.
LEMMA EntriesFit ==
    /\ \A v \in Entries("email") : v \in {"typed", "invalid"}
    /\ \A v \in Entries("subject") : v \in {"typed", "tooLong"}
    /\ \A v \in Entries("description") : v = "typed"
    /\ \A v \in Entries("priority") : v = "typed"
    /\ \A v \in Entries("system") : v \in Systems
    /\ \A v \in Entries("detail") : v \in MoreDetailOptions(dialog.system)
    /\ \A v \in Entries("locations") : v \in SUBSET Locations /\ v # {}
BY DEF Entries, IssuesOffered

\* What is sent: the values of the dialog, and what the user has put in.
LEMMA Sent ==
    ASSUME PressSubmit
    PROVE  /\ \A f \in Fields \ {"group"} :
                 /\ f \notin edited' => ticket'[f] = dialog[f]
                 /\ f \in edited' => ticket'[f] \in Entries(f)
           /\ ticket'.group = dialog.group
           /\ ticket' = [email |-> ticket'.email, subject |-> ticket'.subject,
                  description |-> ticket'.description, system |-> ticket'.system,
                  detail |-> ticket'.detail, locations |-> ticket'.locations,
                  priority |-> ticket'.priority, group |-> ticket'.group]
<1>1. ticket' \in [email : ValueOf("email"), subject : ValueOf("subject"),
                    description : ValueOf("description"),
                    system : ValueOf("system"), detail : ValueOf("detail"),
                    locations : ValueOf("locations"),
                    priority : ValueOf("priority"), group : {dialog.group}]
  BY DEF PressSubmit
<1>2. \A w, v : v \in ValueOf(w) =>
         (w \notin edited' => v = dialog[w]) /\ (w \in edited' => v \in Entries(w))
  BY DEF ValueOf
<1>3. /\ ticket'.email \in ValueOf("email") /\ ticket'.subject \in ValueOf("subject")
      /\ ticket'.description \in ValueOf("description")
      /\ ticket'.system \in ValueOf("system") /\ ticket'.detail \in ValueOf("detail")
      /\ ticket'.locations \in ValueOf("locations")
      /\ ticket'.priority \in ValueOf("priority") /\ ticket'.group = dialog.group
  BY <1>1
<1>4. \A f \in Fields \ {"group"} : ticket'[f] \in ValueOf(f)
  BY <1>3 DEF Fields
<1> QED BY <1>1, <1>2, <1>3, <1>4

\* The ticket is sent.
LEMMA SubmitInv == FormInv /\ PressSubmit => FormInv'
<1> SUFFICES ASSUME FormInv, PressSubmit PROVE FormInv'
  OBVIOUS
<1>1. /\ form = "dialog" /\ form' = "submitted" /\ dialog' = Nothing
      /\ UNCHANGED <<seed, analysis>>
  BY DEF PressSubmit
<1>2. /\ edited' \in SUBSET (Fields \ {"group"})
      /\ \A w \in Required : Blank(dialog, w) => w \in edited'
  BY DEF PressSubmit, Required, Fields
<1>3. /\ dialog \in Tickets /\ dialog.group # "" /\ FromAnalysis(dialog, {})
      /\ dialog.detail \in MoreDetailOptions(dialog.system) \cup {""}
  BY <1>1 DEF FormInv, FormTypeOK
<1>4. ticket' \in Tickets
  <2>1. /\ ticket'.email \in Words \cup {"invalid"}
        /\ ticket'.subject \in Words \cup {"tooLong"}
        /\ ticket'.description \in Words /\ ticket'.system \in Systems \cup {""}
        /\ ticket'.detail \in Details \cup {""} /\ ticket'.locations \in SUBSET Locations
        /\ ticket'.priority \in Words /\ ticket'.group \in {"", "IT", "Ops", "fallback"}
    BY <1>3, Sent, EntriesFit, TicketFields DEF Fields, Words, MoreDetailOptions, Details
  <2> QED BY <2>1, Sent DEF Tickets
<1>5. FormTypeOK'
  BY <1>1, <1>2, <1>4, NothingIsATicket DEF FormInv, FormTypeOK
\* What the user has not touched is as it was; what he puts in is no sample.
<1>6. NothingInvented'
  <2>1. FromAnalysis(ticket', edited')
    BY <1>3, Sent DEF FromAnalysis, Fields, Blank
  <2> QED BY <1>1, <2>1 DEF FromAnalysis, NothingInvented, Blank
<1>7. DetailBelongsToSystem'
  <2>1. ASSUME "system" \notin edited'
        PROVE  ticket'.detail \in MoreDetailOptions(ticket'.system) \cup {""}
    <3>1. ticket'.system = dialog.system
      BY <2>1, Sent DEF Fields
    <3>2. ticket'.detail \in MoreDetailOptions(dialog.system) \cup {""}
      BY <1>3, Sent, EntriesFit DEF Fields
    <3> QED BY <3>1, <3>2
  <2> QED BY <2>1 DEF DetailBelongsToSystem
\* What was blank and is required has been filled in.
<1>8. \A w \in Required : ~Blank(ticket', w)
  <2>1. ASSUME NEW w \in Required, w \notin edited'
        PROVE  ~Blank(ticket', w)
    BY <1>2, <2>1, Sent DEF Blank, Required, Fields
  <2>2. ASSUME NEW w \in Required, w \in edited'
        PROVE  ~Blank(ticket', w)
    <3>1. ticket'[w] \in Entries(w)
      BY <2>2, Sent DEF Required, Fields
    <3> QED BY <3>1, EntriesFit DEF Blank, Required, Nothing, Fields, Systems
  <2> QED BY <2>1, <2>2
<1>9. RequiredWidgetsSuffice'
  <2>1. ticket'.email # "" /\ ticket'.subject # "" /\ ticket'.description # ""
        /\ ticket'.priority # "" /\ ticket'.locations # {}
    BY <1>8 DEF Blank, Required, Nothing, Fields
  <2> QED BY <1>3, <2>1, Sent DEF RequiredWidgetsSuffice, FitsSchema
<1> QED BY <1>1, <1>5, <1>6, <1>7, <1>9 DEF FormInv

\* The dialog is dismissed, or the handler takes what it sent.
LEMMA ClosingInv == FormInv /\ (Dismiss \/ TakeTicket) => FormInv'
<1> SUFFICES ASSUME FormInv, Dismiss \/ TakeTicket PROVE FormInv'
  OBVIOUS
<1> USE NothingIsATicket
        DEF FormInv, FormTypeOK, NothingInvented, DetailBelongsToSystem,
            RequiredWidgetsSuffice
<1>1. CASE Dismiss
  BY <1>1 DEF Dismiss
<1>2. CASE TakeTicket
  BY <1>2 DEF TakeTicket
<1> QED BY <1>1, <1>2

(***************************************************************************)
(* The service.                                                            *)
(***************************************************************************)

\* The text of the button that was clicked, which the analysis gets as the
\* question, has no personal data that both scanners know.
SeedIsRedacted == seed \cap KnownKinds = {}

\* The messages, the dialog and the submission, each with its own invariant.
ConversationInv == SubmissionInv /\ ChatInv /\ FormInv /\ SeedIsRedacted

\* What leaves its variables alone preserves each of them.
LEMMA Apart ==
    /\ SubmissionInv /\ UNCHANGED vars => SubmissionInv'
    /\ ChatInv /\ UNCHANGED chatVars => ChatInv'
    /\ FormInv /\ UNCHANGED formVars => FormInv'
    /\ SeedIsRedacted /\ UNCHANGED formVars => SeedIsRedacted'
<1>1. SubmissionInv /\ UNCHANGED vars => SubmissionInv'
  BY DEF SubmissionInv, TypeOK, vars
<1>2. ChatInv /\ UNCHANGED chatVars => ChatInv'
  BY ChatStepInv
<1>3. FormInv /\ UNCHANGED formVars => FormInv'
  BY DEF formVars, FormInv, FormTypeOK, FromAnalysis, NothingInvented,
         DetailBelongsToSystem, RequiredWidgetsSuffice, Blank, FitsSchema
<1>4. SeedIsRedacted /\ UNCHANGED formVars => SeedIsRedacted'
  BY DEF formVars, SeedIsRedacted
<1> QED BY <1>1, <1>2, <1>3, <1>4

\* Of the dialog only the click on "Create Ticket" touches the chat: the cards
\* are forgotten.
LEMMA DialogChat == ChatInv /\ FormStep => ChatInv'
<1> SUFFICES ASSUME ChatInv, FormStep PROVE ChatInv'
  OBVIOUS
<1>1. CASE ClickCreateTicket
  <2>1. /\ buttons' = {} /\ shown' = NoReply /\ prompted' = FALSE
        /\ UNCHANGED <<settings, sent, at, message, raw, result, history, tasks,
                       query, reply, memory, notice, referral>>
    BY <1>1 DEF ClickCreateTicket
  <2>2. (UNION buttons') \cap KnownKinds = {} /\ prompted' \in BOOLEAN
    BY <2>1, Zenon
  <2> QED BY <2>1, <2>2, Nothings
          DEF ChatInv, ChatTypeOK, KnownPiiStaysOut, settings, tasks
<1>2. CASE FormStep /\ ~ClickCreateTicket
  <2>1. UNCHANGED chatVars
    BY <1>2 DEF FormStep, OpenSample, AnalysisAnswers, AnalysisTimesOut, DraftFrom,
       ClickFails, Dismiss, PressSubmit
  <2> QED BY <2>1, Apart
<1> QED BY <1>1, <1>2

\* The seed is one of those in the chat.
LEMMA DialogSeed == ChatInv /\ SeedIsRedacted /\ (FormStep \/ TakeTicket) => SeedIsRedacted'
<1> SUFFICES ASSUME ChatInv, SeedIsRedacted, FormStep \/ TakeTicket
             PROVE  SeedIsRedacted'
  OBVIOUS
<1>1. CASE ClickCreateTicket
  <2>1. seed' \in buttons /\ (UNION buttons) \cap KnownKinds = {}
    BY <1>1 DEF ClickCreateTicket, ChatInv, KnownPiiStaysOut
  <2> QED BY <2>1, UnionApart DEF SeedIsRedacted
<1>2. CASE ~ClickCreateTicket
  <2>1. seed' = {} \/ seed' = seed
    BY <1>2 DEF FormStep, OpenSample, AnalysisAnswers, AnalysisTimesOut, DraftFrom,
       Opens, ClickFails, Dismiss, PressSubmit, TakeTicket
  <2> QED BY <2>1 DEF SeedIsRedacted
<1> QED BY <1>1, <1>2

\* The first state.
LEMMA ConversationInit == ServiceInit => ConversationInv
<1> SUFFICES ASSUME ServiceInit PROVE ConversationInv
  OBVIOUS
<1>1. SubmissionInv
  BY RetriesAssumption DEF ServiceInit, Init, SubmissionInv, TypeOK, Attempts
<1>2. ChatInv
  BY ChatInitInv DEF ServiceInit
<1>3. FormInv
  BY NothingIsATicket DEF ServiceInit, FormInit, FormInv, FormTypeOK,
     NothingInvented, DetailBelongsToSystem, RequiredWidgetsSuffice
<1>4. SeedIsRedacted
  BY DEF ServiceInit, FormInit, SeedIsRedacted
<1> QED BY <1>1, <1>2, <1>3, <1>4 DEF ConversationInv

\* Every step preserves it.
LEMMA ConversationStep ==
    ConversationInv /\ [ServiceNext]_serviceVars => ConversationInv'
<1> SUFFICES ASSUME ConversationInv, [ServiceNext]_serviceVars PROVE ConversationInv'
  OBVIOUS
<1> USE DEF ConversationInv
<1>1. CASE Chatting
  <2>1. ChatStep /\ UNCHANGED vars /\ UNCHANGED formVars
    BY <1>1 DEF Chatting
  <2> QED BY <2>1, ChatStepInv, Apart
<1>2. CASE FillingIn
  <2>1. FormStep /\ UNCHANGED vars
    BY <1>2 DEF FillingIn
  <2>2. FormInv'
    BY <2>1, OpeningInv, SubmitInv, ClosingInv DEF FormStep, ChatInv
  <2> QED BY <2>1, <2>2, DialogChat, DialogSeed, Apart
<1>3. CASE Submitting
  <2>1. TakeTicket /\ (BadEntries \/ DryRun \/ Submit) /\ UNCHANGED chatVars
    BY <1>3 DEF Submitting
  <2> QED BY <2>1, HandlerInv, ClosingInv, DialogSeed, Apart
<1>4. CASE Ticketed
  <2>1. /\ Handler \/ \E n \in Attempts : Create(n) \/ Refuse(n) \/ Drop(n)
        /\ UNCHANGED chatVars /\ UNCHANGED formVars
    BY <1>4 DEF Ticketed
  <2> QED BY <2>1, HandlerInv, ServiceInv, Apart
<1>5. CASE UNCHANGED serviceVars
  BY <1>5, Apart DEF serviceVars
<1> QED BY <1>1, <1>2, <1>3, <1>4, <1>5 DEF ServiceNext

\* Throughout a conversation.
THEOREM ConversationInvariant == ServiceSpec => []ConversationInv
<1> QED BY ConversationInit, ConversationStep, PTL DEF ServiceSpec

\* Every variable of the dialog has its type.
THEOREM FormTypes == ServiceSpec => []FormTypeOK
<1>1. ConversationInv => FormTypeOK
  BY DEF ConversationInv, FormInv
<1> QED BY <1>1, ConversationInvariant, PTL

\* A ticket from a conversation says nothing that neither the conversation nor
\* the user said, whatever Gemini makes of it and whatever is edited
\* (sample_drafts.py, `make_draft`; ticket_analysis.py; dialog.py).
THEOREM NothingIsInvented == ServiceSpec => []NothingInvented
<1>1. ConversationInv => NothingInvented
  BY DEF ConversationInv, FormInv
<1> QED BY <1>1, ConversationInvariant, PTL

\* The issue of a ticket is one of its system's unless the user has changed the
\* system (form_options.py, `more_detail_items`).
THEOREM DetailsBelongToSystems == ServiceSpec => []DetailBelongsToSystem
<1>1. ConversationInv => DetailBelongsToSystem
  BY DEF ConversationInv, FormInv
<1> QED BY <1>1, ConversationInvariant, PTL

\* What the required widgets let through lacks nothing that the schema of the
\* ticket asks for (dialog.py, `requiredWidgets`; schemas/ticket.py).
THEOREM RequiredWidgetsAreEnough == ServiceSpec => []RequiredWidgetsSuffice
<1>1. ConversationInv => RequiredWidgetsSuffice
  BY DEF ConversationInv, FormInv
<1> QED BY <1>1, ConversationInvariant, PTL

\* Nor does a ticket button take personal data that both scanners know to the
\* analysis (main.py, `ticket_seed`).
THEOREM TicketSeedsAreRedacted == ServiceSpec => []SeedIsRedacted
<1>1. ConversationInv => SeedIsRedacted
  BY DEF ConversationInv
<1> QED BY <1>1, ConversationInvariant, PTL

\* With its dialog before it and the chat beside it, a submission is one of
\* Ticketing: what is proved of those is true of it.
THEOREM ServiceSubmits == ServiceSpec => Spec
<1>1. ServiceInit => Init
  BY DEF ServiceInit
<1>2. [ServiceNext]_serviceVars => [Next]_vars
  <2> SUFFICES ASSUME [ServiceNext]_serviceVars PROVE [Next]_vars
    OBVIOUS
  <2>1. CASE Chatting \/ FillingIn
    BY <2>1 DEF Chatting, FillingIn
  <2>2. CASE Submitting
    BY <2>2 DEF Submitting, Next
  <2>3. CASE Ticketed
    BY <2>3 DEF Ticketed, Next
  <2>4. CASE UNCHANGED serviceVars
    BY <2>4 DEF serviceVars
  <2> QED BY <2>1, <2>2, <2>3, <2>4 DEF ServiceNext
<1> QED BY <1>1, <1>2, PTL DEF ServiceSpec, Spec

\* So a ticket that the user is not told of was created by an attempt whose end
\* the client could not tell, in a conversation too.
COROLLARY ServiceAccountsForTickets == ServiceSpec => []TicketsAccountedFor
<1> QED BY ServiceSubmits, TicketsAreAccountedFor, PTL

\* With a dialog and a submission beside them, messages go where they go alone.
THEOREM ServiceKeepsPiiOut == ServiceSpec => []KnownPiiStaysOut
<1>1. ConversationInv => KnownPiiStaysOut
  BY DEF ConversationInv, ChatInv
<1> QED BY <1>1, ConversationInvariant, PTL

\* A step of the service is one of the chat, or leaves `at` alone.
LEMMA ChatStepsApart ==
    [ServiceNext]_serviceVars =>
        [ChatStep]_chatVars \/ (at' = at /\ at = "idle")
<1> SUFFICES ASSUME [ServiceNext]_serviceVars
             PROVE  [ChatStep]_chatVars \/ (at' = at /\ at = "idle")
  OBVIOUS
<1>1. CASE Chatting
  BY <1>1 DEF Chatting
<1>2. CASE FillingIn
  BY <1>2 DEF FillingIn, FormStep, OpenSample, ClickCreateTicket, AnalysisAnswers,
     AnalysisTimesOut, DraftFrom, ClickFails, Dismiss, PressSubmit
<1>3. CASE Submitting \/ Ticketed
  BY <1>3 DEF Submitting, Ticketed
<1>4. CASE UNCHANGED serviceVars
  BY <1>4 DEF serviceVars
<1> QED BY <1>1, <1>2, <1>3, <1>4 DEF ServiceNext

\* The loudest alarm wins in a conversation that ends in a ticket.
THEOREM ServiceHeedsAlarms == ServiceSpec => LoudestAlarmWins
<1>1. ConversationInv /\ [ServiceNext]_serviceVars =>
         [at = "received" /\ at' \in {"stopped", "passed"} => LoudestHeeded]_chatVars
  BY ChatStepsApart, LoudestStep DEF ConversationInv
<1> QED BY <1>1, ConversationInvariant, PTL DEF ServiceSpec, LoudestAlarmWins

\* And the referral to a supervisor is kept in it.
THEOREM ServiceKeepsReferral == ServiceSpec => SafetyReferralKept
<1>1. ConversationInv /\ [ServiceNext]_serviceVars =>
         [at = "replying" /\ at' = "idle" /\ shown'.from # "error" => ReferralGiven]_chatVars
  BY ChatStepsApart, ReferralStep DEF ConversationInv
<1>2. [][at = "replying" /\ at' = "idle" /\ shown'.from # "error" => ReferralGiven]_chatVars
         => SafetyReferralKept
  BY DEF SafetyReferralKept, ReferralGiven
<1> QED BY <1>1, <1>2, ConversationInvariant, PTL DEF ServiceSpec
=============================================================================
