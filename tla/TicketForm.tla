----------------------------- MODULE TicketForm -----------------------------
(***************************************************************************)
(* The ticket dialog of the chat service: from the click on "Create        *)
(* Ticket", or on a button that opens a sample, over the draft to what the *)
(* dialog sends back.  What happens to the ticket then is in Ticketing.    *)
(*                                                                         *)
(* A draft starts from a sample and is overridden field by field.  Of a    *)
(* text the model keeps where it is from: "said" in the conversation, out  *)
(* of the "sample", "typed" by the user, or "", none.                      *)
(*                                                                         *)
(* Google Chat shows the widgets, and sends their values once none of the  *)
(* required ones is blank.                                                 *)
(***************************************************************************)
EXTENDS ChatTurn

\* Of 75 systems one with a list of issues without "Other", one with "Other",
\* and one of the 35 that have no list.
Systems == {"Google Apps", "Computer/Laptop", "Zoom Conferencing"}
Locations == {"Raleigh Condos", "The Forum at Sam Houston"}
Details == {"Password Issues", "Other"}

MoreDetailOptions(system) ==
    CASE system = "Google Apps" -> {"Password Issues"}
      [] system = "Computer/Laptop" -> {"Other"}
      [] OTHER -> {}

Fields == {"email", "subject", "description", "system", "detail", "locations",
           "priority", "group"}

Nothing == [f \in Fields |-> IF f = "locations" THEN {} ELSE ""]
Blank(values, f) == values[f] = Nothing[f]

(***************************************************************************)
(* Drafts.                                                                 *)
(***************************************************************************)

Sample ==
    [email |-> "sample", subject |-> "sample", description |-> "sample",
     system |-> "Google Apps", detail |-> "Other",
     locations |-> {"Raleigh Condos"}, priority |-> "sample", group |-> "IT"]

\* Mutation of MakeDraft: a field that is given as nothing is not given.
MakeDraftUnlessNone(given) ==
    [f \in Fields |->
        IF f \in DOMAIN given /\ ~Blank(given, f) THEN given[f] ELSE Sample[f]]

\* make_draft: what is given replaces what is in the sample, also by nothing.
MakeDraft(given) ==
    [f \in Fields |-> IF f \in DOMAIN given THEN given[f] ELSE Sample[f]]

\* The full, the partial and the empty draft.
SampleDrafts ==
    {MakeDraft(<<>>),
     MakeDraft([f \in {"subject", "locations"} |-> Nothing[f]]),
     MakeDraft(Nothing)}

\* The two structured requests, whose values are fixed too.
StructuredDrafts ==
    {MakeDraft([subject |-> "said", description |-> "said", group |-> g]) :
        g \in {"Ops", "IT"}}

\* What Gemini makes of the conversation: its words for the system, the issue
\* and the location, if it has any, and the label of a group.  A subject of
\* more than 255 characters is not cut.
Analyses ==
    [subject : {"said", "tooLong"}, system : {"", "said"}, detail : {"", "said"},
     locations : {"", "said"}, group : {"IT", "HR"}]

\* _fallback: the question is the subject, the rest is left open.
Fallback ==
    [subject |-> "said", system |-> "", detail |-> "", locations |-> "",
     group |-> "general"]

\* The draft is not made from an analysis.
NoAnalysis == [Fallback EXCEPT !.subject = "", !.group = ""]

\* Mutation of Snap: the words are passed on as they are.
SnapNothing(words, vocabulary) == {words}

\* snap_to_vocabulary: the item closest to the words, or none if none is close.
Snap(words, vocabulary) ==
    {""} \cup (IF words = "" THEN {} ELSE vocabulary)

\* analysis_to_draft_fields, with what the vocabularies have made of the words
\* for the system, the issue and the location.  Every field is given, as nothing if the analysis
\* does not know it; HR and "general" have no group.
DraftOf(found, email, system, detail, place) ==
    MakeDraft(
        [email |-> email, subject |-> found.subject, description |-> "said",
         system |-> system, detail |-> detail, locations |-> {place} \ {""},
         priority |-> "said", group |-> IF found.group = "IT" THEN "IT" ELSE ""])

(***************************************************************************)
(* The dialog.                                                             *)
(***************************************************************************)

VARIABLES
    form,       \* where the click on a ticket button has got
    seed,       \* the text in the button that was clicked
    analysis,   \* history: the analysis that the draft was made from
    dialog,     \* the values of the widgets when the dialog opens
    ticket,     \* what the dialog sends back
    edited      \* history: the widgets that the user changed

formVars == <<form, seed, analysis, dialog, ticket, edited>>

FormInit ==
    /\ form = "none"
    /\ seed = {}
    /\ analysis = NoAnalysis
    /\ dialog = Nothing /\ ticket = Nothing
    /\ edited = {}

\* open_dialog: a value that is no option of its widget is not selected.  The
\* group has no widget; it travels with the button.
Widgets(draft) ==
    [draft EXCEPT
        !.detail = IF @ \in MoreDetailOptions(draft.system) THEN @ ELSE "",
        !.group = IF @ = "" THEN "fallback" ELSE @]

Opens(draft) ==
    /\ form' = "dialog"
    /\ dialog' = Widgets(draft)
    /\ seed' = {}

\* A button of trigger_card.  They are tried before the first message (bound).
OpenSample ==
    /\ form = "none" /\ at = "idle" /\ sent = 0
    /\ \E draft \in SampleDrafts \cup StructuredDrafts : Opens(draft)
    /\ UNCHANGED <<chatVars, analysis, ticket, edited>>

\* "Create Ticket" is clicked after the last message, on one of the buttons.  It
\* is the last thing that the user opens, so the cards are forgotten (bounds).
ClickCreateTicket ==
    /\ form = "none" /\ at = "idle" /\ notice # "owed"
    /\ sent = MaxMessages
    /\ seed' \in buttons
    /\ form' = "clicked"
    /\ buttons' = {} /\ shown' = NoReply /\ prompted' = FALSE
    /\ UNCHANGED <<settings, sent, at, message, raw, result, history, tasks,
                   query, reply, memory, notice, referral>>
    /\ UNCHANGED <<analysis, dialog, ticket, edited>>

\* The email is in the button or in the event of the click, or in neither.  The
\* issue is looked for among those of the system.
DraftFrom(analyses) ==
    /\ form = "clicked"
    /\ analysis' \in analyses
    /\ \E email \in {"said", ""}, system \in Snap(analysis'.system, Systems),
          place \in Snap(analysis'.locations, Locations) :
          \E detail \in Snap(analysis'.detail, MoreDetailOptions(system)) :
             Opens(DraftOf(analysis', email, system, detail, place))
    /\ UNCHANGED <<chatVars, ticket, edited>>

AnalysisAnswers == DraftFrom(Analyses)

\* Mutation of AnalysisTimesOut: no timeout.
AnalysisWaits == FALSE

\* Eight seconds, an error, or an answer that is no JSON.
AnalysisTimesOut == DraftFrom({Fallback})

\* The history cannot be read, the answer is JSON and no object, or the
\* instance dies: Google Chat reports an error.
ClickFails ==
    /\ form = "clicked"
    /\ form' = "failed" /\ seed' = {}
    /\ UNCHANGED <<chatVars, analysis, dialog, ticket, edited>>

Dismiss ==
    /\ form = "dialog"
    /\ form' = "dismissed"
    /\ dialog' = Nothing /\ analysis' = NoAnalysis
    /\ UNCHANGED <<chatVars, seed, ticket, edited>>

\* Mutation of Required: the location is optional.
RequiredButLocation ==
    {"email", "subject", "system", "priority", "description"}

\* requiredWidgets.
Required ==
    {"email", "subject", "locations", "system", "priority", "description"}

\* Mutation of IssuesOffered: one list for all systems.
AllIssuesOffered == Details

\* more_detail_items: the issues of the system of the draft, also when the user
\* has changed the system.
IssuesOffered == MoreDetailOptions(dialog.system)

\* What can be put into a widget.
Entries(widget) ==
    CASE widget = "email" -> {"typed", "invalid"}
      [] widget = "subject" -> {"typed", "tooLong"}
      [] widget = "system" -> Systems
      [] widget = "detail" -> IssuesOffered
      [] widget = "locations" -> {{l} : l \in Locations}
      [] OTHER -> {"typed"}

ValueOf(widget) == IF widget \in edited' THEN Entries(widget) ELSE {dialog[widget]}

\* The user fills in what is required and blank, and changes one more widget
\* at most (bound).
PressSubmit ==
    /\ form = "dialog"
    /\ \E more \in {{}} \cup {{w} : w \in Fields \ {"group"}} :
          edited' = {w \in Required : Blank(dialog, w)} \cup more
    /\ ticket' \in [email : ValueOf("email"), subject : ValueOf("subject"),
                    description : ValueOf("description"),
                    system : ValueOf("system"), detail : ValueOf("detail"),
                    locations : ValueOf("locations"),
                    priority : ValueOf("priority"), group : {dialog.group}]
    /\ form' = "submitted"
    /\ dialog' = Nothing
    /\ UNCHANGED <<chatVars, seed, analysis>>

\* build_ticket_payload raises unless the values fit the schema.  The issue may
\* be the empty string; the computer name is not read at all.
FitsSchema(values) ==
    /\ values.email \notin {"", "invalid"}
    /\ values.subject \notin {"", "tooLong"}
    /\ values.description # "" /\ values.priority # "" /\ values.group # ""
    /\ values.locations # {}

\* The handler of the submission has got the values: they are forgotten.
TakeTicket ==
    /\ form = "submitted"
    /\ form' = "closed"
    /\ ticket' = Nothing /\ analysis' = NoAnalysis /\ edited' = {}
    /\ UNCHANGED <<seed, dialog>>

FormStep ==
    \/ OpenSample \/ ClickCreateTicket
    \/ AnalysisAnswers \/ AnalysisTimesOut \/ ClickFails
    \/ Dismiss \/ PressSubmit

(***************************************************************************)
(* Properties.                                                             *)
(***************************************************************************)

Words == {"", "said", "sample", "typed"}

Tickets ==
    [email : Words \cup {"invalid"}, subject : Words \cup {"tooLong"},
     description : Words, system : Systems \cup {""}, detail : Details \cup {""},
     locations : SUBSET Locations, priority : Words,
     group : {"", "IT", "Ops", "fallback"}]

\* Every variable has its type.
FormTypeOK ==
    /\ form \in {"none", "clicked", "dialog", "dismissed", "submitted", "closed",
                 "failed"}
    /\ seed \in SUBSET Kinds
    /\ analysis \in Analyses \cup {Fallback, NoAnalysis}
    /\ dialog \in Tickets /\ ticket \in Tickets
    /\ edited \in SUBSET (Fields \ {"group"})

\* A ticket that starts from a conversation holds what was said in it and what
\* the user put in: where the analysis knew nothing there is nothing, and never
\* a value of the sample that every draft is built on.
NothingInvented ==
    form = "submitted" /\ analysis # NoAnalysis =>
        /\ \A f \in {"email", "subject", "description", "priority"} \ edited :
              ticket[f] # "sample"
        /\ \A f \in {"system", "detail", "locations"} \ edited :
              analysis[f] = "" => Blank(ticket, f)
        /\ analysis.group # "IT" => ticket.group = "fallback"

\* The issue is one of the system's unless the user chose another system than
\* the one that the dialog was opened with.
DetailBelongsToSystem ==
    form = "submitted" /\ "system" \notin edited =>
        ticket.detail \in MoreDetailOptions(ticket.system) \cup {""}

\* What the dialog lets through is turned down afterwards only for an entry
\* that is there and wrong, never for one that is missing.
RequiredWidgetsSuffice ==
    form = "submitted" /\ ticket.email # "invalid" /\ ticket.subject # "tooLong" =>
        FitsSchema(ticket)

\* A click on "Create Ticket" opens a dialog, if only with the question in it,
\* or ends in an error.
EveryClickEnds == form = "clicked" ~> form \in {"dialog", "failed"}
=============================================================================
