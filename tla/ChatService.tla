---------------------------- MODULE ChatService ----------------------------
(***************************************************************************)
(* A conversation that ends in a ticket: the messages of ChatTurn, the     *)
(* dialog of TicketForm, and the submission of Ticketing, in one instance  *)
(* of the chat service.                                                    *)
(***************************************************************************)
EXTENDS Ticketing, TicketForm

serviceVars == <<vars, chatVars, formVars>>

\* The settings have nothing to do with each other: a dry run is tried without
\* Gemini (bound).
ServiceInit ==
    /\ Init /\ ChatInit /\ FormInit
    /\ dryRun => ~gemini

\* A dialog covers the chat.
Chatting ==
    /\ form = "none"
    /\ ChatStep
    /\ UNCHANGED <<vars, formVars>>

FillingIn ==
    /\ FormStep
    /\ UNCHANGED vars

\* The branch submitNameDialog: the payload is built and validated first.
Submitting ==
    /\ TakeTicket
    /\ IF FitsSchema(ticket) THEN DryRun \/ Submit ELSE BadEntries
    /\ UNCHANGED chatVars

Ticketed ==
    /\ \/ Handler
       \/ \E n \in Attempts : Create(n) \/ Refuse(n) \/ Drop(n)
    /\ UNCHANGED <<chatVars, formVars>>

ServiceNext == Chatting \/ FillingIn \/ Submitting \/ Ticketed

ServiceSpec == ServiceInit /\ [][ServiceNext]_serviceVars

\* Every call of a handler is bounded by a timeout.
ServiceFairSpec ==
    /\ ServiceSpec
    /\ ChatFairness
    /\ WF_formVars(AnalysisTimesOut)
    /\ WF_vars(Handler)
=============================================================================
