----------------------------- MODULE Ticketing -----------------------------
(***************************************************************************)
(* One submission of the ticket dialog: the branch `submitNameDialog` of   *)
(* chat-service/app/main.py, with FreshserviceClient.create_ticket and its *)
(* retry loop `_request` (shared/molli_shared/clients/freshservice.py).    *)
(* Submissions share nothing but the connection pool.                      *)
(*                                                                         *)
(* Freshservice receives each POST at most once, at any time after it was  *)
(* sent, or never; a client that has stopped waiting does not take a       *)
(* request back.                                                           *)
(***************************************************************************)
EXTENDS Naturals

CONSTANT MaxRetries    \* max_retries: attempts after the first

ASSUME RetriesAssumption == MaxRetries \in Nat

Attempts == 0 .. MaxRetries

VARIABLES
    dryRun,    \* the setting freshservice_dry_run
    pc,        \* where the handler is
    attempt,   \* the attempt it is at
    post,      \* what became of the POST of each attempt
    answer,    \* the answer to the current attempt, on its way
    told,      \* the text of the notification the user gets
    number,    \* the attempt whose ticket number is in it
    outcome    \* history: how each attempt ended for the client

vars == <<dryRun, pc, attempt, post, answer, told, number, outcome>>

Init ==
    /\ dryRun \in BOOLEAN
    /\ pc = "dialog"
    /\ attempt = 0
    /\ post = [n \in Attempts |-> "unsent"]
    /\ answer = "none"
    /\ told = "nothing"
    /\ number = 0
    /\ outcome = [n \in Attempts |-> "none"]

(***************************************************************************)
(* Freshservice and the network (external).                                *)
(***************************************************************************)

\* An answer reaches a client that waits for this very request.
Respond(n, answers) ==
    IF pc = "waiting" /\ n = attempt
    THEN answer' \in answers
    ELSE UNCHANGED answer

\* A ticket is created.  The answer may be an error of a proxy all the same,
\* or a body that is not the ticket.
Create(n) ==
    /\ post[n] = "sent"
    /\ post' = [post EXCEPT ![n] = "created"]
    /\ Respond(n, {"ok", "garbled", "serverError"})
    /\ UNCHANGED <<dryRun, pc, attempt, told, number, outcome>>

Refuse(n) ==
    /\ post[n] = "sent"
    /\ post' = [post EXCEPT ![n] = "refused"]
    /\ Respond(n, {"auth", "limited", "rejected", "serverError", "redirect"})
    /\ UNCHANGED <<dryRun, pc, attempt, told, number, outcome>>

Drop(n) ==
    /\ post[n] = "sent"
    /\ post' = [post EXCEPT ![n] = "lost"]
    /\ UNCHANGED <<dryRun, pc, attempt, answer, told, number, outcome>>

(***************************************************************************)
(* The handler.                                                            *)
(***************************************************************************)

\* submit_notification.  Every notification begins "Got it - ticket created:".
Notify(text) ==
    /\ pc' = "done"
    /\ told' = text

\* Nothing catches the exception: the request fails, the user gets no
\* notification.
Crash ==
    /\ pc' = "failed"
    /\ UNCHANGED told

\* The POST of attempt n is sent.
Send(n) ==
    /\ pc' = "waiting"
    /\ attempt' = n
    /\ post' = [post EXCEPT ![n] = "sent"]
    /\ answer' = "none"

BadEntries ==
    /\ pc = "dialog"
    /\ Notify("badEntries")
    /\ UNCHANGED <<dryRun, attempt, post, answer, number, outcome>>

DryRun ==
    /\ pc = "dialog" /\ dryRun
    /\ Notify("dryRun")
    /\ UNCHANGED <<dryRun, attempt, post, answer, number, outcome>>

Submit ==
    /\ pc = "dialog" /\ ~dryRun
    /\ Send(0)
    /\ UNCHANGED <<dryRun, told, number, outcome>>

\* The statuses that `_request` tells apart.
\* Mutation of Success: `status_code == 200`; a ticket is created with 201.
SuccessIs200 == {"garbled"}

Success == {"ok", "garbled"}

\* A status no branch of the loop matches.
Unmatched == {"ok", "garbled", "redirect"} \ Success

\* How the current attempt ended for the client: it was answered, or it
\* cannot tell what became of it.
Answered == outcome' = [outcome EXCEPT ![attempt] = "answered"]
Unsure == outcome' = [outcome EXCEPT ![attempt] = "unsure"]

Waiting == pc = "waiting"
Got(answers) == Waiting /\ answer \in answers

\* Mutation of RetryOrGiveUp: one attempt too many.
RetryOnceMore ==
    /\ IF attempt <= MaxRetries
       THEN pc' = "backoff" /\ UNCHANGED told
       ELSE Notify("unreachable")
    /\ UNCHANGED <<dryRun, attempt, post, answer, number>>

\* Another attempt after the backoff, or an error when none is left.
RetryOrGiveUp ==
    /\ IF attempt < MaxRetries
       THEN pc' = "backoff" /\ UNCHANGED told
       ELSE Notify("unreachable")
    /\ UNCHANGED <<dryRun, attempt, post, answer, number>>

\* TimeoutException or NetworkError.
TimeOut ==
    /\ Waiting
    /\ Unsure
    /\ RetryOrGiveUp

ServerError ==
    /\ Got({"serverError"})
    /\ Unsure
    /\ RetryOrGiveUp

RateLimited ==
    /\ Got({"limited"})
    /\ Answered
    /\ RetryOrGiveUp

\* Mutation of Retry: the attempts are not counted.
RetryUncounted ==
    /\ pc = "backoff"
    /\ Send(attempt)
    /\ UNCHANGED <<dryRun, told, number, outcome>>

Retry ==
    /\ pc = "backoff"
    /\ Send(attempt + 1)
    /\ UNCHANGED <<dryRun, told, number, outcome>>

\* The loop goes round without a pause, and ends in the statement after it.
FallThrough ==
    /\ Got(Unmatched)
    /\ Answered
    /\ IF attempt < MaxRetries
       THEN Send(attempt + 1) /\ UNCHANGED told
       ELSE Notify("unreachable") /\ UNCHANGED <<attempt, post, answer>>
    /\ UNCHANGED <<dryRun, number>>

\* 401 and 403, and the other 4xx.
Terminal ==
    /\ Got({"auth", "rejected"})
    /\ Answered
    /\ Notify(IF answer = "auth" THEN "unreachable" ELSE "rejected")
    /\ UNCHANGED <<dryRun, attempt, post, answer, number>>

Created ==
    /\ Got(Success \ {"garbled"})
    /\ Answered
    /\ Notify("number")
    /\ number' = attempt
    /\ UNCHANGED <<dryRun, attempt, post, answer>>

\* json() or model_validate raises, and no TicketingError; or the transport
\* raises an exception that is neither a timeout nor a NetworkError, a
\* connection closed without an answer for one.
Breaks ==
    /\ Waiting
    /\ Unsure
    /\ Crash
    /\ UNCHANGED <<dryRun, attempt, post, answer, number>>

Handler ==
    \/ TimeOut \/ ServerError \/ RateLimited \/ Retry \/ FallThrough
    \/ Terminal \/ Created \/ Breaks

Next ==
    \/ BadEntries \/ DryRun \/ Submit \/ Handler
    \/ \E n \in Attempts : Create(n) \/ Refuse(n) \/ Drop(n)

Spec == Init /\ [][Next]_vars

\* httpx bounds every request by a timeout; a backoff ends.
FairSpec == Spec /\ WF_vars(Handler)

(***************************************************************************)
(* Properties.                                                             *)
(***************************************************************************)

\* Every variable has its type; no attempt exceeds the retries.
TypeOK ==
    /\ dryRun \in BOOLEAN
    /\ pc \in {"dialog", "waiting", "backoff", "done", "failed"}
    /\ attempt \in Attempts
    /\ post \in [Attempts -> {"unsent", "sent", "created", "refused", "lost"}]
    /\ answer \in {"none", "ok", "garbled", "serverError", "auth", "limited",
                   "rejected", "redirect"}
    /\ told \in {"nothing", "badEntries", "dryRun", "rejected", "unreachable",
                 "number"}
    /\ number \in Attempts
    /\ outcome \in [Attempts -> {"none", "answered", "unsure"}]

\* Behind the user's back a ticket is created only by an attempt that the
\* client could not tell the end of: every other ticket is the one whose
\* number the user is told, so that a retry after a definite answer never
\* makes a second one.
TicketsAccountedFor ==
    \A n \in Attempts : post[n] = "created" =>
        \/ Waiting /\ n = attempt
        \/ outcome[n] = "unsure"
        \/ told = "number" /\ number = n

\* "Got it - ticket created" is true whenever the user is told so.
NotificationIsTrue == told # "nothing" => \E n \in Attempts : post[n] = "created"

\* The user's click is answered in the end, if only by an error.
EverySubmissionEnds == pc = "waiting" ~> pc \in {"done", "failed"}
=============================================================================
