-------------------------- MODULE Document360Client --------------------------
(***************************************************************************)
(* The HTTP client of Document360: the token bucket `_RateLimiter` and the *)
(* retry loop `_get` around it (shared/molli_shared/clients/               *)
(* document360.py).  Any number of coroutines share one client.            *)
(*                                                                         *)
(* Time passes in ticks.  One token is worth Unit ticks (Unit ticks last   *)
(* 1 / rate_per_sec), and amounts of tokens are counted in ticks too: an   *)
(* elapsed tick earns one.  Sleeps may last longer than asked for, never   *)
(* shorter.  Instants are kept relative to the present, so that behaviours *)
(* are unbounded while the states are few.                                 *)
(***************************************************************************)
EXTENDS Integers, Sequences

CONSTANTS
    Callers,     \* coroutines that may be inside _get
    NoCaller,    \* the lock is free
    Unit,        \* ticks that earn one token
    Capacity,    \* the bucket when it is full: burst * Unit
    MaxRetries,  \* max_retries
    Delays,      \* backoff and Retry-After delays, in ticks
    Drain        \* the rate requests are measured against: Drain tokens'
                 \* worth of ticks per tick; 1 is the configured rate

ASSUME ClientAssumption ==
    /\ NoCaller \notin Callers
    /\ Unit \in Nat \ {0}
    /\ Capacity \in Nat /\ Capacity >= Unit
    /\ MaxRetries \in Nat \ {0}
    /\ Delays \subseteq Nat
    /\ Drain \in Nat \ {0}

VARIABLES
    \* the limiter
    tokens,   \* _tokens
    age,      \* time since _updated; Capacity stands for that and more
    queue,    \* coroutines waiting for _lock, the first come first
    holder,   \* the coroutine that sleeps holding _lock
    asleep,   \* what is left of its sleep
    \* the coroutines
    pc,       \* where each one is in _get
    attempt,  \* the attempts it has made, the current one included
    delay,    \* what is left of its backoff
    \* history
    load      \* requests started, in ticks, in excess of Drain per tick

limiter == <<tokens, age, queue, holder, asleep>>
vars == <<limiter, pc, attempt, delay, load>>

Smaller(x, y) == IF x <= y THEN x ELSE y
Minus(x, y) == IF x <= y THEN 0 ELSE x - y

Init ==
    /\ tokens = Capacity
    /\ age = 0
    /\ queue = <<>>
    /\ holder = NoCaller
    /\ asleep = 0
    /\ pc = [c \in Callers |-> "idle"]
    /\ attempt = [c \in Callers |-> 0]
    /\ delay = [c \in Callers |-> 0]
    /\ load = 0

Tick ==
    /\ age' = Smaller(age + 1, Capacity)
    /\ asleep' = Minus(asleep, 1)
    /\ delay' = [c \in Callers |-> Minus(delay[c], 1)]
    /\ load' = Minus(load, Drain)
    /\ UNCHANGED <<tokens, queue, holder, pc, attempt>>

(***************************************************************************)
(* _RateLimiter.acquire.                                                   *)
(***************************************************************************)

\* A coroutine asks for the lock.
Queue(c) ==
    /\ queue' = Append(queue, c)
    /\ pc' = [pc EXCEPT ![c] = "queued"]

\* The request of c may start.
Grant(c) ==
    /\ pc' = [pc EXCEPT ![c] = "request"]
    /\ load' = load + Unit

\* Mutation of Refilled: the bucket has no capacity.
RefilledWithoutCapacity == tokens + age

\* The tokens in the bucket once the elapsed time is counted.
Refilled == Smaller(Capacity, tokens + age)

\* Mutation of Take: the instant is recorded only by a coroutine that sleeps.
TakeWithoutUpdate(c) ==
    /\ holder = NoCaller
    /\ queue # <<>> /\ Head(queue) = c
    /\ Refilled >= Unit
    /\ tokens' = Refilled - Unit
    /\ queue' = Tail(queue)
    /\ Grant(c)
    /\ UNCHANGED <<age, holder, asleep, attempt, delay>>

\* The first in the queue gets the lock, counts the elapsed time and takes a
\* token if there is one.
Take(c) ==
    /\ holder = NoCaller
    /\ queue # <<>> /\ Head(queue) = c
    /\ Refilled >= Unit
    /\ tokens' = Refilled - Unit
    /\ age' = 0
    /\ queue' = Tail(queue)
    /\ Grant(c)
    /\ UNCHANGED <<holder, asleep, attempt, delay>>

\* Otherwise it sleeps, holding the lock, for as long as the rest of the
\* token takes.
Sleep(c) ==
    /\ holder = NoCaller
    /\ queue # <<>> /\ Head(queue) = c
    /\ Refilled < Unit
    /\ tokens' = Refilled
    /\ age' = 0
    /\ queue' = Tail(queue)
    /\ holder' = c
    /\ asleep' = Unit - Refilled
    /\ UNCHANGED <<pc, attempt, delay, load>>

\* It spends what it waited for.  The time it slept is counted again when the
\* lock is next taken: _updated still is the instant it fell asleep.
Wake(c) ==
    /\ holder = c
    /\ asleep = 0
    /\ tokens' = 0
    /\ holder' = NoCaller
    /\ Grant(c)
    /\ UNCHANGED <<age, queue, asleep, attempt, delay>>

(***************************************************************************)
(* _get.                                                                   *)
(***************************************************************************)

Call(c) ==
    /\ pc[c] = "idle"
    /\ Queue(c)
    /\ attempt' = [attempt EXCEPT ![c] = 1]
    /\ UNCHANGED <<tokens, age, holder, asleep, delay, load>>

\* _get returns, or raises.
End(c) ==
    /\ pc' = [pc EXCEPT ![c] = "idle"]
    /\ attempt' = [attempt EXCEPT ![c] = 0]
    /\ UNCHANGED <<limiter, load>>

\* A definite answer: the unwrapped data, or an exception for 401, any other
\* 4xx, a body that is not JSON or an envelope without success.
Answer(c) ==
    /\ pc[c] = "request"
    /\ End(c)
    /\ UNCHANGED delay

\* A transport error, 429 or 5xx: sleep for the backoff or the Retry-After.
BackOff(c) ==
    /\ pc[c] = "request"
    /\ pc' = [pc EXCEPT ![c] = "backoff"]
    /\ \E d \in Delays : delay' = [delay EXCEPT ![c] = d]
    /\ UNCHANGED <<limiter, attempt, load>>

\* Mutation of TryAgain: `while True`.
TryForever(c) ==
    /\ pc[c] = "backoff"
    /\ delay[c] = 0
    /\ Queue(c)
    /\ UNCHANGED <<tokens, age, holder, asleep, attempt, delay, load>>

TryAgain(c) ==
    /\ pc[c] = "backoff"
    /\ delay[c] = 0
    /\ attempt[c] < MaxRetries
    /\ Queue(c)
    /\ attempt' = [attempt EXCEPT ![c] = @ + 1]
    /\ UNCHANGED <<tokens, age, holder, asleep, delay, load>>

\* The loop is over, after the last attempt's backoff too.
GiveUp(c) ==
    /\ pc[c] = "backoff"
    /\ delay[c] = 0
    /\ attempt[c] = MaxRetries
    /\ End(c)
    /\ UNCHANGED delay

Step(c) ==
    \/ Take(c) \/ Sleep(c) \/ Wake(c)
    \/ Answer(c) \/ BackOff(c) \/ TryAgain(c) \/ GiveUp(c)

Next == Tick \/ \E c \in Callers : Call(c) \/ Step(c)

Spec == Init /\ [][Next]_vars

\* Time passes, and the event loop runs what is ready; httpx bounds every
\* request with a timeout.
FairSpec ==
    /\ Spec
    /\ WF_vars(Tick)
    /\ \A c \in Callers : WF_vars(Step(c))

(***************************************************************************)
(* Properties.                                                             *)
(***************************************************************************)

Places == {"idle", "queued", "request", "backoff"}

TypeOK ==
    /\ tokens \in 0 .. Capacity
    /\ age \in 0 .. Capacity
    /\ queue \in Seq(Callers)
    /\ holder \in Callers \cup {NoCaller}
    /\ asleep \in 0 .. Unit
    /\ pc \in [Callers -> Places]
    /\ attempt \in [Callers -> 0 .. MaxRetries]
    /\ delay \in [Callers -> Nat]
    /\ load \in Nat

\* Over every stretch of time the requests that start are no more than a full
\* bucket and one, plus Drain times the configured rate.  (The one: a sleep
\* that lasts too long fills the bucket while a request is due already.)  The
\* docstring of _RateLimiter promises this with Drain = 1.
WithinRate == load <= Capacity + Unit

\* Every call of _get ends, by an answer or by giving up: the lock is handed
\* on and the retries are bounded, whatever the server answers.
EveryCallEnds == \A c \in Callers : pc[c] # "idle" ~> pc[c] = "idle"

(***************************************************************************)
(* The inductive invariant behind WithinRate: what may still start at this *)
(* moment.  A sleep is paid for twice: by the token it waits for, and by   *)
(* the age of the bucket that goes on growing.                             *)
(***************************************************************************)
Owing ==
    IF holder = NoCaller THEN load + Refilled <= Capacity + Unit
    ELSE /\ load = 0 \/ load + 2 * age + tokens <= Capacity + Unit
         /\ tokens + asleep <= Unit
         /\ Unit <= tokens + age + asleep

LimiterInv == TypeOK /\ Owing
=============================================================================
