----------------------- MODULE Document360ClientProofs -----------------------
(***************************************************************************)
(* The rate of requests is bounded by twice the configured one, for any    *)
(* number of coroutines, any bucket and any answers of the server.         *)
(***************************************************************************)
EXTENDS Document360Client, TLAPS

\* Asking for the lock keeps the queue a sequence of coroutines.
LEMMA QueueType ==
    ASSUME TypeOK, NEW c \in Callers, Queue(c)
    PROVE  queue' \in Seq(Callers) /\ pc' \in [Callers -> Places]
  BY DEF TypeOK, Queue, Places

LEMMA TypeStep ==
    ASSUME TypeOK, [Next]_vars
    PROVE  TypeOK'
<1>1. CASE Tick
  BY <1>1, ClientAssumption DEF Tick, TypeOK, Smaller, Minus
<1>2. ASSUME NEW c \in Callers, Call(c) PROVE TypeOK'
  BY <1>2, QueueType, ClientAssumption DEF Call, TypeOK
<1>3. ASSUME NEW c \in Callers, Take(c) PROVE TypeOK'
  BY <1>3, ClientAssumption DEF Take, Grant, Refilled, Smaller, TypeOK, Places
<1>4. ASSUME NEW c \in Callers, Sleep(c) PROVE TypeOK'
  BY <1>4, ClientAssumption DEF Sleep, Refilled, Smaller, TypeOK
<1>5. ASSUME NEW c \in Callers, Wake(c) PROVE TypeOK'
  BY <1>5, ClientAssumption DEF Wake, Grant, TypeOK, Places
<1>6. ASSUME NEW c \in Callers, Answer(c) \/ GiveUp(c) PROVE TypeOK'
  <2>1. /\ pc' = [pc EXCEPT ![c] = "idle"]
        /\ attempt' = [attempt EXCEPT ![c] = 0]
        /\ UNCHANGED <<tokens, age, queue, holder, asleep, delay, load>>
    BY <1>6 DEF Answer, GiveUp, End, limiter
  <2>2. QED
    BY <2>1, ClientAssumption DEF TypeOK, Places
<1>7. ASSUME NEW c \in Callers, BackOff(c) PROVE TypeOK'
  BY <1>7, ClientAssumption DEF BackOff, limiter, TypeOK, Places
<1>8. ASSUME NEW c \in Callers, TryAgain(c) PROVE TypeOK'
  BY <1>8, QueueType, ClientAssumption DEF TryAgain, TypeOK
<1>9. CASE UNCHANGED vars
  BY <1>9 DEF vars, limiter, TypeOK
<1>10. QED
  BY <1>1, <1>2, <1>3, <1>4, <1>5, <1>6, <1>7, <1>8, <1>9 DEF Next, Step

\* What may start at this moment never grows past a full bucket and one, when
\* requests are measured against twice the rate or more.
LEMMA OwingStep ==
    ASSUME Drain >= 2, TypeOK, Owing, [Next]_vars
    PROVE  Owing'
<1>0. /\ tokens \in 0 .. Capacity /\ age \in 0 .. Capacity
      /\ asleep \in 0 .. Unit /\ load \in Nat
  BY DEF TypeOK
<1>1. CASE Tick
  <2>1. /\ tokens' = tokens /\ holder' = holder
        /\ age' = Smaller(age + 1, Capacity)
        /\ asleep' = Minus(asleep, 1)
        /\ load' = Minus(load, Drain)
    BY <1>1 DEF Tick
  <2>2. CASE holder = NoCaller
    <3>1. Refilled' <= Refilled + 1 /\ Refilled' <= Capacity
      BY <1>0, <2>1, ClientAssumption DEF Refilled, Smaller
    <3>2. load' = 0 \/ load' + 2 <= load
      BY <1>0, <2>1, ClientAssumption DEF Minus
    <3>3. Refilled \in Nat /\ Refilled' \in Nat /\ load' \in Nat
      BY <1>0, <2>1, ClientAssumption DEF Refilled, Smaller, Minus
    <3>4. QED
      BY <1>0, <2>1, <2>2, <3>1, <3>2, <3>3, ClientAssumption DEF Owing
  <2>3. CASE holder # NoCaller
    <3>1. load' = 0 \/ load' + 2 * age' + tokens' <= Capacity + Unit
      BY <1>0, <2>1, <2>3, ClientAssumption DEF Owing, Smaller, Minus
    <3>2. tokens' + asleep' <= Unit /\ Unit <= tokens' + age' + asleep'
      BY <1>0, <2>1, <2>3, ClientAssumption DEF Owing, Smaller, Minus
    <3>3. QED
      BY <2>1, <2>3, <3>1, <3>2 DEF Owing
  <2>4. QED
    BY <2>2, <2>3
<1>2. ASSUME NEW c \in Callers, Take(c) PROVE Owing'
  <2>1. Refilled' = Refilled - Unit /\ load' = load + Unit /\ holder' = NoCaller
    BY <1>0, <1>2, ClientAssumption DEF Take, Grant, Refilled, Smaller
  <2>2. Refilled \in Nat
    BY <1>0, ClientAssumption DEF Refilled, Smaller
  <2>3. QED
    BY <1>0, <1>2, <2>1, <2>2, ClientAssumption DEF Take, Owing
<1>3. ASSUME NEW c \in Callers, Sleep(c) PROVE Owing'
  <2>1. Refilled \in Nat
    BY <1>0, ClientAssumption DEF Refilled, Smaller
  <2>2. QED
    BY <1>0, <1>3, <2>1, ClientAssumption DEF Sleep, Owing
<1>4. ASSUME NEW c \in Callers, Wake(c) PROVE Owing'
  <2>1. /\ holder = c /\ asleep = 0 /\ holder' = NoCaller /\ tokens' = 0
        /\ age' = age /\ load' = load + Unit
    BY <1>4 DEF Wake, Grant
  <2>2. load + age <= Capacity
    BY <1>0, <2>1, ClientAssumption DEF Owing
  <2>3. Refilled' <= age
    BY <1>0, <2>1, ClientAssumption DEF Refilled, Smaller
  <2>4. QED
    BY <1>0, <2>1, <2>2, <2>3, ClientAssumption DEF Owing, Refilled, Smaller
<1>5. CASE UNCHANGED <<tokens, age, holder, asleep, load>>
  BY <1>5 DEF Owing, Refilled
<1>6. QED
  BY <1>1, <1>2, <1>3, <1>4, <1>5
  DEF Next, Step, Call, Answer, BackOff, TryAgain, GiveUp, End, limiter, vars

\* The limiter's invariant, whatever the callers do.
THEOREM LimiterInvariant ==
    ASSUME Drain >= 2
    PROVE  Spec => []LimiterInv
<1>1. Init => LimiterInv
  BY ClientAssumption DEF Init, LimiterInv, TypeOK, Owing, Refilled, Smaller, Places
<1>2. LimiterInv /\ [Next]_vars => LimiterInv'
  BY TypeStep, OwingStep DEF LimiterInv
<1>3. QED
  BY <1>1, <1>2, PTL DEF Spec

\* Every variable of the client keeps its type, whatever the rate.
THEOREM ClientTypes == Spec => []TypeOK
<1>1. Init => TypeOK
  BY ClientAssumption DEF Init, TypeOK, Places
<1>2. QED
  BY <1>1, TypeStep, PTL DEF Spec

\* Requests never start at more than twice the configured rate, a full bucket
\* and one request apart: the excess of the code over the rate it is given is
\* bounded, although not by what its docstring says.
THEOREM AtMostTwiceTheRate ==
    ASSUME Drain >= 2
    PROVE  Spec => []WithinRate
<1>1. LimiterInv => WithinRate
  <2> SUFFICES ASSUME LimiterInv PROVE WithinRate
    OBVIOUS
  <2>1. /\ tokens \in 0 .. Capacity /\ age \in 0 .. Capacity /\ load \in Nat
        /\ Refilled \in Nat
    BY ClientAssumption DEF LimiterInv, TypeOK, Refilled, Smaller
  <2>2. QED
    BY <2>1, ClientAssumption DEF LimiterInv, Owing, WithinRate
<1>2. QED
  BY <1>1, LimiterInvariant, PTL
=============================================================================
