--------------------------- MODULE SessionMemory ---------------------------
(***************************************************************************)
(* What the chat service's conversation memory promises, whatever runs at  *)
(* the same time: for each session the newest turns in the order they were *)
(* said, each of them once, a message's question before its answer, until  *)
(* the session is reset.  ConversationMemory implements it.                *)
(***************************************************************************)
EXTENDS Naturals, Sequences

CONSTANTS
    Messages,    \* messages that may be sent
    Sessions,    \* sessions that are remembered
    Session,     \* the session of each message
    Texts,       \* what may be kept of a turn's text
    MaxTurns     \* turns kept of a session

VARIABLES
    turns,       \* what is remembered of each session
    said         \* turns said so far: <<message, role>>

Roles == {"user", "molli"}
Turns == [of : Messages, role : Roles, text : Texts]

Newest(s) ==
    IF Len(s) <= MaxTurns THEN s
    ELSE SubSeq(s, Len(s) - MaxTurns + 1, Len(s))

Init ==
    /\ turns = [k \in Sessions |-> <<>>]
    /\ said = {}

Say(t) ==
    /\ <<t.of, t.role>> \notin said
    /\ t.role = "molli" => <<t.of, "user">> \in said
    /\ said' = said \cup {<<t.of, t.role>>}
    /\ turns' = [turns EXCEPT ![Session[t.of]] = Newest(Append(@, t))]

Forget(k) ==
    /\ turns' = [turns EXCEPT ![k] = <<>>]
    /\ UNCHANGED said

Next ==
    \/ \E t \in Turns : Say(t)
    \/ \E k \in Sessions : Forget(k)

Spec == Init /\ [][Next]_<<turns, said>>
=============================================================================
