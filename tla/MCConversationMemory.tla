------------------------ MODULE MCConversationMemory ------------------------
(***************************************************************************)
(* Values of the constants of ConversationMemory for model checking.       *)
(***************************************************************************)
EXTENDS ConversationMemory

CONSTANTS m1, m2, m3

\* m1 and m2 are sent in one space, m3 in another.
MCSpace == [m \in {m1, m2, m3} |-> IF m = m3 THEN "spaces/B" ELSE "spaces/A"]
\* The answer to m1 alone exceeds the budget.
MCLength == [t \in {m1, m2, m3} \X {"user", "molli"} |->
                IF t = <<m1, "molli">> THEN 3 ELSE 1]
\* m1 and m2 share an instance.
MCOn == [m \in {m1, m2, m3} |-> IF m = m3 THEN "second" ELSE "first"]
=============================================================================
