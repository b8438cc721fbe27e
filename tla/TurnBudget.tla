----------------------------- MODULE TurnBudget -----------------------------
(***************************************************************************)
(* What a conversation promises its user, without requests, copies or      *)
(* routers: one turn at a time, begun by a new message and never resumed   *)
(* once another has begun; at most MaxAttempts retries of a turn; and no   *)
(* provider answering the same turn twice.                                 *)
(***************************************************************************)
EXTENDS Integers

CONSTANTS Messages, Providers, MaxAttempts, NoMessage

VARIABLES
    turn,       \* the message of the present turn
    begun,      \* the messages whose turn has begun
    spent,      \* the retries the present turn has spent
    tried       \* the providers that have answered it

Init ==
    /\ turn = NoMessage
    /\ begun = {}
    /\ spent = 0
    /\ tried = {}

Begin ==
    \E m \in Messages \ begun :
        /\ turn' = m
        /\ begun' = begun \cup {m}
        /\ spent' = 0
        /\ tried' = {}

Spend ==
    /\ turn # NoMessage
    /\ spent < MaxAttempts
    /\ spent' = spent + 1
    /\ UNCHANGED <<turn, begun, tried>>

Answer ==
    /\ turn # NoMessage
    /\ \E p \in Providers \ tried : tried' = tried \cup {p}
    /\ UNCHANGED <<turn, begun, spent>>

Next == Begin \/ Spend \/ Answer

Spec == Init /\ [][Next]_<<turn, begun, spent, tried>>

=============================================================================
