------------------------------ MODULE Perimeter ------------------------------
(***************************************************************************)
(* What the whole system promises about the application port, without its   *)
(* programs: an address is let in by the controller, only then tickets are  *)
(* made out to it, and at the door of the application, which obeys          *)
(* AccessPolicy, no other tickets are used.                                 *)
(***************************************************************************)
CONSTANTS
    Clients,  \* the addresses of client programs
    Tickets   \* records with a field ip

VARIABLES
    letIn,    \* the clients the controller has ever let in
    handed,   \* the tickets handed out
    open, banned, spent, serving  \* as in AccessPolicy

Door == INSTANCE AccessPolicy

desk == <<letIn, handed>>

Init == Door!Init /\ letIn = {} /\ handed = {}

LetIn(c) ==
    /\ letIn' = letIn \cup {c}
    /\ UNCHANGED <<handed, open, banned, spent, serving>>

HandOut(t) ==
    /\ t.ip \in letIn
    /\ handed' = handed \cup {t}
    /\ UNCHANGED <<letIn, open, banned, spent, serving>>

AtTheDoor ==
    /\ Door!Next
    /\ spent' \subseteq handed
    /\ UNCHANGED desk

Next ==
    \/ \E c \in Clients : LetIn(c)
    \/ \E t \in Tickets : HandOut(t)
    \/ AtTheDoor

perimetervars == <<letIn, handed, open, banned, spent, serving>>

Spec == Init /\ [][Next]_perimetervars
=============================================================================
