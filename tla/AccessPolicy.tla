---------------------------- MODULE AccessPolicy ----------------------------
(***************************************************************************)
(* What a gateway promises about its application port, without saying how:  *)
(* a client gets in by a ticket that was not used before, never while it is *)
(* banned, and nobody is let in by anything else while the gateway serves.  *)
(* What the gateway remembers, it remembers only until it stops.            *)
(***************************************************************************)
CONSTANTS
    Clients,  \* the addresses the policy is about
    Tickets   \* records with a field ip

VARIABLES
    open,     \* the clients that reach the application port
    banned,   \* the clients on the black list
    spent,    \* the tickets used since the gateway began to serve
    serving   \* whether the gateway handles requests

policyvars == <<open, banned, spent, serving>>

Init == open = Clients /\ banned = {} /\ spent = {} /\ serving = FALSE

Admit(t) ==
    /\ serving
    /\ t \notin spent
    /\ t.ip \notin banned
    /\ spent' = spent \cup {t}
    /\ open' = open \cup ({t.ip} \cap Clients)
    /\ UNCHANGED <<banned, serving>>

Close(c) ==
    /\ serving
    /\ open' = open \ {c}
    /\ UNCHANGED <<banned, spent, serving>>

Ban(c) ==
    /\ serving
    /\ banned' = banned \cup {c}
    /\ open' = open \ {c}
    /\ UNCHANGED <<spent, serving>>

Unban(c) ==
    /\ serving
    /\ banned' = banned \ {c}
    /\ UNCHANGED <<open, spent, serving>>

Stop ==
    /\ serving' = FALSE
    /\ banned' = {}
    /\ spent' = {}
    /\ UNCHANGED open

\* While it starts, the gateway first opens the port to all, then to nobody.
Rebuild ==
    /\ ~ serving
    /\ open' \in {Clients, {}}
    /\ UNCHANGED <<banned, spent, serving>>

Serve ==
    /\ open = {}
    /\ ~ serving
    /\ serving' = TRUE
    /\ UNCHANGED <<open, banned, spent>>

Next ==
    \/ \E t \in Tickets : Admit(t)
    \/ \E c \in Clients : Close(c) \/ Ban(c) \/ Unban(c)
    \/ Stop \/ Rebuild \/ Serve

Spec == Init /\ [][Next]_policyvars
=============================================================================
