------------------------------- MODULE Backlog -------------------------------
(***************************************************************************)
(* The listening socket of a server, as its edge-triggered loop sees it:    *)
(* the connections nobody has accepted, and the events that tell of them.   *)
(* A connection adds an event unless it comes together with another one,    *)
(* and there is room for two: one in the batch at hand and one in the       *)
(* kernel.  The loop accepts one connection for each event, so that what    *)
(* shared one stays behind until a later connection comes.                  *)
(***************************************************************************)
EXTENDS Naturals, Sequences, SequencesExt

CONSTANT Callers   \* who connects

VARIABLES
    waiting,   \* the connections, and whether their caller is still there
    events     \* how often the loop will yet call accept

Connections == [caller : Callers, live : BOOLEAN]

Live(x) == [caller |-> x, live |-> TRUE]
Gone(x) == [caller |-> x, live |-> FALSE]

TypeOK == waiting \in Seq(Connections) /\ events \in 0..2

Clear == waiting' = <<>> /\ events' = 0

Connect(x) ==
    /\ waiting' = Append(waiting, Live(x))
    /\ \/ events < 2 /\ events' = events + 1
       \/ events > 0 /\ UNCHANGED events

\* The event is used up whether accept returns a connection or fails, since no
\* descriptor is free.
Accept(e) ==
    /\ events > 0
    /\ waiting # <<>>
    /\ e = Head(waiting)
    /\ waiting' = Tail(waiting)
    /\ events' = events - 1

AcceptFails ==
    /\ events > 0
    /\ events' = events - 1
    /\ UNCHANGED waiting

\* Callers that are gone do not take their connections along.
Leave(xs) ==
    /\ waiting' = [i \in DOMAIN waiting |->
                      IF waiting[i].caller \in xs THEN Gone(waiting[i].caller)
                      ELSE waiting[i]]
    /\ UNCHANGED events

Queued(x) == Live(x) \in Range(waiting)

\* A connection the loop will not come to by itself.
Missed(x) == Queued(x) /\ events = 0

\* Every event is of a connection of its own, and nobody is queued twice.
Sound ==
    /\ events <= Len(waiting)
    /\ \A i, j \in DOMAIN waiting :
          waiting[i].live /\ waiting[i] = waiting[j] => i = j
=============================================================================
