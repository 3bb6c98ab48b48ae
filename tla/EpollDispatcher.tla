--------------------------- MODULE EpollDispatcher ---------------------------
(***************************************************************************)
(* The event loop of a server process (comm/erpc) with the calls of its     *)
(* peers.  Every descriptor is registered edge-triggered (EPOLLET), and for *)
(* each event the loop makes one recvfrom, one accept, or one read followed *)
(* by a close.  One thread runs the loop; peers act at any moment.          *)
(***************************************************************************)
EXTENDS Naturals, FiniteSets, SequencesExt

CONSTANTS
    Callers,     \* processes that call through ClientRPCRequest
    Looping,     \* callers that call again and again (the controller's scanner)
    Fds,         \* descriptors for accepted connections
    udp_fd_, listen_fd_,
    NoCaller,
    MAXEVENTS,   \* 128
    MaxQueue,    \* bound: datagrams the socket buffer holds
    MaxFails     \* bound: TLS handshakes that fail

ASSUME DispatcherAssumption ==
    /\ Callers # {} /\ Looping \subseteq Callers
    /\ NoCaller \notin Callers
    /\ Fds \subseteq Nat
    /\ {udp_fd_, listen_fd_} \cap Fds = {}
    /\ udp_fd_ # listen_fd_
    /\ {MAXEVENTS, MaxQueue} \subseteq Nat \ {0}
    /\ MaxFails \in Nat

VARIABLES
    datagrams,  \* length of the receive queue of udp_fd_
    backlog,    \* callers whose connection waits to be accepted
    conn,       \* conn[fd]: the accepted connection behind a descriptor
    fdmap,      \* descriptors with an entry in epoll_data_.fdmap
    ready,      \* the kernel's list of descriptors to report
    events,     \* what epoll_wait returned and the loop has not come to yet
    caller,     \* how far the call of each caller has come
    fails,
    crashed     \* the process has died

server == <<fdmap, events, crashed>>
vars == <<datagrams, backlog, conn, fdmap, ready, events, caller, fails, crashed>>

\* "live": the handshake succeeded and the caller still waits for the answer.
Connections == [peer : Callers \cup {NoCaller}, live : BOOLEAN,
                input : {"none", "data", "fin", "rst"}]
Unused == [peer |-> NoCaller, live |-> FALSE, input |-> "none"]
Sources == Fds \cup {udp_fd_, listen_fd_}

TypeOK ==
    /\ datagrams \in 0..MaxQueue
    /\ backlog \in Seq(Callers)
    /\ conn \in [Fds -> Connections]
    /\ fdmap \in SUBSET Fds
    /\ ready \in Seq(Sources)
    /\ events \in Seq([fd : Sources, hup : BOOLEAN])
    /\ caller \in [Callers -> {"idle", "connecting", "accepted", "sent"}]
    /\ fails \in 0..MaxFails
    /\ crashed \in BOOLEAN

Init ==
    /\ datagrams = 0
    /\ backlog = <<>>
    /\ conn = [fd \in Fds |-> Unused]
    /\ fdmap = {}
    /\ ready = <<>>
    /\ events = <<>>
    /\ caller = [c \in Callers |-> "idle"]
    /\ fails = 0
    /\ crashed = FALSE

-----------------------------------------------------------------------------
\* The kernel and the peers.

\* A descriptor is on the list at most once, however often it becomes ready.
Notify(fd) == ready' = IF Contains(ready, fd) THEN ready ELSE Append(ready, fd)

\* A datagram that meets a full buffer is dropped and reported to nobody.
Datagram ==
    /\ datagrams < MaxQueue
    /\ datagrams' = datagrams + 1
    /\ Notify(udp_fd_)
    /\ UNCHANGED <<backlog, conn, server, caller, fails>>

\* ClientRPCRequest: connect, then SSL_connect waits for the server.
Connect(c) ==
    /\ caller[c] = "idle"
    /\ caller' = [caller EXCEPT ![c] = "connecting"]
    /\ backlog' = Append(backlog, c)
    /\ Notify(listen_fd_)
    /\ UNCHANGED <<datagrams, conn, server, fails>>

Input(fd, what) ==
    /\ conn' = [conn EXCEPT ![fd] = [peer |-> conn[fd].peer, input |-> what,
                                     live |-> conn[fd].live /\ what = "data"]]
    /\ Notify(fd)
    /\ UNCHANGED <<datagrams, backlog, server, fails>>

\* HandleWrite of the request; the caller then reads until the answer.
Send(c) ==
    /\ caller[c] = "accepted"
    /\ \E fd \in fdmap :
          /\ conn[fd].live /\ conn[fd].peer = c
          /\ Input(fd, "data")
    /\ caller' = [caller EXCEPT ![c] = "sent"]

\* The peer's process goes away, in good order or with a reset.
HangUp(fd, how) ==
    /\ fd \in fdmap
    /\ conn[fd].peer # NoCaller
    /\ \/ conn[fd].input = "none"
       \/ conn[fd].input # "rst" /\ how = "rst"
    /\ Input(fd, how)
    /\ caller' = IF conn[fd].live THEN [caller EXCEPT ![conn[fd].peer] = "idle"]
                                  ELSE caller

-----------------------------------------------------------------------------
\* The loop.  The definitions named Faulty... are not part of the
\* specification: each is a slip of the definition below it, kept to show which
\* property notices it.

FaultyDelKeepsEntry(fd) ==
    /\ conn' = [conn EXCEPT ![fd] = Unused]
    /\ ready' = RemoveFirst(ready, fd)
    /\ UNCHANGED fdmap

\* Leaving the epoll set takes the descriptor off the kernel's list.
DispatcherDel(fd) ==
    /\ conn' = [conn EXCEPT ![fd] = Unused]
    /\ ready' = RemoveFirst(ready, fd)
    /\ fdmap' = fdmap \ {fd}

\* EPOLLERR and EPOLLHUP come with a reset (and EPOLLIN with them).
Event(fd) == [fd |-> fd, hup |-> fd \in Fds /\ conn[fd].input = "rst"]

FaultyEpollWaitOneMore ==
    /\ ~ crashed
    /\ events = <<>>
    /\ ready # <<>>
    /\ events' = Append([i \in DOMAIN ready |-> Event(ready[i])],
                        [fd |-> 0, hup |-> FALSE])
    /\ ready' = <<>>
    /\ UNCHANGED <<datagrams, backlog, conn, fdmap, caller, fails, crashed>>

EpollWait ==
    /\ ~ crashed
    /\ events = <<>>
    /\ ready # <<>>
    /\ LET n == IF Len(ready) < MAXEVENTS THEN Len(ready) ELSE MAXEVENTS
       IN  /\ events' = [i \in 1..n |-> Event(ready[i])]
           /\ ready' = SubSeq(ready, n + 1, Len(ready))
    /\ UNCHANGED <<datagrams, backlog, conn, fdmap, caller, fails, crashed>>

\* The loop comes to the next event of the batch.
NextEvent(e) ==
    /\ ~ crashed
    /\ events # <<>>
    /\ e = Head(events)
    /\ events' = Tail(events)

FaultyReceiveAll(e) ==
    /\ NextEvent(e)
    /\ e.fd = udp_fd_
    /\ datagrams' = 0
    /\ UNCHANGED <<backlog, conn, fdmap, ready, caller, fails, crashed>>

FaultyReceiveNone(e) ==
    /\ NextEvent(e)
    /\ e.fd = udp_fd_
    /\ UNCHANGED <<datagrams, backlog, conn, fdmap, ready, caller, fails, crashed>>

\* recvfrom on a socket that blocks, then the service.
HandleUDPRequest(e) ==
    /\ NextEvent(e)
    /\ e.fd = udp_fd_
    /\ datagrams > 0
    /\ datagrams' = datagrams - 1
    /\ UNCHANGED <<backlog, conn, fdmap, ready, caller, fails, crashed>>

FaultyAcceptNone(e) ==
    /\ NextEvent(e)
    /\ e.fd = listen_fd_
    /\ UNCHANGED <<datagrams, backlog, conn, fdmap, ready, caller, fails, crashed>>

\* accept (the kernel gives out the lowest descriptor), SSL_accept and
\* DispatcherAdd; the connection is added to the map also when the handshake
\* has failed.
HandleRPCAccept(e) ==
    /\ NextEvent(e)
    /\ e.fd = listen_fd_
    /\ backlog # <<>>
    /\ backlog' = Tail(backlog)
    /\ \E fd \in Fds \ fdmap, ok \in BOOLEAN :
          /\ \A other \in Fds \ fdmap : fd <= other
          /\ ok \/ fails < MaxFails
          /\ fails' = IF ok THEN fails ELSE fails + 1
          /\ conn' = [conn EXCEPT ![fd] =
                         [peer |-> Head(backlog), live |-> ok, input |-> "none"]]
          /\ fdmap' = fdmap \cup {fd}
          /\ caller' = [caller EXCEPT ![Head(backlog)] =
                           IF ok THEN "accepted" ELSE "idle"]
    /\ UNCHANGED <<datagrams, ready, crashed>>

FaultyKeepOpen(e) ==
    /\ NextEvent(e)
    /\ e.fd \in Fds
    /\ UNCHANGED <<datagrams, backlog, conn, fdmap, ready, caller, fails, crashed>>

\* One read, the service, the answer, and the connection is closed, whatever
\* the read returned.
HandleRPCRequest(e) ==
    /\ NextEvent(e)
    /\ e.fd \in Fds
    /\ ~ e.hup
    /\ DispatcherDel(e.fd)
    /\ caller' = IF conn[e.fd].live
                 THEN [caller EXCEPT ![conn[e.fd].peer] = "idle"] ELSE caller
    /\ UNCHANGED <<datagrams, backlog, fails, crashed>>

\* The error branch erases the entry; the EPOLLIN branch of the same event
\* looks it up again, which inserts an entry without a connector, and reads.
HandleError(e) ==
    /\ NextEvent(e)
    /\ e.fd \in Fds
    /\ e.hup
    /\ conn' = [conn EXCEPT ![e.fd] = Unused]
    /\ ready' = RemoveFirst(ready, e.fd)
    /\ crashed' = TRUE
    /\ UNCHANGED <<datagrams, backlog, fdmap, caller, fails>>

Dispatch ==
    \/ EpollWait
    \/ \E e \in ToSet(events) :
          \/ HandleUDPRequest(e) \/ HandleRPCAccept(e)
          \/ HandleRPCRequest(e) \/ HandleError(e)

Next ==
    \/ Dispatch
    \/ Datagram
    \/ \E c \in Callers : Connect(c) \/ Send(c)
    \/ \E fd \in Fds, how \in {"fin", "rst"} : HangUp(fd, how)

\* Run calls Dispatch for ever; a caller that was accepted sends its request;
\* only the looping callers are sure to call again.
Fairness ==
    /\ WF_vars(Dispatch)
    /\ \A c \in Callers : WF_vars(Send(c))
    /\ \A c \in Looping : WF_vars(Connect(c))

Spec == Init /\ [][Next]_vars /\ Fairness

-----------------------------------------------------------------------------
\* Properties.

Reported(fd) ==
    Contains(ready, fd) \/ \E i \in DOMAIN events : events[i].fd = fd

\* When the loop comes to an event there is something to do for it: the blocking
\* recvfrom has a datagram, accept a connection, and a connection's event is
\* about the connection now behind that descriptor, although descriptors are
\* closed and given out again while the batch is worked through.
EventsFresh ==
    ~ crashed => \A i \in DOMAIN events :
        LET fd == events[i].fd IN
        CASE fd = udp_fd_    -> datagrams > 0
          [] fd = listen_fd_ -> backlog # <<>>
          [] OTHER           -> fd \in fdmap /\ conn[fd].input # "none"

\* Although one event may stand for several datagrams and only one is read for
\* it, the buffer is never left full: a full one would drop every later
\* datagram, and none would ever wake the loop.
FullBufferIsReported == datagrams = MaxQueue => Reported(udp_fd_)

\* Although one accept is made for several connections, not all callers can be
\* left waiting in the backlog with nothing that would wake the loop.
NotAllStuck ==
    (\A c \in Callers : caller[c] = "connecting") => Reported(listen_fd_)

\* A caller that waits for an answer has exactly one connection in the map,
\* and a connection nobody has closed is still in the map.
FdmapIsLive ==
    ~ crashed =>
        /\ \A c \in Callers :
              Cardinality({fd \in fdmap : conn[fd].live /\ conn[fd].peer = c})
                 = IF caller[c] \in {"accepted", "sent"} THEN 1 ELSE 0
        /\ \A fd \in Fds : fd \in fdmap <=> conn[fd].peer # NoCaller

\* A call returns, also one that was left in the backlog, as long as another
\* process calls again and again (or the server dies): the application, which
\* serves nobody while its notice is unanswered, does not wait for ever.
CallsReturn ==
    \A c \in Callers \ Looping :
        caller[c] # "idle" ~> caller[c] = "idle" \/ crashed

\* "Can cut off a user at any time" (README.md): the looping caller's order is
\* answered, too, unless the server dies.
OrdersReturn ==
    \A c \in Looping : caller[c] # "idle" ~> caller[c] = "idle" \/ crashed
=============================================================================
