----------------------------- MODULE Descriptors -----------------------------
(***************************************************************************)
(* The descriptor numbers of one server process: what the event loop does   *)
(* with accepted connections (epoll_dispatcher.cpp), what ClientRPCRequest  *)
(* does with the sockets of calls (erpc_handler.cpp), and when a connector, *)
(* which remembers a number, is destroyed (ssl_tool.cpp).  The kernel gives *)
(* out the lowest number that is free, also one that was closed just now.   *)
(***************************************************************************)
EXTENDS Naturals, FiniteSets

CONSTANTS
    Process,    \* which of the three servers: they differ in when they call
    Fds,        \* the numbers below its limit that are not the loop's own
    Inherited,  \* those of them that are open from the start: a terminal or pipe
    NoFd,       \* a number behind which there is nothing
    MaxSockets  \* bound: connections accepted and calls made

ASSUME DescriptorsAssumption ==
    /\ Process \in {"controller", "gateway", "application"}
    /\ Fds \subseteq Nat
    /\ Inherited \subseteq Fds
    /\ NoFd \notin Fds
    /\ MaxSockets \in Nat

VARIABLES
    file,     \* file[fd]: the socket behind a number, or Terminal; 0 when closed
    opened,   \* sockets opened so far; a socket is known by its number in time
    calls,    \* the sockets that were opened for calls
    epoll,    \* numbers registered with epollfd
    fdmap,    \* fdmap[fd]: the connector of an entry
    loop,     \* where the thread of the loop is
    fd_data,  \* Dispatch's copy of an entry, with a share of its connector
    call      \* the connector of the call that is under way

vars == <<file, opened, calls, epoll, fdmap, loop, fd_data, call>>

\* A connector knows the number it was given (SSL_set_fd) and whether its
\* handshake succeeded (conn_status); "socket" is what that number meant then.
Connectors == [fd : Fds, socket : 1..MaxSockets, conn_status : BOOLEAN]
Null == [fd |-> NoFd, socket |-> 0, conn_status |-> FALSE]
NoEntry == [fd |-> NoFd, socket |-> 1, conn_status |-> FALSE]

\* What is behind a number the process was started with.
Terminal == MaxSockets + 1

TypeOK ==
    /\ file \in [Fds -> 0..Terminal]
    /\ opened \in 0..MaxSockets
    /\ calls \in SUBSET (1..MaxSockets)
    /\ epoll \in SUBSET Fds
    /\ fdmap \in [Fds -> Connectors \cup {Null, NoEntry}]
    /\ loop \in {"constructor", "wait", "handshake", "add", "handle", "close",
                 "destroy", "erase", "dead"}
    /\ fd_data \in [fd : Fds \cup {NoFd}, connector : Connectors \cup {Null}]
    /\ call \in Connectors \cup {Null}

NoData == [fd |-> NoFd, connector |-> Null]

Init ==
    /\ file = [fd \in Fds |-> IF fd \in Inherited THEN Terminal ELSE 0]
    /\ opened = 0
    /\ calls = {}
    /\ epoll = {}
    /\ fdmap = [fd \in Fds |-> NoEntry]
    /\ loop = "constructor"
    /\ fd_data = NoData
    /\ call = Null

-----------------------------------------------------------------------------
\* The definitions named Faulty... are not part of the specification: each is a
\* slip of the definition below it, kept to show which property notices it.

Lowest(fd) == file[fd] = 0 /\ \A other \in Fds : file[other] = 0 => fd <= other
Full == \A fd \in Fds : file[fd] # 0

\* accept or socket gives the lowest free number to a new socket.
Open(fd) ==
    /\ opened < MaxSockets
    /\ Lowest(fd)
    /\ opened' = opened + 1
    /\ file' = [file EXCEPT ![fd] = opened + 1]

FaultyNewConnector(fd) ==
    [fd |-> NoFd, socket |-> opened + 1, conn_status |-> FALSE]

NewConnector(fd) == [fd |-> fd, socket |-> opened + 1, conn_status |-> FALSE]

\* Who holds a share of a connector: entries, Dispatch's copy, and the call.
\* When the last share is gone, ~SSLConnector lets SSL_shutdown write its alert
\* to the number the connector remembers, whatever socket is there by then.
Held == {fdmap[fd] : fd \in Fds} \cup {fd_data.connector, call}
AlertTo(connector) == IF connector.conn_status THEN file[connector.fd] ELSE 0

\* The scanner thread of the controller calls while the loop runs; the gateway
\* and the application call from the thread of the loop, which waits.
LoopRuns == Process = "controller" \/ call = Null

Run ==
    /\ loop = "constructor"
    /\ Process # "gateway"
    /\ LoopRuns
    /\ loop' = "wait"
    /\ UNCHANGED <<file, opened, calls, epoll, fdmap, fd_data, call>>

HandleRPCAccept(fd) ==
    /\ loop = "wait"
    /\ LoopRuns
    /\ Open(fd)
    /\ fd_data' = [fd |-> fd, connector |-> NewConnector(fd)]
    /\ loop' = "handshake"
    /\ UNCHANGED <<calls, epoll, fdmap, call>>

\* accept fails when no number is free; Dispatch goes on all the same, with a
\* fd_data whose fd nobody has set.
HandleRPCAcceptFails(fd) ==
    /\ loop = "wait"
    /\ LoopRuns
    /\ Full
    /\ fd_data' = [fd |-> fd, connector |-> Null]
    /\ loop' = "add"
    /\ UNCHANGED <<file, opened, calls, epoll, fdmap, call>>

SSLAccept ==
    /\ loop = "handshake"
    /\ \E ok \in BOOLEAN :
          fd_data' = [fd_data EXCEPT !.connector.conn_status = ok]
    /\ loop' = "add"
    /\ UNCHANGED <<file, opened, calls, epoll, fdmap, call>>

Register ==
    /\ epoll' = epoll \cup {fd_data.fd}
    /\ fdmap' = [fdmap EXCEPT ![fd_data.fd] = fd_data.connector]

FaultyAddUnchecked ==
    /\ loop = "add"
    /\ IF fd_data.fd \in Fds THEN Register ELSE UNCHANGED <<epoll, fdmap>>
    /\ fd_data' = NoData
    /\ loop' = "wait"
    /\ UNCHANGED <<file, opened, calls, call>>

\* epoll_ctl refuses a number that is closed (EBADF) or registered (EEXIST), and
\* what cannot be polled (EPERM), as the file a standard stream may lead to.
DispatcherAdd ==
    /\ loop = "add"
    /\ \/ fd_data.fd \in Fds \ epoll /\ Register
       \/ /\ fd_data.fd \in Fds \ epoll => file[fd_data.fd] = Terminal
          /\ UNCHANGED <<epoll, fdmap>>
    /\ fd_data' = NoData
    /\ loop' = "wait"
    /\ UNCHANGED <<file, opened, calls, call>>

\* A copy of the entry; reading through an entry without a connector kills the
\* process.
HandleRequest(fd) ==
    /\ loop = "wait"
    /\ LoopRuns
    /\ fd \in epoll
    /\ fd_data' = [fd |-> fd, connector |-> fdmap[fd]]
    /\ loop' = IF fdmap[fd] = Null THEN "dead" ELSE "handle"
    /\ UNCHANGED <<file, opened, calls, epoll, fdmap, call>>

FaultyDelKeepsEntry ==
    /\ loop \in {"handle", "close"}
    /\ LoopRuns
    /\ epoll' = epoll \ {fd_data.fd}
    /\ file' = [file EXCEPT ![fd_data.fd] = 0]
    /\ loop' = "destroy"
    /\ UNCHANGED <<opened, calls, fdmap, fd_data, call>>

FaultyDelKeepsOpen ==
    /\ loop \in {"handle", "close"}
    /\ LoopRuns
    /\ epoll' = epoll \ {fd_data.fd}
    /\ fdmap' = [fdmap EXCEPT ![fd_data.fd] = NoEntry]
    /\ loop' = "destroy"
    /\ UNCHANGED <<file, opened, calls, fd_data, call>>

\* Whatever the handler returned: out of the epoll set, closed, erased.
DispatcherDel ==
    /\ loop \in {"handle", "close"}
    /\ LoopRuns
    /\ epoll' = epoll \ {fd_data.fd}
    /\ file' = [file EXCEPT ![fd_data.fd] = 0]
    /\ fdmap' = [fdmap EXCEPT ![fd_data.fd] = NoEntry]
    /\ loop' = "destroy"
    /\ UNCHANGED <<opened, calls, fd_data, call>>

FaultyDestroyWithNextEvent ==
    /\ loop = "destroy"
    /\ LoopRuns
    /\ loop' = "wait"
    /\ UNCHANGED <<file, opened, calls, epoll, fdmap, fd_data, call>>

\* An error or the hang-up of both sides is reported: Dispatch closes the number
\* first and erases the entry, the only one to have a share of the connector.
HangUp(fd) ==
    /\ loop = "wait"
    /\ LoopRuns
    /\ fd \in epoll
    /\ fd_data' = [fd |-> fd, connector |-> fdmap[fd]]
    /\ epoll' = epoll \ {fd}
    /\ file' = [file EXCEPT ![fd] = 0]
    /\ fdmap' = [fdmap EXCEPT ![fd] = NoEntry]
    /\ loop' = "erase"
    /\ UNCHANGED <<opened, calls, call>>

\* The connector is destroyed.  When the event says EPOLLIN besides, Dispatch goes
\* on to read: fdmap[fd] inserts an empty entry, without a connector.
EraseEntry ==
    /\ loop = "erase"
    /\ LoopRuns
    /\ fd_data' = NoData
    /\ \/ loop' = "wait" /\ fdmap' = fdmap
       \/ loop' = "dead" /\ fdmap' = [fdmap EXCEPT ![fd_data.fd] = Null]
    /\ UNCHANGED <<file, opened, calls, epoll, call>>

\* fd_data goes out of scope and the last share of the connector with it.
DestroyFdData ==
    /\ loop = "destroy"
    /\ LoopRuns
    /\ fd_data' = NoData
    /\ loop' = "wait"
    /\ UNCHANGED <<file, opened, calls, epoll, fdmap, call>>

-----------------------------------------------------------------------------
\* ClientRPCRequest.

\* The scanner calls at any time, the gateway in its constructor, the
\* application in the handler of a request it refuses.
MayCall ==
    CASE Process = "controller"  -> loop # "dead"
      [] Process = "gateway"     -> loop = "constructor"
      [] Process = "application" -> loop = "handle"

CallSocket(fd) ==
    /\ call = Null
    /\ MayCall
    /\ Open(fd)
    /\ calls' = calls \cup {opened + 1}
    /\ call' = NewConnector(fd)
    /\ UNCHANGED <<epoll, fdmap, loop, fd_data>>

SSLConnect ==
    /\ call # Null
    /\ loop # "dead"
    /\ ~ call.conn_status
    /\ call' = [call EXCEPT !.conn_status = TRUE]
    /\ UNCHANGED <<file, opened, calls, epoll, fdmap, loop, fd_data>>

\* Answered or not: the connector is destroyed, the socket is never closed.
CallReturns ==
    /\ call # Null
    /\ loop # "dead"
    /\ call' = Null
    /\ loop' = CASE Process = "controller"  -> loop
                 [] Process = "gateway"     -> "wait"
                 [] Process = "application" -> "close"
    /\ UNCHANGED <<file, opened, calls, epoll, fdmap, fd_data>>

Next ==
    \/ Run
    \/ \E fd \in Fds : HandleRPCAccept(fd) \/ HandleRequest(fd) \/ HangUp(fd)
                        \/ CallSocket(fd)
    \/ \E fd \in Fds \cup {NoFd} : HandleRPCAcceptFails(fd)
    \/ SSLAccept \/ DispatcherAdd \/ DispatcherDel \/ DestroyFdData \/ EraseEntry
    \/ SSLConnect \/ CallReturns

Spec == Init /\ [][Next]_vars

-----------------------------------------------------------------------------
\* Properties.

\* An entry's connector is the one made for the socket that is behind the
\* entry's number now, however often numbers are given out again.
ConnectorOwnsFd ==
    \A fd \in Fds : fdmap[fd] \notin {Null, NoEntry} =>
        fdmap[fd].fd = fd /\ file[fd] = fdmap[fd].socket

\* Reading through an entry without a connector kills the process.  Such an entry
\* is never made at a connection the loop has accepted: it needs a failed accept
\* and stands at the socket of a call that was left open, or at a number the
\* process was started with; or it is the one Dispatch inserts, when an event says
\* both hang-up and input, at the number it has closed just now.
NullOnlyAtStrangers ==
    \A fd \in Fds : fdmap[fd] = Null =>
        \/ file[fd] \in calls \cup {Terminal}
        \/ file[fd] = 0 /\ loop = "dead"

\* What is open is in the map, or in the hands of the loop, or was opened for a
\* call or before the start: the loop closes whatever it accepted, also after a
\* failed handshake and after a hang-up.
OnlyCallsLeak ==
    \A fd \in Fds : file[fd] # 0 =>
        \/ fdmap[fd] # NoEntry
        \/ fd_data.fd = fd
        \/ file[fd] \in calls \cup {Terminal}

\* "Manages one SSL connection" (ssl_tool.h): the alert of a connector that is
\* destroyed reaches its own connection or nobody, although the number it
\* remembers has been closed before.
AlertStaysHome ==
    [][\A c \in Held \ Held' : AlertTo(c)' \in {0, c.socket}]_vars
=============================================================================
