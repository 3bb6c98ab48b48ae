------------------------------ MODULE SDPSystem ------------------------------
(***************************************************************************)
(* The system as it is deployed: one controller with its scanner thread,    *)
(* one gateway, the application on the gateway's host, and client programs. *)
(* Controller and Gateway are the instances C and G; an action here joins   *)
(* the handler of one of them with the step of the program that called it.  *)
(* Datagrams are lost, delayed and repeated.  A call is a connection in the *)
(* other program's Backlog, then an accepted connection, then answered; its *)
(* caller blocks until it is answered or has failed.                        *)
(***************************************************************************)
EXTENDS Naturals, FiniteSets, Sequences, SequencesExt

CONSTANTS
    ClientIPs,             \* addresses at which client programs run
    Suspect,               \* IP_CLIENT_PB, the address the scanner bans
    ControllerIP,          \* IP_CONTROLLER_PB
    GatewayIP,             \* IP_APPGATEWAY_PB = IP_APPLICATION_PB
    TcpPort,               \* TCP_PORT_CONTROLLER
    RpcPort, AppPort,      \* TCP_PORT_APPGATEWAY, TCP_PORT_APPLICATION
    AccountOf,             \* the account each client program uses
    DigestOf,              \* the digest of the n-th voucher, as it happens to
                           \* come out (what a collision does: Controller)
    Digests, Randoms, InitMark, NoPort, MaxRules,
    NoClient,
    MaxVouchers,           \* bound: knocks at the controller
    MaxTickets,            \* bound: tickets
    MaxStops               \* bound: stops of the controller and the gateway

ASSUME SDPSystemAssumption ==
    /\ Suspect \in ClientIPs
    /\ ControllerIP \notin ClientIPs
    /\ GatewayIP \notin ClientIPs
    /\ NoClient \notin ClientIPs
    /\ RpcPort # AppPort
    /\ InitMark \notin {TcpPort, RpcPort, AppPort, NoPort}
    /\ NoPort \notin {TcpPort, RpcPort, AppPort}
    /\ MaxRules \in Nat \ {0}
    /\ {MaxVouchers, MaxTickets, MaxStops} \subseteq Nat

VARIABLES
    \* the controller and its firewall
    c_list, c_accept, c_drop, c_phase, c_md5, app_map_, permission_map_,
    vouchers, tickets, c_stops,
    c_waiting, c_events,   \* its backlog
    c_hung,                \* its loop waits for a client that is cut off
    \* the gateway and its firewall
    g_list, g_accept, g_drop, g_phase, controller_black_list_, g_md5,
    issued, g_stops,
    g_waiting, g_events,   \* its backlog
    g_accepted,            \* the calls it has accepted and not answered
    \* the application
    app,                   \* what its loop is doing
    app_peer,              \* for whom
    a_waiting, a_events,
    \* the others
    scanner,               \* where the scanner thread is
    overdue,               \* history: an order to lift the ban was begun and
                           \* has not been carried out
    client,                \* where the client program at an address is
    admitted               \* history: addresses the controller has let in by
                           \* a voucher

C == INSTANCE Controller WITH
         IPs <- ClientIPs \cup {GatewayIP}, Ports <- {TcpPort},
         Registrars <- {GatewayIP}, CmdOutcomes <- {TRUE},
         Users <- {AccountOf[c] : c \in ClientIPs}, Strangers <- {},
         Apps <- {AppPort}, MaxRestarts <- MaxStops,
         ip_white_list_ <- c_list, accept <- c_accept, drop <- c_drop,
         phase <- c_phase, md5_map_ <- c_md5, restarts <- c_stops

\* The lifetime of a ticket is the subject of Gateway; here time stands still.
G == INSTANCE Gateway WITH
         IPs <- ClientIPs \cup {ControllerIP, GatewayIP},
         Ports <- {RpcPort, AppPort}, CmdOutcomes <- {TRUE},
         ApplicationIP <- GatewayIP, Knockers <- ClientIPs,
         ValidSeconds <- 0, Word <- 1, MaxSkew <- 0, MaxTime <- 0,
         MaxRestarts <- MaxStops,
         ip_white_list_ <- g_list, accept <- g_accept, drop <- g_drop,
         phase <- g_phase, md5_map_ <- g_md5,
         ctime <- 0, gtime <- 0, restarts <- g_stops

\* Who calls: the controller is called by the gateway and the clients, the
\* gateway by the scanner and the application, the application by the clients.
Orders == {"ADD", "DEL"}
CB == INSTANCE Backlog WITH Callers <- ClientIPs \cup {GatewayIP},
                            waiting <- c_waiting, events <- c_events
GB == INSTANCE Backlog WITH Callers <- Orders \cup {"notice"},
                            waiting <- g_waiting, events <- g_events
AB == INSTANCE Backlog WITH Callers <- ClientIPs,
                            waiting <- a_waiting, events <- a_events

controller == <<c_list, c_accept, c_drop, c_phase, c_md5, app_map_,
                permission_map_, vouchers, tickets, c_stops>>
gateway == <<g_list, g_accept, g_drop, g_phase, controller_black_list_, g_md5,
             issued, g_stops>>
c_backlog == <<c_waiting, c_events>>
g_backlog == <<g_waiting, g_events>>
a_backlog == <<a_waiting, a_events>>
c_calls == <<c_backlog, c_hung>>
g_calls == <<g_backlog, g_accepted>>
application == <<app, app_peer, a_backlog>>
thread == <<scanner, overdue>>
vars == <<controller, c_calls, gateway, g_calls, application, thread, client,
          admitted>>

Places == {"idle", "asking", "fetching", "entitled", "connecting", "handshaking",
           "talking", "waiting"}

TypeOK ==
    /\ C!TypeOK
    /\ G!TypeOK
    /\ CB!TypeOK /\ GB!TypeOK /\ AB!TypeOK
    /\ g_accepted \in SUBSET GB!Connections
    /\ c_hung \in BOOLEAN
    /\ app \in {"loop", "handshake", "orphan", "notice"}
    /\ app_peer \in ClientIPs \cup {NoClient}
    /\ app = "loop" <=> app_peer = NoClient
    /\ scanner \in {"off", "beforeAdd", "adding", "beforeDel", "deleting"}
    /\ overdue \in BOOLEAN
    /\ client \in [ClientIPs -> Places]
    /\ admitted \in SUBSET ClientIPs

Init ==
    /\ C!Init
    /\ G!Init
    /\ c_waiting = <<>> /\ c_events = 0 /\ c_hung = FALSE
    /\ g_waiting = <<>> /\ g_events = 0 /\ g_accepted = {}
    /\ a_waiting = <<>> /\ a_events = 0
    /\ app = "loop"
    /\ app_peer = NoClient
    /\ scanner = "off"
    /\ overdue = FALSE
    /\ client = [c \in ClientIPs |-> "idle"]
    /\ admitted = {}

Open(c) == G!Reaches(c, AppPort)
Move(c, to) == client' = [client EXCEPT ![c] = to]
AppGoes(to, c) == app' = to /\ app_peer' = c

\* The call of x was connected and has neither been answered nor failed.
PendingAtGateway(x) == GB!Queued(x) \/ GB!Live(x) \in g_accepted

\* What its caller does when a call has returned, answered or not: the gateway
\* runs, the scanner goes on, the application returns to its loop.
RegistrationReturns == G!Run
OrderReturns(x) == scanner' = IF x = "ADD" THEN "beforeDel" ELSE "beforeAdd"
NoticeReturns == AppGoes("loop", NoClient) /\ Move(app_peer, "idle")

-----------------------------------------------------------------------------
\* The processes start and stop.  The scanner is a detached thread that main
\* starts before the controller guards its port; it ends with the process.
\* With a process end the connections to it, and those it has made; an order
\* that was accepted may still be served then.
\* The definitions named Faulty... are not part of the specification: each is
\* a slip of the definition below it, kept to show which property notices it.

ControllerStarts ==
    /\ C!Start
    /\ scanner' = "beforeAdd"
    /\ UNCHANGED <<c_calls, gateway, g_calls, application, overdue, client, admitted>>

ControllerRuns ==
    /\ C!Run
    /\ UNCHANGED <<c_calls, gateway, g_calls, application, thread, client, admitted>>

ControllerStops ==
    /\ c_stops + g_stops < MaxStops
    /\ C!Stop
    /\ CB!Clear /\ c_hung' = FALSE
    /\ IF CB!Queued(GatewayIP) THEN RegistrationReturns ELSE UNCHANGED gateway
    /\ client' = [c \in ClientIPs |->
                     IF client[c] = "fetching" THEN "idle" ELSE client[c]]
    /\ scanner' = "off"
    /\ GB!Leave(Orders)
    /\ g_accepted' = {IF k.caller \in Orders THEN GB!Gone(k.caller) ELSE k :
                         k \in g_accepted}
    /\ UNCHANGED <<application, overdue, admitted>>

GatewayStarts ==
    /\ G!Start \/ G!InitRpcPort \/ G!InitAppPort
    /\ UNCHANGED <<controller, c_calls, g_calls, application, thread, client, admitted>>

\* A call may fail at once (socket, connect), always when nobody listens: a
\* process opens its sockets in its constructor, and whether it has come there
\* in its first phase is left open.  That it fails is only logged.  This is the
\* last step of the gateway's constructor: nothing else registers applications.
Register ==
    /\ g_phase = "guarded"
    /\ ~ CB!Queued(GatewayIP)
    /\ \/ c_phase # "down" /\ CB!Connect(GatewayIP) /\ UNCHANGED gateway
       \/ RegistrationReturns /\ UNCHANGED c_backlog
    /\ UNCHANGED <<controller, c_hung, g_calls, application, thread, client, admitted>>

\* A black list is lost with its process: nothing is left to be lifted.
GatewayStops ==
    /\ c_stops + g_stops < MaxStops
    /\ G!Stop
    /\ GB!Clear /\ g_accepted' = {}
    /\ CB!Leave({GatewayIP})
    /\ IF scanner \in {"adding", "deleting"}
       THEN OrderReturns(IF scanner = "adding" THEN "ADD" ELSE "DEL")
       ELSE UNCHANGED scanner
    /\ overdue' = FALSE
    /\ IF app = "notice" THEN NoticeReturns ELSE UNCHANGED <<app, app_peer, client>>
    /\ UNCHANGED <<controller, c_hung, a_backlog, admitted>>

-----------------------------------------------------------------------------
\* The controller's loop.  A caller sends its request with its handshake, so
\* that accepting and serving a call is one step.

ControllerLoops == C!Running /\ ~ c_hung

FaultyRegisterAtScannersPlace ==
    /\ ControllerLoops
    /\ scanner \notin {"adding", "deleting"}
    /\ CB!Accept(CB!Live(GatewayIP))
    /\ C!ConFuncRegisterApp({AppPort}, GatewayIP)
    /\ RegistrationReturns
    /\ UNCHANGED <<c_hung, g_calls, application, thread, client, admitted>>

ServeRegister ==
    /\ ControllerLoops
    /\ CB!Accept(CB!Live(GatewayIP))
    /\ C!ConFuncRegisterApp({AppPort}, GatewayIP)
    /\ RegistrationReturns
    /\ UNCHANGED <<c_hung, g_calls, application, thread, client, admitted>>

FaultyServeAccessUnguarded(c) ==
    /\ ControllerLoops
    /\ client[c] = "asking"
    /\ \E random \in Randoms : G!IssueTicket(c, random)
    /\ Move(c, "entitled")
    /\ UNCHANGED <<controller, c_calls, g_calls, application, thread, admitted>>

\* An empty list means that there is nothing to request; the program ends.
ServeAccess(c) ==
    /\ ControllerLoops
    /\ CB!Accept(CB!Live(c))
    /\ C!ConFuncGetAccess(AccountOf[c], c)
    /\ \/ /\ C!AccessList(AccountOf[c]) = {}
          /\ Move(c, "idle")
          /\ UNCHANGED gateway
       \/ /\ C!AccessList(AccountOf[c]) # {}
          /\ \E random \in Randoms : G!IssueTicket(c, random)
          /\ Move(c, "entitled")
    /\ UNCHANGED <<c_hung, g_calls, application, thread, admitted>>

\* The caller is gone, or the handshake, the request or the answer fails.
ControllerDrops(e) ==
    /\ ControllerLoops
    /\ CB!Accept(e)
    /\ C!Reaches(e.caller, TcpPort)
    /\ IF e = CB!Live(GatewayIP) THEN RegistrationReturns ELSE UNCHANGED gateway
    /\ client' = [c \in ClientIPs |-> IF e = CB!Live(c) THEN "idle" ELSE client[c]]
    /\ UNCHANGED <<controller, c_hung, g_calls, application, thread, admitted>>

\* SSL_accept waits for what the client sends: for ever when its packets are
\* dropped, or when it has left unnoticed.
ControllerHangs(c) ==
    /\ ControllerLoops
    /\ \E e \in Range(c_waiting) :
          /\ CB!Accept(e)
          /\ e.caller = c
          /\ ~ (e.live /\ C!Reaches(c, TcpPort))
    /\ c_hung' = TRUE
    /\ UNCHANGED <<controller, gateway, g_calls, application, thread, client, admitted>>

ControllerAcceptFails ==
    /\ ControllerLoops
    /\ CB!AcceptFails
    /\ UNCHANGED <<controller, c_hung, gateway, g_calls, application, thread, client,
                   admitted>>

VoucherArrives(v, c) ==
    /\ ControllerLoops
    /\ v.acc = AccountOf[c]
    /\ C!ConFuncUdpRecv(v, c)
    /\ admitted' = IF C!Reaches(c, TcpPort)' THEN admitted \cup {c} ELSE admitted
    /\ UNCHANGED <<c_calls, gateway, g_calls, application, thread, client>>

-----------------------------------------------------------------------------
\* The scanner: ADD, thirty seconds, DEL, thirty seconds, whatever the calls
\* return.

ScannerCalls ==
    /\ \/ /\ scanner = "beforeAdd"
          /\ \/ g_phase # "down" /\ GB!Connect("ADD") /\ scanner' = "adding"
             \/ OrderReturns("ADD") /\ UNCHANGED g_backlog
          /\ UNCHANGED overdue
       \/ /\ scanner = "beforeDel"
          /\ \/ g_phase # "down" /\ GB!Connect("DEL") /\ scanner' = "deleting"
                /\ UNCHANGED overdue
             \/ OrderReturns("DEL") /\ UNCHANGED g_backlog
                /\ overdue' = (controller_black_list_ # {})
    /\ UNCHANGED <<controller, c_calls, gateway, g_accepted, application, client,
                   admitted>>

-----------------------------------------------------------------------------
\* The gateway's loop.  Its callers are hosts, whose packets pass.  Its process
\* makes one call in its life and closes what it accepts, so that it never
\* lacks a descriptor.

GatewayAccepts(e) ==
    /\ G!Running
    /\ GB!Accept(e)
    /\ g_accepted' = IF e.live THEN g_accepted \cup {e} ELSE g_accepted
    /\ UNCHANGED <<controller, c_calls, gateway, application, thread, client, admitted>>

FaultyServeOrderKeepsOp(e) ==
    /\ e \in g_accepted
    /\ e.caller \in Orders
    /\ g_accepted' = g_accepted \ {e}
    /\ G!GateFuncBlackListOp(Suspect, ControllerIP)
    /\ G!BlackListAdd(Suspect)
    /\ overdue' = (overdue /\ e.caller = "ADD")
    /\ IF e.live THEN OrderReturns(e.caller) ELSE UNCHANGED scanner
    /\ UNCHANGED <<controller, c_calls, g_backlog, application, client, admitted>>

ServeOrder(e) ==
    /\ e \in g_accepted
    /\ g_accepted' = g_accepted \ {e}
    /\ G!GateFuncBlackListOp(Suspect, ControllerIP)
    /\ \/ e.caller = "ADD" /\ G!BlackListAdd(Suspect) /\ UNCHANGED overdue
       \/ e.caller = "DEL" /\ G!BlackListDel(Suspect) /\ overdue' = FALSE
    /\ IF e.live THEN OrderReturns(e.caller) ELSE UNCHANGED scanner
    /\ UNCHANGED <<controller, c_calls, g_backlog, application, client, admitted>>

\* An order whose connection breaks.
DropOrder(e) ==
    /\ e \in g_accepted
    /\ e.caller \in Orders
    /\ g_accepted' = g_accepted \ {e}
    /\ overdue' = (overdue \/ (e.caller = "DEL" /\ controller_black_list_ # {}))
    /\ IF e.live THEN OrderReturns(e.caller) ELSE UNCHANGED scanner
    /\ UNCHANGED <<controller, c_calls, gateway, g_backlog, application, client,
                   admitted>>

FaultyServeNoticeOwnAddress(c) ==
    /\ app_peer = c
    /\ GB!Live("notice") \in g_accepted
    /\ g_accepted' = g_accepted \ {GB!Live("notice")}
    /\ G!GateFuncNotice(GatewayIP, GatewayIP)
    /\ NoticeReturns
    /\ UNCHANGED <<controller, c_calls, g_backlog, a_backlog, thread, admitted>>

ServeNotice(c) ==
    /\ app_peer = c
    /\ GB!Live("notice") \in g_accepted
    /\ g_accepted' = g_accepted \ {GB!Live("notice")}
    /\ G!GateFuncNotice(c, GatewayIP)
    /\ NoticeReturns
    /\ UNCHANGED <<controller, c_calls, g_backlog, a_backlog, thread, admitted>>

DropNotice ==
    /\ GB!Live("notice") \in g_accepted
    /\ g_accepted' = g_accepted \ {GB!Live("notice")}
    /\ NoticeReturns
    /\ UNCHANGED <<controller, c_calls, gateway, g_backlog, a_backlog, thread, admitted>>

FaultyTicketUnchecked(t) ==
    /\ G!Running
    /\ G!Admit(t, t.ip)
    /\ UNCHANGED <<controller, c_calls, g_calls, application, thread, client, admitted>>

TicketArrives(t) ==
    /\ G!GateFuncUdpRecv(t, t.ip)
    /\ UNCHANGED <<controller, c_calls, g_calls, application, thread, client, admitted>>

-----------------------------------------------------------------------------
\* A client program knocks, asks for its list, knocks at the gateway with the
\* ticket it got, and makes one request.

Knock(c) ==
    /\ client[c] = "idle"
    /\ Move(c, "asking")
    /\ \E digest \in Digests :
          /\ C!MakeVoucher(AccountOf[c], TRUE, digest)
          /\ digest = DigestOf[Cardinality(vouchers) + 1]
    /\ UNCHANGED <<c_calls, gateway, g_calls, application, thread, admitted>>

\* connect: only a SYN that the chain lets through is answered.
Fetch(c) ==
    /\ client[c] = "asking"
    /\ c_phase # "down"
    /\ C!Reaches(c, TcpPort)
    /\ CB!Connect(c)
    /\ Move(c, "fetching")
    /\ UNCHANGED <<controller, c_hung, gateway, g_calls, application, thread, admitted>>

Connect(c) ==
    /\ client[c] = "entitled"
    /\ Open(c)
    /\ AB!Connect(c)
    /\ Move(c, "connecting")
    /\ UNCHANGED <<controller, c_calls, gateway, g_calls, app, app_peer, thread,
                   admitted>>

\* connect gets no answer: the knock was lost or refused, or the port closed.
GiveUp(c) ==
    /\ client[c] \in {"asking", "entitled"}
    /\ Move(c, "idle")
    /\ UNCHANGED <<controller, c_calls, gateway, g_calls, application, thread, admitted>>

\* The connection is there, but the port has closed: the client's kernel gives
\* up, and what it sends about that does not arrive either.
AbandonFetch(c) ==
    /\ client[c] = "fetching"
    /\ ~ C!Reaches(c, TcpPort)
    /\ Move(c, "idle")
    /\ CB!Leave({c})
    /\ UNCHANGED <<controller, c_hung, gateway, g_calls, application, thread, admitted>>

Abandon(c) ==
    /\ client[c] \in {"connecting", "handshaking", "talking"}
    /\ ~ Open(c)
    /\ Move(c, "idle")
    /\ AB!Leave({c})
    /\ app' = IF client[c] = "handshaking" THEN "orphan" ELSE app
    /\ UNCHANGED <<controller, c_calls, gateway, g_calls, app_peer, thread, admitted>>

-----------------------------------------------------------------------------
\* The application: accept and SSL_accept, which waits for the client without
\* a limit; a read for each request that has arrived; the two judgements, whose
\* refusal is told to the gateway before anything else is done.

AppAccepts(e) ==
    /\ app = "loop"
    /\ AB!Accept(e)
    /\ IF e.live
       THEN AppGoes("handshake", e.caller) /\ Move(e.caller, "handshaking")
       ELSE AppGoes("orphan", e.caller) /\ UNCHANGED client
    /\ UNCHANGED <<controller, c_calls, gateway, g_calls, thread, admitted>>

AppAcceptFails ==
    /\ app = "loop"
    /\ AB!AcceptFails
    /\ UNCHANGED <<controller, c_calls, gateway, g_calls, app, app_peer, thread,
                   client, admitted>>

FaultyHandshakeNeverEnds(c) == FALSE

HandshakeEnds(c) ==
    /\ app = "handshake"
    /\ app_peer = c
    /\ Open(c)
    /\ AppGoes("loop", NoClient)
    /\ Move(c, "talking") \/ Move(c, "idle")
    /\ UNCHANGED <<controller, c_calls, gateway, g_calls, a_backlog, thread, admitted>>

\* The client is gone, but one of its last packets gets through after all.
OrphanEnds(c) ==
    /\ app = "orphan"
    /\ app_peer = c
    /\ Open(c)
    /\ AppGoes("loop", NoClient)
    /\ UNCHANGED <<controller, c_calls, gateway, g_calls, a_backlog, thread, client,
                   admitted>>

RequestArrives(c) ==
    /\ client[c] = "talking"
    /\ Open(c)
    /\ Move(c, "waiting")
    /\ UNCHANGED <<controller, c_calls, gateway, g_calls, application, thread, admitted>>

\* AppFuncHttps: served, or refused with a call of the gateway.  A call that
\* fails at once leaves what a served request leaves.
Judge(c) ==
    /\ app = "loop"
    /\ client[c] = "waiting"
    /\ \/ Move(c, "idle") /\ UNCHANGED <<app, app_peer, g_backlog>>
       \/ g_phase # "down" /\ GB!Connect("notice") /\ AppGoes("notice", c)
          /\ UNCHANGED client
    /\ UNCHANGED <<controller, c_calls, gateway, g_accepted, a_backlog, thread, admitted>>

-----------------------------------------------------------------------------
ControllerNext ==
    \/ ControllerStarts \/ ControllerRuns \/ ControllerStops
    \/ ServeRegister \/ ControllerAcceptFails
    \/ \E e \in Range(c_waiting) : ControllerDrops(e)
    \/ \E c \in ClientIPs : ServeAccess(c) \/ ControllerHangs(c)
    \/ \E v \in vouchers, c \in ClientIPs : VoucherArrives(v, c)

GatewayNext ==
    \/ GatewayStarts \/ Register \/ GatewayStops
    \/ DropNotice
    \/ \E e \in Range(g_waiting) : GatewayAccepts(e)
    \/ \E e \in g_accepted : ServeOrder(e) \/ DropOrder(e)
    \/ \E c \in ClientIPs : ServeNotice(c)
    \/ \E t \in issued : TicketArrives(t)

ClientNext(c) ==
    \/ Knock(c) \/ Fetch(c) \/ Connect(c) \/ GiveUp(c) \/ AbandonFetch(c)
    \/ Abandon(c) \/ RequestArrives(c)

ApplicationNext ==
    \/ AppAcceptFails
    \/ \E e \in Range(a_waiting) : AppAccepts(e)
    \/ \E c \in ClientIPs : HandshakeEnds(c) \/ OrphanEnds(c) \/ Judge(c)

Next ==
    \/ ControllerNext \/ GatewayNext \/ ApplicationNext \/ ScannerCalls
    \/ \E c \in ClientIPs : ClientNext(c)

\* A program that has been started goes on: constructors, the scanner's endless
\* loop, the loops of the servers, which come to what has been reported to them.
\* Nobody has to start anything, to knock, or to deliver a datagram, no call has
\* to fail, and whether an orphan is heard is the network's affair.
Fairness ==
    /\ WF_vars(ControllerRuns)
    /\ WF_vars(ServeRegister)
    /\ WF_vars(\E c \in ClientIPs : ServeAccess(c))
    /\ WF_vars(\E e \in Range(c_waiting) : ~ e.live /\ ControllerDrops(e))
    /\ WF_vars(\E c \in ClientIPs : ControllerHangs(c))
    /\ WF_vars(g_phase # "down" /\ GatewayStarts)
    /\ WF_vars(Register)
    /\ WF_vars(\E e \in Range(g_waiting) : GatewayAccepts(e))
    /\ WF_vars(\E e \in g_accepted : ServeOrder(e))
    /\ WF_vars(\E c \in ClientIPs : ServeNotice(c))
    /\ WF_vars(ScannerCalls)
    /\ WF_vars(\E e \in Range(a_waiting) : AppAccepts(e))
    /\ \A c \in ClientIPs : WF_vars(HandshakeEnds(c)) /\ WF_vars(Judge(c))

Spec == Init /\ [][Next]_vars /\ Fairness

-----------------------------------------------------------------------------
\* Properties.

\* Whoever reaches the application of a running gateway has knocked twice: a
\* voucher from that address was let through by the controller, now or before
\* one of the two was restarted, and a ticket was issued to it.
OpenAfterBothKnocks ==
    G!Running => \A c \in ClientIPs :
        Open(c) => c \in admitted /\ \E t \in issued : t.ip = c

P == INSTANCE Perimeter WITH
         Clients <- ClientIPs, Tickets <- G!Tickets,
         letIn <- admitted, handed <- issued,
         open <- {c \in ClientIPs : Open(c)},
         banned <- controller_black_list_ \cap ClientIPs,
         spent <- g_md5, serving <- G!Running

\* The programs together keep the promise of the system: the application is
\* reached by a ticket that was not used before, handed out by a controller
\* that had let the address in, and never against a ban.
ImplementsPerimeter == P!Spec

\* What the calls between the programs need: no knock, ban or notice and no
\* restart closes the ports of the two servers to one another.
CallsHeard ==
    /\ C!Running => C!Reaches(GatewayIP, TcpPort)
    /\ G!Running => /\ G!Reaches(ControllerIP, RpcPort)
                    /\ G!Reaches(GatewayIP, RpcPort)

\* Nobody but the suspect is ever banned, and a ban that the scanner is not
\* about to lift is one that an order to lift it has not reached, or the work
\* of a controller that has stopped: the gateway has nobody else to lift it
\* (sdp_gateway_service_impl.cpp).
BansAreScanners ==
    /\ controller_black_list_ \subseteq {Suspect}
    /\ c_stops = 0 /\ controller_black_list_ # {} /\ ~ overdue =>
          scanner \in {"adding", "beforeDel", "deleting"}

\* The backlogs, the loops and the callers agree: whoever waits for a call has
\* one connection for it in exactly one place, and the application's handshake
\* is with a client that is in its handshake, so that nobody is served in the
\* place of somebody else or waits for what was forgotten.
NobodyForgotten ==
    /\ CB!Sound /\ GB!Sound /\ AB!Sound
    /\ CB!Queued(GatewayIP) => g_phase = "guarded"
    /\ scanner = "adding" <=> PendingAtGateway("ADD")
    /\ scanner = "deleting" <=> PendingAtGateway("DEL")
    /\ app = "notice" <=> PendingAtGateway("notice")
    /\ \A x \in Orders \cup {"notice"} : ~ (GB!Queued(x) /\ GB!Live(x) \in g_accepted)
    /\ \A c \in ClientIPs :
        /\ CB!Queued(c) => client[c] = "fetching"
        /\ client[c] = "fetching" => CB!Queued(c) \/ c_hung
        /\ client[c] = "connecting" <=> AB!Queued(c)
        /\ client[c] = "handshaking" <=> app = "handshake" /\ app_peer = c
        /\ app = "notice" /\ app_peer = c => client[c] = "waiting"

\* What holds in every state of the system: its variables have their types,
\* the door is open only after both knocks, calls between the programs are
\* heard, no call is forgotten, and a ban is one that somebody will lift.
SystemInvariant ==
    TypeOK /\ OpenAfterBothKnocks /\ CallsHeard /\ NobodyForgotten /\ BansAreScanners

\* Nothing the programs do to one another is outside what Controller and Gateway
\* allow their surroundings, so what holds of these two holds in the system.
ImplementsComponents == C!Spec /\ G!Spec

\* The system implements the specifications of its two servers and its own.
Implements == ImplementsComponents /\ ImplementsPerimeter

\* What the application assumes of its notice: once the gateway has served it,
\* the client it was about does not reach the application.
NoticeCloses ==
    [][\A c \in ClientIPs : ServeNotice(c) => ~ Open(c)']_vars

\* The gateway's constructor waits where the controller's loop will not come.
RegistrationStuck == CB!Missed(GatewayIP) \/ c_hung
GatewayStuck == g_phase = "guarded" /\ RegistrationStuck

\* Four programs wait for one another (the gateway's constructor for the
\* controller, the scanner and the application for the gateway), but never in
\* a circle: a call that never returns waits, at the end of such a chain, in a
\* backlog without an event, or for a loop that waits for a client.
EveryCallReturns ==
    /\ <>[](g_phase = "guarded") => <>[]RegistrationStuck
    /\ <>[](app = "notice") => <>[](GB!Missed("notice") \/ GatewayStuck)
    /\ <>[](scanner = "adding") => <>[](GB!Missed("ADD") \/ GatewayStuck)
    /\ <>[](scanner = "deleting") => <>[](GB!Missed("DEL") \/ GatewayStuck)

\* An order to lift the ban fails.
LiftFails == scanner \in {"beforeDel", "deleting"} /\ scanner' = "beforeAdd" /\ overdue'

\* A ban ends, also when the controller stopped between its two orders and a
\* new one took over, unless from then on there is no controller, one of its
\* orders stays in the gateway's backlog, or every order to lift it fails
\* (sdp_gateway_service_impl.cpp: it must be removed by the controller).
BanEnds ==
    <>[](Suspect \in controller_black_list_) =>
        \/ <>[](c_phase = "down")
        \/ <>[](GB!Missed("ADD") \/ GB!Missed("DEL"))
        \/ []<><<LiftFails>>_vars

\* The loop's handshake with a client the port was closed to meanwhile.
CutOffInHandshake ==
    app = "orphan" \/ (app = "handshake" /\ ~ Open(app_peer))

\* The loop waits for a notice that does not return.
NoticeStuck == app = "notice" /\ (GB!Missed("notice") \/ GatewayStuck)

\* A connection that has reached the application is accepted, unless it shared
\* its event with another one, its client is cut off, or the loop is caught in
\* a handshake with one that was or in a notice that does not return.
AcceptedUnlessCutOff ==
    \A c \in ClientIPs :
        <>[](client[c] = "connecting") =>
            <>[](AB!Missed(c) \/ CutOffInHandshake \/ NoticeStuck)

\* "Access the concrete application" (README.md, after both knocks): a client
\* whose connection has been reported to the application gets an answer while
\* its port is open, whoever else is cut off.
CutOffConcernsOnlyOne ==
    \A c \in ClientIPs :
        client[c] = "connecting" ~>
            client[c] # "connecting" \/ ~ Open(c) \/ AB!Missed(c) \/ NoticeStuck
=============================================================================
