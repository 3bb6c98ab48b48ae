---------------------------- MODULE SDPSystemProofs ----------------------------
(***************************************************************************)
(* The deployed system, for any number of client programs: each step of it  *)
(* is a step of Controller and a step of Gateway, or leaves them alone, so  *)
(* that what is proved about the two holds when they run together; and the  *)
(* backlogs, the loops and the callers agree on who waits for whom.         *)
(***************************************************************************)
EXTENDS SDPSystem, TLAPS

USE SDPSystemAssumption

-----------------------------------------------------------------------------
\* The controller's part of a step.

\* The system starts where the controller starts.
LEMMA InitController == Init => C!Init
  BY DEF Init

\* Every step of the system is one of the controller, or none.
LEMMA StepController == [Next]_vars => [C!Next]_C!vars
<1>. SUFFICES ASSUME [Next]_vars PROVE [C!Next]_C!vars
  OBVIOUS
<1>. USE DEF C!Next, C!NoKnock
<1>1. CASE UNCHANGED controller
  BY <1>1 DEF controller, C!vars, C!fwvars, C!memory
<1>2. CASE ControllerStarts \/ ControllerRuns \/ ControllerStops
  BY <1>2 DEF ControllerStarts, ControllerRuns, ControllerStops
<1>3. CASE ServeRegister
  BY <1>3 DEF ServeRegister
<1>4. ASSUME NEW c \in ClientIPs, Knock(c)
      PROVE  C!Next
  <2>1. PICK digest \in Digests : C!MakeVoucher(AccountOf[c], TRUE, digest)
    BY <1>4 DEF Knock
  <2>2. AccountOf[c] \in C!Accounts
    BY DEF C!Accounts
  <2>. QED  BY <2>1, <2>2
<1>5. ASSUME NEW c \in ClientIPs, ServeAccess(c)
      PROVE  C!Next
  <2>1. C!ConFuncGetAccess(AccountOf[c], c)
    BY <1>5 DEF ServeAccess
  <2>2. AccountOf[c] \in C!Accounts
    BY DEF C!Accounts
  <2>. QED  BY <2>1, <2>2
<1>6. ASSUME NEW v \in vouchers, NEW c \in ClientIPs, VoucherArrives(v, c)
      PROVE  C!Next
  BY <1>6 DEF VoucherArrives
<1>7. \/ UNCHANGED controller
      \/ ControllerStarts \/ ControllerRuns \/ ControllerStops \/ ServeRegister
      \/ \E c \in ClientIPs : Knock(c) \/ ServeAccess(c)
      \/ \E v \in vouchers, c \in ClientIPs : VoucherArrives(v, c)
  BY DEF Next, ControllerNext, ControllerDrops, ControllerHangs,
         ControllerAcceptFails, GatewayNext, GatewayStarts, Register,
         GatewayStops, GatewayAccepts, ServeOrder, DropOrder, ServeNotice,
         DropNotice, TicketArrives, ScannerCalls, ClientNext, Fetch, Connect,
         GiveUp, AbandonFetch, Abandon, RequestArrives, ApplicationNext,
         AppAccepts, AppAcceptFails, HandshakeEnds, OrphanEnds, Judge, vars
<1>. QED  BY <1>1, <1>2, <1>3, <1>4, <1>5, <1>6, <1>7

\* In the system the controller behaves as Controller says.
THEOREM ImplementsController == Spec => C!Spec
  BY InitController, StepController, PTL DEF Spec, C!Spec

-----------------------------------------------------------------------------
\* The gateway's part of a step.

\* Tickets are handed to client programs.
TicketsOfClients == \A t \in issued : t.ip \in ClientIPs

\* The system starts where the gateway starts.
LEMMA InitGateway == Init => G!Init
  BY DEF Init

\* The steps in which a registration returns: the gateway begins to run.
RegistrationMayReturn ==
    \/ ControllerStops \/ Register \/ ServeRegister
    \/ \E e \in Range(c_waiting) : ControllerDrops(e)

\* What a step of the system is for the gateway.
LEMMA GatewaysPart ==
    ASSUME [Next]_vars
    PROVE  \/ UNCHANGED gateway
           \/ RegistrationMayReturn /\ G!Run
           \/ GatewayStarts \/ GatewayStops
           \/ \E e \in g_accepted : ServeOrder(e)
           \/ \E c \in ClientIPs, random \in Randoms :
                 ServeAccess(c) /\ G!IssueTicket(c, random)
           \/ \E c \in ClientIPs : ServeNotice(c)
           \/ \E t \in issued : TicketArrives(t)
<1>1. ASSUME NEW c \in ClientIPs, ServeAccess(c), ~ UNCHANGED gateway
      PROVE  \E random \in Randoms : G!IssueTicket(c, random)
  BY <1>1 DEF ServeAccess
<1>2. RegistrationMayReturn => G!Run \/ UNCHANGED gateway
  BY DEF RegistrationMayReturn, ControllerStops, Register, ServeRegister,
         ControllerDrops, RegistrationReturns
<1>. QED
  BY <1>1, <1>2
  DEF RegistrationMayReturn, Next, ControllerNext, ControllerStarts,
      ControllerRuns, ControllerHangs, ControllerAcceptFails, VoucherArrives,
      GatewayNext, GatewayAccepts, DropOrder, DropNotice, ScannerCalls,
      ClientNext, Knock, Fetch, Connect, GiveUp, AbandonFetch, Abandon,
      RequestArrives, ApplicationNext, AppAccepts, AppAcceptFails,
      HandshakeEnds, OrphanEnds, Judge, vars

\* Every step of the system is one of the gateway, or none.
LEMMA StepGateway ==
    TicketsOfClients /\ [Next]_vars => [G!Next]_G!vars
<1>. SUFFICES ASSUME TicketsOfClients, [Next]_vars PROVE [G!Next]_G!vars
  OBVIOUS
<1>. USE DEF G!Next
<1>1. CASE UNCHANGED gateway
  BY <1>1 DEF gateway, G!vars, G!fwvars, G!memory, G!world
<1>2. CASE G!Run \/ GatewayStarts \/ GatewayStops
  BY <1>2 DEF GatewayStarts, GatewayStops
<1>3. ASSUME NEW e \in g_accepted, ServeOrder(e)
      PROVE  G!Next
  BY <1>3 DEF ServeOrder
<1>4. ASSUME NEW c \in ClientIPs, NEW random \in Randoms,
             G!IssueTicket(c, random)
      PROVE  G!Next
  BY <1>4
<1>5. ASSUME NEW t \in issued, TicketArrives(t)
      PROVE  G!Next
  BY <1>5 DEF TicketArrives, TicketsOfClients
<1>6. ASSUME NEW c \in ClientIPs, ServeNotice(c)
      PROVE  G!Next
  BY <1>6 DEF ServeNotice
<1>. QED  BY <1>1, <1>2, <1>3, <1>4, <1>5, <1>6, GatewaysPart

\* Tickets are issued with the answer to a client, and not otherwise.
LEMMA TicketsByAccess ==
    ASSUME [Next]_vars, ~ UNCHANGED issued
    PROVE  \E c \in ClientIPs, random \in Randoms :
              ServeAccess(c) /\ G!IssueTicket(c, random)
<1>1. ASSUME NEW e \in g_accepted, ServeOrder(e) PROVE UNCHANGED issued
  BY <1>1 DEF ServeOrder, G!GateFuncBlackListOp, G!world
<1>2. ASSUME NEW c \in ClientIPs, ServeNotice(c) PROVE UNCHANGED issued
  BY <1>2 DEF ServeNotice, G!GateFuncNotice, G!world
<1>3. ASSUME NEW t \in issued, TicketArrives(t) PROVE UNCHANGED issued
  BY <1>3 DEF TicketArrives, G!GateFuncUdpRecv, G!Admit, G!vars, G!world
<1>. QED
  BY <1>1, <1>2, <1>3, GatewaysPart
  DEF GatewayStarts, GatewayStops, gateway, G!Start, G!InitRpcPort,
      G!InitAppPort, G!Run, G!Stop, G!world

\* So tickets go to clients only.
LEMMA TicketsInductive == Spec => []TicketsOfClients
<1>1. Init => TicketsOfClients
  BY DEF Init, G!Init, TicketsOfClients
<1>2. TicketsOfClients /\ [Next]_vars => TicketsOfClients'
  BY TicketsByAccess DEF TicketsOfClients, G!IssueTicket
<1>. QED  BY <1>1, <1>2, PTL DEF Spec

\* In the system the gateway behaves as Gateway says.
THEOREM ImplementsGateway == Spec => G!Spec
  BY InitGateway, StepGateway, TicketsInductive, PTL DEF Spec, G!Spec

\* Neither program meets anything in the system that Controller and Gateway do
\* not allow their surroundings.
THEOREM SystemImplementsComponents == Spec => ImplementsComponents
  BY ImplementsController, ImplementsGateway DEF ImplementsComponents

-----------------------------------------------------------------------------
\* What is proved of Controller and Gateway, in the place they have here.  The
\* assumptions of the two follow from those of the system.

CP == INSTANCE ControllerProofs WITH
          IPs <- ClientIPs \cup {GatewayIP}, Ports <- {TcpPort},
          Registrars <- {GatewayIP}, CmdOutcomes <- {TRUE},
          Users <- {AccountOf[c] : c \in ClientIPs}, Strangers <- {},
          Apps <- {AppPort}, MaxRestarts <- MaxStops,
          ip_white_list_ <- c_list, accept <- c_accept, drop <- c_drop,
          phase <- c_phase, md5_map_ <- c_md5, restarts <- c_stops

GP == INSTANCE GatewayProofs WITH
          IPs <- ClientIPs \cup {ControllerIP, GatewayIP},
          Ports <- {RpcPort, AppPort}, CmdOutcomes <- {TRUE},
          ApplicationIP <- GatewayIP, Knockers <- ClientIPs,
          ValidSeconds <- 0, Word <- 1, MaxSkew <- 0, MaxTime <- 0,
          MaxRestarts <- MaxStops,
          ip_white_list_ <- g_list, accept <- g_accept, drop <- g_drop,
          phase <- g_phase, md5_map_ <- g_md5,
          ctime <- 0, gtime <- 0, restarts <- g_stops

\* The controller's constants are as its proofs assume.
LEMMA ControllerConstants == CP!FirewallAssumption /\ CP!ControllerAssumption
  BY DEF CP!FirewallAssumption, CP!ControllerAssumption

\* The gateway's constants are as its proofs assume.
LEMMA GatewayConstants == GP!FirewallAssumption /\ GP!GatewayAssumption
  BY DEF GP!FirewallAssumption, GP!GatewayAssumption, GP!Hosts

\* The proofs are about the controller of this system.
LEMMA ControllerOfProofs == C!Spec => CP!Spec
<1>1. C!Init => CP!Init
  BY
  DEF C!Init, CP!Init, C!FWInit, CP!FWInit, C!EmptyList, CP!EmptyList,
      C!NoRules, CP!NoRules, C!NoApps, CP!NoApps, C!NoPermissions,
      CP!NoPermissions, C!Accounts, CP!Accounts
<1>2. [C!Next]_C!vars => [CP!Next]_CP!vars
  BY
  DEF C!vars, CP!vars, C!memory, CP!memory, C!fwvars, CP!fwvars, C!EmptyList,
      CP!EmptyList, C!NoRules, CP!NoRules, C!Flush, CP!Flush, C!InitWhiteList,
      CP!InitWhiteList, C!OpWhiteListAdd, CP!OpWhiteListAdd, C!OpWhiteListDel,
      CP!OpWhiteListDel, C!HasRule, CP!HasRule, C!UnbanUser, CP!UnbanUser,
      C!BanUser, CP!BanUser, C!Reaches, CP!Reaches, C!Hosts, CP!Hosts,
      C!Accounts, CP!Accounts, C!Destinations, CP!Destinations, C!Start,
      CP!Start, C!Run, CP!Run, C!Stop, CP!Stop, C!CheckUserPasswd,
      CP!CheckUserPasswd, C!CheckUserPermission_Exists,
      CP!CheckUserPermission_Exists, C!Verified, CP!Verified,
      C!ConFuncUdpRecv, CP!ConFuncUdpRecv, C!CheckUserPermission_Allowed,
      CP!CheckUserPermission_Allowed, C!AccessList, CP!AccessList,
      C!ConFuncGetAccess, CP!ConFuncGetAccess, C!ConFuncRegisterApp,
      CP!ConFuncRegisterApp, C!MakeVoucher, CP!MakeVoucher, C!NoApps,
      CP!NoApps, C!NoPermissions, CP!NoPermissions, C!Cardinality,
      CP!Cardinality, C!NoKnock, CP!NoKnock, C!Next, CP!Next
<1>. QED  BY <1>1, <1>2, PTL DEF C!Spec, CP!Spec

\* Its steps are steps of the gateway of the proofs.
LEMMA NextOfProofs == [G!Next]_G!vars => [GP!Next]_GP!vars
  BY
  DEF G!vars, GP!vars, G!memory, GP!memory, G!world, GP!world, G!fwvars,
      GP!fwvars, G!EmptyList, GP!EmptyList, G!NoRules, GP!NoRules, G!Flush,
      GP!Flush, G!InitWhiteList, GP!InitWhiteList, G!OpWhiteListAdd,
      GP!OpWhiteListAdd, G!OpWhiteListDel, GP!OpWhiteListDel, G!HasRule,
      GP!HasRule, G!UnbanUser, GP!UnbanUser, G!BanUser, GP!BanUser, G!Reaches,
      GP!Reaches, G!Hosts, GP!Hosts, G!Start, GP!Start, G!InitRpcPort,
      GP!InitRpcPort, G!InitAppPort, GP!InitAppPort, G!Run, GP!Run, G!Stop,
      GP!Stop, G!ControllerBlackList_IsIn, GP!ControllerBlackList_IsIn,
      G!Expired, GP!Expired, G!Repeated, GP!Repeated, G!Refused, GP!Refused,
      G!Admit, GP!Admit, G!GateFuncUdpRecv, GP!GateFuncUdpRecv,
      G!BlackListAdd, GP!BlackListAdd, G!BlackListDel, GP!BlackListDel,
      G!GateFuncBlackListOp, GP!GateFuncBlackListOp, G!GateFuncNotice,
      GP!GateFuncNotice, G!IssueTicket, GP!IssueTicket, G!TickController,
      GP!TickController, G!TickGateway, GP!TickGateway, G!Cardinality,
      GP!Cardinality, G!Next, GP!Next

\* The proofs are about the gateway of this system.
LEMMA GatewayOfProofs == G!Spec => GP!Spec
<1>1. G!Init => GP!Init
  BY
  DEF G!Init, GP!Init, G!FWInit, GP!FWInit, G!EmptyList, GP!EmptyList,
      G!NoRules, GP!NoRules
<1>. QED  BY <1>1, NextOfProofs, PTL DEF G!Spec, GP!Spec

\* What the proofs of the controller establish, in the system.
LEMMA ControllerFacts == Spec => []CP!TypeOK /\ []CP!OpenMeansApps
<1>1. CP!Spec => []CP!TypeOK
  BY ControllerConstants, CP!TypeCorrect
<1>2. CP!Spec => []CP!OpenMeansApps
  BY ControllerConstants, CP!NobodyInForNothing
<1>. QED  BY <1>1, <1>2, ImplementsController, ControllerOfProofs, PTL

\* What the proofs of the gateway say of a client that reaches the application:
\* its entry is in the map, it is not banned, and a ticket of its own was used.
OpenByRule ==
    G!Running => \A c \in ClientIPs : Open(c) =>
        /\ g_list[c] = AppPort
        /\ c \notin controller_black_list_
        /\ \E t \in g_md5 : t.ip = c

\* It follows from the gateway's inductive invariant.
LEMMA OpenMeansRule == GP!IInv => OpenByRule
<1>. SUFFICES ASSUME GP!IInv, G!Running, NEW c \in ClientIPs, Open(c)
              PROVE  /\ g_list[c] = AppPort
                     /\ c \notin controller_black_list_
                     /\ \E t \in g_md5 : t.ip = c
  BY DEF OpenByRule
<1>1. c \in GP!Clients /\ AppPort \in g_drop
  BY DEF GP!IInv, GP!AppGuarded, GP!GuardedPhases, GP!Clients, GP!Hosts,
         G!Running
<1>2. g_accept[c][AppPort] = IF g_list[c] = AppPort THEN 1 ELSE 0
  BY <1>1
  DEF GP!IInv, GP!AppGuarded, GP!GuardedPhases, GP!HasRule, G!Running
<1>3. g_list[c] = AppPort
  BY <1>1, <1>2 DEF Open, G!Reaches
<1>. QED
  BY <1>1, <1>3 DEF GP!IInv, GP!Backed, GP!HasRule, GP!Running, G!Running

\* What the proofs of the gateway establish, in the system.
LEMMA GatewayFacts == Spec => []GP!TypeOK /\ []OpenByRule
<1>1. GP!Spec => []GP!IInv
  BY GatewayConstants, GP!Invariance
<1>2. GP!IInv => GP!TypeOK
  BY DEF GP!IInv
<1>. QED
  BY <1>1, <1>2, OpenMeansRule, ImplementsGateway, GatewayOfProofs, PTL

-----------------------------------------------------------------------------
\* A notice closes the port.

\* Once the gateway has answered a notice, in whatever order it comes with
\* knocks and bans, the client it was about does not reach the application.
THEOREM NoticesClose == Spec => NoticeCloses
<1>1. ASSUME GP!TypeOK, OpenByRule', NEW c \in ClientIPs, ServeNotice(c)
      PROVE  ~ Open(c)'
  <2>1. G!GateFuncNotice(c, GatewayIP)
    BY <1>1 DEF ServeNotice
  <2>2. G!Running' /\ G!OpWhiteListDel(c, AppPort)
    BY <2>1 DEF G!GateFuncNotice, G!Running
  <2>3. g_list \in [ClientIPs \cup {ControllerIP, GatewayIP} -> GP!Entries]
    BY <1>1 DEF GP!TypeOK, GP!FWTypeOK
  <2>4. g_list'[c] # AppPort
    BY <2>2, <2>3 DEF G!OpWhiteListDel, G!HasRule, G!fwvars
  <2>. QED  BY <1>1, <2>2, <2>4 DEF OpenByRule
<1>2. GP!TypeOK /\ OpenByRule' =>
         [\A c \in ClientIPs : ServeNotice(c) => ~ Open(c)']_vars
  BY <1>1
<1>. QED  BY <1>2, GatewayFacts, PTL DEF NoticeCloses

-----------------------------------------------------------------------------
\* Who reaches the application has knocked at both programs.

\* The inductive part: used tickets were issued, tickets were issued to whoever
\* the controller has let in, and it has let in whoever reaches it.
Knocked ==
    /\ g_md5 \subseteq issued
    /\ \A t \in issued : t.ip \in admitted
    /\ c_phase # "running" => c_md5 = {}
    /\ C!Running => \A c \in ClientIPs :
          C!Reaches(c, TcpPort) => c \in admitted

\* The controller's part of it, step by step: only a voucher opens its port,
\* and when it begins to serve nobody has been let in yet (OpenMeansApps).
LEMMA StepLetIn ==
    ASSUME CP!TypeOK, CP!OpenMeansApps', Knocked, [Next]_vars
    PROVE  /\ c_phase' # "running" => c_md5' = {}
           /\ C!Running' => \A c \in ClientIPs :
                 C!Reaches(c, TcpPort)' => c \in admitted'
<1>1. ASSUME NEW v \in vouchers, NEW c \in ClientIPs, VoucherArrives(v, c)
      PROVE  /\ c_phase' = "running"
             /\ \A d \in ClientIPs : C!Reaches(d, TcpPort)' => d \in admitted'
  <2>1. C!ConFuncUdpRecv(v, c)
    BY <1>1 DEF VoucherArrives
  <2>2. c_phase = "running" /\ c_phase' = "running"
    BY <2>1 DEF C!ConFuncUdpRecv
  <2>3. admitted \subseteq admitted'
        /\ (C!Reaches(c, TcpPort)' => c \in admitted')
    BY <1>1 DEF VoucherArrives
  <2>4. ASSUME NEW d \in ClientIPs, d # c, C!Reaches(d, TcpPort)'
        PROVE  C!Reaches(d, TcpPort)
    <3>1. c_drop' = c_drop
      BY <2>1 DEF C!ConFuncUdpRecv, C!OpWhiteListAdd, C!OpWhiteListDel, C!fwvars
    <3>2. c_accept'[d][TcpPort] = c_accept[d][TcpPort]
      BY <2>1, <2>4
      DEF C!ConFuncUdpRecv, C!OpWhiteListAdd, C!OpWhiteListDel, C!fwvars,
          C!UnbanUser, C!BanUser, CP!TypeOK, CP!FWTypeOK
    <3>. QED  BY <2>4, <3>1, <3>2 DEF C!Reaches
  <2>. QED  BY <2>2, <2>3, <2>4 DEF Knocked, C!Running
<1>2. CASE C!Run /\ UNCHANGED admitted
  <2>1. c_md5' = {}
    BY <1>2 DEF C!Run, C!memory, Knocked
  <2>2. c_phase' = "running"
    BY <1>2 DEF C!Run
  <2>3. \A c \in ClientIPs : ~ C!Reaches(c, TcpPort)'
    BY <2>1, <2>2
    DEF CP!OpenMeansApps, CP!Running, CP!Clients, CP!Hosts, CP!Reaches,
        C!Reaches
  <2>. QED  BY <2>2, <2>3
<1>3. CASE C!Start \/ C!Stop
  BY <1>3 DEF C!Start, C!Stop, C!memory, C!Running, Knocked
<1>4. CASE UNCHANGED <<c_accept, c_drop, c_phase, c_md5, admitted>>
  BY <1>4 DEF Knocked, C!Reaches, C!Running
<1>5. \/ \E v \in vouchers, c \in ClientIPs : VoucherArrives(v, c)
      \/ C!Run /\ UNCHANGED admitted
      \/ C!Start \/ C!Stop
      \/ UNCHANGED <<c_accept, c_drop, c_phase, c_md5, admitted>>
  <2>1. CASE UNCHANGED <<controller, admitted>>
    BY <2>1 DEF controller
  <2>2. CASE /\ UNCHANGED admitted
             /\ \/ C!ConFuncRegisterApp({AppPort}, GatewayIP)
                \/ \E c \in ClientIPs : ServeAccess(c) \/ Knock(c)
    <3>1. UNCHANGED <<c_accept, c_drop, c_phase, c_md5>>
      BY <2>2 DEF ServeAccess, Knock, C!ConFuncRegisterApp, C!ConFuncGetAccess,
                  C!MakeVoucher, C!fwvars, C!memory
    <3>. QED  BY <2>2, <3>1
  <2>3. \/ \E v \in vouchers, c \in ClientIPs : VoucherArrives(v, c)
        \/ C!Run /\ UNCHANGED admitted
        \/ C!Start \/ C!Stop
        \/ UNCHANGED <<controller, admitted>>
        \/ /\ UNCHANGED admitted
           /\ \/ C!ConFuncRegisterApp({AppPort}, GatewayIP)
              \/ \E c \in ClientIPs : ServeAccess(c) \/ Knock(c)
    BY DEF Next, ControllerNext, ControllerStarts, ControllerRuns,
           ControllerStops, ServeRegister, ServeAccess, ControllerDrops,
           ControllerHangs, ControllerAcceptFails, GatewayNext, GatewayStarts,
           Register, GatewayStops, GatewayAccepts, ServeOrder, DropOrder,
           ServeNotice, DropNotice, TicketArrives, ScannerCalls, ClientNext,
           Knock, Fetch, Connect, GiveUp, AbandonFetch, Abandon,
           RequestArrives, ApplicationNext, AppAccepts, AppAcceptFails,
           HandshakeEnds, OrphanEnds, Judge, vars
  <2>. QED  BY <2>1, <2>2, <2>3
<1>. QED  BY <1>1, <1>2, <1>3, <1>4, <1>5

\* An address is let in by a voucher, and not otherwise.
LEMMA LetInByVoucher ==
    ASSUME [Next]_vars, ~ UNCHANGED admitted
    PROVE  \E v \in vouchers, c \in ClientIPs : VoucherArrives(v, c)
  BY
  DEF Next, ControllerNext, ControllerStarts, ControllerRuns, ControllerStops,
      ServeRegister, ServeAccess, ControllerDrops, ControllerHangs,
      ControllerAcceptFails, GatewayNext, GatewayStarts, Register,
      GatewayStops, GatewayAccepts, ServeOrder, DropOrder, ServeNotice,
      DropNotice, TicketArrives, ScannerCalls, ClientNext, Knock, Fetch,
      Connect, GiveUp, AbandonFetch, Abandon, RequestArrives, ApplicationNext,
      AppAccepts, AppAcceptFails, HandshakeEnds, OrphanEnds, Judge, vars

\* The gateway's part: a ticket is used only when it was issued, and issued
\* only to a client that the controller's chain has let through.
LEMMA StepIssued ==
    ASSUME TicketsOfClients, Knocked, [Next]_vars
    PROVE  /\ g_md5' \subseteq issued'
           /\ \A t \in issued' : t.ip \in admitted'
<1>1. admitted \subseteq admitted'
  BY LetInByVoucher DEF VoucherArrives
<1>2. \/ UNCHANGED <<g_md5, issued>>
      \/ issued' = issued /\ g_md5' = {}
      \/ issued' = issued /\ \E t \in issued : g_md5' = g_md5 \cup {t}
      \/ \E c \in ClientIPs, random \in Randoms : G!IssueTicket(c, random)
  BY StepGateway
  DEF G!Next, G!Start, G!InitRpcPort, G!InitAppPort, G!Run, G!Stop,
      G!GateFuncUdpRecv, G!Admit, G!GateFuncBlackListOp, G!GateFuncNotice,
      G!TickController, G!TickGateway, G!vars, G!memory, G!world
<1>3. CASE UNCHANGED issued
  BY <1>1, <1>2, <1>3 DEF Knocked, G!IssueTicket, G!memory
<1>4. CASE ~ UNCHANGED issued
  <2>1. PICK c \in ClientIPs, random \in Randoms :
           ServeAccess(c) /\ G!IssueTicket(c, random)
    BY <1>4, TicketsByAccess
  <2>2. c \in admitted
    BY <2>1 DEF ServeAccess, C!ConFuncGetAccess, Knocked, C!Running
  <2>. QED  BY <1>1, <2>1, <2>2 DEF G!IssueTicket, G!memory, Knocked
<1>. QED  BY <1>3, <1>4

\* Knocked is an invariant of the system.
LEMMA KnockedInductive == Spec => []Knocked
<1>1. Init => Knocked
  BY DEF Init, C!Init, G!Init, Knocked, C!Running
<1>2. TicketsOfClients /\ CP!TypeOK /\ CP!OpenMeansApps' /\ Knocked
         /\ [Next]_vars => Knocked'
  BY StepLetIn, StepIssued DEF Knocked, C!Running, C!Reaches
<1>. QED
  BY <1>1, <1>2, TicketsInductive, ControllerFacts, PTL DEF Spec

\* Whatever datagrams are lost, delayed or repeated and however often the
\* programs stop, whoever reaches the application of a running gateway was let
\* in by the controller with a voucher and has been issued a ticket.
THEOREM BothKnocksFirst == Spec => []OpenAfterBothKnocks
<1>1. OpenByRule /\ Knocked => OpenAfterBothKnocks
  BY DEF OpenByRule, Knocked, OpenAfterBothKnocks
<1>. QED  BY <1>1, GatewayFacts, KnockedInductive, PTL

-----------------------------------------------------------------------------
\* Bans.

\* In the system, too, a ban has the highest priority: whoever is on the black
\* list of a running gateway does not reach the application, also when the
\* controller that banned it has stopped or the gateway was started again.
THEOREM BansHold == Spec => []G!BlackListFirst
<1>1. OpenByRule => G!BlackListFirst
  BY DEF OpenByRule, G!BlackListFirst, G!Clients, G!Hosts, Open, G!Open
<1>. QED  BY <1>1, GatewayFacts, PTL

-----------------------------------------------------------------------------
\* The system keeps the promise of Perimeter.

\* A step of the gateway is a step at the door, or leaves the door alone.
LEMMA StepDoor ==
    ASSUME GP!IInv, GP!IInv', [Next]_vars, TicketsOfClients
    PROVE  P!Door!Next \/ UNCHANGED P!Door!policyvars
<1>1. [GP!Next]_GP!vars
  BY StepGateway, NextOfProofs
<1>2. [GP!AP!Next]_(GP!AP!policyvars)
  BY <1>1, GatewayConstants, GP!StepRefines
<1>3. GP!Clients = ClientIPs /\ GP!Tickets = G!Tickets
  BY DEF GP!Clients, GP!Hosts, GP!Tickets, G!Tickets
<1>4. /\ {c \in GP!Clients : GP!Open(c)} = {c \in ClientIPs : Open(c)}
      /\ {c \in GP!Clients : GP!Open(c)}' = {c \in ClientIPs : Open(c)}'
  BY <1>3 DEF GP!Open, Open, GP!Reaches, G!Reaches
<1>5. (GP!Running = G!Running) /\ (GP!Running' = G!Running')
  BY DEF GP!Running, G!Running
<1>. USE <1>3, <1>4, <1>5
<1>6. \A t : GP!AP!Admit(t) => P!Door!Admit(t)
  BY DEF GP!AP!Admit, P!Door!Admit
<1>7. \A c : GP!AP!Close(c) => P!Door!Close(c)
  BY DEF GP!AP!Close, P!Door!Close
<1>8. \A c : GP!AP!Ban(c) => P!Door!Ban(c)
  BY DEF GP!AP!Ban, P!Door!Ban
<1>9. \A c : GP!AP!Unban(c) => P!Door!Unban(c)
  BY DEF GP!AP!Unban, P!Door!Unban
<1>10. GP!AP!Stop => P!Door!Stop
  BY DEF GP!AP!Stop, P!Door!Stop
<1>11. GP!AP!Rebuild => P!Door!Rebuild
  BY DEF GP!AP!Rebuild, P!Door!Rebuild
<1>12. GP!AP!Serve => P!Door!Serve
  BY DEF GP!AP!Serve, P!Door!Serve
<1>13. UNCHANGED GP!AP!policyvars => UNCHANGED P!Door!policyvars
  BY DEF GP!AP!policyvars, P!Door!policyvars
<1>. QED
  BY <1>2, <1>6, <1>7, <1>8, <1>9, <1>10, <1>11, <1>12, <1>13
  DEF GP!AP!Next, P!Door!Next

\* Every step of the system is one the promise allows.
LEMMA StepPerimeter ==
    ASSUME TicketsOfClients, GP!IInv, GP!IInv', Knocked, Knocked', [Next]_vars
    PROVE  [P!Next]_(P!perimetervars)
<1>1. CASE ~ UNCHANGED admitted
  <2>1. PICK v \in vouchers, c \in ClientIPs : VoucherArrives(v, c)
    BY <1>1, LetInByVoucher
  <2>2. admitted' = admitted \cup {c} /\ UNCHANGED gateway
    BY <1>1, <2>1 DEF VoucherArrives
  <2>3. P!LetIn(c)
    BY <2>2 DEF P!LetIn, gateway, Open, G!Reaches, G!Running
  <2>. QED  BY <2>3 DEF P!Next
<1>2. CASE ~ UNCHANGED issued
  <2>1. PICK c \in ClientIPs, random \in Randoms :
           ServeAccess(c) /\ G!IssueTicket(c, random)
    BY <1>2, TicketsByAccess
  <2>2. PICK t : t = [ip |-> c, timestamp |-> 0 % 1, random |-> random]
    OBVIOUS
  <2>3. issued' = issued \cup {t}
    BY <2>1, <2>2 DEF G!IssueTicket
  <2>4. t \in G!Tickets
    BY <2>3 DEF GP!IInv, GP!TypeOK, GP!Tickets, G!Tickets
  <2>5. t.ip \in admitted
    BY <2>1, <2>2 DEF ServeAccess, C!ConFuncGetAccess, Knocked, C!Running
  <2>6. UNCHANGED <<admitted, g_accept, g_drop, g_phase,
                    controller_black_list_, g_md5>>
    BY <2>1 DEF ServeAccess, G!IssueTicket, G!fwvars, G!memory
  <2>7. P!HandOut(t)
    BY <2>3, <2>5, <2>6 DEF P!HandOut, Open, G!Reaches, G!Running
  <2>. QED  BY <2>4, <2>7 DEF P!Next
<1>3. CASE UNCHANGED <<admitted, issued>>
  <2>1. CASE P!Door!Next
    <3>1. g_md5' \subseteq issued
      BY <1>3 DEF Knocked
    <3>. QED  BY <1>3, <2>1, <3>1 DEF P!AtTheDoor, P!desk, P!Next
  <2>2. CASE UNCHANGED P!Door!policyvars
    BY <1>3, <2>2 DEF P!Door!policyvars, P!perimetervars
  <2>. QED  BY <2>1, <2>2, StepDoor
<1>. QED  BY <1>1, <1>2, <1>3

\* The system starts with an open port and nobody let in.
LEMMA InitPerimeter == Init => P!Init
  BY DEF Init, G!Init, G!FWInit, P!Init, P!Door!Init, Open, G!Reaches, G!Running

\* The whole system, for any number of clients and however its datagrams are
\* delivered and its programs stop, implements the promise of Perimeter: nobody
\* enters but by a fresh ticket that the controller handed out to an address it
\* had let in, and never against a ban.
THEOREM KeepsThePerimeter == Spec => ImplementsPerimeter
<1>1. GP!Spec => []GP!IInv
  BY GatewayConstants, GP!Invariance
<1>2. TicketsOfClients /\ GP!IInv /\ GP!IInv' /\ Knocked /\ Knocked'
         /\ [Next]_vars => [P!Next]_(P!perimetervars)
  BY StepPerimeter
<1>. QED
  BY <1>1, <1>2, InitPerimeter, ImplementsGateway, GatewayOfProofs,
     TicketsInductive, KnockedInductive, PTL
  DEF Spec, ImplementsPerimeter, P!Spec

-----------------------------------------------------------------------------
\* The backlogs.

Conns(X) == [caller : X, live : BOOLEAN]
Here(x) == [caller |-> x, live |-> TRUE]
Away(x) == [caller |-> x, live |-> FALSE]
Holds(s, x) == \E i \in DOMAIN s : s[i] = Here(x)
Once(s) == \A i, j \in DOMAIN s : s[i].live /\ s[i] = s[j] => i = j

\* A connection is added for somebody who has none.
LEMMA Appended ==
    ASSUME NEW X, NEW s \in Seq(Conns(X)), Once(s), NEW x \in X, ~ Holds(s, x)
    PROVE  /\ Append(s, Here(x)) \in Seq(Conns(X))
           /\ Len(Append(s, Here(x))) = Len(s) + 1
           /\ Once(Append(s, Here(x)))
           /\ \A y : Holds(Append(s, Here(x)), y) <=> Holds(s, y) \/ y = x
<1>1. Here(x) \in Conns(X)
  BY DEF Here, Conns
<1>2. /\ Append(s, Here(x)) \in Seq(Conns(X))
      /\ DOMAIN s = 1..Len(s) /\ Len(s) \in Nat
      /\ Len(Append(s, Here(x))) = Len(s) + 1
      /\ DOMAIN Append(s, Here(x)) = 1..Len(s) + 1
      /\ \A i \in 1..Len(s) : Append(s, Here(x))[i] = s[i]
      /\ Append(s, Here(x))[Len(s) + 1] = Here(x)
  BY <1>1
<1>3. /\ \A i \in 1..Len(s) + 1 : i \in 1..Len(s) \/ i = Len(s) + 1
      /\ Len(s) + 1 \in 1..Len(s) + 1
      /\ \A i \in 1..Len(s) : i \in 1..Len(s) + 1
  BY <1>2
<1>4. \A y : Here(y) = Here(x) <=> y = x
  BY DEF Here
<1>5. \A y : Holds(Append(s, Here(x)), y) <=> Holds(s, y) \/ y = x
  BY <1>2, <1>3, <1>4 DEF Holds
<1>6. Once(Append(s, Here(x)))
  BY <1>2, <1>3 DEF Once, Holds
<1>. QED  BY <1>2, <1>5, <1>6

\* The first connection is taken.
LEMMA Taken ==
    ASSUME NEW X, NEW s \in Seq(Conns(X)), Once(s), s # <<>>
    PROVE  /\ Head(s) \in Conns(X)
           /\ Tail(s) \in Seq(Conns(X))
           /\ Len(Tail(s)) = Len(s) - 1 /\ Len(s) \in Nat \ {0}
           /\ Once(Tail(s))
           /\ \A y : Holds(Tail(s), y) <=> Holds(s, y) /\ Head(s) # Here(y)
           /\ \A y : Head(s) = Here(y) => Holds(s, y)
<1>1. /\ Tail(s) \in Seq(Conns(X))
      /\ DOMAIN s = 1..Len(s) /\ Len(s) \in Nat /\ Len(s) > 0
      /\ Len(Tail(s)) = Len(s) - 1
      /\ DOMAIN Tail(s) = 1..Len(s) - 1
      /\ \A i \in 1..Len(s) - 1 : Tail(s)[i] = s[i + 1]
      /\ Head(s) = s[1] /\ s[1] \in Conns(X)
  OBVIOUS
<1>2. /\ 1 \in 1..Len(s)
      /\ \A i \in 1..Len(s) - 1 : i + 1 \in 1..Len(s) /\ i + 1 # 1
      /\ \A i \in 1..Len(s) :
            i = 1 \/ (i - 1 \in 1..Len(s) - 1 /\ i = (i - 1) + 1)
      /\ \A i, j \in 1..Len(s) - 1 : i + 1 = j + 1 => i = j
  BY <1>1
<1>3. Once(Tail(s))
  BY <1>1, <1>2 DEF Once
<1>4. \A y : Head(s) = Here(y) => Holds(s, y)
  BY <1>1, <1>2 DEF Holds
<1>5. ASSUME NEW y PROVE Holds(Tail(s), y) <=> Holds(s, y) /\ Head(s) # Here(y)
  <2>0. Here(y).live
    BY DEF Here
  <2>1. ASSUME Holds(Tail(s), y) PROVE Holds(s, y) /\ Head(s) # Here(y)
    <3>1. PICK i \in 1..Len(s) - 1 : s[i + 1] = Here(y)
      BY <1>1, <2>1 DEF Holds
    <3>2. i + 1 \in 1..Len(s) /\ i + 1 # 1
      BY <1>2
    <3>. QED  BY <1>1, <1>2, <2>0, <3>1, <3>2 DEF Holds, Once
  <2>2. ASSUME Holds(s, y), Head(s) # Here(y) PROVE Holds(Tail(s), y)
    <3>1. PICK i \in 1..Len(s) : s[i] = Here(y)
      BY <1>1, <2>2 DEF Holds
    <3>2. i - 1 \in 1..Len(s) - 1 /\ s[(i - 1) + 1] = Here(y)
      BY <1>1, <1>2, <2>2, <3>1
    <3>. QED  BY <1>1, <3>2 DEF Holds
  <2>. QED  BY <2>1, <2>2
<1>. QED  BY <1>1, <1>3, <1>4, <1>5

Without(s, xs) ==
    [i \in DOMAIN s |-> IF s[i].caller \in xs THEN Away(s[i].caller) ELSE s[i]]

\* Some callers leave.
LEMMA Emptied ==
    ASSUME NEW X, NEW s \in Seq(Conns(X)), Once(s), NEW xs
    PROVE  /\ Without(s, xs) \in Seq(Conns(X))
           /\ Len(Without(s, xs)) = Len(s)
           /\ Once(Without(s, xs))
           /\ \A y : Holds(Without(s, xs), y) <=> Holds(s, y) /\ y \notin xs
<1>. DEFINE t == Without(s, xs)
<1>1. /\ DOMAIN s = 1..Len(s) /\ Len(s) \in Nat
      /\ \A i \in 1..Len(s) : s[i] \in Conns(X)
  OBVIOUS
<1>2. t = [i \in 1..Len(s) |->
              IF s[i].caller \in xs THEN Away(s[i].caller) ELSE s[i]]
  BY <1>1 DEF Without
<1>. HIDE DEF t
<1>3. \A i \in 1..Len(s) : /\ s[i].caller \in X
                           /\ Away(s[i].caller) \in Conns(X)
                           /\ ~ Away(s[i].caller).live
  BY <1>1 DEF Conns, Away
<1>4. DOMAIN t = 1..Len(s) /\ \A i \in 1..Len(s) : t[i] \in Conns(X)
  BY <1>1, <1>2, <1>3
<1>5. t \in Seq(Conns(X)) /\ Len(t) = Len(s)
  BY <1>1, <1>2, <1>4
<1>6. \A i \in 1..Len(s) :
         t[i] = IF s[i].caller \in xs THEN Away(s[i].caller) ELSE s[i]
  BY <1>2
<1>7. Once(t)
  BY <1>1, <1>3, <1>4, <1>6 DEF Once
<1>8. \A y : Here(y).caller = y /\ Here(y).live
  BY DEF Here
<1>9. \A y : Holds(t, y) <=> Holds(s, y) /\ y \notin xs
  BY <1>1, <1>3, <1>4, <1>6, <1>8 DEF Holds
<1>. QED  BY <1>5, <1>7, <1>9 DEF t

\* A backlog as the lemmas above see it: its connections s and its events n.
Fit(X, s, n) ==
    s \in Seq(Conns(X)) /\ n \in 0..2 /\ n <= Len(s) /\ Once(s)

Joins(s, n, t, m, x) ==
    t = Append(s, Here(x)) /\ ((n < 2 /\ m = n + 1) \/ (n > 0 /\ m = n))

Leaves(s, n, t, m, e) ==
    n > 0 /\ s # <<>> /\ e = Head(s) /\ t = Tail(s) /\ m = n - 1

Effects(X, s, n, t, m) ==
    /\ \A x \in X : Joins(s, n, t, m, x) /\ ~ Holds(s, x) =>
          /\ Fit(X, t, m)
          /\ \A y : Holds(t, y) <=> Holds(s, y) \/ y = x
    /\ \A e : Leaves(s, n, t, m, e) =>
          /\ Fit(X, t, m) /\ e \in Conns(X)
          /\ \A y : Holds(t, y) <=> Holds(s, y) /\ e # Here(y)
          /\ \A y : e = Here(y) => Holds(s, y)
    /\ \A xs : t = Without(s, xs) /\ m = n =>
          /\ Fit(X, t, m)
          /\ \A y : Holds(t, y) <=> Holds(s, y) /\ y \notin xs
    /\ n > 0 /\ m = n - 1 /\ t = s => Fit(X, t, m)
    /\ t = <<>> /\ m = 0 => Fit(X, t, m) /\ \A y : ~ Holds(t, y)

\* What the steps of a backlog do to it.
LEMMA BacklogSteps ==
    ASSUME NEW X, NEW s, NEW n, NEW t, NEW m, Fit(X, s, n)
    PROVE  Effects(X, s, n, t, m)
<1>. USE DEF Fit
<1>0. Len(s) \in Nat
  OBVIOUS
<1>1. ASSUME NEW x \in X, Joins(s, n, t, m, x), ~ Holds(s, x)
      PROVE  Fit(X, t, m) /\ \A y : Holds(t, y) <=> Holds(s, y) \/ y = x
  BY <1>0, <1>1, Appended DEF Joins
<1>2. ASSUME NEW e, Leaves(s, n, t, m, e)
      PROVE  /\ Fit(X, t, m) /\ e \in Conns(X)
             /\ \A y : Holds(t, y) <=> Holds(s, y) /\ e # Here(y)
             /\ \A y : e = Here(y) => Holds(s, y)
  BY <1>0, <1>2, Taken DEF Leaves
<1>3. ASSUME NEW xs, t = Without(s, xs), m = n
      PROVE  Fit(X, t, m) /\ \A y : Holds(t, y) <=> Holds(s, y) /\ y \notin xs
  BY <1>0, <1>3, Emptied
<1>4. ASSUME n > 0, m = n - 1, t = s PROVE Fit(X, t, m)
  BY <1>0, <1>4
<1>5. ASSUME t = <<>>, m = 0 PROVE Fit(X, t, m) /\ \A y : ~ Holds(t, y)
  BY <1>5 DEF Once, Holds
<1>. QED  BY <1>1, <1>2, <1>3, <1>4, <1>5 DEF Effects

\* The backlog of the controller.
ControllersFits == Fit(ClientIPs \cup {GatewayIP}, c_waiting, c_events)

\* It is in order, and holds the calls that are queued.
LEMMA ControllersView ==
    /\ ControllersFits <=> CB!TypeOK /\ CB!Sound
    /\ \A y : CB!Queued(y) <=> Holds(c_waiting, y)
<1>1. \A y : CB!Queued(y) <=> Holds(c_waiting, y)
  BY DEF CB!Queued, CB!Live, CB!Range, Holds, Here
<1>2. CB!Connections = Conns(ClientIPs \cup {GatewayIP})
  BY DEF CB!Connections, Conns
<1>3. ControllersFits <=> CB!TypeOK /\ CB!Sound
  BY <1>2 DEF ControllersFits, Fit, Once, CB!TypeOK, CB!Sound
<1>. QED  BY <1>1, <1>3

\* What its steps do.
LEMMA ControllersBacklog ==
    ASSUME ControllersFits
    PROVE  /\ \A x \in ClientIPs \cup {GatewayIP} : CB!Connect(x) /\ ~ Holds(c_waiting, x) =>
                 /\ ControllersFits'
                 /\ \A y : Holds(c_waiting, y)' <=> Holds(c_waiting, y) \/ y = x
           /\ \A e : CB!Accept(e) =>
                 /\ ControllersFits' /\ e \in Conns(ClientIPs \cup {GatewayIP})
                 /\ \A y : Holds(c_waiting, y)' <=> Holds(c_waiting, y) /\ e # Here(y)
                 /\ \A y : e = Here(y) => Holds(c_waiting, y)
           /\ \A xs : CB!Leave(xs) =>
                 /\ ControllersFits'
                 /\ \A y : Holds(c_waiting, y)' <=> Holds(c_waiting, y) /\ y \notin xs
           /\ CB!AcceptFails => ControllersFits' /\ UNCHANGED c_waiting
           /\ CB!Clear => ControllersFits' /\ \A y : ~ Holds(c_waiting, y)'
<1>1. \A y : CB!Live(y) = Here(y) /\ CB!Gone(y) = Away(y)
  BY DEF CB!Live, CB!Gone, Here, Away
<1>2. /\ \A x : CB!Connect(x) => Joins(c_waiting, c_events, c_waiting', c_events', x)
      /\ \A e : CB!Accept(e) => Leaves(c_waiting, c_events, c_waiting', c_events', e)
      /\ \A xs : CB!Leave(xs) => c_waiting' = Without(c_waiting, xs) /\ c_events' = c_events
      /\ CB!AcceptFails => c_events > 0 /\ c_events' = c_events - 1 /\ c_waiting' = c_waiting
      /\ CB!Clear => c_waiting' = <<>> /\ c_events' = 0
  BY <1>1
  DEF CB!Connect, CB!Accept, CB!Leave, CB!AcceptFails, CB!Clear, Joins,
      Leaves, Without
<1>3. Effects(ClientIPs \cup {GatewayIP}, c_waiting, c_events, c_waiting', c_events')
  BY BacklogSteps DEF ControllersFits
<1>. QED  BY <1>2, <1>3 DEF Effects, ControllersFits

\* The backlog of the gateway.
GatewaysFits == Fit(Orders \cup {"notice"}, g_waiting, g_events)

\* It is in order, and holds the calls that are queued.
LEMMA GatewaysView ==
    /\ GatewaysFits <=> GB!TypeOK /\ GB!Sound
    /\ \A y : GB!Queued(y) <=> Holds(g_waiting, y)
<1>1. \A y : GB!Queued(y) <=> Holds(g_waiting, y)
  BY DEF GB!Queued, GB!Live, GB!Range, Holds, Here
<1>2. GB!Connections = Conns(Orders \cup {"notice"})
  BY DEF GB!Connections, Conns
<1>3. GatewaysFits <=> GB!TypeOK /\ GB!Sound
  BY <1>2 DEF GatewaysFits, Fit, Once, GB!TypeOK, GB!Sound
<1>. QED  BY <1>1, <1>3

\* What its steps do.
LEMMA GatewaysBacklog ==
    ASSUME GatewaysFits
    PROVE  /\ \A x \in Orders \cup {"notice"} : GB!Connect(x) /\ ~ Holds(g_waiting, x) =>
                 /\ GatewaysFits'
                 /\ \A y : Holds(g_waiting, y)' <=> Holds(g_waiting, y) \/ y = x
           /\ \A e : GB!Accept(e) =>
                 /\ GatewaysFits' /\ e \in Conns(Orders \cup {"notice"})
                 /\ \A y : Holds(g_waiting, y)' <=> Holds(g_waiting, y) /\ e # Here(y)
                 /\ \A y : e = Here(y) => Holds(g_waiting, y)
           /\ \A xs : GB!Leave(xs) =>
                 /\ GatewaysFits'
                 /\ \A y : Holds(g_waiting, y)' <=> Holds(g_waiting, y) /\ y \notin xs
           /\ GB!AcceptFails => GatewaysFits' /\ UNCHANGED g_waiting
           /\ GB!Clear => GatewaysFits' /\ \A y : ~ Holds(g_waiting, y)'
<1>1. \A y : GB!Live(y) = Here(y) /\ GB!Gone(y) = Away(y)
  BY DEF GB!Live, GB!Gone, Here, Away
<1>2. /\ \A x : GB!Connect(x) => Joins(g_waiting, g_events, g_waiting', g_events', x)
      /\ \A e : GB!Accept(e) => Leaves(g_waiting, g_events, g_waiting', g_events', e)
      /\ \A xs : GB!Leave(xs) => g_waiting' = Without(g_waiting, xs) /\ g_events' = g_events
      /\ GB!AcceptFails => g_events > 0 /\ g_events' = g_events - 1 /\ g_waiting' = g_waiting
      /\ GB!Clear => g_waiting' = <<>> /\ g_events' = 0
  BY <1>1
  DEF GB!Connect, GB!Accept, GB!Leave, GB!AcceptFails, GB!Clear, Joins,
      Leaves, Without
<1>3. Effects(Orders \cup {"notice"}, g_waiting, g_events, g_waiting', g_events')
  BY BacklogSteps DEF GatewaysFits
<1>. QED  BY <1>2, <1>3 DEF Effects, GatewaysFits

\* The backlog of the application.
AppsFits == Fit(ClientIPs, a_waiting, a_events)

\* It is in order, and holds the calls that are queued.
LEMMA AppsView ==
    /\ AppsFits <=> AB!TypeOK /\ AB!Sound
    /\ \A y : AB!Queued(y) <=> Holds(a_waiting, y)
<1>1. \A y : AB!Queued(y) <=> Holds(a_waiting, y)
  BY DEF AB!Queued, AB!Live, AB!Range, Holds, Here
<1>2. AB!Connections = Conns(ClientIPs)
  BY DEF AB!Connections, Conns
<1>3. AppsFits <=> AB!TypeOK /\ AB!Sound
  BY <1>2 DEF AppsFits, Fit, Once, AB!TypeOK, AB!Sound
<1>. QED  BY <1>1, <1>3

\* What its steps do.
LEMMA AppsBacklog ==
    ASSUME AppsFits
    PROVE  /\ \A x \in ClientIPs : AB!Connect(x) /\ ~ Holds(a_waiting, x) =>
                 /\ AppsFits'
                 /\ \A y : Holds(a_waiting, y)' <=> Holds(a_waiting, y) \/ y = x
           /\ \A e : AB!Accept(e) =>
                 /\ AppsFits' /\ e \in Conns(ClientIPs)
                 /\ \A y : Holds(a_waiting, y)' <=> Holds(a_waiting, y) /\ e # Here(y)
                 /\ \A y : e = Here(y) => Holds(a_waiting, y)
           /\ \A xs : AB!Leave(xs) =>
                 /\ AppsFits'
                 /\ \A y : Holds(a_waiting, y)' <=> Holds(a_waiting, y) /\ y \notin xs
           /\ AB!AcceptFails => AppsFits' /\ UNCHANGED a_waiting
           /\ AB!Clear => AppsFits' /\ \A y : ~ Holds(a_waiting, y)'
<1>1. \A y : AB!Live(y) = Here(y) /\ AB!Gone(y) = Away(y)
  BY DEF AB!Live, AB!Gone, Here, Away
<1>2. /\ \A x : AB!Connect(x) => Joins(a_waiting, a_events, a_waiting', a_events', x)
      /\ \A e : AB!Accept(e) => Leaves(a_waiting, a_events, a_waiting', a_events', e)
      /\ \A xs : AB!Leave(xs) => a_waiting' = Without(a_waiting, xs) /\ a_events' = a_events
      /\ AB!AcceptFails => a_events > 0 /\ a_events' = a_events - 1 /\ a_waiting' = a_waiting
      /\ AB!Clear => a_waiting' = <<>> /\ a_events' = 0
  BY <1>1
  DEF AB!Connect, AB!Accept, AB!Leave, AB!AcceptFails, AB!Clear, Joins,
      Leaves, Without
<1>3. Effects(ClientIPs, a_waiting, a_events, a_waiting', a_events')
  BY BacklogSteps DEF AppsFits
<1>. QED  BY <1>2, <1>3 DEF Effects, AppsFits

-----------------------------------------------------------------------------
\* The backlogs, the loops and the callers agree.

LoopType ==
    /\ app \in {"loop", "handshake", "orphan", "notice"}
    /\ app_peer \in ClientIPs \cup {NoClient}
    /\ app = "loop" <=> app_peer = NoClient
    /\ c_hung \in BOOLEAN
    /\ client \in [ClientIPs -> Places]

\* The thread ends with its process.
ScannerType ==
    /\ scanner \in {"off", "beforeAdd", "adding", "beforeDel", "deleting"}
    /\ overdue \in BOOLEAN
    /\ c_phase = "down" <=> scanner = "off"

\* Who waits for the controller.
Asked ==
    /\ ControllersFits
    /\ Holds(c_waiting, GatewayIP) => g_phase = "guarded"
    /\ \A c \in ClientIPs :
          /\ Holds(c_waiting, c) => client[c] = "fetching"
          /\ client[c] = "fetching" => Holds(c_waiting, c) \/ c_hung

Pending(x) == Holds(g_waiting, x) \/ Here(x) \in g_accepted

\* Who waits for the gateway.
Ordered ==
    /\ GatewaysFits
    /\ g_accepted \in SUBSET Conns(Orders \cup {"notice"})
    /\ \A x \in Orders \cup {"notice"} :
          ~ (Holds(g_waiting, x) /\ Here(x) \in g_accepted)
    /\ scanner = "adding" <=> Pending("ADD")
    /\ scanner = "deleting" <=> Pending("DEL")
    /\ app = "notice" <=> Pending("notice")

\* Who waits for the application.
Served ==
    /\ AppsFits
    /\ \A c \in ClientIPs :
          /\ client[c] = "connecting" <=> Holds(a_waiting, c)
          /\ client[c] = "handshaking" <=> (app = "handshake" /\ app_peer = c)
          /\ app = "notice" /\ app_peer = c => client[c] = "waiting"

QInv == LoopType /\ ScannerType /\ Asked /\ Ordered /\ Served

\* The steps in which a notice returns, if there is one.
NoticeMayReturn == GatewayStops \/ DropNotice \/ \E c \in ClientIPs : ServeNotice(c)

\* When it does, the application is waiting for it.
LEMMA NoticeEnds ==
    ASSUME QInv, NoticeMayReturn
    PROVE  \/ UNCHANGED <<app, app_peer, client>>
           \/ /\ app = "notice" /\ app_peer \in ClientIPs
              /\ app' = "loop" /\ app_peer' = NoClient
              /\ client' = [client EXCEPT ![app_peer] = "idle"]
<1>1. Here("notice") \in g_accepted => app = "notice"
  BY DEF QInv, Ordered, Pending
<1>2. app = "notice" => app_peer \in ClientIPs
  BY DEF QInv, LoopType
<1>3. GB!Live("notice") = Here("notice")
  BY DEF GB!Live, Here
<1>. QED
  BY <1>1, <1>2, <1>3
  DEF NoticeMayReturn, GatewayStops, DropNotice, ServeNotice, NoticeReturns,
      AppGoes, Move

\* The steps in which the scanner and its process move.
LEMMA StepScanner == QInv /\ [Next]_vars => ScannerType'
<1>. SUFFICES ASSUME QInv, [Next]_vars PROVE ScannerType'
  OBVIOUS
<1>. USE DEF QInv, ScannerType
<1>1. CASE ControllerStarts \/ ControllerRuns \/ ControllerStops
  BY <1>1 DEF ControllerStarts, ControllerRuns, ControllerStops, C!Start, C!Run,
              C!Stop, thread
<1>2. CASE c_phase' = c_phase /\ UNCHANGED thread
  BY <1>2 DEF thread
<1>3. CASE GatewayStops
  BY <1>3 DEF GatewayStops, OrderReturns, controller
<1>4. CASE ScannerCalls
  BY <1>4 DEF ScannerCalls, OrderReturns, controller
<1>5. ASSUME NEW e \in g_accepted, ServeOrder(e) \/ DropOrder(e)
      PROVE  ScannerType'
  <2>1. e.live => scanner # "off"
    <3>1. e \in Conns(Orders \cup {"notice"}) /\ e.caller \in Orders
      BY <1>5 DEF Ordered, ServeOrder, DropOrder, Orders
    <3>2. e.live => e = Here("ADD") \/ e = Here("DEL")
      BY <3>1 DEF Conns, Here, Orders
    <3>. QED  BY <3>2 DEF Ordered, Pending
  <2>2. /\ c_phase' = c_phase
        /\ \/ scanner' = scanner
           \/ e.live /\ scanner' \in {"beforeAdd", "beforeDel"}
    BY <1>5 DEF ServeOrder, DropOrder, OrderReturns, controller
  <2>3. overdue' \in BOOLEAN
    BY <1>5 DEF ServeOrder, DropOrder
  <2>. QED  BY <2>1, <2>2, <2>3
<1>6. \/ ControllerStarts \/ ControllerRuns \/ ControllerStops
      \/ c_phase' = c_phase /\ UNCHANGED thread
      \/ GatewayStops \/ ScannerCalls
      \/ \E e \in g_accepted : ServeOrder(e) \/ DropOrder(e)
  BY DEF Next, ControllerNext, ServeRegister, ServeAccess, ControllerDrops,
         ControllerHangs, ControllerAcceptFails, VoucherArrives, GatewayNext,
         GatewayStarts, Register, GatewayAccepts, ServeNotice, DropNotice,
         TicketArrives, ClientNext, Knock, Fetch, Connect, GiveUp,
         AbandonFetch, Abandon, RequestArrives, ApplicationNext, AppAccepts,
         AppAcceptFails, HandshakeEnds, OrphanEnds, Judge, vars, controller,
         C!ConFuncRegisterApp, C!ConFuncGetAccess, C!ConFuncUdpRecv,
         C!MakeVoucher
<1>. QED  BY <1>1, <1>2, <1>3, <1>4, <1>5, <1>6

\* What leaves the controller's callers where they are.
AskedSame ==
    /\ UNCHANGED c_calls
    /\ g_phase = "guarded" => g_phase' = "guarded"
    /\ \A c \in ClientIPs :
          client'[c] = "fetching" <=> client[c] = "fetching"

\* Most steps do.
LEMMA AskedFrame ==
    ASSUME QInv, [Next]_vars
    PROVE  \/ AskedSame
           \/ ControllerStops \/ Register \/ GatewayStops \/ ServeRegister
           \/ ControllerAcceptFails
           \/ \E e \in Range(c_waiting) : ControllerDrops(e)
           \/ \E c \in ClientIPs :
                 ServeAccess(c) \/ ControllerHangs(c) \/ Fetch(c) \/ AbandonFetch(c)
<1>. USE DEF AskedSame
<1>1. CASE UNCHANGED <<c_calls, g_phase, client>>
  BY <1>1
<1>2. CASE GatewayStarts
  BY <1>2 DEF GatewayStarts, G!Start, G!InitRpcPort, G!InitAppPort
<1>3. ASSUME UNCHANGED <<c_calls, g_phase>>,
             NEW c \in ClientIPs, NEW to \in Places, Move(c, to),
             client[c] # "fetching", to # "fetching"
      PROVE  AskedSame
  BY <1>3 DEF Move, QInv, LoopType
<1>4. CASE DropNotice \/ \E c \in ClientIPs : ServeNotice(c)
  <2>1. UNCHANGED c_calls /\ g_phase' = g_phase
    BY <1>4 DEF DropNotice, ServeNotice, G!GateFuncNotice, gateway
  <2>2. app = "notice" /\ app_peer \in ClientIPs => client[app_peer] = "waiting"
    BY DEF QInv, Served
  <2>3. \A c \in ClientIPs :
           client'[c] = "fetching" <=> client[c] = "fetching"
    BY <1>4, <2>2, NoticeEnds DEF NoticeMayReturn, QInv, LoopType
  <2>. QED  BY <2>1, <2>3
<1>5. ASSUME NEW c \in ClientIPs,
             \/ Knock(c) \/ Connect(c) \/ GiveUp(c) \/ Abandon(c)
             \/ RequestArrives(c) \/ HandshakeEnds(c) \/ Judge(c)
      PROVE  AskedSame
  <2>1. UNCHANGED <<c_calls, g_phase>>
    BY <1>5 DEF Knock, Connect, GiveUp, Abandon, RequestArrives, HandshakeEnds,
                Judge, gateway
  <2>2. \/ client' = client
        \/ \E to \in Places : /\ to # "fetching" /\ client[c] # "fetching"
                              /\ Move(c, to)
    <3>1. app = "handshake" /\ app_peer = c => client[c] = "handshaking"
      BY DEF QInv, Served
    <3>. QED
      BY <1>5, <3>1 DEF Knock, Connect, GiveUp, Abandon, RequestArrives,
                        HandshakeEnds, Judge, Places
  <2>. QED  BY <1>3, <2>1, <2>2
<1>6. ASSUME NEW e \in Range(a_waiting), AppAccepts(e)
      PROVE  AskedSame
  <2>1. UNCHANGED <<c_calls, g_phase>>
    BY <1>6 DEF AppAccepts, gateway
  <2>2. CASE e.live
    <3>1. /\ e \in Conns(ClientIPs)
          /\ \A y : e = Here(y) => Holds(a_waiting, y)
      BY <1>6, AppsBacklog DEF AppAccepts, QInv, Served
    <3>2. e.caller \in ClientIPs /\ e = Here(e.caller)
      BY <2>2, <3>1 DEF Conns, Here
    <3>3. client[e.caller] = "connecting" /\ Move(e.caller, "handshaking")
      BY <1>6, <2>2, <3>1, <3>2 DEF QInv, Served, AppAccepts
    <3>. QED  BY <1>3, <2>1, <3>2, <3>3 DEF Places
  <2>3. CASE ~ e.live
    BY <1>6, <2>1, <2>3 DEF AppAccepts
  <2>. QED  BY <2>2, <2>3
<1>7. ASSUME NEW v \in vouchers, NEW c \in ClientIPs, VoucherArrives(v, c)
      PROVE  UNCHANGED <<c_calls, g_phase, client>>
  BY <1>7 DEF VoucherArrives, gateway
<1>8. ASSUME NEW e \in g_accepted, ServeOrder(e) \/ DropOrder(e)
      PROVE  UNCHANGED <<c_calls, g_phase, client>>
  BY <1>8 DEF ServeOrder, DropOrder, G!GateFuncBlackListOp, gateway
<1>9. ASSUME NEW t \in issued, TicketArrives(t)
      PROVE  UNCHANGED <<c_calls, g_phase, client>>
  BY <1>9 DEF TicketArrives, G!GateFuncUdpRecv, G!Admit, G!vars
<1>10. CASE UNCHANGED vars
  BY <1>10 DEF vars, gateway
<1>11. CASE \/ ControllerStarts \/ ControllerRuns \/ ScannerCalls
            \/ AppAcceptFails
            \/ \E e \in Range(g_waiting) : GatewayAccepts(e)
            \/ \E c \in ClientIPs : OrphanEnds(c)
  BY <1>11 DEF ControllerStarts, ControllerRuns, ScannerCalls, AppAcceptFails,
               GatewayAccepts, OrphanEnds, gateway
<1>. QED
  BY Zenon, <1>1, <1>2, <1>4, <1>5, <1>6, <1>7, <1>8, <1>9, <1>10, <1>11
  DEF Next, ControllerNext, GatewayNext, ClientNext, ApplicationNext

\* Every step keeps the controller's callers and its backlog in agreement.
LEMMA StepAsked == QInv /\ [Next]_vars => Asked'
<1>. SUFFICES ASSUME QInv, [Next]_vars PROVE Asked'
  OBVIOUS
<1>. USE DEF QInv, LoopType, Asked
<1>0. /\ \A x : CB!Live(x) = Here(x)
      /\ \A x, y : Here(x) = Here(y) => x = y
      /\ \A x : Here(x).caller = x /\ Here(x).live
  BY DEF CB!Live, Here
<1>1. CASE AskedSame
  BY <1>1 DEF AskedSame, c_calls, c_backlog, ControllersFits
<1>2. CASE ControllerStops
  BY <1>2, ControllersBacklog DEF ControllerStops
<1>3. CASE Register
  <2>1. ~ Holds(c_waiting, GatewayIP)
    BY <1>3, ControllersView DEF Register
  <2>2. CASE CB!Connect(GatewayIP) /\ UNCHANGED gateway
    BY <1>3, <2>1, <2>2, ControllersBacklog DEF Register, gateway
  <2>3. CASE UNCHANGED c_backlog
    BY <1>3, <2>1, <2>3 DEF Register, c_backlog, ControllersFits
  <2>. QED  BY <1>3, <2>2, <2>3 DEF Register
<1>4. CASE GatewayStops
  <2>1. \A c \in ClientIPs :
           client'[c] = "fetching" <=> client[c] = "fetching"
    <3>1. app = "notice" /\ app_peer \in ClientIPs => client[app_peer] = "waiting"
      BY DEF Served
    <3>. QED  BY <1>4, <3>1, NoticeEnds DEF NoticeMayReturn
  <2>. QED  BY <1>4, <2>1, ControllersBacklog DEF GatewayStops
<1>5. CASE ServeRegister
  BY <1>0, <1>5, ControllersBacklog DEF ServeRegister
<1>6. CASE ControllerAcceptFails
  BY <1>6, ControllersBacklog DEF ControllerAcceptFails, gateway
<1>7. ASSUME NEW e \in Range(c_waiting), ControllerDrops(e)
      PROVE  Asked'
  <2>1. /\ ControllersFits'
        /\ \A y : Holds(c_waiting, y)' <=> Holds(c_waiting, y) /\ e # Here(y)
    BY <1>7, ControllersBacklog DEF ControllerDrops
  <2>2. e # Here(GatewayIP) => g_phase' = g_phase
    BY <1>0, <1>7 DEF ControllerDrops, gateway
  <2>3. \A c \in ClientIPs :
           client'[c] = IF e = Here(c) THEN "idle" ELSE client[c]
    BY <1>0, <1>7 DEF ControllerDrops
  <2>4. c_hung' = c_hung
    BY <1>7 DEF ControllerDrops
  <2>. QED  BY <2>1, <2>2, <2>3, <2>4
<1>8. ASSUME NEW c \in ClientIPs, ServeAccess(c)
      PROVE  Asked'
  <2>1. /\ ControllersFits'
        /\ \A y : Holds(c_waiting, y)' <=> Holds(c_waiting, y) /\ y # c
    BY <1>0, <1>8, ControllersBacklog DEF ServeAccess
  <2>2. g_phase' = g_phase /\ c_hung' = c_hung
    BY <1>8 DEF ServeAccess, gateway, G!IssueTicket
  <2>3. PICK to \in {"idle", "entitled"} : Move(c, to)
    BY <1>8 DEF ServeAccess
  <2>4. \A d \in ClientIPs : client'[d] = IF d = c THEN to ELSE client[d]
    BY <2>3 DEF Move
  <2>. QED  BY <2>1, <2>2, <2>4
<1>9. ASSUME NEW c \in ClientIPs, ControllerHangs(c)
      PROVE  Asked'
  <2>1. PICK e : CB!Accept(e) /\ e.caller = c
    BY <1>9 DEF ControllerHangs
  <2>2. /\ ControllersFits'
        /\ \A y : Holds(c_waiting, y)' <=> Holds(c_waiting, y) /\ e # Here(y)
    BY <2>1, ControllersBacklog
  <2>3. g_phase' = g_phase /\ client' = client /\ c_hung'
    BY <1>9 DEF ControllerHangs, gateway
  <2>. QED  BY <2>2, <2>3
<1>10. ASSUME NEW c \in ClientIPs, Fetch(c)
       PROVE  Asked'
  <2>1. client[c] = "asking" /\ ~ Holds(c_waiting, c)
    BY <1>10 DEF Fetch
  <2>2. /\ ControllersFits'
        /\ \A y : Holds(c_waiting, y)' <=> Holds(c_waiting, y) \/ y = c
    BY <1>10, <2>1, ControllersBacklog DEF Fetch
  <2>3. \A d \in ClientIPs : client'[d] = IF d = c THEN "fetching" ELSE client[d]
    BY <1>10 DEF Fetch, Move
  <2>4. g_phase' = g_phase /\ c_hung' = c_hung /\ GatewayIP # c
    BY <1>10 DEF Fetch, gateway
  <2>. QED  BY <2>2, <2>3, <2>4
<1>11. ASSUME NEW c \in ClientIPs, AbandonFetch(c)
       PROVE  Asked'
  <2>1. /\ ControllersFits'
        /\ \A y : Holds(c_waiting, y)' <=> Holds(c_waiting, y) /\ y # c
    BY <1>11, ControllersBacklog DEF AbandonFetch
  <2>2. \A d \in ClientIPs : client'[d] = IF d = c THEN "idle" ELSE client[d]
    BY <1>11 DEF AbandonFetch, Move
  <2>3. g_phase' = g_phase /\ c_hung' = c_hung
    BY <1>11 DEF AbandonFetch, gateway
  <2>. QED  BY <2>1, <2>2, <2>3
<1>. QED
  BY <1>1, <1>2, <1>3, <1>4, <1>5, <1>6, <1>7, <1>8, <1>9, <1>10, <1>11,
     AskedFrame

\* What leaves the gateway's callers where they are.
OrderedSame ==
    /\ UNCHANGED <<g_waiting, g_events, g_accepted, scanner>>
    /\ app' = "notice" <=> app = "notice"

\* Most steps do.
LEMMA OrderedFrame ==
    ASSUME QInv, [Next]_vars
    PROVE  \/ OrderedSame
           \/ ControllerStarts \/ ControllerStops \/ ScannerCalls
           \/ NoticeMayReturn
           \/ \E e \in Range(g_waiting) : GatewayAccepts(e)
           \/ \E e \in g_accepted : ServeOrder(e) \/ DropOrder(e)
           \/ \E c \in ClientIPs : Judge(c)
<1>1. ASSUME NEW c \in ClientIPs, Abandon(c)
      PROVE  OrderedSame
  <2>1. client[c] = "handshaking" => app = "handshake"
    BY DEF QInv, Served
  <2>. QED
    BY <1>1, <2>1 DEF Abandon, OrderedSame, g_calls, g_backlog, thread
<1>. QED
  BY <1>1
  DEF OrderedSame, NoticeMayReturn, Next, ControllerNext, ControllerRuns,
      ServeRegister, ServeAccess, ControllerDrops, ControllerHangs,
      ControllerAcceptFails, VoucherArrives, GatewayNext, GatewayStarts,
      Register, TicketArrives, ClientNext, Knock, Fetch, Connect, GiveUp,
      AbandonFetch, RequestArrives, ApplicationNext, AppAccepts, AppAcceptFails,
      HandshakeEnds, OrphanEnds, AppGoes, vars, g_calls, g_backlog, thread,
      application

\* Every step keeps the gateway's callers and its calls in agreement.
LEMMA StepOrdered == QInv /\ [Next]_vars => Ordered'
<1>. SUFFICES ASSUME QInv, [Next]_vars PROVE Ordered'
  OBVIOUS
<1>. USE DEF QInv, Ordered, Pending
<1>0. /\ \A x : GB!Live(x) = Here(x) /\ GB!Gone(x) = Away(x)
      /\ \A x, y : Here(x) = Here(y) => x = y
      /\ \A x, y : Here(x) # Away(y)
      /\ \A x : Here(x).caller = x /\ Here(x).live
      /\ \A x : Away(x).caller = x /\ ~ Away(x).live
      /\ \A x \in Orders \cup {"notice"} :
            Here(x) \in Conns(Orders \cup {"notice"})
            /\ Away(x) \in Conns(Orders \cup {"notice"})
      /\ \A e \in Conns(Orders \cup {"notice"}) :
            /\ e.caller \in Orders \cup {"notice"}
            /\ e.live => e = Here(e.caller)
      /\ Orders = {"ADD", "DEL"}
  BY DEF GB!Live, GB!Gone, Here, Away, Conns, Orders
<1>1. CASE OrderedSame
  BY <1>1 DEF OrderedSame, GatewaysFits
<1>2. CASE ControllerStarts
  <2>1. scanner = "off" /\ scanner' = "beforeAdd"
    BY <1>2 DEF ControllerStarts, C!Start, ScannerType
  <2>2. UNCHANGED <<g_waiting, g_events, g_accepted, app>>
    BY <1>2 DEF ControllerStarts, g_calls, g_backlog, application
  <2>. QED  BY <2>1, <2>2 DEF GatewaysFits
<1>3. CASE ControllerStops
  <2>1. /\ GatewaysFits'
        /\ \A y : Holds(g_waiting, y)' <=> Holds(g_waiting, y) /\ y \notin Orders
    BY <1>3, GatewaysBacklog DEF ControllerStops
  <2>2. g_accepted' = {IF k.caller \in Orders THEN Away(k.caller) ELSE k :
                          k \in g_accepted}
    BY <1>0, <1>3 DEF ControllerStops
  <2>3. g_accepted' \in SUBSET Conns(Orders \cup {"notice"})
    BY <1>0, <2>2
  <2>4. \A x : Here(x) \in g_accepted' <=> Here(x) \in g_accepted /\ x \notin Orders
    BY <1>0, <2>2
  <2>5. scanner' = "off" /\ app' = app
    BY <1>3 DEF ControllerStops, application
  <2>. QED  BY <1>0, <2>1, <2>3, <2>4, <2>5
<1>4. CASE ScannerCalls
  <2>1. UNCHANGED <<g_accepted, app>>
    BY <1>4 DEF ScannerCalls, application
  <2>2. ASSUME NEW x \in Orders, GB!Connect(x), ~ Pending(x)
        PROVE  /\ GatewaysFits'
               /\ \A y : Holds(g_waiting, y)' <=> Holds(g_waiting, y) \/ y = x
    BY <2>2, GatewaysBacklog
  <2>3. CASE scanner = "beforeAdd" /\ GB!Connect("ADD") /\ scanner' = "adding"
    BY <1>0, <2>1, <2>2, <2>3
  <2>4. CASE scanner = "beforeDel" /\ GB!Connect("DEL") /\ scanner' = "deleting"
    BY <1>0, <2>1, <2>2, <2>4
  <2>5. CASE /\ UNCHANGED g_backlog
             /\ scanner \in {"beforeAdd", "beforeDel"}
             /\ scanner' \in {"beforeAdd", "beforeDel"}
    BY <2>1, <2>5 DEF g_backlog, GatewaysFits
  <2>. QED  BY <1>4, <2>3, <2>4, <2>5 DEF ScannerCalls, OrderReturns
<1>5. CASE GatewayStops
  <2>1. GatewaysFits' /\ (\A y : ~ Holds(g_waiting, y)') /\ g_accepted' = {}
    BY <1>5, GatewaysBacklog DEF GatewayStops
  <2>2. scanner' \notin {"adding", "deleting"}
    BY <1>5 DEF GatewayStops, OrderReturns
  <2>3. app' # "notice"
    BY <1>5 DEF GatewayStops, NoticeReturns, AppGoes
  <2>. QED  BY <2>1, <2>2, <2>3
<1>6. CASE DropNotice \/ \E c \in ClientIPs : ServeNotice(c)
  <2>1. /\ Here("notice") \in g_accepted
        /\ g_accepted' = g_accepted \ {Here("notice")}
        /\ UNCHANGED <<g_waiting, g_events, scanner>> /\ app' = "loop"
    BY <1>0, <1>6 DEF DropNotice, ServeNotice, NoticeReturns, AppGoes, g_backlog,
                      thread
  <2>. QED  BY <1>0, <2>1 DEF GatewaysFits
<1>7. ASSUME NEW e \in Range(g_waiting), GatewayAccepts(e)
      PROVE  Ordered'
  <2>1. /\ GatewaysFits' /\ e \in Conns(Orders \cup {"notice"})
        /\ \A y : Holds(g_waiting, y)' <=> Holds(g_waiting, y) /\ e # Here(y)
        /\ \A y : e = Here(y) => Holds(g_waiting, y)
    BY <1>7, GatewaysBacklog DEF GatewayAccepts
  <2>2. g_accepted' = IF e.live THEN g_accepted \cup {e} ELSE g_accepted
    BY <1>7 DEF GatewayAccepts
  <2>3. UNCHANGED <<scanner, app>>
    BY <1>7 DEF GatewayAccepts, thread, application
  <2>4. \A y : Here(y) \in g_accepted' <=> Here(y) \in g_accepted \/ e = Here(y)
    BY <1>0, <2>2
  <2>5. g_accepted' \in SUBSET Conns(Orders \cup {"notice"})
    BY <2>1, <2>2
  <2>. QED  BY <2>1, <2>3, <2>4, <2>5
<1>8. ASSUME NEW e \in g_accepted, ServeOrder(e) \/ DropOrder(e)
      PROVE  Ordered'
  <2>1. e.caller \in Orders /\ g_accepted' = g_accepted \ {e}
        /\ UNCHANGED <<g_waiting, g_events, app>>
    BY <1>0, <1>8 DEF ServeOrder, DropOrder, g_backlog, application
  <2>2. IF e.live
        THEN scanner' = IF e.caller = "ADD" THEN "beforeDel" ELSE "beforeAdd"
        ELSE scanner' = scanner
    BY <1>8 DEF ServeOrder, DropOrder, OrderReturns
  <2>3. CASE e.live
    <3>1. e = Here(e.caller)
      BY <1>0, <2>3
    <3>. QED  BY <1>0, <2>1, <2>2, <2>3, <3>1 DEF GatewaysFits
  <2>4. CASE ~ e.live
    <3>1. \A y : e # Here(y)
      BY <1>0, <2>4
    <3>. QED  BY <2>1, <2>2, <2>4, <3>1 DEF GatewaysFits
  <2>. QED  BY <2>3, <2>4
<1>9. ASSUME NEW c \in ClientIPs, Judge(c)
      PROVE  Ordered'
  <2>1. app = "loop" /\ UNCHANGED <<g_accepted, scanner>>
    BY <1>9 DEF Judge, thread
  <2>2. CASE UNCHANGED <<app, g_backlog>>
    BY <2>1, <2>2 DEF g_backlog, GatewaysFits
  <2>3. CASE GB!Connect("notice") /\ app' = "notice"
    <3>1. /\ GatewaysFits'
          /\ \A y : Holds(g_waiting, y)' <=> Holds(g_waiting, y) \/ y = "notice"
      BY <2>1, <2>3, GatewaysBacklog
    <3>. QED  BY <1>0, <2>1, <2>3, <3>1
  <2>. QED  BY <1>9, <2>2, <2>3 DEF Judge, AppGoes
<1>. QED
  BY <1>1, <1>2, <1>3, <1>4, <1>5, <1>6, <1>7, <1>8, <1>9, OrderedFrame
  DEF NoticeMayReturn

\* What leaves the application's callers where they are.
ServedSame ==
    /\ UNCHANGED application
    /\ client' \in [ClientIPs -> Places]
    /\ \A c \in ClientIPs :
          \/ client'[c] = client[c]
          \/ {client[c], client'[c]} \subseteq {"idle", "asking", "fetching", "entitled"}

\* The steps of a client on its way to the application and back.
LEMMA ServedFrame ==
    ASSUME QInv, [Next]_vars
    PROVE  \/ ServedSame
           \/ NoticeMayReturn \/ AppAcceptFails
           \/ \E e \in Range(a_waiting) : AppAccepts(e)
           \/ \E c \in ClientIPs :
                 \/ Connect(c) \/ Abandon(c) \/ RequestArrives(c)
                 \/ HandshakeEnds(c) \/ OrphanEnds(c) \/ Judge(c)
<1>. USE DEF ServedSame
<1>0. client \in [ClientIPs -> Places]
  BY DEF QInv, LoopType
<1>1. CASE UNCHANGED <<application, client>>
  BY <1>0, <1>1
<1>2. ASSUME NEW c \in ClientIPs, UNCHANGED application,
             client[c] \in {"idle", "asking", "fetching", "entitled"},
             NEW to \in {"idle", "asking", "fetching", "entitled"}, Move(c, to)
      PROVE  ServedSame
  BY <1>0, <1>2 DEF Move, Places
<1>3. ASSUME NEW c \in ClientIPs, Knock(c) \/ Fetch(c) \/ GiveUp(c) \/ AbandonFetch(c)
      PROVE  ServedSame
  BY <1>2, <1>3 DEF Knock, Fetch, GiveUp, AbandonFetch
<1>4. ASSUME NEW c \in ClientIPs, ServeAccess(c)
      PROVE  ServedSame
  <2>1. client[c] = "fetching"
    <3>1. CB!Accept(Here(c))
      BY <1>4 DEF ServeAccess, CB!Live, Here
    <3>2. Holds(c_waiting, c)
      BY <3>1, ControllersBacklog DEF QInv, Asked
    <3>. QED  BY <3>2 DEF QInv, Asked
  <2>. QED  BY <1>2, <1>4, <2>1 DEF ServeAccess
<1>5. ASSUME NEW e \in Range(c_waiting), ControllerDrops(e)
      PROVE  ServedSame
  <2>1. \A c \in ClientIPs : e = Here(c) => client[c] = "fetching"
    BY <1>5, ControllersBacklog DEF ControllerDrops, QInv, Asked
  <2>2. client' = [c \in ClientIPs |-> IF e = Here(c) THEN "idle" ELSE client[c]]
    BY <1>5 DEF ControllerDrops, CB!Live, Here
  <2>3. UNCHANGED application
    BY <1>5 DEF ControllerDrops
  <2>. QED  BY <1>0, <2>1, <2>2, <2>3 DEF Places
<1>6. CASE ControllerStops
  BY <1>0, <1>6 DEF ControllerStops, Places
<1>. QED
  BY <1>1, <1>3, <1>4, <1>5, <1>6
  DEF NoticeMayReturn, Next, ControllerNext, ControllerStarts, ControllerRuns,
      ServeRegister, ControllerHangs, ControllerAcceptFails, VoucherArrives,
      GatewayNext, GatewayStarts, Register, GatewayAccepts, ServeOrder,
      DropOrder, TicketArrives, ScannerCalls, ClientNext, ApplicationNext, vars

\* Every step keeps the application's callers, its backlog and its loop in
\* agreement.
LEMMA StepServed == QInv /\ [Next]_vars => LoopType' /\ Served'
<1>. SUFFICES ASSUME QInv, [Next]_vars PROVE LoopType' /\ Served'
  OBVIOUS
<1>. USE DEF QInv, LoopType, Served
<1>0. /\ \A x : AB!Live(x) = Here(x)
      /\ \A x, y : Here(x) = Here(y) => x = y
      /\ \A e \in Conns(ClientIPs) :
            e.caller \in ClientIPs /\ (e.live => e = Here(e.caller))
      /\ \A x : Here(x).caller = x /\ Here(x).live
  BY DEF AB!Live, Here, Conns
<1>h. c_hung' \in BOOLEAN
  BY DEF Next, ControllerNext, ControllerStarts, ControllerRuns,
         ControllerStops, ServeRegister, ServeAccess, ControllerDrops,
         ControllerHangs, ControllerAcceptFails, VoucherArrives, GatewayNext,
         GatewayStarts, Register, GatewayStops, GatewayAccepts, ServeOrder,
         DropOrder, ServeNotice, DropNotice, TicketArrives, ScannerCalls,
         ClientNext, Knock, Fetch, Connect, GiveUp, AbandonFetch, Abandon,
         RequestArrives, ApplicationNext, AppAccepts, AppAcceptFails,
         HandshakeEnds, OrphanEnds, Judge, vars, c_calls
<1>1. CASE ServedSame
  BY <1>h, <1>1 DEF ServedSame, application, a_backlog, AppsFits
<1>2. CASE NoticeMayReturn
  <2>1. UNCHANGED <<a_waiting, a_events>>
    BY <1>2 DEF NoticeMayReturn, GatewayStops, DropNotice, ServeNotice, a_backlog
  <2>2. CASE UNCHANGED <<app, app_peer, client>>
    BY <1>h, <2>1, <2>2 DEF AppsFits
  <2>3. CASE /\ app = "notice" /\ app_peer \in ClientIPs
             /\ app' = "loop" /\ app_peer' = NoClient
             /\ client' = [client EXCEPT ![app_peer] = "idle"]
    <3>1. client[app_peer] = "waiting"
      BY <2>3
    <3>2. \A c \in ClientIPs :
             client'[c] = IF c = app_peer THEN "idle" ELSE client[c]
      BY <2>3
    <3>3. Served'
      BY <2>1, <2>3, <3>1, <3>2 DEF AppsFits
    <3>. QED  BY <1>h, <2>3, <3>3 DEF Places
  <2>. QED  BY <1>2, <2>2, <2>3, NoticeEnds
<1>3. CASE AppAcceptFails
  <2>1. AppsFits' /\ UNCHANGED a_waiting
    BY <1>3, AppsBacklog DEF AppAcceptFails
  <2>. QED  BY <1>h, <1>3, <2>1 DEF AppAcceptFails
<1>4. ASSUME NEW e \in Range(a_waiting), AppAccepts(e)
      PROVE  LoopType' /\ Served'
  <2>1. /\ AppsFits' /\ e \in Conns(ClientIPs)
        /\ \A y : Holds(a_waiting, y)' <=> Holds(a_waiting, y) /\ e # Here(y)
        /\ \A y : e = Here(y) => Holds(a_waiting, y)
    BY <1>4, AppsBacklog DEF AppAccepts
  <2>2. PICK c \in ClientIPs : c = e.caller
    BY <1>0, <2>1
  <2>3. CASE e.live
    <3>1. /\ e = Here(c) /\ client[c] = "connecting" /\ app = "loop"
          /\ app' = "handshake" /\ app_peer' = c
          /\ client' = [client EXCEPT ![c] = "handshaking"]
      BY <1>0, <1>4, <2>1, <2>2, <2>3 DEF AppAccepts, AppGoes, Move
    <3>2. \A d \in ClientIPs :
             client'[d] = IF d = c THEN "handshaking" ELSE client[d]
      BY <3>1
    <3>3. Served'
      BY <1>0, <2>1, <3>1, <3>2
    <3>. QED  BY <1>h, <3>1, <3>3 DEF Places
  <2>4. CASE ~ e.live
    <3>1. app' = "orphan" /\ app_peer' = c /\ client' = client /\ app = "loop"
      BY <1>4, <2>2, <2>4 DEF AppAccepts, AppGoes
    <3>2. \A y : e # Here(y)
      BY <1>0, <2>4
    <3>3. Served'
      BY <2>1, <3>1, <3>2
    <3>. QED  BY <1>h, <3>1, <3>3
  <2>. QED  BY <2>3, <2>4
<1>5. ASSUME NEW c \in ClientIPs, Connect(c)
      PROVE  LoopType' /\ Served'
  <2>1. client[c] = "entitled" /\ ~ Holds(a_waiting, c)
    BY <1>5 DEF Connect
  <2>2. /\ AppsFits'
        /\ \A y : Holds(a_waiting, y)' <=> Holds(a_waiting, y) \/ y = c
    BY <1>5, <2>1, AppsBacklog DEF Connect
  <2>3. /\ client' = [client EXCEPT ![c] = "connecting"]
        /\ UNCHANGED <<app, app_peer>>
    BY <1>5 DEF Connect, Move
  <2>4. \A d \in ClientIPs :
           client'[d] = IF d = c THEN "connecting" ELSE client[d]
    BY <2>3
  <2>5. Served'
    BY <2>1, <2>2, <2>3, <2>4
  <2>. QED  BY <1>h, <2>3, <2>5 DEF Places
<1>6. ASSUME NEW c \in ClientIPs, Abandon(c)
      PROVE  LoopType' /\ Served'
  <2>1. /\ client[c] \in {"connecting", "handshaking", "talking"}
        /\ client' = [client EXCEPT ![c] = "idle"]
        /\ app' = IF client[c] = "handshaking" THEN "orphan" ELSE app
        /\ UNCHANGED app_peer
    BY <1>6 DEF Abandon, Move
  <2>2. /\ AppsFits'
        /\ \A y : Holds(a_waiting, y)' <=> Holds(a_waiting, y) /\ y # c
    BY <1>6, AppsBacklog DEF Abandon
  <2>3. \A d \in ClientIPs : client'[d] = IF d = c THEN "idle" ELSE client[d]
    BY <2>1
  <2>4. Served'
    BY <2>1, <2>2, <2>3
  <2>5. client[c] = "handshaking" => app = "handshake" /\ app_peer = c
    OBVIOUS
  <2>. QED  BY <1>h, <2>1, <2>4, <2>5 DEF Places
<1>7. ASSUME NEW c \in ClientIPs, RequestArrives(c)
      PROVE  LoopType' /\ Served'
  <2>1. /\ client[c] = "talking" /\ client' = [client EXCEPT ![c] = "waiting"]
        /\ UNCHANGED <<app, app_peer, a_waiting, a_events>>
    BY <1>7 DEF RequestArrives, Move, application, a_backlog
  <2>2. \A d \in ClientIPs : client'[d] = IF d = c THEN "waiting" ELSE client[d]
    BY <2>1
  <2>3. Served'
    BY <2>1, <2>2 DEF AppsFits
  <2>. QED  BY <1>h, <2>1, <2>3 DEF Places
<1>8. ASSUME NEW c \in ClientIPs, HandshakeEnds(c)
      PROVE  LoopType' /\ Served'
  <2>1. PICK to \in {"talking", "idle"} : client' = [client EXCEPT ![c] = to]
    BY <1>8 DEF HandshakeEnds, Move
  <2>2. /\ app = "handshake" /\ app_peer = c /\ app' = "loop" /\ app_peer' = NoClient
        /\ UNCHANGED <<a_waiting, a_events>>
    BY <1>8 DEF HandshakeEnds, AppGoes, a_backlog
  <2>3. \A d \in ClientIPs : client'[d] = IF d = c THEN to ELSE client[d]
    BY <2>1
  <2>4. client[c] = "handshaking"
    BY <2>2
  <2>5. Served'
    BY <2>2, <2>3, <2>4 DEF AppsFits
  <2>. QED  BY <1>h, <2>1, <2>2, <2>5 DEF Places
<1>9. ASSUME NEW c \in ClientIPs, OrphanEnds(c)
      PROVE  LoopType' /\ Served'
  <2>1. /\ app = "orphan" /\ app' = "loop" /\ app_peer' = NoClient
        /\ UNCHANGED <<a_waiting, a_events, client>>
    BY <1>9 DEF OrphanEnds, AppGoes, a_backlog
  <2>. QED  BY <1>h, <2>1 DEF AppsFits
<1>10. ASSUME NEW c \in ClientIPs, Judge(c)
       PROVE  LoopType' /\ Served'
  <2>1. /\ app = "loop" /\ client[c] = "waiting"
        /\ UNCHANGED <<a_waiting, a_events>>
    BY <1>10 DEF Judge, a_backlog
  <2>2. CASE Move(c, "idle") /\ UNCHANGED <<app, app_peer>>
    <3>1. \A d \in ClientIPs : client'[d] = IF d = c THEN "idle" ELSE client[d]
      BY <2>2 DEF Move
    <3>2. Served'
      BY <2>1, <2>2, <3>1 DEF AppsFits
    <3>. QED  BY <1>h, <2>2, <3>2 DEF Places, Move
  <2>3. CASE AppGoes("notice", c) /\ UNCHANGED client
    <3>1. Served'
      BY <2>1, <2>3 DEF AppGoes, AppsFits
    <3>. QED  BY <1>h, <2>3, <3>1 DEF AppGoes
  <2>. QED  BY <1>10, <2>2, <2>3 DEF Judge
<1>. QED
  BY <1>1, <1>2, <1>3, <1>4, <1>5, <1>6, <1>7, <1>8, <1>9, <1>10, ServedFrame

\* Nobody waits for anybody at first.
LEMMA InitCallers == Init => QInv
<1>. SUFFICES ASSUME Init PROVE QInv
  OBVIOUS
<1>1. \A x : ~ Holds(<<>>, x)
  BY DEF Holds
<1>2. \A X : Fit(X, <<>>, 0)
  BY DEF Fit, Once
<1>3. ControllersFits /\ GatewaysFits /\ AppsFits
  BY <1>2 DEF Init, ControllersFits, GatewaysFits, AppsFits
<1>4. c_phase = "down"
  BY DEF Init, C!Init
<1>. QED
  BY <1>1, <1>3, <1>4
  DEF Init, QInv, LoopType, ScannerType, Asked, Ordered, Served, Pending, Places

\* The backlogs, the loops and the callers agree in every reachable state.
LEMMA CallersInductive == Spec => []QInv
<1>1. QInv /\ [Next]_vars => QInv'
  BY StepScanner, StepAsked, StepOrdered, StepServed DEF QInv
<1>. QED  BY <1>1, InitCallers, PTL DEF Spec

\* However connections share their events, fail, break and are cut off, and
\* whichever program stops, nobody is forgotten and nobody is served in the
\* place of another: who waits for a call has one connection for it.
THEOREM NobodyIsForgotten == Spec => []NobodyForgotten
<1>1. ASSUME QInv PROVE NobodyForgotten
  <2>1. \A x : (CB!Queued(x) <=> Holds(c_waiting, x))
               /\ (GB!Queued(x) <=> Holds(g_waiting, x))
               /\ (AB!Queued(x) <=> Holds(a_waiting, x))
               /\ GB!Live(x) = Here(x)
    BY ControllersView, GatewaysView, AppsView DEF GB!Live, Here
  <2>2. CB!Sound /\ GB!Sound /\ AB!Sound
    BY <1>1, ControllersView, GatewaysView, AppsView
    DEF QInv, Asked, Ordered, Served
  <2>. QED
    BY <1>1, <2>1, <2>2
    DEF QInv, Asked, Ordered, Served, Pending, NobodyForgotten, PendingAtGateway
<1>. QED  BY <1>1, CallersInductive, PTL

\* Every reachable state of the system is well typed.
THEOREM TypeCorrect == Spec => []TypeOK
<1>1. CP!TypeOK => C!TypeOK
  BY
  DEF CP!TypeOK, C!TypeOK, CP!FWTypeOK, C!FWTypeOK, CP!Entries, C!Entries,
      CP!Accounts, C!Accounts, CP!Destinations, C!Destinations, CP!Vouchers,
      C!Vouchers, CP!Tickets, C!Tickets
<1>2. GP!TypeOK => G!TypeOK
  BY
  DEF GP!TypeOK, G!TypeOK, GP!FWTypeOK, G!FWTypeOK, GP!Entries, G!Entries,
      GP!Phases, G!Phases, GP!Tickets, G!Tickets
<1>3. QInv => CB!TypeOK /\ GB!TypeOK /\ AB!TypeOK
                 /\ g_accepted \in SUBSET GB!Connections
  BY ControllersView, GatewaysView, AppsView
  DEF QInv, Asked, Ordered, Served, GB!Connections, Conns
<1>4. Init => admitted \in SUBSET ClientIPs
  BY DEF Init
<1>5. admitted \in SUBSET ClientIPs /\ [Next]_vars =>
         (admitted \in SUBSET ClientIPs)'
  BY LetInByVoucher DEF VoucherArrives
<1>6. Spec => []CP!TypeOK /\ []GP!TypeOK
  BY ControllerFacts, GatewayFacts, PTL
<1>7. C!TypeOK /\ G!TypeOK /\ QInv /\ admitted \in SUBSET ClientIPs => TypeOK
  BY Zenon, <1>3 DEF QInv, LoopType, ScannerType, TypeOK
<1>. QED  BY <1>1, <1>2, <1>4, <1>5, <1>6, <1>7, CallersInductive, PTL
  DEF Spec

-----------------------------------------------------------------------------
\* The programs hear one another.

\* Whatever knocks, bans and notices come and however often the two servers are
\* restarted, each of them, while it serves, lets in the programs that call it,
\* so that a call is never kept waiting by the firewall.
THEOREM CallsAreHeard == Spec => []CallsHeard
<1>1. CP!Spec => []CP!GatewayAlwaysHeard
  BY ControllerConstants, CP!GatewayIsHeard
<1>2. GP!Spec => []GP!RpcPortOnlyHosts
  BY GatewayConstants, GP!HostsAlwaysHeard
<1>3. CP!GatewayAlwaysHeard /\ GP!RpcPortOnlyHosts => CallsHeard
  BY
  DEF CP!GatewayAlwaysHeard, GP!RpcPortOnlyHosts, CallsHeard, CP!Running,
      C!Running, GP!Running, G!Running, CP!Reaches, C!Reaches, GP!Reaches,
      G!Reaches, GP!Hosts
<1>. QED
  BY <1>1, <1>2, <1>3, ImplementsController, ControllerOfProofs,
     ImplementsGateway, GatewayOfProofs, PTL

-----------------------------------------------------------------------------
\* Bans come from the scanner.

\* Until a controller stops, the gateway has no order whose sender is gone.
BanInv ==
    /\ BansAreScanners
    /\ c_stops \in Nat
    /\ ~ G!Running => controller_black_list_ = {}
    /\ c_stops = 0 => \A e \in g_accepted : e.live

bans == <<c_stops, scanner, overdue, controller_black_list_, g_phase>>
BansSame ==
    /\ UNCHANGED bans
    /\ \A e \in g_accepted' : e \in g_accepted \/ e.live

\* Most steps leave bans, orders and the scanner alone.
LEMMA BansFrame ==
    ASSUME [Next]_vars
    PROVE  \/ BansSame
           \/ ControllerStarts \/ ControllerStops \/ ScannerCalls
           \/ GatewayStarts \/ GatewayStops
           \/ /\ G!Run
              /\ UNCHANGED <<c_stops, scanner, overdue, controller_black_list_,
                             g_accepted>>
           \/ \E e \in g_accepted : ServeOrder(e) \/ DropOrder(e)
<1>. USE DEF BansSame, bans
<1>1. ASSUME UNCHANGED <<c_stops, thread, gateway, g_accepted>>
      PROVE  BansSame
  BY <1>1 DEF thread, gateway
<1>2. ASSUME Register \/ ServeRegister \/ \E e \in Range(c_waiting) : ControllerDrops(e)
      PROVE  \/ BansSame
             \/ /\ G!Run
                /\ UNCHANGED <<c_stops, scanner, overdue,
                               controller_black_list_, g_accepted>>
  <2>1. /\ UNCHANGED <<c_stops, thread, g_accepted>>
        /\ UNCHANGED gateway \/ G!Run
    BY <1>2 DEF Register, ServeRegister, ControllerDrops, RegistrationReturns,
                controller, C!ConFuncRegisterApp, g_calls
  <2>2. CASE UNCHANGED gateway
    BY <1>1, <2>1, <2>2
  <2>3. CASE G!Run
    <3>1. UNCHANGED <<scanner, overdue, controller_black_list_>>
      BY <2>1, <2>3 DEF thread, G!Run, G!memory
    <3>. QED  BY <2>1, <2>3, <3>1
  <2>. QED  BY <2>1, <2>2, <2>3
<1>3. ASSUME NEW e \in Range(g_waiting), GatewayAccepts(e)
      PROVE  BansSame
  BY <1>3 DEF GatewayAccepts, controller, thread, gateway
<1>4. ASSUME NEW c \in ClientIPs, ServeNotice(c)
      PROVE  BansSame
  BY <1>4 DEF ServeNotice, G!GateFuncNotice, G!memory, controller, thread
<1>5. CASE DropNotice
  BY <1>5 DEF DropNotice, controller, gateway, thread
<1>6. ASSUME NEW t \in issued, TicketArrives(t)
      PROVE  BansSame
  BY <1>6 DEF TicketArrives, G!GateFuncUdpRecv, G!Admit, G!vars, G!memory,
              controller, thread, g_calls
<1>7. ASSUME NEW c \in ClientIPs, ServeAccess(c)
      PROVE  BansSame
  BY <1>7 DEF ServeAccess, C!ConFuncGetAccess, G!IssueTicket, G!memory, gateway,
              thread, g_calls
<1>8. ASSUME NEW v \in vouchers, NEW c \in ClientIPs, VoucherArrives(v, c)
      PROVE  BansSame
  BY <1>8 DEF VoucherArrives, C!ConFuncUdpRecv, gateway, thread, g_calls
<1>9. ASSUME NEW c \in ClientIPs, Knock(c)
      PROVE  BansSame
  BY <1>9 DEF Knock, C!MakeVoucher, gateway, thread, g_calls
<1>10. CASE ControllerRuns
  BY <1>10 DEF ControllerRuns, C!Run, gateway, thread, g_calls
<1>11. \/ UNCHANGED <<c_stops, thread, gateway, g_accepted>>
       \/ ControllerStarts \/ ControllerRuns \/ ControllerStops \/ ScannerCalls
       \/ GatewayStarts \/ GatewayStops \/ Register \/ ServeRegister \/ DropNotice
       \/ \E e \in Range(c_waiting) : ControllerDrops(e)
       \/ \E e \in Range(g_waiting) : GatewayAccepts(e)
       \/ \E e \in g_accepted : ServeOrder(e) \/ DropOrder(e)
       \/ \E t \in issued : TicketArrives(t)
       \/ \E c \in ClientIPs : ServeNotice(c) \/ ServeAccess(c) \/ Knock(c)
       \/ \E v \in vouchers, c \in ClientIPs : VoucherArrives(v, c)
  BY DEF Next, ControllerNext, ControllerHangs, ControllerAcceptFails,
         GatewayNext, ClientNext, Fetch, Connect, GiveUp, AbandonFetch, Abandon,
         RequestArrives, ApplicationNext, AppAccepts, AppAcceptFails,
         HandshakeEnds, OrphanEnds, Judge, vars, controller, g_calls
<1>. QED
  BY Zenon, <1>1, <1>2, <1>3, <1>4, <1>5, <1>6, <1>7, <1>8, <1>9, <1>10, <1>11

\* Every step keeps the bans, the orders and the scanner in agreement.
LEMMA StepBans == BanInv /\ QInv /\ [Next]_vars => BanInv'
<1>. SUFFICES ASSUME BanInv, QInv, [Next]_vars PROVE BanInv'
  OBVIOUS
<1>. USE DEF BanInv, BansAreScanners, G!Running
<1>1. CASE BansSame
  BY <1>1 DEF BansSame, bans
<1>2. CASE ControllerStarts
  <2>1. scanner = "off"
    BY <1>2 DEF ControllerStarts, C!Start, QInv, ScannerType
  <2>2. UNCHANGED <<c_stops, overdue, controller_black_list_, g_phase, g_accepted>>
    BY <1>2 DEF ControllerStarts, C!Start, gateway, g_calls
  <2>. QED  BY <2>1, <2>2
<1>3. CASE ControllerStops
  <2>1. c_stops' = c_stops + 1 /\ controller_black_list_' \subseteq {Suspect}
    BY <1>3 DEF ControllerStops, C!Stop, RegistrationReturns, G!Run, G!memory,
                gateway
  <2>2. ~ G!Running' => controller_black_list_' = {}
    BY <1>3 DEF ControllerStops, RegistrationReturns, G!Run, G!memory, gateway
  <2>. QED  BY <2>1, <2>2
<1>4. CASE ScannerCalls
  BY <1>4 DEF ScannerCalls, OrderReturns, controller, gateway
<1>5. CASE GatewayStarts
  <2>1. UNCHANGED <<c_stops, scanner, overdue, g_accepted, controller_black_list_>>
    BY <1>5 DEF GatewayStarts, controller, thread, g_calls, G!Start,
                G!InitRpcPort, G!InitAppPort, G!memory
  <2>2. ~ G!Running
    BY <1>5 DEF GatewayStarts, G!Start, G!InitRpcPort, G!InitAppPort
  <2>. QED  BY <2>1, <2>2
<1>6. CASE GatewayStops
  <2>1. /\ controller_black_list_' = {} /\ g_accepted' = {}
        /\ c_stops' = c_stops
    BY <1>6 DEF GatewayStops, G!Stop, controller
  <2>. QED  BY <2>1
<1>7. CASE /\ G!Run
           /\ UNCHANGED <<c_stops, scanner, overdue, controller_black_list_,
                          g_accepted>>
  BY <1>7 DEF G!Run
<1>8. ASSUME NEW e \in g_accepted, ServeOrder(e)
      PROVE  BanInv'
  <2>1. /\ g_accepted' = g_accepted \ {e} /\ c_stops' = c_stops
        /\ g_phase = "running" /\ g_phase' = "running"
        /\ e.live => scanner' = IF e.caller = "ADD" THEN "beforeDel" ELSE "beforeAdd"
    BY <1>8 DEF ServeOrder, G!GateFuncBlackListOp, OrderReturns, controller
  <2>2. CASE e.caller = "ADD" /\ G!BlackListAdd(Suspect) /\ UNCHANGED overdue
    BY <2>1, <2>2 DEF G!BlackListAdd
  <2>3. CASE G!BlackListDel(Suspect)
    BY <2>1, <2>3 DEF G!BlackListDel
  <2>. QED  BY <1>8, <2>2, <2>3 DEF ServeOrder
<1>9. ASSUME NEW e \in g_accepted, DropOrder(e)
      PROVE  BanInv'
  <2>1. /\ g_accepted' = g_accepted \ {e} /\ e.caller \in Orders
        /\ UNCHANGED <<c_stops, g_phase, controller_black_list_>>
        /\ overdue' = (overdue \/ (e.caller = "DEL" /\ controller_black_list_ # {}))
    BY <1>9 DEF DropOrder, controller, gateway
  <2>2. IF e.live
        THEN scanner' = IF e.caller = "ADD" THEN "beforeDel" ELSE "beforeAdd"
        ELSE scanner' = scanner
    BY <1>9 DEF DropOrder, OrderReturns
  <2>. QED  BY <2>1, <2>2 DEF Orders
<1>. QED
  BY <1>1, <1>2, <1>3, <1>4, <1>5, <1>6, <1>7, <1>8, <1>9, BansFrame

\* However orders meet the start, the stop, the backlog and the handlers of the
\* gateway, and whether they fail or break, only the suspect is banned, and a
\* ban that the scanner is not about to lift is one that an order to lift has
\* failed to, unless a controller has stopped.
THEOREM OnlyTheScannerBans == Spec => []BansAreScanners
<1>1. Init => BanInv
  BY DEF Init, C!Init, G!Init, BanInv, BansAreScanners
<1>2. BanInv => BansAreScanners
  BY DEF BanInv
<1>. QED  BY <1>1, <1>2, StepBans, CallersInductive, PTL DEF Spec

-----------------------------------------------------------------------------
\* All of it together.

\* In every reachable state, for any number of clients, tickets and stops, the
\* firewalls, the calls and the bans are as the programs take them to be.
THEOREM SystemIsSafe == Spec => []SystemInvariant
<1>1. TypeOK /\ OpenAfterBothKnocks /\ CallsHeard /\ NobodyForgotten
         /\ BansAreScanners => SystemInvariant
  BY DEF SystemInvariant
<1>. QED
  BY <1>1, TypeCorrect, BothKnocksFirst, CallsAreHeard, NobodyIsForgotten,
     OnlyTheScannerBans, PTL

\* The programs, run together, implement the specifications of the two servers
\* and the promise of the whole system.
THEOREM SystemImplements == Spec => Implements
  BY SystemImplementsComponents, KeepsThePerimeter DEF Implements
=============================================================================
