------------------------------- MODULE Gateway -------------------------------
(***************************************************************************)
(* The application gateway (modules/gateway): it starts, guards its RPC     *)
(* port and the application's port with its white list, and then handles,  *)
(* one at a time, UDP knocks with tickets, the controller's black list      *)
(* orders and the application's notices.  The process may stop at any       *)
(* point; the kernel keeps the rules, the process loses its maps.           *)
(***************************************************************************)
EXTENDS Firewall, FiniteSets

CONSTANTS
    RpcPort, AppPort,           \* TCP_PORT_APPGATEWAY, TCP_PORT_APPLICATION
    ControllerIP, ApplicationIP,
    Knockers,                   \* addresses at which client programs run
    Randoms,                    \* values of SPATicket.random
    ValidSeconds,               \* lifetime the controller writes in a ticket
    Word,                       \* 2^32: timestamp and valid_seconds are uint32
    MaxSkew,                    \* bound: distance of the two clocks
    MaxTime,                    \* bound: the clocks
    MaxTickets,                 \* bound: tickets the controller issues
    MaxRestarts                 \* bound: how often the gateway stops

Hosts == {ControllerIP, ApplicationIP}
Clients == IPs \ Hosts

ASSUME GatewayAssumption ==
    /\ Ports = {RpcPort, AppPort}
    /\ RpcPort # AppPort
    /\ Hosts \subseteq IPs
    /\ Knockers \subseteq IPs
    /\ ValidSeconds \in Nat
    /\ Word \in Nat \ {0}
    /\ MaxSkew \in Nat
    /\ MaxTime \in Nat
    /\ MaxTickets \in Nat
    /\ MaxRestarts \in Nat

VARIABLES
    phase,                   \* how far the process has come
    controller_black_list_,  \* addresses (always stored with AppPort)
    md5_map_,                \* tickets used: their signatures are in md5_map_
    issued,                  \* tickets that may arrive, at any time, any number
                             \* of times or never (UDP, held by the clients)
    ctime, gtime,            \* clocks of the controller and of the gateway
    restarts

memory == <<controller_black_list_, md5_map_>>
world == <<issued, ctime, gtime>>
vars == <<fwvars, phase, memory, world, restarts>>

Phases == {"down", "flushed", "rpcGuarded", "guarded", "running"}
Tickets == [ip : IPs, timestamp : 0..Word - 1, random : Randoms]

TypeOK ==
    /\ FWTypeOK
    /\ phase \in Phases
    /\ controller_black_list_ \in SUBSET IPs
    /\ md5_map_ \in SUBSET Tickets
    /\ issued \in SUBSET Tickets
    /\ ctime \in 0..MaxTime
    /\ gtime \in 0..MaxTime
    /\ restarts \in 0..MaxRestarts

Init ==
    /\ FWInit
    /\ phase = "down"
    /\ controller_black_list_ = {}
    /\ md5_map_ = {}
    /\ issued = {}
    /\ ctime = 0 /\ gtime = 0
    /\ restarts = 0

-----------------------------------------------------------------------------
\* The definitions named Faulty... are not part of the specification: each is a
\* slip of the definition below it, kept to show which property notices it.

\* Start-up: the configuration object and with it the white list are static,
\* so the chain is flushed before main; the constructor then guards one port
\* after the other, and Run starts the dispatcher.

Start ==
    /\ phase = "down"
    /\ Flush
    /\ phase' = "flushed"
    /\ UNCHANGED <<memory, world, restarts>>

InitRpcPort ==
    /\ phase = "flushed"
    /\ InitWhiteList(Hosts, RpcPort)
    /\ phase' = "rpcGuarded"
    /\ UNCHANGED <<memory, world, restarts>>

FaultyInitAppPortRpcPort ==
    /\ phase = "rpcGuarded"
    /\ InitWhiteList({}, RpcPort)
    /\ phase' = "guarded"
    /\ UNCHANGED <<memory, world, restarts>>

InitAppPort ==
    /\ phase = "rpcGuarded"
    /\ InitWhiteList({}, AppPort)
    /\ phase' = "guarded"
    /\ UNCHANGED <<memory, world, restarts>>

Run ==
    /\ phase = "guarded"
    /\ phase' = "running"
    /\ UNCHANGED <<fwvars, memory, world, restarts>>

Stop ==
    /\ phase # "down"
    /\ restarts < MaxRestarts
    /\ restarts' = restarts + 1
    /\ phase' = "down"
    /\ ip_white_list_' = EmptyList
    /\ controller_black_list_' = {}
    /\ md5_map_' = {}
    /\ UNCHANGED <<accept, drop, world>>

-----------------------------------------------------------------------------
\* Handlers.

FaultyNeverBlack(ip) == FALSE
ControllerBlackList_IsIn(ip) == ip \in controller_black_list_

FaultyNeverExpired(t) == FALSE
Expired(t) == (t.timestamp + ValidSeconds) % Word < gtime

FaultyNeverRepeated(t) == FALSE
\* QueryAndInsertMD5 refuses a signature it has seen.
Repeated(t) == t \in md5_map_

Refused(t, from_ip) ==
    \/ ControllerBlackList_IsIn(from_ip)
    \/ t.ip # from_ip
    \/ Expired(t)
    \/ Repeated(t)

Admit(t, from_ip) ==
    /\ md5_map_' = md5_map_ \cup {t}
    /\ OpWhiteListAdd(from_ip, AppPort)
    /\ UNCHANGED <<phase, controller_black_list_, world, restarts>>

GateFuncUdpRecv(t, from_ip) ==
    /\ phase = "running"
    /\ IF Refused(t, from_ip) THEN UNCHANGED vars ELSE Admit(t, from_ip)

FaultyBanKeepsRule(ip) ==
    /\ controller_black_list_' = controller_black_list_ \cup {ip}
    /\ UNCHANGED fwvars

FaultyBanSwapped(ip) ==
    /\ controller_black_list_' = controller_black_list_ \cup {AppPort}
    /\ OpWhiteListDel(ip, AppPort)

BlackListAdd(ip) ==
    /\ controller_black_list_' = controller_black_list_ \cup {ip}
    /\ OpWhiteListDel(ip, AppPort)

BlackListDel(ip) ==
    /\ controller_black_list_' = controller_black_list_ \ {ip}
    /\ UNCHANGED fwvars

GateFuncBlackListOp(ip, from_ip) ==
    /\ phase = "running"
    /\ Reaches(from_ip, RpcPort)
    /\ BlackListAdd(ip) \/ BlackListDel(ip)
    /\ UNCHANGED <<phase, md5_map_, world, restarts>>

GateFuncNotice(op_ip, from_ip) ==
    /\ phase = "running"
    /\ Reaches(from_ip, RpcPort)
    /\ IF from_ip = ApplicationIP
       THEN OpWhiteListDel(op_ip, AppPort)
       ELSE UNCHANGED fwvars
    /\ UNCHANGED <<phase, memory, world, restarts>>

-----------------------------------------------------------------------------
\* The controller issues tickets stamped with its clock; the clocks advance.

IssueTicket(ip, random) ==
    /\ Cardinality(issued) < MaxTickets
    /\ issued' = issued \cup {[ip |-> ip, timestamp |-> ctime % Word,
                                random |-> random]}
    /\ UNCHANGED <<fwvars, phase, memory, ctime, gtime, restarts>>

TickController ==
    /\ ctime < MaxTime
    /\ ctime < gtime + MaxSkew
    /\ ctime' = ctime + 1
    /\ UNCHANGED <<fwvars, phase, memory, issued, gtime, restarts>>

TickGateway ==
    /\ gtime < MaxTime
    /\ gtime < ctime + MaxSkew
    /\ gtime' = gtime + 1
    /\ UNCHANGED <<fwvars, phase, memory, issued, ctime, restarts>>

Next ==
    \/ Start \/ InitRpcPort \/ InitAppPort \/ Run \/ Stop
    \/ \E t \in issued, from_ip \in IPs : GateFuncUdpRecv(t, from_ip)
    \/ \E ip \in Knockers, from_ip \in IPs : GateFuncBlackListOp(ip, from_ip)
    \/ \E op_ip \in Knockers, from_ip \in IPs : GateFuncNotice(op_ip, from_ip)
    \/ \E ip \in Knockers, random \in Randoms : IssueTicket(ip, random)
    \/ TickController \/ TickGateway

Spec == Init /\ [][Next]_vars

-----------------------------------------------------------------------------
\* Properties.

Running == phase = "running"
Open(c) == Reaches(c, AppPort)

\* A client the controller has put on the black list does not reach the
\* application, however knocks, notices and orders are interleaved (the list
\* has the highest priority: sdp_gateway_config.h).
BlackListFirst ==
    Running => \A c \in Clients : c \in controller_black_list_ => ~ Open(c)

\* A client that reaches the application of a running gateway got there by a
\* ticket made out to it, used since this start of the gateway.
OpenByTicket ==
    Running => \A c \in Clients : Open(c) => \E t \in md5_map_ : t.ip = c

\* The map and the kernel agree on every client ("synchronised with
\* iptables", iptables_tool.h): one ACCEPT rule for an entry, none without.
Synchronised ==
    Running => \A c \in Clients :
                   accept[c][AppPort] = IF HasRule(c, AppPort) THEN 1 ELSE 0

\* The RPC port answers the controller and the application and nobody else:
\* no order and no notice can cut the gateway off from them.
RpcPortOnlyHosts ==
    Running => \A ip \in IPs : Reaches(ip, RpcPort) <=> ip \in Hosts

\* While the gateway runs, the only step that opens the port to an address is
\* one that uses up a ticket of that address, and the address is not banned
\* at that moment: a late notice or a lifted ban never reopens it.
ReopenNeedsFreshTicket ==
    [][Running /\ Running' => \A ip \in IPs :
          ~ Open(ip) /\ Open(ip)' =>
              /\ ip \notin controller_black_list_
              /\ \E t \in issued \ md5_map_ : t.ip = ip /\ t \in md5_map_']_vars

\* A ticket opens the port only within its lifetime, as the controller counts
\* time, give or take the skew of the clocks; 32-bit sums do not extend it.
AdmissionWindow ==
    [][\A t \in md5_map_' \ md5_map_ :
          ctime % Word <= t.timestamp + ValidSeconds + MaxSkew]_vars

AP == INSTANCE AccessPolicy WITH
          open <- {c \in Clients : Open(c)},
          banned <- controller_black_list_ \cap Clients,
          spent <- md5_map_,
          serving <- Running

\* The gateway implements the abstract policy.
ImplementsAccessPolicy == AP!Spec
=============================================================================
