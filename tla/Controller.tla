------------------------------ MODULE Controller ------------------------------
(***************************************************************************)
(* The controller (modules/controller): clients knock with vouchers, the    *)
(* gateway registers its applications, and whoever was let in asks for the  *)
(* list of applications and receives one ticket for each.  All the          *)
(* controller knows it holds in memory, and loses when it stops.            *)
(***************************************************************************)
EXTENDS Firewall, FiniteSets

CONSTANTS
    TcpPort,     \* TCP_PORT_CONTROLLER
    GatewayIP,   \* IP_APPGATEWAY_PB
    Registrars,  \* addresses at which some program registers applications:
                 \* the handler asks for nothing but a connection
    Users,       \* the accounts of user_account_map_
    Strangers,   \* other account names
    Apps,        \* app_tcp_port values a gateway may register
    Digests,     \* values of md5_data: in the code the 256 one-byte strings
    MaxVouchers, \* bound: vouchers the clients create
    MaxRestarts  \* bound: how often the controller stops

Accounts == Users \cup Strangers
Hosts == {GatewayIP}
Clients == IPs \ Hosts
Destinations == IPs \X Apps  \* "ip:port" of a registered application

ASSUME ControllerAssumption ==
    /\ Ports = {TcpPort}
    /\ GatewayIP \in Registrars
    /\ Registrars \subseteq IPs
    /\ Users \cap Strangers = {}
    /\ MaxVouchers \in Nat
    /\ MaxRestarts \in Nat

VARIABLES
    phase,           \* how far the process has come
    md5_map_,        \* digests of the vouchers let through
    app_map_,        \* app_map_[gateway]: what the gateway registered last
    permission_map_, \* permission_map_[account]: destinations
    vouchers,        \* vouchers that may arrive at any time (UDP)
    tickets,         \* what ConFuncGetAccess has handed out
    restarts

memory == <<md5_map_, app_map_, permission_map_>>
vars == <<fwvars, phase, memory, vouchers, tickets, restarts>>

Vouchers == [n : 1..MaxVouchers, acc : Accounts, correct : BOOLEAN,
             digest : Digests]
Tickets == [ip : IPs, acc : Accounts, dst : Destinations]

TypeOK ==
    /\ FWTypeOK
    /\ phase \in {"down", "flushed", "running"}
    /\ md5_map_ \in SUBSET Digests
    /\ app_map_ \in [IPs -> SUBSET Apps]
    /\ permission_map_ \in [Accounts -> SUBSET Destinations]
    /\ vouchers \in SUBSET Vouchers
    /\ tickets \in SUBSET Tickets
    /\ restarts \in 0..MaxRestarts

NoApps == [ip \in IPs |-> {}]
NoPermissions == [acc \in Accounts |-> {}]

Init ==
    /\ FWInit
    /\ phase = "down"
    /\ md5_map_ = {}
    /\ app_map_ = NoApps
    /\ permission_map_ = NoPermissions
    /\ vouchers = {}
    /\ tickets = {}
    /\ restarts = 0

-----------------------------------------------------------------------------
\* Start-up and stop.  The definitions named Faulty... are not part of the
\* specification: each is a slip of the definition below it, kept to show which
\* property notices it.

FaultyRunWithoutGateway ==
    /\ phase = "flushed"
    /\ InitWhiteList({}, TcpPort)
    /\ phase' = "running"
    /\ UNCHANGED <<memory, vouchers, tickets, restarts>>

Start ==
    /\ phase = "down"
    /\ Flush
    /\ phase' = "flushed"
    /\ UNCHANGED <<memory, vouchers, tickets, restarts>>

Run ==
    /\ phase = "flushed"
    /\ InitWhiteList(Hosts, TcpPort)
    /\ phase' = "running"
    /\ UNCHANGED <<memory, vouchers, tickets, restarts>>

Stop ==
    /\ phase # "down"
    /\ restarts < MaxRestarts
    /\ restarts' = restarts + 1
    /\ phase' = "down"
    /\ ip_white_list_' = EmptyList
    /\ md5_map_' = {}
    /\ app_map_' = NoApps
    /\ permission_map_' = NoPermissions
    /\ UNCHANGED <<accept, drop, vouchers, tickets>>

-----------------------------------------------------------------------------
\* The knock.

CheckUserPasswd(v) == v.acc \in Users /\ v.correct

FaultyPermissionUnchecked(acc) == TRUE

CheckUserPermission_Exists(acc) == permission_map_[acc] # {}

Verified(v) == CheckUserPasswd(v) /\ CheckUserPermission_Exists(v.acc)

FaultyReplayExpels(v, from_ip) ==
    /\ phase = "running"
    /\ \/ /\ ~ Verified(v) \/ v.digest \in md5_map_
          /\ OpWhiteListDel(from_ip, TcpPort)
          /\ UNCHANGED md5_map_
       \/ /\ Verified(v)
          /\ v.digest \notin md5_map_
          /\ md5_map_' = md5_map_ \cup {v.digest}
          /\ OpWhiteListAdd(from_ip, TcpPort)
    /\ UNCHANGED <<phase, app_map_, permission_map_, vouchers, tickets, restarts>>

FaultyDigestAsAccount(v, from_ip) ==
    /\ phase = "running"
    /\ Verified(v)
    /\ md5_map_' = md5_map_ \cup {v.acc}
    /\ OpWhiteListAdd(from_ip, TcpPort)
    /\ UNCHANGED <<phase, app_map_, permission_map_, vouchers, tickets, restarts>>

\* A failed check takes the sender off the white list, a repeated digest does
\* not, a new one puts it on.
ConFuncUdpRecv(v, from_ip) ==
    /\ phase = "running"
    /\ \/ /\ ~ Verified(v)
          /\ OpWhiteListDel(from_ip, TcpPort)
          /\ UNCHANGED md5_map_
       \/ /\ Verified(v)
          /\ v.digest \in md5_map_
          /\ UNCHANGED <<fwvars, md5_map_>>
       \/ /\ Verified(v)
          /\ v.digest \notin md5_map_
          /\ md5_map_' = md5_map_ \cup {v.digest}
          /\ OpWhiteListAdd(from_ip, TcpPort)
    /\ UNCHANGED <<phase, app_map_, permission_map_, vouchers, tickets, restarts>>

-----------------------------------------------------------------------------
\* The remote calls: only what the chain lets through arrives.

CheckUserPermission_Allowed(acc, dst) == dst \in permission_map_[acc]

AccessList(acc) ==
    {dst \in Destinations :
        dst[2] \in app_map_[dst[1]] /\ CheckUserPermission_Allowed(acc, dst)}

ConFuncGetAccess(acc, from_ip) ==
    /\ phase = "running"
    /\ Reaches(from_ip, TcpPort)
    /\ tickets' = tickets \cup
          {[ip |-> from_ip, acc |-> acc, dst |-> dst] : dst \in AccessList(acc)}
    /\ UNCHANGED <<fwvars, phase, memory, vouchers, restarts>>

FaultyRegisterNoPermission(app_list, from_ip) ==
    /\ phase = "running"
    /\ Reaches(from_ip, TcpPort)
    /\ app_list # {}
    /\ app_map_' = [app_map_ EXCEPT ![from_ip] = app_list]
    /\ permission_map_' =
          [acc \in Accounts |->
              IF acc \in Users /\ permission_map_[acc] = {}
              THEN {from_ip} \X app_list
              ELSE permission_map_[acc]]
    /\ UNCHANGED <<fwvars, phase, md5_map_, vouchers, tickets, restarts>>

\* An empty list is refused; the list replaces the gateway's last one, the
\* permissions of all users only grow.
ConFuncRegisterApp(app_list, from_ip) ==
    /\ phase = "running"
    /\ Reaches(from_ip, TcpPort)
    /\ app_list # {}
    /\ app_map_' = [app_map_ EXCEPT ![from_ip] = app_list]
    /\ permission_map_' =
          [acc \in Accounts |->
              IF acc \in Users
              THEN permission_map_[acc] \cup ({from_ip} \X app_list)
              ELSE permission_map_[acc]]
    /\ UNCHANGED <<fwvars, phase, md5_map_, vouchers, tickets, restarts>>

\* A client makes a voucher: a new time and random number, so that one byte of
\* digest may come out as anything.
MakeVoucher(acc, correct, digest) ==
    /\ Cardinality(vouchers) < MaxVouchers
    /\ vouchers' = vouchers \cup
          {[n |-> Cardinality(vouchers) + 1, acc |-> acc, correct |-> correct,
            digest |-> digest]}
    /\ UNCHANGED <<fwvars, phase, memory, tickets, restarts>>

NoKnock ==
    \/ Start \/ Run \/ Stop
    \/ \E acc \in Accounts, from_ip \in IPs : ConFuncGetAccess(acc, from_ip)
    \/ \E app_list \in SUBSET Apps, from_ip \in Registrars :
          ConFuncRegisterApp(app_list, from_ip)
    \/ \E acc \in Accounts, correct \in BOOLEAN, digest \in Digests :
          MakeVoucher(acc, correct, digest)

Next ==
    \/ \E v \in vouchers, from_ip \in IPs : ConFuncUdpRecv(v, from_ip)
    \/ NoKnock

Spec == Init /\ [][Next]_vars

-----------------------------------------------------------------------------
\* Properties.

Running == phase = "running"

\* The gateway reaches a running controller whatever knocks arrive, also failed
\* ones that carry the gateway's own address: it can always register.
GatewayAlwaysHeard == Running => Reaches(GatewayIP, TcpPort)

\* A client reaches a running controller only when there is something to
\* access: the gateway has registered, and some voucher was let through.
OpenMeansApps ==
    Running => \A c \in Clients : Reaches(c, TcpPort) =>
                   md5_map_ # {} /\ app_map_[GatewayIP] # {}

\* Registrations and permissions fit together, in whatever order gateways
\* register, restart and shrink their lists: every user may reach every
\* registered application, and no other account may reach anything.
UsersMayUseApps ==
    /\ \A gw \in IPs : \A app \in app_map_[gw], acc \in Users :
          <<gw, app>> \in permission_map_[acc]
    /\ \A acc \in Strangers : permission_map_[acc] = {}

\* While the controller runs, its port opens to an address only by a correct
\* voucher of a permitted user whose digest was not seen before, and closes
\* only by a voucher that fails a check: a repeated voucher does neither.
KnockDecides ==
    [][Running /\ Running' => \A ip \in IPs :
          Reaches(ip, TcpPort)' # Reaches(ip, TcpPort) =>
             \E v \in vouchers :
                IF Reaches(ip, TcpPort)
                THEN ~ Verified(v)
                ELSE Verified(v) /\ v.digest \in md5_map_' \ md5_map_]_vars

\* A ticket is handed out only to an address that was let in, for a user's
\* account, and for an application that is registered at that moment.
TicketsForRegisteredApps ==
    [][\A t \in tickets' \ tickets :
          /\ Reaches(t.ip, TcpPort)
          /\ t.acc \in Users
          /\ t.dst[2] \in app_map_[t.dst[1]]]_vars
=============================================================================
