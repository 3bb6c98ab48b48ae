------------------------------ MODULE Firewall ------------------------------
(***************************************************************************)
(* The white list of one process together with the kernel rules it          *)
(* maintains (comm/iptools).  The chain of iptables rules is seen through   *)
(* what decides a packet: which ports have a DROP rule, and how many ACCEPT *)
(* rules of an address stand above the first DROP of a port.  Module        *)
(* IPWhiteList keeps the chain itself and refines this view.                *)
(***************************************************************************)
EXTENDS Naturals

CONSTANTS
    IPs,          \* source addresses that occur in rules and packets
    Ports,        \* the guarded TCP ports of the process
    InitMark,     \* the value 1 that InitWhiteList stores instead of a port
    NoPort,       \* "no entry" in ip_white_list_
    CmdOutcomes,  \* outcomes of one iptables command: {TRUE}, or BOOLEAN
    MaxRules      \* bound: duplicate ACCEPT rules of one address and port

ASSUME FirewallAssumption ==
    /\ InitMark \notin Ports
    /\ NoPort \notin Ports
    /\ InitMark # NoPort
    /\ CmdOutcomes \subseteq BOOLEAN
    /\ TRUE \in CmdOutcomes
    /\ MaxRules \in Nat \ {0}

VARIABLES
    ip_white_list_,  \* std::map<ip, port>
    accept,          \* accept[ip][port]: ACCEPT rules above the port's DROP
    drop             \* ports with a DROP rule

fwvars == <<ip_white_list_, accept, drop>>

Entries == Ports \cup {InitMark, NoPort}

FWTypeOK ==
    /\ ip_white_list_ \in [IPs -> Entries]
    /\ accept \in [IPs -> [Ports -> 0..MaxRules]]
    /\ drop \in SUBSET Ports

EmptyList == [ip \in IPs |-> NoPort]
NoRules == [ip \in IPs |-> [port \in Ports |-> 0]]

\* The verdict of the INPUT chain (policy ACCEPT) on a packet of ip to port.
Reaches(ip, port) == port \notin drop \/ accept[ip][port] > 0

HasRule(ip, port) == ip_white_list_[ip] = port

UnbanUser(ip, port) ==
    \E ok \in CmdOutcomes :
        accept' = IF ok THEN [accept EXCEPT ![ip][port] = @ + 1] ELSE accept

\* -D removes the first matching rule and fails when there is none.
BanUser(ip, port) ==
    \E ok \in CmdOutcomes :
        accept' = IF ok /\ accept[ip][port] > 0
                  THEN [accept EXCEPT ![ip][port] = @ - 1] ELSE accept

\* A new process: an empty map, and the chain flushed if the command works.
Flush ==
    /\ ip_white_list_' = EmptyList
    /\ \E ok \in CmdOutcomes :
          IF ok THEN accept' = NoRules /\ drop' = {}
                ELSE UNCHANGED <<accept, drop>>

\* The new DROP goes to the head of the chain, so it hides every earlier
\* ACCEPT of its port; the rules of the list are put above it.
InitWhiteList(whitelist, port) ==
    /\ \A ip \in whitelist : accept[ip][port] < MaxRules
    /\ ip_white_list_' =
          [ip \in IPs |-> IF ip \in whitelist /\ ip_white_list_[ip] = NoPort
                          THEN InitMark ELSE ip_white_list_[ip]]
    /\ \E dropped \in CmdOutcomes, opened \in [whitelist -> CmdOutcomes] :
          /\ drop' = IF dropped THEN drop \cup {port} ELSE drop
          /\ accept' =
                [ip \in IPs |-> [accept[ip] EXCEPT ![port] =
                    (IF dropped THEN 0 ELSE @)
                        + (IF ip \in whitelist /\ opened[ip] THEN 1 ELSE 0)]]

\* A slip of OpWhiteListAdd (not part of the specification): no has_rule test.
FaultyAddTwice(ip, port) ==
    /\ accept[ip][port] < MaxRules
    /\ ip_white_list_' = [ip_white_list_ EXCEPT ![ip] =
                              IF @ = NoPort THEN port ELSE @]
    /\ UnbanUser(ip, port)
    /\ UNCHANGED drop

\* map::insert keeps an entry that is already there (a preset host's).
OpWhiteListAdd(ip, port) ==
    IF HasRule(ip, port)
    THEN UNCHANGED fwvars
    ELSE /\ accept[ip][port] < MaxRules
         /\ ip_white_list_' = [ip_white_list_ EXCEPT ![ip] =
                                  IF @ = NoPort THEN port ELSE @]
         /\ UnbanUser(ip, port)
         /\ UNCHANGED drop

OpWhiteListDel(ip, port) ==
    IF HasRule(ip, port)
    THEN /\ ip_white_list_' = [ip_white_list_ EXCEPT ![ip] = NoPort]
         /\ BanUser(ip, port)
         /\ UNCHANGED drop
    ELSE UNCHANGED fwvars

-----------------------------------------------------------------------------
\* Everything one owner may ask of its white list, in any order.
FWInit == ip_white_list_ = EmptyList /\ accept = NoRules /\ drop = {}

FWNext ==
    \/ Flush
    \/ \E whitelist \in SUBSET IPs, port \in Ports :
          InitWhiteList(whitelist, port)
    \/ \E ip \in IPs, port \in Ports : OpWhiteListAdd(ip, port)
    \/ \E ip \in IPs, port \in Ports : OpWhiteListDel(ip, port)

FWSpec == FWInit /\ [][FWNext]_fwvars
=============================================================================
