----------------------------- MODULE IPWhiteList -----------------------------
(***************************************************************************)
(* The white list over the INPUT chain itself: a sequence of rules, of      *)
(* which the first one that matches a packet decides.  The commands insert  *)
(* at the head (-I) and delete the first rule that matches (-D).  The       *)
(* module shows that the counting view of Firewall is right.                *)
(***************************************************************************)
EXTENDS Naturals, FiniteSets, SequencesExt

CONSTANTS
    IPs, Ports, InitMark, NoPort, CmdOutcomes,
    MaxRules,  \* bound: duplicate ACCEPT rules of one address and port
    MaxChain   \* bound: the length of the chain

ASSUME IPWhiteListAssumption ==
    /\ IsFiniteSet(IPs)
    /\ {InitMark, NoPort} \cap Ports = {} /\ InitMark # NoPort
    /\ CmdOutcomes \subseteq BOOLEAN /\ TRUE \in CmdOutcomes
    /\ {MaxRules, MaxChain} \subseteq Nat \ {0} /\ MaxChain <= MaxRules

VARIABLES
    ip_white_list_,
    chain       \* rules of the INPUT chain, the head first

vars == <<ip_white_list_, chain>>

\* The definitions named Faulty... are not part of the specification: each is a
\* slip of a definition below it, kept to show which property notices it.
FaultySwapped(ip, port) == [target |-> "ACCEPT", src |-> {port}, dport |-> ip]

ACCEPT(ip, port) == [target |-> "ACCEPT", src |-> {ip}, dport |-> port]

FaultySourcePort(port) == [target |-> "DROP", src |-> IPs, dport |-> NoPort]

DROP(port) == [target |-> "DROP", src |-> IPs, dport |-> port]
Rules == [target : {"ACCEPT", "DROP"}, src : SUBSET IPs, dport : Ports]

TypeOK ==
    /\ ip_white_list_ \in [IPs -> Ports \cup {InitMark, NoPort}]
    /\ chain \in Seq(Rules)

\* The places of the rules that match a packet of ip to port.
Matching(ip, port) ==
    {i \in DOMAIN chain : chain[i].dport = port /\ ip \in chain[i].src}

\* The kernel's verdict: the first rule that matches, else the policy ACCEPT.
Accepted(ip, port) ==
    \A i \in Matching(ip, port) :
        (\A j \in Matching(ip, port) : i <= j) => chain[i].target = "ACCEPT"

Init == ip_white_list_ = [ip \in IPs |-> NoPort] /\ chain = <<>>

-----------------------------------------------------------------------------
\* The commands.

FaultyAppend(c, rule) == Append(c, rule)

Insert(c, rule) == <<rule>> \o c

Delete(c, rule) == RemoveFirst(c, rule)

HasRule(ip, port) == ip_white_list_[ip] = port

IptablesTools ==
    /\ ip_white_list_' = [ip \in IPs |-> NoPort]
    /\ \E ok \in CmdOutcomes : chain' = IF ok THEN <<>> ELSE chain

\* The DROP first, then the addresses in the order of the list, each at the
\* head: the last one ends up first.  A command that fails is skipped.
Opened(added, port) == [i \in DOMAIN added |-> ACCEPT(added[i], port)]

InitWhiteList(whitelist, port) ==
    /\ Len(chain) + Cardinality(whitelist) < MaxChain
    /\ ip_white_list_' =
          [ip \in IPs |-> IF ip \in whitelist /\ ip_white_list_[ip] = NoPort
                          THEN InitMark ELSE ip_white_list_[ip]]
    /\ \E dropped \in CmdOutcomes, opened \in SUBSET whitelist :
          /\ FALSE \in CmdOutcomes \/ opened = whitelist
          /\ \E added \in SetToSeqs(opened) :
                chain' = Opened(added, port)
                            \o IF dropped THEN Insert(chain, DROP(port)) ELSE chain

OpWhiteListAdd(ip, port) ==
    /\ ~ HasRule(ip, port)
    /\ Len(chain) < MaxChain
    /\ ip_white_list_' = [ip_white_list_ EXCEPT ![ip] =
                              IF @ = NoPort THEN port ELSE @]
    /\ \E ok \in CmdOutcomes :
          chain' = IF ok THEN Insert(chain, ACCEPT(ip, port)) ELSE chain

OpWhiteListDel(ip, port) ==
    /\ HasRule(ip, port)
    /\ ip_white_list_' = [ip_white_list_ EXCEPT ![ip] = NoPort]
    /\ \E ok \in CmdOutcomes :
          chain' = IF ok THEN Delete(chain, ACCEPT(ip, port)) ELSE chain

Next ==
    \/ IptablesTools
    \/ \E whitelist \in SUBSET IPs, port \in Ports : InitWhiteList(whitelist, port)
    \/ \E ip \in IPs, port \in Ports :
          OpWhiteListAdd(ip, port) \/ OpWhiteListDel(ip, port)

Spec == Init /\ [][Next]_vars

-----------------------------------------------------------------------------
\* Properties.

AboveDrop(i, port) == \A j \in 1..i : chain[j] # DROP(port)

Dropped == {port \in Ports : \E i \in DOMAIN chain : chain[i] = DROP(port)}

Counted ==
    [ip \in IPs |-> [port \in Ports |->
        Cardinality({i \in DOMAIN chain :
                        chain[i] = ACCEPT(ip, port) /\ AboveDrop(i, port)})]]

FW == INSTANCE Firewall WITH accept <- Counted, drop <- Dropped

\* The verdict of the first matching rule is the one the counting view gives,
\* with whatever rules commands that failed have left in the chain.
FirstMatchCounts ==
    \A ip \in IPs, port \in Ports :
        Accepted(ip, port) <=> FW!Reaches(ip, port)

\* Every operation on the chain is the operation of the counting view.
RefinesFirewall == FW!FWSpec
=============================================================================
