---------------------------- MODULE GatewayProofs ----------------------------
(***************************************************************************)
(* Proofs about Gateway, for every set of addresses, every bound and every  *)
(* lifetime of a ticket.  Type correctness and ReopenNeedsFreshTicket hold  *)
(* whichever iptables commands fail; the invariants and the refinement of   *)
(* AccessPolicy are proved for commands that work.                          *)
(***************************************************************************)
EXTENDS Gateway, TLAPS

USE FirewallAssumption, GatewayAssumption

-----------------------------------------------------------------------------
\* What the operations of Firewall preserve, for every address and port.

\* The initial white list and chain are well typed.
LEMMA InitType == FWInit => FWTypeOK
  BY DEF FWInit, FWTypeOK, EmptyList, NoRules, Entries

\* Flushing keeps the white list and the chain well typed, whether or not the
\* command works.
LEMMA FlushType == FWTypeOK /\ Flush => FWTypeOK'
<1>. SUFFICES ASSUME FWTypeOK, Flush PROVE FWTypeOK'
  OBVIOUS
<1>1. ip_white_list_' \in [IPs -> Entries]
  BY DEF Flush, EmptyList, Entries
<1>2. NoRules \in [IPs -> [Ports -> 0..MaxRules]]
  BY DEF NoRules
<1>3. accept' \in [IPs -> [Ports -> 0..MaxRules]] /\ drop' \in SUBSET Ports
  BY <1>2 DEF Flush, FWTypeOK
<1>. QED  BY <1>1, <1>3 DEF FWTypeOK

\* Presetting a list keeps the types, whichever of the commands fail.
LEMMA InitWhiteListType ==
    ASSUME FWTypeOK, NEW whitelist \in SUBSET IPs, NEW port \in Ports,
           InitWhiteList(whitelist, port)
    PROVE  FWTypeOK'
<1>1. PICK dropped \in CmdOutcomes, opened \in [whitelist -> CmdOutcomes] :
         /\ drop' = IF dropped THEN drop \cup {port} ELSE drop
         /\ accept' =
              [ip \in IPs |-> [accept[ip] EXCEPT ![port] =
                  (IF dropped THEN 0 ELSE @)
                      + (IF ip \in whitelist /\ opened[ip] THEN 1 ELSE 0)]]
  BY DEF InitWhiteList
<1>2. drop' \in SUBSET Ports
  BY <1>1 DEF FWTypeOK
<1>3. ip_white_list_' \in [IPs -> Entries]
  BY DEF FWTypeOK, InitWhiteList, Entries
<1>4. ASSUME NEW ip \in IPs
      PROVE  [accept[ip] EXCEPT ![port] =
                (IF dropped THEN 0 ELSE @)
                    + (IF ip \in whitelist /\ opened[ip] THEN 1 ELSE 0)]
                \in [Ports -> 0..MaxRules]
  <2>1. accept[ip] \in [Ports -> 0..MaxRules]
    BY DEF FWTypeOK
  <2>2. ip \in whitelist => accept[ip][port] < MaxRules
    BY DEF InitWhiteList
  <2>3. (IF dropped THEN 0 ELSE accept[ip][port])
            + (IF ip \in whitelist /\ opened[ip] THEN 1 ELSE 0) \in 0..MaxRules
    BY <2>1, <2>2
  <2>. QED  BY <2>1, <2>3
<1>5. accept' \in [IPs -> [Ports -> 0..MaxRules]]
  BY <1>1, <1>4
<1>. QED  BY <1>2, <1>3, <1>5 DEF FWTypeOK

\* Changing one counter within its bounds keeps the type of accept.
LEMMA AcceptType ==
    ASSUME FWTypeOK, NEW ip \in IPs, NEW port \in Ports,
           NEW n \in 0..MaxRules
    PROVE  [accept EXCEPT ![ip][port] = n] \in [IPs -> [Ports -> 0..MaxRules]]
<1>1. accept[ip] \in [Ports -> 0..MaxRules]
  BY DEF FWTypeOK
<1>2. [accept[ip] EXCEPT ![port] = n] \in [Ports -> 0..MaxRules]
  BY <1>1
<1>. QED  BY <1>2 DEF FWTypeOK

\* Adding an address keeps the types.
LEMMA AddType ==
    ASSUME FWTypeOK, NEW ip \in IPs, NEW port \in Ports,
           OpWhiteListAdd(ip, port)
    PROVE  FWTypeOK'
<1>1. CASE HasRule(ip, port)
  BY <1>1 DEF OpWhiteListAdd, FWTypeOK, fwvars
<1>2. CASE ~ HasRule(ip, port)
  <2>1. accept[ip][port] + 1 \in 0..MaxRules
    BY <1>2 DEF OpWhiteListAdd, FWTypeOK
  <2>2. [accept EXCEPT ![ip][port] = accept[ip][port] + 1]
           \in [IPs -> [Ports -> 0..MaxRules]]
    BY <2>1, AcceptType
  <2>3. accept' \in [IPs -> [Ports -> 0..MaxRules]]
    BY <1>2, <2>2 DEF OpWhiteListAdd, UnbanUser, FWTypeOK
  <2>4. ip_white_list_' \in [IPs -> Entries] /\ drop' \in SUBSET Ports
    BY <1>2 DEF OpWhiteListAdd, FWTypeOK, Entries
  <2>. QED  BY <2>3, <2>4 DEF FWTypeOK
<1>. QED  BY <1>1, <1>2

\* Removing an address keeps the types.
LEMMA DelType ==
    ASSUME FWTypeOK, NEW ip \in IPs, NEW port \in Ports,
           OpWhiteListDel(ip, port)
    PROVE  FWTypeOK'
<1>1. CASE ~ HasRule(ip, port)
  BY <1>1 DEF OpWhiteListDel, FWTypeOK, fwvars
<1>2. CASE HasRule(ip, port)
  <2>1. accept[ip][port] \in 0..MaxRules
    BY DEF FWTypeOK
  <2>2. accept[ip][port] > 0 => accept[ip][port] - 1 \in 0..MaxRules
    BY <2>1
  <2>3. accept[ip][port] > 0 =>
           [accept EXCEPT ![ip][port] = accept[ip][port] - 1]
              \in [IPs -> [Ports -> 0..MaxRules]]
    BY <2>2, AcceptType
  <2>4. accept' \in [IPs -> [Ports -> 0..MaxRules]]
    BY <1>2, <2>3 DEF OpWhiteListDel, BanUser, FWTypeOK
  <2>5. ip_white_list_' \in [IPs -> Entries] /\ drop' \in SUBSET Ports
    BY <1>2 DEF OpWhiteListDel, FWTypeOK, Entries
  <2>. QED  BY <2>4, <2>5 DEF FWTypeOK
<1>. QED  BY <1>1, <1>2

-----------------------------------------------------------------------------
\* When the commands work: the effect of each operation, point by point.

\* InitWhiteList leaves one ACCEPT rule of each listed address above the DROP.
LEMMA InitWhiteListEffect ==
    ASSUME FWTypeOK, CmdOutcomes = {TRUE},
           NEW whitelist \in SUBSET IPs, NEW port \in Ports,
           InitWhiteList(whitelist, port)
    PROVE  /\ drop' = drop \cup {port}
           /\ \A i \in IPs : ip_white_list_'[i] =
                 IF i \in whitelist /\ ip_white_list_[i] = NoPort
                 THEN InitMark ELSE ip_white_list_[i]
           /\ \A i \in IPs, p \in Ports : accept'[i][p] =
                 IF p # port THEN accept[i][p]
                 ELSE IF i \in whitelist THEN 1 ELSE 0
<1>1. PICK dropped \in {TRUE}, opened \in [whitelist -> {TRUE}] :
         /\ drop' = IF dropped THEN drop \cup {port} ELSE drop
         /\ accept' =
              [ip \in IPs |-> [accept[ip] EXCEPT ![port] =
                  (IF dropped THEN 0 ELSE @)
                      + (IF ip \in whitelist /\ opened[ip] THEN 1 ELSE 0)]]
  BY DEF InitWhiteList
<1>2. drop' = drop \cup {port}
  BY <1>1
<1>3. \A i \in IPs : ip_white_list_'[i] =
         IF i \in whitelist /\ ip_white_list_[i] = NoPort
         THEN InitMark ELSE ip_white_list_[i]
  BY DEF InitWhiteList
<1>4. ASSUME NEW i \in IPs, NEW p \in Ports
      PROVE  accept'[i][p] = IF p # port THEN accept[i][p]
                             ELSE IF i \in whitelist THEN 1 ELSE 0
  <2>1. accept[i] \in [Ports -> 0..MaxRules]
    BY DEF FWTypeOK
  <2>2. i \in whitelist => opened[i] = TRUE
    BY <1>1
  <2>. QED  BY <1>1, <2>1, <2>2
<1>. QED  BY <1>2, <1>3, <1>4

\* Adding puts one rule on the chain, and an entry in the map if there is none.
LEMMA AddEffect ==
    ASSUME FWTypeOK, CmdOutcomes = {TRUE},
           NEW ip \in IPs, NEW port \in Ports, OpWhiteListAdd(ip, port)
    PROVE  /\ drop' = drop
           /\ \A i \in IPs : ip_white_list_'[i] =
                 IF i = ip /\ ip_white_list_[i] = NoPort
                 THEN port ELSE ip_white_list_[i]
           /\ \A i \in IPs, p \in Ports : accept'[i][p] =
                 IF i = ip /\ p = port /\ ~ HasRule(ip, port)
                 THEN accept[i][p] + 1 ELSE accept[i][p]
<1>1. CASE HasRule(ip, port)
  BY <1>1 DEF OpWhiteListAdd, fwvars, HasRule
<1>2. CASE ~ HasRule(ip, port)
  <2>1. accept' = [accept EXCEPT ![ip][port] = @ + 1]
    BY <1>2 DEF OpWhiteListAdd, UnbanUser
  <2>2. \A i \in IPs, p \in Ports : accept'[i][p] =
           IF i = ip /\ p = port THEN accept[i][p] + 1 ELSE accept[i][p]
    BY <2>1 DEF FWTypeOK
  <2>. QED  BY <1>2, <2>2 DEF OpWhiteListAdd, FWTypeOK
<1>. QED  BY <1>1, <1>2

\* Removing takes the entry away, and one rule if there is one.
LEMMA DelEffect ==
    ASSUME FWTypeOK, CmdOutcomes = {TRUE},
           NEW ip \in IPs, NEW port \in Ports, OpWhiteListDel(ip, port)
    PROVE  /\ drop' = drop
           /\ \A i \in IPs : ip_white_list_'[i] =
                 IF i = ip /\ HasRule(ip, port) THEN NoPort
                 ELSE ip_white_list_[i]
           /\ \A i \in IPs, p \in Ports : accept'[i][p] =
                 IF i = ip /\ p = port /\ HasRule(ip, port)
                       /\ accept[i][p] > 0
                 THEN accept[i][p] - 1 ELSE accept[i][p]
<1>1. CASE ~ HasRule(ip, port)
  BY <1>1 DEF OpWhiteListDel, fwvars
<1>2. CASE HasRule(ip, port)
  <2>1. accept' = IF accept[ip][port] > 0
                  THEN [accept EXCEPT ![ip][port] = @ - 1] ELSE accept
    BY <1>2 DEF OpWhiteListDel, BanUser
  <2>2. \A i \in IPs, p \in Ports : accept'[i][p] =
           IF i = ip /\ p = port /\ accept[i][p] > 0
           THEN accept[i][p] - 1 ELSE accept[i][p]
    BY <2>1 DEF FWTypeOK
  <2>. QED  BY <1>2, <2>2 DEF OpWhiteListDel, FWTypeOK
<1>. QED  BY <1>1, <1>2

\* An operation on one port never opens or closes another port to anyone,
\* whichever commands fail.
LEMMA OtherPortUntouched ==
    ASSUME FWTypeOK, NEW ip \in IPs, NEW port \in Ports,
           OpWhiteListAdd(ip, port) \/ OpWhiteListDel(ip, port),
           NEW i \in IPs, NEW p \in Ports, p # port \/ i # ip
    PROVE  Reaches(i, p)' = Reaches(i, p)
<1>1. drop' = drop
  BY DEF OpWhiteListAdd, OpWhiteListDel, fwvars
<1>2. accept'[i][p] = accept[i][p]
  BY DEF OpWhiteListAdd, OpWhiteListDel, UnbanUser, BanUser, FWTypeOK, fwvars
<1>. QED  BY <1>1, <1>2 DEF Reaches

-----------------------------------------------------------------------------
\* Type correctness.

\* The sum and the remainder of the ticket's clock stay in the machine word.
LEMMA WordRange == \A n \in Nat : n % Word \in 0..Word - 1
  OBVIOUS

\* Every step of the gateway keeps the types.
LEMMA StepType == TypeOK /\ [Next]_vars => TypeOK'
<1>. SUFFICES ASSUME TypeOK, [Next]_vars PROVE TypeOK'
  OBVIOUS
<1>. USE DEF TypeOK, Phases, memory, world, Hosts
<1>1. CASE Start
  BY <1>1, FlushType DEF Start
<1>2. CASE InitRpcPort
  BY <1>2, InitWhiteListType DEF InitRpcPort
<1>3. CASE InitAppPort
  BY <1>3, InitWhiteListType DEF InitAppPort
<1>4. CASE Run
  BY <1>4 DEF Run, FWTypeOK, fwvars
<1>5. CASE Stop
  <2>1. restarts' \in 0..MaxRestarts
    BY <1>5 DEF Stop
  <2>2. FWTypeOK'
    BY <1>5 DEF Stop, FWTypeOK, EmptyList, Entries
  <2>. QED  BY <1>5, <2>1, <2>2 DEF Stop
<1>6. ASSUME NEW t \in issued, NEW from_ip \in IPs, GateFuncUdpRecv(t, from_ip)
      PROVE  TypeOK'
  <2>1. CASE Refused(t, from_ip)
    BY <1>6, <2>1 DEF GateFuncUdpRecv, vars, fwvars, FWTypeOK
  <2>2. CASE ~ Refused(t, from_ip)
    BY <1>6, <2>2, AddType DEF GateFuncUdpRecv, Admit
  <2>. QED  BY <2>1, <2>2
<1>7. ASSUME NEW ip \in Knockers, NEW from_ip \in IPs,
             GateFuncBlackListOp(ip, from_ip)
      PROVE  TypeOK'
  <2>1. CASE BlackListAdd(ip)
    BY <1>7, <2>1, DelType DEF GateFuncBlackListOp, BlackListAdd
  <2>2. CASE BlackListDel(ip)
    BY <1>7, <2>2 DEF GateFuncBlackListOp, BlackListDel, FWTypeOK, fwvars
  <2>. QED  BY <1>7, <2>1, <2>2 DEF GateFuncBlackListOp
<1>8. ASSUME NEW op_ip \in Knockers, NEW from_ip \in IPs,
             GateFuncNotice(op_ip, from_ip)
      PROVE  TypeOK'
  <2>1. CASE OpWhiteListDel(op_ip, AppPort)
    BY <1>8, <2>1, DelType DEF GateFuncNotice
  <2>2. CASE UNCHANGED fwvars
    BY <1>8, <2>2 DEF GateFuncNotice, FWTypeOK, fwvars
  <2>. QED  BY <1>8, <2>1, <2>2 DEF GateFuncNotice
<1>9. ASSUME NEW ip \in Knockers, NEW random \in Randoms,
             IssueTicket(ip, random)
      PROVE  TypeOK'
  <2>1. [ip |-> ip, timestamp |-> ctime % Word, random |-> random] \in Tickets
    BY WordRange DEF Tickets
  <2>. QED  BY <1>9, <2>1 DEF IssueTicket, FWTypeOK, fwvars
<1>10. CASE TickController
  <2>1. ctime' \in 0..MaxTime
    BY <1>10 DEF TickController
  <2>. QED  BY <1>10, <2>1 DEF TickController, FWTypeOK, fwvars
<1>11. CASE TickGateway
  <2>1. gtime' \in 0..MaxTime
    BY <1>11 DEF TickGateway
  <2>. QED  BY <1>11, <2>1 DEF TickGateway, FWTypeOK, fwvars
<1>12. CASE UNCHANGED vars
  BY <1>12 DEF vars, fwvars, FWTypeOK
<1>. QED
  BY <1>1, <1>2, <1>3, <1>4, <1>5, <1>6, <1>7, <1>8, <1>9, <1>10, <1>11,
     <1>12 DEF Next

\* Every reachable state of the gateway is well typed.
THEOREM TypeCorrect == Spec => []TypeOK
<1>1. Init => TypeOK
  BY InitType DEF Init, TypeOK, Phases
<1>. QED  BY <1>1, StepType, PTL DEF Spec

-----------------------------------------------------------------------------
\* The port reopens by a ticket only.

\* One step of a running gateway: an address that becomes able to reach the
\* application is not banned and uses up a ticket of its own.
LEMMA StepReopens ==
    ASSUME TypeOK, [Next]_vars, Running, Running',
           NEW ip \in IPs, ~ Open(ip), Open(ip)'
    PROVE  /\ ip \notin controller_black_list_
           /\ \E t \in issued \ md5_map_ : t.ip = ip /\ t \in md5_map_'
<1>. USE DEF Running, Open
<1>1. CASE \E t \in issued, from_ip \in IPs : GateFuncUdpRecv(t, from_ip)
  <2>1. PICK t \in issued, from_ip \in IPs : GateFuncUdpRecv(t, from_ip)
    BY <1>1
  <2>2. CASE Refused(t, from_ip)
    BY <2>1, <2>2 DEF GateFuncUdpRecv, vars, fwvars, Reaches
  <2>3. CASE ~ Refused(t, from_ip)
    <3>1. Admit(t, from_ip)
      BY <2>1, <2>3 DEF GateFuncUdpRecv
    <3>2. ip = from_ip
      <4>1. SUFFICES ASSUME ip # from_ip PROVE FALSE
        OBVIOUS
      <4>2. Reaches(ip, AppPort)' = Reaches(ip, AppPort)
        BY <3>1, <4>1, OtherPortUntouched DEF TypeOK, Admit
      <4>. QED  BY <4>2
    <3>. QED
      BY <2>3, <3>1, <3>2
      DEF Refused, ControllerBlackList_IsIn, Repeated, Admit
  <2>. QED  BY <2>2, <2>3
<1>2. CASE ~ \E t \in issued, from_ip \in IPs : GateFuncUdpRecv(t, from_ip)
  <2>1. \/ UNCHANGED fwvars
        \/ \E op_ip \in IPs : OpWhiteListDel(op_ip, AppPort)
    BY <1>2
    DEF Next, Start, InitRpcPort, InitAppPort, Run, Stop, GateFuncBlackListOp,
        BlackListAdd, BlackListDel, GateFuncNotice, IssueTicket,
        TickController, TickGateway, vars
  <2>2. CASE UNCHANGED fwvars
    BY <2>2 DEF fwvars, Reaches
  <2>3. CASE \E op_ip \in IPs : OpWhiteListDel(op_ip, AppPort)
    <3>1. PICK op_ip \in IPs : OpWhiteListDel(op_ip, AppPort)
      BY <2>3
    <3>2. drop' = drop
      BY <3>1 DEF OpWhiteListDel, fwvars
    <3>3. accept[ip] \in [Ports -> 0..MaxRules] /\ AppPort \in Ports
      BY DEF TypeOK, FWTypeOK
    <3>4. accept'[ip][AppPort] > 0 => accept[ip][AppPort] > 0
      BY <3>1, <3>3 DEF OpWhiteListDel, BanUser, TypeOK, FWTypeOK, fwvars
    <3>. QED  BY <3>2, <3>4 DEF Reaches
  <2>. QED  BY <2>1, <2>2, <2>3
<1>. QED  BY <1>1, <1>2

\* Whatever the constants are and whichever commands fail, a running gateway
\* opens the application's port to an address only by using up a fresh ticket
\* of that address while it is not banned.
THEOREM ReopensByTicket == Spec => ReopenNeedsFreshTicket
<1>1. TypeOK /\ [Next]_vars =>
        [Running /\ Running' => \A ip \in IPs :
            ~ Open(ip) /\ Open(ip)' =>
                /\ ip \notin controller_black_list_
                /\ \E t \in issued \ md5_map_ :
                      t.ip = ip /\ t \in md5_map_']_vars
  BY StepReopens
<1>. QED  BY <1>1, TypeCorrect, PTL DEF Spec, ReopenNeedsFreshTicket

-----------------------------------------------------------------------------
\* Admission is timely.

\* The clocks never drift apart by more than the bound.
ClocksAgree == ctime <= gtime + MaxSkew /\ gtime <= ctime + MaxSkew

\* A remainder is not larger than what it is taken of.
LEMMA WordShrinks == \A n \in Nat : n % Word <= n
  OBVIOUS

\* The clocks agree initially and every step keeps them so.
LEMMA ClocksInductive == Spec => []ClocksAgree
<1>1. Init => ClocksAgree
  BY DEF Init, ClocksAgree
<1>2. TypeOK /\ ClocksAgree /\ [Next]_vars => ClocksAgree'
  <2>. SUFFICES ASSUME TypeOK, ClocksAgree, [Next]_vars PROVE ClocksAgree'
    OBVIOUS
  <2>1. \/ UNCHANGED <<ctime, gtime>>
        \/ TickController
        \/ TickGateway
    BY DEF Next, Start, InitRpcPort, InitAppPort, Run, Stop, GateFuncUdpRecv,
           Admit, GateFuncBlackListOp, GateFuncNotice, IssueTicket, vars, world
  <2>2. ctime \in Nat /\ gtime \in Nat
    BY DEF TypeOK
  <2>. QED  BY <2>1, <2>2 DEF ClocksAgree, TickController, TickGateway
<1>. QED  BY <1>1, <1>2, TypeCorrect, PTL DEF Spec

\* A ticket is used up only within its lifetime by the controller's clock, up
\* to the skew of the clocks, for every word size of the sum.
THEOREM AdmittedInTime == Spec => AdmissionWindow
<1>1. ASSUME TypeOK, ClocksAgree, Next, NEW t \in md5_map_' \ md5_map_
      PROVE  ctime % Word <= t.timestamp + ValidSeconds + MaxSkew
  <2>1. PICK from_ip \in IPs, u \in issued :
           GateFuncUdpRecv(u, from_ip) /\ ~ Refused(u, from_ip)
    BY <1>1
    DEF Next, Start, InitRpcPort, InitAppPort, Run, Stop, GateFuncUdpRecv,
        GateFuncBlackListOp, GateFuncNotice, IssueTicket, TickController,
        TickGateway, vars, memory
  <2>2. t = u /\ t \in issued
    BY <1>1, <2>1 DEF GateFuncUdpRecv, Admit
  <2>3. t.timestamp \in Nat
    BY <1>1, <2>2 DEF TypeOK, Tickets
  <2>4. gtime <= (t.timestamp + ValidSeconds) % Word
    <3>1. ~ ((t.timestamp + ValidSeconds) % Word < gtime)
      BY <2>1, <2>2 DEF Refused, Expired
    <3>2. (t.timestamp + ValidSeconds) % Word \in Nat /\ gtime \in Nat
      BY <1>1, <2>3, WordRange DEF TypeOK
    <3>. QED  BY <3>1, <3>2
  <2>5. (t.timestamp + ValidSeconds) % Word <= t.timestamp + ValidSeconds
    BY <2>3, WordShrinks
  <2>6. ctime % Word <= ctime
    BY <1>1, WordShrinks DEF TypeOK
  <2>7. /\ (t.timestamp + ValidSeconds) % Word \in Nat
        /\ ctime % Word \in Nat
        /\ ctime \in Nat /\ gtime \in Nat
    BY <1>1, <2>3, WordRange DEF TypeOK
  <2>. QED  BY <1>1, <2>3, <2>4, <2>5, <2>6, <2>7 DEF ClocksAgree
<1>2. TypeOK /\ ClocksAgree /\ [Next]_vars =>
        [\A t \in md5_map_' \ md5_map_ :
            ctime % Word <= t.timestamp + ValidSeconds + MaxSkew]_vars
  BY <1>1
<1>. QED  BY <1>2, TypeCorrect, ClocksInductive, PTL DEF Spec, AdmissionWindow

-----------------------------------------------------------------------------
\* When the commands work: the inductive invariant.  It says what the start-up
\* has already built in each phase, that map and chain agree on the clients,
\* and that an entry of the map is backed by a used ticket and not banned.

GuardedPhases == {"guarded", "running"}

RpcGuarded ==
    phase \in {"rpcGuarded"} \cup GuardedPhases =>
        /\ RpcPort \in drop
        /\ \A ip \in IPs : accept[ip][RpcPort] = IF ip \in Hosts THEN 1 ELSE 0
        /\ \A h \in Hosts : ip_white_list_[h] = InitMark

AppGuarded ==
    phase \in GuardedPhases =>
        /\ AppPort \in drop
        /\ \A c \in Clients :
              accept[c][AppPort] = IF HasRule(c, AppPort) THEN 1 ELSE 0

Entered ==
    /\ phase = "flushed" => \A ip \in IPs : ip_white_list_[ip] = NoPort
    /\ phase \in {"rpcGuarded", "guarded"} =>
          \A c \in Clients : ip_white_list_[c] = NoPort
    /\ phase = "running" =>
          \A c \in Clients : ip_white_list_[c] \in {NoPort, AppPort}

Backed ==
    \A c \in Clients : Running /\ HasRule(c, AppPort) =>
        /\ c \notin controller_black_list_
        /\ \E t \in md5_map_ : t.ip = c

Forgotten == ~ Running => controller_black_list_ = {} /\ md5_map_ = {}

IInv ==
    TypeOK /\ RpcGuarded /\ AppGuarded /\ Entered /\ Backed /\ Forgotten

\* The initial state satisfies the invariant.
LEMMA InitInvariant == Init => IInv
  BY InitType
  DEF Init, IInv, TypeOK, Phases, RpcGuarded, AppGuarded, Entered, Backed,
      Forgotten, Running, GuardedPhases

\* Every step keeps the invariant, the start-up steps by building the next
\* part of it, the handlers by changing map and chain together.
LEMMA StepInvariant ==
    ASSUME CmdOutcomes = {TRUE}, IInv, [Next]_vars
    PROVE  IInv'
<1>. USE DEF RpcGuarded, AppGuarded, Entered, Backed, Forgotten,
             GuardedPhases, Running, HasRule, Hosts, Clients, memory
<1>0. TypeOK /\ FWTypeOK /\ TypeOK'
  BY StepType DEF IInv, TypeOK
<1>1. CASE Start
  BY <1>0, <1>1 DEF IInv, Start, Flush, EmptyList
<1>2. CASE InitRpcPort
  <2>1. /\ drop' = drop \cup {RpcPort}
        /\ \A i \in IPs : ip_white_list_'[i] =
              IF i \in Hosts /\ ip_white_list_[i] = NoPort
              THEN InitMark ELSE ip_white_list_[i]
        /\ \A i \in IPs, p \in Ports : accept'[i][p] =
              IF p # RpcPort THEN accept[i][p]
              ELSE IF i \in Hosts THEN 1 ELSE 0
    BY <1>0, <1>2, InitWhiteListEffect DEF InitRpcPort
  <2>. QED  BY <1>0, <1>2, <2>1 DEF IInv, InitRpcPort
<1>3. CASE InitAppPort
  <2>1. /\ drop' = drop \cup {AppPort}
        /\ \A i \in IPs : ip_white_list_'[i] = ip_white_list_[i]
        /\ \A i \in IPs, p \in Ports : accept'[i][p] =
              IF p # AppPort THEN accept[i][p] ELSE 0
    BY <1>0, <1>3, InitWhiteListEffect DEF InitAppPort
  <2>2. RpcGuarded' /\ Entered'
    BY <1>0, <1>3, <2>1 DEF IInv, InitAppPort
  <2>3. AppGuarded'
    BY <1>0, <1>3, <2>1 DEF IInv, InitAppPort
  <2>. QED  BY <1>0, <1>3, <2>2, <2>3 DEF IInv, InitAppPort
<1>4. CASE Run
  BY <1>0, <1>4 DEF IInv, Run, fwvars
<1>5. CASE Stop
  BY <1>0, <1>5 DEF IInv, Stop
<1>6. ASSUME NEW t \in issued, NEW from_ip \in IPs, GateFuncUdpRecv(t, from_ip)
      PROVE  IInv'
  <2>1. CASE Refused(t, from_ip)
    BY <1>0, <1>6, <2>1 DEF IInv, GateFuncUdpRecv, vars, fwvars
  <2>2. CASE ~ Refused(t, from_ip)
    <3>1. Admit(t, from_ip) /\ phase = "running" /\ phase' = phase
      BY <1>6, <2>2 DEF GateFuncUdpRecv, Admit
    <3>2. from_ip = t.ip /\ from_ip \notin controller_black_list_
      BY <2>2 DEF Refused, ControllerBlackList_IsIn
    <3>3. /\ md5_map_' = md5_map_ \cup {t}
          /\ controller_black_list_' = controller_black_list_
          /\ OpWhiteListAdd(from_ip, AppPort)
      BY <3>1 DEF Admit
    <3>4. /\ drop' = drop
          /\ \A i \in IPs : ip_white_list_'[i] =
                IF i = from_ip /\ ip_white_list_[i] = NoPort
                THEN AppPort ELSE ip_white_list_[i]
          /\ \A i \in IPs, p \in Ports : accept'[i][p] =
                IF i = from_ip /\ p = AppPort /\ ~ HasRule(from_ip, AppPort)
                THEN accept[i][p] + 1 ELSE accept[i][p]
      BY <1>0, <3>3, AddEffect
    <3>5. RpcGuarded' /\ Entered'
      BY <3>1, <3>4 DEF IInv
    <3>6. AppGuarded'
      BY <3>1, <3>4 DEF IInv
    <3>7. Backed' /\ Forgotten'
      BY <3>1, <3>2, <3>3, <3>4 DEF IInv
    <3>. QED  BY <1>0, <3>5, <3>6, <3>7 DEF IInv
  <2>. QED  BY <2>1, <2>2
<1>7. ASSUME NEW ip \in IPs, OpWhiteListDel(ip, AppPort), phase = "running",
             phase' = phase, md5_map_' = md5_map_,
             controller_black_list_' \subseteq controller_black_list_ \cup {ip}
      PROVE  IInv'
  <2>1. /\ drop' = drop
        /\ \A i \in IPs : ip_white_list_'[i] =
              IF i = ip /\ HasRule(ip, AppPort) THEN NoPort
              ELSE ip_white_list_[i]
        /\ \A i \in IPs, p \in Ports : accept'[i][p] =
              IF i = ip /\ p = AppPort /\ HasRule(ip, AppPort)
                    /\ accept[i][p] > 0
              THEN accept[i][p] - 1 ELSE accept[i][p]
    BY <1>0, <1>7, DelEffect
  <2>2. RpcGuarded' /\ Entered'
    BY <1>7, <2>1 DEF IInv
  <2>3. AppGuarded'
    BY <1>7, <2>1 DEF IInv
  <2>4. Backed' /\ Forgotten'
    BY <1>7, <2>1 DEF IInv
  <2>. QED  BY <1>0, <2>2, <2>3, <2>4 DEF IInv
<1>8. ASSUME NEW ip \in Knockers, NEW from_ip \in IPs,
             GateFuncBlackListOp(ip, from_ip)
      PROVE  IInv'
  <2>1. CASE BlackListAdd(ip)
    BY <1>7, <1>8, <2>1 DEF GateFuncBlackListOp, BlackListAdd
  <2>2. CASE BlackListDel(ip)
    BY <1>0, <1>8, <2>2 DEF IInv, GateFuncBlackListOp, BlackListDel, fwvars
  <2>. QED  BY <1>8, <2>1, <2>2 DEF GateFuncBlackListOp
<1>9. ASSUME NEW op_ip \in Knockers, NEW from_ip \in IPs,
             GateFuncNotice(op_ip, from_ip)
      PROVE  IInv'
  <2>1. CASE OpWhiteListDel(op_ip, AppPort)
    BY <1>7, <1>9, <2>1 DEF GateFuncNotice
  <2>2. CASE UNCHANGED fwvars
    BY <1>0, <1>9, <2>2 DEF IInv, GateFuncNotice, fwvars
  <2>. QED  BY <1>9, <2>1, <2>2 DEF GateFuncNotice
<1>10. CASE UNCHANGED <<fwvars, phase, memory>>
  BY <1>0, <1>10 DEF IInv, fwvars
<1>11. \/ UNCHANGED <<fwvars, phase, memory>>
       \/ Start \/ InitRpcPort \/ InitAppPort \/ Run \/ Stop
       \/ \E t \in issued, from_ip \in IPs : GateFuncUdpRecv(t, from_ip)
       \/ \E ip \in Knockers, from_ip \in IPs : GateFuncBlackListOp(ip, from_ip)
       \/ \E op_ip \in Knockers, from_ip \in IPs :
             GateFuncNotice(op_ip, from_ip)
  BY DEF Next, IssueTicket, TickController, TickGateway, vars
<1>. QED
  BY <1>1, <1>2, <1>3, <1>4, <1>5, <1>6, <1>8, <1>9, <1>10, <1>11

\* IInv is an invariant of the gateway when the commands work.
LEMMA Invariance == ASSUME CmdOutcomes = {TRUE} PROVE Spec => []IInv
<1>1. IInv /\ [Next]_vars => IInv'
  BY StepInvariant
<1>. QED  BY <1>1, InitInvariant, PTL DEF Spec

\* With commands that work, no banned client ever reaches the application of a
\* running gateway, for any number of clients, tickets and restarts.
THEOREM BannedStayOut ==
    ASSUME CmdOutcomes = {TRUE} PROVE Spec => []BlackListFirst
<1>1. IInv => BlackListFirst
  BY DEF IInv, BlackListFirst, Running, Open, Reaches, AppGuarded, Backed,
         GuardedPhases
<1>. QED  BY <1>1, Invariance, PTL

\* With commands that work, whoever reaches the application of a running
\* gateway has used a ticket of its own since the gateway started.
THEOREM TicketBehindEveryOpening ==
    ASSUME CmdOutcomes = {TRUE} PROVE Spec => []OpenByTicket
<1>1. IInv => OpenByTicket
  BY DEF IInv, OpenByTicket, Running, Open, Reaches, AppGuarded, Backed,
         GuardedPhases
<1>. QED  BY <1>1, Invariance, PTL

\* With commands that work, map and kernel agree on every client.
THEOREM MapMatchesKernel ==
    ASSUME CmdOutcomes = {TRUE} PROVE Spec => []Synchronised
<1>1. IInv => Synchronised
  BY DEF IInv, Synchronised, Running, AppGuarded, GuardedPhases
<1>. QED  BY <1>1, Invariance, PTL

\* With commands that work, the RPC port of a running gateway answers exactly
\* the controller and the application.
THEOREM HostsAlwaysHeard ==
    ASSUME CmdOutcomes = {TRUE} PROVE Spec => []RpcPortOnlyHosts
<1>1. IInv => RpcPortOnlyHosts
  <2>. SUFFICES ASSUME IInv, Running, NEW ip \in IPs
                PROVE  Reaches(ip, RpcPort) <=> ip \in Hosts
    BY DEF RpcPortOnlyHosts
  <2>1. /\ RpcPort \in drop
        /\ accept[ip][RpcPort] = IF ip \in Hosts THEN 1 ELSE 0
    BY DEF IInv, Running, RpcGuarded, GuardedPhases
  <2>. QED  BY <2>1 DEF Reaches
<1>. QED  BY <1>1, Invariance, PTL

-----------------------------------------------------------------------------
\* The gateway implements the abstract policy.

\* Initially every client reaches the port, since nothing guards it yet.
LEMMA InitRefines == Init => AP!Init
  BY DEF Init, FWInit, AP!Init, Open, Reaches, Running

\* Every step of the gateway is a step of the policy or changes nothing in it.
LEMMA StepRefines ==
    ASSUME CmdOutcomes = {TRUE}, IInv, IInv', [Next]_vars
    PROVE  [AP!Next]_(AP!policyvars)
<1>. USE DEF Running, AP!policyvars
<1>0. TypeOK /\ FWTypeOK
  BY DEF IInv, TypeOK
<1>1. CASE UNCHANGED <<fwvars, phase, memory>>
  BY <1>1 DEF fwvars, memory, Open, Reaches
<1>2. CASE Start
  <2>1. {c \in Clients : Open(c)}' = Clients
    BY <1>2 DEF Start, Flush, Open, Reaches
  <2>. QED
    BY <1>2, <2>1 DEF Start, memory, AP!Next, AP!Rebuild
<1>3. CASE InitRpcPort
  <2>1. \A c \in Clients : Open(c)' = Open(c)
    <3>1. /\ drop' = drop \cup {RpcPort}
          /\ \A i \in IPs, p \in Ports : accept'[i][p] =
                IF p # RpcPort THEN accept[i][p]
                ELSE IF i \in Hosts THEN 1 ELSE 0
      BY <1>0, <1>3, InitWhiteListEffect DEF InitRpcPort, Hosts
    <3>. QED  BY <3>1 DEF Open, Reaches, Clients
  <2>. QED  BY <1>3, <2>1 DEF InitRpcPort, memory
<1>4. CASE InitAppPort
  <2>1. {c \in Clients : Open(c)}' = {}
    BY <1>4 DEF IInv, InitAppPort, AppGuarded, GuardedPhases, Entered, HasRule,
                Open, Reaches, TypeOK, Clients
  <2>. QED  BY <1>4, <2>1 DEF InitAppPort, memory, AP!Next, AP!Rebuild
<1>5. CASE Run
  <2>1. {c \in Clients : Open(c)} = {}
    BY <1>5 DEF IInv, Run, AppGuarded, GuardedPhases, Entered, HasRule, Open,
                Reaches, Clients
  <2>. QED
    BY <1>5, <2>1 DEF Run, fwvars, memory, Open, Reaches, AP!Next, AP!Serve
<1>6. CASE Stop
  BY <1>6 DEF Stop, Open, Reaches, AP!Next, AP!Stop
<1>7. ASSUME NEW t \in issued, NEW from_ip \in IPs, GateFuncUdpRecv(t, from_ip)
      PROVE  [AP!Next]_(AP!policyvars)
  <2>1. CASE Refused(t, from_ip)
    BY <1>7, <1>1, <2>1 DEF GateFuncUdpRecv, vars
  <2>2. CASE ~ Refused(t, from_ip)
    <3>1. Admit(t, from_ip) /\ Running
      BY <1>7, <2>2 DEF GateFuncUdpRecv
    <3>2. /\ drop' = drop
          /\ \A i \in IPs, p \in Ports : accept'[i][p] =
                IF i = from_ip /\ p = AppPort /\ ~ HasRule(from_ip, AppPort)
                THEN accept[i][p] + 1 ELSE accept[i][p]
      BY <1>0, <3>1, AddEffect DEF Admit
    <3>3. \A c \in Clients : Open(c)' <=> Open(c) \/ c = from_ip
      <4>1. \A c \in Clients : accept[c][AppPort] \in Nat
        BY <1>0 DEF FWTypeOK, Clients
      <4>2. from_ip \in Clients /\ HasRule(from_ip, AppPort) =>
               accept[from_ip][AppPort] = 1
        BY <3>1 DEF IInv, AppGuarded, GuardedPhases
      <4>. QED  BY <3>2, <4>1, <4>2 DEF Open, Reaches, Clients
    <3>4. {c \in Clients : Open(c)}' =
             {c \in Clients : Open(c)} \cup ({t.ip} \cap Clients)
      BY <2>2, <3>3 DEF Refused
    <3>5. t \in Tickets
      BY <1>0 DEF TypeOK
    <3>6. AP!Admit(t)
      BY <2>2, <3>1, <3>4
      DEF AP!Admit, Admit, Refused, Repeated, ControllerBlackList_IsIn
    <3>. QED  BY <3>5, <3>6 DEF AP!Next
  <2>. QED  BY <2>1, <2>2
<1>8. ASSUME NEW ip \in IPs, OpWhiteListDel(ip, AppPort), phase = "running"
      PROVE  {c \in Clients : Open(c)}' = {c \in Clients : Open(c)} \ {ip}
  <2>1. /\ drop' = drop
        /\ \A i \in IPs, p \in Ports : accept'[i][p] =
              IF i = ip /\ p = AppPort /\ HasRule(ip, AppPort)
                    /\ accept[i][p] > 0
              THEN accept[i][p] - 1 ELSE accept[i][p]
    BY <1>0, <1>8, DelEffect
  <2>2. \A c \in Clients :
           accept[c][AppPort] = IF HasRule(c, AppPort) THEN 1 ELSE 0
    BY <1>8 DEF IInv, AppGuarded, GuardedPhases
  <2>3. AppPort \in drop
    BY <1>8 DEF IInv, AppGuarded, GuardedPhases
  <2>4. \A c \in Clients : Open(c)' <=> Open(c) /\ c # ip
    BY <2>1, <2>2, <2>3 DEF Open, Reaches, Clients
  <2>. QED  BY <2>4
<1>9. ASSUME NEW ip \in Knockers, NEW from_ip \in IPs,
             GateFuncBlackListOp(ip, from_ip)
      PROVE  [AP!Next]_(AP!policyvars)
  <2>1. CASE BlackListAdd(ip) /\ ip \in Clients
    <3>1. AP!Ban(ip)
      BY <1>8, <1>9, <2>1
      DEF GateFuncBlackListOp, BlackListAdd, AP!Ban, Clients
    <3>. QED  BY <2>1, <3>1 DEF AP!Next
  <2>2. CASE BlackListAdd(ip) /\ ip \notin Clients
    BY <1>8, <1>9, <2>2 DEF GateFuncBlackListOp, BlackListAdd
  <2>3. CASE BlackListDel(ip) /\ ip \in Clients
    <3>1. AP!Unban(ip)
      BY <1>9, <2>3
      DEF GateFuncBlackListOp, BlackListDel, AP!Unban, fwvars, Open, Reaches
    <3>. QED  BY <2>3, <3>1 DEF AP!Next
  <2>4. CASE BlackListDel(ip) /\ ip \notin Clients
    BY <1>9, <2>4
    DEF GateFuncBlackListOp, BlackListDel, fwvars, Open, Reaches
  <2>. QED  BY <1>9, <2>1, <2>2, <2>3, <2>4 DEF GateFuncBlackListOp
<1>10. ASSUME NEW op_ip \in Knockers, NEW from_ip \in IPs,
              GateFuncNotice(op_ip, from_ip)
       PROVE  [AP!Next]_(AP!policyvars)
  <2>1. CASE OpWhiteListDel(op_ip, AppPort) /\ op_ip \in Clients
    <3>1. AP!Close(op_ip)
      BY <1>8, <1>10, <2>1 DEF GateFuncNotice, AP!Close, memory, Clients
    <3>. QED  BY <2>1, <3>1 DEF AP!Next
  <2>2. CASE OpWhiteListDel(op_ip, AppPort) /\ op_ip \notin Clients
    BY <1>8, <1>10, <2>2 DEF GateFuncNotice, memory
  <2>3. CASE UNCHANGED fwvars
    BY <1>1, <1>10, <2>3 DEF GateFuncNotice
  <2>. QED  BY <1>10, <2>1, <2>2, <2>3 DEF GateFuncNotice
<1>11. \/ UNCHANGED <<fwvars, phase, memory>>
       \/ Start \/ InitRpcPort \/ InitAppPort \/ Run \/ Stop
       \/ \E t \in issued, from_ip \in IPs : GateFuncUdpRecv(t, from_ip)
       \/ \E ip \in Knockers, from_ip \in IPs : GateFuncBlackListOp(ip, from_ip)
       \/ \E op_ip \in Knockers, from_ip \in IPs :
             GateFuncNotice(op_ip, from_ip)
  BY DEF Next, IssueTicket, TickController, TickGateway, vars
<1>. QED
  BY <1>1, <1>2, <1>3, <1>4, <1>5, <1>6, <1>7, <1>9, <1>10, <1>11

\* With commands that work, the gateway implements AccessPolicy: no step of
\* the start-up, of a handler or of a restart does what the policy forbids.
THEOREM Refinement ==
    ASSUME CmdOutcomes = {TRUE} PROVE Spec => ImplementsAccessPolicy
<1>1. IInv /\ IInv' /\ [Next]_vars => [AP!Next]_(AP!policyvars)
  BY StepRefines
<1>. QED
  BY <1>1, InitRefines, Invariance, PTL DEF Spec, ImplementsAccessPolicy, AP!Spec
=============================================================================
