-------------------------- MODULE ControllerProofs --------------------------
(***************************************************************************)
(* Proofs about Controller, for every set of addresses, accounts and        *)
(* applications and for every digest function.  What the properties about   *)
(* vouchers, permissions and tickets say holds whichever iptables commands  *)
(* fail; who reaches the controller is proved for commands that work.       *)
(***************************************************************************)
EXTENDS Controller, FiniteSetTheorems, TLAPS

USE FirewallAssumption, ControllerAssumption

-----------------------------------------------------------------------------
\* What the operations of Firewall do to the controller's one port.

\* The initial white list and chain are well typed.
LEMMA InitType == FWInit => FWTypeOK
  BY DEF FWInit, FWTypeOK, EmptyList, NoRules, Entries

\* Flushing keeps the types, whether or not the command works.
LEMMA FlushType == FWTypeOK /\ Flush => FWTypeOK'
<1>. SUFFICES ASSUME FWTypeOK, Flush PROVE FWTypeOK'
  OBVIOUS
<1>1. ip_white_list_' \in [IPs -> Entries]
  BY DEF Flush, EmptyList, Entries
<1>2. NoRules \in [IPs -> [Ports -> 0..MaxRules]]
  BY DEF NoRules
<1>3. accept' \in [IPs -> [Ports -> 0..MaxRules]] /\ drop' \in SUBSET Ports
  BY <1>2 DEF Flush, FWTypeOK
<1>. QED  BY <1>1, <1>3 DEF FWTypeOK

\* Presetting the gateway keeps the types, whichever of the commands fail.
LEMMA PresetType ==
    ASSUME FWTypeOK, InitWhiteList(Hosts, TcpPort)
    PROVE  FWTypeOK'
<1>1. PICK dropped \in CmdOutcomes, opened \in [Hosts -> CmdOutcomes] :
         /\ drop' = IF dropped THEN drop \cup {TcpPort} ELSE drop
         /\ accept' =
              [ip \in IPs |-> [accept[ip] EXCEPT ![TcpPort] =
                  (IF dropped THEN 0 ELSE @)
                      + (IF ip \in Hosts /\ opened[ip] THEN 1 ELSE 0)]]
  BY DEF InitWhiteList
<1>2. drop' \in SUBSET Ports /\ ip_white_list_' \in [IPs -> Entries]
  BY <1>1 DEF FWTypeOK, InitWhiteList, Entries
<1>3. ASSUME NEW ip \in IPs
      PROVE  [accept[ip] EXCEPT ![TcpPort] =
                (IF dropped THEN 0 ELSE @)
                    + (IF ip \in Hosts /\ opened[ip] THEN 1 ELSE 0)]
                \in [Ports -> 0..MaxRules]
  <2>1. accept[ip] \in [Ports -> 0..MaxRules]
    BY DEF FWTypeOK
  <2>2. ip \in Hosts => accept[ip][TcpPort] < MaxRules
    BY DEF InitWhiteList
  <2>3. (IF dropped THEN 0 ELSE accept[ip][TcpPort])
            + (IF ip \in Hosts /\ opened[ip] THEN 1 ELSE 0) \in 0..MaxRules
    BY <2>1, <2>2
  <2>. QED  BY <2>1, <2>3
<1>4. accept' \in [IPs -> [Ports -> 0..MaxRules]]
  BY <1>1, <1>3
<1>. QED  BY <1>2, <1>4 DEF FWTypeOK

\* A knock's change to the white list keeps the types, whether or not its
\* command works.
LEMMA KnockType ==
    ASSUME FWTypeOK, NEW ip \in IPs,
           OpWhiteListAdd(ip, TcpPort) \/ OpWhiteListDel(ip, TcpPort)
    PROVE  FWTypeOK'
<1>1. CASE UNCHANGED fwvars
  BY <1>1 DEF FWTypeOK, fwvars
<1>2. CASE ~ UNCHANGED fwvars
  <2>1. accept[ip] \in [Ports -> 0..MaxRules]
    BY DEF FWTypeOK
  <2>2. PICK n \in 0..MaxRules : accept' = [accept EXCEPT ![ip][TcpPort] = n]
    <3>1. CASE accept' = accept
      <4>1. accept' = [accept EXCEPT ![ip][TcpPort] = accept[ip][TcpPort]]
        BY <2>1, <3>1 DEF FWTypeOK
      <4>. QED  BY <2>1, <4>1
    <3>2. CASE /\ accept[ip][TcpPort] < MaxRules
               /\ accept' = [accept EXCEPT ![ip][TcpPort] = @ + 1]
      <4>1. accept[ip][TcpPort] + 1 \in 0..MaxRules
        BY <2>1, <3>2
      <4>. QED  BY <3>2, <4>1
    <3>3. CASE /\ accept[ip][TcpPort] > 0
               /\ accept' = [accept EXCEPT ![ip][TcpPort] = @ - 1]
      <4>1. accept[ip][TcpPort] - 1 \in 0..MaxRules
        BY <2>1, <3>3
      <4>. QED  BY <3>3, <4>1
    <3>. QED
      BY <1>2, <3>1, <3>2, <3>3
      DEF OpWhiteListAdd, OpWhiteListDel, UnbanUser, BanUser
  <2>3. [accept[ip] EXCEPT ![TcpPort] = n] \in [Ports -> 0..MaxRules]
    BY <2>1
  <2>4. accept' \in [IPs -> [Ports -> 0..MaxRules]]
    BY <2>2, <2>3 DEF FWTypeOK
  <2>5. ip_white_list_' \in [IPs -> Entries] /\ drop' \in SUBSET Ports
    BY <1>2 DEF OpWhiteListAdd, OpWhiteListDel, FWTypeOK, Entries
  <2>. QED  BY <2>4, <2>5 DEF FWTypeOK
<1>. QED  BY <1>1, <1>2

\* When the commands work, presetting leaves one ACCEPT rule of the gateway
\* above the DROP and none of anybody else.
LEMMA PresetEffect ==
    ASSUME FWTypeOK, CmdOutcomes = {TRUE}, InitWhiteList(Hosts, TcpPort)
    PROVE  /\ drop' = drop \cup {TcpPort}
           /\ \A i \in IPs : ip_white_list_'[i] =
                 IF i \in Hosts /\ ip_white_list_[i] = NoPort
                 THEN InitMark ELSE ip_white_list_[i]
           /\ \A i \in IPs :
                 accept'[i][TcpPort] = IF i \in Hosts THEN 1 ELSE 0
<1>1. PICK dropped \in {TRUE}, opened \in [Hosts -> {TRUE}] :
         /\ drop' = IF dropped THEN drop \cup {TcpPort} ELSE drop
         /\ accept' =
              [ip \in IPs |-> [accept[ip] EXCEPT ![TcpPort] =
                  (IF dropped THEN 0 ELSE @)
                      + (IF ip \in Hosts /\ opened[ip] THEN 1 ELSE 0)]]
  BY DEF InitWhiteList
<1>2. \A i \in IPs : ip_white_list_'[i] =
         IF i \in Hosts /\ ip_white_list_[i] = NoPort
         THEN InitMark ELSE ip_white_list_[i]
  BY DEF InitWhiteList
<1>3. ASSUME NEW i \in IPs
      PROVE  accept'[i][TcpPort] = IF i \in Hosts THEN 1 ELSE 0
  <2>1. accept[i] \in [Ports -> 0..MaxRules]
    BY DEF FWTypeOK
  <2>2. i \in Hosts => opened[i] = TRUE
    BY <1>1
  <2>. QED  BY <1>1, <2>1, <2>2
<1>. QED  BY <1>1, <1>2, <1>3

\* When the commands work, adding puts one rule on the chain, and an entry in
\* the map if there is none.
LEMMA AddEffect ==
    ASSUME FWTypeOK, CmdOutcomes = {TRUE}, NEW ip \in IPs,
           OpWhiteListAdd(ip, TcpPort)
    PROVE  /\ drop' = drop
           /\ \A i \in IPs : ip_white_list_'[i] =
                 IF i = ip /\ ip_white_list_[i] = NoPort
                 THEN TcpPort ELSE ip_white_list_[i]
           /\ \A i \in IPs : accept'[i][TcpPort] =
                 IF i = ip /\ ~ HasRule(ip, TcpPort)
                 THEN accept[i][TcpPort] + 1 ELSE accept[i][TcpPort]
<1>1. CASE HasRule(ip, TcpPort)
  BY <1>1 DEF OpWhiteListAdd, fwvars, HasRule
<1>2. CASE ~ HasRule(ip, TcpPort)
  <2>1. accept' = [accept EXCEPT ![ip][TcpPort] = @ + 1]
    BY <1>2 DEF OpWhiteListAdd, UnbanUser
  <2>2. \A i \in IPs : accept'[i][TcpPort] =
           IF i = ip THEN accept[i][TcpPort] + 1 ELSE accept[i][TcpPort]
    BY <2>1 DEF FWTypeOK
  <2>. QED  BY <1>2, <2>2 DEF OpWhiteListAdd, FWTypeOK
<1>. QED  BY <1>1, <1>2

\* When the commands work, removing takes the entry away, and one rule if there
\* is one.
LEMMA DelEffect ==
    ASSUME FWTypeOK, CmdOutcomes = {TRUE}, NEW ip \in IPs,
           OpWhiteListDel(ip, TcpPort)
    PROVE  /\ drop' = drop
           /\ \A i \in IPs : ip_white_list_'[i] =
                 IF i = ip /\ HasRule(ip, TcpPort) THEN NoPort
                 ELSE ip_white_list_[i]
           /\ \A i \in IPs : accept'[i][TcpPort] =
                 IF i = ip /\ HasRule(ip, TcpPort) /\ accept[i][TcpPort] > 0
                 THEN accept[i][TcpPort] - 1 ELSE accept[i][TcpPort]
<1>1. CASE ~ HasRule(ip, TcpPort)
  BY <1>1 DEF OpWhiteListDel, fwvars
<1>2. CASE HasRule(ip, TcpPort)
  <2>1. accept' = IF accept[ip][TcpPort] > 0
                  THEN [accept EXCEPT ![ip][TcpPort] = @ - 1] ELSE accept
    BY <1>2 DEF OpWhiteListDel, BanUser
  <2>2. \A i \in IPs : accept'[i][TcpPort] =
           IF i = ip /\ accept[i][TcpPort] > 0
           THEN accept[i][TcpPort] - 1 ELSE accept[i][TcpPort]
    BY <2>1 DEF FWTypeOK
  <2>. QED  BY <1>2, <2>2 DEF OpWhiteListDel, FWTypeOK
<1>. QED  BY <1>1, <1>2

-----------------------------------------------------------------------------
\* Type correctness.  That the vouchers are finitely many makes their number
\* one that can be counted.

TypeInv == TypeOK /\ IsFiniteSet(vouchers)

\* A registration and a list of applications stay within the destinations.
LEMMA RegisterType ==
    ASSUME TypeOK, NEW app_list \in SUBSET Apps, NEW from_ip \in IPs,
           ConFuncRegisterApp(app_list, from_ip)
    PROVE  /\ app_map_' \in [IPs -> SUBSET Apps]
           /\ permission_map_' \in [Accounts -> SUBSET Destinations]
<1>1. {from_ip} \X app_list \in SUBSET Destinations
  BY DEF Destinations
<1>2. \A acc \in Accounts :
         permission_map_[acc] \cup ({from_ip} \X app_list) \in SUBSET Destinations
  BY <1>1 DEF TypeOK
<1>. QED  BY <1>2 DEF TypeOK, ConFuncRegisterApp

\* Every step of the controller keeps the types.
LEMMA StepType == TypeInv /\ [Next]_vars => TypeInv'
<1>. SUFFICES ASSUME TypeInv, [Next]_vars PROVE TypeInv'
  OBVIOUS
<1>. USE DEF TypeInv, TypeOK, memory
<1>1. CASE Start
  BY <1>1, FlushType DEF Start
<1>2. CASE Run
  BY <1>2, PresetType DEF Run
<1>3. CASE Stop
  <2>1. restarts' \in 0..MaxRestarts
    BY <1>3 DEF Stop
  <2>2. FWTypeOK'
    BY <1>3 DEF Stop, FWTypeOK, EmptyList, Entries
  <2>. QED  BY <1>3, <2>1, <2>2 DEF Stop, NoApps, NoPermissions
<1>4. ASSUME NEW v \in vouchers, NEW from_ip \in IPs, ConFuncUdpRecv(v, from_ip)
      PROVE  TypeInv'
  <2>1. v.digest \in Digests
    BY DEF Vouchers
  <2>2. md5_map_' \in SUBSET Digests
    BY <1>4, <2>1 DEF ConFuncUdpRecv
  <2>3. \/ UNCHANGED fwvars
        \/ OpWhiteListAdd(from_ip, TcpPort)
        \/ OpWhiteListDel(from_ip, TcpPort)
    BY <1>4 DEF ConFuncUdpRecv
  <2>4. FWTypeOK'
    BY <2>3, KnockType DEF fwvars, FWTypeOK
  <2>. QED  BY <1>4, <2>2, <2>4 DEF ConFuncUdpRecv
<1>5. ASSUME NEW acc \in Accounts, NEW from_ip \in IPs,
             ConFuncGetAccess(acc, from_ip)
      PROVE  TypeInv'
  <2>1. {[ip |-> from_ip, acc |-> acc, dst |-> dst] : dst \in AccessList(acc)}
           \in SUBSET Tickets
    BY DEF Tickets, AccessList
  <2>2. tickets' \in SUBSET Tickets
    BY <1>5, <2>1 DEF ConFuncGetAccess
  <2>. QED  BY <1>5, <2>2 DEF ConFuncGetAccess, fwvars, FWTypeOK
<1>6. ASSUME NEW app_list \in SUBSET Apps, NEW from_ip \in IPs,
             ConFuncRegisterApp(app_list, from_ip)
      PROVE  TypeInv'
  BY <1>6, RegisterType DEF ConFuncRegisterApp, fwvars, FWTypeOK
<1>7. ASSUME NEW acc \in Accounts, NEW correct \in BOOLEAN,
             NEW digest \in Digests, MakeVoucher(acc, correct, digest)
      PROVE  TypeInv'
  <2>1. Cardinality(vouchers) \in Nat
    BY FS_CardinalityType
  <2>2. Cardinality(vouchers) + 1 \in 1..MaxVouchers
    BY <1>7, <2>1 DEF MakeVoucher
  <2>3. vouchers' \in SUBSET Vouchers
    BY <1>7, <2>2 DEF MakeVoucher, Vouchers
  <2>4. IsFiniteSet(vouchers')
    BY <1>7, FS_AddElement DEF MakeVoucher
  <2>. QED  BY <1>7, <2>3, <2>4 DEF MakeVoucher, fwvars, FWTypeOK
<1>8. CASE UNCHANGED vars
  BY <1>8 DEF vars, fwvars, FWTypeOK
<1>. QED
  BY <1>1, <1>2, <1>3, <1>4, <1>5, <1>6, <1>7, <1>8 DEF Next, NoKnock

\* The type invariant with the finiteness of the vouchers is inductive.
LEMMA TypeInductive == Spec => []TypeInv
<1>1. Init => TypeInv
  BY InitType, FS_EmptySet
  DEF Init, TypeInv, TypeOK, NoApps, NoPermissions
<1>. QED  BY <1>1, StepType, PTL DEF Spec

\* Every reachable state of the controller is well typed.
THEOREM TypeCorrect == Spec => []TypeOK
<1>1. TypeInv => TypeOK
  BY DEF TypeInv
<1>. QED  BY <1>1, TypeInductive, PTL

-----------------------------------------------------------------------------
\* Permissions, tickets and knocks, whichever commands fail.

\* Only a registration and a stop change what is registered and permitted.
LEMMA StepPermissions ==
    ASSUME TypeOK, UsersMayUseApps, [Next]_vars PROVE UsersMayUseApps'
<1>1. ASSUME NEW app_list \in SUBSET Apps, NEW from_ip \in IPs,
             ConFuncRegisterApp(app_list, from_ip)
      PROVE  UsersMayUseApps'
  <2>1. /\ app_map_' = [app_map_ EXCEPT ![from_ip] = app_list]
        /\ \A acc \in Accounts : permission_map_'[acc] =
              IF acc \in Users
              THEN permission_map_[acc] \cup ({from_ip} \X app_list)
              ELSE permission_map_[acc]
    BY <1>1 DEF ConFuncRegisterApp
  <2>2. ASSUME NEW gw \in IPs, NEW app \in app_map_'[gw], NEW acc \in Users
        PROVE  <<gw, app>> \in permission_map_'[acc]
    <3>1. CASE gw = from_ip
      BY <2>1, <3>1 DEF TypeOK, Accounts
    <3>2. CASE gw # from_ip
      BY <2>1, <3>2 DEF TypeOK, Accounts, UsersMayUseApps
    <3>. QED  BY <3>1, <3>2
  <2>3. \A acc \in Strangers : permission_map_'[acc] = {}
    BY <2>1 DEF UsersMayUseApps, Accounts
  <2>. QED  BY <2>2, <2>3 DEF UsersMayUseApps
<1>2. CASE Stop
  BY <1>2 DEF Stop, UsersMayUseApps, NoApps, NoPermissions, Accounts
<1>3. CASE UNCHANGED <<app_map_, permission_map_>>
  BY <1>3 DEF UsersMayUseApps
<1>4. \/ \E app_list \in SUBSET Apps, from_ip \in IPs :
            ConFuncRegisterApp(app_list, from_ip)
      \/ Stop
      \/ UNCHANGED <<app_map_, permission_map_>>
  BY DEF Next, NoKnock, Start, Run, ConFuncUdpRecv, ConFuncGetAccess,
         MakeVoucher, memory, vars
<1>. QED  BY <1>1, <1>2, <1>3, <1>4

\* Every user may reach every registered application and no stranger anything,
\* whatever lists are registered, from wherever, and however often it stops.
THEOREM PermissionsFollowApps == Spec => []UsersMayUseApps
<1>1. Init => UsersMayUseApps
  BY DEF Init, UsersMayUseApps, NoApps, NoPermissions, Accounts
<1>2. TypeOK /\ UsersMayUseApps /\ [Next]_vars => UsersMayUseApps'
  BY StepPermissions
<1>. QED  BY <1>1, <1>2, TypeCorrect, PTL DEF Spec

\* A step that hands out tickets is a request that the chain has let through.
LEMMA StepTickets ==
    ASSUME UsersMayUseApps, [Next]_vars, NEW t \in tickets' \ tickets
    PROVE  /\ Reaches(t.ip, TcpPort)
           /\ t.acc \in Users
           /\ t.dst[2] \in app_map_[t.dst[1]]
<1>1. PICK acc \in Accounts, from_ip \in IPs : ConFuncGetAccess(acc, from_ip)
  BY DEF Next, NoKnock, Start, Run, Stop, ConFuncUdpRecv, ConFuncRegisterApp,
         MakeVoucher, vars
<1>2. PICK dst \in AccessList(acc) :
         t = [ip |-> from_ip, acc |-> acc, dst |-> dst]
  BY <1>1 DEF ConFuncGetAccess
<1>3. acc \in Users
  BY <1>2 DEF AccessList, CheckUserPermission_Allowed, UsersMayUseApps, Accounts
<1>. QED  BY <1>1, <1>2, <1>3 DEF ConFuncGetAccess, AccessList

\* Tickets go to addresses that were let in, for users and for applications that
\* are registered at that moment, although permissions are never withdrawn.
THEOREM TicketsAreCurrent == Spec => TicketsForRegisteredApps
<1>1. UsersMayUseApps /\ [Next]_vars =>
         [\A t \in tickets' \ tickets :
             /\ Reaches(t.ip, TcpPort)
             /\ t.acc \in Users
             /\ t.dst[2] \in app_map_[t.dst[1]]]_vars
  BY StepTickets
<1>. QED
  BY <1>1, PermissionsFollowApps, PTL DEF Spec, TicketsForRegisteredApps

\* While the controller runs, who reaches it changes by a knock only.
LEMMA StepKnock ==
    ASSUME TypeOK, [Next]_vars, Running, Running', NEW ip \in IPs,
           Reaches(ip, TcpPort)' # Reaches(ip, TcpPort)
    PROVE  \E v \in vouchers :
              IF Reaches(ip, TcpPort)
              THEN ~ Verified(v)
              ELSE Verified(v) /\ v.digest \in md5_map_' \ md5_map_
<1>1. PICK v \in vouchers, from_ip \in IPs : ConFuncUdpRecv(v, from_ip)
  <2>1. ~ UNCHANGED fwvars
    BY DEF fwvars, Reaches
  <2>. QED
    BY <2>1 DEF Next, NoKnock, Start, Run, Stop, ConFuncGetAccess,
                ConFuncRegisterApp, MakeVoucher, Running, vars
<1>2. accept[ip][TcpPort] \in 0..MaxRules
  BY DEF TypeOK, FWTypeOK
<1>3. CASE OpWhiteListDel(from_ip, TcpPort) /\ ~ Verified(v)
  <2>1. drop' = drop
    BY <1>3 DEF OpWhiteListDel, fwvars
  <2>2. accept'[ip][TcpPort] > 0 => accept[ip][TcpPort] > 0
    BY <1>2, <1>3 DEF OpWhiteListDel, BanUser, TypeOK, FWTypeOK, fwvars
  <2>. QED  BY <1>3, <2>1, <2>2 DEF Reaches
<1>4. CASE /\ OpWhiteListAdd(from_ip, TcpPort) /\ Verified(v)
           /\ v.digest \in md5_map_' \ md5_map_
  <2>1. drop' = drop
    BY <1>4 DEF OpWhiteListAdd, fwvars
  <2>2. accept[ip][TcpPort] > 0 => accept'[ip][TcpPort] > 0
    BY <1>2, <1>4 DEF OpWhiteListAdd, UnbanUser, TypeOK, FWTypeOK, fwvars
  <2>. QED  BY <1>4, <2>1, <2>2 DEF Reaches
<1>5. CASE UNCHANGED fwvars
  BY <1>5 DEF fwvars, Reaches
<1>. QED  BY <1>1, <1>3, <1>4, <1>5 DEF ConFuncUdpRecv

\* Whichever commands fail, a running controller opens to an address by a fresh
\* voucher of a permitted user only, and closes by a failed check only.
THEOREM OnlyKnocksDecide == Spec => KnockDecides
<1>1. TypeOK /\ [Next]_vars =>
         [Running /\ Running' => \A ip \in IPs :
             Reaches(ip, TcpPort)' # Reaches(ip, TcpPort) =>
                \E v \in vouchers :
                   IF Reaches(ip, TcpPort)
                   THEN ~ Verified(v)
                   ELSE Verified(v) /\ v.digest \in md5_map_' \ md5_map_]_vars
  BY StepKnock
<1>. QED  BY <1>1, TypeCorrect, PTL DEF Spec, KnockDecides

-----------------------------------------------------------------------------
\* Repetitions.

DigestsDiffer == \A v, w \in vouchers : v.digest = w.digest => v = w

\* Each digest the controller remembers is that of a voucher other than v.
OthersDigests(v) ==
    \A d \in md5_map_ : \E w \in vouchers : w # v /\ w.digest = d

\* A step in which v does not arrive keeps it so.
LEMMA StepDigests ==
    ASSUME NEW v, OthersDigests(v), [Next]_vars,
           [\A from_ip \in IPs : ~ ConFuncUdpRecv(v, from_ip)]_vars
    PROVE  OthersDigests(v)'
<1>1. CASE UNCHANGED vars
  BY <1>1 DEF OthersDigests, vars, memory
<1>2. ASSUME NEW w \in vouchers, NEW from_ip \in IPs,
             ConFuncUdpRecv(w, from_ip), ~ UNCHANGED vars
      PROVE  OthersDigests(v)'
  <2>1. w # v
    BY <1>2
  <2>2. vouchers' = vouchers /\ md5_map_' \subseteq md5_map_ \cup {w.digest}
    BY <1>2 DEF ConFuncUdpRecv
  <2>. QED  BY <2>1, <2>2 DEF OthersDigests
<1>3. CASE NoKnock
  <2>1. vouchers \subseteq vouchers' /\ md5_map_' \subseteq md5_map_
    BY <1>3
    DEF NoKnock, Start, Run, Stop, ConFuncGetAccess, ConFuncRegisterApp,
        MakeVoucher, memory
  <2>. QED  BY <2>1 DEF OthersDigests
<1>. QED  BY <1>1, <1>2, <1>3 DEF Next

\* If the digests of different vouchers differ, as the comment at the voucher's
\* random number expects, a voucher that has not arrived yet is never taken for
\* a repetition, so the width of the digest is the only reason for that.
THEOREM NewVouchersAreNew ==
    ASSUME NEW v
    PROVE  Spec /\ []DigestsDiffer
              /\ [][\A from_ip \in IPs : ~ ConFuncUdpRecv(v, from_ip)]_vars
           => [](v \in vouchers => v.digest \notin md5_map_)
<1>1. Init => OthersDigests(v)
  BY DEF Init, OthersDigests
<1>2. OthersDigests(v) /\ [Next]_vars
         /\ [\A from_ip \in IPs : ~ ConFuncUdpRecv(v, from_ip)]_vars
      => OthersDigests(v)'
  BY StepDigests
<1>3. DigestsDiffer /\ OthersDigests(v) =>
         (v \in vouchers => v.digest \notin md5_map_)
  BY DEF DigestsDiffer, OthersDigests
<1>. QED  BY <1>1, <1>2, <1>3, PTL DEF Spec

-----------------------------------------------------------------------------
\* When the commands work: the inductive invariant.  The port is guarded, the
\* gateway's preset entry is never one that a knock could remove, map and chain
\* agree on the clients, and both a client's entry and a permission are there
\* only after the gateway has registered.

Guarded ==
    Running =>
        /\ TcpPort \in drop
        /\ ip_white_list_[GatewayIP] = InitMark
        /\ accept[GatewayIP][TcpPort] > 0
        /\ \A c \in Clients :
              accept[c][TcpPort] = IF HasRule(c, TcpPort) THEN 1 ELSE 0

Entered ==
    /\ phase = "flushed" => \A ip \in IPs : ip_white_list_[ip] = NoPort
    /\ Running => \A c \in Clients : ip_white_list_[c] \in {NoPort, TcpPort}

Registered ==
    /\ \A acc \in Accounts :
          permission_map_[acc] # {} => app_map_[GatewayIP] # {}
    /\ \A c \in Clients : Running /\ HasRule(c, TcpPort) =>
          md5_map_ # {} /\ app_map_[GatewayIP] # {}

IInv == TypeInv /\ Guarded /\ Entered /\ Registered

\* The initial state satisfies the invariant.
LEMMA InitInvariant == Init => IInv
  BY InitType, FS_EmptySet
  DEF Init, IInv, TypeInv, TypeOK, NoApps, NoPermissions, Guarded, Entered,
      Registered, Running

\* Every step keeps the invariant.
LEMMA StepInvariant ==
    ASSUME CmdOutcomes = {TRUE}, IInv, [Next]_vars
    PROVE  IInv'
<1>. USE DEF Guarded, Entered, Registered, Running, HasRule, Hosts, Clients,
             memory
<1>0. TypeInv' /\ TypeInv /\ TypeOK /\ FWTypeOK
  BY StepType DEF IInv, TypeInv, TypeOK
<1>1. CASE Start
  BY <1>0, <1>1 DEF IInv, Start, Flush, EmptyList
<1>2. CASE Run
  <2>1. /\ drop' = drop \cup {TcpPort}
        /\ \A i \in IPs : ip_white_list_'[i] =
              IF i \in Hosts /\ ip_white_list_[i] = NoPort
              THEN InitMark ELSE ip_white_list_[i]
        /\ \A i \in IPs :
              accept'[i][TcpPort] = IF i \in Hosts THEN 1 ELSE 0
    BY <1>0, <1>2, PresetEffect DEF Run
  <2>. QED  BY <1>0, <1>2, <2>1 DEF IInv, Run
<1>3. CASE Stop
  BY <1>0, <1>3 DEF IInv, Stop, NoPermissions
<1>4. ASSUME NEW v \in vouchers, NEW from_ip \in IPs, ConFuncUdpRecv(v, from_ip)
      PROVE  IInv'
  <2>1. /\ phase = "running" /\ phase' = phase
        /\ app_map_' = app_map_ /\ permission_map_' = permission_map_
    BY <1>4 DEF ConFuncUdpRecv
  <2>2. CASE OpWhiteListDel(from_ip, TcpPort) /\ UNCHANGED md5_map_
    <3>1. /\ drop' = drop
          /\ \A i \in IPs : ip_white_list_'[i] =
                IF i = from_ip /\ HasRule(from_ip, TcpPort) THEN NoPort
                ELSE ip_white_list_[i]
          /\ \A i \in IPs : accept'[i][TcpPort] =
                IF /\ i = from_ip
                   /\ HasRule(from_ip, TcpPort) /\ accept[i][TcpPort] > 0
                THEN accept[i][TcpPort] - 1 ELSE accept[i][TcpPort]
      BY <1>0, <2>2, DelEffect
    <3>2. Guarded'
      BY <2>1, <3>1 DEF IInv
    <3>3. Entered' /\ Registered'
      BY <2>1, <2>2, <3>1 DEF IInv
    <3>. QED  BY <1>0, <3>2, <3>3 DEF IInv
  <2>3. CASE UNCHANGED <<fwvars, md5_map_>>
    BY <1>0, <2>1, <2>3 DEF IInv, fwvars
  <2>4. CASE /\ OpWhiteListAdd(from_ip, TcpPort) /\ Verified(v)
             /\ md5_map_' = md5_map_ \cup {v.digest}
    <3>1. /\ drop' = drop
          /\ \A i \in IPs : ip_white_list_'[i] =
                IF i = from_ip /\ ip_white_list_[i] = NoPort
                THEN TcpPort ELSE ip_white_list_[i]
          /\ \A i \in IPs : accept'[i][TcpPort] =
                IF i = from_ip /\ ~ HasRule(from_ip, TcpPort)
                THEN accept[i][TcpPort] + 1 ELSE accept[i][TcpPort]
      BY <1>0, <2>4, AddEffect
    <3>2. accept[GatewayIP][TcpPort] \in Nat
      BY <1>0 DEF FWTypeOK
    <3>3. Guarded'
      BY <2>1, <3>1, <3>2 DEF IInv
    <3>4. app_map_[GatewayIP] # {}
      BY <2>4 DEF IInv, Verified, CheckUserPasswd, CheckUserPermission_Exists,
                  Accounts
    <3>5. Entered' /\ Registered'
      BY <2>1, <2>4, <3>1, <3>4 DEF IInv
    <3>. QED  BY <1>0, <3>3, <3>5 DEF IInv
  <2>. QED  BY <1>4, <2>2, <2>3, <2>4 DEF ConFuncUdpRecv
<1>5. ASSUME NEW app_list \in SUBSET Apps, NEW from_ip \in IPs,
             ConFuncRegisterApp(app_list, from_ip)
      PROVE  IInv'
  <2>1. app_map_'[GatewayIP] # {}
    <3>1. CASE from_ip = GatewayIP
      BY <1>0, <1>5, <3>1 DEF ConFuncRegisterApp, TypeOK
    <3>2. CASE from_ip # GatewayIP
      BY <1>0, <1>5, <3>2 DEF IInv, ConFuncRegisterApp, Reaches, TypeOK
    <3>. QED  BY <3>1, <3>2
  <2>. QED  BY <1>0, <1>5, <2>1 DEF IInv, ConFuncRegisterApp, fwvars
<1>6. CASE UNCHANGED <<fwvars, phase, memory>>
  BY <1>0, <1>6 DEF IInv, fwvars
<1>7. \/ UNCHANGED <<fwvars, phase, memory>>
      \/ Start \/ Run \/ Stop
      \/ \E v \in vouchers, from_ip \in IPs : ConFuncUdpRecv(v, from_ip)
      \/ \E app_list \in SUBSET Apps, from_ip \in IPs :
            ConFuncRegisterApp(app_list, from_ip)
  BY DEF Next, NoKnock, ConFuncGetAccess, MakeVoucher, vars
<1>. QED  BY <1>1, <1>2, <1>3, <1>4, <1>5, <1>6, <1>7

\* IInv is an invariant of the controller when the commands work.
LEMMA Invariance == ASSUME CmdOutcomes = {TRUE} PROVE Spec => []IInv
<1>1. IInv /\ [Next]_vars => IInv'
  BY StepInvariant
<1>. QED  BY <1>1, InitInvariant, PTL DEF Spec

\* With commands that work, no knock, failed or forged, costs the gateway its
\* way to the running controller.
THEOREM GatewayIsHeard ==
    ASSUME CmdOutcomes = {TRUE} PROVE Spec => []GatewayAlwaysHeard
<1>1. IInv => GatewayAlwaysHeard
  BY DEF IInv, Guarded, GatewayAlwaysHeard, Reaches
<1>. QED  BY <1>1, Invariance, PTL

\* With commands that work, a client reaches the running controller only when
\* a voucher was let through and the gateway has registered applications.
THEOREM NobodyInForNothing ==
    ASSUME CmdOutcomes = {TRUE} PROVE Spec => []OpenMeansApps
<1>1. IInv => OpenMeansApps
  BY DEF IInv, Guarded, Registered, OpenMeansApps, Reaches
<1>. QED  BY <1>1, Invariance, PTL
=============================================================================
