--------------------------- MODULE IPWhiteListProofs ---------------------------
(***************************************************************************)
(* Proofs that the counting view of Firewall is right, for any number of    *)
(* addresses and ports, chains of any length, and commands that may fail:   *)
(* the first rule that matches decides as the counts say, and an operation  *)
(* on the chain is the operation on the counts.                             *)
(***************************************************************************)
EXTENDS IPWhiteList, SequenceTheorems, FiniteSetTheorems, WellFoundedInduction, TLAPS

\* The chain holds the rules that the white list makes, and no other.
Shaped(c) ==
    \A i \in DOMAIN c :
        \/ \E ip \in IPs, port \in Ports : c[i] = ACCEPT(ip, port)
        \/ \E port \in Ports : c[i] = DROP(port)

\* What Counted counts, for any chain.
Places(c, ip, port) ==
    {i \in DOMAIN c : /\ c[i] = ACCEPT(ip, port)
                      /\ \A j \in 1..i : c[j] # DROP(port)}

Count(c, ip, port) == Cardinality(Places(c, ip, port))

Inv == TypeOK /\ Shaped(chain)

USE IPWhiteListAssumption

-----------------------------------------------------------------------------
\* Numbers, sets and sequences.

LEMMA LeastElement ==
    ASSUME NEW S \in SUBSET Nat, S # {}
    PROVE  \E m \in S : \A i \in S : m <= i
<1>1. PICK m \in S : \A i \in S : <<i, m>> \notin OpToRel(<, Nat)
  BY NatLessThanWellFounded, WFMin
<1>2. \A i \in S : ~ i < m
  BY <1>1 DEF OpToRel
<1>. QED  BY <1>2

\* Sets between which each element has one partner are of the same size.
LEMMA SameSize ==
    ASSUME NEW S, NEW T, IsFiniteSet(S), NEW f \in [S -> T],
           \A x, y \in S : f[x] = f[y] => x = y,
           \A t \in T : \E x \in S : f[x] = t
    PROVE  IsFiniteSet(T) /\ Cardinality(T) = Cardinality(S)
<1>1. f \in Bijection(S, T)
  BY DEF Bijection, Injection, Surjection, IsInjective
<1>2. ExistsBijection(S, T)
  BY <1>1 DEF ExistsBijection
<1>. QED  BY <1>2, FS_Bijection

\* The elements of a concatenation.
LEMMA Concatenated ==
    ASSUME NEW S, NEW a \in Seq(S), NEW b \in Seq(S)
    PROVE  /\ a \o b \in Seq(S)
           /\ Len(a \o b) = Len(a) + Len(b)
           /\ \A i \in 1..Len(a) : (a \o b)[i] = a[i]
           /\ \A i \in 1..Len(b) : (a \o b)[Len(a) + i] = b[i]
  OBVIOUS

\* Rules that differ in a name are different rules.
LEMMA RulesDiffer ==
    /\ \A ip, port, other : ACCEPT(ip, port) # DROP(other)
    /\ \A ip1, port1, ip2, port2 :
          ACCEPT(ip1, port1) = ACCEPT(ip2, port2) => ip1 = ip2 /\ port1 = port2
    /\ \A port1, port2 : DROP(port1) = DROP(port2) => port1 = port2
<1>1. \A ip, port, other : ACCEPT(ip, port) # DROP(other)
  <2>. SUFFICES ASSUME NEW ip, NEW port, NEW other PROVE ACCEPT(ip, port) # DROP(other)
    OBVIOUS
  <2>1. ACCEPT(ip, port).target = "ACCEPT" /\ DROP(other).target = "DROP"
    BY DEF ACCEPT, DROP
  <2>. QED  BY <2>1
<1>2. ASSUME NEW ip1, NEW port1, NEW ip2, NEW port2,
             ACCEPT(ip1, port1) = ACCEPT(ip2, port2)
      PROVE  ip1 = ip2 /\ port1 = port2
  <2>1. ACCEPT(ip1, port1).src = {ip1} /\ ACCEPT(ip1, port1).dport = port1
    BY DEF ACCEPT
  <2>2. ACCEPT(ip2, port2).src = {ip2} /\ ACCEPT(ip2, port2).dport = port2
    BY DEF ACCEPT
  <2>. QED  BY <1>2, <2>1, <2>2
<1>3. ASSUME NEW port1, NEW port2, DROP(port1) = DROP(port2)
      PROVE  port1 = port2
  <2>1. DROP(port1).dport = port1 /\ DROP(port2).dport = port2
    BY DEF DROP
  <2>. QED  BY <1>3, <2>1
<1>. QED  BY <1>1, <1>2, <1>3

\* The rules the white list makes are rules.
LEMMA RulesAreRules ==
    /\ \A ip \in IPs, port \in Ports : ACCEPT(ip, port) \in Rules
    /\ \A port \in Ports : DROP(port) \in Rules
  BY DEF ACCEPT, DROP, Rules

\* There are never more counted rules than rules.
LEMMA CountBounded ==
    ASSUME NEW c \in Seq(Rules), NEW ip, NEW port
    PROVE  /\ IsFiniteSet(Places(c, ip, port))
           /\ Count(c, ip, port) \in Nat
           /\ Count(c, ip, port) <= Len(c)
           /\ Count(c, ip, port) > 0 <=> Places(c, ip, port) # {}
<1>1. Places(c, ip, port) \in SUBSET (1..Len(c)) /\ Len(c) \in Nat
  BY DEF Places
<1>2. IsFiniteSet(1..Len(c)) /\ Cardinality(1..Len(c)) = Len(c)
  <2>1. 1 \in Int /\ Len(c) \in Int
    BY <1>1
  <2>2. /\ IsFiniteSet(1..Len(c))
        /\ Cardinality(1..Len(c)) = IF 1 > Len(c) THEN 0 ELSE Len(c) - 1 + 1
    BY <2>1, FS_Interval, Zenon
  <2>. QED  BY <1>1, <2>2
<1>3. /\ IsFiniteSet(Places(c, ip, port))
      /\ Count(c, ip, port) <= Len(c)
  BY <1>1, <1>2, FS_Subset DEF Count
<1>4. Count(c, ip, port) \in Nat
  BY <1>3, FS_CardinalityType DEF Count
<1>5. Count(c, ip, port) = 0 <=> Places(c, ip, port) = {}
  BY <1>3, FS_EmptySet DEF Count
<1>. QED  BY <1>3, <1>4, <1>5

\* ACCEPT rules put above a chain are counted with the chain's.
LEMMA CountAbove ==
    ASSUME NEW a \in Seq(Rules), NEW c \in Seq(Rules), NEW ip, NEW port,
           \A i \in 1..Len(a) : a[i] # DROP(port)
    PROVE  Count(a \o c, ip, port) = Count(a, ip, port) + Count(c, ip, port)
<1>. DEFINE n == Len(a)
            S == Places(a, ip, port)
            T == Places(c, ip, port)
            U == {i \in n + 1..n + Len(c) : i - n \in T}
<1>1. /\ n \in Nat /\ Len(c) \in Nat
      /\ DOMAIN a = 1..n /\ DOMAIN c = 1..Len(c)
      /\ DOMAIN (a \o c) = 1..n + Len(c)
      /\ \A i \in 1..n : (a \o c)[i] = a[i]
      /\ \A i \in n + 1..n + Len(c) : (a \o c)[i] = c[i - n]
  BY Concatenated
<1>. HIDE DEF n
<1>2. \A i \in 1..n + Len(c) : i \in Places(a \o c, ip, port) <=> i \in S \cup U
  <2>. SUFFICES ASSUME NEW i \in 1..n + Len(c)
                PROVE  i \in Places(a \o c, ip, port) <=> i \in S \cup U
    OBVIOUS
  <2>1. CASE i \in 1..n
    <3>1. i \notin U /\ (a \o c)[i] = a[i] /\ \A j \in 1..i : (a \o c)[j] = a[j]
      BY <1>1, <2>1
    <3>. QED  BY <1>1, <2>1, <3>1 DEF Places
  <2>2. CASE i \in n + 1..n + Len(c)
    <3>1. i \notin S /\ i - n \in 1..Len(c) /\ (a \o c)[i] = c[i - n]
      BY <1>1, <2>2 DEF Places
    <3>2. (\A j \in 1..i : (a \o c)[j] # DROP(port))
             <=> \A j \in 1..i - n : c[j] # DROP(port)
      <4>1. ASSUME \A j \in 1..i : (a \o c)[j] # DROP(port), NEW j \in 1..i - n
            PROVE  c[j] # DROP(port)
        <5>1. j + n \in 1..i /\ (a \o c)[j + n] = c[j]
          BY <1>1, <2>2
        <5>. QED  BY <4>1, <5>1
      <4>2. ASSUME \A j \in 1..i - n : c[j] # DROP(port), NEW j \in 1..i
            PROVE  (a \o c)[j] # DROP(port)
        <5>1. CASE j \in 1..n
          BY <1>1, <5>1 DEF n
        <5>2. CASE j \notin 1..n
          <6>1. j - n \in 1..i - n /\ (a \o c)[j] = c[j - n]
            BY <1>1, <2>2, <5>2
          <6>. QED  BY <4>2, <6>1
        <5>. QED  BY <5>1, <5>2
      <4>. QED  BY <4>1, <4>2
    <3>. QED  BY <1>1, <2>2, <3>1, <3>2 DEF Places
  <2>. QED  BY <1>1, <2>1, <2>2
<1>3. Places(a \o c, ip, port) = S \cup U
  <2>1. Places(a \o c, ip, port) \subseteq 1..n + Len(c)
    BY <1>1 DEF Places
  <2>2. S \cup U \subseteq 1..n + Len(c)
    BY <1>1 DEF Places
  <2>. HIDE DEF S, U
  <2>. QED  BY <1>2, <2>1, <2>2
<1>4. IsFiniteSet(U) /\ Cardinality(U) = Cardinality(T)
  <2>. DEFINE f == [i \in T |-> i + n]
  <2>1. T \subseteq 1..Len(c)
    BY <1>1 DEF Places
  <2>2. f \in [T -> U] /\ \A x, y \in T : f[x] = f[y] => x = y
    BY <1>1, <2>1
  <2>3. \A u \in U : \E x \in T : f[x] = u
    <3>. SUFFICES ASSUME NEW u \in U PROVE f[u - n] = u /\ u - n \in T
      OBVIOUS
    <3>. QED  BY <1>1
  <2>4. IsFiniteSet(T)
    BY CountBounded
  <2>. HIDE DEF f, T, U
  <2>. QED  BY <2>2, <2>3, <2>4, SameSize
<1>5. IsFiniteSet(S) /\ IsFiniteSet(T)
  BY CountBounded
<1>6. S \cap U = {}
  BY <1>1 DEF Places
<1>7. Cardinality(S \cup U) = Cardinality(S) + Cardinality(U)
  <2>. HIDE DEF S, U, T
  <2>1. Cardinality(S \cup U) = Cardinality(S) + Cardinality(U) - Cardinality(S \cap U)
    BY <1>4, <1>5, FS_Union
  <2>2. Cardinality(S \cap U) = 0
    BY <1>6, FS_EmptySet
  <2>3. Cardinality(S) \in Nat /\ Cardinality(U) \in Nat
    BY <1>4, <1>5, FS_CardinalityType
  <2>. QED  BY <2>1, <2>2, <2>3
<1>. QED  BY <1>3, <1>4, <1>7 DEF Count

\* A DROP at the head of a chain hides what was counted for its port.
LEMMA CountUnderDrop ==
    ASSUME NEW c \in Seq(Rules), NEW ip, NEW port
    PROVE  Count(<<DROP(port)>> \o c, ip, port) = 0
<1>. DEFINE d == <<DROP(port)>> \o c
<1>1. d[1] = DROP(port) /\ DOMAIN d = 1..Len(c) + 1 /\ Len(c) \in Nat
  OBVIOUS
<1>2. Places(d, ip, port) = {}
  <2>. HIDE DEF d
  <2>1. \A i \in DOMAIN d : 1 \in 1..i
    BY <1>1
  <2>. QED  BY <1>1, <2>1 DEF Places
<1>. QED  BY <1>2, FS_EmptySet DEF Count

\* One ACCEPT counts once, for its address and port.
LEMMA CountOne ==
    ASSUME NEW ip0 \in IPs, NEW port0 \in Ports, NEW ip, NEW port
    PROVE  Count(<<ACCEPT(ip0, port0)>>, ip, port)
              = IF ip = ip0 /\ port = port0 THEN 1 ELSE 0
<1>. DEFINE a == <<ACCEPT(ip0, port0)>>
<1>1. DOMAIN a = {1} /\ a[1] = ACCEPT(ip0, port0)
  OBVIOUS
<1>. HIDE DEF a
<1>2. CASE ip = ip0 /\ port = port0
  <2>1. Places(a, ip, port) = {1}
    <3>1. \A i \in {1} : \A j \in 1..i : a[j] # DROP(port)
      BY <1>1, RulesDiffer
    <3>. QED  BY <1>1, <1>2, <3>1 DEF Places
  <2>. QED  BY <1>2, <2>1, FS_Singleton DEF Count, a
<1>3. CASE ~ (ip = ip0 /\ port = port0)
  <2>1. Places(a, ip, port) = {}
    BY <1>1, <1>3, RulesDiffer DEF Places
  <2>. QED  BY <1>3, <2>1, FS_EmptySet DEF Count, a
<1>. QED  BY <1>2, <1>3

\* The rules InitWhiteList puts in count once for each address they open.
LEMMA CountOpened ==
    ASSUME NEW opened \in SUBSET IPs, NEW added \in SetToSeqs(opened),
           NEW port0 \in Ports
    PROVE  /\ Opened(added, port0) \in Seq(Rules)
           /\ Shaped(Opened(added, port0))
           /\ \A port : \A i \in 1..Len(Opened(added, port0)) :
                 Opened(added, port0)[i] # DROP(port)
           /\ \A ip, port : Count(Opened(added, port0), ip, port)
                 = IF ip \in opened /\ port = port0 THEN 1 ELSE 0
<1>. DEFINE n == Cardinality(opened)
            a == Opened(added, port0)
<1>1. IsFiniteSet(opened) /\ n \in Nat
  BY FS_Subset, FS_CardinalityType
<1>2. added \in [1..n -> opened] /\ \A i, j \in 1..n : i # j => added[i] # added[j]
  BY DEF SetToSeqs
<1>. HIDE DEF n
<1>3. \A ip \in opened : \E i \in 1..n : added[i] = ip
  <2>1. added \in Injection(1..n, opened)
    BY <1>2 DEF Injection, IsInjective
  <2>2. IsFiniteSet(1..n) /\ Cardinality(1..n) = n
    <3>1. 1 \in Int /\ n \in Int
      BY <1>1
    <3>2. /\ IsFiniteSet(1..n)
          /\ Cardinality(1..n) = IF 1 > n THEN 0 ELSE n - 1 + 1
      BY <3>1, FS_Interval, Zenon
    <3>. QED  BY <1>1, <3>2
  <2>3. added \in Surjection(1..n, opened)
    BY <1>1, <2>1, <2>2, FS_Injection DEF n
  <2>. QED  BY <2>3 DEF Surjection
<1>4. /\ a \in Seq(Rules) /\ Len(a) = n /\ DOMAIN a = 1..n
      /\ \A i \in 1..n : a[i] = ACCEPT(added[i], port0) /\ added[i] \in IPs
  <2>1. DOMAIN added = 1..n /\ \A i \in 1..n : added[i] \in IPs
    BY <1>2
  <2>2. a = [i \in 1..n |-> ACCEPT(added[i], port0)]
    BY <2>1 DEF Opened
  <2>3. \A i \in 1..n : ACCEPT(added[i], port0) \in Rules
    BY <2>1, RulesAreRules
  <2>. QED  BY <1>1, <2>1, <2>2, <2>3
<1>. HIDE DEF a
<1>5. Shaped(a)
  BY <1>4 DEF Shaped
<1>6. \A port : \A i \in 1..n : a[i] # DROP(port)
  BY <1>4, RulesDiffer
<1>7. ASSUME NEW ip, NEW port
      PROVE  Count(a, ip, port) = IF ip \in opened /\ port = port0 THEN 1 ELSE 0
  <2>1. \A i \in 1..n : i \in Places(a, ip, port) <=> added[i] = ip /\ port = port0
    <3>1. \A i \in 1..n : 1..i \subseteq 1..n
      BY <1>1
    <3>. QED  BY <1>4, <1>6, <3>1, RulesDiffer DEF Places
  <2>2. Places(a, ip, port) \subseteq 1..n
    BY <1>4 DEF Places
  <2>3. CASE ip \in opened /\ port = port0
    <3>1. PICK k \in 1..n : added[k] = ip
      BY <1>3, <2>3
    <3>2. Places(a, ip, port) = {k}
      BY <1>2, <2>1, <2>2, <2>3, <3>1
    <3>. QED  BY <2>3, <3>2, FS_Singleton DEF Count
  <2>4. CASE ~ (ip \in opened /\ port = port0)
    <3>1. Places(a, ip, port) = {}
      BY <1>2, <2>1, <2>2, <2>4
    <3>. QED  BY <2>4, <3>1, FS_EmptySet DEF Count
  <2>. QED  BY <2>3, <2>4
<1>. QED  BY <1>4, <1>5, <1>6, <1>7 DEF a

\* A sequence from which the k-th element was taken.
LEMMA WithoutKth ==
    ASSUME NEW S, NEW s \in Seq(S), NEW k \in 1..Len(s)
    PROVE  /\ RemoveAt(s, k) \in Seq(S)
           /\ Len(RemoveAt(s, k)) = Len(s) - 1
           /\ \A i \in 1..Len(s) - 1 :
                 RemoveAt(s, k)[i] = IF i < k THEN s[i] ELSE s[i + 1]
<1>. DEFINE a == SubSeq(s, 1, k - 1)
            b == SubSeq(s, k + 1, Len(s))
<1>1. /\ a \in Seq(S) /\ Len(a) = k - 1
      /\ \A i \in 1..k - 1 : a[i] = s[i]
  OBVIOUS
<1>2. /\ b \in Seq(S) /\ Len(b) = Len(s) - k
      /\ \A i \in 1..Len(s) - k : b[i] = s[k + i]
  OBVIOUS
<1>3. RemoveAt(s, k) = a \o b
  BY DEF RemoveAt
<1>4. Len(s) \in Nat /\ k \in Nat
  OBVIOUS
<1>. HIDE DEF a, b
<1>5. a \o b \in Seq(S) /\ Len(a \o b) = Len(s) - 1
  <2>1. a \o b \in Seq(S) /\ Len(a \o b) = Len(a) + Len(b)
    BY <1>1, <1>2, Concatenated, Zenon
  <2>. QED  BY <1>1, <1>2, <1>4, <2>1
<1>6. ASSUME NEW i \in 1..Len(s) - 1
      PROVE  (a \o b)[i] = IF i < k THEN s[i] ELSE s[i + 1]
  <2>1. CASE i < k
    <3>1. i \in 1..Len(a) /\ i \in 1..k - 1
      BY <1>1, <1>4, <2>1
    <3>. QED  BY <1>1, <1>2, <2>1, <3>1, Concatenated
  <2>2. CASE ~ i < k
    <3>1. i - Len(a) \in 1..Len(b) /\ i = Len(a) + (i - Len(a))
      BY <1>1, <1>2, <1>4, <2>2
    <3>2. (a \o b)[Len(a) + (i - Len(a))] = b[i - Len(a)]
      <4>1. \A j \in 1..Len(b) : (a \o b)[Len(a) + j] = b[j]
        BY <1>1, <1>2, Concatenated
      <4>. QED  BY <3>1, <4>1, Zenon
    <3>3. k + (i - Len(a)) = i + 1 /\ i - Len(a) \in 1..Len(s) - k
      BY <1>1, <1>2, <1>4, <3>1
    <3>. QED  BY <1>2, <2>2, <3>1, <3>2, <3>3
  <2>. QED  BY <2>1, <2>2
<1>. QED  BY <1>3, <1>5, <1>6

\* Taking out the first ACCEPT of ip0 and port0 takes one from its count, if it
\* counted, and leaves every other count as it was.
LEMMA CountWithout ==
    ASSUME NEW c \in Seq(Rules), NEW k \in 1..Len(c),
           NEW ip0 \in IPs, NEW port0 \in Ports, c[k] = ACCEPT(ip0, port0),
           \A j \in 1..Len(c) : c[j] = ACCEPT(ip0, port0) => k <= j,
           NEW ip, NEW port
    PROVE  Count(RemoveAt(c, k), ip, port)
              = IF ip = ip0 /\ port = port0 /\ Count(c, ip, port) > 0
                THEN Count(c, ip, port) - 1 ELSE Count(c, ip, port)
<1>. DEFINE d == RemoveAt(c, k)
            P == Places(c, ip, port)
            S == P \ {k}
            T == Places(d, ip, port)
            f == [i \in S |-> IF i < k THEN i ELSE i - 1]
<1>1. /\ d \in Seq(Rules) /\ Len(d) = Len(c) - 1
      /\ \A i \in 1..Len(c) - 1 : d[i] = IF i < k THEN c[i] ELSE c[i + 1]
  BY WithoutKth
<1>2. Len(c) \in Nat /\ k \in Nat /\ DOMAIN c = 1..Len(c) /\ DOMAIN d = 1..Len(c) - 1
  BY <1>1
<1>. HIDE DEF d
<1>3. c[k] # DROP(port)
  BY RulesDiffer
<1>4. P \subseteq 1..Len(c) /\ T \subseteq 1..Len(c) - 1
  BY <1>2 DEF Places
<1>5. ASSUME NEW i \in S PROVE f[i] \in T
  <2>1. i \in 1..Len(c) /\ i # k /\ c[i] = ACCEPT(ip, port)
        /\ \A j \in 1..i : c[j] # DROP(port)
    BY <1>2 DEF Places
  <2>2. CASE i < k
    <3>1. f[i] = i /\ i \in 1..Len(c) - 1
      BY <1>2, <2>1, <2>2
    <3>2. ASSUME NEW j \in 1..i PROVE d[j] = c[j]
      BY <1>1, <1>2, <2>1, <2>2
    <3>3. i \in 1..i
      BY <2>1
    <3>. QED  BY <1>2, <2>1, <3>1, <3>2, <3>3 DEF Places
  <2>3. CASE ~ i < k
    <3>1. f[i] = i - 1 /\ i - 1 \in 1..Len(c) - 1 /\ d[i - 1] = c[i]
      BY <1>1, <1>2, <2>1, <2>3
    <3>2. ASSUME NEW j \in 1..i - 1 PROVE d[j] # DROP(port)
      <4>1. j \in 1..i /\ j + 1 \in 1..i /\ j \in 1..Len(c) - 1
        BY <1>2, <2>1
      <4>. QED  BY <1>1, <2>1, <4>1
    <3>. QED  BY <1>2, <2>1, <3>1, <3>2 DEF Places
  <2>. QED  BY <2>2, <2>3
<1>6. \A x, y \in S : f[x] = f[y] => x = y
  BY <1>2, <1>4
<1>7. ASSUME NEW t \in T PROVE \E x \in S : f[x] = t
  <2>1. t \in 1..Len(c) - 1 /\ d[t] = ACCEPT(ip, port)
        /\ \A j \in 1..t : d[j] # DROP(port)
    BY <1>2 DEF Places
  <2>2. CASE t < k
    <3>1. \A j \in 1..t : c[j] = d[j]
      BY <1>1, <1>2, <2>1, <2>2
    <3>2. t \in 1..t /\ t \in 1..Len(c)
      BY <1>2, <2>1
    <3>3. t \in S
      BY <1>2, <2>1, <2>2, <3>1, <3>2 DEF Places
    <3>. QED  BY <2>2, <3>3
  <2>3. CASE ~ t < k
    <3>1. t + 1 \in 1..Len(c) /\ c[t + 1] = d[t] /\ t + 1 # k
      BY <1>1, <1>2, <2>1, <2>3
    <3>2. ASSUME NEW j \in 1..t + 1 PROVE c[j] # DROP(port)
      <4>1. CASE j < k
        <5>1. j \in 1..t /\ j \in 1..Len(c) - 1 /\ d[j] = c[j]
          BY <1>1, <1>2, <2>1, <2>3, <4>1
        <5>. QED  BY <2>1, <5>1
      <4>2. CASE j = k
        BY <1>3, <4>2
      <4>3. CASE j > k
        <5>1. j - 1 \in 1..t /\ j - 1 \in 1..Len(c) - 1 /\ ~ j - 1 < k
              /\ (j - 1) + 1 = j
          BY <1>2, <2>1, <4>3
        <5>2. d[j - 1] = c[j]
          BY <1>1, <5>1
        <5>. QED  BY <2>1, <5>1, <5>2
      <4>. QED  BY <1>2, <4>1, <4>2, <4>3
    <3>3. t + 1 \in S
      BY <1>2, <2>1, <3>1, <3>2 DEF Places
    <3>4. f[t + 1] = t
      BY <1>2, <2>1, <2>3, <3>3
    <3>. QED  BY <3>3, <3>4
  <2>. QED  BY <1>2, <2>1, <2>2, <2>3
<1>8. f \in [S -> T]
  BY <1>5
<1>9. IsFiniteSet(P) /\ Cardinality(P) \in Nat /\ (Cardinality(P) > 0 <=> P # {})
  BY CountBounded DEF Count
<1>10. Cardinality(T) = IF k \in P THEN Cardinality(P) - 1 ELSE Cardinality(P)
  <2>1. /\ IsFiniteSet(S)
        /\ Cardinality(S) = IF k \in P THEN Cardinality(P) - 1 ELSE Cardinality(P)
    <3>. HIDE DEF P
    <3>. QED  BY <1>9, FS_RemoveElement
  <2>. HIDE DEF f, S, T, P
  <2>2. Cardinality(T) = Cardinality(S)
    <3>1. IsFiniteSet(S)
      BY <2>1
    <3>2. \A t \in T : \E x \in S : f[x] = t
      BY <1>7, Zenon
    <3>3. f \in Bijection(S, T)
      BY <1>6, <1>8, <3>2 DEF Bijection, Injection, Surjection, IsInjective
    <3>4. ExistsBijection(S, T)
      BY <3>3, Zenon DEF ExistsBijection
    <3>. QED  BY <3>1, <3>4, FS_Bijection, Zenon
  <2>. QED  BY <2>1, <2>2
<1>11. k \in P <=> ip = ip0 /\ port = port0 /\ P # {}
  <2>1. ASSUME k \in P PROVE ip = ip0 /\ port = port0
    <3>1. c[k] = ACCEPT(ip, port)
      BY <2>1 DEF Places
    <3>2. ACCEPT(ip, port) = ACCEPT(ip0, port0)
      BY <3>1
    <3>3. ACCEPT(ip, port) = ACCEPT(ip0, port0) => ip = ip0 /\ port = port0
      <4>. HIDE DEF P
      <4>. QED  BY RulesDiffer, Zenon
    <3>. QED  BY <3>2, <3>3, Zenon
  <2>2. ASSUME ip = ip0, port = port0, NEW p \in P PROVE k \in P
    <3>1. p \in 1..Len(c) /\ k <= p /\ \A j \in 1..p : c[j] # DROP(port)
      BY <1>2, <2>2 DEF Places
    <3>2. \A j \in 1..k : j \in 1..p
      BY <1>2, <3>1
    <3>. QED  BY <1>2, <2>2, <3>1, <3>2 DEF Places
  <2>. QED  BY <2>1, <2>2
<1>. QED  BY <1>9, <1>10, <1>11 DEF Count, d

\* -D takes out the first rule that is equal, or none.
LEMMA DeleteTheFirst ==
    ASSUME NEW c \in Seq(Rules), NEW rule
    PROVE  \/ /\ \A i \in 1..Len(c) : c[i] # rule
              /\ Delete(c, rule) = c
           \/ \E k \in 1..Len(c) : /\ c[k] = rule
                                   /\ \A j \in 1..Len(c) : c[j] = rule => k <= j
                                   /\ Delete(c, rule) = RemoveAt(c, k)
<1>. DEFINE I == {i \in 1..Len(c) : c[i] = rule}
<1>1. CASE I = {}
  <2>1. ~ \E i \in 1..Len(c) : c[i] = rule
    BY <1>1
  <2>. QED  BY <2>1 DEF Delete, RemoveFirst
<1>2. CASE I # {}
  <2>1. \E i \in 1..Len(c) : c[i] = rule
    BY <1>2
  <2>2. I \in SUBSET Nat
    OBVIOUS
  <2>3. PICK m \in I : \A i \in I : m <= i
    <3>. HIDE DEF I
    <3>. QED  BY <1>2, <2>2, LeastElement
  <2>4. Min(I) \in I /\ \A i \in I : Min(I) <= i
    <3>. HIDE DEF I
    <3>. QED  BY <2>3 DEF Min
  <2>5. SelectInSeq(c, LAMBDA v : v = rule) = Min(I)
    BY <1>2 DEF SelectInSeq
  <2>6. Delete(c, rule) = RemoveAt(c, Min(I))
    BY <2>1, <2>5 DEF Delete, RemoveFirst
  <2>. QED  BY <2>4, <2>6
<1>. QED  BY <1>1, <1>2

\* A chain holds a rule.
Has(c, rule) == \E i \in DOMAIN c : c[i] = rule

\* What a chain holds after -D of an ACCEPT.
LEMMA Deleted ==
    ASSUME NEW c \in Seq(Rules), Shaped(c), NEW ip0 \in IPs, NEW port0 \in Ports
    PROVE  /\ Delete(c, ACCEPT(ip0, port0)) \in Seq(Rules)
           /\ Shaped(Delete(c, ACCEPT(ip0, port0)))
           /\ \A port : Has(Delete(c, ACCEPT(ip0, port0)), DROP(port)) <=> Has(c, DROP(port))
           /\ \A ip, port :
                 Count(Delete(c, ACCEPT(ip0, port0)), ip, port)
                    = IF ip = ip0 /\ port = port0 /\ Count(c, ip, port) > 0
                      THEN Count(c, ip, port) - 1 ELSE Count(c, ip, port)
<1>. DEFINE rule == ACCEPT(ip0, port0)
            d == Delete(c, rule)
<1>1. CASE d = c /\ \A i \in 1..Len(c) : c[i] # rule
  <2>1. ASSUME NEW ip, NEW port, ip = ip0, port = port0
        PROVE  ~ Count(c, ip, port) > 0
    <3>1. Places(c, ip, port) = {}
      BY <1>1, <2>1 DEF Places
    <3>. QED  BY <3>1, CountBounded
  <2>. QED  BY <1>1, <2>1
<1>2. ASSUME NEW k \in 1..Len(c), c[k] = rule, d = RemoveAt(c, k),
             \A j \in 1..Len(c) : c[j] = rule => k <= j
      PROVE  /\ d \in Seq(Rules)
             /\ Shaped(d)
             /\ \A port : Has(d, DROP(port)) <=> Has(c, DROP(port))
             /\ \A ip, port :
                   Count(d, ip, port)
                      = IF ip = ip0 /\ port = port0 /\ Count(c, ip, port) > 0
                        THEN Count(c, ip, port) - 1 ELSE Count(c, ip, port)
  <2>1. /\ d \in Seq(Rules) /\ Len(d) = Len(c) - 1
        /\ \A i \in 1..Len(c) - 1 : d[i] = IF i < k THEN c[i] ELSE c[i + 1]
    <3>1. /\ RemoveAt(c, k) \in Seq(Rules) /\ Len(RemoveAt(c, k)) = Len(c) - 1
          /\ \A i \in 1..Len(c) - 1 :
                RemoveAt(c, k)[i] = IF i < k THEN c[i] ELSE c[i + 1]
      BY WithoutKth, Zenon
    <3>. HIDE DEF d
    <3>. QED  BY <1>2, <3>1
  <2>2. /\ Len(c) \in Nat /\ k \in Nat
        /\ DOMAIN c = 1..Len(c) /\ DOMAIN d = 1..Len(c) - 1
    BY <2>1
  <2>3. ASSUME NEW ip, NEW port
        PROVE  Count(d, ip, port)
                  = IF ip = ip0 /\ port = port0 /\ Count(c, ip, port) > 0
                    THEN Count(c, ip, port) - 1 ELSE Count(c, ip, port)
    BY <1>2, CountWithout
  <2>. HIDE DEF d
  <2>4. \A i \in DOMAIN d : \E j \in DOMAIN c : d[i] = c[j]
    <3>. SUFFICES ASSUME NEW i \in DOMAIN d PROVE \E j \in DOMAIN c : d[i] = c[j]
      OBVIOUS
    <3>1. i \in DOMAIN c /\ i + 1 \in DOMAIN c
      BY <2>2
    <3>. QED  BY <2>1, <2>2, <3>1
  <2>5. \A j \in DOMAIN c : j # k => \E i \in DOMAIN d : d[i] = c[j]
    <3>. SUFFICES ASSUME NEW j \in DOMAIN c, j # k PROVE \E i \in DOMAIN d : d[i] = c[j]
      OBVIOUS
    <3>1. CASE j < k
      <4>1. j \in DOMAIN d /\ d[j] = c[j]
        BY <2>1, <2>2, <3>1
      <4>. QED  BY <4>1
    <3>2. CASE ~ j < k
      <4>1. j - 1 \in DOMAIN d /\ ~ (j - 1 < k) /\ (j - 1) + 1 = j
        BY <2>2, <3>2
      <4>2. d[j - 1] = c[j]
        BY <2>1, <2>2, <4>1
      <4>. QED  BY <4>1, <4>2
    <3>. QED  BY <3>1, <3>2
  <2>6. Shaped(d)
    BY <2>4 DEF Shaped
  <2>7. \A port : Has(d, DROP(port)) <=> Has(c, DROP(port))
    <3>1. \A port : c[k] # DROP(port)
      BY <1>2, RulesDiffer
    <3>. QED  BY <2>4, <2>5, <3>1 DEF Has
  <2>. QED  BY <2>1, <2>3, <2>6, <2>7
<1>3. \/ d = c /\ \A i \in 1..Len(c) : c[i] # rule
      \/ \E k \in 1..Len(c) : /\ c[k] = rule
                              /\ \A j \in 1..Len(c) : c[j] = rule => k <= j
                              /\ d = RemoveAt(c, k)
  BY DeleteTheFirst
<1>. HIDE DEF d
<1>4. /\ d \in Seq(Rules)
      /\ Shaped(d)
      /\ \A port : Has(d, DROP(port)) <=> Has(c, DROP(port))
      /\ \A ip, port :
            Count(d, ip, port)
               = IF ip = ip0 /\ port = port0 /\ Count(c, ip, port) > 0
                 THEN Count(c, ip, port) - 1 ELSE Count(c, ip, port)
  BY <1>1, <1>2, <1>3 DEF d
<1>. QED  BY <1>4 DEF d

\* What a chain holds after rules were put above it.
LEMMA PutAbove ==
    ASSUME NEW a \in Seq(Rules), Shaped(a), NEW c \in Seq(Rules), Shaped(c)
    PROVE  /\ a \o c \in Seq(Rules)
           /\ Shaped(a \o c)
           /\ \A rule : Has(a \o c, rule) <=> Has(a, rule) \/ Has(c, rule)
<1>1. /\ a \o c \in Seq(Rules)
      /\ Len(a) \in Nat /\ Len(c) \in Nat
      /\ DOMAIN a = 1..Len(a) /\ DOMAIN c = 1..Len(c)
      /\ DOMAIN (a \o c) = 1..Len(a) + Len(c)
      /\ \A i \in 1..Len(a) : (a \o c)[i] = a[i]
      /\ \A i \in 1..Len(c) : (a \o c)[Len(a) + i] = c[i]
  <2>1. /\ a \o c \in Seq(Rules) /\ Len(a \o c) = Len(a) + Len(c)
        /\ \A i \in 1..Len(a) : (a \o c)[i] = a[i]
        /\ \A i \in 1..Len(c) : (a \o c)[Len(a) + i] = c[i]
    OBVIOUS
  <2>. QED  BY <2>1
<1>2. ASSUME NEW i \in DOMAIN (a \o c)
      PROVE  \/ \E j \in DOMAIN a : (a \o c)[i] = a[j]
             \/ \E j \in DOMAIN c : (a \o c)[i] = c[j]
  <2>1. CASE i <= Len(a)
    <3>1. i \in DOMAIN a
      BY <1>1, <2>1
    <3>. QED  BY <1>1, <3>1
  <2>2. CASE ~ i <= Len(a)
    <3>1. i - Len(a) \in DOMAIN c /\ Len(a) + (i - Len(a)) = i
      BY <1>1, <2>2
    <3>2. (a \o c)[Len(a) + (i - Len(a))] = c[i - Len(a)]
      BY <1>1, <3>1
    <3>. QED  BY <3>1, <3>2
  <2>. QED  BY <2>1, <2>2
<1>3. Shaped(a \o c)
  BY <1>2 DEF Shaped
<1>4. \A j \in DOMAIN a : \E i \in DOMAIN (a \o c) : (a \o c)[i] = a[j]
  <2>. SUFFICES ASSUME NEW j \in DOMAIN a PROVE j \in DOMAIN (a \o c) /\ (a \o c)[j] = a[j]
    OBVIOUS
  <2>. QED  BY <1>1
<1>5. \A j \in DOMAIN c : \E i \in DOMAIN (a \o c) : (a \o c)[i] = c[j]
  <2>. SUFFICES ASSUME NEW j \in DOMAIN c
                PROVE  Len(a) + j \in DOMAIN (a \o c) /\ (a \o c)[Len(a) + j] = c[j]
    OBVIOUS
  <2>. QED  BY <1>1
<1>. QED  BY <1>1, <1>2, <1>3, <1>4, <1>5 DEF Has

\* Only two rules of such a chain match a packet: its address's ACCEPT, and the
\* DROP of its port.
LEMMA OnlyTwoMatch ==
    ASSUME Inv, NEW ip \in IPs, NEW port \in Ports
    PROVE  \A i \in DOMAIN chain :
              i \in Matching(ip, port)
                 <=> chain[i] = ACCEPT(ip, port) \/ chain[i] = DROP(port)
<1>. SUFFICES ASSUME NEW i \in DOMAIN chain
              PROVE  (chain[i].dport = port /\ ip \in chain[i].src)
                        <=> chain[i] = ACCEPT(ip, port) \/ chain[i] = DROP(port)
  BY DEF Matching
<1>1. CASE \E ip1 \in IPs, port1 \in Ports : chain[i] = ACCEPT(ip1, port1)
  <2>1. PICK ip1 \in IPs, port1 \in Ports : chain[i] = ACCEPT(ip1, port1)
    BY <1>1
  <2>2. chain[i].dport = port1 /\ chain[i].src = {ip1}
    BY <2>1 DEF ACCEPT
  <2>. QED  BY <2>1, <2>2, RulesDiffer
<1>2. CASE \E port1 \in Ports : chain[i] = DROP(port1)
  <2>1. PICK port1 \in Ports : chain[i] = DROP(port1)
    BY <1>2
  <2>2. chain[i].dport = port1 /\ chain[i].src = IPs
    BY <2>1 DEF DROP
  <2>. QED  BY <2>1, <2>2, RulesDiffer
<1>. QED  BY <1>1, <1>2 DEF Inv, Shaped

\* The counting view of the chain, before and after a step.
LEMMA View ==
    /\ Counted = [ip \in IPs |-> [port \in Ports |-> Count(chain, ip, port)]]
    /\ Dropped = {port \in Ports : Has(chain, DROP(port))}
    /\ Counted' = [ip \in IPs |-> [port \in Ports |-> Count(chain', ip, port)]]
    /\ Dropped' = {port \in Ports : Has(chain', DROP(port))}
  BY DEF Counted, Dropped, AboveDrop, Count, Places, Has

\* The first rule that matches is an ACCEPT exactly when one is counted, if the
\* port has a DROP at all.
LEMMA InvFirstMatch == Inv => FirstMatchCounts
<1>. SUFFICES ASSUME Inv, NEW ip \in IPs, NEW port \in Ports
              PROVE  Accepted(ip, port) <=> FW!Reaches(ip, port)
  BY DEF FirstMatchCounts
<1>. DEFINE M == Matching(ip, port)
<1>1. chain \in Seq(Rules) /\ DOMAIN chain = 1..Len(chain) /\ Len(chain) \in Nat
  BY DEF Inv, TypeOK
<1>2. /\ M \subseteq DOMAIN chain
      /\ \A i \in DOMAIN chain :
            i \in M <=> chain[i] = ACCEPT(ip, port) \/ chain[i] = DROP(port)
  BY OnlyTwoMatch DEF Matching
<1>3. FW!Reaches(ip, port)
         <=> ~ Has(chain, DROP(port)) \/ Places(chain, ip, port) # {}
  <2>1. FW!Reaches(ip, port) <=> port \notin Dropped \/ Counted[ip][port] > 0
    BY DEF FW!Reaches
  <2>2. Counted[ip][port] = Count(chain, ip, port)
    BY View
  <2>3. Count(chain, ip, port) > 0 <=> Places(chain, ip, port) # {}
    BY <1>1, CountBounded
  <2>4. port \in Dropped <=> Has(chain, DROP(port))
    BY View
  <2>. QED  BY <2>1, <2>2, <2>3, <2>4
<1>4. Accepted(ip, port)
         <=> \A i \in M : (\A j \in M : i <= j) => chain[i].target = "ACCEPT"
  BY DEF Accepted
<1>. HIDE DEF M
<1>5. /\ ACCEPT(ip, port).target = "ACCEPT"
      /\ DROP(port).target = "DROP"
  BY DEF ACCEPT, DROP
<1>6. ASSUME ~ Has(chain, DROP(port)) PROVE Accepted(ip, port)
  BY <1>2, <1>4, <1>5, <1>6 DEF Has
<1>7. ASSUME NEW p \in Places(chain, ip, port) PROVE Accepted(ip, port)
  <2>1. p \in DOMAIN chain /\ p \in M /\ \A j \in 1..p : chain[j] # DROP(port)
    BY <1>2 DEF Places
  <2>2. ASSUME NEW i \in M, \A j \in M : i <= j PROVE chain[i] = ACCEPT(ip, port)
    <3>1. i \in 1..p
      BY <1>1, <1>2, <2>1, <2>2
    <3>. QED  BY <1>2, <2>1, <3>1
  <2>. QED  BY <1>4, <1>5, <2>2
<1>8. ASSUME Accepted(ip, port), Has(chain, DROP(port))
      PROVE  Places(chain, ip, port) # {}
  <2>1. M \in SUBSET Nat /\ M # {}
    BY <1>1, <1>2, <1>8 DEF Has
  <2>2. PICK m \in M : \A i \in M : m <= i
    BY <2>1, LeastElement
  <2>3. chain[m].target = "ACCEPT" /\ m \in DOMAIN chain
    BY <1>2, <1>4, <1>8, <2>2
  <2>4. chain[m] = ACCEPT(ip, port)
    BY <1>2, <1>5, <2>2, <2>3
  <2>5. ASSUME NEW j \in 1..m PROVE chain[j] # DROP(port)
    <3>1. j \in DOMAIN chain /\ (j \in M => m <= j) /\ m \in 1..Len(chain)
      BY <1>1, <2>2, <2>3
    <3>2. CASE j = m
      BY <2>4, <3>2, RulesDiffer
    <3>3. CASE j # m
      BY <1>2, <3>1, <3>3
    <3>. QED  BY <3>2, <3>3
  <2>. QED  BY <2>3, <2>4, <2>5 DEF Places
<1>. QED  BY <1>3, <1>6, <1>7, <1>8

\* A chain of one DROP, as InitWhiteList puts it above the others.
LEMMA CountBelow ==
    ASSUME NEW c \in Seq(Rules), Shaped(c), NEW port0 \in Ports
    PROVE  /\ Insert(c, DROP(port0)) \in Seq(Rules)
           /\ Shaped(Insert(c, DROP(port0)))
           /\ \A port : Has(Insert(c, DROP(port0)), DROP(port))
                           <=> port = port0 \/ Has(c, DROP(port))
           /\ \A ip, port : Count(Insert(c, DROP(port0)), ip, port)
                 = IF port = port0 THEN 0 ELSE Count(c, ip, port)
<1>. DEFINE a == <<DROP(port0)>>
<1>1. /\ a \in Seq(Rules) /\ Len(a) = 1
      /\ DOMAIN a = {1} /\ a[1] = DROP(port0)
  BY RulesAreRules
<1>2. Shaped(a)
  BY <1>1 DEF Shaped
<1>3. Insert(c, DROP(port0)) = a \o c
  BY DEF Insert
<1>4. ASSUME NEW ip, NEW port
      PROVE  Count(a \o c, ip, port) = IF port = port0 THEN 0 ELSE Count(c, ip, port)
  <2>1. CASE port = port0
    BY <2>1, CountUnderDrop
  <2>2. CASE port # port0
    <3>1. \A i \in 1..Len(a) : a[i] # DROP(port)
      BY <1>1, <2>2, RulesDiffer
    <3>. HIDE DEF a
    <3>2. Count(a \o c, ip, port) = Count(a, ip, port) + Count(c, ip, port)
      BY <1>1, <3>1, CountAbove
    <3>3. Places(a, ip, port) = {}
      BY <1>1, RulesDiffer DEF Places
    <3>4. Count(a, ip, port) = 0
      BY <3>3, FS_EmptySet DEF Count
    <3>5. Count(c, ip, port) \in Nat
      BY CountBounded
    <3>. QED  BY <2>2, <3>2, <3>4, <3>5
  <2>. QED  BY <2>1, <2>2
<1>. HIDE DEF a
<1>5. a \o c \in Seq(Rules) /\ Shaped(a \o c)
      /\ \A rule : Has(a \o c, rule) <=> Has(a, rule) \/ Has(c, rule)
  BY <1>1, <1>2, PutAbove
<1>6. \A port : Has(a, DROP(port)) <=> port = port0
  BY <1>1, RulesDiffer DEF Has
<1>. QED  BY <1>3, <1>4, <1>5, <1>6

\* One ACCEPT put at the head of a chain.
LEMMA CountInserted ==
    ASSUME NEW c \in Seq(Rules), Shaped(c), NEW ip0 \in IPs, NEW port0 \in Ports
    PROVE  /\ Insert(c, ACCEPT(ip0, port0)) \in Seq(Rules)
           /\ Shaped(Insert(c, ACCEPT(ip0, port0)))
           /\ \A port : Has(Insert(c, ACCEPT(ip0, port0)), DROP(port))
                           <=> Has(c, DROP(port))
           /\ \A ip, port : Count(Insert(c, ACCEPT(ip0, port0)), ip, port)
                 = IF ip = ip0 /\ port = port0 THEN Count(c, ip, port) + 1
                   ELSE Count(c, ip, port)
<1>. DEFINE a == <<ACCEPT(ip0, port0)>>
<1>1. /\ a \in Seq(Rules) /\ Len(a) = 1
      /\ DOMAIN a = {1} /\ a[1] = ACCEPT(ip0, port0)
  BY RulesAreRules
<1>2. Shaped(a)
  BY <1>1 DEF Shaped
<1>3. Insert(c, ACCEPT(ip0, port0)) = a \o c
  BY DEF Insert
<1>4. \A ip, port : Count(a, ip, port) = IF ip = ip0 /\ port = port0 THEN 1 ELSE 0
  BY CountOne
<1>. HIDE DEF a
<1>5. ASSUME NEW ip, NEW port
      PROVE  Count(a \o c, ip, port) = IF ip = ip0 /\ port = port0
                                       THEN Count(c, ip, port) + 1
                                       ELSE Count(c, ip, port)
  <2>1. \A i \in 1..Len(a) : a[i] # DROP(port)
    BY <1>1, RulesDiffer
  <2>2. Count(a \o c, ip, port) = Count(a, ip, port) + Count(c, ip, port)
    BY <1>1, <2>1, CountAbove
  <2>3. Count(c, ip, port) \in Nat
    BY CountBounded
  <2>. QED  BY <1>4, <2>2, <2>3
<1>6. a \o c \in Seq(Rules) /\ Shaped(a \o c)
      /\ \A rule : Has(a \o c, rule) <=> Has(a, rule) \/ Has(c, rule)
  BY <1>1, <1>2, PutAbove
<1>7. \A port : ~ Has(a, DROP(port))
  BY <1>1, RulesDiffer DEF Has
<1>. QED  BY <1>3, <1>5, <1>6, <1>7

-----------------------------------------------------------------------------
\* The steps: each keeps the invariant and is an operation of the counting view.

\* A flushed chain holds nothing and counts nothing.
LEMMA EmptyChain ==
    /\ <<>> \in Seq(Rules) /\ Shaped(<<>>)
    /\ \A rule : ~ Has(<<>>, rule)
    /\ \A ip, port : Count(<<>>, ip, port) = 0
<1>1. \A ip, port : Places(<<>>, ip, port) = {}
  BY DEF Places
<1>. QED  BY <1>1, FS_EmptySet DEF Shaped, Has, Count

\* A new process finds what the counting view starts from.
LEMMA InitHolds == Init => Inv /\ FW!FWInit
<1>. SUFFICES ASSUME Init PROVE Inv /\ FW!FWInit
  OBVIOUS
<1>1. chain = <<>> /\ ip_white_list_ = [ip \in IPs |-> NoPort]
  BY DEF Init
<1>2. Inv
  BY <1>1, EmptyChain DEF Inv, TypeOK
<1>3. \A ip, port : Count(chain, ip, port) = 0
  BY <1>1, EmptyChain
<1>4. \A rule : ~ Has(chain, rule)
  BY <1>1, EmptyChain
<1>5. Counted = FW!NoRules
  BY <1>3, View DEF FW!NoRules
<1>6. Dropped = {}
  BY <1>4, View
<1>7. ip_white_list_ = FW!EmptyList
  BY <1>1 DEF FW!EmptyList
<1>. QED  BY <1>2, <1>5, <1>6, <1>7 DEF FW!FWInit

\* The flush, or, when the command fails, a new process over the old rules.
LEMMA IptablesToolsStep ==
    ASSUME Inv, IptablesTools
    PROVE  Inv' /\ FW!Flush
<1>1. PICK ok \in CmdOutcomes : chain' = IF ok THEN <<>> ELSE chain
  BY DEF IptablesTools
<1>2. Inv'
  <2>1. chain' \in Seq(Rules) /\ Shaped(chain')
    BY <1>1, EmptyChain DEF Inv, TypeOK
  <2>2. ip_white_list_' \in [IPs -> Ports \cup {InitMark, NoPort}]
    BY DEF IptablesTools
  <2>. QED  BY <2>1, <2>2 DEF Inv, TypeOK
<1>3. ip_white_list_' = FW!EmptyList
  BY DEF IptablesTools, FW!EmptyList
<1>4. CASE ok
  <2>1. \A ip, port : Count(chain', ip, port) = 0
    BY <1>1, <1>4, EmptyChain
  <2>2. \A rule : ~ Has(chain', rule)
    BY <1>1, <1>4, EmptyChain
  <2>3. Counted' = FW!NoRules
    BY <2>1, View DEF FW!NoRules
  <2>4. Dropped' = {}
    BY <2>2, View
  <2>. QED  BY <1>2, <1>3, <1>4, <2>3, <2>4 DEF FW!Flush
<1>5. CASE ~ ok
  <2>1. chain' = chain
    BY <1>1, <1>5
  <2>2. Counted' = Counted /\ Dropped' = Dropped
    BY <2>1, View
  <2>. QED  BY <1>2, <1>3, <1>5, <2>2 DEF FW!Flush
<1>. QED  BY <1>4, <1>5

\* A list of addresses: which commands worked is what the view calls opened.
LEMMA InitWhiteListStep ==
    ASSUME Inv, NEW whitelist \in SUBSET IPs, NEW port0 \in Ports,
           InitWhiteList(whitelist, port0)
    PROVE  Inv' /\ FW!InitWhiteList(whitelist, port0)
<1>1. PICK dropped \in CmdOutcomes, opened \in SUBSET whitelist :
         /\ FALSE \in CmdOutcomes \/ opened = whitelist
         /\ \E added \in SetToSeqs(opened) :
               chain' = Opened(added, port0)
                           \o IF dropped THEN Insert(chain, DROP(port0)) ELSE chain
  BY DEF InitWhiteList
<1>2. PICK added \in SetToSeqs(opened) :
         chain' = Opened(added, port0)
                     \o IF dropped THEN Insert(chain, DROP(port0)) ELSE chain
  BY <1>1
<1>. DEFINE a == Opened(added, port0)
            c == IF dropped THEN Insert(chain, DROP(port0)) ELSE chain
<1>3. chain \in Seq(Rules) /\ Shaped(chain) /\ dropped \in BOOLEAN
  BY DEF Inv, TypeOK
<1>4. /\ c \in Seq(Rules) /\ Shaped(c)
      /\ \A port : Has(c, DROP(port))
                      <=> (dropped /\ port = port0) \/ Has(chain, DROP(port))
      /\ \A ip, port : Count(c, ip, port) = IF dropped /\ port = port0 THEN 0
                                            ELSE Count(chain, ip, port)
  <2>1. CASE dropped
    <3>1. c = Insert(chain, DROP(port0))
      BY <2>1
    <3>. HIDE DEF c
    <3>. QED  BY <1>3, <2>1, <3>1, CountBelow
  <2>2. CASE ~ dropped
    BY <1>3, <2>2
  <2>. QED  BY <2>1, <2>2
<1>5. opened \in SUBSET IPs
  OBVIOUS
<1>6. /\ a \in Seq(Rules) /\ Shaped(a)
      /\ \A port : \A i \in 1..Len(a) : a[i] # DROP(port)
      /\ \A ip, port : Count(a, ip, port)
            = IF ip \in opened /\ port = port0 THEN 1 ELSE 0
  BY <1>5, CountOpened
<1>7. chain' = a \o c
  BY <1>2
<1>. HIDE DEF a, c
<1>8. ASSUME NEW ip, NEW port
      PROVE  Count(chain', ip, port)
                = (IF dropped /\ port = port0 THEN 0 ELSE Count(chain, ip, port))
                     + (IF ip \in opened /\ port = port0 THEN 1 ELSE 0)
  <2>1. Count(chain', ip, port) = Count(a, ip, port) + Count(c, ip, port)
    BY <1>4, <1>6, <1>7, CountAbove
  <2>2. Count(c, ip, port) \in Nat
    BY <1>4, CountBounded
  <2>. QED  BY <1>4, <1>6, <2>1, <2>2
<1>9. /\ chain' \in Seq(Rules) /\ Shaped(chain')
      /\ \A rule : Has(chain', rule) <=> Has(a, rule) \/ Has(c, rule)
  BY <1>4, <1>6, <1>7, PutAbove
<1>10. \A port : Has(chain', DROP(port))
                    <=> (dropped /\ port = port0) \/ Has(chain, DROP(port))
  <2>1. \A port : ~ Has(a, DROP(port))
    BY <1>6 DEF Has
  <2>. QED  BY <1>4, <1>9, <2>1
<1>11. Inv'
  <2>1. ip_white_list_' \in [IPs -> Ports \cup {InitMark, NoPort}]
    BY DEF InitWhiteList, Inv, TypeOK
  <2>. QED  BY <1>9, <2>1 DEF Inv, TypeOK
<1>12. \A ip \in whitelist : Counted[ip][port0] < MaxRules
  <2>. SUFFICES ASSUME NEW ip \in whitelist PROVE Counted[ip][port0] < MaxRules
    OBVIOUS
  <2>1. Counted[ip][port0] = Count(chain, ip, port0)
    BY View
  <2>2. Count(chain, ip, port0) \in Nat /\ Count(chain, ip, port0) <= Len(chain)
    BY <1>3, CountBounded
  <2>3. Cardinality(whitelist) \in Nat
    BY FS_Subset, FS_CardinalityType
  <2>4. Len(chain) + Cardinality(whitelist) < MaxChain
    BY DEF InitWhiteList
  <2>5. Len(chain) \in Nat /\ MaxChain \in Nat /\ MaxRules \in Nat
        /\ MaxChain <= MaxRules
    BY <1>3 DEF IPWhiteListAssumption
  <2>. QED  BY <2>1, <2>2, <2>3, <2>4, <2>5
<1>13. ip_white_list_' =
          [ip \in IPs |-> IF ip \in whitelist /\ ip_white_list_[ip] = NoPort
                          THEN InitMark ELSE ip_white_list_[ip]]
  BY DEF InitWhiteList
<1>. DEFINE worked == [ip \in whitelist |-> IF ip \in opened THEN TRUE ELSE FALSE]
<1>14. worked \in [whitelist -> CmdOutcomes]
  <2>1. \A ip \in whitelist : ip \in opened \/ FALSE \in CmdOutcomes
    BY <1>1
  <2>2. TRUE \in CmdOutcomes
    BY DEF IPWhiteListAssumption
  <2>. QED  BY <2>1, <2>2
<1>15. Dropped' = IF dropped THEN Dropped \cup {port0} ELSE Dropped
  BY <1>3, <1>10, View
<1>16. Counted' =
          [ip \in IPs |-> [Counted[ip] EXCEPT ![port0] =
              (IF dropped THEN 0 ELSE Counted[ip][port0])
                 + (IF ip \in whitelist /\ worked[ip] THEN 1 ELSE 0)]]
  <2>1. ASSUME NEW ip \in IPs
        PROVE  [port \in Ports |-> Count(chain', ip, port)]
                  = [Counted[ip] EXCEPT ![port0] =
                       (IF dropped THEN 0 ELSE Counted[ip][port0])
                          + (IF ip \in whitelist /\ worked[ip] THEN 1 ELSE 0)]
    <3>1. Counted[ip] = [port \in Ports |-> Count(chain, ip, port)]
      BY View
    <3>2. ip \in whitelist /\ worked[ip] <=> ip \in opened
      OBVIOUS
    <3>3. \A port \in Ports : Count(chain, ip, port) \in Nat
      BY <1>3, CountBounded
    <3>. HIDE DEF worked
    <3>4. \A port \in Ports : port # port0 => Count(chain', ip, port) = Count(chain, ip, port)
      BY <1>8, <3>3
    <3>5. Count(chain', ip, port0)
             = (IF dropped THEN 0 ELSE Counted[ip][port0])
                  + (IF ip \in whitelist /\ worked[ip] THEN 1 ELSE 0)
      BY <1>8, <3>1, <3>2
    <3>. QED  BY <3>1, <3>4, <3>5
  <2>. HIDE DEF worked
  <2>. QED  BY <2>1, View
<1>. HIDE DEF worked
<1>. QED  BY <1>11, <1>12, <1>13, <1>14, <1>15, <1>16 DEF FW!InitWhiteList

\* One ACCEPT more, or none.
LEMMA OpWhiteListAddStep ==
    ASSUME Inv, NEW ip0 \in IPs, NEW port0 \in Ports, OpWhiteListAdd(ip0, port0)
    PROVE  Inv' /\ FW!OpWhiteListAdd(ip0, port0)
<1>1. PICK ok \in CmdOutcomes :
         chain' = IF ok THEN Insert(chain, ACCEPT(ip0, port0)) ELSE chain
  BY DEF OpWhiteListAdd
<1>2. /\ ~ HasRule(ip0, port0) /\ Len(chain) < MaxChain
      /\ ip_white_list_' = [ip_white_list_ EXCEPT ![ip0] =
                                IF @ = NoPort THEN port0 ELSE @]
  BY DEF OpWhiteListAdd
<1>3. chain \in Seq(Rules) /\ Shaped(chain) /\ Len(chain) \in Nat
  BY DEF Inv, TypeOK
<1>4. /\ chain' \in Seq(Rules) /\ Shaped(chain')
      /\ \A port : Has(chain', DROP(port)) <=> Has(chain, DROP(port))
      /\ \A ip, port : Count(chain', ip, port)
            = IF ok /\ ip = ip0 /\ port = port0 THEN Count(chain, ip, port) + 1
              ELSE Count(chain, ip, port)
  <2>1. CASE ok
    <3>1. chain' = Insert(chain, ACCEPT(ip0, port0))
      BY <1>1, <2>1
    <3>. QED  BY <1>3, <2>1, <3>1, CountInserted
  <2>2. CASE ~ ok
    BY <1>1, <1>3, <2>2
  <2>. QED  BY <2>1, <2>2
<1>5. Inv'
  <2>1. ip_white_list_' \in [IPs -> Ports \cup {InitMark, NoPort}]
    BY <1>2 DEF Inv, TypeOK
  <2>. QED  BY <1>4, <2>1 DEF Inv, TypeOK
<1>6. Dropped' = Dropped
  BY <1>4, View
<1>7. Counted[ip0][port0] < MaxRules
  <2>1. Counted[ip0][port0] = Count(chain, ip0, port0)
    BY View
  <2>2. Count(chain, ip0, port0) \in Nat /\ Count(chain, ip0, port0) <= Len(chain)
    BY <1>3, CountBounded
  <2>3. MaxChain \in Nat /\ MaxRules \in Nat /\ MaxChain <= MaxRules
    BY DEF IPWhiteListAssumption
  <2>. QED  BY <1>2, <1>3, <2>1, <2>2, <2>3
<1>8. Counted' = IF ok THEN [Counted EXCEPT ![ip0] =
                                [Counted[ip0] EXCEPT ![port0] = Counted[ip0][port0] + 1]]
                 ELSE Counted
  BY <1>4, View
<1>9. FW!UnbanUser(ip0, port0)
  BY <1>8 DEF FW!UnbanUser
<1>10. ~ FW!HasRule(ip0, port0)
  BY <1>2 DEF HasRule, FW!HasRule
<1>. QED  BY <1>2, <1>5, <1>6, <1>7, <1>9, <1>10 DEF FW!OpWhiteListAdd

\* One ACCEPT less, or none.
LEMMA OpWhiteListDelStep ==
    ASSUME Inv, NEW ip0 \in IPs, NEW port0 \in Ports, OpWhiteListDel(ip0, port0)
    PROVE  Inv' /\ FW!OpWhiteListDel(ip0, port0)
<1>1. PICK ok \in CmdOutcomes :
         chain' = IF ok THEN Delete(chain, ACCEPT(ip0, port0)) ELSE chain
  BY DEF OpWhiteListDel
<1>2. /\ HasRule(ip0, port0)
      /\ ip_white_list_' = [ip_white_list_ EXCEPT ![ip0] = NoPort]
  BY DEF OpWhiteListDel
<1>3. chain \in Seq(Rules) /\ Shaped(chain)
  BY DEF Inv, TypeOK
<1>4. /\ chain' \in Seq(Rules) /\ Shaped(chain')
      /\ \A port : Has(chain', DROP(port)) <=> Has(chain, DROP(port))
      /\ \A ip, port : Count(chain', ip, port)
            = IF ok /\ ip = ip0 /\ port = port0 /\ Count(chain, ip, port) > 0
              THEN Count(chain, ip, port) - 1
              ELSE Count(chain, ip, port)
  <2>1. CASE ok
    <3>1. chain' = Delete(chain, ACCEPT(ip0, port0))
      BY <1>1, <2>1
    <3>. QED  BY <1>3, <2>1, <3>1, Deleted
  <2>2. CASE ~ ok
    BY <1>1, <1>3, <2>2
  <2>. QED  BY <2>1, <2>2
<1>5. Inv'
  <2>1. ip_white_list_' \in [IPs -> Ports \cup {InitMark, NoPort}]
    BY <1>2 DEF Inv, TypeOK
  <2>. QED  BY <1>4, <2>1 DEF Inv, TypeOK
<1>6. Dropped' = Dropped
  BY <1>4, View
<1>7. Counted' = IF ok /\ Counted[ip0][port0] > 0
                 THEN [Counted EXCEPT ![ip0] =
                          [Counted[ip0] EXCEPT ![port0] = Counted[ip0][port0] - 1]]
                 ELSE Counted
  BY <1>4, View
<1>8. FW!BanUser(ip0, port0)
  BY <1>7 DEF FW!BanUser
<1>9. FW!HasRule(ip0, port0)
  BY <1>2 DEF HasRule, FW!HasRule
<1>. QED  BY <1>2, <1>5, <1>6, <1>8, <1>9 DEF FW!OpWhiteListDel

\* Every step keeps the invariant and is one of the view, or none.
LEMMA Step == Inv /\ [Next]_vars => Inv' /\ [FW!FWNext]_(FW!fwvars)
<1>. SUFFICES ASSUME Inv, [Next]_vars PROVE Inv' /\ [FW!FWNext]_(FW!fwvars)
  OBVIOUS
<1>1. CASE IptablesTools
  BY <1>1, IptablesToolsStep DEF FW!FWNext
<1>2. ASSUME NEW whitelist \in SUBSET IPs, NEW port \in Ports,
             InitWhiteList(whitelist, port)
      PROVE  Inv' /\ FW!FWNext
  BY <1>2, InitWhiteListStep DEF FW!FWNext
<1>3. ASSUME NEW ip \in IPs, NEW port \in Ports, OpWhiteListAdd(ip, port)
      PROVE  Inv' /\ FW!FWNext
  BY <1>3, OpWhiteListAddStep DEF FW!FWNext
<1>4. ASSUME NEW ip \in IPs, NEW port \in Ports, OpWhiteListDel(ip, port)
      PROVE  Inv' /\ FW!FWNext
  BY <1>4, OpWhiteListDelStep DEF FW!FWNext
<1>5. CASE UNCHANGED vars
  <2>1. ip_white_list_' = ip_white_list_ /\ chain' = chain
    BY <1>5 DEF vars
  <2>2. Inv'
    BY <2>1 DEF Inv, TypeOK
  <2>3. Counted' = Counted /\ Dropped' = Dropped
    BY <2>1, View
  <2>. QED  BY <2>1, <2>2, <2>3 DEF FW!fwvars
<1>. QED  BY <1>1, <1>2, <1>3, <1>4, <1>5 DEF Next

\* Inv, on which the theorems below rest, holds in every state.
THEOREM Invariance == Spec => []Inv
<1>1. Init => Inv
  BY InitHolds
<1>2. Inv /\ [Next]_vars => Inv'
  BY Step
<1>. QED  BY <1>1, <1>2, PTL DEF Spec

\* The list holds ports and marks, and the chain rules of the two kinds.
THEOREM TypeCorrect == Spec => []TypeOK
<1>1. Inv => TypeOK
  BY DEF Inv
<1>. QED  BY <1>1, Invariance, PTL

\* Whatever commands failed, the rule that decides a packet says what the
\* counting view says.
THEOREM FirstMatch == Spec => []FirstMatchCounts
<1>. QED  BY InvFirstMatch, Invariance, PTL

\* Every operation on the chain of rules is the same operation on the counts.
THEOREM Refinement == Spec => RefinesFirewall
<1>1. Init => FW!FWInit
  BY InitHolds
<1>2. Inv /\ [Next]_vars => [FW!FWNext]_(FW!fwvars)
  BY Step
<1>. QED  BY <1>1, <1>2, Invariance, PTL DEF Spec, RefinesFirewall, FW!FWSpec
=============================================================================
