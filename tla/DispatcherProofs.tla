--------------------------- MODULE DispatcherProofs ---------------------------
(***************************************************************************)
(* Proofs about the event loop, for any number of callers, descriptors and  *)
(* events in a batch.  EventsFresh is not inductive: the kernel's list is    *)
(* turned into a batch later, so what holds of the batch must hold of the    *)
(* list, and a descriptor that is on both must have work for both.           *)
(***************************************************************************)
EXTENDS EpollDispatcher, SequenceTheorems, FiniteSetTheorems, TLAPS

Listed(fd) == Contains(ready, fd)
Batched(fd) == \E i \in DOMAIN events : events[i].fd = fd

\* No descriptor is twice on the list or twice in the batch.
Once ==
    /\ \A i, j \in DOMAIN ready : ready[i] = ready[j] => i = j
    /\ \A i, j \in DOMAIN events : events[i].fd = events[j].fd => i = j

\* Behind the list and the batch there is work for each of them.
Work ==
    /\ Listed(udp_fd_) \/ Batched(udp_fd_) => datagrams > 0
    /\ Listed(udp_fd_) /\ Batched(udp_fd_) => datagrams > 1
    /\ Listed(listen_fd_) \/ Batched(listen_fd_) => Len(backlog) > 0
    /\ Listed(listen_fd_) /\ Batched(listen_fd_) => Len(backlog) > 1
    /\ \A fd \in Fds : Listed(fd) \/ Batched(fd) =>
          fd \in fdmap /\ conn[fd].input # "none"

\* Whoever is in the backlog is there once and waits for the handshake.
Waiting ==
    /\ \A i, j \in DOMAIN backlog : backlog[i] = backlog[j] => i = j
    /\ \A i \in DOMAIN backlog : caller[backlog[i]] = "connecting"

\* FdmapIsLive without counting; the first half also when the process has died.
Served(c, fd) == fd \in fdmap /\ conn[fd].live /\ conn[fd].peer = c

Owned ==
    /\ \A c \in Callers, fd \in Fds :
          Served(c, fd) => caller[c] \in {"accepted", "sent"}
    /\ \A c \in Callers, fd, other \in Fds :
          Served(c, fd) /\ Served(c, other) => fd = other

Answered ==
    ~ crashed =>
        /\ \A c \in Callers :
              caller[c] \in {"accepted", "sent"} => \E fd \in Fds : Served(c, fd)
        /\ \A fd \in Fds : fd \in fdmap <=> conn[fd].peer # NoCaller

Inv ==
    /\ TypeOK
    /\ Once
    /\ Work
    /\ Waiting
    /\ Owned
    /\ Answered
    /\ FullBufferIsReported
    /\ NotAllStuck

USE DispatcherAssumption

-----------------------------------------------------------------------------
\* Sequences.

\* What is left of a sequence after its first elements.
LEMMA SuffixOf ==
    ASSUME NEW S, NEW s \in Seq(S), NEW k \in 0..Len(s)
    PROVE  /\ SubSeq(s, k + 1, Len(s)) \in Seq(S)
           /\ Len(SubSeq(s, k + 1, Len(s))) = Len(s) - k
           /\ \A i \in 1..Len(s) - k : SubSeq(s, k + 1, Len(s))[i] = s[k + i]
  OBVIOUS

\* The first elements of a sequence.
LEMMA PrefixOf ==
    ASSUME NEW S, NEW s \in Seq(S), NEW n \in 0..Len(s)
    PROVE  /\ SubSeq(s, 1, n) \in Seq(S)
           /\ Len(SubSeq(s, 1, n)) = n
           /\ \A i \in 1..n : SubSeq(s, 1, n)[i] = s[i]
  OBVIOUS

\* The elements of a concatenation.
LEMMA Concatenated ==
    ASSUME NEW S, NEW a \in Seq(S), NEW b \in Seq(S)
    PROVE  /\ a \o b \in Seq(S)
           /\ Len(a \o b) = Len(a) + Len(b)
           /\ \A i \in 1..Len(a) : (a \o b)[i] = a[i]
           /\ \A i \in 1..Len(b) : (a \o b)[Len(a) + i] = b[i]
  OBVIOUS

\* A sequence from which the k-th element was taken.
LEMMA WithoutKth ==
    ASSUME NEW S, NEW s \in Seq(S), NEW k \in 1..Len(s)
    PROVE  /\ RemoveAt(s, k) \in Seq(S)
           /\ Len(RemoveAt(s, k)) = Len(s) - 1
           /\ \A i \in 1..Len(s) - 1 :
                 RemoveAt(s, k)[i] = IF i < k THEN s[i] ELSE s[i + 1]
<1>1. PICK a \in Seq(S) : /\ a = SubSeq(s, 1, k - 1)
                          /\ Len(a) = k - 1
                          /\ \A i \in 1..k - 1 : a[i] = s[i]
  <2>1. k - 1 \in 0..Len(s)
    OBVIOUS
  <2>. QED  BY <2>1, PrefixOf, Zenon
<1>2. PICK b \in Seq(S) : /\ b = SubSeq(s, k + 1, Len(s))
                          /\ Len(b) = Len(s) - k
                          /\ \A i \in 1..Len(s) - k : b[i] = s[k + i]
  <2>1. k \in 0..Len(s)
    OBVIOUS
  <2>2. /\ SubSeq(s, k + 1, Len(s)) \in Seq(S)
        /\ Len(SubSeq(s, k + 1, Len(s))) = Len(s) - k
        /\ \A i \in 1..Len(s) - k : SubSeq(s, k + 1, Len(s))[i] = s[k + i]
    BY <2>1, SuffixOf
  <2>. QED  BY <2>2, Zenon
<1>3. RemoveAt(s, k) = a \o b
  BY <1>1, <1>2 DEF RemoveAt
<1>4. a \o b \in Seq(S) /\ Len(a \o b) = Len(s) - 1
  <2>1. a \o b \in Seq(S) /\ Len(a \o b) = Len(a) + Len(b)
    BY Concatenated
  <2>2. Len(a) + Len(b) = Len(s) - 1
    <3>1. Len(a) = k - 1 /\ Len(b) = Len(s) - k /\ Len(s) \in Nat /\ k \in Nat
      BY <1>1, <1>2
    <3>. QED  BY <3>1
  <2>. QED  BY <2>1, <2>2
<1>5. ASSUME NEW i \in 1..Len(s) - 1
      PROVE  (a \o b)[i] = IF i < k THEN s[i] ELSE s[i + 1]
  <2>1. CASE i < k
    <3>1. i \in 1..Len(a) /\ i \in 1..k - 1
      BY <1>1, <2>1
    <3>2. \A j \in 1..Len(a) : (a \o b)[j] = a[j]
      BY Concatenated
    <3>. QED  BY <1>1, <2>1, <3>1, <3>2
  <2>2. CASE ~ i < k
    <3>1. PICK j \in 1..Len(b) : i = Len(a) + j
      <4>1. i - Len(a) \in 1..Len(b) /\ i = Len(a) + (i - Len(a))
        BY <1>1, <1>2, <2>2
      <4>. QED  BY <4>1
    <3>2. (a \o b)[i] = b[j]
      BY <3>1, Concatenated
    <3>3. k + j = i + 1 /\ j \in 1..Len(s) - k
      BY <1>1, <1>2, <3>1
    <3>. QED  BY <1>2, <2>2, <3>2, <3>3
  <2>. QED  BY <2>1, <2>2
<1>. QED  BY <1>3, <1>4, <1>5

-----------------------------------------------------------------------------
\* What the steps do to the kernel's list and to the batch.

\* A descriptor that becomes ready is added once.
LEMMA NotifyEffect ==
    ASSUME TypeOK, Once, NEW fd \in Sources, Notify(fd)
    PROVE  /\ ready' \in Seq(Sources)
           /\ \A i, j \in DOMAIN ready' : ready'[i] = ready'[j] => i = j
           /\ \A x \in Sources : Listed(x)' <=> Listed(x) \/ x = fd
<1>1. ready \in Seq(Sources) /\ Len(ready) \in Nat /\ DOMAIN ready = 1..Len(ready)
  BY DEF TypeOK
<1>2. CASE Contains(ready, fd)
  BY <1>1, <1>2 DEF Notify, Once, Listed
<1>3. CASE ~ Contains(ready, fd)
  <2>1. ready' = Append(ready, fd)
    BY <1>3 DEF Notify
  <2>2. /\ ready' \in Seq(Sources)
        /\ Len(ready') = Len(ready) + 1
        /\ DOMAIN ready' = 1..Len(ready) + 1
        /\ \A i \in 1..Len(ready) : ready'[i] = ready[i]
        /\ ready'[Len(ready) + 1] = fd
    BY <1>1, <2>1, AppendProperties
  <2>3. \A i \in 1..Len(ready) : ready[i] # fd
    BY <1>3 DEF Contains
  <2>4. \A i, j \in DOMAIN ready' : ready'[i] = ready'[j] => i = j
    BY <1>1, <2>2, <2>3 DEF Once
  <2>5. \A x \in Sources : Listed(x)' <=> Listed(x) \/ x = fd
    BY <1>1, <2>2 DEF Listed, Contains
  <2>. QED  BY <2>2, <2>4, <2>5
<1>. QED  BY <1>2, <1>3

\* A descriptor that leaves the epoll set is not on the list any more.
LEMMA RemoveEffect ==
    ASSUME TypeOK, Once, NEW fd \in Sources, ready' = RemoveFirst(ready, fd)
    PROVE  /\ ready' \in Seq(Sources)
           /\ \A i, j \in DOMAIN ready' : ready'[i] = ready'[j] => i = j
           /\ \A x \in Sources : Listed(x)' <=> Listed(x) /\ x # fd
<1>1. ready \in Seq(Sources) /\ Len(ready) \in Nat /\ DOMAIN ready = 1..Len(ready)
  BY DEF TypeOK
<1>2. CASE ~ \E i \in 1..Len(ready) : ready[i] = fd
  BY <1>1, <1>2 DEF RemoveFirst, Once, Listed, Contains
<1>3. CASE \E i \in 1..Len(ready) : ready[i] = fd
  <2>1. PICK k \in 1..Len(ready) : ready[k] = fd
    BY <1>3
  <2>2. {i \in 1..Len(ready) : ready[i] = fd} = {k}
    BY <1>1, <2>1 DEF Once
  <2>3. SelectInSeq(ready, LAMBDA v : v = fd) = k
    <3>1. Min({k}) = k
      BY DEF Min
    <3>. QED  BY <2>2, <3>1 DEF SelectInSeq
  <2>4. ready' = RemoveAt(ready, k)
    BY <1>3, <2>3 DEF RemoveFirst
  <2>5. /\ ready' \in Seq(Sources)
        /\ Len(ready') = Len(ready) - 1
        /\ DOMAIN ready' = 1..Len(ready) - 1
        /\ \A i \in 1..Len(ready) - 1 :
              ready'[i] = IF i < k THEN ready[i] ELSE ready[i + 1]
    <3>1. /\ RemoveAt(ready, k) \in Seq(Sources)
          /\ Len(RemoveAt(ready, k)) = Len(ready) - 1
          /\ \A i \in 1..Len(ready) - 1 :
                RemoveAt(ready, k)[i] = IF i < k THEN ready[i] ELSE ready[i + 1]
      BY <1>1, WithoutKth, Zenon
    <3>. HIDE <2>1, <2>2, <2>3
    <3>2. DOMAIN ready' = 1..Len(ready')
      BY <2>4, <3>1, LenProperties
    <3>. QED  BY <2>4, <3>1, <3>2, Zenon
  <2>6. ASSUME NEW i \in DOMAIN ready', NEW j \in DOMAIN ready',
               ready'[i] = ready'[j]
        PROVE  i = j
    <3>. DEFINE at(n) == IF n < k THEN n ELSE n + 1
    <3>1. /\ at(i) \in DOMAIN ready /\ at(j) \in DOMAIN ready
          /\ ready[at(i)] = ready[at(j)]
      BY <1>1, <2>1, <2>5, <2>6
    <3>2. at(i) = at(j)
      BY <3>1 DEF Once
    <3>. QED  BY <1>1, <2>1, <2>5, <3>2
  <2>7. ASSUME NEW x \in Sources
        PROVE  Listed(x)' <=> Listed(x) /\ x # fd
    <3>1. ASSUME Listed(x)' PROVE Listed(x) /\ x # fd
      <4>1. PICK i \in 1..Len(ready) - 1 : ready'[i] = x
        BY <2>5, <3>1 DEF Listed, Contains
      <4>2. CASE i < k
        <5>1. i \in 1..Len(ready) /\ i # k /\ ready[i] = x
          BY <1>1, <2>1, <2>5, <4>1, <4>2
        <5>. QED  BY <1>1, <2>1, <5>1 DEF Listed, Contains, Once
      <4>3. CASE ~ i < k
        <5>1. i + 1 \in 1..Len(ready) /\ i + 1 # k /\ ready[i + 1] = x
          BY <1>1, <2>1, <2>5, <4>1, <4>3
        <5>. QED  BY <1>1, <2>1, <5>1 DEF Listed, Contains, Once
      <4>. QED  BY <4>2, <4>3
    <3>2. ASSUME Listed(x), x # fd PROVE Listed(x)'
      <4>1. PICK i \in 1..Len(ready) : ready[i] = x
        BY <3>2 DEF Listed, Contains
      <4>2. CASE i < k
        BY <1>1, <2>1, <2>5, <4>1, <4>2 DEF Listed, Contains
      <4>3. CASE i > k
        <5>1. i - 1 \in 1..Len(ready) - 1 /\ ready'[i - 1] = x
          BY <1>1, <2>1, <2>5, <4>1, <4>3
        <5>. QED  BY <2>5, <5>1 DEF Listed, Contains
      <4>. QED  BY <1>1, <2>1, <3>2, <4>1, <4>2, <4>3
    <3>. QED  BY <3>1, <3>2
  <2>. QED  BY <2>5, <2>6, <2>7
<1>. QED  BY <1>2, <1>3

\* The loop's next event leaves the batch, and no other does.
LEMMA NextEffect ==
    ASSUME TypeOK, Once, NEW e, NextEvent(e)
    PROVE  /\ e \in [fd : Sources, hup : BOOLEAN]
           /\ Batched(e.fd)
           /\ events' \in Seq([fd : Sources, hup : BOOLEAN])
           /\ \A i, j \in DOMAIN events' : events'[i].fd = events'[j].fd => i = j
           /\ \A x \in Sources : Batched(x)' <=> Batched(x) /\ x # e.fd
<1>1. /\ events \in Seq([fd : Sources, hup : BOOLEAN]) /\ events # <<>>
      /\ Len(events) \in Nat /\ DOMAIN events = 1..Len(events)
  BY DEF TypeOK, NextEvent
<1>2. /\ e = events[1] /\ 1 \in DOMAIN events
      /\ events' \in Seq([fd : Sources, hup : BOOLEAN])
      /\ DOMAIN events' = 1..Len(events) - 1
      /\ \A i \in 1..Len(events) - 1 : events'[i] = events[i + 1]
  BY <1>1, HeadTailProperties DEF NextEvent
<1>3. ASSUME NEW i \in DOMAIN events', NEW j \in DOMAIN events',
             events'[i].fd = events'[j].fd
      PROVE  i = j
  <2>1. /\ i + 1 \in DOMAIN events /\ j + 1 \in DOMAIN events
        /\ events[i + 1].fd = events[j + 1].fd
    <3>1. i \in 1..Len(events) - 1 /\ j \in 1..Len(events) - 1
      BY <1>2
    <3>2. events[i + 1].fd = events[j + 1].fd
      BY <1>2, <1>3, <3>1, Zenon
    <3>. QED  BY <1>1, <3>1, <3>2
  <2>2. i + 1 = j + 1
    BY <2>1 DEF Once
  <2>. QED  BY <1>1, <1>2, <2>2
<1>4. ASSUME NEW x \in Sources
      PROVE  Batched(x)' <=> Batched(x) /\ x # e.fd
  <2>1. ASSUME Batched(x)' PROVE Batched(x) /\ x # e.fd
    <3>1. PICK i \in 1..Len(events) - 1 : events'[i].fd = x
      BY <1>2, <2>1 DEF Batched
    <3>2. i + 1 \in 1..Len(events) /\ i + 1 # 1 /\ events[i + 1].fd = x
      BY <1>1, <1>2, <3>1
    <3>3. x # e.fd
      BY <1>1, <1>2, <3>2 DEF Once
    <3>. QED  BY <1>1, <3>2, <3>3 DEF Batched
  <2>2. ASSUME Batched(x), x # e.fd PROVE Batched(x)'
    <3>1. PICK i \in 1..Len(events) : events[i].fd = x
      BY <1>1, <2>2 DEF Batched
    <3>2. i - 1 \in 1..Len(events) - 1 /\ events'[i - 1].fd = x
      BY <1>1, <1>2, <2>2, <3>1
    <3>. QED  BY <1>2, <3>2 DEF Batched
  <2>. QED  BY <2>1, <2>2
<1>5. e \in [fd : Sources, hup : BOOLEAN]
  BY <1>1, <1>2, ElementOfSeq
<1>6. Batched(e.fd)
  BY <1>2 DEF Batched
<1>. QED  BY <1>2, <1>3, <1>4, <1>5, <1>6

\* epoll_wait moves descriptors from the list to the batch, at most MAXEVENTS.
LEMMA WaitEffect ==
    ASSUME TypeOK, Once, EpollWait
    PROVE  /\ ready' \in Seq(Sources)
           /\ events' \in Seq([fd : Sources, hup : BOOLEAN])
           /\ Once'
           /\ \A x \in Sources : Listed(x)' \/ Batched(x)' <=> Listed(x)
           /\ \A x \in Sources : ~ (Listed(x)' /\ Batched(x)')
<1>1. ready \in Seq(Sources) /\ Len(ready) \in Nat /\ DOMAIN ready = 1..Len(ready)
  BY DEF TypeOK
<1>2. PICK n \in 1..Len(ready) :
         /\ events' = [i \in 1..n |-> Event(ready[i])]
         /\ ready' = SubSeq(ready, n + 1, Len(ready))
  <2>1. Len(ready) # 0
    BY <1>1, EmptySeq DEF EpollWait
  <2>2. (IF Len(ready) < MAXEVENTS THEN Len(ready) ELSE MAXEVENTS) \in 1..Len(ready)
    BY <1>1, <2>1
  <2>. QED  BY <2>2 DEF EpollWait
<1>3. /\ ready' \in Seq(Sources)
      /\ DOMAIN ready' = 1..Len(ready) - n
      /\ Len(ready') = Len(ready) - n
      /\ \A i \in 1..Len(ready) - n : ready'[i] = ready[n + i]
  <2>1. n \in 0..Len(ready)
    BY <1>1
  <2>2. /\ ready' \in Seq(Sources)
        /\ Len(ready') = Len(ready) - n
        /\ \A i \in 1..Len(ready) - n : ready'[i] = ready[n + i]
    BY <1>1, <1>2, <2>1, SuffixOf, Zenon
  <2>. QED  BY <2>2, LenProperties, Zenon
<1>4. \A i \in 1..n : /\ Event(ready[i]) \in [fd : Sources, hup : BOOLEAN]
                      /\ Event(ready[i]).fd = ready[i]
  BY <1>1 DEF Event
<1>5. /\ events' \in Seq([fd : Sources, hup : BOOLEAN])
      /\ DOMAIN events' = 1..n
      /\ \A i \in 1..n : events'[i].fd = ready[i]
  BY <1>1, <1>2, <1>4
<1>6. Once'
  <2>1. ASSUME NEW i \in DOMAIN ready', NEW j \in DOMAIN ready',
               ready'[i] = ready'[j]
        PROVE  i = j
    <3>1. n + i \in 1..Len(ready) /\ n + j \in 1..Len(ready)
      BY <1>1, <1>3
    <3>2. ready[n + i] = ready[n + j]
      BY <1>3, <2>1
    <3>3. n + i = n + j
      BY <1>1, <3>1, <3>2 DEF Once
    <3>. QED  BY <1>1, <1>3, <3>3
  <2>2. ASSUME NEW i \in DOMAIN events', NEW j \in DOMAIN events',
               events'[i].fd = events'[j].fd
        PROVE  i = j
    BY <1>1, <1>5, <2>2 DEF Once
  <2>. QED  BY <2>1, <2>2 DEF Once
<1>7. ASSUME NEW x \in Sources
      PROVE  /\ Listed(x)' => \E i \in n + 1..Len(ready) : ready[i] = x
             /\ (\E i \in n + 1..Len(ready) : ready[i] = x) => Listed(x)'
             /\ Batched(x)' <=> \E i \in 1..n : ready[i] = x
  <2>1. ASSUME Listed(x)' PROVE \E i \in n + 1..Len(ready) : ready[i] = x
    <3>1. PICK i \in 1..Len(ready) - n : ready'[i] = x
      BY <1>3, <2>1 DEF Listed, Contains
    <3>2. n + i \in n + 1..Len(ready) /\ ready[n + i] = x
      BY <1>1, <1>3, <3>1
    <3>. QED  BY <3>2
  <2>2. ASSUME NEW i \in n + 1..Len(ready), ready[i] = x PROVE Listed(x)'
    <3>1. i - n \in 1..Len(ready) - n /\ ready'[i - n] = x
      BY <1>1, <1>3, <2>2
    <3>. QED  BY <1>3, <3>1 DEF Listed, Contains
  <2>3. Batched(x)' <=> \E i \in 1..n : ready[i] = x
    BY <1>5 DEF Batched
  <2>. QED  BY <2>1, <2>2, <2>3
<1>8. \A x \in Sources : Listed(x)' \/ Batched(x)' <=> Listed(x)
  BY <1>1, <1>7 DEF Listed, Contains
<1>9. \A x \in Sources : ~ (Listed(x)' /\ Batched(x)')
  BY <1>1, <1>7 DEF Once
<1>. QED  BY <1>3, <1>5, <1>6, <1>8, <1>9

\* Connections whose input changes keep their peers, and the descriptor is listed.
LEMMA InputEffect ==
    ASSUME TypeOK, NEW fd \in Fds, NEW what \in {"data", "fin", "rst"},
           Input(fd, what)
    PROVE  /\ conn' \in [Fds -> Connections]
           /\ conn'[fd].peer = conn[fd].peer
           /\ conn'[fd].live = (conn[fd].live /\ what = "data")
           /\ conn'[fd].input = what
           /\ \A x \in Fds \ {fd} : conn'[x] = conn[x]
<1>1. conn \in [Fds -> Connections] /\ conn[fd] \in Connections
  BY DEF TypeOK
<1>. DEFINE next == [peer |-> conn[fd].peer, live |-> conn[fd].live /\ what = "data",
                     input |-> what]
<1>2. conn' = [conn EXCEPT ![fd] = next]
  BY DEF Input
<1>3. next \in Connections
  BY <1>1 DEF Connections
<1>4. /\ conn'[fd] = next
      /\ \A x \in Fds \ {fd} : conn'[x] = conn[x]
  <2>. HIDE DEF next
  <2>. QED  BY <1>1, <1>2
<1>5. conn' \in [Fds -> Connections]
  <2>. HIDE DEF next
  <2>. QED  BY <1>1, <1>2, <1>3
<1>6. /\ conn'[fd].peer = conn[fd].peer
      /\ conn'[fd].live = (conn[fd].live /\ what = "data")
      /\ conn'[fd].input = what
  <2>1. /\ next.peer = conn[fd].peer
        /\ next.live = (conn[fd].live /\ what = "data")
        /\ next.input = what
    BY Zenon
  <2>. HIDE DEF next
  <2>. QED  BY <1>4, <2>1, Zenon
<1>. QED  BY <1>4, <1>5, <1>6

-----------------------------------------------------------------------------
\* The invariant.

LEMMA InitInvariant == Init => Inv
<1>. SUFFICES ASSUME Init PROVE Inv
  OBVIOUS
<1>1. TypeOK
  <2>1. conn \in [Fds -> Connections]
    BY DEF Init, Connections, Unused
  <2>2. caller \in [Callers -> {"idle", "connecting", "accepted", "sent"}]
    BY DEF Init
  <2>3. datagrams \in 0..MaxQueue /\ fails \in 0..MaxFails
    BY DEF Init
  <2>4. backlog \in Seq(Callers) /\ ready \in Seq(Sources)
    BY EmptySeq DEF Init
  <2>5. events \in Seq([fd : Sources, hup : BOOLEAN])
    BY EmptySeq DEF Init
  <2>6. fdmap \in SUBSET Fds /\ crashed \in BOOLEAN
    BY DEF Init
  <2>. QED  BY <2>1, <2>2, <2>3, <2>4, <2>5, <2>6 DEF TypeOK
<1>2. Once /\ Waiting
  BY DEF Init, Once, Waiting
<1>3. \A x : ~ Listed(x) /\ ~ Batched(x)
  BY DEF Init, Listed, Batched, Contains
<1>4. Work
  BY <1>3 DEF Work
<1>5. Owned /\ Answered
  BY DEF Init, Owned, Answered, Served, Unused
<1>6. FullBufferIsReported
  BY DEF Init, FullBufferIsReported
<1>7. NotAllStuck
  BY DEF Init, NotAllStuck
<1>. QED  BY <1>1, <1>2, <1>4, <1>5, <1>6, <1>7 DEF Inv

\* One datagram more, and the loop is told.
LEMMA DatagramKeeps == Inv /\ Datagram => Inv'
<1>. SUFFICES ASSUME Inv, Datagram PROVE Inv'
  OBVIOUS
<1>. USE DEF Inv
<1>1. /\ ready' \in Seq(Sources)
      /\ \A i, j \in DOMAIN ready' : ready'[i] = ready'[j] => i = j
      /\ \A x \in Sources : Listed(x)' <=> Listed(x) \/ x = udp_fd_
  BY NotifyEffect, udp_fd_ \in Sources DEF Datagram, Sources
<1>2. \A x \in Sources : Batched(x)' <=> Batched(x)
  BY DEF Datagram, server, Batched
<1>3. /\ {udp_fd_, listen_fd_} \subseteq Sources /\ Fds \subseteq Sources
      /\ udp_fd_ \notin Fds /\ udp_fd_ # listen_fd_
  BY DEF Sources
<1>4. TypeOK'
  BY <1>1 DEF TypeOK, Datagram, server
<1>5. Once'
  BY <1>1 DEF Once, Datagram, server
<1>6. Work'
  <2>1. datagrams' = datagrams + 1 /\ datagrams \in Nat
    BY DEF Datagram, TypeOK
  <2>2. datagrams' > 0 /\ (Batched(udp_fd_) => datagrams' > 1)
    BY <2>1 DEF Work
  <2>. QED  BY <1>1, <1>2, <1>3, <2>2 DEF Work, Datagram, server
<1>7. Waiting' /\ Owned' /\ Answered'
  BY DEF Datagram, server, Waiting, Owned, Answered, Served
<1>8. FullBufferIsReported'
  BY <1>1, <1>3 DEF FullBufferIsReported, Reported, Listed
<1>9. NotAllStuck'
  <2>1. Listed(listen_fd_) => Listed(listen_fd_)'
    BY <1>1, <1>3
  <2>. QED  BY <1>2, <1>3, <2>1 DEF NotAllStuck, Reported, Listed, Batched, Datagram
<1>. QED  BY <1>4, <1>5, <1>6, <1>7, <1>8, <1>9

\* A caller that was idle has no connection and is not in the backlog.
LEMMA ConnectKeeps == ASSUME Inv, NEW c \in Callers, Connect(c) PROVE Inv'
<1>. USE DEF Inv
<1>1. /\ ready' \in Seq(Sources)
      /\ \A i, j \in DOMAIN ready' : ready'[i] = ready'[j] => i = j
      /\ \A x \in Sources : Listed(x)' <=> Listed(x) \/ x = listen_fd_
  BY NotifyEffect, listen_fd_ \in Sources DEF Connect, Sources
<1>2. \A x \in Sources : Batched(x)' <=> Batched(x)
  BY DEF Connect, server, Batched
<1>3. /\ {udp_fd_, listen_fd_} \subseteq Sources /\ Fds \subseteq Sources
      /\ listen_fd_ \notin Fds /\ udp_fd_ # listen_fd_
  BY DEF Sources
<1>4. /\ backlog \in Seq(Callers) /\ Len(backlog) \in Nat
      /\ DOMAIN backlog = 1..Len(backlog)
      /\ caller \in [Callers -> {"idle", "connecting", "accepted", "sent"}]
  BY DEF TypeOK
<1>5. /\ backlog' \in Seq(Callers)
      /\ Len(backlog') = Len(backlog) + 1
      /\ DOMAIN backlog' = 1..Len(backlog) + 1
      /\ \A i \in 1..Len(backlog) : backlog'[i] = backlog[i]
      /\ backlog'[Len(backlog) + 1] = c
  BY <1>4, AppendProperties DEF Connect
<1>6. /\ caller' \in [Callers -> {"idle", "connecting", "accepted", "sent"}]
      /\ caller[c] = "idle" /\ caller'[c] = "connecting"
      /\ \A d \in Callers \ {c} : caller'[d] = caller[d]
  BY <1>4 DEF Connect
<1>7. TypeOK'
  BY <1>1, <1>5, <1>6 DEF TypeOK, Connect, server
<1>8. Once'
  BY <1>1 DEF Once, Connect, server
<1>9. Work'
  <2>1. Len(backlog') > 0 /\ (Batched(listen_fd_) => Len(backlog') > 1)
    BY <1>4, <1>5 DEF Work
  <2>. QED  BY <1>1, <1>2, <1>3, <2>1 DEF Work, Connect, server
<1>10. Waiting'
  <2>1. \A i \in 1..Len(backlog) :
           backlog[i] \in Callers /\ backlog[i] # c /\ caller[backlog[i]] = "connecting"
    BY <1>4, <1>6, ElementOfSeq DEF Waiting
  <2>2. \A i, j \in DOMAIN backlog' : backlog'[i] = backlog'[j] => i = j
    BY <1>4, <1>5, <2>1 DEF Waiting
  <2>3. \A i \in DOMAIN backlog' : caller'[backlog'[i]] = "connecting"
    BY <1>4, <1>5, <1>6, <2>1
  <2>. QED  BY <2>2, <2>3 DEF Waiting
<1>11. Owned' /\ Answered'
  <2>1. \A d \in Callers, fd \in Fds : Served(d, fd)' <=> Served(d, fd)
    BY DEF Served, Connect, server
  <2>. QED  BY <1>6, <2>1 DEF Owned, Answered, Connect, server
<1>12. FullBufferIsReported'
  <2>1. Listed(udp_fd_)' <=> Listed(udp_fd_)
    BY <1>1, <1>3
  <2>. QED
    BY <1>2, <1>3, <2>1 DEF FullBufferIsReported, Reported, Listed, Batched, Connect
<1>13. NotAllStuck'
  BY <1>1, <1>3 DEF NotAllStuck, Reported, Listed
<1>. QED  BY <1>7, <1>8, <1>9, <1>10, <1>11, <1>12, <1>13

\* Something arrives on a connection: what the list, the batch and the backlog
\* promise is untouched.
LEMMA InputKeeps ==
    ASSUME Inv, NEW fd \in fdmap, NEW what \in {"data", "fin", "rst"},
           Input(fd, what)
    PROVE  /\ Once' /\ Work'
           /\ FullBufferIsReported'
           /\ Reported(listen_fd_) => Reported(listen_fd_)'
<1>. USE DEF Inv
<1>1. fd \in Fds /\ fd \in Sources /\ Fds \subseteq Sources
  BY DEF TypeOK, Sources
<1>2. /\ ready' \in Seq(Sources)
      /\ \A i, j \in DOMAIN ready' : ready'[i] = ready'[j] => i = j
      /\ \A x \in Sources : Listed(x)' <=> Listed(x) \/ x = fd
  BY <1>1, NotifyEffect DEF Input
<1>3. \A x \in Sources : Batched(x)' <=> Batched(x)
  BY DEF Input, server, Batched
<1>4. /\ {udp_fd_, listen_fd_} \subseteq Sources
      /\ udp_fd_ # fd /\ listen_fd_ # fd
  BY <1>1 DEF Sources
<1>5. Once'
  BY <1>2 DEF Once, Input, server
<1>6. Work'
  <2>1. conn'[fd].input # "none" /\ \A x \in Fds \ {fd} : conn'[x] = conn[x]
    <3>1. conn'[fd].input = what /\ \A x \in Fds \ {fd} : conn'[x] = conn[x]
      BY <1>1, InputEffect
    <3>. QED  BY <3>1
  <2>2. ASSUME NEW x \in Fds, (Listed(x) \/ Batched(x))'
        PROVE  x \in fdmap' /\ conn'[x].input # "none"
    BY <1>1, <1>2, <1>3, <2>1, <2>2 DEF Work, Input, server
  <2>. QED  BY <1>2, <1>3, <1>4, <2>2 DEF Work, Input, server
<1>7. FullBufferIsReported'
  <2>1. Listed(udp_fd_)' <=> Listed(udp_fd_)
    BY <1>2, <1>4
  <2>. QED
    BY <1>3, <1>4, <2>1 DEF FullBufferIsReported, Reported, Listed, Batched, Input
<1>8. Reported(listen_fd_) => Reported(listen_fd_)'
  <2>1. Listed(listen_fd_)' <=> Listed(listen_fd_)
    BY <1>2, <1>4
  <2>. QED  BY <1>3, <1>4, <2>1 DEF Reported, Listed, Batched
<1>. QED  BY <1>5, <1>6, <1>7, <1>8

\* The request goes out on the one connection of its caller.
LEMMA SendKeeps == ASSUME Inv, NEW c \in Callers, Send(c) PROVE Inv'
<1>. USE DEF Inv
<1>1. PICK fd \in fdmap : conn[fd].live /\ conn[fd].peer = c /\ Input(fd, "data")
  BY DEF Send
<1>2. fd \in Fds
  BY DEF TypeOK
<1>3. /\ Once' /\ Work'
      /\ FullBufferIsReported'
  BY <1>1, InputKeeps
<1>4. /\ conn' \in [Fds -> Connections]
      /\ conn'[fd].peer = conn[fd].peer
      /\ conn'[fd].live = (conn[fd].live /\ "data" = "data")
      /\ \A x \in Fds \ {fd} : conn'[x] = conn[x]
  BY <1>1, <1>2, InputEffect
<1>5. /\ caller' \in [Callers -> {"idle", "connecting", "accepted", "sent"}]
      /\ caller[c] = "accepted" /\ caller'[c] = "sent"
      /\ \A d \in Callers \ {c} : caller'[d] = caller[d]
  BY DEF Send, TypeOK
<1>6. TypeOK'
  <2>1. ready' \in Seq(Sources)
    BY <1>1, <1>2, NotifyEffect DEF Input, Sources
  <2>. QED  BY <1>1, <1>4, <1>5, <2>1 DEF TypeOK, Input, server
<1>7. Waiting'
  <2>1. \A i \in DOMAIN backlog : backlog[i] \in Callers
    BY ElementOfSeq DEF TypeOK
  <2>. QED  BY <1>1, <1>5, <2>1 DEF Waiting, Input
<1>8. \A d \in Callers, x \in Fds : Served(d, x)' <=> Served(d, x)
  BY <1>1, <1>2, <1>4 DEF Served, Input, server
<1>9. Owned'
  <2>1. \A d \in Callers : caller[d] \in {"accepted", "sent"}
                              <=> caller'[d] \in {"accepted", "sent"}
    BY <1>5
  <2>. QED  BY <1>8, <2>1 DEF Owned
<1>10. Answered'
  <2>1. \A d \in Callers : caller[d] \in {"accepted", "sent"}
                              <=> caller'[d] \in {"accepted", "sent"}
    BY <1>5
  <2>2. \A x \in Fds : conn'[x].peer = conn[x].peer
    BY <1>2, <1>4
  <2>3. fdmap' = fdmap /\ crashed' = crashed
    BY <1>1 DEF Input, server
  <2>. QED  BY <1>8, <2>1, <2>2, <2>3 DEF Answered
<1>11. NotAllStuck'
  BY <1>5 DEF NotAllStuck
<1>. QED  BY <1>3, <1>6, <1>7, <1>9, <1>10, <1>11

\* The peer of a live connection gives up its call; another's changes nothing.
LEMMA HangUpKeeps ==
    ASSUME Inv, NEW fd \in Fds, NEW how \in {"fin", "rst"}, HangUp(fd, how)
    PROVE  Inv'
<1>. USE DEF Inv
<1>1. fd \in fdmap /\ conn[fd].peer # NoCaller /\ Input(fd, how)
  BY DEF HangUp
<1>2. conn[fd].peer \in Callers
  BY <1>1 DEF TypeOK, Connections
<1>3. /\ Once' /\ Work'
      /\ FullBufferIsReported'
      /\ Reported(listen_fd_) => Reported(listen_fd_)'
  BY <1>1, InputKeeps
<1>4. /\ conn' \in [Fds -> Connections]
      /\ conn'[fd].peer = conn[fd].peer
      /\ conn'[fd].live = (conn[fd].live /\ how = "data")
      /\ \A x \in Fds \ {fd} : conn'[x] = conn[x]
  BY <1>1, InputEffect
<1>5. ~ conn'[fd].live
  BY <1>4
<1>6. /\ caller' \in [Callers -> {"idle", "connecting", "accepted", "sent"}]
      /\ conn[fd].live => caller'[conn[fd].peer] = "idle"
      /\ ~ conn[fd].live => caller' = caller
      /\ \A d \in Callers \ {conn[fd].peer} : caller'[d] = caller[d]
  BY <1>2 DEF HangUp, TypeOK
<1>7. TypeOK'
  <2>1. ready' \in Seq(Sources)
    BY <1>1, NotifyEffect DEF Input, Sources
  <2>. QED  BY <1>1, <1>4, <1>6, <2>1 DEF TypeOK, Input, server
<1>8. fdmap' = fdmap /\ crashed' = crashed /\ backlog' = backlog
  BY <1>1 DEF Input, server
<1>9. \A d \in Callers, x \in Fds : Served(d, x)' <=> Served(d, x) /\ x # fd
  BY <1>4, <1>5, <1>8 DEF Served
<1>10. \A d \in Callers : caller'[d] # caller[d] =>
          d = conn[fd].peer /\ Served(d, fd) /\ caller'[d] = "idle"
  BY <1>1, <1>6 DEF Served
<1>11. Waiting'
  <2>1. \A d \in Callers : caller[d] = "connecting" => caller'[d] = caller[d]
    BY <1>10 DEF Owned
  <2>2. \A i \in DOMAIN backlog : backlog[i] \in Callers
    BY ElementOfSeq DEF TypeOK
  <2>. QED  BY <1>8, <2>1, <2>2 DEF Waiting
<1>12. Owned'
  <2>1. ASSUME NEW d \in Callers, NEW x \in Fds, Served(d, x)'
        PROVE  caller'[d] \in {"accepted", "sent"}
    <3>1. Served(d, x) /\ x # fd
      BY <1>9, <2>1
    <3>2. caller'[d] = caller[d]
      BY <1>10, <3>1 DEF Owned
    <3>. QED  BY <3>1, <3>2 DEF Owned
  <2>. QED  BY <1>9, <2>1 DEF Owned
<1>13. Answered'
  <2>1. ASSUME ~ crashed, NEW d \in Callers, caller'[d] \in {"accepted", "sent"}
        PROVE  \E x \in Fds : Served(d, x)'
    <3>1. caller'[d] = caller[d]
      BY <1>10, <2>1
    <3>2. PICK x \in Fds : Served(d, x)
      BY <2>1, <3>1 DEF Answered
    <3>3. x # fd
      BY <1>6, <2>1, <3>2 DEF Served
    <3>. QED  BY <1>9, <3>2, <3>3
  <2>2. \A x \in Fds : conn'[x].peer = conn[x].peer
    BY <1>4
  <2>. QED  BY <1>8, <2>1, <2>2 DEF Answered
<1>14. NotAllStuck'
  <2>1. (\A d \in Callers : caller'[d] = "connecting")
           => \A d \in Callers : caller[d] = "connecting"
    BY <1>10
  <2>. QED  BY <1>3, <2>1 DEF NotAllStuck
<1>. QED  BY <1>3, <1>7, <1>11, <1>12, <1>13, <1>14

\* What was on the list is on the list or in the batch.
LEMMA EpollWaitKeeps == Inv /\ EpollWait => Inv'
<1>. SUFFICES ASSUME Inv, EpollWait PROVE Inv'
  OBVIOUS
<1>. USE DEF Inv
<1>1. /\ ready' \in Seq(Sources)
      /\ events' \in Seq([fd : Sources, hup : BOOLEAN])
      /\ Once'
      /\ \A x \in Sources : Listed(x)' \/ Batched(x)' <=> Listed(x)
      /\ \A x \in Sources : ~ (Listed(x)' /\ Batched(x)')
  BY WaitEffect
<1>2. /\ UNCHANGED <<datagrams, backlog, conn, fdmap, caller, fails, crashed>>
      /\ events = <<>>
  BY DEF EpollWait
<1>3. {udp_fd_, listen_fd_} \subseteq Sources /\ Fds \subseteq Sources
  BY DEF Sources
<1>4. TypeOK'
  BY <1>1, <1>2 DEF TypeOK
<1>5. Work'
  BY <1>1, <1>2, <1>3 DEF Work
<1>6. Waiting' /\ Owned' /\ Answered'
  BY <1>2 DEF Waiting, Owned, Answered, Served
<1>7. ASSUME NEW x \in Sources, Reported(x) PROVE Reported(x)'
  <2>1. ~ Batched(x)
    BY <1>2 DEF Batched
  <2>2. Listed(x)
    BY <1>7, <2>1 DEF Reported, Listed, Batched
  <2>3. Listed(x)' \/ Batched(x)'
    BY <1>1, <2>2
  <2>. QED  BY <2>3 DEF Reported, Listed, Batched
<1>8. FullBufferIsReported'
  BY <1>2, <1>3, <1>7 DEF FullBufferIsReported
<1>9. NotAllStuck'
  BY <1>2, <1>3, <1>7 DEF NotAllStuck
<1>. QED  BY <1>1, <1>4, <1>5, <1>6, <1>8, <1>9

\* One event and one datagram less: a second event would have had a second one.
LEMMA HandleUDPRequestKeeps ==
    ASSUME Inv, NEW e, HandleUDPRequest(e) PROVE Inv'
<1>. USE DEF Inv
<1>1. NextEvent(e) /\ e.fd = udp_fd_ /\ datagrams > 0
  BY DEF HandleUDPRequest
<1>2. /\ Batched(udp_fd_)
      /\ events' \in Seq([fd : Sources, hup : BOOLEAN])
      /\ \A i, j \in DOMAIN events' : events'[i].fd = events'[j].fd => i = j
      /\ \A x \in Sources : Batched(x)' <=> Batched(x) /\ x # udp_fd_
  BY <1>1, NextEffect
<1>3. /\ UNCHANGED <<backlog, conn, fdmap, ready, caller, fails, crashed>>
      /\ datagrams' = datagrams - 1 /\ datagrams \in 0..MaxQueue
  BY DEF HandleUDPRequest, TypeOK
<1>4. /\ {udp_fd_, listen_fd_} \subseteq Sources /\ Fds \subseteq Sources
      /\ udp_fd_ \notin Fds /\ udp_fd_ # listen_fd_
  BY DEF Sources
<1>5. \A x : Listed(x)' <=> Listed(x)
  BY <1>3 DEF Listed
<1>6. datagrams' \in 0..MaxQueue /\ datagrams' # MaxQueue
  BY <1>1, <1>3
<1>7. TypeOK'
  BY <1>2, <1>3, <1>6 DEF TypeOK
<1>8. Once'
  BY <1>2, <1>3 DEF Once
<1>9. Work'
  <2>1. Listed(udp_fd_) => datagrams' > 0
    BY <1>2, <1>3 DEF Work
  <2>2. ~ Batched(udp_fd_)' /\ (Batched(listen_fd_)' <=> Batched(listen_fd_))
    BY <1>2, <1>4
  <2>3. \A x \in Fds : Batched(x)' <=> Batched(x)
    BY <1>2, <1>4
  <2>. QED  BY <1>3, <1>5, <2>1, <2>2, <2>3 DEF Work
<1>10. Waiting' /\ Owned' /\ Answered'
  BY <1>3 DEF Waiting, Owned, Answered, Served
<1>11. FullBufferIsReported'
  BY <1>6 DEF FullBufferIsReported
<1>12. NotAllStuck'
  <2>1. Batched(listen_fd_)' <=> Batched(listen_fd_)
    BY <1>2, <1>4
  <2>. QED  BY <1>3, <1>5, <2>1 DEF NotAllStuck, Reported, Listed, Batched
<1>. QED  BY <1>7, <1>8, <1>9, <1>10, <1>11, <1>12

\* The descriptor that accept gives out is in no list and in no batch: nothing
\* that was said of the connection before it can be taken for the new one.
LEMMA HandleRPCAcceptKeeps ==
    ASSUME Inv, NEW e, HandleRPCAccept(e) PROVE Inv'
<1>. USE DEF Inv
<1>1. NextEvent(e) /\ e.fd = listen_fd_ /\ backlog # <<>> /\ ~ crashed
  BY DEF HandleRPCAccept, NextEvent
<1>2. /\ Batched(listen_fd_)
      /\ events' \in Seq([fd : Sources, hup : BOOLEAN])
      /\ \A i, j \in DOMAIN events' : events'[i].fd = events'[j].fd => i = j
      /\ \A x \in Sources : Batched(x)' <=> Batched(x) /\ x # listen_fd_
  BY <1>1, NextEffect
<1>3. UNCHANGED <<datagrams, ready, crashed>>
  BY DEF HandleRPCAccept
<1>. DEFINE h == Head(backlog)
<1>4. /\ backlog \in Seq(Callers) /\ Len(backlog) \in Nat
      /\ DOMAIN backlog = 1..Len(backlog) /\ 1 \in DOMAIN backlog
      /\ h = backlog[1] /\ h \in Callers /\ caller[h] = "connecting"
  <2>1. /\ backlog \in Seq(Callers) /\ Len(backlog) \in Nat
        /\ DOMAIN backlog = 1..Len(backlog)
    BY DEF TypeOK
  <2>2. 1 \in DOMAIN backlog /\ h = backlog[1] /\ h \in Callers
    BY <1>1, <2>1, EmptySeq, HeadTailProperties
  <2>. QED  BY <2>1, <2>2 DEF Waiting
<1>5. /\ backlog' \in Seq(Callers)
      /\ Len(backlog') = Len(backlog) - 1
      /\ DOMAIN backlog' = 1..Len(backlog) - 1
      /\ \A i \in 1..Len(backlog) - 1 : backlog'[i] = backlog[i + 1]
  BY <1>1, <1>4, HeadTailProperties DEF HandleRPCAccept
<1>6. PICK fd \in Fds \ fdmap, ok \in BOOLEAN :
         /\ ok \/ fails < MaxFails
         /\ fails' = IF ok THEN fails ELSE fails + 1
         /\ conn' = [conn EXCEPT ![fd] = [peer |-> h, live |-> ok, input |-> "none"]]
         /\ fdmap' = fdmap \cup {fd}
         /\ caller' = [caller EXCEPT ![h] = IF ok THEN "accepted" ELSE "idle"]
  BY DEF HandleRPCAccept
<1>. HIDE DEF h
<1>7. /\ conn' \in [Fds -> Connections]
      /\ conn'[fd] = [peer |-> h, live |-> ok, input |-> "none"]
      /\ \A x \in Fds \ {fd} : conn'[x] = conn[x]
  <2>1. [peer |-> h, live |-> ok, input |-> "none"] \in Connections
    BY <1>4 DEF Connections
  <2>. QED  BY <1>6, <2>1 DEF TypeOK
<1>8. /\ caller' \in [Callers -> {"idle", "connecting", "accepted", "sent"}]
      /\ caller'[h] = IF ok THEN "accepted" ELSE "idle"
      /\ \A d \in Callers \ {h} : caller'[d] = caller[d]
  BY <1>4, <1>6 DEF TypeOK
<1>9. /\ {udp_fd_, listen_fd_} \subseteq Sources /\ Fds \subseteq Sources
      /\ listen_fd_ \notin Fds /\ udp_fd_ # listen_fd_
  BY DEF Sources
<1>10. \A x : Listed(x)' <=> Listed(x)
  BY <1>3 DEF Listed
<1>11. TypeOK'
  <2>1. fails' \in 0..MaxFails
    BY <1>6 DEF TypeOK
  <2>2. fdmap' \in SUBSET Fds
    BY <1>6 DEF TypeOK
  <2>. QED  BY <1>2, <1>3, <1>5, <1>7, <1>8, <2>1, <2>2 DEF TypeOK
<1>12. Once'
  BY <1>2, <1>3 DEF Once
<1>13. Work'
  <2>1. Listed(listen_fd_) => Len(backlog') > 0
    BY <1>2, <1>4, <1>5 DEF Work
  <2>2. ~ Batched(listen_fd_)' /\ (Batched(udp_fd_)' <=> Batched(udp_fd_))
    BY <1>2, <1>9
  <2>3. ASSUME NEW x \in Fds, Listed(x)' \/ Batched(x)'
        PROVE  x \in fdmap' /\ conn'[x].input # "none"
    <3>1. x \in fdmap /\ conn[x].input # "none"
      BY <1>2, <1>9, <1>10, <2>3 DEF Work
    <3>. QED  BY <1>6, <1>7, <3>1
  <2>. QED  BY <1>3, <1>10, <2>1, <2>2, <2>3 DEF Work
<1>14. Waiting'
  <2>1. \A i \in 1..Len(backlog) - 1 :
           /\ i + 1 \in DOMAIN backlog /\ i + 1 # 1
           /\ backlog[i + 1] \in Callers
    BY <1>4, ElementOfSeq
  <2>2. \A i \in 1..Len(backlog) - 1 : backlog[i + 1] # h
    BY <1>4, <2>1 DEF Waiting
  <2>3. \A i \in DOMAIN backlog' : caller'[backlog'[i]] = "connecting"
    BY <1>5, <1>8, <2>1, <2>2 DEF Waiting
  <2>4. ASSUME NEW i \in DOMAIN backlog', NEW j \in DOMAIN backlog',
               backlog'[i] = backlog'[j]
        PROVE  i = j
    <3>1. backlog[i + 1] = backlog[j + 1]
      BY <1>5, <2>4
    <3>2. i + 1 = j + 1
      BY <1>5, <2>1, <3>1 DEF Waiting
    <3>. QED  BY <1>4, <1>5, <3>2
  <2>. QED  BY <2>3, <2>4 DEF Waiting
<1>15. \A x \in Fds : ~ Served(h, x)
  BY <1>4 DEF Owned
<1>16. \A d \in Callers, x \in Fds \ {fd} : Served(d, x)' <=> Served(d, x)
  BY <1>6, <1>7 DEF Served
<1>17. \A d \in Callers : Served(d, fd)' <=> d = h /\ ok
  BY <1>6, <1>7 DEF Served
<1>18. Owned'
  <2>1. ASSUME NEW d \in Callers, NEW x \in Fds, Served(d, x)'
        PROVE  caller'[d] \in {"accepted", "sent"}
    <3>1. CASE x = fd
      BY <1>8, <1>17, <2>1, <3>1
    <3>2. CASE x # fd
      <4>1. Served(d, x) /\ d # h
        BY <1>15, <1>16, <2>1, <3>2
      <4>. QED  BY <1>8, <4>1 DEF Owned
    <3>. QED  BY <3>1, <3>2
  <2>2. ASSUME NEW d \in Callers, NEW x \in Fds, NEW y \in Fds,
               Served(d, x)', Served(d, y)'
        PROVE  x = y
    BY <1>15, <1>16, <1>17, <2>2 DEF Owned
  <2>. QED  BY <2>1, <2>2 DEF Owned
<1>19. Answered'
  <2>1. ASSUME NEW d \in Callers, caller'[d] \in {"accepted", "sent"}
        PROVE  \E x \in Fds : Served(d, x)'
    <3>1. CASE d = h
      BY <1>6, <1>8, <1>17, <2>1, <3>1
    <3>2. CASE d # h
      <4>1. PICK x \in Fds : Served(d, x)
        BY <1>1, <1>8, <2>1, <3>2 DEF Answered
      <4>2. x # fd
        BY <1>6, <4>1 DEF Served
      <4>. QED  BY <1>16, <4>1, <4>2
    <3>. QED  BY <3>1, <3>2
  <2>2. \A x \in Fds : x \in fdmap' <=> conn'[x].peer # NoCaller
    <3>1. conn'[fd].peer # NoCaller /\ fd \in fdmap'
      BY <1>4, <1>6, <1>7
    <3>. QED  BY <1>1, <1>6, <1>7, <3>1 DEF Answered
  <2>. QED  BY <2>1, <2>2 DEF Answered
<1>20. FullBufferIsReported'
  <2>1. Batched(udp_fd_)' <=> Batched(udp_fd_)
    BY <1>2, <1>9
  <2>. QED  BY <1>3, <1>10, <2>1 DEF FullBufferIsReported, Reported, Listed, Batched
<1>21. NotAllStuck'
  BY <1>4, <1>8 DEF NotAllStuck
<1>. QED  BY <1>11, <1>12, <1>13, <1>14, <1>18, <1>19, <1>20, <1>21

\* A descriptor leaves the epoll set: the batch and the list forget it, and the
\* others are as they were.
LEMMA ClosingKeeps ==
    ASSUME Inv, NEW e, NextEvent(e), e.fd \in Fds,
           conn' = [conn EXCEPT ![e.fd] = Unused],
           ready' = RemoveFirst(ready, e.fd)
    PROVE  /\ ready' \in Seq(Sources)
           /\ events' \in Seq([fd : Sources, hup : BOOLEAN])
           /\ conn' \in [Fds -> Connections]
           /\ conn'[e.fd] = Unused
           /\ \A x \in Fds \ {e.fd} : conn'[x] = conn[x]
           /\ Once'
           /\ \A x \in Sources : Listed(x)' <=> Listed(x) /\ x # e.fd
           /\ \A x \in Sources : Batched(x)' <=> Batched(x) /\ x # e.fd
           /\ \A x \in {udp_fd_, listen_fd_} : Reported(x)' <=> Reported(x)
<1>. USE DEF Inv
<1>1. /\ {udp_fd_, listen_fd_} \subseteq Sources /\ Fds \subseteq Sources
      /\ listen_fd_ \notin Fds /\ udp_fd_ \notin Fds
  BY DEF Sources
<1>2. /\ ready' \in Seq(Sources)
      /\ \A i, j \in DOMAIN ready' : ready'[i] = ready'[j] => i = j
      /\ \A x \in Sources : Listed(x)' <=> Listed(x) /\ x # e.fd
  BY <1>1, RemoveEffect
<1>3. /\ events' \in Seq([fd : Sources, hup : BOOLEAN])
      /\ \A i, j \in DOMAIN events' : events'[i].fd = events'[j].fd => i = j
      /\ \A x \in Sources : Batched(x)' <=> Batched(x) /\ x # e.fd
  BY NextEffect
<1>4. Unused \in Connections
  BY DEF Unused, Connections
<1>5. /\ conn' \in [Fds -> Connections]
      /\ conn'[e.fd] = Unused
      /\ \A x \in Fds \ {e.fd} : conn'[x] = conn[x]
  BY <1>4 DEF TypeOK
<1>6. \A x \in {udp_fd_, listen_fd_} : Reported(x)' <=> Reported(x)
  <2>1. ASSUME NEW x \in {udp_fd_, listen_fd_}
        PROVE  (Listed(x)' <=> Listed(x)) /\ (Batched(x)' <=> Batched(x))
    BY <1>1, <1>2, <1>3
  <2>. QED  BY <2>1 DEF Reported, Listed, Batched
<1>. QED  BY <1>2, <1>3, <1>5, <1>6 DEF Once

\* The answer and the close: the caller of that connection, and no other, is
\* done with its call.
LEMMA HandleRPCRequestKeeps ==
    ASSUME Inv, NEW e, HandleRPCRequest(e) PROVE Inv'
<1>. USE DEF Inv
<1>. DEFINE fd == e.fd
<1>1. /\ NextEvent(e) /\ fd \in Fds /\ ~ crashed
      /\ conn' = [conn EXCEPT ![fd] = Unused]
      /\ ready' = RemoveFirst(ready, fd)
      /\ fdmap' = fdmap \ {fd}
      /\ UNCHANGED <<datagrams, backlog, fails, crashed>>
  BY DEF HandleRPCRequest, NextEvent, DispatcherDel
<1>2. /\ ready' \in Seq(Sources)
      /\ events' \in Seq([fd : Sources, hup : BOOLEAN])
      /\ conn' \in [Fds -> Connections]
      /\ conn'[fd] = Unused
      /\ \A x \in Fds \ {fd} : conn'[x] = conn[x]
      /\ Once'
      /\ \A x \in Sources : Listed(x)' <=> Listed(x) /\ x # fd
      /\ \A x \in Sources : Batched(x)' <=> Batched(x) /\ x # fd
      /\ \A x \in {udp_fd_, listen_fd_} : Reported(x)' <=> Reported(x)
  BY <1>1, ClosingKeeps
<1>3. caller' = IF conn[fd].live
                THEN [caller EXCEPT ![conn[fd].peer] = "idle"] ELSE caller
  BY DEF HandleRPCRequest
<1>. HIDE DEF fd
<1>4. /\ caller' \in [Callers -> {"idle", "connecting", "accepted", "sent"}]
      /\ \A d \in Callers : Served(d, fd) => caller'[d] = "idle"
      /\ \A d \in Callers : caller'[d] # caller[d] =>
            Served(d, fd) /\ caller'[d] = "idle"
  <2>1. conn[fd].peer \in Callers \cup {NoCaller} /\ fd \in fdmap
    <3>1. Batched(fd)
      BY <1>1, NextEffect DEF fd
    <3>. QED  BY <1>1, <3>1 DEF Work, TypeOK, Connections
  <2>2. conn[fd].peer \in Callers
    BY <1>1, <2>1 DEF Answered
  <2>. QED  BY <1>1, <1>3, <2>1, <2>2 DEF TypeOK, Served
<1>5. \A d \in Callers, x \in Fds : Served(d, x)' <=> Served(d, x) /\ x # fd
  <2>1. ~ conn'[fd].live
    BY <1>2 DEF Unused
  <2>. QED  BY <1>1, <1>2, <2>1 DEF Served
<1>6. /\ {udp_fd_, listen_fd_} \subseteq Sources /\ Fds \subseteq Sources
      /\ listen_fd_ # fd /\ udp_fd_ # fd
  BY <1>1 DEF Sources
<1>7. TypeOK'
  <2>1. fdmap' \in SUBSET Fds
    BY <1>1 DEF TypeOK
  <2>. QED  BY <1>1, <1>2, <1>4, <2>1 DEF TypeOK
<1>8. Work'
  <2>1. ASSUME NEW x \in Fds, Listed(x)' \/ Batched(x)'
        PROVE  x \in fdmap' /\ conn'[x].input # "none"
    <3>1. x # fd /\ x \in fdmap /\ conn[x].input # "none"
      BY <1>2, <1>6, <2>1 DEF Work
    <3>. QED  BY <1>1, <1>2, <3>1
  <2>2. \A x \in {udp_fd_, listen_fd_} :
           (Listed(x)' <=> Listed(x)) /\ (Batched(x)' <=> Batched(x))
    BY <1>2, <1>6
  <2>. QED  BY <1>1, <2>1, <2>2 DEF Work
<1>9. Waiting'
  <2>1. \A d \in Callers : caller[d] = "connecting" => caller'[d] = caller[d]
    BY <1>1, <1>4 DEF Owned
  <2>2. \A i \in DOMAIN backlog : backlog[i] \in Callers
    BY ElementOfSeq DEF TypeOK
  <2>. QED  BY <1>1, <2>1, <2>2 DEF Waiting
<1>10. Owned'
  <2>1. ASSUME NEW d \in Callers, NEW x \in Fds, Served(d, x)'
        PROVE  caller'[d] \in {"accepted", "sent"}
    <3>1. Served(d, x) /\ x # fd
      BY <1>5, <2>1
    <3>2. caller'[d] = caller[d]
      BY <1>1, <1>4, <3>1 DEF Owned
    <3>. QED  BY <3>1, <3>2 DEF Owned
  <2>. QED  BY <1>5, <2>1 DEF Owned
<1>11. Answered'
  <2>1. ASSUME NEW d \in Callers, caller'[d] \in {"accepted", "sent"}
        PROVE  \E x \in Fds : Served(d, x)'
    <3>1. caller'[d] = caller[d]
      BY <1>4, <2>1
    <3>2. PICK x \in Fds : Served(d, x)
      BY <1>1, <2>1, <3>1 DEF Answered
    <3>3. x # fd
      BY <1>4, <2>1, <3>2
    <3>. QED  BY <1>5, <3>2, <3>3
  <2>2. \A x \in Fds : x \in fdmap' <=> conn'[x].peer # NoCaller
    <3>1. conn'[fd].peer = NoCaller /\ fd \notin fdmap'
      BY <1>1, <1>2 DEF Unused
    <3>2. ASSUME NEW x \in Fds \ {fd}
          PROVE  x \in fdmap' <=> conn'[x].peer # NoCaller
      BY <1>1, <1>2 DEF Answered
    <3>. QED  BY <3>1, <3>2
  <2>. QED  BY <2>1, <2>2 DEF Answered
<1>12. FullBufferIsReported'
  BY <1>1, <1>2 DEF FullBufferIsReported
<1>13. NotAllStuck'
  <2>1. (\A d \in Callers : caller'[d] = "connecting")
           => \A d \in Callers : caller[d] = "connecting"
    BY <1>4
  <2>. QED  BY <1>2, <2>1 DEF NotAllStuck
<1>. QED  BY <1>2, <1>7, <1>8, <1>9, <1>10, <1>11, <1>12, <1>13

\* The last step of a process that reads through a null connector.
LEMMA HandleErrorKeeps ==
    ASSUME Inv, NEW e, HandleError(e) PROVE Inv'
<1>. USE DEF Inv
<1>. DEFINE fd == e.fd
<1>1. /\ NextEvent(e) /\ fd \in Fds
      /\ conn' = [conn EXCEPT ![fd] = Unused]
      /\ ready' = RemoveFirst(ready, fd)
      /\ crashed' = TRUE
      /\ UNCHANGED <<datagrams, backlog, fdmap, caller, fails>>
  BY DEF HandleError
<1>2. /\ ready' \in Seq(Sources)
      /\ events' \in Seq([fd : Sources, hup : BOOLEAN])
      /\ conn' \in [Fds -> Connections]
      /\ conn'[fd] = Unused
      /\ \A x \in Fds \ {fd} : conn'[x] = conn[x]
      /\ Once'
      /\ \A x \in Sources : Listed(x)' <=> Listed(x) /\ x # fd
      /\ \A x \in Sources : Batched(x)' <=> Batched(x) /\ x # fd
      /\ \A x \in {udp_fd_, listen_fd_} : Reported(x)' <=> Reported(x)
  BY <1>1, ClosingKeeps
<1>. HIDE DEF fd
<1>3. /\ {udp_fd_, listen_fd_} \subseteq Sources /\ Fds \subseteq Sources
      /\ listen_fd_ # fd /\ udp_fd_ # fd
  BY <1>1 DEF Sources
<1>4. TypeOK'
  BY <1>1, <1>2 DEF TypeOK
<1>5. Work'
  <2>1. ASSUME NEW x \in Fds, Listed(x)' \/ Batched(x)'
        PROVE  x \in fdmap' /\ conn'[x].input # "none"
    <3>1. x # fd /\ x \in fdmap /\ conn[x].input # "none"
      BY <1>2, <1>3, <2>1 DEF Work
    <3>. QED  BY <1>1, <1>2, <3>1
  <2>2. \A x \in {udp_fd_, listen_fd_} :
           (Listed(x)' <=> Listed(x)) /\ (Batched(x)' <=> Batched(x))
    BY <1>2, <1>3
  <2>. QED  BY <1>1, <2>1, <2>2 DEF Work
<1>6. Waiting'
  BY <1>1 DEF Waiting
<1>7. Owned'
  <2>1. \A d \in Callers, x \in Fds : Served(d, x)' => Served(d, x)
    <3>1. ~ conn'[fd].live
      BY <1>2 DEF Unused
    <3>. QED  BY <1>1, <1>2, <3>1 DEF Served
  <2>. QED  BY <1>1, <2>1 DEF Owned
<1>8. Answered'
  BY <1>1 DEF Answered
<1>9. FullBufferIsReported' /\ NotAllStuck'
  BY <1>1, <1>2 DEF FullBufferIsReported, NotAllStuck
<1>. QED  BY <1>2, <1>4, <1>5, <1>6, <1>7, <1>8, <1>9

LEMMA StepInvariant == Inv /\ [Next]_vars => Inv'
<1>1. ASSUME Inv, Next PROVE Inv'
  <2>1. CASE EpollWait
    BY <1>1, <2>1, EpollWaitKeeps
  <2>2. ASSUME NEW e, HandleUDPRequest(e) PROVE Inv'
    BY <1>1, <2>2, HandleUDPRequestKeeps
  <2>3. ASSUME NEW e, HandleRPCAccept(e) PROVE Inv'
    BY <1>1, <2>3, HandleRPCAcceptKeeps
  <2>4. ASSUME NEW e, HandleRPCRequest(e) PROVE Inv'
    BY <1>1, <2>4, HandleRPCRequestKeeps
  <2>5. ASSUME NEW e, HandleError(e) PROVE Inv'
    BY <1>1, <2>5, HandleErrorKeeps
  <2>6. CASE Datagram
    BY <1>1, <2>6, DatagramKeeps
  <2>7. ASSUME NEW c \in Callers, Connect(c) PROVE Inv'
    BY <1>1, <2>7, ConnectKeeps
  <2>8. ASSUME NEW c \in Callers, Send(c) PROVE Inv'
    BY <1>1, <2>8, SendKeeps
  <2>9. ASSUME NEW fd \in Fds, NEW how \in {"fin", "rst"}, HangUp(fd, how)
        PROVE  Inv'
    BY <1>1, <2>9, HangUpKeeps
  <2>. QED
    BY <1>1, <2>1, <2>2, <2>3, <2>4, <2>5, <2>6, <2>7, <2>8, <2>9
    DEF Next, Dispatch
<1>2. ASSUME Inv, UNCHANGED vars PROVE Inv'
  BY <1>2 DEF Inv, vars, server, TypeOK, Once, Work, Waiting, Owned, Answered,
              Served, Listed, Batched, FullBufferIsReported, NotAllStuck, Reported
<1>. QED  BY <1>1, <1>2

\* Inv, on which the theorems below rest, holds in every state.
THEOREM Invariance == Spec => []Inv
<1>1. Init => Inv
  BY InitInvariant
<1>2. Inv /\ [Next]_vars => Inv'
  BY StepInvariant
<1>. QED  BY <1>1, <1>2, PTL DEF Spec

\* The variables of the loop keep their types.
THEOREM TypeCorrect == Spec => []TypeOK
<1>1. Inv => TypeOK
  BY DEF Inv
<1>. QED  BY <1>1, Invariance, PTL

\* The blocking recvfrom and accept find what their event announced, and a
\* connection's event is about the connection now behind the descriptor.
THEOREM EventsAreFresh == Spec => []EventsFresh
<1>1. Inv => EventsFresh
  <2>. SUFFICES ASSUME Inv, ~ crashed, NEW i \in DOMAIN events
                PROVE  LET fd == events[i].fd IN
                       CASE fd = udp_fd_    -> datagrams > 0
                         [] fd = listen_fd_ -> backlog # <<>>
                         [] OTHER           -> fd \in fdmap /\ conn[fd].input # "none"
    BY DEF EventsFresh
  <2>. USE DEF Inv
  <2>. DEFINE fd == events[i].fd
  <2>1. fd \in Sources /\ Batched(fd)
    <3>1. events[i] \in [fd : Sources, hup : BOOLEAN]
      <4>1. /\ events \in Seq([fd : Sources, hup : BOOLEAN])
            /\ i \in 1..Len(events)
        BY DEF TypeOK
      <4>. QED  BY <4>1, ElementOfSeq
    <3>. QED  BY <3>1 DEF Batched
  <2>2. CASE fd = udp_fd_
    BY <2>1, <2>2 DEF Work
  <2>3. CASE fd = listen_fd_
    <3>1. Len(backlog) > 0 /\ backlog \in Seq(Callers)
      BY <2>1, <2>3 DEF Work, TypeOK
    <3>2. backlog # <<>>
      BY <3>1, EmptySeq
    <3>. QED  BY <2>3, <3>2
  <2>4. CASE fd \in Fds
    <3>1. fd \in fdmap /\ conn[fd].input # "none"
      BY <2>1, <2>4 DEF Work
    <3>. QED  BY <2>4, <3>1
  <2>. QED  BY <2>1, <2>2, <2>3, <2>4 DEF Sources
<1>. QED  BY <1>1, Invariance, PTL

\* A full receive buffer has an event on its way, so that it is read again.
THEOREM FullBufferIsRead == Spec => []FullBufferIsReported
<1>1. Inv => FullBufferIsReported
  BY DEF Inv
<1>. QED  BY <1>1, Invariance, PTL

\* When every caller waits in the backlog, the loop has an event to accept one.
THEOREM SomebodyIsAccepted == Spec => []NotAllStuck
<1>1. Inv => NotAllStuck
  BY DEF Inv
<1>. QED  BY <1>1, Invariance, PTL

\* A caller that waits for its answer has exactly one connection in fdmap, and
\* fdmap holds the connections that are open and no other.
THEOREM OneConnectionPerCall == Spec => []FdmapIsLive
<1>1. Inv => FdmapIsLive
  <2>. SUFFICES ASSUME Inv, ~ crashed, NEW c \in Callers
                PROVE  Cardinality({fd \in fdmap : conn[fd].live /\ conn[fd].peer = c})
                         = IF caller[c] \in {"accepted", "sent"} THEN 1 ELSE 0
    BY DEF Inv, Answered, FdmapIsLive
  <2>. USE DEF Inv
  <2>. DEFINE mine == {fd \in fdmap : conn[fd].live /\ conn[fd].peer = c}
  <2>1. \A fd : fd \in mine <=> fd \in Fds /\ Served(c, fd)
    BY DEF Served, TypeOK
  <2>. HIDE DEF mine
  <2>2. CASE caller[c] \in {"accepted", "sent"}
    <3>1. PICK fd \in Fds : Served(c, fd)
      BY <2>2 DEF Answered
    <3>2. mine = {fd}
      BY <2>1, <3>1 DEF Owned
    <3>. QED  BY <2>2, <3>2, FS_Singleton DEF mine
  <2>3. CASE caller[c] \notin {"accepted", "sent"}
    <3>1. mine = {}
      BY <2>1, <2>3 DEF Owned
    <3>. QED  BY <2>3, <3>1, FS_EmptySet DEF mine
  <2>. QED  BY <2>2, <2>3
<1>. QED  BY <1>1, Invariance, PTL
=============================================================================
