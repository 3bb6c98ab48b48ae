--------------------------- MODULE DescriptorsProofs ---------------------------
(***************************************************************************)
(* Theorems about the descriptor numbers of a server process, for any set  *)
(* of numbers and any number of sockets.  ConnectorOwnsFd and the two       *)
(* properties about leaks are not inductive: Inv adds what the thread of    *)
(* the loop holds in its hands at each of its steps.                        *)
(***************************************************************************)
EXTENDS Descriptors, TLAPS

\* While the process lives, the map has an entry for exactly the registered
\* numbers.
MapIsEpoll ==
    loop # "dead" => \A fd \in Fds : fdmap[fd] # NoEntry <=> fd \in epoll

\* Between two events the loop holds nothing.
IdleHoldsNothing == loop \in {"constructor", "wait"} => fd_data = NoData

\* A connection that was accepted and is not in the map yet.
Fresh ==
    /\ fd_data.connector \in Connectors
    /\ fd_data.fd \in Fds
    /\ fd_data.connector.fd = fd_data.fd
    /\ file[fd_data.fd] = fd_data.connector.socket
    /\ fdmap[fd_data.fd] = NoEntry

InHand ==
    /\ loop = "handshake" => Fresh
    /\ loop = "add" => Fresh \/ (fd_data.connector = Null /\ Full)

\* A connection that is being handled is still in the map.
Handled ==
    loop \in {"handle", "close"} =>
        /\ fd_data.fd \in Fds
        /\ fd_data.connector \in Connectors
        /\ fdmap[fd_data.fd] = fd_data.connector

\* A closed one is not: its number is free, or was given to a call.  An entry
\* that a hang-up has ended may have had no connector.
Destroyed ==
    loop \in {"destroy", "erase"} =>
        /\ fd_data.fd \in Fds
        /\ \/ /\ fd_data.connector \in Connectors
              /\ fd_data.connector.fd = fd_data.fd
           \/ loop = "erase" /\ fd_data.connector = Null
        /\ file[fd_data.fd] = 0 \/ file[fd_data.fd] \in calls

\* OnlyCallsLeak, without the numbers fd_data holds by accident.
Accounted ==
    \A fd \in Fds : file[fd] # 0 =>
        \/ fdmap[fd] # NoEntry
        \/ fd_data.fd = fd /\ fd_data.connector # Null
        \/ file[fd] \in calls \cup {Terminal}

\* Where the thread of the loop is while it waits for its own call.
CallerWaits ==
    call # Null =>
        /\ Process = "gateway" => loop = "constructor"
        /\ Process = "application" => loop = "handle"

Inv ==
    /\ TypeOK
    /\ ConnectorOwnsFd
    /\ NullOnlyAtStrangers
    /\ MapIsEpoll
    /\ IdleHoldsNothing
    /\ InHand
    /\ Handled
    /\ Destroyed
    /\ Accounted
    /\ CallerWaits

\* What holds besides in a process with one thread: nothing is opened between
\* close and the destructor, and nothing is closed during a call.
OneThread ==
    /\ loop \in {"destroy", "erase"} => file[fd_data.fd] = 0
    /\ call # Null => file[call.fd] = call.socket

USE DescriptorsAssumption

-----------------------------------------------------------------------------
\* A connector is never taken for a missing one.
LEMMA Distinct ==
    Null \notin Connectors /\ NoEntry \notin Connectors /\ Null # NoEntry
  BY DEF Null, NoEntry, Connectors

\* What a number led to from the start is no socket.
LEMMA TerminalIsNoSocket ==
    Terminal \in Nat /\ Terminal # 0 /\ Terminal \notin 1..MaxSockets
  BY DEF Terminal

\* A new connector for a number and the next socket.
LEMMA NewType ==
    ASSUME TypeOK, NEW fd \in Fds, Open(fd)
    PROVE  /\ NewConnector(fd) \in Connectors
           /\ opened' \in 0..MaxSockets
           /\ opened' \in 1..MaxSockets
           /\ file' \in [Fds -> 0..Terminal]
           /\ file[fd] = 0
           /\ file'[fd] = NewConnector(fd).socket
           /\ NewConnector(fd).fd = fd
           /\ NewConnector(fd).conn_status = FALSE
           /\ \A other \in Fds : other # fd => file'[other] = file[other]
<1>1. opened + 1 \in 1..MaxSockets
  BY DEF Open, TypeOK
<1>. QED  BY <1>1, TerminalIsNoSocket DEF Open, Lowest, TypeOK, NewConnector, Connectors,
                                  Terminal

\* A number that is free has no entry: entries stand for open sockets.
LEMMA FreeHasNoEntry ==
    ASSUME TypeOK, ConnectorOwnsFd, NullOnlyAtStrangers,
           NEW fd \in Fds, file[fd] = 0, loop # "dead"
    PROVE  fdmap[fd] = NoEntry
<1>1. CASE fdmap[fd] \in Connectors
  BY <1>1, Distinct DEF ConnectorOwnsFd, Connectors
<1>2. CASE fdmap[fd] = Null
  BY <1>2, TerminalIsNoSocket DEF NullOnlyAtStrangers, TypeOK
<1>. QED  BY <1>1, <1>2 DEF TypeOK

\* Nothing is open and nothing is held when a process starts.
LEMMA InitInvariant == Init => Inv
  BY Distinct, TerminalIsNoSocket
  DEF Init, Inv, TypeOK, ConnectorOwnsFd, NullOnlyAtStrangers, MapIsEpoll,
      IdleHoldsNothing, InHand, Handled, Destroyed, Accounted, CallerWaits,
      NoData, Terminal

\* Opening a socket, for a connection or for a call, disturbs no entry and
\* nothing the loop holds.
LEMMA OpenKeeps ==
    ASSUME Inv, NEW fd \in Fds, Open(fd), UNCHANGED <<epoll, fdmap>>,
           loop # "dead", calls \subseteq calls'
    PROVE  /\ ConnectorOwnsFd'
           /\ NullOnlyAtStrangers'
           /\ MapIsEpoll'
<1>1. fdmap[fd] = NoEntry
  BY NewType, FreeHasNoEntry DEF Inv
<1>2. \A other \in Fds : other # fd => file'[other] = file[other]
  BY NewType DEF Inv
<1>. QED
  BY <1>1, <1>2, Distinct
  DEF Inv, ConnectorOwnsFd, NullOnlyAtStrangers, MapIsEpoll

\* Every step keeps the invariant.
LEMMA StepInvariant == Inv /\ [Next]_vars => Inv'
<1>. SUFFICES ASSUME Inv, [Next]_vars PROVE Inv'
  OBVIOUS
<1>0. TypeOK
  BY DEF Inv
<1>1. CASE Run
  BY <1>1 DEF Run, Inv, TypeOK, ConnectorOwnsFd, NullOnlyAtStrangers,
              MapIsEpoll, IdleHoldsNothing, InHand, Handled, Destroyed,
              Accounted, CallerWaits, LoopRuns
<1>2. ASSUME NEW fd \in Fds, HandleRPCAccept(fd)
      PROVE  Inv'
  <2>. USE <1>2 DEF HandleRPCAccept
  <2>1. /\ NewConnector(fd) \in Connectors
        /\ opened' \in 0..MaxSockets
        /\ file' \in [Fds -> 0..Terminal]
        /\ file[fd] = 0
        /\ file'[fd] = NewConnector(fd).socket
        /\ NewConnector(fd).fd = fd
        /\ \A other \in Fds : other # fd => file'[other] = file[other]
    BY <1>0, NewType
  <2>2. fd_data'.fd = fd /\ fd_data'.connector = NewConnector(fd)
    OBVIOUS
  <2>3. TypeOK'
    BY <1>0, <2>1, <2>2 DEF TypeOK
  <2>4. ConnectorOwnsFd' /\ NullOnlyAtStrangers' /\ MapIsEpoll'
    BY OpenKeeps
  <2>5. InHand'
    BY <1>0, <2>1, <2>2, FreeHasNoEntry DEF Inv, InHand, Fresh
  <2>6. Accounted'
    BY <2>1, <2>2, Distinct DEF Inv, Accounted, IdleHoldsNothing, NoData
  <2>7. CallerWaits'
    BY DEF Inv, CallerWaits, LoopRuns
  <2>. QED
    BY <2>3, <2>4, <2>5, <2>6, <2>7
    DEF Inv, IdleHoldsNothing, Handled, Destroyed
<1>3. ASSUME NEW fd \in Fds \cup {NoFd}, HandleRPCAcceptFails(fd)
      PROVE  Inv'
  BY <1>3, Distinct
  DEF HandleRPCAcceptFails, Inv, TypeOK, ConnectorOwnsFd,
      NullOnlyAtStrangers, MapIsEpoll, IdleHoldsNothing, InHand, Handled,
      Destroyed, Accounted, CallerWaits, LoopRuns, NoData, Full
<1>4. CASE SSLAccept
  <2>. USE <1>4 DEF SSLAccept
  <2>1. PICK ok \in BOOLEAN :
           fd_data' = [fd_data EXCEPT !.connector.conn_status = ok]
    OBVIOUS
  <2>2. Fresh
    BY DEF Inv, InHand
  <2>3. /\ fd_data'.fd = fd_data.fd
        /\ fd_data'.connector.fd = fd_data.connector.fd
        /\ fd_data'.connector.socket = fd_data.connector.socket
        /\ fd_data'.connector \in Connectors
    BY <1>0, <2>1, <2>2 DEF Fresh, TypeOK, Connectors
  <2>4. fd_data' \in [fd : Fds \cup {NoFd}, connector : Connectors \cup {Null}]
    BY <1>0, <2>1, <2>3 DEF TypeOK
  <2>5. TypeOK'
    BY <1>0, <2>4 DEF TypeOK
  <2>6. InHand' /\ Accounted'
    BY <2>2, <2>3, Distinct DEF Inv, InHand, Fresh, Accounted
  <2>. QED
    BY <2>5, <2>6
    DEF Inv, ConnectorOwnsFd, NullOnlyAtStrangers, MapIsEpoll,
        IdleHoldsNothing, Handled, Destroyed, CallerWaits
<1>5. CASE DispatcherAdd
  <2>. USE <1>5 DEF DispatcherAdd
  <2>0. fd_data' = NoData /\ loop = "add" /\ loop' = "wait"
    OBVIOUS
  <2>1. CASE fd_data.fd \in Fds \ epoll /\ Register
    <3>1. /\ epoll' = epoll \cup {fd_data.fd}
          /\ fdmap' = [fdmap EXCEPT ![fd_data.fd] = fd_data.connector]
      BY <2>1 DEF Register
    <3>2. /\ \A fd \in Fds \ {fd_data.fd} : fdmap'[fd] = fdmap[fd]
          /\ fdmap'[fd_data.fd] = fd_data.connector
      BY <1>0, <2>1, <3>1 DEF TypeOK
    <3>3. TypeOK'
      <4>1. fd_data.connector \in Connectors \cup {Null}
        BY <1>0 DEF TypeOK
      <4>2. fdmap' \in [Fds -> Connectors \cup {Null, NoEntry}]
        BY <1>0, <3>1, <4>1 DEF TypeOK
      <4>3. fd_data' \in [fd : Fds \cup {NoFd}, connector : Connectors \cup {Null}]
        BY <2>0 DEF NoData
      <4>. QED  BY <1>0, <2>0, <2>1, <3>1, <4>2, <4>3 DEF TypeOK
    <3>4. CASE Fresh
      BY <2>0, <2>1, <3>1, <3>4, <3>2, <3>3, Distinct
      DEF Inv, ConnectorOwnsFd, NullOnlyAtStrangers, MapIsEpoll,
          IdleHoldsNothing, InHand, Handled, Destroyed, Accounted,
          CallerWaits, NoData, Fresh
    <3>5. CASE fd_data.connector = Null /\ Full
      <4>1. file[fd_data.fd] \in calls \cup {Terminal}
        BY <2>0, <2>1, <3>5 DEF Inv, Accounted, MapIsEpoll, Full
      <4>. QED
        BY <2>0, <2>1, <3>1, <3>5, <3>2, <3>3, <4>1, Distinct
        DEF Inv, ConnectorOwnsFd, NullOnlyAtStrangers, MapIsEpoll,
            IdleHoldsNothing, InHand, Handled, Destroyed, Accounted,
            CallerWaits, NoData
    <3>. QED  BY <2>0, <3>4, <3>5 DEF Inv, InHand
  <2>2. CASE /\ fd_data.fd \in Fds \ epoll => file[fd_data.fd] = Terminal
             /\ UNCHANGED <<epoll, fdmap>>
    <3>1. ~ Fresh
      <4>. SUFFICES ASSUME Fresh PROVE FALSE
        OBVIOUS
      <4>1. fd_data.fd \in Fds \ epoll
        BY <2>0 DEF Inv, Fresh, MapIsEpoll
      <4>2. fd_data.connector.socket = Terminal /\ fd_data.connector \in Connectors
        BY <2>2, <4>1 DEF Fresh
      <4>. QED  BY <4>2, TerminalIsNoSocket DEF Connectors
    <3>2. fd_data.connector = Null
      BY <2>0, <3>1 DEF Inv, InHand
    <3>. QED
      BY <2>0, <2>2, <3>2
      DEF Inv, TypeOK, ConnectorOwnsFd, NullOnlyAtStrangers, MapIsEpoll,
          IdleHoldsNothing, InHand, Handled, Destroyed, Accounted,
          CallerWaits, NoData
  <2>. QED  BY <2>1, <2>2
<1>6. ASSUME NEW fd \in Fds, HandleRequest(fd)
      PROVE  Inv'
  <2>. USE <1>6 DEF HandleRequest
  <2>1. fdmap[fd] \in Connectors \cup {Null}
    BY <1>0 DEF Inv, MapIsEpoll, TypeOK
  <2>2. /\ fd_data'.fd = fd
        /\ fd_data'.connector = fdmap[fd]
        /\ loop' = IF fdmap[fd] = Null THEN "dead" ELSE "handle"
    OBVIOUS
  <2>3. TypeOK'
    BY <1>0, <2>1 DEF TypeOK
  <2>4. Accounted'
    BY DEF Inv, Accounted, IdleHoldsNothing, NoData
  <2>. QED
    BY <2>1, <2>2, <2>3, <2>4
    DEF Inv, ConnectorOwnsFd, NullOnlyAtStrangers, MapIsEpoll,
        IdleHoldsNothing, InHand, Handled, Destroyed, CallerWaits, LoopRuns
<1>13. ASSUME NEW fd \in Fds, HangUp(fd)
       PROVE  Inv'
  <2>. USE <1>13 DEF HangUp
  <2>1. fdmap[fd] \in Connectors \cup {Null}
    BY <1>0 DEF Inv, MapIsEpoll, TypeOK
  <2>2. /\ fd_data'.fd = fd /\ fd_data'.connector = fdmap[fd]
        /\ fdmap[fd] \in Connectors => fdmap[fd].fd = fd
    BY Distinct DEF Inv, ConnectorOwnsFd
  <2>3. TypeOK'
    <3>1. file' \in [Fds -> 0..Terminal]
      BY <1>0, TerminalIsNoSocket DEF TypeOK
    <3>2. fdmap' \in [Fds -> Connectors \cup {Null, NoEntry}]
      BY <1>0 DEF TypeOK
    <3>. QED  BY <1>0, <2>1, <3>1, <3>2 DEF TypeOK
  <2>4. /\ file'[fd] = 0 /\ fdmap'[fd] = NoEntry
        /\ \A other \in Fds : other # fd =>
              file'[other] = file[other] /\ fdmap'[other] = fdmap[other]
    BY <1>0 DEF TypeOK
  <2>5. ConnectorOwnsFd' /\ NullOnlyAtStrangers'
    BY <2>4, Distinct DEF Inv, ConnectorOwnsFd, NullOnlyAtStrangers
  <2>6. MapIsEpoll' /\ Accounted' /\ Destroyed'
    BY <2>1, <2>2, <2>4 DEF Inv, MapIsEpoll, Accounted, Destroyed,
                            IdleHoldsNothing, NoData
  <2>. QED
    BY <2>3, <2>5, <2>6
    DEF Inv, IdleHoldsNothing, InHand, Handled, CallerWaits, LoopRuns
<1>14. CASE EraseEntry
  <2>. USE <1>14 DEF EraseEntry
  <2>0. /\ fd_data.fd \in Fds /\ fd_data' = NoData /\ UNCHANGED <<file, calls, epoll>>
        /\ file[fd_data.fd] = 0 \/ file[fd_data.fd] \in calls
    BY DEF Inv, Destroyed
  <2>1. Accounted' /\ TypeOK' /\ ConnectorOwnsFd' /\ NullOnlyAtStrangers' /\ MapIsEpoll'
    <3>1. CASE loop' = "wait" /\ fdmap' = fdmap
      BY <1>0, <2>0, <3>1, Distinct
      DEF Inv, Accounted, TypeOK, ConnectorOwnsFd, NullOnlyAtStrangers, MapIsEpoll,
          NoData
    <3>2. CASE loop' = "dead" /\ fdmap' = [fdmap EXCEPT ![fd_data.fd] = Null]
      <4>1. /\ fdmap'[fd_data.fd] = Null
            /\ \A fd \in Fds \ {fd_data.fd} : fdmap'[fd] = fdmap[fd]
            /\ fdmap' \in [Fds -> Connectors \cup {Null, NoEntry}]
        BY <1>0, <2>0, <3>2 DEF TypeOK
      <4>2. TypeOK' /\ MapIsEpoll'
        BY <1>0, <2>0, <3>2, <4>1 DEF TypeOK, MapIsEpoll, NoData
      <4>3. ConnectorOwnsFd' /\ NullOnlyAtStrangers'
        BY <2>0, <3>2, <4>1 DEF Inv, ConnectorOwnsFd, NullOnlyAtStrangers
      <4>4. Accounted'
        BY <2>0, <4>1, Distinct DEF Inv, Accounted, NoData
      <4>. QED  BY <4>2, <4>3, <4>4
    <3>. QED  BY <3>1, <3>2
  <2>. QED
    BY <2>0, <2>1
    DEF Inv, IdleHoldsNothing, InHand, Handled, Destroyed, CallerWaits, LoopRuns,
        NoData
<1>7. CASE DispatcherDel
  <2>. USE <1>7 DEF DispatcherDel
  <2>1. /\ fd_data.fd \in Fds
        /\ fd_data.connector \in Connectors
        /\ fdmap[fd_data.fd] = fd_data.connector
    BY DEF Inv, Handled
  <2>2. fd_data.connector.fd = fd_data.fd
    BY <2>1, Distinct DEF Inv, ConnectorOwnsFd
  <2>3. TypeOK'
    <3>1. file' \in [Fds -> 0..Terminal]
      BY <1>0, <2>1, TerminalIsNoSocket DEF TypeOK
    <3>2. fdmap' \in [Fds -> Connectors \cup {Null, NoEntry}]
      BY <1>0, <2>1 DEF TypeOK
    <3>. QED  BY <1>0, <3>1, <3>2 DEF TypeOK
  <2>4. /\ file'[fd_data.fd] = 0
        /\ fdmap'[fd_data.fd] = NoEntry
        /\ \A fd \in Fds : fd # fd_data.fd =>
              file'[fd] = file[fd] /\ fdmap'[fd] = fdmap[fd]
    BY <1>0, <2>1 DEF TypeOK
  <2>5. ConnectorOwnsFd' /\ NullOnlyAtStrangers'
    BY <2>4, Distinct DEF Inv, ConnectorOwnsFd, NullOnlyAtStrangers
  <2>6. MapIsEpoll' /\ Accounted' /\ Destroyed'
    BY <2>1, <2>2, <2>4 DEF Inv, MapIsEpoll, Accounted, Destroyed
  <2>. QED
    BY <2>3, <2>5, <2>6
    DEF Inv, IdleHoldsNothing, InHand, Handled, CallerWaits, LoopRuns
<1>8. CASE DestroyFdData
  <2>. USE <1>8 DEF DestroyFdData
  <2>1. Accounted'
    BY DEF Inv, Accounted, Destroyed
  <2>. QED
    BY <2>1
    DEF Inv, TypeOK, ConnectorOwnsFd, NullOnlyAtStrangers, MapIsEpoll,
        IdleHoldsNothing, InHand, Handled, Destroyed, CallerWaits, LoopRuns,
        NoData
<1>9. ASSUME NEW fd \in Fds, CallSocket(fd)
      PROVE  Inv'
  <2>. USE <1>9 DEF CallSocket
  <2>0. loop # "dead"
    BY DEF MayCall
  <2>1. /\ NewConnector(fd) \in Connectors
        /\ opened' \in 0..MaxSockets
        /\ opened + 1 \in 1..MaxSockets
        /\ file' \in [Fds -> 0..Terminal]
        /\ file[fd] = 0
        /\ file'[fd] = opened + 1
        /\ \A other \in Fds : other # fd => file'[other] = file[other]
    BY <1>0, NewType DEF Open, NewConnector
  <2>2. TypeOK'
    BY <1>0, <2>1 DEF TypeOK
  <2>3. ConnectorOwnsFd' /\ NullOnlyAtStrangers' /\ MapIsEpoll'
    BY <2>0, OpenKeeps
  <2>4. InHand'
    <3>1. ASSUME Fresh PROVE Fresh'
      <4>1. file[fd_data.fd] # 0
        BY <3>1 DEF Fresh, Connectors
      <4>2. file'[fd_data.fd] = file[fd_data.fd]
        BY <2>1, <3>1, <4>1 DEF Fresh
      <4>. QED  BY <3>1, <4>2 DEF Fresh
    <3>2. ~ Full
      BY <2>1 DEF Full
    <3>. QED  BY <3>1, <3>2 DEF Inv, InHand
  <2>5. Destroyed'
    <3>1. ASSUME loop \in {"destroy", "erase"}
          PROVE  file'[fd_data.fd] = 0 \/ file'[fd_data.fd] \in calls'
      BY <2>1, <3>1 DEF Inv, Destroyed
    <3>. QED  BY <3>1 DEF Inv, Destroyed
  <2>6. Accounted'
    BY <2>1 DEF Inv, Accounted
  <2>7. CallerWaits'
    BY DEF CallerWaits, MayCall
  <2>. QED
    BY <2>2, <2>3, <2>4, <2>5, <2>6, <2>7 DEF Inv, IdleHoldsNothing, Handled
<1>10. CASE SSLConnect
  <2>. USE <1>10 DEF SSLConnect
  <2>1. call' \in Connectors
    BY <1>0 DEF TypeOK, Connectors
  <2>. QED
    BY <1>0, <2>1
    DEF Inv, TypeOK, ConnectorOwnsFd, NullOnlyAtStrangers, MapIsEpoll,
        IdleHoldsNothing, InHand, Fresh, Full, Handled, Destroyed, Accounted,
        CallerWaits
<1>11. CASE CallReturns
  <2>. USE <1>11 DEF CallReturns
  <2>1. /\ Process = "controller" => loop' = loop
        /\ Process = "gateway" => loop = "constructor" /\ loop' = "wait"
        /\ Process = "application" => loop = "handle" /\ loop' = "close"
    BY DEF Inv, CallerWaits
  <2>2. TypeOK'
    BY <1>0, <2>1 DEF TypeOK
  <2>. QED
    BY <2>1, <2>2
    DEF Inv, ConnectorOwnsFd, NullOnlyAtStrangers, MapIsEpoll,
        IdleHoldsNothing, InHand, Fresh, Full, Handled, Destroyed, Accounted,
        CallerWaits
<1>12. CASE UNCHANGED vars
  BY <1>12
  DEF vars, Inv, TypeOK, ConnectorOwnsFd, NullOnlyAtStrangers, MapIsEpoll,
      IdleHoldsNothing, InHand, Fresh, Full, Handled, Destroyed, Accounted,
      CallerWaits
<1>. QED
  BY <1>1, <1>2, <1>3, <1>4, <1>5, <1>6, <1>7, <1>8, <1>9, <1>10, <1>11,
     <1>12, <1>13, <1>14 DEF Next

\* Inv holds in every reachable state of each of the three servers.
LEMMA Invariance == Spec => []Inv
  BY InitInvariant, StepInvariant, PTL DEF Spec

\* The table is well typed: every connector was given a number that exists.
THEOREM TypeCorrect == Spec => []TypeOK
<1>1. Inv => TypeOK
  BY DEF Inv
<1>. QED  BY <1>1, Invariance, PTL

\* However many numbers there are and however often they are given out again,
\* an entry's connector is the one made for the socket behind its number.
THEOREM ConnectorsOwnTheirFds == Spec => []ConnectorOwnsFd
<1>1. Inv => ConnectorOwnsFd
  BY DEF Inv
<1>. QED  BY <1>1, Invariance, PTL

\* In each of the three servers, with any inherited numbers, an entry without a
\* connector is made at no connection the loop has accepted: only at a call's
\* socket, at an inherited number, or at one closed just now, as the last step.
THEOREM NullNeedsAStranger == Spec => []NullOnlyAtStrangers
<1>1. Inv => NullOnlyAtStrangers
  BY DEF Inv
<1>. QED  BY <1>1, Invariance, PTL

\* In each of the three servers only the sockets of calls, and what was open from
\* the start, are left open.
THEOREM LoopClosesWhatItAccepts == Spec => []OnlyCallsLeak
<1>1. Inv => OnlyCallsLeak
  BY DEF Inv, Accounted, OnlyCallsLeak
<1>. QED  BY <1>1, Invariance, PTL

-----------------------------------------------------------------------------
\* The alert of a destroyed connector, in a process with one thread.

\* Without a second thread nothing is opened between close and the destructor,
\* and nothing is closed during a call.
LEMMA StepOneThread ==
    ASSUME Process # "controller", Inv, OneThread, [Next]_vars
    PROVE  OneThread'
<1>0. TypeOK
  BY DEF Inv
<1>1. ASSUME NEW fd \in Fds, HandleRPCAccept(fd)
      PROVE  OneThread'
  BY <1>1 DEF HandleRPCAccept, OneThread, LoopRuns
<1>2. CASE DispatcherDel
  BY <1>0, <1>2 DEF DispatcherDel, OneThread, LoopRuns, Inv, Handled, TypeOK
<1>7. ASSUME NEW fd \in Fds, HangUp(fd)
      PROVE  OneThread'
  BY <1>0, <1>7 DEF HangUp, OneThread, LoopRuns, TypeOK
<1>3. ASSUME NEW fd \in Fds, CallSocket(fd)
      PROVE  OneThread'
  <2>1. call' = NewConnector(fd) /\ Open(fd) /\ loop' = loop
    BY <1>3 DEF CallSocket
  <2>2. file'[fd] = NewConnector(fd).socket /\ NewConnector(fd).fd = fd
    BY <1>0, <2>1, NewType
  <2>3. loop \notin {"destroy", "erase"}
    BY <1>3 DEF CallSocket, MayCall
  <2>. QED  BY <2>1, <2>2, <2>3 DEF OneThread
<1>4. CASE SSLConnect
  <2>1. call'.fd = call.fd /\ call'.socket = call.socket
    BY <1>0, <1>4 DEF SSLConnect, TypeOK, Connectors
  <2>. QED  BY <1>4, <2>1 DEF SSLConnect, OneThread
<1>5. CASE CallReturns
  BY <1>5 DEF CallReturns, OneThread, Inv, CallerWaits
<1>6. CASE \/ Run \/ SSLAccept \/ DispatcherAdd \/ DestroyFdData \/ EraseEntry
           \/ \E fd \in Fds : HandleRequest(fd)
           \/ \E fd \in Fds \cup {NoFd} : HandleRPCAcceptFails(fd)
           \/ UNCHANGED vars
  BY <1>6 DEF Run, SSLAccept, DispatcherAdd, DestroyFdData, EraseEntry,
              HandleRequest, HandleRPCAcceptFails, OneThread, vars
<1>. QED  BY <1>1, <1>2, <1>3, <1>4, <1>5, <1>6, <1>7 DEF Next

\* A connector whose last share goes in a step owns its number or the number
\* is free, and then its alert reaches its own connection or nobody.
LEMMA StepAlert ==
    ASSUME Process # "controller", Inv, OneThread, [Next]_vars,
           NEW c \in Held \ Held'
    PROVE  AlertTo(c)' \in {0, c.socket}
<1>0. TypeOK
  BY DEF Inv
<1>1. ~ Null.conn_status /\ ~ NoEntry.conn_status
  BY DEF Null, NoEntry
<1>2. SUFFICES ASSUME c \in Connectors, c.conn_status
               PROVE  file'[c.fd] \in {0, c.socket}
  BY <1>0, <1>1 DEF Held, AlertTo, TypeOK
<1>3. CASE c = call
  <2>1. CallReturns \/ SSLConnect
    BY <1>2, <1>3, Distinct
    DEF Next, Held, Run, HandleRPCAccept, HandleRPCAcceptFails, SSLAccept,
        DispatcherAdd, HandleRequest, HangUp, EraseEntry, DispatcherDel,
        DestroyFdData, CallSocket, vars
  <2>2. CallReturns
    BY <1>2, <1>3, <2>1 DEF SSLConnect
  <2>. QED
    BY <1>2, <1>3, <2>2, Distinct DEF CallReturns, OneThread
<1>4. CASE c = fd_data.connector /\ c # call
  <2>1. CASE DestroyFdData \/ EraseEntry
    BY <1>2, <1>4, <2>1, Distinct
    DEF DestroyFdData, EraseEntry, OneThread, Inv, Destroyed
  <2>2. CASE SSLAccept
    BY <1>4, <2>2 DEF SSLAccept, Inv, InHand, Fresh
  <2>3. CASE DispatcherAdd
    <3>1. Fresh
      BY <1>2, <1>4, <2>3, Distinct DEF DispatcherAdd, Inv, InHand
    <3>2. fd_data.fd \in Fds \ epoll
      BY <2>3, <3>1 DEF DispatcherAdd, Fresh, Inv, MapIsEpoll
    <3>4. file[fd_data.fd] # Terminal
      BY <3>1, TerminalIsNoSocket DEF Fresh, Connectors
    <3>3. fdmap'[fd_data.fd] = c
      BY <1>0, <1>4, <2>3, <3>2, <3>4 DEF DispatcherAdd, Register, TypeOK
    <3>. QED  BY <3>2, <3>3 DEF Held
  <2>4. CASE ~ (DestroyFdData \/ EraseEntry \/ SSLAccept \/ DispatcherAdd)
    BY <1>2, <1>4, <2>4, Distinct
    DEF Next, Held, Run, HandleRPCAccept, HandleRPCAcceptFails, HandleRequest,
        HangUp, DispatcherDel, CallSocket, SSLConnect, CallReturns, vars, Inv,
        IdleHoldsNothing, NoData
  <2>. QED  BY <2>1, <2>2, <2>3, <2>4
<1>5. CASE c # call /\ c # fd_data.connector
  <2>1. PICK fd \in Fds : c = fdmap[fd]
    BY <1>5 DEF Held
  <2>2. c.fd = fd /\ file[fd] = c.socket
    BY <1>2, <2>1, Distinct DEF Inv, ConnectorOwnsFd
  <2>3. CASE DispatcherDel
    BY <1>0, <2>1, <2>2, <2>3 DEF DispatcherDel, Inv, Handled, TypeOK
  <2>5. CASE \E other \in Fds : HangUp(other)
    BY <1>0, <2>1, <2>2, <2>5 DEF HangUp, Held, TypeOK
  <2>4. CASE ~ (DispatcherDel \/ \E other \in Fds : HangUp(other))
    <3>1. file[fd] # 0
      BY <1>2, <2>2 DEF Connectors
    <3>2. file' = file \/ \E other \in Fds : Open(other)
      BY <2>4
      DEF Next, Run, HandleRPCAccept, HandleRPCAcceptFails, SSLAccept,
          DispatcherAdd, HandleRequest, DestroyFdData, EraseEntry, CallSocket,
          SSLConnect,
          CallReturns, vars
    <3>3. file'[fd] = file[fd]
      BY <1>0, <3>1, <3>2, NewType
    <3>. QED  BY <2>2, <3>3
  <2>. QED  BY <2>3, <2>4, <2>5
<1>. QED  BY <1>3, <1>4, <1>5

\* In the gateway and in the application, which have one thread, the alert of a
\* destroyed connector never reaches another connection.
THEOREM AlertsStayHome ==
    ASSUME Process # "controller" PROVE Spec => AlertStaysHome
<1>1. Init => OneThread
  BY DEF Init, OneThread
<1>2. Inv /\ OneThread /\ [Next]_vars => OneThread'
  BY StepOneThread
<1>3. Inv /\ OneThread /\ [Next]_vars =>
         [\A c \in Held \ Held' : AlertTo(c)' \in {0, c.socket}]_vars
  BY StepAlert
<1>. QED  BY <1>1, <1>2, <1>3, Invariance, PTL DEF Spec, AlertStaysHome
=============================================================================
