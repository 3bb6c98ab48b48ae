-------------------------- MODULE ApplicationProofs --------------------------
(***************************************************************************)
(* Proofs about Application, for every set of addresses, every limit and    *)
(* every length of a minute, as long as the times fit into the int that     *)
(* stores a minute.                                                         *)
(***************************************************************************)
EXTENDS Application, TLAPS

USE ApplicationAssumption

-----------------------------------------------------------------------------
\* Minutes.

\* A minute begins at a time that is not in the future, and never decreases.
LEMMA MinuteRange == \A t \in Nat : Minute(t) \in 0..t
  BY DEF Minute

\* A time is the quotient times the length plus the remainder.
LEMMA Division ==
    \A t \in Nat : /\ t \div MinuteLen \in Nat
                   /\ t % MinuteLen \in 0..MinuteLen - 1
                   /\ t = MinuteLen * (t \div MinuteLen) + (t % MinuteLen)
  OBVIOUS

\* The product with the length is monotone.
LEMMA ProductGrows ==
    \A p \in Nat, q \in Nat : p < q => MinuteLen * p + MinuteLen <= MinuteLen * q
  OBVIOUS

\* When the clock advances the minute stays or increases.
LEMMA MinuteGrows == \A t \in Nat : Minute(t) <= Minute(t + 1)
<1>. SUFFICES ASSUME NEW t \in Nat PROVE Minute(t) <= Minute(t + 1)
  OBVIOUS
<1>. DEFINE p == t \div MinuteLen
            q == (t + 1) \div MinuteLen
<1>1. /\ p \in Nat /\ q \in Nat
      /\ t % MinuteLen \in 0..MinuteLen - 1
      /\ (t + 1) % MinuteLen \in 0..MinuteLen - 1
      /\ t = MinuteLen * p + (t % MinuteLen)
      /\ t + 1 = MinuteLen * q + ((t + 1) % MinuteLen)
  BY Division
<1>2. MinuteLen * p \in Nat /\ MinuteLen * q \in Nat
  BY <1>1
<1>3. Minute(t) = MinuteLen * p /\ Minute(t + 1) = MinuteLen * q
  BY <1>1, <1>2 DEF Minute
<1>. HIDE DEF p, q
<1>4. ~ q < p
  <2>1. SUFFICES ASSUME q < p PROVE FALSE
    OBVIOUS
  <2>2. MinuteLen * q + MinuteLen <= MinuteLen * p
    BY <1>1, <2>1, ProductGrows
  <2>. QED  BY <1>1, <1>2, <2>2
<1>5. CASE p = q
  BY <1>2, <1>3, <1>5
<1>6. CASE p < q
  <2>1. MinuteLen * p + MinuteLen <= MinuteLen * q
    BY <1>1, <1>6, ProductGrows
  <2>. QED  BY <1>2, <1>3, <2>1
<1>. QED  BY <1>1, <1>4, <1>5, <1>6

-----------------------------------------------------------------------------
\* The inductive invariant.  The history of a minute is what the map counts in
\* it; a refusal for frequency leaves the count above the limit for the rest of
\* its minute; a refusal for lateness is a visit.

Counted ==
    \A ip \in IPs : passed[ip] > 0 =>
        SeenThisMinute(ip) /\ passed[ip] <= visist_freq_map_[ip].times

StillOver ==
    \A ip \in IPs :
        /\ overMinute[ip] <= Minute(now)
        /\ overMinute[ip] = Minute(now) =>
              /\ SeenThisMinute(ip)
              /\ visist_freq_map_[ip].times > ACCESS_TIMES_LIMIT_ONE_MIN

Visited ==
    \A ip \in IPs : /\ lateAt[ip] <= last_visit_time_map_[ip]
                    /\ last_visit_time_map_[ip] <= now

IInv == TypeOK /\ LimitPerMinute /\ Counted /\ StillOver /\ Visited

\* The initial state satisfies the invariant.
LEMMA InitInvariant == Init => IInv
<1>. SUFFICES ASSUME Init PROVE IInv
  OBVIOUS
<1>1. Minute(now) = 0
  BY MinuteRange DEF Init
<1>2. TypeOK
  BY DEF Init, TypeOK, Times, Freqs, NoVisits, Never, NoTime
<1>3. LimitPerMinute /\ Counted
  BY DEF Init, LimitPerMinute, Counted
<1>4. StillOver /\ Visited
  BY <1>1 DEF Init, StillOver, Visited, Never, NoTime
<1>. QED  BY <1>2, <1>3, <1>4 DEF IInv

\* What the first judgement writes for the address it judges.
LEMMA Judged ==
    ASSUME MaxTime <= IntMax, IInv, NEW ip \in IPs, FrequencyJudgment(ip)
    PROVE  /\ Visits(ip) \in 1..MaxVisits
           /\ visist_freq_map_'[ip] = [times |-> Visits(ip), min |-> Minute(now)]
           /\ passed[ip] + 1 <= Visits(ip)
           /\ \A i \in IPs \ {ip} : visist_freq_map_'[i] = visist_freq_map_[i]
           /\ visist_freq_map_' \in [IPs -> Freqs]
<1>1. /\ now \in Nat /\ now <= MaxTime /\ Minute(now) \in 0..now
      /\ visist_freq_map_ \in [IPs -> Freqs]
      /\ passed[ip] \in Nat
  BY MinuteRange DEF IInv, TypeOK, Times
<1>2. /\ visist_freq_map_[ip].times \in 0..MaxVisits
      /\ visist_freq_map_[ip].min \in -(IntMax + 1)..IntMax
  BY <1>1 DEF Freqs
<1>3. Visits(ip) \in 1..MaxVisits
  <2>1. Visits(ip) \in Nat \ {0}
    BY <1>2 DEF Visits
  <2>2. Visits(ip) <= MaxVisits
    BY DEF FrequencyJudgment
  <2>. QED  BY <2>1, <2>2
<1>4. ToInt(Minute(now)) = Minute(now) /\ Minute(now) \in -(IntMax + 1)..IntMax
  BY <1>1 DEF ToInt
<1>5. passed[ip] + 1 <= Visits(ip)
  BY <1>1, <1>2 DEF IInv, Counted, Visits
<1>6. visist_freq_map_' = [visist_freq_map_ EXCEPT ![ip] =
          [times |-> Visits(ip), min |-> Minute(now)]]
  BY <1>1, <1>4 DEF FrequencyJudgment, SeenThisMinute
<1>7. [times |-> Visits(ip), min |-> Minute(now)] \in Freqs
  BY <1>3, <1>4 DEF Freqs
<1>. QED  BY <1>1, <1>3, <1>5, <1>6, <1>7

\* The first judgement keeps the invariant.
LEMMA FrequencyKeeps ==
    ASSUME MaxTime <= IntMax, IInv, NEW ip \in IPs, FrequencyJudgment(ip)
    PROVE  IInv'
<1>1. /\ Visits(ip) \in 1..MaxVisits
      /\ visist_freq_map_'[ip] = [times |-> Visits(ip), min |-> Minute(now)]
      /\ passed[ip] + 1 <= Visits(ip)
      /\ \A i \in IPs \ {ip} : visist_freq_map_'[i] = visist_freq_map_[i]
      /\ visist_freq_map_' \in [IPs -> Freqs]
  BY Judged
<1>2. /\ now \in Times /\ now' = now /\ Minute(now') = Minute(now)
      /\ Minute(now) \in 0..now /\ Minute(now) \in Times
  BY MinuteRange DEF IInv, TypeOK, Times, FrequencyJudgment
<1>3. /\ passed \in [IPs -> 0..MaxVisits]
      /\ overMinute \in [IPs -> Times \cup {NoTime}]
      /\ reach \in [IPs -> BOOLEAN]
      /\ inbox \in Seq(IPs)
  BY DEF IInv, TypeOK
<1>4. \/ /\ TooFrequent(ip)
         /\ Notice(ip)
         /\ overMinute' = [overMinute EXCEPT ![ip] = Minute(now)]
         /\ pending' = pending /\ passed' = passed
      \/ /\ ~ TooFrequent(ip)
         /\ pending' = ip
         /\ passed' = [passed EXCEPT ![ip] = @ + 1]
         /\ reach' = reach /\ overMinute' = overMinute
  BY DEF FrequencyJudgment
<1>5. /\ passed' \in [IPs -> 0..MaxVisits]
      /\ overMinute' \in [IPs -> Times \cup {NoTime}]
      /\ reach' \in [IPs -> BOOLEAN]
      /\ pending' \in IPs \cup {NoIP}
  <2>1. passed[ip] + 1 \in 0..MaxVisits
    BY <1>1, <1>3
  <2>2. passed' \in [IPs -> 0..MaxVisits]
    BY <1>3, <1>4, <2>1
  <2>3. overMinute' \in [IPs -> Times \cup {NoTime}]
    BY <1>2, <1>3, <1>4
  <2>4. reach' \in [IPs -> BOOLEAN]
    BY <1>3, <1>4 DEF Notice
  <2>5. pending' \in IPs \cup {NoIP}
    BY <1>4 DEF IInv, TypeOK
  <2>. QED  BY <2>2, <2>3, <2>4, <2>5
<1>6. inbox' \in Seq(IPs) /\ Len(inbox') <= MaxInbox
  <2>1. inbox # <<>> /\ inbox' = Tail(inbox)
    BY DEF FrequencyJudgment
  <2>. QED  BY <1>3, <2>1 DEF IInv, TypeOK
<1>7. TypeOK'
  BY <1>1, <1>5, <1>6 DEF IInv, TypeOK, FrequencyJudgment
<1>8. ASSUME NEW i \in IPs
      PROVE  /\ passed'[i] <= ACCESS_TIMES_LIMIT_ONE_MIN
             /\ passed'[i] > 0 => SeenThisMinute(i)'
                                    /\ passed'[i] <= visist_freq_map_'[i].times
             /\ overMinute'[i] <= Minute(now')
             /\ overMinute'[i] = Minute(now') =>
                   /\ SeenThisMinute(i)'
                   /\ visist_freq_map_'[i].times > ACCESS_TIMES_LIMIT_ONE_MIN
  <2>1. CASE i # ip
    BY <1>1, <1>2, <1>3, <1>4, <2>1
    DEF IInv, LimitPerMinute, Counted, StillOver, SeenThisMinute
  <2>2. CASE i = ip /\ TooFrequent(ip)
    BY <1>1, <1>2, <1>3, <1>4, <2>2
    DEF IInv, LimitPerMinute, SeenThisMinute, TooFrequent
  <2>3. CASE i = ip /\ ~ TooFrequent(ip)
    <3>1. overMinute[ip] = Minute(now) => TooFrequent(ip)
      <4>1. visist_freq_map_[ip].times \in Nat
        BY DEF IInv, TypeOK, Freqs
      <4>. QED  BY <4>1 DEF IInv, StillOver, TooFrequent, Visits
    <3>. QED
      BY <1>1, <1>2, <1>3, <1>4, <2>3, <3>1
      DEF IInv, StillOver, SeenThisMinute, TooFrequent
  <2>. QED  BY <2>1, <2>2, <2>3
<1>9. Visited'
  BY <1>2 DEF IInv, Visited, FrequencyJudgment
<1>. QED  BY <1>7, <1>8, <1>9 DEF IInv, LimitPerMinute, Counted, StillOver

\* The second judgement keeps the invariant: it writes the visit whether or not
\* it refuses.
LEMMA TimeLimitKeeps ==
    ASSUME IInv, NEW ip \in IPs, TimeLimitJudgement(ip) PROVE IInv'
<1>1. /\ now \in Times /\ now' = now
      /\ UNCHANGED <<inbox, visist_freq_map_, restarts, passed, overMinute>>
      /\ last_visit_time_map_' = [last_visit_time_map_ EXCEPT ![ip] = now]
      /\ pending' = NoIP
  BY DEF IInv, TypeOK, TimeLimitJudgement
<1>2. /\ lateAt' \in {lateAt, [lateAt EXCEPT ![ip] = now]}
      /\ Notice(ip) \/ reach' = reach
  BY DEF TimeLimitJudgement
<1>3. TypeOK'
  <2>1. reach' \in [IPs -> BOOLEAN]
    BY <1>2 DEF IInv, TypeOK, Notice
  <2>2. last_visit_time_map_' \in [IPs -> Times \cup {NoTime}]
    BY <1>1 DEF IInv, TypeOK
  <2>3. lateAt' \in [IPs -> Times \cup {NoTime}]
    <3>1. lateAt \in [IPs -> Times \cup {NoTime}]
      BY DEF IInv, TypeOK
    <3>. QED  BY <1>1, <1>2, <3>1
  <2>. QED  BY <1>1, <2>1, <2>2, <2>3 DEF IInv, TypeOK
<1>4. LimitPerMinute' /\ Counted' /\ StillOver'
  BY <1>1 DEF IInv, LimitPerMinute, Counted, StillOver, SeenThisMinute, Minute
<1>5. Visited'
  <2>1. /\ last_visit_time_map_ \in [IPs -> Times \cup {NoTime}]
        /\ lateAt \in [IPs -> Times \cup {NoTime}]
    BY DEF IInv, TypeOK
  <2>. QED  BY <1>1, <1>2, <2>1 DEF IInv, Visited, Times, NoTime
<1>. QED  BY <1>3, <1>4, <1>5 DEF IInv

\* Time keeps the invariant: a new minute starts from an empty history.
LEMMA TickKeeps == ASSUME IInv, Tick PROVE IInv'
<1>1. /\ now \in Times /\ now' = now + 1 /\ now' \in Times
      /\ Minute(now) \in 0..now /\ Minute(now') \in 0..now'
      /\ Minute(now) <= Minute(now')
  BY MinuteRange, MinuteGrows DEF IInv, TypeOK, Times, Tick
<1>2. /\ UNCHANGED <<reach, inbox, memory, pending, restarts, overMinute, lateAt>>
      /\ passed' = IF Minute(now') = Minute(now) THEN passed
                   ELSE [ip \in IPs |-> 0]
  BY DEF Tick
<1>3. TypeOK'
  BY <1>1, <1>2 DEF IInv, TypeOK, memory
<1>4. LimitPerMinute' /\ Counted'
  BY <1>2
  DEF IInv, LimitPerMinute, Counted, SeenThisMinute, memory
<1>5. StillOver'
  <2>1. overMinute \in [IPs -> Times \cup {NoTime}]
    BY DEF IInv, TypeOK
  <2>. QED
    BY <1>1, <1>2, <2>1 DEF IInv, StillOver, SeenThisMinute, memory, Times, NoTime
<1>6. Visited'
  <2>1. last_visit_time_map_ \in [IPs -> Times \cup {NoTime}]
    BY DEF IInv, TypeOK
  <2>. QED  BY <1>1, <1>2, <2>1 DEF IInv, Visited, memory, Times, NoTime
<1>. QED  BY <1>3, <1>4, <1>5, <1>6 DEF IInv

\* A restart forgets map and history together.
LEMMA RestartKeeps == ASSUME IInv, Restart PROVE IInv'
<1>1. now \in Times /\ now' = now /\ Minute(now') \in 0..now
  BY MinuteRange DEF IInv, TypeOK, Times, Restart
<1>2. restarts' \in 0..MaxRestarts
  BY DEF IInv, TypeOK, Restart
<1>3. TypeOK'
  BY <1>2 DEF IInv, TypeOK, Restart, Freqs, NoVisits, Never
<1>4. LimitPerMinute' /\ Counted'
  BY DEF Restart, LimitPerMinute, Counted
<1>5. StillOver' /\ Visited'
  BY <1>1 DEF Restart, StillOver, Visited, Never, NoTime, Times
<1>. QED  BY <1>3, <1>4, <1>5 DEF IInv

\* Every step keeps the invariant.
LEMMA StepInvariant ==
    ASSUME MaxTime <= IntMax, IInv, [Next]_vars PROVE IInv'
<1>1. CASE \E ip \in IPs : Knock(ip) \/ Arrive(ip)
  <2>1. PICK ip \in IPs : Knock(ip) \/ Arrive(ip)
    BY <1>1
  <2>2. /\ UNCHANGED <<now, memory, pending, restarts, history>>
        /\ reach' \in [IPs -> BOOLEAN]
        /\ inbox' \in Seq(IPs) /\ Len(inbox') <= MaxInbox
    <3>1. /\ reach \in [IPs -> BOOLEAN]
          /\ inbox \in Seq(IPs) /\ Len(inbox) <= MaxInbox /\ MaxInbox \in Nat
      BY DEF IInv, TypeOK
    <3>2. CASE Knock(ip)
      BY <3>1, <3>2 DEF Knock
    <3>3. CASE Arrive(ip)
      <4>1. inbox' = Append(inbox, ip) /\ Len(inbox) < MaxInbox
        BY <3>3 DEF Arrive
      <4>2. inbox' \in Seq(IPs) /\ Len(inbox') = Len(inbox) + 1
        BY <3>1, <4>1
      <4>3. Len(inbox') <= MaxInbox
        BY <3>1, <4>1, <4>2
      <4>. QED  BY <3>1, <3>3, <4>2, <4>3 DEF Arrive
    <3>. QED  BY <2>1, <3>2, <3>3
  <2>3. TypeOK'
    BY <2>2 DEF IInv, TypeOK, memory, history
  <2>4. LimitPerMinute' /\ Counted' /\ StillOver' /\ Visited'
    BY <2>2 DEF IInv, LimitPerMinute, Counted, StillOver, Visited,
                SeenThisMinute, Minute, memory, history
  <2>. QED  BY <2>3, <2>4 DEF IInv
<1>2. CASE UNCHANGED vars
  BY <1>2 DEF vars, IInv, TypeOK, LimitPerMinute, Counted, StillOver, Visited,
              SeenThisMinute, Minute, memory, history
<1>. QED
  BY <1>1, <1>2, FrequencyKeeps, TimeLimitKeeps, TickKeeps, RestartKeeps
  DEF Next

\* IInv is an invariant of the application while the times fit into an int.
LEMMA Invariance == ASSUME MaxTime <= IntMax PROVE Spec => []IInv
<1>1. IInv /\ [Next]_vars => IInv'
  BY StepInvariant
<1>. QED  BY <1>1, InitInvariant, PTL DEF Spec

-----------------------------------------------------------------------------
\* Results.

\* While times fit into an int, every reachable state is well typed; the
\* counters are bounded by the visits although they are kept separately.
THEOREM TypeCorrect == ASSUME MaxTime <= IntMax PROVE Spec => []TypeOK
<1>1. IInv => TypeOK
  BY DEF IInv
<1>. QED  BY <1>1, Invariance, PTL

\* While times fit into an int, no address passes more often within a calendar
\* minute than the limit, for every limit and every length of a minute.
THEOREM LimitHolds == ASSUME MaxTime <= IntMax PROVE Spec => []LimitPerMinute
<1>1. IInv => LimitPerMinute
  BY DEF IInv
<1>. QED  BY <1>1, Invariance, PTL

\* One step never lets an address pass that was refused in the same minute.
LEMMA StepRefused ==
    ASSUME IInv, [Next]_vars, NEW ip \in IPs, passed'[ip] > passed[ip]
    PROVE  overMinute[ip] # Minute(now)
<1>1. /\ passed \in [IPs -> 0..MaxVisits]
      /\ visist_freq_map_[ip].times \in Nat
  BY DEF IInv, TypeOK, Freqs
<1>2. FrequencyJudgment(ip) /\ ~ TooFrequent(ip)
  BY <1>1
  DEF Next, FrequencyJudgment, TimeLimitJudgement, Knock, Arrive, Tick, Restart,
      vars, history
<1>. QED  BY <1>1, <1>2 DEF IInv, StillOver, TooFrequent, Visits

\* While times fit into an int, whoever was refused for frequency stays refused
\* for the rest of that minute.
THEOREM RefusalLasts ==
    ASSUME MaxTime <= IntMax PROVE Spec => RefusedForTheMinute
<1>1. IInv /\ [Next]_vars =>
         [\A ip \in IPs : passed[ip]' > passed[ip] =>
                             overMinute[ip] # Minute(now)]_vars
  BY StepRefused
<1>. QED  BY <1>1, Invariance, PTL DEF Spec, RefusedForTheMinute

\* Two refusals for lateness of one address are further apart than the limit.
LEMMA StepLate ==
    ASSUME IInv, [Next]_vars, NEW ip \in IPs,
           lateAt'[ip] # lateAt[ip], lateAt[ip] # NoTime, lateAt'[ip] # NoTime
    PROVE  lateAt'[ip] > lateAt[ip] + ACCESS_TOO_LAST_LIMIT
<1>1. /\ now \in Times
      /\ lateAt \in [IPs -> Times \cup {NoTime}]
      /\ last_visit_time_map_ \in [IPs -> Times \cup {NoTime}]
  BY DEF IInv, TypeOK
<1>2. TimeLimitJudgement(ip) /\ TooLate(ip) /\ lateAt'[ip] = now
  BY <1>1
  DEF Next, FrequencyJudgment, TimeLimitJudgement, Knock, Arrive, Tick, Restart,
      vars, history, Never
<1>. QED  BY <1>1, <1>2 DEF IInv, Visited, TooLate, Times, NoTime

\* While times fit into an int, a client refused for lateness may go on after a
\* new authorisation: only another long pause gets it refused again.
THEOREM LateOnce == ASSUME MaxTime <= IntMax PROVE Spec => LateOnlyOnce
<1>1. IInv /\ [Next]_vars =>
         [\A ip \in IPs :
             lateAt[ip]' # lateAt[ip] /\ lateAt[ip] # NoTime
                   /\ lateAt[ip]' # NoTime
                => lateAt[ip]' > lateAt[ip] + ACCESS_TOO_LAST_LIMIT]_vars
  BY StepLate
<1>. QED  BY <1>1, Invariance, PTL DEF Spec, LateOnlyOnce

\* Only a refusal closes a port.
LEMMA StepCloses ==
    ASSUME TypeOK, [Next]_vars, NEW ip \in IPs, reach[ip], ~ reach'[ip]
    PROVE  \/ pending = NoIP /\ pending' = NoIP /\ ip = Head(inbox)
                 /\ TooFrequent(ip)
           \/ pending = ip /\ TooLate(ip)
<1>1. PICK i \in IPs : FrequencyJudgment(i) \/ TimeLimitJudgement(i)
  BY DEF Next, Knock, Arrive, Tick, Restart, vars, TypeOK
<1>2. Notice(i) => i = ip
  BY DEF Notice, TypeOK
<1>3. CASE FrequencyJudgment(i)
  BY <1>2, <1>3 DEF FrequencyJudgment
<1>4. CASE TimeLimitJudgement(i)
  BY <1>2, <1>4 DEF TimeLimitJudgement
<1>. QED  BY <1>1, <1>3, <1>4

\* While times fit into an int, a request that is served never costs its sender
\* the access.
THEOREM ServedKeepsAccess ==
    ASSUME MaxTime <= IntMax PROVE Spec => ClosedOnlyByRefusal
<1>1. TypeOK /\ [Next]_vars =>
         [\A ip \in IPs : reach[ip] /\ ~ reach[ip]' =>
             \/ pending = NoIP /\ pending' = NoIP /\ ip = Head(inbox)
                   /\ TooFrequent(ip)
             \/ pending = ip /\ TooLate(ip)]_vars
  BY StepCloses
<1>. QED  BY <1>1, TypeCorrect, PTL DEF Spec, ClosedOnlyByRefusal
=============================================================================
