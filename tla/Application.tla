----------------------------- MODULE Application -----------------------------
(***************************************************************************)
(* The application (modules/application): it judges every request by how    *)
(* often and how recently its sender was seen, and tells the gateway to     *)
(* close the port for a sender it refuses.  The notice may be lost, and     *)
(* requests already accepted are still handled after the port is closed.    *)
(***************************************************************************)
EXTENDS Integers, Sequences

CONSTANTS
    IPs,
    ACCESS_TIMES_LIMIT_ONE_MIN,  \* 3
    ACCESS_TOO_LAST_LIMIT,       \* 10 seconds
    MinuteLen,                   \* 60 seconds
    IntMax,                      \* 2^31 - 1: the type of Freq.min is int
    NoIP,
    MaxTime,                     \* bound: the clock
    MaxVisits,                   \* bound: visits counted in one minute
    MaxInbox,                    \* bound: accepted requests not yet handled
    MaxRestarts                  \* bound: how often the application restarts

ASSUME ApplicationAssumption ==
    /\ ACCESS_TIMES_LIMIT_ONE_MIN \in Nat \ {0}
    /\ ACCESS_TOO_LAST_LIMIT \in Nat
    /\ MinuteLen \in Nat \ {0}
    /\ {IntMax, MaxTime, MaxVisits, MaxInbox, MaxRestarts} \subseteq Nat
    /\ NoIP \notin IPs

\* "no entry" of a map of times.
NoTime == -1

VARIABLES
    now,                   \* time(NULL)
    reach,                 \* whether the gateway lets the address through
    inbox,                 \* addresses of the accepted requests
    visist_freq_map_,      \* visits in the minute .min; .times = 0: no entry
    last_visit_time_map_,  \* time of the last visit, NoTime: no entry
    pending,               \* the request between the two judgements, or NoIP
    restarts,
    passed,      \* history: requests that passed the first judgement this minute
    overMinute,  \* history: the minute of the last refusal for frequency
    lateAt       \* history: the time of the last refusal for lateness

memory == <<visist_freq_map_, last_visit_time_map_>>
history == <<passed, overMinute, lateAt>>
vars == <<now, reach, inbox, memory, pending, restarts, history>>

Times == 0..MaxTime
Freqs == [times : 0..MaxVisits, min : -(IntMax + 1)..IntMax]

TypeOK ==
    /\ now \in Times
    /\ reach \in [IPs -> BOOLEAN]
    /\ inbox \in Seq(IPs)
    /\ Len(inbox) <= MaxInbox
    /\ visist_freq_map_ \in [IPs -> Freqs]
    /\ last_visit_time_map_ \in [IPs -> Times \cup {NoTime}]
    /\ pending \in IPs \cup {NoIP}
    /\ restarts \in 0..MaxRestarts
    /\ passed \in [IPs -> 0..MaxVisits]
    /\ overMinute \in [IPs -> Times \cup {NoTime}]
    /\ lateAt \in [IPs -> Times \cup {NoTime}]

NoVisits == [ip \in IPs |-> [times |-> 0, min |-> 0]]
Never == [ip \in IPs |-> NoTime]

Init ==
    /\ now = 0
    /\ reach = [ip \in IPs |-> FALSE]
    /\ inbox = <<>>
    /\ visist_freq_map_ = NoVisits
    /\ last_visit_time_map_ = Never
    /\ pending = NoIP
    /\ restarts = 0
    /\ passed = [ip \in IPs |-> 0]
    /\ overMinute = Never
    /\ lateAt = Never

-----------------------------------------------------------------------------
\* The definitions named Faulty... are not part of the specification: each is a
\* slip of the definition below it, kept to show which property notices it.
FaultyMinuteAgo(t) == t - MinuteLen

\* TimeNow_Min: the beginning of the minute.
Minute(t) == t - (t % MinuteLen)

\* A time stored in an int of two's complement.
ToInt(t) == IF t <= IntMax THEN t ELSE t - 2 * (IntMax + 1)

FaultySeenThisSecond(ip) ==
    /\ visist_freq_map_[ip].times > 0
    /\ visist_freq_map_[ip].min = Minute(now)
    /\ last_visit_time_map_[ip] = now

SeenThisMinute(ip) ==
    /\ visist_freq_map_[ip].times > 0
    /\ visist_freq_map_[ip].min = Minute(now)

Visits(ip) == IF SeenThisMinute(ip) THEN visist_freq_map_[ip].times + 1 ELSE 1

FaultyOffByOne(ip) == Visits(ip) >= ACCESS_TIMES_LIMIT_ONE_MIN + 2

TooFrequent(ip) == Visits(ip) > ACCESS_TIMES_LIMIT_ONE_MIN

TooLate(ip) ==
    /\ last_visit_time_map_[ip] # NoTime
    /\ last_visit_time_map_[ip] + ACCESS_TOO_LAST_LIMIT < now

\* GateFuncNoticeRequest is called whether or not the gateway hears it; the
\* answer is only logged.
Notice(ip) ==
    \E heard \in BOOLEAN :
        reach' = IF heard THEN [reach EXCEPT ![ip] = FALSE] ELSE reach

\* FrequencyJudgment, the first half of AppFuncHttps.
FrequencyJudgment(ip) ==
    /\ pending = NoIP
    /\ inbox # <<>>
    /\ ip = Head(inbox)
    /\ Visits(ip) <= MaxVisits
    /\ inbox' = Tail(inbox)
    /\ visist_freq_map_' = [visist_freq_map_ EXCEPT ![ip] =
          [times |-> Visits(ip),
           min |-> IF SeenThisMinute(ip) THEN @.min ELSE ToInt(Minute(now))]]
    /\ \/ /\ TooFrequent(ip)
          /\ Notice(ip)
          /\ overMinute' = [overMinute EXCEPT ![ip] = Minute(now)]
          /\ UNCHANGED <<pending, passed>>
       \/ /\ ~ TooFrequent(ip)
          /\ pending' = ip
          /\ passed' = [passed EXCEPT ![ip] = @ + 1]
          /\ UNCHANGED <<reach, overMinute>>
    /\ UNCHANGED <<now, last_visit_time_map_, restarts, lateAt>>

FaultyLateNotRecorded(ip) ==
    /\ pending = ip
    /\ pending' = NoIP
    /\ last_visit_time_map_' =
          IF TooLate(ip) THEN last_visit_time_map_
                         ELSE [last_visit_time_map_ EXCEPT ![ip] = now]
    /\ \/ TooLate(ip) /\ Notice(ip) /\ lateAt' = [lateAt EXCEPT ![ip] = now]
       \/ ~ TooLate(ip) /\ UNCHANGED <<reach, lateAt>>
    /\ UNCHANGED <<now, inbox, visist_freq_map_, restarts, passed, overMinute>>

\* TimeLimitJudgement, the second half; who is not too late is served.
TimeLimitJudgement(ip) ==
    /\ pending = ip
    /\ pending' = NoIP
    /\ last_visit_time_map_' = [last_visit_time_map_ EXCEPT ![ip] = now]
    /\ \/ TooLate(ip) /\ Notice(ip) /\ lateAt' = [lateAt EXCEPT ![ip] = now]
       \/ ~ TooLate(ip) /\ UNCHANGED <<reach, lateAt>>
    /\ UNCHANGED <<now, inbox, visist_freq_map_, restarts, passed, overMinute>>

-----------------------------------------------------------------------------
\* The surroundings: knocks open the port, requests arrive, time passes, and
\* the process may be restarted.

Knock(ip) ==
    /\ ~ reach[ip]
    /\ reach' = [reach EXCEPT ![ip] = TRUE]
    /\ UNCHANGED <<now, inbox, memory, pending, restarts, history>>

Arrive(ip) ==
    /\ reach[ip]
    /\ Len(inbox) < MaxInbox
    /\ inbox' = Append(inbox, ip)
    /\ UNCHANGED <<now, reach, memory, pending, restarts, history>>

Tick ==
    /\ now < MaxTime
    /\ now' = now + 1
    /\ passed' = IF Minute(now') = Minute(now) THEN passed
                 ELSE [ip \in IPs |-> 0]
    /\ UNCHANGED <<reach, inbox, memory, pending, restarts, overMinute, lateAt>>

Restart ==
    /\ restarts < MaxRestarts
    /\ restarts' = restarts + 1
    /\ inbox' = <<>>
    /\ visist_freq_map_' = NoVisits
    /\ last_visit_time_map_' = Never
    /\ pending' = NoIP
    /\ passed' = [ip \in IPs |-> 0]
    /\ overMinute' = Never
    /\ lateAt' = Never
    /\ UNCHANGED <<now, reach>>

Next ==
    \/ \E ip \in IPs : FrequencyJudgment(ip) \/ TimeLimitJudgement(ip)
    \/ \E ip \in IPs : Knock(ip) \/ Arrive(ip)
    \/ Tick \/ Restart

Spec == Init /\ [][Next]_vars

-----------------------------------------------------------------------------
\* Properties.

\* In no calendar minute does one process let more requests of an address pass
\* than the limit (sdp_application_config.h: three in one minute).
LimitPerMinute == \A ip \in IPs : passed[ip] <= ACCESS_TIMES_LIMIT_ONE_MIN

\* Whoever was refused for frequency is not let through again in that minute,
\* also after a new knock ("still no access within the minute after a new
\* authorisation", sdp_application_config.cpp).
RefusedForTheMinute ==
    [][\A ip \in IPs :
          passed[ip]' > passed[ip] => overMinute[ip] # Minute(now)]_vars

\* Whoever was refused for lateness may go on after a new authorisation: the
\* next refusal for lateness needs another pause longer than the limit.
LateOnlyOnce ==
    [][\A ip \in IPs :
          lateAt[ip]' # lateAt[ip] /\ lateAt[ip] # NoTime /\ lateAt[ip]' # NoTime
             => lateAt[ip]' > lateAt[ip] + ACCESS_TOO_LAST_LIMIT]_vars

\* The port of an address is closed only together with a refusal: a request
\* that is served never costs the sender its access.
ClosedOnlyByRefusal ==
    [][\A ip \in IPs : reach[ip] /\ ~ reach[ip]' =>
          \/ pending = NoIP /\ pending' = NoIP /\ ip = Head(inbox)
                /\ TooFrequent(ip)
          \/ pending = ip /\ TooLate(ip)]_vars
=============================================================================
