-------------------------- MODULE ControllerDigest --------------------------
(* Controller with a history of the vouchers that have arrived. *)
EXTENDS Controller

VARIABLE arrived  \* vouchers that ConFuncUdpRecv has seen

DigestInit == Init /\ arrived = {}

DigestNext ==
    \/ \E v \in vouchers, from_ip \in IPs :
          ConFuncUdpRecv(v, from_ip) /\ arrived' = arrived \cup {v}
    \/ NoKnock /\ UNCHANGED arrived

DigestSpec == DigestInit /\ [][DigestNext]_<<vars, arrived>>

\* Time and random number of a voucher are there "to make every md5 different"
\* (spa.proto): a correct voucher of a permitted user that arrives for the
\* first time is let through, it is never taken for a repetition.
NewVoucherPasses ==
    [][\A v \in arrived' \ arrived :
          Verified(v) => v.digest \notin md5_map_]_<<vars, arrived>>
=============================================================================
