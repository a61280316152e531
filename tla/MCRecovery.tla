----------------------------- MODULE MCRecovery -----------------------------
(* Five days, one without a session, one session published late and one     *)
(* with a malformed row; the listing is first refreshed on the third day.   *)
EXTENDS Recovery

MCSessions == {1, 2, 3, 5}
MCLate == {2}
MCMalformed == {1}
=============================================================================
