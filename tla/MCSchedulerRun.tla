---------------------------- MODULE MCSchedulerRun ----------------------------
(* A source without identities, one with one identity more than a refresh  *)
(* considers, and one without adapters, which no query notices.            *)
EXTENDS SchedulerRun, TLC

CONSTANTS s1, s2, s3, a, b, c, o

MCEnabledSources == <<s2, s1, s3>>
MCRegistered == {s1, s2}
MCIdentities == (s1 :> <<a, b, c>>) @@ (s2 :> <<>>) @@ (s3 :> <<>>)
=============================================================================
