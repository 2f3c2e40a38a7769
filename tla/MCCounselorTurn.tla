---------------------------- MODULE MCCounselorTurn ----------------------------
(***************************************************************************)
(* Two turns of one student at once, the first of their messages: a plain  *)
(* one beside a stream or a stream of a blank message; or two streams.     *)
(***************************************************************************)
EXTENDS CounselorTurn

CONSTANTS t1, t2, f1, i1

TwoRequests == {[t \in {t1, t2} |-> IF t = t1 THEN streams ELSE "plain"] :
                  streams \in {"streamed", "blank"}}

TwoStreams == {[t \in {t1, t2} |-> "streamed"]}
=============================================================================
