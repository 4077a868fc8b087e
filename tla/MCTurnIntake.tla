---------------------------- MODULE MCTurnIntake ----------------------------
(* One steering item for the attempt, sent twice under one key, and one    *)
(* followup; a post and its retry; the attempt's executor and another one  *)
(* that took the attempt over.                                             *)
EXTENDS TurnIntake

CONSTANTS steer, again, followup, post, retry, executor, successor, attempt

MCItem     == {steer, again, followup}
MCPost     == {post, retry}
MCExecutor == {executor, successor}
MCRuns(x)   == attempt
MCExpiring == {steer, followup}
MCKey(x)    == IF x \in {post, retry} THEN "turn" ELSE IF x = followup THEN "f" ELSE "s"
MCTarget(i) == IF i = followup THEN "none" ELSE attempt
=============================================================================
