----------------------------- MODULE WorkClaims ------------------------------
(***************************************************************************)
(* What the enrichment queue promises, without leases, attempts or time:   *)
(* an unfinished article has at most one owner, only a free one is         *)
(* acquired, an owner keeps it until it completes it or drops it itself    *)
(* (nobody's release or claim takes it away), and completed work is never  *)
(* undone.  Someone who owns nothing (a hand-off shard) may complete an    *)
(* article.                                                                *)
(***************************************************************************)
CONSTANTS Article, Runner, Nobody

VARIABLES done, owner

Init ==
  /\ done = {}
  /\ owner = [a \in Article |-> Nobody]

Acquire(r, S) ==
  /\ \A a \in S : a \notin done /\ owner[a] = Nobody
  /\ owner' = [a \in Article |-> IF a \in S THEN r ELSE owner[a]]
  /\ UNCHANGED done

Complete(S) ==
  /\ done' = done \cup S
  /\ owner' = [a \in Article |-> IF a \in S THEN Nobody ELSE owner[a]]

Drop(r, S) ==
  /\ \A a \in S : owner[a] = r
  /\ owner' = [a \in Article |-> IF a \in S THEN Nobody ELSE owner[a]]
  /\ UNCHANGED done

Next ==
  \E S \in SUBSET Article :
    \/ Complete(S)
    \/ \E r \in Runner : Acquire(r, S) \/ Drop(r, S)

Spec == Init /\ [][Next]_<<done, owner>>
=============================================================================
