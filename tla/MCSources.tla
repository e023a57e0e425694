------------------------------- MODULE MCSources -------------------------------
(* Instances of Sources.                                                   *)
EXTENDS Sources

(* Once a source was removed from under a refresh, every property but the  *)
(* type excuses what follows, and nothing more is explored.  Once a        *)
(* refresh wrote past its lease only OneAtOnce does not, which is about    *)
(* leases and not about what is written: a feed that stays as it is will   *)
(* do.  A feed that publishes once more will do after a lease that was not *)
(* read back, or that has another's version.  Of the two entries, which    *)
(* are alike, the first is the first to change.                            *)
Telling ==
  LET first == CHOOSE k \in Keys : TRUE IN
  /\ ~torn
  /\ strayed => Len(editions) = 1 /\ ~unread /\ ~again
  /\ unread \/ again => Len(editions) <= 2
  /\ Len(editions) > 1 => editions[2][first] # editions[1][first]
===============================================================================
