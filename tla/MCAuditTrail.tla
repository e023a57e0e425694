----------------------------- MODULE MCAuditTrail ------------------------------
(* The writers are alike, and so are the servers.                          *)
EXTENDS AuditTrail, TLC

Alike == Permutations(Writers) \cup Permutations(Servers)

(* A reading that is done is checked and left: nothing it does concerns    *)
(* the others, who go on without it.  There are three records, and two     *)
(* when anything fails; and when it fails twice, which is what the spools  *)
(* need, there is one day and nobody reads.                                *)
Enough ==
  /\ names # {} \/ got = <<>>
  /\ \E w \in Writers : IF faults = 0 THEN count[w] <= 1
                        ELSE count[w] = 0 \/ \A v \in Writers : count[v] <= 1
  /\ faults = MaxFaults => must = {} /\ \A s \in Servers : clock[s] = 1
===============================================================================
