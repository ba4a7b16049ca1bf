--------------------------- MODULE MC_AuditTrail ---------------------------
(***************************************************************************)
(* An instance of AuditTrail with three sequences, the fewest with which   *)
(* an entry could be committed into a range already staged.  Its next step *)
(* is Next without the orders that show nothing more:                      *)
(*   - no sink is created before the first sequence is settled: rolled     *)
(*     back, it leaves a new trail with two to come; committed, a trail    *)
(*     that has an entry and two to come;                                  *)
(*   - the verifier and the sinks share the trail and write nothing of     *)
(*     each other's, so the chain is verified while there is no sink yet,  *)
(*     and a sink finds the walk at its start;                             *)
(*   - nothing is written once every sink is gone;                         *)
(*   - writers and streamers are alike, so the first free one enters.      *)
(***************************************************************************)
EXTENDS AuditTrail

\* No open transaction holds the first sequence.
FirstSettled == serial > 0 /\ \A w \in Writer : 1 \notin own[w]

NoSink == \A k \in Sink : sink[k] = "absent"
AllGone == \A k \in Sink : sink[k] = "gone"

MCNext ==
  /\ Next
  /\ NoSink /\ sink' # sink => FirstSettled /\ walk = [after |-> 0, intact |-> TRUE]
  /\ walk' # walk => NoSink
  /\ AllGone => chain' = chain
  /\ \A v \in open' \ open, w \in Writer : w < v => w \in open
  /\ \A p, q \in Streamer : step[q] = "idle" /\ step'[q] # "idle" /\ p < q => step[p] # "idle"

MCSpec == Init /\ [][MCNext]_vars /\ Fairness
=============================================================================
