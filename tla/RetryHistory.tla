---------------------------- MODULE RetryHistory -----------------------------
(***************************************************************************)
(* RunnerManager with a history: how often the pending request of a        *)
(* repository has been retried since an event, the monitor or the scanner  *)
(* last asked for runners for that repository.                             *)
(***************************************************************************)
EXTENDS RunnerManager

VARIABLE attempts

HistoryInit == Init /\ attempts = [r \in Repos |-> 0]

(* One more than MaxRetries is all that RetryLimit needs to know.          *)
HistoryNext ==
  \/ \E g \in Goroutines, r \in Repos :
       /\ CallScaleUp(g, r)
       /\ attempts' = [attempts EXCEPT ![r] = 0]
  \/ \E g \in Goroutines :
       /\ RemovePendingRequest(g)
       /\ attempts' = [attempts EXCEPT ![repo[g]] = Least(@ + 1, MaxRetries + 1)]
  \/ /\ Next
     /\ \A g \in Goroutines, r \in Repos : ~CallScaleUp(g, r) /\ ~RemovePendingRequest(g)
     /\ UNCHANGED attempts

HistorySpec == HistoryInit /\ [][HistoryNext]_<<vars, attempts>>

(* queue_memory.go:96 promises "5 retries over ~2.5 minutes" for a         *)
(* request: without a new call for its repository it is retried at most    *)
(* five times.                                                             *)
RetryLimit == \A r \in Repos : attempts[r] <= MaxRetries
==============================================================================
