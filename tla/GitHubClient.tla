---------------------------- MODULE GitHubClient ----------------------------
(***************************************************************************)
(* The clients of one token (internal/github/client.go), each used by one  *)
(* caller, and the quota that GitHub (external) keeps for the token.  A    *)
(* client only knows of the quota what its last answer said, and looks     *)
(* only whether that was less than the reserve, ten requests, and of a     *)
(* reset still to come.  So this keeps what is taken from the reserve, and *)
(* leaves open how much of the quota is left above it.                     *)
(***************************************************************************)
EXTENDS Integers, FiniteSets

CONSTANTS
  Clients,  \* the callers
  Reserve   \* 10

ASSUME ClientAssumption == IsFiniteSet(Clients) /\ Reserve \in Nat

VARIABLES
  taken,  \* requests taken from the reserve, 0 while the quota exceeds it
  low     \* clients that know of less than the reserve

client == <<taken, low>>

ClientInit == taken = 0 /\ low = {}

(* It assumes 5000 requests.                                               *)
NewClient(p) ==
  /\ low' = low \ {p}
  /\ UNCHANGED taken

ResetQuota ==
  /\ taken' = 0 /\ low' = {}
  /\ taken > 0

(* Mutant: the limit is not checked.                                       *)
SendAlways(p) == TRUE

(* checkRateLimit.  A call that may not send fails or, when the reset is   *)
(* near, waits for it.  The check lets everything pass if the reset is an  *)
(* hour away or more; the quota is one of an hour, and this assumes that   *)
(* the clocks agree, so that it never is.                                  *)
MaySend(p) == p \notin low

(* What requests that GitHub accepts take.                                 *)
Take(cost) ==
  /\ taken' \in IF taken = 0 THEN 0..cost ELSE {taken + cost}
  /\ taken' <= Reserve

(* The quota does not suffice: GitHub refuses the last of the requests.    *)
Exhaust(cost) == taken + cost > Reserve /\ taken' = Reserve

(* updateRateLimit                                                         *)
Learn(p) == low' = IF taken' > 0 THEN low \cup {p} ELSE low

(* An answer to requests of a call that takes that many, the last of up to *)
(* three attempts.  The attempts that are refused take from the quota too. *)
Answer(p, cost) ==
  /\ MaySend(p)
  /\ Take(cost)
  /\ Learn(p)

(* The call fails: for the limit, by an error status, refused three times, *)
(* refused once if its request has a body, which has been read by then, or *)
(* refused as the quota is exhausted.                                      *)
Fail(p, cost) ==
  \/ ~MaySend(p) /\ UNCHANGED client
  \/ Answer(p, 1)
  \/ MaySend(p) /\ Exhaust(cost) /\ Learn(p)

(* The request times out: an answer or a refusal is lost.                  *)
LoseAnswer(p, cost)  == MaySend(p) /\ Take(cost) /\ UNCHANGED low
LoseRefusal(p, cost) == MaySend(p) /\ Exhaust(cost) /\ UNCHANGED low

ClientTypeOK == taken \in 0..Reserve /\ low \subseteq Clients
=============================================================================
