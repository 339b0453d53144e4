------------------------ MODULE GenerationLifecycle ------------------------
(***************************************************************************)
(* What the queue promises about each request, with no workers, locks or   *)
(* transactions: the lifecycle of VALID_TRANSITIONS, an attempt per claim  *)
(* up to MAX_ATTEMPTS, and a story exactly for a success.                  *)
(***************************************************************************)
EXTENDS Naturals

CONSTANTS Ids, AttemptLimit

VARIABLES status, attempts, delivered

lifecycle == <<status, attempts, delivered>>

LInit ==
  /\ status = [r \in Ids |-> "absent"]
  /\ attempts = [r \in Ids |-> 0]
  /\ delivered = {}

Become(r, s) == status' = [status EXCEPT ![r] = s]

Created(r) ==
  /\ status[r] = "absent"
  /\ Become(r, "queued")
  /\ UNCHANGED <<attempts, delivered>>

Claimed(r) ==
  /\ status[r] = "queued"
  /\ attempts[r] < AttemptLimit
  /\ Become(r, "running")
  /\ attempts' = [attempts EXCEPT ![r] = @ + 1]
  /\ UNCHANGED delivered

Failed(r) ==
  /\ status[r] = "running"
  /\ Become(r, "failed")
  /\ UNCHANGED <<attempts, delivered>>

Delivered(r) ==
  /\ status[r] = "running"
  /\ Become(r, "succeeded")
  /\ delivered' = delivered \cup {r}
  /\ UNCHANGED attempts

Retried(r) ==
  /\ status[r] = "failed"
  /\ attempts[r] < AttemptLimit
  /\ Become(r, "queued")
  /\ UNCHANGED <<attempts, delivered>>

(* A sweep takes any set of abandoned attempts at once.                    *)
Swept(S) ==
  /\ S # {}
  /\ \A r \in S : status[r] = "running"
  /\ status' = [r \in Ids |->
                  IF r \notin S THEN status[r]
                  ELSE IF attempts[r] < AttemptLimit THEN "queued" ELSE "failed"]
  /\ UNCHANGED <<attempts, delivered>>

LNext ==
  \/ \E r \in Ids :
       Created(r) \/ Claimed(r) \/ Failed(r) \/ Delivered(r) \/ Retried(r)
  \/ \E S \in SUBSET Ids : Swept(S)

LSpec == LInit /\ [][LNext]_lifecycle
=============================================================================
