----------------------- MODULE GenerationQueueProofs -----------------------
(***************************************************************************)
(* Theorems about GenerationQueue, for any number of workers, clients,     *)
(* requests, attempts and crashes: type correctness; what one user's       *)
(* deployment provides, where retries of a request do not overlap and a    *)
(* live worker answers within the staleness threshold; what holds without  *)
(* either; and that the queue implements GenerationLifecycle.              *)
(***************************************************************************)
EXTENDS GenerationQueue, FiniteSetTheorems, TLAPS

-----------------------------------------------------------------------------
(* Type correctness.                                                       *)

(* The rows an action writes are rows again.                               *)
LEMMA RowsStayRows ==
  ASSUME NEW x \in Row, NEW code \in ErrorCodes
  PROVE  /\ ClaimedRow(x) \in Row
         /\ FailedRow(x, code) \in Row
         /\ SucceededRow(x) \in Row
         /\ ReclaimedRow(x) \in Row
         /\ RetriedRow(x) \in Row
         /\ [NoRow EXCEPT !.status = "queued"] \in Row
         /\ NoRow \in Row
<1> USE DEF Row, ActiveStatus, Finished
<1>0. "none" \in ErrorCodes /\ "StaleWorkerRetryLimitExceeded" \in ErrorCodes
  BY DEF ErrorCodes
<1>1. ClaimedRow(x) \in Row
  <2>1. x.attempts \in Nat /\ x.attempts + 1 \in Nat
    OBVIOUS
  <2>2. \A n \in Nat :
          [x EXCEPT !.status = "running", !.started = TRUE, !.attempts = n] \in Row
    OBVIOUS
  <2> QED
    BY <2>1, <2>2 DEF ClaimedRow
<1>2. \A e \in ErrorCodes : FailedRow(x, e) \in Row
  BY DEF FailedRow
<1>3. SucceededRow(x) \in Row
  BY DEF SucceededRow
<1>4. ReclaimedRow(x) \in Row
  <2>1. CASE x.attempts < MaxAttempts
    BY <2>1 DEF ReclaimedRow
  <2>2. CASE ~(x.attempts < MaxAttempts)
    BY <2>2, <1>0, <1>2 DEF ReclaimedRow
  <2> QED
    BY <2>1, <2>2
<1>5. RetriedRow(x) \in Row
  BY <1>0 DEF RetriedRow
<1>6. NoRow \in Row /\ [NoRow EXCEPT !.status = "queued"] \in Row
  BY <1>0 DEF NoRow
<1> QED
  BY <1>1, <1>2, <1>3, <1>4, <1>5, <1>6

(* A worker that dies leaves its variables well typed.                     *)
LEMMA DiesType ==
  ASSUME TypeOK, NEW w \in Workers, Dies(w)
  PROVE  /\ pc' \in [Workers -> PCs]
         /\ cur' \in [Workers -> Requests \cup {NoRequest}]
         /\ \A v \in Workers : pc'[v] \in Holding => cur'[v] \in Requests
         /\ mem' \in [Workers -> Copy]
         /\ stop' \in SUBSET Workers
  BY DEF TypeOK, Dies, Release, PCs, Copy, NoCopy, Holding

LEMMA InitType == Init => TypeOK
<1> SUFFICES ASSUME Init PROVE TypeOK
  OBVIOUS
<1>1. row \in [Requests -> Row]
  BY DEF Init, NoRow, Row, ErrorCodes
<1>2. nextId \in 1..(MaxRequests + 1) /\ crashes \in 0..MaxCrashes
  BY ConstantsOK DEF Init
<1> QED
  BY <1>1, <1>2 DEF Init, TypeOK, PCs, Copy, NoCopy, Ops, Holding

LEMMA CommitOutcomeType ==
  ASSUME TypeOK, NEW w \in Workers, cur[w] \in Requests,
         NEW new \in Row, CommitOutcome(w, new)
  PROVE  /\ row' \in [Requests -> Row]
         /\ stale' \in SUBSET Requests
         /\ payloads' \in [Requests -> Seq(Nat)]
         /\ pc' \in [Workers -> PCs]
         /\ cur' \in [Workers -> Requests \cup {NoRequest}]
         /\ \A v \in Workers : pc'[v] \in Holding => cur'[v] \in Requests
         /\ mem' \in [Workers -> Copy]
         /\ UNCHANGED <<stop, clientVars, crashes>>
<1>1. payloads' \in [Requests -> Seq(Nat)]
  <2>1. mem[w].attempts \in Nat
    BY DEF TypeOK, Copy
  <2>2. \A s \in Seq(Nat) : Append(s, mem[w].attempts) \in Seq(Nat)
    BY <2>1
  <2> QED
    BY <2>2 DEF TypeOK, CommitOutcome
<1>2. row' \in [Requests -> Row] /\ stale' \in SUBSET Requests
  BY DEF TypeOK, CommitOutcome
<1>3. /\ pc' \in [Workers -> PCs]
      /\ cur' \in [Workers -> Requests \cup {NoRequest}]
      /\ \A v \in Workers : pc'[v] \in Holding => cur'[v] \in Requests
      /\ mem' \in [Workers -> Copy]
  BY DEF TypeOK, CommitOutcome, Release, PCs, Copy, NoCopy, Holding
<1> QED
  BY <1>1, <1>2, <1>3 DEF CommitOutcome

LEMMA NextType == TypeOK /\ [Next]_vars => TypeOK'
<1> SUFFICES ASSUME TypeOK, [Next]_vars PROVE TypeOK'
  OBVIOUS
<1> USE DEF rowVars, storyVars, workerVars, clientVars
<1>1. ASSUME NEW w \in Workers, LockNext(w) PROVE TypeOK'
  BY <1>1 DEF TypeOK, LockNext, Claimable, PCs, Holding
<1>2. ASSUME NEW w \in Workers, PollEmpty(w) PROVE TypeOK'
  BY <1>2 DEF TypeOK, PollEmpty, PCs, Holding
<1>3. ASSUME NEW w \in Workers, CommitClaim(w) PROVE TypeOK'
  <2>1. cur[w] \in Requests /\ row[cur[w]] \in Row
    BY <1>3 DEF TypeOK, CommitClaim, Holding
  <2>2. ClaimedRow(row[cur[w]]) \in Row
    BY <2>1, RowsStayRows DEF ErrorCodes
  <2>3. row' \in [Requests -> Row]
    BY <1>3, <2>1, <2>2 DEF TypeOK, CommitClaim
  <2> QED
    BY <1>3, <2>3 DEF TypeOK, CommitClaim, PCs, Holding
<1>4. ASSUME NEW w \in Workers, Load(w) PROVE TypeOK'
  <2>1. cur[w] \in Requests /\ row[cur[w]] \in Row
    BY <1>4 DEF TypeOK, Load, Holding
  <2>2. [status |-> row[cur[w]].status, attempts |-> row[cur[w]].attempts] \in Copy
    BY <2>1 DEF Row, Copy
  <2>3. mem' \in [Workers -> Copy]
    BY <1>4, <2>2 DEF TypeOK, Load
  <2> QED
    BY <1>4, <2>3 DEF TypeOK, Load, PCs, Holding
<1>5. ASSUME NEW w \in Workers, NEW code \in ErrorCodes, Fail(w, code) PROVE TypeOK'
  <2>1. cur[w] \in Requests /\ row[cur[w]] \in Row
    BY <1>5 DEF TypeOK, Fail, Holding
  <2>2. FailedRow(row[cur[w]], code) \in Row
    BY <2>1, RowsStayRows
  <2>3. CASE CommitOutcome(w, FailedRow(row[cur[w]], code)) /\ UNCHANGED <<story, produced>>
    BY <2>1, <2>2, <2>3, CommitOutcomeType DEF TypeOK
  <2>4. CASE RejectOutcome(w)
    BY <2>4, DiesType DEF TypeOK, RejectOutcome
  <2> QED
    BY <1>5, <2>3, <2>4 DEF Fail
<1>6. ASSUME NEW w \in Workers, Succeed(w) PROVE TypeOK'
  <2>1. cur[w] \in Requests /\ row[cur[w]] \in Row
    BY <1>6 DEF TypeOK, Succeed, Holding
  <2>2. SucceededRow(row[cur[w]]) \in Row
    BY <2>1, RowsStayRows DEF ErrorCodes
  <2>3. CASE /\ CommitOutcome(w, SucceededRow(row[cur[w]]))
             /\ story' = story \cup {cur[w]}
             /\ produced' = [produced EXCEPT ![cur[w]] = @ + 1]
    <3>1. story' \in SUBSET Requests /\ produced' \in [Requests -> Nat]
      BY <2>1, <2>3 DEF TypeOK
    <3> QED
      BY <2>1, <2>2, <2>3, <3>1, CommitOutcomeType DEF TypeOK
  <2>4. CASE RejectOutcome(w)
    BY <2>4, DiesType DEF TypeOK, RejectOutcome
  <2> QED
    BY <1>6, <2>3, <2>4 DEF Succeed
<1>7. ASSUME NEW w \in Workers, Reclaim(w) PROVE TypeOK'
  <2>1. \A r \in Requests : row[r] \in Row /\ ReclaimedRow(row[r]) \in Row
    BY RowsStayRows DEF TypeOK, ErrorCodes
  <2>2. row' \in [Requests -> Row]
    BY <1>7, <2>1 DEF Reclaim
  <2> QED
    BY <1>7, <2>2 DEF TypeOK, Reclaim, PCs, Holding
<1>8. ASSUME NEW w \in Workers, Exit(w) PROVE TypeOK'
  BY <1>8 DEF TypeOK, Exit, PCs, Holding
<1>9. ASSUME NEW w \in Workers, RequestStop(w) PROVE TypeOK'
  BY <1>9 DEF TypeOK, RequestStop
<1>10. ASSUME NEW w \in Workers, Crash(w) PROVE TypeOK'
  <2>1. crashes' \in 0..MaxCrashes
    BY <1>10, ConstantsOK DEF TypeOK, Crash
  <2> QED
    BY <1>10, <2>1, DiesType DEF TypeOK, Crash
<1>11. ASSUME NEW w \in Workers, Restart(w) PROVE TypeOK'
  BY <1>11 DEF TypeOK, Restart, PCs, Holding
<1>12. ASSUME NEW r \in Requests, Age(r) PROVE TypeOK'
  BY <1>12 DEF TypeOK, Age
<1>13. ASSUME NEW c \in Clients, CreateCheck(c) PROVE TypeOK'
  <2>1. nextId' \in 1..(MaxRequests + 1)
    BY <1>13, ConstantsOK DEF TypeOK, CreateCheck, Requests
  <2> QED
    BY <1>13, <2>1 DEF TypeOK, CreateCheck, Ops
<1>14. ASSUME NEW c \in Clients, CreateCommit(c) PROVE TypeOK'
  <2>1. row' \in [Requests -> Row]
    BY <1>14, RowsStayRows DEF TypeOK, CreateCommit, ErrorCodes, NoRow, Row
  <2> QED
    BY <1>14, <2>1 DEF TypeOK, CreateCommit, EndTransaction, Ops
<1>15. ASSUME NEW c \in Clients, NEW r \in Requests, RetryRead(c, r) PROVE TypeOK'
  BY <1>15 DEF TypeOK, RetryRead, Ops
<1>16. ASSUME NEW c \in Clients, RetryCheck(c) PROVE TypeOK'
  BY <1>16 DEF TypeOK, RetryCheck, Ops
<1>17. ASSUME NEW c \in Clients, RetryCommit(c) PROVE TypeOK'
  <2>1. arg[c] \in Requests /\ RetriedRow(row[arg[c]]) \in Row
    BY <1>17, RowsStayRows DEF TypeOK, RetryCommit, ErrorCodes
  <2>2. row' \in [Requests -> Row]
    BY <1>17, <2>1 DEF TypeOK, RetryCommit
  <2> QED
    BY <1>17, <2>2 DEF TypeOK, RetryCommit, EndTransaction, Ops
<1>18. ASSUME NEW c \in Clients, Abort(c) PROVE TypeOK'
  BY <1>18 DEF TypeOK, Abort, EndTransaction, Ops
<1>19. ASSUME NEW r \in Requests, DeleteStory(r) PROVE TypeOK'
  BY <1>19 DEF TypeOK, DeleteStory
<1>20. CASE UNCHANGED vars
  BY <1>20 DEF TypeOK, vars
<1> QED
  BY <1>1, <1>2, <1>3, <1>4, <1>5, <1>6, <1>7, <1>8, <1>9, <1>10, <1>11,
     <1>12, <1>13, <1>14, <1>15, <1>16, <1>17, <1>18, <1>19, <1>20
  DEF Next, WorkerStep, WorkerEnvironment, ClientStep, Finish, ErrorCodes

(* Every reachable state is well typed.                                    *)
THEOREM TypeCorrect == Spec => []TypeOK
  BY InitType, NextType, PTL DEF Spec

-----------------------------------------------------------------------------
(* QueueInv, for deployments where retries of a request do not overlap and *)
(* a live worker answers within the staleness threshold.                   *)

LEMMA InitInv == Init => QueueInv
<1> SUFFICES ASSUME Init PROVE QueueInv
  OBVIOUS
<1>1. OneWorkerPerRequest /\ HeldRows
  BY DEF Init, OneWorkerPerRequest, HeldRows, Holding
<1>2. OpenTransactions
  BY DEF Init, OpenTransactions
<1>3. StoryOfSucceeded /\ OneStoryPerSuccess /\ ErrorOnlyWhenFailed
  BY DEF Init, StoryOfSucceeded, OneStoryPerSuccess, ErrorOnlyWhenFailed, NoRow
<1>4. AttemptsBounded /\ QueuedHasAttemptLeft
  BY ConstantsOK DEF Init, AttemptsBounded, QueuedHasAttemptLeft, NoRow
<1> QED
  BY <1>1, <1>2, <1>3, <1>4 DEF QueueInv

(* Exclusivity and the holders' view.                                      *)
LEMMA NextHeld ==
  ASSUME SerialRetries, TimelyCalls, TypeOK, QueueInv, [Next]_vars
  PROVE  OneWorkerPerRequest' /\ HeldRows'
<1> USE DEF rowVars, storyVars, workerVars, clientVars, QueueInv,
            OneWorkerPerRequest, HeldRows, Holding
<1>1. ASSUME NEW w \in Workers, LockNext(w) PROVE OneWorkerPerRequest' /\ HeldRows'
  BY <1>1 DEF TypeOK, LockNext, Claimable, Locked, PCs
<1>2. ASSUME NEW w \in Workers, PollEmpty(w) PROVE OneWorkerPerRequest' /\ HeldRows'
  BY <1>2 DEF TypeOK, PollEmpty
<1>3. ASSUME NEW w \in Workers, CommitClaim(w) PROVE OneWorkerPerRequest' /\ HeldRows'
  <2>1. \A v \in Workers : v # w /\ pc[v] \in Holding => cur[v] # cur[w]
    BY <1>3 DEF CommitClaim
  <2>2. row'[cur[w]].status = "running" /\ cur[w] \notin stale'
    BY <1>3 DEF TypeOK, CommitClaim, ClaimedRow, Row
  <2>3. \A r \in Requests : r # cur[w] => row'[r] = row[r] /\ (r \in stale' <=> r \in stale)
    BY <1>3 DEF TypeOK, CommitClaim
  <2> QED
    BY <1>3, <2>1, <2>2, <2>3 DEF TypeOK, CommitClaim
<1>4. ASSUME NEW w \in Workers, Load(w) PROVE OneWorkerPerRequest' /\ HeldRows'
  BY <1>4 DEF TypeOK, Load
<1>5. ASSUME NEW w \in Workers, NEW new \in Row, CommitOutcome(w, new),
             pc[w] = "calling"
      PROVE  OneWorkerPerRequest' /\ HeldRows'
  <2>1. \A v \in Workers : v # w /\ pc[v] \in Holding => cur[v] # cur[w]
    BY <1>5
  <2>2. \A r \in Requests : r # cur[w] => row'[r] = row[r] /\ (r \in stale' <=> r \in stale)
    BY <1>5 DEF TypeOK, CommitOutcome
  <2> QED
    BY <1>5, <2>1, <2>2 DEF TypeOK, CommitOutcome, Release
<1>6. ASSUME NEW w \in Workers, Dies(w), UNCHANGED rowVars
      PROVE  OneWorkerPerRequest' /\ HeldRows'
  BY <1>6 DEF TypeOK, Dies, Release
<1>7. ASSUME NEW w \in Workers, NEW code \in ErrorCodes, Fail(w, code)
      PROVE  OneWorkerPerRequest' /\ HeldRows'
  <2>1. FailedRow(row[cur[w]], code) \in Row
    BY <1>7, RowsStayRows DEF TypeOK, Fail
  <2> QED
    BY <1>5, <1>6, <1>7, <2>1 DEF Fail, RejectOutcome
<1>8. ASSUME NEW w \in Workers, Succeed(w) PROVE OneWorkerPerRequest' /\ HeldRows'
  <2>1. SucceededRow(row[cur[w]]) \in Row
    BY <1>8, RowsStayRows DEF TypeOK, Succeed, ErrorCodes
  <2> QED
    BY <1>5, <1>6, <1>8, <2>1 DEF Succeed, RejectOutcome
<1>9. ASSUME NEW w \in Workers, Reclaim(w) PROVE OneWorkerPerRequest' /\ HeldRows'
  <2>1. \A v \in Workers : pc[v] \in Holding => row'[cur[v]] = row[cur[v]]
    BY <1>9 DEF TypeOK, Reclaim
  <2> QED
    BY <1>9, <2>1 DEF TypeOK, Reclaim
<1>10. ASSUME NEW w \in Workers, RequestStop(w) PROVE OneWorkerPerRequest' /\ HeldRows'
  BY <1>10 DEF RequestStop
<1>11. ASSUME NEW w \in Workers, Exit(w) PROVE OneWorkerPerRequest' /\ HeldRows'
  BY <1>11 DEF TypeOK, Exit
<1>12. ASSUME NEW w \in Workers, Crash(w) PROVE OneWorkerPerRequest' /\ HeldRows'
  BY <1>6, <1>12 DEF Crash
<1>13. ASSUME NEW w \in Workers, Restart(w) PROVE OneWorkerPerRequest' /\ HeldRows'
  BY <1>13 DEF TypeOK, Restart
<1>14. ASSUME NEW r \in Requests, Age(r) PROVE OneWorkerPerRequest' /\ HeldRows'
  BY <1>14 DEF TypeOK, Age
<1>15. ASSUME NEW c \in Clients, CreateCommit(c) PROVE OneWorkerPerRequest' /\ HeldRows'
  <2>1. \A v \in Workers : pc[v] \in Holding => cur[v] # arg[c]
    BY <1>15 DEF TypeOK, CreateCommit, OpenTransactions, NoRow
  <2> QED
    BY <1>15, <2>1 DEF TypeOK, CreateCommit
<1>16. ASSUME NEW c \in Clients, RetryCommit(c) PROVE OneWorkerPerRequest' /\ HeldRows'
  <2>1. \A v \in Workers : pc[v] \in Holding => cur[v] # arg[c]
    BY <1>16 DEF TypeOK, RetryCommit, OpenTransactions
  <2> QED
    BY <1>16, <2>1 DEF TypeOK, RetryCommit
<1>17. ASSUME NEW c \in Clients, CreateCheck(c) PROVE OneWorkerPerRequest' /\ HeldRows'
  BY <1>17 DEF CreateCheck
<1>18. ASSUME NEW c \in Clients, NEW r \in Requests, RetryRead(c, r)
       PROVE  OneWorkerPerRequest' /\ HeldRows'
  BY <1>18 DEF RetryRead
<1>19. ASSUME NEW c \in Clients, RetryCheck(c) \/ Abort(c)
       PROVE  OneWorkerPerRequest' /\ HeldRows'
  BY <1>19 DEF RetryCheck, Abort
<1>20. ASSUME NEW r \in Requests, DeleteStory(r) PROVE OneWorkerPerRequest' /\ HeldRows'
  BY <1>20 DEF DeleteStory
<1>21. CASE UNCHANGED vars
  BY <1>21 DEF vars
<1> QED
  BY <1>1, <1>2, <1>3, <1>4, <1>7, <1>8, <1>9, <1>10, <1>11, <1>12, <1>13,
     <1>14, <1>15, <1>16, <1>17, <1>18, <1>19, <1>20, <1>21
  DEF Next, WorkerStep, WorkerEnvironment, ClientStep, Finish, ErrorCodes

(* What the open API transactions have read.                               *)
LEMMA NextOpen ==
  ASSUME SerialRetries, TimelyCalls, TypeOK, QueueInv, [Next]_vars
  PROVE  OpenTransactions'
<1> USE DEF rowVars, storyVars, workerVars, clientVars, QueueInv,
            OpenTransactions
<1>1. ASSUME NEW w \in Workers, CommitClaim(w) PROVE OpenTransactions'
  <2>1. cur[w] \in Requests /\ row[cur[w]].status = "queued"
    BY <1>1 DEF TypeOK, CommitClaim, HeldRows, Holding
  <2>2. row[cur[w]] # NoRow /\ row[cur[w]].status # "failed"
    BY <2>1 DEF NoRow
  <2>3. \A r \in Requests : r # cur[w] => row'[r] = row[r]
    BY <1>1 DEF TypeOK, CommitClaim
  <2>4. \A r \in Requests : r >= nextId => row'[r] = NoRow
    BY <2>1, <2>2, <2>3
  <2> QED
    BY <1>1, <2>1, <2>2, <2>3, <2>4 DEF TypeOK, CommitClaim
<1>2. ASSUME NEW w \in Workers, NEW new \in Row, CommitOutcome(w, new),
             pc[w] = "calling"
      PROVE  OpenTransactions'
  <2>1. cur[w] \in Requests /\ row[cur[w]].status = "running"
    BY <1>2 DEF TypeOK, CommitOutcome, HeldRows, Holding
  <2>2. row[cur[w]] # NoRow /\ row[cur[w]].status # "failed"
    BY <2>1 DEF NoRow
  <2>3. \A r \in Requests : r # cur[w] => row'[r] = row[r]
    BY <1>2 DEF TypeOK, CommitOutcome
  <2>4. \A r \in Requests : r >= nextId => row'[r] = NoRow
    BY <2>1, <2>2, <2>3
  <2> QED
    BY <1>2, <2>1, <2>2, <2>3, <2>4 DEF TypeOK, CommitOutcome
<1>3. ASSUME UNCHANGED <<rowVars, clientVars>> PROVE OpenTransactions'
  BY <1>3
<1>4. ASSUME NEW w \in Workers, NEW code \in ErrorCodes, Fail(w, code)
      PROVE  OpenTransactions'
  <2>1. FailedRow(row[cur[w]], code) \in Row
    BY <1>4, RowsStayRows DEF TypeOK, Fail, Holding
  <2> QED
    BY <1>2, <1>3, <1>4, <2>1 DEF Fail, RejectOutcome
<1>5. ASSUME NEW w \in Workers, Succeed(w) PROVE OpenTransactions'
  <2>1. SucceededRow(row[cur[w]]) \in Row
    BY <1>5, RowsStayRows DEF TypeOK, Succeed, ErrorCodes, Holding
  <2> QED
    BY <1>2, <1>3, <1>5, <2>1 DEF Succeed, RejectOutcome
<1>6. ASSUME NEW w \in Workers, Reclaim(w) PROVE OpenTransactions'
  <2>1. \A r \in Requests : row[r].status # "running" => row'[r] = row[r]
    BY <1>6 DEF Reclaim
  <2>2. \A r \in Requests : row[r] = NoRow => row'[r] = row[r]
    BY <2>1 DEF NoRow
  <2> QED
    BY <1>6, <2>1, <2>2 DEF TypeOK, Reclaim
<1>7. ASSUME NEW r \in Requests, Age(r) PROVE OpenTransactions'
  BY <1>7 DEF Age
<1>8. ASSUME NEW c \in Clients, CreateCheck(c) PROVE OpenTransactions'
  <2>1. \A d \in Clients : op[d] # "none" => arg[d] \in Requests /\ arg[d] # nextId
    BY <1>8 DEF TypeOK, CreateCheck, Requests, Ops, NoRow
  <2> QED
    BY <1>8, <2>1, ConstantsOK DEF TypeOK, CreateCheck, Requests
<1>9. ASSUME NEW c \in Clients, CreateCommit(c) PROVE OpenTransactions'
  <2>1. \A d \in Clients : d # c /\ op[d] # "none" => arg[d] # arg[c]
    BY <1>9 DEF CreateCommit
  <2>2. arg[c] \in Requests /\ arg[c] < nextId
    BY <1>9 DEF TypeOK, CreateCommit
  <2>3. \A r \in Requests : r # arg[c] => row'[r] = row[r]
    BY <1>9 DEF TypeOK, CreateCommit
  <2> QED
    BY <1>9, <2>1, <2>2, <2>3 DEF TypeOK, CreateCommit, EndTransaction, Requests
<1>10. ASSUME NEW c \in Clients, NEW r \in Requests, RetryRead(c, r)
       PROVE  OpenTransactions'
  <2>1. \A d \in Clients : op[d] # "none" => arg[d] # r
    BY <1>10 DEF TypeOK, RetryRead, Ops, NoRow
  <2> QED
    BY <1>10, <2>1 DEF TypeOK, RetryRead
<1>11. ASSUME NEW c \in Clients, RetryCheck(c) PROVE OpenTransactions'
  BY <1>11 DEF TypeOK, RetryCheck
<1>12. ASSUME NEW c \in Clients, RetryCommit(c) PROVE OpenTransactions'
  <2>1. \A d \in Clients : d # c /\ op[d] # "none" => arg[d] # arg[c]
    BY <1>12 DEF RetryCommit
  <2>2. arg[c] \in Requests /\ row[arg[c]] # NoRow
    BY <1>12 DEF TypeOK, RetryCommit, NoRow
  <2>3. \A r \in Requests : r # arg[c] => row'[r] = row[r]
    BY <1>12 DEF TypeOK, RetryCommit
  <2> QED
    BY <1>12, <2>1, <2>2, <2>3 DEF TypeOK, RetryCommit, EndTransaction
<1>13. ASSUME NEW c \in Clients, Abort(c) PROVE OpenTransactions'
  BY <1>13 DEF TypeOK, Abort, EndTransaction
<1>14. CASE UNCHANGED vars
  BY <1>3, <1>14 DEF vars
<1>15. ASSUME NEW w \in Workers,
              \/ LockNext(w) \/ PollEmpty(w) \/ Load(w) \/ Exit(w)
              \/ RequestStop(w) \/ Crash(w) \/ Restart(w)
       PROVE  OpenTransactions'
  BY <1>3, <1>15 DEF LockNext, PollEmpty, Load, Exit, RequestStop, Crash, Restart
<1>16. ASSUME NEW r \in Requests, DeleteStory(r) PROVE OpenTransactions'
  BY <1>3, <1>16 DEF DeleteStory
<1> QED
  BY <1>1, <1>4, <1>5, <1>6, <1>7, <1>8, <1>9, <1>10, <1>11, <1>12, <1>13,
     <1>14, <1>15, <1>16
  DEF Next, WorkerStep, WorkerEnvironment, ClientStep, Finish, ErrorCodes

(* What is true of each row by itself.                                     *)
RowGroup ==
  /\ StoryOfSucceeded /\ AttemptsBounded /\ QueuedHasAttemptLeft
  /\ OneStoryPerSuccess /\ ErrorOnlyWhenFailed

(* An action that changes one row only has that row to account for.        *)
LEMMA OneRowChanged ==
  ASSUME TypeOK, QueueInv, NEW q \in Requests,
         \A r \in Requests : r # q => row'[r] = row[r] /\ produced'[r] = produced[r],
         story' \subseteq story \cup {q},
         row'[q].status # "absent",
         row'[q].attempts <= MaxAttempts,
         row'[q].status = "queued" => row'[q].attempts < MaxAttempts,
         row'[q].error # "none" <=> row'[q].status = "failed",
         produced'[q] = IF row'[q].status = "succeeded" THEN 1 ELSE 0,
         q \in story' => row'[q].status = "succeeded"
  PROVE  RowGroup'
<1> USE DEF QueueInv, RowGroup
<1>1. StoryOfSucceeded'
  BY DEF StoryOfSucceeded, TypeOK
<1>2. AttemptsBounded' /\ QueuedHasAttemptLeft'
  BY DEF AttemptsBounded, QueuedHasAttemptLeft
<1>3. OneStoryPerSuccess'
  BY DEF OneStoryPerSuccess
<1>4. ErrorOnlyWhenFailed'
  BY DEF ErrorOnlyWhenFailed
<1> QED
  BY <1>1, <1>2, <1>3, <1>4

LEMMA NextRows ==
  ASSUME SerialRetries, TimelyCalls, TypeOK, QueueInv, [Next]_vars
  PROVE  RowGroup'
<1> USE ConstantsOK DEF rowVars, storyVars, workerVars, clientVars, QueueInv,
        RowGroup, StoryOfSucceeded, AttemptsBounded, QueuedHasAttemptLeft,
        OneStoryPerSuccess, ErrorOnlyWhenFailed
<1>1. ASSUME NEW w \in Workers, CommitClaim(w) PROVE RowGroup'
  <2>1. cur[w] \in Requests /\ row[cur[w]].status = "queued"
    BY <1>1 DEF TypeOK, CommitClaim, HeldRows, Holding
  <2>2. /\ row'[cur[w]].status = "running"
        /\ row'[cur[w]].attempts = row[cur[w]].attempts + 1
        /\ row'[cur[w]].error = row[cur[w]].error
    BY <1>1, <2>1 DEF TypeOK, CommitClaim, ClaimedRow, Row
  <2>3. \A r \in Requests : r # cur[w] => row'[r] = row[r]
    BY <1>1 DEF TypeOK, CommitClaim
  <2>4. row[cur[w]].attempts \in Nat /\ row[cur[w]].attempts < MaxAttempts
    BY <2>1 DEF TypeOK, Row
  <2>5. row'[cur[w]].attempts <= MaxAttempts
    BY <2>2, <2>4
  <2> QED
    BY <1>1, <2>1, <2>2, <2>3, <2>5 DEF TypeOK, CommitClaim
<1>2. ASSUME UNCHANGED <<row, storyVars>> PROVE RowGroup'
  BY <1>2
<1>3. ASSUME NEW w \in Workers, NEW code \in ErrorCodes, Fail(w, code), code # "none"
      PROVE  RowGroup'
  <2>1. CASE CommitOutcome(w, FailedRow(row[cur[w]], code)) /\ UNCHANGED <<story, produced>>
    <3>1. cur[w] \in Requests /\ row[cur[w]].status = "running"
      BY <1>3 DEF TypeOK, Fail, HeldRows, Holding
    <3>2. /\ row'[cur[w]].status = "failed"
          /\ row'[cur[w]].attempts = row[cur[w]].attempts
          /\ row'[cur[w]].error = code
      BY <2>1, <3>1 DEF TypeOK, CommitOutcome, FailedRow, Row
    <3>3. \A r \in Requests : r # cur[w] => row'[r] = row[r]
      BY <2>1 DEF TypeOK, CommitOutcome
    <3> QED
      BY <1>3, <2>1, <3>1, <3>2, <3>3, OneRowChanged
  <2>2. CASE RejectOutcome(w)
    BY <1>2, <2>2 DEF RejectOutcome
  <2> QED
    BY <1>3, <2>1, <2>2 DEF Fail
<1>4. ASSUME NEW w \in Workers, Succeed(w) PROVE RowGroup'
  <2>1. CASE /\ CommitOutcome(w, SucceededRow(row[cur[w]]))
             /\ story' = story \cup {cur[w]}
             /\ produced' = [produced EXCEPT ![cur[w]] = @ + 1]
    <3>1. cur[w] \in Requests /\ row[cur[w]].status = "running"
      BY <1>4 DEF TypeOK, Succeed, HeldRows, Holding
    <3>2. /\ row'[cur[w]].status = "succeeded"
          /\ row'[cur[w]].attempts = row[cur[w]].attempts
          /\ row'[cur[w]].error = row[cur[w]].error
      BY <2>1, <3>1 DEF TypeOK, CommitOutcome, SucceededRow, Row
    <3>3. \A r \in Requests : r # cur[w] => row'[r] = row[r] /\ produced'[r] = produced[r]
      BY <2>1 DEF TypeOK, CommitOutcome
    <3>4. produced'[cur[w]] = 1
      <4>1. produced[cur[w]] = 0 /\ produced \in [Requests -> Nat]
        BY <3>1 DEF TypeOK
      <4> QED
        BY <2>1, <3>1, <4>1
    <3> QED
      BY <2>1, <3>1, <3>2, <3>3, <3>4, OneRowChanged
  <2>2. CASE RejectOutcome(w)
    BY <1>2, <2>2 DEF RejectOutcome
  <2> QED
    BY <1>4, <2>1, <2>2 DEF Succeed
<1>5. ASSUME NEW w \in Workers, Reclaim(w) PROVE RowGroup'
  <2>1. ASSUME NEW r \in Requests, row'[r] # row[r]
        PROVE  /\ row[r].status = "running"
               /\ row'[r].attempts = row[r].attempts
               /\ \/ /\ row'[r].status = "queued"
                     /\ row'[r].attempts < MaxAttempts
                     /\ row'[r].error = row[r].error
                  \/ /\ row'[r].status = "failed"
                     /\ row'[r].error = "StaleWorkerRetryLimitExceeded"
    <3>1. row[r].status = "running" /\ row'[r] = ReclaimedRow(row[r]) /\ row[r] \in Row
      BY <1>5, <2>1 DEF Reclaim, TypeOK
    <3>2. CASE row[r].attempts < MaxAttempts
      BY <3>1, <3>2 DEF ReclaimedRow, Row
    <3>3. CASE ~(row[r].attempts < MaxAttempts)
      BY <3>1, <3>3 DEF ReclaimedRow, FailedRow, Row
    <3> QED
      BY <3>1, <3>2, <3>3
  <2>2. UNCHANGED storyVars
    BY <1>5 DEF Reclaim
  <2>3. StoryOfSucceeded' /\ OneStoryPerSuccess'
    <3>1. \A r \in Requests : row'[r].status = "absent" => row'[r] = row[r]
      BY <2>1
    <3>2. \A r \in Requests :
            row'[r].status = "succeeded" <=> row[r].status = "succeeded"
      BY <2>1
    <3>3. story \subseteq Requests
      BY DEF TypeOK
    <3> QED
      BY <2>2, <3>1, <3>2, <3>3
  <2>4. AttemptsBounded' /\ QueuedHasAttemptLeft' /\ ErrorOnlyWhenFailed'
    BY <2>1
  <2> QED
    BY <2>3, <2>4
<1>6. ASSUME NEW c \in Clients, CreateCommit(c) PROVE RowGroup'
  <2>1. arg[c] \in Requests /\ row[arg[c]] = NoRow
    BY <1>6 DEF TypeOK, CreateCommit, OpenTransactions
  <2>2. /\ row'[arg[c]].status = "queued"
        /\ row'[arg[c]].attempts = 0
        /\ row'[arg[c]].error = "none"
    BY <1>6, <2>1 DEF TypeOK, CreateCommit, NoRow
  <2>3. \A r \in Requests : r # arg[c] => row'[r] = row[r]
    BY <1>6 DEF TypeOK, CreateCommit
  <2> QED
    BY <1>6, <2>1, <2>2, <2>3, OneRowChanged DEF CreateCommit, NoRow
<1>7. ASSUME NEW c \in Clients, RetryCommit(c) PROVE RowGroup'
  <2>1. /\ arg[c] \in Requests
        /\ row[arg[c]].status = "failed"
        /\ row[arg[c]].attempts < MaxAttempts
    BY <1>7 DEF TypeOK, RetryCommit, OpenTransactions
  <2>2. /\ row'[arg[c]].status = "queued"
        /\ row'[arg[c]].attempts = row[arg[c]].attempts
        /\ row'[arg[c]].error = "none"
    BY <1>7, <2>1 DEF TypeOK, RetryCommit, RetriedRow, Row
  <2>3. \A r \in Requests : r # arg[c] => row'[r] = row[r]
    BY <1>7 DEF TypeOK, RetryCommit
  <2> QED
    BY <1>7, <2>1, <2>2, <2>3 DEF TypeOK, RetryCommit
<1>8. ASSUME NEW r \in Requests, DeleteStory(r) PROVE RowGroup'
  BY <1>8 DEF DeleteStory
<1>9. ASSUME NEW w \in Workers,
             \/ LockNext(w) \/ PollEmpty(w) \/ Load(w) \/ Exit(w)
             \/ RequestStop(w) \/ Crash(w) \/ Restart(w)
      PROVE  RowGroup'
  BY <1>2, <1>9 DEF LockNext, PollEmpty, Load, Exit, RequestStop, Crash, Restart
<1>10. ASSUME NEW c \in Clients, NEW r \in Requests, RetryRead(c, r)
       PROVE  RowGroup'
  BY <1>2, <1>10 DEF RetryRead
<1>11. ASSUME NEW r \in Requests, Age(r) PROVE RowGroup'
  BY <1>2, <1>11 DEF Age
<1>12. ASSUME NEW c \in Clients, CreateCheck(c) \/ RetryCheck(c) \/ Abort(c)
       PROVE  RowGroup'
  BY <1>2, <1>12 DEF CreateCheck, RetryCheck, Abort
<1>13. CASE UNCHANGED vars
  BY <1>2, <1>13 DEF vars
<1> QED
  BY <1>1, <1>3, <1>4, <1>5, <1>6, <1>7, <1>8, <1>9, <1>10, <1>11, <1>12, <1>13
  DEF Next, WorkerStep, WorkerEnvironment, ClientStep, Finish, ErrorCodes

(* The inductive invariant of the queue holds in every reachable state,    *)
(* when retries of a request do not overlap and live workers are timely.   *)
THEOREM QueueInvariant ==
  ASSUME SerialRetries, TimelyCalls
  PROVE  Spec => []QueueInv
<1>1. TypeOK /\ QueueInv /\ [Next]_vars => QueueInv'
  BY NextHeld, NextOpen, NextRows DEF QueueInv, RowGroup
<1> QED
  BY <1>1, InitInv, TypeCorrect, PTL DEF Spec

-----------------------------------------------------------------------------
(* Nothing is assumed of the timing: retries may overlap and workers may   *)
(* stall past the threshold.                                               *)

LEMMA InitRace == Init => RaceInv
  BY DEF Init, RaceInv, Holding, NoRow, LifecycleHolds, LifecycleCheck

(* Claims: the row lock keeps the claimed row queued.                      *)
LEMMA ClaimRace ==
  ASSUME TypeOK, RaceInv, NEW w \in Workers, CommitClaim(w)
  PROVE  RaceInv'
<1> USE DEF rowVars, storyVars, workerVars, clientVars
<1>1. cur[w] \in Requests /\ row[cur[w]].status = "queued" /\ row[cur[w]] \in Row
  BY DEF TypeOK, CommitClaim, RaceInv, Holding
<1>2. row'[cur[w]].status = "running" /\ row'[cur[w]].started
      /\ row'[cur[w]].completed = row[cur[w]].completed
  BY <1>1 DEF TypeOK, CommitClaim, ClaimedRow, Row
<1>3. \A r \in Requests : r # cur[w] => row'[r] = row[r]
  BY DEF TypeOK, CommitClaim
<1>4. LifecycleHolds'
  <2>1. LifecycleCheck(row'[cur[w]])
    BY <1>1, <1>2 DEF RaceInv, LifecycleHolds, LifecycleCheck, Finished
  <2> QED
    BY <1>3, <2>1 DEF RaceInv, LifecycleHolds
<1>5. \A v \in Workers : v # w /\ pc[v] = "locked" => cur[v] # cur[w]
  BY DEF RaceInv, CommitClaim
<1> QED
  BY <1>1, <1>2, <1>3, <1>4, <1>5 DEF TypeOK, CommitClaim, RaceInv, Holding

(* Outcomes: an accepted one satisfies the CHECK, a refused one changes    *)
(* no row.                                                                 *)
LEMMA OutcomeRace ==
  ASSUME TypeOK, RaceInv, NEW w \in Workers, NEW new \in Row, pc[w] = "calling",
         ~Locked(cur[w]), new.status \in Finished, LifecycleCheck(new),
         CommitOutcome(w, new)
  PROVE  RaceInv'
<1> USE DEF rowVars, storyVars, workerVars, clientVars
<1>1. cur[w] \in Requests /\ row[cur[w]].status # "absent"
  BY DEF TypeOK, RaceInv, Holding
<1>2. row'[cur[w]] = new /\ new.status # "absent"
  BY <1>1 DEF TypeOK, CommitOutcome, Finished
<1>3. \A r \in Requests : r # cur[w] => row'[r] = row[r]
  BY DEF TypeOK, CommitOutcome
<1>4. LifecycleHolds'
  BY <1>2, <1>3 DEF RaceInv, LifecycleHolds
<1>5. \A v \in Workers : pc[v] = "locked" => cur[v] # cur[w]
  BY DEF Locked
<1> QED
  BY <1>1, <1>2, <1>3, <1>4, <1>5
  DEF TypeOK, CommitOutcome, Release, RaceInv, Holding

(* Sweeps touch running rows only, and leave them queued or failed.        *)
LEMMA ReclaimRace ==
  ASSUME TypeOK, RaceInv, NEW w \in Workers, Reclaim(w)
  PROVE  RaceInv'
<1> USE DEF rowVars, storyVars, workerVars, clientVars
<1>1. ASSUME NEW r \in Requests
      PROVE  /\ LifecycleCheck(row'[r])
             /\ row'[r].status = "absent" <=> row[r].status = "absent"
             /\ row[r].status = "queued" => row'[r].status = "queued"
  <2>1. row[r] \in Row /\ LifecycleCheck(row[r])
    BY DEF TypeOK, RaceInv, LifecycleHolds
  <2>2. CASE row'[r] = row[r]
    BY <2>1, <2>2
  <2>3. CASE row'[r] # row[r]
    <3>1. row[r].status = "running" /\ row'[r] = ReclaimedRow(row[r])
      BY <2>3 DEF Reclaim
    <3>2. row[r].started /\ ~row[r].completed
      BY <2>1, <3>1 DEF LifecycleCheck, Finished
    <3>3. CASE row[r].attempts < MaxAttempts
      BY <2>1, <3>1, <3>2, <3>3 DEF ReclaimedRow, LifecycleCheck, Row
    <3>4. CASE ~(row[r].attempts < MaxAttempts)
      BY <2>1, <3>1, <3>2, <3>4
      DEF ReclaimedRow, FailedRow, LifecycleCheck, Row, Finished
    <3> QED
      BY <3>3, <3>4
  <2> QED
    BY <2>2, <2>3
<1> QED
  BY <1>1 DEF TypeOK, Reclaim, RaceInv, Holding, LifecycleHolds

LEMMA CreateCheckRace ==
  ASSUME TypeOK, RaceInv, NEW c \in Clients, CreateCheck(c)
  PROVE  RaceInv'
<1>1. \A d \in Clients : op[d] = "create" => arg[d] \in Requests /\ arg[d] # nextId
  BY DEF TypeOK, RaceInv, Requests
<1> QED
  BY <1>1, ConstantsOK
  DEF TypeOK, CreateCheck, RaceInv, Requests, rowVars, storyVars, workerVars,
      clientVars, LifecycleHolds

LEMMA CreateCommitRace ==
  ASSUME TypeOK, RaceInv, NEW c \in Clients, CreateCommit(c)
  PROVE  RaceInv'
<1> USE DEF rowVars, storyVars, workerVars, clientVars
<1>1. arg[c] \in Requests /\ row[arg[c]].status = "absent" /\ arg[c] < nextId
  BY DEF TypeOK, CreateCommit, RaceInv
<1>2. row'[arg[c]] = [NoRow EXCEPT !.status = "queued"]
  BY <1>1 DEF TypeOK, CreateCommit
<1>3. row'[arg[c]].status = "queued" /\ LifecycleCheck(row'[arg[c]])
  BY <1>2 DEF NoRow, LifecycleCheck
<1>4. \A r \in Requests : r # arg[c] => row'[r] = row[r]
  BY DEF TypeOK, CreateCommit
<1>5. LifecycleHolds'
  BY <1>3, <1>4 DEF RaceInv, LifecycleHolds
<1>6. \A d \in Clients : d # c /\ op[d] = "create" => arg[d] # arg[c]
  BY DEF RaceInv, CreateCommit
<1>7. \A w \in Workers : pc[w] \in Holding => cur[w] # arg[c]
  BY <1>1 DEF RaceInv
<1> QED
  BY <1>1, <1>3, <1>4, <1>5, <1>6, <1>7
  DEF TypeOK, CreateCommit, EndTransaction, RaceInv, Holding, Requests

(* A retry overwrites whatever is there by then with a queued row.         *)
LEMMA RetryCommitRace ==
  ASSUME TypeOK, RaceInv, NEW c \in Clients, RetryCommit(c)
  PROVE  RaceInv'
<1> USE DEF rowVars, storyVars, workerVars, clientVars
<1>1. /\ arg[c] \in Requests
      /\ row[arg[c]] \in Row
      /\ row[arg[c]].status # "absent"
  BY DEF TypeOK, RetryCommit, RaceInv
<1>2. row'[arg[c]] = RetriedRow(row[arg[c]])
  BY <1>1 DEF TypeOK, RetryCommit
<1>3. row'[arg[c]].status = "queued" /\ LifecycleCheck(row'[arg[c]])
  BY <1>1, <1>2 DEF RetriedRow, LifecycleCheck, Row
<1>4. \A r \in Requests : r # arg[c] => row'[r] = row[r]
  BY DEF TypeOK, RetryCommit
<1>5. LifecycleHolds'
  BY <1>3, <1>4 DEF RaceInv, LifecycleHolds
<1> QED
  BY <1>1, <1>3, <1>4, <1>5
  DEF TypeOK, RetryCommit, EndTransaction, RaceInv, Holding, Requests

LEMMA NextRace == TypeOK /\ RaceInv /\ [Next]_vars => RaceInv'
<1> SUFFICES ASSUME TypeOK, RaceInv, [Next]_vars PROVE RaceInv'
  OBVIOUS
<1> USE DEF rowVars, storyVars, workerVars, clientVars
<1>1. ASSUME NEW w \in Workers, LockNext(w) PROVE RaceInv'
  BY <1>1 DEF TypeOK, LockNext, Claimable, Locked, RaceInv, Holding, LifecycleHolds
<1>2. ASSUME NEW w \in Workers, Dies(w), UNCHANGED <<rowVars, clientVars>>
      PROVE  RaceInv'
  BY <1>2 DEF TypeOK, Dies, Release, RaceInv, Holding, LifecycleHolds
<1>3. ASSUME NEW w \in Workers, NEW code \in ErrorCodes, Fail(w, code) PROVE RaceInv'
  <2>1. cur[w] \in Requests /\ row[cur[w]] \in Row
    BY <1>3 DEF TypeOK, Fail, Holding
  <2>2. FailedRow(row[cur[w]], code) \in Row
        /\ FailedRow(row[cur[w]], code).status \in Finished
    BY <2>1, RowsStayRows DEF FailedRow, Finished, Row
  <2> QED
    BY <1>2, <1>3, <2>2, OutcomeRace DEF Fail, Writable, RejectOutcome
<1>4. ASSUME NEW w \in Workers, Succeed(w) PROVE RaceInv'
  <2>1. cur[w] \in Requests /\ row[cur[w]] \in Row
    BY <1>4 DEF TypeOK, Succeed, Holding
  <2>2. SucceededRow(row[cur[w]]) \in Row
        /\ SucceededRow(row[cur[w]]).status \in Finished
    BY <2>1, RowsStayRows DEF SucceededRow, Finished, Row, ErrorCodes
  <2> QED
    BY <1>2, <1>4, <2>2, OutcomeRace DEF Succeed, Writable, RejectOutcome
<1>5. ASSUME NEW w \in Workers,
             \/ PollEmpty(w) \/ Load(w) \/ Exit(w) \/ RequestStop(w) \/ Restart(w)
      PROVE  RaceInv'
  <2>1. UNCHANGED <<row, op, arg, nextId, cur>>
    BY <1>5 DEF PollEmpty, Load, Exit, RequestStop, Restart
  <2>2. \A v \in Workers :
          /\ pc'[v] = "locked" => pc[v] = "locked"
          /\ pc'[v] \in Holding => pc[v] \in Holding
    BY <1>5 DEF PollEmpty, Load, Exit, RequestStop, Restart, TypeOK, Holding
  <2> QED
    BY <2>1, <2>2 DEF RaceInv, LifecycleHolds
<1>6. ASSUME NEW c \in Clients, RetryCheck(c) \/ Abort(c) PROVE RaceInv'
  <2>1. UNCHANGED <<row, nextId, pc, cur>>
    BY <1>6 DEF RetryCheck, Abort
  <2>2. \A d \in Clients :
          /\ op'[d] = "create" => op[d] = "create" /\ arg'[d] = arg[d]
          /\ op'[d] \in {"retry_read", "retry"} =>
               op[d] \in {"retry_read", "retry"} /\ arg'[d] = arg[d]
    BY <1>6 DEF RetryCheck, Abort, EndTransaction, TypeOK
  <2> QED
    BY <2>1, <2>2 DEF RaceInv, LifecycleHolds
<1>7. ASSUME NEW c \in Clients, NEW r \in Requests, RetryRead(c, r) PROVE RaceInv'
  BY <1>7 DEF RetryRead, TypeOK, RaceInv, LifecycleHolds
<1>8. ASSUME NEW r \in Requests, Age(r) \/ DeleteStory(r) PROVE RaceInv'
  BY <1>8 DEF Age, DeleteStory, RaceInv, LifecycleHolds
<1>9. CASE UNCHANGED vars
  BY <1>9 DEF vars, RaceInv, LifecycleHolds
<1>10. ASSUME NEW w \in Workers, Crash(w) PROVE RaceInv'
  BY <1>2, <1>10 DEF Crash
<1> QED
  BY <1>1, <1>3, <1>4, <1>5, <1>6, <1>7, <1>8, <1>9, <1>10, ClaimRace,
     ReclaimRace, CreateCheckRace, CreateCommitRace, RetryCommitRace
  DEF Next, WorkerStep, WorkerEnvironment, ClientStep, Finish, ErrorCodes

(* Every row that is ever committed satisfies the timestamps CHECK, so the *)
(* database refuses no claim, sweep or retry, whatever the interleaving.   *)
THEOREM LifecycleAlwaysHolds == Spec => []LifecycleHolds
<1>1. RaceInv => LifecycleHolds
  BY DEF RaceInv
<1> QED
  BY <1>1, InitRace, NextRace, TypeCorrect, PTL DEF Spec

-----------------------------------------------------------------------------
(* The capacity overrun.                                                   *)

(* Transactions that have passed the capacity check and not yet committed: *)
(* each may still add one active row.                                      *)
Passed == {c \in Clients : op[c] \in {"create", "retry"}}

CapInv ==
  Cardinality(ActiveRequests) + Cardinality(Passed)
    <= MaxActive + Cardinality(Clients) - 1

LEMMA FiniteSets ==
  /\ IsFiniteSet(ActiveRequests) /\ Cardinality(ActiveRequests) \in Nat
  /\ IsFiniteSet(Passed) /\ Cardinality(Passed) \in Nat
  /\ Cardinality(Clients) \in Nat
<1>1. IsFiniteSet(Requests)
  BY ConstantsOK, FS_Interval DEF Requests
<1>2. IsFiniteSet(ActiveRequests) /\ IsFiniteSet(Passed)
  BY <1>1, ConstantsOK, FS_Subset DEF ActiveRequests, Passed
<1> QED
  BY <1>2, ConstantsOK, FS_CardinalityType

(* No worker, sweep or clock step makes a row active that was not.         *)
LEMMA ActiveShrinks ==
  ASSUME TypeOK, RaceInv, NEW w \in Workers, WorkerStep(w) \/ WorkerEnvironment(w)
  PROVE  ActiveRequests' \subseteq ActiveRequests /\ UNCHANGED clientVars
<1> USE DEF rowVars, storyVars, workerVars
<1>1. ASSUME UNCHANGED <<row, clientVars>>
      PROVE  ActiveRequests' \subseteq ActiveRequests /\ UNCHANGED clientVars
  BY <1>1 DEF ActiveRequests
<1>2. ASSUME CommitClaim(w)
      PROVE  ActiveRequests' \subseteq ActiveRequests /\ UNCHANGED clientVars
  <2>1. cur[w] \in Requests /\ row[cur[w]].status = "queued"
    BY <1>2 DEF TypeOK, CommitClaim, RaceInv, Holding
  <2>2. \A r \in Requests : r # cur[w] => row'[r] = row[r]
    BY <1>2 DEF TypeOK, CommitClaim
  <2> QED
    BY <1>2, <2>1, <2>2 DEF CommitClaim, ActiveRequests, ActiveStatus
<1>3. ASSUME NEW new \in Row, CommitOutcome(w, new), new.status \in Finished,
             cur[w] \in Requests
      PROVE  ActiveRequests' \subseteq ActiveRequests /\ UNCHANGED clientVars
  <2>1. row'[cur[w]] = new
    BY <1>3 DEF TypeOK, CommitOutcome
  <2>2. \A r \in Requests : r # cur[w] => row'[r] = row[r]
    BY <1>3 DEF TypeOK, CommitOutcome
  <2> QED
    BY <1>3, <2>1, <2>2 DEF CommitOutcome, ActiveRequests, ActiveStatus, Finished
<1>4. ASSUME NEW code \in ErrorCodes, Fail(w, code)
      PROVE  ActiveRequests' \subseteq ActiveRequests /\ UNCHANGED clientVars
  <2>1. cur[w] \in Requests /\ row[cur[w]] \in Row
    BY <1>4 DEF TypeOK, Fail, Holding
  <2>2. FailedRow(row[cur[w]], code) \in Row
        /\ FailedRow(row[cur[w]], code).status \in Finished
    BY <2>1, RowsStayRows DEF FailedRow, Finished, Row
  <2> QED
    BY <1>1, <1>3, <1>4, <2>1, <2>2 DEF Fail, RejectOutcome
<1>5. ASSUME Succeed(w)
      PROVE  ActiveRequests' \subseteq ActiveRequests /\ UNCHANGED clientVars
  <2>1. cur[w] \in Requests /\ row[cur[w]] \in Row
    BY <1>5 DEF TypeOK, Succeed, Holding
  <2>2. SucceededRow(row[cur[w]]) \in Row
        /\ SucceededRow(row[cur[w]]).status \in Finished
    BY <2>1, RowsStayRows DEF SucceededRow, Finished, Row, ErrorCodes
  <2> QED
    BY <1>1, <1>3, <1>5, <2>1, <2>2 DEF Succeed, RejectOutcome
<1>6. ASSUME Reclaim(w)
      PROVE  ActiveRequests' \subseteq ActiveRequests /\ UNCHANGED clientVars
  <2>1. \A r \in Requests : row'[r] # row[r] => row[r].status = "running"
    BY <1>6 DEF Reclaim
  <2> QED
    BY <1>6, <2>1 DEF Reclaim, ActiveRequests, ActiveStatus
<1>7. ASSUME \/ LockNext(w) \/ PollEmpty(w) \/ Load(w) \/ Exit(w)
             \/ RequestStop(w) \/ Crash(w) \/ Restart(w)
      PROVE  ActiveRequests' \subseteq ActiveRequests /\ UNCHANGED clientVars
  BY <1>1, <1>7
  DEF LockNext, PollEmpty, Load, Exit, RequestStop, Crash, Restart
<1> QED
  BY <1>2, <1>4, <1>5, <1>6, <1>7
  DEF WorkerStep, WorkerEnvironment, Finish, ErrorCodes

(* Passing the check is possible only below the cap.                       *)
LEMMA CheckKeepsCap ==
  ASSUME NEW c \in Clients, CapInv, HasCapacity, UNCHANGED row
  PROVE  CapInv'
<1>1. Passed' \subseteq Clients
  BY DEF Passed
<1>2. IsFiniteSet(Passed') /\ Cardinality(Passed') \in Nat
      /\ Cardinality(Passed') <= Cardinality(Clients)
  BY <1>1, ConstantsOK, FS_Subset, FS_CardinalityType
<1>3. ActiveRequests' = ActiveRequests
  BY DEF ActiveRequests
<1>4. Cardinality(ActiveRequests) <= MaxActive - 1
  BY FiniteSets, ConstantsOK DEF HasCapacity
<1>5. Cardinality(ActiveRequests') + Cardinality(Passed')
        <= MaxActive + Cardinality(Clients) - 1
  BY <1>2, <1>3, <1>4, FiniteSets, ConstantsOK
<1>6. UNCHANGED <<MaxActive, Cardinality(Clients)>>
  OBVIOUS
<1> QED
  BY <1>5, <1>6 DEF CapInv

(* A commit spends the place its check took.                               *)
LEMMA CommitKeepsCap ==
  ASSUME NEW c \in Clients, NEW r \in Requests, CapInv, c \in Passed,
         Passed' = Passed \ {c}, ActiveRequests' \subseteq ActiveRequests \cup {r}
  PROVE  CapInv'
<1>1. Cardinality(Passed') = Cardinality(Passed) - 1
  BY FiniteSets, FS_RemoveElement
<1>2. /\ IsFiniteSet(ActiveRequests \cup {r})
      /\ Cardinality(ActiveRequests \cup {r}) <= Cardinality(ActiveRequests) + 1
  <2>1. /\ IsFiniteSet(ActiveRequests \cup {r})
        /\ \/ Cardinality(ActiveRequests \cup {r}) = Cardinality(ActiveRequests)
           \/ Cardinality(ActiveRequests \cup {r}) = Cardinality(ActiveRequests) + 1
    BY FiniteSets, FS_AddElement
  <2> QED
    BY <2>1, FiniteSets
<1>3. /\ Cardinality(ActiveRequests') <= Cardinality(ActiveRequests) + 1
      /\ Cardinality(ActiveRequests') \in Nat
  <2>1. /\ IsFiniteSet(ActiveRequests')
        /\ Cardinality(ActiveRequests') <= Cardinality(ActiveRequests \cup {r})
    BY <1>2, FS_Subset
  <2>2. Cardinality(ActiveRequests') \in Nat
        /\ Cardinality(ActiveRequests \cup {r}) \in Nat
    BY <1>2, <2>1, FS_CardinalityType
  <2> QED
    BY <1>2, <2>1, <2>2, FiniteSets
<1> QED
  BY <1>1, <1>3, FiniteSets, ConstantsOK DEF CapInv

(* Fewer active rows, or fewer transactions past the check, keep the bound.*)
LEMMA SmallerKeepsCap ==
  ASSUME CapInv, ActiveRequests' \subseteq ActiveRequests, Passed' \subseteq Passed
  PROVE  CapInv'
<1>1. /\ Cardinality(ActiveRequests') <= Cardinality(ActiveRequests)
      /\ IsFiniteSet(ActiveRequests')
      /\ Cardinality(Passed') <= Cardinality(Passed)
      /\ IsFiniteSet(Passed')
  BY FiniteSets, FS_Subset
<1>2. Cardinality(ActiveRequests') \in Nat /\ Cardinality(Passed') \in Nat
  BY <1>1, FS_CardinalityType
<1> QED
  BY <1>1, <1>2, FiniteSets, ConstantsOK DEF CapInv

LEMMA NextCap == TypeOK /\ RaceInv /\ CapInv /\ [Next]_vars => CapInv'
<1> SUFFICES ASSUME TypeOK, RaceInv, CapInv, [Next]_vars PROVE CapInv'
  OBVIOUS
<1> USE DEF rowVars, storyVars, workerVars, clientVars
<1>1. ASSUME NEW w \in Workers, WorkerStep(w) \/ WorkerEnvironment(w) PROVE CapInv'
  <2>1. ActiveRequests' \subseteq ActiveRequests /\ UNCHANGED clientVars
    BY <1>1, ActiveShrinks
  <2> QED
    BY <2>1, SmallerKeepsCap DEF Passed
<1>2. ASSUME NEW c \in Clients, CreateCheck(c) \/ RetryCheck(c) PROVE CapInv'
  BY <1>2, CheckKeepsCap DEF CreateCheck, RetryCheck
<1>3. ASSUME NEW c \in Clients, CreateCommit(c) \/ RetryCommit(c) PROVE CapInv'
  <2>1. c \in Passed /\ Passed' = Passed \ {c}
    BY <1>3 DEF TypeOK, CreateCommit, RetryCommit, EndTransaction, Passed
  <2>2. arg[c] \in Requests
    BY <1>3 DEF TypeOK, CreateCommit, RetryCommit
  <2>3. \A r \in Requests : r # arg[c] => row'[r] = row[r]
    BY <1>3 DEF TypeOK, CreateCommit, RetryCommit
  <2>4. ActiveRequests' \subseteq ActiveRequests \cup {arg[c]}
    BY <2>3 DEF ActiveRequests
  <2> QED
    BY <2>1, <2>2, <2>4, CommitKeepsCap
<1>4. ASSUME NEW c \in Clients, NEW r \in Requests, RetryRead(c, r) PROVE CapInv'
  <2>1. ActiveRequests' = ActiveRequests /\ Passed' \subseteq Passed
    BY <1>4 DEF TypeOK, RetryRead, ActiveRequests, Passed
  <2> QED
    BY <2>1, SmallerKeepsCap
<1>5. ASSUME NEW c \in Clients, Abort(c) PROVE CapInv'
  <2>1. ActiveRequests' = ActiveRequests /\ Passed' \subseteq Passed
    BY <1>5 DEF TypeOK, Abort, EndTransaction, ActiveRequests, Passed
  <2> QED
    BY <2>1, SmallerKeepsCap
<1>6. ASSUME UNCHANGED <<row, op>> PROVE CapInv'
  BY <1>6, SmallerKeepsCap DEF ActiveRequests, Passed
<1>7. ASSUME NEW r \in Requests, Age(r) \/ DeleteStory(r) PROVE CapInv'
  BY <1>6, <1>7 DEF Age, DeleteStory
<1>8. CASE UNCHANGED vars
  BY <1>6, <1>8 DEF vars
<1> QED
  BY <1>1, <1>2, <1>3, <1>4, <1>5, <1>7, <1>8 DEF Next, ClientStep

LEMMA InitCap == Init => CapInv
<1> SUFFICES ASSUME Init PROVE CapInv
  OBVIOUS
<1>1. ActiveRequests = {} /\ Passed = {}
  BY DEF Init, ActiveRequests, ActiveStatus, NoRow, Passed
<1> QED
  BY <1>1, FS_EmptySet, FiniteSets, ConstantsOK DEF CapInv

(* The capacity check is not locked, and the cap can be overrun; but never *)
(* by more than the number of other API transactions open at the same time.*)
THEOREM CapOverrunIsBounded == Spec => []CapOverrunBounded
<1>1. CapInv => CapOverrunBounded
  BY FiniteSets, ConstantsOK DEF CapInv, CapOverrunBounded
<1> QED
  BY <1>1, InitCap, NextCap, InitRace, NextRace, TypeCorrect, PTL DEF Spec

-----------------------------------------------------------------------------
(* The overrun of the attempts.                                            *)

(* Transactions that retry r: each may still put it back into the queue.   *)
Retriers(r) == {c \in Clients : op[c] \in {"retry_read", "retry"} /\ arg[c] = r}

(* The attempts of a row, and the one it is queued for.                    *)
Spent(x) == IF x.status = "queued" THEN x.attempts + 1 ELSE x.attempts

(* An active row was queued by a transaction that is over: not all clients *)
(* can be retrying it, so a sweep that queues it again does not add up     *)
(* with all of them.                                                       *)
AttemptInv ==
  \A r \in Requests :
    /\ Spent(row[r]) + Cardinality(Retriers(r)) <= MaxAttempts + Cardinality(Clients) - 1
    /\ row[r].status \in ActiveStatus => Cardinality(Retriers(r)) < Cardinality(Clients)

LEMMA RetriersFinite ==
  ASSUME NEW r \in Requests
  PROVE  /\ IsFiniteSet(Retriers(r)) /\ Cardinality(Retriers(r)) \in Nat
         /\ Cardinality(Retriers(r)) <= Cardinality(Clients)
         /\ Cardinality(Clients) \in Nat
<1>1. Retriers(r) \subseteq Clients
  BY DEF Retriers
<1> QED
  BY <1>1, ConstantsOK, FS_Subset, FS_CardinalityType

(* A step that ends retries or lets them be keeps the bound, if each row   *)
(* costs no more and an active one was active or has a retry less.         *)
LEMMA CheaperKeepsAttempts ==
  ASSUME TypeOK, TypeOK', AttemptInv, UNCHANGED <<op, arg>>,
         \A r \in Requests :
           /\ \/ Spent(row'[r]) <= Spent(row[r])
              \/ row[r].status \in ActiveStatus /\ Spent(row'[r]) <= MaxAttempts
           /\ row'[r].status \in ActiveStatus => row[r].status \in ActiveStatus
  PROVE  AttemptInv'
<1> SUFFICES ASSUME NEW r \in Requests
             PROVE  /\ Spent(row'[r]) + Cardinality(Retriers(r)')
                         <= MaxAttempts + Cardinality(Clients) - 1
                    /\ row'[r].status \in ActiveStatus =>
                         Cardinality(Retriers(r)') < Cardinality(Clients)
  BY DEF AttemptInv
<1>1. Retriers(r)' = Retriers(r)
  BY DEF Retriers
<1>2. Spent(row[r]) \in Nat /\ Spent(row'[r]) \in Nat
  BY DEF TypeOK, Spent, Row
<1> QED
  BY <1>1, <1>2, RetriersFinite, ConstantsOK DEF AttemptInv

LEMMA WorkerKeepsAttempts ==
  ASSUME TypeOK, TypeOK', RaceInv, AttemptInv, NEW w \in Workers,
         WorkerStep(w) \/ WorkerEnvironment(w)
  PROVE  AttemptInv'
<1> USE DEF rowVars, storyVars, workerVars, clientVars
<1>0. \A r \in Requests : row[r] \in Row /\ Spent(row[r]) \in Nat
  BY DEF TypeOK, Spent, Row
<1>1. ASSUME UNCHANGED <<row, op, arg>> PROVE AttemptInv'
  BY <1>0, <1>1, CheaperKeepsAttempts
<1>2. ASSUME CommitClaim(w) PROVE AttemptInv'
  <2>1. cur[w] \in Requests /\ row[cur[w]].status = "queued"
    BY <1>2 DEF TypeOK, CommitClaim, RaceInv, Holding
  <2>2. row' = [row EXCEPT ![cur[w]] = ClaimedRow(row[cur[w]])] /\ UNCHANGED <<op, arg>>
    BY <1>2 DEF CommitClaim
  <2>3. Spent(row'[cur[w]]) = Spent(row[cur[w]])
    BY <1>0, <2>1, <2>2 DEF ClaimedRow, Spent, Row, TypeOK
  <2>4. \A r \in Requests : r # cur[w] => row'[r] = row[r]
    BY <2>2 DEF TypeOK
  <2>5. \A r \in Requests : /\ Spent(row'[r]) <= Spent(row[r])
                            /\ row'[r].status \in ActiveStatus => row[r].status \in ActiveStatus
    BY <1>0, <2>1, <2>3, <2>4 DEF ActiveStatus
  <2> QED
    BY <2>2, <2>5, CheaperKeepsAttempts
<1>3. ASSUME NEW new \in Row, CommitOutcome(w, new), new.status \in Finished,
             cur[w] \in Requests, new.attempts = row[cur[w]].attempts
      PROVE  AttemptInv'
  <2>1. row' = [row EXCEPT ![cur[w]] = new] /\ UNCHANGED <<op, arg>>
    BY <1>3 DEF CommitOutcome
  <2>2. row'[cur[w]] = new /\ \A r \in Requests : r # cur[w] => row'[r] = row[r]
    BY <1>3, <2>1 DEF TypeOK
  <2>3. Spent(new) <= Spent(row[cur[w]]) /\ new.status \notin ActiveStatus
    BY <1>0, <1>3 DEF Spent, Finished, ActiveStatus, Row
  <2>4. \A r \in Requests : /\ Spent(row'[r]) <= Spent(row[r])
                            /\ row'[r].status \in ActiveStatus => row[r].status \in ActiveStatus
    BY <1>0, <2>2, <2>3
  <2> QED
    BY <2>1, <2>4, CheaperKeepsAttempts
<1>4. ASSUME NEW code \in ErrorCodes, Fail(w, code) PROVE AttemptInv'
  <2>1. cur[w] \in Requests /\ row[cur[w]] \in Row
    BY <1>4 DEF TypeOK, Fail, Holding
  <2>2. /\ FailedRow(row[cur[w]], code) \in Row
        /\ FailedRow(row[cur[w]], code).status \in Finished
        /\ FailedRow(row[cur[w]], code).attempts = row[cur[w]].attempts
    BY <2>1, RowsStayRows DEF FailedRow, Finished, Row
  <2> QED
    BY <1>1, <1>3, <1>4, <2>1, <2>2 DEF Fail, RejectOutcome
<1>5. ASSUME Succeed(w) PROVE AttemptInv'
  <2>1. cur[w] \in Requests /\ row[cur[w]] \in Row
    BY <1>5 DEF TypeOK, Succeed, Holding
  <2>2. /\ SucceededRow(row[cur[w]]) \in Row
        /\ SucceededRow(row[cur[w]]).status \in Finished
        /\ SucceededRow(row[cur[w]]).attempts = row[cur[w]].attempts
    BY <2>1, RowsStayRows DEF SucceededRow, Finished, Row, ErrorCodes
  <2> QED
    BY <1>1, <1>3, <1>5, <2>1, <2>2 DEF Succeed, RejectOutcome
<1>6. ASSUME Reclaim(w) PROVE AttemptInv'
  <2>1. ASSUME NEW r \in Requests
        PROVE  /\ \/ Spent(row'[r]) <= Spent(row[r])
                  \/ row[r].status \in ActiveStatus /\ Spent(row'[r]) <= MaxAttempts
               /\ row'[r].status \in ActiveStatus => row[r].status \in ActiveStatus
    <3>1. CASE row'[r] = row[r]
      BY <1>0, <3>1
    <3>2. CASE row'[r] # row[r]
      <4>1. row[r].status = "running" /\ row'[r] = ReclaimedRow(row[r])
        BY <1>6, <3>2 DEF Reclaim
      <4>2. CASE row[r].attempts < MaxAttempts
        <5>1. row'[r].status = "queued" /\ row'[r].attempts = row[r].attempts
          BY <1>0, <4>1, <4>2 DEF ReclaimedRow, Row
        <5> QED
          BY <1>0, <4>1, <4>2, <5>1, ConstantsOK DEF Spent, ActiveStatus, Row
      <4>3. CASE ~(row[r].attempts < MaxAttempts)
        <5>1. row'[r].status = "failed" /\ row'[r].attempts = row[r].attempts
          BY <1>0, <4>1, <4>3 DEF ReclaimedRow, FailedRow, Row
        <5> QED
          BY <1>0, <4>1, <5>1 DEF Spent, ActiveStatus, Row
      <4> QED
        BY <4>2, <4>3
    <3> QED
      BY <3>1, <3>2
  <2> QED
    BY <1>6, <2>1, CheaperKeepsAttempts DEF Reclaim
<1>7. ASSUME \/ LockNext(w) \/ PollEmpty(w) \/ Load(w) \/ Exit(w)
             \/ RequestStop(w) \/ Crash(w) \/ Restart(w)
      PROVE  AttemptInv'
  BY <1>1, <1>7 DEF LockNext, PollEmpty, Load, Exit, RequestStop, Crash, Restart
<1> QED
  BY <1>2, <1>4, <1>5, <1>6, <1>7 DEF WorkerStep, WorkerEnvironment, Finish, ErrorCodes

(* A new retry finds a failed row that has an attempt left: whoever else   *)
(* is retrying it, the bound holds.                                        *)
LEMMA RetryReadKeepsAttempts ==
  ASSUME TypeOK, AttemptInv, NEW c \in Clients, NEW r \in Requests, RetryRead(c, r)
  PROVE  AttemptInv'
<1> USE DEF rowVars
<1> SUFFICES ASSUME NEW q \in Requests
             PROVE  /\ Spent(row[q]) + Cardinality(Retriers(q)')
                         <= MaxAttempts + Cardinality(Clients) - 1
                    /\ row[q].status \in ActiveStatus =>
                         Cardinality(Retriers(q)') < Cardinality(Clients)
  BY DEF AttemptInv, RetryRead
<1>1. CASE q = r
  <2>1. Spent(row[q]) <= MaxAttempts - 1 /\ Spent(row[q]) \in Nat /\ row[q].status \notin ActiveStatus
    BY <1>1, ConstantsOK DEF RetryRead, Spent, TypeOK, Row, ActiveStatus
  <2>2. Retriers(q)' \subseteq Clients
    BY DEF Retriers
  <2>3. Cardinality(Retriers(q)') <= Cardinality(Clients) /\ Cardinality(Retriers(q)') \in Nat
        /\ Cardinality(Clients) \in Nat
    BY <2>2, ConstantsOK, FS_Subset, FS_CardinalityType
  <2> QED
    BY <2>1, <2>3, ConstantsOK
<1>2. CASE q # r
  <2>1. Retriers(q)' = Retriers(q)
    BY <1>2 DEF RetryRead, Retriers, TypeOK
  <2> QED
    BY <2>1 DEF AttemptInv
<1> QED
  BY <1>1, <1>2

(* The end of a transaction leaves one retry less, and a committed one one *)
(* attempt more to come.                                                   *)
LEMMA EndKeepsAttempts ==
  ASSUME TypeOK, TypeOK', AttemptInv, NEW c \in Clients, op[c] # "none", EndTransaction(c),
         \A r \in Requests :
           \/ row'[r] = row[r]
           \/ /\ r = arg[c] /\ op[c] = "retry"
              /\ row'[r].attempts = row[r].attempts
           \/ /\ r = arg[c] /\ Retriers(r) = {}
              /\ Spent(row'[r]) <= MaxAttempts
  PROVE  AttemptInv'
<1> SUFFICES ASSUME NEW r \in Requests
             PROVE  /\ Spent(row'[r]) + Cardinality(Retriers(r)')
                         <= MaxAttempts + Cardinality(Clients) - 1
                    /\ row'[r].status \in ActiveStatus =>
                         Cardinality(Retriers(r)') < Cardinality(Clients)
  BY DEF AttemptInv
<1>0. /\ row[r] \in Row /\ row'[r] \in Row
      /\ Spent(row[r]) \in Nat /\ Spent(row'[r]) \in Nat
  <2>1. row[r] \in Row /\ row'[r] \in Row
    BY DEF TypeOK
  <2> QED
    BY <2>1 DEF Spent, Row
<1>1. Retriers(r)' = Retriers(r) \ {c}
  BY DEF EndTransaction, Retriers, TypeOK
<1>2. IsFiniteSet(Retriers(r)) /\ Cardinality(Retriers(r)) \in Nat
      /\ Cardinality(Clients) \in Nat
  BY RetriersFinite
<1>3. Cardinality(Retriers(r)') = IF c \in Retriers(r) THEN Cardinality(Retriers(r)) - 1
                                                       ELSE Cardinality(Retriers(r))
  BY <1>1, <1>2, FS_RemoveElement
<1>4. Cardinality(Retriers(r)) <= Cardinality(Clients)
  BY RetriersFinite
<1>5. CASE row'[r] = row[r]
  BY <1>0, <1>2, <1>3, <1>4, <1>5, ConstantsOK DEF AttemptInv
<1>6. CASE /\ r = arg[c] /\ op[c] = "retry" /\ row'[r].attempts = row[r].attempts
  <2>1. c \in Retriers(r)
    BY <1>6 DEF Retriers
  <2>2. Spent(row'[r]) <= Spent(row[r]) + 1
    BY <1>0, <1>6 DEF Spent, Row
  <2> QED
    BY <1>0, <1>2, <1>3, <1>4, <2>1, <2>2, ConstantsOK DEF AttemptInv
<1>7. CASE /\ r = arg[c] /\ Retriers(r) = {} /\ Spent(row'[r]) <= MaxAttempts
  <2>1. Cardinality(Retriers(r)') = 0
    BY <1>1, <1>7, FS_EmptySet
  <2>2. 0 < Cardinality(Clients)
    <3>1. Clients # {} /\ IsFiniteSet(Clients)
      BY ConstantsOK
    <3> QED
      BY <3>1, <1>2, FS_EmptySet
  <2> QED
    BY <1>0, <1>2, <1>7, <2>1, <2>2, ConstantsOK
<1> QED
  BY <1>5, <1>6, <1>7

LEMMA NextAttempts == TypeOK /\ TypeOK' /\ RaceInv /\ AttemptInv /\ [Next]_vars => AttemptInv'
<1> SUFFICES ASSUME TypeOK, TypeOK', RaceInv, AttemptInv, [Next]_vars PROVE AttemptInv'
  OBVIOUS
<1> USE DEF rowVars, storyVars, workerVars, clientVars
<1>0. \A r \in Requests : row[r] \in Row /\ Spent(row[r]) \in Nat
  BY DEF TypeOK, Spent, Row
<1>1. ASSUME NEW w \in Workers, WorkerStep(w) \/ WorkerEnvironment(w) PROVE AttemptInv'
  BY <1>1, WorkerKeepsAttempts
<1>2. ASSUME UNCHANGED <<row, op, arg>> PROVE AttemptInv'
  BY <1>0, <1>2, CheaperKeepsAttempts
<1>3. ASSUME NEW c \in Clients, CreateCheck(c) \/ RetryCheck(c) PROVE AttemptInv'
  <2>1. \A r \in Requests : Retriers(r)' = Retriers(r)
    BY <1>3 DEF CreateCheck, RetryCheck, Retriers, TypeOK
  <2>2. UNCHANGED row
    BY <1>3 DEF CreateCheck, RetryCheck
  <2> QED
    BY <2>1, <2>2 DEF AttemptInv
<1>4. ASSUME NEW c \in Clients, CreateCommit(c) PROVE AttemptInv'
  <2>1. arg[c] \in Requests /\ row[arg[c]].status = "absent" /\ op[c] # "none"
    BY <1>4 DEF TypeOK, CreateCommit, RaceInv
  <2>2. row'[arg[c]] = [NoRow EXCEPT !.status = "queued"]
        /\ \A r \in Requests : r # arg[c] => row'[r] = row[r]
    BY <1>4, <2>1 DEF TypeOK, CreateCommit
  <2>3. Retriers(arg[c]) = {}
    BY <2>1 DEF Retriers, RaceInv
  <2>4. Spent(row'[arg[c]]) <= MaxAttempts
    BY <2>2, ConstantsOK DEF Spent, NoRow
  <2> QED
    BY <1>4, <2>1, <2>2, <2>3, <2>4, EndKeepsAttempts DEF CreateCommit
<1>5. ASSUME NEW c \in Clients, RetryCommit(c) PROVE AttemptInv'
  <2>1. arg[c] \in Requests /\ op[c] = "retry" /\ op[c] # "none"
    BY <1>5 DEF TypeOK, RetryCommit
  <2>2. row'[arg[c]] = RetriedRow(row[arg[c]])
        /\ \A r \in Requests : r # arg[c] => row'[r] = row[r]
    BY <1>5, <2>1 DEF TypeOK, RetryCommit
  <2>3. row'[arg[c]].attempts = row[arg[c]].attempts
    BY <1>0, <2>1, <2>2 DEF RetriedRow, Row
  <2> QED
    BY <1>5, <2>1, <2>2, <2>3, EndKeepsAttempts DEF RetryCommit
<1>6. ASSUME NEW c \in Clients, Abort(c) PROVE AttemptInv'
  BY <1>6, EndKeepsAttempts DEF Abort
<1>7. ASSUME NEW c \in Clients, NEW r \in Requests, RetryRead(c, r) PROVE AttemptInv'
  BY <1>7, RetryReadKeepsAttempts
<1>8. ASSUME NEW r \in Requests, Age(r) \/ DeleteStory(r) PROVE AttemptInv'
  BY <1>2, <1>8 DEF Age, DeleteStory
<1>9. CASE UNCHANGED vars
  BY <1>2, <1>9 DEF vars
<1> QED
  BY <1>1, <1>3, <1>4, <1>5, <1>6, <1>7, <1>8, <1>9 DEF Next, ClientStep

LEMMA InitAttempts == Init => AttemptInv
<1> SUFFICES ASSUME Init, NEW r \in Requests
             PROVE  /\ Spent(row[r]) + Cardinality(Retriers(r))
                         <= MaxAttempts + Cardinality(Clients) - 1
                    /\ row[r].status \notin ActiveStatus
  BY DEF AttemptInv
<1>1. Retriers(r) = {} /\ row[r] = NoRow
  BY DEF Init, Retriers
<1>2. Cardinality(Retriers(r)) = 0 /\ Cardinality(Clients) \in Nat
  BY <1>1, FS_EmptySet, RetriersFinite
<1> QED
  BY <1>1, <1>2, ConstantsOK DEF Spent, NoRow, ActiveStatus

(* Overlapping retries, stalled workers and sweeps together take a request *)
(* past MAX_ATTEMPTS by at most the number of other API transactions open  *)
(* at the same time.                                                       *)
THEOREM AttemptsOverrunIsBounded == Spec => []AttemptsOverrunBounded
<1>1. TypeOK /\ AttemptInv => AttemptsOverrunBounded
  <2> SUFFICES ASSUME TypeOK, AttemptInv, NEW r \in Requests
               PROVE  row[r].attempts <= MaxAttempts + Cardinality(Clients) - 1
    BY DEF AttemptsOverrunBounded
  <2>1. row[r].attempts \in Nat /\ row[r].attempts <= Spent(row[r]) /\ Spent(row[r]) \in Nat
    BY DEF TypeOK, Row, Spent
  <2> QED
    BY <2>1, RetriersFinite, ConstantsOK DEF AttemptInv
<1> QED
  BY <1>1, InitAttempts, NextAttempts, InitRace, NextRace, TypeCorrect, PTL DEF Spec

-----------------------------------------------------------------------------
(* The theorems that assume what the single user deployment provides, and  *)
(* the refinement.                                                         *)

(* Two workers never process the same request at the same time.            *)
THEOREM NoDoubleProcessing ==
  ASSUME SerialRetries, TimelyCalls
  PROVE  Spec => []OneWorkerPerRequest
  BY QueueInvariant, PTL DEF QueueInv

(* No request is attempted more than MAX_ATTEMPTS times, and a queued one  *)
(* always has an attempt left.                                             *)
THEOREM AttemptLimit ==
  ASSUME SerialRetries, TimelyCalls
  PROVE  Spec => [](AttemptsBounded /\ QueuedHasAttemptLeft)
  BY QueueInvariant, PTL DEF QueueInv

(* Exactly one story is ever written for a succeeded request, and none for *)
(* any other.                                                              *)
THEOREM StoryPerSuccess ==
  ASSUME SerialRetries, TimelyCalls
  PROVE  Spec => []OneStoryPerSuccess
  BY QueueInvariant, PTL DEF QueueInv

(* A finished provider call is always accepted by the database.            *)
THEOREM OutcomeAccepted ==
  ASSUME SerialRetries, TimelyCalls
  PROVE  Spec => []OutcomeNeverRejected
<1>1. TypeOK /\ QueueInv /\ LifecycleHolds => OutcomeNeverRejected
  <2> SUFFICES ASSUME TypeOK, QueueInv, LifecycleHolds,
                      NEW w \in Workers, pc[w] = "calling"
               PROVE  /\ Writable(w, FailedRow(row[cur[w]], "ProviderError"))
                      /\ Writable(w, SucceededRow(row[cur[w]]))
                      /\ cur[w] \notin story
    BY DEF OutcomeNeverRejected
  <2>1. /\ cur[w] \in Requests
        /\ row[cur[w]] \in Row
        /\ row[cur[w]].status = "running"
        /\ mem[w].status = "running"
    BY DEF TypeOK, QueueInv, HeldRows, Holding
  <2>2. row[cur[w]].started
    BY <2>1 DEF LifecycleHolds, LifecycleCheck, Finished
  <2>3. Writable(w, FailedRow(row[cur[w]], "ProviderError"))
    BY <2>1, <2>2
    DEF Writable, Transition, FailedRow, LifecycleCheck, Finished, Row
  <2>4. Writable(w, SucceededRow(row[cur[w]]))
    BY <2>1, <2>2
    DEF Writable, Transition, SucceededRow, LifecycleCheck, Finished, Row
  <2>5. cur[w] \notin story
    BY <2>1 DEF QueueInv, StoryOfSucceeded
  <2> QED
    BY <2>3, <2>4, <2>5
<1> QED
  BY <1>1, TypeCorrect, QueueInvariant, LifecycleAlwaysHolds, PTL

-----------------------------------------------------------------------------
(* The refinement: what each step does to the abstract state.              *)
Lstatus    == [r \in Requests |-> row[r].status]
Lattempts  == [r \in Requests |-> row[r].attempts]
Ldelivered == {r \in Requests : produced[r] > 0}

LEMMA Stutters ==
  ASSUME UNCHANGED <<row, produced>>
  PROVE  UNCHANGED <<Lstatus, Lattempts, Ldelivered>>
  BY DEF Lstatus, Lattempts, Ldelivered

(* One row changes, in status only or with its attempt counted.            *)
LEMMA OneRowMapped ==
  ASSUME NEW q \in Requests, \A r \in Requests : r # q => row'[r] = row[r]
  PROVE  /\ Lstatus' = [Lstatus EXCEPT ![q] = row'[q].status]
         /\ Lattempts' = [Lattempts EXCEPT ![q] = row'[q].attempts]
         /\ row'[q].attempts = row[q].attempts => Lattempts' = Lattempts
  BY DEF Lstatus, Lattempts

LEMMA InitMapped == Init => Lifecycle!LInit
  BY DEF Init, Lifecycle!LInit, NoRow

LEMMA CreateMapped ==
  ASSUME TypeOK, QueueInv, NEW c \in Clients, CreateCommit(c)
  PROVE  Lifecycle!LNext
<1>1. arg[c] \in Requests /\ row[arg[c]] = NoRow
  BY DEF TypeOK, QueueInv, OpenTransactions, CreateCommit
<1>2. row'[arg[c]].status = "queued" /\ row'[arg[c]].attempts = row[arg[c]].attempts
  BY <1>1 DEF TypeOK, CreateCommit, NoRow
<1>3. \A r \in Requests : r # arg[c] => row'[r] = row[r]
  BY DEF TypeOK, CreateCommit
<1>4. UNCHANGED produced /\ row[arg[c]].status = "absent"
  BY <1>1 DEF CreateCommit, storyVars, NoRow
<1>5. Lstatus' = [Lstatus EXCEPT ![arg[c]] = "queued"] /\ Lattempts' = Lattempts
  BY <1>1, <1>2, <1>3, OneRowMapped
<1>6. Lstatus[arg[c]] = "absent" /\ Ldelivered' = Ldelivered
  BY <1>1, <1>4 DEF Lstatus, Ldelivered
<1>7. ASSUME NEW r \in Requests, r = arg[c]
      PROVE  Lifecycle!Created(r)
  BY <1>7, <1>5, <1>6, Zenon
  DEF Lifecycle!Created, Lifecycle!Become, Lstatus, Lattempts, Ldelivered
<1> QED
  BY <1>1, <1>7 DEF Lifecycle!LNext

LEMMA ClaimMapped ==
  ASSUME TypeOK, QueueInv, NEW w \in Workers, CommitClaim(w)
  PROVE  Lifecycle!LNext
<1>1. /\ cur[w] \in Requests
      /\ row[cur[w]] \in Row
      /\ row[cur[w]].status = "queued"
      /\ row[cur[w]].attempts < MaxAttempts
  BY DEF TypeOK, CommitClaim, QueueInv, HeldRows, Holding, QueuedHasAttemptLeft
<1>2. /\ row'[cur[w]].status = "running"
      /\ row'[cur[w]].attempts = row[cur[w]].attempts + 1
  BY <1>1 DEF TypeOK, CommitClaim, ClaimedRow, Row
<1>3. \A r \in Requests : r # cur[w] => row'[r] = row[r]
  BY DEF TypeOK, CommitClaim
<1>4. UNCHANGED produced
  BY DEF CommitClaim, storyVars
<1>5. /\ Lstatus' = [Lstatus EXCEPT ![cur[w]] = "running"]
      /\ Lattempts' = [Lattempts EXCEPT ![cur[w]] = row[cur[w]].attempts + 1]
  BY <1>1, <1>2, <1>3, OneRowMapped
<1>6. /\ Lstatus[cur[w]] = "queued"
      /\ Lattempts[cur[w]] = row[cur[w]].attempts
      /\ Ldelivered' = Ldelivered
  BY <1>1, <1>4 DEF Lstatus, Lattempts, Ldelivered
<1>7. Lattempts' = [Lattempts EXCEPT ![cur[w]] = Lattempts[cur[w]] + 1]
  BY <1>5, <1>6
<1>8. Lattempts[cur[w]] < MaxAttempts
  BY <1>1, <1>6
<1>9. ASSUME NEW r \in Requests, r = cur[w]
      PROVE  Lifecycle!Claimed(r)
  BY <1>9, <1>5, <1>6, <1>7, <1>8, Zenon
  DEF Lifecycle!Claimed, Lifecycle!Become, Lstatus, Lattempts, Ldelivered
<1> QED
  BY <1>1, <1>9 DEF Lifecycle!LNext

LEMMA FailMapped ==
  ASSUME TypeOK, QueueInv, NEW w \in Workers, NEW code \in ErrorCodes, Fail(w, code)
  PROVE  Lifecycle!LNext \/ UNCHANGED <<Lstatus, Lattempts, Ldelivered>>
<1>1. /\ cur[w] \in Requests
      /\ row[cur[w]] \in Row
      /\ row[cur[w]].status = "running"
  BY DEF TypeOK, Fail, QueueInv, HeldRows, Holding
<1>2. CASE /\ CommitOutcome(w, FailedRow(row[cur[w]], code))
           /\ UNCHANGED <<story, produced>>
  <2>1. /\ row'[cur[w]].status = "failed"
        /\ row'[cur[w]].attempts = row[cur[w]].attempts
    BY <1>1, <1>2 DEF TypeOK, CommitOutcome, FailedRow, Row
  <2>2. \A r \in Requests : r # cur[w] => row'[r] = row[r]
    BY <1>2 DEF TypeOK, CommitOutcome
  <2>3. Lstatus' = [Lstatus EXCEPT ![cur[w]] = "failed"] /\ Lattempts' = Lattempts
    BY <1>1, <2>1, <2>2, OneRowMapped
  <2>4. Lstatus[cur[w]] = "running" /\ Ldelivered' = Ldelivered
    BY <1>1, <1>2 DEF Lstatus, Ldelivered
  <2>5. ASSUME NEW r \in Requests, r = cur[w]
        PROVE  Lifecycle!Failed(r)
    BY <2>5, <2>3, <2>4, Zenon
    DEF Lifecycle!Failed, Lifecycle!Become, Lstatus, Lattempts, Ldelivered
  <2> QED
    BY <1>1, <2>5 DEF Lifecycle!LNext
<1>3. CASE RejectOutcome(w)
  BY <1>3, Stutters DEF RejectOutcome, rowVars, storyVars
<1> QED
  BY <1>2, <1>3 DEF Fail

LEMMA SucceedMapped ==
  ASSUME TypeOK, QueueInv, NEW w \in Workers, Succeed(w)
  PROVE  Lifecycle!LNext \/ UNCHANGED <<Lstatus, Lattempts, Ldelivered>>
<1>1. /\ cur[w] \in Requests
      /\ row[cur[w]] \in Row
      /\ row[cur[w]].status = "running"
  BY DEF TypeOK, Succeed, QueueInv, HeldRows, Holding
<1>2. CASE /\ CommitOutcome(w, SucceededRow(row[cur[w]]))
           /\ produced' = [produced EXCEPT ![cur[w]] = @ + 1]
  <2>1. /\ row'[cur[w]].status = "succeeded"
        /\ row'[cur[w]].attempts = row[cur[w]].attempts
    BY <1>1, <1>2 DEF TypeOK, CommitOutcome, SucceededRow, Row
  <2>2. \A r \in Requests : r # cur[w] => row'[r] = row[r]
    BY <1>2 DEF TypeOK, CommitOutcome
  <2>3. Ldelivered' = Ldelivered \cup {cur[w]}
    <3>1. produced \in [Requests -> Nat]
      BY DEF TypeOK
    <3>2. \A r \in Requests :
            produced'[r] = IF r = cur[w] THEN produced[r] + 1 ELSE produced[r]
      BY <1>2, <3>1
    <3> QED
      BY <1>1, <3>1, <3>2 DEF Ldelivered
  <2>4. Lstatus' = [Lstatus EXCEPT ![cur[w]] = "succeeded"] /\ Lattempts' = Lattempts
    BY <1>1, <2>1, <2>2, OneRowMapped
  <2>5. Lstatus[cur[w]] = "running"
    BY <1>1 DEF Lstatus
  <2>6. ASSUME NEW r \in Requests, r = cur[w]
        PROVE  Lifecycle!Delivered(r)
    BY <2>6, <2>3, <2>4, <2>5, Zenon
    DEF Lifecycle!Delivered, Lifecycle!Become, Lstatus, Lattempts, Ldelivered
  <2> QED
    BY <1>1, <2>6 DEF Lifecycle!LNext
<1>3. CASE RejectOutcome(w)
  BY <1>3, Stutters DEF RejectOutcome, rowVars, storyVars
<1> QED
  BY <1>2, <1>3 DEF Succeed

LEMMA RetryMapped ==
  ASSUME TypeOK, QueueInv, NEW c \in Clients, RetryCommit(c)
  PROVE  Lifecycle!LNext
<1>1. /\ arg[c] \in Requests
      /\ row[arg[c]] \in Row
      /\ row[arg[c]].status = "failed"
      /\ row[arg[c]].attempts < MaxAttempts
  BY DEF TypeOK, QueueInv, OpenTransactions, RetryCommit
<1>2. row'[arg[c]].status = "queued" /\ row'[arg[c]].attempts = row[arg[c]].attempts
  BY <1>1 DEF TypeOK, RetryCommit, RetriedRow, Row
<1>3. \A r \in Requests : r # arg[c] => row'[r] = row[r]
  BY DEF TypeOK, RetryCommit
<1>4. UNCHANGED produced
  BY DEF RetryCommit, storyVars
<1>5. Lstatus' = [Lstatus EXCEPT ![arg[c]] = "queued"] /\ Lattempts' = Lattempts
  BY <1>1, <1>2, <1>3, OneRowMapped
<1>6. /\ Lstatus[arg[c]] = "failed"
      /\ Lattempts[arg[c]] < MaxAttempts
      /\ Ldelivered' = Ldelivered
  BY <1>1, <1>4 DEF Lstatus, Lattempts, Ldelivered
<1>7. ASSUME NEW r \in Requests, r = arg[c]
      PROVE  Lifecycle!Retried(r)
  BY <1>7, <1>5, <1>6, Zenon
  DEF Lifecycle!Retried, Lifecycle!Become, Lstatus, Lattempts, Ldelivered
<1> QED
  BY <1>1, <1>7 DEF Lifecycle!LNext

(* A sweep that finds nothing stutters.                                    *)
LEMMA ReclaimMapped ==
  ASSUME TypeOK, NEW w \in Workers, Reclaim(w)
  PROVE  Lifecycle!LNext \/ UNCHANGED <<Lstatus, Lattempts, Ldelivered>>
<1> DEFINE S == {r \in Requests : row[r].status = "running" /\ r \in stale}
<1>1. UNCHANGED produced
  BY DEF Reclaim, storyVars
<1>2. \A r \in Requests \ S : row'[r] = row[r]
  BY DEF Reclaim
<1>3. ASSUME NEW r \in S
      PROVE  /\ row'[r].attempts = row[r].attempts
             /\ row'[r].status = IF row[r].attempts < MaxAttempts
                                 THEN "queued" ELSE "failed"
  <2>1. row'[r] = ReclaimedRow(row[r]) /\ row[r] \in Row
    BY <1>3 DEF Reclaim, TypeOK
  <2> QED
    BY <2>1 DEF ReclaimedRow, FailedRow, Row
<1>4. Lattempts' = Lattempts
  BY <1>2, <1>3 DEF Lattempts
<1>5. CASE S = {}
  BY <1>1, <1>2, <1>4, <1>5 DEF Lstatus, Ldelivered
<1>6. CASE S # {}
  <2>1. Lstatus' = [r \in Requests |->
                      IF r \notin S THEN Lstatus[r]
                      ELSE IF Lattempts[r] < MaxAttempts THEN "queued" ELSE "failed"]
    BY <1>2, <1>3 DEF Lstatus, Lattempts
  <2>2. Ldelivered' = Ldelivered /\ \A r \in S : Lstatus[r] = "running"
    BY <1>1 DEF Lstatus, Ldelivered
  <2> HIDE DEF S
  <2>3. ASSUME NEW T \in SUBSET Requests, T = S
        PROVE  Lifecycle!Swept(T)
    BY <2>3, <1>4, <1>6, <2>1, <2>2, Zenon
    DEF Lifecycle!Swept, Lstatus, Lattempts, Ldelivered
  <2>4. S \in SUBSET Requests
    BY DEF S
  <2> QED
    BY <2>3, <2>4 DEF Lifecycle!LNext
<1> QED
  BY <1>5, <1>6

LEMMA NextMapped ==
  TypeOK /\ QueueInv /\ [Next]_vars => [Lifecycle!LNext]_Lifecycle!lifecycle
<1> SUFFICES ASSUME TypeOK, QueueInv, [Next]_vars
             PROVE  Lifecycle!LNext \/ UNCHANGED <<Lstatus, Lattempts, Ldelivered>>
  BY DEF Lifecycle!lifecycle, Lstatus, Lattempts, Ldelivered
<1> USE DEF rowVars, storyVars, workerVars, clientVars
<1>1. ASSUME NEW w \in Workers,
             \/ LockNext(w) \/ PollEmpty(w) \/ Load(w) \/ Exit(w)
             \/ RequestStop(w) \/ Crash(w) \/ Restart(w)
      PROVE  UNCHANGED <<Lstatus, Lattempts, Ldelivered>>
  BY <1>1, Stutters
  DEF LockNext, PollEmpty, Load, Exit, RequestStop, Crash, Restart
<1>2. ASSUME NEW c \in Clients, CreateCheck(c) \/ RetryCheck(c) \/ Abort(c)
      PROVE  UNCHANGED <<Lstatus, Lattempts, Ldelivered>>
  BY <1>2, Stutters DEF CreateCheck, RetryCheck, Abort
<1>3. ASSUME NEW c \in Clients, NEW r \in Requests, RetryRead(c, r)
      PROVE  UNCHANGED <<Lstatus, Lattempts, Ldelivered>>
  BY <1>3, Stutters DEF RetryRead
<1>4. ASSUME NEW r \in Requests, Age(r) \/ DeleteStory(r)
      PROVE  UNCHANGED <<Lstatus, Lattempts, Ldelivered>>
  BY <1>4, Stutters DEF Age, DeleteStory
<1>5. CASE UNCHANGED vars
  BY <1>5, Stutters DEF vars
<1> QED
  BY <1>1, <1>2, <1>3, <1>4, <1>5, CreateMapped, ClaimMapped, FailMapped,
     SucceedMapped, RetryMapped, ReclaimMapped
  DEF Next, WorkerStep, WorkerEnvironment, ClientStep, Finish, ErrorCodes

(* The queue, with its workers, locks, sweeps and crashes, does nothing    *)
(* to a request that the abstract lifecycle does not allow.                *)
THEOREM RefinesLifecycle ==
  ASSUME SerialRetries, TimelyCalls
  PROVE  Spec => ImplementsLifecycle
<1> QED
  BY InitMapped, NextMapped, TypeCorrect, QueueInvariant, PTL
  DEF Spec, ImplementsLifecycle, Lifecycle!LSpec

(* A succeeded request never leaves that state.                            *)
THEOREM SuccessIsFinal ==
  ASSUME SerialRetries, TimelyCalls
  PROVE  Spec => SucceededIsFinal
<1>1. ASSUME TypeOK, QueueInv, [Next]_vars,
             NEW r \in Requests, row[r].status = "succeeded"
      PROVE  row'[r].status = "succeeded"
  <2>1. [Lifecycle!LNext]_Lifecycle!lifecycle
    BY <1>1, NextMapped
  <2>2. CASE UNCHANGED <<Lstatus, Lattempts, Ldelivered>>
    BY <1>1, <2>2 DEF Lstatus
  <2>3. CASE Lifecycle!LNext
    BY <1>1, <2>3
    DEF Lifecycle!LNext, Lifecycle!Created, Lifecycle!Claimed, Lifecycle!Failed,
        Lifecycle!Delivered, Lifecycle!Retried, Lifecycle!Swept, Lifecycle!Become
  <2> QED
    BY <2>1, <2>2, <2>3 DEF Lifecycle!lifecycle, Lstatus, Lattempts, Ldelivered
<1>2. TypeOK /\ QueueInv /\ [Next]_vars =>
        [\A r \in Requests :
           row[r].status = "succeeded" => row'[r].status = "succeeded"]_row
  BY <1>1
<1> QED
  BY <1>2, TypeCorrect, QueueInvariant, PTL DEF Spec, SucceededIsFinal

-----------------------------------------------------------------------------
(* The raw payloads of a request.                                          *)

(* While an attempt runs, all payloads are those of earlier attempts.      *)
Filed(r) ==
  LET p == payloads[r] IN
  /\ \A i, j \in DOMAIN p : i < j => p[i] < p[j]
  /\ \A i \in DOMAIN p : p[i] <= row[r].attempts
  /\ row[r].status = "running" => \A i \in DOMAIN p : p[i] < row[r].attempts
  /\ row[r].status \in Finished /\ row[r].error # "StaleWorkerRetryLimitExceeded"
       => p # <<>> /\ p[Len(p)] = row[r].attempts

PayloadInv == \A r \in Requests : Filed(r)

(* A step of a row that is not an outcome: a claim, a requeueing, or the   *)
(* sweep's failure.                                                        *)
Unanswered(r) ==
  \/ row'[r] = row[r]
  \/ row'[r].status = "queued" /\ row'[r].attempts = row[r].attempts
  \/ row'[r].status = "running" /\ row'[r].attempts = row[r].attempts + 1
  \/ /\ row'[r].status = "failed" /\ row'[r].error = "StaleWorkerRetryLimitExceeded"
     /\ row'[r].attempts = row[r].attempts

LEMMA UnansweredFiled ==
  ASSUME TypeOK, NEW r \in Requests, Filed(r), Unanswered(r), UNCHANGED payloads
  PROVE  Filed(r)'
<1>1. row[r].attempts \in Nat /\ payloads[r] \in Seq(Nat)
  BY DEF TypeOK, Row
<1>2. \A i \in DOMAIN payloads[r] : payloads[r][i] \in Nat
  BY <1>1
<1> QED
  BY <1>1, <1>2 DEF Filed, Unanswered, Finished

(* The payload of an outcome is that of the attempt which ran.             *)
LEMMA OutcomeFiled ==
  ASSUME TypeOK, QueueInv, PayloadInv, NEW w \in Workers, pc[w] = "calling",
         NEW new, new.attempts = row[cur[w]].attempts, new.status # "running",
         CommitOutcome(w, new)
  PROVE  PayloadInv'
<1> DEFINE p == payloads[cur[w]]
           n == row[cur[w]].attempts
<1>1. /\ cur[w] \in Requests /\ row[cur[w]].status = "running"
      /\ mem[w].attempts = n /\ n \in Nat /\ p \in Seq(Nat)
  BY DEF TypeOK, QueueInv, HeldRows, Holding, Row
<1>2. /\ \A r \in Requests : r # cur[w] => row'[r] = row[r] /\ payloads'[r] = payloads[r]
      /\ row'[cur[w]] = new /\ payloads'[cur[w]] = Append(p, n)
  BY <1>1 DEF TypeOK, CommitOutcome
<1>3. Filed(cur[w])
  BY <1>1 DEF PayloadInv
<1> HIDE DEF p, n
<1>4. /\ \A i, j \in DOMAIN p : i < j => p[i] < p[j]
      /\ \A i \in DOMAIN p : p[i] < n
  BY <1>1, <1>3 DEF Filed, p, n
<1>5. /\ Len(p) \in Nat /\ DOMAIN p = 1 .. Len(p)
      /\ \A i \in DOMAIN p : p[i] \in Nat
      /\ Append(p, n) # <<>> /\ Len(Append(p, n)) = Len(p) + 1
      /\ DOMAIN Append(p, n) = 1 .. Len(p) + 1 /\ Append(p, n)[Len(p) + 1] = n
      /\ \A i \in DOMAIN p : Append(p, n)[i] = p[i]
  BY <1>1
<1>6. ASSUME NEW r \in Requests PROVE Filed(r)'
  <2>1. CASE r = cur[w]
    <3>1. /\ row'[r].attempts = n /\ row'[r].status # "running"
          /\ payloads'[r] = Append(p, n)
      BY <1>2, <2>1 DEF n
    <3>2. \A i \in DOMAIN Append(p, n) : i \in DOMAIN p \/ i = Len(p) + 1
      BY <1>5
    <3>3. \A i, j \in DOMAIN Append(p, n) : i < j => Append(p, n)[i] < Append(p, n)[j]
      BY <1>1, <1>4, <1>5
    <3>4. \A i \in DOMAIN Append(p, n) : Append(p, n)[i] <= n
      BY <1>1, <1>4, <1>5
    <3> QED
      BY <1>5, <3>1, <3>3, <3>4 DEF Filed
  <2>2. CASE r # cur[w]
    BY <1>2, <2>2 DEF PayloadInv, Filed
  <2> QED
    BY <2>1, <2>2
<1> QED
  BY <1>6 DEF PayloadInv

LEMMA PayloadStep ==
  TypeOK /\ QueueInv /\ PayloadInv /\ [Next]_vars => PayloadInv'
<1> SUFFICES ASSUME TypeOK, QueueInv, PayloadInv, [Next]_vars PROVE PayloadInv'
  OBVIOUS
<1> USE DEF rowVars, storyVars, workerVars, clientVars
<1>0. ASSUME \A r \in Requests : Unanswered(r), UNCHANGED payloads
      PROVE  PayloadInv'
  BY <1>0, UnansweredFiled DEF PayloadInv
<1>1. ASSUME NEW w \in Workers, NEW code \in ErrorCodes, Fail(w, code) PROVE PayloadInv'
  <2> DEFINE new == FailedRow(row[cur[w]], code)
  <2>1. pc[w] = "calling" /\ (CommitOutcome(w, new) \/ RejectOutcome(w))
    BY <1>1 DEF Fail
  <2>2. CASE RejectOutcome(w)
    BY <1>0, <2>2 DEF RejectOutcome, Unanswered
  <2>3. new.attempts = row[cur[w]].attempts /\ new.status # "running"
    BY <2>1 DEF FailedRow, TypeOK, Row, Holding
  <2> QED
    BY <2>1, <2>2, <2>3, OutcomeFiled
<1>2. ASSUME NEW w \in Workers, Succeed(w) PROVE PayloadInv'
  <2> DEFINE new == SucceededRow(row[cur[w]])
  <2>1. pc[w] = "calling" /\ (CommitOutcome(w, new) \/ RejectOutcome(w))
    BY <1>2 DEF Succeed
  <2>2. CASE RejectOutcome(w)
    BY <1>0, <2>2 DEF RejectOutcome, Unanswered
  <2>3. new.attempts = row[cur[w]].attempts /\ new.status # "running"
    BY <2>1 DEF SucceededRow, TypeOK, Row, Holding
  <2> QED
    BY <2>1, <2>2, <2>3, OutcomeFiled
<1>3. ASSUME NEW w \in Workers, CommitClaim(w) PROVE PayloadInv'
  <2>1. cur[w] \in Requests /\ row[cur[w]] \in Row
    BY <1>3 DEF CommitClaim, TypeOK, Holding
  <2>2. ASSUME NEW r \in Requests PROVE Unanswered(r)
    BY <1>3, <2>1 DEF CommitClaim, ClaimedRow, Row, TypeOK, Unanswered
  <2> QED
    BY <1>0, <1>3, <2>2 DEF CommitClaim
<1>4. ASSUME NEW w \in Workers, Reclaim(w) PROVE PayloadInv'
  <2>1. ASSUME NEW r \in Requests PROVE Unanswered(r)
    <3>1. row[r] \in Row
      BY DEF TypeOK
    <3> QED
      BY <1>4, <3>1 DEF Reclaim, ReclaimedRow, FailedRow, Row, Unanswered
  <2> QED
    BY <1>0, <1>4, <2>1 DEF Reclaim
<1>5. ASSUME NEW c \in Clients, CreateCommit(c) PROVE PayloadInv'
  <2>1. arg[c] \in Requests /\ row[arg[c]] = NoRow
    BY <1>5 DEF CreateCommit, TypeOK, QueueInv, OpenTransactions
  <2>2. ASSUME NEW r \in Requests PROVE Unanswered(r)
    BY <1>5, <2>1 DEF CreateCommit, NoRow, TypeOK, Unanswered
  <2> QED
    BY <1>0, <1>5, <2>2 DEF CreateCommit
<1>6. ASSUME NEW c \in Clients, RetryCommit(c) PROVE PayloadInv'
  <2>1. arg[c] \in Requests /\ row[arg[c]] \in Row
    BY <1>6 DEF RetryCommit, TypeOK
  <2>2. ASSUME NEW r \in Requests PROVE Unanswered(r)
    BY <1>6, <2>1 DEF RetryCommit, RetriedRow, Row, TypeOK, Unanswered
  <2> QED
    BY <1>0, <1>6, <2>2 DEF RetryCommit
<1>7. CASE UNCHANGED <<row, payloads>>
  BY <1>0, <1>7 DEF Unanswered
<1>8. \/ UNCHANGED <<row, payloads>>
      \/ \E w \in Workers : \/ CommitClaim(w) \/ Reclaim(w) \/ Succeed(w)
                            \/ \E code \in ErrorCodes : Fail(w, code)
      \/ \E c \in Clients : CreateCommit(c) \/ RetryCommit(c)
  BY DEF Next, vars, WorkerStep, WorkerEnvironment, ClientStep, LockNext, PollEmpty, Load, Finish,
         ErrorCodes, Exit, RequestStop, Crash, Restart, CreateCheck, RetryRead, RetryCheck, Abort,
         Age, DeleteStory
<1> QED
  BY <1>1, <1>2, <1>3, <1>4, <1>5, <1>6, <1>7, <1>8

(* Every outcome that a worker commits leaves one raw payload, filed under *)
(* the attempt that produced it.                                           *)
THEOREM PayloadPerOutcome ==
  ASSUME SerialRetries, TimelyCalls
  PROVE  Spec => []OnePayloadPerOutcome
<1>1. Init => PayloadInv
  BY DEF Init, PayloadInv, Filed, NoRow, Finished
<1>2. TypeOK /\ QueueInv /\ PayloadInv /\ [Next]_vars => PayloadInv'
  BY PayloadStep
<1>3. PayloadInv => OnePayloadPerOutcome
  BY DEF PayloadInv, Filed, OnePayloadPerOutcome
<1> QED
  BY <1>1, <1>2, <1>3, TypeCorrect, QueueInvariant, PTL DEF Spec
=============================================================================
