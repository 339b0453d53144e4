--------------------------- MODULE SlidingWindow ---------------------------
(***************************************************************************)
(* SlidingWindowRateLimiter as operators on its state: hits, the deque of  *)
(* each key that has one, and forgot, when idle keys were last dropped     *)
(* (_last_forget).  Times are whole units of the monotonic clock.          *)
(***************************************************************************)
EXTENDS Integers, Sequences, FiniteSets

CONSTANT Window   \* window_seconds

ASSUME WindowOK == Window \in Nat \ {0}

(* float("-inf"): far enough back that the first new key always sweeps.    *)
NewLimiter == [hits |-> <<>>, forgot |-> -Window]

(* Mutant: a hit still counts when it is exactly a window old.             *)
UnexpiredLate(h, now) ==
  LET kept == {i \in DOMAIN h : \E j \in 1..i : now - h[j] <= Window} IN
    SubSeq(h, Len(h) - Cardinality(kept) + 1, Len(h))

(* The while loop of check: expired hits are dropped from the left, up to  *)
(* the first that has not expired.                                         *)
Unexpired(h, now) ==
  LET kept == {i \in DOMAIN h : \E j \in 1..i : now - h[j] < Window} IN
    SubSeq(h, Len(h) - Cardinality(kept) + 1, Len(h))

(* _forget_idle_keys looks at the right end of each deque only.            *)
IdleKey(h, now) == h = <<>> \/ now - h[Len(h)] >= Window

(* Mutant: only the first sweep ever happens.                              *)
SweepDueOnce(lim, now) == lim.forgot = -Window

SweepDue(lim, now) == now - lim.forgot >= Window

(* check, up to the while loop: a new key may first sweep the idle ones.   *)
Arrived(lim, k, now) ==
  IF k \in DOMAIN lim.hits THEN lim
  ELSE LET sweep == SweepDue(lim, now)
           kept  == {j \in DOMAIN lim.hits : sweep => ~IdleKey(lim.hits[j], now)} IN
         [hits   |-> [j \in kept \cup {k} |-> IF j = k THEN <<>> ELSE lim.hits[j]],
          forgot |-> IF sweep THEN now ELSE lim.forgot]

(* Mutant: one hit too many.                                               *)
AllowedOneMore(lim, k, now, limit) ==
  Len(Unexpired(Arrived(lim, k, now).hits[k], now)) <= limit

(* check: whether the hit is allowed, and the state it leaves.             *)
Allowed(lim, k, now, limit) ==
  Len(Unexpired(Arrived(lim, k, now).hits[k], now)) < limit

Checked(lim, k, now, limit) ==
  LET in   == Arrived(lim, k, now)
      kept == Unexpired(in.hits[k], now) IN
    [in EXCEPT !.hits[k] = IF Allowed(lim, k, now, limit)
                           THEN Append(kept, now) ELSE kept]
=============================================================================
