--------------------------- MODULE LoginThrottle ---------------------------
(***************************************************************************)
(* POST /auth/login behind its two rate limiters.  The route runs in a     *)
(* thread pool: each limiter reads the clock before it takes its lock, so  *)
(* two threads may take the lock in the other order than they read the     *)
(* clock, and anything may happen between the two limiters.                *)
(*                                                                         *)
(* Abstracted: what the login does once it is let through, and the text    *)
(* of the 429.                                                             *)
(***************************************************************************)
EXTENDS SlidingWindow

CONSTANTS
  Threads,      \* requests that may be in flight at once
  Addresses,    \* client addresses
  ClientLimit,  \* LOGIN_RATE_LIMIT_PER_CLIENT
  SharedLimit,  \* LOGIN_RATE_LIMIT
  MaxSkew,      \* longest wait between reading the clock and taking the lock
  LastTime      \* bound on the clock

ASSUME LimitsOK ==
  /\ ClientLimit \in Nat \ {0}
  /\ SharedLimit \in Nat \ {0}
  /\ MaxSkew \in Nat
  /\ LastTime \in Nat
ASSUME ThreadsAssumption == IsFiniteSet(Threads)

VARIABLES
  clock,    \* time.monotonic()
  client,   \* _login_client_limiter
  shared,   \* _login_limiter, whose only key is ""
  pc,       \* where each request is
  from,     \* its client address
  read,     \* the clock it has read
  passed,   \* history: when each address was let through by the client limiter
  entered   \* history: when each address was let through by the shared limiter

limiters == <<client, shared>>
requests == <<pc, from, read>>
history  == <<passed, entered>>
throttle == <<clock, limiters, requests, history>>

Shared    == ""
NoAddress == ""

ThrottleInit ==
  /\ clock = 0
  /\ client = NewLimiter
  /\ shared = NewLimiter
  /\ pc = [t \in Threads |-> "idle"]
  /\ from = [t \in Threads |-> NoAddress]
  /\ read = [t \in Threads |-> 0]
  /\ passed = [a \in Addresses |-> <<>>]
  /\ entered = [a \in Addresses |-> <<>>]

-----------------------------------------------------------------------------
(* check reads the clock, then waits for the lock.                         *)
ReadClock(t, next) ==
  /\ pc' = [pc EXCEPT ![t] = next]
  /\ read' = [read EXCEPT ![t] = clock]

(* The request is answered, by a 429 or by the login itself.               *)
Answer(t) ==
  /\ pc' = [pc EXCEPT ![t] = "idle"]
  /\ from' = [from EXCEPT ![t] = NoAddress]
  /\ read' = [read EXCEPT ![t] = 0]

Arrive(t, a) ==
  /\ pc[t] = "idle"
  /\ from' = [from EXCEPT ![t] = a]
  /\ ReadClock(t, "client")
  /\ UNCHANGED <<clock, limiters, history>>

(* Mutant: a refusal by the client limiter does not end the request.       *)
CheckClientAnyway(t) ==
  /\ pc[t] = "client"
  /\ client' = Checked(client, from[t], read[t], ClientLimit)
  /\ pc' = [pc EXCEPT ![t] = "between"]
  /\ passed' = [passed EXCEPT ![from[t]] = Append(@, clock)]
  /\ UNCHANGED <<clock, shared, from, read, entered>>

(* The client limiter goes first: a blocked client never reaches the       *)
(* shared budget.                                                          *)
CheckClient(t) ==
  /\ pc[t] = "client"
  /\ client' = Checked(client, from[t], read[t], ClientLimit)
  /\ \/ /\ Allowed(client, from[t], read[t], ClientLimit)
        /\ pc' = [pc EXCEPT ![t] = "between"]
        /\ passed' = [passed EXCEPT ![from[t]] = Append(@, clock)]
        /\ UNCHANGED <<from, read>>
     \/ /\ ~Allowed(client, from[t], read[t], ClientLimit)
        /\ Answer(t)
        /\ UNCHANGED passed
  /\ UNCHANGED <<clock, shared, entered>>

Proceed(t) ==
  /\ pc[t] = "between"
  /\ ReadClock(t, "shared")
  /\ UNCHANGED <<clock, limiters, from, history>>

CheckShared(t) ==
  /\ pc[t] = "shared"
  /\ shared' = Checked(shared, Shared, read[t], SharedLimit)
  /\ entered' = IF Allowed(shared, Shared, read[t], SharedLimit)
                THEN [entered EXCEPT ![from[t]] = Append(@, clock)] ELSE entered
  /\ Answer(t)
  /\ UNCHANGED <<clock, client, passed>>

(* Time passes, but not so much that a wait for a lock exceeds MaxSkew.    *)
TimePasses ==
  /\ clock < LastTime
  /\ \A t \in Threads : pc[t] \in {"client", "shared"} => clock < read[t] + MaxSkew
  /\ clock' = clock + 1
  /\ UNCHANGED <<limiters, requests, history>>

ThrottleNext ==
  \/ \E t \in Threads :
       \/ \E a \in Addresses : Arrive(t, a)
       \/ CheckClient(t) \/ Proceed(t) \/ CheckShared(t)
  \/ TimePasses

ThrottleSpec == ThrottleInit /\ [][ThrottleNext]_throttle

-----------------------------------------------------------------------------
(* limit hits per window: hits that are limit apart are a window apart,    *)
(* less the time a thread may wait for the lock.                           *)
Spaced(times, limit) ==
  \A i \in 1..(Len(times) - limit) : times[i + limit] - times[i] >= Window - MaxSkew

(* The requests let through by both limiters from one instant to another.  *)
Entered(first, last) ==
  UNION {{<<a, i>> : i \in {j \in DOMAIN entered[a] : entered[a][j] \in first..last}} : a \in Addresses}

(* A limiter "allows `limit` hits per `window_seconds`, counted separately *)
(* per key", each address by its own and all together by the shared one.   *)
(* It holds up to the wait for the lock although a deque is unsorted, a    *)
(* thread with a late clock pops hits that a slower one would still count, *)
(* and the sweep of idle keys judges a deque by its right end only.        *)
LimitsKept ==
  /\ \A a \in Addresses : Spaced(passed[a], ClientLimit)
  /\ \A t \in 0..LastTime : Cardinality(Entered(t, t + Window - MaxSkew - 1)) <= SharedLimit

(* No address is locked out: a hit that is refused finds as many hits of   *)
(* its own address as the limit, let through less than a window before its *)
(* clock reading.                                                          *)
RefusedOnlyAtLimit ==
  \A t \in Threads :
    pc[t] = "client" /\ ~Allowed(client, from[t], read[t], ClientLimit) =>
      LET times == passed[from[t]]
      IN Cardinality({i \in DOMAIN times : times[i] > read[t] - Window}) >= ClientLimit

(* "Memory stays bounded by the keys seen in the last two windows": when a *)
(* new address arrives, whatever is remembered was let through that        *)
(* recently.                                                               *)
MemoryBounded ==
  [][\A t \in Threads :
       CheckClient(t) /\ from[t] \notin DOMAIN client.hits =>
         \A a \in DOMAIN client'.hits : passed'[a][Len(passed'[a])] > read[t] - 2 * Window]_throttle

(* One guesser cannot hold the login form shut: what reaches the shared    *)
(* budget from one address in a window is its own limit, and the requests  *)
(* that were between the two limiters when the window began.               *)
OneClientLeavesRoom ==
  \A a \in Addresses : Spaced(entered[a], ClientLimit + Cardinality(Threads))
=============================================================================
