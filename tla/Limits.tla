------------------------------- MODULE Limits -------------------------------
(***************************************************************************)
(* Rate limits, app/security.py: check_rate_limit, _rl_redis_check,        *)
(* _rl_memory, security_guard; app/main.py: _rate_limit.  One key, which   *)
(* is a scope and an address.                                              *)
(*                                                                         *)
(* Redis counts the calls of a fixed window; a call takes its window from  *)
(* the clock first and asks Redis later.  In production a call that Redis  *)
(* does not answer is refused; elsewhere each process then counts for      *)
(* itself, in a sliding window.                                            *)
(***************************************************************************)
EXTENDS Integers, Sequences

CONSTANTS
    Servers,        \* processes that serve requests
    Allowance,      \* calls in a window
    Window, Grace,  \* Grace: the five seconds that a counter lives longer than its window
    Patience,       \* socket_timeout of Redis: how long a call can be under way
    LastTime,       \* bound: the clock stops here
    MaxCounted      \* bound: calls that a counter counts

ASSUME LimitsAssumption ==
    /\ Allowance \in Nat \ {0} /\ Window \in Nat \ {0} /\ {Grace, Patience, LastTime, MaxCounted} \subseteq Nat
    /\ Patience <= Grace

VARIABLES
    backend,    \* "redis" in production, "either" where Redis may fail, or "memory"
    now,
    counter,    \* counter[b]: calls that Redis has counted for window b
    dies,       \* dies[b]: when that counter expires, or Never
    asking,     \* asking[p]: the call of process p that is under way, and since when
    log, head,  \* log[p]: when process p admitted calls itself; its deque is log[p] from head[p]
    admitted    \* admitted[b]: calls of window b admitted by Redis; history

limitVars == <<backend, now, counter, dies, asking, log, head, admitted>>

Never == -1
NoCall == [window |-> Never, since |-> 0, failed |-> FALSE]

Windows == 0 .. LastTime \div Window
WindowOf(t) == t \div Window

LimitsTypeOK ==
    /\ backend \in {"redis", "either", "memory"}
    /\ now \in 0 .. LastTime
    /\ counter \in [Windows -> Nat] /\ dies \in [Windows -> Nat \union {Never}]
    /\ asking \in [Servers -> [window : Windows \union {Never}, since : Nat, failed : BOOLEAN]]
    /\ log \in [Servers -> Seq(Nat)] /\ head \in [Servers -> Nat \ {0}]
    /\ admitted \in [Windows -> Nat]

LimitsInit ==
    /\ backend \in {"redis", "either", "memory"}
    /\ now = 0
    /\ counter = [b \in Windows |-> 0] /\ dies = [b \in Windows |-> Never]
    /\ asking = [p \in Servers |-> NoCall]
    /\ log = [p \in Servers |-> <<>>] /\ head = [p \in Servers |-> 1]
    /\ admitted = [b \in Windows |-> 0]

-----------------------------------------------------------------------------
(* _rl_redis_check                                                         *)

\* int(time() // window)
Request(p) ==
    /\ backend # "memory" /\ asking[p] = NoCall /\ counter[WindowOf(now)] < MaxCounted
    /\ asking' = [asking EXCEPT ![p] =
                     [window |-> WindowOf(now), since |-> now, failed |-> FALSE]]
    /\ UNCHANGED <<backend, now, counter, dies, log, head, admitted>>

\* A fault: the counter lives as long as its window.
ShortLife(t) == t + Window

\* r.expire(nk, window + 5)
Lifetime(t) == t + Window + Grace

\* INCR, and EXPIRE for the first call of a window
Count(p) ==
    LET b == asking[p].window
        n == counter[b] + 1
    IN  /\ asking[p] # NoCall /\ ~asking[p].failed
        /\ counter' = [counter EXCEPT ![b] = n]
        /\ dies' = IF n = 1 THEN [dies EXCEPT ![b] = Lifetime(now)] ELSE dies
        /\ admitted' = IF n <= Allowance THEN [admitted EXCEPT ![b] = @ + 1] ELSE admitted
        /\ asking' = [asking EXCEPT ![p] = NoCall]
        /\ UNCHANGED <<backend, now, log, head>>

\* Redis goes away after it has counted, perhaps before it was told when to forget.
CountLost(p) ==
    LET b == asking[p].window
    IN  /\ asking[p] # NoCall /\ ~asking[p].failed
        /\ counter' = [counter EXCEPT ![b] = @ + 1]
        /\ asking' = [asking EXCEPT ![p].failed = TRUE]
        /\ UNCHANGED <<backend, now, dies, log, head, admitted>>

\* Redis is away, or answers too late.  "fail-CLOSED in prod"
Refuse(p) ==
    /\ asking[p] # NoCall /\ backend = "redis"
    /\ asking' = [asking EXCEPT ![p] = NoCall]
    /\ UNCHANGED <<backend, now, counter, dies, log, head, admitted>>

-----------------------------------------------------------------------------
(* _rl_memory                                                              *)

\* A fault: the call that is as old as the window does not count.
StrictlyRecent(t) == now - t < Window

Recent(t) == now - t <= Window

\* The deque without the calls at its front that are too old.
Front(p) ==
    CHOOSE i \in head[p] .. Len(log[p]) + 1 :
       /\ \A j \in head[p] .. i - 1 : ~Recent(log[p][j])
       /\ i <= Len(log[p]) => Recent(log[p][i])

CountAlone(p) ==
    /\ \/ backend = "memory" /\ asking' = asking
       \/ /\ backend = "either" /\ asking[p] # NoCall
          /\ asking' = [asking EXCEPT ![p] = NoCall]
    /\ head' = [head EXCEPT ![p] = Front(p)]
    /\ log' = IF Len(log[p]) + 1 - Front(p) >= Allowance THEN log
              ELSE [log EXCEPT ![p] = Append(@, now)]
    /\ UNCHANGED <<backend, now, counter, dies, admitted>>

-----------------------------------------------------------------------------

\* A process is restarted: its deque is gone, and so is the call.
RestartServer(p) ==
    /\ asking' = [asking EXCEPT ![p] = NoCall]
    /\ log' = [log EXCEPT ![p] = <<>>] /\ head' = [head EXCEPT ![p] = 1]
    /\ UNCHANGED <<backend, now, counter, dies, admitted>>

\* Time passes, no call takes longer than it may, and counters expire.
Tick ==
    /\ now < LastTime
    /\ \A p \in Servers : asking[p] # NoCall => now - asking[p].since < Patience
    /\ now' = now + 1
    /\ counter' = [b \in Windows |-> IF dies[b] = now + 1 THEN 0 ELSE counter[b]]
    /\ dies' = [b \in Windows |-> IF dies[b] = now + 1 THEN Never ELSE dies[b]]
    /\ UNCHANGED <<backend, asking, log, head, admitted>>

LimitsNext ==
    \/ \E p \in Servers : \/ Request(p) \/ Count(p) \/ CountLost(p) \/ Refuse(p)
                          \/ CountAlone(p) \/ RestartServer(p)
    \/ Tick

LimitsSpec == LimitsInit /\ [][LimitsNext]_limitVars

-----------------------------------------------------------------------------
(* Correctness.                                                            *)

\* Whatever happens between the clock, Redis and the processes:
\* 1. Redis admits no more calls of a window than allowed: a counter outlives every call
\*    of its window that is under way;
\* 2. no process admits more calls by itself than allowed in any window of time;
\* 3. "fail-CLOSED in prod": where Redis is mandatory no process admits any by itself.
LimitsHeld ==
    /\ \A b \in Windows : admitted[b] <= Allowance
    /\ \A p \in Servers : \A i \in 1 .. Len(log[p]) - Allowance :
          log[p][i + Allowance] - log[p][i] > Window
    /\ backend = "redis" => \A p \in Servers : log[p] = <<>>
=============================================================================
