-------------------------- MODULE InProcessLimiter --------------------------
(***************************************************************************)
(* The in-process sliding window of app/core/rate_limit.py, the limiter    *)
(* without Redis and the fallback with it, as the threads of a backend     *)
(* process run it: enforce_submission_rate_limits and                      *)
(* enforce_login_rate_limit are plain functions, so each request calls     *)
(* acquire in a thread of its own, and RateLimiter has no lock.  CPython   *)
(* makes one operation on the dictionary or on a list atomic; between two  *)
(* of them another thread may run.                                         *)
(*                                                                         *)
(* The values of the dictionary are lists, and lists have an identity:     *)
(* _discard_expired REPLACES the list of a key by a new one, and a thread  *)
(* that took the old one before goes on appending to it.  A list grows at  *)
(* its end only and is otherwise replaced by a part of itself, so it is    *)
(* given as the set of its timestamps, each one numbered on admission.     *)
(***************************************************************************)
EXTENDS Integers, SequencesExt

CONSTANTS
    Threads,
    Keys,       \* "ip:<address>", "widget:<id>", "login:<address>"
    Limit,
    Window,     \* window_seconds, in ticks of the clock
    MaxKeys,    \* max_keys
    NoList,     \* "no list": the key is not in the dictionary
    MaxTime,    \* bound: the clock stops here
    MaxCalls,   \* bound: how often acquire is called one call at a time,
    MaxOverlapping \* bound: and in all, once calls have overlapped

ASSUME LimiterAssumption ==
    /\ Limit \in Nat \ {0} /\ Window \in Nat \ {0} /\ MaxKeys \in Nat \ {0}
    /\ MaxTime \in Nat /\ MaxCalls \in Nat /\ MaxOverlapping \in Nat
ASSUME FinitelyMany == IsFiniteSet(Threads) /\ IsFiniteSet(Keys) /\ Keys # {}

(* Enough lists for every key and for what every thread still refers to.   *)
Lists == 1 .. Cardinality(Keys) + Cardinality(Threads) + 1
ASSUME NoListAssumption == NoList \notin Nat

VARIABLES
    clock,      \* time.monotonic
    hits,       \* _hits[k]: the list of key k, or NoList
    order,      \* the order of the keys in the OrderedDict
    heap,       \* heap[l]: the timestamps in list l, numbered
    pc,
    key,        \* the argument of acquire
    now,        \* acquire's now
    todo,       \* keys _discard_expired has still to visit
    fresh,      \* its local of that name
    mine,       \* acquire's timestamps: a list, not its contents
    retry,      \* retry_after_seconds of the last refusal of a thread
    calls,
    admitted,   \* history: admitted[k], the timestamps of all admissions of k
    evicted,    \* history: the keys that eviction has taken
    overlapped, \* history: a call has begun while another was under way
    restored    \* history: pruning has put back a key that was gone

table == <<hits, order, heap>>
frame == <<key, now, todo, fresh, mine, retry>>
history == <<admitted, evicted, overlapped, restored>>
vars == <<clock, table, pc, frame, calls, history>>
-----------------------------------------------------------------------------
Between == {"idle", "refused", "error"}
Time == 0 .. MaxTime
Hit == [of: Keys, n: Nat, at: Time]
Place == {"idle", "list", "prune", "store", "get", "insert", "move", "check",
          "append", "evict", "pop", "refused", "error"}

TypeOK ==
    /\ clock \in Time
    /\ hits \in [Keys -> Lists \cup {NoList}]
    /\ order \in Seq(Keys)
    /\ ToSet(order) = {k \in Keys : hits[k] # NoList} /\ IsInjective(order)
    /\ heap \in [Lists -> SUBSET Hit]
    /\ pc \in [Threads -> Place]
    /\ key \in [Threads -> Keys]
    /\ now \in [Threads -> Time]
    /\ todo \in [Threads -> Seq(Keys)]
    /\ fresh \in [Threads -> SUBSET Hit]
    /\ mine \in [Threads -> Lists \cup {NoList}]
    /\ retry \in [Threads -> 0 .. Window + MaxTime]
    /\ calls \in Nat
    /\ admitted \in [Keys -> SUBSET Hit]
    /\ evicted \subseteq Keys
    /\ overlapped \in BOOLEAN /\ restored \in BOOLEAN

Init ==
    /\ clock = 0
    /\ hits = [k \in Keys |-> NoList]
    /\ order = <<>>
    /\ heap = [l \in Lists |-> {}]
    /\ pc = [t \in Threads |-> "idle"]
    /\ key \in [Threads -> {CHOOSE k \in Keys : TRUE}]
    /\ now = [t \in Threads |-> 0]
    /\ todo = [t \in Threads |-> <<>>]
    /\ fresh = [t \in Threads |-> {}]
    /\ mine = [t \in Threads |-> NoList]
    /\ retry = [t \in Threads |-> 0]
    /\ calls = 0
    /\ admitted = [k \in Keys |-> {}]
    /\ evicted = {}
    /\ overlapped = FALSE
    /\ restored = FALSE
-----------------------------------------------------------------------------
Tick ==
    /\ clock < MaxTime
    /\ clock' = clock + 1
    /\ UNCHANGED <<table, pc, frame, calls, history>>

At(t, here, there) == pc[t] = here /\ pc' = [pc EXCEPT ![t] = there]

(* acquire(key): the clock is read.                                        *)
Acquire(t) ==
    /\ pc[t] \in Between
    /\ overlapped' = (overlapped \/ \E u \in Threads : pc[u] \notin Between)
    /\ calls < IF overlapped' THEN MaxOverlapping ELSE MaxCalls
    /\ calls' = calls + 1
    /\ pc' = [pc EXCEPT ![t] = "list"]
    /\ \E k \in Keys : key' = [key EXCEPT ![t] = k]
    /\ now' = [now EXCEPT ![t] = clock]
    /\ retry' = [retry EXCEPT ![t] = 0]
    /\ UNCHANGED <<clock, table, todo, fresh, mine, admitted, evicted, restored>>

(* _discard_expired: list(self._hits).                                     *)
ListKeys(t) ==
    /\ At(t, "list", "prune")
    /\ todo' = [todo EXCEPT ![t] = order]
    /\ UNCHANGED <<clock, table, key, now, fresh, mine, retry, calls, history>>

IsFresh_OnTheEdge(moment, at) == moment + Window >= at
IsFresh(moment, at) == moment + Window > at

(* fresh = [...]: reads the list of the key; KeyError if it is gone.  A    *)
(* list that others append to meanwhile is read as of one moment: lists    *)
(* only grow, so what is read is what was there at the end.                *)
ReadTimestamps(t) ==
    LET k == Head(todo[t]) IN
    /\ pc[t] = "prune" /\ todo[t] # <<>>
    /\ \/ /\ hits[k] # NoList
          /\ fresh' = [fresh EXCEPT ![t] =
                {h \in heap[hits[k]] : IsFresh(h.at, now[t])}]
          /\ At(t, "prune", "store")
       \/ /\ hits[k] = NoList
          /\ At(t, "prune", "error")
          /\ UNCHANGED fresh
    /\ UNCHANGED <<clock, table, key, now, todo, mine, retry, calls, history>>

(* The lists something still refers to; any other may be the new one.      *)
InUse == {hits[k] : k \in Keys} \cup {mine[t] : t \in Threads}
NewList_Shared == CHOOSE l \in Lists : TRUE
NewList == CHOOSE l \in Lists \ InUse : TRUE

(* _hits[k] = s, s a new list: an existing key keeps its place.            *)
Store(k, s) ==
    /\ heap' = [heap EXCEPT ![NewList] = s]
    /\ hits' = [hits EXCEPT ![k] = NewList]
    /\ order' = IF hits[k] = NoList THEN Append(order, k) ELSE order

(* The order without a key.                                                *)
Without(k) == RemoveAt(order, CHOOSE i \in DOMAIN order : order[i] = k)

(* _hits[key] = fresh, or del _hits[key], which needs the key.             *)
StoreFresh(t) ==
    LET k == Head(todo[t]) IN
    /\ pc[t] = "store"
    /\ \/ /\ fresh[t] # {}
          /\ Store(k, fresh[t])
          /\ restored' = (restored \/ hits[k] = NoList)
          /\ At(t, "store", "prune")
       \/ /\ fresh[t] = {} /\ hits[k] # NoList
          /\ hits' = [hits EXCEPT ![k] = NoList]
          /\ order' = Without(k)
          /\ At(t, "store", "prune")
          /\ UNCHANGED <<heap, restored>>
       \/ /\ fresh[t] = {} /\ hits[k] = NoList
          /\ At(t, "store", "error")
          /\ UNCHANGED <<table, restored>>
    /\ todo' = [todo EXCEPT ![t] = Tail(@)]
    /\ fresh' = [fresh EXCEPT ![t] = {}]
    /\ UNCHANGED <<clock, key, now, mine, retry, calls, admitted, evicted, overlapped>>

(* timestamps = self._hits.get(key).                                       *)
GetTimestamps(t) ==
    /\ pc[t] = "prune" /\ todo[t] = <<>>
    /\ mine' = [mine EXCEPT ![t] = hits[key[t]]]
    /\ pc' = [pc EXCEPT ![t] = IF hits[key[t]] = NoList THEN "insert" ELSE "move"]
    /\ UNCHANGED <<clock, table, key, now, todo, fresh, retry, calls, history>>

(* The key was missing: a new empty list.                                  *)
InsertKey(t) ==
    /\ At(t, "insert", "move")
    /\ Store(key[t], {})
    /\ mine' = [mine EXCEPT ![t] = NewList]
    /\ UNCHANGED <<clock, key, now, todo, fresh, retry, calls, history>>

(* move_to_end(key): KeyError if another thread has deleted it.            *)
MoveToEnd(t) ==
    /\ pc[t] = "move"
    /\ \/ /\ hits[key[t]] # NoList
          /\ order' = Append(Without(key[t]), key[t])
          /\ At(t, "move", "check")
          /\ UNCHANGED mine
       \/ /\ hits[key[t]] = NoList
          /\ mine' = [mine EXCEPT ![t] = NoList]
          /\ At(t, "move", "error")
          /\ UNCHANGED order
    /\ UNCHANGED <<clock, hits, heap, key, now, todo, fresh, retry, calls, history>>

IsFull_OneMore(l) == Cardinality(heap[l]) > Limit
IsFull(l) == Cardinality(heap[l]) >= Limit

(* max(1, ceil(window - (now - oldest))), oldest = timestamps[0].          *)
First(l) == CHOOSE h \in heap[l] : \A g \in heap[l] : h.n <= g.n
RetryAfter(l, at) == Max({1, First(l).at + Window - at})

CheckLimit(t) ==
    /\ pc[t] = "check"
    /\ \/ /\ IsFull(mine[t])
          /\ retry' = [retry EXCEPT ![t] = RetryAfter(mine[t], now[t])]
          /\ mine' = [mine EXCEPT ![t] = NoList]
          /\ At(t, "check", "refused")
       \/ /\ ~IsFull(mine[t])
          /\ At(t, "check", "append")
          /\ UNCHANGED <<retry, mine>>
    /\ UNCHANGED <<clock, table, key, now, todo, fresh, calls, history>>

(* timestamps.append(now): the request is admitted.                        *)
NewHit(t) == [of |-> key[t], n |-> Cardinality(admitted[key[t]]) + 1, at |-> now[t]]

AppendHit(t) ==
    /\ At(t, "append", "evict")
    /\ heap' = [heap EXCEPT ![mine[t]] = @ \cup {NewHit(t)}]
    /\ admitted' = [admitted EXCEPT ![key[t]] = @ \cup {NewHit(t)}]
    /\ mine' = [mine EXCEPT ![t] = NoList]
    /\ UNCHANGED <<clock, hits, order, key, now, todo, fresh, retry, calls, evicted,
                   overlapped, restored>>

(* _evict_over_cap: the test of its loop, and the popitem after it.        *)
OverCap_OneMore == Len(order) > MaxKeys + 1
OverCap == Len(order) > MaxKeys

TestCap(t) ==
    /\ pc[t] = "evict"
    /\ pc' = [pc EXCEPT ![t] = IF OverCap THEN "pop" ELSE "idle"]
    /\ UNCHANGED <<clock, table, frame, calls, history>>

(* popitem(last=False); others may have taken all there was: KeyError.     *)
PopOldest(t) ==
    /\ \/ /\ order # <<>>
          /\ At(t, "pop", "evict")
          /\ hits' = [hits EXCEPT ![Head(order)] = NoList]
          /\ order' = Tail(order)
          /\ evicted' = evicted \cup {Head(order)}
       \/ /\ order = <<>>
          /\ At(t, "pop", "error")
          /\ UNCHANGED <<hits, order, evicted>>
    /\ UNCHANGED <<clock, heap, frame, calls, admitted, overlapped, restored>>

Step(t) ==
    \/ ListKeys(t) \/ ReadTimestamps(t) \/ StoreFresh(t) \/ GetTimestamps(t)
    \/ InsertKey(t) \/ MoveToEnd(t) \/ CheckLimit(t) \/ AppendHit(t)
    \/ TestCap(t) \/ PopOldest(t)

Next == Tick \/ \E t \in Threads : Acquire(t) \/ Step(t)

Spec == Init /\ [][Next]_vars
-----------------------------------------------------------------------------
(* How often k was admitted in the window that ends at a moment.           *)
WindowOf(k, at) == {h \in admitted[k] : at - Window < h.at /\ h.at <= at}
AdmittedIn(k, at) == Cardinality(WindowOf(k, at))

(* "The limiter allows up to the limit": as long as calls do not overlap,  *)
(* no window of a key sees more, unless the key is evicted to make room    *)
(* for others.                                                             *)
WindowRespected ==
    ~overlapped =>
        \A k \in Keys \ evicted, at \in Time : AdmittedIn(k, at) <= Limit

(* ... "then refuses", and no sooner: a refused caller had the whole limit *)
(* admitted in the window before, and Retry-After is the first moment at   *)
(* which it finds a free slot.                                             *)
HonestRefusal(t) ==
    /\ AdmittedIn(key[t], now[t]) >= Limit
    /\ key[t] \notin evicted =>
          \A d \in 0 .. retry[t] :
              AdmittedIn(key[t], now[t] + d) < Limit <=> d = retry[t]
RefusalIsHonest ==
    [][\A t \in Threads : ~overlapped /\ pc[t] = "check" /\ pc'[t] = "refused"
          => HonestRefusal(t)']_vars

(* Between calls no more than max_keys keys are tracked, whatever the      *)
(* threads did, unless the pruning of one put back a key that another had  *)
(* evicted or deleted; and the dictionary is one: each key once, in order. *)
KeysBounded ==
    /\ TypeOK
    /\ (\A t \in Threads : pc[t] \in Between) /\ ~restored => Len(order) <= MaxKeys

(* Whatever the threads do to the lists, a list never counts against its   *)
(* key what was not admitted for it.                                       *)
HitsAreReal == \A k \in Keys : hits[k] # NoList => heap[hits[k]] \subseteq admitted[k]

(* acquire always returns a decision.                                      *)
AcquireNeverFails == \A t \in Threads : pc[t] # "error"
-----------------------------------------------------------------------------
(* The strengthenings that make the invariants above inductive.            *)

Active(t) == pc[t] \notin Between
Tracked == {k \in Keys : hits[k] # NoList}

(* A list is that of one key, in the dictionary and in the threads.        *)
ListsApart ==
    /\ \A j, k \in Tracked : hits[j] = hits[k] => j = k
    /\ \A t \in Threads : mine[t] # NoList =>
          /\ \A k \in Keys : hits[k] = mine[t] => k = key[t]
          /\ \A u \in Threads : mine[u] = mine[t] => key[u] = key[t]

(* What the threads keep between two steps of theirs.                      *)
InFrame(t) ==
    /\ pc[t] = "store" => todo[t] # <<>> /\ fresh[t] \subseteq admitted[Head(todo[t])]
    /\ mine[t] # NoList <=> pc[t] \in {"move", "check", "append"}
Frames == \A t \in Threads : InFrame(t)

(* A thread that is to append will evict afterwards.  Without the keys of  *)
(* such threads the dictionary is within its cap.                          *)
Owes(t) ==
    \/ pc[t] \in {"append", "evict", "pop"}
    \/ pc[t] \in {"move", "check"} /\ ~IsFull(mine[t])
Owed == {key[t] : t \in {u \in Threads : Owes(u)}}
CapOwed == ~restored => Cardinality(Tracked \ Owed) <= MaxKeys

(* The admissions of a key are numbered in their order.                    *)
Numbered ==
    \A k \in Keys :
        /\ IsFiniteSet(admitted[k])
        /\ \A h \in admitted[k] : h.n \in 1 .. Cardinality(admitted[k])
        /\ \A g, h \in admitted[k] : g.n = h.n => g = h

LimiterInv == TypeOK /\ Numbered /\ ListsApart /\ Frames /\ HitsAreReal /\ CapOwed

(* One call at a time, as far as it has got: the lists it has pruned hold  *)
(* what is fresh, and it has the list of its key.                          *)
AllFresh(k, at) == hits[k] # NoList => \A h \in heap[hits[k]] : IsFresh(h.at, at)
Undisturbed(t) ==
    /\ now[t] <= clock
    /\ \A k \in Keys : \A h \in admitted[k] : h.at <= now[t]
    /\ pc[t] = "store" =>
          /\ hits[Head(todo[t])] # NoList
          /\ fresh[t] = {h \in heap[hits[Head(todo[t])]] : IsFresh(h.at, now[t])}
    /\ pc[t] \in {"prune", "store"} =>
          \A k \in Keys \ ToSet(todo[t]) : AllFresh(k, now[t])
    /\ pc[t] = "insert" => hits[key[t]] = NoList
    /\ pc[t] \in {"move", "check", "append"} =>
          mine[t] = hits[key[t]] /\ AllFresh(key[t], now[t])
    /\ pc[t] = "append" => ~IsFull(mine[t])

(* Every admission a window may still count is in the list of its key.     *)
Counts(h) ==
    IsFresh(h.at, clock) \/ \E t \in Threads : Active(t) /\ IsFresh(h.at, now[t])
Kept ==
    \A k \in Keys \ evicted : \A h \in admitted[k] :
        Counts(h) => hits[k] # NoList /\ h \in heap[hits[k]]

InOrder ==
    \A k \in Keys :
        /\ \A h \in admitted[k] : h.at <= clock
        /\ \A g, h \in admitted[k] : g.n < h.n => g.at <= h.at

OneAtATime ==
    ~overlapped =>
        /\ \A t, u \in Threads : Active(t) /\ Active(u) => t = u
        /\ \A t \in Threads : Active(t) => Undisturbed(t)
        /\ Kept /\ InOrder

WindowInv == LimiterInv /\ OneAtATime /\ WindowRespected
=============================================================================
