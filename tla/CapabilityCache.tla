-------------------------- MODULE CapabilityCache --------------------------
(***************************************************************************)
(* EffectiveCapabilityCache (src/src/datasluice/runtime/capability.py):    *)
(* what each operation of a catalog deployment may do, found out by probes *)
(* and kept for a while.  Callers that miss share one probe per key, the   *)
(* flight; threads and asyncio tasks have separate flights and one cache.  *)
(* One lock guards the dictionaries and is never held across a probe, so   *)
(* an invalidation can come between any two of a caller's steps.           *)
(*                                                                         *)
(* A caller makes one call.  A flight is therefore named by its leader.    *)
(***************************************************************************)
EXTENDS Integers, Sequences, FiniteSets

CONSTANTS Threads,           \* callers of resolve
          Tasks,             \* callers of resolve_async
          Requests,          \* requests whose answer record_response keeps
          Placements,        \* the event loop each task runs on: the ways considered
          Scopes, Ops,       \* credential scopes and operations
          None,
          MaxEntries,        \* _MAX_CACHE_ENTRIES
          MaxInvalidations   \* bound on calls of invalidate

Callers == Threads \cup Tasks \cup Requests

Keys == Scopes \X Ops

ASSUME CapabilityCacheAssumption ==
    /\ Threads \cap Tasks = {}
    /\ (Threads \cup Tasks) \cap Requests = {}
    /\ None \notin Callers \cup Keys
    /\ \A p \in Placements : DOMAIN p = Tasks
    /\ MaxEntries \in Nat \ {0}
    /\ MaxInvalidations \in Nat

VARIABLES entries,    \* _entries, in insertion order
          flights,    \* _sync_flights and _async_flights: leader of each key
          outcome,    \* what flight c has published to its followers
          cancelled,  \* flight.cancelled
          scheduled,  \* flights with a completion queued on their loop
          loop,       \* the event loop each task runs on, which never changes
          pc, key,    \* where each caller is and the key it asks for
          on,         \* the flight a follower waits for
          born,       \* invalidations of the key when its evidence was sought
          gen         \* invalidations of each key so far

vars == <<entries, flights, outcome, cancelled, scheduled, loop, pc, key, on,
          born, gen>>

Mode(c) == IF c \in Threads THEN "sync" ELSE "async"

\* An entry's age: 0 within the TTL, 1 up to twice the TTL, 2 beyond.
Entry(k, g, source, a) == [key |-> k, born |-> g, by |-> source, age |-> a]

\* What s holds at the positions I, in the order of s.
At(s, I) ==
    [j \in 1..Cardinality(I) |-> s[CHOOSE i \in I : Cardinality({h \in I : h <= i}) = j]]

Held(k) == {i \in DOMAIN entries : entries[i].key = k}

FreshAt(k) == {i \in Held(k) : entries[i].age = 0}

\* _fresh_entry drops the entry it finds expired.
Swept(k) == At(entries, {i \in DOMAIN entries : i \in Held(k) => i \in FreshAt(k)})

\* _store_entry: the key moves to the end; a full cache first forgets what is
\* older than twice the TTL and then, if that was not enough, its oldest key.
Stored(k, g, source) ==
    LET others == At(entries, DOMAIN entries \ Held(k))
        pruned == IF Len(others) < MaxEntries THEN others
                  ELSE At(others, {i \in DOMAIN others : others[i].age < 2})
        room == IF Len(pruned) < MaxEntries THEN pruned ELSE Tail(pruned)
    IN Append(room, Entry(k, g, source, 0))

Init ==
    /\ entries = <<>>
    /\ flights = [m \in {"sync", "async"} |-> [k \in Keys |-> None]]
    /\ outcome = [c \in Callers |-> "open"]
    /\ cancelled = [c \in Callers |-> FALSE]
    /\ scheduled = {}
    /\ loop \in Placements
    /\ pc = [c \in Callers |-> "idle"]
    /\ key = [c \in Callers |-> None]
    /\ on = [c \in Callers |-> None]
    /\ born = [c \in Callers |-> 0]
    /\ gen = [k \in Keys |-> 0]

Goto(c, label) == pc' = [pc EXCEPT ![c] = label]

\* The call returns or raises; only what its flight published is left.
Return(c) ==
    /\ Goto(c, "done")
    /\ key' = [key EXCEPT ![c] = None]
    /\ on' = [on EXCEPT ![c] = None]
    /\ born' = [born EXCEPT ![c] = 0]
    /\ cancelled' = [cancelled EXCEPT ![c] = FALSE]

-----------------------------------------------------------------------------
(* resolve and resolve_async                                                *)

\* The look into the cache, under the lock.
Lookup(c, k) ==
    /\ c \in Threads \cup Tasks
    /\ pc[c] = "idle"
    /\ \/ /\ FreshAt(k) # {}
          /\ Return(c)
       \/ /\ FreshAt(k) = {}
          /\ Goto(c, "missed")
          /\ key' = [key EXCEPT ![c] = k]
          /\ UNCHANGED <<on, born, cancelled>>
    /\ entries' = Swept(k)
    /\ UNCHANGED <<loop, flights, outcome, scheduled, gen>>

\* _sync_flight and _async_flight, in a second critical section: nobody looks at
\* the cache again.  A task of another loop cannot await an open future.
Join(c) ==
    /\ pc[c] = "missed"
    /\ LET f == flights[Mode(c)][key[c]]
       IN \/ /\ f = None
             /\ flights' = [flights EXCEPT ![Mode(c)][key[c]] = c]
             /\ born' = [born EXCEPT ![c] = gen[key[c]]]
             /\ Goto(c, "probing")
             /\ UNCHANGED <<key, on, cancelled>>
          \/ /\ f # None
             /\ IF c \in Tasks /\ loop[c] # loop[f] /\ outcome[f] = "open"
                THEN Return(c)
                ELSE /\ on' = [on EXCEPT ![c] = f]
                     /\ Goto(c, "waiting")
                     /\ UNCHANGED <<key, born, cancelled>>
             /\ UNCHANGED flights
    /\ UNCHANGED <<loop, entries, outcome, scheduled, gen>>

\* Mutant of Discard: the key is popped whoever owns it.
DiscardAny(c) == flights' = [flights EXCEPT ![Mode(c)][key[c]] = None]

\* _discard_sync_flight and _discard_async_flight.
Discard(c) ==
    flights' = [flights EXCEPT ![Mode(c)][key[c]] = IF @ = c THEN None ELSE @]

\* A thread's event may be set again; a future is completed once.
Publish(c, what) ==
    outcome' = [outcome EXCEPT ![c] =
                  IF c \in Threads \/ @ = "open" THEN what ELSE @]

\* Mutant of LeaderCompletes: the flag is not looked at before the entry is stored.
LeaderStoresAnyway(c) ==
    /\ pc[c] = "probing"
    /\ entries' = Stored(key[c], born[c], "probe")
    /\ Publish(c, "profile")
    /\ Discard(c)
    /\ Return(c)
    /\ UNCHANGED <<loop, scheduled, gen>>

\* _complete_sync_leader and _complete_async_leader.  The leader of a cancelled
\* flight raises; its followers are told by whoever cancelled it.
LeaderCompletes(c) ==
    /\ pc[c] = "probing"
    /\ \/ /\ cancelled[c]
          /\ UNCHANGED <<entries, outcome>>
       \/ /\ ~cancelled[c]
          /\ entries' = Stored(key[c], born[c], "probe")
          /\ Publish(c, "profile")
    /\ Discard(c)
    /\ Return(c)
    /\ UNCHANGED <<loop, scheduled, gen>>

\* _fail_sync_leader and _fail_async_leader: the probe raises, or the task that
\* runs it is cancelled.
LeaderFails(c) ==
    /\ pc[c] = "probing"
    /\ Publish(c, "error")
    /\ Discard(c)
    /\ Return(c)
    /\ UNCHANGED <<loop, entries, scheduled, gen>>

\* _wait_sync_flight, and a task that awaits the shared future.
FollowerReturns(c) ==
    /\ pc[c] = "waiting"
    /\ outcome[on[c]] # "open"
    /\ Return(c)
    /\ UNCHANGED <<loop, entries, flights, outcome, scheduled, gen>>

\* Cancelling a task cancels the future it awaits, and that one is the flight's.
FollowerCancelled(c) ==
    /\ c \in Tasks
    /\ pc[c] = "waiting"
    /\ Publish(on[c], "cancelled")
    /\ Return(c)
    /\ UNCHANGED <<loop, entries, flights, scheduled, gen>>

-----------------------------------------------------------------------------
(* invalidate, peek, record_response                                        *)

Registered(m, ks) == {flights[m][k] : k \in ks} \ {None}

\* The keys one call of invalidate names: all, or those of one operation.
InvalidationSets == {Keys} \cup {Scopes \X {op} : op \in Ops}

\* Mutant of Invalidate: the flights of event loops are only forgotten.
InvalidateForgets(ks) ==
    /\ \A k \in ks : gen[k] < MaxInvalidations
    /\ gen' = [k \in Keys |-> IF k \in ks THEN gen[k] + 1 ELSE gen[k]]
    /\ entries' = At(entries, {i \in DOMAIN entries : entries[i].key \notin ks})
    /\ cancelled' = [c \in Callers |->
          cancelled[c] \/ c \in Registered("sync", ks) \cup Registered("async", ks)]
    /\ outcome' = [c \in Callers |->
          IF c \in Registered("sync", ks) THEN "error" ELSE outcome[c]]
    /\ flights' = [m \in DOMAIN flights |->
          [k \in Keys |-> IF k \in ks THEN None ELSE flights[m][k]]]
    /\ UNCHANGED <<loop, scheduled, pc, key, on, born>>

\* _invalidate_all and _invalidate_operation: entries go, threads are told at
\* once, tasks through a callback on the loop of the flight.
Invalidate(ks) ==
    /\ \A k \in ks : gen[k] < MaxInvalidations
    /\ gen' = [k \in Keys |-> IF k \in ks THEN gen[k] + 1 ELSE gen[k]]
    /\ entries' = At(entries, {i \in DOMAIN entries : entries[i].key \notin ks})
    /\ cancelled' = [c \in Callers |->
          cancelled[c] \/ c \in Registered("sync", ks) \cup Registered("async", ks)]
    /\ outcome' = [c \in Callers |->
          IF c \in Registered("sync", ks) THEN "error" ELSE outcome[c]]
    /\ scheduled' = scheduled \cup Registered("async", ks)
    /\ flights' = [m \in DOMAIN flights |->
          [k \in Keys |-> IF k \in ks THEN None ELSE flights[m][k]]]
    /\ UNCHANGED <<loop, pc, key, on, born>>

\* complete(), run by the loop of the flight.
CompleteCancelled(f) ==
    /\ f \in scheduled
    /\ scheduled' = scheduled \ {f}
    /\ Publish(f, "error")
    /\ UNCHANGED <<loop, entries, flights, cancelled, pc, key, on, born, gen>>

\* peek never probes, but drops an expired entry.
Peek(k) ==
    /\ entries' = Swept(k)
    /\ UNCHANGED <<loop, flights, outcome, cancelled, scheduled, pc, key, on, born, gen>>

\* A client sends a request of an operation (uData, CKAN and the runtime clients).
RequestSent(r, k) ==
    /\ r \in Requests
    /\ pc[r] = "idle"
    /\ key' = [key EXCEPT ![r] = k]
    /\ born' = [born EXCEPT ![r] = gen[k]]
    /\ Goto(r, "sent")
    /\ UNCHANGED <<loop, entries, flights, outcome, cancelled, scheduled, on, gen>>

\* record_response and record_evidence: the answer is stored as it comes.
RecordResponse(r) ==
    /\ pc[r] = "sent"
    /\ entries' = Stored(key[r], born[r], "response")
    /\ Return(r)
    /\ UNCHANGED <<loop, flights, outcome, scheduled, gen>>

\* Time passes.
Expire(k) ==
    /\ \E i \in Held(k) :
          /\ entries[i].age < 2
          /\ entries' = [entries EXCEPT ![i].age = @ + 1]
    /\ UNCHANGED <<loop, flights, outcome, cancelled, scheduled, pc, key, on, born, gen>>

CallerStep(c) ==
    \/ Join(c)
    \/ LeaderCompletes(c)
    \/ LeaderFails(c)
    \/ FollowerReturns(c)

Next ==
    \/ \E c \in Callers, k \in Keys : Lookup(c, k) \/ RequestSent(c, k)
    \/ \E c \in Callers : \/ CallerStep(c)
                          \/ FollowerCancelled(c)
                          \/ CompleteCancelled(c)
                          \/ RecordResponse(c)
    \/ \E ks \in InvalidationSets : Invalidate(ks)
    \/ \E k \in Keys : Peek(k) \/ Expire(k)

Spec == Init /\ [][Next]_vars

\* Threads and event loops are scheduled and probes end (the transports have
\* timeouts).  Nobody has to call, to cancel or to invalidate.
Fairness ==
    /\ \A c \in Threads \cup Tasks : WF_vars(CallerStep(c))
    /\ \A f \in Tasks : WF_vars(CompleteCancelled(f))

FairSpec == Spec /\ Fairness

-----------------------------------------------------------------------------
(* Properties                                                               *)

\* The variables have the types the code gives them, and the cache its bound.
TypeOK ==
    /\ \A i \in DOMAIN entries :
          entries[i] \in [key : Keys, born : 0 .. MaxInvalidations,
                          by : {"probe", "response"}, age : 0 .. 2]
    /\ Len(entries) <= MaxEntries
    /\ flights \in [{"sync", "async"} -> [Keys -> Threads \cup Tasks \cup {None}]]
    /\ outcome \in [Callers -> {"open", "profile", "error", "cancelled"}]
    /\ cancelled \in [Callers -> BOOLEAN]
    /\ scheduled \subseteq Tasks
    /\ loop \in Placements
    /\ pc \in [Callers -> {"idle", "missed", "probing", "waiting", "sent", "done"}]
    /\ key \in [Callers -> Keys \cup {None}]
    /\ on \in [Callers -> Callers \cup {None}]
    /\ born \in [Callers -> 0 .. MaxInvalidations]
    /\ gen \in [Keys -> 0 .. MaxInvalidations]

\* invalidate is final for probes: afterwards the cache holds no answer of a probe
\* that was under way before it, and no later caller can join such a probe
\* (flight.cancelled, _complete_sync_leader, _complete_async_leader).
NoProbeOutlivesInvalidation ==
    /\ \A i \in DOMAIN entries :
          entries[i].by = "probe" => entries[i].born = gen[entries[i].key]
    /\ \A m \in DOMAIN flights, k \in Keys :
          flights[m][k] # None => born[flights[m][k]] = gen[k]

\* The registries hold exactly the flights that are probing and still wanted: a
\* finished or invalidated leader never unregisters its successor, and no key is
\* left with a flight that nobody will complete (_discard_*_flight).
RegistryIsExact ==
    /\ TypeOK
    /\ \A c \in Threads \cup Tasks :
          (pc[c] = "probing" /\ ~cancelled[c])
              <=> \E k \in Keys : k = key[c] /\ flights[Mode(c)][k] = c

\* Every call is answered: no follower waits for a flight that its leader, an
\* invalidation or a cancellation has ended.
EveryCallIsAnswered ==
    \A c \in Threads \cup Tasks : pc[c] # "idle" ~> pc[c] = "done"
=============================================================================
