----------------------- MODULE CapabilityCacheProofs -----------------------
(***************************************************************************)
(* Proofs about CapabilityCache, for any callers, keys, event loops, cache *)
(* size and number of invalidations.                                       *)
(***************************************************************************)
EXTENDS CapabilityCache, FiniteSetTheorems, SequenceTheorems, WellFoundedInduction, TLAPS

Entries == [key : Keys, born : 0 .. MaxInvalidations, by : {"probe", "response"}, age : 0 .. 2]

\* The entries form a sequence.
EntriesInv == entries \in Seq(Entries)

\* What a caller has in its hands at each place.
CallerInv ==
    /\ \A c \in Callers : pc[c] \in {"missed", "probing", "waiting"} => c \in Threads \cup Tasks
    /\ \A c \in Callers : pc[c] \in {"missed", "probing", "waiting", "sent"} => key[c] \in Keys
    /\ \A c \in Callers : pc[c] = "waiting" => on[c] \in Callers
    /\ \A c \in Callers : cancelled[c] => pc[c] = "probing"

\* A registered flight is led by a caller of the registry's kind that probes for the
\* key, was not cancelled, and began after the last invalidation of the key.
FlightInv ==
    \A m \in {"sync", "async"}, k \in Keys : flights[m][k] # None =>
        LET f == flights[m][k] IN
        /\ Mode(f) = m
        /\ pc[f] = "probing" /\ key[f] = k /\ ~cancelled[f]
        /\ born[f] = gen[k]

\* A probe nobody cancelled is registered.
LeaderInv ==
    \A c \in Callers : pc[c] = "probing" /\ ~cancelled[c] => flights[Mode(c)][key[c]] = c

\* Answers of probes are as recent as the last invalidation.
AnswerInv == \A i \in DOMAIN entries :
    entries[i].by = "probe" => entries[i].born = gen[entries[i].key]

CacheInv == TypeOK /\ EntriesInv /\ CallerInv /\ FlightInv /\ LeaderInv /\ AnswerInv

-----------------------------------------------------------------------------
(* What At selects                                                          *)

\* Every nonempty set of naturals has a smallest element.
LEMMA SmallestExists ==
    ASSUME NEW S, S \subseteq Nat, S # {}
    PROVE  \E x \in S : \A y \in S : x <= y
<1> DEFINE Less == {ss \in Nat \X Nat : ss[1] < ss[2]}
<1>1. IsWellFoundedOn(Less, Nat) BY NatLessThanWellFounded DEF OpToRel
<1>2. \A a, b \in Nat : a < b => <<a, b>> \in Less OBVIOUS
<1> HIDE DEF Less
<1>3. PICK x \in S : \A y \in S : ~ (<<y, x>> \in Less) BY <1>1, WFMin
<1>4. ASSUME NEW y \in S PROVE x <= y
  <2>1. x \in Nat /\ y \in Nat OBVIOUS
  <2>2. ~ (y < x) BY <2>1, <1>2, <1>3, Zenon
  <2> QED BY <2>1, <2>2
<1> QED BY <1>4

\* Among the positions I there is a j-th one for every j up to their number.
LEMMA RankExists ==
    ASSUME NEW n \in Nat, NEW I, I \subseteq 1..n, NEW j \in 1..Cardinality(I)
    PROVE  \E i \in I : Cardinality({h \in I : h <= i}) = j
<1> DEFINE Upto(m) == {h \in I : h <= m}
           c == [m \in 0..n |-> Cardinality(Upto(m))]
           S == {m \in 0..n : c[m] >= j}
<1>1. IsFiniteSet(I) /\ Cardinality(I) \in Nat
  <2>1. IsFiniteSet(1..n) BY FS_Interval
  <2> QED BY <2>1, FS_Subset, FS_CardinalityType
<1>2. ASSUME NEW m \in 0..n PROVE IsFiniteSet(Upto(m)) /\ c[m] = Cardinality(Upto(m)) /\ c[m] \in Nat
  <2>1. Upto(m) \in SUBSET I OBVIOUS
  <2>2. IsFiniteSet(Upto(m)) BY <1>1, <2>1, FS_Subset
  <2>3. c[m] = Cardinality(Upto(m)) OBVIOUS
  <2> HIDE DEF Upto, c
  <2> QED BY <2>2, <2>3, FS_CardinalityType
<1>3. c[n] = Cardinality(I)
  <2>1. \A h \in I : h <= n OBVIOUS
  <2>2. Upto(n) = I BY <2>1
  <2> HIDE DEF Upto, c
  <2> QED BY <1>2, <2>2
<1>4. c[0] = 0
  <2>1. \A h \in I : ~(h <= 0) OBVIOUS
  <2>2. Upto(0) = {} BY <2>1
  <2> HIDE DEF Upto, c
  <2> QED BY <1>2, <2>2, FS_EmptySet
<1>5. ASSUME NEW m \in 1..n PROVE c[m] = IF m \in I THEN c[m - 1] + 1 ELSE c[m - 1]
  <2>1. m - 1 \in 0..n /\ m \in 0..n /\ m \notin Upto(m - 1) OBVIOUS
  <2>2. \A h \in I : h <= m <=> h <= m - 1 \/ h = m OBVIOUS
  <2>5. m \in I => Upto(m) = Upto(m - 1) \cup {m} BY <2>2
  <2>6. m \notin I => Upto(m) = Upto(m - 1) BY <2>2
  <2>3. /\ c[m] = Cardinality(Upto(m)) /\ c[m - 1] = Cardinality(Upto(m - 1))
        /\ IsFiniteSet(Upto(m - 1))
        BY <1>2, <2>1
  <2> HIDE DEF Upto, c
  <2>4. Cardinality(Upto(m - 1) \cup {m}) = Cardinality(Upto(m - 1)) + 1 BY <2>1, <2>3, FS_AddElement
  <2> QED BY <2>3, <2>4, <2>5, <2>6
<1> HIDE DEF c
<1>6. n \in S BY <1>3
<1>7. PICK m \in S : \A l \in S : m <= l
  <2>1. S \subseteq Nat /\ S # {} BY <1>6
  <2> QED BY <2>1, SmallestExists
<1>8. m \in 1..n BY <1>1, <1>4
<1>9. m - 1 \in 0..n /\ m - 1 \notin S BY <1>7, <1>8
<1>10. j \in Nat /\ c[m - 1] \in Nat
  <2>1. j \in Nat BY <1>1
  <2>2. \A x \in 0..n : c[x] \in Nat BY <1>2
  <2> QED BY <1>9, <2>1, <2>2
<1>11. ~(c[m - 1] >= j) /\ c[m] >= j BY <1>9
<1>12. m \in I /\ c[m] = j BY <1>5, <1>8, <1>10, <1>11
<1> QED BY <1>2, <1>8, <1>12

\* At(s, I) is a sequence no longer than s, and each of its elements is one that s
\* has at a position of I.
LEMMA AtFacts ==
    ASSUME NEW S, NEW s \in Seq(S), NEW I, I \subseteq DOMAIN s
    PROVE  /\ At(s, I) \in Seq(S)
           /\ Len(At(s, I)) <= Len(s)
           /\ \A j \in DOMAIN At(s, I) : \E i \in I : At(s, I)[j] = s[i]
<1>1. DOMAIN s = 1..Len(s) /\ Len(s) \in Nat OBVIOUS
<1>2. IsFiniteSet(1..Len(s)) /\ Cardinality(1..Len(s)) = Len(s)
  <2>1. ASSUME NEW n \in Nat PROVE IsFiniteSet(1..n) /\ Cardinality(1..n) = n BY FS_Interval
  <2> QED BY <1>1, <2>1
<1>3. I \in SUBSET (1..Len(s)) BY <1>1
<1>4. Cardinality(I) \in Nat /\ Cardinality(I) <= Len(s)
      BY <1>2, <1>3, FS_Subset, FS_CardinalityType
<1> DEFINE pos(j) == CHOOSE i \in I : Cardinality({h \in I : h <= i}) = j
<1>5. ASSUME NEW j \in 1..Cardinality(I) PROVE pos(j) \in I
  <2>1. \E i \in I : Cardinality({h \in I : h <= i}) = j BY <1>1, <1>3, RankExists
  <2> QED BY <2>1
<1>6. At(s, I) = [j \in 1..Cardinality(I) |-> s[pos(j)]] BY DEF At
<1> HIDE DEF pos
<1>7. \A j \in 1..Cardinality(I) : s[pos(j)] \in S BY <1>1, <1>5
<1>8. At(s, I) \in Seq(S) BY <1>4, <1>6, <1>7, IsASeq
<1>9. Len(At(s, I)) = Cardinality(I) BY <1>4, <1>6, <1>8
<1> QED BY <1>4, <1>5, <1>6, <1>8, <1>9

\* _fresh_entry only drops entries.
LEMMA SweptFacts ==
    ASSUME EntriesInv, NEW k
    PROVE  /\ Swept(k) \in Seq(Entries) /\ Len(Swept(k)) <= Len(entries)
           /\ \A j \in DOMAIN Swept(k) : \E i \in DOMAIN entries : Swept(k)[j] = entries[i]
<1> DEFINE I == {i \in DOMAIN entries : i \in Held(k) => i \in FreshAt(k)}
<1>1. Swept(k) = At(entries, I) BY DEF Swept
<1>2. I \subseteq DOMAIN entries OBVIOUS
<1> HIDE DEF I
<1> QED BY <1>1, <1>2, AtFacts DEF EntriesInv

\* _store_entry keeps the cache within its bound and adds one entry at most.
LEMMA StoredFacts ==
    ASSUME EntriesInv, Len(entries) <= MaxEntries, NEW k \in Keys, NEW g \in 0..MaxInvalidations,
           NEW source \in {"probe", "response"}
    PROVE  /\ Stored(k, g, source) \in Seq(Entries) /\ Len(Stored(k, g, source)) <= MaxEntries
           /\ \A j \in DOMAIN Stored(k, g, source) :
                 \/ Stored(k, g, source)[j] = Entry(k, g, source, 0)
                 \/ \E i \in DOMAIN entries : Stored(k, g, source)[j] = entries[i]
<1> USE CapabilityCacheAssumption
<1> DEFINE kept == DOMAIN entries \ Held(k)
           others == At(entries, kept)
           young == {i \in DOMAIN others : others[i].age < 2}
           pruned == IF Len(others) < MaxEntries THEN others ELSE At(others, young)
           room == IF Len(pruned) < MaxEntries THEN pruned ELSE Tail(pruned)
           new == Entry(k, g, source, 0)
           Old(e) == \E i \in DOMAIN entries : e = entries[i]
<1>1. Stored(k, g, source) = Append(room, new) BY DEF Stored
<1>2. new \in Entries /\ new = Entry(k, g, source, 0) BY DEF Entry, Entries
<1>3. kept \subseteq DOMAIN entries OBVIOUS
<1>4. young \subseteq DOMAIN others OBVIOUS
<1> HIDE DEF kept, young, new
<1>5. /\ others \in Seq(Entries) /\ Len(others) <= MaxEntries
      /\ \A j \in DOMAIN others : Old(others[j])
  <2>1. entries \in Seq(Entries) BY DEF EntriesInv
  <2>2. /\ others \in Seq(Entries) /\ Len(others) <= Len(entries)
        /\ \A j \in DOMAIN others : \E i \in kept : others[j] = entries[i]
        BY <1>3, <2>1, AtFacts
  <2> HIDE DEF others
  <2> QED BY <1>3, <2>2
<1> HIDE DEF others
<1>6. /\ pruned \in Seq(Entries) /\ Len(pruned) <= MaxEntries
      /\ \A j \in DOMAIN pruned : Old(pruned[j])
  <2>1. /\ At(others, young) \in Seq(Entries) /\ Len(At(others, young)) <= Len(others)
        /\ \A j \in DOMAIN At(others, young) : \E i \in young : At(others, young)[j] = others[i]
        BY <1>4, <1>5, AtFacts
  <2>2. \A j \in DOMAIN At(others, young) : Old(At(others, young)[j]) BY <1>4, <1>5, <2>1
  <2> QED BY <1>5, <2>1, <2>2
<1> HIDE DEF pruned
<1>7. /\ room \in Seq(Entries) /\ Len(room) < MaxEntries
      /\ \A j \in DOMAIN room : Old(room[j])
  <2>1. CASE Len(pruned) < MaxEntries BY <1>6, <2>1
  <2>2. CASE ~(Len(pruned) < MaxEntries)
    <3>1. room = Tail(pruned) /\ pruned # <<>> BY <1>6, <2>2
    <3>2. /\ room \in Seq(Entries) /\ Len(room) = Len(pruned) - 1
          /\ \A j \in 1..Len(room) : room[j] = pruned[j + 1]
          BY <1>6, <3>1, HeadTailProperties
    <3> HIDE DEF room, Old
    <3>3. \A j \in DOMAIN room : j + 1 \in DOMAIN pruned /\ room[j] = pruned[j + 1] BY <1>6, <3>2
    <3> QED BY <1>6, <3>2, <3>3
  <2> QED BY <2>1, <2>2
<1> HIDE DEF room, Old
<1>8. /\ Append(room, new) \in Seq(Entries) /\ Len(Append(room, new)) = Len(room) + 1
      /\ \A j \in DOMAIN Append(room, new) : Append(room, new)[j] = new \/ Old(Append(room, new)[j])
      BY <1>2, <1>7
<1> QED BY <1>1, <1>2, <1>7, <1>8 DEF Old

-----------------------------------------------------------------------------
(* Every action preserves every part of the invariant                       *)

\* The steps, sorted by what they do to the callers and to the registries.
Watches == UNCHANGED <<flights, cancelled, pc, key, on, born, gen>>
Leaves(c) == pc[c] # "probing" /\ Return(c) /\ UNCHANGED <<flights, gen>>
Moves(c, k) ==
    /\ pc[c] # "probing"
    /\ \/ c \in Threads \cup Tasks /\ Goto(c, "missed") /\ key' = [key EXCEPT ![c] = k]
          /\ UNCHANGED <<on, born>>
       \/ \E f \in Callers : /\ pc[c] = "missed" /\ Goto(c, "waiting")
                             /\ on' = [on EXCEPT ![c] = f]
                             /\ UNCHANGED <<key, born>>
       \/ c \in Requests /\ Goto(c, "sent") /\ key' = [key EXCEPT ![c] = k]
          /\ born' = [born EXCEPT ![c] = gen[k]] /\ UNCHANGED on
    /\ UNCHANGED <<flights, cancelled, gen>>
Leads(c) ==
    /\ pc[c] = "missed" /\ flights[Mode(c)][key[c]] = None
    /\ flights' = [flights EXCEPT ![Mode(c)][key[c]] = c]
    /\ born' = [born EXCEPT ![c] = gen[key[c]]]
    /\ Goto(c, "probing")
    /\ UNCHANGED <<key, on, cancelled, gen>>
Finishes(c) == pc[c] = "probing" /\ Discard(c) /\ Return(c) /\ UNCHANGED gen

Kinds ==
    \/ Watches
    \/ \E c \in Callers : Leaves(c) \/ Leads(c) \/ Finishes(c) \/ \E k \in Keys : Moves(c, k)
    \/ \E ks \in InvalidationSets : Invalidate(ks)

\* These are all the kinds of steps there are.
LEMMA StepKinds == CacheInv /\ [Next]_vars => Kinds
<1> SUFFICES ASSUME CacheInv, [Next]_vars PROVE Kinds OBVIOUS
<1>0. TypeOK /\ CallerInv BY DEF CacheInv
<1>1. ASSUME NEW c \in Callers, NEW k \in Keys, Lookup(c, k)
      PROVE  Leaves(c) \/ Moves(c, k)
      BY <1>1 DEF Lookup, Leaves, Moves, Goto
<1>2. ASSUME NEW c \in Callers, NEW k \in Keys, RequestSent(c, k) PROVE Moves(c, k)
      BY <1>2 DEF RequestSent, Moves, Goto
<1>3. ASSUME NEW c \in Callers, Join(c)
      PROVE  Leaves(c) \/ Leads(c) \/ \E k \in Keys : Moves(c, k)
  <2>1. pc[c] = "missed" /\ key[c] \in Keys /\ Mode(c) \in {"sync", "async"}
        BY <1>0, <1>3 DEF Join, CallerInv, Mode
  <2> DEFINE f == flights[Mode(c)][key[c]]
  <2>2. f \in Callers \cup {None} BY <1>0, <2>1 DEF TypeOK, Callers
  <2>3. CASE f = None BY <1>3, <2>1, <2>3 DEF Join, Leads
  <2>4. CASE f # None /\ c \in Tasks /\ loop[c] # loop[f] /\ outcome[f] = "open"
        BY <1>3, <2>1, <2>4 DEF Join, Leaves
  <2>5. CASE f # None /\ ~(c \in Tasks /\ loop[c] # loop[f] /\ outcome[f] = "open")
    <3>1. /\ f \in Callers /\ on' = [on EXCEPT ![c] = f] /\ Goto(c, "waiting")
          /\ UNCHANGED <<key, born, cancelled, flights, gen>>
          BY <1>3, <2>2, <2>5 DEF Join
    <3> QED BY <2>1, <3>1 DEF Moves
  <2> QED BY <2>3, <2>4, <2>5
<1>4. ASSUME NEW c \in Callers, LeaderCompletes(c) \/ LeaderFails(c) PROVE Finishes(c)
      BY <1>4 DEF LeaderCompletes, LeaderFails, Finishes
<1>5. ASSUME NEW c \in Callers, FollowerReturns(c) \/ FollowerCancelled(c) \/ RecordResponse(c)
      PROVE  Leaves(c)
      BY <1>5 DEF FollowerReturns, FollowerCancelled, RecordResponse, Leaves
<1>6. ASSUME NEW c \in Callers, CompleteCancelled(c) PROVE Watches
      BY <1>6 DEF CompleteCancelled, Watches
<1>7. ASSUME NEW k \in Keys, Peek(k) \/ Expire(k) PROVE Watches
      BY <1>7 DEF Peek, Expire, Watches
<1>8. CASE UNCHANGED vars BY <1>8 DEF vars, Watches, Kinds
<1> QED BY <1>1, <1>2, <1>3, <1>4, <1>5, <1>6, <1>7, <1>8 DEF Next, CallerStep, Kinds

\* invalidate cancels the flights of its keys and no others.
LEMMA InvalidateFacts ==
    ASSUME TypeOK, NEW ks, ks \subseteq Keys, Invalidate(ks)
    PROVE  /\ \A c \in Callers : cancelled'[c] <=>
                 \/ cancelled[c]
                 \/ \E m \in {"sync", "async"}, k \in ks : flights[m][k] = c
           /\ \A m \in {"sync", "async"}, k \in Keys :
                 flights'[m][k] = IF k \in ks THEN None ELSE flights[m][k]
           /\ \A k \in Keys : k \notin ks => gen'[k] = gen[k]
           /\ UNCHANGED <<pc, key, on, born>>
<1> USE CapabilityCacheAssumption
<1>1. ASSUME NEW c \in Callers
      PROVE  cancelled'[c] <=> cancelled[c] \/ c \in Registered("sync", ks) \cup Registered("async", ks)
      BY DEF Invalidate
<1>2. ASSUME NEW c \in Callers
      PROVE  c \in Registered("sync", ks) \cup Registered("async", ks)
                <=> \E m \in {"sync", "async"}, k \in ks : flights[m][k] = c
      BY DEF Registered
<1>3. DOMAIN flights = {"sync", "async"} BY DEF TypeOK
<1>4. /\ \A m \in {"sync", "async"}, k \in Keys :
            flights'[m][k] = IF k \in ks THEN None ELSE flights[m][k]
      /\ \A k \in Keys : k \notin ks => gen'[k] = gen[k]
      /\ UNCHANGED <<pc, key, on, born>>
      BY <1>3 DEF Invalidate
<1> QED BY <1>1, <1>2, <1>4

\* Keys are invalidated by the operation or all together.
LEMMA InvalidationKeys == \A ks \in InvalidationSets : ks \subseteq Keys
BY DEF InvalidationSets, Keys

\* The invariant holds at first.
LEMMA InitInv == Init => CacheInv
<1> SUFFICES ASSUME Init PROVE CacheInv OBVIOUS
<1> USE CapabilityCacheAssumption
<1>1. EntriesInv /\ DOMAIN entries = {} /\ Len(entries) = 0 BY DEF Init, EntriesInv
<1>2. cancelled \in [Callers -> BOOLEAN] BY DEF Init
<1>3. TypeOK BY <1>1, <1>2 DEF Init, TypeOK
<1>4. \A c \in Callers : cancelled[c] = FALSE /\ pc[c] = "idle" BY DEF Init
<1>5. CallerInv BY <1>4 DEF CallerInv
<1>6. FlightInv BY DEF Init, FlightInv
<1>7. LeaderInv BY <1>4 DEF LeaderInv
<1>8. AnswerInv BY <1>1 DEF AnswerInv
<1> QED BY <1>1, <1>3, <1>5, <1>6, <1>7, <1>8 DEF CacheInv

\* Every step keeps what callers have in their hands.
LEMMA CallerStepInv == CacheInv /\ [Next]_vars => CallerInv'
<1> SUFFICES ASSUME CacheInv, [Next]_vars PROVE CallerInv' OBVIOUS
<1>0. TypeOK /\ CallerInv /\ FlightInv BY DEF CacheInv
<1>1. CASE Watches BY <1>0, <1>1 DEF CallerInv, Watches
<1>2. ASSUME NEW c \in Callers, Leaves(c) PROVE CallerInv'
      BY <1>0, <1>2 DEF CallerInv, Leaves, Return, Goto, TypeOK
<1>3. ASSUME NEW c \in Callers, NEW k \in Keys, Moves(c, k) PROVE CallerInv'
  <2>1. /\ pc'[c] \in {"missed", "waiting"} => c \in Threads \cup Tasks
        /\ key'[c] \in Keys /\ pc'[c] # "probing" /\ cancelled' = cancelled
        /\ pc'[c] = "waiting" => on'[c] \in Callers
        BY <1>0, <1>3 DEF CallerInv, Moves, Goto, TypeOK
  <2>2. ~cancelled[c] BY <1>0, <1>3 DEF CallerInv, Moves
  <2>3. \A d \in Callers : d # c => pc'[d] = pc[d] /\ key'[d] = key[d] /\ on'[d] = on[d]
        BY <1>0, <1>3 DEF Moves, Goto, TypeOK
  <2> QED BY <1>0, <2>1, <2>2, <2>3 DEF CallerInv
<1>4. ASSUME NEW c \in Callers, Leads(c) PROVE CallerInv'
      BY <1>0, <1>4 DEF CallerInv, Leads, Goto, TypeOK
<1>5. ASSUME NEW c \in Callers, Finishes(c) PROVE CallerInv'
      BY <1>0, <1>5 DEF CallerInv, Finishes, Return, Goto, TypeOK
<1>6. ASSUME NEW ks \in InvalidationSets, Invalidate(ks) PROVE CallerInv'
  <2>1. ks \subseteq Keys BY InvalidationKeys
  <2>2. \A m \in {"sync", "async"}, k \in ks, c \in Callers :
            flights[m][k] = c => pc[c] = "probing"
        BY <1>0, <2>1, CapabilityCacheAssumption DEF FlightInv
  <2>3. \A c \in Callers : cancelled'[c] => pc[c] = "probing"
        BY <1>0, <1>6, <2>1, <2>2, InvalidateFacts DEF CallerInv
  <2>4. UNCHANGED <<pc, key, on>> BY <1>6 DEF Invalidate
  <2> QED BY <1>0, <2>3, <2>4 DEF CallerInv
<1> QED BY <1>1, <1>2, <1>3, <1>4, <1>5, <1>6, StepKinds DEF Kinds

\* Every step registers, keeps or discards flights as they deserve.
LEMMA FlightStep == CacheInv /\ [Next]_vars => FlightInv'
<1> SUFFICES ASSUME CacheInv, [Next]_vars PROVE FlightInv' OBVIOUS
<1> USE CapabilityCacheAssumption
<1>0. TypeOK /\ CallerInv /\ FlightInv BY DEF CacheInv
<1>1. CASE Watches BY <1>0, <1>1 DEF FlightInv, Watches
<1>2. ASSUME NEW c \in Callers, Leaves(c) PROVE FlightInv'
      BY <1>0, <1>2 DEF FlightInv, Leaves, Return, Goto, TypeOK, Callers
<1>3. ASSUME NEW c \in Callers, NEW k \in Keys, Moves(c, k) PROVE FlightInv'
      BY <1>0, <1>3 DEF FlightInv, Moves, Goto, TypeOK, Callers
<1>4. ASSUME NEW c \in Callers, Leads(c) PROVE FlightInv'
      BY <1>0, <1>4 DEF FlightInv, CallerInv, Leads, Goto, TypeOK, Callers
<1>5. ASSUME NEW c \in Callers, Finishes(c) PROVE FlightInv'
  <2>1. key[c] \in Keys /\ Mode(c) \in {"sync", "async"} BY <1>0, <1>5 DEF Finishes, CallerInv, Mode
  <2>2. \A m \in {"sync", "async"}, k \in Keys :
            flights'[m][k] = IF m = Mode(c) /\ k = key[c] /\ flights[m][k] = c
                             THEN None ELSE flights[m][k]
        BY <1>0, <1>5, <2>1 DEF Finishes, Discard, TypeOK
  <2>3. \A d \in Callers : d # c =>
            /\ pc'[d] = pc[d] /\ key'[d] = key[d] /\ born'[d] = born[d]
            /\ cancelled'[d] = cancelled[d]
        BY <1>0, <1>5 DEF Finishes, Return, Goto, TypeOK
  <2>4. gen' = gen BY <1>5 DEF Finishes
  <2>5. \A m \in {"sync", "async"}, k \in Keys :
            flights[m][k] \in Callers \cup {None} BY <1>0 DEF TypeOK, Callers
  <2>6. \A m \in {"sync", "async"}, k \in Keys : flights'[m][k] # c
        BY <1>0, <2>1, <2>2 DEF FlightInv
  <2> QED BY <1>0, <2>2, <2>3, <2>4, <2>5, <2>6 DEF FlightInv, Mode
<1>6. ASSUME NEW ks \in InvalidationSets, Invalidate(ks) PROVE FlightInv'
  <2>1. ks \subseteq Keys BY InvalidationKeys
  <2> SUFFICES ASSUME NEW m \in {"sync", "async"}, NEW k \in Keys, flights'[m][k] # None
               PROVE  LET f == flights'[m][k] IN
                      /\ Mode(f) = m /\ pc'[f] = "probing" /\ key'[f] = k /\ ~cancelled'[f]
                      /\ born'[f] = gen'[k]
      BY DEF FlightInv, Mode
  <2> DEFINE f == flights[m][k]
  <2>2. k \notin ks /\ flights'[m][k] = f /\ f # None BY <1>0, <1>6, <2>1, InvalidateFacts
  <2>3. /\ f \in Callers /\ Mode(f) = m /\ pc[f] = "probing" /\ key[f] = k /\ ~cancelled[f]
        /\ born[f] = gen[k]
        BY <1>0, <2>2 DEF FlightInv, TypeOK, Callers
  <2>4. \A l \in {"sync", "async"}, h \in ks : flights[l][h] # f
        BY <1>0, <2>1, <2>2, <2>3 DEF FlightInv
  <2> QED BY <1>0, <1>6, <2>1, <2>2, <2>3, <2>4, InvalidateFacts
<1> QED BY <1>1, <1>2, <1>3, <1>4, <1>5, <1>6, StepKinds DEF Kinds

\* No step forgets a probe that is under way, unless it cancels it.
LEMMA LeaderStep == CacheInv /\ [Next]_vars => LeaderInv'
<1> SUFFICES ASSUME CacheInv, [Next]_vars PROVE LeaderInv' OBVIOUS
<1> USE CapabilityCacheAssumption
<1>0. TypeOK /\ CallerInv /\ FlightInv /\ LeaderInv BY DEF CacheInv
<1>1. CASE Watches BY <1>0, <1>1 DEF LeaderInv, Watches
<1>2. ASSUME NEW c \in Callers, Leaves(c) PROVE LeaderInv'
      BY <1>0, <1>2 DEF LeaderInv, Leaves, Return, Goto, TypeOK
<1>3. ASSUME NEW c \in Callers, NEW k \in Keys, Moves(c, k) PROVE LeaderInv'
      BY <1>0, <1>3 DEF LeaderInv, Moves, Goto, TypeOK
<1>4. ASSUME NEW c \in Callers, Leads(c) PROVE LeaderInv'
      BY <1>0, <1>4 DEF LeaderInv, CallerInv, Leads, Goto, TypeOK, Mode
<1>5. ASSUME NEW c \in Callers, Finishes(c) PROVE LeaderInv'
      BY <1>0, <1>5 DEF LeaderInv, CallerInv, Finishes, Discard, Return, Goto, TypeOK, Mode
<1>6. ASSUME NEW ks \in InvalidationSets, Invalidate(ks) PROVE LeaderInv'
  <2>1. ks \subseteq Keys BY InvalidationKeys
  <2>2. \A c \in Callers : Mode(c) \in {"sync", "async"} BY DEF Mode
  <2> QED BY <1>0, <1>6, <2>1, <2>2, InvalidateFacts DEF LeaderInv, CallerInv
<1> QED BY <1>1, <1>2, <1>3, <1>4, <1>5, <1>6, StepKinds DEF Kinds

\* Every step leaves a sequence of entries within the bound.
LEMMA EntriesStep == CacheInv /\ [Next]_vars => EntriesInv' /\ Len(entries') <= MaxEntries
<1> SUFFICES ASSUME CacheInv, [Next]_vars PROVE EntriesInv' /\ Len(entries') <= MaxEntries OBVIOUS
<1> USE CapabilityCacheAssumption
<1>0. TypeOK /\ EntriesInv /\ CallerInv /\ Len(entries) <= MaxEntries BY DEF CacheInv, TypeOK
<1>1. ASSUME NEW k, entries' = Swept(k) PROVE EntriesInv' /\ Len(entries') <= MaxEntries
      BY <1>0, <1>1, SweptFacts DEF EntriesInv
<1>2. ASSUME NEW c \in Callers, pc[c] \in {"probing", "sent"}, NEW source \in {"probe", "response"},
             entries' = Stored(key[c], born[c], source)
      PROVE  EntriesInv' /\ Len(entries') <= MaxEntries
  <2>1. key[c] \in Keys /\ born[c] \in 0..MaxInvalidations BY <1>0, <1>2 DEF CallerInv, TypeOK
  <2> QED BY <1>0, <1>2, <2>1, StoredFacts DEF EntriesInv
<1>3. ASSUME NEW ks \in InvalidationSets, Invalidate(ks) PROVE EntriesInv' /\ Len(entries') <= MaxEntries
  <2> DEFINE I == {i \in DOMAIN entries : entries[i].key \notin ks}
  <2>1. entries' = At(entries, I) BY <1>3 DEF Invalidate
  <2>2. I \subseteq DOMAIN entries OBVIOUS
  <2> HIDE DEF I
  <2> QED BY <1>0, <2>1, <2>2, AtFacts DEF EntriesInv
<1>4. ASSUME NEW k \in Keys, Expire(k) PROVE EntriesInv' /\ Len(entries') <= MaxEntries
  <2>1. PICK i \in DOMAIN entries : entries[i].age < 2 /\ entries' = [entries EXCEPT ![i].age = @ + 1]
        BY <1>4 DEF Expire, Held
  <2>2. entries[i] \in Entries BY <1>0 DEF EntriesInv
  <2>3. [entries[i] EXCEPT !.age = @ + 1] \in Entries BY <2>1, <2>2 DEF Entries
  <2>4. entries' = [entries EXCEPT ![i] = [entries[i] EXCEPT !.age = @ + 1]] BY <2>1
  <2> QED BY <1>0, <2>3, <2>4 DEF EntriesInv
<1>5. CASE UNCHANGED entries BY <1>0, <1>5 DEF EntriesInv
<1>6. CASE UNCHANGED vars BY <1>5, <1>6 DEF vars
<1> QED BY <1>1, <1>2, <1>3, <1>4, <1>5, <1>6
        DEF Next, CallerStep, Lookup, RequestSent, Join, LeaderCompletes, LeaderFails, FollowerReturns,
            FollowerCancelled, CompleteCancelled, RecordResponse, Peek

\* Every step keeps only answers that no invalidation has overtaken.
LEMMA AnswerStep == CacheInv /\ [Next]_vars => AnswerInv'
<1> SUFFICES ASSUME CacheInv, [Next]_vars PROVE AnswerInv' OBVIOUS
<1> USE CapabilityCacheAssumption
<1>0. TypeOK /\ EntriesInv /\ CallerInv /\ FlightInv /\ LeaderInv /\ AnswerInv BY DEF CacheInv
<1>1. ASSUME NEW k, entries' = Swept(k), gen' = gen PROVE AnswerInv'
      BY <1>0, <1>1, SweptFacts DEF AnswerInv
<1>2. ASSUME NEW c \in Callers, pc[c] \in {"probing", "sent"}, NEW source \in {"probe", "response"},
             source = "probe" => pc[c] = "probing" /\ ~cancelled[c],
             entries' = Stored(key[c], born[c], source), gen' = gen
      PROVE  AnswerInv'
  <2>1. key[c] \in Keys /\ born[c] \in 0..MaxInvalidations /\ Mode(c) \in {"sync", "async"}
        BY <1>0, <1>2 DEF CallerInv, TypeOK, Mode
  <2>2. source = "probe" => born[c] = gen[key[c]] BY <1>0, <1>2, <2>1 DEF LeaderInv, FlightInv
  <2>3. \A j \in DOMAIN entries' : \/ entries'[j] = Entry(key[c], born[c], source, 0)
                                   \/ \E i \in DOMAIN entries : entries'[j] = entries[i]
        BY <1>0, <1>2, <2>1, StoredFacts DEF TypeOK
  <2> QED BY <1>0, <1>2, <2>2, <2>3 DEF AnswerInv, Entry
<1>3. ASSUME NEW ks \in InvalidationSets, Invalidate(ks) PROVE AnswerInv'
  <2> DEFINE I == {i \in DOMAIN entries : entries[i].key \notin ks}
  <2>1. entries' = At(entries, I) BY <1>3 DEF Invalidate
  <2>2. I \subseteq DOMAIN entries /\ \A i \in I : entries[i].key \notin ks OBVIOUS
  <2> HIDE DEF I
  <2>3. \A j \in DOMAIN entries' : \E i \in I : entries'[j] = entries[i]
        BY <1>0, <2>1, <2>2, AtFacts DEF EntriesInv
  <2>4. \A k \in Keys : k \notin ks => gen'[k] = gen[k] BY <1>3 DEF Invalidate
  <2>5. \A i \in DOMAIN entries : entries[i].key \in Keys BY <1>0 DEF TypeOK
  <2> QED BY <1>0, <2>2, <2>3, <2>4, <2>5 DEF AnswerInv
<1>4. ASSUME NEW k \in Keys, Expire(k) PROVE AnswerInv'
  <2>1. PICK i \in DOMAIN entries : entries' = [entries EXCEPT ![i].age = @ + 1]
        BY <1>4 DEF Expire, Held
  <2>2. gen' = gen BY <1>4 DEF Expire
  <2>3. entries \in Seq(Entries) BY <1>0 DEF EntriesInv
  <2>4. \A j \in DOMAIN entries' : /\ j \in DOMAIN entries
                                   /\ entries'[j].by = entries[j].by /\ entries'[j].born = entries[j].born
                                   /\ entries'[j].key = entries[j].key
        BY <2>1, <2>3 DEF Entries
  <2> QED BY <1>0, <2>2, <2>4 DEF AnswerInv
<1>5. CASE UNCHANGED <<entries, gen>> BY <1>0, <1>5 DEF AnswerInv
<1>6. CASE UNCHANGED vars BY <1>5, <1>6 DEF vars
<1> QED BY <1>1, <1>2, <1>3, <1>4, <1>5, <1>6
        DEF Next, CallerStep, Lookup, RequestSent, Join, LeaderCompletes, LeaderFails, FollowerReturns,
            FollowerCancelled, CompleteCancelled, RecordResponse, Peek

\* Every step keeps the types.
LEMMA TypeStep == CacheInv /\ [Next]_vars => TypeOK'
<1> SUFFICES ASSUME CacheInv, [Next]_vars PROVE TypeOK' OBVIOUS
<1> USE CapabilityCacheAssumption
<1>0. TypeOK /\ CallerInv /\ FlightInv BY DEF CacheInv
<1>1. EntriesInv' /\ Len(entries') <= MaxEntries BY EntriesStep
<1>2. \A i \in DOMAIN entries' : entries'[i] \in Entries BY <1>1 DEF EntriesInv
<1> DEFINE CallersOK == /\ flights' \in [{"sync", "async"} -> [Keys -> Threads \cup Tasks \cup {None}]]
                        /\ cancelled' \in [Callers -> BOOLEAN]
                        /\ pc' \in [Callers -> {"idle", "missed", "probing", "waiting", "sent", "done"}]
                        /\ key' \in [Callers -> Keys \cup {None}]
                        /\ on' \in [Callers -> Callers \cup {None}]
                        /\ born' \in [Callers -> 0 .. MaxInvalidations]
                        /\ gen' \in [Keys -> 0 .. MaxInvalidations]
<1>3. CallersOK
  <2>1. CASE Watches BY <1>0, <2>1 DEF Watches, TypeOK
  <2>2. ASSUME NEW c \in Callers, Leaves(c) PROVE CallersOK
    <3>1. cancelled' \in [Callers -> BOOLEAN] BY <1>0, <2>2 DEF Leaves, Return, TypeOK
    <3> QED BY <1>0, <2>2, <3>1 DEF Leaves, Return, Goto, TypeOK
  <2>3. ASSUME NEW c \in Callers, NEW k \in Keys, Moves(c, k) PROVE CallersOK
    <3>1. UNCHANGED <<flights, cancelled, gen>> BY <2>3 DEF Moves
    <3>2. pc' \in [Callers -> {"idle", "missed", "probing", "waiting", "sent", "done"}]
      <4>1. \E l \in {"missed", "waiting", "sent"} : pc' = [pc EXCEPT ![c] = l]
            BY <2>3, Zenon DEF Moves, Goto
      <4> QED BY <1>0, <4>1 DEF TypeOK
    <3>3. key' \in [Callers -> Keys \cup {None}]
      <4>1. key' = key \/ key' = [key EXCEPT ![c] = k] BY <2>3 DEF Moves
      <4>2. key \in [Callers -> Keys \cup {None}] BY <1>0 DEF TypeOK
      <4> QED BY <4>1, <4>2
    <3>4. on' \in [Callers -> Callers \cup {None}] BY <1>0, <2>3 DEF Moves, TypeOK
    <3>5. born' \in [Callers -> 0 .. MaxInvalidations] BY <1>0, <2>3 DEF Moves, TypeOK
    <3> QED BY <1>0, <3>1, <3>2, <3>3, <3>4, <3>5 DEF TypeOK
  <2>4. ASSUME NEW c \in Callers, Leads(c) PROVE CallersOK
    <3>1. c \in Threads \cup Tasks /\ key[c] \in Keys /\ Mode(c) \in {"sync", "async"}
          BY <1>0, <2>4 DEF Leads, CallerInv, Mode
    <3> QED BY <1>0, <2>4, <3>1 DEF Leads, Goto, TypeOK
  <2>5. ASSUME NEW c \in Callers, Finishes(c) PROVE CallersOK
    <3>1. cancelled' \in [Callers -> BOOLEAN] BY <1>0, <2>5 DEF Finishes, Return, TypeOK
    <3>2. flights' \in [{"sync", "async"} -> [Keys -> Threads \cup Tasks \cup {None}]]
      <4> DEFINE m == Mode(c)
                 v == IF flights[m][key[c]] = c THEN None ELSE flights[m][key[c]]
      <4>1. m \in {"sync", "async"} /\ key[c] \in Keys BY <1>0, <2>5 DEF Finishes, CallerInv, Mode
      <4>2. v \in Threads \cup Tasks \cup {None} BY <1>0, <4>1 DEF TypeOK
      <4>3. flights' = [flights EXCEPT ![m] = [flights[m] EXCEPT ![key[c]] = v]]
            BY <2>5 DEF Finishes, Discard
      <4> HIDE DEF m, v
      <4> QED BY <1>0, <4>1, <4>2, <4>3 DEF TypeOK
    <3> QED BY <1>0, <2>5, <3>1, <3>2 DEF Finishes, Return, Goto, TypeOK
  <2>6. ASSUME NEW ks \in InvalidationSets, Invalidate(ks) PROVE CallersOK
    <3>1. gen' \in [Keys -> 0 .. MaxInvalidations] BY <1>0, <2>6 DEF Invalidate, TypeOK
    <3>2. cancelled' \in [Callers -> BOOLEAN] BY <2>6 DEF Invalidate
    <3>3. flights' \in [{"sync", "async"} -> [Keys -> Threads \cup Tasks \cup {None}]]
          BY <1>0, <2>6 DEF Invalidate, TypeOK
    <3> QED BY <1>0, <2>6, <3>1, <3>2, <3>3 DEF Invalidate, TypeOK
  <2> QED BY <2>1, <2>2, <2>3, <2>4, <2>5, <2>6, StepKinds DEF Kinds
<1>4. outcome' \in [Callers -> {"open", "profile", "error", "cancelled"}]
  <2>1. \A c, what : Publish(c, what) /\ what \in {"profile", "error", "cancelled"} =>
            outcome' \in [Callers -> {"open", "profile", "error", "cancelled"}]
        BY <1>0 DEF Publish, TypeOK
  <2>2. ASSUME NEW ks \in InvalidationSets, Invalidate(ks)
        PROVE  outcome' \in [Callers -> {"open", "profile", "error", "cancelled"}]
        BY <1>0, <2>2 DEF Invalidate, TypeOK
  <2>3. CASE UNCHANGED outcome BY <1>0, <2>3 DEF TypeOK
  <2>4. CASE UNCHANGED vars BY <2>3, <2>4 DEF vars
  <2> QED BY <2>1, <2>2, <2>3, <2>4
          DEF Next, CallerStep, Lookup, RequestSent, Join, LeaderCompletes, LeaderFails,
              FollowerReturns, FollowerCancelled, CompleteCancelled, RecordResponse, Peek, Expire
<1>5. scheduled' \subseteq Tasks
  <2>1. ASSUME NEW ks \in InvalidationSets, Invalidate(ks) PROVE scheduled' \subseteq Tasks
    <3>1. ks \subseteq Keys BY InvalidationKeys
    <3>2. Registered("async", ks) \subseteq Tasks
          BY <1>0, <3>1 DEF Registered, FlightInv, TypeOK, Mode
    <3> QED BY <1>0, <2>1, <3>2 DEF Invalidate, TypeOK
  <2>2. CASE \E f \in Callers : CompleteCancelled(f) BY <1>0, <2>2 DEF CompleteCancelled, TypeOK
  <2>3. CASE UNCHANGED scheduled BY <1>0, <2>3 DEF TypeOK
  <2>4. CASE UNCHANGED vars BY <2>3, <2>4 DEF vars
  <2> QED BY <2>1, <2>2, <2>3, <2>4
          DEF Next, CallerStep, Lookup, RequestSent, Join, LeaderCompletes, LeaderFails,
              FollowerReturns, FollowerCancelled, RecordResponse, Peek, Expire
<1>6. loop' \in Placements
  <2>1. loop' = loop
        BY DEF vars, Next, CallerStep, Lookup, RequestSent, Join, LeaderCompletes, LeaderFails,
               FollowerReturns, FollowerCancelled, CompleteCancelled, RecordResponse, Peek, Expire,
               Invalidate
  <2> QED BY <1>0, <2>1 DEF TypeOK
<1> QED BY <1>1, <1>2, <1>3, <1>4, <1>5, <1>6 DEF TypeOK, Entries

-----------------------------------------------------------------------------
(* The theorems                                                             *)

\* The cache keeps its inductive invariant.
THEOREM CacheInvariance == Spec => []CacheInv
<1>1. CacheInv /\ [Next]_vars => CacheInv'
      BY TypeStep, EntriesStep, CallerStepInv, FlightStep, LeaderStep, AnswerStep DEF CacheInv
<1> QED BY <1>1, InitInv, PTL DEF Spec

\* invalidate is final: whatever the callers' interleaving, no answer of a probe
\* that began before an invalidation is in the cache, or can be joined, after it.
THEOREM InvalidationIsFinal == Spec => []NoProbeOutlivesInvalidation
<1>1. CacheInv => NoProbeOutlivesInvalidation
  <2> SUFFICES ASSUME CacheInv PROVE NoProbeOutlivesInvalidation OBVIOUS
  <2>1. DOMAIN flights = {"sync", "async"} BY DEF CacheInv, TypeOK
  <2> QED BY <2>1 DEF CacheInv, FlightInv, AnswerInv, NoProbeOutlivesInvalidation
<1> QED BY <1>1, CacheInvariance, PTL

\* The registries hold exactly the flights that are probing and still wanted, and
\* the cache never exceeds its bound.
THEOREM RegistriesAreExact == Spec => []RegistryIsExact
<1>1. CacheInv => RegistryIsExact
  <2> SUFFICES ASSUME CacheInv PROVE RegistryIsExact OBVIOUS
  <2>1. TypeOK /\ CallerInv /\ FlightInv /\ LeaderInv BY DEF CacheInv
  <2>2. ASSUME NEW c \in Threads \cup Tasks, pc[c] = "probing", ~cancelled[c]
        PROVE  \E k \in Keys : k = key[c] /\ flights[Mode(c)][k] = c
        BY <2>1, <2>2 DEF CallerInv, LeaderInv, Callers
  <2>3. ASSUME NEW c \in Threads \cup Tasks, NEW k \in Keys, k = key[c], flights[Mode(c)][k] = c
        PROVE  pc[c] = "probing" /\ ~cancelled[c]
    <3>1. Mode(c) \in {"sync", "async"} /\ c # None
          BY CapabilityCacheAssumption DEF Mode, Callers
    <3> QED BY <2>1, <2>3, <3>1 DEF FlightInv
  <2> QED BY <2>1, <2>2, <2>3 DEF RegistryIsExact
<1> QED BY <1>1, CacheInvariance, PTL

=============================================================================
