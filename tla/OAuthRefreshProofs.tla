------------------------- MODULE OAuthRefreshProofs -------------------------
(***************************************************************************)
(* Proofs about OAuthRefresh, for any number of calls on any threads and   *)
(* event loops, any number of tokens and of faults.                        *)
(***************************************************************************)
EXTENDS OAuthRefresh, FiniteSetTheorems, TLAPS

Inside == {"enter", "flight", "answered"}

-----------------------------------------------------------------------------
(* The inductive invariant                                                  *)

\* What a call has in its hands at each place.
CallInv ==
    /\ \A c \in Calls : pc[c] = "idle" \/ style[c] = "sync" => mine[c] = None
    /\ \A c \in Calls : pc[c] = "idle" => style[c] = "async"
    /\ \A c \in Calls : pc[c] # "idle" /\ style[c] = "async" => mine[c] # None
    /\ \A c \in InFlight : presented[c] \in Tokens
    /\ \A c \in Calls : pc[c] # "answered" => answer[c] = NoAnswer

\* The asyncio lock excludes; unless one in use was replaced, there is only one.
AsyncLockInv ==
    /\ \A c, d \in Calls :
          pc[c] \in Inside /\ pc[d] \in Inside /\ mine[c] = mine[d] /\ mine[c] # None => c = d
    /\ lock = None => lockLoop = None
    /\ ~displaced => \A c \in Calls : mine[c] \in {None, lock}

\* The re-entrant lock belongs to the thread of the requests under way, all of the
\* transport's kind.
ThreadLockInv ==
    /\ \A c \in InFlight : owner = Thread[c] /\ style[c] = transport
    /\ InFlight = {} => owner = None

\* A thread that waits for the re-entrant lock, or for a synchronous answer, does
\* nothing else.
ThreadInv ==
    \A c, d \in Calls : c # d /\ Thread[c] = Thread[d] =>
        /\ pc[c] = "enter" => pc[d] # "enter" /\ ~(style[d] = "sync" /\ d \in InFlight)
        /\ c \in InFlight /\ d \in InFlight => style[c] = "async"

\* As long as requests do not overlap, an answer carries the token the server
\* accepts, and the stored token is this one or is about to be.
TokenInv ==
    ~displaced =>
        /\ \A c \in Calls : pc[c] = "answered" => answer[c].refresh \in {None, issued}
        /\ token # issued /\ ~spoiled =>
              \E c \in Calls : pc[c] = "answered" /\ answer[c] = Granted(issued)

\* TrialHasRequest
TrialInv == \A k \in trials \ stuck : \E c \in InFlight : presented[c] = k

RefreshInv ==
    TypeOK /\ CallInv /\ AsyncLockInv /\ ThreadLockInv /\ ThreadInv /\ TokenInv /\ TrialInv

-----------------------------------------------------------------------------
(* Locks and requests                                                       *)

\* A loop that calls for the first time finds a lock nobody refers to.
LEMMA NewLockIsNew ==
    ASSUME NEW c \in Calls, mine[c] = None
    PROVE  NewLock \in Locks /\ NewLock \notin Referenced
<1> USE OAuthRefreshAssumption
<1>1. IsFiniteSet(Calls) /\ Cardinality(Calls) \in Nat BY FS_CardinalityType
<1>2. IsFiniteSet(Locks) /\ Cardinality(Locks) = Cardinality(Calls) + 1
  <2>1. ASSUME NEW n \in Nat PROVE IsFiniteSet(0..n) /\ Cardinality(0..n) = n + 1 BY FS_Interval
  <2> QED BY <1>1, <2>1 DEF Locks
<1>3. \E k \in Locks : k \notin Referenced
  <2> SUFFICES ASSUME \A k \in Locks : k \in Referenced PROVE FALSE OBVIOUS
  <2> DEFINE f == [k \in Locks |-> IF k = lock THEN c ELSE CHOOSE d \in Calls : mine[d] = k]
  <2>1. ASSUME NEW k \in Locks PROVE f[k] \in Calls /\ (k # lock => mine[f[k]] = k) /\ (k = lock => f[k] = c)
    <3>1. k # lock => \E d \in Calls : mine[d] = k BY DEF Referenced
    <3> QED BY <3>1
  <2>2. f \in [Locks -> Calls] BY <2>1
  <2> HIDE DEF f
  <2>3. Cardinality(Calls) < Cardinality(Locks) BY <1>1, <1>2
  <2>4. PICK x, y \in Locks : x # y /\ f[x] = f[y] BY <1>1, <1>2, <2>2, <2>3, FS_PigeonHole
  <2> QED BY <2>1, <2>4
<1> QED BY <1>3 DEF NewLock

\* The requests under way after a step of one call.
LEMMA FlightFacts ==
    ASSUME TypeOK, NEW c \in Calls, NEW l, pc' = [pc EXCEPT ![c] = l]
    PROVE  /\ l \in {"idle", "wait", "enter"} => InFlight' = InFlight \ {c}
           /\ l \in {"flight", "answered"} => InFlight' = InFlight \cup {c}
           /\ l \in {"idle", "wait", "enter"} /\ c \notin InFlight => InFlight' = InFlight
           /\ l \in {"flight", "answered"} /\ c \in InFlight => InFlight' = InFlight
<1>1. l \in {"idle", "wait", "enter"} => InFlight' = InFlight \ {c} BY DEF TypeOK, InFlight
<1>2. l \in {"flight", "answered"} => InFlight' = InFlight \cup {c} BY DEF TypeOK, InFlight
<1>3. c \notin InFlight => InFlight \ {c} = InFlight OBVIOUS
<1>4. c \in InFlight => InFlight \cup {c} = InFlight OBVIOUS
<1> QED BY <1>1, <1>2, <1>3, <1>4

\* Sets of requests are finite, and counted one by one.
LEMMA CountFacts ==
    ASSUME NEW S, S \subseteq Calls, NEW c
    PROVE  /\ IsFiniteSet(S) /\ Cardinality(S) \in Nat /\ (Cardinality(S) = 0 <=> S = {})
           /\ c \notin S => Cardinality(S \cup {c}) = Cardinality(S) + 1
           /\ c \in S => Cardinality(S \ {c}) = Cardinality(S) - 1
<1>1. S \in SUBSET Calls OBVIOUS
<1>2. IsFiniteSet(S) BY <1>1, OAuthRefreshAssumption, FS_Subset
<1> QED BY <1>2, FS_CardinalityType, FS_EmptySet, FS_AddElement, FS_RemoveElement

-----------------------------------------------------------------------------
(* Every action preserves every part of the invariant                       *)

\* The steps, sorted by what they do to the calls: a call comes in, returns before
\* its request, sends it, gets its answer, or returns after it; and time passes.
Enters(c) == Resolve(c) \/ ResolveAsync(c) \/ AcquireAsync(c)
Turns(c)  == ResolveStored(c) \/ CancelWaiting(c)
Leaves(c) == Settle(c) \/ Abandon(c) \/ CancelRequest(c)
Ages      == Expire \/ (\E k \in Tokens : CoolDown(k)) \/ UNCHANGED vars

\* These are all the steps there are.
LEMMA StepKinds ==
    [Next]_vars => Ages \/ \E c \in Calls : Enters(c) \/ Turns(c) \/ Refresh(c) \/ Answer(c) \/ Leaves(c)
BY DEF Next, Step, Enters, Turns, Leaves, Ages

\* What every step of a kind does, whichever action it is.
LEMMA KindFacts ==
    ASSUME NEW c \in Calls
    PROVE  /\ Enters(c) => /\ pc[c] \in {"idle", "wait"} /\ Runs(c)
                           /\ \E l \in {"wait", "enter"} : pc' = [pc EXCEPT ![c] = l]
                           /\ UNCHANGED <<transport, credential, issued, owner, depth, circuit,
                                          presented, answer, spoiled, stuck, faults>>
           /\ Turns(c) => /\ pc[c] \in {"wait", "enter"} /\ Return(c)
                          /\ UNCHANGED <<transport, credential, issued, locking, owner, depth,
                                         circuit, spoiled, stuck>>
           /\ Leaves(c) => /\ c \in InFlight /\ Return(c) /\ Exit
                           /\ UNCHANGED <<transport, issued, locking>>
<1>1. Enters(c) => /\ pc[c] \in {"idle", "wait"} /\ Runs(c)
                   /\ \E l \in {"wait", "enter"} : pc' = [pc EXCEPT ![c] = l]
                   /\ UNCHANGED <<transport, credential, issued, owner, depth, circuit,
                                  presented, answer, spoiled, stuck, faults>>
      BY DEF Enters, Resolve, ResolveAsync, AcquireAsync
<1>2. Turns(c) => /\ pc[c] \in {"wait", "enter"} /\ Return(c)
                  /\ UNCHANGED <<transport, credential, issued, locking, owner, depth,
                                 circuit, spoiled, stuck>>
      BY DEF Turns, ResolveStored, CancelWaiting
<1>3. Leaves(c) => /\ c \in InFlight /\ Return(c) /\ Exit
                   /\ UNCHANGED <<transport, issued, locking>>
      BY DEF Leaves, Settle, Abandon, CancelRequest, InFlight
<1> QED BY <1>1, <1>2, <1>3

\* Time touches the access token and the cooldowns only.
LEMMA AgesFacts ==
    Ages => UNCHANGED <<transport, token, issued, lockLoop, lock, displaced, owner, depth, failures,
                        trials, pc, style, mine, presented, answer, spoiled, stuck, faults>>
BY DEF Ages, Expire, CoolDown, vars, locking, credential, circuit

\* The lock and the place of a call that comes in.
LEMMA EntersFacts ==
    ASSUME RefreshInv, NEW c \in Calls, Enters(c)
    PROVE  /\ style' \in [Calls -> {"sync", "async"}] /\ mine' \in [Calls -> Locks \cup {None}]
           /\ lock' \in Locks \cup {None} /\ lockLoop' \in Threads \cup {None} /\ displaced' \in BOOLEAN
           /\ lock' = None => lockLoop' = None
           /\ \A d \in Calls : d # c => style'[d] = style[d] /\ mine'[d] = mine[d]
           /\ mine'[c] = None <=> style'[c] = "sync"
           /\ pc'[c] = "enter" /\ mine'[c] # None =>
                 \A d \in Calls : d # c /\ mine[d] = mine'[c] => pc[d] \notin Inside
           /\ ~displaced' => ~displaced /\ \A d \in Calls : mine'[d] \in {None, lock'}
<1> USE OAuthRefreshAssumption
<1>0. TypeOK /\ CallInv /\ AsyncLockInv BY DEF RefreshInv
<1>1. CASE Resolve(c)
  <2>1. pc[c] = "idle" /\ style' = [style EXCEPT ![c] = "sync"] /\ UNCHANGED <<mine, lock, lockLoop, displaced>>
        BY <1>1 DEF Resolve, locking
  <2>2. mine[c] = None BY <1>0, <2>1 DEF CallInv
  <2> QED BY <1>0, <2>1, <2>2 DEF TypeOK, AsyncLockInv
<1>2. CASE AcquireAsync(c)
  <2>1. /\ pc[c] = "wait" /\ UNCHANGED <<style, mine, lock, lockLoop, displaced>>
        /\ \A d \in Calls : mine[d] = mine[c] => pc[d] = "wait"
        BY <1>2 DEF AcquireAsync, locking
  <2>2. mine[c] = None <=> style[c] = "sync" BY <1>0, <2>1 DEF CallInv, TypeOK
  <2> QED BY <1>0, <2>1, <2>2 DEF TypeOK, AsyncLockInv, Inside
<1>3. CASE ResolveAsync(c)
  <2>1. /\ pc[c] = "idle" /\ AsyncLockFor(c) /\ style' = style
        /\ mine' = [mine EXCEPT ![c] = lock']
        /\ pc' = [pc EXCEPT ![c] = IF Held(lock') THEN "wait" ELSE "enter"]
        BY <1>3 DEF ResolveAsync
  <2>2. mine[c] = None /\ Thread[c] \in Threads BY <1>0, <2>1 DEF CallInv, Threads
  <2>3. /\ lock' \in Locks \cup {None} /\ lockLoop' \in Threads \cup {None} /\ displaced' \in BOOLEAN
        /\ ~displaced' => ~displaced /\ \A d \in Calls : mine[d] \in {None, lock'}
    <3>1. CASE lockLoop = Thread[c] BY <1>0, <2>1, <3>1 DEF AsyncLockFor, TypeOK, AsyncLockInv, locking
    <3>2. CASE lockLoop # Thread[c]
      <4>1. NewLock \in Locks BY <2>2, NewLockIsNew
      <4>2. lockLoop' = Thread[c] /\ lock' = NewLock BY <2>1, <3>2 DEF AsyncLockFor
      <4>3. displaced' = (displaced \/ (lock # None /\ Held(lock))) BY <2>1, <3>2 DEF AsyncLockFor
      <4>4. displaced' \in BOOLEAN BY <4>3
      <4>5. ASSUME ~displaced' PROVE ~displaced /\ \A d \in Calls : mine[d] = None
        <5>1. ~displaced /\ ~(lock # None /\ Held(lock)) BY <4>3, <4>5
        <5> QED BY <1>0, <5>1 DEF AsyncLockInv, Held
      <4> QED BY <2>2, <4>1, <4>2, <4>4, <4>5
    <3> QED BY <3>1, <3>2
  <2>4. style[c] = "async" /\ lock' # None
    <3>1. lockLoop # Thread[c] => NewLock \in Locks BY <2>2, NewLockIsNew
    <3> QED BY <1>0, <2>1, <2>2, <3>1 DEF CallInv, AsyncLockInv, AsyncLockFor, locking
  <2>5. mine' \in [Calls -> Locks \cup {None}] BY <1>0, <2>1, <2>3 DEF TypeOK
  <2>6. pc'[c] = "enter" => \A d \in Calls : mine[d] # lock' BY <1>0, <2>1 DEF Held, TypeOK
  <2> QED BY <1>0, <2>1, <2>3, <2>4, <2>5, <2>6 DEF TypeOK
<1> QED BY <1>1, <1>2, <1>3 DEF Enters

\* Init gives every part of the invariant.
LEMMA InitInv == Init => RefreshInv
<1> SUFFICES ASSUME Init PROVE RefreshInv OBVIOUS
<1> USE OAuthRefreshAssumption
<1>1. InFlight = {} /\ Cardinality(InFlight) = 0 BY FS_EmptySet DEF Init, InFlight
<1>2. fresh \in BOOLEAN /\ displaced \in BOOLEAN /\ spoiled \in BOOLEAN BY DEF Init
<1>3. TypeOK BY <1>1, <1>2 DEF Init, TypeOK, Tokens, Answers
<1>4. CallInv /\ AsyncLockInv BY <1>1 DEF Init, CallInv, AsyncLockInv
<1>5. ThreadLockInv /\ ThreadInv BY <1>1 DEF Init, ThreadLockInv, ThreadInv
<1>6. TokenInv /\ TrialInv BY DEF Init, TokenInv, TrialInv
<1> QED BY <1>3, <1>4, <1>5, <1>6 DEF RefreshInv

\* Every step keeps what calls have in their hands.
LEMMA CallStep == RefreshInv /\ [Next]_vars => CallInv'
<1> SUFFICES ASSUME RefreshInv, [Next]_vars PROVE CallInv' OBVIOUS
<1>0. TypeOK /\ CallInv BY DEF RefreshInv
<1>1. CASE Ages BY <1>0, <1>1, AgesFacts DEF CallInv, InFlight
<1>2. ASSUME NEW c \in Calls, Enters(c) PROVE CallInv'
  <2>1. PICK l \in {"wait", "enter"} : pc' = [pc EXCEPT ![c] = l] BY <1>2, KindFacts
  <2>2. UNCHANGED <<presented, answer>> /\ pc[c] # "answered" BY <1>2, KindFacts
  <2>3. InFlight' = InFlight \ {c} BY <1>0, <2>1, FlightFacts
  <2>4. style'[c] \in {"sync", "async"} BY <1>2, EntersFacts
  <2>5. /\ \A d \in Calls : d # c => style'[d] = style[d] /\ mine'[d] = mine[d]
        /\ mine'[c] = None <=> style'[c] = "sync"
        BY <1>2, EntersFacts
  <2> QED BY <1>0, <2>1, <2>2, <2>3, <2>4, <2>5 DEF CallInv, TypeOK
<1>3. ASSUME NEW c \in Calls, Turns(c) \/ Leaves(c) PROVE CallInv'
  <2>1. Return(c) BY <1>3, KindFacts
  <2>2. InFlight' = InFlight \ {c} BY <1>0, <2>1, FlightFacts DEF Return
  <2> QED BY <1>0, <2>1, <2>2 DEF CallInv, Return, TypeOK
<1>4. ASSUME NEW c \in Calls, Refresh(c) PROVE CallInv'
  <2>1. InFlight' = InFlight \cup {c} BY <1>0, <1>4, FlightFacts DEF Refresh
  <2> QED BY <1>0, <1>4, <2>1 DEF CallInv, Refresh, TypeOK
<1>5. ASSUME NEW c \in Calls, Answer(c) PROVE CallInv'
  <2>1. pc[c] = "flight" /\ pc' = [pc EXCEPT ![c] = "answered"] /\ UNCHANGED <<style, mine, presented>>
        BY <1>5 DEF Answer
  <2>2. InFlight' = InFlight \cup {c} /\ c \in InFlight BY <1>0, <2>1, FlightFacts DEF InFlight
  <2>3. \A d \in Calls : d # c => answer'[d] = answer[d] BY <1>0, <1>5 DEF Answer, TypeOK
  <2> QED BY <1>0, <2>1, <2>2, <2>3 DEF CallInv, TypeOK
<1> QED BY <1>1, <1>2, <1>3, <1>4, <1>5, StepKinds

\* Every step keeps the asyncio lock exclusive.
LEMMA AsyncLockStep == RefreshInv /\ [Next]_vars => AsyncLockInv'
<1> SUFFICES ASSUME RefreshInv, [Next]_vars PROVE AsyncLockInv' OBVIOUS
<1>0. TypeOK /\ CallInv /\ AsyncLockInv BY DEF RefreshInv
<1>1. CASE Ages BY <1>0, <1>1, AgesFacts DEF AsyncLockInv
<1>2. ASSUME NEW c \in Calls, Enters(c) PROVE AsyncLockInv'
  <2>1. PICK l \in {"wait", "enter"} : pc' = [pc EXCEPT ![c] = l] BY <1>2, KindFacts
  <2>2. /\ \A d \in Calls : d # c => mine'[d] = mine[d]
        /\ pc'[c] = "enter" /\ mine'[c] # None =>
              \A d \in Calls : d # c /\ mine[d] = mine'[c] => pc[d] \notin Inside
        /\ lock' = None => lockLoop' = None
        /\ ~displaced' => \A d \in Calls : mine'[d] \in {None, lock'}
        BY <1>2, EntersFacts
  <2> QED BY <1>0, <2>1, <2>2 DEF AsyncLockInv, Inside, TypeOK
<1>3. ASSUME NEW c \in Calls, Turns(c) \/ Leaves(c) PROVE AsyncLockInv'
  <2>1. Return(c) /\ UNCHANGED <<lock, lockLoop, displaced>> BY <1>3, KindFacts DEF locking
  <2> QED BY <1>0, <2>1 DEF AsyncLockInv, Return, Inside, TypeOK
<1>4. ASSUME NEW c \in Calls, Refresh(c) \/ Answer(c) PROVE AsyncLockInv'
  <2>1. UNCHANGED <<mine, lock, lockLoop, displaced>> BY <1>4 DEF Refresh, Answer, locking
  <2>2. \A d \in Calls : pc'[d] \in Inside => pc[d] \in Inside
        BY <1>0, <1>4 DEF Refresh, Answer, Inside, TypeOK
  <2> QED BY <1>0, <2>1, <2>2 DEF AsyncLockInv
<1> QED BY <1>1, <1>2, <1>3, <1>4, StepKinds

\* Every step leaves the re-entrant lock with the thread of the requests.
LEMMA ThreadLockStep == RefreshInv /\ [Next]_vars => ThreadLockInv'
<1> SUFFICES ASSUME RefreshInv, [Next]_vars PROVE ThreadLockInv' OBVIOUS
<1> USE OAuthRefreshAssumption
<1>0. TypeOK /\ CallInv /\ ThreadLockInv BY DEF RefreshInv
<1>1. CASE Ages BY <1>0, <1>1, AgesFacts DEF ThreadLockInv, InFlight
<1>2. ASSUME NEW c \in Calls, Enters(c) PROVE ThreadLockInv'
  <2>1. PICK l \in {"wait", "enter"} : pc' = [pc EXCEPT ![c] = l] BY <1>2, KindFacts
  <2>2. c \notin InFlight /\ UNCHANGED <<owner, transport>> BY <1>2, KindFacts DEF InFlight
  <2>3. InFlight' = InFlight BY <1>0, <2>1, <2>2, FlightFacts
  <2>4. \A d \in Calls : d # c => style'[d] = style[d] BY <1>2, EntersFacts
  <2>5. InFlight \subseteq Calls BY DEF InFlight
  <2> QED BY <1>0, <2>2, <2>3, <2>4, <2>5 DEF ThreadLockInv
<1>3. ASSUME NEW c \in Calls, Turns(c) PROVE ThreadLockInv'
  <2>1. Return(c) /\ c \notin InFlight /\ UNCHANGED <<owner, transport>> BY <1>3, KindFacts DEF InFlight
  <2>2. InFlight' = InFlight BY <1>0, <2>1, FlightFacts DEF Return
  <2> QED BY <1>0, <2>1, <2>2 DEF ThreadLockInv, Return, InFlight, TypeOK
<1>4. ASSUME NEW c \in Calls, Refresh(c) PROVE ThreadLockInv'
  <2>1. InFlight' = InFlight \cup {c} BY <1>0, <1>4, FlightFacts DEF Refresh
  <2>2. owner \in {None, Thread[c]} /\ owner' = Thread[c] /\ style[c] = transport /\ UNCHANGED <<style, transport>>
        BY <1>4 DEF Refresh, MayEnter
  <2>3. \A d \in InFlight : Thread[d] \in Threads BY DEF InFlight, Threads
  <2> QED BY <1>0, <2>1, <2>2, <2>3 DEF ThreadLockInv
<1>5. ASSUME NEW c \in Calls, Answer(c) PROVE ThreadLockInv'
  <2>1. c \in InFlight /\ UNCHANGED <<owner, style, transport>> BY <1>5 DEF Answer, InFlight
  <2>2. InFlight' = InFlight BY <1>0, <1>5, <2>1, FlightFacts DEF Answer
  <2> QED BY <1>0, <2>1, <2>2 DEF ThreadLockInv
<1>6. ASSUME NEW c \in Calls, Leaves(c) PROVE ThreadLockInv'
  <2>1. Return(c) /\ Exit /\ c \in InFlight /\ transport' = transport BY <1>6, KindFacts
  <2>2. InFlight' = InFlight \ {c} BY <1>0, <2>1, FlightFacts DEF Return
  <2>3. InFlight \subseteq Calls /\ InFlight' \subseteq Calls BY DEF InFlight
  <2>4. depth = Cardinality(InFlight) /\ Cardinality(InFlight') = depth - 1 /\ Cardinality(InFlight) \in Nat
        BY <1>0, <2>1, <2>2, <2>3, CountFacts DEF TypeOK
  <2>5. Cardinality(InFlight') = 0 <=> InFlight' = {} BY <2>3, CountFacts
  <2>6. owner' = IF InFlight' = {} THEN None ELSE owner BY <2>1, <2>4, <2>5 DEF Exit
  <2>7. \A d \in Calls : d # c => style'[d] = style[d] BY <1>0, <2>1 DEF Return, TypeOK
  <2> QED BY <1>0, <2>1, <2>2, <2>3, <2>6, <2>7 DEF ThreadLockInv
<1> QED BY <1>1, <1>2, <1>3, <1>4, <1>5, <1>6, StepKinds

\* Every step leaves a blocked thread alone.
LEMMA ThreadStep == RefreshInv /\ [Next]_vars => ThreadInv'
<1> SUFFICES ASSUME RefreshInv, [Next]_vars PROVE ThreadInv' OBVIOUS
<1>0. TypeOK /\ CallInv /\ ThreadLockInv /\ ThreadInv BY DEF RefreshInv
<1>1. CASE Ages BY <1>0, <1>1, AgesFacts DEF ThreadInv, InFlight
<1>2. ASSUME NEW c \in Calls, Enters(c) PROVE ThreadInv'
  <2>1. PICK l \in {"wait", "enter"} : pc' = [pc EXCEPT ![c] = l] BY <1>2, KindFacts
  <2>2. c \notin InFlight /\ Runs(c) BY <1>2, KindFacts DEF InFlight
  <2>3. InFlight' = InFlight BY <1>0, <2>1, <2>2, FlightFacts
  <2>4. \A d \in Calls : d # c => style'[d] = style[d] BY <1>2, EntersFacts
  <2> QED BY <1>0, <2>1, <2>2, <2>3, <2>4 DEF ThreadInv, Runs, TypeOK
<1>3. ASSUME NEW c \in Calls, Turns(c) \/ Leaves(c) PROVE ThreadInv'
  <2>1. Return(c) BY <1>3, KindFacts
  <2>2. InFlight' = InFlight \ {c} BY <1>0, <2>1, FlightFacts DEF Return
  <2> QED BY <1>0, <2>1, <2>2 DEF ThreadInv, Return, TypeOK
<1>4. ASSUME NEW c \in Calls, Refresh(c) PROVE ThreadInv'
  <2>1. InFlight' = InFlight \cup {c} BY <1>0, <1>4, FlightFacts DEF Refresh
  <2>2. pc[c] = "enter" /\ pc' = [pc EXCEPT ![c] = "flight"] /\ style' = style /\ transport = style[c]
        BY <1>4 DEF Refresh
  <2>3. \A d \in Calls : d # c /\ Thread[d] = Thread[c] => pc[d] # "enter" /\ ~(style[d] = "sync" /\ d \in InFlight)
        BY <1>0, <2>2 DEF ThreadInv
  <2>4. \A d \in InFlight : d \in Calls /\ style[d] = style[c] /\ style[d] \in {"sync", "async"}
        BY <1>0, <2>2 DEF ThreadLockInv, InFlight, TypeOK
  <2> QED BY <1>0, <2>1, <2>2, <2>3, <2>4 DEF ThreadInv, TypeOK
<1>5. ASSUME NEW c \in Calls, Answer(c) PROVE ThreadInv'
  <2>1. c \in InFlight /\ style' = style /\ pc' = [pc EXCEPT ![c] = "answered"] BY <1>5 DEF Answer, InFlight
  <2>2. InFlight' = InFlight BY <1>0, <2>1, FlightFacts
  <2> QED BY <1>0, <2>1, <2>2 DEF ThreadInv, TypeOK
<1> QED BY <1>1, <1>2, <1>3, <1>4, <1>5, StepKinds

\* As long as no lock in use was replaced, one request is under way at a time.
LEMMA OneRequest ==
    ASSUME RefreshInv, ~displaced, NEW c \in InFlight, NEW d \in InFlight
    PROVE  c = d
<1>1. c \in Calls /\ d \in Calls /\ pc[c] \in Inside /\ pc[d] \in Inside /\ pc[c] # "idle" /\ pc[d] # "idle"
      BY DEF InFlight, Inside
<1>2. Thread[c] = Thread[d] BY DEF RefreshInv, ThreadLockInv
<1>3. c # d => style[c] = "async" /\ style[d] = "async" BY <1>1, <1>2 DEF RefreshInv, ThreadInv
<1>4. c # d => mine[c] # None /\ mine[d] # None BY <1>1, <1>3 DEF RefreshInv, CallInv
<1>5. c # d => mine[c] = mine[d] BY <1>1, <1>4 DEF RefreshInv, AsyncLockInv
<1> QED BY <1>1, <1>4, <1>5 DEF RefreshInv, AsyncLockInv

\* Every step keeps the token the server accepts, unless its answer is lost.
LEMMA TokenStep == RefreshInv /\ [Next]_vars => TokenInv'
<1> SUFFICES ASSUME RefreshInv, [Next]_vars, ~displaced'
             PROVE  /\ \A d \in Calls : pc'[d] = "answered" => answer'[d].refresh \in {None, issued'}
                    /\ token' # issued' /\ ~spoiled' =>
                          \E d \in Calls : pc'[d] = "answered" /\ answer'[d] = Granted(issued')
      BY DEF TokenInv, Granted
<1> DEFINE Goal == /\ \A d \in Calls : pc'[d] = "answered" => answer'[d].refresh \in {None, issued'}
                   /\ token' # issued' /\ ~spoiled' =>
                         \E d \in Calls : pc'[d] = "answered" /\ answer'[d] = Granted(issued')
<1> USE OAuthRefreshAssumption
<1>0. TypeOK /\ CallInv /\ TokenInv BY DEF RefreshInv
<1>1. CASE Ages
  <2>1. ~displaced BY <1>1, AgesFacts
  <2> QED BY <1>0, <1>1, <2>1, AgesFacts DEF TokenInv
<1>2. ASSUME NEW c \in Calls, Enters(c) PROVE Goal
  <2>1. PICK l \in {"wait", "enter"} : pc' = [pc EXCEPT ![c] = l] BY <1>2, KindFacts
  <2>2. pc[c] # "answered" /\ UNCHANGED <<token, issued, spoiled, answer>> BY <1>2, KindFacts DEF credential
  <2>3. ~displaced BY <1>2, EntersFacts
  <2>4. \A d \in Calls : pc'[d] = "answered" <=> pc[d] = "answered" BY <1>0, <2>1, <2>2 DEF TypeOK
  <2> QED BY <1>0, <2>2, <2>3, <2>4 DEF TokenInv
<1>3. ASSUME NEW c \in Calls, Turns(c) PROVE Goal
  <2>1. pc[c] # "answered" /\ Return(c) /\ UNCHANGED <<token, issued, spoiled, displaced>>
        BY <1>3, KindFacts DEF credential, locking
  <2>2. \A d \in Calls : /\ pc'[d] = "answered" <=> pc[d] = "answered"
                         /\ pc[d] = "answered" => answer'[d] = answer[d]
        BY <1>0, <2>1 DEF TypeOK, Return
  <2> QED BY <1>0, <2>1, <2>2 DEF TokenInv
<1>4. ASSUME NEW c \in Calls, Refresh(c) PROVE Goal
  <2>1. /\ pc[c] = "enter" /\ pc' = [pc EXCEPT ![c] = "flight"]
        /\ UNCHANGED <<token, issued, spoiled, displaced, answer>>
        BY <1>4 DEF Refresh, credential, locking
  <2>2. \A d \in Calls : pc'[d] = "answered" <=> pc[d] = "answered" BY <1>0, <2>1 DEF TypeOK
  <2> QED BY <1>0, <2>1, <2>2 DEF TokenInv
<1>5. ASSUME NEW c \in Calls, Answer(c) PROVE Goal
  <2>1. /\ pc[c] = "flight" /\ pc' = [pc EXCEPT ![c] = "answered"]
        /\ UNCHANGED <<token, displaced>>
        BY <1>5 DEF Answer, credential, locking
  <2>2. \A d \in InFlight : d = c BY <2>1, OneRequest DEF InFlight
  <2>3. \A d \in Calls : pc[d] # "answered" BY <2>1, <2>2 DEF InFlight
  <2>4. token = issued \/ spoiled BY <1>0, <2>1, <2>3 DEF TokenInv
  <2>5. \A d \in Calls : pc'[d] = "answered" <=> d = c BY <1>0, <2>1, <2>3 DEF TypeOK
  <2>6. answer'[c].refresh \in {None, issued'} /\ (token # issued' /\ ~spoiled' => answer'[c] = Granted(issued'))
    <3>1. CASE UNCHANGED <<issued, spoiled>> /\ answer' \in {[answer EXCEPT ![c] = a] : a \in {Rejected, Failed}}
          BY <1>0, <2>4, <3>1 DEF TypeOK, Rejected, Failed
    <3>2. ASSUME NEW r, issued' = IF r = None THEN issued ELSE r,
                 answer' \in {[answer EXCEPT ![c] = a] : a \in {Granted(r), Malformed(r), Failed}},
                 spoiled' = (spoiled \/ (issued' # issued /\ answer'[c] # Granted(r)))
          PROVE  /\ answer'[c].refresh \in {None, issued'}
                 /\ token # issued' /\ ~spoiled' => answer'[c] = Granted(issued')
      <4>1. answer'[c] \in {Granted(r), Malformed(r), Failed} BY <1>0, <3>2 DEF TypeOK
      <4>2. answer'[c].refresh \in {None, issued'} BY <3>2, <4>1 DEF Granted, Malformed, Failed
      <4>3. ASSUME token # issued', ~spoiled' PROVE answer'[c] = Granted(issued')
        <5>1. ~spoiled /\ (issued' # issued => answer'[c] = Granted(r)) BY <3>2, <4>3
        <5>2. token = issued BY <2>4, <5>1
        <5> QED BY <3>2, <4>3, <5>1, <5>2
      <4> QED BY <4>2, <4>3
    <3> QED BY <1>5, <3>1, <3>2 DEF Answer
  <2> QED BY <2>1, <2>5, <2>6
<1>6. ASSUME NEW c \in Calls, Leaves(c) PROVE Goal
  <2>1. c \in InFlight /\ Return(c) /\ UNCHANGED <<issued, displaced>> BY <1>6, KindFacts DEF locking
  <2>2. \A d \in InFlight : d = c BY <2>1, OneRequest
  <2>3. \A d \in Calls : pc[d] = "answered" => d = c BY <2>2 DEF InFlight
  <2>4. \A d \in Calls : pc'[d] # "answered" BY <1>0, <2>1, <2>3 DEF Return, TypeOK
  <2>5. token # issued /\ ~spoiled => pc[c] = "answered" /\ answer[c] = Granted(issued)
        BY <1>0, <2>1, <2>3 DEF TokenInv
  <2>6. issued \in Tokens /\ issued # None BY <1>0 DEF TypeOK
  <2>7. CASE Settle(c)
    <3>1. pc[c] = "answered" /\ spoiled' = spoiled BY <2>7 DEF Settle
    <3>2. CASE answer[c].status = "granted" /\ token' = UpdatedToken(c)
      <4>1. answer[c].refresh \in {None, issued} BY <1>0, <2>1, <3>1 DEF TokenInv
      <4>2. token' = issued \/ (token' = token /\ answer[c].refresh = None) BY <3>2, <4>1 DEF UpdatedToken
      <4>3. token # issued /\ ~spoiled => answer[c].refresh = issued BY <2>5 DEF Granted
      <4> QED BY <2>1, <2>4, <2>6, <3>1, <4>2, <4>3
    <3>3. CASE answer[c].status # "granted" /\ token' = token
      <4>1. token = issued \/ spoiled BY <2>5, <3>3 DEF Granted
      <4> QED BY <2>1, <2>4, <3>1, <3>3, <4>1
    <3> QED BY <2>7, <3>2, <3>3 DEF Settle, credential
  <2>8. CASE Abandon(c) \/ CancelRequest(c)
    <3>1. token' = token /\ spoiled' = (spoiled \/ answer[c].refresh \notin {None, token})
          BY <2>8 DEF Abandon, CancelRequest, Discards, credential
    <3>2. ~spoiled' => ~spoiled /\ answer[c].refresh \in {None, token} BY <3>1
    <3>3. token # issued /\ ~spoiled => answer[c].refresh = issued BY <2>5 DEF Granted
    <3> QED BY <2>1, <2>4, <2>6, <3>1, <3>2, <3>3
  <2> QED BY <1>6, <2>7, <2>8 DEF Leaves
<1> QED BY <1>1, <1>2, <1>3, <1>4, <1>5, <1>6, StepKinds

\* Every step keeps a request for every trial.
LEMMA TrialStep == RefreshInv /\ [Next]_vars => TrialInv'
<1> SUFFICES ASSUME RefreshInv, [Next]_vars PROVE TrialInv' OBVIOUS
<1>0. TypeOK /\ TrialInv /\ InFlight \subseteq Calls BY DEF RefreshInv, InFlight
<1>1. CASE Ages BY <1>0, <1>1, AgesFacts DEF TrialInv, InFlight
<1>2. ASSUME NEW c \in Calls, Enters(c) \/ Turns(c) PROVE TrialInv'
  <2>1. PICK l \in {"idle", "wait", "enter"} : pc' = [pc EXCEPT ![c] = l] BY <1>2, KindFacts DEF Return
  <2>2. c \notin InFlight /\ UNCHANGED <<trials, stuck>> BY <1>2, KindFacts DEF InFlight, circuit
  <2>3. \A d \in Calls : d # c => presented'[d] = presented[d] BY <1>0, <1>2, KindFacts DEF Return, TypeOK
  <2>4. InFlight' = InFlight BY <1>0, <2>1, <2>2, FlightFacts
  <2> QED BY <1>0, <2>2, <2>3, <2>4 DEF TrialInv
<1>3. ASSUME NEW c \in Calls, Refresh(c) PROVE TrialInv'
  <2>1. InFlight' = InFlight \cup {c} BY <1>0, <1>3, FlightFacts DEF Refresh
  <2>2. c \notin InFlight /\ stuck' = stuck /\ trials' \subseteq trials \cup {token} BY <1>3 DEF Refresh, InFlight
  <2>3. presented'[c] = token /\ \A d \in Calls : d # c => presented'[d] = presented[d]
        BY <1>0, <1>3 DEF Refresh, TypeOK
  <2> QED BY <1>0, <2>1, <2>2, <2>3 DEF TrialInv
<1>4. ASSUME NEW c \in Calls, Answer(c) PROVE TrialInv'
  <2>1. c \in InFlight /\ UNCHANGED <<trials, stuck, presented>> BY <1>4 DEF Answer, InFlight, circuit
  <2>2. InFlight' = InFlight BY <1>0, <1>4, <2>1, FlightFacts DEF Answer
  <2> QED BY <1>0, <2>1, <2>2 DEF TrialInv
<1>5. ASSUME NEW c \in Calls, Leaves(c) PROVE TrialInv'
  <2>1. c \in InFlight /\ Return(c) BY <1>5, KindFacts
  <2>2. InFlight' = InFlight \ {c} BY <1>0, <2>1, FlightFacts DEF Return
  <2>3. \A d \in Calls : d # c => presented'[d] = presented[d] BY <1>0, <2>1 DEF Return, TypeOK
  <2>4. trials' \ stuck' \subseteq (trials \ stuck) \ {presented[c]}
    <3>1. CASE Settle(c) \/ Abandon(c)
          BY <3>1 DEF Settle, Abandon, RecordSuccess, RecordTransportFailure, ReleaseTrial
    <3>2. CASE CancelRequest(c) BY <3>2 DEF CancelRequest, circuit
    <3> QED BY <1>5, <3>1, <3>2 DEF Leaves
  <2> QED BY <1>0, <2>2, <2>3, <2>4 DEF TrialInv
<1> QED BY <1>1, <1>2, <1>3, <1>4, <1>5, StepKinds

\* Every step leaves the re-entrant lock entered once for every request under way.
LEMMA DepthStep == RefreshInv /\ [Next]_vars => depth' = Cardinality(InFlight')
<1> SUFFICES ASSUME RefreshInv, [Next]_vars PROVE depth' = Cardinality(InFlight') OBVIOUS
<1>0. TypeOK /\ depth = Cardinality(InFlight) /\ InFlight \subseteq Calls BY DEF RefreshInv, TypeOK, InFlight
<1>1. CASE Ages
  <2>1. InFlight' = InFlight BY <1>1, AgesFacts DEF InFlight
  <2> QED BY <1>0, <1>1, <2>1, AgesFacts
<1>2. ASSUME NEW c \in Calls, Enters(c) \/ Turns(c) PROVE depth' = Cardinality(InFlight')
  <2>1. PICK l \in {"idle", "wait", "enter"} : pc' = [pc EXCEPT ![c] = l] BY <1>2, KindFacts DEF Return
  <2>2. c \notin InFlight /\ depth' = depth BY <1>2, KindFacts DEF InFlight
  <2>3. InFlight' = InFlight BY <1>0, <2>1, <2>2, FlightFacts
  <2> QED BY <1>0, <2>2, <2>3
<1>3. ASSUME NEW c \in Calls, Refresh(c) PROVE depth' = Cardinality(InFlight')
  <2>1. InFlight' = InFlight \cup {c} BY <1>0, <1>3, FlightFacts DEF Refresh
  <2>2. c \notin InFlight /\ depth' = depth + 1 BY <1>3 DEF Refresh, InFlight
  <2> QED BY <1>0, <2>1, <2>2, CountFacts
<1>4. ASSUME NEW c \in Calls, Answer(c) PROVE depth' = Cardinality(InFlight')
  <2>1. c \in InFlight /\ depth' = depth BY <1>4 DEF Answer, InFlight
  <2>2. InFlight' = InFlight BY <1>0, <1>4, <2>1, FlightFacts DEF Answer
  <2> QED BY <1>0, <2>1, <2>2
<1>5. ASSUME NEW c \in Calls, Leaves(c) PROVE depth' = Cardinality(InFlight')
  <2>1. c \in InFlight /\ Return(c) /\ depth' = depth - 1 BY <1>5, KindFacts DEF Exit
  <2>2. InFlight' = InFlight \ {c} BY <1>0, <2>1, FlightFacts DEF Return
  <2> QED BY <1>0, <2>1, <2>2, CountFacts
<1> QED BY <1>1, <1>2, <1>3, <1>4, <1>5, StepKinds

\* Every step keeps the types.
LEMMA TypeStep == RefreshInv /\ [Next]_vars => TypeOK'
<1> SUFFICES ASSUME RefreshInv, [Next]_vars PROVE TypeOK' OBVIOUS
<1> USE OAuthRefreshAssumption
<1>0. TypeOK /\ CallInv BY DEF RefreshInv
<1>d. depth' = Cardinality(InFlight') BY DepthStep
<1>1. CASE Ages
  <2>1. fresh' \in BOOLEAN BY <1>0, <1>1 DEF Ages, Expire, CoolDown, TypeOK, vars, credential
  <2>2. cooling' \subseteq Tokens BY <1>0, <1>1 DEF Ages, Expire, CoolDown, TypeOK, vars, circuit
  <2> QED BY <1>0, <1>d, <1>1, <2>1, <2>2, AgesFacts DEF TypeOK
<1>2. ASSUME NEW c \in Calls, Enters(c) PROVE TypeOK'
  <2>1. PICK l \in {"wait", "enter"} : pc' = [pc EXCEPT ![c] = l] BY <1>2, KindFacts
  <2>2. UNCHANGED <<transport, token, fresh, issued, owner, failures, cooling, trials,
                    presented, answer, spoiled, stuck, faults>>
        BY <1>2, KindFacts DEF credential, circuit
  <2>3. /\ style' \in [Calls -> {"sync", "async"}] /\ mine' \in [Calls -> Locks \cup {None}]
        /\ lock' \in Locks \cup {None} /\ lockLoop' \in Threads \cup {None} /\ displaced' \in BOOLEAN
        BY <1>2, EntersFacts
  <2> QED BY <1>0, <1>d, <2>1, <2>2, <2>3 DEF TypeOK
<1>3. ASSUME NEW c \in Calls, Turns(c) PROVE TypeOK'
  <2>1. /\ Return(c)
        /\ UNCHANGED <<transport, token, fresh, issued, lockLoop, lock, displaced, owner,
                       failures, cooling, trials, spoiled, stuck>>
        BY <1>3, KindFacts DEF credential, locking, circuit
  <2>2. faults' \in 0..MaxFaults BY <1>0, <1>3 DEF Turns, ResolveStored, CancelWaiting, TypeOK
  <2> QED BY <1>0, <1>d, <2>1, <2>2 DEF TypeOK, Return, Answers
<1>4. ASSUME NEW c \in Calls, Refresh(c) PROVE TypeOK'
  <2>1. owner' \in Threads BY <1>4 DEF Refresh, Threads
  <2>2. UNCHANGED <<transport, token, fresh, issued, lockLoop, lock, displaced, failures, cooling,
                    style, mine, answer, spoiled, stuck, faults>>
        BY <1>4 DEF Refresh, credential, locking
  <2>3. trials' \subseteq Tokens BY <1>0, <1>4 DEF Refresh, TypeOK
  <2>4. presented' \in [Calls -> Tokens \cup {None}] BY <1>0, <1>4 DEF Refresh, TypeOK
  <2>5. pc' \in [Calls -> {"idle", "wait", "enter", "flight", "answered"}] BY <1>0, <1>4 DEF Refresh, TypeOK
  <2> QED BY <1>0, <1>d, <2>1, <2>2, <2>3, <2>4, <2>5 DEF TypeOK
<1>5. ASSUME NEW c \in Calls, Answer(c) PROVE TypeOK'
  <2>1. UNCHANGED <<transport, token, fresh, lockLoop, lock, displaced, owner, failures, cooling, trials,
                    style, mine, presented, stuck>>
        BY <1>5 DEF Answer, credential, locking, circuit
  <2>2. pc' \in [Calls -> {"idle", "wait", "enter", "flight", "answered"}] BY <1>0, <1>5 DEF Answer, TypeOK
  <2>3. issued' \in Tokens BY <1>0, <1>5 DEF Answer, TypeOK, Tokens
  <2>4. faults' \in 0..MaxFaults BY <1>0, <1>5 DEF Answer, TypeOK
  <2>5. spoiled' \in BOOLEAN BY <1>0, <1>5 DEF Answer, TypeOK
  <2>6. answer' \in [Calls -> Answers]
    <3>1. \A r \in Tokens \cup {None} : {Granted(r), Malformed(r), Failed, Rejected} \subseteq Answers BY DEF Answers
    <3>2. {issued, None} \cup (IF issued < MaxToken THEN {issued + 1} ELSE {}) \subseteq Tokens \cup {None}
          BY <1>0 DEF TypeOK, Tokens
    <3>3. \E a \in Answers : answer' = [answer EXCEPT ![c] = a] BY <1>5, <3>1, <3>2 DEF Answer
    <3> QED BY <1>0, <3>3 DEF TypeOK
  <2> QED BY <1>0, <1>d, <2>1, <2>2, <2>3, <2>4, <2>5, <2>6 DEF TypeOK
<1>6. ASSUME NEW c \in Calls, Leaves(c) PROVE TypeOK'
  <2>1. c \in InFlight /\ Return(c) /\ Exit /\ UNCHANGED <<transport, issued, lockLoop, lock, displaced>>
        BY <1>6, KindFacts DEF locking
  <2>2. owner' \in Threads \cup {None} BY <1>0, <2>1 DEF Exit, TypeOK
  <2>3. presented[c] \in Tokens /\ answer[c] \in Answers BY <1>0, <2>1 DEF CallInv, TypeOK
  <2>4. token' \in Tokens
    <3>1. answer[c].refresh \in Tokens \cup {None}
          BY <2>3 DEF Answers, NoAnswer, Rejected, Failed, Granted, Malformed
    <3> QED BY <1>0, <1>6, <3>1 DEF Leaves, Settle, Abandon, CancelRequest, UpdatedToken, credential, TypeOK
  <2>5. fresh' \in BOOLEAN BY <1>0, <1>6 DEF Leaves, Settle, Abandon, CancelRequest, credential, TypeOK
  <2>6. spoiled' \in BOOLEAN BY <1>0, <1>6 DEF Leaves, Settle, Abandon, CancelRequest, Discards, TypeOK
  <2>7. faults' \in 0..MaxFaults BY <1>0, <1>6 DEF Leaves, Settle, Abandon, CancelRequest, TypeOK
  <2>8. stuck' \subseteq Tokens BY <1>0, <1>6 DEF Leaves, Settle, Abandon, CancelRequest, TypeOK
  <2>9. /\ failures' \in [Tokens -> 0..FailureThreshold]
        /\ cooling' \subseteq Tokens /\ trials' \subseteq Tokens
    <3>1. CASE RecordSuccess(presented[c]) BY <1>0, <2>3, <3>1 DEF RecordSuccess, TypeOK
    <3>2. CASE ReleaseTrial(presented[c]) \/ UNCHANGED circuit BY <1>0, <3>2 DEF ReleaseTrial, circuit, TypeOK
    <3>3. CASE RecordTransportFailure(presented[c])
          BY <1>0, <2>3, <3>3 DEF RecordTransportFailure, Open, TypeOK
    <3> QED BY <1>6, <3>1, <3>2, <3>3 DEF Leaves, Settle, Abandon, CancelRequest
  <2>10. /\ pc' \in [Calls -> {"idle", "wait", "enter", "flight", "answered"}]
         /\ style' \in [Calls -> {"sync", "async"}] /\ mine' \in [Calls -> Locks \cup {None}]
         /\ presented' \in [Calls -> Tokens \cup {None}] /\ answer' \in [Calls -> Answers]
         BY <1>0, <2>1 DEF Return, Answers, TypeOK
  <2> QED BY <1>0, <1>d, <2>1, <2>2, <2>4, <2>5, <2>6, <2>7, <2>8, <2>9, <2>10 DEF TypeOK
<1> QED BY <1>1, <1>2, <1>3, <1>4, <1>5, <1>6, StepKinds

-----------------------------------------------------------------------------
(* The theorems                                                             *)

\* The types, the locks, the requests and the tokens agree in every reachable state
\* of the provider.
THEOREM RefreshInvariance == Spec => []RefreshInv
<1>1. RefreshInv /\ [Next]_vars => RefreshInv'
  <2> SUFFICES ASSUME RefreshInv, [Next]_vars PROVE RefreshInv' OBVIOUS
  <2>1. TypeOK' /\ CallInv' BY TypeStep, CallStep
  <2>2. AsyncLockInv' /\ ThreadLockInv' /\ ThreadInv' BY AsyncLockStep, ThreadLockStep, ThreadStep
  <2>3. TokenInv' /\ TrialInv' BY TokenStep, TrialStep
  <2> QED BY <2>1, <2>2, <2>3 DEF RefreshInv
<1> QED BY <1>1, InitInv, PTL DEF Spec

\* One request is under way at a time, whatever threads and loops call, until a call
\* of another loop replaces an asyncio lock that is in use (RefreshedOnce).
THEOREM RefreshesOnce == Spec => []RefreshedOnce
<1>1. RefreshInv => RefreshedOnce
  <2> SUFFICES ASSUME RefreshInv, ~displaced PROVE Cardinality(InFlight) <= 1 BY DEF RefreshedOnce
  <2>1. CASE InFlight = {} BY <2>1, FS_EmptySet
  <2>2. ASSUME NEW c \in InFlight PROVE Cardinality(InFlight) <= 1
    <3>1. \A d \in InFlight : d = c BY OneRequest
    <3>2. InFlight = {c} BY <3>1
    <3>3. Cardinality({c}) = 1 BY FS_Singleton
    <3> QED BY <3>2, <3>3
  <2> QED BY <2>1, <2>2
<1> QED BY <1>1, RefreshInvariance, PTL

\* The refresh token the server accepts is stored or on its way, unless the answer
\* that carried it was lost or requests overlapped (RefreshTokenSurvives).
THEOREM RefreshTokenIsKept == Spec => []RefreshTokenSurvives
<1>1. RefreshInv => RefreshTokenSurvives BY DEF RefreshInv, TokenInv, RefreshTokenSurvives, Granted
<1> QED BY <1>1, RefreshInvariance, PTL

\* A half-open trial ends with its request, unless its task was cancelled
\* (TrialHasRequest).
THEOREM TrialsEnd == Spec => []TrialHasRequest
<1>1. RefreshInv => TrialHasRequest BY DEF RefreshInv, TrialInv, TrialHasRequest
<1> QED BY <1>1, RefreshInvariance, PTL
=============================================================================
