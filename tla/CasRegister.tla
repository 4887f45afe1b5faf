---------------------------- MODULE CasRegister ----------------------------
(***************************************************************************)
(* What FileStateStore.conditional_put promises its callers: one durable   *)
(* register per key whose content is replaced only by a call that expected *)
(* exactly the content it replaces.  A call is atomic; a caller that does  *)
(* not win learns it (SyncStateConflictError), and a call may fail or be   *)
(* cut off by a crash without having had any effect.                       *)
(***************************************************************************)
CONSTANTS Threads,   \* callers
          Values,    \* serialized state envelopes
          Absent     \* no state file for the key

VARIABLES value,     \* the content of the register
          call       \* the call each thread has under way

vars == <<value, call>>

Contents == Values \cup {Absent}
Idle     == [status |-> "idle", expected |-> Absent, new |-> Absent]
Calls    == [status : {"idle", "pending", "ok", "conflict", "failed"},
             expected : Contents, new : Contents]

Init == /\ value \in Contents
        /\ call = [t \in Threads |-> Idle]

Begin(t) ==
    /\ call[t] = Idle
    /\ \E e \in Contents, n \in Values :
          call' = [call EXCEPT ![t] = [status |-> "pending", expected |-> e, new |-> n]]
    /\ UNCHANGED value

Commit(t) ==
    /\ call[t].status = "pending"
    /\ value = call[t].expected
    /\ value' = call[t].new
    /\ call' = [call EXCEPT ![t].status = "ok"]

Conflict(t) ==
    /\ call[t].status = "pending"
    /\ value # call[t].expected
    /\ call' = [call EXCEPT ![t].status = "conflict"]
    /\ UNCHANGED value

Fail(t) ==
    /\ call[t].status = "pending"
    /\ call' = [call EXCEPT ![t].status = "failed"]
    /\ UNCHANGED value

Return(t) ==
    /\ call[t].status \in {"ok", "conflict", "failed"}
    /\ call' = [call EXCEPT ![t] = Idle]
    /\ UNCHANGED value

\* A process dies: its calls vanish, whatever they had already achieved.
Crash(S) ==
    /\ call' = [t \in Threads |-> IF t \in S THEN Idle ELSE call[t]]
    /\ UNCHANGED value

Next == \/ \E t \in Threads : \/ Begin(t) \/ Commit(t) \/ Conflict(t)
                              \/ Fail(t) \/ Return(t)
        \/ \E S \in SUBSET Threads : Crash(S)

Spec == Init /\ [][Next]_vars
=============================================================================
