---------------------------- MODULE ContentCache ----------------------------
(***************************************************************************)
(* ContentCache (src/src/datasluice/io/content_cache.py): content files    *)
(* named by the payload's SHA-256 in a directory, and a SQLite index whose *)
(* rows say which file a key's bytes are in.  File and row are written in  *)
(* separate steps and no lock spans them; SQLite transactions (BEGIN       *)
(* IMMEDIATE ... COMMIT) are atomic steps.                                 *)
(*                                                                         *)
(* A client is one ContentCache instance on the shared directory, used by  *)
(* one thread.  Every get sweeps before it looks its row up and every put  *)
(* sweeps after its commit, if the sweep interval has passed.              *)
(***************************************************************************)
EXTENDS Integers, FiniteSets

CONSTANTS Clients, Keys, Payloads,
          None,
          OldRows,     \* the directory was in use before content_sha existed
          MaxFaults    \* bound on crashes and failing sweeps

ASSUME ContentCacheAssumption ==
    /\ None \notin Payloads \cup Keys
    /\ Payloads \cap Keys = {}
    /\ OldRows \in BOOLEAN
    /\ MaxFaults \in Nat

VARIABLES files,     \* content of each file, by name
          rows,      \* the cache table: [name, payload, expired] or None
          pc,        \* where each client is
          key,       \* argument of its call
          data,      \* payload it stores, or the row it has read
          then,      \* where it goes when its sweep is over
          listing,   \* names its sweep listed; later those it will remove
          orphans,   \* _orphan_candidates of its last sweep
          due,       \* SWEEP_INTERVAL_SECONDS have passed since its last sweep
          faults

vars == <<files, rows, pc, key, data, then, listing, orphans, due, faults>>

\* A file is named by the digest of its payload; releases before the content_sha
\* column named it by the digest of its key, and such rows are still honoured.
Names == Payloads \cup Keys

\* Mutant of ContentName: files are still named by their key.
ContentNameByKey(k, d) == k

\* _content_path for a new payload of a key.
ContentName(k, d) == d

Row(n, d) == [name |-> n, payload |-> d, expired |-> FALSE]

\* Names some row refers to: content_sha, or the key's digest in an old row.
Known(table) == {table[k].name : k \in {j \in Keys : table[j] # None}}

Present == {n \in Names : files[n] # None}

Init ==
    /\ \E old \in [Keys -> {None} \cup IF OldRows THEN Payloads ELSE {}] :
          /\ files = [n \in Names |-> IF n \in Keys THEN old[n] ELSE None]
          /\ rows = [k \in Keys |-> IF old[k] = None THEN None ELSE Row(k, old[k])]
    /\ pc = [c \in Clients |-> "idle"]
    /\ key = [c \in Clients |-> None]
    /\ data = [c \in Clients |-> None]
    /\ then = [c \in Clients |-> "idle"]
    /\ listing = [c \in Clients |-> {}]
    /\ orphans = [c \in Clients |-> {}]
    /\ due = [c \in Clients |-> TRUE]
    /\ faults = 0

Goto(c, label) == pc' = [pc EXCEPT ![c] = label]

Return(c) ==
    /\ Goto(c, "idle")
    /\ key' = [key EXCEPT ![c] = None]
    /\ data' = [data EXCEPT ![c] = None]

-----------------------------------------------------------------------------
(* put                                                                      *)

\* pipe_file to a temporary file and mv to the content path.  A failure before
\* the mv leaves nothing behind.
PutFile(c, k, d) ==
    /\ pc[c] = "idle"
    /\ files' = [files EXCEPT ![ContentName(k, d)] = d]
    /\ key' = [key EXCEPT ![c] = k]
    /\ data' = [data EXCEPT ![c] = d]
    /\ Goto(c, "commit")
    /\ UNCHANGED <<rows, then, listing, orphans, due, faults>>

\* INSERT OR REPLACE of the ready row; then _maybe_sweep.
PutCommit(c) ==
    /\ pc[c] = "commit"
    /\ rows' = [rows EXCEPT ![key[c]] = Row(ContentName(key[c], data[c]), data[c])]
    /\ IF due[c]
       THEN /\ Goto(c, "list")
            /\ then' = [then EXCEPT ![c] = "idle"]
            /\ UNCHANGED <<key, data>>
       ELSE /\ Return(c)
            /\ UNCHANGED then
    /\ UNCHANGED <<files, listing, orphans, due, faults>>

\* The commit fails: the row stays as it was and the exception skips the sweep.
PutFails(c) ==
    /\ pc[c] = "commit"
    /\ Return(c)
    /\ UNCHANGED <<files, rows, then, listing, orphans, due, faults>>

-----------------------------------------------------------------------------
(* get                                                                      *)

Get(c, k) ==
    /\ pc[c] = "idle"
    /\ key' = [key EXCEPT ![c] = k]
    /\ then' = [then EXCEPT ![c] = "row"]
    /\ Goto(c, IF due[c] THEN "list" ELSE "row")
    /\ UNCHANGED <<files, rows, data, listing, orphans, due, faults>>

\* No row, or an expired one, is a miss.
GetRow(c) ==
    /\ pc[c] = "row"
    /\ LET r == rows[key[c]] IN
       IF r = None \/ r.expired
       THEN Return(c)
       ELSE /\ data' = [data EXCEPT ![c] = r]
            /\ Goto(c, "file")
            /\ UNCHANGED key
    /\ UNCHANGED <<files, rows, then, listing, orphans, due, faults>>

\* cat_file: the bytes, or a miss when the file is gone.
GetFile(c) ==
    /\ pc[c] = "file"
    /\ Return(c)
    /\ UNCHANGED <<files, rows, then, listing, orphans, due, faults>>

-----------------------------------------------------------------------------
(* delete                                                                   *)

\* First transaction: read the row's content_sha and delete the row.  Without a
\* row, or in an old one, the file is the one with the key's digest.
Delete(c, k) ==
    /\ pc[c] = "idle"
    /\ rows' = [rows EXCEPT ![k] = None]
    /\ data' = [data EXCEPT ![c] = IF rows[k] = None THEN k ELSE rows[k].name]
    /\ Goto(c, "referenced")
    /\ UNCHANGED <<files, key, then, listing, orphans, due, faults>>

\* Mutant of DeleteReferenced: rows of other keys are not looked at.
DeleteReferencedSkipped(c) ==
    /\ pc[c] = "referenced"
    /\ Goto(c, "remove")
    /\ UNCHANGED <<files, rows, key, data, then, listing, orphans, due, faults>>

\* Second connection: does any other row still refer to the file?
DeleteReferenced(c) ==
    /\ pc[c] = "referenced"
    /\ IF data[c] \in Known(rows)
       THEN Return(c)
       ELSE /\ Goto(c, "remove")
            /\ UNCHANGED <<key, data>>
    /\ UNCHANGED <<files, rows, then, listing, orphans, due, faults>>

\* exists and rm, after the connection is closed.
DeleteFile(c) ==
    /\ pc[c] = "remove"
    /\ files' = [files EXCEPT ![data[c]] = None]
    /\ Return(c)
    /\ UNCHANGED <<rows, then, listing, orphans, due, faults>>

-----------------------------------------------------------------------------
(* _maybe_sweep                                                             *)

\* The directory is listed before the transaction.
SweepList(c) ==
    /\ pc[c] = "list"
    /\ due' = [due EXCEPT ![c] = FALSE]
    /\ listing' = [listing EXCEPT ![c] = Present]
    /\ Goto(c, "sweep")
    /\ UNCHANGED <<files, rows, key, data, then, orphans, faults>>

Unexpired == [k \in Keys |-> IF rows[k] # None /\ rows[k].expired THEN None ELSE rows[k]]

\* Mutant of SweepRows: candidates are never remembered.
SweepRowsForgets(c) ==
    /\ pc[c] = "sweep"
    /\ rows' = Unexpired
    /\ LET candidates == listing[c] \ Known(Unexpired) IN
          listing' = [listing EXCEPT ![c] = candidates \cap orphans[c]]
    /\ Goto(c, "unlink")
    /\ UNCHANGED <<files, key, data, then, orphans, due, faults>>

\* One transaction drops expired rows and reads what is referenced; a file is
\* stale if this sweep and the one before both found it unreferenced.
SweepRows(c) ==
    /\ pc[c] = "sweep"
    /\ rows' = Unexpired
    /\ LET candidates == listing[c] \ Known(Unexpired) IN
          /\ listing' = [listing EXCEPT ![c] = candidates \cap orphans[c]]
          /\ orphans' = [orphans EXCEPT ![c] = candidates]
    /\ Goto(c, "unlink")
    /\ UNCHANGED <<files, key, data, then, due, faults>>

\* safe_remove of one stale file, after the commit.
SweepFile(c, n) ==
    /\ pc[c] = "unlink" /\ n \in listing[c]
    /\ files' = [files EXCEPT ![n] = None]
    /\ listing' = [listing EXCEPT ![c] = @ \ {n}]
    /\ UNCHANGED <<rows, pc, key, data, then, orphans, due, faults>>

SweepReturn(c) ==
    /\ listing' = [listing EXCEPT ![c] = {}]
    /\ IF then[c] = "idle"
       THEN Return(c)
       ELSE /\ Goto(c, then[c])
            /\ UNCHANGED <<key, data>>

SweepEnd(c) ==
    /\ pc[c] = "unlink" /\ listing[c] = {}
    /\ SweepReturn(c)
    /\ UNCHANGED <<files, rows, then, orphans, due, faults>>

\* A listing or transaction error is logged and swallowed.
SweepFails(c) ==
    /\ pc[c] = "sweep" /\ faults < MaxFaults
    /\ faults' = faults + 1
    /\ SweepReturn(c)
    /\ UNCHANGED <<files, rows, then, orphans, due>>

-----------------------------------------------------------------------------
(* The environment                                                          *)

SweepDue(c) ==
    /\ ~due[c]
    /\ due' = [due EXCEPT ![c] = TRUE]
    /\ UNCHANGED <<files, rows, pc, key, data, then, listing, orphans, faults>>

\* A row outlives its time-to-live.
Expire(k) ==
    /\ rows[k] # None /\ ~rows[k].expired
    /\ rows' = [rows EXCEPT ![k].expired = TRUE]
    /\ UNCHANGED <<files, pc, key, data, then, listing, orphans, due, faults>>

\* A client's process dies and a new instance starts.
Crash(c) ==
    /\ pc[c] # "idle" /\ faults < MaxFaults
    /\ faults' = faults + 1
    /\ Return(c)
    /\ listing' = [listing EXCEPT ![c] = {}]
    /\ orphans' = [orphans EXCEPT ![c] = {}]
    /\ due' = [due EXCEPT ![c] = TRUE]
    /\ UNCHANGED <<files, rows, then>>

-----------------------------------------------------------------------------

Step(c) == \/ PutCommit(c) \/ GetRow(c) \/ GetFile(c)
           \/ DeleteReferenced(c) \/ DeleteFile(c)
           \/ SweepList(c) \/ SweepRows(c) \/ SweepEnd(c)
           \/ \E n \in Names : SweepFile(c, n)

Next == \/ \E c \in Clients :
              \/ Step(c) \/ PutFails(c) \/ SweepFails(c) \/ SweepDue(c) \/ Crash(c)
              \/ \E k \in Keys : Get(c, k) \/ Delete(c, k) \/ (\E d \in Payloads : PutFile(c, k, d))
        \/ \E k \in Keys : Expire(k)

Spec == Init /\ [][Next]_vars

\* Calls run to their end, time passes, and every client keeps calling get.
Fairness == \A c \in Clients : /\ WF_vars(Step(c))
                               /\ WF_vars(SweepDue(c))
                               /\ SF_vars(\E k \in Keys : Get(c, k))
FairSpec == Spec /\ Fairness
-----------------------------------------------------------------------------
(* Properties                                                               *)

\* Every variable has its type.
TypeOK ==
    LET RowType == [name : Names, payload : Payloads, expired : BOOLEAN] IN
    /\ files \in [Names -> Payloads \cup {None}]
    /\ rows \in [Keys -> RowType \cup {None}]
    /\ pc \in [Clients -> {"idle", "commit", "row", "file", "referenced", "remove",
                           "list", "sweep", "unlink"}]
    /\ key \in [Clients -> Keys \cup {None}]
    /\ data \in [Clients -> RowType \cup Names \cup {None}]
    /\ then \in [Clients -> {"idle", "row"}]
    /\ listing \in [Clients -> SUBSET Names]
    /\ orphans \in [Clients -> SUBSET Names]
    /\ due \in [Clients -> BOOLEAN]
    /\ faults \in 0..MaxFaults

\* A hit returns the bytes of the put whose row the get has read, although the
\* file is opened later, without a lock, while other clients put, delete and
\* sweep: never another payload of the key, never a mixture.
HitMatchesRow ==
    /\ TypeOK
    /\ \A c \in Clients :
        pc[c] = "file" /\ files[data[c].name] # None => files[data[c].name] = data[c].payload

\* For a client that has the directory to itself, every row has its content file,
\* whatever commits failed and wherever the process died: "a failed commit keeps
\* the previous row and file intact".
RowsHaveContent ==
    \A k \in Keys : rows[k] # None => files[rows[k].name] = rows[k].payload

Orphan(n) == files[n] # None /\ n \notin Known(rows)

\* "... and leaves the new file for the sweep": a content file no row refers to is
\* removed, or used again, in the end.
OrphansAreCollected == \A n \in Names : Orphan(n) ~> ~Orphan(n)
=============================================================================
