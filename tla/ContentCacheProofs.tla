------------------------- MODULE ContentCacheProofs -------------------------
(***************************************************************************)
(* Proofs about ContentCache, for any clients, keys and payloads, with and *)
(* without files of earlier releases.  HitMatchesRow follows from what the *)
(* name of a file says about its content (ContentInv); RowsHaveContent, for *)
(* a client alone, also needs what the client is about to write or remove  *)
(* (AloneInv).                                                             *)
(***************************************************************************)
EXTENDS ContentCache, TLAPS

RowType == [name : Names, payload : Payloads, expired : BOOLEAN]

\* What a client's variables hold at each place that uses them.
PlaceOK(c) ==
    /\ pc[c] = "commit" => key[c] \in Keys /\ data[c] \in Payloads
    /\ pc[c] = "row" => key[c] \in Keys
    /\ pc[c] \in {"list", "sweep", "unlink"} /\ then[c] = "row" => key[c] \in Keys
    /\ pc[c] \in {"referenced", "remove"} => data[c] \in Names
    /\ pc[c] = "file" => data[c] \in RowType

\* A file with the name of a payload holds that payload.
FilesNamed == \A p \in Payloads : files[p] \in {None, p}

\* The file a row names holds the row's payload, or is gone: it is named by the
\* payload, or it is a file of an earlier release, which nobody writes any more.
Describes(r) ==
    /\ r.name \in Payloads => r.payload = r.name
    /\ files[r.name] \in {None, r.payload}

RowsDescribe == \A k \in Keys : rows[k] # None => Describes(rows[k])

ReadDescribes == \A c \in Clients : pc[c] = "file" => Describes(data[c])

\* The inductive invariant.
ContentInv ==
    /\ TypeOK
    /\ \A c \in Clients : PlaceOK(c)
    /\ FilesNamed
    /\ RowsDescribe
    /\ ReadDescribes

\* It holds in a new directory and in one of an earlier release.
LEMMA ContentInit == Init => ContentInv
<1> SUFFICES ASSUME Init PROVE ContentInv
  OBVIOUS
<1> USE ContentCacheAssumption
<1>1. PICK old \in [Keys -> {None} \cup IF OldRows THEN Payloads ELSE {}] :
         /\ files = [n \in Names |-> IF n \in Keys THEN old[n] ELSE None]
         /\ rows = [k \in Keys |-> IF old[k] = None THEN None ELSE Row(k, old[k])]
  BY DEF Init
<1>2. \A k \in Keys : old[k] \in Payloads \cup {None}
  OBVIOUS
<1>3. files \in [Names -> Payloads \cup {None}]
  BY <1>1, <1>2 DEF Names
<1>4. \A k \in Keys : old[k] # None => Row(k, old[k]) \in RowType
  BY <1>2 DEF Row, RowType, Names
<1>5. rows \in [Keys -> RowType \cup {None}]
  BY <1>1, <1>4
<1>6. due \in [Clients -> BOOLEAN] /\ faults \in 0..MaxFaults
  BY DEF Init
<1>7. TypeOK
  BY <1>3, <1>5, <1>6 DEF Init, TypeOK, RowType
<1>8. \A c \in Clients : PlaceOK(c)
  BY DEF Init, PlaceOK
<1>9. FilesNamed
  BY <1>1 DEF FilesNamed, Names
<1>10. RowsDescribe
  BY <1>1, <1>2 DEF RowsDescribe, Describes, Row, Names
<1>11. ReadDescribes
  BY DEF Init, ReadDescribes
<1> QED
  BY <1>7, <1>8, <1>9, <1>10, <1>11 DEF ContentInv

\* Every step preserves the types.
LEMMA ContentTypes == ContentInv /\ [Next]_vars => TypeOK'
<1> SUFFICES ASSUME ContentInv, [Next]_vars PROVE TypeOK'
  OBVIOUS
<1> USE ContentCacheAssumption DEF ContentInv
<1>1. ASSUME NEW c \in Clients, PutCommit(c) PROVE TypeOK'
  BY <1>1 DEF TypeOK, PlaceOK, PutCommit, Goto, Return, Row, ContentName, Names
<1>2. ASSUME NEW c \in Clients, GetRow(c) PROVE TypeOK'
  BY <1>2 DEF TypeOK, PlaceOK, GetRow, Goto, Return
<1>3. ASSUME NEW c \in Clients, GetFile(c) PROVE TypeOK'
  BY <1>3 DEF TypeOK, GetFile, Goto, Return
<1>4. ASSUME NEW c \in Clients, DeleteReferenced(c) PROVE TypeOK'
  BY <1>4 DEF TypeOK, DeleteReferenced, Goto, Return
<1>5. ASSUME NEW c \in Clients, DeleteFile(c) PROVE TypeOK'
  BY <1>5 DEF TypeOK, PlaceOK, DeleteFile, Goto, Return
<1>6. ASSUME NEW c \in Clients, SweepList(c) PROVE TypeOK'
  BY <1>6 DEF TypeOK, SweepList, Goto, Present
<1>7. ASSUME NEW c \in Clients, SweepRows(c) PROVE TypeOK'
  BY <1>7 DEF TypeOK, SweepRows, Goto, Unexpired
<1>8. ASSUME NEW c \in Clients, SweepEnd(c) PROVE TypeOK'
  BY <1>8 DEF TypeOK, SweepEnd, SweepReturn, Goto, Return
<1>9. ASSUME NEW c \in Clients, NEW n \in Names, SweepFile(c, n) PROVE TypeOK'
  BY <1>9 DEF TypeOK, SweepFile
<1>10. ASSUME NEW c \in Clients, PutFails(c) PROVE TypeOK'
  BY <1>10 DEF TypeOK, PutFails, Goto, Return
<1>11. ASSUME NEW c \in Clients, SweepFails(c) PROVE TypeOK'
  BY <1>11 DEF TypeOK, SweepFails, SweepReturn, Goto, Return
<1>12. ASSUME NEW c \in Clients, SweepDue(c) PROVE TypeOK'
  BY <1>12 DEF TypeOK, SweepDue
<1>13. ASSUME NEW c \in Clients, Crash(c) PROVE TypeOK'
  BY <1>13 DEF TypeOK, Crash, Goto, Return
<1>14. ASSUME NEW c \in Clients, NEW k \in Keys, Get(c, k) PROVE TypeOK'
  BY <1>14 DEF TypeOK, Get, Goto
<1>15. ASSUME NEW c \in Clients, NEW k \in Keys, Delete(c, k) PROVE TypeOK'
  BY <1>15 DEF TypeOK, Delete, Goto, Names
<1>16. ASSUME NEW c \in Clients, NEW k \in Keys, NEW d \in Payloads, PutFile(c, k, d) PROVE TypeOK'
  BY <1>16 DEF TypeOK, PutFile, Goto, Names, ContentName
<1>17. ASSUME NEW k \in Keys, Expire(k) PROVE TypeOK'
  BY <1>17 DEF TypeOK, Expire
<1>18. CASE UNCHANGED vars
  BY <1>18 DEF TypeOK, vars
<1> QED
  BY <1>1, <1>2, <1>3, <1>4, <1>5, <1>6, <1>7, <1>8, <1>9, <1>10, <1>11, <1>12, <1>13, <1>14,
     <1>15, <1>16, <1>17, <1>18 DEF Next, Step

\* What a step of another client or of time leaves alone, the places rely on.
LEMMA ContentPlaces == ContentInv /\ [Next]_vars => (\A c \in Clients : PlaceOK(c))'
<1> SUFFICES ASSUME ContentInv, [Next]_vars, NEW e \in Clients PROVE PlaceOK(e)'
  OBVIOUS
<1>0. TypeOK /\ PlaceOK(e)
  BY DEF ContentInv
<1> USE ContentCacheAssumption DEF PlaceOK
<1>1. ASSUME NEW c \in Clients, PutCommit(c) \/ PutFails(c) PROVE PlaceOK(e)'
  BY <1>0, <1>1 DEF TypeOK, PutCommit, PutFails, Goto, Return
<1>2. ASSUME NEW c \in Clients, GetRow(c) \/ GetFile(c) PROVE PlaceOK(e)'
  BY <1>0, <1>2 DEF TypeOK, RowType, GetRow, GetFile, Goto, Return
<1>3. ASSUME NEW c \in Clients, DeleteReferenced(c) \/ DeleteFile(c) PROVE PlaceOK(e)'
  BY <1>0, <1>3 DEF TypeOK, DeleteReferenced, DeleteFile, Goto, Return
<1>4. ASSUME NEW c \in Clients, SweepList(c) \/ SweepRows(c) \/ SweepDue(c) PROVE PlaceOK(e)'
  BY <1>0, <1>4 DEF TypeOK, SweepList, SweepRows, SweepDue, Goto
<1>5. ASSUME NEW c \in Clients, SweepEnd(c) \/ SweepFails(c) PROVE PlaceOK(e)'
  BY <1>0, <1>5 DEF TypeOK, SweepEnd, SweepFails, SweepReturn, Goto, Return
<1>6. ASSUME NEW c \in Clients, NEW n \in Names, SweepFile(c, n) PROVE PlaceOK(e)'
  BY <1>0, <1>6 DEF SweepFile
<1>7. ASSUME NEW c \in Clients, Crash(c) PROVE PlaceOK(e)'
  BY <1>0, <1>7 DEF TypeOK, Crash, Goto, Return
<1>8. ASSUME NEW c \in Clients, NEW k \in Keys, Get(c, k) PROVE PlaceOK(e)'
  BY <1>0, <1>8 DEF TypeOK, Get, Goto
<1>9. ASSUME NEW c \in Clients, NEW k \in Keys, Delete(c, k) PROVE PlaceOK(e)'
  BY <1>0, <1>9 DEF TypeOK, Delete, Goto, Names
<1>10. ASSUME NEW c \in Clients, NEW k \in Keys, NEW d \in Payloads, PutFile(c, k, d)
       PROVE  PlaceOK(e)'
  BY <1>0, <1>10 DEF TypeOK, PutFile, Goto
<1>11. CASE (\E k \in Keys : Expire(k)) \/ UNCHANGED vars
  BY <1>0, <1>11 DEF Expire, vars
<1> QED
  BY <1>1, <1>2, <1>3, <1>4, <1>5, <1>6, <1>7, <1>8, <1>9, <1>10, <1>11 DEF Next, Step

\* No step writes other content to a file: a file is removed, or gets the payload
\* it is named by.
FileStep ==
    \A n \in Names : files'[n] = files[n] \/ files'[n] = None \/ (n \in Payloads /\ files'[n] = n)

\* No step writes into a file anything but the payload it is named by.
LEMMA FilesOnlyGetTheirPayload == ContentInv /\ [Next]_vars => FileStep
<1> SUFFICES ASSUME ContentInv, [Next]_vars PROVE FileStep
  OBVIOUS
<1>0. files \in [Names -> Payloads \cup {None}]
  BY DEF ContentInv, TypeOK
<1>1. ASSUME NEW c \in Clients, NEW k \in Keys, NEW d \in Payloads, PutFile(c, k, d)
      PROVE  FileStep
  BY <1>0, <1>1 DEF FileStep, PutFile, ContentName, Names
<1>2. ASSUME NEW c \in Clients, DeleteFile(c) PROVE FileStep
  BY <1>0, <1>2 DEF FileStep, DeleteFile
<1>3. ASSUME NEW c \in Clients, NEW n \in Names, SweepFile(c, n) PROVE FileStep
  BY <1>0, <1>3 DEF FileStep, SweepFile
<1>4. CASE UNCHANGED files
  BY <1>4 DEF FileStep
<1> QED
  BY <1>1, <1>2, <1>3, <1>4 DEF Next, Step, PutCommit, GetRow, GetFile, DeleteReferenced,
     SweepList, SweepRows, SweepEnd, PutFails, SweepFails, SweepDue, Crash, Get, Delete, Expire, vars

\* Hence a file named by a payload never holds anything else.
LEMMA ContentFiles == ContentInv /\ [Next]_vars => FilesNamed'
<1> SUFFICES ASSUME ContentInv, [Next]_vars PROVE FilesNamed'
  OBVIOUS
<1>1. FileStep
  BY FilesOnlyGetTheirPayload
<1> QED
  BY <1>1, ContentCacheAssumption DEF ContentInv, FilesNamed, FileStep, Names

\* A row is new and named by its payload, or it was there before.
LEMMA ContentRows == ContentInv /\ [Next]_vars => RowsDescribe'
<1> SUFFICES ASSUME ContentInv, [Next]_vars, NEW k \in Keys, rows'[k] # None PROVE Describes(rows[k])'
  BY DEF RowsDescribe
<1> USE ContentCacheAssumption
<1>0. TypeOK /\ FilesNamed' /\ FileStep
  BY FilesOnlyGetTheirPayload, ContentFiles DEF ContentInv
<1>a. ASSUME rows'[k] = rows[k] PROVE Describes(rows[k])'
  <2>1. rows[k] \in RowType /\ Describes(rows[k])
    BY <1>a DEF ContentInv, TypeOK, RowsDescribe, RowType
  <2> QED
    BY <1>0, <1>a, <2>1 DEF FileStep, Describes, RowType
<1>1. ASSUME NEW c \in Clients, PutCommit(c) PROVE Describes(rows[k])'
  <2>1. CASE k = key[c]
    <3>1. data[c] \in Payloads /\ rows'[k] = Row(data[c], data[c])
      BY <1>0, <1>1, <2>1 DEF ContentInv, PlaceOK, PutCommit, ContentName, TypeOK
    <3> QED
      BY <1>0, <3>1 DEF Row, Describes, FilesNamed
  <2>2. CASE k # key[c]
    BY <1>0, <1>1, <1>a, <2>2 DEF PutCommit, TypeOK
  <2> QED
    BY <2>1, <2>2
<1>2. ASSUME NEW c \in Clients, NEW j \in Keys, Delete(c, j) PROVE Describes(rows[k])'
  BY <1>0, <1>2, <1>a DEF Delete, TypeOK
<1>3. ASSUME NEW c \in Clients, SweepRows(c) PROVE Describes(rows[k])'
  BY <1>3, <1>a DEF SweepRows, Unexpired
<1>4. ASSUME NEW j \in Keys, Expire(j) PROVE Describes(rows[k])'
  <2>1. CASE k = j
    <3>1. rows[j] \in RowType /\ Describes(rows[j]) /\ rows' = [rows EXCEPT ![j].expired = TRUE]
      BY <1>4 DEF ContentInv, TypeOK, RowsDescribe, RowType, Expire
    <3>2. rows'[k].name = rows[j].name /\ rows'[k].payload = rows[j].payload
      BY <1>0, <2>1, <3>1 DEF TypeOK, RowType
    <3> QED
      BY <1>0, <3>1, <3>2 DEF Describes, FileStep, RowType
  <2>2. CASE k # j
    BY <1>0, <1>4, <1>a, <2>2 DEF Expire, TypeOK
  <2> QED
    BY <2>1, <2>2
<1>5. CASE UNCHANGED rows
  BY <1>5, <1>a
<1> QED
  BY <1>1, <1>2, <1>3, <1>4, <1>5 DEF Next, Step, PutFile, DeleteFile, SweepFile, GetRow, GetFile,
     DeleteReferenced, SweepList, SweepEnd, PutFails, SweepFails, SweepDue, Crash, Get, vars

\* What a get has read of its row stays true until it opens the file.
LEMMA ContentReads == ContentInv /\ [Next]_vars => ReadDescribes'
<1> SUFFICES ASSUME ContentInv, [Next]_vars, NEW e \in Clients, pc'[e] = "file"
             PROVE  Describes(data[e])'
  BY DEF ReadDescribes
<1>0. TypeOK /\ FileStep
  BY FilesOnlyGetTheirPayload DEF ContentInv
<1>a. ASSUME pc[e] = "file", data'[e] = data[e] PROVE Describes(data[e])'
  <2>1. data[e] \in RowType /\ Describes(data[e])
    BY <1>a DEF ContentInv, PlaceOK, ReadDescribes
  <2> QED
    BY <1>0, <1>a, <2>1 DEF FileStep, Describes, RowType
<1>1. CASE GetRow(e)
  <2>1. data'[e] = rows[key[e]] /\ rows[key[e]] # None /\ key[e] \in Keys
    BY <1>0, <1>1 DEF ContentInv, PlaceOK, GetRow, TypeOK, Goto, Return
  <2>2. rows[key[e]] \in RowType /\ Describes(rows[key[e]])
    BY <2>1 DEF ContentInv, RowsDescribe, TypeOK, RowType
  <2> QED
    BY <1>0, <2>1, <2>2 DEF FileStep, Describes, RowType
<1>2. CASE ~GetRow(e)
  <2>1. pc[e] = "file" /\ data'[e] = data[e]
    BY <1>0, <1>2 DEF Next, Step, PutCommit, GetRow, GetFile, DeleteReferenced, DeleteFile, SweepList,
       SweepRows, SweepEnd, SweepReturn, SweepFile, PutFails, SweepFails, SweepDue, Crash, Get,
       Delete, PutFile, Expire, Goto, Return, TypeOK, vars
  <2> QED
    BY <1>a, <2>1
<1> QED
  BY <1>1, <1>2

\* The invariant holds of every behaviour: every variable keeps its type and every
\* name in the directory and in the index says what its file holds.
THEOREM NamesDescribeContent == Spec => []ContentInv
<1>1. ContentInv /\ [Next]_vars => ContentInv'
  BY ContentTypes, ContentPlaces, ContentFiles, ContentRows, ContentReads DEF ContentInv
<1> QED
  BY ContentInit, <1>1, PTL DEF Spec

\* A get never returns bytes of another put than the one whose row it read
\* (HitMatchesRow), whatever other clients put, delete and sweep in between.
THEOREM HitsMatchRows == Spec => []HitMatchesRow
<1>1. ContentInv => HitMatchesRow
  BY DEF ContentInv, HitMatchesRow, ReadDescribes, Describes
<1> QED
  BY NamesDescribeContent, <1>1, PTL

-----------------------------------------------------------------------------
(* A client that has the directory to itself                                *)

Alone == \A c, d \in Clients : c = d

\* What the client is about to record is there, and what it is about to remove is
\* referred to by no row.
AloneOK(c) ==
    /\ pc[c] = "commit" => files[data[c]] = data[c]
    /\ pc[c] = "remove" => data[c] \notin Known(rows)
    /\ pc[c] = "unlink" => listing[c] \cap Known(rows) = {}

AloneInv == ContentInv /\ RowsHaveContent /\ \A c \in Clients : AloneOK(c)

\* Before the first call every row of an earlier release has its file.
LEMMA AloneInit == Init => AloneInv
<1> SUFFICES ASSUME Init PROVE AloneInv
  OBVIOUS
<1> USE ContentCacheAssumption
<1>1. PICK old \in [Keys -> {None} \cup IF OldRows THEN Payloads ELSE {}] :
         /\ files = [n \in Names |-> IF n \in Keys THEN old[n] ELSE None]
         /\ rows = [k \in Keys |-> IF old[k] = None THEN None ELSE Row(k, old[k])]
  BY DEF Init
<1>2. RowsHaveContent
  BY <1>1 DEF RowsHaveContent, Row, Names
<1>3. \A c \in Clients : AloneOK(c)
  BY DEF Init, AloneOK
<1> QED
  BY ContentInit, <1>2, <1>3 DEF AloneInv

\* A row that is not new was there before, with the same file and payload.
OldRow(k) ==
    /\ rows[k] # None
    /\ rows'[k].name = rows[k].name
    /\ rows'[k].payload = rows[k].payload

\* Every row a step leaves was there before it, or is the one a put commits.
LEMMA RowsAreOldOrPut ==
    ASSUME ContentInv, [Next]_vars, NEW k \in Keys, rows'[k] # None
    PROVE  OldRow(k) \/ \E c \in Clients : PutCommit(c) /\ k = key[c]
<1>0. TypeOK
  BY DEF ContentInv
<1>1. ASSUME NEW c \in Clients, PutCommit(c), k # key[c] PROVE OldRow(k)
  BY <1>0, <1>1 DEF PutCommit, TypeOK, OldRow
<1>2. ASSUME NEW c \in Clients, NEW j \in Keys, Delete(c, j) PROVE OldRow(k)
  BY <1>0, <1>2 DEF Delete, TypeOK, OldRow
<1>3. ASSUME NEW c \in Clients, SweepRows(c) PROVE OldRow(k)
  BY <1>3 DEF SweepRows, Unexpired, OldRow
<1>4. ASSUME NEW j \in Keys, Expire(j) PROVE OldRow(k)
  <2>1. rows[j] \in RowType /\ rows' = [rows EXCEPT ![j].expired = TRUE] /\ rows[j] # None
    BY <1>0, <1>4 DEF TypeOK, RowType, Expire
  <2> QED
    BY <1>0, <2>1 DEF TypeOK, RowType, OldRow
<1>5. CASE UNCHANGED rows
  BY <1>5 DEF OldRow
<1> QED
  BY <1>1, <1>2, <1>3, <1>4, <1>5 DEF Next, Step, PutFile, DeleteFile, SweepFile, GetRow, GetFile,
     DeleteReferenced, SweepList, SweepEnd, PutFails, SweepFails, SweepDue, Crash, Get, vars

\* The client removes only files no row refers to, and records only what it wrote.
LEMMA AloneRows == Alone /\ AloneInv /\ [Next]_vars => RowsHaveContent'
<1> SUFFICES ASSUME Alone, AloneInv, [Next]_vars, NEW k \in Keys, rows'[k] # None
             PROVE  files'[rows'[k].name] = rows'[k].payload
  BY DEF RowsHaveContent
<1> USE ContentCacheAssumption
<1>0. ContentInv /\ TypeOK
  BY DEF AloneInv, ContentInv
<1>1. ASSUME NEW c \in Clients, PutCommit(c), k = key[c]
      PROVE  files'[rows'[k].name] = rows'[k].payload
  <2>1. rows'[k] = Row(data[c], data[c])
    BY <1>0, <1>1 DEF PutCommit, TypeOK, ContentName
  <2> QED
    BY <1>1, <2>1 DEF AloneInv, AloneOK, PutCommit, Row
<1>2. CASE OldRow(k)
  <2>0. files[rows[k].name] = rows[k].payload /\ rows[k].name \in Known(rows) /\ rows[k] \in RowType
    BY <1>0, <1>2 DEF AloneInv, RowsHaveContent, OldRow, Known, TypeOK, RowType
  <2>1. rows[k].name \in Names /\ rows[k].payload \in Payloads
    BY <2>0 DEF RowType
  <2>2. files'[rows[k].name] = files[rows[k].name]
    <3>1. ASSUME NEW c \in Clients, NEW j \in Keys, NEW d \in Payloads, PutFile(c, j, d)
          PROVE  files'[rows[k].name] = files[rows[k].name]
      <4>1. CASE rows[k].name = d
        BY <1>0, <1>2, <2>0, <2>1, <3>1, <4>1
           DEF PutFile, ContentName, TypeOK, OldRow, ContentInv, RowsDescribe, Describes
      <4>2. CASE rows[k].name # d
        BY <1>0, <2>1, <3>1, <4>2 DEF PutFile, ContentName, TypeOK
      <4> QED
        BY <4>1, <4>2
    <3>2. ASSUME NEW c \in Clients, DeleteFile(c) PROVE files'[rows[k].name] = files[rows[k].name]
      BY <1>0, <2>0, <2>1, <3>2 DEF DeleteFile, AloneInv, AloneOK, TypeOK
    <3>3. ASSUME NEW c \in Clients, NEW n \in Names, SweepFile(c, n)
          PROVE  files'[rows[k].name] = files[rows[k].name]
      BY <1>0, <2>0, <2>1, <3>3 DEF SweepFile, AloneInv, AloneOK, TypeOK
    <3>4. CASE UNCHANGED files
      BY <3>4
    <3> QED
      BY <3>1, <3>2, <3>3, <3>4 DEF Next, Step, PutCommit, GetRow, GetFile, DeleteReferenced,
         SweepList, SweepRows, SweepEnd, PutFails, SweepFails, SweepDue, Crash, Get, Delete, Expire, vars
  <2> QED
    BY <1>2, <2>0, <2>2 DEF OldRow
<1> QED
  BY <1>0, <1>1, <1>2, RowsAreOldOrPut

\* Nobody else acts between the check of a file and its removal.
LEMMA AlonePlaces ==
    Alone /\ AloneInv /\ [Next]_vars => (\A c \in Clients : AloneOK(c))'
<1> SUFFICES ASSUME Alone, AloneInv, [Next]_vars, NEW c \in Clients PROVE AloneOK(c)'
  OBVIOUS
<1> USE ContentCacheAssumption
<1>0. TypeOK /\ PlaceOK(c) /\ AloneOK(c) /\ \A d \in Clients : d = c
  BY DEF AloneInv, ContentInv, Alone
<1>1. ASSUME NEW k \in Keys, NEW d \in Payloads, PutFile(c, k, d) PROVE AloneOK(c)'
  BY <1>0, <1>1 DEF AloneOK, TypeOK, PutFile, Goto, ContentName, Names
<1>2. CASE DeleteReferenced(c)
  BY <1>0, <1>2 DEF AloneOK, TypeOK, DeleteReferenced, Goto, Return, Known
<1>3. CASE SweepRows(c)
  <2>1. listing'[c] \cap Known(Unexpired) = {} /\ rows' = Unexpired /\ pc'[c] = "unlink"
    BY <1>0, <1>3 DEF SweepRows, TypeOK, Goto
  <2> QED
    BY <2>1 DEF AloneOK, Known
<1>4. ASSUME NEW n \in Names, SweepFile(c, n) PROVE AloneOK(c)'
  BY <1>0, <1>4 DEF AloneOK, TypeOK, SweepFile, Known
<1>5. ASSUME NEW k \in Keys, Expire(k) PROVE AloneOK(c)'
  <2>1. rows[k] \in RowType /\ rows' = [rows EXCEPT ![k].expired = TRUE] /\ rows[k] # None
    BY <1>0, <1>5 DEF TypeOK, RowType, Expire
  <2>2. \A j \in Keys : rows'[j] # None => rows[j] # None /\ rows'[j].name = rows[j].name
    BY <1>0, <2>1 DEF TypeOK, RowType
  <2>3. Known(rows)' \subseteq Known(rows)
    BY <2>2 DEF Known
  <2> QED
    BY <1>0, <1>5, <2>3 DEF AloneOK, Expire
<1>6. CASE /\ pc'[c] \notin {"commit", "remove", "unlink"}
  BY <1>6 DEF AloneOK
<1>7. CASE UNCHANGED <<files, rows, pc, data, listing>>
  BY <1>0, <1>7 DEF AloneOK, Known
<1>8. \/ \E k \in Keys, d \in Payloads : PutFile(c, k, d)
      \/ DeleteReferenced(c) \/ SweepRows(c) \/ (\E n \in Names : SweepFile(c, n))
      \/ (\E k \in Keys : Expire(k))
      \/ pc'[c] \notin {"commit", "remove", "unlink"}
      \/ UNCHANGED <<files, rows, pc, data, listing>>
  BY <1>0 DEF Next, Step, PutCommit, GetRow, GetFile, DeleteFile, SweepList, SweepEnd, SweepReturn,
     PutFails, SweepFails, SweepDue, Crash, Get, Delete, Goto, Return, TypeOK, vars
<1> QED
  BY <1>1, <1>2, <1>3, <1>4, <1>5, <1>6, <1>7, <1>8

\* For a client alone, every row has its content, whatever commits fail and wherever
\* the process dies (RowsHaveContent).
THEOREM RowsKeepContent == Alone => (Spec => []RowsHaveContent)
<1> SUFFICES ASSUME Alone PROVE Spec => []RowsHaveContent
  OBVIOUS
<1>1. ContentInv /\ [Next]_vars => ContentInv'
  BY ContentTypes, ContentPlaces, ContentFiles, ContentRows, ContentReads DEF ContentInv
<1>2. AloneInv /\ [Next]_vars => AloneInv'
  BY <1>1, AloneRows, AlonePlaces DEF AloneInv
<1>3. AloneInv => RowsHaveContent
  BY DEF AloneInv
<1> QED
  BY AloneInit, <1>2, <1>3, PTL DEF Spec
=============================================================================
