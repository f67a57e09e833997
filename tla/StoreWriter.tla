----------------------------- MODULE StoreWriter -----------------------------
(***************************************************************************)
(* How the processes share the canonical store: the service, the chat and  *)
(* the owner's commands each hold one connection to one SQLite file        *)
(* (packages/backend/src/canonical-store.ts).  A transaction takes the     *)
(* write lock, reads a whole state, lets a closure change a copy, and      *)
(* writes the difference table by table; snapshots are read again inside   *)
(* it.  Outside a transaction a snapshot is one query per table, and       *)
(* another process may commit between two of them.  Audit events are       *)
(* append-only, so each process keeps those it has read and asks only for  *)
(* newer row numbers, which SQLite gives out again after a rollback.       *)
(*                                                                         *)
(* A run has one wallet here, so a table is the set of the runs it has a   *)
(* row for.  The row number of an audit event is its place in `rows'; the  *)
(* readers' sorting by time is left out.  The receipts are the engine's    *)
(* (persistEngineReceipt), which alone have an accounting row; what a pass *)
(* of the coordinator stores besides its record is in ExecutionControl and *)
(* L2Settlement.                                                           *)
(***************************************************************************)
EXTENDS Naturals, Sequences

CONSTANTS
  Connections,  \* the processes with the store open
  StoreRuns,
  Transactions  \* bound: transactions begun in a behaviour

ASSUME TransactionsAssumption == Transactions \in Nat

Free == "free"
ASSUME ConnectionsAssumption == Free \notin Connections \cup StoreRuns

(* The order in which persistDelta writes and snapshot reads, and the table *)
(* whose row a new row must find.                                           *)
Tables == <<"runs", "intents", "attempts", "receipts", "recs", "events", "killed">>
RowTables == {"runs", "intents", "attempts", "receipts", "recs"}
Parent == [intents |-> "runs", attempts |-> "intents", receipts |-> "attempts", recs |-> "attempts"]

VARIABLES
  rows,    \* audit_event: the committed rows
  store,   \* the other tables, committed
  lock,    \* who holds SQLite's write lock
  txn,     \* the open transaction: what it read, wants, has written, and its own audit rows
  opened,  \* the processes that run, their store open
  cache,   \* eventCache, eventCacheRowid and eventCacheTail
  view,    \* a snapshot being read outside a transaction
  begun    \* transactions begun; an audit row's id is a fresh one

storeVars == <<rows, store, lock, txn, opened, cache, view, begun>>

Row == [id : Nat \X Nat, run : StoreRuns, kind : {"event", "accounting"}]
State == [runs : SUBSET StoreRuns, intents : SUBSET StoreRuns, attempts : SUBSET StoreRuns,
          receipts : SUBSET StoreRuns, recs : SUBSET StoreRuns, killed : BOOLEAN]
Works == {"prepare", "attempt", "receipt", "reconcile", "kill"}

NoState == [runs |-> {}, intents |-> {}, attempts |-> {}, receipts |-> {}, recs |-> {}, killed |-> FALSE]
NoCache == [seen |-> <<>>, rowid |-> 0, id |-> <<0, 0>>]
NoView == [at |-> 0, state |-> NoState, events |-> <<>>]
NoTxn == [work |-> "none", run |-> Free, at |-> 0, copy |-> NoState, next |-> NoState, written |-> NoState, added |-> <<>>]
LastTable == 7

StoreTypeOK ==
  /\ rows \in Seq(Row) /\ store \in State
  /\ lock \in Connections \cup {Free}
  /\ txn \in [work : Works \cup {"none"}, run : StoreRuns \cup {Free}, at : 0 .. LastTable + 1,
              copy : State, next : State, written : State, added : Seq(Row)]
  /\ opened \subseteq Connections
  /\ cache \in [Connections -> [seen : Seq(Row), rowid : Nat, id : Nat \X Nat]]
  /\ view \in [Connections -> [at : 0 .. LastTable, state : State, events : Seq(Row)]]
  /\ begun \in 0 .. Transactions

StoreInit ==
  /\ rows = <<>> /\ store = NoState /\ lock = Free /\ opened = {} /\ begun = 0
  /\ txn = NoTxn
  /\ cache = [p \in Connections |-> NoCache]
  /\ view = [p \in Connections |-> NoView]

-----------------------------------------------------------------------------
(* The event cache *)

\* What a connection sees of audit_event: WAL shows its own uncommitted rows to the writer alone.
Visible(p) == IF lock = p THEN rows \o txn.added ELSE rows

\* readEvents, first half: the last row that was read is still there, with its id; else start over.
Trusted(c, seen) ==
  IF c.rowid > 0 /\ ~(c.rowid <= Len(seen) /\ seen[c.rowid].id = c.id) THEN NoCache ELSE c

\* Mutant: the rows are kept but not counted, and the next read appends them again.
RefreshedUncounted(c, seen) ==
  LET old == Trusted(c, seen)
  IN [old EXCEPT !.seen = @ \o SubSeq(seen, old.rowid + 1, Len(seen))]

\* readEvents: only the rows beyond the last row number are read.
Refreshed(c, seen) ==
  LET old == Trusted(c, seen)
  IN [seen |-> old.seen \o SubSeq(seen, old.rowid + 1, Len(seen)),
      rowid |-> Len(seen),
      id |-> IF Len(seen) > 0 THEN seen[Len(seen)].id ELSE NoCache.id]

Refresh(p) == cache' = [cache EXCEPT ![p] = Refreshed(@, Visible(p))]

-----------------------------------------------------------------------------
(* A transaction *)

\* persistEngineAttempt and persistEngineReceipt check the identity before they ask for the lock.
Identified(work, r) ==
  /\ work = "attempt" => r \in store.intents
  /\ work = "receipt" => r \in store.attempts
  /\ work = "reconcile" => r \in store.runs

\* The process is not in the middle of a snapshot: nothing between its queries gives way.
AtRest(p) == p \in opened /\ lock # p /\ view[p].at \in {0, LastTable}

\* BEGIN IMMEDIATE and the first snapshot.  Who waits too long for the lock throws and changes nothing.
Begin(p, work, r) ==
  /\ AtRest(p) /\ lock = Free /\ begun < Transactions /\ Identified(work, r)
  /\ lock' = p /\ begun' = begun + 1
  /\ txn' = [NoTxn EXCEPT !.work = work, !.run = r, !.copy = store, !.next = store, !.written = store]
  /\ Refresh(p)
  /\ UNCHANGED <<rows, store, opened, view>>

\* What the closure makes of its copy.  What is there already is left as it is.
Wanted(work, r, s) ==
  CASE work = "prepare" -> [s EXCEPT !.runs = @ \cup {r}, !.intents = @ \cup {r}]
    [] work = "attempt" -> [s EXCEPT !.attempts = @ \cup {r}]
    [] work = "receipt" -> [s EXCEPT !.receipts = @ \cup {r}]
    [] work = "reconcile" -> [s EXCEPT !.recs = @ \cup {r}]
    [] OTHER -> [s EXCEPT !.killed = TRUE]

NewRow(kind) == [id |-> <<begun, Len(txn.added) + 1>>, run |-> txn.run, kind |-> kind]

\* A receipt's accounting row is written by the closure itself, and only with a new receipt.
Accounts == txn.work = "receipt" /\ txn.run \notin txn.copy.receipts

Mutate(p) ==
  /\ lock = p /\ txn.at = 0
  /\ txn' = [txn EXCEPT !.at = 1, !.next = Wanted(txn.work, txn.run, txn.copy),
                        !.added = IF Accounts THEN Append(@, NewRow("accounting")) ELSE @]
  /\ UNCHANGED <<rows, store, lock, opened, cache, view, begun>>

\* persistIntent looks its run up, and persistReconciliation its run and its attempt, in a new snapshot.
LooksUp(t) == t \in {"intents", "recs"} /\ txn.next[t] \ txn.copy[t] # {}

\* A reconciliation without an attempt is left out, any other row without its parent throws.
ToWrite(t) == IF t = "recs" THEN txn.written.recs \cup (txn.next.recs \cap txn.written.attempts) ELSE txn.next[t]
Fits(t) == t # "runs" => ToWrite(t) \subseteq txn.written[Parent[t]] \cup txn.copy[t]

\* persistDelta on one table of records.
PersistTable(p) ==
  \E t \in RowTables :
     /\ lock = p /\ txn.at \in 1 .. LastTable
     /\ t = Tables[txn.at] /\ Fits(t)
     /\ IF LooksUp(t) THEN Refresh(p) ELSE UNCHANGED cache
     /\ txn' = [txn EXCEPT !.at = @ + 1, !.written[t] = ToWrite(t)]
     /\ UNCHANGED <<rows, store, lock, opened, view, begun>>

\* A kill, a prepared run and a pass over a run push an event; the engine's records do not.
Tells == txn.work \in {"reconcile", "kill"} \/ (txn.work = "prepare" /\ txn.next # txn.copy)

PersistEvents(p) ==
  /\ lock = p /\ txn.at \in 1 .. LastTable /\ Tables[txn.at] = "events"
  /\ txn' = [txn EXCEPT !.at = @ + 1, !.added = IF Tells THEN Append(@, NewRow("event")) ELSE @]
  /\ UNCHANGED <<rows, store, lock, opened, cache, view, begun>>

\* The switch is only ever set here; releaseKillSwitch clears it outside a transaction.
PersistKill(p) ==
  /\ lock = p /\ txn.at \in 1 .. LastTable /\ Tables[txn.at] = "killed"
  /\ txn' = [txn EXCEPT !.at = @ + 1, !.written.killed = IF txn.next.killed THEN TRUE ELSE @]
  /\ UNCHANGED <<rows, store, lock, opened, cache, view, begun>>

\* A snapshot by the connection that holds the lock, as the closure's own code may ask for one.
ReadInside(p) ==
  /\ lock = p /\ Refresh(p)
  /\ UNCHANGED <<rows, store, lock, txn, opened, view, begun>>

Commit(p) ==
  /\ lock = p /\ txn.at = LastTable + 1
  /\ rows' = rows \o txn.added /\ store' = txn.written
  /\ lock' = Free /\ txn' = NoTxn
  /\ UNCHANGED <<opened, cache, view, begun>>

\* The closure or a write throws.  The cache keeps what it has read.
Rollback(p) ==
  /\ lock = p /\ lock' = Free /\ txn' = NoTxn
  /\ UNCHANGED <<rows, store, opened, cache, view, begun>>

-----------------------------------------------------------------------------
(* A snapshot outside a transaction: one query after the other *)

\* readIntents, readAttempts and readReceipts drop what belongs to no run read before.
OfRuns(t, found, s) == IF t \in {"intents", "attempts", "receipts"} THEN found \cap s.runs ELSE found

\* The position of a query that follows another one; a new snapshot starts from nothing.
NextAt(p) == IF view[p].at = LastTable THEN 1 ELSE view[p].at + 1
Before(p) == IF NextAt(p) = 1 THEN NoState ELSE view[p].state

ReadTable(p) ==
  LET t == Tables[NextAt(p)]
  IN /\ p \in opened /\ lock # p
     /\ IF t = "events"
          THEN /\ Refresh(p)
               /\ view' = [view EXCEPT ![p].at = NextAt(p), ![p].events = cache'[p].seen]
          ELSE /\ UNCHANGED cache
               /\ view' = [view EXCEPT ![p].at = NextAt(p),
                    ![p].state = [Before(p) EXCEPT ![t] = IF t = "killed" THEN store.killed
                                                          ELSE OfRuns(t, store[t], Before(p))]]
     /\ UNCHANGED <<rows, store, lock, txn, opened, begun>>

\* open: the process starts with an empty cache.
OpenStore(p) ==
  /\ p \notin opened /\ opened' = opened \cup {p}
  /\ UNCHANGED <<rows, store, lock, txn, cache, view, begun>>

\* The process ends; SQLite rolls its transaction back.
ProcessEnds(p) ==
  /\ p \in opened /\ opened' = opened \ {p}
  /\ cache' = [cache EXCEPT ![p] = NoCache] /\ view' = [view EXCEPT ![p] = NoView]
  /\ IF lock = p THEN lock' = Free /\ txn' = NoTxn ELSE UNCHANGED <<lock, txn>>
  /\ UNCHANGED <<rows, store, begun>>

StoreNext == \E p \in Connections :
  \/ \E work \in Works, r \in StoreRuns : Begin(p, work, r)
  \/ Mutate(p) \/ PersistTable(p) \/ PersistEvents(p) \/ PersistKill(p)
  \/ ReadInside(p) \/ Commit(p) \/ Rollback(p)
  \/ ReadTable(p) \/ OpenStore(p) \/ ProcessEnds(p)

StoreSpec == StoreInit /\ [][StoreNext]_storeVars

-----------------------------------------------------------------------------
(* Properties *)

\* Whatever was rolled back and whoever wrote since, the next read of the events shows the stored
\* rows, each once and in their places (readEvents and its check of the last row).
EventsAsStored == \A p \in opened : Refreshed(cache[p], Visible(p)).seen = Visible(p)

\* The copy a transaction changes is the state it will replace: no update is lost.
CopyIsCurrent == lock # Free => txn.copy = store

\* A stored record has the record it belongs to, and an accounting row stands for one receipt.
AccountingOf(r) == {i \in DOMAIN rows : rows[i].kind = "accounting" /\ rows[i].run = r}
RecordsBelong ==
  /\ \A t \in RowTables \ {"runs"} : store[t] \subseteq store[Parent[t]]
  /\ \A i, j \in DOMAIN rows : rows[i].kind = "accounting" =>
       /\ rows[i].run \in store.receipts
       /\ rows[j].kind = "accounting" /\ rows[j].run = rows[i].run => i = j
  /\ \A r \in store.receipts : AccountingOf(r) # {}

\* A snapshot read while others commit has the intent of every run it shows, no attempt or receipt
\* without them, and the event that told of the run.
SnapshotsClose == \A p \in Connections : LET v == view[p] IN
  /\ v.at >= 2 => v.state.intents = v.state.runs
  /\ v.state.attempts \cup v.state.receipts \subseteq v.state.runs
  /\ v.at >= 6 => \A r \in v.state.runs : \E i \in DOMAIN v.events : v.events[i].run = r /\ v.events[i].kind = "event"

StoreSafety == StoreTypeOK /\ EventsAsStored /\ CopyIsCurrent /\ RecordsBelong /\ SnapshotsClose
=============================================================================
