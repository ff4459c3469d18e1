----------------------------- MODULE StateStore -----------------------------
(***************************************************************************)
(* brain/state_store.py: the interview store, in its two forms.  A table   *)
(* keeps what an InterviewState is serialised to, under a key made of the  *)
(* user's id; the fallback for local development keeps InterviewState      *)
(* objects in a dictionary, in the same heap as the ones its caller works  *)
(* on.  Both read the time to live lazily, when a row is asked for.        *)
(*                                                                         *)
(* One brain calls the store here, one call at a time; RollingDeploy has   *)
(* two brains call one table.                                              *)
(***************************************************************************)
EXTENDS Naturals

CONSTANTS
    User,     \* user ids
    Key,      \* row keys
    RowKey,   \* _sanitize_row_key, on the ids of User
    Data,     \* what an InterviewState holds, Blank when it is new
    Blank,
    None,
    Object,   \* places for InterviewState objects
    TTL,      \* TTL_SECONDS
    Horizon   \* bound: the last time of the clock

ASSUME StateStoreAssumption ==
    /\ Blank \in Data
    /\ None \notin Object
    /\ TTL \in Nat \ {0}
    /\ Horizon \in Nat
    /\ RowKey \in [User -> Key]
    /\ \A u, v \in User : RowKey[u] = RowKey[v] => u = v
    /\ None \notin [user: User, data: Data] \cup [data: Data, at: Nat]

VARIABLES
    store,  \* which store build_state_store returned
    heap,   \* the InterviewState objects of the process
    held,   \* the object the brain works on
    table,  \* the interview table: serialised states
    rows,   \* _rows of the fallback: objects
    clock

vars == <<store, heap, held, table, rows, clock>>

(* An InterviewState; expires is 0 until it is put.                        *)
State == [user: User, data: Data, expires: Nat]

(* No state: an empty row, or a place in the heap that was never used.     *)
NoRow == [user |-> None, data |-> None, expires |-> 0]

(* The state in the row of u, NoRow if there is none.                      *)
Row(u) ==
    IF store = "table" THEN table[RowKey[u]]
    ELSE IF rows[u] = None THEN NoRow ELSE heap[rows[u]]

Init ==
    /\ store \in {"table", "memory"}
    /\ heap = [o \in Object |-> NoRow]
    /\ held = None
    /\ table = [k \in Key |-> NoRow]
    /\ rows = [u \in User |-> None]
    /\ clock = 0

(* Mutant of Expired: the row is gone when its time to live is reached.    *)
ExpiredAtOnce(s) == s.expires # 0 /\ s.expires <= clock

Expired(s) == s.expires # 0 /\ s.expires < clock

(* Mutant of Referenced: the fallback's references are weak ones.          *)
ReferencedWeakly(o) == o = held

(* A place no reference leads to is free at once: Python counts them.      *)
Referenced(o) == o = held \/ \E u \in User : rows[u] = o

Unused(o) == ~ Referenced(o)

Heap(h) == heap' = [o \in Object |-> IF Referenced(o)' THEN h[o] ELSE NoRow]

(* The caller gets a new object, which holds s.                            *)
Hold(s) ==
    \E o \in Object :
        /\ Unused(o)
        /\ held' = o
        /\ UNCHANGED rows
        /\ Heap([heap EXCEPT ![o] = s])

(* The caller's object is gone.                                            *)
LetGo == held' = None /\ Heap(heap)

Removed(u) ==
    IF store = "table"
    THEN table' = [table EXCEPT ![RowKey[u]] = NoRow] /\ UNCHANGED rows
    ELSE rows' = [rows EXCEPT ![u] = None] /\ UNCHANGED table

(* A table that fails to delete is only logged.                            *)
RemovedOrNot(u) == Removed(u) \/ (store = "table" /\ UNCHANGED <<table, rows>>)
-----------------------------------------------------------------------------
(* get.                                                                    *)

GetAbsent(u) ==
    /\ Row(u) = NoRow
    /\ UNCHANGED <<store, table, rows, clock>>
    /\ LetGo

GetExpired(u) ==
    /\ Row(u) # NoRow
    /\ Expired(Row(u))
    /\ RemovedOrNot(u)
    /\ UNCHANGED <<store, clock>>
    /\ LetGo

(* Mutant of Get: the fallback returns the object it keeps.                *)
GetShares(u) ==
    /\ Row(u) # NoRow
    /\ ~ Expired(Row(u))
    /\ UNCHANGED <<store, table, clock>>
    /\ IF store = "table" THEN Hold(Row(u))
       ELSE held' = rows[u] /\ UNCHANGED rows /\ Heap(heap)

(* Either store gives a new object: what was parsed, or a deep copy.       *)
Get(u) ==
    /\ Row(u) # NoRow
    /\ ~ Expired(Row(u))
    /\ UNCHANGED <<store, table, clock>>
    /\ Hold(Row(u))

(* The brain is done with the message, or the table raised on get and the  *)
(* message is abandoned.                                                   *)
Release ==
    /\ UNCHANGED <<store, table, rows, clock>>
    /\ LetGo
-----------------------------------------------------------------------------
(* What the brain does with its object.                                    *)

Create(u) ==
    /\ UNCHANGED <<store, table, clock>>
    /\ Hold([user |-> u, data |-> Blank, expires |-> 0])

Edit(d) ==
    /\ held # None
    /\ heap' = [heap EXCEPT ![held].data = d]
    /\ UNCHANGED <<store, held, table, rows, clock>>
-----------------------------------------------------------------------------
(* put, delete.                                                            *)

(* put writes the time into the caller's object before it stores it.       *)
Stamped == [heap[held] EXCEPT !.expires = clock + TTL]

PutTable ==
    /\ store = "table"
    /\ held # None
    /\ heap' = [heap EXCEPT ![held] = Stamped]
    /\ table' = [table EXCEPT ![RowKey[heap[held].user]] = Stamped]
    /\ UNCHANGED <<store, held, rows, clock>>

(* The upsert raises: the row may have been written.                       *)
PutTableFails ==
    /\ store = "table"
    /\ held # None
    /\ heap' = [heap EXCEPT ![held] = Stamped]
    /\ table' \in {table, [table EXCEPT ![RowKey[heap[held].user]] = Stamped]}
    /\ UNCHANGED <<store, held, rows, clock>>

(* Mutant of PutMemory: the fallback keeps the caller's object.            *)
PutMemoryShares ==
    /\ store = "memory"
    /\ held # None
    /\ rows' = [rows EXCEPT ![heap[held].user] = held]
    /\ UNCHANGED <<store, held, table, clock>>
    /\ Heap([heap EXCEPT ![held] = Stamped])

PutMemory ==
    /\ store = "memory"
    /\ held # None
    /\ UNCHANGED <<store, held, table, clock>>
    /\ \E o \in Object :
          /\ Unused(o)
          /\ rows' = [rows EXCEPT ![heap[held].user] = o]
          /\ Heap([heap EXCEPT ![held] = Stamped, ![o] = Stamped])

Delete(u) ==
    /\ RemovedOrNot(u)
    /\ UNCHANGED <<store, held, clock>>
    /\ Heap(heap)
-----------------------------------------------------------------------------
Tick ==
    /\ clock < Horizon
    /\ clock' = clock + 1
    /\ UNCHANGED <<store, heap, held, table, rows>>

(* The process is replaced: its heap is gone, a table is not.              *)
Restart ==
    /\ rows' = [u \in User |-> None]
    /\ UNCHANGED <<store, table, clock>>
    /\ LetGo

Next ==
    \/ \E u \in User :
          GetAbsent(u) \/ GetExpired(u) \/ Get(u) \/ Create(u) \/ Delete(u)
    \/ \E d \in Data : Edit(d)
    \/ Release \/ PutTable \/ PutTableFails \/ PutMemory \/ Tick \/ Restart

Spec == Init /\ [][Next]_vars
-----------------------------------------------------------------------------
(* Properties.                                                             *)

TypeOK ==
    /\ store \in {"table", "memory"}
    /\ heap \in [Object -> State \cup {NoRow}]
    /\ held \in Object \cup {None}
    /\ table \in [Key -> State \cup {NoRow}]
    /\ rows \in [User -> Object \cup {None}]
    /\ clock \in Nat
    /\ held # None => heap[held] \in State
    /\ \A u \in User :
          /\ rows[u] # None => heap[rows[u]] \in State /\ heap[rows[u]].user = u
          /\ table[RowKey[u]] # NoRow => table[RowKey[u]].user = u

(* What UserStore sees of a row, and of the caller's object.               *)
KeptRow(u) ==
    IF Row(u) = NoRow \/ Expired(Row(u)) THEN None
    ELSE [data |-> Row(u).data, at |-> Row(u).expires - TTL]

Kept == [u \in User |-> KeptRow(u)]
Copy == IF held = None THEN None ELSE [user |-> heap[held].user, data |-> heap[held].data]

Promise == INSTANCE UserStore WITH
    kept <- Kept, copy <- Copy, now <- clock, durable <- (store = "table")

(* Either store keeps the promise of UserStore: a row is what was last put *)
(* for its user, whatever the caller did to its object since, for exactly  *)
(* the time to live; a failed call does all of its work or none            *)
(* (state_store.py:158-161, "Same async interface", and 173, "Match Table  *)
(* semantics").                                                            *)
KeepsRows == Promise!Spec
=============================================================================
