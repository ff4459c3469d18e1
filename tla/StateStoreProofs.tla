-------------------------- MODULE StateStoreProofs --------------------------
(***************************************************************************)
(* Proofs about StateStore, for any users, keys, contents, objects, time   *)
(* to live and horizon: it keeps its types, and it implements UserStore.   *)
(***************************************************************************)
EXTENDS StateStore, TLAPS

(* The fallback shares no object with its caller.                          *)
Apart == \A u \in User : rows[u] # None => rows[u] # held

(* A row has been put, and so has a time to live.                          *)
Stamps == \A u \in User : Row(u) # NoRow => Row(u).expires >= TTL

SInv == TypeOK /\ Apart /\ Stamps

Heaps == [Object -> State \cup {NoRow}]
-----------------------------------------------------------------------------
(* The heap.                                                               *)

(* Setting the heap keeps what is still referenced, and nothing else.      *)
LEMMA HeapKeeps ==
    ASSUME NEW h \in Heaps, Heap(h)
    PROVE  /\ heap' \in Heaps
           /\ held' \in Object => heap'[held'] = h[held']
           /\ \A u \in User : rows'[u] \in Object => heap'[rows'[u]] = h[rows'[u]]
  BY DEF Heaps, Heap, Referenced

(* A new object is one nobody else refers to.                              *)
LEMMA HoldKeeps ==
    ASSUME TypeOK, NEW s \in State, Hold(s)
    PROVE  /\ rows' = rows
           /\ heap' \in Heaps
           /\ held' \in Object
           /\ heap'[held'] = s
           /\ \A u \in User : rows[u] # None => /\ rows[u] # held'
                                                /\ heap'[rows[u]] = heap[rows[u]]
<1>1. PICK o \in Object :
        Unused(o) /\ held' = o /\ rows' = rows /\ Heap([heap EXCEPT ![o] = s])
  BY DEF Hold
<1>2. heap \in Heaps /\ rows \in [User -> Object \cup {None}]
  BY DEF TypeOK, Heaps
<1>3. [heap EXCEPT ![o] = s] \in Heaps
  BY <1>2 DEF Heaps
<1>4. \A u \in User : rows[u] # o
  BY <1>1 DEF Unused, Referenced
<1>5. /\ heap' \in Heaps
      /\ heap'[o] = s
      /\ \A u \in User : rows[u] \in Object => heap'[rows[u]] = [heap EXCEPT ![o] = s][rows[u]]
  BY <1>1, <1>2, <1>3, HeapKeeps DEF Heaps
<1> QED
  BY <1>1, <1>2, <1>4, <1>5 DEF Heaps

(* Letting the caller's object go leaves every row that is kept.           *)
LEMMA LetGoKeeps ==
    ASSUME TypeOK, LetGo
    PROVE  /\ held' = None
           /\ heap' \in Heaps
           /\ \A u \in User : rows'[u] \in Object => heap'[rows'[u]] = heap[rows'[u]]
<1>1. heap \in Heaps
  BY DEF TypeOK, Heaps
<1> QED
  BY <1>1, HeapKeeps DEF LetGo

(* Removing one row, or failing to, leaves the others.                     *)
LEMMA RemovedKeeps ==
    ASSUME TypeOK, NEW u \in User, RemovedOrNot(u)
    PROVE  /\ table' \in [Key -> State \cup {NoRow}]
           /\ rows' \in [User -> Object \cup {None}]
           /\ \A v \in User \ {u} : table'[RowKey[v]] = table[RowKey[v]] /\ rows'[v] = rows[v]
           /\ table'[RowKey[u]] \in {table[RowKey[u]], NoRow} /\ rows'[u] \in {rows[u], None}
           /\ \/ store = "table" /\ table'[RowKey[u]] = NoRow
              \/ store # "table" /\ rows'[u] = None
              \/ table' = table /\ rows' = rows
<1>1. RowKey \in [User -> Key] /\ \A v, w \in User : RowKey[v] = RowKey[w] => v = w
  BY StateStoreAssumption DEF StateStoreAssumption
<1> QED
  BY <1>1 DEF RemovedOrNot, Removed, TypeOK
-----------------------------------------------------------------------------
(* The types and the invariant.                                            *)

LEMMA RowType ==
    ASSUME TypeOK, NEW u \in User, Row(u) # NoRow
    PROVE  Row(u) \in State /\ Row(u).user = u
<1>1. RowKey[u] \in Key
  BY StateStoreAssumption DEF StateStoreAssumption
<1> QED
  BY <1>1 DEF Row, TypeOK

(* A row is the same if its cell, and the object the cell leads to, are.   *)
LEMMA RowSame ==
    ASSUME NEW u \in User, store' = store,
           store = "table" => table'[RowKey[u]] = table[RowKey[u]],
           store # "table" => /\ rows'[u] = rows[u]
                              /\ rows[u] # None => heap'[rows[u]] = heap[rows[u]]
    PROVE  Row(u)' = Row(u)
  BY DEF Row

(* What put stores.                                                        *)
LEMMA StampedType ==
    ASSUME TypeOK, held # None
    PROVE  /\ Stamped \in State
           /\ Stamped.user = heap[held].user
           /\ Stamped.data = heap[held].data
           /\ Stamped.expires = clock + TTL
           /\ heap[held].user \in User
           /\ [heap EXCEPT ![held] = Stamped] \in Heaps
<1>1. heap[held] \in State /\ heap \in Heaps /\ clock \in Nat /\ TTL \in Nat
  BY StateStoreAssumption DEF TypeOK, Heaps, StateStoreAssumption
<1>2. /\ Stamped \in State
      /\ Stamped.user = heap[held].user
      /\ Stamped.data = heap[held].data
      /\ Stamped.expires = clock + TTL
      /\ heap[held].user \in User
  BY <1>1 DEF Stamped, State
<1> QED
  BY <1>1, <1>2 DEF Heaps
-----------------------------------------------------------------------------
(* What the kinds of step do to the invariant and to what UserStore sees.  *)

LEMMA KeptSame ==
    ASSUME NEW u \in User, Row(u)' = Row(u), clock' = clock
    PROVE  KeptRow(u)' = KeptRow(u)
  BY DEF KeptRow, Expired

(* Steps that leave every row alone.                                       *)
LEMMA RowsStay ==
    ASSUME SInv,
           store' = store, table' = table, rows' = rows, clock' = clock,
           heap' \in Heaps,
           held' = None \/ (held' \in Object /\ heap'[held'] \in State),
           \A u \in User : rows[u] # None => /\ rows[u] # held'
                                             /\ heap'[rows[u]] = heap[rows[u]]
    PROVE  SInv' /\ Kept' = Kept
<1>1. \A u \in User : Row(u)' = Row(u)
  BY RowSame
<1>2. Kept' = Kept
  BY <1>1, KeptSame DEF Kept
<1>3. Apart' /\ Stamps'
  BY <1>1 DEF SInv, Apart, Stamps
<1>4. TypeOK'
  BY DEF SInv, TypeOK, Heaps
<1> QED
  BY <1>2, <1>3, <1>4 DEF SInv

(* Steps that put the caller's object, into a row of its own.              *)
LEMMA RowIsPut ==
    ASSUME SInv, held # None,
           store' = store, held' = held, clock' = clock,
           heap' \in Heaps, heap'[held] = Stamped,
           \/ /\ store = "table"
              /\ rows' = rows
              /\ table' = [table EXCEPT ![RowKey[heap[held].user]] = Stamped]
              /\ \A u \in User : rows[u] # None => heap'[rows[u]] = heap[rows[u]]
           \/ /\ store # "table"
              /\ table' = table
              /\ \E o \in Object :
                    /\ Unused(o)
                    /\ rows' = [rows EXCEPT ![heap[held].user] = o]
                    /\ heap'[o] = Stamped
                    /\ \A u \in User \ {heap[held].user} :
                          rows[u] # None => heap'[rows[u]] = heap[rows[u]]
    PROVE  SInv' /\ Copy' = Copy
           /\ Kept' = [Kept EXCEPT ![heap[held].user] = [data |-> heap[held].data, at |-> clock]]
<1>0. /\ RowKey \in [User -> Key] /\ \A u, v \in User : RowKey[u] = RowKey[v] => u = v
      /\ TTL \in Nat \ {0} /\ clock \in Nat /\ None \notin Object
  BY StateStoreAssumption DEF StateStoreAssumption, SInv, TypeOK
<1>w. PICK w \in User : w = heap[held].user
  BY StampedType DEF SInv
<1>1. /\ Stamped \in State /\ Stamped.user = w /\ Stamped.data = heap[held].data
      /\ Stamped.expires = clock + TTL /\ w \in User
  BY <1>w, StampedType DEF SInv
<1>2. TypeOK /\ Apart /\ Stamps
  BY DEF SInv
<1>3. Row(w)' = Stamped /\ \A u \in User \ {w} : Row(u)' = Row(u)
  <2>1. CASE store = "table"
    <3>1. /\ table' = [table EXCEPT ![RowKey[w]] = Stamped] /\ store' = "table"
          /\ table \in [Key -> State \cup {NoRow}]
      BY <1>w, <2>1, <1>2 DEF TypeOK
    <3>2. Row(w)' = Stamped
      BY <3>1, <1>0, <1>1 DEF Row
    <3>3. \A u \in User \ {w} : Row(u)' = Row(u)
      BY <3>1, <2>1, <1>0, <1>1 DEF Row
    <3> QED
      BY <3>2, <3>3
  <2>2. CASE store # "table"
    <3>1. PICK o \in Object :
            /\ Unused(o) /\ rows' = [rows EXCEPT ![w] = o] /\ heap'[o] = Stamped
            /\ \A u \in User \ {w} : rows[u] # None => heap'[rows[u]] = heap[rows[u]]
      BY <1>w, <2>2
    <3>2. rows'[w] = o /\ \A u \in User \ {w} : rows'[u] = rows[u]
      BY <3>1, <1>1, <1>2 DEF TypeOK
    <3>3. o # None
      BY <1>0
    <3>4. Row(w)' = Stamped
      BY <2>2, <3>1, <3>2, <3>3 DEF Row
    <3>5. \A u \in User \ {w} : Row(u)' = Row(u)
      BY <2>2, <3>1, <3>2, RowSame
    <3> QED
      BY <3>4, <3>5
  <2> QED
    BY <2>1, <2>2
<1>4. Stamps'
  <2>1. Row(w)'.expires >= TTL
    <3>1. Row(w)'.expires = clock + TTL
      BY <1>1, <1>3
    <3> QED
      BY <1>0, <3>1
  <2>2. \A u \in User \ {w} : Row(u)' # NoRow => Row(u)'.expires >= TTL
    BY <1>2, <1>3 DEF Stamps
  <2> QED
    BY <2>1, <2>2 DEF Stamps
<1>5. TypeOK' /\ Apart'
  <2>1. CASE store = "table"
    <3>1. /\ table' \in [Key -> State \cup {NoRow}]
          /\ table'[RowKey[w]] = Stamped
          /\ \A u \in User \ {w} : table'[RowKey[u]] = table[RowKey[u]]
      BY <1>w, <2>1, <1>0, <1>1, <1>2 DEF TypeOK
    <3>2. \A u \in User : table'[RowKey[u]] # NoRow => table'[RowKey[u]].user = u
      BY <3>1, <1>1, <1>2 DEF TypeOK
    <3> QED
      BY <2>1, <3>1, <3>2, <1>1, <1>2 DEF TypeOK, Heaps, Apart
  <2>2. CASE store # "table"
    <3>1. PICK o \in Object :
            /\ Unused(o) /\ rows' = [rows EXCEPT ![w] = o] /\ heap'[o] = Stamped
            /\ \A u \in User \ {w} : rows[u] # None => heap'[rows[u]] = heap[rows[u]]
      BY <1>w, <2>2
    <3>2. rows'[w] = o /\ \A u \in User \ {w} : rows'[u] = rows[u]
      BY <3>1, <1>1, <1>2 DEF TypeOK
    <3>3. o # held
      BY <3>1 DEF Unused, Referenced
    <3>4. rows' \in [User -> Object \cup {None}]
      BY <3>1, <1>1, <1>2 DEF TypeOK
    <3>5. \A u \in User : rows'[u] # None => /\ heap'[rows'[u]] \in State
                                             /\ heap'[rows'[u]].user = u
                                             /\ rows'[u] # held
      <4> SUFFICES ASSUME NEW u \in User, rows'[u] # None
                   PROVE  /\ heap'[rows'[u]] \in State
                          /\ heap'[rows'[u]].user = u
                          /\ rows'[u] # held
        OBVIOUS
      <4>1. CASE u = w
        BY <4>1, <3>1, <3>2, <3>3, <1>1
      <4>2. CASE u # w
        BY <4>2, <3>1, <3>2, <1>2 DEF TypeOK, Apart
      <4> QED
        BY <4>1, <4>2
    <3> QED
      BY <2>2, <3>4, <3>5, <1>1, <1>2 DEF TypeOK, Heaps, Apart
  <2> QED
    BY <2>1, <2>2
<1>6. Copy' = Copy
  BY <1>w, <1>1 DEF Copy
<1>7. KeptRow(w)' = [data |-> heap[held].data, at |-> clock]
  <2>1. Row(w)'.expires = clock + TTL /\ Row(w)'.data = heap[held].data
    BY <1>1, <1>3
  <2>2. Row(w)' # NoRow
    BY <2>1, <1>0 DEF NoRow
  <2>3. ~ Expired(Row(w))'
    BY <2>1, <1>0 DEF Expired
  <2> QED
    BY <2>1, <2>2, <2>3, <1>0 DEF KeptRow
<1>8. \A u \in User \ {w} : KeptRow(u)' = KeptRow(u)
  BY <1>3, KeptSame
<1>9. Kept' = [Kept EXCEPT ![w] = [data |-> heap[held].data, at |-> clock]]
  BY <1>1, <1>7, <1>8 DEF Kept
<1> QED
  BY <1>w, <1>4, <1>5, <1>6, <1>9 DEF SInv

(* Steps after which the row of u is gone, or all is as it was.            *)
LEMMA RowIsGone ==
    ASSUME SInv, NEW u \in User, RemovedOrNot(u),
           store' = store, clock' = clock, heap' \in Heaps,
           held' = None \/ (held' = held /\ (held # None => heap'[held] = heap[held])),
           \A v \in User : rows'[v] \in Object => heap'[rows'[v]] = heap[rows'[v]]
    PROVE  /\ SInv'
           /\ \A v \in User \ {u} : KeptRow(v)' = KeptRow(v)
           /\ KeptRow(u)' \in {KeptRow(u), None}
           /\ KeptRow(u)' # KeptRow(u) => Kept' = [Kept EXCEPT ![u] = None]
<1>1. TypeOK /\ Apart /\ Stamps
  BY DEF SInv
<1>2. /\ table' \in [Key -> State \cup {NoRow}]
      /\ rows' \in [User -> Object \cup {None}]
      /\ \A v \in User \ {u} : table'[RowKey[v]] = table[RowKey[v]] /\ rows'[v] = rows[v]
      /\ table'[RowKey[u]] \in {table[RowKey[u]], NoRow} /\ rows'[u] \in {rows[u], None}
      /\ \/ store = "table" /\ table'[RowKey[u]] = NoRow
         \/ store # "table" /\ rows'[u] = None
         \/ table' = table /\ rows' = rows
  BY <1>1, RemovedKeeps
<1>3. rows \in [User -> Object \cup {None}] /\ RowKey[u] \in Key
  BY <1>1, StateStoreAssumption DEF TypeOK, StateStoreAssumption
<1>4. \A v \in User \ {u} : Row(v)' = Row(v)
  BY <1>2, <1>3, RowSame
<1>5. Row(u)' \in {Row(u), NoRow}
  BY <1>2, <1>3 DEF Row
<1>6. TypeOK' /\ Apart' /\ Stamps'
  <2>1. \A v \in User : rows'[v] # None => /\ heap'[rows'[v]] \in State
                                           /\ heap'[rows'[v]].user = v
                                           /\ rows'[v] # held'
    BY <1>1, <1>2 DEF TypeOK, Apart
  <2>2. \A v \in User : table'[RowKey[v]] # NoRow => table'[RowKey[v]].user = v
    BY <1>1, <1>2 DEF TypeOK
  <2>3. Stamps'
    BY <1>1, <1>4, <1>5 DEF Stamps
  <2> QED
    BY <1>1, <1>2, <2>1, <2>2, <2>3 DEF TypeOK, Heaps, Apart
<1>7. \A v \in User \ {u} : KeptRow(v)' = KeptRow(v)
  BY <1>4, KeptSame
<1>8. KeptRow(u)' \in {KeptRow(u), None}
  <2>1. CASE Row(u)' = Row(u)
    BY <2>1, KeptSame
  <2>2. CASE Row(u)' = NoRow
    BY <2>2 DEF KeptRow
  <2> QED
    BY <1>5, <2>1, <2>2
<1>9. KeptRow(u)' = None => Kept' = [Kept EXCEPT ![u] = None]
  BY <1>7 DEF Kept
<1> QED
  BY <1>6, <1>7, <1>8, <1>9 DEF SInv
-----------------------------------------------------------------------------
(* The steps.                                                              *)

(* Initially there is no row and no object.                                *)
LEMMA InitInv == Init => SInv /\ Promise!Init
<1> SUFFICES ASSUME Init PROVE SInv /\ Promise!Init
  OBVIOUS
<1>0. RowKey \in [User -> Key] /\ held = None
  BY StateStoreAssumption DEF StateStoreAssumption, Init
<1>1. \A u \in User : rows[u] = None /\ table[RowKey[u]] = NoRow /\ Row(u) = NoRow
  BY <1>0 DEF Init, Row
<1>2. SInv
  BY <1>1 DEF Init, SInv, TypeOK, Apart, Stamps
<1>3. Kept = [u \in User |-> None]
  BY <1>1 DEF Kept, KeptRow
<1> QED
  BY <1>0, <1>2, <1>3 DEF Init, Promise!Init, Copy

(* get: nothing is found, or it has expired.                               *)
LEMMA AbsentStep ==
    ASSUME SInv, NEW u \in User, GetAbsent(u)
    PROVE  SInv' /\ Promise!Get(u)
<1>1. held' = None /\ heap' \in Heaps
  BY LetGoKeeps DEF GetAbsent, SInv
<1>2. \A v \in User : rows[v] # None => rows[v] # held' /\ heap'[rows[v]] = heap[rows[v]]
  BY <1>1, LetGoKeeps DEF GetAbsent, SInv, TypeOK
<1>3. SInv' /\ Kept' = Kept
  BY <1>1, <1>2, RowsStay DEF GetAbsent
<1>4. Kept[u] = None
  BY DEF GetAbsent, Kept, KeptRow
<1> QED
  BY <1>1, <1>3, <1>4 DEF GetAbsent, Promise!Get, Copy

LEMMA ExpiredStep ==
    ASSUME SInv, NEW u \in User, GetExpired(u)
    PROVE  SInv' /\ Promise!Get(u)
<1>1. /\ held' = None /\ heap' \in Heaps
      /\ \A v \in User : rows'[v] \in Object => heap'[rows'[v]] = heap[rows'[v]]
  BY LetGoKeeps DEF GetExpired, SInv
<1>2. /\ SInv'
      /\ \A v \in User \ {u} : KeptRow(v)' = KeptRow(v)
      /\ KeptRow(u)' \in {KeptRow(u), None}
  BY <1>1, RowIsGone DEF GetExpired
<1>3. KeptRow(u) = None
  BY DEF GetExpired, KeptRow
<1>4. Kept' = Kept /\ Kept[u] = None
  BY <1>2, <1>3 DEF Kept
<1> QED
  BY <1>1, <1>2, <1>4 DEF GetExpired, Promise!Get, Copy

(* get finds a row, and gives the caller an object of its own.             *)
LEMMA GetStep ==
    ASSUME SInv, NEW u \in User, Get(u)
    PROVE  SInv' /\ Promise!Get(u)
<1>1. Row(u) \in State /\ Row(u).user = u
  BY RowType DEF Get, SInv
<1>2. /\ rows' = rows /\ heap' \in Heaps /\ held' \in Object /\ heap'[held'] = Row(u)
      /\ \A v \in User : rows[v] # None => /\ rows[v] # held'
                                           /\ heap'[rows[v]] = heap[rows[v]]
  BY <1>1, HoldKeeps DEF Get, SInv
<1>3. SInv' /\ Kept' = Kept
  BY <1>1, <1>2, RowsStay DEF Get
<1>4. Kept[u] = [data |-> Row(u).data, at |-> Row(u).expires - TTL]
  BY DEF Get, Kept, KeptRow
<1>5. Kept[u] # None
  <2>1. Row(u).expires - TTL \in Nat /\ Row(u).data \in Data
    BY <1>1, StateStoreAssumption DEF Get, SInv, Stamps, State, StateStoreAssumption
  <2> QED
    BY <1>4, <2>1, StateStoreAssumption DEF StateStoreAssumption
<1>6. Copy' = [user |-> u, data |-> Row(u).data]
  <2>1. held' # None
    BY <1>2, StateStoreAssumption DEF StateStoreAssumption
  <2> QED
    BY <1>1, <1>2, <2>1 DEF Copy
<1>7. Kept[u].data = Row(u).data
  BY <1>4
<1> QED
  BY <1>3, <1>5, <1>6, <1>7 DEF Get, Promise!Get

LEMMA ReleaseStep == SInv /\ Release => SInv' /\ Promise!Release
<1> SUFFICES ASSUME SInv, Release PROVE SInv' /\ Promise!Release
  OBVIOUS
<1>1. held' = None /\ heap' \in Heaps
  BY LetGoKeeps DEF Release, SInv
<1>2. \A v \in User : rows[v] # None => rows[v] # held' /\ heap'[rows[v]] = heap[rows[v]]
  BY <1>1, LetGoKeeps DEF Release, SInv, TypeOK
<1>3. SInv' /\ Kept' = Kept
  BY <1>1, <1>2, RowsStay DEF Release
<1> QED
  BY <1>1, <1>3 DEF Release, Promise!Release, Copy

LEMMA CreateStep ==
    ASSUME SInv, NEW u \in User, Create(u)
    PROVE  SInv' /\ Promise!Create(u)
<1> DEFINE s == [user |-> u, data |-> Blank, expires |-> 0]
<1>1. s \in State
  BY StateStoreAssumption DEF State, StateStoreAssumption
<1>2. /\ rows' = rows /\ heap' \in Heaps /\ held' \in Object /\ heap'[held'] = s
      /\ \A v \in User : rows[v] # None => /\ rows[v] # held'
                                           /\ heap'[rows[v]] = heap[rows[v]]
  BY <1>1, HoldKeeps DEF Create, SInv
<1>3. SInv' /\ Kept' = Kept
  BY <1>1, <1>2, RowsStay DEF Create
<1>4. held' # None
  BY <1>2, StateStoreAssumption DEF StateStoreAssumption
<1> QED
  BY <1>2, <1>3, <1>4 DEF Create, Promise!Create, Copy

LEMMA EditStep ==
    ASSUME SInv, NEW d \in Data, Edit(d)
    PROVE  SInv' /\ Promise!Edit(d)
<1>1. /\ held \in Object /\ heap \in Heaps /\ heap[held] \in State
      /\ heap' = [heap EXCEPT ![held].data = d] /\ held' = held
  BY DEF Edit, SInv, TypeOK, Heaps
<1>2. /\ heap' \in Heaps /\ heap'[held] \in State
      /\ heap'[held].user = heap[held].user /\ heap'[held].data = d
  BY <1>1 DEF Heaps, State
<1>3. \A v \in User : rows[v] # None => rows[v] # held' /\ heap'[rows[v]] = heap[rows[v]]
  BY <1>1 DEF SInv, Apart, TypeOK, Heaps
<1>4. SInv' /\ Kept' = Kept
  BY <1>1, <1>2, <1>3, RowsStay DEF Edit
<1>5. Copy = [user |-> heap[held].user, data |-> heap[held].data] /\ held # None
  BY DEF Edit, Copy
<1>6. Copy # None
  <2>1. heap[held].user \in User /\ heap[held].data \in Data
    BY <1>1 DEF State
  <2> QED
    BY <1>5, <2>1, StateStoreAssumption DEF StateStoreAssumption
<1>7. Copy' = [Copy EXCEPT !.data = d]
  BY <1>1, <1>2, <1>5 DEF Copy
<1> QED
  BY <1>4, <1>6, <1>7 DEF Edit, Promise!Edit

(* The caller's object stands for a copy.                                  *)
LEMMA CopyIsOne ==
    ASSUME SInv, held # None
    PROVE  /\ Copy # None
           /\ Copy.user = heap[held].user
           /\ Copy.data = heap[held].data
<1>1. heap[held].user \in User /\ heap[held].data \in Data
  BY DEF SInv, TypeOK, State
<1>2. Copy = [user |-> heap[held].user, data |-> heap[held].data]
  BY DEF Copy
<1> QED
  BY <1>1, <1>2, StateStoreAssumption DEF StateStoreAssumption

(* put: the row is what the caller's object says.                          *)
LEMMA PutStep ==
    ASSUME SInv, PutTable \/ PutMemory
    PROVE  SInv' /\ Promise!Put
<1>1. /\ [heap EXCEPT ![held] = Stamped] \in Heaps
      /\ heap \in Heaps /\ held \in Object /\ held # None /\ held' = held
  BY StampedType DEF SInv, TypeOK, Heaps, PutTable, PutMemory
<1>2. /\ SInv' /\ Copy' = Copy
      /\ Kept' = [Kept EXCEPT ![heap[held].user] = [data |-> heap[held].data, at |-> clock]]
  <2>1. CASE PutTable
    <3>1. /\ heap' \in Heaps /\ heap'[held] = Stamped
          /\ \A u \in User : rows[u] # None => heap'[rows[u]] = heap[rows[u]]
      BY <1>1, <2>1 DEF PutTable, SInv, Apart, Heaps, TypeOK
    <3> QED
      BY <1>1, <2>1, <3>1, RowIsPut DEF PutTable
  <2>2. CASE PutMemory
    <3>1. PICK o \in Object :
            /\ Unused(o)
            /\ rows' = [rows EXCEPT ![heap[held].user] = o]
            /\ Heap([heap EXCEPT ![held] = Stamped, ![o] = Stamped])
      BY <2>2 DEF PutMemory
    <3> DEFINE h == [heap EXCEPT ![held] = Stamped, ![o] = Stamped]
    <3>2. heap[held].user \in User /\ Stamped \in State /\ o # held
          /\ \A u \in User : rows[u] # o
      BY <1>1, <3>1, StampedType DEF SInv, Unused, Referenced
    <3>3. h \in Heaps /\ h[held] = Stamped /\ h[o] = Stamped
          /\ \A p \in Object \ {o, held} : h[p] = heap[p]
      BY <1>1, <3>2 DEF Heaps
    <3>4. /\ heap' \in Heaps /\ heap'[held] = Stamped
          /\ \A u \in User : rows'[u] \in Object => heap'[rows'[u]] = h[rows'[u]]
      BY <1>1, <3>1, <3>3, HeapKeeps
    <3>5. /\ rows \in [User -> Object \cup {None}]
          /\ rows'[heap[held].user] = o
          /\ \A u \in User \ {heap[held].user} : rows'[u] = rows[u]
      BY <3>1, <3>2 DEF SInv, TypeOK
    <3>6. heap'[o] = Stamped
      BY <3>2, <3>3, <3>4, <3>5
    <3> HIDE DEF h
    <3>7. ASSUME NEW u \in User \ {heap[held].user}, rows[u] # None
          PROVE  heap'[rows[u]] = heap[rows[u]]
      <4>1. rows[u] \in Object /\ rows[u] # o /\ rows'[u] = rows[u]
        BY <3>2, <3>5, <3>7
      <4>2. rows[u] # held
        BY <3>7 DEF SInv, Apart
      <4> QED
        BY <3>3, <3>4, <4>1, <4>2
    <3> QED
      BY <1>1, <2>2, <3>1, <3>4, <3>6, <3>7, RowIsPut DEF PutMemory
  <2> QED
    BY <2>1, <2>2
<1>3. clock' = clock /\ store' = store
  BY DEF PutTable, PutMemory
<1> QED
  BY <1>1, <1>2, <1>3, CopyIsOne DEF Promise!Put

(* A put that fails did all of its work, or none that shows.               *)
LEMMA PutFailsStep ==
    ASSUME SInv, PutTableFails
    PROVE  SInv' /\ (Promise!Put \/ UNCHANGED Promise!vars)
<1>1. /\ [heap EXCEPT ![held] = Stamped] \in Heaps
      /\ heap \in Heaps /\ held \in Object /\ held # None /\ held' = held
  BY StampedType DEF SInv, TypeOK, Heaps, PutTableFails
<1>2. /\ heap' \in Heaps /\ heap'[held] = Stamped
      /\ \A u \in User : rows[u] # None => rows[u] # held' /\ heap'[rows[u]] = heap[rows[u]]
  BY <1>1 DEF PutTableFails, SInv, Apart, Heaps, TypeOK
<1>3. CASE table' = table
  <2>1. /\ Stamped \in State /\ Stamped.user = heap[held].user
        /\ Stamped.data = heap[held].data
    BY <1>1, StampedType DEF SInv
  <2>2. SInv' /\ Kept' = Kept
    BY <1>1, <1>2, <1>3, <2>1, RowsStay DEF PutTableFails
  <2>3. Copy' = Copy
    BY <1>1, <1>2, <2>1 DEF Copy
  <2> QED
    BY <2>2, <2>3 DEF PutTableFails, Promise!vars
<1>4. CASE table' = [table EXCEPT ![RowKey[heap[held].user]] = Stamped]
  <2>1. /\ SInv' /\ Copy' = Copy
        /\ Kept' = [Kept EXCEPT ![heap[held].user] = [data |-> heap[held].data, at |-> clock]]
    BY <1>1, <1>2, <1>4, RowIsPut DEF PutTableFails
  <2> QED
    BY <1>1, <2>1, CopyIsOne DEF PutTableFails, Promise!Put
<1> QED
  BY <1>3, <1>4 DEF PutTableFails

LEMMA DeleteStep ==
    ASSUME SInv, NEW u \in User, Delete(u)
    PROVE  SInv' /\ (Promise!Delete(u) \/ UNCHANGED Promise!vars)
<1>1. heap \in Heaps /\ (held # None => held \in Object) /\ held' = held
  BY DEF SInv, TypeOK, Heaps, Delete
<1>2. /\ heap' \in Heaps
      /\ held # None => heap'[held] = heap[held]
      /\ \A v \in User : rows'[v] \in Object => heap'[rows'[v]] = heap[rows'[v]]
  BY <1>1, HeapKeeps DEF Delete
<1>3. /\ SInv'
      /\ \A v \in User \ {u} : KeptRow(v)' = KeptRow(v)
      /\ KeptRow(u)' # KeptRow(u) => Kept' = [Kept EXCEPT ![u] = None]
  BY <1>1, <1>2, RowIsGone DEF Delete
<1>4. Copy' = Copy
  BY <1>1, <1>2 DEF Copy
<1>5. CASE KeptRow(u)' = KeptRow(u)
  <2>1. Kept' = Kept
    BY <1>3, <1>5 DEF Kept
  <2> QED
    BY <1>3, <1>4, <2>1 DEF Delete, Promise!vars
<1>6. CASE KeptRow(u)' # KeptRow(u)
  BY <1>3, <1>4, <1>6 DEF Delete, Promise!Delete
<1> QED
  BY <1>5, <1>6

(* The clock moves on: what expires is no longer kept.                     *)
LEMMA TickStep == SInv /\ Tick => SInv' /\ Promise!Tick
<1> SUFFICES ASSUME SInv, Tick PROVE SInv' /\ Promise!Tick
  OBVIOUS
<1>1. clock \in Nat /\ TTL \in Nat \ {0} /\ clock' = clock + 1
  BY StateStoreAssumption DEF StateStoreAssumption, SInv, TypeOK, Tick
<1>2. \A u \in User : Row(u)' = Row(u)
  BY RowSame DEF Tick
<1>3. SInv'
  <2>1. TypeOK'
    BY <1>1 DEF Tick, SInv, TypeOK
  <2>2. Apart' /\ Stamps'
    BY <1>2 DEF Tick, SInv, Apart, Stamps
  <2> QED
    BY <2>1, <2>2 DEF SInv
<1>4. Copy' = Copy
  BY DEF Tick, Copy
<1>5. ASSUME NEW u \in User
      PROVE  KeptRow(u)' = IF Promise!Lives(KeptRow(u), clock + 1) THEN KeptRow(u) ELSE None
  <2>1. CASE Row(u) = NoRow
    BY <1>2, <2>1 DEF KeptRow, Promise!Lives
  <2>2. CASE Row(u) # NoRow
    <3>1. /\ Row(u).expires \in Nat /\ Row(u).expires >= TTL
          /\ Row(u).data \in Data /\ Row(u).expires - TTL \in Nat
      <4>1. Row(u) \in State /\ Row(u).expires >= TTL
        BY <2>2, RowType DEF SInv, Stamps
      <4> QED
        BY <1>1, <4>1 DEF State
    <3>2. Expired(Row(u)) <=> Row(u).expires < clock
      BY <1>1, <3>1 DEF Expired
    <3>3. Expired(Row(u))' <=> Row(u).expires < clock + 1
      BY <1>1, <1>2, <3>1 DEF Expired
    <3>4. CASE Row(u).expires < clock
      <4>1. KeptRow(u) = None /\ KeptRow(u)' = None
        BY <1>1, <1>2, <2>2, <3>1, <3>2, <3>3, <3>4 DEF KeptRow
      <4> QED
        BY <4>1 DEF Promise!Lives
    <3>5. CASE ~ (Row(u).expires < clock)
      <4>1. KeptRow(u) = [data |-> Row(u).data, at |-> Row(u).expires - TTL]
        BY <2>2, <3>2, <3>5 DEF KeptRow
      <4>2. KeptRow(u) # None
        BY <3>1, <4>1, StateStoreAssumption DEF StateStoreAssumption
      <4>3. Promise!Lives(KeptRow(u), clock + 1) = (clock + 1 <= Row(u).expires)
        <5>1. KeptRow(u).at = Row(u).expires - TTL
          BY <4>1
        <5> QED
          BY <1>1, <3>1, <4>2, <5>1 DEF Promise!Lives
      <4>4. CASE clock + 1 <= Row(u).expires
        <5>1. ~ Expired(Row(u))'
          BY <1>1, <3>1, <3>3, <4>4
        <5>2. KeptRow(u)' = [data |-> Row(u).data, at |-> Row(u).expires - TTL]
          BY <1>2, <2>2, <5>1 DEF KeptRow
        <5> QED
          BY <4>1, <4>3, <4>4, <5>2
      <4>5. CASE ~ (clock + 1 <= Row(u).expires)
        <5>1. Expired(Row(u))'
          BY <1>1, <3>1, <3>3, <4>5
        <5>2. KeptRow(u)' = None
          BY <5>1 DEF KeptRow
        <5> QED
          BY <4>3, <4>5, <5>2
      <4> QED
        BY <4>4, <4>5
    <3> QED
      BY <3>4, <3>5
  <2> QED
    BY <2>1, <2>2
<1>6. Kept' = [u \in User |-> IF Promise!Lives(Kept[u], clock + 1) THEN Kept[u] ELSE None]
  BY <1>5 DEF Kept
<1> QED
  BY <1>1, <1>3, <1>4, <1>6 DEF Tick, Promise!Tick

(* A restart takes the rows of the fallback with it, and no others.        *)
LEMMA RestartStep == SInv /\ Restart => SInv' /\ Promise!Restart
<1> SUFFICES ASSUME SInv, Restart PROVE SInv' /\ Promise!Restart
  OBVIOUS
<1>1. held' = None /\ heap' \in Heaps
  BY LetGoKeeps DEF Restart, SInv
<1>2. \A u \in User : rows'[u] = None
  BY DEF Restart
<1>3. \A u \in User : Row(u)' = IF store = "table" THEN Row(u) ELSE NoRow
  BY <1>2 DEF Restart, Row
<1>4. SInv'
  <2>1. TypeOK'
    BY <1>1, <1>2 DEF Restart, SInv, TypeOK, Heaps
  <2>2. Apart' /\ Stamps'
    BY <1>2, <1>3 DEF SInv, Apart, Stamps
  <2> QED
    BY <2>1, <2>2 DEF SInv
<1>5. CASE store = "table"
  <2>1. \A u \in User : KeptRow(u)' = KeptRow(u)
    BY <1>3, <1>5, KeptSame DEF Restart
  <2>2. Kept' = Kept
    BY <2>1 DEF Kept
  <2> QED
    BY <1>1, <1>4, <1>5, <2>2 DEF Restart, Promise!Restart, Copy
<1>6. CASE store # "table"
  <2>1. \A u \in User : KeptRow(u)' = None
    BY <1>3, <1>6 DEF KeptRow
  <2>2. Kept' = [u \in User |-> None]
    BY <2>1 DEF Kept
  <2> QED
    BY <1>1, <1>4, <1>6, <2>2 DEF Restart, Promise!Restart, Copy
<1> QED
  BY <1>5, <1>6

(* Every step keeps the invariant, and is a step of UserStore or none.     *)
LEMMA StepInv == SInv /\ [Next]_vars => SInv' /\ [Promise!Next]_(Promise!vars)
<1> SUFFICES ASSUME SInv, [Next]_vars PROVE SInv' /\ [Promise!Next]_(Promise!vars)
  OBVIOUS
<1>1. ASSUME NEW u \in User, GetAbsent(u) \/ GetExpired(u) \/ Get(u)
      PROVE  SInv' /\ [Promise!Next]_(Promise!vars)
  BY <1>1, AbsentStep, ExpiredStep, GetStep DEF Promise!Next
<1>2. ASSUME NEW u \in User, Create(u) \/ Delete(u)
      PROVE  SInv' /\ [Promise!Next]_(Promise!vars)
  BY <1>2, CreateStep, DeleteStep DEF Promise!Next
<1>3. ASSUME NEW d \in Data, Edit(d) PROVE SInv' /\ [Promise!Next]_(Promise!vars)
  BY <1>3, EditStep DEF Promise!Next
<1>4. CASE PutTable \/ PutMemory \/ PutTableFails
  BY <1>4, PutStep, PutFailsStep DEF Promise!Next
<1>5. CASE Release \/ Tick \/ Restart
  BY <1>5, ReleaseStep, TickStep, RestartStep DEF Promise!Next
<1>6. CASE UNCHANGED vars
  <2>1. \A u \in User : Row(u)' = Row(u)
    BY <1>6, RowSame DEF vars
  <2>2. Kept' = Kept /\ Copy' = Copy
    BY <1>6, <2>1, KeptSame DEF vars, Kept, Copy
  <2>3. SInv'
    BY <1>6, <2>1 DEF vars, SInv, TypeOK, Apart, Stamps
  <2> QED
    BY <1>6, <2>2, <2>3 DEF vars, Promise!vars
<1> QED
  BY <1>1, <1>2, <1>3, <1>4, <1>5, <1>6 DEF Next

(* Every variable keeps its type; a row belongs to the user whose key it   *)
(* is under, and no row or caller is left with an object that is gone.     *)
THEOREM TypeCorrect == Spec => []TypeOK
<1>1. SInv => TypeOK
  BY DEF SInv
<1> QED
  BY InitInv, StepInv, <1>1, PTL DEF Spec

(* The table and the in-memory fallback both do what UserStore says: what  *)
(* the brain does to its copy does not reach a row before it is put, a row *)
(* lives for the time to live, and a failed call did all of its work or    *)
(* none (state_store.py:85-186).                                           *)
THEOREM StoreKeepsRows == Spec => KeepsRows
<1>1. SInv /\ [Next]_vars => [Promise!Next]_(Promise!vars)
  BY StepInv
<1> QED
  BY InitInv, StepInv, <1>1, PTL DEF Spec, KeepsRows, Promise!Spec
=============================================================================
