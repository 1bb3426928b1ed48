------------------------------ MODULE ExHandleTable ----------------------------
(***************************************************************************)
(* Handle tables, ntoskrnl/ex/handle.c: the table of a process, whose entries  *)
(* are locked one by one by a bit of the object pointer, whose free entries    *)
(* are a list through the entries, and whose changes are made under a resource *)
(* (ExResource); and a second table that a duplication fills from the first.    *)
(* Sub-tables of SubSize entries are allocated when the free list is empty.      *)
(* Threads close handles, look objects up, create handles, duplicate the table   *)
(* and destroy it, the way ob/handle.c calls.                                    *)
(***************************************************************************)
EXTENDS Integers, FiniteSets, FiniteSetsExt

CONSTANTS
  Threads, NoThread,
  Objects, Null,
  SubSize,       \* N_SUBHANDLE_ENTRIES
  MaxHandles,    \* EX_MAX_HANDLES
  Duplicates,    \* TRUE where the table may be duplicated
  Destroys       \* TRUE where the table may be destroyed, once no one is in it

Slots == 0..MaxHandles - 1
EndOfList == -1          \* FirstFreeTableEntry of an empty list, EX_INVALID_HANDLE

VARIABLES
  table,     \* [object, locker, next: Slots -> ..., count, firstFree, needingPool, closing]
  copy,      \* the table a duplication makes
  exclusive, \* thread that holds HandleTableLock exclusively
  shared,    \* threads that share it
  pc,        \* Threads -> where a thread is
  slot,      \* Threads -> the entry it works on
  closed     \* Objects -> handles closed, less handles created, as callbacks saw it

vars == <<table, copy, exclusive, shared, pc, slot, closed>>

HandleTableAssumption ==
  /\ NoThread \notin Threads /\ Null \notin Objects /\ Objects # {}
  /\ SubSize \in Nat \ 0..1 /\ MaxHandles \in Nat /\ MaxHandles % SubSize = 0
  /\ Duplicates \in BOOLEAN /\ Destroys \in BOOLEAN

Tables == [object : [Slots -> Objects \cup {Null}], locker : [Slots -> Threads \cup {NoThread}],
           next : [Slots -> Slots \cup {EndOfList}], count : Slots \cup {MaxHandles},
           firstFree : Slots \cup {EndOfList}, needingPool : Slots \cup {MaxHandles},
           closing : BOOLEAN]
TypeOK ==
  /\ table \in Tables /\ copy \in Tables
  /\ exclusive \in Threads \cup {NoThread} /\ shared \subseteq Threads
  /\ pc \in [Threads -> STRING] /\ slot \in [Threads -> Slots \cup {EndOfList, MaxHandles}]
  /\ closed \in [Objects -> Int]

\* ExCreateHandleTable.
Fresh == [object |-> [s \in Slots |-> Null], locker |-> [s \in Slots |-> NoThread],
          next |-> [s \in Slots |-> EndOfList], count |-> 0, firstFree |-> EndOfList,
          needingPool |-> 0, closing |-> FALSE]

Move(t, place) == pc' = [pc EXCEPT ![t] = place]
Stand(t, s) == slot' = [slot EXCEPT ![t] = s]
Leave(t) == Move(t, "out") /\ Stand(t, EndOfList)
LockFree == exclusive = NoThread /\ shared = {}
-------------------------------------------------------------------------------
\* ExpAllocateHandleTableEntry: the head of the free list, or the first entry of a new
\* sub-table, whose other entries become the list.
NewSubTable(T) ==
  LET first == T.needingPool  last == first + SubSize - 1 IN
  [T EXCEPT !.next = [s \in Slots |-> IF s \in first + 1..last
                                      THEN IF s = last THEN EndOfList ELSE s + 1
                                      ELSE T.next[s]],
            !.firstFree = first + 1,
            !.needingPool = first + SubSize]
Allocated(T) == IF T.firstFree # EndOfList THEN T.firstFree ELSE T.needingPool
ExpAllocateHandleTableEntry(T) ==
  LET taken == IF T.firstFree # EndOfList
               THEN [T EXCEPT !.firstFree = T.next[T.firstFree]] ELSE NewSubTable(T)
  IN [taken EXCEPT !.count = @ + 1]

\* ExpFreeHandleTableEntry
ExpFreeHandleTableEntry(T, s) ==
  [T EXCEPT !.object[s] = Null, !.locker[s] = NoThread, !.next[s] = T.firstFree,
            !.firstFree = s, !.count = @ - 1]

\* ExCreateHandle: all of it under the exclusive lock; the pool may be exhausted.
ExCreateHandle(t, o) ==
  /\ pc[t] = "out" /\ LockFree /\ ~table.closing
  /\ \/ /\ table.count < MaxHandles
        /\ table' = [ExpAllocateHandleTableEntry(table) EXCEPT !.object[Allocated(table)] = o]
        /\ closed' = [closed EXCEPT ![o] = @ - 1]
     \/ UNCHANGED <<table, closed>>
  /\ UNCHANGED <<copy, exclusive, shared, pc, slot>>

\* ExMapHandleToPointer, for whoever closes or uses the object: the look-up takes no lock.
ExpLookupHandleTableEntry(t, s, purpose) ==
  /\ pc[t] = "out" /\ s < table.needingPool /\ table.object[s] # Null
  /\ Stand(t, s) /\ Move(t, purpose)
  /\ UNCHANGED <<table, copy, exclusive, shared, closed>>

\* ExLockHandleTableEntry: not where the entry is empty or the table is closing.
LockEntry(t) == table.object[slot[t]] # Null /\ table.locker[slot[t]] = NoThread
                  /\ table' = [table EXCEPT !.locker[slot[t]] = t]
NoEntry(t) == table.object[slot[t]] = Null \/ table.closing
ExLockHandleTableEntry(t) ==
  /\ pc[t] \in {"use", "close"}
  /\ \/ LockEntry(t) /\ ~table.closing /\ UNCHANGED slot
        /\ Move(t, IF pc[t] = "use" THEN "using" ELSE "closing")
     \/ NoEntry(t) /\ Leave(t) /\ UNCHANGED table
  /\ UNCHANGED <<copy, exclusive, shared, closed>>

\* ExUnlockHandleTableEntry
Unlock(T, s) == [T EXCEPT !.locker[s] = NoThread]
ExUnlockHandleTableEntry(t) ==
  /\ pc[t] = "using" /\ table' = Unlock(table, slot[t]) /\ Leave(t)
  /\ UNCHANGED <<copy, exclusive, shared, closed>>

\* ObDeleteHandle under the lock of the entry: a handle protected from close is let go;
\* else its count is taken down, and the entry destroyed under the lock of the table.
ObDeleteHandle(t) ==
  /\ pc[t] = "closing"
  /\ \/ closed' = [closed EXCEPT ![table.object[slot[t]]] = @ + 1] /\ Move(t, "destroy")
        /\ UNCHANGED <<table, slot>>
     \/ table' = Unlock(table, slot[t]) /\ Leave(t) /\ UNCHANGED closed
  /\ UNCHANGED <<copy, exclusive, shared>>
\* Mutated: the entry is destroyed under the shared lock.
DestroySharing(t) ==
  /\ pc[t] = "destroy" /\ exclusive = NoThread
  /\ table' = ExpFreeHandleTableEntry(table, slot[t]) /\ Leave(t)
  /\ UNCHANGED <<copy, exclusive, shared, closed>>
ExDestroyHandleByEntry(t) ==
  /\ pc[t] = "destroy" /\ LockFree
  /\ table' = ExpFreeHandleTableEntry(table, slot[t]) /\ Leave(t)
  /\ UNCHANGED <<copy, exclusive, shared, closed>>

\* ExDupHandleTable: shares the lock, copies the counters, then goes through all entries;
\* one in use is locked and asked about, a free one is copied with its link.
ExDupHandleTable(t) ==
  /\ Duplicates /\ pc[t] = "out" /\ exclusive = NoThread /\ ~table.closing
  /\ copy = Fresh /\ \A other \in Threads : pc[other] # "copy"   \* bound: one copy
  /\ shared' = shared \cup {t}
  /\ copy' = [Fresh EXCEPT !.count = table.count, !.firstFree = table.firstFree,
                           !.needingPool = table.needingPool]
  /\ Stand(t, 0) /\ Move(t, "copy") /\ UNCHANGED <<table, exclusive, closed>>
CopyEntry(t) ==
  LET s == slot[t] IN
  /\ pc[t] = "copy" /\ s < table.needingPool
  /\ \/ /\ LockEntry(t) /\ Move(t, "copying") /\ UNCHANGED <<copy, slot>>
     \/ /\ table.object[s] = Null
        /\ copy' = [copy EXCEPT !.next[s] = table.next[s]]
        /\ Stand(t, s + 1) /\ UNCHANGED <<table, pc>>
  /\ UNCHANGED <<exclusive, shared, closed>>
DuplicateHandleCallback(t) ==
  LET s == slot[t]  o == table.object[s] IN
  /\ pc[t] = "copying"
  /\ \/ /\ copy' = [copy EXCEPT !.object[s] = o]
        /\ closed' = [closed EXCEPT ![o] = @ - 1]
     \/ copy' = ExpFreeHandleTableEntry(copy, s) /\ UNCHANGED closed
  /\ table' = Unlock(table, s) /\ Stand(t, s + 1) /\ Move(t, "copy")
  /\ UNCHANGED <<exclusive, shared>>
EndOfCopy(t) ==
  /\ pc[t] = "copy" /\ slot[t] = table.needingPool
  /\ shared' = shared \ {t} /\ Leave(t)
  /\ UNCHANGED <<table, copy, exclusive, closed>>

\* ExDestroyHandleTable: closes the door, then calls back for every entry in use.
ExDestroyHandleTable(t) ==
  /\ Destroys /\ pc[t] = "out" /\ LockFree /\ ~table.closing
  /\ \A other \in Threads : pc[other] = "out"
  /\ exclusive' = t /\ table' = [table EXCEPT !.closing = TRUE]
  /\ Stand(t, 0) /\ Move(t, "sweep") /\ UNCHANGED <<copy, shared, closed>>
DeleteHandleCallback(t) ==
  LET s == slot[t] IN
  /\ pc[t] = "sweep" /\ s < table.needingPool
  /\ \/ /\ table.object[s] # Null /\ table.locker[s] = NoThread
        /\ closed' = [closed EXCEPT ![table.object[s]] = @ + 1]
     \/ table.object[s] = Null /\ UNCHANGED closed
  /\ Stand(t, s + 1) /\ UNCHANGED <<table, copy, exclusive, shared, pc>>
FreeTable(t) ==
  /\ pc[t] = "sweep" /\ slot[t] = table.needingPool
  /\ exclusive' = NoThread /\ table' = [Fresh EXCEPT !.closing = TRUE] /\ Move(t, "gone")
  /\ UNCHANGED <<copy, shared, slot, closed>>

Step(t) ==
  \/ ExLockHandleTableEntry(t) \/ ExUnlockHandleTableEntry(t)
  \/ ObDeleteHandle(t) \/ ExDestroyHandleByEntry(t)
  \/ CopyEntry(t) \/ DuplicateHandleCallback(t) \/ EndOfCopy(t)
  \/ DeleteHandleCallback(t) \/ FreeTable(t)

Next == \E t \in Threads :
  \/ Step(t)
  \/ \E o \in Objects : ExCreateHandle(t, o)
  \/ \E s \in Slots, purpose \in {"use", "close"} : ExpLookupHandleTableEntry(t, s, purpose)
  \/ ExDupHandleTable(t) \/ ExDestroyHandleTable(t)

Init ==
  /\ table = Fresh /\ copy = Fresh /\ exclusive = NoThread /\ shared = {}
  /\ pc = [t \in Threads |-> "out"] /\ slot = [t \in Threads |-> EndOfList]
  /\ closed = [o \in Objects |-> 0]

Spec == Init /\ [][Next]_vars
\* A thread inside goes on; the lock of a table, a resource, is handed on in the end.
FairSpec == Spec /\ \A t \in Threads : SF_vars(Step(t))
-------------------------------------------------------------------------------
\* The slots of the free list of T, from its head, at most n of them.
FreeFrom(T) ==
  LET list[n \in 0..MaxHandles] ==
        IF n = 0 THEN {T.firstFree}
        ELSE list[n - 1] \cup {T.next[s] : s \in list[n - 1] \ {EndOfList}}
  IN list[MaxHandles] \ {EndOfList}

\* The free list is the empty entries of the sub-tables and the count is that of the others.
Consistent(T) ==
  LET empty == {s \in Slots : s < T.needingPool /\ T.object[s] = Null} IN
  /\ FreeFrom(T) = empty
  /\ T.count = Cardinality({s \in Slots : T.object[s] # Null})

\* A table is consistent at any time, and the copy when its maker is done, whatever is
\* closed, created or looked up meanwhile.
TablesConsistent ==
  /\ ~table.closing => Consistent(table)
  /\ (\A t \in Threads : pc[t] \notin {"copy", "copying"}) => Consistent(copy)

\* The callbacks have seen every handle once: an object has as many handles in the table
\* and in the copy as were created and inherited and not closed.
Handles(T, o) == {s \in Slots : T.object[s] = o}
EveryHandleOnce ==
  \A o \in Objects :
    LET closing == {s \in Handles(table, o) : \E t \in Threads : pc[t] = "destroy" /\ slot[t] = s}
        swept   == {s \in Handles(table, o) : \E t \in Threads : pc[t] = "sweep" /\ s < slot[t]}
    IN -closed[o] = Cardinality(Handles(table, o) \ (closing \cup swept)) + Cardinality(Handles(copy, o))

\* Whoever has begun to close a handle comes out again.
CloseEnds == \A t \in Threads : pc[t] = "destroy" ~> pc[t] = "out"
===============================================================================
