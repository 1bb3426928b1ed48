-------------------------------- MODULE ObObject -------------------------------
(***************************************************************************)
(* Objects of the object manager, ntoskrnl/ob: reference and handle counts,   *)
(* the permanent flag, names in a directory, and deletion (object.c,           *)
(* handle.c, namespc.c, ntobj.c).  A thread makes or finds an object, or        *)
(* reaches it through a handle, and goes on one interlocked operation at a       *)
(* time.  The lock of a handle table entry (ExHandleTable) is held where hnd says   *)
(* so; what else ob does under it is one step.                                 *)
(***************************************************************************)
EXTENDS Integers, FiniteSets, FiniteSetsExt

CONSTANTS
  Threads, Objects, Handles, None,
  Permanents,    \* objects created with OBJ_PERMANENT
  LooksUp,       \* objects that are looked up by name while others hold or drop them
  Retypes,       \* TRUE where NtMakeTemporaryObject and NtMakePermanentObject are called
  Guesses,       \* TRUE where a handle may be used before its creator has it back
  Mismatches     \* bound: how far a count may rise by uses of a handle for another type

VARIABLES
  state,       \* Objects -> "new", "live", "doomed" (being deleted), "unlinked", "freed"
  refCount, handleCount, permanent,    \* Objects -> fields of the header
  directory,   \* objects linked in their directory by name
  entry,       \* Handles -> the object in the entry, or None
  pc, obj, hnd, seen,   \* Threads -> place, object, handle whose entry it has, Permanent it read
  drops,       \* Threads -> references it still has to drop
  bugCheck     \* KEBUGCHECK has stopped the system

vars == <<state, refCount, handleCount, permanent, directory, entry, pc, obj, hnd, seen, drops,
          bugCheck>>

ObjectAssumption ==
  /\ None \notin Objects \cup Handles /\ Permanents \subseteq Objects /\ LooksUp \subseteq Objects
  /\ Retypes \in BOOLEAN /\ Guesses \in BOOLEAN /\ Mismatches \in Nat

TypeOK ==
  /\ state \in [Objects -> {"new", "live", "doomed", "unlinked", "freed"}]
  /\ refCount \in [Objects -> Int] /\ handleCount \in [Objects -> Int]
  /\ permanent \in [Objects -> BOOLEAN] /\ directory \subseteq Objects
  /\ entry \in [Handles -> Objects \cup {None}]
  /\ pc \in [Threads -> {"out", "found", "checkedName", "insert", "count", "refer",
                         "checkedMaker", "checkedHandle", "hold", "drop", "decrement",
                         "destroy", "duplicate", "undo"}]
  /\ obj \in [Threads -> Objects \cup {None}] /\ hnd \in [Threads -> Handles \cup {None}]
  /\ seen \in [Threads -> BOOLEAN] /\ drops \in [Threads -> 0..2] /\ bugCheck \in BOOLEAN

objectVars == <<state, refCount, handleCount, permanent, directory, entry, bugCheck>>
Move(t, place) == pc' = [pc EXCEPT ![t] = place]
TakeUp(t, o, place) ==
  pc[t] = "out" /\ Move(t, place) /\ obj' = [obj EXCEPT ![t] = o]
  /\ drops' = [drops EXCEPT ![t] = 1]
Count(f, o, n) == [f EXCEPT ![o] = @ + n]

\* Handles that are not in the middle of being made or closed by a thread, and whose entry
\* no thread has locked.
Usable(h) ==
  /\ entry[h] # None
  /\ \A t \in Threads :
       hnd[t] = h => Guesses /\ pc[t] \in {"count", "refer", "checkedMaker"}
-------------------------------------------------------------------------------
\* ObCreateObject: one reference, its maker's, and a name in the directory.
ObCreateObject(t, o) ==
  /\ state[o] = "new" /\ TakeUp(t, o, "insert")
  /\ state' = [state EXCEPT ![o] = "live"]
  /\ refCount' = [refCount EXCEPT ![o] = 1]
  /\ permanent' = [permanent EXCEPT ![o] = o \in Permanents]
  /\ directory' = directory \cup {o}
  /\ UNCHANGED <<handleCount, entry, hnd, seen, bugCheck>>

\* ObFindObject: the directory is searched without its lock.
ObpFindEntryDirectory(t, o) ==
  /\ o \in LooksUp /\ o \in directory /\ TakeUp(t, o, "found")
  /\ UNCHANGED <<objectVars, hnd, seen>>

\* ObReferenceObjectByPointer in its two steps: the look at the count, after which it may
\* return a refusal that these callers do not look at, and the increment, which stops the
\* system where the object is being deleted by then.
Refused(o) == refCount[o] = 0 /\ ~permanent[o]
Check(t, next, refused) ==
  Move(t, IF Refused(obj[t]) THEN refused ELSE next) /\ UNCHANGED <<refCount, bugCheck>>
Increment(t, next) ==
  /\ Move(t, next) /\ refCount' = Count(refCount, obj[t], 1)
  /\ bugCheck' = Refused(obj[t])

ObpParseDirectory(t) ==
  /\ \/ pc[t] = "found" /\ Check(t, "checkedName", "insert")
     \/ pc[t] = "checkedName" /\ Increment(t, "insert")
  /\ UNCHANGED <<state, handleCount, permanent, directory, entry, obj, hnd, seen, drops>>

\* ObCreateHandle: the entry is made, then the handle counted, and the first handle of an
\* object takes a reference.
ExCreateHandle(t) ==
  /\ pc[t] = "insert"
  /\ \/ /\ \E h \in Handles : /\ entry[h] = None /\ entry' = [entry EXCEPT ![h] = obj[t]]
                              /\ hnd' = [hnd EXCEPT ![t] = h]
        /\ Move(t, "count")
     \/ Move(t, "drop") /\ UNCHANGED <<entry, hnd>>
  /\ UNCHANGED <<state, refCount, handleCount, permanent, directory, obj, seen, drops, bugCheck>>
ObCreateHandle(t) ==
  LET o == obj[t] IN
  /\ pc[t] = "count" /\ handleCount' = Count(handleCount, o, 1)
  /\ IF handleCount[o] = 0
     THEN Move(t, "refer") /\ UNCHANGED hnd
     ELSE Move(t, "drop") /\ hnd' = [hnd EXCEPT ![t] = None]
  /\ UNCHANGED <<state, refCount, permanent, directory, entry, obj, seen, drops, bugCheck>>
ReferToHandle(t) ==
  /\ \/ pc[t] = "refer" /\ Check(t, "checkedMaker", "drop")
     \/ pc[t] = "checkedMaker" /\ Increment(t, "drop")
  /\ hnd' = IF pc'[t] = "drop" THEN [hnd EXCEPT ![t] = None] ELSE hnd
  /\ UNCHANGED <<state, handleCount, permanent, directory, entry, obj, seen, drops>>

\* ObReferenceObjectByHandle, under the lock of the entry; a handle to an object of another
\* type is refused after the object was referenced.
ObReferenceObjectByHandle(t, h) ==
  /\ Usable(h) /\ UNCHANGED <<state, refCount, handleCount, permanent, directory, entry, seen,
                              bugCheck>>
  /\ IF Refused(entry[h]) THEN TakeUp(t, entry[h], "hold") /\ UNCHANGED hnd
     ELSE TakeUp(t, entry[h], "checkedHandle") /\ hnd' = [hnd EXCEPT ![t] = h]
ReferToObject(t) ==
  /\ pc[t] = "checkedHandle" /\ hnd' = [hnd EXCEPT ![t] = None]
  /\ \/ Increment(t, "hold") /\ UNCHANGED <<obj, drops>>
     \/ /\ refCount[obj[t]] < Mismatches /\ Increment(t, "out")
        /\ obj' = [obj EXCEPT ![t] = None] /\ drops' = [drops EXCEPT ![t] = 0]
  /\ UNCHANGED <<state, handleCount, permanent, directory, entry, seen>>

\* NtMakeTemporaryObject and NtMakePermanentObject, between the reference and its end; or
\* the thread is done with the object.
Hold(t) ==
  /\ pc[t] = "hold" /\ Move(t, "drop")
  /\ \/ Retypes /\ \E p \in BOOLEAN : permanent' = [permanent EXCEPT ![obj[t]] = p]
     \/ UNCHANGED permanent
  /\ UNCHANGED <<state, refCount, handleCount, directory, entry, obj, hnd, seen, drops, bugCheck>>

\* ObfDereferenceObject reads Permanent, then counts down; whoever comes to zero deletes
\* an object that was not permanent when it read.
ReadPermanent(t) ==
  /\ pc[t] = "drop" /\ seen' = [seen EXCEPT ![t] = permanent[obj[t]]] /\ Move(t, "decrement")
  /\ UNCHANGED <<objectVars, obj, hnd, drops>>
Finish(t) ==
  /\ drops' = [drops EXCEPT ![t] = @ - 1]
  /\ IF drops[t] > 1 THEN Move(t, "drop") /\ UNCHANGED obj
     ELSE IF hnd[t] # None THEN Move(t, "destroy") /\ UNCHANGED obj
     ELSE Move(t, "out") /\ obj' = [obj EXCEPT ![t] = None]
ObfDereferenceObject(t) ==
  LET o == obj[t] IN
  /\ pc[t] = "decrement" /\ refCount' = Count(refCount, o, -1)
  /\ state' = IF refCount[o] = 1 /\ ~seen[t] THEN [state EXCEPT ![o] = "doomed"] ELSE state
  /\ Finish(t) /\ seen' = [seen EXCEPT ![t] = FALSE]
  /\ UNCHANGED <<handleCount, permanent, directory, entry, hnd, bugCheck>>

\* ObpDeleteObject, by the thread itself or by a worker at a lower IRQL.
ObpRemoveEntryDirectory(o) ==
  /\ state[o] = "doomed" /\ state' = [state EXCEPT ![o] = "unlinked"]
  /\ directory' = directory \ {o}
  /\ UNCHANGED <<refCount, handleCount, permanent, entry, pc, obj, hnd, seen, drops, bugCheck>>
Free(o) ==
  /\ state[o] = "unlinked" /\ state' = [state EXCEPT ![o] = "freed"]
  /\ UNCHANGED <<refCount, handleCount, permanent, directory, entry, pc, obj, hnd,
                 seen, drops, bugCheck>>

\* ObDeleteHandle: the last handle's end drops the reference, then the entry is destroyed.
ObDeleteHandle(t, h) ==
  LET o == entry[h] IN
  /\ Usable(h) /\ handleCount' = Count(handleCount, o, -1)
  /\ hnd' = [hnd EXCEPT ![t] = h]
  /\ TakeUp(t, o, IF handleCount[o] = 1 THEN "drop" ELSE "destroy")
  /\ UNCHANGED <<state, refCount, permanent, directory, entry, seen, bugCheck>>
ExDestroyHandleByEntry(t) ==
  /\ pc[t] = "destroy" /\ entry' = [entry EXCEPT ![hnd[t]] = None]
  /\ hnd' = [hnd EXCEPT ![t] = None] /\ obj' = [obj EXCEPT ![t] = None]
  /\ drops' = [drops EXCEPT ![t] = 0] /\ Move(t, "out")
  /\ UNCHANGED <<state, refCount, handleCount, permanent, directory, seen, bugCheck>>

\* ObDuplicateObject: referenced and counted under the lock of the source entry; where the
\* new handle cannot be made both are taken back.
ObDuplicateObject(t, h) ==
  LET o == entry[h] IN
  /\ Usable(h) /\ TakeUp(t, o, "duplicate")
  /\ refCount' = Count(refCount, o, 1) /\ handleCount' = Count(handleCount, o, 1)
  /\ UNCHANGED <<state, permanent, directory, entry, hnd, seen, bugCheck>>
Duplicate(t) ==
  /\ pc[t] = "duplicate"
  /\ \/ \E h \in Handles : entry[h] = None /\ entry' = [entry EXCEPT ![h] = obj[t]]
                             /\ Move(t, "drop")
     \/ Move(t, "undo") /\ UNCHANGED entry
  /\ UNCHANGED <<state, refCount, handleCount, permanent, directory, obj, hnd,
                 seen, drops, bugCheck>>
\* Mutated: the reference of a last handle closed meanwhile is not dropped.
UndoOne(t) ==
  LET o == obj[t] IN
  /\ pc[t] = "undo" /\ Move(t, "drop") /\ handleCount' = Count(handleCount, o, -1)
  /\ UNCHANGED <<state, refCount, permanent, directory, entry, obj, hnd, seen, drops, bugCheck>>
UndoDuplicate(t) ==
  LET o == obj[t] IN
  /\ pc[t] = "undo" /\ Move(t, "drop") /\ handleCount' = Count(handleCount, o, -1)
  /\ drops' = [drops EXCEPT ![t] = IF handleCount[o] = 1 THEN 2 ELSE 1]
  /\ UNCHANGED <<state, refCount, permanent, directory, entry, obj, hnd, seen, bugCheck>>

Proceed(t) ==
  \/ ObpParseDirectory(t) \/ ExCreateHandle(t) \/ ObCreateHandle(t) \/ ReferToHandle(t)
  \/ ReferToObject(t) \/ Hold(t) \/ ReadPermanent(t) \/ ObfDereferenceObject(t)
  \/ ExDestroyHandleByEntry(t) \/ Duplicate(t) \/ UndoDuplicate(t)

Next ==
  /\ ~bugCheck
  /\ \/ \E t \in Threads : Proceed(t)
     \/ \E t \in Threads, o \in Objects : ObCreateObject(t, o) \/ ObpFindEntryDirectory(t, o)
     \/ \E t \in Threads, h \in Handles :
          ObReferenceObjectByHandle(t, h) \/ ObDeleteHandle(t, h) \/ ObDuplicateObject(t, h)
     \/ \E o \in Objects : ObpRemoveEntryDirectory(o) \/ Free(o)

Init ==
  /\ state = [o \in Objects |-> "new"] /\ directory = {}
  /\ refCount = [o \in Objects |-> 0] /\ handleCount = [o \in Objects |-> 0]
  /\ permanent = [o \in Objects |-> FALSE]
  /\ entry = [h \in Handles |-> None]
  /\ pc = [t \in Threads |-> "out"] /\ obj = [t \in Threads |-> None]
  /\ hnd = [t \in Threads |-> None] /\ seen = [t \in Threads |-> FALSE]
  /\ drops = [t \in Threads |-> 0] /\ bugCheck = FALSE

Spec == Init /\ [][Next]_vars
-------------------------------------------------------------------------------
\* An object is there as long as a thread has a reference it may use, or a handle that a
\* program may use leads to it.
Holding(t) ==
  {o \in {obj[t]} \ {None} : pc[t] \notin {"found", "checkedName", "destroy"}}
ObjectsStay ==
  /\ \A t \in Threads : \A o \in Holding(t) : state[o] = "live"
  /\ \A h \in Handles : Usable(h) => state[entry[h]] = "live"

\* The reference count of a live object is the references threads have to drop, and one for
\* its handles: from the time the first has taken it until the closer of the last drops it.
Owed(o) == MapThenSumSet(LAMBDA t : drops[t],
             {t \in Threads : o \in Holding(t) /\ pc[t] # "checkedHandle"})
ReferencesAccounted ==
  \A o \in Objects : state[o] = "live" =>
    refCount[o] = Owed(o) + (IF handleCount[o] > 0 THEN 1 ELSE 0)
                    - Cardinality({t \in Threads : obj[t] = o /\ pc[t] \in {"refer", "checkedMaker"}})

\* No count is raised from zero for an object that goes (KEBUGCHECK(0) of object.c).
NoBugCheck == ~bugCheck

\* An object nobody refers to is permanent, or it is deleted.
UnreferencedGo ==
  \A o \in Objects : state[o] = "live" /\ refCount[o] = 0 => permanent[o]
===============================================================================
