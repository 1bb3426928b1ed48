------------------------------- MODULE ExResource ------------------------------
(***************************************************************************)
(* One executive resource (ntoskrnl/ex/resource.c): a lock for one exclusive  *)
(* or several shared owners, its owner entries and counts, and the threads    *)
(* that wait on its event and its semaphore.                                  *)
(*                                                                         *)
(* What is done under the resource's spin lock is one step; the lock is       *)
(* released before a wait and taken again after it.  A call that does not     *)
(* wait either does what the waiting one does or changes nothing.             *)
(***************************************************************************)
EXTENDS Naturals, Sequences, FiniteSets, Lists

CONSTANTS
  Threads,
  Pointers,      \* owner pointers given to ExSetResourceOwnerPointer
  MaxHolds,      \* bound: acquisitions an owner holds
  MaxCredit,     \* bound: signals of the semaphore that nobody waits for
  Starving,      \* ExAcquireSharedStarveExclusive is called: not at all (No), where it
                 \* neither waits nor finds an old owner table (Safe), anywhere (Any)
  Recursive,     \* a shared owner asks for shared access again
  Converting,    \* ExConvertExclusiveToSharedLite is called with an owner table there
  TableLookup    \* ExSetResourceOwnerPointer is called by an owner in the table

ResourceAssumption ==
  /\ MaxHolds \in Nat \ {0} /\ MaxCredit \in Nat
  /\ IsFiniteSet(Threads) /\ Threads \cap Pointers = {} /\ "None" \notin Threads \union Pointers
  /\ Starving \in {"No", "Safe", "Any"} /\ Recursive \in BOOLEAN /\ Converting \in BOOLEAN /\ TableLookup \in BOOLEAN

VARIABLES
  exclusive,     \* Flag & ResourceOwnedExclusive
  active,        \* ActiveCount
  owner0, owner1,  \* OwnerThreads[0] and [1]; the count of [1] is also TableSize
  table,         \* OwnerTable, << >> if there is none
  exclusiveWaiters, sharedWaiters,  \* NumberOfExclusiveWaiters, NumberOfSharedWaiters
  event, blockedExclusive,          \* ExclusiveWaiters: its state and wait list
  credit, blockedShared,            \* SharedWaiters: its count and wait list
  pc, wants,     \* where each thread is: Run, Go to wait, Blocked, Woken; and for what
  holds          \* acquisitions each owner has not released (history)

entries == <<owner0, owner1, table>>
waiting == <<exclusiveWaiters, sharedWaiters>>
signals == <<event, blockedExclusive, credit, blockedShared>>
vars == <<exclusive, active, entries, waiting, signals, pc, wants, holds>>

Owners == Threads \union Pointers
None == "None"
Free == [thread |-> None, count |-> 0]
One(t) == [thread |-> t, count |-> 1]
Kinds == {"Exclusive", "Shared", "Starve"}

Granted(t) == holds' = [holds EXCEPT ![t] = @ + 1]
Goto(t, where) == pc' = [pc EXCEPT ![t] = where]
OwnsExclusive(o) == exclusive /\ owner0.thread = o

\* The entry for o, or a free one, among those that TableSize tells of.
Places(ids) == {i \in 1 .. owner1.count : i <= Len(table) /\ table[i].thread \in ids}
FirstOf(places) == CHOOSE i \in places : \A j \in places : i <= j
-------------------------------------------------------------------------------
AddToTable(t) ==
  LET places == Places({t, None})
      i == FirstOf(places)
  IN  IF places = {}
        THEN /\ table' = Append(SubSeq(table, 1, owner1.count), One(t))
             /\ owner1' = [owner1 EXCEPT !.count = @ + 1]
             /\ active' = active + 1
        ELSE /\ UNCHANGED owner1
             /\ IF table[i].thread = t
                  THEN table' = [table EXCEPT ![i].count = @ + 1] /\ UNCHANGED active
                  ELSE table' = [table EXCEPT ![i] = One(t)] /\ active' = active + 1

EiAddSharedOwner(t) ==
  \/ active = 0 /\ owner1' = One(t) /\ table' = << >> /\ active' = 1
  \/ /\ active # 0 /\ table = << >>
     /\ table' = <<owner1, One(t), Free>> /\ owner1' = [thread |-> None, count |-> 3]
     /\ active' = active + 1
  \/ active # 0 /\ table # << >> /\ AddToTable(t)

Less(entry) == IF entry.count = 1 THEN Free ELSE [entry EXCEPT !.count = @ - 1]

EiRemoveSharedOwner(o) ==
  IF owner1.thread = o
    THEN /\ owner1' = Less(owner1) /\ UNCHANGED table
         /\ active' = IF owner1.count = 1 THEN active - 1 ELSE active
    ELSE IF owner1.thread # None \/ Places({o}) = {}
    THEN UNCHANGED <<owner1, table, active>>
    ELSE LET i == FirstOf(Places({o}))
         IN  /\ table' = [table EXCEPT ![i] = Less(table[i])] /\ UNCHANGED owner1
             /\ active' = IF table[i].count = 1 THEN active - 1 ELSE active

\* KeSetEvent for one exclusive waiter.
SetEvent ==
  /\ IF blockedExclusive = << >>
       THEN event' = TRUE /\ UNCHANGED <<pc, blockedExclusive>>
       ELSE /\ Goto(Head(blockedExclusive), "Woken")
            /\ blockedExclusive' = Tail(blockedExclusive) /\ UNCHANGED event
  /\ UNCHANGED <<credit, blockedShared>>

\* KeReleaseSemaphore for all shared waiters.
ReleaseSemaphore ==
  LET n == IF sharedWaiters < Len(blockedShared) THEN sharedWaiters ELSE Len(blockedShared)
      woken == {blockedShared[i] : i \in 1 .. n}
  IN  /\ pc' = [t \in Threads |-> IF t \in woken THEN "Woken" ELSE pc[t]]
      /\ blockedShared' = SubSeq(blockedShared, n + 1, Len(blockedShared))
      /\ credit' = credit + (sharedWaiters - n)
      /\ UNCHANGED <<event, blockedExclusive>>

NoSignal == UNCHANGED <<signals, pc>>
-------------------------------------------------------------------------------
(* Acquiring *)

TakeExclusive(t) ==
  /\ exclusive' = TRUE /\ active' = 1 /\ owner0' = One(t) /\ Granted(t)
  /\ UNCHANGED <<owner1, table>>

TakeShared(t) == EiAddSharedOwner(t) /\ Granted(t) /\ UNCHANGED <<exclusive, owner0>>

\* The owner table is kept when nobody owns the resource.
TakeStarving(t) ==
  IF active # 0
    THEN TakeShared(t)
    ELSE /\ owner1' = One(t) /\ active' = 1 /\ Granted(t)
         /\ UNCHANGED <<table, exclusive, owner0>>

TakeAgain(t) ==
  /\ owner0' = [owner0 EXCEPT !.count = @ + 1] /\ Granted(t)
  /\ UNCHANGED <<exclusive, active, owner1, table>>

BeginToWait(t, kind) ==
  /\ Goto(t, "Go") /\ wants' = [wants EXCEPT ![t] = kind]
  /\ exclusiveWaiters' = IF kind = "Exclusive" THEN exclusiveWaiters + 1 ELSE exclusiveWaiters
  /\ sharedWaiters' = IF kind = "Exclusive" THEN sharedWaiters ELSE sharedWaiters + 1
  /\ UNCHANGED <<exclusive, active, entries, signals, holds>>

\* A shared owner does not ask for exclusive access, an exclusive one for either.
MayAcquire(t, kind) ==
  /\ pc[t] = "Run" /\ holds[t] < MaxHolds
  /\ credit <= MaxCredit \/ \A u \in Threads : pc[u] = "Run" /\ holds[u] = 0
  /\ holds[t] = 0 \/ OwnsExclusive(t) \/ (Recursive /\ kind = "Shared")

\* An exclusive owner takes it again whatever it asks for.
Take(t, kind) ==
  \/ OwnsExclusive(t) /\ TakeAgain(t)
  \/ /\ ~OwnsExclusive(t)
     /\ \/ kind = "Exclusive" /\ TakeExclusive(t)
        \/ kind = "Shared" /\ TakeShared(t)
        \/ kind = "Starve" /\ TakeStarving(t)

Acquire(t, kind, free) ==
  /\ MayAcquire(t, kind)
  /\ IF OwnsExclusive(t) \/ free
       THEN Take(t, kind) /\ UNCHANGED <<waiting, signals, pc, wants>>
       ELSE BeginToWait(t, kind)

ExAcquireResourceExclusiveLite(t) == Acquire(t, "Exclusive", active = 0)

\* Shared owners come after exclusive waiters, unless nobody owns the resource.
HeldOff == exclusive \/ exclusiveWaiters > 0

ExAcquireResourceSharedLite(t) == Acquire(t, "Shared", active = 0 \/ ~HeldOff)

ExAcquireSharedStarveExclusive(t) ==
  /\ Starving = "Safe" => OwnsExclusive(t) \/ (~exclusive /\ (active = 0 => table = << >>))
  /\ Starving # "No"
  /\ Acquire(t, "Starve", ~exclusive)

\* KeWaitForSingleObject, after the spin lock was released.
WaitForSignal(t) ==
  /\ pc[t] = "Go"
  /\ IF wants[t] = "Exclusive"
       THEN /\ UNCHANGED <<credit, blockedShared>>
            /\ IF event
                 THEN event' = FALSE /\ Goto(t, "Woken") /\ UNCHANGED blockedExclusive
                 ELSE /\ blockedExclusive' = Append(blockedExclusive, t) /\ Goto(t, "Blocked")
                      /\ UNCHANGED event
       ELSE /\ UNCHANGED <<event, blockedExclusive>>
            /\ IF credit > 0
                 THEN credit' = credit - 1 /\ Goto(t, "Woken") /\ UNCHANGED blockedShared
                 ELSE /\ blockedShared' = Append(blockedShared, t) /\ Goto(t, "Blocked")
                      /\ UNCHANGED credit
  /\ UNCHANGED <<exclusive, active, entries, waiting, wants, holds>>

\* What is looked at when the spin lock is held again.
StillFree(kind) ==
  /\ kind = "Exclusive" => active = 0
  /\ kind = "Shared" => ~HeldOff

AfterWait(t) ==
  /\ pc[t] = "Woken"
  /\ IF StillFree(wants[t])
       THEN /\ Goto(t, "Run")
            /\ IF wants[t] = "Exclusive"
                 THEN /\ TakeExclusive(t)
                      /\ exclusiveWaiters' = exclusiveWaiters - 1 /\ UNCHANGED sharedWaiters
                 ELSE /\ TakeShared(t)
                      /\ sharedWaiters' = sharedWaiters - 1 /\ UNCHANGED exclusiveWaiters
       ELSE Goto(t, "Go") /\ UNCHANGED <<exclusive, active, entries, waiting, holds>>
  /\ UNCHANGED <<signals, wants>>
-------------------------------------------------------------------------------
(* Releasing *)

\* Mutated: shared waiters are not woken.
WakeExclusive == IF exclusiveWaiters > 0 THEN SetEvent ELSE NoSignal

\* An exclusive waiter if there is one, else all the shared ones.
WakeNext ==
  \/ exclusiveWaiters > 0 /\ SetEvent
  \/ exclusiveWaiters = 0 /\ sharedWaiters > 0 /\ ReleaseSemaphore
  \/ exclusiveWaiters = 0 /\ sharedWaiters = 0 /\ NoSignal

ReleaseExclusive ==
  /\ exclusive /\ UNCHANGED <<owner1, table>>
  /\ IF owner0.count > 1
       THEN /\ owner0' = [owner0 EXCEPT !.count = @ - 1]
            /\ NoSignal /\ UNCHANGED <<exclusive, active>>
       ELSE /\ owner0' = Free /\ active' = active - 1 /\ exclusive' = FALSE
            /\ WakeNext

WakeAfterShared == IF active' = 0 /\ exclusiveWaiters > 0 THEN SetEvent ELSE NoSignal

ReleaseShared(o) ==
  /\ ~exclusive /\ EiRemoveSharedOwner(o)
  /\ WakeAfterShared
  /\ UNCHANGED <<exclusive, owner0>>

\* By an owner that holds it; a pointer's holds are released by anybody.
ExReleaseResourceForThreadLite(o) ==
  /\ holds[o] > 0 /\ (o \in Threads => pc[o] = "Run")
  /\ holds' = [holds EXCEPT ![o] = @ - 1]
  /\ ReleaseExclusive \/ ReleaseShared(o)
  /\ UNCHANGED <<waiting, wants>>

ExConvertExclusiveToSharedLite(t) ==
  /\ pc[t] = "Run" /\ OwnsExclusive(t) /\ credit <= MaxCredit
  /\ Converting \/ table = << >>
  /\ owner1' = owner0 /\ owner0' = Free /\ exclusive' = FALSE
  /\ IF sharedWaiters > 0 THEN ReleaseSemaphore ELSE NoSignal
  /\ UNCHANGED <<active, table, waiting, wants, holds>>

\* Where the pointer goes to: of an owner in the table the first entry, unless that
\* is its own, in which case the one after.
ExSetResourceOwnerPointer(t, p) ==
  LET direct == exclusive \/ owner1.thread = t
      i == IF table # << >> /\ table[1].thread = t /\ table[1].count = 0 THEN 2 ELSE 1
  IN  /\ pc[t] = "Run" /\ holds[t] > 0 /\ holds[p] = 0
      /\ exclusive => owner0.thread = t
      /\ direct \/ TableLookup
      /\ holds' = [holds EXCEPT ![t] = 0, ![p] = holds[t]]
      /\ IF exclusive
           THEN owner0' = [owner0 EXCEPT !.thread = p] /\ UNCHANGED <<owner1, table>>
           ELSE IF direct
           THEN owner1' = [owner1 EXCEPT !.thread = p] /\ UNCHANGED <<owner0, table>>
           ELSE table' = [table EXCEPT ![i].thread = p] /\ UNCHANGED <<owner0, owner1>>
      /\ UNCHANGED <<exclusive, active, waiting, signals, pc, wants>>

ExInitializeResourceLite ==
  /\ exclusive = FALSE /\ active = 0 /\ owner0 = Free /\ owner1 = Free /\ table = << >>
  /\ exclusiveWaiters = 0 /\ sharedWaiters = 0
  /\ event = FALSE /\ blockedExclusive = << >> /\ credit = 0 /\ blockedShared = << >>

Init ==
  /\ ExInitializeResourceLite
  /\ pc = [t \in Threads |-> "Run"] /\ wants = [t \in Threads |-> "Shared"]
  /\ holds = [o \in Owners |-> 0]

Next ==
  \/ \E t \in Threads :
       \/ ExAcquireResourceExclusiveLite(t) \/ ExAcquireResourceSharedLite(t)
       \/ ExAcquireSharedStarveExclusive(t)
       \/ WaitForSignal(t) \/ AfterWait(t)
       \/ ExConvertExclusiveToSharedLite(t)
       \/ \E p \in Pointers : ExSetResourceOwnerPointer(t, p)
  \/ \E o \in Owners : ExReleaseResourceForThreadLite(o)

Spec == Init /\ [][Next]_vars
-------------------------------------------------------------------------------
Entries == [thread : Owners \union {None}, count : Nat]

\* Types of the fields.
TypeOK ==
  /\ exclusive \in BOOLEAN /\ active \in Nat
  /\ owner0 \in Entries /\ owner1 \in Entries /\ table \in Seq(Entries)
  /\ exclusiveWaiters \in 0 .. Cardinality(Threads)
  /\ sharedWaiters \in 0 .. Cardinality(Threads)
  /\ event \in BOOLEAN /\ credit \in Nat
  /\ blockedExclusive \in Seq(Threads) /\ blockedShared \in Seq(Threads)
  /\ pc \in [Threads -> {"Run", "Go", "Blocked", "Woken"}] /\ wants \in [Threads -> Kinds]
  /\ holds \in [Owners -> 0 .. MaxHolds]

\* An exclusive owner is alone: whoever was woken, or came between a release and
\* the woken thread's next look, did not get in beside it (the assertion in
\* ExReleaseResourceForThreadLite).
ExclusiveIsAlone == exclusive => \A o \in Owners : holds[o] > 0 => o = owner0.thread

\* The ActiveCount is zero exactly while no owner has access: no release is lost in
\* the three places an owner can be recorded in.
FreeWhenReleased == active = 0 <=> \A o \in Owners : holds[o] = 0

\* The threads that wait, or are on their way to a wait or back from one.
Waiting(kinds) == {t \in Threads : pc[t] # "Run" /\ wants[t] \in kinds}

\* The waiters are counted: every count of waiters is the threads that wait, and
\* a signal that nobody waits for is only kept for a thread on its way to the wait.
WaitersCounted ==
  /\ exclusiveWaiters = Cardinality(Waiting({"Exclusive"}))
  /\ sharedWaiters = Cardinality(Waiting({"Shared", "Starve"}))
  /\ credit > 0 => blockedShared = << >>
  /\ event => blockedExclusive = << >>

\* Nobody is left waiting for a resource that is free, or that shared owners could
\* share, with no signal on its way; and the waiters are counted.
NobodyStranded ==
  /\ WaitersCounted
  /\ blockedExclusive # << >> /\ active = 0
       => \E t \in Threads : pc[t] = "Woken" /\ wants[t] = "Exclusive"
  /\ blockedShared # << >> /\ ~HeldOff
       => \E t \in Threads : pc[t] = "Woken"

\* All of them, with the types: an exclusive owner of a resource is alone, and a resource all
\* whose owners have released it is free: no release is lost in the three places an owner is
\* recorded in.  Nobody waits for a resource that is free with no signal on its way to them.
ResourcesHandedOn == TypeOK /\ ExclusiveIsAlone /\ FreeWhenReleased /\ NobodyStranded

\* "we must search if this thread has already acquired this resource then increase
\* ownercount if found, else create new entry".
OneEntryEach ==
  \A i, j \in DOMAIN table :
    table[i].thread = table[j].thread /\ table[i].thread # None => i = j
===============================================================================
