------------------------------- MODULE FsFileLock -------------------------------
(***************************************************************************)
(* Byte range locks of a file (fs/filelock.c): the granted locks, the lock        *)
(* requests that wait for them, the routine that cancels one, and unlocking,        *)
(* which tries the waiting ones again.  What runs under the spin lock of the         *)
(* file's table of locks is one step; completing packets and setting the hint          *)
(* FsRtlAreThereCurrentFileLocks are steps outside it.                            *)
(***************************************************************************)
EXTENDS Integers, Sequences, FiniteSets, SequencesExt

CONSTANTS
  Irps,          \* lock requests
  Unlockers,     \* threads that unlock
  Requests,      \* records [owner, key, start, length, exclusive]
  Width,         \* offsets are taken modulo Width
  Complains,     \* the file system's CompleteLockIrpRoutine may fail
  Cancels,       \* requests may be cancelled
  Synchronized,  \* the file system lets one call in at a time
  Closes         \* the file may be closed with requests waiting

FileLockAssumption ==
  /\ Irps \cap Unlockers = {} /\ Width \in Nat \ {0}
  /\ \A r \in Requests : r.start \in 0 .. Width - 1 /\ r.length \in 1 .. Width - r.start
  /\ {Complains, Cancels, Synchronized, Closes} \subseteq BOOLEAN

VARIABLES
  request,   \* what a packet asks for
  state,     \* where a packet is
  granted,   \* GrantedListHead: records [irp, lock]
  pending,   \* PendingListHead
  cancel,    \* Irp->Cancel
  routine,   \* the packets whose cancel routine is set
  hint,      \* FsRtlAreThereCurrentFileLocks
  frames,    \* what a thread has left to do, the innermost call last
  toc        \* the table of locks: "here", "closing" or "freed"

vars == <<request, state, granted, pending, cancel, routine, hint, frames, toc>>

Threads == Irps \cup Unlockers

Init ==
  /\ request \in [Irps -> Requests]
  /\ state = [i \in Irps |-> "none"]
  /\ granted = <<>> /\ pending = <<>>
  /\ cancel = [i \in Irps |-> FALSE] /\ routine = {}
  /\ hint = FALSE
  /\ frames = [t \in Threads |-> <<>>]
  /\ toc = "here"

\* Nobody is inside a call, where the file system lets one in at a time.
MayEnter(t) ==
  /\ toc = "here" /\ frames[t] = <<>>
  /\ Synchronized => /\ \A u \in Threads : frames[u] = <<>>
                     /\ \A i \in Irps : state[i] \notin {"added", "denied"}
-------------------------------------------------------------------------------
EndOffset(start, length) == (start + length - 1) % Width
EndingByte(lock) == EndOffset(lock.start, lock.length)

IsOverlappingLock(lock, start, end) == ~(start > EndingByte(lock)) /\ ~(end < lock.start)
IsSurroundingLock(lock, start, end) == start >= lock.start /\ end <= EndingByte(lock)

\* What the loops over the granted locks come to: the first entry that decides, if any.
FirstDeciding(list, decides) ==
  LET places == {n \in DOMAIN list : decides[n]} IN
  IF places = {} THEN 0 ELSE CHOOSE n \in places : \A m \in places : n <= m

\* Mutated: any shared lock that meets a new shared lock ends the search.
GrantableBesideShared(list, new) ==
  LET meets(n) == IsOverlappingLock(list[n].lock, new.start, EndingByte(new))
      n == FirstDeciding(list, [m \in DOMAIN list |-> meets(m)]) IN
  n # 0 => ~list[n].lock.exclusive /\ ~new.exclusive

\* The loop of FsRtlpAddLock: a shared lock around a new shared lock ends the search.
Grantable(list, new) ==
  LET end      == EndingByte(new)
      meets(n) == IsOverlappingLock(list[n].lock, new.start, end)
      shared(n) == ~list[n].lock.exclusive /\ ~new.exclusive
      n == FirstDeciding(list, [m \in DOMAIN list |->
             meets(m) /\ (shared(m) => IsSurroundingLock(list[m].lock, new.start, end))]) IN
  n # 0 => shared(n)

\* FsRtlpAddLock inserts at the head.
FsRtlpAddLock(list, i) == <<[irp |-> i, lock |-> request[i]]>> \o list

\* FsRtlpCheckLockForReadOrWriteAccess.
AccessGranted(list, access, read) ==
  LET end == EndingByte(access)
      meets(n) == IsOverlappingLock(list[n].lock, access.start, end)
      allowed(n) ==
        \/ read /\ ~list[n].lock.exclusive
        \/ /\ list[n].lock.exclusive
           /\ list[n].lock.owner = access.owner /\ list[n].lock.key = access.key
      n == FirstDeciding(list, [m \in DOMAIN list |->
             meets(m) /\ (allowed(m) => IsSurroundingLock(list[m].lock, access.start, end))]) IN
  n # 0 => allowed(n)
-------------------------------------------------------------------------------
\* FsRtlPrivateLock, to the release of the spin lock: granted, refused at once, left
\* waiting, or, if the packet is cancelled already, completed as such.
FsRtlPrivateLock(i, failImmediately) ==
  /\ state[i] = "none" /\ MayEnter(i)
  /\ \/ /\ Grantable(granted, request[i])
        /\ granted' = FsRtlpAddLock(granted, i)
        /\ state' = [state EXCEPT ![i] = "added"]
        /\ UNCHANGED <<pending, routine>>
     \/ /\ ~Grantable(granted, request[i]) /\ failImmediately
        /\ state' = [state EXCEPT ![i] = "denied"]
        /\ UNCHANGED <<granted, pending, routine>>
     \/ /\ ~Grantable(granted, request[i]) /\ ~failImmediately /\ cancel[i]
        /\ state' = [state EXCEPT ![i] = "cancelled"]
        /\ UNCHANGED <<granted, pending, routine>>
     \/ /\ ~Grantable(granted, request[i]) /\ ~failImmediately /\ ~cancel[i]
        /\ pending' = <<i>> \o pending
        /\ routine' = routine \cup {i}
        /\ state' = [state EXCEPT ![i] = "pending"]
        /\ UNCHANGED granted
  /\ UNCHANGED <<request, cancel, hint, frames, toc>>

\* What the walk of FsRtlpCompletePendingLocks leaves, packet by packet from the head of the
\* list: the packets it takes off, and the granted locks.  A packet whose cancel routine is
\* gone is taken off too, its lock granted, but not completed.
Walk(list) ==
  LET round[n \in 0 .. Len(pending)] ==
        IF n = 0 THEN [taken |-> <<>>, granted |-> list]
        ELSE IF Grantable(round[n - 1].granted, request[pending[n]])
             THEN [taken |-> Append(round[n - 1].taken, pending[n]),
                   granted |-> FsRtlpAddLock(round[n - 1].granted, pending[n])]
             ELSE round[n - 1] IN
  round[Len(pending)]

\* FsRtlpCompletePendingLocks, to the release of the spin lock.
FsRtlpCompletePendingLocks(t, list, outer, states) ==
  LET walk == Walk(list)
      completed == SelectSeq(walk.taken, LAMBDA i : i \in routine) IN
  /\ granted' = walk.granted
  /\ pending' = SelectSeq(pending, LAMBDA i : i \notin Range(walk.taken))
  /\ routine' = routine \ Range(completed)
  /\ state' = [i \in Irps |-> IF i \in Range(completed) THEN "completing" ELSE states[i]]
  /\ frames' = [frames EXCEPT ![t] = outer \o <<[at |-> "complete", irps |-> completed]>>]

\* FsRtlpUnlockSingle: the newest lock of the same owner, key and range, if there is one.
Matching(lock) ==
  FirstDeciding(granted, [n \in DOMAIN granted |->
    \A field \in {"owner", "key", "start", "length"} : granted[n].lock[field] = lock[field]])

FsRtlpUnlockSingle(t, lock, outer, states) ==
  \/ /\ Matching(lock) # 0
     /\ FsRtlpCompletePendingLocks(t, RemoveAt(granted, Matching(lock)), outer, states)
  \/ /\ Matching(lock) = 0
     /\ state' = states /\ frames' = [frames EXCEPT ![t] = outer]
     /\ UNCHANGED <<granted, pending, routine>>

FsRtlFastUnlockSingle(t, lock) ==
  /\ MayEnter(t)
  /\ FsRtlpUnlockSingle(t, lock, <<>>, state)
  /\ UNCHANGED <<request, cancel, hint, toc>>

\* FsRtlpFastUnlockAllByKey: all locks of the owner, or of the owner's key; the spin lock is
\* released before the waiting requests are tried.
FsRtlpFastUnlockAllByKey(t, owner, keys) ==
  LET kept == SelectSeq(granted, LAMBDA g : ~(g.lock.owner = owner /\ g.lock.key \in keys)) IN
  /\ MayEnter(t) /\ kept # granted
  /\ granted' = kept
  /\ frames' = [frames EXCEPT ![t] = <<[at |-> "walk", irps |-> <<>>]>>]
  /\ UNCHANGED <<request, state, pending, cancel, routine, hint, toc>>

CallUnlockRoutines(t) ==
  /\ frames[t] # <<>> /\ Last(frames[t]).at = "walk"
  /\ FsRtlpCompletePendingLocks(t, granted, Front(frames[t]), state)
  /\ UNCHANGED <<request, cancel, hint, toc>>
-------------------------------------------------------------------------------
Completes(t) == frames[t] # <<>> /\ Last(frames[t]).at = "complete"

\* The packets taken off are completed, in the order of the walk; if the file system refuses
\* one its lock is unlocked again.
CompleteTaken(t) ==
  LET frame == Last(frames[t])
      i     == Head(frame.irps)
      rest  == Append(Front(frames[t]), [frame EXCEPT !.irps = Tail(frame.irps)]) IN
  /\ Completes(t) /\ frame.irps # <<>>
  /\ \/ /\ state' = [state EXCEPT ![i] = "locked"]
        /\ frames' = [frames EXCEPT ![t] = rest]
        /\ UNCHANGED <<granted, pending, routine>>
     \/ Complains /\ FsRtlpUnlockSingle(t, request[i], rest, [state EXCEPT ![i] = "refused"])
  /\ UNCHANGED <<request, cancel, hint, toc>>

\* The spin lock again: if no lock is granted the hint goes, after its release.
CheckEmpty(t) ==
  LET outer == Front(frames[t]) IN
  /\ Completes(t) /\ Last(frames[t]).irps = <<>>
  /\ frames' = [frames EXCEPT ![t] = IF granted = <<>>
                  THEN Append(outer, [at |-> "clear", irps |-> <<>>]) ELSE outer]
  /\ UNCHANGED <<request, state, granted, pending, cancel, routine, hint, toc>>

ClearHint(t) ==
  /\ frames[t] # <<>> /\ Last(frames[t]).at = "clear"
  /\ hint' = FALSE
  /\ frames' = [frames EXCEPT ![t] = Front(@)]
  /\ UNCHANGED <<request, state, granted, pending, cancel, routine, toc>>

\* The rest of FsRtlPrivateLock: the hint for a granted lock, and the completion.  What the
\* file system refuses is unlocked, whether it was granted or denied.
CompleteLock(i) ==
  /\ state[i] \in {"added", "denied"} /\ frames[i] = <<>>
  /\ hint' = (hint \/ state[i] = "added")
  /\ \/ /\ state' = [state EXCEPT ![i] = IF @ = "added" THEN "locked" ELSE "refused"]
        /\ UNCHANGED <<granted, pending, routine, frames>>
     \/ Complains /\ FsRtlpUnlockSingle(i, request[i], <<>>, [state EXCEPT ![i] = "refused"])
  /\ UNCHANGED <<request, cancel, toc>>
-------------------------------------------------------------------------------
\* IoCancelIrp: the flag; then the cancel routine, if it is still set; then, in the cancel
\* routine, under the spin lock of the table, off the list.
IoCancelIrp(i) ==
  /\ Cancels /\ ~cancel[i] /\ state[i] \in {"none", "pending"}
  /\ cancel' = [cancel EXCEPT ![i] = TRUE]
  /\ UNCHANGED <<request, state, granted, pending, routine, hint, frames, toc>>

TakeRoutine(i) ==
  /\ cancel[i] /\ i \in routine
  /\ routine' = routine \ {i}
  /\ state' = [state EXCEPT ![i] = "cancelling"]
  /\ UNCHANGED <<request, granted, pending, cancel, hint, frames, toc>>

FsRtlpFileLockCancelRoutine(i) ==
  /\ state[i] = "cancelling"
  /\ pending' = SelectSeq(pending, LAMBDA p : p # i)
  /\ state' = [state EXCEPT ![i] = "cancelled"]
  /\ UNCHANGED <<request, granted, cancel, routine, hint, frames, toc>>

\* FsRtlUninitializeFileLock: the granted locks are freed, the waiting packets completed,
\* the last of the list first, and the table freed.
FsRtlUninitializeFileLock ==
  /\ Closes /\ toc = "here" /\ \A t \in Threads : MayEnter(t)
  /\ \A i \in Irps : state[i] \notin {"added", "denied"}
  /\ toc' = "closing" /\ granted' = <<>>
  /\ UNCHANGED <<request, state, pending, cancel, routine, hint, frames>>

CompleteWaiting ==
  LET i == Last(pending) IN
  /\ toc = "closing" /\ pending # <<>>
  /\ pending' = Front(pending)
  /\ state' = IF i \in routine THEN [state EXCEPT ![i] = "refused"] ELSE state
  /\ routine' = routine \ {i}
  /\ UNCHANGED <<request, granted, cancel, hint, frames, toc>>

FreeToc ==
  /\ toc = "closing" /\ pending = <<>>
  /\ toc' = "freed" /\ hint' = FALSE
  /\ UNCHANGED <<request, state, granted, pending, cancel, routine, frames>>

Next ==
  \/ \E i \in Irps : \/ \E failImmediately \in BOOLEAN : FsRtlPrivateLock(i, failImmediately)
                     \/ CompleteLock(i)
                     \/ IoCancelIrp(i) \/ TakeRoutine(i) \/ FsRtlpFileLockCancelRoutine(i)
  \/ \E t \in Unlockers : \E r \in Requests :
       \/ FsRtlFastUnlockSingle(t, r)
       \/ FsRtlpFastUnlockAllByKey(t, r.owner, {r.key})
       \/ FsRtlpFastUnlockAllByKey(t, r.owner, {q.key : q \in Requests})
  \/ \E t \in Threads : CallUnlockRoutines(t) \/ CompleteTaken(t) \/ CheckEmpty(t) \/ ClearHint(t)
  \/ FsRtlUninitializeFileLock \/ CompleteWaiting \/ FreeToc

Spec == Init /\ [][Next]_vars
-------------------------------------------------------------------------------
TypeOK ==
  /\ request \in [Irps -> Requests]
  /\ state \in [Irps -> {"none", "added", "denied", "pending", "completing", "locked", "refused",
                         "cancelling", "cancelled"}]
  /\ granted \in Seq([irp : Irps, lock : Requests]) /\ pending \in Seq(Irps)
  /\ cancel \in [Irps -> BOOLEAN] /\ routine \subseteq Irps /\ hint \in BOOLEAN
  /\ frames \in [Threads -> Seq([at : {"walk", "complete", "clear"}, irps : Seq(Irps)])]
  /\ toc \in {"here", "closing", "freed"}

\* The bytes of a lock or of an access.
Bytes(lock) == lock.start .. lock.start + lock.length - 1
Meet(a, b) == Bytes(a) \cap Bytes(b) # {}
Conflict(a, b) == Meet(a, b) /\ (a.exclusive \/ b.exclusive)

\* No byte is in two granted locks unless both are shared, though the searches for
\* conflicts stop at the first lock that surrounds the new one.
GrantsAreCompatible ==
  \A m, n \in DOMAIN granted : m # n => ~Conflict(granted[m].lock, granted[n].lock)

\* Reads and writes are let through exactly when no granted lock forbids one of their bytes.
AccessFollowsLocks ==
  \A a \in Requests : \A read \in BOOLEAN :
    AccessGranted(granted, a, read) <=>
      \A n \in DOMAIN granted :
        LET lock == granted[n].lock IN
        Meet(a, lock) => \/ read /\ ~lock.exclusive
                         \/ lock.exclusive /\ lock.owner = a.owner /\ lock.key = a.key

\* No request waits that could be granted, except between the two halves of an unlock-all.
WaitersAreBlocked ==
  (toc = "here" /\ \A t \in Threads : \A n \in DOMAIN frames[t] : frames[t][n].at # "walk") =>
    \A n \in DOMAIN pending : \E m \in DOMAIN granted :
      Conflict(granted[m].lock, request[pending[n]])

\* Every granted lock is that of a packet that has been or will be completed with success.
GrantsAreReported ==
  \A n \in DOMAIN granted : state[granted[n].irp] \in {"added", "completing", "locked"}

\* While a lock is granted and no call is under way the hint says so: file systems that see
\* no hint let reads and writes through unchecked.
HintCoversGrants ==
  (\A t \in Threads : frames[t] = <<>>) /\ (\A i \in Irps : state[i] \notin {"added", "denied"}) =>
    (granted # <<>> => hint)

\* The table of locks is there as long as a cancel routine will take its spin lock.
TocOutlivesCancels == \A i \in Irps : state[i] = "cancelling" => toc # "freed"

\* Requests that wait are granted in the order they came in, as far as they conflict.
GrantedInOrder ==
  [][\A m, n \in DOMAIN pending :
       m < n /\ Conflict(request[pending[m]], request[pending[n]])
         => ~(state[pending[m]] = "pending" /\ state'[pending[m]] = "completing"
                /\ state'[pending[n]] = "pending")]_vars

\* "CompleteLockIrpRoutine complain: revert changes": a request that was denied has changed
\* nothing, so no lock goes.
DenialsRevertNothing ==
  [][\A i \in Irps : state[i] = "denied" /\ state'[i] = "refused" =>
       Range(granted) \subseteq Range(granted')]_vars
===============================================================================
