-------------------------------- MODULE ExRundown ------------------------------
(***************************************************************************)
(* Rundown protection, ntoskrnl/ex/rundown.c.  The word of a reference is     *)
(* either a count of users or, with the bit EX_RUNDOWN_ACTIVE, the address of *)
(* a descriptor on the stack of the thread that waits for the users to leave: *)
(* the descriptor is named by its thread, NoDescriptor is the null pointer.    *)
(* Every read and interlocked operation is a step; op[t] is the call thread t  *)
(* is in.  Calls count one user at a time, as all calls in src/ do.  The spec  *)
(* of this module lets users come and go at any time; CmCallbacks is the one    *)
(* user in src/.                                                              *)
(***************************************************************************)
EXTENDS Integers, FiniteSets

CONSTANTS
  Users,         \* threads that acquire and release
  Drainers,      \* threads that wait for users to leave
  Refs, NoDescriptor,
  MaxCount       \* bound: what a word counts

Threads == Users \cup Drainers

VARIABLES
  word,        \* Refs -> Counting(n), Active(descriptor) or Moved
  references,  \* Threads -> References of the thread's descriptor
  event,       \* Threads -> RundownEvent of the thread's descriptor
  op           \* Threads -> [at, ref, read]: the step it is at, what it read

rundownVars == <<word, references, event, op>>

RundownAssumption ==
  /\ Users # {} /\ Users \cap Drainers = {} /\ Refs # {} /\ NoDescriptor \notin Threads
  /\ MaxCount \in Nat

Counting(n) == [active |-> FALSE, value |-> n]
Active(d)   == [active |-> TRUE, value |-> d]

\* An active word that something was added to: it is the address of no descriptor.
Moved == [active |-> TRUE]

At(t, place) == op[t].at = place
Go(t, place) == op' = [op EXCEPT ![t].at = place]

\* Between calls a thread is idle, or it knows that it was granted or refused protection
\* or has seen the users leave.
Enter(t, r, place) ==
  /\ op[t].at \in {"idle", "granted", "refused", "drained"}
  /\ op' = [op EXCEPT ![t] = [at |-> place, ref |-> r, read |-> Counting(0)]]
  /\ UNCHANGED <<word, references, event>>
-------------------------------------------------------------------------------
ExInitializeRundownProtection(r) ==
  word' = [word EXCEPT ![r] = Counting(0)] /\ UNCHANGED <<references, event, op>>

\* ExAcquireRundownProtectionEx: what it added stays when the word had changed since it
\* was read, and it adds again; it does not look whether the word has become active meanwhile.
ReadToAcquire(t) ==
  LET w == word[op[t].ref] IN
  /\ At(t, "acquire")
  /\ op' = [op EXCEPT ![t].at = IF w.active THEN "refused" ELSE "add", ![t].read = w]
  /\ UNCHANGED <<word, references, event>>
ExchangeAdd(t) ==
  LET w == word[op[t].ref] IN
  /\ At(t, "add")
  /\ \/ w.active /\ word' = [word EXCEPT ![op[t].ref] = Moved]
     \/ ~w.active /\ w.value < MaxCount
        /\ word' = [word EXCEPT ![op[t].ref] = Counting(w.value + 1)]
  /\ Go(t, IF w = op[t].read THEN "granted" ELSE "acquire")
  /\ UNCHANGED <<references, event>>

\* ExReleaseRundownProtectionEx: counts down in the word, or in the descriptor, of which
\* it keeps the address; behind an address that was moved, in memory of something else.
InDescriptor(d) == [descriptor |-> d, references |-> references[d]]
ReadToRelease(t) ==
  LET w == word[op[t].ref] IN
  /\ At(t, "release")
  /\ \/ ~w.active /\ op' = [op EXCEPT ![t].at = "subtract", ![t].read = w]
     \/ w \in {Active(NoDescriptor), Moved} /\ Go(t, "idle")
     \/ /\ w.active /\ w \notin {Active(NoDescriptor), Moved}
        /\ op' = [op EXCEPT ![t].at = "count", ![t].read = InDescriptor(w.value)]
  /\ UNCHANGED <<word, references, event>>
Subtract(t) ==
  LET r == op[t].ref  w == op[t].read IN
  /\ At(t, "subtract")
  /\ \/ word[r] = w /\ word' = [word EXCEPT ![r] = Counting(w.value - 1)] /\ Go(t, "idle")
     \/ word[r] # w /\ Go(t, "release") /\ UNCHANGED word
  /\ UNCHANGED <<references, event>>

\* What is left after one of n users of a descriptor has gone: the number is shifted and
\* marked as if it were a word again.
Remaining(n) == IF n = 1 THEN 0 ELSE 2 * (n - 1) + 1

CountDown(t) ==
  LET d == op[t].read.descriptor  n == op[t].read.references IN
  /\ At(t, "count")
  /\ \/ /\ references[d] = n
        /\ references' = [references EXCEPT ![d] = Remaining(n)]
        /\ Go(t, IF Remaining(n) = 0 THEN "signal" ELSE "idle")
     \/ /\ references[d] # n
        /\ op' = [op EXCEPT ![t].read = InDescriptor(d)]
        /\ UNCHANGED references
  /\ UNCHANGED <<word, event>>
Signal(t) ==
  /\ At(t, "signal") /\ Go(t, "idle")
  /\ event' = [event EXCEPT ![op[t].read.descriptor] = TRUE]
  /\ UNCHANGED <<word, references>>

\* ExWaitForRundownProtectionRelease: nothing to wait for, or no one to wait twice.
Nothing(w) == w.active \/ w = Counting(0)
Save(t, w) == /\ references' = [references EXCEPT ![t] = w.value]
              /\ op' = [op EXCEPT ![t].at = "exchange", ![t].read = w]
ReadToWait(t) ==
  LET w == word[op[t].ref] IN
  /\ At(t, "wait")
  /\ \/ Nothing(w) /\ Go(t, "drained") /\ UNCHANGED <<references, event>>
     \/ ~Nothing(w) /\ Save(t, w) /\ event' = [event EXCEPT ![t] = FALSE]
  /\ UNCHANGED word
CompareExchange(t) ==
  LET r == op[t].ref  w == word[r] IN
  /\ At(t, "exchange")
  /\ \/ w = op[t].read /\ word' = [word EXCEPT ![r] = Active(t)] /\ Go(t, "waiting")
        /\ UNCHANGED references
     \/ w # op[t].read /\ Nothing(w) /\ Go(t, "drained") /\ UNCHANGED <<word, references>>
     \/ w # op[t].read /\ ~Nothing(w) /\ Save(t, w) /\ UNCHANGED word
  /\ UNCHANGED event
EventEndsWait(t) ==
  /\ At(t, "waiting") /\ event[t] /\ Go(t, "drained")
  /\ UNCHANGED <<word, references, event>>

\* ExRundownCompleted, by the thread that waited: no one is let in any more.
ExRundownCompleted(t) ==
  /\ At(t, "drained") /\ Go(t, "idle")
  /\ word' = [word EXCEPT ![op[t].ref] = Active(NoDescriptor)]
  /\ UNCHANGED <<references, event>>

\* The steps of a call once it is entered.
Proceed(t) ==
  \/ ReadToAcquire(t) \/ ExchangeAdd(t)
  \/ ReadToRelease(t) \/ Subtract(t) \/ CountDown(t) \/ Signal(t)
  \/ ReadToWait(t) \/ CompareExchange(t) \/ EventEndsWait(t)

RundownInit ==
  /\ word = [r \in Refs |-> Counting(0)]
  /\ references = [t \in Threads |-> 0]
  /\ event = [t \in Threads |-> FALSE]
  /\ op = [t \in Threads |-> [at |-> "idle", ref |-> CHOOSE r \in Refs : TRUE,
                              read |-> Counting(0)]]

RundownNext ==
  \/ \E t \in Threads : Proceed(t)
  \/ \E t \in Users, r \in Refs : At(t, "idle") /\ Enter(t, r, "acquire")
  \/ \E t \in Users : At(t, "granted") /\ Enter(t, op[t].ref, "release")
  \/ \E t \in Drainers, r \in Refs : At(t, "idle") /\ Enter(t, r, "wait")
  \/ \E t \in Drainers : ExRundownCompleted(t)
-------------------------------------------------------------------------------
\* The users of r: from the grant until their release has counted them out.
Holders(r) ==
  {t \in Users : op[t].ref = r /\ op[t].at \in {"granted", "release", "subtract", "count"}}

\* A word that counts counts every user, and maybe some twice.
UsersAreCounted ==
  \A r \in Refs : ~word[r].active => word[r].value >= Cardinality(Holders(r))

\* The event of a waiting thread is set when the last user has left, not before.
EventMeansEmpty ==
  \A t \in Drainers : At(t, "waiting") /\ event[t] => Holders(op[t].ref) = {}

\* No addition is made to the address of a descriptor.
PointerStays == \A t \in Users : At(t, "add") => ~word[op[t].ref].active
===============================================================================
