------------------------------ MODULE CcFileCache ------------------------------
(***************************************************************************)
(* The cache map of a file, its BCB (cc/view.c): file objects that begin and    *)
(* end caching, sections that refer to it, the list of closed ones, and the      *)
(* thread that deletes those after a while.  A deletion gives up ViewLock while  *)
(* it flushes; everything else is done under it in one step.                      *)
(***************************************************************************)
EXTENDS Integers, Sequences, FiniteSets, SequencesExt

CONSTANTS
  Files,        \* file objects of the file, each with the thread that uses it
  Lazy, Remover,\* CmLazyCloseThreadMain; a thread that deletes the file (MmFlushImageSection)
  Bcbs,         \* memory for BCBs
  None,
  MaxCalls,     \* bound: calls of a thread
  Interrupts,   \* TRUE where others may run between the reading of SharedCacheMap and ViewLock
  DataSections  \* TRUE where a section is made of a file object that has not begun caching

CacheAssumption ==
  /\ Lazy \notin Files /\ Remover \notin Files /\ Lazy # Remover
  /\ None \notin Files \cup Bcbs /\ MaxCalls \in Nat /\ {Interrupts, DataSections} \subseteq BOOLEAN

Threads == Files \cup {Lazy, Remover}

VARIABLES
  shared,    \* SectionObjectPointer->SharedCacheMap
  used,      \* BCBs that are allocated
  refs,      \* BCB -> RefCount
  removes,   \* BCBs with RemoveOnClose
  closed,    \* ClosedListHead
  private,   \* file object -> PrivateCacheMap
  sections,  \* file object -> sections of it
  pc, at,    \* thread -> its place, and the BCB it deletes or has read
  calls      \* thread -> calls made

vars == <<shared, used, refs, removes, closed, private, sections, pc, at, calls>>

InClosed == {closed[i] : i \in DOMAIN closed}   \* BcbRemoveListEntry.Flink # NULL
Unlist(s, b) == IF b \in InClosed THEN Remove(s, b) ELSE s

Init ==
  /\ shared = None /\ used = {} /\ refs = [b \in Bcbs |-> 0] /\ removes = {} /\ closed = <<>>
  /\ private = [f \in Files |-> None] /\ sections = [f \in Files |-> 0]
  /\ pc = [t \in Threads |-> "idle"] /\ at = [t \in Threads |-> None]
  /\ calls = [t \in Threads |-> 0]

Call(t) == pc[t] = "idle" /\ calls[t] < MaxCalls /\ calls' = [calls EXCEPT ![t] = @ + 1]
-------------------------------------------------------------------------------
\* CcRosInitializeFileCache makes a BCB where it read none, before it took ViewLock.
ReadsMap(f) ==
  /\ Interrupts /\ Call(f) /\ pc' = [pc EXCEPT ![f] = "initialize"]
  /\ at' = [at EXCEPT ![f] = shared]
  /\ UNCHANGED <<shared, used, refs, removes, closed, private, sections>>

Begins(f, b) ==
  /\ IF private[f] = None
     THEN private' = [private EXCEPT ![f] = b] /\ refs' = [refs EXCEPT ![b] = @ + 1]
     ELSE UNCHANGED <<private, refs>>
  /\ closed' = Unlist(closed, b)

InitializeWith(f, seen, new) ==
  LET b == IF seen = None THEN new ELSE seen
  IN /\ used' = used \cup {b} /\ shared' = IF seen = None THEN new ELSE shared
     /\ Begins(f, b)
     /\ UNCHANGED <<removes, sections>>

CcRosInitializeFileCache(f, new) ==
  /\ new \in Bcbs \ (used \cup {at[t] : t \in Threads})
  /\ \/ /\ pc[f] = "initialize" /\ at[f] = shared /\ InitializeWith(f, shared, new)
        /\ pc' = [pc EXCEPT ![f] = "idle"] /\ at' = [at EXCEPT ![f] = None] /\ UNCHANGED calls
     \/ ~Interrupts /\ Call(f) /\ InitializeWith(f, shared, new) /\ UNCHANGED <<pc, at>>

\* What it has read is freed by now, or the file has got another BCB: what follows is undefined.
InitializeStale(f) ==
  /\ pc[f] = "initialize" /\ at[f] # shared /\ pc' = [pc EXCEPT ![f] = "stale"]
  /\ UNCHANGED <<shared, used, refs, removes, closed, private, sections, at, calls>>

CcTryToInitializeFileCache(f) ==
  /\ shared # None /\ Call(f) /\ Begins(f, shared)
  /\ UNCHANGED <<shared, used, removes, sections, pc, at>>

\* A section of a file that has a cache map.  The map is gone by the time it is referred to,
\* or the BCB is in the list of closed ones just if nobody refers to it, or the assertions of
\* CcRosReferenceCache fail.
SectionBegins(f) ==
  /\ Interrupts /\ Call(f) /\ sections[f] = 0 /\ shared # None
  /\ DataSections \/ private[f] # None
  /\ pc' = [pc EXCEPT ![f] = "reference"]
  /\ UNCHANGED <<shared, used, refs, removes, closed, private, sections, at>>

Reference(f) ==
  IF shared = None \/ (refs[shared] = 0 <=> shared \notin InClosed)
  THEN /\ pc' = [pc EXCEPT ![f] = IF shared = None THEN "stale" ELSE "asserts"]
       /\ UNCHANGED <<refs, closed, sections>>
  ELSE /\ refs' = [refs EXCEPT ![shared] = @ + 1] /\ closed' = Unlist(closed, shared)
       /\ sections' = [sections EXCEPT ![f] = 1] /\ pc' = [pc EXCEPT ![f] = "idle"]

CcRosReferenceCache(f) ==
  /\ \/ pc[f] = "reference" /\ UNCHANGED calls
     \/ ~Interrupts /\ Call(f) /\ sections[f] = 0 /\ shared # None /\ (DataSections \/ private[f] # None)
  /\ Reference(f)
  /\ UNCHANGED <<shared, used, removes, private, at>>
-------------------------------------------------------------------------------
\* CcRosDeleteFileCache holds a reference while it flushes without ViewLock.
DeleteBegins(t, b, rs) ==
  /\ refs' = [rs EXCEPT ![b] = @ + 1]
  /\ pc' = [pc EXCEPT ![t] = "delete"] /\ at' = [at EXCEPT ![t] = b]

CcRosDeleteFileCache(t) ==
  LET b == at[t]  left == refs[b] - 1
  IN /\ pc[t] = "delete"
     /\ IF left = 0
        THEN /\ closed' = Unlist(closed, b) /\ shared' = None
             /\ used' = used \ {b} /\ removes' = removes \ {b}
        ELSE UNCHANGED <<closed, shared, used, removes>>
     /\ refs' = [refs EXCEPT ![b] = left]
     /\ pc' = [pc EXCEPT ![t] = "idle"] /\ at' = [at EXCEPT ![t] = None]
     /\ UNCHANGED <<private, sections, calls>>

\* The last reference goes: the BCB is deleted or put in the list of closed ones.
LetGo(f) ==
  LET b == shared  less == [refs EXCEPT ![b] = @ - 1]
  IN IF refs[b] = 0 THEN UNCHANGED <<refs, closed, pc, at>>
     ELSE IF refs[b] > 1 THEN refs' = less /\ UNCHANGED <<closed, pc, at>>
     ELSE IF b \in removes THEN DeleteBegins(f, b, less) /\ UNCHANGED closed
     ELSE refs' = less /\ closed' = <<b>> \o closed /\ UNCHANGED <<pc, at>>

CcRosReleaseFileCache(f) ==
  /\ pc[f] = "idle" /\ shared # None /\ private[f] # None
  /\ private' = [private EXCEPT ![f] = None]
  /\ LetGo(f)
  /\ UNCHANGED <<shared, used, removes, sections, calls>>

CcRosDereferenceCache(f) ==
  /\ pc[f] = "idle" /\ sections[f] = 1
  /\ sections' = [sections EXCEPT ![f] = 0]
  /\ LetGo(f)
  /\ UNCHANGED <<shared, used, removes, private, calls>>

\* The file is deleted while no section is there.
CcRosSetRemoveOnClose ==
  /\ shared # None /\ \A f \in Files : sections[f] = 0
  /\ Call(Remover) /\ removes' = removes \cup {shared}
  /\ IF refs[shared] = 0 THEN DeleteBegins(Remover, shared, refs) ELSE UNCHANGED <<refs, pc, at>>
  /\ UNCHANGED <<shared, used, closed, private, sections>>

\* The last of the list is old enough.
CmLazyCloseThreadMain ==
  /\ pc[Lazy] = "idle" /\ closed # <<>>
  /\ DeleteBegins(Lazy, Last(closed), refs)
  /\ UNCHANGED <<shared, used, removes, closed, private, sections, calls>>

Step ==
  \/ \E f \in Files :
       \/ ReadsMap(f) \/ InitializeStale(f) \/ \E b \in Bcbs : CcRosInitializeFileCache(f, b)
       \/ CcTryToInitializeFileCache(f) \/ SectionBegins(f) \/ CcRosReferenceCache(f)
       \/ CcRosReleaseFileCache(f) \/ CcRosDereferenceCache(f)
  \/ CcRosSetRemoveOnClose \/ CmLazyCloseThreadMain
  \/ \E t \in Threads : CcRosDeleteFileCache(t)

\* A behaviour ends where a BCB that is gone is used or an assertion fails.
Next ==
  /\ \A f \in Files : pc[f] \notin {"stale", "asserts"}
  /\ Step

Spec == Init /\ [][Next]_vars
-------------------------------------------------------------------------------
TypeOK ==
  /\ shared \in Bcbs \cup {None} /\ used \subseteq Bcbs /\ removes \subseteq Bcbs
  /\ refs \in [Bcbs -> 0..(2 * Cardinality(Files) + Cardinality(Threads))]
  /\ closed \in Seq(Bcbs) /\ private \in [Files -> Bcbs \cup {None}]
  /\ sections \in [Files -> {0, 1}] /\ at \in [Threads -> Bcbs \cup {None}]

\* The BCB that a file object or a section uses, or that is being deleted, is allocated and
\* the file's.
CacheStays ==
  /\ \A f \in Files : private[f] # None => private[f] = shared
  /\ (\E f \in Files : sections[f] > 0) => shared # None
  /\ {at[t] : t \in {u \in Threads : pc[u] = "delete"}} \subseteq used
  /\ used = {shared} \ {None} /\ InClosed \subseteq used

\* Each reference to it is a file object's, a section's or a deletion's.
ReferencesCounted ==
  \A b \in used :
    refs[b] = Cardinality({f \in Files : private[f] = b}) + Cardinality({f \in Files : sections[f] > 0})
                + Cardinality({t \in Threads : pc[t] = "delete" /\ at[t] = b})

\* One that nobody refers to is in the list of closed ones, once, and one that is used is not;
\* the one of a file that is deleted goes with its last reference.
ClosedAreUnused ==
  /\ Len(closed) = Cardinality(InClosed)
  /\ \A b \in used : refs[b] = 0 => b \in InClosed /\ b \notin removes
  /\ \A b \in InClosed :
       \A f \in Files : private[f] # b /\ sections[f] = 0

NothingStale == \A f \in Files : pc[f] # "stale"

ReferenceAsserts == \A f \in Files : pc[f] # "asserts"
===============================================================================
