--------------------------------- MODULE KeDpc ---------------------------------
(***************************************************************************)
(* Deferred procedure calls on one processor (ntoskrnl/ke/dpc.c and          *)
(* KeUpdateRunTime of clock.c): interrupt service routines and code at        *)
(* DISPATCH_LEVEL queue DPCs, a software interrupt requested from the HAL     *)
(* brings the processor into KiDispatchInterrupt as soon as its IRQL drops,   *)
(* and the loop there runs the queue empty.  DPCs are queued and removed      *)
(* while the loop runs, by the routine it calls and by interrupts.            *)
(*                                                                         *)
(* The uniprocessor build: CONFIG_SMP is not set.  The functions of this      *)
(* file raise to HIGH_LEVEL, which makes each of them one step.               *)
(***************************************************************************)
EXTENDS Integers, Sequences, FiniteSets, Lists

CONSTANTS
  Dpcs,
  Importances,           \* the importance DPCs are given
  MaximumDpcQueueDepth,  \* Prcb->MaximumDpcQueueDepth
  MinimumDpcRate,        \* Prcb->MinimumDpcRate
  DpcRequestRate,        \* Prcb->DpcRequestRate, which nothing updates
  ClockDpcs,             \* the DPC the clock interrupt queues, KiExpireTimerDpc
  MayRemove,             \* the DPCs that KeRemoveQueueDpc is called for
  RemovesAgain,          \* it is called for DPCs that it has removed before
  Word                   \* the number of values of a ULONG

\* What the constants must satisfy; assumed by the modules that fix them.
DpcAssumption ==
  /\ Importances \subseteq {"Low", "Medium", "High"} /\ Importances # {}
  /\ MaximumDpcQueueDepth \in Nat /\ MinimumDpcRate \in Nat /\ DpcRequestRate \in Nat
  /\ MayRemove \subseteq Dpcs /\ ClockDpcs \subseteq Dpcs /\ RemovesAgain \in BOOLEAN
  /\ Word \in Nat /\ IsFiniteSet(Dpcs) /\ Cardinality(Dpcs) < Word

VARIABLES
  dpcListHead,           \* Prcb->DpcData[0].DpcListHead
  dpcQueueDepth,         \* Prcb->DpcData[0].DpcQueueDepth
  dpcData,               \* the DPCs whose DpcData is set
  importance,            \* Dpc->Importance
  dpcRoutineActive,      \* Prcb->DpcRoutineActive
  dpcInterruptRequested, \* Prcb->DpcInterruptRequested
  quantumEnd,            \* Prcb->QuantumEnd
  softwareInterrupt,     \* the HAL holds a request for DISPATCH_LEVEL
  processor              \* what the processor does, see Processor

flags == <<dpcRoutineActive, dpcInterruptRequested, quantumEnd, softwareInterrupt>>
vars == <<dpcListHead, dpcQueueDepth, dpcData, importance, flags, processor>>

\* Below DISPATCH_LEVEL; at DISPATCH_LEVEL in some other code; in the loop of
\* KiDispatchInterrupt; in the routine the loop has called.
Processor == {"Passive", "Dispatch", "Loop", "Routine"}

Deeper(depth) == (depth + 1) % Word
Shallower(depth) == (depth + Word - 1) % Word
-------------------------------------------------------------------------------
\* Mutated: DpcData is not looked at.
NotMarked(d) == TRUE

\* InterlockedCompareExchangeUL of DpcData: the DPC counts as not queued.
Claims(d) == d \notin dpcData

\* Whether a DPC queued now, with the queue at depth, is worth an interrupt.
WantsInterrupt(d, depth) ==
  \/ importance[d] # "Low"
  \/ depth >= MaximumDpcQueueDepth
  \/ DpcRequestRate < MinimumDpcRate

\* The DPC enters the queue; requested says whether the HAL holds a request for
\* DISPATCH_LEVEL before.
EntersQueue(d, requested) ==
  /\ dpcData' = dpcData \union {d}
  /\ dpcQueueDepth' = Deeper(dpcQueueDepth)
  /\ dpcListHead' = IF importance[d] = "High" THEN <<d>> \o dpcListHead
                    ELSE Append(dpcListHead, d)
  /\ IF ~dpcRoutineActive /\ ~dpcInterruptRequested /\ WantsInterrupt(d, dpcQueueDepth')
       THEN softwareInterrupt' = TRUE /\ dpcInterruptRequested' = TRUE
       ELSE softwareInterrupt' = requested /\ UNCHANGED dpcInterruptRequested

\* KeInsertQueueDpc, by an interrupt or by code at DISPATCH_LEVEL, of a DPC that
\* does not count as queued; of any other it changes nothing.
KeInsertQueueDpc(d) ==
  /\ Claims(d)
  /\ EntersQueue(d, softwareInterrupt)
  /\ UNCHANGED <<importance, dpcRoutineActive, quantumEnd, processor>>

\* What the list may be after RemoveEntryList of an entry that is in it no more and
\* has the links of some earlier list: any list without a DPC twice.  (More than the
\* links allow, and less: they may also close a circle that misses the head.)
Relinked ==
  \E n \in 0 .. Cardinality(Dpcs) :
    dpcListHead' \in [1 .. n -> Dpcs] /\ NoDuplicates(dpcListHead')

\* KeRemoveQueueDpc.  It asks for DpcData only, which stays set: a DPC that was
\* removed before lowers the depth again.
KeRemoveQueueDpc(d) ==
  /\ d \in MayRemove /\ d \in dpcData
  /\ \/ d \in Members(dpcListHead) /\ dpcListHead' = Unlink(dpcListHead, d)
     \/ RemovesAgain /\ d \notin Members(dpcListHead) /\ Relinked
  /\ dpcQueueDepth' = Shallower(dpcQueueDepth)
  /\ UNCHANGED <<dpcData, importance, flags, processor>>

KeSetImportanceDpc(d, i) ==
  /\ i \in Importances
  /\ importance' = [importance EXCEPT ![d] = i]
  /\ UNCHANGED <<dpcListHead, dpcQueueDepth, dpcData, flags, processor>>

KeFlushQueuedDpcs ==
  /\ dpcQueueDepth # 0
  /\ softwareInterrupt' = TRUE
  /\ UNCHANGED <<dpcListHead, dpcQueueDepth, dpcData, importance, dpcRoutineActive,
                 dpcInterruptRequested, quantumEnd, processor>>

\* Whether a request stands when KeUpdateRunTime is done; the quantum of the
\* current thread may end with this tick.
RunTimeRequests(ends) ==
  \/ softwareInterrupt \/ ends
  \/ dpcQueueDepth > 0 /\ ~dpcRoutineActive /\ ~dpcInterruptRequested

\* The clock interrupt, KeUpdateSystemTime: KeUpdateRunTime, then the insertion of
\* the DPC d that expires timers.
ClockInterrupt(ends, d) ==
  /\ quantumEnd' = (quantumEnd \/ ends)
  /\ IF Claims(d)
       THEN EntersQueue(d, RunTimeRequests(ends))
       ELSE /\ softwareInterrupt' = RunTimeRequests(ends)
            /\ UNCHANGED <<dpcListHead, dpcQueueDepth, dpcData, dpcInterruptRequested>>
  /\ UNCHANGED <<importance, dpcRoutineActive, processor>>
-------------------------------------------------------------------------------
\* KfRaiseIrql to DISPATCH_LEVEL, and back (the HAL).
KfRaiseIrql ==
  processor = "Passive" /\ processor' = "Dispatch"
    /\ UNCHANGED <<dpcListHead, dpcQueueDepth, dpcData, importance, flags>>
KfLowerIrql ==
  processor = "Dispatch" /\ processor' = "Passive"
    /\ UNCHANGED <<dpcListHead, dpcQueueDepth, dpcData, importance, flags>>

\* KiDispatchInterrupt up to its loop.  With nothing queued only the end of the
\* quantum is looked at, and DpcInterruptRequested stays as it is.
KiDispatchInterrupt ==
  /\ processor = "Passive" /\ softwareInterrupt
  /\ softwareInterrupt' = FALSE
  /\ IF dpcQueueDepth > 0
       THEN /\ processor' = "Loop" /\ dpcRoutineActive' = TRUE
            /\ UNCHANGED quantumEnd
       ELSE /\ quantumEnd' = FALSE
            /\ UNCHANGED <<processor, dpcRoutineActive>>
  /\ UNCHANGED <<dpcListHead, dpcQueueDepth, dpcData, importance, dpcInterruptRequested>>

\* One round of the loop up to the call of the routine, at which the IRQL drops
\* to DISPATCH_LEVEL ...
CallDpc ==
  /\ processor = "Loop" /\ dpcListHead # << >>
  /\ dpcListHead' = Tail(dpcListHead)
  /\ dpcData' = dpcData \ {Head(dpcListHead)}
  /\ dpcQueueDepth' = Shallower(dpcQueueDepth)
  /\ processor' = "Routine"
  /\ UNCHANGED <<importance, flags>>

\* ... the return of the routine ...
ReturnFromDpc ==
  /\ processor = "Routine" /\ processor' = "Loop"
  /\ UNCHANGED <<dpcListHead, dpcQueueDepth, dpcData, importance, flags>>

\* ... and the end of the loop, with KiQuantumEnd if it is due.
EndDispatch ==
  /\ processor = "Loop" /\ dpcListHead = << >>
  /\ dpcRoutineActive' = FALSE /\ dpcInterruptRequested' = FALSE
  /\ quantumEnd' = FALSE
  /\ processor' = "Passive"
  /\ UNCHANGED <<dpcListHead, dpcQueueDepth, dpcData, importance, softwareInterrupt>>
-------------------------------------------------------------------------------
Init ==
  /\ dpcListHead = << >> /\ dpcQueueDepth = 0 /\ dpcData = {}
  /\ importance \in [Dpcs -> Importances]
  /\ dpcRoutineActive = FALSE /\ dpcInterruptRequested = FALSE
  /\ quantumEnd = FALSE /\ softwareInterrupt = FALSE
  /\ processor = "Passive"

Next ==
  \/ \E d \in Dpcs : \/ KeInsertQueueDpc(d) \/ KeRemoveQueueDpc(d)
                     \/ \E i \in Importances : KeSetImportanceDpc(d, i)
  \/ KeFlushQueuedDpcs
  \/ \E ends \in BOOLEAN, d \in ClockDpcs : ClockInterrupt(ends, d)
  \/ KfRaiseIrql \/ KfLowerIrql
  \/ KiDispatchInterrupt \/ CallDpc \/ ReturnFromDpc \/ EndDispatch

Spec == Init /\ [][Next]_vars

\* The loop and the routines go on, code at DISPATCH_LEVEL ends, the HAL delivers
\* the interrupt, and quanta end: KeUpdateRunTime subtracts from Quantum on every
\* tick.
Fairness ==
  /\ WF_vars(CallDpc \/ ReturnFromDpc \/ EndDispatch) /\ WF_vars(KfLowerIrql)
  /\ SF_vars(KiDispatchInterrupt)
  /\ WF_vars(\E d \in ClockDpcs : ClockInterrupt(TRUE, d))

FairSpec == Spec /\ Fairness
-------------------------------------------------------------------------------
\* Types of the fields.
TypeOK ==
  /\ dpcListHead \in Seq(Dpcs)
  /\ dpcQueueDepth \in 0 .. Word - 1
  /\ dpcData \subseteq Dpcs
  /\ importance \in [Dpcs -> Importances]
  /\ processor \in Processor
  /\ \A f \in {dpcRoutineActive, dpcInterruptRequested, quantumEnd, softwareInterrupt} :
       f \in BOOLEAN
  /\ dpcRoutineActive <=> processor \in {"Loop", "Routine"}

\* The depth is the length of the list (the three ASSERTs on them) and a DPC is
\* in the list once at most, and only while DpcData is set: interrupts, routines
\* and the loop never queue a DPC twice.  (Unless one is removed twice.)
QueueMatchesDepth ==
  /\ dpcQueueDepth = Len(dpcListHead)
  /\ NoDuplicates(dpcListHead)
  /\ Members(dpcListHead) \subseteq dpcData

\* A queued DPC is run, whatever state the interrupt flags are in.
QueuedDpcRuns ==
  \A d \in Dpcs : d \in Members(dpcListHead) ~> d \notin Members(dpcListHead)
-------------------------------------------------------------------------------
(* What comments of the code say and the code does not do. *)

\* "TRUE if the DPC object wasn't already in the queue": one that is not queued
\* can be inserted.
InsertableWhenNotQueued ==
  \A d \in Dpcs : d \notin Members(dpcListHead) => Claims(d)

\* "a DPC interrupt has already been requested": while the flag says so outside
\* the loop, a request stands.
RequestedMeansPending ==
  dpcInterruptRequested /\ ~dpcRoutineActive => softwareInterrupt
===============================================================================
