------------------------------ MODULE MCPsScheduler ----------------------------
(***************************************************************************)
(* TLC instances of PsScheduler and of PsTermination, which share no state.    *)
(* A behaviour is one of four kinds:                                          *)
(*   Priorities  the priority of one thread is changed at any time            *)
(*   Taker       one thread takes entries from a kernel queue                 *)
(*   Fair        neither, and the clock ticks on                              *)
(*   Exits       threads of a process are created and end; it stands still      *)
(*               when it has terminated                                       *)
(***************************************************************************)
EXTENDS Naturals, Sequences, FiniteSets

CONSTANTS
  a, b, q, idle, reaper, none,
  t1, t2, t3, out, head  \* threads of a process, another one, the list head

VARIABLES kind, lists, state, prio, quantum, current, quantumEnd, fresh, queueOf, reap, signal,
          freed, reaping,
          flink, blink, pc, creator, flags, apc, old, locker, last, terminated, closes, walk
scheduler == <<lists, state, prio, quantum, current, quantumEnd, fresh, queueOf, reap, signal,
               freed, reaping>>
exits     == <<flink, blink, pc, creator, flags, apc, old, locker, last, terminated, closes, walk>>
vars == <<kind, scheduler, exits>>

Priorities == INSTANCE PsScheduler WITH
  Ordinary <- {a, b}, Idle <- idle, Reaper <- reaper, None <- none, Queues <- {}, Takers <- {},
  High <- 2, Realtime <- 3, Quantum <- 1, Adjusted <- {a}
Taker == INSTANCE PsScheduler WITH
  Ordinary <- {a, b}, Idle <- idle, Reaper <- reaper, None <- none, Queues <- {q}, Takers <- {a},
  High <- 2, Realtime <- 3, Quantum <- 1, Adjusted <- {}
Fair == INSTANCE PsScheduler WITH
  Ordinary <- {a, b}, Idle <- idle, Reaper <- reaper, None <- none, Queues <- {}, Takers <- {},
  High <- 2, Realtime <- 3, Quantum <- 1, Adjusted <- {}
Termination == INSTANCE PsTermination WITH
  Threads <- {t1, t2, t3}, First <- t1, ListHead <- head, Killers <- {t1}, Outside <- out,
  Remote <- FALSE, Fails <- FALSE, Overlap <- {}, Held <- TRUE

ASSUME InstancesAssumption ==
  /\ Priorities!SchedulerAssumption /\ Taker!SchedulerAssumption /\ Fair!SchedulerAssumption
  /\ Termination!TerminationAssumption

Init ==
  /\ \/ kind = "Priorities" /\ Priorities!Init
     \/ kind = "Taker" /\ Taker!Init
     \/ kind \in {"Fair", "Exits"} /\ Fair!Init
  /\ Termination!Init

Next ==
  /\ UNCHANGED kind
  /\ \/ /\ \/ kind = "Priorities" /\ Priorities!Next
           \/ kind = "Taker" /\ Taker!Next
           \/ kind = "Fair" /\ Fair!Next
        /\ UNCHANGED exits
     \/ kind = "Exits" /\ Termination!Next /\ UNCHANGED scheduler
     \/ kind = "Exits" /\ terminated /\ UNCHANGED <<scheduler, exits>>

Spec == Init /\ [][Next]_vars

\* The fairness of PsScheduler, for the behaviours of kind Fair, and of PsTermination.  What
\* both are weakly fair to is fair in each, for a behaviour has the steps of one kind only.
Does(step)  == kind = "Fair" /\ UNCHANGED <<kind, exits>> /\ step
Exits(step) == kind = "Exits" /\ UNCHANGED <<kind, scheduler>> /\ step
FairSpec ==
  /\ Spec
  /\ WF_vars(Does(Fair!KeUpdateRunTime) \/ Exits(Termination!Exiting(t1)))
  /\ WF_vars(Does(Fair!KiQuantumEnd) \/ Exits(Termination!Exiting(t2)))
  /\ WF_vars(Does(current = idle /\ Fair!Yield) \/ Exits(Termination!Exiting(t3)))
  /\ SF_vars(Does(Fair!PsReapThreads)) /\ SF_vars(Does(Fair!PiReaperThreadMain))
  /\ \A t \in {t1, t2, t3} :
       /\ WF_vars(Exits(Termination!NtCreateThread(t)))
       /\ WF_vars(Exits(Termination!MustTerminate(t)))
  /\ WF_vars(Exits(Termination!Kill(t1)))
-------------------------------------------------------------------------------
\* The properties of PsScheduler and PsTermination.

\* The ready lists and the mask hold the ready threads, each at its priority; there is
\* always a thread to switch to, and no thread is freed that may run again.
ListsHoldTheReady ==
  /\ IF kind = "Taker" THEN Taker!TypeOK /\ Taker!ListsHoldTheReady
                        ELSE Fair!TypeOK /\ Fair!ListsHoldTheReady
  /\ Fair!IdleIsThere /\ Fair!FreedIsGone

\* A switch goes to a thread of the highest priority, but for the reaper; a ready thread
\* runs; a terminated thread is freed, unless one thread runs on alone.
ThreadsGetOn ==
  /\ Fair!HighestRuns
  /\ \A t \in {a, b} :
       /\ kind = "Fair" /\ state[t] = "Ready" ~> state[t] # "Ready"
       /\ kind = "Fair" /\ state[t] = "Terminated" ~>
            (t \in freed \/ \E u \in {a, b} : [](current = u))

\* The process's list holds its threads and the last one out, and no other, terminates the
\* process, whatever step of an exit but the writes of a removal a creation meets; and a
\* process NtTerminateProcess was called for, which creates no more threads, ends.
TerminationEnds ==
  /\ [](Termination!TypeOK /\ Termination!ListIsThreads /\ Termination!LastClosesDoor)
  /\ kind = "Exits" => Termination!KilledEnds
===============================================================================
