------------------------------ MODULE KeApcProofs ------------------------------
(***************************************************************************)
(* Proofs that ApcsAreDelivered of KeApc holds, for any APCs and any depth of *)
(* critical regions, and SuspensionHolds of PsSuspend, for any callers.       *)
(*                                                                         *)
(* That a normal routine runs alone follows from what the calls of            *)
(* KiDeliverApc look like: all but the innermost one are in a normal routine, *)
(* of which there is one, and KernelApcInProgress says whether there is       *)
(* (CallsNest).  That no kernel APC is stranded needs the pending flag in the *)
(* kernel routine of a user APC too, which returns without looking at the     *)
(* kernel list again (NoneLeft).                                             *)
(*                                                                         *)
(* A suspended thread does not get away because what a caller has read of the *)
(* suspend count is still the count when it writes, and because of a count    *)
(* above zero either the APC is queued or the caller with the mutex is about  *)
(* to queue it (TakesInv).  That a resumed one does not wait for ever needs    *)
(* that the count never wraps (HoldsInv).                                     *)
(***************************************************************************)
EXTENDS KeApc, PsSuspend, ListLemmas

\* The calls of KiDeliverApc a thread is in.
CallsNest ==
  /\ \A i \in DOMAIN frames : i < Len(frames) => frames[i].at = "Normal"
  /\ \A i, j \in DOMAIN frames : frames[i].at = "Normal" /\ frames[j].at = "Normal" => i = j
  /\ kernelApcInProgress <=> \E i \in DOMAIN frames : frames[i].at = "Normal"
  /\ kernelApcInProgress => kernelApcDisable = 0
  /\ frames # << >> /\ Top.at = "Kernel" => ~HeldBack

\* Where KiDeliverApc is not going to look at the kernel list, what is in it is pending.
PastKernelList ==
  \/ frames = << >> /\ kernelApcDisable = 0
  \/ frames # << >> /\ Top.at = "User"

NoneLeft == PastKernelList /\ kernelList # << >> => kernelApcPending

IInv == ApcTypeOK /\ InsertedIsLinked /\ CallsNest /\ NoneLeft
-------------------------------------------------------------------------------
(* The calls of KiDeliverApc: what beginning, returning from and going on in one does. *)

\* The call a thread is in.
LEMMA TopIsLast ==
  ASSUME frames \in Seq(Frames), frames # << >>
  PROVE  Len(frames) \in Nat \ {0} /\ DOMAIN frames = 1 .. Len(frames) /\ Top \in Frames
BY EmptySeq DEF Top

\* It goes on.
LEMMA MoveChanges ==
  ASSUME frames \in Seq(Frames), frames # << >>,
         NEW where \in {"Lists", "Special", "Kernel", "User", "Normal"}
  PROVE  /\ MoveTo(where) \in Seq(Frames) /\ MoveTo(where) # << >>
         /\ Len(MoveTo(where)) = Len(frames) /\ DOMAIN MoveTo(where) = DOMAIN frames
         /\ MoveTo(where)[Len(frames)].at = where
         /\ \A i \in DOMAIN frames : i # Len(frames) => MoveTo(where)[i] = frames[i]
<1>1. Len(frames) \in Nat \ {0} /\ DOMAIN frames = 1 .. Len(frames) /\ Top \in Frames
  BY TopIsLast
<1> DEFINE new == [Top EXCEPT !.at = where]
           moved == [frames EXCEPT ![Len(frames)] = new]
<1>2. new \in Frames /\ new.at = where
  BY <1>1 DEF Frames
<1>3. MoveTo(where) = moved
  BY <1>1 DEF MoveTo, Top
<1> HIDE DEF new
<1>4. /\ moved \in Seq(Frames) /\ Len(moved) = Len(frames) /\ DOMAIN moved = DOMAIN frames
      /\ moved[Len(frames)] = new
      /\ \A i \in DOMAIN frames : i # Len(frames) => moved[i] = frames[i]
  BY <1>1, <1>2, ExceptSeq
<1>5. moved # << >>
  BY <1>1, <1>4
<1> QED
  BY <1>2, <1>3, <1>4, <1>5

\* Another one begins.
LEMMA DeeperAdds ==
  ASSUME frames \in Seq(Frames), NEW mode \in {"KernelMode", "UserMode"}
  PROVE  /\ Deeper(mode) \in Seq(Frames) /\ Deeper(mode) # << >>
         /\ Len(frames) \in Nat /\ DOMAIN frames = 1 .. Len(frames)
         /\ Len(Deeper(mode)) = Len(frames) + 1 /\ DOMAIN Deeper(mode) = 1 .. Len(frames) + 1
         /\ Deeper(mode)[Len(frames) + 1].at = "Lists"
         /\ \A i \in DOMAIN frames : Deeper(mode)[i] = frames[i]
<1> DEFINE new == [mode |-> mode, at |-> "Lists"]
<1>1. new \in Frames /\ new.at = "Lists"
  BY DEF Frames
<1> HIDE DEF new
<1>2. /\ Append(frames, new) \in Seq(Frames)
      /\ Len(Append(frames, new)) = Len(frames) + 1
      /\ \A i \in 1 .. Len(frames) : Append(frames, new)[i] = frames[i]
      /\ Append(frames, new)[Len(frames) + 1] = new
  BY <1>1, AppendProperties
<1>3. Len(frames) \in Nat /\ DOMAIN frames = 1 .. Len(frames)
  OBVIOUS
<1>4. DOMAIN Append(frames, new) = 1 .. Len(frames) + 1 /\ Append(frames, new) # << >>
  BY <1>2, <1>3
<1>5. Deeper(mode) = Append(frames, new)
  BY DEF Deeper, new
<1> QED
  BY <1>1, <1>2, <1>3, <1>4, <1>5

\* It returns to the one it was called in.
LEMMA ReturnDrops ==
  ASSUME frames \in Seq(Frames), frames # << >>
  PROVE  /\ Return \in Seq(Frames)
         /\ Len(frames) \in Nat \ {0} /\ DOMAIN frames = 1 .. Len(frames)
         /\ Len(Return) = Len(frames) - 1 /\ DOMAIN Return = 1 .. Len(frames) - 1
         /\ \A i \in DOMAIN Return : Return[i] = frames[i]
         /\ Return = << >> => Len(frames) = 1
<1>1. Len(frames) \in Nat \ {0} /\ DOMAIN frames = 1 .. Len(frames)
      /\ \A i \in 1 .. Len(frames) : frames[i] \in Frames
  BY TopIsLast
<1>2. /\ Return \in Seq(Frames) /\ Len(Return) = Len(frames) - 1
      /\ \A i \in 1 .. Len(frames) - 1 : Return[i] = frames[i]
  BY <1>1, SubSeqProperties DEF Return
<1>3. DOMAIN Return = 1 .. Len(frames) - 1
  BY <1>1, <1>2
<1>4. ASSUME Return = << >> PROVE Len(frames) = 1
  <2>1. Len(Return) = 0 /\ Len(Return) = Len(frames) - 1
    BY <1>2, <1>4
  <2>2. Len(frames) \in Nat
    BY <1>1
  <2> QED
    BY <2>1, <2>2
<1> QED
  BY <1>1, <1>2, <1>3, <1>4
-------------------------------------------------------------------------------
(* CallsNest is kept. *)

\* A step of a call that is not in a normal routine, nor goes to one.
LEMMA GoingOnNests ==
  ASSUME ApcTypeOK, CallsNest, frames # << >>, Top.at # "Normal",
         NEW where \in {"Lists", "Special", "Kernel", "User"},
         where = "Kernel" => ~HeldBack,
         frames' = MoveTo(where), UNCHANGED <<kernelApcInProgress, kernelApcDisable>>
  PROVE  CallsNest'
<1>1. Len(frames) \in Nat \ {0} /\ DOMAIN frames = 1 .. Len(frames) /\ frames \in Seq(Frames)
  BY TopIsLast DEF ApcTypeOK
<1>2. /\ frames' # << >> /\ Len(frames') = Len(frames) /\ DOMAIN frames' = DOMAIN frames
      /\ frames'[Len(frames)].at = where
      /\ \A i \in DOMAIN frames : i # Len(frames) => frames'[i] = frames[i]
  BY <1>1, MoveChanges
<1>3. \A i \in DOMAIN frames : frames'[i].at = "Normal" <=> frames[i].at = "Normal"
  BY <1>1, <1>2 DEF Top
<1> QED
  BY <1>1, <1>2, <1>3 DEF CallsNest, Top, HeldBack

\* A call that is not in a normal routine returns.
LEMMA ReturningNests ==
  ASSUME ApcTypeOK, CallsNest, frames # << >>, Top.at # "Normal",
         frames' = Return, UNCHANGED <<kernelApcInProgress, kernelApcDisable>>
  PROVE  CallsNest'
<1>1. /\ Len(frames) \in Nat \ {0} /\ DOMAIN frames = 1 .. Len(frames)
      /\ Len(frames') = Len(frames) - 1 /\ DOMAIN frames' = 1 .. Len(frames) - 1
      /\ \A i \in DOMAIN frames' : frames'[i] = frames[i]
  BY ReturnDrops DEF ApcTypeOK
<1>2. \A i \in DOMAIN frames : frames[i].at = "Normal" => i \in DOMAIN frames'
  BY <1>1 DEF Top
<1>3. \A i \in DOMAIN frames' : frames'[i].at = "Normal"
  BY <1>1 DEF CallsNest
<1>4. frames' # << >> => Len(frames') \in DOMAIN frames'
  BY <1>1, ReturnDrops, EmptySeq DEF ApcTypeOK
<1>5. frames' # << >> => Top'.at # "Kernel"
  BY <1>3, <1>4 DEF Top
<1> QED
  BY <1>1, <1>2, <1>3, <1>5 DEF CallsNest

\* A call begins in the thread's own code or in a normal routine.
LEMMA BeginningNests ==
  ASSUME ApcTypeOK, CallsNest, frames = << >> \/ Top.at = "Normal",
         NEW mode \in {"KernelMode", "UserMode"},
         frames' = Deeper(mode), UNCHANGED <<kernelApcInProgress, kernelApcDisable>>
  PROVE  CallsNest'
<1>1. /\ frames' # << >> /\ Len(frames) \in Nat /\ DOMAIN frames = 1 .. Len(frames)
      /\ Len(frames') = Len(frames) + 1 /\ DOMAIN frames' = 1 .. Len(frames) + 1
      /\ frames'[Len(frames) + 1].at = "Lists"
      /\ \A i \in DOMAIN frames : frames'[i] = frames[i]
  BY DeeperAdds DEF ApcTypeOK
<1>2. \A i \in DOMAIN frames : frames[i].at = "Normal"
  BY <1>1 DEF CallsNest, Top
<1>3. Top'.at = "Lists"
  BY <1>1 DEF Top
<1>4. \A i \in DOMAIN frames' : i \in DOMAIN frames \/ i = Len(frames')
  BY <1>1
<1> QED
  BY <1>1, <1>2, <1>3, <1>4 DEF CallsNest

LEMMA NestStep ==
  ASSUME ApcTypeOK, CallsNest, [ApcNext]_apcVars
  PROVE  CallsNest'
<1>1. CASE UNCHANGED <<frames, kernelApcInProgress, kernelApcDisable>>
  BY <1>1 DEF CallsNest, Top, HeldBack
<1>2. CASE frames = << >> /\ UNCHANGED <<frames, kernelApcInProgress>>
  <2>1. ~kernelApcInProgress
    BY <1>2 DEF CallsNest
  <2> QED
    BY <1>2, <2>1 DEF CallsNest
<1>3. CASE _KiServiceExit
  BY <1>1, <1>3, BeginningNests DEF _KiServiceExit, OwnCode
<1>4. CASE KiDeliverApc
  BY <1>4, BeginningNests DEF KiDeliverApc, AtPassiveLevel
<1>5. CASE DeliverSpecial
  BY <1>5, GoingOnNests DEF DeliverSpecial, AtLists, apcState
<1>6. CASE DeliverNormal
  BY <1>6, GoingOnNests DEF DeliverNormal, AtLists, apcState
<1>7. CASE DeliverUser
  BY <1>7, GoingOnNests DEF DeliverUser, AtLists
<1>8. CASE StopAtNormal
  BY <1>8, ReturningNests DEF StopAtNormal, AtLists, apcState
<1>9. CASE UserRoutineReturns
  BY <1>9, ReturningNests DEF UserRoutineReturns
<1>10. CASE DeliverNothing
  BY <1>10, ReturningNests DEF DeliverNothing, AtLists, apcState
<1>11. CASE CallNormalRoutine
  <2>1. /\ Len(frames) \in Nat \ {0} /\ DOMAIN frames = 1 .. Len(frames)
        /\ frames' # << >> /\ Len(frames') = Len(frames) /\ DOMAIN frames' = DOMAIN frames
        /\ frames'[Len(frames)].at = "Normal"
        /\ \A i \in DOMAIN frames : i # Len(frames) => frames'[i] = frames[i]
    BY <1>11, TopIsLast, MoveChanges DEF CallNormalRoutine, ApcTypeOK
  <2>2. ~HeldBack
    BY <1>11 DEF CallNormalRoutine, CallsNest
  <2>3. \A i \in DOMAIN frames : frames[i].at # "Normal"
    BY <2>2 DEF CallsNest, HeldBack
  <2>4. kernelApcInProgress' /\ kernelApcDisable' = 0 /\ Top'.at = "Normal"
    BY <1>11, <2>1, <2>2 DEF CallNormalRoutine, HeldBack, Top
  <2> QED
    BY <2>1, <2>3, <2>4 DEF CallsNest
<1>12. CASE RoutineReturns
  <2>1. CASE Top.at # "Normal"
    <3>1. UNCHANGED <<kernelApcInProgress, kernelApcDisable>>
      BY <1>12, <2>1 DEF RoutineReturns, CallsNest, HeldBack, ApcTypeOK
    <3> QED
      BY <1>12, <2>1, <3>1, GoingOnNests DEF RoutineReturns
  <2>2. CASE Top.at = "Normal"
    <3>1. /\ Len(frames) \in Nat \ {0} /\ DOMAIN frames = 1 .. Len(frames)
          /\ frames' # << >> /\ Len(frames') = Len(frames) /\ DOMAIN frames' = DOMAIN frames
          /\ frames'[Len(frames)].at = "Lists"
          /\ \A i \in DOMAIN frames : i # Len(frames) => frames'[i] = frames[i]
      BY <1>12, TopIsLast, MoveChanges DEF RoutineReturns, ApcTypeOK
    <3>2. kernelApcInProgress' = FALSE
      BY <1>12, <2>2 DEF RoutineReturns
    <3>3. \A i \in DOMAIN frames : i # Len(frames) => frames[i].at # "Normal"
      BY <2>2, <3>1 DEF CallsNest, Top
    <3>4. Top'.at = "Lists"
      BY <3>1 DEF Top
    <3> QED
      BY <3>1, <3>2, <3>3, <3>4 DEF CallsNest
  <2> QED
    BY <2>1, <2>2
<1> QED
  <2>1. CASE UNCHANGED apcVars
    BY <1>1, <2>1 DEF apcVars, apcState
  <2>2. CASE \E a \in Apcs : InsertKernelApc(a) \/ InsertUserApc(a) \/ KeRemoveQueueApc(a)
    BY <1>1, <2>2 DEF InsertKernelApc, InsertUserApc, KeRemoveQueueApc
  <2>3. CASE KeEnterCriticalRegion \/ KeLeaveCriticalRegion
    BY <1>2, <2>3 DEF KeEnterCriticalRegion, KeLeaveCriticalRegion, OwnCode
  <2>4. CASE KfRaiseIrql \/ KfLowerIrql \/ ServiceEntry \/ WaitEnds
    BY <1>1, <2>4 DEF KfRaiseIrql, KfLowerIrql, ServiceEntry, WaitEnds, apcState
  <2>5. CASE \E w \in Waits : KeWaitForSingleObject(w)
    BY <1>1, <2>5 DEF KeWaitForSingleObject
  <2> QED
    BY <1>3, <1>4, <1>5, <1>6, <1>7, <1>8, <1>9, <1>10, <1>11, <1>12,
       <2>1, <2>2, <2>3, <2>4, <2>5 DEF ApcNext, Delivery
-------------------------------------------------------------------------------
(* The lists and the pending flags. *)

LEMMA HeadIsFirst ==
  ASSUME NEW S, NEW list \in Seq(S), Len(list) # 0
  PROVE  list # << >> /\ Head(list) = list[1]
BY EmptySeq

\* Where an entry that is taken out is not the first one, that stays.
LEMMA UnlinkKeepsHead ==
  ASSUME NEW S, NEW list \in Seq(S), list # << >>, NEW t, Head(list) # t
  PROVE  Unlink(list, t) # << >> /\ Head(Unlink(list, t)) = Head(list)
<1>1. Len(list) \in Nat \ {0} /\ DOMAIN list = 1 .. Len(list) /\ Head(list) = list[1]
  BY EmptySeq
<1>2. CASE t \notin Members(list)
  BY <1>2 DEF Unlink
<1>3. CASE t \in Members(list)
  <2> DEFINE at == CHOOSE i \in DOMAIN list : list[i] = t
             short == [i \in 1 .. Len(list) - 1 |-> IF i < at THEN list[i] ELSE list[i + 1]]
  <2>1. at \in DOMAIN list /\ list[at] = t
    BY <1>3 DEF Members
  <2>2. Unlink(list, t) = short
    BY <1>3 DEF Unlink
  <2> HIDE DEF at
  <2>3. 1 < at /\ 1 \in 1 .. Len(list) - 1
    BY <1>1, <2>1
  <2>4. DOMAIN short = 1 .. Len(list) - 1 /\ short[1] = list[1]
    BY <2>3
  <2>5. \A i \in 1 .. Len(list) - 1 : short[i] \in S
    BY <1>1, <2>1
  <2>6. short \in Seq(S) /\ Len(short) = Len(list) - 1
    BY <1>1, <2>5
  <2>7. Len(short) # 0
    BY <1>1, <2>3, <2>6
  <2> HIDE DEF short
  <2>8. short # << >> /\ Head(short) = short[1]
    BY <2>6, <2>7, HeadIsFirst
  <2> QED
    BY <1>1, <2>2, <2>4, <2>8
<1> QED
  BY <1>2, <1>3

\* Where an entry that is added goes behind the others, the first one stays.
LEMMA AppendKeepsHead ==
  ASSUME NEW S, NEW list \in Seq(S), list # << >>, NEW t \in S
  PROVE  Head(Append(list, t)) = Head(list)
OBVIOUS

LEMMA PrependIsHead ==
  ASSUME NEW S, NEW list \in Seq(S), NEW t \in S
  PROVE  Head(<<t>> \o list) = t
OBVIOUS

\* Taking an APC out of the lists: Dequeue and KeRemoveQueueApc.
LEMMA UnlinkingKeeps ==
  ASSUME ApcTypeOK, InsertedIsLinked, NEW a,
         inserted' = inserted \ {a},
         kernelList' = Unlink(kernelList, a), userList' = Unlink(userList, a)
  PROVE  /\ InsertedIsLinked'
         /\ kernelList' \in Seq(Special \union Normal) /\ userList' \in Seq(User \union Exit)
         /\ inserted' \subseteq Apcs
<1>1. /\ kernelList' \in Seq(Special \union Normal) /\ NoDuplicates(kernelList')
      /\ Members(kernelList') = Members(kernelList) \ {a}
  BY UnlinkRemoves DEF ApcTypeOK, InsertedIsLinked
<1>2. /\ userList' \in Seq(User \union Exit) /\ NoDuplicates(userList')
      /\ Members(userList') = Members(userList) \ {a}
  BY UnlinkRemoves DEF ApcTypeOK, InsertedIsLinked
<1> QED
  BY <1>1, <1>2 DEF InsertedIsLinked, ApcTypeOK

\* Queueing one.
LEMMA InsertingKeeps ==
  ASSUME ApcTypeOK, InsertedIsLinked, ApcAssumption, NEW a \in Apcs,
         InsertKernelApc(a) \/ InsertUserApc(a)
  PROVE  /\ InsertedIsLinked'
         /\ kernelList' \in Seq(Special \union Normal) /\ userList' \in Seq(User \union Exit)
         /\ inserted' \subseteq Apcs
<1>1. a \notin Members(kernelList) /\ a \notin Members(userList)
  BY DEF InsertKernelApc, InsertUserApc, InsertedIsLinked
<1>2. CASE InsertKernelApc(a)
  <2>1. kernelList' = Append(kernelList, a) /\ userList' = userList
    BY <1>2 DEF InsertKernelApc, WithSpecial
  <2>2. /\ kernelList' \in Seq(Special \union Normal) /\ NoDuplicates(kernelList')
        /\ Members(kernelList') = Members(kernelList) \union {a}
    <3>1. a \in Special \union Normal
      BY <1>2 DEF InsertKernelApc
    <3>2. kernelList \in Seq(Special \union Normal) /\ NoDuplicates(kernelList)
      BY DEF ApcTypeOK, InsertedIsLinked
    <3> QED
      BY <1>1, <2>1, <3>1, <3>2, AppendAdds
  <2>3. inserted' = inserted \union {a}
    BY <1>2 DEF InsertKernelApc
  <2> QED
    BY <2>1, <2>2, <2>3 DEF InsertedIsLinked, ApcTypeOK
<1>3. CASE InsertUserApc(a)
  <2>1. /\ userList' = <<a>> \o userList \/ userList' = Append(userList, a)
        /\ kernelList' = kernelList
    BY <1>3 DEF InsertUserApc
  <2>2. /\ userList' \in Seq(User \union Exit) /\ NoDuplicates(userList')
        /\ Members(userList') = Members(userList) \union {a}
    <3>1. a \in User \union Exit
      BY <1>3 DEF InsertUserApc
    <3>2. userList \in Seq(User \union Exit) /\ NoDuplicates(userList)
      BY DEF ApcTypeOK, InsertedIsLinked
    <3>3. CASE userList' = <<a>> \o userList
      BY <1>1, <3>1, <3>2, <3>3, PrependAdds
    <3>4. CASE userList' = Append(userList, a)
      BY <1>1, <3>1, <3>2, <3>4, AppendAdds
    <3> QED
      BY <2>1, <3>3, <3>4
  <2>3. inserted' = inserted \union {a}
    BY <1>3 DEF InsertUserApc
  <2> QED
    BY <2>1, <2>2, <2>3 DEF InsertedIsLinked, ApcTypeOK
<1> QED
  BY <1>2, <1>3

\* The types and the lists, together.
LEMMA ListStep ==
  ASSUME ApcTypeOK, InsertedIsLinked, ApcAssumption, [ApcNext]_apcVars
  PROVE  ApcTypeOK' /\ InsertedIsLinked'
<1> DEFINE ListsKept ==
             /\ kernelList' \in Seq(Special \union Normal) /\ userList' \in Seq(User \union Exit)
             /\ inserted' \subseteq Apcs
           OthersKept ==
             /\ kernelApcPending' \in BOOLEAN /\ userApcPending' \in BOOLEAN
             /\ kernelApcInProgress' \in BOOLEAN
             /\ kernelApcDisable' \in 0 .. MaxDisable
             /\ place' \in {"User", "Kernel", "Retry", "Blocked"} /\ wait' \in Waits
             /\ raised' \in BOOLEAN
<1>1. InsertedIsLinked' /\ ListsKept
  <2>1. CASE \E a \in Apcs : InsertKernelApc(a) \/ InsertUserApc(a)
    BY <2>1, InsertingKeeps
  <2>2. CASE \E a : \/ KeRemoveQueueApc(a)
                    \/ Dequeue(a)
    BY <2>2, UnlinkingKeeps DEF KeRemoveQueueApc, Dequeue
  <2>3. CASE UNCHANGED lists
    BY <2>3 DEF lists, InsertedIsLinked, ApcTypeOK
  <2> QED
    BY <2>1, <2>2, <2>3 DEF ApcNext, Delivery, apcVars, KeEnterCriticalRegion,
       KeLeaveCriticalRegion, KfRaiseIrql, KfLowerIrql, ServiceEntry, _KiServiceExit,
       KeWaitForSingleObject, WaitEnds, KiDeliverApc, DeliverSpecial, DeliverNormal, StopAtNormal,
       CallNormalRoutine, RoutineReturns, DeliverUser, UserRoutineReturns, DeliverNothing
<1>2. OthersKept
  <2>1. CASE UNCHANGED <<apcState, thread>>
    BY <2>1 DEF ApcTypeOK, apcState, thread
  <2>2. CASE \E a \in Apcs : InsertKernelApc(a) \/ InsertUserApc(a)
    BY <2>2 DEF ApcTypeOK, InsertKernelApc, InsertUserApc
  <2>3. CASE \E a \in Apcs : KeRemoveQueueApc(a)
    BY <2>3 DEF ApcTypeOK, KeRemoveQueueApc, thread
  <2>4. CASE KeEnterCriticalRegion \/ KeLeaveCriticalRegion
    <3>1. kernelApcDisable' \in 0 .. MaxDisable
      BY <2>4 DEF ApcTypeOK, ApcAssumption, KeEnterCriticalRegion, KeLeaveCriticalRegion
    <3>2. kernelApcPending' \in BOOLEAN
      BY <2>4 DEF ApcTypeOK, KeEnterCriticalRegion, KeLeaveCriticalRegion
    <3> QED
      BY <2>4, <3>1, <3>2 DEF ApcTypeOK, KeEnterCriticalRegion, KeLeaveCriticalRegion, thread
  <2>5. CASE KfRaiseIrql \/ KfLowerIrql \/ ServiceEntry \/ WaitEnds \/ _KiServiceExit
    BY <2>5 DEF ApcTypeOK, KfRaiseIrql, KfLowerIrql, ServiceEntry, WaitEnds, _KiServiceExit,
       apcState
  <2>6. CASE \E w \in Waits : KeWaitForSingleObject(w)
    BY <2>6 DEF ApcTypeOK, KeWaitForSingleObject
  <2>7. CASE \/ KiDeliverApc \/ CallNormalRoutine \/ RoutineReturns
             \/ DeliverUser \/ UserRoutineReturns
    BY <2>7 DEF ApcTypeOK, KiDeliverApc, CallNormalRoutine, RoutineReturns, DeliverUser,
       UserRoutineReturns, thread
  <2> QED
    BY <2>1, <2>2, <2>3, <2>4, <2>5, <2>6, <2>7 DEF ApcNext, Delivery, apcVars,
       DeliverSpecial, DeliverNormal, StopAtNormal, DeliverNothing
<1>3. frames' \in Seq(Frames)
  <2>1. CASE frames # << >> /\ \E where \in {"Lists", "Special", "Kernel", "User", "Normal"} :
               frames' = MoveTo(where)
    BY <2>1, MoveChanges DEF ApcTypeOK
  <2>2. CASE frames # << >> /\ frames' = Return
    BY <2>2, ReturnDrops DEF ApcTypeOK
  <2>3. CASE \E mode \in {"KernelMode", "UserMode"} : frames' = Deeper(mode)
    BY <2>3, DeeperAdds DEF ApcTypeOK
  <2>4. CASE UNCHANGED frames
    BY <2>4 DEF ApcTypeOK
  <2>5. CASE \E a \in Apcs : InsertKernelApc(a) \/ InsertUserApc(a) \/ KeRemoveQueueApc(a)
    BY <2>4, <2>5 DEF InsertKernelApc, InsertUserApc, KeRemoveQueueApc
  <2>6. CASE \E w \in Waits : KeWaitForSingleObject(w)
    BY <2>4, <2>6 DEF KeWaitForSingleObject
  <2>7. CASE Delivery
    BY <2>1, <2>2, <2>3, <2>7 DEF Delivery, KiDeliverApc, AtLists, DeliverSpecial, DeliverNormal,
       StopAtNormal, CallNormalRoutine, RoutineReturns, DeliverUser, UserRoutineReturns,
       DeliverNothing
  <2> QED
    BY <2>3, <2>4, <2>5, <2>6, <2>7 DEF ApcNext, apcVars, KeEnterCriticalRegion,
       KeLeaveCriticalRegion, KfRaiseIrql, KfLowerIrql, ServiceEntry, _KiServiceExit, WaitEnds
<1> QED
  BY <1>1, <1>2, <1>3 DEF ApcTypeOK

\* No APC in the kernel list is left where KiDeliverApc does not look at the list again.
LEMMA LeftStep ==
  ASSUME ApcTypeOK, CallsNest, NoneLeft, [ApcNext]_apcVars
  PROVE  NoneLeft'
<1>1. ApcTypeOK => kernelApcDisable \in Nat
  BY DEF ApcTypeOK
<1>2. CASE UNCHANGED <<kernelList, kernelApcPending, kernelApcDisable, frames>>
  BY <1>2 DEF NoneLeft, PastKernelList, Top
<1>3. CASE kernelApcPending'
  BY <1>3 DEF NoneLeft
<1>4. CASE \E a \in Apcs : InsertKernelApc(a) \/ InsertUserApc(a)
  BY <1>2, <1>3, <1>4 DEF InsertKernelApc, InsertUserApc
<1>5. CASE \E a \in Apcs : KeRemoveQueueApc(a)
  <2>1. PICK a \in Apcs : KeRemoveQueueApc(a)
    BY <1>5
  <2>2. PastKernelList' => PastKernelList
    BY <2>1 DEF KeRemoveQueueApc, PastKernelList, Top
  <2>3. CASE a \in Members(kernelList)
    <3>1. kernelList # << >>
      BY <2>3, EmptyHasNone
    <3> QED
      BY <2>1, <2>2, <2>3, <3>1 DEF KeRemoveQueueApc, NoneLeft
  <2>4. CASE a \notin Members(kernelList)
    <3>1. kernelList' = kernelList
      BY <2>1, <2>4 DEF KeRemoveQueueApc, Unlink
    <3> QED
      BY <2>1, <2>2, <2>4, <3>1 DEF KeRemoveQueueApc, NoneLeft
  <2> QED
    BY <2>3, <2>4
<1>6. CASE KeEnterCriticalRegion
  BY <1>1, <1>6 DEF KeEnterCriticalRegion, OwnCode, NoneLeft, PastKernelList, ApcTypeOK
<1>7. CASE KeLeaveCriticalRegion
  <2>1. frames' = << >> /\ kernelList' = kernelList
    BY <1>7 DEF KeLeaveCriticalRegion, OwnCode, lists
  <2>2. kernelApcDisable' = 0 => kernelApcDisable = 1
    BY <1>1, <1>7 DEF KeLeaveCriticalRegion, ApcTypeOK
  <2> QED
    BY <1>7, <2>1, <2>2 DEF KeLeaveCriticalRegion, NoneLeft, PastKernelList
<1>8. CASE KfRaiseIrql \/ KfLowerIrql \/ ServiceEntry \/ WaitEnds
  BY <1>2, <1>8 DEF KfRaiseIrql, KfLowerIrql, ServiceEntry, WaitEnds, apcState, lists
<1>9. CASE _KiServiceExit
  <2>1. CASE userApcPending
    <3>1. frames' # << >> /\ Top'.at = "Lists"
      BY <1>9, <2>1, DeeperAdds DEF _KiServiceExit, Top, ApcTypeOK
    <3> QED
      BY <3>1 DEF NoneLeft, PastKernelList
  <2>2. CASE ~userApcPending
    BY <1>2, <1>9, <2>2 DEF _KiServiceExit, lists
  <2> QED
    BY <2>1, <2>2
<1>10. CASE \E w \in Waits : KeWaitForSingleObject(w)
  BY <1>2, <1>10 DEF KeWaitForSingleObject, lists
<1>11. CASE KiDeliverApc
  <2>1. frames' # << >> /\ Top'.at = "Lists"
    BY <1>11, DeeperAdds DEF KiDeliverApc, Top, ApcTypeOK
  <2> QED
    BY <2>1 DEF NoneLeft, PastKernelList
<1>12. CASE frames # << >>
            /\ \E where \in {"Lists", "Special", "Kernel", "Normal"} : frames' = MoveTo(where)
  <2>1. PICK where \in {"Lists", "Special", "Kernel", "Normal"} : frames' = MoveTo(where)
    BY <1>12
  <2>2. frames' # << >> /\ Top'.at = where
    BY <1>12, <2>1, MoveChanges DEF ApcTypeOK, Top
  <2> QED
    BY <2>2 DEF NoneLeft, PastKernelList
<1>13. CASE DeliverSpecial \/ DeliverNormal \/ CallNormalRoutine \/ RoutineReturns
  BY <1>12, <1>13 DEF DeliverSpecial, DeliverNormal, CallNormalRoutine, RoutineReturns, AtLists
<1>14. CASE kernelList' = << >>
  BY <1>14 DEF NoneLeft
<1>15. CASE DeliverUser
  <2>1. kernelList' = << >>
    BY <1>15, EmptyHasNone DEF DeliverUser, Dequeue, Unlink
  <2> QED
    BY <1>14, <2>1
<1>16. CASE DeliverNothing
  BY <1>14, <1>16 DEF DeliverNothing, lists
<1>17. ASSUME frames # << >>, Top.at # "Normal", frames' = Return
       PROVE  frames' # << >> => Top'.at = "Normal"
  <2>1. /\ Len(frames) \in Nat \ {0} /\ DOMAIN frames = 1 .. Len(frames)
        /\ Len(frames') = Len(frames) - 1 /\ DOMAIN frames' = 1 .. Len(frames) - 1
        /\ \A i \in DOMAIN frames' : frames'[i] = frames[i]
        /\ frames' \in Seq(Frames)
    BY <1>17, ReturnDrops DEF ApcTypeOK
  <2>2. frames' # << >> => Len(frames') \in DOMAIN frames'
    BY <2>1, EmptySeq
  <2> QED
    BY <2>1, <2>2 DEF CallsNest, Top
<1>18. CASE StopAtNormal
  <2>1. CASE frames' # << >>
    BY <1>17, <1>18, <2>1 DEF StopAtNormal, AtLists, NoneLeft, PastKernelList
  <2>2. CASE frames' = << >>
    <3>1. Len(frames) = 1 /\ DOMAIN frames = 1 .. Len(frames)
      BY <1>18, <2>2, ReturnDrops DEF StopAtNormal, AtLists, ApcTypeOK
    <3>2. ~kernelApcInProgress
      BY <1>18, <3>1 DEF StopAtNormal, AtLists, Top, CallsNest
    <3>3. kernelApcDisable' # 0
      BY <1>18, <3>2 DEF StopAtNormal, HeldBack, apcState
    <3> QED
      BY <2>2, <3>3 DEF NoneLeft, PastKernelList
  <2> QED
    BY <2>1, <2>2
<1>19. CASE UserRoutineReturns
  <2>1. CASE frames' # << >>
    BY <1>17, <1>19, <2>1 DEF UserRoutineReturns, NoneLeft, PastKernelList
  <2>2. CASE kernelList # << >>
    BY <1>3, <1>19, <2>2 DEF UserRoutineReturns, NoneLeft, PastKernelList
  <2>3. CASE kernelList = << >>
    BY <1>14, <1>19, <2>3 DEF UserRoutineReturns, lists
  <2> QED
    BY <2>2, <2>3
<1>20. CASE UNCHANGED apcVars
  BY <1>2, <1>20 DEF apcVars, apcState, lists
<1> QED
  BY <1>4, <1>5, <1>6, <1>7, <1>8, <1>9, <1>10, <1>11, <1>13, <1>15, <1>16, <1>18, <1>19, <1>20
     DEF ApcNext, Delivery
-------------------------------------------------------------------------------
(* The properties. *)

LEMMA InitHolds ==
  ASSUME ApcAssumption, ApcInit
  PROVE  IInv
<1>1. ApcTypeOK
  <2>1. /\ kernelList \in Seq(Special \union Normal) /\ userList \in Seq(User \union Exit)
        /\ frames \in Seq(Frames)
    BY EmptySeq DEF ApcInit
  <2>2. kernelApcDisable \in 0 .. MaxDisable
    BY DEF ApcInit, ApcAssumption
  <2> QED
    BY <2>1, <2>2 DEF ApcInit, ApcTypeOK, Waits
<1> QED
  BY <1>1, EmptyHasNone
     DEF ApcInit, IInv, InsertedIsLinked, NoDuplicates, CallsNest, NoneLeft

LEMMA StepHolds ==
  ASSUME ApcAssumption, IInv, [ApcNext]_apcVars
  PROVE  IInv'
BY ListStep, NestStep, LeftStep DEF IInv

\* What the properties say of each state follows.
LEMMA NormalRoutineAlone ==
  ASSUME IInv
  PROVE  NormalRoutinesAlone
<1> DEFINE normal == {i \in DOMAIN frames : frames[i].at = "Normal"}
<1>1. Cardinality(normal) <= 1
  <2>1. CASE normal = {}
    BY <2>1, FS_EmptySet
  <2>2. CASE normal # {}
    <3>1. PICK i \in DOMAIN frames : normal = {i}
      BY <2>2 DEF IInv, CallsNest
    <3>2. Cardinality({i}) = 1
      BY FS_Singleton
    <3> HIDE DEF normal
    <3> QED
      BY <3>1, <3>2
  <2> QED
    BY <2>1, <2>2
<1>2. (kernelApcInProgress <=> normal # {}) /\ (normal # {} => kernelApcDisable = 0)
  BY DEF IInv, CallsNest
<1> QED
  BY <1>1, <1>2 DEF NormalRoutinesAlone

\* A thread is sent one APC that ends it: no code of the tree queues a second one, which the
\* delivery of the first, that clears UserApcPending, would leave behind.
OneExit == \A a, b \in Exit : a = b

\* It goes to the front, and stays there until it is delivered or removed.
LEMMA ExitStep ==
  ASSUME ApcAssumption, OneExit, ApcTypeOK, InsertedIsLinked, ExitApcIsNext,
         [ApcNext]_apcVars
  PROVE  ExitApcIsNext'
<1> SUFFICES ASSUME NEW x \in Exit, x \in inserted'
             PROVE  userApcPending' /\ Head(userList') = x
  BY DEF ExitApcIsNext
<1>1. userList \in Seq(User \union Exit) /\ x \notin Special \union Normal
  BY DEF ApcTypeOK, ApcAssumption
<1>2. x \in inserted => userList # << >> /\ userApcPending /\ Head(userList) = x
  <2> SUFFICES ASSUME x \in inserted PROVE userList # << >> /\ userApcPending /\ Head(userList) = x
    OBVIOUS
  <2>1. x \notin Members(kernelList)
    BY <1>1 DEF ApcTypeOK, Members
  <2>2. userList # << >>
    BY <2>1, EmptyHasNone DEF InsertedIsLinked
  <2> QED
    BY <2>2 DEF ExitApcIsNext, OneExit
<1>3. CASE UNCHANGED <<userList, inserted>> /\ (userApcPending => userApcPending')
  BY <1>2, <1>3
<1>4. ASSUME NEW a, inserted' = inserted \ {a}, userList' = Unlink(userList, a)
      PROVE  x \in inserted /\ userList # << >> /\ userList' # << >> /\ Head(userList') = x
             /\ userApcPending /\ a # Head(userList)
  BY <1>1, <1>2, <1>4, UnlinkKeepsHead
<1>5. CASE \E a \in Apcs : InsertKernelApc(a)
  BY <1>1, <1>2, <1>5 DEF InsertKernelApc
<1>6. CASE \E a \in Apcs : InsertUserApc(a)
  <2>1. PICK a \in Apcs : InsertUserApc(a)
    BY <1>6
  <2>2. CASE a \in Exit
    <3>1. a = x
      BY <2>2 DEF OneExit
    <3> QED
      BY <1>1, <2>1, <2>2, <3>1, PrependIsHead DEF InsertUserApc
  <2>3. CASE a \notin Exit
    <3>1. x \in inserted
      BY <2>1, <2>3 DEF InsertUserApc
    <3> QED
      BY <1>1, <1>2, <2>1, <2>3, <3>1, AppendKeepsHead DEF InsertUserApc
  <2> QED
    BY <2>1, <2>2, <2>3
<1>7. CASE \E a \in Apcs : KeRemoveQueueApc(a)
  BY <1>4, <1>7 DEF KeRemoveQueueApc
<1>8. CASE DeliverSpecial \/ DeliverNormal
  BY <1>4, <1>8 DEF DeliverSpecial, DeliverNormal, Dequeue, apcState
<1>9. CASE DeliverUser
  BY <1>4, <1>9 DEF DeliverUser, Dequeue, NextUserApc
<1>10. CASE \E w \in Waits : KeWaitForSingleObject(w)
  BY <1>3, <1>10 DEF KeWaitForSingleObject, lists
<1>11. CASE UserRoutineReturns
  BY <1>3, <1>11 DEF UserRoutineReturns, lists
<1>12. CASE UNCHANGED <<userList, inserted, userApcPending>>
  BY <1>3, <1>12
<1> QED
  BY <1>5, <1>6, <1>7, <1>8, <1>9, <1>10, <1>11, <1>12 DEF ApcNext, Delivery, apcVars, lists,
     apcState, KeEnterCriticalRegion, KeLeaveCriticalRegion, KfRaiseIrql, KfLowerIrql,
     ServiceEntry, _KiServiceExit, WaitEnds, KiDeliverApc, StopAtNormal, CallNormalRoutine,
     RoutineReturns, DeliverNothing

\* Normal kernel APCs run alone and outside critical regions, and no kernel APC is left
\* in the list of a thread that runs without being pending, whatever APCs are queued
\* and removed by whomever between any two steps of KiDeliverApc.
THEOREM NoneStranded ==
  ASSUME ApcAssumption
  PROVE  ApcSpec => [](NormalRoutinesAlone /\ NoKernelApcStranded)
<1>1. ApcInit => IInv
  BY InitHolds
<1>2. IInv /\ [ApcNext]_apcVars => IInv'
  BY StepHolds
<1>3. IInv => NormalRoutinesAlone /\ NoKernelApcStranded
  BY NormalRoutineAlone DEF IInv, NoneLeft, PastKernelList, NoKernelApcStranded
<1> QED
  BY <1>1, <1>2, <1>3, PTL DEF ApcSpec

\* The lists of APCs are sound, normal routines run alone, no kernel APC is stranded,
\* and the APC that ends the thread, if it has one, is the next one it gets.
THEOREM ApcsDelivered ==
  ASSUME ApcAssumption, OneExit
  PROVE  ApcSpec => []ApcsAreDelivered
<1>1. ApcInit => IInv /\ ExitApcIsNext
  BY InitHolds DEF ApcInit, ExitApcIsNext
<1>2. IInv /\ ExitApcIsNext /\ [ApcNext]_apcVars => (IInv /\ ExitApcIsNext)'
  BY StepHolds, ExitStep DEF IInv
<1>3. IInv /\ ExitApcIsNext => ApcsAreDelivered
  BY NormalRoutineAlone
     DEF IInv, NoneLeft, PastKernelList, NoKernelApcStranded, ApcsAreDelivered
<1> QED
  BY <1>1, <1>2, <1>3, PTL DEF ApcSpec
-------------------------------------------------------------------------------
(* Suspension. *)

\* The caller that has the mutex is at where.
At(where) == mutex \in Callers /\ stage[mutex] = where

\* Who is in a call has the mutex.
CallersLock == \A c \in Callers : stage[c] # "Idle" <=> mutex = c

\* A signal is from a resumption that has ended.
SignalsCounted == signalState <= calls /\ (mutex # Nobody => signalState + 1 <= calls)

\* What a caller has read is the count; and a running thread that is to be suspended has an
\* APC, or is about to be sent one.
ReadIsCount == At("SuspendRead") \/ At("ResumeRead") => old[mutex] = suspendCount
ApcOnItsWay == state = "Running" /\ suspendCount > 0 => apcInserted \/ At("SuspendQueue")

\* A thread about to wait finds a signal, or is about to be sent one, if it is resumed.
SignalOnItsWay ==
  state \in {"Wait", "Waiting"} /\ suspendCount = 0
    => At("ResumeRelease") \/ (state = "Wait" /\ signalState > 0)
SuspensionsCounted == suspendCount + (IF At("SuspendRead") THEN 1 ELSE 0) <= calls

LockInv  == SuspendTypeOK /\ CallersLock /\ SignalsCounted
TakesInv == LockInv /\ (~alertResumed => ReadIsCount /\ ApcOnItsWay)
HoldsInv ==
  /\ TakesInv
  /\ ~alertResumed => CountBalances /\ SuspensionsCounted /\ SignalOnItsWay

LEMMA CallerStep ==
  ASSUME SuspendAssumption, SuspendTypeOK, CallersLock, NEW c \in Callers, stage[c] # "Idle"
  PROVE  /\ mutex = c /\ Nobody \notin Callers
         /\ \A where : At(where) <=> stage[c] = where
         /\ \A where \in Stages :
              NowAt(c, where) => stage' \in [Callers -> Stages] /\ stage'[c] = where
         /\ \A where \in Stages \ {"Idle"} : NowAt(c, where) /\ mutex' = mutex =>
              CallersLock' /\ At(where)' /\ \A other : other # where => ~At(other)'
         /\ Release(c) => CallersLock' /\ \A where : ~At(where)'
<1>1. mutex = c /\ Nobody \notin Callers /\ stage \in [Callers -> Stages]
  BY DEF CallersLock, SuspendAssumption, SuspendTypeOK
<1>2. \A where : At(where) <=> stage[c] = where
  BY <1>1 DEF At
<1>3. ASSUME NEW where \in Stages, NowAt(c, where)
      PROVE  /\ stage' \in [Callers -> Stages] /\ stage'[c] = where
             /\ \A d \in Callers : d # c => stage'[d] = stage[d]
  BY <1>1, <1>3 DEF NowAt
<1>4. ASSUME NEW where \in Stages \ {"Idle"}, NowAt(c, where), mutex' = mutex
      PROVE  CallersLock' /\ At(where)' /\ \A other : other # where => ~At(other)'
  BY <1>1, <1>3, <1>4 DEF CallersLock, At
<1>5. ASSUME Release(c) PROVE CallersLock' /\ \A where : ~At(where)'
  <2>1. stage'[c] = "Idle" /\ mutex' = Nobody /\ \A d \in Callers : d # c => stage'[d] = stage[d]
    BY <1>3, <1>5 DEF Release, Stages
  <2> QED
    BY <1>1, <2>1 DEF CallersLock, At
<1> QED
  BY <1>1, <1>2, <1>3, <1>4, <1>5

LEMMA BeginStep ==
  ASSUME SuspendAssumption, SuspendTypeOK, CallersLock, NEW c \in Callers,
         NEW where \in {"SuspendRead", "ResumeRead"},
         Begin(c, where, mutex = Nobody /\ mutex' = c)
  PROVE  /\ stage' \in [Callers -> Stages] /\ old' \in [Callers -> 0 .. Width - 1]
         /\ calls' = calls + 1 /\ calls' \in 0 .. MaxCalls /\ old'[c] = suspendCount
         /\ mutex = Nobody /\ mutex' = c /\ CallersLock' /\ Nobody # c
         /\ \A other : ~At(other) /\ (At(other)' <=> other = where)
         /\ UNCHANGED <<suspendCount, target, history>>
<1>1. /\ stage' = [stage EXCEPT ![c] = where] /\ old' = [old EXCEPT ![c] = suspendCount]
      /\ calls' = calls + 1 /\ calls < MaxCalls /\ mutex = Nobody /\ mutex' = c
      /\ UNCHANGED <<suspendCount, target, history>>
  BY DEF Begin, NowAt
<1>2. /\ stage \in [Callers -> Stages] /\ where \in Stages /\ Nobody \notin Callers
      /\ old \in [Callers -> 0 .. Width - 1] /\ suspendCount \in 0 .. Width - 1
      /\ calls \in 0 .. MaxCalls /\ MaxCalls \in Nat
  BY DEF SuspendTypeOK, Stages, SuspendAssumption
<1>3. /\ stage'[c] = where /\ \A d \in Callers : d # c => stage'[d] = stage[d]
      /\ stage' \in [Callers -> Stages]
  BY <1>1, <1>2
<1>4. CallersLock' /\ \A other : ~At(other) /\ (At(other)' <=> other = where)
  BY <1>1, <1>2, <1>3 DEF CallersLock, At
<1>5. old' \in [Callers -> 0 .. Width - 1] /\ old'[c] = suspendCount /\ calls' \in 0 .. MaxCalls
  BY <1>1, <1>2
<1> QED
  BY <1>1, <1>2, <1>3, <1>4, <1>5

LEMMA LockStep ==
  ASSUME SuspendAssumption, LockInv, [SuspendNext]_suspendVars
  PROVE  LockInv'
<1>1. /\ SuspendTypeOK /\ CallersLock /\ SignalsCounted /\ MaxCalls \in Nat /\ Width \in Nat \ {0}
      /\ Nobody \notin Callers
  BY DEF LockInv, SuspendAssumption
<1>2. CASE UNCHANGED suspendVars
  BY <1>1, <1>2
     DEF suspendVars, target, history, LockInv, SuspendTypeOK, CallersLock, SignalsCounted
<1>3. ASSUME NEW c \in Callers, SuspendBegin(c) \/ ResumeBegin(c)
      PROVE  LockInv'
  <2>1. PICK where \in {"SuspendRead", "ResumeRead"} :
          Begin(c, where, mutex = Nobody /\ mutex' = c)
    BY <1>3 DEF SuspendBegin, ResumeBegin
  <2>2. /\ stage' \in [Callers -> Stages] /\ old' \in [Callers -> 0 .. Width - 1]
        /\ calls' = calls + 1 /\ calls' \in 0 .. MaxCalls
        /\ mutex = Nobody /\ mutex' = c /\ CallersLock' /\ Nobody # c
        /\ UNCHANGED <<suspendCount, target, history>>
    BY <1>1, <2>1, BeginStep
  <2>3. SuspendTypeOK'
    BY <1>1, <2>2 DEF SuspendTypeOK, target, history
  <2>4. SignalsCounted'
    BY <1>1, <2>2 DEF SignalsCounted, SuspendTypeOK, target
  <2> QED
    BY <2>2, <2>3, <2>4 DEF LockInv
<1>4. ASSUME NEW c \in Callers, Caller(c)
      PROVE  LockInv'
  <2>1. stage[c] # "Idle"
    BY <1>4 DEF Caller, SuspendCounts, SuspendQueues, ResumeNothing, ResumeCounts, ResumeReleases
  <2>2. /\ mutex = c
        /\ \A where \in Stages :
             NowAt(c, where) => stage' \in [Callers -> Stages] /\ stage'[c] = where
        /\ \A where \in Stages \ {"Idle"} : NowAt(c, where) /\ mutex' = mutex => CallersLock'
        /\ Release(c) => CallersLock'
    BY <1>1, <2>1, CallerStep
  <2>3. /\ old[c] \in 0 .. Width - 1 /\ signalState \in 0 .. MaxCalls /\ calls \in 0 .. MaxCalls
        /\ suspendCount \in 0 .. Width - 1 /\ owed \in Int /\ signalState + 1 <= calls
    BY <1>1, <2>2 DEF SuspendTypeOK, SignalsCounted
  <2>4. CASE SuspendCounts(c)
    <3>1. (old[c] + 1) % Width \in 0 .. Width - 1 /\ owed + 1 \in Int
      BY <1>1, <2>3
    <3>2. CallersLock' /\ stage' \in [Callers -> Stages]
      BY <2>2, <2>4 DEF SuspendCounts, Stages
    <3> QED
      BY <1>1, <2>4, <3>1, <3>2
         DEF SuspendCounts, LockInv, SuspendTypeOK, SignalsCounted, target
  <2>5. CASE SuspendQueues(c) \/ ResumeNothing(c)
    <3>1. CallersLock' /\ stage' \in [Callers -> Stages] /\ mutex' = Nobody
      BY <2>2, <2>5 DEF SuspendQueues, ResumeNothing, Stages, Release
    <3>2. SuspendTypeOK'
      BY <1>1, <2>5, <3>1 DEF SuspendQueues, ResumeNothing, SuspendTypeOK, target, history
    <3>3. SignalsCounted'
      BY <2>3, <2>5, <3>1 DEF SuspendQueues, ResumeNothing, SignalsCounted, target
    <3> QED
      BY <3>1, <3>2, <3>3 DEF LockInv
  <2>6. CASE ResumeCounts(c)
    <3>1. old[c] - 1 \in 0 .. Width - 1 /\ owed - 1 \in Int
      BY <1>1, <2>3, <2>6 DEF ResumeCounts
    <3>2. /\ CallersLock' /\ stage' \in [Callers -> Stages]
          /\ mutex' \in {mutex, Nobody} /\ mutex' \in Callers \union {Nobody}
      BY <2>2, <2>6 DEF ResumeCounts, Stages, Release
    <3>3. SuspendTypeOK'
      BY <1>1, <2>6, <3>1, <3>2 DEF ResumeCounts, SuspendTypeOK, target
    <3>4. SignalsCounted'
      BY <2>3, <2>6, <3>2 DEF ResumeCounts, SignalsCounted, target
    <3> QED
      BY <3>2, <3>3, <3>4 DEF LockInv
  <2>7. CASE ResumeReleases(c)
    <3>1. CallersLock' /\ stage' \in [Callers -> Stages] /\ mutex' = Nobody
      BY <2>2, <2>7 DEF ResumeReleases, Stages, Release
    <3>2. /\ signalState' \in {signalState, signalState + 1}
          /\ state' \in {"Running", "Routine", "Wait", "Waiting"}
      BY <1>1, <2>7 DEF ResumeReleases, Signal, SuspendTypeOK
    <3>3. signalState' <= calls /\ signalState' \in 0 .. MaxCalls
      BY <1>1, <2>3, <3>2
    <3>4. SuspendTypeOK'
      BY <1>1, <2>7, <3>1, <3>2, <3>3 DEF ResumeReleases, SuspendTypeOK, history
    <3>5. SignalsCounted'
      BY <1>1, <2>3, <2>7, <3>1, <3>3 DEF ResumeReleases, SignalsCounted
    <3> QED
      BY <3>1, <3>4, <3>5 DEF LockInv
  <2> QED
    BY <1>4, <2>4, <2>5, <2>6, <2>7 DEF Caller
<1>5. CASE KeAlertResumeThread
  <2>1. /\ calls < MaxCalls /\ calls' = calls + 1 /\ UNCHANGED <<apcInserted, mutex, stage, old>>
        /\ alerted' \in BOOLEAN /\ alertResumed' = TRUE
    BY <1>5 DEF KeAlertResumeThread
  <2>2. suspendCount' \in 0 .. Width - 1 /\ owed' \in Int
    <3>1. suspendCount \in 0 .. Width - 1 /\ owed \in Int
      BY <1>1 DEF SuspendTypeOK
    <3>2. \/ suspendCount' = suspendCount /\ owed' = owed
          \/ suspendCount > 0 /\ suspendCount' = suspendCount - 1 /\ owed' = owed - 1
      <4>1. CASE suspendCount > 0
        BY <1>5, <4>1 DEF KeAlertResumeThread
      <4>2. CASE ~(suspendCount > 0)
        BY <1>5, <4>2 DEF KeAlertResumeThread, history
      <4> QED
        BY <4>1, <4>2
    <3> QED
      BY <1>1, <3>1, <3>2
  <2>3. /\ signalState' \in {signalState, signalState + 1}
        /\ state' \in {"Running", "Routine", "Wait", "Waiting"}
    BY <1>1, <1>5 DEF KeAlertResumeThread, Signal, SuspendTypeOK
  <2>4. SignalsCounted' /\ signalState' \in 0 .. MaxCalls /\ calls' \in 0 .. MaxCalls
    <3>1. signalState \in 0 .. MaxCalls /\ calls \in 0 .. MaxCalls
      BY <1>1 DEF SuspendTypeOK
    <3>2. signalState' <= calls' /\ (mutex # Nobody => signalState' + 1 <= calls')
      <4>1. signalState <= calls /\ (mutex # Nobody => signalState + 1 <= calls)
        BY <1>1 DEF SignalsCounted
      <4>2. calls' = calls + 1 /\ signalState \in Int /\ calls \in Int
        BY <1>1, <2>1, <3>1
      <4>3. signalState' = signalState \/ signalState' = signalState + 1
        BY <2>3
      <4> QED
        BY <4>1, <4>2, <4>3
    <3>3. mutex' = mutex /\ calls' \in 0 .. MaxCalls /\ signalState' \in 0 .. MaxCalls
      BY <1>1, <2>1, <2>3, <3>1, <3>2
    <3> QED
      BY <3>2, <3>3 DEF SignalsCounted
  <2> QED
    BY <1>1, <2>1, <2>2, <2>3, <2>4 DEF LockInv, SuspendTypeOK, CallersLock
<1>6. CASE DeliverApc \/ RoutineTests \/ AlertedWait \/ WaitAborted
  BY <1>1, <1>6 DEF DeliverApc, RoutineTests, Loop, AlertedWait, WaitAborted, LockInv,
                    SuspendTypeOK, CallersLock, SignalsCounted, history
<1>7. CASE WaitForSemaphore
  <2>1. /\ signalState' \in 0 .. MaxCalls
        /\ signalState' = signalState \/ signalState' = signalState - 1
        /\ state' \in {"Running", "Routine", "Wait", "Waiting"}
        /\ UNCHANGED <<suspendCount, apcInserted, alerted, mutex, stage, old, calls, history>>
    BY <1>1, <1>7 DEF WaitForSemaphore, SuspendTypeOK
  <2>2. SuspendTypeOK' /\ CallersLock'
    BY <1>1, <2>1 DEF SuspendTypeOK, CallersLock, history
  <2>3. SignalsCounted'
    <3>1. signalState \in 0 .. MaxCalls /\ calls \in 0 .. MaxCalls
      BY <1>1 DEF SuspendTypeOK
    <3>2. mutex' = mutex /\ calls' = calls
      BY <2>1
    <3> QED
      <4>1. signalState <= calls /\ (mutex # Nobody => signalState + 1 <= calls)
        BY <1>1 DEF SignalsCounted
      <4>2. signalState \in Int /\ calls \in Int
        BY <1>1, <2>1, <3>1
      <4>3. signalState' <= calls' /\ (mutex' # Nobody => signalState' + 1 <= calls')
        <5>1. signalState' <= calls /\ (mutex # Nobody => signalState' + 1 <= calls)
          <6>1. CASE signalState' = signalState
            BY <4>1, <6>1
          <6>2. CASE signalState' = signalState - 1
            <7>1. signalState - 1 <= signalState /\ signalState - 1 + 1 = signalState
              BY <4>2
            <7>2. signalState - 1 <= calls
              BY <4>1, <4>2
            <7>3. signalState <= calls
              BY <4>1
            <7> QED
              BY <6>2, <7>1, <7>2, <7>3
          <6> QED
            BY <2>1, <6>1, <6>2
        <5> QED
          BY <3>2, <5>1
      <4> QED
        BY <4>3 DEF SignalsCounted
  <2> QED
    BY <2>2, <2>3 DEF LockInv
<1> QED
  BY <1>2, <1>3, <1>4, <1>5, <1>6, <1>7 DEF SuspendNext, Target

\* No call changes the count between another's read and write, and no thread that is to be
\* suspended gets past the APC.
LEMMA TakesStep ==
  ASSUME SuspendAssumption, TakesInv, [SuspendNext]_suspendVars
  PROVE  TakesInv'
<1>1. LockInv /\ LockInv'
  BY LockStep DEF TakesInv
<1> SUFFICES ASSUME ~alertResumed' PROVE ReadIsCount' /\ ApcOnItsWay'
  BY <1>1 DEF TakesInv
<1>2. /\ SuspendTypeOK /\ SuspendTypeOK' /\ CallersLock /\ Nobody \notin Callers
  BY <1>1 DEF LockInv, SuspendAssumption
<1>3. CASE UNCHANGED suspendVars
  BY <1>3 DEF suspendVars, target, history, TakesInv, ReadIsCount, ApcOnItsWay, At
<1>4. ASSUME NEW c \in Callers, SuspendBegin(c) \/ ResumeBegin(c)
      PROVE  ReadIsCount' /\ ApcOnItsWay'
  <2>1. PICK where \in {"SuspendRead", "ResumeRead"} :
          Begin(c, where, mutex = Nobody /\ mutex' = c)
    BY <1>4 DEF SuspendBegin, ResumeBegin
  <2>2. /\ mutex' = c /\ old'[c] = suspendCount /\ \A other : ~At(other)
        /\ UNCHANGED <<suspendCount, target, history>>
    BY <1>2, <2>1, BeginStep
  <2> QED
    BY <2>2 DEF ReadIsCount, ApcOnItsWay, target, history, TakesInv
<1>5. ASSUME NEW c \in Callers, Caller(c)
      PROVE  ReadIsCount' /\ ApcOnItsWay'
  <2>1. stage[c] # "Idle"
    BY <1>5 DEF Caller, SuspendCounts, SuspendQueues, ResumeNothing, ResumeCounts, ResumeReleases
  <2>2. /\ mutex = c /\ \A where : At(where) <=> stage[c] = where
        /\ \A where \in Stages \ {"Idle"} : NowAt(c, where) /\ mutex' = mutex =>
             At(where)' /\ \A other : other # where => ~At(other)'
        /\ Release(c) => \A where : ~At(where)'
    BY <1>2, <2>1, CallerStep
  <2>3. CASE SuspendCounts(c)
    <3>1. At("SuspendQueue")' /\ ~At("SuspendRead")' /\ ~At("ResumeRead")'
      BY <2>2, <2>3 DEF SuspendCounts, Stages
    <3> QED
      BY <3>1 DEF ReadIsCount, ApcOnItsWay
  <2>4. CASE SuspendQueues(c)
    <3>1. apcInserted' /\ ~At("SuspendRead")' /\ ~At("ResumeRead")'
      BY <2>2, <2>4 DEF SuspendQueues
    <3> QED
      BY <3>1 DEF ReadIsCount, ApcOnItsWay
  <2>5. CASE ResumeNothing(c) \/ ResumeReleases(c)
    <3>1. /\ ~At("SuspendRead")' /\ ~At("ResumeRead")' /\ ~At("SuspendQueue")
          /\ UNCHANGED <<suspendCount, apcInserted, alertResumed>>
          /\ state' = "Running" => state = "Running"
      BY <2>2, <2>5 DEF ResumeNothing, ResumeReleases, Signal, target, history
    <3> QED
      BY <3>1 DEF ReadIsCount, ApcOnItsWay, TakesInv
  <2>6. CASE ResumeCounts(c)
    <3>1. /\ ~At("SuspendRead")' /\ ~At("ResumeRead")' /\ At("ResumeRead")
          /\ ~At("SuspendQueue")
      BY <2>2, <2>6 DEF ResumeCounts, Stages
    <3>2. /\ old[c] > 0 /\ UNCHANGED <<state, apcInserted, alertResumed>>
      BY <2>6 DEF ResumeCounts, target
    <3>3. old[c] = suspendCount
      BY <2>2, <3>1, <3>2 DEF ReadIsCount, TakesInv
    <3> QED
      BY <3>1, <3>2, <3>3 DEF ReadIsCount, ApcOnItsWay, TakesInv
  <2> QED
    BY <1>5, <2>3, <2>4, <2>5, <2>6 DEF Caller
<1>6. CASE KeAlertResumeThread
  BY <1>6 DEF KeAlertResumeThread
<1>7. CASE Target \/ AlertedWait \/ WaitAborted
  <2>1. UNCHANGED <<suspendCount, mutex, stage, old, history>>
    BY <1>7 DEF Target, DeliverApc, RoutineTests, WaitForSemaphore, AlertedWait, WaitAborted
  <2>2. ReadIsCount'
    BY <2>1 DEF ReadIsCount, At, history, TakesInv
  <2>3. state' = "Running" => suspendCount = 0 \/ (state = "Running" /\ apcInserted' = apcInserted)
    BY <1>2, <1>7 DEF Target, DeliverApc, RoutineTests, Loop, WaitForSemaphore, AlertedWait,
                      WaitAborted, SuspendTypeOK
  <2>4. ApcOnItsWay'
    BY <2>1, <2>3 DEF ApcOnItsWay, At, history, TakesInv
  <2> QED
    BY <2>2, <2>4
<1> QED
  BY <1>3, <1>4, <1>5, <1>6, <1>7 DEF SuspendNext

\* Every suspension is counted, and a resumption of a thread about to wait leaves a signal.
LEMMA HoldsStep ==
  ASSUME SuspendAssumption, MaxCalls < Width, HoldsInv, [SuspendNext]_suspendVars
  PROVE  HoldsInv'
<1>1. TakesInv /\ TakesInv'
  BY TakesStep DEF HoldsInv
<1> SUFFICES ASSUME ~alertResumed'
             PROVE  CountBalances' /\ SuspensionsCounted' /\ SignalOnItsWay'
  BY <1>1 DEF HoldsInv
<1>2. /\ SuspendTypeOK /\ SuspendTypeOK' /\ CallersLock /\ Nobody \notin Callers
      /\ MaxCalls \in Nat /\ Width \in Nat
  BY <1>1 DEF TakesInv, LockInv, SuspendAssumption
<1>3. /\ suspendCount \in 0 .. Width - 1 /\ signalState \in 0 .. MaxCalls
      /\ calls \in 0 .. MaxCalls /\ owed \in Int /\ signalState' \in 0 .. MaxCalls
  BY <1>2 DEF SuspendTypeOK
<1>4. CASE UNCHANGED suspendVars
  BY <1>4 DEF suspendVars, target, history, HoldsInv, CountBalances, SuspensionsCounted,
              SignalOnItsWay, At
<1>5. ASSUME NEW c \in Callers, SuspendBegin(c) \/ ResumeBegin(c)
      PROVE  CountBalances' /\ SuspensionsCounted' /\ SignalOnItsWay'
  <2>1. PICK where \in {"SuspendRead", "ResumeRead"} :
          Begin(c, where, mutex = Nobody /\ mutex' = c)
    BY <1>5 DEF SuspendBegin, ResumeBegin
  <2>2. /\ calls' = calls + 1 /\ (\A other : ~At(other))
        /\ UNCHANGED <<suspendCount, signalState, state, owed, alertResumed>>
    BY <1>2, <2>1, BeginStep DEF target, history
  <2>3. suspendCount <= calls
    BY <1>3, <2>2 DEF SuspensionsCounted, HoldsInv
  <2>4. suspendCount' + (IF At("SuspendRead")' THEN 1 ELSE 0) <= calls'
    BY <1>3, <2>2, <2>3
  <2> QED
    BY <2>2, <2>4 DEF CountBalances, SuspensionsCounted, SignalOnItsWay, HoldsInv
<1>6. ASSUME NEW c \in Callers, Caller(c)
      PROVE  CountBalances' /\ SuspensionsCounted' /\ SignalOnItsWay'
  <2>1. stage[c] # "Idle"
    BY <1>6 DEF Caller, SuspendCounts, SuspendQueues, ResumeNothing, ResumeCounts, ResumeReleases
  <2>2. /\ mutex = c /\ \A where : At(where) <=> stage[c] = where
        /\ \A where \in Stages \ {"Idle"} : NowAt(c, where) /\ mutex' = mutex =>
             At(where)' /\ \A other : other # where => ~At(other)'
        /\ Release(c) => \A where : ~At(where)'
    BY <1>2, <2>1, CallerStep
  <2>3. ~alertResumed
    BY <1>6 DEF Caller, SuspendCounts, SuspendQueues, ResumeNothing, ResumeCounts,
                ResumeReleases, history
  <2>4. suspendCount = owed /\ (At("SuspendRead") => suspendCount + 1 <= calls)
        /\ suspendCount <= calls
    BY <1>3, <2>3 DEF HoldsInv, CountBalances, SuspensionsCounted
  <2>5. CASE SuspendCounts(c)
    <3>1. /\ old[c] = suspendCount /\ At("SuspendRead")
      BY <2>2, <2>3, <2>5, <1>1 DEF SuspendCounts, TakesInv, ReadIsCount
    <3>2. suspendCount' = suspendCount + 1 /\ suspendCount' <= calls
      <4>1. suspendCount + 1 \in 0 .. Width - 1
        BY <1>2, <1>3, <2>4, <3>1
      <4>2. (suspendCount + 1) % Width = suspendCount + 1
        BY <1>2, <4>1
      <4> QED
        BY <2>4, <2>5, <3>1, <4>2 DEF SuspendCounts
    <3>3. owed' = owed + 1 /\ calls' = calls /\ ~At("SuspendRead")'
      BY <2>2, <2>5 DEF SuspendCounts, Stages
    <3>4. suspendCount' > 0
      BY <1>3, <3>2
    <3> QED
      BY <1>3, <2>4, <3>2, <3>3, <3>4 DEF CountBalances, SuspensionsCounted, SignalOnItsWay
  <2>6. CASE SuspendQueues(c) \/ ResumeNothing(c)
    <3>1. /\ ~At("SuspendRead")' /\ ~At("ResumeRelease") /\ ~At("ResumeRelease")'
          /\ UNCHANGED <<suspendCount, signalState, state, calls, owed>>
      BY <2>2, <2>6 DEF SuspendQueues, ResumeNothing, target, history
    <3> QED
      BY <1>3, <2>3, <2>4, <3>1
         DEF CountBalances, SuspensionsCounted, SignalOnItsWay, HoldsInv
  <2>7. CASE ResumeCounts(c)
    <3>1. /\ old[c] = suspendCount /\ ~At("ResumeRelease") /\ ~At("SuspendRead")
      BY <2>2, <2>3, <2>7, <1>1 DEF ResumeCounts, TakesInv, ReadIsCount
    <3>2. /\ suspendCount > 0 /\ suspendCount' = suspendCount - 1 /\ owed' = owed - 1
          /\ UNCHANGED <<signalState, state, calls>>
      BY <2>7, <3>1 DEF ResumeCounts, target
    <3>3. ~At("SuspendRead")' /\ (suspendCount' = 0 => At("ResumeRelease")')
      <4>1. old[c] \in 0 .. Width - 1
        BY <1>2 DEF SuspendTypeOK
      <4>2. suspendCount' = 0 => old[c] = 1
        BY <1>3, <3>1, <3>2
      <4> QED
        BY <2>2, <2>7, <4>2 DEF ResumeCounts, Stages
    <3> QED
      BY <1>3, <2>4, <3>2, <3>3 DEF CountBalances, SuspensionsCounted, SignalOnItsWay
  <2>8. CASE ResumeReleases(c)
    <3>1. /\ ~At("SuspendRead")' /\ UNCHANGED <<suspendCount, calls, owed>>
      BY <2>2, <2>8 DEF ResumeReleases, history
    <3>2. state' = "Waiting" => FALSE
      BY <1>2, <2>8 DEF ResumeReleases, Signal, SuspendTypeOK
    <3>3. state' = "Wait" => signalState' > 0
      BY <1>3, <2>8 DEF ResumeReleases, Signal
    <3> QED
      BY <1>3, <2>4, <3>1, <3>2, <3>3 DEF CountBalances, SuspensionsCounted, SignalOnItsWay
  <2> QED
    BY <1>6, <2>5, <2>6, <2>7, <2>8 DEF Caller
<1>7. CASE KeAlertResumeThread
  BY <1>7 DEF KeAlertResumeThread
<1>8. CASE Target \/ AlertedWait \/ WaitAborted
  <2>1. UNCHANGED <<suspendCount, mutex, stage, old, calls, history>>
    BY <1>8 DEF Target, DeliverApc, RoutineTests, WaitForSemaphore, AlertedWait, WaitAborted
  <2>2. CountBalances' /\ SuspensionsCounted'
    BY <2>1 DEF CountBalances, SuspensionsCounted, At, history, HoldsInv
  <2>3. /\ ~alertResumed /\ suspendCount' = suspendCount
        /\ At("ResumeRelease")' <=> At("ResumeRelease")
    BY <2>1 DEF At, history
  <2>4. state \in {"Wait", "Waiting"} /\ suspendCount = 0
          => At("ResumeRelease") \/ (state = "Wait" /\ signalState > 0)
    BY <2>3 DEF SignalOnItsWay, HoldsInv
  <2>5. CASE WaitForSemaphore
    <3>1. state' = "Waiting" => state = "Wait" /\ ~(signalState > 0)
      BY <1>3, <2>5 DEF WaitForSemaphore
    <3>2. state' # "Wait"
      BY <2>5 DEF WaitForSemaphore
    <3> QED
      BY <2>2, <2>3, <2>4, <3>1, <3>2 DEF SignalOnItsWay
  <2>6. CASE ~WaitForSemaphore
    <3>1. state' \in {"Wait", "Waiting"}
            => suspendCount > 0 \/ (state' = state /\ signalState' = signalState)
      BY <1>8, <2>6 DEF Target, DeliverApc, RoutineTests, Loop, AlertedWait, WaitAborted
    <3> QED
      <4>1. state' \in {"Wait", "Waiting"} /\ suspendCount = 0
              => state' = state /\ signalState' = signalState
        BY <1>3, <3>1
      <4> QED
        BY <2>2, <2>3, <2>4, <4>1 DEF SignalOnItsWay
  <2> QED
    BY <2>2, <2>5, <2>6 DEF SignalOnItsWay
<1> QED
  BY <1>4, <1>5, <1>6, <1>7, <1>8 DEF SuspendNext

LEMMA SuspendInitHolds ==
  ASSUME SuspendAssumption, SuspendInit
  PROVE  HoldsInv
<1>1. \A where : ~At(where)
  BY DEF SuspendInit, At, SuspendAssumption
<1>2. SuspendTypeOK /\ CallersLock
  <2>1. /\ 0 \in 0 .. Width - 1 /\ 0 \in 0 .. MaxCalls /\ 0 \in Int
    BY DEF SuspendAssumption
  <2> QED
    BY <2>1 DEF SuspendInit, SuspendTypeOK, CallersLock, SuspendAssumption, Stages
<1>3. SignalsCounted
  BY DEF SuspendInit, SignalsCounted
<1>4. SuspensionsCounted /\ SignalOnItsWay /\ CountBalances /\ ReadIsCount /\ ApcOnItsWay
  BY <1>1 DEF SuspendInit, SuspensionsCounted, SignalOnItsWay, CountBalances, ReadIsCount,
              ApcOnItsWay
<1> QED
  BY <1>2, <1>3, <1>4 DEF HoldsInv, TakesInv, LockInv

LEMMA ThreadIsHeld ==
  ASSUME [SuspendNext]_suspendVars, SuspendTypeOK
  PROVE  state # "Running" /\ state' = "Running" => suspendCount = 0
<1> SUFFICES ASSUME state # "Running", state' = "Running" PROVE suspendCount = 0
  OBVIOUS
<1>1. suspendCount > 0 \/ suspendCount = 0
  BY DEF SuspendTypeOK
<1>2. RoutineTests
  <2>1. suspendVars' # suspendVars
    BY DEF suspendVars, target
  <2> QED
    BY <2>1 DEF SuspendNext, SuspendBegin, ResumeBegin, Begin, Caller, SuspendCounts,
                SuspendQueues, ResumeNothing, ResumeCounts, ResumeReleases, Signal,
                KeAlertResumeThread, Target, DeliverApc, WaitForSemaphore, AlertedWait,
                WaitAborted, target
<1> QED
  BY <1>1, <1>2 DEF RoutineTests, Loop

\* Until KeAlertResumeThread is called, a thread with a count above zero does not run past its
\* suspension, however often the count wraps; and no early end of a wait lets it go.
THEOREM SuspensionTakes ==
  ASSUME SuspendAssumption
  PROVE  SuspendSpec => []SuspendTypeOK /\ [](~alertResumed => SuspensionTakesHold)
                          /\ LeavesOnlyResumed
<1>1. SuspendInit => TakesInv
  BY SuspendInitHolds DEF HoldsInv
<1>2. TakesInv /\ [SuspendNext]_suspendVars => TakesInv'
  BY TakesStep
<1>3. TakesInv => SuspendTypeOK /\ (~alertResumed => SuspensionTakesHold)
  <2>1. mutex = Nobody /\ Nobody \notin Callers => ~At("SuspendQueue")
    BY DEF At
  <2> QED
    BY <2>1 DEF TakesInv, LockInv, ApcOnItsWay, SuspensionTakesHold, SuspendAssumption
<1>4. TakesInv /\ [SuspendNext]_suspendVars
        => [state # "Running" /\ state' = "Running" => suspendCount = 0]_suspendVars
  BY ThreadIsHeld DEF TakesInv, LockInv
<1> QED
  BY <1>1, <1>2, <1>3, <1>4, PTL DEF SuspendSpec, LeavesOnlyResumed

\* And as long as the count does not wrap, no change of it is lost and none waits at zero.
THEOREM SuspensionHeld ==
  ASSUME SuspendAssumption, MaxCalls < Width
  PROVE  SuspendSpec => SuspensionHolds
<1>1. SuspendInit => HoldsInv
  BY SuspendInitHolds
<1>2. HoldsInv /\ [SuspendNext]_suspendVars => HoldsInv'
  BY HoldsStep
<1>3. HoldsInv => (~alertResumed => CountBalances /\ ZeroUnwaits)
  <2>1. mutex = Nobody => ~At("ResumeRelease")
    BY DEF At, SuspendAssumption
  <2> QED
    BY <2>1 DEF HoldsInv, SignalOnItsWay, ZeroUnwaits
<1>4. SuspendSpec => [](~alertResumed => CountBalances /\ ZeroUnwaits)
  BY <1>1, <1>2, <1>3, PTL DEF SuspendSpec
<1> QED
  BY <1>4, SuspensionTakes, PTL DEF SuspensionHolds
===============================================================================
