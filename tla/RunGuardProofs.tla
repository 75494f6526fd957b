--------------------------- MODULE RunGuardProofs ---------------------------
(***************************************************************************)
(* Theorems about RunGuard, for any sessions, prompts, aborts and           *)
(* connections: type correctness, mutual exclusion, the agreement of the    *)
(* runs map with the goroutines, the cause of every interruption, and that  *)
(* the guard implements the session lock.                                   *)
(*                                                                          *)
(* None of these is inductive: that finish frees its own slot needs to know *)
(* that the slot still names it (SlotOwned) and that it has a session at    *)
(* all (HolderNamed); that an abort cancels only a run of its session needs *)
(* to know what its target has become meanwhile (TargetNamed).              *)
(***************************************************************************)
EXTENDS RunGuard, TLAPS

\* A prompt that holds a slot was accepted for a real session.
HolderNamed == \A p \in Prompt : pc[p] \in Holding => sess[p] \in Session

\* What abortRun read stays a run of the same session that is either still
\* holding its slot or has ended with its context cancelled.
TargetNamed ==
  \A a \in Abort :
    /\ pc[a] = "abort" => target[a] # None
    /\ target[a] # None =>
         /\ pc[a] \notin {"idle", "received"}
         /\ sess[target[a]] = sess[a]
         /\ \/ pc[target[a]] \in Holding
            \/ pc[target[a]] = "done" /\ target[a] \in cancelled

\* A context exists only from startRun on, and finish cancels before it frees.
CancelledStarted ==
  /\ \A p \in cancelled : pc[p] \in Holding \cup {"done"}
  /\ \A p \in Prompt : pc[p] = "release" => p \in cancelled

\* An abort past its critical step has called what it found, and answers last.
AbortCalled ==
  \A a \in Abort :
    /\ pc[a] \notin {"idle", "received", "abort"} /\ target[a] # None
         => target[a] \in cancelled
    /\ reply[a] # "none" => pc[a] = "done"

\* The inductive invariant.
GuardInv == /\ TypeOK
            /\ SlotOwned
            /\ HolderNamed
            /\ TargetNamed
            /\ CancelledStarted
            /\ AbortCalled
            /\ InterruptHasCause
-----------------------------------------------------------------------------
\* A request that starts has no slot, no target and no context yet.
LEMMA ReceiveInv == ASSUME GuardInv, NEW r \in Request, Receive(r) PROVE GuardInv'
<1>1. TypeOK'
  BY Distinct DEF GuardInv, Receive, Request, Holding, TypeOK, Stage
<1>2. SlotOwned'
  BY Distinct DEF GuardInv, Receive, Request, Holding, TypeOK, SlotOwned, HolderNamed
<1>3. HolderNamed'
  BY Distinct DEF GuardInv, Receive, Request, Holding, TypeOK, HolderNamed
<1>4. TargetNamed'
  BY Distinct DEF GuardInv, Receive, Request, Holding, TypeOK, TargetNamed, CancelledStarted
<1>5. CancelledStarted'
  BY Distinct DEF GuardInv, Receive, Request, Holding, TypeOK, CancelledStarted
<1>6. AbortCalled'
  BY Distinct DEF GuardInv, Receive, Request, Holding, TypeOK, AbortCalled, TargetNamed
<1>7. InterruptHasCause'
  BY Distinct DEF GuardInv, Receive, Request, Holding, TypeOK, InterruptHasCause, CancelledStarted, TargetNamed
<1> QED  BY <1>1, <1>2, <1>3, <1>4, <1>5, <1>6, <1>7 DEF GuardInv

\* Only writes notice a broken connection.
LEMMA BreakInv == ASSUME GuardInv, NEW c \in Conn, Break(c) PROVE GuardInv'
<1>1. TypeOK'
  BY Distinct DEF GuardInv, Break, Request, Holding, TypeOK, Stage
<1>2. SlotOwned'
  BY Distinct DEF GuardInv, Break, Request, Holding, TypeOK, SlotOwned, HolderNamed
<1>3. HolderNamed'
  BY Distinct DEF GuardInv, Break, Request, Holding, TypeOK, HolderNamed
<1>4. TargetNamed'
  BY Distinct DEF GuardInv, Break, Request, Holding, TypeOK, TargetNamed, CancelledStarted
<1>5. CancelledStarted'
  BY Distinct DEF GuardInv, Break, Request, Holding, TypeOK, CancelledStarted
<1>6. AbortCalled'
  BY Distinct DEF GuardInv, Break, Request, Holding, TypeOK, AbortCalled
<1>7. InterruptHasCause'
  BY Distinct DEF GuardInv, Break, Request, Holding, TypeOK, InterruptHasCause, CancelledStarted
<1> QED  BY <1>1, <1>2, <1>3, <1>4, <1>5, <1>6, <1>7 DEF GuardInv

\* Every context of the connection is cancelled; the connection is the cause.
LEMMA ReaderReturnsInv == ASSUME GuardInv, NEW c \in Conn, ReaderReturns(c) PROVE GuardInv'
<1>1. TypeOK'
  BY Distinct DEF GuardInv, ReaderReturns, Derived, Request, Holding, TypeOK, Stage
<1>2. SlotOwned'
  BY Distinct DEF GuardInv, ReaderReturns, Derived, Request, Holding, TypeOK, SlotOwned, HolderNamed
<1>3. HolderNamed'
  BY Distinct DEF GuardInv, ReaderReturns, Derived, Request, Holding, TypeOK, HolderNamed
<1>4. TargetNamed'
  BY Distinct DEF GuardInv, ReaderReturns, Derived, Request, Holding, TypeOK, TargetNamed, CancelledStarted
<1>5. CancelledStarted'
  BY Distinct DEF GuardInv, ReaderReturns, Derived, Request, Holding, TypeOK, CancelledStarted
<1>6. AbortCalled'
  BY Distinct DEF GuardInv, ReaderReturns, Derived, Request, Holding, TypeOK, AbortCalled
<1>7. InterruptHasCause'
  BY Distinct DEF GuardInv, ReaderReturns, Derived, Request, Holding, TypeOK, InterruptHasCause, CancelledStarted
<1> QED  BY <1>1, <1>2, <1>3, <1>4, <1>5, <1>6, <1>7 DEF GuardInv

\* The slot was free, so the new holder is the only one of its session.
LEMMA StartRunInv == ASSUME GuardInv, NEW p \in Prompt, StartRun(p) PROVE GuardInv'
<1>1. TypeOK'
  BY Distinct DEF GuardInv, StartRun, Request, Holding, TypeOK, Stage
<1>2. SlotOwned'
  BY Distinct DEF GuardInv, StartRun, Request, Holding, TypeOK, SlotOwned, HolderNamed
<1>3. HolderNamed'
  BY Distinct DEF GuardInv, StartRun, Request, Holding, TypeOK, HolderNamed
<1>4. TargetNamed'
  BY Distinct DEF GuardInv, StartRun, Request, Holding, TypeOK, TargetNamed, CancelledStarted
<1>5. CancelledStarted'
  BY Distinct DEF GuardInv, StartRun, Request, Holding, TypeOK, CancelledStarted
<1>6. AbortCalled'
  BY Distinct DEF GuardInv, StartRun, Request, Holding, TypeOK, AbortCalled
<1>7. InterruptHasCause'
  BY Distinct DEF GuardInv, StartRun, Request, Holding, TypeOK, InterruptHasCause, CancelledStarted
<1> QED  BY <1>1, <1>2, <1>3, <1>4, <1>5, <1>6, <1>7 DEF GuardInv

\* A refused prompt never held a slot.
LEMMA RefuseRunInv == ASSUME GuardInv, NEW p \in Prompt, RefuseRun(p) PROVE GuardInv'
<1>1. TypeOK'
  BY Distinct DEF GuardInv, RefuseRun, Request, Holding, TypeOK, Stage
<1>2. SlotOwned'
  BY Distinct DEF GuardInv, RefuseRun, Request, Holding, TypeOK, SlotOwned, HolderNamed
<1>3. HolderNamed'
  BY Distinct DEF GuardInv, RefuseRun, Request, Holding, TypeOK, HolderNamed
<1>4. TargetNamed'
  BY Distinct DEF GuardInv, RefuseRun, Request, Holding, TypeOK, TargetNamed, CancelledStarted
<1>5. CancelledStarted'
  BY Distinct DEF GuardInv, RefuseRun, Request, Holding, TypeOK, CancelledStarted
<1>6. AbortCalled'
  BY Distinct DEF GuardInv, RefuseRun, Request, Holding, TypeOK, AbortCalled
<1>7. InterruptHasCause'
  BY Distinct DEF GuardInv, RefuseRun, Request, Holding, TypeOK, InterruptHasCause, CancelledStarted
<1> QED  BY <1>1, <1>2, <1>3, <1>4, <1>5, <1>6, <1>7 DEF GuardInv

\* No finish is deferred for a refused prompt.
LEMMA WriteRefusalInv == ASSUME GuardInv, NEW p \in Prompt, WriteRefusal(p) PROVE GuardInv'
<1>1. TypeOK'
  BY Distinct DEF GuardInv, WriteRefusal, Request, Holding, TypeOK, Stage
<1>2. SlotOwned'
  BY Distinct DEF GuardInv, WriteRefusal, Request, Holding, TypeOK, SlotOwned, HolderNamed
<1>3. HolderNamed'
  BY Distinct DEF GuardInv, WriteRefusal, Request, Holding, TypeOK, HolderNamed
<1>4. TargetNamed'
  BY Distinct DEF GuardInv, WriteRefusal, Request, Holding, TypeOK, TargetNamed, CancelledStarted
<1>5. CancelledStarted'
  BY Distinct DEF GuardInv, WriteRefusal, Request, Holding, TypeOK, CancelledStarted
<1>6. AbortCalled'
  BY Distinct DEF GuardInv, WriteRefusal, Request, Holding, TypeOK, AbortCalled
<1>7. InterruptHasCause'
  BY Distinct DEF GuardInv, WriteRefusal, Request, Holding, TypeOK, InterruptHasCause, CancelledStarted
<1> QED  BY <1>1, <1>2, <1>3, <1>4, <1>5, <1>6, <1>7 DEF GuardInv

\* What is read is the holder of the session of the abort.
LEMMA AbortReadInv == ASSUME GuardInv, NEW a \in Abort, AbortRead(a) PROVE GuardInv'
<1>1. TypeOK'
  BY Distinct DEF GuardInv, AbortRead, SlotOf, Request, Holding, TypeOK, Stage
<1>2. SlotOwned'
  BY Distinct DEF GuardInv, AbortRead, SlotOf, Request, Holding, TypeOK, SlotOwned, HolderNamed
<1>3. HolderNamed'
  BY Distinct DEF GuardInv, AbortRead, SlotOf, Request, Holding, TypeOK, HolderNamed
<1>4. TargetNamed'
  BY Distinct DEF GuardInv, AbortRead, SlotOf, Request, Holding, TypeOK, TargetNamed, CancelledStarted, SlotOwned, HolderNamed
<1>5. CancelledStarted'
  BY Distinct DEF GuardInv, AbortRead, SlotOf, Request, Holding, TypeOK, CancelledStarted
<1>6. AbortCalled'
  BY Distinct DEF GuardInv, AbortRead, SlotOf, Request, Holding, TypeOK, AbortCalled
<1>7. InterruptHasCause'
  BY Distinct DEF GuardInv, AbortRead, SlotOf, Request, Holding, TypeOK, InterruptHasCause, CancelledStarted, TargetNamed, AbortCalled
<1> QED  BY <1>1, <1>2, <1>3, <1>4, <1>5, <1>6, <1>7 DEF GuardInv

\* The target held the slot of this session when it was read.
LEMMA AbortCancelInv == ASSUME GuardInv, NEW a \in Abort, AbortCancel(a) PROVE GuardInv'
<1>1. TypeOK'
  BY Distinct DEF GuardInv, AbortCancel, Request, Holding, TypeOK, Stage, TargetNamed
<1>2. SlotOwned'
  BY Distinct DEF GuardInv, AbortCancel, Request, Holding, TypeOK, SlotOwned, HolderNamed
<1>3. HolderNamed'
  BY Distinct DEF GuardInv, AbortCancel, Request, Holding, TypeOK, HolderNamed
<1>4. TargetNamed'
  BY Distinct DEF GuardInv, AbortCancel, Request, Holding, TypeOK, TargetNamed, CancelledStarted
<1>5. CancelledStarted'
  BY Distinct DEF GuardInv, AbortCancel, Request, Holding, TypeOK, CancelledStarted, TargetNamed
<1>6. AbortCalled'
  BY Distinct DEF GuardInv, AbortCancel, Request, Holding, TypeOK, AbortCalled, TargetNamed
<1>7. InterruptHasCause'
  BY Distinct DEF GuardInv, AbortCancel, Request, Holding, TypeOK, InterruptHasCause, CancelledStarted, TargetNamed
<1> QED  BY <1>1, <1>2, <1>3, <1>4, <1>5, <1>6, <1>7 DEF GuardInv

\* A run inside a call that does not look at its context holds its slot.
LEMMA EnterBlindInv == ASSUME GuardInv, NEW p \in Prompt, EnterBlind(p) PROVE GuardInv'
<1>1. TypeOK'
  BY Distinct DEF GuardInv, EnterBlind, Request, Holding, TypeOK, Stage
<1>2. SlotOwned'
  BY Distinct DEF GuardInv, EnterBlind, Request, Holding, TypeOK, SlotOwned, HolderNamed
<1>3. HolderNamed'
  BY Distinct DEF GuardInv, EnterBlind, Request, Holding, TypeOK, HolderNamed
<1>4. TargetNamed'
  BY Distinct DEF GuardInv, EnterBlind, Request, Holding, TypeOK, TargetNamed, CancelledStarted
<1>5. CancelledStarted'
  BY Distinct DEF GuardInv, EnterBlind, Request, Holding, TypeOK, CancelledStarted
<1>6. AbortCalled'
  BY Distinct DEF GuardInv, EnterBlind, Request, Holding, TypeOK, AbortCalled
<1>7. InterruptHasCause'
  BY Distinct DEF GuardInv, EnterBlind, Request, Holding, TypeOK, InterruptHasCause, CancelledStarted
<1> QED  BY <1>1, <1>2, <1>3, <1>4, <1>5, <1>6, <1>7 DEF GuardInv

\* It holds it when the call is over.
LEMMA LeaveBlindInv == ASSUME GuardInv, NEW p \in Prompt, LeaveBlind(p) PROVE GuardInv'
<1>1. TypeOK'
  BY Distinct DEF GuardInv, LeaveBlind, Request, Holding, TypeOK, Stage
<1>2. SlotOwned'
  BY Distinct DEF GuardInv, LeaveBlind, Request, Holding, TypeOK, SlotOwned, HolderNamed
<1>3. HolderNamed'
  BY Distinct DEF GuardInv, LeaveBlind, Request, Holding, TypeOK, HolderNamed
<1>4. TargetNamed'
  BY Distinct DEF GuardInv, LeaveBlind, Request, Holding, TypeOK, TargetNamed, CancelledStarted
<1>5. CancelledStarted'
  BY Distinct DEF GuardInv, LeaveBlind, Request, Holding, TypeOK, CancelledStarted
<1>6. AbortCalled'
  BY Distinct DEF GuardInv, LeaveBlind, Request, Holding, TypeOK, AbortCalled
<1>7. InterruptHasCause'
  BY Distinct DEF GuardInv, LeaveBlind, Request, Holding, TypeOK, InterruptHasCause, CancelledStarted
<1> QED  BY <1>1, <1>2, <1>3, <1>4, <1>5, <1>6, <1>7 DEF GuardInv

\* A run that ends its command keeps its slot.
LEMMA CommandReturnsInv == ASSUME GuardInv, NEW r \in Request, CommandReturns(r) PROVE GuardInv'
<1>1. TypeOK'
  BY Distinct DEF GuardInv, CommandReturns, Request, Holding, TypeOK, Stage
<1>2. SlotOwned'
  BY Distinct DEF GuardInv, CommandReturns, Request, Holding, TypeOK, SlotOwned, HolderNamed
<1>3. HolderNamed'
  BY Distinct DEF GuardInv, CommandReturns, Request, Holding, TypeOK, HolderNamed
<1>4. TargetNamed'
  BY Distinct DEF GuardInv, CommandReturns, Request, Holding, TypeOK, TargetNamed, CancelledStarted
<1>5. CancelledStarted'
  BY Distinct DEF GuardInv, CommandReturns, Request, Holding, TypeOK, CancelledStarted
<1>6. AbortCalled'
  BY Distinct DEF GuardInv, CommandReturns, Request, Holding, TypeOK, AbortCalled
<1>7. InterruptHasCause'
  BY Distinct DEF GuardInv, CommandReturns, Request, Holding, TypeOK, InterruptHasCause, CancelledStarted
<1> QED  BY <1>1, <1>2, <1>3, <1>4, <1>5, <1>6, <1>7 DEF GuardInv

\* A write keeps the slot, also when it fails.
LEMMA WriteSnapshotInv == ASSUME GuardInv, NEW r \in Request, WriteSnapshot(r) PROVE GuardInv'
<1>1. TypeOK'
  BY Distinct DEF GuardInv, WriteSnapshot, AfterReturn, Request, Holding, TypeOK, Stage
<1>2. SlotOwned'
  BY Distinct DEF GuardInv, WriteSnapshot, AfterReturn, Request, Holding, TypeOK, SlotOwned, HolderNamed
<1>3. HolderNamed'
  BY Distinct DEF GuardInv, WriteSnapshot, AfterReturn, Request, Holding, TypeOK, HolderNamed
<1>4. TargetNamed'
  BY Distinct DEF GuardInv, WriteSnapshot, AfterReturn, Request, Holding, TypeOK, TargetNamed, CancelledStarted
<1>5. CancelledStarted'
  BY Distinct DEF GuardInv, WriteSnapshot, AfterReturn, Request, Holding, TypeOK, CancelledStarted
<1>6. AbortCalled'
  BY Distinct DEF GuardInv, WriteSnapshot, AfterReturn, Request, Holding, TypeOK, AbortCalled
<1>7. InterruptHasCause'
  BY Distinct DEF GuardInv, WriteSnapshot, AfterReturn, Request, Holding, TypeOK, InterruptHasCause, CancelledStarted
<1> QED  BY <1>1, <1>2, <1>3, <1>4, <1>5, <1>6, <1>7 DEF GuardInv

\* The answer comes before the slot is freed.
LEMMA WriteResponseInv == ASSUME GuardInv, NEW r \in Request, WriteResponse(r) PROVE GuardInv'
<1>1. TypeOK'
  BY Distinct DEF GuardInv, WriteResponse, AfterReturn, Request, Holding, TypeOK, Stage
<1>2. SlotOwned'
  BY Distinct DEF GuardInv, WriteResponse, AfterReturn, Request, Holding, TypeOK, SlotOwned, HolderNamed
<1>3. HolderNamed'
  BY Distinct DEF GuardInv, WriteResponse, AfterReturn, Request, Holding, TypeOK, HolderNamed
<1>4. TargetNamed'
  BY Distinct DEF GuardInv, WriteResponse, AfterReturn, Request, Holding, TypeOK, TargetNamed, CancelledStarted
<1>5. CancelledStarted'
  BY Distinct DEF GuardInv, WriteResponse, AfterReturn, Request, Holding, TypeOK, CancelledStarted
<1>6. AbortCalled'
  BY Distinct DEF GuardInv, WriteResponse, AfterReturn, Request, Holding, TypeOK, AbortCalled
<1>7. InterruptHasCause'
  BY Distinct DEF GuardInv, WriteResponse, AfterReturn, Request, Holding, TypeOK, InterruptHasCause, CancelledStarted
<1> QED  BY <1>1, <1>2, <1>3, <1>4, <1>5, <1>6, <1>7 DEF GuardInv

\* finish cancels its own context.
LEMMA FinishCancelInv == ASSUME GuardInv, NEW p \in Prompt, FinishCancel(p) PROVE GuardInv'
<1>1. TypeOK'
  BY Distinct DEF GuardInv, FinishCancel, Request, Holding, TypeOK, Stage
<1>2. SlotOwned'
  BY Distinct DEF GuardInv, FinishCancel, Request, Holding, TypeOK, SlotOwned, HolderNamed
<1>3. HolderNamed'
  BY Distinct DEF GuardInv, FinishCancel, Request, Holding, TypeOK, HolderNamed
<1>4. TargetNamed'
  BY Distinct DEF GuardInv, FinishCancel, Request, Holding, TypeOK, TargetNamed, CancelledStarted
<1>5. CancelledStarted'
  BY Distinct DEF GuardInv, FinishCancel, Request, Holding, TypeOK, CancelledStarted
<1>6. AbortCalled'
  BY Distinct DEF GuardInv, FinishCancel, Request, Holding, TypeOK, AbortCalled
<1>7. InterruptHasCause'
  BY Distinct DEF GuardInv, FinishCancel, Request, Holding, TypeOK, InterruptHasCause, CancelledStarted
<1> QED  BY <1>1, <1>2, <1>3, <1>4, <1>5, <1>6, <1>7 DEF GuardInv

\* The slot that is freed is the one of the prompt that frees it.
LEMMA FinishDeleteInv == ASSUME GuardInv, NEW p \in Prompt, FinishDelete(p) PROVE GuardInv'
<1>1. TypeOK'
  BY Distinct DEF GuardInv, FinishDelete, Request, Holding, TypeOK, Stage
<1>2. SlotOwned'
  BY Distinct DEF GuardInv, FinishDelete, Request, Holding, TypeOK, SlotOwned, HolderNamed
<1>3. HolderNamed'
  BY Distinct DEF GuardInv, FinishDelete, Request, Holding, TypeOK, HolderNamed
<1>4. TargetNamed'
  BY Distinct DEF GuardInv, FinishDelete, Request, Holding, TypeOK, TargetNamed, CancelledStarted
<1>5. CancelledStarted'
  BY Distinct DEF GuardInv, FinishDelete, Request, Holding, TypeOK, CancelledStarted
<1>6. AbortCalled'
  BY Distinct DEF GuardInv, FinishDelete, Request, Holding, TypeOK, AbortCalled
<1>7. InterruptHasCause'
  BY Distinct DEF GuardInv, FinishDelete, Request, Holding, TypeOK, InterruptHasCause, CancelledStarted
<1> QED  BY <1>1, <1>2, <1>3, <1>4, <1>5, <1>6, <1>7 DEF GuardInv

-----------------------------------------------------------------------------
(* The invariant.                                                           *)

\* It holds before the first request.
LEMMA InitInv == Init => GuardInv
<1> SUFFICES ASSUME Init PROVE GuardInv
  OBVIOUS
<1>1. TypeOK
  BY DEF Init, TypeOK, Stage, Holding
<1>2. \A r \in Request : pc[r] = "idle"
  BY DEF Init
<1>3. SlotOwned /\ HolderNamed /\ CancelledStarted /\ InterruptHasCause
  BY <1>2, Distinct DEF Init, Request, Holding, SlotOwned, HolderNamed,
     CancelledStarted, InterruptHasCause
<1>4. TargetNamed /\ AbortCalled
  BY <1>2 DEF Init, Request, TargetNamed, AbortCalled
<1> QED  BY <1>1, <1>3, <1>4 DEF GuardInv

\* Every step keeps it, one lemma per action.
LEMMA StepInv == GuardInv /\ [Next]_vars => GuardInv'
<1> SUFFICES ASSUME GuardInv, [Next]_vars PROVE GuardInv'
  OBVIOUS
<1>1. ASSUME NEW r \in Request, Receive(r) \/ CommandReturns(r) \/ AnswerStep(r)
      PROVE  GuardInv'
  BY <1>1, ReceiveInv, CommandReturnsInv, WriteSnapshotInv, WriteResponseInv DEF AnswerStep
<1>2. ASSUME NEW p \in Prompt, PromptStep(p) \/ EnterBlind(p) \/ LeaveBlind(p)
      PROVE  GuardInv'
  BY <1>2, EnterBlindInv, LeaveBlindInv, StartRunInv, RefuseRunInv, WriteRefusalInv, FinishCancelInv, FinishDeleteInv
     DEF PromptStep
<1>3. ASSUME NEW a \in Abort, AbortStep(a)
      PROVE  GuardInv'
  BY <1>3, AbortReadInv, AbortCancelInv DEF AbortStep
<1>4. ASSUME NEW c \in Conn, Break(c) \/ ReaderReturns(c)
      PROVE  GuardInv'
  BY <1>4, BreakInv, ReaderReturnsInv
<1>5. CASE UNCHANGED vars
  BY <1>5 DEF vars, GuardInv, TypeOK, SlotOwned, HolderNamed, TargetNamed,
     CancelledStarted, AbortCalled, InterruptHasCause
<1> QED  BY <1>1, <1>2, <1>3, <1>4, <1>5 DEF Next

\* So it holds throughout.
LEMMA InvHolds == Spec => []GuardInv
<1> QED  BY InitInv, StepInv, PTL DEF Spec

\* The state of the guard and of its goroutines keeps its types; no nil
\* cancel function is ever called.
THEOREM TypeCorrect == Spec => []TypeOK
<1>1. GuardInv => TypeOK
  BY DEF GuardInv
<1> QED  BY <1>1, InvHolds, PTL

\* The runs map always names exactly the prompts that hold their sessions
\* (startRun, finish).
THEOREM SlotsAgree == Spec => []SlotOwned
<1>1. GuardInv => SlotOwned
  BY DEF GuardInv
<1> QED  BY <1>1, InvHolds, PTL

\* No session ever runs two prompts at once: both would be named by the one
\* slot of the session.
THEOREM MutualExclusion == Spec => []RunMutex
<1>1. GuardInv => RunMutex
  BY DEF GuardInv, SlotOwned, HolderNamed, RunMutex
<1> QED  BY <1>1, InvHolds, PTL

\* A run is interrupted only by its own connection or by an abort that found
\* it in the slot of the session it names.
THEOREM InterruptsHaveCause == Spec => []InterruptHasCause
<1>1. GuardInv => InterruptHasCause
  BY DEF GuardInv
<1> QED  BY <1>1, InvHolds, PTL

\* An abort that is answered has cancelled what it found.
THEOREM AbortsCancel == Spec => []AbortedIsCancelled
<1>1. GuardInv => AbortedIsCancelled
  BY DEF GuardInv, AbortCalled, AbortedIsCancelled
<1> QED  BY <1>1, InvHolds, PTL

-----------------------------------------------------------------------------
(* The session lock.                                                        *)

\* The holder read off the goroutines is the entry of the map.
LEMMA HolderIsSlot == ASSUME GuardInv PROVE \A s \in Session : HolderOf(s) = runs[s]
<1> TAKE s \in Session
<1>1. runs[s] \in Prompt \cup {None}
  BY DEF GuardInv, TypeOK
<1>2. \A p \in Prompt : (pc[p] \in Holding /\ sess[p] = s) <=> p = runs[s]
  BY DEF GuardInv, SlotOwned
<1>3. CASE runs[s] = None
  <2>1. ~ \E p \in Prompt : pc[p] \in Holding /\ sess[p] = s
    BY <1>2, <1>3, Distinct
  <2> QED  BY <2>1, <1>3 DEF HolderOf
<1>4. CASE runs[s] \in Prompt
  <2>1. \E p \in Prompt : pc[p] \in Holding /\ sess[p] = s
    BY <1>2, <1>4
  <2>2. (CHOOSE p \in Prompt : pc[p] \in Holding /\ sess[p] = s) = runs[s]
    BY <1>2, <2>1
  <2> QED  BY <2>1, <2>2 DEF HolderOf
<1> QED  BY <1>1, <1>3, <1>4

\* The abstract holders, as a function.
HolderMap == [s \in Session |-> HolderOf(s)]

\* They are the entries of Server.runs.
MapAgrees == HolderMap = runs

\* Under the invariant the map is the abstract holder function, in both states
\* of a step.
LEMMA HolderMapIsRuns == GuardInv => MapAgrees
<1> SUFFICES ASSUME GuardInv PROVE HolderMap = runs
  BY DEF MapAgrees
<1>1. runs = [s \in Session |-> runs[s]]
  BY DEF GuardInv, TypeOK
<1> QED  BY <1>1, HolderIsSlot DEF HolderMap

LEMMA HolderMapIsRunsNext == GuardInv' => MapAgrees'
<1> QED  BY HolderMapIsRuns, PTL

\* startRun: the slot was free, and p has neither held nor given up a session.
LEMMA AcquireStep ==
  ASSUME GuardInv, GuardInv', NEW p \in Prompt, StartRun(p)
  PROVE  Lock!Acquire(sess[p], p)
<1>1. HolderMap = runs /\ HolderMap' = runs'
  BY HolderMapIsRuns, HolderMapIsRunsNext DEF MapAgrees
<1>2. p \notin Finished /\ Finished' = Finished
  BY DEF GuardInv, TypeOK, StartRun, Finished, Holding, Request, CancelledStarted
<1>3. \A t \in Session : runs[t] # p
  BY DEF GuardInv, SlotOwned, StartRun, Holding
<1>4. cancelled' \in {cancelled, cancelled \cup {p}}
  BY DEF StartRun
<1>5. sess[p] \in Session /\ runs[sess[p]] = None /\ runs' = [runs EXCEPT ![sess[p]] = p]
  BY DEF GuardInv, TypeOK, StartRun, Request
<1> QED  BY <1>1, <1>2, <1>3, <1>4, <1>5 DEF Lock!Acquire, HolderMap

\* finish, its delete: the slot is that of p and p is cancelled by then.
LEMMA ReleaseStep ==
  ASSUME GuardInv, GuardInv', NEW p \in Prompt, FinishDelete(p)
  PROVE  Lock!Release(sess[p], p)
<1>1. HolderMap = runs /\ HolderMap' = runs'
  BY HolderMapIsRuns, HolderMapIsRunsNext DEF MapAgrees
<1>2. Finished' = Finished \cup {p}
  BY DEF GuardInv, TypeOK, FinishDelete, Finished, Request, CancelledStarted
<1>3. sess[p] \in Session /\ runs[sess[p]] = p
  BY DEF GuardInv, HolderNamed, SlotOwned, FinishDelete, Holding
<1>4. p \in cancelled /\ cancelled' = cancelled
  BY DEF GuardInv, CancelledStarted, FinishDelete
<1>5. runs' = [runs EXCEPT ![sess[p]] = None]
  BY DEF FinishDelete
<1> QED  BY <1>1, <1>2, <1>3, <1>4, <1>5 DEF Lock!Release, HolderMap

\* Any step that moves no slot and cancels only contexts of holders.
LEMMA StopStep ==
  ASSUME GuardInv, GuardInv', runs' = runs, Finished' = Finished,
         NEW R \in SUBSET Prompt, cancelled' = cancelled \cup R,
         \A p \in R : pc[p] \in Holding
  PROVE  Lock!Stop
<1>1. HolderMap = runs /\ HolderMap' = runs'
  BY HolderMapIsRuns, HolderMapIsRunsNext DEF MapAgrees
<1>2. \A p \in R : \E s \in Session : HolderMap[s] = p
  BY <1>1 DEF GuardInv, HolderNamed, SlotOwned
<1> QED  BY <1>1, <1>2 DEF Lock!Stop, HolderMap

\* Every step of the guard is a step of the lock or changes nothing there.
LEMMA LockStep == GuardInv /\ GuardInv' /\ [Next]_vars => [Lock!Next]_(Lock!lockVars)
<1> SUFFICES ASSUME GuardInv, GuardInv', [Next]_vars
             PROVE  [Lock!Next]_(Lock!lockVars)
  OBVIOUS
<1> DEFINE Same == runs' = runs /\ cancelled' = cancelled /\ Finished' = Finished
<1>0. ASSUME Same PROVE UNCHANGED Lock!lockVars
  BY <1>0, HolderMapIsRuns, HolderMapIsRunsNext DEF MapAgrees, Lock!lockVars, HolderMap
<1>1. ASSUME NEW r \in Request, Receive(r) \/ CommandReturns(r) \/ AnswerStep(r)
      PROVE  Same
  BY <1>1, Distinct DEF Receive, CommandReturns, AnswerStep, WriteSnapshot, WriteResponse,
     AfterReturn, Finished, GuardInv, TypeOK, Request
<1>2. ASSUME NEW p \in Prompt,
             RefuseRun(p) \/ WriteRefusal(p) \/ EnterBlind(p) \/ LeaveBlind(p)
      PROVE  Same
  BY <1>2 DEF RefuseRun, WriteRefusal, EnterBlind, LeaveBlind, Finished, GuardInv, TypeOK, Request, Holding,
     CancelledStarted
<1>3. ASSUME NEW p \in Prompt, StartRun(p)
      PROVE  Lock!Next
  <2>1. sess[p] \in Session
    BY <1>3 DEF StartRun, GuardInv, TypeOK, Request
  <2> QED  BY <2>1, <1>3, AcquireStep DEF Lock!Next
<1>4. ASSUME NEW p \in Prompt, FinishDelete(p)
      PROVE  Lock!Next
  <2>1. sess[p] \in Session
    BY <1>4 DEF FinishDelete, GuardInv, HolderNamed, Holding
  <2> QED  BY <2>1, <1>4, ReleaseStep DEF Lock!Next
<1>5. ASSUME NEW p \in Prompt, FinishCancel(p)
      PROVE  Lock!Stop
  <2>1. runs' = runs /\ Finished' = Finished /\ cancelled' = cancelled \cup {p}
    BY <1>5 DEF FinishCancel, Finished, GuardInv, TypeOK, Request
  <2>2. {p} \in SUBSET Prompt /\ \A q \in {p} : pc[q] \in Holding
    BY <1>5 DEF FinishCancel, Holding
  <2> QED  BY <2>1, <2>2, StopStep
<1>6. ASSUME NEW a \in Abort, AbortRead(a)
      PROVE  Same
  BY <1>6, Distinct DEF AbortRead, Finished, GuardInv, TypeOK, Request
<1>7. ASSUME NEW a \in Abort, AbortCancel(a)
      PROVE  [Lock!Next]_(Lock!lockVars)
  <2>1. runs' = runs /\ target[a] \in Prompt
    BY <1>7 DEF AbortCancel, GuardInv, TypeOK, TargetNamed
  <2>2. CASE pc[target[a]] \in Holding
    <3>1. Finished' = Finished /\ cancelled' = cancelled \cup {target[a]}
      BY <1>7, <2>1, <2>2, Distinct DEF AbortCancel, Finished, GuardInv, TypeOK, Request, Holding
    <3>2. {target[a]} \in SUBSET Prompt /\ \A q \in {target[a]} : pc[q] \in Holding
      BY <2>1, <2>2
    <3> QED  BY <2>1, <3>1, <3>2, StopStep DEF Lock!Next
  <2>3. CASE target[a] \in cancelled
    <3>1. Same
      BY <1>7, <2>1, <2>3, Distinct DEF AbortCancel, Finished, GuardInv, TypeOK, Request
    <3> QED  BY <1>0, <3>1
  <2> QED  BY <1>7, <2>1, <2>2, <2>3 DEF AbortCancel, GuardInv, TargetNamed
<1>8. ASSUME NEW c \in Conn, Break(c)
      PROVE  Same
  BY <1>8 DEF Break, Finished
<1>9. ASSUME NEW c \in Conn, ReaderReturns(c)
      PROVE  Lock!Stop
  <2>1. runs' = runs /\ cancelled' = cancelled \cup Derived(c)
    BY <1>9 DEF ReaderReturns
  <2>2. Derived(c) \in SUBSET Prompt /\ \A p \in Derived(c) : pc[p] \in Holding
    BY DEF Derived
  <2>3. Finished' = Finished
    BY <1>9 DEF ReaderReturns, Derived, Finished, Holding
  <2> QED  BY <2>1, <2>2, <2>3, StopStep
<1>10. CASE UNCHANGED vars
  BY <1>10, <1>0 DEF vars, Finished
<1> QED  BY <1>0, <1>1, <1>2, <1>3, <1>4, <1>5, <1>6, <1>7, <1>8, <1>9, <1>10
         DEF Next, PromptStep, AbortStep, Lock!Next

\* No goroutine runs at first, so no session has a holder.
LEMMA LockInit == Init => Lock!Init
<1> SUFFICES ASSUME Init PROVE Lock!Init
  OBVIOUS
<1>1. HolderMap = runs
  BY InitInv, HolderMapIsRuns DEF MapAgrees
<1>2. Finished = {}
  BY DEF Init, Finished
<1> QED  BY <1>1, <1>2 DEF Init, Lock!Init, HolderMap

\* The guard, its map, its goroutines and their connections implement the
\* session lock: startRun acquires, finish releases, and abort, disconnect
\* and finish tell only holders to stop.
THEOREM ImplementsLock == Spec => LockSpec
<1> QED  BY LockInit, LockStep, InvHolds, PTL DEF Spec, LockSpec, Lock!Spec
=============================================================================
