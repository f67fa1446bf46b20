-------------------------- MODULE VmThread_proofs --------------------------
(***************************************************************************)
(* Proofs about main()'s command loop and the VM thread, for both engines, *)
(* every limit and every number of pending inputs.                         *)
(***************************************************************************)
EXTENDS VmThread, TLAPS

\* An instruction of a run is begun while the count is at most the limit, so that
\* the count, which follows the instruction, ends at Limit + 1: what the bound in
\* TypeOK rests on.
CountBounded ==
    vm_thread \in {"execute", "reading"} /\ task # "Step" => executed <= Limit

\* Every action keeps the types and the invariant: the only steps that bring
\* the thread into the VM set vm_running, the only step that clears it is the
\* thread's last, and undo begins only when it is clear.
LEMMA ThreadStep ==
    TypeOK /\ ThreadInv /\ CountBounded /\ [Next]_vars
        => TypeOK' /\ ThreadInv' /\ CountBounded'
<1> SUFFICES ASSUME TypeOK, ThreadInv, CountBounded, [Next]_vars
             PROVE  TypeOK' /\ ThreadInv' /\ CountBounded'
  OBVIOUS
<1>0. engine' = engine
  BY DEF Next, vars
<1> USE BoundsAssumption
    DEF TypeOK, ThreadInv, UndoAlone, RunningMarked, CountBounded, InVm, Alive,
        MainState, ThreadState, Task
<1>1. CASE RunCommand
  <2>1. PICK fn \in {"Run", "DebugRun"} : launch_vm_thread(fn)
    BY <1>1 DEF RunCommand
  <2>2. CASE vm_thread # "none"
    BY <1>0, <2>1, <2>2 DEF launch_vm_thread
  <2>3. CASE vm_thread = "none"
    BY <1>0, <2>1, <2>3 DEF launch_vm_thread, Start
  <2> QED
    BY <2>2, <2>3
<1>2. CASE StepCommand
  <2>1. CASE vm_thread # "none"
    BY <1>0, <1>2, <2>1 DEF StepCommand, launch_vm_thread
  <2>2. CASE vm_thread = "none"
    BY <1>0, <1>2, <2>2 DEF StepCommand, launch_vm_thread, Start
  <2> QED
    BY <2>1, <2>2
<1>3. CASE Stop
  BY <1>0, <1>3 DEF Stop
<1>4. CASE UndoBegin
  BY <1>0, <1>4 DEF UndoBegin
<1>5. CASE UndoEnd
  BY <1>0, <1>5 DEF UndoEnd
<1>6. CASE ResetOrLoad
  BY <1>0, <1>6 DEF ResetOrLoad
<1>7. CASE PushInput
  BY <1>0, <1>7 DEF PushInput
<1>8. CASE ExitCommand
  BY <1>0, <1>8 DEF ExitCommand
<1>9. CASE Join
  BY <1>0, <1>9 DEF Join, Start
<1>10. CASE ExitJoin
  BY <1>0, <1>10 DEF ExitJoin
<1>11. CASE DeadClosure
  BY <1>0, <1>11 DEF DeadClosure
<1>12. CASE Begin
  <2>1. CASE task = "Step"
    <3>1. vm_thread' \in {"returned", "execute"}
      BY <1>0, <1>12, <2>1, Zenon DEF Begin
    <3> QED
      BY <1>0, <1>12, <2>1, <3>1 DEF Begin
  <2>2. CASE task # "Step"
    <3>1. stop_requested_' \in BOOLEAN
      BY <1>0, <1>12, <2>2, Zenon DEF Begin
    <3>2. executed' \in 0 .. (Limit + 1)
      BY <1>0, <1>12, <2>2 DEF Begin
    <3> QED
      BY <1>0, <1>12, <2>2, <3>1, <3>2, Zenon DEF Begin
  <2> QED
    BY <2>1, <2>2
<1>13. CASE LoopTest
  BY <1>0, <1>13 DEF LoopTest
<1>14. CASE BreakpointHit
  BY <1>0, <1>14 DEF BreakpointHit
<1>15. CASE Execute
  BY <1>0, <1>15 DEF Execute, Continue
<1>16. CASE ReadBegin
  BY <1>0, <1>16 DEF ReadBegin
<1>17. CASE ReadEnd
  BY <1>0, <1>17 DEF ReadEnd, Continue
<1>18. CASE SyscallExit
  BY <1>0, <1>18 DEF SyscallExit
<1>19. CASE Finish
  BY <1>0, <1>19 DEF Finish
<1>20. CASE UNCHANGED vars
  BY <1>0, <1>20 DEF vars
<1> QED
  BY <1>1, <1>2, <1>3, <1>4, <1>5, <1>6, <1>7, <1>8, <1>9, <1>10, <1>11, <1>12,
     <1>13, <1>14, <1>15, <1>16, <1>17, <1>18, <1>19, <1>20
     DEF Next, Command, Main, Thread

\* The types, the invariant of the flag and the bound of the count together.
LEMMA Inductive == Spec => [](TypeOK /\ ThreadInv /\ CountBounded)
<1>1. Init => TypeOK /\ ThreadInv /\ CountBounded
  <2> SUFFICES ASSUME Init PROVE TypeOK /\ ThreadInv /\ CountBounded
    OBVIOUS
  <2>1. executed \in 0 .. (Limit + 1) /\ input_queue_ \in 0 .. MaxInput
    BY BoundsAssumption DEF Init
  <2>2. vm_thread = "none" /\ main = "ready"
    BY DEF Init
  <2>3. ThreadInv /\ CountBounded
    BY <2>2 DEF ThreadInv, UndoAlone, RunningMarked, CountBounded, InVm
  <2> QED
    BY <2>1, <2>3, Zenon DEF Init, TypeOK, MainState, Task, ThreadState
<1> QED
  BY <1>1, ThreadStep, PTL DEF Spec

\* However the commands and the two threads interleave, main() is never inside undo
\* or redo while the thread is inside a function of the VM, and vm_running, the plain
\* bool that main() tests, is set as long as the thread is.
THEOREM ThreadSafe == Spec => []ThreadInv
BY Inductive, PTL

\* The threads' places and flags keep their types, and the input queue its bound.  A
\* run counts Limit + 1 instructions before the loop's comparison ends it.
THEOREM TypeCorrect == Spec => []TypeOK
BY Inductive, PTL
=============================================================================
