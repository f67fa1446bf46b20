------------------------------ MODULE VmThread ------------------------------
(***************************************************************************)
(* main()'s command loop and the thread on which it runs the VM.           *)
(*                                                                         *)
(* Two threads share stop_requested_ (atomic), vm_running (a plain bool),  *)
(* the input queue (under input_mutex_) and, without any lock, the VM.     *)
(* The program that runs is abstracted to what the two threads can tell of *)
(* it: whether the pc is past its end, and whether the next instruction is *)
(* an ecall that waits for input or ends the process.                      *)
(*                                                                         *)
(* Commands that only print or dump are left out; so are add_breakpoint and*)
(* remove_breakpoint (a breakpoint may or may not be at the pc).           *)
(***************************************************************************)
EXTENDS Naturals

CONSTANTS
    Limit,     \* instruction_execution_limit
    MaxInput   \* bound on the length of input_queue_

ASSUME BoundsAssumption == Limit \in Nat /\ MaxInput \in Nat

VARIABLES
    engine,          \* the class of *vm_ptr, chosen by the command line
    main,            \* where main() is: see MainState
    next_task,       \* what launch_vm_thread will start once it has joined
    vm_thread,       \* where the VM thread is: see ThreadState
    task,            \* the function that the VM thread calls
    vm_running,
    stop_requested_,
    executed,        \* instruction_executed
    at_end,          \* nothing left to fetch (and, RV5S, nothing in flight)
    input_queue_     \* its length

vars == <<engine, main, next_task, vm_thread, task, vm_running, stop_requested_, executed,
          at_end, input_queue_>>

Task == {"Run", "DebugRun", "Step"}

\* ready: waiting for a command; undoing: inside Undo or Redo; joining: in
\* launch_vm_thread's join; exiting: in exit's join; crashed: see DeadClosure.
MainState == {"ready", "undoing", "joining", "exiting", "exited", "crashed"}

\* none: not joinable; started: before fn's first statement; test: at the
\* head of a loop; execute: about to execute an instruction; reading: waits
\* for input_queue_; returned: fn has returned; finished: to be joined.
ThreadState == {"none", "started", "test", "execute", "reading", "returned",
                "finished"}

Alive == main \notin {"exited", "crashed"}
-----------------------------------------------------------------------------
\* Commands.

\* A faulty Start that marks the VM as running after it has created the thread.
StartUnmarked(fn) ==
    /\ vm_thread' = "started"
    /\ task' = fn
    /\ main' = "ready"
    /\ UNCHANGED <<vm_running, executed>>

\* The end of launch_vm_thread: the previous thread, if any, has been joined.
Start(fn) ==
    /\ vm_running' = TRUE
    /\ vm_thread' = "started"
    /\ task' = fn
    /\ main' = "ready"
    /\ UNCHANGED executed

launch_vm_thread(fn) ==
    /\ main = "ready"
    /\ IF vm_thread # "none"
       THEN /\ stop_requested_' = TRUE
            /\ main' = "joining"
            /\ next_task' = fn
            /\ UNCHANGED <<vm_thread, task, vm_running, executed>>
       ELSE Start(fn) /\ UNCHANGED <<stop_requested_, next_task>>
    /\ UNCHANGED <<at_end, input_queue_>>

RunCommand == \E fn \in {"Run", "DebugRun"} : launch_vm_thread(fn)

StepCommand == ~vm_running /\ launch_vm_thread("Step")

Join ==
    /\ main = "joining"
    /\ vm_thread = "finished"
    /\ Start(next_task)
    /\ UNCHANGED <<next_task, stop_requested_, at_end, input_queue_>>

Stop ==
    /\ main = "ready"
    /\ stop_requested_' = TRUE
    /\ UNCHANGED <<main, next_task, vm_thread, task, vm_running, executed, at_end,
                   input_queue_>>

\* Undo and Redo; only the single-cycle engine changes anything.
UndoBegin ==
    /\ main = "ready"
    /\ ~vm_running
    /\ main' = "undoing"
    /\ UNCHANGED <<next_task, vm_thread, task, vm_running, stop_requested_, executed,
                   at_end, input_queue_>>

UndoEnd ==
    /\ main = "undoing"
    /\ main' = "ready"
    /\ at_end' \in IF engine = "RVSS" THEN BOOLEAN ELSE {at_end}
    /\ UNCHANGED <<next_task, vm_thread, task, vm_running, stop_requested_, executed,
                   input_queue_>>

\* Reset and load, which do not look at vm_running.
ResetOrLoad ==
    /\ main = "ready"
    /\ at_end' \in BOOLEAN
    /\ UNCHANGED <<main, next_task, vm_thread, task, vm_running, stop_requested_,
                   executed, input_queue_>>

PushInput ==
    /\ main = "ready"
    /\ input_queue_ < MaxInput
    /\ input_queue_' = input_queue_ + 1
    /\ UNCHANGED <<main, next_task, vm_thread, task, vm_running, stop_requested_,
                   executed, at_end>>

ExitCommand ==
    /\ main = "ready"
    /\ stop_requested_' = TRUE
    /\ main' = IF vm_thread # "none" THEN "exiting" ELSE "exited"
    /\ UNCHANGED <<next_task, vm_thread, task, vm_running, executed, at_end,
                   input_queue_>>

ExitJoin ==
    /\ main = "exiting"
    /\ vm_thread = "finished"
    /\ main' = "exited"
    /\ vm_thread' = "none"
    /\ UNCHANGED <<next_task, task, vm_running, stop_requested_, executed, at_end,
                   input_queue_>>
-----------------------------------------------------------------------------
\* The VM thread.

\* The thread calls fn through a reference to a parameter of launch_vm_thread,
\* which has returned: it may find the closure intact (Begin) or overwritten.
DeadClosure ==
    /\ Alive
    /\ vm_thread = "started"
    /\ main' = "crashed"
    /\ UNCHANGED <<next_task, vm_thread, task, vm_running, stop_requested_, executed,
                   at_end, input_queue_>>

\* Run and DebugRun clear the stop flag first, whoever has set it; Step does not.
Begin ==
    /\ Alive
    /\ vm_thread = "started"
    /\ IF task = "Step"
       THEN /\ vm_thread' = IF at_end THEN "returned" ELSE "execute"
            /\ UNCHANGED <<stop_requested_, executed>>
       ELSE /\ vm_thread' = "test"
            /\ stop_requested_' = FALSE
            /\ executed' = 0
    /\ UNCHANGED <<main, next_task, task, vm_running, at_end, input_queue_>>

\* A faulty LoopTest that runs one instruction more.
LoopTestLate ==
    /\ Alive
    /\ vm_thread = "test"
    /\ vm_thread' = IF stop_requested_ \/ (engine = "RVSS" /\ at_end)
                       \/ executed > Limit + 1
                    THEN "returned" ELSE "execute"
    /\ UNCHANGED <<main, next_task, task, vm_running, stop_requested_, executed,
                   at_end, input_queue_>>

\* The head of the loop of Run and DebugRun.  The pipelined Run looks for the
\* end of the program at the end of its loop's body: see Execute.
LoopTest ==
    /\ Alive
    /\ vm_thread = "test"
    /\ vm_thread' = IF \/ stop_requested_
                       \/ engine = "RVSS" /\ at_end
                       \/ executed > Limit
                    THEN "returned" ELSE "execute"
    /\ UNCHANGED <<main, next_task, task, vm_running, stop_requested_, executed,
                   at_end, input_queue_>>

\* DebugRun of the single-cycle engine finds a breakpoint at the pc.
BreakpointHit ==
    /\ Alive
    /\ vm_thread = "execute" /\ task = "DebugRun" /\ engine = "RVSS"
    /\ vm_thread' = "returned"
    /\ UNCHANGED <<main, next_task, task, vm_running, stop_requested_, executed,
                   at_end, input_queue_>>

\* A faulty Continue that forgets to count the instruction.
ContinueUncounted ==
    /\ at_end' \in BOOLEAN
    /\ vm_thread' = IF task = "Step" \/ (engine = "RV5S" /\ at_end')
                    THEN "returned" ELSE "test"
    /\ UNCHANGED executed

\* After an instruction (a cycle, in the pipelined engine).
Continue ==
    /\ at_end' \in BOOLEAN
    /\ IF task = "Step" \/ (engine = "RV5S" /\ at_end')
       THEN vm_thread' = "returned" /\ UNCHANGED executed
       ELSE vm_thread' = "test" /\ executed' = executed + 1

Execute ==
    /\ Alive
    /\ vm_thread = "execute"
    /\ Continue
    /\ UNCHANGED <<main, next_task, task, vm_running, stop_requested_, input_queue_>>

\* ecall 63: wait on input_cv_ until there is input.
ReadBegin ==
    /\ Alive
    /\ vm_thread = "execute" /\ engine = "RVSS"
    /\ vm_thread' = "reading"
    /\ UNCHANGED <<main, next_task, task, vm_running, stop_requested_, executed,
                   at_end, input_queue_>>

ReadEnd ==
    /\ Alive
    /\ vm_thread = "reading"
    /\ input_queue_ > 0
    /\ input_queue_' = input_queue_ - 1
    /\ Continue
    /\ UNCHANGED <<main, next_task, task, vm_running, stop_requested_>>

\* ecall 10: exit(0) from the VM thread.
SyscallExit ==
    /\ Alive
    /\ vm_thread = "execute" /\ engine = "RVSS"
    /\ main' = "exited"
    /\ UNCHANGED <<next_task, vm_thread, task, vm_running, stop_requested_, executed,
                   at_end, input_queue_>>

\* fn has returned: the thread's last statement.
Finish ==
    /\ Alive
    /\ vm_thread = "returned"
    /\ vm_running' = FALSE
    /\ vm_thread' = "finished"
    /\ UNCHANGED <<main, next_task, task, stop_requested_, executed, at_end,
                   input_queue_>>
-----------------------------------------------------------------------------
Init ==
    /\ engine \in {"RVSS", "RV5S"}
    /\ main = "ready"
    /\ next_task = "Run"
    /\ vm_thread = "none"
    /\ task = "Run"
    /\ vm_running = FALSE
    /\ stop_requested_ = FALSE
    /\ executed = 0
    /\ at_end \in BOOLEAN
    /\ input_queue_ = 0

Command == \/ RunCommand \/ StepCommand \/ Stop \/ UndoBegin \/ ResetOrLoad
           \/ PushInput \/ ExitCommand

Main == Join \/ ExitJoin \/ UndoEnd

Thread == \/ Begin \/ DeadClosure \/ LoopTest \/ BreakpointHit \/ Execute
          \/ ReadBegin \/ ReadEnd \/ SyscallExit \/ Finish

Next == (Command \/ Main \/ Thread) /\ UNCHANGED engine

Spec == Init /\ [][Next]_vars

\* Neither thread is suspended for ever.  Nobody has to type a command.
FairSpec == Spec /\ WF_vars(Main /\ UNCHANGED engine)
                    /\ WF_vars(Thread /\ UNCHANGED engine)
-----------------------------------------------------------------------------
\* The variables of main()'s loop and of the VM thread have the values the code
\* can give them; a loop counts up to one more than the limit.
TypeOK ==
    /\ engine \in {"RVSS", "RV5S"}
    /\ main \in MainState
    /\ next_task \in Task
    /\ vm_thread \in ThreadState
    /\ task \in Task
    /\ vm_running \in BOOLEAN /\ stop_requested_ \in BOOLEAN /\ at_end \in BOOLEAN
    /\ executed \in 0 .. (Limit + 1)
    /\ input_queue_ \in 0 .. MaxInput

\* The thread is inside a function of the VM.
InVm == vm_thread \notin {"none", "finished"}

\* main()'s test of vm_running is enough to keep undo and redo from changing
\* the registers, the memory and the undo stack under a running VM, although
\* the flag is no lock and is written by both threads.
UndoAlone == main = "undoing" => ~InVm

\* Why: the flag is set as long as the thread is inside the VM.
RunningMarked == InVm => vm_running

\* The inductive invariant of the two threads.
ThreadInv == UndoAlone /\ RunningMarked

\* instruction_execution_limit is "the number of instruction to run": a run of
\* the single-cycle engine, which counts instructions and not cycles, has
\* executed no more than that.  False: the loop compares before it counts.
RunWithinLimit == engine = "RVSS" /\ Limit > 0 => executed =< Limit

\* A join, for a new run or for exit, ends, even if the stop request before it
\* was lost because the thread had not yet cleared the flag: the limit ends the
\* run.  Only an ecall that waits for input can keep main() waiting.
JoinEnds ==
    main \in {"joining", "exiting"} ~>
        main \notin {"joining", "exiting"} \/ vm_thread = "reading"

\* exit ends the process.
ExitEnds == (main = "exiting") ~> ~Alive

\* "Set to 0 for no limit": with limit 0, a run ends only at the end of the
\* program, at a breakpoint or when it is told to stop.  False: one instruction runs.
ZeroIsNoLimit ==
    [][Limit = 0 /\ vm_thread = "test" /\ vm_thread' = "returned"
           => stop_requested_ \/ at_end]_vars
=============================================================================
