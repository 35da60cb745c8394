----------------------------- MODULE AllReduce -----------------------------
(***************************************************************************)
(* The synchronization of the all-reduce kernels over peer-to-peer memory  *)
(* (csrc/custom_all_reduce.cuh).  The kernels of successive calls run on   *)
(* every rank in the order of its stream; thread q of a rank's block deals *)
(* with rank q, by flags it writes into the memory of q and reads in its   *)
(* own.  Blocks of different indices do not interact: one is modelled.     *)
(***************************************************************************)
EXTENDS Integers

CONSTANTS
    Ranks,
    MaxCalls,       \* calls of all_reduce: a bound on the counters
    TwoStage        \* the calls that run cross_device_reduce_2stage

VARIABLES
    calls,      \* kernels launched on a rank
    phase,      \* of its kernel, or "idle" when it has ended
    pc,         \* of each thread of the block in start_sync or end_sync
    start, end, \* the flags of the Signal of a rank
    input,      \* the call whose input the registered buffer holds
    tmp         \* the call whose partial sum the temporary buffer holds

kernelVars == <<calls, phase, pc, start, end, input, tmp>>

KernelPhases == {"idle", "start", "work", "end", "gather"}
BarrierSteps == {"reset", "signal", "await", "passed"}

KernelInit ==
    /\ calls = [p \in Ranks |-> 0]
    /\ phase = [p \in Ranks |-> "idle"]
    /\ pc = [p \in Ranks |-> [q \in Ranks |-> "passed"]]
    /\ start = [p \in Ranks |-> [q \in Ranks |-> FALSE]]
    /\ end = [p \in Ranks |-> [q \in Ranks |-> FALSE]]
    /\ input = [p \in Ranks |-> 0]
    /\ tmp = [p \in Ranks |-> 0]

-----------------------------------------------------------------------------
\* The kernels of the model write the input of the next call.
Produce(p) ==
    /\ phase[p] = "idle" /\ calls[p] < MaxCalls
    /\ input' = [input EXCEPT ![p] = calls[p] + 1]
    /\ UNCHANGED <<calls, phase, pc, start, end, tmp>>

Enter(p, ph) ==
    /\ phase' = [phase EXCEPT ![p] = ph]
    /\ pc' = [pc EXCEPT ![p] = [q \in Ranks |-> "reset"]]

\* allreduce: the kernel is launched, and begins with start_sync.
Launch(p) ==
    /\ phase[p] = "idle" /\ input[p] = calls[p] + 1
    /\ calls' = [calls EXCEPT ![p] = @ + 1]
    /\ Enter(p, "start")
    /\ UNCHANGED <<start, end, input, tmp>>

Step(p, q, from, to) ==
    /\ pc[p][q] = from
    /\ pc' = [pc EXCEPT ![p][q] = to]
    /\ UNCHANGED <<calls, phase, input, tmp>>

\* A mutant: the flag of this barrier is reset, which may be up already.
MutStartReset(p, q) ==
    /\ phase[p] = "start" /\ Step(p, q, "reset", "signal")
    /\ start' = [start EXCEPT ![p][q] = FALSE]
    /\ UNCHANGED end

\* start_sync by thread q: reset the end flag for next time, signal, wait.
StartReset(p, q) ==
    /\ phase[p] = "start" /\ Step(p, q, "reset", "signal")
    /\ end' = [end EXCEPT ![p][q] = FALSE]
    /\ UNCHANGED start

StartSignal(p, q) ==
    /\ phase[p] = "start" /\ Step(p, q, "signal", "await")
    /\ start' = [start EXCEPT ![q][p] = TRUE]
    /\ UNCHANGED end

StartAwait(p, q) ==
    /\ phase[p] = "start" /\ start[p][q] /\ Step(p, q, "await", "passed")
    /\ UNCHANGED <<start, end>>

\* A mutant: the flag is not reset for next time.
MutEndReset(p, q) ==
    /\ phase[p] = "end" /\ Step(p, q, "reset", "signal")
    /\ UNCHANGED <<start, end>>

\* end_sync by thread q, the same with the other flags.
EndReset(p, q) ==
    /\ phase[p] = "end" /\ Step(p, q, "reset", "signal")
    /\ start' = [start EXCEPT ![p][q] = FALSE]
    /\ UNCHANGED end

EndSignal(p, q) ==
    /\ phase[p] = "end" /\ Step(p, q, "signal", "await")
    /\ end' = [end EXCEPT ![q][p] = TRUE]
    /\ UNCHANGED start

EndAwait(p, q) ==
    /\ phase[p] = "end" /\ end[p][q] /\ Step(p, q, "await", "passed")
    /\ UNCHANGED <<start, end>>

AllPassed(p) == \A q \in Ranks : pc[p][q] = "passed"

\* __syncthreads after start_sync: the inputs of all ranks are read from here
\* on, and a two-stage kernel writes its temporary buffer.
BeginWork(p) ==
    /\ phase[p] = "start" /\ AllPassed(p)
    /\ phase' = [phase EXCEPT ![p] = "work"]
    /\ tmp' = [tmp EXCEPT ![p] = IF calls[p] \in TwoStage THEN 0 ELSE @]
    /\ UNCHANGED <<calls, pc, start, end, input>>

\* __syncthreads at the beginning of end_sync.
EndWork(p) ==
    /\ phase[p] = "work"
    /\ tmp' = [tmp EXCEPT ![p] = IF calls[p] \in TwoStage THEN calls[p] ELSE @]
    /\ Enter(p, "end")
    /\ UNCHANGED <<calls, start, end, input>>

\* A mutant: the buffers are gathered as soon as the rank has written its own.
MutEndKernel(p) ==
    /\ phase[p] \in {"end", "gather"}
    /\ phase' = [phase EXCEPT ![p] =
            IF @ = "end" /\ calls[p] \in TwoStage THEN "gather" ELSE "idle"]
    /\ UNCHANGED <<calls, pc, start, end, input, tmp>>

\* After end_sync a two-stage kernel gathers from the temporary buffers of all
\* ranks; there is no synchronization after that.
EndKernel(p) ==
    /\ \/ phase[p] = "end" /\ AllPassed(p)
       \/ phase[p] = "gather"
    /\ phase' = [phase EXCEPT ![p] =
            IF @ = "end" /\ calls[p] \in TwoStage THEN "gather" ELSE "idle"]
    /\ UNCHANGED <<calls, pc, start, end, input, tmp>>

Thread(p, q) ==
    \/ StartReset(p, q) \/ StartSignal(p, q) \/ StartAwait(p, q)
    \/ EndReset(p, q) \/ EndSignal(p, q) \/ EndAwait(p, q)

Kernel(p) == BeginWork(p) \/ EndWork(p) \/ EndKernel(p)

KernelNext ==
    \E p \in Ranks :
        \/ Produce(p) \/ Launch(p) \/ Kernel(p)
        \/ \E q \in Ranks : Thread(p, q)

KernelSpec == KernelInit /\ [][KernelNext]_kernelVars

-----------------------------------------------------------------------------
\* Properties.

\* While a kernel reduces, the buffer of every rank holds the input of that
\* very call; while it gathers, every temporary buffer holds its rank's sum,
\* although nothing is synchronized between gathering and the next call.
ReadsInPlace ==
    \A p, q \in Ranks :
        /\ phase[p] = "work" => input[q] = calls[p]
        /\ phase[p] = "gather" => tmp[q] = calls[p]

-----------------------------------------------------------------------------
\* The inductive invariant counts what a thread has done over all calls.

\* Calls in whose start_sync (end_sync) thread q of p has got beyond the steps S.
BeyondStart(p, q, S) ==
    IF phase[p] = "start" /\ pc[p][q] \in S THEN calls[p] - 1 ELSE calls[p]
BeyondEnd(p, q, S) ==
    IF phase[p] \in {"start", "work"} \/ (phase[p] = "end" /\ pc[p][q] \in S)
    THEN calls[p] - 1 ELSE calls[p]

EndResets(p, q) == BeyondStart(p, q, {"reset"})
StartSignals(p, q) == BeyondStart(p, q, {"reset", "signal"})
StartPasses(p, q) == BeyondStart(p, q, {"reset", "signal", "await"})
StartResets(p, q) == BeyondEnd(p, q, {"reset"})
EndSignals(p, q) == BeyondEnd(p, q, {"reset", "signal"})
EndPasses(p, q) == BeyondEnd(p, q, {"reset", "signal", "await"})

KernelTypeOK ==
    /\ calls \in [Ranks -> Nat]
    /\ phase \in [Ranks -> KernelPhases]
    /\ pc \in [Ranks -> [Ranks -> BarrierSteps]]
    /\ start \in [Ranks -> [Ranks -> BOOLEAN]]
    /\ end \in [Ranks -> [Ranks -> BOOLEAN]]
    /\ input \in [Ranks -> Nat]
    /\ tmp \in [Ranks -> Nat]

\* A flag is up exactly between the signal of one thread and the reset by its
\* partner, who has passed no more often than it was signalled to.
FlagsInv ==
    \A p, q \in Ranks :
        /\ start[p][q] <=> StartSignals(q, p) > StartResets(p, q)
        /\ end[p][q] <=> EndSignals(q, p) > EndResets(p, q) - 1 /\ EndResets(p, q) > 0
        /\ StartPasses(p, q) <= StartSignals(q, p)
        /\ EndPasses(p, q) <= EndSignals(q, p)

\* Where in its calls a rank is says what its buffers hold.
BuffersInv ==
    \A p \in Ranks :
        /\ phase[p] # "idle" => input[p] = calls[p] /\ calls[p] > 0
        /\ phase[p] \notin {"start", "end"} => AllPassed(p)
        /\ phase[p] = "gather" => calls[p] \in TwoStage
        /\ phase[p] \in {"end", "gather", "idle"} /\ calls[p] \in TwoStage => tmp[p] = calls[p]
        /\ phase[p] = "start" /\ calls[p] - 1 \in TwoStage => tmp[p] = calls[p] - 1

IInv == KernelTypeOK /\ FlagsInv /\ BuffersInv
=============================================================================
