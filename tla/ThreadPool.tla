----------------------------- MODULE ThreadPool -----------------------------
(***************************************************************************)
(* httplib::ThreadPool (httplib.h): a list of jobs, a fixed set of worker   *)
(* threads, one mutex and one condition variable.  A worker tests the list  *)
(* and goes to sleep in one section of the mutex; enqueue() and shutdown()  *)
(* change the list or the flag in a section of their own and notify after   *)
(* they have left it.                                                      *)
(*                                                                         *)
(* The actions do not say what becomes of a job: the module that uses the  *)
(* pool runs it between Take and Finish.                                   *)
(***************************************************************************)
EXTENDS Integers, Sequences, FiniteSets

CONSTANTS
    Workers,    \* threads_
    Jobs,       \* what can be enqueued
    NoJob       \* an empty std::function

ASSUME PoolAssumption ==
    Workers # {} /\ IsFiniteSet(Workers) /\ NoJob \notin Jobs

VARIABLES
    jobs,       \* jobs_
    shutdown,   \* shutdown_
    wpc,        \* a worker is at the lock, asleep, running a job or gone
    fn,         \* the job it runs
    owner       \* the thread that owns the pool: between its calls, in front
                \* of notify_one or notify_all, joining, or done

poolVars == <<jobs, shutdown, wpc, fn, owner>>

Sleeping == {w \in Workers : wpc[w] = "asleep"}

PoolInit ==
    /\ jobs = <<>> /\ shutdown = FALSE
    /\ wpc = [w \in Workers |-> "lock"] /\ fn = [w \in Workers |-> NoJob]
    /\ owner = "free"

-----------------------------------------------------------------------------
(* The owner.                                                              *)

Enqueue(j) ==
    /\ owner = "free"
    /\ jobs' = Append(jobs, j) /\ owner' = "notify_one"
    /\ UNCHANGED <<shutdown, wpc, fn>>

\* cond_.notify_one(): some sleeper wakes up, if there is one.
NotifyOne ==
    /\ owner = "notify_one" /\ owner' = "free"
    /\ IF Sleeping = {} THEN UNCHANGED wpc
       ELSE \E w \in Sleeping : wpc' = [wpc EXCEPT ![w] = "lock"]
    /\ UNCHANGED <<jobs, shutdown, fn>>

Shutdown ==
    /\ owner = "free"
    /\ shutdown' = TRUE /\ owner' = "notify_all"
    /\ UNCHANGED <<jobs, wpc, fn>>

\* Slip: shutdown() wakes one worker only.
NotifyAllOne ==
    /\ owner = "notify_all" /\ owner' = "join"
    /\ IF Sleeping = {} THEN UNCHANGED wpc
       ELSE \E w \in Sleeping : wpc' = [wpc EXCEPT ![w] = "lock"]
    /\ UNCHANGED <<jobs, shutdown, fn>>

NotifyAll ==
    /\ owner = "notify_all" /\ owner' = "join"
    /\ wpc' = [w \in Workers |-> IF w \in Sleeping THEN "lock" ELSE wpc[w]]
    /\ UNCHANGED <<jobs, shutdown, fn>>

\* t.join() for every thread.
Join ==
    /\ owner = "join" /\ \A w \in Workers : wpc[w] = "gone"
    /\ owner' = "done"
    /\ UNCHANGED <<jobs, shutdown, wpc, fn>>

-----------------------------------------------------------------------------
(* A worker: what it does in one section of the mutex.                     *)

Wait(w) ==
    /\ wpc[w] = "lock" /\ jobs = <<>> /\ ~shutdown
    /\ wpc' = [wpc EXCEPT ![w] = "asleep"]
    /\ UNCHANGED <<jobs, shutdown, fn, owner>>

\* cond_.wait may return without a notification; its predicate is tested again.
Spurious(w) ==
    /\ wpc[w] = "asleep" /\ wpc' = [wpc EXCEPT ![w] = "lock"]
    /\ UNCHANGED <<jobs, shutdown, fn, owner>>

\* Slip: a worker leaves as soon as it sees the flag.
ExitAtOnce(w) ==
    /\ wpc[w] = "lock" /\ shutdown
    /\ wpc' = [wpc EXCEPT ![w] = "gone"]
    /\ UNCHANGED <<jobs, shutdown, fn, owner>>

Exit(w) ==
    /\ wpc[w] = "lock" /\ shutdown /\ jobs = <<>>
    /\ wpc' = [wpc EXCEPT ![w] = "gone"]
    /\ UNCHANGED <<jobs, shutdown, fn, owner>>

\* Slip: the job is copied from the list and not popped.
TakeFront(w) ==
    /\ wpc[w] = "lock" /\ jobs # <<>>
    /\ fn' = [fn EXCEPT ![w] = Head(jobs)]
    /\ wpc' = [wpc EXCEPT ![w] = "running"]
    /\ UNCHANGED <<jobs, shutdown, owner>>

Take(w) ==
    /\ wpc[w] = "lock" /\ jobs # <<>>
    /\ fn' = [fn EXCEPT ![w] = Head(jobs)] /\ jobs' = Tail(jobs)
    /\ wpc' = [wpc EXCEPT ![w] = "running"]
    /\ UNCHANGED <<shutdown, owner>>

\* Slip: the worker waits for the next notification without testing the list.
FinishAsleep(w) ==
    /\ wpc[w] = "running"
    /\ wpc' = [wpc EXCEPT ![w] = IF shutdown THEN "lock" ELSE "asleep"]
    /\ fn' = [fn EXCEPT ![w] = NoJob]
    /\ UNCHANGED <<jobs, shutdown, owner>>

\* fn() has returned.
Finish(w) ==
    /\ wpc[w] = "running"
    /\ wpc' = [wpc EXCEPT ![w] = "lock"] /\ fn' = [fn EXCEPT ![w] = NoJob]
    /\ UNCHANGED <<jobs, shutdown, owner>>
=============================================================================
