----------------------------- MODULE CrashDump -----------------------------
(***************************************************************************)
(* SimpleLoggerMgr (raft_logger.cpp) from its creation to a crash: the      *)
(* singleton and its flushing thread, the registry of the threads that log, *)
(* and the signal handlers that write a stack dump before the process dies, *)
(* asking the other threads for their stacks with SIGUSR2 while the         *)
(* flushing thread counts down to a forced exit.                           *)
(*                                                                         *)
(* A step is what a thread does between two accesses to what it shares: a   *)
(* mutex, the stacks, a signal.  The text of a dump is left out: an entry   *)
(* of the dump file is the raw or the interpreted stack of one thread (what *)
(* becomes of its text is in LogText).                                     *)
(***************************************************************************)
EXTENDS LogText, FiniteSets

CONSTANTS
    Threads,    \* threads that log
    Main,       \* the one that creates the manager
    Flusher,    \* tFlush
    None,       \* "nobody"
    Timeout,    \* timeout_ms in units of sub_ms; 60 s by 500 ms in the code
    MaxCrashes, \* bound on the number of threads that crash
    Crashers,   \* threads that may crash
    ExitOnCrash,    \* exitOnCrash
    EnvExitOnCrash  \* SIMPLELOGGER_EXIT_ON_CRASH asks for it

Signals == {"SIGSEGV", "SIGABRT"}

ASSUME DumpAssumption ==
    /\ Main \in Threads /\ Flusher \notin Threads
    /\ None \notin Threads \cup {Flusher} \cup Signals
    /\ Timeout \in Nat \ {0} /\ MaxCrashes \in Nat
    /\ Crashers \subseteq Threads \cup {Flusher}
    /\ ExitOnCrash \in BOOLEAN /\ EnvExitOnCrash \in BOOLEAN

Actors == Threads \cup {Flusher}

VARIABLES
    instance,       \* how many managers have been stored in `instance'
    instanceLock, loggersLock, activeThreadsLock,   \* who holds the mutex
    activeThreads,  \* registered by ThreadWrapper
    handler,        \* of a signal: "ours", or "old", the default action
    crashDumpOriginOnly,
    crashOriginThread,
    abortTimer,
    stacks,         \* crashDumpThreadStacks: whose, in the order they came
    crashDumpFile,  \* what the dump file holds, None before it is opened
    pc,             \* where a thread is
    sig,            \* ... the signal it crashed with
    todo,           \* ... threads it has still to ask
    pos,            \* ... the stack it interprets
    usr2,           \* threads with a pending SIGUSR2
    proc            \* "up", "exit" (exit(-1) of a handler), "timeout" (that
                    \* of the flusher) or "core" (killed by a signal)

mgr == <<instance, instanceLock>>
reg == <<activeThreads, activeThreadsLock>>
crash == <<handler, sig>>
conf == crashDumpOriginOnly
asking == <<crashOriginThread, todo, usr2>>
dump == <<stacks, crashDumpFile, pos>>
vars == <<mgr, loggersLock, reg, crash, conf, asking, abortTimer, dump, pc, proc>>

Init ==
    /\ instance = 0 /\ instanceLock = None /\ loggersLock = None
    /\ activeThreadsLock = None /\ activeThreads = {}
    /\ handler = [s \in Signals |-> "old"] /\ sig = [a \in Actors |-> None]
    /\ crashDumpOriginOnly \in BOOLEAN
    /\ crashOriginThread = None /\ todo = [a \in Actors |-> {}] /\ usr2 = {}
    /\ abortTimer = 0
    /\ stacks = <<>> /\ crashDumpFile = None /\ pos = [a \in Actors |-> 1]
    /\ pc = [a \in Actors |-> IF a = Main THEN "get" ELSE "new"]
    /\ proc = "up"

Go(a, from, to) == proc = "up" /\ pc[a] = from /\ pc' = [pc EXCEPT ![a] = to]
Crashed == {a \in Actors : sig[a] # None}

-----------------------------------------------------------------------------
(* SimpleLoggerMgr::get() and init(), by Main and, in its first line, by     *)
(* flushWorker, which the constructor starts before `instance' is set.      *)

\* The first look at `instance', without the lock.
Get(a) ==
    /\ Go(a, "get", IF instance > 0 THEN "ready" ELSE "init")
    /\ UNCHANGED <<mgr, loggersLock, reg, crash, conf, asking, abortTimer, dump, proc>>

\* Slip: init() trusts the first look.
ConstructAnyway(a) ==
    /\ instanceLock = None /\ Go(a, "init", "construct") /\ instanceLock' = a
    /\ UNCHANGED <<instance, loggersLock, reg, crash, conf, asking, abortTimer, dump, proc>>

\* The second look, under instanceLock.
Construct(a) ==
    /\ instanceLock = None
    /\ IF instance > 0 THEN Go(a, "init", "ready") /\ UNCHANGED instanceLock
       ELSE Go(a, "init", "construct") /\ instanceLock' = a
    /\ UNCHANGED <<instance, loggersLock, reg, crash, conf, asking, abortTimer, dump, proc>>

\* The constructor installs the handlers and starts the worker.
StartWorkers(a) ==
    /\ proc = "up" /\ pc[a] = "construct"
    /\ pc' = [pc EXCEPT ![Flusher] = "get", ![a] = "store"]
    /\ handler' = [s \in Signals |-> "ours"]
    /\ UNCHANGED <<mgr, loggersLock, reg, sig, conf, asking, abortTimer, dump, proc>>

Store(a) ==
    /\ Go(a, "store", "ready")
    /\ instance' = instance + 1 /\ instanceLock' = None
    /\ UNCHANGED <<loggersLock, reg, crash, conf, asking, abortTimer, dump, proc>>

\* Main lets the other threads run, the flusher enters its loop.
Ready(a) ==
    /\ proc = "up" /\ pc[a] = "ready"
    /\ pc' = IF a = Flusher THEN [pc EXCEPT ![a] = "sleep"]
             ELSE [t \in Actors |-> IF t \in Threads THEN "run" ELSE pc[t]]
    /\ UNCHANGED <<mgr, loggersLock, reg, crash, conf, asking, abortTimer, dump, proc>>

-----------------------------------------------------------------------------
(* The registry of threads, flushAllLoggers and flushWorker.                *)

\* Places in a handler that call flushAllLoggers(level, msg), and where the
\* thread goes from there.
After == [report |-> "open", critical |-> "capture", disabled |-> "raw",
          captured |-> "signal", gotall |-> "unlock", say |-> "text"]

\* The first put() of a thread makes its ThreadWrapper, which calls addThread.
AddThread(a) ==
    /\ proc = "up" /\ a \notin activeThreads /\ activeThreadsLock = None
    /\ pc[a] = "run" \/ (pc[a] \in DOMAIN After /\ loggersLock = a)
    /\ activeThreads' = activeThreads \cup {a}
    /\ UNCHANGED <<mgr, loggersLock, activeThreadsLock, crash, conf, asking,
                   abortTimer, dump, pc, proc>>

\* Slip: the registry is changed without its mutex.
RemoveUnlocked(a) ==
    /\ a \in Threads /\ Go(a, "run", "gone")
    /\ activeThreads' = activeThreads \ {a} /\ usr2' = usr2 \ {a}
    /\ UNCHANGED <<mgr, loggersLock, activeThreadsLock, crash, conf,
                   crashOriginThread, todo, abortTimer, dump, proc>>

\* removeThread in the destructor of the ThreadWrapper: the thread ends.
RemoveThread(a) ==
    /\ a \in Threads /\ Go(a, "run", "gone") /\ activeThreadsLock = None
    /\ activeThreads' = activeThreads \ {a} /\ usr2' = usr2 \ {a}
    /\ UNCHANGED <<mgr, loggersLock, activeThreadsLock, crash, conf,
                   crashOriginThread, todo, abortTimer, dump, proc>>

\* flushAllLoggers takes loggersLock ...
LockLoggers(a) ==
    /\ proc = "up" /\ loggersLock = None /\ pc[a] \in DOMAIN After \cup {"sleep"}
    /\ loggersLock' = a
    /\ UNCHANGED <<mgr, reg, crash, conf, asking, abortTimer, dump, pc, proc>>

\* ... and gives it back when the message is put and everything is flushed; what
\* _flushStackTraceBuffer says also goes into the dump file.
Said(a) ==
    /\ proc = "up" /\ pc[a] \in DOMAIN After /\ loggersLock = a /\ a \in activeThreads
    /\ loggersLock' = None /\ pc' = [pc EXCEPT ![a] = After[pc[a]]]
    /\ IF pc[a] # "say" THEN UNCHANGED dump
       ELSE /\ crashDumpFile' = Append(crashDumpFile, [kind |-> "text", of |-> stacks[pos[a]]])
            /\ pos' = [pos EXCEPT ![a] = @ + 1]
            /\ UNCHANGED stacks
    /\ UNCHANGED <<mgr, reg, crash, conf, asking, abortTimer, proc>>

\* One round of flushWorker ...
Flushed ==
    /\ loggersLock = Flusher /\ Go(Flusher, "sleep", "timer")
    /\ loggersLock' = None
    /\ UNCHANGED <<mgr, reg, crash, conf, asking, abortTimer, dump, proc>>

\* ... and its look at abortTimer.
Timer ==
    /\ Go(Flusher, "timer", "sleep")
    /\ abortTimer' = IF abortTimer > 1 THEN abortTimer - 1 ELSE abortTimer
    /\ proc' = IF abortTimer = 1 THEN "timeout" ELSE proc
    /\ UNCHANGED <<mgr, loggersLock, reg, crash, conf, asking, dump>>

-----------------------------------------------------------------------------
(* A crash: handleSegFault, handleSegAbort, logStackBacktrace.              *)

Crash(a, s) ==
    /\ proc = "up" /\ a \in Crashers /\ Cardinality(Crashed) < MaxCrashes
    /\ pc[a] \in {"run", "sleep", "timer"} /\ sig[a] = None
    /\ sig' = [sig EXCEPT ![a] = s]
    /\ IF handler[s] = "ours"
       THEN pc' = [pc EXCEPT ![a] = "caught"] /\ UNCHANGED proc
       ELSE proc' = "core" /\ UNCHANGED pc
    /\ UNCHANGED <<mgr, loggersLock, reg, handler, conf, asking, abortTimer, dump>>

Restore(a) ==
    /\ Go(a, "caught", "display")
    /\ handler' = [handler EXCEPT ![sig[a]] = "old"]
    /\ UNCHANGED <<mgr, loggersLock, reg, sig, conf, asking, abortTimer, dump, proc>>

EnableOnlyOneDisplayer(a) ==
    /\ Go(a, "display", "report") /\ loggersLock = None
    /\ UNCHANGED <<mgr, loggersLock, reg, crash, conf, asking, abortTimer, dump, proc>>

\* Slip: the timer is not set.
OpenUntimed(a) ==
    /\ Go(a, "open", "critical")
    /\ crashDumpFile' = IF crashDumpFile = None THEN <<>> ELSE crashDumpFile
    /\ UNCHANGED <<mgr, loggersLock, reg, crash, conf, asking, abortTimer, stacks,
                   pos, proc>>

\* The beginning of logStackBacktrace.
Open(a) ==
    /\ Go(a, "open", "critical")
    /\ abortTimer' = Timeout
    /\ crashDumpFile' = IF crashDumpFile = None THEN <<>> ELSE crashDumpFile
    /\ UNCHANGED <<mgr, loggersLock, reg, crash, conf, asking, stacks, pos, proc>>

\* push_back on crashDumpThreadStacks, which has no lock: while another thread
\* works on the vector the entry may be lost, or the process may die.
UsesStacks == {"capture", "raw", "text", "say"}
Push(a) ==
    \/ stacks' = Append(stacks, a) /\ UNCHANGED proc
    \/ /\ \E b \in Actors \ {a} : pc[b] \in UsesStacks
       /\ UNCHANGED stacks /\ proc' \in {"up", "core"}

\* addRawStackInfo(true)
Capture(a) ==
    /\ Go(a, "capture", "others") /\ Push(a)
    /\ UNCHANGED <<mgr, loggersLock, reg, crash, conf, asking, abortTimer,
                   crashDumpFile, pos>>

\* logStackBackTraceOtherThreads up to the lock: compare_exchange_strong.
Claim(a) ==
    /\ IF crashDumpOriginOnly THEN Go(a, "others", "disabled") /\ UNCHANGED crashOriginThread
       ELSE IF crashOriginThread # None
       THEN Go(a, "others", "raw") /\ UNCHANGED crashOriginThread
       ELSE Go(a, "others", "lock") /\ crashOriginThread' = a
    /\ UNCHANGED <<mgr, loggersLock, reg, crash, conf, todo, usr2, abortTimer, dump, proc>>

LockThreads(a) ==
    /\ Go(a, "lock", "captured") /\ activeThreadsLock = None
    /\ activeThreadsLock' = a
    /\ todo' = [todo EXCEPT ![a] = activeThreads \ {a}]
    /\ UNCHANGED <<mgr, loggersLock, activeThreads, crash, conf, crashOriginThread,
                   usr2, abortTimer, dump, proc>>

\* pthread_kill(tid, SIGUSR2) for the next thread, or the end of the loop.
Ask(a) ==
    /\ IF todo[a] = {} THEN Go(a, "signal", "gotall") /\ UNCHANGED <<todo, usr2>>
       ELSE /\ Go(a, "signal", "asked")
            /\ \E t \in todo[a] :
                /\ usr2' = usr2 \cup {t}
                /\ todo' = [todo EXCEPT ![a] = @ \ {t}]
    /\ UNCHANGED <<mgr, loggersLock, reg, crash, conf, crashOriginThread, abortTimer,
                   dump, proc>>

\* Slip: the answer is not waited for.
SuspendNot(a) ==
    /\ Go(a, "asked", "signal")
    /\ UNCHANGED <<mgr, loggersLock, reg, crash, conf, asking, abortTimer, dump, proc>>

\* sigsuspend; SIGUSR2 was not blocked before it.
Suspend(a) ==
    /\ Go(a, "asked", "suspend")
    /\ UNCHANGED <<mgr, loggersLock, reg, crash, conf, asking, abortTimer, dump, proc>>

\* Delivery of SIGUSR2 to a thread, wherever it is: handleStackTrace.  The origin
\* only returns from sigsuspend, if it is already there.
HandleStackTrace(a) ==
    /\ proc = "up" /\ a \in usr2
    /\ IF a = crashOriginThread
       THEN /\ pc' = [pc EXCEPT ![a] = IF @ = "suspend" THEN "signal" ELSE @]
            /\ usr2' = usr2 \ {a} /\ UNCHANGED <<stacks, proc>>
       ELSE /\ Push(a) /\ UNCHANGED pc
            /\ usr2' = (usr2 \ {a}) \cup {crashOriginThread}
    /\ UNCHANGED <<mgr, loggersLock, reg, crash, conf, crashOriginThread, todo,
                   abortTimer, crashDumpFile, pos>>

UnlockThreads(a) ==
    /\ Go(a, "unlock", "raw") /\ activeThreadsLock' = None
    /\ UNCHANGED <<mgr, loggersLock, activeThreads, crash, conf, asking, abortTimer,
                   dump, proc>>

\* Slip: the raw pointers are left out.
FlushNoRaw(a) ==
    /\ Go(a, "raw", "text") /\ pos' = [pos EXCEPT ![a] = 1]
    /\ UNCHANGED <<mgr, loggersLock, reg, crash, conf, asking, abortTimer, stacks,
                   crashDumpFile, proc>>

\* flushRawStack for every entry.
FlushRawStacks(a) ==
    /\ Go(a, "raw", "text") /\ pos' = [pos EXCEPT ![a] = 1]
    /\ crashDumpFile' = crashDumpFile \o
            [i \in DOMAIN stacks |-> [kind |-> "raw", of |-> stacks[i]]]
    /\ UNCHANGED <<mgr, loggersLock, reg, crash, conf, asking, abortTimer, stacks, proc>>

\* _stack_interpret runs addr2line, which may hang.
Interpret(a) ==
    /\ Go(a, "text", "say") /\ pos[a] <= Len(stacks)
    /\ UNCHANGED <<mgr, loggersLock, reg, crash, conf, asking, abortTimer, dump, proc>>

ChkExitOnCrash == ExitOnCrash \/ EnvExitOnCrash

\* The end of handleSegFault: exit(-1), or the instruction runs again and faults
\* with the old action.
EndSegFault(a) ==
    /\ proc = "up" /\ pc[a] = "text" /\ pos[a] > Len(stacks) /\ sig[a] = "SIGSEGV"
    /\ proc' = IF ChkExitOnCrash THEN "exit" ELSE "core"
    /\ UNCHANGED <<mgr, loggersLock, reg, crash, conf, asking, abortTimer, dump, pc>>

\* The end of handleSegAbort: exit(-1) or abort().
EndSegAbort(a) ==
    /\ proc = "up" /\ pc[a] = "text" /\ pos[a] > Len(stacks) /\ sig[a] = "SIGABRT"
    /\ proc' = IF ChkExitOnCrash THEN "exit" ELSE "core"
    /\ UNCHANGED <<mgr, loggersLock, reg, crash, conf, asking, abortTimer, dump, pc>>

-----------------------------------------------------------------------------

StartUp(a) == Get(a) \/ Construct(a) \/ StartWorkers(a) \/ Store(a) \/ Ready(a)
FlushWorker == LockLoggers(Flusher) \/ Flushed \/ Timer
Handler(a) ==
    \/ Restore(a) \/ EnableOnlyOneDisplayer(a) \/ LockLoggers(a) \/ Said(a)
    \/ (sig[a] # None /\ AddThread(a))
    \/ Open(a) \/ Capture(a) \/ Claim(a) \/ LockThreads(a) \/ Ask(a)
    \/ Suspend(a) \/ UnlockThreads(a) \/ FlushRawStacks(a) \/ EndSegFault(a)
    \/ EndSegAbort(a)

Next ==
    \/ FlushWorker
    \/ \E a \in Actors :
        \/ StartUp(a) \/ AddThread(a) \/ RemoveThread(a) \/ Handler(a)
        \/ Interpret(a) \/ HandleStackTrace(a)
        \/ \E s \in Signals : Crash(a, s)

Spec == Init /\ [][Next]_vars

\* Threads run, and one that waits for loggersLock gets it, because the flusher
\* sleeps between its rounds.  Nobody has to log, end or crash; addr2line may
\* hang, and so may handleStackTrace, which allocates in a thread interrupted
\* anywhere.
FairSpec ==
    /\ Spec
    /\ WF_vars(FlushWorker)
    /\ \A a \in Actors :
        /\ WF_vars(StartUp(a)) /\ WF_vars(Handler(a))
        /\ SF_vars(LockLoggers(a) \/ EnableOnlyOneDisplayer(a))

-----------------------------------------------------------------------------
(* Properties.                                                             *)

PCs == {"new", "get", "init", "construct", "store", "ready", "run", "gone", "sleep",
        "timer", "caught", "display", "open", "others", "lock", "signal", "asked",
        "suspend", "unlock"} \cup UsesStacks \cup DOMAIN After

\* Every variable has its type, and a mutex is held only where the code holds it.
TypeOK ==
    /\ instance \in Nat /\ instanceLock \in Actors \cup {None}
    /\ pc \in [Actors -> PCs] /\ sig \in [Actors -> Signals \cup {None}]
    /\ handler \in [Signals -> {"ours", "old"}]
    /\ activeThreads \subseteq Actors /\ usr2 \subseteq Actors
    /\ todo \in [Actors -> SUBSET Actors] /\ pos \in [Actors -> Nat]
    /\ crashOriginThread \in Actors \cup {None} /\ abortTimer \in 0 .. Timeout
    /\ stacks \in Seq(Actors)
    /\ crashDumpFile # None => crashDumpFile \in Seq([kind : {"raw", "text"}, of : Actors])
    /\ proc \in {"up", "exit", "timeout", "core"}
    /\ loggersLock # None => pc[loggersLock] \in DOMAIN After \cup {"sleep"}
                              \/ sig[loggersLock] # None
    /\ activeThreadsLock # None =>
        pc[activeThreadsLock] \in {"captured", "signal", "asked", "suspend", "gotall", "unlock"}

\* pthread_kill never goes to a thread that has ended: the collecting thread
\* holds activeThreadsLock, and a thread must take it to leave.
AsksLiving == \A a \in Actors : \A t \in todo[a] : pc[t] # "gone"

Collecting(a) == pc[a] \in {"lock", "captured", "signal", "asked", "suspend", "gotall"}

\* There is one manager and one flushing thread, although flushWorker asks for
\* the manager while the constructor that started it is still running; and
\* however many threads crash, one of them collects the stacks of the others.
OneOfEach ==
    /\ TypeOK
    /\ instance <= 1
    /\ \A a, b \in Actors : Collecting(a) /\ Collecting(b) => a = b

Lone == Cardinality(Crashed) = 1

\* When one thread crashes and is through with asking, it has the stack of every
\* registered thread, each once.
StacksComplete ==
    Lone =>
        /\ \A i, j \in DOMAIN stacks : stacks[i] = stacks[j] => i = j
        /\ \A a \in Crashed :
            pc[a] = "gotall" => \A t \in activeThreads : \E i \in DOMAIN stacks : stacks[i] = t

\* "For the case where addr2line is hanging, flush raw pointer first": when one
\* thread crashes, every stack it collected is in the file before the first one
\* is interpreted, so that it is there when the timer ends the process.
RawSurvives ==
    (Lone /\ \E a \in Crashed : pc[a] \in {"text", "say"}) =>
        \A i \in DOMAIN stacks : \E j \in DOMAIN crashDumpFile :
            crashDumpFile[j] = [kind |-> "raw", of |-> stacks[i]]

\* A crash ends the process, whatever hangs: an answer that comes before
\* sigsuspend, a thread that does not answer, addr2line.  The thread must not be
\* the flusher itself, and no second one must crash.
DumpEnds == (Crashed # {} /\ Flusher \notin Crashed) ~> (proc # "up" \/ ~Lone)

Saying == \E a \in Actors : pc[a] = "say"

\* What a crash writes stays inside its buffers, stackTraceBuffer and the line
\* of put(), whatever the lengths of names, places and messages: _snprintf never
\* gets more room than is left.  And the interpreted stack reaches the log whole:
\* _flushStackTraceBuffer cuts it into chunks that put() does not cut again,
\* although put() gives the last piece of a line less room than there is.
TextFits == Saying => AllInside /\ AllWhole
=============================================================================
