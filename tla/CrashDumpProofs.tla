-------------------------- MODULE CrashDumpProofs ---------------------------
(***************************************************************************)
(* For every number of threads and crashes: one manager, one collector, and *)
(* nobody asks a thread that has ended; the dump of a lone crash is complete *)
(* and on disk before it is interpreted; and for every size of the buffers, *)
(* what is written stays inside them.                                      *)
(***************************************************************************)
EXTENDS CrashDump, SequenceTheorems, FiniteSetTheorems, WellFoundedInduction, TLAPS

-----------------------------------------------------------------------------
(* The inductive invariant.                                                *)

Starting == {"get", "init", "construct", "store", "ready"}
Asking == {"captured", "signal", "asked", "suspend", "gotall", "unlock"}
Handled == {"caught", "display", "open", "others", "lock", "raw", "text", "capture",
            "report", "critical", "disabled", "say"} \cup Asking
Opened == Handled \ {"caught", "display", "report", "open"}
Line == [kind : {"raw", "text"}, of : Actors]
\* The threads whose stacks are there, each once, and their raw stacks on disk.
Got == {stacks[i] : i \in DOMAIN stacks}
EachOnce(st) == \A i, j \in DOMAIN st : st[i] = st[j] => i = j
RawIn(st, file) ==
    \A i \in DOMAIN st : \E j \in DOMAIN file : file[j] = [kind |-> "raw", of |-> st[i]]

Types ==
    /\ instance \in Nat /\ instanceLock \in Actors \cup {None}
    /\ loggersLock \in Actors \cup {None} /\ activeThreadsLock \in Actors \cup {None}
    /\ pc \in [Actors -> PCs] /\ sig \in [Actors -> Signals \cup {None}]
    /\ handler \in [Signals -> {"ours", "old"}]
    /\ activeThreads \subseteq Actors /\ usr2 \subseteq Actors
    /\ todo \in [Actors -> SUBSET Actors] /\ pos \in [Actors -> Nat \ {0}]
    /\ crashOriginThread \in Actors \cup {None} /\ abortTimer \in 0 .. Timeout
    /\ stacks \in Seq(Actors)
    /\ crashDumpFile = None \/ crashDumpFile \in Seq(Line)
    /\ proc \in {"up", "exit", "timeout", "core"}
    /\ IsFiniteSet(Crashed)

\* Until Main has stored the manager it holds instanceLock, or nobody else is
\* there; so the flushing thread, which Main starts, never constructs a second.
Started ==
    /\ \A t \in Threads \ {Main} :
        /\ pc[t] \notin Starting
        /\ pc[Main] \in Starting => pc[t] = "new"
    /\ pc[Flusher] \notin {"construct", "store"}
    /\ pc[Main] \in {"get", "init", "construct"} => pc[Flusher] = "new"
    /\ IF pc[Main] \in {"construct", "store"} THEN instanceLock = Main ELSE instanceLock = None
    /\ instance = IF pc[Main] \in {"get", "init", "construct", "store"} THEN 0 ELSE 1
    /\ pc[Main] # "new"

\* What a thread has where it is in its handler.
Handling ==
    \A a \in Actors :
        /\ pc[a] \in Handled => sig[a] # None
        /\ pc[a] = "sleep" => a = Flusher
        /\ pc[a] = "say" => pos[a] <= Len(stacks)
        /\ pc[a] \in Opened => crashDumpFile \in Seq(Line)
        /\ loggersLock = a => pc[a] = "sleep" \/ sig[a] # None

\* The thread that collects is the origin and keeps activeThreadsLock, so that
\* those it has still to ask stay registered.
Collects ==
    /\ \A a \in Actors :
        /\ pc[a] \in Asking \cup {"lock"} => crashOriginThread = a
        /\ activeThreadsLock = a <=> pc[a] \in Asking
        /\ todo[a] # {} => pc[a] \in {"captured", "signal", "asked", "suspend"}
        /\ todo[a] \subseteq activeThreads
        /\ a \in activeThreads => pc[a] # "gone"
    /\ usr2 # {} => crashOriginThread # None

\* The collection of a lone crashed thread: one question is out at a time, and
\* every registered thread has answered, is asked, or is still to be asked.
Collection(c) ==
    /\ pc[c] \notin {"asked", "suspend"} => usr2 = {}
    /\ \A t, u \in usr2 : t = u
    /\ \A t \in usr2 \ {c} : t \notin Got /\ t \notin todo[c]
    /\ \A t \in todo[c] : t \notin Got /\ t # c
    /\ pc[c] \in Asking \ {"unlock"} =>
        c \in Got /\ activeThreads \subseteq Got \cup todo[c] \cup usr2
    /\ EachOnce(stacks)
    /\ pc[c] \notin Asking \cup {"others", "disabled", "lock", "raw", "text", "say"} => stacks = <<>>
    /\ pc[c] \in {"others", "lock"} => Got = {c}
    /\ pc[c] \in {"text", "say"} => RawIn(stacks, crashDumpFile)
LoneCrash ==
    /\ Crashed = {} => stacks = <<>> /\ usr2 = {}
    /\ \A c \in Actors : Crashed = {c} => Collection(c)

CrashInv == Types /\ Started /\ Handling /\ Collects /\ LoneCrash

-----------------------------------------------------------------------------
(* Types.                                                                  *)

LEMMA PlacesOf ==
    /\ DOMAIN After = {"report", "critical", "disabled", "captured", "gotall", "say"}
    /\ After["report"] = "open" /\ After["critical"] = "capture"
    /\ After["disabled"] = "raw" /\ After["captured"] = "signal"
    /\ After["gotall"] = "unlock" /\ After["say"] = "text"
BY DEF After

LEMMA AllPlaces ==
    PCs = {"new", "get", "init", "construct", "store", "ready", "run", "gone", "sleep",
           "timer", "caught", "display", "open", "others", "lock", "signal", "asked",
           "suspend", "unlock", "capture", "raw", "text", "say", "report", "critical",
           "disabled", "captured", "gotall"}
BY PlacesOf DEF PCs, UsesStacks

\* A crash adds one thread to those that have crashed.
LEMMA OneMore ==
    ASSUME Types, NEW a \in Actors, NEW s \in Signals, sig[a] = None,
           sig' = [sig EXCEPT ![a] = s]
    PROVE  Crashed' = Crashed \cup {a} /\ a \notin Crashed
BY DumpAssumption DEF Crashed, Types

\* Every other step leaves them alone.
LEMMA SameCrashed == ASSUME UNCHANGED sig PROVE Crashed' = Crashed
BY DEF Crashed

\* Push appends, or changes nothing.
LEMMA Pushes ==
    ASSUME stacks \in Seq(Actors), NEW a \in Actors, Push(a)
    PROVE  stacks' \in Seq(Actors) /\ (stacks' = Append(stacks, a) \/ stacks' = stacks)
BY AppendProperties DEF Push

\* The lines that flushRawStack writes, and the thread of the stack that is said.
LEMMA RawLines ==
    ASSUME stacks \in Seq(Actors)
    PROVE  [i \in DOMAIN stacks |-> [kind |-> "raw", of |-> stacks[i]]] \in Seq(Line)
<1>1. Len(stacks) \in Nat /\ DOMAIN stacks = 1 .. Len(stacks)
      /\ \A i \in 1 .. Len(stacks) : stacks[i] \in Actors
  BY LenProperties, ElementOfSeq
<1>2. \A i \in 1 .. Len(stacks) : [kind |-> "raw", of |-> stacks[i]] \in Line
  BY <1>1 DEF Line
<1>q. QED BY <1>1, <1>2

LEMMA SaidOf ==
    ASSUME stacks \in Seq(Actors), pos \in [Actors -> Nat \ {0}], NEW a \in Actors,
           pos[a] <= Len(stacks)
    PROVE  stacks[pos[a]] \in Actors
<1>1. Len(stacks) \in Nat
  BY LenProperties
<1>2. pos[a] \in 1 .. Len(stacks)
  BY <1>1
<1>q. QED BY <1>2, ElementOfSeq

LEMMA StartTypes ==
    ASSUME CrashInv, NEW a \in Actors, StartUp(a)
    PROVE  Types'
<1> USE DumpAssumption, AllPlaces DEF CrashInv, Types, Go, mgr, reg, crash, conf, asking, dump
<1>0. UNCHANGED sig => Crashed' = Crashed
  BY SameCrashed
<1>1. CASE Get(a)
  BY <1>0, <1>1 DEF Get
<1>2. CASE Construct(a)
  BY <1>0, <1>2 DEF Construct
<1>3. CASE StartWorkers(a)
  BY <1>0, <1>3 DEF StartWorkers, Actors
<1>4. CASE Store(a)
  BY <1>0, <1>4 DEF Store
<1>5. CASE Ready(a)
  BY <1>0, <1>5 DEF Ready
<1>q. QED BY <1>1, <1>2, <1>3, <1>4, <1>5 DEF StartUp

\* Steps that neither crash nor touch the dump.
LEMMA PlainTypes ==
    ASSUME CrashInv, NEW a \in Actors,
           \/ AddThread(a) \/ RemoveThread(a) \/ LockLoggers(a) \/ Flushed \/ Timer
           \/ Restore(a) \/ EnableOnlyOneDisplayer(a) \/ Claim(a) \/ LockThreads(a)
           \/ Ask(a) \/ Suspend(a) \/ UnlockThreads(a) \/ Interpret(a)
           \/ EndSegFault(a) \/ EndSegAbort(a)
    PROVE  Types'
<1> USE DumpAssumption, AllPlaces DEF CrashInv, Types, Go, mgr, reg, crash, conf, asking, dump
<1>0. UNCHANGED sig => Crashed' = Crashed
  BY SameCrashed
<1>1. CASE AddThread(a)
  BY <1>0, <1>1 DEF AddThread
<1>2. CASE RemoveThread(a)
  BY <1>0, <1>2 DEF RemoveThread
<1>3. CASE LockLoggers(a)
  BY <1>0, <1>3 DEF LockLoggers
<1>4. CASE Flushed
  BY <1>0, <1>4 DEF Flushed
<1>5. CASE Timer
  <2>1. pc' \in [Actors -> PCs]
    BY <1>5 DEF Timer, Actors
  <2>2. abortTimer' \in 0 .. Timeout
    BY <1>5 DEF Timer
  <2>3. proc' \in {"up", "exit", "timeout", "core"}
    BY <1>5 DEF Timer
  <2>q. QED BY <1>0, <1>5, <2>1, <2>2, <2>3 DEF Timer
<1>6. CASE Restore(a)
  BY <1>0, <1>6 DEF Restore
<1>7. CASE EnableOnlyOneDisplayer(a)
  BY <1>0, <1>7 DEF EnableOnlyOneDisplayer
<1>8. CASE Claim(a)
  BY <1>0, <1>8 DEF Claim
<1>9. CASE LockThreads(a)
  BY <1>0, <1>9 DEF LockThreads
<1>10. CASE Ask(a)
  <2>1. pc' \in [Actors -> PCs]
    <3>1. pc' = [pc EXCEPT ![a] = "gotall"] \/ pc' = [pc EXCEPT ![a] = "asked"]
      BY <1>10 DEF Ask
    <3>q. QED BY <3>1
  <2>2. usr2' \subseteq Actors /\ todo' \in [Actors -> SUBSET Actors]
    <3>1. CASE todo[a] = {}
      BY <1>10, <3>1 DEF Ask
    <3>2. CASE todo[a] # {}
      <4>1. PICK t \in todo[a] : usr2' = usr2 \cup {t} /\ todo' = [todo EXCEPT ![a] = todo[a] \ {t}]
        BY <1>10, <3>2 DEF Ask
      <4>q. QED BY <4>1
    <3>q. QED BY <3>1, <3>2
  <2>3. UNCHANGED <<instance, instanceLock, loggersLock, activeThreads, activeThreadsLock,
                    handler, sig, crashOriginThread, abortTimer, stacks, crashDumpFile, pos, proc>>
    BY <1>10 DEF Ask
  <2>q. QED BY <1>0, <2>1, <2>2, <2>3
<1>11. CASE Suspend(a)
  BY <1>0, <1>11 DEF Suspend
<1>12. CASE UnlockThreads(a)
  BY <1>0, <1>12 DEF UnlockThreads
<1>13. CASE Interpret(a)
  BY <1>0, <1>13 DEF Interpret
<1>14. CASE EndSegFault(a)
  BY <1>0, <1>14 DEF EndSegFault
<1>15. CASE EndSegAbort(a)
  BY <1>0, <1>15 DEF EndSegAbort
<1>q. QED BY <1>1, <1>2, <1>3, <1>4, <1>5, <1>6, <1>7, <1>8, <1>9, <1>10, <1>11, <1>12,
             <1>13, <1>14, <1>15

\* Steps that crash, or write the dump.
LEMMA DumpTypes ==
    ASSUME CrashInv, NEW a \in Actors,
           \/ \E s \in Signals : Crash(a, s)
           \/ Said(a) \/ Open(a) \/ Capture(a) \/ FlushRawStacks(a) \/ HandleStackTrace(a)
    PROVE  Types'
<1> USE DumpAssumption, AllPlaces DEF CrashInv, Types, Go, mgr, reg, crash, conf, asking, dump
<1>0. UNCHANGED sig => Crashed' = Crashed
  BY SameCrashed
<1>1. ASSUME NEW s \in Signals, Crash(a, s) PROVE Types'
  <2>1. Crashed' = Crashed \cup {a}
    BY <1>1, OneMore DEF Crash
  <2>2. IsFiniteSet(Crashed')
    <3>1. IsFiniteSet(Crashed)
      OBVIOUS
    <3>q. QED BY ONLY <2>1, <3>1, FS_AddElement
  <2>q. QED BY <1>1, <2>2 DEF Crash
<1>2. CASE Said(a)
  <2>1. pc' \in [Actors -> PCs]
    BY <1>2, PlacesOf DEF Said
  <2>2. UNCHANGED <<instance, instanceLock, activeThreadsLock, sig, handler, activeThreads,
                    usr2, todo, crashOriginThread, abortTimer, stacks, proc>>
        /\ loggersLock' = None
    BY <1>2 DEF Said
  <2>3. pos' \in [Actors -> Nat \ {0}]
    <3>1. pos' = pos \/ pos' = [pos EXCEPT ![a] = pos[a] + 1]
      BY <1>2 DEF Said
    <3>2. pos[a] + 1 \in Nat \ {0}
      OBVIOUS
    <3>q. QED BY <3>1, <3>2
  <2>4. crashDumpFile' = None \/ crashDumpFile' \in Seq(Line)
    <3>1. CASE pc[a] # "say"
      BY <1>2, <3>1 DEF Said
    <3>2. CASE pc[a] = "say"
      <4>1. pos[a] <= Len(stacks) /\ crashDumpFile \in Seq(Line)
        BY <3>2 DEF Handling, Opened, Handled
      <4>2. stacks[pos[a]] \in Actors
        BY <4>1, SaidOf
      <4>3. [kind |-> "text", of |-> stacks[pos[a]]] \in Line
        BY <4>2 DEF Line
      <4>4. crashDumpFile' = Append(crashDumpFile, [kind |-> "text", of |-> stacks[pos[a]]])
        BY <1>2, <3>2 DEF Said
      <4>q. QED BY <4>1, <4>3, <4>4, AppendProperties
    <3>q. QED BY <3>1, <3>2
  <2>q. QED BY <1>0, <2>1, <2>2, <2>3, <2>4
<1>3. CASE Open(a)
  BY <1>0, <1>3, EmptySeq DEF Open
<1>4. CASE Capture(a)
  <2>1. stacks' \in Seq(Actors)
    BY <1>4, Pushes DEF Capture
  <2>2. proc' \in {"up", "exit", "timeout", "core"}
    BY <1>4 DEF Capture, Push
  <2>q. QED BY <1>0, <1>4, <2>1, <2>2 DEF Capture
<1>5. CASE FlushRawStacks(a)
  <2> DEFINE raws == [i \in DOMAIN stacks |-> [kind |-> "raw", of |-> stacks[i]]]
  <2>1. raws \in Seq(Line)
    BY RawLines
  <2>2. crashDumpFile \in Seq(Line) /\ crashDumpFile' = crashDumpFile \o raws
    BY <1>5 DEF FlushRawStacks, Handling, Opened, Handled
  <2> HIDE DEF raws
  <2>3. crashDumpFile' \in Seq(Line)
    BY <2>1, <2>2, ConcatProperties
  <2>q. QED BY <1>0, <1>5, <2>3 DEF FlushRawStacks
<1>6. CASE HandleStackTrace(a)
  <2>1. stacks' \in Seq(Actors) /\ proc' \in {"up", "exit", "timeout", "core"}
    <3>1. Push(a) => proc' \in {"up", "exit", "timeout", "core"}
      BY DEF Push
    <3>q. QED BY <1>6, <3>1, Pushes DEF HandleStackTrace
  <2>2. usr2' \subseteq Actors
    BY <1>6 DEF HandleStackTrace, Collects
  <2>3. pc' \in [Actors -> PCs]
    BY <1>6 DEF HandleStackTrace
  <2>q. QED BY <1>0, <1>6, <2>1, <2>2, <2>3 DEF HandleStackTrace
<1>q. QED BY <1>1, <1>2, <1>3, <1>4, <1>5, <1>6

-----------------------------------------------------------------------------
(* Which steps move which thread.                                          *)

\* The steps after the start.
Later(a) ==
    \/ Flushed \/ Timer
    \/ AddThread(a) \/ RemoveThread(a) \/ Handler(a) \/ Interpret(a) \/ HandleStackTrace(a)
    \/ \E s \in Signals : Crash(a, s)

\* Every step after the start leaves the manager alone, and moves a thread that
\* has started to a place that is not of the start.
LEMMA LaterMoves ==
    ASSUME Types, NEW a \in Actors, Later(a)
    PROVE  /\ UNCHANGED <<instance, instanceLock>>
           /\ \/ pc' = pc
              \/ \E b \in Actors, to \in PCs \ (Starting \cup {"new"}) :
                    pc[b] \notin Starting \cup {"new"} /\ pc' = [pc EXCEPT ![b] = to]
<1> USE AllPlaces DEF Go, mgr, Starting, Actors
<1>1. CASE Flushed
  BY <1>1 DEF Flushed
<1>2. CASE Timer
  BY <1>2 DEF Timer
<1>3. CASE AddThread(a)
  BY <1>3 DEF AddThread
<1>4. CASE RemoveThread(a)
  BY <1>4 DEF RemoveThread
<1>5. CASE Interpret(a)
  BY <1>5 DEF Interpret
<1>6. CASE HandleStackTrace(a)
  <2>1. pc' = pc \/ (pc[a] = "suspend" /\ pc' = [pc EXCEPT ![a] = "signal"])
    BY <1>6 DEF HandleStackTrace, Types
  <2>q. QED BY <1>6, <2>1 DEF HandleStackTrace
<1>7. ASSUME NEW s \in Signals, Crash(a, s)
      PROVE  /\ UNCHANGED <<instance, instanceLock>>
             /\ \/ pc' = pc
                \/ /\ pc[a] \notin Starting \cup {"new"}
                   /\ pc' = [pc EXCEPT ![a] = "caught"]
  BY <1>7 DEF Crash
<1>8. CASE Handler(a)
  <2>1. CASE Restore(a) \/ EnableOnlyOneDisplayer(a) \/ LockLoggers(a)
    BY <2>1 DEF Restore, EnableOnlyOneDisplayer, LockLoggers
  <2>2. CASE Said(a)
    BY <2>2, PlacesOf DEF Said
  <2>3. CASE AddThread(a) \/ Open(a) \/ Capture(a)
    BY <2>3 DEF AddThread, Open, Capture
  <2>4. CASE Claim(a)
    BY <2>4 DEF Claim
  <2>5. CASE LockThreads(a) \/ Suspend(a) \/ UnlockThreads(a) \/ FlushRawStacks(a)
    BY <2>5 DEF LockThreads, Suspend, UnlockThreads, FlushRawStacks
  <2>6. CASE Ask(a)
    BY <2>6 DEF Ask
  <2>7. CASE EndSegFault(a) \/ EndSegAbort(a)
    BY <2>7 DEF EndSegFault, EndSegAbort
  <2>q. QED BY <1>8, <2>1, <2>2, <2>3, <2>4, <2>5, <2>6, <2>7 DEF Handler
<1>q. QED BY <1>1, <1>2, <1>3, <1>4, <1>5, <1>6, <1>7, <1>8 DEF Later

\* One manager: the start.
LEMMA StartedStep ==
    ASSUME CrashInv, NEW a \in Actors, StartUp(a) \/ Later(a)
    PROVE  Started'
<1> USE DumpAssumption DEF Starting, Go, mgr, Actors
<1>0. Types /\ Started /\ Main \in Actors /\ Flusher \in Actors /\ Main # Flusher
  BY DEF CrashInv
<1>t. pc \in [Actors -> PCs] /\ (a \in Threads \ {Main} => pc[a] \notin Starting)
  BY <1>0 DEF Types, Started
<1>1. CASE Later(a)
  <2>1. UNCHANGED <<instance, instanceLock>>
    BY <1>0, <1>1, LaterMoves
  <2>2. CASE pc' = pc
    BY <1>0, <2>1, <2>2 DEF Started
  <2>3. ASSUME NEW b \in Actors, NEW to \in PCs \ (Starting \cup {"new"}),
               pc[b] \notin Starting \cup {"new"}, pc' = [pc EXCEPT ![b] = to]
        PROVE  Started'
    BY <1>0, <1>t, <2>1, <2>3 DEF Started
  <2>q. QED BY <1>0, <1>1, <2>2, <2>3, LaterMoves
<1>2. CASE Get(a)
  BY <1>0, <1>t, <1>2 DEF Get, Started
<1>3. CASE Construct(a)
  BY <1>0, <1>t, <1>3 DEF Construct, Started
<1>4. CASE StartWorkers(a)
  <2>1. a = Main
    BY <1>0, <1>t, <1>4 DEF StartWorkers, Started
  <2>q. QED BY <1>0, <1>t, <1>4, <2>1 DEF StartWorkers, Started
<1>5. CASE Store(a)
  <2>1. a = Main
    BY <1>0, <1>t, <1>5 DEF Store, Started
  <2>q. QED BY <1>0, <1>t, <1>5, <2>1 DEF Store, Started
<1>6. CASE Ready(a)
  <2>1. CASE a = Flusher
    BY <1>0, <1>t, <1>6, <2>1 DEF Ready, Started
  <2>2. CASE a # Flusher
    <3>1. a = Main /\ pc[Main] = "ready"
      BY <1>0, <1>t, <1>6, <2>2 DEF Ready, Started
    <3>2. pc' = [t \in Actors |-> IF t \in Threads THEN "run" ELSE pc[t]]
      BY <1>6, <2>2 DEF Ready
    <3>3. pc'[Flusher] = pc[Flusher] /\ \A t \in Threads : pc'[t] = "run"
      BY <3>2
    <3>4. UNCHANGED <<instance, instanceLock>>
      BY <1>6 DEF Ready
    <3>q. QED BY <1>0, <3>1, <3>3, <3>4 DEF Started
  <2>q. QED BY <2>1, <2>2
<1>q. QED BY <1>1, <1>2, <1>3, <1>4, <1>5, <1>6 DEF StartUp

-----------------------------------------------------------------------------
(* What the handlers rely on.                                              *)

LEMMA HandlingStep ==
    ASSUME CrashInv, NEW a \in Actors, StartUp(a) \/ Later(a)
    PROVE  Handling'
<1> USE DumpAssumption DEF Go, mgr, reg, crash, conf, asking, dump, Handled, Opened, Asking
<1>0. Types /\ Handling /\ pc \in [Actors -> PCs] /\ sig \in [Actors -> Signals \cup {None}]
  BY DEF CrashInv, Types
<1>1. CASE Get(a)
  BY <1>0, <1>1 DEF Get, Handling
<1>2. CASE Construct(a)
  BY <1>0, <1>2 DEF Construct, Handling
<1>3. CASE StartWorkers(a)
  <2>1. a = Main /\ pc[Flusher] = "new" /\ Main # Flusher /\ Flusher \in Actors
    BY <1>0, <1>3 DEF StartWorkers, CrashInv, Started, Starting, Actors
  <2>2. /\ pc'[a] = "store" /\ pc'[Flusher] = "get"
        /\ \A b \in Actors \ {a, Flusher} : pc'[b] = pc[b]
    BY <1>0, <1>3, <2>1 DEF StartWorkers
  <2>q. QED BY <1>0, <1>3, <2>1, <2>2 DEF StartWorkers, Handling
<1>4. CASE Store(a)
  BY <1>0, <1>4 DEF Store, Handling
<1>5. CASE AddThread(a)
  BY <1>0, <1>5 DEF AddThread, Handling
<1>6. CASE RemoveThread(a)
  BY <1>0, <1>6 DEF RemoveThread, Handling
<1>7. CASE Restore(a)
  BY <1>0, <1>7 DEF Restore, Handling
<1>8. CASE EnableOnlyOneDisplayer(a)
  BY <1>0, <1>8 DEF EnableOnlyOneDisplayer, Handling
<1>9. CASE LockLoggers(a)
  BY <1>0, <1>9, PlacesOf DEF LockLoggers, Handling
<1>10. CASE Open(a)
  <2>1. crashDumpFile' \in Seq(Line)
    BY <1>0, <1>10, EmptySeq DEF Open, Types
  <2>q. QED BY <1>0, <1>10, <2>1 DEF Open, Handling
<1>11. CASE Claim(a)
  BY <1>0, <1>11 DEF Claim, Handling
<1>12. CASE LockThreads(a)
  BY <1>0, <1>12 DEF LockThreads, Handling
<1>13. CASE Ask(a)
  BY <1>0, <1>13 DEF Ask, Handling
<1>14. CASE Suspend(a)
  BY <1>0, <1>14 DEF Suspend, Handling
<1>15. CASE UnlockThreads(a)
  BY <1>0, <1>15 DEF UnlockThreads, Handling
<1>16. CASE Interpret(a)
  BY <1>0, <1>16 DEF Interpret, Handling
<1>17. CASE EndSegFault(a)
  BY <1>0, <1>17 DEF EndSegFault, Handling
<1>18. CASE EndSegAbort(a)
  BY <1>0, <1>18 DEF EndSegAbort, Handling
<1>19. CASE Ready(a)
  <2>1. CASE a = Flusher
    BY <1>0, <1>19, <2>1 DEF Ready, Handling
  <2>2. CASE a # Flusher
    <3>1. pc' = [t \in Actors |-> IF t \in Threads THEN "run" ELSE pc[t]]
      BY <1>19, <2>2 DEF Ready
    <3>2. UNCHANGED <<sig, pos, stacks, crashDumpFile, loggersLock>>
      BY <1>19 DEF Ready
    <3>3. \A t \in Actors : t \in Threads => pc[t] # "sleep"
      BY <1>0 DEF Handling
    <3>q. QED BY <1>0, <3>1, <3>2, <3>3 DEF Handling
  <2>q. QED BY <2>1, <2>2
<1>20. CASE Flushed
  BY <1>0, <1>20 DEF Flushed, Handling, Actors
<1>21. CASE Timer
  BY <1>0, <1>21 DEF Timer, Handling, Actors
<1>22. ASSUME NEW s \in Signals, Crash(a, s) PROVE Handling'
  BY <1>0, <1>22 DEF Crash, Handling
<1>23. CASE Capture(a)
  <2>1. Len(stacks) \in Nat /\ Len(stacks') \in Nat /\ Len(stacks) <= Len(stacks')
    <3>1. stacks \in Seq(Actors) /\ Push(a)
      BY <1>0, <1>23 DEF Capture, Types
    <3>q. QED BY <3>1, Pushes, AppendProperties, LenProperties
  <2>2. UNCHANGED <<sig, pos, crashDumpFile, loggersLock>> /\ pc' = [pc EXCEPT ![a] = "others"]
        /\ pc[a] = "capture"
    BY <1>23 DEF Capture
  <2>3. \A b \in Actors : pos[b] \in Nat
    BY <1>0 DEF Types
  <2>q. QED BY <1>0, <2>1, <2>2, <2>3 DEF Handling
<1>24. CASE HandleStackTrace(a)
  <2>1. Len(stacks) \in Nat /\ Len(stacks') \in Nat /\ Len(stacks) <= Len(stacks')
    <3>1. stacks \in Seq(Actors) /\ (Push(a) \/ stacks' = stacks)
      BY <1>0, <1>24 DEF HandleStackTrace, Types
    <3>q. QED BY <3>1, Pushes, AppendProperties, LenProperties
  <2>2. UNCHANGED <<sig, pos, crashDumpFile, loggersLock>>
        /\ (pc' = pc \/ (pc[a] = "suspend" /\ pc' = [pc EXCEPT ![a] = "signal"]))
    BY <1>0, <1>24 DEF HandleStackTrace
  <2>3. \A b \in Actors : pos[b] \in Nat
    BY <1>0 DEF Types
  <2>q. QED BY <1>0, <2>1, <2>2, <2>3 DEF Handling
<1>25. CASE FlushRawStacks(a)
  <2>1. crashDumpFile' \in Seq(Line)
    <3>1. Types'
      BY <1>25, DumpTypes
    <3>2. crashDumpFile \in Seq(Line)
      BY <1>0, <1>25 DEF FlushRawStacks, Handling
    <3>3. crashDumpFile' = crashDumpFile \o [i \in DOMAIN stacks |-> [kind |-> "raw", of |-> stacks[i]]]
      BY <1>25 DEF FlushRawStacks
    <3>4. [i \in DOMAIN stacks |-> [kind |-> "raw", of |-> stacks[i]]] \in Seq(Line)
      BY <1>0, RawLines DEF Types
    <3>q. QED BY <3>2, <3>3, <3>4, ConcatProperties
  <2>2. UNCHANGED <<sig, stacks, loggersLock>> /\ pc' = [pc EXCEPT ![a] = "text"]
        /\ pc[a] = "raw" /\ pos' = [pos EXCEPT ![a] = 1]
    BY <1>25 DEF FlushRawStacks
  <2>3. pos \in [Actors -> Nat \ {0}]
    BY <1>0 DEF Types
  <2>q. QED BY <1>0, <2>1, <2>2, <2>3 DEF Handling
<1>26. CASE Said(a)
  <2>1. pc[a] \in DOMAIN After /\ pc' = [pc EXCEPT ![a] = After[pc[a]]]
        /\ UNCHANGED <<sig, stacks>> /\ loggersLock' = None
    BY <1>26 DEF Said
  <2>2. pc'[a] \in {"open", "capture", "raw", "signal", "unlock", "text"}
    BY <1>0, <2>1, PlacesOf
  <2>3. pc[a] \in Handled /\ (pc'[a] \in Opened => pc[a] \in Opened) /\ a # None
    BY <1>0, <2>1, PlacesOf DEF Actors
  <2>4. crashDumpFile \in Seq(Line) => crashDumpFile' \in Seq(Line)
    <3>1. CASE pc[a] # "say"
      BY <1>26, <3>1 DEF Said
    <3>2. CASE pc[a] = "say"
      <4>1. pos[a] <= Len(stacks) /\ crashDumpFile \in Seq(Line)
        BY <1>0, <3>2 DEF Handling
      <4>2. stacks[pos[a]] \in Actors
        BY <1>0, <4>1, SaidOf DEF Types
      <4>3. [kind |-> "text", of |-> stacks[pos[a]]] \in Line
        BY <4>2 DEF Line
      <4>4. crashDumpFile' = Append(crashDumpFile, [kind |-> "text", of |-> stacks[pos[a]]])
        BY <1>26, <3>2 DEF Said
      <4>q. QED BY <4>1, <4>3, <4>4, AppendProperties
    <3>q. QED BY <3>1, <3>2
  <2>5. \A b \in Actors \ {a} : pc'[b] = pc[b] /\ pos'[b] = pos[b]
    BY <1>0, <1>26, <2>1 DEF Said, Types
  <2>6. None \notin Actors
    BY DEF Actors
  <2>7. ASSUME NEW b \in Actors \ {a}
        PROVE  /\ pc'[b] \in Handled => sig'[b] # None
               /\ pc'[b] = "sleep" => b = Flusher
               /\ pc'[b] = "say" => pos'[b] <= Len(stacks')
               /\ pc'[b] \in Opened => crashDumpFile' \in Seq(Line)
    BY <1>0, <2>1, <2>4, <2>5, <2>7 DEF Handling
  <2>8. /\ sig'[a] # None /\ pc'[a] # "sleep" /\ pc'[a] # "say"
        /\ pc'[a] \in Opened => crashDumpFile' \in Seq(Line)
    BY <1>0, <2>1, <2>2, <2>3, <2>4 DEF Handling
  <2>q. QED BY <2>1, <2>6, <2>7, <2>8 DEF Handling
<1>q. QED BY <1>1, <1>2, <1>3, <1>4, <1>5, <1>6, <1>7, <1>8, <1>9, <1>10, <1>11, <1>12,
             <1>13, <1>14, <1>15, <1>16, <1>17, <1>18, <1>19, <1>20, <1>21, <1>22, <1>23,
             <1>24, <1>25, <1>26 DEF StartUp, Later, Handler

LEMMA CollectsStep ==
    ASSUME CrashInv, NEW a \in Actors, StartUp(a) \/ Later(a)
    PROVE  Collects'
<1> USE DumpAssumption DEF Go, mgr, reg, crash, conf, asking, dump, Asking
<1>0. /\ Types /\ Collects /\ pc \in [Actors -> PCs] /\ todo \in [Actors -> SUBSET Actors]
      /\ None \notin Actors
  BY DEF CrashInv, Types, Actors
<1>1. CASE Get(a)
  BY <1>0, <1>1 DEF Get, Collects
<1>2. CASE Construct(a)
  BY <1>0, <1>2 DEF Construct, Collects
<1>3. CASE Store(a)
  BY <1>0, <1>3 DEF Store, Collects
<1>4. CASE Restore(a)
  BY <1>0, <1>4 DEF Restore, Collects
<1>5. CASE EnableOnlyOneDisplayer(a)
  BY <1>0, <1>5 DEF EnableOnlyOneDisplayer, Collects
<1>6. CASE LockLoggers(a)
  BY <1>0, <1>6 DEF LockLoggers, Collects
<1>7. CASE Open(a)
  BY <1>0, <1>7 DEF Open, Collects
<1>8. CASE Suspend(a)
  BY <1>0, <1>8 DEF Suspend, Collects
<1>9. CASE Interpret(a)
  BY <1>0, <1>9 DEF Interpret, Collects
<1>10. CASE EndSegFault(a)
  BY <1>0, <1>10 DEF EndSegFault, Collects
<1>11. CASE EndSegAbort(a)
  BY <1>0, <1>11 DEF EndSegAbort, Collects
<1>12. CASE AddThread(a)
  BY <1>0, <1>12, PlacesOf DEF AddThread, Collects
<1>13. CASE RemoveThread(a)
  BY <1>0, <1>13 DEF RemoveThread, Collects
<1>14. CASE Claim(a)
  BY <1>0, <1>14 DEF Claim, Collects
<1>15. CASE LockThreads(a)
  BY <1>0, <1>15 DEF LockThreads, Collects
<1>16. CASE UnlockThreads(a)
  BY <1>0, <1>16 DEF UnlockThreads, Collects
<1>17. CASE FlushRawStacks(a)
  BY <1>0, <1>17 DEF FlushRawStacks, Collects
<1>18. CASE StartWorkers(a)
  <2>1. a = Main /\ pc[Flusher] = "new" /\ Main # Flusher /\ Flusher \in Actors
    BY <1>0, <1>18 DEF StartWorkers, CrashInv, Started, Starting, Actors
  <2>2. /\ pc'[a] = "store" /\ pc'[Flusher] = "get"
        /\ \A b \in Actors \ {a, Flusher} : pc'[b] = pc[b]
    BY <1>0, <1>18, <2>1 DEF StartWorkers
  <2>q. QED BY <1>0, <1>18, <2>1, <2>2 DEF StartWorkers, Collects
<1>19. CASE Ready(a)
  <2>1. CASE a = Flusher
    BY <1>0, <1>19, <2>1 DEF Ready, Collects
  <2>2. CASE a # Flusher
    <3>1. pc' = [t \in Actors |-> IF t \in Threads THEN "run" ELSE pc[t]]
      BY <1>19, <2>2 DEF Ready
    <3>2. UNCHANGED <<crashOriginThread, activeThreadsLock, todo, activeThreads, usr2>>
      BY <1>19 DEF Ready
    <3>3. \A t \in Threads : pc[t] \in {"new", "ready"}
      BY <1>0, <1>19, <2>2 DEF Ready, CrashInv, Started, Starting, Actors
    <3>q. QED BY <1>0, <3>1, <3>2, <3>3 DEF Collects
  <2>q. QED BY <2>1, <2>2
<1>20. CASE Flushed
  BY <1>0, <1>20 DEF Flushed, Collects, Actors
<1>21. CASE Timer
  BY <1>0, <1>21 DEF Timer, Collects, Actors
<1>22. ASSUME NEW s \in Signals, Crash(a, s) PROVE Collects'
  BY <1>0, <1>22 DEF Crash, Collects
<1>23. CASE Capture(a)
  BY <1>0, <1>23 DEF Capture, Collects
<1>24. CASE HandleStackTrace(a)
  <2>1. /\ UNCHANGED <<crashOriginThread, activeThreadsLock, todo, activeThreads>>
        /\ (pc' = pc \/ (pc[a] = "suspend" /\ pc' = [pc EXCEPT ![a] = "signal"]))
        /\ usr2 # {}
    BY <1>0, <1>24 DEF HandleStackTrace
  <2>q. QED BY <1>0, <2>1 DEF Collects
<1>25. CASE Said(a)
  <2>1. /\ pc[a] \in DOMAIN After /\ pc' = [pc EXCEPT ![a] = After[pc[a]]]
        /\ UNCHANGED <<crashOriginThread, activeThreadsLock, todo, activeThreads, usr2>>
    BY <1>25 DEF Said
  <2>2. \/ pc[a] = "captured" /\ pc'[a] = "signal"
        \/ pc[a] = "gotall" /\ pc'[a] = "unlock"
        \/ pc[a] \notin Asking /\ pc'[a] \in {"open", "capture", "raw", "text"}
    BY <1>0, <2>1, PlacesOf
  <2>3. \A b \in Actors \ {a} : pc'[b] = pc[b]
    BY <1>0, <2>1
  <2>q. QED BY <1>0, <2>1, <2>2, <2>3 DEF Collects
<1>26. CASE Ask(a)
  <2>1. /\ pc[a] = "signal"
        /\ UNCHANGED <<crashOriginThread, activeThreadsLock, activeThreads>>
        /\ crashOriginThread = a
    BY <1>0, <1>26 DEF Ask, Collects
  <2>2. CASE todo[a] = {}
    BY <1>0, <1>26, <2>1, <2>2 DEF Ask, Collects
  <2>3. CASE todo[a] # {}
    <3>1. pc' = [pc EXCEPT ![a] = "asked"]
      BY <1>26, <2>3 DEF Ask
    <3>2. PICK t \in todo[a] : todo' = [todo EXCEPT ![a] = todo[a] \ {t}]
      BY <1>26, <2>3 DEF Ask
    <3>q. QED BY <1>0, <2>1, <3>1, <3>2 DEF Collects
  <2>q. QED BY <2>2, <2>3
<1>q. QED BY <1>1, <1>2, <1>3, <1>4, <1>5, <1>6, <1>7, <1>8, <1>9, <1>10, <1>11, <1>12,
             <1>13, <1>14, <1>15, <1>16, <1>17, <1>18, <1>19, <1>20, <1>21, <1>22, <1>23,
             <1>24, <1>25, <1>26 DEF StartUp, Later, Handler

-----------------------------------------------------------------------------
(* A lone crash.                                                           *)

\* Another stack arrives.
LEMMA OneMoreStack ==
    ASSUME stacks \in Seq(Actors), NEW a \in Actors, stacks' = Append(stacks, a),
           a \notin Got, EachOnce(stacks)
    PROVE  EachOnce(stacks') /\ Got' = Got \cup {a}
<1>1. /\ Len(stacks) \in Nat /\ DOMAIN stacks = 1 .. Len(stacks)
      /\ DOMAIN stacks' = 1 .. Len(stacks) + 1
      /\ \A i \in 1 .. Len(stacks) : stacks'[i] = stacks[i]
      /\ stacks'[Len(stacks) + 1] = a
  BY AppendProperties, LenProperties
<1> DEFINE n == Len(stacks)
<1> HIDE DEF n
<1>2. \A i \in 1 .. n : stacks'[i] = stacks[i] /\ stacks[i] # a
  BY <1>1 DEF Got, n
<1>3. /\ n \in Nat /\ DOMAIN stacks = 1 .. n /\ DOMAIN stacks' = 1 .. n + 1
      /\ stacks'[n + 1] = a
  BY <1>1 DEF n
<1>4. EachOnce(stacks')
  BY <1>2, <1>3 DEF EachOnce
<1>5. Got' = Got \cup {a}
  <2>1. \A x \in Got' : x \in Got \cup {a}
    BY <1>2, <1>3 DEF Got
  <2>2. \A x \in Got : x \in Got'
    BY <1>2, <1>3 DEF Got
  <2>3. a \in Got'
    BY <1>2, <1>3 DEF Got
  <2>q. QED BY <2>1, <2>2, <2>3
<1>q. QED BY <1>4, <1>5

LEMMA SameStacks == ASSUME UNCHANGED stacks PROVE Got' = Got
BY DEF Got

LEMMA NoStacks == stacks = <<>> => Got = {} /\ EachOnce(stacks)
BY DEF Got, EachOnce

\* With nobody in the middle of the vector, a push is an append.
LEMMA LonePush ==
    ASSUME CrashInv, NEW c \in Actors, Crashed = {c}, NEW a \in Actors, Push(a),
           a = c \/ pc[c] \notin UsesStacks
    PROVE  stacks' = Append(stacks, a)
<1>1. \A b \in Actors : pc[b] \in UsesStacks => b = c
  BY DEF CrashInv, Handling, Handled, UsesStacks, Crashed
<1>q. QED BY <1>1 DEF Push

\* Steps that leave the stacks, the questions and the registry alone.
LEMMA LoneAlone ==
    ASSUME CrashInv, NEW c \in Actors, Crashed = {c},
           UNCHANGED <<stacks, usr2, todo, crashDumpFile>>,
           activeThreads' \subseteq activeThreads \/ activeThreadsLock = None,
           pc'[c] = pc[c]
    PROVE  Collection(c)'
<1>1. Got' = Got
  BY SameStacks
<1>2. Collection(c)
  BY DEF CrashInv, LoneCrash
<1>3. activeThreadsLock = None => pc[c] \notin Asking
  BY DumpAssumption DEF CrashInv, Collects, Actors
<1>q. QED BY <1>1, <1>2, <1>3 DEF Collection, Asking

\* ... but move the thread that crashed.
LEMMA LoneMoves ==
    ASSUME CrashInv, NEW c \in Actors, Crashed = {c},
           UNCHANGED <<stacks, usr2, todo, activeThreads, crashDumpFile>>,
           \/ {pc[c], pc'[c]} \subseteq {"caught", "display", "report", "open", "critical",
                        "capture", "run", "sleep", "timer", "new", "gone"} \cup Starting
           \/ pc[c] = "others" /\ pc'[c] \in {"disabled", "lock", "raw"}
           \/ pc[c] = "disabled" /\ pc'[c] = "raw"
           \/ pc[c] = "captured" /\ pc'[c] = "signal"
           \/ pc[c] = "signal" /\ pc'[c] = "gotall"
           \/ pc[c] = "asked" /\ pc'[c] = "suspend"
           \/ pc[c] = "gotall" /\ pc'[c] = "unlock"
           \/ pc[c] = "unlock" /\ pc'[c] = "raw"
           \/ pc[c] = "text" /\ pc'[c] = "say"
    PROVE  Collection(c)'
<1>1. Got' = Got
  BY SameStacks
<1>2. Collection(c)
  BY DEF CrashInv, LoneCrash
<1>q. QED BY <1>1, <1>2 DEF Collection, Asking, Starting

\* Before the first crash nobody collects.
LEMMA NoCrashStep ==
    ASSUME CrashInv, NEW a \in Actors, StartUp(a) \/ Later(a), Crashed' = {}
    PROVE  stacks' = <<>> /\ usr2' = {}
<1>1. Crashed = {}
  <2>1. ASSUME NEW s \in Signals, Crash(a, s) PROVE FALSE
    BY <2>1, OneMore DEF Crash, CrashInv
  <2>2. UNCHANGED sig \/ \E s \in Signals : Crash(a, s)
    BY DEF StartUp, Get, Construct, StartWorkers, Store, Ready, Later, Flushed, Timer,
           AddThread, RemoveThread, Handler, Restore, EnableOnlyOneDisplayer, LockLoggers,
           Said, Open, Capture, Claim, LockThreads, Ask, Suspend, UnlockThreads,
           FlushRawStacks, EndSegFault, EndSegAbort, Interpret, HandleStackTrace, crash, dump
  <2>q. QED BY <2>1, <2>2, SameCrashed
<1>2. stacks = <<>> /\ usr2 = {} /\ \A b \in Actors : pc[b] \notin Handled
  BY <1>1 DEF CrashInv, LoneCrash, Handling, Crashed
<1>3. pc[a] # "capture" /\ pc[a] # "signal"
  BY <1>2 DEF Handled, Asking
<1>4. ~Capture(a) /\ ~Ask(a) /\ ~HandleStackTrace(a)
  BY <1>2, <1>3 DEF Capture, Ask, HandleStackTrace, Go
<1>5. stacks' = stacks
  BY <1>4 DEF StartUp, Get, Construct, StartWorkers, Store, Ready, Later, Flushed, Timer,
           AddThread, RemoveThread, Handler, Restore, EnableOnlyOneDisplayer, LockLoggers,
           Said, Open, Claim, LockThreads, Suspend, UnlockThreads, Crash,
           FlushRawStacks, EndSegFault, EndSegAbort, Interpret, dump
<1>6. usr2' = usr2 \/ usr2' = usr2 \ {a}
  BY <1>4 DEF StartUp, Get, Construct, StartWorkers, Store, Ready, Later, Flushed, Timer,
           AddThread, RemoveThread, Handler, Restore, EnableOnlyOneDisplayer, LockLoggers,
           Said, Open, Claim, LockThreads, Suspend, UnlockThreads, Crash,
           FlushRawStacks, EndSegFault, EndSegAbort, Interpret, asking
<1>q. QED BY <1>2, <1>5, <1>6

\* The first crash.
LEMMA FirstCrash ==
    ASSUME CrashInv, NEW a \in Actors, NEW s \in Signals, Crash(a, s),
           NEW c \in Actors, Crashed' = {c}
    PROVE  Collection(c)'
<1>1. a = c /\ Crashed = {}
  BY OneMore DEF Crash, CrashInv
<1>2. stacks = <<>> /\ usr2 = {} /\ todo[c] = {}
  <2>1. pc[c] \notin Handled
    BY <1>1 DEF CrashInv, Handling, Crashed
  <2>q. QED BY <1>1, <2>1 DEF CrashInv, LoneCrash, Collects, Handled, Asking
<1>3. pc'[c] \in {"caught", "run", "sleep", "timer"} /\ UNCHANGED <<stacks, usr2, todo>>
  BY <1>1 DEF Crash, CrashInv, Types, dump, asking
<1>4. Got' = {} /\ EachOnce(stacks') /\ stacks' = <<>> /\ usr2' = {} /\ todo'[c] = {}
  BY <1>2, <1>3, NoStacks, SameStacks
<1>q. QED BY <1>3, <1>4 DEF Collection, Asking

LEMMA LoneStart ==
    ASSUME CrashInv, NEW a \in Actors, NEW c \in Actors, Crashed = {c}, StartUp(a)
    PROVE  Collection(c)'
<1> USE AllPlaces DEF CrashInv, Types, Go, mgr, asking, dump, reg
<1>0. UNCHANGED <<stacks, usr2, todo, activeThreads, crashDumpFile>>
  BY DEF StartUp, Get, Construct, StartWorkers, Store, Ready
<1>1. CASE pc'[c] = pc[c]
  BY <1>0, <1>1, LoneAlone
<1>2. CASE pc'[c] # pc[c]
  <2> DEFINE P == {"run", "sleep", "new"} \cup Starting
  <2>1. pc[c] \in P /\ pc'[c] \in P
    <3>1. CASE Get(a) \/ Construct(a) \/ Store(a)
      BY <1>2, <3>1 DEF Get, Construct, Store, Starting
    <3>2. CASE StartWorkers(a)
      <4>1. a = Main /\ pc[Flusher] = "new"
        BY <3>2, DumpAssumption DEF StartWorkers, Started, Starting, Actors
      <4>q. QED BY <1>2, <3>2, <4>1, DumpAssumption DEF StartWorkers, Starting, Actors
    <3>3. CASE Ready(a)
      <4>1. CASE a = Flusher
        BY <1>2, <3>3, <4>1 DEF Ready, Starting
      <4>2. CASE a # Flusher
        <5>1. \A t \in Threads : pc[t] \in {"new", "ready"}
          BY <3>3, <4>2, DumpAssumption DEF Ready, Started, Starting, Actors
        <5>q. QED BY <1>2, <3>3, <4>2, <5>1 DEF Ready, Starting
      <4>q. QED BY <4>1, <4>2
    <3>q. QED BY <3>1, <3>2, <3>3 DEF StartUp
  <2>q. QED BY <1>0, <2>1, LoneMoves
<1>q. QED BY <1>1, <1>2

\* Whoever is in a handler has crashed.
LEMMA OnlyOne ==
    ASSUME CrashInv, NEW c \in Actors, Crashed = {c}, NEW a \in Actors, pc[a] \in Handled
    PROVE  a = c
BY DEF CrashInv, Handling, Crashed

\* Steps of the flushing thread and of the registry.
LEMMA LoneOthers ==
    ASSUME CrashInv, NEW c \in Actors, Crashed = {c}, NEW a \in Actors,
           Flushed \/ Timer \/ AddThread(a) \/ RemoveThread(a) \/ LockLoggers(a)
              \/ EndSegFault(a) \/ EndSegAbort(a)
    PROVE  Collection(c)'
<1>0. pc \in [Actors -> PCs] /\ Flusher \in Actors
  BY DEF CrashInv, Types, Actors
<1>1. CASE Flushed
  <2>1. pc[Flusher] = "sleep" /\ pc' = [pc EXCEPT ![Flusher] = "timer"]
        /\ UNCHANGED <<stacks, usr2, todo, activeThreads, crashDumpFile>>
    BY <1>1 DEF Flushed, Go, dump, asking, reg
  <2>2. CASE c = Flusher
    BY <1>0, <2>1, <2>2, LoneMoves
  <2>3. CASE c # Flusher
    BY <1>0, <2>1, <2>3, LoneAlone
  <2>q. QED BY <2>2, <2>3
<1>2. CASE Timer
  <2>1. pc[Flusher] = "timer" /\ pc' = [pc EXCEPT ![Flusher] = "sleep"]
        /\ UNCHANGED <<stacks, usr2, todo, activeThreads, crashDumpFile>>
    BY <1>2 DEF Timer, Go, dump, asking, reg
  <2>2. CASE c = Flusher
    BY <1>0, <2>1, <2>2, LoneMoves
  <2>3. CASE c # Flusher
    BY <1>0, <2>1, <2>3, LoneAlone
  <2>q. QED BY <2>2, <2>3
<1>3. CASE AddThread(a)
  <2>1. activeThreadsLock = None /\ pc' = pc /\ UNCHANGED <<stacks, usr2, todo, crashDumpFile>>
    BY <1>3 DEF AddThread, dump, asking
  <2>q. QED BY <2>1, LoneAlone
<1>4. CASE RemoveThread(a)
  <2>1. /\ activeThreadsLock = None /\ usr2' = usr2 \ {a}
        /\ pc[a] = "run" /\ pc' = [pc EXCEPT ![a] = "gone"]
        /\ UNCHANGED <<stacks, todo, crashDumpFile>>
    BY <1>4 DEF RemoveThread, Go, dump
  <2>2. pc[c] \notin Asking
    BY <2>1, DumpAssumption DEF CrashInv, Collects, Actors
  <2>3. Collection(c) /\ usr2 = {} /\ usr2' = usr2
    BY <2>1, <2>2 DEF CrashInv, LoneCrash, Collection, Asking
  <2>4. CASE c # a
    BY <1>0, <2>1, <2>3, <2>4, LoneAlone
  <2>5. CASE c = a
    <3>1. pc[c] = "run" /\ pc'[c] = "gone" /\ Got' = Got
      BY <1>0, <2>1, <2>5, SameStacks
    <3>q. QED BY <2>1, <2>3, <3>1 DEF Collection, Asking
  <2>q. QED BY <2>4, <2>5
<1>5. CASE LockLoggers(a) \/ EndSegFault(a) \/ EndSegAbort(a)
  <2>1. pc' = pc /\ UNCHANGED <<stacks, usr2, todo, crashDumpFile, activeThreads>>
    BY <1>5 DEF LockLoggers, EndSegFault, EndSegAbort, dump, asking, reg
  <2>q. QED BY <2>1, LoneAlone
<1>q. QED BY <1>1, <1>2, <1>3, <1>4, <1>5

\* What is in the file stays in it.
LEMMA StillIn ==
    ASSUME NEW st, NEW file \in Seq(Line), NEW more \in Seq(Line), RawIn(st, file)
    PROVE  RawIn(st, file \o more)
<1>1. /\ DOMAIN file = 1 .. Len(file) /\ Len(file) \in Nat /\ Len(more) \in Nat
      /\ DOMAIN (file \o more) = 1 .. Len(file) + Len(more)
      /\ \A j \in 1 .. Len(file) : (file \o more)[j] = file[j]
  BY ConcatProperties, LenProperties
<1> DEFINE f == file \o more
<1> HIDE DEF f
<1>2. DOMAIN file \subseteq DOMAIN f /\ \A j \in DOMAIN file : f[j] = file[j]
  BY <1>1 DEF f
<1>3. RawIn(st, f)
  BY <1>2 DEF RawIn
<1>q. QED BY <1>3 DEF f

\* The raw stacks, once written, are in it.
LEMMA NowIn ==
    ASSUME NEW st \in Seq(Actors), NEW file \in Seq(Line)
    PROVE  RawIn(st, file \o [i \in DOMAIN st |-> [kind |-> "raw", of |-> st[i]]])
<1> DEFINE raws == [i \in DOMAIN st |-> [kind |-> "raw", of |-> st[i]]]
<1> DEFINE f == file \o raws
<1>0. Len(st) \in Nat /\ DOMAIN st = 1 .. Len(st)
      /\ \A i \in 1 .. Len(st) : st[i] \in Actors
  BY LenProperties, ElementOfSeq
<1>1. raws \in Seq(Line) /\ Len(raws) = Len(st)
  <2>1. \A i \in 1 .. Len(st) : [kind |-> "raw", of |-> st[i]] \in Line
    BY <1>0 DEF Line
  <2>q. QED BY <1>0, <2>1
<1>2. \A i \in DOMAIN st : raws[i] = [kind |-> "raw", of |-> st[i]]
  OBVIOUS
<1> HIDE DEF raws
<1>3. /\ Len(file) \in Nat /\ DOMAIN f = 1 .. Len(file) + Len(st)
      /\ \A i \in 1 .. Len(st) : f[Len(file) + i] = raws[i]
  <2>1. /\ f \in Seq(Line) /\ Len(f) = Len(file) + Len(raws)
        /\ \A i \in 1 .. Len(f) : f[i] = IF i <= Len(file) THEN file[i] ELSE raws[i - Len(file)]
    BY <1>1, ConcatProperties
  <2>2. Len(file) \in Nat
    BY LenProperties
  <2> HIDE DEF f
  <2>3. DOMAIN f = 1 .. Len(f)
    BY <2>1, LenProperties
  <2>4. ASSUME NEW i \in 1 .. Len(st) PROVE f[Len(file) + i] = raws[i]
    <3>1. /\ Len(file) + i \in 1 .. Len(f) /\ ~(Len(file) + i <= Len(file))
          /\ (Len(file) + i) - Len(file) = i
      BY <1>0, <1>1, <2>1, <2>2
    <3>q. QED BY <2>1, <3>1
  <2>q. QED BY <1>1, <2>1, <2>2, <2>3, <2>4
<1> HIDE DEF f
<1>4. ASSUME NEW i \in DOMAIN st
      PROVE  \E j \in DOMAIN f : f[j] = [kind |-> "raw", of |-> st[i]]
  <2>1. Len(file) + i \in DOMAIN f
    BY <1>0, <1>3
  <2>2. f[Len(file) + i] = [kind |-> "raw", of |-> st[i]]
    BY <1>0, <1>2, <1>3
  <2>q. QED BY <2>1, <2>2
<1>q. QED BY <1>4 DEF RawIn, f, raws

\* The handler up to the questions.
LEMMA LoneHandles ==
    ASSUME CrashInv, NEW c \in Actors, Crashed = {c}, NEW a \in Actors,
           \/ Restore(a) \/ EnableOnlyOneDisplayer(a) \/ Open(a) \/ Capture(a) \/ Claim(a)
           \/ Suspend(a) \/ UnlockThreads(a) \/ Interpret(a)
    PROVE  Collection(c)'
<1> USE DEF Go, dump, asking, reg
<1>0. pc \in [Actors -> PCs] /\ Collection(c) /\ stacks \in Seq(Actors)
  BY DEF CrashInv, Types, LoneCrash
<1>1. a = c
  <2>1. pc[a] \in Handled
    BY DEF Restore, EnableOnlyOneDisplayer, Open, Capture, Claim, Suspend, UnlockThreads,
           Interpret, Handled, Asking
  <2>q. QED BY <2>1, OnlyOne
<1>2. CASE Restore(a) \/ EnableOnlyOneDisplayer(a) \/ Suspend(a) \/ UnlockThreads(a) \/ Interpret(a)
  <2>1. UNCHANGED <<stacks, usr2, todo, activeThreads, crashDumpFile>>
    BY <1>2 DEF Restore, EnableOnlyOneDisplayer, Suspend, UnlockThreads, Interpret
  <2>2. \/ pc[c] = "caught" /\ pc'[c] = "display"
        \/ pc[c] = "display" /\ pc'[c] = "report"
        \/ pc[c] = "asked" /\ pc'[c] = "suspend"
        \/ pc[c] = "unlock" /\ pc'[c] = "raw"
        \/ pc[c] = "text" /\ pc'[c] = "say"
    BY <1>0, <1>1, <1>2 DEF Restore, EnableOnlyOneDisplayer, Suspend, UnlockThreads, Interpret
  <2>q. QED BY <2>1, <2>2, LoneMoves
<1>3. CASE Open(a)
  <2>1. pc[c] = "open" /\ pc'[c] = "critical" /\ UNCHANGED <<stacks, usr2, todo, activeThreads>>
    BY <1>0, <1>1, <1>3 DEF Open
  <2>2. Got' = Got
    BY <2>1, SameStacks
  <2>q. QED BY <1>0, <2>1, <2>2 DEF Collection, Asking
<1>4. CASE Capture(a)
  <2>1. pc[c] = "capture" /\ pc'[c] = "others" /\ UNCHANGED <<usr2, todo, activeThreads>> /\ Push(c)
    BY <1>0, <1>1, <1>4 DEF Capture
  <2>2. stacks = <<>> /\ usr2 = {} /\ stacks' = Append(stacks, c)
    BY <1>0, <2>1, LonePush DEF Collection, Asking
  <2>3. EachOnce(stacks') /\ Got' = {c}
    BY <1>0, <2>2, NoStacks, OneMoreStack
  <2>4. todo[c] = {}
    BY <2>1 DEF CrashInv, Collects
  <2>q. QED BY <2>1, <2>2, <2>3, <2>4 DEF Collection, Asking
<1>5. CASE Claim(a)
  <2>1. UNCHANGED <<stacks, usr2, todo, activeThreads, crashDumpFile>>
    BY <1>5 DEF Claim
  <2>2. pc[c] = "others" /\ pc'[c] \in {"disabled", "lock", "raw"}
    BY <1>0, <1>1, <1>5 DEF Claim
  <2>q. QED BY <2>1, <2>2, LoneMoves
<1>q. QED BY <1>2, <1>3, <1>4, <1>5

\* The questions: one at a time, to everyone that is registered.
LEMMA LoneAsks ==
    ASSUME CrashInv, NEW c \in Actors, Crashed = {c}, NEW a \in Actors,
           LockThreads(a) \/ Ask(a) \/ HandleStackTrace(a)
    PROVE  Collection(c)'
<1> USE DEF Go, dump, asking, reg
<1>0. /\ pc \in [Actors -> PCs] /\ Collection(c) /\ stacks \in Seq(Actors)
      /\ todo \in [Actors -> SUBSET Actors] /\ usr2 \subseteq Actors
  BY DEF CrashInv, Types, LoneCrash
<1>1. CASE LockThreads(a)
  <2>1. a = c
    BY <1>1, OnlyOne DEF LockThreads, Handled
  <2>2. /\ pc[c] = "lock" /\ pc'[c] = "captured" /\ todo'[c] = activeThreads \ {c}
        /\ UNCHANGED <<stacks, usr2, activeThreads, crashDumpFile>>
    BY <1>0, <1>1, <2>1 DEF LockThreads
  <2>3. Got' = {c} /\ usr2 = {}
    BY <1>0, <2>2, SameStacks DEF Collection
  <2>q. QED BY <1>0, <2>2, <2>3 DEF Collection, Asking
<1>2. CASE Ask(a)
  <2>1. a = c
    BY <1>2, OnlyOne DEF Ask, Handled, Asking
  <2>2. pc[c] = "signal" /\ UNCHANGED <<stacks, activeThreads, crashDumpFile>> /\ usr2 = {}
    BY <1>0, <1>2, <2>1 DEF Ask, Collection
  <2>3. Got' = Got
    BY <2>2, SameStacks
  <2>4. CASE todo[c] = {}
    <3>1. pc'[c] = "gotall" /\ UNCHANGED <<todo, usr2>>
      BY <1>0, <1>2, <2>1, <2>4 DEF Ask
    <3>q. QED BY <2>2, <3>1, LoneMoves
  <2>5. CASE todo[c] # {}
    <3>1. pc'[c] = "asked"
      BY <1>0, <1>2, <2>1, <2>5 DEF Ask
    <3>2. PICK t \in todo[c] : usr2' = usr2 \cup {t} /\ todo' = [todo EXCEPT ![c] = todo[c] \ {t}]
      BY <1>2, <2>1, <2>5 DEF Ask
    <3>3. usr2' = {t} /\ todo'[c] = todo[c] \ {t}
      BY <1>0, <2>2, <3>2
    <3>q. QED BY <1>0, <2>2, <2>3, <3>1, <3>3 DEF Collection, Asking
  <2>q. QED BY <2>4, <2>5
<1>3. CASE HandleStackTrace(a)
  <2>1. a \in usr2 /\ UNCHANGED <<todo, activeThreads, crashDumpFile, crashOriginThread>>
    BY <1>3 DEF HandleStackTrace
  <2>2. pc[c] \in {"asked", "suspend"} /\ usr2 = {a}
    BY <1>0, <2>1 DEF Collection
  <2>3. crashOriginThread = c
    BY <2>2 DEF CrashInv, Collects, Asking
  <2>4. CASE a = c
    <3>1. usr2' = {} /\ UNCHANGED stacks /\ pc'[c] \in {"asked", "signal"}
      BY <1>0, <1>3, <2>2, <2>3, <2>4 DEF HandleStackTrace
    <3>2. Got' = Got
      BY <3>1, SameStacks
    <3>q. QED BY <1>0, <2>1, <2>2, <2>4, <3>1, <3>2 DEF Collection, Asking
  <2>5. CASE a # c
    <3>1. usr2' = {c} /\ Push(a) /\ pc' = pc
      BY <1>3, <2>2, <2>3, <2>5 DEF HandleStackTrace
    <3>2. a \notin Got /\ EachOnce(stacks)
      BY <1>0, <2>2, <2>5 DEF Collection
    <3>3. stacks' = Append(stacks, a)
      BY <2>2, <3>1, LonePush DEF UsesStacks
    <3>4. EachOnce(stacks') /\ Got' = Got \cup {a}
      BY <1>0, <3>2, <3>3, OneMoreStack
    <3>q. QED BY <1>0, <2>1, <2>2, <2>5, <3>1, <3>4 DEF Collection, Asking
  <2>q. QED BY <2>4, <2>5
<1>q. QED BY <1>1, <1>2, <1>3

\* The dump: first every raw stack, then one interpreted stack after the other.
LEMMA LoneWrites ==
    ASSUME CrashInv, NEW c \in Actors, Crashed = {c}, NEW a \in Actors,
           FlushRawStacks(a) \/ Said(a)
    PROVE  Collection(c)'
<1> USE DEF Go, dump, asking, reg
<1>0. pc \in [Actors -> PCs] /\ Collection(c) /\ stacks \in Seq(Actors)
  BY DEF CrashInv, Types, LoneCrash
<1>1. CASE FlushRawStacks(a)
  <2>1. a = c
    BY <1>1, OnlyOne DEF FlushRawStacks, Handled
  <2>2. /\ pc[c] = "raw" /\ pc'[c] = "text" /\ UNCHANGED <<stacks, usr2, todo, activeThreads>>
        /\ crashDumpFile' = crashDumpFile \o
                [i \in DOMAIN stacks |-> [kind |-> "raw", of |-> stacks[i]]]
    BY <1>0, <1>1, <2>1 DEF FlushRawStacks
  <2>3. crashDumpFile \in Seq(Line)
    BY <2>2 DEF CrashInv, Handling, Opened, Handled
  <2>4. RawIn(stacks, crashDumpFile')
    BY <1>0, <2>2, <2>3, NowIn
  <2>5. Got' = Got
    BY <2>2, SameStacks
  <2>q. QED BY <1>0, <2>2, <2>4, <2>5 DEF Collection, Asking
<1>2. CASE Said(a)
  <2>1. /\ pc[a] \in DOMAIN After /\ pc' = [pc EXCEPT ![a] = After[pc[a]]]
        /\ UNCHANGED <<stacks, usr2, todo, activeThreads>>
    BY <1>2 DEF Said
  <2>2. a = c
    BY <2>1, PlacesOf, OnlyOne DEF Handled, Asking
  <2>3. CASE pc[c] # "say"
    <3>1. UNCHANGED crashDumpFile
      BY <1>2, <2>2, <2>3 DEF Said
    <3>2. \/ pc[c] = "report" /\ pc'[c] = "open"
          \/ pc[c] = "critical" /\ pc'[c] = "capture"
          \/ pc[c] = "disabled" /\ pc'[c] = "raw"
          \/ pc[c] = "captured" /\ pc'[c] = "signal"
          \/ pc[c] = "gotall" /\ pc'[c] = "unlock"
      BY <1>0, <2>1, <2>2, <2>3, PlacesOf
    <3>q. QED BY <2>1, <3>1, <3>2, LoneMoves
  <2>4. CASE pc[c] = "say"
    <3>1. /\ crashDumpFile' = Append(crashDumpFile, [kind |-> "text", of |-> stacks[pos[c]]])
          /\ pc'[c] = "text"
      BY <1>0, <1>2, <2>1, <2>2, <2>4, PlacesOf DEF Said
    <3>2. pos[c] <= Len(stacks) /\ crashDumpFile \in Seq(Line) /\ pos \in [Actors -> Nat \ {0}]
      BY <2>4 DEF CrashInv, Types, Handling, Opened, Handled
    <3>3. PICK e \in Line : e = [kind |-> "text", of |-> stacks[pos[c]]]
      BY <1>0, <3>2, SaidOf DEF Line
    <3>4. crashDumpFile' = crashDumpFile \o <<e>> /\ <<e>> \in Seq(Line)
      BY <3>1, <3>2, <3>3, AppendIsConcat
    <3>5. RawIn(stacks, crashDumpFile)
      BY <1>0, <2>4 DEF Collection
    <3>6. RawIn(stacks, crashDumpFile')
      BY <3>2, <3>4, <3>5, StillIn
    <3>7. Got' = Got
      BY <2>1, SameStacks
    <3>q. QED BY <1>0, <2>1, <2>4, <3>1, <3>6, <3>7 DEF Collection, Asking
  <2>q. QED BY <2>3, <2>4
<1>q. QED BY <1>1, <1>2

LEMMA LoneStep ==
    ASSUME CrashInv, NEW a \in Actors, StartUp(a) \/ Later(a)
    PROVE  LoneCrash'
<1>1. Crashed' = {} => stacks' = <<>> /\ usr2' = {}
  BY NoCrashStep
<1>2. ASSUME NEW c \in Actors, Crashed' = {c} PROVE Collection(c)'
  <2>1. CASE \E s \in Signals : Crash(a, s)
    BY <1>2, <2>1, FirstCrash
  <2>2. CASE ~\E s \in Signals : Crash(a, s)
    <3>1. UNCHANGED sig
      BY <2>2 DEF StartUp, Get, Construct, StartWorkers, Store, Ready, Later, Flushed, Timer,
           AddThread, RemoveThread, Handler, Restore, EnableOnlyOneDisplayer, LockLoggers,
           Said, Open, Capture, Claim, LockThreads, Ask, Suspend, UnlockThreads,
           FlushRawStacks, EndSegFault, EndSegAbort, Interpret, HandleStackTrace, crash
    <3>2. Crashed = {c}
      BY <1>2, <3>1, SameCrashed
    <3>q. QED BY <2>2, <3>2, LoneStart, LoneOthers, LoneHandles, LoneAsks, LoneWrites
              DEF Later, Handler
  <2>q. QED BY <2>1, <2>2
<1>q. QED BY <1>1, <1>2 DEF LoneCrash

-----------------------------------------------------------------------------

LEMMA InitHolds == Init => CrashInv
<1> SUFFICES ASSUME Init PROVE CrashInv
  OBVIOUS
<1> USE DumpAssumption
<1>1. Crashed = {} /\ IsFiniteSet(Crashed)
  <2>1. Crashed = {}
    BY DEF Init, Crashed
  <2>q. QED BY <2>1, FS_EmptySet
<1>2. Types
  BY <1>1, AllPlaces, EmptySeq DEF Init, Types
<1>3. Started
  BY DEF Init, Started, Starting, Actors
<1>4. Handling
  BY DEF Init, Handling, Handled, Opened, Asking, Actors
<1>5. Collects
  BY DEF Init, Collects, Asking, Actors
<1>6. LoneCrash
  <2>1. \A c \in Actors : Crashed # {c}
    BY <1>1
  <2>q. QED BY <2>1 DEF Init, LoneCrash
<1>q. QED BY <1>2, <1>3, <1>4, <1>5, <1>6 DEF CrashInv

LEMMA StepKeeps == CrashInv /\ [Next]_vars => CrashInv'
<1> SUFFICES ASSUME CrashInv, [Next]_vars PROVE CrashInv'
  OBVIOUS
<1>1. ASSUME NEW a \in Actors, StartUp(a) \/ Later(a) PROVE CrashInv'
  <2>1. Types'
    <3>1. CASE StartUp(a)
      BY <3>1, StartTypes
    <3>2. CASE Later(a)
      BY <3>2, PlainTypes, DumpTypes DEF Later, Handler
    <3>q. QED BY <1>1, <3>1, <3>2
  <2>q. QED BY <1>1, <2>1, StartedStep, HandlingStep, CollectsStep, LoneStep DEF CrashInv
<1>2. CASE UNCHANGED vars
  <2>1. /\ UNCHANGED <<instance, instanceLock, loggersLock, activeThreads, activeThreadsLock,
                       handler, sig, crashOriginThread, todo, usr2, abortTimer>>
        /\ UNCHANGED <<stacks, crashDumpFile, pos, pc, proc>>
    BY <1>2 DEF vars, mgr, reg, crash, asking, dump
  <2>2. Crashed' = Crashed /\ Got' = Got
    BY <2>1, SameCrashed, SameStacks
  <2>3. Types' /\ Started'
    BY <2>1, <2>2 DEF CrashInv, Types, Started
  <2>4. Handling' /\ Collects'
    BY <2>1 DEF CrashInv, Handling, Collects
  <2>5. LoneCrash'
    BY <2>1, <2>2 DEF CrashInv, LoneCrash, Collection
  <2>q. QED BY <2>3, <2>4, <2>5 DEF CrashInv
<1>3. CASE Next
  <2>1. Flusher \in Actors
    BY DEF Actors
  <2>2. CASE FlushWorker
    BY <1>1, <2>1, <2>2 DEF FlushWorker, Later, Handler
  <2>3. ASSUME NEW a \in Actors,
               \/ StartUp(a) \/ AddThread(a) \/ RemoveThread(a) \/ Handler(a)
               \/ Interpret(a) \/ HandleStackTrace(a)
               \/ \E s \in Signals : Crash(a, s)
        PROVE  StartUp(a) \/ Later(a)
    BY <2>3 DEF Later
  <2>q. QED BY <1>1, <1>3, <2>2, <2>3 DEF Next
<1>q. QED BY <1>2, <1>3

LEMMA Invariant == Spec => []CrashInv
BY InitHolds, StepKeeps, PTL DEF Spec

\* SimpleLoggerMgr::get() and flushWorker: there is one manager and one flushing
\* thread, and one thread collects, for every number of threads and crashes.
THEOREM OneManagerOneCollector == Spec => []OneOfEach
<1>1. CrashInv => OneOfEach
  <2> SUFFICES ASSUME CrashInv PROVE OneOfEach
    OBVIOUS
  <2>1. TypeOK
    <3>1. Types /\ Handling /\ Collects
      BY DEF CrashInv
    <3>2. loggersLock # None => pc[loggersLock] \in DOMAIN After \cup {"sleep"}
                                \/ sig[loggersLock] # None
      BY <3>1 DEF Types, Handling
    <3>3. activeThreadsLock # None => pc[activeThreadsLock] \in Asking
      BY <3>1 DEF Types, Collects
    <3>4. pos \in [Actors -> Nat]
      BY <3>1 DEF Types
    <3>q. QED BY <3>1, <3>2, <3>3, <3>4 DEF Types, TypeOK, Asking, Line
  <2>2. instance <= 1
    BY DEF CrashInv, Started
  <2>3. \A a, b \in Actors : Collecting(a) /\ Collecting(b) => a = b
    BY DEF CrashInv, Collects, Collecting, Asking
  <2>q. QED BY <2>1, <2>2, <2>3 DEF OneOfEach
<1>q. QED BY <1>1, Invariant, PTL

\* logStackBackTraceOtherThreads: pthread_kill never goes to a thread that has
\* ended, because the caller holds activeThreadsLock.
THEOREM NobodyAsksTheDead == Spec => []AsksLiving
<1>1. CrashInv => AsksLiving
  BY DEF CrashInv, Types, Collects, AsksLiving
<1>q. QED BY <1>1, Invariant, PTL

LEMMA LoneIs == ASSUME CrashInv, Lone PROVE \E c \in Actors : Crashed = {c} /\ Collection(c)
<1>1. IsFiniteSet(Crashed) /\ Crashed \subseteq Actors
  BY DEF CrashInv, Types, Crashed
<1>2. PICK c : Crashed = {c}
  BY <1>1, FS_Singleton DEF Lone
<1>q. QED BY <1>1, <1>2 DEF CrashInv, LoneCrash

\* When the only thread that crashes is through with asking, it has the stack of
\* every registered thread, each once.
THEOREM LoneDumpComplete == Spec => []StacksComplete
<1>1. CrashInv => StacksComplete
  <2> SUFFICES ASSUME CrashInv, Lone
               PROVE  /\ EachOnce(stacks)
                      /\ \A a \in Crashed : pc[a] = "gotall" => activeThreads \subseteq Got
    BY DEF StacksComplete, EachOnce, Got
  <2>1. PICK c \in Actors : Crashed = {c} /\ Collection(c)
    BY LoneIs
  <2>2. pc[c] = "gotall" => todo[c] = {} /\ usr2 = {}
    BY <2>1 DEF CrashInv, Collects, Collection
  <2>q. QED BY <2>1, <2>2 DEF Collection, Asking
<1>q. QED BY <1>1, Invariant, PTL

\* "For the case where addr2line is hanging, flush raw pointer first": when the
\* only thread that crashes interprets, every raw stack is in the file.
THEOREM RawFirst == Spec => []RawSurvives
<1>1. CrashInv => RawSurvives
  <2> SUFFICES ASSUME CrashInv, Lone, NEW a \in Crashed, pc[a] \in {"text", "say"}
               PROVE  RawIn(stacks, crashDumpFile)
    BY DEF RawSurvives, RawIn
  <2>1. PICK c \in Actors : Crashed = {c} /\ Collection(c)
    BY LoneIs
  <2>q. QED BY <2>1 DEF Collection
<1>q. QED BY <1>1, Invariant, PTL

-----------------------------------------------------------------------------
(* Text in buffers of a fixed size.                                        *)

\* A set of numbers has a least one.
LEMMA Least ==
    ASSUME NEW S, S \subseteq Nat, S # {}
    PROVE  \E r \in S : \A s \in S : r <= s
<1> DEFINE R == {ss \in Nat \X Nat : ss[1] < ss[2]}
<1>1. IsWellFoundedOn(R, Nat)
  BY NatLessThanWellFounded DEF OpToRel
<1> HIDE DEF R
<1>2. PICK r \in S : \A y \in S : ~(<<y, r>> \in R)
  BY <1>1, WFMin
<1>3. \A y \in S : ~(y < r)
  BY <1>2 DEF R
<1>q. QED BY <1>3

\* A loop of n rounds, each a function on S: it runs through states of S.
Runs(f, start, n, step) == f[0] = start /\ \A i \in 1 .. n : f[i] = step[i][f[i - 1]]
LEMMA Loop ==
    ASSUME NEW S, NEW start \in S, NEW n \in Nat, NEW step \in [1 .. n -> [S -> S]]
    PROVE  \E f \in [0 .. n -> S] : Runs(f, start, n, step)
<1> DEFINE Bad == {m \in 0 .. n : ~\E f \in [0 .. m -> S] : Runs(f, start, m, step)}
<1>1. SUFFICES ASSUME Bad # {} PROVE FALSE
  BY <1>1
<1>2. PICK m \in Bad : \A k \in Bad : m <= k
  <2>1. Bad \subseteq Nat
    OBVIOUS
  <2> HIDE DEF Bad
  <2>q. QED BY <1>1, <2>1, Least
<1>3. m \in 0 .. n
  OBVIOUS
<1>4. CASE m = 0
  <2> DEFINE f == [i \in 0 .. 0 |-> start]
  <2>1. f \in [0 .. 0 -> S] /\ Runs(f, start, 0, step)
    BY DEF Runs
  <2>q. QED BY <1>2, <1>4, <2>1
<1>5. CASE m # 0
  <2>1. m - 1 \in 0 .. n /\ m - 1 \notin Bad /\ m \in 1 .. n
    BY <1>2, <1>3, <1>5
  <2>2. PICK f \in [0 .. m - 1 -> S] : Runs(f, start, m - 1, step)
    BY <2>1
  <2> DEFINE g == [i \in 0 .. m |-> IF i = m THEN step[m][f[m - 1]] ELSE f[i]]
  <2>3. step[m][f[m - 1]] \in S
    <3>1. f[m - 1] \in S /\ step[m] \in [S -> S]
      BY <2>1
    <3>q. QED BY <3>1
  <2>4. g \in [0 .. m -> S]
    BY <2>1, <2>3
  <2>5. g[m] = step[m][f[m - 1]] /\ \A i \in 0 .. m - 1 : g[i] = f[i]
    BY <2>1
  <2> HIDE DEF g
  <2>6. \A i \in 1 .. m : g[i] = step[i][g[i - 1]]
    BY <2>1, <2>2, <2>5 DEF Runs
  <2>7. Runs(g, start, m, step)
    BY <2>1, <2>2, <2>5, <2>6 DEF Runs
  <2>q. QED BY <1>2, <2>4, <2>7
<1>q. QED BY <1>4, <1>5

Rounds(f, n) == f = [i \in 0 .. n |-> f[i]]

\* Two loops that begin with the same and go on the same way are the same.
LEMMA SameLoop ==
    ASSUME NEW n \in Nat, NEW f, NEW g, Rounds(f, n), Rounds(g, n),
           f[0] = g[0], \A i \in 1 .. n : f[i - 1] = g[i - 1] => f[i] = g[i]
    PROVE  f = g
<1> DEFINE Bad == {i \in 0 .. n : f[i] # g[i]}
<1>1. ASSUME Bad # {} PROVE FALSE
  <2>1. PICK i \in Bad : \A j \in Bad : i <= j
    <3>1. Bad \subseteq Nat
      OBVIOUS
    <3> HIDE DEF Bad
    <3>q. QED BY <1>1, <3>1, Least
  <2>2. i \in 1 .. n /\ i - 1 \in 0 .. n /\ i - 1 \notin Bad
    BY <2>1
  <2>3. f[i - 1] = g[i - 1]
    BY <2>2
  <2>q. QED BY <2>1, <2>2, <2>3
<1>2. \A i \in 0 .. n : f[i] = g[i]
  BY <1>1
<1>q. QED BY <1>2 DEF Rounds

\* What avail_len, cur_len and the written bytes may be in a buffer.
Within(size) == [avail : 0 .. size, cur : 0 .. size, high : 0 .. size]

\* _snprintf stays in the buffer, although avail_len is not the room that is
\* left: it is never more than that.
LEMMA SnprintfStays ==
    ASSUME NEW size \in Nat, NEW b \in Within(size), NEW len \in Nat
    PROVE  Snprintf(b, len) \in Within(size)
<1> DEFINE avail == IF b.avail > b.cur THEN b.avail - b.cur ELSE 0
<1>1. b.avail \in 0 .. size /\ b.cur \in 0 .. size /\ b.high \in 0 .. size
  BY DEF Within
<1>2. /\ avail \in 0 .. size
      /\ b.cur + Smaller(avail, len) \in 0 .. size
      /\ (IF avail = 0 THEN b.high ELSE b.cur + Smaller(avail, len + 1)) \in 0 .. size
  BY <1>1 DEF Smaller
<1>q. QED BY <1>2 DEF Snprintf, Within

\* Several pieces, one after the other.
LEMMA SnprintfsStay ==
    ASSUME NEW size \in Nat, NEW b \in Within(size), NEW pieces \in Seq(Nat)
    PROVE  \E f \in [0 .. Len(pieces) -> Within(size)] :
              /\ f[0] = b /\ \A i \in 1 .. Len(pieces) : f[i] = Snprintf(f[i - 1], pieces[i])
              /\ Snprintfs(b, pieces) = f[Len(pieces)]
<1> DEFINE n == Len(pieces)
           S == Within(size)
           step == [i \in 1 .. n |-> [x \in S |-> Snprintf(x, pieces[i])]]
           Puts(f) == f = [i \in 0 .. n |-> IF i = 0 THEN b ELSE Snprintf(f[i - 1], pieces[i])]
           into == CHOOSE f : Puts(f)
<1>1. n \in Nat /\ \A i \in 1 .. n : pieces[i] \in Nat
  BY LenProperties, ElementOfSeq
<1>2. Snprintfs(b, pieces) = into[n]
  BY DEF Snprintfs
<1>3. step \in [1 .. n -> [S -> S]]
  BY <1>1, SnprintfStays
<1>4. \A i \in 1 .. n, x \in S : step[i][x] = Snprintf(x, pieces[i])
  OBVIOUS
<1> HIDE DEF step, S, n
<1>5. PICK g \in [0 .. n -> S] : g[0] = b /\ \A i \in 1 .. n : g[i] = step[i][g[i - 1]]
  <2>1. b \in S
    BY DEF S
  <2>2. n \in Nat
    BY <1>1
  <2>3. \E f \in [0 .. n -> S] : Runs(f, b, n, step)
    BY ONLY <1>3, <2>1, <2>2, Loop
  <2>q. QED BY <2>3 DEF Runs
<1>6. \A i \in 1 .. n : g[i] = Snprintf(g[i - 1], pieces[i])
  <2> SUFFICES ASSUME NEW i \in 1 .. n PROVE g[i] = Snprintf(g[i - 1], pieces[i])
    OBVIOUS
  <2>1. g[i - 1] \in S
    BY <1>1
  <2>q. QED BY <1>4, <1>5, <2>1
<1>7. Puts(g)
  <2>1. \A i \in 0 .. n : g[i] = IF i = 0 THEN b ELSE Snprintf(g[i - 1], pieces[i])
    BY <1>1, <1>5, <1>6
  <2>q. QED BY <2>1
<1>8. Puts(into)
  BY <1>7
<1>9. \A f : Puts(f) => f = g
  <2> SUFFICES ASSUME NEW f, Puts(f) PROVE f = g
    OBVIOUS
  <2>1. \A i \in 0 .. n : f[i] = IF i = 0 THEN b ELSE Snprintf(f[i - 1], pieces[i])
    OBVIOUS
  <2>2. Rounds(f, n) /\ Rounds(g, n)
    BY DEF Rounds
  <2> HIDE DEF Puts
  <2>0. 0 \in 0 .. n /\ \A i \in 1 .. n : i \in 0 .. n /\ i # 0
    BY <1>1
  <2>3. f[0] = g[0] /\ \A i \in 1 .. n : f[i - 1] = g[i - 1] => f[i] = g[i]
    BY <1>5, <1>6, <2>1, <2>0
  <2>4. n \in Nat
    BY <1>1
  <2>q. QED BY ONLY <2>2, <2>3, <2>4, SameLoop
<1> HIDE DEF Puts
<1>10. into = g
  BY <1>8, <1>9
<1> HIDE DEF into
<1>q. QED BY <1>2, <1>5, <1>6, <1>10 DEF n, S

LEMMA EmptyWithin == ASSUME NEW size \in Nat PROVE Empty(size) \in Within(size)
BY DEF Empty, Within

\* The frames of a stack: each takes avail_len anew, but goes on at cur_len.
LEMMA FrameStays ==
    ASSUME NEW b \in Within(BufSize), NEW pieces \in Seq(Nat)
    PROVE  Frame(b, pieces) \in Within(BufSize)
<1>1. BufSize \in Nat
  BY TextAssumption
<1>2. [b EXCEPT !.avail = BufSize] \in Within(BufSize)
  BY <1>1 DEF Within
<1>3. Len(pieces) \in Nat
  BY LenProperties
<1>4. PICK f \in [0 .. Len(pieces) -> Within(BufSize)] : Frame(b, pieces) = f[Len(pieces)]
  BY <1>1, <1>2, SnprintfsStay DEF Frame
<1>q. QED BY <1>3, <1>4

\* _stack_interpret, for any number of frames of any length: neither what is
\* written nor the length that it returns goes beyond stackTraceBufferSize.
THEOREM StackFits ==
    ASSUME NEW frames \in Seq(Seq(Nat))
    PROVE  StackInterpret(frames).high <= BufSize /\ StackInterpret(frames).cur <= BufSize
<1> DEFINE n == Len(frames)
           S == Within(BufSize)
           b == Empty(BufSize)
           step == [i \in 1 .. n |-> [x \in S |-> IF i <= 1 THEN b ELSE Frame(x, frames[i])]]
           Puts(f) == f = [i \in 0 .. n |-> IF i <= 1 THEN b ELSE Frame(f[i - 1], frames[i])]
           into == CHOOSE f : Puts(f)
<1>0. BufSize \in Nat /\ b \in S
  BY TextAssumption, EmptyWithin
<1>1. n \in Nat /\ \A i \in 1 .. n : frames[i] \in Seq(Nat)
  BY LenProperties, ElementOfSeq
<1>2. StackInterpret(frames) = into[n]
  BY DEF StackInterpret
<1>3. step \in [1 .. n -> [S -> S]]
  BY <1>0, <1>1, FrameStays
<1>4. \A i \in 1 .. n, x \in S : step[i][x] = IF i <= 1 THEN b ELSE Frame(x, frames[i])
  OBVIOUS
<1> HIDE DEF step, S, n, b
<1>5. PICK g \in [0 .. n -> S] : g[0] = b /\ \A i \in 1 .. n : g[i] = step[i][g[i - 1]]
  <2>1. n \in Nat /\ b \in S
    BY <1>0, <1>1
  <2>2. \E f \in [0 .. n -> S] : Runs(f, b, n, step)
    BY ONLY <1>3, <2>1, Loop
  <2>q. QED BY <2>2 DEF Runs
<1>6. \A i \in 1 .. n : g[i] = IF i <= 1 THEN b ELSE Frame(g[i - 1], frames[i])
  <2> SUFFICES ASSUME NEW i \in 1 .. n
               PROVE  g[i] = IF i <= 1 THEN b ELSE Frame(g[i - 1], frames[i])
    OBVIOUS
  <2>1. g[i - 1] \in S
    BY <1>1
  <2>q. QED BY <1>4, <1>5, <2>1
<1>7. Puts(g)
  <2>1. \A i \in 0 .. n : g[i] = IF i <= 1 THEN b ELSE Frame(g[i - 1], frames[i])
    BY <1>1, <1>5, <1>6
  <2>q. QED BY <2>1
<1>8. Puts(into)
  BY <1>7
<1>9. \A f : Puts(f) => f = g
  <2> SUFFICES ASSUME NEW f, Puts(f) PROVE f = g
    OBVIOUS
  <2>1. \A i \in 0 .. n : f[i] = IF i <= 1 THEN b ELSE Frame(f[i - 1], frames[i])
    OBVIOUS
  <2>2. Rounds(f, n) /\ Rounds(g, n)
    BY DEF Rounds
  <2> HIDE DEF Puts
  <2>0. 0 \in 0 .. n /\ \A i \in 1 .. n : i \in 0 .. n /\ i # 0
    BY <1>1
  <2>3. f[0] = g[0] /\ \A i \in 1 .. n : f[i - 1] = g[i - 1] => f[i] = g[i]
    BY <1>5, <1>6, <2>1, <2>0
  <2>4. n \in Nat
    BY <1>1
  <2>q. QED BY ONLY <2>2, <2>3, <2>4, SameLoop
<1> HIDE DEF Puts
<1>10. into = g
  BY <1>8, <1>9
<1> HIDE DEF into
<1>11. StackInterpret(frames) \in S
  BY <1>1, <1>2, <1>10
<1>q. QED BY <1>0, <1>11 DEF S, Within

\* Chunks of PerLogSize characters: each begins inside the text, and the last
\* one ends with it.
LEMMA ChunkAt ==
    ASSUME NEW len \in Nat
    PROVE  /\ Chunks(len) \in Seq(1 .. PerLogSize)
           /\ Len(Chunks(len)) * PerLogSize >= len
           /\ \A i \in 1 .. Len(Chunks(len)) :
                /\ (i - 1) * PerLogSize < len /\ (i - 1) * PerLogSize \in Nat
                /\ i * PerLogSize = (i - 1) * PerLogSize + PerLogSize
                /\ Chunks(len)[i] = Smaller(PerLogSize, len - (i - 1) * PerLogSize)
<1> DEFINE p == PerLogSize n == (len + p - 1) \div p
<1>1. p \in Nat \ {0}
  BY TextAssumption DEF PerLogSize
<1> HIDE DEF p
<1>2. /\ n \in Nat /\ n * p \in Nat /\ n * p <= len + p - 1 /\ len + p - 1 < n * p + p
  BY <1>1
<1>3. Chunks(len) = [i \in 1 .. n |-> Smaller(p, len - (i - 1) * p)]
  BY DEF Chunks, p
<1> HIDE DEF n
<1>4. ASSUME NEW i \in 1 .. n
      PROVE  (i - 1) * p \in Nat /\ (i - 1) * p < len /\ i * p = (i - 1) * p + p
  <2>1. i \in Nat /\ n \in Nat /\ i <= n /\ i - 1 \in Nat
    BY <1>2
  <2>2. i * p <= n * p
    <3>1. n * p = i * p + (n - i) * p /\ (n - i) * p >= 0 /\ i * p \in Nat /\ (n - i) * p \in Int
      BY <1>1, <2>1
    <3>q. QED BY <1>2, <3>1
  <2>3. i * p = (i - 1) * p + p /\ (i - 1) * p \in Nat
    BY <1>1, <2>1
  <2> DEFINE a == (i - 1) * p c == n * p d == i * p
  <2> HIDE DEF a, c, d
  <2>4. d = a + p /\ a \in Nat /\ d <= c /\ c \in Nat /\ c <= len + p - 1
    BY <1>2, <2>2, <2>3 DEF a, c, d
  <2>5. a < len
    BY <1>1, <2>4
  <2>q. QED BY <2>3, <2>5 DEF a
<1>5. \A i \in 1 .. n : Smaller(p, len - (i - 1) * p) \in 1 .. p
  <2> SUFFICES ASSUME NEW i \in 1 .. n PROVE Smaller(p, len - (i - 1) * p) \in 1 .. p
    OBVIOUS
  <2> DEFINE a == (i - 1) * p
  <2>1. a \in Nat /\ a < len
    BY <1>4
  <2> HIDE DEF a
  <2>2. Smaller(p, len - a) \in 1 .. p
    BY <1>1, <2>1 DEF Smaller
  <2>q. QED BY <2>2 DEF a
<1>6. Chunks(len) \in Seq(1 .. p) /\ Len(Chunks(len)) = n
  BY <1>2, <1>3, <1>5
<1>7. n * p >= len
  <2> DEFINE c == n * p
  <2> HIDE DEF c
  <2>1. c \in Nat /\ len + p - 1 < c + p
    BY <1>2 DEF c
  <2>2. c >= len
    BY <1>1, <2>1
  <2>q. QED BY <2>2 DEF c
<1>8. \A i \in 1 .. n : Chunks(len)[i] = Smaller(p, len - (i - 1) * p)
  BY <1>3
<1>q. QED BY <1>4, <1>6, <1>7, <1>8 DEF p

\* They make up the text.
LEMMA ChunksMakeUp ==
    ASSUME NEW len \in Nat
    PROVE  Total(Chunks(len)) = len
<1> DEFINE cs == Chunks(len)
           n == Len(cs)
           g == [i \in 0 .. n |-> Smaller(i * PerLogSize, len)]
           Sums(f) == f = [i \in 0 .. n |-> IF i = 0 THEN 0 ELSE f[i - 1] + cs[i]]
           upto == CHOOSE f : Sums(f)
<1>0. PerLogSize \in Nat \ {0}
  BY TextAssumption DEF PerLogSize
<1>1. /\ n \in Nat /\ n * PerLogSize >= len
      /\ \A i \in 1 .. n :
            /\ (i - 1) * PerLogSize < len /\ (i - 1) * PerLogSize \in Nat
            /\ i * PerLogSize = (i - 1) * PerLogSize + PerLogSize
            /\ cs[i] = Smaller(PerLogSize, len - (i - 1) * PerLogSize)
  BY ChunkAt, LenProperties
<1>2. Total(cs) = upto[n]
  BY DEF Total
<1> HIDE DEF cs, n
<1>3. g[0] = 0 /\ g[n] = len
  <2>1. Smaller(0 * PerLogSize, len) = 0
    BY <1>0 DEF Smaller
  <2>2. n * PerLogSize \in Nat
    BY <1>0, <1>1
  <2>3. Smaller(n * PerLogSize, len) = len
    <3> DEFINE c == n * PerLogSize
    <3>1. c \in Nat /\ c >= len
      BY <1>1, <2>2
    <3> HIDE DEF c
    <3>2. Smaller(c, len) = len
      BY <3>1 DEF Smaller
    <3>q. QED BY <3>2 DEF c
  <2>4. 0 \in 0 .. n /\ n \in 0 .. n
    BY <1>1
  <2>q. QED BY <2>1, <2>3, <2>4
<1>4. ASSUME NEW i \in 1 .. n PROVE g[i] = g[i - 1] + cs[i]
  <2> DEFINE a == (i - 1) * PerLogSize
  <2>1. a < len /\ a \in Nat /\ i * PerLogSize = a + PerLogSize /\ cs[i] = Smaller(PerLogSize, len - a)
    BY <1>1
  <2>2. g[i] = Smaller(a + PerLogSize, len) /\ g[i - 1] = Smaller(a, len)
    <3>1. i \in 0 .. n /\ i - 1 \in 0 .. n
      BY <1>1
    <3>q. QED BY <2>1, <3>1
  <2> HIDE DEF a, g
  <2>q. QED BY <1>0, <2>1, <2>2 DEF Smaller
<1>5. Sums(g)
  <2>2. Rounds(g, n)
    BY DEF Rounds
  <2> HIDE DEF g
  <2>1. \A i \in 0 .. n : g[i] = IF i = 0 THEN 0 ELSE g[i - 1] + cs[i]
    BY <1>1, <1>3, <1>4
  <2>3. g = [i \in 0 .. n |-> g[i]]
    BY <2>2 DEF Rounds
  <2>q. QED BY <2>1, <2>3
<1>6. Sums(upto)
  BY <1>5
<1>7. \A f : Sums(f) => f = g
  <2> SUFFICES ASSUME NEW f, Sums(f) PROVE f = g
    OBVIOUS
  <2>1. \A i \in 0 .. n : f[i] = IF i = 0 THEN 0 ELSE f[i - 1] + cs[i]
    OBVIOUS
  <2>2. Rounds(f, n) /\ Rounds(g, n)
    BY DEF Rounds
  <2> HIDE DEF g
  <2>3. f[0] = g[0] /\ \A i \in 1 .. n : f[i - 1] = g[i - 1] => f[i] = g[i]
    BY <1>1, <1>3, <1>4, <2>1
  <2>4. n \in Nat
    BY <1>1
  <2>q. QED BY ONLY <2>2, <2>3, <2>4, SameLoop
<1> HIDE DEF Sums
<1>8. upto = g
  BY <1>6, <1>7
<1> HIDE DEF upto, g
<1>q. QED BY <1>2, <1>3, <1>8 DEF cs

LEMMA SnprintfAt ==
    ASSUME NEW b, NEW len
    PROVE  /\ Snprintf(b, len).avail = IF b.avail > b.cur THEN b.avail - b.cur ELSE 0
           /\ Snprintf(b, len).cur = b.cur + Smaller(Snprintf(b, len).avail, len)
BY DEF Snprintf

\* put(): a line whose message has at most PerLogSize characters has room for
\* all of it, although the place and the line break are given less than is left.
LEMMA LineWhole ==
    ASSUME NEW h \in Piece, NEW t \in Piece, NEW m \in 1 .. PerLogSize
    PROVE  LogLine(h, m, t).cur = h + m + t
<1> DEFINE pieces == <<h, m, t>> b == Empty(MsgSize)
<1>0. /\ MsgSize \in Nat /\ Reserve \in 1 .. MsgSize - 1 /\ MaxPiece \in Nat /\ 3 * MaxPiece < Reserve
      /\ h \in 0 .. MaxPiece /\ t \in 0 .. MaxPiece /\ m \in 1 .. MsgSize - Reserve
  BY TextAssumption DEF Piece, PerLogSize
<1>1. pieces \in Seq(Nat) /\ Len(pieces) = 3 /\ pieces[1] = h /\ pieces[2] = m /\ pieces[3] = t
  BY <1>0
<1>2. LogLine(h, m, t) = Snprintfs(b, pieces) /\ b \in Within(MsgSize)
  BY <1>0, EmptyWithin DEF LogLine
<1>3. b.avail = MsgSize /\ b.cur = 0
  BY DEF Empty
<1> HIDE DEF pieces, b
<1>4. PICK f \in [0 .. 3 -> Within(MsgSize)] :
         /\ f[0] = b /\ \A i \in 1 .. 3 : f[i] = Snprintf(f[i - 1], pieces[i])
         /\ Snprintfs(b, pieces) = f[3]
  BY <1>0, <1>1, <1>2, SnprintfsStay
<1>5. f[1] = Snprintf(f[0], h) /\ f[2] = Snprintf(f[1], m) /\ f[3] = Snprintf(f[2], t)
  BY <1>1, <1>4
<1>6. f[1].avail = MsgSize /\ f[1].cur = h
  BY <1>0, <1>3, <1>4, <1>5, SnprintfAt DEF Smaller
<1>7. f[2].avail = MsgSize - h /\ f[2].cur = h + m
  BY <1>0, <1>5, <1>6, SnprintfAt DEF Smaller
<1>8. f[3].cur = h + m + t
  BY <1>0, <1>5, <1>7, SnprintfAt DEF Smaller
<1>q. QED BY <1>2, <1>4, <1>8

\* What the logger writes fits its buffers, and the chunks of a stack come whole.
LEMMA Fits == AllInside /\ AllWhole
<1>0. MsgSize \in Nat /\ BufSize \in Nat /\ MaxPiece \in Nat
  BY TextAssumption
<1>1. Piece \subseteq Nat /\ Message \subseteq Nat
  BY <1>0 DEF Piece, Message
<1>2. ASSUME NEW pieces \in Seq(Nat)
      PROVE  /\ Snprintfs(Empty(MsgSize), pieces).high <= MsgSize
             /\ Snprintfs(Empty(MsgSize), pieces).cur <= MsgSize
  <2>1. Len(pieces) \in Nat /\ Empty(MsgSize) \in Within(MsgSize)
    BY <1>0, EmptyWithin, LenProperties
  <2>2. Snprintfs(Empty(MsgSize), pieces) \in Within(MsgSize)
    BY <1>0, <2>1, SnprintfsStay
  <2>q. QED BY <1>0, <2>2 DEF Within
<1>3. ASSUME NEW h \in Piece, NEW t \in Piece, NEW m \in Message
      PROVE  LogLine(h, m, t).high <= MsgSize /\ LogLine(h, m, t).cur <= MsgSize
  <2>1. <<h, m, t>> \in Seq(Nat)
    BY <1>1
  <2>q. QED BY <1>2, <2>1 DEF LogLine
<1>4. ASSUME NEW h \in Piece, NEW p \in Piece, NEW c \in Piece, NEW m \in Message,
             NEW level \in {0, 2}
      PROVE  ConsoleLine(level, h, p, m, c).high <= MsgSize
  <2> DEFINE colour == IF level \in {0, 1} THEN <<c>> ELSE <<>>
  <2>1. <<h, p>> \in Seq(Nat) /\ colour \in Seq(Nat) /\ <<m, c>> \in Seq(Nat)
    BY <1>1
  <2> HIDE DEF colour
  <2>2. <<h, p>> \o colour \o <<m, c>> \in Seq(Nat)
    BY <2>1, ConcatProperties
  <2>3. ConsoleLine(level, h, p, m, c) = Snprintfs(Empty(MsgSize), <<h, p>> \o colour \o <<m, c>>)
    BY DEF ConsoleLine, colour
  <2>q. QED BY <1>2, <2>2, <2>3
<1>5. ASSUME NEW f \in AFrame, NEW g \in AFrame
      PROVE  /\ StackInterpret(<<<<>>, f, g, f>>).high <= BufSize
             /\ StackInterpret(<<<<>>, f, g, f>>).cur <= BufSize
  <2>1. \A x \in AFrame : x \in Seq(Nat)
    <3> SUFFICES ASSUME NEW x \in AFrame PROVE x \in Seq(Nat)
      OBVIOUS
    <3>1. CASE x = <<>>
      BY <3>1, EmptySeq
    <3>2. CASE x \in Piece \X Piece \X Piece
      <4>1. PICK a \in Piece, b \in Piece, c \in Piece : x = <<a, b, c>>
        BY <3>2
      <4>q. QED BY <1>1, <4>1
    <3>q. QED BY <3>1, <3>2 DEF AFrame
  <2>2. <<>> \in Seq(Nat) /\ f \in Seq(Nat) /\ g \in Seq(Nat)
    BY <2>1, EmptySeq
  <2>3. <<<<>>, f, g, f>> \in Seq(Seq(Nat))
    BY <2>2
  <2>q. QED BY <2>3, StackFits
<1>6. AllInside
  BY <1>3, <1>4, <1>5 DEF AllInside
<1>7. ASSUME NEW len \in 0 .. BufSize
      PROVE  /\ Total(Chunks(len)) = len
             /\ \A i \in DOMAIN Chunks(len) : \A h, t \in Piece :
                   LogLine(h, Chunks(len)[i], t).cur = h + Chunks(len)[i] + t
  <2>1. len \in Nat
    BY <1>0
  <2>2. Total(Chunks(len)) = len
    BY <2>1, ChunksMakeUp
  <2>3. Chunks(len) \in Seq(1 .. PerLogSize)
    BY <2>1, ChunkAt
  <2>4. \A i \in DOMAIN Chunks(len) : Chunks(len)[i] \in 1 .. PerLogSize
    BY <2>3, ElementOfSeq, LenProperties
  <2>q. QED BY <2>2, <2>4, LineWhole
<1>8. AllWhole
  BY <1>7 DEF AllWhole
<1>q. QED BY <1>6, <1>8

\* What a crash writes stays in stackTraceBuffer and in the line of put(), and
\* the interpreted stack reaches the log whole, for every size of the buffers
\* and every length of the pieces.
THEOREM DumpTextFits == Spec => []TextFits
<1>1. TextFits
  BY Fits DEF TextFits
<1>q. QED BY <1>1, PTL
=============================================================================
