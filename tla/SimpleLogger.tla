---------------------------- MODULE SimpleLogger ----------------------------
(***************************************************************************)
(* SimpleLogger (raft_logger.cpp), the asynchronous file logger that NuRaft *)
(* writes to: a ring of elements that any thread claims with a             *)
(* compare-and-swap on the cursor, flushed into a file by whoever finds it *)
(* full or by a background thread, and files that are rotated, compressed  *)
(* and finally deleted.                                                    *)
(*                                                                         *)
(* One action per atomic access to the ring.  Levels, formatting and the   *)
(* console are left out: a message is a number.                            *)
(***************************************************************************)
EXTENDS Integers, Sequences, FiniteSets

CONSTANTS
    Threads,        \* threads that call put()
    Flusher,        \* SimpleLoggerMgr::flushWorker
    Main,           \* the thread that calls stop()
    None,           \* "nobody", "nothing"
    Num,            \* logs.size()
    MaxPuts,        \* bound on the number of messages
    MaxCrashes,     \* bound on the number of crashes
    MaxTarFailures, \* bound on the number of tar commands that fail
    MaxLogFileSize, \* maxLogFileSize, counted in messages
    MaxLogFiles     \* maxLogFiles

\* What compressWorker works on: the number of a file, and what is to be done.
Job == [rev : Nat, at : {"tar", "rm", "expire"}]

ASSUME LoggerAssumption ==
    /\ Num \in Nat \ {0} /\ MaxPuts \in Nat /\ MaxCrashes \in Nat /\ MaxTarFailures \in Nat
    /\ MaxLogFileSize \in Nat \ {0} /\ MaxLogFiles \in Nat \ {0}
    /\ Flusher \notin Threads /\ Main \notin Threads /\ Flusher # Main
    /\ None \notin Threads \cup {Flusher, Main} \cup Nat \cup Job

VARIABLES
    status, ctx,    \* LogElem: its status and the message in it
    cursor,
    flushingLogs,   \* the mutex: who holds it
    pc, slot, msg,  \* per actor: where it is, cursor_exp or start_pos, its message
    done,           \* elements the holder of the mutex has passed in this flush
    stage,          \* how far stop() is
    plain, tars,    \* log files and archives: revnum -> messages
    synced,         \* messages of the current file that fs.flush() has passed on
    curRevnum, minRevnum,
    pending, comp,  \* pendingCompElems, and the job compressWorker works on
    numCompJobs,
    sent, lost, crashes, left, unpacked   \* bookkeeping: messages so far, those
                    \* put() gave up, crashes so far, those that a crash, retention or
                    \* a failed tar took, and the files whose tar failed

ring == <<status, ctx, cursor>>
disk == <<plain, tars, synced>>
revs == <<curRevnum, minRevnum>>
jobs == <<pending, comp, numCompJobs>>
ghosts == <<sent, lost, crashes, left, unpacked>>
vars == <<status, ctx, cursor, flushingLogs, pc, slot, msg, done, stage, plain,
          tars, synced, curRevnum, minRevnum, pending, comp, numCompJobs, sent, lost,
          crashes, left, unpacked>>

Slots == 0 .. Num - 1
Actors == Threads \cup {Flusher, Main}
Putters == Threads \cup {Main}

\* The file or archive r gets the content c; the files rs are deleted.
With(f, r, c) == [i \in DOMAIN f \cup {r} |-> IF i = r THEN c ELSE f[i]]
Without(f, rs) == [i \in DOMAIN f \ rs |-> f[i]]
Contents(f) == UNION {{f[r][i] : i \in DOMAIN f[r]} : r \in DOMAIN f}

Init ==
    /\ status = [s \in Slots |-> "CLEAN"] /\ ctx = [s \in Slots |-> None]
    /\ cursor = 0 /\ flushingLogs = None
    /\ pc = [a \in Actors |-> "idle"] /\ slot = [a \in Actors |-> 0]
    /\ msg = [a \in Putters |-> None] /\ done = 0
    /\ stage = "run"
    /\ pending = <<>> /\ comp = None /\ numCompJobs = 0
    /\ plain = [r \in {0} |-> <<>>] /\ tars = [r \in {} |-> <<>>] /\ synced = 0
    /\ curRevnum = 0 /\ minRevnum = 0
    /\ sent = 0 /\ lost = {} /\ crashes = 0 /\ left = {} /\ unpacked = {}

-----------------------------------------------------------------------------
(* put()                                                                   *)

\* The loop around compare_exchange_strong on the cursor.
Claim(t) ==
    /\ pc[t] = "idle"
    /\ IF t = Main THEN stage = "removed" /\ stage' = "putting"
                   ELSE stage = "run" /\ sent < MaxPuts /\ UNCHANGED stage
    /\ sent' = sent + 1 /\ msg' = [msg EXCEPT ![t] = sent + 1]
    /\ slot' = [slot EXCEPT ![t] = cursor]
    /\ cursor' = (cursor + 1) % Num
    /\ pc' = [pc EXCEPT ![t] = "avail"]
    /\ UNCHANGED <<status, ctx, flushingLogs, done, disk, revs, jobs, lost,
                   crashes, left, unpacked>>

Step(a, from, to) == pc[a] = from /\ pc' = [pc EXCEPT ![a] = to]

\* while ( !ll->available() ) yield
Available(t) ==
    /\ Step(t, "avail", "check") /\ status[slot[t]] \in {"CLEAN", "DIRTY"}
    /\ UNCHANGED <<ring, flushingLogs, slot, msg, done, stage, disk, revs, jobs, ghosts>>

NeedToFlush(t) ==
    /\ Step(t, "check", IF status[slot[t]] = "DIRTY" THEN "lock" ELSE "write")
    /\ UNCHANGED <<ring, flushingLogs, slot, msg, done, stage, disk, revs, jobs, ghosts>>

\* while (ll->needToFlush()) yield, after flush() returned false
Wait(t) ==
    /\ Step(t, "wait", "write") /\ status[slot[t]] # "DIRTY"
    /\ UNCHANGED <<ring, flushingLogs, slot, msg, done, stage, disk, revs, jobs, ghosts>>

\* Slip: the element is taken without looking at its status.
WriteBlind(t) ==
    /\ Step(t, "write", "writing")
    /\ status' = [status EXCEPT ![slot[t]] = "WRITING"]
    /\ UNCHANGED <<ctx, cursor, flushingLogs, slot, msg, done, stage, disk, revs,
                   jobs, ghosts>>

\* LogElem::write; put() does not look at what it returns.
Write(t) ==
    /\ Step(t, "write", "writing") /\ status[slot[t]] = "CLEAN"
    /\ status' = [status EXCEPT ![slot[t]] = "WRITING"]
    /\ UNCHANGED <<ctx, cursor, flushingLogs, slot, msg, done, stage, disk, revs,
                   jobs, ghosts>>

WriteFails(t) ==
    /\ Step(t, "write", "idle") /\ status[slot[t]] # "CLEAN"
    /\ lost' = lost \cup {msg[t]} /\ msg' = [msg EXCEPT ![t] = None]
    /\ UNCHANGED <<ring, flushingLogs, slot, done, stage, disk, revs, jobs, sent,
                   crashes, left, unpacked>>

WriteEnd(t) ==
    /\ Step(t, "writing", "idle")
    /\ ctx' = [ctx EXCEPT ![slot[t]] = msg[t]]
    /\ status' = [status EXCEPT ![slot[t]] = "DIRTY"]
    /\ msg' = [msg EXCEPT ![t] = None]
    /\ UNCHANGED <<cursor, flushingLogs, slot, done, stage, disk, revs, jobs, ghosts>>

-----------------------------------------------------------------------------
(* flush(start_pos)                                                        *)

\* flushAll() reads the cursor and calls flush: flushWorker while the logger
\* is registered, stop() once.
FlushAll(a) ==
    /\ Step(a, "idle", "lock")
    /\ \/ a = Flusher /\ stage = "run" /\ UNCHANGED stage
       \/ a = Main /\ stage = "putting" /\ stage' = "flushing"
    /\ slot' = [slot EXCEPT ![a] = cursor]
    /\ UNCHANGED <<ring, flushingLogs, msg, done, disk, revs, jobs, ghosts>>

InPut(a) == a \in Threads \/ (a = Main /\ stage = "putting")

\* std::try_to_lock
TryLock(a) ==
    /\ IF flushingLogs = None
       THEN Step(a, "lock", "flush") /\ flushingLogs' = a /\ done' = 0
       ELSE /\ Step(a, "lock", IF InPut(a) THEN "wait" ELSE "idle")
            /\ UNCHANGED <<flushingLogs, done>>
    /\ UNCHANGED <<ring, slot, msg, stage, disk, revs, jobs, ghosts>>

\* The element the circular flush has come to.
At(a) == (slot[a] + done) % Num

\* LogElem::flush on a clean or busy element does nothing.
FlushSkip(a) ==
    /\ pc[a] = "flush" /\ done < Num /\ status[At(a)] # "DIRTY"
    /\ done' = done + 1
    /\ UNCHANGED <<ring, flushingLogs, pc, slot, msg, stage, disk, revs, jobs, ghosts>>

FlushElem(a) ==
    /\ Step(a, "flush", "flushing") /\ done < Num /\ status[At(a)] = "DIRTY"
    /\ status' = [status EXCEPT ![At(a)] = "FLUSHING"]
    /\ UNCHANGED <<ctx, cursor, flushingLogs, slot, msg, done, stage, disk, revs,
                   jobs, ghosts>>

\* Slip: the element is not marked clean.
FlushElemEndDirty(a) ==
    /\ Step(a, "flushing", "flush")
    /\ plain' = With(plain, curRevnum, Append(plain[curRevnum], ctx[At(a)]))
    /\ status' = [status EXCEPT ![At(a)] = "DIRTY"]
    /\ done' = done + 1
    /\ UNCHANGED <<ctx, cursor, flushingLogs, slot, msg, stage, tars, synced, revs, jobs, ghosts>>

FlushElemEnd(a) ==
    /\ Step(a, "flushing", "flush")
    /\ plain' = With(plain, curRevnum, Append(plain[curRevnum], ctx[At(a)]))
    /\ status' = [status EXCEPT ![At(a)] = "CLEAN"]
    /\ done' = done + 1
    /\ UNCHANGED <<ctx, cursor, flushingLogs, slot, msg, stage, tars, synced, revs, jobs, ghosts>>

\* Slips: the file that is queued is the new one; the limit is only met exactly.
RotateNew ==
    IF Len(plain[curRevnum]) > MaxLogFileSize
    THEN /\ curRevnum' = curRevnum + 1
         /\ plain' = With(plain, curRevnum + 1, <<>>)
         /\ numCompJobs' = numCompJobs + 1
         /\ pending' = Append(pending, curRevnum + 1)
    ELSE UNCHANGED <<curRevnum, plain, numCompJobs, pending>>
RotateExactly ==
    IF Len(plain[curRevnum]) = MaxLogFileSize
    THEN /\ curRevnum' = curRevnum + 1
         /\ plain' = With(plain, curRevnum + 1, <<>>)
         /\ numCompJobs' = numCompJobs + 1
         /\ pending' = Append(pending, curRevnum)
    ELSE UNCHANGED <<curRevnum, plain, numCompJobs, pending>>

\* fs.flush(), and past the limit the next file is opened and this one queued.
Rotate ==
    IF Len(plain[curRevnum]) > MaxLogFileSize
    THEN /\ curRevnum' = curRevnum + 1
         /\ plain' = With(plain, curRevnum + 1, <<>>)
         /\ numCompJobs' = numCompJobs + 1
         /\ pending' = Append(pending, curRevnum)
    ELSE UNCHANGED <<curRevnum, plain, numCompJobs, pending>>

\* Slip: the mutex is not released.
FlushDoneLocked(a) ==
    /\ Step(a, "flush", IF InPut(a) THEN "write" ELSE "idle") /\ done = Num
    /\ Rotate
    /\ synced' = Len(plain'[curRevnum'])
    /\ UNCHANGED <<flushingLogs, ring, slot, msg, done, stage, tars, minRevnum,
                   comp, ghosts>>

FlushDone(a) ==
    /\ Step(a, "flush", IF InPut(a) THEN "write" ELSE "idle") /\ done = Num
    /\ Rotate
    /\ flushingLogs' = None
    /\ synced' = Len(plain'[curRevnum'])
    /\ UNCHANGED <<ring, slot, msg, done, stage, tars, minRevnum, comp, ghosts>>

-----------------------------------------------------------------------------
(* compressWorker and doCompression(file_num)                              *)

TakeJob ==
    /\ comp = None /\ pending # <<>>
    /\ comp' = [rev |-> Head(pending), at |-> "tar"] /\ pending' = Tail(pending)
    /\ UNCHANGED <<ring, flushingLogs, pc, slot, msg, done, stage, disk, revs,
                   numCompJobs, ghosts>>

\* execCmd does not look at how tar ended, and rm follows whatever is in the
\* archive: nothing, or the messages that tar got to.
TarFails ==
    /\ Cardinality(unpacked) < MaxTarFailures
    /\ unpacked' = unpacked \cup {comp.rev}
    /\ \/ UNCHANGED tars
       \/ \E n \in 0 .. Len(plain[comp.rev]) - 1 :
            tars' = With(tars, comp.rev, SubSeq(plain[comp.rev], 1, n))

Tar ==
    /\ comp # None /\ comp.at = "tar"
    /\ \/ tars' = With(tars, comp.rev, plain[comp.rev]) /\ UNCHANGED unpacked
       \/ TarFails
    /\ comp' = [comp EXCEPT !.at = "rm"]
    /\ UNCHANGED <<ring, flushingLogs, pc, slot, msg, done, stage, plain, synced, revs,
                   pending, numCompJobs, sent, lost, crashes, left>>

\* What a failed tar did not get to is gone with the file.
Rm ==
    /\ comp # None /\ comp.at = "rm"
    /\ plain' = Without(plain, {comp.rev})
    /\ left' = IF comp.rev \in unpacked
               THEN left \cup (Contents(plain) \ (Contents(plain') \cup Contents(tars)))
               ELSE left
    /\ comp' = [comp EXCEPT !.at = "expire"]
    /\ UNCHANGED <<ring, flushingLogs, pc, slot, msg, done, stage, tars, synced, revs,
                   pending, numCompJobs, sent, lost, crashes, unpacked>>

\* Slips: one file too many is removed; the job is not counted off.
ExpireMore ==
    /\ comp # None /\ comp.at = "expire"
    /\ LET old == minRevnum .. comp.rev - MaxLogFiles + 1
       IN  /\ plain' = Without(plain, old) /\ tars' = Without(tars, old)
           /\ minRevnum' = IF old = {} THEN minRevnum ELSE comp.rev - MaxLogFiles + 1
           /\ left' = left \cup (Contents(plain) \ Contents(plain'))
                           \cup (Contents(tars) \ Contents(tars'))
    /\ comp' = None /\ numCompJobs' = numCompJobs - 1
    /\ UNCHANGED <<ring, flushingLogs, pc, slot, msg, done, stage, curRevnum, synced,
                   pending, sent, lost, crashes, unpacked>>
ExpireUncounted ==
    /\ comp # None /\ comp.at = "expire"
    /\ comp' = None
    /\ UNCHANGED <<ring, flushingLogs, pc, slot, msg, done, stage, disk, revs,
                   pending, numCompJobs, ghosts>>

\* "Remove previous log files", then the job is done.
Expire ==
    /\ comp # None /\ comp.at = "expire"
    /\ LET old == minRevnum .. comp.rev - MaxLogFiles
       IN  /\ plain' = Without(plain, old) /\ tars' = Without(tars, old)
           /\ minRevnum' = IF old = {} THEN minRevnum ELSE comp.rev - MaxLogFiles + 1
           /\ left' = left \cup (Contents(plain) \ Contents(plain'))
                           \cup (Contents(tars) \ Contents(tars'))
    /\ comp' = None /\ numCompJobs' = numCompJobs - 1
    /\ UNCHANGED <<ring, flushingLogs, pc, slot, msg, done, stage, curRevnum, synced,
                   pending, sent, lost, crashes, unpacked>>

-----------------------------------------------------------------------------
(* stop(), crash and the next process                                      *)

\* removeLogger waits for a flushWorker that is in flushAllLoggers.  The caller
\* of stop() sees to it that nobody logs any more.
RemoveLogger ==
    /\ stage = "run" /\ \A a \in Actors : pc[a] = "idle"
    /\ stage' = "removed"
    /\ UNCHANGED <<ring, flushingLogs, pc, slot, msg, done, disk, revs, jobs, ghosts>>

Close ==
    /\ stage = "flushing" /\ pc[Main] = "idle"
    /\ stage' = "closed"
    /\ UNCHANGED <<ring, flushingLogs, pc, slot, msg, done, disk, revs, jobs, ghosts>>

\* Slip: stop() does not wait for compressWorker.
StopEndEarly ==
    /\ stage = "closed"
    /\ stage' = "stopped"
    /\ UNCHANGED <<ring, flushingLogs, pc, slot, msg, done, disk, revs, jobs, ghosts>>

\* while (numCompJobs.load() > 0) yield
StopEnd ==
    /\ stage = "closed" /\ numCompJobs = 0
    /\ stage' = "stopped"
    /\ UNCHANGED <<ring, flushingLogs, pc, slot, msg, done, disk, revs, jobs, ghosts>>

\* findMinMaxRevNum: an archive counts as one more than its number.
MaxRevNum ==
    LET nums == {0} \cup DOMAIN plain \cup {r + 1 : r \in DOMAIN tars}
    IN  CHOOSE r \in nums : \A s \in nums : r >= s
MinRevNum ==
    LET nums == DOMAIN plain \cup DOMAIN tars
    IN  IF nums = {} THEN 0 ELSE CHOOSE r \in nums : \A s \in nums : r <= s

\* The process dies, perhaps with a part of the current file still in the buffer
\* of fs, and the next one opens its file for appending.
Crash ==
    /\ crashes < MaxCrashes /\ crashes' = crashes + 1
    /\ status' = [s \in Slots |-> "CLEAN"] /\ ctx' = [s \in Slots |-> None]
    /\ cursor' = 0 /\ flushingLogs' = None
    /\ pc' = [a \in Actors |-> "idle"] /\ slot' = [a \in Actors |-> 0]
    /\ msg' = [a \in Putters |-> None] /\ done' = 0
    /\ stage' = "run"
    /\ pending' = <<>> /\ comp' = None /\ numCompJobs' = 0
    /\ curRevnum' = MaxRevNum /\ minRevnum' = MinRevNum
    /\ \E n \in synced .. Len(plain[curRevnum]) :
        LET kept == With(plain, curRevnum, SubSeq(plain[curRevnum], 1, n))
        IN  plain' = IF MaxRevNum \in DOMAIN kept THEN kept
                     ELSE With(kept, MaxRevNum, <<>>)
    /\ synced' = Len(plain'[curRevnum'])
    /\ left' = left \cup ((1 .. sent) \ (Contents(plain') \cup Contents(tars)))
    /\ UNCHANGED <<tars, sent, lost, unpacked>>

-----------------------------------------------------------------------------

Put(t) ==
    \/ Claim(t) \/ Available(t) \/ NeedToFlush(t) \/ Wait(t)
    \/ Write(t) \/ WriteFails(t) \/ WriteEnd(t)
Flush(a) ==
    FlushAll(a) \/ TryLock(a) \/ FlushSkip(a) \/ FlushElem(a) \/ FlushElemEnd(a)
        \/ FlushDone(a)
Compress == TakeJob \/ Tar \/ Rm \/ Expire
Stop == RemoveLogger \/ Close \/ StopEnd

Next ==
    \/ \E t \in Putters : Put(t)
    \/ \E a \in Actors : Flush(a)
    \/ Compress \/ Stop \/ Crash

Spec == Init /\ [][Next]_vars

\* Every thread keeps running, the two workers included; nobody has to log,
\* stop or crash.
Goes(t) == Available(t) \/ NeedToFlush(t) \/ Wait(t) \/ Write(t) \/ WriteFails(t) \/ WriteEnd(t)
FairSpec ==
    /\ Spec
    /\ \A t \in Threads : WF_vars(Goes(t) \/ Flush(t))
    /\ WF_vars(Goes(Main) \/ Claim(Main) \/ Flush(Main) \/ Close \/ StopEnd)
    /\ WF_vars(Flush(Flusher))
    /\ WF_vars(Compress)

-----------------------------------------------------------------------------
(* Properties.                                                             *)

Statuses == {"CLEAN", "WRITING", "DIRTY", "FLUSHING"}
PCs == {"idle", "avail", "check", "lock", "wait", "write", "writing", "flush", "flushing"}
Stages == {"run", "removed", "putting", "flushing", "closed", "stopped"}
Message == Nat \ {0}
FileOK(f) == DOMAIN f \subseteq Nat /\ \A r \in DOMAIN f : f[r] \in Seq(Message)

\* Every variable has its type: the cursor stays inside the ring, an element
\* that is to be flushed holds a message, and the current file exists.
TypeOK ==
    /\ status \in [Slots -> Statuses] /\ cursor \in Slots
    /\ ctx \in [Slots -> Message \cup {None}]
    /\ \A s \in Slots : status[s] \in {"DIRTY", "FLUSHING"} => ctx[s] # None
    /\ flushingLogs \in Actors \cup {None}
    /\ pc \in [Actors -> PCs] /\ slot \in [Actors -> Slots]
    /\ msg \in [Putters -> Message \cup {None}] /\ done \in 0 .. Num
    /\ stage \in Stages
    /\ FileOK(plain) /\ FileOK(tars) /\ curRevnum \in DOMAIN plain
    /\ synced \in 0 .. Len(plain[curRevnum])
    /\ minRevnum \in Nat /\ numCompJobs \in Nat
    /\ pending \in Seq(Nat)
    /\ comp \in Job \cup {None}
    /\ sent \in Nat /\ crashes \in Nat

InHand == {msg[t] : t \in Putters} \ {None}
InRing == {ctx[s] : s \in {x \in Slots : status[x] \in {"DIRTY", "FLUSHING"}}}
Stored == Contents(plain) \cup Contents(tars)

\* No message disappears inside the logger: it is with its thread, in the ring
\* or in a file, unless put() gave it up (LogElem::write returned -1), a crash
\* emptied the ring, retention deleted its file, or tar failed on its file.
Conserved ==
    /\ TypeOK
    /\ 1 .. sent \subseteq InHand \cup InRing \cup Stored \cup lost \cup left

\* No message is written twice, however many threads flush and whatever they
\* overtake: neither twice into the log files, nor into a file while the ring
\* still has it.
NoDuplicates ==
    /\ InRing \cap Stored = {}
    /\ \A r1, r2 \in DOMAIN plain :
        \A i \in DOMAIN plain[r1], j \in DOMAIN plain[r2] :
            plain[r1][i] = plain[r2][j] => r1 = r2 /\ i = j

\* flush() looks at the size only after a whole round of the ring: a file
\* exceeds the limit by at most one ring, and by one more for every crash
\* between the last write and the rotation.
FileBounded ==
    \A r \in DOMAIN plain : Len(plain[r]) <= MaxLogFileSize + Num * (crashes + 1)

\* The compressor and the writer never have the same file: the current one is
\* not queued, not being compressed and has no archive that a later compression
\* would overwrite.
ArchiveSafe ==
    /\ \A i \in DOMAIN pending : pending[i] < curRevnum
    /\ comp # None => comp.rev < curRevnum
    /\ curRevnum \notin DOMAIN tars

\* Retention deletes from the old end only: every number from minRevnum to the
\* current one is there as a file or as an archive, but for a file whose tar
\* failed, and no more archives are kept than maxLogFiles, the one just made and one for every crash that came
\* before a removal.
NoGap ==
    /\ \A r \in minRevnum .. curRevnum : r \in DOMAIN plain \cup DOMAIN tars \cup unpacked
    /\ Cardinality(DOMAIN tars) <= MaxLogFiles + 1 + crashes

\* When stop() has returned, nothing is left to do: the ring is empty and every
\* rotated file has been compressed.
StopComplete ==
    stage = "stopped" => InRing = {} /\ pending = <<>> /\ comp = None

\* put() returns.  A thread that found the mutex taken waits for somebody else to
\* flush its element, in the end the background thread.
PutReturns == \A t \in Threads : (pc[t] # "idle") ~> (pc[t] = "idle")

\* stop() returns, unless the process dies first.
StopReturns == (stage = "removed") ~> (stage \in {"stopped", "run"})
=============================================================================
