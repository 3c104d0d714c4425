------------------------- MODULE SimpleLoggerProofs --------------------------
(***************************************************************************)
(* For every ring, number of threads, messages and crashes: the logger      *)
(* loses and duplicates no message, the compressor keeps away from the file *)
(* that is written, files stay bounded, retention leaves no gap, and stop() *)
(* leaves nothing behind.                                                  *)
(***************************************************************************)
EXTENDS SimpleLogger, SequenceTheorems, FiniteSetTheorems, WellFoundedInduction, TLAPS

-----------------------------------------------------------------------------
(* The inductive invariant.                                                *)

Flushing == {"flush", "flushing"}
Putting == {"avail", "check", "wait", "write", "writing"}

\* Who is where: the mutex, the stages of stop(), and who has a message in hand.
Posts ==
    /\ \A a \in Actors : pc[a] \in Flushing <=> flushingLogs = a
    /\ pc[Flusher] \notin Putting
    /\ \A t \in Threads : msg[t] = None <=> pc[t] = "idle"
    /\ msg[Main] = None <=> ~(stage = "putting" /\ pc[Main] # "idle")
    /\ pc[Main] \in Putting => stage = "putting"
    /\ pc[Main] # "idle" => stage \in {"putting", "flushing"}
    /\ stage # "run" => \A a \in Actors \ {Main} : pc[a] = "idle"

\* An element that is being written or flushed has exactly one thread at it.
Elements ==
    /\ \A a \in Actors : pc[a] = "flushing" => done < Num /\ status[At(a)] = "FLUSHING"
    /\ \A s \in Slots : status[s] = "FLUSHING" =>
        \E a \in Actors : pc[a] = "flushing" /\ At(a) = s
    /\ \A t \in Putters : pc[t] = "writing" => status[slot[t]] = "WRITING"
    /\ \A t, u \in Putters :
        pc[t] = "writing" /\ pc[u] = "writing" /\ slot[t] = slot[u] => t = u
    /\ \A s \in Slots : status[s] = "WRITING" =>
        \E t \in Putters : pc[t] = "writing" /\ slot[t] = s

\* What the last flush of stop() has passed is clean, and stays so.
Draining ==
    /\ stage = "flushing" /\ pc[Main] \in Flushing =>
        \A k \in 0 .. done - 1 : status[(slot[Main] + k) % Num] = "CLEAN"
    /\ stage \in {"closed", "stopped"} \/ (stage = "flushing" /\ pc[Main] = "idle") =>
        \A s \in Slots : status[s] = "CLEAN"
    /\ stage = "stopped" => numCompJobs = 0

\* The files: the current one is the newest, the queue is ordered, and the job of
\* the compressor is in front of it. A file that is removed is in its archive,
\* unless its tar failed.
Files ==
    /\ DOMAIN plain \subseteq 0 .. curRevnum
    /\ \A r \in DOMAIN tars : r < curRevnum
    /\ \A i \in 1 .. Len(pending) :
        /\ pending[i] < curRevnum
        /\ pending[i] \in DOMAIN plain /\ pending[i] \notin DOMAIN tars
    /\ \A i, j \in 1 .. Len(pending) : i < j => pending[i] < pending[j]
    /\ comp # None =>
        /\ comp.rev < curRevnum
        /\ \A i \in 1 .. Len(pending) : comp.rev < pending[i]
        /\ comp.at = "tar" => comp.rev \in DOMAIN plain /\ comp.rev \notin DOMAIN tars
        /\ comp.at = "rm" =>
            /\ comp.rev \in DOMAIN plain
            /\ \/ comp.rev \in unpacked
               \/ comp.rev \in DOMAIN tars /\ tars[comp.rev] = plain[comp.rev]
    /\ numCompJobs = Len(pending) + IF comp = None THEN 0 ELSE 1

\* A message is one of those sent so far, and in one place only.
Written(f, m) == \E r \in DOMAIN f : \E i \in DOMAIN f[r] : f[r][i] = m
Ready(s) == status[s] \in {"DIRTY", "FLUSHING"}
Places ==
    /\ \A t \in Putters : msg[t] # None => msg[t] <= sent
    /\ \A s \in Slots : Ready(s) => ctx[s] <= sent
    /\ \A m \in Message : Written(plain, m) \/ Written(tars, m) => m <= sent
    /\ \A t, u \in Putters : msg[t] = msg[u] /\ msg[t] # None => t = u
    /\ \A t \in Putters, s \in Slots : msg[t] # None /\ Ready(s) => msg[t] # ctx[s]
    /\ \A t \in Putters : msg[t] # None => ~Written(plain, msg[t]) /\ ~Written(tars, msg[t])
    /\ \A r, s \in Slots : Ready(r) /\ Ready(s) /\ ctx[r] = ctx[s] => r = s
    /\ \A s \in Slots : Ready(s) => ~Written(plain, ctx[s]) /\ ~Written(tars, ctx[s])
    /\ \A r1, r2 \in DOMAIN plain :
        \A i \in DOMAIN plain[r1], j \in DOMAIN plain[r2] :
            plain[r1][i] = plain[r2][j] => r1 = r2 /\ i = j

\* A message that nobody has any more has been given up or deleted.
Kept ==
    \A m \in 1 .. sent :
        \/ \E t \in Putters : msg[t] = m
        \/ \E s \in Slots : Ready(s) /\ ctx[s] = m
        \/ Written(plain, m) \/ Written(tars, m) \/ m \in lost \/ m \in left

\* The current file before and during a flush, and the files before it.
Sizes ==
    /\ \A r \in DOMAIN plain : Len(plain[r]) <= MaxLogFileSize + Num * (crashes + 1)
    /\ Len(plain[curRevnum]) <=
        MaxLogFileSize + Num * crashes + (IF flushingLogs = None THEN 0 ELSE done)

\* The numbers on disk have no gap but for failed tars, the archives are older than what is still to be
\* compressed, and one of them may wait for the removal of an older one.
Extra == IF comp = None THEN 0 ELSE IF comp.at = "tar" THEN 0 ELSE 1
Retention ==
    /\ \A r \in minRevnum .. curRevnum : r \in DOMAIN plain \cup DOMAIN tars \cup unpacked
    /\ \A r \in DOMAIN plain \cup DOMAIN tars : r >= minRevnum
    /\ \A r \in DOMAIN tars, i \in 1 .. Len(pending) : r < pending[i]
    /\ comp # None => \A r \in DOMAIN tars : r <= comp.rev
    /\ IsFiniteSet(DOMAIN tars)
    /\ Cardinality(DOMAIN tars) <= MaxLogFiles + crashes + Extra

LoggerInv ==
    /\ TypeOK /\ Posts /\ Elements /\ Draining /\ Files /\ Places /\ Kept /\ Sizes
    /\ Retention

-----------------------------------------------------------------------------
(* Arithmetic.                                                             *)

\* The ring: every element is met once in Num steps.
LEMMA Wraps == ASSUME NEW x \in Nat PROVE x % Num \in Slots
BY LoggerAssumption DEF Slots

LEMMA Reached ==
    ASSUME NEW x \in Slots, NEW s \in Slots
    PROVE  \E k \in 0 .. Num - 1 : (x + k) % Num = s
<1> USE LoggerAssumption DEF Slots
<1>1. CASE s >= x
  <2>1. s - x \in 0 .. Num - 1 /\ (x + (s - x)) % Num = s
    BY <1>1
  <2>q. QED BY <2>1
<1>2. CASE s < x
  <2>1. s - x + Num \in 0 .. Num - 1 /\ (x + (s - x + Num)) % Num = s
    BY <1>2
  <2>q. QED BY <2>1
<1>q. QED BY <1>1, <1>2

LEMMA MetOnce ==
    ASSUME NEW x \in Slots, NEW j \in 0 .. Num - 1, NEW k \in 0 .. Num - 1,
           (x + j) % Num = (x + k) % Num
    PROVE  j = k
BY LoggerAssumption DEF Slots

\* A set of numbers has a least one.
LEMMA Least ==
    ASSUME NEW S, S \subseteq Nat, S # {}
    PROVE  \E r \in S : \A s \in S : r <= s
<1> DEFINE R == {ss \in Nat \X Nat : ss[1] < ss[2]}
<1>1. IsWellFoundedOn(R, Nat)
  BY NatLessThanWellFounded DEF OpToRel
<1> HIDE DEF R
<1>2. PICK r \in S : \A y \in S : ~(<<y, r>> \in R)
  BY <1>1, WFMin
<1>3. \A y \in S : ~(y < r)
  BY <1>2 DEF R
<1>q. QED BY <1>3

-----------------------------------------------------------------------------
(* Files.                                                                  *)

LEMMA ContentsAre == ASSUME NEW f, NEW m PROVE m \in Contents(f) <=> Written(f, m)
BY DEF Contents, Written

LEMMA WithoutFile ==
    ASSUME NEW f, FileOK(f), NEW rs
    PROVE  /\ FileOK(Without(f, rs)) /\ DOMAIN Without(f, rs) = DOMAIN f \ rs
           /\ \A i \in DOMAIN f \ rs : Without(f, rs)[i] = f[i]
           /\ \A m : Written(Without(f, rs), m) => Written(f, m)
<1>1. /\ FileOK(Without(f, rs)) /\ DOMAIN Without(f, rs) = DOMAIN f \ rs
      /\ \A i \in DOMAIN f \ rs : Without(f, rs)[i] = f[i]
  BY DEF FileOK, Without
<1> DEFINE g == Without(f, rs)
<1>2. DOMAIN g = DOMAIN f \ rs /\ \A i \in DOMAIN f \ rs : g[i] = f[i]
  BY <1>1
<1> HIDE DEF g
<1>3. \A m : Written(g, m) => Written(f, m)
  BY <1>2 DEF Written
<1>q. QED BY <1>1, <1>3 DEF g

\* Every message of the files is in them once.
Unique(f) ==
    \A r1, r2 \in DOMAIN f : \A i \in DOMAIN f[r1], j \in DOMAIN f[r2] :
        f[r1][i] = f[r2][j] => r1 = r2 /\ i = j

\* One more message in the file r.
LEMMA AppendedFile ==
    ASSUME NEW f, FileOK(f), NEW r \in DOMAIN f, NEW x \in Message, NEW g,
           g = With(f, r, Append(f[r], x))
    PROVE  /\ FileOK(g) /\ DOMAIN g = DOMAIN f /\ Len(g[r]) = Len(f[r]) + 1
           /\ \A i \in DOMAIN f \ {r} : g[i] = f[i]
           /\ \A m : Written(g, m) <=> Written(f, m) \/ m = x
           /\ Unique(f) /\ ~Written(f, x) => Unique(g)
<1>1. r \in Nat /\ f[r] \in Seq(Message)
  BY DEF FileOK
<1>2. /\ Append(f[r], x) \in Seq(Message) /\ Len(Append(f[r], x)) = Len(f[r]) + 1
      /\ \A i \in 1 .. Len(f[r]) : Append(f[r], x)[i] = f[r][i]
      /\ Append(f[r], x)[Len(f[r]) + 1] = x
  BY <1>1, AppendProperties
<1>3. Len(f[r]) \in Nat /\ DOMAIN f[r] = 1 .. Len(f[r])
      /\ DOMAIN Append(f[r], x) = 1 .. Len(f[r]) + 1
  BY <1>1, <1>2, LenProperties
<1>4. /\ FileOK(g) /\ DOMAIN g = DOMAIN f /\ g[r] = Append(f[r], x)
      /\ \A i \in DOMAIN f \ {r} : g[i] = f[i]
  <2>1. PICK c : c = Append(f[r], x)
    OBVIOUS
  <2>2. c \in Seq(Message) /\ g = With(f, r, c)
    BY <1>2, <2>1
  <2>3. /\ FileOK(g) /\ DOMAIN g = DOMAIN f \cup {r} /\ g[r] = c
        /\ \A i \in DOMAIN f \ {r} : g[i] = f[i]
    BY <1>1, <2>2 DEF FileOK, With
  <2>q. QED BY <2>1, <2>3
<1> DEFINE n == Len(f[r])
<1>5. /\ n \in Nat /\ DOMAIN f[r] = 1 .. n /\ DOMAIN g[r] = 1 .. n + 1
      /\ \A i \in 1 .. n : g[r][i] = f[r][i]
      /\ g[r][n + 1] = x
  BY <1>2, <1>3, <1>4
<1> HIDE DEF n
<1>6. ASSUME NEW m PROVE Written(g, m) <=> Written(f, m) \/ m = x
  <2>1. ASSUME Written(g, m) PROVE Written(f, m) \/ m = x
    <3>1. PICK q \in DOMAIN g : \E i \in DOMAIN g[q] : g[q][i] = m
      BY <2>1 DEF Written
    <3>2. PICK i \in DOMAIN g[q] : g[q][i] = m
      BY <3>1
    <3>3. CASE q # r
      BY <1>4, <3>1, <3>2, <3>3 DEF Written
    <3>4. CASE q = r
      <4>1. CASE i = n + 1
        BY <1>5, <3>2, <3>4, <4>1
      <4>2. CASE i # n + 1
        <5>1. i \in 1 .. n
          BY <1>5, <3>4, <4>2
        <5>q. QED BY <1>5, <3>2, <3>4, <5>1 DEF Written
      <4>q. QED BY <4>1, <4>2
    <3>q. QED BY <3>3, <3>4
  <2>2. ASSUME Written(f, m) PROVE Written(g, m)
    <3>1. PICK q \in DOMAIN f : \E i \in DOMAIN f[q] : f[q][i] = m
      BY <2>2 DEF Written
    <3>2. PICK i \in DOMAIN f[q] : f[q][i] = m
      BY <3>1
    <3>3. CASE q # r
      BY <1>4, <3>1, <3>2, <3>3 DEF Written
    <3>4. CASE q = r
      <4>1. i \in DOMAIN g[r] /\ g[r][i] = m
        BY <1>5, <3>2, <3>4
      <4>q. QED BY <1>4, <4>1 DEF Written
    <3>q. QED BY <3>3, <3>4
  <2>3. ASSUME m = x PROVE Written(g, m)
    <3>1. n + 1 \in DOMAIN g[r] /\ g[r][n + 1] = m
      BY <1>5, <2>3
    <3>q. QED BY <1>4, <3>1 DEF Written
  <2>q. QED BY <2>1, <2>2, <2>3
<1>7. ASSUME Unique(f), ~Written(f, x) PROVE Unique(g)
  <2> SUFFICES ASSUME NEW r1 \in DOMAIN g, NEW r2 \in DOMAIN g,
                      NEW i \in DOMAIN g[r1], NEW j \in DOMAIN g[r2], g[r1][i] = g[r2][j]
               PROVE  r1 = r2 /\ i = j
    BY DEF Unique
  <2>1. ASSUME NEW q \in DOMAIN g, NEW k \in DOMAIN g[q]
        PROVE  \/ q = r /\ k = n + 1 /\ g[q][k] = x
               \/ q \in DOMAIN f /\ k \in DOMAIN f[q] /\ g[q][k] = f[q][k] /\ f[q][k] # x
    <3>1. CASE q # r
      BY <1>4, <1>7, <2>1, <3>1 DEF Written
    <3>2. CASE q = r /\ k = n + 1
      BY <1>5, <3>2
    <3>3. CASE q = r /\ k # n + 1
      <4>1. k \in 1 .. n
        BY <1>5, <2>1, <3>3
      <4>2. g[q][k] = f[r][k] /\ f[r][k] # x
        BY <1>5, <1>7, <3>3, <4>1 DEF Written
      <4>q. QED BY <1>5, <3>3, <4>1, <4>2
    <3>q. QED BY <3>1, <3>2, <3>3
  <2>q. QED BY <1>7, <2>1 DEF Unique
<1>q. QED BY <1>2, <1>4, <1>6, <1>7

\* g is f with the new file r, empty or with the content of another.
Added(f, r, c, g) ==
    /\ FileOK(g) /\ DOMAIN g = DOMAIN f \cup {r} /\ g[r] = c
    /\ \A i \in DOMAIN f : g[i] = f[i]
    /\ \A m : Written(g, m) => Written(f, m) \/ \E i \in DOMAIN c : c[i] = m
    /\ \A m : Written(f, m) => Written(g, m)
    /\ \A i \in DOMAIN c : Written(g, c[i])
    /\ Unique(f) /\ c = <<>> => Unique(g)

LEMMA AddedFile ==
    ASSUME NEW f, FileOK(f), NEW r \in Nat, r \notin DOMAIN f, NEW c \in Seq(Message)
    PROVE  Added(f, r, c, With(f, r, c))
<1>0. PICK g : g = With(f, r, c)
  OBVIOUS
<1>1. /\ FileOK(g) /\ DOMAIN g = DOMAIN f \cup {r} /\ g[r] = c
      /\ \A i \in DOMAIN f : g[i] = f[i]
  BY <1>0 DEF FileOK, With
<1>2. ASSUME NEW m
      PROVE  /\ Written(g, m) => Written(f, m) \/ \E i \in DOMAIN c : c[i] = m
             /\ Written(f, m) => Written(g, m)
             /\ \A i \in DOMAIN c : c[i] = m => Written(g, m)
  <2>1. ASSUME Written(g, m) PROVE Written(f, m) \/ \E i \in DOMAIN c : c[i] = m
    <3>1. PICK q \in DOMAIN g : \E i \in DOMAIN g[q] : g[q][i] = m
      BY <2>1 DEF Written
    <3>2. CASE q = r
      BY <1>1, <3>1, <3>2
    <3>3. CASE q # r
      BY <1>1, <3>1, <3>3 DEF Written
    <3>q. QED BY <3>2, <3>3
  <2>2. ASSUME Written(f, m) PROVE Written(g, m)
    BY <1>1, <2>2 DEF Written
  <2>3. ASSUME NEW i \in DOMAIN c, c[i] = m PROVE Written(g, m)
    <3>1. r \in DOMAIN g /\ i \in DOMAIN g[r] /\ g[r][i] = m
      BY <1>1, <2>3
    <3>q. QED BY <3>1 DEF Written
  <2>q. QED BY <2>1, <2>2, <2>3
<1>3. ASSUME Unique(f), c = <<>> PROVE Unique(g)
  <2>1. DOMAIN c = {}
    BY <1>3
  <2>q. QED BY <1>1, <1>3, <2>1 DEF Unique
<1>q. QED BY <1>0, <1>1, <1>2, <1>3 DEF Added

LEMMA RemovedFile ==
    ASSUME NEW f, FileOK(f), NEW r \in DOMAIN f, NEW g, g = Without(f, {r})
    PROVE  \A m : Written(f, m) => Written(g, m) \/ \E i \in DOMAIN f[r] : f[r][i] = m
<1>1. DOMAIN g = DOMAIN f \ {r} /\ \A i \in DOMAIN f \ {r} : g[i] = f[i]
  BY WithoutFile
<1>q. QED BY <1>1 DEF Written

LEMMA StillUnique ==
    ASSUME NEW f, FileOK(f), NEW rs, Unique(f)
    PROVE  Unique(Without(f, rs))
<1> DEFINE g == Without(f, rs)
<1>1. DOMAIN g = DOMAIN f \ rs /\ \A i \in DOMAIN f \ rs : g[i] = f[i]
  BY WithoutFile
<1> HIDE DEF g
<1>2. Unique(g)
  BY <1>1 DEF Unique
<1>q. QED BY <1>2 DEF g

\* The end of the file r is lost.
LEMMA TruncatedFile ==
    ASSUME NEW f, FileOK(f), NEW r \in DOMAIN f, NEW n \in 0 .. Len(f[r]), NEW g,
           g = With(f, r, SubSeq(f[r], 1, n))
    PROVE  /\ FileOK(g) /\ DOMAIN g = DOMAIN f /\ Len(g[r]) = n
           /\ \A i \in DOMAIN f \ {r} : g[i] = f[i]
           /\ \A m : Written(g, m) => Written(f, m)
           /\ Unique(f) => Unique(g)
<1>1. r \in Nat /\ f[r] \in Seq(Message) /\ Len(f[r]) \in Nat /\ DOMAIN f[r] = 1 .. Len(f[r])
  <2>1. r \in Nat /\ f[r] \in Seq(Message)
    BY DEF FileOK
  <2>q. QED BY <2>1, LenProperties
<1>2. PICK c : c = SubSeq(f[r], 1, n)
  OBVIOUS
<1>3. c \in Seq(Message) /\ Len(c) = n /\ \A i \in 1 .. n : c[i] = f[r][i]
  BY <1>1, <1>2, SubSeqProperties
<1>4. DOMAIN c = 1 .. n /\ g = With(f, r, c)
  BY <1>2, <1>3, LenProperties
<1>5. /\ FileOK(g) /\ DOMAIN g = DOMAIN f \cup {r} /\ g[r] = c
      /\ \A i \in DOMAIN f \ {r} : g[i] = f[i]
  BY <1>1, <1>3, <1>4 DEF FileOK, With
<1>6. ASSUME NEW q \in DOMAIN g, NEW k \in DOMAIN g[q]
      PROVE  q \in DOMAIN f /\ k \in DOMAIN f[q] /\ g[q][k] = f[q][k]
  <2>1. CASE q = r
    BY <1>1, <1>3, <1>4, <1>5, <1>6, <2>1
  <2>2. CASE q # r
    BY <1>5, <1>6, <2>2
  <2>q. QED BY <2>1, <2>2
<1>7. \A m : Written(g, m) => Written(f, m)
  BY <1>6 DEF Written
<1>8. Unique(f) => Unique(g)
  BY <1>6 DEF Unique
<1>q. QED BY <1>3, <1>5, <1>7, <1>8

-----------------------------------------------------------------------------
(* What the actions do to the files.                                       *)

LEMMA Cast ==
    /\ Putters \subseteq Actors /\ Flusher \in Actors /\ Main \in Actors
    /\ Threads \subseteq Putters /\ Main \in Putters /\ Flusher \notin Putters
    /\ Actors = Putters \cup {Flusher} /\ None \notin Actors /\ None \notin Nat
    /\ None \notin Message /\ None \notin Job /\ Main \notin Threads
BY LoggerAssumption DEF Actors, Putters, Message

LEMMA AtSlot == ASSUME TypeOK, NEW a \in Actors PROVE At(a) \in Slots
<1>1. slot[a] \in Nat /\ done \in Nat
  BY LoggerAssumption DEF TypeOK, Slots
<1>q. QED BY <1>1, Wraps DEF At

\* The element that is flushed holds a message, and the message goes to the end
\* of the current file.
LEMMA Appends ==
    ASSUME TypeOK, Elements, NEW a \in Actors, FlushElemEnd(a)
    PROVE  /\ ctx[At(a)] \in Message /\ status[At(a)] = "FLUSHING" /\ done < Num
           /\ FileOK(plain') /\ DOMAIN plain' = DOMAIN plain
           /\ Len(plain'[curRevnum]) = Len(plain[curRevnum]) + 1
           /\ \A r \in DOMAIN plain \ {curRevnum} : plain'[r] = plain[r]
           /\ \A m : Written(plain', m) <=> Written(plain, m) \/ m = ctx[At(a)]
           /\ Unique(plain) /\ ~Written(plain, ctx[At(a)]) => Unique(plain')
<1>1. At(a) \in Slots /\ pc[a] = "flushing"
  BY AtSlot DEF FlushElemEnd, Step
<1>2. status[At(a)] = "FLUSHING" /\ done < Num
  BY <1>1 DEF Elements
<1>3. ctx[At(a)] \in Message
  BY <1>1, <1>2, Cast DEF TypeOK
<1>4. PICK x \in Message : x = ctx[At(a)]
  BY <1>3
<1>5. PICK f, r, g : f = plain /\ r = curRevnum /\ g = plain'
  OBVIOUS
<1>6. FileOK(f) /\ r \in DOMAIN f /\ g = With(f, r, Append(f[r], x))
  BY <1>4, <1>5 DEF TypeOK, FlushElemEnd
<1>7. /\ FileOK(g) /\ DOMAIN g = DOMAIN f /\ Len(g[r]) = Len(f[r]) + 1
      /\ \A i \in DOMAIN f \ {r} : g[i] = f[i]
      /\ \A m : Written(g, m) <=> Written(f, m) \/ m = x
      /\ Unique(f) /\ ~Written(f, x) => Unique(g)
  BY <1>6, AppendedFile
<1>q. QED BY <1>2, <1>3, <1>4, <1>5, <1>7

\* A flush leaves the current file alone, or it opens the next one.
Stays ==
    /\ Len(plain[curRevnum]) <= MaxLogFileSize
    /\ plain' = plain /\ curRevnum' = curRevnum /\ pending' = pending
    /\ numCompJobs' = numCompJobs
Opens ==
    /\ Len(plain[curRevnum]) > MaxLogFileSize
    /\ curRevnum' = curRevnum + 1 /\ pending' = Append(pending, curRevnum)
    /\ numCompJobs' = numCompJobs + 1
    /\ FileOK(plain') /\ DOMAIN plain' = DOMAIN plain \cup {curRevnum + 1}
    /\ Len(plain'[curRevnum + 1]) = 0
    /\ \A r \in DOMAIN plain : plain'[r] = plain[r]
    /\ \A m : Written(plain', m) <=> Written(plain, m)
    /\ Unique(plain) => Unique(plain')

LEMMA Rotates ==
    ASSUME TypeOK, Files, NEW a \in Actors, FlushDone(a) PROVE Stays \/ Opens
<1>1. FileOK(plain) /\ curRevnum \in DOMAIN plain /\ curRevnum + 1 \in Nat
      /\ curRevnum + 1 \notin DOMAIN plain /\ plain[curRevnum] \in Seq(Message)
  BY DEF TypeOK, Files, FileOK
<1>2. Len(plain[curRevnum]) \in Nat
  BY <1>1, LenProperties
<1>3. CASE Len(plain[curRevnum]) > MaxLogFileSize
  <2>1. /\ curRevnum' = curRevnum + 1 /\ pending' = Append(pending, curRevnum)
        /\ numCompJobs' = numCompJobs + 1 /\ plain' = With(plain, curRevnum + 1, <<>>)
    BY <1>3 DEF FlushDone, Rotate
  <2>2. PICK f, r, g, c : f = plain /\ r = curRevnum + 1 /\ g = plain' /\ c = <<>>
    OBVIOUS
  <2>3. FileOK(f) /\ r \in Nat /\ r \notin DOMAIN f /\ g = With(f, r, c) /\ c \in Seq(Message)
    BY <1>1, <2>1, <2>2
  <2>4. Added(f, r, c, g)
    BY <2>3, AddedFile
  <2>5. DOMAIN c = {} /\ Len(c) = 0
    BY <2>2
  <2>6. /\ FileOK(plain') /\ DOMAIN plain' = DOMAIN plain \cup {curRevnum + 1}
        /\ Len(plain'[curRevnum + 1]) = 0
        /\ \A i \in DOMAIN plain : plain'[i] = plain[i]
        /\ \A m : Written(plain', m) <=> Written(plain, m)
        /\ Unique(plain) => Unique(plain')
    BY <2>2, <2>4, <2>5 DEF Added
  <2>q. QED BY <1>3, <2>1, <2>6 DEF Opens
<1>4. CASE ~(Len(plain[curRevnum]) > MaxLogFileSize)
  <2>1. Len(plain[curRevnum]) <= MaxLogFileSize
    BY <1>2, <1>4, LoggerAssumption
  <2>q. QED BY <1>4, <2>1 DEF FlushDone, Rotate, Stays
<1>q. QED BY <1>3, <1>4

\* The job of the compressor, and what it may assume of its file.
LEMMA JobFile ==
    ASSUME TypeOK, Files, comp # None
    PROVE  /\ comp \in Job /\ comp.rev \in Nat /\ comp.at \in {"tar", "rm", "expire"}
           /\ comp = [rev |-> comp.rev, at |-> comp.at]
           /\ comp.rev < curRevnum /\ curRevnum \in Nat
<1>1. comp \in Job
  BY DEF TypeOK
<1>2. /\ comp.rev \in Nat /\ comp.at \in {"tar", "rm", "expire"}
      /\ comp = [rev |-> comp.rev, at |-> comp.at]
  BY <1>1 DEF Job
<1>3. curRevnum \in Nat
  BY DEF TypeOK, FileOK
<1>q. QED BY <1>1, <1>2, <1>3 DEF Files

\* tar makes an archive that was not there, or it fails.
Tarred(r) ==
    /\ r \in Nat /\ r \in DOMAIN plain /\ r \notin DOMAIN tars /\ FileOK(tars')
    /\ DOMAIN tars' = DOMAIN tars \/ DOMAIN tars' = DOMAIN tars \cup {r}
    /\ r \in unpacked' \/ (r \in DOMAIN tars' /\ tars'[r] = plain[r])
    /\ unpacked \subseteq unpacked'
    /\ \A i \in DOMAIN tars : tars'[i] = tars[i]
    /\ \A m : Written(tars', m) => Written(tars, m) \/ Written(plain, m)
    /\ \A m : Written(tars, m) => Written(tars', m)

LEMMA Archives ==
    ASSUME TypeOK, Files, Tar
    PROVE  comp # None /\ Tarred(comp.rev) /\ comp' = [rev |-> comp.rev, at |-> "rm"]
<1>1. comp # None /\ comp.at = "tar"
  BY DEF Tar
<1>2. comp.rev \in Nat /\ comp = [rev |-> comp.rev, at |-> comp.at]
  BY <1>1, JobFile
<1>3. comp' = [rev |-> comp.rev, at |-> "rm"]
  <2>1. PICK v, w : v = comp.rev /\ w = comp.at /\ comp = [rev |-> v, at |-> w]
    BY <1>2
  <2>2. comp' = [[rev |-> v, at |-> w] EXCEPT !.at = "rm"]
    BY <2>1 DEF Tar
  <2>3. comp' = [rev |-> v, at |-> "rm"]
    BY <2>2
  <2>q. QED BY <2>1, <2>3
<1>4. PICK f, r, whole, g : f = tars /\ r = comp.rev /\ whole = plain[comp.rev] /\ g = tars'
  OBVIOUS
<1>5. /\ FileOK(f) /\ r \in Nat /\ r \notin DOMAIN f /\ whole \in Seq(Message)
      /\ r \in DOMAIN plain
  BY <1>1, <1>2, <1>4 DEF TypeOK, FileOK, Files
<1>6. ASSUME NEW c \in Seq(Message), \A i \in DOMAIN c : \E j \in DOMAIN whole : c[i] = whole[j],
             g = With(f, r, c), r \in unpacked' \/ c = whole, unpacked \subseteq unpacked'
      PROVE  Tarred(r)
  <2>1. Added(f, r, c, g)
    BY <1>5, <1>6, AddedFile
  <2>2. ASSUME NEW m, Written(g, m) PROVE Written(f, m) \/ Written(plain, m)
    <3>1. Written(f, m) \/ \E i \in DOMAIN c : c[i] = m
      BY <2>1, <2>2 DEF Added
    <3>2. CASE \E i \in DOMAIN c : c[i] = m
      <4>1. PICK j \in DOMAIN whole : whole[j] = m
        BY <1>6, <3>2
      <4>q. QED BY <1>4, <1>5, <4>1 DEF Written
    <3>q. QED BY <3>1, <3>2
  <2>q. QED BY <1>4, <1>5, <1>6, <2>1, <2>2 DEF Added, Tarred
<1>7. ASSUME tars' = With(tars, comp.rev, plain[comp.rev]), UNCHANGED unpacked PROVE Tarred(r)
  BY <1>4, <1>5, <1>6, <1>7
<1>8. ASSUME TarFails PROVE Tarred(r)
  <2>1. r \in unpacked' /\ unpacked \subseteq unpacked'
    BY <1>4, <1>8 DEF TarFails
  <2>2. CASE UNCHANGED tars
    BY <1>4, <1>5, <2>1, <2>2 DEF Tarred
  <2>3. CASE \E n \in 0 .. Len(plain[comp.rev]) - 1 :
                tars' = With(tars, comp.rev, SubSeq(plain[comp.rev], 1, n))
    <3>1. PICK n \in 0 .. Len(whole) - 1 : g = With(f, r, SubSeq(whole, 1, n))
      BY <1>4, <2>3
    <3>2. PICK c : c = SubSeq(whole, 1, n)
      OBVIOUS
    <3>3. Len(whole) \in Nat /\ DOMAIN whole = 1 .. Len(whole) /\ n \in Nat /\ n <= Len(whole)
      BY <1>5, <3>1, LenProperties
    <3>4. \A i \in 1 .. n : i \in 1 .. Len(whole) /\ whole[i] \in Message
      BY <1>5, <3>3, ElementOfSeq
    <3>5. c = [i \in 1 .. n |-> whole[i]]
      BY <1>5, <3>2, <3>3
    <3>6. c \in Seq(Message) /\ \A i \in DOMAIN c : \E j \in DOMAIN whole : c[i] = whole[j]
      BY <3>3, <3>4, <3>5
    <3>q. QED BY <1>4, <1>6, <2>1, <3>1, <3>2, <3>6
  <2>q. QED BY <1>8, <2>2, <2>3 DEF TarFails
<1>9. Tarred(r)
  BY <1>7, <1>8, <1>4 DEF Tar
<1>q. QED BY <1>1, <1>3, <1>4, <1>9

\* rm deletes a file; what is not in the archive, after a failed tar, is marked.
Deleted(r) ==
    /\ r \in DOMAIN plain /\ r \in Nat /\ r # curRevnum
    /\ FileOK(plain') /\ DOMAIN plain' = DOMAIN plain \ {r}
    /\ \A i \in DOMAIN plain \ {r} : plain'[i] = plain[i]
    /\ \A m : Written(plain', m) => Written(plain, m)
    /\ left \subseteq left'
    /\ \A m : Written(plain, m) => Written(plain', m) \/ Written(tars, m) \/ m \in left'
    /\ Unique(plain) => Unique(plain')

LEMMA Deletes ==
    ASSUME TypeOK, Files, Rm
    PROVE  comp # None /\ Deleted(comp.rev) /\ comp' = [rev |-> comp.rev, at |-> "expire"]
<1>1. comp # None /\ comp.at = "rm"
  BY DEF Rm
<1>2. comp.rev \in Nat /\ comp = [rev |-> comp.rev, at |-> comp.at] /\ comp.rev # curRevnum
  BY <1>1, JobFile
<1>3. comp' = [rev |-> comp.rev, at |-> "expire"]
  <2>1. PICK v, w : v = comp.rev /\ w = comp.at /\ comp = [rev |-> v, at |-> w]
    BY <1>2
  <2>2. comp' = [[rev |-> v, at |-> w] EXCEPT !.at = "expire"]
    BY <2>1 DEF Rm
  <2>3. comp' = [rev |-> v, at |-> "expire"]
    BY <2>2
  <2>q. QED BY <2>1, <2>3
<1>4. PICK f, r, g : f = plain /\ r = comp.rev /\ g = plain'
  OBVIOUS
<1>5. /\ FileOK(f) /\ r \in DOMAIN f /\ g = Without(f, {r})
      /\ r \in unpacked \/ (r \in DOMAIN tars /\ tars[r] = f[r])
  BY <1>1, <1>4 DEF TypeOK, Files, Rm
<1>6. /\ FileOK(g) /\ DOMAIN g = DOMAIN f \ {r}
      /\ \A i \in DOMAIN f \ {r} : g[i] = f[i]
      /\ \A m : Written(g, m) => Written(f, m)
  BY <1>5, WithoutFile
<1>7. Unique(f) => Unique(g)
  BY <1>5, StillUnique
<1>8. ASSUME NEW m, Written(f, m) PROVE Written(g, m) \/ Written(tars, m) \/ m \in left'
  <2>1. CASE r \in unpacked
    <3>1. left' = left \cup (Contents(f) \ (Contents(g) \cup Contents(tars)))
      BY <1>4, <2>1 DEF Rm
    <3>2. /\ m \in Contents(f) <=> Written(f, m)
          /\ m \in Contents(g) <=> Written(g, m)
          /\ m \in Contents(tars) <=> Written(tars, m)
      BY ContentsAre
    <3>q. QED BY <1>8, <3>1, <3>2
  <2>2. CASE r \in DOMAIN tars /\ tars[r] = f[r]
    <3>1. Written(g, m) \/ \E i \in DOMAIN f[r] : f[r][i] = m
      BY <1>5, <1>8, RemovedFile
    <3>q. QED BY <2>2, <3>1 DEF Written
  <2>q. QED BY <1>5, <2>1, <2>2
<1>9. left \subseteq left'
  BY DEF Rm
<1>q. QED BY <1>1, <1>2, <1>3, <1>4, <1>5, <1>6, <1>7, <1>8, <1>9 DEF Deleted

\* Retention deletes old files and archives; what only they had is marked.
Expired(old) ==
    /\ \A r \in old : r < comp.rev
    /\ FileOK(plain') /\ DOMAIN plain' = DOMAIN plain \ old
    /\ \A i \in DOMAIN plain \ old : plain'[i] = plain[i]
    /\ FileOK(tars') /\ DOMAIN tars' = DOMAIN tars \ old
    /\ \A i \in DOMAIN tars \ old : tars'[i] = tars[i]
    /\ \A m : Written(plain', m) => Written(plain, m)
    /\ \A m : Written(tars', m) => Written(tars, m)
    /\ \A m : Written(plain, m) => Written(plain', m) \/ m \in left'
    /\ \A m : Written(tars, m) => Written(tars', m) \/ m \in left'
    /\ Unique(plain) => Unique(plain')
    /\ left \subseteq left' /\ minRevnum' \in Nat

LEMMA Expires ==
    ASSUME TypeOK, Files, Expire
    PROVE  comp # None /\ \E old : Expired(old)
<1>1. comp # None /\ comp.at = "expire"
  BY DEF Expire
<1>2. comp.rev \in Nat
  BY <1>1, JobFile
<1>3. PICK old : old = minRevnum .. comp.rev - MaxLogFiles
  OBVIOUS
<1>4. /\ plain' = Without(plain, old) /\ tars' = Without(tars, old)
      /\ minRevnum' = IF old = {} THEN minRevnum ELSE comp.rev - MaxLogFiles + 1
      /\ left' = left \cup (Contents(plain) \ Contents(plain'))
                      \cup (Contents(tars) \ Contents(tars'))
  BY <1>3 DEF Expire
<1>5. /\ \A r \in old : r \in Nat /\ r < comp.rev
      /\ old # {} => comp.rev - MaxLogFiles + 1 \in Nat
  BY <1>2, <1>3, LoggerAssumption DEF TypeOK
<1>6. minRevnum' \in Nat
  <2>1. CASE old = {}
    BY <1>4, <2>1 DEF TypeOK
  <2>2. CASE old # {}
    BY <1>4, <1>5, <2>2
  <2>q. QED BY <2>1, <2>2
<1>7. FileOK(plain) /\ FileOK(tars)
  BY DEF TypeOK
<1>8. ASSUME NEW f, FileOK(f), NEW g, g = Without(f, old)
      PROVE  /\ FileOK(g) /\ DOMAIN g = DOMAIN f \ old
             /\ \A i \in DOMAIN f \ old : g[i] = f[i]
             /\ \A m : Written(g, m) => Written(f, m)
             /\ Unique(f) => Unique(g)
  <2>1. /\ FileOK(g) /\ DOMAIN g = DOMAIN f \ old
        /\ \A i \in DOMAIN f \ old : g[i] = f[i]
        /\ \A m : Written(g, m) => Written(f, m)
    BY <1>8, WithoutFile
  <2>2. Unique(f) => Unique(g)
    BY <1>8, StillUnique
  <2>q. QED BY <2>1, <2>2
<1>9. ASSUME NEW m
      PROVE  /\ Written(plain, m) => Written(plain', m) \/ m \in left'
             /\ Written(tars, m) => Written(tars', m) \/ m \in left'
  <2>1. /\ m \in Contents(plain) <=> Written(plain, m)
        /\ m \in Contents(tars) <=> Written(tars, m)
        /\ m \in Contents(plain') <=> Written(plain', m)
        /\ m \in Contents(tars') <=> Written(tars', m)
    BY ContentsAre
  <2>q. QED BY <1>4, <2>1
<1>10. left \subseteq left'
  BY <1>4
<1>11. /\ FileOK(plain') /\ DOMAIN plain' = DOMAIN plain \ old
       /\ \A i \in DOMAIN plain \ old : plain'[i] = plain[i]
       /\ \A m : Written(plain', m) => Written(plain, m)
       /\ Unique(plain) => Unique(plain')
  BY <1>4, <1>7, <1>8
<1>12. /\ FileOK(tars') /\ DOMAIN tars' = DOMAIN tars \ old
       /\ \A i \in DOMAIN tars \ old : tars'[i] = tars[i]
       /\ \A m : Written(tars', m) => Written(tars, m)
  BY <1>4, <1>7, <1>8
<1>13. Expired(old)
  BY <1>5, <1>6, <1>9, <1>10, <1>11, <1>12 DEF Expired
<1>q. QED BY <1>1, <1>13

\* findMinMaxRevNum comes to the file that the dead process had, and this one may
\* have lost its end.
Recovered ==
    /\ curRevnum' = curRevnum /\ minRevnum' \in Nat
    /\ FileOK(plain') /\ DOMAIN plain' = DOMAIN plain
    /\ Len(plain'[curRevnum]) <= Len(plain[curRevnum])
    /\ \A i \in DOMAIN plain \ {curRevnum} : plain'[i] = plain[i]
    /\ \A m : Written(plain', m) => Written(plain, m)
    /\ Unique(plain) => Unique(plain')
    /\ \A m \in 1 .. sent : Written(plain', m) \/ Written(tars, m) \/ m \in left'

LEMMA MaxIsCurrent == ASSUME TypeOK, Files PROVE MaxRevNum = curRevnum
<1> DEFINE nums == {0} \cup DOMAIN plain \cup {r + 1 : r \in DOMAIN tars}
<1>1. curRevnum \in nums /\ curRevnum \in Nat
  BY DEF TypeOK, FileOK
<1>2. ASSUME NEW s \in nums PROVE s \in Nat /\ s <= curRevnum
  <2>1. CASE s = 0
    BY <1>1, <2>1
  <2>2. CASE s \in DOMAIN plain
    BY <2>2, <1>1 DEF TypeOK, FileOK, Files
  <2>3. CASE s \in {r + 1 : r \in DOMAIN tars}
    BY <2>3, <1>1 DEF TypeOK, FileOK, Files
  <2>q. QED BY <1>2, <2>1, <2>2, <2>3
<1>3. MaxRevNum = CHOOSE r \in nums : \A s \in nums : r >= s
  BY DEF MaxRevNum
<1> HIDE DEF nums
<1>4. curRevnum \in nums /\ \A s \in nums : curRevnum >= s
  BY <1>1, <1>2
<1>5. MaxRevNum \in nums /\ \A s \in nums : MaxRevNum >= s
  BY <1>3, <1>4
<1>q. QED BY <1>1, <1>2, <1>5

LEMMA MinIsNumber == ASSUME TypeOK PROVE MinRevNum \in Nat
<1> DEFINE nums == DOMAIN plain \cup DOMAIN tars
<1>1. nums \subseteq Nat
  BY DEF TypeOK, FileOK
<1>2. MinRevNum = IF nums = {} THEN 0 ELSE CHOOSE r \in nums : \A s \in nums : r <= s
  BY DEF MinRevNum
<1> HIDE DEF nums
<1>3. CASE nums = {}
  BY <1>2, <1>3
<1>4. CASE nums # {}
  <2>1. \E r \in nums : \A s \in nums : r <= s
    BY <1>1, <1>4, Least
  <2>2. MinRevNum \in nums
    BY <1>2, <1>4, <2>1
  <2>q. QED BY <1>1, <2>2
<1>q. QED BY <1>3, <1>4

LEMMA Recovers == ASSUME TypeOK, Files, Crash PROVE Recovered
<1>1. MaxRevNum = curRevnum /\ MinRevNum \in Nat
  BY MaxIsCurrent, MinIsNumber
<1>2. curRevnum' = curRevnum /\ minRevnum' \in Nat
  BY <1>1 DEF Crash
<1>3. FileOK(plain) /\ curRevnum \in DOMAIN plain /\ plain[curRevnum] \in Seq(Message)
      /\ synced \in 0 .. Len(plain[curRevnum])
  BY DEF TypeOK, FileOK
<1>4. Len(plain[curRevnum]) \in Nat
  BY <1>3, LenProperties
<1>5. PICK n \in synced .. Len(plain[curRevnum]) :
        plain' = IF MaxRevNum \in DOMAIN With(plain, curRevnum, SubSeq(plain[curRevnum], 1, n))
                 THEN With(plain, curRevnum, SubSeq(plain[curRevnum], 1, n))
                 ELSE With(With(plain, curRevnum, SubSeq(plain[curRevnum], 1, n)), MaxRevNum, <<>>)
  BY DEF Crash
<1>6. n \in 0 .. Len(plain[curRevnum])
  BY <1>3, <1>4
<1>7. PICK f, r, g : f = plain /\ r = curRevnum /\ g = With(f, r, SubSeq(f[r], 1, n))
  OBVIOUS
<1>8. /\ FileOK(g) /\ DOMAIN g = DOMAIN f /\ Len(g[r]) = n
      /\ \A i \in DOMAIN f \ {r} : g[i] = f[i]
      /\ \A m : Written(g, m) => Written(f, m)
      /\ Unique(f) => Unique(g)
  <2>1. FileOK(f) /\ r \in DOMAIN f /\ n \in 0 .. Len(f[r])
    BY <1>3, <1>6, <1>7
  <2>q. QED BY <1>7, <2>1, TruncatedFile
<1>9. plain' = g
  BY <1>1, <1>3, <1>5, <1>7, <1>8
<1>10. ASSUME NEW m \in 1 .. sent PROVE Written(plain', m) \/ Written(tars, m) \/ m \in left'
  <2>1. /\ m \in Contents(plain') <=> Written(plain', m)
        /\ m \in Contents(tars) <=> Written(tars, m)
    BY ContentsAre
  <2>2. left' = left \cup ((1 .. sent) \ (Contents(plain') \cup Contents(tars)))
    BY DEF Crash
  <2>q. QED BY <2>1, <2>2
<1>11. /\ FileOK(plain') /\ DOMAIN plain' = DOMAIN plain
       /\ Len(plain'[curRevnum]) <= Len(plain[curRevnum])
       /\ \A i \in DOMAIN plain \ {curRevnum} : plain'[i] = plain[i]
       /\ \A m : Written(plain', m) => Written(plain, m)
       /\ Unique(plain) => Unique(plain')
  BY <1>4, <1>6, <1>7, <1>8, <1>9
<1>q. QED BY <1>2, <1>10, <1>11 DEF Recovered

-----------------------------------------------------------------------------
(* Types.                                                                  *)

\* The types of the ring, of the threads and of the files, apart.
RingTypes ==
    /\ status \in [Slots -> Statuses] /\ cursor \in Slots
    /\ ctx \in [Slots -> Message \cup {None}]
    /\ \A s \in Slots : status[s] \in {"DIRTY", "FLUSHING"} => ctx[s] # None
ThreadTypes ==
    /\ flushingLogs \in Actors \cup {None}
    /\ pc \in [Actors -> PCs] /\ slot \in [Actors -> Slots]
    /\ msg \in [Putters -> Message \cup {None}] /\ done \in 0 .. Num
    /\ stage \in Stages
FileTypes ==
    /\ FileOK(plain) /\ FileOK(tars) /\ curRevnum \in DOMAIN plain
    /\ synced \in 0 .. Len(plain[curRevnum])
    /\ minRevnum \in Nat
JobTypes ==
    /\ numCompJobs \in Nat /\ pending \in Seq(Nat) /\ comp \in Job \cup {None}
    /\ sent \in Nat /\ crashes \in Nat

LEMMA TypesAre == TypeOK <=> RingTypes /\ ThreadTypes /\ FileTypes /\ JobTypes
BY DEF TypeOK, RingTypes, ThreadTypes, FileTypes, JobTypes

LEMMA SlotZero == 0 \in Slots /\ \A x \in Slots : (x + 1) % Num \in Slots
BY LoggerAssumption DEF Slots

LEMMA RingTyped ==
    ASSUME TypeOK, Posts, Elements, Files, Next PROVE RingTypes'
<1>t. RingTypes /\ ThreadTypes
  BY TypesAre
<1>1. ASSUME NEW t \in Putters, Claim(t) PROVE RingTypes'
  BY <1>t, <1>1, SlotZero DEF RingTypes, Claim
<1>2. ASSUME NEW t \in Putters, Available(t) \/ NeedToFlush(t) \/ Wait(t) \/ WriteFails(t)
      PROVE  RingTypes'
  BY <1>t, <1>2 DEF RingTypes, Available, NeedToFlush, Wait, WriteFails, ring
<1>3. ASSUME NEW t \in Putters, Write(t) PROVE RingTypes'
  <2>1. slot[t] \in Slots
    BY <1>t, Cast DEF ThreadTypes
  <2>q. QED BY <1>t, <1>3, <2>1 DEF RingTypes, Write, Statuses
<1>4. ASSUME NEW t \in Putters, WriteEnd(t) PROVE RingTypes'
  <2>1. slot[t] \in Slots /\ msg[t] \in Message /\ msg[t] # None
    <3>1. pc[t] = "writing" /\ msg[t] \in Message \cup {None} /\ slot[t] \in Slots
      BY <1>t, <1>4, Cast DEF ThreadTypes, WriteEnd, Step
    <3>2. CASE t = Main
      BY <3>1, <3>2 DEF Posts, Putting
    <3>3. CASE t \in Threads
      BY <3>1, <3>3 DEF Posts
    <3>q. QED BY <3>1, <3>2, <3>3 DEF Putters
  <2>2. /\ status' = [status EXCEPT ![slot[t]] = "DIRTY"] /\ ctx' = [ctx EXCEPT ![slot[t]] = msg[t]]
        /\ cursor' = cursor
    BY <1>4 DEF WriteEnd
  <2>q. QED BY <1>t, <2>1, <2>2 DEF RingTypes, Statuses
<1>5. ASSUME NEW a \in Actors, FlushAll(a) \/ TryLock(a) \/ FlushSkip(a) \/ FlushDone(a)
      PROVE  RingTypes'
  BY <1>t, <1>5 DEF RingTypes, FlushAll, TryLock, FlushSkip, FlushDone, ring
<1>6. ASSUME NEW a \in Actors, FlushElem(a) \/ FlushElemEnd(a) PROVE RingTypes'
  <2>1. At(a) \in Slots
    BY AtSlot
  <2>2. CASE FlushElem(a)
    BY <1>t, <2>1, <2>2 DEF RingTypes, FlushElem, Statuses
  <2>3. CASE FlushElemEnd(a)
    BY <1>t, <2>1, <2>3 DEF RingTypes, FlushElemEnd, Statuses
  <2>q. QED BY <1>6, <2>2, <2>3
<1>7. ASSUME Compress \/ Stop PROVE RingTypes'
  BY <1>t, <1>7 DEF RingTypes, Compress, TakeJob, Tar, Rm, Expire, Stop, RemoveLogger,
     Close, StopEnd, ring
<1>8. ASSUME Crash PROVE RingTypes'
  BY <1>8, SlotZero DEF RingTypes, Crash, Statuses
<1>q. QED BY <1>1, <1>2, <1>3, <1>4, <1>5, <1>6, <1>7, <1>8 DEF Next, Put, Flush

LEMMA ThreadTyped ==
    ASSUME TypeOK, Posts, Elements, Files, Next PROVE ThreadTypes'
<1>t. RingTypes /\ ThreadTypes /\ JobTypes
  BY TypesAre
<1>1. ASSUME NEW t \in Putters, Claim(t) PROVE ThreadTypes'
  <2>1. cursor \in Slots /\ sent + 1 \in Message /\ t \in Actors
    BY <1>t, Cast DEF RingTypes, JobTypes, Message
  <2>2. stage' \in Stages
    BY <1>t, <1>1 DEF ThreadTypes, Claim, Stages
  <2>q. QED BY <1>t, <1>1, <2>1, <2>2 DEF ThreadTypes, Claim, PCs
<1>2. ASSUME NEW t \in Putters, Available(t) \/ NeedToFlush(t) \/ Wait(t) \/ Write(t)
      PROVE  ThreadTypes'
  <2>1. \E v \in PCs : pc' = [pc EXCEPT ![t] = v]
    BY <1>2 DEF Available, NeedToFlush, Wait, Write, Step, PCs
  <2>2. pc' \in [Actors -> PCs]
    BY <1>t, <2>1 DEF ThreadTypes
  <2>3. UNCHANGED <<flushingLogs, slot, msg, done, stage>>
    BY <1>2 DEF Available, NeedToFlush, Wait, Write
  <2>q. QED BY <1>t, <2>2, <2>3 DEF ThreadTypes
<1>3. ASSUME NEW t \in Putters, WriteFails(t) \/ WriteEnd(t) PROVE ThreadTypes'
  <2>1. /\ pc' = [pc EXCEPT ![t] = "idle"] /\ msg' = [msg EXCEPT ![t] = None]
        /\ UNCHANGED <<flushingLogs, slot, done, stage>>
    BY <1>3 DEF WriteFails, WriteEnd, Step
  <2>q. QED BY <1>t, <2>1 DEF ThreadTypes, PCs
<1>4. ASSUME NEW a \in Actors, FlushAll(a) PROVE ThreadTypes'
  <2>1. stage' \in Stages /\ cursor \in Slots
    BY <1>t, <1>4 DEF ThreadTypes, RingTypes, FlushAll, Stages
  <2>q. QED BY <1>t, <1>4, <2>1 DEF ThreadTypes, FlushAll, Step, PCs
<1>5. ASSUME NEW a \in Actors, TryLock(a) PROVE ThreadTypes'
  <2>1. UNCHANGED <<slot, msg, stage>>
    BY <1>5 DEF TryLock
  <2>2. CASE flushingLogs = None
    BY <1>t, <1>5, <2>1, <2>2, LoggerAssumption DEF ThreadTypes, TryLock, Step, PCs
  <2>3. CASE flushingLogs # None
    <3>1. \E v \in PCs : pc' = [pc EXCEPT ![a] = v]
      BY <1>5, <2>3 DEF TryLock, Step, PCs
    <3>2. pc' \in [Actors -> PCs]
      BY <1>t, <3>1 DEF ThreadTypes
    <3>q. QED BY <1>t, <1>5, <2>1, <2>3, <3>2 DEF ThreadTypes, TryLock
  <2>q. QED BY <2>2, <2>3
<1>6. ASSUME NEW a \in Actors, FlushSkip(a) PROVE ThreadTypes'
  BY <1>t, <1>6, LoggerAssumption DEF ThreadTypes, FlushSkip
<1>7. ASSUME NEW a \in Actors, FlushElem(a) PROVE ThreadTypes'
  BY <1>t, <1>7 DEF ThreadTypes, FlushElem, Step, PCs
<1>8. ASSUME NEW a \in Actors, FlushElemEnd(a) PROVE ThreadTypes'
  <2>1. done < Num
    BY <1>8, Appends
  <2>q. QED BY <1>t, <1>8, <2>1, LoggerAssumption DEF ThreadTypes, FlushElemEnd, Step, PCs
<1>9. ASSUME NEW a \in Actors, FlushDone(a) PROVE ThreadTypes'
  <2>1. \E v \in PCs : pc' = [pc EXCEPT ![a] = v]
    BY <1>9 DEF FlushDone, Step, PCs
  <2>2. pc' \in [Actors -> PCs]
    BY <1>t, <2>1 DEF ThreadTypes
  <2>q. QED BY <1>t, <1>9, <2>2 DEF ThreadTypes, FlushDone
<1>10. ASSUME Compress PROVE ThreadTypes'
  BY <1>t, <1>10 DEF ThreadTypes, Compress, TakeJob, Tar, Rm, Expire
<1>11. ASSUME Stop PROVE ThreadTypes'
  <2>1. stage' \in Stages
    BY <1>11 DEF Stop, RemoveLogger, Close, StopEnd, Stages
  <2>q. QED BY <1>t, <1>11, <2>1 DEF ThreadTypes, Stop, RemoveLogger, Close, StopEnd
<1>12. ASSUME Crash PROVE ThreadTypes'
  BY <1>12, SlotZero, LoggerAssumption DEF ThreadTypes, Crash, PCs, Stages
<1>q. QED
  BY <1>1, <1>2, <1>3, <1>4, <1>5, <1>6, <1>7, <1>8, <1>9, <1>10, <1>11, <1>12 DEF Next, Put, Flush

LEMMA FileTyped ==
    ASSUME TypeOK, Posts, Elements, Files, Next PROVE FileTypes'
<1>t. FileTypes
  BY TypesAre
<1>n. Len(plain[curRevnum]) \in Nat /\ plain[curRevnum] \in Seq(Message) /\ curRevnum \in Nat
  <2>1. plain[curRevnum] \in Seq(Message) /\ curRevnum \in Nat
    BY <1>t DEF FileTypes, FileOK
  <2>q. QED BY <2>1, LenProperties
<1>l. ASSUME FileOK(plain'), curRevnum' \in DOMAIN plain', synced' = Len(plain'[curRevnum'])
      PROVE  synced' \in 0 .. Len(plain'[curRevnum'])
  <2>1. PICK c : c = plain'[curRevnum']
    OBVIOUS
  <2>2. c \in Seq(Message)
    BY <1>l, <2>1 DEF FileOK
  <2>3. Len(c) \in Nat
    BY <2>2, LenProperties
  <2>q. QED BY <1>l, <2>1, <2>3
<1>1. ASSUME NEW t \in Putters, Put(t) PROVE FileTypes'
  BY <1>t, <1>1 DEF FileTypes, Put, Claim, Available, NeedToFlush, Wait, Write, WriteFails,
     WriteEnd, disk, revs
<1>2. ASSUME NEW a \in Actors, FlushAll(a) \/ TryLock(a) \/ FlushSkip(a) \/ FlushElem(a)
      PROVE  FileTypes'
  BY <1>t, <1>2 DEF FileTypes, FlushAll, TryLock, FlushSkip, FlushElem, disk, revs
<1>3. ASSUME NEW a \in Actors, FlushElemEnd(a) PROVE FileTypes'
  <2>1. /\ FileOK(plain') /\ DOMAIN plain' = DOMAIN plain
        /\ Len(plain'[curRevnum]) = Len(plain[curRevnum]) + 1
    BY <1>3, Appends
  <2>2. UNCHANGED <<tars, synced, curRevnum, minRevnum>>
    BY <1>3 DEF FlushElemEnd, revs
  <2>3. synced' \in 0 .. Len(plain'[curRevnum'])
    BY <1>t, <1>n, <2>1, <2>2 DEF FileTypes
  <2>q. QED BY <1>t, <2>1, <2>2, <2>3 DEF FileTypes
<1>4. ASSUME NEW a \in Actors, FlushDone(a) PROVE FileTypes'
  <2>1. UNCHANGED <<tars, minRevnum>> /\ synced' = Len(plain'[curRevnum'])
    BY <1>4 DEF FlushDone
  <2>2. FileOK(plain') /\ curRevnum' \in DOMAIN plain'
    <3>1. CASE Stays
      BY <1>t, <3>1 DEF FileTypes, Stays
    <3>2. CASE Opens
      BY <1>t, <3>2 DEF FileTypes, Opens
    <3>q. QED BY <1>4, <3>1, <3>2, Rotates
  <2>3. synced' \in 0 .. Len(plain'[curRevnum'])
    BY <1>l, <2>1, <2>2
  <2>q. QED BY <1>t, <2>1, <2>2, <2>3 DEF FileTypes
<1>5. ASSUME TakeJob \/ Stop PROVE FileTypes'
  BY <1>t, <1>5 DEF FileTypes, TakeJob, Stop, RemoveLogger, Close, StopEnd, disk, revs
<1>6. ASSUME Tar PROVE FileTypes'
  <2>1. FileOK(tars')
    BY <1>6, Archives DEF Tarred
  <2>q. QED BY <1>t, <1>6, <2>1 DEF FileTypes, Tar, revs
<1>7. ASSUME Rm PROVE FileTypes'
  <2>1. FileOK(plain') /\ curRevnum \in DOMAIN plain' /\ plain'[curRevnum] = plain[curRevnum]
    BY <1>t, <1>7, Deletes DEF Deleted, FileTypes
  <2>q. QED BY <1>t, <1>7, <2>1 DEF FileTypes, Rm, revs
<1>8. ASSUME Expire PROVE FileTypes'
  <2>1. comp # None /\ comp.rev < curRevnum /\ comp.rev \in Nat
    BY <1>8, JobFile DEF Expire
  <2>2. PICK old : Expired(old)
    BY <1>8, Expires
  <2>3. curRevnum \notin old
    BY <1>n, <2>1, <2>2 DEF Expired
  <2>4. /\ FileOK(plain') /\ curRevnum \in DOMAIN plain' /\ plain'[curRevnum] = plain[curRevnum]
        /\ FileOK(tars') /\ minRevnum' \in Nat
    BY <1>t, <2>2, <2>3 DEF Expired, FileTypes
  <2>q. QED BY <1>t, <1>8, <2>4 DEF FileTypes, Expire
<1>9. ASSUME Crash PROVE FileTypes'
  <2>1. FileOK(plain') /\ curRevnum' \in DOMAIN plain' /\ minRevnum' \in Nat
    BY <1>t, <1>9, Recovers DEF Recovered, FileTypes
  <2>2. synced' = Len(plain'[curRevnum']) /\ tars' = tars
    BY <1>9 DEF Crash
  <2>3. synced' \in 0 .. Len(plain'[curRevnum'])
    BY <1>l, <2>1, <2>2
  <2>q. QED BY <1>t, <2>1, <2>2, <2>3 DEF FileTypes
<1>q. QED BY <1>1, <1>2, <1>3, <1>4, <1>5, <1>6, <1>7, <1>8, <1>9 DEF Next, Flush, Compress

LEMMA JobTyped ==
    ASSUME TypeOK, Posts, Elements, Files, Next PROVE JobTypes'
<1>t. JobTypes /\ FileTypes
  BY TypesAre
<1>n. curRevnum \in Nat /\ Len(pending) \in Nat
  <2>1. curRevnum \in Nat
    BY <1>t DEF FileTypes, FileOK
  <2>2. Len(pending) \in Nat
    BY <1>t, LenProperties DEF JobTypes
  <2>q. QED BY <2>1, <2>2
<1>1. ASSUME NEW t \in Putters, Put(t) PROVE JobTypes'
  BY <1>t, <1>1 DEF JobTypes, Put, Claim, Available, NeedToFlush, Wait, Write, WriteFails,
     WriteEnd, jobs, ghosts
<1>2. ASSUME NEW a \in Actors,
             FlushAll(a) \/ TryLock(a) \/ FlushSkip(a) \/ FlushElem(a) \/ FlushElemEnd(a)
      PROVE  JobTypes'
  BY <1>t, <1>2 DEF JobTypes, FlushAll, TryLock, FlushSkip, FlushElem, FlushElemEnd, jobs, ghosts
<1>3. ASSUME NEW a \in Actors, FlushDone(a) PROVE JobTypes'
  <2>1. UNCHANGED <<comp, sent, crashes>>
    BY <1>3 DEF FlushDone, ghosts
  <2>2. Append(pending, curRevnum) \in Seq(Nat)
    BY <1>t, <1>n, AppendProperties DEF JobTypes
  <2>3. pending' \in Seq(Nat) /\ numCompJobs' \in Nat
    <3>1. CASE Stays
      BY <1>t, <3>1 DEF Stays, JobTypes
    <3>2. CASE Opens
      <4>1. pending' = Append(pending, curRevnum) /\ numCompJobs' = numCompJobs + 1
        BY <3>2 DEF Opens
      <4>2. pending' \in Seq(Nat)
        BY <2>2, <4>1
      <4>3. numCompJobs' \in Nat
        BY <1>t, <4>1 DEF JobTypes
      <4>q. QED BY <4>2, <4>3
    <3>q. QED BY <1>3, <3>1, <3>2, Rotates
  <2>q. QED BY <1>t, <2>1, <2>3 DEF JobTypes
<1>4. ASSUME TakeJob PROVE JobTypes'
  <2>1. pending \in Seq(Nat) /\ pending # <<>>
    BY <1>t, <1>4 DEF JobTypes, TakeJob
  <2>2. Head(pending) \in Nat /\ Tail(pending) \in Seq(Nat)
    BY <2>1, HeadTailProperties
  <2>3. comp' \in Job
    <3>1. PICK h \in Nat : h = Head(pending)
      BY <2>2
    <3>2. comp' = [rev |-> h, at |-> "tar"]
      BY <1>4, <3>1 DEF TakeJob
    <3>q. QED BY <3>2 DEF Job
  <2>q. QED BY <1>t, <1>4, <2>2, <2>3 DEF JobTypes, TakeJob, ghosts
<1>5. ASSUME Tar \/ Rm PROVE JobTypes'
  <2>0. comp # None
    BY <1>5 DEF Tar, Rm
  <2>1. comp.rev \in Nat
    BY <2>0, JobFile
  <2>2. comp' = [rev |-> comp.rev, at |-> "rm"] \/ comp' = [rev |-> comp.rev, at |-> "expire"]
    BY <1>5, Archives, Deletes
  <2>3. comp' \in Job
    BY <2>1, <2>2 DEF Job
  <2>q. QED BY <1>t, <1>5, <2>3 DEF JobTypes, Tar, Rm, ghosts
<1>6. ASSUME Expire PROVE JobTypes'
  <2>1. numCompJobs' = numCompJobs - 1 /\ comp' = None /\ comp # None
        /\ UNCHANGED <<pending, sent, crashes>>
    BY <1>6 DEF Expire
  <2>2. numCompJobs = Len(pending) + 1
    BY <2>1 DEF Files
  <2>3. numCompJobs' \in Nat
    BY <1>n, <2>1, <2>2
  <2>q. QED BY <1>t, <2>1, <2>3 DEF JobTypes
<1>7. ASSUME Stop PROVE JobTypes'
  BY <1>t, <1>7 DEF JobTypes, Stop, RemoveLogger, Close, StopEnd, jobs, ghosts
<1>8. ASSUME Crash PROVE JobTypes'
  BY <1>t, <1>8, LoggerAssumption DEF JobTypes, Crash
<1>q. QED BY <1>1, <1>2, <1>3, <1>4, <1>5, <1>6, <1>7, <1>8 DEF Next, Flush, Compress

-----------------------------------------------------------------------------
(* Who is where.                                                           *)

\* Nobody but the holder of the mutex is at an element.
Mutex == \A a \in Actors : pc[a] \in Flushing <=> flushingLogs = a

\* The other parts of Posts.
Manned ==
    /\ pc[Flusher] \notin Putting
    /\ \A t \in Threads : msg[t] = None <=> pc[t] = "idle"
    /\ msg[Main] = None <=> ~(stage = "putting" /\ pc[Main] # "idle")
    /\ pc[Main] \in Putting => stage = "putting"
    /\ pc[Main] # "idle" => stage \in {"putting", "flushing"}
    /\ stage # "run" => \A a \in Actors \ {Main} : pc[a] = "idle"

LEMMA PostsAre == Posts <=> Mutex /\ Manned
BY DEF Posts, Mutex, Manned

LEMMA MutexKept == ASSUME TypeOK, Posts, Next PROVE Mutex'
<1>t. ThreadTypes /\ Mutex
  BY TypesAre, PostsAre
<1>1. ASSUME NEW t \in Putters, Put(t) PROVE Mutex'
  <2>1. t \in Actors /\ flushingLogs' = flushingLogs
    BY <1>1, Cast DEF Put, Claim, Available, NeedToFlush, Wait, Write, WriteFails, WriteEnd
  <2>2. pc[t] \notin Flushing /\ \E v : v \notin Flushing /\ pc' = [pc EXCEPT ![t] = v]
    BY <1>1 DEF Put, Claim, Available, NeedToFlush, Wait, Write, WriteFails, WriteEnd, Step, Flushing
  <2>q. QED BY <1>t, <2>1, <2>2 DEF Mutex, ThreadTypes
<1>2. ASSUME NEW a \in Actors, FlushAll(a) PROVE Mutex'
  BY <1>t, <1>2 DEF Mutex, ThreadTypes, FlushAll, Step, Flushing
<1>3. ASSUME NEW a \in Actors, TryLock(a) PROVE Mutex'
  <2>1. CASE flushingLogs = None
    BY <1>t, <1>3, <2>1, Cast DEF Mutex, ThreadTypes, TryLock, Step, Flushing
  <2>2. CASE flushingLogs # None
    <3>1. /\ flushingLogs' = flushingLogs /\ pc[a] \notin Flushing
          /\ \E v : v \notin Flushing /\ pc' = [pc EXCEPT ![a] = v]
      BY <1>3, <2>2 DEF TryLock, Step, Flushing
    <3>q. QED BY <1>t, <3>1 DEF Mutex, ThreadTypes
  <2>q. QED BY <2>1, <2>2
<1>4. ASSUME NEW a \in Actors, FlushSkip(a) \/ FlushElem(a) \/ FlushElemEnd(a) PROVE Mutex'
  <2>1. /\ flushingLogs' = flushingLogs /\ pc[a] \in Flushing
        /\ \E v \in Flushing : pc' = [pc EXCEPT ![a] = v]
    <3>1. CASE FlushSkip(a)
      BY <1>t, <3>1 DEF FlushSkip, Flushing, ThreadTypes
    <3>2. CASE FlushElem(a) \/ FlushElemEnd(a)
      BY <3>2 DEF FlushElem, FlushElemEnd, Step, Flushing
    <3>q. QED BY <1>4, <3>1, <3>2
  <2>q. QED BY <1>t, <2>1 DEF Mutex, ThreadTypes
<1>5. ASSUME NEW a \in Actors, FlushDone(a) PROVE Mutex'
  <2>1. /\ flushingLogs' = None /\ pc[a] \in Flushing
        /\ \E v : v \notin Flushing /\ pc' = [pc EXCEPT ![a] = v]
    <3>1. pc' = [pc EXCEPT ![a] = "write"] \/ pc' = [pc EXCEPT ![a] = "idle"]
      BY <1>5 DEF FlushDone, Step
    <3>2. flushingLogs' = None /\ pc[a] \in Flushing
      BY <1>5 DEF FlushDone, Step, Flushing
    <3>q. QED BY <3>1, <3>2 DEF Flushing
  <2>2. flushingLogs = a
    BY <1>t, <2>1 DEF Mutex
  <2>3. ASSUME NEW b \in Actors PROVE pc'[b] \notin Flushing /\ flushingLogs' # b
    BY <1>t, <2>1, <2>2, Cast DEF Mutex, ThreadTypes
  <2>q. QED BY <2>3 DEF Mutex
<1>6. ASSUME Compress \/ Stop PROVE Mutex'
  BY <1>t, <1>6 DEF Mutex, Compress, TakeJob, Tar, Rm, Expire, Stop, RemoveLogger, Close, StopEnd
<1>7. ASSUME Crash PROVE Mutex'
  BY <1>7, Cast DEF Mutex, Crash, Flushing
<1>q. QED BY <1>1, <1>2, <1>3, <1>4, <1>5, <1>6, <1>7 DEF Next, Flush

LEMMA MannedKept == ASSUME TypeOK, Posts, Next PROVE Manned'
<1>t. ThreadTypes /\ JobTypes /\ Manned
  BY TypesAre, PostsAre
<1>1. ASSUME NEW t \in Putters, Claim(t) PROVE Manned'
  <2>1. /\ pc' = [pc EXCEPT ![t] = "avail"] /\ msg' = [msg EXCEPT ![t] = sent + 1]
        /\ sent + 1 # None /\ t \in Actors /\ t # Flusher
    BY <1>1, <1>t, Cast DEF Claim, JobTypes
  <2>2. CASE t = Main
    <3>1. stage = "removed" /\ stage' = "putting"
      BY <1>1, <2>2 DEF Claim
    <3>q. QED BY <1>t, <2>1, <2>2, <3>1, Cast DEF Manned, ThreadTypes, Putting
  <2>3. CASE t # Main
    <3>1. stage = "run" /\ stage' = stage
      BY <1>1, <2>3 DEF Claim
    <3>q. QED BY <1>t, <2>1, <2>3, <3>1, Cast DEF Manned, ThreadTypes, Putting, Putters
  <2>q. QED BY <2>2, <2>3
<1>2. ASSUME NEW t \in Putters,
             Available(t) \/ NeedToFlush(t) \/ Wait(t) \/ Write(t)
      PROVE  Manned'
  <2>1. /\ pc[t] \in Putting /\ UNCHANGED <<msg, stage>>
        /\ \E v : v # "idle" /\ pc' = [pc EXCEPT ![t] = v]
    BY <1>2 DEF Available, NeedToFlush, Wait, Write, Step, Putting
  <2>q. QED BY <1>t, <2>1, Cast DEF Manned, ThreadTypes, Putting, Putters
<1>3. ASSUME NEW t \in Putters, WriteFails(t) \/ WriteEnd(t) PROVE Manned'
  <2>1. /\ pc[t] \in Putting /\ stage' = stage /\ msg' = [msg EXCEPT ![t] = None]
        /\ pc' = [pc EXCEPT ![t] = "idle"]
    BY <1>3 DEF WriteFails, WriteEnd, Step, Putting
  <2>q. QED BY <1>t, <2>1, Cast DEF Manned, ThreadTypes, Putting, Putters
<1>4. ASSUME NEW a \in Actors, FlushAll(a) PROVE Manned'
  <2>1. pc[a] = "idle" /\ pc' = [pc EXCEPT ![a] = "lock"] /\ msg' = msg
    BY <1>4 DEF FlushAll, Step
  <2>2. CASE a = Flusher /\ stage = "run" /\ stage' = stage
    BY <1>t, <2>1, <2>2, Cast DEF Manned, ThreadTypes, Putting, Putters
  <2>3. CASE a = Main /\ stage = "putting" /\ stage' = "flushing"
    BY <1>t, <2>1, <2>3, Cast DEF Manned, ThreadTypes, Putting, Putters
  <2>q. QED BY <1>4, <2>2, <2>3 DEF FlushAll
<1>5. ASSUME NEW a \in Actors, TryLock(a) \/ FlushDone(a) PROVE Manned'
  <2>1. /\ pc[a] # "idle" /\ UNCHANGED <<msg, stage>>
        /\ \E v : /\ pc' = [pc EXCEPT ![a] = v]
                  /\ v \in Flushing \/ (v = "idle" /\ ~InPut(a)) \/ (v \in Putting /\ InPut(a))
    <3>1. CASE TryLock(a)
      BY <3>1 DEF TryLock, Step, Flushing, Putting
    <3>2. CASE FlushDone(a)
      BY <3>2 DEF FlushDone, Step, Flushing, Putting
    <3>q. QED BY <1>5, <3>1, <3>2
  <2>2. CASE a = Flusher
    <3>1. ~InPut(a)
      BY <2>2, Cast DEF InPut
    <3>q. QED BY <1>t, <2>1, <2>2, <3>1, Cast DEF Manned, ThreadTypes, Putting, Flushing
  <2>3. CASE a = Main
    BY <1>t, <2>1, <2>3, Cast DEF Manned, ThreadTypes, Putting, Flushing, InPut
  <2>4. CASE a \in Threads
    BY <1>t, <2>1, <2>4, Cast DEF Manned, ThreadTypes, Putting, Flushing, InPut
  <2>q. QED BY <2>2, <2>3, <2>4 DEF Actors
<1>6. ASSUME NEW a \in Actors, FlushSkip(a) \/ FlushElem(a) \/ FlushElemEnd(a) PROVE Manned'
  <2>1. /\ pc[a] \in Flushing /\ UNCHANGED <<msg, stage>>
        /\ \E v \in Flushing : pc' = [pc EXCEPT ![a] = v]
    <3>1. CASE FlushSkip(a)
      BY <1>t, <3>1 DEF FlushSkip, Flushing, ThreadTypes
    <3>2. CASE FlushElem(a) \/ FlushElemEnd(a)
      BY <3>2 DEF FlushElem, FlushElemEnd, Step, Flushing
    <3>q. QED BY <1>6, <3>1, <3>2
  <2>q. QED BY <1>t, <2>1, Cast DEF Manned, ThreadTypes, Putting, Flushing
<1>7. ASSUME Compress PROVE Manned'
  BY <1>t, <1>7 DEF Manned, Compress, TakeJob, Tar, Rm, Expire
<1>8. ASSUME Stop PROVE Manned'
  <2>1. UNCHANGED <<pc, msg>> /\ stage' \in {"removed", "closed", "stopped"}
    BY <1>8 DEF Stop, RemoveLogger, Close, StopEnd
  <2>2. \A a \in Actors : pc[a] = "idle"
    <3>1. CASE RemoveLogger
      BY <3>1 DEF RemoveLogger
    <3>2. CASE Close \/ StopEnd
      <4>1. pc[Main] = "idle" /\ stage # "run"
        BY <1>t, <3>2 DEF Close, StopEnd, Manned
      <4>q. QED BY <1>t, <4>1 DEF Manned
    <3>q. QED BY <1>8, <3>1, <3>2 DEF Stop
  <2>q. QED BY <1>t, <2>1, <2>2, Cast DEF Manned, Putting
<1>9. ASSUME Crash PROVE Manned'
  BY <1>9, Cast DEF Manned, Crash, Putting
<1>q. QED BY <1>1, <1>2, <1>3, <1>4, <1>5, <1>6, <1>7, <1>8, <1>9 DEF Next, Put, Flush

-----------------------------------------------------------------------------
(* The elements of the ring.                                               *)

\* Elements for the one that flushes, and for those that write.
FlushedAt ==
    /\ \A a \in Actors : pc[a] = "flushing" => done < Num /\ status[At(a)] = "FLUSHING"
    /\ \A s \in Slots : status[s] = "FLUSHING" =>
        \E a \in Actors : pc[a] = "flushing" /\ At(a) = s
WrittenAt ==
    /\ \A t \in Putters : pc[t] = "writing" => status[slot[t]] = "WRITING"
    /\ \A t, u \in Putters :
        pc[t] = "writing" /\ pc[u] = "writing" /\ slot[t] = slot[u] => t = u
    /\ \A s \in Slots : status[s] = "WRITING" =>
        \E t \in Putters : pc[t] = "writing" /\ slot[t] = s

LEMMA ElementsAre == Elements <=> FlushedAt /\ WrittenAt
BY DEF Elements, FlushedAt, WrittenAt

\* An actor that leaves the ring alone, and was at no element and comes to none.
LEMMA Aside ==
    ASSUME TypeOK, Elements, NEW a \in Actors, NEW v, pc' = [pc EXCEPT ![a] = v],
           pc[a] \notin {"flushing", "writing"}, v \notin {"flushing", "writing"},
           NEW x, slot' = slot \/ slot' = [slot EXCEPT ![a] = x], status' = status,
           done' = done \/ \A b \in Actors : pc[b] # "flushing"
    PROVE  Elements'
<1>t. ThreadTypes /\ RingTypes /\ FlushedAt /\ WrittenAt
  BY TypesAre, ElementsAre
<1>1. ASSUME NEW b \in Actors
      PROVE  /\ pc'[b] = "flushing" <=> pc[b] = "flushing"
             /\ pc'[b] = "writing" <=> pc[b] = "writing"
             /\ pc[b] = "writing" => slot'[b] = slot[b]
             /\ pc[b] = "flushing" => slot'[b] = slot[b] /\ done' = done
  BY <1>t DEF ThreadTypes
<1>2. ASSUME NEW b \in Actors, pc[b] = "flushing" PROVE At(b)' = At(b)
  BY <1>1, <1>2 DEF At
<1>3. FlushedAt'
  BY <1>t, <1>1, <1>2 DEF FlushedAt
<1>4. WrittenAt'
  BY <1>t, <1>1, Cast DEF WrittenAt
<1>q. QED BY <1>3, <1>4 DEF Elements, FlushedAt, WrittenAt

LEMMA ElementsKept == ASSUME TypeOK, Posts, Elements, Next PROVE Elements'
<1>t. ThreadTypes /\ RingTypes /\ FlushedAt /\ WrittenAt /\ Mutex
  BY TypesAre, ElementsAre, PostsAre
<1>1. ASSUME NEW t \in Putters,
             Claim(t) \/ Available(t) \/ NeedToFlush(t) \/ Wait(t) \/ WriteFails(t)
      PROVE  Elements'
  <2>1. /\ status' = status /\ done' = done /\ pc[t] \notin {"flushing", "writing"}
        /\ \E v : v \notin {"flushing", "writing"} /\ pc' = [pc EXCEPT ![t] = v]
    BY <1>1 DEF Claim, Available, NeedToFlush, Wait, WriteFails, Step, ring
  <2>2. slot' = slot \/ slot' = [slot EXCEPT ![t] = cursor]
    BY <1>1 DEF Claim, Available, NeedToFlush, Wait, WriteFails
  <2>3. PICK v : v \notin {"flushing", "writing"} /\ pc' = [pc EXCEPT ![t] = v]
    BY <2>1
  <2>q. QED BY <2>1, <2>2, <2>3, Cast, Aside
<1>2. ASSUME NEW a \in Actors, FlushAll(a) \/ TryLock(a) \/ FlushDone(a) PROVE Elements'
  <2>1. /\ status' = status /\ pc[a] \notin {"flushing", "writing"}
        /\ \E v : v \notin {"flushing", "writing"} /\ pc' = [pc EXCEPT ![a] = v]
    <3>1. CASE FlushAll(a)
      BY <3>1 DEF FlushAll, Step, ring
    <3>2. CASE TryLock(a)
      BY <3>2 DEF TryLock, Step, ring
    <3>3. CASE FlushDone(a)
      BY <3>3 DEF FlushDone, Step, ring
    <3>q. QED BY <1>2, <3>1, <3>2, <3>3
  <2>2. slot' = slot \/ slot' = [slot EXCEPT ![a] = cursor]
    BY <1>2 DEF FlushAll, TryLock, FlushDone
  <2>3. PICK v : v \notin {"flushing", "writing"} /\ pc' = [pc EXCEPT ![a] = v]
    BY <2>1
  <2>4. done' = done \/ \A b \in Actors : pc[b] # "flushing"
    <3>1. CASE flushingLogs = None
      BY <1>t, <3>1, Cast DEF Mutex, Flushing
    <3>2. CASE flushingLogs # None
      BY <1>2, <3>2 DEF FlushAll, TryLock, FlushDone
    <3>q. QED BY <3>1, <3>2
  <2>q. QED BY <2>1, <2>2, <2>3, <2>4, Aside
<1>3. ASSUME NEW t \in Putters, Write(t) PROVE Elements'
  <2>1. /\ t \in Actors /\ slot[t] \in Slots /\ status[slot[t]] = "CLEAN"
        /\ pc[t] = "write" /\ pc' = [pc EXCEPT ![t] = "writing"]
        /\ status' = [status EXCEPT ![slot[t]] = "WRITING"] /\ UNCHANGED <<slot, done>>
    BY <1>t, <1>3, Cast DEF Write, Step, ThreadTypes
  <2>2. \A b \in Actors : At(b)' = At(b) /\ At(b) \in Slots
    BY <2>1, AtSlot DEF At
  <2>3. FlushedAt'
    BY <1>t, <2>1, <2>2 DEF FlushedAt, ThreadTypes, RingTypes
  <2>4. WrittenAt'
    <3>1. \A u \in Putters : pc[u] = "writing" => slot[u] # slot[t]
      BY <1>t, <2>1 DEF WrittenAt
    <3>2. \A u \in Putters : u \in Actors /\ slot[u] \in Slots
      BY <1>t, Cast DEF ThreadTypes
    <3>q. QED BY <1>t, <2>1, <3>1, <3>2 DEF WrittenAt, ThreadTypes, RingTypes
  <2>q. QED BY <2>3, <2>4 DEF Elements, FlushedAt, WrittenAt
<1>4. ASSUME NEW t \in Putters, WriteEnd(t) PROVE Elements'
  <2>1. /\ t \in Actors /\ slot[t] \in Slots /\ status[slot[t]] = "WRITING"
        /\ pc[t] = "writing" /\ pc' = [pc EXCEPT ![t] = "idle"]
        /\ status' = [status EXCEPT ![slot[t]] = "DIRTY"] /\ UNCHANGED <<slot, done>>
    BY <1>t, <1>4, Cast DEF WriteEnd, Step, ThreadTypes, WrittenAt
  <2>2. \A b \in Actors : At(b)' = At(b) /\ At(b) \in Slots
    BY <2>1, AtSlot DEF At
  <2>3. FlushedAt'
    BY <1>t, <2>1, <2>2 DEF FlushedAt, ThreadTypes, RingTypes
  <2>4. WrittenAt'
    <3>1. \A u \in Putters : pc[u] = "writing" /\ u # t => slot[u] # slot[t]
      BY <1>t, <2>1 DEF WrittenAt
    <3>2. \A u \in Putters : u \in Actors /\ slot[u] \in Slots
      BY <1>t, Cast DEF ThreadTypes
    <3>q. QED BY <1>t, <2>1, <3>1, <3>2 DEF WrittenAt, ThreadTypes, RingTypes
  <2>q. QED BY <2>3, <2>4 DEF Elements, FlushedAt, WrittenAt
<1>5. ASSUME NEW a \in Actors, FlushSkip(a) PROVE Elements'
  <2>1. \A b \in Actors : pc[b] # "flushing"
    BY <1>t, <1>5 DEF FlushSkip, Mutex, Flushing
  <2>2. UNCHANGED <<status, pc, slot>>
    BY <1>5 DEF FlushSkip, ring
  <2>3. FlushedAt'
    BY <1>t, <2>1, <2>2 DEF FlushedAt
  <2>4. WrittenAt'
    BY <1>t, <2>2 DEF WrittenAt
  <2>q. QED BY <2>3, <2>4 DEF Elements, FlushedAt, WrittenAt
<1>6. ASSUME NEW a \in Actors, FlushElem(a) PROVE Elements'
  <2>1. /\ At(a) \in Slots /\ status[At(a)] = "DIRTY" /\ done < Num
        /\ pc[a] = "flush" /\ pc' = [pc EXCEPT ![a] = "flushing"]
        /\ status' = [status EXCEPT ![At(a)] = "FLUSHING"] /\ UNCHANGED <<slot, done>>
    BY <1>6, AtSlot DEF FlushElem, Step
  <2>2. \A b \in Actors : At(b)' = At(b) /\ pc[b] # "flushing"
    BY <1>t, <2>1 DEF At, Mutex, Flushing
  <2>3. FlushedAt'
    BY <1>t, <2>1, <2>2 DEF FlushedAt, ThreadTypes, RingTypes
  <2>4. WrittenAt'
    <3>1. \A u \in Putters : u \in Actors /\ slot[u] \in Slots
      BY <1>t, Cast DEF ThreadTypes
    <3>q. QED BY <1>t, <2>1, <3>1 DEF WrittenAt, ThreadTypes, RingTypes
  <2>q. QED BY <2>3, <2>4 DEF Elements, FlushedAt, WrittenAt
<1>7. ASSUME NEW a \in Actors, FlushElemEnd(a) PROVE Elements'
  <2>1. /\ At(a) \in Slots /\ status[At(a)] = "FLUSHING"
        /\ pc[a] = "flushing" /\ pc' = [pc EXCEPT ![a] = "flush"]
        /\ status' = [status EXCEPT ![At(a)] = "CLEAN"] /\ slot' = slot
    BY <1>7, AtSlot, Appends DEF FlushElemEnd, Step
  <2>2. \A b \in Actors : b # a => pc[b] # "flushing"
    BY <1>t, <2>1 DEF Mutex, Flushing
  <2>3. FlushedAt'
    <3>1. \A b \in Actors : pc'[b] # "flushing"
      BY <1>t, <2>1, <2>2 DEF ThreadTypes
    <3>2. \A s \in Slots : status'[s] # "FLUSHING"
      BY <1>t, <2>1, <2>2 DEF FlushedAt, RingTypes
    <3>q. QED BY <3>1, <3>2 DEF FlushedAt
  <2>4. WrittenAt'
    <3>1. \A u \in Putters : u \in Actors /\ slot[u] \in Slots
      BY <1>t, Cast DEF ThreadTypes
    <3>q. QED BY <1>t, <2>1, <3>1 DEF WrittenAt, ThreadTypes, RingTypes
  <2>q. QED BY <2>3, <2>4 DEF Elements, FlushedAt, WrittenAt
<1>8. ASSUME Compress \/ Stop PROVE Elements'
  <2>1. UNCHANGED <<status, pc, slot, done>>
    BY <1>8 DEF Compress, TakeJob, Tar, Rm, Expire, Stop, RemoveLogger, Close, StopEnd, ring
  <2>q. QED BY <2>1 DEF Elements, At
<1>9. ASSUME Crash PROVE Elements'
  BY <1>9, Cast DEF Elements, Crash
<1>q. QED BY <1>1, <1>2, <1>3, <1>4, <1>5, <1>6, <1>7, <1>8, <1>9 DEF Next, Put, Flush

-----------------------------------------------------------------------------
(* The last flush of stop().                                               *)

\* Who may be where once stop() has come to its flush: the threads are done, and
\* Main is in flush() or nowhere.
LEMMA Alone ==
    ASSUME TypeOK, Posts, stage \notin {"run", "putting"}
    PROVE  /\ \A a \in Actors \ {Main} : pc[a] = "idle"
           /\ pc[Main] \notin Putting
           /\ flushingLogs \in {None, Main}
           /\ flushingLogs = Main <=> pc[Main] \in Flushing
<1>1. /\ \A a \in Actors \ {Main} : pc[a] = "idle"
      /\ pc[Main] \notin Putting
      /\ flushingLogs = Main <=> pc[Main] \in Flushing
  BY Cast DEF Posts
<1>2. flushingLogs \in {None, Main}
  BY <1>1 DEF TypeOK, Posts, Flushing
<1>q. QED BY <1>1, <1>2

LEMMA DrainingKept == ASSUME TypeOK, Posts, Elements, Draining, Files, Next PROVE Draining'
<1>t. ThreadTypes /\ RingTypes
  BY TypesAre
<1>v. ASSUME stage' \notin {"flushing", "closed", "stopped"} PROVE Draining'
  BY <1>v DEF Draining
<1>1. ASSUME NEW t \in Putters, Put(t) PROVE Draining'
  <2>1. stage' \in {"run", "putting"}
    <3>1. CASE Claim(t)
      BY <3>1 DEF Claim
    <3>2. CASE ~Claim(t)
      <4>1. stage' = stage /\ pc[t] \in Putting
        BY <1>1, <3>2 DEF Put, Available, NeedToFlush, Wait, Write, WriteFails, WriteEnd, Step, Putting
      <4>2. stage \in {"run", "putting"}
        BY <4>1, Alone, Cast DEF Putting
      <4>q. QED BY <4>1, <4>2
    <3>q. QED BY <3>1, <3>2
  <2>q. QED BY <1>v, <2>1
<1>2. ASSUME NEW a \in Actors, FlushAll(a) PROVE Draining'
  <2>1. CASE a = Flusher /\ stage = "run" /\ stage' = stage
    BY <1>v, <2>1
  <2>2. CASE a = Main /\ stage = "putting" /\ stage' = "flushing"
    <3>1. pc'[Main] = "lock"
      BY <1>t, <1>2, <2>2 DEF FlushAll, Step, ThreadTypes
    <3>q. QED BY <2>2, <3>1 DEF Draining, Flushing
  <2>q. QED BY <1>2, <2>1, <2>2 DEF FlushAll
<1>3. ASSUME NEW a \in Actors, Flush(a), ~FlushAll(a) PROVE Draining'
  <2>0. stage' = stage /\ pc[a] # "idle"
    BY <1>3 DEF Flush, TryLock, FlushSkip, FlushElem, FlushElemEnd, FlushDone, Step
  <2>1. CASE stage \in {"run", "putting"}
    BY <1>v, <2>0, <2>1
  <2>2. CASE stage \notin {"run", "putting"}
    <3>1. a = Main /\ stage = "flushing" /\ pc[Main] # "idle" /\ pc[Main] \notin Putting
      BY <2>0, <2>2, Alone DEF Posts
    <3>a. At(a) \in Slots /\ slot[Main] \in Nat /\ done \in Nat /\ slot[Main] \in Slots
      BY <1>t, AtSlot, Cast, LoggerAssumption DEF ThreadTypes, Slots
    <3>s. \A k \in Nat : (slot[Main] + k) % Num \in Slots
      <4>1. \A k \in Nat : slot[Main] + k \in Nat
        BY <3>a
      <4>q. QED BY <4>1, Wraps
    <3>2. CASE TryLock(a)
      <4>1. pc[Main] = "lock"
        BY <3>1, <3>2 DEF TryLock, Step
      <4>2. flushingLogs = None
        BY <2>2, <4>1, Alone DEF Flushing
      <4>3. pc'[Main] = "flush" /\ done' = 0
        BY <1>t, <3>1, <3>2, <4>2 DEF TryLock, Step, ThreadTypes
      <4>q. QED BY <2>0, <3>1, <4>3 DEF Draining
    <3>3. CASE FlushSkip(a)
      <4>1. /\ pc[Main] = "flush" /\ status[At(a)] # "DIRTY" /\ UNCHANGED <<status, slot, pc>>
            /\ done' = done + 1
        BY <3>1, <3>3 DEF FlushSkip, ring
      <4>2. \A b \in Actors : pc[b] # "flushing" /\ pc[b] # "writing"
        BY <2>2, <4>1, Alone
      <4>3. status[At(a)] = "CLEAN"
        BY <1>t, <3>a, <4>1, <4>2, Cast DEF Elements, RingTypes, Statuses
      <4>4. \A k \in 0 .. done - 1 : status[(slot[Main] + k) % Num] = "CLEAN"
        BY <3>1, <4>1 DEF Draining, Flushing
      <4>5. \A k \in 0 .. done' - 1 : status'[(slot'[Main] + k) % Num] = "CLEAN"
        <5> SUFFICES ASSUME NEW k \in 0 .. done PROVE status[(slot[Main] + k) % Num] = "CLEAN"
          BY <3>a, <4>1
        <5>1. CASE k = done
          BY <3>1, <4>3, <5>1 DEF At
        <5>2. CASE k # done
          BY <3>a, <4>4, <5>2
        <5>q. QED BY <5>1, <5>2
      <4>q. QED BY <2>0, <3>1, <4>1, <4>5 DEF Draining
    <3>4. CASE FlushElem(a)
      <4>1. /\ pc[Main] = "flush" /\ status[At(a)] = "DIRTY" /\ UNCHANGED <<slot, done>>
            /\ status' = [status EXCEPT ![At(a)] = "FLUSHING"] /\ pc' = [pc EXCEPT ![a] = "flushing"]
        BY <3>1, <3>4 DEF FlushElem, Step
      <4>2. \A k \in 0 .. done - 1 : status[(slot[Main] + k) % Num] = "CLEAN"
        BY <3>1, <4>1 DEF Draining, Flushing
      <4>3. \A k \in 0 .. done - 1 : status'[(slot[Main] + k) % Num] = "CLEAN"
        BY <1>t, <3>a, <3>s, <4>1, <4>2 DEF RingTypes
      <4>4. pc'[Main] = "flushing"
        BY <1>t, <3>1, <4>1 DEF ThreadTypes
      <4>q. QED BY <2>0, <3>1, <4>1, <4>3, <4>4 DEF Draining
    <3>5. CASE FlushElemEnd(a)
      <4>1. /\ pc[Main] = "flushing" /\ slot' = slot /\ done' = done + 1
            /\ status' = [status EXCEPT ![At(a)] = "CLEAN"] /\ pc' = [pc EXCEPT ![a] = "flush"]
        BY <3>1, <3>5 DEF FlushElemEnd, Step
      <4>2. \A k \in 0 .. done - 1 : status[(slot[Main] + k) % Num] = "CLEAN"
        BY <3>1, <4>1 DEF Draining, Flushing
      <4>3. \A k \in 0 .. done' - 1 : status'[(slot'[Main] + k) % Num] = "CLEAN"
        <5> SUFFICES ASSUME NEW k \in 0 .. done PROVE status'[(slot[Main] + k) % Num] = "CLEAN"
          BY <3>a, <4>1
        <5>1. CASE k = done
          BY <1>t, <3>1, <3>a, <4>1, <5>1 DEF At, RingTypes
        <5>2. CASE k # done
          BY <1>t, <3>a, <3>s, <4>1, <4>2, <5>2 DEF RingTypes
        <5>q. QED BY <5>1, <5>2
      <4>4. pc'[Main] = "flush"
        BY <1>t, <3>1, <4>1 DEF ThreadTypes
      <4>q. QED BY <2>0, <3>1, <4>3, <4>4 DEF Draining
    <3>6. CASE FlushDone(a)
      <4>1. ~InPut(a)
        BY <3>1, Cast DEF InPut
      <4>2. pc[Main] = "flush" /\ pc' = [pc EXCEPT ![a] = "idle"] /\ done = Num /\ status' = status
        BY <3>1, <3>6, <4>1 DEF FlushDone, Step, ring
      <4>3. \A k \in 0 .. done - 1 : status[(slot[Main] + k) % Num] = "CLEAN"
        BY <3>1, <4>2 DEF Draining, Flushing
      <4>4. ASSUME NEW s \in Slots PROVE status'[s] = "CLEAN"
        <5>1. PICK k \in 0 .. Num - 1 : (slot[Main] + k) % Num = s
          BY <3>a, Reached
        <5>q. QED BY <4>2, <4>3, <5>1
      <4>5. pc'[Main] = "idle"
        BY <1>t, <3>1, <4>2 DEF ThreadTypes
      <4>q. QED BY <2>0, <3>1, <4>4, <4>5 DEF Draining, Flushing
    <3>q. QED BY <1>3, <3>2, <3>3, <3>4, <3>5, <3>6 DEF Flush
  <2>q. QED BY <2>1, <2>2
<1>4. ASSUME Compress PROVE Draining'
  <2>1. UNCHANGED <<status, pc, slot, done, stage>>
    BY <1>4 DEF Compress, TakeJob, Tar, Rm, Expire, ring
  <2>2. stage = "stopped" => numCompJobs' = numCompJobs
    <3>1. CASE TakeJob \/ Tar \/ Rm
      BY <3>1 DEF TakeJob, Tar, Rm
    <3>2. CASE Expire
      <4>1. comp # None
        BY <3>2 DEF Expire
      <4>2. numCompJobs = Len(pending) + 1 /\ Len(pending) \in Nat
        <5>1. numCompJobs = Len(pending) + 1
          BY <4>1 DEF Files
        <5>2. Len(pending) \in Nat
          BY LenProperties DEF TypeOK
        <5>q. QED BY <5>1, <5>2
      <4>q. QED BY <4>2 DEF Draining
    <3>q. QED BY <1>4, <3>1, <3>2 DEF Compress
  <2>q. QED BY <2>1, <2>2 DEF Draining
<1>5. ASSUME Stop PROVE Draining'
  <2>1. UNCHANGED <<status, pc, slot, done, numCompJobs>>
    BY <1>5 DEF Stop, RemoveLogger, Close, StopEnd, ring, jobs
  <2>2. CASE RemoveLogger
    BY <1>v, <2>2 DEF RemoveLogger
  <2>3. CASE Close
    BY <2>1, <2>3 DEF Close, Draining
  <2>4. CASE StopEnd
    BY <2>1, <2>4 DEF StopEnd, Draining
  <2>q. QED BY <1>5, <2>2, <2>3, <2>4 DEF Stop
<1>6. ASSUME Crash PROVE Draining'
  BY <1>6, <1>v DEF Crash
<1>q. QED BY <1>1, <1>2, <1>3, <1>4, <1>5, <1>6 DEF Next

-----------------------------------------------------------------------------
(* The files and the compressor.                                           *)

Numbers ==
    /\ DOMAIN plain \subseteq 0 .. curRevnum
    /\ \A r \in DOMAIN tars : r < curRevnum
Queue ==
    /\ \A i \in 1 .. Len(pending) :
        /\ pending[i] < curRevnum
        /\ pending[i] \in DOMAIN plain /\ pending[i] \notin DOMAIN tars
    /\ \A i, j \in 1 .. Len(pending) : i < j => pending[i] < pending[j]
Ahead ==
    comp # None =>
        /\ comp.rev < curRevnum
        /\ \A i \in 1 .. Len(pending) : comp.rev < pending[i]
        /\ comp.at = "tar" => comp.rev \in DOMAIN plain /\ comp.rev \notin DOMAIN tars
        /\ comp.at = "rm" =>
            /\ comp.rev \in DOMAIN plain
            /\ \/ comp.rev \in unpacked
               \/ comp.rev \in DOMAIN tars /\ tars[comp.rev] = plain[comp.rev]
Counted == numCompJobs = Len(pending) + IF comp = None THEN 0 ELSE 1

LEMMA FilesAre == Files <=> Numbers /\ Queue /\ Ahead /\ Counted
BY DEF Files, Numbers, Queue, Ahead, Counted

\* What a rotation queues is the newest of the queue; what the compressor takes is
\* the oldest.
LEMMA Queued ==
    ASSUME NEW p \in Seq(Nat), NEW x \in Nat
    PROVE  /\ Len(p) \in Nat /\ Len(Append(p, x)) = Len(p) + 1
           /\ \A i \in 1 .. Len(p) : Append(p, x)[i] = p[i] /\ p[i] \in Nat
           /\ Append(p, x)[Len(p) + 1] = x
<1>1. Len(p) \in Nat /\ DOMAIN p = 1 .. Len(p)
  BY LenProperties
<1>2. \A i \in 1 .. Len(p) : p[i] \in Nat
  BY <1>1, ElementOfSeq
<1>q. QED BY <1>1, <1>2, AppendProperties

LEMMA Taken ==
    ASSUME NEW p \in Seq(Nat), p # <<>>
    PROVE  /\ Len(p) \in Nat /\ Len(p) > 0 /\ Len(Tail(p)) = Len(p) - 1
           /\ \A i \in 1 .. Len(p) - 1 : Tail(p)[i] = p[i + 1]
           /\ Head(p) = p[1] /\ p[1] \in Nat
<1>1. Len(p) \in Nat \ {0}
  BY EmptySeq
<1>2. p[1] \in Nat /\ Head(p) = p[1]
  BY <1>1, ElementOfSeq
<1>q. QED BY <1>1, <1>2, HeadTailProperties

LEMMA FilesKept == ASSUME TypeOK, Posts, Elements, Draining, Files, Next PROVE Files'
<1>t. FileTypes /\ JobTypes /\ Numbers /\ Queue /\ Ahead /\ Counted
  BY TypesAre, FilesAre
<1>n. /\ curRevnum \in Nat /\ DOMAIN plain \subseteq Nat /\ DOMAIN tars \subseteq Nat
      /\ Len(pending) \in Nat /\ \A i \in 1 .. Len(pending) : pending[i] \in Nat
  <2>1. curRevnum \in Nat /\ DOMAIN plain \subseteq Nat /\ DOMAIN tars \subseteq Nat
    BY <1>t DEF FileTypes, FileOK
  <2>2. pending \in Seq(Nat)
    BY <1>t DEF JobTypes
  <2>q. QED BY <2>1, <2>2, Queued
<1>f. ASSUME Numbers', Queue', Ahead', Counted' PROVE Files'
  BY <1>f DEF Files, Numbers, Queue, Ahead, Counted
<1>1. ASSUME NEW t \in Putters, Put(t) PROVE Files'
  <2>1. UNCHANGED <<plain, tars, curRevnum, pending, comp, numCompJobs, unpacked>>
    BY <1>1 DEF Put, Claim, Available, NeedToFlush, Wait, Write, WriteFails, WriteEnd, disk,
       revs, jobs, ghosts
  <2>q. QED BY <2>1 DEF Files
<1>2. ASSUME NEW a \in Actors, FlushAll(a) \/ TryLock(a) \/ FlushSkip(a) \/ FlushElem(a)
      PROVE  Files'
  <2>1. UNCHANGED <<plain, tars, curRevnum, pending, comp, numCompJobs, unpacked>>
    BY <1>2 DEF FlushAll, TryLock, FlushSkip, FlushElem, disk, revs, jobs, ghosts
  <2>q. QED BY <2>1 DEF Files
<1>3. ASSUME Stop PROVE Files'
  <2>1. UNCHANGED <<plain, tars, curRevnum, pending, comp, numCompJobs, unpacked>>
    BY <1>3 DEF Stop, RemoveLogger, Close, StopEnd, disk, revs, jobs, ghosts
  <2>q. QED BY <2>1 DEF Files
<1>4. ASSUME NEW a \in Actors, FlushElemEnd(a) PROVE Files'
  <2>1. /\ DOMAIN plain' = DOMAIN plain
        /\ \A r \in DOMAIN plain \ {curRevnum} : plain'[r] = plain[r]
    BY <1>4, Appends
  <2>2. UNCHANGED <<tars, curRevnum, pending, comp, numCompJobs, unpacked>>
    BY <1>4 DEF FlushElemEnd, revs, jobs, ghosts
  <2>3. Numbers' /\ Queue' /\ Counted'
    BY <1>t, <2>1, <2>2 DEF Numbers, Queue, Counted
  <2>4. Ahead'
    <3>1. comp # None => comp.rev # curRevnum
      BY JobFile
    <3>q. QED BY <1>t, <2>1, <2>2, <3>1 DEF Ahead
  <2>q. QED BY <1>f, <2>3, <2>4
<1>5. ASSUME NEW a \in Actors, FlushDone(a) PROVE Files'
  <2>1. UNCHANGED <<tars, comp, unpacked>>
    BY <1>5 DEF FlushDone, ghosts
  <2>2. CASE Stays
    BY <2>1, <2>2 DEF Files, Stays
  <2>3. CASE Opens
    <3>1. /\ curRevnum' = curRevnum + 1 /\ numCompJobs' = numCompJobs + 1
          /\ DOMAIN plain' = DOMAIN plain \cup {curRevnum + 1}
          /\ \A r \in DOMAIN plain : plain'[r] = plain[r]
      BY <2>3 DEF Opens
    <3>2. PICK q, n : q = pending' /\ n = Len(pending)
      OBVIOUS
    <3>3. /\ n \in Nat /\ Len(q) = n + 1
          /\ \A i \in 1 .. n : q[i] = pending[i]
          /\ q[n + 1] = curRevnum
      <4>1. pending \in Seq(Nat) /\ q = Append(pending, curRevnum)
        BY <1>t, <2>3, <3>2 DEF Opens, JobTypes
      <4>q. QED BY <1>n, <3>2, <4>1, Queued
    <3>4. Numbers'
      BY <1>t, <1>n, <2>1, <3>1 DEF Numbers
    <3>5. curRevnum \in DOMAIN plain /\ curRevnum \notin DOMAIN tars
      BY <1>t, <1>n DEF FileTypes, Numbers
    <3>6. \A i \in 1 .. n : /\ pending[i] \in Nat /\ pending[i] < curRevnum
                            /\ pending[i] \in DOMAIN plain /\ pending[i] \notin DOMAIN tars
      BY <1>t, <1>n, <3>2 DEF Queue
    <3>7. \A i \in 1 .. n + 1 : i \in 1 .. n \/ i = n + 1
      BY <3>3
    <3>8. \A i \in 1 .. n + 1 : /\ q[i] \in Nat /\ q[i] < curRevnum + 1
                                /\ q[i] \in DOMAIN plain /\ q[i] \notin DOMAIN tars
      BY <1>n, <3>3, <3>5, <3>6, <3>7
    <3>9. \A i, j \in 1 .. n + 1 : i < j => q[i] < q[j]
      <4> SUFFICES ASSUME NEW i \in 1 .. n + 1, NEW j \in 1 .. n + 1, i < j PROVE q[i] < q[j]
        OBVIOUS
      <4>1. i \in 1 .. n
        BY <3>3
      <4>2. CASE j = n + 1
        BY <3>3, <3>6, <4>1, <4>2
      <4>3. CASE j # n + 1
        <5>1. j \in 1 .. n
          BY <3>7, <4>3
        <5>2. pending[i] < pending[j]
          BY <1>t, <3>2, <4>1, <5>1 DEF Queue
        <5>q. QED BY <3>3, <4>1, <5>1, <5>2
      <4>q. QED BY <4>2, <4>3
    <3>10. Queue'
      BY <2>1, <3>1, <3>2, <3>3, <3>8, <3>9 DEF Queue
    <3>11. Ahead'
      <4>1. CASE comp = None
        BY <2>1, <4>1 DEF Ahead
      <4>2. CASE comp # None
        <5>1. comp.rev \in Nat /\ comp.rev < curRevnum
          BY <4>2, JobFile
        <5>2. \A i \in 1 .. n : comp.rev < pending[i]
          BY <1>t, <3>2, <4>2 DEF Ahead
        <5>3. \A i \in 1 .. n + 1 : comp.rev < q[i]
          BY <3>3, <3>7, <5>1, <5>2
        <5>4. comp'.rev < curRevnum' /\ \A i \in 1 .. Len(pending') : comp'.rev < pending'[i]
          BY <1>n, <2>1, <3>1, <3>2, <3>3, <5>1, <5>3
        <5>5. /\ comp.at = "tar" => comp.rev \in DOMAIN plain' /\ comp.rev \notin DOMAIN tars
              /\ comp.at = "rm" =>
                  /\ comp.rev \in DOMAIN plain'
                  /\ \/ comp.rev \in unpacked
                     \/ comp.rev \in DOMAIN tars /\ tars[comp.rev] = plain'[comp.rev]
          BY <1>t, <3>1, <4>2 DEF Ahead
        <5>q. QED BY <2>1, <5>4, <5>5 DEF Ahead
      <4>q. QED BY <4>1, <4>2
    <3>12. Counted'
      BY <1>t, <2>1, <3>1, <3>2, <3>3 DEF Counted
    <3>q. QED BY <1>f, <3>4, <3>10, <3>11, <3>12
  <2>q. QED BY <1>5, <2>2, <2>3, Rotates
<1>6. ASSUME TakeJob PROVE Files'
  <2>1. /\ comp = None /\ pending # <<>> /\ pending \in Seq(Nat)
        /\ comp' = [rev |-> Head(pending), at |-> "tar"] /\ pending' = Tail(pending)
        /\ UNCHANGED <<plain, tars, curRevnum, numCompJobs>>
    BY <1>t, <1>6 DEF TakeJob, JobTypes, disk, revs
  <2>2. PICK q, n, h : q = pending' /\ n = Len(pending) /\ h = Head(pending)
    OBVIOUS
  <2>3. /\ n \in Nat /\ n > 0 /\ Len(q) = n - 1 /\ h = pending[1] /\ h \in Nat
        /\ \A i \in 1 .. n - 1 : q[i] = pending[i + 1]
    BY <2>1, <2>2, Taken
  <2>4. \A i \in 1 .. n - 1 : i + 1 \in 1 .. n /\ 1 < i + 1
    BY <2>3
  <2>5. 1 \in 1 .. n
    BY <2>3
  <2>6. /\ comp' # None /\ comp'.rev = h /\ comp'.at = "tar"
    BY <2>1, <2>2, <2>3, Cast DEF Job
  <2>7. Numbers'
    BY <1>t, <2>1 DEF Numbers
  <2>8. Queue'
    <3>1. \A i \in 1 .. n - 1 : q[i] < curRevnum /\ q[i] \in DOMAIN plain /\ q[i] \notin DOMAIN tars
      BY <1>t, <2>2, <2>3, <2>4 DEF Queue
    <3>2. ASSUME NEW i \in 1 .. n - 1, NEW j \in 1 .. n - 1, i < j PROVE q[i] < q[j]
      <4>1. i + 1 \in 1 .. n /\ j + 1 \in 1 .. n /\ i + 1 < j + 1
        BY <2>3, <3>2
      <4>2. pending[i + 1] < pending[j + 1]
        BY <1>t, <2>2, <4>1 DEF Queue
      <4>q. QED BY <2>3, <4>2
    <3>q. QED BY <2>1, <2>2, <2>3, <3>1, <3>2 DEF Queue
  <2>9. Ahead'
    <3>1. h < curRevnum /\ h \in DOMAIN plain /\ h \notin DOMAIN tars
      BY <1>t, <2>2, <2>3, <2>5 DEF Queue
    <3>2. \A i \in 1 .. n - 1 : h < q[i]
      BY <1>t, <2>2, <2>3, <2>4, <2>5 DEF Queue
    <3>3. \A i \in 1 .. Len(pending') : comp'.rev < pending'[i]
      BY <2>2, <2>3, <2>6, <3>2
    <3>q. QED BY <2>1, <2>6, <3>1, <3>3 DEF Ahead
  <2>10. Counted'
    <3>1. numCompJobs = n
      BY <1>t, <2>1, <2>2, <2>3 DEF Counted
    <3>q. QED BY <2>1, <2>2, <2>3, <2>6, <3>1 DEF Counted
  <2>q. QED BY <1>f, <2>7, <2>8, <2>9, <2>10
<1>7. ASSUME Tar PROVE Files'
  <2>1. comp # None /\ Tarred(comp.rev) /\ comp' = [rev |-> comp.rev, at |-> "rm"]
    BY <1>7, Archives
  <2>2. UNCHANGED <<plain, curRevnum, pending, numCompJobs>> /\ comp.at = "tar"
    BY <1>7 DEF Tar, revs
  <2>3. /\ comp' # None /\ comp'.rev = comp.rev /\ comp'.at = "rm" /\ comp.rev \in Nat
        /\ comp.rev < curRevnum
    BY <2>1, Cast, JobFile DEF Job
  <2>4. /\ comp.rev \in DOMAIN plain
        /\ DOMAIN tars' = DOMAIN tars \/ DOMAIN tars' = DOMAIN tars \cup {comp.rev}
        /\ \/ comp.rev \in unpacked'
           \/ comp.rev \in DOMAIN tars' /\ tars'[comp.rev] = plain[comp.rev]
    BY <2>1 DEF Tarred
  <2>5. \A i \in 1 .. Len(pending) : comp.rev < pending[i]
    BY <1>t, <2>1 DEF Ahead
  <2>6. Numbers'
    BY <1>t, <2>2, <2>3, <2>4 DEF Numbers
  <2>7. Queue'
    <3>1. \A i \in 1 .. Len(pending) : pending[i] # comp.rev
      BY <1>n, <2>3, <2>5
    <3>q. QED BY <1>t, <2>2, <2>4, <3>1 DEF Queue
  <2>8. Ahead'
    BY <2>2, <2>3, <2>4, <2>5 DEF Ahead
  <2>9. Counted'
    BY <1>t, <2>1, <2>2, <2>3 DEF Counted
  <2>q. QED BY <1>f, <2>6, <2>7, <2>8, <2>9
<1>8. ASSUME Rm PROVE Files'
  <2>1. comp # None /\ Deleted(comp.rev) /\ comp' = [rev |-> comp.rev, at |-> "expire"]
    BY <1>8, Deletes
  <2>2. UNCHANGED <<tars, curRevnum, pending, numCompJobs>>
    BY <1>8 DEF Rm, revs
  <2>3. /\ comp' # None /\ comp'.rev = comp.rev /\ comp'.at = "expire" /\ comp.rev \in Nat
        /\ comp.rev < curRevnum
    BY <2>1, Cast, JobFile DEF Job
  <2>4. DOMAIN plain' = DOMAIN plain \ {comp.rev}
    BY <2>1 DEF Deleted
  <2>5. \A i \in 1 .. Len(pending) : comp.rev < pending[i]
    BY <1>t, <2>1 DEF Ahead
  <2>6. Numbers'
    BY <1>t, <2>2, <2>4 DEF Numbers
  <2>7. Queue'
    <3>1. \A i \in 1 .. Len(pending) : pending[i] # comp.rev
      BY <1>n, <2>3, <2>5
    <3>q. QED BY <1>t, <2>2, <2>4, <3>1 DEF Queue
  <2>8. Ahead'
    BY <2>2, <2>3, <2>5 DEF Ahead
  <2>9. Counted'
    BY <1>t, <2>1, <2>2, <2>3 DEF Counted
  <2>q. QED BY <1>f, <2>6, <2>7, <2>8, <2>9
<1>9. ASSUME Expire PROVE Files'
  <2>1. comp # None /\ comp' = None /\ numCompJobs' = numCompJobs - 1
        /\ UNCHANGED <<curRevnum, pending>>
    BY <1>9 DEF Expire
  <2>2. PICK old : Expired(old)
    BY <1>9, Expires
  <2>3. /\ DOMAIN plain' = DOMAIN plain \ old /\ DOMAIN tars' = DOMAIN tars \ old
        /\ \A r \in old : r < comp.rev
    BY <2>2 DEF Expired
  <2>4. comp.rev \in Nat /\ \A i \in 1 .. Len(pending) : comp.rev < pending[i]
    BY <1>t, <2>1, JobFile DEF Ahead
  <2>5. Numbers'
    BY <1>t, <2>1, <2>3 DEF Numbers
  <2>6. Queue'
    <3>1. \A i \in 1 .. Len(pending) : pending[i] \notin old
      BY <1>n, <2>3, <2>4
    <3>q. QED BY <1>t, <2>1, <2>3, <3>1 DEF Queue
  <2>7. Ahead' /\ Counted'
    BY <1>t, <1>n, <2>1 DEF Ahead, Counted
  <2>q. QED BY <1>f, <2>5, <2>6, <2>7
<1>10. ASSUME Crash PROVE Files'
  <2>1. pending' = <<>> /\ comp' = None /\ numCompJobs' = 0 /\ tars' = tars
    BY <1>10 DEF Crash
  <2>2. curRevnum' = curRevnum /\ DOMAIN plain' = DOMAIN plain
    BY <1>10, Recovers DEF Recovered
  <2>3. Len(pending') = 0
    BY <2>1
  <2>4. Numbers'
    BY <1>t, <2>1, <2>2 DEF Numbers
  <2>5. Queue'
    BY <2>3 DEF Queue
  <2>6. Ahead' /\ Counted'
    BY <2>1, <2>3 DEF Ahead, Counted
  <2>q. QED BY <1>f, <2>4, <2>5, <2>6
<1>q. QED
  BY <1>1, <1>2, <1>3, <1>4, <1>5, <1>6, <1>7, <1>8, <1>9, <1>10 DEF Next, Flush, Compress

-----------------------------------------------------------------------------
(* Where the messages are.                                                 *)

\* The parts of Places: nothing is there that was not sent, and nothing twice.
Known ==
    /\ \A t \in Putters : msg[t] # None => msg[t] <= sent
    /\ \A s \in Slots : Ready(s) => ctx[s] <= sent
    /\ \A m \in Message : Written(plain, m) \/ Written(tars, m) => m <= sent
Apart ==
    /\ \A t, u \in Putters : msg[t] = msg[u] /\ msg[t] # None => t = u
    /\ \A t \in Putters, s \in Slots : msg[t] # None /\ Ready(s) => msg[t] # ctx[s]
    /\ \A t \in Putters : msg[t] # None => ~Written(plain, msg[t]) /\ ~Written(tars, msg[t])
    /\ \A r, s \in Slots : Ready(r) /\ Ready(s) /\ ctx[r] = ctx[s] => r = s
    /\ \A s \in Slots : Ready(s) => ~Written(plain, ctx[s]) /\ ~Written(tars, ctx[s])

LEMMA PlacesAre == Places <=> Known /\ Apart /\ Unique(plain)
BY DEF Places, Known, Apart, Unique

LEMMA PlacesNext == ASSUME Known', Apart', Unique(plain') PROVE Places'
BY DEF Places, Known, Apart, Unique

\* A step that only takes messages away from where they are, or puts what a log
\* file has into an archive.
Fewer ==
    /\ sent' = sent
    /\ \A t \in Putters : msg'[t] # None => msg'[t] = msg[t]
    /\ \A s \in Slots : Ready(s)' => Ready(s) /\ ctx'[s] = ctx[s]
    /\ \A m : Written(plain', m) \/ Written(tars', m) => Written(plain, m) \/ Written(tars, m)
    /\ Unique(plain) => Unique(plain')

LEMMA PlacesFewer == ASSUME Places, Fewer PROVE Places'
<1>t. Known /\ Apart /\ Unique(plain)
  BY PlacesAre
<1>1. Known'
  <2>1. \A t \in Putters : msg'[t] # None => msg'[t] <= sent'
    BY <1>t DEF Known, Fewer
  <2>2. \A s \in Slots : Ready(s)' => ctx'[s] <= sent'
    BY <1>t DEF Known, Fewer
  <2>3. \A m \in Message : Written(plain', m) \/ Written(tars', m) => m <= sent'
    BY <1>t DEF Known, Fewer
  <2>q. QED BY <2>1, <2>2, <2>3 DEF Known
<1>2. Apart'
  <2>1. \A t, u \in Putters : msg'[t] = msg'[u] /\ msg'[t] # None => t = u
    BY <1>t DEF Apart, Fewer
  <2>2. \A t \in Putters, s \in Slots : msg'[t] # None /\ Ready(s)' => msg'[t] # ctx'[s]
    BY <1>t DEF Apart, Fewer
  <2>3. ASSUME NEW t \in Putters, msg'[t] # None
        PROVE  ~Written(plain', msg'[t]) /\ ~Written(tars', msg'[t])
    <3>1. msg'[t] = msg[t] /\ ~Written(plain, msg[t]) /\ ~Written(tars, msg[t])
      BY <1>t, <2>3 DEF Apart, Fewer
    <3>q. QED BY <3>1 DEF Fewer
  <2>4. \A r, s \in Slots : Ready(r)' /\ Ready(s)' /\ ctx'[r] = ctx'[s] => r = s
    BY <1>t DEF Apart, Fewer
  <2>5. ASSUME NEW s \in Slots, Ready(s)'
        PROVE  ~Written(plain', ctx'[s]) /\ ~Written(tars', ctx'[s])
    <3>1. ctx'[s] = ctx[s] /\ ~Written(plain, ctx[s]) /\ ~Written(tars, ctx[s])
      BY <1>t, <2>5 DEF Apart, Fewer
    <3>q. QED BY <3>1 DEF Fewer
  <2>q. QED BY <2>1, <2>2, <2>3, <2>4, <2>5 DEF Apart
<1>3. Unique(plain')
  BY <1>t DEF Fewer
<1>q. QED BY <1>1, <1>2, <1>3, PlacesNext

\* A step after which every message is still somewhere, if it was before.
Retains ==
    /\ sent' = sent /\ msg' = msg
    /\ \A s \in Slots : Ready(s) => Ready(s)' /\ ctx'[s] = ctx[s]
    /\ \A m : Written(plain, m) \/ Written(tars, m) =>
            Written(plain', m) \/ Written(tars', m) \/ m \in left'
    /\ lost \subseteq lost' /\ left \subseteq left'

LEMMA KeptRetained == ASSUME Kept, Retains PROVE Kept'
<1> SUFFICES ASSUME NEW m \in 1 .. sent'
             PROVE  \/ \E t \in Putters : msg'[t] = m
                    \/ \E s \in Slots : Ready(s)' /\ ctx'[s] = m
                    \/ Written(plain', m) \/ Written(tars', m) \/ m \in lost' \/ m \in left'
  BY DEF Kept
<1>1. \/ \E t \in Putters : msg[t] = m
      \/ \E s \in Slots : Ready(s) /\ ctx[s] = m
      \/ Written(plain, m) \/ Written(tars, m) \/ m \in lost \/ m \in left
  BY DEF Kept, Retains
<1>2. CASE \E t \in Putters : msg[t] = m
  BY <1>2 DEF Retains
<1>3. CASE \E s \in Slots : Ready(s) /\ ctx[s] = m
  BY <1>3 DEF Retains
<1>4. CASE Written(plain, m) \/ Written(tars, m) \/ m \in lost \/ m \in left
  BY <1>4 DEF Retains
<1>q. QED BY <1>1, <1>2, <1>3, <1>4

\* Most steps move no message, and those of the compressor only between files.
Moving(t) == Claim(t) \/ WriteFails(t) \/ WriteEnd(t)

LEMMA Quiet ==
    ASSUME TypeOK, Posts, Elements, Files, Next, ~Crash,
           \A t \in Putters : ~Moving(t), \A a \in Actors : ~FlushElemEnd(a)
    PROVE  Fewer /\ Retains
<1>t. ThreadTypes /\ RingTypes /\ WrittenAt
  BY TypesAre, ElementsAre
<1>0. ASSUME sent' = sent, msg' = msg, lost' = lost, left' = left, plain' = plain, tars' = tars,
             \A s \in Slots : Ready(s)' <=> Ready(s), ctx' = ctx
      PROVE  Fewer /\ Retains
  BY <1>0 DEF Fewer, Retains
<1>1. ASSUME NEW t \in Putters, Available(t) \/ NeedToFlush(t) \/ Wait(t) PROVE Fewer /\ Retains
  <2>1. UNCHANGED <<sent, msg, lost, left, plain, tars, status, ctx>>
    BY <1>1 DEF Available, NeedToFlush, Wait, ring, disk, ghosts
  <2>q. QED BY <1>0, <2>1 DEF Ready
<1>2. ASSUME NEW t \in Putters, Write(t) PROVE Fewer /\ Retains
  <2>1. UNCHANGED <<sent, msg, lost, left, plain, tars, ctx>> /\ slot[t] \in Slots
        /\ status[slot[t]] = "CLEAN" /\ status' = [status EXCEPT ![slot[t]] = "WRITING"]
    BY <1>t, <1>2, Cast DEF Write, disk, ghosts, ThreadTypes
  <2>2. \A s \in Slots : Ready(s)' <=> Ready(s)
    BY <1>t, <2>1 DEF Ready, RingTypes
  <2>q. QED BY <1>0, <2>1, <2>2
<1>3. ASSUME NEW a \in Actors, FlushAll(a) \/ TryLock(a) \/ FlushSkip(a) PROVE Fewer /\ Retains
  <2>1. UNCHANGED <<sent, msg, lost, left, plain, tars, status, ctx>>
    BY <1>3 DEF FlushAll, TryLock, FlushSkip, ring, disk, ghosts
  <2>q. QED BY <1>0, <2>1 DEF Ready
<1>4. ASSUME NEW a \in Actors, FlushElem(a) PROVE Fewer /\ Retains
  <2>1. UNCHANGED <<sent, msg, lost, left, plain, tars, ctx>> /\ At(a) \in Slots
        /\ status[At(a)] = "DIRTY" /\ status' = [status EXCEPT ![At(a)] = "FLUSHING"]
    BY <1>4, AtSlot DEF FlushElem, disk, ghosts
  <2>2. \A s \in Slots : Ready(s)' <=> Ready(s)
    BY <1>t, <2>1 DEF Ready, RingTypes
  <2>q. QED BY <1>0, <2>1, <2>2
<1>5. ASSUME NEW a \in Actors, FlushDone(a) PROVE Fewer /\ Retains
  <2>1. UNCHANGED <<sent, msg, lost, left, tars, status, ctx>>
    BY <1>5 DEF FlushDone, ring, ghosts
  <2>2. (\A m : Written(plain', m) <=> Written(plain, m)) /\ (Unique(plain) => Unique(plain'))
    BY <1>5, Rotates DEF Stays, Opens
  <2>q. QED BY <2>1, <2>2 DEF Fewer, Retains, Ready
<1>6. ASSUME TakeJob \/ Stop PROVE Fewer /\ Retains
  <2>1. UNCHANGED <<sent, msg, lost, left, plain, tars, status, ctx>>
    BY <1>6 DEF TakeJob, Stop, RemoveLogger, Close, StopEnd, ring, disk, ghosts
  <2>q. QED BY <1>0, <2>1 DEF Ready
<1>7. ASSUME Tar PROVE Fewer /\ Retains
  <2>1. UNCHANGED <<sent, msg, lost, left, plain, status, ctx>>
    BY <1>7 DEF Tar, ring, ghosts
  <2>2. /\ \A m : Written(tars', m) => Written(tars, m) \/ Written(plain, m)
        /\ \A m : Written(tars, m) => Written(tars', m)
    BY <1>7, Archives DEF Tarred
  <2>q. QED BY <2>1, <2>2 DEF Fewer, Retains, Ready
<1>8. ASSUME Rm PROVE Fewer /\ Retains
  <2>1. UNCHANGED <<sent, msg, lost, tars, status, ctx>>
    BY <1>8 DEF Rm, ring
  <2>2. /\ \A m : Written(plain', m) => Written(plain, m)
        /\ \A m : Written(plain, m) => Written(plain', m) \/ Written(tars, m) \/ m \in left'
        /\ left \subseteq left' /\ (Unique(plain) => Unique(plain'))
    BY <1>8, Deletes DEF Deleted
  <2>q. QED BY <2>1, <2>2 DEF Fewer, Retains, Ready
<1>9. ASSUME Expire PROVE Fewer /\ Retains
  <2>1. UNCHANGED <<sent, msg, lost, status, ctx>>
    BY <1>9 DEF Expire, ring
  <2>2. PICK old : Expired(old)
    BY <1>9, Expires
  <2>3. Fewer
    BY <2>1, <2>2 DEF Fewer, Expired, Ready
  <2>4. Retains
    BY <2>1, <2>2 DEF Retains, Expired, Ready
  <2>q. QED BY <2>3, <2>4
<1>q. QED
  BY <1>1, <1>2, <1>3, <1>4, <1>5, <1>6, <1>7, <1>8, <1>9
     DEF Next, Put, Flush, Compress, Moving

\* A message in hand, in the ring or in a file is a number.
LEMMA HandNumber ==
    ASSUME TypeOK, NEW t \in Putters, msg[t] # None PROVE msg[t] \in Message /\ msg[t] \in Nat
BY DEF TypeOK, Message
LEMMA RingNumber ==
    ASSUME TypeOK, NEW s \in Slots, Ready(s) PROVE ctx[s] \in Message /\ ctx[s] \in Nat
BY DEF TypeOK, Message, Ready
LEMMA FileNumber ==
    ASSUME NEW f, FileOK(f), NEW m, Written(f, m) PROVE m \in Message
<1>1. PICK r \in DOMAIN f : \E i \in DOMAIN f[r] : f[r][i] = m
  BY DEF Written
<1>2. PICK i \in DOMAIN f[r] : f[r][i] = m
  BY <1>1
<1>3. f[r] \in Seq(Message)
  BY <1>1 DEF FileOK
<1>4. i \in 1 .. Len(f[r])
  BY <1>2, <1>3, LenProperties
<1>q. QED BY <1>2, <1>3, <1>4, ElementOfSeq

LEMMA PlacesKept == ASSUME TypeOK, Posts, Elements, Files, Places, Next PROVE Places'
<1>t. ThreadTypes /\ RingTypes /\ JobTypes /\ WrittenAt /\ Known /\ Apart /\ Unique(plain)
  BY TypesAre, ElementsAre, PlacesAre
<1>1. ASSUME NEW t \in Putters, Claim(t) PROVE Places'
  <2>1. /\ msg' = [msg EXCEPT ![t] = sent + 1] /\ sent' = sent + 1 /\ sent \in Nat
        /\ UNCHANGED <<status, ctx, plain, tars>>
    BY <1>t, <1>1 DEF Claim, disk, JobTypes
  <2>2. ASSUME NEW u \in Putters
        PROVE  /\ u = t => msg'[u] = sent + 1
               /\ u # t => msg'[u] = msg[u]
               /\ msg[u] # None => msg[u] \in Nat /\ msg[u] <= sent
    BY <1>t, <2>1, HandNumber DEF ThreadTypes, Known
  <2>3. ASSUME NEW s \in Slots
        PROVE  /\ Ready(s)' <=> Ready(s)
               /\ Ready(s) => ctx[s] \in Nat /\ ctx[s] <= sent
    BY <1>t, <2>1, RingNumber DEF Known, Ready
  <2>4. ASSUME NEW m, Written(plain, m) \/ Written(tars, m) PROVE m \in Message /\ m <= sent
    <3>1. m \in Message
      BY <2>4, FileNumber DEF TypeOK
    <3>q. QED BY <1>t, <2>4, <3>1 DEF Known
  <2>5. ~Written(plain, sent + 1) /\ ~Written(tars, sent + 1)
    BY <2>1, <2>4
  <2>6. Known'
    <3>1. \A u \in Putters : msg'[u] # None => msg'[u] <= sent'
      BY <2>1, <2>2
    <3>2. \A s \in Slots : Ready(s)' => ctx'[s] <= sent'
      BY <2>1, <2>3
    <3>3. \A m \in Message : Written(plain', m) \/ Written(tars', m) => m <= sent'
      BY <2>1, <2>4 DEF Message
    <3>q. QED BY <3>1, <3>2, <3>3 DEF Known
  <2>7. Apart'
    <3>1. \A u, v \in Putters : msg'[u] = msg'[v] /\ msg'[u] # None => u = v
      BY <1>t, <2>1, <2>2 DEF Apart
    <3>2. \A u \in Putters, s \in Slots : msg'[u] # None /\ Ready(s)' => msg'[u] # ctx'[s]
      BY <1>t, <2>1, <2>2, <2>3 DEF Apart
    <3>3. \A u \in Putters : msg'[u] # None => ~Written(plain', msg'[u]) /\ ~Written(tars', msg'[u])
      BY <1>t, <2>1, <2>2, <2>5 DEF Apart
    <3>4. /\ \A r, s \in Slots : Ready(r)' /\ Ready(s)' /\ ctx'[r] = ctx'[s] => r = s
          /\ \A s \in Slots : Ready(s)' => ~Written(plain', ctx'[s]) /\ ~Written(tars', ctx'[s])
      BY <1>t, <2>1, <2>3 DEF Apart
    <3>q. QED BY <3>1, <3>2, <3>3, <3>4 DEF Apart
  <2>q. QED BY <1>t, <2>1, <2>6, <2>7, PlacesNext
<1>2. ASSUME NEW t \in Putters, WriteFails(t) PROVE Places'
  <2>1. msg' = [msg EXCEPT ![t] = None] /\ UNCHANGED <<sent, status, ctx, plain, tars>>
    BY <1>2 DEF WriteFails, ring, disk
  <2>2. Fewer
    BY <1>t, <2>1 DEF Fewer, ThreadTypes, Ready
  <2>q. QED BY <2>2, PlacesFewer
<1>3. ASSUME NEW t \in Putters, WriteEnd(t) PROVE Places'
  <2>1. /\ slot[t] \in Slots /\ status[slot[t]] = "WRITING" /\ UNCHANGED <<sent, plain, tars>>
        /\ ctx' = [ctx EXCEPT ![slot[t]] = msg[t]] /\ msg' = [msg EXCEPT ![t] = None]
        /\ status' = [status EXCEPT ![slot[t]] = "DIRTY"] /\ pc[t] = "writing"
    BY <1>t, <1>3, Cast DEF WriteEnd, Step, disk, ghosts, WrittenAt, ThreadTypes
  <2>2. msg[t] # None
    <3>1. CASE t = Main
      BY <2>1, <3>1 DEF Posts, Putting
    <3>2. CASE t \in Threads
      BY <2>1, <3>2 DEF Posts
    <3>q. QED BY <3>1, <3>2 DEF Putters
  <2>3. PICK w, x : w \in Slots /\ w = slot[t] /\ x = msg[t]
    BY <2>1
  <2>4. ASSUME NEW u \in Putters
        PROVE  msg'[u] # None => msg'[u] = msg[u] /\ u # t /\ msg[u] # x
    BY <1>t, <2>1, <2>2, <2>3 DEF ThreadTypes, Apart
  <2>5. ASSUME NEW s \in Slots
        PROVE  /\ s = w => ctx'[s] = x
               /\ s # w => (Ready(s)' <=> Ready(s)) /\ ctx'[s] = ctx[s]
               /\ Ready(s) => ctx[s] # x
    BY <1>t, <2>1, <2>2, <2>3 DEF RingTypes, Ready, Apart
  <2>6. ~Written(plain, x) /\ ~Written(tars, x) /\ x <= sent
    BY <1>t, <2>2, <2>3 DEF Apart, Known
  <2>7. Known'
    <3>1. \A u \in Putters : msg'[u] # None => msg'[u] <= sent'
      BY <1>t, <2>1, <2>4 DEF Known
    <3>2. \A s \in Slots : Ready(s)' => ctx'[s] <= sent'
      BY <1>t, <2>1, <2>5, <2>6 DEF Known
    <3>3. \A m \in Message : Written(plain', m) \/ Written(tars', m) => m <= sent'
      BY <1>t, <2>1 DEF Known
    <3>q. QED BY <3>1, <3>2, <3>3 DEF Known
  <2>8. Apart'
    <3>1. \A u, v \in Putters : msg'[u] = msg'[v] /\ msg'[u] # None => u = v
      BY <1>t, <2>4 DEF Apart
    <3>2. \A u \in Putters, s \in Slots : msg'[u] # None /\ Ready(s)' => msg'[u] # ctx'[s]
      BY <1>t, <2>4, <2>5 DEF Apart
    <3>3. \A u \in Putters : msg'[u] # None => ~Written(plain', msg'[u]) /\ ~Written(tars', msg'[u])
      BY <1>t, <2>1, <2>4 DEF Apart
    <3>4. \A r, s \in Slots : Ready(r)' /\ Ready(s)' /\ ctx'[r] = ctx'[s] => r = s
      BY <1>t, <2>5 DEF Apart
    <3>5. \A s \in Slots : Ready(s)' => ~Written(plain', ctx'[s]) /\ ~Written(tars', ctx'[s])
      BY <1>t, <2>1, <2>5, <2>6 DEF Apart
    <3>q. QED BY <3>1, <3>2, <3>3, <3>4, <3>5 DEF Apart
  <2>q. QED BY <1>t, <2>1, <2>7, <2>8, PlacesNext
<1>4. ASSUME NEW a \in Actors, FlushElemEnd(a) PROVE Places'
  <2>1. /\ At(a) \in Slots /\ UNCHANGED <<sent, msg, ctx, tars>>
        /\ status' = [status EXCEPT ![At(a)] = "CLEAN"]
    BY <1>4, AtSlot DEF FlushElemEnd, ghosts
  <2>2. PICK w, x : w \in Slots /\ w = At(a) /\ x = ctx[At(a)]
    BY <2>1
  <2>3. /\ x \in Message /\ Ready(w)
        /\ \A m : Written(plain', m) <=> Written(plain, m) \/ m = x
        /\ Unique(plain) /\ ~Written(plain, x) => Unique(plain')
    BY <1>4, <2>2, Appends DEF Ready
  <2>4. \A s \in Slots : Ready(s)' => Ready(s) /\ s # w /\ ctx[s] # x
    BY <1>t, <2>1, <2>2, <2>3 DEF RingTypes, Ready, Apart
  <2>5. x <= sent /\ ~Written(plain, x) /\ ~Written(tars, x)
        /\ \A u \in Putters : msg[u] # None => msg[u] # x
    BY <1>t, <2>2, <2>3 DEF Known, Apart
  <2>6. Known'
    <3>1. \A u \in Putters : msg'[u] # None => msg'[u] <= sent'
      BY <1>t, <2>1 DEF Known
    <3>2. \A s \in Slots : Ready(s)' => ctx'[s] <= sent'
      BY <1>t, <2>1, <2>4 DEF Known
    <3>3. \A m \in Message : Written(plain', m) \/ Written(tars', m) => m <= sent'
      BY <1>t, <2>1, <2>3, <2>5 DEF Known
    <3>q. QED BY <3>1, <3>2, <3>3 DEF Known
  <2>7. Apart'
    <3>1. \A u, v \in Putters : msg'[u] = msg'[v] /\ msg'[u] # None => u = v
      BY <1>t, <2>1 DEF Apart
    <3>2. \A u \in Putters, s \in Slots : msg'[u] # None /\ Ready(s)' => msg'[u] # ctx'[s]
      BY <1>t, <2>1, <2>4 DEF Apart
    <3>3. \A u \in Putters : msg'[u] # None => ~Written(plain', msg'[u]) /\ ~Written(tars', msg'[u])
      BY <1>t, <2>1, <2>3, <2>5 DEF Apart
    <3>4. \A r, s \in Slots : Ready(r)' /\ Ready(s)' /\ ctx'[r] = ctx'[s] => r = s
      BY <1>t, <2>1, <2>4 DEF Apart
    <3>5. \A s \in Slots : Ready(s)' => ~Written(plain', ctx'[s]) /\ ~Written(tars', ctx'[s])
      BY <1>t, <2>1, <2>3, <2>4 DEF Apart
    <3>q. QED BY <3>1, <3>2, <3>3, <3>4, <3>5 DEF Apart
  <2>8. Unique(plain')
    BY <1>t, <2>3, <2>5
  <2>q. QED BY <2>6, <2>7, <2>8, PlacesNext
<1>5. ASSUME Crash PROVE Places'
  <2>1. /\ UNCHANGED <<sent, tars>> /\ status' = [s \in Slots |-> "CLEAN"]
        /\ msg' = [a \in Putters |-> None]
    BY <1>5 DEF Crash
  <2>2. /\ \A m : Written(plain', m) => Written(plain, m)
        /\ Unique(plain) => Unique(plain')
    BY <1>5, Recovers DEF Recovered
  <2>3. Fewer
    BY <2>1, <2>2 DEF Fewer, Ready
  <2>q. QED BY <2>3, PlacesFewer
<1>6. CASE ~Crash /\ (\A t \in Putters : ~Moving(t)) /\ (\A a \in Actors : ~FlushElemEnd(a))
  <2>1. Fewer
    BY <1>6, Quiet
  <2>q. QED BY <2>1, PlacesFewer
<1>q. QED BY <1>1, <1>2, <1>3, <1>4, <1>5, <1>6 DEF Moving

LEMMA KeptKept == ASSUME TypeOK, Posts, Elements, Files, Places, Kept, Next PROVE Kept'
<1>t. ThreadTypes /\ RingTypes /\ JobTypes /\ WrittenAt
  BY TypesAre, ElementsAre
<1>s. ASSUME \A m \in 1 .. sent' :
                \/ \E t \in Putters : msg'[t] = m
                \/ \E s \in Slots : Ready(s)' /\ ctx'[s] = m
                \/ Written(plain', m) \/ Written(tars', m) \/ m \in lost' \/ m \in left'
      PROVE  Kept'
  BY <1>s DEF Kept
<1>w. ASSUME NEW m \in 1 .. sent
      PROVE  \/ \E t \in Putters : msg[t] = m
             \/ \E s \in Slots : Ready(s) /\ ctx[s] = m
             \/ Written(plain, m) \/ Written(tars, m) \/ m \in lost \/ m \in left
  BY DEF Kept
<1>1. ASSUME NEW t \in Putters, Claim(t) PROVE Kept'
  <2>1. /\ msg' = [msg EXCEPT ![t] = sent + 1] /\ sent' = sent + 1 /\ sent \in Nat
        /\ UNCHANGED <<status, ctx, plain, tars, lost, left>> /\ pc[t] = "idle"
    BY <1>t, <1>1 DEF Claim, disk, JobTypes
  <2>2. msg[t] = None
    BY <2>1 DEF Posts, Putters
  <2>3. ASSUME NEW m \in 1 .. sent'
        PROVE  \/ \E u \in Putters : msg'[u] = m
               \/ \E s \in Slots : Ready(s)' /\ ctx'[s] = m
               \/ Written(plain', m) \/ Written(tars', m) \/ m \in lost' \/ m \in left'
    <3>1. CASE m = sent + 1
      BY <1>t, <2>1, <3>1 DEF ThreadTypes
    <3>2. CASE m # sent + 1
      <4>1. m \in 1 .. sent /\ m # None
        BY <2>1, <3>2, Cast
      <4>2. CASE \E u \in Putters : msg[u] = m
        BY <1>t, <2>1, <2>2, <4>1, <4>2 DEF ThreadTypes
      <4>3. CASE \E s \in Slots : Ready(s) /\ ctx[s] = m
        BY <2>1, <4>3 DEF Ready
      <4>4. CASE Written(plain, m) \/ Written(tars, m) \/ m \in lost \/ m \in left
        BY <2>1, <4>4
      <4>q. QED BY <1>w, <4>1, <4>2, <4>3, <4>4
    <3>q. QED BY <3>1, <3>2
  <2>q. QED BY <1>s, <2>3
<1>2. ASSUME NEW t \in Putters, WriteFails(t) PROVE Kept'
  <2>1. /\ msg' = [msg EXCEPT ![t] = None] /\ lost' = lost \cup {msg[t]}
        /\ UNCHANGED <<sent, status, ctx, plain, tars, left>>
    BY <1>2 DEF WriteFails, ring, disk
  <2>2. ASSUME NEW m \in 1 .. sent'
        PROVE  \/ \E u \in Putters : msg'[u] = m
               \/ \E s \in Slots : Ready(s)' /\ ctx'[s] = m
               \/ Written(plain', m) \/ Written(tars', m) \/ m \in lost' \/ m \in left'
    <3>1. CASE \E u \in Putters : msg[u] = m
      <4>1. PICK u \in Putters : msg[u] = m
        BY <3>1
      <4>2. CASE u = t
        BY <2>1, <4>1, <4>2
      <4>3. CASE u # t
        BY <1>t, <2>1, <4>1, <4>3 DEF ThreadTypes
      <4>q. QED BY <4>2, <4>3
    <3>2. CASE \E s \in Slots : Ready(s) /\ ctx[s] = m
      BY <2>1, <3>2 DEF Ready
    <3>3. CASE Written(plain, m) \/ Written(tars, m) \/ m \in lost \/ m \in left
      BY <2>1, <3>3
    <3>q. QED BY <1>w, <2>1, <3>1, <3>2, <3>3
  <2>q. QED BY <1>s, <2>2
<1>3. ASSUME NEW t \in Putters, WriteEnd(t) PROVE Kept'
  <2>1. /\ slot[t] \in Slots /\ status[slot[t]] = "WRITING"
        /\ UNCHANGED <<sent, plain, tars, lost, left>>
        /\ ctx' = [ctx EXCEPT ![slot[t]] = msg[t]] /\ msg' = [msg EXCEPT ![t] = None]
        /\ status' = [status EXCEPT ![slot[t]] = "DIRTY"]
    BY <1>t, <1>3, Cast DEF WriteEnd, Step, disk, ghosts, WrittenAt, ThreadTypes
  <2>2. ASSUME NEW m \in 1 .. sent'
        PROVE  \/ \E u \in Putters : msg'[u] = m
               \/ \E s \in Slots : Ready(s)' /\ ctx'[s] = m
               \/ Written(plain', m) \/ Written(tars', m) \/ m \in lost' \/ m \in left'
    <3>1. CASE \E u \in Putters : msg[u] = m
      <4>1. PICK u \in Putters : msg[u] = m
        BY <3>1
      <4>2. CASE u = t
        <5>1. PICK w \in Slots : w = slot[t]
          BY <2>1
        <5>2. Ready(w)' /\ ctx'[w] = m
          BY <1>t, <2>1, <4>1, <4>2, <5>1 DEF RingTypes, Ready
        <5>q. QED BY <5>2
      <4>3. CASE u # t
        BY <1>t, <2>1, <4>1, <4>3 DEF ThreadTypes
      <4>q. QED BY <4>2, <4>3
    <3>2. CASE \E s \in Slots : Ready(s) /\ ctx[s] = m
      <4>1. PICK s \in Slots : Ready(s) /\ ctx[s] = m
        BY <3>2
      <4>2. s # slot[t]
        BY <2>1, <4>1 DEF Ready
      <4>3. Ready(s)' /\ ctx'[s] = m
        BY <1>t, <2>1, <4>1, <4>2 DEF RingTypes, Ready
      <4>q. QED BY <4>3
    <3>3. CASE Written(plain, m) \/ Written(tars, m) \/ m \in lost \/ m \in left
      BY <2>1, <3>3
    <3>q. QED BY <1>w, <2>1, <3>1, <3>2, <3>3
  <2>q. QED BY <1>s, <2>2
<1>4. ASSUME NEW a \in Actors, FlushElemEnd(a) PROVE Kept'
  <2>1. /\ At(a) \in Slots /\ UNCHANGED <<sent, msg, ctx, tars, lost, left>>
        /\ status' = [status EXCEPT ![At(a)] = "CLEAN"]
    BY <1>4, AtSlot DEF FlushElemEnd, ghosts
  <2>2. \A m : Written(plain', m) <=> Written(plain, m) \/ m = ctx[At(a)]
    BY <1>4, Appends
  <2>3. ASSUME NEW m \in 1 .. sent'
        PROVE  \/ \E u \in Putters : msg'[u] = m
               \/ \E s \in Slots : Ready(s)' /\ ctx'[s] = m
               \/ Written(plain', m) \/ Written(tars', m) \/ m \in lost' \/ m \in left'
    <3>1. CASE \E u \in Putters : msg[u] = m
      BY <2>1, <3>1
    <3>2. CASE \E s \in Slots : Ready(s) /\ ctx[s] = m
      <4>1. PICK s \in Slots : Ready(s) /\ ctx[s] = m
        BY <3>2
      <4>2. CASE s = At(a)
        BY <2>2, <4>1, <4>2
      <4>3. CASE s # At(a)
        <5>1. Ready(s)' /\ ctx'[s] = m
          BY <1>t, <2>1, <4>1, <4>3 DEF RingTypes, Ready
        <5>q. QED BY <5>1
      <4>q. QED BY <4>2, <4>3
    <3>3. CASE Written(plain, m) \/ Written(tars, m) \/ m \in lost \/ m \in left
      BY <2>1, <2>2, <3>3
    <3>q. QED BY <1>w, <2>1, <3>1, <3>2, <3>3
  <2>q. QED BY <1>s, <2>3
<1>5. ASSUME Crash PROVE Kept'
  <2>1. UNCHANGED <<sent, tars>>
    BY <1>5 DEF Crash
  <2>2. \A m \in 1 .. sent : Written(plain', m) \/ Written(tars, m) \/ m \in left'
    BY <1>5, Recovers DEF Recovered
  <2>q. QED BY <1>s, <2>1, <2>2
<1>6. CASE ~Crash /\ (\A t \in Putters : ~Moving(t)) /\ (\A a \in Actors : ~FlushElemEnd(a))
  <2>1. Retains
    BY <1>6, Quiet
  <2>q. QED BY <2>1, KeptRetained
<1>q. QED BY <1>1, <1>2, <1>3, <1>4, <1>5, <1>6 DEF Moving

-----------------------------------------------------------------------------
(* The size of the files.                                                  *)

LEMMA SizesKept == ASSUME TypeOK, Posts, Elements, Files, Sizes, Next PROVE Sizes'
<1>t. ThreadTypes /\ FileTypes /\ JobTypes /\ Mutex
  BY TypesAre, PostsAre
<1>c. PICK c \in Nat : c = crashes
  BY <1>t DEF JobTypes
<1>n. /\ \A r \in DOMAIN plain : Len(plain[r]) \in Nat
      /\ Num * (c + 1) = Num * c + Num /\ Num * c \in Nat /\ Num * (c + 2) = Num * c + Num + Num
      /\ done \in Nat /\ done <= Num /\ curRevnum \in DOMAIN plain
  <2>1. \A r \in DOMAIN plain : plain[r] \in Seq(Message)
    BY <1>t DEF FileTypes, FileOK
  <2>2. \A r \in DOMAIN plain : Len(plain[r]) \in Nat
    BY <2>1, LenProperties
  <2>3. Num * (c + 1) = Num * c + Num /\ Num * c \in Nat /\ Num * (c + 2) = Num * c + Num + Num
    BY LoggerAssumption
  <2>q. QED BY <1>t, <2>2, <2>3, LoggerAssumption DEF ThreadTypes, FileTypes
<1>a. /\ \A r \in DOMAIN plain : Len(plain[r]) <= MaxLogFileSize + Num * (c + 1)
      /\ Len(plain[curRevnum]) <= MaxLogFileSize + Num * c + (IF flushingLogs = None THEN 0 ELSE done)
  BY <1>c DEF Sizes
<1>1. ASSUME NEW t \in Putters, Put(t) PROVE Sizes'
  <2>1. UNCHANGED <<plain, curRevnum, crashes, flushingLogs, done>>
    BY <1>1 DEF Put, Claim, Available, NeedToFlush, Wait, Write, WriteFails, WriteEnd, disk,
       revs, ghosts
  <2>q. QED BY <2>1 DEF Sizes
<1>2. ASSUME NEW a \in Actors, FlushAll(a) \/ FlushElem(a) PROVE Sizes'
  <2>1. UNCHANGED <<plain, curRevnum, crashes, flushingLogs, done>>
    BY <1>2 DEF FlushAll, FlushElem, disk, revs, ghosts
  <2>q. QED BY <2>1 DEF Sizes
<1>3. ASSUME TakeJob \/ Tar \/ Stop PROVE Sizes'
  <2>1. UNCHANGED <<plain, curRevnum, crashes, flushingLogs, done>>
    BY <1>3 DEF TakeJob, Tar, Stop, RemoveLogger, Close, StopEnd, disk, revs, ghosts
  <2>q. QED BY <2>1 DEF Sizes
<1>4. ASSUME NEW a \in Actors, TryLock(a) PROVE Sizes'
  <2>1. UNCHANGED <<plain, curRevnum, crashes>>
    BY <1>4 DEF TryLock, disk, revs, ghosts
  <2>2. CASE flushingLogs = None
    <3>1. done' = 0
      BY <1>4, <2>2 DEF TryLock
    <3>2. Len(plain[curRevnum]) <= MaxLogFileSize + Num * c + 0
      BY <1>a, <2>2
    <3>3. (IF flushingLogs' = None THEN 0 ELSE done') = 0
      BY <3>1
    <3>q. QED BY <1>c, <1>a, <2>1, <3>2, <3>3 DEF Sizes
  <2>3. CASE flushingLogs # None
    <3>1. UNCHANGED <<flushingLogs, done>>
      BY <1>4, <2>3 DEF TryLock
    <3>q. QED BY <2>1, <3>1 DEF Sizes
  <2>q. QED BY <2>2, <2>3
<1>5. ASSUME NEW a \in Actors, FlushSkip(a) PROVE Sizes'
  <2>1. UNCHANGED <<plain, curRevnum, crashes, flushingLogs>> /\ done' = done + 1 /\ pc[a] = "flush"
    BY <1>5 DEF FlushSkip, disk, revs, ghosts
  <2>2. flushingLogs # None
    BY <1>t, <2>1, Cast DEF Mutex, Flushing
  <2>3. Len(plain[curRevnum]) <= MaxLogFileSize + Num * c + (done + 1)
    BY <1>a, <1>n, <2>2, LoggerAssumption
  <2>q. QED BY <1>c, <1>a, <2>1, <2>2, <2>3 DEF Sizes
<1>6. ASSUME NEW a \in Actors, FlushElemEnd(a) PROVE Sizes'
  <2>1. UNCHANGED <<curRevnum, crashes, flushingLogs>> /\ done' = done + 1 /\ pc[a] = "flushing"
    BY <1>6 DEF FlushElemEnd, Step, revs, ghosts
  <2>2. flushingLogs # None
    BY <1>t, <2>1, Cast DEF Mutex, Flushing
  <2>3. /\ done < Num /\ DOMAIN plain' = DOMAIN plain
        /\ Len(plain'[curRevnum]) = Len(plain[curRevnum]) + 1
        /\ \A r \in DOMAIN plain \ {curRevnum} : plain'[r] = plain[r]
    BY <1>6, Appends
  <2>4. /\ Len(plain[curRevnum]) + 1 <= MaxLogFileSize + Num * c + (done + 1)
        /\ Len(plain[curRevnum]) + 1 <= MaxLogFileSize + Num * (c + 1)
    <3>1. Len(plain[curRevnum]) <= MaxLogFileSize + Num * c + done /\ Len(plain[curRevnum]) \in Nat
      BY <1>a, <1>n, <2>2
    <3>q. QED BY <1>n, <2>3, <3>1, LoggerAssumption
  <2>5. \A r \in DOMAIN plain' : Len(plain'[r]) <= MaxLogFileSize + Num * (c + 1)
    BY <1>a, <2>3, <2>4
  <2>q. QED BY <1>c, <2>1, <2>2, <2>3, <2>4, <2>5 DEF Sizes
<1>7. ASSUME NEW a \in Actors, FlushDone(a) PROVE Sizes'
  <2>1. crashes' = crashes /\ flushingLogs' = None
    BY <1>7 DEF FlushDone, ghosts
  <2>2. CASE Stays
    <3>1. Len(plain[curRevnum]) <= MaxLogFileSize + Num * c + 0
      BY <1>n, <2>2, LoggerAssumption DEF Stays
    <3>q. QED BY <1>c, <1>a, <2>1, <2>2, <3>1 DEF Sizes, Stays
  <2>3. CASE Opens
    <3>1. /\ curRevnum' = curRevnum + 1 /\ DOMAIN plain' = DOMAIN plain \cup {curRevnum + 1}
          /\ Len(plain'[curRevnum + 1]) = 0
          /\ \A r \in DOMAIN plain : plain'[r] = plain[r]
      BY <2>3 DEF Opens
    <3>2. 0 <= MaxLogFileSize + Num * c + 0 /\ 0 <= MaxLogFileSize + Num * (c + 1)
      BY <1>n, LoggerAssumption
    <3>3. \A r \in DOMAIN plain' : Len(plain'[r]) <= MaxLogFileSize + Num * (c + 1)
      BY <1>a, <3>1, <3>2
    <3>q. QED BY <1>c, <2>1, <3>1, <3>2, <3>3 DEF Sizes
  <2>q. QED BY <1>7, <2>2, <2>3, Rotates
<1>8. ASSUME Rm \/ Expire PROVE Sizes'
  <2>1. UNCHANGED <<curRevnum, crashes, flushingLogs, done>>
    BY <1>8 DEF Rm, Expire, revs, ghosts
  <2>2. /\ DOMAIN plain' \subseteq DOMAIN plain /\ plain'[curRevnum] = plain[curRevnum]
        /\ \A r \in DOMAIN plain' : plain'[r] = plain[r]
    <3>1. CASE Rm
      BY <1>n, <3>1, Deletes DEF Deleted
    <3>2. CASE Expire
      <4>1. PICK old : Expired(old)
        BY <3>2, Expires
      <4>2. comp.rev \in Nat /\ comp.rev < curRevnum /\ curRevnum \in Nat
        BY <3>2, JobFile DEF Expire
      <4>3. curRevnum \notin old
        BY <4>1, <4>2 DEF Expired
      <4>q. QED BY <1>n, <4>1, <4>3 DEF Expired
    <3>q. QED BY <1>8, <3>1, <3>2
  <2>q. QED BY <2>1, <2>2 DEF Sizes
<1>9. ASSUME Crash PROVE Sizes'
  <2>1. crashes' = crashes + 1 /\ flushingLogs' = None
    BY <1>9 DEF Crash
  <2>2. /\ curRevnum' = curRevnum /\ DOMAIN plain' = DOMAIN plain
        /\ FileOK(plain') /\ Len(plain'[curRevnum]) <= Len(plain[curRevnum])
        /\ \A i \in DOMAIN plain \ {curRevnum} : plain'[i] = plain[i]
    BY <1>9, Recovers DEF Recovered
  <2>3. Len(plain'[curRevnum]) \in Nat
    <3>1. PICK f : f = plain'[curRevnum]
      OBVIOUS
    <3>2. f \in Seq(Message)
      BY <1>n, <2>2, <3>1 DEF FileOK
    <3>3. Len(f) \in Nat
      BY <3>2, LenProperties
    <3>q. QED BY <3>1, <3>3
  <2>4. Len(plain[curRevnum]) <= MaxLogFileSize + Num * (c + 1) /\ Len(plain[curRevnum]) \in Nat
    BY <1>a, <1>n
  <2>5. /\ Len(plain'[curRevnum]) <= MaxLogFileSize + Num * (c + 1) + 0
    BY <1>n, <2>2, <2>3, <2>4, LoggerAssumption
  <2>6. ASSUME NEW r \in DOMAIN plain' PROVE Len(plain'[r]) <= MaxLogFileSize + Num * (c + 2)
    <3>1. Len(plain'[r]) \in Nat /\ Len(plain'[r]) <= MaxLogFileSize + Num * (c + 1)
      <4>1. CASE r = curRevnum
        BY <1>n, <2>3, <2>5, <4>1, LoggerAssumption
      <4>2. CASE r # curRevnum
        BY <1>n, <1>a, <2>2, <2>6, <4>2
      <4>q. QED BY <4>1, <4>2
    <3>q. QED BY <1>n, <3>1, LoggerAssumption
  <2>7. crashes' = c + 1 /\ crashes' + 1 = c + 2
    BY <1>c, <2>1
  <2>q. QED BY <2>1, <2>2, <2>5, <2>6, <2>7 DEF Sizes
<1>q. QED BY <1>1, <1>2, <1>3, <1>4, <1>5, <1>6, <1>7, <1>8, <1>9 DEF Next, Flush, Compress

-----------------------------------------------------------------------------
(* Retention.                                                              *)

\* findMinMaxRevNum finds no number below the one the dead process had.
LEMMA MinIsLeast ==
    ASSUME TypeOK, Retention
    PROVE  /\ MinRevNum >= minRevnum
           /\ \A r \in DOMAIN plain \cup DOMAIN tars : r >= MinRevNum
<1> DEFINE nums == DOMAIN plain \cup DOMAIN tars
<1>1. nums \subseteq Nat /\ nums # {} /\ \A r \in nums : r >= minRevnum
  BY DEF TypeOK, FileOK, Retention
<1>2. MinRevNum = IF nums = {} THEN 0 ELSE CHOOSE r \in nums : \A s \in nums : r <= s
  BY DEF MinRevNum
<1> HIDE DEF nums
<1>3. \E r \in nums : \A s \in nums : r <= s
  BY <1>1, Least
<1>4. MinRevNum \in nums /\ \A s \in nums : MinRevNum <= s
  BY <1>1, <1>2, <1>3
<1>5. MinRevNum >= minRevnum /\ \A r \in nums : r >= MinRevNum
  BY <1>1, <1>4
<1>q. QED BY <1>5 DEF nums

\* The numbers on disk, without the count of the archives.
Numbering ==
    /\ \A r \in minRevnum .. curRevnum : r \in DOMAIN plain \cup DOMAIN tars \cup unpacked
    /\ \A r \in DOMAIN plain \cup DOMAIN tars : r >= minRevnum
    /\ \A r \in DOMAIN tars, i \in 1 .. Len(pending) : r < pending[i]
    /\ comp # None => \A r \in DOMAIN tars : r <= comp.rev
Archived ==
    /\ IsFiniteSet(DOMAIN tars)
    /\ Cardinality(DOMAIN tars) <= MaxLogFiles + crashes + Extra

LEMMA RetentionAre == Retention <=> Numbering /\ Archived
BY DEF Retention, Numbering, Archived

LEMMA RetentionKept ==
    ASSUME TypeOK, Posts, Elements, Files, Retention, Next PROVE Retention'
<1>t. FileTypes /\ JobTypes /\ Numbers /\ Queue /\ Ahead /\ Numbering /\ Archived
  BY TypesAre, FilesAre, RetentionAre
<1>n. /\ curRevnum \in Nat /\ minRevnum \in Nat /\ DOMAIN plain \subseteq Nat
      /\ DOMAIN tars \subseteq Nat /\ crashes \in Nat /\ Extra \in {0, 1}
      /\ Len(pending) \in Nat /\ \A i \in 1 .. Len(pending) : pending[i] \in Nat
  <2>1. /\ curRevnum \in Nat /\ DOMAIN plain \subseteq Nat /\ DOMAIN tars \subseteq Nat
        /\ minRevnum \in Nat /\ crashes \in Nat
    BY <1>t DEF FileTypes, FileOK, JobTypes
  <2>2. pending \in Seq(Nat) /\ Extra \in {0, 1}
    BY <1>t DEF JobTypes, Extra
  <2>q. QED BY <2>1, <2>2, Queued
<1>c. Cardinality(DOMAIN tars) \in Nat
  BY <1>t, FS_CardinalityType DEF Archived
<1>r. ASSUME Numbering', Archived' PROVE Retention'
  BY <1>r DEF Retention, Numbering, Archived
<1>u. ASSUME UNCHANGED <<tars, curRevnum, minRevnum, pending, comp, crashes, unpacked>>,
             DOMAIN plain' = DOMAIN plain
      PROVE  Retention'
  BY <1>u DEF Retention, Extra
<1>1. ASSUME NEW t \in Putters, Put(t) PROVE Retention'
  <2>1. UNCHANGED <<plain, tars, curRevnum, minRevnum, pending, comp, crashes, unpacked>>
    BY <1>1 DEF Put, Claim, Available, NeedToFlush, Wait, Write, WriteFails, WriteEnd, disk,
       revs, jobs, ghosts
  <2>q. QED BY <1>u, <2>1
<1>2. ASSUME NEW a \in Actors, FlushAll(a) \/ TryLock(a) \/ FlushSkip(a) \/ FlushElem(a)
      PROVE  Retention'
  <2>1. UNCHANGED <<plain, tars, curRevnum, minRevnum, pending, comp, crashes, unpacked>>
    BY <1>2 DEF FlushAll, TryLock, FlushSkip, FlushElem, disk, revs, jobs, ghosts
  <2>q. QED BY <1>u, <2>1
<1>3. ASSUME Stop PROVE Retention'
  <2>1. UNCHANGED <<plain, tars, curRevnum, minRevnum, pending, comp, crashes, unpacked>>
    BY <1>3 DEF Stop, RemoveLogger, Close, StopEnd, disk, revs, jobs, ghosts
  <2>q. QED BY <1>u, <2>1
<1>4. ASSUME NEW a \in Actors, FlushElemEnd(a) PROVE Retention'
  <2>1. DOMAIN plain' = DOMAIN plain
    BY <1>4, Appends
  <2>2. UNCHANGED <<tars, curRevnum, minRevnum, pending, comp, crashes, unpacked>>
    BY <1>4 DEF FlushElemEnd, revs, jobs, ghosts
  <2>q. QED BY <1>u, <2>1, <2>2
<1>5. ASSUME NEW a \in Actors, FlushDone(a) PROVE Retention'
  <2>1. UNCHANGED <<tars, comp, minRevnum, crashes, unpacked>>
    BY <1>5 DEF FlushDone, ghosts
  <2>2. CASE Stays
    BY <1>u, <2>1, <2>2 DEF Stays
  <2>3. CASE Opens
    <3>1. /\ curRevnum' = curRevnum + 1 /\ DOMAIN plain' = DOMAIN plain \cup {curRevnum + 1}
      BY <2>3 DEF Opens
    <3>2. PICK q, n : q = pending' /\ n = Len(pending)
      OBVIOUS
    <3>3. /\ n \in Nat /\ Len(q) = n + 1
          /\ \A i \in 1 .. n : q[i] = pending[i]
          /\ q[n + 1] = curRevnum
      <4>1. pending \in Seq(Nat) /\ q = Append(pending, curRevnum)
        BY <1>t, <2>3, <3>2 DEF Opens, JobTypes
      <4>q. QED BY <1>n, <3>2, <4>1, Queued
    <3>4. curRevnum \in DOMAIN plain /\ curRevnum >= minRevnum
      BY <1>t DEF FileTypes, Numbering
    <3>5. ASSUME NEW r \in minRevnum .. curRevnum + 1
          PROVE  r \in DOMAIN plain \cup {curRevnum + 1} \cup DOMAIN tars \cup unpacked
      <4>1. CASE r = curRevnum + 1
        BY <4>1
      <4>2. CASE r # curRevnum + 1
        <5>1. r \in minRevnum .. curRevnum
          BY <1>n, <4>2
        <5>q. QED BY <1>t, <5>1 DEF Numbering
      <4>q. QED BY <4>1, <4>2
    <3>6. ASSUME NEW r \in DOMAIN plain \cup {curRevnum + 1} \cup DOMAIN tars PROVE r >= minRevnum
      BY <1>t, <1>n, <3>4 DEF Numbering
    <3>7. ASSUME NEW r \in DOMAIN tars, NEW i \in 1 .. n + 1 PROVE r < q[i]
      <4>1. CASE i = n + 1
        BY <1>t, <3>3, <4>1 DEF Numbers
      <4>2. CASE i # n + 1
        <5>1. i \in 1 .. n
          BY <3>3, <4>2
        <5>q. QED BY <1>t, <3>2, <3>3, <5>1 DEF Numbering
      <4>q. QED BY <4>1, <4>2
    <3>8. Numbering'
      <4>1. comp' # None => \A r \in DOMAIN tars' : r <= comp'.rev
        BY <1>t, <2>1 DEF Numbering
      <4>2. \A r \in DOMAIN tars', i \in 1 .. Len(pending') : r < pending'[i]
        BY <2>1, <3>2, <3>3, <3>7
      <4>3. /\ \A r \in minRevnum' .. curRevnum' : r \in DOMAIN plain' \cup DOMAIN tars' \cup unpacked'
            /\ \A r \in DOMAIN plain' \cup DOMAIN tars' : r >= minRevnum'
        BY <2>1, <3>1, <3>5, <3>6
      <4>q. QED BY <4>1, <4>2, <4>3 DEF Numbering
    <3>9. Archived'
      BY <1>t, <2>1 DEF Archived, Extra
    <3>q. QED BY <1>r, <3>8, <3>9
  <2>q. QED BY <1>5, <2>2, <2>3, Rotates
<1>6. ASSUME TakeJob PROVE Retention'
  <2>1. /\ comp = None /\ pending # <<>> /\ pending \in Seq(Nat)
        /\ comp' = [rev |-> Head(pending), at |-> "tar"] /\ pending' = Tail(pending)
        /\ UNCHANGED <<plain, tars, curRevnum, minRevnum, crashes, unpacked>>
    BY <1>t, <1>6 DEF TakeJob, JobTypes, disk, revs, ghosts
  <2>2. PICK q, n, h : q = pending' /\ n = Len(pending) /\ h = Head(pending)
    OBVIOUS
  <2>3. /\ n \in Nat /\ n > 0 /\ Len(q) = n - 1 /\ h = pending[1] /\ h \in Nat
        /\ \A i \in 1 .. n - 1 : q[i] = pending[i + 1]
    BY <2>1, <2>2, Taken
  <2>4. 1 \in 1 .. n /\ \A i \in 1 .. n - 1 : i + 1 \in 1 .. n
    BY <2>3
  <2>5. comp'.rev = h /\ comp'.at = "tar"
    BY <2>1, <2>2
  <2>6. \A r \in DOMAIN tars : r <= h /\ \A i \in 1 .. n - 1 : r < q[i]
    BY <1>t, <1>n, <2>2, <2>3, <2>4 DEF Numbering
  <2>7. Numbering'
    <3>1. \A r \in DOMAIN tars', i \in 1 .. Len(pending') : r < pending'[i]
      BY <2>1, <2>2, <2>3, <2>6
    <3>q. QED BY <1>t, <2>1, <2>5, <2>6, <3>1 DEF Numbering
  <2>8. Archived'
    <3>1. Extra = 0 /\ Extra' = 0
      BY <2>1, <2>5 DEF Extra
    <3>q. QED BY <1>t, <2>1, <3>1 DEF Archived
  <2>q. QED BY <1>r, <2>7, <2>8
<1>7. ASSUME Tar PROVE Retention'
  <2>1. comp # None /\ Tarred(comp.rev) /\ comp' = [rev |-> comp.rev, at |-> "rm"]
    BY <1>7, Archives
  <2>2. UNCHANGED <<plain, curRevnum, minRevnum, pending, crashes>> /\ comp.at = "tar"
    BY <1>7 DEF Tar, revs, ghosts
  <2>3. comp' # None /\ comp'.rev = comp.rev /\ comp'.at = "rm" /\ comp.rev \in Nat
    BY <2>1, Cast, JobFile DEF Job
  <2>4. /\ comp.rev \in DOMAIN plain /\ comp.rev \notin DOMAIN tars
        /\ DOMAIN tars' = DOMAIN tars \/ DOMAIN tars' = DOMAIN tars \cup {comp.rev}
        /\ unpacked \subseteq unpacked'
    BY <2>1 DEF Tarred
  <2>5. \A i \in 1 .. Len(pending) : comp.rev < pending[i]
    BY <1>t, <2>1 DEF Ahead
  <2>6. Numbering'
    <3>1. /\ \A r \in minRevnum .. curRevnum : r \in DOMAIN plain \cup DOMAIN tars' \cup unpacked'
          /\ \A r \in DOMAIN plain \cup DOMAIN tars' : r >= minRevnum
      BY <1>t, <2>4 DEF Numbering
    <3>2. \A r \in DOMAIN tars', i \in 1 .. Len(pending) : r < pending[i]
      BY <1>t, <2>4, <2>5 DEF Numbering
    <3>3. \A r \in DOMAIN tars' : r <= comp.rev
      BY <1>t, <2>1, <2>3, <2>4 DEF Numbering
    <3>q. QED BY <2>2, <2>3, <3>1, <3>2, <3>3 DEF Numbering
  <2>7. Archived'
    <3>1. /\ IsFiniteSet(DOMAIN tars \cup {comp.rev})
          /\ Cardinality(DOMAIN tars \cup {comp.rev}) = Cardinality(DOMAIN tars) + 1
      BY <1>t, <2>4, FS_AddElement DEF Archived
    <3>2. Extra = 0 /\ Extra' = 1
      BY <2>1, <2>2, <2>3 DEF Extra
    <3>3. Cardinality(DOMAIN tars) <= MaxLogFiles + crashes + 0
      BY <1>t, <3>2 DEF Archived
    <3>4. /\ Cardinality(DOMAIN tars) + 1 <= MaxLogFiles + crashes + 1
          /\ Cardinality(DOMAIN tars) <= MaxLogFiles + crashes + 1
      BY <1>c, <1>n, <3>3, LoggerAssumption
    <3>q. QED BY <1>t, <2>2, <2>4, <3>1, <3>2, <3>4 DEF Archived
  <2>q. QED BY <1>r, <2>6, <2>7
<1>8. ASSUME Rm PROVE Retention'
  <2>1. comp # None /\ Deleted(comp.rev) /\ comp' = [rev |-> comp.rev, at |-> "expire"]
    BY <1>8, Deletes
  <2>2. UNCHANGED <<tars, curRevnum, minRevnum, pending, crashes, unpacked>> /\ comp.at = "rm"
    BY <1>8 DEF Rm, revs, ghosts
  <2>3. comp' # None /\ comp'.rev = comp.rev /\ comp'.at = "expire"
    BY <2>1, Cast, JobFile DEF Job
  <2>4. /\ DOMAIN plain' = DOMAIN plain \ {comp.rev}
        /\ comp.rev \in DOMAIN tars \cup unpacked
    BY <1>t, <2>1, <2>2 DEF Deleted, Ahead
  <2>5. Numbering'
    BY <1>t, <2>1, <2>2, <2>3, <2>4 DEF Numbering
  <2>6. Archived'
    <3>1. Extra = 1 /\ Extra' = 1
      BY <2>1, <2>2, <2>3 DEF Extra
    <3>q. QED BY <1>t, <2>2, <3>1 DEF Archived
  <2>q. QED BY <1>r, <2>5, <2>6
<1>9. ASSUME Expire PROVE Retention'
  <2>1. /\ comp # None /\ comp' = None /\ UNCHANGED <<curRevnum, pending, crashes, unpacked>>
        /\ comp.rev \in Nat /\ comp.rev < curRevnum
    BY <1>9, JobFile DEF Expire
  <2>i. minRevnum \in Nat /\ comp.rev - MaxLogFiles \in Int
    BY <1>n, <2>1, LoggerAssumption
  <2>2. PICK lo \in Nat, hi \in Int : lo = minRevnum /\ hi = comp.rev - MaxLogFiles
    BY <2>i
  <2>3. /\ DOMAIN plain' = DOMAIN plain \ (lo .. hi) /\ DOMAIN tars' = DOMAIN tars \ (lo .. hi)
        /\ minRevnum' = IF lo .. hi = {} THEN lo ELSE hi + 1
    <3>1. /\ plain' = Without(plain, lo .. hi) /\ tars' = Without(tars, lo .. hi)
          /\ minRevnum' = IF lo .. hi = {} THEN lo ELSE comp.rev - MaxLogFiles + 1
      BY <1>9, <2>2 DEF Expire
    <3>q. QED BY <2>2, <3>1 DEF Without
  <2>4. (lo > hi /\ minRevnum' = lo) \/ (lo <= hi /\ minRevnum' = hi + 1)
    <3>1. CASE lo > hi
      BY <2>3, <3>1
    <3>2. CASE lo <= hi
      <4>1. lo \in lo .. hi
        BY <3>2
      <4>q. QED BY <2>3, <3>2, <4>1
    <3>q. QED BY <3>1, <3>2
  <2>5. Numbering'
    <3>1. ASSUME NEW r \in minRevnum' .. curRevnum
          PROVE  r \in DOMAIN plain' \cup DOMAIN tars' \cup unpacked
      <4>1. r \in lo .. curRevnum /\ r \notin lo .. hi
        BY <1>n, <2>4
      <4>q. QED BY <1>t, <2>2, <2>3, <4>1 DEF Numbering
    <3>2. ASSUME NEW r \in DOMAIN plain' \cup DOMAIN tars' PROVE r >= minRevnum'
      <4>1. r \in Nat /\ r >= lo /\ r \notin lo .. hi
        BY <1>t, <1>n, <2>2, <2>3 DEF Numbering
      <4>q. QED BY <2>4, <4>1
    <3>q. QED BY <1>t, <2>1, <2>3, <3>1, <3>2 DEF Numbering
  <2>6. Archived'
    <3>1. ASSUME NEW r \in DOMAIN tars' PROVE r \in hi + 1 .. comp.rev
      <4>1. r \in Nat /\ r >= lo /\ r \notin lo .. hi /\ r <= comp.rev
        BY <1>t, <1>n, <2>1, <2>2, <2>3 DEF Numbering
      <4>q. QED BY <2>1, <4>1
    <3>2. IsFiniteSet(hi + 1 .. comp.rev) /\ Cardinality(hi + 1 .. comp.rev) = MaxLogFiles
      <4>1. hi + 1 \in Int /\ comp.rev \in Int /\ hi + 1 <= comp.rev
            /\ comp.rev - (hi + 1) + 1 = MaxLogFiles
        BY <2>1, <2>2, LoggerAssumption
      <4>2. PICK u \in Int, v \in Int : u = hi + 1 /\ v = comp.rev
        BY <4>1
      <4>3. IsFiniteSet(u .. v) /\ Cardinality(u .. v) = v - u + 1
        BY <4>1, <4>2, FS_Interval
      <4>q. QED BY <4>1, <4>2, <4>3
    <3>3. DOMAIN tars' \in SUBSET (hi + 1 .. comp.rev)
      BY <3>1
    <3>4. PICK S, T : S = hi + 1 .. comp.rev /\ T = DOMAIN tars'
      OBVIOUS
    <3>5. IsFiniteSet(S) /\ Cardinality(S) = MaxLogFiles /\ T \in SUBSET S
      BY <3>2, <3>3, <3>4
    <3>6. IsFiniteSet(T) /\ Cardinality(T) <= MaxLogFiles /\ Cardinality(T) \in Nat
      BY <3>5, FS_Subset, FS_CardinalityType
    <3>7. Cardinality(T) <= MaxLogFiles + crashes + 0
      BY <1>n, <3>6, LoggerAssumption
    <3>8. Extra' = 0
      BY <2>1 DEF Extra
    <3>q. QED BY <2>1, <3>4, <3>6, <3>7, <3>8 DEF Archived
  <2>q. QED BY <1>r, <2>5, <2>6
<1>10. ASSUME Crash PROVE Retention'
  <2>1. /\ pending' = <<>> /\ comp' = None /\ tars' = tars /\ crashes' = crashes + 1
        /\ minRevnum' = MinRevNum /\ unpacked' = unpacked
    BY <1>10 DEF Crash
  <2>2. curRevnum' = curRevnum /\ DOMAIN plain' = DOMAIN plain
    BY <1>10, Recovers DEF Recovered
  <2>3. /\ MinRevNum >= minRevnum /\ MinRevNum \in Nat
        /\ \A r \in DOMAIN plain \cup DOMAIN tars : r >= MinRevNum
    BY MinIsLeast, MinIsNumber
  <2>4. Len(pending') = 0
    BY <2>1
  <2>5. \A r \in MinRevNum .. curRevnum : r \in DOMAIN plain \cup DOMAIN tars \cup unpacked
    <3>1. \A r \in MinRevNum .. curRevnum : r \in minRevnum .. curRevnum
      BY <1>n, <2>3
    <3>q. QED BY <1>t, <3>1 DEF Numbering
  <2>6. Numbering'
    BY <2>1, <2>2, <2>3, <2>4, <2>5 DEF Numbering
  <2>7. Archived'
    <3>1. Extra' = 0
      BY <2>1 DEF Extra
    <3>2. Cardinality(DOMAIN tars) <= MaxLogFiles + (crashes + 1) + 0
      <4>1. Cardinality(DOMAIN tars) <= MaxLogFiles + crashes + Extra
        BY <1>t DEF Archived
      <4>q. QED BY <1>c, <1>n, <4>1, LoggerAssumption
    <3>q. QED BY <1>t, <2>1, <3>1, <3>2 DEF Archived
  <2>q. QED BY <1>r, <2>6, <2>7
<1>q. QED
  BY <1>1, <1>2, <1>3, <1>4, <1>5, <1>6, <1>7, <1>8, <1>9, <1>10 DEF Next, Flush, Compress

-----------------------------------------------------------------------------
(* The invariant and what it says.                                         *)

LEMMA LoggerStart == Init => LoggerInv
<1> SUFFICES ASSUME Init PROVE LoggerInv
  OBVIOUS
<1>p. /\ DOMAIN plain = {0} /\ plain[0] = <<>> /\ DOMAIN tars = {} /\ Len(plain[0]) = 0
      /\ DOMAIN plain[0] = {} /\ curRevnum = 0 /\ minRevnum = 0 /\ synced = 0
      /\ pending = <<>> /\ Len(pending) = 0 /\ comp = None /\ numCompJobs = 0
      /\ sent = 0 /\ crashes = 0
  BY DEF Init
<1>1. TypeOK
  <2>1. RingTypes
    BY SlotZero DEF Init, RingTypes, Statuses
  <2>2. ThreadTypes
    BY SlotZero, LoggerAssumption DEF Init, ThreadTypes, PCs, Stages
  <2>3. FileOK(plain) /\ FileOK(tars)
    <3>1. PICK e \in Seq(Message) : e = <<>>
      BY EmptySeq
    <3>2. plain[0] = e
      BY <1>p, <3>1
    <3>q. QED BY <1>p, <3>2 DEF FileOK
  <2>4. FileTypes
    BY <1>p, <2>3 DEF FileTypes
  <2>5. JobTypes
    BY <1>p, EmptySeq DEF JobTypes
  <2>q. QED BY <2>1, <2>2, <2>4, <2>5, TypesAre
<1>2. Posts
  BY Cast DEF Init, Posts, Flushing, Putting
<1>3. Elements
  BY Cast DEF Init, Elements
<1>4. Draining
  BY Cast DEF Init, Draining, Flushing
<1>5. Files
  BY <1>p DEF Files
<1>6. Places /\ Kept
  <2>1. (\A m : ~Written(plain, m)) /\ \A m : ~Written(tars, m)
    BY <1>p DEF Written
  <2>2. (\A s \in Slots : ~Ready(s)) /\ \A t \in Putters : msg[t] = None
    BY DEF Init, Ready
  <2>3. Known /\ Apart /\ Unique(plain)
    BY <1>p, <2>1, <2>2 DEF Known, Apart, Unique
  <2>4. Kept
    BY <1>p DEF Kept
  <2>q. QED BY <2>3, <2>4, PlacesAre
<1>7. Sizes
  <2>1. 0 <= MaxLogFileSize + Num * (0 + 1) /\ 0 <= MaxLogFileSize + Num * 0 + 0 /\ flushingLogs = None
    BY LoggerAssumption DEF Init
  <2>q. QED BY <1>p, <2>1 DEF Sizes
<1>8. Retention
  <2>1. IsFiniteSet(DOMAIN tars) /\ Cardinality(DOMAIN tars) = 0
    BY <1>p, FS_EmptySet
  <2>2. Extra = 0 /\ 0 <= MaxLogFiles + 0 + 0
    BY <1>p, LoggerAssumption DEF Extra
  <2>q. QED BY <1>p, <2>1, <2>2 DEF Retention
<1>q. QED BY <1>1, <1>2, <1>3, <1>4, <1>5, <1>6, <1>7, <1>8 DEF LoggerInv

LEMMA LoggerStep == LoggerInv /\ [Next]_vars => LoggerInv'
<1> SUFFICES ASSUME LoggerInv, [Next]_vars PROVE LoggerInv'
  OBVIOUS
<1>i. /\ TypeOK /\ Posts /\ Elements /\ Draining /\ Files /\ Places /\ Kept /\ Sizes
      /\ Retention
  BY DEF LoggerInv
<1>1. CASE Next
  <2>1. RingTypes' /\ ThreadTypes' /\ FileTypes' /\ JobTypes'
    BY <1>i, <1>1, RingTyped, ThreadTyped, FileTyped, JobTyped
  <2>2. TypeOK'
    BY <2>1 DEF TypeOK, RingTypes, ThreadTypes, FileTypes, JobTypes
  <2>3. Mutex' /\ Manned'
    BY <1>i, <1>1, MutexKept, MannedKept
  <2>4. Posts'
    BY <2>3 DEF Posts, Mutex, Manned
  <2>5. Elements' /\ Draining' /\ Files'
    BY <1>i, <1>1, ElementsKept, DrainingKept, FilesKept
  <2>6. Places' /\ Kept' /\ Sizes' /\ Retention'
    BY <1>i, <1>1, PlacesKept, KeptKept, SizesKept, RetentionKept
  <2>q. QED BY <2>2, <2>4, <2>5, <2>6 DEF LoggerInv
<1>2. CASE UNCHANGED vars
  <2>1. TypeOK' /\ Posts'
    BY <1>i, <1>2 DEF vars, TypeOK, Posts
  <2>2. Elements' /\ Draining'
    BY <1>i, <1>2 DEF vars, Elements, Draining, At
  <2>3. Files' /\ Sizes' /\ Retention'
    BY <1>i, <1>2 DEF vars, Files, Sizes, Retention, Extra
  <2>4. Places' /\ Kept'
    BY <1>i, <1>2 DEF vars, Places, Kept, Ready
  <2>q. QED BY <2>1, <2>2, <2>3, <2>4 DEF LoggerInv
<1>q. QED BY <1>1, <1>2

LEMMA LoggerAlways == Spec => []LoggerInv
BY LoggerStart, LoggerStep, PTL DEF Spec

\* put(), flush() and the compressor lose no message: what is neither with a thread
\* nor in the ring nor on disk was given up by LogElem::write, deleted by retention,
\* lost in a crash, or removed although its tar had failed.
THEOREM MessagesConserved == Spec => []Conserved
<1>1. ASSUME LoggerInv PROVE Conserved
  <2>1. TypeOK /\ Kept
    BY <1>1 DEF LoggerInv
  <2>2. ASSUME NEW m \in 1 .. sent
        PROVE  m \in InHand \cup InRing \cup Stored \cup lost \cup left
    <3>1. m # None
      BY <2>1, Cast DEF TypeOK
    <3>2. CASE \E t \in Putters : msg[t] = m
      BY <3>1, <3>2 DEF InHand
    <3>3. CASE \E s \in Slots : Ready(s) /\ ctx[s] = m
      BY <3>3 DEF InRing, Ready
    <3>4. CASE Written(plain, m) \/ Written(tars, m)
      <4>1. /\ m \in Contents(plain) <=> Written(plain, m)
            /\ m \in Contents(tars) <=> Written(tars, m)
        BY ContentsAre
      <4>q. QED BY <3>4, <4>1 DEF Stored
    <3>5. CASE m \in lost \/ m \in left
      BY <3>5
    <3>q. QED BY <2>1, <3>2, <3>3, <3>4, <3>5 DEF Kept
  <2>q. QED BY <2>1, <2>2 DEF Conserved
<1>q. QED BY <1>1, LoggerAlways, PTL

\* No message is twice in the log files, and none is in a file while the ring still
\* has it, whoever flushes.
THEOREM NothingTwice == Spec => []NoDuplicates
<1>1. ASSUME LoggerInv PROVE NoDuplicates
  <2>1. TypeOK /\ Places
    BY <1>1 DEF LoggerInv
  <2>2. Apart /\ Unique(plain)
    BY <2>1, PlacesAre
  <2>3. ASSUME NEW m \in InRing, m \in Stored PROVE FALSE
    <3>1. PICK s \in Slots : Ready(s) /\ ctx[s] = m
      BY <2>3 DEF InRing, Ready
    <3>2. ~Written(plain, m) /\ ~Written(tars, m)
      BY <2>2, <3>1 DEF Apart
    <3>3. /\ m \in Contents(plain) <=> Written(plain, m)
          /\ m \in Contents(tars) <=> Written(tars, m)
      BY ContentsAre
    <3>q. QED BY <2>3, <3>2, <3>3 DEF Stored
  <2>q. QED BY <2>2, <2>3 DEF NoDuplicates, Unique
<1>q. QED BY <1>1, LoggerAlways, PTL

\* The check of the size at the end of flush() bounds every log file, by one ring
\* and one more for every crash.
THEOREM FilesBounded == Spec => []FileBounded
<1>1. LoggerInv => FileBounded
  BY DEF LoggerInv, Sizes, FileBounded
<1>q. QED BY <1>1, LoggerAlways, PTL

\* doCompression never has the file that flush() writes to, and its archive is new.
THEOREM CompressorKeepsAway == Spec => []ArchiveSafe
<1>1. ASSUME LoggerInv PROVE ArchiveSafe
  <2>1. TypeOK /\ Files
    BY <1>1 DEF LoggerInv
  <2>2. pending \in Seq(Nat) /\ curRevnum \in Nat
    BY <2>1 DEF TypeOK, FileOK
  <2>3. DOMAIN pending = 1 .. Len(pending)
    BY <2>2, LenProperties
  <2>4. \A i \in DOMAIN pending : pending[i] < curRevnum
    BY <2>1, <2>3 DEF Files
  <2>5. comp # None => comp.rev < curRevnum
    BY <2>1 DEF Files
  <2>6. curRevnum \notin DOMAIN tars
    BY <2>1, <2>2 DEF Files
  <2>q. QED BY <2>4, <2>5, <2>6 DEF ArchiveSafe
<1>q. QED BY <1>1, LoggerAlways, PTL

\* Retention deletes the oldest numbers only (a failed tar leaves a gap), and keeps the archives within
\* maxLogFiles, but for the newest one and one for every crash.
THEOREM RetentionSound == Spec => []NoGap
<1>1. ASSUME LoggerInv PROVE NoGap
  <2>1. TypeOK /\ Retention
    BY <1>1 DEF LoggerInv
  <2>2. /\ Cardinality(DOMAIN tars) <= MaxLogFiles + crashes + Extra /\ crashes \in Nat
        /\ Cardinality(DOMAIN tars) \in Nat /\ Extra \in {0, 1}
    <3>1. IsFiniteSet(DOMAIN tars) /\ Cardinality(DOMAIN tars) <= MaxLogFiles + crashes + Extra
      BY <2>1 DEF Retention
    <3>2. Cardinality(DOMAIN tars) \in Nat
      BY <3>1, FS_CardinalityType
    <3>3. crashes \in Nat
      BY <2>1 DEF TypeOK
    <3>4. Extra \in {0, 1}
      BY DEF Extra
    <3>q. QED BY <3>1, <3>2, <3>3, <3>4
  <2>3. Cardinality(DOMAIN tars) <= MaxLogFiles + 1 + crashes
    BY <2>2, LoggerAssumption
  <2>q. QED BY <2>1, <2>3 DEF NoGap, Retention
<1>q. QED BY <1>1, LoggerAlways, PTL

\* When stop() returns, its flush has emptied the ring and the compressor has done
\* every job.
THEOREM StopLeavesNothing == Spec => []StopComplete
<1>1. ASSUME LoggerInv, stage = "stopped" PROVE InRing = {} /\ pending = <<>> /\ comp = None
  <2>1. TypeOK /\ Draining /\ Files
    BY <1>1 DEF LoggerInv
  <2>2. InRing = {}
    BY <1>1, <2>1 DEF Draining, InRing
  <2>3. numCompJobs = 0 /\ pending \in Seq(Nat)
    BY <1>1, <2>1 DEF Draining, TypeOK
  <2>4. Len(pending) \in Nat
    BY <2>3, LenProperties
  <2>5. Len(pending) = 0 /\ comp = None
    BY <2>1, <2>3, <2>4 DEF Files
  <2>6. pending = <<>>
    BY <2>3, <2>5, EmptySeq
  <2>q. QED BY <2>2, <2>5, <2>6
<1>q. QED BY <1>1, LoggerAlways, PTL DEF StopComplete
=============================================================================
