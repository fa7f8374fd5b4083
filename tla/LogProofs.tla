----------------------------- MODULE LogProofs -----------------------------
(***************************************************************************)
(* Proofs about LogTail and LogStream, for any number of tails, files,     *)
(* changes of files and stops of tails: what a tail hands over, when it    *)
(* ends, when it sleeps on a line, that the tracker never hangs, what the  *)
(* client of TailFile receives, and what the logs of an ended job hold.    *)
(***************************************************************************)
EXTENDS LogStream, FiniteSetTheorems, SequenceTheorems, TLAPS

Inode == [size : Nat, link : BOOLEAN]

EventOps == {"Write", "Create", "Chmod", "Remove", "Rename"}
Event == [f : Files, op : EventOps]

Change == [Modified : BOOLEAN, Truncated : BOOLEAN, Deleted : BOOLEAN]
Line == [ino : Nat, from : Nat]

Waiting == {"stat", "blocked", "unwatchCreate", "removeCreate"}
Opened == {"read", "send", "watch", "select"}

Pcs == {"none", "reopen", "watchCreate", "close", "done"} \cup Waiting \cup Opened

Goroutine ==
  [pc : Pcs,
   fd : Nat, pos : Nat, buf : Nat, watching : BOOLEAN, changes : Change, ch : Nat,
   next : {"none", "reopen", "close"}, dying : BOOLEAN, lines : Seq(Line)]

Watcher ==
  [pc : {"none", "events", "receive", "stat", "unwatch", "remove"},
   ch : Nat, size : Nat, next : {"none", "deleted", "exit"}]

Sending == [f : Files \cup {"none"}, op : EventOps \cup {"none"}, ch : Nat, done : Nat]

LibraryTypes ==
  /\ path \in [Tails -> Files] /\ inodes \in [Files -> Seq(Inode)]
  /\ cur \in [Files -> Nat] /\ kwatch \in [Files -> Nat] /\ events \in Seq(Event)
  /\ chans \in [Files -> Nat] /\ done \in [Files -> Nat]
  /\ watchNums \in [Files -> Int] /\ dirNums \in Int /\ run \in Sending
  /\ tl \in [Tails -> Goroutine] /\ wg \in [Tails -> Watcher]
  /\ missed \subseteq Tails /\ failed \subseteq Files /\ replaced \subseteq Files

\* A name denotes one of its inodes, a tail has one of them open.
InodeBounds ==
  /\ \A f \in Files : cur[f] <= Len(inodes[f]) /\ Len(inodes[f]) <= MaxInodes
                      /\ kwatch[f] <= MaxInodes
  /\ \A t \in Tails : /\ tl[t].fd <= Len(inodes[path[t]])
                      /\ tl[t].pc \in Opened => tl[t].fd # 0

Elements(q) == {q[i] : i \in DOMAIN q}

OpenSize(t) == inodes[path[t]][tl[t].fd].size

\* Nobody else follows the file of t.
Sole(t) == \A u \in Followers(path[t]) \ {t} : tl[u].pc = "none"

\* A tail that waits for its first line.
Early == {"none", "reopen", "watchCreate"} \cup Waiting

\* The goroutine of ChangeEvents belongs to a tail that knows it.
Shape(t) ==
  /\ wg[t].pc # "none" => tl[t].watching
  /\ tl[t].pc = "watch" => ~tl[t].watching
  /\ tl[t].pc = "select" => tl[t].watching
  /\ tl[t].changes.Deleted => wg[t].pc = "none"
  /\ tl[t].pc \in {"unwatchCreate", "removeCreate"} => tl[t].next \in {"reopen", "close"}
  /\ tl[t].pc = "none" => wg[t].pc = "none"
  /\ wg[t].pc = "stat" => wg[t].ch # 0

Shapes == \A t \in Tails : Shape(t)

\* The counters of the tracker count the tails that hold a watch.
Watchers(f) == {t \in Followers(f) : wg[t].pc # "none"}
Waiters == {t \in Tails : tl[t].pc \in Waiting}

Counts ==
  /\ \A f \in Files : watchNums[f] = Cardinality(Watchers(f))
  /\ dirNums = Cardinality(Waiters)

\* While run sends an event, the map holds the channel it sends on.
Busy ==
  run # Idle => run.f \in Files /\ run.ch # 0 /\ run.ch = chans[run.f] /\ run.done # 0

\* Open channels have somebody who attends to them.
Attended ==
  \A f \in Files : done[f] # 0 /\ chans[f] # 0 =>
                      f \in failed \/ \E t \in Followers(f) : Attends(t)

\* A file that was never replaced has at most one inode, and events that
\* say no more than that it grows.
KeptFile(f) ==
  /\ cur[f] = Len(inodes[f]) /\ cur[f] <= 1
  /\ \A k \in 1 .. Len(inodes[f]) : inodes[f][k].link
  /\ \A e \in Elements(events) : e.f = f => e.op \in {"Write", "Create"}
  /\ run.f = f => run.op \in {"Write", "Create", "none"}
  /\ watchNums[f] > 0 => cur[f] # 0

\* A tail of such a file never starts over.
KeptTail(t) ==
  /\ ~tl[t].changes.Deleted /\ ~tl[t].changes.Truncated /\ wg[t].next # "deleted"
  /\ wg[t].pc # "none" => cur[path[t]] = 1 /\ wg[t].size <= inodes[path[t]][1].size
  /\ tl[t].fd # 0 => /\ tl[t].fd = 1 /\ cur[path[t]] = 1
                     /\ tl[t].pos <= tl[t].buf /\ tl[t].buf <= inodes[path[t]][1].size
  /\ tl[t].pc = "send" => EndOfLine(t) <= tl[t].buf
  /\ tl[t].pc \in Early => tl[t].lines = <<>> /\ ~tl[t].watching

\* What it has handed over so far.
ReadSoFar(t) ==
  /\ tl[t].pos = LineLen * Len(tl[t].lines)
  /\ \A i \in DOMAIN tl[t].lines : tl[t].lines[i] = [ino |-> 1, from |-> LineLen * (i - 1)]

KeptFiles == \A f \in Files \ replaced : KeptFile(f)
KeptTails == \A t \in Tails : path[t] \notin replaced => KeptTail(t) /\ ReadSoFar(t)

\* A tail that is alone with its file ends only when it is stopped ...
Alone(t) == path[t] \notin replaced /\ Sole(t)

Ending(t) ==
  \/ tl[t].pc \in {"close", "done"}
  \/ tl[t].pc \in {"unwatchCreate", "removeCreate"} /\ tl[t].next = "close"

EndsAlone(t) ==
  /\ Ending(t) => tl[t].dying
  /\ tl[t].pc = "blocked" => tl[t].ch = chans[path[t]]

\* ... and until then its watch is in place ...
Watched(t) ==
  /\ wg[t].pc \in {"events", "receive", "stat"}
  /\ wg[t].pc # "events" => wg[t].ch = chans[path[t]]
  /\ chans[path[t]] # 0 /\ done[path[t]] # 0 /\ kwatch[path[t]] = 1
  /\ run # Idle /\ run.f = path[t] => run.done = done[path[t]]

\* ... and a line it has not read is on its way to it.
Told(t) ==
  \/ tl[t].changes.Modified
  \/ wg[t].pc = "stat"
  \/ [f |-> path[t], op |-> "Write"] \in Elements(events)
  \/ run.f = path[t] /\ run.op = "Write"

LineWaits(t) == t \notin missed /\ tl[t].pc \in {"watch", "select"} /\ EndOfLine(t) <= OpenSize(t)

ToldAlone(t) ==
  ~tl[t].dying => /\ tl[t].watching => Watched(t)
                  /\ LineWaits(t) => tl[t].pc = "select" /\ Told(t)

AloneTails == \A t \in Tails : Alone(t) => EndsAlone(t) /\ ToldAlone(t)

-----------------------------------------------------------------------------
(* What a step of the library is, in both specifications: the changes of    *)
(* files, the goroutines, and the start and the stop of a tail.             *)
Start(t) ==
  /\ tl[t].pc = "none" /\ tl' = [tl EXCEPT ![t] = NewTail]
  /\ UNCHANGED <<fileVars, kernelVars, trackerVars, run, wg, missed>>

Kill(t) ==
  /\ tl' = Killed(t)
  /\ UNCHANGED <<fileVars, kernelVars, trackerVars, run, wg, missed>>

Step ==
  \/ \E f \in Files : FileStep(f)
  \/ RunStep
  \/ \E t \in Tails : WatchStep(t) \/ TailStep(t) \/ SendLine(t) \/ Start(t) \/ Kill(t)
  \/ UNCHANGED tailVars

-----------------------------------------------------------------------------
(* Sets, sequences and records.                                             *)

LEMMA UnusedIsNew ==
  ASSUME NEW S, IsFiniteSet(S) PROVE Unused(S) \in Nat \ {0} /\ Unused(S) \notin S
<1>1. Cardinality(S) \in Nat
  BY FS_CardinalityType
<1>2. IsFiniteSet(1 .. (Cardinality(S) + 1))
      /\ Cardinality(1 .. (Cardinality(S) + 1)) = Cardinality(S) + 1
  BY <1>1, FS_Interval
<1>3. \E n \in 1 .. (Cardinality(S) + 1) : n \notin S
  <2> SUFFICES ASSUME 1 .. (Cardinality(S) + 1) \subseteq S PROVE FALSE
    OBVIOUS
  <2>1. Cardinality(1 .. (Cardinality(S) + 1)) <= Cardinality(S)
    BY FS_Subset
  <2> QED
    BY <2>1, <1>1, <1>2
<1> QED
  BY <1>1, <1>3 DEF Unused

LEMMA ChannelsFinite ==
  ASSUME LibraryTypes
  PROVE  IsFiniteSet({tl[t].ch : t \in Tails} \union {wg[t].ch : t \in Tails} \union {run.ch})
<1>1. IsFiniteSet({tl[t].ch : t \in Tails})
  <2> DEFINE S == {tl[t].ch : t \in Tails}
             g == [t \in Tails |-> tl[t].ch]
  <2>1. g \in Surjection(Tails, S)
    BY DEF Surjection
  <2> QED
    BY <2>1, FS_Surjection, TailAssumption
<1>2. IsFiniteSet({wg[t].ch : t \in Tails})
  <2> DEFINE S == {wg[t].ch : t \in Tails}
             g == [t \in Tails |-> wg[t].ch]
  <2>1. g \in Surjection(Tails, S)
    BY DEF Surjection
  <2> QED
    BY <2>1, FS_Surjection, TailAssumption
<1>3. IsFiniteSet({run.ch})
  BY FS_Singleton
<1> QED
  BY <1>1, <1>2, <1>3, FS_Union

LEMMA QueueAdds ==
  ASSUME NEW q \in Seq(Event), NEW f \in Files, NEW op \in EventOps
  PROVE  /\ Queue(q, f, op) \in Seq(Event)
         /\ Elements(Queue(q, f, op)) = Elements(q) \cup {[f |-> f, op |-> op]}
<1> DEFINE e == [f |-> f, op |-> op]
<1>1. e \in Event
  BY DEF Event
<1>2. CASE q # <<>> /\ q[Len(q)] = e
  <2>1. Queue(q, f, op) = q
    BY <1>2 DEF Queue
  <2>2. e \in Elements(q)
    BY <1>2, EmptySeq DEF Elements
  <2> QED
    BY <2>1, <2>2
<1>3. CASE ~(q # <<>> /\ q[Len(q)] = e)
  <2>1. Queue(q, f, op) = Append(q, e)
    BY <1>3 DEF Queue
  <2> HIDE DEF e
  <2>2. /\ Append(q, e) \in Seq(Event) /\ Len(Append(q, e)) = Len(q) + 1
        /\ \A i \in 1 .. Len(q) : Append(q, e)[i] = q[i]
        /\ Append(q, e)[Len(q) + 1] = e
    BY <1>1, AppendProperties
  <2>3. DOMAIN Append(q, e) = 1 .. Len(q) + 1 /\ DOMAIN q = 1 .. Len(q) /\ Len(q) \in Nat
    BY <2>2, LenProperties
  <2>4. Elements(Append(q, e)) = Elements(q) \cup {e}
    BY <2>2, <2>3 DEF Elements
  <2> QED
    BY <2>1, <2>2, <2>4 DEF e
<1> QED
  BY <1>2, <1>3

LEMMA TailKeeps ==
  ASSUME NEW q \in Seq(Event), q # <<>>
  PROVE  /\ Head(q) \in Event /\ Tail(q) \in Seq(Event)
         /\ Elements(q) = Elements(Tail(q)) \cup {Head(q)}
<1>1. /\ Head(q) \in Event /\ Head(q) = q[1] /\ Tail(q) \in Seq(Event)
      /\ Len(Tail(q)) = Len(q) - 1 /\ \A i \in 1 .. Len(Tail(q)) : Tail(q)[i] = q[i + 1]
  BY HeadTailProperties
<1>2. DOMAIN q = 1 .. Len(q) /\ DOMAIN Tail(q) = 1 .. Len(Tail(q)) /\ Len(q) \in Nat /\ Len(q) # 0
  BY <1>1, LenProperties, EmptySeq
<1>3. \A i \in 1 .. Len(q) : i = 1 \/ \E j \in 1 .. Len(Tail(q)) : q[i] = Tail(q)[j]
  <2> SUFFICES ASSUME NEW i \in 1 .. Len(q), i # 1
               PROVE  i - 1 \in 1 .. Len(Tail(q)) /\ q[i] = Tail(q)[i - 1]
    OBVIOUS
  <2> QED
    BY <1>1, <1>2
<1>4. \A j \in 1 .. Len(Tail(q)) : j + 1 \in 1 .. Len(q) /\ Tail(q)[j] = q[j + 1]
  BY <1>1, <1>2
<1>5. 1 \in 1 .. Len(q)
  BY <1>2
<1>6. Elements(q) \subseteq Elements(Tail(q)) \cup {Head(q)}
  <2> SUFFICES ASSUME NEW i \in 1 .. Len(q)
               PROVE  q[i] \in Elements(Tail(q)) \cup {Head(q)}
    BY <1>2 DEF Elements
  <2>1. CASE i = 1
    BY <2>1, <1>1
  <2>2. CASE i # 1
    BY <2>2, <1>2, <1>3 DEF Elements
  <2> QED
    BY <2>1, <2>2
<1>7. Elements(Tail(q)) \cup {Head(q)} \subseteq Elements(q)
  BY <1>1, <1>2, <1>4, <1>5 DEF Elements
<1> QED
  BY <1>1, <1>6, <1>7

LEMMA ElementsType ==
  ASSUME NEW q \in Seq(Event) PROVE Elements(q) \subseteq Event
  BY LenProperties, ElementOfSeq DEF Elements

LEMMA NewTailType == NewTail \in Goroutine
  BY EmptySeq DEF NewTail, NoChanges, Goroutine, Change, Pcs

LEMMA NoGoroutineType == NoGoroutine \in Watcher /\ NoGoroutine.pc = "none" /\ NoGoroutine.next = "none"
  BY DEF NoGoroutine, Watcher

LEMMA IdleType == Idle \in Sending
  BY DEF Idle, Sending

-----------------------------------------------------------------------------
(* Types.                                                                   *)

LEMMA FileTypes ==
  ASSUME LibraryTypes, InodeBounds, NEW f \in Files, FileStep(f)
  PROVE  LibraryTypes'
<1> DEFINE s == inodes[f]
<1>0. /\ s \in Seq(Inode) /\ cur[f] \in Nat /\ Len(s) \in Nat /\ cur[f] <= Len(s)
      /\ \A k \in 1 .. Len(s) : s[k] \in Inode
  BY LenProperties, ElementOfSeq DEF LibraryTypes, InodeBounds
<1>e. \A op \in EventOps : Announce(f, op) => events' \in Seq(Event)
  BY QueueAdds DEF LibraryTypes, Announce
<1>1. CASE AppendByte(f)
  <2>1. [s EXCEPT ![cur[f]].size = @ + 1] \in Seq(Inode)
    <3>1. s[cur[f]] \in Inode
      BY <1>0, <1>1 DEF AppendByte
    <3>2. [s[cur[f]] EXCEPT !.size = @ + 1] \in Inode
      BY <3>1 DEF Inode
    <3> HIDE DEF s
    <3> QED
      BY <1>0, <1>1, <3>2, ExceptSeq DEF AppendByte
  <2>2. inodes' \in [Files -> Seq(Inode)]
    BY <2>1, <1>1 DEF AppendByte, LibraryTypes
  <2> QED
    BY <1>1, <1>e, <2>2 DEF AppendByte, trackerVars, LibraryTypes, EventOps, Followers
<1>2. CASE CreateFile(f)
  <2>1. [size |-> 0, link |-> TRUE] \in Inode
    BY DEF Inode
  <2>2. inodes' \in [Files -> Seq(Inode)]
    BY <2>1, <1>2, AppendProperties DEF CreateFile, LibraryTypes
  <2>3. cur' \in [Files -> Nat]
    BY <1>0, <1>2 DEF CreateFile, LibraryTypes
  <2>4. events' \in Seq(Event)
    BY <1>2, QueueAdds DEF CreateFile, LibraryTypes, EventOps
  <2> QED
    BY <1>2, <2>2, <2>3, <2>4 DEF CreateFile, trackerVars, LibraryTypes
<1>3. CASE TruncateFile(f)
  <2>1. [s EXCEPT ![cur[f]].size = 0] \in Seq(Inode)
    <3>1. s[cur[f]] \in Inode
      BY <1>0, <1>3 DEF TruncateFile
    <3>2. [s[cur[f]] EXCEPT !.size = 0] \in Inode
      BY <3>1 DEF Inode
    <3> HIDE DEF s
    <3> QED
      BY <1>0, <1>3, <3>2, ExceptSeq DEF TruncateFile
  <2>2. inodes' \in [Files -> Seq(Inode)]
    BY <2>1, <1>3 DEF TruncateFile, LibraryTypes
  <2> QED
    BY <1>3, <1>e, <2>2 DEF TruncateFile, trackerVars, LibraryTypes, EventOps
<1>4. CASE UnlinkFile(f)
  <2>1. [s EXCEPT ![cur[f]].link = FALSE] \in Seq(Inode)
    <3>1. s[cur[f]] \in Inode
      BY <1>0, <1>4 DEF UnlinkFile
    <3>2. [s[cur[f]] EXCEPT !.link = FALSE] \in Inode
      BY <3>1 DEF Inode
    <3> HIDE DEF s
    <3> QED
      BY <1>0, <1>4, <3>2, ExceptSeq DEF UnlinkFile
  <2>2. inodes' \in [Files -> Seq(Inode)]
    BY <2>1, <1>4 DEF UnlinkFile, LibraryTypes
  <2>3. events' \in Seq(Event)
    BY <1>4, QueueAdds DEF UnlinkFile, LibraryTypes, EventOps
  <2>4. kwatch' \in [Files -> Nat] /\ cur' \in [Files -> Nat] /\ replaced' \subseteq Files
    BY <1>4 DEF UnlinkFile, LibraryTypes
  <2> QED
    BY <1>4, <2>2, <2>3, <2>4 DEF UnlinkFile, trackerVars, LibraryTypes
<1>5. CASE RenameFile(f)
  BY <1>5, <1>e DEF RenameFile, trackerVars, LibraryTypes, EventOps
<1> QED
  BY <1>1, <1>2, <1>3, <1>4, <1>5 DEF FileStep

LEMMA OpenChansType ==
  ASSUME LibraryTypes, NEW f \in Files, OpenChans(f)
  PROVE  /\ chans' \in [Files -> Nat] /\ done' \in [Files -> Nat]
         /\ chans'[f] # 0 /\ done'[f] # 0
         /\ (chans[f] # 0 => chans' = chans) /\ (done[f] # 0 => done' = done)
         /\ \A g \in Files \ {f} : chans'[g] = chans[g] /\ done'[g] = done[g]
<1>1. PICK c \in Nat \ {0} : c = Unused({tl[t].ch : t \in Tails} \union {wg[t].ch : t \in Tails} \union {run.ch})
  BY ChannelsFinite, UnusedIsNew
<1>2. PICK d \in Nat \ {0} : d = Unused({run.done})
  BY FS_Singleton, UnusedIsNew
<1>3. /\ chans' = IF chans[f] # 0 THEN chans ELSE [chans EXCEPT ![f] = c]
      /\ done' = IF done[f] # 0 THEN done ELSE [done EXCEPT ![f] = d]
  BY <1>1, <1>2 DEF OpenChans
<1> QED
  BY <1>3 DEF LibraryTypes


(* What a step changes of a tail.                                           *)
SameRead(g, h) == h.fd = g.fd /\ h.pos = g.pos /\ h.buf = g.buf /\ h.lines = g.lines
SameWatch(g, h) == h.watching = g.watching /\ h.changes = g.changes
SameWait(g, h) == h.ch = g.ch /\ h.next = g.next
SameStop(g, h) == h.dying = g.dying

OneTail(t) == tl' \in [Tails -> Goroutine] /\ \A u \in Tails \ {t} : tl'[u] = tl[u]

LEMMA TailUpdate ==
  ASSUME LibraryTypes, NEW t \in Tails, NEW h \in Goroutine, tl' = [tl EXCEPT ![t] = h]
  PROVE  OneTail(t) /\ tl'[t] = h
  BY DEF OneTail, LibraryTypes

LEMMA PcStep ==
  ASSUME LibraryTypes, NEW t \in Tails, NEW p \in Pcs, tl' = [tl EXCEPT ![t].pc = p]
  PROVE  /\ OneTail(t) /\ tl'[t].pc = p /\ SameRead(tl[t], tl'[t]) /\ SameWatch(tl[t], tl'[t])
         /\ SameWait(tl[t], tl'[t]) /\ SameStop(tl[t], tl'[t])
<1>1. PICK h : h = [tl[t] EXCEPT !.pc = p]
  OBVIOUS
<1>2. tl' = [tl EXCEPT ![t] = h] /\ tl[t] \in Goroutine
  BY <1>1 DEF LibraryTypes
<1>3. /\ h \in Goroutine /\ h.pc = p
      /\ SameRead(tl[t], h) /\ SameWatch(tl[t], h) /\ SameWait(tl[t], h) /\ SameStop(tl[t], h)
  BY <1>1, <1>2 DEF Goroutine, SameRead, SameWatch, SameWait, SameStop
<1>4. OneTail(t) /\ tl'[t] = h
  BY <1>2, <1>3, TailUpdate
<1> QED
  BY <1>3, <1>4

LEMMA WaitStep ==
  ASSUME LibraryTypes, NEW t \in Tails, NEW p \in Pcs, NEW c \in Nat, NEW n \in {"none", "reopen", "close"},
         tl' = [tl EXCEPT ![t].pc = p, ![t].ch = c, ![t].next = n]
  PROVE  /\ OneTail(t) /\ tl'[t].pc = p /\ tl'[t].ch = c /\ tl'[t].next = n
         /\ SameRead(tl[t], tl'[t]) /\ SameWatch(tl[t], tl'[t]) /\ SameStop(tl[t], tl'[t])
<1>1. PICK h : h = [tl[t] EXCEPT !.pc = p, !.ch = c, !.next = n]
  OBVIOUS
<1>2. tl' = [tl EXCEPT ![t] = h] /\ tl[t] \in Goroutine
  BY <1>1 DEF LibraryTypes
<1>3. /\ h \in Goroutine /\ h.pc = p /\ h.ch = c /\ h.next = n
      /\ SameRead(tl[t], h) /\ SameWatch(tl[t], h) /\ SameStop(tl[t], h)
  BY <1>1, <1>2 DEF Goroutine, SameRead, SameWatch, SameWait, SameStop
<1>4. OneTail(t) /\ tl'[t] = h
  BY <1>2, <1>3, TailUpdate
<1> QED
  BY <1>3, <1>4

LEMMA RemoveCreateStep ==
  ASSUME LibraryTypes, NEW t \in Tails, RunRemoveCreate(t)
  PROVE  /\ OneTail(t) /\ tl'[t].pc = tl[t].next /\ tl'[t].next = tl[t].next
         /\ SameRead(tl[t], tl'[t]) /\ SameWatch(tl[t], tl'[t]) /\ SameStop(tl[t], tl'[t])
<1>1. tl[t] \in Goroutine /\ tl[t].next \in {"none", "reopen", "close"} /\ tl[t].next \in Pcs
  BY DEF LibraryTypes, Goroutine, Pcs
<1>2. PICK h : h = [tl[t] EXCEPT !.pc = tl[t].next, !.ch = 0, !.next = tl[t].next]
  OBVIOUS
<1>3. h = [tl[t] EXCEPT !.pc = tl[t].next, !.ch = 0]
  BY <1>1, <1>2 DEF Goroutine
<1>4. tl' = [tl EXCEPT ![t] = h]
  BY <1>3 DEF LibraryTypes, RunRemoveCreate
<1>5. /\ h \in Goroutine /\ h.pc = tl[t].next /\ h.next = tl[t].next
      /\ SameRead(tl[t], h) /\ SameWatch(tl[t], h) /\ SameStop(tl[t], h)
  BY <1>1, <1>2 DEF Goroutine, SameRead, SameWatch, SameWait, SameStop
<1>6. OneTail(t) /\ tl'[t] = h
  BY <1>4, <1>5, TailUpdate
<1> QED
  BY <1>5, <1>6

LEMMA WatchingStep ==
  ASSUME LibraryTypes, NEW t \in Tails,
         tl' = [tl EXCEPT ![t].pc = "select", ![t].watching = TRUE, ![t].changes = NoChanges]
  PROVE  /\ OneTail(t) /\ tl'[t].pc = "select" /\ tl'[t].watching /\ tl'[t].changes = NoChanges
         /\ SameRead(tl[t], tl'[t]) /\ SameWait(tl[t], tl'[t]) /\ SameStop(tl[t], tl'[t])
<1>1. PICK h : h = [tl[t] EXCEPT !.pc = "select", !.watching = TRUE, !.changes = NoChanges]
  OBVIOUS
<1>2. tl' = [tl EXCEPT ![t] = h] /\ tl[t] \in Goroutine
  BY <1>1 DEF LibraryTypes
<1>3. NoChanges \in Change /\ "select" \in Pcs
  BY DEF NoChanges, Change, Pcs, Opened
<1>4. /\ h \in Goroutine /\ h.pc = "select" /\ h.watching /\ h.changes = NoChanges
      /\ SameRead(tl[t], h) /\ SameWait(tl[t], h) /\ SameStop(tl[t], h)
  BY <1>1, <1>2, <1>3 DEF Goroutine, SameRead, SameWatch, SameWait, SameStop
<1>5. OneTail(t) /\ tl'[t] = h
  BY <1>2, <1>4, TailUpdate
<1> QED
  BY <1>4, <1>5

LEMMA ChangesStep ==
  ASSUME LibraryTypes, NEW t \in Tails, NEW p \in Pcs, NEW c \in Change,
         tl' = [tl EXCEPT ![t].pc = p, ![t].changes = c]
  PROVE  /\ OneTail(t) /\ tl'[t].pc = p /\ tl'[t].watching = tl[t].watching /\ tl'[t].changes = c
         /\ SameRead(tl[t], tl'[t]) /\ SameWait(tl[t], tl'[t]) /\ SameStop(tl[t], tl'[t])
<1>0. tl[t] \in Goroutine /\ tl[t].watching \in BOOLEAN
  BY DEF LibraryTypes, Goroutine
<1>1. PICK h : h = [tl[t] EXCEPT !.pc = p, !.watching = tl[t].watching, !.changes = c]
  OBVIOUS
<1>2. h = [tl[t] EXCEPT !.pc = p, !.changes = c]
  BY <1>0, <1>1 DEF Goroutine
<1>3. tl' = [tl EXCEPT ![t] = h]
  BY <1>2 DEF LibraryTypes
<1>4. /\ h \in Goroutine /\ h.pc = p /\ h.watching = tl[t].watching /\ h.changes = c
      /\ SameRead(tl[t], h) /\ SameWait(tl[t], h) /\ SameStop(tl[t], h)
  BY <1>0, <1>1 DEF Goroutine, SameRead, SameWatch, SameWait, SameStop
<1>5. OneTail(t) /\ tl'[t] = h
  BY <1>3, <1>4, TailUpdate
<1> QED
  BY <1>4, <1>5

LEMMA RemoveStep ==
  ASSUME LibraryTypes, NEW t \in Tails, RunRemove(t)
  PROVE  /\ OneTail(t) /\ tl'[t].pc = tl[t].pc /\ tl'[t].watching = tl[t].watching
         /\ tl'[t].changes.Deleted = (tl[t].changes.Deleted \/ wg[t].next = "deleted")
         /\ tl'[t].changes.Modified = tl[t].changes.Modified
         /\ tl'[t].changes.Truncated = tl[t].changes.Truncated
         /\ SameRead(tl[t], tl'[t]) /\ SameWait(tl[t], tl'[t]) /\ SameStop(tl[t], tl'[t])
<1>0. tl[t] \in Goroutine /\ tl[t].changes \in Change /\ tl[t].pc \in Pcs /\ tl[t].changes.Deleted \in BOOLEAN
  BY DEF LibraryTypes, Goroutine, Change
<1>1. PICK b \in BOOLEAN : b = (tl[t].changes.Deleted \/ wg[t].next = "deleted")
  BY <1>0
<1>2. PICK c : c = [tl[t].changes EXCEPT !.Deleted = b]
  OBVIOUS
<1>3. c \in Change /\ c.Deleted = b /\ c.Modified = tl[t].changes.Modified /\ c.Truncated = tl[t].changes.Truncated
  BY <1>0, <1>2 DEF Change
<1>4. tl' = [tl EXCEPT ![t].changes.Deleted = b]
  BY <1>1 DEF RunRemove
<1>5. tl' = [tl EXCEPT ![t].pc = tl[t].pc, ![t].changes = c]
  BY <1>0, <1>2, <1>4 DEF LibraryTypes, Goroutine
<1>6. /\ OneTail(t) /\ tl'[t].pc = tl[t].pc /\ tl'[t].watching = tl[t].watching /\ tl'[t].changes = c
      /\ SameRead(tl[t], tl'[t]) /\ SameWait(tl[t], tl'[t]) /\ SameStop(tl[t], tl'[t])
  BY <1>0, <1>3, <1>5, ChangesStep
<1> QED
  BY <1>1, <1>3, <1>6

LEMMA StatStep ==
  ASSUME LibraryTypes, NEW t \in Tails, WatchStat(t), cur[path[t]] # 0
  PROVE  /\ OneTail(t) /\ tl'[t].pc = tl[t].pc /\ tl'[t].watching = tl[t].watching
         /\ tl'[t].changes.Deleted = tl[t].changes.Deleted
         /\ \/ tl'[t].changes.Modified /\ tl'[t].changes.Truncated = tl[t].changes.Truncated
            \/ wg[t].size > 0 /\ wg[t].size > inodes[path[t]][cur[path[t]]].size
         /\ SameRead(tl[t], tl'[t]) /\ SameWait(tl[t], tl'[t]) /\ SameStop(tl[t], tl'[t])
<1>0. tl[t] \in Goroutine /\ tl[t].changes \in Change /\ tl[t].pc \in Pcs
  BY DEF LibraryTypes, Goroutine
<1>1. PICK x \in BOOLEAN : x = (wg[t].size > 0 /\ wg[t].size > inodes[path[t]][cur[path[t]]].size)
  OBVIOUS
<1>2. PICK a \in BOOLEAN, b \in BOOLEAN : a = (tl[t].changes.Truncated \/ x) /\ b = (tl[t].changes.Modified \/ ~x)
  OBVIOUS
<1>3. PICK c : c = [tl[t].changes EXCEPT !.Truncated = a, !.Modified = b]
  OBVIOUS
<1>4. c \in Change /\ c.Truncated = a /\ c.Modified = b /\ c.Deleted = tl[t].changes.Deleted
  BY <1>0, <1>3, Zenon DEF Change
<1>5. tl' = [tl EXCEPT ![t].changes.Truncated = a, ![t].changes.Modified = b]
  BY <1>1, <1>2, Zenon DEF WatchStat
<1>6. tl' = [tl EXCEPT ![t].pc = tl[t].pc, ![t].changes = c]
  BY <1>0, <1>3, <1>5 DEF LibraryTypes, Goroutine
<1>7. /\ OneTail(t) /\ tl'[t].pc = tl[t].pc /\ tl'[t].watching = tl[t].watching /\ tl'[t].changes = c
      /\ SameRead(tl[t], tl'[t]) /\ SameWait(tl[t], tl'[t]) /\ SameStop(tl[t], tl'[t])
  BY <1>0, <1>4, <1>6, ChangesStep
<1>8. b \/ x
  BY <1>2
<1>9. ~x => a = tl[t].changes.Truncated
  BY <1>2, <1>0 DEF Change
<1> QED
  BY <1>1, <1>4, <1>7, <1>8, <1>9

LEMMA ReopenEffect ==
  ASSUME LibraryTypes, NEW t \in Tails, Reopen(t)
  PROVE  /\ OneTail(t) /\ tl[t].pc = "reopen" /\ tl'[t].fd = cur[path[t]]
         /\ tl'[t].pc = IF cur[path[t]] # 0 THEN "read" ELSE "watchCreate"
         /\ tl'[t].pos = 0 /\ tl'[t].buf = 0 /\ tl'[t].lines = tl[t].lines
         /\ SameWatch(tl[t], tl'[t]) /\ SameWait(tl[t], tl'[t]) /\ SameStop(tl[t], tl'[t])
<1>1. PICK k \in Nat : k = cur[path[t]]
  BY DEF LibraryTypes
<1>2. PICK p \in Pcs : p = IF cur[path[t]] # 0 THEN "read" ELSE "watchCreate"
  BY DEF Pcs, Opened
<1>3. tl' = [tl EXCEPT ![t].pc = p, ![t].fd = k, ![t].pos = 0, ![t].buf = 0]
  BY <1>1, <1>2 DEF Reopen
<1>4. PICK h : h = [tl[t] EXCEPT !.pc = p, !.fd = k, !.pos = 0, !.buf = 0]
  OBVIOUS
<1>5. tl' = [tl EXCEPT ![t] = h] /\ tl[t] \in Goroutine
  BY <1>3, <1>4 DEF LibraryTypes
<1>6. /\ h \in Goroutine /\ h.pc = p /\ h.fd = k /\ h.pos = 0 /\ h.buf = 0 /\ h.lines = tl[t].lines
      /\ SameWatch(tl[t], h) /\ SameWait(tl[t], h) /\ SameStop(tl[t], h)
  BY <1>1, <1>2, <1>4, <1>5 DEF Goroutine, SameWatch, SameWait, SameStop
<1>7. OneTail(t) /\ tl'[t] = h
  BY <1>5, <1>6, TailUpdate
<1> QED
  BY <1>1, <1>2, <1>6, <1>7 DEF Reopen

LEMMA NextStep ==
  ASSUME LibraryTypes, NEW t \in Tails, NEW p \in Pcs, NEW n \in {"none", "reopen", "close"},
         tl' = [tl EXCEPT ![t].pc = p, ![t].next = n]
  PROVE  /\ OneTail(t) /\ tl'[t].pc = p /\ tl'[t].next = n /\ tl'[t].ch = tl[t].ch
         /\ SameRead(tl[t], tl'[t]) /\ SameWatch(tl[t], tl'[t]) /\ SameStop(tl[t], tl'[t])
<1>1. PICK h : h = [tl[t] EXCEPT !.pc = p, !.next = n]
  OBVIOUS
<1>2. tl' = [tl EXCEPT ![t] = h] /\ tl[t] \in Goroutine
  BY <1>1 DEF LibraryTypes
<1>3. /\ h \in Goroutine /\ h.pc = p /\ h.next = n /\ h.ch = tl[t].ch /\ SameRead(tl[t], h)
      /\ SameWatch(tl[t], h) /\ SameStop(tl[t], h)
  BY <1>1, <1>2 DEF Goroutine, SameRead, SameWatch, SameWait, SameStop
<1>4. OneTail(t) /\ tl'[t] = h
  BY <1>2, <1>3, TailUpdate
<1> QED
  BY <1>3, <1>4

LEMMA BlockStep ==
  ASSUME LibraryTypes, NEW t \in Tails, NEW p \in Pcs, NEW c \in Nat,
         tl' = [tl EXCEPT ![t].pc = p, ![t].ch = c]
  PROVE  /\ OneTail(t) /\ tl'[t].pc = p /\ tl'[t].ch = c /\ tl'[t].next = tl[t].next
         /\ SameRead(tl[t], tl'[t]) /\ SameWatch(tl[t], tl'[t]) /\ SameStop(tl[t], tl'[t])
<1>1. PICK h : h = [tl[t] EXCEPT !.pc = p, !.ch = c]
  OBVIOUS
<1>2. tl' = [tl EXCEPT ![t] = h] /\ tl[t] \in Goroutine
  BY <1>1 DEF LibraryTypes
<1>3. /\ h \in Goroutine /\ h.pc = p /\ h.ch = c /\ h.next = tl[t].next /\ SameRead(tl[t], h)
      /\ SameWatch(tl[t], h) /\ SameStop(tl[t], h)
  BY <1>1, <1>2 DEF Goroutine, SameRead, SameWatch, SameWait, SameStop
<1>4. OneTail(t) /\ tl'[t] = h
  BY <1>2, <1>3, TailUpdate
<1> QED
  BY <1>3, <1>4

LEMMA BufferStep ==
  ASSUME LibraryTypes, NEW t \in Tails, NEW p \in Pcs, NEW m \in Nat,
         tl' = [tl EXCEPT ![t].pc = p, ![t].buf = m]
  PROVE  /\ OneTail(t) /\ tl'[t].pc = p /\ tl'[t].buf = m /\ tl'[t].fd = tl[t].fd
         /\ tl'[t].pos = tl[t].pos /\ tl'[t].lines = tl[t].lines /\ SameWatch(tl[t], tl'[t])
         /\ SameWait(tl[t], tl'[t]) /\ SameStop(tl[t], tl'[t])
<1>1. PICK h : h = [tl[t] EXCEPT !.pc = p, !.buf = m]
  OBVIOUS
<1>2. tl' = [tl EXCEPT ![t] = h] /\ tl[t] \in Goroutine
  BY <1>1 DEF LibraryTypes
<1>3. /\ h \in Goroutine /\ h.pc = p /\ h.buf = m /\ h.fd = tl[t].fd /\ h.pos = tl[t].pos
      /\ h.lines = tl[t].lines /\ SameWatch(tl[t], h) /\ SameWait(tl[t], h)
      /\ SameStop(tl[t], h)
  BY <1>1, <1>2 DEF Goroutine, SameRead, SameWatch, SameWait, SameStop
<1>4. OneTail(t) /\ tl'[t] = h
  BY <1>2, <1>3, TailUpdate
<1> QED
  BY <1>3, <1>4

LEMMA LineStep ==
  ASSUME LibraryTypes, NEW t \in Tails, NEW m \in Nat, NEW l \in Seq(Line),
         tl' = [tl EXCEPT ![t].pc = "read", ![t].pos = m, ![t].lines = l]
  PROVE  /\ OneTail(t) /\ tl'[t].pc = "read" /\ tl'[t].pos = m /\ tl'[t].lines = l
         /\ tl'[t].fd = tl[t].fd /\ tl'[t].buf = tl[t].buf /\ SameWatch(tl[t], tl'[t])
         /\ SameWait(tl[t], tl'[t]) /\ SameStop(tl[t], tl'[t])
<1>1. PICK h : h = [tl[t] EXCEPT !.pc = "read", !.pos = m, !.lines = l]
  OBVIOUS
<1>2. tl' = [tl EXCEPT ![t] = h] /\ tl[t] \in Goroutine
  BY <1>1 DEF LibraryTypes
<1>3. /\ h \in Goroutine /\ h.pc = "read" /\ h.pos = m /\ h.lines = l /\ h.fd = tl[t].fd
      /\ h.buf = tl[t].buf /\ SameWatch(tl[t], h) /\ SameWait(tl[t], h) /\ SameStop(tl[t], h)
  BY <1>1, <1>2 DEF Goroutine, Pcs, Opened, SameRead, SameWatch, SameWait, SameStop
<1>4. OneTail(t) /\ tl'[t] = h
  BY <1>2, <1>3, TailUpdate
<1> QED
  BY <1>3, <1>4

LEMMA DeletedStep ==
  ASSUME LibraryTypes, NEW t \in Tails, NEW c \in Change,
         tl' = [tl EXCEPT ![t].pc = "reopen", ![t].fd = 0, ![t].watching = FALSE, ![t].changes = c]
  PROVE  /\ OneTail(t) /\ tl'[t].pc = "reopen" /\ tl'[t].fd = 0 /\ ~tl'[t].watching
         /\ tl'[t].changes = c /\ tl'[t].pos = tl[t].pos /\ tl'[t].lines = tl[t].lines
         /\ SameWait(tl[t], tl'[t]) /\ SameStop(tl[t], tl'[t])
<1>1. PICK h : h = [tl[t] EXCEPT !.pc = "reopen", !.fd = 0, !.watching = FALSE, !.changes = c]
  OBVIOUS
<1>2. tl' = [tl EXCEPT ![t] = h] /\ tl[t] \in Goroutine
  BY <1>1 DEF LibraryTypes
<1>3. /\ h \in Goroutine /\ h.pc = "reopen" /\ h.fd = 0 /\ ~h.watching /\ h.changes = c
      /\ h.pos = tl[t].pos /\ h.lines = tl[t].lines /\ SameWait(tl[t], h) /\ SameStop(tl[t], h)
  BY <1>1, <1>2 DEF Goroutine, Pcs, SameRead, SameWatch, SameWait, SameStop
<1>4. OneTail(t) /\ tl'[t] = h
  BY <1>2, <1>3, TailUpdate
<1> QED
  BY <1>3, <1>4

LEMMA TruncatedStep ==
  ASSUME LibraryTypes, NEW t \in Tails, NEW c \in Change,
         tl' = [tl EXCEPT ![t].pc = "reopen", ![t].fd = 0, ![t].changes = c]
  PROVE  /\ OneTail(t) /\ tl'[t].pc = "reopen" /\ tl'[t].fd = 0 /\ tl'[t].changes = c
         /\ tl'[t].watching = tl[t].watching /\ tl'[t].pos = tl[t].pos
         /\ tl'[t].lines = tl[t].lines /\ SameWait(tl[t], tl'[t]) /\ SameStop(tl[t], tl'[t])
<1>1. PICK h : h = [tl[t] EXCEPT !.pc = "reopen", !.fd = 0, !.changes = c]
  OBVIOUS
<1>2. tl' = [tl EXCEPT ![t] = h] /\ tl[t] \in Goroutine
  BY <1>1 DEF LibraryTypes
<1>3. /\ h \in Goroutine /\ h.pc = "reopen" /\ h.fd = 0 /\ h.changes = c
      /\ h.watching = tl[t].watching /\ h.pos = tl[t].pos /\ h.lines = tl[t].lines
      /\ SameWait(tl[t], h) /\ SameStop(tl[t], h)
  BY <1>1, <1>2 DEF Goroutine, Pcs, SameRead, SameWatch, SameWait, SameStop
<1>4. OneTail(t) /\ tl'[t] = h
  BY <1>2, <1>3, TailUpdate
<1> QED
  BY <1>3, <1>4

LEMMA DoneStep ==
  ASSUME LibraryTypes, NEW t \in Tails,
         tl' = [tl EXCEPT ![t].pc = "done", ![t].fd = 0, ![t].dying = TRUE]
  PROVE  /\ OneTail(t) /\ tl'[t].pc = "done" /\ tl'[t].fd = 0 /\ tl'[t].dying
         /\ tl'[t].pos = tl[t].pos /\ tl'[t].lines = tl[t].lines /\ SameWatch(tl[t], tl'[t])
         /\ SameWait(tl[t], tl'[t])
<1>1. PICK h : h = [tl[t] EXCEPT !.pc = "done", !.fd = 0, !.dying = TRUE]
  OBVIOUS
<1>2. tl' = [tl EXCEPT ![t] = h] /\ tl[t] \in Goroutine
  BY <1>1 DEF LibraryTypes
<1>3. /\ h \in Goroutine /\ h.pc = "done" /\ h.fd = 0 /\ h.dying /\ h.pos = tl[t].pos
      /\ h.lines = tl[t].lines /\ SameWatch(tl[t], h) /\ SameWait(tl[t], h)
  BY <1>1, <1>2 DEF Goroutine, Pcs, SameRead, SameWatch, SameWait, SameStop
<1>4. OneTail(t) /\ tl'[t] = h
  BY <1>2, <1>3, TailUpdate
<1> QED
  BY <1>3, <1>4

LEMMA KillStep ==
  ASSUME LibraryTypes, NEW t \in Tails,
         tl' = [tl EXCEPT ![t].dying = TRUE]
  PROVE  /\ OneTail(t) /\ tl'[t].pc = tl[t].pc /\ tl'[t].dying /\ SameRead(tl[t], tl'[t])
         /\ SameWatch(tl[t], tl'[t]) /\ SameWait(tl[t], tl'[t])
<1>1. PICK h : h = [tl[t] EXCEPT !.dying = TRUE]
  OBVIOUS
<1>2. tl' = [tl EXCEPT ![t] = h] /\ tl[t] \in Goroutine
  BY <1>1 DEF LibraryTypes
<1>3. /\ h \in Goroutine /\ h.pc = tl[t].pc /\ h.dying /\ SameRead(tl[t], h)
      /\ SameWatch(tl[t], h) /\ SameWait(tl[t], h)
  BY <1>1, <1>2 DEF Goroutine, SameRead, SameWatch, SameWait, SameStop
<1>4. OneTail(t) /\ tl'[t] = h
  BY <1>2, <1>3, TailUpdate
<1> QED
  BY <1>3, <1>4

(* ... and of the goroutine that watches for it. *)
OneWatcher(t) == wg' \in [Tails -> Watcher] /\ \A u \in Tails \ {t} : wg'[u] = wg[u]

LEMMA WatcherUpdate ==
  ASSUME LibraryTypes, NEW t \in Tails, NEW h \in Watcher, wg' = [wg EXCEPT ![t] = h]
  PROVE  OneWatcher(t) /\ wg'[t] = h
  BY DEF OneWatcher, LibraryTypes

LEMMA ChannelStep ==
  ASSUME LibraryTypes, NEW t \in Tails, NEW p \in {"events", "receive", "stat", "unwatch", "remove"}, NEW c \in Nat,
         wg' = [wg EXCEPT ![t].ch = c, ![t].pc = p]
  PROVE  /\ OneWatcher(t) /\ wg'[t].pc = p /\ wg'[t].ch = c /\ wg'[t].size = wg[t].size
         /\ wg'[t].next = wg[t].next
<1>1. PICK h : h = [wg[t] EXCEPT !.ch = c, !.pc = p]
  OBVIOUS
<1>2. wg' = [wg EXCEPT ![t] = h] /\ wg[t] \in Watcher
  BY <1>1 DEF LibraryTypes
<1>3. /\ h \in Watcher /\ h.pc = p /\ h.ch = c /\ h.size = wg[t].size /\ h.next = wg[t].next
  BY <1>1, <1>2 DEF Watcher
<1>4. OneWatcher(t) /\ wg'[t] = h
  BY <1>2, <1>3, WatcherUpdate
<1> QED
  BY <1>3, <1>4

LEMMA ReceiveStep ==
  ASSUME LibraryTypes, NEW t \in Tails, NEW p \in {"events", "receive", "stat", "unwatch", "remove"},
         NEW n \in {"none", "deleted", "exit"},
         wg' = [wg EXCEPT ![t].pc = p, ![t].next = n]
  PROVE  /\ OneWatcher(t) /\ wg'[t].pc = p /\ wg'[t].next = n /\ wg'[t].ch = wg[t].ch
         /\ wg'[t].size = wg[t].size
<1>1. PICK h : h = [wg[t] EXCEPT !.pc = p, !.next = n]
  OBVIOUS
<1>2. wg' = [wg EXCEPT ![t] = h] /\ wg[t] \in Watcher
  BY <1>1 DEF LibraryTypes
<1>3. /\ h \in Watcher /\ h.pc = p /\ h.next = n /\ h.ch = wg[t].ch /\ h.size = wg[t].size
  BY <1>1, <1>2 DEF Watcher
<1>4. OneWatcher(t) /\ wg'[t] = h
  BY <1>2, <1>3, WatcherUpdate
<1> QED
  BY <1>3, <1>4

LEMMA SizeStep ==
  ASSUME LibraryTypes, NEW t \in Tails, NEW p \in {"events", "receive", "stat", "unwatch", "remove"}, NEW m \in Nat,
         wg' = [wg EXCEPT ![t].pc = p, ![t].size = m]
  PROVE  /\ OneWatcher(t) /\ wg'[t].pc = p /\ wg'[t].size = m /\ wg'[t].ch = wg[t].ch
         /\ wg'[t].next = wg[t].next
<1>1. PICK h : h = [wg[t] EXCEPT !.pc = p, !.size = m]
  OBVIOUS
<1>2. wg' = [wg EXCEPT ![t] = h] /\ wg[t] \in Watcher
  BY <1>1 DEF LibraryTypes
<1>3. /\ h \in Watcher /\ h.pc = p /\ h.size = m /\ h.ch = wg[t].ch /\ h.next = wg[t].next
  BY <1>1, <1>2 DEF Watcher
<1>4. OneWatcher(t) /\ wg'[t] = h
  BY <1>2, <1>3, WatcherUpdate
<1> QED
  BY <1>3, <1>4

LEMMA UnwatchStep ==
  ASSUME LibraryTypes, NEW t \in Tails,
         wg' = [wg EXCEPT ![t].pc = "remove"]
  PROVE  /\ OneWatcher(t) /\ wg'[t].pc = "remove" /\ wg'[t].ch = wg[t].ch
         /\ wg'[t].size = wg[t].size /\ wg'[t].next = wg[t].next
<1>1. PICK h : h = [wg[t] EXCEPT !.pc = "remove"]
  OBVIOUS
<1>2. wg' = [wg EXCEPT ![t] = h] /\ wg[t] \in Watcher
  BY <1>1 DEF LibraryTypes
<1>3. /\ h \in Watcher /\ h.pc = "remove" /\ h.ch = wg[t].ch /\ h.size = wg[t].size
      /\ h.next = wg[t].next
  BY <1>1, <1>2 DEF Watcher
<1>4. OneWatcher(t) /\ wg'[t] = h
  BY <1>2, <1>3, WatcherUpdate
<1> QED
  BY <1>3, <1>4

LEMMA ReceivedStep ==
  ASSUME LibraryTypes, NEW t \in Tails, WatchReceive(t)
  PROVE  /\ OneWatcher(t) /\ wg'[t].ch = wg[t].ch /\ wg'[t].size = wg[t].size
         /\ \/ run.op \in {"Remove", "Rename"} /\ wg'[t].pc = "unwatch" /\ wg'[t].next = "deleted"
            \/ run.op \in {"Chmod", "Write"} /\ wg'[t].pc = "stat" /\ wg'[t].next = wg[t].next
            \/ /\ run.op \notin {"Remove", "Rename", "Chmod", "Write"}
               /\ wg'[t].pc = "receive" /\ wg'[t].next = wg[t].next
<1>1. wg[t].next \in {"none", "deleted", "exit"}
  BY DEF LibraryTypes, Watcher
<1>2. CASE run.op \in {"Remove", "Rename"}
  <2>1. wg' = [wg EXCEPT ![t].pc = "unwatch", ![t].next = "deleted"]
    BY <1>2 DEF WatchReceive
  <2> QED
    BY <1>2, <2>1, ReceiveStep
<1>3. CASE run.op \in {"Chmod", "Write"}
  <2>1. wg' = [wg EXCEPT ![t].pc = "stat", ![t].next = wg[t].next]
    BY <1>3 DEF WatchReceive, LibraryTypes
  <2> QED
    BY <1>1, <1>3, <2>1, ReceiveStep
<1>4. CASE run.op \notin {"Remove", "Rename", "Chmod", "Write"}
  <2>1. wg' = [wg EXCEPT ![t].pc = "receive", ![t].next = wg[t].next]
    BY <1>4 DEF WatchReceive, LibraryTypes
  <2> QED
    BY <1>1, <1>4, <2>1, ReceiveStep
<1> QED
  BY <1>2, <1>3, <1>4

LEMMA RunTypes ==
  ASSUME LibraryTypes, RunStep
  PROVE  LibraryTypes'
<1>1. CASE RunEvent
  <2>1. Head(events) \in Event /\ events' \in Seq(Event)
    BY <1>1, TailKeeps DEF RunEvent, LibraryTypes
  <2>2. run' \in Sending
    BY <1>1, <2>1, IdleType DEF RunEvent, LibraryTypes, Sending, Event
  <2> QED
    BY <1>1, <2>1, <2>2 DEF RunEvent, LibraryTypes, fileVars, trackerVars
<1>2. CASE RunGiveUp
  BY <1>2, IdleType DEF RunGiveUp, LibraryTypes, fileVars, kernelVars, trackerVars
<1>3. ASSUME NEW t \in Tails, RunWatchCreate(t) PROVE LibraryTypes'
  <2>1. path[t] \in Files
    BY DEF LibraryTypes
  <2>2. chans' \in [Files -> Nat] /\ done' \in [Files -> Nat]
    BY <1>3, <2>1, OpenChansType DEF RunWatchCreate
  <2>3. tl' \in [Tails -> Goroutine]
    BY <1>3, PcStep DEF RunWatchCreate, Pcs, Waiting, OneTail
  <2> QED
    BY <1>3, <2>2, <2>3 DEF RunWatchCreate, LibraryTypes, fileVars, kernelVars
<1>4. ASSUME NEW t \in Tails, RunRemoveCreate(t) PROVE LibraryTypes'
  <2>1. chans' \in [Files -> Nat]
    BY <1>4 DEF RunRemoveCreate, CloseChan, LibraryTypes
  <2>2. tl' \in [Tails -> Goroutine]
    BY <1>4, RemoveCreateStep DEF OneTail
  <2> QED
    BY <1>4, <2>1, <2>2 DEF RunRemoveCreate, LibraryTypes, fileVars, kernelVars
<1>5. ASSUME NEW t \in Tails, RunWatch(t) PROVE LibraryTypes'
  <2>1. path[t] \in Files /\ cur[path[t]] \in Nat /\ watchNums[path[t]] \in Int
    BY DEF LibraryTypes
  <2>2. chans' \in [Files -> Nat] /\ done' \in [Files -> Nat]
    BY <1>5, <2>1, OpenChansType DEF RunWatch
  <2>3. tl' \in [Tails -> Goroutine]
    BY <1>5, WatchingStep, PcStep DEF RunWatch, Pcs, OneTail
  <2>4. wg' \in [Tails -> Watcher]
    <3>1. [NoGoroutine EXCEPT !.pc = "events", !.size = tl[t].pos] \in Watcher
      BY NoGoroutineType DEF LibraryTypes, Goroutine, Watcher
    <3> QED
      BY <1>5, <3>1 DEF RunWatch, LibraryTypes
  <2>5. kwatch' \in [Files -> Nat] /\ watchNums' \in [Files -> Int] /\ failed' \subseteq Files
    <3>1. [kwatch EXCEPT ![path[t]] = cur[path[t]]] \in [Files -> Nat]
      BY <2>1 DEF LibraryTypes
    <3>2. Counted(path[t]) \in [Files -> Int]
      BY <2>1 DEF Counted, LibraryTypes
    <3> QED
      BY <1>5, <2>1, <3>1, <3>2 DEF RunWatch, LibraryTypes
  <2> QED
    BY <1>5, <2>2, <2>3, <2>4, <2>5 DEF RunWatch, LibraryTypes, fileVars
<1>6. ASSUME NEW t \in Tails, RunRemove(t) PROVE LibraryTypes'
  <2>1. chans' \in [Files -> Nat] /\ kwatch' \in [Files -> Nat] /\ watchNums' \in [Files -> Int]
    BY <1>6 DEF RunRemove, CloseChan, LibraryTypes
  <2>2. tl' \in [Tails -> Goroutine]
    BY <1>6, RemoveStep DEF OneTail
  <2>3. wg' \in [Tails -> Watcher]
    BY <1>6, NoGoroutineType DEF RunRemove, LibraryTypes
  <2> QED
    BY <1>6, <2>1, <2>2, <2>3 DEF RunRemove, LibraryTypes, fileVars
<1> QED
  BY <1>1, <1>2, <1>3, <1>4, <1>5, <1>6 DEF RunStep

LEMMA SizeType ==
  ASSUME LibraryTypes, NEW f \in Files, NEW k \in 1 .. Len(inodes[f])
  PROVE  inodes[f][k] \in Inode /\ inodes[f][k].size \in Nat
<1>1. inodes[f] \in Seq(Inode)
  BY DEF LibraryTypes
<1>2. inodes[f][k] \in Inode
  BY <1>1, ElementOfSeq
<1> QED
  BY <1>2 DEF Inode

LEMMA WatchTypes ==
  ASSUME LibraryTypes, InodeBounds, NEW t \in Tails, WatchStep(t)
  PROVE  LibraryTypes'
<1>0. /\ path[t] \in Files /\ cur[path[t]] \in Nat /\ chans[path[t]] \in Nat /\ Len(inodes[path[t]]) \in Nat
      /\ cur[path[t]] <= Len(inodes[path[t]])
  BY LenProperties DEF LibraryTypes, InodeBounds
<1>1. CASE GetEvents(t)
  BY <1>1, <1>0, ChannelStep DEF GetEvents, LibraryTypes, OneWatcher, fileVars, kernelVars, trackerVars
<1>2. CASE WatchReceive(t)
  <2>1. run' \in Sending
    BY <1>2, IdleType DEF WatchReceive, Receive
  <2>2. wg' \in [Tails -> Watcher]
    BY <1>2, ReceivedStep DEF OneWatcher
  <2> QED
    BY <1>2, <2>1, <2>2 DEF WatchReceive, LibraryTypes, fileVars, kernelVars, trackerVars
<1>3. CASE WatchEnd(t)
  BY <1>3, ReceiveStep DEF WatchEnd, LibraryTypes, OneWatcher, fileVars, kernelVars, trackerVars
<1>4. CASE WatchStat(t)
  <2>1. cur[path[t]] # 0 => inodes[path[t]][cur[path[t]]].size \in Nat
    BY <1>0, SizeType
  <2>2. wg' \in [Tails -> Watcher]
    <3>1. CASE cur[path[t]] = 0
      <4>1. wg' = [wg EXCEPT ![t].pc = "unwatch", ![t].next = "deleted"]
        BY <1>4, <3>1 DEF WatchStat
      <4> QED
        BY <4>1, ReceiveStep DEF OneWatcher
    <3>2. CASE cur[path[t]] # 0
      <4>1. PICK m \in Nat : m = inodes[path[t]][cur[path[t]]].size
        BY <2>1, <3>2
      <4>2. wg' = [wg EXCEPT ![t].pc = "receive", ![t].size = m]
        BY <1>4, <3>2, <4>1 DEF WatchStat
      <4> QED
        BY <4>2, SizeStep DEF OneWatcher
    <3> QED
      BY <3>1, <3>2
  <2>3. tl' \in [Tails -> Goroutine]
    <3>1. CASE cur[path[t]] = 0
      BY <1>4, <3>1 DEF WatchStat, LibraryTypes
    <3>2. CASE cur[path[t]] # 0
      BY <1>4, <3>2, StatStep DEF OneTail
    <3> QED
      BY <3>1, <3>2
  <2> QED
    BY <1>4, <2>2, <2>3 DEF WatchStat, LibraryTypes, fileVars, kernelVars, trackerVars
<1>5. CASE Unwatch(t)
  BY <1>5, <1>0, UnwatchStep DEF Unwatch, CloseDone, LibraryTypes, OneWatcher, fileVars, kernelVars
<1> QED
  BY <1>1, <1>2, <1>3, <1>4, <1>5 DEF WatchStep

LEMMA EndOfLineType ==
  ASSUME LibraryTypes, NEW t \in Tails PROVE EndOfLine(t) \in Nat /\ tl[t].pos \in Nat
<1>1. tl[t].pos \in Nat
  BY DEF LibraryTypes, Goroutine
<1> QED
  BY <1>1 DEF EndOfLine, LineLen

LEMMA ReadEffect ==
  ASSUME LibraryTypes, InodeBounds, NEW t \in Tails, ReadLine(t)
  PROVE  /\ OneTail(t) /\ tl[t].pc = "read" /\ OpenSize(t) \in Nat
         /\ tl'[t].fd = tl[t].fd /\ tl'[t].pos = tl[t].pos /\ tl'[t].lines = tl[t].lines
         /\ SameWatch(tl[t], tl'[t]) /\ SameWait(tl[t], tl'[t]) /\ SameStop(tl[t], tl'[t])
         /\ \/ /\ tl'[t].pc = "send" /\ EndOfLine(t) <= tl'[t].buf
               /\ tl'[t].buf \in {tl[t].buf, OpenSize(t)}
            \/ /\ tl'[t].pc = IF tl[t].watching THEN "select" ELSE "watch"
               /\ tl'[t].buf = tl[t].pos
               /\ OpenSize(t) < EndOfLine(t) \/ OpenSize(t) < tl[t].buf
<1>0. path[t] \in Files /\ tl[t] \in Goroutine /\ tl[t].pc = "read" /\ Len(inodes[path[t]]) \in Nat
  BY LenProperties DEF LibraryTypes, ReadLine
<1>1. tl[t].fd \in 1 .. Len(inodes[path[t]]) /\ tl[t].buf \in Nat
  BY <1>0 DEF InodeBounds, Opened, Goroutine
<1>2. OpenSize(t) \in Nat
  BY <1>0, <1>1, SizeType DEF OpenSize
<1>3. PICK end \in Nat : end = IF EndOfLine(t) <= tl[t].buf \/ OpenSize(t) < tl[t].buf
                               THEN tl[t].buf ELSE OpenSize(t)
  BY <1>1, <1>2
<1>4. EndOfLine(t) \in Nat /\ tl[t].pos \in Nat
  BY EndOfLineType
<1>5. CASE EndOfLine(t) <= end
  <2>1. tl' = [tl EXCEPT ![t].pc = "send", ![t].buf = end]
    BY <1>3, <1>5 DEF ReadLine, OpenSize
  <2>2. /\ OneTail(t) /\ tl'[t].pc = "send" /\ tl'[t].buf = end /\ tl'[t].fd = tl[t].fd
        /\ tl'[t].pos = tl[t].pos /\ tl'[t].lines = tl[t].lines
        /\ SameWatch(tl[t], tl'[t]) /\ SameWait(tl[t], tl'[t]) /\ SameStop(tl[t], tl'[t])
    BY <2>1, BufferStep DEF Pcs, Opened
  <2> QED
    BY <1>0, <1>2, <1>3, <1>5, <2>2
<1>6. CASE ~(EndOfLine(t) <= end)
  <2>1. PICK p \in Pcs : p = IF tl[t].watching THEN "select" ELSE "watch"
    BY DEF Pcs, Opened
  <2>0. PICK m \in Nat : m = tl[t].pos
    BY <1>4
  <2>2. tl' = [tl EXCEPT ![t].pc = p, ![t].pos = m, ![t].buf = m]
    BY <1>3, <1>6, <2>0, <2>1 DEF ReadLine, OpenSize, SeekBack
  <2>3. /\ OneTail(t) /\ tl'[t].pc = p /\ tl'[t].buf = m /\ tl'[t].fd = tl[t].fd
        /\ tl'[t].pos = m /\ tl'[t].lines = tl[t].lines
        /\ SameWatch(tl[t], tl'[t]) /\ SameWait(tl[t], tl'[t]) /\ SameStop(tl[t], tl'[t])
    <3>1. PICK h : h = [tl[t] EXCEPT !.pc = p, !.pos = m, !.buf = m]
      OBVIOUS
    <3>2. tl' = [tl EXCEPT ![t] = h]
      BY <2>2, <3>1 DEF LibraryTypes
    <3>3. /\ h \in Goroutine /\ h.pc = p /\ h.buf = m /\ h.pos = m /\ h.fd = tl[t].fd
          /\ h.lines = tl[t].lines /\ SameWatch(tl[t], h) /\ SameWait(tl[t], h) /\ SameStop(tl[t], h)
      BY <1>0, <2>0, <2>1, <3>1 DEF Goroutine, SameWatch, SameWait, SameStop
    <3> QED
      BY <3>2, <3>3, TailUpdate
  <2>4. OpenSize(t) < EndOfLine(t) \/ OpenSize(t) < tl[t].buf
    BY <1>1, <1>2, <1>3, <1>4, <1>6
  <2> QED
    BY <1>0, <1>2, <2>0, <2>1, <2>3, <2>4
<1> QED
  BY <1>5, <1>6

LEMMA SendEffect ==
  ASSUME LibraryTypes, NEW t \in Tails, SendLine(t)
  PROVE  /\ OneTail(t) /\ tl[t].pc = "send" /\ tl'[t].pc = "read" /\ tl'[t].pos = EndOfLine(t)
         /\ tl'[t].lines = Append(tl[t].lines, [ino |-> tl[t].fd, from |-> tl[t].pos])
         /\ tl'[t].fd = tl[t].fd /\ tl'[t].buf = tl[t].buf
         /\ SameWatch(tl[t], tl'[t]) /\ SameWait(tl[t], tl'[t]) /\ SameStop(tl[t], tl'[t])
<1>1. tl[t] \in Goroutine /\ [ino |-> tl[t].fd, from |-> tl[t].pos] \in Line /\ tl[t].lines \in Seq(Line)
  BY DEF LibraryTypes, Goroutine, Line
<1>2. PICK l : l = Append(tl[t].lines, [ino |-> tl[t].fd, from |-> tl[t].pos])
  OBVIOUS
<1>3. l \in Seq(Line)
  BY <1>1, <1>2, AppendProperties
<1>4. PICK m \in Nat : m = EndOfLine(t)
  BY EndOfLineType
<1>5. tl' = [tl EXCEPT ![t].pc = "read", ![t].pos = m, ![t].lines = l]
  BY <1>1, <1>2, <1>4 DEF SendLine, LibraryTypes
<1>6. /\ OneTail(t) /\ tl'[t].pc = "read" /\ tl'[t].pos = m /\ tl'[t].lines = l
      /\ tl'[t].fd = tl[t].fd /\ tl'[t].buf = tl[t].buf
      /\ SameWatch(tl[t], tl'[t]) /\ SameWait(tl[t], tl'[t]) /\ SameStop(tl[t], tl'[t])
  BY <1>3, <1>5, LineStep, ZenonT(40)
<1> QED
  BY <1>2, <1>4, <1>6 DEF SendLine

LEMMA ChangedEffect ==
  ASSUME LibraryTypes, NEW t \in Tails, Changed(t)
  PROVE  /\ OneTail(t) /\ tl[t].pc = "select" /\ tl'[t].pc = "read" /\ tl'[t].watching = tl[t].watching
         /\ tl'[t].changes.Deleted = tl[t].changes.Deleted
         /\ tl'[t].changes.Truncated = tl[t].changes.Truncated
         /\ SameRead(tl[t], tl'[t]) /\ SameWait(tl[t], tl'[t]) /\ SameStop(tl[t], tl'[t])
<1>0. tl[t] \in Goroutine /\ tl[t].changes \in Change
  BY DEF LibraryTypes, Goroutine
<1>1. PICK c : c = [tl[t].changes EXCEPT !.Modified = FALSE]
  OBVIOUS
<1>2. c \in Change /\ c.Deleted = tl[t].changes.Deleted /\ c.Truncated = tl[t].changes.Truncated
  BY <1>0, <1>1 DEF Change
<1>3. tl' = [tl EXCEPT ![t].pc = "read", ![t].changes = c]
  BY <1>0, <1>1 DEF Changed, LibraryTypes, Goroutine
<1>4. /\ OneTail(t) /\ tl'[t].pc = "read" /\ tl'[t].watching = tl[t].watching /\ tl'[t].changes = c
      /\ SameRead(tl[t], tl'[t]) /\ SameWait(tl[t], tl'[t]) /\ SameStop(tl[t], tl'[t])
  BY <1>2, <1>3, ChangesStep DEF Pcs, Opened
<1> QED
  BY <1>2, <1>4 DEF Changed

LEMMA MovedEffect ==
  ASSUME LibraryTypes, NEW t \in Tails, Moved(t)
  PROVE  /\ OneTail(t) /\ tl[t].pc = "select" /\ tl'[t].pc = "reopen" /\ tl'[t].fd = 0
         /\ \/ tl[t].changes.Deleted /\ ~tl'[t].watching /\ ~tl'[t].changes.Deleted
            \/ /\ tl[t].changes.Truncated
               /\ tl'[t].watching = tl[t].watching /\ tl'[t].changes.Deleted = tl[t].changes.Deleted
         /\ tl'[t].pos = tl[t].pos /\ tl'[t].lines = tl[t].lines
         /\ SameWait(tl[t], tl'[t]) /\ SameStop(tl[t], tl'[t])
<1>0. tl[t] \in Goroutine /\ tl[t].changes \in Change
  BY DEF LibraryTypes, Goroutine
<1>1. CASE /\ tl[t].changes.Deleted
           /\ tl' = [tl EXCEPT ![t].pc = "reopen", ![t].fd = 0, ![t].watching = FALSE, ![t].changes = NoChanges]
  <2>1. NoChanges \in Change /\ ~NoChanges.Deleted
    BY DEF NoChanges, Change
  <2>2. /\ OneTail(t) /\ tl'[t].pc = "reopen" /\ tl'[t].fd = 0 /\ ~tl'[t].watching
        /\ tl'[t].changes = NoChanges /\ tl'[t].pos = tl[t].pos /\ tl'[t].lines = tl[t].lines
        /\ SameWait(tl[t], tl'[t]) /\ SameStop(tl[t], tl'[t])
    BY <1>1, <2>1, DeletedStep
  <2> QED
    BY <1>1, <2>1, <2>2 DEF Moved
<1>2. CASE /\ tl[t].changes.Truncated
           /\ tl' = [tl EXCEPT ![t].pc = "reopen", ![t].fd = 0, ![t].changes.Truncated = FALSE]
  <2>1. PICK c : c = [tl[t].changes EXCEPT !.Truncated = FALSE]
    OBVIOUS
  <2>2. c \in Change /\ c.Deleted = tl[t].changes.Deleted
    BY <1>0, <2>1 DEF Change
  <2>3. tl' = [tl EXCEPT ![t].pc = "reopen", ![t].fd = 0, ![t].changes = c]
    BY <1>0, <1>2, <2>1 DEF LibraryTypes, Goroutine
  <2>4. /\ OneTail(t) /\ tl'[t].pc = "reopen" /\ tl'[t].fd = 0 /\ tl'[t].watching = tl[t].watching
        /\ tl'[t].changes = c /\ tl'[t].pos = tl[t].pos /\ tl'[t].lines = tl[t].lines
        /\ SameWait(tl[t], tl'[t]) /\ SameStop(tl[t], tl'[t])
    BY <2>2, <2>3, TruncatedStep
  <2> QED
    BY <1>2, <2>2, <2>4 DEF Moved
<1> QED
  BY <1>1, <1>2 DEF Moved

LEMMA CloseFileEffect ==
  ASSUME LibraryTypes, NEW t \in Tails, CloseFile(t)
  PROVE  /\ kwatch' \in [Files -> Nat] /\ events' \in Seq(Event)
         /\ \/ UNCHANGED <<kwatch, events>>
            \/ /\ tl[t].fd # 0 /\ ~inodes[path[t]][tl[t].fd].link
               /\ kwatch' = [kwatch EXCEPT ![path[t]] = 0]
               /\ Elements(events') = Elements(events) \cup {[f |-> path[t], op |-> "Remove"]}
<1>1. path[t] \in Files /\ "Remove" \in EventOps
  BY DEF LibraryTypes, EventOps
<1> QED
  BY <1>1, QueueAdds DEF CloseFile, LibraryTypes

LEMMA TailTypes ==
  ASSUME LibraryTypes, InodeBounds, NEW t \in Tails, TailStep(t) \/ SendLine(t) \/ Start(t) \/ Kill(t)
  PROVE  LibraryTypes'
<1>0. path[t] \in Files /\ cur[path[t]] \in Nat /\ chans[path[t]] \in Nat
  BY DEF LibraryTypes
<1>1. CASE Reopen(t)
  BY <1>1, ReopenEffect DEF Reopen, OneTail, LibraryTypes, fileVars, kernelVars, trackerVars
<1>2. CASE StatCreated(t)
  <2>1. tl' \in [Tails -> Goroutine]
    BY <1>0, <1>2, NextStep, BlockStep DEF StatCreated, OneTail, Pcs, Waiting
  <2> QED
    BY <1>2, <2>1 DEF StatCreated, LibraryTypes, fileVars, kernelVars, trackerVars
<1>3. CASE BlockedReceive(t)
  BY <1>3, NextStep, IdleType DEF BlockedReceive, Receive, OneTail, Pcs, Waiting, LibraryTypes,
     fileVars, kernelVars, trackerVars
<1>4. CASE BlockedEnd(t)
  BY <1>4, NextStep DEF BlockedEnd, OneTail, Pcs, Waiting, LibraryTypes, fileVars, kernelVars, trackerVars
<1>5. CASE UnwatchCreate(t)
  BY <1>0, <1>5, PcStep, Zenon DEF UnwatchCreate, CloseDone, OneTail, Pcs, Waiting, LibraryTypes, fileVars, kernelVars
<1>6. CASE ReadLine(t)
  BY <1>6, ReadEffect, Zenon DEF ReadLine, OneTail, LibraryTypes, fileVars, kernelVars, trackerVars
<1>7. CASE Changed(t)
  BY <1>7, ChangedEffect DEF Changed, OneTail, LibraryTypes, fileVars, kernelVars, trackerVars
<1>8. CASE Moved(t)
  BY <1>8, MovedEffect, CloseFileEffect, Zenon DEF Moved, OneTail, LibraryTypes, fileVars, trackerVars
<1>9. CASE Dying(t)
  BY <1>9, PcStep DEF Dying, OneTail, Pcs, LibraryTypes, fileVars, kernelVars, trackerVars
<1>10. CASE CloseTail(t)
  BY <1>10, DoneStep, CloseFileEffect DEF CloseTail, OneTail, LibraryTypes, fileVars, trackerVars
<1>11. CASE SendLine(t)
  BY <1>11, SendEffect DEF SendLine, OneTail, LibraryTypes, fileVars, kernelVars, trackerVars
<1>12. CASE Start(t)
  BY <1>12, NewTailType DEF Start, LibraryTypes, fileVars, kernelVars, trackerVars
<1>13. CASE Kill(t)
  BY <1>13, KillStep DEF Kill, Killed, OneTail, LibraryTypes, fileVars, kernelVars, trackerVars
<1> QED
  BY <1>1, <1>2, <1>3, <1>4, <1>5, <1>6, <1>7, <1>8, <1>9, <1>10, <1>11, <1>12, <1>13 DEF TailStep

LEMMA TypesStep ==
  ASSUME LibraryTypes, InodeBounds, Step PROVE LibraryTypes'
<1>1. CASE UNCHANGED tailVars
  BY <1>1 DEF tailVars, LibraryTypes, fileVars, kernelVars, trackerVars
<1> QED
  BY <1>1, FileTypes, RunTypes, WatchTypes, TailTypes DEF Step

-----------------------------------------------------------------------------
(* What a change of a file does to it.                                      *)

SameOthers(f) ==
  \A g \in Files \ {f} : inodes'[g] = inodes[g] /\ cur'[g] = cur[g] /\ kwatch'[g] = kwatch[g]

\* The events that a change of f with this operation may add.
Adds(f, op) ==
  /\ Elements(events) \subseteq Elements(events')
  /\ \A e \in Elements(events') : e \in Elements(events) \/ e = [f |-> f, op |-> op]

LEMMA AnnounceAdds ==
  ASSUME LibraryTypes, NEW f \in Files, NEW op \in EventOps, Announce(f, op)
  PROVE  /\ Adds(f, op)
         /\ kwatch[f] # 0 /\ kwatch[f] = cur[f] => [f |-> f, op |-> op] \in Elements(events')
<1> DEFINE q == IF dirNums > 0 THEN Queue(events, f, op) ELSE events
           e == [f |-> f, op |-> op]
<1>1. q \in Seq(Event) /\ Elements(events) \subseteq Elements(q) /\ Elements(q) \subseteq Elements(events) \cup {e}
  <2>1. CASE dirNums > 0
    BY <2>1, QueueAdds DEF LibraryTypes
  <2>2. CASE ~(dirNums > 0)
    BY <2>2 DEF LibraryTypes
  <2> QED
    BY <2>1, <2>2
<1>2. events' = IF kwatch[f] # 0 /\ kwatch[f] = cur[f] THEN Queue(q, f, op) ELSE q
  BY DEF Announce
<1> HIDE DEF q, e
<1>3. Elements(Queue(q, f, op)) = Elements(q) \cup {e}
  BY <1>1, QueueAdds DEF e
<1>4. CASE kwatch[f] # 0 /\ kwatch[f] = cur[f]
  BY <1>1, <1>2, <1>3, <1>4 DEF Adds, e
<1>5. CASE ~(kwatch[f] # 0 /\ kwatch[f] = cur[f])
  BY <1>1, <1>2, <1>5 DEF Adds, e
<1> QED
  BY <1>4, <1>5

Grows(f) ==
  /\ cur[f] # 0 /\ cur' = cur /\ replaced' = replaced /\ Adds(f, "Write")
  /\ Len(inodes'[f]) = Len(inodes[f])
  /\ \A k \in 1 .. Len(inodes[f]) : inodes'[f][k].link = inodes[f][k].link
                                    /\ inodes[f][k].size <= inodes'[f][k].size
  /\ kwatch[f] # 0 /\ kwatch[f] = cur[f] => [f |-> f, op |-> "Write"] \in Elements(events')
  /\ \A t \in Followers(f) : tl[t].pc = "watch" => t \in missed'

Appears(f) ==
  /\ cur[f] = 0 /\ cur' = [cur EXCEPT ![f] = Len(inodes[f]) + 1] /\ replaced' = replaced
  /\ Adds(f, "Create")
  /\ Len(inodes'[f]) = Len(inodes[f]) + 1 /\ Len(inodes'[f]) <= MaxInodes
  /\ inodes'[f][Len(inodes'[f])].link
  /\ \A k \in 1 .. Len(inodes[f]) : inodes'[f][k] = inodes[f][k]

Goes(f) ==
  /\ f \in replaced' /\ replaced \subseteq replaced'
  /\ \A g \in replaced' : g \in replaced \/ g = f
  /\ Len(inodes'[f]) = Len(inodes[f])
  /\ cur'[f] \in {0, cur[f]} /\ kwatch'[f] \in {0, kwatch[f]}
  /\ Elements(events) \subseteq Elements(events')
  /\ \A e \in Elements(events') : e \in Elements(events) \/ e.f = f

LEMMA FileEffect ==
  ASSUME LibraryTypes, InodeBounds, NEW f \in Files, FileStep(f)
  PROVE  /\ UNCHANGED <<path, tl, wg, run, trackerVars>>
         /\ SameOthers(f) /\ missed \subseteq missed'
         /\ \/ Grows(f) /\ kwatch' = kwatch
            \/ Appears(f) /\ kwatch' = kwatch /\ missed' = missed
            \/ Goes(f) /\ missed' = missed
<1> DEFINE s == inodes[f]
           c == cur[f]
<1>0. /\ s \in Seq(Inode) /\ c \in Nat /\ Len(s) \in Nat /\ c <= Len(s) /\ inodes \in [Files -> Seq(Inode)]
      /\ cur \in [Files -> Nat] /\ kwatch \in [Files -> Nat]
      /\ \A k \in 1 .. Len(s) : s[k] \in Inode
  BY LenProperties, ElementOfSeq DEF LibraryTypes, InodeBounds
<1>w. {"Write", "Create", "Rename", "Remove", "Chmod"} \subseteq EventOps
  BY DEF EventOps
<1>1. CASE AppendByte(f)
  <2>1. c \in 1 .. Len(s) /\ cur[f] # 0
    BY <1>0, <1>1 DEF AppendByte
  <2>2. PICK v : v = [s[c] EXCEPT !.size = @ + 1]
    OBVIOUS
  <2>3. s[c] \in Inode /\ v \in Inode /\ v.link = s[c].link /\ s[c].size <= v.size
    <3>1. s[c] \in Inode
      BY <1>0, <2>1
    <3> HIDE DEF s, c
    <3> QED
      BY <2>2, <3>1 DEF Inode
  <2>4. inodes' = [inodes EXCEPT ![f] = [s EXCEPT ![c] = v]]
    BY <1>0, <1>1, <2>2 DEF AppendByte
  <2> HIDE DEF s, c
  <2>5. /\ [s EXCEPT ![c] = v] \in Seq(Inode) /\ Len([s EXCEPT ![c] = v]) = Len(s)
        /\ \A k \in 1 .. Len(s) : [s EXCEPT ![c] = v][k] = IF k = c THEN v ELSE s[k]
    BY <1>0, <2>1, <2>3, ExceptSeq
  <2>6. \A k \in 1 .. Len(s) : [s EXCEPT ![c] = v][k].link = s[k].link /\ s[k].size <= [s EXCEPT ![c] = v][k].size
    BY <1>0, <2>1, <2>3, <2>5 DEF Inode
  <2>7. /\ Len(inodes'[f]) = Len(inodes[f])
        /\ \A k \in 1 .. Len(inodes[f]) : inodes'[f][k].link = inodes[f][k].link
                                          /\ inodes[f][k].size <= inodes'[f][k].size
    BY <1>0, <2>4, <2>5, <2>6 DEF s
  <2>8. /\ Adds(f, "Write")
        /\ kwatch[f] # 0 /\ kwatch[f] = cur[f] => [f |-> f, op |-> "Write"] \in Elements(events')
    BY <1>1, <1>w, AnnounceAdds DEF AppendByte
  <2>9. Grows(f) /\ kwatch' = kwatch /\ SameOthers(f) /\ missed \subseteq missed'
    BY <1>0, <1>1, <2>1, <2>4, <2>7, <2>8 DEF AppendByte, Grows, SameOthers
  <2> QED
    BY <1>1, <2>9 DEF AppendByte, trackerVars
<1>2. CASE CreateFile(f)
  <2>1. PICK v \in Inode : v = [size |-> 0, link |-> TRUE]
    BY DEF Inode
  <2>2. inodes' = [inodes EXCEPT ![f] = Append(s, v)] /\ v.link
    BY <1>2, <2>1 DEF CreateFile
  <2>3. inodes'[f] = Append(s, v) /\ \A g \in Files \ {f} : inodes'[g] = inodes[g]
    BY <1>0, <2>2
  <2>4. /\ Len(Append(s, v)) = Len(s) + 1 /\ Append(s, v)[Len(s) + 1] = v
        /\ \A k \in 1 .. Len(s) : Append(s, v)[k] = s[k]
    BY <1>0, <2>1, AppendProperties
  <2>5. Adds(f, "Create")
    <3>1. CASE dirNums > 0
      <4>1. events' = Queue(events, f, "Create") /\ events \in Seq(Event) /\ "Create" \in EventOps
        BY <1>2, <1>w, <3>1 DEF CreateFile, LibraryTypes
      <4>2. Elements(events') = Elements(events) \cup {[f |-> f, op |-> "Create"]}
        BY <4>1, QueueAdds
      <4> QED
        BY <4>2 DEF Adds
    <3>2. CASE ~(dirNums > 0)
      BY <1>2, <3>2 DEF CreateFile, Adds
    <3> QED
      BY <3>1, <3>2
  <2>6. Len(s) < MaxInodes /\ MaxInodes \in Nat
    BY <1>2, TailAssumption DEF CreateFile
  <2>7. Appears(f)
    BY <1>0, <1>2, <2>2, <2>3, <2>4, <2>5, <2>6 DEF CreateFile, Appears
  <2>8. SameOthers(f) /\ kwatch' = kwatch /\ missed' = missed
    BY <1>0, <1>2, <2>3 DEF CreateFile, SameOthers
  <2> QED
    BY <1>2, <2>7, <2>8 DEF CreateFile, trackerVars
<1>3. CASE TruncateFile(f)
  <2>1. c \in 1 .. Len(s)
    BY <1>0, <1>3 DEF TruncateFile
  <2>2. inodes' = [inodes EXCEPT ![f] = [s EXCEPT ![c] = [s[c] EXCEPT !.size = 0]]]
    BY <1>0, <1>3 DEF TruncateFile
  <2>3. [s[c] EXCEPT !.size = 0] \in Inode
    BY <1>0, <2>1 DEF Inode
  <2> HIDE DEF s, c
  <2>4. Len([s EXCEPT ![c] = [s[c] EXCEPT !.size = 0]]) = Len(s)
    BY <1>0, <2>1, <2>3, ExceptSeq
  <2>5. Len(inodes'[f]) = Len(inodes[f]) /\ \A g \in Files \ {f} : inodes'[g] = inodes[g]
    BY <1>0, <2>2, <2>4 DEF s
  <2>6. Adds(f, "Write")
    BY <1>3, <1>w, AnnounceAdds DEF TruncateFile
  <2>7. Goes(f) /\ SameOthers(f) /\ missed' = missed
    BY <1>3, <2>5, <2>6 DEF TruncateFile, Goes, Adds, SameOthers
  <2> QED
    BY <1>3, <2>7 DEF TruncateFile, trackerVars
<1>4. CASE UnlinkFile(f)
  <2>1. c \in 1 .. Len(s)
    BY <1>0, <1>4 DEF UnlinkFile
  <2>2. inodes' = [inodes EXCEPT ![f] = [s EXCEPT ![c] = [s[c] EXCEPT !.link = FALSE]]]
    BY <1>0, <1>4 DEF UnlinkFile
  <2>3. [s[c] EXCEPT !.link = FALSE] \in Inode
    BY <1>0, <2>1 DEF Inode
  <2> HIDE DEF s, c
  <2>4. Len([s EXCEPT ![c] = [s[c] EXCEPT !.link = FALSE]]) = Len(s)
    BY <1>0, <2>1, <2>3, ExceptSeq
  <2>5. Len(inodes'[f]) = Len(inodes[f]) /\ \A g \in Files \ {f} : inodes'[g] = inodes[g]
    BY <1>0, <2>2, <2>4 DEF s
  <2>6. /\ Elements(events) \subseteq Elements(events')
        /\ \A e \in Elements(events') : e \in Elements(events) \/ e.f = f
    <3>1. PICK q : q = IF dirNums > 0 THEN Queue(events, f, "Remove") ELSE events
      OBVIOUS
    <3>2. /\ q \in Seq(Event) /\ Elements(events) \subseteq Elements(q)
          /\ \A e \in Elements(q) : e \in Elements(events) \/ e.f = f
      <4>1. CASE dirNums > 0
        <5>1. q = Queue(events, f, "Remove") /\ events \in Seq(Event) /\ "Remove" \in EventOps
          BY <1>w, <3>1, <4>1 DEF LibraryTypes
        <5>2. q \in Seq(Event) /\ Elements(q) = Elements(events) \cup {[f |-> f, op |-> "Remove"]}
          BY <5>1, QueueAdds
        <5> QED
          BY <5>2
      <4>2. CASE ~(dirNums > 0)
        BY <3>1, <4>2 DEF LibraryTypes
      <4> QED
        BY <4>1, <4>2
    <3>3. events' \in {q, Queue(q, f, "Chmod"), Queue(q, f, "Remove")}
      BY <1>4, <3>1 DEF UnlinkFile
    <3>4. /\ Elements(Queue(q, f, "Chmod")) = Elements(q) \cup {[f |-> f, op |-> "Chmod"]}
          /\ Elements(Queue(q, f, "Remove")) = Elements(q) \cup {[f |-> f, op |-> "Remove"]}
      BY <1>w, <3>2, QueueAdds
    <3> QED
      BY <3>2, <3>3, <3>4
  <2>7. cur'[f] = 0 /\ kwatch'[f] \in {0, kwatch[f]} /\ \A g \in Files \ {f} : cur'[g] = cur[g] /\ kwatch'[g] = kwatch[g]
    BY <1>0, <1>4 DEF UnlinkFile
  <2>8. Goes(f) /\ SameOthers(f) /\ missed' = missed
    BY <1>4, <2>5, <2>6, <2>7 DEF UnlinkFile, Goes, SameOthers
  <2> QED
    BY <1>4, <2>8 DEF UnlinkFile, trackerVars
<1>5. CASE RenameFile(f)
  <2>1. Adds(f, "Rename")
    BY <1>5, <1>w, AnnounceAdds DEF RenameFile
  <2>2. Goes(f) /\ SameOthers(f) /\ missed' = missed
    BY <1>0, <1>5, <2>1 DEF RenameFile, Goes, Adds, SameOthers
  <2> QED
    BY <1>5, <2>2 DEF RenameFile, trackerVars
<1> QED
  BY <1>1, <1>2, <1>3, <1>4, <1>5 DEF FileStep

-----------------------------------------------------------------------------
(* What run does for a tail.                                                *)

RunWatched(t) ==
  /\ watchNums[path[t]] > 0 \/ cur[path[t]] # 0
  /\ tl'[t].pc = "select" /\ tl'[t].watching /\ tl'[t].changes = NoChanges
  /\ wg'[t].pc = "events" /\ wg'[t].size = tl[t].pos /\ wg'[t].next = "none"
  /\ watchNums' = [watchNums EXCEPT ![path[t]] = @ + 1]
  /\ kwatch' = IF watchNums[path[t]] = 0 THEN [kwatch EXCEPT ![path[t]] = cur[path[t]]] ELSE kwatch
  /\ failed' = failed

RunFailed(t) ==
  /\ watchNums[path[t]] = 0 /\ cur[path[t]] = 0
  /\ tl'[t].pc = "close" /\ SameWatch(tl[t], tl'[t])
  /\ failed' = failed \cup {path[t]}
  /\ UNCHANGED <<kwatch, watchNums, wg>>

LEMMA RunWatchEffect ==
  ASSUME LibraryTypes, NEW t \in Tails, RunWatch(t)
  PROVE  /\ OneTail(t) /\ OneWatcher(t) /\ tl[t].pc = "watch" /\ OpenChans(path[t])
         /\ SameRead(tl[t], tl'[t]) /\ SameWait(tl[t], tl'[t]) /\ SameStop(tl[t], tl'[t])
         /\ RunWatched(t) \/ RunFailed(t)
         /\ run = Idle /\ UNCHANGED <<fileVars, events, dirNums, run, missed>>
<1>1. CASE /\ watchNums[path[t]] > 0 \/ cur[path[t]] # 0
           /\ kwatch' = IF watchNums[path[t]] = 0 THEN [kwatch EXCEPT ![path[t]] = cur[path[t]]] ELSE kwatch
           /\ watchNums' = Counted(path[t])
           /\ tl' = [tl EXCEPT ![t].pc = "select", ![t].watching = TRUE, ![t].changes = NoChanges]
           /\ wg' = [wg EXCEPT ![t] = [NoGoroutine EXCEPT !.pc = "events", !.size = tl[t].pos]]
           /\ UNCHANGED failed
  <2>1. /\ OneTail(t) /\ tl'[t].pc = "select" /\ tl'[t].watching /\ tl'[t].changes = NoChanges
        /\ SameRead(tl[t], tl'[t]) /\ SameWait(tl[t], tl'[t]) /\ SameStop(tl[t], tl'[t])
    BY <1>1, WatchingStep
  <2>2. PICK h : h = [NoGoroutine EXCEPT !.pc = "events", !.size = tl[t].pos]
    OBVIOUS
  <2>3. h \in Watcher /\ h.pc = "events" /\ h.size = tl[t].pos /\ h.next = "none"
    BY <2>2, NoGoroutineType DEF LibraryTypes, Goroutine, Watcher
  <2>4. OneWatcher(t) /\ wg'[t] = h
    BY <1>1, <2>2, <2>3, WatcherUpdate
  <2>5. RunWatched(t)
    BY <1>1, <2>1, <2>3, <2>4 DEF RunWatched, Counted
  <2> QED
    BY <2>1, <2>4, <2>5 DEF RunWatch
<1>2. CASE /\ watchNums[path[t]] = 0 /\ cur[path[t]] = 0
           /\ tl' = [tl EXCEPT ![t].pc = "close"]
           /\ failed' = failed \union {path[t]}
           /\ UNCHANGED <<kwatch, watchNums, wg>>
  <2>1. /\ OneTail(t) /\ tl'[t].pc = "close" /\ SameRead(tl[t], tl'[t]) /\ SameWatch(tl[t], tl'[t])
        /\ SameWait(tl[t], tl'[t]) /\ SameStop(tl[t], tl'[t])
    BY <1>2, PcStep DEF Pcs
  <2>2. OneWatcher(t)
    BY <1>2 DEF OneWatcher, LibraryTypes
  <2> QED
    BY <1>2, <2>1, <2>2 DEF RunWatch, RunFailed
<1> QED
  BY <1>1, <1>2 DEF RunWatch

LEMMA RunRemoveEffect ==
  ASSUME LibraryTypes, NEW t \in Tails, RunRemove(t)
  PROVE  /\ OneWatcher(t) /\ wg[t].pc = "remove" /\ wg'[t].pc = "none" /\ wg'[t].next = "none"
         /\ CloseChan(path[t])
         /\ watchNums' = [watchNums EXCEPT ![path[t]] = @ - 1]
         /\ kwatch' \in {kwatch, [kwatch EXCEPT ![path[t]] = 0]}
         /\ run = Idle /\ UNCHANGED <<fileVars, events, done, dirNums, failed, run, missed>>
  BY NoGoroutineType, WatcherUpdate DEF RunRemove

LEMMA RunWatchCreateEffect ==
  ASSUME LibraryTypes, NEW t \in Tails, RunWatchCreate(t)
  PROVE  /\ OneTail(t) /\ tl[t].pc = "watchCreate" /\ tl'[t].pc = "stat" /\ OpenChans(path[t])
         /\ SameRead(tl[t], tl'[t]) /\ SameWatch(tl[t], tl'[t])
         /\ SameWait(tl[t], tl'[t]) /\ SameStop(tl[t], tl'[t])
  BY PcStep DEF RunWatchCreate, Pcs, Waiting

(* What a tail does to itself.                                              *)

LEMMA StatCreatedEffect ==
  ASSUME LibraryTypes, NEW t \in Tails, StatCreated(t)
  PROVE  /\ OneTail(t) /\ tl[t].pc = "stat"
         /\ \/ tl'[t].pc = "unwatchCreate" /\ tl'[t].next = "reopen"
            \/ tl'[t].pc = "blocked" /\ tl'[t].ch = chans[path[t]]
         /\ SameRead(tl[t], tl'[t]) /\ SameWatch(tl[t], tl'[t]) /\ SameStop(tl[t], tl'[t])
<1>1. chans[path[t]] \in Nat
  BY DEF LibraryTypes
<1>2. CASE cur[path[t]] # 0
  BY <1>2, NextStep DEF StatCreated, Pcs, Waiting
<1>3. CASE cur[path[t]] = 0
  <2>1. PICK c \in Nat : c = chans[path[t]]
    BY <1>1
  <2>2. PICK p \in Pcs : p = "blocked"
    BY DEF Pcs, Waiting
  <2>3. tl' = [tl EXCEPT ![t].pc = p, ![t].ch = c]
    BY <1>3, <2>1, <2>2 DEF StatCreated
  <2>4. /\ OneTail(t) /\ tl'[t].pc = p /\ tl'[t].ch = c
        /\ SameRead(tl[t], tl'[t]) /\ SameWatch(tl[t], tl'[t]) /\ SameStop(tl[t], tl'[t])
    BY <2>3, BlockStep, ZenonT(40)
  <2>5. tl[t].pc = "stat"
    BY DEF StatCreated
  <2> QED
    BY <2>1, <2>2, <2>4, <2>5
<1> QED
  BY <1>2, <1>3

LEMMA BlockedEffect ==
  ASSUME LibraryTypes, NEW t \in Tails, BlockedReceive(t) \/ BlockedEnd(t)
  PROVE  /\ OneTail(t) /\ tl[t].pc = "blocked" /\ tl'[t].pc = "unwatchCreate"
         /\ \/ BlockedReceive(t) /\ tl'[t].next = "reopen"
            \/ BlockedEnd(t) /\ tl'[t].next = "close"
         /\ SameRead(tl[t], tl'[t]) /\ SameWatch(tl[t], tl'[t]) /\ SameStop(tl[t], tl'[t])
  BY NextStep DEF BlockedReceive, BlockedEnd, Pcs, Waiting

LEMMA UnwatchCreateEffect ==
  ASSUME LibraryTypes, NEW t \in Tails, UnwatchCreate(t)
  PROVE  /\ OneTail(t) /\ tl[t].pc = "unwatchCreate" /\ tl'[t].pc = "removeCreate"
         /\ SameRead(tl[t], tl'[t]) /\ SameWatch(tl[t], tl'[t])
         /\ SameWait(tl[t], tl'[t]) /\ SameStop(tl[t], tl'[t])
  BY PcStep DEF UnwatchCreate, Pcs, Waiting

LEMMA DyingEffect ==
  ASSUME LibraryTypes, NEW t \in Tails, Dying(t)
  PROVE  /\ OneTail(t) /\ tl[t].pc = "select" /\ tl[t].dying /\ tl'[t].pc = "close"
         /\ SameRead(tl[t], tl'[t]) /\ SameWatch(tl[t], tl'[t])
         /\ SameWait(tl[t], tl'[t]) /\ SameStop(tl[t], tl'[t])
  BY PcStep DEF Dying, Pcs

LEMMA CloseTailEffect ==
  ASSUME LibraryTypes, NEW t \in Tails, CloseTail(t)
  PROVE  /\ OneTail(t) /\ tl[t].pc = "close" /\ tl'[t].pc = "done" /\ tl'[t].fd = 0 /\ tl'[t].dying
         /\ tl'[t].pos = tl[t].pos /\ tl'[t].lines = tl[t].lines
         /\ SameWatch(tl[t], tl'[t]) /\ SameWait(tl[t], tl'[t])
  BY DoneStep DEF CloseTail

LEMMA KillEffect ==
  ASSUME LibraryTypes, NEW t \in Tails, Kill(t)
  PROVE  /\ OneTail(t) /\ tl'[t].pc = tl[t].pc /\ tl'[t].dying
         /\ SameRead(tl[t], tl'[t]) /\ SameWatch(tl[t], tl'[t]) /\ SameWait(tl[t], tl'[t])
  BY KillStep DEF Kill, Killed

LEMMA StartEffect ==
  ASSUME LibraryTypes, NEW t \in Tails, Start(t)
  PROVE  /\ OneTail(t) /\ tl[t].pc = "none" /\ tl'[t].pc = "reopen" /\ tl'[t].fd = 0 /\ tl'[t].pos = 0
         /\ ~tl'[t].watching /\ tl'[t].changes = NoChanges /\ tl'[t].lines = <<>>
<1>1. /\ NewTail.pc = "reopen" /\ NewTail.fd = 0 /\ NewTail.pos = 0 /\ ~NewTail.watching
      /\ NewTail.changes = NoChanges /\ NewTail.lines = <<>>
  BY DEF NewTail
<1>2. OneTail(t) /\ tl'[t] = NewTail
  BY NewTailType, TailUpdate DEF Start
<1> QED
  BY <1>1, <1>2 DEF Start

LEMMA WatchStatEffect ==
  ASSUME LibraryTypes, InodeBounds, NEW t \in Tails, WatchStat(t)
  PROVE  /\ wg[t].pc = "stat" /\ OneTail(t) /\ OneWatcher(t)
         /\ tl'[t].pc = tl[t].pc /\ tl'[t].watching = tl[t].watching
         /\ tl'[t].changes.Deleted = tl[t].changes.Deleted
         /\ SameRead(tl[t], tl'[t]) /\ SameWait(tl[t], tl'[t]) /\ SameStop(tl[t], tl'[t])
         /\ wg'[t].ch = wg[t].ch
         /\ \/ /\ cur[path[t]] = 0 /\ wg'[t].pc = "unwatch" /\ wg'[t].next = "deleted" /\ tl' = tl
            \/ /\ cur[path[t]] # 0 /\ wg'[t].pc = "receive" /\ wg'[t].next = wg[t].next
               /\ wg'[t].size = inodes[path[t]][cur[path[t]]].size
               /\ \/ tl'[t].changes.Modified /\ tl'[t].changes.Truncated = tl[t].changes.Truncated
                  \/ wg[t].size > 0 /\ wg[t].size > inodes[path[t]][cur[path[t]]].size
<1>0. /\ path[t] \in Files /\ cur[path[t]] \in Nat /\ Len(inodes[path[t]]) \in Nat
      /\ cur[path[t]] <= Len(inodes[path[t]])
  BY LenProperties DEF LibraryTypes, InodeBounds
<1>1. CASE cur[path[t]] = 0
  <2>1. wg' = [wg EXCEPT ![t].pc = "unwatch", ![t].next = "deleted"] /\ tl' = tl /\ wg[t].pc = "stat"
    BY <1>1 DEF WatchStat
  <2>2. OneWatcher(t) /\ wg'[t].pc = "unwatch" /\ wg'[t].next = "deleted" /\ wg'[t].ch = wg[t].ch
    BY <2>1, ReceiveStep
  <2> QED
    BY <1>1, <2>1, <2>2 DEF OneTail, LibraryTypes, SameRead, SameWait, SameStop
<1>2. CASE cur[path[t]] # 0
  <2>1. PICK m : m = inodes[path[t]][cur[path[t]]].size
    OBVIOUS
  <2>2. m \in Nat
    BY <1>0, <1>2, <2>1, SizeType
  <2>3. wg' = [wg EXCEPT ![t].pc = "receive", ![t].size = m] /\ wg[t].pc = "stat"
    BY <1>2, <2>1 DEF WatchStat
  <2>4. /\ OneWatcher(t) /\ wg'[t].pc = "receive" /\ wg'[t].size = m /\ wg'[t].ch = wg[t].ch
        /\ wg'[t].next = wg[t].next
    BY <2>2, <2>3, SizeStep
  <2> QED
    BY <1>2, <2>1, <2>3, <2>4, StatStep
<1> QED
  BY <1>1, <1>2

-----------------------------------------------------------------------------
(* A step that leaves the files alone, and one tail's open inode.           *)

OpenBounds(t) ==
  tl[t].fd <= Len(inodes[path[t]]) /\ (tl[t].pc \in Opened => tl[t].fd # 0)

LEMMA BoundsKept ==
  ASSUME LibraryTypes, InodeBounds, UNCHANGED fileVars, NEW t \in Tails, OneTail(t),
         tl'[t].fd \in {0, tl[t].fd, cur[path[t]]},
         tl'[t].pc \in Opened => tl'[t].fd # 0,
         \A f \in Files : kwatch'[f] \in {0, kwatch[f], cur[f]}
  PROVE  InodeBounds'
<1>0. MaxInodes \in Nat
  BY TailAssumption
<1>1. path' = path /\ inodes' = inodes /\ cur' = cur
  BY DEF fileVars
<1>2. \A f \in Files : Len(inodes[f]) \in Nat /\ cur[f] \in Nat /\ cur[f] <= Len(inodes[f])
                       /\ Len(inodes[f]) <= MaxInodes /\ kwatch[f] \in Nat /\ kwatch[f] <= MaxInodes
  BY LenProperties DEF LibraryTypes, InodeBounds
<1>3. \A f \in Files : kwatch'[f] <= MaxInodes
  BY <1>0, <1>2
<1>4. path[t] \in Files /\ tl[t].fd \in Nat
  BY DEF LibraryTypes, Goroutine
<1>5. tl'[t].fd <= Len(inodes[path[t]])
  BY <1>2, <1>4 DEF InodeBounds
<1>6. \A u \in Tails : tl'[u].fd <= Len(inodes[path[u]]) /\ (tl'[u].pc \in Opened => tl'[u].fd # 0)
  BY <1>5 DEF InodeBounds, OneTail
<1> QED
  BY <1>1, <1>2, <1>3, <1>6 DEF InodeBounds

LEMMA SameKwatch ==
  ASSUME kwatch' = kwatch PROVE \A f \in Files : kwatch'[f] \in {0, kwatch[f], cur[f]}
  OBVIOUS

LEMMA BoundsStep ==
  ASSUME LibraryTypes, InodeBounds, Shapes, Step PROVE InodeBounds'
<1>1. ASSUME NEW f \in Files, FileStep(f) PROVE InodeBounds'
  <2>0. MaxInodes \in Nat
    BY TailAssumption
  <2>1. /\ UNCHANGED <<path, tl, wg, run, trackerVars>> /\ SameOthers(f)
        /\ (Grows(f) /\ kwatch' = kwatch) \/ (Appears(f) /\ kwatch' = kwatch) \/ Goes(f)
    BY <1>1, FileEffect
  <2>2. \A g \in Files : Len(inodes[g]) \in Nat /\ cur[g] \in Nat /\ cur[g] <= Len(inodes[g])
                         /\ Len(inodes[g]) <= MaxInodes /\ kwatch[g] \in Nat /\ kwatch[g] <= MaxInodes
    BY LenProperties DEF LibraryTypes, InodeBounds
  <2>3. /\ Len(inodes[f]) <= Len(inodes'[f]) /\ cur'[f] <= Len(inodes'[f]) /\ Len(inodes'[f]) <= MaxInodes
        /\ kwatch'[f] <= MaxInodes /\ Len(inodes'[f]) \in Nat
    BY <2>0, <2>1, <2>2 DEF Grows, Appears, Goes, LibraryTypes
  <2>4. \A g \in Files \ {f} : inodes'[g] = inodes[g] /\ cur'[g] = cur[g] /\ kwatch'[g] = kwatch[g]
    BY <2>1 DEF SameOthers
  <2>5. \A t \in Tails : path[t] \in Files /\ tl[t].fd \in Nat
    BY DEF LibraryTypes, Goroutine
  <2>6. \A g \in Files : cur'[g] <= Len(inodes'[g]) /\ Len(inodes'[g]) <= MaxInodes /\ kwatch'[g] <= MaxInodes
    BY <2>2, <2>3, <2>4
  <2>7. \A t \in Tails : tl[t].fd <= Len(inodes'[path[t]])
    BY <2>2, <2>3, <2>4, <2>5 DEF InodeBounds
  <2> QED
    BY <2>1, <2>6, <2>7 DEF InodeBounds
<1>2. CASE RunStep
  <2>1. CASE RunEvent \/ RunGiveUp
    BY <2>1 DEF RunEvent, RunGiveUp, InodeBounds, fileVars, kernelVars
  <2>2. ASSUME NEW t \in Tails, RunWatchCreate(t) PROVE InodeBounds'
    BY <2>2, BoundsKept, RunWatchCreateEffect, SameKwatch DEF RunWatchCreate, kernelVars, SameRead, Opened
  <2>3. ASSUME NEW t \in Tails, RunRemoveCreate(t) PROVE InodeBounds'
    <3>1. tl[t].next \notin Opened
      BY DEF LibraryTypes, Goroutine, Opened
    <3> QED
      BY <2>3, <3>1, BoundsKept, RemoveCreateStep, SameKwatch DEF RunRemoveCreate, kernelVars, SameRead
  <2>4. ASSUME NEW t \in Tails, RunWatch(t) PROVE InodeBounds'
    <3>1. \A f \in Files : kwatch'[f] \in {0, kwatch[f], cur[f]}
      <4>1. /\ kwatch \in [Files -> Nat]
            /\ kwatch' = kwatch \/ kwatch' = [kwatch EXCEPT ![path[t]] = cur[path[t]]]
        BY <2>4, RunWatchEffect DEF RunWatched, RunFailed, LibraryTypes
      <4> QED
        BY <4>1
    <3>2. tl[t].fd # 0
      BY <2>4, RunWatchEffect DEF InodeBounds, Opened
    <3> QED
      BY <2>4, <3>1, <3>2, BoundsKept, RunWatchEffect DEF SameRead
  <2>5. ASSUME NEW t \in Tails, RunRemove(t) PROVE InodeBounds'
    <3>1. \A f \in Files : kwatch'[f] \in {0, kwatch[f], cur[f]}
      <4>1. kwatch \in [Files -> Nat] /\ kwatch' \in {kwatch, [kwatch EXCEPT ![path[t]] = 0]}
        BY <2>5, RunRemoveEffect DEF LibraryTypes
      <4> QED
        BY <4>1
    <3>2. UNCHANGED fileVars
      BY <2>5 DEF RunRemove
    <3>3. OneTail(t) /\ tl'[t].fd = tl[t].fd /\ tl'[t].pc = tl[t].pc
      BY <2>5, RemoveStep DEF SameRead
    <3>4. tl'[t].pc \in Opened => tl'[t].fd # 0
      BY <3>3 DEF InodeBounds
    <3> QED
      BY <3>1, <3>2, <3>3, <3>4, BoundsKept
  <2> QED
    BY <1>2, <2>1, <2>2, <2>3, <2>4, <2>5 DEF RunStep
<1>3. ASSUME NEW t \in Tails, WatchStep(t) PROVE InodeBounds'
  <2>1. CASE GetEvents(t) \/ WatchReceive(t) \/ WatchEnd(t) \/ Unwatch(t)
    BY <2>1 DEF GetEvents, WatchReceive, WatchEnd, Unwatch, InodeBounds, fileVars, kernelVars
  <2>2. CASE WatchStat(t)
    <3>1. OneTail(t) /\ tl'[t].fd = tl[t].fd /\ tl'[t].pc = tl[t].pc
      BY <2>2, WatchStatEffect DEF SameRead
    <3>2. UNCHANGED fileVars /\ kwatch' = kwatch
      BY <2>2 DEF WatchStat, kernelVars
    <3>3. tl'[t].pc \in Opened => tl'[t].fd # 0
      BY <3>1 DEF InodeBounds
    <3> QED
      BY <3>1, <3>2, <3>3, BoundsKept, SameKwatch
  <2> QED
    BY <1>3, <2>1, <2>2 DEF WatchStep
<1>4. ASSUME NEW t \in Tails, TailStep(t) PROVE InodeBounds'
  <2>1. CASE Reopen(t)
    <3>1. OneTail(t) /\ tl'[t].fd = cur[path[t]] /\ (tl'[t].pc \in Opened => tl'[t].fd # 0)
      BY <2>1, ReopenEffect DEF Opened
    <3>2. UNCHANGED fileVars /\ kwatch' = kwatch
      BY <2>1 DEF Reopen, kernelVars
    <3> QED
      BY <3>1, <3>2, BoundsKept, SameKwatch
  <2>2. CASE StatCreated(t)
    BY <2>2, BoundsKept, StatCreatedEffect, SameKwatch DEF StatCreated, kernelVars, Opened, SameRead
  <2>3. CASE BlockedReceive(t) \/ BlockedEnd(t)
    BY <2>3, BoundsKept, BlockedEffect, SameKwatch DEF BlockedReceive, BlockedEnd, kernelVars, Opened, SameRead
  <2>4. CASE UnwatchCreate(t)
    BY <2>4, BoundsKept, UnwatchCreateEffect, SameKwatch, Zenon DEF UnwatchCreate, kernelVars, Opened, SameRead
  <2>5. CASE ReadLine(t)
    <3>1. tl[t].fd # 0
      BY <2>5, ReadEffect DEF InodeBounds, Opened
    <3> QED
      BY <2>5, <3>1, BoundsKept, ReadEffect, SameKwatch, Zenon DEF ReadLine, kernelVars
  <2>6. CASE Changed(t)
    <3>1. tl[t].fd # 0
      BY <2>6, ChangedEffect DEF InodeBounds, Opened
    <3> QED
      <4>1. OneTail(t) /\ tl'[t].fd = tl[t].fd
        BY <2>6, ChangedEffect DEF SameRead
      <4>2. UNCHANGED fileVars /\ kwatch' = kwatch
        BY <2>6 DEF Changed, kernelVars
      <4> QED
        BY <3>1, <4>1, <4>2, BoundsKept, SameKwatch
  <2>7. CASE Moved(t)
    <3>1. \A f \in Files : kwatch'[f] \in {0, kwatch[f], cur[f]}
      BY <2>7, CloseFileEffect DEF Moved, LibraryTypes
    <3> QED
      BY <2>7, <3>1, BoundsKept, MovedEffect, Zenon DEF Moved, Opened
  <2>8. CASE Dying(t)
    BY <2>8, BoundsKept, DyingEffect, SameKwatch DEF Dying, kernelVars, Opened, SameRead
  <2>9. CASE CloseTail(t)
    <3>1. \A f \in Files : kwatch'[f] \in {0, kwatch[f], cur[f]}
      BY <2>9, CloseFileEffect DEF CloseTail, LibraryTypes
    <3> QED
      BY <2>9, <3>1, BoundsKept, CloseTailEffect DEF CloseTail, Opened
  <2> QED
    BY <1>4, <2>1, <2>2, <2>3, <2>4, <2>5, <2>6, <2>7, <2>8, <2>9 DEF TailStep
<1>5. ASSUME NEW t \in Tails, SendLine(t) PROVE InodeBounds'
  <2>1. tl[t].fd # 0
    BY <1>5, SendEffect DEF InodeBounds, Opened
  <2> QED
    BY <1>5, <2>1, BoundsKept, SendEffect, SameKwatch DEF SendLine, kernelVars
<1>6. ASSUME NEW t \in Tails, Start(t) PROVE InodeBounds'
  BY <1>6, BoundsKept, StartEffect, SameKwatch DEF Start, kernelVars, Opened
<1>7. ASSUME NEW t \in Tails, Kill(t) PROVE InodeBounds'
  <2>1. OneTail(t) /\ tl'[t].fd = tl[t].fd /\ tl'[t].pc = tl[t].pc
    BY <1>7, KillEffect DEF SameRead
  <2>2. tl'[t].pc \in Opened => tl'[t].fd # 0
    BY <2>1 DEF InodeBounds
  <2> QED
    BY <1>7, <2>1, <2>2, BoundsKept, SameKwatch DEF Kill, kernelVars
<1>8. CASE UNCHANGED tailVars
  BY <1>8 DEF tailVars, fileVars, kernelVars, InodeBounds
<1> QED
  BY <1>1, <1>2, <1>3, <1>4, <1>5, <1>6, <1>7, <1>8 DEF Step

-----------------------------------------------------------------------------
(* Tails and their watching goroutines.                                     *)

LEMMA SameTails ==
  ASSUME LibraryTypes, tl' = tl, NEW t \in Tails PROVE OneTail(t)
  BY DEF OneTail, LibraryTypes

LEMMA SameWatchers ==
  ASSUME LibraryTypes, wg' = wg, NEW t \in Tails PROVE OneWatcher(t) /\ wg'[t] = wg[t]
  BY DEF OneWatcher, LibraryTypes

LEMMA ShapesKept ==
  ASSUME Shapes, NEW t \in Tails, OneTail(t), OneWatcher(t), Shape(t)' PROVE Shapes'
<1>1. \A u \in Tails \ {t} : Shape(u)'
  BY DEF OneTail, OneWatcher, Shapes, Shape
<1> QED
  BY <1>1 DEF Shapes

LEMMA NoChangesFacts == ~NoChanges.Modified /\ ~NoChanges.Truncated /\ ~NoChanges.Deleted
  BY DEF NoChanges

LEMMA RunShapes ==
  ASSUME LibraryTypes, InodeBounds, Shapes, RunStep PROVE Shapes'
<1>1. CASE RunEvent \/ RunGiveUp
  BY <1>1 DEF RunEvent, RunGiveUp, Shapes, Shape
<1>2. ASSUME NEW t \in Tails, RunWatchCreate(t) PROVE Shapes'
  <2>1. OneWatcher(t) /\ wg'[t] = wg[t] /\ OneTail(t)
    BY <1>2, SameWatchers, RunWatchCreateEffect DEF RunWatchCreate
  <2>2. Shape(t)'
    BY <1>2, <2>1, RunWatchCreateEffect DEF Shapes, Shape, SameWatch
  <2> QED
    BY <2>1, <2>2, ShapesKept
<1>3. ASSUME NEW t \in Tails, RunRemoveCreate(t) PROVE Shapes'
  <2>1. OneWatcher(t) /\ wg'[t] = wg[t] /\ OneTail(t)
    BY <1>3, SameWatchers, RemoveCreateStep DEF RunRemoveCreate
  <2>2. tl[t].next \in {"reopen", "close"}
    BY <1>3 DEF RunRemoveCreate, Shapes, Shape
  <2>3. Shape(t)'
    BY <1>3, <2>1, <2>2, RemoveCreateStep DEF Shapes, Shape, SameWatch
  <2> QED
    BY <2>1, <2>3, ShapesKept
<1>4. ASSUME NEW t \in Tails, RunWatch(t) PROVE Shapes'
  <2>1. Shape(t)'
    <3>1. CASE RunWatched(t)
      BY <3>1, NoChangesFacts DEF RunWatched, Shape
    <3>2. CASE RunFailed(t)
      BY <1>4, <3>2, RunWatchEffect DEF RunFailed, Shapes, Shape, SameWatch
    <3> QED
      BY <1>4, <3>1, <3>2, RunWatchEffect
  <2> QED
    BY <1>4, <2>1, ShapesKept, RunWatchEffect
<1>5. ASSUME NEW t \in Tails, RunRemove(t) PROVE Shapes'
  <2>1. Shape(t)'
    BY <1>5, RunRemoveEffect, RemoveStep DEF Shapes, Shape, SameWait
  <2> QED
    BY <1>5, <2>1, ShapesKept, RunRemoveEffect, RemoveStep
<1> QED
  BY <1>1, <1>2, <1>3, <1>4, <1>5 DEF RunStep

LEMMA WatchShapes ==
  ASSUME LibraryTypes, InodeBounds, Shapes, NEW t \in Tails, WatchStep(t) PROVE Shapes'
<1>0. wg[t] \in Watcher /\ chans[path[t]] \in Nat /\ Shape(t)
  BY DEF LibraryTypes, Shapes
<1>1. CASE GetEvents(t)
  <2>1. OneWatcher(t) /\ wg'[t].pc = "receive"
    BY <1>0, <1>1, ChannelStep DEF GetEvents
  <2>2. OneTail(t) /\ tl' = tl /\ wg[t].pc = "events"
    BY <1>1, SameTails DEF GetEvents
  <2>3. Shape(t)'
    BY <1>0, <2>1, <2>2 DEF Shape
  <2> QED
    BY <2>1, <2>2, <2>3, ShapesKept
<1>2. CASE WatchReceive(t)
  <2>1. OneWatcher(t) /\ wg'[t].ch = wg[t].ch /\ wg'[t].pc # "none"
    BY <1>2, ReceivedStep
  <2>2. OneTail(t) /\ tl' = tl /\ wg[t].pc = "receive" /\ wg[t].ch # 0
    BY <1>2, SameTails DEF WatchReceive, Receive
  <2>3. Shape(t)'
    BY <1>0, <2>1, <2>2 DEF Shape
  <2> QED
    BY <2>1, <2>2, <2>3, ShapesKept
<1>3. CASE WatchEnd(t)
  <2>1. OneWatcher(t) /\ wg'[t].pc = "unwatch"
    BY <1>3, ReceiveStep DEF WatchEnd
  <2>2. OneTail(t) /\ tl' = tl /\ wg[t].pc = "receive"
    BY <1>3, SameTails DEF WatchEnd
  <2>3. Shape(t)'
    BY <1>0, <2>1, <2>2 DEF Shape
  <2> QED
    BY <2>1, <2>2, <2>3, ShapesKept
<1>4. CASE WatchStat(t)
  <2>1. Shape(t)'
    BY <1>0, <1>4, WatchStatEffect DEF Shape, SameWait
  <2> QED
    BY <1>4, <2>1, WatchStatEffect, ShapesKept
<1>5. CASE Unwatch(t)
  <2>1. OneWatcher(t) /\ wg'[t].pc = "remove"
    BY <1>5, UnwatchStep DEF Unwatch
  <2>2. OneTail(t) /\ tl' = tl /\ wg[t].pc = "unwatch"
    BY <1>5, SameTails DEF Unwatch
  <2>3. Shape(t)'
    BY <1>0, <2>1, <2>2 DEF Shape
  <2> QED
    BY <2>1, <2>2, <2>3, ShapesKept
<1> QED
  BY <1>1, <1>2, <1>3, <1>4, <1>5 DEF WatchStep

LEMMA TailShapes ==
  ASSUME LibraryTypes, InodeBounds, Shapes, NEW t \in Tails,
         TailStep(t) \/ SendLine(t) \/ Start(t) \/ Kill(t)
  PROVE  Shapes'
<1>0. Shape(t)
  BY DEF Shapes
<1>w. OneWatcher(t) /\ wg'[t] = wg[t]
  BY SameWatchers, Zenon DEF TailStep, Reopen, StatCreated, BlockedReceive, BlockedEnd, UnwatchCreate, ReadLine,
     Changed, Moved, Dying, CloseTail, SendLine, Start, Kill
<1> DEFINE Goal == OneTail(t) /\ Shape(t)'
<1>1. ASSUME Reopen(t) PROVE Goal
  BY <1>0, <1>1, <1>w, ReopenEffect DEF Shape, SameWatch, SameWait
<1>2. ASSUME StatCreated(t) PROVE Goal
  BY <1>0, <1>2, <1>w, StatCreatedEffect DEF Shape, SameWatch
<1>3. ASSUME BlockedReceive(t) \/ BlockedEnd(t) PROVE Goal
  BY <1>0, <1>3, <1>w, BlockedEffect DEF Shape, SameWatch
<1>4. ASSUME UnwatchCreate(t) PROVE Goal
  BY <1>0, <1>4, <1>w, UnwatchCreateEffect DEF Shape, SameWatch, SameWait
<1>5. ASSUME ReadLine(t) PROVE Goal
  BY <1>0, <1>5, <1>w, ReadEffect DEF Shape, SameWatch, SameWait
<1>6. ASSUME Changed(t) PROVE Goal
  BY <1>0, <1>6, <1>w, ChangedEffect DEF Shape, SameWait
<1>7. ASSUME Moved(t) PROVE Goal
  BY <1>0, <1>7, <1>w, MovedEffect DEF Shape, SameWait
<1>8. ASSUME Dying(t) PROVE Goal
  BY <1>0, <1>8, <1>w, DyingEffect DEF Shape, SameWatch, SameWait
<1>9. ASSUME CloseTail(t) PROVE Goal
  BY <1>0, <1>9, <1>w, CloseTailEffect DEF Shape, SameWatch, SameWait
<1>10. ASSUME SendLine(t) PROVE Goal
  BY <1>0, <1>10, <1>w, SendEffect DEF Shape, SameWatch, SameWait
<1>11. ASSUME Start(t) PROVE Goal
  BY <1>0, <1>11, <1>w, StartEffect, NoChangesFacts DEF Shape
<1>12. ASSUME Kill(t) PROVE Goal
  BY <1>0, <1>12, <1>w, KillEffect DEF Shape, SameWatch, SameWait
<1>13. Goal
  BY <1>1, <1>2, <1>3, <1>4, <1>5, <1>6, <1>7, <1>8, <1>9, <1>10, <1>11, <1>12 DEF TailStep
<1> QED
  BY <1>w, <1>13, ShapesKept

LEMMA ShapesStep ==
  ASSUME LibraryTypes, InodeBounds, Shapes, Step PROVE Shapes'
<1>1. ASSUME NEW f \in Files, FileStep(f) PROVE Shapes'
  <2>1. tl' = tl /\ wg' = wg
    BY <1>1, FileEffect
  <2> QED
    BY <2>1 DEF Shapes, Shape
<1>2. CASE UNCHANGED tailVars
  BY <1>2 DEF tailVars, Shapes, Shape
<1> QED
  BY <1>1, <1>2, RunShapes, WatchShapes, TailShapes DEF Step

-----------------------------------------------------------------------------
(* The counters of the tracker.                                             *)

SameWaiters == \A u \in Tails : tl'[u].pc \in Waiting <=> tl[u].pc \in Waiting
SameWatching == \A u \in Tails : wg'[u].pc = "none" <=> wg[u].pc = "none"

LEMMA WaitersKept == ASSUME SameWaiters PROVE Waiters' = Waiters
  BY DEF SameWaiters, Waiters

LEMMA WatchersKept ==
  ASSUME SameWatching, path' = path, NEW f \in Files PROVE Watchers(f)' = Watchers(f)
  BY DEF SameWatching, Watchers, Followers

LEMMA CountsKept ==
  ASSUME Counts, UNCHANGED <<path, watchNums, dirNums>>, SameWaiters, SameWatching PROVE Counts'
  BY WaitersKept, WatchersKept DEF Counts

LEMMA SetsFinite ==
  IsFiniteSet(Waiters) /\ \A f : IsFiniteSet(Watchers(f)) /\ IsFiniteSet(Followers(f))
<1>1. Waiters \in SUBSET Tails /\ \A f : Watchers(f) \in SUBSET Tails /\ Followers(f) \in SUBSET Tails
  BY DEF Waiters, Watchers, Followers
<1> QED
  BY <1>1, FS_Subset, TailAssumption

LEMMA WaitingOfOne ==
  ASSUME LibraryTypes, NEW t \in Tails, OneTail(t), tl'[t].pc \in Waiting <=> tl[t].pc \in Waiting
  PROVE  SameWaiters
  BY DEF OneTail, SameWaiters

LEMMA WatchingOfOne ==
  ASSUME LibraryTypes, NEW t \in Tails, OneWatcher(t), wg'[t].pc = "none" <=> wg[t].pc = "none"
  PROVE  SameWatching
  BY DEF OneWatcher, SameWatching

LEMMA RunCounts ==
  ASSUME LibraryTypes, Shapes, Counts, RunStep PROVE Counts'
<1>1. CASE RunEvent \/ RunGiveUp
  BY <1>1, CountsKept DEF RunEvent, RunGiveUp, fileVars, trackerVars, SameWaiters, SameWatching
<1>2. ASSUME NEW t \in Tails, RunWatchCreate(t) PROVE Counts'
  <2>1. SameWatching /\ path' = path /\ watchNums' = watchNums /\ dirNums' = dirNums + 1
    BY <1>2 DEF RunWatchCreate, SameWatching, fileVars
  <2>2. Waiters' = Waiters \cup {t} /\ t \notin Waiters
    BY <1>2, RunWatchCreateEffect DEF OneTail, Waiters, Waiting
  <2>3. Cardinality(Waiters') = Cardinality(Waiters) + 1
    BY <2>2, SetsFinite, FS_AddElement
  <2>4. \A f \in Files : Watchers(f)' = Watchers(f)
    BY <2>1, WatchersKept
  <2> QED
    BY <2>1, <2>3, <2>4 DEF Counts
<1>3. ASSUME NEW t \in Tails, RunRemoveCreate(t) PROVE Counts'
  <2>1. SameWatching /\ path' = path /\ watchNums' = watchNums /\ dirNums' = dirNums - 1
    BY <1>3 DEF RunRemoveCreate, SameWatching, fileVars
  <2>2. tl[t].next \notin Waiting /\ tl[t].pc = "removeCreate"
    BY <1>3 DEF RunRemoveCreate, LibraryTypes, Goroutine, Waiting
  <2>3. Waiters' = Waiters \ {t} /\ t \in Waiters
    BY <1>3, <2>2, RemoveCreateStep DEF OneTail, Waiters, Waiting
  <2>4. Cardinality(Waiters') = Cardinality(Waiters) - 1
    BY <2>3, SetsFinite, FS_RemoveElement
  <2>5. \A f \in Files : Watchers(f)' = Watchers(f)
    BY <2>1, WatchersKept
  <2> QED
    BY <2>1, <2>4, <2>5 DEF Counts
<1>4. ASSUME NEW t \in Tails, RunWatch(t) PROVE Counts'
  <2>1. OneTail(t) /\ OneWatcher(t) /\ tl[t].pc = "watch" /\ path' = path /\ dirNums' = dirNums
    BY <1>4, RunWatchEffect DEF fileVars
  <2>2. wg[t].pc = "none" /\ path[t] \in Files
    BY <2>1 DEF Shapes, Shape, LibraryTypes
  <2>g. PICK g \in Files : g = path[t]
    BY <2>2
  <2>3. CASE RunWatched(t)
    <3>1. SameWaiters
      BY <2>1, <2>3, WaitingOfOne DEF RunWatched, Waiting
    <3>2. \A f \in Files \ {g} : Watchers(f)' = Watchers(f)
      BY <2>1, <2>g DEF OneWatcher, Watchers, Followers
    <3>3. Watchers(g)' = Watchers(g) \cup {t} /\ t \notin Watchers(g)
      BY <2>1, <2>2, <2>3, <2>g DEF OneWatcher, Watchers, Followers, RunWatched
    <3>4. Cardinality(Watchers(g)') = Cardinality(Watchers(g)) + 1
      BY <3>3, SetsFinite, FS_AddElement
    <3>5. /\ watchNums'[g] = watchNums[g] + 1
          /\ \A f \in Files \ {g} : watchNums'[f] = watchNums[f]
      BY <2>2, <2>3, <2>g DEF RunWatched, LibraryTypes
    <3>6. \A f \in Files : watchNums'[f] = Cardinality(Watchers(f)')
      <4> SUFFICES ASSUME NEW f \in Files PROVE watchNums'[f] = Cardinality(Watchers(f)')
        OBVIOUS
      <4>1. CASE f = g
        BY <3>4, <3>5, <4>1 DEF Counts
      <4>2. CASE f # g
        BY <3>2, <3>5, <4>2 DEF Counts
      <4> QED
        BY <4>1, <4>2
    <3> QED
      BY <2>1, <3>1, <3>6, WaitersKept DEF Counts
  <2>4. CASE RunFailed(t)
    <3>1. SameWaiters
      BY <2>1, <2>4, WaitingOfOne DEF RunFailed, Waiting
    <3>2. SameWatching /\ watchNums' = watchNums
      BY <2>4 DEF RunFailed, SameWatching
    <3> QED
      BY <2>1, <3>1, <3>2, CountsKept
  <2> QED
    BY <1>4, <2>3, <2>4, RunWatchEffect
<1>5. ASSUME NEW t \in Tails, RunRemove(t) PROVE Counts'
  <2>1. OneTail(t) /\ tl'[t].pc = tl[t].pc
    BY <1>5, RemoveStep
  <2>2. /\ OneWatcher(t) /\ wg[t].pc = "remove" /\ wg'[t].pc = "none" /\ path' = path /\ dirNums' = dirNums
        /\ path[t] \in Files /\ watchNums' = [watchNums EXCEPT ![path[t]] = @ - 1]
    BY <1>5, RunRemoveEffect DEF fileVars, LibraryTypes
  <2>3. SameWaiters
    BY <2>1, WaitingOfOne
  <2>g. PICK g \in Files : g = path[t]
    BY <2>2
  <2>4. \A f \in Files \ {g} : Watchers(f)' = Watchers(f)
    BY <2>2, <2>g DEF OneWatcher, Watchers, Followers
  <2>5. Watchers(g)' = Watchers(g) \ {t} /\ t \in Watchers(g)
    BY <2>2, <2>g DEF OneWatcher, Watchers, Followers
  <2>6. Cardinality(Watchers(g)') = Cardinality(Watchers(g)) - 1
    BY <2>5, SetsFinite, FS_RemoveElement
  <2>7. /\ watchNums'[g] = watchNums[g] - 1
        /\ \A f \in Files \ {g} : watchNums'[f] = watchNums[f]
    BY <2>2, <2>g DEF LibraryTypes
  <2>8. \A f \in Files : watchNums'[f] = Cardinality(Watchers(f)')
    <3> SUFFICES ASSUME NEW f \in Files PROVE watchNums'[f] = Cardinality(Watchers(f)')
      OBVIOUS
    <3>1. CASE f = g
      BY <2>6, <2>7, <3>1 DEF Counts
    <3>2. CASE f # g
      BY <2>4, <2>7, <3>2 DEF Counts
    <3> QED
      BY <3>1, <3>2
  <2> QED
    BY <2>2, <2>3, <2>8, WaitersKept DEF Counts
<1> QED
  BY <1>1, <1>2, <1>3, <1>4, <1>5 DEF RunStep

LEMMA WatchCounts ==
  ASSUME LibraryTypes, InodeBounds, Counts, NEW t \in Tails, WatchStep(t) PROVE Counts'
<1>1. UNCHANGED <<path, watchNums, dirNums>>
  BY DEF WatchStep, GetEvents, WatchReceive, WatchEnd, WatchStat, Unwatch, fileVars, trackerVars
<1>2. SameWaiters
  <2>1. CASE WatchStat(t)
    BY <2>1, WatchStatEffect, WaitingOfOne
  <2>2. CASE ~WatchStat(t)
    BY <2>2 DEF WatchStep, GetEvents, WatchReceive, WatchEnd, Unwatch, SameWaiters
  <2> QED
    BY <2>1, <2>2
<1>3. OneWatcher(t) /\ wg[t].pc # "none" /\ wg'[t].pc # "none"
  <2>0. chans[path[t]] \in Nat
    BY DEF LibraryTypes
  <2>1. CASE GetEvents(t)
    BY <2>0, <2>1, ChannelStep DEF GetEvents
  <2>2. CASE WatchReceive(t)
    BY <2>2, ReceivedStep DEF WatchReceive
  <2>3. CASE WatchEnd(t)
    BY <2>3, ReceiveStep DEF WatchEnd
  <2>4. CASE WatchStat(t)
    BY <2>4, WatchStatEffect
  <2>5. CASE Unwatch(t)
    BY <2>5, UnwatchStep, Zenon DEF Unwatch
  <2> QED
    BY <2>1, <2>2, <2>3, <2>4, <2>5 DEF WatchStep
<1> QED
  BY <1>1, <1>2, <1>3, WatchingOfOne, CountsKept

LEMMA TailCounts ==
  ASSUME LibraryTypes, InodeBounds, Counts, NEW t \in Tails,
         TailStep(t) \/ SendLine(t) \/ Start(t) \/ Kill(t)
  PROVE  Counts'
<1>1. UNCHANGED <<path, watchNums, dirNums, wg>>
  BY Zenon DEF TailStep, Reopen, StatCreated, BlockedReceive, BlockedEnd, UnwatchCreate, ReadLine,
     Changed, Moved, Dying, CloseTail, SendLine, Start, Kill, fileVars, trackerVars
<1> DEFINE Goal == OneTail(t) /\ (tl'[t].pc \in Waiting <=> tl[t].pc \in Waiting)
<1>2. ASSUME Reopen(t) PROVE Goal
  BY <1>2, ReopenEffect DEF Waiting
<1>3. ASSUME StatCreated(t) PROVE Goal
  BY <1>3, StatCreatedEffect DEF Waiting
<1>4. ASSUME BlockedReceive(t) \/ BlockedEnd(t) PROVE Goal
  BY <1>4, BlockedEffect DEF Waiting
<1>5. ASSUME UnwatchCreate(t) PROVE Goal
  BY <1>5, UnwatchCreateEffect DEF Waiting
<1>6. ASSUME ReadLine(t) PROVE Goal
  BY <1>6, ReadEffect DEF Waiting
<1>7. ASSUME Changed(t) PROVE Goal
  BY <1>7, ChangedEffect DEF Waiting
<1>8. ASSUME Moved(t) PROVE Goal
  BY <1>8, MovedEffect DEF Waiting
<1>9. ASSUME Dying(t) PROVE Goal
  BY <1>9, DyingEffect DEF Waiting
<1>10. ASSUME CloseTail(t) PROVE Goal
  BY <1>10, CloseTailEffect DEF Waiting
<1>11. ASSUME SendLine(t) PROVE Goal
  BY <1>11, SendEffect DEF Waiting
<1>12. ASSUME Start(t) PROVE Goal
  BY <1>12, StartEffect DEF Waiting
<1>13. ASSUME Kill(t) PROVE Goal
  BY <1>13, KillEffect DEF Waiting
<1>14. Goal
  BY <1>2, <1>3, <1>4, <1>5, <1>6, <1>7, <1>8, <1>9, <1>10, <1>11, <1>12, <1>13 DEF TailStep
<1>15. SameWaiters
  BY <1>14, WaitingOfOne
<1> QED
  BY <1>1, <1>15, CountsKept DEF SameWatching

LEMMA CountsStep ==
  ASSUME LibraryTypes, InodeBounds, Shapes, Counts, Step PROVE Counts'
<1>1. ASSUME NEW f \in Files, FileStep(f) PROVE Counts'
  <2>1. UNCHANGED <<path, tl, wg, trackerVars>>
    BY <1>1, FileEffect
  <2> QED
    BY <2>1, CountsKept DEF trackerVars, SameWaiters, SameWatching
<1>2. CASE UNCHANGED tailVars
  BY <1>2, CountsKept DEF tailVars, fileVars, trackerVars, SameWaiters, SameWatching
<1> QED
  BY <1>1, <1>2, RunCounts, WatchCounts, TailCounts DEF Step

-----------------------------------------------------------------------------
(* The tracker's goroutine and those who attend to its channels.            *)

LEMMA BusyStep ==
  ASSUME LibraryTypes, InodeBounds, Busy, Step PROVE Busy'
<1>1. ASSUME NEW f \in Files, FileStep(f) PROVE Busy'
  <2>1. UNCHANGED <<run, trackerVars>>
    BY <1>1, FileEffect
  <2> QED
    BY <2>1 DEF Busy, trackerVars
<1>2. CASE RunStep
  <2>1. CASE RunEvent
    <3>1. Head(events) \in Event
      BY <2>1, TailKeeps DEF RunEvent, LibraryTypes
    <3>2. PICK e \in Event : e = Head(events)
      BY <3>1
    <3>3. e.f \in Files
      BY <3>2 DEF Event
    <3>4. CASE chans[e.f] # 0 /\ done[e.f] # 0
      <4>1. run' = [f |-> e.f, op |-> e.op, ch |-> chans[e.f], done |-> done[e.f]]
        BY <2>1, <3>2, <3>4 DEF RunEvent
      <4>2. run'.f = e.f /\ run'.ch = chans[e.f] /\ run'.done = done[e.f] /\ chans' = chans
        BY <2>1, <4>1 DEF RunEvent, trackerVars
      <4> QED
        BY <3>3, <3>4, <4>2 DEF Busy
    <3>5. CASE ~(chans[e.f] # 0 /\ done[e.f] # 0)
      <4>1. run' = Idle
        BY <2>1, <3>2, <3>5 DEF RunEvent
      <4> QED
        BY <4>1 DEF Busy, Idle
    <3> QED
      BY <3>4, <3>5
  <2>2. CASE RunGiveUp
    BY <2>2 DEF RunGiveUp, Busy, Idle
  <2>3. CASE \E t \in Tails : RunWatchCreate(t) \/ RunRemoveCreate(t) \/ RunWatch(t) \/ RunRemove(t)
    <3>1. run' = Idle
      BY <2>3 DEF RunWatchCreate, RunRemoveCreate, RunWatch, RunRemove
    <3> QED
      BY <3>1 DEF Busy, Idle
  <2> QED
    BY <1>2, <2>1, <2>2, <2>3 DEF RunStep
<1>3. ASSUME NEW t \in Tails, WatchStep(t) PROVE Busy'
  <2>1. CASE WatchReceive(t)
    BY <2>1 DEF WatchReceive, Receive, Busy, Idle
  <2>2. CASE ~WatchReceive(t)
    BY <1>3, <2>2 DEF WatchStep, GetEvents, WatchEnd, WatchStat, Unwatch, Busy, trackerVars
  <2> QED
    BY <2>1, <2>2
<1>4. ASSUME NEW t \in Tails, TailStep(t) \/ SendLine(t) \/ Start(t) \/ Kill(t) PROVE Busy'
  <2>1. CASE BlockedReceive(t)
    BY <2>1 DEF BlockedReceive, Receive, Busy, Idle
  <2>2. CASE ~BlockedReceive(t)
    BY <1>4, <2>2, Zenon DEF TailStep, Reopen, StatCreated, BlockedEnd, UnwatchCreate, ReadLine,
       Changed, Moved, Dying, CloseTail, SendLine, Start, Kill, Busy, trackerVars
  <2> QED
    BY <2>1, <2>2
<1>5. CASE UNCHANGED tailVars
  BY <1>5 DEF tailVars, trackerVars, Busy
<1> QED
  BY <1>1, <1>2, <1>3, <1>4, <1>5 DEF Step

\* The channels of the files that tail t does not follow.
OtherChans(t) == \A f \in Files \ {path[t]} : chans'[f] = chans[f] /\ done'[f] = done[f]

LEMMA AttendedKept ==
  ASSUME LibraryTypes, Attended, path' = path, failed \subseteq failed',
         NEW t \in Tails, OneTail(t), OneWatcher(t), OtherChans(t),
         NEW g \in Files, g = path[t],
         \/ done'[g] = 0 \/ chans'[g] = 0
         \/ g \in failed' \/ Attends(t)'
         \/ done'[g] = done[g] /\ chans'[g] = chans[g] /\ ~Attends(t)
  PROVE  Attended'
<1>1. \A f : Followers(f)' = Followers(f)
  BY DEF Followers
<1>2. \A u \in Tails \ {t} : Attends(u) => Attends(u)'
  BY DEF OneTail, OneWatcher, Attends
<1>3. t \in Followers(g)
  BY DEF Followers
<1>4. \A f \in Files : Followers(f) \subseteq Tails /\ (f # g => t \notin Followers(f))
  BY DEF Followers
<1> SUFFICES ASSUME NEW f \in Files, done'[f] # 0, chans'[f] # 0
             PROVE  f \in failed' \/ \E u \in Followers(f) : Attends(u)'
  BY <1>1 DEF Attended
<1>5. CASE f = g /\ (g \in failed' \/ Attends(t)')
  BY <1>3, <1>5
<1>6. CASE f = g /\ done'[g] = done[g] /\ chans'[g] = chans[g] /\ ~Attends(t)
  <2>1. f \in failed \/ \E u \in Followers(f) : Attends(u)
    BY <1>6 DEF Attended
  <2> QED
    BY <1>2, <1>4, <1>6, <2>1
<1>7. CASE f # g
  <2>1. f \in failed \/ \E u \in Followers(f) : Attends(u)
    BY <1>7 DEF Attended, OtherChans
  <2> QED
    BY <1>2, <1>4, <1>7, <2>1
<1> QED
  BY <1>5, <1>6, <1>7

LEMMA SameChans ==
  ASSUME UNCHANGED <<chans, done>>, NEW t \in Tails PROVE OtherChans(t)
  BY DEF OtherChans

LEMMA AttendedStep ==
  ASSUME LibraryTypes, InodeBounds, Shapes, Attended, Step PROVE Attended'
<1>1. ASSUME NEW f \in Files, FileStep(f) PROVE Attended'
  <2>1. UNCHANGED <<path, tl, wg, trackerVars>>
    BY <1>1, FileEffect
  <2> QED
    BY <2>1 DEF Attended, trackerVars, Followers, Attends
<1>2. CASE RunEvent \/ RunGiveUp \/ UNCHANGED tailVars
  <2>1. UNCHANGED <<path, tl, wg, trackerVars>>
    BY <1>2 DEF RunEvent, RunGiveUp, tailVars, fileVars
  <2> QED
    BY <2>1 DEF Attended, trackerVars, Followers, Attends
<1>3. ASSUME NEW t \in Tails,
             RunWatchCreate(t) \/ RunRemoveCreate(t) \/ RunWatch(t) \/ RunRemove(t)
             \/ WatchStep(t) \/ TailStep(t) \/ SendLine(t) \/ Start(t) \/ Kill(t)
      PROVE  Attended'
  <2>g. PICK g \in Files : g = path[t]
    BY DEF LibraryTypes
  <2> DEFINE Goal == /\ path' = path /\ failed \subseteq failed' /\ OneTail(t) /\ OneWatcher(t) /\ OtherChans(t)
                     /\ \/ done'[g] = 0 \/ chans'[g] = 0
                        \/ g \in failed' \/ Attends(t)'
                        \/ done'[g] = done[g] /\ chans'[g] = chans[g] /\ ~Attends(t)
  <2>0. Shape(t) /\ chans[path[t]] \in Nat /\ chans \in [Files -> Nat] /\ done \in [Files -> Nat]
    BY DEF Shapes, LibraryTypes
  <2>1. ASSUME RunWatchCreate(t) PROVE Goal
    <3>1. OneWatcher(t) /\ path' = path /\ failed' = failed
      BY <2>1, SameWatchers DEF RunWatchCreate, fileVars
    <3>2. OtherChans(t)
      BY <2>1, <2>g, RunWatchCreateEffect, OpenChansType DEF OtherChans
    <3>3. OneTail(t) /\ Attends(t)'
      BY <2>1, RunWatchCreateEffect DEF Attends
    <3> QED
      BY <3>1, <3>2, <3>3
  <2>2. ASSUME RunRemoveCreate(t) PROVE Goal
    <3>1. OneWatcher(t) /\ path' = path /\ failed' = failed
      BY <2>2, SameWatchers DEF RunRemoveCreate, fileVars
    <3>2. OtherChans(t) /\ chans'[g] = 0
      BY <2>0, <2>2, <2>g DEF RunRemoveCreate, CloseChan, OtherChans
    <3> QED
      BY <2>2, <3>1, <3>2, RemoveCreateStep
  <2>3. ASSUME RunWatch(t) PROVE Goal
    <3>1. OneTail(t) /\ OneWatcher(t) /\ path' = path
      BY <2>3, RunWatchEffect DEF fileVars
    <3>2. OtherChans(t)
      BY <2>3, <2>g, RunWatchEffect, OpenChansType DEF OtherChans
    <3>3. CASE RunWatched(t)
      BY <3>1, <3>2, <3>3 DEF RunWatched, Attends
    <3>4. CASE RunFailed(t)
      BY <2>g, <3>1, <3>2, <3>4 DEF RunFailed
    <3> QED
      BY <2>3, <3>3, <3>4, RunWatchEffect
  <2>4. ASSUME RunRemove(t) PROVE Goal
    <3>1. OtherChans(t) /\ chans'[g] = 0 /\ path' = path /\ failed' = failed
      BY <2>0, <2>4, <2>g DEF RunRemove, CloseChan, OtherChans, fileVars
    <3> QED
      BY <2>4, <3>1, RunRemoveEffect, RemoveStep
  <2>5. ASSUME WatchStep(t) PROVE Goal
    <3>1. CASE GetEvents(t)
      <4>1. OneWatcher(t) /\ wg'[t].pc = "receive" /\ wg'[t].ch = chans[path[t]]
        BY <2>0, <3>1, ChannelStep DEF GetEvents
      <4>2. OneTail(t) /\ OtherChans(t) /\ path' = path /\ failed' = failed /\ chans' = chans
        BY <3>1, SameTails, SameChans DEF GetEvents, fileVars, trackerVars
      <4>3. chans'[g] = 0 \/ Attends(t)'
        BY <2>g, <4>1, <4>2 DEF Attends
      <4> QED
        BY <4>1, <4>2, <4>3
    <3>2. CASE WatchReceive(t)
      <4>1. OneTail(t) /\ OtherChans(t) /\ path' = path /\ failed' = failed /\ wg[t].ch # 0
        BY <3>2, SameTails, SameChans DEF WatchReceive, Receive, fileVars, trackerVars
      <4>2. OneWatcher(t) /\ Attends(t)'
        BY <3>2, <4>1, ReceivedStep DEF Attends
      <4> QED
        BY <4>1, <4>2
    <3>3. CASE WatchEnd(t)
      <4>1. OneTail(t) /\ OtherChans(t) /\ path' = path /\ failed' = failed
        BY <3>3, SameTails, SameChans DEF WatchEnd, fileVars, trackerVars
      <4>2. OneWatcher(t) /\ wg'[t].pc = "unwatch"
        BY <3>3, ReceiveStep DEF WatchEnd
      <4> QED
        BY <4>1, <4>2 DEF Attends
    <3>4. CASE WatchStat(t)
      <4>1. OtherChans(t) /\ path' = path /\ failed' = failed
        BY <3>4, SameChans DEF WatchStat, fileVars, trackerVars
      <4>2. wg[t].ch # 0
        BY <2>0, <3>4 DEF WatchStat, Shape
      <4>3. OneTail(t) /\ OneWatcher(t) /\ Attends(t)'
        BY <3>4, <4>2, WatchStatEffect DEF Attends
      <4> QED
        BY <4>1, <4>3
    <3>5. CASE Unwatch(t)
      <4>1. OneTail(t) /\ path' = path /\ failed' = failed
        BY <3>5, SameTails DEF Unwatch, fileVars
      <4>2. OtherChans(t) /\ done'[g] = 0
        BY <2>0, <2>g, <3>5 DEF Unwatch, CloseDone, OtherChans
      <4>3. OneWatcher(t)
        BY <3>5, UnwatchStep, Zenon DEF Unwatch
      <4> QED
        BY <4>1, <4>2, <4>3
    <3> QED
      BY <2>5, <3>1, <3>2, <3>3, <3>4, <3>5 DEF WatchStep
  <2>6. ASSUME TailStep(t) \/ SendLine(t) \/ Start(t) \/ Kill(t) PROVE Goal
    <3>w. OneWatcher(t) /\ wg'[t] = wg[t] /\ path' = path /\ failed' = failed
      BY <2>6, SameWatchers, Zenon DEF TailStep, Reopen, StatCreated, BlockedReceive, BlockedEnd, UnwatchCreate,
         ReadLine, Changed, Moved, Dying, CloseTail, SendLine, Start, Kill, fileVars, trackerVars
    <3>1. CASE UnwatchCreate(t)
      <4>1. OtherChans(t) /\ done'[g] = 0
        BY <2>0, <2>g, <3>1 DEF UnwatchCreate, CloseDone, OtherChans
      <4> QED
        BY <3>1, <3>w, <4>1, UnwatchCreateEffect
    <3>2. CASE ~UnwatchCreate(t)
      <4>1. UNCHANGED <<chans, done>>
        BY <2>6, <3>2, Zenon DEF TailStep, Reopen, StatCreated, BlockedReceive, BlockedEnd,
           ReadLine, Changed, Moved, Dying, CloseTail, SendLine, Start, Kill, trackerVars
      <4>2. OtherChans(t)
        BY <4>1, SameChans
      <4> DEFINE Part == OneTail(t) /\ (Attends(t)' \/ ~Attends(t) \/ chans'[g] = 0)
      <4>3. ASSUME Reopen(t) PROVE Part
        BY <3>w, <4>3, ReopenEffect DEF Attends, SameStop
      <4>4. ASSUME StatCreated(t) PROVE Part
        BY <2>g, <4>1, <4>4, StatCreatedEffect DEF Attends
      <4>5. ASSUME BlockedReceive(t) \/ BlockedEnd(t) PROVE Part
        BY <4>5, BlockedEffect DEF Attends
      <4>6. ASSUME ReadLine(t) PROVE Part
        BY <3>w, <4>6, ReadEffect DEF Attends, SameStop
      <4>7. ASSUME Changed(t) PROVE Part
        BY <3>w, <4>7, ChangedEffect DEF Attends, SameStop
      <4>8. ASSUME Moved(t) PROVE Part
        BY <3>w, <4>8, MovedEffect DEF Attends, SameStop
      <4>9. ASSUME Dying(t) PROVE Part
        BY <3>w, <4>9, DyingEffect DEF Attends, SameStop
      <4>10. ASSUME CloseTail(t) PROVE Part
        BY <3>w, <4>10, CloseTailEffect DEF Attends
      <4>11. ASSUME SendLine(t) PROVE Part
        BY <3>w, <4>11, SendEffect DEF Attends, SameStop
      <4>12. ASSUME Start(t) PROVE Part
        BY <2>0, <3>w, <4>12, StartEffect DEF Attends, Shape
      <4>13. ASSUME Kill(t) PROVE Part
        BY <3>w, <4>13, KillEffect DEF Attends, SameWait
      <4>14. Part
        BY <2>6, <3>2, <4>3, <4>4, <4>5, <4>6, <4>7, <4>8, <4>9, <4>10, <4>11, <4>12, <4>13 DEF TailStep
      <4> QED
        BY <3>w, <4>1, <4>2, <4>14
    <3> QED
      BY <3>1, <3>2
  <2>7. Goal
    BY <1>3, <2>1, <2>2, <2>3, <2>4, <2>5, <2>6
  <2> QED
    BY <2>g, <2>7, AttendedKept
<1> QED
  BY <1>1, <1>2, <1>3 DEF Step, RunStep

-----------------------------------------------------------------------------
(* Files that are never replaced.                                           *)

LEMMA KeptFilesSame ==
  ASSUME LibraryTypes, KeptFiles, UNCHANGED <<fileVars, watchNums>>, run' \in {run, Idle},
         \A e \in Elements(events') : e \in Elements(events) \/ e.f \in replaced
  PROVE  KeptFiles'
<1>1. Idle.op = "none" /\ inodes' = inodes /\ cur' = cur /\ replaced' = replaced
  BY DEF Idle, fileVars
<1> SUFFICES ASSUME NEW f \in Files \ replaced PROVE KeptFile(f)'
  BY <1>1 DEF KeptFiles
<1>2. KeptFile(f)
  BY DEF KeptFiles
<1> QED
  BY <1>1, <1>2 DEF KeptFile

LEMMA CloseKept ==
  ASSUME LibraryTypes, InodeBounds, KeptFiles, NEW t \in Tails, CloseFile(t)
  PROVE  /\ \A e \in Elements(events') : e \in Elements(events) \/ e.f \in replaced
         /\ \A f \in Files \ replaced : kwatch'[f] = kwatch[f]
<1>1. CASE UNCHANGED <<kwatch, events>>
  BY <1>1
<1>2. CASE /\ tl[t].fd # 0 /\ ~inodes[path[t]][tl[t].fd].link
           /\ kwatch' = [kwatch EXCEPT ![path[t]] = 0]
           /\ Elements(events') = Elements(events) \cup {[f |-> path[t], op |-> "Remove"]}
  <2>1. path[t] \in Files /\ tl[t].fd \in 1 .. Len(inodes[path[t]])
    BY <1>2, LenProperties DEF LibraryTypes, InodeBounds, Goroutine
  <2>2. path[t] \in replaced
    BY <1>2, <2>1 DEF KeptFiles, KeptFile
  <2>3. \A e \in Elements(events') : e \in Elements(events) \/ e.f = path[t]
    BY <1>2
  <2>4. \A f \in Files \ replaced : kwatch'[f] = kwatch[f]
    BY <1>2, <2>2 DEF LibraryTypes
  <2> QED
    BY <2>2, <2>3, <2>4
<1> QED
  BY <1>1, <1>2, CloseFileEffect

LEMMA FileKept ==
  ASSUME LibraryTypes, InodeBounds, KeptFiles, NEW g \in Files, FileStep(g) PROVE KeptFiles'
<1>1. /\ UNCHANGED <<path, tl, wg, run, trackerVars>> /\ SameOthers(g)
      /\ Grows(g) \/ Appears(g) \/ Goes(g)
  BY <1>1, FileEffect
<1>2. replaced \subseteq replaced' /\ (Goes(g) => g \in replaced')
  BY <1>1 DEF Grows, Appears, Goes
<1>3. \A e \in Elements(events') : e \in Elements(events) \/ e.f = g
  <2>1. \A op : [f |-> g, op |-> op].f = g
    OBVIOUS
  <2> QED
    BY <1>1, <2>1 DEF Grows, Appears, Goes, Adds
<1>4. run' = run /\ watchNums' = watchNums
  BY <1>1 DEF trackerVars
<1> SUFFICES ASSUME NEW f \in Files, f \notin replaced' PROVE KeptFile(f)'
  BY DEF KeptFiles
<1>5. KeptFile(f) /\ Len(inodes[f]) \in Nat /\ cur[f] \in Nat
  BY <1>2, LenProperties DEF KeptFiles, LibraryTypes
<1>6. CASE f # g
  BY <1>1, <1>3, <1>4, <1>5, <1>6 DEF KeptFile, SameOthers
<1>7. CASE f = g /\ Grows(g)
  <2>1. \A e \in Elements(events') : e \in Elements(events) \/ e.op = "Write"
    BY <1>7 DEF Grows, Adds
  <2> QED
    BY <1>4, <1>5, <1>7, <2>1 DEF KeptFile, Grows
<1>8. CASE f = g /\ Appears(g)
  <2>1. \A e \in Elements(events') : e \in Elements(events) \/ e.op = "Create"
    BY <1>8 DEF Appears, Adds
  <2>2. Len(inodes[f]) = 0 /\ Len(inodes'[f]) = 1 /\ cur'[f] = 1 /\ inodes'[f][1].link
    BY <1>5, <1>8 DEF KeptFile, Appears, LibraryTypes
  <2> QED
    BY <1>4, <1>5, <2>1, <2>2 DEF KeptFile
<1> QED
  BY <1>1, <1>2, <1>6, <1>7, <1>8

LEMMA EventKept ==
  ASSUME LibraryTypes, KeptFiles, RunEvent PROVE KeptFiles'
<1>1. PICK e \in Event : e = Head(events) /\ Elements(events) = Elements(events') \cup {e}
  BY TailKeeps DEF RunEvent, LibraryTypes
<1>2. /\ inodes' = inodes /\ cur' = cur /\ replaced' = replaced /\ watchNums' = watchNums
      /\ run' = Idle \/ run' = [f |-> e.f, op |-> e.op, ch |-> chans[e.f], done |-> done[e.f]]
  BY <1>1 DEF RunEvent, fileVars, trackerVars
<1>3. run'.op = "none" \/ (run'.f = e.f /\ run'.op = e.op)
  BY <1>2 DEF Idle
<1> SUFFICES ASSUME NEW f \in Files \ replaced PROVE KeptFile(f)'
  BY <1>2 DEF KeptFiles
<1>4. KeptFile(f)
  BY DEF KeptFiles
<1> QED
  BY <1>1, <1>2, <1>3, <1>4 DEF KeptFile

LEMMA CountKept ==
  ASSUME LibraryTypes, KeptFiles, NEW t \in Tails, RunWatch(t) \/ RunRemove(t) PROVE KeptFiles'
<1>1. /\ inodes' = inodes /\ cur' = cur /\ replaced' = replaced /\ events' = events /\ run' = run
      /\ path[t] \in Files
  BY DEF RunWatch, RunRemove, fileVars, LibraryTypes
<1>2. \A f \in Files : watchNums'[f] > 0 => watchNums[f] > 0 \/ cur[f] # 0
  <2>1. CASE RunWatch(t)
    <3>1. /\ watchNums \in [Files -> Int]
          /\ watchNums' = watchNums
             \/ (/\ watchNums[path[t]] > 0 \/ cur[path[t]] # 0
                 /\ watchNums' = [watchNums EXCEPT ![path[t]] = @ + 1])
      BY <2>1, RunWatchEffect DEF RunWatched, RunFailed, LibraryTypes
    <3> QED
      BY <1>1, <3>1
  <2>2. CASE RunRemove(t)
    <3>1. watchNums \in [Files -> Int] /\ watchNums' = [watchNums EXCEPT ![path[t]] = @ - 1]
      BY <2>2, RunRemoveEffect DEF LibraryTypes
    <3> QED
      BY <1>1, <3>1
  <2> QED
    BY <2>1, <2>2
<1> SUFFICES ASSUME NEW f \in Files \ replaced PROVE KeptFile(f)'
  BY <1>1 DEF KeptFiles
<1>3. KeptFile(f)
  BY DEF KeptFiles
<1> QED
  BY <1>1, <1>2, <1>3 DEF KeptFile

LEMMA KeptFilesStep ==
  ASSUME LibraryTypes, InodeBounds, KeptFiles, Step PROVE KeptFiles'
<1>1. CASE \E t \in Tails : Moved(t) \/ CloseTail(t)
  <2>1. PICK t \in Tails : Moved(t) \/ CloseTail(t)
    BY <1>1
  <2>2. CloseFile(t) /\ UNCHANGED <<fileVars, watchNums, run>>
    BY <2>1 DEF Moved, CloseTail, trackerVars
  <2> QED
    BY <2>2, CloseKept, KeptFilesSame
<1>2. CASE \/ RunGiveUp \/ UNCHANGED tailVars
           \/ \E t \in Tails : \/ RunWatchCreate(t) \/ RunRemoveCreate(t) \/ WatchStep(t) \/ SendLine(t)
                               \/ Start(t) \/ Kill(t) \/ (TailStep(t) /\ ~Moved(t) /\ ~CloseTail(t))
  <2>1. UNCHANGED <<fileVars, watchNums, events>> /\ run' \in {run, Idle}
    <3>1. CASE RunGiveUp
      BY <3>1 DEF RunGiveUp, kernelVars, trackerVars
    <3>2. CASE UNCHANGED tailVars
      BY <3>2 DEF tailVars, kernelVars, trackerVars
    <3>3. ASSUME NEW t \in Tails, RunWatchCreate(t) \/ RunRemoveCreate(t)
          PROVE  UNCHANGED <<fileVars, watchNums, events>> /\ run' \in {run, Idle}
      BY <3>3 DEF RunWatchCreate, RunRemoveCreate, kernelVars
    <3>4. ASSUME NEW t \in Tails, WatchStep(t)
          PROVE  UNCHANGED <<fileVars, watchNums, events>> /\ run' \in {run, Idle}
      BY <3>4 DEF WatchStep, GetEvents, WatchReceive, WatchEnd, WatchStat, Unwatch, Receive,
         kernelVars, trackerVars
    <3>5. ASSUME NEW t \in Tails, SendLine(t) \/ Start(t) \/ Kill(t)
          PROVE  UNCHANGED <<fileVars, watchNums, events>> /\ run' \in {run, Idle}
      BY <3>5 DEF SendLine, Start, Kill, kernelVars, trackerVars
    <3>6. ASSUME NEW t \in Tails, TailStep(t), ~Moved(t), ~CloseTail(t)
          PROVE  UNCHANGED <<fileVars, watchNums, events>> /\ run' \in {run, Idle}
      BY <3>6 DEF TailStep, Reopen, StatCreated, BlockedReceive, BlockedEnd, UnwatchCreate, ReadLine,
         Changed, Dying, Receive, kernelVars, trackerVars
    <3> QED
      BY <1>2, <3>1, <3>2, <3>3, <3>4, <3>5, <3>6
  <2> QED
    BY <2>1, KeptFilesSame
<1> QED
  BY <1>1, <1>2, FileKept, EventKept, CountKept DEF Step, RunStep

-----------------------------------------------------------------------------
(* Tails of files that are never replaced.                                  *)

LEMMA Halves == \A n \in Nat : (2 * n) \div 2 = n
  OBVIOUS

LEMMA LineEnds ==
  ASSUME LibraryTypes, NEW t \in Tails, ReadSoFar(t)
  PROVE  EndOfLine(t) = tl[t].pos + LineLen /\ EndOfLine(t) = LineLen * (Len(tl[t].lines) + 1)
<1>1. PICK n \in Nat : n = Len(tl[t].lines)
  BY LenProperties DEF LibraryTypes, Goroutine
<1>2. tl[t].pos = 2 * n
  BY <1>1 DEF ReadSoFar, LineLen
<1>3. EndOfLine(t) = ((2 * n) \div 2 + 1) * 2
  BY <1>2 DEF EndOfLine, LineLen
<1>4. EndOfLine(t) = (n + 1) * 2
  BY <1>3, Halves
<1>5. EndOfLine(t) = 2 * n + 2 /\ EndOfLine(t) = 2 * (n + 1)
  BY <1>4
<1> QED
  BY <1>1, <1>2, <1>5 DEF LineLen

LEMMA EmptyRead ==
  ASSUME NEW t \in Tails, tl[t].pos = 0, tl[t].lines = <<>> PROVE ReadSoFar(t)
<1>1. Len(tl[t].lines) = 0 /\ DOMAIN tl[t].lines = {}
  BY EmptySeq
<1> QED
  BY <1>1 DEF ReadSoFar, LineLen

\* The facts about tail t that the other tails' steps, and many of its own,
\* leave alone.
LEMMA KeptTailsKept ==
  ASSUME KeptTails, UNCHANGED fileVars, NEW t \in Tails, OneTail(t), OneWatcher(t),
         path[t] \notin replaced => KeptTail(t)' /\ ReadSoFar(t)'
  PROVE  KeptTails'
<1>1. path' = path /\ replaced' = replaced /\ inodes' = inodes /\ cur' = cur
  BY DEF fileVars
<1>2. \A u \in Tails \ {t} : tl'[u] = tl[u] /\ wg'[u] = wg[u]
  BY DEF OneTail, OneWatcher
<1>3. ASSUME NEW u \in Tails \ {t}, path[u] \notin replaced PROVE KeptTail(u)' /\ ReadSoFar(u)'
  <2>1. KeptTail(u) /\ ReadSoFar(u)
    BY <1>3 DEF KeptTails
  <2>2. EndOfLine(u)' = EndOfLine(u)
    BY <1>2 DEF EndOfLine
  <2> QED
    BY <1>1, <1>2, <2>1, <2>2 DEF KeptTail, ReadSoFar
<1> QED
  BY <1>1, <1>3 DEF KeptTails

LEMMA ReadSame ==
  ASSUME NEW t \in Tails, ReadSoFar(t), tl'[t].pos = tl[t].pos, tl'[t].lines = tl[t].lines
  PROVE  ReadSoFar(t)'
  BY DEF ReadSoFar

LEMMA KeptSizes ==
  ASSUME LibraryTypes, InodeBounds, KeptFiles, NEW t \in Tails, path[t] \notin replaced, cur[path[t]] # 0
  PROVE  cur[path[t]] = 1 /\ Len(inodes[path[t]]) = 1 /\ inodes[path[t]][1].size \in Nat
<1>1. path[t] \in Files /\ cur[path[t]] \in Nat /\ Len(inodes[path[t]]) \in Nat
  BY LenProperties DEF LibraryTypes
<1>2. cur[path[t]] = 1 /\ Len(inodes[path[t]]) = 1
  <2>1. KeptFile(path[t])
    BY <1>1 DEF KeptFiles
  <2>2. PICK n \in Nat : n = cur[path[t]]
    BY <1>1
  <2>3. n \in Nat /\ n <= 1 /\ n # 0
    BY <2>1, <2>2 DEF KeptFile
  <2>4. n = 1
    BY <2>3
  <2> QED
    BY <2>1, <2>2, <2>4 DEF KeptFile
<1> QED
  BY <1>1, <1>2, SizeType

LEMMA FileKeptTails ==
  ASSUME LibraryTypes, InodeBounds, KeptFiles, KeptTails, NEW g \in Files, FileStep(g) PROVE KeptTails'
<1>1. /\ path' = path /\ tl' = tl /\ wg' = wg /\ SameOthers(g)
      /\ Grows(g) \/ Appears(g) \/ Goes(g)
  BY FileEffect
<1>2. replaced \subseteq replaced' /\ (Goes(g) => g \in replaced')
  BY <1>1 DEF Grows, Appears, Goes
<1> SUFFICES ASSUME NEW t \in Tails, path[t] \notin replaced' PROVE KeptTail(t)' /\ ReadSoFar(t)'
  BY <1>1 DEF KeptTails
<1>3. KeptTail(t) /\ ReadSoFar(t) /\ path[t] \in Files /\ path[t] \notin replaced
  BY <1>2 DEF KeptTails, LibraryTypes
<1>4. ReadSoFar(t)' /\ EndOfLine(t)' = EndOfLine(t)
  BY <1>1, <1>3 DEF ReadSoFar, EndOfLine
<1>5. (cur'[path[t]] = 1 /\ inodes[path[t]][1].size <= inodes'[path[t]][1].size) \/ cur[path[t]] # 1
  <2>1. CASE path[t] # g
    <3>1. cur[path[t]] = 1 => inodes[path[t]][1].size \in Nat
      BY <1>3, KeptSizes
    <3> QED
      BY <1>1, <1>3, <2>1, <3>1 DEF SameOthers
  <2>2. CASE path[t] = g /\ Grows(g)
    <3>1. cur[path[t]] = 1 => Len(inodes[path[t]]) = 1
      BY <1>3, KeptSizes
    <3> QED
      BY <2>2, <3>1 DEF Grows
  <2>3. CASE path[t] = g /\ Appears(g)
    BY <2>3 DEF Appears
  <2> QED
    BY <1>1, <1>2, <2>1, <2>2, <2>3
<1>6. cur[path[t]] = 1 => inodes[path[t]][1].size \in Nat
  BY <1>3, KeptSizes
<1>7. cur[path[t]] = 1 => inodes'[path[t]][1].size \in Nat
  <2> SUFFICES ASSUME cur[path[t]] = 1 PROVE inodes'[path[t]][1].size \in Nat
    OBVIOUS
  <2>1. LibraryTypes'
    BY FileTypes
  <2>2. Len(inodes'[path[t]]) = 1
    BY <1>1, <1>2, <1>3, KeptSizes DEF SameOthers, Grows, Appears
  <2>3. inodes'[path[t]] \in Seq(Inode)
    BY <1>3, <2>1 DEF LibraryTypes
  <2>4. inodes'[path[t]][1] \in Inode
    BY <2>2, <2>3, ElementOfSeq
  <2> QED
    BY <2>4 DEF Inode
<1>8. tl[t].buf \in Nat /\ wg[t].size \in Nat
  BY DEF LibraryTypes, Goroutine, Watcher
<1>9. wg[t].pc # "none" => cur'[path[t]] = 1 /\ wg[t].size <= inodes'[path[t]][1].size
  BY <1>3, <1>5, <1>6, <1>7, <1>8 DEF KeptTail
<1>10. tl[t].fd # 0 => cur'[path[t]] = 1 /\ tl[t].buf <= inodes'[path[t]][1].size
  BY <1>3, <1>5, <1>6, <1>7, <1>8 DEF KeptTail
<1>11. KeptTail(t)'
  BY <1>1, <1>3, <1>4, <1>9, <1>10 DEF KeptTail
<1> QED
  BY <1>4, <1>11

LEMMA StillKept ==
  ASSUME NEW t \in Tails, KeptTail(t), ReadSoFar(t), UNCHANGED fileVars,
         SameRead(tl[t], tl'[t]), tl'[t].watching = tl[t].watching,
         ~tl'[t].changes.Deleted, ~tl'[t].changes.Truncated, wg'[t].next # "deleted",
         wg'[t].pc # "none" => wg[t].pc # "none" /\ wg'[t].size = wg[t].size,
         tl'[t].pc = "send" => tl[t].pc = "send", tl'[t].pc \in Early => tl[t].pc \in Early
  PROVE  KeptTail(t)' /\ ReadSoFar(t)'
<1>1. path' = path /\ inodes' = inodes /\ cur' = cur
  BY DEF fileVars
<1>2. tl'[t].fd = tl[t].fd /\ tl'[t].pos = tl[t].pos /\ tl'[t].buf = tl[t].buf /\ tl'[t].lines = tl[t].lines
  BY DEF SameRead
<1>3. EndOfLine(t)' = EndOfLine(t)
  BY <1>2 DEF EndOfLine
<1>4. ReadSoFar(t)'
  BY <1>2, ReadSame
<1> QED
  BY <1>1, <1>2, <1>3, <1>4 DEF KeptTail

LEMMA RunKeptTails ==
  ASSUME LibraryTypes, InodeBounds, Shapes, KeptFiles, KeptTails, NEW t \in Tails,
         RunWatchCreate(t) \/ RunRemoveCreate(t) \/ RunWatch(t) \/ RunRemove(t)
  PROVE  KeptTails'
<1> DEFINE Goal == path[t] \notin replaced => KeptTail(t)' /\ ReadSoFar(t)'
<1>0. path[t] \notin replaced => KeptTail(t) /\ ReadSoFar(t)
  BY DEF KeptTails
<1>1. CASE RunWatchCreate(t)
  <2>1. /\ OneTail(t) /\ tl[t].pc = "watchCreate" /\ tl'[t].pc = "stat"
        /\ SameRead(tl[t], tl'[t]) /\ SameWatch(tl[t], tl'[t])
    BY <1>1, RunWatchCreateEffect
  <2>2. UNCHANGED fileVars /\ wg' = wg
    BY <1>1 DEF RunWatchCreate
  <2>3. Goal
    BY <1>0, <2>1, <2>2, StillKept DEF SameWatch, KeptTail, Early, Waiting
  <2> QED
    BY <2>1, <2>2, <2>3, SameWatchers, KeptTailsKept
<1>2. CASE RunRemoveCreate(t)
  <2>1. /\ OneTail(t) /\ tl'[t].pc = tl[t].next
        /\ SameRead(tl[t], tl'[t]) /\ SameWatch(tl[t], tl'[t])
    BY <1>2, RemoveCreateStep
  <2>2. UNCHANGED fileVars /\ wg' = wg /\ tl[t].pc = "removeCreate"
    BY <1>2 DEF RunRemoveCreate
  <2>3. tl[t].next \in {"reopen", "close"}
    BY <2>2 DEF Shapes, Shape
  <2>4. Goal
    BY <1>0, <2>1, <2>2, <2>3, StillKept DEF SameWatch, KeptTail, Early, Waiting
  <2> QED
    BY <2>1, <2>2, <2>4, SameWatchers, KeptTailsKept
<1>3. CASE RunWatch(t)
  <2>1. /\ OneTail(t) /\ OneWatcher(t) /\ tl[t].pc = "watch" /\ UNCHANGED fileVars
        /\ SameRead(tl[t], tl'[t]) /\ (RunWatched(t) \/ RunFailed(t))
    BY <1>3, RunWatchEffect
  <2>2. tl[t].fd # 0 /\ tl[t].pos \in Nat /\ tl[t].buf \in Nat
    BY <2>1 DEF InodeBounds, Opened, LibraryTypes, Goroutine
  <2> SUFFICES ASSUME path[t] \notin replaced PROVE KeptTail(t)' /\ ReadSoFar(t)'
    BY <2>1, KeptTailsKept
  <2>3. KeptTail(t) /\ ReadSoFar(t)
    BY <1>0
  <2>4. tl[t].fd = 1 /\ cur[path[t]] = 1 /\ tl[t].pos <= tl[t].buf /\ tl[t].buf <= inodes[path[t]][1].size
    BY <2>2, <2>3 DEF KeptTail
  <2>5. inodes[path[t]][1].size \in Nat
    BY <2>4, KeptSizes
  <2>6. tl[t].pos <= inodes[path[t]][1].size
    BY <2>2, <2>4, <2>5
  <2>7. RunWatched(t)
    BY <2>1, <2>4 DEF RunFailed
  <2>8. /\ tl'[t].pc = "select" /\ tl'[t].changes = NoChanges /\ wg'[t].size = tl[t].pos /\ wg'[t].next = "none"
    BY <2>7 DEF RunWatched
  <2>9. path' = path /\ inodes' = inodes /\ cur' = cur
    BY <2>1 DEF fileVars
  <2>10. tl'[t].fd = tl[t].fd /\ tl'[t].pos = tl[t].pos /\ tl'[t].buf = tl[t].buf /\ tl'[t].lines = tl[t].lines
    BY <2>1 DEF SameRead
  <2>11. ReadSoFar(t)'
    BY <2>3, <2>10, ReadSame
  <2> QED
    BY <2>4, <2>6, <2>8, <2>9, <2>10, <2>11, NoChangesFacts DEF KeptTail, Early, Waiting
<1>4. CASE RunRemove(t)
  <2>1. /\ OneTail(t) /\ tl'[t].pc = tl[t].pc /\ tl'[t].watching = tl[t].watching
        /\ tl'[t].changes.Deleted = (tl[t].changes.Deleted \/ wg[t].next = "deleted")
        /\ tl'[t].changes.Truncated = tl[t].changes.Truncated
        /\ SameRead(tl[t], tl'[t])
    BY <1>4, RemoveStep
  <2>2. OneWatcher(t) /\ wg'[t].pc = "none" /\ wg'[t].next = "none" /\ UNCHANGED fileVars
    BY <1>4, RunRemoveEffect
  <2>3. Goal
    BY <1>0, <2>1, <2>2, StillKept DEF KeptTail
  <2> QED
    BY <2>1, <2>2, <2>3, KeptTailsKept
<1> QED
  BY <1>1, <1>2, <1>3, <1>4

LEMMA WatchKeptTails ==
  ASSUME LibraryTypes, InodeBounds, Shapes, KeptFiles, KeptTails, NEW t \in Tails, WatchStep(t)
  PROVE  KeptTails'
<1> DEFINE Goal == path[t] \notin replaced => KeptTail(t)' /\ ReadSoFar(t)'
<1>0. path[t] \notin replaced => KeptTail(t) /\ ReadSoFar(t)
  BY DEF KeptTails
<1>t. tl' = tl => OneTail(t) /\ tl'[t] = tl[t] /\ SameRead(tl[t], tl'[t])
  BY SameTails DEF SameRead
<1>1. CASE GetEvents(t)
  <2>0. chans[path[t]] \in Nat
    BY DEF LibraryTypes
  <2>1. UNCHANGED fileVars /\ tl' = tl /\ wg[t].pc = "events"
    BY <1>1 DEF GetEvents
  <2>2. OneWatcher(t) /\ wg'[t].size = wg[t].size /\ wg'[t].next = wg[t].next
    BY <1>1, <2>0, ChannelStep DEF GetEvents
  <2>3. Goal
    BY <1>0, <1>t, <2>1, <2>2, StillKept DEF KeptTail
  <2> QED
    BY <1>t, <2>1, <2>2, <2>3, KeptTailsKept
<1>2. CASE WatchReceive(t)
  <2>1. UNCHANGED fileVars /\ tl' = tl /\ wg[t].pc = "receive" /\ run.f = path[t]
    BY <1>2 DEF WatchReceive, Receive
  <2>2. /\ OneWatcher(t) /\ wg'[t].size = wg[t].size
        /\ (wg'[t].next = wg[t].next \/ run.op \in {"Remove", "Rename"})
    BY <1>2, ReceivedStep
  <2>3. path[t] \notin replaced => run.op \in {"Write", "Create", "none"}
    BY <2>1 DEF KeptFiles, KeptFile, LibraryTypes
  <2>4. Goal
    BY <1>0, <1>t, <2>1, <2>2, <2>3, StillKept DEF KeptTail
  <2> QED
    BY <1>t, <2>1, <2>2, <2>4, KeptTailsKept
<1>3. CASE WatchEnd(t)
  <2>1. UNCHANGED fileVars /\ tl' = tl /\ wg[t].pc = "receive"
    BY <1>3 DEF WatchEnd
  <2>2. OneWatcher(t) /\ wg'[t].size = wg[t].size /\ wg'[t].next = "exit"
    BY <1>3, ReceiveStep DEF WatchEnd
  <2>3. Goal
    BY <1>0, <1>t, <2>1, <2>2, StillKept DEF KeptTail
  <2> QED
    BY <1>t, <2>1, <2>2, <2>3, KeptTailsKept
<1>4. CASE WatchStat(t)
  <2>1. /\ wg[t].pc = "stat" /\ OneTail(t) /\ OneWatcher(t)
        /\ tl'[t].pc = tl[t].pc /\ tl'[t].watching = tl[t].watching
        /\ tl'[t].changes.Deleted = tl[t].changes.Deleted
        /\ SameRead(tl[t], tl'[t])
        /\ \/ cur[path[t]] = 0
           \/ /\ wg'[t].pc = "receive" /\ wg'[t].next = wg[t].next
              /\ wg'[t].size = inodes[path[t]][cur[path[t]]].size
              /\ \/ tl'[t].changes.Truncated = tl[t].changes.Truncated
                 \/ wg[t].size > inodes[path[t]][cur[path[t]]].size
    BY <1>4, WatchStatEffect
  <2>2. UNCHANGED fileVars
    BY <1>4 DEF WatchStat
  <2> SUFFICES ASSUME path[t] \notin replaced PROVE KeptTail(t)' /\ ReadSoFar(t)'
    BY <2>1, <2>2, KeptTailsKept
  <2>3. KeptTail(t) /\ ReadSoFar(t)
    BY <1>0
  <2>4. cur[path[t]] = 1 /\ wg[t].size <= inodes[path[t]][1].size
    BY <2>1, <2>3 DEF KeptTail
  <2>5. inodes[path[t]][1].size \in Nat /\ wg[t].size \in Nat
    <3>1. wg[t] \in Watcher /\ cur[path[t]] # 0
      BY <2>4 DEF LibraryTypes
    <3>2. inodes[path[t]][1].size \in Nat
      BY <3>1, KeptSizes
    <3> QED
      BY <3>1, <3>2 DEF Watcher
  <2>6. ~(wg[t].size > inodes[path[t]][1].size)
    BY <2>4, <2>5
  <2>7. /\ wg'[t].next = wg[t].next /\ wg'[t].size = inodes[path[t]][1].size
        /\ tl'[t].changes.Truncated = tl[t].changes.Truncated
    BY <2>1, <2>4, <2>6
  <2>8. wg'[t].size <= inodes[path[t]][1].size
    BY <2>5, <2>7
  <2>9. path' = path /\ inodes' = inodes /\ cur' = cur
    BY <2>2 DEF fileVars
  <2>10. tl'[t].fd = tl[t].fd /\ tl'[t].pos = tl[t].pos /\ tl'[t].buf = tl[t].buf /\ tl'[t].lines = tl[t].lines
    BY <2>1 DEF SameRead
  <2>11. ReadSoFar(t)' /\ EndOfLine(t)' = EndOfLine(t)
    BY <2>3, <2>10, ReadSame DEF EndOfLine
  <2> QED
    BY <2>1, <2>3, <2>4, <2>7, <2>8, <2>9, <2>10, <2>11 DEF KeptTail
<1>5. CASE Unwatch(t)
  <2>1. UNCHANGED fileVars /\ tl' = tl /\ wg[t].pc = "unwatch"
    BY <1>5 DEF Unwatch
  <2>2. OneWatcher(t) /\ wg'[t].size = wg[t].size /\ wg'[t].next = wg[t].next
    BY <1>5, UnwatchStep DEF Unwatch
  <2>3. Goal
    BY <1>0, <1>t, <2>1, <2>2, StillKept DEF KeptTail
  <2> QED
    BY <1>t, <2>1, <2>2, <2>3, KeptTailsKept
<1> QED
  BY <1>1, <1>2, <1>3, <1>4, <1>5 DEF WatchStep

LEMMA TailStepEffect ==
  ASSUME LibraryTypes, InodeBounds, NEW t \in Tails, TailStep(t) \/ SendLine(t) \/ Start(t) \/ Kill(t)
  PROVE  OneTail(t)
<1>1. CASE Reopen(t)
  BY <1>1, ReopenEffect
<1>2. CASE StatCreated(t)
  BY <1>2, StatCreatedEffect
<1>3. CASE BlockedReceive(t) \/ BlockedEnd(t)
  BY <1>3, BlockedEffect
<1>4. CASE UnwatchCreate(t)
  BY <1>4, UnwatchCreateEffect
<1>5. CASE ReadLine(t) \/ Changed(t) \/ Moved(t)
  BY <1>5, ReadEffect, ChangedEffect, MovedEffect
<1>6. CASE Dying(t) \/ CloseTail(t)
  BY <1>6, DyingEffect, CloseTailEffect
<1>7. CASE SendLine(t) \/ Start(t) \/ Kill(t)
  BY <1>7, SendEffect, StartEffect, KillEffect
<1> QED
  BY <1>1, <1>2, <1>3, <1>4, <1>5, <1>6, <1>7 DEF TailStep

LEMMA TailKeptTails ==
  ASSUME LibraryTypes, InodeBounds, Shapes, KeptFiles, KeptTails, NEW t \in Tails,
         TailStep(t) \/ SendLine(t) \/ Start(t) \/ Kill(t)
  PROVE  KeptTails'
<1>1. UNCHANGED fileVars /\ wg' = wg
  BY Zenon DEF TailStep, Reopen, StatCreated, BlockedReceive, BlockedEnd, UnwatchCreate, ReadLine, Changed, Moved,
         Dying, CloseTail, SendLine, Start, Kill
<1>2. OneWatcher(t) /\ wg'[t] = wg[t]
  BY <1>1, SameWatchers
<1>3. OneTail(t)
  BY TailStepEffect
<1> SUFFICES ASSUME path[t] \notin replaced PROVE KeptTail(t)' /\ ReadSoFar(t)'
  BY <1>1, <1>2, <1>3, KeptTailsKept
<1>4. KeptTail(t) /\ ReadSoFar(t)
  BY DEF KeptTails
<1>5. path' = path /\ inodes' = inodes /\ cur' = cur
  BY <1>1 DEF fileVars
<1>6. /\ tl[t].pos \in Nat /\ tl[t].buf \in Nat /\ tl[t].fd \in Nat
      /\ EndOfLine(t) \in Nat /\ cur[path[t]] \in Nat
  BY EndOfLineType DEF LibraryTypes, Goroutine
<1>7. ASSUME SameRead(tl[t], tl'[t]), SameWatch(tl[t], tl'[t]), tl'[t].pc # "send",
             tl'[t].pc \in Early => tl[t].pc \in Early
      PROVE  KeptTail(t)' /\ ReadSoFar(t)'
  BY <1>1, <1>2, <1>4, <1>7, StillKept DEF SameWatch, KeptTail
<1>8. ASSUME tl[t].fd # 0
      PROVE  /\ tl[t].fd = 1 /\ cur[path[t]] = 1 /\ OpenSize(t) = inodes[path[t]][1].size
             /\ OpenSize(t) \in Nat /\ tl[t].pos <= tl[t].buf /\ tl[t].buf <= OpenSize(t)
  <2>1. /\ tl[t].fd = 1 /\ cur[path[t]] = 1 /\ OpenSize(t) = inodes[path[t]][1].size
        /\ tl[t].pos <= tl[t].buf /\ tl[t].buf <= OpenSize(t)
    BY <1>4, <1>8 DEF KeptTail, OpenSize
  <2> QED
    BY <2>1, KeptSizes
<1>9. CASE Reopen(t)
  <2>1. /\ tl[t].pc = "reopen" /\ tl'[t].fd = cur[path[t]] /\ tl'[t].pc \in {"read", "watchCreate"}
        /\ tl'[t].pos = 0 /\ tl'[t].buf = 0 /\ tl'[t].lines = tl[t].lines
        /\ SameWatch(tl[t], tl'[t])
    BY <1>9, ReopenEffect
  <2>2. tl[t].lines = <<>> /\ ~tl[t].watching
    BY <1>4, <2>1 DEF KeptTail, Early
  <2>3. Len(tl'[t].lines) = 0 /\ DOMAIN tl'[t].lines = {}
    BY <2>1, <2>2, EmptySeq
  <2>4. ReadSoFar(t)'
    BY <2>1, <2>3 DEF ReadSoFar, LineLen
  <2>5. cur[path[t]] # 0 => cur[path[t]] = 1 /\ 0 <= inodes[path[t]][1].size
    BY KeptSizes
  <2>6. tl'[t].fd # 0 => /\ tl'[t].fd = 1 /\ cur'[path[t]] = 1
                         /\ tl'[t].pos <= tl'[t].buf /\ tl'[t].buf <= inodes'[path[t]][1].size
    BY <1>5, <2>1, <2>5
  <2>7. tl'[t].pc # "send" /\ tl'[t].changes = tl[t].changes /\ ~tl'[t].watching /\ tl'[t].lines = <<>>
    BY <2>1, <2>2 DEF SameWatch
  <2> QED
    BY <1>2, <1>4, <1>5, <2>4, <2>6, <2>7 DEF KeptTail
<1>10. CASE StatCreated(t)
  <2>1. /\ tl[t].pc = "stat" /\ tl'[t].pc \in {"unwatchCreate", "blocked"}
        /\ SameRead(tl[t], tl'[t]) /\ SameWatch(tl[t], tl'[t])
    BY <1>10, StatCreatedEffect
  <2> QED
    BY <1>7, <2>1 DEF Early, Waiting
<1>11. CASE BlockedReceive(t) \/ BlockedEnd(t)
  <2>1. /\ tl[t].pc = "blocked" /\ tl'[t].pc = "unwatchCreate"
        /\ SameRead(tl[t], tl'[t]) /\ SameWatch(tl[t], tl'[t])
    BY <1>11, BlockedEffect
  <2> QED
    BY <1>7, <2>1 DEF Early, Waiting
<1>12. CASE UnwatchCreate(t)
  <2>1. /\ tl[t].pc = "unwatchCreate" /\ tl'[t].pc = "removeCreate"
        /\ SameRead(tl[t], tl'[t]) /\ SameWatch(tl[t], tl'[t])
    BY <1>12, UnwatchCreateEffect
  <2> QED
    BY <1>7, <2>1 DEF Early, Waiting
<1>13. CASE ReadLine(t)
  <2>1. /\ tl[t].pc = "read"
        /\ tl'[t].fd = tl[t].fd /\ tl'[t].pos = tl[t].pos /\ tl'[t].lines = tl[t].lines
        /\ SameWatch(tl[t], tl'[t])
        /\ \/ /\ tl'[t].pc = "send" /\ EndOfLine(t) <= tl'[t].buf
              /\ tl'[t].buf \in {tl[t].buf, OpenSize(t)}
           \/ tl'[t].pc \in {"select", "watch"} /\ tl'[t].buf = tl[t].pos
    BY <1>13, ReadEffect
  <2>2. tl[t].fd # 0
    BY <2>1 DEF InodeBounds, Opened
  <2>3. ReadSoFar(t)' /\ EndOfLine(t)' = EndOfLine(t)
    BY <1>4, <2>1, ReadSame DEF EndOfLine
  <2>4. tl[t].pos <= tl'[t].buf /\ tl'[t].buf <= OpenSize(t)
    BY <1>6, <1>8, <2>1, <2>2
  <2>5. tl'[t].pos <= tl'[t].buf /\ tl'[t].buf <= inodes'[path[t]][1].size
    BY <1>5, <1>8, <2>1, <2>2, <2>4
  <2>6. tl'[t].pc = "send" => EndOfLine(t)' <= tl'[t].buf
    BY <2>1, <2>3
  <2>7. tl'[t].pc \notin Early /\ tl'[t].changes = tl[t].changes
    BY <2>1 DEF Early, Waiting, SameWatch
  <2> QED
    BY <1>2, <1>4, <1>5, <1>8, <2>1, <2>2, <2>3, <2>5, <2>6, <2>7 DEF KeptTail
<1>14. CASE Changed(t)
  <2>1. /\ tl'[t].pc = "read" /\ tl'[t].watching = tl[t].watching
        /\ tl'[t].changes.Deleted = tl[t].changes.Deleted
        /\ tl'[t].changes.Truncated = tl[t].changes.Truncated /\ SameRead(tl[t], tl'[t])
    BY <1>14, ChangedEffect
  <2> QED
    BY <1>1, <1>2, <1>4, <2>1, StillKept DEF KeptTail, Early, Waiting
<1>15. CASE Moved(t)
  BY <1>4, <1>15, MovedEffect DEF KeptTail
<1>16. CASE Dying(t)
  <2>1. tl'[t].pc = "close" /\ SameRead(tl[t], tl'[t]) /\ SameWatch(tl[t], tl'[t])
    BY <1>16, DyingEffect
  <2> QED
    BY <1>7, <2>1 DEF Early, Waiting
<1>17. CASE CloseTail(t)
  <2>1. /\ tl'[t].pc = "done" /\ tl'[t].fd = 0
        /\ tl'[t].pos = tl[t].pos /\ tl'[t].lines = tl[t].lines /\ SameWatch(tl[t], tl'[t])
    BY <1>17, CloseTailEffect
  <2>2. ReadSoFar(t)' /\ tl'[t].changes = tl[t].changes
    BY <1>4, <2>1, ReadSame DEF SameWatch
  <2> QED
    BY <1>2, <1>4, <1>5, <2>1, <2>2 DEF KeptTail, Early, Waiting
<1>18. CASE SendLine(t)
  <2>1. /\ tl[t].pc = "send" /\ tl'[t].pc = "read" /\ tl'[t].pos = EndOfLine(t)
        /\ tl'[t].lines = Append(tl[t].lines, [ino |-> tl[t].fd, from |-> tl[t].pos])
        /\ tl'[t].fd = tl[t].fd /\ tl'[t].buf = tl[t].buf /\ SameWatch(tl[t], tl'[t])
    BY <1>18, SendEffect
  <2>2. tl[t].fd # 0
    BY <2>1 DEF InodeBounds, Opened
  <2>3. EndOfLine(t) <= tl[t].buf
    BY <1>4, <2>1 DEF KeptTail
  <2>4. PICK l \in Line : l = [ino |-> tl[t].fd, from |-> tl[t].pos]
    BY <1>6 DEF Line
  <2>5. PICK n \in Nat : n = Len(tl[t].lines)
    BY LenProperties DEF LibraryTypes, Goroutine
  <2>6. /\ Len(tl'[t].lines) = n + 1 /\ DOMAIN tl'[t].lines = 1 .. n + 1
        /\ tl'[t].lines[n + 1] = l /\ \A i \in 1 .. n : tl'[t].lines[i] = tl[t].lines[i]
    <3>1. l \in Line /\ tl[t].lines \in Seq(Line) /\ tl'[t].lines = Append(tl[t].lines, l)
      BY <2>1, <2>4 DEF LibraryTypes, Goroutine
    <3> QED
      BY <2>5, <3>1, AppendProperties, LenProperties
  <2>7. DOMAIN tl[t].lines = 1 .. n /\ n \in Nat
    BY <2>5, LenProperties DEF LibraryTypes, Goroutine
  <2>8. tl[t].pos = LineLen * n /\ \A i \in 1 .. n : tl[t].lines[i] = [ino |-> 1, from |-> LineLen * (i - 1)]
    BY <1>4, <2>5, <2>7 DEF ReadSoFar
  <2>9. l = [ino |-> 1, from |-> LineLen * ((n + 1) - 1)]
    <3>1. (n + 1) - 1 = n
      BY <2>7
    <3> QED
      BY <1>8, <2>2, <2>4, <2>8, <3>1
  <2>10. \A i \in 1 .. n + 1 : i = n + 1 \/ i \in 1 .. n
    BY <2>7
  <2>11. tl'[t].pos = LineLen * Len(tl'[t].lines)
    BY <1>4, <2>1, <2>5, <2>6, LineEnds
  <2>12. \A i \in 1 .. n + 1 : tl'[t].lines[i] = [ino |-> 1, from |-> LineLen * (i - 1)]
    BY <2>6, <2>8, <2>9, <2>10
  <2>13. ReadSoFar(t)'
    BY <2>6, <2>11, <2>12 DEF ReadSoFar
  <2>14. tl'[t].pos <= tl'[t].buf /\ tl'[t].buf <= inodes'[path[t]][1].size
    BY <1>5, <1>8, <2>1, <2>2, <2>3
  <2>15. tl'[t].pc \notin Early /\ tl'[t].pc # "send" /\ tl'[t].changes = tl[t].changes
    BY <2>1 DEF Early, Waiting, SameWatch
  <2> QED
    BY <1>2, <1>4, <1>5, <1>8, <2>1, <2>2, <2>13, <2>14, <2>15 DEF KeptTail
<1>19. CASE Start(t)
  <2>1. /\ tl[t].pc = "none" /\ tl'[t].pc = "reopen" /\ tl'[t].fd = 0 /\ tl'[t].pos = 0
        /\ ~tl'[t].watching /\ tl'[t].changes = NoChanges /\ tl'[t].lines = <<>>
    BY <1>19, StartEffect
  <2>2. Len(tl'[t].lines) = 0 /\ DOMAIN tl'[t].lines = {}
    BY <2>1, EmptySeq
  <2>3. ReadSoFar(t)'
    BY <2>1, <2>2 DEF ReadSoFar, LineLen
  <2> QED
    BY <1>2, <1>4, <1>5, <2>1, <2>3, NoChangesFacts DEF KeptTail
<1>20. CASE Kill(t)
  <2>1. tl'[t].pc = tl[t].pc /\ SameRead(tl[t], tl'[t]) /\ SameWatch(tl[t], tl'[t])
    BY <1>20, KillEffect
  <2> QED
    BY <1>1, <1>2, <1>4, <2>1, StillKept DEF KeptTail, SameWatch
<1> QED
  BY <1>9, <1>10, <1>11, <1>12, <1>13, <1>14, <1>15, <1>16, <1>17, <1>18, <1>19, <1>20 DEF TailStep

LEMMA KeptTailsStep ==
  ASSUME LibraryTypes, InodeBounds, Shapes, KeptFiles, KeptTails, Step PROVE KeptTails'
<1>1. ASSUME UNCHANGED <<path, inodes, cur, replaced, tl, wg>> PROVE KeptTails'
  BY <1>1 DEF KeptTails, KeptTail, ReadSoFar, EndOfLine
<1>2. CASE RunEvent \/ RunGiveUp \/ UNCHANGED tailVars
  BY <1>1, <1>2 DEF RunEvent, RunGiveUp, tailVars, fileVars
<1> QED
  BY <1>2, FileKeptTails, RunKeptTails, WatchKeptTails, TailKeptTails DEF Step, RunStep

-----------------------------------------------------------------------------
(* Tails that are alone with their file.                                    *)

OtherWatches(t) ==
  \A f \in Files \ {path[t]} : chans'[f] = chans[f] /\ done'[f] = done[f] /\ kwatch'[f] = kwatch[f]

SameHere(t) ==
  chans'[path[t]] = chans[path[t]] /\ done'[path[t]] = done[path[t]] /\ kwatch'[path[t]] = kwatch[path[t]]

LEMMA WatchedSame ==
  ASSUME NEW t \in Tails, Watched(t), path' = path, SameHere(t), run' \in {run, Idle}, wg'[t] = wg[t]
  PROVE  Watched(t)'
  BY DEF Watched, SameHere

LEMMA ToldSame ==
  ASSUME NEW t \in Tails, Told(t), path' = path, tl'[t].changes = tl[t].changes, wg'[t] = wg[t],
         run' = run \/ run.f # path[t], Elements(events) \subseteq Elements(events')
  PROVE  Told(t)'
  BY DEF Told

\* Sole is lost for ever with the start of another tail of the file.
LEMMA AloneBefore ==
  ASSUME LibraryTypes, path' = path, replaced \subseteq replaced', NEW t \in Tails, OneTail(t),
         tl'[t].pc = "none" => tl[t].pc = "none", NEW u \in Tails, Alone(u)'
  PROVE  Alone(u)
  BY DEF Alone, Sole, Followers, OneTail

\* A step of tail t, or of its watcher, leaves the other tails that are
\* alone with their file alone.
LEMMA AloneKept ==
  ASSUME LibraryTypes, AloneTails, UNCHANGED <<fileVars, missed>>, NEW t \in Tails, OneTail(t), OneWatcher(t),
         tl'[t].pc = "none" => tl[t].pc = "none",
         tl[t].pc = "none" => UNCHANGED <<chans, done, kwatch, run>>,
         OtherWatches(t), run' = run \/ (run' = Idle /\ run.f = path[t]),
         Elements(events) \subseteq Elements(events'),
         Alone(t) => EndsAlone(t)' /\ ToldAlone(t)'
  PROVE  AloneTails'
<1>1. path' = path /\ replaced' = replaced /\ inodes' = inodes /\ missed' = missed
  BY DEF fileVars
<1> SUFFICES ASSUME NEW u \in Tails, Alone(u)' PROVE EndsAlone(u)' /\ ToldAlone(u)'
  BY DEF AloneTails
<1>2. Alone(u)
  BY <1>1, AloneBefore
<1>3. CASE u = t
  BY <1>2, <1>3
<1>4. CASE u # t
  <2>1. EndsAlone(u) /\ ToldAlone(u) /\ path[u] \in Files
    BY <1>2 DEF AloneTails, LibraryTypes
  <2>2. tl'[u] = tl[u] /\ wg'[u] = wg[u]
    BY <1>4 DEF OneTail, OneWatcher
  <2>3. path[t] = path[u] => tl[t].pc = "none"
    BY <1>1, <1>4 DEF Alone, Sole, Followers
  <2>4. SameHere(u) /\ (run' = run \/ (run' = Idle /\ run.f # path[u]))
    <3>1. CASE path[t] = path[u]
      BY <2>3, <3>1 DEF SameHere
    <3>2. CASE path[t] # path[u]
      BY <2>1, <3>2 DEF SameHere, OtherWatches
    <3> QED
      BY <3>1, <3>2
  <2>5. EndsAlone(u)'
    BY <1>1, <2>1, <2>2, <2>4 DEF EndsAlone, Ending, SameHere
  <2>6. Watched(u) => Watched(u)'
    BY <1>1, <2>2, <2>4, WatchedSame
  <2>7. Told(u) => Told(u)'
    BY <1>1, <2>2, <2>4, ToldSame
  <2>8. LineWaits(u)' = LineWaits(u)
    BY <1>1, <2>2 DEF LineWaits, EndOfLine, OpenSize
  <2>9. ToldAlone(u)'
    BY <2>1, <2>2, <2>6, <2>7, <2>8 DEF ToldAlone
  <2> QED
    BY <2>5, <2>9
<1> QED
  BY <1>3, <1>4

LEMMA OtherOpened ==
  ASSUME LibraryTypes, NEW t \in Tails, OpenChans(path[t]),
         \A f \in Files \ {path[t]} : kwatch'[f] = kwatch[f]
  PROVE  OtherWatches(t)
<1>1. path[t] \in Files
  BY DEF LibraryTypes
<1> QED
  BY <1>1, OpenChansType DEF OtherWatches

\* Nobody counts for the file of a tail that is alone and does not watch.
LEMMA NobodyWatches ==
  ASSUME LibraryTypes, Shapes, Counts, NEW t \in Tails, Sole(t), wg[t].pc = "none"
  PROVE  watchNums[path[t]] = 0
<1>1. Watchers(path[t]) = {}
  BY DEF Watchers, Followers, Sole, Shapes, Shape
<1>2. path[t] \in Files
  BY DEF LibraryTypes
<1> QED
  BY <1>1, <1>2, FS_EmptySet DEF Counts

LEMMA FileAlone ==
  ASSUME LibraryTypes, InodeBounds, Shapes, KeptFiles, KeptTails, AloneTails, NEW g \in Files, FileStep(g)
  PROVE  AloneTails'
<1>1. /\ path' = path /\ tl' = tl /\ wg' = wg /\ run' = run /\ chans' = chans /\ done' = done
      /\ SameOthers(g) /\ missed \subseteq missed'
      /\ \/ Grows(g) /\ kwatch' = kwatch
         \/ Appears(g) /\ kwatch' = kwatch
         \/ Goes(g)
  BY FileEffect DEF trackerVars
<1>2. replaced \subseteq replaced' /\ Elements(events) \subseteq Elements(events') /\ (Goes(g) => g \in replaced')
  BY <1>1 DEF Grows, Appears, Goes, Adds
<1> SUFFICES ASSUME NEW t \in Tails, Alone(t)' PROVE EndsAlone(t)' /\ ToldAlone(t)'
  BY DEF AloneTails
<1>3. Alone(t) /\ path[t] \in Files
  BY <1>1, <1>2 DEF Alone, Sole, Followers, LibraryTypes
<1>4. EndsAlone(t) /\ ToldAlone(t) /\ KeptTail(t) /\ path[t] \notin replaced'
  BY <1>1, <1>3 DEF AloneTails, Alone, KeptTails
<1>5. EndsAlone(t)'
  BY <1>1, <1>4 DEF EndsAlone, Ending
<1>6. SameHere(t)
  BY <1>1, <1>3, <1>4, <1>2 DEF SameHere, SameOthers
<1>7. Watched(t) => Watched(t)'
  BY <1>1, <1>6, WatchedSame
<1>8. Told(t) => Told(t)'
  BY <1>1, <1>2, ToldSame
<1>9. CASE path[t] # g
  <2>1. LineWaits(t)' => LineWaits(t)
    BY <1>1, <1>3, <1>9 DEF LineWaits, SameOthers, OpenSize, EndOfLine
  <2> QED
    BY <1>1, <1>4, <1>5, <1>7, <1>8, <2>1 DEF ToldAlone
<1>10. CASE path[t] = g
  <2>1. Grows(g) \/ Appears(g)
    BY <1>1, <1>2, <1>4, <1>10
  <2> SUFFICES ASSUME ~tl[t].dying, LineWaits(t)' PROVE tl[t].pc = "select" /\ Told(t)'
    BY <1>1, <1>4, <1>5, <1>7 DEF ToldAlone
  <2>2. t \notin missed' /\ tl[t].pc \in {"watch", "select"}
    BY <1>1 DEF LineWaits
  <2>3. tl[t].fd # 0 /\ cur[g] = 1
    BY <1>4, <1>10, <2>2 DEF InodeBounds, Opened, KeptTail
  <2>4. Grows(g)
    BY <2>1, <2>3 DEF Appears
  <2>5. tl[t].pc = "select"
    BY <1>10, <2>2, <2>4 DEF Grows, Followers
  <2>6. Watched(t)
    BY <1>4, <2>5 DEF ToldAlone, Shapes, Shape
  <2>7. [f |-> g, op |-> "Write"] \in Elements(events')
    BY <1>10, <2>3, <2>4, <2>6 DEF Watched, Grows
  <2> QED
    BY <1>1, <1>10, <2>5, <2>7 DEF Told
<1> QED
  BY <1>9, <1>10

LEMMA EventAlone ==
  ASSUME LibraryTypes, Shapes, AloneTails, RunEvent \/ RunGiveUp
  PROVE  AloneTails'
<1>1. UNCHANGED <<path, inodes, replaced, tl, wg, missed, chans, done, kwatch>>
  BY DEF RunEvent, RunGiveUp, fileVars, trackerVars, kernelVars
<1> SUFFICES ASSUME NEW t \in Tails, Alone(t)' PROVE EndsAlone(t)' /\ ToldAlone(t)'
  BY DEF AloneTails
<1>2. Alone(t)
  BY <1>1 DEF Alone, Sole, Followers
<1>3. EndsAlone(t) /\ ToldAlone(t)
  BY <1>2 DEF AloneTails
<1>4. EndsAlone(t)'
  BY <1>1, <1>3 DEF EndsAlone, Ending
<1>5. LineWaits(t)' = LineWaits(t)
  BY <1>1 DEF LineWaits, EndOfLine, OpenSize
<1>6. CASE RunEvent
  <2>1. /\ run = Idle /\ events # <<>> /\ events' = Tail(events)
        /\ run' = IF chans[Head(events).f] # 0 /\ done[Head(events).f] # 0
                  THEN [f |-> Head(events).f, op |-> Head(events).op,
                        ch |-> chans[Head(events).f], done |-> done[Head(events).f]]
                  ELSE Idle
    BY <1>6 DEF RunEvent
  <2>2. events \in Seq(Event) /\ Elements(events) = Elements(Tail(events)) \cup {Head(events)}
    BY <2>1, TailKeeps DEF LibraryTypes
  <2>3. Watched(t) => Watched(t)'
    BY <1>1, <2>1 DEF Watched
  <2>4. Watched(t) /\ Told(t) => Told(t)'
    <3> SUFFICES ASSUME Watched(t), Told(t) PROVE Told(t)'
      OBVIOUS
    <3>1. CASE Head(events) = [f |-> path[t], op |-> "Write"]
      BY <1>1, <2>1, <3>1 DEF Told, Watched
    <3>2. CASE Head(events) # [f |-> path[t], op |-> "Write"]
      <4>1. run.op # "Write"
        BY <2>1 DEF Idle
      <4>2. CASE tl[t].changes.Modified \/ wg[t].pc = "stat"
        BY <1>1, <4>2 DEF Told
      <4>3. CASE [f |-> path[t], op |-> "Write"] \in Elements(events)
        BY <1>1, <2>1, <2>2, <3>2, <4>3 DEF Told
      <4> QED
        BY <4>1, <4>2, <4>3 DEF Told
    <3> QED
      BY <3>1, <3>2
  <2>5. LineWaits(t) /\ tl[t].pc = "select" => tl[t].watching
    BY DEF Shapes, Shape
  <2> QED
    BY <1>1, <1>3, <1>4, <1>5, <2>3, <2>4, <2>5 DEF ToldAlone
<1>7. CASE RunGiveUp
  <2>1. run # Idle /\ run.done # done[run.f] /\ run' = Idle /\ events' = events
    BY <1>7 DEF RunGiveUp, kernelVars
  <2>2. Watched(t) => Watched(t)' /\ run.f # path[t]
    BY <1>1, <2>1 DEF Watched
  <2>3. Watched(t) /\ Told(t) => Told(t)'
    BY <1>1, <2>1, <2>2 DEF Told
  <2>4. LineWaits(t) /\ tl[t].pc = "select" => tl[t].watching
    BY DEF Shapes, Shape
  <2> QED
    BY <1>1, <1>3, <1>4, <1>5, <2>2, <2>3, <2>4 DEF ToldAlone
<1> QED
  BY <1>6, <1>7

LEMMA RunAlone ==
  ASSUME LibraryTypes, InodeBounds, Shapes, Counts, KeptFiles, KeptTails, AloneTails, NEW t \in Tails,
         RunWatchCreate(t) \/ RunRemoveCreate(t) \/ RunWatch(t) \/ RunRemove(t)
  PROVE  AloneTails'
<1>0. Alone(t) => EndsAlone(t) /\ ToldAlone(t) /\ KeptTail(t)
  BY DEF AloneTails, KeptTails, Alone
<1>1. UNCHANGED <<fileVars, missed, run, events>>
  BY DEF RunWatchCreate, RunRemoveCreate, RunWatch, RunRemove, kernelVars
<1>2. path[t] \in Files /\ kwatch \in [Files -> Nat] /\ chans \in [Files -> Nat]
  BY DEF LibraryTypes
<1>3. path' = path /\ inodes' = inodes /\ cur' = cur /\ Elements(events) \subseteq Elements(events')
  BY <1>1 DEF fileVars
<1>4. CASE RunWatchCreate(t)
  <2>1. /\ OneTail(t) /\ tl[t].pc = "watchCreate" /\ tl'[t].pc = "stat" /\ OpenChans(path[t])
        /\ SameWatch(tl[t], tl'[t])
    BY <1>4, RunWatchCreateEffect
  <2>2. wg' = wg /\ kwatch' = kwatch
    BY <1>4 DEF RunWatchCreate, kernelVars
  <2>3. Alone(t) => ~tl'[t].watching
    BY <1>0, <2>1 DEF KeptTail, Early, SameWatch
  <2>4. Alone(t) => EndsAlone(t)' /\ ToldAlone(t)'
    BY <2>1, <2>3 DEF Ending, EndsAlone, ToldAlone, LineWaits
  <2>5. OtherWatches(t)
    BY <2>1, <2>2, OtherOpened
  <2> QED
    BY <1>1, <1>3, <2>1, <2>2, <2>4, <2>5, SameWatchers, AloneKept
<1>5. CASE RunRemoveCreate(t)
  <2>1. /\ OneTail(t) /\ tl'[t].pc = tl[t].next /\ SameWatch(tl[t], tl'[t]) /\ SameStop(tl[t], tl'[t])
    BY <1>5, RemoveCreateStep
  <2>2. wg' = wg /\ kwatch' = kwatch /\ tl[t].pc = "removeCreate" /\ done' = done /\ CloseChan(path[t])
    BY <1>5 DEF RunRemoveCreate, kernelVars
  <2>3. tl[t].next \in {"reopen", "close"}
    BY <2>2 DEF Shapes, Shape
  <2>4. Alone(t) => ~tl'[t].watching
    BY <1>0, <2>1, <2>2 DEF KeptTail, Early, Waiting, SameWatch
  <2>5. Alone(t) => (tl[t].next = "close" => tl'[t].dying)
    BY <1>0, <2>1, <2>2 DEF EndsAlone, Ending, SameStop
  <2>6. Alone(t) => EndsAlone(t)' /\ ToldAlone(t)'
    BY <2>1, <2>3, <2>4, <2>5 DEF Ending, EndsAlone, ToldAlone, LineWaits
  <2>7. OtherWatches(t)
    BY <2>2 DEF OtherWatches, CloseChan
  <2> QED
    BY <1>1, <1>3, <2>1, <2>2, <2>3, <2>6, <2>7, SameWatchers, AloneKept
<1>6. CASE RunWatch(t)
  <2>1. /\ OneTail(t) /\ OneWatcher(t) /\ tl[t].pc = "watch" /\ OpenChans(path[t])
        /\ SameRead(tl[t], tl'[t]) /\ SameStop(tl[t], tl'[t])
        /\ (RunWatched(t) \/ RunFailed(t)) /\ run = Idle
    BY <1>6, RunWatchEffect
  <2>2. tl'[t].pc \in {"select", "close"}
    BY <2>1 DEF RunWatched, RunFailed
  <2>3. OtherWatches(t)
    BY <1>2, <2>1, OtherOpened DEF RunWatched, RunFailed
  <2> SUFFICES ASSUME Alone(t) PROVE EndsAlone(t)' /\ ToldAlone(t)'
    BY <1>1, <1>3, <2>1, <2>2, <2>3, AloneKept
  <2>4. cur[path[t]] = 1
    BY <1>0, <2>1 DEF KeptTail, InodeBounds, Opened
  <2>5. RunWatched(t)
    BY <2>1, <2>4 DEF RunFailed
  <2>6. wg[t].pc = "none"
    BY <2>1 DEF Shapes, Shape
  <2>7. watchNums[path[t]] = 0
    BY <2>6, NobodyWatches DEF Alone
  <2>8. kwatch'[path[t]] = 1
    BY <1>2, <2>4, <2>5, <2>7 DEF RunWatched
  <2>9. chans'[path[t]] # 0 /\ done'[path[t]] # 0
    BY <1>2, <2>1, OpenChansType
  <2>10. Watched(t)'
    BY <1>1, <1>3, <2>1, <2>5, <2>8, <2>9 DEF Watched, RunWatched
  <2>11. tl'[t].pc = "select"
    BY <2>5 DEF RunWatched
  <2>12. LineWaits(t)' => LineWaits(t)
    BY <1>1, <1>3, <2>1 DEF LineWaits, EndOfLine, OpenSize, SameRead
  <2>13. LineWaits(t) => tl[t].dying
    BY <1>0, <2>1 DEF ToldAlone
  <2> QED
    BY <2>1, <2>10, <2>11, <2>12, <2>13 DEF EndsAlone, Ending, ToldAlone, SameStop
<1>7. CASE RunRemove(t)
  <2>1. /\ OneTail(t) /\ tl'[t].pc = tl[t].pc /\ tl'[t].watching = tl[t].watching
        /\ SameWait(tl[t], tl'[t]) /\ SameStop(tl[t], tl'[t])
    BY <1>7, RemoveStep
  <2>2. /\ OneWatcher(t) /\ wg[t].pc = "remove" /\ CloseChan(path[t]) /\ done' = done
        /\ kwatch' \in {kwatch, [kwatch EXCEPT ![path[t]] = 0]}
    BY <1>7, RunRemoveEffect
  <2>3. OtherWatches(t)
    BY <1>2, <2>2 DEF OtherWatches, CloseChan
  <2>4. tl[t].watching /\ tl[t].pc # "none"
    BY <2>2 DEF Shapes, Shape
  <2> SUFFICES ASSUME Alone(t) PROVE EndsAlone(t)' /\ ToldAlone(t)'
    BY <1>1, <1>3, <2>1, <2>2, <2>3, <2>4, AloneKept
  <2>5. tl[t].dying
    BY <1>0, <2>2, <2>4 DEF ToldAlone, Watched
  <2>6. tl[t].pc # "blocked"
    BY <1>0, <2>4 DEF KeptTail, Early, Waiting
  <2> QED
    BY <2>1, <2>5, <2>6 DEF EndsAlone, ToldAlone, SameStop
<1> QED
  BY <1>4, <1>5, <1>6, <1>7

LEMMA WatchAlone ==
  ASSUME LibraryTypes, InodeBounds, Shapes, KeptFiles, KeptTails, AloneTails, NEW t \in Tails, WatchStep(t)
  PROVE  AloneTails'
<1>0. Alone(t) => EndsAlone(t) /\ ToldAlone(t) /\ KeptTail(t)
  BY DEF AloneTails, KeptTails, Alone
<1>1. UNCHANGED <<fileVars, missed, events, chans, kwatch>>
  BY DEF WatchStep, GetEvents, WatchReceive, WatchEnd, WatchStat, Unwatch, kernelVars, trackerVars
<1>2. wg[t].pc # "none"
  BY DEF WatchStep, GetEvents, WatchReceive, WatchEnd, WatchStat, Unwatch
<1>3. tl[t].watching /\ tl[t].pc # "none"
  BY <1>2 DEF Shapes, Shape
<1>4. path' = path /\ inodes' = inodes /\ cur' = cur /\ Elements(events) \subseteq Elements(events')
  BY <1>1 DEF fileVars
<1>5. Alone(t) => (tl[t].dying \/ Watched(t))
  BY <1>0, <1>3 DEF ToldAlone
<1>6. Alone(t) => (LineWaits(t) => tl[t].dying \/ (tl[t].pc = "select" /\ Told(t)))
  BY <1>0 DEF ToldAlone
<1>7. ASSUME tl' = tl
      PROVE  /\ OneTail(t) /\ (Alone(t) => EndsAlone(t)') /\ LineWaits(t)' = LineWaits(t)
             /\ tl'[t].dying = tl[t].dying /\ tl'[t].pc = tl[t].pc
  <2>1. OneTail(t) /\ tl'[t].dying = tl[t].dying /\ tl'[t].pc = tl[t].pc
    BY <1>7, SameTails
  <2>2. Alone(t) => EndsAlone(t)'
    BY <1>0, <1>1, <1>4, <1>7 DEF EndsAlone, Ending
  <2>3. LineWaits(t)' = LineWaits(t)
    BY <1>1, <1>4, <1>7 DEF LineWaits, OpenSize, EndOfLine
  <2> QED
    BY <2>1, <2>2, <2>3
<1>8. CASE GetEvents(t)
  <2>0. chans[path[t]] \in Nat
    BY DEF LibraryTypes
  <2>1. tl' = tl /\ run' = run /\ done' = done /\ wg[t].pc = "events"
    BY <1>8 DEF GetEvents, trackerVars
  <2>2. OneWatcher(t) /\ wg'[t].pc = "receive" /\ wg'[t].ch = chans[path[t]]
    BY <1>8, <2>0, ChannelStep DEF GetEvents
  <2>3. OtherWatches(t)
    BY <1>1, <2>1 DEF OtherWatches
  <2>4. Watched(t) => Watched(t)'
    BY <1>1, <1>4, <2>1, <2>2 DEF Watched
  <2>5. Told(t) => Told(t)'
    BY <1>1, <1>4, <2>1 DEF Told
  <2>6. Alone(t) => ToldAlone(t)'
    BY <1>5, <1>6, <1>7, <2>1, <2>4, <2>5 DEF ToldAlone
  <2> QED
    BY <1>1, <1>3, <1>4, <1>7, <2>1, <2>2, <2>3, <2>6, AloneKept
<1>9. CASE WatchReceive(t)
  <2>1. tl' = tl /\ run' = Idle /\ run.f = path[t] /\ done' = done /\ wg[t].pc = "receive"
    BY <1>9 DEF WatchReceive, Receive, trackerVars
  <2>2. /\ OneWatcher(t) /\ wg'[t].ch = wg[t].ch
        /\ \/ run.op \in {"Remove", "Rename"}
           \/ run.op \in {"Chmod", "Write"} /\ wg'[t].pc = "stat"
           \/ run.op \notin {"Remove", "Rename", "Chmod", "Write"} /\ wg'[t].pc = "receive"
    BY <1>9, ReceivedStep
  <2>3. OtherWatches(t)
    BY <1>1, <2>1 DEF OtherWatches
  <2> SUFFICES ASSUME Alone(t) PROVE ToldAlone(t)'
    BY <1>1, <1>3, <1>4, <1>7, <2>1, <2>2, <2>3, AloneKept
  <2>4. run.op \in {"Write", "Create", "none"}
    BY <2>1 DEF KeptFiles, KeptFile, LibraryTypes, Alone
  <2>5. \/ run.op = "Write" /\ wg'[t].pc = "stat"
        \/ run.op # "Write" /\ wg'[t].pc = "receive"
    BY <2>2, <2>4
  <2>6. Watched(t) => Watched(t)'
    BY <1>1, <1>4, <2>1, <2>2, <2>5 DEF Watched
  <2>7. Told(t) => Told(t)'
    BY <1>1, <1>4, <2>1, <2>5 DEF Told
  <2> QED
    BY <1>5, <1>6, <1>7, <2>1, <2>6, <2>7 DEF ToldAlone
<1>10. CASE WatchEnd(t)
  <2>1. /\ tl' = tl /\ run' = run /\ done' = done /\ wg[t].pc = "receive"
        /\ (Closed(path[t], wg[t].ch) \/ tl[t].dying)
    BY <1>10 DEF WatchEnd, trackerVars
  <2>2. OneWatcher(t)
    BY <1>10, ReceiveStep DEF WatchEnd
  <2>3. OtherWatches(t)
    BY <1>1, <2>1 DEF OtherWatches
  <2>4. Alone(t) => tl[t].dying
    BY <1>5, <2>1 DEF Watched, Closed
  <2>5. Alone(t) => ToldAlone(t)'
    BY <1>7, <2>1, <2>4 DEF ToldAlone
  <2> QED
    BY <1>1, <1>3, <1>4, <1>7, <2>1, <2>2, <2>3, <2>5, AloneKept
<1>11. CASE WatchStat(t)
  <2>1. /\ wg[t].pc = "stat" /\ OneTail(t) /\ OneWatcher(t)
        /\ tl'[t].pc = tl[t].pc /\ tl'[t].watching = tl[t].watching
        /\ SameRead(tl[t], tl'[t]) /\ SameWait(tl[t], tl'[t]) /\ SameStop(tl[t], tl'[t])
        /\ wg'[t].ch = wg[t].ch
        /\ \/ cur[path[t]] = 0
           \/ /\ wg'[t].pc = "receive"
              /\ \/ tl'[t].changes.Modified
                 \/ wg[t].size > inodes[path[t]][cur[path[t]]].size
    BY <1>11, WatchStatEffect
  <2>2. run' = run /\ done' = done
    BY <1>11 DEF WatchStat, trackerVars
  <2>3. OtherWatches(t)
    BY <1>1, <2>2 DEF OtherWatches
  <2> SUFFICES ASSUME Alone(t) PROVE EndsAlone(t)' /\ ToldAlone(t)'
    BY <1>1, <1>3, <1>4, <2>1, <2>2, <2>3, AloneKept
  <2>4. cur[path[t]] = 1 /\ wg[t].size <= inodes[path[t]][1].size
    BY <1>0, <2>1 DEF KeptTail
  <2>5. inodes[path[t]][1].size \in Nat /\ wg[t].size \in Nat
    <3>1. wg[t] \in Watcher /\ path[t] \notin replaced /\ cur[path[t]] # 0
      BY <2>4 DEF LibraryTypes, Alone
    <3>2. inodes[path[t]][1].size \in Nat
      BY <3>1, KeptSizes
    <3> QED
      BY <3>1, <3>2 DEF Watcher
  <2>6. ~(wg[t].size > inodes[path[t]][1].size)
    BY <2>4, <2>5
  <2>7. wg'[t].pc = "receive" /\ tl'[t].changes.Modified
    BY <2>1, <2>4, <2>6
  <2>8. Watched(t) => Watched(t)'
    BY <1>1, <1>4, <2>1, <2>2, <2>7 DEF Watched
  <2>9. Told(t)'
    BY <2>7 DEF Told
  <2>10. LineWaits(t)' = LineWaits(t)
    BY <1>1, <1>4, <2>1 DEF LineWaits, OpenSize, EndOfLine, SameRead
  <2>11. EndsAlone(t)'
    BY <1>0, <1>1, <1>4, <2>1 DEF EndsAlone, Ending, SameStop, SameWait
  <2> QED
    BY <1>5, <1>6, <2>1, <2>8, <2>9, <2>10, <2>11 DEF ToldAlone, SameStop
<1>12. CASE Unwatch(t)
  <2>1. tl' = tl /\ run' = run /\ wg[t].pc = "unwatch" /\ CloseDone(path[t])
    BY <1>12 DEF Unwatch
  <2>2. OneWatcher(t)
    BY <1>12, UnwatchStep DEF Unwatch
  <2>3. OtherWatches(t)
    BY <1>1, <2>1 DEF OtherWatches, CloseDone, LibraryTypes
  <2>4. Alone(t) => tl[t].dying
    BY <1>5, <2>1 DEF Watched
  <2>5. Alone(t) => ToldAlone(t)'
    BY <1>7, <2>1, <2>4 DEF ToldAlone
  <2> QED
    BY <1>1, <1>3, <1>4, <1>7, <2>1, <2>2, <2>3, <2>5, AloneKept
<1> QED
  BY <1>8, <1>9, <1>10, <1>11, <1>12 DEF WatchStep

LEMMA TailAlone ==
  ASSUME LibraryTypes, InodeBounds, Shapes, KeptFiles, KeptTails, AloneTails, NEW t \in Tails,
         TailStep(t) \/ SendLine(t) \/ Start(t) \/ Kill(t)
  PROVE  AloneTails'
<1>0. Alone(t) => EndsAlone(t) /\ ToldAlone(t) /\ KeptTail(t)
  BY DEF AloneTails, KeptTails, Alone
<1>1. UNCHANGED <<fileVars, missed, chans, wg>>
  BY Zenon DEF TailStep, Reopen, StatCreated, BlockedReceive, BlockedEnd, UnwatchCreate, ReadLine, Changed, Moved,
         Dying, CloseTail, SendLine, Start, Kill, trackerVars
<1>2. OneWatcher(t) /\ wg'[t] = wg[t]
  BY <1>1, SameWatchers
<1>3. path' = path /\ inodes' = inodes /\ cur' = cur /\ missed' = missed /\ path[t] \in Files
  BY <1>1 DEF fileVars, LibraryTypes
<1>4. ASSUME UNCHANGED <<kwatch, done, events, run>>
      PROVE  /\ OtherWatches(t) /\ SameHere(t) /\ Elements(events) \subseteq Elements(events')
             /\ (Watched(t) => Watched(t)')
  <2>1. OtherWatches(t) /\ SameHere(t)
    BY <1>1, <1>4 DEF OtherWatches, SameHere
  <2> QED
    BY <1>2, <1>3, <1>4, <2>1, WatchedSame
<1>5. ASSUME UNCHANGED <<kwatch, done, events, run>>, OneTail(t), tl'[t].pc = "none" => tl[t].pc = "none",
             Alone(t) => EndsAlone(t)' /\ ToldAlone(t)'
      PROVE  AloneTails'
  BY <1>1, <1>2, <1>4, <1>5, AloneKept
<1>6. Alone(t) /\ tl[t].pc \in Early => ~tl[t].watching
  BY <1>0 DEF KeptTail
<1>7. ASSUME tl'[t].pc \notin {"watch", "select", "blocked"}, ~Ending(t)' \/ tl'[t].dying,
             ~tl'[t].watching \/ tl'[t].dying \/ Watched(t)'
      PROVE  EndsAlone(t)' /\ ToldAlone(t)'
  BY <1>7 DEF EndsAlone, ToldAlone, LineWaits
<1>8. CASE Reopen(t)
  <2>1. /\ OneTail(t) /\ tl[t].pc = "reopen" /\ tl'[t].pc \in {"read", "watchCreate"}
        /\ SameWatch(tl[t], tl'[t])
    BY <1>8, ReopenEffect
  <2>2. UNCHANGED <<kwatch, done, events, run>>
    BY <1>8 DEF Reopen, trackerVars, kernelVars
  <2>3. Alone(t) => ~tl'[t].watching
    BY <1>6, <2>1 DEF Early, SameWatch
  <2> QED
    BY <1>5, <1>7, <2>1, <2>2, <2>3 DEF Ending
<1>9. CASE StatCreated(t)
  <2>1. /\ OneTail(t) /\ tl[t].pc = "stat"
        /\ \/ tl'[t].pc = "unwatchCreate" /\ tl'[t].next = "reopen"
           \/ tl'[t].pc = "blocked" /\ tl'[t].ch = chans[path[t]]
        /\ SameWatch(tl[t], tl'[t])
    BY <1>9, StatCreatedEffect
  <2>2. UNCHANGED <<kwatch, done, events, run>>
    BY <1>9 DEF StatCreated, trackerVars, kernelVars
  <2>3. Alone(t) => ~tl'[t].watching
    BY <1>6, <2>1 DEF Early, Waiting, SameWatch
  <2>4. Alone(t) => EndsAlone(t)' /\ ToldAlone(t)'
    BY <1>1, <1>3, <2>1, <2>3 DEF EndsAlone, Ending, ToldAlone, LineWaits
  <2> QED
    BY <1>5, <2>1, <2>2, <2>4
<1>10. CASE BlockedReceive(t) \/ BlockedEnd(t)
  <2>1. /\ OneTail(t) /\ tl[t].pc = "blocked" /\ tl'[t].pc = "unwatchCreate"
        /\ \/ BlockedReceive(t) /\ tl'[t].next = "reopen"
           \/ BlockedEnd(t) /\ tl'[t].next = "close"
        /\ SameWatch(tl[t], tl'[t]) /\ SameStop(tl[t], tl'[t])
    BY <1>10, BlockedEffect
  <2>2. /\ UNCHANGED <<kwatch, done, events>>
        /\ (run' = run \/ (run' = Idle /\ run.f = path[t]))
    BY <1>10 DEF BlockedReceive, BlockedEnd, Receive, trackerVars, kernelVars
  <2>3. Alone(t) => ~tl'[t].watching
    BY <1>6, <2>1 DEF Early, Waiting, SameWatch
  <2>4. Alone(t) /\ BlockedEnd(t) => tl'[t].dying
    BY <1>0, <2>1 DEF BlockedEnd, Closed, EndsAlone, SameStop
  <2>5. Alone(t) => EndsAlone(t)' /\ ToldAlone(t)'
    BY <1>7, <2>1, <2>3, <2>4 DEF Ending
  <2>6. OtherWatches(t) /\ Elements(events) \subseteq Elements(events')
    BY <1>1, <2>2 DEF OtherWatches
  <2> QED
    BY <1>1, <1>2, <2>1, <2>2, <2>5, <2>6, AloneKept
<1>11. CASE UnwatchCreate(t)
  <2>1. /\ OneTail(t) /\ tl[t].pc = "unwatchCreate" /\ tl'[t].pc = "removeCreate"
        /\ SameWatch(tl[t], tl'[t]) /\ SameWait(tl[t], tl'[t]) /\ SameStop(tl[t], tl'[t])
    BY <1>11, UnwatchCreateEffect
  <2>2. UNCHANGED <<kwatch, events, run>> /\ CloseDone(path[t])
    BY <1>11 DEF UnwatchCreate, kernelVars
  <2>3. Alone(t) => ~tl'[t].watching
    BY <1>6, <2>1 DEF Early, Waiting, SameWatch
  <2>4. Alone(t) => (~Ending(t)' \/ tl'[t].dying)
    BY <1>0, <2>1 DEF EndsAlone, Ending, SameStop, SameWait
  <2>5. Alone(t) => EndsAlone(t)' /\ ToldAlone(t)'
    BY <1>7, <2>1, <2>3, <2>4
  <2>6. OtherWatches(t) /\ Elements(events) \subseteq Elements(events')
    BY <1>1, <2>2 DEF OtherWatches, CloseDone, LibraryTypes
  <2> QED
    BY <1>1, <1>2, <2>1, <2>2, <2>5, <2>6, AloneKept
<1>12. CASE ReadLine(t)
  <2>1. /\ OneTail(t) /\ tl[t].pc = "read" /\ OpenSize(t) \in Nat
        /\ tl'[t].fd = tl[t].fd /\ tl'[t].pos = tl[t].pos
        /\ SameWatch(tl[t], tl'[t]) /\ SameStop(tl[t], tl'[t])
        /\ \/ tl'[t].pc = "send"
           \/ /\ tl'[t].pc \in {"select", "watch"}
              /\ OpenSize(t) < EndOfLine(t) \/ OpenSize(t) < tl[t].buf
    BY <1>12, ReadEffect
  <2>2. UNCHANGED <<kwatch, done, events, run>>
    BY <1>12 DEF ReadLine, trackerVars, kernelVars
  <2>3. Alone(t) => ~tl'[t].watching \/ tl'[t].dying \/ Watched(t)'
    BY <1>0, <1>4, <2>1, <2>2 DEF ToldAlone, SameWatch, SameStop
  <2>4. Alone(t) => tl[t].buf <= OpenSize(t)
    BY <1>0, <2>1 DEF KeptTail, InodeBounds, Opened, OpenSize
  <2>5. tl[t].buf \in Nat /\ EndOfLine(t) \in Nat
    BY EndOfLineType DEF LibraryTypes, Goroutine
  <2>6. Alone(t) /\ tl'[t].pc # "send" => ~(EndOfLine(t) <= OpenSize(t))
    BY <2>1, <2>4, <2>5
  <2>7. EndOfLine(t)' = EndOfLine(t) /\ OpenSize(t)' = OpenSize(t)
    BY <1>3, <2>1 DEF EndOfLine, OpenSize
  <2>8. Alone(t) => ~LineWaits(t)'
    BY <2>6, <2>7 DEF LineWaits
  <2>9. Alone(t) => EndsAlone(t)' /\ ToldAlone(t)'
    BY <2>1, <2>3, <2>8 DEF EndsAlone, Ending, ToldAlone
  <2> QED
    BY <1>5, <2>1, <2>2, <2>9
<1>13. CASE Changed(t) \/ SendLine(t)
  <2>1. OneTail(t) /\ tl'[t].pc = "read" /\ tl'[t].watching = tl[t].watching /\ SameStop(tl[t], tl'[t])
    BY <1>13, ChangedEffect, SendEffect DEF SameWatch
  <2>2. UNCHANGED <<kwatch, done, events, run>>
    BY <1>13 DEF Changed, SendLine, trackerVars, kernelVars
  <2>3. Alone(t) => ~tl'[t].watching \/ tl'[t].dying \/ Watched(t)'
    BY <1>0, <1>4, <2>1, <2>2 DEF ToldAlone, SameStop
  <2> QED
    BY <1>5, <1>7, <2>1, <2>2, <2>3 DEF Ending
<1>14. CASE Moved(t)
  <2>1. /\ OneTail(t) /\ tl[t].pc = "select" /\ tl'[t].pc = "reopen"
        /\ (tl[t].changes.Deleted \/ tl[t].changes.Truncated)
    BY <1>14, MovedEffect
  <2>2. ~Alone(t)
    BY <1>0, <2>1 DEF KeptTail
  <2>3. CloseFile(t) /\ done' = done /\ run' = run
    BY <1>14 DEF Moved, trackerVars
  <2>4. OtherWatches(t) /\ Elements(events) \subseteq Elements(events')
    BY <1>1, <1>3, <2>3, CloseFileEffect DEF OtherWatches, LibraryTypes
  <2> QED
    BY <1>1, <1>2, <2>1, <2>2, <2>3, <2>4, AloneKept
<1>15. CASE Dying(t)
  <2>1. OneTail(t) /\ tl[t].dying /\ tl'[t].pc = "close" /\ SameStop(tl[t], tl'[t])
    BY <1>15, DyingEffect
  <2>2. UNCHANGED <<kwatch, done, events, run>>
    BY <1>15 DEF Dying, trackerVars, kernelVars
  <2> QED
    BY <1>5, <1>7, <2>1, <2>2 DEF SameStop
<1>16. CASE CloseTail(t)
  <2>1. OneTail(t) /\ tl[t].pc = "close" /\ tl'[t].pc = "done" /\ tl'[t].dying
    BY <1>16, CloseTailEffect
  <2>2. EndsAlone(t)' /\ ToldAlone(t)'
    BY <1>7, <2>1
  <2>3. CloseFile(t) /\ done' = done /\ run' = run
    BY <1>16 DEF CloseTail, trackerVars
  <2>4. OtherWatches(t) /\ Elements(events) \subseteq Elements(events')
    BY <1>1, <1>3, <2>3, CloseFileEffect DEF OtherWatches, LibraryTypes
  <2> QED
    BY <1>1, <1>2, <2>1, <2>2, <2>3, <2>4, AloneKept
<1>17. CASE Start(t)
  <2>1. OneTail(t) /\ tl[t].pc = "none" /\ tl'[t].pc = "reopen" /\ ~tl'[t].watching
    BY <1>17, StartEffect
  <2>2. UNCHANGED <<kwatch, done, events, run>>
    BY <1>17 DEF Start, trackerVars, kernelVars
  <2> QED
    BY <1>5, <1>7, <2>1, <2>2 DEF Ending
<1>18. CASE Kill(t)
  <2>1. OneTail(t) /\ tl'[t].pc = tl[t].pc /\ tl'[t].dying /\ SameWait(tl[t], tl'[t])
    BY <1>18, KillEffect
  <2>2. UNCHANGED <<kwatch, done, events, run>>
    BY <1>18 DEF Kill, trackerVars, kernelVars
  <2>3. Alone(t) => EndsAlone(t)' /\ ToldAlone(t)'
    BY <1>0, <1>1, <1>3, <2>1 DEF EndsAlone, ToldAlone, SameWait
  <2> QED
    BY <1>5, <2>1, <2>2, <2>3
<1> QED
  BY <1>8, <1>9, <1>10, <1>11, <1>12, <1>13, <1>14, <1>15, <1>16, <1>17, <1>18 DEF TailStep

LEMMA AloneStep ==
  ASSUME LibraryTypes, InodeBounds, Shapes, Counts, KeptFiles, KeptTails, AloneTails, Step PROVE AloneTails'
<1>1. CASE UNCHANGED tailVars
  <2>1. UNCHANGED <<path, inodes, replaced, tl, wg, missed, chans, done, kwatch, run, events>>
    BY <1>1 DEF tailVars, fileVars, trackerVars, kernelVars
  <2>2. \A t \in Tails : /\ Alone(t)' = Alone(t) /\ EndsAlone(t)' = EndsAlone(t)
                         /\ Watched(t)' = Watched(t) /\ Told(t)' = Told(t) /\ LineWaits(t)' = LineWaits(t)
    BY <2>1 DEF Alone, Sole, Followers, EndsAlone, Ending, Watched, Told, LineWaits, EndOfLine, OpenSize
  <2> QED
    BY <2>1, <2>2 DEF AloneTails, ToldAlone
<1> QED
  BY <1>1, FileAlone, EventAlone, RunAlone, WatchAlone, TailAlone DEF Step, RunStep

-----------------------------------------------------------------------------
(* The library as a whole.                                                  *)

LibraryInv ==
  /\ LibraryTypes /\ InodeBounds /\ Shapes /\ Counts
  /\ Busy /\ Attended /\ KeptFiles /\ KeptTails /\ AloneTails

LEMMA LibraryInvStep ==
  ASSUME LibraryInv, Step PROVE LibraryInv'
<1>1. LibraryTypes /\ InodeBounds /\ Shapes /\ Counts /\ Busy /\ Attended /\ KeptFiles /\ KeptTails /\ AloneTails
  BY DEF LibraryInv
<1>2. LibraryTypes'
  BY <1>1, TypesStep
<1>3. InodeBounds'
  BY <1>1, BoundsStep
<1>4. Shapes'
  BY <1>1, ShapesStep
<1>5. Counts'
  BY <1>1, CountsStep
<1>6. Busy'
  BY <1>1, BusyStep
<1>7. Attended'
  BY <1>1, AttendedStep
<1>8. KeptFiles'
  BY <1>1, KeptFilesStep
<1>9. KeptTails'
  BY <1>1, KeptTailsStep
<1>10. AloneTails'
  BY <1>1, AloneStep
<1> QED
  BY <1>2, <1>3, <1>4, <1>5, <1>6, <1>7, <1>8, <1>9, <1>10 DEF LibraryInv

\* A file that is there before the tails is one inode with a name.
LEMMA OneInode ==
  ASSUME NEW n \in Nat
  PROVE  /\ <<[size |-> n, link |-> TRUE]>> \in Seq(Inode)
         /\ Len(<<[size |-> n, link |-> TRUE]>>) = 1
         /\ <<[size |-> n, link |-> TRUE]>>[1].link
<1>1. [size |-> n, link |-> TRUE] \in Inode
  BY DEF Inode
<1> QED
  BY <1>1

LEMMA LibraryStarts ==
  ASSUME LibraryInit, path \in [Tails -> Files], NEW h \in Goroutine, h.pc \in {"reopen", "none"},
         h.fd = 0, h.pos = 0, ~h.watching, h.changes = NoChanges, h.lines = <<>>,
         tl = [t \in Tails |-> h],
         inodes \in [Files -> {<<>>} \cup {<<[size |-> n, link |-> TRUE]>> : n \in Nat}]
  PROVE  LibraryInv
<1>1. \A f \in Files : \/ inodes[f] = <<>>
                       \/ \E n \in Nat : inodes[f] = <<[size |-> n, link |-> TRUE]>>
  OBVIOUS
<1>2. \A f \in Files : /\ inodes[f] \in Seq(Inode) /\ Len(inodes[f]) \in {0, 1}
                       /\ \A k \in 1 .. Len(inodes[f]) : inodes[f][k].link
  <2> SUFFICES ASSUME NEW f \in Files
               PROVE  /\ inodes[f] \in Seq(Inode) /\ Len(inodes[f]) \in {0, 1}
                      /\ \A k \in 1 .. Len(inodes[f]) : inodes[f][k].link
    OBVIOUS
  <2>1. CASE inodes[f] = <<>>
    BY <2>1, EmptySeq
  <2>2. ASSUME NEW n \in Nat, inodes[f] = <<[size |-> n, link |-> TRUE]>>
        PROVE  /\ inodes[f] \in Seq(Inode) /\ Len(inodes[f]) \in {0, 1}
               /\ \A k \in 1 .. Len(inodes[f]) : inodes[f][k].link
    <3>1. inodes[f] \in Seq(Inode) /\ Len(inodes[f]) = 1 /\ inodes[f][1].link
      BY <2>2, OneInode
    <3> QED
      BY <3>1
  <2> QED
    BY <1>1, <2>1, <2>2
<1>4. /\ h.pc \in {"reopen", "none"} /\ h.fd = 0 /\ h.pos = 0 /\ ~h.watching
      /\ h.changes = NoChanges /\ h.lines = <<>>
  OBVIOUS
<1>5. tl \in [Tails -> Goroutine] /\ \A t \in Tails : tl[t] = h
  OBVIOUS
<1>6. wg \in [Tails -> Watcher] /\ \A t \in Tails : wg[t].pc = "none" /\ wg[t].next = "none"
  BY NoGoroutineType DEF LibraryInit
<1>7. Elements(events) = {} /\ events \in Seq(Event)
  BY EmptySeq DEF LibraryInit, Elements
<1>8. cur \in [Files -> Nat]
  BY <1>2 DEF LibraryInit
<1>9. LibraryTypes
  <2>1. inodes \in [Files -> Seq(Inode)]
    BY <1>2
  <2>2. /\ kwatch \in [Files -> Nat] /\ chans \in [Files -> Nat] /\ done \in [Files -> Nat]
        /\ watchNums \in [Files -> Int] /\ dirNums \in Int
        /\ missed \subseteq Tails /\ failed \subseteq Files /\ replaced \subseteq Files
    BY DEF LibraryInit
  <2>3. run \in Sending
    BY IdleType DEF LibraryInit
  <2> QED
    BY <1>5, <1>6, <1>7, <1>8, <2>1, <2>2, <2>3 DEF LibraryTypes
<1>10. InodeBounds
  <2>1. MaxInodes \in Nat /\ MaxInodes # 0
    BY TailAssumption
  <2>2. \A f \in Files : cur[f] <= Len(inodes[f]) /\ Len(inodes[f]) <= MaxInodes /\ kwatch[f] <= MaxInodes
    <3> SUFFICES ASSUME NEW f \in Files
                 PROVE  cur[f] <= Len(inodes[f]) /\ Len(inodes[f]) <= MaxInodes /\ kwatch[f] <= MaxInodes
      OBVIOUS
    <3>1. 0 <= MaxInodes /\ 1 <= MaxInodes
      BY <2>1
    <3>2. Len(inodes[f]) \in {0, 1} /\ cur[f] = Len(inodes[f]) /\ kwatch[f] = 0
      BY <1>2 DEF LibraryInit
    <3>3. Len(inodes[f]) <= MaxInodes
      BY <3>1, <3>2
    <3>4. cur[f] <= Len(inodes[f])
      BY <3>2
    <3> QED
      BY <3>1, <3>2, <3>3, <3>4
  <2>3. \A t \in Tails : tl[t].fd <= Len(inodes[path[t]]) /\ tl[t].pc \notin Opened
    <3>1. \A t \in Tails : 0 <= Len(inodes[path[t]])
      BY <1>2
    <3> QED
      BY <1>4, <1>5, <3>1 DEF Opened
  <2> QED
    BY <2>2, <2>3 DEF InodeBounds
<1>11. Shapes
  BY <1>4, <1>5, <1>6, NoChangesFacts DEF Shapes, Shape
<1>12. Counts
  <2>1. \A f \in Files : Watchers(f) = {} /\ watchNums[f] = 0
    BY <1>6 DEF Watchers, Followers, LibraryInit
  <2>2. Waiters = {} /\ dirNums = 0
    BY <1>4, <1>5 DEF Waiters, Waiting, LibraryInit
  <2> QED
    BY <2>1, <2>2, FS_EmptySet DEF Counts
<1>13. Busy /\ Attended
  BY DEF Busy, Attended, LibraryInit
<1>14. KeptFiles
  <2>1. run.f = "none" /\ run.op = "none"
    BY DEF LibraryInit, Idle
  <2>2. \A f \in Files : cur[f] = Len(inodes[f]) /\ cur[f] <= 1 /\ watchNums[f] = 0
    BY <1>2 DEF LibraryInit
  <2>3. \A f \in Files : ~(watchNums[f] > 0)
    BY <2>2
  <2> QED
    BY <1>2, <1>7, <2>1, <2>2, <2>3 DEF KeptFiles, KeptFile
<1>15. KeptTails
  <2>1. \A t \in Tails : tl[t].pos = 0 /\ tl[t].lines = <<>>
    BY <1>4, <1>5
  <2>2. \A t \in Tails : ReadSoFar(t)
    BY <2>1, EmptyRead
  <2> QED
    BY <1>4, <1>5, <1>6, <2>2, NoChangesFacts DEF KeptTails, KeptTail
<1>16. AloneTails
  BY <1>4, <1>5 DEF AloneTails, EndsAlone, Ending, ToldAlone, LineWaits
<1> QED
  BY <1>9, <1>10, <1>11, <1>12, <1>13, <1>14, <1>15, <1>16 DEF LibraryInv

LEMMA TailNextIsStep ==
  ASSUME LibraryTypes, [TailNext]_<<tailVars, ops>> PROVE Step
<1>1. \A t \in Tails : path[t] \in Files
  BY DEF LibraryTypes
<1>2. \A t \in Tails : StopAtEOF(t) => Kill(t)
  BY DEF StopAtEOF, Kill
<1> QED
  BY <1>1, <1>2 DEF TailNext, Step

\* LibraryInv is inductive: the types, the tracker's counters, channels and
\* sender, and what is known of files that were never replaced and of tails
\* that are alone with their file hold in every state of the tail library.
THEOREM LibraryHolds == TailSpec => []LibraryInv
<1>1. TailInit => LibraryInv
  <2> SUFFICES ASSUME TailInit PROVE LibraryInv
    OBVIOUS
  <2>1. LibraryInit /\ path \in [Tails -> Files] /\ tl = [t \in Tails |-> NewTail]
    BY DEF TailInit
  <2>2. /\ NewTail.pc = "reopen" /\ NewTail.fd = 0 /\ NewTail.pos = 0 /\ ~NewTail.watching
        /\ NewTail.changes = NoChanges /\ NewTail.lines = <<>>
    BY DEF NewTail
  <2>3. MaxSize - 1 \in Nat
    BY TailAssumption
  <2>4. inodes \in [Files -> {<<>>} \cup {<<[size |-> n, link |-> TRUE]>> : n \in Nat}]
    BY <2>3 DEF TailInit
  <2> QED
    BY <2>1, <2>2, <2>4, NewTailType, LibraryStarts
<1>2. LibraryInv /\ [TailNext]_<<tailVars, ops>> => LibraryInv'
  BY TailNextIsStep, LibraryInvStep DEF LibraryInv
<1> QED
  BY <1>1, <1>2, PTL DEF TailSpec

\* What tailVars hold when LibraryInv does: the counters of the tracker count
\* one watch of each tail at most.
LEMMA LibraryCounts == ASSUME LibraryInv PROVE TailTypeOK
<1>1. LibraryTypes /\ InodeBounds /\ Counts /\ IsFiniteSet(Tails) /\ MaxInodes \in Nat
  BY TailAssumption DEF LibraryInv
<1>2. cur \in [Files -> 0 .. MaxInodes]
  <2> SUFFICES ASSUME NEW f \in Files PROVE cur[f] \in 0 .. MaxInodes
    BY <1>1 DEF LibraryTypes
  <2>1. cur[f] \in Nat /\ Len(inodes[f]) \in Nat /\ cur[f] <= Len(inodes[f]) /\ Len(inodes[f]) <= MaxInodes
    BY <1>1, LenProperties DEF LibraryTypes, InodeBounds
  <2> QED
    BY <1>1, <2>1
<1>3. kwatch \in [Files -> 0 .. MaxInodes]
  <2> SUFFICES ASSUME NEW f \in Files PROVE kwatch[f] \in 0 .. MaxInodes
    BY <1>1 DEF LibraryTypes
  <2>1. kwatch[f] \in Nat /\ kwatch[f] <= MaxInodes
    BY <1>1 DEF LibraryTypes, InodeBounds
  <2> QED
    BY <1>1, <2>1
<1>4. \A S \in SUBSET Tails : Cardinality(S) \in 0 .. Cardinality(Tails)
  <2> SUFFICES ASSUME NEW S \in SUBSET Tails PROVE Cardinality(S) \in 0 .. Cardinality(Tails)
    OBVIOUS
  <2>1. IsFiniteSet(S) /\ Cardinality(S) <= Cardinality(Tails)
    BY <1>1, FS_Subset
  <2>2. Cardinality(S) \in Nat /\ Cardinality(Tails) \in Nat
    BY <1>1, <2>1, FS_CardinalityType
  <2> QED
    BY <2>1, <2>2
<1>5. watchNums \in [Files -> 0 .. Cardinality(Tails)]
  <2> SUFFICES ASSUME NEW f \in Files PROVE watchNums[f] \in 0 .. Cardinality(Tails)
    BY <1>1 DEF LibraryTypes
  <2>1. Watchers(f) \in SUBSET Tails
    BY DEF Watchers, Followers
  <2>2. Cardinality(Watchers(f)) \in 0 .. Cardinality(Tails)
    BY <1>4, <2>1
  <2> QED
    BY <1>1, <2>2 DEF Counts
<1>6. dirNums \in 0 .. Cardinality(Tails)
  <2>1. Waiters \in SUBSET Tails
    BY DEF Waiters
  <2>2. Cardinality(Waiters) \in 0 .. Cardinality(Tails)
    BY <1>4, <2>1
  <2> QED
    BY <1>1, <2>2 DEF Counts
<1>7. run.f \in Files \union {"none"} /\ path \in [Tails -> Files]
  BY <1>1 DEF LibraryTypes, Sending
<1> QED
  BY <1>2, <1>3, <1>5, <1>6, <1>7 DEF TailTypeOK

\* The reference counts of InotifyTracker (watchNums, and the watches of the
\* directory) stay between zero and the number of tails: none is ever left
\* behind by addWatch and removeWatch.
THEOREM CountersBounded == TailSpec => []TailTypeOK
  BY LibraryHolds, LibraryCounts, PTL

\* The goroutine InotifyTracker.run is never blocked for good in sendEvent,
\* unless a failed addWatch left channels behind: some tail of the file will
\* receive the event or close the done channel.
THEOREM RunNeverHangs == TailSpec => []RunNotStuck
<1>1. LibraryInv => RunNotStuck
  <2> SUFFICES ASSUME LibraryInv, run # Idle, run.done = done[run.f]
               PROVE  (\E t \in Followers(run.f) : Attends(t)) \/ run.f \in failed
    BY DEF RunNotStuck
  <2>1. run.f \in Files /\ chans[run.f] # 0 /\ done[run.f] # 0
    BY DEF LibraryInv, Busy
  <2> QED
    BY <2>1 DEF LibraryInv, Attended
<1> QED
  BY <1>1, LibraryHolds, PTL

\* tailFileSync hands over the lines of a file that is never replaced whole,
\* each once and in order.
THEOREM LinesInOrder == TailSpec => []LinesIntact
<1>1. LibraryInv => LinesIntact
  BY DEF LibraryInv, KeptTails, ReadSoFar, LinesIntact
<1> QED
  BY <1>1, LibraryHolds, PTL

LEMMA OneFollower ==
  ASSUME NEW t \in Tails, ~(Cardinality(Followers(path[t])) > 1) PROVE Sole(t)
<1> SUFFICES ASSUME NEW u \in Followers(path[t]) \ {t} PROVE FALSE
  BY DEF Sole
<1>1. IsFiniteSet(Followers(path[t])) /\ {t, u} \subseteq Followers(path[t])
  BY SetsFinite DEF Followers
<1>2. Cardinality({t, u}) <= Cardinality(Followers(path[t]))
  BY <1>1, FS_Subset
<1>3. Cardinality({t, u}) = 2
  <2>1. IsFiniteSet({t}) /\ Cardinality({t}) = 1
    BY FS_Singleton
  <2>2. Cardinality({t} \cup {u}) = Cardinality({t}) + 1
    BY <2>1, FS_AddElement
  <2>3. {t} \cup {u} = {t, u}
    OBVIOUS
  <2> QED
    BY <2>1, <2>2, <2>3
<1>4. Cardinality(Followers(path[t])) \in Nat
  BY <1>1, FS_CardinalityType
<1> QED
  BY <1>2, <1>3, <1>4

\* A tail that is alone with a file that was never replaced does not sleep on
\* a complete line, unless the line was written between its last read of the
\* file and its inotify watch.
THEOREM NoLineForgotten == TailSpec => []UnreadNeedsGap
<1>1. LibraryInv => UnreadNeedsGap
  <2> SUFFICES ASSUME LibraryInv, NEW t \in Tails, Asleep(t), Unread(t), t \notin missed,
                      path[t] \notin replaced, ~(Cardinality(Followers(path[t])) > 1)
               PROVE  FALSE
    BY DEF UnreadNeedsGap
  <2>1. Alone(t)
    BY OneFollower DEF Alone
  <2>2. ToldAlone(t)
    BY <2>1 DEF LibraryInv, AloneTails
  <2>3. tl[t].pc = "select" /\ ~tl[t].dying
    BY DEF Asleep
  <2>4. LineWaits(t)
    BY <2>3 DEF LineWaits, Unread, OpenSize
  <2>5. Told(t)
    BY <2>2, <2>3, <2>4 DEF ToldAlone
  <2>6. ~tl[t].changes.Modified /\ wg[t].pc # "stat" /\ run.f # path[t]
    BY NoChangesFacts DEF Asleep
  <2>7. [f |-> path[t], op |-> "Write"] \notin Elements(events)
    BY DEF Asleep, Elements
  <2> QED
    BY <2>5, <2>6, <2>7 DEF Told
<1> QED
  BY <1>1, LibraryHolds, PTL

LEMMA DoneAfterClose ==
  ASSUME LibraryInv, Step, NEW t \in Tails, tl[t].pc # "done", tl'[t].pc = "done"
  PROVE  tl[t].pc = "close"
<1>1. LibraryTypes /\ InodeBounds /\ Shapes
  BY DEF LibraryInv
<1>2. CASE \E f \in Files : FileStep(f)
  BY <1>1, <1>2, FileEffect
<1>3. CASE RunEvent \/ RunGiveUp \/ UNCHANGED tailVars
  BY <1>3 DEF RunEvent, RunGiveUp, tailVars
<1>4. ASSUME NEW u \in Tails,
             \/ RunWatchCreate(u) \/ RunRemoveCreate(u) \/ RunWatch(u) \/ RunRemove(u)
             \/ WatchStep(u) \/ TailStep(u) \/ SendLine(u) \/ Start(u) \/ Kill(u)
      PROVE  u = t => tl[t].pc = "close"
  <2>1. CASE RunRemoveCreate(u)
    <3>1. tl'[u].pc = tl[u].next /\ tl[u].pc = "removeCreate"
      BY <1>1, <2>1, RemoveCreateStep DEF RunRemoveCreate
    <3>2. tl[u].next \in {"reopen", "close"}
      BY <1>1, <3>1 DEF Shapes, Shape
    <3> QED
      BY <3>1, <3>2
  <2>2. CASE RunWatchCreate(u) \/ RunWatch(u) \/ RunRemove(u)
    BY <1>1, <2>2, RunWatchCreateEffect, RunWatchEffect, RemoveStep DEF RunWatched, RunFailed
  <2>3. CASE WatchStep(u)
    <3>1. CASE WatchStat(u)
      BY <1>1, <3>1, WatchStatEffect
    <3>2. CASE ~WatchStat(u)
      BY <2>3, <3>2 DEF WatchStep, GetEvents, WatchReceive, WatchEnd, Unwatch
    <3> QED
      BY <3>1, <3>2
  <2>4. CASE TailStep(u)
    <3>1. \/ tl'[u].pc \in {"read", "watchCreate", "unwatchCreate", "blocked", "removeCreate", "send",
                             "select", "watch", "reopen", "close"}
          \/ tl[u].pc = "close"
      BY <1>1, <2>4, ReopenEffect, StatCreatedEffect, BlockedEffect, UnwatchCreateEffect, ReadEffect,
         ChangedEffect, MovedEffect, DyingEffect, CloseTailEffect DEF TailStep
    <3> QED
      BY <3>1
  <2>5. CASE SendLine(u) \/ Start(u) \/ Kill(u)
    BY <1>1, <2>5, SendEffect, StartEffect, KillEffect
  <2> QED
    BY <1>4, <2>1, <2>2, <2>3, <2>4, <2>5
<1>5. ASSUME NEW u \in Tails,
             \/ RunWatchCreate(u) \/ RunRemoveCreate(u) \/ RunWatch(u) \/ RunRemove(u)
             \/ WatchStep(u) \/ TailStep(u) \/ SendLine(u) \/ Start(u) \/ Kill(u)
      PROVE  OneTail(u)
  <2>1. CASE WatchStep(u)
    <3>1. CASE WatchStat(u)
      BY <1>1, <3>1, WatchStatEffect
    <3>2. CASE ~WatchStat(u)
      BY <1>1, <2>1, <3>2, SameTails DEF WatchStep, GetEvents, WatchReceive, WatchEnd, Unwatch
    <3> QED
      BY <3>1, <3>2
  <2>2. CASE TailStep(u) \/ SendLine(u) \/ Start(u) \/ Kill(u)
    BY <1>1, <2>2, TailStepEffect
  <2>3. CASE RunWatchCreate(u) \/ RunRemoveCreate(u) \/ RunWatch(u) \/ RunRemove(u)
    BY <1>1, <2>3, RunWatchCreateEffect, RemoveCreateStep, RunWatchEffect, RemoveStep
  <2> QED
    BY <1>5, <2>1, <2>2, <2>3
<1> QED
  BY <1>2, <1>3, <1>4, <1>5 DEF Step, RunStep, OneTail

\* A tail that nobody stopped, alone with a file that was never replaced,
\* never ends: tailFileSync reaches its deferred close only when it is dying.
THEOREM EndsOnlyStopped == TailSpec => EndNeedsStop
<1>1. LibraryInv /\ [TailNext]_<<tailVars, ops>> =>
        [\A t \in Tails :
           tl[t].pc # "done" /\ tl'[t].pc = "done" =>
             \/ tl[t].dying
             \/ path[t] \in replaced
             \/ Cardinality(Followers(path[t])) > 1]_tl
  <2> SUFFICES ASSUME LibraryInv, [TailNext]_<<tailVars, ops>>, NEW t \in Tails,
                      tl[t].pc # "done", tl'[t].pc = "done", path[t] \notin replaced,
                      ~(Cardinality(Followers(path[t])) > 1)
               PROVE  tl[t].dying
    OBVIOUS
  <2>1. Step
    BY TailNextIsStep DEF LibraryInv
  <2>2. tl[t].pc = "close"
    BY <2>1, DoneAfterClose
  <2>3. Alone(t)
    BY OneFollower DEF Alone
  <2> QED
    BY <2>2, <2>3 DEF LibraryInv, AloneTails, EndsAlone, Ending
<1> QED
  BY <1>1, LibraryHolds, PTL DEF TailSpec, EndNeedsStop

-----------------------------------------------------------------------------
(* LogStream: what the steps of the library leave alone.                    *)

Quiet(t) ==
  /\ tl'[t].lines = tl[t].lines
  /\ tl'[t].pc = "none" <=> tl[t].pc = "none"
  /\ tl[t].pc = "done" => tl'[t].pc = "done"
  /\ tl'[t].dying => tl[t].dying \/ Ending(t)

LEMMA QuietOne ==
  ASSUME NEW t \in Tails, OneTail(t), Quiet(t) PROVE \A u \in Tails : Quiet(u)
<1>1. \A u \in Tails \ {t} : Quiet(u)
  BY DEF OneTail, Quiet
<1> QED
  BY <1>1

LEMMA QuietSame == ASSUME tl' = tl PROVE \A u \in Tails : Quiet(u)
  BY DEF Quiet

LEMMA QuietStep ==
  ASSUME LibraryInv, \/ RunStep \/ \E f \in Files : FileStep(f)
                     \/ \E t \in Tails : WatchStep(t) \/ TailStep(t)
  PROVE  \A u \in Tails : Quiet(u)
<1>1. LibraryTypes /\ InodeBounds /\ Shapes
  BY DEF LibraryInv
<1>2. CASE \E f \in Files : FileStep(f)
  BY <1>1, <1>2, FileEffect, QuietSame
<1>3. CASE RunEvent \/ RunGiveUp
  BY <1>3, QuietSame DEF RunEvent, RunGiveUp
<1>4. ASSUME NEW t \in Tails, RunWatchCreate(t) \/ RunWatch(t) \/ RunRemove(t)
      PROVE  \A u \in Tails : Quiet(u)
  <2>1. /\ OneTail(t) /\ SameRead(tl[t], tl'[t]) /\ SameStop(tl[t], tl'[t])
        /\ \/ tl[t].pc \in {"watchCreate", "watch"} /\ tl'[t].pc \in {"stat", "select", "close"}
           \/ tl'[t].pc = tl[t].pc
    BY <1>1, <1>4, RunWatchCreateEffect, RunWatchEffect, RemoveStep DEF RunWatched, RunFailed
  <2>2. Quiet(t)
    BY <2>1 DEF Quiet, SameRead, SameStop
  <2> QED
    BY <2>1, <2>2, QuietOne
<1>5. ASSUME NEW t \in Tails, RunRemoveCreate(t)
      PROVE  \A u \in Tails : Quiet(u)
  <2>1. /\ OneTail(t) /\ SameRead(tl[t], tl'[t]) /\ SameStop(tl[t], tl'[t])
        /\ tl'[t].pc = tl[t].next /\ tl[t].pc = "removeCreate"
    BY <1>1, <1>5, RemoveCreateStep DEF RunRemoveCreate
  <2>2. tl[t].next \in {"reopen", "close"}
    BY <1>1, <2>1 DEF Shapes, Shape
  <2>3. Quiet(t)
    BY <2>1, <2>2 DEF Quiet, SameRead, SameStop
  <2> QED
    BY <2>1, <2>3, QuietOne
<1>6. ASSUME NEW t \in Tails, WatchStep(t)
      PROVE  \A u \in Tails : Quiet(u)
  <2>1. CASE WatchStat(t)
    <3>1. OneTail(t) /\ tl'[t].pc = tl[t].pc /\ SameRead(tl[t], tl'[t]) /\ SameStop(tl[t], tl'[t])
      BY <1>1, <2>1, WatchStatEffect
    <3>2. Quiet(t)
      BY <3>1 DEF Quiet, SameRead, SameStop
    <3> QED
      BY <3>1, <3>2, QuietOne
  <2>2. CASE ~WatchStat(t)
    BY <1>6, <2>2, QuietSame DEF WatchStep, GetEvents, WatchReceive, WatchEnd, Unwatch
  <2> QED
    BY <2>1, <2>2
<1>7. ASSUME NEW t \in Tails, TailStep(t)
      PROVE  \A u \in Tails : Quiet(u)
  <2>1. CASE CloseTail(t)
    <3>1. OneTail(t) /\ tl[t].pc = "close" /\ tl'[t].pc = "done" /\ tl'[t].lines = tl[t].lines
      BY <1>1, <2>1, CloseTailEffect
    <3>2. Quiet(t)
      BY <3>1 DEF Quiet, Ending
    <3> QED
      BY <3>1, <3>2, QuietOne
  <2>2. CASE ~CloseTail(t)
    <3>1. /\ OneTail(t) /\ tl'[t].lines = tl[t].lines /\ SameStop(tl[t], tl'[t])
          /\ tl[t].pc \in {"reopen", "stat", "blocked", "unwatchCreate", "read", "select"}
          /\ tl'[t].pc \in {"read", "watchCreate", "unwatchCreate", "blocked", "removeCreate", "send",
                             "select", "watch", "reopen", "close"}
      BY <1>1, <1>7, <2>2, ReopenEffect, StatCreatedEffect, BlockedEffect, UnwatchCreateEffect, ReadEffect,
         ChangedEffect, MovedEffect, DyingEffect DEF TailStep, SameRead
    <3>2. Quiet(t)
      BY <3>1 DEF Quiet, SameStop
    <3> QED
      BY <3>1, <3>2, QuietOne
  <2> QED
    BY <2>1, <2>2
<1> QED
  BY <1>2, <1>3, <1>4, <1>5, <1>6, <1>7 DEF RunStep

LEMMA FilesOrTails ==
  ASSUME Step PROVE (\E f \in Files : FileStep(f)) \/ UNCHANGED fileVars
<1>1. RunStep => UNCHANGED fileVars
  BY Zenon DEF RunStep, RunEvent, RunGiveUp, RunWatchCreate, RunRemoveCreate, RunWatch, RunRemove
<1>2. \A t \in Tails : WatchStep(t) => UNCHANGED fileVars
  BY DEF WatchStep, GetEvents, WatchReceive, WatchEnd, WatchStat, Unwatch
<1>3. \A t \in Tails : TailStep(t) => UNCHANGED fileVars
  BY Zenon DEF TailStep, Reopen, StatCreated, BlockedReceive, BlockedEnd, UnwatchCreate, ReadLine, Changed, Moved,
         Dying, CloseTail
<1>4. \A t \in Tails : SendLine(t) \/ Start(t) \/ Kill(t) => UNCHANGED fileVars
  BY DEF SendLine, Start, Kill
<1>5. UNCHANGED tailVars => UNCHANGED fileVars
  BY DEF tailVars
<1> QED
  BY <1>1, <1>2, <1>3, <1>4, <1>5 DEF Step

LEMMA FilesKept ==
  ASSUME LibraryInv, Step PROVE path' = path /\ replaced \subseteq replaced'
<1>1. LibraryTypes /\ InodeBounds
  BY DEF LibraryInv
<1>2. CASE \E f \in Files : FileStep(f)
  BY <1>1, <1>2, FileEffect, Zenon DEF Grows, Appears, Goes
<1>3. CASE UNCHANGED fileVars
  BY <1>3 DEF fileVars
<1> QED
  BY <1>2, <1>3, FilesOrTails

\* How lines travel: A has been received, B is the chunk being sent, C the
\* buffer and D the line on its way to it.
LEMMA FlowReceive ==
  ASSUME NEW S, NEW A \in Seq(S), NEW B \in Seq(S), NEW C \in Seq(S), NEW e \in S
  PROVE  Append(A \o B \o C \o <<>>, e) = A \o B \o C \o <<e>>
<1>1. A \o B \o C \in Seq(S)
  BY ConcatProperties
<1> QED
  BY <1>1, ConcatEmptySeq, AppendIsConcat

LEMMA FlowRead ==
  ASSUME NEW S, NEW A \in Seq(S), NEW B \in Seq(S), NEW C \in Seq(S), NEW D \in Seq(S), NEW E, NEW L
  PROVE  E = B \o C /\ L = A \o <<>> \o E \o D => A \o B \o C \o D = L
<1>1. A \o <<>> = A
  BY ConcatEmptySeq
<1>2. (A \o B) \o C = A \o (B \o C)
  BY ConcatAssociative
<1> QED
  BY <1>1, <1>2, Zenon

LEMMA FlowSend ==
  ASSUME NEW S, NEW A \in Seq(S), NEW B \in Seq(S), NEW C \in Seq(S), NEW D \in Seq(S)
  PROVE  (A \o B) \o <<>> \o C \o D = A \o B \o C \o D
<1>1. A \o B \in Seq(S)
  BY ConcatProperties
<1> QED
  BY <1>1, ConcatEmptySeq

LEMMA FlowPrefix ==
  ASSUME NEW S, NEW A \in Seq(S), NEW B \in Seq(S), NEW C \in Seq(S), NEW D \in Seq(S),
         NEW L, L = A \o B \o C \o D, NEW i \in 1 .. Len(A)
  PROVE  i \in 1 .. Len(L) /\ L[i] = A[i]
<1>1. ASSUME NEW X \in Seq(S), NEW Y \in Seq(S), NEW k \in 1 .. Len(X)
      PROVE  k \in 1 .. Len(X \o Y) /\ (X \o Y)[k] = X[k]
  <2>1. Len(X \o Y) = Len(X) + Len(Y) /\ Len(X) \in Nat /\ Len(Y) \in Nat
    BY ConcatProperties, LenProperties
  <2>2. k \in 1 .. Len(X) + Len(Y) /\ k <= Len(X)
    BY <2>1
  <2> QED
    BY <2>1, <2>2, ConcatProperties
<1>2. A \o B \in Seq(S) /\ A \o B \o C \in Seq(S)
  BY ConcatProperties
<1>3. i \in 1 .. Len(A \o B) /\ (A \o B)[i] = A[i]
  BY <1>1
<1>4. i \in 1 .. Len(A \o B \o C) /\ (A \o B \o C)[i] = A[i]
  BY <1>1, <1>2, <1>3
<1>5. i \in 1 .. Len(A \o B \o C \o D) /\ (A \o B \o C \o D)[i] = A[i]
  BY <1>1, <1>2, <1>4
<1> QED
  BY <1>5, Zenon

\* io.ReadFull takes the start of the buffer and leaves the rest.
LEMMA FlowSplit ==
  ASSUME NEW S, NEW s \in Seq(S), NEW n \in 0 .. Len(s)
  PROVE  /\ SubSeq(s, 1, n) \in Seq(S) /\ Unconsumed(s, n) \in Seq(S)
         /\ SubSeq(s, 1, n) \o Unconsumed(s, n) = s
<1>1. Len(s) \in Nat /\ n \in Int /\ n + 1 \in Int /\ \A i \in 1 .. Len(s) : s[i] \in S
  BY LenProperties, ElementOfSeq
<1>2. (\A i \in 1 .. n : s[i] \in S) /\ (\A i \in n + 1 .. Len(s) : s[i] \in S)
  BY <1>1
<1>3. /\ SubSeq(s, 1, n) \in Seq(S) /\ Len(SubSeq(s, 1, n)) = n
      /\ \A i \in 1 .. n : SubSeq(s, 1, n)[i] = s[i]
  <2>1. /\ SubSeq(s, 1, n) \in Seq(S) /\ Len(SubSeq(s, 1, n)) = IF 1 <= n THEN n - 1 + 1 ELSE 0
        /\ \A i \in 1 .. n - 1 + 1 : SubSeq(s, 1, n)[i] = s[1 + i - 1]
    BY <1>1, <1>2, SubSeqProperties
  <2>2. n - 1 + 1 = n /\ (~(1 <= n) => n = 0) /\ \A i \in 1 .. n : 1 + i - 1 = i
    OBVIOUS
  <2> QED
    BY <2>1, <2>2
<1>4. PICK u : u = SubSeq(s, n + 1, Len(s))
  OBVIOUS
<1>5. /\ u \in Seq(S) /\ Len(u) = Len(s) - n
      /\ \A i \in 1 .. Len(s) - n : u[i] = s[n + i]
  <2>1. /\ u \in Seq(S) /\ Len(u) = IF n + 1 <= Len(s) THEN Len(s) - (n + 1) + 1 ELSE 0
        /\ \A i \in 1 .. Len(s) - (n + 1) + 1 : u[i] = s[(n + 1) + i - 1]
    BY <1>1, <1>2, <1>4, SubSeqProperties
  <2>2. /\ Len(s) - (n + 1) + 1 = Len(s) - n /\ (~(n + 1 <= Len(s)) => Len(s) - n = 0)
        /\ \A i \in 1 .. Len(s) - n : (n + 1) + i - 1 = n + i
    BY <1>1
  <2> QED
    BY <2>1, <2>2
<1>6. PICK v : v = SubSeq(s, 1, n)
  OBVIOUS
<1>7. v \in Seq(S) /\ Len(v) = n /\ \A i \in 1 .. n : v[i] = s[i]
  BY <1>3, <1>6
<1>8. /\ v \o u \in Seq(S) /\ Len(v \o u) = n + (Len(s) - n)
      /\ \A i \in 1 .. n + (Len(s) - n) : (v \o u)[i] = IF i <= n THEN v[i] ELSE u[i - n]
  BY <1>5, <1>7, ConcatProperties
<1>9. n + (Len(s) - n) = Len(s)
  BY <1>1
<1>10. \A i \in 1 .. Len(s) : (v \o u)[i] = s[i]
  <2> SUFFICES ASSUME NEW i \in 1 .. Len(s) PROVE (v \o u)[i] = s[i]
    OBVIOUS
  <2>1. CASE i <= n
    BY <1>1, <1>7, <1>8, <1>9, <2>1
  <2>2. CASE ~(i <= n)
    <3>1. i - n \in 1 .. Len(s) - n /\ n + (i - n) = i
      BY <1>1, <2>2
    <3> QED
      BY <1>5, <1>8, <1>9, <2>2, <3>1
  <2> QED
    BY <2>1, <2>2
<1>11. v \o u = s
  BY <1>8, <1>9, <1>10, SeqEqual
<1> QED
  BY <1>4, <1>5, <1>6, <1>7, <1>11 DEF Unconsumed

-----------------------------------------------------------------------------
(* The streams.                                                             *)

Sizes == UNION {[DOMAIN LogFiles(u) -> Nat] : u \in Tails}
Request ==
  [mode : {"new", "error", "tail", "open"}, follow : BOOLEAN, message : Messages, sizes : {<<>>} \cup Sizes]
ReaderState ==
  [pc : {"none", "receive", "write", "end"}, line : Seq(Line), buff : Seq(Line), isClosed : BOOLEAN]
HandlerState ==
  [pc : {"none", "start", "select", "close", "read", "send", "end"}, chunk : Seq(Line),
   err : {"nil", "cancelled", "EOF", "send"}]
ClientState ==
  [sent : TailActions \cup {"none"}, gone : BOOLEAN, got : Seq(Line), size : Nat]

StreamTypes ==
  /\ req \in [Tails -> Request] /\ reader \in [Tails -> ReaderState]
  /\ handler \in [Tails -> HandlerState] /\ client \in [Tails -> ClientState]
  /\ second \in [Tails -> TailActions \cup {"none", "receive", "end"}]
  /\ \A t \in Tails : path[t] = StdOut[t]

\* How far the handler, the reader and the tail of a stream are.
Linked(t) ==
  /\ handler[t].pc # "none" => req[t].mode = "tail"
  /\ handler[t].pc \in {"none", "start"} => tl[t].pc = "none" /\ reader[t].pc = "none"
  /\ tl[t].pc = "none" => tl[t].lines = <<>>
  /\ handler[t].pc \notin {"read", "send", "end"} => handler[t].chunk = <<>>
  /\ reader[t].pc # "write" => reader[t].line = <<>>

\* Why a stream ends, and a tail.
Closing(t) ==
  /\ reader[t].isClosed => tl[t].pc = "done"
  /\ handler[t].pc = "end" => client[t].gone \/ reader[t].isClosed
  /\ handler[t].err = "EOF" => reader[t].isClosed
  /\ second[t] \in TailActions => client[t].sent = second[t]
  /\ tl[t].dying => client[t].sent = "ReadToEndAndClose" \/ ~Alone(t)

\* No line is lost, doubled or overtaken between the tail and the client.
Flow(t) == client[t].got \o handler[t].chunk \o reader[t].buff \o reader[t].line = tl[t].lines

Linking == \A t \in Tails : Linked(t) /\ Closing(t) /\ Flow(t)

StreamInv == LibraryInv /\ StreamTypes /\ Linking

OneStream(t) ==
  \A u \in Tails \ {t} : /\ req'[u] = req[u] /\ reader'[u] = reader[u] /\ handler'[u] = handler[u]
                         /\ client'[u] = client[u] /\ second'[u] = second[u] /\ tl'[u] = tl[u]

\* Facts about the other streams survive a step of one.
LEMMA LinkingKept ==
  ASSUME Linking, NEW t \in Tails, OneStream(t), \A u \in Tails : Alone(u)' => Alone(u),
         Linked(t)' /\ Closing(t)' /\ Flow(t)'
  PROVE  Linking'
<1>1. ASSUME NEW u \in Tails \ {t} PROVE Linked(u)' /\ Closing(u)' /\ Flow(u)'
  <2>1. Linked(u) /\ Closing(u) /\ Flow(u)
    BY DEF Linking
  <2>2. Linked(u)' /\ Flow(u)'
    BY <2>1 DEF OneStream, Linked, Flow
  <2>3. Closing(u)'
    BY <2>1 DEF OneStream, Closing
  <2> QED
    BY <2>2, <2>3
<1> QED
  BY <1>1 DEF Linking

\* A tail does not become alone again.
LEMMA AloneNever ==
  ASSUME LibraryInv, Step, \A u \in Tails : tl'[u].pc = "none" => tl[u].pc = "none"
  PROVE  \A u \in Tails : Alone(u)' => Alone(u)
<1>1. path' = path /\ replaced \subseteq replaced'
  BY FilesKept
<1> QED
  BY <1>1 DEF Alone, Sole, Followers

LEMMA LibraryLinks ==
  ASSUME StreamInv, UNCHANGED <<req, reader, handler, client, second>>,
         \/ RunStep \/ \E f \in Files : FileStep(f)
         \/ \E t \in Tails : WatchStep(t) \/ TailStep(t)
  PROVE  StreamTypes' /\ Linking'
<1>0. LibraryInv /\ Step
  BY DEF Step, StreamInv
<1>1. \A t \in Tails : Quiet(t)
  BY <1>0, QuietStep
<1>2. path' = path /\ \A u \in Tails : Alone(u)' => Alone(u)
  BY <1>0, <1>1, FilesKept, AloneNever DEF Quiet
<1>3. StreamTypes'
  BY <1>2 DEF StreamInv, StreamTypes
<1>4. ASSUME NEW t \in Tails PROVE Linked(t)' /\ Closing(t)' /\ Flow(t)'
  <2>1. Linked(t) /\ Closing(t) /\ Flow(t)
    BY DEF StreamInv, Linking
  <2>2. Quiet(t)
    BY <1>1
  <2>3. Linked(t)' /\ Flow(t)'
    BY <2>1, <2>2 DEF Linked, Flow, Quiet
  <2>4. Alone(t) => EndsAlone(t)
    BY <1>0 DEF LibraryInv, AloneTails
  <2>5. tl'[t].dying => client[t].sent = "ReadToEndAndClose" \/ ~Alone(t)
    BY <2>1, <2>2, <2>4 DEF Quiet, Closing, EndsAlone
  <2>6. Closing(t)'
    BY <1>2, <2>1, <2>2, <2>5 DEF Closing, Quiet
  <2> QED
    BY <2>3, <2>6
<1> QED
  BY <1>3, <1>4 DEF Linking

LEMMA SameLibrary ==
  ASSUME UNCHANGED tailVars PROVE path' = path /\ tl' = tl /\ \A u \in Tails : Alone(u)' => Alone(u)
<1>1. path' = path /\ tl' = tl /\ replaced' = replaced
  BY DEF tailVars, fileVars
<1> QED
  BY <1>1 DEF Alone, Sole, Followers

LEMMA LogFileNames ==
  ASSUME NEW t \in Tails, NEW i \in DOMAIN LogFiles(t) PROVE LogFiles(t)[i] \in Files
<1>1. StdOut[t] \in Files /\ StdErr[t] \in Files
  BY StreamAssumption
<1> QED
  BY <1>1 DEF LogFiles

\* What a name holds now: nothing, or so many bytes.
LEMMA NowSize ==
  ASSUME LibraryInv, NEW f \in Files
  PROVE  NameSize(f) \in Nat
<1>1. CASE cur[f] # 0
  <2>1. cur[f] \in Nat /\ Len(inodes[f]) \in Nat /\ cur[f] <= Len(inodes[f])
    BY LenProperties DEF LibraryInv, LibraryTypes, InodeBounds
  <2>2. cur[f] \in 1 .. Len(inodes[f])
    BY <1>1, <2>1
  <2> QED
    BY <1>1, <2>2, SizeType DEF LibraryInv, NameSize
<1> QED
  BY <1>1 DEF NameSize

LEMMA GetLinks ==
  ASSUME StreamInv, NEW t \in Tails, GetContainerLogs(t) PROVE StreamTypes' /\ Linking'
<1>1. /\ path' = path /\ tl' = tl /\ reader' = reader /\ second' = second /\ client' = client
      /\ \A u \in Tails : Alone(u)' => Alone(u)
  BY SameLibrary DEF GetContainerLogs
<1>2. /\ StreamTypes /\ LibraryInv /\ Linked(t) /\ Closing(t) /\ Flow(t) /\ Linking
      /\ req[t] \in Request /\ handler[t] \in HandlerState
  BY DEF StreamInv, Linking, StreamTypes
<1>3. req[t].mode = "new"
  BY DEF GetContainerLogs
<1>4. handler[t].pc = "none" /\ handler[t].chunk = <<>> /\ tl[t].pc = "none" /\ reader[t].pc = "none"
  BY <1>2, <1>3 DEF Linked
<1>5. ASSUME NEW r \in Request, NEW h \in HandlerState, req' = [req EXCEPT ![t] = r],
             handler' = [handler EXCEPT ![t] = h], h.pc = "none" \/ (h.pc = "start" /\ r.mode = "tail"),
             h.chunk = handler[t].chunk, h.err = handler[t].err
      PROVE  StreamTypes' /\ Linking'
  <2>1. StreamTypes'
    BY <1>1, <1>2, <1>5 DEF StreamTypes
  <2>2. req'[t] = r /\ handler'[t] = h
    BY <1>2, <1>5 DEF StreamTypes
  <2>3. OneStream(t)
    BY <1>1, <1>5 DEF OneStream
  <2>4. Linked(t)' /\ Flow(t)'
    BY <1>1, <1>2, <1>4, <1>5, <2>2 DEF Linked, Flow
  <2>5. Closing(t)'
    BY <1>1, <1>2, <1>5, <2>2 DEF Closing
  <2> QED
    BY <1>1, <1>2, <2>1, <2>3, <2>4, <2>5, LinkingKept
<1>6. ASSUME handler' = handler PROVE handler' = [handler EXCEPT ![t] = handler[t]]
  BY <1>2, <1>6 DEF StreamTypes
<1>7. CASE req' = [req EXCEPT ![t].mode = "error", ![t].message = ""] /\ handler' = handler
  <2>1. PICK r : r = [req[t] EXCEPT !.mode = "error", !.message = ""]
    OBVIOUS
  <2>2. r \in Request
    BY <1>2, <2>1 DEF Request, Messages
  <2>3. req' = [req EXCEPT ![t] = r]
    BY <1>2, <1>7, <2>1 DEF StreamTypes
  <2> QED
    BY <1>2, <1>4, <1>5, <1>6, <1>7, <2>2, <2>3
<1>8. CASE req' = [req EXCEPT ![t].mode = "tail", ![t].message = ""] /\ handler' = [handler EXCEPT ![t].pc = "start"]
  <2>1. PICK r : r = [req[t] EXCEPT !.mode = "tail", !.message = ""]
    OBVIOUS
  <2>2. r \in Request /\ r.mode = "tail"
    BY <1>2, <2>1 DEF Request, Messages
  <2>3. req' = [req EXCEPT ![t] = r]
    BY <1>2, <1>8, <2>1 DEF StreamTypes
  <2>4. PICK h : h = [handler[t] EXCEPT !.pc = "start"]
    OBVIOUS
  <2>5. h \in HandlerState /\ h.pc = "start" /\ h.chunk = handler[t].chunk /\ h.err = handler[t].err
    BY <1>2, <2>4 DEF HandlerState
  <2>6. handler' = [handler EXCEPT ![t] = h]
    BY <1>2, <1>8, <2>4 DEF StreamTypes
  <2> QED
    BY <1>5, <2>2, <2>3, <2>5, <2>6
<1>9. ASSUME NEW z \in [DOMAIN LogFiles(t) -> Nat],
             req' = [req EXCEPT ![t].mode = "open", ![t].message = "", ![t].sizes = z], handler' = handler
      PROVE  StreamTypes' /\ Linking'
  <2>1. PICK r : r = [req[t] EXCEPT !.mode = "open", !.message = "", !.sizes = z]
    OBVIOUS
  <2>2. r \in Request
    <3>1. z \in Sizes
      BY <1>9 DEF Sizes
    <3> QED
      BY <1>2, <2>1, <3>1 DEF Request, Messages
  <2>3. req' = [req EXCEPT ![t] = r]
    BY <1>2, <1>9, <2>1 DEF StreamTypes
  <2> QED
    BY <1>2, <1>4, <1>5, <1>6, <1>9, <2>2, <2>3
<1>10. [i \in DOMAIN LogFiles(t) |-> NameSize(LogFiles(t)[i])] \in [DOMAIN LogFiles(t) -> Nat]
  BY <1>2, LogFileNames, NowSize
<1> QED
  BY <1>7, <1>8, <1>9, <1>10 DEF GetContainerLogs

LEMMA ReaderLinks ==
  ASSUME StreamInv, NEW t \in Tails, ReaderStep(t) PROVE StreamTypes' /\ Linking'
<1>1. /\ StreamTypes /\ LibraryInv /\ Linked(t) /\ Closing(t) /\ Flow(t) /\ Linking
      /\ reader[t] \in ReaderState /\ reader \in [Tails -> ReaderState]
  BY DEF StreamInv, Linking, StreamTypes
<1>2. /\ client[t].got \in Seq(Line) /\ handler[t].chunk \in Seq(Line)
      /\ reader[t].buff \in Seq(Line) /\ reader[t].line \in Seq(Line) /\ tl[t].lines \in Seq(Line)
  BY <1>1 DEF StreamTypes, ReaderState, HandlerState, ClientState, LibraryInv, LibraryTypes, Goroutine
<1>3. UNCHANGED <<req, handler, second, client>>
  BY DEF ReaderStep, ReaderReceive, ReaderWrite, ReaderEnd
<1>4. CASE ReaderReceive(t)
  <2>1. reader[t].pc = "receive" /\ SendLine(t)
        /\ reader' = [reader EXCEPT ![t].pc = "write", ![t].line = <<tl'[t].lines[Len(tl'[t].lines)]>>]
    BY <1>4 DEF ReaderReceive
  <2>2. LibraryTypes /\ Step
    BY <1>1, <2>1 DEF LibraryInv, Step
  <2>3. /\ OneTail(t) /\ tl[t].pc = "send" /\ tl'[t].pc = "read" /\ SameStop(tl[t], tl'[t])
        /\ tl'[t].lines = Append(tl[t].lines, [ino |-> tl[t].fd, from |-> tl[t].pos])
    BY <2>1, <2>2, SendEffect
  <2>4. PICK e \in Line : e = [ino |-> tl[t].fd, from |-> tl[t].pos]
    BY <2>2 DEF Line, LibraryTypes, Goroutine
  <2>5. tl'[t].lines = Append(tl[t].lines, e) /\ e \in Line
    BY <2>3, <2>4
  <2>6. tl'[t].lines[Len(tl'[t].lines)] = e
    <3>1. Len(Append(tl[t].lines, e)) = Len(tl[t].lines) + 1 /\ Append(tl[t].lines, e)[Len(tl[t].lines) + 1] = e
      BY <1>2, <2>5, AppendProperties
    <3> QED
      BY <2>5, <3>1
  <2>7. PICK r : r = [reader[t] EXCEPT !.pc = "write", !.line = <<e>>]
    OBVIOUS
  <2>8. <<e>> \in Seq(Line)
    BY <2>5
  <2>9. r \in ReaderState /\ r.pc = "write" /\ r.line = <<e>> /\ r.buff = reader[t].buff
        /\ r.isClosed = reader[t].isClosed
    BY <1>1, <2>7, <2>8 DEF ReaderState
  <2>10. reader' = [reader EXCEPT ![t] = r]
    BY <1>1, <2>1, <2>6, <2>7
  <2>11. reader'[t] = r /\ reader' \in [Tails -> ReaderState] /\ \A u \in Tails \ {t} : reader'[u] = reader[u]
    BY <1>1, <2>9, <2>10
  <2>12. path' = path /\ \A u \in Tails : Alone(u)' => Alone(u)
    BY <1>1, <2>2, <2>3, FilesKept, AloneNever DEF OneTail
  <2>13. StreamTypes'
    BY <1>1, <1>3, <2>11, <2>12 DEF StreamTypes
  <2>14. OneStream(t)
    BY <1>3, <2>3, <2>11 DEF OneStream, OneTail
  <2>15. Linked(t)'
    BY <1>1, <1>3, <2>3, <2>9, <2>11 DEF Linked
  <2>16. Closing(t)'
    BY <1>1, <1>3, <2>3, <2>9, <2>11, <2>12 DEF Closing, SameStop
  <2>17. Flow(t)'
    <3>1. reader[t].line = <<>>
      BY <1>1, <2>1 DEF Linked
    <3>2. tl[t].lines = client[t].got \o handler[t].chunk \o reader[t].buff \o <<>>
      BY <1>1, <3>1 DEF Flow
    <3>3. e \in Line
      BY <2>4
    <3>4. Append(client[t].got \o handler[t].chunk \o reader[t].buff \o <<>>, e)
            = client[t].got \o handler[t].chunk \o reader[t].buff \o <<e>>
      <4> DEFINE A == client[t].got  B == handler[t].chunk  C == reader[t].buff
      <4>1. A \in Seq(Line) /\ B \in Seq(Line) /\ C \in Seq(Line)
        BY <1>2
      <4> HIDE DEF A, B, C
      <4>2. Append(A \o B \o C \o <<>>, e) = A \o B \o C \o <<e>>
        BY <3>3, <4>1, FlowReceive
      <4> QED
        BY <4>2 DEF A, B, C
    <3>5. Append(tl[t].lines, e) = client[t].got \o handler[t].chunk \o reader[t].buff \o <<e>>
      BY <3>2, <3>4
    <3> QED
      BY <1>3, <2>5, <2>9, <2>11, <3>5 DEF Flow
  <2> QED
    BY <1>1, <2>12, <2>13, <2>14, <2>15, <2>16, <2>17, LinkingKept
<1>5. ASSUME UNCHANGED tailVars, NEW r \in ReaderState, reader' = [reader EXCEPT ![t] = r],
             reader[t].pc # "none", r.pc # "none", r.pc # "write", r.line = <<>>,
             r.isClosed => tl[t].pc = "done", reader[t].isClosed => r.isClosed,
             client[t].got \o handler[t].chunk \o r.buff \o <<>> = tl[t].lines
      PROVE  StreamTypes' /\ Linking'
  <2>1. path' = path /\ tl' = tl /\ \A u \in Tails : Alone(u)' => Alone(u)
    BY <1>5, SameLibrary
  <2>2. reader'[t] = r /\ reader' \in [Tails -> ReaderState] /\ \A u \in Tails \ {t} : reader'[u] = reader[u]
    BY <1>1, <1>5
  <2>3. StreamTypes'
    BY <1>1, <1>3, <2>1, <2>2 DEF StreamTypes
  <2>4. OneStream(t)
    BY <1>3, <2>1, <2>2 DEF OneStream
  <2>5. Linked(t)' /\ Flow(t)'
    BY <1>1, <1>3, <1>5, <2>1, <2>2 DEF Linked, Flow
  <2>6. Closing(t)'
    BY <1>1, <1>3, <1>5, <2>1, <2>2 DEF Closing
  <2> QED
    BY <1>1, <2>1, <2>3, <2>4, <2>5, <2>6, LinkingKept
<1>6. CASE ReaderWrite(t)
  <2>1. /\ reader[t].pc = "write" /\ UNCHANGED tailVars
        /\ reader' = [reader EXCEPT ![t].pc = "receive", ![t].buff = @ \o reader[t].line, ![t].line = <<>>]
    BY <1>6 DEF ReaderWrite
  <2>2. PICK b : b = reader[t].buff \o reader[t].line
    OBVIOUS
  <2>3. b \in Seq(Line) /\ <<>> \in Seq(Line)
    BY <1>2, <2>2, ConcatProperties, EmptySeq
  <2>4. PICK r : r = [reader[t] EXCEPT !.pc = "receive", !.buff = b, !.line = <<>>]
    OBVIOUS
  <2>5. r \in ReaderState /\ r.pc = "receive" /\ r.line = <<>> /\ r.buff = b /\ r.isClosed = reader[t].isClosed
    BY <1>1, <2>3, <2>4 DEF ReaderState
  <2>6. reader' = [reader EXCEPT ![t] = r]
    BY <1>1, <2>1, <2>2, <2>4
  <2>7. client[t].got \o handler[t].chunk \o b \o <<>> = tl[t].lines
    <3>1. PICK A, B, C, D, L : /\ A = client[t].got /\ B = handler[t].chunk /\ C = reader[t].buff
                               /\ D = reader[t].line /\ L = tl[t].lines
      OBVIOUS
    <3>2. A \in Seq(Line) /\ B \in Seq(Line) /\ C \in Seq(Line) /\ D \in Seq(Line)
      BY <1>2, <3>1
    <3>3. L = A \o B \o C \o D /\ b = C \o D
      BY <1>1, <2>2, <3>1 DEF Flow
    <3>4. L = A \o B \o b
      <4>1. PICK X \in Seq(Line) : X = A \o B
        BY <3>2, ConcatProperties
      <4>2. \A Y \in Seq(Line) : (Y \o C) \o D = Y \o (C \o D)
        BY <3>2, ConcatAssociative, SMTT(30)
      <4>3. (X \o C) \o D = X \o (C \o D)
        BY <4>2
      <4> QED
        BY <3>3, <4>1, <4>3, Zenon
    <3>5. L \in Seq(Line)
      BY <1>2, <3>1
    <3>6. L \o <<>> = L
      BY <3>5, ConcatEmptySeq
    <3>7. A \o B \o b \o <<>> = L
      BY <3>4, <3>6, Zenon
    <3> QED
      BY <3>1, <3>7
  <2> QED
    BY <1>1, <1>5, <2>1, <2>5, <2>6, <2>7 DEF Closing
<1>7. CASE ReaderEnd(t)
  <2>1. /\ reader[t].pc = "receive" /\ tl[t].pc = "done" /\ UNCHANGED tailVars
        /\ reader' = [reader EXCEPT ![t].pc = "end", ![t].isClosed = TRUE]
    BY <1>7 DEF ReaderEnd
  <2>2. PICK r : r = [reader[t] EXCEPT !.pc = "end", !.isClosed = TRUE]
    OBVIOUS
  <2>3. r \in ReaderState /\ r.pc = "end" /\ r.line = reader[t].line /\ r.buff = reader[t].buff /\ r.isClosed
    BY <1>1, <2>2 DEF ReaderState
  <2>4. reader' = [reader EXCEPT ![t] = r]
    BY <1>1, <2>1, <2>2
  <2>5. reader[t].line = <<>>
    BY <1>1, <2>1 DEF Linked
  <2>6. client[t].got \o handler[t].chunk \o r.buff \o <<>> = tl[t].lines
    BY <1>1, <2>3, <2>5 DEF Flow
  <2> QED
    BY <1>5, <2>1, <2>3, <2>4, <2>5, <2>6
<1> QED
  BY <1>4, <1>6, <1>7 DEF ReaderStep

\* A step of the handler, its goroutine or its client, beside the library.
StreamUpdate(t) ==
  /\ handler' \in [Tails -> HandlerState] /\ reader' \in [Tails -> ReaderState]
  /\ client' \in [Tails -> ClientState] /\ second' \in [Tails -> TailActions \cup {"none", "receive", "end"}]
  /\ \A u \in Tails \ {t} : /\ handler'[u] = handler[u] /\ reader'[u] = reader[u]
                            /\ client'[u] = client[u] /\ second'[u] = second[u]

LEMMA StreamLinks ==
  ASSUME StreamInv, UNCHANGED <<tailVars, req>>, NEW t \in Tails, StreamUpdate(t),
         \/ handler'[t].pc = handler[t].pc
         \/ handler[t].pc \notin {"none", "start"} /\ handler'[t].pc \notin {"none", "start"},
         handler'[t].pc \in {"read", "send", "end"} \/ handler'[t].chunk = <<>>,
         reader'[t].pc = reader[t].pc, reader'[t].line = reader[t].line,
         reader'[t].isClosed = reader[t].isClosed,
         handler'[t].pc = "end" => client'[t].gone \/ reader'[t].isClosed,
         handler'[t].err = "EOF" => reader'[t].isClosed,
         second'[t] \in TailActions => client'[t].sent = second'[t],
         client[t].sent = "none" \/ client'[t].sent = client[t].sent,
         client'[t].got \o handler'[t].chunk \o reader'[t].buff \o reader'[t].line = tl[t].lines
  PROVE  StreamTypes' /\ Linking'
<1>1. StreamTypes /\ Linked(t) /\ Closing(t) /\ Linking
  BY DEF StreamInv, Linking
<1>2. path' = path /\ tl' = tl /\ req' = req /\ \A u \in Tails : Alone(u)' => Alone(u)
  BY SameLibrary
<1>4. StreamTypes'
  BY <1>1, <1>2 DEF StreamTypes, StreamUpdate
<1>5. OneStream(t)
  BY <1>2 DEF OneStream, StreamUpdate
<1>6. Linked(t)'
  BY <1>1, <1>2 DEF Linked
<1>7. tl[t].dying => client'[t].sent = "ReadToEndAndClose" \/ ~Alone(t)
  BY <1>1 DEF Closing
<1>8. Closing(t)'
  BY <1>1, <1>2, <1>7 DEF Closing
<1>9. Flow(t)'
  BY <1>2 DEF Flow
<1> QED
  BY <1>1, <1>2, <1>4, <1>5, <1>6, <1>8, <1>9, LinkingKept

LEMMA HandlerLinks ==
  ASSUME StreamInv, NEW t \in Tails,
         \/ HandlerClosed(t) \/ HandlerCancelled(t) \/ HandlerRead(t) \/ HandlerReadDone(t) \/ HandlerSend(t)
  PROVE  StreamTypes' /\ Linking'
<1>1. /\ StreamTypes /\ Linked(t) /\ Closing(t) /\ Flow(t)
      /\ handler \in [Tails -> HandlerState] /\ reader \in [Tails -> ReaderState]
      /\ client \in [Tails -> ClientState] /\ second \in [Tails -> TailActions \cup {"none", "receive", "end"}]
  BY DEF StreamInv, Linking, StreamTypes
<1>2. /\ handler[t] \in HandlerState /\ reader[t] \in ReaderState /\ client[t] \in ClientState
      /\ second[t] \in TailActions \cup {"none", "receive", "end"}
  BY <1>1
<1>3. /\ client[t].got \in Seq(Line) /\ handler[t].chunk \in Seq(Line)
      /\ reader[t].buff \in Seq(Line) /\ reader[t].line \in Seq(Line) /\ <<>> \in Seq(Line)
  BY <1>2, EmptySeq DEF ReaderState, HandlerState, ClientState
<1>4. UNCHANGED <<tailVars, req, second>>
  BY DEF HandlerClosed, HandlerCancelled, HandlerRead, HandlerReadDone, HandlerSend
<1>6. second[t] \in TailActions => client[t].sent = second[t]
  BY <1>1 DEF Closing
<1>7. client[t].got \o handler[t].chunk \o reader[t].buff \o reader[t].line = tl[t].lines
  BY <1>1 DEF Flow
<1>8. ASSUME NEW h \in HandlerState, handler' = [handler EXCEPT ![t] = h], reader' = reader, client' = client,
             handler[t].pc \notin {"none", "start"}, h.pc \notin {"none", "start"},
             h.pc \in {"read", "send", "end"} \/ h.chunk = <<>>, h.chunk = handler[t].chunk,
             h.pc = "end" => client[t].gone \/ reader[t].isClosed, h.err = "EOF" => reader[t].isClosed
      PROVE  StreamTypes' /\ Linking'
  <2>1. handler'[t] = h
    BY <1>1, <1>8
  <2>2. StreamUpdate(t)
    BY <1>1, <1>4, <1>8 DEF StreamUpdate
  <2>3. client[t].got \o h.chunk \o reader[t].buff \o reader[t].line = tl[t].lines
    BY <1>7, <1>8
  <2>4. second' = second
    BY <1>4
  <2> QED
    BY <1>4, <1>6, <1>8, <2>1, <2>2, <2>3, <2>4, StreamLinks
<1>9. CASE HandlerClosed(t)
  <2>1. /\ handler[t].pc = "close" /\ handler' = [handler EXCEPT ![t].pc = "select"]
        /\ reader' = reader /\ client' = client
    BY <1>9 DEF HandlerClosed
  <2>2. PICK h : h = [handler[t] EXCEPT !.pc = "select"]
    OBVIOUS
  <2>3. h \in HandlerState /\ h.pc = "select" /\ h.chunk = handler[t].chunk /\ h.err = handler[t].err
    BY <1>2, <2>2 DEF HandlerState
  <2>4. handler' = [handler EXCEPT ![t] = h]
    BY <1>1, <2>1, <2>2
  <2>5. handler[t].chunk = <<>> /\ (handler[t].err = "EOF" => reader[t].isClosed)
    BY <1>1, <2>1 DEF Linked, Closing
  <2> QED
    BY <1>8, <2>1, <2>3, <2>4, <2>5
<1>10. CASE HandlerCancelled(t)
  <2>1. /\ handler[t].pc = "select" /\ client[t].gone /\ reader' = reader /\ client' = client
        /\ handler' = [handler EXCEPT ![t].pc = "end", ![t].err = "cancelled"]
    BY <1>10 DEF HandlerCancelled
  <2>2. PICK h : h = [handler[t] EXCEPT !.pc = "end", !.err = "cancelled"]
    OBVIOUS
  <2>3. h \in HandlerState /\ h.pc = "end" /\ h.chunk = handler[t].chunk /\ h.err = "cancelled"
    BY <1>2, <2>2 DEF HandlerState
  <2>4. handler' = [handler EXCEPT ![t] = h]
    BY <1>1, <2>1, <2>2
  <2> QED
    BY <1>8, <2>1, <2>3, <2>4
<1>11. CASE HandlerReadDone(t)
  <2>1. handler[t].pc = "read" /\ reader' = reader /\ client' = client
    BY <1>11 DEF HandlerReadDone
  <2>2. handler[t].err = "EOF" => reader[t].isClosed
    BY <1>1 DEF Closing
  <2>3. CASE handler[t].chunk # <<>>
    <3>1. handler' = [handler EXCEPT ![t].pc = "send"]
      BY <1>11, <2>3 DEF HandlerReadDone
    <3>2. PICK h : h = [handler[t] EXCEPT !.pc = "send"]
      OBVIOUS
    <3>3. h \in HandlerState /\ h.pc = "send" /\ h.chunk = handler[t].chunk /\ h.err = handler[t].err
      BY <1>2, <3>2 DEF HandlerState
    <3>4. handler' = [handler EXCEPT ![t] = h]
      BY <1>1, <3>1, <3>2
    <3> QED
      BY <1>8, <2>1, <2>2, <3>3, <3>4
  <2>4. CASE handler[t].chunk = <<>> /\ reader[t].isClosed
    <3>1. handler' = [handler EXCEPT ![t].pc = "end", ![t].err = "EOF"]
      BY <1>11, <2>4 DEF HandlerReadDone, AtEnd
    <3>2. PICK h : h = [handler[t] EXCEPT !.pc = "end", !.err = "EOF"]
      OBVIOUS
    <3>3. h \in HandlerState /\ h.pc = "end" /\ h.chunk = handler[t].chunk
      BY <1>2, <3>2 DEF HandlerState
    <3>4. handler' = [handler EXCEPT ![t] = h]
      BY <1>1, <3>1, <3>2
    <3> QED
      BY <1>8, <2>1, <2>4, <3>3, <3>4
  <2>5. CASE handler[t].chunk = <<>> /\ ~reader[t].isClosed
    <3>1. handler' = [handler EXCEPT ![t].pc = "select"]
      BY <1>11, <2>5 DEF HandlerReadDone, AtEnd
    <3>2. PICK h : h = [handler[t] EXCEPT !.pc = "select"]
      OBVIOUS
    <3>3. h \in HandlerState /\ h.pc = "select" /\ h.chunk = handler[t].chunk /\ h.err = handler[t].err
      BY <1>2, <3>2 DEF HandlerState
    <3>4. handler' = [handler EXCEPT ![t] = h]
      BY <1>1, <3>1, <3>2
    <3> QED
      BY <1>8, <2>1, <2>2, <2>5, <3>3, <3>4
  <2> QED
    BY <2>3, <2>4, <2>5
<1>12. CASE HandlerRead(t)
  <2>1. PICK n : n = IF Len(reader[t].buff) < Chunk THEN Len(reader[t].buff) ELSE Chunk
    OBVIOUS
  <2>2. n \in 0 .. Len(reader[t].buff)
    <3>1. Len(reader[t].buff) \in Nat
      BY <1>3, LenProperties
    <3> QED
      BY <2>1, <3>1 DEF Chunk
  <2>3. /\ handler[t].pc = "select" /\ client' = client
        /\ handler' = [handler EXCEPT ![t].pc = IF n = Chunk THEN "send" ELSE "read",
                                      ![t].chunk = SubSeq(reader[t].buff, 1, n)]
        /\ reader' = [reader EXCEPT ![t].buff = Unconsumed(@, n)]
    BY <1>12, <2>1 DEF HandlerRead
  <2>4. PICK b : b = SubSeq(reader[t].buff, 1, n)
    OBVIOUS
  <2>5. PICK v : v = Unconsumed(reader[t].buff, n)
    OBVIOUS
  <2>6. b \in Seq(Line) /\ v \in Seq(Line) /\ b \o v = reader[t].buff
    <3>1. /\ SubSeq(reader[t].buff, 1, n) \in Seq(Line) /\ Unconsumed(reader[t].buff, n) \in Seq(Line)
          /\ SubSeq(reader[t].buff, 1, n) \o Unconsumed(reader[t].buff, n) = reader[t].buff
      BY <1>3, <2>2, FlowSplit
    <3> QED
      BY <2>4, <2>5, <3>1
  <2>7. PICK p : p = IF n = Chunk THEN "send" ELSE "read"
    OBVIOUS
  <2>8. p \in {"send", "read"}
    BY <2>7
  <2>9. PICK h : h = [handler[t] EXCEPT !.pc = p, !.chunk = b]
    OBVIOUS
  <2>10. h \in HandlerState /\ h.pc = p /\ h.chunk = b /\ h.err = handler[t].err
    BY <1>2, <2>6, <2>8, <2>9 DEF HandlerState
  <2>11. handler' = [handler EXCEPT ![t] = h]
    BY <1>1, <2>3, <2>4, <2>7, <2>9
  <2>12. PICK r : r = [reader[t] EXCEPT !.buff = v]
    OBVIOUS
  <2>13. r \in ReaderState /\ r.pc = reader[t].pc /\ r.line = reader[t].line /\ r.buff = v
         /\ r.isClosed = reader[t].isClosed
    BY <1>2, <2>6, <2>12 DEF ReaderState
  <2>14. reader' = [reader EXCEPT ![t] = r]
    BY <1>1, <2>3, <2>5, <2>12
  <2>15. handler[t].chunk = <<>> /\ (handler[t].err = "EOF" => reader[t].isClosed)
    BY <1>1, <2>3 DEF Linked, Closing
  <2>16. client[t].got \o b \o v \o reader[t].line = tl[t].lines
    <3>1. PICK A, D, E, L : A = client[t].got /\ D = reader[t].line /\ E = reader[t].buff /\ L = tl[t].lines
      OBVIOUS
    <3>2. A \in Seq(Line) /\ D \in Seq(Line) /\ b \in Seq(Line) /\ v \in Seq(Line)
      BY <1>3, <2>6, <3>1
    <3>3. L = A \o <<>> \o E \o D
      BY <1>7, <2>15, <3>1
    <3>4. E = b \o v
      BY <2>6, <3>1
    <3>5. A \o b \o v \o D = L
      BY <3>2, <3>3, <3>4, FlowRead
    <3> QED
      BY <3>1, <3>5
  <2>17. handler'[t] = h /\ reader'[t] = r /\ second' = second /\ client' = client
    BY <1>1, <1>4, <2>3, <2>11, <2>14
  <2>18. StreamUpdate(t)
    BY <1>1, <2>10, <2>11, <2>13, <2>14, <2>17 DEF StreamUpdate
  <2>19. client'[t].got \o handler'[t].chunk \o reader'[t].buff \o reader'[t].line = tl[t].lines
    BY <2>10, <2>13, <2>16, <2>17
  <2>20. handler'[t].pc \in {"send", "read"} /\ handler[t].pc = "select" /\ handler'[t].err = handler[t].err
    BY <2>3, <2>8, <2>10, <2>17
  <2>21. /\ reader'[t].pc = reader[t].pc /\ reader'[t].line = reader[t].line
         /\ reader'[t].isClosed = reader[t].isClosed
    BY <2>13, <2>17
  <2> QED
    BY <1>4, <1>6, <2>15, <2>17, <2>18, <2>19, <2>20, <2>21, StreamLinks
<1>13. CASE HandlerSend(t)
  <2>1. handler[t].pc = "send" /\ reader' = reader
    BY <1>13 DEF HandlerSend
  <2>2. handler[t].err = "EOF" => reader[t].isClosed
    BY <1>1 DEF Closing
  <2>3. CASE client[t].gone /\ handler' = [handler EXCEPT ![t].pc = "end", ![t].err = "send"] /\ client' = client
    <3>1. PICK h : h = [handler[t] EXCEPT !.pc = "end", !.err = "send"]
      OBVIOUS
    <3>2. h \in HandlerState /\ h.pc = "end" /\ h.chunk = handler[t].chunk /\ h.err = "send"
      BY <1>2, <3>1 DEF HandlerState
    <3>3. handler' = [handler EXCEPT ![t] = h]
      BY <1>1, <2>3, <3>1
    <3> QED
      BY <1>8, <2>1, <2>3, <3>2, <3>3
  <2>4. CASE /\ client' = [client EXCEPT ![t].got = @ \o handler[t].chunk]
             /\ handler' = [handler EXCEPT ![t].pc = "select", ![t].chunk = <<>>]
    <3>1. PICK g : g = client[t].got \o handler[t].chunk
      OBVIOUS
    <3>2. g \in Seq(Line)
      BY <1>3, <3>1, ConcatProperties
    <3>3. PICK c : c = [client[t] EXCEPT !.got = g]
      OBVIOUS
    <3>4. c \in ClientState /\ c.got = g /\ c.sent = client[t].sent /\ c.gone = client[t].gone
      BY <1>2, <3>2, <3>3 DEF ClientState
    <3>5. client' = [client EXCEPT ![t] = c]
      BY <1>1, <2>4, <3>1, <3>3
    <3>6. PICK h : h = [handler[t] EXCEPT !.pc = "select", !.chunk = <<>>]
      OBVIOUS
    <3>7. h \in HandlerState /\ h.pc = "select" /\ h.chunk = <<>> /\ h.err = handler[t].err
      BY <1>2, <1>3, <3>6 DEF HandlerState
    <3>8. handler' = [handler EXCEPT ![t] = h]
      BY <1>1, <2>4, <3>6
    <3>9. g \o <<>> \o reader[t].buff \o reader[t].line = tl[t].lines
      <4> DEFINE A == client[t].got  B == handler[t].chunk  C == reader[t].buff  D == reader[t].line
      <4>1. A \in Seq(Line) /\ B \in Seq(Line) /\ C \in Seq(Line) /\ D \in Seq(Line)
        BY <1>3
      <4>2. A \o B \o C \o D = tl[t].lines /\ g = A \o B
        BY <1>7, <3>1
      <4> HIDE DEF A, B, C, D
      <4>3. (A \o B) \o <<>> \o C \o D = A \o B \o C \o D
        BY <4>1, FlowSend
      <4>4. g \o <<>> \o C \o D = tl[t].lines
        BY <4>2, <4>3
      <4> QED
        BY <4>4 DEF C, D
    <3>10. handler'[t] = h /\ client'[t] = c /\ second' = second
      BY <1>1, <1>4, <3>5, <3>8
    <3>11. StreamUpdate(t)
      BY <1>1, <2>1, <3>4, <3>5, <3>7, <3>8, <3>10 DEF StreamUpdate
    <3>12. client'[t].got \o handler'[t].chunk \o reader'[t].buff \o reader'[t].line = tl[t].lines
      BY <2>1, <3>4, <3>7, <3>9, <3>10
    <3>13. /\ handler'[t].pc = "select" /\ handler'[t].chunk = <<>> /\ handler'[t].err = handler[t].err
           /\ client'[t].sent = client[t].sent
      BY <3>4, <3>7, <3>10
    <3> QED
      BY <1>4, <1>6, <2>1, <2>2, <3>10, <3>11, <3>12, <3>13, StreamLinks
  <2> QED
    BY <1>13, <2>3, <2>4 DEF HandlerSend
<1> QED
  BY <1>9, <1>10, <1>11, <1>12, <1>13

LEMMA ClientLinks ==
  ASSUME StreamInv, NEW t \in Tails,
         SecondReceive(t) \/ ClientGone(t) \/ \E a \in TailActions : ClientRequest(t, a)
  PROVE  StreamTypes' /\ Linking'
<1>1. /\ StreamTypes /\ Linked(t) /\ Closing(t) /\ Flow(t)
      /\ handler \in [Tails -> HandlerState] /\ reader \in [Tails -> ReaderState]
      /\ client \in [Tails -> ClientState] /\ second \in [Tails -> TailActions \cup {"none", "receive", "end"}]
      /\ client[t] \in ClientState
  BY DEF StreamInv, Linking, StreamTypes
<1>2. UNCHANGED <<tailVars, req, reader, handler>>
  BY DEF SecondReceive, ClientGone, ClientRequest
<1>3. client[t].got \o handler[t].chunk \o reader[t].buff \o reader[t].line = tl[t].lines
  BY <1>1 DEF Flow
<1>4. /\ handler[t].pc \in {"read", "send", "end"} \/ handler[t].chunk = <<>>
      /\ handler[t].pc = "end" => client[t].gone \/ reader[t].isClosed
      /\ handler[t].err = "EOF" => reader[t].isClosed
      /\ second[t] \in TailActions => client[t].sent = second[t]
  BY <1>1 DEF Linked, Closing
<1>5. ASSUME StreamUpdate(t), client'[t].got = client[t].got, client[t].gone => client'[t].gone,
             client[t].sent = "none" \/ client'[t].sent = client[t].sent,
             second'[t] \in TailActions => client'[t].sent = second'[t]
      PROVE  StreamTypes' /\ Linking'
  <2>1. client'[t].got \o handler'[t].chunk \o reader'[t].buff \o reader'[t].line = tl[t].lines
    BY <1>2, <1>3, <1>5
  <2>2. UNCHANGED <<tailVars, req>> /\ handler' = handler /\ reader' = reader
    BY <1>2
  <2> QED
    BY <1>4, <1>5, <2>1, <2>2, StreamLinks
<1>6. CASE SecondReceive(t)
  <2>1. client' = client
    BY <1>6 DEF SecondReceive
  <2>2. \/ client[t].sent # "none" /\ second' = [second EXCEPT ![t] = client[t].sent]
        \/ second' = [second EXCEPT ![t] = "end"]
    BY <1>6 DEF SecondReceive
  <2>3. client[t].sent \in TailActions \cup {"none"} /\ "end" \notin TailActions
    BY <1>1 DEF ClientState, TailActions
  <2>4. StreamUpdate(t) /\ second'[t] \in {client[t].sent, "end"}
    BY <1>1, <1>2, <2>1, <2>2, <2>3 DEF StreamUpdate
  <2> QED
    BY <1>5, <2>1, <2>3, <2>4
<1>7. CASE ClientGone(t)
  <2>1. second' = second /\ client' = [client EXCEPT ![t].gone = TRUE]
    BY <1>7 DEF ClientGone
  <2>2. PICK c : c = [client[t] EXCEPT !.gone = TRUE]
    OBVIOUS
  <2>3. c \in ClientState /\ c.gone /\ c.got = client[t].got /\ c.sent = client[t].sent
    BY <1>1, <2>2 DEF ClientState
  <2>4. client' = [client EXCEPT ![t] = c]
    BY <1>1, <2>1, <2>2
  <2>5. StreamUpdate(t) /\ client'[t] = c
    BY <1>1, <1>2, <2>1, <2>3, <2>4 DEF StreamUpdate
  <2> QED
    BY <1>4, <1>5, <2>1, <2>3, <2>5
<1>8. ASSUME NEW a \in TailActions, ClientRequest(t, a) PROVE StreamTypes' /\ Linking'
  <2>1. PICK n : n = NameSize(path[t])
    OBVIOUS
  <2>2. n \in Nat
    <3>1. LibraryInv /\ path[t] \in Files
      BY DEF StreamInv, LibraryInv, LibraryTypes
    <3> QED
      BY <2>1, <3>1, NowSize
  <2>3. /\ second' = second /\ client[t].sent = "none"
        /\ client' = [client EXCEPT ![t].sent = a, ![t].size = n]
    BY <1>8, <2>1 DEF ClientRequest
  <2>4. PICK c : c = [client[t] EXCEPT !.sent = a, !.size = n]
    OBVIOUS
  <2>5. c \in ClientState /\ c.gone = client[t].gone /\ c.got = client[t].got
    BY <1>1, <2>2, <2>4 DEF ClientState
  <2>6. client' = [client EXCEPT ![t] = c]
    BY <1>1, <2>3, <2>4
  <2>7. StreamUpdate(t) /\ client'[t] = c
    BY <1>1, <1>2, <2>3, <2>5, <2>6 DEF StreamUpdate
  <2>8. second[t] \notin TailActions
    BY <1>4, <2>3 DEF TailActions
  <2> QED
    BY <1>5, <2>3, <2>5, <2>7, <2>8
<1> QED
  BY <1>6, <1>7, <1>8

LEMMA StartIsStart ==
  ASSUME StreamInv, NEW t \in Tails, HandlerStart(t) PROVE Start(t)
<1>1. tl[t].pc = "none"
  BY DEF StreamInv, Linking, Linked, HandlerStart
<1> QED
  BY <1>1 DEF HandlerStart, Start

LEMMA StartLinks ==
  ASSUME StreamInv, NEW t \in Tails, HandlerStart(t) PROVE StreamTypes' /\ Linking'
<1>1. /\ StreamTypes /\ LibraryInv /\ Linked(t) /\ Closing(t) /\ Flow(t) /\ Linking
      /\ handler \in [Tails -> HandlerState] /\ reader \in [Tails -> ReaderState]
      /\ second \in [Tails -> TailActions \cup {"none", "receive", "end"}]
      /\ handler[t] \in HandlerState /\ reader[t] \in ReaderState
  BY DEF StreamInv, Linking, StreamTypes
<1>2. /\ handler[t].pc = "start" /\ handler' = [handler EXCEPT ![t].pc = "select"]
      /\ second' = [second EXCEPT ![t] = "receive"] /\ reader' = [reader EXCEPT ![t].pc = "receive"]
      /\ tl' = [tl EXCEPT ![t] = NewTail] /\ UNCHANGED <<req, client>>
  BY DEF HandlerStart
<1>3. /\ req[t].mode = "tail" /\ tl[t].pc = "none" /\ tl[t].lines = <<>> /\ handler[t].chunk = <<>>
      /\ reader[t].line = <<>>
  BY <1>1, <1>2 DEF Linked
<1>4. ~reader[t].isClosed
  BY <1>1, <1>3 DEF Closing
<1>5. Start(t) /\ LibraryTypes
  BY <1>1, StartIsStart DEF LibraryInv
<1>6. OneTail(t) /\ tl'[t].pc = "reopen" /\ tl'[t].lines = <<>>
  BY <1>5, StartEffect
<1>7. ~tl'[t].dying
  BY <1>2, <1>5 DEF NewTail, LibraryTypes
<1>8. path' = path /\ \A u \in Tails : Alone(u)' => Alone(u)
  <2>1. Step
    BY <1>5 DEF Step
  <2>2. \A u \in Tails : tl'[u].pc = "none" => tl[u].pc = "none"
    BY <1>6 DEF OneTail
  <2> QED
    BY <1>1, <2>1, <2>2, FilesKept, AloneNever
<1>9. PICK h : h = [handler[t] EXCEPT !.pc = "select"]
  OBVIOUS
<1>10. h \in HandlerState /\ h.pc = "select" /\ h.chunk = handler[t].chunk /\ h.err = handler[t].err
  BY <1>1, <1>9 DEF HandlerState
<1>11. PICK r : r = [reader[t] EXCEPT !.pc = "receive"]
  OBVIOUS
<1>12. /\ r \in ReaderState /\ r.pc = "receive" /\ r.line = reader[t].line /\ r.buff = reader[t].buff
       /\ r.isClosed = reader[t].isClosed
  BY <1>1, <1>11 DEF ReaderState
<1>13. handler' = [handler EXCEPT ![t] = h] /\ reader' = [reader EXCEPT ![t] = r]
  BY <1>1, <1>2, <1>9, <1>11
<1>14. handler'[t] = h /\ reader'[t] = r /\ second'[t] = "receive"
  BY <1>1, <1>2, <1>13
<1>15. StreamTypes'
  BY <1>1, <1>2, <1>8, <1>10, <1>12, <1>13 DEF StreamTypes
<1>16. OneStream(t)
  BY <1>1, <1>2, <1>6, <1>13 DEF OneStream, OneTail
<1>17. Linked(t)' /\ Flow(t)'
  <2>1. Linked(t)'
    BY <1>2, <1>3, <1>6, <1>10, <1>12, <1>14 DEF Linked
  <2>2. /\ client'[t] = client[t] /\ handler'[t].chunk = handler[t].chunk
        /\ reader'[t].buff = reader[t].buff /\ reader'[t].line = reader[t].line
    BY <1>2, <1>10, <1>12, <1>14
  <2>3. tl'[t].lines = tl[t].lines
    BY <1>3, <1>6
  <2>4. Flow(t)'
    BY <1>1, <2>2, <2>3 DEF Flow
  <2> QED
    BY <2>1, <2>4
<1>18. Closing(t)'
  BY <1>1, <1>2, <1>4, <1>7, <1>10, <1>12, <1>14 DEF Closing, TailActions
<1> QED
  BY <1>1, <1>8, <1>15, <1>16, <1>17, <1>18, LinkingKept

LEMMA RequestLinks ==
  ASSUME StreamInv, NEW t \in Tails, HandlerRequest(t) PROVE StreamTypes' /\ Linking'
<1>1. /\ StreamTypes /\ LibraryInv /\ Linked(t) /\ Closing(t) /\ Flow(t) /\ Linking
      /\ handler \in [Tails -> HandlerState] /\ reader \in [Tails -> ReaderState]
      /\ client \in [Tails -> ClientState] /\ second \in [Tails -> TailActions \cup {"none", "receive", "end"}]
      /\ handler[t] \in HandlerState
  BY DEF StreamInv, Linking, StreamTypes
<1>2. /\ handler[t].pc = "select" /\ second[t] \in TailActions /\ second' = [second EXCEPT ![t] = "end"]
      /\ UNCHANGED <<fileVars, kernelVars, trackerVars, run, wg, missed, req, reader, client>>
  BY DEF HandlerRequest
<1>3. handler[t].chunk = <<>> /\ client[t].sent = second[t] /\ second'[t] = "end"
  <2>1. handler[t].pc \notin {"read", "send", "end"}
    BY <1>2
  <2>2. handler[t].chunk = <<>>
    BY <1>1, <2>1 DEF Linked
  <2>3. client[t].sent = second[t]
    BY <1>1, <1>2 DEF Closing
  <2> QED
    BY <1>1, <1>2, <2>2, <2>3
<1>4. CASE second[t] # "ReadToEndAndClose"
  <2>1. handler' = handler /\ tl' = tl
    BY <1>4 DEF HandlerRequest
  <2>2. UNCHANGED <<tailVars, req>>
    BY <1>2, <2>1 DEF tailVars
  <2>3. StreamUpdate(t)
    BY <1>1, <1>2, <2>1 DEF StreamUpdate
  <2>4. client'[t].got \o handler'[t].chunk \o reader'[t].buff \o reader'[t].line = tl[t].lines
    BY <1>1, <1>2, <2>1 DEF Flow
  <2>5. /\ handler[t].pc = "end" => client[t].gone \/ reader[t].isClosed
        /\ handler[t].err = "EOF" => reader[t].isClosed
    BY <1>1 DEF Closing
  <2>6. second'[t] \notin TailActions
    BY <1>3 DEF TailActions
  <2>7. handler' = handler /\ reader' = reader /\ client' = client
    BY <1>2, <2>1
  <2> QED
    BY <1>3, <2>2, <2>3, <2>4, <2>5, <2>6, <2>7, StreamLinks
<1>5. CASE second[t] = "ReadToEndAndClose"
  <2>1. handler' = [handler EXCEPT ![t].pc = "close"] /\ tl' = Killed(t)
    BY <1>5 DEF HandlerRequest
  <2>2. Kill(t) /\ LibraryTypes
    BY <1>1, <1>2, <2>1 DEF Kill, LibraryInv
  <2>3. OneTail(t) /\ tl'[t].pc = tl[t].pc /\ tl'[t].lines = tl[t].lines
    BY <2>2, KillEffect DEF SameRead
  <2>4. path' = path /\ \A u \in Tails : Alone(u)' => Alone(u)
    <3>1. Step
      BY <2>2 DEF Step
    <3>2. \A u \in Tails : tl'[u].pc = "none" => tl[u].pc = "none"
      BY <2>3 DEF OneTail
    <3> QED
      BY <1>1, <3>1, <3>2, FilesKept, AloneNever
  <2>5. PICK h : h = [handler[t] EXCEPT !.pc = "close"]
    OBVIOUS
  <2>6. h \in HandlerState /\ h.pc = "close" /\ h.chunk = handler[t].chunk /\ h.err = handler[t].err
    BY <1>1, <2>5 DEF HandlerState
  <2>7. handler' = [handler EXCEPT ![t] = h]
    BY <1>1, <2>1, <2>5
  <2>8. handler'[t] = h
    BY <1>1, <2>7
  <2>9. StreamTypes'
    BY <1>1, <1>2, <2>4, <2>6, <2>7 DEF StreamTypes
  <2>10. OneStream(t)
    BY <1>1, <1>2, <2>3, <2>7 DEF OneStream, OneTail
  <2>11. Linked(t)' /\ Flow(t)'
    BY <1>1, <1>2, <1>3, <2>3, <2>6, <2>8 DEF Linked, Flow
  <2>12. Closing(t)'
    BY <1>1, <1>2, <1>3, <1>5, <2>3, <2>6, <2>8 DEF Closing, TailActions
  <2> QED
    BY <1>1, <2>4, <2>9, <2>10, <2>11, <2>12, LinkingKept
<1> QED
  BY <1>4, <1>5

LEMMA SameLinks ==
  ASSUME StreamInv, UNCHANGED <<tailVars, req, reader, handler, client, second>> PROVE StreamTypes' /\ Linking'
<1>1. path' = path /\ tl' = tl /\ \A u \in Tails : Alone(u)' => Alone(u)
  BY SameLibrary
<1>2. StreamTypes'
  BY <1>1 DEF StreamInv, StreamTypes
<1>3. ASSUME NEW t \in Tails PROVE Linked(t)' /\ Closing(t)' /\ Flow(t)'
  <2>1. Linked(t) /\ Closing(t) /\ Flow(t)
    BY DEF StreamInv, Linking
  <2> QED
    BY <1>1, <2>1 DEF Linked, Closing, Flow
<1> QED
  BY <1>2, <1>3 DEF Linking

-----------------------------------------------------------------------------
LEMMA StreamNextIsStep ==
  ASSUME StreamInv, [StreamNext]_<<tailVars, streamVars, ops>> PROVE Step
<1>1. CASE UNCHANGED <<tailVars, streamVars, ops>>
  BY <1>1 DEF Step
<1>2. CASE \E f \in {f \in Files : Read(f)} : FileStep(f)
  BY <1>2 DEF Step
<1>3. CASE LibraryStep
  BY <1>3 DEF LibraryStep, Step
<1>4. ASSUME NEW t \in Tails, HandlerStep(t) PROVE Step
  <2>1. HandlerStart(t) => Start(t)
    BY StartIsStart
  <2>2. HandlerClosed(t) \/ HandlerCancelled(t) \/ HandlerRead(t) \/ HandlerReadDone(t) \/ HandlerSend(t)
        => UNCHANGED tailVars
    BY DEF HandlerClosed, HandlerCancelled, HandlerRead, HandlerReadDone, HandlerSend
  <2> QED
    BY <1>4, <2>1, <2>2 DEF HandlerStep, Step
<1>5. ASSUME NEW t \in Tails, ReaderStep(t) PROVE Step
  BY <1>5 DEF ReaderStep, ReaderReceive, ReaderWrite, ReaderEnd, Step
<1>6. ASSUME NEW t \in Tails, HandlerRequest(t) PROVE Step
  <2>1. CASE second[t] = "ReadToEndAndClose"
    <3>1. Kill(t)
      BY <1>6, <2>1 DEF HandlerRequest, Kill
    <3> QED
      BY <3>1 DEF Step
  <2>2. CASE second[t] # "ReadToEndAndClose"
    BY <1>6, <2>2 DEF HandlerRequest, Step, tailVars
  <2> QED
    BY <2>1, <2>2
<1>7. ASSUME NEW t \in Tails,
             \/ GetContainerLogs(t) \/ OpenStep(t) \/ SecondReceive(t) \/ ClientGone(t)
             \/ \E a \in TailActions : ClientRequest(t, a)
      PROVE  Step
  <2>1. UNCHANGED tailVars
    BY <1>7, Zenon DEF GetContainerLogs, OpenStep, OpenFileRead, OpenFile, OpenFileSend, SecondReceive, ClientGone,
                ClientRequest
  <2> QED
    BY <2>1 DEF Step
<1> QED
  BY <1>1, <1>2, <1>3, <1>4, <1>5, <1>6, <1>7 DEF StreamNext

LEMMA StreamInvStep ==
  ASSUME StreamInv, [StreamNext]_<<tailVars, streamVars, ops>> PROVE StreamInv'
<1> DEFINE Goal == StreamTypes' /\ Linking'
<1>1. LibraryInv'
  BY StreamNextIsStep, LibraryInvStep DEF StreamInv
<1>2. CASE UNCHANGED <<tailVars, streamVars, ops>>
  <2>1. UNCHANGED <<tailVars, req, reader, handler, client, second>>
    BY <1>2 DEF streamVars
  <2>2. Goal
    BY <2>1, SameLinks
  <2> QED
    BY <1>1, <2>2 DEF StreamInv
<1>3. ASSUME UNCHANGED streamVars,
             \/ RunStep \/ \E f \in Files : FileStep(f)
             \/ \E t \in Tails : WatchStep(t) \/ TailStep(t)
      PROVE  Goal
  <2>1. UNCHANGED <<req, reader, handler, client, second>>
    BY <1>3 DEF streamVars
  <2> QED
    BY <1>3, <2>1, LibraryLinks
<1>4. ASSUME NEW t \in Tails, GetContainerLogs(t) PROVE Goal
  BY <1>4, GetLinks
<1>5. ASSUME NEW t \in Tails, OpenStep(t) PROVE Goal
  <2>1. UNCHANGED <<tailVars, req, reader, handler, client, second>>
    BY <1>5, Zenon DEF OpenStep, OpenFileRead, OpenFile, OpenFileSend
  <2> QED
    BY <2>1, SameLinks
<1>6. ASSUME NEW t \in Tails, ReaderStep(t) PROVE Goal
  BY <1>6, ReaderLinks
<1>7. ASSUME NEW t \in Tails, HandlerStep(t) PROVE Goal
  <2>1. CASE HandlerStart(t)
    BY <2>1, StartLinks
  <2>2. CASE HandlerClosed(t) \/ HandlerCancelled(t) \/ HandlerRead(t) \/ HandlerReadDone(t) \/ HandlerSend(t)
    BY <2>2, HandlerLinks
  <2> QED
    BY <1>7, <2>1, <2>2 DEF HandlerStep
<1>8. ASSUME NEW t \in Tails, HandlerRequest(t) PROVE Goal
  BY <1>8, RequestLinks
<1>9. ASSUME NEW t \in Tails, SecondReceive(t) \/ ClientGone(t) \/ \E a \in TailActions : ClientRequest(t, a)
      PROVE  Goal
  BY <1>9, ClientLinks
<1>10. CASE StreamNext
  <2>1. CASE (\E f \in {f \in Files : Read(f)} : FileStep(f)) /\ UNCHANGED streamVars
    <3>1. Goal
      BY <1>3, <2>1
    <3> QED
      BY <1>1, <3>1 DEF StreamInv
  <2>2. CASE LibraryStep
    <3>1. Goal
      BY <1>3, <2>2 DEF LibraryStep
    <3> QED
      BY <1>1, <3>1 DEF StreamInv
  <2>3. ASSUME NEW t \in Tails,
               \/ GetContainerLogs(t) \/ OpenStep(t) \/ ReaderStep(t) \/ HandlerStep(t)
               \/ SecondReceive(t) \/ HandlerRequest(t) \/ ClientGone(t)
               \/ \E a \in TailActions : ClientRequest(t, a)
        PROVE  StreamInv'
    <3>1. Goal
      BY <1>4, <1>5, <1>6, <1>7, <1>8, <1>9, <2>3
    <3> QED
      BY <1>1, <3>1 DEF StreamInv
  <2> QED
    BY <1>10, <2>1, <2>2, <2>3 DEF StreamNext
<1> QED
  BY <1>2, <1>10

\* What is asked for at first is a request that is not answered yet.
LEMMA AskingType ==
  ASSUME NEW s \in Starts, NEW t \in Tails
  PROVE  Asking(s, t) \in Request /\ Asking(s, t).mode \in {"new", "error"}
<1>1. CASE t \in DOMAIN s.asks
  <2>1. s.asks[t] \in [follow : BOOLEAN, message : Messages]
    BY <1>1, StreamAssumption
  <2>2. s.asks[t].follow \in BOOLEAN /\ s.asks[t].message \in Messages
    BY <2>1
  <2>3. Asking(s, t) = [mode |-> "new", follow |-> s.asks[t].follow,
                        message |-> s.asks[t].message, sizes |-> <<>>]
    BY <1>1 DEF Asking
  <2> QED
    BY <2>2, <2>3 DEF Request
<1>2. CASE t \notin DOMAIN s.asks
  <2>1. PICK m \in Messages :
           Asking(s, t) = [mode |-> "error", follow |-> FALSE, message |-> m, sizes |-> <<>>]
    <3>1. "" \in Messages
      BY Zenon DEF Messages
    <3> QED
      BY <1>2, <3>1, Zenon DEF Asking
  <2> QED
    BY <2>1 DEF Request
<1> QED
  BY <1>1, <1>2

LEMMA StreamStarts ==
  ASSUME StreamInit PROVE StreamInv
<1>1. PICK h : h = [NewTail EXCEPT !.pc = "none"]
  OBVIOUS
<1>2. /\ h \in Goroutine /\ h.pc = "none" /\ h.fd = 0 /\ h.pos = 0 /\ ~h.watching /\ ~h.dying
      /\ h.changes = NoChanges /\ h.lines = <<>>
  <2>1. NewTail \in Goroutine
    BY NewTailType
  <2>2. h \in Goroutine
    BY <1>1, <2>1 DEF Goroutine, Pcs
  <2>3. /\ NewTail.fd = 0 /\ NewTail.pos = 0 /\ ~NewTail.watching /\ ~NewTail.dying
        /\ NewTail.changes = NoChanges /\ NewTail.lines = <<>>
    BY DEF NewTail
  <2>4. /\ h.pc = "none" /\ h.fd = NewTail.fd /\ h.pos = NewTail.pos /\ h.watching = NewTail.watching
        /\ h.dying = NewTail.dying /\ h.changes = NewTail.changes /\ h.lines = NewTail.lines
    BY <1>1, <2>1 DEF Goroutine
  <2> QED
    BY <2>2, <2>3, <2>4
<1>3. /\ LibraryInit /\ tl = [t \in Tails |-> h] /\ path = StdOut
      /\ reader = [t \in Tails |-> NewReader] /\ handler = [t \in Tails |-> NewHandler]
      /\ client = [t \in Tails |-> NewClient] /\ second = [t \in Tails |-> "none"]
  BY <1>1 DEF StreamInit
<1>4. path \in [Tails -> Files] /\ \A t \in Tails : path[t] = StdOut[t]
  BY <1>3, StreamAssumption
<1>5. PICK s \in Starts :
        /\ req = [t \in Tails |-> Asking(s, t)]
        /\ inodes = [f \in Files |-> IF f \in DOMAIN s.sizes
                                     THEN <<[size |-> s.sizes[f], link |-> TRUE]>> ELSE <<>>]
  BY DEF StreamInit
<1>6. inodes \in [Files -> {<<>>} \cup {<<[size |-> n, link |-> TRUE]>> : n \in Nat}]
  <2>1. \A f \in DOMAIN s.sizes : s.sizes[f] \in Nat
    BY StreamAssumption
  <2> QED
    BY <1>5, <2>1
<1>7. LibraryInv
  BY <1>2, <1>3, <1>4, <1>6, LibraryStarts
<1>8. req \in [Tails -> Request]
  <2>1. ASSUME NEW t \in Tails PROVE Asking(s, t) \in Request
    BY AskingType
  <2> QED
    BY <1>5, <2>1
<1>9. NewReader \in ReaderState /\ NewHandler \in HandlerState /\ NewClient \in ClientState
  BY EmptySeq DEF NewReader, NewHandler, NewClient, ReaderState, HandlerState, ClientState
<1>10. StreamTypes
  BY <1>3, <1>4, <1>8, <1>9 DEF StreamTypes
<1>11. ASSUME NEW t \in Tails PROVE Linked(t) /\ Closing(t) /\ Flow(t)
  <2>1. /\ tl[t].pc = "none" /\ tl[t].lines = <<>> /\ ~tl[t].dying /\ second[t] = "none"
    BY <1>2, <1>3
  <2>2. /\ reader[t].pc = "none" /\ reader[t].line = <<>> /\ reader[t].buff = <<>> /\ ~reader[t].isClosed
    BY <1>3 DEF NewReader
  <2>3. /\ handler[t].pc = "none" /\ handler[t].chunk = <<>> /\ handler[t].err = "nil"
    BY <1>3 DEF NewHandler
  <2>4. client[t].got = <<>>
    BY <1>3 DEF NewClient
  <2>5. Linked(t)
    BY <2>1, <2>2, <2>3 DEF Linked
  <2>6. Closing(t)
    BY <2>1, <2>2, <2>3 DEF Closing, TailActions
  <2>7. Flow(t)
    BY <2>1, <2>2, <2>3, <2>4 DEF Flow
  <2> QED
    BY <2>5, <2>6, <2>7
<1> QED
  BY <1>7, <1>10, <1>11 DEF StreamInv, Linking

\* StreamInv is inductive: besides the library's invariant, the handler, the
\* reader and the tail of a stream are as far as each other, and what the
\* client got, the handler holds and the reader buffers is what the tail sent.
THEOREM StreamHolds == StreamSpec => []StreamInv
<1>1. StreamInit => StreamInv
  BY StreamStarts
<1>2. StreamInv /\ [StreamNext]_<<tailVars, streamVars, ops>> => StreamInv'
  BY StreamInvStep
<1> QED
  BY <1>1, <1>2, PTL DEF StreamSpec

\* A tail, its descriptor and its watch outlive their stream only if the
\* client went away: TailFile ends with EOF when readTail has seen the end of
\* the tail.
THEOREM NoSilentLeak == StreamSpec => []LeakNeedsGone
<1>1. StreamInv => LeakNeedsGone
  BY DEF StreamInv, Linking, Closing, LeakNeedsGone
<1> QED
  BY <1>1, StreamHolds, PTL

\* The client of TailFile sees the lines of a file that is never replaced,
\* whole, each once and in order: nothing is lost or doubled in the tail, in
\* readTail's buffer (written and read by two goroutines) or in the chunks.
THEOREM ClientSeesFile == StreamSpec => []StreamPrefix
<1>1. StreamInv => StreamPrefix
  <2> SUFFICES ASSUME StreamInv, NEW t \in Tails, StdOut[t] \notin replaced, NEW i \in DOMAIN client[t].got
               PROVE  client[t].got[i] = [ino |-> 1, from |-> LineLen * (i - 1)]
    BY DEF StreamPrefix
  <2>1. StreamTypes /\ LibraryInv /\ Flow(t)
    BY DEF StreamInv, Linking
  <2>2. /\ client[t].got \in Seq(Line) /\ handler[t].chunk \in Seq(Line)
        /\ reader[t].buff \in Seq(Line) /\ reader[t].line \in Seq(Line)
    BY <2>1 DEF StreamTypes, ReaderState, HandlerState, ClientState
  <2>3. ReadSoFar(t)
    BY <2>1 DEF StreamTypes, LibraryInv, KeptTails
  <2>4. i \in DOMAIN tl[t].lines /\ tl[t].lines[i] = client[t].got[i]
    <3>1. PICK A, B, C, D, L : /\ A = client[t].got /\ B = handler[t].chunk /\ C = reader[t].buff
                               /\ D = reader[t].line /\ L = tl[t].lines
      OBVIOUS
    <3>2. A \in Seq(Line) /\ B \in Seq(Line) /\ C \in Seq(Line) /\ D \in Seq(Line) /\ L \in Seq(Line)
      BY <2>1, <2>2, <3>1 DEF LibraryInv, LibraryTypes, Goroutine
    <3>3. L = A \o B \o C \o D
      BY <2>1, <3>1 DEF Flow
    <3>4. DOMAIN A = 1 .. Len(A) /\ DOMAIN L = 1 .. Len(L)
      BY <3>2, LenProperties
    <3>5. i \in 1 .. Len(A)
      BY <3>1, <3>4
    <3>6. i \in 1 .. Len(L) /\ L[i] = A[i]
      BY <3>2, <3>3, <3>5, FlowPrefix
    <3> QED
      BY <3>1, <3>4, <3>6
  <2> QED
    BY <2>3, <2>4 DEF ReadSoFar
<1> QED
  BY <1>1, StreamHolds, PTL

\* "Read returns EOF error only after invoking Close": the stream of a client
\* that did not ask for it ends with EOF only if the file was replaced, or
\* another stream follows the same file.
THEOREM EofHasCause == StreamSpec => []EofNeedsClose
<1>1. StreamInv => EofNeedsClose
  <2> SUFFICES ASSUME StreamInv, NEW t \in Tails, handler[t].err = "EOF", StdOut[t] \notin replaced,
                      \A u \in Tails \ {t} : StdOut[u] = StdOut[t] => req[u].mode # "tail"
               PROVE  client[t].sent = "ReadToEndAndClose"
    BY DEF EofNeedsClose
  <2>1. StreamTypes /\ LibraryInv /\ Closing(t) /\ \A u \in Tails : Linked(u)
    BY DEF StreamInv, Linking
  <2>2. tl[t].pc = "done"
    BY <2>1 DEF Closing
  <2>3. \A u \in Tails \ {t} : StdOut[u] = StdOut[t] => tl[u].pc = "none"
    BY <2>1 DEF Linked
  <2>4. Alone(t)
    BY <2>1, <2>3 DEF StreamTypes, Alone, Sole, Followers
  <2>5. tl[t].dying
    BY <2>1, <2>2, <2>4 DEF LibraryInv, AloneTails, EndsAlone, Ending
  <2> QED
    BY <2>1, <2>4, <2>5 DEF Closing
<1> QED
  BY <1>1, StreamHolds, PTL

-----------------------------------------------------------------------------
(* The logs of a job that is over, read without -f.                         *)

\* n bytes of file f from position p on.
Bytes(f, p, n) == [b \in 1 .. n |-> <<f, p + b - 1>>]

\* The chunks s that were sent and not taken yet are the bytes of f from p to
\* e, cut at the positions c.
SentFrom(s, f, p, e) ==
  \E c \in [1 .. Len(s) + 1 -> Nat] :
    /\ c[1] = p /\ c[Len(s) + 1] = e
    /\ \A k \in 1 .. Len(s) : c[k] < c[k + 1] /\ s[k] = Bytes(f, c[k], c[k + 1] - c[k])

Byte == Files \X Nat
OpenState == [pc : {"open", "read", "EOF", "error"}, fd : Nat, pos : Nat, sent : Seq(Seq(Byte))]
OutState == [readIndex : Nat, buff : Seq(Byte), got : Seq(Byte), err : {"nil", "EOF", "error"}]

LEMMA BytesType ==
  ASSUME NEW f \in Files, NEW p \in Nat, NEW n \in Nat
  PROVE  /\ Bytes(f, p, n) \in Seq(Byte) /\ Len(Bytes(f, p, n)) = n
         /\ \A b \in 1 .. n : Bytes(f, p, n)[b] = <<f, p + b - 1>>
<1>1. \A b \in 1 .. n : <<f, p + b - 1>> \in Byte
  BY DEF Byte
<1>2. Bytes(f, p, n) \in [1 .. n -> Byte]
  BY <1>1 DEF Bytes
<1>3. Bytes(f, p, n) \in Seq(Byte)
  BY <1>2, SeqDef
<1>4. DOMAIN Bytes(f, p, n) = 1 .. n
  BY <1>2
<1>5. Len(Bytes(f, p, n)) = n
  BY <1>3, <1>4, LenProperties
<1> QED
  BY <1>3, <1>5 DEF Bytes

\* The rest of a chunk after its first byte.
LEMMA BytesRest ==
  ASSUME NEW f \in Files, NEW p \in Nat, NEW n \in Nat, n # 0
  PROVE  /\ Bytes(f, p, n) # <<>> /\ Head(Bytes(f, p, n)) = <<f, p>>
         /\ Tail(Bytes(f, p, n)) = Bytes(f, p + 1, n - 1)
<1> DEFINE s == Bytes(f, p, n)
           r == Bytes(f, p + 1, n - 1)
<1>1. /\ s \in Seq(Byte) /\ Len(s) = n
      /\ \A b \in 1 .. n : s[b] = <<f, p + b - 1>>
  BY BytesType
<1>2. /\ r \in Seq(Byte) /\ Len(r) = n - 1
      /\ \A b \in 1 .. n - 1 : r[b] = <<f, p + 1 + b - 1>>
  <2>1. p + 1 \in Nat /\ n - 1 \in Nat
    OBVIOUS
  <2> QED
    BY <2>1, BytesType
<1> HIDE DEF s, r
<1>3. s # <<>>
  BY <1>1, EmptySeq
<1>4. /\ Head(s) = s[1] /\ Tail(s) \in Seq(Byte) /\ Len(Tail(s)) = n - 1
      /\ \A b \in 1 .. n - 1 : Tail(s)[b] = s[b + 1]
  BY <1>1, <1>3, HeadTailProperties
<1>5. \A b \in 1 .. n - 1 : Tail(s)[b] = r[b]
  <2> SUFFICES ASSUME NEW b \in 1 .. n - 1 PROVE Tail(s)[b] = r[b]
    OBVIOUS
  <2>1. b + 1 \in 1 .. n /\ p + (b + 1) - 1 = p + 1 + b - 1
    OBVIOUS
  <2> QED
    BY <1>1, <1>2, <1>4, <2>1
<1>6. Tail(s) = r
  BY <1>2, <1>4, <1>5, SeqEqual
<1>7. Head(s) = <<f, p>>
  BY <1>1, <1>4
<1> QED
  BY <1>3, <1>6, <1>7 DEF s, r

LEMMA BytesNone == \A f, p : Bytes(f, p, 0) = <<>>
  BY DEF Bytes

LEMMA SentNone ==
  ASSUME NEW f, NEW p \in Nat PROVE SentFrom(<<>>, f, p, p) /\ \A e : SentFrom(<<>>, f, p, e) => e = p
<1>1. Len(<<>>) = 0
  BY EmptySeq
<1>2. [k \in 1 .. 1 |-> p] \in [1 .. 1 -> Nat] /\ [k \in 1 .. 1 |-> p][1] = p
  OBVIOUS
<1>3. SentFrom(<<>>, f, p, p)
  <2>1. PICK c \in [1 .. 1 -> Nat] : c[1] = p
    BY <1>2
  <2>2. Len(<<>>) + 1 = 1 /\ 1 .. Len(<<>>) = {}
    BY <1>1
  <2> QED
    BY <2>1, <2>2 DEF SentFrom
<1>4. \A e : SentFrom(<<>>, f, p, e) => e = p
  BY <1>1 DEF SentFrom
<1> QED
  BY <1>3, <1>4

\* Taking the first chunk.
LEMMA SentTake ==
  ASSUME NEW f \in Files, NEW s \in Seq(Seq(Byte)), s # <<>>, NEW p \in Nat, NEW e \in Nat, SentFrom(s, f, p, e)
  PROVE  \E q \in Nat : p < q /\ Head(s) = Bytes(f, p, q - p) /\ SentFrom(Tail(s), f, q, e)
<1>1. PICK c \in [1 .. Len(s) + 1 -> Nat] :
         /\ c[1] = p /\ c[Len(s) + 1] = e
         /\ \A k \in 1 .. Len(s) : c[k] < c[k + 1] /\ s[k] = Bytes(f, c[k], c[k + 1] - c[k])
  BY DEF SentFrom
<1>2. Len(s) \in Nat /\ Len(s) # 0
  BY LenProperties, EmptySeq
<1>3. /\ Head(s) = s[1] /\ Len(Tail(s)) = Len(s) - 1
      /\ \A k \in 1 .. Len(s) - 1 : Tail(s)[k] = s[k + 1]
  BY HeadTailProperties
<1> DEFINE d == [k \in 1 .. Len(Tail(s)) + 1 |-> c[k + 1]]
<1>4. Len(Tail(s)) + 1 = Len(s) /\ 1 \in 1 .. Len(s) /\ 2 \in 1 .. Len(s) + 1
  BY <1>2, <1>3
<1>5. d \in [1 .. Len(Tail(s)) + 1 -> Nat]
  BY <1>2, <1>4
<1>6. d[1] = c[2] /\ d[Len(Tail(s)) + 1] = e
  BY <1>1, <1>2, <1>4
<1>7. ASSUME NEW k \in 1 .. Len(Tail(s))
      PROVE  d[k] < d[k + 1] /\ Tail(s)[k] = Bytes(f, d[k], d[k + 1] - d[k])
  <2>1. k \in 1 .. Len(s) - 1 /\ k + 1 \in 1 .. Len(s) /\ k \in 1 .. Len(s) /\ Len(s) = Len(Tail(s)) + 1
    BY <1>2, <1>3
  <2>2. d[k] = c[k + 1] /\ d[k + 1] = c[k + 1 + 1]
    BY <2>1
  <2> HIDE DEF d
  <2>3. c[k + 1] < c[k + 1 + 1] /\ s[k + 1] = Bytes(f, c[k + 1], c[k + 1 + 1] - c[k + 1])
    BY <1>1, <2>1
  <2> QED
    BY <1>3, <2>1, <2>2, <2>3
<1> HIDE DEF d
<1>8. SentFrom(Tail(s), f, c[2], e)
  BY <1>5, <1>6, <1>7 DEF SentFrom
<1>9. c[2] \in Nat /\ p < c[2] /\ Head(s) = Bytes(f, p, c[2] - p)
  BY <1>1, <1>3, <1>4
<1> QED
  BY <1>8, <1>9

\* Sending one more.
LEMMA SentMore ==
  ASSUME NEW f \in Files, NEW s \in Seq(Seq(Byte)), NEW p \in Nat, NEW e \in Nat, NEW z \in Nat, e < z,
         SentFrom(s, f, p, e)
  PROVE  SentFrom(Append(s, Bytes(f, e, z - e)), f, p, z)
<1> DEFINE a == Append(s, Bytes(f, e, z - e))
<1>1. PICK c \in [1 .. Len(s) + 1 -> Nat] :
         /\ c[1] = p /\ c[Len(s) + 1] = e
         /\ \A k \in 1 .. Len(s) : c[k] < c[k + 1] /\ s[k] = Bytes(f, c[k], c[k + 1] - c[k])
  BY DEF SentFrom
<1>2. Len(s) \in Nat
  BY LenProperties
<1>3. Bytes(f, e, z - e) \in Seq(Byte)
  BY BytesType
<1>4. /\ Len(a) = Len(s) + 1 /\ \A k \in 1 .. Len(s) : a[k] = s[k]
      /\ a[Len(s) + 1] = Bytes(f, e, z - e)
  BY <1>3, AppendProperties
<1> DEFINE d == [k \in 1 .. Len(s) + 2 |-> IF k = Len(s) + 2 THEN z ELSE c[k]]
<1>5. d \in [1 .. Len(s) + 2 -> Nat]
  BY <1>2
<1>6. d[1] = p /\ d[Len(s) + 2] = z
  BY <1>1, <1>2
<1>7. ASSUME NEW k \in 1 .. Len(s) + 1
      PROVE  d[k] < d[k + 1] /\ a[k] = Bytes(f, d[k], d[k + 1] - d[k])
  <2>1. CASE k = Len(s) + 1
    <3>1. d[k] = e /\ d[k + 1] = z
      BY <1>1, <1>2, <2>1
    <3> HIDE DEF d, a
    <3> QED
      BY <1>4, <2>1, <3>1
  <2>2. CASE k # Len(s) + 1
    <3>1. k \in 1 .. Len(s)
      BY <1>2, <2>2
    <3>2. d[k] = c[k] /\ d[k + 1] = c[k + 1]
      BY <1>2, <3>1
    <3> HIDE DEF d, a
    <3> QED
      BY <1>1, <1>4, <3>1, <3>2
  <2> QED
    BY <2>1, <2>2
<1> HIDE DEF d, a
<1>8. Len(a) + 1 = Len(s) + 2
  BY <1>2, <1>4
<1>9. SentFrom(a, f, p, z)
  BY <1>4, <1>5, <1>6, <1>7, <1>8 DEF SentFrom
<1> QED
  BY <1>9 DEF a

LEMMA LogFileFacts ==
  ASSUME NEW t \in Tails
  PROVE  /\ Len(LogFiles(t)) \in {1, 2} /\ DOMAIN LogFiles(t) = 1 .. Len(LogFiles(t)) /\ LogFiles(t)[1] = StdOut[t]
         /\ Len(LogFiles(t)) = 2 <=> StdOut[t] # StdErr[t]
         /\ Len(LogFiles(t)) = 2 => LogFiles(t)[2] = StdErr[t]
<1>1. CASE StdOut[t] = StdErr[t]
  BY <1>1 DEF LogFiles
<1>2. CASE StdOut[t] # StdErr[t]
  BY <1>2 DEF LogFiles
<1> QED
  BY <1>1, <1>2

\* OpenFileReader and its streams: r has read n bytes of the streams before
\* the current one; the rest of a chunk that it holds, and the chunks that it
\* has not taken yet, follow what it has read.
Passed(o, r) == IF r.readIndex = 1 THEN 0 ELSE o[1].pos

Rest(t, o, r, p) ==
  LET f == LogFiles(t)[r.readIndex] IN
  /\ SentFrom(o[r.readIndex].sent, f, p, o[r.readIndex].pos)
  /\ Len(r.buff) <= p /\ r.buff = Bytes(f, p - Len(r.buff), Len(r.buff))
  /\ Len(r.got) = Passed(o, r) + (p - Len(r.buff))

InOrder(t, got, i, n) ==
  \A b \in 1 .. Len(got) :
    got[b] = IF i = 1 \/ b <= n THEN <<StdOut[t], b - 1>> ELSE <<StdErr[t], b - n - 1>>

AllRead(t, o, r) ==
  r.readIndex = Len(LogFiles(t)) /\ o[r.readIndex].pc = "EOF" /\ o[r.readIndex].sent = <<>> /\ r.buff = <<>>

Queued(t, o, r) ==
  /\ o \in [DOMAIN LogFiles(t) -> OpenState] /\ r \in OutState /\ r.readIndex \in DOMAIN LogFiles(t)
  /\ \A k \in DOMAIN LogFiles(t) : k > r.readIndex => SentFrom(o[k].sent, LogFiles(t)[k], 0, o[k].pos)
  /\ \A k \in DOMAIN LogFiles(t) : k < r.readIndex => o[k].pc = "EOF"
  /\ \E p \in Nat : Rest(t, o, r, p)
  /\ InOrder(t, r.got, r.readIndex, Passed(o, r))
  /\ r.err = "EOF" => AllRead(t, o, r)

LEMMA PassedType ==
  ASSUME NEW t \in Tails, NEW o, NEW r, Queued(t, o, r) PROVE Passed(o, r) \in Nat /\ (r.readIndex = 1 => Passed(o, r) = 0)
<1>1. 1 \in DOMAIN LogFiles(t)
  BY LogFileFacts
<1>2. o[1].pos \in Nat
  BY <1>1 DEF Queued, OpenState
<1> QED
  BY <1>2 DEF Passed

\* Read takes a byte of the chunk it holds.
LEMMA TakesByte ==
  ASSUME NEW t \in Tails, NEW o, NEW r, Queued(t, o, r), r.buff # <<>>, r.err = "nil",
         NEW s, s = [r EXCEPT !.buff = Tail(r.buff), !.got = Append(r.got, Head(r.buff))]
  PROVE  Queued(t, o, s)
<1> DEFINE i == r.readIndex
           f == LogFiles(t)[i]
           n == Passed(o, r)
           m == Len(r.buff)
<1>1. /\ o \in [DOMAIN LogFiles(t) -> OpenState] /\ r \in OutState /\ i \in DOMAIN LogFiles(t)
      /\ r.buff \in Seq(Byte) /\ r.got \in Seq(Byte)
  BY DEF Queued, OutState
<1>2. PICK p \in Nat : Rest(t, o, r, p)
  BY DEF Queued
<1>3. f \in Files /\ n \in Nat /\ (i = 1 => n = 0) /\ i \in {1, 2} /\ f = IF i = 1 THEN StdOut[t] ELSE StdErr[t]
  BY <1>1, LogFileNames, PassedType, LogFileFacts
<1>4. m \in Nat /\ m # 0
  BY <1>1, LenProperties, EmptySeq
<1>5. m <= p /\ r.buff = Bytes(f, p - m, m) /\ Len(r.got) = n + (p - m) /\ p - m \in Nat
  BY <1>2, <1>4 DEF Rest
<1>6. Head(r.buff) = <<f, p - m>> /\ Tail(r.buff) = Bytes(f, p - m + 1, m - 1)
  <2>1. PICK x \in Nat : x = p - m
    BY <1>5
  <2>2. Head(Bytes(f, x, m)) = <<f, x>> /\ Tail(Bytes(f, x, m)) = Bytes(f, x + 1, m - 1)
    BY <1>3, <1>4, BytesRest
  <2> QED
    BY <1>5, <2>1, <2>2
<1>7. Tail(r.buff) \in Seq(Byte) /\ Len(Tail(r.buff)) = m - 1 /\ Head(r.buff) \in Byte
  BY <1>1, HeadTailProperties
<1>8. /\ s \in OutState /\ s.readIndex = i /\ s.err = "nil" /\ s.buff = Tail(r.buff)
      /\ s.got = Append(r.got, Head(r.buff))
  BY <1>1, <1>7, AppendProperties DEF OutState
<1>9. /\ Len(s.got) = Len(r.got) + 1 /\ \A b \in 1 .. Len(r.got) : s.got[b] = r.got[b]
      /\ s.got[Len(r.got) + 1] = Head(r.buff)
  BY <1>1, <1>7, <1>8, AppendProperties
<1>10. Passed(o, s) = n
  BY <1>8 DEF Passed
<1>11. Rest(t, o, s, p)
  <2>1. Len(s.buff) = m - 1 /\ m - 1 <= p /\ p - (m - 1) = p - m + 1
    BY <1>4, <1>5, <1>7, <1>8
  <2>2. s.buff = Bytes(f, p - (m - 1), m - 1)
    BY <1>6, <1>8, <2>1
  <2>3. Len(s.got) = n + (p - (m - 1))
    BY <1>3, <1>4, <1>5, <1>9
  <2>4. SentFrom(o[i].sent, f, p, o[i].pos)
    BY <1>2 DEF Rest
  <2> QED
    BY <1>8, <1>10, <2>1, <2>2, <2>3, <2>4 DEF Rest
<1>12. InOrder(t, s.got, i, n)
  <2>0. InOrder(t, r.got, i, n)
    BY DEF Queued
  <2> HIDE DEF n, m, i, f
  <2> SUFFICES ASSUME NEW b \in 1 .. Len(s.got)
               PROVE  s.got[b] = IF i = 1 \/ b <= n THEN <<StdOut[t], b - 1>> ELSE <<StdErr[t], b - n - 1>>
    BY DEF InOrder
  <2>1. CASE b = Len(r.got) + 1
    <3>1. b - 1 = n + (p - m) /\ b - n - 1 = p - m
      BY <1>3, <1>4, <1>5, <2>1
    <3>2. s.got[b] = <<f, p - m>>
      BY <1>6, <1>9, <2>1
    <3>3. CASE i = 1
      BY <1>3, <1>5, <3>1, <3>2, <3>3
    <3>4. CASE i # 1
      <4>1. f = StdErr[t] /\ ~(b <= n)
        BY <1>3, <1>5, <3>1, <3>4
      <4> QED
        BY <3>1, <3>2, <3>4, <4>1
    <3> QED
      BY <3>3, <3>4
  <2>2. CASE b # Len(r.got) + 1
    <3>1. b \in 1 .. Len(r.got)
      BY <1>1, <1>9, <2>2, LenProperties
    <3> QED
      BY <1>9, <2>0, <3>1 DEF InOrder
  <2> QED
    BY <2>1, <2>2
<1> QED
  BY <1>1, <1>8, <1>10, <1>11, <1>12 DEF Queued

ChunkTaken(o, r, w, s) ==
  /\ r.buff = <<>> /\ r.err = "nil" /\ o[r.readIndex].sent # <<>>
  /\ w = [o EXCEPT ![r.readIndex] = [o[r.readIndex] EXCEPT !.sent = Tail(o[r.readIndex].sent)]]
  /\ s = [r EXCEPT !.buff = Head(o[r.readIndex].sent)]

\* ... of the next chunk, if it holds none.
LEMMA TakesChunk ==
  ASSUME NEW t \in Tails, NEW o, NEW r, NEW w, NEW s, Queued(t, o, r), ChunkTaken(o, r, w, s)
  PROVE  Queued(t, w, s) /\ s.buff # <<>> /\ s.err = "nil"
<1>0. PICK v : v = [o[r.readIndex] EXCEPT !.sent = Tail(o[r.readIndex].sent)]
  OBVIOUS
<1>00. /\ r.buff = <<>> /\ r.err = "nil" /\ o[r.readIndex].sent # <<>> /\ w = [o EXCEPT ![r.readIndex] = v]
      /\ s = [r EXCEPT !.buff = Head(o[r.readIndex].sent)]
  BY <1>0 DEF ChunkTaken
<1> DEFINE i == r.readIndex
           f == LogFiles(t)[i]
<1>1. /\ o \in [DOMAIN LogFiles(t) -> OpenState] /\ r \in OutState /\ i \in DOMAIN LogFiles(t)
      /\ o[i] \in OpenState /\ o[i].sent \in Seq(Seq(Byte)) /\ o[i].pos \in Nat
  BY DEF Queued, OpenState
<1>2. PICK p \in Nat : Rest(t, o, r, p)
  BY DEF Queued
<1>3. f \in Files
  BY <1>1, LogFileNames
<1>4. Len(<<>>) = 0
  BY EmptySeq
<1>5. SentFrom(o[i].sent, f, p, o[i].pos) /\ Len(r.got) = Passed(o, r) + p
  BY <1>00, <1>2, <1>4 DEF Rest
<1>6. PICK q \in Nat : p < q /\ Head(o[i].sent) = Bytes(f, p, q - p) /\ SentFrom(Tail(o[i].sent), f, q, o[i].pos)
  BY <1>00, <1>1, <1>3, <1>5, SentTake
<1>7. q - p \in Nat /\ q - p # 0 /\ Head(o[i].sent) \in Seq(Byte) /\ Len(Head(o[i].sent)) = q - p
  <2>1. PICK n \in Nat : n = q - p /\ n # 0
    BY <1>6
  <2>2. Bytes(f, p, n) \in Seq(Byte) /\ Len(Bytes(f, p, n)) = n
    BY <1>3, BytesType
  <2> QED
    BY <1>6, <2>1, <2>2
<1>8. Tail(o[i].sent) \in Seq(Seq(Byte))
  BY <1>00, <1>1, HeadTailProperties
<1>9. /\ v \in OpenState /\ v.sent = Tail(o[i].sent) /\ v.pos = o[i].pos /\ v.pc = o[i].pc
      /\ s \in OutState /\ s.readIndex = i /\ s.err = "nil" /\ s.got = r.got /\ s.buff = Head(o[i].sent)
  <2>1. v \in OpenState /\ v.sent = Tail(o[i].sent) /\ v.pos = o[i].pos /\ v.pc = o[i].pc
    BY <1>0, <1>1, <1>8 DEF OpenState
  <2>2. s \in OutState /\ s.readIndex = i /\ s.err = "nil" /\ s.got = r.got /\ s.buff = Head(o[i].sent)
    BY <1>00, <1>1, <1>7 DEF OutState
  <2> QED
    BY <2>1, <2>2
<1>10. /\ w \in [DOMAIN LogFiles(t) -> OpenState] /\ w[i] = v
       /\ \A k \in DOMAIN LogFiles(t) : (k # i => w[k] = o[k]) /\ w[k].pos = o[k].pos /\ w[k].pc = o[k].pc
  BY <1>00, <1>1, <1>9
<1>11. Passed(w, s) = Passed(o, r)
  BY <1>9, <1>10, LogFileFacts DEF Passed
<1>12. Rest(t, w, s, q)
  <2>1. Len(s.buff) = q - p /\ q - (q - p) = p /\ q - p <= q
    BY <1>7, <1>9
  <2>2. s.buff = Bytes(f, q - (q - p), q - p)
    BY <1>6, <1>9, <2>1
  <2> QED
    BY <1>5, <1>6, <1>9, <1>10, <1>11, <2>1, <2>2 DEF Rest
<1>13. s.buff # <<>>
  BY <1>4, <1>7, <1>9
<1>14. InOrder(t, s.got, i, Passed(w, s))
  BY <1>9, <1>11 DEF Queued
<1>15. \A k \in DOMAIN LogFiles(t) : k > i => SentFrom(w[k].sent, LogFiles(t)[k], 0, w[k].pos)
  <2> SUFFICES ASSUME NEW k \in DOMAIN LogFiles(t), k > i PROVE SentFrom(w[k].sent, LogFiles(t)[k], 0, w[k].pos)
    OBVIOUS
  <2>1. k # i
    BY LogFileFacts, <1>1
  <2> QED
    BY <1>10, <2>1 DEF Queued
<1>16. \A k \in DOMAIN LogFiles(t) : k < i => w[k].pc = "EOF"
  BY <1>10 DEF Queued
<1> QED
  BY <1>1, <1>9, <1>10, <1>12, <1>13, <1>14, <1>15, <1>16 DEF Queued

\* At the end of a stream that is not the last one Read goes on with the next.
LEMMA TakesStream ==
  ASSUME NEW t \in Tails, NEW o, NEW r, Queued(t, o, r), r.buff = <<>>, r.err = "nil",
         o[r.readIndex].sent = <<>>, o[r.readIndex].pc = "EOF", r.readIndex # Len(LogFiles(t)),
         NEW s, s = [r EXCEPT !.readIndex = @ + 1]
  PROVE  Queued(t, o, s)
<1>1. /\ o \in [DOMAIN LogFiles(t) -> OpenState] /\ r \in OutState /\ r.readIndex \in DOMAIN LogFiles(t)
      /\ r.got \in Seq(Byte)
  BY DEF Queued, OutState
<1>2. r.readIndex = 1 /\ Len(LogFiles(t)) = 2 /\ DOMAIN LogFiles(t) = {1, 2} /\ LogFiles(t)[1] = StdOut[t]
  BY <1>1, LogFileFacts
<1>3. s \in OutState /\ s.readIndex = 2 /\ s.buff = <<>> /\ s.got = r.got /\ s.err = "nil"
  BY <1>1, <1>2 DEF OutState
<1>4. PICK p \in Nat : Rest(t, o, r, p)
  BY DEF Queued
<1>5. o[1].pos \in Nat /\ o[2].pos \in Nat
  BY <1>1, <1>2 DEF OpenState
<1>6. Len(<<>>) = 0
  BY EmptySeq
<1>7. SentFrom(<<>>, StdOut[t], p, o[1].pos) /\ Len(r.got) = p
  BY <1>2, <1>4, <1>6 DEF Rest, Passed
<1>8. o[1].pos = p
  <2>1. \A e : SentFrom(<<>>, StdOut[t], p, e) => e = p
    BY SentNone
  <2> QED
    BY <1>7, <2>1
<1>9. Passed(o, s) = p
  BY <1>3, <1>8 DEF Passed
<1>10. SentFrom(o[2].sent, LogFiles(t)[2], 0, o[2].pos)
  <2>1. \A k \in DOMAIN LogFiles(t) : k > r.readIndex => SentFrom(o[k].sent, LogFiles(t)[k], 0, o[k].pos)
    BY DEF Queued
  <2> QED
    BY <1>2, <2>1
<1>11. Rest(t, o, s, 0)
  BY <1>3, <1>6, <1>7, <1>9, <1>10, BytesNone DEF Rest
<1>12. InOrder(t, s.got, 2, p)
  <2>1. InOrder(t, r.got, 1, Passed(o, r))
    BY <1>2 DEF Queued
  <2> QED
    BY <1>3, <1>7, <2>1 DEF InOrder
<1>13. \A k \in DOMAIN LogFiles(t) : k < 2 => o[k].pc = "EOF"
  BY <1>2
<1>14. \A k \in DOMAIN LogFiles(t) : ~(k > 2)
  BY <1>2
<1> QED
  BY <1>1, <1>2, <1>3, <1>9, <1>11, <1>12, <1>13, <1>14 DEF Queued

\* At the end of the last stream, or at the error of any, Read returns it.
LEMMA TakesEnd ==
  ASSUME NEW t \in Tails, NEW o, NEW r, Queued(t, o, r), r.buff = <<>>, r.err = "nil", o[r.readIndex].sent = <<>>,
         NEW e \in {"EOF", "error"}, e = "EOF" => o[r.readIndex].pc = "EOF" /\ r.readIndex = Len(LogFiles(t)),
         NEW s, s = [r EXCEPT !.err = e]
  PROVE  Queued(t, o, s)
<1>1. r \in OutState
  BY DEF Queued
<1>2. /\ s \in OutState /\ s.readIndex = r.readIndex /\ s.buff = r.buff /\ s.got = r.got /\ s.err = e
  BY <1>1 DEF OutState
<1>3. Passed(o, s) = Passed(o, r)
  BY <1>2 DEF Passed
<1>4. \A p \in Nat : Rest(t, o, r, p) => Rest(t, o, s, p)
  BY <1>2, <1>3 DEF Rest
<1>5. s.err = "EOF" => AllRead(t, o, s)
  BY <1>2 DEF AllRead
<1> QED
  BY <1>2, <1>3, <1>4, <1>5 DEF Queued

\* A stream that has not ended moves on without sending.
LEMMA StreamMoves ==
  ASSUME NEW t \in Tails, NEW o, NEW r, Queued(t, o, r), NEW k \in DOMAIN LogFiles(t), o[k].pc # "EOF",
         NEW v \in OpenState, v.sent = o[k].sent, v.pos = o[k].pos
  PROVE  Queued(t, [o EXCEPT ![k] = v], r)
<1>1. PICK w : w = [o EXCEPT ![k] = v]
  OBVIOUS
<1>2. o \in [DOMAIN LogFiles(t) -> OpenState] /\ r.readIndex \in DOMAIN LogFiles(t)
  BY DEF Queued
<1>3. /\ w \in [DOMAIN LogFiles(t) -> OpenState]
      /\ \A j \in DOMAIN LogFiles(t) : /\ w[j].sent = o[j].sent /\ w[j].pos = o[j].pos
                                       /\ o[j].pc = "EOF" => w[j].pc = "EOF"
  BY <1>1, <1>2
<1>4. Passed(w, r) = Passed(o, r)
  BY <1>3, LogFileFacts DEF Passed
<1>5. \A p \in Nat : Rest(t, o, r, p) => Rest(t, w, r, p)
  BY <1>2, <1>3, <1>4 DEF Rest
<1>6. AllRead(t, o, r) => AllRead(t, w, r)
  BY <1>2, <1>3 DEF AllRead
<1>7. Queued(t, w, r)
  BY <1>3, <1>4, <1>5, <1>6 DEF Queued
<1> QED
  BY <1>1, <1>7

\* A stream that has not ended sends the next bytes.
LEMMA StreamSends ==
  ASSUME NEW t \in Tails, NEW o, NEW r, Queued(t, o, r), NEW k \in DOMAIN LogFiles(t), o[k].pc # "EOF",
         NEW z \in Nat, o[k].pos < z,
         NEW v \in OpenState, v.sent = Append(o[k].sent, Bytes(LogFiles(t)[k], o[k].pos, z - o[k].pos)), v.pos = z
  PROVE  Queued(t, [o EXCEPT ![k] = v], r)
<1>1. PICK w : w = [o EXCEPT ![k] = v]
  OBVIOUS
<1>2. /\ o \in [DOMAIN LogFiles(t) -> OpenState] /\ r.readIndex \in DOMAIN LogFiles(t)
      /\ o[k].sent \in Seq(Seq(Byte)) /\ o[k].pos \in Nat /\ LogFiles(t)[k] \in Files
  BY LogFileNames DEF Queued, OpenState
<1>3. w \in [DOMAIN LogFiles(t) -> OpenState] /\ w[k] = v /\ \A j \in DOMAIN LogFiles(t) \ {k} : w[j] = o[j]
  BY <1>1, <1>2
<1>4. ~(k < r.readIndex)
  BY DEF Queued
<1>5. ASSUME NEW p \in Nat, SentFrom(o[k].sent, LogFiles(t)[k], p, o[k].pos)
      PROVE  SentFrom(w[k].sent, LogFiles(t)[k], p, w[k].pos)
  BY <1>2, <1>3, <1>5, SentMore
<1>6. Passed(w, r) = Passed(o, r)
  <2>1. CASE r.readIndex = 1
    BY <2>1 DEF Passed
  <2>2. CASE r.readIndex # 1
    <3>1. k # 1 /\ 1 \in DOMAIN LogFiles(t)
      BY <1>2, <1>4, <2>2, LogFileFacts
    <3> QED
      BY <1>3, <2>2, <3>1 DEF Passed
  <2> QED
    BY <2>1, <2>2
<1>7. \A p \in Nat : Rest(t, o, r, p) => Rest(t, w, r, p)
  <2> SUFFICES ASSUME NEW p \in Nat, Rest(t, o, r, p) PROVE Rest(t, w, r, p)
    OBVIOUS
  <2>1. SentFrom(w[r.readIndex].sent, LogFiles(t)[r.readIndex], p, w[r.readIndex].pos)
    BY <1>2, <1>3, <1>5 DEF Rest
  <2> QED
    BY <1>6, <2>1 DEF Rest
<1>8. \A j \in DOMAIN LogFiles(t) : j > r.readIndex => SentFrom(w[j].sent, LogFiles(t)[j], 0, w[j].pos)
  <2> SUFFICES ASSUME NEW j \in DOMAIN LogFiles(t), j > r.readIndex
               PROVE  SentFrom(w[j].sent, LogFiles(t)[j], 0, w[j].pos)
    OBVIOUS
  <2>1. SentFrom(o[j].sent, LogFiles(t)[j], 0, o[j].pos)
    BY DEF Queued
  <2> QED
    BY <1>3, <1>5, <2>1
<1>9. \A j \in DOMAIN LogFiles(t) : j < r.readIndex => w[j].pc = "EOF"
  BY <1>3, <1>4 DEF Queued
<1>10. ~AllRead(t, o, r) \/ AllRead(t, w, r)
  BY <1>2, <1>3 DEF AllRead
<1>11. Queued(t, w, r)
  BY <1>3, <1>6, <1>7, <1>8, <1>9, <1>10 DEF Queued
<1> QED
  BY <1>1, <1>11

\* A reader and streams that have just been opened.
LEMMA StreamsStart ==
  ASSUME NEW t \in Tails, NEW o, o = [i \in DOMAIN LogFiles(t) |-> [NewOpen EXCEPT !.pc = "open"]]
  PROVE  Queued(t, o, NewOut)
<1>1. PICK v : v = [NewOpen EXCEPT !.pc = "open"]
  OBVIOUS
<1>2. v \in OpenState /\ v.sent = <<>> /\ v.pos = 0 /\ NewOut \in OutState
  BY <1>1, EmptySeq DEF NewOpen, NewOut, OpenState, OutState
<1>3. o \in [DOMAIN LogFiles(t) -> OpenState] /\ \A k \in DOMAIN LogFiles(t) : o[k].sent = <<>> /\ o[k].pos = 0
  BY <1>1, <1>2
<1>4. NewOut.readIndex = 1 /\ NewOut.buff = <<>> /\ NewOut.got = <<>> /\ NewOut.err = "nil" /\ Len(<<>>) = 0
  BY EmptySeq DEF NewOut
<1>5. 1 \in DOMAIN LogFiles(t) /\ \A k \in DOMAIN LogFiles(t) : ~(k < 1)
  BY LogFileFacts
<1>6. \A k \in DOMAIN LogFiles(t) : SentFrom(o[k].sent, LogFiles(t)[k], 0, o[k].pos)
  BY <1>3, SentNone
<1>7. Passed(o, NewOut) = 0
  BY <1>4 DEF Passed
<1>8. Rest(t, o, NewOut, 0)
  BY <1>4, <1>5, <1>6, <1>7, BytesNone DEF Rest
<1>9. InOrder(t, NewOut.got, 1, 0)
  BY <1>4 DEF InOrder
<1> QED
  BY <1>2, <1>3, <1>4, <1>5, <1>6, <1>7, <1>8, <1>9 DEF Queued

-----------------------------------------------------------------------------
\* OpenFile reads the file that it opened; a file that is not replaced holds at
\* least what it held when the logs were asked for, and a clean end of the
\* stream is past that.
Opening(f, o, size) ==
  /\ o.pc = "read" => o.fd # 0 /\ o.fd <= Len(inodes[f])
  /\ f \notin replaced =>
       /\ size = 0 \/ (cur[f] = 1 /\ size <= inodes[f][1].size)
       /\ o.pc = "EOF" => size <= o.pos

Archiving(t) ==
  /\ Queued(t, open[t], out[t])
  /\ req[t].sizes \in [DOMAIN LogFiles(t) -> Nat]
  /\ \A i \in DOMAIN LogFiles(t) : Opening(LogFiles(t)[i], open[t][i], req[t].sizes[i])

Asked(t) == IF req[t].mode = "open" THEN Archiving(t) ELSE out[t] = NewOut

Archived ==
  /\ out = [t \in Tails |-> out[t]] /\ open = [t \in Tails |-> open[t]]
  /\ \A t \in Tails : Asked(t)

ArchiveInv == StreamInv /\ Archived

\* Inodes stay, and a file that is not replaced only grows.
LEMMA FilesGrow ==
  ASSUME LibraryInv, Step, NEW f \in Files
  PROVE  /\ Len(inodes[f]) \in Nat /\ Len(inodes'[f]) \in Nat /\ Len(inodes[f]) <= Len(inodes'[f])
         /\ f \notin replaced' =>
              /\ f \notin replaced
              /\ cur[f] = 1 => /\ cur'[f] = 1 /\ inodes[f][1].size \in Nat /\ inodes'[f][1].size \in Nat
                               /\ inodes[f][1].size <= inodes'[f][1].size
<1>0. LibraryTypes /\ InodeBounds /\ LibraryInv' /\ replaced \subseteq replaced'
  BY LibraryInvStep, FilesKept DEF LibraryInv
<1>1. LibraryTypes'
  BY <1>0 DEF LibraryInv
<1>2. Len(inodes[f]) \in Nat /\ Len(inodes'[f]) \in Nat
  BY <1>0, <1>1, LenProperties DEF LibraryTypes
<1>3. ASSUME cur[f] = 1 PROVE 1 \in 1 .. Len(inodes[f]) /\ inodes[f][1].size \in Nat
  <2>1. cur[f] <= Len(inodes[f])
    BY <1>0 DEF InodeBounds
  <2>2. 1 \in 1 .. Len(inodes[f])
    BY <1>2, <1>3, <2>1
  <2> QED
    BY <1>0, <2>2, SizeType
<1>4. CASE inodes'[f] = inodes[f] /\ cur'[f] = cur[f]
  BY <1>0, <1>2, <1>3, <1>4
<1>5. ASSUME NEW g \in Files, FileStep(g)
      PROVE  \/ inodes'[f] = inodes[f] /\ cur'[f] = cur[f]
             \/ f = g /\ (Grows(f) \/ Appears(f) \/ Goes(f))
  BY <1>0, <1>5, FileEffect DEF SameOthers
<1>6. CASE Grows(f)
  <2>1. ASSUME cur[f] = 1 PROVE inodes'[f][1].size \in Nat
    <3>1. 1 \in 1 .. Len(inodes'[f])
      BY <1>3, <1>6, <2>1 DEF Grows
    <3>2. inodes'[f] \in Seq(Inode)
      BY <1>1 DEF LibraryTypes
    <3>3. inodes'[f][1] \in Inode
      BY <3>1, <3>2, ElementOfSeq
    <3> QED
      BY <3>3 DEF Inode
  <2>2. cur[f] = 1 => inodes[f][1].size <= inodes'[f][1].size
    BY <1>3, <1>6 DEF Grows
  <2> QED
    BY <1>0, <1>2, <1>3, <1>6, <2>1, <2>2 DEF Grows
<1>7. CASE Appears(f)
  BY <1>0, <1>2, <1>7 DEF Appears
<1>8. CASE Goes(f)
  BY <1>0, <1>2, <1>8 DEF Goes
<1>9. CASE UNCHANGED fileVars
  BY <1>4, <1>9 DEF fileVars
<1> QED
  BY <1>4, <1>5, <1>6, <1>7, <1>8, <1>9, FilesOrTails

LEMMA OpeningKept ==
  ASSUME LibraryInv, Step, NEW f \in Files, NEW o, NEW size \in Nat, o.fd \in Nat, Opening(f, o, size)
  PROVE  Opening(f, o, size)'
<1>1. /\ Len(inodes[f]) \in Nat /\ Len(inodes'[f]) \in Nat /\ Len(inodes[f]) <= Len(inodes'[f])
      /\ f \notin replaced' =>
           /\ f \notin replaced
           /\ cur[f] = 1 => /\ cur'[f] = 1 /\ inodes[f][1].size \in Nat /\ inodes'[f][1].size \in Nat
                            /\ inodes[f][1].size <= inodes'[f][1].size
  BY FilesGrow
<1>2. o.pc = "read" => o.fd <= Len(inodes'[f])
  BY <1>1 DEF Opening
<1>3. f \notin replaced' /\ size # 0 => cur'[f] = 1 /\ size <= inodes'[f][1].size
  BY <1>1 DEF Opening
<1> QED
  BY <1>1, <1>2, <1>3 DEF Opening

\* Streams that a step leaves alone.
LEMMA AskedKept ==
  ASSUME LibraryInv, Step, NEW t \in Tails, Asked(t), req'[t] = req[t], open'[t] = open[t], out'[t] = out[t]
  PROVE  Asked(t)'
<1>1. CASE req[t].mode # "open"
  BY <1>1 DEF Asked
<1>2. CASE req[t].mode = "open"
  <2>1. Archiving(t)
    BY <1>2 DEF Asked
  <2>2. Queued(t, open[t], out[t])' /\ (req[t].sizes \in [DOMAIN LogFiles(t) -> Nat])'
    BY <2>1 DEF Archiving, Queued, Rest, Passed, InOrder, AllRead
  <2>3. ASSUME NEW i \in DOMAIN LogFiles(t) PROVE Opening(LogFiles(t)[i], open[t][i], req[t].sizes[i])'
    <3>1. PICK o : o = open[t][i]
      OBVIOUS
    <3>2. PICK size \in Nat : size = req[t].sizes[i]
      BY <2>1 DEF Archiving
    <3>3. PICK f \in Files : f = LogFiles(t)[i]
      BY LogFileNames
    <3>4. Opening(f, o, size) /\ o.fd \in Nat
      BY <2>1, <3>1, <3>2, <3>3 DEF Archiving, Queued, OpenState
    <3>5. Opening(f, o, size)'
      BY <3>4, OpeningKept
    <3> QED
      BY <3>1, <3>2, <3>3, <3>5 DEF Opening
  <2> QED
    BY <1>2, <2>2, <2>3 DEF Asked, Archiving
<1> QED
  BY <1>1, <1>2

\* A step of one stream.
LEMMA OneArchive ==
  ASSUME LibraryInv, Step, Archived, NEW t \in Tails, Asked(t)',
         out' = [u \in Tails |-> out'[u]], open' = [u \in Tails |-> open'[u]],
         \A u \in Tails \ {t} : req'[u] = req[u] /\ open'[u] = open[u] /\ out'[u] = out[u]
  PROVE  Archived'
<1>1. ASSUME NEW u \in Tails PROVE Asked(u)'
  <2>1. CASE u = t
    BY <2>1
  <2>2. CASE u # t
    BY <2>2, AskedKept DEF Archived
  <2> QED
    BY <2>1, <2>2
<1> QED
  BY <1>1 DEF Archived

LEMMA ArchiveSame ==
  ASSUME LibraryInv, Step, Archived, UNCHANGED <<req, open, out>> PROVE Archived'
<1>1. ASSUME NEW u \in Tails PROVE Asked(u)'
  BY AskedKept DEF Archived
<1> QED
  BY <1>1 DEF Archived

\* What GetContainerLogs remembers of the sizes.
LEMMA AskedSizes ==
  ASSUME LibraryInv, NEW f \in Files, NEW o, o.pc = "open"
  PROVE  Opening(f, o, NameSize(f))
<1>1. cur[f] \in Nat
  BY DEF LibraryInv, LibraryTypes
<1>2. f \notin replaced => cur[f] <= 1
  BY DEF LibraryInv, KeptFiles, KeptFile
<1>3. CASE f \notin replaced /\ cur[f] # 0
  <2>1. cur[f] = 1
    BY <1>1, <1>2, <1>3
  <2>2. inodes[f][1].size \in Nat
    <3>1. cur[f] <= Len(inodes[f]) /\ Len(inodes[f]) \in Nat
      BY LenProperties DEF LibraryInv, InodeBounds, LibraryTypes
    <3> QED
      BY <2>1, <3>1, SizeType DEF LibraryInv
  <2> QED
    BY <2>1, <2>2 DEF Opening, NameSize
<1> QED
  BY <1>3 DEF Opening, NameSize

LEMMA ArchiveGet ==
  ASSUME ArchiveInv, Step, NEW t \in Tails, GetContainerLogs(t) PROVE Archived'
<1>0. LibraryInv /\ StreamTypes /\ Archived /\ req \in [Tails -> Request]
  BY DEF ArchiveInv, StreamInv, StreamTypes
<1>1. req[t].mode = "new" /\ out' = out /\ UNCHANGED fileVars
  BY DEF GetContainerLogs, tailVars
<1>2. out[t] = NewOut
  BY <1>0, <1>1 DEF Archived, Asked
<1>3. ASSUME NEW r, req' = [req EXCEPT ![t] = r], r.mode # "open", open' = open PROVE Archived'
  <2>1. req'[t].mode # "open" /\ \A u \in Tails \ {t} : req'[u] = req[u]
    BY <1>0, <1>3
  <2>2. Asked(t)'
    BY <1>1, <1>2, <2>1 DEF Asked, NewOut
  <2> QED
    BY <1>0, <1>1, <1>3, <2>1, <2>2, OneArchive DEF Archived
<1>4. CASE req' = [req EXCEPT ![t].mode = "error", ![t].message = ""] /\ open' = open
  <2>1. PICK r : r = [req[t] EXCEPT !.mode = "error", !.message = ""]
    OBVIOUS
  <2>2. req' = [req EXCEPT ![t] = r] /\ r.mode # "open"
    BY <1>0, <1>4, <2>1 DEF Request
  <2> QED
    BY <1>3, <1>4, <2>2
<1>5. CASE req' = [req EXCEPT ![t].mode = "tail", ![t].message = ""] /\ open' = open
  <2>1. PICK r : r = [req[t] EXCEPT !.mode = "tail", !.message = ""]
    OBVIOUS
  <2>2. req' = [req EXCEPT ![t] = r] /\ r.mode # "open"
    BY <1>0, <1>5, <2>1 DEF Request
  <2> QED
    BY <1>3, <1>5, <2>2
<1>6. ASSUME NEW z, z = [i \in DOMAIN LogFiles(t) |-> NameSize(LogFiles(t)[i])],
             req' = [req EXCEPT ![t].mode = "open", ![t].message = "", ![t].sizes = z],
             NEW o, o = [i \in DOMAIN LogFiles(t) |-> [NewOpen EXCEPT !.pc = "open"]], open' = [open EXCEPT ![t] = o]
      PROVE  Archived'
  <2>1. req'[t].mode = "open" /\ req'[t].sizes = z /\ \A u \in Tails \ {t} : req'[u] = req[u]
    <3>1. PICK r : r = [req[t] EXCEPT !.mode = "open", !.message = "", !.sizes = z]
      OBVIOUS
    <3>2. r.mode = "open" /\ r.sizes = z
      BY <1>0, <3>1 DEF Request
    <3>3. req' = [req EXCEPT ![t] = r]
      BY <1>0, <1>6, <3>1
    <3> QED
      BY <1>0, <3>2, <3>3
  <2>2. open'[t] = o /\ \A u \in Tails \ {t} : open'[u] = open[u]
    BY <1>0, <1>6 DEF Archived
  <2>3. open' = [u \in Tails |-> open'[u]]
    BY <1>0, <1>6 DEF Archived
  <2>4. z \in [DOMAIN LogFiles(t) -> Nat]
    BY <1>0, <1>6, LogFileNames, NowSize
  <2>5. Queued(t, o, NewOut)
    BY <1>6, StreamsStart
  <2>6. Queued(t, open[t], out[t])'
    BY <1>1, <1>2, <2>2, <2>5 DEF Queued, Rest, Passed, InOrder, AllRead
  <2>7. ASSUME NEW i \in DOMAIN LogFiles(t) PROVE Opening(LogFiles(t)[i], open[t][i], req[t].sizes[i])'
    <3>1. o[i].pc = "open"
      BY <1>6 DEF NewOpen
    <3>2. PICK f \in Files : f = LogFiles(t)[i]
      BY LogFileNames
    <3>3. Opening(f, o[i], z[i])
      BY <1>0, <1>6, <3>1, <3>2, AskedSizes
    <3> QED
      BY <1>1, <2>1, <2>2, <3>2, <3>3 DEF Opening, fileVars
  <2>8. Asked(t)'
    BY <2>1, <2>4, <2>6, <2>7 DEF Asked, Archiving
  <2> QED
    BY <1>0, <1>1, <2>1, <2>2, <2>3, <2>8, OneArchive DEF Archived
<1> QED
  BY <1>4, <1>5, <1>6 DEF GetContainerLogs

\* A change of what was sent and read, for a request that stays.
LEMMA ArchiveStream ==
  ASSUME ArchiveInv, Step, UNCHANGED fileVars, req' = req, NEW t \in Tails, req[t].mode = "open", NEW o, NEW r, Queued(t, o, r),
         open' = [open EXCEPT ![t] = o], out' = [out EXCEPT ![t] = r],
         \A i \in DOMAIN LogFiles(t) : Opening(LogFiles(t)[i], o[i], req[t].sizes[i])
  PROVE  Archived'
<1>0. LibraryInv /\ Archived /\ Archiving(t)
  BY DEF ArchiveInv, StreamInv, Archived, Asked
<1>1. /\ open'[t] = o /\ out'[t] = r /\ \A u \in Tails \ {t} : open'[u] = open[u] /\ out'[u] = out[u]
      /\ open' = [u \in Tails |-> open'[u]] /\ out' = [u \in Tails |-> out'[u]]
  BY <1>0 DEF Archived
<1>2. Queued(t, open[t], out[t])'
  BY <1>1 DEF Queued, Rest, Passed, InOrder, AllRead
<1>3. ASSUME NEW i \in DOMAIN LogFiles(t) PROVE Opening(LogFiles(t)[i], open[t][i], req[t].sizes[i])'
  BY <1>1 DEF Opening, fileVars
<1>4. Asked(t)'
  BY <1>0, <1>2, <1>3 DEF Asked, Archiving
<1> QED
  BY <1>0, <1>1, <1>4, OneArchive

LEMMA ArchiveRead ==
  ASSUME ArchiveInv, Step, NEW t \in Tails, OpenFileRead(t) PROVE Archived'
<1> DEFINE i == out[t].readIndex
           f == LogFiles(t)[i]
<1>0. LibraryInv /\ Archived /\ UNCHANGED fileVars /\ req' = req /\ req[t].mode = "open" /\ out[t].err = "nil"
  BY DEF ArchiveInv, StreamInv, OpenFileRead, tailVars
<1>1. Archiving(t)
  BY <1>0 DEF Archived, Asked
<1>2. /\ Queued(t, open[t], out[t]) /\ \A k \in DOMAIN LogFiles(t) : Opening(LogFiles(t)[k], open[t][k], req[t].sizes[k])
      /\ i \in DOMAIN LogFiles(t) /\ open[t] \in [DOMAIN LogFiles(t) -> OpenState] /\ out[t] \in OutState
  BY <1>1 DEF Archiving, Queued
<1>3. out = [u \in Tails |-> out[u]] /\ open = [u \in Tails |-> open[u]]
  BY <1>0 DEF Archived
<1>4. open = [open EXCEPT ![t] = open[t]]
  BY <1>3
<1>5. CASE out[t].buff # <<>>
  <2>1. PICK s : s = [out[t] EXCEPT !.buff = Tail(out[t].buff), !.got = Append(out[t].got, Head(out[t].buff))]
    OBVIOUS
  <2>2. out' = [out EXCEPT ![t] = s] /\ open' = open
    BY <1>2, <1>3, <1>5, <2>1 DEF OpenFileRead, TakeByte
  <2>3. Queued(t, open[t], s)
    BY <1>0, <1>2, <1>5, <2>1, TakesByte
  <2> QED
    BY <1>0, <1>2, <1>4, <2>2, <2>3, ArchiveStream
<1>6. CASE out[t].buff = <<>> /\ open[t][i].sent # <<>>
  <2>1. PICK v : v = [open[t][i] EXCEPT !.sent = Tail(open[t][i].sent)]
    OBVIOUS
  <2>2. PICK w : w = [open[t] EXCEPT ![i] = v]
    OBVIOUS
  <2>3. PICK a : a = [out[t] EXCEPT !.buff = Head(open[t][i].sent)]
    OBVIOUS
  <2>4. Queued(t, w, a) /\ a.buff # <<>> /\ a.err = "nil"
    <3>1. PICK o, r : o = open[t] /\ r = out[t]
      OBVIOUS
    <3>2. Queued(t, o, r) /\ r.buff = <<>> /\ r.err = "nil" /\ o[r.readIndex].sent # <<>>
      BY <1>0, <1>2, <1>6, <3>1
    <3>3. ChunkTaken(o, r, w, a)
      BY <2>1, <2>2, <2>3, <3>1, <3>2 DEF ChunkTaken
    <3> QED
      BY <3>2, <3>3, TakesChunk
  <2>5. PICK s : s = [a EXCEPT !.buff = Tail(a.buff), !.got = Append(a.got, Head(a.buff))]
    OBVIOUS
  <2>6. Queued(t, w, s)
    BY <2>4, <2>5, TakesByte
  <2>7. a.buff = Head(open[t][i].sent) /\ a.got = out[t].got
    BY <1>2, <2>3 DEF OutState
  <2>8. s = [out[t] EXCEPT !.buff = Tail(Head(open[t][i].sent)), !.got = Append(out[t].got, Head(Head(open[t][i].sent)))]
    BY <1>2, <2>3, <2>5, <2>7 DEF OutState
  <2>9. out' = [out EXCEPT ![t] = s]
    BY <1>2, <1>3, <1>6, <2>8 DEF OpenFileRead, TakeByte, NextChunk
  <2>10. open' = [open EXCEPT ![t] = w]
    <3>1. open' = [open EXCEPT ![t][i].sent = Tail(@)]
      BY <1>6 DEF OpenFileRead, NextChunk
    <3> QED
      BY <1>2, <1>3, <2>1, <2>2, <3>1
  <2>11. ASSUME NEW k \in DOMAIN LogFiles(t) PROVE Opening(LogFiles(t)[k], w[k], req[t].sizes[k])
    <3>1. w[k].pc = open[t][k].pc /\ w[k].fd = open[t][k].fd /\ w[k].pos = open[t][k].pos
      BY <1>2, <2>1, <2>2 DEF OpenState
    <3>2. Opening(LogFiles(t)[k], open[t][k], req[t].sizes[k])
      BY <1>2
    <3> QED
      BY <3>1, <3>2 DEF Opening
  <2> QED
    BY <1>0, <2>6, <2>9, <2>10, <2>11, ArchiveStream
<1>7. CASE out[t].buff = <<>> /\ open[t][i].sent = <<>>
  <2>1. /\ open' = open /\ open[t][i].pc \in {"EOF", "error"}
        /\ out' = IF open[t][i].pc = "EOF" /\ ~LastStream(t) THEN [out EXCEPT ![t].readIndex = @ + 1]
                  ELSE [out EXCEPT ![t].err = open[t][i].pc]
    BY <1>7 DEF OpenFileRead, NextChunk
  <2>2. CASE open[t][i].pc = "EOF" /\ ~LastStream(t)
    <3>1. PICK s : s = [out[t] EXCEPT !.readIndex = @ + 1]
      OBVIOUS
    <3>2. out' = [out EXCEPT ![t] = s]
      BY <1>3, <2>1, <2>2, <3>1
    <3>3. Queued(t, open[t], s)
      BY <1>0, <1>2, <1>7, <2>2, <3>1, TakesStream DEF LastStream
    <3> QED
      BY <1>0, <1>2, <1>4, <2>1, <3>2, <3>3, ArchiveStream
  <2>3. CASE ~(open[t][i].pc = "EOF" /\ ~LastStream(t))
    <3>0. PICK e \in {"EOF", "error"} : e = open[t][i].pc
      BY <2>1
    <3>1. PICK s : s = [out[t] EXCEPT !.err = e]
      OBVIOUS
    <3>2. out' = [out EXCEPT ![t] = s]
      BY <1>3, <2>1, <2>3, <3>0, <3>1
    <3>3. Queued(t, open[t], s)
      BY <1>0, <1>2, <1>7, <2>3, <3>0, <3>1, TakesEnd DEF LastStream
    <3> QED
      BY <1>0, <1>2, <1>4, <2>1, <3>2, <3>3, ArchiveStream
  <2> QED
    BY <2>2, <2>3
<1> QED
  BY <1>5, <1>6, <1>7

LEMMA ArchiveOpen ==
  ASSUME ArchiveInv, Step, NEW t \in Tails, NEW i \in DOMAIN open[t], OpenFile(t, i) \/ OpenFileSend(t, i)
  PROVE  Archived'
<1> DEFINE f == LogFiles(t)[i]
           o == open[t][i]
<1>0. /\ LibraryInv /\ Archived /\ UNCHANGED fileVars /\ req' = req /\ out' = out /\ req[t].mode = "open"
      /\ o.pc \in {"open", "read"}
  BY DEF ArchiveInv, StreamInv, OpenFile, OpenFileSend, tailVars
<1>1. Archiving(t)
  BY <1>0 DEF Archived, Asked
<1>2. /\ Queued(t, open[t], out[t]) /\ \A k \in DOMAIN LogFiles(t) : Opening(LogFiles(t)[k], open[t][k], req[t].sizes[k])
      /\ i \in DOMAIN LogFiles(t) /\ open[t] \in [DOMAIN LogFiles(t) -> OpenState] /\ o \in OpenState
      /\ req[t].sizes[i] \in Nat
  BY <1>1 DEF Archiving, Queued
<1>3. out = [out EXCEPT ![t] = out[t]] /\ open = [u \in Tails |-> open[u]]
  BY <1>0 DEF Archived
<1>4. f \in Files /\ cur[f] \in Nat /\ Len(inodes[f]) \in Nat /\ cur[f] <= Len(inodes[f])
  BY <1>0, <1>2, LogFileNames, LenProperties DEF LibraryInv, LibraryTypes, InodeBounds
<1>5. ASSUME NEW v, Queued(t, [open[t] EXCEPT ![i] = v], out[t]), open' = [open EXCEPT ![t][i] = v],
             Opening(f, v, req[t].sizes[i])
      PROVE  Archived'
  <2>1. PICK w : w = [open[t] EXCEPT ![i] = v]
    OBVIOUS
  <2>2. open' = [open EXCEPT ![t] = w]
    BY <1>3, <1>5, <2>1
  <2>3. ASSUME NEW k \in DOMAIN LogFiles(t) PROVE Opening(LogFiles(t)[k], w[k], req[t].sizes[k])
    <3>1. CASE k = i
      BY <1>2, <1>5, <2>1, <3>1
    <3>2. CASE k # i
      <4>1. w[k] = open[t][k]
        BY <1>2, <2>1, <3>2
      <4> QED
        BY <1>2, <4>1
    <3> QED
      BY <3>1, <3>2
  <2>4. out' = [out EXCEPT ![t] = out[t]]
    BY <1>0, <1>3
  <2> QED
    BY <1>0, <1>5, <2>1, <2>2, <2>3, <2>4, ArchiveStream
<1>6. Opening(f, o, req[t].sizes[i])
  BY <1>2
<1>7. CASE OpenFile(t, i)
  <2>1. PICK v : v = [o EXCEPT !.fd = cur[f], !.pc = IF cur[f] = 0 THEN "error" ELSE "read"]
    OBVIOUS
  <2>2. /\ v \in OpenState /\ v.sent = o.sent /\ v.pos = o.pos /\ v.fd = cur[f]
        /\ v.pc = IF cur[f] = 0 THEN "error" ELSE "read"
    BY <1>2, <1>4, <2>1 DEF OpenState
  <2>3. open' = [open EXCEPT ![t][i] = v]
    BY <1>2, <1>3, <1>7, <2>1 DEF OpenFile
  <2>4. Queued(t, [open[t] EXCEPT ![i] = v], out[t])
    BY <1>0, <1>2, <2>2, StreamMoves
  <2>5. Opening(f, v, req[t].sizes[i])
    BY <1>4, <1>6, <2>2 DEF Opening
  <2> QED
    BY <1>5, <2>3, <2>4, <2>5
<1>8. CASE OpenFileSend(t, i)
  <2> DEFINE size == inodes[f][o.fd].size
             end == IF size < o.pos + Chunk THEN size ELSE o.pos + Chunk
  <2>1. o.pc = "read" /\ o.fd # 0 /\ o.fd <= Len(inodes[f]) /\ o.fd \in Nat /\ o.pos \in Nat
    BY <1>2, <1>6, <1>8 DEF OpenFileSend, Opening, OpenState
  <2>2. size \in Nat
    <3>1. o.fd \in 1 .. Len(inodes[f])
      BY <1>4, <2>1
    <3> QED
      BY <1>0, <1>4, <3>1, SizeType DEF LibraryInv
  <2>3. end \in Nat
    BY <2>1, <2>2 DEF Chunk
  <2>4. f \notin replaced => o.fd = 1
    <3>1. f \notin replaced => Len(inodes[f]) <= 1
      BY <1>0, <1>4 DEF LibraryInv, KeptFiles, KeptFile
    <3> QED
      BY <1>4, <2>1, <3>1
  <2>5. CASE end <= o.pos
    <3>1. PICK v : v = [o EXCEPT !.pc = "EOF"]
      OBVIOUS
    <3>2. v \in OpenState /\ v.sent = o.sent /\ v.pos = o.pos /\ v.fd = o.fd /\ v.pc = "EOF"
      BY <1>2, <3>1 DEF OpenState
    <3>3. open' = [open EXCEPT ![t][i] = v]
      BY <1>2, <1>3, <1>8, <2>5, <3>1 DEF OpenFileSend
    <3>4. Queued(t, [open[t] EXCEPT ![i] = v], out[t])
      BY <1>0, <1>2, <3>2, StreamMoves
    <3>5. size <= o.pos
      BY <2>1, <2>2, <2>5 DEF Chunk
    <3>6. f \notin replaced => req[t].sizes[i] <= o.pos
      BY <1>2, <1>6, <2>1, <2>2, <2>4, <3>5 DEF Opening
    <3>7. Opening(f, v, req[t].sizes[i])
      BY <1>6, <3>2, <3>6 DEF Opening
    <3> QED
      BY <1>5, <3>3, <3>4, <3>7
  <2>6. CASE ~(end <= o.pos)
    <3>0. PICK z \in Nat : z = end
      BY <2>3
    <3>1. PICK v : v = [o EXCEPT !.pos = z, !.sent = Append(o.sent, Bytes(f, o.pos, z - o.pos))]
      OBVIOUS
    <3>2. o.pos < z /\ z - o.pos \in Nat
      BY <2>1, <2>6, <3>0
    <3>3. Append(o.sent, Bytes(f, o.pos, z - o.pos)) \in Seq(Seq(Byte))
      BY <1>2, <1>4, <2>1, <3>2, BytesType, AppendProperties DEF OpenState
    <3>4. /\ v \in OpenState /\ v.sent = Append(o.sent, Bytes(f, o.pos, z - o.pos)) /\ v.pos = z
          /\ v.fd = o.fd /\ v.pc = o.pc
      BY <1>2, <3>1, <3>3 DEF OpenState
    <3>5. open' = [open EXCEPT ![t][i] = v]
      <4>1. open' = [open EXCEPT ![t][i].pos = end,
                       ![t][i].sent = Append(@, [b \in 1 .. end - o.pos |-> <<f, o.pos + b - 1>>])]
        BY <1>8, <2>6 DEF OpenFileSend
      <4> HIDE DEF end
      <4> QED
        BY <1>2, <1>3, <3>0, <3>1, <4>1 DEF Bytes
    <3>6. Queued(t, [open[t] EXCEPT ![i] = v], out[t])
      BY <1>0, <1>2, <3>2, <3>4, StreamSends
    <3>7. Opening(f, v, req[t].sizes[i])
      BY <1>6, <2>1, <3>4 DEF Opening
    <3> QED
      BY <1>5, <3>5, <3>6, <3>7
  <2> QED
    BY <2>5, <2>6
<1> QED
  BY <1>7, <1>8

LEMMA ArchiveInvStep ==
  ASSUME ArchiveInv, [StreamNext]_<<tailVars, streamVars, ops>> PROVE ArchiveInv'
<1>1. StreamInv /\ Archived /\ LibraryInv /\ Step
  BY StreamNextIsStep DEF ArchiveInv, StreamInv
<1>2. StreamInv'
  BY <1>1, StreamInvStep
<1>3. ASSUME NEW t \in Tails, GetContainerLogs(t) PROVE Archived'
  BY <1>1, <1>3, ArchiveGet
<1>4. ASSUME NEW t \in Tails, OpenStep(t) PROVE Archived'
  BY <1>1, <1>4, ArchiveRead, ArchiveOpen DEF OpenStep
<1>5. ASSUME UNCHANGED <<req, open, out>> PROVE Archived'
  BY <1>1, <1>5, ArchiveSame
<1>6. ASSUME NEW t \in Tails, ReaderStep(t) \/ HandlerStep(t) PROVE UNCHANGED <<req, open, out>>
  BY <1>6, Zenon DEF ReaderStep, ReaderReceive, ReaderWrite, ReaderEnd, HandlerStep, HandlerStart, HandlerClosed,
                     HandlerCancelled, HandlerRead, HandlerReadDone, HandlerSend
<1>7. ASSUME NEW t \in Tails,
             \/ SecondReceive(t) \/ HandlerRequest(t) \/ ClientGone(t)
             \/ \E a \in TailActions : ClientRequest(t, a)
      PROVE  UNCHANGED <<req, open, out>>
  BY <1>7, Zenon DEF SecondReceive, HandlerRequest, ClientGone, ClientRequest
<1>8. UNCHANGED streamVars => UNCHANGED <<req, open, out>>
  BY DEF streamVars
<1>9. Archived'
  BY <1>3, <1>4, <1>5, <1>6, <1>7, <1>8 DEF StreamNext, LibraryStep
<1> QED
  BY <1>2, <1>9 DEF ArchiveInv

LEMMA ArchiveStarts == ASSUME StreamInit PROVE ArchiveInv
<1>1. \A t \in Tails : req[t].mode # "open"
  BY AskingType DEF StreamInit
<1>2. out = [t \in Tails |-> NewOut] /\ open = [t \in Tails |-> <<>>]
  BY DEF StreamInit
<1>3. Archived
  BY <1>1, <1>2 DEF Archived, Asked
<1> QED
  BY <1>3, StreamStarts DEF ArchiveInv

LEMMA ArchiveGivesExact == ASSUME ArchiveInv PROVE ArchiveExact
<1> SUFFICES ASSUME NEW t \in Tails
             PROVE  LET got == out[t].got IN
                    \E n \in 0 .. Len(got) :
                        /\ \A i \in DOMAIN got :
                              got[i] = IF i <= n THEN <<StdOut[t], i - 1>> ELSE <<StdErr[t], i - n - 1>>
                        /\ n < Len(got) => StdOut[t] # StdErr[t]
                        /\ (n < Len(got) \/ out[t].err = "EOF") /\ StdOut[t] \notin replaced => n >= req[t].sizes[1]
                        /\ out[t].err = "EOF" /\ StdOut[t] # StdErr[t] /\ StdErr[t] \notin replaced =>
                              Len(got) - n >= req[t].sizes[2]
  BY DEF ArchiveExact
<1>1. Asked(t)
  BY DEF ArchiveInv, Archived
<1>2. CASE req[t].mode # "open"
  <2>1. out[t].got = <<>> /\ out[t].err = "nil" /\ Len(<<>>) = 0 /\ DOMAIN <<>> = {}
    BY <1>1, <1>2, EmptySeq DEF Asked, NewOut
  <2>2. 0 \in 0 .. Len(out[t].got) /\ DOMAIN out[t].got = {} /\ ~(0 < Len(out[t].got)) /\ out[t].err # "EOF"
    BY <2>1
  <2> QED
    BY <2>2
<1>3. CASE req[t].mode = "open"
  <2>1. /\ Queued(t, open[t], out[t]) /\ req[t].sizes \in [DOMAIN LogFiles(t) -> Nat]
        /\ \A i \in DOMAIN LogFiles(t) : Opening(LogFiles(t)[i], open[t][i], req[t].sizes[i])
    BY <1>1, <1>3 DEF Asked, Archiving
  <2>2. PICK o, r, z : o = open[t] /\ r = out[t] /\ z = req[t].sizes
    OBVIOUS
  <2>3. /\ Queued(t, o, r) /\ z \in [DOMAIN LogFiles(t) -> Nat]
        /\ \A i \in DOMAIN LogFiles(t) : /\ LogFiles(t)[i] \notin replaced /\ o[i].pc = "EOF" => z[i] <= o[i].pos
                                         /\ o[i].pos \in Nat /\ z[i] \in Nat
    BY <2>1, <2>2 DEF Opening, Queued, OpenState
  <2>4. r.got \in Seq(Byte) /\ Len(r.got) \in Nat /\ DOMAIN r.got = 1 .. Len(r.got) /\ r.readIndex \in DOMAIN LogFiles(t)
    BY <2>3, LenProperties DEF Queued, OutState
  <2>5. r.buff \in Seq(Byte) /\ Len(r.buff) \in Nat
    BY <2>3, LenProperties DEF Queued, OutState
  <2>6. PICK p \in Nat : Rest(t, o, r, p)
    BY <2>3 DEF Queued
  <2>7. InOrder(t, r.got, r.readIndex, Passed(o, r)) /\ Len(r.got) = Passed(o, r) + (p - Len(r.buff)) /\ Len(r.buff) <= p
    BY <2>3, <2>6 DEF Queued, Rest
  <2>8. ASSUME r.err = "EOF"
        PROVE  /\ r.readIndex = Len(LogFiles(t)) /\ o[r.readIndex].pc = "EOF" /\ Len(r.got) = Passed(o, r) + o[r.readIndex].pos
    <3>1. AllRead(t, o, r) /\ Len(<<>>) = 0
      BY <2>3, <2>8, EmptySeq DEF Queued
    <3>2. SentFrom(<<>>, LogFiles(t)[r.readIndex], p, o[r.readIndex].pos) /\ Len(r.buff) = 0
      BY <2>6, <3>1 DEF Rest, AllRead
    <3>3. \A e : SentFrom(<<>>, LogFiles(t)[r.readIndex], p, e) => e = p
      BY SentNone
    <3>4. o[r.readIndex].pos = p
      BY <3>2, <3>3
    <3>5. Passed(o, r) \in Nat
      BY <2>3, PassedType
    <3> QED
      BY <2>7, <3>1, <3>2, <3>4, <3>5 DEF AllRead
  <2>9. CASE r.readIndex = 1
    <3>1. Passed(o, r) = 0
      BY <2>9 DEF Passed
    <3>2. \A b \in DOMAIN r.got : r.got[b] = IF b <= Len(r.got) THEN <<StdOut[t], b - 1>> ELSE <<StdErr[t], b - Len(r.got) - 1>>
      <4>1. \A b \in 1 .. Len(r.got) : b <= Len(r.got)
        BY <2>4
      <4>2. \A b \in 1 .. Len(r.got) : r.got[b] = <<StdOut[t], b - 1>>
        BY <2>7, <2>9 DEF InOrder
      <4> QED
        BY <2>4, <4>1, <4>2
    <3>3. r.err = "EOF" => StdOut[t] = StdErr[t] /\ (StdOut[t] \notin replaced => Len(r.got) >= z[1])
      <4> SUFFICES ASSUME r.err = "EOF" PROVE StdOut[t] = StdErr[t] /\ (StdOut[t] \notin replaced => Len(r.got) >= z[1])
        OBVIOUS
      <4>1. Len(LogFiles(t)) = 1 /\ o[1].pc = "EOF" /\ Len(r.got) = 0 + o[1].pos
        BY <2>8, <2>9, <3>1
      <4> QED
        BY <2>3, <4>1, LogFileFacts
    <3>4. Len(r.got) \in 0 .. Len(r.got) /\ ~(Len(r.got) < Len(r.got))
      BY <2>4
    <3> QED
      BY <2>2, <3>2, <3>3, <3>4
  <2>10. CASE r.readIndex # 1
    <3>1. r.readIndex = 2 /\ Len(LogFiles(t)) = 2 /\ StdOut[t] # StdErr[t] /\ DOMAIN LogFiles(t) = {1, 2} /\ LogFiles(t)[1] = StdOut[t]
          /\ LogFiles(t)[2] = StdErr[t]
      BY <2>4, <2>10, LogFileFacts
    <3>2. PICK n \in Nat : n = o[1].pos /\ n = Passed(o, r)
      BY <2>3, <3>1 DEF Passed
    <3>3. o[1].pc = "EOF"
      BY <2>3, <3>1 DEF Queued
    <3>4. StdOut[t] \notin replaced => n >= z[1]
      BY <2>3, <3>1, <3>2, <3>3
    <3>5. n \in 0 .. Len(r.got)
      BY <2>4, <2>5, <2>7, <3>2
    <3>6. \A b \in DOMAIN r.got : r.got[b] = IF b <= n THEN <<StdOut[t], b - 1>> ELSE <<StdErr[t], b - n - 1>>
      BY <2>4, <2>7, <3>1, <3>2 DEF InOrder
    <3>7. r.err = "EOF" /\ StdErr[t] \notin replaced => Len(r.got) - n >= z[2]
      <4> SUFFICES ASSUME r.err = "EOF", StdErr[t] \notin replaced PROVE Len(r.got) - n >= z[2]
        OBVIOUS
      <4>1. o[2].pc = "EOF" /\ Len(r.got) = n + o[2].pos
        BY <2>8, <3>1, <3>2
      <4>2. z[2] <= o[2].pos /\ o[2].pos \in Nat /\ z[2] \in Nat
        BY <2>3, <3>1, <4>1
      <4> QED
        BY <4>1, <4>2
    <3> QED
      BY <2>2, <3>1, <3>4, <3>5, <3>6, <3>7
  <2> QED
    BY <2>9, <2>10
<1> QED
  BY <1>2, <1>3

\* kubectl logs without -f: what was read is the first bytes of StdOut, then
\* the first bytes of StdErr, each once and in order, however the files grow
\* and the streams and the reader interleave; a clean end means that each file
\* that was not replaced was read as far as it went when the logs were asked
\* for. ArchiveInv adds the cuts of the chunks that are on their way.
THEOREM ArchiveIsExact == StreamSpec => []ArchiveExact
<1>1. StreamInit => ArchiveInv
  BY ArchiveStarts
<1>2. ArchiveInv /\ [StreamNext]_<<tailVars, streamVars, ops>> => ArchiveInv'
  BY ArchiveInvStep
<1>3. ArchiveInv => ArchiveExact
  BY ArchiveGivesExact
<1> QED
  BY <1>1, <1>2, <1>3, PTL DEF StreamSpec
=============================================================================
