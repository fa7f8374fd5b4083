------------------------------- MODULE LogTail -------------------------------
(***************************************************************************)
(* The tail library (pkg/tail): goroutines that follow log files line by   *)
(* line, and the one InotifyTracker goroutine that all of them share.      *)
(*                                                                         *)
(* A file is written in bytes; a line is LineLen of them, the last of      *)
(* which is its newline, so that a line can be half written.  The name of  *)
(* a file denotes at most one inode, and an inode outlives its name while  *)
(* a tail has it open.  All the files are in one directory.                *)
(*                                                                         *)
(* A channel is a number, 0 the nil channel.  The tracker deletes a        *)
(* channel from its map in the critical section that closes it, so a       *)
(* channel is closed exactly when the map no longer holds it.              *)
(***************************************************************************)
EXTENDS Naturals, Sequences, FiniteSets

CONSTANTS Tails,     \* the tails started by tail.TailFile
          Files,     \* the names they may follow
          MaxSize,   \* bound: bytes written to an inode
          MaxInodes, \* bound: files created under one name
          MaxOps     \* bound: changes of files and stops of tails

ASSUME TailAssumption ==
    /\ IsFiniteSet(Tails)
    /\ MaxSize \in Nat \ {0} /\ MaxOps \in Nat /\ MaxInodes \in Nat \ {0}

VARIABLES
    path,    \* path[t]: the Filename of tail t
    inodes,  \* inodes[f]: the inodes created under the name f, oldest first
    cur,     \* cur[f]: the inode the name denotes, 0 when there is none
    kwatch,  \* kwatch[f]: the inode the kernel watches under the name f, or 0
    events,  \* fsnotify.Watcher.Events
    chans, done, watchNums, dirNums, \* the maps of InotifyTracker
    run,     \* the goroutine InotifyTracker.run
    tl,      \* tl[t]: the goroutine Tail.tailFileSync
    wg,      \* wg[t]: the goroutine started by ChangeEvents
    missed,  \* history: tails some appended byte was not announced to
    failed,  \* history: files whose addWatch failed
    replaced,\* history: files truncated, renamed or deleted
    ops      \* changes of files and stops of tails so far

fileVars    == <<path, inodes, cur, replaced>>
kernelVars  == <<kwatch, events>>
trackerVars == <<chans, done, watchNums, dirNums, failed>>
tailVars    == <<fileVars, kernelVars, trackerVars, run, tl, wg, missed>>

LineLen == 2

Idle == [f |-> "none", op |-> "none", ch |-> 0, done |-> 0]

\* FileChanges: three channels of capacity one, filled by sendOnlyIfEmpty.
NoChanges == [Modified |-> FALSE, Truncated |-> FALSE, Deleted |-> FALSE]

\* pos is the offset of the next line, buf the end of what bufio has read.
NewTail == [pc |-> "reopen", fd |-> 0, pos |-> 0, buf |-> 0, watching |-> FALSE,
            changes |-> NoChanges, ch |-> 0, next |-> "none",
            dying |-> FALSE, lines |-> <<>>]

NoGoroutine == [pc |-> "none", ch |-> 0, size |-> 0, next |-> "none"]

Followers(f) == {t \in Tails : path[t] = f}

\* Tails that have inode k of file f open.
Openers(f, k) == {t \in Followers(f) : tl[t].fd = k}

-----------------------------------------------------------------------------
(* The kernel and fsnotify (external): which events a change of a file      *)
(* produces.  Equal events that follow each other are merged.               *)

Queue(q, f, op) ==
    LET e == [f |-> f, op |-> op] IN
    IF q # <<>> /\ q[Len(q)] = e THEN q ELSE Append(q, e)

\* The watch of the directory and the watch of the file each report.
Announce(f, op) ==
    LET q == IF dirNums > 0 THEN Queue(events, f, op) ELSE events IN
    events' = IF kwatch[f] # 0 /\ kwatch[f] = cur[f] THEN Queue(q, f, op) ELSE q

\* A job appends a byte.  A tail that is between the end of the file and
\* its watch is told nothing.
AppendByte(f) ==
    /\ cur[f] # 0
    /\ inodes[f][cur[f]].size < MaxSize
    /\ inodes' = [inodes EXCEPT ![f][cur[f]].size = @ + 1]
    /\ Announce(f, "Write")
    /\ missed' = missed \union
          {t \in Followers(f) : tl[t].pc = "watch"}
    /\ UNCHANGED <<path, cur, replaced, kwatch, trackerVars, run, tl, wg>>

CreateFile(f) ==
    /\ cur[f] = 0
    /\ Len(inodes[f]) < MaxInodes
    /\ inodes' = [inodes EXCEPT ![f] = Append(@, [size |-> 0, link |-> TRUE])]
    /\ cur' = [cur EXCEPT ![f] = Len(inodes[f]) + 1]
    /\ events' = IF dirNums > 0 THEN Queue(events, f, "Create") ELSE events
    /\ UNCHANGED <<path, replaced, kwatch, trackerVars, run, tl, wg, missed>>

TruncateFile(f) ==
    /\ cur[f] # 0
    /\ inodes[f][cur[f]].size > 0
    /\ inodes' = [inodes EXCEPT ![f][cur[f]].size = 0]
    /\ replaced' = replaced \union {f}
    /\ Announce(f, "Write")
    /\ UNCHANGED <<path, cur, kwatch, trackerVars, run, tl, wg, missed>>

\* unlink: an inode that is still open reports a change of its attributes
\* (fsnotify.Chmod), one that is not reports its removal and loses its watch.
UnlinkFile(f) ==
    /\ cur[f] # 0
    /\ LET open == Openers(f, cur[f]) # {}
           q == IF dirNums > 0 THEN Queue(events, f, "Remove") ELSE events
           watched == kwatch[f] = cur[f]
       IN /\ events' = IF watched THEN Queue(q, f, IF open THEN "Chmod" ELSE "Remove") ELSE q
          /\ kwatch' = IF watched /\ ~open THEN [kwatch EXCEPT ![f] = 0] ELSE kwatch
    /\ inodes' = [inodes EXCEPT ![f][cur[f]].link = FALSE]
    /\ cur' = [cur EXCEPT ![f] = 0]
    /\ replaced' = replaced \union {f}
    /\ UNCHANGED <<path, trackerVars, run, tl, wg, missed>>

RenameFile(f) ==
    /\ cur[f] # 0
    /\ Announce(f, "Rename")
    /\ cur' = [cur EXCEPT ![f] = 0]
    /\ replaced' = replaced \union {f}
    /\ UNCHANGED <<path, inodes, kwatch, trackerVars, run, tl, wg, missed>>

\* closeFile: the last close of an inode without a name removes it.
CloseFile(t) ==
    LET f == path[t]
        k == tl[t].fd
        last == /\ k # 0 /\ kwatch[f] = k
                /\ ~inodes[f][k].link
                /\ Openers(f, k) = {t}
    IN /\ kwatch' = IF last THEN [kwatch EXCEPT ![f] = 0] ELSE kwatch
       /\ events' = IF last THEN Queue(events, f, "Remove") ELSE events

-----------------------------------------------------------------------------
(* InotifyTracker: Watch, WatchCreate, RemoveWatch and RemoveWatchCreate    *)
(* hand a request to run and wait for its answer; run serves one at a time. *)

Unused(S) == CHOOSE n \in 1 .. (Cardinality(S) + 1) : n \notin S

OpenChansNoDone(f) ==
    /\ chans' = IF chans[f] # 0 THEN chans ELSE
         [chans EXCEPT ![f] = Unused({tl[t].ch : t \in Tails} \union
                                     {wg[t].ch : t \in Tails} \union {run.ch})]
    /\ UNCHANGED done

\* addWatch opens the channels the file lacks, whether or not the kernel
\* then accepts the watch.
OpenChans(f) ==
    /\ chans' = IF chans[f] # 0 THEN chans ELSE
         [chans EXCEPT ![f] = Unused({tl[t].ch : t \in Tails} \union
                                     {wg[t].ch : t \in Tails} \union {run.ch})]
    /\ done' = IF done[f] # 0 THEN done ELSE [done EXCEPT ![f] = Unused({run.done})]

CountedOnce(f) == [watchNums EXCEPT ![f] = 1]

\* Every watch of a name counts, the first one only is the kernel's.
Counted(f) == [watchNums EXCEPT ![f] = @ + 1]

KeepDone(f) == UNCHANGED done

\* remove: closes done before it hands the request to run, so that a run
\* blocked in sendEvent lets go.
CloseDone(f) == done' = [done EXCEPT ![f] = 0]

\* removeWatch closes the channel that every watch of the name shares.
CloseChan(f) == chans' = [chans EXCEPT ![f] = 0]

\* run answers WatchCreate, called by BlockUntilExists; the directory exists.
RunWatchCreate(t) ==
    /\ run = Idle
    /\ tl[t].pc = "watchCreate"
    /\ OpenChans(path[t])
    /\ dirNums' = dirNums + 1
    /\ tl' = [tl EXCEPT ![t].pc = "stat"]
    /\ UNCHANGED <<fileVars, kernelVars, watchNums, failed, run, wg, missed>>

RunRemoveCreate(t) ==
    /\ run = Idle
    /\ tl[t].pc = "removeCreate"
    /\ CloseChan(path[t])
    /\ dirNums' = dirNums - 1
    /\ tl' = [tl EXCEPT ![t].pc = tl[t].next, ![t].ch = 0]
    /\ UNCHANGED <<fileVars, kernelVars, done, watchNums, failed, run, wg, missed>>

\* run answers Watch, called by ChangeEvents.  Only the first watch of a
\* name is added to the kernel's, which refuses a name without a file; the
\* tail then stops with that error.
RunWatch(t) ==
    LET f == path[t] IN
    /\ run = Idle
    /\ tl[t].pc = "watch"
    /\ OpenChans(f)
    /\ \/ /\ watchNums[f] > 0 \/ cur[f] # 0
          /\ kwatch' = IF watchNums[f] = 0 THEN [kwatch EXCEPT ![f] = cur[f]] ELSE kwatch
          /\ watchNums' = Counted(f)
          /\ tl' = [tl EXCEPT ![t].pc = "select", ![t].watching = TRUE,
                              ![t].changes = NoChanges]
          /\ wg' = [wg EXCEPT ![t] = [NoGoroutine EXCEPT !.pc = "events", !.size = tl[t].pos]]
          /\ UNCHANGED failed
       \/ /\ watchNums[f] = 0 /\ cur[f] = 0
          /\ tl' = [tl EXCEPT ![t].pc = "close"]
          /\ failed' = failed \union {f}
          /\ UNCHANGED <<kwatch, watchNums, wg>>
    /\ UNCHANGED <<fileVars, events, dirNums, run, missed>>

\* run answers RemoveWatch, called by the goroutine of ChangeEvents, which
\* then announces the deletion if that is why it ends.
RunRemove(t) ==
    LET f == path[t] IN
    /\ run = Idle
    /\ wg[t].pc = "remove"
    /\ CloseChan(f)
    /\ watchNums' = [watchNums EXCEPT ![f] = @ - 1]
    /\ kwatch' = IF watchNums[f] = 1 THEN [kwatch EXCEPT ![f] = 0] ELSE kwatch
    /\ tl' = [tl EXCEPT ![t].changes.Deleted = @ \/ wg[t].next = "deleted"]
    /\ wg' = [wg EXCEPT ![t] = NoGoroutine]
    /\ UNCHANGED <<fileVars, events, done, dirNums, failed, run, missed>>

\* sendEvent looks the channels up; without them the event is dropped.
RunEvent ==
    /\ run = Idle
    /\ events # <<>>
    /\ LET e == Head(events) IN
       run' = IF chans[e.f] # 0 /\ done[e.f] # 0
              THEN [f |-> e.f, op |-> e.op, ch |-> chans[e.f], done |-> done[e.f]]
              ELSE Idle
    /\ events' = Tail(events)
    /\ UNCHANGED <<fileVars, kwatch, trackerVars, tl, wg, missed>>

\* sendEvent gives up when done is closed.
RunGiveUp ==
    /\ run # Idle
    /\ run.done # done[run.f]
    /\ run' = Idle
    /\ UNCHANGED <<fileVars, kernelVars, trackerVars, tl, wg, missed>>

\* A receive of the event that run is sending, on channel c of file f.
Receive(f, c) ==
    /\ c # 0 /\ run.f = f /\ run.ch = c
    /\ run' = Idle

Closed(f, c) == c # 0 /\ c # chans[f]

-----------------------------------------------------------------------------
(* The goroutine of ChangeEvents.                                           *)

GetEvents(t) ==
    /\ wg[t].pc = "events"
    /\ wg' = [wg EXCEPT ![t].ch = chans[path[t]], ![t].pc = "receive"]
    /\ UNCHANGED <<fileVars, kernelVars, trackerVars, run, tl, missed>>

WatchReceive(t) ==
    /\ wg[t].pc = "receive"
    /\ Receive(path[t], wg[t].ch)
    /\ wg' = [wg EXCEPT ![t].pc = CASE run.op \in {"Remove", "Rename"} -> "unwatch"
                                    [] run.op \in {"Chmod", "Write"} -> "stat"
                                    [] OTHER -> "receive",
                        ![t].next = IF run.op \in {"Remove", "Rename"} THEN "deleted" ELSE @]
    /\ UNCHANGED <<fileVars, kernelVars, trackerVars, tl, missed>>

\* The channel is closed under the goroutine, or the tail is dying.
WatchEnd(t) ==
    /\ wg[t].pc = "receive"
    /\ Closed(path[t], wg[t].ch) \/ tl[t].dying
    /\ wg' = [wg EXCEPT ![t].pc = "unwatch", ![t].next = "exit"]
    /\ UNCHANGED <<fileVars, kernelVars, trackerVars, run, tl, missed>>

\* os.Stat of the name after a Write or Chmod event.
WatchStat(t) ==
    LET f == path[t]
        size == inodes[f][cur[f]].size
        truncated == wg[t].size > 0 /\ wg[t].size > size
    IN
    /\ wg[t].pc = "stat"
    /\ \/ /\ cur[f] = 0
          /\ wg' = [wg EXCEPT ![t].pc = "unwatch", ![t].next = "deleted"]
          /\ UNCHANGED tl
       \/ /\ cur[f] # 0
          /\ wg' = [wg EXCEPT ![t].pc = "receive", ![t].size = size]
          /\ tl' = [tl EXCEPT ![t].changes.Truncated = @ \/ truncated,
                              ![t].changes.Modified = @ \/ ~truncated]
    /\ UNCHANGED <<fileVars, kernelVars, trackerVars, run, missed>>

Unwatch(t) ==
    /\ wg[t].pc = "unwatch"
    /\ CloseDone(path[t])
    /\ wg' = [wg EXCEPT ![t].pc = "remove"]
    /\ UNCHANGED <<fileVars, kernelVars, chans, watchNums, dirNums, failed, run, tl, missed>>

-----------------------------------------------------------------------------
(* tailFileSync, configured as pkg/common/tail does: Follow and ReOpen.     *)

\* reopen, after closeFile: open the file or wait for it in BlockUntilExists.
Reopen(t) ==
    LET f == path[t] IN
    /\ tl[t].pc = "reopen"
    /\ tl' = [tl EXCEPT ![t].pc = IF cur[f] # 0 THEN "read" ELSE "watchCreate",
                        ![t].fd = cur[f], ![t].pos = 0, ![t].buf = 0]
    /\ UNCHANGED <<fileVars, kernelVars, trackerVars, run, wg, missed>>

\* BlockUntilExists stats the file once its watch is in place.
StatCreated(t) ==
    LET f == path[t] IN
    /\ tl[t].pc = "stat"
    /\ tl' = IF cur[f] # 0
             THEN [tl EXCEPT ![t].pc = "unwatchCreate", ![t].next = "reopen"]
             ELSE [tl EXCEPT ![t].pc = "blocked", ![t].ch = chans[f]]
    /\ UNCHANGED <<fileVars, kernelVars, trackerVars, run, wg, missed>>

BlockedReceive(t) ==
    /\ tl[t].pc = "blocked"
    /\ Receive(path[t], tl[t].ch)
    /\ tl' = [tl EXCEPT ![t].pc = "unwatchCreate", ![t].next = "reopen"]
    /\ UNCHANGED <<fileVars, kernelVars, trackerVars, wg, missed>>

\* "inotify watcher has been closed", or the tail is dying: the tail ends.
BlockedEnd(t) ==
    /\ tl[t].pc = "blocked"
    /\ Closed(path[t], tl[t].ch) \/ tl[t].dying
    /\ tl' = [tl EXCEPT ![t].pc = "unwatchCreate", ![t].next = "close"]
    /\ UNCHANGED <<fileVars, kernelVars, trackerVars, run, wg, missed>>

UnwatchCreate(t) ==
    /\ tl[t].pc = "unwatchCreate"
    /\ CloseDone(path[t])
    /\ tl' = [tl EXCEPT ![t].pc = "removeCreate"]
    /\ UNCHANGED <<fileVars, kernelVars, chans, watchNums, dirNums, failed, run, wg, missed>>

\* The offset after the newline of the next line.
EndOfLine(t) == (tl[t].pos \div LineLen + 1) * LineLen

KeepHalfLine(offset, end) == end

\* After half a line tailFileSync seeks to the offset where the line starts,
\* which also empties the buffer.
SeekBack(offset, end) == offset

EndAtEOF(t) ==
    LET size == inodes[path[t]][tl[t].fd].size IN
    /\ tl[t].pc = "read"
    /\ tl' = IF EndOfLine(t) <= size
             THEN [tl EXCEPT ![t].pc = "send", ![t].buf = size]
             ELSE [tl EXCEPT ![t].pc = "close"]
    /\ UNCHANGED <<fileVars, kernelVars, trackerVars, run, wg, missed>>

\* readLine takes what is buffered before it reads the file again.
ReadLine(t) ==
    LET size == inodes[path[t]][tl[t].fd].size
        end == IF EndOfLine(t) <= tl[t].buf \/ size < tl[t].buf THEN tl[t].buf ELSE size
        offset == SeekBack(tl[t].pos, end)
    IN
    /\ tl[t].pc = "read"
    /\ tl' = IF EndOfLine(t) <= end
             THEN [tl EXCEPT ![t].pc = "send", ![t].buf = end]
             ELSE [tl EXCEPT ![t].pc = IF tl[t].watching THEN "select" ELSE "watch",
                             ![t].pos = offset, ![t].buf = offset]
    /\ UNCHANGED <<fileVars, kernelVars, trackerVars, run, wg, missed>>

\* sendLine hands the line over on the unbuffered channel Lines.  A dying
\* tail goes on reading: StopAtEOF is the only way this program stops one.
SendLine(t) ==
    /\ tl[t].pc = "send"
    /\ tl' = [tl EXCEPT ![t].pc = "read", ![t].pos = EndOfLine(t),
                        ![t].lines = Append(@, [ino |-> tl[t].fd, from |-> tl[t].pos])]
    /\ UNCHANGED <<fileVars, kernelVars, trackerVars, run, wg, missed>>

\* waitForChanges, one disjunct per case of its select.
Changed(t) ==
    /\ tl[t].pc = "select"
    /\ tl[t].changes.Modified
    /\ tl' = [tl EXCEPT ![t].pc = "read", ![t].changes.Modified = FALSE]
    /\ UNCHANGED <<fileVars, kernelVars, trackerVars, run, wg, missed>>

Moved(t) ==
    /\ tl[t].pc = "select"
    /\ \/ /\ tl[t].changes.Deleted
          /\ tl' = [tl EXCEPT ![t].pc = "reopen", ![t].fd = 0, ![t].watching = FALSE,
                              ![t].changes = NoChanges]
       \/ /\ tl[t].changes.Truncated
          /\ tl' = [tl EXCEPT ![t].pc = "reopen", ![t].fd = 0,
                              ![t].changes.Truncated = FALSE]
    /\ CloseFile(t)
    /\ UNCHANGED <<fileVars, trackerVars, run, wg, missed>>

Dying(t) ==
    /\ tl[t].pc = "select"
    /\ tl[t].dying
    /\ tl' = [tl EXCEPT ![t].pc = "close"]
    /\ UNCHANGED <<fileVars, kernelVars, trackerVars, run, wg, missed>>

\* The deferred close and Done: Lines is closed, and the tomb is dying if it
\* was not before.
CloseTail(t) ==
    /\ tl[t].pc = "close"
    /\ tl' = [tl EXCEPT ![t].pc = "done", ![t].fd = 0, ![t].dying = TRUE]
    /\ CloseFile(t)
    /\ UNCHANGED <<fileVars, trackerVars, run, wg, missed>>

KillIgnored(t) == tl

\* StopAtEOF kills the tail; its caller then waits for "done".
Killed(t) == [tl EXCEPT ![t].dying = TRUE]

StopAtEOF(t) ==
    /\ ~tl[t].dying
    /\ tl' = Killed(t)
    /\ UNCHANGED <<fileVars, kernelVars, trackerVars, run, wg, missed>>

-----------------------------------------------------------------------------
\* Files as the jobs left them, and a tracker that watches nothing.
LibraryInit ==
    /\ cur = [f \in Files |-> Len(inodes[f])]
    /\ kwatch = [f \in Files |-> 0]
    /\ events = <<>>
    /\ chans = [f \in Files |-> 0]
    /\ done = [f \in Files |-> 0]
    /\ watchNums = [f \in Files |-> 0]
    /\ dirNums = 0
    /\ run = Idle
    /\ wg = [t \in Tails |-> NoGoroutine]
    /\ missed = {} /\ failed = {} /\ replaced = {}

\* A file that is followed may be there before, all but its last byte.
TailInit ==
    /\ path \in [Tails -> Files]
    /\ inodes \in [Files -> {<<>>} \union {<<[size |-> MaxSize - 1, link |-> TRUE]>>}]
    /\ \A f \in Files : Followers(f) = {} => inodes[f] = <<>>
    /\ LibraryInit
    /\ tl = [t \in Tails |-> NewTail]
    /\ ops = 0

FileStep(f) ==
    \/ AppendByte(f) \/ CreateFile(f) \/ TruncateFile(f)
    \/ UnlinkFile(f) \/ RenameFile(f)

RunStep ==
    \/ RunEvent \/ RunGiveUp
    \/ \E t \in Tails : RunWatchCreate(t) \/ RunRemoveCreate(t)
                        \/ RunWatch(t) \/ RunRemove(t)

WatchStep(t) ==
    GetEvents(t) \/ WatchReceive(t) \/ WatchEnd(t) \/ WatchStat(t) \/ Unwatch(t)

\* What tailFileSync does on its own; SendLine needs a reader.
TailStep(t) ==
    \/ Reopen(t) \/ StatCreated(t) \/ BlockedReceive(t) \/ BlockedEnd(t)
    \/ UnwatchCreate(t) \/ ReadLine(t)
    \/ Changed(t) \/ Moved(t) \/ Dying(t) \/ CloseTail(t)

\* The library with a reader that takes every line.
TailNext ==
    \/ /\ ops < MaxOps
       /\ ops' = ops + 1
       /\ \E t \in Tails : FileStep(path[t]) \/ StopAtEOF(t)
    \/ /\ UNCHANGED ops
       /\ \/ RunStep
          \/ \E t \in Tails : WatchStep(t) \/ TailStep(t) \/ SendLine(t)

TailSpec == TailInit /\ [][TailNext]_<<tailVars, ops>>

-----------------------------------------------------------------------------
\* Types, with the reference counts of the tracker, which count one watch of
\* each tail at most: a count left behind would keep a watch for ever.
TailTypeOK ==
    /\ path \in [Tails -> Files]
    /\ cur \in [Files -> 0 .. MaxInodes] /\ kwatch \in [Files -> 0 .. MaxInodes]
    /\ watchNums \in [Files -> 0 .. Cardinality(Tails)]
    /\ dirNums \in 0 .. Cardinality(Tails)
    /\ run.f \in Files \union {"none"}

\* A line that is complete, in the inode the tail has open.
Unread(t) ==
    tl[t].fd # 0 /\ EndOfLine(t) <= inodes[path[t]][tl[t].fd].size

\* The tail waits and nothing that would wake it is under way.
Asleep(t) ==
    /\ tl[t].pc = "select"
    /\ tl[t].changes = NoChanges /\ ~tl[t].dying
    /\ wg[t].pc \in {"receive", "none"}
    /\ \A i \in DOMAIN events : events[i].f # path[t]
    /\ run.f # path[t]

\* A tail sleeps on a complete line only if the line was written in the gap
\* between the end of the file and the inotify watch, the file was replaced,
\* or another tail follows the same file (they share one channel).
UnreadNeedsGap ==
    \A t \in Tails :
        Asleep(t) /\ Unread(t) =>
            \/ t \in missed
            \/ path[t] \in replaced
            \/ Cardinality(Followers(path[t])) > 1

\* The lines of a file that is never replaced are handed over whole, each
\* once and in order, however the writes and the reads interleave.
LinesIntact ==
    \A t \in Tails :
        path[t] \notin replaced =>
            \A i \in DOMAIN tl[t].lines :
                tl[t].lines[i] = [ino |-> 1, from |-> LineLen * (i - 1)]

\* A tail that nobody stopped ends only if its file was replaced, or if it
\* waited for its file to appear together with another tail, which closed
\* the channel they share when it was served first.
EndNeedsStop ==
    [][\A t \in Tails :
         tl[t].pc # "done" /\ tl'[t].pc = "done" =>
            \/ tl[t].dying
            \/ path[t] \in replaced
            \/ Cardinality(Followers(path[t])) > 1]_tl

\* Somebody who will receive on a channel of the file or close its done.
Attends(t) ==
    \/ wg[t].pc \in {"events", "stat", "unwatch"}
    \/ wg[t].pc = "receive" /\ (wg[t].ch # 0 \/ tl[t].dying)
    \/ tl[t].pc \in {"stat", "unwatchCreate"}
    \/ tl[t].pc = "blocked" /\ (tl[t].ch # 0 \/ tl[t].dying)

\* The tracker's only goroutine never blocks for good in sendEvent, which
\* would hang every tail, unless a failed addWatch left channels behind that
\* nobody attends to.
RunNotStuck ==
    run # Idle /\ run.done = done[run.f] =>
        \/ \E t \in Followers(run.f) : Attends(t)
        \/ run.f \in failed
=============================================================================
