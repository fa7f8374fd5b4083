------------------------------ MODULE LogStream ------------------------------
(***************************************************************************)
(* How a log reaches kubectl: the kubelet's GetContainerLogs opens either  *)
(* one TailFile stream (kubectl logs -f of a job that is not finished) or  *)
(* an OpenFile stream per log file; the agent serves TailFile from a       *)
(* common/tail Reader on top of LogTail, and OpenFile from the file.       *)
(*                                                                         *)
(* A stream is named by its tail.  The client of TailFile is any gRPC      *)
(* client: the kubelet never sends a second request, the contract of the   *)
(* agent lets others do so.                                                *)
(***************************************************************************)
EXTENDS LogTail

CONSTANTS StdOut, StdErr, \* the log files of each stream's job, perhaps the same
          Requesters,     \* bound: the clients that ask for the end or go away
          Starts          \* bound: [asks, sizes]: what kubectl asks for on which
                          \* streams, and the files that are there before

VARIABLES
    req,     \* req[t]: what GetContainerLogs was asked and did
    reader,  \* reader[t]: common/tail Reader and its goroutine readTail
    handler, \* handler[t]: the handler Slurm.TailFile
    second,  \* second[t]: the goroutine of TailFile that receives one more request
    client,  \* client[t]: the other end of the TailFile stream
    open,    \* open[t][i]: the handler Slurm.OpenFile of the i-th log file
    out      \* out[t]: OpenFileReader, or the reader of the TailFile stream

streamVars == <<req, reader, handler, second, client, open, out>>

Chunk == 2 \* bytes, or lines, that fit a buffer of 128 bytes

LogFiles(t) == IF StdOut[t] = StdErr[t] THEN <<StdOut[t]>> ELSE <<StdOut[t], StdErr[t]>>

TailActions == {"Start", "ReadToEndAndClose"}

\* What the status message of a pod holds: nothing yet, the text of an
\* error, or the JobInfo records with the status of the first one.
Messages == {"", "text", "RUNNING", "PENDING", "COMPLETED", "UNKNOWN"}

ASSUME StreamAssumption ==
    /\ StdOut \in [Tails -> Files] /\ StdErr \in [Tails -> Files]
    /\ Requesters \subseteq Tails
    /\ \A s \in Starts :
         /\ DOMAIN s.asks \subseteq Tails
         /\ \A t \in DOMAIN s.asks : s.asks[t] \in [follow : BOOLEAN, message : Messages]
         /\ \A f \in DOMAIN s.sizes : s.sizes[f] \in Nat

isSlurmJobFinished(status) == status \notin {"RUNNING", "PENDING"}

NewReader == [pc |-> "none", line |-> <<>>, buff |-> <<>>, isClosed |-> FALSE]
NewHandler == [pc |-> "none", chunk |-> <<>>, err |-> "nil"]
NewClient == [sent |-> "none", gone |-> FALSE, got |-> <<>>, size |-> 0]
NewOpen == [pc |-> "none", fd |-> 0, pos |-> 0, sent |-> <<>>]
NewOut == [readIndex |-> 1, buff |-> <<>>, got |-> <<>>, err |-> "nil"]

-----------------------------------------------------------------------------
(* The kubelet.                                                             *)

\* The bytes that a name holds now.
NameSize(f) == IF cur[f] = 0 THEN 0 ELSE inodes[f][cur[f]].size

\* GetContainerLogs takes the job from the status message, whatever the job
\* does now, and always its first record.
GetContainerLogs(t) ==
    LET m == req[t].message
        tailing == req[t].follow /\ ~isSlurmJobFinished(m)
    IN
    /\ req[t].mode = "new"
    /\ \/ /\ m \in {"", "text"}
          /\ req' = [req EXCEPT ![t].mode = "error", ![t].message = ""]
          /\ UNCHANGED <<handler, open>>
       \/ /\ m \notin {"", "text"} /\ tailing
          /\ req' = [req EXCEPT ![t].mode = "tail", ![t].message = ""]
          /\ handler' = [handler EXCEPT ![t].pc = "start"]
          /\ UNCHANGED open
       \/ /\ m \notin {"", "text"} /\ ~tailing
          /\ req' = [req EXCEPT ![t].mode = "open", ![t].message = "", ![t].sizes =
                        [i \in DOMAIN LogFiles(t) |-> NameSize(LogFiles(t)[i])]]
          /\ open' = [open EXCEPT ![t] =
                        [i \in DOMAIN LogFiles(t) |-> [NewOpen EXCEPT !.pc = "open"]]]
          /\ UNCHANGED handler
    /\ UNCHANGED <<tailVars, reader, second, client, out>>

\* OpenFileReader.Read into one byte: the rest of the last chunk first, then
\* the next chunk of the current stream; the end of a stream that is not
\* the last one moves on to the next stream.
NextChunk(t) == open[t][out[t].readIndex]

LastStream(t) == out[t].readIndex = Len(LogFiles(t))

TakeChunk(rest) == <<>>

TakeByte(rest) == Tail(rest)

OpenFileRead(t) ==
    LET o == NextChunk(t)
        data == IF out[t].buff # <<>> THEN out[t].buff ELSE Head(o.sent)
    IN
    /\ req[t].mode = "open" /\ out[t].err = "nil"
    /\ \/ /\ out[t].buff # <<>> \/ o.sent # <<>>
          /\ out' = [out EXCEPT ![t].buff = TakeByte(data), ![t].got = Append(@, Head(data))]
          /\ open' = IF out[t].buff # <<>> THEN open
                     ELSE [open EXCEPT ![t][out[t].readIndex].sent = Tail(@)]
       \/ /\ out[t].buff = <<>> /\ o.sent = <<>>
          /\ o.pc \in {"EOF", "error"}
          /\ out' = IF o.pc = "EOF" /\ ~LastStream(t)
                    THEN [out EXCEPT ![t].readIndex = @ + 1]
                    ELSE [out EXCEPT ![t].err = o.pc]
          /\ UNCHANGED open
    /\ UNCHANGED <<tailVars, req, reader, handler, second, client>>

-----------------------------------------------------------------------------
(* The agent's OpenFile.                                                    *)

OpenFile(t, i) ==
    LET f == LogFiles(t)[i] IN
    /\ req[t].mode = "open" /\ open[t][i].pc = "open"
    /\ open' = [open EXCEPT ![t][i].fd = cur[f],
                            ![t][i].pc = IF cur[f] = 0 THEN "error" ELSE "read"]
    /\ UNCHANGED <<tailVars, req, reader, handler, second, client, out>>

OpenFileSend(t, i) ==
    LET f == LogFiles(t)[i]
        o == open[t][i]
        end == IF inodes[f][o.fd].size < o.pos + Chunk THEN inodes[f][o.fd].size
               ELSE o.pos + Chunk
    IN
    /\ req[t].mode = "open" /\ o.pc = "read"
    /\ open' = IF end <= o.pos THEN [open EXCEPT ![t][i].pc = "EOF"]
               ELSE [open EXCEPT ![t][i].pos = end,
                       ![t][i].sent = Append(@, [b \in 1 .. end - o.pos |-> <<f, o.pos + b - 1>>])]
    /\ UNCHANGED <<tailVars, req, reader, handler, second, client, out>>

-----------------------------------------------------------------------------
(* The agent's Reader.                                                      *)

\* readTail receives a line from Lines, then writes it to the buffer.
ReaderReceive(t) ==
    /\ reader[t].pc = "receive"
    /\ SendLine(t)
    /\ reader' = [reader EXCEPT ![t].pc = "write", ![t].line = <<tl'[t].lines[Len(tl'[t].lines)]>>]
    /\ UNCHANGED <<req, handler, second, client, open, out>>

ReaderWrite(t) ==
    /\ reader[t].pc = "write"
    /\ reader' = [reader EXCEPT ![t].pc = "receive", ![t].buff = @ \o reader[t].line,
                                ![t].line = <<>>]
    /\ UNCHANGED <<tailVars, req, handler, second, client, open, out>>

\* Lines is closed.
ReaderEnd(t) ==
    /\ reader[t].pc = "receive"
    /\ tl[t].pc = "done"
    /\ reader' = [reader EXCEPT ![t].pc = "end", ![t].isClosed = TRUE]
    /\ UNCHANGED <<tailVars, req, handler, second, client, open, out>>

-----------------------------------------------------------------------------
(* The agent's TailFile.                                                    *)

\* The first request: Client.Tail starts the tail, and a goroutine waits
\* for one more request.
HandlerStart(t) ==
    /\ handler[t].pc = "start"
    /\ handler' = [handler EXCEPT ![t].pc = "select"]
    /\ second' = [second EXCEPT ![t] = "receive"]
    /\ reader' = [reader EXCEPT ![t].pc = "receive"]
    /\ tl' = [tl EXCEPT ![t] = NewTail]
    /\ UNCHANGED <<fileVars, kernelVars, trackerVars, run, wg, missed, req, client, open, out>>

SecondReceive(t) ==
    /\ second[t] = "receive"
    /\ \/ client[t].sent # "none" /\ second' = [second EXCEPT ![t] = client[t].sent]
       \/ client[t].gone /\ second' = [second EXCEPT ![t] = "end"]
    /\ UNCHANGED <<tailVars, req, reader, handler, client, open, out>>

\* The handler takes the request off the unbuffered requestCh.  Close is
\* StopAtEOF, which returns when the tail is done.
HandlerRequest(t) ==
    /\ handler[t].pc = "select"
    /\ second[t] \in TailActions
    /\ second' = [second EXCEPT ![t] = "end"]
    /\ IF second[t] = "ReadToEndAndClose"
       THEN /\ handler' = [handler EXCEPT ![t].pc = "close"]
            /\ tl' = Killed(t)
       ELSE UNCHANGED <<handler, tl>>
    /\ UNCHANGED <<fileVars, kernelVars, trackerVars, run, wg, missed,
                   req, reader, client, open, out>>

HandlerClosed(t) ==
    /\ handler[t].pc = "close"
    /\ tl[t].pc = "done"
    /\ handler' = [handler EXCEPT ![t].pc = "select"]
    /\ UNCHANGED <<tailVars, req, reader, second, client, open, out>>

HandlerCancelled(t) ==
    /\ handler[t].pc = "select"
    /\ client[t].gone
    /\ handler' = [handler EXCEPT ![t].pc = "end", ![t].err = "cancelled"]
    /\ UNCHANGED <<tailVars, req, reader, second, client, open, out>>

KeepShort(buff, n) == IF n < Chunk THEN buff ELSE SubSeq(buff, n + 1, Len(buff))

\* What io.ReadFull leaves in the buffer.
Unconsumed(buff, n) == SubSeq(buff, n + 1, Len(buff))

\* A tick: Reader.Read copies the buffer under its mutex ...
HandlerRead(t) ==
    LET n == IF Len(reader[t].buff) < Chunk THEN Len(reader[t].buff) ELSE Chunk IN
    /\ handler[t].pc = "select"
    /\ handler' = [handler EXCEPT ![t].pc = IF n = Chunk THEN "send" ELSE "read",
                                  ![t].chunk = SubSeq(reader[t].buff, 1, n)]
    /\ reader' = [reader EXCEPT ![t].buff = Unconsumed(@, n)]
    /\ UNCHANGED <<tailVars, req, second, client, open, out>>

ShortIsEnd(t) == TRUE

AtEnd(t) == reader[t].isClosed

\* ... and looks at isClosed after it has released the mutex: a short read
\* is the end of the stream if the reader is closed by then.
HandlerReadDone(t) ==
    /\ handler[t].pc = "read"
    /\ handler' = IF handler[t].chunk # <<>> THEN [handler EXCEPT ![t].pc = "send"]
                  ELSE IF AtEnd(t)
                       THEN [handler EXCEPT ![t].pc = "end", ![t].err = "EOF"]
                       ELSE [handler EXCEPT ![t].pc = "select"]
    /\ UNCHANGED <<tailVars, req, reader, second, client, open, out>>

HandlerSend(t) ==
    /\ handler[t].pc = "send"
    /\ \/ /\ client' = [client EXCEPT ![t].got = @ \o handler[t].chunk]
          /\ handler' = [handler EXCEPT ![t].pc = "select", ![t].chunk = <<>>]
       \/ /\ client[t].gone
          /\ handler' = [handler EXCEPT ![t].pc = "end", ![t].err = "send"]
          /\ UNCHANGED client
    /\ UNCHANGED <<tailVars, req, reader, second, open, out>>

\* The client sends its second request, or goes away.
ClientRequest(t, action) ==
    /\ t \in Requesters
    /\ req[t].mode = "tail" /\ client[t].sent = "none" /\ ~client[t].gone
    /\ client' = [client EXCEPT ![t].sent = action,
                    ![t].size = NameSize(path[t])]
    /\ UNCHANGED <<tailVars, req, reader, handler, second, open, out>>

ClientGone(t) ==
    /\ t \in Requesters
    /\ req[t].mode = "tail" /\ ~client[t].gone
    /\ client' = [client EXCEPT ![t].gone = TRUE]
    /\ UNCHANGED <<tailVars, req, reader, handler, second, open, out>>

-----------------------------------------------------------------------------
\* What kubectl is about to ask for on a stream. A stream that it asks nothing
\* of has been refused before.
Asking(s, t) ==
    IF t \in DOMAIN s.asks
    THEN [mode |-> "new", follow |-> s.asks[t].follow, message |-> s.asks[t].message, sizes |-> <<>>]
    ELSE [mode |-> "error", follow |-> FALSE, message |-> "", sizes |-> <<>>]

\* Log files that are there before have one change left (bound).
StreamInit ==
    /\ \E s \in Starts :
         /\ req = [t \in Tails |-> Asking(s, t)]
         /\ inodes = [f \in Files |-> IF f \in DOMAIN s.sizes
                                      THEN <<[size |-> s.sizes[f], link |-> TRUE]>> ELSE <<>>]
    /\ ops = IF \A f \in Files : inodes[f] = <<>> THEN 0 ELSE MaxOps - 1
    /\ LibraryInit
    /\ path = StdOut
    /\ tl = [t \in Tails |-> [NewTail EXCEPT !.pc = "none"]]
    /\ reader = [t \in Tails |-> NewReader]
    /\ handler = [t \in Tails |-> NewHandler]
    /\ second = [t \in Tails |-> "none"]
    /\ client = [t \in Tails |-> NewClient]
    /\ open = [t \in Tails |-> <<>>]
    /\ out = [t \in Tails |-> NewOut]

\* The library, its lines taken by readTail.
LibraryStep ==
    /\ \/ RunStep
       \/ \E t \in Tails : WatchStep(t) \/ TailStep(t)
    /\ UNCHANGED streamVars

ReaderStep(t) == ReaderReceive(t) \/ ReaderWrite(t) \/ ReaderEnd(t)

HandlerStep(t) ==
    \/ HandlerStart(t) \/ HandlerClosed(t) \/ HandlerCancelled(t)
    \/ HandlerRead(t) \/ HandlerReadDone(t) \/ HandlerSend(t)

OpenStep(t) ==
    \/ OpenFileRead(t)
    \/ \E i \in DOMAIN open[t] : OpenFile(t, i) \/ OpenFileSend(t, i)

\* Only the files that some stream reads are changed.
Read(f) == \E t \in Tails : (f = StdOut[t] /\ req[t].mode # "error") \/ req[t].mode = "open"

StreamNext ==
    \/ /\ ops < MaxOps
       /\ ops' = ops + 1
       /\ \E f \in {f \in Files : Read(f)} : FileStep(f)
       /\ UNCHANGED streamVars
    \/ /\ UNCHANGED ops
       /\ \/ LibraryStep
          \/ \E t \in Tails :
                \/ GetContainerLogs(t) \/ OpenStep(t)
                \/ ReaderStep(t) \/ HandlerStep(t)
                \/ SecondReceive(t) \/ HandlerRequest(t)
                \/ ClientGone(t)
                \/ \E a \in TailActions : ClientRequest(t, a)

\* Goroutines that can run do; Go's select takes every case that keeps being
\* ready, so the handler takes the request, or notices that its client is gone,
\* although ticks are always ready. Of other clients there is no request and no
\* leaving to notice.
StreamFairness ==
    /\ WF_tailVars(LibraryStep)
    /\ \A t \in Tails :
         /\ WF_<<tailVars, streamVars>>(ReaderStep(t))
         /\ WF_<<tailVars, streamVars>>(HandlerStep(t))
    /\ \A t \in Requesters :
         /\ WF_<<tailVars, streamVars>>(SecondReceive(t))
         /\ SF_<<tailVars, streamVars>>(HandlerRequest(t))
         /\ SF_<<tailVars, streamVars>>(HandlerCancelled(t))

StreamSpec ==
    StreamInit /\ [][StreamNext]_<<tailVars, streamVars, ops>> /\ StreamFairness

-----------------------------------------------------------------------------
\* The client of TailFile sees whole lines of the file, each once and in
\* order, through the tail, readTail's buffer and the handler's chunks.
StreamPrefix ==
    \A t \in Tails :
        StdOut[t] \notin replaced =>
            \A i \in DOMAIN client[t].got :
                client[t].got[i] = [ino |-> 1, from |-> LineLen * (i - 1)]

\* "Read returns EOF error only after invoking Close": TailFile ends with EOF
\* only if its client asked for it, or the file was replaced (the tail cannot
\* watch a file that is gone, and when it waits for a new one the goroutine
\* that watched the old one may close the channel they share), or another
\* stream follows the file and closes that channel.
EofNeedsClose ==
    \A t \in Tails :
        handler[t].err = "EOF" =>
            \/ client[t].sent = "ReadToEndAndClose"
            \/ StdOut[t] \in replaced
            \/ \E u \in Tails \ {t} : StdOut[u] = StdOut[t] /\ req[u].mode = "tail"

\* A tail, its descriptor and its watch outlive their stream only if the
\* client went away.
LeakNeedsGone ==
    \A t \in Tails :
        handler[t].pc = "end" /\ tl[t].pc # "done" => client[t].gone

\* kubectl logs without -f: what has been read is the first n bytes of StdOut
\* and then the first bytes of StdErr, each byte once and in order. StdErr
\* follows only when StdOut has been read as far as it went when the logs were
\* asked for, and a clean end means the same of the last file; only files that
\* were replaced meanwhile may be shorter.
ArchiveExact ==
    \A t \in Tails :
        LET got == out[t].got IN
        \E n \in 0 .. Len(got) :
            /\ \A i \in DOMAIN got :
                  got[i] = IF i <= n THEN <<StdOut[t], i - 1>> ELSE <<StdErr[t], i - n - 1>>
            /\ n < Len(got) => StdOut[t] # StdErr[t]
            /\ (n < Len(got) \/ out[t].err = "EOF") /\ StdOut[t] \notin replaced =>
                  n >= req[t].sizes[1]
            /\ out[t].err = "EOF" /\ StdOut[t] # StdErr[t] /\ StdErr[t] \notin replaced =>
                  Len(got) - n >= req[t].sizes[2]

\* The tracker's goroutine blocks for good in sendEvent: a tail of another file
\* that was gone when it was to be watched has left channels behind.
TrackerHangs == run # Idle /\ run.done = done[run.f] /\ run.f \in failed

\* A client that asks the agent to read to the end gets the end of the stream:
\* Close kills the tail, which lets go of its watches wherever it is and ends.
\* Only when the tracker hangs the tail does not, for it waits for an answer to
\* RemoveWatchCreate, and Close and the handler wait for the tail.
CloseEnds ==
    \A t \in Requesters :
        (client[t].sent = "ReadToEndAndClose") ~> (handler[t].pc = "end" \/ []TrackerHangs)
=============================================================================
