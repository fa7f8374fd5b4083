---------------------------- MODULE MCLogStream ----------------------------
(* Instances of LogStream for TLC: the logs of one job in two files, asked for *)
(* in every way; or two jobs that run and are followed, each in its own file   *)
(* of one directory, of which the second is there.                             *)
EXTENDS LogStream

Outs == [t \in Tails |-> IF t = "t1" THEN "f1" ELSE "f2"]
Errs == [t \in Tails |-> "f2"]

Sizes == UNION {[S -> 0 .. MaxSize - 1] : S \in SUBSET Files}

\* The files of a job that is not finished are empty, or its output is nearly
\* full.
OneStream ==
  {[asks |-> [t \in {"t1"} |-> r], sizes |-> z] :
     r \in {q \in [follow : BOOLEAN, message : Messages] : isSlurmJobFinished(q.message)}, z \in Sizes}
  \cup {[asks |-> [t \in {"t1"} |-> [follow |-> b, message |-> m]], sizes |-> z] :
          b \in BOOLEAN, m \in {"RUNNING", "PENDING"}, z \in {<<>>, [f \in {"f1"} |-> MaxSize - 1]}}

TwoStreams ==
  {[asks |-> [t \in Tails |-> [follow |-> TRUE, message |-> "RUNNING"]], sizes |-> [f \in {"f2"} |-> 0]]}

MCStarts == OneStream \cup TwoStreams
=============================================================================
