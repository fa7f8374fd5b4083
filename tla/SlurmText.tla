------------------------------ MODULE SlurmText ------------------------------
(***************************************************************************)
(* Text as the two parsers of the bridge see it: the sbatch script parser  *)
(* of the operator and the parsers of Slurm's output in the agent. A text  *)
(* is a sequence of tokens; a token is a run of digits, one of the         *)
(* separators the parsers look for, or a word they do not look into.       *)
(***************************************************************************)
EXTENDS Integers, Sequences, SequencesExt

Token == [word : STRING, num : Nat]

Num(n) == [word |-> "", num |-> n]
Word(w) == [word |-> w, num |-> 0]

Dash == Word("-")
Colon == Word(":")
Comma == Word(",")
Percent == Word("%")
Unlimited == Word("UNLIMITED")

IsNum(token) == token.word = ""

(* strings.Split: the parts of s between the occurrences of sep. *)
Split(s, sep) ==
  FoldLeft(LAMBDA parts, token : IF token = sep THEN Append(parts, <<>>)
                                 ELSE [parts EXCEPT ![Len(parts)] = Append(@, token)],
           <<<<>>>>, s)

(* s[:i] and s[i+1:] at the first occurrence of sep, by strings.IndexByte. *)
FirstAt(s, sep) == CHOOSE i \in 1..Len(s) : s[i] = sep /\ \A k \in 1..(i - 1) : s[k] # sep
Before(s, sep) == SubSeq(s, 1, FirstAt(s, sep) - 1)
After(s, sep) == SubSeq(s, FirstAt(s, sep) + 1, Len(s))

Parsed(n) == [ok |-> TRUE, value |-> n]
NotParsed == [ok |-> FALSE, value |-> 0]

(* strconv.Itoa, and strconv.ParseInt and Atoi: digits with an optional sign;
   on an error the value is 0. *)
Itoa(n) == IF n < 0 THEN <<Dash, Num(-n)>> ELSE <<Num(n)>>
ParseInt(s) ==
  IF Len(s) = 1 /\ IsNum(s[1]) THEN Parsed(s[1].num)
  ELSE IF Len(s) = 2 /\ s[1] = Dash /\ IsNum(s[2]) THEN Parsed(-s[2].num)
  ELSE NotParsed

\* Durations in seconds.
Minute == 60
Hour == 60 * Minute
Day == 24 * Hour

Duration(n) == [kind |-> "duration", value |-> n]
ErrDurationIsUnlimited == [kind |-> "unlimited", value |-> 0]
InvalidDuration == [kind |-> "invalid", value |-> 0]

(* What the numbers of a duration count, by how many parts it has and whether
   the first part has a dash. *)
(* Mutation: hours and minutes without seconds, after days. *)
UnitsMinutesFirst(days, parts) ==
  IF days THEN <<Day, Minute, 1, 1>>
  ELSE SubSeq(<<Hour, Minute, 1>>, 4 - parts, 3)

Units(days, parts) ==
  CASE days -> <<Day, Hour, Minute, 1>>
    [] ~days /\ parts = 1 -> <<Minute>>
    [] ~days /\ parts = 2 -> <<Minute, 1>>
    [] ~days /\ parts > 2 -> <<Hour, Minute, 1>>

\* The sum of the numbers in their units; an error when one is no number.
InUnits(units, numbers) ==
  IF \E i \in DOMAIN numbers : ~ParseInt(numbers[i]).ok THEN InvalidDuration
  ELSE Duration(FoldLeftDomain(LAMBDA sum, i : sum + units[i] * ParseInt(numbers[i]).value,
                               0, numbers))

\* The parts between the colons; a dash in the first one ends the days.
PartsDuration(parts) ==
  CASE Len(parts) > 3 -> InvalidDuration
    [] Len(parts) <= 3 /\ Contains(parts[1], Dash) ->
         InUnits(Units(TRUE, Len(parts)),
               <<Before(parts[1], Dash), After(parts[1], Dash)>> \o Tail(parts))
    [] OTHER -> InUnits(Units(FALSE, Len(parts)), parts)

ParseDuration(s) ==
  IF s \in {<<>>, <<Unlimited>>} THEN ErrDurationIsUnlimited
  ELSE PartsDuration(Split(s, Colon))

-----------------------------------------------------------------------------
(* The capacity of a virtual node, from the hosts of its partition; memory is
   in megabytes in Slurm, and there may be a pod for every CPU. *)
GetPartitionCapacity(nodes) ==
  LET Sum(field) == FoldLeft(LAMBDA sum, n : sum + n[field], 0, nodes)
  IN  [cpu |-> Sum("Cpus"), memory |-> Sum("Memory") * 2 * 1024, pods |-> Sum("Cpus")]
=============================================================================
