---------------------------- MODULE StateSearch ----------------------------
(***************************************************************************)
(* timestamp_to_sequence of utils/server.py: the search for the last state *)
(* of a replication server before a timestamp, by requests for the state   *)
(* files of single sequence numbers.  Some files are missing; requests may *)
(* also fail for the moment, which the code cannot tell apart.             *)
(*                                                                         *)
(* A state is represented by its sequence number.                          *)
(***************************************************************************)
EXTENDS Integers

CONSTANTS Last,     \* the sequence number of the latest state
          MaxTime   \* bound on timestamps

ASSUME SearchAssumption ==
  Last \in Nat /\ MaxTime \in Nat

VARIABLES times,    \* the timestamp of each state
          missing,  \* the states without a file
          flaky,    \* may requests fail though the file is there
          target,   \* the parameter `timestamp'
          pc,       \* the request that comes next
          upper, lower, lowerid,
          result

server == <<times, missing, flaky, target>>
vars == <<server, pc, upper, lower, lowerid, result>>

None == -1
SeqId == 0..Last

Init ==
  /\ times \in {t \in [SeqId -> 0..MaxTime] : \A s \in 1..Last : t[s - 1] <= t[s]}
  /\ missing \in SUBSET SeqId
  /\ flaky \in BOOLEAN
  /\ target \in 0..MaxTime
  /\ pc = "latest"
  /\ upper = None /\ lower = None /\ lowerid = 0 /\ result = None

\* The states that the next requests can read.
Readable ==
  LET published == SeqId \ missing
  IN  IF flaky THEN SUBSET published ELSE {published}

Return(seq) == pc' = "done" /\ result' = seq

----------------------------------------------------------------------------
(* The latest state, from a file of its own.                               *)

LatestFails ==
  /\ flaky /\ pc = "latest"
  /\ Return(None)
  /\ UNCHANGED <<server, upper, lower, lowerid>>

LatestSuffices ==
  /\ pc = "latest" /\ (target >= times[Last] \/ Last <= 0)
  /\ Return(Last)
  /\ upper' = Last
  /\ UNCHANGED <<server, lower, lowerid>>

TakeLatest ==
  /\ pc = "latest" /\ target < times[Last] /\ Last > 0
  /\ pc' = "lower"
  /\ upper' = Last
  /\ UNCHANGED <<server, lower, lowerid, result>>

----------------------------------------------------------------------------
(* A state before the timestamp: id 0, then half way up again and again.   *)

\* Mutant: the upper bound is taken for the first id out of reach.
TryHigherOrNext(id, up) ==
  LET newid == (id + up) \div 2
  IN  IF newid <= id THEN Return(up + 1) /\ UNCHANGED lowerid
      ELSE lowerid' = newid /\ UNCHANGED <<pc, result>>

\* Mutant: it is not noticed that there is no higher id.
TryHigherForever(id, up) ==
  lowerid' = (id + up) \div 2 /\ UNCHANGED <<pc, result>>

\* Go on with a higher id than `id', below `up'.
TryHigher(id, up) ==
  LET newid == (id + up) \div 2
  IN  IF newid <= id THEN Return(up) /\ UNCHANGED lowerid
      ELSE lowerid' = newid /\ UNCHANGED <<pc, result>>

FoundLower ==
  /\ pc = "lower"
  /\ \E readable \in Readable : lowerid \in readable
  /\ times[lowerid] < target
  /\ lower' = lowerid
  /\ pc' = "split"
  /\ UNCHANGED <<server, upper, lowerid, result>>

\* A state that is not before the timestamp is the new upper bound.
FoundUpper ==
  /\ pc = "lower"
  /\ \E readable \in Readable : lowerid \in readable
  /\ times[lowerid] >= target
  /\ IF lowerid = 0 \/ lowerid + 1 >= upper
     THEN Return(lowerid) /\ UNCHANGED <<upper, lowerid>>
     ELSE upper' = lowerid /\ TryHigher(0, lowerid)
  /\ UNCHANGED <<server, lower>>

NotFound ==
  /\ pc = "lower"
  /\ \E readable \in Readable : lowerid \notin readable
  /\ TryHigher(lowerid, upper)
  /\ UNCHANGED <<server, upper, lower>>

----------------------------------------------------------------------------
(* The search between the bounds.                                          *)

\* Mutant: the interpolation may hit the upper bound.
BaseUncapped ==
  LET ts_int == times[upper] - times[lower]
  IN  lower + ((target - times[lower]) * (upper - lower) + ts_int - 1) \div ts_int

\* The interpolated id, rounded up and kept below the upper bound.
Base ==
  LET ts_int == times[upper] - times[lower]
      id     == lower + ((target - times[lower]) * (upper - lower) + ts_int - 1)
                        \div ts_int
  IN  IF id >= upper THEN upper - 1 ELSE id

\* The first state of those readable: at the base, towards lower, towards upper.
IsSplit(split, readable) ==
  LET below == {s \in readable : s = Base \/ (lower < s /\ s < Base)}
      above == {s \in readable : Base < s /\ s < upper}
  IN  \/ split \in below /\ \A s \in below : s <= split
      \/ below = {} /\ split \in above /\ \A s \in above : split <= s

\* Mutant: an equal timestamp moves the lower bound.
NarrowToEqual(split) ==
  IF times[split] <= target
  THEN lower' = split /\ UNCHANGED upper
  ELSE upper' = split /\ UNCHANGED lower

Narrow(split) ==
  IF times[split] < target
  THEN lower' = split /\ UNCHANGED upper
  ELSE upper' = split /\ UNCHANGED lower

Split ==
  /\ pc = "split"
  /\ \E readable \in Readable : \E split \in readable :
       /\ IsSplit(split, readable)
       /\ Narrow(split)
  /\ IF lower' + 1 >= upper' THEN Return(lower') ELSE UNCHANGED <<pc, result>>
  /\ UNCHANGED <<server, lowerid>>

\* Nothing can be read between the bounds: "Then lower has to do".
NoSplit ==
  /\ pc = "split"
  /\ \E readable \in Readable : \A split \in readable : ~IsSplit(split, readable)
  /\ Return(lower)
  /\ UNCHANGED <<server, upper, lower, lowerid>>

Step ==
  \/ LatestFails \/ LatestSuffices \/ TakeLatest
  \/ FoundLower \/ FoundUpper \/ NotFound
  \/ Split \/ NoSplit

Stopped == pc = "done" /\ UNCHANGED vars

Next == Step \/ Stopped

Spec == Init /\ [][Next]_vars /\ WF_vars(Step)

----------------------------------------------------------------------------
(* Properties.                                                             *)

\* Types of the variables.
TypeOK ==
  /\ times \in [SeqId -> 0..MaxTime]
  /\ missing \subseteq SeqId
  /\ flaky \in BOOLEAN
  /\ target \in 0..MaxTime
  /\ pc \in {"latest", "lower", "split", "done"}
  /\ upper \in SeqId \cup {None}
  /\ lower \in SeqId \cup {None}
  /\ lowerid \in SeqId
  /\ result \in SeqId \cup {None}

\* The bounds always enclose the timestamp, so the interpolation never divides
\* by zero and never asks for a state that the server cannot have.
Brackets ==
  /\ pc = "lower" => lowerid < upper /\ target <= times[upper]
  /\ pc = "split" =>
       /\ lower < upper /\ times[lower] < target /\ target <= times[upper]
       /\ lower <= Base /\ Base < upper

\* When requests do not fail and the server has its first state file, the search
\* finds the last state it has a file of before the timestamp, whichever other
\* files are missing (0 when there is none, the latest when it is not later).
Earlier == {s \in SeqId \ missing : times[s] < target}

Exact ==
  pc = "done" /\ ~flaky /\ 0 \notin missing =>
    IF target >= times[Last] THEN result = Last
    ELSE IF Earlier = {} THEN result = 0
    ELSE result \in Earlier /\ \A s \in Earlier : s <= result

\* The search ends, whatever is missing or fails.
Ends == <>(pc = "done")

\* "The sequence number of the replication file that contains the given
\* timestamp", or an earlier one: the file before it does not go beyond it.
ContainsTimestamp ==
  pc = "done" /\ result > 0 => times[result - 1] <= target
=============================================================================
