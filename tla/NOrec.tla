------------------------------- MODULE NOrec -------------------------------
(***************************************************************************)
(* libstm/algs/norec.cpp: memory transactions over one sequence lock, with *)
(* validation by value.  timestamp is even while the lock is free.  A      *)
(* transaction reads at an even timestamp, logs the values in vlist, and   *)
(* reads all of them again whenever the timestamp has moved on.  Writes    *)
(* are buffered; to commit them it makes the timestamp odd, stores them,   *)
(* and makes it even again.                                                *)
(*                                                                         *)
(* A step makes at most one access to mem or timestamp.  An address is a   *)
(* word.  The value list and the write set are a set and a function here:  *)
(* the order in which entries are compared and stored is left open.        *)
(* irrevoc (81-97) is in TxThread.tla, with the isolation it relies on.    *)
(***************************************************************************)
EXTENDS Integers

CONSTANTS Thread, Loc, Val,
          NoVal, NoLoc, NoThread,   \* no value, address, thread
          InitialMemory             \* memory when the threads start

ASSUME NOrecAssumption ==
    /\ NoVal \notin Val /\ NoLoc \notin Loc /\ NoThread \notin Thread
    /\ InitialMemory \in [Loc -> Val]

VARIABLES mem,          \* the words that transactions access
          timestamp,    \* the sequence lock
          pc,           \* where thread t is
          start_time,   \* the timestamp at which t's log was valid
          vlist,        \* t's value list: what it read
          writes,       \* t's write set: writes[t][l], or NoVal
          addr,         \* the address t is reading, or NoLoc
          tmp,          \* the value t loaded from it
          s,            \* validate: the timestamp it started at
          unchecked,    \* validate: the entries not compared yet
          valid,        \* validate: FALSE once an entry differed
          result        \* what t's last read returned to the program

tmVars == <<mem, timestamp, pc, start_time, vlist, writes, addr, tmp, s, unchecked,
            valid, result>>
rest   == <<mem, timestamp, start_time, vlist, writes, s, unchecked, valid>>

Entry    == [addr : Loc, val : Val]
NoWrites == [l \in Loc |-> NoVal]
Even(n)  == n % 2 = 0

Place == {"idle", "live", "loaded", "reload", "acquire", "sample", "check", "writeback"}

Goto(t, place) == pc' = [pc EXCEPT ![t] = place]

\* The transaction is over, committed or not: nothing of it is kept.  (The code
\* leaves start_time as it is; begin sets it before it is used again.)
Reset(t) ==
    /\ Goto(t, "idle")
    /\ vlist'     = [vlist EXCEPT ![t] = {}]
    /\ writes'    = [writes EXCEPT ![t] = NoWrites]
    /\ addr'      = [addr EXCEPT ![t] = NoLoc]
    /\ tmp'       = [tmp EXCEPT ![t] = NoVal]
    /\ valid'     = [valid EXCEPT ![t] = TRUE]
    /\ unchecked' = [unchecked EXCEPT ![t] = {}]
    /\ result'    = [result EXCEPT ![t] = NoVal]
    /\ start_time' = [start_time EXCEPT ![t] = 0]
    /\ s'         = [s EXCEPT ![t] = 0]

TypeOK ==
    /\ mem        \in [Loc -> Val]
    /\ timestamp  \in Nat
    /\ pc         \in [Thread -> Place]
    /\ start_time \in [Thread -> Nat]
    /\ vlist      \in [Thread -> SUBSET Entry]
    /\ writes     \in [Thread -> [Loc -> Val \cup {NoVal}]]
    /\ addr       \in [Thread -> Loc \cup {NoLoc}]
    /\ tmp        \in [Thread -> Val \cup {NoVal}]
    /\ s          \in [Thread -> Nat]
    /\ unchecked  \in [Thread -> SUBSET Entry]
    /\ valid      \in [Thread -> BOOLEAN]
    /\ result     \in [Thread -> Val \cup {NoVal}]

Init ==
    /\ mem = InitialMemory
    /\ timestamp = 0
    /\ pc = [t \in Thread |-> "idle"]
    /\ start_time = [t \in Thread |-> 0]
    /\ vlist = [t \in Thread |-> {}]
    /\ writes = [t \in Thread |-> NoWrites]
    /\ addr = [t \in Thread |-> NoLoc]
    /\ tmp = [t \in Thread |-> NoVal]
    /\ s = [t \in Thread |-> 0]
    /\ unchecked = [t \in Thread |-> {}]
    /\ valid = [t \in Thread |-> TRUE]
    /\ result = [t \in Thread |-> NoVal]

-----------------------------------------------------------------------------
\* Mutant of Begin: no rounding.
BeginUnrounded(t) ==
    /\ pc[t] = "idle"
    /\ Goto(t, "live")
    /\ start_time' = [start_time EXCEPT ![t] = timestamp]
    /\ UNCHANGED <<mem, timestamp, vlist, writes, addr, tmp, s, unchecked, valid, result>>

\* begin: an odd timestamp is rounded down.
Begin(t) ==
    /\ pc[t] = "idle"
    /\ Goto(t, "live")
    /\ start_time' = [start_time EXCEPT ![t] = timestamp - (timestamp % 2)]
    /\ UNCHANGED <<mem, timestamp, vlist, writes, addr, tmp, s, unchecked, valid, result>>

\* read_rw: a location in the write set is read from there.
ReadOwn(t, l) ==
    /\ pc[t] = "live"
    /\ writes[t][l] # NoVal
    /\ result' = [result EXCEPT ![t] = writes[t][l]]
    /\ UNCHANGED <<rest, pc, addr, tmp>>

\* read_ro: load the word first...
Load(t, l) ==
    /\ pc[t] = "live"
    /\ writes[t][l] = NoVal
    /\ addr' = [addr EXCEPT ![t] = l]
    /\ tmp' = [tmp EXCEPT ![t] = mem[l]]
    /\ Goto(t, "loaded")
    /\ UNCHANGED <<rest, result>>

\* ...then see that no transaction committed in the meantime: log and return it...
ReadReturns(t) ==
    /\ pc[t] = "loaded"
    /\ start_time[t] = timestamp
    /\ vlist' = [vlist EXCEPT ![t] = @ \cup {[addr |-> addr[t], val |-> tmp[t]]}]
    /\ result' = [result EXCEPT ![t] = tmp[t]]
    /\ addr' = [addr EXCEPT ![t] = NoLoc]
    /\ tmp' = [tmp EXCEPT ![t] = NoVal]
    /\ Goto(t, "live")
    /\ UNCHANGED <<mem, timestamp, start_time, writes, s, unchecked, valid>>

\* ...or one did: validate...
ReadStale(t) ==
    /\ pc[t] = "loaded"
    /\ start_time[t] # timestamp
    /\ Goto(t, "sample")
    /\ UNCHANGED <<rest, addr, tmp, result>>

\* ...and load the word again.
Reload(t) ==
    /\ pc[t] = "reload"
    /\ tmp' = [tmp EXCEPT ![t] = mem[addr[t]]]
    /\ Goto(t, "loaded")
    /\ UNCHANGED <<rest, addr, result>>

Write(t, l, v) ==
    /\ pc[t] = "live"
    /\ writes' = [writes EXCEPT ![t][l] = v]
    /\ UNCHANGED <<mem, timestamp, pc, start_time, vlist, addr, tmp, s, unchecked,
                   valid, result>>

-----------------------------------------------------------------------------
\* Mutant of Sample: does not wait for an even timestamp.
SampleOdd(t) ==
    /\ pc[t] = "sample"
    /\ s' = [s EXCEPT ![t] = timestamp]
    /\ unchecked' = [unchecked EXCEPT ![t] = vlist[t]]
    /\ Goto(t, "check")
    /\ UNCHANGED <<mem, timestamp, start_time, vlist, writes, addr, tmp, valid, result>>

\* validate: wait for an even timestamp.
Sample(t) ==
    /\ pc[t] = "sample"
    /\ Even(timestamp)
    /\ s' = [s EXCEPT ![t] = timestamp]
    /\ unchecked' = [unchecked EXCEPT ![t] = vlist[t]]
    /\ Goto(t, "check")
    /\ UNCHANGED <<mem, timestamp, start_time, vlist, writes, addr, tmp, valid, result>>

\* Compare one entry with memory; a difference does not end the loop.
CheckEntry(t) ==
    /\ pc[t] = "check"
    /\ \E e \in unchecked[t] :
        /\ unchecked' = [unchecked EXCEPT ![t] = @ \ {e}]
        /\ valid' = [valid EXCEPT ![t] = @ /\ mem[e.addr] = e.val]
    /\ UNCHANGED <<mem, timestamp, pc, start_time, vlist, writes, addr, tmp, s, result>>

\* An entry differed: roll back; the program starts the transaction again.
Rollback(t) ==
    /\ pc[t] = "check" /\ unchecked[t] = {}
    /\ ~valid[t]
    /\ Reset(t)
    /\ UNCHANGED <<mem, timestamp>>

\* A transaction committed during the comparison: compare again.
Revalidate(t) ==
    /\ pc[t] = "check" /\ unchecked[t] = {}
    /\ valid[t] /\ timestamp # s[t]
    /\ s' = [s EXCEPT ![t] = 0]
    /\ Goto(t, "sample")
    /\ UNCHANGED <<mem, timestamp, start_time, vlist, writes, addr, tmp, unchecked, valid, result>>

\* Mutant of Validated: does not look at the timestamp again.
ValidatedAtOnce(t) ==
    /\ pc[t] = "check" /\ unchecked[t] = {}
    /\ valid[t]
    /\ start_time' = [start_time EXCEPT ![t] = timestamp]
    /\ s' = [s EXCEPT ![t] = 0]
    /\ Goto(t, IF addr[t] # NoLoc THEN "reload" ELSE "acquire")
    /\ UNCHANGED <<mem, timestamp, vlist, writes, addr, tmp, unchecked, valid, result>>

\* Mutant of Validated: its answer is not kept.
ValidatedForgotten(t) ==
    /\ pc[t] = "check" /\ unchecked[t] = {}
    /\ valid[t] /\ timestamp = s[t]
    /\ s' = [s EXCEPT ![t] = 0]
    /\ Goto(t, IF addr[t] # NoLoc THEN "reload" ELSE "acquire")
    /\ UNCHANGED <<mem, timestamp, start_time, vlist, writes, addr, tmp, unchecked, valid, result>>

\* The log is valid at s: back to the read or the commit that asked.
Validated(t) ==
    /\ pc[t] = "check" /\ unchecked[t] = {}
    /\ valid[t] /\ timestamp = s[t]
    /\ start_time' = [start_time EXCEPT ![t] = s[t]]
    /\ s' = [s EXCEPT ![t] = 0]
    /\ Goto(t, IF addr[t] # NoLoc THEN "reload" ELSE "acquire")
    /\ UNCHANGED <<mem, timestamp, vlist, writes, addr, tmp, unchecked, valid, result>>

-----------------------------------------------------------------------------
\* commit_ro: all reads were consistent and there are no writes.
CommitReadOnly(t) ==
    /\ pc[t] = "live"
    /\ writes[t] = NoWrites
    /\ Reset(t)
    /\ UNCHANGED <<mem, timestamp>>

\* commit_rw: the compare-and-swap of the timestamp fails...
CommitStale(t) ==
    /\ pc[t] \in {"live", "acquire"}
    /\ writes[t] # NoWrites
    /\ timestamp # start_time[t]
    /\ Goto(t, "sample")
    /\ UNCHANGED <<rest, addr, tmp, result>>

\* ...or succeeds, which makes the timestamp odd...
Acquire(t) ==
    /\ pc[t] \in {"live", "acquire"}
    /\ writes[t] # NoWrites
    /\ timestamp = start_time[t]
    /\ timestamp' = start_time[t] + 1
    /\ Goto(t, "writeback")
    /\ UNCHANGED <<mem, start_time, vlist, writes, addr, tmp, s, unchecked, valid, result>>

\* ...one write is stored...
WriteBack(t, l) ==
    /\ pc[t] = "writeback"
    /\ writes[t][l] # NoVal
    /\ mem' = [mem EXCEPT ![l] = writes[t][l]]
    /\ writes' = [writes EXCEPT ![t][l] = NoVal]
    /\ UNCHANGED <<timestamp, pc, start_time, vlist, addr, tmp, s, unchecked, valid, result>>

\* Mutant of Release: before the stores are made.
ReleaseEarly(t) ==
    /\ pc[t] = "writeback"
    /\ timestamp' = start_time[t] + 2
    /\ Reset(t)
    /\ UNCHANGED mem

\* ...and after the last one the timestamp is made even.
Release(t) ==
    /\ pc[t] = "writeback"
    /\ writes[t] = NoWrites
    /\ timestamp' = start_time[t] + 2
    /\ Reset(t)
    /\ UNCHANGED mem

-----------------------------------------------------------------------------
\* The steps of a read or a commit that was begun, and the choices of the program.
Proceed(t) ==
    \/ ReadReturns(t) \/ ReadStale(t) \/ Reload(t)
    \/ Sample(t) \/ CheckEntry(t) \/ Rollback(t) \/ Revalidate(t) \/ Validated(t)
    \/ CommitReadOnly(t) \/ CommitStale(t) \/ Acquire(t) \/ Release(t)
    \/ \E l \in Loc : WriteBack(t, l)

Access(t) ==
    \E l \in Loc : ReadOwn(t, l) \/ Load(t, l) \/ \E v \in Val : Write(t, l, v)

Next == \E t \in Thread : Begin(t) \/ Proceed(t) \/ Access(t)

Spec == Init /\ [][Next]_tmVars
=============================================================================
