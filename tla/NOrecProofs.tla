----------------------------- MODULE NOrecProofs -----------------------------
(* Theorems about the transactions of NOrec.tla, for any threads, locations and *)
(* values.                                                                      *)
EXTENDS NOrecProperties, TLAPS

-----------------------------------------------------------------------------
(* Parity *)

LEMMA EvenOdd == ASSUME NEW n \in Nat PROVE Even(n) <=> ~Even(n + 1)
BY DEF Even

LEMMA EvenGap == ASSUME NEW m \in Nat, NEW n \in Nat, Even(m), Even(n), m < n
                 PROVE  m + 1 < n
BY DEF Even

LEMMA Rounding ==
    ASSUME NEW n \in Nat
    PROVE  /\ n - (n % 2) \in Nat /\ Even(n - (n % 2)) /\ n - (n % 2) <= n
           /\ n - (n % 2) = n => Even(n)
BY DEF Even

LEMMA Before == ASSUME NEW m \in Nat, NEW n \in Nat, m <= n, m # n PROVE m < n
OBVIOUS

LEMMA ZeroEven == Even(0)
BY DEF Even

-----------------------------------------------------------------------------
(* The inductive invariant *)

\* Where thread t's transaction is, and what its fields then hold.  Validation
\* starts only when the timestamp has moved past start_time, and samples a later one.
Control(t) ==
    /\ Even(start_time[t]) /\ start_time[t] <= timestamp
    /\ Even(s[t]) /\ s[t] <= timestamp
    /\ pc[t] = "sample" => start_time[t] < timestamp
    /\ pc[t] = "check" => start_time[t] < s[t]
    /\ pc[t] \in {"loaded", "reload"} => addr[t] # NoLoc
    /\ pc[t] = "loaded" => tmp[t] # NoVal
    /\ addr[t] # NoLoc => writes[t][addr[t]] = NoVal
    /\ pc[t] \in {"idle", "live", "acquire", "writeback"} => addr[t] = NoLoc
    /\ ~valid[t] => pc[t] = "check"
    /\ unchecked[t] \subseteq vlist[t]
    /\ pc[t] = "idle" => vlist[t] = {} /\ writes[t] = NoWrites /\ result[t] = NoVal

Snapshot(t) ==
    Alive(t) /\ start_time[t] = timestamp =>
        /\ Holds(vlist[t])
        /\ pc[t] = "loaded" => tmp[t] = mem[addr[t]]

Compared(t) ==
    pc[t] = "check" /\ valid[t] /\ s[t] = timestamp => Holds(vlist[t] \ unchecked[t])

ThreadInv(t) == Control(t) /\ Snapshot(t) /\ Compared(t)

IInv == TypeOK /\ OneWriter /\ \A t \in Thread : ThreadInv(t)

LEMMA InitInv == Init => IInv
<1> SUFFICES ASSUME Init PROVE IInv
    OBVIOUS
<1>1. TypeOK
    BY NOrecAssumption DEF Init, TypeOK, Place, Entry, NoWrites
<1>2. OneWriter
    BY ZeroEven DEF Init, OneWriter
<1>3. ASSUME NEW t \in Thread PROVE ThreadInv(t)
    BY <1>3, ZeroEven DEF Init, ThreadInv, Control, Snapshot, Compared, Alive, Holds
<1> QED
    BY <1>1, <1>2, <1>3 DEF IInv

-----------------------------------------------------------------------------
(* Typing: one fact per action *)

LEMMA ResetTyped ==
    ASSUME TypeOK, NEW t \in Thread, Reset(t), mem' = mem, timestamp' \in Nat
    PROVE  TypeOK'
BY DEF Reset, Goto, TypeOK, Place, Entry, NoWrites

\* In a read that loaded its word, the entry it will log is an entry.
LEMMA LoadedEntry ==
    ASSUME IInv, NEW t \in Thread, pc[t] = "loaded"
    PROVE  addr[t] \in Loc /\ tmp[t] \in Val
BY DEF IInv, ThreadInv, Control, TypeOK

LEMMA StepTyped == ASSUME IInv, [Next]_tmVars PROVE TypeOK'
<1> TypeOK
    BY DEF IInv
<1> USE DEF TypeOK, Place, Entry, Goto, rest
<1>1. CASE UNCHANGED tmVars
    BY <1>1 DEF tmVars
<1>2. ASSUME NEW t \in Thread, Begin(t) PROVE TypeOK'
    BY <1>2, Rounding DEF Begin
<1>3. ASSUME NEW t \in Thread, Proceed(t) PROVE TypeOK'
  <2>1. CASE ReadReturns(t)
      BY <2>1, LoadedEntry DEF ReadReturns
  <2>2. CASE ReadStale(t)
      BY <2>2 DEF ReadStale
  <2>3. CASE Reload(t)
    <3>1. addr[t] \in Loc
        BY <2>3 DEF Reload, IInv, ThreadInv, Control
    <3> QED
        BY <2>3, <3>1 DEF Reload
  <2>4. CASE Sample(t)
      BY <2>4 DEF Sample
  <2>5. CASE CheckEntry(t)
      BY <2>5 DEF CheckEntry
  <2>6. CASE Rollback(t)
      BY <2>6, ResetTyped DEF Rollback
  <2>7. CASE Revalidate(t)
      BY <2>7 DEF Revalidate
  <2>8. CASE Validated(t)
      BY <2>8 DEF Validated
  <2>9. CASE CommitReadOnly(t)
      BY <2>9, ResetTyped DEF CommitReadOnly
  <2>10. CASE CommitStale(t)
      BY <2>10 DEF CommitStale
  <2>11. CASE Acquire(t)
      BY <2>11 DEF Acquire
  <2>12. CASE Release(t)
      BY <2>12, ResetTyped DEF Release
  <2>13. ASSUME NEW l \in Loc, WriteBack(t, l) PROVE TypeOK'
      BY <2>13 DEF WriteBack
  <2> QED
      BY <1>3, <2>1, <2>2, <2>3, <2>4, <2>5, <2>6, <2>7, <2>8, <2>9, <2>10, <2>11,
         <2>12, <2>13 DEF Proceed
<1>4. ASSUME NEW t \in Thread, Access(t) PROVE TypeOK'
  <2>1. ASSUME NEW l \in Loc, ReadOwn(t, l) PROVE TypeOK'
      BY <2>1 DEF ReadOwn
  <2>2. ASSUME NEW l \in Loc, Load(t, l) PROVE TypeOK'
      BY <2>2 DEF Load
  <2>3. ASSUME NEW l \in Loc, NEW v \in Val, Write(t, l, v) PROVE TypeOK'
      BY <2>3 DEF Write
  <2> QED
      BY <1>4, <2>1, <2>2, <2>3 DEF Access
<1> QED
    BY <1>1, <1>2, <1>3, <1>4 DEF Next

-----------------------------------------------------------------------------
(* What a step does to the other threads *)

\* Thread t's own fields are as they were.
Same(t) ==
    /\ pc'[t] = pc[t] /\ start_time'[t] = start_time[t] /\ vlist'[t] = vlist[t]
    /\ writes'[t] = writes[t] /\ addr'[t] = addr[t] /\ tmp'[t] = tmp[t]
    /\ s'[t] = s[t] /\ unchecked'[t] = unchecked[t] /\ valid'[t] = valid[t]
    /\ result'[t] = result[t]

\* Memory changes only under an odd timestamp, and a timestamp never comes back.
Clock ==
    \/ timestamp' = timestamp /\ mem' = mem
    \/ timestamp' = timestamp /\ ~Even(timestamp)
    \/ timestamp' \in Nat /\ timestamp < timestamp' /\ mem' = mem

\* So what a thread knows of its log outlives every step of another.
LEMMA Undisturbed ==
    ASSUME TypeOK, NEW t \in Thread, ThreadInv(t), Same(t), Clock
    PROVE  ThreadInv(t)'
<1>1. Control(t)'
    BY DEF ThreadInv, Control, Same, Clock, TypeOK
<1>2. CASE mem' = mem /\ timestamp' = timestamp
  <2>1. Snapshot(t)' /\ Compared(t)'
      BY <1>2 DEF ThreadInv, Snapshot, Compared, Alive, Holds, Same
  <2> QED
      BY <1>1, <2>1 DEF ThreadInv
<1>3. CASE ~(mem' = mem /\ timestamp' = timestamp)
  <2>1. start_time'[t] # timestamp' /\ s'[t] # timestamp'
      BY <1>3 DEF ThreadInv, Control, Same, Clock, TypeOK
  <2> QED
      BY <1>1, <2>1 DEF ThreadInv, Snapshot, Compared
<1> QED
    BY <1>2, <1>3

\* A step of u is one that leaves the others alone.
StepOf(u) == Begin(u) \/ Proceed(u) \/ Access(u)

LEMMA OthersSame ==
    ASSUME TypeOK, NEW u \in Thread, StepOf(u), NEW t \in Thread, t # u
    PROVE  Same(t)
<1> USE DEF TypeOK, Goto, rest, Same
<1>1. CASE Begin(u)
    BY <1>1 DEF Begin
<1>2. CASE Proceed(u)
  <2>1. CASE ReadReturns(u)
      BY <2>1 DEF ReadReturns
  <2>2. CASE ReadStale(u)
      BY <2>2 DEF ReadStale
  <2>3. CASE Reload(u)
      BY <2>3 DEF Reload
  <2>4. CASE Sample(u)
      BY <2>4 DEF Sample
  <2>5. CASE CheckEntry(u)
      BY <2>5 DEF CheckEntry
  <2>6. CASE Rollback(u)
      BY <2>6 DEF Rollback, Reset
  <2>7. CASE Revalidate(u)
      BY <2>7 DEF Revalidate
  <2>8. CASE Validated(u)
      BY <2>8 DEF Validated
  <2>9. CASE CommitReadOnly(u)
      BY <2>9 DEF CommitReadOnly, Reset
  <2>10. CASE CommitStale(u)
      BY <2>10 DEF CommitStale
  <2>11. CASE Acquire(u)
      BY <2>11 DEF Acquire
  <2>12. CASE Release(u)
      BY <2>12 DEF Release, Reset
  <2>13. ASSUME NEW l \in Loc, WriteBack(u, l) PROVE Same(t)
      BY <2>13 DEF WriteBack
  <2> QED
      BY <1>2, <2>1, <2>2, <2>3, <2>4, <2>5, <2>6, <2>7, <2>8, <2>9, <2>10, <2>11,
         <2>12, <2>13 DEF Proceed
<1>3. CASE Access(u)
    BY <1>3 DEF Access, ReadOwn, Load, Write
<1> QED
    BY <1>1, <1>2, <1>3 DEF StepOf

-----------------------------------------------------------------------------
(* What a step does to its own thread *)

LEMMA WriterStart ==
    ASSUME IInv, NEW u \in Thread, pc[u] = "writeback"
    PROVE  ~Even(timestamp) /\ timestamp = start_time[u] + 1
BY DEF IInv, OneWriter

LEMMA StepClock ==
    ASSUME IInv, NEW u \in Thread, StepOf(u) PROVE Clock
<1> USE DEF IInv, TypeOK
<1>1. CASE Begin(u)
    BY <1>1 DEF Begin, Clock
<1>2. CASE Proceed(u)
  <2>1. CASE Acquire(u)
      BY <2>1 DEF Acquire, Clock
  <2>2. CASE Release(u)
      BY <2>2, WriterStart DEF Release, Clock
  <2>3. ASSUME NEW l \in Loc, WriteBack(u, l) PROVE Clock
      BY <2>3, WriterStart DEF WriteBack, Clock
  <2> QED
      BY <1>2, <2>1, <2>2, <2>3 DEF Proceed, ReadReturns, ReadStale, Reload, Sample,
         CheckEntry, Rollback, Revalidate, Validated, CommitReadOnly, CommitStale, rest,
         Clock
<1>3. CASE Access(u)
    BY <1>3 DEF Access, ReadOwn, Load, Write, rest, Clock
<1> QED
    BY <1>1, <1>2, <1>3 DEF StepOf

\* A transaction that is over knows nothing, which is always true.
LEMMA ResetInv ==
    ASSUME TypeOK, NEW t \in Thread, Reset(t), timestamp' \in Nat PROVE ThreadInv(t)'
<1>1. /\ pc'[t] = "idle" /\ vlist'[t] = {} /\ writes'[t] = NoWrites /\ addr'[t] = NoLoc
      /\ valid'[t] = TRUE /\ unchecked'[t] = {} /\ result'[t] = NoVal
      /\ start_time'[t] = 0 /\ s'[t] = 0
    BY DEF Reset, Goto, TypeOK
<1>2. Control(t)'
    BY <1>1, ZeroEven DEF Control
<1>3. Snapshot(t)' /\ Compared(t)'
    BY <1>1 DEF Snapshot, Compared, Alive
<1> QED
    BY <1>2, <1>3 DEF ThreadInv

LEMMA BeginInv ==
    ASSUME IInv, NEW t \in Thread, Begin(t) PROVE ThreadInv(t)'
<1> USE DEF IInv, TypeOK
<1>1. /\ pc'[t] = "live" /\ start_time'[t] = timestamp - (timestamp % 2)
      /\ vlist'[t] = {} /\ valid'[t] /\ writes'[t] = NoWrites /\ addr'[t] = NoLoc
      /\ s'[t] = s[t] /\ unchecked'[t] = unchecked[t] /\ timestamp' = timestamp
    BY DEF Begin, Goto, ThreadInv, Control
<1>2. Control(t)'
    BY <1>1, Rounding DEF Begin, ThreadInv, Control
<1>3. Snapshot(t)' /\ Compared(t)'
    BY <1>1 DEF Snapshot, Compared, Holds
<1> QED
    BY <1>2, <1>3 DEF ThreadInv

LEMMA ReadReturnsInv ==
    ASSUME IInv, NEW t \in Thread, ReadReturns(t) PROVE ThreadInv(t)'
<1> USE DEF IInv, TypeOK
<1> DEFINE e == [addr |-> addr[t], val |-> tmp[t]]
<1>1. /\ pc[t] = "loaded" /\ pc'[t] = "live" /\ vlist'[t] = vlist[t] \cup {e}
      /\ addr'[t] = NoLoc /\ mem' = mem /\ timestamp' = timestamp
      /\ start_time' = start_time /\ start_time[t] = timestamp /\ writes' = writes
      /\ s' = s /\ unchecked' = unchecked /\ valid' = valid
    BY DEF ReadReturns, Goto
<1>2. e.addr = addr[t] /\ e.val = tmp[t]
    OBVIOUS
<1> HIDE DEF e
<1>3. Control(t)'
    BY <1>1 DEF ThreadInv, Control
<1>4. Holds(vlist[t]) /\ tmp[t] = mem[addr[t]]
    BY <1>1 DEF ThreadInv, Control, Snapshot, Alive
<1>5. Holds(vlist[t])'
    BY <1>1, <1>2, <1>4 DEF Holds
<1>6. Snapshot(t)' /\ Compared(t)'
    BY <1>1, <1>5 DEF Snapshot, Compared
<1> QED
    BY <1>3, <1>6 DEF ThreadInv

LEMMA ReadStaleInv ==
    ASSUME IInv, NEW t \in Thread, ReadStale(t) PROVE ThreadInv(t)'
<1> USE DEF IInv, TypeOK
<1>1. /\ pc[t] = "loaded" /\ pc'[t] = "sample" /\ start_time[t] # timestamp
      /\ UNCHANGED <<mem, timestamp, start_time, vlist, writes, s, unchecked, valid, addr>>
    BY DEF ReadStale, Goto, rest
<1>2. Control(t)
    BY DEF ThreadInv
<1>3. start_time[t] < timestamp
    BY <1>1, <1>2, Before DEF Control
<1>4. valid'[t]
    BY <1>1, <1>2, Zenon DEF Control
<1>5. Control(t)'
    BY <1>1, <1>2, <1>3, <1>4 DEF Control
<1>6. Snapshot(t)' /\ Compared(t)'
    BY <1>1 DEF ThreadInv, Snapshot, Compared, Alive, Holds
<1> QED
    BY <1>5, <1>6 DEF ThreadInv

LEMMA ReloadInv ==
    ASSUME IInv, NEW t \in Thread, Reload(t) PROVE ThreadInv(t)'
<1> USE DEF IInv, TypeOK
<1>1. /\ pc[t] = "reload" /\ pc'[t] = "loaded" /\ tmp'[t] = mem[addr[t]]
      /\ UNCHANGED <<rest, addr, result>>
    BY DEF Reload, Goto
<1>2. addr[t] \in Loc
    BY <1>1 DEF ThreadInv, Control
<1>3. tmp'[t] # NoVal
    BY <1>1, <1>2, NOrecAssumption
<1>4. Control(t)'
    BY <1>1, <1>3 DEF ThreadInv, Control, rest
<1>5. Snapshot(t)' /\ Compared(t)'
    BY <1>1 DEF ThreadInv, Snapshot, Compared, Alive, Holds, rest
<1> QED
    BY <1>4, <1>5 DEF ThreadInv

LEMMA SampleInv ==
    ASSUME IInv, NEW t \in Thread, Sample(t) PROVE ThreadInv(t)'
<1> USE DEF IInv, TypeOK
<1>1. /\ pc[t] = "sample" /\ pc'[t] = "check" /\ s'[t] = timestamp /\ Even(timestamp)
      /\ unchecked'[t] = vlist[t] /\ vlist' = vlist /\ addr' = addr /\ writes' = writes
      /\ mem' = mem /\ timestamp' = timestamp /\ start_time' = start_time /\ valid' = valid
    BY DEF Sample, Goto
<1>2. Control(t)'
    BY <1>1 DEF ThreadInv, Control
<1>3. Snapshot(t)' /\ Compared(t)'
    BY <1>1 DEF ThreadInv, Control, Snapshot, Compared, Holds
<1> QED
    BY <1>2, <1>3 DEF ThreadInv

LEMMA CheckEntryInv ==
    ASSUME IInv, NEW t \in Thread, CheckEntry(t) PROVE ThreadInv(t)'
<1> USE DEF IInv, TypeOK
<1>1. PICK e \in unchecked[t] :
          /\ unchecked' = [unchecked EXCEPT ![t] = @ \ {e}]
          /\ valid' = [valid EXCEPT ![t] = @ /\ mem[e.addr] = e.val]
    BY DEF CheckEntry
<1>2. /\ pc[t] = "check" /\ pc' = pc /\ vlist' = vlist /\ addr' = addr /\ writes' = writes
      /\ mem' = mem /\ timestamp' = timestamp /\ start_time' = start_time /\ s' = s
      /\ unchecked'[t] = unchecked[t] \ {e}
    BY <1>1 DEF CheckEntry
<1>3. valid'[t] => valid[t] /\ mem[e.addr] = e.val
    BY <1>1, Zenon
<1>4. Control(t)'
    BY <1>2 DEF ThreadInv, Control
<1>5. Snapshot(t)' /\ Compared(t)'
    BY <1>2, <1>3 DEF ThreadInv, Control, Snapshot, Compared, Holds
<1> QED
    BY <1>4, <1>5 DEF ThreadInv

LEMMA RevalidateInv ==
    ASSUME IInv, NEW t \in Thread, Revalidate(t) PROVE ThreadInv(t)'
<1> USE DEF IInv, TypeOK
<1>1. /\ pc[t] = "check" /\ pc'[t] = "sample" /\ s'[t] = 0 /\ timestamp # s[t] /\ valid[t]
      /\ UNCHANGED <<mem, timestamp, start_time, vlist, writes, addr, unchecked, valid>>
    BY DEF Revalidate, Goto
<1>2. Control(t)'
    BY <1>1, ZeroEven DEF ThreadInv, Control
<1>3. Snapshot(t)' /\ Compared(t)'
    BY <1>1 DEF ThreadInv, Control, Snapshot, Compared, Holds
<1> QED
    BY <1>2, <1>3 DEF ThreadInv

LEMMA ValidatedInv ==
    ASSUME IInv, NEW t \in Thread, Validated(t) PROVE ThreadInv(t)'
<1> USE DEF IInv, TypeOK
<1>1. /\ pc[t] = "check" /\ pc'[t] = IF addr[t] # NoLoc THEN "reload" ELSE "acquire"
      /\ unchecked[t] = {} /\ valid[t] /\ timestamp = s[t]
      /\ start_time'[t] = s[t] /\ s'[t] = 0
      /\ UNCHANGED <<mem, timestamp, vlist, writes, addr, unchecked, valid>>
    BY DEF Validated, Goto
<1>2. Control(t)'
    BY <1>1, ZeroEven DEF ThreadInv, Control
<1>3. Holds(vlist[t])
    BY <1>1 DEF ThreadInv, Compared, Holds
<1>4. Snapshot(t)' /\ Compared(t)'
    BY <1>1, <1>3 DEF Snapshot, Compared, Holds
<1> QED
    BY <1>2, <1>4 DEF ThreadInv

LEMMA CommitStaleInv ==
    ASSUME IInv, NEW t \in Thread, CommitStale(t) PROVE ThreadInv(t)'
<1> USE DEF IInv, TypeOK
<1>1. /\ pc[t] \in {"live", "acquire"} /\ pc'[t] = "sample" /\ start_time[t] # timestamp
      /\ UNCHANGED <<mem, timestamp, start_time, vlist, writes, s, unchecked, valid, addr>>
    BY DEF CommitStale, Goto, rest
<1>2. Control(t)
    BY DEF ThreadInv
<1>3. start_time[t] < timestamp
    BY <1>1, <1>2, Before DEF Control
<1>4. valid'[t]
    BY <1>1, <1>2, Zenon DEF Control
<1>5. Control(t)'
    BY <1>1, <1>2, <1>3, <1>4 DEF Control
<1>6. Snapshot(t)' /\ Compared(t)'
    BY <1>1 DEF ThreadInv, Snapshot, Compared, Alive, Holds
<1> QED
    BY <1>5, <1>6 DEF ThreadInv

LEMMA AcquireInv ==
    ASSUME IInv, NEW t \in Thread, Acquire(t) PROVE ThreadInv(t)'
<1> USE DEF IInv, TypeOK
<1>1. /\ pc[t] \in {"live", "acquire"} /\ pc'[t] = "writeback" /\ timestamp' = timestamp + 1
      /\ start_time[t] = timestamp
      /\ UNCHANGED <<mem, start_time, vlist, writes, addr, s, unchecked, valid>>
    BY DEF Acquire, Goto
<1>2. Control(t)'
    BY <1>1 DEF ThreadInv, Control
<1>3. Snapshot(t)' /\ Compared(t)'
    BY <1>1 DEF Snapshot, Compared, Alive
<1> QED
    BY <1>2, <1>3 DEF ThreadInv

LEMMA WriteBackInv ==
    ASSUME IInv, NEW t \in Thread, NEW l \in Loc, WriteBack(t, l) PROVE ThreadInv(t)'
<1> USE DEF IInv, TypeOK
<1>1. /\ pc[t] = "writeback" /\ pc' = pc
      /\ UNCHANGED <<timestamp, start_time, vlist, addr, s, unchecked, valid>>
    BY DEF WriteBack
<1>2. Control(t)'
    BY <1>1 DEF ThreadInv, Control
<1>3. Snapshot(t)' /\ Compared(t)'
    BY <1>1 DEF Snapshot, Compared, Alive
<1> QED
    BY <1>2, <1>3 DEF ThreadInv

LEMMA AccessInv ==
    ASSUME IInv, NEW t \in Thread, Access(t) PROVE ThreadInv(t)'
<1> USE DEF IInv, TypeOK
<1>1. ASSUME NEW l \in Loc, ReadOwn(t, l) PROVE ThreadInv(t)'
  <2>1. UNCHANGED <<rest, pc, addr, tmp>> /\ pc[t] = "live"
      BY <1>1 DEF ReadOwn
  <2> QED
      BY <2>1 DEF rest, ThreadInv, Control, Snapshot, Compared, Alive, Holds
<1>2. ASSUME NEW l \in Loc, Load(t, l) PROVE ThreadInv(t)'
  <2>1. /\ pc[t] = "live" /\ pc'[t] = "loaded" /\ writes[t][l] = NoVal
        /\ addr'[t] = l /\ tmp'[t] = mem[l] /\ UNCHANGED rest
      BY <1>2 DEF Load, Goto
  <2>2. l # NoLoc /\ mem[l] # NoVal
      BY NOrecAssumption
  <2>3. Control(t)'
      BY <2>1, <2>2 DEF rest, ThreadInv, Control
  <2>4. Snapshot(t)' /\ Compared(t)'
      BY <2>1 DEF rest, ThreadInv, Control, Snapshot, Compared, Alive, Holds
  <2> QED
      BY <2>3, <2>4 DEF ThreadInv
<1>3. ASSUME NEW l \in Loc, NEW v \in Val, Write(t, l, v) PROVE ThreadInv(t)'
  <2>1. /\ pc[t] = "live"
        /\ UNCHANGED <<mem, timestamp, pc, start_time, vlist, addr, tmp, s, unchecked, valid>>
      BY <1>3 DEF Write
  <2> QED
      BY <2>1 DEF ThreadInv, Control, Snapshot, Compared, Alive, Holds
<1> QED
    BY <1>1, <1>2, <1>3 DEF Access

LEMMA OwnInv == ASSUME IInv, NEW t \in Thread, StepOf(t) PROVE ThreadInv(t)'
<1> USE DEF IInv, TypeOK
<1>1. CASE Begin(t)
    BY <1>1, BeginInv
<1>2. CASE Proceed(t)
  <2>1. CASE Rollback(t) \/ CommitReadOnly(t)
      BY <2>1, ResetInv DEF Rollback, CommitReadOnly
  <2>2. CASE Release(t)
      BY <2>2, ResetInv DEF Release
  <2> QED
      BY <1>2, <2>1, <2>2, ReadReturnsInv, ReadStaleInv, ReloadInv, SampleInv, CheckEntryInv,
         RevalidateInv, ValidatedInv, CommitStaleInv, AcquireInv, WriteBackInv DEF Proceed
<1>3. CASE Access(t)
    BY <1>3, AccessInv
<1> QED
    BY <1>1, <1>2, <1>3 DEF StepOf

\* Only Acquire enters "writeback", only Release leaves it, and both move the timestamp.
LEMMA StepOneWriter ==
    ASSUME IInv, NEW u \in Thread, StepOf(u) PROVE OneWriter'
<1> USE DEF IInv, TypeOK
<1>1. \A t \in Thread : t # u => pc'[t] = pc[t] /\ start_time'[t] = start_time[t]
    BY OthersSame DEF Same
<1>2. CASE Acquire(u)
  <2>1. /\ pc'[u] = "writeback" /\ timestamp' = timestamp + 1 /\ start_time' = start_time
        /\ start_time[u] = timestamp /\ Even(timestamp)
      BY <1>2 DEF Acquire, Goto, ThreadInv, Control
  <2>2. \A t \in Thread : pc[t] # "writeback"
      BY <2>1 DEF OneWriter
  <2>3. ~Even(timestamp')
      BY <2>1, EvenOdd
  <2> QED
      BY <1>1, <2>1, <2>2, <2>3 DEF OneWriter
<1>3. CASE Release(u)
  <2>1. /\ pc[u] = "writeback" /\ pc'[u] = "idle" /\ timestamp' = timestamp + 1
        /\ ~Even(timestamp)
      BY <1>3, WriterStart DEF Release, Reset, Goto
  <2>2. \A t \in Thread : pc'[t] # "writeback"
      BY <1>1, <2>1 DEF OneWriter
  <2>3. Even(timestamp')
      BY <2>1, EvenOdd
  <2> QED
      BY <2>2, <2>3 DEF OneWriter
<1>4. CASE ~Acquire(u) /\ ~Release(u)
  <2>1. /\ timestamp' = timestamp
        /\ pc'[u] = "writeback" <=> pc[u] = "writeback"
        /\ pc[u] = "writeback" => start_time'[u] = start_time[u]
    <3>1. CASE Begin(u)
        BY <3>1 DEF Begin, Goto
    <3>2. CASE Proceed(u)
      <4>1. CASE Rollback(u) \/ CommitReadOnly(u)
          BY <4>1 DEF Rollback, CommitReadOnly, Reset, Goto
      <4>2. CASE ~(Rollback(u) \/ CommitReadOnly(u))
          BY <1>4, <3>2, <4>2 DEF Proceed, ReadReturns, ReadStale, Reload, Sample, CheckEntry,
             Revalidate, Validated, CommitStale, WriteBack, Goto, rest
      <4> QED
          BY <4>1, <4>2
    <3>3. CASE Access(u)
        BY <3>3 DEF Access, ReadOwn, Load, Write, Goto, rest
    <3> QED
        BY <3>1, <3>2, <3>3 DEF StepOf
  <2> QED
      BY <1>1, <2>1 DEF OneWriter
<1> QED
    BY <1>2, <1>3, <1>4

LEMMA StepInv == ASSUME IInv, [Next]_tmVars PROVE IInv'
<1>1. TypeOK'
    BY StepTyped
<1>2. CASE UNCHANGED tmVars
    BY <1>1, <1>2 DEF tmVars, IInv, OneWriter, ThreadInv, Control, Snapshot, Compared, Alive, Holds
<1>3. ASSUME NEW u \in Thread, StepOf(u) PROVE IInv'
  <2>1. OneWriter'
      BY <1>3, StepOneWriter
  <2>2. ASSUME NEW t \in Thread PROVE ThreadInv(t)'
      BY <1>3, <2>2, OwnInv, OthersSame, StepClock, Undisturbed DEF IInv
  <2> QED
      BY <1>1, <2>1, <2>2 DEF IInv
<1> QED
    BY <1>2, <1>3 DEF Next, StepOf

THEOREM Invariance == Spec => []IInv
<1>1. Init => IInv
    BY InitInv
<1>2. IInv /\ [Next]_tmVars => IInv'
    BY StepInv
<1> QED
    BY <1>1, <1>2, PTL DEF Spec

-----------------------------------------------------------------------------
(* The properties the runs check *)

\* Every variable keeps its type; timestamps are never negative.
THEOREM Typing == Spec => []TypeOK
<1>1. IInv => TypeOK
    BY DEF IInv
<1> QED
    BY <1>1, Invariance, PTL

\* The sequence lock excludes: at most one thread stores its writes at a time.
THEOREM Exclusion == Spec => []OneWriter
<1>1. IInv => OneWriter
    BY DEF IInv
<1> QED
    BY <1>1, Invariance, PTL

\* What a live transaction has read is a snapshot of memory while nobody committed.
THEOREM Snapshots == Spec => []LogIsSnapshot
<1>1. IInv => LogIsSnapshot
    BY DEF IInv, ThreadInv, Snapshot, LogIsSnapshot
<1> QED
    BY <1>1, Invariance, PTL

\* Comparing entry by entry is as good as comparing all of them at once.
THEOREM Comparison == Spec => []ComparedHold
<1>1. IInv => ComparedHold
    BY DEF IInv, ThreadInv, Compared, ComparedHold
<1> QED
    BY <1>1, Invariance, PTL

\* No transaction is rolled back unless another committed since it last validated.
THEOREM AbortsAreLate == Spec => AbortMeansCommit
<1>1. IInv => RollbackIsLate
  <2> SUFFICES ASSUME IInv, NEW t \in Thread, Rollback(t) PROVE start_time[t] < timestamp - 1
      BY DEF RollbackIsLate
  <2>1. Even(start_time[t]) /\ Even(s[t]) /\ start_time[t] < s[t] /\ s[t] <= timestamp
      BY DEF Rollback, IInv, ThreadInv, Control
  <2>2. start_time[t] + 1 < s[t]
      BY <2>1, EvenGap DEF IInv, TypeOK
  <2> QED
      BY <2>1, <2>2 DEF IInv, TypeOK
<1> QED
    BY <1>1, Invariance, PTL DEF AbortMeansCommit

-----------------------------------------------------------------------------
(* The transactions of NOrec.tla implement those of WordTM.tla. *)


-----------------------------------------------------------------------------
(* The mapping, one thread at a time *)

LEMMA OwnerIsWriter ==
    ASSUME OneWriter, NEW t \in Thread, pc[t] = "writeback" PROVE Owner = t
BY DEF OneWriter, Owner

LEMMA EvenIsFree == ASSUME OneWriter, Even(timestamp) PROVE Owner = NoThread
BY DEF OneWriter, Owner

\* The owner changes only when a thread starts or ends its stores.
LEMMA OwnerKept ==
    ASSUME \A t \in Thread : pc'[t] = "writeback" <=> pc[t] = "writeback"
    PROVE  Owner' = Owner
<1>1. (\E t \in Thread : pc'[t] = "writeback") <=> \E t \in Thread : pc[t] = "writeback"
    OBVIOUS
<1>2. (CHOOSE t \in Thread : pc'[t] = "writeback")
          = CHOOSE t \in Thread : pc[t] = "writeback"
    BY Zenon
<1> QED
    BY <1>1, <1>2 DEF Owner

\* Thread t's transaction looks the same after the step.
Unseen(t) ==
    /\ Alive(t)' <=> Alive(t)
    /\ SeenLog(t)' = SeenLog(t)
    /\ SeenResult(t)' = SeenResult(t)
    /\ SeenWrites(t)' = SeenWrites(t)

LEMMA OthersUnseen ==
    ASSUME IInv, NEW u \in Thread, StepOf(u), NEW t \in Thread, t # u
    PROVE  Unseen(t) /\ pc'[t] = pc[t]
<1>1. Same(t)
    BY OthersSame DEF IInv
<1> QED
    BY <1>1 DEF Same, Unseen, Alive, SeenLog, SeenResult, SeenWrites

\* So a step of u changes the mapped variables at u only.
LEMMA Mapped ==
    ASSUME IInv, NEW u \in Thread, StepOf(u)
    PROVE  /\ Alive(u)' => Live' = Live \cup {u}
           /\ ~Alive(u)' => Live' = Live \ {u}
           /\ Log' = [Log EXCEPT ![u] = SeenLog(u)']
           /\ Result' = [Result EXCEPT ![u] = SeenResult(u)']
           /\ ToWrite' = [ToWrite EXCEPT ![u] = SeenWrites(u)']
<1>1. \A t \in Thread : t # u => Unseen(t)
    BY OthersUnseen
<1>2. /\ Alive(u)' => Live' = Live \cup {u}
      /\ ~Alive(u)' => Live' = Live \ {u}
    BY <1>1 DEF Unseen, Live
<1>3. Log' = [Log EXCEPT ![u] = SeenLog(u)']
    BY <1>1 DEF Unseen, Log
<1>4. Result' = [Result EXCEPT ![u] = SeenResult(u)']
    BY <1>1 DEF Unseen, Result
<1>5. ToWrite' = [ToWrite EXCEPT ![u] = SeenWrites(u)']
    BY <1>1 DEF Unseen, ToWrite
<1> QED
    BY <1>2, <1>3, <1>4, <1>5

\* What it leaves as it was at u it leaves as it was.
LEMMA Kept ==
    ASSUME IInv, NEW u \in Thread, StepOf(u)
    PROVE  /\ Log[u] = SeenLog(u) /\ Result[u] = SeenResult(u) /\ ToWrite[u] = SeenWrites(u)
           /\ Alive(u) /\ Alive(u)' => Live' = Live
           /\ SeenLog(u)' = SeenLog(u) => Log' = Log
           /\ SeenResult(u)' = SeenResult(u) => Result' = Result
           /\ SeenWrites(u)' = SeenWrites(u) => ToWrite' = ToWrite
           /\ u \in Live <=> Alive(u)
<1>1. u \in Live <=> Alive(u)
    BY DEF Live
<1>2. Alive(u) /\ Alive(u)' => Live' = Live
    BY <1>1, Mapped
<1>3. Log[u] = SeenLog(u) /\ Result[u] = SeenResult(u) /\ ToWrite[u] = SeenWrites(u)
    BY DEF Log, Result, ToWrite
<1>4. SeenLog(u)' = SeenLog(u) => Log' = Log
    BY Mapped DEF Log
<1>5. SeenResult(u)' = SeenResult(u) => Result' = Result
    BY Mapped DEF Result
<1>6. SeenWrites(u)' = SeenWrites(u) => ToWrite' = ToWrite
    BY Mapped DEF ToWrite
<1> QED
    BY <1>1, <1>2, <1>3, <1>4, <1>5, <1>6

\* A step whose own thread looks the same, and that leaves memory and the lock
\* alone, is no step of the transactions.
LEMMA Stutter ==
    ASSUME IInv, NEW u \in Thread, StepOf(u), Unseen(u), mem' = mem,
           pc'[u] = "writeback" <=> pc[u] = "writeback"
    PROVE  UNCHANGED Word!wordVars
<1>1. \A t \in Thread : Unseen(t) /\ (pc'[t] = "writeback" <=> pc[t] = "writeback")
    BY OthersUnseen
<1>2. Owner' = Owner
    BY <1>1, OwnerKept
<1>3. Live' = Live /\ Log' = Log /\ Result' = Result /\ ToWrite' = ToWrite
    BY <1>1 DEF Unseen, Live, Log, Result, ToWrite
<1> QED
    BY <1>2, <1>3 DEF Word!wordVars

-----------------------------------------------------------------------------
(* Each action *)

\* Where a transaction is decides whether it counts.
LEMMA AtPlace ==
    ASSUME IInv, NEW t \in Thread
    PROVE  /\ pc[t] \in {"live", "loaded", "reload", "acquire", "sample"} => Alive(t) /\ valid[t]
           /\ pc[t] \in {"idle", "writeback"} => ~Alive(t) /\ valid[t]
           /\ pc[t] = "check" => (Alive(t) <=> valid[t])
<1>1. pc[t] # "check" => valid[t]
    BY Zenon DEF IInv, ThreadInv, Control
<1> QED
    BY <1>1, Zenon DEF Alive

LEMMA BeginMaps == ASSUME IInv, NEW t \in Thread, Begin(t) PROVE Word!Begin(t)
<1> USE DEF IInv, TypeOK
<1>1. StepOf(t)
    BY DEF StepOf
<1>2. /\ pc[t] = "idle" /\ pc' = [pc EXCEPT ![t] = "live"] /\ mem' = mem /\ valid' = valid
      /\ vlist' = vlist /\ writes' = writes /\ result' = result
      /\ vlist[t] = {} /\ result[t] = NoVal
    BY DEF Begin, Goto, ThreadInv, Control
<1>3. pc'[t] = "live" /\ ~Alive(t) /\ valid[t]
    BY <1>2, AtPlace
<1>4. Alive(t)'
    BY <1>2, <1>3, Zenon DEF Alive
<1>5. SeenLog(t)' = SeenLog(t) /\ SeenResult(t)' = SeenResult(t) /\ SeenWrites(t)' = SeenWrites(t)
    BY <1>2, <1>3, <1>4 DEF SeenLog, SeenResult, SeenWrites
<1>6. Live' = Live \cup {t} /\ Log' = Log /\ Result' = Result /\ ToWrite' = ToWrite
    BY <1>1, <1>4, <1>5, Mapped DEF Log, Result, ToWrite
<1>7. Owner' = Owner /\ Owner # t
  <2>1. \A u \in Thread : pc'[u] = "writeback" <=> pc[u] = "writeback"
      BY <1>2
  <2>2. Owner # t
      BY <1>2, OwnerIsWriter, NOrecAssumption DEF Owner
  <2> QED
      BY <2>1, <2>2, OwnerKept
<1>8. t \notin Live
    BY <1>3 DEF Live
<1> QED
    BY <1>2, <1>6, <1>7, <1>8 DEF Word!Begin

LEMMA ReadOwnMaps ==
    ASSUME IInv, NEW t \in Thread, NEW l \in Loc, ReadOwn(t, l) PROVE Word!ReadOwn(t, l)
<1> USE DEF IInv, TypeOK
<1>1. StepOf(t)
    BY DEF StepOf, Access
<1>2. /\ pc[t] = "live" /\ writes[t][l] # NoVal /\ result'[t] = writes[t][l]
      /\ UNCHANGED <<mem, pc, vlist, writes, valid>>
    BY DEF ReadOwn, rest
<1>3. Alive(t) /\ valid[t]
    BY <1>2, AtPlace
<1>4. Alive(t)'
    BY <1>2, <1>3, Zenon DEF Alive
<1>5. /\ SeenLog(t)' = SeenLog(t) /\ SeenResult(t)' = writes[t][l]
      /\ SeenWrites(t)' = SeenWrites(t) /\ SeenWrites(t) = writes[t]
    BY <1>2, <1>3, <1>4 DEF SeenLog, SeenResult, SeenWrites
<1>6. /\ Live' = Live /\ Log' = Log /\ ToWrite' = ToWrite
      /\ Result' = [Result EXCEPT ![t] = writes[t][l]] /\ ToWrite[t] = writes[t]
    BY <1>1, <1>3, <1>4, <1>5, Mapped, Kept
<1>7. Owner' = Owner
    BY <1>2, OwnerKept
<1>8. t \in Live
    BY <1>3 DEF Live
<1> QED
    BY <1>2, <1>6, <1>7, <1>8 DEF Word!ReadOwn

LEMMA WriteMaps ==
    ASSUME IInv, NEW t \in Thread, NEW l \in Loc, NEW v \in Val, Write(t, l, v)
    PROVE  Word!Write(t, l, v)
<1> USE DEF IInv, TypeOK
<1>1. StepOf(t)
    BY DEF StepOf, Access
<1>2. /\ pc[t] = "live" /\ writes'[t] = [writes[t] EXCEPT ![l] = v]
      /\ UNCHANGED <<mem, pc, vlist, result, valid>>
    BY DEF Write
<1>3. Alive(t) /\ valid[t]
    BY <1>2, AtPlace
<1>4. Alive(t)'
    BY <1>2, <1>3, Zenon DEF Alive
<1>5. /\ SeenLog(t)' = SeenLog(t) /\ SeenResult(t)' = SeenResult(t)
      /\ SeenWrites(t)' = [writes[t] EXCEPT ![l] = v] /\ SeenWrites(t) = writes[t]
    BY <1>2, <1>3, <1>4 DEF SeenLog, SeenResult, SeenWrites
<1>6. /\ Live' = Live /\ Log' = Log /\ Result' = Result
      /\ ToWrite' = [ToWrite EXCEPT ![t] = [writes[t] EXCEPT ![l] = v]]
      /\ ToWrite[t] = writes[t]
    BY <1>1, <1>3, <1>4, <1>5, Mapped, Kept
<1>7. ToWrite' = [ToWrite EXCEPT ![t][l] = v]
    BY <1>6
<1>8. Owner' = Owner
    BY <1>2, OwnerKept
<1>9. t \in Live
    BY <1>3 DEF Live
<1> QED
    BY <1>2, <1>6, <1>7, <1>8, <1>9 DEF Word!Write

\* A read that returns finds its whole log in memory, with nobody storing.
LEMMA ReadReturnsMaps ==
    ASSUME IInv, NEW t \in Thread, ReadReturns(t) PROVE Word!ReadMem(t, addr[t])
<1> USE DEF IInv, TypeOK
<1> DEFINE e == [addr |-> addr[t], val |-> tmp[t]]
<1>1. StepOf(t)
    BY DEF StepOf, Proceed
<1>2. /\ pc[t] = "loaded" /\ start_time[t] = timestamp /\ pc' = [pc EXCEPT ![t] = "live"]
      /\ vlist'[t] = vlist[t] \cup {e} /\ result'[t] = tmp[t]
      /\ UNCHANGED <<mem, writes, valid>>
    BY DEF ReadReturns, Goto
<1> HIDE DEF e
<1>3. Alive(t) /\ valid[t] /\ pc'[t] = "live"
    BY <1>2, AtPlace
<1>4. Alive(t)'
    BY <1>2, <1>3, Zenon DEF Alive
<1>5. addr[t] \in Loc /\ Even(timestamp) /\ writes[t][addr[t]] = NoVal
    BY <1>2, LoadedEntry DEF ThreadInv, Control
<1>6. Holds(vlist[t]) /\ tmp[t] = mem[addr[t]]
    BY <1>2, <1>3 DEF ThreadInv, Snapshot
<1>7. /\ SeenLog(t)' = vlist[t] \cup {e} /\ SeenLog(t) = vlist[t]
      /\ SeenResult(t)' = tmp[t]
      /\ SeenWrites(t)' = SeenWrites(t) /\ SeenWrites(t) = writes[t]
    BY <1>2, <1>3, <1>4 DEF SeenLog, SeenResult, SeenWrites
<1>8. /\ Live' = Live /\ Log' = [Log EXCEPT ![t] = vlist[t] \cup {e}] /\ Log[t] = vlist[t]
      /\ Result' = [Result EXCEPT ![t] = tmp[t]]
      /\ ToWrite' = ToWrite /\ ToWrite[t] = writes[t]
    BY <1>1, <1>3, <1>4, <1>7, Mapped, Kept
<1>9. Owner' = Owner /\ Owner = NoThread
  <2>1. \A u \in Thread : pc'[u] = "writeback" <=> pc[u] = "writeback"
      BY <1>2
  <2> QED
      BY <1>5, <2>1, OwnerKept, EvenIsFree
<1>10. t \in Live
    BY <1>3 DEF Live
<1>11. Word!Holds(Log[t], mem)
    BY <1>6, <1>8 DEF Holds, Word!Holds
<1>12. Log' = [Log EXCEPT ![t] = @ \cup {[addr |-> addr[t], val |-> mem[addr[t]]]}]
    BY <1>6, <1>8 DEF e
<1>13. ToWrite[t][addr[t]] = NoVal
    BY <1>5, <1>8
<1>14. Result' = [Result EXCEPT ![t] = mem[addr[t]]]
    BY <1>6, <1>8
<1> QED
    BY <1>2, <1>8, <1>9, <1>10, <1>11, <1>12, <1>13, <1>14 DEF Word!ReadMem

LEMMA CommitReadOnlyMaps ==
    ASSUME IInv, NEW t \in Thread, CommitReadOnly(t) PROVE Word!CommitReadOnly(t)
<1> USE DEF IInv, TypeOK
<1>1. StepOf(t)
    BY DEF StepOf, Proceed
<1>2. /\ pc[t] = "live" /\ writes[t] = NoWrites /\ pc' = [pc EXCEPT ![t] = "idle"]
      /\ valid'[t] = TRUE /\ writes'[t] = NoWrites /\ mem' = mem
    BY DEF CommitReadOnly, Reset, Goto
<1>3. Alive(t) /\ valid[t]
    BY <1>2, AtPlace
<1>4. ~Alive(t)'
    BY <1>2, Zenon DEF Alive
<1>5. /\ SeenLog(t)' = {} /\ SeenResult(t)' = NoVal
      /\ SeenWrites(t)' = SeenWrites(t) /\ SeenWrites(t) = NoWrites
    BY <1>2, <1>3, <1>4 DEF SeenLog, SeenResult, SeenWrites
<1>6. /\ Live' = Live \ {t} /\ Log' = [Log EXCEPT ![t] = {}]
      /\ Result' = [Result EXCEPT ![t] = NoVal] /\ ToWrite' = ToWrite /\ ToWrite[t] = NoWrites
    BY <1>1, <1>4, <1>5, Mapped, Kept
<1>7. Owner' = Owner
  <2>1. \A u \in Thread : pc'[u] = "writeback" <=> pc[u] = "writeback"
      BY <1>2
  <2> QED
      BY <2>1, OwnerKept
<1>8. t \in Live
    BY <1>1, <1>3, Kept
<1> QED
    BY <1>2, <1>6, <1>7, <1>8 DEF Word!CommitReadOnly, Word!NoWrites, NoWrites

\* A compare-and-swap that succeeds finds the whole log in memory.
LEMMA AcquireMaps ==
    ASSUME IInv, IInv', NEW t \in Thread, Acquire(t) PROVE Word!Acquire(t)
<1>1. StepOf(t)
    BY DEF StepOf, Proceed
<1>2. /\ pc[t] \in {"live", "acquire"} /\ writes[t] # NoWrites /\ timestamp = start_time[t]
      /\ pc'[t] = "writeback" /\ valid' = valid /\ writes' = writes /\ mem' = mem
    BY DEF Acquire, Goto, IInv, TypeOK
<1>3. Alive(t) /\ valid[t]
    BY <1>2, AtPlace
<1>4. ~Alive(t)'
    BY <1>2, Zenon DEF Alive
<1>5. /\ SeenLog(t)' = {} /\ SeenLog(t) = vlist[t] /\ SeenResult(t)' = NoVal
      /\ SeenWrites(t)' = SeenWrites(t) /\ SeenWrites(t) = writes[t]
    BY <1>2, <1>3, <1>4 DEF SeenLog, SeenResult, SeenWrites
<1>6. /\ Live' = Live \ {t} /\ Log' = [Log EXCEPT ![t] = {}] /\ Log[t] = vlist[t]
      /\ Result' = [Result EXCEPT ![t] = NoVal] /\ ToWrite' = ToWrite /\ ToWrite[t] = writes[t]
    BY <1>1, <1>4, <1>5, Mapped, Kept
<1>7. Owner' = t
    BY <1>2 DEF IInv, OneWriter, Owner
<1>8. Owner = NoThread
    BY <1>2, EvenIsFree DEF IInv, ThreadInv, Control
<1>9. Holds(vlist[t])
    BY <1>2, <1>3 DEF IInv, ThreadInv, Snapshot
<1>10. Word!Holds(Log[t], mem)
    BY <1>6, <1>9 DEF Holds, Word!Holds
<1>11. t \in Live
    BY <1>1, <1>3, Kept
<1> QED
    BY <1>2, <1>6, <1>7, <1>8, <1>10, <1>11 DEF Word!Acquire, Word!NoWrites, NoWrites

LEMMA WriteBackMaps ==
    ASSUME IInv, NEW t \in Thread, NEW l \in Loc, WriteBack(t, l)
    PROVE  Word!WriteBack(t, l)
<1>1. StepOf(t)
    BY DEF StepOf, Proceed
<1>2. /\ pc[t] = "writeback" /\ writes[t][l] # NoVal /\ mem' = [mem EXCEPT ![l] = writes[t][l]]
      /\ writes'[t] = [writes[t] EXCEPT ![l] = NoVal] /\ pc' = pc /\ valid' = valid
    BY DEF WriteBack, IInv, TypeOK
<1>3. ~Alive(t) /\ valid[t]
    BY <1>2, AtPlace
<1>4. ~Alive(t)'
    BY <1>2, Zenon DEF Alive
<1>5. /\ SeenLog(t)' = SeenLog(t) /\ SeenResult(t)' = SeenResult(t)
      /\ SeenWrites(t)' = [writes[t] EXCEPT ![l] = NoVal] /\ SeenWrites(t) = writes[t]
    BY <1>2, <1>3, <1>4 DEF SeenLog, SeenResult, SeenWrites
<1>6. /\ Log' = Log /\ Result' = Result /\ ToWrite[t] = writes[t]
      /\ ToWrite' = [ToWrite EXCEPT ![t] = [writes[t] EXCEPT ![l] = NoVal]]
      /\ Live' = Live \ {t} /\ t \notin Live
    BY <1>1, <1>3, <1>4, <1>5, Mapped, Kept
<1>7. ToWrite' = [ToWrite EXCEPT ![t][l] = NoVal]
    BY <1>6
<1>8. Owner' = Owner /\ Owner = t
    BY <1>2, OwnerKept, OwnerIsWriter DEF IInv
<1>9. Live' = Live
    BY <1>6
<1> QED
    BY <1>2, <1>6, <1>7, <1>8, <1>9 DEF Word!WriteBack

LEMMA ReleaseMaps ==
    ASSUME IInv, IInv', NEW t \in Thread, Release(t) PROVE Word!Release(t)
<1>1. StepOf(t)
    BY DEF StepOf, Proceed
<1>2. /\ pc[t] = "writeback" /\ writes[t] = NoWrites /\ pc'[t] = "idle" /\ mem' = mem
      /\ valid'[t] = TRUE /\ writes'[t] = NoWrites
    BY DEF Release, Reset, Goto, IInv, TypeOK
<1>3. ~Alive(t) /\ valid[t]
    BY <1>2, AtPlace
<1>4. ~Alive(t)'
    BY <1>2, Zenon DEF Alive
<1>5. /\ SeenLog(t)' = SeenLog(t) /\ SeenResult(t)' = SeenResult(t)
      /\ SeenWrites(t)' = SeenWrites(t) /\ SeenWrites(t) = NoWrites
    BY <1>2, <1>3, <1>4 DEF SeenLog, SeenResult, SeenWrites
<1>6. /\ Log' = Log /\ Result' = Result /\ ToWrite' = ToWrite /\ ToWrite[t] = NoWrites
      /\ Live' = Live \ {t} /\ t \notin Live
    BY <1>1, <1>3, <1>4, <1>5, Mapped, Kept
<1>7. Owner = t
    BY <1>2, OwnerIsWriter DEF IInv
<1>8. \A u \in Thread : pc'[u] # "writeback"
    BY <1>1, <1>2, OthersUnseen DEF IInv, OneWriter
<1>9. Owner' = NoThread
    BY <1>8 DEF Owner
<1>10. Live' = Live
    BY <1>6
<1> QED
    BY <1>2, <1>6, <1>7, <1>9, <1>10 DEF Word!Release, Word!NoWrites, NoWrites

\* The first difference found aborts; a comparison that finds none, or that comes
\* after a difference, is no step of the transactions.
LEMMA CheckEntryMaps ==
    ASSUME IInv, NEW t \in Thread, CheckEntry(t)
    PROVE  Word!Abort(t) \/ UNCHANGED Word!wordVars
<1>1. StepOf(t)
    BY DEF StepOf, Proceed
<1>2. PICK e \in unchecked[t] : valid' = [valid EXCEPT ![t] = @ /\ mem[e.addr] = e.val]
    BY DEF CheckEntry
<1>3. pc[t] = "check" /\ UNCHANGED <<mem, pc, vlist, writes, result>>
    BY DEF CheckEntry
<1>4. valid'[t] <=> valid[t] /\ mem[e.addr] = e.val
    BY <1>2, Zenon DEF IInv, TypeOK
<1>5. Owner' = Owner
    BY <1>3, OwnerKept
<1>6. CASE valid[t] /\ mem[e.addr] # e.val
  <2>1. Alive(t) /\ ~Alive(t)'
      BY <1>3, <1>4, <1>6, Zenon DEF Alive
  <2>2. /\ SeenLog(t)' = {} /\ SeenLog(t) = vlist[t] /\ SeenResult(t)' = NoVal
        /\ SeenWrites(t)' = NoWrites
      BY <1>4, <1>6, <2>1 DEF SeenLog, SeenResult, SeenWrites
  <2>3. /\ Live' = Live \ {t} /\ Log' = [Log EXCEPT ![t] = {}] /\ Log[t] = vlist[t]
        /\ Result' = [Result EXCEPT ![t] = NoVal] /\ ToWrite' = [ToWrite EXCEPT ![t] = NoWrites]
        /\ t \in Live
      BY <1>1, <2>1, <2>2, Mapped, Kept
  <2>4. e \in Log[t]
      BY <2>3 DEF IInv, ThreadInv, Control
  <2>5. ~Word!Holds(Log[t], mem)
      BY <1>6, <2>4 DEF Word!Holds
  <2> QED
      BY <1>3, <1>5, <2>3, <2>5 DEF Word!Abort, Word!NoWrites, NoWrites
<1>7. CASE ~(valid[t] /\ mem[e.addr] # e.val)
  <2>1. valid'[t] <=> valid[t]
      BY <1>4, <1>7, Zenon
  <2>2. Alive(t)' <=> Alive(t)
      BY <1>3, <2>1, Zenon DEF Alive
  <2>3. Unseen(t)
      BY <1>3, <2>1, <2>2 DEF Unseen, SeenLog, SeenResult, SeenWrites
  <2> QED
      BY <1>1, <1>3, <2>3, Stutter
<1> QED
    BY <1>6, <1>7

\* A rollback was decided when the difference was found.
LEMMA RollbackMaps ==
    ASSUME IInv, NEW t \in Thread, Rollback(t) PROVE UNCHANGED Word!wordVars
<1>1. StepOf(t)
    BY DEF StepOf, Proceed
<1>2. /\ pc[t] = "check" /\ ~valid[t] /\ pc'[t] = "idle" /\ mem' = mem
      /\ valid'[t] = TRUE /\ writes'[t] = NoWrites
    BY DEF Rollback, Reset, Goto, IInv, TypeOK
<1>3. ~Alive(t) /\ ~Alive(t)'
    BY <1>2, Zenon DEF Alive
<1>4. Unseen(t)
    BY <1>2, <1>3 DEF Unseen, SeenLog, SeenResult, SeenWrites
<1> QED
    BY <1>1, <1>2, <1>4, Stutter

\* A step inside a read, a validation or a commit is no step of the transactions.
Inside(t) ==
    \/ ReadStale(t) \/ Reload(t) \/ Sample(t) \/ Revalidate(t) \/ Validated(t) \/ CommitStale(t)
    \/ \E l \in Loc : Load(t, l)

LEMMA InsideMaps ==
    ASSUME IInv, NEW t \in Thread, Inside(t) PROVE UNCHANGED Word!wordVars
<1>1. StepOf(t)
    BY DEF Inside, StepOf, Proceed, Access
<1>2. UNCHANGED <<mem, vlist, writes, valid, result>>
    BY DEF Inside, ReadStale, Reload, Sample, Revalidate, Validated, CommitStale, Load, rest
<1>3. /\ pc[t] \in {"live", "loaded", "reload", "acquire", "sample", "check"}
      /\ pc'[t] \in {"loaded", "reload", "acquire", "sample", "check"}
    BY DEF Inside, ReadStale, Reload, Sample, Revalidate, Validated, CommitStale, Load, Goto,
       IInv, TypeOK
<1>4. Alive(t)' <=> Alive(t)
    BY <1>2, <1>3, Zenon DEF Alive
<1>5. Unseen(t)
    BY <1>2, <1>4 DEF Unseen, SeenLog, SeenResult, SeenWrites
<1> QED
    BY <1>1, <1>2, <1>3, <1>5, Stutter

-----------------------------------------------------------------------------
(* The theorems *)

LEMMA InitMaps == ASSUME Init PROVE Word!WordInitWith(InitialMemory)
<1>1. \A t \in Thread : ~Alive(t) /\ valid[t] /\ writes[t] = NoWrites
    BY Zenon DEF Init, Alive
<1>2. Live = {} /\ Log = [t \in Thread |-> {}] /\ Result = [t \in Thread |-> NoVal]
    BY <1>1 DEF Live, Log, Result, SeenLog, SeenResult
<1>3. ToWrite = [t \in Thread |-> NoWrites]
    BY <1>1 DEF ToWrite, SeenWrites
<1>4. Owner = NoThread
    BY DEF Init, Owner
<1> QED
    BY <1>2, <1>3, <1>4 DEF Init, Word!WordInitWith, Word!NoWrites, NoWrites

LEMMA StepMaps == ASSUME IInv, IInv', [Next]_tmVars PROVE [Word!WordNext]_(Word!wordVars)
<1>1. CASE UNCHANGED tmVars
  <2>1. \A t \in Thread : Unseen(t)
      BY <1>1 DEF tmVars, Unseen, Alive, SeenLog, SeenResult, SeenWrites
  <2>2. Owner' = Owner
      BY <1>1, OwnerKept DEF tmVars
  <2> QED
      BY <1>1, <2>1, <2>2 DEF tmVars, Unseen, Live, Log, Result, ToWrite, Word!wordVars
<1>2. ASSUME NEW t \in Thread, Begin(t) PROVE Word!WordNext
    BY <1>2, BeginMaps DEF Word!WordNext
<1>3. ASSUME NEW t \in Thread, Proceed(t) PROVE Word!WordNext \/ UNCHANGED Word!wordVars
  <2>1. CASE ReadReturns(t)
      BY <2>1, ReadReturnsMaps, LoadedEntry DEF ReadReturns, Word!WordNext
  <2>2. CASE CommitReadOnly(t)
      BY <2>2, CommitReadOnlyMaps DEF Word!WordNext
  <2>3. CASE Acquire(t)
      BY <2>3, AcquireMaps DEF Word!WordNext
  <2>4. CASE Release(t)
      BY <2>4, ReleaseMaps DEF Word!WordNext
  <2>5. CASE \E l \in Loc : WriteBack(t, l)
      BY <2>5, WriteBackMaps DEF Word!WordNext
  <2>6. CASE CheckEntry(t)
      BY <2>6, CheckEntryMaps DEF Word!WordNext
  <2>7. CASE Rollback(t)
      BY <2>7, RollbackMaps
  <2>8. CASE Inside(t)
      BY <2>8, InsideMaps
  <2> QED
      BY <1>3, <2>1, <2>2, <2>3, <2>4, <2>5, <2>6, <2>7, <2>8 DEF Proceed, Inside
<1>4. ASSUME NEW t \in Thread, Access(t) PROVE Word!WordNext \/ UNCHANGED Word!wordVars
  <2>1. CASE \E l \in Loc : ReadOwn(t, l)
      BY <2>1, ReadOwnMaps DEF Word!WordNext
  <2>2. CASE \E l \in Loc, v \in Val : Write(t, l, v)
      BY <2>2, WriteMaps DEF Word!WordNext
  <2>3. CASE \E l \in Loc : Load(t, l)
      BY <2>3, InsideMaps DEF Inside
  <2> QED
      BY <1>4, <2>1, <2>2, <2>3 DEF Access
<1> QED
    BY <1>1, <1>2, <1>3, <1>4 DEF Next

\* For any number of threads, locations and values: NOrec's transactions read from
\* one snapshot, commit alone, and abort only when a value they read has changed.
THEOREM NOrecRefinesWordTM == Spec => ImplementsWordTM
<1>1. Init => Word!WordInit
    BY InitMaps, NOrecAssumption DEF Word!WordInit
<1>2. IInv /\ IInv' /\ [Next]_tmVars => [Word!WordNext]_(Word!wordVars)
    BY StepMaps
<1> QED
    BY <1>1, <1>2, Invariance, PTL DEF Spec, ImplementsWordTM, Word!WordSpec

-----------------------------------------------------------------------------
(* Two refinements in a row: NOrec, WordTM, AtomicTM.  Proved is WordTM.tla under *)
(* the same mapping, with its theorems; that its formulas are those of Word is a  *)
(* matter of expanding both.                                                      *)

Proved == INSTANCE WordTMProofs WITH
    owner <- Owner, live <- Live, log <- Log, writes <- ToWrite, result <- Result

LEMMA SameWord == Word!WordSpec => Proved!WordSpec
<1>1. Word!WordInit => Proved!WordInit
    BY Zenon DEF Word!WordInit, Proved!WordInit, Word!WordInitWith, Proved!WordInitWith,
       Word!NoWrites, Proved!NoWrites
<1>2. [Word!WordNext]_(Word!wordVars) => [Proved!WordNext]_(Proved!wordVars)
    BY Zenon DEF
       Word!Begin, Word!ReadOwn, Word!ReadMem, Word!Write, Word!CommitReadOnly,
       Word!Acquire, Word!WriteBack, Word!Release, Word!Abort, Word!Holds,
       Word!NoWrites, Word!WordNext, Word!wordVars, Proved!Begin, Proved!ReadOwn,
       Proved!ReadMem, Proved!Write, Proved!CommitReadOnly, Proved!Acquire,
       Proved!WriteBack, Proved!Release, Proved!Abort, Proved!Holds, Proved!NoWrites,
       Proved!WordNext, Proved!wordVars
<1> QED
    BY <1>1, <1>2, PTL DEF Word!WordSpec, Proved!WordSpec

LEMMA SameAtomic == Proved!ImplementsAtomicTM => Word!ImplementsAtomicTM
<1>1. Proved!Committed = Word!Committed /\ Proved!Buffered = Word!Buffered
    BY Zenon DEF Word!Committed, Proved!Committed, Word!Buffered, Proved!Buffered,
       Word!NoWrites, Proved!NoWrites
<1>2. Proved!Atomic!Init => Word!Atomic!Init
    BY <1>1, Zenon DEF Proved!Atomic!Init, Word!Atomic!Init, Proved!Atomic!NoWrites,
       Word!Atomic!NoWrites
<1>3. [Proved!Atomic!Next]_(Proved!Atomic!vars) => [Word!Atomic!Next]_(Word!Atomic!vars)
    BY <1>1, Zenon DEF
       Word!Committed, Word!Buffered, Word!NoWrites,
       Proved!Committed, Proved!Buffered, Proved!NoWrites,
       Word!Atomic!Begin, Word!Atomic!ReadOwn, Word!Atomic!ReadStore,
       Word!Atomic!Write, Word!Atomic!Commit, Word!Atomic!Abort, Word!Atomic!Forget,
       Word!Atomic!NoWrites, Word!Atomic!Holds, Word!Atomic!Written, Word!Atomic!Next,
       Word!Atomic!vars, Proved!Atomic!Begin, Proved!Atomic!ReadOwn,
       Proved!Atomic!ReadStore, Proved!Atomic!Write, Proved!Atomic!Commit,
       Proved!Atomic!Abort, Proved!Atomic!Forget, Proved!Atomic!NoWrites,
       Proved!Atomic!Holds, Proved!Atomic!Written, Proved!Atomic!Next,
       Proved!Atomic!vars
<1> QED
    BY <1>2, <1>3, PTL DEF Word!ImplementsAtomicTM, Proved!ImplementsAtomicTM,
       Proved!Atomic!Spec, Word!Atomic!Spec

\* For any number of threads, locations and values: NOrec's transactions take effect
\* one at a time, and every one, committed or not, sees one snapshot.
THEOREM NOrecIsAtomic == Spec => ImplementsAtomicTM
<1>1. Proved!WordSpec => Proved!ImplementsAtomicTM
    BY Proved!WordRefinesAtomic, NOrecAssumption DEF Proved!WordAssumption
<1>2. Spec => Word!WordSpec
    BY NOrecRefinesWordTM DEF ImplementsWordTM
<1> QED
    BY <1>1, <1>2, SameWord, SameAtomic DEF ImplementsAtomicTM
=============================================================================
