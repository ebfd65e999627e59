---------------------------- MODULE LogSinkProofs ----------------------------
(*****************************************************************************)
(* Proofs about LogSink for every number of entries, executions, callers and  *)
(* loops, every size of the buffer, and every Env.                            *)
(*****************************************************************************)
EXTENDS LogSink, FiniteSetTheorems, TLAPS

-----------------------------------------------------------------------------
(* The invariant                                                             *)

\* Each entry has a greater number than those before it.
Rising(s) == \A i, j \in DOMAIN s : i < j => s[i] < s[j]

\* What a goroutine has in hand
ThrRec(n) == [pc : PC, op : {"none", "flush", "exec", "retry"}, exec : Exec \cup {None},
              ok : BOOLEAN, batch : Seq(1..n), rest : Seq(1..n)]

Sending == {"send", "mongodb", "sent"}

\* A goroutine that flushes, all or the logs of one execution, has the mutex; a retry has not.
InFlight(y) == y.op \in {"flush", "exec"}

Shape(y) ==
  /\ y.op = "none" <=> y.pc \notin Sending \cup {"group"}
  /\ InFlight(y) => y.pc # "group"
  /\ y.pc \notin Sending => y.batch = <<>>
  /\ y.op # "retry" => y.rest = <<>>
  /\ y.op = "exec" \/ y.pc = "add" => y.exec \in Exec

\* What is sent again was in a batch that failed; what was sent without an error is stored.
AgainOK(y) == y.op = "retry" => ToSet(y.batch) \subseteq resent /\ ToSet(y.rest) \subseteq resent
SentOK(y) == y.pc = "sent" /\ y.ok => \A e \in ToSet(y.batch) : Stored(e)

\* The buffer holds what is sent of an execution, and of that execution nothing else but what
\* was added meanwhile.
ExecOK(y) == y.op = "exec" =>
  /\ \A b \in ToSet(y.batch) : of[b] = y.exec
  /\ \A e \in ToSet(buffer) : of[e] = y.exec => e \in ToSet(y.batch) \cup raced

\* A batch is in order, and one that was taken out of the buffer is before what came after.
BatchOK(y) ==
  /\ InFlight(y) => Rising(y.batch)
  /\ y.op = "flush" => \A b \in ToSet(y.batch), e \in ToSet(buffer) : b < e

\* As SentOnceInOrder has it of two entries of a destination
Follows(a, e) == of[a] = of[e] /\ {a, e} \cap resent = {} => a < e

\* What a destination has is before what a flush has yet to send to it ...
Todo(y, d) == y.pc = "send" \/ (y.pc = "mongodb" /\ d = "mongodb")
BehindOK(y) == \A d \in Dest : InFlight(y) /\ Todo(y, d) =>
  \A a \in ToSet(stored[d]), e \in ToSet(y.batch) : Follows(a, e)

\* ... and before what the buffer holds, except what is sent of an execution.
SentNow(a, e) == \E t \in Thread : /\ thr[t].op = "exec" /\ thr[t].exec = of[e]
                                   /\ a \in ToSet(thr[t].batch)
BufferBehind == \A d \in Dest : \A a \in ToSet(stored[d]), e \in ToSet(buffer) :
  Follows(a, e) \/ SentNow(a, e)

HandOK(t, y) ==
  /\ Shape(y) /\ (InFlight(y) <=> holder = t)
  /\ AgainOK(y) /\ SentOK(y) /\ ExecOK(y) /\ BatchOK(y) /\ BehindOK(y)

EntriesOK ==
  /\ ToSet(failed) \subseteq resent
  /\ Rising(buffer) /\ BufferBehind
  /\ NothingIsLost /\ SentOnceInOrder

IInv == TypeOK /\ EntriesOK /\ \A t \in Thread : HandOK(t, thr[t])

(* The parts of TypeOK                                                       *)
SinkOK ==
  /\ of \in Seq(Exec) /\ Len(of) <= MaxLogs
  /\ buffer \in Seq(1..Len(of)) /\ failed \in Seq(1..Len(of))
  /\ stored \in [Dest -> Seq(1..Len(of))]
  /\ raced \subseteq 1..Len(of) /\ resent \subseteq 1..Len(of)

SettingsOK ==
  /\ mode \in Mode /\ storage \in Storage /\ running \in BOOLEAN /\ connected \in BOOLEAN
  /\ calls \in 0..MaxCalls

ThreadsOK == holder \in Thread \cup {None} /\ thr \in [Thread -> ThrRec(Len(of))]

\* The conjuncts of the invariant, with those of TypeOK in groups
LEMMA Parts == IInv => /\ SinkOK /\ Memory <= MaxMemory /\ SettingsOK /\ ThreadsOK /\ EntriesOK
                       /\ \A t \in Thread : HandOK(t, thr[t])
BY DEF IInv, TypeOK, SinkOK, SettingsOK, ThreadsOK, ThrRec

\* ... and back, for a state and for the next one
LEMMA Together ==
  /\ /\ SinkOK /\ Memory <= MaxMemory /\ SettingsOK /\ ThreadsOK /\ EntriesOK
     /\ \A t \in Thread : HandOK(t, thr[t])
     => IInv
  /\ (/\ SinkOK /\ Memory <= MaxMemory /\ SettingsOK /\ ThreadsOK /\ EntriesOK
      /\ \A t \in Thread : HandOK(t, thr[t]))'
     => IInv'
BY DEF IInv, TypeOK, SinkOK, SettingsOK, ThreadsOK, ThrRec

-----------------------------------------------------------------------------
(* Filtering a sequence                                                      *)

\* The numbers of I up to i
UpTo(I, i) == {j \in I : j <= i}

\* The numbers from one to n are n.
LEMMA Interval == \A n \in Nat : IsFiniteSet(1..n) /\ Cardinality(1..n) = n
BY FS_Interval

\* The numbers of a finite set have the ranks from one to its size.
LEMMA KthIs ==
  ASSUME NEW I \in SUBSET Nat, IsFiniteSet(I)
  PROVE  /\ Cardinality(I) \in Nat
         /\ \A k \in 1..Cardinality(I) : Kth(I, k) \in I /\ Cardinality(UpTo(I, Kth(I, k))) = k
         /\ \A i, j \in I : i < j => Cardinality(UpTo(I, i)) < Cardinality(UpTo(I, j))
         /\ \A i \in I : Cardinality(UpTo(I, i)) \in 1..Cardinality(I)
<1> DEFINE n == Cardinality(I)
           rank(i) == Cardinality(UpTo(I, i))
           f == [i \in I |-> rank(i)]
<1>1. n \in Nat
  BY FS_CardinalityType
<1>2. \A i \in I : IsFiniteSet(UpTo(I, i)) /\ rank(i) <= n /\ rank(i) \in Nat
  BY FS_Subset, FS_CardinalityType DEF UpTo
<1>3. ASSUME NEW i \in I, NEW j \in I, i < j PROVE rank(i) < rank(j)
  <2>1. UpTo(I, i) \subseteq UpTo(I, j) /\ j \in UpTo(I, j) /\ j \notin UpTo(I, i)
    <3>1. i \in Nat /\ j \in Nat
      OBVIOUS
    <3>2. \A m \in I : m <= i => m <= j
      BY <1>3, <3>1
    <3>3. j <= j /\ ~(j <= i)
      BY <1>3, <3>1
    <3> QED
      BY <3>2, <3>3, Zenon DEF UpTo
  <2>2. rank(i) <= rank(j) /\ rank(i) # rank(j)
    BY <1>2, <2>1, FS_Subset
  <2> QED
    BY <1>2, <2>2
<1>4. \A i \in I : rank(i) \in 1..n
  <2> SUFFICES ASSUME NEW i \in I PROVE rank(i) \in 1..n
    OBVIOUS
  <2>1. i \in UpTo(I, i)
    BY DEF UpTo
  <2>2. rank(i) # 0
    BY <1>2, <2>1, FS_EmptySet
  <2> QED
    BY <1>1, <1>2, <2>2
<1>5. f \in Injection(I, 1..n)
  <2>1. f \in [I -> 1..n]
    BY <1>4
  <2>2. ASSUME NEW i \in I, NEW j \in I, f[i] = f[j] PROVE i = j
    <3>1. rank(i) = rank(j) /\ rank(i) \in Nat
      BY <1>2, <2>2
    <3>2. i \in Nat /\ j \in Nat
      OBVIOUS
    <3> QED
      BY <1>2, <1>3, <3>1, <3>2
  <2> QED
    BY <2>1, <2>2 DEF Injection, IsInjective
<1>6. f \in Surjection(I, 1..n)
  BY <1>1, <1>5, FS_Injection, Interval
<1>7. ASSUME NEW k \in 1..n PROVE Kth(I, k) \in I /\ rank(Kth(I, k)) = k
  <2>1. \E i \in I : rank(i) = k
    BY <1>6 DEF Surjection
  <2> QED
    BY <2>1 DEF Kth, UpTo
<1> QED
  BY <1>1, <1>3, <1>4, <1>7

\* Where the entries of s that are in S stand
Places(s, S) == {i \in DOMAIN s : s[i] \in S}

\* The entries that are kept are those in S, and they stay in order.
LEMMA OnlyPicks ==
  ASSUME NEW T, NEW s \in Seq(T), NEW S
  PROVE  /\ Only(s, S) \in Seq(T) /\ Len(Only(s, S)) = Cardinality(Places(s, S))
         /\ IsFiniteSet(Places(s, S)) /\ Places(s, S) \subseteq 1..Len(s)
         /\ \A k \in 1..Len(Only(s, S)) :
              Kth(Places(s, S), k) \in Places(s, S) /\ Only(s, S)[k] = s[Kth(Places(s, S), k)]
         /\ \A k, l \in 1..Len(Only(s, S)) :
              k < l => Kth(Places(s, S), k) < Kth(Places(s, S), l)
         /\ \A i \in Places(s, S) : \E k \in 1..Len(Only(s, S)) : Kth(Places(s, S), k) = i
<1> DEFINE I == Places(s, S)
           n == Cardinality(I)
<1>1. I \subseteq 1..Len(s) /\ I \in SUBSET Nat /\ IsFiniteSet(I)
  <2>1. I \subseteq 1..Len(s) /\ Len(s) \in Nat
    BY DEF Places
  <2> QED
    BY <2>1, Interval, FS_Subset
<1>2. /\ n \in Nat
      /\ \A k \in 1..n : Kth(I, k) \in I /\ Cardinality(UpTo(I, Kth(I, k))) = k
      /\ \A i, j \in I : i < j => Cardinality(UpTo(I, i)) < Cardinality(UpTo(I, j))
      /\ \A i \in I : Cardinality(UpTo(I, i)) \in 1..n
  BY <1>1, KthIs
<1>3. Only(s, S) = [k \in 1..n |-> s[Kth(I, k)]]
  BY DEF Only, Places
<1>4. \A k \in 1..n : s[Kth(I, k)] \in T
  <2>1. \A i \in 1..Len(s) : s[i] \in T
    OBVIOUS
  <2> QED
    BY <1>1, <1>2, <2>1
<1>5. Only(s, S) \in Seq(T) /\ Len(Only(s, S)) = n
  <2>1. Only(s, S) \in [1..n -> T]
    BY <1>3, <1>4
  <2> QED
    BY <1>2, <2>1
<1>6. \A i, j \in I : Cardinality(UpTo(I, i)) < Cardinality(UpTo(I, j)) => i < j
  <2> SUFFICES ASSUME NEW i \in I, NEW j \in I, Cardinality(UpTo(I, i)) < Cardinality(UpTo(I, j)),
                      ~(i < j)
               PROVE  FALSE
    OBVIOUS
  <2>1. i \in Nat /\ j \in Nat
    BY <1>1
  <2>2. i = j \/ j < i
    BY <2>1
  <2>3. Cardinality(UpTo(I, i)) \in Nat /\ Cardinality(UpTo(I, j)) \in Nat
    BY <1>2
  <2>4. CASE i = j
    BY <2>3, <2>4
  <2>5. CASE j < i
    BY <1>2, <2>3, <2>5
  <2> QED
    BY <2>2, <2>4, <2>5
<1>7. ASSUME NEW k \in 1..n, NEW l \in 1..n, k < l PROVE Kth(I, k) < Kth(I, l)
  BY <1>2, <1>6, <1>7
<1>8. ASSUME NEW i \in I PROVE \E k \in 1..n : Kth(I, k) = i
  <2> DEFINE k == Cardinality(UpTo(I, i))
  <2>1. k \in 1..n /\ Kth(I, k) \in I /\ Cardinality(UpTo(I, Kth(I, k))) = k
    BY <1>2
  <2>2. ~(i < Kth(I, k)) /\ ~(Kth(I, k) < i)
    BY <1>2, <2>1
  <2>3. i \in Nat /\ Kth(I, k) \in Nat
    BY <1>1, <2>1
  <2> QED
    BY <2>1, <2>2, <2>3
<1> QED
  BY <1>1, <1>2, <1>3, <1>5, <1>7, <1>8

\* What is kept is a sequence of the same entries.
LEMMA OnlyIsSeq == \A T : \A s \in Seq(T) : \A S : Only(s, S) \in Seq(T)
BY OnlyPicks

\* The entries that are kept are those in S.
LEMMA OnlySet ==
  ASSUME NEW T, NEW s \in Seq(T), NEW S
  PROVE  ToSet(Only(s, S)) = ToSet(s) \cap S
<1> DEFINE o == Only(s, S)
           I == Places(s, S)
<1>1. /\ o \in Seq(T) /\ DOMAIN o = 1..Len(o) /\ I \subseteq 1..Len(s) /\ DOMAIN s = 1..Len(s)
      /\ \A k \in 1..Len(o) : Kth(I, k) \in I /\ o[k] = s[Kth(I, k)]
      /\ \A i \in I : \E k \in 1..Len(o) : Kth(I, k) = i
  BY OnlyPicks
<1>2. ASSUME NEW e \in ToSet(o) PROVE e \in ToSet(s) \cap S
  <2>1. PICK k \in 1..Len(o) : e = o[k]
    BY <1>1 DEF ToSet
  <2> QED
    BY <1>1, <2>1 DEF ToSet, Places
<1>3. ASSUME NEW e \in ToSet(s) \cap S PROVE e \in ToSet(o)
  <2>1. PICK i \in DOMAIN s : e = s[i]
    BY DEF ToSet
  <2>2. i \in I
    BY <2>1 DEF Places
  <2>3. PICK k \in 1..Len(o) : Kth(I, k) = i
    BY <1>1, <2>2
  <2> QED
    BY <1>1, <2>1, <2>3 DEF ToSet
<1> QED
  BY <1>2, <1>3

\* What is kept of a rising sequence rises.
LEMMA OnlyRising ==
  ASSUME NEW T, NEW s \in Seq(T), NEW S, Rising(s)
  PROVE  Rising(Only(s, S))
<1> DEFINE o == Only(s, S)
           I == Places(s, S)
<1>1. /\ o \in Seq(T) /\ DOMAIN o = 1..Len(o) /\ I \subseteq 1..Len(s) /\ DOMAIN s = 1..Len(s)
      /\ \A k \in 1..Len(o) : Kth(I, k) \in I /\ o[k] = s[Kth(I, k)]
      /\ \A k, l \in 1..Len(o) : k < l => Kth(I, k) < Kth(I, l)
  BY OnlyPicks
<1> HIDE DEF o, I
<1>2. \A k \in 1..Len(o) : Kth(I, k) \in DOMAIN s
  BY <1>1
<1> QED
  BY <1>1, <1>2 DEF Rising, o

\* No more of any entries are kept than there were.
LEMMA OnlyFewer ==
  ASSUME NEW T, NEW s \in Seq(T), NEW S, NEW H
  PROVE  /\ Len(Only(s, S)) <= Len(s)
         /\ Cardinality(Places(Only(s, S), H)) <= Cardinality(Places(s, H))
         /\ Cardinality(Places(s, H)) \in Nat /\ Cardinality(Places(Only(s, S), H)) \in Nat
<1> DEFINE o == Only(s, S)
           I == Places(s, S)
<1>1. /\ DOMAIN o = 1..Len(o) /\ I \subseteq 1..Len(s) /\ DOMAIN s = 1..Len(s)
      /\ \A k \in 1..Len(o) : Kth(I, k) \in I /\ o[k] = s[Kth(I, k)]
      /\ \A k, l \in 1..Len(o) : k < l => Kth(I, k) < Kth(I, l)
      /\ Len(o) = Cardinality(I) /\ o \in Seq(T) /\ Len(o) \in Nat /\ Len(s) \in Nat
  <2>1. /\ o \in Seq(T) /\ I \subseteq 1..Len(s)
        /\ \A k \in 1..Len(o) : Kth(I, k) \in I /\ o[k] = s[Kth(I, k)]
        /\ \A k, l \in 1..Len(o) : k < l => Kth(I, k) < Kth(I, l)
        /\ Len(o) = Cardinality(I)
    BY OnlyPicks
  <2> HIDE DEF o, I
  <2>2. DOMAIN o = 1..Len(o) /\ DOMAIN s = 1..Len(s) /\ Len(o) \in Nat /\ Len(s) \in Nat
    BY <2>1
  <2> QED
    BY <2>1, <2>2
<1>2. Len(o) <= Len(s)
  BY <1>1, Interval, FS_Subset
<1>3. IsFiniteSet(Places(s, H)) /\ IsFiniteSet(Places(o, H))
  BY <1>1, OnlyPicks
<1> DEFINE f == [k \in Places(o, H) |-> Kth(I, k)]
<1>4. f \in [Places(o, H) -> Places(s, H)]
  <2> SUFFICES ASSUME NEW k \in Places(o, H) PROVE Kth(I, k) \in Places(s, H)
    OBVIOUS
  <2>1. k \in 1..Len(o) /\ o[k] \in H
    BY <1>1 DEF Places
  <2> QED
    BY <1>1, <2>1 DEF Places
<1>5. \A k, l \in Places(o, H) : f[k] = f[l] => k = l
  <2> SUFFICES ASSUME NEW k \in Places(o, H), NEW l \in Places(o, H), Kth(I, k) = Kth(I, l)
               PROVE  k = l
    OBVIOUS
  <2>1. k \in 1..Len(o) /\ l \in 1..Len(o)
    BY <1>1 DEF Places
  <2>2. Kth(I, k) \in Nat
    BY <1>1, <2>1
  <2> HIDE DEF o, I
  <2>3. ~(k < l) /\ ~(l < k)
    BY <1>1, <2>1, <2>2
  <2> QED
    BY <2>1, <2>3
<1>6. f \in Injection(Places(o, H), Places(s, H))
  BY <1>4, <1>5 DEF Injection, IsInjective
<1>7. Cardinality(Places(o, H)) <= Cardinality(Places(s, H))
  BY <1>3, <1>6, FS_Injection
<1> QED
  BY <1>2, <1>3, <1>7, FS_CardinalityType

-----------------------------------------------------------------------------
(* The memory of the buffer                                                  *)

HeavyOnes(o) == {e \in 1..Len(o) : o[e] \in Heavy}
Room(b, o) == Len(b) + Cardinality(Places(b, HeavyOnes(o)))

\* The entries that take more room, by their places in the buffer
LEMMA RoomIs ==
  ASSUME NEW o \in Seq(Exec), NEW b \in Seq(1..Len(o))
  PROVE  /\ {i \in DOMAIN b : o[b[i]] \in Heavy} = Places(b, HeavyOnes(o))
         /\ Len(b) \in Nat /\ Cardinality(Places(b, HeavyOnes(o))) \in Nat
         /\ IsFiniteSet(Places(b, HeavyOnes(o)))
<1>1. \A i \in DOMAIN b : b[i] \in 1..Len(o)
  OBVIOUS
<1>2. {i \in DOMAIN b : o[b[i]] \in Heavy} = Places(b, HeavyOnes(o))
  BY <1>1, Zenon DEF Places, HeavyOnes
<1>3. IsFiniteSet(Places(b, HeavyOnes(o)))
  BY OnlyPicks
<1>4. Len(b) \in Nat
  OBVIOUS
<1> QED
  BY <1>2, <1>3, <1>4, FS_CardinalityType

\* The memory in use is the room of the buffer.
LEMMA MemoryIs == (SinkOK => Memory = Room(buffer, of)) /\ (SinkOK' => Memory' = Room(buffer', of'))
<1>1. SinkOK => Memory = Room(buffer, of)
  BY RoomIs DEF SinkOK, Memory, Room
<1>2. SinkOK' => Memory' = Room(buffer', of')
  BY RoomIs DEF SinkOK, Memory, Room
<1> QED
  BY <1>1, <1>2

\* A step that takes entries out of the buffer frees memory.
LEMMA MemoryShrinks ==
  ASSUME SinkOK, SinkOK', UNCHANGED of, Memory <= MaxMemory,
         buffer' \in {buffer, <<>>} \/ \E S : buffer' = Only(buffer, S)
  PROVE  Memory' <= MaxMemory
<1> DEFINE H == HeavyOnes(of)
<1>1. /\ Memory' = Len(buffer') + Cardinality(Places(buffer', H))
      /\ Len(buffer') \in Nat /\ Cardinality(Places(buffer', H)) \in Nat
  <2>1. of' \in Seq(Exec) /\ buffer' \in Seq(1..Len(of'))
    BY DEF SinkOK
  <2> QED
    BY <2>1, MemoryIs, RoomIs DEF Room
<1>2. /\ Memory = Len(buffer) + Cardinality(Places(buffer, H))
      /\ Len(buffer) \in Nat /\ Cardinality(Places(buffer, H)) \in Nat
  BY MemoryIs, RoomIs DEF Room, SinkOK
<1>3. MaxMemory \in Nat
  BY LogSinkAssumption
<1> HIDE DEF H
<1>4. CASE buffer' = buffer
  BY <1>1, <1>2, <1>4
<1>5. CASE buffer' = <<>>
  <2>1. Places(buffer', H) = {} /\ Len(buffer') = 0
    BY <1>5 DEF Places
  <2> QED
    BY <1>1, <1>3, <2>1, FS_EmptySet
<1>6. CASE \E S : buffer' = Only(buffer, S)
  <2>1. buffer \in Seq(1..Len(of))
    BY DEF SinkOK
  <2>2. /\ Len(buffer') <= Len(buffer)
        /\ Cardinality(Places(buffer', H)) <= Cardinality(Places(buffer, H))
    BY <1>6, <2>1, OnlyFewer
  <2> QED
    BY <1>1, <1>2, <1>3, <2>2
<1> QED
  BY <1>4, <1>5, <1>6

\* An entry that is added takes the room that HasRoom asked for.
LEMMA MemoryGrows ==
  ASSUME SinkOK, SinkOK', NEW x \in Exec, of' = Append(of, x),
         buffer' = Append(buffer, Len(of'))
  PROVE  Memory' = Memory + Weight(x)
<1>1. /\ of \in Seq(Exec) /\ Len(of') = Len(of) + 1 /\ of'[Len(of) + 1] = x
      /\ \A e \in 1..Len(of) : of'[e] = of[e]
  BY DEF SinkOK
<1>2. buffer \in Seq(1..Len(of)) /\ DOMAIN buffer = 1..Len(buffer) /\ Len(buffer) \in Nat
      /\ \A i \in DOMAIN buffer : buffer[i] \in 1..Len(of)
  BY DEF SinkOK
<1>3. /\ Len(buffer') = Len(buffer) + 1 /\ DOMAIN buffer' = 1..(Len(buffer) + 1)
      /\ buffer'[Len(buffer) + 1] = Len(of) + 1
      /\ \A i \in 1..Len(buffer) : buffer'[i] = buffer[i]
  BY <1>1, <1>2
<1> DEFINE P == {i \in DOMAIN buffer : of[buffer[i]] \in Heavy}
           Q == {i \in DOMAIN buffer' : of'[buffer'[i]] \in Heavy}
<1>4. ASSUME NEW i \in 1..Len(buffer) PROVE i \in Q <=> i \in P
  BY <1>1, <1>2, <1>3
<1>5. Len(buffer) + 1 \in Q <=> x \in Heavy
  BY <1>1, <1>2, <1>3
<1>6. Len(buffer) + 1 \notin P /\ P \subseteq 1..Len(buffer)
  BY <1>2
<1>7. \A i \in DOMAIN buffer' : i \in 1..Len(buffer) \/ i = Len(buffer) + 1
  BY <1>2, <1>3
<1>8. Q \subseteq DOMAIN buffer'
  OBVIOUS
<1>9. P = Places(buffer, HeavyOnes(of))
  BY RoomIs DEF SinkOK
<1>10. IsFiniteSet(P) /\ Cardinality(P) \in Nat
  BY <1>9, RoomIs DEF SinkOK
<1> HIDE DEF P, Q
<1>11. Q = P \/ x \in Heavy
  BY <1>4, <1>5, <1>6, <1>7, <1>8
<1>12. x \in Heavy => Q = P \cup {Len(buffer) + 1}
  BY <1>4, <1>5, <1>6, <1>7, <1>8
<1>13. x \in Heavy => Cardinality(Q) = Cardinality(P) + 1
  BY <1>6, <1>10, <1>12, FS_AddElement
<1>14. Memory = Len(buffer) + Cardinality(P) /\ Memory' = Len(buffer') + Cardinality(Q)
  BY DEF Memory, P, Q
<1>15. CASE x \in Heavy
  BY <1>2, <1>3, <1>10, <1>13, <1>14, <1>15 DEF Weight
<1>16. CASE x \notin Heavy
  <2>1. Q = P
    BY <1>11, <1>16
  <2> QED
    BY <1>2, <1>3, <1>10, <1>14, <1>16, <2>1 DEF Weight
<1> QED
  BY <1>15, <1>16

-----------------------------------------------------------------------------
(* Steps that move no entry                                                  *)

\* The invariant holds at the start.
LEMMA InitIsOK == Init => IInv
<1> SUFFICES ASSUME Init PROVE IInv
  OBVIOUS
<1>1. \A n : <<>> \in Seq(1..n) /\ Idle \in ThrRec(n) /\ Gone \in ThrRec(n)
  <2>1. \A n : <<>> \in Seq(1..n)
    OBVIOUS
  <2>2. Idle = [pc |-> "idle", op |-> "none", exec |-> None, batch |-> <<>>, rest |-> <<>>,
                ok |-> TRUE]
    BY DEF Idle
  <2>3. \A n : Idle \in ThrRec(n)
    BY <2>1, <2>2 DEF ThrRec, PC
  <2>4. PICK y : y = Idle
    OBVIOUS
  <2>5. \A n : [y EXCEPT !.pc = "off"] \in ThrRec(n)
    BY <2>3, <2>4 DEF ThrRec, PC
  <2> QED
    BY <2>1, <2>3, <2>4, <2>5 DEF Gone
<1>2. Len(of) = 0 /\ ToSet(<<>>) = {} /\ MaxLogs \in Nat /\ MaxCalls \in Nat
  BY LogSinkAssumption DEF Init, ToSet
<1>3. SinkOK
  BY <1>1, <1>2 DEF Init, SinkOK
<1>4. SettingsOK
  <2>1. mode \in Mode /\ storage \in Storage
    BY LogSinkAssumption DEF Init
  <2>2. running \in BOOLEAN /\ connected \in BOOLEAN
    BY Zenon DEF Init, NewLogSender
  <2>3. calls \in 0..MaxCalls
    BY <1>2 DEF Init
  <2> QED
    BY <2>1, <2>2, <2>3 DEF SettingsOK
<1>5. ThreadsOK
  BY <1>1 DEF Init, ThreadsOK
<1>6. Memory <= MaxMemory
  <2>1. {i \in DOMAIN buffer : of[buffer[i]] \in Heavy} = {} /\ Len(buffer) = 0
    BY DEF Init
  <2> QED
    BY <2>1, FS_EmptySet, LogSinkAssumption DEF Memory
<1>7. EntriesOK
  BY <1>2 DEF Init, EntriesOK, Rising, BufferBehind, NothingIsLost, SentOnceInOrder
<1>8. ASSUME NEW t \in Thread PROVE HandOK(t, thr[t])
  <2>1. thr[t].op = "none" /\ thr[t].batch = <<>> /\ thr[t].rest = <<>>
        /\ thr[t].pc \in {"idle", "off"}
    BY DEF Init, Idle, Gone
  <2>2. holder # t
    BY LogSinkAssumption DEF Init
  <2> QED
    BY <2>1, <2>2 DEF HandOK, Shape, InFlight, AgainOK, SentOK, ExecOK, BatchOK, BehindOK, Sending
<1> QED
  BY <1>3, <1>4, <1>5, <1>6, <1>7, <1>8, Together

\* What a goroutine has in hand is judged by these variables alone.
LEMMA HandStays ==
  ASSUME UNCHANGED <<of, buffer, stored, raced, resent, holder>>
  PROVE  \A t, y : HandOK(t, y) => HandOK(t, y)'
BY DEF HandOK, Shape, InFlight, AgainOK, SentOK, ExecOK, BatchOK, BehindOK, Stored, Follows

\* What it will have in hand, by the record it will have
LEMMA HandNext ==
  ASSUME NEW t \in Thread, NEW y, thr'[t] = y, HandOK(t, y)'
  PROVE  HandOK(t, thr[t])'
BY Zenon DEF HandOK, Shape, InFlight, AgainOK, SentOK, ExecOK, BatchOK, BehindOK, Todo

\* Nothing in hand
Quiet(y) == y.op = "none" /\ Shape(y)

\* A goroutine that has nothing in hand cannot break the invariant.
LEMMA QuietIsOK ==
  ASSUME NEW t, NEW y, Quiet(y)
  PROVE  /\ (holder # t => HandOK(t, y)) /\ ((holder # t)' => HandOK(t, y)')
         /\ y.batch = <<>> /\ y.rest = <<>>
BY DEF Quiet, HandOK, Shape, InFlight, AgainOK, SentOK, ExecOK, BatchOK, BehindOK, Sending

\* A step that only moves goroutines with nothing in hand keeps the invariant.
LEMMA QuietKeeps ==
  ASSUME IInv, UNCHANGED <<of, buffer, failed, stored, raced, resent, holder>>, SettingsOK',
         thr' \in [Thread -> ThrRec(Len(of))],
         \A t \in Thread : \/ thr'[t] = thr[t]
                           \/ /\ ~InFlight(thr[t]) /\ thr[t].batch = <<>> /\ thr[t].rest = <<>>
                              /\ Quiet(thr'[t])
  PROVE  IInv'
<1>1. SinkOK' /\ ThreadsOK' /\ Memory' <= MaxMemory
  BY Parts DEF SinkOK, ThreadsOK, Memory
<1>2. ToSet(<<>>) = {}
  BY DEF ToSet
<1>3. ASSUME NEW t \in Thread, NEW e, e \in ToSet(thr[t].batch) \cup ToSet(thr[t].rest)
      PROVE  thr'[t] = thr[t]
  BY <1>2, <1>3
<1>4. ASSUME NEW t \in Thread PROVE HandOK(t, thr[t])'
  <2>1. PICK y : y = thr'[t]
    OBVIOUS
  <2>2. HandOK(t, thr[t])
    BY Parts
  <2>3. CASE y = thr[t]
    BY <2>1, <2>2, <2>3, HandStays, HandNext
  <2>4. CASE ~InFlight(thr[t]) /\ Quiet(y)
    <3>1. holder' # t
      BY <2>2, <2>4 DEF HandOK
    <3> QED
      BY <2>1, <2>4, <3>1, QuietIsOK, HandNext
  <2> QED
    BY <2>1, <2>3, <2>4
<1>5. NothingIsLost'
  <2> SUFFICES ASSUME NEW e \in 1..Len(of) PROVE (Held(e) \/ Stored(e) \/ e \in raced)'
    BY DEF NothingIsLost
  <2>1. Held(e) \/ Stored(e) \/ e \in raced
    BY Parts DEF EntriesOK, NothingIsLost
  <2>2. Held(e) => Held(e)'
    BY <1>3 DEF Held
  <2> QED
    BY <2>1, <2>2 DEF Stored
<1>6. BufferBehind'
  <2> SUFFICES ASSUME NEW d \in Dest, NEW a \in ToSet(stored[d]), NEW e \in ToSet(buffer)
               PROVE  (Follows(a, e) \/ SentNow(a, e))'
    BY DEF BufferBehind
  <2>1. Follows(a, e) \/ SentNow(a, e)
    BY Parts DEF EntriesOK, BufferBehind
  <2>2. SentNow(a, e) => SentNow(a, e)'
    BY <1>3 DEF SentNow
  <2> QED
    BY <2>1, <2>2 DEF Follows
<1>7. EntriesOK'
  BY <1>5, <1>6, Parts DEF EntriesOK, SentOnceInOrder
<1> QED
  BY <1>1, <1>4, <1>7, Together

\* What a goroutine has in hand
LEMMA InHand ==
  ASSUME IInv, NEW t \in Thread
  PROVE  /\ thr[t] \in ThrRec(Len(of)) /\ Shape(thr[t]) /\ HandOK(t, thr[t])
         /\ thr[t].batch \in Seq(1..Len(of)) /\ thr[t].rest \in Seq(1..Len(of))
         /\ thr[t].pc \notin Sending \cup {"group"} => Quiet(thr[t])
<1>1. thr[t] \in ThrRec(Len(of)) /\ HandOK(t, thr[t])
  BY Parts DEF ThreadsOK
<1>2. thr[t].batch \in Seq(1..Len(of)) /\ thr[t].rest \in Seq(1..Len(of))
  BY <1>1 DEF ThrRec
<1> QED
  BY <1>1, <1>2 DEF HandOK, Shape, Quiet

\* The same for a step that moves one goroutine
LEMMA OneIsQuiet ==
  ASSUME IInv, UNCHANGED <<of, buffer, failed, stored, raced, resent, holder>>, SettingsOK',
         NEW t \in Thread, NEW y \in ThrRec(Len(of)), Quiet(y), thr' = [thr EXCEPT ![t] = y],
         Quiet(thr[t]) \/ (~InFlight(thr[t]) /\ thr[t].batch = <<>> /\ thr[t].rest = <<>>)
  PROVE  IInv'
<1>1. ~InFlight(thr[t]) /\ thr[t].batch = <<>> /\ thr[t].rest = <<>>
  BY QuietIsOK DEF Quiet, InFlight
<1>2. thr \in [Thread -> ThrRec(Len(of))]
  BY Parts DEF ThreadsOK
<1>3. thr' \in [Thread -> ThrRec(Len(of))]
  BY <1>2
<1>4. thr'[t] = y /\ \A u \in Thread : u # t => thr'[u] = thr[u]
  BY <1>2
<1> QED
  BY <1>1, <1>3, <1>4, QuietKeeps

\* It is idle, at the start of a step or gone.
LEMMA IdleIsQuiet ==
  ASSUME NEW p \in {"off", "idle", "closed", "flush", "retry"}
  PROVE  /\ \A n : [Idle EXCEPT !.pc = p] \in ThrRec(n) /\ Idle \in ThrRec(n) /\ Gone \in ThrRec(n)
         /\ Quiet([Idle EXCEPT !.pc = p]) /\ Quiet(Idle) /\ Quiet(Gone)
<1>1. PICK y : y = Idle
  OBVIOUS
<1>2. \A n : <<>> \in Seq(1..n)
  OBVIOUS
<1>3. Idle = [pc |-> "idle", op |-> "none", exec |-> None, batch |-> <<>>, rest |-> <<>>,
              ok |-> TRUE]
  BY DEF Idle
<1>4. \A n : y \in ThrRec(n)
  BY <1>1, <1>2, <1>3 DEF ThrRec, PC
<1>5. y.op = "none" /\ y.pc = "idle" /\ y.batch = <<>> /\ y.rest = <<>>
  BY <1>1, <1>3
<1>6. ASSUME NEW q \in {"off", "idle", "closed", "flush", "retry"}
      PROVE  Quiet([y EXCEPT !.pc = q]) /\ \A n : [y EXCEPT !.pc = q] \in ThrRec(n)
  <2>1. PICK z : z = [y EXCEPT !.pc = q]
    OBVIOUS
  <2>2. \A n : z \in ThrRec(n)
    BY <1>4, <2>1 DEF ThrRec, PC
  <2>3. z.op = "none" /\ z.pc = q /\ z.batch = <<>> /\ z.rest = <<>>
    <3>1. y \in ThrRec(0)
      BY <1>4
    <3> QED
      BY <1>5, <2>1, <3>1 DEF ThrRec
  <2> QED
    BY <2>1, <2>2, <2>3 DEF Quiet, Shape, InFlight, Sending
<1>7. Quiet(y)
  BY <1>5 DEF Quiet, Shape, InFlight, Sending
<1> QED
  BY <1>1, <1>4, <1>6, <1>7 DEF Gone

\* It goes on to a step at which it has nothing in hand.
LEMMA GoesQuiet ==
  ASSUME IInv, NEW t \in Thread, Quiet(thr[t]), NEW p \in {"added", "flush", "retry"},
         Goto(t, p)
  PROVE  \E y \in ThrRec(Len(of)) : Quiet(y) /\ thr' = [thr EXCEPT ![t] = y]
<1>1. PICK y : y = [thr[t] EXCEPT !.pc = p]
  OBVIOUS
<1>2. thr[t] \in ThrRec(Len(of))
  BY InHand
<1>3. y \in ThrRec(Len(of))
  BY <1>1, <1>2 DEF ThrRec, PC
<1>4. y.op = thr[t].op /\ y.pc = p /\ y.batch = thr[t].batch /\ y.rest = thr[t].rest
  BY <1>1, <1>2 DEF ThrRec
<1>5. Quiet(y)
  BY <1>4, QuietIsOK DEF Quiet, Shape, InFlight, Sending
<1>6. thr' = [thr EXCEPT ![t] = y]
  BY <1>1 DEF Goto
<1> QED
  BY <1>3, <1>5, <1>6

\* The setters, Start and Stop keep the types of the settings.
LEMMA SettingsKeep ==
  ASSUME IInv, NEW c \in Caller,
         Start(c) \/ Stop(c) \/ SetSendMode(c) \/ SetStorageType(c) \/ CallFlush(c)
           \/ FlushExecutionLogs(c)
  PROVE  SettingsOK'
<1>1. SettingsOK /\ calls' \in 0..MaxCalls
  <2>1. SettingsOK /\ Call
    BY Parts DEF Start, Stop, SetSendMode, SetStorageType, CallFlush, FlushExecutionLogs
  <2> QED
    BY <2>1, LogSinkAssumption DEF SettingsOK, Call
<1>2. mode' \in Mode /\ storage' \in Storage
  BY <1>1, LogSinkAssumption DEF SettingsOK, settings, Start, Stop, SetSendMode, SetStorageType,
     CallFlush, FlushExecutionLogs
<1>3. running' \in BOOLEAN /\ connected' \in BOOLEAN
  BY <1>1 DEF SettingsOK, settings, Start, Stop, SetSendMode, SetStorageType,
     CallFlush, FlushExecutionLogs, CloseSender
<1> QED
  BY <1>1, <1>2, <1>3 DEF SettingsOK

\* Start, the setters, the calls and the ticks of the loop
LEMMA QuietSteps ==
  ASSUME IInv, NEW t \in Thread,
         \/ t \in Caller /\ (Start(t) \/ SetSendMode(t) \/ SetStorageType(t) \/ CallFlush(t)
                             \/ AddLogEntry(t) \/ Added(t))
         \/ t \in Loop /\ (LoopFlushes(t) \/ LoopSkips(t) \/ LoopEnds(t))
  PROVE  IInv'
<1>1. UNCHANGED <<of, buffer, failed, stored, raced, resent, holder>>
  BY DEF Start, SetSendMode, SetStorageType, CallFlush, AddLogEntry, Added,
     LoopFlushes, LoopSkips, LoopEnds, sink
<1>2. SettingsOK'
  <2>1. CASE t \in Caller /\ (Start(t) \/ SetSendMode(t) \/ SetStorageType(t) \/ CallFlush(t))
    BY <2>1, SettingsKeep
  <2>2. CASE UNCHANGED <<settings, calls>>
    BY <2>2, Parts DEF SettingsOK, settings
  <2> QED
    BY <2>1, <2>2 DEF AddLogEntry, Added, LoopFlushes, LoopSkips, LoopEnds
<1>3. \A n : Quiet(Idle) /\ Quiet(Gone) /\ Idle \in ThrRec(n) /\ Gone \in ThrRec(n)
             /\ Quiet([Idle EXCEPT !.pc = "flush"]) /\ [Idle EXCEPT !.pc = "flush"] \in ThrRec(n)
  BY IdleIsQuiet
<1>4. \A u \in Thread : thr[u].pc \notin Sending \cup {"group"} => Quiet(thr[u])
  BY InHand
<1>5. CASE t \in Caller /\ Start(t)
  <2>1. PICK l \in Loop : At(l, "off") /\ thr' = [thr EXCEPT ![l] = Idle]
    BY <1>5 DEF Start
  <2>2. l \in Thread /\ Quiet(thr[l])
    BY <1>4, <2>1 DEF At, Thread, Sending
  <2> QED
    BY <1>1, <1>2, <1>3, <2>1, <2>2, OneIsQuiet
<1>6. CASE t \in Caller /\ (SetSendMode(t) \/ SetStorageType(t))
  <2>1. thr' = thr /\ thr \in [Thread -> ThrRec(Len(of))]
    BY <1>6, Parts DEF SetSendMode, SetStorageType, ThreadsOK
  <2> QED
    BY <1>1, <1>2, <2>1, QuietKeeps
<1>7. CASE t \in Caller /\ CallFlush(t)
  BY <1>1, <1>2, <1>4, <1>7, GoesQuiet, OneIsQuiet DEF CallFlush, At, Sending
<1>8. CASE t \in Caller /\ AddLogEntry(t)
  <2>1. PICK x \in Exec : thr' = [thr EXCEPT ![t].pc = "add", ![t].exec = x]
    BY <1>8 DEF AddLogEntry
  <2>2. thr[t] \in ThrRec(Len(of)) /\ Quiet(thr[t]) /\ thr \in [Thread -> ThrRec(Len(of))]
    BY <1>4, <1>8, InHand, Parts DEF AddLogEntry, At, Sending, ThreadsOK
  <2>3. PICK y : y = [thr[t] EXCEPT !.pc = "add", !.exec = x]
    OBVIOUS
  <2>4. y \in ThrRec(Len(of))
    BY <2>2, <2>3 DEF ThrRec, PC
  <2>5. /\ y.op = thr[t].op /\ y.pc = "add" /\ y.batch = thr[t].batch /\ y.rest = thr[t].rest
        /\ y.exec = x
    BY <2>2, <2>3 DEF ThrRec
  <2>6. Quiet(y)
    BY <2>2, <2>5, QuietIsOK DEF Quiet, Shape, InFlight, Sending
  <2>7. thr' = [thr EXCEPT ![t] = y]
    BY <2>1, <2>2, <2>3
  <2> QED
    BY <1>1, <1>2, <2>2, <2>4, <2>6, <2>7, OneIsQuiet
<1>9. CASE t \in Caller /\ Added(t)
  <2>1. Quiet(thr[t])
    BY <1>4, <1>9 DEF Added, At, Sending
  <2>2. \/ thr' = [thr EXCEPT ![t] = [Idle EXCEPT !.pc = "flush"]]
        \/ thr' = [thr EXCEPT ![t] = Idle]
    BY <1>9 DEF Added
  <2> QED
    BY <1>1, <1>2, <1>3, <2>1, <2>2, OneIsQuiet
<1>10. CASE t \in Loop /\ (LoopFlushes(t) \/ LoopSkips(t))
  <2>1. Quiet(thr[t])
    BY <1>4, <1>10 DEF LoopFlushes, LoopSkips, Waits, At, Sending
  <2> QED
    BY <1>1, <1>2, <1>10, <2>1, GoesQuiet, OneIsQuiet DEF LoopFlushes, LoopSkips
<1>11. CASE t \in Loop /\ LoopEnds(t)
  BY <1>1, <1>2, <1>3, <1>4, <1>11, OneIsQuiet DEF LoopEnds, At, Sending
<1> QED
  BY <1>5, <1>6, <1>7, <1>8, <1>9, <1>10, <1>11

\* Stop sends every waiting loop to the closed channel.
LEMMA StopKeeps ==
  ASSUME IInv, NEW c \in Caller, Stop(c)
  PROVE  IInv'
<1>1. /\ UNCHANGED <<of, buffer, failed, stored, raced, resent, holder>>
      /\ thr' = [t \in Thread |->
                   IF t \in Loop /\ At(t, "idle") THEN [Idle EXCEPT !.pc = "closed"] ELSE thr[t]]
  BY DEF Stop, sink
<1>2. SettingsOK'
  BY SettingsKeep
<1>3. Quiet([Idle EXCEPT !.pc = "closed"]) /\ [Idle EXCEPT !.pc = "closed"] \in ThrRec(Len(of))
  BY IdleIsQuiet
<1>4. thr' \in [Thread -> ThrRec(Len(of))]
  BY <1>1, <1>3, InHand
<1>5. ASSUME NEW t \in Thread, thr'[t] # thr[t]
      PROVE  /\ ~InFlight(thr[t]) /\ thr[t].batch = <<>> /\ thr[t].rest = <<>>
             /\ Quiet(thr'[t])
  <2>1. At(t, "idle") /\ thr'[t] = [Idle EXCEPT !.pc = "closed"]
    BY <1>1, <1>5
  <2>2. Quiet(thr[t])
    BY <2>1, InHand DEF At, Sending
  <2> QED
    BY <1>3, <2>1, <2>2, QuietIsOK DEF Quiet, InFlight
<1> QED
  BY <1>1, <1>2, <1>4, <1>5, QuietKeeps

-----------------------------------------------------------------------------
(* The entries of a sequence                                                 *)

\* The entries of a sequence that is made longer
LEMMA EntriesOf ==
  /\ ToSet(<<>>) = {}
  /\ \A T : \A s \in Seq(T) : ToSet(s) \subseteq T
  /\ \A T : \A s \in Seq(T) : \A e \in T :
       Append(s, e) \in Seq(T) /\ ToSet(Append(s, e)) = ToSet(s) \cup {e}
  /\ \A T : \A s, u \in Seq(T) : s \o u \in Seq(T) /\ ToSet(s \o u) = ToSet(s) \cup ToSet(u)
<1>1. ToSet(<<>>) = {} /\ \A T : \A s \in Seq(T) : ToSet(s) \subseteq T
  BY DEF ToSet
<1>2. ASSUME NEW T, NEW s \in Seq(T), NEW e \in T
      PROVE  Append(s, e) \in Seq(T) /\ ToSet(Append(s, e)) = ToSet(s) \cup {e}
  <2>1. PICK a : a = Append(s, e)
    OBVIOUS
  <2>2. /\ a \in Seq(T) /\ DOMAIN a = 1..(Len(s) + 1) /\ DOMAIN s = 1..Len(s) /\ Len(s) \in Nat
        /\ a[Len(s) + 1] = e /\ \A i \in 1..Len(s) : a[i] = s[i]
    BY <2>1
  <2>3. \A i \in DOMAIN a : i \in DOMAIN s \/ i = Len(s) + 1
    BY <2>2
  <2>4. DOMAIN s \subseteq DOMAIN a /\ Len(s) + 1 \in DOMAIN a
    BY <2>2
  <2>5. ToSet(a) \subseteq ToSet(s) \cup {e}
    BY <2>2, <2>3 DEF ToSet
  <2>6. ToSet(s) \cup {e} \subseteq ToSet(a)
    BY <2>2, <2>4 DEF ToSet
  <2> QED
    BY <2>1, <2>2, <2>5, <2>6
<1>3. ASSUME NEW T, NEW s \in Seq(T), NEW u \in Seq(T)
      PROVE  s \o u \in Seq(T) /\ ToSet(s \o u) = ToSet(s) \cup ToSet(u)
  <2>1. PICK a : a = s \o u
    OBVIOUS
  <2>2. /\ a \in Seq(T) /\ DOMAIN a = 1..(Len(s) + Len(u))
        /\ DOMAIN s = 1..Len(s) /\ Len(s) \in Nat /\ DOMAIN u = 1..Len(u) /\ Len(u) \in Nat
        /\ \A i \in 1..(Len(s) + Len(u)) : a[i] = IF i <= Len(s) THEN s[i] ELSE u[i - Len(s)]
    BY <2>1
  <2>3. \A i \in DOMAIN a : (i \in DOMAIN s /\ a[i] = s[i])
                            \/ (i - Len(s) \in DOMAIN u /\ a[i] = u[i - Len(s)])
    BY <2>2
  <2>4. \A i \in DOMAIN s : i \in DOMAIN a /\ a[i] = s[i]
    BY <2>2
  <2>5. \A j \in DOMAIN u : j + Len(s) \in DOMAIN a /\ a[j + Len(s)] = u[j]
    <3> SUFFICES ASSUME NEW j \in DOMAIN u
                 PROVE  j + Len(s) \in DOMAIN a /\ a[j + Len(s)] = u[j]
      OBVIOUS
    <3>1. j + Len(s) \in DOMAIN a /\ ~(j + Len(s) <= Len(s)) /\ (j + Len(s)) - Len(s) = j
      BY <2>2
    <3> QED
      BY <2>2, <3>1
  <2>6. ToSet(a) \subseteq ToSet(s) \cup ToSet(u)
    BY <2>3 DEF ToSet
  <2>7. ToSet(s) \cup ToSet(u) \subseteq ToSet(a)
    BY <2>4, <2>5 DEF ToSet
  <2> QED
    BY <2>1, <2>2, <2>6, <2>7
<1> QED
  BY <1>1, <1>2, <1>3

\* A new entry has the greatest number.
LEMMA AppendRising ==
  ASSUME NEW n \in Nat, NEW s \in Seq(1..n), Rising(s)
  PROVE  Rising(Append(s, n + 1)) /\ Append(s, n + 1) \in Seq(1..(n + 1))
<1>1. PICK a : a = Append(s, n + 1)
  OBVIOUS
<1>2. DOMAIN s = 1..Len(s) /\ Len(s) \in Nat /\ \A i \in DOMAIN s : s[i] \in 1..n
  OBVIOUS
<1>3. /\ DOMAIN a = 1..(Len(s) + 1) /\ a[Len(s) + 1] = n + 1 /\ Len(a) = Len(s) + 1
      /\ \A i \in 1..Len(s) : a[i] = s[i]
  BY <1>1
<1>4. Rising(a)
  <2> SUFFICES ASSUME NEW i \in DOMAIN a, NEW j \in DOMAIN a, i < j PROVE a[i] < a[j]
    BY DEF Rising
  <2>1. i \in DOMAIN s
    BY <1>2, <1>3
  <2>2. CASE j \in DOMAIN s
    BY <1>2, <1>3, <2>1, <2>2 DEF Rising
  <2>3. CASE j = Len(s) + 1
    <3>1. a[i] \in 1..n /\ a[j] = n + 1
      BY <1>2, <1>3, <2>1, <2>3
    <3> QED
      BY <3>1
  <2> QED
    BY <1>2, <1>3, <2>2, <2>3
<1>5. a \in Seq(1..(n + 1))
  <2>1. s \in Seq(1..(n + 1))
    <3>1. \A i \in 1..Len(s) : s[i] \in 1..(n + 1)
      BY <1>2
    <3> QED
      BY <1>2, <3>1
  <2>2. n + 1 \in 1..(n + 1)
    OBVIOUS
  <2> QED
    BY <1>1, <2>1, <2>2
<1> QED
  BY <1>1, <1>4, <1>5

\* What was typed with fewer entries stays typed with one more.
LEMMA MoreEntries ==
  ASSUME NEW n \in Nat
  PROVE  Seq(1..n) \subseteq Seq(1..(n + 1)) /\ ThrRec(n) \subseteq ThrRec(n + 1)
<1>1. ASSUME NEW s \in Seq(1..n) PROVE s \in Seq(1..(n + 1))
  <2>1. \A i \in 1..Len(s) : s[i] \in 1..n
    OBVIOUS
  <2>2. \A i \in 1..Len(s) : s[i] \in 1..(n + 1)
    BY <2>1
  <2> QED
    BY <2>2
<1> HIDE DEF PC
<1>2. ThrRec(n) \subseteq ThrRec(n + 1)
  BY <1>1 DEF ThrRec
<1> QED
  BY <1>1, <1>2

-----------------------------------------------------------------------------
(* An entry is added                                                         *)

\* AddToBuffer: the new entry is after every other.
LEMMA AddEntryKeeps ==
  ASSUME IInv, NEW c \in Caller, AddEntry(c)
  PROVE  IInv'
<1> DEFINE n == Len(of)
           x == thr[c].exec
<1>1. /\ c \in Thread /\ Quiet(thr[c]) /\ x \in Exec /\ thr[c].op = "none"
      /\ UNCHANGED <<failed, stored, settings, holder, calls, resent>>
  <2>1. c \in Thread /\ thr[c].pc = "add"
    BY DEF AddEntry, At, Thread
  <2>2. thr[c].pc \notin Sending \cup {"group"}
    BY <2>1 DEF Sending
  <2>3. Quiet(thr[c])
    BY <2>1, <2>2, InHand
  <2> QED
    BY <2>1, <2>3 DEF Quiet, Shape, AddEntry
<1>2. SettingsOK'
  BY <1>1, Parts DEF SettingsOK, settings
<1>3. CASE UNCHANGED <<of, buffer, raced>> /\ thr' = [thr EXCEPT ![c] = Idle]
  <2>1. Idle \in ThrRec(Len(of)) /\ Quiet(Idle)
    BY IdleIsQuiet
  <2> QED
    BY <1>1, <1>2, <1>3, <2>1, OneIsQuiet
<1>4. ASSUME HasRoom(x), n < MaxLogs, of' = Append(of, x), buffer' = Append(buffer, Len(of')),
             raced' = IF BeingSent(x) THEN raced \cup {Len(of')} ELSE raced, Goto(c, "added")
      PROVE  IInv'
  <2>1. /\ n \in Nat /\ Len(of') = n + 1 /\ of' \in Seq(Exec) /\ of'[n + 1] = x
        /\ \A e \in 1..n : of'[e] = of[e]
    BY <1>1, <1>4, Parts DEF SinkOK
  <2>2. /\ buffer' \in Seq(1..(n + 1)) /\ Rising(buffer')
        /\ ToSet(buffer') = ToSet(buffer) \cup {n + 1} /\ ToSet(buffer) \subseteq 1..n
    <3>1. buffer \in Seq(1..n) /\ Rising(buffer)
      BY Parts DEF SinkOK, EntriesOK
    <3>2. buffer' = Append(buffer, n + 1)
      BY <1>4, <2>1
    <3>3. buffer' \in Seq(1..(n + 1)) /\ Rising(buffer')
      BY <2>1, <3>1, <3>2, AppendRising
    <3>4. buffer \in Seq(1..(n + 1)) /\ n + 1 \in 1..(n + 1)
      BY <2>1, <3>1, MoreEntries
    <3> QED
      BY <3>1, <3>2, <3>3, <3>4, EntriesOf
  <2>3. /\ \A d \in Dest : stored[d] \in Seq(1..n) /\ ToSet(stored[d]) \subseteq 1..n
        /\ failed \in Seq(1..n) /\ raced \subseteq 1..n /\ resent \subseteq 1..n
    <3>1. \A d \in Dest : stored[d] \in Seq(1..n)
      BY Parts DEF SinkOK
    <3> QED
      BY <3>1, EntriesOf, Parts DEF SinkOK
  <2>4. /\ raced \subseteq raced' /\ raced' \subseteq raced \cup {n + 1}
        /\ (BeingSent(x) => n + 1 \in raced')
    BY <1>4, <2>1
  <2>5. SinkOK'
    <3>1. stored' \in [Dest -> Seq(1..(n + 1))]
      BY <1>1, <2>1, <2>3, Parts, MoreEntries DEF SinkOK
    <3>2. failed' \in Seq(1..(n + 1)) /\ raced' \subseteq 1..(n + 1) /\ resent' \subseteq 1..(n + 1)
      BY <1>1, <2>1, <2>3, <2>4, MoreEntries
    <3>3. n + 1 <= MaxLogs
      BY <1>4, <2>1, LogSinkAssumption
    <3> QED
      BY <2>1, <2>2, <3>1, <3>2, <3>3 DEF SinkOK
  <2>6. Memory' <= MaxMemory
    <3>1. Memory' = Memory + Weight(x)
      BY <1>1, <1>4, <2>5, Parts, MemoryGrows
    <3> QED
      BY <1>4, <3>1 DEF HasRoom
  <2>7. PICK y \in ThrRec(n) : Quiet(y) /\ thr' = [thr EXCEPT ![c] = y]
    BY <1>1, <1>4, GoesQuiet
  <2>8. /\ thr'[c] = y /\ \A t \in Thread : t # c => thr'[t] = thr[t]
        /\ thr' \in [Thread -> ThrRec(n + 1)]
    <3>1. thr \in [Thread -> ThrRec(n)]
      BY Parts DEF ThreadsOK
    <3>2. thr' \in [Thread -> ThrRec(n)]
      BY <2>7, <3>1
    <3>3. thr'[c] = y /\ \A t \in Thread : t # c => thr'[t] = thr[t]
      BY <1>1, <2>7, <3>1
    <3>4. ThrRec(n) \subseteq ThrRec(n + 1)
      BY <2>1, MoreEntries
    <3>5. thr' \in [Thread -> ThrRec(n + 1)]
      BY <3>2, <3>4
    <3> QED
      BY <3>3, <3>5
  <2>9. ThreadsOK'
    BY <1>1, <2>1, <2>8, Parts DEF ThreadsOK
  <2>10. \A d \in Dest : UNCHANGED Stored(d)
    BY <1>1 DEF Stored
  <2>11. ASSUME NEW t \in Thread PROVE HandOK(t, thr[t])'
    <3>1. CASE t = c
      <4>1. (holder # t)'
        BY <1>1, <3>1, Parts DEF HandOK, InFlight
      <4> QED
        BY <2>8, <2>7, <3>1, <4>1, QuietIsOK, HandNext
    <3>2. CASE t # c
      <4>1. PICK z : z = thr[t]
        OBVIOUS
      <4>2. HandOK(t, z) /\ z.batch \in Seq(1..n) /\ z.op = thr[t].op /\ z.exec = thr[t].exec
        BY <4>1, InHand
      <4>3. ToSet(z.batch) \subseteq 1..n
        BY <4>2, EntriesOf
      <4>4. Shape(z) /\ (InFlight(z) <=> holder' = t) /\ AgainOK(z)' /\ SentOK(z)'
        BY <1>1, <4>2 DEF HandOK, AgainOK, SentOK, Stored
      <4>5. ExecOK(z)'
        <5> SUFFICES ASSUME z.op = "exec"
                     PROVE  /\ \A b \in ToSet(z.batch) : of'[b] = z.exec
                            /\ \A e \in ToSet(buffer') :
                                 of'[e] = z.exec => e \in ToSet(z.batch) \cup raced'
          BY DEF ExecOK
        <5>1. /\ \A b \in ToSet(z.batch) : of[b] = z.exec
              /\ \A e \in ToSet(buffer) : of[e] = z.exec => e \in ToSet(z.batch) \cup raced
          BY <4>2 DEF HandOK, ExecOK
        <5>2. x = z.exec => BeingSent(x)
          BY <4>1 DEF BeingSent
        <5> QED
          BY <2>1, <2>2, <2>4, <4>3, <5>1, <5>2
      <4>6. BatchOK(z)'
        <5>1. \A b \in ToSet(z.batch) : b < n + 1
          BY <2>1, <4>3
        <5> QED
          BY <2>2, <4>2, <5>1 DEF HandOK, BatchOK
      <4>7. BehindOK(z)'
        BY <1>1, <2>1, <2>3, <4>2, <4>3 DEF HandOK, BehindOK, Follows
      <4> QED
        BY <2>8, <3>2, <4>1, <4>4, <4>5, <4>6, <4>7, HandNext DEF HandOK, Shape, InFlight
    <3> QED
      BY <3>1, <3>2
  <2>12. NothingIsLost'
    <3> SUFFICES ASSUME NEW e \in 1..(n + 1) PROVE (Held(e) \/ Stored(e) \/ e \in raced)'
      BY <2>1 DEF NothingIsLost
    <3>1. CASE e = n + 1
      BY <2>2, <3>1 DEF Held
    <3>2. CASE e \in 1..n
      <4>1. Held(e) \/ Stored(e) \/ e \in raced
        BY <3>2, Parts DEF EntriesOK, NothingIsLost
      <4>2. Held(e) => Held(e)'
        <5>1. ToSet(thr[c].batch) = {} /\ ToSet(thr[c].rest) = {}
          BY <1>1, QuietIsOK, EntriesOf
        <5> QED
          BY <1>1, <2>2, <2>8, <5>1 DEF Held
      <4> QED
        BY <1>1, <2>4, <4>1, <4>2 DEF Stored
    <3> QED
      BY <2>1, <3>1, <3>2
  <2>13. BufferBehind'
    <3> SUFFICES ASSUME NEW d \in Dest, NEW a \in ToSet(stored[d]), NEW e \in ToSet(buffer')
                 PROVE  Follows(a, e)' \/ SentNow(a, e)'
      BY <1>1 DEF BufferBehind
    <3>1. a \in 1..n
      BY <2>3
    <3>2. CASE e = n + 1
      <4>1. a < e
        BY <2>1, <3>1, <3>2
      <4> QED
        BY <4>1 DEF Follows
    <3>3. CASE e \in ToSet(buffer)
      <4>1. Follows(a, e) \/ SentNow(a, e)
        BY <3>3, Parts DEF EntriesOK, BufferBehind
      <4>2. e \in 1..n
        BY <2>2, <3>3
      <4>3. Follows(a, e) => Follows(a, e)'
        BY <1>1, <2>1, <3>1, <4>2 DEF Follows
      <4>4. SentNow(a, e) => SentNow(a, e)'
        BY <1>1, <2>1, <2>8, <4>2 DEF SentNow
      <4> QED
        BY <4>1, <4>3, <4>4
    <3> QED
      BY <2>2, <3>2, <3>3
  <2>14. SentOnceInOrder'
    <3>1. SentOnceInOrder
      BY Parts DEF EntriesOK
    <3>2. \A d \in Dest : \A i \in DOMAIN stored[d] : stored[d][i] \in 1..n
      BY <2>3
    <3> QED
      BY <1>1, <2>1, <3>1, <3>2 DEF SentOnceInOrder
  <2>15. EntriesOK'
    BY <1>1, <2>2, <2>12, <2>13, <2>14, Parts DEF EntriesOK
  <2> QED
    BY <1>2, <2>5, <2>6, <2>9, <2>11, <2>15, Together
<1> QED
  BY <1>3, <1>4 DEF AddEntry


-----------------------------------------------------------------------------
(* What a step of one goroutine leaves alone                                 *)

\* The mutex of the sink: no two goroutines flush at a time.
LEMMA OneHolder ==
  ASSUME IInv, NEW t \in Thread, NEW u \in Thread, InFlight(thr[t]), InFlight(thr[u])
  PROVE  t = u /\ holder = t
BY Parts DEF HandOK

\* While nobody has the mutex nobody flushes.
LEMMA NobodyHolds ==
  ASSUME IInv, holder = None, NEW t \in Thread
  PROVE  ~InFlight(thr[t]) /\ holder # t
<1>1. holder # t
  BY LogSinkAssumption
<1> QED
  BY <1>1, Parts DEF HandOK

\* The others keep what they have in hand: either none of them has the mutex, or the buffer
\* stays and what a destination gets was in a batch that failed.
LEMMA OthersKeep ==
  ASSUME IInv, NEW t \in Thread, UNCHANGED <<of, raced>>, resent \subseteq resent',
         \A d \in Dest : ToSet(stored[d]) \subseteq ToSet(stored'[d]),
         NEW u \in Thread, thr'[u] = thr[u], holder = u <=> holder' = u,
         \/ ~InFlight(thr[u])
         \/ /\ UNCHANGED buffer
            /\ \A d \in Dest : ToSet(stored'[d]) \subseteq ToSet(stored[d]) \cup resent'
  PROVE  HandOK(u, thr[u])'
<1>1. PICK z : z = thr[u]
  OBVIOUS
<1>2. HandOK(u, z)
  BY <1>1, Parts
<1>3. Shape(z) /\ (InFlight(z) <=> holder' = u)
  BY <1>2 DEF HandOK
<1>4. AgainOK(z)' /\ SentOK(z)'
  BY <1>2 DEF HandOK, AgainOK, SentOK, Stored
<1>5. CASE ~InFlight(z)
  BY <1>1, <1>3, <1>4, <1>5, HandNext
       DEF HandOK, Shape, InFlight, ExecOK, BatchOK, BehindOK
<1>6. CASE /\ UNCHANGED buffer
           /\ \A d \in Dest : ToSet(stored'[d]) \subseteq ToSet(stored[d]) \cup resent'
  <2>1. ExecOK(z)' /\ BatchOK(z)'
    BY <1>2, <1>6 DEF HandOK, ExecOK, BatchOK
  <2>2. BehindOK(z)'
    <3> SUFFICES ASSUME NEW d \in Dest, InFlight(z), Todo(z, d),
                        NEW a \in ToSet(stored'[d]), NEW e \in ToSet(z.batch)
                 PROVE  Follows(a, e)'
      BY DEF BehindOK
    <3>1. CASE a \in ToSet(stored[d])
      BY <1>2, <3>1 DEF HandOK, BehindOK, Follows
    <3>2. CASE a \in resent'
      BY <3>2 DEF Follows
    <3> QED
      BY <1>6, <3>1, <3>2
  <2> QED
    BY <1>1, <1>3, <1>4, <2>1, <2>2, HandNext DEF HandOK, Shape, InFlight
<1> QED
  BY <1>1, <1>5, <1>6

\* No entry is lost by a step that loses none of those that were held.
LEMMA KeptOrStored ==
  ASSUME IInv, UNCHANGED <<of, raced>>,
         \A d \in Dest : ToSet(stored[d]) \subseteq ToSet(stored'[d]),
         \A e \in 1..Len(of) : Held(e) => Held(e)' \/ Stored(e)' \/ e \in raced'
  PROVE  NothingIsLost'
<1> SUFFICES ASSUME NEW e \in 1..Len(of) PROVE (Held(e) \/ Stored(e) \/ e \in raced)'
  BY DEF NothingIsLost
<1>1. Held(e) \/ Stored(e) \/ e \in raced
  BY Parts DEF EntriesOK, NothingIsLost
<1> QED
  BY <1>1 DEF Stored

-----------------------------------------------------------------------------
(* A flush begins                                                            *)

\* Flush takes the whole buffer.
LEMMA FlushKeeps ==
  ASSUME IInv, NEW t \in Thread, Flush(t)
  PROVE  IInv'
<1>1. /\ At(t, "flush") /\ Quiet(thr[t]) /\ thr[t].op = "none"
      /\ UNCHANGED <<of, failed, stored, settings, calls, raced, resent>>
  BY InHand DEF Flush, At, Sending, Quiet
<1>2. SettingsOK'
  BY <1>1, Parts DEF SettingsOK, settings
<1>3. CASE UNCHANGED <<buffer, holder>> /\ thr' = [thr EXCEPT ![t] = Returned(t)]
  <2>1. Returned(t) \in ThrRec(Len(of)) /\ Quiet(Returned(t))
    BY IdleIsQuiet, Zenon DEF Returned
  <2> QED
    BY <1>1, <1>2, <1>3, <2>1, OneIsQuiet
<1>4. ASSUME holder = None, holder' = t, buffer' = <<>>,
             thr' = [thr EXCEPT ![t].pc = "send", ![t].op = "flush", ![t].batch = buffer]
      PROVE  IInv'
  <2>1. /\ thr \in [Thread -> ThrRec(Len(of))] /\ thr[t] \in ThrRec(Len(of))
        /\ buffer \in Seq(1..Len(of)) /\ thr[t].rest = <<>> /\ thr[t].batch = <<>>
    BY <1>1, Parts, InHand, QuietIsOK DEF ThreadsOK, SinkOK
  <2>2. PICK y : y = [thr[t] EXCEPT !.pc = "send", !.op = "flush", !.batch = buffer]
    OBVIOUS
  <2>3. y \in ThrRec(Len(of))
    BY <2>1, <2>2 DEF ThrRec, PC
  <2>4. y.pc = "send" /\ y.op = "flush" /\ y.batch = buffer /\ y.rest = <<>>
    BY <2>1, <2>2 DEF ThrRec
  <2>5. thr' = [thr EXCEPT ![t] = y]
    BY <1>4, <2>1, <2>2
  <2>6. /\ thr' \in [Thread -> ThrRec(Len(of))] /\ thr'[t] = y
        /\ \A u \in Thread : u # t => thr'[u] = thr[u]
    BY <2>1, <2>3, <2>5
  <2>7. SinkOK' /\ Memory' <= MaxMemory
    <3>1. <<>> \in Seq(1..Len(of)) /\ SinkOK
      BY Parts
    <3>2. SinkOK'
      BY <1>1, <1>4, <3>1 DEF SinkOK
    <3> QED
      BY <1>1, <1>4, <3>1, <3>2, Parts, MemoryShrinks
  <2>8. ThreadsOK'
    BY <1>1, <1>4, <2>6 DEF ThreadsOK
  <2>9. \A u \in Thread : ~InFlight(thr[u]) /\ holder # u
    BY <1>4, NobodyHolds
  <2>10. ASSUME NEW d \in Dest, NEW a \in ToSet(stored[d]), NEW e \in ToSet(buffer)
         PROVE  Follows(a, e)
    <3>1. Follows(a, e) \/ SentNow(a, e)
      BY Parts DEF EntriesOK, BufferBehind
    <3> QED
      BY <2>9, <3>1 DEF SentNow, InFlight
  <2>11. ASSUME NEW u \in Thread PROVE HandOK(u, thr[u])'
    <3>1. CASE u = t
      <4>1. Shape(y) /\ InFlight(y)
        BY <2>4 DEF Shape, InFlight, Sending
      <4>2. AgainOK(y)' /\ SentOK(y)' /\ ExecOK(y)'
        BY <2>4 DEF AgainOK, SentOK, ExecOK
      <4>3. BatchOK(y)'
        BY <1>4, <2>4, Parts, EntriesOf DEF EntriesOK, BatchOK
      <4>4. BehindOK(y)'
        BY <1>1, <2>4, <2>10 DEF BehindOK, Follows
      <4> QED
        BY <1>4, <2>6, <3>1, <4>1, <4>2, <4>3, <4>4, HandNext DEF HandOK, Shape, InFlight
    <3>2. CASE u # t
      BY <1>1, <1>4, <2>6, <2>9, <3>2, OthersKeep
    <3> QED
      BY <3>1, <3>2
  <2>12. NothingIsLost'
    <3>1. ASSUME NEW e, Held(e) PROVE Held(e)'
      <4>1. CASE e \in ToSet(buffer)
        BY <2>4, <2>6, <4>1 DEF Held
      <4>2. CASE e \in ToSet(failed)
        BY <1>1, <4>2 DEF Held
      <4>3. CASE \E u \in Thread : e \in ToSet(thr[u].batch) \cup ToSet(thr[u].rest)
        BY <2>1, <2>6, <4>3, EntriesOf DEF Held
      <4> QED
        BY <3>1, <4>1, <4>2, <4>3 DEF Held
    <3> QED
      BY <1>1, <3>1, KeptOrStored
  <2>13. EntriesOK'
    <3>1. Rising(<<>>) /\ ToSet(<<>>) = {}
      BY EntriesOf DEF Rising
    <3> QED
      BY <1>1, <1>4, <2>12, <3>1, Parts DEF EntriesOK, BufferBehind, SentOnceInOrder
  <2> QED
    BY <1>2, <2>7, <2>8, <2>11, <2>13, Together
<1> QED
  BY <1>1, <1>3, <1>4 DEF Flush, Lock


\* What is sent of an execution: its entries of the buffer, in order
LEMMA Chosen ==
  ASSUME NEW s \in Seq(1..Len(of)), NEW x
  PROVE  /\ OfExec(s, x) \in Seq(1..Len(of)) /\ NotOfExec(s, x) \in Seq(1..Len(of))
         /\ ToSet(OfExec(s, x)) = {e \in ToSet(s) : of[e] = x}
         /\ ToSet(NotOfExec(s, x)) = {e \in ToSet(s) : of[e] # x}
         /\ Rising(s) => Rising(OfExec(s, x)) /\ Rising(NotOfExec(s, x))
<1>1. OfExec(s, x) \in Seq(1..Len(of)) /\ NotOfExec(s, x) \in Seq(1..Len(of))
  BY OnlyIsSeq DEF OfExec, NotOfExec
<1>2. /\ ToSet(OfExec(s, x)) = ToSet(s) \cap {e \in 1..Len(of) : of[e] = x}
      /\ ToSet(NotOfExec(s, x)) = ToSet(s) \cap {e \in 1..Len(of) : of[e] # x}
  BY OnlySet DEF OfExec, NotOfExec
<1>3. ToSet(s) \subseteq 1..Len(of)
  BY EntriesOf
<1>4. Rising(s) => Rising(OfExec(s, x)) /\ Rising(NotOfExec(s, x))
  BY OnlyRising DEF OfExec, NotOfExec
<1> QED
  BY <1>1, <1>2, <1>3, <1>4

\* FlushExecutionLogs copies the entries of an execution.
LEMMA FlushExecutionLogsKeeps ==
  ASSUME IInv, NEW c \in Caller, FlushExecutionLogs(c)
  PROVE  IInv'
<1>1. /\ c \in Thread /\ Quiet(thr[c]) /\ thr[c].rest = <<>> /\ thr[c].batch = <<>>
      /\ holder = None /\ holder' = c /\ UNCHANGED <<sink, settings, raced, resent>>
  <2>1. c \in Thread /\ thr[c].pc \notin Sending \cup {"group"}
    BY DEF FlushExecutionLogs, At, Sending, Thread
  <2> QED
    BY <2>1, InHand, QuietIsOK DEF FlushExecutionLogs, Lock
<1>2. SettingsOK' /\ UNCHANGED <<of, buffer, failed, stored, raced, resent>>
  BY <1>1, SettingsKeep DEF sink
<1>3. PICK x \in Exec :
        thr' = [thr EXCEPT ![c] = [Idle EXCEPT !.pc = "send", !.op = "exec", !.exec = x,
                                               !.batch = OfExec(buffer, x)]]
  BY DEF FlushExecutionLogs
<1>4. PICK y : y = [Idle EXCEPT !.pc = "send", !.op = "exec", !.exec = x,
                                !.batch = OfExec(buffer, x)]
  OBVIOUS
<1>5. /\ buffer \in Seq(1..Len(of)) /\ Rising(buffer) /\ OfExec(buffer, x) \in Seq(1..Len(of))
      /\ ToSet(OfExec(buffer, x)) = {e \in ToSet(buffer) : of[e] = x}
      /\ Rising(OfExec(buffer, x))
  <2>1. buffer \in Seq(1..Len(of)) /\ Rising(buffer)
    BY Parts DEF SinkOK, EntriesOK
  <2> QED
    BY <2>1, Chosen
<1>6. y = [pc |-> "send", op |-> "exec", exec |-> x, batch |-> OfExec(buffer, x), rest |-> <<>>,
           ok |-> TRUE]
  BY <1>4 DEF Idle
<1>7. /\ y \in ThrRec(Len(of)) /\ y.pc = "send" /\ y.op = "exec" /\ y.exec = x
      /\ y.batch = OfExec(buffer, x) /\ y.rest = <<>>
  <2>1. <<>> \in Seq(1..Len(of))
    OBVIOUS
  <2>2. y \in ThrRec(Len(of))
    BY <1>5, <1>6, <2>1 DEF ThrRec, PC
  <2> QED
    BY <1>6, <2>2
<1>8. /\ thr' \in [Thread -> ThrRec(Len(of))] /\ thr'[c] = y
      /\ \A u \in Thread : u # c => thr'[u] = thr[u]
  <2>1. thr \in [Thread -> ThrRec(Len(of))] /\ thr' = [thr EXCEPT ![c] = y]
    BY <1>3, <1>4, Parts DEF ThreadsOK
  <2> QED
    BY <1>1, <1>7, <2>1
<1>9. SinkOK' /\ Memory' <= MaxMemory /\ ThreadsOK'
  BY <1>1, <1>2, <1>8, Parts DEF SinkOK, ThreadsOK, Memory
<1>10. \A u \in Thread : ~InFlight(thr[u]) /\ holder # u
  BY <1>1, NobodyHolds
<1>11. ASSUME NEW d \in Dest, NEW a \in ToSet(stored[d]), NEW e \in ToSet(buffer)
       PROVE  Follows(a, e)
  <2>1. Follows(a, e) \/ SentNow(a, e)
    BY Parts DEF EntriesOK, BufferBehind
  <2> QED
    BY <1>10, <2>1 DEF SentNow, InFlight
<1>12. ASSUME NEW u \in Thread PROVE HandOK(u, thr[u])'
  <2>1. CASE u = c
    <3>1. Shape(y) /\ InFlight(y)
      BY <1>7 DEF Shape, InFlight, Sending
    <3>2. AgainOK(y)' /\ SentOK(y)'
      BY <1>7 DEF AgainOK, SentOK
    <3>3. ExecOK(y)' /\ BatchOK(y)'
      BY <1>2, <1>5, <1>7 DEF ExecOK, BatchOK
    <3>4. BehindOK(y)'
      BY <1>2, <1>5, <1>7, <1>11 DEF BehindOK, Follows
    <3> QED
      BY <1>1, <1>8, <2>1, <3>1, <3>2, <3>3, <3>4, HandNext DEF HandOK, Shape, InFlight
  <2>2. CASE u # c
    BY <1>1, <1>2, <1>8, <1>10, <2>2, OthersKeep
  <2> QED
    BY <2>1, <2>2
<1>13. NothingIsLost'
  <2>1. ASSUME NEW e, Held(e) PROVE Held(e)'
    BY <1>1, <1>2, <1>8, <2>1, EntriesOf DEF Held
  <2> QED
    BY <1>1, <1>2, <2>1, KeptOrStored
<1>14. BufferBehind'
  BY <1>2, <1>11 DEF BufferBehind, Follows
<1>15. EntriesOK'
  BY <1>2, <1>13, <1>14, Parts DEF EntriesOK, SentOnceInOrder
<1> QED
  BY <1>2, <1>9, <1>12, <1>15, Together

-----------------------------------------------------------------------------
(* A loop sends again                                                        *)

\* RetryFailedLogs takes the failed entries.
LEMMA RetryFailedLogsKeeps ==
  ASSUME IInv, NEW l \in Loop, RetryFailedLogs(l)
  PROVE  IInv'
<1>1. /\ l \in Thread /\ Quiet(thr[l]) /\ thr[l].op = "none" /\ thr[l].rest = <<>>
      /\ thr[l].batch = <<>> /\ failed' = <<>>
      /\ UNCHANGED <<of, buffer, stored, settings, holder, calls, raced, resent>>
  <2>1. l \in Thread /\ thr[l].pc \notin Sending \cup {"group"}
    BY DEF RetryFailedLogs, At, Sending, Thread
  <2> QED
    BY <2>1, InHand, QuietIsOK DEF RetryFailedLogs, Quiet
<1>2. SettingsOK' /\ SinkOK' /\ Memory' <= MaxMemory /\ holder # l
  <2>1. <<>> \in Seq(1..Len(of))
    OBVIOUS
  <2>2. SettingsOK' /\ SinkOK'
    BY <1>1, <2>1, Parts DEF SettingsOK, settings, SinkOK
  <2>3. holder # l
    BY <1>1, Parts DEF HandOK, InFlight
  <2> QED
    BY <1>1, <2>2, <2>3, Parts DEF Memory
<1>3. PICK y : y = [Idle EXCEPT !.pc = "group", !.op = "retry", !.rest = failed]
  OBVIOUS
<1>4. y = [pc |-> "group", op |-> "retry", exec |-> None, batch |-> <<>>, rest |-> failed,
           ok |-> TRUE]
  BY <1>3 DEF Idle
<1>5. /\ y \in ThrRec(Len(of)) /\ y.pc = "group" /\ y.op = "retry"
      /\ y.batch = <<>> /\ y.rest = failed
  <2>1. <<>> \in Seq(1..Len(of)) /\ failed \in Seq(1..Len(of))
    BY Parts DEF SinkOK
  <2>2. y \in ThrRec(Len(of))
    BY <1>4, <2>1 DEF ThrRec, PC
  <2> QED
    BY <1>4, <2>2
<1>6. /\ thr' \in [Thread -> ThrRec(Len(of))] /\ thr'[l] = y
      /\ \A u \in Thread : u # l => thr'[u] = thr[u]
  <2>1. thr \in [Thread -> ThrRec(Len(of))] /\ thr' = [thr EXCEPT ![l] = y]
    BY <1>3, Parts DEF ThreadsOK, RetryFailedLogs
  <2> QED
    BY <1>1, <1>5, <2>1
<1>7. ThreadsOK'
  BY <1>1, <1>6, Parts DEF ThreadsOK
<1>8. ASSUME NEW u \in Thread PROVE HandOK(u, thr[u])'
  <2>1. CASE u = l
    <3>1. Shape(y) /\ ~InFlight(y)
      BY <1>5 DEF Shape, InFlight, Sending
    <3>2. AgainOK(y)'
      BY <1>1, <1>5, Parts, EntriesOf DEF EntriesOK, AgainOK
    <3>3. SentOK(y)' /\ ExecOK(y)' /\ BatchOK(y)' /\ BehindOK(y)'
      BY <1>5, <3>1 DEF SentOK, ExecOK, BatchOK, BehindOK, InFlight
    <3> QED
      BY <1>1, <1>2, <1>6, <2>1, <3>1, <3>2, <3>3, HandNext DEF HandOK, Shape, InFlight
  <2>2. CASE u # l
    BY <1>1, <1>6, <2>2, OthersKeep
  <2> QED
    BY <2>1, <2>2
<1>9. NothingIsLost'
  <2>1. ASSUME NEW e, Held(e) PROVE Held(e)'
    <3>1. CASE e \in ToSet(failed)
      BY <1>1, <1>5, <1>6, <3>1 DEF Held
    <3>2. CASE e \in ToSet(buffer)
      BY <1>1, <3>2 DEF Held
    <3>3. CASE \E u \in Thread : e \in ToSet(thr[u].batch) \cup ToSet(thr[u].rest)
      BY <1>1, <1>6, <3>3, EntriesOf DEF Held
    <3> QED
      BY <2>1, <3>1, <3>2, <3>3 DEF Held
  <2> QED
    BY <1>1, <2>1, KeptOrStored
<1>10. BufferBehind'
  <2> SUFFICES ASSUME NEW d \in Dest, NEW a \in ToSet(stored[d]), NEW e \in ToSet(buffer)
               PROVE  Follows(a, e)' \/ SentNow(a, e)'
    BY <1>1 DEF BufferBehind
  <2>1. Follows(a, e) \/ SentNow(a, e)
    BY Parts DEF EntriesOK, BufferBehind
  <2>2. SentNow(a, e) => SentNow(a, e)'
    BY <1>1, <1>6 DEF SentNow
  <2> QED
    BY <1>1, <2>1, <2>2 DEF Follows
<1>11. EntriesOK'
  BY <1>1, <1>9, <1>10, Parts, EntriesOf DEF EntriesOK, SentOnceInOrder
<1> QED
  BY <1>2, <1>7, <1>8, <1>11, Together

\* It splits them by execution.
LEMMA RetryGroupKeeps ==
  ASSUME IInv, NEW l \in Loop, RetryGroup(l)
  PROVE  IInv'
<1>1. /\ l \in Thread /\ thr[l].op = "retry" /\ thr[l].pc = "group" /\ thr[l].batch = <<>>
      /\ thr[l] \in ThrRec(Len(of)) /\ thr[l].rest \in Seq(1..Len(of)) /\ ~InFlight(thr[l])
      /\ UNCHANGED <<sink, settings, holder, calls, raced, resent>>
  <2>1. l \in Thread /\ thr[l].pc = "group"
    BY DEF RetryGroup, At, Thread
  <2>2. /\ thr[l] \in ThrRec(Len(of)) /\ thr[l].rest \in Seq(1..Len(of)) /\ Shape(thr[l])
    BY <2>1, InHand
  <2>3. thr[l].op \in {"none", "flush", "exec", "retry"}
    BY <2>2 DEF ThrRec
  <2> QED
    BY <2>1, <2>2, <2>3 DEF RetryGroup, Shape, InFlight, Sending
<1>2. /\ SettingsOK' /\ SinkOK' /\ Memory' <= MaxMemory /\ holder # l
      /\ UNCHANGED <<of, buffer, failed, stored>>
  <2>1. SettingsOK' /\ SinkOK' /\ UNCHANGED <<of, buffer, failed, stored>>
    BY <1>1, Parts DEF SettingsOK, settings, SinkOK, sink
  <2>2. holder # l
    BY <1>1, Parts DEF HandOK
  <2> QED
    BY <2>1, <2>2, Parts DEF Memory
<1>3. CASE thr[l].rest = <<>>
  <2>1. thr' = [thr EXCEPT ![l] = Select]
    BY <1>3 DEF RetryGroup
  <2>2. Select \in ThrRec(Len(of)) /\ Quiet(Select)
    BY IdleIsQuiet, Zenon DEF Select
  <2> QED
    BY <1>1, <1>2, <1>3, <2>1, <2>2, OneIsQuiet
<1>4. CASE thr[l].rest # <<>>
  <2> DEFINE r == thr[l].rest
  <2>1. PICK x : thr' = [thr EXCEPT ![l].pc = "send", ![l].batch = OfExec(r, x),
                                    ![l].rest = NotOfExec(r, x)]
    BY <1>4, Zenon DEF RetryGroup
  <2>2. /\ OfExec(r, x) \in Seq(1..Len(of)) /\ NotOfExec(r, x) \in Seq(1..Len(of))
        /\ ToSet(r) = ToSet(OfExec(r, x)) \cup ToSet(NotOfExec(r, x))
    <3>1. /\ OfExec(r, x) \in Seq(1..Len(of)) /\ NotOfExec(r, x) \in Seq(1..Len(of))
          /\ ToSet(OfExec(r, x)) = {e \in ToSet(r) : of[e] = x}
          /\ ToSet(NotOfExec(r, x)) = {e \in ToSet(r) : of[e] # x}
      BY <1>1, Chosen
    <3> QED
      BY <3>1
  <2>3. PICK y : y = [thr[l] EXCEPT !.pc = "send", !.batch = OfExec(r, x),
                                    !.rest = NotOfExec(r, x)]
    OBVIOUS
  <2>4. y \in ThrRec(Len(of))
    BY <1>1, <2>2, <2>3 DEF ThrRec, PC
  <2>5. /\ y.pc = "send" /\ y.op = "retry" /\ y.batch = OfExec(r, x) /\ y.rest = NotOfExec(r, x)
        /\ y.exec = thr[l].exec
    BY <1>1, <2>3 DEF ThrRec
  <2>6. /\ thr' \in [Thread -> ThrRec(Len(of))] /\ thr'[l] = y
        /\ \A u \in Thread : u # l => thr'[u] = thr[u]
    <3>1. thr \in [Thread -> ThrRec(Len(of))]
      BY Parts DEF ThreadsOK
    <3>2. thr' = [thr EXCEPT ![l] = y]
      BY <1>1, <2>1, <2>3, <3>1
    <3> QED
      BY <1>1, <2>4, <3>1, <3>2
  <2>7. ThreadsOK'
    BY <1>1, <1>2, <2>6, Parts DEF ThreadsOK
  <2>8. ASSUME NEW u \in Thread PROVE HandOK(u, thr[u])'
    <3>1. CASE u = l
      <4>1. Shape(y) /\ ~InFlight(y)
        BY <2>5 DEF Shape, InFlight, Sending
      <4>2. AgainOK(y)'
        <5>1. ToSet(r) \subseteq resent
          BY <1>1, Parts DEF HandOK, AgainOK
        <5> QED
          BY <1>1, <2>2, <2>5, <5>1 DEF AgainOK
      <4>3. SentOK(y)' /\ ExecOK(y)' /\ BatchOK(y)' /\ BehindOK(y)'
        BY <2>5, <4>1 DEF SentOK, ExecOK, BatchOK, BehindOK, InFlight
      <4> QED
        BY <1>1, <1>2, <2>6, <3>1, <4>1, <4>2, <4>3, HandNext DEF HandOK, Shape, InFlight
    <3>2. CASE u # l
      BY <1>1, <1>2, <2>6, <3>2, OthersKeep
    <3> QED
      BY <3>1, <3>2
  <2>9. NothingIsLost'
    <3>1. ASSUME NEW e, Held(e) PROVE Held(e)'
      <4>1. CASE e \in ToSet(buffer) \cup ToSet(failed)
        BY <1>2, <4>1 DEF Held
      <4>2. CASE \E u \in Thread : e \in ToSet(thr[u].batch) \cup ToSet(thr[u].rest)
        <5>1. PICK u \in Thread : e \in ToSet(thr[u].batch) \cup ToSet(thr[u].rest)
          BY <4>2
        <5>2. CASE u = l
          <6>1. e \in ToSet(y.batch) \cup ToSet(y.rest)
            BY <1>1, <2>2, <2>5, <5>1, <5>2, EntriesOf
          <6> QED
            BY <1>1, <2>6, <6>1 DEF Held
        <5>3. CASE u # l
          BY <2>6, <5>1, <5>3 DEF Held
        <5> QED
          BY <5>2, <5>3
      <4> QED
        BY <3>1, <4>1, <4>2 DEF Held
    <3> QED
      BY <1>1, <1>2, <3>1, KeptOrStored
  <2>10. BufferBehind'
    <3> SUFFICES ASSUME NEW d \in Dest, NEW a \in ToSet(stored[d]), NEW e \in ToSet(buffer)
                 PROVE  Follows(a, e)' \/ SentNow(a, e)'
      BY <1>2 DEF BufferBehind
    <3>1. Follows(a, e) \/ SentNow(a, e)
      BY Parts DEF EntriesOK, BufferBehind
    <3>2. SentNow(a, e) => SentNow(a, e)'
      BY <1>1, <1>2, <2>6 DEF SentNow
    <3> QED
      BY <1>1, <1>2, <3>1, <3>2 DEF Follows
  <2>11. EntriesOK'
    BY <1>1, <1>2, <2>9, <2>10, Parts DEF EntriesOK, SentOnceInOrder
  <2> QED
    BY <1>2, <2>7, <2>8, <2>11, Together
<1> QED
  BY <1>3, <1>4


-----------------------------------------------------------------------------
(* A destination receives                                                    *)

\* The first entries of a sequence
LEMMA FirstOnes ==
  ASSUME NEW T, NEW s \in Seq(T), NEW n \in 0..Len(s)
  PROVE  /\ SubSeq(s, 1, n) \in Seq(T) /\ ToSet(SubSeq(s, 1, n)) \subseteq ToSet(s)
         /\ n = Len(s) => ToSet(SubSeq(s, 1, n)) = ToSet(s)
         /\ Rising(s) => Rising(SubSeq(s, 1, n))
<1>1. PICK q : q = SubSeq(s, 1, n)
  OBVIOUS
<1>2. /\ q \in Seq(T) /\ DOMAIN q = 1..n /\ DOMAIN s = 1..Len(s) /\ Len(s) \in Nat
      /\ \A i \in 1..n : q[i] = s[i]
  BY <1>1
<1>3. \A i \in 1..n : i \in DOMAIN s
  BY <1>2
<1>4. ToSet(q) \subseteq ToSet(s)
  BY <1>2, <1>3 DEF ToSet
<1>5. n = Len(s) => ToSet(q) = ToSet(s)
  BY <1>2 DEF ToSet
<1>6. Rising(s) => Rising(q)
  BY <1>2, <1>3 DEF Rising
<1> QED
  BY <1>1, <1>2, <1>4, <1>5, <1>6

\* What a destination gets of a batch, after what it has
LEMMA StoresAre ==
  ASSUME IInv, NEW t \in Thread, NEW d \in Dest, NEW n \in 0..Size(t), Stores(t, d, n)
  PROVE  \E new \in Seq(1..Len(of)) :
           /\ stored' = [stored EXCEPT ![d] = stored[d] \o new]
           /\ ToSet(new) \subseteq ToSet(thr[t].batch)
           /\ n = Size(t) => ToSet(thr[t].batch) \subseteq ToSet(stored[d]) \cup ToSet(new)
           /\ Rising(thr[t].batch) => Rising(new)
<1> DEFINE b == thr[t].batch
           q == SubSeq(b, 1, n)
           S == Entry \ (resent \cap ToSet(stored[d]))
<1>1. b \in Seq(1..Len(of)) /\ ToSet(b) \subseteq 1..Len(of) /\ n \in 0..Len(b)
  BY InHand, EntriesOf DEF Size
<1>2. /\ q \in Seq(1..Len(of)) /\ ToSet(q) \subseteq ToSet(b)
      /\ n = Len(b) => ToSet(q) = ToSet(b)
      /\ Rising(b) => Rising(q)
  BY <1>1, FirstOnes
<1>3. PICK new : new = Only(q, S)
  OBVIOUS
<1>4. /\ new \in Seq(1..Len(of)) /\ ToSet(new) = ToSet(q) \cap S
      /\ Rising(q) => Rising(new)
  BY <1>2, <1>3, OnlyIsSeq, OnlySet, OnlyRising
<1>5. stored' = [stored EXCEPT ![d] = stored[d] \o new]
  BY <1>3 DEF Stores
<1>6. 1..Len(of) \subseteq Entry
  BY LogSinkAssumption, Parts DEF Entry, SinkOK
<1>7. n = Size(t) => ToSet(b) \subseteq ToSet(stored[d]) \cup ToSet(new)
  BY <1>1, <1>2, <1>4, <1>6 DEF Size
<1> QED
  BY <1>2, <1>4, <1>5, <1>7

\* Two places of a sequence that is made of two
LEMMA PlacesInTwo ==
  ASSUME NEW T, NEW s \in Seq(T), NEW u \in Seq(T),
         NEW i \in DOMAIN (s \o u), NEW j \in DOMAIN (s \o u), i < j
  PROVE  \/ i \in DOMAIN s /\ j \in DOMAIN s /\ (s \o u)[i] = s[i] /\ (s \o u)[j] = s[j]
         \/ (s \o u)[i] \in ToSet(s) /\ (s \o u)[j] \in ToSet(u)
         \/ \E k, l \in DOMAIN u : k < l /\ (s \o u)[i] = u[k] /\ (s \o u)[j] = u[l]
<1>1. PICK a : a = s \o u
  OBVIOUS
<1>2. /\ DOMAIN a = 1..(Len(s) + Len(u)) /\ i \in DOMAIN a /\ j \in DOMAIN a
      /\ DOMAIN s = 1..Len(s) /\ Len(s) \in Nat /\ DOMAIN u = 1..Len(u) /\ Len(u) \in Nat
      /\ \A k \in 1..(Len(s) + Len(u)) : a[k] = IF k <= Len(s) THEN s[k] ELSE u[k - Len(s)]
  BY <1>1
<1>3. CASE j <= Len(s)
  BY <1>1, <1>2, <1>3
<1>4. CASE ~(j <= Len(s)) /\ i <= Len(s)
  <2>1. a[j] = u[j - Len(s)] /\ j - Len(s) \in DOMAIN u /\ a[i] = s[i] /\ i \in DOMAIN s
    BY <1>2, <1>4
  <2> QED
    BY <1>1, <2>1 DEF ToSet
<1>5. CASE ~(j <= Len(s)) /\ ~(i <= Len(s))
  <2>1. /\ a[j] = u[j - Len(s)] /\ j - Len(s) \in DOMAIN u
        /\ a[i] = u[i - Len(s)] /\ i - Len(s) \in DOMAIN u /\ i - Len(s) < j - Len(s)
    BY <1>2, <1>5
  <2> QED
    BY <1>1, <2>1
<1> QED
  BY <1>2, <1>3, <1>4, <1>5

\* A destination gets all, some or none of a batch.
LEMMA DestinationKeeps ==
  ASSUME IInv, NEW t \in Thread, NEW d \in Dest, Todo(thr[t], d),
         NEW p \in {"mongodb", "sent"}, p = "mongodb" => d = "master", NEW ok \in BOOLEAN,
         thr' = [thr EXCEPT ![t].pc = p, ![t].ok = ok],
         UNCHANGED <<of, buffer, failed, settings, holder, calls, raced, resent>>,
         NEW n \in 0..Size(t), UNCHANGED stored \/ Stores(t, d, n),
         p = "sent" /\ ok => Stores(t, d, Size(t))
  PROVE  IInv'
<1> DEFINE b == thr[t].batch
<1>1. /\ thr[t] \in ThrRec(Len(of)) /\ Shape(thr[t]) /\ HandOK(t, thr[t])
      /\ b \in Seq(1..Len(of)) /\ thr[t].rest \in Seq(1..Len(of))
      /\ thr[t].pc \in {"send", "mongodb"} /\ thr[t].op \in {"flush", "exec", "retry"}
  <2>1. /\ thr[t] \in ThrRec(Len(of)) /\ Shape(thr[t]) /\ HandOK(t, thr[t])
        /\ b \in Seq(1..Len(of)) /\ thr[t].rest \in Seq(1..Len(of))
    BY InHand
  <2>2. thr[t].pc \in {"send", "mongodb"}
    BY DEF Todo
  <2>3. thr[t].op \in {"none", "flush", "exec", "retry"}
    BY <2>1 DEF ThrRec
  <2> QED
    BY <2>1, <2>2, <2>3 DEF Shape, Sending
<1>2. /\ InFlight(thr[t]) => Rising(b)
      /\ ~InFlight(thr[t]) => ToSet(b) \subseteq resent
  BY <1>1 DEF HandOK, AgainOK, BatchOK, InFlight
<1>3. PICK new \in Seq(1..Len(of)) :
        /\ stored' = [stored EXCEPT ![d] = stored[d] \o new]
        /\ ToSet(new) \subseteq ToSet(b)
        /\ Rising(b) => Rising(new)
        /\ p = "sent" /\ ok => ToSet(b) \subseteq ToSet(stored[d]) \cup ToSet(new)
  <2>1. /\ stored \in [Dest -> Seq(1..Len(of))] /\ stored[d] \in Seq(1..Len(of))
        /\ Size(t) \in 0..Size(t)
    <3>1. Len(b) \in Nat
      BY <1>1
    <3> QED
      BY <3>1, Parts DEF SinkOK, Size
  <2>2. CASE p = "sent" /\ ok
    BY <2>1, <2>2, StoresAre
  <2>3. CASE ~(p = "sent" /\ ok) /\ Stores(t, d, n)
    BY <2>3, StoresAre
  <2>4. CASE ~(p = "sent" /\ ok) /\ UNCHANGED stored
    <3>1. /\ <<>> \in Seq(1..Len(of)) /\ ToSet(<<>>) = {} /\ Rising(<<>>)
          /\ stored[d] \o <<>> = stored[d]
      BY <2>1, EntriesOf DEF Rising
    <3>2. stored' = [stored EXCEPT ![d] = stored[d] \o <<>>]
      BY <2>1, <2>4, <3>1
    <3> QED
      BY <2>4, <3>1, <3>2
  <2> QED
    BY <2>2, <2>3, <2>4
<1>4. /\ stored[d] \in Seq(1..Len(of)) /\ stored'[d] = stored[d] \o new
      /\ stored' \in [Dest -> Seq(1..Len(of))]
      /\ ToSet(stored'[d]) = ToSet(stored[d]) \cup ToSet(new)
      /\ \A c \in Dest : c # d => stored'[c] = stored[c]
  <2>1. stored \in [Dest -> Seq(1..Len(of))] /\ stored[d] \in Seq(1..Len(of))
    BY Parts DEF SinkOK
  <2>2. /\ stored[d] \o new \in Seq(1..Len(of))
        /\ ToSet(stored[d] \o new) = ToSet(stored[d]) \cup ToSet(new)
    BY <2>1, EntriesOf
  <2> QED
    BY <1>3, <2>1, <2>2
<1>5. \A c \in Dest : /\ ToSet(stored[c]) \subseteq ToSet(stored'[c])
                      /\ ToSet(stored'[c]) \subseteq ToSet(stored[c]) \cup ToSet(new)
                      /\ c # d => ToSet(stored'[c]) = ToSet(stored[c])
  BY <1>4
<1>6. PICK y : y = [thr[t] EXCEPT !.pc = p, !.ok = ok]
  OBVIOUS
<1>7. y \in ThrRec(Len(of))
  BY <1>1, <1>6 DEF ThrRec, PC
<1>8. /\ y.pc = p /\ y.op = thr[t].op /\ y.exec = thr[t].exec /\ y.batch = b
      /\ y.rest = thr[t].rest
  BY <1>1, <1>6 DEF ThrRec
<1>9. y.ok = ok
  BY <1>1, <1>6, Zenon DEF ThrRec
<1>10. /\ thr' \in [Thread -> ThrRec(Len(of))] /\ thr'[t] = y
       /\ \A u \in Thread : u # t => thr'[u] = thr[u]
  <2>1. thr \in [Thread -> ThrRec(Len(of))]
    BY Parts DEF ThreadsOK
  <2>2. thr' = [thr EXCEPT ![t] = y]
    BY <1>1, <1>6, <2>1
  <2> QED
    BY <1>7, <2>1, <2>2
<1>11. SettingsOK' /\ SinkOK' /\ Memory' <= MaxMemory /\ ThreadsOK'
  <2>1. SettingsOK' /\ SinkOK' /\ ThreadsOK'
    BY <1>4, <1>10, Parts DEF SettingsOK, settings, SinkOK, ThreadsOK
  <2> QED
    BY <2>1, Parts DEF Memory
<1>12. ASSUME NEW u \in Thread PROVE HandOK(u, thr[u])'
  <2>1. CASE u = t
    <3>1. Shape(y) /\ (InFlight(y) <=> holder' = t)
      BY <1>1, <1>8 DEF Shape, InFlight, Sending, HandOK
    <3>2. AgainOK(y)' /\ ExecOK(y)' /\ BatchOK(y)'
      BY <1>1, <1>8 DEF HandOK, AgainOK, ExecOK, BatchOK, InFlight
    <3>3. SentOK(y)'
      BY <1>3, <1>4, <1>8, <1>9 DEF SentOK, Stored
    <3>4. BehindOK(y)'
      <4> SUFFICES ASSUME NEW c \in Dest, InFlight(y), Todo(y, c),
                          NEW a \in ToSet(stored'[c]), NEW e \in ToSet(y.batch)
                   PROVE  Follows(a, e)'
        BY DEF BehindOK
      <4>1. c = "mongodb" /\ c # d
        BY <1>8 DEF Todo
      <4>2. a \in ToSet(stored[c]) /\ e \in ToSet(b) /\ InFlight(thr[t])
        BY <1>5, <1>8, <4>1 DEF InFlight
      <4>3. Todo(thr[t], c)
        BY <1>1, <4>1 DEF Todo
      <4> QED
        BY <1>1, <4>2, <4>3 DEF HandOK, BehindOK, Follows
    <3> QED
      BY <1>10, <2>1, <3>1, <3>2, <3>3, <3>4, HandNext DEF HandOK, Shape, InFlight
  <2>2. CASE u # t
    <3>1. InFlight(thr[u]) => ToSet(new) \subseteq resent
      BY <1>2, <1>3, <2>2, OneHolder
    <3> QED
      BY <1>5, <1>10, <2>2, <3>1, OthersKeep
  <2> QED
    BY <2>1, <2>2
<1>13. NothingIsLost'
  <2>1. ASSUME NEW e, Held(e) PROVE Held(e)'
    BY <1>8, <1>10, <2>1 DEF Held
  <2> QED
    BY <1>5, <2>1, KeptOrStored
<1>14. BufferBehind'
  <2> SUFFICES ASSUME NEW c \in Dest, NEW a \in ToSet(stored'[c]), NEW e \in ToSet(buffer)
               PROVE  Follows(a, e)' \/ SentNow(a, e)'
    BY DEF BufferBehind
  <2>1. CASE a \in ToSet(stored[c])
    <3>1. Follows(a, e) \/ SentNow(a, e)
      BY <2>1, Parts DEF EntriesOK, BufferBehind
    <3>2. SentNow(a, e) => SentNow(a, e)'
      BY <1>8, <1>10 DEF SentNow
    <3> QED
      BY <3>1, <3>2 DEF Follows
  <2>2. CASE a \in ToSet(b)
    <3>1. CASE thr[t].op = "flush"
      BY <1>1, <2>2, <3>1 DEF HandOK, BatchOK, Follows
    <3>2. CASE thr[t].op = "exec"
      <4>1. of[a] = thr[t].exec
        BY <1>1, <2>2, <3>2 DEF HandOK, ExecOK
      <4>2. CASE of[e] = thr[t].exec
        BY <1>8, <1>10, <2>2, <3>2, <4>2 DEF SentNow
      <4>3. CASE of[e] # thr[t].exec
        BY <4>1, <4>3 DEF Follows
      <4> QED
        BY <4>2, <4>3
    <3>3. CASE thr[t].op = "retry"
      BY <1>2, <2>2, <3>3 DEF InFlight, Follows
    <3> QED
      BY <1>1, <3>1, <3>2, <3>3
  <2> QED
    BY <1>3, <1>5, <2>1, <2>2
<1>15. SentOnceInOrder'
  <2> SUFFICES ASSUME NEW c \in Dest, NEW i \in DOMAIN stored'[c], NEW j \in DOMAIN stored'[c],
                      i < j
               PROVE  Follows(stored'[c][i], stored'[c][j])
    BY DEF SentOnceInOrder, Follows
  <2>1. CASE c # d
    BY <1>4, <2>1, Parts DEF EntriesOK, SentOnceInOrder, Follows
  <2>2. CASE c = d
    <3> DEFINE s == stored[d]
    <3>1. i \in DOMAIN (s \o new) /\ j \in DOMAIN (s \o new) /\ s \in Seq(1..Len(of))
      BY <1>4, <2>2
    <3>2. CASE /\ i \in DOMAIN s /\ j \in DOMAIN s /\ (s \o new)[i] = s[i]
               /\ (s \o new)[j] = s[j]
      BY <1>4, <2>2, <3>2, Parts DEF EntriesOK, SentOnceInOrder, Follows
    <3>3. CASE (s \o new)[i] \in ToSet(s) /\ (s \o new)[j] \in ToSet(new)
      <4>1. (s \o new)[j] \in ToSet(b)
        BY <1>3, <3>3
      <4>2. CASE InFlight(thr[t])
        BY <1>1, <1>4, <2>2, <3>3, <4>1, <4>2 DEF HandOK, BehindOK
      <4>3. CASE ~InFlight(thr[t])
        BY <1>2, <1>4, <2>2, <4>1, <4>3 DEF Follows
      <4> QED
        BY <4>2, <4>3
    <3>4. CASE \E k, l \in DOMAIN new : k < l /\ (s \o new)[i] = new[k] /\ (s \o new)[j] = new[l]
      <4>1. PICK k \in DOMAIN new, l \in DOMAIN new :
              k < l /\ stored'[c][i] = new[k] /\ stored'[c][j] = new[l]
        BY <1>4, <2>2, <3>4
      <4>2. CASE InFlight(thr[t])
        BY <1>2, <1>3, <4>1, <4>2 DEF Rising, Follows
      <4>3. CASE ~InFlight(thr[t])
        <5>1. new[k] \in ToSet(new)
          BY DEF ToSet
        <5> QED
          BY <1>2, <1>3, <4>1, <4>3, <5>1 DEF Follows
      <4> QED
        BY <4>2, <4>3
    <3> HIDE DEF s
    <3>5. \/ i \in DOMAIN s /\ j \in DOMAIN s /\ (s \o new)[i] = s[i] /\ (s \o new)[j] = s[j]
          \/ (s \o new)[i] \in ToSet(s) /\ (s \o new)[j] \in ToSet(new)
          \/ \E k, l \in DOMAIN new : k < l /\ (s \o new)[i] = new[k] /\ (s \o new)[j] = new[l]
      BY <1>3, <3>1, PlacesInTwo, SMTT(60)
    <3> QED
      BY <3>2, <3>3, <3>4, <3>5, Zenon
  <2> QED
    BY <2>1, <2>2
<1>16. EntriesOK'
  BY <1>13, <1>14, <1>15, Parts DEF EntriesOK
<1> QED
  BY <1>11, <1>12, <1>16, Together


\* The four outcomes of SendBatch
LEMMA DestinationsKeep ==
  ASSUME IInv, NEW t \in Thread,
         ToMaster(t) \/ ToMasterFails(t) \/ ToMongoDB(t) \/ ToMongoDBFails(t)
  PROVE  IInv'
<1>1. /\ UNCHANGED <<of, buffer, failed, settings, holder, calls, raced, resent>>
      /\ thr \in [Thread -> ThrRec(Len(of))] /\ thr[t] \in ThrRec(Len(of))
      /\ thr[t].ok \in BOOLEAN /\ 0 \in 0..Size(t) /\ Size(t) \in 0..Size(t)
  <2>1. /\ thr \in [Thread -> ThrRec(Len(of))] /\ thr[t] \in ThrRec(Len(of))
        /\ thr[t].batch \in Seq(1..Len(of))
    BY InHand, Parts DEF ThreadsOK
  <2>2. Size(t) \in Nat
    BY <2>1 DEF Size
  <2>3. thr[t].ok \in BOOLEAN
    BY <2>1, Zenon DEF ThrRec
  <2>4. UNCHANGED <<of, buffer, failed, settings, holder, calls, raced, resent>>
    BY DEF ToMaster, ToMasterFails, ToMongoDB, ToMongoDBFails
  <2>5. 0 \in 0..Size(t) /\ Size(t) \in 0..Size(t)
    BY <2>2
  <2> QED
    BY <2>1, <2>3, <2>4, <2>5, Zenon
<1>2. ASSUME NEW p, NEW ok, thr' = [thr EXCEPT ![t].ok = ok, ![t].pc = p]
      PROVE  thr' = [thr EXCEPT ![t].pc = p, ![t].ok = ok]
  BY <1>1, <1>2 DEF ThrRec
<1>3. CASE ToMaster(t)
  <2>1. PICK p \in {"mongodb", "sent"} : thr' = [thr EXCEPT ![t].pc = p, ![t].ok = TRUE]
    BY <1>2, <1>3 DEF ToMaster, MasterDone
  <2>2. Todo(thr[t], "master") /\ Stores(t, "master", Size(t)) /\ "master" \in Dest
    BY <1>3 DEF ToMaster, At, Todo, Dest
  <2> QED
    BY <1>1, <2>1, <2>2, DestinationKeeps
<1>4. CASE ToMasterFails(t)
  <2>1. PICK p \in {"mongodb", "sent"} : thr' = [thr EXCEPT ![t].pc = p, ![t].ok = FALSE]
    BY <1>2, <1>4 DEF ToMasterFails, MasterDone
  <2>2. /\ Todo(thr[t], "master") /\ "master" \in Dest
        /\ UNCHANGED stored \/ Stores(t, "master", Size(t))
    BY <1>4 DEF ToMasterFails, At, Todo, Dest
  <2> QED
    BY <1>1, <2>1, <2>2, DestinationKeeps
<1>5. CASE ToMongoDB(t)
  <2>1. thr' = [thr EXCEPT ![t].pc = "sent", ![t].ok = thr[t].ok]
    BY <1>1, <1>5 DEF ToMongoDB, Goto, ThrRec
  <2>2. Todo(thr[t], "mongodb") /\ Stores(t, "mongodb", Size(t)) /\ "mongodb" \in Dest
    BY <1>5 DEF ToMongoDB, MongoTurn, At, Todo, Dest
  <2> QED
    BY <1>1, <2>1, <2>2, DestinationKeeps
<1>6. CASE ToMongoDBFails(t)
  <2>1. thr' = [thr EXCEPT ![t].pc = "sent", ![t].ok = FALSE]
    BY <1>6 DEF ToMongoDBFails
  <2>2. Todo(thr[t], "mongodb") /\ "mongodb" \in Dest
    BY <1>6 DEF ToMongoDBFails, MongoTurn, At, Todo, Dest
  <2>3. \E n \in 0..Size(t) : UNCHANGED stored \/ Stores(t, "mongodb", n)
    BY <1>1, <1>6 DEF ToMongoDBFails
  <2> QED
    BY <1>1, <2>1, <2>2, <2>3, DestinationKeeps
<1> QED
  BY <1>3, <1>4, <1>5, <1>6

-----------------------------------------------------------------------------
(* A batch was sent, or was not                                              *)

\* The goroutine gives the mutex back and has in hand what it has yet to send again.
LEMMA ReturnIs ==
  ASSUME IInv, NEW t \in Thread, At(t, "sent"), SendReturns(t)
  PROVE  /\ \E y \in ThrRec(Len(of)) :
              /\ thr' = [thr EXCEPT ![t] = y] /\ Shape(y) /\ ~InFlight(y)
              /\ y.batch = <<>> /\ y.rest = thr[t].rest /\ y.pc # "sent"
              /\ y.op = "retry" => thr[t].op = "retry"
         /\ holder' \in Thread \cup {None} /\ holder' # t
         /\ \A u \in Thread : u # t => (holder = u <=> holder' = u)
<1>1. /\ thr[t] \in ThrRec(Len(of)) /\ thr[t].rest \in Seq(1..Len(of)) /\ Shape(thr[t])
      /\ thr[t].pc = "sent"
  BY InHand DEF At
<1>2. /\ holder' \in Thread \cup {None} /\ holder' # t
      /\ \A u \in Thread : u # t => (holder = u <=> holder' = u)
  BY LogSinkAssumption, Parts DEF SendReturns, ThreadsOK
<1>3. thr \in [Thread -> ThrRec(Len(of))]
  BY Parts DEF ThreadsOK
<1>4. CASE thr[t].op = "retry"
  <2>1. PICK y : y = [thr[t] EXCEPT !.pc = "group", !.batch = <<>>, !.ok = TRUE]
    OBVIOUS
  <2>2. thr' = [thr EXCEPT ![t] = y]
    BY <1>4, <2>1 DEF SendReturns, At
  <2>3. <<>> \in Seq(1..Len(of))
    OBVIOUS
  <2>4. y \in ThrRec(Len(of))
    BY <1>1, <2>1, <2>3 DEF ThrRec, PC
  <2>5. y.op = "retry" /\ y.pc = "group" /\ y.batch = <<>> /\ y.rest = thr[t].rest
    BY <1>1, <1>4, <2>1 DEF ThrRec
  <2>6. Shape(y) /\ ~InFlight(y)
    BY <2>5 DEF Shape, InFlight, Sending
  <2> QED
    BY <1>2, <1>4, <2>2, <2>4, <2>5, <2>6
<1>5. CASE thr[t].op # "retry"
  <2>1. PICK y : y = Returned(t)
    OBVIOUS
  <2>2. thr' = [thr EXCEPT ![t] = y]
    BY <1>5, <2>1 DEF SendReturns
  <2>3. y \in ThrRec(Len(of)) /\ Quiet(y)
    BY <2>1, IdleIsQuiet, Zenon DEF Returned
  <2>4. y.batch = <<>> /\ y.rest = thr[t].rest
    BY <1>1, <1>5, <2>3, QuietIsOK DEF Shape
  <2> QED
    BY <1>2, <2>2, <2>3, <2>4 DEF Quiet, Shape, InFlight, Sending
<1> QED
  BY <1>4, <1>5

\* What was sent is removed from the buffer and forgotten.
LEMMA SendSucceedsKeeps ==
  ASSUME IInv, NEW t \in Thread, SendSucceeds(t)
  PROVE  IInv'
<1>1. /\ At(t, "sent") /\ thr[t].pc = "sent" /\ thr[t].ok /\ HandOK(t, thr[t])
      /\ UNCHANGED <<of, failed, stored, settings, calls, raced, resent>>
  BY InHand DEF SendSucceeds, At
<1>2. PICK y \in ThrRec(Len(of)) :
        /\ thr' = [thr EXCEPT ![t] = y] /\ Shape(y) /\ ~InFlight(y)
        /\ y.batch = <<>> /\ y.rest = thr[t].rest /\ y.pc # "sent"
        /\ y.op = "retry" => thr[t].op = "retry"
  BY <1>1, ReturnIs DEF SendSucceeds
<1>3. /\ holder' \in Thread \cup {None} /\ holder' # t
      /\ \A u \in Thread : u # t => (holder = u <=> holder' = u)
  BY <1>1, ReturnIs DEF SendSucceeds
<1>4. /\ thr' \in [Thread -> ThrRec(Len(of))] /\ thr'[t] = y
      /\ \A u \in Thread : u # t => thr'[u] = thr[u]
  <2>1. thr \in [Thread -> ThrRec(Len(of))]
    BY Parts DEF ThreadsOK
  <2> QED
    BY <1>2, <2>1
<1>5. /\ \/ thr[t].op # "exec" /\ buffer' = buffer
         \/ thr[t].op = "exec" /\ buffer' = NotOfExec(buffer, thr[t].exec)
      /\ buffer \in Seq(1..Len(of)) /\ Rising(buffer)
  BY Parts DEF SendSucceeds, RemoveEntries, SinkOK, EntriesOK
<1>6. /\ buffer' \in Seq(1..Len(of)) /\ Rising(buffer') /\ ToSet(buffer') \subseteq ToSet(buffer)
      /\ \A e \in ToSet(buffer) : e \in ToSet(buffer')
                                  \/ (thr[t].op = "exec" /\ of[e] = thr[t].exec)
      /\ thr[t].op = "exec" => \A e \in ToSet(buffer') : of[e] # thr[t].exec
      /\ buffer' \in {buffer, <<>>} \/ \E S : buffer' = Only(buffer, S)
  <2>1. /\ NotOfExec(buffer, thr[t].exec) \in Seq(1..Len(of))
        /\ ToSet(NotOfExec(buffer, thr[t].exec)) = {e \in ToSet(buffer) : of[e] # thr[t].exec}
        /\ Rising(NotOfExec(buffer, thr[t].exec))
    BY <1>5, Chosen
  <2>2. \E S : NotOfExec(buffer, thr[t].exec) = Only(buffer, S)
    BY DEF NotOfExec
  <2> QED
    BY <1>5, <2>1, <2>2
<1>7. SettingsOK' /\ SinkOK' /\ ThreadsOK' /\ Memory' <= MaxMemory
  <2>1. SettingsOK' /\ SinkOK' /\ ThreadsOK'
    BY <1>1, <1>3, <1>4, <1>6, Parts DEF SettingsOK, settings, SinkOK, ThreadsOK
  <2> QED
    BY <1>1, <1>6, <2>1, Parts, MemoryShrinks
<1>8. ASSUME NEW u \in Thread PROVE HandOK(u, thr[u])'
  <2>1. CASE u = t
    <3>1. AgainOK(y)'
      BY <1>1, <1>2, EntriesOf DEF HandOK, AgainOK
    <3>2. SentOK(y)' /\ ExecOK(y)' /\ BatchOK(y)' /\ BehindOK(y)'
      BY <1>2 DEF SentOK, ExecOK, BatchOK, BehindOK, InFlight
    <3> QED
      BY <1>2, <1>3, <1>4, <2>1, <3>1, <3>2, HandNext DEF HandOK, Shape, InFlight
  <2>2. CASE u # t
    <3>1. InFlight(thr[u]) => UNCHANGED buffer
      BY <1>5, <2>2, OneHolder DEF InFlight
    <3> QED
      BY <1>1, <1>3, <1>4, <2>2, <3>1, OthersKeep
  <2> QED
    BY <2>1, <2>2
<1>9. NothingIsLost'
  <2>1. ASSUME NEW e, Held(e) PROVE Held(e)' \/ Stored(e)' \/ e \in raced'
    <3>1. CASE e \in ToSet(thr[t].batch)
      BY <1>1, <3>1 DEF HandOK, SentOK, Stored
    <3>2. CASE e \in ToSet(buffer)
      <4>1. CASE e \in ToSet(buffer')
        BY <4>1 DEF Held
      <4>2. CASE thr[t].op = "exec" /\ of[e] = thr[t].exec
        <5>1. e \in ToSet(thr[t].batch) \cup raced
          BY <1>1, <3>2, <4>2 DEF HandOK, ExecOK
        <5> QED
          BY <1>1, <3>1, <5>1
      <4> QED
        BY <1>6, <3>2, <4>1, <4>2
    <3>3. CASE e \in ToSet(failed)
      BY <1>1, <3>3 DEF Held
    <3>4. CASE \E u \in Thread : e \in ToSet(thr[u].batch) \cup ToSet(thr[u].rest)
      <4>1. PICK u \in Thread : e \in ToSet(thr[u].batch) \cup ToSet(thr[u].rest)
        BY <3>4
      <4> QED
        BY <1>2, <1>4, <3>1, <4>1 DEF Held
    <3> QED
      BY <2>1, <3>2, <3>3, <3>4 DEF Held
  <2> QED
    BY <1>1, <2>1, KeptOrStored
<1>10. BufferBehind'
  <2> SUFFICES ASSUME NEW d \in Dest, NEW a \in ToSet(stored[d]), NEW e \in ToSet(buffer')
               PROVE  Follows(a, e)' \/ SentNow(a, e)'
    BY <1>1 DEF BufferBehind
  <2>1. Follows(a, e) \/ SentNow(a, e)
    BY <1>6, Parts DEF EntriesOK, BufferBehind
  <2>2. SentNow(a, e) => SentNow(a, e)'
    BY <1>1, <1>4, <1>6 DEF SentNow
  <2> QED
    BY <1>1, <2>1, <2>2 DEF Follows
<1>11. EntriesOK'
  BY <1>1, <1>6, <1>9, <1>10, Parts DEF EntriesOK, SentOnceInOrder
<1> QED
  BY <1>7, <1>8, <1>11, Together

\* A batch that failed joins the failed entries.
LEMMA SendFailsKeeps ==
  ASSUME IInv, NEW t \in Thread, SendFails(t)
  PROVE  IInv'
<1>1. /\ At(t, "sent") /\ thr[t].pc = "sent" /\ HandOK(t, thr[t])
      /\ UNCHANGED <<of, buffer, stored, settings, calls, raced>>
      /\ failed' = failed \o thr[t].batch /\ resent' = resent \cup ToSet(thr[t].batch)
  BY InHand DEF SendFails, At, Failed
<1>2. PICK y \in ThrRec(Len(of)) :
        /\ thr' = [thr EXCEPT ![t] = y] /\ Shape(y) /\ ~InFlight(y)
        /\ y.batch = <<>> /\ y.rest = thr[t].rest /\ y.pc # "sent"
        /\ y.op = "retry" => thr[t].op = "retry"
  BY <1>1, ReturnIs DEF SendFails
<1>3. /\ holder' \in Thread \cup {None} /\ holder' # t
      /\ \A u \in Thread : u # t => (holder = u <=> holder' = u)
  BY <1>1, ReturnIs DEF SendFails
<1>4. /\ thr' \in [Thread -> ThrRec(Len(of))] /\ thr'[t] = y
      /\ \A u \in Thread : u # t => thr'[u] = thr[u]
  <2>1. thr \in [Thread -> ThrRec(Len(of))]
    BY Parts DEF ThreadsOK
  <2> QED
    BY <1>2, <2>1
<1>5. /\ failed' \in Seq(1..Len(of)) /\ ToSet(failed') = ToSet(failed) \cup ToSet(thr[t].batch)
      /\ ToSet(thr[t].batch) \subseteq 1..Len(of)
  <2>1. failed \in Seq(1..Len(of)) /\ thr[t].batch \in Seq(1..Len(of))
    BY InHand, Parts DEF SinkOK
  <2> QED
    BY <1>1, <2>1, EntriesOf
<1>6. SettingsOK' /\ SinkOK' /\ ThreadsOK' /\ Memory' <= MaxMemory
  <2>1. SettingsOK' /\ SinkOK' /\ ThreadsOK'
    BY <1>1, <1>3, <1>4, <1>5, Parts DEF SettingsOK, settings, SinkOK, ThreadsOK
  <2> QED
    BY <1>1, <2>1, Parts DEF Memory
<1>7. ASSUME NEW u \in Thread PROVE HandOK(u, thr[u])'
  <2>1. CASE u = t
    <3>1. AgainOK(y)'
      BY <1>1, <1>2, EntriesOf DEF HandOK, AgainOK
    <3>2. SentOK(y)' /\ ExecOK(y)' /\ BatchOK(y)' /\ BehindOK(y)'
      BY <1>2 DEF SentOK, ExecOK, BatchOK, BehindOK, InFlight
    <3> QED
      BY <1>2, <1>3, <1>4, <2>1, <3>1, <3>2, HandNext DEF HandOK, Shape, InFlight
  <2>2. CASE u # t
    BY <1>1, <1>3, <1>4, <2>2, OthersKeep
  <2> QED
    BY <2>1, <2>2
<1>8. NothingIsLost'
  <2>1. ASSUME NEW e, Held(e) PROVE Held(e)'
    <3>1. CASE e \in ToSet(buffer) \cup ToSet(failed) \cup ToSet(thr[t].batch)
      BY <1>1, <1>5, <3>1 DEF Held
    <3>2. CASE \E u \in Thread : e \in ToSet(thr[u].batch) \cup ToSet(thr[u].rest)
      <4>1. PICK u \in Thread : e \in ToSet(thr[u].batch) \cup ToSet(thr[u].rest)
        BY <3>2
      <4> QED
        BY <1>2, <1>4, <3>1, <4>1 DEF Held
    <3> QED
      BY <2>1, <3>1, <3>2 DEF Held
  <2> QED
    BY <1>1, <2>1, KeptOrStored
<1>9. BufferBehind'
  <2> SUFFICES ASSUME NEW d \in Dest, NEW a \in ToSet(stored[d]), NEW e \in ToSet(buffer)
               PROVE  Follows(a, e)' \/ SentNow(a, e)'
    BY <1>1 DEF BufferBehind
  <2>1. Follows(a, e) \/ SentNow(a, e)
    BY Parts DEF EntriesOK, BufferBehind
  <2>2. Follows(a, e) => Follows(a, e)'
    BY <1>1 DEF Follows
  <2>3. SentNow(a, e) => SentNow(a, e)' \/ a \in resent'
    BY <1>1, <1>4 DEF SentNow
  <2> QED
    BY <2>1, <2>2, <2>3 DEF Follows
<1>10. SentOnceInOrder'
  <2>1. SentOnceInOrder
    BY Parts DEF EntriesOK
  <2> QED
    BY <1>1, <2>1 DEF SentOnceInOrder
<1>11. EntriesOK'
  BY <1>1, <1>5, <1>8, <1>9, <1>10, Parts DEF EntriesOK
<1> QED
  BY <1>6, <1>7, <1>11, Together

-----------------------------------------------------------------------------
(* The specification                                                         *)

\* Every step keeps the invariant.
LEMMA NextKeeps == IInv /\ [Next]_vars => IInv'
<1> SUFFICES ASSUME IInv, [Next]_vars PROVE IInv'
  OBVIOUS
<1>1. CASE UNCHANGED vars
  <2>1. SettingsOK' /\ thr \in [Thread -> ThrRec(Len(of))]
    BY <1>1, Parts DEF vars, settings, SettingsOK, ThreadsOK
  <2> QED
    BY <1>1, <2>1, QuietKeeps DEF vars, sink
<1>2. ASSUME NEW c \in Caller, CallerStep(c) PROVE IInv'
  <2>1. c \in Thread
    BY DEF Thread
  <2> QED
    BY <1>2, <2>1, QuietSteps, StopKeeps, AddEntryKeeps, FlushExecutionLogsKeeps DEF CallerStep
<1>3. ASSUME NEW l \in Loop, LoopStep(l) PROVE IInv'
  <2>1. l \in Thread
    BY DEF Thread
  <2> QED
    BY <1>3, <2>1, QuietSteps, RetryFailedLogsKeeps, RetryGroupKeeps DEF LoopStep
<1>4. ASSUME NEW t \in Thread, SendStep(t) PROVE IInv'
  BY <1>4, FlushKeeps, DestinationsKeep, SendSucceedsKeeps, SendFailsKeeps DEF SendStep
<1> QED
  BY <1>1, <1>2, <1>3, <1>4 DEF Next

\* The invariant holds in every state of every behaviour.
THEOREM Invariance == Spec => []IInv
BY InitIsOK, NextKeeps, PTL DEF Spec

\* The variables keep their types, and the buffer never holds more than its memory has room
\* for (AddToBuffer refuses the entry, and every other step takes entries out).
THEOREM BufferFits == Spec => []TypeOK
<1>1. IInv => TypeOK
  BY DEF IInv
<1> QED
  BY <1>1, Invariance, PTL

\* Whatever fails, and however flushes, retries and restarts meet: every entry the buffer took
\* is in the buffer, among the failed ones, in the hands of a goroutine, or with a destination,
\* unless it was added between GetEntriesByExecutionID and RemoveEntriesByExecutionID.
THEOREM EntriesAreKept == Spec => []NothingIsLost
<1>1. IInv => NothingIsLost
  BY DEF IInv, EntriesOK
<1> QED
  BY <1>1, Invariance, PTL

\* The mutex that Flush and FlushExecutionLogs hold while they send is enough for every
\* destination to get the entries of an execution once and in order, as long as none of them
\* was in a batch that failed.
THEOREM SentInOrder == Spec => []SentOnceInOrder
<1>1. IInv => SentOnceInOrder
  BY DEF IInv, EntriesOK
<1> QED
  BY <1>1, Invariance, PTL
=============================================================================
