------------------------------- MODULE LogSink -------------------------------
(*****************************************************************************)
(* The log sink of a worker (pkg/worker/logsink): the buffer, the sender with *)
(* its list of failed entries, the loop that flushes and retries, and the     *)
(* callers that add entries, flush, start and stop.                           *)
(*                                                                           *)
(* The mutex of the sink is held by a flush for as long as it sends, and by   *)
(* Start, Stop and the setters. The buffer, the list of failed entries and    *)
(* the flag isRunning are used without it. Entries are numbered in the order  *)
(* in which the buffer takes them, and each belongs to an execution.          *)
(*****************************************************************************)
EXTENDS Naturals, Sequences, SequencesExt

CONSTANTS
  Exec,         \* executions
  Heavy,        \* executions whose entries take the room of two
  Caller,       \* goroutines of the worker that call the sink
  Loop,         \* flush loops: a restart can leave an old one behind
  None,         \* nobody, nothing
  Modes,        \* the send modes in use
  Storages,     \* the storage types in use
  BufferSize,   \* the entries that make the buffer full
  MaxMemory,    \* the room in its memory
  MaxLogs,      \* entries that are added (a bound)
  MaxCalls,     \* other calls (a bound)
  Env           \* what can go wrong

Mode == {"batch", "immediate", "full"}
Storage == {"master", "mongodb", "both"}
Dest == {"master", "mongodb"}
EnvKinds == {"SendFails", "AnswerLost", "Stop", "Settings"}
Thread == Caller \cup Loop
Entry == 1..MaxLogs

ASSUME LogSinkAssumption ==
  /\ Heavy \subseteq Exec /\ Caller \cap Loop = {} /\ None \notin Thread \cup Exec
  /\ Modes \subseteq Mode /\ Storages \subseteq Storage /\ Env \subseteq EnvKinds
  /\ BufferSize \in Nat \ {0} /\ MaxMemory \in Nat \ {0}
  /\ MaxLogs \in Nat /\ MaxCalls \in Nat

VARIABLES
  of,           \* the execution of each entry that was added
  buffer,       \* LogBuffer: the entries, in order
  failed,       \* LogSender: the entries to send again
  stored,       \* what the destinations have received
  mode, storage,
  running, connected,
  holder,       \* who has the mutex of the sink
  thr,          \* the goroutines
  calls,        \* calls so far, other than those that add an entry
  raced,        \* entries added while the logs of their execution were being sent
  resent        \* entries that were in a batch that failed

sink == <<of, buffer, failed, stored>>
settings == <<mode, storage, running, connected>>
vars == <<sink, settings, holder, thr, calls, raced, resent>>

Idle == [pc |-> "idle", op |-> "none", exec |-> None, batch |-> <<>>, rest |-> <<>>, ok |-> TRUE]
Gone == [Idle EXCEPT !.pc = "off"]

PC == {"off", "idle", "closed", "add", "added", "flush", "retry", "group", "send", "mongodb",
       "sent"}

Weight(x) == IF x \in Heavy THEN 2 ELSE 1

\* currentMemory
Memory == Len(buffer) + Cardinality({i \in DOMAIN buffer : of[buffer[i]] \in Heavy})

\* The entries of s that are in S, in their order. This is SelectSeq, said by the places of
\* the entries: the prover knows no definition of SelectSeq.
Kth(I, k) == CHOOSE i \in I : Cardinality({j \in I : j <= i}) = k

Only(s, S) ==
  LET I == {i \in DOMAIN s : s[i] \in S} IN [k \in 1..Cardinality(I) |-> s[Kth(I, k)]]

\* The types; the entries of the buffer fit into its memory.
TypeOK ==
  /\ of \in Seq(Exec) /\ Len(of) <= MaxLogs
  /\ buffer \in Seq(1..Len(of)) /\ Memory <= MaxMemory
  /\ failed \in Seq(1..Len(of)) /\ stored \in [Dest -> Seq(1..Len(of))]
  /\ mode \in Mode /\ storage \in Storage /\ running \in BOOLEAN /\ connected \in BOOLEAN
  /\ holder \in Thread \cup {None}
  /\ thr \in [Thread -> [pc : PC, op : {"none", "flush", "exec", "retry"},
                         exec : Exec \cup {None}, ok : BOOLEAN,
                         batch : Seq(1..Len(of)), rest : Seq(1..Len(of))]]
  /\ calls \in 0..MaxCalls
  /\ raced \subseteq 1..Len(of) /\ resent \subseteq 1..Len(of)

\* NewLogSender connects to MongoDB when the storage of the moment needs it, and never later.
NewLogSender(type) == type # "master"

Init ==
  /\ of = <<>> /\ buffer = <<>> /\ failed = <<>> /\ stored = [d \in Dest |-> <<>>]
  /\ mode \in Modes /\ storage \in Storages
  /\ running = FALSE /\ connected = NewLogSender(storage)
  /\ holder = None
  /\ thr = [t \in Thread |-> IF t \in Loop THEN Gone ELSE Idle]
  /\ calls = 0 /\ raced = {} /\ resent = {}

At(t, pc) == thr[t].pc = pc
Goto(t, pc) == thr' = [thr EXCEPT ![t].pc = pc]
Call == calls < MaxCalls /\ calls' = calls + 1
Free == holder = None
\* Mutant: the mutex is taken whoever has it.
Mutant_NoWait(t) == holder' = t

Lock(t) == holder = None /\ holder' = t

\* A loop goes back to its select, which finds the channel of the moment open or closed.
Select == IF running THEN [Idle EXCEPT !.pc = "idle"] ELSE [Idle EXCEPT !.pc = "closed"]

\* Where a goroutine goes on after a flush: the loop retries, whatever became of it.
Returned(t) == IF t \in Loop THEN [Idle EXCEPT !.pc = "retry"] ELSE Idle

(***************************************************************************)
(* Start and Stop                                                           *)
(***************************************************************************)
Start(c) ==
  /\ At(c, "idle") /\ Free /\ ~running /\ Call
  /\ running' = TRUE
  /\ \E l \in Loop : At(l, "off") /\ thr' = [thr EXCEPT ![l] = Idle]
  /\ UNCHANGED <<sink, mode, storage, connected, holder, raced, resent>>

\* FlushInternal refuses a sink that does not run.
FlushInternal(t) == running /\ buffer # <<>>

CloseSender == connected' = FALSE

\* The last flush of Stop comes after isRunning was cleared. The connection to
\* MongoDB is closed for good.
Stop(c) ==
  /\ "Stop" \in Env
  /\ At(c, "idle") /\ Free /\ running /\ Call
  /\ running' = FALSE
  /\ CloseSender
  /\ thr' = [t \in Thread |->
               IF t \in Loop /\ At(t, "idle") THEN [Idle EXCEPT !.pc = "closed"] ELSE thr[t]]
  /\ UNCHANGED <<sink, mode, storage, holder, raced, resent>>

SetSendMode(c) ==
  /\ "Settings" \in Env
  /\ At(c, "idle") /\ Free /\ Call
  /\ mode' \in Modes \ {mode}
  /\ UNCHANGED <<sink, storage, running, connected, holder, thr, raced, resent>>

SetStorageType(c) ==
  /\ "Settings" \in Env
  /\ At(c, "idle") /\ Free /\ Call
  /\ storage' \in Storages \ {storage}
  /\ UNCHANGED <<sink, mode, running, connected, holder, thr, raced, resent>>

(***************************************************************************)
(* Adding an entry                                                          *)
(***************************************************************************)

\* AddLogEntry reads isRunning without the mutex, and adds later.
AddLogEntry(c) ==
  /\ At(c, "idle") /\ running /\ Len(of) < MaxLogs
  /\ \E x \in Exec : thr' = [thr EXCEPT ![c].pc = "add", ![c].exec = x]
  /\ UNCHANGED <<sink, settings, holder, calls, raced, resent>>

\* Mutant: the entry itself is not counted.
Mutant_Overfull(x) == Memory < MaxMemory

HasRoom(x) == Memory + Weight(x) <= MaxMemory

\* Between GetEntriesByExecutionID and RemoveEntriesByExecutionID
BeingSent(x) ==
  \E t \in Thread : thr[t].op = "exec" /\ thr[t].exec = x

AddEntry(c) ==
  /\ At(c, "add")
  /\ IF HasRoom(thr[c].exec) /\ Len(of) < MaxLogs
     THEN /\ of' = Append(of, thr[c].exec)
          /\ buffer' = Append(buffer, Len(of'))
          /\ raced' = IF BeingSent(thr[c].exec) THEN raced \cup {Len(of')} ELSE raced
          /\ Goto(c, "added")
     ELSE /\ thr' = [thr EXCEPT ![c] = Idle]
          /\ UNCHANGED <<of, buffer, raced>>
  /\ UNCHANGED <<failed, stored, settings, holder, calls, resent>>

IsFull == Len(buffer) >= BufferSize \/ Memory >= MaxMemory

\* Both modes other than the batch mode flush from here.
FlushesNow == mode = "immediate" \/ (mode = "full" /\ IsFull)

Added(c) ==
  /\ At(c, "added")
  /\ thr' = [thr EXCEPT ![c] = IF FlushesNow THEN [Idle EXCEPT !.pc = "flush"] ELSE Idle]
  /\ UNCHANGED <<sink, settings, holder, calls, raced, resent>>

(***************************************************************************)
(* Flushing                                                                 *)
(***************************************************************************)
CallFlush(c) ==
  /\ At(c, "idle") /\ Call
  /\ Goto(c, "flush")
  /\ UNCHANGED <<sink, settings, holder, raced, resent>>

\* Flush takes the mutex, and GetBatch the whole buffer.
Flush(t) ==
  /\ At(t, "flush")
  /\ IF FlushInternal(t)
     THEN /\ Lock(t)
          /\ thr' = [thr EXCEPT ![t].pc = "send", ![t].op = "flush", ![t].batch = buffer]
          /\ buffer' = <<>>
     ELSE /\ Free
          /\ thr' = [thr EXCEPT ![t] = Returned(t)]
          /\ UNCHANGED <<buffer, holder>>
  /\ UNCHANGED <<of, failed, stored, settings, calls, raced, resent>>

OfExec(entries, x) == Only(entries, {e \in 1..Len(of) : of[e] = x})
NotOfExec(entries, x) == Only(entries, {e \in 1..Len(of) : of[e] # x})

\* FlushExecutionLogs sends a copy of the entries and leaves them in the buffer.
FlushExecutionLogs(c) ==
  /\ At(c, "idle") /\ running /\ Call
  /\ Lock(c)
  /\ \E x \in Exec :
       /\ OfExec(buffer, x) # <<>>
       /\ thr' = [thr EXCEPT ![c] = [Idle EXCEPT !.pc = "send", !.op = "exec", !.exec = x,
                                                 !.batch = OfExec(buffer, x)]]
  /\ UNCHANGED <<sink, settings, raced, resent>>

(***************************************************************************)
(* The flush loop. A tick may find that less than the interval has passed   *)
(* since the last flush; a select may find the ticker ready beside a closed *)
(* channel.                                                                 *)
(***************************************************************************)
Waits(l) == l \in Loop /\ (At(l, "idle") \/ At(l, "closed"))

\* Mutant: the loop leaves flushing to the callers in the other modes.
Mutant_OnlyInBatchMode(l) ==
  /\ Waits(l) /\ buffer # <<>> /\ mode = "batch"
  /\ Goto(l, "flush")
  /\ UNCHANGED <<sink, settings, holder, calls, raced, resent>>

LoopFlushes(l) ==
  /\ Waits(l) /\ buffer # <<>>
  /\ Goto(l, "flush")
  /\ UNCHANGED <<sink, settings, holder, calls, raced, resent>>

LoopSkips(l) ==
  /\ Waits(l) /\ ~IsFull /\ failed # <<>>
  /\ Goto(l, "retry")
  /\ UNCHANGED <<sink, settings, holder, calls, raced, resent>>

LoopEnds(l) ==
  /\ At(l, "closed")
  /\ thr' = [thr EXCEPT ![l] = Gone]
  /\ UNCHANGED <<sink, settings, holder, calls, raced, resent>>

\* RetryFailedLogs takes the whole list, without the mutex of the sink ...
RetryFailedLogs(l) ==
  /\ At(l, "retry")
  /\ thr' = [thr EXCEPT ![l] = [Idle EXCEPT !.pc = "group", !.op = "retry", !.rest = failed]]
  /\ failed' = <<>>
  /\ UNCHANGED <<of, buffer, stored, settings, holder, calls, raced, resent>>

\* ... and sends the entries of one execution after those of another.
RetryGroup(l) ==
  /\ At(l, "group")
  /\ IF thr[l].rest = <<>>
     THEN thr' = [thr EXCEPT ![l] = Select]
     ELSE \E e \in ToSet(thr[l].rest) :
            thr' = [thr EXCEPT ![l].pc = "send",
                               ![l].batch = OfExec(thr[l].rest, of[e]),
                               ![l].rest = NotOfExec(thr[l].rest, of[e])]
  /\ UNCHANGED <<sink, settings, holder, calls, raced, resent>>

(***************************************************************************)
(* SendBatch                                                                *)
(***************************************************************************)

\* The destination takes the batch, or the first entries of it before an error. That it
\* gets an entry of a failed batch again is not written down.
Stores(t, d, n) ==
  LET known == resent \cap ToSet(stored[d])
  IN stored' = [stored EXCEPT ![d] =
                  @ \o Only(SubSeq(thr[t].batch, 1, n), Entry \ known)]

Size(t) == Len(thr[t].batch)

MasterDone(t, ok) ==
  thr' = [thr EXCEPT ![t].ok = ok, ![t].pc = IF storage = "both" THEN "mongodb" ELSE "sent"]

ToMaster(t) ==
  /\ At(t, "send") /\ storage # "mongodb"
  /\ Stores(t, "master", Size(t)) /\ MasterDone(t, TRUE)
  /\ UNCHANGED <<of, buffer, failed, settings, holder, calls, raced, resent>>

ToMasterFails(t) ==
  /\ At(t, "send") /\ storage # "mongodb"
  /\ \/ "SendFails" \in Env /\ UNCHANGED stored
     \/ "AnswerLost" \in Env /\ Stores(t, "master", Size(t))
  /\ MasterDone(t, FALSE)
  /\ UNCHANGED <<of, buffer, failed, settings, holder, calls, raced, resent>>

\* SendBatch chooses once, so a batch that has gone to the master goes on from there.
MongoTurn(t) == At(t, "mongodb") \/ (At(t, "send") /\ storage = "mongodb")

ToMongoDB(t) ==
  /\ MongoTurn(t) /\ connected
  /\ Stores(t, "mongodb", Size(t))
  /\ Goto(t, "sent")
  /\ UNCHANGED <<of, buffer, failed, settings, holder, calls, raced, resent>>

ToMongoDBFails(t) ==
  /\ MongoTurn(t)
  /\ \/ ~connected /\ UNCHANGED stored
     \/ /\ connected /\ "SendFails" \in Env
        /\ \E n \in 0..Size(t) :
             /\ n = Size(t) => "AnswerLost" \in Env
             /\ Stores(t, "mongodb", n)
  /\ thr' = [thr EXCEPT ![t].pc = "sent", ![t].ok = FALSE]
  /\ UNCHANGED <<of, buffer, failed, settings, holder, calls, raced, resent>>

\* The mutex is given back and the caller goes on, after a retry with the next group.
SendReturns(t) ==
  /\ holder' = IF holder = t THEN None ELSE holder
  /\ thr' = [thr EXCEPT ![t] = IF At(t, "sent") /\ @.op = "retry"
                               THEN [@ EXCEPT !.pc = "group", !.batch = <<>>, !.ok = TRUE]
                               ELSE Returned(t)]

\* FlushExecutionLogs removes what the buffer now holds of the execution.
RemoveEntries(t) ==
  buffer' = IF thr[t].op = "exec" THEN NotOfExec(buffer, thr[t].exec) ELSE buffer

SendSucceeds(t) ==
  /\ At(t, "sent") /\ thr[t].ok
  /\ RemoveEntries(t)
  /\ SendReturns(t)
  /\ UNCHANGED <<of, failed, stored, settings, calls, raced, resent>>

\* Mutant: the batch that failed replaces those that failed before.
Mutant_Replaces(t) == thr[t].batch

Failed(t) == failed \o thr[t].batch

\* handleSendFailure
SendFails(t) ==
  /\ At(t, "sent") /\ ~thr[t].ok
  /\ failed' = Failed(t)
  /\ resent' = resent \cup ToSet(thr[t].batch)
  /\ SendReturns(t)
  /\ UNCHANGED <<of, buffer, stored, settings, calls, raced>>

SendStep(t) ==
  \/ Flush(t) \/ ToMaster(t) \/ ToMasterFails(t) \/ ToMongoDB(t) \/ ToMongoDBFails(t)
  \/ SendSucceeds(t) \/ SendFails(t)

CallerStep(c) ==
  \/ Start(c) \/ Stop(c) \/ SetSendMode(c) \/ SetStorageType(c)
  \/ AddLogEntry(c) \/ AddEntry(c) \/ Added(c)
  \/ CallFlush(c) \/ FlushExecutionLogs(c)

LoopStep(l) ==
  LoopFlushes(l) \/ LoopSkips(l) \/ LoopEnds(l) \/ RetryFailedLogs(l) \/ RetryGroup(l)

Next ==
  \/ \E c \in Caller : CallerStep(c)
  \/ \E l \in Loop : LoopStep(l)
  \/ \E t \in Thread : SendStep(t)

Spec == Init /\ [][Next]_vars

(***************************************************************************)
(* A goroutine that has taken the mutex goes on, a loop gets it in the end, *)
(* one of its ticks comes later than the interval, and a destination that   *)
(* it asks again and again about an execution answers. Nobody has to call.  *)
(***************************************************************************)
Answers(l, x) ==
  /\ \E e \in ToSet(thr[l].batch) : of[e] = x
  /\ ToMaster(l) \/ ToMongoDB(l)

Fairness ==
  /\ WF_vars(\E c \in Caller : SendStep(c))
  /\ \A l \in Loop : /\ WF_vars(LoopStep(l) \/ SendStep(l))
                     /\ SF_vars(LoopFlushes(l) \/ Flush(l))
                     /\ \A x \in Exec : SF_vars(Answers(l, x))

FairSpec == Spec /\ Fairness

(***************************************************************************)
(* Properties                                                               *)
(***************************************************************************)
Held(e) ==
  \/ e \in ToSet(buffer) \cup ToSet(failed)
  \/ \E t \in Thread : e \in ToSet(thr[t].batch) \cup ToSet(thr[t].rest)

Stored(e) == \E d \in Dest : e \in ToSet(stored[d])

\* Whatever fails, and whoever flushes beside whom: an entry the buffer took is kept by
\* the sink until a destination has it. Only one that was added while the logs of its
\* execution were being sent can be removed with them.
NothingIsLost == \A e \in 1..Len(of) : Held(e) \/ Stored(e) \/ e \in raced

\* A destination gets the entries of an execution once and in their order, except those
\* that were in a batch which failed: the mutex keeps flushes from overtaking one another.
SentOnceInOrder ==
  \A d \in Dest : \A i, j \in DOMAIN stored[d] :
    LET a == stored[d][i] b == stored[d][j]
    IN (i < j /\ of[a] = of[b] /\ {a, b} \cap resent = {}) => a < b

\* As long as the sink runs, an entry reaches a destination in the end, in every send
\* mode, and after however many failures.
CanSend == running /\ (connected \/ storage # "mongodb")
EntriesAreSent ==
  <>[]CanSend => \A e \in Entry : (e <= Len(of)) ~> (Stored(e) \/ e \in raced)
=============================================================================
