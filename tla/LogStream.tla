------------------------------ MODULE LogStream ------------------------------
(*****************************************************************************)
(* The log of one execution on the master, those who write it, and the        *)
(* streams that follow it: MasterLogManager (pkg/master/logmgr/logmgr.go),    *)
(* the SSE and WebSocket handlers of streaming.go and the log repository.     *)
(* Logs of different executions share nothing but the mutex of the manager,   *)
(* so one is enough.                                                          *)
(*                                                                           *)
(* The manager keeps ONE subscription for an execution: the next stream takes *)
(* it over, and whoever leaves first closes the channel that is there, his    *)
(* own or not. Pieces of output are numbered in the order of their writing.   *)
(*****************************************************************************)
EXTENDS Naturals, Sequences

CONSTANTS
  Writer,       \* goroutines that append output and set the status
  Stream,       \* connections
  Kinds,        \* the kinds of stream in use
  None,
  Capacity,     \* messages a subscription can hold, 100 in the code
  MaxOut,       \* pieces of output (a bound)
  MaxChan,      \* subscriptions made (a bound)
  Env           \* what else happens

\* sse, websocket: the two handlers of the API; plain: StreamLogOutput
Kind == {"sse", "websocket", "plain"}
\* StoreFails: MongoDB cannot be reached; Delete: old logs are deleted; Stale: a
\* subscription gets no message for ten minutes; Stop: the manager is stopped and started;
\* WriteFails: a client cannot be written to
EnvKinds == {"StoreFails", "Delete", "Stale", "Stop", "WriteFails"}

\* What the constants have to satisfy: assumed where the module is instantiated.
LogStreamAssumption ==
  /\ Kinds \subseteq Kind /\ Env \subseteq EnvKinds
  /\ Capacity \in Nat \ {0} /\ MaxOut \in Nat /\ MaxChan \in Nat
  /\ None \notin Nat

VARIABLES
  log,          \* the document of MongoDB, or None
  out,          \* pieces of output written so far
  writer,       \* the writers between two steps
  sub,          \* the channel in activeSubscriptions, or None
  chans,        \* all channels that were made: what they hold, and whether they are open
  stream,       \* the connections
  managed       \* the manager runs, and with it the cleanup of subscriptions

vars == <<log, out, writer, sub, chans, stream, managed>>

Status == {"running", "ended"}
Output == Seq(1..MaxOut)
Log == [output : Output, status : Status]

WriterIdle == [pc |-> "idle", piece |-> 0, copy |-> None]
Away == [pc |-> "away", kind |-> None, chan |-> None, shown |-> <<>>, buffer |-> <<>>]
\* A connection that has ended does not come back.
Gone == [Away EXCEPT !.pc = "gone"]

\* The channel in the map is open: nobody sends on a closed one, or closes it again.
TypeOK ==
  /\ log \in Log \cup {None} /\ out \in 0..MaxOut
  /\ writer \in [Writer -> [pc : {"idle", "save", "notify"}, piece : 0..MaxOut,
                            copy : Log \cup {None}]]
  /\ chans \in Seq([held : Output, open : BOOLEAN]) /\ Len(chans) <= MaxChan
  /\ \A c \in DOMAIN chans : Len(chans[c].held) <= Capacity
  /\ sub = None \/ (sub \in DOMAIN chans /\ chans[sub].open)
  /\ stream \in [Stream -> [pc : {"away", "history", "subscribe", "follow", "leave", "gone"},
                            kind : Kind \cup {None}, chan : (1..MaxChan) \cup {None},
                            shown : Output, buffer : Output]]
  /\ managed \in BOOLEAN

Init ==
  /\ log = [output |-> <<>>, status |-> "running"]
  /\ out = 0 /\ writer = [w \in Writer |-> WriterIdle]
  /\ sub = None /\ chans = <<>>
  /\ stream = [s \in Stream |-> Away]
  /\ managed = TRUE

(***************************************************************************)
(* The writers                                                              *)
(***************************************************************************)
NextPiece == out < MaxOut /\ out' = out + 1

\* AppendOutput reads the whole log ...
AppendReads(w) ==
  /\ writer[w].pc = "idle" /\ log # None /\ NextPiece
  /\ writer' = [writer EXCEPT ![w] = [pc |-> "save", piece |-> out', copy |-> log]]
  /\ UNCHANGED <<log, sub, chans, stream, managed>>

\* ... and puts it back, with its status of before, and even if it was deleted.
Appended(copy, piece) == [copy EXCEPT !.output = Append(@, piece)]

AppendSaves(w) ==
  /\ writer[w].pc = "save"
  /\ \/ /\ log' = Appended(writer[w].copy, writer[w].piece)
        /\ writer' = [writer EXCEPT ![w].pc = "notify", ![w].copy = None]
     \/ /\ "StoreFails" \in Env
        /\ writer' = [writer EXCEPT ![w] = WriterIdle] /\ UNCHANGED log
  /\ UNCHANGED <<out, sub, chans, stream, managed>>

\* UpdateLogStatus replaces the output; a log that is not there is no error.
UpdateLogStatus(w) ==
  /\ writer[w].pc = "idle" /\ NextPiece
  /\ \E s \in Status :
       log' = IF log = None THEN None ELSE [output |-> <<out'>>, status |-> s]
  /\ writer' = [writer EXCEPT ![w] = [pc |-> "notify", piece |-> out', copy |-> None]]
  /\ UNCHANGED <<sub, chans, stream, managed>>

\* notifySubscribers does not wait for room.
Notify(w) ==
  /\ writer[w].pc = "notify"
  /\ writer' = [writer EXCEPT ![w] = WriterIdle]
  /\ chans' = IF sub # None /\ Len(chans[sub].held) < Capacity
              THEN [chans EXCEPT ![sub].held = Append(@, writer[w].piece)] ELSE chans
  /\ UNCHANGED <<log, out, sub, stream, managed>>

(***************************************************************************)
(* Old logs: every log gets old, and one whose execution has not ended is   *)
(* old from the start, for its end is the zero time.                        *)
(***************************************************************************)
DeleteOldLogs ==
  /\ "Delete" \in Env /\ log # None
  /\ log' = None
  /\ UNCHANGED <<out, writer, sub, chans, stream, managed>>

(***************************************************************************)
(* Subscriptions. SSE and StreamLogOutput read the history first and        *)
(* subscribe then; WebSocket does it the other way round.                   *)
(***************************************************************************)
\* Mutant: every stream subscribes before it reads the history.
Mutant_SubscribesFirst(kind) == "subscribe"

First(kind) == IF kind = "websocket" THEN "subscribe" ELSE "history"
AfterSubscribe(kind) == IF First(kind) = "subscribe" THEN "history" ELSE "follow"

Goto(s, pc) == stream' = [stream EXCEPT ![s].pc = pc]

\* Mutant: the channel is closed and stays in the map.
Mutant_KeepsChannel ==
  /\ chans' = IF sub = None THEN chans ELSE [chans EXCEPT ![sub].open = FALSE]
  /\ UNCHANGED sub

\* The channel that is there is closed and taken out of the map in one critical section.
Close ==
  /\ sub' = None
  /\ chans' = IF sub = None THEN chans ELSE [chans EXCEPT ![sub].open = FALSE]

\* SubscribeToLogUpdates: a channel in the map is replaced, and stays open.
Subscribe(s) ==
  /\ stream[s].pc = "subscribe"
  /\ \/ /\ log # None /\ Len(chans) < MaxChan
        /\ chans' = Append(chans, [held |-> <<>>, open |-> TRUE])
        /\ sub' = Len(chans')
        /\ stream' = [stream EXCEPT ![s].chan = Len(chans'),
                                    ![s].pc = AfterSubscribe(stream[s].kind)]
     \/ /\ log = None \/ "StoreFails" \in Env
        /\ stream' = [stream EXCEPT ![s] = Gone]
        /\ UNCHANGED <<chans, sub>>
  /\ UNCHANGED <<log, out, writer, managed>>

\* UnsubscribeFromLogUpdates, deferred by every stream that has subscribed
Unsubscribe(s) ==
  /\ stream[s].pc = "leave"
  /\ Close
  /\ stream' = [stream EXCEPT ![s] = Gone]
  /\ UNCHANGED <<log, out, writer, managed>>

CleanupStaleSubscriptions ==
  /\ "Stale" \in Env /\ managed /\ sub # None
  /\ Close
  /\ UNCHANGED <<log, out, writer, stream, managed>>

Stop ==
  /\ "Stop" \in Env /\ managed
  /\ managed' = FALSE
  /\ Close
  /\ UNCHANGED <<log, out, writer, stream>>

Start ==
  /\ ~managed
  /\ managed' = TRUE
  /\ UNCHANGED <<log, out, writer, sub, chans, stream>>

(***************************************************************************)
(* The streams                                                              *)
(***************************************************************************)

\* The handlers of the API look for the log before they start.
Connect(s) ==
  /\ stream[s].pc = "away" /\ log # None /\ Len(chans) < MaxChan
  /\ \E k \in Kinds : stream' = [stream EXCEPT ![s] = [Away EXCEPT !.pc = First(k), !.kind = k]]
  /\ UNCHANGED <<log, out, writer, sub, chans, managed>>

AfterHistory(s) == IF stream[s].chan = None THEN "subscribe" ELSE "follow"

Shows(s, pieces) == [stream[s] EXCEPT !.shown = @ \o pieces]
Gathers(s, piece) == [stream[s] EXCEPT !.buffer = Append(@, piece)]

\* The history is written if the client asks for it, or by StreamLogOutput, which is done
\* when the log is.
History(s) ==
  /\ stream[s].pc = "history" /\ log # None
  /\ stream' = [stream EXCEPT ![s] =
       IF stream[s].kind = "plain" /\ log.status = "ended"
       THEN Gone ELSE [Shows(s, log.output) EXCEPT !.pc = AfterHistory(s)]]
  /\ UNCHANGED <<log, out, writer, sub, chans, managed>>

NoHistory(s) ==
  /\ stream[s].pc = "history"
  /\ IF stream[s].kind = "plain"
     THEN /\ log = None \/ Env \cap {"StoreFails", "WriteFails"} # {}
          /\ stream' = [stream EXCEPT ![s] = Gone]
     ELSE Goto(s, AfterHistory(s))
  /\ UNCHANGED <<log, out, writer, sub, chans, managed>>

Held(s) == chans[stream[s].chan].held
Taken(s) == [chans EXCEPT ![stream[s].chan].held = Tail(@)]

\* WebSocket gathers messages and writes them together.
Receive(s) ==
  /\ stream[s].pc = "follow" /\ Held(s) # <<>>
  /\ chans' = Taken(s)
  /\ stream' = [stream EXCEPT ![s] =
       IF stream[s].kind = "websocket" THEN Gathers(s, Head(Held(s)))
       ELSE Shows(s, <<Head(Held(s))>>)]
  /\ UNCHANGED <<log, out, writer, sub, managed>>

Flush(s) ==
  /\ stream[s].pc = "follow" /\ stream[s].buffer # <<>>
  /\ stream' = [stream EXCEPT ![s] = [Shows(s, @.buffer) EXCEPT !.buffer = <<>>]]
  /\ UNCHANGED <<log, out, writer, sub, chans, managed>>

\* What a WebSocket has gathered when its channel is closed is not written any more.
ChannelClosed(s) ==
  /\ stream[s].pc = "follow" /\ Held(s) = <<>> /\ ~chans[stream[s].chan].open
  /\ Goto(s, "leave")
  /\ UNCHANGED <<log, out, writer, sub, chans, managed>>

\* The handlers end after a minute without a message, SSE when its client is gone.
\* StreamLogOutput waits for ever.
Ends(s) ==
  /\ stream[s].pc = "follow" /\ stream[s].kind # "plain"
  /\ stream[s].kind = "websocket" => Held(s) = <<>>
  /\ Goto(s, "leave")
  /\ UNCHANGED <<log, out, writer, sub, chans, managed>>

WriteFails(s) ==
  /\ "WriteFails" \in Env /\ stream[s].pc = "follow"
  /\ \/ stream[s].kind = "plain" /\ Held(s) # <<>> /\ chans' = Taken(s)
     \/ stream[s].buffer # <<>> /\ UNCHANGED chans
  /\ Goto(s, "leave")
  /\ UNCHANGED <<log, out, writer, sub, managed>>

WriterStep(w) == AppendReads(w) \/ AppendSaves(w) \/ UpdateLogStatus(w) \/ Notify(w)

StreamStep(s) ==
  \/ Connect(s) \/ History(s) \/ NoHistory(s) \/ Subscribe(s) \/ Unsubscribe(s)
  \/ Receive(s) \/ Flush(s) \/ ChannelClosed(s) \/ Ends(s) \/ WriteFails(s)

Next ==
  \/ \E w \in Writer : WriterStep(w)
  \/ \E s \in Stream : StreamStep(s)
  \/ DeleteOldLogs \/ CleanupStaleSubscriptions \/ Stop \/ Start

Spec == Init /\ [][Next]_vars

(***************************************************************************)
(* Properties                                                               *)
(***************************************************************************)

\* What one writer wrote, a stream of SSE or of StreamLogOutput shows in the order of its
\* writing, however its subscription was taken over, closed or dropped meanwhile: a piece
\* may be missing, or come twice where history and subscription meet, but none comes
\* after a later one.
StreamsInOrder ==
  \A s \in Stream : stream[s].kind # "websocket" =>
    \A i, j \in DOMAIN stream[s].shown : i < j => stream[s].shown[i] <= stream[s].shown[j]
=============================================================================
