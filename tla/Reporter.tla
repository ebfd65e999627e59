------------------------------- MODULE Reporter -------------------------------
(*****************************************************************************)
(* The reporter of a worker (pkg/worker/executor/reporter.go), which tells    *)
(* the master of the output and the end of an execution. Output is gathered   *)
(* in a buffer that several goroutines flush: the loop of the reporter, one   *)
(* for every output that makes the buffer too large, and those that report    *)
(* an end. The mutex guards the buffer and the state of the reporter; nobody  *)
(* holds it while sending, except Stop, which then waits for itself.          *)
(* The buffers of different executions share the mutex only; this is one. The *)
(* master has no routes for these reports: what it would make of one, or of   *)
(* one that an attempt with a lost answer sends twice, is left out.           *)
(*****************************************************************************)
EXTENDS Naturals, Sequences, SequencesExt

CONSTANTS
  Caller,       \* goroutines that report
  Spare,        \* goroutines that flush a buffer that is too large (a bound)
  FlushLoop,    \* the goroutine of flushBufferLoop
  MaxOut,       \* pieces of output that are reported (a bound)
  MaxReports,   \* other reports that are made (a bound)
  Large,        \* a buffer of more pieces is flushed at once
  Attempts,     \* retryAttempts
  Env           \* what can go wrong

\* SendFails: an attempt to send gets no good answer; Stop: the reporter is stopped
EnvKinds == {"SendFails", "Stop"}

ASSUME ReporterAssumption ==
  /\ Env \subseteq EnvKinds
  /\ Caller \cap Spare = {} /\ FlushLoop \notin Caller \cup Spare
  /\ MaxOut \in Nat /\ MaxReports \in Nat /\ Large \in Nat /\ Attempts \in Nat \ {0}

Thread == Caller \cup Spare \cup {FlushLoop}

VARIABLES
  outputBuffer, \* the pieces of output that no flush has taken
  reported,     \* pieces reported so far
  isRunning,
  stuck,        \* Stop holds the mutex and waits for it
  hands,        \* the goroutines, and what each has in hand
  settled,      \* the pieces of flushes that have ended, sent or given up
  reports

vars == <<outputBuffer, reported, isRunning, stuck, hands, settled, reports>>

Piece == 1..MaxOut

\* of: the pieces that were reported when the report of an end began
Hand == [pc : {"off", "idle", "wait", "flush", "send", "report", "stuck"},
         batch : Seq(Piece), tries : 0..Attempts, ends : BOOLEAN, of : 0..MaxOut]

\* A goroutine with nothing in hand.
EmptyHand(pc) == [pc |-> pc, batch |-> <<>>, tries |-> 0, ends |-> FALSE, of |-> 0]
Idle == EmptyHand("idle")
Off == EmptyHand("off")

\* The types; the buffer and the goroutines hold pieces that were reported.
TypeOK ==
  /\ outputBuffer \in Seq(1..reported) /\ reported \in 0..MaxOut
  /\ isRunning \in BOOLEAN /\ stuck \in BOOLEAN
  /\ hands \in [Thread -> Hand]
  /\ settled \subseteq 1..reported
  /\ reports \in 0..MaxReports

Init ==
  /\ outputBuffer = <<>> /\ reported = 0
  /\ isRunning = FALSE /\ stuck = FALSE
  /\ hands = [t \in Thread |-> IF t \in Caller THEN Idle ELSE Off]
  /\ settled = {}
  /\ reports = 0

At(t, pc) == hands[t].pc = pc
Goto(t, pc) == hands' = [hands EXCEPT ![t].pc = pc]

\* A goroutine that has flushed: a report of an end goes on with the end, the loop waits
\* for its next tick.
Flushed(t) == IF t = FlushLoop THEN EmptyHand("wait")
              ELSE IF t \in Spare THEN Off
              ELSE [hands[t] EXCEPT !.pc = "report", !.batch = <<>>, !.tries = 0]

Start(c) ==
  /\ At(c, "idle") /\ ~stuck /\ ~isRunning
  /\ isRunning' = TRUE
  /\ Goto(FlushLoop, "wait")
  /\ UNCHANGED <<outputBuffer, reported, stuck, settled, reports>>

\* Stop closes the channel of the loop and calls a flush that takes the mutex it holds.
Stop(c) ==
  /\ "Stop" \in Env
  /\ At(c, "idle") /\ ~stuck /\ isRunning
  /\ isRunning' = FALSE /\ stuck' = TRUE
  /\ Goto(c, "stuck")
  /\ UNCHANGED <<outputBuffer, reported, settled, reports>>

\* Output is taken whether the reporter runs or not.
ReportOutput(c) ==
  /\ At(c, "idle") /\ ~stuck
  /\ reported < MaxOut /\ reported' = reported + 1
  /\ outputBuffer' = Append(outputBuffer, reported')
  /\ IF Len(outputBuffer') > Large
     THEN \E s \in Spare : /\ At(s, "off")
                            /\ hands' = [hands EXCEPT ![s] = EmptyHand("flush")]
     ELSE UNCHANGED hands
  /\ UNCHANGED <<isRunning, stuck, settled, reports>>

\* ReportCompletion flushes the output first.
ReportCompletion(c) ==
  /\ At(c, "idle") /\ reports < MaxReports /\ reports' = reports + 1
  /\ hands' = [hands EXCEPT ![c] = [pc |-> "flush", batch |-> <<>>, tries |-> 0,
                                    ends |-> TRUE, of |-> reported]]
  /\ UNCHANGED <<outputBuffer, reported, isRunning, stuck, settled>>

\* ReportStart, ReportError and ReportProgress only send.
ReportStatus(c) ==
  /\ At(c, "idle") /\ reports < MaxReports /\ reports' = reports + 1
  /\ Goto(c, "report")
  /\ UNCHANGED <<outputBuffer, reported, isRunning, stuck, settled>>

\* The select of the loop may find its ticker ready although its channel is closed.
FlushAllBuffers ==
  /\ At(FlushLoop, "wait") /\ ~stuck
  /\ Goto(FlushLoop, "flush")
  /\ UNCHANGED <<outputBuffer, reported, isRunning, stuck, settled, reports>>

LoopEnds ==
  /\ At(FlushLoop, "wait") /\ ~isRunning
  /\ hands' = [hands EXCEPT ![FlushLoop] = Off]
  /\ UNCHANGED <<outputBuffer, reported, isRunning, stuck, settled, reports>>

\* Mutant: the buffer is emptied when its output has been sent.
Mutant_EmptiedLater(t) ==
  /\ At(t, "flush") /\ ~stuck
  /\ IF outputBuffer = <<>>
     THEN hands' = [hands EXCEPT ![t] = Flushed(t)]
     ELSE hands' = [hands EXCEPT ![t].pc = "send", ![t].batch = outputBuffer]
  /\ UNCHANGED <<outputBuffer, reported, isRunning, stuck, settled, reports>>

FlushOutputBuffer(t) ==
  /\ At(t, "flush") /\ ~stuck
  /\ IF outputBuffer = <<>>
     THEN hands' = [hands EXCEPT ![t] = Flushed(t)]
     ELSE hands' = [hands EXCEPT ![t].pc = "send", ![t].batch = outputBuffer]
  /\ outputBuffer' = <<>>
  /\ UNCHANGED <<reported, isRunning, stuck, settled, reports>>

\* A send is over, with an answer or without one; output is not put back.
SendEnds(t) ==
  /\ hands' = [hands EXCEPT ![t] = IF At(t, "send") THEN Flushed(t) ELSE Idle]
  /\ settled' = settled \cup ToSet(hands[t].batch)

SendReport(t) ==
  /\ hands[t].pc \in {"send", "report"}
  /\ SendEnds(t)
  /\ UNCHANGED <<outputBuffer, reported, isRunning, stuck, reports>>

\* An attempt fails, the last one for good.
AttemptFails(t) ==
  /\ "SendFails" \in Env
  /\ hands[t].pc \in {"send", "report"}
  /\ IF hands[t].tries + 1 < Attempts
     THEN hands' = [hands EXCEPT ![t].tries = @ + 1] /\ UNCHANGED settled
     ELSE SendEnds(t)
  /\ UNCHANGED <<outputBuffer, reported, isRunning, stuck, reports>>

CallerStep(c) ==
  Start(c) \/ Stop(c) \/ ReportOutput(c) \/ ReportCompletion(c) \/ ReportStatus(c)

SendStep(t) == FlushOutputBuffer(t) \/ SendReport(t) \/ AttemptFails(t)

Next ==
  \/ \E c \in Caller : CallerStep(c)
  \/ FlushAllBuffers \/ LoopEnds
  \/ \E t \in Thread : SendStep(t)

Spec == Init /\ [][Next]_vars

(***************************************************************************)
(* Properties                                                               *)
(***************************************************************************)
InBuffer(p) == p \in ToSet(outputBuffer)
Holders(p) == {t \in Thread : p \in ToSet(hands[t].batch)}

\* Whoever flushes beside whom, a piece of output is either still in the buffer, or in the
\* hands of one goroutine, or done with.
OneHand ==
  \A p \in 1..reported :
    \/ InBuffer(p) /\ Holders(p) = {} /\ p \notin settled
    \/ ~InBuffer(p) /\ (\E t \in Thread : Holders(p) = {t}) /\ p \notin settled
    \/ ~InBuffer(p) /\ Holders(p) = {} /\ p \in settled

\* The end of an execution is reported after a flush has taken its output: what was
\* reported before is on its way, though it may arrive later.
EndAfterOutput ==
  \A c \in Caller : At(c, "report") /\ hands[c].ends =>
    \A p \in 1..hands[c].of : ~InBuffer(p)

\* No piece of output is sent by two flushes or left behind by all of them, and an end does
\* not overtake output that is still in the buffer.
OutputInOneHand == OneHand /\ EndAfterOutput
=============================================================================
