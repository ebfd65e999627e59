---------------------------- MODULE ReporterProofs ----------------------------
(***************************************************************************)
(* Proofs about Reporter for every number of goroutines, reports, pieces   *)
(* of output and attempts, and every Env.                                  *)
(***************************************************************************)
EXTENDS Reporter, TLAPS

\* A goroutine has output in hand only while it sends it, and only output that was
\* reported; an end knows of output that was reported; a caller outside the reporter
\* reports no end.
HandsBound ==
  \A t \in Thread :
    /\ ToSet(hands[t].batch) \subseteq 1..reported
    /\ hands[t].pc # "send" => hands[t].batch = <<>>
    /\ hands[t].of <= reported
    /\ hands[t].pc = "idle" => ~hands[t].ends

\* What was reported before an end began is not in the buffer once the flush of the end
\* has taken the buffer, which is before it sends it.
EndsBehind ==
  \A t \in Thread : hands[t].pc \in {"send", "report"} /\ hands[t].ends =>
    \A p \in 1..hands[t].of : ~InBuffer(p)

\* The loop exists once the reporter was started, and it is not started a second time.
LoopBound == ~isRunning /\ ~stuck => hands[FlushLoop].pc = "off"

IInv == TypeOK /\ HandsBound /\ OneHand /\ EndsBehind /\ LoopBound

-----------------------------------------------------------------------------
\* A piece that is appended is the only one that is added.
LEMMA AppendAdds ==
  ASSUME NEW S, NEW s \in Seq(S), NEW e \in S
  PROVE  ToSet(Append(s, e)) = ToSet(s) \cup {e}
<1> DEFINE r == Append(s, e)
<1>1. DOMAIN r = 1..(Len(s) + 1) /\ DOMAIN s = 1..Len(s) /\ Len(s) \in Nat
  OBVIOUS
<1>2. r[Len(s) + 1] = e /\ \A i \in 1..Len(s) : r[i] = s[i]
  OBVIOUS
<1>3. ToSet(r) = {r[i] : i \in DOMAIN r} /\ ToSet(s) = {s[i] : i \in DOMAIN s}
  BY DEF ToSet
<1> HIDE DEF r
<1>4. ToSet(r) = ToSet(s) \cup {e}
  BY <1>1, <1>2, <1>3
<1> QED
  BY <1>4 DEF r

\* A sequence has only members of its set.
LEMMA SeqHasMembers ==
  ASSUME NEW S, NEW s \in Seq(S)
  PROVE  ToSet(s) \subseteq S
<1>1. DOMAIN s = 1..Len(s) /\ \A i \in 1..Len(s) : s[i] \in S
  OBVIOUS
<1> QED
  BY <1>1 DEF ToSet

LEMMA EmptyHasNothing == ToSet(<<>>) = {}
  BY DEF ToSet

\* Nothing in hand is a hand.
LEMMA EmptyHandIsHand ==
  ASSUME NEW pc \in {"off", "idle", "wait", "flush", "send", "report", "stuck"}
  PROVE  EmptyHand(pc) \in Hand
<1>1. <<>> \in Seq(Piece) /\ 0 \in 0..Attempts /\ 0 \in 0..MaxOut
  BY ReporterAssumption
<1> QED
  BY <1>1 DEF Hand, EmptyHand

\* A goroutine that has flushed has nothing in hand, and reports an end only if it has one.
LEMMA FlushedHasNothing ==
  ASSUME TypeOK, NEW t \in Thread
  PROVE  /\ Flushed(t) \in Hand
         /\ Flushed(t).batch = <<>>
         /\ Flushed(t).pc \in {"off", "wait", "report"}
         /\ \/ ~Flushed(t).ends /\ Flushed(t).of = 0
            \/ Flushed(t).ends = hands[t].ends /\ Flushed(t).of = hands[t].of
<1>0. hands[t] \in Hand /\ <<>> \in Seq(Piece) /\ 0 \in 0..Attempts /\ 0 \in 0..MaxOut
  BY ReporterAssumption DEF TypeOK
<1>1. CASE t = FlushLoop
  <2>1. Flushed(t) = [pc |-> "wait", batch |-> <<>>, tries |-> 0, ends |-> FALSE, of |-> 0]
    BY <1>1 DEF Flushed, EmptyHand
  <2> QED
    BY <1>0, <2>1 DEF Hand
<1>2. CASE t # FlushLoop /\ t \in Spare
  <2>1. Flushed(t) = [pc |-> "off", batch |-> <<>>, tries |-> 0, ends |-> FALSE, of |-> 0]
    BY <1>2 DEF Flushed, Off, EmptyHand
  <2> QED
    BY <1>0, <2>1 DEF Hand
<1>3. CASE t # FlushLoop /\ t \notin Spare
  <2>1. Flushed(t) = [pc |-> "report", batch |-> <<>>, tries |-> 0,
                      ends |-> hands[t].ends, of |-> hands[t].of]
    BY <1>0, <1>3 DEF Flushed, Hand
  <2> QED
    BY <1>0, <2>1 DEF Hand
<1> QED
  BY <1>1, <1>2, <1>3

LEMMA InitIInv == ASSUME Init PROVE IInv
<1>1. /\ Idle = [pc |-> "idle", batch |-> <<>>, tries |-> 0, ends |-> FALSE, of |-> 0]
      /\ Off = [pc |-> "off", batch |-> <<>>, tries |-> 0, ends |-> FALSE, of |-> 0]
  BY DEF Idle, Off, EmptyHand
<1>2. \A t \in Thread : /\ hands[t] \in {Idle, Off}
                        /\ hands[t].batch = <<>> /\ hands[t].of = 0 /\ ~hands[t].ends
  BY <1>1 DEF Init
<1>3. /\ <<>> \in Seq(Piece) /\ <<>> \in Seq(1..reported) /\ 0 \in 0..Attempts /\ 0 \in 0..MaxOut
      /\ reported \in 0..MaxOut /\ reports \in 0..MaxReports /\ reported = 0
  BY ReporterAssumption DEF Init
<1>4. Idle \in Hand /\ Off \in Hand
  BY <1>1, <1>3 DEF Hand
<1>5. TypeOK
  BY <1>3, <1>4 DEF TypeOK, Init
<1>6. HandsBound
  BY <1>2, <1>3, EmptyHasNothing DEF HandsBound
<1>7. OneHand /\ EndsBehind
  BY <1>2, <1>3 DEF OneHand, EndsBehind
<1>8. LoopBound
  BY <1>1, ReporterAssumption DEF LoopBound, Init, Thread
<1> QED
  BY <1>5, <1>6, <1>7, <1>8 DEF IInv

-----------------------------------------------------------------------------
(* Steps that move no output.                                               *)

\* The step of a goroutine leaves the others as they are.
LEMMA OneMoves ==
  ASSUME TypeOK, NEW t \in Thread, NEW h \in Hand, hands' = [hands EXCEPT ![t] = h]
  PROVE  /\ hands' \in [Thread -> Hand] /\ hands'[t] = h
         /\ \A u \in Thread \ {t} : hands'[u] = hands[u]
BY DEF TypeOK

\* A goroutine at another step, with all it has in hand.
LEMMA GotoMoves ==
  ASSUME TypeOK, NEW t \in Thread, NEW pc \in {"wait", "flush", "report", "stuck"}, Goto(t, pc)
  PROVE  /\ hands' \in [Thread -> Hand]
         /\ hands'[t].pc = pc /\ hands'[t].batch = hands[t].batch
         /\ hands'[t].ends = hands[t].ends /\ hands'[t].of = hands[t].of
         /\ \A u \in Thread \ {t} : hands'[u] = hands[u]
<1>1. hands[t] \in Hand
  BY DEF TypeOK
<1>2. [hands[t] EXCEPT !.pc = pc] =
        [pc |-> pc, batch |-> hands[t].batch, tries |-> hands[t].tries,
         ends |-> hands[t].ends, of |-> hands[t].of]
  BY <1>1 DEF Hand
<1>3. [hands[t] EXCEPT !.pc = pc] \in Hand
  BY <1>1, <1>2 DEF Hand
<1>4. hands' = [hands EXCEPT ![t] = [hands[t] EXCEPT !.pc = pc]]
  BY DEF Goto
<1> QED
  BY <1>2, <1>3, <1>4, OneMoves

\* A step that neither adds output nor takes or drops any, and brings no goroutine to
\* the report of an end.
LEMMA QuietStep ==
  ASSUME IInv, UNCHANGED <<outputBuffer, reported, settled>>, TypeOK',
         LoopBound',
         \A t \in Thread :
           /\ hands'[t].batch = hands[t].batch /\ hands'[t].of <= reported
           /\ hands'[t].pc # "send" => hands'[t].batch = <<>>
           /\ hands'[t].pc = "idle" => ~hands'[t].ends
           /\ hands'[t].pc \in {"send", "report"} /\ hands'[t].ends =>
                hands[t].pc \in {"send", "report"} /\ hands[t].ends /\ hands'[t].of = hands[t].of
  PROVE  IInv'
<1>1. HandsBound'
  BY DEF IInv, HandsBound
<1>2. OneHand'
  BY DEF IInv, OneHand, InBuffer, Holders
<1>3. EndsBehind'
  BY DEF IInv, EndsBehind, InBuffer
<1> QED
  BY <1>1, <1>2, <1>3 DEF IInv

LEMMA StartIInv ==
  ASSUME IInv, NEW c \in Caller, Start(c)
  PROVE  IInv'
<1>1. FlushLoop \in Thread /\ hands[FlushLoop].pc = "off" /\ isRunning'
  BY DEF IInv, LoopBound, Start, Thread
<1>2. Goto(FlushLoop, "wait") /\ UNCHANGED <<outputBuffer, reported, stuck, settled, reports>>
  BY DEF Start
<1>3. /\ hands' \in [Thread -> Hand]
      /\ hands'[FlushLoop].pc = "wait" /\ hands'[FlushLoop].batch = hands[FlushLoop].batch
      /\ hands'[FlushLoop].of = hands[FlushLoop].of
      /\ \A u \in Thread \ {FlushLoop} : hands'[u] = hands[u]
  BY <1>1, <1>2, GotoMoves DEF IInv
<1>4. TypeOK'
  BY <1>2, <1>3, isRunning' \in BOOLEAN DEF IInv, TypeOK, Start
<1>5. LoopBound'
  BY <1>1 DEF LoopBound
<1> QED
  BY <1>1, <1>2, <1>3, <1>4, <1>5, QuietStep DEF IInv, HandsBound

LEMMA StopIInv ==
  ASSUME IInv, NEW c \in Caller, Stop(c)
  PROVE  IInv'
<1>1. c \in Thread /\ hands[c].pc = "idle" /\ stuck'
  BY DEF Stop, At, Thread
<1>2. Goto(c, "stuck") /\ UNCHANGED <<outputBuffer, reported, settled, reports>>
  BY DEF Stop
<1>3. /\ hands' \in [Thread -> Hand]
      /\ hands'[c].pc = "stuck" /\ hands'[c].batch = hands[c].batch
      /\ hands'[c].of = hands[c].of
      /\ \A u \in Thread \ {c} : hands'[u] = hands[u]
  BY <1>1, <1>2, GotoMoves DEF IInv
<1>4. TypeOK'
  BY <1>2, <1>3 DEF IInv, TypeOK, Stop
<1>5. LoopBound'
  BY <1>1 DEF LoopBound
<1> QED
  BY <1>1, <1>2, <1>3, <1>4, <1>5, QuietStep DEF IInv, HandsBound

LEMMA ReportStatusIInv ==
  ASSUME IInv, NEW c \in Caller, ReportStatus(c)
  PROVE  IInv'
<1>1. c \in Thread /\ hands[c].pc = "idle" /\ ~hands[c].ends /\ c # FlushLoop
  BY ReporterAssumption DEF ReportStatus, At, Thread, IInv, HandsBound
<1>2. Goto(c, "report") /\ UNCHANGED <<outputBuffer, reported, isRunning, stuck, settled>>
  BY DEF ReportStatus
<1>3. /\ hands' \in [Thread -> Hand]
      /\ hands'[c].pc = "report" /\ hands'[c].batch = hands[c].batch
      /\ hands'[c].ends = hands[c].ends /\ hands'[c].of = hands[c].of
      /\ \A u \in Thread \ {c} : hands'[u] = hands[u]
  BY <1>1, <1>2, GotoMoves DEF IInv
<1>4. TypeOK'
  <2>1. reports' \in 0..MaxReports
    BY ReporterAssumption DEF IInv, TypeOK, ReportStatus
  <2> QED
    BY <1>2, <1>3, <2>1 DEF IInv, TypeOK
<1>5. LoopBound'
  BY <1>1, <1>2, <1>3 DEF LoopBound, IInv, Thread
<1> QED
  BY <1>1, <1>2, <1>3, <1>4, <1>5, QuietStep DEF IInv, HandsBound

LEMMA ReportCompletionIInv ==
  ASSUME IInv, NEW c \in Caller, ReportCompletion(c)
  PROVE  IInv'
<1> DEFINE h == [pc |-> "flush", batch |-> <<>>, tries |-> 0, ends |-> TRUE, of |-> reported]
<1>1. c \in Thread /\ hands[c].pc = "idle" /\ c # FlushLoop
  BY ReporterAssumption DEF ReportCompletion, At, Thread
<1>2. /\ hands' = [hands EXCEPT ![c] = h]
      /\ UNCHANGED <<outputBuffer, reported, isRunning, stuck, settled>>
  BY DEF ReportCompletion
<1>3. h \in Hand
  BY ReporterAssumption DEF Hand, IInv, TypeOK
<1>4. /\ hands' \in [Thread -> Hand] /\ hands'[c] = h
      /\ \A u \in Thread \ {c} : hands'[u] = hands[u]
  BY <1>1, <1>2, <1>3, OneMoves DEF IInv
<1>5. TypeOK'
  <2>1. reports' \in 0..MaxReports
    BY ReporterAssumption DEF IInv, TypeOK, ReportCompletion
  <2> QED
    BY <1>2, <1>4, <2>1 DEF IInv, TypeOK
<1>6. LoopBound'
  BY <1>1, <1>2, <1>4 DEF LoopBound, IInv, Thread
<1>7. reported \in Nat
  BY ReporterAssumption DEF IInv, TypeOK
<1> QED
  BY <1>1, <1>2, <1>4, <1>5, <1>6, <1>7, QuietStep DEF IInv, HandsBound

LEMMA FlushAllBuffersIInv ==
  ASSUME IInv, FlushAllBuffers
  PROVE  IInv'
<1>1. FlushLoop \in Thread /\ hands[FlushLoop].pc = "wait"
  BY DEF FlushAllBuffers, At, Thread
<1>2. /\ Goto(FlushLoop, "flush")
      /\ UNCHANGED <<outputBuffer, reported, isRunning, stuck, settled, reports>>
  BY DEF FlushAllBuffers
<1>3. /\ hands' \in [Thread -> Hand]
      /\ hands'[FlushLoop].pc = "flush" /\ hands'[FlushLoop].batch = hands[FlushLoop].batch
      /\ hands'[FlushLoop].of = hands[FlushLoop].of
      /\ \A u \in Thread \ {FlushLoop} : hands'[u] = hands[u]
  BY <1>1, <1>2, GotoMoves DEF IInv
<1>4. TypeOK'
  BY <1>2, <1>3 DEF IInv, TypeOK
<1>5. LoopBound'
  BY <1>1, <1>2 DEF LoopBound, IInv
<1> QED
  BY <1>1, <1>2, <1>3, <1>4, <1>5, QuietStep DEF IInv, HandsBound

LEMMA LoopEndsIInv ==
  ASSUME IInv, LoopEnds
  PROVE  IInv'
<1>1. FlushLoop \in Thread /\ hands[FlushLoop].pc = "wait"
  BY DEF LoopEnds, At, Thread
<1>2. /\ hands' = [hands EXCEPT ![FlushLoop] = Off]
      /\ UNCHANGED <<outputBuffer, reported, isRunning, stuck, settled, reports>>
  BY DEF LoopEnds
<1>3. Off \in Hand
  BY EmptyHandIsHand DEF Off
<1>4. /\ hands' \in [Thread -> Hand] /\ hands'[FlushLoop] = Off
      /\ \A u \in Thread \ {FlushLoop} : hands'[u] = hands[u]
  BY <1>1, <1>2, <1>3, OneMoves DEF IInv
<1>5. TypeOK'
  BY <1>2, <1>4 DEF IInv, TypeOK
<1>6. LoopBound'
  BY <1>1, <1>2 DEF LoopBound, IInv
<1>7. reported \in Nat
  BY ReporterAssumption DEF IInv, TypeOK
<1> QED
  BY <1>1, <1>2, <1>4, <1>5, <1>6, <1>7, QuietStep DEF IInv, HandsBound, Off, EmptyHand

-----------------------------------------------------------------------------
(* Steps that move output.                                                  *)

\* The new piece goes to the buffer, and nobody knows of it yet.
LEMMA ReportOutputIInv ==
  ASSUME IInv, NEW c \in Caller, ReportOutput(c)
  PROVE  IInv'
<1>1. /\ reported \in Nat /\ reported' = reported + 1 /\ reported' \in 0..MaxOut
      /\ reported' \in 1..reported' /\ 1..reported \subseteq 1..reported'
  BY ReporterAssumption DEF IInv, TypeOK, ReportOutput
<1>2. outputBuffer \in Seq(1..reported') /\ outputBuffer' = Append(outputBuffer, reported')
  <2>1. outputBuffer \in Seq(1..reported)
    BY DEF IInv, TypeOK
  <2> QED
    BY <1>1, <2>1 DEF ReportOutput
<1>3. outputBuffer' \in Seq(1..reported')
  BY <1>1, <1>2
<1>4. \A p : InBuffer(p)' <=> InBuffer(p) \/ p = reported'
  <2>1. ToSet(outputBuffer') = ToSet(outputBuffer) \cup {reported'}
    BY <1>1, <1>2, AppendAdds
  <2> QED
    BY <2>1 DEF InBuffer
<1>5. UNCHANGED <<isRunning, stuck, settled, reports>>
  BY DEF ReportOutput
<1>6. /\ hands' \in [Thread -> Hand]
      /\ \A t \in Thread : \/ hands'[t] = hands[t]
                           \/ /\ t \in Spare /\ hands[t].pc = "off"
                              /\ hands'[t] = EmptyHand("flush")
  <2>1. CASE Len(outputBuffer') > Large
    <3>1. PICK s \in Spare : At(s, "off") /\ hands' = [hands EXCEPT ![s] = EmptyHand("flush")]
      BY <2>1 DEF ReportOutput
    <3>2. s \in Thread /\ EmptyHand("flush") \in Hand
      BY EmptyHandIsHand DEF Thread
    <3> QED
      BY <3>1, <3>2, OneMoves DEF IInv, At
  <2>2. CASE ~(Len(outputBuffer') > Large)
    BY <2>2 DEF ReportOutput, IInv, TypeOK
  <2> QED
    BY <2>1, <2>2
<1>7. \A t \in Thread : /\ hands'[t].batch = hands[t].batch /\ hands'[t].of <= reported
                        /\ hands'[t].pc # "send" => hands'[t].batch = <<>>
                        /\ hands'[t].pc = "idle" => ~hands'[t].ends
                        /\ hands'[t] # hands[t] => hands'[t].pc = "flush" /\ t # FlushLoop
                        /\ hands'[t].of \in Nat
  <2>1. /\ EmptyHand("flush").pc = "flush" /\ EmptyHand("flush").batch = <<>>
        /\ EmptyHand("flush").of = 0
    BY DEF EmptyHand
  <2>2. \A t \in Thread : hands[t].of \in Nat
    BY ReporterAssumption DEF IInv, TypeOK, Hand
  <2> QED
    BY <1>1, <1>6, <2>1, <2>2, ReporterAssumption DEF IInv, HandsBound
<1>8. TypeOK'
  BY <1>1, <1>3, <1>5, <1>6 DEF IInv, TypeOK
<1>9. HandsBound'
  <2> SUFFICES ASSUME NEW t \in Thread
               PROVE  /\ ToSet(hands'[t].batch) \subseteq 1..reported'
                      /\ hands'[t].pc # "send" => hands'[t].batch = <<>>
                      /\ hands'[t].of <= reported'
                      /\ hands'[t].pc = "idle" => ~hands'[t].ends
    BY DEF HandsBound
  <2>1. ToSet(hands'[t].batch) \subseteq 1..reported'
    <3>1. hands'[t].batch = hands[t].batch
      BY <1>7
    <3>2. ToSet(hands[t].batch) \subseteq 1..reported
      BY DEF IInv, HandsBound
    <3> QED
      BY <1>1, <3>1, <3>2
  <2>2. hands'[t].of <= reported'
    <3>1. hands'[t].of \in Nat /\ hands'[t].of <= reported
      BY <1>7
    <3> QED
      BY <1>1, <3>1
  <2> QED
    BY <1>7, <2>1, <2>2
<1>10. OneHand'
  <2>1. \A p : Holders(p)' = Holders(p)
    BY <1>7 DEF Holders
  <2>2. Holders(reported') = {} /\ reported' \notin settled
    BY <1>1 DEF Holders, IInv, HandsBound, TypeOK
  <2>3. \A p \in 1..reported' : p \in 1..reported \/ p = reported'
    BY <1>1
  <2> QED
    BY <1>1, <1>4, <1>5, <2>1, <2>2, <2>3 DEF IInv, OneHand
<1>11. EndsBehind'
  <2> SUFFICES ASSUME NEW t \in Thread, hands'[t].pc \in {"send", "report"}, hands'[t].ends,
                      NEW p \in 1..hands'[t].of
               PROVE  ~InBuffer(p)'
    BY DEF EndsBehind
  <2>1. hands'[t] = hands[t]
    BY <1>7
  <2>2. ~InBuffer(p) /\ p # reported'
    BY <1>1, <1>7, <2>1 DEF IInv, EndsBehind
  <2> QED
    BY <1>4, <2>2
<1>12. LoopBound'
  BY <1>5, <1>7 DEF IInv, LoopBound, Thread
<1> QED
  BY <1>8, <1>9, <1>10, <1>11, <1>12 DEF IInv

\* The whole buffer goes to a goroutine that had nothing in hand.
LEMMA FlushOutputBufferIInv ==
  ASSUME IInv, NEW t \in Thread, FlushOutputBuffer(t)
  PROVE  IInv'
<1>1. /\ hands[t] \in Hand /\ hands[t].pc = "flush" /\ hands[t].batch = <<>>
      /\ hands[t].of <= reported /\ reported \in Nat
  BY ReporterAssumption DEF FlushOutputBuffer, At, IInv, HandsBound, TypeOK
<1>2. outputBuffer' = <<>> /\ UNCHANGED <<reported, isRunning, stuck, settled, reports>>
  BY DEF FlushOutputBuffer
<1>3. \A p : ~InBuffer(p)'
  BY <1>2, EmptyHasNothing DEF InBuffer
<1>4. EndsBehind'
  BY <1>3 DEF EndsBehind
<1>5. LoopBound /\ ~(~isRunning /\ ~stuck /\ t = FlushLoop)
  BY <1>1 DEF IInv, LoopBound
<1>6. CASE outputBuffer = <<>>
  <2> DEFINE h == Flushed(t)
  <2>1. /\ h \in Hand /\ h.batch = <<>> /\ h.pc \in {"off", "wait", "report"}
        /\ h.of <= reported
    BY <1>1, FlushedHasNothing DEF IInv
  <2>2. hands' = [hands EXCEPT ![t] = h]
    BY <1>6 DEF FlushOutputBuffer
  <2>3. /\ hands' \in [Thread -> Hand] /\ hands'[t] = h
        /\ \A u \in Thread \ {t} : hands'[u] = hands[u]
    BY <2>1, <2>2, OneMoves DEF IInv
  <2> HIDE DEF h
  <2>4. TypeOK'
    BY <1>2, <2>3 DEF IInv, TypeOK
  <2>5. HandsBound'
    BY <1>2, <2>1, <2>3, EmptyHasNothing DEF IInv, HandsBound
  <2>6. OneHand'
    <3>1. \A p : Holders(p)' = Holders(p)
      BY <1>1, <2>1, <2>3 DEF Holders
    <3>2. \A p : ~InBuffer(p)
      BY <1>6, EmptyHasNothing DEF InBuffer
    <3> QED
      BY <1>2, <1>3, <3>1, <3>2 DEF IInv, OneHand
  <2>7. LoopBound'
    BY <1>2, <1>5, <2>3 DEF LoopBound, Thread
  <2> QED
    BY <1>4, <2>4, <2>5, <2>6, <2>7 DEF IInv
<1>7. CASE outputBuffer # <<>>
  <2> DEFINE h == [hands[t] EXCEPT !.pc = "send", !.batch = outputBuffer]
  <2>1. outputBuffer \in Seq(1..reported) /\ outputBuffer \in Seq(Piece)
    BY ReporterAssumption DEF IInv, TypeOK, Piece
  <2>2. h \in Hand
    BY <1>1, <2>1 DEF Hand
  <2>3. h.pc = "send" /\ h.batch = outputBuffer /\ h.of = hands[t].of
    BY <1>1, <2>1 DEF Hand
  <2>4. hands' = [hands EXCEPT ![t] = h]
    BY <1>7 DEF FlushOutputBuffer
  <2>5. /\ hands' \in [Thread -> Hand] /\ hands'[t] = h
        /\ \A u \in Thread \ {t} : hands'[u] = hands[u]
    BY <2>2, <2>4, OneMoves DEF IInv
  <2>6. hands'[t].pc = "send" /\ hands'[t].batch = outputBuffer /\ hands'[t].of = hands[t].of
    BY <2>3, <2>5
  <2>7. ToSet(outputBuffer) \subseteq 1..reported
    BY <2>1, SeqHasMembers
  <2> HIDE DEF h
  <2>8. TypeOK'
    BY <1>2, <2>5 DEF IInv, TypeOK
  <2>9. HandsBound'
    BY <1>1, <1>2, <2>5, <2>6, <2>7 DEF IInv, HandsBound
  <2>10. OneHand'
    <3>1. \A p : InBuffer(p) <=> p \in ToSet(hands'[t].batch)
      BY <2>6 DEF InBuffer
    <3>2. \A p : t \notin Holders(p)
      BY <1>1, EmptyHasNothing DEF Holders
    <3>3. \A p : Holders(p)' = IF InBuffer(p) THEN Holders(p) \cup {t} ELSE Holders(p)
      BY <2>5, <3>1, <3>2 DEF Holders
    <3> QED
      BY <1>2, <1>3, <3>3 DEF IInv, OneHand
  <2>11. LoopBound'
    BY <1>2, <1>5, <2>5 DEF LoopBound, Thread
  <2> QED
    BY <1>4, <2>8, <2>9, <2>10, <2>11 DEF IInv
<1> QED
  BY <1>6, <1>7

\* What a goroutine has sent, or given up, is settled.
LEMMA SendEndsIInv ==
  ASSUME IInv, NEW t \in Thread, hands[t].pc \in {"send", "report"},
         SendEnds(t), UNCHANGED <<outputBuffer, reported, isRunning, stuck, reports>>
  PROVE  IInv'
<1> DEFINE h == IF At(t, "send") THEN Flushed(t) ELSE Idle
<1>1. hands' = [hands EXCEPT ![t] = h] /\ settled' = settled \cup ToSet(hands[t].batch)
  BY DEF SendEnds
<1>2. /\ h \in Hand /\ h.batch = <<>> /\ h.pc # "send" /\ (h.pc = "idle" => ~h.ends)
      /\ h.of <= reported
      /\ (h.pc = "report" /\ h.ends) =>
           hands[t].pc = "send" /\ hands[t].ends /\ h.of = hands[t].of
  <2>1. /\ hands[t] \in Hand /\ hands[t].of <= reported /\ reported \in Nat
    BY ReporterAssumption DEF IInv, HandsBound, TypeOK
  <2>2. CASE At(t, "send")
    BY <2>1, <2>2, FlushedHasNothing DEF IInv, At
  <2>3. CASE ~At(t, "send")
    BY <2>1, <2>3, EmptyHandIsHand DEF Idle, EmptyHand
  <2> QED
    BY <2>2, <2>3
<1> HIDE DEF h
<1>3. /\ hands' \in [Thread -> Hand] /\ hands'[t] = h
      /\ \A u \in Thread \ {t} : hands'[u] = hands[u]
  BY <1>1, <1>2, OneMoves DEF IInv
<1>4. TypeOK'
  <2>1. settled' \subseteq 1..reported
    BY <1>1 DEF IInv, TypeOK, HandsBound
  <2> QED
    BY <1>3, <2>1 DEF IInv, TypeOK
<1>5. HandsBound'
  BY <1>2, <1>3, EmptyHasNothing DEF IInv, HandsBound
<1>6. OneHand'
  <2>1. \A p : Holders(p)' = Holders(p) \ {t}
    BY <1>2, <1>3, EmptyHasNothing DEF Holders
  <2>2. \A p : t \in Holders(p) <=> p \in ToSet(hands[t].batch)
    BY DEF Holders
  <2>3. \A p : InBuffer(p)' <=> InBuffer(p)
    BY DEF InBuffer
  <2> QED
    BY <1>1, <2>1, <2>2, <2>3 DEF IInv, OneHand
<1>7. EndsBehind'
  BY <1>2, <1>3 DEF IInv, EndsBehind, InBuffer
<1>8. LoopBound'
  BY <1>3 DEF IInv, LoopBound, Thread
<1> QED
  BY <1>4, <1>5, <1>6, <1>7, <1>8 DEF IInv

LEMMA AttemptFailsIInv ==
  ASSUME IInv, NEW t \in Thread, AttemptFails(t)
  PROVE  IInv'
<1>1. /\ hands[t].pc \in {"send", "report"} /\ hands[t] \in Hand
      /\ UNCHANGED <<outputBuffer, reported, isRunning, stuck, reports>>
  BY DEF AttemptFails, IInv, TypeOK
<1>2. CASE hands[t].tries + 1 < Attempts
  <2> DEFINE h == [pc |-> hands[t].pc, batch |-> hands[t].batch, tries |-> hands[t].tries + 1,
                   ends |-> hands[t].ends, of |-> hands[t].of]
  <2>1. hands[t].tries + 1 \in 0..Attempts
    BY <1>1, <1>2, ReporterAssumption DEF Hand
  <2>2. [hands[t] EXCEPT !.tries = @ + 1] = h
    BY <1>1 DEF Hand
  <2>3. hands' = [hands EXCEPT ![t] = h] /\ UNCHANGED settled
    BY <1>2, <2>2 DEF AttemptFails
  <2>4. h \in Hand
    BY <1>1, <2>1 DEF Hand
  <2>5. /\ hands' \in [Thread -> Hand] /\ hands'[t] = h
        /\ \A u \in Thread \ {t} : hands'[u] = hands[u]
    BY <2>3, <2>4, OneMoves DEF IInv
  <2>6. \A u \in Thread : /\ hands'[u].pc = hands[u].pc /\ hands'[u].batch = hands[u].batch
                          /\ hands'[u].ends = hands[u].ends /\ hands'[u].of = hands[u].of
    BY <2>5
  <2>7. TypeOK'
    BY <1>1, <2>3, <2>5 DEF IInv, TypeOK
  <2>8. LoopBound'
    BY <1>1, <2>6 DEF IInv, LoopBound, Thread
  <2> QED
    BY <1>1, <2>3, <2>6, <2>7, <2>8, QuietStep DEF IInv, HandsBound
<1>3. CASE ~(hands[t].tries + 1 < Attempts)
  BY <1>1, <1>3, SendEndsIInv DEF AttemptFails
<1> QED
  BY <1>2, <1>3

-----------------------------------------------------------------------------
LEMMA NextIInv == ASSUME IInv, [Next]_vars PROVE IInv'
<1>1. CASE UNCHANGED vars
  <2>1. TypeOK' /\ HandsBound' /\ LoopBound'
    BY <1>1 DEF vars, IInv, TypeOK, HandsBound, LoopBound
  <2>2. OneHand' /\ EndsBehind'
    BY <1>1 DEF vars, IInv, OneHand, EndsBehind, InBuffer, Holders
  <2> QED
    BY <2>1, <2>2 DEF IInv
<1>2. ASSUME NEW c \in Caller, CallerStep(c) PROVE IInv'
  BY <1>2, StartIInv, StopIInv, ReportOutputIInv, ReportCompletionIInv, ReportStatusIInv
     DEF CallerStep
<1>3. CASE FlushAllBuffers
  BY <1>3, FlushAllBuffersIInv
<1>4. CASE LoopEnds
  BY <1>4, LoopEndsIInv
<1>5. ASSUME NEW t \in Thread, SendStep(t) PROVE IInv'
  <2>1. CASE FlushOutputBuffer(t)
    BY <2>1, FlushOutputBufferIInv
  <2>2. CASE SendReport(t)
    BY <2>2, SendEndsIInv DEF SendReport
  <2>3. CASE AttemptFails(t)
    BY <2>3, AttemptFailsIInv
  <2> QED
    BY <1>5, <2>1, <2>2, <2>3 DEF SendStep
<1> QED
  BY <1>1, <1>2, <1>3, <1>4, <1>5 DEF Next

\* The inductive invariant of the reporter holds in every behaviour.
THEOREM Invariance == Spec => []IInv
<1>1. Init => IInv
  BY InitIInv
<1>2. IInv /\ [Next]_vars => IInv'
  BY NextIInv
<1> QED
  BY <1>1, <1>2, PTL DEF Spec

\* Every variable of the reporter keeps its type (reporter.go:17).
THEOREM TypeCorrect == Spec => []TypeOK
<1>1. IInv => TypeOK
  BY DEF IInv
<1>2. Spec => []IInv
  BY Invariance
<1> QED
  BY <1>1, <1>2, PTL

\* However many goroutines flush beside one another, no output is taken twice or left
\* behind, and an end is reported only after a flush has taken the output of before
\* (reporter.go:203, reporter.go:125).
THEOREM OutputIsInOneHand == Spec => []OutputInOneHand
<1>1. IInv => OutputInOneHand
  BY DEF IInv, OutputInOneHand, EndAfterOutput, EndsBehind, At, Thread
<1>2. Spec => []IInv
  BY Invariance
<1> QED
  BY <1>1, <1>2, PTL
=============================================================================
