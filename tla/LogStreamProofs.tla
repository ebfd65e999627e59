--------------------------- MODULE LogStreamProofs ---------------------------
(*****************************************************************************)
(* Proofs about LogStream for every number of streams and subscriptions, any  *)
(* capacity, whatever is written, deleted and closed meanwhile, and every Env. *)
(*****************************************************************************)
EXTENDS LogStream, TLAPS

\* A writer has in hand the log that it read and the piece that it writes.
WritersOK ==
  \A w \in Writer : /\ writer[w].pc = "save" => writer[w].copy \in Log
                    /\ writer[w].pc # "idle" => writer[w].piece \in 1..MaxOut

\* A stream that follows has a subscription; a connection is of some kind.
StreamsOK ==
  \A s \in Stream : /\ stream[s].pc = "follow" => stream[s].chan # None
                    /\ stream[s].chan # None => stream[s].chan \in DOMAIN chans
                    /\ stream[s].pc \notin {"away", "gone"} => stream[s].kind \in Kind

IInv == TypeOK /\ WritersOK /\ StreamsOK

WriterRec == [pc : {"idle", "save", "notify"}, piece : 0..MaxOut, copy : Log \cup {None}]

Chan == [held : Output, open : BOOLEAN]

StreamRec == [pc : {"away", "history", "subscribe", "follow", "leave", "gone"},
              kind : Kind \cup {None}, chan : (1..MaxChan) \cup {None},
              shown : Output, buffer : Output]

(* The parts of TypeOK that a step leaves alone together.                    *)
LogOK == log \in Log \cup {None} /\ out \in 0..MaxOut

WriterOK == writer \in [Writer -> WriterRec]

ChansOK ==
  /\ chans \in Seq(Chan) /\ Len(chans) <= MaxChan
  /\ \A c \in DOMAIN chans : Len(chans[c].held) <= Capacity
  /\ sub = None \/ (sub \in DOMAIN chans /\ chans[sub].open)

StreamOK == stream \in [Stream -> StreamRec]

(* IInv by its parts, of a state and of the one after it.                    *)
LEMMA Parts == IInv => /\ LogOK /\ WriterOK /\ ChansOK /\ StreamOK /\ managed \in BOOLEAN
                       /\ WritersOK /\ StreamsOK
BY DEF IInv, TypeOK, LogOK, WriterOK, ChansOK, StreamOK, WriterRec, Chan, StreamRec

LEMMA Together ==
  /\ LogOK /\ WriterOK /\ ChansOK /\ StreamOK /\ managed \in BOOLEAN
     /\ WritersOK /\ StreamsOK => IInv
  /\ (LogOK /\ WriterOK /\ ChansOK /\ StreamOK /\ managed \in BOOLEAN
      /\ WritersOK /\ StreamsOK)' => IInv'
BY DEF IInv, TypeOK, LogOK, WriterOK, ChansOK, StreamOK, WriterRec, Chan, StreamRec

-----------------------------------------------------------------------------
(* The operators                                                             *)

\* What a stream has at a step of its own
ConnOK(x, n) ==
  /\ x \in StreamRec
  /\ x.pc = "follow" => x.chan # None
  /\ x.chan # None => x.chan \in 1..n
  /\ x.pc \notin {"away", "gone"} => x.kind \in Kind

LEMMA GoneIsRec == \A n : Gone \in StreamRec /\ ConnOK(Gone, n) /\ Away \in StreamRec
                          /\ Gone.shown = <<>> /\ Gone.buffer = <<>> /\ Gone.pc = "gone"
<1>1. <<>> \in Output
  BY DEF Output
<1>2. Gone = [pc |-> "gone", kind |-> None, chan |-> None, shown |-> <<>>, buffer |-> <<>>]
  BY DEF Gone, Away
<1> QED
  BY <1>1, <1>2 DEF Away, ConnOK, StreamRec

\* A stream moves on.
LEMMA StreamMoves ==
  ASSUME IInv, NEW s \in Stream, NEW x, ConnOK(x, Len(chans')), stream' = [stream EXCEPT ![s] = x],
         DOMAIN chans \subseteq DOMAIN chans', chans' \in Seq(Chan)
  PROVE  /\ StreamOK' /\ StreamsOK' /\ stream'[s] = x
         /\ \A r \in Stream : r # s => stream'[r] = stream[r]
<1>1. stream \in [Stream -> StreamRec]
  BY Parts DEF StreamOK
<1>2. stream'[s] = x /\ \A r \in Stream : r # s => stream'[r] = stream[r]
  BY <1>1
<1>3. StreamOK'
  BY <1>1 DEF StreamOK, ConnOK
<1>4. DOMAIN chans' = 1..Len(chans')
  OBVIOUS
<1>5. StreamsOK'
  BY <1>2, <1>4 DEF IInv, StreamsOK, ConnOK
<1> QED
  BY <1>2, <1>3, <1>5

-----------------------------------------------------------------------------
(* The channels                                                              *)

\* What a channel holds changes, within its capacity.
LEMMA HeldMoves ==
  ASSUME ChansOK, UNCHANGED sub, NEW c \in DOMAIN chans, NEW h \in Output, Len(h) <= Capacity,
         chans' = [chans EXCEPT ![c].held = h]
  PROVE  /\ ChansOK' /\ chans' \in Seq(Chan) /\ Len(chans') = Len(chans)
         /\ DOMAIN chans' = DOMAIN chans /\ chans'[c].held = h
         /\ \A d \in DOMAIN chans : d # c => chans'[d] = chans[d]
<1>1. chans \in Seq(Chan) /\ DOMAIN chans = 1..Len(chans) /\ chans[c] \in Chan
  BY DEF ChansOK
<1>2. PICK g : g = [chans[c] EXCEPT !.held = h]
  OBVIOUS
<1>3. g \in Chan /\ g.held = h /\ g.open = chans[c].open
  BY <1>1, <1>2 DEF Chan
<1>4. chans' = [chans EXCEPT ![c] = g]
  BY <1>2
<1>5. /\ chans' \in Seq(Chan) /\ Len(chans') = Len(chans) /\ chans'[c] = g
      /\ \A d \in DOMAIN chans : d # c => chans'[d] = chans[d]
  BY <1>1, <1>3, <1>4
<1>6. DOMAIN chans' = DOMAIN chans
  BY <1>4
<1>7. ChansOK'
  BY <1>3, <1>5, <1>6 DEF ChansOK
<1> QED
  BY <1>3, <1>5, <1>6, <1>7

\* The subscription ends: its channel keeps what it holds.
LEMMA CloseClosed ==
  ASSUME ChansOK, Close
  PROVE  /\ ChansOK' /\ chans' \in Seq(Chan) /\ Len(chans') = Len(chans)
         /\ DOMAIN chans' = DOMAIN chans
         /\ \A d \in DOMAIN chans : chans'[d].held = chans[d].held
<1>1. chans \in Seq(Chan) /\ DOMAIN chans = 1..Len(chans)
  BY DEF ChansOK
<1>2. CASE sub = None
  BY <1>1, <1>2 DEF Close, ChansOK
<1>3. CASE sub # None
  <2>1. sub \in DOMAIN chans /\ chans[sub] \in Chan
    BY <1>1, <1>3 DEF ChansOK
  <2>2. PICK g : g = [chans[sub] EXCEPT !.open = FALSE]
    OBVIOUS
  <2>3. g \in Chan /\ g.held = chans[sub].held
    BY <2>1, <2>2 DEF Chan
  <2>4. chans' = [chans EXCEPT ![sub] = g] /\ sub' = None
    BY <1>3, <2>2 DEF Close
  <2>5. /\ chans' \in Seq(Chan) /\ Len(chans') = Len(chans) /\ chans'[sub] = g
        /\ \A d \in DOMAIN chans : d # sub => chans'[d] = chans[d]
    BY <1>1, <2>1, <2>3, <2>4
  <2>6. DOMAIN chans' = DOMAIN chans
    BY <2>4
  <2> QED
    BY <2>3, <2>4, <2>5, <2>6 DEF ChansOK
<1> QED
  BY <1>2, <1>3

\* A channel is made.
LEMMA ChannelIsMade ==
  ASSUME ChansOK, LogStreamAssumption, Len(chans) < MaxChan, sub' = Len(chans'),
         chans' = Append(chans, [held |-> <<>>, open |-> TRUE])
  PROVE  /\ ChansOK' /\ chans' \in Seq(Chan) /\ Len(chans') = Len(chans) + 1
         /\ DOMAIN chans \subseteq DOMAIN chans' /\ Len(chans') \in DOMAIN chans'
         /\ Len(chans') \in 1..MaxChan /\ Len(chans') # None
         /\ chans'[Len(chans')].held = <<>>
         /\ \A d \in DOMAIN chans : chans'[d] = chans[d]
<1>1. chans \in Seq(Chan) /\ DOMAIN chans = 1..Len(chans) /\ Len(chans) \in Nat
  BY DEF ChansOK
<1>2. PICK g : g = [held |-> <<>>, open |-> TRUE]
  OBVIOUS
<1>3. g \in Chan /\ g.held = <<>> /\ g.open = TRUE
  BY <1>2 DEF Chan, Output
<1>4. chans' = Append(chans, g)
  BY <1>2
<1>5. /\ chans' \in Seq(Chan) /\ Len(chans') = Len(chans) + 1 /\ chans'[Len(chans')] = g
      /\ \A d \in DOMAIN chans : chans'[d] = chans[d]
  BY <1>1, <1>3, <1>4
<1>6. DOMAIN chans' = 1..Len(chans')
  BY <1>5
<1>7. Capacity \in Nat /\ MaxChan \in Nat /\ None \notin Nat
  BY DEF LogStreamAssumption
<1>8. ChansOK'
  <2>1. Len(chans') <= MaxChan /\ sub' \in DOMAIN chans' /\ chans'[sub'].open
    BY <1>1, <1>3, <1>5, <1>6, <1>7
  <2>2. \A d \in DOMAIN chans' : Len(chans'[d].held) <= Capacity
    <3> SUFFICES ASSUME NEW d \in DOMAIN chans' PROVE Len(chans'[d].held) <= Capacity
      OBVIOUS
    <3>1. d = Len(chans') \/ d \in DOMAIN chans
      BY <1>1, <1>5, <1>6
    <3> QED
      BY <1>3, <1>5, <1>7, <3>1 DEF ChansOK
  <2> QED
    BY <1>5, <2>1, <2>2 DEF ChansOK
<1> QED
  BY <1>1, <1>3, <1>5, <1>6, <1>7, <1>8

-----------------------------------------------------------------------------
(* The type is kept                                                          *)

LEMMA Initially == LogStreamAssumption /\ Init => IInv
<1> SUFFICES ASSUME LogStreamAssumption, Init PROVE IInv
  OBVIOUS
<1>1. <<>> \in Output /\ MaxOut \in Nat /\ MaxChan \in Nat
  BY DEF Output, LogStreamAssumption
<1>2. log \in Log \cup {None} /\ out \in 0..MaxOut
  BY <1>1 DEF Init, Log, Status
<1>3. WriterIdle \in WriterRec /\ WriterIdle.pc = "idle"
  BY <1>1 DEF WriterIdle, WriterRec
<1>4. WriterOK /\ WritersOK
  BY <1>3 DEF Init, WriterOK, WritersOK
<1>5. ChansOK
  BY <1>1 DEF Init, ChansOK
<1>6. Away.pc = "away" /\ Away.chan = None
  BY DEF Away
<1>7. StreamOK /\ StreamsOK
  BY <1>6, GoneIsRec DEF Init, StreamOK, StreamsOK
<1> QED
  BY <1>2, <1>4, <1>5, <1>7, Together DEF LogOK, Init

\* What a writer has at a step of its own
HandOK(x) ==
  /\ x \in WriterRec
  /\ x.pc = "save" => x.copy \in Log
  /\ x.pc # "idle" => x.piece \in 1..MaxOut

LEMMA WriterMoves ==
  ASSUME IInv, NEW w \in Writer, NEW x, HandOK(x), writer' = [writer EXCEPT ![w] = x]
  PROVE  /\ WriterOK' /\ WritersOK' /\ writer'[w] = x
         /\ \A v \in Writer : v # w => writer'[v] = writer[v]
<1>1. writer \in [Writer -> WriterRec]
  BY Parts DEF WriterOK
<1>2. writer'[w] = x /\ \A v \in Writer : v # w => writer'[v] = writer[v]
  BY <1>1
<1> QED
  BY <1>1, <1>2 DEF IInv, WriterOK, WritersOK, HandOK

LEMMA IdleIsRec == LogStreamAssumption => HandOK(WriterIdle) /\ WriterIdle.pc = "idle"
BY DEF LogStreamAssumption, WriterIdle, HandOK, WriterRec

\* The pieces are numbered as they are written.
LEMMA PieceIsNew ==
  ASSUME LogStreamAssumption, IInv, NextPiece
  PROVE  out' \in 1..MaxOut /\ out' = out + 1
BY Parts DEF LogStreamAssumption, IInv, LogOK, NextPiece

LEMMA AppendReadsMoves ==
  ASSUME LogStreamAssumption, IInv, NEW w \in Writer, AppendReads(w)
  PROVE  /\ IInv' /\ \A v \in Writer : v # w => writer'[v] = writer[v]
         /\ writer'[w].pc = "save" /\ writer'[w].piece = out' /\ writer'[w].copy = log
<1>1. out' \in 1..MaxOut
  BY PieceIsNew DEF AppendReads
<1>2. PICK x : x = [pc |-> "save", piece |-> out', copy |-> log]
  OBVIOUS
<1>3. log \in Log
  BY Parts DEF LogOK, AppendReads
<1>4. x.pc = "save" /\ x.piece = out' /\ x.copy = log
  BY <1>2
<1>5. x \in WriterRec
  BY <1>1, <1>2, <1>3 DEF WriterRec
<1>6. HandOK(x)
  BY <1>1, <1>3, <1>4, <1>5 DEF HandOK
<1>7. writer' = [writer EXCEPT ![w] = x]
  BY <1>2 DEF AppendReads
<1>8. LogOK'
  BY <1>1, Parts DEF LogOK, AppendReads
<1>9. (ChansOK /\ StreamOK /\ managed \in BOOLEAN /\ StreamsOK)'
  BY Parts DEF ChansOK, StreamOK, StreamsOK, AppendReads
<1> QED
  BY <1>4, <1>6, <1>7, <1>8, <1>9, WriterMoves, Together

LEMMA UpdateMoves ==
  ASSUME LogStreamAssumption, IInv, NEW w \in Writer, UpdateLogStatus(w)
  PROVE  /\ IInv' /\ \A v \in Writer : v # w => writer'[v] = writer[v]
         /\ writer'[w].pc = "notify" /\ writer'[w].piece = out'
         /\ log' = None \/ log'.output = <<out'>>
<1>1. out' \in 1..MaxOut
  BY PieceIsNew DEF UpdateLogStatus
<1>2. PICK x : x = [pc |-> "notify", piece |-> out', copy |-> None]
  OBVIOUS
<1>4. x.pc = "notify" /\ x.piece = out'
  BY <1>2
<1>5. x \in WriterRec
  BY <1>1, <1>2 DEF WriterRec
<1>6. HandOK(x)
  BY <1>1, <1>4, <1>5 DEF HandOK
<1>7. writer' = [writer EXCEPT ![w] = x]
  BY <1>2 DEF UpdateLogStatus
<1>8. LogOK' /\ (log' = None \/ log'.output = <<out'>>)
  BY <1>1 DEF IInv, LogOK, UpdateLogStatus, Log, Output
<1>9. (ChansOK /\ StreamOK /\ managed \in BOOLEAN /\ StreamsOK)'
  BY Parts DEF ChansOK, StreamOK, StreamsOK, UpdateLogStatus
<1> QED
  BY <1>4, <1>6, <1>7, <1>8, <1>9, WriterMoves, Together

LEMMA AppendSavesMoves ==
  ASSUME LogStreamAssumption, IInv, NEW w \in Writer, AppendSaves(w)
  PROVE  /\ IInv' /\ \A v \in Writer : v # w => writer'[v] = writer[v]
         /\ \/ /\ log'.output = Append(writer[w].copy.output, writer[w].piece)
               /\ writer'[w].pc = "notify" /\ writer'[w].piece = writer[w].piece
            \/ UNCHANGED log /\ writer'[w].pc = "idle"
<1>1. writer[w].copy \in Log /\ writer[w].piece \in 1..MaxOut /\ writer[w] \in WriterRec
  BY Parts DEF WritersOK, AppendSaves, WriterOK
<1>2. (ChansOK /\ StreamOK /\ managed \in BOOLEAN /\ StreamsOK)'
  BY Parts DEF ChansOK, StreamOK, StreamsOK, AppendSaves
<1>3. CASE /\ log' = Appended(writer[w].copy, writer[w].piece)
           /\ writer' = [writer EXCEPT ![w].pc = "notify", ![w].copy = None]
  <2>1. PICK x : x = [writer[w] EXCEPT !.pc = "notify", !.copy = None]
    OBVIOUS
  <2>2. x \in WriterRec /\ x.pc = "notify" /\ x.piece = writer[w].piece
    BY <1>1, <2>1 DEF WriterRec
  <2>3. HandOK(x)
    BY <1>1, <2>2 DEF HandOK
  <2>4. writer' = [writer EXCEPT ![w] = x]
    BY <1>3, <2>1, Parts DEF WriterOK
  <2>5. log' \in Log /\ log'.output = Append(writer[w].copy.output, writer[w].piece)
    <3>1. PICK c : c = writer[w].copy
      OBVIOUS
    <3>2. c \in [output : Seq(1..MaxOut), status : Status]
      BY <1>1, <3>1 DEF Log, Output
    <3>3. PICK o : o = Append(c.output, writer[w].piece)
      OBVIOUS
    <3>4. o \in Seq(1..MaxOut)
      BY <1>1, <3>2, <3>3
    <3>5. log' = [c EXCEPT !.output = o]
      BY <1>3, <3>1, <3>3 DEF Appended
    <3>6. log' \in Log /\ log'.output = o
      BY <3>2, <3>4, <3>5 DEF Log, Output
    <3> QED
      BY <3>1, <3>3, <3>6
  <2>6. LogOK'
    BY <2>5, Parts DEF LogOK, AppendSaves
  <2> QED
    BY <1>2, <2>2, <2>3, <2>4, <2>5, <2>6, WriterMoves, Together
<1>4. CASE writer' = [writer EXCEPT ![w] = WriterIdle] /\ UNCHANGED log
  <2>1. LogOK'
    BY <1>4, Parts DEF LogOK, AppendSaves
  <2> QED
    BY <1>2, <1>4, <2>1, IdleIsRec, WriterMoves, Together
<1> QED
  BY <1>3, <1>4 DEF AppendSaves

LEMMA NotifyMoves ==
  ASSUME LogStreamAssumption, IInv, NEW w \in Writer, Notify(w)
  PROVE  /\ IInv' /\ \A v \in Writer : v # w => writer'[v] = writer[v]
         /\ writer'[w].pc = "idle"
         /\ \/ UNCHANGED chans
            \/ \E c \in DOMAIN chans :
                 /\ chans'[c].held = Append(chans[c].held, writer[w].piece)
                 /\ DOMAIN chans' = DOMAIN chans
                 /\ \A d \in DOMAIN chans : d # c => chans'[d] = chans[d]
<1>1. writer[w].piece \in 1..MaxOut
  BY DEF IInv, WritersOK, Notify
<1>2. /\ WriterOK' /\ WritersOK' /\ writer'[w].pc = "idle"
      /\ \A v \in Writer : v # w => writer'[v] = writer[v]
  BY IdleIsRec, WriterMoves DEF Notify
<1>3. (LogOK /\ managed \in BOOLEAN)' /\ UNCHANGED <<stream, sub>>
  BY Parts DEF LogOK, Notify
<1>4. ChansOK
  BY Parts
<1>5. CASE UNCHANGED chans
  <2>1. (ChansOK /\ StreamOK /\ StreamsOK)'
    BY <1>3, <1>5, Parts DEF ChansOK, StreamOK, StreamsOK
  <2> QED
    BY <1>2, <1>3, <1>5, <2>1, Together
<1>6. CASE /\ sub # None /\ Len(chans[sub].held) < Capacity
           /\ chans' = [chans EXCEPT ![sub].held = Append(@, writer[w].piece)]
  <2>1. sub \in DOMAIN chans /\ chans[sub] \in Chan /\ Len(chans[sub].held) \in Nat
    <3>1. sub \in DOMAIN chans /\ chans \in Seq(Chan)
      BY <1>4, <1>6 DEF ChansOK
    <3>2. chans[sub] \in Chan
      BY <3>1
    <3>3. chans[sub].held \in Seq(1..MaxOut)
      BY <3>2 DEF Chan, Output
    <3> QED
      BY <3>1, <3>2, <3>3
  <2>2. PICK h : h = Append(chans[sub].held, writer[w].piece)
    OBVIOUS
  <2>3. h \in Output /\ Len(h) = Len(chans[sub].held) + 1
    BY <1>1, <2>1, <2>2 DEF Chan, Output
  <2>4. Len(h) <= Capacity
    BY <1>6, <2>1, <2>3 DEF LogStreamAssumption
  <2>5. chans' = [chans EXCEPT ![sub].held = h]
    BY <1>6, <2>2
  <2>6. /\ ChansOK' /\ DOMAIN chans' = DOMAIN chans /\ chans'[sub].held = h
        /\ \A d \in DOMAIN chans : d # sub => chans'[d] = chans[d]
    BY <1>3, <1>4, <2>1, <2>3, <2>4, <2>5, HeldMoves
  <2>7. (StreamOK /\ StreamsOK)'
    BY <1>3, <2>6, Parts DEF StreamOK, StreamsOK
  <2> QED
    BY <1>2, <1>3, <2>1, <2>2, <2>6, <2>7, Together
<1> QED
  BY <1>5, <1>6 DEF Notify

-----------------------------------------------------------------------------
(* The order                                                                 *)

\* No piece of s comes after a later one; all are among the first n; none is later than
\* one of t.
Sorted(s) == \A i, j \in DOMAIN s : i < j => s[i] <= s[j]
UpTo(s, n) == \A i \in DOMAIN s : s[i] <= n
Behind(s, t) == \A i \in DOMAIN s, j \in DOMAIN t : s[i] <= t[j]

LEMMA EmptyInOrder == Sorted(<<>>) /\ \A n, t : UpTo(<<>>, n) /\ Behind(<<>>, t) /\ Behind(t, <<>>)
BY DEF Sorted, UpTo, Behind

LEMMA OneInOrder ==
  ASSUME NEW p \in 1..MaxOut
  PROVE  /\ <<p>> \in Output /\ Sorted(<<p>>)
         /\ \A n \in Nat : p <= n => UpTo(<<p>>, n)
<1>1. DOMAIN <<p>> = {1} /\ <<p>>[1] = p
  OBVIOUS
<1> QED
  BY <1>1 DEF Sorted, UpTo, Output

LEMMA AppendInOrder ==
  ASSUME NEW s \in Output, NEW p \in 1..MaxOut, Sorted(s), UpTo(s, p), NEW t \in Output
  PROVE  /\ Append(s, p) \in Output /\ Sorted(Append(s, p)) /\ UpTo(Append(s, p), p)
         /\ Behind(t, s) /\ UpTo(t, p) => Behind(t, Append(s, p))
<1>1. s \in Seq(1..MaxOut) /\ t \in Seq(1..MaxOut)
  BY DEF Output
<1>2. PICK a : a = Append(s, p)
  OBVIOUS
<1>3. /\ a \in Seq(1..MaxOut) /\ Len(a) = Len(s) + 1 /\ a[Len(s) + 1] = p
      /\ \A i \in 1..Len(s) : a[i] = s[i]
  BY <1>1, <1>2
<1>4. DOMAIN a = 1..(Len(s) + 1) /\ DOMAIN s = 1..Len(s) /\ Len(s) \in Nat
  BY <1>1, <1>3
<1>5. Sorted(a) /\ UpTo(a, p)
  <2>1. \A i \in DOMAIN a : i \in DOMAIN s \/ i = Len(s) + 1
    BY <1>4
  <2>2. \A n \in Nat : n <= n
    OBVIOUS
  <2>3. UpTo(a, p)
    BY <2>2, <1>3, <1>4, <2>1 DEF UpTo
  <2>4. Sorted(a)
    <3> SUFFICES ASSUME NEW i \in DOMAIN a, NEW j \in DOMAIN a, i < j PROVE a[i] <= a[j]
      BY DEF Sorted
    <3>1. i \in DOMAIN s /\ a[i] = s[i]
      BY <1>3, <1>4
    <3>2. CASE j \in DOMAIN s
      BY <1>3, <1>4, <3>1, <3>2 DEF Sorted
    <3>3. CASE j = Len(s) + 1
      BY <1>3, <3>1, <3>3 DEF UpTo
    <3> QED
      BY <2>1, <3>2, <3>3
  <2> QED
    BY <2>3, <2>4
<1>6. Behind(t, s) /\ UpTo(t, p) => Behind(t, a)
  <2> SUFFICES ASSUME Behind(t, s), UpTo(t, p), NEW i \in DOMAIN t, NEW j \in DOMAIN a
               PROVE  t[i] <= a[j]
    BY DEF Behind
  <2>1. CASE j \in DOMAIN s
    BY <1>3, <1>4, <2>1 DEF Behind
  <2>2. CASE j = Len(s) + 1
    BY <1>3, <2>2 DEF UpTo
  <2> QED
    BY <1>4, <2>1, <2>2
<1> QED
  BY <1>2, <1>3, <1>5, <1>6 DEF Output

LEMMA TailIsOutput ==
  ASSUME NEW s \in Output, s # <<>>
  PROVE  /\ Tail(s) \in Output /\ Len(Tail(s)) = Len(s) - 1 /\ Len(s) \in Nat
         /\ Head(s) \in 1..MaxOut
<1>1. s \in Seq(1..MaxOut)
  BY DEF Output
<1>2. \A S : s \in Seq(S) => /\ Tail(s) \in Seq(S) /\ Len(Tail(s)) = Len(s) - 1 /\ Len(s) \in Nat
                             /\ Head(s) \in S
  OBVIOUS
<1> QED
  BY <1>1, <1>2 DEF Output

LEMMA TailInOrder ==
  ASSUME NEW s \in Output, s # <<>>, Sorted(s)
  PROVE  /\ Tail(s) \in Output /\ Len(Tail(s)) <= Len(s) /\ Sorted(Tail(s)) /\ Head(s) \in 1..MaxOut
         /\ \A n : UpTo(s, n) => UpTo(Tail(s), n) /\ Head(s) <= n
         /\ \A t : Behind(t, s) => Behind(t, Tail(s))
         /\ Behind(<<Head(s)>>, Tail(s))
<1>1. s \in Seq(1..MaxOut) /\ DOMAIN s = 1..Len(s) /\ Len(s) \in Nat \ {0}
  BY DEF Output
<1>2. PICK a : a = Tail(s)
  OBVIOUS
<1>3. /\ a \in Seq(1..MaxOut) /\ Len(a) = Len(s) - 1
      /\ \A i \in 1..Len(a) : a[i] = s[i + 1]
  BY <1>1, <1>2
<1>4. DOMAIN a = 1..Len(a) /\ \A i \in DOMAIN a : i \in Nat /\ i + 1 \in DOMAIN s /\ a[i] = s[i + 1]
  BY <1>1, <1>3
<1>5. Head(s) = s[1] /\ 1 \in DOMAIN s
  BY <1>1
<1>6. Sorted(a)
  <2> SUFFICES ASSUME NEW i \in DOMAIN a, NEW j \in DOMAIN a, i < j PROVE a[i] <= a[j]
    BY DEF Sorted
  <2>1. i + 1 < j + 1
    BY <1>4
  <2> QED
    BY <1>4, <2>1 DEF Sorted
<1>7. \A n : UpTo(s, n) => UpTo(a, n) /\ Head(s) <= n
  BY <1>4, <1>5 DEF UpTo
<1>8. \A t : Behind(t, s) => Behind(t, a)
  BY <1>4 DEF Behind
<1>9. Behind(<<Head(s)>>, a)
  <2>1. \A i \in DOMAIN <<Head(s)>> : <<Head(s)>>[i] = s[1]
    BY <1>5
  <2>2. \A j \in DOMAIN a : 1 < j + 1 /\ j + 1 \in DOMAIN s
    BY <1>1, <1>3, <1>4
  <2>3. \A j \in DOMAIN a : s[1] <= a[j]
    BY <1>4, <1>5, <2>2 DEF Sorted
  <2> QED
    BY <2>1, <2>3 DEF Behind
<1>10. a \in Output /\ Len(a) <= Len(s)
  BY <1>1, <1>3 DEF Output
<1>11. Head(s) \in 1..MaxOut
  <2>1. \A S : s \in Seq(S) => s[1] \in S
    BY <1>5
  <2> QED
    BY <1>1, <1>5, <2>1
<1> QED
  BY <1>2, <1>6, <1>7, <1>8, <1>9, <1>10, <1>11

LEMMA ConcatInOrder ==
  ASSUME NEW s \in Output, NEW t \in Output
  PROVE  /\ s \o t \in Output
         /\ Sorted(s) /\ Sorted(t) /\ Behind(s, t) => Sorted(s \o t)
         /\ \A n : UpTo(s, n) /\ UpTo(t, n) => UpTo(s \o t, n)
         /\ \A u : Behind(s, u) /\ Behind(t, u) => Behind(s \o t, u)
<1>1. s \in Seq(1..MaxOut) /\ t \in Seq(1..MaxOut)
  BY DEF Output
<1>2. PICK a : a = s \o t
  OBVIOUS
<1>3. /\ a \in Seq(1..MaxOut) /\ Len(a) = Len(s) + Len(t)
      /\ \A i \in 1..(Len(s) + Len(t)) : a[i] = IF i <= Len(s) THEN s[i] ELSE t[i - Len(s)]
  BY <1>1, <1>2
<1>4. /\ DOMAIN a = 1..(Len(s) + Len(t)) /\ DOMAIN s = 1..Len(s) /\ DOMAIN t = 1..Len(t)
      /\ Len(s) \in Nat /\ Len(t) \in Nat
  BY <1>1, <1>3
<1>5. \A i \in DOMAIN a : \/ i \in DOMAIN s /\ a[i] = s[i]
                          \/ i > Len(s) /\ i - Len(s) \in DOMAIN t /\ a[i] = t[i - Len(s)]
  BY <1>3, <1>4
<1>6. Sorted(s) /\ Sorted(t) /\ Behind(s, t) => Sorted(a)
  <2> SUFFICES ASSUME Sorted(s), Sorted(t), Behind(s, t),
                      NEW i \in DOMAIN a, NEW j \in DOMAIN a, i < j
               PROVE  a[i] <= a[j]
    BY DEF Sorted
  <2>1. CASE i \in DOMAIN s /\ a[i] = s[i]
    <3>1. CASE j \in DOMAIN s /\ a[j] = s[j]
      BY <2>1, <3>1 DEF Sorted
    <3>2. CASE j - Len(s) \in DOMAIN t /\ a[j] = t[j - Len(s)]
      BY <2>1, <3>2 DEF Behind
    <3> QED
      BY <1>5, <3>1, <3>2
  <2>2. CASE i > Len(s) /\ i - Len(s) \in DOMAIN t /\ a[i] = t[i - Len(s)]
    <3>1. j > Len(s) /\ i - Len(s) < j - Len(s)
      BY <1>4, <2>2
    <3>2. j - Len(s) \in DOMAIN t /\ a[j] = t[j - Len(s)]
      BY <1>4, <1>5, <3>1
    <3> QED
      BY <2>2, <3>1, <3>2 DEF Sorted
  <2> QED
    BY <1>5, <2>1, <2>2
<1>7. \A n : UpTo(s, n) /\ UpTo(t, n) => UpTo(a, n)
  BY <1>5 DEF UpTo
<1>8. \A u : Behind(s, u) /\ Behind(t, u) => Behind(a, u)
  BY <1>5 DEF Behind
<1> QED
  BY <1>2, <1>3, <1>6, <1>7, <1>8 DEF Output

-----------------------------------------------------------------------------
(* The invariant                                                             *)

\* There is one writer.
OneWriter == \A v, w \in Writer : v = w

\* What is stored, in hand and held is in order; what is in hand to be written is the last.
StoreInOrder ==
  /\ log # None => Sorted(log.output) /\ UpTo(log.output, out)
  /\ \A w \in Writer :
       /\ writer[w].pc = "save" => Sorted(writer[w].copy.output) /\ UpTo(writer[w].copy.output, out)
       /\ writer[w].pc # "idle" => writer[w].piece = out

HeldInOrder(cs, n) == \A c \in DOMAIN cs : Sorted(cs[c].held) /\ UpTo(cs[c].held, n)

\* What a connection has shown comes before what its channel holds.
ConnInOrder(x, cs, n) ==
  x.kind # "websocket" =>
    /\ Sorted(x.shown) /\ UpTo(x.shown, n) /\ x.buffer = <<>>
    /\ x.pc = "history" => x.shown = <<>> /\ x.chan = None
    /\ x.pc = "follow" => Behind(x.shown, cs[x.chan].held)

AllInOrder ==
  /\ StoreInOrder /\ HeldInOrder(chans, out)
  /\ \A s \in Stream : ConnInOrder(stream[s], chans, out)

\* Channels are made, or what they hold is taken from the front.
Shrinks ==
  /\ chans' \in Seq(Chan) /\ DOMAIN chans \subseteq DOMAIN chans' /\ UNCHANGED out
  /\ \A c \in DOMAIN chans :
       \/ chans'[c].held = chans[c].held
       \/ chans[c].held # <<>> /\ chans'[c].held = Tail(chans[c].held)
  /\ \A c \in DOMAIN chans' \ DOMAIN chans : chans'[c].held = <<>>

LEMMA HeldIsOutput ==
  ASSUME ChansOK
  PROVE  \A c \in DOMAIN chans : chans[c].held \in Output
<1>1. chans \in Seq(Chan)
  BY DEF ChansOK
<1>2. \A c \in DOMAIN chans : chans[c] \in Chan
  BY <1>1
<1> QED
  BY <1>2 DEF Chan

LEMMA ShrinksInOrder ==
  ASSUME IInv, Shrinks, HeldInOrder(chans, out)
  PROVE  /\ HeldInOrder(chans, out)'
         /\ \A x : ConnOK(x, Len(chans)) /\ ConnInOrder(x, chans, out) => ConnInOrder(x, chans', out')
<1>1. \A c \in DOMAIN chans : chans[c].held \in Output
  BY Parts, HeldIsOutput
<1>2. ASSUME NEW c \in DOMAIN chans
      PROVE  /\ Sorted(chans'[c].held) /\ UpTo(chans'[c].held, out')
             /\ \A t : Behind(t, chans[c].held) => Behind(t, chans'[c].held)
  <2>1. CASE chans'[c].held = chans[c].held
    BY <2>1 DEF HeldInOrder, Shrinks
  <2>2. CASE chans[c].held # <<>> /\ chans'[c].held = Tail(chans[c].held)
    BY <1>1, <2>2, TailInOrder DEF HeldInOrder, Shrinks
  <2> QED
    BY <2>1, <2>2 DEF Shrinks
<1>3. HeldInOrder(chans, out)'
  <2> SUFFICES ASSUME NEW c \in DOMAIN chans'
               PROVE  Sorted(chans'[c].held) /\ UpTo(chans'[c].held, out')
    BY DEF HeldInOrder
  <2>1. CASE c \in DOMAIN chans
    BY <1>2, <2>1
  <2>2. CASE c \notin DOMAIN chans
    BY <2>2, EmptyInOrder DEF Shrinks
  <2> QED
    BY <2>1, <2>2
<1>4. ASSUME NEW x, ConnOK(x, Len(chans)), ConnInOrder(x, chans, out)
      PROVE  ConnInOrder(x, chans', out')
  <2>1. DOMAIN chans = 1..Len(chans)
    BY Parts DEF ChansOK
  <2>2. x.pc = "follow" => x.chan \in DOMAIN chans
    BY <1>4, <2>1 DEF ConnOK
  <2> QED
    BY <1>2, <1>4, <2>2 DEF ConnInOrder, Shrinks
<1> QED
  BY <1>3, <1>4

\* What a stream has in hand
LEMMA InHand ==
  ASSUME IInv, NEW s \in Stream
  PROVE  /\ ConnOK(stream[s], Len(chans)) /\ stream[s] \in StreamRec
         /\ stream[s].pc = "follow" => stream[s].chan \in DOMAIN chans
         /\ stream[s].shown \in Output /\ stream[s].buffer \in Output
         /\ DOMAIN chans = 1..Len(chans) /\ chans \in Seq(Chan)
<1>1. stream[s] \in StreamRec
  BY Parts DEF StreamOK
<1>2. DOMAIN chans = 1..Len(chans) /\ chans \in Seq(Chan)
  BY Parts DEF ChansOK
<1>3. stream[s].shown \in Output /\ stream[s].buffer \in Output
  BY <1>1 DEF StreamRec
<1> QED
  BY <1>1, <1>2, <1>3, Parts DEF ConnOK, StreamsOK

\* A step of a stream: what it has in hand changes, and channels are made or taken from.
Moves(s, x) ==
  /\ stream' = [stream EXCEPT ![s] = x]
  /\ UNCHANGED <<log, out, writer, managed>>
  /\ Shrinks /\ ChansOK' /\ ConnOK(x, Len(chans'))
  /\ AllInOrder => ConnInOrder(x, chans', out)

LEMMA MovesKeep ==
  ASSUME IInv, NEW s \in Stream, NEW x, Moves(s, x)
  PROVE  IInv' /\ (AllInOrder => AllInOrder')
<1>1. /\ StreamOK' /\ StreamsOK' /\ stream'[s] = x
      /\ \A r \in Stream : r # s => stream'[r] = stream[r]
  BY StreamMoves DEF Moves, Shrinks
<1>2. (LogOK /\ WriterOK /\ managed \in BOOLEAN /\ WritersOK)'
  BY Parts DEF Moves, LogOK, WriterOK, WritersOK
<1>3. IInv'
  BY <1>1, <1>2, Together DEF Moves
<1>4. ASSUME AllInOrder PROVE AllInOrder'
  <2>1. StoreInOrder'
    BY <1>4 DEF AllInOrder, StoreInOrder, Moves
  <2>2. /\ HeldInOrder(chans, out)'
        /\ \A r \in Stream : ConnInOrder(stream[r], chans', out')
    BY <1>4, InHand, ShrinksInOrder DEF AllInOrder, Moves
  <2>3. \A r \in Stream : ConnInOrder(stream'[r], chans', out')
    BY <1>1, <1>4, <2>2 DEF Moves
  <2> QED
    BY <2>1, <2>2, <2>3 DEF AllInOrder
<1> QED
  BY <1>3, <1>4

-----------------------------------------------------------------------------
(* The steps of a stream                                                     *)

LEMMA StandsStill ==
  ASSUME IInv, UNCHANGED <<chans, sub, out>>
  PROVE  Shrinks /\ ChansOK' /\ Len(chans') = Len(chans)
BY Parts DEF ChansOK, Shrinks

LEMMA GoneMoves ==
  ASSUME IInv, NEW s \in Stream, stream' = [stream EXCEPT ![s] = Gone], Shrinks, ChansOK',
         UNCHANGED <<log, out, writer, managed>>
  PROVE  \E x : Moves(s, x)
<1>1. \A cs, n : ConnInOrder(Gone, cs, n)
  BY GoneIsRec, EmptyInOrder DEF ConnInOrder
<1>2. ConnOK(Gone, Len(chans'))
  BY GoneIsRec
<1>3. Moves(s, Gone)
  BY <1>1, <1>2 DEF Moves
<1> QED
  BY <1>3

\* A stream goes on to another step, with what it has.
LEMMA GotoMoves ==
  ASSUME IInv, NEW s \in Stream, stream[s].pc \notin {"away", "gone"},
         NEW pc \in {"subscribe", "follow", "leave"}, pc = "follow" => stream[s].chan # None,
         pc = "follow" => stream[s].pc = "follow" \/ stream[s].kind = "websocket",
         Goto(s, pc), Shrinks, ChansOK', Len(chans') = Len(chans),
         UNCHANGED <<log, out, writer, managed>>
  PROVE  \E x : Moves(s, x)
<1>1. PICK x : x = [stream[s] EXCEPT !.pc = pc]
  OBVIOUS
<1>2. stream[s] \in StreamRec /\ ConnOK(stream[s], Len(chans))
  BY InHand
<1>3. /\ x.pc = pc /\ x.kind = stream[s].kind /\ x.chan = stream[s].chan
      /\ x.shown = stream[s].shown /\ x.buffer = stream[s].buffer
  BY <1>1, <1>2 DEF StreamRec
<1>4. x \in StreamRec
  BY <1>1, <1>2 DEF StreamRec
<1>5. ConnOK(x, Len(chans'))
  BY <1>2, <1>3, <1>4 DEF ConnOK
<1>6. AllInOrder => ConnInOrder(x, chans', out)
  <2> SUFFICES ASSUME AllInOrder PROVE ConnInOrder(x, chans', out)
    OBVIOUS
  <2>1. ConnInOrder(stream[s], chans, out) /\ HeldInOrder(chans, out)
    BY DEF AllInOrder
  <2>2. ConnInOrder(stream[s], chans', out)
    BY <1>2, <2>1, ShrinksInOrder
  <2>3. CASE pc # "follow"
    BY <1>3, <2>2, <2>3 DEF ConnInOrder
  <2>4. CASE stream[s].pc = "follow" \/ stream[s].kind = "websocket"
    BY <1>3, <2>2, <2>4 DEF ConnInOrder
  <2> QED
    BY <2>3, <2>4
<1>7. stream' = [stream EXCEPT ![s] = x]
  BY <1>1 DEF Goto
<1>8. Moves(s, x)
  BY <1>5, <1>6, <1>7 DEF Moves
<1> QED
  BY <1>8

LEMMA ConnectMoves ==
  ASSUME LogStreamAssumption, IInv, NEW s \in Stream, Connect(s)
  PROVE  \E x : Moves(s, x)
<1>1. PICK k \in Kinds : stream' = [stream EXCEPT ![s] = [Away EXCEPT !.pc = First(k), !.kind = k]]
  BY DEF Connect
<1>2. PICK x : x = [pc |-> First(k), kind |-> k, chan |-> None, shown |-> <<>>, buffer |-> <<>>]
  OBVIOUS
<1>3. k \in Kind /\ First(k) \in {"history", "subscribe"} /\ <<>> \in Output
  BY DEF LogStreamAssumption, First, Output
<1>4. x \in StreamRec
  BY <1>2, <1>3 DEF StreamRec
<1>5. /\ x.pc \in {"history", "subscribe"} /\ x.kind = k /\ x.chan = None
      /\ x.shown = <<>> /\ x.buffer = <<>>
  BY <1>2, <1>3
<1>6. stream' = [stream EXCEPT ![s] = x]
  <2>1. PICK a : a = [pc |-> "away", kind |-> None, chan |-> None, shown |-> <<>>, buffer |-> <<>>]
    OBVIOUS
  <2>2. PICK f : f = First(k)
    OBVIOUS
  <2>3. [a EXCEPT !.pc = f, !.kind = k] = [pc |-> f, kind |-> k, chan |-> None, shown |-> <<>>,
                                           buffer |-> <<>>]
    <3>1. PICK b : b = [a EXCEPT !.pc = f]
      OBVIOUS
    <3>2. b = [pc |-> f, kind |-> None, chan |-> None, shown |-> <<>>, buffer |-> <<>>]
      BY <2>1, <3>1
    <3>3. [b EXCEPT !.kind = k] = [pc |-> f, kind |-> k, chan |-> None, shown |-> <<>>,
                                   buffer |-> <<>>]
      BY <3>2
    <3> QED
      BY <3>1, <3>3, Zenon
  <2>4. Away = a
    BY <2>1 DEF Away
  <2> QED
    BY <1>1, <1>2, <2>2, <2>3, <2>4
<1>7. Shrinks /\ ChansOK'
  BY StandsStill DEF Connect
<1>8. ConnOK(x, Len(chans')) /\ ConnInOrder(x, chans', out)
  BY <1>3, <1>4, <1>5, EmptyInOrder DEF ConnOK, ConnInOrder
<1>9. Moves(s, x)
  BY <1>6, <1>7, <1>8 DEF Moves, Connect
<1> QED
  BY <1>9

\* What a stream shows in one write
LEMMA ShowsRec ==
  ASSUME IInv, NEW s \in Stream, NEW p \in Output
  PROVE  /\ Shows(s, p) \in StreamRec
         /\ Shows(s, p).pc = stream[s].pc /\ Shows(s, p).kind = stream[s].kind
         /\ Shows(s, p).chan = stream[s].chan /\ Shows(s, p).buffer = stream[s].buffer
         /\ Shows(s, p).shown = stream[s].shown \o p
<1>1. stream[s] \in StreamRec /\ stream[s].shown \in Output
  BY InHand
<1>2. PICK o : o = stream[s].shown \o p
  OBVIOUS
<1>3. o \in Output
  BY <1>1, <1>2, ConcatInOrder
<1>4. Shows(s, p) = [stream[s] EXCEPT !.shown = o]
  BY <1>2 DEF Shows
<1>5. Shows(s, p) \in StreamRec
  BY <1>1, <1>3, <1>4 DEF StreamRec
<1>6. /\ Shows(s, p).pc = stream[s].pc /\ Shows(s, p).kind = stream[s].kind
      /\ Shows(s, p).chan = stream[s].chan /\ Shows(s, p).buffer = stream[s].buffer
      /\ Shows(s, p).shown = o
  BY <1>1, <1>4 DEF StreamRec
<1> QED
  BY <1>2, <1>5, <1>6

LEMMA HistoryMoves ==
  ASSUME IInv, NEW s \in Stream, History(s)
  PROVE  \E x : Moves(s, x)
<1>1. Shrinks /\ ChansOK' /\ Len(chans') = Len(chans)
  BY StandsStill DEF History
<1>2. CASE stream' = [stream EXCEPT ![s] = Gone]
  BY <1>1, <1>2, GoneMoves DEF History
<1>3. CASE stream' = [stream EXCEPT ![s] = [Shows(s, log.output) EXCEPT !.pc = AfterHistory(s)]]
  <2>1. log \in Log
    BY Parts DEF LogOK, History
  <2>2. log.output \in Output
    BY <2>1 DEF Log
  <2>3. PICK y : y = Shows(s, log.output)
    OBVIOUS
  <2>4. /\ y \in StreamRec /\ y.pc = "history" /\ y.kind = stream[s].kind
        /\ y.chan = stream[s].chan /\ y.buffer = stream[s].buffer
        /\ y.shown = stream[s].shown \o log.output
    BY <2>2, <2>3, ShowsRec DEF History
  <2>5. PICK x : x = [y EXCEPT !.pc = AfterHistory(s)]
    OBVIOUS
  <2>6. AfterHistory(s) \in {"subscribe", "follow"}
    BY DEF AfterHistory
  <2>7. x \in StreamRec
    BY <2>4, <2>5, <2>6 DEF StreamRec
  <2>8. /\ x.pc = AfterHistory(s) /\ x.kind = y.kind /\ x.chan = y.chan /\ x.shown = y.shown
        /\ x.buffer = y.buffer
    BY <2>4, <2>5 DEF StreamRec
  <2>9. ConnOK(x, Len(chans'))
    <3>1. ConnOK(stream[s], Len(chans)) /\ stream[s].pc = "history"
      BY InHand DEF History
    <3>2. x.kind \in Kind /\ (x.chan # None => x.chan \in 1..Len(chans'))
      BY <1>1, <2>4, <2>8, <3>1 DEF ConnOK
    <3>3. x.pc = "follow" => x.chan # None
      BY <2>4, <2>8 DEF AfterHistory
    <3> QED
      BY <2>7, <3>2, <3>3 DEF ConnOK
  <2>10. AllInOrder => ConnInOrder(x, chans', out)
    <3> SUFFICES ASSUME AllInOrder, stream[s].kind # "websocket" PROVE ConnInOrder(x, chans', out)
      BY <2>4, <2>8 DEF ConnInOrder
    <3>1. stream[s].shown = <<>> /\ stream[s].chan = None /\ stream[s].buffer = <<>>
      BY DEF AllInOrder, ConnInOrder, History
    <3>2. x.pc = "subscribe" /\ x.shown = <<>> \o log.output /\ x.buffer = <<>>
      BY <2>4, <2>8, <3>1 DEF AfterHistory
    <3>3. Sorted(log.output) /\ UpTo(log.output, out)
      BY DEF AllInOrder, StoreInOrder, History
    <3>4. x.shown = log.output
      BY <2>2, <3>2 DEF Output
    <3> QED
      BY <3>2, <3>3, <3>4 DEF ConnInOrder
  <2>11. stream' = [stream EXCEPT ![s] = x]
    BY <1>3, <2>3, <2>5
  <2>12. Moves(s, x)
    BY <1>1, <2>9, <2>10, <2>11 DEF Moves, History
  <2> QED
    BY <2>12
<1> QED
  BY <1>2, <1>3 DEF History

LEMMA NoHistoryMoves ==
  ASSUME IInv, NEW s \in Stream, NoHistory(s)
  PROVE  \E x : Moves(s, x)
<1>1. Shrinks /\ ChansOK' /\ Len(chans') = Len(chans)
  BY StandsStill DEF NoHistory
<1>2. CASE stream' = [stream EXCEPT ![s] = Gone]
  BY <1>1, <1>2, GoneMoves DEF NoHistory
<1>3. CASE Goto(s, AfterHistory(s))
  <2>1. /\ AfterHistory(s) \in {"subscribe", "follow", "leave"} /\ stream[s].pc = "history"
        /\ AfterHistory(s) = "follow" => stream[s].chan # None
    BY DEF AfterHistory, NoHistory
  <2>2. CASE AfterHistory(s) = "follow" => stream[s].kind = "websocket"
    BY <1>1, <1>3, <2>1, <2>2, GotoMoves DEF NoHistory
  <2>3. CASE stream[s].chan # None /\ stream[s].kind # "websocket"
    <3>1. PICK x : x = [stream[s] EXCEPT !.pc = "follow"]
      OBVIOUS
    <3>2. stream[s] \in StreamRec /\ ConnOK(stream[s], Len(chans))
      BY InHand
    <3>3. /\ x.pc = "follow" /\ x.kind = stream[s].kind /\ x.chan = stream[s].chan
      BY <3>1, <3>2 DEF StreamRec
    <3>4. x \in StreamRec
      BY <3>1, <3>2 DEF StreamRec
    <3>5. ConnOK(x, Len(chans'))
      BY <1>1, <2>1, <2>3, <3>2, <3>3, <3>4 DEF ConnOK
    <3>6. ~AllInOrder
      BY <2>1, <2>3 DEF AllInOrder, ConnInOrder
    <3>7. stream' = [stream EXCEPT ![s] = x]
      BY <1>3, <2>3, <3>1 DEF Goto, AfterHistory
    <3>8. Moves(s, x)
      BY <1>1, <3>5, <3>6, <3>7 DEF Moves, NoHistory
    <3> QED
      BY <3>8
  <2> QED
    BY <2>2, <2>3 DEF AfterHistory
<1> QED
  BY <1>2, <1>3 DEF NoHistory

LEMMA SubscribeMoves ==
  ASSUME LogStreamAssumption, IInv, NEW s \in Stream, Subscribe(s)
  PROVE  \E x : Moves(s, x)
<1>1. CASE stream' = [stream EXCEPT ![s] = Gone] /\ UNCHANGED <<chans, sub>>
  <2>1. Shrinks /\ ChansOK'
    BY <1>1, StandsStill DEF Subscribe
  <2> QED
    BY <1>1, <2>1, GoneMoves DEF Subscribe
<1>2. CASE /\ Len(chans) < MaxChan
           /\ chans' = Append(chans, [held |-> <<>>, open |-> TRUE])
           /\ sub' = Len(chans')
           /\ stream' = [stream EXCEPT ![s].chan = Len(chans'),
                                       ![s].pc = AfterSubscribe(stream[s].kind)]
  <2>1. /\ ChansOK' /\ chans' \in Seq(Chan) /\ Len(chans') = Len(chans) + 1
        /\ DOMAIN chans \subseteq DOMAIN chans' /\ Len(chans') \in DOMAIN chans'
        /\ Len(chans') \in 1..MaxChan /\ Len(chans') # None
        /\ chans'[Len(chans')].held = <<>>
        /\ \A d \in DOMAIN chans : chans'[d] = chans[d]
    BY <1>2, Parts, ChannelIsMade
  <2>2. DOMAIN chans' = 1..Len(chans') /\ DOMAIN chans = 1..Len(chans) /\ Len(chans) \in Nat
    BY <2>1, Parts DEF ChansOK
  <2>3. \A c \in DOMAIN chans' \ DOMAIN chans : c = Len(chans')
    BY <2>1, <2>2
  <2>4. Shrinks
    BY <2>1, <2>3 DEF Shrinks, Subscribe
  <2>5. PICK n : n = Len(chans')
    OBVIOUS
  <2>6. PICK x : x = [stream[s] EXCEPT !.chan = n, !.pc = AfterSubscribe(stream[s].kind)]
    OBVIOUS
  <2>7. AfterSubscribe(stream[s].kind) \in {"history", "follow"}
    BY DEF AfterSubscribe
  <2>8. stream[s] \in StreamRec /\ stream[s].kind \in Kind
    BY InHand DEF ConnOK, Subscribe
  <2>9. x \in StreamRec
    BY <2>1, <2>5, <2>6, <2>7, <2>8 DEF StreamRec
  <2>10. /\ x.pc = AfterSubscribe(stream[s].kind) /\ x.kind = stream[s].kind /\ x.chan = n
         /\ x.shown = stream[s].shown /\ x.buffer = stream[s].buffer
    BY <2>6, <2>8 DEF StreamRec
  <2>11. n \in 1..Len(chans') /\ n # None
    BY <2>1, <2>2, <2>5
  <2>12. ConnOK(x, Len(chans'))
    BY <2>8, <2>9, <2>10, <2>11 DEF ConnOK
  <2>13. AllInOrder => ConnInOrder(x, chans', out)
    <3> SUFFICES ASSUME AllInOrder, stream[s].kind # "websocket" PROVE ConnInOrder(x, chans', out)
      BY <2>10 DEF ConnInOrder
    <3>1. Sorted(stream[s].shown) /\ UpTo(stream[s].shown, out) /\ stream[s].buffer = <<>>
      BY DEF AllInOrder, ConnInOrder
    <3>2. x.pc = "follow"
      BY <2>10 DEF AfterSubscribe, First
    <3>3. Behind(x.shown, chans'[x.chan].held)
      BY <2>1, <2>5, <2>10, EmptyInOrder
    <3> QED
      BY <2>10, <3>1, <3>2, <3>3 DEF ConnInOrder
  <2>14. stream' = [stream EXCEPT ![s] = x]
    BY <1>2, <2>5, <2>6, Parts DEF StreamOK
  <2>15. Moves(s, x)
    BY <2>1, <2>4, <2>12, <2>13, <2>14 DEF Moves, Subscribe
  <2> QED
    BY <2>15
<1> QED
  BY <1>1, <1>2 DEF Subscribe

LEMMA UnsubscribeMoves ==
  ASSUME IInv, NEW s \in Stream, Unsubscribe(s)
  PROVE  \E x : Moves(s, x)
<1>1. Shrinks /\ ChansOK'
  BY Parts, CloseClosed DEF Unsubscribe, Shrinks
<1> QED
  BY <1>1, GoneMoves DEF Unsubscribe

-----------------------------------------------------------------------------
(* The steps of a stream that follows                                        *)

\* A message is taken from the channel.
LEMMA TakenShrinks ==
  ASSUME LogStreamAssumption, IInv, NEW s \in Stream, stream[s].pc = "follow", Held(s) # <<>>, chans' = Taken(s),
         UNCHANGED <<sub, out>>
  PROVE  /\ Shrinks /\ ChansOK' /\ Len(chans') = Len(chans)
         /\ Head(Held(s)) \in 1..MaxOut /\ chans'[stream[s].chan].held = Tail(Held(s))
<1>1. PICK c : c = stream[s].chan
  OBVIOUS
<1>2. c \in DOMAIN chans /\ chans[c].held \in Output
  BY <1>1, InHand, Parts, HeldIsOutput
<1>3. PICK h : h = Tail(chans[c].held)
  OBVIOUS
<1>4. chans[c].held # <<>> /\ chans' = [chans EXCEPT ![c].held = h]
  BY <1>1, <1>3 DEF Held, Taken
<1>5. h \in Output /\ Len(h) <= Capacity /\ Head(chans[c].held) \in 1..MaxOut
  <2>1. Len(chans[c].held) <= Capacity
    BY <1>2, Parts DEF ChansOK
  <2>2. /\ h \in Output /\ Len(h) = Len(chans[c].held) - 1 /\ Len(chans[c].held) \in Nat
        /\ Head(chans[c].held) \in 1..MaxOut
    BY <1>2, <1>3, <1>4, TailIsOutput
  <2>3. Len(h) <= Capacity
    BY <2>1, <2>2 DEF LogStreamAssumption
  <2> QED
    BY <2>2, <2>3
<1>6. /\ ChansOK' /\ chans' \in Seq(Chan) /\ Len(chans') = Len(chans)
      /\ DOMAIN chans' = DOMAIN chans /\ chans'[c].held = h
      /\ \A d \in DOMAIN chans : d # c => chans'[d] = chans[d]
  BY <1>2, <1>4, <1>5, Parts, HeldMoves
<1>7. Shrinks
  BY <1>3, <1>4, <1>6 DEF Shrinks
<1> QED
  BY <1>1, <1>3, <1>5, <1>6, <1>7 DEF Held

LEMMA ReceiveMoves ==
  ASSUME LogStreamAssumption, IInv, NEW s \in Stream, Receive(s)
  PROVE  \E x : Moves(s, x)
<1>1. /\ Shrinks /\ ChansOK' /\ Len(chans') = Len(chans)
      /\ Head(Held(s)) \in 1..MaxOut /\ chans'[stream[s].chan].held = Tail(Held(s))
  BY TakenShrinks DEF Receive
<1>2. /\ stream[s] \in StreamRec /\ ConnOK(stream[s], Len(chans)) /\ stream[s].pc = "follow"
      /\ stream[s].chan \in DOMAIN chans /\ stream[s].buffer \in Output
      /\ stream[s].shown \in Output /\ Held(s) \in Output /\ Held(s) # <<>>
  BY InHand, Parts, HeldIsOutput DEF Receive, Held
<1>3. PICK p : p = Head(Held(s))
  OBVIOUS
<1>4. CASE stream[s].kind = "websocket"
  <2>1. PICK b : b = Append(stream[s].buffer, p)
    OBVIOUS
  <2>2. b \in Output
    BY <1>1, <1>2, <1>3, <2>1 DEF Output
  <2>3. PICK x : x = [stream[s] EXCEPT !.buffer = b]
    OBVIOUS
  <2>4. x \in StreamRec
    BY <1>2, <2>2, <2>3 DEF StreamRec
  <2>5. x.pc = stream[s].pc /\ x.kind = stream[s].kind /\ x.chan = stream[s].chan
    BY <1>2, <2>3 DEF StreamRec
  <2>6. ConnOK(x, Len(chans')) /\ ConnInOrder(x, chans', out)
    BY <1>1, <1>2, <1>4, <2>4, <2>5 DEF ConnOK, ConnInOrder
  <2>7. stream' = [stream EXCEPT ![s] = x]
    <3>1. stream' = [stream EXCEPT ![s] = Gathers(s, Head(Held(s)))]
      BY <1>4 DEF Receive
    <3> QED
      BY <1>3, <2>1, <2>3, <3>1 DEF Gathers
  <2>8. Moves(s, x)
    BY <1>1, <2>6, <2>7 DEF Moves, Receive
  <2> QED
    BY <2>8
<1>5. CASE stream[s].kind # "websocket"
  <2>1. <<p>> \in Output /\ Sorted(<<p>>) /\ \A n \in Nat : p <= n => UpTo(<<p>>, n)
    BY <1>1, <1>3, OneInOrder
  <2>2. PICK x : x = Shows(s, <<p>>)
    OBVIOUS
  <2>3. /\ x \in StreamRec
        /\ x.pc = stream[s].pc /\ x.kind = stream[s].kind
        /\ x.chan = stream[s].chan /\ x.buffer = stream[s].buffer
        /\ x.shown = stream[s].shown \o <<p>>
    BY <2>1, <2>2, ShowsRec
  <2>4. ConnOK(x, Len(chans'))
    BY <1>1, <1>2, <2>3 DEF ConnOK
  <2>5. AllInOrder => ConnInOrder(x, chans', out)
    <3> SUFFICES ASSUME AllInOrder PROVE ConnInOrder(x, chans', out)
      OBVIOUS
    <3>1. /\ Sorted(stream[s].shown) /\ UpTo(stream[s].shown, out) /\ stream[s].buffer = <<>>
          /\ Behind(stream[s].shown, Held(s)) /\ Sorted(Held(s)) /\ UpTo(Held(s), out)
      BY <1>2, <1>5 DEF AllInOrder, ConnInOrder, HeldInOrder, Held
    <3>2. /\ p <= out /\ Behind(stream[s].shown, Tail(Held(s))) /\ Behind(<<p>>, Tail(Held(s)))
      BY <1>2, <1>3, <3>1, TailInOrder
    <3>3. out \in Nat
      BY Parts DEF LogOK, LogStreamAssumption
    <3>4. UpTo(<<p>>, out)
      BY <2>1, <3>2, <3>3
    <3>5. Behind(stream[s].shown, <<p>>)
      <4>1. 1 \in DOMAIN Held(s) /\ Head(Held(s)) = Held(s)[1]
        BY <1>2 DEF Output
      <4>2. \A i \in DOMAIN <<p>> : <<p>>[i] = Held(s)[1]
        BY <1>3, <4>1
      <4> QED
        BY <3>1, <4>1, <4>2 DEF Behind
    <3>6. /\ Sorted(x.shown) /\ UpTo(x.shown, out) /\ Behind(x.shown, Tail(Held(s)))
      BY <1>2, <2>1, <2>3, <3>1, <3>2, <3>4, <3>5, ConcatInOrder
    <3> QED
      BY <1>1, <1>2, <2>3, <3>1, <3>6 DEF ConnInOrder
  <2>6. stream' = [stream EXCEPT ![s] = x]
    BY <1>3, <1>5, <2>2 DEF Receive
  <2>7. Moves(s, x)
    BY <1>1, <2>4, <2>5, <2>6 DEF Moves, Receive
  <2> QED
    BY <2>7
<1> QED
  BY <1>4, <1>5

LEMMA FlushMoves ==
  ASSUME IInv, NEW s \in Stream, Flush(s)
  PROVE  \E x : Moves(s, x)
<1>1. Shrinks /\ ChansOK' /\ Len(chans') = Len(chans)
  BY StandsStill DEF Flush
<1>2. /\ ConnOK(stream[s], Len(chans)) /\ stream[s].pc = "follow"
      /\ stream[s].buffer \in Output /\ <<>> \in Output
  BY InHand DEF Flush, Output
<1>3. PICK y : y = Shows(s, stream[s].buffer)
  OBVIOUS
<1>4. /\ y \in StreamRec
      /\ y.pc = stream[s].pc /\ y.kind = stream[s].kind /\ y.chan = stream[s].chan
  BY <1>2, <1>3, ShowsRec
<1>5. PICK x : x = [y EXCEPT !.buffer = <<>>]
  OBVIOUS
<1>6. x \in StreamRec
  BY <1>2, <1>4, <1>5 DEF StreamRec
<1>7. x.pc = y.pc /\ x.kind = y.kind /\ x.chan = y.chan
  BY <1>4, <1>5 DEF StreamRec
<1>8. ConnOK(x, Len(chans'))
  BY <1>1, <1>2, <1>4, <1>6, <1>7 DEF ConnOK
<1>9. AllInOrder => ConnInOrder(x, chans', out)
  <2>1. stream[s].kind # "websocket" => ~AllInOrder
    BY DEF AllInOrder, ConnInOrder, Flush
  <2> QED
    BY <1>4, <1>7, <2>1 DEF ConnInOrder
<1>10. stream' = [stream EXCEPT ![s] = x]
  BY <1>3, <1>5 DEF Flush
<1>11. Moves(s, x)
  BY <1>1, <1>8, <1>9, <1>10 DEF Moves, Flush
<1> QED
  BY <1>11

LEMMA LeaveMoves ==
  ASSUME LogStreamAssumption, IInv, NEW s \in Stream,
         ChannelClosed(s) \/ Ends(s) \/ WriteFails(s)
  PROVE  \E x : Moves(s, x)
<1>1. Goto(s, "leave") /\ stream[s].pc = "follow" /\ UNCHANGED <<log, out, writer, sub, managed>>
  BY DEF ChannelClosed, Ends, WriteFails
<1>2. UNCHANGED chans \/ (Held(s) # <<>> /\ chans' = Taken(s))
  BY DEF ChannelClosed, Ends, WriteFails
<1>3. Shrinks /\ ChansOK' /\ Len(chans') = Len(chans)
  BY <1>1, <1>2, StandsStill, TakenShrinks
<1> QED
  BY <1>1, <1>3, GotoMoves

LEMMA StreamStepKeeps ==
  ASSUME LogStreamAssumption, IInv, NEW s \in Stream, StreamStep(s)
  PROVE  IInv' /\ (AllInOrder => AllInOrder')
<1>1. \E x : Moves(s, x)
  BY ConnectMoves, HistoryMoves, NoHistoryMoves, SubscribeMoves, UnsubscribeMoves, ReceiveMoves,
     FlushMoves, LeaveMoves DEF StreamStep
<1> QED
  BY <1>1, MovesKeep

-----------------------------------------------------------------------------
(* The steps of the writer, and of the manager                               *)

\* Nothing but the number of pieces changes for the streams.
LEMMA MoreInOrder ==
  ASSUME IInv, LogStreamAssumption, UNCHANGED <<chans, stream>>, out' \in Nat, out <= out'
  PROVE  /\ HeldInOrder(chans, out) => HeldInOrder(chans, out)'
         /\ \A s \in Stream : ConnInOrder(stream[s], chans, out) => ConnInOrder(stream[s], chans, out)'
         /\ \A t \in Output : UpTo(t, out) => UpTo(t, out')
<1>1. out \in Nat /\ MaxOut \in Nat
  BY Parts DEF LogOK, LogStreamAssumption
<1>2. \A t \in Output : UpTo(t, out) => UpTo(t, out')
  <2> SUFFICES ASSUME NEW t \in Output, UpTo(t, out), NEW i \in DOMAIN t PROVE t[i] <= out'
    BY DEF UpTo
  <2>1. t \in Seq(1..MaxOut)
    BY DEF Output
  <2>2. t[i] \in 1..MaxOut
    <3>1. \A S : t \in Seq(S) => t[i] \in S
      OBVIOUS
    <3> QED
      BY <2>1, <3>1
  <2>3. t[i] <= out
    BY DEF UpTo
  <2> QED
    BY <1>1, <2>2, <2>3
<1>3. \A c \in DOMAIN chans : chans[c].held \in Output
  BY Parts, HeldIsOutput
<1>4. \A s \in Stream : stream[s].shown \in Output
  BY InHand
<1> QED
  BY <1>2, <1>3, <1>4 DEF HeldInOrder, ConnInOrder

LEMMA AppendReadsKeeps ==
  ASSUME LogStreamAssumption, OneWriter, IInv, AllInOrder, NEW w \in Writer, AppendReads(w)
  PROVE  AllInOrder'
<1>1. /\ writer'[w].pc = "save" /\ writer'[w].piece = out' /\ writer'[w].copy = log
      /\ UNCHANGED <<log, chans, stream>> /\ log # None
  BY AppendReadsMoves DEF AppendReads
<1>2. out' \in Nat /\ out <= out'
  BY PieceIsNew, Parts DEF AppendReads, LogOK, LogStreamAssumption
<1>3. log.output \in Output
  BY <1>1, Parts DEF LogOK, Log
<1>4. Sorted(log.output) /\ UpTo(log.output, out')
  BY <1>1, <1>2, <1>3, MoreInOrder DEF AllInOrder, StoreInOrder
<1>5. \A v \in Writer : v = w
  BY DEF OneWriter
<1>6. StoreInOrder'
  BY <1>1, <1>4, <1>5 DEF StoreInOrder
<1> QED
  BY <1>1, <1>2, <1>6, MoreInOrder DEF AllInOrder

LEMMA UpdateKeeps ==
  ASSUME LogStreamAssumption, OneWriter, IInv, AllInOrder, NEW w \in Writer, UpdateLogStatus(w)
  PROVE  AllInOrder'
<1>1. /\ writer'[w].pc = "notify" /\ writer'[w].piece = out' /\ UNCHANGED <<chans, stream>>
      /\ log' = None \/ log'.output = <<out'>>
  BY UpdateMoves DEF UpdateLogStatus
<1>2. out' \in 1..MaxOut /\ out' \in Nat /\ out <= out'
  BY PieceIsNew, Parts DEF UpdateLogStatus, LogOK, LogStreamAssumption
<1>3. Sorted(<<out'>>) /\ UpTo(<<out'>>, out')
  BY <1>2, OneInOrder
<1>4. \A v \in Writer : v = w
  BY DEF OneWriter
<1>5. StoreInOrder'
  BY <1>1, <1>3, <1>4 DEF StoreInOrder
<1> QED
  BY <1>1, <1>2, <1>5, MoreInOrder DEF AllInOrder

LEMMA AppendSavesKeeps ==
  ASSUME LogStreamAssumption, OneWriter, IInv, AllInOrder, NEW w \in Writer, AppendSaves(w)
  PROVE  AllInOrder'
<1>1. /\ UNCHANGED <<out, chans, stream>> /\ writer[w].pc = "save"
      /\ \/ /\ log'.output = Append(writer[w].copy.output, writer[w].piece)
            /\ writer'[w].pc = "notify" /\ writer'[w].piece = writer[w].piece
         \/ UNCHANGED log /\ writer'[w].pc = "idle"
  BY AppendSavesMoves DEF AppendSaves
<1>2. writer[w].copy.output \in Output /\ writer[w].piece \in 1..MaxOut
  BY <1>1, Parts DEF WritersOK, Log
<1>3. /\ Sorted(writer[w].copy.output) /\ writer[w].piece = out
      /\ UpTo(writer[w].copy.output, writer[w].piece)
  BY <1>1 DEF AllInOrder, StoreInOrder
<1>4. /\ Sorted(Append(writer[w].copy.output, writer[w].piece))
      /\ UpTo(Append(writer[w].copy.output, writer[w].piece), out)
  BY <1>2, <1>3, AppendInOrder
<1>5. \A v \in Writer : v = w
  BY DEF OneWriter
<1>6. StoreInOrder'
  BY <1>1, <1>3, <1>4, <1>5 DEF AllInOrder, StoreInOrder
<1> QED
  BY <1>1, <1>6 DEF AllInOrder, HeldInOrder, ConnInOrder

LEMMA NotifyKeeps ==
  ASSUME LogStreamAssumption, OneWriter, IInv, AllInOrder, NEW w \in Writer, Notify(w)
  PROVE  AllInOrder'
<1>1. /\ UNCHANGED <<log, out, stream>> /\ writer[w].pc = "notify" /\ writer'[w].pc = "idle"
  BY NotifyMoves DEF Notify
<1>2. writer[w].piece = out /\ out \in 1..MaxOut
  BY <1>1, Parts DEF AllInOrder, StoreInOrder, WritersOK
<1>3. \A v \in Writer : v = w
  BY DEF OneWriter
<1>4. StoreInOrder'
  BY <1>1, <1>3 DEF AllInOrder, StoreInOrder
<1>5. CASE UNCHANGED chans
  BY <1>1, <1>4, <1>5 DEF AllInOrder, HeldInOrder, ConnInOrder
<1>6. ASSUME NEW c \in DOMAIN chans, chans'[c].held = Append(chans[c].held, out),
             DOMAIN chans' = DOMAIN chans, \A d \in DOMAIN chans : d # c => chans'[d] = chans[d]
      PROVE  AllInOrder'
  <2>1. chans[c].held \in Output /\ Sorted(chans[c].held) /\ UpTo(chans[c].held, out)
    BY Parts, HeldIsOutput DEF AllInOrder, HeldInOrder
  <2>2. Sorted(chans'[c].held) /\ UpTo(chans'[c].held, out)
    BY <1>2, <1>6, <2>1, EmptyInOrder, AppendInOrder
  <2>3. HeldInOrder(chans, out)'
    BY <1>1, <1>6, <2>2 DEF AllInOrder, HeldInOrder
  <2>4. ASSUME NEW s \in Stream PROVE ConnInOrder(stream[s], chans, out)'
    <3>1. ConnInOrder(stream[s], chans, out) /\ stream[s].shown \in Output
      BY InHand DEF AllInOrder
    <3>2. stream[s].pc = "follow" => stream[s].chan \in DOMAIN chans
      BY InHand
    <3>3. ASSUME UpTo(stream[s].shown, out), Behind(stream[s].shown, chans[c].held)
          PROVE  Behind(stream[s].shown, chans'[c].held)
      BY <1>2, <1>6, <2>1, <3>1, <3>3, AppendInOrder
    <3> QED
      BY <1>1, <1>6, <3>1, <3>2, <3>3 DEF ConnInOrder
  <2> QED
    BY <1>4, <2>3, <2>4 DEF AllInOrder
<1> QED
  BY <1>2, <1>5, <1>6, NotifyMoves

LEMMA WriterStepKeeps ==
  ASSUME LogStreamAssumption, IInv, NEW w \in Writer, WriterStep(w)
  PROVE  IInv' /\ (OneWriter /\ AllInOrder => AllInOrder')
BY AppendReadsMoves, UpdateMoves, AppendSavesMoves, NotifyMoves, AppendReadsKeeps, UpdateKeeps,
   AppendSavesKeeps, NotifyKeeps DEF WriterStep

LEMMA ManagerStepKeeps ==
  ASSUME IInv, DeleteOldLogs \/ CleanupStaleSubscriptions \/ Stop \/ Start
  PROVE  IInv' /\ (AllInOrder => AllInOrder')
<1>1. UNCHANGED <<out, writer, stream>> /\ log' \in {log, None} /\ managed' \in BOOLEAN
  BY Parts DEF DeleteOldLogs, CleanupStaleSubscriptions, Stop, Start
<1>2. UNCHANGED <<chans, sub>> \/ Close
  BY DEF DeleteOldLogs, CleanupStaleSubscriptions, Stop, Start
<1>3. /\ ChansOK' /\ DOMAIN chans' = DOMAIN chans
      /\ \A d \in DOMAIN chans : chans'[d].held = chans[d].held
  <2>1. CASE UNCHANGED <<chans, sub>>
    BY <2>1, Parts DEF ChansOK
  <2>2. CASE Close
    BY <2>2, Parts, CloseClosed
  <2> QED
    BY <1>2, <2>1, <2>2
<1>4. (LogOK /\ WriterOK /\ StreamOK /\ WritersOK /\ StreamsOK)'
  BY <1>1, <1>3, Parts DEF LogOK, WriterOK, StreamOK, WritersOK, StreamsOK
<1>5. IInv'
  BY <1>1, <1>3, <1>4, Together
<1>6. ASSUME AllInOrder PROVE AllInOrder'
  <2>1. StoreInOrder'
    BY <1>1, <1>6 DEF AllInOrder, StoreInOrder
  <2>2. HeldInOrder(chans, out)'
    BY <1>1, <1>3, <1>6 DEF AllInOrder, HeldInOrder
  <2>3. \A s \in Stream : ConnInOrder(stream[s], chans, out)'
    BY <1>1, <1>3, <1>6, InHand DEF AllInOrder, ConnInOrder
  <2> QED
    BY <2>1, <2>2, <2>3 DEF AllInOrder
<1> QED
  BY <1>5, <1>6

LEMMA NextKeeps ==
  ASSUME LogStreamAssumption, IInv, [Next]_vars
  PROVE  IInv' /\ (OneWriter /\ AllInOrder => AllInOrder')
<1>1. CASE Next
  BY <1>1, WriterStepKeeps, StreamStepKeeps, ManagerStepKeeps DEF Next
<1>2. CASE UNCHANGED vars
  <2>1. IInv'
    BY <1>2 DEF vars, IInv, TypeOK, WritersOK, StreamsOK
  <2>2. AllInOrder => AllInOrder'
    BY <1>2 DEF vars, AllInOrder, StoreInOrder, HeldInOrder, ConnInOrder
  <2> QED
    BY <2>1, <2>2
<1> QED
  BY <1>1, <1>2

-----------------------------------------------------------------------------
(* The theorems                                                              *)

\* The channel of the subscription is open, so that no message is sent on a closed channel and
\* none is closed twice; no channel holds more than its capacity: notifySubscribers,
\* UnsubscribeFromLogUpdates, cleanupStaleSubscriptions and Stop, in any order.
THEOREM ChannelsAreSafe == LogStreamAssumption => (Spec => []TypeOK)
<1> SUFFICES ASSUME LogStreamAssumption PROVE Spec => []TypeOK
  OBVIOUS
<1>1. Init => IInv
  BY Initially
<1>2. IInv /\ [Next]_vars => IInv'
  BY NextKeeps
<1>3. IInv => TypeOK
  BY DEF IInv
<1> QED
  BY <1>1, <1>2, <1>3, PTL DEF Spec

\* Where one writer writes the log, SSE and StreamLogOutput show no piece after a later one,
\* whatever happens to their subscriptions and to the log.
THEOREM ShownInOrder == LogStreamAssumption /\ OneWriter => (Spec => []StreamsInOrder)
<1> SUFFICES ASSUME LogStreamAssumption, OneWriter PROVE Spec => []StreamsInOrder
  OBVIOUS
<1> DEFINE Ordered == IInv /\ AllInOrder
<1>1. Init => Ordered
  <2> SUFFICES ASSUME Init PROVE Ordered
    OBVIOUS
  <2>1. StoreInOrder
    BY EmptyInOrder DEF Init, StoreInOrder, WriterIdle
  <2>2. HeldInOrder(chans, out)
    BY DEF Init, HeldInOrder
  <2>3. \A s \in Stream : ConnInOrder(stream[s], chans, out)
    BY EmptyInOrder DEF Init, ConnInOrder, Away
  <2> QED
    BY <2>1, <2>2, <2>3, Initially DEF AllInOrder
<1>2. Ordered /\ [Next]_vars => Ordered'
  BY NextKeeps
<1>3. Ordered => StreamsInOrder
  BY DEF AllInOrder, ConnInOrder, StreamsInOrder, Sorted
<1> QED
  BY <1>1, <1>2, <1>3, PTL DEF Spec
=============================================================================
