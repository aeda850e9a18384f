--------------------------- MODULE LogPipe_proofs ---------------------------
(***************************************************************************)
(* Proofs about LogPipe, for any containers and scripts, any sizes of the  *)
(* scanner's buffer and of the FIFO, and any number of crashes: the type   *)
(* invariant, InOrder, NoRawSecret, and that LogPipe implements MaskedLog. *)
(***************************************************************************)
EXTENDS LogPipe, SequenceTheorems, InductionLemmas

Cell == {c \in App \X Nat \X Nat : /\ c[1] \in active /\ c[2] \in Lines(c[1])
                                   /\ c[3] \in 1..Size(c[1], c[2])}

Printed == [drop : BOOLEAN, cells : Seq(Cell)]

LEMMA ScriptTyped ==
  ASSUME NEW a \in App
  PROVE  /\ Len(Script[a]) \in Nat /\ Lines(a) = 1..Len(Script[a])
         /\ \A l \in Lines(a) : /\ Size(a, l) \in Nat /\ Size(a, l) >= 1
                                /\ Script[a][l].secret \subseteq 1..(Size(a, l) - 1)
<1>1. Script[a] \in Seq([size : Nat \ {0}, secret : SUBSET Nat])
  BY ScriptAssumption
<1>2. Len(Script[a]) \in Nat /\ Lines(a) = 1..Len(Script[a])
  BY <1>1 DEF Lines
<1>3. ASSUME NEW l \in Lines(a) PROVE Script[a][l] \in [size : Nat \ {0}, secret : SUBSET Nat]
  BY <1>1, <1>2, <1>3, ElementOfSeq
<1>4. QED
  BY <1>2, <1>3, ScriptAssumption DEF Size, Lines

-----------------------------------------------------------------------------
(* MaskLine and the scanner's tokens.                                      *)

\* s is what is left of t when some elements are taken out.
LeftOf(s, t) ==
    \E f \in [DOMAIN s -> DOMAIN t] :
        /\ \A k \in DOMAIN s : s[k] = t[f[k]]
        /\ \A k, m \in DOMAIN s : k < m => f[k] < f[m]

LEMMA MaskLineLeaves ==
  ASSUME NEW S, NEW t \in Seq(S)
  PROVE  /\ MaskLine(t) \in Seq(S) /\ LeftOf(MaskLine(t), t)
         /\ \A k \in DOMAIN MaskLine(t) : \E i \in DOMAIN t : MaskLine(t)[k] = t[i] /\ ~InMatch(t, i)
<1> DEFINE keep   == {i \in DOMAIN t : ~InMatch(t, i)}
           nth(k) == CHOOSE i \in keep : Cardinality({j \in keep : j <= i}) = k
           n      == Cardinality(keep)
           kept   == [k \in 1..n |-> t[nth(k)]]
<1>1. Len(t) \in Nat /\ DOMAIN t = 1..Len(t) /\ keep \in SUBSET (1..Len(t))
  OBVIOUS
<1>2. n \in Nat
  BY <1>1, RankTyped
<1>3. \A k \in 1..n : nth(k) \in keep /\ Rank(keep, nth(k)) = k
  <2> SUFFICES ASSUME NEW k \in 1..n PROVE nth(k) \in keep /\ Rank(keep, nth(k)) = k
    OBVIOUS
  <2>1. \E i \in keep : Rank(keep, i) = k
    BY <1>1, RankReached
  <2>2. QED
    BY <2>1 DEF Rank
<1>4. MaskLine(t) = kept
  BY DEF MaskLine, AtPlaces
<1> HIDE DEF n, nth, keep
<1>5. kept \in Seq(S) /\ DOMAIN kept = 1..n
  <2>1. \A k \in 1..n : nth(k) \in 1..Len(t)
    BY <1>1, <1>3
  <2>2. \A k \in 1..n : t[nth(k)] \in S
    BY <1>1, <2>1
  <2>3. QED
    BY <1>2, <2>2
<1>6. LeftOf(kept, t)
  <2> DEFINE f == [k \in 1..n |-> nth(k)]
  <2>1. f \in [DOMAIN kept -> DOMAIN t]
    BY <1>3, <1>5 DEF keep
  <2>2. ASSUME NEW k \in 1..n, NEW m \in 1..n, k < m PROVE nth(k) < nth(m)
    <3>1. Rank(keep, nth(k)) < Rank(keep, nth(m))
      BY <1>2, <1>3, <2>2
    <3>2. QED
      BY <1>1, <1>3, <3>1, RankIncreases
  <2>3. QED
    BY <1>5, <2>1, <2>2 DEF LeftOf
<1>7. \A k \in 1..n : kept[k] = t[nth(k)] /\ nth(k) \in DOMAIN t /\ ~InMatch(t, nth(k))
  BY <1>3 DEF keep
<1>8. QED
  BY <1>4, <1>5, <1>6, <1>7

\* The first newline of the buffer.
FirstEnd == CHOOSE i \in LineEnd : \A j \in LineEnd : i <= j

LEMMA FirstEndIsFirst ==
  ASSUME NEW S, buf \in Seq(S), LineEnd # {}
  PROVE  FirstEnd \in LineEnd /\ FirstEnd \in 1..Len(buf) /\ \A j \in LineEnd : FirstEnd <= j
<1>1. LineEnd \in SUBSET Nat /\ LineEnd \subseteq 1..Len(buf)
  BY DEF LineEnd
<1>2. \E i \in LineEnd : \A j \in LineEnd : i <= j
  BY <1>1, LeastNumber
<1>3. QED
  BY <1>1, <1>2 DEF FirstEnd

-----------------------------------------------------------------------------
(* The type invariant.                                                     *)

Typed ==
    /\ mode \in {"mask", "drop"}
    /\ active \subseteq App
    /\ app \in [App -> {"start", "waiting", "open", "done", "failed"}]
    /\ \A a \in App : a \notin active => app[a] = "done"
    /\ line \in [App -> Nat]
    /\ \A a \in App : line[a] \in 1..(Len(Script[a]) + 1)
    /\ sent \in [App -> Nat]
    /\ \A a \in App : line[a] \in Lines(a) => sent[a] < Size(a, line[a])
    /\ \A a \in App : line[a] \notin Lines(a) => sent[a] = 0
    /\ sidecar \in {"start", "waiting", "scan", "ending", "succeeded", "failed"}
    /\ sidecar # "scan" => buf = <<>>
    /\ pipe \in Seq(Cell) /\ Len(pipe) <= PipeCap
    /\ buf \in Seq(Cell) /\ Len(buf) <= MaxLine
    /\ out \in Seq(Printed)
    /\ crashes \in 0..MaxCrash
    /\ ends \in 0..MaxEnd

LEMMA TypedInit == Init => Typed
<1> SUFFICES ASSUME Init PROVE Typed
  OBVIOUS
<1>1. \A a \in App : 1 \in 1..(Len(Script[a]) + 1) /\ \A l \in Lines(a) : 0 < Size(a, l)
  BY ScriptTyped
<1>2. <<>> \in Seq(Cell) /\ <<>> \in Seq(Printed) /\ Len(<<>>) = 0
  OBVIOUS
<1>3. QED
  BY <1>1, <1>2, SizeAssumption DEF Init, Typed

\* What is in the FIFO, is read or printed, is a cell.
LEMMA WrittenTyped ==
  ASSUME Typed, NEW t \in Seq(Cell)
  PROVE  Written(t) \in Printed
<1>1. MaskLine(t) \in Seq(Cell)
  BY MaskLineLeaves
<1>2. <<>> \in Seq(Cell)
  OBVIOUS
<1>3. QED
  BY <1>1, <1>2 DEF Written, Printed

LEMMA NextLineTyped ==
  ASSUME Typed, NEW a \in App, line[a] \in Lines(a), NextLine(a)
  PROVE  /\ line' \in [App -> Nat] /\ \A b \in App : line'[b] \in 1..(Len(Script[b]) + 1)
         /\ sent' \in [App -> Nat]
         /\ \A b \in App : line'[b] \in Lines(b) => sent'[b] < Size(b, line'[b])
         /\ \A b \in App : line'[b] \notin Lines(b) => sent'[b] = 0
<1>1. \A b \in App : /\ Len(Script[b]) \in Nat /\ Lines(b) = 1..Len(Script[b])
                     /\ \A l \in Lines(b) : Size(b, l) \in Nat /\ 0 < Size(b, l)
  BY ScriptTyped
<1>2. line' = [line EXCEPT ![a] = line[a] + 1] /\ sent' = [sent EXCEPT ![a] = 0]
  BY DEF NextLine
<1>3. line[a] \in Nat /\ line[a] + 1 \in 1..(Len(Script[a]) + 1)
  BY <1>1 DEF Typed
<1>4. line' \in [App -> Nat] /\ line'[a] = line[a] + 1 /\ \A b \in App : b # a => line'[b] = line[b]
  BY <1>2, <1>3 DEF Typed
<1>5. sent' \in [App -> Nat] /\ sent'[a] = 0 /\ \A b \in App : b # a => sent'[b] = sent[b]
  BY <1>2 DEF Typed
<1>6. QED
  BY <1>1, <1>3, <1>4, <1>5 DEF Typed

\* What a write appends to the FIFO.
Left(a)  == Size(a, line[a]) - sent[a]
Count(a) == IF Left(a) < PipeBuf THEN Left(a) ELSE PipeBuf
Chunk(a) == [i \in 1..Count(a) |-> <<a, line[a], sent[a] + i>>]

LEMMA ChunkTyped ==
  ASSUME Typed, NEW a \in active, line[a] \in Lines(a)
  PROVE  /\ Left(a) \in Nat /\ 1 <= Left(a) /\ sent[a] + Left(a) = Size(a, line[a])
         /\ Count(a) \in Nat /\ 1 <= Count(a) /\ Count(a) <= Left(a)
         /\ Chunk(a) \in Seq(Cell) /\ Len(Chunk(a)) = Count(a) /\ DOMAIN Chunk(a) = 1..Count(a)
<1>1. a \in App /\ line[a] \in Nat /\ sent[a] \in Nat /\ sent[a] < Size(a, line[a])
  BY DEF Typed
<1>2. Size(a, line[a]) \in Nat /\ 1 <= Size(a, line[a])
  BY <1>1, ScriptTyped
<1>3. Left(a) \in Nat /\ 1 <= Left(a) /\ sent[a] + Left(a) = Size(a, line[a])
  BY <1>1, <1>2 DEF Left
<1>4. Count(a) \in Nat /\ 1 <= Count(a) /\ Count(a) <= Left(a)
  BY <1>3, SizeAssumption DEF Count
<1>5. \A i \in 1..Count(a) : <<a, line[a], sent[a] + i>> \in Cell
  BY <1>1, <1>2, <1>3, <1>4 DEF Cell
<1>6. QED
  BY <1>3, <1>4, <1>5 DEF Chunk

LEMMA ConfigKeepsCells == ASSUME UNCHANGED config PROVE Cell' = Cell /\ Printed' = Printed
  BY DEF config, Cell, Printed, Lines, Size

\* The FIFO after a process let go of it.
LEMMA PipeLeft ==
  ASSUME Typed, pipe' \in {<<>>, pipe} PROVE pipe' \in Seq(Cell) /\ Len(pipe') <= PipeCap
<1>1. PipeCap \in Nat /\ <<>> \in Seq(Cell) /\ Len(<<>>) = 0
  BY SizeAssumption
<1>2. CASE pipe' = <<>>
  BY <1>1, <1>2
<1>3. CASE pipe' = pipe
  BY <1>3 DEF Typed
<1>4. QED
  BY <1>2, <1>3

\* What the end of a container changes.
LEMMA EndIs ==
  ASSUME NEW a \in App, End(a)
  PROVE  /\ app[a] = "open" /\ UNCHANGED <<mode, policy, active, sidecar, buf, out, crashes>>
         /\ UNCHANGED <<line, sent>> \/ (sent[a] > 0 /\ NextLine(a))
         /\ pipe' = IF Writers = {a} /\ ~HasReader THEN <<>> ELSE pipe
         /\ \E s \in {"start", "done", "failed"} : app' = [app EXCEPT ![a] = s]
         /\ ends' = ends \/ (ends < MaxEnd /\ ends' = ends + 1)
  BY DEF End, config

LEMMA AppStepTyped ==
  ASSUME Typed, NEW a \in App, AppStep(a) \/ End(a)
  PROVE  Typed'
<1>1. UNCHANGED config /\ Cell' = Cell /\ Printed' = Printed
  BY ConfigKeepsCells DEF AppStep, OpenWrite, Write, BrokenPipe, End
<1>2. CASE OpenWrite(a)
  BY <1>1, <1>2 DEF OpenWrite, Typed, config
<1>3. CASE Write(a)
  <2>1. a \in active /\ line[a] \in Lines(a)
    BY <1>3 DEF Write, Typed
  <2>2. pipe' = pipe \o Chunk(a) /\ Len(pipe) + Count(a) <= PipeCap
    BY <1>3 DEF Write, Chunk, Count, Left
  <2>3. pipe' \in Seq(Cell) /\ Len(pipe') <= PipeCap
    <3>1. Chunk(a) \in Seq(Cell) /\ Len(Chunk(a)) = Count(a) /\ pipe \in Seq(Cell)
      BY <2>1, ChunkTyped DEF Typed
    <3>2. pipe \o Chunk(a) \in Seq(Cell) /\ Len(pipe \o Chunk(a)) = Len(pipe) + Count(a)
      BY <3>1, ConcatProperties
    <3>3. QED
      BY <2>2, <3>2
  <2>4. /\ line' \in [App -> Nat] /\ \A b \in App : line'[b] \in 1..(Len(Script[b]) + 1)
        /\ sent' \in [App -> Nat]
        /\ \A b \in App : line'[b] \in Lines(b) => sent'[b] < Size(b, line'[b])
        /\ \A b \in App : line'[b] \notin Lines(b) => sent'[b] = 0
    <3>1. CASE Count(a) = Left(a)
      <4>1. NextLine(a)
        BY <1>3, <3>1 DEF Write, Count, Left
      <4>2. QED
        BY <2>1, <4>1, NextLineTyped
    <3>2. CASE Count(a) # Left(a)
      <4>1. line' = line /\ sent' = [sent EXCEPT ![a] = sent[a] + Count(a)]
        BY <1>3, <3>2 DEF Write, Count, Left
      <4>2. sent[a] + Count(a) \in Nat /\ sent[a] + Count(a) < Size(a, line[a])
        <5>1. /\ Left(a) \in Nat /\ sent[a] + Left(a) = Size(a, line[a])
              /\ Count(a) \in Nat /\ Count(a) <= Left(a) /\ sent[a] \in Nat
          BY <2>1, ChunkTyped DEF Typed
        <5>2. QED
          BY <3>2, <5>1
      <4>3. /\ sent' \in [App -> Nat] /\ sent'[a] = sent[a] + Count(a)
            /\ \A b \in App : b # a => sent'[b] = sent[b]
        <5> DEFINE x == sent[a] + Count(a)
        <5>1. x \in Nat /\ sent' = [sent EXCEPT ![a] = x] /\ sent \in [App -> Nat]
          BY <4>1, <4>2 DEF Typed
        <5> HIDE DEF x
        <5>2. sent' \in [App -> Nat] /\ sent'[a] = x /\ \A b \in App : b # a => sent'[b] = sent[b]
          BY <5>1
        <5>3. QED
          BY <5>2 DEF x
      <4>4. /\ \A b \in App : line'[b] \in Lines(b) => sent'[b] < Size(b, line'[b])
            /\ \A b \in App : line'[b] \notin Lines(b) => sent'[b] = 0
        BY <2>1, <4>1, <4>2, <4>3 DEF Typed
      <4>5. QED
        BY <4>1, <4>3, <4>4 DEF Typed
    <3>3. QED
      BY <3>1, <3>2
  <2>5. QED
    BY <1>1, <1>3, <2>3, <2>4 DEF Write, Typed, config
<1>4. CASE BrokenPipe(a)
  <2>1. a \in active /\ line[a] \in Lines(a) /\ NextLine(a)
    BY <1>4 DEF BrokenPipe, Typed
  <2>2. pipe' \in Seq(Cell) /\ Len(pipe') <= PipeCap
    BY <1>4, PipeLeft DEF BrokenPipe
  <2>3. /\ line' \in [App -> Nat] /\ \A b \in App : line'[b] \in 1..(Len(Script[b]) + 1)
        /\ sent' \in [App -> Nat]
        /\ \A b \in App : line'[b] \in Lines(b) => sent'[b] < Size(b, line'[b])
        /\ \A b \in App : line'[b] \notin Lines(b) => sent'[b] = 0
    BY <2>1, NextLineTyped
  <2>4. QED
    BY <1>1, <1>4, <2>1, <2>2, <2>3 DEF BrokenPipe, Typed, config
<1>5. CASE End(a)
  <2>1. a \in active /\ config' = config
    BY <1>1, <1>5, EndIs DEF Typed
  <2>2. pipe' \in Seq(Cell) /\ Len(pipe') <= PipeCap
    BY <1>5, EndIs, PipeLeft
  <2>3. /\ line' \in [App -> Nat] /\ \A b \in App : line'[b] \in 1..(Len(Script[b]) + 1)
        /\ sent' \in [App -> Nat]
        /\ \A b \in App : line'[b] \in Lines(b) => sent'[b] < Size(b, line'[b])
        /\ \A b \in App : line'[b] \notin Lines(b) => sent'[b] = 0
    <3>1. CASE UNCHANGED <<line, sent>>
      BY <3>1 DEF Typed
    <3>2. CASE sent[a] > 0 /\ NextLine(a)
      <4>1. line[a] \in Lines(a)
        BY <3>2 DEF Typed
      <4>2. QED
        BY <3>2, <4>1, NextLineTyped
    <3>3. QED
      BY <1>5, <3>1, <3>2, EndIs
  <2>4. ends' \in 0..MaxEnd
    <3>1. ends \in 0..MaxEnd /\ MaxEnd \in Nat
      BY SizeAssumption DEF Typed
    <3>2. QED
      BY <1>5, <3>1, EndIs
  <2>5. app' \in [App -> {"start", "waiting", "open", "done", "failed"}]
        /\ \A b \in App : b \notin active => app'[b] = "done"
    BY <1>5, <2>1, EndIs DEF Typed
  <2>6. UNCHANGED <<mode, policy, active, sidecar, buf, out, crashes>>
    BY <1>5, EndIs
  <2>7. QED
    BY <1>1, <2>1, <2>2, <2>3, <2>4, <2>5, <2>6 DEF Typed
<1>6. QED
  BY <1>2, <1>3, <1>4, <1>5 DEF AppStep

\* What a read moves from the FIFO to the buffer.
Room  == MaxLine - Len(buf)
Taken == IF Len(pipe) < Room THEN Len(pipe) ELSE Room

LEMMA ReadMoves ==
  ASSUME Typed, Read
  PROVE  /\ Taken \in 1..Len(pipe) /\ Taken <= Room
         /\ buf' = buf \o SubSeq(pipe, 1, Taken) /\ pipe' = SubSeq(pipe, Taken + 1, Len(pipe))
         /\ SubSeq(pipe, 1, Taken) \in Seq(Cell) /\ Len(SubSeq(pipe, 1, Taken)) = Taken
         /\ buf' \in Seq(Cell) /\ Len(buf') = Len(buf) + Taken
         /\ pipe' \in Seq(Cell) /\ Len(pipe') = Len(pipe) - Taken
<1>1. Len(pipe) \in Nat /\ Len(buf) \in Nat /\ MaxLine \in Nat
  BY SizeAssumption DEF Typed
<1>2. Len(pipe) >= 1 /\ Len(buf) < MaxLine
  BY <1>1, EmptySeq DEF Read, Typed
<1>3. Taken \in 1..Len(pipe) /\ Taken <= Room
  BY <1>1, <1>2 DEF Taken, Room
<1>4. buf' = buf \o SubSeq(pipe, 1, Taken) /\ pipe' = SubSeq(pipe, Taken + 1, Len(pipe))
  BY DEF Read, Taken, Room
<1>5. SubSeq(pipe, 1, Taken) \in Seq(Cell) /\ Len(SubSeq(pipe, 1, Taken)) = Taken
  BY <1>1, <1>3, SubSeqProperties DEF Typed
<1>6. pipe' \in Seq(Cell) /\ Len(pipe') = Len(pipe) - Taken
  BY <1>1, <1>3, <1>4, SubSeqProperties DEF Typed
<1>7. buf' \in Seq(Cell) /\ Len(buf') = Len(buf) + Taken
  BY <1>4, <1>5, ConcatProperties DEF Typed
<1>8. QED
  BY <1>3, <1>4, <1>5, <1>6, <1>7

\* The token and what is left behind it.
Token == SubSeq(buf, 1, FirstEnd - 1)
Rest  == SubSeq(buf, FirstEnd + 1, Len(buf))

LEMMA TokenTyped ==
  ASSUME Typed, LineEnd # {}
  PROVE  /\ FirstEnd \in LineEnd /\ FirstEnd \in 1..Len(buf)
         /\ \A j \in LineEnd : FirstEnd <= j
         /\ Len(buf) \in Nat /\ DOMAIN buf = 1..Len(buf)
         /\ Token \in Seq(Cell) /\ Len(Token) = FirstEnd - 1
         /\ \A i \in 1..(FirstEnd - 1) : Token[i] = buf[i]
         /\ Rest \in Seq(Cell) /\ Len(Rest) = Len(buf) - FirstEnd
         /\ \A i \in 1..(Len(buf) - FirstEnd) : Rest[i] = buf[FirstEnd + i]
<1>1. FirstEnd \in LineEnd /\ FirstEnd \in 1..Len(buf) /\ \A j \in LineEnd : FirstEnd <= j
  BY FirstEndIsFirst DEF Typed
<1>2. Len(buf) \in Nat /\ DOMAIN buf = 1..Len(buf) /\ buf \in Seq(Cell)
  BY DEF Typed
<1>3. /\ Token \in Seq(Cell) /\ Len(Token) = FirstEnd - 1
      /\ \A i \in 1..(FirstEnd - 1) : Token[i] = buf[i]
  <2>1. \A i \in 1..(FirstEnd - 1) : buf[i] \in Cell
    BY <1>1, <1>2
  <2>2. QED
    BY <1>1, <1>2, <2>1, SubSeqProperties DEF Token
<1>4. /\ Rest \in Seq(Cell) /\ Len(Rest) = Len(buf) - FirstEnd
      /\ \A i \in 1..(Len(buf) - FirstEnd) : Rest[i] = buf[FirstEnd + i]
  <2> DEFINE first == FirstEnd + 1
  <2>1. first \in Int /\ \A i \in first..Len(buf) : buf[i] \in Cell
    BY <1>1, <1>2
  <2>2. /\ SubSeq(buf, first, Len(buf)) \in Seq(Cell)
        /\ Len(SubSeq(buf, first, Len(buf))) = IF first <= Len(buf) THEN Len(buf) - first + 1 ELSE 0
        /\ \A i \in 1..(Len(buf) - first + 1) :
              SubSeq(buf, first, Len(buf))[i] = buf[first + i - 1]
    <3> HIDE DEF first
    <3> QED
      BY <1>2, <2>1, SubSeqProperties
  <2>3. Rest \in Seq(Cell) /\ Len(Rest) = Len(buf) - FirstEnd
    <3>1. first <= Len(buf) => Len(buf) - first + 1 = Len(buf) - FirstEnd
      BY <1>1, <1>2
    <3>2. ~(first <= Len(buf)) => 0 = Len(buf) - FirstEnd
      <4>1. FirstEnd \in Int /\ FirstEnd <= Len(buf) /\ Len(buf) \in Int
        BY <1>1, <1>2
      <4>2. QED
        BY <4>1
    <3>3. Rest = SubSeq(buf, first, Len(buf))
      BY DEF Rest
    <3> HIDE DEF first
    <3>4. QED
      BY <2>2, <3>1, <3>2, <3>3
  <2>4. \A i \in 1..(Len(buf) - FirstEnd) :
           /\ i \in 1..(Len(buf) - first + 1) /\ first + i - 1 = FirstEnd + i
    BY <1>1, <1>2
  <2>5. QED
    BY <2>2, <2>3, <2>4 DEF Rest
<1>5. QED
  BY <1>1, <1>2, <1>3, <1>4

LEMMA EmitLinePrints ==
  ASSUME EmitLine
  PROVE  out' = Append(out, Written(Token)) /\ buf' = Rest
  BY DEF EmitLine, FirstEnd, Token, Rest

LEMMA SidecarStepTyped ==
  ASSUME Typed, SidecarStep \/ Restart \/ Crash
  PROVE  Typed'
<1>1. UNCHANGED config /\ Cell' = Cell /\ Printed' = Printed
  BY ConfigKeepsCells
     DEF SidecarStep, OpenRead, Read, EmitLine, TooLong, EndOfFile, Return, Restart, Crash
<1>2. <<>> \in Seq(Cell) /\ Len(<<>>) = 0 /\ MaxLine \in Nat /\ MaxCrash \in Nat
  BY SizeAssumption
<1>3. CASE OpenRead
  BY <1>1, <1>3 DEF OpenRead, Typed, config
<1>4. CASE Read
  <2>1. buf' \in Seq(Cell) /\ Len(buf') <= MaxLine
    <3>1. /\ buf' \in Seq(Cell) /\ Len(buf') = Len(buf) + Taken
          /\ Taken \in 1..Len(pipe) /\ Taken <= MaxLine - Len(buf)
      BY <1>4, ReadMoves DEF Room
    <3>2. Len(buf) \in Nat /\ Len(pipe) \in Nat
      BY DEF Typed
    <3>3. QED
      BY <1>2, <3>1, <3>2
  <2>2. pipe' \in Seq(Cell) /\ Len(pipe') <= PipeCap
    <3>1. pipe' \in Seq(Cell) /\ Len(pipe') = Len(pipe) - Taken /\ Taken \in 1..Len(pipe)
      BY <1>4, ReadMoves
    <3>2. Len(pipe) \in Nat /\ Len(pipe) <= PipeCap /\ PipeCap \in Nat
      BY SizeAssumption DEF Typed
    <3>3. QED
      BY <3>1, <3>2
  <2>3. QED
    BY <1>1, <1>4, <2>1, <2>2 DEF Read, Typed, config
<1>5. CASE EmitLine
  <2>1. out' = Append(out, Written(Token)) /\ buf' = Rest /\ LineEnd # {}
    BY <1>5, EmitLinePrints DEF EmitLine
  <2>2. out' \in Seq(Printed)
    BY <2>1, TokenTyped, WrittenTyped, AppendProperties DEF Typed
  <2>3. buf' \in Seq(Cell) /\ Len(buf') <= MaxLine
    BY <1>2, <2>1, TokenTyped DEF Typed
  <2>4. QED
    BY <1>1, <1>5, <2>2, <2>3 DEF EmitLine, Typed, config
<1>6. CASE TooLong
  <2>1. pipe' \in Seq(Cell) /\ Len(pipe') <= PipeCap
    BY <1>6, PipeLeft DEF TooLong, Exit
  <2>2. QED
    BY <1>1, <1>2, <1>6, <2>1 DEF TooLong, Exit, Typed, config
<1>7. CASE EndOfFile
  <2>1. out' \in Seq(Printed)
    <3>1. Written(buf) \in Printed /\ out \in Seq(Printed)
      BY WrittenTyped DEF Typed
    <3>2. QED
      BY <1>7, <3>1, AppendProperties DEF EndOfFile
  <2>2. QED
    BY <1>1, <1>2, <1>7, <2>1 DEF EndOfFile, Typed, config
<1>8. CASE Return
  <2>1. pipe' \in Seq(Cell) /\ Len(pipe') <= PipeCap
    BY <1>8, PipeLeft DEF Return, Exit
  <2>2. QED
    BY <1>1, <1>2, <1>8, <2>1 DEF Return, Exit, Typed, config
<1>9. CASE Restart
  BY <1>1, <1>9 DEF Restart, Typed, config
<1>10. CASE Crash
  <2>1. pipe' \in Seq(Cell) /\ Len(pipe') <= PipeCap
    BY <1>10, PipeLeft DEF Crash, Exit
  <2>2. crashes' \in 0..MaxCrash
    BY <1>2, <1>10 DEF Crash, Typed
  <2>3. QED
    BY <1>1, <1>2, <1>10, <2>1, <2>2 DEF Crash, Exit, Typed, config
<1>11. QED
  BY <1>3, <1>4, <1>5, <1>6, <1>7, <1>8, <1>9, <1>10 DEF SidecarStep

LEMMA TypedStep == Typed /\ [Next]_vars => Typed'
<1> SUFFICES ASSUME Typed, [Next]_vars PROVE Typed'
  OBVIOUS
<1>1. CASE \E a \in App : AppStep(a) \/ End(a)
  BY <1>1, AppStepTyped
<1>2. CASE SidecarStep \/ Restart \/ Crash
  BY <1>2, SidecarStepTyped
<1>3. CASE UNCHANGED vars
  <2>1. Cell' = Cell /\ Printed' = Printed
    BY <1>3, ConfigKeepsCells DEF vars, config
  <2>2. QED
    BY <1>3, <2>1 DEF vars, Typed
<1>4. QED
  BY <1>1, <1>2, <1>3 DEF Next

(* Every variable of the log path keeps its type, however the containers,   *)
(* the sidecar and its crashes interleave (main.go, inject.go).             *)
THEOREM TypeCorrect == Spec => []TypeOK
<1>1. Typed => TypeOK
  <2> SUFFICES ASSUME Typed PROVE TypeOK
    OBVIOUS
  <2>1. \A c \in ToSet(pipe) \cup ToSet(buf) : c \in Cell
    BY DEF Typed, ToSet
  <2>2. \A i \in DOMAIN out : \A c \in ToSet(out[i].cells) : c \in Cell
    <3> SUFFICES ASSUME NEW i \in DOMAIN out PROVE \A c \in ToSet(out[i].cells) : c \in Cell
      OBVIOUS
    <3>1. out[i] \in Printed
      BY DEF Typed
    <3>2. out[i].cells \in Seq(Cell)
      BY <3>1 DEF Printed
    <3>3. QED
      BY <3>2 DEF ToSet
  <2>3. \A c \in Cell : c[1] \in active /\ c[2] \in Lines(c[1]) /\ c[3] \in 1..Size(c[1], c[2])
    BY DEF Cell
  <2>4. QED
    BY <2>1, <2>2, <2>3 DEF Typed, TypeOK
<1>2. QED
  BY TypedInit, TypedStep, <1>1, PTL DEF Spec

-----------------------------------------------------------------------------
(* The order of cells.                                                     *)

Sorted(s)      == \A i, j \in DOMAIN s : i < j => Before(s[i], s[j])
Precedes(s, t) == \A i \in DOMAIN s, j \in DOMAIN t : Before(s[i], t[j])

\* Containers that are at these places of their logs have written the cells of s.
Logged(s, at, to) ==
    \A i \in DOMAIN s : \/ s[i][2] < at[s[i][1]]
                        \/ s[i][2] = at[s[i][1]] /\ s[i][3] <= to[s[i][1]]

LEMMA EmptyOrdered ==
  /\ Sorted(<<>>) /\ \A at, to : Logged(<<>>, at, to)
  /\ \A t : Precedes(<<>>, t) /\ Precedes(t, <<>>)
  BY DEF Sorted, Precedes, Logged

LEMMA JoinedOrdered ==
  ASSUME NEW S, NEW s \in Seq(S), NEW t \in Seq(S)
  PROVE  /\ Sorted(s) /\ Sorted(t) /\ Precedes(s, t) => Sorted(s \o t)
         /\ \A u : Precedes(s, u) /\ Precedes(t, u) => Precedes(s \o t, u)
         /\ \A u : Precedes(u, s) /\ Precedes(u, t) => Precedes(u, s \o t)
         /\ \A at, to : Logged(s, at, to) /\ Logged(t, at, to) => Logged(s \o t, at, to)
<1>1. /\ Len(s) \in Nat /\ Len(t) \in Nat /\ DOMAIN s = 1..Len(s) /\ DOMAIN t = 1..Len(t)
      /\ DOMAIN (s \o t) = 1..(Len(s) + Len(t))
      /\ \A i \in 1..(Len(s) + Len(t)) : (s \o t)[i] = IF i <= Len(s) THEN s[i] ELSE t[i - Len(s)]
  BY ConcatProperties
<1>2. \A i \in DOMAIN (s \o t) :
         \/ i \in DOMAIN s /\ (s \o t)[i] = s[i]
         \/ i > Len(s) /\ i - Len(s) \in DOMAIN t /\ (s \o t)[i] = t[i - Len(s)]
  BY <1>1
<1>3. Sorted(s) /\ Sorted(t) /\ Precedes(s, t) => Sorted(s \o t)
  <2> SUFFICES ASSUME Sorted(s), Sorted(t), Precedes(s, t),
                      NEW i \in DOMAIN (s \o t), NEW j \in DOMAIN (s \o t), i < j
               PROVE  Before((s \o t)[i], (s \o t)[j])
    BY DEF Sorted
  <2>1. i \in Int /\ j \in Int
    BY <1>1
  <2>2. CASE i \in DOMAIN s /\ (s \o t)[i] = s[i] /\ j \in DOMAIN s /\ (s \o t)[j] = s[j]
    BY <2>2 DEF Sorted
  <2>3. CASE /\ i \in DOMAIN s /\ (s \o t)[i] = s[i]
             /\ j - Len(s) \in DOMAIN t /\ (s \o t)[j] = t[j - Len(s)]
    BY <2>3 DEF Precedes
  <2>4. CASE /\ i - Len(s) \in DOMAIN t /\ (s \o t)[i] = t[i - Len(s)]
             /\ j - Len(s) \in DOMAIN t /\ (s \o t)[j] = t[j - Len(s)]
    <3>1. i - Len(s) < j - Len(s)
      BY <1>1, <2>1
    <3>2. QED
      BY <2>4, <3>1 DEF Sorted
  <2>5. CASE i > Len(s) /\ j \in DOMAIN s
    BY <1>1, <2>1, <2>5
  <2>6. QED
    BY <1>2, <2>2, <2>3, <2>4, <2>5
<1>4. \A u : Precedes(s, u) /\ Precedes(t, u) => Precedes(s \o t, u)
  BY <1>2 DEF Precedes
<1>5. \A u : Precedes(u, s) /\ Precedes(u, t) => Precedes(u, s \o t)
  BY <1>2 DEF Precedes
<1>6. ASSUME NEW at, NEW to, Logged(s, at, to), Logged(t, at, to) PROVE Logged(s \o t, at, to)
  <2> DEFINE u == s \o t
  <2> SUFFICES ASSUME NEW i \in DOMAIN u
               PROVE  u[i][2] < at[u[i][1]] \/ (u[i][2] = at[u[i][1]] /\ u[i][3] <= to[u[i][1]])
    BY DEF Logged
  <2>1. (\E k \in DOMAIN s : u[i] = s[k]) \/ (\E k \in DOMAIN t : u[i] = t[k])
    BY <1>2
  <2> HIDE DEF u
  <2>2. QED
    BY <1>6, <2>1 DEF Logged
<1>7. QED
  BY <1>3, <1>4, <1>5, <1>6

LEMMA LeftOrdered ==
  ASSUME NEW s, NEW t, LeftOf(s, t)
  PROVE  /\ Sorted(t) => Sorted(s)
         /\ \A u : Precedes(t, u) => Precedes(s, u)
         /\ \A u : Precedes(u, t) => Precedes(u, s)
         /\ \A at, to : Logged(t, at, to) => Logged(s, at, to)
<1>1. PICK f \in [DOMAIN s -> DOMAIN t] :
          /\ \A k \in DOMAIN s : s[k] = t[f[k]]
          /\ \A k, m \in DOMAIN s : k < m => f[k] < f[m]
  BY DEF LeftOf
<1>2. \A k \in DOMAIN s : f[k] \in DOMAIN t
  BY <1>1
<1>3. Sorted(t) => Sorted(s)
  BY <1>1, <1>2 DEF Sorted
<1>4. \A u : Precedes(t, u) => Precedes(s, u)
  BY <1>1, <1>2 DEF Precedes
<1>5. \A u : Precedes(u, t) => Precedes(u, s)
  BY <1>1, <1>2 DEF Precedes
<1>6. \A at, to : Logged(t, at, to) => Logged(s, at, to)
  BY <1>1, <1>2 DEF Logged
<1>7. QED
  BY <1>3, <1>4, <1>5, <1>6

LEMMA LeftOfLeft ==
  ASSUME NEW r, NEW s, NEW t, LeftOf(r, s), LeftOf(s, t)
  PROVE  LeftOf(r, t)
<1>1. PICK f \in [DOMAIN r -> DOMAIN s] :
          /\ \A k \in DOMAIN r : r[k] = s[f[k]]
          /\ \A k, m \in DOMAIN r : k < m => f[k] < f[m]
  BY DEF LeftOf
<1>2. PICK g \in [DOMAIN s -> DOMAIN t] :
          /\ \A k \in DOMAIN s : s[k] = t[g[k]]
          /\ \A k, m \in DOMAIN s : k < m => g[k] < g[m]
  BY DEF LeftOf
<1> DEFINE h == [k \in DOMAIN r |-> g[f[k]]]
<1>3. h \in [DOMAIN r -> DOMAIN t]
  BY <1>1, <1>2
<1>4. \A k \in DOMAIN r : r[k] = t[h[k]]
  BY <1>1, <1>2
<1>5. \A k, m \in DOMAIN r : k < m => h[k] < h[m]
  BY <1>1, <1>2
<1>6. QED
  BY <1>3, <1>4, <1>5 DEF LeftOf

\* A sequence that is cut in two.
LEMMA CutOrdered ==
  ASSUME NEW S, NEW t \in Seq(S), NEW s \in Seq(S), NEW r \in Seq(S), NEW d \in Nat,
         Len(s) + d <= Len(t), \A i \in 1..Len(s) : s[i] = t[i],
         Len(r) + Len(s) + d = Len(t), \A i \in 1..Len(r) : r[i] = t[Len(s) + d + i]
  PROVE  /\ LeftOf(s, t) /\ LeftOf(r, t)
         /\ Sorted(t) => Precedes(s, r)
<1>1. /\ Len(s) \in Nat /\ Len(r) \in Nat /\ Len(t) \in Nat
      /\ DOMAIN s = 1..Len(s) /\ DOMAIN r = 1..Len(r) /\ DOMAIN t = 1..Len(t)
  OBVIOUS
<1>2. LeftOf(s, t)
  <2> DEFINE f == [i \in 1..Len(s) |-> i]
  <2>1. f \in [DOMAIN s -> DOMAIN t]
    BY <1>1
  <2>2. /\ \A k \in DOMAIN s : s[k] = t[f[k]]
        /\ \A k, m \in DOMAIN s : k < m => f[k] < f[m]
    BY <1>1
  <2>3. QED
    BY <2>1, <2>2 DEF LeftOf
<1>3. LeftOf(r, t)
  <2> DEFINE f == [i \in 1..Len(r) |-> Len(s) + d + i]
  <2>1. f \in [DOMAIN r -> DOMAIN t]
    BY <1>1
  <2>2. /\ \A k \in DOMAIN r : r[k] = t[f[k]]
        /\ \A k, m \in DOMAIN r : k < m => f[k] < f[m]
    BY <1>1
  <2>3. QED
    BY <2>1, <2>2 DEF LeftOf
<1>4. ASSUME Sorted(t), NEW i \in DOMAIN s, NEW j \in DOMAIN r PROVE Before(s[i], r[j])
  <2>1. i \in DOMAIN t /\ Len(s) + d + j \in DOMAIN t /\ i < Len(s) + d + j
    BY <1>1
  <2>2. Before(t[i], t[Len(s) + d + j])
    BY <1>4, <2>1 DEF Sorted
  <2>3. QED
    BY <1>1, <2>2
<1>5. QED
  BY <1>2, <1>3, <1>4 DEF Precedes

\* The prints in order, and behind them what is read and what is in the FIFO.
Ordered(prints, b, p) ==
    /\ Sorted(b) /\ Sorted(p) /\ Precedes(b, p)
    /\ \A n \in DOMAIN prints : /\ Sorted(prints[n].cells)
                                /\ Precedes(prints[n].cells, b) /\ Precedes(prints[n].cells, p)
    /\ \A m, n \in DOMAIN prints : m < n => Precedes(prints[m].cells, prints[n].cells)

AllLogged(prints, b, p, at, to) ==
    /\ Logged(b, at, to) /\ Logged(p, at, to)
    /\ \A n \in DOMAIN prints : Logged(prints[n].cells, at, to)

OrderInv == Ordered(out, buf, pipe) /\ AllLogged(out, buf, pipe, line, sent)

\* Whatever is lost, the rest stays in order.
LEMMA LossOrdered ==
  ASSUME NEW prints, NEW b, NEW p, NEW c \in {b, <<>>}, NEW q \in {p, <<>>}, NEW at, NEW to
  PROVE  /\ Ordered(prints, b, p) => Ordered(prints, c, q)
         /\ AllLogged(prints, b, p, at, to) => AllLogged(prints, c, q, at, to)
  BY EmptyOrdered DEF Ordered, AllLogged

\* One more print, of cells that are behind the others and before the rest.
LEMMA PrintOrdered ==
  ASSUME NEW S, NEW prints \in Seq(S), NEW w \in S, NEW b, NEW p, NEW c, NEW at, NEW to,
         Ordered(prints, b, p), AllLogged(prints, b, p, at, to),
         LeftOf(w.cells, b), LeftOf(c, b), Precedes(w.cells, c)
  PROVE  /\ Ordered(Append(prints, w), c, p)
         /\ AllLogged(Append(prints, w), c, p, at, to)
<1> DEFINE more == Append(prints, w)
<1>1. \A n \in DOMAIN more : \/ n \in DOMAIN prints /\ more[n] = prints[n]
                             \/ n = Len(prints) + 1 /\ more[n] = w
  BY AppendProperties
<1>2. \A n \in DOMAIN prints : n \in Int /\ n <= Len(prints)
  OBVIOUS
<1>3. Len(prints) \in Nat /\ \A n \in DOMAIN more : n \in Int
  BY AppendProperties
<1>4. Sorted(c) /\ Sorted(w.cells) /\ Precedes(c, p) /\ Precedes(w.cells, p)
  BY LeftOrdered DEF Ordered
<1>5. \A n \in DOMAIN prints : /\ Sorted(prints[n].cells) /\ Precedes(prints[n].cells, p)
                               /\ Precedes(prints[n].cells, c)
                               /\ Precedes(prints[n].cells, w.cells)
  BY LeftOrdered DEF Ordered
<1>6. ASSUME NEW m \in DOMAIN more, NEW n \in DOMAIN more, m < n
      PROVE  Precedes(more[m].cells, more[n].cells)
  <2>1. m \in DOMAIN prints /\ more[m] = prints[m]
    BY <1>1, <1>2, <1>3, <1>6
  <2>2. CASE n \in DOMAIN prints /\ more[n] = prints[n]
    BY <1>6, <2>1, <2>2 DEF Ordered
  <2>3. CASE more[n] = w
    BY <1>5, <2>1, <2>3
  <2>4. QED
    BY <1>1, <2>2, <2>3
<1>7. Ordered(more, c, p)
  <2>1. \A n \in DOMAIN more : /\ Sorted(more[n].cells)
                               /\ Precedes(more[n].cells, c) /\ Precedes(more[n].cells, p)
    BY <1>1, <1>4, <1>5
  <2>2. Sorted(p)
    BY DEF Ordered
  <2> HIDE DEF more
  <2>3. QED
    BY <1>4, <1>6, <2>1, <2>2 DEF Ordered
<1>8. AllLogged(more, c, p, at, to)
  <2>1. Logged(w.cells, at, to) /\ Logged(c, at, to)
    BY LeftOrdered DEF AllLogged
  <2>2. \A n \in DOMAIN more : Logged(more[n].cells, at, to)
    BY <1>1, <2>1 DEF AllLogged
  <2> HIDE DEF more
  <2>3. QED
    BY <2>1, <2>2 DEF AllLogged
<1>9. QED
  BY <1>7, <1>8

\* What a container has written it has written.
Onward(at, to, at2, to2) ==
    \A a \in App : at[a] < at2[a] \/ (at[a] = at2[a] /\ to[a] <= to2[a])

\* Place p of line l is logged at place y of line x, and so it is further on.
Further(l, p, x, y, x2, y2) ==
    (l < x \/ (l = x /\ p <= y)) /\ (x < x2 \/ (x = x2 /\ y <= y2))
       => l < x2 \/ (l = x2 /\ p <= y2)

LEMMA Lexicographic == \A l, p, x, y, x2, y2 \in Nat : Further(l, p, x, y, x2, y2)
  BY DEF Further

LEMMA LoggedOnward ==
  ASSUME NEW at \in [App -> Nat], NEW to \in [App -> Nat],
         NEW at2 \in [App -> Nat], NEW to2 \in [App -> Nat], Onward(at, to, at2, to2)
  PROVE  /\ \A s \in Seq(App \X Nat \X Nat) : Logged(s, at, to) => Logged(s, at2, to2)
<1> SUFFICES ASSUME NEW s \in Seq(App \X Nat \X Nat), Logged(s, at, to), NEW i \in DOMAIN s
             PROVE  \/ s[i][2] < at2[s[i][1]]
                    \/ s[i][2] = at2[s[i][1]] /\ s[i][3] <= to2[s[i][1]]
  BY DEF Logged
<1>1. s[i] \in App \X Nat \X Nat
  BY ElementOfSeq
<1>2. PICK a \in App : a = s[i][1]
  BY <1>1
<1>3. at[a] \in Nat /\ to[a] \in Nat /\ at2[a] \in Nat /\ to2[a] \in Nat
  OBVIOUS
<1>4. s[i][2] < at[a] \/ (s[i][2] = at[a] /\ s[i][3] <= to[a])
  BY <1>2 DEF Logged
<1>5. at[a] < at2[a] \/ (at[a] = at2[a] /\ to[a] <= to2[a])
  BY DEF Onward
<1>6. s[i][2] \in Nat /\ s[i][3] \in Nat
  BY <1>1
<1>7. s[i][2] < at2[a] \/ (s[i][2] = at2[a] /\ s[i][3] <= to2[a])
  <2>1. Further(s[i][2], s[i][3], at[a], to[a], at2[a], to2[a])
    BY <1>3, <1>6, Lexicographic
  <2>2. QED
    BY <1>4, <1>5, <2>1 DEF Further
<1>8. QED
  BY <1>2, <1>7

LEMMA CellsAreTriples ==
  /\ \A s \in Seq(Cell) : s \in Seq(App \X Nat \X Nat)
  /\ \A w \in Printed : w.cells \in Seq(Cell)
<1>1. Cell \subseteq App \X Nat \X Nat
  BY DEF Cell
<1>2. QED
  BY <1>1 DEF Printed

LEMMA AllLoggedOnward ==
  ASSUME Typed, OrderInv, NEW at \in [App -> Nat], NEW to \in [App -> Nat],
         Onward(line, sent, at, to)
  PROVE  AllLogged(out, buf, pipe, at, to)
<1>1. line \in [App -> Nat] /\ sent \in [App -> Nat]
  BY DEF Typed
<1>2. \A s \in Seq(App \X Nat \X Nat) : Logged(s, line, sent) => Logged(s, at, to)
  BY <1>1, LoggedOnward
<1>3. buf \in Seq(App \X Nat \X Nat) /\ pipe \in Seq(App \X Nat \X Nat)
  BY CellsAreTriples DEF Typed
<1>4. \A n \in DOMAIN out : out[n].cells \in Seq(App \X Nat \X Nat)
  <2>1. \A n \in DOMAIN out : out[n] \in Printed
    BY DEF Typed
  <2>2. QED
    BY <2>1, CellsAreTriples
<1>5. AllLogged(out, buf, pipe, line, sent)
  BY DEF OrderInv
<1>6. QED
  BY <1>2, <1>3, <1>4, <1>5 DEF AllLogged

\* A step that prints nothing and moves nothing, but may lose something.
LEMMA LossStep ==
  ASSUME Typed, OrderInv, out' = out, buf' \in {buf, <<>>}, pipe' \in {pipe, <<>>},
         line' \in [App -> Nat], sent' \in [App -> Nat], Onward(line, sent, line', sent')
  PROVE  OrderInv'
<1>1. AllLogged(out, buf, pipe, line', sent')
  BY AllLoggedOnward
<1>2. Ordered(out, buf, pipe)
  BY DEF OrderInv
<1>3. Ordered(out, buf', pipe') /\ AllLogged(out, buf', pipe', line', sent')
  BY <1>1, <1>2, LossOrdered
<1>4. QED
  BY <1>3 DEF OrderInv

LEMMA StandingStill ==
  ASSUME Typed, UNCHANGED <<line, sent>>
  PROVE  line' \in [App -> Nat] /\ sent' \in [App -> Nat] /\ Onward(line, sent, line', sent')
<1>1. line \in [App -> Nat] /\ sent \in [App -> Nat]
  BY DEF Typed
<1>2. \A a \in App : sent[a] <= sent[a]
  BY <1>1
<1>3. QED
  BY <1>1, <1>2 DEF Onward

LEMMA NextLineOnward ==
  ASSUME Typed, NEW a \in App, line[a] \in Lines(a), NextLine(a)
  PROVE  line' \in [App -> Nat] /\ sent' \in [App -> Nat] /\ Onward(line, sent, line', sent')
<1>1. line \in [App -> Nat] /\ sent \in [App -> Nat]
  BY DEF Typed
<1>2. line' = [line EXCEPT ![a] = line[a] + 1] /\ sent' = [sent EXCEPT ![a] = 0]
  BY DEF NextLine
<1>3. ASSUME NEW b \in App
      PROVE  line[b] < line'[b] \/ (line[b] = line'[b] /\ sent[b] <= sent'[b])
  <2>1. CASE b = a
    BY <1>1, <1>2, <2>1
  <2>2. CASE b # a
    BY <1>1, <1>2, <2>2
  <2>3. QED
    BY <2>1, <2>2
<1>4. QED
  BY <1>3, NextLineTyped DEF Onward

\* What a container writes is behind all it has written.
LEMMA ChunkOrdered ==
  ASSUME Typed, NEW a \in active, line[a] \in Lines(a)
  PROVE  /\ Sorted(Chunk(a))
         /\ \A s \in Seq(Cell) : Logged(s, line, sent) => Precedes(s, Chunk(a))
<1>1. /\ a \in App /\ line[a] \in Nat /\ sent[a] \in Nat /\ Count(a) \in Nat
      /\ DOMAIN Chunk(a) = 1..Count(a)
  BY ChunkTyped DEF Typed
<1>2. \A i \in 1..Count(a) : Chunk(a)[i] = <<a, line[a], sent[a] + i>>
  BY DEF Chunk
<1>3. Sorted(Chunk(a))
  <2> SUFFICES ASSUME NEW i \in 1..Count(a), NEW j \in 1..Count(a), i < j
               PROVE  Before(Chunk(a)[i], Chunk(a)[j])
    BY <1>1 DEF Sorted
  <2>1. sent[a] + i < sent[a] + j
    BY <1>1
  <2>2. QED
    BY <1>2, <2>1 DEF Before
<1>4. ASSUME NEW s \in Seq(Cell), Logged(s, line, sent), NEW i \in DOMAIN s, NEW j \in 1..Count(a)
      PROVE  Before(s[i], Chunk(a)[j])
  <2>1. s[i] \in App \X Nat \X Nat
    BY CellsAreTriples, ElementOfSeq
  <2>2. s[i][2] < line[s[i][1]] \/ (s[i][2] = line[s[i][1]] /\ s[i][3] <= sent[s[i][1]])
    BY <1>4 DEF Logged
  <2>3. CASE s[i][1] = a
    <3>1. s[i][2] \in Nat /\ s[i][3] \in Nat
      BY <2>1
    <3>2. s[i][3] <= sent[a] => s[i][3] < sent[a] + j
      BY <1>1, <3>1
    <3>3. s[i][2] < line[a] \/ (s[i][2] = line[a] /\ s[i][3] < sent[a] + j)
      BY <2>2, <2>3, <3>2
    <3>4. QED
      BY <1>2, <3>3 DEF Before
  <2>4. CASE s[i][1] # a
    BY <1>2, <2>4 DEF Before
  <2>5. QED
    BY <2>3, <2>4
<1>5. QED
  BY <1>1, <1>3, <1>4 DEF Precedes

LEMMA WriteOrdered ==
  ASSUME Typed, OrderInv, NEW a \in App, Write(a)
  PROVE  OrderInv'
<1>1. a \in active /\ line[a] \in Lines(a) /\ line \in [App -> Nat] /\ sent \in [App -> Nat]
  BY DEF Write, Typed
<1>2. pipe' = pipe \o Chunk(a) /\ buf' = buf /\ out' = out
  BY DEF Write, Chunk, Count, Left
<1>3. /\ Count(a) \in Nat /\ DOMAIN Chunk(a) = 1..Count(a) /\ Chunk(a) \in Seq(Cell)
      /\ \A i \in 1..Count(a) : Chunk(a)[i] = <<a, line[a], sent[a] + i>>
  BY <1>1, ChunkTyped DEF Chunk
<1>4. /\ line' \in [App -> Nat] /\ sent' \in [App -> Nat] /\ Onward(line, sent, line', sent')
      /\ Logged(Chunk(a), line', sent')
  <2>1. CASE Count(a) = Left(a)
    <3>1. NextLine(a)
      BY <2>1 DEF Write, Count, Left
    <3>2. line'[a] = line[a] + 1 /\ line[a] \in Nat
      BY <1>1, <3>1 DEF NextLine
    <3>3. line[a] < line'[a]
      BY <3>2
    <3>4. Logged(Chunk(a), line', sent')
      BY <1>3, <3>3 DEF Logged
    <3>5. QED
      BY <1>1, <3>1, <3>4, NextLineOnward
  <2>2. CASE Count(a) # Left(a)
    <3>1. line' = line /\ sent' = [sent EXCEPT ![a] = sent[a] + Count(a)]
      BY <2>2 DEF Write, Count, Left
    <3>2. \A b \in App : sent[b] <= sent'[b] /\ sent'[b] \in Nat
      BY <1>1, <1>3, <3>1
    <3>3. sent' \in [App -> Nat] /\ Onward(line, sent, line', sent')
      BY <1>1, <3>1, <3>2 DEF Onward
    <3>4. \A i \in 1..Count(a) : sent[a] + i <= sent'[a]
      BY <1>1, <1>3, <3>1
    <3>5. Logged(Chunk(a), line', sent')
      BY <1>3, <3>1, <3>4 DEF Logged
    <3>6. QED
      BY <1>1, <3>1, <3>3, <3>5
  <2>3. QED
    BY <2>1, <2>2
<1>5. AllLogged(out, buf, pipe, line', sent')
  BY <1>4, AllLoggedOnward
<1>6. /\ Ordered(out, buf, pipe) /\ AllLogged(out, buf, pipe, line, sent)
      /\ pipe \in Seq(Cell) /\ buf \in Seq(Cell)
      /\ \A n \in DOMAIN out : out[n].cells \in Seq(Cell)
  <2>1. \A n \in DOMAIN out : out[n] \in Printed
    BY DEF Typed
  <2>2. QED
    BY <2>1, CellsAreTriples DEF OrderInv, Typed
<1>7. /\ Sorted(Chunk(a)) /\ Precedes(pipe, Chunk(a)) /\ Precedes(buf, Chunk(a))
      /\ \A n \in DOMAIN out : Precedes(out[n].cells, Chunk(a))
  BY <1>1, <1>6, ChunkOrdered DEF AllLogged
<1>8. /\ Sorted(pipe \o Chunk(a)) /\ Logged(pipe \o Chunk(a), line', sent')
      /\ \A u : Precedes(u, pipe) /\ Precedes(u, Chunk(a)) => Precedes(u, pipe \o Chunk(a))
  <2>1. Logged(pipe, line', sent') /\ Sorted(pipe)
    BY <1>5, <1>6 DEF AllLogged, Ordered
  <2>2. QED
    BY <1>3, <1>4, <1>6, <1>7, <2>1, JoinedOrdered
<1>9. Ordered(out, buf, pipe') /\ AllLogged(out, buf, pipe', line', sent')
  BY <1>2, <1>5, <1>6, <1>7, <1>8 DEF Ordered, AllLogged
<1>10. QED
  BY <1>2, <1>9 DEF OrderInv

LEMMA ReadOrdered ==
  ASSUME Typed, OrderInv, Read
  PROVE  OrderInv'
<1> DEFINE taken == SubSeq(pipe, 1, Taken)
           left  == SubSeq(pipe, Taken + 1, Len(pipe))
<1>1. buf' = buf \o taken /\ pipe' = left /\ UNCHANGED <<out, line, sent>>
  BY ReadMoves DEF Read
<1>2. /\ Taken \in 1..Len(pipe) /\ Len(pipe) \in Nat /\ pipe \in Seq(Cell) /\ buf \in Seq(Cell)
      /\ taken \in Seq(Cell) /\ Len(taken) = Taken /\ left \in Seq(Cell) /\ Len(left) = Len(pipe) - Taken
  <2>1. /\ Taken \in 1..Len(pipe) /\ taken \in Seq(Cell) /\ Len(taken) = Taken
        /\ pipe' \in Seq(Cell) /\ Len(pipe') = Len(pipe) - Taken
    BY ReadMoves
  <2>2. pipe \in Seq(Cell) /\ buf \in Seq(Cell)
    BY DEF Typed
  <2> HIDE DEF taken, left
  <2>3. Len(pipe) \in Nat
    BY <2>2
  <2>4. QED
    BY <1>1, <2>1, <2>2, <2>3
<1>3. /\ \A i \in 1..Taken : taken[i] = pipe[i]
      /\ \A i \in 1..(Len(pipe) - Taken) : left[i] = pipe[Taken + i]
  <2>1. \A i \in 1..Len(pipe) : pipe[i] \in Cell
    BY <1>2
  <2> DEFINE from == Taken + 1
  <2>2. /\ Taken \in Int /\ Len(pipe) \in Int /\ from \in Int
        /\ \A i \in 1..Taken : pipe[i] \in Cell
        /\ \A i \in from..Len(pipe) : pipe[i] \in Cell
    BY <1>2, <2>1
  <2>3. \A i \in 1..(Len(pipe) - from + 1) : SubSeq(pipe, from, Len(pipe))[i] = pipe[from + i - 1]
    <3> HIDE DEF from
    <3> QED
      BY <1>2, <2>2, SubSeqProperties
  <2>4. \A i \in 1..(Len(pipe) - Taken) : i \in 1..(Len(pipe) - from + 1) /\ from + i - 1 = Taken + i
    BY <1>2
  <2>5. \A i \in 1..Taken : SubSeq(pipe, 1, Taken)[i] = pipe[i]
    BY <1>2, <2>2, SubSeqProperties
  <2>6. QED
    BY <2>3, <2>4, <2>5
<1> HIDE DEF taken, left
<1>4. /\ LeftOf(taken, pipe) /\ LeftOf(left, pipe) /\ (Sorted(pipe) => Precedes(taken, left))
  <2>1. 0 \in Nat /\ Len(taken) + 0 <= Len(pipe) /\ Len(left) + Len(taken) + 0 = Len(pipe)
    BY <1>2
  <2>2. \A i \in 1..Len(left) : left[i] = pipe[Len(taken) + 0 + i]
    BY <1>2, <1>3
  <2>3. QED
    BY <1>2, <1>3, <2>1, <2>2, CutOrdered
<1>5. Ordered(out, buf, pipe) /\ AllLogged(out, buf, pipe, line, sent)
  BY DEF OrderInv
<1>6. /\ Sorted(taken) /\ Sorted(left) /\ Precedes(taken, left)
      /\ Precedes(buf, taken) /\ Precedes(buf, left)
      /\ Logged(taken, line, sent) /\ Logged(left, line, sent)
      /\ \A n \in DOMAIN out : Precedes(out[n].cells, taken) /\ Precedes(out[n].cells, left)
  BY <1>4, <1>5, LeftOrdered DEF Ordered, AllLogged
<1>7. /\ Sorted(buf \o taken) /\ Logged(buf \o taken, line, sent) /\ Precedes(buf \o taken, left)
      /\ \A n \in DOMAIN out : Precedes(out[n].cells, buf \o taken)
  BY <1>2, <1>5, <1>6, JoinedOrdered DEF Ordered, AllLogged
<1>8. Ordered(out, buf', pipe') /\ AllLogged(out, buf', pipe', line, sent)
  BY <1>1, <1>5, <1>6, <1>7 DEF Ordered, AllLogged
<1>9. QED
  BY <1>1, <1>8 DEF OrderInv

\* What is printed of a token is some of its cells, in their order.
LEMMA WrittenLeft ==
  ASSUME Typed, NEW t \in Seq(Cell)
  PROVE  Written(t) \in Printed /\ LeftOf(Written(t).cells, t)
<1>1. LeftOf(<<>>, t)
  <2>1. [k \in {} |-> k] \in [DOMAIN <<>> -> DOMAIN t]
    OBVIOUS
  <2>2. QED
    BY <2>1 DEF LeftOf
<1>2. LeftOf(MaskLine(t), t)
  BY MaskLineLeaves
<1>3. Written(t).cells = IF mode = "drop" THEN <<>> ELSE MaskLine(t)
  BY DEF Written
<1>4. QED
  BY <1>1, <1>2, <1>3, WrittenTyped

LEMMA EmitLineOrdered ==
  ASSUME Typed, OrderInv, EmitLine
  PROVE  OrderInv'
<1>1. /\ out' = Append(out, Written(Token)) /\ buf' = Rest /\ LineEnd # {}
      /\ UNCHANGED <<pipe, line, sent>>
  BY EmitLinePrints DEF EmitLine
<1>2. /\ FirstEnd \in 1..Len(buf) /\ Len(buf) \in Nat /\ buf \in Seq(Cell)
      /\ Token \in Seq(Cell) /\ Len(Token) = FirstEnd - 1
      /\ \A i \in 1..(FirstEnd - 1) : Token[i] = buf[i]
      /\ Rest \in Seq(Cell) /\ Len(Rest) = Len(buf) - FirstEnd
      /\ \A i \in 1..(Len(buf) - FirstEnd) : Rest[i] = buf[FirstEnd + i]
  BY <1>1, TokenTyped DEF Typed
<1>3. LeftOf(Token, buf) /\ LeftOf(Rest, buf) /\ (Sorted(buf) => Precedes(Token, Rest))
  <2>1. 1 \in Nat /\ Len(Token) + 1 <= Len(buf) /\ Len(Rest) + Len(Token) + 1 = Len(buf)
    BY <1>2
  <2>2. \A i \in 1..Len(Token) : Token[i] = buf[i]
    BY <1>2
  <2>3. \A i \in 1..Len(Rest) : Rest[i] = buf[Len(Token) + 1 + i]
    BY <1>2
  <2>4. QED
    BY <1>2, <2>1, <2>2, <2>3, CutOrdered
<1>4. Written(Token) \in Printed /\ LeftOf(Written(Token).cells, Token)
  BY <1>2, WrittenLeft
<1>5. Ordered(out, buf, pipe) /\ AllLogged(out, buf, pipe, line, sent) /\ out \in Seq(Printed)
  BY DEF OrderInv, Typed
<1>6. Precedes(Written(Token).cells, Rest)
  BY <1>3, <1>4, <1>5, LeftOrdered DEF Ordered
<1>7. LeftOf(Written(Token).cells, buf)
  BY <1>3, <1>4, LeftOfLeft
<1>8. /\ Ordered(Append(out, Written(Token)), Rest, pipe)
      /\ AllLogged(Append(out, Written(Token)), Rest, pipe, line, sent)
  BY <1>3, <1>4, <1>5, <1>6, <1>7, PrintOrdered
<1>9. QED
  BY <1>1, <1>8 DEF OrderInv

LEMMA EndOfFileOrdered ==
  ASSUME Typed, OrderInv, EndOfFile
  PROVE  OrderInv'
<1>1. CASE buf = <<>>
  <2>1. out' = out /\ buf' \in {buf, <<>>} /\ pipe' \in {pipe, <<>>} /\ UNCHANGED <<line, sent>>
    BY <1>1 DEF EndOfFile
  <2>2. QED
    BY <2>1, StandingStill, LossStep
<1>2. CASE buf # <<>>
  <2>1. out' = Append(out, Written(buf)) /\ buf' = <<>> /\ UNCHANGED <<pipe, line, sent>>
    BY <1>2 DEF EndOfFile
  <2>2. Written(buf) \in Printed /\ LeftOf(Written(buf).cells, buf)
    BY WrittenLeft DEF Typed
  <2>3. LeftOf(<<>>, buf) /\ Precedes(Written(buf).cells, <<>>)
    <3>1. [k \in {} |-> k] \in [DOMAIN <<>> -> DOMAIN buf]
      OBVIOUS
    <3>2. LeftOf(<<>>, buf)
      BY <3>1 DEF LeftOf
    <3>3. QED
      BY <3>2, EmptyOrdered
  <2>4. Ordered(out, buf, pipe) /\ AllLogged(out, buf, pipe, line, sent) /\ out \in Seq(Printed)
    BY DEF OrderInv, Typed
  <2>5. /\ Ordered(Append(out, Written(buf)), <<>>, pipe)
        /\ AllLogged(Append(out, Written(buf)), <<>>, pipe, line, sent)
    BY <2>2, <2>3, <2>4, PrintOrdered
  <2>6. QED
    BY <2>1, <2>5 DEF OrderInv
<1>3. QED
  BY <1>1, <1>2

LEMMA OrderStep ==
  ASSUME Typed, OrderInv, [Next]_vars
  PROVE  OrderInv'
<1>1. ASSUME NEW a \in App, AppStep(a) \/ End(a) PROVE OrderInv'
  <2>1. CASE OpenWrite(a)
    <3>1. UNCHANGED <<line, sent>> /\ UNCHANGED <<pipe, buf, out>>
      BY <2>1 DEF OpenWrite
    <3>2. QED
      BY <3>1, StandingStill, LossStep
  <2>2. CASE Write(a)
    BY <2>2, WriteOrdered
  <2>3. CASE BrokenPipe(a)
    <3>1. /\ out' = out /\ buf' \in {buf, <<>>} /\ pipe' \in {pipe, <<>>}
          /\ line[a] \in Lines(a) /\ NextLine(a)
      BY <2>3 DEF BrokenPipe
    <3>2. QED
      BY <3>1, NextLineOnward, LossStep
  <2>4. CASE End(a)
    <3>1. out' = out /\ buf' \in {buf, <<>>} /\ pipe' \in {pipe, <<>>}
      BY <2>4, EndIs
    <3>2. CASE UNCHANGED <<line, sent>>
      BY <3>1, <3>2, StandingStill, LossStep
    <3>3. CASE sent[a] > 0 /\ NextLine(a)
      <4>1. line[a] \in Lines(a)
        BY <3>3 DEF Typed
      <4>2. QED
        BY <3>1, <3>3, <4>1, NextLineOnward, LossStep
    <3>4. QED
      BY <2>4, <3>2, <3>3, EndIs
  <2>5. QED
    BY <1>1, <2>1, <2>2, <2>3, <2>4 DEF AppStep
<1>2. CASE OpenRead \/ TooLong \/ Return \/ Restart \/ Crash
  <2>1. /\ out' = out /\ buf' \in {buf, <<>>} /\ pipe' \in {pipe, <<>>}
        /\ UNCHANGED <<line, sent>>
    BY <1>2 DEF OpenRead, TooLong, Return, Restart, Crash, Exit
  <2>2. QED
    BY <2>1, StandingStill, LossStep
<1>3. CASE UNCHANGED vars
  BY <1>3 DEF vars, OrderInv
<1>4. QED
  BY <1>1, <1>2, <1>3, ReadOrdered, EmitLineOrdered, EndOfFileOrdered DEF Next, SidecarStep

LEMMA OrderInit == Init => OrderInv
  BY EmptyOrdered DEF Init, OrderInv, Ordered, AllLogged

LEMMA OrderInvSuffices == ASSUME Typed, OrderInv PROVE InOrder
<1> DEFINE prints == [i \in DOMAIN out |-> out[i].cells]
           parts  == prints \o <<buf, pipe>>
           n      == Len(out)
<1>1. prints \in Seq(Seq(Cell)) /\ Len(prints) = n /\ n \in Nat /\ DOMAIN out = 1..n
  <2>1. DOMAIN out = 1..n /\ n \in Nat /\ \A i \in 1..n : out[i] \in Printed
    BY DEF Typed
  <2>2. \A i \in 1..n : out[i].cells \in Seq(Cell)
    BY <2>1, CellsAreTriples
  <2>3. QED
    BY <2>1, <2>2
<1>2. <<buf, pipe>> \in Seq(Seq(Cell)) /\ Len(<<buf, pipe>>) = 2
  BY DEF Typed
<1>3. /\ parts \in Seq(Seq(Cell)) /\ DOMAIN parts = 1..(n + 2)
      /\ \A i \in 1..(n + 2) : parts[i] = IF i <= n THEN prints[i] ELSE <<buf, pipe>>[i - n]
  <2>1. \A s, t \in Seq(Seq(Cell)) : /\ s \o t \in Seq(Seq(Cell)) /\ DOMAIN (s \o t) = 1..(Len(s) + Len(t))
           /\ \A i \in 1..(Len(s) + Len(t)) : (s \o t)[i] = IF i <= Len(s) THEN s[i] ELSE t[i - Len(s)]
    BY ConcatProperties
  <2> HIDE DEF prints, n
  <2>2. QED
    BY <1>1, <1>2, <2>1
<1>4. \A i \in 1..(n + 2) : \/ i \in DOMAIN out /\ parts[i] = out[i].cells
                            \/ i = n + 1 /\ parts[i] = buf
                            \/ i = n + 2 /\ parts[i] = pipe
  <2> SUFFICES ASSUME NEW i \in 1..(n + 2)
               PROVE  \/ i \in DOMAIN out /\ parts[i] = out[i].cells
                      \/ i = n + 1 /\ parts[i] = buf
                      \/ i = n + 2 /\ parts[i] = pipe
    OBVIOUS
  <2>1. CASE i <= n
    <3>1. i \in DOMAIN out /\ parts[i] = prints[i]
      BY <1>1, <1>3, <2>1
    <3>2. QED
      BY <3>1
  <2>2. CASE i = n + 1
    <3>1. ~(i <= n) /\ i - n = 1
      BY <1>1, <2>2
    <3>2. parts[i] = <<buf, pipe>>[1]
      BY <1>3, <3>1
    <3>3. QED
      BY <2>2, <3>2
  <2>3. CASE i = n + 2
    <3>1. ~(i <= n) /\ i - n = 2
      BY <1>1, <2>3
    <3>2. parts[i] = <<buf, pipe>>[2]
      BY <1>3, <3>1
    <3>3. QED
      BY <2>3, <3>2
  <2>4. QED
    BY <1>1, <2>1, <2>2, <2>3
<1> HIDE DEF parts, prints
<1>5. Ordered(out, buf, pipe)
  BY DEF OrderInv
<1>6. \A i \in DOMAIN parts : Sorted(parts[i])
  BY <1>3, <1>4, <1>5 DEF Ordered
<1>7. ASSUME NEW i \in DOMAIN parts, NEW j \in DOMAIN parts, i < j
      PROVE  Precedes(parts[i], parts[j])
  <2>1. i \in 1..(n + 2) /\ j \in 1..(n + 2) /\ n \in Nat
    BY <1>1, <1>3
  <2>2. CASE i \in DOMAIN out /\ parts[i] = out[i].cells
    BY <1>4, <1>5, <1>7, <2>1, <2>2 DEF Ordered
  <2>3. CASE i = n + 1 /\ parts[i] = buf
    <3>1. j = n + 2
      BY <1>7, <2>1, <2>3
    <3>2. j \notin DOMAIN out /\ j # n + 1
      BY <1>1, <3>1
    <3>3. parts[j] = pipe
      BY <1>4, <2>1, <3>2
    <3>4. QED
      BY <1>5, <2>3, <3>3 DEF Ordered
  <2>4. CASE i = n + 2
    BY <1>7, <2>1, <2>4
  <2>5. QED
    BY <1>4, <2>1, <2>2, <2>3, <2>4
<1>8. \A i, j \in DOMAIN parts :
         i < j => \A c \in ToSet(parts[i]), d \in ToSet(parts[j]) : Before(c, d)
  BY <1>7 DEF Precedes, ToSet
<1>9. QED
  BY <1>6, <1>8 DEF InOrder, Sorted, parts, prints

(* What the sidecar has printed, holds and has yet to read stays in the     *)
(* order in which each container wrote it and nothing is there twice,       *)
(* through broken pipes, oversized lines, crashes and restarts              *)
(* (bufio.Scanner over the FIFO in main.go).                                *)
THEOREM InOrderHolds == Spec => []InOrder
<1>1. Init => Typed /\ OrderInv
  BY TypedInit, OrderInit
<1>2. Typed /\ OrderInv /\ [Next]_vars => (Typed /\ OrderInv)'
  BY TypedStep, OrderStep
<1>3. Typed /\ OrderInv => InOrder
  BY OrderInvSuffices
<1>4. QED
  BY <1>1, <1>2, <1>3, PTL DEF Spec

-----------------------------------------------------------------------------
(* What is printed is masked.                                              *)

\* Wherever a cell is, the rest of its line is around it.
Whole(s) ==
    \A i \in DOMAIN s : \A p \in 1..Size(s[i][1], s[i][2]) :
        /\ i + p - s[i][3] \in DOMAIN s
        /\ s[i + p - s[i][3]] = <<s[i][1], s[i][2], p>>

\* The sidecar is not killed, its buffer takes every line, a write takes every line.
Calm == /\ crashes = 0 /\ Fits
        /\ \A a \in active : \A l \in Lines(a) : Size(a, l) <= PipeBuf

Masked(prints) == \A i \in DOMAIN prints : \A k \in DOMAIN prints[i].cells : ~IsSecret(prints[i].cells[k])

SecretInv ==
    /\ mode = "drop" => \A i \in DOMAIN out : out[i].cells = <<>>
    /\ mode = "mask" /\ Calm =>
          /\ \A a \in App : sent[a] = 0
          /\ Whole(Flow)
          /\ Masked(out)

LEMMA CellTyped ==
  ASSUME NEW c \in Cell
  PROVE  /\ c = <<c[1], c[2], c[3]>> /\ c[1] \in active /\ c[2] \in Lines(c[1])
         /\ Size(c[1], c[2]) \in Nat /\ c[3] \in Nat /\ 1 <= c[3] /\ c[3] <= Size(c[1], c[2])
<1>1. /\ c = <<c[1], c[2], c[3]>> /\ c[1] \in App /\ c[1] \in active /\ c[2] \in Lines(c[1])
      /\ c[3] \in 1..Size(c[1], c[2])
  BY DEF Cell
<1>2. Size(c[1], c[2]) \in Nat
  BY <1>1, ScriptTyped
<1>3. QED
  BY <1>1, <1>2

LEMMA Cancels ==
  \A n, i, p, q \in Int : /\ i + p - q = n + i + p - q - n
                          /\ n + (n + i + p - q - n) = n + i + p - q
  OBVIOUS

Balanced(n, i, p, q) == n + i + p - q = p => n + i = q

LEMMA Balance == \A n, i, p, q \in Int : Balanced(n, i, p, q)
  BY DEF Balanced

\* Whole lines begin with a whole line.
LEMMA WholeFirst ==
  ASSUME NEW s \in Seq(Cell), s # <<>>, Whole(s), NEW n, n = Size(s[1][1], s[1][2])
  PROVE  /\ n \in Nat /\ 1 <= n /\ n <= Len(s)
         /\ \A p \in 1..n : s[p] = <<s[1][1], s[1][2], p>>
<1>1. Len(s) \in Nat /\ DOMAIN s = 1..Len(s) /\ 1 \in 1..Len(s)
  BY EmptySeq
<1>2. s[1] \in Cell
  BY <1>1
<1>3. n \in Nat /\ s[1][3] \in Nat /\ 1 <= s[1][3] /\ s[1][3] <= n
  BY <1>2, CellTyped
<1>4. \A p \in 1..n : 1 + p - s[1][3] \in 1..Len(s) /\ s[1 + p - s[1][3]] = <<s[1][1], s[1][2], p>>
  BY <1>1 DEF Whole
<1>5. s[1][3] = 1
  <2>1. 1 \in 1..n
    BY <1>3
  <2>2. 1 + 1 - s[1][3] \in 1..Len(s)
    BY <1>4, <2>1
  <2>3. QED
    BY <1>1, <1>3, <2>2
<1>6. \A p \in 1..n : p \in 1..Len(s) /\ s[p] = <<s[1][1], s[1][2], p>>
  BY <1>3, <1>4, <1>5
<1>7. n \in 1..n
  BY <1>3
<1>8. QED
  BY <1>1, <1>3, <1>6, <1>7

\* And what is behind that line is whole.
LEMMA WholeRest ==
  ASSUME NEW s \in Seq(Cell), s # <<>>, Whole(s), NEW n, n = Size(s[1][1], s[1][2]),
         NEW r \in Seq(Cell), Len(r) = Len(s) - n, \A i \in 1..(Len(s) - n) : r[i] = s[n + i]
  PROVE  Whole(r)
<1>1. /\ n \in Nat /\ 1 <= n /\ n <= Len(s) /\ \A p \in 1..n : s[p] = <<s[1][1], s[1][2], p>>
      /\ Len(s) \in Nat /\ DOMAIN s = 1..Len(s) /\ DOMAIN r = 1..(Len(s) - n)
  BY WholeFirst
<1> SUFFICES ASSUME NEW i \in 1..(Len(s) - n), NEW p \in 1..Size(r[i][1], r[i][2])
             PROVE  /\ i + p - r[i][3] \in 1..(Len(s) - n)
                    /\ r[i + p - r[i][3]] = <<r[i][1], r[i][2], p>>
  BY <1>1 DEF Whole
<1>2. r[i] = s[n + i] /\ n + i \in 1..Len(s)
  BY <1>1
<1> DEFINE c == r[i]
           j == n + i + p - c[3]
<1>3. /\ c \in Cell /\ c[3] \in Nat /\ c[3] <= Size(c[1], c[2]) /\ 1 <= c[3]
      /\ Size(c[1], c[2]) \in Nat /\ p \in Nat
  <2>1. c \in Cell
    BY <1>1
  <2>2. QED
    BY <2>1, CellTyped
<1>4. j \in 1..Len(s) /\ s[j] = <<c[1], c[2], p>>
  <2>1. \A q \in 1..Size(s[n + i][1], s[n + i][2]) :
            /\ n + i + q - s[n + i][3] \in 1..Len(s)
            /\ s[n + i + q - s[n + i][3]] = <<s[n + i][1], s[n + i][2], q>>
    BY <1>1, <1>2 DEF Whole
  <2>2. QED
    BY <1>2, <2>1
<1>5. n < j
  <2> SUFFICES ASSUME j <= n PROVE FALSE
    BY <1>1, <1>4
  <2>1. s[j] = <<s[1][1], s[1][2], j>>
    BY <1>1, <1>4
  <2>2. c[1] = s[1][1] /\ c[2] = s[1][2] /\ j = p
    BY <1>4, <2>1
  <2>3. c[3] <= n
    BY <1>3, <2>2
  <2>4. n + i = c[3]
    <3>1. n + i + p - c[3] = p
      BY <2>2
    <3>2. n \in Int /\ i \in Int /\ p \in Int /\ c[3] \in Int
      BY <1>1, <1>3
    <3> DEFINE q == c[3]
    <3>3. n + i + p - q = p /\ q \in Int
      BY <3>1, <3>2
    <3> HIDE DEF q
    <3>4. Balanced(n, i, p, q)
      BY <3>2, <3>3, Balance
    <3>5. n + i = q
      BY <3>3, <3>4 DEF Balanced
    <3>6. QED
      BY <3>5 DEF q
  <2>5. i >= 1
    BY <1>1
  <2> HIDE DEF j, c
  <2>6. QED
    BY <1>1, <2>3, <2>4, <2>5
<1>6. i + p - c[3] = j - n /\ j - n \in 1..(Len(s) - n) /\ n + (j - n) = j
  <2>1. n \in Int /\ i \in Int /\ p \in Int /\ c[3] \in Int
    BY <1>1, <1>3
  <2>2. i + p - c[3] = j - n /\ n + (j - n) = j
    BY <2>1, Cancels
  <2> HIDE DEF j
  <2>3. j - n \in 1..(Len(s) - n)
    BY <1>1, <1>4, <1>5
  <2>4. QED
    BY <2>2, <2>3
<1>7. r[j - n] = s[j]
  BY <1>6
<1>8. QED
  BY <1>4, <1>6, <1>7

LEMMA WholeJoined ==
  ASSUME NEW s \in Seq(Cell), NEW t \in Seq(Cell), Whole(s), Whole(t)
  PROVE  Whole(s \o t)
<1> DEFINE u == s \o t
<1>1. /\ Len(s) \in Nat /\ Len(t) \in Nat /\ DOMAIN s = 1..Len(s) /\ DOMAIN t = 1..Len(t)
      /\ DOMAIN u = 1..(Len(s) + Len(t))
      /\ \A i \in 1..(Len(s) + Len(t)) : u[i] = IF i <= Len(s) THEN s[i] ELSE t[i - Len(s)]
  BY ConcatProperties
<1>2. /\ \A i \in DOMAIN s : i \in DOMAIN u /\ u[i] = s[i]
      /\ \A i \in DOMAIN t : Len(s) + i \in DOMAIN u /\ u[Len(s) + i] = t[i]
  <2>1. \A i \in DOMAIN s : i \in 1..(Len(s) + Len(t)) /\ i <= Len(s)
    BY <1>1
  <2>2. \A i \in DOMAIN t : Len(s) + i \in 1..(Len(s) + Len(t)) /\ ~(Len(s) + i <= Len(s)) /\ Len(s) + i - Len(s) = i
    BY <1>1
  <2> HIDE DEF u
  <2>3. QED
    BY <1>1, <2>1, <2>2
<1> HIDE DEF u
<1>3. \A i \in DOMAIN u : i \in DOMAIN s \/ \E k \in DOMAIN t : i = Len(s) + k
  <2> SUFFICES ASSUME NEW i \in 1..(Len(s) + Len(t)), i \notin 1..Len(s)
               PROVE  i - Len(s) \in 1..Len(t) /\ i = Len(s) + (i - Len(s))
    BY <1>1
  <2>1. QED
    BY <1>1
<1>4. ASSUME NEW i \in DOMAIN u, NEW p \in 1..Size(u[i][1], u[i][2])
      PROVE  i + p - u[i][3] \in DOMAIN u /\ u[i + p - u[i][3]] = <<u[i][1], u[i][2], p>>
  <2>1. CASE i \in DOMAIN s
    <3>1. u[i] = s[i]
      BY <1>2, <2>1
    <3>2. i + p - s[i][3] \in DOMAIN s /\ s[i + p - s[i][3]] = <<s[i][1], s[i][2], p>>
      BY <2>1, <3>1 DEF Whole
    <3>3. QED
      BY <1>2, <3>1, <3>2
  <2>2. ASSUME NEW k \in DOMAIN t, i = Len(s) + k
        PROVE  i + p - u[i][3] \in DOMAIN u /\ u[i + p - u[i][3]] = <<u[i][1], u[i][2], p>>
    <3>1. u[i] = t[k]
      BY <1>2, <2>2
    <3>2. k + p - t[k][3] \in DOMAIN t /\ t[k + p - t[k][3]] = <<t[k][1], t[k][2], p>>
      BY <3>1 DEF Whole
    <3>3. i + p - u[i][3] = Len(s) + (k + p - t[k][3])
      <4>1. k \in Int /\ p \in Int /\ Len(s) \in Int
        BY <1>1
      <4>2. t[k] \in Cell
        BY <1>1
      <4>3. t[k][3] \in Nat
        BY <4>2, CellTyped
      <4>4. QED
        BY <2>2, <3>1, <4>1, <4>3
    <3>4. QED
      BY <1>2, <3>1, <3>2, <3>3
  <2>3. QED
    BY <1>3, <2>1, <2>2
<1>5. QED
  BY <1>4 DEF Whole, u

LEMMA FlowTyped ==
  ASSUME Typed
  PROVE  /\ Len(buf) \in Nat /\ DOMAIN buf = 1..Len(buf) /\ Len(pipe) \in Nat /\ DOMAIN pipe = 1..Len(pipe)
         /\ Flow \in Seq(Cell) /\ Len(Flow) = Len(buf) + Len(pipe) /\ DOMAIN Flow = 1..(Len(buf) + Len(pipe))
         /\ \A i \in 1..Len(buf) : Flow[i] = buf[i]
         /\ \A i \in 1..Len(pipe) : Flow[Len(buf) + i] = pipe[i]
<1>1. buf \in Seq(Cell) /\ pipe \in Seq(Cell)
  BY DEF Typed
<1>2. /\ Len(buf) \in Nat /\ DOMAIN buf = 1..Len(buf) /\ Len(pipe) \in Nat /\ DOMAIN pipe = 1..Len(pipe)
      /\ Flow \in Seq(Cell) /\ Len(Flow) = Len(buf) + Len(pipe) /\ DOMAIN Flow = 1..(Len(buf) + Len(pipe))
      /\ \A i \in 1..(Len(buf) + Len(pipe)) : Flow[i] = IF i <= Len(buf) THEN buf[i] ELSE pipe[i - Len(buf)]
  BY <1>1, ConcatProperties DEF Flow
<1>3. /\ \A i \in 1..Len(buf) : i \in 1..(Len(buf) + Len(pipe)) /\ i <= Len(buf)
      /\ \A i \in 1..Len(pipe) : /\ Len(buf) + i \in 1..(Len(buf) + Len(pipe))
                                 /\ ~(Len(buf) + i <= Len(buf)) /\ Len(buf) + i - Len(buf) = i
  BY <1>2
<1>4. QED
  BY <1>2, <1>3

\* The first newline ends the first line; without one the first line is not yet read.
LEMMA FirstLine ==
  ASSUME Typed, Whole(Flow), buf # <<>>, NEW n, n = Size(Flow[1][1], Flow[1][2])
  PROVE  /\ n \in Nat /\ 1 <= n /\ n <= Len(Flow) /\ Flow # <<>>
         /\ LineEnd = {} => Len(buf) < n
         /\ LineEnd # {} => FirstEnd = n
<1>1. /\ Len(buf) \in Nat /\ DOMAIN buf = 1..Len(buf) /\ Flow \in Seq(Cell)
      /\ \A i \in 1..Len(buf) : Flow[i] = buf[i]
      /\ Len(Flow) = Len(buf) + Len(pipe) /\ Len(pipe) \in Nat
  BY FlowTyped
<1>2. Len(buf) >= 1 /\ Flow # <<>>
  <2>1. buf \in Seq(Cell)
    BY DEF Typed
  <2>2. Len(buf) # 0
    BY <2>1, EmptySeq
  <2>3. Len(Flow) # 0
    BY <1>1, <2>2
  <2>4. QED
    BY <1>1, <2>2, <2>3
<1>3. /\ n \in Nat /\ 1 <= n /\ n <= Len(Flow)
      /\ \A p \in 1..n : Flow[p] = <<Flow[1][1], Flow[1][2], p>>
  BY <1>1, <1>2, WholeFirst
<1>4. \A p \in 1..n : p <= Len(buf) => p \in DOMAIN buf /\ (IsNewline(buf[p]) <=> p = n)
  <2> SUFFICES ASSUME NEW p \in 1..n, p <= Len(buf)
               PROVE  p \in DOMAIN buf /\ (IsNewline(buf[p]) <=> p = n)
    OBVIOUS
  <2>1. p \in 1..Len(buf)
    BY <1>1, <1>3
  <2>2. buf[p] = <<Flow[1][1], Flow[1][2], p>>
    BY <1>1, <1>3, <2>1
  <2>3. QED
    BY <1>1, <2>1, <2>2 DEF IsNewline
<1>5. n <= Len(buf) => n \in LineEnd
  BY <1>3, <1>4 DEF LineEnd
<1>6. LineEnd = {} => Len(buf) < n
  BY <1>1, <1>3, <1>5
<1>7. ASSUME LineEnd # {} PROVE FirstEnd = n
  <2>1. FirstEnd \in LineEnd /\ FirstEnd \in 1..Len(buf) /\ \A j \in LineEnd : FirstEnd <= j
    BY <1>7, TokenTyped
  <2>2. IsNewline(buf[FirstEnd])
    BY <2>1 DEF LineEnd
  <2>3. FirstEnd <= n => FirstEnd = n
    BY <1>3, <1>4, <2>1, <2>2
  <2>4. ~(FirstEnd <= n) => FALSE
    BY <1>1, <1>3, <1>5, <2>1
  <2>5. QED
    BY <2>3, <2>4
<1>8. QED
  BY <1>2, <1>3, <1>6, <1>7

\* A line that is whole is masked: each sensitive cell belongs to a match.
LEMMA MaskedToken ==
  ASSUME NEW c \in Cell, NEW t \in Seq(Cell), Len(t) = Size(c[1], c[2]) - 1,
         \A p \in 1..Len(t) : t[p] = <<c[1], c[2], p>>
  PROVE  \A k \in DOMAIN MaskLine(t) : ~IsSecret(MaskLine(t)[k])
<1>1. /\ c[1] \in App /\ c[2] \in Lines(c[1]) /\ Len(t) \in Nat /\ DOMAIN t = 1..Len(t)
      /\ Script[c[1]][c[2]].secret \subseteq 1..Len(t)
  <2>1. c[1] \in App /\ c[2] \in Lines(c[1])
    BY DEF Cell
  <2>2. QED
    BY <2>1, ScriptTyped
<1>2. ASSUME NEW i \in DOMAIN t, IsSecret(t[i]) PROVE InMatch(t, i)
  <2>1. i \in Int /\ t[i] = <<c[1], c[2], i>>
    BY <1>1
  <2>2. \A p \in Script[c[1]][c[2]].secret : p \in Int /\ i + p - i = p
    BY <1>1, <2>1
  <2>3. \A p \in Script[c[1]][c[2]].secret :
           i + p - i \in DOMAIN t /\ t[i + p - i] = <<c[1], c[2], p>>
    BY <1>1, <2>2
  <2>4. QED
    BY <1>2, <2>1, <2>3 DEF InMatch
<1>3. \A k \in DOMAIN MaskLine(t) : \E i \in DOMAIN t : MaskLine(t)[k] = t[i] /\ ~InMatch(t, i)
  BY MaskLineLeaves
<1>4. QED
  BY <1>2, <1>3

LEMMA ConfigFixed ==
  ASSUME [Next]_vars PROVE UNCHANGED config
<1>1. ASSUME NEW a \in App, AppStep(a) \/ End(a) PROVE UNCHANGED config
  BY <1>1 DEF AppStep, OpenWrite, Write, BrokenPipe, End
<1>2. CASE SidecarStep \/ Restart \/ Crash
  BY <1>2 DEF SidecarStep, OpenRead, Read, EmitLine, TooLong, EndOfFile, Return, Restart, Crash
<1>3. CASE UNCHANGED vars
  BY <1>3 DEF vars, config
<1>4. QED
  BY <1>1, <1>2, <1>3 DEF Next

LEMMA DropStep ==
  ASSUME Typed, [Next]_vars, mode = "drop", \A i \in DOMAIN out : out[i].cells = <<>>
  PROVE  \A i \in DOMAIN out' : out'[i].cells = <<>>
<1>1. CASE out' = out
  BY <1>1
<1>2. ASSUME NEW t, out' = Append(out, Written(t)) PROVE \A i \in DOMAIN out' : out'[i].cells = <<>>
  <2>1. Written(t).cells = <<>> /\ Written(t) \in Printed /\ out \in Seq(Printed)
    BY DEF Written, Printed, Typed
  <2>2. \A i \in DOMAIN out' : (i \in DOMAIN out /\ out'[i] = out[i]) \/ out'[i] = Written(t)
    BY <1>2, <2>1, AppendProperties
  <2>3. QED
    BY <2>1, <2>2
<1>3. CASE EmitLine
  BY <1>2, <1>3, EmitLinePrints
<1>4. CASE EndOfFile
  BY <1>1, <1>2, <1>4 DEF EndOfFile
<1>5. ASSUME NEW a \in App, AppStep(a) \/ End(a) PROVE out' = out
  BY <1>5 DEF AppStep, OpenWrite, Write, BrokenPipe, End
<1>6. CASE OpenRead \/ Read \/ TooLong \/ Return \/ Restart \/ Crash
  BY <1>1, <1>6 DEF OpenRead, Read, TooLong, Return, Restart, Crash
<1>7. CASE UNCHANGED vars
  BY <1>1, <1>7 DEF vars
<1>8. QED
  BY <1>1, <1>3, <1>4, <1>5, <1>6, <1>7 DEF Next, SidecarStep

\* The second part of SecretInv, of a masking sidecar that is not disturbed.
Steady == (\A a \in App : sent[a] = 0) /\ Whole(Flow) /\ Masked(out)

LEMMA EmptyWhole == Whole(<<>>)
  BY DEF Whole

\* What a step loses it loses entirely: the process that had the rest is gone.
LEMMA SteadyLoss ==
  ASSUME Typed, Typed', Steady, out' = out, \A a \in App : sent'[a] = 0,
         buf' = <<>>, buf = <<>>, pipe' \in {pipe, <<>>}
  PROVE  Steady'
<1>1. Flow' \in {Flow, <<>>}
  <2>1. /\ Flow = pipe /\ Flow' = pipe'
    BY ConcatEmptySeq DEF Typed, Flow
  <2>2. QED
    BY <2>1
<1>2. Whole(Flow')
  BY <1>1, EmptyWhole DEF Steady
<1>3. Masked(out')
  BY DEF Steady
<1>4. Whole(Flow)'
  BY <1>2 DEF Whole, Size
<1>5. Masked(out)'
  BY <1>3 DEF Masked, IsSecret
<1>6. QED
  BY <1>4, <1>5 DEF Steady

\* A step that prints, moves and loses nothing.
LEMMA SteadyStands == ASSUME Steady, UNCHANGED <<sent, pipe, buf, out>> PROVE Steady'
<1>1. Flow' = Flow
  BY DEF Flow
<1>2. Whole(Flow)'
  BY <1>1 DEF Steady, Whole, Size
<1>3. Masked(out)'
  BY DEF Steady, Masked, IsSecret
<1>4. QED
  BY <1>2, <1>3 DEF Steady

LEMMA SteadyWrite ==
  ASSUME Typed, Typed', Steady, Calm, NEW a \in App, Write(a)
  PROVE  Steady'
<1>1. /\ a \in active /\ line[a] \in Lines(a) /\ line[a] \in Nat /\ sent[a] = 0
      /\ pipe' = pipe \o Chunk(a) /\ buf' = buf /\ out' = out
  BY DEF Write, Chunk, Count, Left, Typed, Steady
<1>2. /\ Left(a) = Size(a, line[a]) /\ Count(a) = Left(a) /\ Count(a) \in Nat
      /\ Chunk(a) \in Seq(Cell) /\ DOMAIN Chunk(a) = 1..Count(a)
  <2>1. /\ Left(a) \in Nat /\ sent[a] + Left(a) = Size(a, line[a]) /\ Count(a) \in Nat
        /\ Chunk(a) \in Seq(Cell) /\ DOMAIN Chunk(a) = 1..Count(a)
    BY <1>1, ChunkTyped
  <2>2. Left(a) = Size(a, line[a])
    BY <1>1, <2>1
  <2>3. Left(a) <= PipeBuf
    BY <1>1, <2>2 DEF Calm
  <2>4. Count(a) = Left(a)
    BY <2>1, <2>3, SizeAssumption DEF Count
  <2>5. QED
    BY <2>1, <2>2, <2>4
<1>3. \A i \in 1..Count(a) : Chunk(a)[i] = <<a, line[a], i>>
  BY <1>1 DEF Chunk
<1>4. Whole(Chunk(a))
  <2> SUFFICES ASSUME NEW i \in 1..Count(a), NEW p \in 1..Count(a)
               PROVE  i + p - i \in 1..Count(a) /\ Chunk(a)[i + p - i] = <<a, line[a], p>>
    BY <1>2, <1>3 DEF Whole
  <2>1. i + p - i = p
    BY <1>2
  <2>2. QED
    BY <1>3, <2>1
<1>5. Flow' = Flow \o Chunk(a)
  <2>1. buf \in Seq(Cell) /\ pipe \in Seq(Cell)
    BY DEF Typed
  <2>2. Regroup(buf, pipe, Chunk(a))
    BY <1>2, <2>1, Associative
  <2>3. QED
    BY <1>1, <2>2 DEF Flow, Regroup
<1>6. Whole(Flow \o Chunk(a))
  BY <1>2, <1>4, FlowTyped, WholeJoined DEF Steady
<1>7. \A b \in App : sent'[b] = 0
  <2>1. NextLine(a)
    BY <1>2 DEF Write, Count, Left
  <2>2. sent \in [App -> Nat] /\ sent' = [sent EXCEPT ![a] = 0]
    BY <2>1 DEF NextLine, Typed
  <2>3. QED
    BY <2>2 DEF Steady
<1>8. Whole(Flow)'
  BY <1>5, <1>6 DEF Whole, Size
<1>9. Masked(out)'
  BY <1>1 DEF Masked, IsSecret, Steady
<1>10. QED
  BY <1>7, <1>8, <1>9 DEF Steady

\* A read moves the border between what is read and what is in the FIFO.
LEMMA ReadKeepsFlow ==
  ASSUME Typed, Read
  PROVE  Flow' = Flow
<1> DEFINE taken == SubSeq(pipe, 1, Taken)
           left  == SubSeq(pipe, Taken + 1, Len(pipe))
<1>1. /\ buf' = buf \o taken /\ pipe' = left
      /\ taken \in Seq(Cell) /\ left \in Seq(Cell) /\ Taken \in 1..Len(pipe) /\ Len(pipe) \in Nat
  <2>1. Len(pipe) \in Nat
    BY DEF Typed
  <2>2. /\ buf' = buf \o taken /\ pipe' = left /\ taken \in Seq(Cell) /\ Taken \in 1..Len(pipe)
        /\ pipe' \in Seq(Cell)
    BY ReadMoves
  <2> HIDE DEF taken, left
  <2>3. QED
    BY <2>1, <2>2
<1>2. taken \o left = pipe
  <2>1. pipe \in Seq(Cell) /\ Taken \in 0..Len(pipe)
    BY <1>1 DEF Typed
  <2>2. taken \o left = SubSeq(pipe, 1, Len(pipe))
    <3>1. \A k \in 0..Len(pipe) : SubSeq(pipe, 1, k) \o SubSeq(pipe, k + 1, Len(pipe)) = SubSeq(pipe, 1, Len(pipe))
      <4> TAKE k \in 0..Len(pipe)
      <4>1. /\ 1 \in 1..(Len(pipe) + 1) /\ k \in (1 - 1)..Len(pipe) /\ Len(pipe) \in k..Len(pipe)
        BY <1>1
      <4> QED
        BY <2>1, <4>1, ConcatAdjacentSubSeq
    <3>2. QED
      BY <2>1, <3>1
  <2>3. QED
    BY <2>1, <2>2, SubSeqFull
<1> HIDE DEF taken, left
<1>3. Flow' = Flow
  <2>1. buf \in Seq(Cell)
    BY DEF Typed
  <2>2. Regroup(buf, taken, left)
    BY <1>1, <2>1, Associative
  <2>3. QED
    BY <1>1, <1>2, <2>2 DEF Flow, Regroup
<1>4. QED
  BY <1>3

LEMMA SteadyRead ==
  ASSUME Typed, Steady, Read
  PROVE  Steady'
<1>1. Flow' = Flow /\ UNCHANGED <<out, sent>>
  BY ReadKeepsFlow DEF Read
<1>2. QED
  BY <1>1 DEF Steady, Whole, Size, Masked, IsSecret

\* What is left when a line is printed.
LEMMA EmitLineFlow ==
  ASSUME Typed, EmitLine
  PROVE  /\ FirstEnd \in 1..Len(buf) /\ FirstEnd \in 1..Len(Flow) /\ Flow' = Rest \o pipe
         /\ Flow' \in Seq(Cell) /\ FirstEnd + Len(Flow') = Len(Flow)
         /\ \A i \in 1..Len(Flow') : Flow'[i] = Flow[FirstEnd + i]
<1> DEFINE n == FirstEnd
           r == Rest \o pipe
<1>1. buf' = Rest /\ pipe' = pipe /\ LineEnd # {}
  BY EmitLinePrints DEF EmitLine
<1>2. /\ FirstEnd \in 1..Len(buf)
      /\ Rest \in Seq(Cell) /\ Len(Rest) = Len(buf) - FirstEnd
      /\ \A i \in 1..(Len(buf) - FirstEnd) : Rest[i] = buf[FirstEnd + i]
  BY <1>1, TokenTyped
<1>3. /\ Len(buf) \in Nat /\ Len(pipe) \in Nat /\ pipe \in Seq(Cell)
      /\ Flow \in Seq(Cell) /\ Len(Flow) = Len(buf) + Len(pipe)
      /\ \A i \in 1..Len(buf) : Flow[i] = buf[i]
      /\ \A i \in 1..Len(pipe) : Flow[Len(buf) + i] = pipe[i]
  BY FlowTyped DEF Typed
<1>4. /\ r \in Seq(Cell) /\ Len(r) = Len(Rest) + Len(pipe)
      /\ \A i \in 1..(Len(Rest) + Len(pipe)) : r[i] = IF i <= Len(Rest) THEN Rest[i] ELSE pipe[i - Len(Rest)]
  BY <1>2, <1>3, ConcatProperties
<1>5. Flow' = r
  BY <1>1 DEF Flow
<1> HIDE DEF n, r
<1>6. n \in 1..Len(buf) /\ Len(Rest) = Len(buf) - n
  BY <1>2 DEF n
<1>7. n \in 1..Len(Flow) /\ n + Len(r) = Len(Flow)
  BY <1>3, <1>4, <1>6
<1>8. ASSUME NEW i \in 1..Len(r) PROVE r[i] = Flow[n + i]
  <2>1. i \in 1..(Len(Rest) + Len(pipe)) /\ i \in Int
    BY <1>4
  <2>2. CASE i <= Len(Rest)
    <3>1. i \in 1..(Len(buf) - n) /\ n + i \in 1..Len(buf)
      BY <1>3, <1>6, <2>1, <2>2
    <3>2. Rest[i] = buf[n + i]
      BY <1>2, <3>1 DEF n
    <3>3. QED
      BY <1>3, <1>4, <2>1, <2>2, <3>1, <3>2
  <2>3. CASE ~(i <= Len(Rest))
    <3>1. i - Len(Rest) \in 1..Len(pipe) /\ n + i = Len(buf) + (i - Len(Rest))
      BY <1>3, <1>6, <2>1, <2>3
    <3>2. QED
      BY <1>3, <1>4, <2>1, <2>3, <3>1
  <2>4. QED
    BY <2>2, <2>3
<1>9. n = FirstEnd /\ r = Rest \o pipe
  BY DEF n, r
<1>10. QED
  BY <1>2, <1>4, <1>5, <1>7, <1>8, <1>9

LEMMA SteadyEmitLine ==
  ASSUME Typed, Typed', Steady, mode = "mask", EmitLine
  PROVE  Steady'
<1> DEFINE c == Flow[1]
           n == Size(c[1], c[2])
<1>1. /\ out' = Append(out, Written(Token)) /\ buf' = Rest /\ LineEnd # {}
      /\ UNCHANGED <<pipe, sent>>
  BY EmitLinePrints DEF EmitLine
<1>2. /\ FirstEnd \in 1..Len(buf)
      /\ Token \in Seq(Cell) /\ Len(Token) = FirstEnd - 1
      /\ \A i \in 1..(FirstEnd - 1) : Token[i] = buf[i]
      /\ Rest \in Seq(Cell) /\ Len(Rest) = Len(buf) - FirstEnd
      /\ \A i \in 1..(Len(buf) - FirstEnd) : Rest[i] = buf[FirstEnd + i]
  BY <1>1, TokenTyped
<1>3. /\ Len(buf) \in Nat /\ DOMAIN buf = 1..Len(buf) /\ Len(pipe) \in Nat
      /\ Flow \in Seq(Cell) /\ Len(Flow) = Len(buf) + Len(pipe)
      /\ \A i \in 1..Len(buf) : Flow[i] = buf[i]
      /\ \A i \in 1..Len(pipe) : Flow[Len(buf) + i] = pipe[i]
  BY FlowTyped
<1>4. buf # <<>>
  BY <1>2, <1>3
<1>5. n \in Nat /\ 1 <= n /\ Flow # <<>> /\ FirstEnd = n
  BY <1>1, <1>4, FirstLine DEF Steady
<1>6. c \in Cell /\ \A p \in 1..n : Flow[p] = <<c[1], c[2], p>>
  <2>1. \A p \in 1..n : Flow[p] = <<c[1], c[2], p>>
    BY <1>3, <1>5, WholeFirst DEF Steady
  <2>2. 1 \in 1..Len(Flow)
    BY <1>2, <1>3
  <2>3. QED
    BY <1>3, <2>1, <2>2, ElementOfSeq
<1> HIDE DEF c
<1>7. \A k \in DOMAIN MaskLine(Token) : ~IsSecret(MaskLine(Token)[k])
  <2>1. Len(Token) = n - 1
    BY <1>2, <1>5
  <2>2. \A p \in 1..Len(Token) : Token[p] = <<c[1], c[2], p>>
    <3> SUFFICES ASSUME NEW p \in 1..(n - 1) PROVE Token[p] = <<c[1], c[2], p>>
      BY <2>1
    <3>1. p \in 1..n /\ p \in 1..Len(buf) /\ p \in 1..(FirstEnd - 1)
      BY <1>2, <1>3, <1>5
    <3>2. QED
      BY <1>2, <1>3, <1>6, <3>1
  <2> HIDE DEF n
  <2>3. QED
    BY <1>2, <1>6, <2>1, <2>2, MaskedToken DEF n
<1>8. Masked(out')
  <2>1. Written(Token) \in Printed /\ Written(Token).cells = MaskLine(Token) /\ out \in Seq(Printed)
    BY <1>2, WrittenTyped DEF Written, Typed
  <2>2. \A i \in DOMAIN out' : (i \in DOMAIN out /\ out'[i] = out[i]) \/ out'[i] = Written(Token)
    BY <1>1, <2>1, AppendProperties
  <2>3. QED
    BY <1>7, <2>1, <2>2 DEF Masked, Steady
<1>9. Whole(Flow')
  <2>1. /\ Flow' \in Seq(Cell) /\ n + Len(Flow') = Len(Flow)
        /\ \A i \in 1..Len(Flow') : Flow'[i] = Flow[n + i]
    BY <1>5, EmitLineFlow
  <2> HIDE DEF n
  <2>2. Len(Flow') = Len(Flow) - n /\ Len(Flow') \in Nat
    BY <1>3, <1>5, <2>1
  <2>3. QED
    BY <1>3, <1>5, <2>1, <2>2, WholeRest DEF Steady, c, n
<1>10. Whole(Flow)'
  BY <1>9 DEF Whole, Size
<1>11. Masked(out)'
  BY <1>8 DEF Masked, IsSecret
<1>12. QED
  BY <1>1, <1>10, <1>11 DEF Steady

\* A sidecar that is not disturbed never meets a line it cannot take, nor the
\* end of file in the middle of a line.
LEMMA NothingTooLong == ASSUME Typed, Steady, Fits, TooLong PROVE FALSE
<1> DEFINE n == Size(Flow[1][1], Flow[1][2])
<1>1. LineEnd = {} /\ Len(buf) = MaxLine /\ MaxLine \in Nat /\ MaxLine >= 1
  BY SizeAssumption DEF TooLong
<1>2. buf # <<>>
  BY <1>1, EmptySeq
<1>3. n \in Nat /\ Flow # <<>> /\ Len(buf) < n
  BY <1>1, <1>2, FirstLine DEF Steady
<1>4. Flow[1] \in Cell
  BY <1>3, FlowTyped, EmptySeq, ElementOfSeq
<1>5. n <= MaxLine
  BY <1>4, CellTyped DEF Fits
<1> HIDE DEF n
<1>6. QED
  BY <1>1, <1>3, <1>5

LEMMA NothingAtEnd == ASSUME Typed, Steady, LineEnd = {}, pipe = <<>> PROVE buf = <<>>
<1> SUFFICES ASSUME buf # <<>> PROVE FALSE
  OBVIOUS
<1> DEFINE n == Size(Flow[1][1], Flow[1][2])
<1>1. n \in Nat /\ n <= Len(Flow) /\ Len(buf) < n
  BY FirstLine DEF Steady
<1>2. Len(Flow) = Len(buf) /\ Len(buf) \in Nat
  BY FlowTyped, EmptySeq
<1> HIDE DEF n
<1>3. QED
  BY <1>1, <1>2

LEMMA SteadyStep ==
  ASSUME Typed, Typed', Steady, Calm, Calm', mode = "mask", [Next]_vars
  PROVE  Steady'
<1>1. ASSUME NEW a \in App, AppStep(a) \/ End(a) PROVE Steady'
  <2>1. CASE OpenWrite(a)
    <3>1. UNCHANGED <<sent, pipe, buf, out>>
      BY <2>1 DEF OpenWrite
    <3>2. QED
      BY <3>1, SteadyStands
  <2>2. CASE Write(a)
    BY <2>2, SteadyWrite
  <2>3. CASE BrokenPipe(a)
    <3>1. /\ buf = <<>> /\ buf' = <<>> /\ out' = out /\ pipe' \in {pipe, <<>>}
          /\ sent \in [App -> Nat] /\ sent' = [sent EXCEPT ![a] = 0]
      BY <2>3 DEF BrokenPipe, HasReader, Typed, NextLine
    <3>2. \A b \in App : sent'[b] = 0
      BY <3>1 DEF Steady
    <3>3. QED
      BY <3>1, <3>2, SteadyLoss
  <2>4. CASE End(a)
    <3>1. UNCHANGED <<line, sent>>
      BY <2>4, EndIs DEF Steady
    <3>2. CASE Writers = {a} /\ ~HasReader
      <4>1. /\ buf = <<>> /\ buf' = <<>> /\ out' = out /\ pipe' \in {pipe, <<>>} /\ sent' = sent
        BY <2>4, <3>1, <3>2, EndIs DEF HasReader, Typed
      <4>2. QED
        BY <4>1, SteadyLoss DEF Steady
    <3>3. CASE ~(Writers = {a} /\ ~HasReader)
      <4>1. UNCHANGED <<sent, pipe, buf, out>>
        BY <2>4, <3>1, <3>3, EndIs
      <4>2. QED
        BY <4>1, SteadyStands
    <3>4. QED
      BY <3>2, <3>3
  <2>5. QED
    BY <1>1, <2>1, <2>2, <2>3, <2>4 DEF AppStep
<1>2. CASE OpenRead \/ Restart \/ UNCHANGED vars
  <2>1. UNCHANGED <<sent, pipe, buf, out>>
    BY <1>2 DEF OpenRead, Restart, vars
  <2>2. QED
    BY <2>1, SteadyStands
<1>3. CASE TooLong
  BY <1>3, NothingTooLong DEF Calm
<1>4. CASE EndOfFile
  <2>1. buf = <<>>
    BY <1>4, NothingAtEnd DEF EndOfFile
  <2>2. UNCHANGED <<sent, pipe, buf, out>>
    BY <1>4, <2>1 DEF EndOfFile
  <2>3. QED
    BY <2>2, SteadyStands
<1>5. CASE Return
  <2>1. /\ buf = <<>> /\ buf' = <<>> /\ out' = out /\ pipe' \in {pipe, <<>>} /\ sent' = sent
    BY <1>5 DEF Return, Exit, Typed
  <2>2. QED
    BY <2>1, SteadyLoss DEF Steady
<1>6. CASE Crash
  <2>1. crashes = 0 /\ crashes' = 0 /\ crashes' = crashes + 1
    BY <1>6 DEF Calm, Crash
  <2>2. QED
    BY <2>1
<1>7. QED
  BY <1>1, <1>2, <1>3, <1>4, <1>5, <1>6, SteadyRead, SteadyEmitLine DEF Next, SidecarStep

LEMMA SecretStep ==
  ASSUME Typed, Typed', SecretInv, [Next]_vars
  PROVE  SecretInv'
<1>1. UNCHANGED config
  BY ConfigFixed
<1>2. mode' = mode /\ active' = active
  BY <1>1 DEF config
<1>3. mode' = "drop" => \A i \in DOMAIN out' : out'[i].cells = <<>>
  BY <1>2, DropStep DEF SecretInv
<1>4. ASSUME mode' = "mask", Calm' PROVE Steady'
  <2>1. crashes' = 0 /\ crashes = 0
    <3>1. crashes' = 0 /\ crashes \in Nat
      BY <1>4, SizeAssumption DEF Calm, Typed
    <3>2. crashes' \in {crashes, crashes + 1}
      <4>1. ASSUME NEW a \in App, AppStep(a) \/ End(a) PROVE crashes' = crashes
        BY <4>1 DEF AppStep, OpenWrite, Write, BrokenPipe, End
      <4>2. CASE SidecarStep \/ Restart \/ Crash \/ UNCHANGED vars
        BY <4>2 DEF SidecarStep, OpenRead, Read, EmitLine, TooLong, EndOfFile, Return, Restart, Crash, vars
      <4>3. QED
        BY <4>1, <4>2 DEF Next
    <3>3. QED
      BY <3>1, <3>2
  <2>2. Calm
    BY <1>2, <1>4, <2>1 DEF Calm, Fits, Size, Lines
  <2>3. Steady
    BY <1>2, <1>4, <2>2 DEF SecretInv, Steady
  <2>4. QED
    BY <1>2, <1>4, <2>2, <2>3, SteadyStep
<1>5. QED
  BY <1>3, <1>4 DEF SecretInv, Steady, Masked, Whole, Flow

(* No part of a sensitive value reaches stdout: in drop-all mode never, and *)
(* in masking mode as long as the sidecar is not killed, every line fits    *)
(* the scanner's buffer and is written atomically (processPipe, dropPipe    *)
(* and the entrypoint wrapping).                                            *)
THEOREM NoRawSecretHolds == Spec => []NoRawSecret
<1>1. Init => Typed /\ SecretInv
  <2> SUFFICES ASSUME Init PROVE SecretInv
    BY TypedInit
  <2>1. Flow = <<>>
    BY ConcatEmptySeq, EmptySeq DEF Init, Flow
  <2>2. QED
    BY <2>1, EmptyWhole DEF Init, SecretInv, Masked
<1>2. Typed /\ SecretInv /\ [Next]_vars => (Typed /\ SecretInv)'
  BY TypedStep, SecretStep
<1>3. Typed /\ SecretInv => NoRawSecret
  <2> SUFFICES ASSUME Typed, SecretInv,
                      mode = "drop" \/ (mode = "mask" /\ Calm),
                      NEW i \in DOMAIN out, NEW k \in DOMAIN out[i].cells
               PROVE  ~IsSecret(out[i].cells[k])
    BY DEF NoRawSecret, Calm, Typed
  <2>1. CASE mode = "drop"
    BY <2>1 DEF SecretInv
  <2>2. CASE mode = "mask" /\ Calm
    BY <2>2 DEF SecretInv, Masked
  <2>3. QED
    BY <2>1, <2>2
<1>4. QED
  BY <1>1, <1>2, <1>3, PTL DEF Spec

-----------------------------------------------------------------------------
(* What is printed is a log of whole lines.                                *)

\* Each cell but a newline is followed by the next one of its line, each
\* newline by the beginning of a line.
Follows(s, i) ==
    IF IsNewline(s[i]) THEN i + 1 \in DOMAIN s => s[i + 1][3] = 1
    ELSE i + 1 \in DOMAIN s /\ s[i + 1] = <<s[i][1], s[i][2], s[i][3] + 1>>

Chained(s) == \A i \in DOMAIN s : Follows(s, i)

LEMMA ChainedRest ==
  ASSUME NEW s \in Seq(Cell), NEW r \in Seq(Cell), NEW n \in Nat, n + Len(r) = Len(s),
         \A i \in 1..Len(r) : r[i] = s[n + i], Chained(s)
  PROVE  Chained(r)
<1>1. Len(s) \in Nat /\ Len(r) \in Nat /\ DOMAIN s = 1..Len(s) /\ DOMAIN r = 1..Len(r)
  OBVIOUS
<1> SUFFICES ASSUME NEW i \in 1..Len(r) PROVE Follows(r, i)
  BY <1>1 DEF Chained
<1>2. n + i \in 1..Len(s) /\ r[i] = s[n + i] /\ n + i + 1 = n + (i + 1)
  BY <1>1
<1>3. i + 1 \in 1..Len(r) <=> n + i + 1 \in 1..Len(s)
  BY <1>1
<1>4. i + 1 \in 1..Len(r) => r[i + 1] = s[n + i + 1]
  BY <1>2
<1>5. Follows(s, n + i)
  BY <1>1, <1>2 DEF Chained
<1>6. QED
  BY <1>1, <1>2, <1>3, <1>4, <1>5 DEF Follows

LEMMA ChainedJoined ==
  ASSUME NEW s \in Seq(Cell), NEW t \in Seq(Cell), Chained(s), Chained(t),
         t # <<>> => t[1][3] = 1
  PROVE  Chained(s \o t)
<1> DEFINE u == s \o t
           n == Len(s)
           m == Len(t)
<1>1. /\ n \in Nat /\ m \in Nat /\ DOMAIN s = 1..n /\ DOMAIN t = 1..m /\ DOMAIN u = 1..(n + m)
      /\ \A i \in 1..(n + m) : u[i] = IF i <= n THEN s[i] ELSE t[i - n]
  BY ConcatProperties
<1> HIDE DEF u, n, m
<1>2. \A i \in 1..n : i \in 1..(n + m) /\ u[i] = s[i]
  BY <1>1
<1>3. \A i \in (n + 1)..(n + m) : i - n \in 1..m /\ u[i] = t[i - n]
  BY <1>1
<1>4. ASSUME NEW i \in 1..n PROVE Follows(u, i)
  <2>1. Follows(s, i)
    BY <1>1 DEF Chained
  <2>2. u[i] = s[i]
    BY <1>2
  <2>3. CASE i < n
    <3>1. i + 1 \in 1..n /\ i + 1 \in 1..(n + m) /\ u[i + 1] = s[i + 1]
      BY <1>1, <1>2, <2>3
    <3>2. QED
      BY <1>1, <2>1, <2>2, <3>1 DEF Follows
  <2>4. CASE i = n
    <3>1. i + 1 \notin 1..n
      BY <1>1, <2>4
    <3>2. IsNewline(u[i])
      BY <1>1, <2>1, <2>2, <3>1 DEF Follows
    <3>3. ASSUME i + 1 \in 1..(n + m) PROVE u[i + 1][3] = 1
      <4>1. m # 0 /\ i + 1 \in (n + 1)..(n + m) /\ (i + 1) - n = 1
        BY <1>1, <2>4, <3>3
      <4>2. t # <<>>
        BY <4>1 DEF m
      <4>3. u[i + 1] = t[(i + 1) - n]
        <5>1. PICK j : j = i + 1
          OBVIOUS
        <5>2. j \in (n + 1)..(n + m)
          BY <4>1, <5>1
        <5>3. u[j] = t[j - n]
          BY <1>3, <5>2
        <5>4. QED
          BY <5>1, <5>3
      <4>4. QED
        BY <4>1, <4>2, <4>3
    <3>4. QED
      BY <1>1, <3>2, <3>3 DEF Follows
  <2>5. QED
    BY <1>1, <2>3, <2>4
<1>5. ASSUME NEW i \in (n + 1)..(n + m) PROVE Follows(u, i)
  <2> DEFINE k == i - n
  <2>1. k \in 1..m /\ u[i] = t[k]
    BY <1>3
  <2>2. Follows(t, k)
    BY <1>1, <2>1 DEF Chained
  <2>3. k + 1 \in 1..m <=> i + 1 \in 1..(n + m)
    BY <1>1
  <2>4. ASSUME i + 1 \in 1..(n + m) PROVE u[i + 1] = t[k + 1]
    <3>1. i + 1 \in (n + 1)..(n + m) /\ (i + 1) - n = k + 1
      BY <1>1, <2>4
    <3>2. u[i + 1] = t[(i + 1) - n]
      <4>1. PICK j : j = i + 1
        OBVIOUS
      <4>2. j \in (n + 1)..(n + m)
        BY <3>1, <4>1
      <4>3. u[j] = t[j - n]
        BY <1>3, <4>2
      <4>4. QED
        BY <4>1, <4>3
    <3> HIDE DEF k
    <3>3. QED
      BY <3>1, <3>2
  <2> HIDE DEF k
  <2>5. QED
    BY <1>1, <2>1, <2>2, <2>3, <2>4 DEF Follows
<1>6. \A i \in 1..(n + m) : i \in 1..n \/ i \in (n + 1)..(n + m)
  BY <1>1
<1>7. QED
  BY <1>1, <1>4, <1>5, <1>6 DEF Chained, u

\* Up to the first newline cells are of one line, one after another.
LEMMA OneLine ==
  ASSUME NEW s \in Seq(Cell), Chained(s), NEW e \in 1..Len(s),
         \A i \in 1..(e - 1) : ~IsNewline(s[i]), NEW c, c = s[1]
  PROVE  \A i \in 1..e : s[i] = <<c[1], c[2], c[3] + i - 1>>
<1>1. Len(s) \in Nat /\ DOMAIN s = 1..Len(s) /\ e \in Nat
  OBVIOUS
<1>2. c \in Cell
  BY <1>1
<1>3. c = <<c[1], c[2], c[3]>> /\ c[3] \in Nat
  BY <1>2, CellTyped
<1> DEFINE Wrong == {i \in 1..e : s[i] # <<c[1], c[2], c[3] + i - 1>>}
<1> SUFFICES ASSUME Wrong # {} PROVE FALSE
  OBVIOUS
<1>4. PICK i \in Wrong : \A j \in Wrong : i <= j
  <2>1. Wrong \in SUBSET Nat
    OBVIOUS
  <2> HIDE DEF Wrong
  <2>2. QED
    BY <2>1, LeastNumber
<1>5. i # 1
  <2>1. c[3] + 1 - 1 = c[3]
    BY <1>3
  <2>2. s[1] = <<c[1], c[2], c[3] + 1 - 1>>
    BY <1>3, <2>1
  <2>3. QED
    BY <1>4, <2>2
<1>6. i - 1 \in 1..(e - 1) /\ i - 1 \in 1..e /\ i - 1 \in DOMAIN s /\ (i - 1) + 1 = i
  BY <1>1, <1>4, <1>5
<1>7. s[i - 1] = <<c[1], c[2], c[3] + (i - 1) - 1>>
  <2>1. ~(i <= i - 1)
    BY <1>6
  <2>2. i - 1 \notin Wrong
    BY <1>4, <2>1
  <2>3. QED
    BY <1>6, <2>2
<1>8. s[i] = <<c[1], c[2], c[3] + (i - 1) - 1 + 1>>
  <2>1. Follows(s, i - 1) /\ ~IsNewline(s[i - 1])
    BY <1>6 DEF Chained
  <2>2. s[i] = <<s[i - 1][1], s[i - 1][2], s[i - 1][3] + 1>>
    BY <1>6, <2>1 DEF Follows
  <2>3. QED
    BY <1>7, <2>2
<1>9. c[3] + (i - 1) - 1 + 1 = c[3] + i - 1
  <2> DEFINE q == c[3]
  <2>1. q \in Nat /\ i \in Int
    BY <1>3, <1>4
  <2> HIDE DEF q
  <2>2. q + (i - 1) - 1 + 1 = q + i - 1
    BY <2>1
  <2>3. QED
    BY <2>2 DEF q
<1>10. QED
  BY <1>4, <1>8, <1>9

\* Lines go out whole, so the rest of a line is never far behind its beginning.
LinesInv == (\A a \in App : sent[a] = 0) /\ Chained(Flow)

LEMMA AtomicWrite ==
  ASSUME Typed, LinesInv, Atomic, NEW a \in App, Write(a)
  PROVE  /\ a \in active /\ line[a] \in Lines(a) /\ NextLine(a)
         /\ Count(a) = Size(a, line[a]) /\ Count(a) \in Nat /\ 1 <= Count(a)
         /\ Chunk(a) \in Seq(Cell) /\ Len(Chunk(a)) = Count(a)
         /\ \A i \in 1..Count(a) : Chunk(a)[i] = <<a, line[a], i>>
         /\ Flow' = Flow \o Chunk(a)
<1>1. /\ a \in active /\ line[a] \in Lines(a) /\ line[a] \in Nat /\ sent[a] = 0
      /\ pipe' = pipe \o Chunk(a) /\ buf' = buf
  BY DEF Write, Chunk, Count, Left, Typed, LinesInv
<1>2. /\ Left(a) \in Nat /\ sent[a] + Left(a) = Size(a, line[a]) /\ Count(a) \in Nat /\ 1 <= Count(a)
      /\ Chunk(a) \in Seq(Cell) /\ Len(Chunk(a)) = Count(a)
  BY <1>1, ChunkTyped
<1>3. Left(a) = Size(a, line[a])
  BY <1>1, <1>2
<1>4. Count(a) = Left(a)
  BY <1>1, <1>2, <1>3, SizeAssumption DEF Count, Atomic
<1>5. \A i \in 1..Count(a) : Chunk(a)[i] = <<a, line[a], i>>
  BY <1>1 DEF Chunk
<1>6. Flow' = Flow \o Chunk(a)
  <2>1. buf \in Seq(Cell) /\ pipe \in Seq(Cell)
    BY DEF Typed
  <2>2. Regroup(buf, pipe, Chunk(a))
    BY <1>2, <2>1, Associative
  <2>3. QED
    BY <1>1, <2>2 DEF Flow, Regroup
<1>7. NextLine(a)
  BY <1>4 DEF Write, Count, Left
<1>8. QED
  BY <1>1, <1>2, <1>3, <1>4, <1>5, <1>6, <1>7

\* Nothing of the flow moves, but it may be lost from its beginning on.
LEMMA LinesLoss ==
  ASSUME Typed, LinesInv, \A a \in App : sent'[a] = 0, NEW n \in Nat,
         Flow' \in Seq(Cell), n + Len(Flow') = Len(Flow), \A i \in 1..Len(Flow') : Flow'[i] = Flow[n + i]
  PROVE  LinesInv'
<1>1. Chained(Flow')
  BY FlowTyped, ChainedRest DEF LinesInv
<1>2. Chained(Flow)'
  BY <1>1 DEF Chained, Follows, IsNewline, Size
<1>3. QED
  BY <1>2 DEF LinesInv

LEMMA LinesStand ==
  ASSUME LinesInv, \A a \in App : sent'[a] = 0, Flow' \in {Flow, <<>>}
  PROVE  LinesInv'
<1>1. Chained(Flow')
  BY DEF LinesInv, Chained
<1>2. Chained(Flow)'
  BY <1>1 DEF Chained, Follows, IsNewline, Size
<1>3. QED
  BY <1>2 DEF LinesInv

LEMMA LinesWrite ==
  ASSUME Typed, LinesInv, Atomic, NEW a \in App, Write(a)
  PROVE  LinesInv'
<1> DEFINE n == Count(a)
           s == Chunk(a)
<1>1. /\ NextLine(a) /\ n = Size(a, line[a]) /\ n \in Nat /\ 1 <= n
      /\ s \in Seq(Cell) /\ Len(s) = n /\ \A i \in 1..n : s[i] = <<a, line[a], i>>
      /\ Flow' = Flow \o s
  BY AtomicWrite
<1> HIDE DEF n, s
<1>2. DOMAIN s = 1..n
  BY <1>1
<1>3. ASSUME NEW i \in 1..n PROVE Follows(s, i)
  <2>1. IsNewline(s[i]) <=> i = n
    BY <1>1 DEF IsNewline
  <2>2. i = n => i + 1 \notin 1..n
    BY <1>1
  <2>3. i # n => i + 1 \in 1..n /\ s[i + 1] = <<a, line[a], i + 1>>
    BY <1>1
  <2>4. QED
    BY <1>1, <1>2, <2>1, <2>2, <2>3 DEF Follows
<1>4. Chained(s) /\ s[1][3] = 1
  BY <1>1, <1>2, <1>3 DEF Chained
<1>5. Chained(Flow')
  BY <1>1, <1>4, FlowTyped, ChainedJoined DEF LinesInv
<1>6. Chained(Flow)'
  BY <1>5 DEF Chained, Follows, IsNewline, Size
<1>7. \A b \in App : sent'[b] = 0
  <2>1. sent \in [App -> Nat] /\ sent' = [sent EXCEPT ![a] = 0]
    BY <1>1 DEF NextLine, Typed
  <2>2. QED
    BY <2>1 DEF LinesInv
<1>8. QED
  BY <1>6, <1>7 DEF LinesInv

\* The scanner finds the newline of each line it has room for, and the rest of a
\* line is there when the file ends.
LEMMA NewlineInSight ==
  ASSUME Typed, LinesInv, Atomic, buf # <<>>, LineEnd = {}
  PROVE  pipe # <<>> /\ Len(buf) < MaxLine
<1> DEFINE n == Len(buf)
           c == Flow[1]
<1>1. /\ n \in Nat /\ DOMAIN buf = 1..n /\ Len(pipe) \in Nat
      /\ Flow \in Seq(Cell) /\ Len(Flow) = n + Len(pipe) /\ DOMAIN Flow = 1..(n + Len(pipe))
      /\ \A i \in 1..n : Flow[i] = buf[i]
  BY FlowTyped
<1>2. n # 0
  BY EmptySeq DEF Typed
<1>3. \A i \in 1..n : ~IsNewline(Flow[i])
  BY <1>1 DEF LineEnd
<1>4. n \in 1..Len(Flow) /\ 1 \in 1..Len(Flow)
  BY <1>1, <1>2
<1>5. c \in Cell
  BY <1>1, <1>4
<1>6. \A i \in 1..n : Flow[i] = <<c[1], c[2], c[3] + i - 1>>
  <2>1. \A i \in 1..(n - 1) : ~IsNewline(Flow[i])
    BY <1>1, <1>3
  <2> HIDE DEF n
  <2>2. QED
    BY <1>1, <1>4, <2>1, OneLine DEF LinesInv
<1>7. pipe # <<>>
  <2>1. Follows(Flow, n) /\ ~IsNewline(Flow[n])
    BY <1>1, <1>2, <1>3, <1>4 DEF LinesInv, Chained
  <2>2. n + 1 \in 1..(n + Len(pipe))
    BY <1>1, <2>1 DEF Follows
  <2>3. Len(pipe) # 0
    BY <1>1, <2>2
  <2>4. QED
    BY <2>3, EmptySeq
<1>8. n < MaxLine
  <2> DEFINE q == c[3]
             m == Size(c[1], c[2])
  <2>1. q \in Nat /\ 1 <= q /\ m \in Nat /\ m <= MaxLine /\ MaxLine \in Nat
    <3>1. c[1] \in active /\ c[2] \in Lines(c[1])
      BY <1>5 DEF Cell
    <3>2. QED
      BY <1>5, <3>1, CellTyped, SizeAssumption DEF Atomic
  <2>2. Flow[n] \in Cell /\ Flow[n] = <<c[1], c[2], c[3] + n - 1>>
    BY <1>1, <1>2, <1>4, <1>6
  <2>3. Flow[n][3] <= Size(Flow[n][1], Flow[n][2]) /\ ~IsNewline(Flow[n])
    <3>1. n \in 1..n
      BY <1>1, <1>2
    <3>2. ~IsNewline(Flow[n])
      BY <1>3, <3>1
    <3>3. PICK d : d = Flow[n]
      OBVIOUS
    <3>4. d \in Cell
      BY <2>2, <3>3
    <3>5. d[3] <= Size(d[1], d[2])
      BY <3>4, CellTyped
    <3>6. QED
      BY <3>2, <3>3, <3>5
  <2> HIDE DEF c
  <2>4. q + n - 1 <= m /\ q + n - 1 # m
    BY <2>2, <2>3 DEF IsNewline
  <2> HIDE DEF q, m, n
  <2>5. QED
    BY <1>1, <2>1, <2>4
<1>9. QED
  BY <1>7, <1>8

LEMMA LinesStep ==
  ASSUME Typed, Typed', LinesInv, Atomic, [Next]_vars
  PROVE  LinesInv'
<1>1. sent \in [App -> Nat] /\ \A a \in App : sent[a] = 0
  BY DEF Typed, LinesInv
<1>2. ASSUME NEW a \in App, AppStep(a) \/ End(a) PROVE LinesInv'
  <2>1. CASE OpenWrite(a)
    <3>1. Flow' = Flow /\ sent' = sent
      BY <2>1 DEF OpenWrite, Flow
    <3>2. QED
      BY <1>1, <3>1, LinesStand
  <2>2. CASE Write(a)
    BY <2>2, LinesWrite
  <2>3. CASE BrokenPipe(a)
    <3>1. sent' = [sent EXCEPT ![a] = 0] /\ buf = <<>> /\ buf' = <<>> /\ pipe' \in {pipe, <<>>}
      BY <2>3 DEF BrokenPipe, NextLine, HasReader, Typed
    <3>2. Flow = pipe /\ Flow' = pipe'
      BY <3>1, ConcatEmptySeq DEF Typed, Flow
    <3>3. \A b \in App : sent'[b] = 0
      BY <1>1, <3>1
    <3>4. QED
      BY <3>1, <3>2, <3>3, LinesStand
  <2>4. CASE End(a)
    <3>1. sent' = sent
      BY <1>1, <2>4, EndIs
    <3>2. CASE ~HasReader
      <4>1. buf = <<>> /\ buf' = <<>> /\ pipe' \in {pipe, <<>>}
        BY <2>4, <3>2, EndIs DEF HasReader, Typed
      <4>2. Flow = pipe /\ Flow' = pipe'
        BY <4>1, ConcatEmptySeq DEF Typed, Flow
      <4>3. QED
        BY <1>1, <3>1, <4>1, <4>2, LinesStand
    <3>3. CASE HasReader
      <4>1. Flow' = Flow
        BY <2>4, <3>3, EndIs DEF Flow
      <4>2. QED
        BY <1>1, <3>1, <4>1, LinesStand
    <3>4. QED
      BY <3>2, <3>3
  <2>5. QED
    BY <1>2, <2>1, <2>2, <2>3, <2>4 DEF AppStep
<1>3. CASE OpenRead \/ Restart \/ UNCHANGED vars
  <2>1. Flow' = Flow /\ sent' = sent
    BY <1>3 DEF OpenRead, Restart, vars, Flow
  <2>2. QED
    BY <1>1, <2>1, LinesStand
<1>4. CASE Read
  <2>1. Flow' = Flow /\ sent' = sent
    BY <1>4, ReadKeepsFlow DEF Read
  <2>2. QED
    BY <1>1, <2>1, LinesStand
<1>5. CASE EmitLine
  <2>1. /\ FirstEnd \in 1..Len(buf) /\ Len(buf) \in Nat /\ sent' = sent
        /\ Flow' \in Seq(Cell) /\ FirstEnd + Len(Flow') = Len(Flow)
        /\ \A i \in 1..Len(Flow') : Flow'[i] = Flow[FirstEnd + i]
    BY <1>5, EmitLineFlow, FlowTyped DEF EmitLine
  <2>2. FirstEnd \in Nat
    BY <2>1
  <2>3. QED
    BY <1>1, <2>1, <2>2, LinesLoss
<1>6. CASE TooLong
  <2>1. LineEnd = {} /\ Len(buf) = MaxLine /\ MaxLine \in Nat /\ MaxLine >= 1
    BY <1>6, SizeAssumption DEF TooLong
  <2>2. buf # <<>>
    BY <2>1, EmptySeq
  <2>3. QED
    BY <2>1, <2>2, NewlineInSight
<1>7. CASE EndOfFile
  <2>1. LineEnd = {} /\ pipe = <<>>
    BY <1>7 DEF EndOfFile
  <2>2. buf = <<>>
    BY <2>1, NewlineInSight
  <2>3. Flow' = Flow /\ sent' = sent
    BY <1>7, <2>2 DEF EndOfFile, Flow
  <2>4. QED
    BY <1>1, <2>3, LinesStand
<1>8. CASE Return
  <2>1. sent' = sent /\ buf = <<>> /\ buf' = <<>> /\ pipe' \in {pipe, <<>>}
    BY <1>8 DEF Return, Exit, Typed
  <2>2. Flow = pipe /\ Flow' = pipe'
    BY <2>1, ConcatEmptySeq DEF Typed, Flow
  <2>3. QED
    BY <1>1, <2>1, <2>2, LinesStand
<1>9. CASE Crash
  <2>1. sent' = sent /\ buf' = <<>> /\ pipe' \in {pipe, <<>>}
    BY <1>9 DEF Crash, Exit
  <2>2. CASE pipe' = <<>>
    <3>1. Flow' = <<>>
      BY <2>1, <2>2, EmptySeq, ConcatEmptySeq DEF Flow
    <3>2. QED
      BY <1>1, <2>1, <3>1, LinesStand
  <2>3. CASE pipe' = pipe
    <3>1. Flow' = pipe
      BY <2>1, <2>3, ConcatEmptySeq DEF Flow, Typed
    <3>2. /\ Len(buf) \in Nat /\ pipe \in Seq(Cell) /\ Len(Flow) = Len(buf) + Len(pipe)
          /\ \A i \in 1..Len(pipe) : pipe[i] = Flow[Len(buf) + i]
      BY FlowTyped DEF Typed
    <3>3. QED
      BY <1>1, <2>1, <3>1, <3>2, LinesLoss
  <2>4. QED
    BY <2>1, <2>2, <2>3
<1>10. QED
  BY <1>2, <1>3, <1>4, <1>5, <1>6, <1>7, <1>8, <1>9 DEF Next, SidecarStep

\* The lines that are not written, and those that a sequence of cells belongs to.
Unwritten == UNION {{a} \X {l \in Lines(a) : l >= line[a]} : a \in active}
LinesOf(s) == {<<s[i][1], s[i][2]>> : i \in DOMAIN s}

LEMMA DueIs ==
  ASSUME Typed
  PROVE  /\ Due = Unwritten \cup LinesOf(Flow)
         /\ \A x : x \in Unwritten <=> \E a \in active : \E l \in Lines(a) : x = <<a, l>> /\ l >= line[a]
         /\ Torn \subseteq LinesOf(Flow)
<1>1. LinesOf(Flow) = {<<c[1], c[2]>> : c \in ToSet(Flow)}
  BY DEF LinesOf, ToSet
<1>2. Due = Unwritten \cup LinesOf(Flow)
  <2>1. Due = Unwritten \cup {<<c[1], c[2]>> : c \in ToSet(Flow)}
    BY DEF Due, Unwritten
  <2>2. QED
    BY <1>1, <2>1
<1>3. \A x : x \in Unwritten <=> \E a \in active : \E l \in Lines(a) : x = <<a, l>> /\ l >= line[a]
  BY DEF Unwritten
<1>4. Torn \subseteq LinesOf(Flow)
  <2>1. Flow # <<>> => 1 \in DOMAIN Flow
    BY FlowTyped, EmptySeq
  <2>2. QED
    BY <2>1 DEF Torn, LinesOf
<1>5. QED
  BY <1>2, <1>3, <1>4

\* What is in flight is written, and in order.
LEMMA FlowIsWritten ==
  ASSUME Typed, OrderInv, LinesInv
  PROVE  /\ Sorted(Flow)
         /\ \A i \in DOMAIN Flow : Flow[i] \in Cell /\ Flow[i][2] < line[Flow[i][1]]
         /\ LinesOf(Flow) \cap Unwritten = {}
<1>1. buf \in Seq(Cell) /\ pipe \in Seq(Cell) /\ Flow \in Seq(Cell)
  BY FlowTyped DEF Typed
<1>2. Sorted(Flow) /\ Logged(Flow, line, sent)
  BY <1>1, JoinedOrdered DEF OrderInv, Ordered, AllLogged, Flow
<1>3. ASSUME NEW i \in DOMAIN Flow PROVE Flow[i] \in Cell /\ Flow[i][2] < line[Flow[i][1]]
  <2>1. Flow[i] \in Cell
    BY <1>1
  <2>2. Flow[i][1] \in App /\ Flow[i][3] \in Nat /\ 1 <= Flow[i][3]
    <3>1. PICK c \in Cell : c = Flow[i]
      BY <2>1
    <3>2. c[1] \in App /\ c[3] \in Nat /\ 1 <= c[3]
      BY CellTyped DEF Cell
    <3>3. QED
      BY <3>1, <3>2
  <2>3. sent[Flow[i][1]] = 0
    BY <2>2 DEF LinesInv
  <2>4. ~(Flow[i][3] <= 0)
    BY <2>2
  <2>5. QED
    BY <1>2, <2>1, <2>3, <2>4 DEF Logged
<1>4. ASSUME NEW x \in LinesOf(Flow), x \in Unwritten PROVE FALSE
  <2>1. PICK i \in DOMAIN Flow : x = <<Flow[i][1], Flow[i][2]>>
    BY DEF LinesOf
  <2>2. PICK a \in active : \E l \in Lines(a) : x = <<a, l>> /\ l >= line[a]
    BY <1>4, DueIs
  <2>3. PICK l \in Lines(a) : x = <<a, l>> /\ l >= line[a]
    BY <2>2
  <2>4. l < line[a]
    BY <1>3, <2>1, <2>3
  <2>5. l \in Nat /\ line[a] \in Nat
    <3>1. a \in App
      BY DEF Typed
    <3>2. QED
      BY <3>1, ScriptTyped DEF Typed
  <2>6. QED
    BY <2>3, <2>4, <2>5
<1>5. QED
  BY <1>2, <1>3, <1>4

\* A container goes on to its next line.
LEMMA UnwrittenMoves ==
  ASSUME Typed, UNCHANGED config, NEW a \in active, line[a] \in Lines(a), NextLine(a)
  PROVE  <<a, line[a]>> \in Unwritten /\ Unwritten' = Unwritten \ {<<a, line[a]>>}
<1>1. /\ line \in [App -> Nat] /\ line' = [line EXCEPT ![a] = line[a] + 1] /\ active' = active
      /\ a \in App /\ active \subseteq App
  BY DEF Typed, NextLine, config
<1>2. line[a] >= line[a]
  BY <1>1
<1>3. <<a, line[a]>> \in Unwritten
  BY <1>2, DueIs
<1>4. ASSUME NEW b \in active, NEW l \in Lines(b)
      PROVE  l >= line'[b] <=> l >= line[b] /\ <<b, l>> # <<a, line[a]>>
  <2>1. l \in Nat /\ line[b] \in Nat
    BY <1>1, ScriptTyped
  <2>2. CASE b = a
    <3>1. line'[b] = line[b] + 1
      BY <1>1, <2>2
    <3>2. l >= line[b] + 1 <=> l >= line[b] /\ l # line[b]
      BY <2>1
    <3>3. QED
      BY <2>2, <3>1, <3>2
  <2>3. CASE b # a
    BY <1>1, <2>3
  <2>4. QED
    BY <2>2, <2>3
<1>5. Unwritten' = UNION {{b} \X {l \in Lines(b) : l >= line'[b]} : b \in active}
  BY <1>1 DEF Unwritten, Lines
<1>6. \A x : x \in Unwritten' <=> \E b \in active : \E l \in Lines(b) : x = <<b, l>> /\ l >= line'[b]
  BY <1>5
<1>7. \A x : x \in Unwritten' <=> x \in Unwritten /\ x # <<a, line[a]>>
  <2>1. ASSUME NEW x, x \in Unwritten' PROVE x \in Unwritten /\ x # <<a, line[a]>>
    <3>1. PICK b \in active : \E l \in Lines(b) : x = <<b, l>> /\ l >= line'[b]
      BY <1>6, <2>1
    <3>2. PICK l \in Lines(b) : x = <<b, l>> /\ l >= line'[b]
      BY <3>1
    <3>3. QED
      BY <1>4, <3>2, DueIs
  <2>2. ASSUME NEW x, x \in Unwritten, x # <<a, line[a]>> PROVE x \in Unwritten'
    <3>1. PICK b \in active : \E l \in Lines(b) : x = <<b, l>> /\ l >= line[b]
      BY <2>2, DueIs
    <3>2. PICK l \in Lines(b) : x = <<b, l>> /\ l >= line[b]
      BY <3>1
    <3>3. QED
      BY <1>4, <1>6, <2>2, <3>2
  <2>3. QED
    BY <2>1, <2>2
<1>8. QED
  BY <1>3, <1>7

LEMMA SameDue ==
  ASSUME Typed, Typed', UNCHANGED <<active, line>>, Flow' = Flow
  PROVE  Due' = Due /\ Torn' = Torn /\ Unwritten' = Unwritten
<1>1. Unwritten' = Unwritten
  BY DEF Unwritten, Lines
<1>2. Torn' = Torn
  BY DEF Torn
<1>3. ToSet(Flow)' = ToSet(Flow)
  BY DEF ToSet
<1>4. Due' = Due
  BY <1>3 DEF Due, Lines
<1>5. QED
  BY <1>1, <1>2, <1>4

LEMMA DueTyped ==
  Typed => Due = Unwritten \cup LinesOf(Flow) /\ Torn \subseteq LinesOf(Flow)
  BY DueIs

LEMMA DueAfter ==
  ASSUME Typed'
  PROVE  /\ Due' = Unwritten' \cup LinesOf(Flow')
         /\ Torn' \subseteq LinesOf(Flow')
<1>1. (Due = Unwritten \cup LinesOf(Flow) /\ Torn \subseteq LinesOf(Flow))'
  BY DueTyped, PTL
<1>2. LinesOf(Flow)' = LinesOf(Flow')
  BY DEF LinesOf
<1>3. QED
  BY <1>1, <1>2

\* The token that is printed is the first line in flight, from its first cell on.
LEMMA EmittedToken ==
  ASSUME Typed, LinesInv, EmitLine, NEW c, c = Flow[1], NEW n, n = FirstEnd
  PROVE  /\ c \in Cell /\ n \in Nat /\ 1 <= n /\ n <= Len(Flow) /\ c[3] + n - 1 = Size(c[1], c[2])
         /\ \A i \in 1..n : Flow[i] = <<c[1], c[2], c[3] + i - 1>>
         /\ Token \in Seq(Cell) /\ Len(Token) = n - 1
         /\ \A i \in 1..(n - 1) : Token[i] = <<c[1], c[2], c[3] + i - 1>>
<1>1. LineEnd # {}
  BY DEF EmitLine
<1>2. /\ n \in LineEnd /\ n \in 1..Len(buf) /\ \A j \in LineEnd : n <= j
      /\ Token \in Seq(Cell) /\ Len(Token) = n - 1 /\ \A i \in 1..(n - 1) : Token[i] = buf[i]
  BY <1>1, TokenTyped
<1>3. /\ Len(buf) \in Nat /\ DOMAIN buf = 1..Len(buf) /\ Flow \in Seq(Cell) /\ n \in 1..Len(Flow)
      /\ \A i \in 1..Len(buf) : Flow[i] = buf[i]
  BY FlowTyped, EmitLineFlow
<1>4. \A i \in 1..(n - 1) : i \in 1..Len(buf) /\ i \in 1..n /\ ~(n <= i)
  BY <1>2, <1>3
<1>5. \A i \in 1..(n - 1) : ~IsNewline(Flow[i])
  BY <1>2, <1>3, <1>4 DEF LineEnd
<1>6. \A i \in 1..n : Flow[i] = <<c[1], c[2], c[3] + i - 1>>
  BY <1>3, <1>5, OneLine DEF LinesInv
<1>7. n \in 1..n
  BY <1>2
<1>8. IsNewline(Flow[n])
  BY <1>2, <1>3 DEF LineEnd
<1>9. c[3] + n - 1 = Size(c[1], c[2])
  BY <1>6, <1>7, <1>8 DEF IsNewline
<1>10. c \in Cell
  <2>1. 1 \in 1..Len(Flow)
    BY <1>3
  <2>2. QED
    BY <1>3, <2>1, ElementOfSeq
<1>11. \A i \in 1..(n - 1) : Token[i] = <<c[1], c[2], c[3] + i - 1>>
  BY <1>2, <1>3, <1>4, <1>6
<1>12. n \in Nat /\ 1 <= n /\ n <= Len(Flow)
  BY <1>3
<1>13. QED
  BY <1>2, <1>6, <1>9, <1>10, <1>11, <1>12

\* The line that is printed is in flight no longer, and nothing else is gone.
LEMMA EmitTakesLine ==
  ASSUME Typed, Typed', OrderInv, LinesInv, EmitLine, NEW x, x = <<Flow[1][1], Flow[1][2]>>
  PROVE  /\ x \in Due /\ Due' = Due \ {x} /\ Torn' = {}
         /\ \A y \in Due : y[1] = x[1] => x[2] <= y[2]
<1> DEFINE c == Flow[1]
           n == FirstEnd
<1>1. /\ c \in Cell /\ n \in Nat /\ 1 <= n /\ n <= Len(Flow) /\ c[3] + n - 1 = Size(c[1], c[2])
      /\ \A i \in 1..n : Flow[i] = <<c[1], c[2], c[3] + i - 1>>
  BY EmittedToken
<1>2. /\ Flow \in Seq(Cell) /\ Flow' \in Seq(Cell) /\ n + Len(Flow') = Len(Flow)
      /\ \A i \in 1..Len(Flow') : Flow'[i] = Flow[n + i]
  BY EmitLineFlow, FlowTyped
<1>3. /\ Sorted(Flow) /\ LinesOf(Flow) \cap Unwritten = {}
      /\ \A i \in DOMAIN Flow : Flow[i] \in Cell /\ Flow[i][2] < line[Flow[i][1]]
  BY FlowIsWritten
<1>4. x = <<c[1], c[2]>>
  OBVIOUS
<1> HIDE DEF c, n
<1>5. /\ Len(Flow) \in Nat /\ DOMAIN Flow = 1..Len(Flow)
      /\ Len(Flow') \in Nat /\ DOMAIN Flow' = 1..Len(Flow')
  BY <1>2
<1>6. 1 \in 1..n /\ n \in 1..n /\ 1 \in DOMAIN Flow /\ n \in DOMAIN Flow /\ c = Flow[1]
  BY <1>1, <1>5 DEF c
<1>7. x \in LinesOf(Flow)
  BY <1>4, <1>6 DEF LinesOf
<1>8. \A i \in 1..Len(Flow') : n + i \in DOMAIN Flow /\ n < n + i
  BY <1>1, <1>2, <1>5
<1>9. ASSUME NEW i \in 1..Len(Flow') PROVE <<Flow'[i][1], Flow'[i][2]>> # x
  <2>1. PICK d : d = Flow[n + i]
    OBVIOUS
  <2>2. d \in Cell /\ Flow'[i] = d
    BY <1>2, <1>3, <1>8, <2>1
  <2>3. Before(Flow[n], d)
    BY <1>3, <1>6, <1>8, <2>1 DEF Sorted
  <2>4. Flow[n] = <<c[1], c[2], Size(c[1], c[2])>>
    BY <1>1, <1>6
  <2>5. SUFFICES ASSUME d[1] = c[1], d[2] = c[2] PROVE FALSE
    BY <1>4, <2>2
  <2>6. d[2] \in Nat /\ d[3] \in Nat /\ d[3] <= Size(d[1], d[2]) /\ Size(d[1], d[2]) \in Nat
    BY <2>2, CellTyped DEF Cell
  <2>7. d[2] < d[2] \/ Size(d[1], d[2]) < d[3]
    BY <2>3, <2>4, <2>5 DEF Before
  <2>8. QED
    BY <2>6, <2>7
<1>10. ASSUME NEW i \in DOMAIN Flow, <<Flow[i][1], Flow[i][2]>> # x
       PROVE  \E k \in 1..Len(Flow') : Flow'[k] = Flow[i]
  <2>1. i \notin 1..n
    <3>1. ASSUME i \in 1..n PROVE FALSE
      <4>1. Flow[i] = <<c[1], c[2], c[3] + i - 1>>
        BY <1>1, <3>1
      <4>2. QED
        BY <1>4, <1>10, <4>1
    <3>2. QED
      BY <3>1
  <2>2. i - n \in 1..Len(Flow') /\ n + (i - n) = i
    BY <1>1, <1>2, <1>5, <2>1
  <2>3. QED
    BY <1>2, <2>2
<1>11. LinesOf(Flow') = LinesOf(Flow) \ {x}
  <2>1. ASSUME NEW i \in 1..Len(Flow')
        PROVE  <<Flow'[i][1], Flow'[i][2]>> \in LinesOf(Flow) /\ <<Flow'[i][1], Flow'[i][2]>> # x
    <3>1. Flow'[i] = Flow[n + i] /\ n + i \in DOMAIN Flow
      BY <1>2, <1>8
    <3>2. QED
      BY <1>9, <3>1 DEF LinesOf
  <2>2. ASSUME NEW i \in DOMAIN Flow, <<Flow[i][1], Flow[i][2]>> # x
        PROVE  <<Flow[i][1], Flow[i][2]>> \in LinesOf(Flow')
    <3>1. PICK k \in 1..Len(Flow') : Flow'[k] = Flow[i]
      BY <1>10, <2>2
    <3>2. QED
      BY <1>5, <3>1 DEF LinesOf
  <2>3. LinesOf(Flow') \subseteq LinesOf(Flow) \ {x}
    BY <1>5, <2>1 DEF LinesOf
  <2>4. LinesOf(Flow) \ {x} \subseteq LinesOf(Flow')
    <3> SUFFICES ASSUME NEW y \in LinesOf(Flow), y # x PROVE y \in LinesOf(Flow')
      OBVIOUS
    <3>1. PICK i \in DOMAIN Flow : y = <<Flow[i][1], Flow[i][2]>>
      BY DEF LinesOf
    <3>2. QED
      BY <2>2, <3>1
  <2>5. QED
    BY <2>3, <2>4
<1>12. Unwritten' = Unwritten
  BY ConfigFixed DEF EmitLine, config, Unwritten, Lines
<1>13. Due = Unwritten \cup LinesOf(Flow) /\ Due' = Unwritten' \cup LinesOf(Flow')
  BY DueIs, DueAfter
<1>14. x \in Due /\ Due' = Due \ {x}
  BY <1>3, <1>7, <1>11, <1>12, <1>13
<1>15. Torn' = {}
  <2>1. CASE Flow' = <<>>
    BY <2>1 DEF Torn
  <2>2. CASE Flow' # <<>>
    <3>1. Len(Flow') # 0
      BY <1>2, <2>2, EmptySeq
    <3>2. 1 \in 1..Len(Flow') /\ n + 1 \in DOMAIN Flow
      BY <1>5, <1>8, <3>1
    <3>3. Follows(Flow, n)
      BY <1>6 DEF LinesInv, Chained
    <3>4. IsNewline(Flow[n])
      BY <1>1, <1>6 DEF IsNewline
    <3>5. Flow[n + 1][3] = 1
      BY <3>2, <3>3, <3>4 DEF Follows
    <3>6. Flow'[1][3] = 1
      BY <1>2, <3>2, <3>5
    <3>7. QED
      BY <3>6 DEF Torn
  <2>3. QED
    BY <2>1, <2>2
<1>16. ASSUME NEW y \in Due, y[1] = x[1] PROVE x[2] <= y[2]
  <2>1. c[1] \in App /\ c[2] \in Nat /\ x[1] = c[1] /\ x[2] = c[2] /\ c[2] < line[c[1]] /\ line[c[1]] \in Nat
    BY <1>1, <1>3, <1>4, <1>6 DEF Cell, Typed
  <2>2. CASE y \in Unwritten
    <3>1. PICK a \in active : \E l \in Lines(a) : y = <<a, l>> /\ l >= line[a]
      BY <2>2, DueIs
    <3>2. PICK l \in Lines(a) : y = <<a, l>> /\ l >= line[a]
      BY <3>1
    <3>3. a = c[1] /\ l \in Nat /\ y[2] = l
      <4>1. a \in App
        BY DEF Typed
      <4>2. l \in Nat
        BY <4>1, ScriptTyped
      <4>3. QED
        BY <1>16, <2>1, <3>2, <4>2
    <3>4. QED
      BY <2>1, <3>2, <3>3
  <2>3. CASE y \in LinesOf(Flow)
    <3>1. PICK i \in DOMAIN Flow : y = <<Flow[i][1], Flow[i][2]>>
      BY <2>3 DEF LinesOf
    <3>2. PICK d : d = Flow[i]
      OBVIOUS
    <3>3. d \in Cell /\ d[2] \in Nat
      BY <1>3, <3>2 DEF Cell
    <3>4. i = 1 \/ 1 < i
      BY <1>5
    <3>5. i = 1 => d = c
      BY <1>6, <3>2
    <3>6. 1 < i => Before(c, d)
      BY <1>3, <1>6, <3>2 DEF Sorted
    <3>7. y[1] = d[1] /\ y[2] = d[2]
      BY <3>1, <3>2
    <3>8. d[1] = c[1]
      BY <1>16, <2>1, <3>7
    <3>9. c[2] = d[2] \/ c[2] < d[2]
      BY <3>4, <3>5, <3>6, <3>8 DEF Before
    <3>10. QED
      BY <2>1, <3>3, <3>7, <3>9
  <2>4. QED
    BY <1>13, <2>2, <2>3
<1>17. QED
  BY <1>14, <1>15, <1>16

LEMMA AtPlacesKept == \A s, I : Log!AtPlaces(s, I) = AtPlaces(s, I)
  BY DEF Log!AtPlaces, AtPlaces, Log!Cardinality, Cardinality

\* What is printed of a line is its entry in the log.
LEMMA EntryPrinted ==
  ASSUME Typed, LinesInv, EmitLine, NEW c, c = Flow[1]
  PROVE  Written(Token) = Log!Entry(<<c[1], c[2]>>, c[3])
<1> DEFINE n      == FirstEnd
           text   == Script[c[1]][c[2]]
           from   == c[3]
           size   == text.size
           rest   == [i \in 1..(size - from) |-> <<c[1], c[2], from + i - 1>>]
           hidden == IF text.secret \subseteq from..size THEN text.secret ELSE {}
           shown  == {i \in DOMAIN rest : rest[i][3] \notin hidden}
<1>1. /\ c \in Cell /\ n \in Nat /\ 1 <= n /\ c[3] + n - 1 = Size(c[1], c[2])
      /\ Token \in Seq(Cell) /\ Len(Token) = n - 1
      /\ \A i \in 1..(n - 1) : Token[i] = <<c[1], c[2], c[3] + i - 1>>
  BY EmittedToken
<1>2. c[1] \in App /\ c[2] \in Lines(c[1])
  BY <1>1 DEF Cell
<1>3. /\ from \in Nat /\ 1 <= from /\ size \in Nat /\ size = Size(c[1], c[2])
      /\ text.secret \subseteq 1..(size - 1)
  BY <1>1, <1>2, CellTyped, ScriptTyped DEF Size
<1> HIDE DEF n, text, from, size, hidden
<1>4. from + n - 1 = size /\ from = c[3] /\ text = Script[c[1]][c[2]] /\ size = text.size
  BY <1>1, <1>3 DEF from, text, size
<1>5. size - from = n - 1
  BY <1>1, <1>3, <1>4
<1>6. /\ Token = rest /\ DOMAIN rest = 1..(n - 1)
      /\ \A i \in 1..(n - 1) : rest[i] = <<c[1], c[2], from + i - 1>>
  <2>1. DOMAIN rest = 1..(n - 1) /\ \A i \in 1..(n - 1) : rest[i] = <<c[1], c[2], from + i - 1>>
    BY <1>5
  <2>2. rest \in Seq(Cell) /\ Len(rest) = n - 1
    <3>1. \A i \in 1..(n - 1) : rest[i] \in Cell
      <4>1. \A i \in 1..(n - 1) : Token[i] = rest[i]
        BY <1>1, <1>4, <2>1
      <4>2. DOMAIN Token = 1..(n - 1)
        BY <1>1
      <4>3. QED
        BY <1>1, <4>1, <4>2, ElementOfSeq
    <3>2. n - 1 \in Nat
      BY <1>1
    <3> HIDE DEF rest
    <3>3. rest = [i \in 1..(n - 1) |-> rest[i]]
      <4>1. rest = [i \in DOMAIN rest |-> rest[i]]
        BY DEF rest
      <4>2. QED
        BY <2>1, <4>1
    <3>4. [i \in 1..(n - 1) |-> rest[i]] \in Seq(Cell) /\ Len([i \in 1..(n - 1) |-> rest[i]]) = n - 1
      BY <3>1, <3>2
    <3>5. QED
      BY <3>3, <3>4
  <2>3. Token = rest
    <3> HIDE DEF rest
    <3>1. \A i \in 1..Len(Token) : Token[i] = rest[i]
      BY <1>1, <1>4, <2>1
    <3>2. QED
      BY <1>1, <2>2, <3>1, SeqEqual
  <2>4. QED
    BY <2>1, <2>3
<1> HIDE DEF rest
<1>7. ASSUME NEW i \in 1..(n - 1) PROVE InMatch(rest, i) <=> rest[i][3] \in hidden
  <2>1. /\ rest[i][1] = c[1] /\ rest[i][2] = c[2] /\ rest[i][3] = from + i - 1
        /\ rest[i] = <<c[1], c[2], from + i - 1>> /\ i \in Nat /\ from + i - 1 \in Nat
    BY <1>3, <1>6
  <2>2. \A p \in text.secret : /\ p \in Nat /\ p <= size - 1
                               /\ i + p - (from + i - 1) = (p + 1) - from
    BY <1>3, <2>1
  <2>3. ASSUME NEW p \in text.secret
        PROVE  /\ (p + 1) - from \in 1..(n - 1) <=> p \in from..size
               /\ p \in from..size => rest[(p + 1) - from] = <<c[1], c[2], p>>
    <3>1. (p + 1) - from \in 1..(n - 1) <=> p \in from..size
      <4>1. from \in Int /\ size \in Int /\ p \in Int /\ p <= size - 1
        BY <1>3, <2>2
      <4>2. (p + 1) - from \in 1..(size - from) <=> p \in from..size
        BY <4>1
      <4>3. QED
        BY <1>5, <4>2
    <3>2. from + ((p + 1) - from) - 1 = p
      BY <1>3, <2>2
    <3>3. QED
      BY <1>6, <3>1, <3>2
  <2>4. InMatch(rest, i) <=> /\ from + i - 1 \in text.secret
                             /\ \A p \in text.secret : /\ i + p - (from + i - 1) \in 1..(n - 1)
                                                       /\ rest[i + p - (from + i - 1)] = <<c[1], c[2], p>>
    BY <1>4, <1>6, <2>1 DEF InMatch, IsSecret
  <2>5. InMatch(rest, i) <=> from + i - 1 \in text.secret /\ text.secret \subseteq from..size
    BY <2>2, <2>3, <2>4
  <2>6. QED
    BY <2>1, <2>5 DEF hidden
<1>8. {i \in DOMAIN rest : ~InMatch(rest, i)} = shown
  BY <1>6, <1>7
<1>9. MaskLine(Token) = AtPlaces(rest, shown)
  BY <1>6, <1>8 DEF MaskLine
<1>10. Log!Entry(<<c[1], c[2]>>, c[3]) =
          IF mode = "drop" THEN [drop |-> TRUE, cells |-> <<>>]
                           ELSE [drop |-> FALSE, cells |-> Log!AtPlaces(rest, shown)]
  BY DEF Log!Entry, rest, hidden, text, from, size
<1>11. QED
  BY <1>9, <1>10, AtPlacesKept DEF Written

\* A step that the log does not show.
LEMMA LogStands ==
  ASSUME Typed, Typed', UNCHANGED <<mode, active, line, out, crashes>>, Flow' = Flow,
         HasReader' = HasReader
  PROVE  UNCHANGED Log!lvars
<1>1. Due' = Due /\ Torn' = Torn
  BY SameDue
<1>2. QED
  BY <1>1 DEF Log!lvars

\* The scanner opens the FIFO.
LEMMA LogListen ==
  ASSUME Typed, Typed', UNCHANGED <<mode, active, line, out, crashes>>, Flow' = Flow,
         ~HasReader, HasReader'
  PROVE  Log!Listen
<1>1. Due' = Due /\ Torn' = Torn
  BY SameDue
<1>2. HasReader' = TRUE
  OBVIOUS
<1>3. QED
  BY <1>1, <1>2 DEF Log!Listen

\* A step without a reader, after which the flow is as it was or gone.
LEMMA LogLoses ==
  ASSUME Typed, Typed', OrderInv, LinesInv, UNCHANGED <<mode, out, crashes>>, ~HasReader',
         Flow' \in {Flow, <<>>}, Unwritten' \subseteq Unwritten
  PROVE  Log!Lose
<1>1. Due = Unwritten \cup LinesOf(Flow) /\ Due' = Unwritten' \cup LinesOf(Flow')
  BY DueIs, DueAfter
<1>2. LinesOf(<<>>) = {}
  BY DEF LinesOf
<1>3. Due' \subseteq Due
  BY <1>1, <1>2
<1>4. Torn' = Torn \cap Due'
  <2>1. Torn \subseteq LinesOf(Flow) /\ LinesOf(Flow) \cap Unwritten = {}
    BY DueIs, FlowIsWritten
  <2>2. CASE Flow' = Flow
    <3>1. Torn' = Torn
      BY <2>2 DEF Torn
    <3>2. QED
      BY <1>1, <2>1, <2>2, <3>1
  <2>3. CASE Flow' = <<>>
    <3>1. Torn' = {}
      BY <2>3 DEF Torn
    <3>2. QED
      BY <1>1, <1>2, <2>1, <2>3, <3>1
  <2>4. QED
    BY <2>2, <2>3
<1>5. HasReader' = FALSE
  OBVIOUS
<1>6. QED
  BY <1>3, <1>4, <1>5 DEF Log!Lose, Log!Forget

LEMMA LogCrash ==
  ASSUME Typed, Typed', Crash
  PROVE  Log!Kill
<1>1. /\ UNCHANGED <<mode, active, line, out>> /\ crashes' = crashes + 1
      /\ buf' = <<>> /\ pipe' \in {pipe, <<>>} /\ sidecar' = "failed"
  BY DEF Crash, Exit, config
<1>2. HasReader' = FALSE
  BY <1>1 DEF HasReader
<1>3. Unwritten' = Unwritten
  BY <1>1 DEF Unwritten, Lines
<1>4. LinesOf(Flow') \subseteq LinesOf(Flow)
  <2>1. CASE pipe' = <<>>
    <3>1. Flow' = <<>>
      BY <1>1, <2>1, EmptySeq, ConcatEmptySeq DEF Flow
    <3>2. QED
      BY <3>1 DEF LinesOf
  <2>2. CASE pipe' = pipe
    <3>1. Flow' = pipe
      BY <1>1, <2>2, ConcatEmptySeq DEF Flow, Typed
    <3>2. /\ DOMAIN pipe = 1..Len(pipe) /\ DOMAIN Flow = 1..(Len(buf) + Len(pipe))
          /\ Len(buf) \in Nat /\ Len(pipe) \in Nat
          /\ \A i \in 1..Len(pipe) : Flow[Len(buf) + i] = pipe[i]
      BY FlowTyped
    <3>3. \A i \in DOMAIN pipe : Len(buf) + i \in DOMAIN Flow
      BY <3>2
    <3>4. QED
      BY <3>1, <3>2, <3>3 DEF LinesOf
  <2>3. QED
    BY <1>1, <2>1, <2>2
<1>5. Due = Unwritten \cup LinesOf(Flow) /\ Due' = Unwritten' \cup LinesOf(Flow') /\ Torn' \subseteq LinesOf(Flow')
  BY DueIs, DueAfter
<1>6. Due' \subseteq Due /\ Torn' \subseteq Due'
  BY <1>3, <1>4, <1>5
<1>7. \A x, y \in Torn' : x = y
  BY DEF Torn
<1>8. QED
  BY <1>1, <1>2, <1>6, <1>7 DEF Log!Kill, Log!Forget

LEMMA LogEmit ==
  ASSUME Typed, Typed', OrderInv, LinesInv, EmitLine
  PROVE  Log!Next
<1> DEFINE c == Flow[1]
           x == <<c[1], c[2]>>
           from == c[3]
<1>1. x \in Due /\ Due' = Due \ {x} /\ Torn' = {} /\ \A y \in Due : y[1] = x[1] => x[2] <= y[2]
  BY EmitTakesLine
<1>2. /\ out' = Append(out, Written(Token)) /\ sidecar = "scan"
      /\ UNCHANGED <<mode, sidecar, crashes>>
  BY EmitLinePrints DEF EmitLine, config
<1>3. Written(Token) = Log!Entry(x, from)
  BY EntryPrinted
<1>4. /\ c \in Cell /\ FirstEnd \in Nat /\ 1 <= FirstEnd /\ FirstEnd <= Len(Flow)
  BY EmittedToken
<1>5. Flow # <<>>
  BY <1>4, EmptySeq
<1>6. Torn = IF from = 1 THEN {} ELSE {x}
  BY <1>5 DEF Torn
<1>7. from \in 1..Script[x[1]][x[2]].size
  BY <1>4, CellTyped DEF Size, Cell
<1> HIDE DEF x, from, c
<1>8. HasReader /\ HasReader' = HasReader
  BY <1>2 DEF HasReader
<1>9. out' = Log!Append(out, Log!Entry(x, from))
  BY <1>2, <1>3 DEF Log!Append, Append
<1>10. Log!Emit(x, from)
  BY <1>1, <1>2, <1>6, <1>8, <1>9 DEF Log!Emit
<1>11. QED
  BY <1>1, <1>7, <1>10 DEF Log!Next

\* What a step of the pipe is for the log.
LEMMA LogStep ==
  ASSUME Typed, Typed', OrderInv, LinesInv, Atomic, [Next]_vars
  PROVE  [Log!Next]_Log!lvars
<1>1. mode' = mode /\ active' = active
  BY ConfigFixed DEF config
<1>2. ASSUME UNCHANGED <<line, out, crashes>>, Flow' = Flow, HasReader' = HasReader
      PROVE  [Log!Next]_Log!lvars
  BY <1>1, <1>2, LogStands
<1>3. ASSUME UNCHANGED <<line, out, crashes>>, Flow' = Flow, ~HasReader, HasReader'
      PROVE  [Log!Next]_Log!lvars
  BY <1>1, <1>3, LogListen DEF Log!Next
<1>4. ASSUME UNCHANGED <<out, crashes>>, ~HasReader', Flow' \in {Flow, <<>>}, Unwritten' \subseteq Unwritten
      PROVE  [Log!Next]_Log!lvars
  BY <1>1, <1>4, LogLoses DEF Log!Next
<1>5. line' = line => Unwritten' \subseteq Unwritten
  BY <1>1 DEF Unwritten, Lines
<1>6. ASSUME NEW a \in App, AppStep(a) \/ End(a) PROVE [Log!Next]_Log!lvars
  <2>1. CASE OpenWrite(a)
    <3>1. UNCHANGED <<line, out, crashes>> /\ Flow' = Flow
      BY <2>1 DEF OpenWrite, Flow
    <3>2. (HasReader' = HasReader) \/ (~HasReader /\ HasReader')
      BY <2>1 DEF OpenWrite, HasReader
    <3>3. QED
      BY <1>2, <1>3, <3>1, <3>2
  <2>2. CASE Write(a)
    <3>1. /\ a \in active /\ line[a] \in Lines(a) /\ NextLine(a)
          /\ Count(a) = Size(a, line[a]) /\ Count(a) \in Nat /\ 1 <= Count(a)
          /\ Chunk(a) \in Seq(Cell) /\ Len(Chunk(a)) = Count(a)
          /\ \A i \in 1..Count(a) : Chunk(a)[i] = <<a, line[a], i>>
          /\ Flow' = Flow \o Chunk(a)
      BY <2>2, AtomicWrite
    <3>2. UNCHANGED <<out, crashes>> /\ HasReader' = HasReader
      BY <2>2 DEF Write, HasReader
    <3> DEFINE x == <<a, line[a]>>
               s == Chunk(a)
               n == Len(Flow)
               m == Count(a)
    <3>3. /\ Flow \in Seq(Cell) /\ n \in Nat /\ DOMAIN Flow = 1..n /\ DOMAIN s = 1..m
          /\ DOMAIN Flow' = 1..(n + m)
          /\ \A i \in 1..(n + m) : Flow'[i] = IF i <= n THEN Flow[i] ELSE s[i - n]
      <4>1. Flow \in Seq(Cell) /\ n \in Nat /\ DOMAIN Flow = 1..n
        BY FlowTyped
      <4>2. QED
        BY <3>1, <4>1, ConcatProperties
    <3>4. /\ m \in Nat /\ 1 <= m /\ \A i \in 1..m : s[i] = <<a, line[a], i>>
          /\ x = <<a, line[a]>>
      BY <3>1
    <3> HIDE DEF s, n, m, x
    <3>5. ASSUME NEW i \in 1..(n + m)
          PROVE  (i \in 1..n /\ Flow'[i] = Flow[i]) \/ <<Flow'[i][1], Flow'[i][2]>> = x
      <4>1. CASE i <= n
        BY <3>3, <4>1
      <4>2. CASE ~(i <= n)
        <5>1. i - n \in 1..m
          BY <3>3, <3>4, <4>2
        <5>2. Flow'[i] = <<a, line[a], i - n>>
          BY <3>3, <3>4, <4>2, <5>1
        <5>3. QED
          BY <3>4, <5>2
      <4>3. QED
        BY <4>1, <4>2
    <3>6. \A i \in 1..n : i \in 1..(n + m) /\ Flow'[i] = Flow[i]
      BY <3>3, <3>4
    <3>7. n + 1 \in 1..(n + m) /\ Flow'[n + 1] = <<a, line[a], 1>>
      <4>1. n + 1 \in 1..(n + m) /\ ~(n + 1 <= n) /\ (n + 1) - n = 1 /\ 1 \in 1..m
        BY <3>3, <3>4
      <4>2. QED
        BY <3>3, <3>4, <4>1
    <3>8. LinesOf(Flow') = LinesOf(Flow) \cup {x}
      <4>1. LinesOf(Flow') \subseteq LinesOf(Flow) \cup {x}
        <5> SUFFICES ASSUME NEW y \in LinesOf(Flow') PROVE y \in LinesOf(Flow) \cup {x}
          OBVIOUS
        <5>1. PICK i \in 1..(n + m) : y = <<Flow'[i][1], Flow'[i][2]>>
          BY <3>3 DEF LinesOf
        <5>2. QED
          BY <3>3, <3>5, <5>1 DEF LinesOf
      <4>2. LinesOf(Flow) \subseteq LinesOf(Flow')
        <5> SUFFICES ASSUME NEW i \in 1..n PROVE <<Flow[i][1], Flow[i][2]>> \in LinesOf(Flow')
          BY <3>3 DEF LinesOf
        <5>1. QED
          BY <3>3, <3>6 DEF LinesOf
      <4>3. x \in LinesOf(Flow')
        <5>1. <<Flow'[n + 1][1], Flow'[n + 1][2]>> = x
          BY <3>4, <3>7
        <5>2. QED
          BY <3>3, <3>7, <5>1 DEF LinesOf
      <4>4. QED
        BY <4>1, <4>2, <4>3
    <3>9. Due' = Due
      <4>1. x \in Unwritten /\ Unwritten' = Unwritten \ {x}
        BY <3>1, <3>4, ConfigFixed, UnwrittenMoves
      <4>2. Due = Unwritten \cup LinesOf(Flow) /\ Due' = Unwritten' \cup LinesOf(Flow')
        BY DueIs, DueAfter
      <4>3. QED
        BY <3>8, <4>1, <4>2
    <3>10. Torn' = Torn
      <4>1. Flow' # <<>>
        <5>1. DOMAIN Flow' # {}
          BY <3>3, <3>7
        <5>2. QED
          BY <5>1
      <4>2. CASE Flow = <<>>
        <5>1. n = 0
          BY <4>2 DEF n
        <5>2. Flow'[1][3] = 1
          BY <3>7, <5>1
        <5>3. QED
          BY <4>2, <5>2 DEF Torn
      <4>3. CASE Flow # <<>>
        <5>1. n # 0
          BY <3>3, <4>3, EmptySeq DEF n
        <5>2. Flow'[1] = Flow[1]
          BY <3>3, <3>6, <5>1
        <5>3. QED
          BY <4>1, <4>3, <5>2 DEF Torn
      <4>4. QED
        BY <4>2, <4>3
    <3>11. QED
      BY <1>1, <3>2, <3>9, <3>10 DEF Log!lvars
  <2>3. CASE BrokenPipe(a)
    <3>1. /\ UNCHANGED <<out, crashes>> /\ ~HasReader' /\ line[a] \in Lines(a) /\ NextLine(a)
          /\ buf = <<>> /\ buf' = <<>> /\ pipe' \in {pipe, <<>>} /\ app[a] = "open"
      BY <2>3 DEF BrokenPipe, HasReader, Typed
    <3>2. Flow = pipe /\ Flow' = pipe'
      BY <3>1, ConcatEmptySeq DEF Typed, Flow
    <3>3. a \in active
      BY <3>1 DEF Typed
    <3>4. Unwritten' \subseteq Unwritten
      BY <3>1, <3>3, ConfigFixed, UnwrittenMoves
    <3>5. QED
      BY <1>4, <3>1, <3>2, <3>4
  <2>4. CASE End(a)
    <3>1. sent[a] = 0
      BY DEF LinesInv
    <3>2. UNCHANGED <<line, out, crashes>> /\ HasReader' = HasReader
      BY <2>4, <3>1, EndIs DEF HasReader
    <3>3. CASE ~HasReader
      <4>1. buf = <<>> /\ buf' = <<>> /\ pipe' \in {pipe, <<>>}
        BY <2>4, <3>3, EndIs DEF HasReader, Typed
      <4>2. Flow = pipe /\ Flow' = pipe'
        BY <4>1, ConcatEmptySeq DEF Typed, Flow
      <4>3. QED
        BY <1>4, <1>5, <3>2, <3>3, <4>1, <4>2
    <3>4. CASE HasReader
      <4>1. Flow' = Flow
        BY <2>4, <3>4, EndIs DEF Flow
      <4>2. QED
        BY <1>2, <3>2, <4>1
    <3>5. QED
      BY <3>3, <3>4
  <2>5. QED
    BY <1>6, <2>1, <2>2, <2>3, <2>4 DEF AppStep
<1>7. CASE OpenRead
  <2>1. UNCHANGED <<line, out, crashes>> /\ Flow' = Flow
    BY <1>7 DEF OpenRead, Flow
  <2>2. (HasReader' = HasReader) \/ (~HasReader /\ HasReader')
    BY <1>7 DEF OpenRead, HasReader
  <2>3. QED
    BY <1>2, <1>3, <2>1, <2>2
<1>8. CASE Read
  <2>1. UNCHANGED <<line, out, crashes>> /\ Flow' = Flow /\ HasReader' = HasReader
    BY <1>8, ReadKeepsFlow DEF Read, HasReader
  <2>2. QED
    BY <1>2, <2>1
<1>9. CASE EmitLine
  BY <1>9, LogEmit
<1>10. CASE TooLong
  <2>1. LineEnd = {} /\ Len(buf) = MaxLine /\ MaxLine \in Nat /\ MaxLine >= 1
    BY <1>10, SizeAssumption DEF TooLong
  <2>2. buf # <<>>
    BY <2>1, EmptySeq
  <2>3. QED
    BY <2>1, <2>2, NewlineInSight
<1>11. CASE EndOfFile
  <2>1. buf = <<>>
    BY <1>11, NewlineInSight DEF EndOfFile
  <2>2. UNCHANGED <<line, out, crashes>> /\ Flow' = Flow /\ HasReader' = HasReader
    BY <1>11, <2>1 DEF EndOfFile, HasReader, Flow
  <2>3. QED
    BY <1>2, <2>2
<1>12. CASE Return
  <2>1. /\ UNCHANGED <<line, out, crashes>> /\ ~HasReader'
        /\ buf = <<>> /\ buf' = <<>> /\ pipe' \in {pipe, <<>>}
    BY <1>12 DEF Return, Exit, HasReader, Typed
  <2>2. Flow = pipe /\ Flow' = pipe'
    BY <2>1, ConcatEmptySeq DEF Typed, Flow
  <2>3. QED
    BY <1>4, <1>5, <2>1, <2>2
<1>13. CASE Crash
  BY <1>13, LogCrash DEF Log!Next
<1>14. CASE Restart
  <2>1. UNCHANGED <<line, out, crashes>> /\ Flow' = Flow /\ HasReader' = HasReader
    BY <1>14 DEF Restart, HasReader, Flow
  <2>2. QED
    BY <1>2, <2>1
<1>15. CASE UNCHANGED vars
  <2>1. UNCHANGED <<line, out, crashes>> /\ Flow' = Flow /\ HasReader' = HasReader
    BY <1>15 DEF vars, HasReader, Flow
  <2>2. QED
    BY <1>2, <2>1
<1>16. QED
  BY <1>6, <1>7, <1>8, <1>9, <1>10, <1>11, <1>12, <1>13, <1>14, <1>15 DEF Next, SidecarStep

LEMMA LogInit ==
  ASSUME Init
  PROVE  Log!Init /\ LinesInv
<1>1. Flow = <<>>
  BY ConcatEmptySeq, EmptySeq DEF Init, Flow
<1>2. LinesInv
  BY <1>1 DEF Init, LinesInv, Chained
<1>3. active \in SUBSET App /\ line = [a \in App |-> 1]
  BY DEF Init
<1>4. Due = {x \in Log!Line : x[1] \in active}
  <2>1. Due = Unwritten
    BY <1>1, TypedInit, DueIs DEF LinesOf
  <2>2. ASSUME NEW x, x \in Unwritten PROVE x \in Log!Line /\ x[1] \in active
    <3>1. PICK a \in active : \E l \in Lines(a) : x = <<a, l>> /\ l >= line[a]
      BY <2>2, TypedInit, DueIs
    <3>2. QED
      BY <1>3, <3>1 DEF Log!Line, Lines
  <2>3. ASSUME NEW x, x \in Log!Line, x[1] \in active PROVE x \in Unwritten
    <3>1. PICK a \in App : x \in {a} \X DOMAIN Script[a]
      BY <2>3 DEF Log!Line
    <3>2. PICK l \in Lines(a) : x = <<a, l>>
      BY <3>1 DEF Lines
    <3>3. l >= line[a]
      <4>1. l \in 1..Len(Script[a]) /\ Len(Script[a]) \in Nat
        BY ScriptTyped
      <4>2. QED
        BY <1>3, <4>1
    <3>4. QED
      BY <2>3, <3>2, <3>3, TypedInit, DueIs
  <2>4. QED
    BY <2>1, <2>2, <2>3
<1>5. Torn = {} /\ HasReader = FALSE
  BY <1>1 DEF Torn, Init, HasReader
<1>6. QED
  BY <1>2, <1>3, <1>4, <1>5 DEF Init, Log!Init

(* In a pod whose every line fits the scanner's buffer and goes out in one   *)
(* write, what the sidecar prints is the abstract log: whole lines, masked,  *)
(* in order and at most once, lost only while or when nobody reads, and at   *)
(* most one of them torn by a kill (the loops of processPipe and dropPipe).  *)
THEOREM ImplementsLog == Spec => LogSpec
<1> DEFINE IInv == Typed /\ OrderInv /\ (Atomic => LinesInv)
<1>1. Init => IInv /\ (Atomic => Log!Init)
  BY TypedInit, OrderInit, LogInit
<1>2. [Next]_vars => (Atomic' <=> Atomic)
  BY ConfigFixed DEF config, Atomic, Lines, Size
<1>3. IInv /\ [Next]_vars => IInv'
  BY <1>2, TypedStep, OrderStep, LinesStep
<1>4. IInv /\ IInv' /\ [Next]_vars => [Atomic => Log!Next]_(Log!lvars)
  BY LogStep
<1> HIDE DEF IInv
<1>5. QED
  BY <1>1, <1>3, <1>4, PTL DEF Spec, LogSpec
=============================================================================
