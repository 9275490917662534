-------------------------- MODULE LogBatcherProofs -------------------------
(***************************************************************************)
(* The log batcher keeps its rows in order and implements LogPipe, for any *)
(* rows, batch size and bounds and whatever inserts fail.                  *)
(***************************************************************************)
EXTENDS LogBatcher, SequenceTheorems, TLAPS

LEMMA TailAppend ==
  ASSUME NEW s \in Seq(Rows), NEW k \in 0 .. Len(s), NEW r \in Rows
  PROVE  SubSeq(Append(s, r), k + 1, Len(s) + 1) = Append(SubSeq(s, k + 1, Len(s)), r)
<1> DEFINE a == Append(s, r)
           b == SubSeq(s, k + 1, Len(s))
<1>1. Len(s) \in Nat /\ \A i \in 1 .. Len(s) : s[i] \in Rows
  BY LenProperties, ElementOfSeq
<1>2. /\ a \in Seq(Rows) /\ Len(a) = Len(s) + 1 /\ a[Len(s) + 1] = r
      /\ \A i \in 1 .. Len(s) : a[i] = s[i]
  BY AppendProperties
<1>3. \A i \in k + 1 .. Len(s) + 1 : a[i] \in Rows
  BY <1>1, <1>2, ElementOfSeq
<1>4. /\ b \in Seq(Rows) /\ Len(b) = Len(s) - k
      /\ \A i \in 1 .. Len(s) - k : b[i] = s[k + i]
  <2>1. \A i \in k + 1 .. Len(s) : s[i] \in Rows
    BY <1>1
  <2>2. k + 1 \in Int /\ Len(s) \in Int
    BY <1>1
  <2>3. /\ b \in Seq(Rows) /\ Len(b) = IF k + 1 <= Len(s) THEN Len(s) - (k + 1) + 1 ELSE 0
        /\ \A i \in 1 .. Len(s) - (k + 1) + 1 : b[i] = s[k + 1 + i - 1]
    BY <2>1, <2>2, SubSeqProperties
  <2> QED BY <1>1, <2>3
<1> HIDE DEF a, b
<1>5. /\ SubSeq(a, k + 1, Len(s) + 1) \in Seq(Rows)
      /\ Len(SubSeq(a, k + 1, Len(s) + 1)) = Len(s) - k + 1
      /\ \A i \in 1 .. Len(s) - k + 1 : SubSeq(a, k + 1, Len(s) + 1)[i] = a[k + i]
  <2>1. k + 1 \in Int /\ Len(s) + 1 \in Int
    BY <1>1
  <2>2. /\ SubSeq(a, k + 1, Len(s) + 1) \in Seq(Rows)
        /\ Len(SubSeq(a, k + 1, Len(s) + 1))
             = IF k + 1 <= Len(s) + 1 THEN Len(s) + 1 - (k + 1) + 1 ELSE 0
        /\ \A i \in 1 .. Len(s) + 1 - (k + 1) + 1 :
             SubSeq(a, k + 1, Len(s) + 1)[i] = a[k + 1 + i - 1]
    BY <1>3, <2>1, SubSeqProperties
  <2> QED BY <1>1, <2>2
<1>6. /\ Append(b, r) \in Seq(Rows) /\ Len(Append(b, r)) = Len(s) - k + 1
      /\ Append(b, r)[Len(s) - k + 1] = r
      /\ \A i \in 1 .. Len(s) - k : Append(b, r)[i] = b[i]
  BY <1>4, AppendProperties
<1>7. \A i \in 1 .. Len(s) - k + 1 : SubSeq(a, k + 1, Len(s) + 1)[i] = Append(b, r)[i]
  <2> SUFFICES ASSUME NEW i \in 1 .. Len(s) - k + 1
               PROVE  a[k + i] = Append(b, r)[i]
    BY <1>5
  <2>1. CASE i = Len(s) - k + 1
    BY <1>1, <1>2, <1>6, <2>1
  <2>2. CASE i # Len(s) - k + 1
    <3>1. i \in 1 .. Len(s) - k /\ k + i \in 1 .. Len(s)
      BY <1>1, <2>2
    <3> QED BY <1>2, <1>4, <1>6, <3>1
  <2> QED BY <2>1, <2>2
<1>8. SubSeq(a, k + 1, Len(s) + 1) = Append(b, r)
  BY <1>1, <1>5, <1>6, <1>7, SeqEqual
<1> QED BY <1>8 DEF a, b

\* What is in hand, spelled out.
LEMMA InHand ==
  ASSUME BatcherInv
  PROVE  /\ buf \in Seq(Rows) /\ batch \in Seq(Rows)
         /\ accepted \in Seq(Rows) /\ table \in Seq(Rows)
         /\ Len(buf) \in Nat /\ Len(batch) \in Nat /\ Len(accepted) \in Nat
         /\ Upto \in 0 .. Len(accepted)
         /\ mu = "none" => /\ batch = <<>> /\ Upto = Len(accepted) - Len(buf)
                           /\ buf = SubSeq(accepted, Upto + 1, Len(accepted))
         /\ mu # "none" => /\ buf = <<>> /\ Upto = Len(accepted) - Len(batch)
                           /\ batch = SubSeq(accepted, Upto + 1, Len(accepted))
                           /\ Len(batch) > 0
<1>1. /\ buf \in Seq(Rows) /\ batch \in Seq(Rows) /\ accepted \in Seq(Rows)
      /\ table \in Seq(Rows) /\ Upto >= 0
      /\ Len(buf) \in Nat /\ Len(batch) \in Nat /\ Len(accepted) \in Nat
  BY LenProperties DEF BatcherInv
<1>2. Upto \in 0 .. Len(accepted)
  BY <1>1 DEF Upto
<1>3. CASE mu = "none"
  <2>1. batch = <<>> /\ <<>> \o buf = buf /\ Len(<<>>) = 0
    BY <1>1, <1>3, ConcatEmptySeq, EmptySeq DEF BatcherInv
  <2> QED BY <1>1, <1>2, <1>3, <2>1 DEF BatcherInv, KeptInOrder, Upto
<1>4. CASE mu # "none"
  <2>1. batch # <<>> /\ buf = <<>>
    BY <1>4 DEF BatcherInv, KeptInOrder
  <2>2. batch \o <<>> = batch /\ Len(<<>>) = 0 /\ Len(batch) > 0
    BY <1>1, <2>1, ConcatEmptySeq, EmptySeq
  <2> QED BY <1>1, <1>2, <1>4, <2>1, <2>2 DEF BatcherInv, KeptInOrder, Upto
<1> QED BY <1>1, <1>2, <1>3, <1>4

\* The rows in hand, wherever they are.
LEMMA Together ==
  ASSUME NEW b \in Seq(Rows), NEW h \in Seq(Rows), NEW s \in Seq(Rows),
         NEW k \in 0 .. Len(s), Len(h) + Len(b) = Len(s) - k,
         \/ b = <<>> /\ h = SubSeq(s, k + 1, Len(s))
         \/ h = <<>> /\ b = SubSeq(s, k + 1, Len(s))
  PROVE  /\ Len(s) - Len(h) - Len(b) = k
         /\ h \o b = SubSeq(s, k + 1, Len(s))
<1>1. Len(b) \in Nat /\ Len(h) \in Nat /\ Len(s) \in Nat
  BY LenProperties
<1>2. h \o b = SubSeq(s, k + 1, Len(s))
  BY ConcatEmptySeq
<1> QED BY <1>1, <1>2

\* What addRow makes of the rows in hand.
LEMMA OneMore ==
  ASSUME BatcherInv, NEW r \in Rows, mu = "none"
  PROVE  /\ Append(accepted, r) \in Seq(Rows) /\ Append(buf, r) \in Seq(Rows)
         /\ Len(Append(accepted, r)) = Len(accepted) + 1
         /\ Len(Append(buf, r)) = Len(buf) + 1 /\ Append(buf, r) # <<>>
         /\ Append(buf, r) = SubSeq(Append(accepted, r), Upto + 1, Len(accepted) + 1)
<1>1. /\ buf \in Seq(Rows) /\ accepted \in Seq(Rows) /\ Len(buf) \in Nat
      /\ Upto \in 0 .. Len(accepted)
      /\ buf = SubSeq(accepted, Upto + 1, Len(accepted))
  BY InHand
<1>2. /\ Append(accepted, r) \in Seq(Rows) /\ Append(buf, r) \in Seq(Rows)
      /\ Len(Append(accepted, r)) = Len(accepted) + 1
      /\ Len(Append(buf, r)) = Len(buf) + 1
  BY <1>1, AppendProperties
<1>3. Append(buf, r) # <<>>
  <2>1. Len(<<>>) = 0 /\ Len(Append(buf, r)) # 0
    BY <1>1, <1>2, EmptySeq
  <2> QED BY <2>1
<1>4. Append(buf, r) = SubSeq(Append(accepted, r), Upto + 1, Len(accepted) + 1)
  BY <1>1, TailAppend
<1> QED BY <1>2, <1>3, <1>4

----------------------------------------------------------------------------
LEMMA BatcherStart ==
  ASSUME Init
  PROVE  BatcherInv
<1>1. <<>> \in Seq(Rows) /\ Len(<<>>) = 0
  BY EmptySeq
<1>2. <<>> \o <<>> = <<>> /\ SubSeq(<<>>, 1, 0) = <<>>
  BY <1>1, ConcatEmptySeq
<1> QED BY <1>1, <1>2 DEF Init, BatcherInv, KeptInOrder, Upto

\* Whatever happens to the table, rows of scheduler_logs are rows.
LEMMA TableStep ==
  ASSUME BatcherInv, [Next]_vars
  PROVE  table' \in Seq(Rows)
<1>1. table \in Seq(Rows) /\ table \o batch \in Seq(Rows)
  BY InHand, ConcatProperties
<1> QED
  BY <1>1
  DEF Next, vars, memory, AddRow, Tick, InsertDone, InsertError, Leftover, Cancel,
      StopFlusher, Drain, CloseConn, Exit

LEMMA BatcherStep ==
  ASSUME BatcherInv, [Next]_vars
  PROVE  BatcherInv'
<1>1. /\ buf \in Seq(Rows) /\ batch \in Seq(Rows) /\ accepted \in Seq(Rows)
      /\ Len(buf) \in Nat /\ Len(batch) \in Nat /\ Len(accepted) \in Nat
      /\ Upto \in 0 .. Len(accepted)
      /\ mu = "none" <=> batch = <<>>
      /\ mu = "none" => /\ Upto = Len(accepted) - Len(buf)
                        /\ buf = SubSeq(accepted, Upto + 1, Len(accepted))
      /\ mu # "none" => /\ buf = <<>> /\ Upto = Len(accepted) - Len(batch)
                        /\ batch = SubSeq(accepted, Upto + 1, Len(accepted))
  BY InHand DEF BatcherInv
<1>2. <<>> \in Seq(Rows) /\ Len(<<>>) = 0
  BY EmptySeq
<1>3. table' \in Seq(Rows)
  BY TableStep
<1>4. ASSUME NEW r \in Rows, AddRow(r)
      PROVE  BatcherInv'
  <2>1. mu = "none" /\ batch = <<>> /\ accepted' = Append(accepted, r)
    BY <1>1, <1>4 DEF AddRow
  <2>2. /\ accepted' \in Seq(Rows) /\ Len(accepted') = Len(accepted) + 1
        /\ Append(buf, r) \in Seq(Rows) /\ Len(Append(buf, r)) = Len(buf) + 1
        /\ Append(buf, r) # <<>>
        /\ Append(buf, r) = SubSeq(accepted', Upto + 1, Len(accepted'))
    BY <2>1, OneMore
  <2>3. \/ mu' = "logger" /\ batch' = Append(buf, r) /\ buf' = <<>>
        \/ mu' = "none" /\ batch' = <<>> /\ buf' = Append(buf, r)
    BY <1>4, <2>1 DEF AddRow, Flush
  <2>4. /\ Upto \in 0 .. Len(accepted')
        /\ Len(batch') + Len(buf') = Len(accepted') - Upto
    BY <1>1, <1>2, <2>1, <2>2, <2>3
  <2>5. /\ buf' \in Seq(Rows) /\ batch' \in Seq(Rows)
        /\ batch' # <<>> => buf' = <<>>
        /\ mu' = "none" <=> batch' = <<>>
        /\ \/ buf' = <<>> /\ batch' = SubSeq(accepted', Upto + 1, Len(accepted'))
           \/ batch' = <<>> /\ buf' = SubSeq(accepted', Upto + 1, Len(accepted'))
    BY <1>2, <2>2, <2>3
  <2>6. /\ Len(accepted') - Len(batch') - Len(buf') = Upto
        /\ batch' \o buf' = SubSeq(accepted', Upto + 1, Len(accepted'))
    <3>1. CASE buf' = <<>> /\ batch' = SubSeq(accepted', Upto + 1, Len(accepted'))
      BY <2>2, <2>4, <2>5, <3>1, Together
    <3>2. CASE batch' = <<>> /\ buf' = SubSeq(accepted', Upto + 1, Len(accepted'))
      BY <2>2, <2>4, <2>5, <3>2, Together
    <3> QED BY <2>5, <3>1, <3>2
  <2> QED BY <1>1, <1>3, <2>2, <2>5, <2>6 DEF BatcherInv, KeptInOrder, Upto
<1>5. ASSUME mu = "none", NEW who \in {"flusher", "main"}, buf # <<>>,
             Flush(who, buf), accepted' = accepted
      PROVE  BatcherInv'
  <2>1. mu' = who /\ batch' = buf /\ buf' = <<>>
    BY <1>5 DEF Flush
  <2>2. /\ Len(accepted) - Len(buf) - Len(<<>>) = Upto
        /\ buf \o <<>> = SubSeq(accepted, Upto + 1, Len(accepted))
    BY <1>1, <1>2, <1>5, Together
  <2> QED BY <1>1, <1>2, <1>3, <1>5, <2>1, <2>2 DEF BatcherInv, KeptInOrder, Upto
<1>6. CASE InsertDone
  <2>1. mu # "none" /\ mu' = "none" /\ batch' = <<>> /\ buf' = buf /\ accepted' = accepted
    BY <1>6 DEF InsertDone, Unlock
  <2>2. <<>> \o <<>> = <<>> /\ SubSeq(accepted, Len(accepted) + 1, Len(accepted)) = <<>>
    BY <1>1, <1>2, ConcatEmptySeq, EmptySeq, SubSeqEmpty
  <2>3. buf' = <<>> /\ Len(accepted') - Len(batch') - Len(buf') = Len(accepted)
    BY <1>1, <1>2, <2>1
  <2>4. Upto' = Len(accepted) /\ Upto' >= 0
    BY <1>1, <2>3 DEF Upto
  <2>5. KeptInOrder'
    BY <2>1, <2>2, <2>3, <2>4 DEF KeptInOrder
  <2> QED BY <1>1, <1>2, <1>3, <2>1, <2>3, <2>4, <2>5 DEF BatcherInv
<1>7. CASE InsertError
  <2>1. /\ mu # "none" /\ mu' = "none" /\ batch' = <<>> /\ accepted' = accepted
        /\ buf' = batch \o buf
    BY <1>7 DEF InsertError, Unlock
  <2>2. buf' = batch
    BY <1>1, <2>1, ConcatEmptySeq
  <2>3. /\ Len(accepted) - Len(<<>>) - Len(batch) = Upto
        /\ <<>> \o batch = SubSeq(accepted, Upto + 1, Len(accepted))
    BY <1>1, <1>2, <2>1, Together
  <2> QED BY <1>1, <1>2, <1>3, <2>1, <2>2, <2>3 DEF BatcherInv, KeptInOrder, Upto
<1>8. CASE (Drain /\ buf = <<>>) \/ Cancel \/ StopFlusher \/ CloseConn \/ Exit
           \/ UNCHANGED vars
  <2>1. buf' = buf /\ batch' = batch /\ mu' = mu /\ accepted' = accepted
    BY <1>8 DEF Drain, Cancel, StopFlusher, CloseConn, Exit, vars, memory
  <2> QED BY <1>3, <2>1 DEF BatcherInv, KeptInOrder, Upto
<1>9. CASE Tick
  BY <1>5, <1>9 DEF Tick
<1>10. CASE Drain /\ buf # <<>>
  BY <1>5, <1>10 DEF Drain
<1> QED BY <1>4, <1>6, <1>7, <1>8, <1>9, <1>10 DEF Next

\* For all bounds the batcher holds the rows that are not known to have arrived, in
\* the order they came (addRow, flushUnlocked, drain).
THEOREM RowsKeptInOrder ==
  Spec => []KeptInOrder
<1>1. Init => BatcherInv
  BY BatcherStart
<1>2. BatcherInv /\ [Next]_vars => BatcherInv'
  BY BatcherStep
<1>3. BatcherInv => KeptInOrder
  BY DEF BatcherInv
<1> QED BY <1>1, <1>2, <1>3, PTL DEF Spec

----------------------------------------------------------------------------
\* A step of the batcher is a step of the pipe.
LEMMA PipeStep ==
  ASSUME BatcherInv, BatcherInv', [Next]_vars
  PROVE  [Pipe!Next]_(Pipe!vars)
<1>1. /\ buf \in Seq(Rows) /\ batch \in Seq(Rows)
      /\ Len(buf) \in Nat /\ Len(batch) \in Nat /\ Len(accepted) \in Nat
      /\ Upto \in 0 .. Len(accepted)
      /\ mu = "none" => batch = <<>>
      /\ mu # "none" => /\ buf = <<>> /\ Upto = Len(accepted) - Len(batch)
                        /\ batch = SubSeq(accepted, Upto + 1, Len(accepted))
                        /\ Len(batch) > 0
  BY InHand
<1>2. Len(<<>>) = 0
  BY EmptySeq
<1>3. ASSUME NEW r \in Rows, AddRow(r)
      PROVE  Pipe!Accept
  <2>1. /\ mu = "none" /\ accepted' = Append(accepted, r) /\ table' = table
        /\ \/ batch' = Append(buf, r) /\ buf' = <<>>
           \/ batch' = <<>> /\ buf' = Append(buf, r)
    BY <1>1, <1>3 DEF AddRow, Flush
  <2>2. Len(accepted') = Len(accepted) + 1 /\ Len(Append(buf, r)) = Len(buf) + 1
    BY <2>1, OneMore
  <2>3. /\ Len(batch) = 0
        /\ Len(batch') + Len(buf') = Len(buf) + 1
        /\ Len(batch') \in Nat /\ Len(buf') \in Nat
    BY <1>1, <1>2, <2>1, <2>2
  <2>4. Upto' = Upto
    BY <1>1, <2>2, <2>3 DEF Upto
  <2> QED BY <2>1, <2>4 DEF Pipe!Accept
<1>4. ASSUME mu # "none", table' = table \o batch, accepted' = accepted,
             Upto' = Upto \/ Upto' = Len(accepted)
      PROVE  Pipe!Insert
  <2>1. Len(accepted) \in Upto + 1 .. Len(accepted)
    BY <1>1, <1>4
  <2>2. table' = table \o SubSeq(accepted, Upto + 1, Len(accepted))
    BY <1>1, <1>4
  <2> QED BY <1>4, <2>1, <2>2 DEF Pipe!Insert
<1>5. ASSUME Flush("flusher", buf) \/ Flush("main", buf), mu = "none",
             table' = table, accepted' = accepted
      PROVE  UNCHANGED Pipe!vars
  <2>1. batch = <<>> /\ batch' = buf /\ buf' = <<>>
    BY <1>1, <1>5 DEF Flush
  <2>2. Upto' = Upto
    BY <1>1, <1>2, <1>5, <2>1 DEF Upto
  <2> QED BY <1>5, <2>2 DEF Pipe!vars
<1>6. CASE InsertDone
  <2>1. /\ mu # "none" /\ buf' = buf /\ batch' = <<>> /\ accepted' = accepted
        /\ table' = table \o batch
    BY <1>6 DEF InsertDone, Unlock
  <2>2. Upto' = Len(accepted)
    BY <1>1, <1>2, <2>1 DEF Upto
  <2> QED BY <1>4, <2>1, <2>2 DEF Pipe!Next
<1>7. CASE InsertError
  <2>1. /\ mu # "none" /\ buf' = batch \o buf /\ batch' = <<>> /\ accepted' = accepted
        /\ table' = table \/ table' = table \o batch
    BY <1>7 DEF InsertError, Unlock, Leftover
  <2>2. buf' = batch
    BY <1>1, <2>1, ConcatEmptySeq
  <2>3. Upto' = Upto
    BY <1>1, <1>2, <2>1, <2>2 DEF Upto
  <2> QED BY <1>4, <2>1, <2>3 DEF Pipe!Next, Pipe!vars
<1>8. CASE Exit
  <2>1. /\ buf' = buf /\ batch' = batch /\ accepted' = accepted
        /\ table' = table \/ (mu # "none" /\ table' = table \o batch)
    BY <1>8 DEF Exit, Leftover
  <2>2. Upto' = Upto
    BY <2>1 DEF Upto
  <2> QED BY <1>4, <2>1, <2>2 DEF Pipe!Next, Pipe!vars
<1>9. CASE (Drain /\ buf = <<>>) \/ Cancel \/ StopFlusher \/ CloseConn \/ UNCHANGED vars
  BY <1>9 DEF Drain, Cancel, StopFlusher, CloseConn, vars, memory, Pipe!vars, Upto
<1>10. CASE Tick \/ (Drain /\ buf # <<>>)
  BY <1>5, <1>10 DEF Tick, Drain
<1> QED BY <1>3, <1>6, <1>7, <1>8, <1>9, <1>10 DEF Next, Pipe!Next

\* The batcher implements LogPipe: no order, no gap and no row is lost on its way
\* into scheduler_logs, whatever inserts fail and however the process ends.
THEOREM BatcherImplementsPipe ==
  Spec => PipePromise
<1>1. Init => Pipe!Init
  <2> SUFFICES ASSUME Init
               PROVE  Pipe!Init
    OBVIOUS
  <2>1. accepted = <<>> /\ batch = <<>> /\ buf = <<>> /\ table = <<>>
    BY DEF Init
  <2>2. Len(accepted) = 0 /\ Len(batch) = 0 /\ Len(buf) = 0
    BY <2>1, EmptySeq
  <2>3. Upto = 0
    BY <2>2 DEF Upto
  <2> QED BY <2>1, <2>3 DEF Pipe!Init
<1>2. BatcherInv /\ BatcherInv' /\ [Next]_vars => [Pipe!Next]_(Pipe!vars)
  BY PipeStep
<1>3. Init => BatcherInv
  BY BatcherStart
<1>4. BatcherInv /\ [Next]_vars => BatcherInv'
  BY BatcherStep
<1> QED BY <1>1, <1>2, <1>3, <1>4, PTL DEF Spec, PipePromise, Pipe!Spec
=============================================================================
