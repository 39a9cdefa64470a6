---------------------------- MODULE StreamingProofs ----------------------------
(***************************************************************************)
(* The theorems of Streaming, for any chain, any window and any spots: the *)
(* runner knows every line it has opened, and no row gets lost between the *)
(* handler that produced it and the file.                                  *)
(***************************************************************************)
EXTENDS Streaming, FiniteSetTheorems, SequenceTheorems, TLAPS

RunType ==
    /\ pc \in Steps
    /\ perKind \in BOOLEAN /\ unlisted \in Unlistings
    /\ spot \in Spots /\ last \in Spots
WindowType ==
    /\ strikes \subseteq Strikes /\ lines \subseteq Strikes /\ window \subseteq Strikes
    /\ DOMAIN tickers \subseteq Strikes /\ tickers \in [DOMAIN tickers -> Strikes]
RowsType ==
    /\ buf \in [Kinds -> Seq(Nat)] /\ drained \in [Kinds -> Seq(Nat)]
    /\ stored \in [Kinds -> Seq(Nat)] /\ lost \subseteq Kinds
    /\ received \in [Kinds -> 0 .. MaxRows] /\ counted \in [Kinds -> Nat]

(* The keys of _option_tickers are strikes of the window, so that those a  *)
(* rebalance adds take the place of no other, and every line has one.      *)
Keys ==
    /\ DOMAIN tickers \subseteq strikes
    /\ pc = "qualify" => DOMAIN tickers \subseteq window
    /\ lines \subseteq Contracts(tickers)
    /\ pc \in {"start", "seeded"} => DOMAIN tickers = {}
    /\ pc = "exit" /\ lost = {} => lines = {}

(* The lines and the keys are those of S, under their own strikes. *)
Only(S) == lines = S /\ tickers = [s \in S |-> s]
Match ==
    unlisted = {} => /\ pc \in {"loop", "flush", "write", "sleep"} => Only(strikes)
                     /\ pc = "qualify" => Only(strikes \cap window)

(* Rows are drained only for the write that follows. *)
Drained ==
    /\ pc \notin {"write", "finalWrite"} => drained = NoRows
    /\ pc \in {"write", "finalWrite"} => \E k \in Kinds : drained[k] # <<>>

(* The n rows received of a kind, on the three parts of their way: stored  *)
(* and counted, drained, buffered.                                         *)
Numbers(n) == [i \in 1 .. n |-> i]
Ordered(safe, n, s, d, b, c) ==
    /\ safe => s \o d \o b = Numbers(n) /\ c = Len(s)
    /\ Len(b) + Len(d) + Len(s) <= n /\ c <= Len(s)
InOrder == \A k \in Kinds :
    Ordered(k \notin lost, received[k], stored[k], drained[k], buf[k], counted[k])

IInv == /\ RunType /\ WindowType /\ Keys /\ Match
        /\ RowsType /\ Drained /\ InOrder

-------------------------------------------------------------------------------
(* The way of the rows. *)
LEMMA NumbersType == ASSUME NEW n \in Nat PROVE Numbers(n) \in Seq(Nat) /\ Len(Numbers(n)) = n
<1>1. Numbers(n) \in [1 .. n -> Nat]
  BY DEF Numbers
<1>2. Numbers(n) \in Seq(Nat)
  BY <1>1, SeqDef
<1>3. DOMAIN Numbers(n) = 1 .. n /\ DOMAIN Numbers(n) = 1 .. Len(Numbers(n))
  BY <1>1, <1>2, LenProperties
<1>4. \A m \in Nat : 1 .. n = 1 .. m => n = m
  <2> SUFFICES ASSUME NEW m \in Nat, 1 .. n = 1 .. m PROVE n = m
    OBVIOUS
  <2>1. n >= 1 => n \in 1 .. m
    OBVIOUS
  <2>2. m >= 1 => m \in 1 .. n
    OBVIOUS
  <2>3. QED
    BY <2>1, <2>2
<1>5. Len(Numbers(n)) \in Nat
  BY <1>2, LenProperties
<1>6. PICK m \in Nat : m = Len(Numbers(n))
  BY <1>5, Zenon
<1>7. 1 .. n = 1 .. m
  BY <1>3, <1>6
<1>8. n = m
  BY <1>4, <1>7, Zenon
<1>9. QED
  BY <1>2, <1>6, <1>8

LEMMA NextNumber == ASSUME NEW n \in Nat PROVE Append(Numbers(n), n + 1) = Numbers(n + 1)
<1>1. PICK q \in Seq(Nat) : q = Numbers(n) /\ Len(q) = n
  BY NumbersType, Zenon
<1>2. n + 1 \in Nat
  OBVIOUS
<1>3. PICK x : x = Append(q, n + 1)
  OBVIOUS
<1>4. /\ x \in Seq(Nat) /\ Len(x) = Len(q) + 1 /\ x[Len(q) + 1] = n + 1
      /\ \A i \in 1 .. Len(q) : x[i] = q[i]
  BY <1>2, <1>3, AppendProperties
<1>5. PICK y \in Seq(Nat) : y = Numbers(n + 1) /\ Len(y) = n + 1
  BY <1>2, NumbersType, Zenon
<1>6. \A i \in 1 .. n : q[i] = i
  BY <1>1 DEF Numbers
<1>7. \A i \in 1 .. n + 1 : y[i] = i
  BY <1>5 DEF Numbers
<1>8. \A i \in 1 .. n + 1 : x[i] = i
  BY <1>1, <1>4, <1>6
<1>9. Len(x) = Len(y) /\ \A i \in 1 .. Len(x) : x[i] = y[i]
  BY <1>1, <1>4, <1>5, <1>7, <1>8
<1>10. x = y
  BY <1>4, <1>9, SeqEqual
<1>11. QED
  BY <1>1, <1>3, <1>5, <1>10

LEMMA OrderedAppend ==
  ASSUME NEW safe \in BOOLEAN, NEW n \in Nat, NEW s \in Seq(Nat), NEW d \in Seq(Nat), NEW b \in Seq(Nat),
         NEW c \in Nat, Ordered(safe, n, s, d, b, c)
  PROVE  Ordered(safe, n + 1, s, d, Append(b, n + 1), c)
<1>1. n + 1 \in Nat /\ <<n + 1>> \in Seq(Nat) /\ s \o d \in Seq(Nat)
  BY ConcatProperties
<1>2. Append(b, n + 1) = b \o <<n + 1>> /\ Len(Append(b, n + 1)) = Len(b) + 1
  BY <1>1, AppendIsConcat, AppendProperties
<1>3. (s \o d) \o Append(b, n + 1) = ((s \o d) \o b) \o <<n + 1>>
  BY <1>1, <1>2, ConcatAssociative
<1>4. (s \o d) \o b \in Seq(Nat)
  BY <1>1, ConcatProperties
<1>5. Append((s \o d) \o b, n + 1) = ((s \o d) \o b) \o <<n + 1>>
  BY <1>1, <1>4, AppendIsConcat
<1>6. safe => s \o d \o Append(b, n + 1) = Numbers(n + 1)
  BY <1>3, <1>5, NextNumber DEF Ordered
<1>7. Len(s) \in Nat /\ Len(d) \in Nat /\ Len(b) \in Nat
  BY LenProperties
<1>8. Len(Append(b, n + 1)) + Len(d) + Len(s) <= n + 1
  BY <1>2, <1>7 DEF Ordered
<1>9. QED
  BY <1>6, <1>8 DEF Ordered

LEMMA OrderedDrain ==
  ASSUME NEW safe \in BOOLEAN, NEW n \in Nat, NEW s \in Seq(Nat), NEW b \in Seq(Nat), NEW c \in Nat,
         Ordered(safe, n, s, <<>>, b, c)
  PROVE  Ordered(safe, n, s, b, <<>>, c)
<1>1. s \o <<>> = s /\ s \o b \in Seq(Nat)
  BY ConcatEmptySeq, ConcatProperties
<1>2. s \o b \o <<>> = s \o b
  BY <1>1, ConcatEmptySeq
<1>3. Len(<<>>) = 0 /\ Len(s) \in Nat /\ Len(b) \in Nat
  BY LenProperties
<1>4. QED
  BY <1>1, <1>2, <1>3 DEF Ordered

LEMMA OrderedWrite ==
  ASSUME NEW safe \in BOOLEAN, NEW n \in Nat, NEW s \in Seq(Nat), NEW d \in Seq(Nat), NEW b \in Seq(Nat),
         NEW c \in Nat, Ordered(safe, n, s, d, b, c)
  PROVE  Ordered(safe, n, s \o d, <<>>, b, c + Len(d))
<1>1. s \o d \in Seq(Nat) /\ Len(s \o d) = Len(s) + Len(d)
  BY ConcatProperties
<1>2. (s \o d) \o <<>> = s \o d
  BY <1>1, ConcatEmptySeq
<1>3. Len(<<>>) = 0 /\ Len(s) \in Nat /\ Len(d) \in Nat /\ Len(b) \in Nat
  BY LenProperties
<1>4. safe => s \o d \o b = Numbers(n) /\ c = Len(s)
  BY Zenon DEF Ordered
<1>5. safe => (s \o d) \o <<>> \o b = Numbers(n) /\ c + Len(d) = Len(s \o d)
  BY <1>1, <1>2, <1>4
<1>6. Len(b) + Len(d) + Len(s) <= n /\ c <= Len(s)
  BY DEF Ordered
<1>7. Len(b) + Len(<<>>) + Len(s \o d) <= n /\ c + Len(d) <= Len(s \o d)
  BY <1>1, <1>3, <1>6
<1>8. QED
  BY <1>5, <1>7, Zenon DEF Ordered

LEMMA OrderedLoss ==
  ASSUME NEW safe \in BOOLEAN, NEW n \in Nat, NEW s \in Seq(Nat), NEW d \in Seq(Nat), NEW b \in Seq(Nat),
         NEW c \in Nat, Ordered(safe, n, s, d, b, c), NEW t \in Seq(Nat), Len(t) <= Len(d)
  PROVE  Ordered(FALSE, n, s \o t, <<>>, b, c)
<1>1. Len(s \o t) = Len(s) + Len(t)
  BY ConcatProperties
<1>2. /\ Len(<<>>) = 0 /\ Len(s) \in Nat /\ Len(d) \in Nat /\ Len(b) \in Nat /\ Len(t) \in Nat
  BY LenProperties
<1>3. QED
  BY <1>1, <1>2 DEF Ordered

(* write_records raises after some rows: a prefix of them is in the file. *)
LEMMA PrefixType ==
  ASSUME NEW d \in Seq(Nat), NEW n \in 0 .. Len(d)
  PROVE  SubSeq(d, 1, n) \in Seq(Nat) /\ Len(SubSeq(d, 1, n)) <= Len(d)
<1>1. Len(d) \in Nat /\ \A i \in 1 .. n : d[i] \in Nat
  BY LenProperties
<1>2. SubSeq(d, 1, n) \in Seq(Nat) /\ Len(SubSeq(d, 1, n)) = IF 1 <= n THEN n - 1 + 1 ELSE 0
  BY <1>1, SubSeqProperties
<1>3. QED
  BY <1>1, <1>2

-------------------------------------------------------------------------------
(* The steps that move rows. *)
Busy   == {"write", "finalWrite"}
RowsOK == RowsType /\ Drained /\ InOrder

LEMMA RowsQuiet ==
  ASSUME RowsOK, UNCHANGED rows, pc \in Busy <=> pc' \in Busy
  PROVE  RowsOK'
<1> USE DEF rows
<1>1. RowsType'
  BY DEF RowsOK, RowsType
<1>2. Drained'
  BY DEF RowsOK, Drained, Busy
<1>3. InOrder'
  <2>1. InOrder /\ UNCHANGED <<buf, drained, stored, counted, received, lost>>
    BY DEF RowsOK
  <2>2. QED BY <2>1, Zenon DEF InOrder
<1>4. QED BY <1>1, <1>2, <1>3 DEF RowsOK

LEMMA RowsAppend ==
  ASSUME RowsOK, NEW k \in Kinds, Append1(k), pc' = pc
  PROVE  RowsOK'
<1> USE DEF RowsOK
<1>1. PICK n \in Nat : n = received[k] /\ n < MaxRows /\ n + 1 \in 0 .. MaxRows
  <2>1. received[k] \in 0 .. MaxRows /\ received[k] < MaxRows /\ MaxRows \in Nat
    BY StreamingAssumption DEF RowsType, Append1
  <2>2. QED BY <2>1
<1>2. /\ received' = [received EXCEPT ![k] = n + 1]
      /\ buf' = [buf EXCEPT ![k] = Append(buf[k], n + 1)]
      /\ UNCHANGED <<drained, stored, counted, lost>>
  BY <1>1 DEF Append1
<1>3. PICK b \in Seq(Nat) : b = Append(buf[k], n + 1)
  <2>1. buf[k] \in Seq(Nat) /\ n + 1 \in Nat
    BY DEF RowsType
  <2>2. Append(buf[k], n + 1) \in Seq(Nat)
    BY <2>1, AppendProperties
  <2>3. QED BY <2>2
<1>4. RowsType'
  BY <1>1, <1>2, <1>3 DEF RowsType
<1>5. Drained'
  BY <1>2 DEF Drained
<1>6. ASSUME NEW j \in Kinds
      PROVE  Ordered(j \notin lost', received'[j], stored'[j], drained'[j], buf'[j], counted'[j])
  <2>1. /\ Ordered(j \notin lost, received[j], stored[j], drained[j], buf[j], counted[j])
        /\ (j \notin lost) \in BOOLEAN /\ received[j] \in Nat /\ counted[j] \in Nat
        /\ stored[j] \in Seq(Nat) /\ drained[j] \in Seq(Nat) /\ buf[j] \in Seq(Nat)
    BY DEF InOrder, RowsType
  <2>2. CASE j # k
    <3>1. received'[j] = received[j] /\ buf'[j] = buf[j]
      BY <1>2, <2>2 DEF RowsType
    <3>2. QED BY <1>2, <2>1, <3>1
  <2>3. CASE j = k
    <3>1. received'[j] = n + 1 /\ buf'[j] = Append(buf[j], n + 1) /\ received[j] = n
      BY <1>1, <1>2, <2>3 DEF RowsType
    <3>2. Ordered(j \notin lost, n, stored[j], drained[j], buf[j], counted[j])
      BY <2>1, <3>1
    <3>3. Ordered(j \notin lost, n + 1, stored[j], drained[j], Append(buf[j], n + 1), counted[j])
      BY <2>1, <3>2, OrderedAppend
    <3>4. QED BY <1>2, <3>1, <3>3
  <2>4. QED BY <2>2, <2>3
<1>7. QED BY <1>4, <1>5, <1>6 DEF InOrder

LEMMA RowsDrain ==
  ASSUME RowsOK, NEW kinds \in SUBSET Kinds, NEW step \in Busy, Drain(kinds, step), pc \notin Busy,
         UNCHANGED <<stored, counted, received, lost>>
  PROVE  RowsOK'
<1> USE DEF RowsOK
<1>1. /\ drained' = [k \in Kinds |-> IF k \in kinds THEN buf[k] ELSE <<>>]
      /\ buf' = [k \in Kinds |-> IF k \in kinds THEN <<>> ELSE buf[k]]
      /\ pc' \in Busy
  BY DEF Drain
<1>2. <<>> \in Seq(Nat)
  OBVIOUS
<1>3. RowsType'
  BY <1>1, <1>2 DEF RowsType
<1>4. Drained'
  <2>1. PICK k \in kinds : buf[k] # <<>>
    BY DEF Drain
  <2>2. k \in Kinds /\ drained'[k] # <<>>
    BY <1>1, <2>1
  <2>3. QED BY <1>1, <2>2 DEF Drained, Busy
<1>5. ASSUME NEW j \in Kinds
      PROVE  Ordered(j \notin lost', received'[j], stored'[j], drained'[j], buf'[j], counted'[j])
  <2>1. /\ Ordered(j \notin lost, received[j], stored[j], <<>>, buf[j], counted[j])
        /\ (j \notin lost) \in BOOLEAN /\ received[j] \in Nat /\ counted[j] \in Nat
        /\ stored[j] \in Seq(Nat) /\ buf[j] \in Seq(Nat)
    <3>1. drained[j] = <<>>
      BY DEF Drained, Busy, NoRows
    <3>2. QED BY <3>1 DEF InOrder, RowsType
  <2>2. CASE j \in kinds
    <3>1. drained'[j] = buf[j] /\ buf'[j] = <<>>
      BY <1>1, <2>2
    <3>2. Ordered(j \notin lost, received[j], stored[j], buf[j], <<>>, counted[j])
      BY <2>1, OrderedDrain
    <3>3. QED BY <3>1, <3>2
  <2>3. CASE j \notin kinds
    <3>1. drained'[j] = <<>> /\ buf'[j] = buf[j]
      BY <1>1, <2>3
    <3>2. QED BY <2>1, <3>1
  <2>4. QED BY <2>2, <2>3
<1>6. QED BY <1>3, <1>4, <1>5 DEF InOrder

LEMMA RowsWrite == ASSUME RowsOK, Write PROVE RowsOK'
<1> USE DEF RowsOK
<1>1. PICK w \in Kinds : w = Writing
  BY DEF Writing, Kinds
<1>2. /\ stored' = [stored EXCEPT ![w] = stored[w] \o drained[w]]
      /\ counted' = [counted EXCEPT ![w] = counted[w] + Len(drained[w])]
      /\ drained' = [drained EXCEPT ![w] = <<>>]
      /\ UNCHANGED <<buf, received, lost>>
  BY <1>1 DEF Write
<1>3. \A k \in Kinds : Len(drained[k]) \in Nat /\ stored[k] \o drained[k] \in Seq(Nat)
  BY LenProperties, ConcatProperties DEF RowsType
<1>4. RowsType'
  BY <1>2, <1>3 DEF RowsType
<1>5. Drained'
  <2>1. /\ \A k \in Kinds \ {w} : drained'[k] = drained[k]
        /\ drained'[w] = <<>> /\ pc \in Busy
    BY <1>2 DEF RowsType, Write, Busy
  <2>2. CASE \E k \in Kinds \ {w} : drained[k] # <<>>
    <3>1. pc' = pc
      BY <1>1, <2>2 DEF Write
    <3>2. QED BY <2>1, <2>2, <3>1 DEF Drained, Busy
  <2>3. CASE \A k \in Kinds \ {w} : drained[k] = <<>>
    <3>1. pc' \in {"flush", "unsubscribe"}
      BY <1>1, <2>3 DEF Write
    <3>2. \A k \in Kinds : drained'[k] = <<>>
      BY <2>1, <2>3
    <3>3. drained' = NoRows
      BY <1>4, <3>2 DEF RowsType, NoRows
    <3>4. QED BY <3>1, <3>3 DEF Drained
  <2>4. QED BY <2>2, <2>3
<1>6. ASSUME NEW j \in Kinds
      PROVE  Ordered(j \notin lost', received'[j], stored'[j], drained'[j], buf'[j], counted'[j])
  <2>1. /\ Ordered(j \notin lost, received[j], stored[j], drained[j], buf[j], counted[j])
        /\ (j \notin lost) \in BOOLEAN /\ received[j] \in Nat /\ counted[j] \in Nat
        /\ stored[j] \in Seq(Nat) /\ drained[j] \in Seq(Nat) /\ buf[j] \in Seq(Nat)
    BY DEF InOrder, RowsType
  <2>2. CASE j # w
    <3>1. stored'[j] = stored[j] /\ counted'[j] = counted[j] /\ drained'[j] = drained[j]
      BY <1>2, <2>2 DEF RowsType
    <3>2. QED BY <1>2, <2>1, <3>1
  <2>3. CASE j = w
    <3>1. /\ stored'[j] = stored[j] \o drained[j] /\ counted'[j] = counted[j] + Len(drained[j])
          /\ drained'[j] = <<>>
      BY <1>2, <2>3 DEF RowsType
    <3>2. Ordered(j \notin lost, received[j], stored[j] \o drained[j], <<>>, buf[j], counted[j] + Len(drained[j]))
      BY <2>1, OrderedWrite
    <3>3. QED BY <1>2, <3>1, <3>2
  <2>4. QED BY <2>2, <2>3
<1>7. QED BY <1>4, <1>5, <1>6 DEF InOrder

LEMMA RowsLost == ASSUME RowsOK, WriteFails PROVE RowsOK'
<1> USE DEF RowsOK
<1>1. PICK w \in Kinds : w = Writing
  BY DEF Writing, Kinds
<1>2. PICK n \in 0 .. Len(drained[w]) - 1 :
        stored' = [stored EXCEPT ![w] = stored[w] \o SubSeq(drained[w], 1, n)]
  BY <1>1 DEF WriteFails
<1>3. /\ lost' = lost \cup {k \in Kinds : drained[k] # <<>>}
      /\ drained' = NoRows /\ pc' \in {"final", "exit"}
      /\ UNCHANGED <<buf, counted, received>>
  BY DEF WriteFails
<1>4. drained[w] \in Seq(Nat) /\ Len(drained[w]) \in Nat
  BY LenProperties DEF RowsType
<1>5. drained[w] # <<>>
  <2>1. Len(drained[w]) # 0
    BY <1>2, <1>4
  <2>2. QED BY <1>4, <2>1, EmptySeq
<1>6. PICK t \in Seq(Nat) : t = SubSeq(drained[w], 1, n) /\ Len(t) <= Len(drained[w])
  <2>1. n \in 0 .. Len(drained[w])
    BY <1>4
  <2>2. SubSeq(drained[w], 1, n) \in Seq(Nat) /\ Len(SubSeq(drained[w], 1, n)) <= Len(drained[w])
    BY <1>4, <2>1, PrefixType
  <2>3. QED BY <2>2
<1>7. stored[w] \o t \in Seq(Nat) /\ <<>> \in Seq(Nat)
  BY <1>6, ConcatProperties DEF RowsType
<1>8. RowsType'
  BY <1>2, <1>3, <1>6, <1>7 DEF RowsType, NoRows
<1>9. Drained'
  BY <1>3 DEF Drained
<1>10. ASSUME NEW j \in Kinds
       PROVE  Ordered(j \notin lost', received'[j], stored'[j], drained'[j], buf'[j], counted'[j])
  <2>1. /\ Ordered(j \notin lost, received[j], stored[j], drained[j], buf[j], counted[j])
        /\ (j \notin lost) \in BOOLEAN /\ received[j] \in Nat /\ counted[j] \in Nat
        /\ stored[j] \in Seq(Nat) /\ drained[j] \in Seq(Nat) /\ buf[j] \in Seq(Nat)
    BY DEF InOrder, RowsType
  <2>2. drained'[j] = <<>> /\ buf'[j] = buf[j] /\ received'[j] = received[j] /\ counted'[j] = counted[j]
    BY <1>3 DEF NoRows
  <2>3. CASE j = w
    <3>1. stored'[j] = stored[j] \o t /\ (j \notin lost') = FALSE
      BY <1>2, <1>3, <1>5, <1>6, <2>3 DEF RowsType
    <3>2. Len(t) <= Len(drained[j])
      BY <1>6, <2>3
    <3>3. Ordered(FALSE, received[j], stored[j] \o t, <<>>, buf[j], counted[j])
      BY <2>1, <3>2, OrderedLoss
    <3>4. QED BY <2>2, <3>1, <3>3
  <2>4. CASE j # w /\ drained[j] = <<>>
    <3>1. stored'[j] = stored[j] /\ (j \notin lost') = (j \notin lost)
      BY <1>2, <1>3, <2>4 DEF RowsType
    <3>2. QED BY <2>1, <2>2, <2>4, <3>1
  <2>5. CASE j # w /\ drained[j] # <<>>
    <3>1. stored'[j] = stored[j] /\ (j \notin lost') = FALSE
      BY <1>2, <1>3, <2>5 DEF RowsType
    <3>2. <<>> \in Seq(Nat) /\ Len(<<>>) <= Len(drained[j]) /\ stored[j] \o <<>> = stored[j]
      BY <2>1, LenProperties, ConcatEmptySeq
    <3>3. Ordered(FALSE, received[j], stored[j] \o <<>>, <<>>, buf[j], counted[j])
      BY <2>1, <3>2, OrderedLoss
    <3>4. QED BY <2>2, <3>1, <3>2, <3>3
  <2>6. QED BY <2>3, <2>4, <2>5
<1>11. QED BY <1>8, <1>9, <1>10 DEF InOrder

LEMMA RowsInit == Init => RowsOK
<1> SUFFICES ASSUME Init PROVE RowsOK
  OBVIOUS
<1>1. <<>> \in Seq(Nat) /\ 0 \in 0 .. MaxRows /\ Len(<<>>) = 0
  BY StreamingAssumption
<1>2. RowsType
  BY <1>1 DEF Init, RowsType, NoRows
<1>3. Drained
  BY DEF Init, Drained
<1>4. Ordered(TRUE, 0, <<>>, <<>>, <<>>, 0)
  <2>1. <<>> \o <<>> \o <<>> = <<>>
    BY <1>1, ConcatEmptySeq
  <2>2. Numbers(0) = <<>>
    BY NumbersType, EmptySeq
  <2>3. QED BY <1>1, <2>1, <2>2 DEF Ordered
<1>5. InOrder
  BY <1>4 DEF Init, InOrder, NoRows
<1>6. QED BY <1>2, <1>3, <1>5 DEF RowsOK

LEMMA RowsStep == ASSUME RowsOK, Next PROVE RowsOK'
<1>1. CASE \/ Seed \/ Subscribe \/ SubscribeFails \/ MaybeRebalance \/ RebalanceNotDue
           \/ Qualified \/ QualifyFails \/ FlushDone \/ Sleep \/ Stop \/ Unsubscribe \/ Exit
  <2>1. UNCHANGED rows /\ pc \notin Busy /\ pc' \notin Busy
    BY <1>1 DEF Seed, Subscribe, SubscribeFails, MaybeRebalance, RebalanceNotDue,
                Qualified, QualifyFails, FlushDone, Sleep, Stop, Unsubscribe, Exit, Busy
  <2>2. QED BY <2>1, RowsQuiet
<1>2. CASE OptionUpdate
  <2>1. "options" \in Kinds /\ pc' = pc /\ Append1("options")
    BY <1>2 DEF OptionUpdate, Kinds
  <2>2. QED BY <2>1, RowsAppend
<1>3. ASSUME NEW v \in Spots, SpotUpdate(v) PROVE RowsOK'
  <2>1. "spot" \in Kinds /\ pc' = pc /\ Append1("spot")
    BY <1>3 DEF SpotUpdate, Kinds
  <2>2. QED BY <2>1, RowsAppend
<1>4. CASE Flush
  <2>1. /\ \E kinds \in SUBSET Kinds : Drain(kinds, "write")
        /\ pc \notin Busy /\ "write" \in Busy /\ UNCHANGED <<stored, counted, received, lost>>
    <3>1. Large \subseteq Kinds
      BY DEF Large
    <3>2. QED BY <1>4, <3>1 DEF Flush, Busy
  <2>2. QED BY <2>1, RowsDrain
<1>5. CASE FinalFlush
  <2>1. pc \notin Busy /\ "finalWrite" \in Busy
    BY <1>5 DEF FinalFlush, Busy
  <2>2. CASE Drain(Kinds, "finalWrite") /\ UNCHANGED <<stored, counted, received, lost>>
    BY <2>1, <2>2, RowsDrain
  <2>3. CASE pc' = "unsubscribe" /\ UNCHANGED rows
    BY <2>1, <2>3, RowsQuiet DEF Busy
  <2>4. QED BY <1>5, <2>2, <2>3 DEF FinalFlush
<1>6. QED
  BY <1>1, <1>2, <1>3, <1>4, <1>5, RowsWrite, RowsLost DEF Next

-------------------------------------------------------------------------------
(* Ranks: of a set of strikes each has its own, from 0 on, without a gap. *)
LEMMA Below ==
  ASSUME NEW S \in SUBSET Strikes, NEW v
  PROVE  IsFiniteSet({t \in S : t < v}) /\ Rank(v, S) \in Nat /\ IsFiniteSet(S)
<1>1. S \in SUBSET Strikes /\ {t \in S : t < v} \in SUBSET Strikes /\ IsFiniteSet(Strikes)
  BY StreamingAssumption
<1>2. IsFiniteSet({t \in S : t < v}) /\ IsFiniteSet(S)
  BY <1>1, FS_Subset
<1>3. QED
  BY <1>2, FS_CardinalityType DEF Rank

LEMMA RankLess ==
  ASSUME NEW S \in SUBSET Strikes, NEW a \in S, NEW b \in S, a < b
  PROVE  Rank(a, S) < Rank(b, S)
<1> DEFINE A == {t \in S : t < a}
           B == {t \in S : t < b}
<1>1. a \in Nat /\ b \in Nat /\ S \subseteq Nat
  BY StreamingAssumption
<1>2. A \cup {a} \subseteq B /\ a \notin A
  <2>1. ASSUME NEW t \in A PROVE t \in B
    <3>1. t \in Nat /\ t < a /\ t \in S
      BY <1>1
    <3>2. t < b
      BY <1>1, <3>1
    <3>3. QED BY <3>1, <3>2
  <2>2. a \in B /\ a \notin A
    BY <1>1
  <2>3. QED BY <2>1, <2>2
<1>3. IsFiniteSet(A) /\ IsFiniteSet(B) /\ Cardinality(A) \in Nat /\ Cardinality(B) \in Nat
  BY Below, FS_CardinalityType
<1>4. Rank(a, S) = Cardinality(A) /\ Rank(b, S) = Cardinality(B)
  BY DEF Rank
<1> HIDE DEF A, B
<1>5. Cardinality(A \cup {a}) = Cardinality(A) + 1
  BY <1>2, <1>3, FS_AddElement
<1>6. Cardinality(A \cup {a}) <= Cardinality(B)
  BY <1>2, <1>3, FS_Subset
<1>7. QED
  <2>1. Cardinality(A) < Cardinality(B)
    BY <1>3, <1>5, <1>6
  <2>2. QED BY <1>4, <2>1

LEMMA RankUnique ==
  ASSUME NEW S \in SUBSET Strikes, NEW a \in S, NEW b \in S, Rank(a, S) = Rank(b, S)
  PROVE  a = b
<1>1. a \in Nat /\ b \in Nat /\ Rank(a, S) \in Nat /\ Rank(b, S) \in Nat
  BY Below, StreamingAssumption
<1>2. ~(a < b) /\ ~(b < a)
  BY <1>1, RankLess
<1>3. QED
  BY <1>1, <1>2

LEMMA RankBound ==
  ASSUME NEW S \in SUBSET Strikes, NEW a \in S
  PROVE  Rank(a, S) \in 0 .. Cardinality(S) - 1 /\ Cardinality(S) \in Nat
<1> DEFINE A == {t \in S : t < a}
<1>1. a \in Nat /\ S \subseteq Nat
  BY StreamingAssumption
<1>2. A \cup {a} \subseteq S /\ a \notin A
  BY <1>1
<1>3. IsFiniteSet(A) /\ IsFiniteSet(S) /\ Cardinality(A) \in Nat /\ Cardinality(S) \in Nat
  BY Below, FS_CardinalityType
<1>4. Rank(a, S) = Cardinality(A)
  BY DEF Rank
<1> HIDE DEF A
<1>5. Cardinality(A \cup {a}) = Cardinality(A) + 1
  BY <1>2, <1>3, FS_AddElement
<1>6. Cardinality(A \cup {a}) <= Cardinality(S)
  BY <1>2, <1>3, FS_Subset
<1>7. QED
  BY <1>3, <1>4, <1>5, <1>6

LEMMA RankOnto ==
  ASSUME NEW S \in SUBSET Strikes, S # {}, NEW r \in 0 .. Cardinality(S) - 1
  PROVE  \E c \in S : Rank(c, S) = r
<1> DEFINE f == [c \in S |-> Rank(c, S)]
           T == 0 .. Cardinality(S) - 1
<1>1. IsFiniteSet(S) /\ Cardinality(S) \in Nat /\ Cardinality(S) # 0
  BY Below, FS_CardinalityType, FS_EmptySet
<1>2. IsFiniteSet(T) /\ Cardinality(T) = Cardinality(S)
  <2>1. 0 \in Int /\ Cardinality(S) - 1 \in Int /\ ~(0 > Cardinality(S) - 1)
    BY <1>1
  <2>2. IsFiniteSet(T) /\ Cardinality(T) = (Cardinality(S) - 1) - 0 + 1
    BY <2>1, FS_Interval
  <2>3. QED BY <1>1, <2>2
<1>3. f \in [S -> T]
  BY RankBound
<1>4. \A a, b \in S : f[a] = f[b] => a = b
  BY RankUnique
<1>5. f \in Injection(S, T)
  <2> HIDE DEF f, T
  <2> QED BY <1>3, <1>4 DEF Injection, IsInjective
<1>6. f \in Surjection(S, T)
  <2> HIDE DEF f, T
  <2> QED BY <1>2, <1>5, FS_Injection
<1>7. \A t \in T : \E c \in S : f[c] = t
  <2> HIDE DEF f, T
  <2> QED BY <1>6 DEF Surjection
<1>8. PICK c \in S : f[c] = r
  BY <1>7
<1>9. QED
  BY <1>8

(* zip(qualified, metas). *)
LEMMA ZipType ==
  ASSUME NEW S \in SUBSET Strikes
  PROVE  DOMAIN Zip(S) \subseteq S /\ Zip(S) \in [DOMAIN Zip(S) -> Strikes]
<1> DEFINE ok == S \ unlisted
           D  == {l \in S : Rank(l, S) < Cardinality(ok)}
<1>1. Zip(S) = [l \in D |-> CHOOSE c \in ok : Rank(c, ok) = Rank(l, S)]
  BY DEF Zip
<1>2. ASSUME NEW l \in D
      PROVE  (CHOOSE c \in ok : Rank(c, ok) = Rank(l, S)) \in Strikes
  <2>1. ok \in SUBSET Strikes /\ Rank(l, S) \in Nat /\ Rank(l, S) < Cardinality(ok)
    BY Below
  <2>2. Cardinality(ok) \in Nat /\ IsFiniteSet(ok)
    BY Below, FS_CardinalityType
  <2> HIDE DEF ok
  <2>3. ok # {} /\ Rank(l, S) \in 0 .. Cardinality(ok) - 1
    BY <2>1, <2>2, FS_EmptySet
  <2>4. \E c \in ok : Rank(c, ok) = Rank(l, S)
    BY <2>1, <2>3, RankOnto
  <2>5. QED BY <2>1, <2>4
<1>3. QED
  <2> HIDE DEF ok
  <2> QED BY <1>1, <1>2

LEMMA ZipAll ==
  ASSUME NEW S \in SUBSET Strikes, unlisted = {}
  PROVE  Zip(S) = [s \in S |-> s]
<1>1. S \ unlisted = S
  OBVIOUS
<1>2. \A l \in S : Rank(l, S) < Cardinality(S)
  <2> SUFFICES ASSUME NEW l \in S PROVE Rank(l, S) < Cardinality(S)
    OBVIOUS
  <2>1. Rank(l, S) \in 0 .. Cardinality(S) - 1 /\ Cardinality(S) \in Nat
    BY RankBound
  <2>2. QED BY <2>1
<1>3. {l \in S : Rank(l, S) < Cardinality(S)} = S
  BY <1>2
<1>4. \A l \in S : (CHOOSE c \in S : Rank(c, S) = Rank(l, S)) = l
  BY RankUnique
<1>5. Zip(S) = [l \in S |-> CHOOSE c \in S : Rank(c, S) = Rank(l, S)]
  BY <1>1, <1>3 DEF Zip
<1>6. QED
  BY <1>4, <1>5

-------------------------------------------------------------------------------
(* The steps that open and close lines. *)
Settled  == {"loop", "flush", "write", "sleep"}
WindowOK == RunType /\ WindowType /\ Keys /\ Match

LEMMA WindowPart == \A v : Window(v) \subseteq Strikes
  BY DEF Window

(* Closing the dropped lines leaves the others, with their keys. *)
LEMMA DropEffect ==
  ASSUME WindowType, lines \subseteq Contracts(tickers), NEW dropped, Drop(dropped)
  PROVE  /\ DOMAIN tickers' = DOMAIN tickers \ dropped
         /\ tickers' \in [DOMAIN tickers' -> Strikes]
         /\ lines' \subseteq Contracts(tickers') /\ lines' \subseteq lines
         /\ \A S : Only(S) => Only(S \ dropped)'
<1>1. /\ tickers' = [l \in DOMAIN tickers \ dropped |-> tickers[l]]
      /\ lines' = lines \ {tickers[l] : l \in dropped \cap DOMAIN tickers}
  BY DEF Drop
<1>2. DOMAIN tickers' = DOMAIN tickers \ dropped /\ lines' \subseteq lines
  BY <1>1
<1>3. tickers' \in [DOMAIN tickers' -> Strikes]
  BY <1>1, <1>2 DEF WindowType
<1>4. ASSUME NEW x \in lines' PROVE x \in Contracts(tickers')
  <2>1. PICK l \in DOMAIN tickers : x = tickers[l]
    BY <1>2, <1>4 DEF Contracts
  <2>2. l \notin dropped
    BY <1>1, <1>4, <2>1
  <2>3. l \in DOMAIN tickers' /\ tickers'[l] = x
    BY <1>1, <2>1, <2>2
  <2>4. QED BY <2>3 DEF Contracts
<1>5. ASSUME NEW S, Only(S) PROVE Only(S \ dropped)'
  <2>1. DOMAIN tickers = S /\ \A l \in S : tickers[l] = l
    BY <1>5 DEF Only
  <2>2. tickers' = [l \in S \ dropped |-> l]
    BY <1>1, <2>1
  <2>3. {tickers[l] : l \in dropped \cap DOMAIN tickers} = dropped \cap S
    BY <2>1
  <2>4. lines' = S \ dropped
    BY <1>1, <1>5, <2>3 DEF Only
  <2>5. QED BY <2>2, <2>4 DEF Only
<1>6. QED
  BY <1>2, <1>3, <1>4, <1>5

(* Opening the lines of new strikes keeps the others, with their keys. *)
LEMMA AddEffect ==
  ASSUME WindowType, lines \subseteq Contracts(tickers), NEW N \in SUBSET Strikes,
         DOMAIN tickers \cap N = {},
         tickers' = Join(tickers, Zip(N)), lines' = lines \cup Contracts(Zip(N))
  PROVE  /\ DOMAIN tickers' \subseteq DOMAIN tickers \cup N
         /\ tickers' \in [DOMAIN tickers' -> Strikes]
         /\ lines' \subseteq Contracts(tickers') /\ lines' \subseteq Strikes
         /\ unlisted = {} => \A S : Only(S) => Only(S \cup N)'
<1>1. PICK g : g = Zip(N) /\ DOMAIN g \subseteq N /\ g \in [DOMAIN g -> Strikes]
  BY ZipType
<1>2. PICK f : f = tickers /\ f \in [DOMAIN f -> Strikes] /\ DOMAIN f \cap DOMAIN g = {}
  BY <1>1 DEF WindowType
<1>3. /\ tickers' = [x \in DOMAIN f \cup DOMAIN g |-> IF x \in DOMAIN g THEN g[x] ELSE f[x]]
      /\ lines' = lines \cup Contracts(g)
  BY <1>1, <1>2 DEF Join
<1>4. DOMAIN tickers' = DOMAIN f \cup DOMAIN g
  BY <1>3
<1>5. /\ \A l \in DOMAIN f : tickers'[l] = f[l]
      /\ \A l \in DOMAIN g : tickers'[l] = g[l]
  BY <1>2, <1>3
<1>6. tickers' \in [DOMAIN tickers' -> Strikes]
  <2>1. \A l \in DOMAIN f \cup DOMAIN g : tickers'[l] \in Strikes
    BY <1>1, <1>2, <1>5
  <2>2. QED BY <1>3, <1>4, <2>1
<1>7. Contracts(f) \cup Contracts(g) \subseteq Contracts(tickers')
  BY <1>4, <1>5 DEF Contracts
<1>8. Contracts(g) \subseteq Strikes
  BY <1>1 DEF Contracts
<1>9. ASSUME unlisted = {}, NEW S, Only(S) PROVE Only(S \cup N)'
  <2>1. g = [s \in N |-> s] /\ f = [s \in S |-> s] /\ lines = S
    BY <1>1, <1>2, <1>9, ZipAll DEF Only
  <2>2. DOMAIN g = N /\ DOMAIN f = S /\ Contracts(g) = N
    BY <2>1 DEF Contracts
  <2>3. tickers' = [x \in S \cup N |-> x]
    BY <1>3, <2>1, <2>2
  <2>4. lines' = S \cup N
    BY <1>3, <2>1, <2>2
  <2>5. QED BY <2>3, <2>4 DEF Only
<1>10. QED
  BY <1>1, <1>2, <1>3, <1>4, <1>6, <1>7, <1>8, <1>9 DEF WindowType

(* A step that neither opens nor closes a line. *)
LEMMA WindowQuiet ==
  ASSUME WindowOK, RunType', UNCHANGED <<unlisted, strikes, tickers, lines, window>>,
         pc' \in Settled => pc \in Settled, pc' = "qualify" => pc = "qualify",
         pc' \in {"start", "seeded"} => pc \in {"start", "seeded"},
         pc' = "exit" /\ lost' = {} => lines = {}
  PROVE  WindowOK'
<1>1. WindowType'
  BY DEF WindowOK, WindowType
<1>2. Keys'
  BY DEF WindowOK, Keys, Contracts
<1>3. Match'
  BY DEF WindowOK, Match, Only, Settled
<1>4. QED BY <1>1, <1>2, <1>3 DEF WindowOK

LEMMA WindowInit == Init => WindowOK
<1> SUFFICES ASSUME Init PROVE WindowOK
  OBVIOUS
<1>1. RunType
  BY DEF Init, RunType, Steps
<1>2. DOMAIN tickers = {} /\ tickers \in [DOMAIN tickers -> Strikes]
  <2>1. <<>> \in Seq(Strikes) /\ Len(<<>>) = 0
    OBVIOUS
  <2>2. DOMAIN <<>> = 1 .. 0
    BY <2>1, LenProperties
  <2>3. <<>> \in [1 .. 0 -> Strikes]
    BY <2>1, LenProperties
  <2>4. QED BY <2>2, <2>3 DEF Init
<1>3. WindowType
  BY <1>2 DEF Init, WindowType
<1>4. Keys /\ Match
  BY <1>2 DEF Init, Keys, Match
<1>5. QED BY <1>1, <1>3, <1>4 DEF WindowOK

LEMMA RunStep == ASSUME RunType, Next PROVE RunType'
<1>1. CASE \/ Seed \/ Subscribe \/ SubscribeFails \/ RebalanceNotDue \/ Qualified \/ QualifyFails
           \/ FlushDone \/ WriteFails \/ Sleep \/ Stop \/ Unsubscribe \/ Exit \/ OptionUpdate
  BY <1>1 DEF RunType, Steps, Running, config, subs, Seed, Subscribe, SubscribeFails, RebalanceNotDue, Qualified,
              QualifyFails, FlushDone, WriteFails, Sleep, Stop, Unsubscribe, Exit, OptionUpdate
<1>2. CASE MaybeRebalance
  <2>1. pc' \in {"flush", "qualify"} /\ last' \in {last, spot} /\ UNCHANGED <<config, spot>>
    BY <1>2 DEF MaybeRebalance
  <2>2. QED BY <2>1 DEF RunType, Steps, Running, config
<1>3. ASSUME NEW v \in Spots, SpotUpdate(v) PROVE RunType'
  BY <1>3 DEF SpotUpdate, RunType, config
<1>4. CASE Flush \/ FinalFlush
  <2>1. pc' \in {"write", "finalWrite", "unsubscribe"} /\ UNCHANGED subs
    BY <1>4 DEF Flush, FinalFlush, Drain
  <2>2. QED BY <2>1 DEF RunType, Steps, Running, config, subs
<1>5. CASE Write
  <2>1. pc' \in {pc, "flush", "unsubscribe"} /\ UNCHANGED subs
    BY <1>5 DEF Write
  <2>2. QED BY <2>1 DEF RunType, Steps, Running, config, subs
<1>6. QED
  BY <1>1, <1>2, <1>3, <1>4, <1>5 DEF Next

LEMMA WindowStep == ASSUME WindowOK, Drained, Next PROVE WindowOK'
<1> USE DEF WindowOK, subs, config
<1>0. RunType' /\ unlisted' = unlisted
  <2>1. unlisted' = unlisted
    BY DEF Next, Seed, Subscribe, SubscribeFails, MaybeRebalance, RebalanceNotDue, Qualified, QualifyFails,
           OptionUpdate, SpotUpdate, Flush, FlushDone, Write, WriteFails, Sleep, Stop, FinalFlush,
           Unsubscribe, Exit
  <2>2. QED BY <2>1, RunStep
<1>1. CASE Seed
  <2>1. /\ pc = "start" /\ pc' = "seeded" /\ strikes' \subseteq Strikes
        /\ UNCHANGED <<tickers, lines, window>>
    BY <1>1, WindowPart DEF Seed
  <2>2. DOMAIN tickers = {}
    BY <2>1 DEF Keys
  <2>3. WindowType' /\ Keys' /\ Match'
    BY <2>1, <2>2 DEF WindowType, Keys, Match, Contracts
  <2>4. QED BY <1>0, <2>3
<1>2. CASE Subscribe
  <2>1. /\ pc' = "loop" /\ tickers' = Zip(strikes) /\ lines' = Contracts(Zip(strikes))
        /\ UNCHANGED <<strikes, window>>
    BY <1>2 DEF Subscribe
  <2>2. PICK g : g = Zip(strikes) /\ DOMAIN g \subseteq strikes /\ g \in [DOMAIN g -> Strikes]
    BY ZipType DEF WindowType
  <2>3. WindowType' /\ Keys'
    BY <2>1, <2>2 DEF WindowType, Keys, Contracts
  <2>4. Match'
    <3>1. unlisted = {} => g = [s \in strikes |-> s]
      BY <2>2, ZipAll DEF WindowType
    <3>2. unlisted = {} => Contracts(g) = strikes
      BY <3>1 DEF Contracts
    <3>3. QED BY <1>0, <2>1, <2>2, <3>1, <3>2 DEF Match, Only
  <2>5. QED BY <1>0, <2>3, <2>4
<1>3. CASE SubscribeFails
  <2>1. /\ pc \in {"start", "seeded"} /\ pc' = "exit"
        /\ UNCHANGED <<unlisted, strikes, tickers, lines, window>>
    BY <1>3 DEF SubscribeFails
  <2>2. lines = {}
    BY <2>1 DEF Keys, Contracts
  <2>3. QED BY <1>0, <2>1, <2>2, WindowQuiet DEF Settled
<1>4. CASE MaybeRebalance
  <2>1. PICK new \in SUBSET Strikes : new = Window(spot)
    BY WindowPart
  <2>2. CASE ShouldRebalance(last, spot) /\ new # strikes
    <3>1. PICK old, both, gone : old = strikes /\ both = old \cap new /\ gone = old \ new
      OBVIOUS
    <3>2. /\ pc = "loop" /\ Drop(gone)
          /\ \/ new \subseteq old /\ pc' = "flush" /\ strikes' = new /\ window' = window
             \/ pc' = "qualify" /\ window' = new /\ strikes' = old
      BY <1>4, <2>1, <2>2, <3>1 DEF MaybeRebalance
    <3>3. /\ DOMAIN tickers' = DOMAIN tickers \ gone
          /\ tickers' \in [DOMAIN tickers' -> Strikes]
          /\ lines' \subseteq Contracts(tickers') /\ lines' \subseteq lines
          /\ \A S : Only(S) => Only(S \ gone)'
      <4>1. Drop(gone) /\ WindowType /\ lines \subseteq Contracts(tickers)
        BY <3>2 DEF Keys
      <4>2. QED BY <4>1, DropEffect
    <3>4. DOMAIN tickers' \subseteq both
      BY <3>1, <3>3 DEF Keys
    <3>5. both \subseteq new /\ both \subseteq old /\ lines' \subseteq Strikes /\ old \subseteq Strikes
      BY <3>1, <3>3 DEF WindowType
    <3>6. WindowType' /\ Keys'
      <4>1. WindowType'
        BY <3>2, <3>3, <3>4, <3>5 DEF WindowType
      <4>2. Keys'
        BY <3>2, <3>3, <3>4, <3>5 DEF Keys
      <4>3. QED BY <4>1, <4>2
    <3>7. unlisted = {} => Only(both)'
      <4>1. unlisted = {} => Only(old)
        BY <3>1, <3>2 DEF Match
      <4>2. old \ gone = both
        BY <3>1
      <4>3. QED BY <3>3, <4>1, <4>2
    <3>8. Match'
      <4>1. unlisted = {} => lines' = both /\ tickers' = [s \in both |-> s]
        BY <3>7 DEF Only
      <4>2. CASE new \subseteq old /\ pc' = "flush" /\ strikes' = new
        <5>1. both = new
          BY <3>1, <4>2
        <5>2. QED BY <1>0, <4>1, <4>2, <5>1 DEF Match, Only
      <4>3. CASE pc' = "qualify" /\ window' = new /\ strikes' = old
        BY <1>0, <3>1, <4>1, <4>3 DEF Match, Only
      <4>4. QED BY <3>2, <4>2, <4>3
    <3>9. QED BY <1>0, <3>6, <3>8
  <2>3. CASE ~(ShouldRebalance(last, spot) /\ new # strikes)
    <3>1. pc = "loop" /\ pc' = "flush" /\ UNCHANGED <<unlisted, strikes, tickers, lines, window>>
      BY <1>0, <1>4, <2>1, <2>3 DEF MaybeRebalance
    <3>2. QED BY <1>0, <3>1, WindowQuiet DEF Settled
  <2>4. QED BY <2>2, <2>3
<1>5. CASE Qualified
  <2>1. PICK N \in SUBSET Strikes : N = window \ strikes
    BY DEF WindowType
  <2>2. /\ pc = "qualify" /\ pc' = "flush" /\ strikes' = window /\ window' = {}
        /\ tickers' = Join(tickers, Zip(N)) /\ lines' = lines \cup Contracts(Zip(N))
    BY <1>5, <2>1 DEF Qualified
  <2>3. DOMAIN tickers \subseteq strikes \cap window
    BY <2>2 DEF Keys
  <2>4. /\ DOMAIN tickers' \subseteq DOMAIN tickers \cup N
        /\ tickers' \in [DOMAIN tickers' -> Strikes]
        /\ lines' \subseteq Contracts(tickers') /\ lines' \subseteq Strikes
        /\ unlisted = {} => \A S : Only(S) => Only(S \cup N)'
    <3>1. DOMAIN tickers \cap N = {}
      BY <2>1, <2>3
    <3>2. QED BY <2>2, <3>1, AddEffect DEF Keys
  <2>5. DOMAIN tickers' \subseteq window
    BY <2>1, <2>3, <2>4
  <2>6. WindowType' /\ Keys'
    BY <2>2, <2>4, <2>5 DEF WindowType, Keys
  <2>7. Match'
    <3>1. unlisted = {} => Only(strikes \cap window)
      BY <2>2 DEF Match
    <3>2. (strikes \cap window) \cup N = window
      BY <2>1
    <3>3. unlisted = {} => lines' = window /\ tickers' = [s \in window |-> s]
      BY <2>4, <3>1, <3>2 DEF Only
    <3>4. QED BY <1>0, <2>2, <3>3 DEF Match, Only
  <2>8. QED BY <1>0, <2>6, <2>7
<1>6. CASE Unsubscribe
  <2>1. /\ pc' = "exit" /\ lines' = lines \ Contracts(tickers) /\ UNCHANGED <<strikes, tickers, window>>
    BY <1>6 DEF Unsubscribe
  <2>2. lines' = {}
    BY <2>1 DEF Keys
  <2>3. WindowType' /\ Keys' /\ Match'
    BY <2>1, <2>2 DEF WindowType, Keys, Match
  <2>4. QED BY <1>0, <2>3
<1>7. CASE Exit
  <2>1. pc' = "ended" /\ lines' = {} /\ UNCHANGED <<strikes, tickers, window>>
    BY <1>7 DEF Exit
  <2>2. WindowType' /\ Keys' /\ Match'
    BY <2>1 DEF WindowType, Keys, Match
  <2>3. QED BY <1>0, <2>2
<1>8. CASE RebalanceNotDue \/ QualifyFails \/ FlushDone \/ Sleep \/ Stop
  BY <1>0, <1>8, WindowQuiet DEF RebalanceNotDue, QualifyFails, FlushDone, Sleep, Stop, Settled
<1>9. CASE OptionUpdate \/ \E v \in Spots : SpotUpdate(v)
  <2>1. UNCHANGED <<pc, unlisted, strikes, tickers, lines, window, lost>>
    BY <1>9 DEF OptionUpdate, SpotUpdate, Append1
  <2>2. QED BY <1>0, <2>1, WindowQuiet DEF Keys
<1>10. CASE Flush \/ FinalFlush
  <2>1. /\ \/ pc = "flush" /\ pc' = "write"
           \/ pc = "final" /\ pc' \in {"finalWrite", "unsubscribe"}
        /\ UNCHANGED <<unlisted, strikes, tickers, lines, window>>
    BY <1>10 DEF Flush, FinalFlush, Drain
  <2>2. QED BY <1>0, <2>1, WindowQuiet DEF Settled
<1>11. CASE Write
  <2>1. /\ pc \in {"write", "finalWrite"} /\ pc' \in {pc, "flush", "unsubscribe"}
        /\ pc = "finalWrite" => pc' \in {pc, "unsubscribe"}
        /\ UNCHANGED <<unlisted, strikes, tickers, lines, window>>
    BY <1>11 DEF Write
  <2>2. QED BY <1>0, <2>1, WindowQuiet DEF Settled
<1>12. CASE WriteFails
  <2>1. /\ pc \in {"write", "finalWrite"} /\ pc' \in {"final", "exit"}
        /\ lost' = lost \cup {k \in Kinds : drained[k] # <<>>}
        /\ UNCHANGED <<unlisted, strikes, tickers, lines, window>>
    BY <1>12 DEF WriteFails
  <2>2. lost' # {}
    BY <2>1 DEF Drained
  <2>3. QED BY <1>0, <2>1, <2>2, WindowQuiet DEF Settled
<1>13. QED
  BY <1>1, <1>2, <1>3, <1>4, <1>5, <1>6, <1>7, <1>8, <1>9, <1>10, <1>11, <1>12 DEF Next

-------------------------------------------------------------------------------
LEMMA InitOK == Init => IInv
<1>1. Init => RowsOK /\ WindowOK
  BY RowsInit, WindowInit
<1>2. RowsOK /\ WindowOK => IInv
  BY DEF RowsOK, WindowOK, IInv
<1>3. QED BY <1>1, <1>2

LEMMA StepOK == IInv /\ [Next]_vars => IInv'
<1> SUFFICES ASSUME IInv, [Next]_vars PROVE IInv'
  OBVIOUS
<1>1. RowsOK /\ WindowOK /\ Drained
  BY DEF RowsOK, WindowOK, IInv
<1>2. CASE Next
  <2>1. RowsOK' /\ WindowOK'
    BY <1>1, <1>2, RowsStep, WindowStep
  <2>2. QED BY <2>1 DEF RowsOK, WindowOK, IInv
<1>3. CASE UNCHANGED vars
  <2>1. UNCHANGED pc /\ UNCHANGED subs /\ UNCHANGED rows
    BY <1>3 DEF vars
  <2>2. RowsOK'
    BY <1>1, <2>1, RowsQuiet
  <2>3. WindowOK'
    <3>1. UNCHANGED <<pc, perKind, spot, last, unlisted, strikes, tickers, lines, window, lost>>
      BY <2>1 DEF subs, config, rows
    <3>2. RunType'
      BY <1>1, <3>1 DEF WindowOK, RunType
    <3>3. pc' = "exit" /\ lost' = {} => lines = {}
      BY <1>1, <3>1 DEF WindowOK, Keys
    <3>4. QED BY <1>1, <3>1, <3>2, <3>3, WindowQuiet
  <2>4. QED BY <2>2, <2>3 DEF RowsOK, WindowOK, IInv
<1>4. QED BY <1>2, <1>3

LEMMA Invariance == Spec => []IInv
  BY InitOK, StepOK, PTL DEF Spec

-------------------------------------------------------------------------------
(* Every variable of the runner keeps its type, no buffer holds more rows  *)
(* than arrived, and rows are in the hands of a flush only while it writes *)
(* (_flush_buffers).                                                       *)
THEOREM TypeCorrect == Spec => []TypeOK
<1>1. IInv => TypeOK
  <2> SUFFICES ASSUME IInv PROVE TypeOK
    OBVIOUS
  <2>1. RunType /\ WindowType /\ lost \subseteq Kinds
    BY DEF IInv, RowsType
  <2>2. \A l \in DOMAIN tickers : tickers[l] \in Strikes
    BY <2>1 DEF WindowType
  <2>3. ASSUME NEW k \in Kinds
        PROVE  /\ received[k] \in 0 .. MaxRows
               /\ counted[k] \in 0 .. received[k]
               /\ Len(buf[k]) + Len(drained[k]) + Len(stored[k]) <= received[k]
    <3>1. /\ buf[k] \in Seq(Nat) /\ drained[k] \in Seq(Nat) /\ stored[k] \in Seq(Nat)
          /\ received[k] \in 0 .. MaxRows /\ counted[k] \in Nat
      BY DEF IInv, RowsType
    <3>2. Len(buf[k]) \in Nat /\ Len(drained[k]) \in Nat /\ Len(stored[k]) \in Nat
      BY <3>1, LenProperties
    <3>3. /\ Len(buf[k]) + Len(drained[k]) + Len(stored[k]) <= received[k]
          /\ counted[k] <= Len(stored[k])
      BY DEF IInv, InOrder, Ordered
    <3>4. PICK b \in Nat, d \in Nat, s \in Nat :
                 b = Len(buf[k]) /\ d = Len(drained[k]) /\ s = Len(stored[k])
      BY <3>2
    <3>5. PICK n \in Nat, c \in Nat : n = received[k] /\ c = counted[k]
      BY <3>1, StreamingAssumption
    <3>6. b + d + s <= n /\ c <= s
      BY <3>3, <3>4, <3>5, Zenon
    <3>7. counted[k] \in 0 .. received[k]
      <4>1. c \in 0 .. n
        BY <3>6
      <4>2. QED BY <3>5, <4>1
    <3>8. QED BY <3>1, <3>3, <3>7
  <2>4. drained # NoRows => pc \in {"write", "finalWrite"}
    BY DEF IInv, Drained
  <2>5. QED BY <2>1, <2>2, <2>3, <2>4 DEF TypeOK, RunType, WindowType
<1>2. QED BY <1>1, Invariance, PTL

(* The runner knows every line it has opened, after any number of moves of *)
(* the window and whichever contracts the gateway leaves out; when it has  *)
(* unsubscribed, none is open (_option_tickers).                           *)
THEOREM EachLineIsKnown == Spec => []NoLeakedLine
<1>1. IInv => NoLeakedLine
  BY DEF IInv, Keys, NoLeakedLine
<1>2. QED BY <1>1, Invariance, PTL

(* With a gateway that knows every contract, the lines are those of the    *)
(* window and each is filed under its own strike                           *)
(* (_update_option_subscriptions).                                         *)
THEOREM LinesFollowWindow == Spec => []LinesMatchWindow
<1>1. IInv => LinesMatchWindow
  BY DEF IInv, Match, Only, LinesMatchWindow
<1>2. QED BY <1>1, Invariance, PTL

(* However many rows arrive and whenever they are flushed, those of a kind *)
(* no write of which failed are stored, drained or buffered in the order   *)
(* of their arrival, each once, and those stored are counted.              *)
THEOREM RowsArriveInOrder == Spec => []RowsInOrder
<1>1. IInv => RowsInOrder
  BY DEF IInv, InOrder, Ordered, Numbers, RowsInOrder
<1>2. QED BY <1>1, Invariance, PTL
================================================================================
