----------------------------- MODULE InputProofs -----------------------------
(***************************************************************************)
(* Proofs about what an import makes of its input: about the documents of  *)
(* Readers and their batches, for any source, any lengths of lines and any *)
(* caps, and about the RDF import, for any statements, options and number  *)
(* of runs.                                                                *)
(***************************************************************************)
EXTENDS Readers, Rdf, Induction

-----------------------------------------------------------------------------
(* What a step of the readers is to the batcher *)

BatcherStep ==
  \/ \E length \in LineLengths : Document(length)
  \/ EndOfInput \/ InputError \/ UNCHANGED vars

\* A value read becomes a document, ends the input in error, or is skipped.
LEMMA DeliverShape == ASSUME NEW value, Deliver(value) PROVE BatcherStep
<1> DEFINE verdict == IF source.command.edge THEN CheckEdge(source.command, value) ELSE "present"
<1>1. CASE value = Invalid \/ verdict = "bad"
  BY <1>1 DEF Deliver, FailWith, BatcherStep
<1>2. CASE ~(value = Invalid \/ verdict = "bad") /\ verdict = "empty"
  BY <1>2 DEF Deliver, BatcherStep
<1>3. CASE ~(value = Invalid \/ verdict = "bad") /\ verdict # "empty"
  BY <1>3 DEF Deliver, BatcherStep
<1> QED BY <1>1, <1>2, <1>3

\* Every step of the readers is one of the batcher, or leaves it alone.
LEMMA ReadersStep == [ReadersNext]_ingestVars => BatcherStep
<1> SUFFICES ASSUME [ReadersNext]_ingestVars PROVE BatcherStep
  OBVIOUS
<1>1. CASE Open
  BY <1>1 DEF Open, BatcherStep
<1>2. CASE ReadChunk
  BY <1>2 DEF ReadChunk, FailWith, BatcherStep
<1>3. CASE NextElement
  BY <1>3, DeliverShape DEF NextElement
<1>4. CASE EndOfArray
  BY <1>4 DEF EndOfArray, FailWith, BatcherStep
<1>5. CASE NextLine
  BY <1>5, DeliverShape DEF NextLine, BatcherStep
<1>6. CASE NextRow
  BY <1>6, DeliverShape DEF NextRow
<1>7. CASE EndOfRecords \/ ReadFails
  BY <1>7 DEF EndOfRecords, ReadFails, FailWith, BatcherStep
<1>8. CASE Finished \/ UNCHANGED ingestVars
  BY <1>8 DEF Finished, ingestVars, BatcherStep
<1> QED
  BY <1>1, <1>2, <1>3, <1>4, <1>5, <1>6, <1>7, <1>8 DEF ReadersNext

-----------------------------------------------------------------------------
(* The length of a body *)

Lengths(docs, length) == [i \in DOMAIN docs |-> length[docs[i]]]

\* It is the sum of the lengths of the lines in it.
LEMMA BytesSum ==
  ASSUME NEW n \in Nat, NEW length \in [1..n -> Nat], NEW docs \in Seq(1..n)
  PROVE  /\ Lengths(docs, length) \in [1..Len(docs) -> Nat]
         /\ \A i \in 1..Len(docs) : Lengths(docs, length)[i] = length[docs[i]]
         /\ Bytes(docs, length) = Sum(Lengths(docs, length), 1..Len(docs))
<1>1. DOMAIN docs = 1..Len(docs) /\ \A i \in 1..Len(docs) : docs[i] \in 1..n
  BY LenProperties, ElementOfSeq
<1>2. /\ Lengths(docs, length) \in [1..Len(docs) -> Nat]
      /\ \A i \in 1..Len(docs) : Lengths(docs, length)[i] = length[docs[i]]
  BY <1>1 DEF Lengths
<1>3. Bytes(docs, length) = SumFunction(Lengths(docs, length))
  BY DEF Bytes, Lengths
<1>4. DOMAIN Lengths(docs, length) = 1..Len(docs)
  BY <1>1 DEF Lengths
<1>5. \A f : SumFunction(f) = Sum(f, DOMAIN f)
  BY DEF SumFunction, SumFunctionOnSet, FoldFunctionOnSet, Sum, MapThenSumSet
<1> QED BY <1>2, <1>3, <1>4, <1>5

\* It is a number.
LEMMA BytesType ==
  ASSUME NEW n \in Nat, NEW length \in [1..n -> Nat], NEW docs \in Seq(1..n)
  PROVE  Bytes(docs, length) \in Nat
<1> DEFINE T == 1..Len(docs)
           f == Lengths(docs, length)
<1>1. f \in [T -> Nat] /\ Bytes(docs, length) = Sum(f, T)
  BY BytesSum
<1>2. IsFiniteSet(T) /\ T \in SUBSET T
  <2>1. Len(docs) \in Int /\ 1 \in Int
    BY LenProperties
  <2> QED BY <2>1, FS_Interval
<1> HIDE DEF T, f
<1> QED BY <1>1, <1>2, SumNatural

\* The lengths of other documents make no difference.
LEMMA BytesKept ==
  ASSUME NEW n \in Nat, NEW m \in Nat, NEW length \in [1..n -> Nat], NEW longer \in [1..m -> Nat],
         NEW docs \in Seq(1..n), docs \in Seq(1..m), \A d \in 1..n : longer[d] = length[d]
  PROVE  Bytes(docs, longer) = Bytes(docs, length)
<1>1. \A i \in 1..Len(docs) : docs[i] \in 1..n
  BY ElementOfSeq
<1>2. DOMAIN docs = 1..Len(docs)
  BY LenProperties
<1>3. [i \in DOMAIN docs |-> longer[docs[i]]] = [i \in DOMAIN docs |-> length[docs[i]]]
  BY <1>1, <1>2
<1> QED BY <1>3 DEF Bytes

\* One document more adds its line.
LEMMA BytesMore ==
  ASSUME NEW n \in Nat, NEW length \in [1..n -> Nat], NEW docs \in Seq(1..n), NEW d \in 1..n
  PROVE  Bytes(Append(docs, d), length) = Bytes(docs, length) + length[d]
<1> DEFINE more == Append(docs, d)
           k == Len(docs)
           T == 1..(k + 1)
           S == 1..k
           f == Lengths(more, length)
           g == Lengths(docs, length)
<1>1. /\ k \in Nat /\ more \in Seq(1..n) /\ Len(more) = k + 1 /\ more[k + 1] = d
      /\ \A i \in S : more[i] = docs[i]
  BY AppendFacts
<1>2. g \in [S -> Nat] /\ Bytes(docs, length) = Sum(g, S) /\ \A i \in S : g[i] = length[docs[i]]
  BY BytesSum
<1> HIDE DEF more
<1>3. f \in [T -> Nat] /\ Bytes(more, length) = Sum(f, T) /\ \A i \in T : f[i] = length[more[i]]
  BY <1>1, BytesSum
<1>4. T = S \cup {k + 1}
  BY <1>1
<1>5. IsFiniteSet(T) /\ IsFiniteSet(S) /\ S \in SUBSET T /\ k + 1 \in T \ S /\ S \in SUBSET S
  <2>1. k \in Int /\ k + 1 \in Int /\ 1 \in Int
    BY <1>1
  <2>2. IsFiniteSet(T) /\ IsFiniteSet(S)
    BY <2>1, FS_Interval
  <2> QED BY <1>1, <2>2
<1> HIDE DEF f, g, k
<1>6. \A i \in S : f[i] = g[i]
  BY <1>1, <1>2, <1>3, <1>5
<1>7. f \in [T -> Int] /\ g \in [S -> Int]
  BY <1>2, <1>3
<1>8. f[k + 1] = length[d]
  BY <1>1, <1>3, <1>5
<1> DEFINE e == k + 1
<1>9. IsFiniteSet(S) /\ e \notin S /\ S \subseteq T /\ e \in T /\ T \ {e} \subseteq S
  BY <1>5, <1>4
<1> HIDE DEF T, S, e
<1>10. Gains(S, e, T)
  BY <1>9, SumGrows
<1>11. Sum(f, T) = f[e] + Sum(g, S)
  BY <1>6, <1>7, <1>10 DEF Gains
<1>12. Bytes(docs, length) \in Nat /\ length[d] \in Nat
  BY BytesType
<1> QED BY <1>2, <1>3, <1>8, <1>11, <1>12 DEF more, e

-----------------------------------------------------------------------------
(* The documents handed on, in order *)

\* A sequence over a set is one over any larger set.
LEMMA SeqWider ==
  ASSUME NEW A, NEW B, A \subseteq B
  PROVE  Seq(A) \subseteq Seq(B)
<1> SUFFICES ASSUME NEW s \in Seq(A) PROVE s \in Seq(B)
  OBVIOUS
<1>1. s \in [1..Len(s) -> A] /\ Len(s) \in Nat
  BY LenProperties
<1>2. s \in [1..Len(s) -> B]
  BY <1>1
<1> QED BY <1>1, <1>2, SeqDef

\* s is 1, 2, 3, ...
Counts(s) == s = [i \in 1..Len(s) |-> i]

\* The next document continues the count.
LEMMA CountsNext ==
  ASSUME NEW s \in Seq(Nat), Counts(s)
  PROVE  Counts(Append(s, Len(s) + 1))
<1> DEFINE n == Len(s)
           more == Append(s, n + 1)
<1>1. n \in Nat /\ more \in Seq(Nat) /\ Len(more) = n + 1 /\ more[n + 1] = n + 1 /\ \A i \in 1..n : more[i] = s[i]
  OBVIOUS
<1>2. \A i \in 1..n : s[i] = i
  BY DEF Counts
<1> HIDE DEF n, more
<1>3. \A i \in 1..(n + 1) : more[i] = i
  BY <1>1, <1>2
<1>4. more = [i \in 1..Len(more) |-> more[i]]
  BY <1>1, LenProperties
<1>5. Counts(more)
  BY <1>1, <1>3, <1>4 DEF Counts
<1> QED BY <1>5 DEF more, n

\* A prefix of a count is one, and what follows ends with its length.
LEMMA CountsParts ==
  ASSUME NEW s \in Seq(Nat), NEW t \in Seq(Nat), Counts(s \o t)
  PROVE  /\ Counts(s)
         /\ t # << >> => Last(t) = Len(s \o t)
<1> DEFINE u == s \o t
           m == Len(s)
           k == Len(t)
<1>1. /\ m \in Nat /\ k \in Nat /\ u \in Seq(Nat) /\ Len(u) = m + k
      /\ \A i \in 1..m : u[i] = s[i]
      /\ \A i \in 1..k : u[m + i] = t[i]
  BY ConcatProperties, LenProperties
<1> HIDE DEF u
<1>2. \A i \in 1..Len(u) : u[i] = i
  BY DEF Counts, u
<1>3. \A i \in 1..m : s[i] = i
  BY <1>1, <1>2
<1>4. s = [i \in 1..m |-> s[i]]
  BY LenProperties
<1>5. Counts(s)
  BY <1>3, <1>4 DEF Counts
<1>6. ASSUME t # << >> PROVE Last(t) = Len(u)
  <2>1. k \in 1..k /\ m + k \in 1..Len(u)
    BY <1>1, <1>6, EmptySeq
  <2>2. t[k] = m + k
    BY <1>1, <1>2, <2>1
  <2> QED BY <1>1, <2>2 DEF Last
<1> QED BY <1>5, <1>6 DEF u

\* The documents in the batches y and in the body b.
Handed(y, b) == FlattenSeq(y) \o b

\* Flushing the body hands on neither more nor less.
LEMMA HandedFlush ==
  ASSUME NEW y \in Seq(Seq(Nat)), NEW b \in Seq(Nat)
  PROVE  Handed(Append(y, b), << >>) = Handed(y, b) /\ Handed(y, b) \in Seq(Nat)
<1>1. FlattenSeq(Append(y, b)) = FlattenSeq(y) \o b
  BY FlattenAppend
<1>2. FlattenSeq(y) \in Seq(Nat)
  BY FlattenType
<1> DEFINE f == FlattenSeq(y)
<1> HIDE DEF f
<1>3. f \o b \in Seq(Nat) /\ (f \o b) \o << >> = f \o b
  BY <1>2 DEF f
<1> QED BY <1>1, <1>3 DEF Handed, f

\* A document more in the body is one more handed on.
LEMMA HandedAdd ==
  ASSUME NEW y \in Seq(Seq(Nat)), NEW b \in Seq(Nat), NEW d \in Nat
  PROVE  Handed(y, Append(b, d)) = Append(Handed(y, b), d)
<1> DEFINE f == FlattenSeq(y)
<1>1. f \in Seq(Nat)
  BY FlattenType
<1> HIDE DEF f
<1>2. f \o Append(b, d) = Append(f \o b, d)
  BY <1>1
<1> QED BY <1>2 DEF Handed, f

-----------------------------------------------------------------------------
(* A batch *)

\* What is known of a batch b after the lengths ls, under the caps mb and md:
\* its size, and what cut it.
Fits(b, ls, mb, md) ==
  /\ b # << >>
  /\ Len(b) > 1 => Bytes(b, ls) <= mb /\ Len(b) <= md

CutByCap(b, ls, mb, md) ==
  \/ Len(b) >= md
  \/ Last(b) + 1 \in 1..Len(ls) /\ Bytes(b, ls) + ls[Last(b) + 1] > mb

Fine(b, ls, mb, md, over) ==
  /\ Fits(b, ls, mb, md)
  /\ CutByCap(b, ls, mb, md) \/ (over /\ Last(b) + 1 > Len(ls))

AllFine(y, ls, mb, md, over) ==
  /\ y \in Seq(Seq(1..Len(ls)))
  /\ \A i \in 1..Len(y) : Fine(y[i], ls, mb, md, over)

\* A line more leaves the others as they were.
LEMMA LinesMore ==
  ASSUME NEW ls \in Seq(Nat), NEW x \in Nat
  PROVE  /\ Append(ls, x) \in Seq(Nat) /\ Len(ls) \in Nat /\ Len(Append(ls, x)) = Len(ls) + 1
         /\ Append(ls, x)[Len(ls) + 1] = x
         /\ \A d \in 1..Len(ls) : Append(ls, x)[d] = ls[d] /\ d \in 1..Len(Append(ls, x))
         /\ ls \in [1..Len(ls) -> Nat] /\ Append(ls, x) \in [1..(Len(ls) + 1) -> Nat]
<1> DEFINE longer == Append(ls, x)
<1>1. /\ longer \in Seq(Nat) /\ Len(ls) \in Nat /\ Len(longer) = Len(ls) + 1 /\ longer[Len(ls) + 1] = x
      /\ \A d \in 1..Len(ls) : longer[d] = ls[d]
  OBVIOUS
<1> HIDE DEF longer
<1>2. longer \in [1..Len(longer) -> Nat] /\ ls \in [1..Len(ls) -> Nat]
  BY <1>1, LenProperties
<1>3. \A d \in 1..Len(ls) : d \in 1..Len(longer)
  BY <1>1
<1> QED BY <1>1, <1>2, <1>3 DEF longer

\* A batch is as it was when a line more is read.
LEMMA BytesLater ==
  ASSUME NEW ls \in Seq(Nat), NEW x \in Nat, NEW b \in Seq(1..Len(ls))
  PROVE  b \in Seq(1..Len(Append(ls, x))) /\ Bytes(b, Append(ls, x)) = Bytes(b, ls)
<1> DEFINE longer == Append(ls, x)
           n == Len(ls)
<1>1. /\ n \in Nat /\ Len(longer) = n + 1 /\ ls \in [1..n -> Nat] /\ longer \in [1..(n + 1) -> Nat]
      /\ \A d \in 1..n : longer[d] = ls[d]
      /\ 1..n \subseteq 1..Len(longer)
  BY LinesMore
<1> HIDE DEF longer, n
<1>2. b \in Seq(1..n) /\ n + 1 \in Nat
  BY <1>1 DEF n
<1>3. b \in Seq(1..(n + 1))
  BY <1>1, <1>2, SeqWider
<1>4. Bytes(b, longer) = Bytes(b, ls)
  BY <1>1, <1>2, <1>3, BytesKept
<1> QED BY <1>1, <1>3, <1>4 DEF longer

\* So what cut it cuts it still.
LEMMA FineLater ==
  ASSUME NEW ls \in Seq(Nat), NEW x \in Nat, NEW mb \in Nat, NEW md \in Nat,
         NEW b \in Seq(1..Len(ls)), Fine(b, ls, mb, md, FALSE)
  PROVE  Fine(b, Append(ls, x), mb, md, FALSE)
<1> DEFINE longer == Append(ls, x)
<1>1. Bytes(b, longer) = Bytes(b, ls)
  BY BytesLater
<1>2. \A d \in 1..Len(ls) : longer[d] = ls[d] /\ d \in 1..Len(longer)
  BY LinesMore
<1> HIDE DEF longer
<1>3. Fits(b, longer, mb, md) /\ CutByCap(b, longer, mb, md)
  BY <1>1, <1>2 DEF Fine, Fits, CutByCap
<1> QED BY <1>3 DEF Fine, longer

\* All batches are as they were.
LEMMA AllFineLater ==
  ASSUME NEW ls \in Seq(Nat), NEW x \in Nat, NEW mb \in Nat, NEW md \in Nat,
         NEW y, AllFine(y, ls, mb, md, FALSE)
  PROVE  AllFine(y, Append(ls, x), mb, md, FALSE)
<1> DEFINE n == Len(ls)
           m == Len(Append(ls, x))
<1>1. Seq(1..n) \subseteq Seq(1..m)
  <2>1. 1..n \subseteq 1..m
    BY LinesMore
  <2> HIDE DEF n, m
  <2> QED BY <2>1, SeqWider
<1>2. y \in Seq(Seq(1..n)) /\ \A i \in 1..Len(y) : Fine(y[i], ls, mb, md, FALSE)
  BY DEF AllFine
<1>3. \A i \in 1..Len(y) : y[i] \in Seq(1..n)
  BY <1>2, ElementOfSeq
<1>4. \A i \in 1..Len(y) : Fine(y[i], Append(ls, x), mb, md, FALSE)
  BY <1>2, <1>3, FineLater
<1>5. y \in Seq(Seq(1..m))
  <2> HIDE DEF n, m
  <2> QED BY <1>1, <1>2, SeqWider
<1> QED BY <1>4, <1>5 DEF AllFine

\* One batch more.
LEMMA AllFineMore ==
  ASSUME NEW ls \in Seq(Nat), NEW mb, NEW md, NEW over \in BOOLEAN,
         NEW y, AllFine(y, ls, mb, md, over), NEW b \in Seq(1..Len(ls)), Fine(b, ls, mb, md, over)
  PROVE  AllFine(Append(y, b), ls, mb, md, over)
<1> DEFINE S == Seq(1..Len(ls))
           z == Append(y, b)
<1>1. y \in Seq(S) /\ b \in S /\ \A i \in 1..Len(y) : Fine(y[i], ls, mb, md, over)
  BY DEF AllFine
<1> HIDE DEF S
<1>2. Len(y) \in Nat /\ z \in Seq(S) /\ Len(z) = Len(y) + 1 /\ z[Len(y) + 1] = b /\ \A i \in 1..Len(y) : z[i] = y[i]
  BY <1>1
<1> HIDE DEF z
<1>3. \A i \in 1..Len(z) : i \in 1..Len(y) \/ i = Len(y) + 1
  BY <1>2
<1>4. \A i \in 1..Len(z) : Fine(z[i], ls, mb, md, over)
  BY <1>1, <1>2, <1>3
<1> QED BY <1>2, <1>4 DEF AllFine, S, z

-----------------------------------------------------------------------------
(* The body of a batch *)

\* A body between two documents, as a batch that is not yet full.
Ready(b, ls, mb, md) ==
  /\ b \in Seq(1..Len(ls))
  /\ b # << >> => Len(b) < md /\ (Len(b) > 1 => Bytes(b, ls) <= mb)

\* A body that the next line would push over the byte cap is a batch.
LEMMA OverflownFine ==
  ASSUME NEW ls \in Seq(Nat), NEW x \in Nat, NEW mb \in Nat, NEW md \in Nat,
         NEW b, Ready(b, ls, mb, md), b # << >>, Last(b) = Len(ls), Bytes(b, ls) + x > mb
  PROVE  b \in Seq(1..Len(Append(ls, x))) /\ Fine(b, Append(ls, x), mb, md, FALSE)
<1> DEFINE longer == Append(ls, x)
<1>1. b \in Seq(1..Len(ls)) /\ Len(b) < md /\ (Len(b) > 1 => Bytes(b, ls) <= mb)
  BY DEF Ready
<1>2. b \in Seq(1..Len(longer)) /\ Bytes(b, longer) = Bytes(b, ls)
  BY <1>1, BytesLater
<1>3. Len(ls) + 1 \in 1..Len(longer) /\ longer[Len(ls) + 1] = x
  <2>1. Len(ls) \in Nat /\ Len(longer) = Len(ls) + 1 /\ longer[Len(ls) + 1] = x
    BY LinesMore
  <2> QED BY <2>1
<1>4. Len(b) \in Nat
  BY <1>1, LenProperties
<1> HIDE DEF longer
<1>5. Fits(b, longer, mb, md)
  BY <1>1, <1>2, <1>4 DEF Fits
<1>6. CutByCap(b, longer, mb, md)
  BY <1>2, <1>3 DEF CutByCap
<1> QED BY <1>2, <1>5, <1>6 DEF Fine, longer

\* And so is the body at the end of the input.
LEMMA LastFine ==
  ASSUME NEW ls \in Seq(Nat), NEW mb \in Nat, NEW md \in Nat,
         NEW b, Ready(b, ls, mb, md), b # << >>, Last(b) = Len(ls)
  PROVE  b \in Seq(1..Len(ls)) /\ Fine(b, ls, mb, md, TRUE)
<1>1. b \in Seq(1..Len(ls)) /\ Len(b) < md /\ (Len(b) > 1 => Bytes(b, ls) <= mb)
  BY DEF Ready
<1>2. Len(b) \in Nat /\ Len(ls) \in Nat
  BY <1>1, LenProperties
<1>3. Fits(b, ls, mb, md)
  BY <1>1, <1>2 DEF Fits
<1>4. Last(b) + 1 > Len(ls)
  BY <1>2
<1> QED BY <1>1, <1>3, <1>4 DEF Fine

\* A document more fills the body or leaves it ready.
LEMMA FilledFine ==
  ASSUME NEW ls \in Seq(Nat), NEW x \in Nat, NEW mb \in Nat, NEW md \in Nat,
         NEW b \in Seq(1..Len(ls)), b # << >> => Len(b) < md /\ Bytes(b, ls) + x <= mb
  PROVE  /\ Append(b, Len(ls) + 1) \in Seq(1..Len(Append(ls, x)))
         /\ Len(Append(b, Len(ls) + 1)) >= md => Fine(Append(b, Len(ls) + 1), Append(ls, x), mb, md, FALSE)
         /\ Len(Append(b, Len(ls) + 1)) < md => Ready(Append(b, Len(ls) + 1), Append(ls, x), mb, md)
<1> DEFINE longer == Append(ls, x)
           n == Len(ls)
           filled == Append(b, n + 1)
<1>1. n \in Nat /\ longer \in Seq(Nat) /\ Len(longer) = n + 1 /\ longer[n + 1] = x /\ longer \in [1..(n + 1) -> Nat]
  BY LinesMore
<1>2. b \in Seq(1..(n + 1)) /\ Bytes(b, longer) = Bytes(b, ls)
  BY <1>1, BytesLater
<1>3. n + 1 \in 1..(n + 1) /\ n + 1 \in Nat
  BY <1>1
<1> HIDE DEF longer
<1>4. Bytes(filled, longer) = Bytes(b, longer) + longer[n + 1] /\ Bytes(b, longer) \in Nat
  <2> HIDE DEF n
  <2> QED BY <1>1, <1>2, <1>3, BytesMore, BytesType
<1>5. filled \in Seq(1..(n + 1)) /\ Len(filled) = Len(b) + 1 /\ Len(b) \in Nat /\ filled # << >>
  <2> DEFINE d == n + 1
             T == 1..(n + 1)
  <2>1. b \in Seq(T) /\ d \in T
    BY <1>2, <1>3
  <2> HIDE DEF d, T
  <2>2. Append(b, d) \in Seq(T) /\ Len(Append(b, d)) = Len(b) + 1 /\ Len(b) \in Nat
    BY <2>1, AppendProperties, LenProperties
  <2>3. Append(b, d) # << >>
    BY <2>1, AppendProperties
  <2> QED BY <2>2, <2>3 DEF d, T
<1>6. Len(filled) > 1 => b # << >>
  <2>1. b = << >> => Len(b) = 0
    OBVIOUS
  <2> HIDE DEF filled
  <2> QED BY <1>5, <2>1
<1> HIDE DEF filled, n
<1>7. Len(filled) > 1 => Bytes(filled, longer) <= mb /\ Len(filled) <= md
  BY <1>1, <1>2, <1>4, <1>5, <1>6
<1>8. Len(filled) >= md => Fine(filled, longer, mb, md, FALSE)
  BY <1>5, <1>7 DEF Fine, Fits, CutByCap
<1>9. Len(filled) < md => Ready(filled, longer, mb, md)
  BY <1>1, <1>5, <1>7 DEF Ready
<1> QED BY <1>1, <1>5, <1>8, <1>9 DEF filled, n, longer

-----------------------------------------------------------------------------
(* The inductive invariant *)

\* What was handed on counts the documents, the batches yielded are what the
\* caps make of them, and the body is ready to be flushed.
InOrderSoFar ==
  /\ Counts(Handed(yielded, body))
  /\ state # "failed" => Len(Handed(yielded, body)) = Len(lines)

BatchInv ==
  /\ maxBytes \in Nat /\ maxDocs \in Nat /\ lines \in Seq(Nat)
  /\ AllFine(yielded, lines, maxBytes, maxDocs, state = "ended")
  /\ Ready(body, lines, maxBytes, maxDocs)
  /\ InOrderSoFar

\* An import starts with nothing read.
LEMMA InitBatch == Init => BatchInv
<1> SUFFICES ASSUME Init PROVE BatchInv
  OBVIOUS
<1>1. maxBytes \in Nat /\ maxDocs \in Nat
  BY BatcherAssumption DEF Init
<1>2. lines = << >> /\ body = << >> /\ yielded = << >> /\ state = "open"
  BY DEF Init
<1>3. lines \in Seq(Nat) /\ yielded \in Seq(Seq(1..Len(lines))) /\ body \in Seq(1..Len(lines)) /\ Len(yielded) = 0 /\ Len(lines) = 0
  BY <1>2
<1>4. 1..0 = {}
  OBVIOUS
<1>5. AllFine(yielded, lines, maxBytes, maxDocs, state = "ended") /\ Ready(body, lines, maxBytes, maxDocs)
  BY <1>2, <1>3, <1>4 DEF AllFine, Ready
<1>6. Handed(yielded, body) = << >>
  <2>1. FlattenSeq(yielded) = << >>
    BY <1>2, FlattenEmpty
  <2>2. << >> \o << >> = << >>
    OBVIOUS
  <2> QED BY <1>2, <2>1, <2>2 DEF Handed
<1>7. Counts(<< >>) /\ Len(<< >>) = 0
  BY <1>4 DEF Counts
<1> QED BY <1>1, <1>3, <1>5, <1>6, <1>7 DEF BatchInv, InOrderSoFar

\* The members of sequences over positions are numbers.
LEMMA Positions ==
  ASSUME NEW n \in Nat
  PROVE  Seq(1..n) \subseteq Seq(Nat) /\ Seq(Seq(1..n)) \subseteq Seq(Seq(Nat))
<1>1. 1..n \subseteq Nat
  OBVIOUS
<1>2. Seq(1..n) \subseteq Seq(Nat)
  BY <1>1, SeqWider
<1> QED BY <1>2, SeqWider

\* A nonempty body ends with the last document read.
LEMMA BodyEndsLast ==
  ASSUME BatchInv, state # "failed", body # << >>
  PROVE  Last(body) = Len(lines)
<1>1. yielded \in Seq(Seq(Nat)) /\ body \in Seq(Nat)
  <2>1. Len(lines) \in Nat
    BY LenProperties DEF BatchInv
  <2>2. yielded \in Seq(Seq(1..Len(lines))) /\ body \in Seq(1..Len(lines))
    BY DEF BatchInv, AllFine, Ready
  <2> QED BY <2>1, <2>2, Positions
<1>2. Handed(yielded, body) = FlattenSeq(yielded) \o body /\ FlattenSeq(yielded) \in Seq(Nat)
  BY <1>1, FlattenType DEF Handed
<1>3. Counts(FlattenSeq(yielded) \o body) /\ Len(FlattenSeq(yielded) \o body) = Len(lines)
  BY <1>2 DEF BatchInv, InOrderSoFar
<1> DEFINE f == FlattenSeq(yielded)
<1> HIDE DEF f
<1>4. f \in Seq(Nat) /\ Counts(f \o body) /\ Len(f \o body) = Len(lines)
  BY <1>2, <1>3 DEF f
<1> QED BY <1>1, <1>4, CountsParts

\* The end of the input flushes the body.
LEMMA EndKeeps == ASSUME BatchInv, EndOfInput PROVE BatchInv'
<1>1. /\ state = "open" /\ state' = "ended" /\ body' = << >> /\ lines' = lines
      /\ maxBytes' = maxBytes /\ maxDocs' = maxDocs
      /\ yielded' = IF body = << >> THEN yielded ELSE Append(yielded, body)
  BY DEF EndOfInput, config
<1>2. Len(lines) \in Nat /\ yielded \in Seq(Seq(Nat)) /\ body \in Seq(Nat)
  <2>1. Len(lines) \in Nat
    BY LenProperties DEF BatchInv
  <2>2. yielded \in Seq(Seq(1..Len(lines))) /\ body \in Seq(1..Len(lines))
    BY DEF BatchInv, AllFine, Ready
  <2> QED BY <2>1, <2>2, Positions
<1>3. AllFine(yielded, lines, maxBytes, maxDocs, TRUE)
  BY DEF BatchInv, AllFine, Fine
<1>4. AllFine(yielded', lines, maxBytes, maxDocs, TRUE)
  <2>1. CASE body = << >>
    BY <1>1, <1>3, <2>1
  <2>2. CASE body # << >>
    <3>1. Last(body) = Len(lines)
      BY <1>1, <2>2, BodyEndsLast
    <3>2. body \in Seq(1..Len(lines)) /\ Fine(body, lines, maxBytes, maxDocs, TRUE)
      BY <2>2, <3>1, LastFine DEF BatchInv
    <3>3. AllFine(Append(yielded, body), lines, maxBytes, maxDocs, TRUE)
      BY <1>3, <3>2, AllFineMore DEF BatchInv
    <3> QED BY <1>1, <2>2, <3>3
  <2> QED BY <2>1, <2>2
<1>5. Handed(yielded', << >>) = Handed(yielded, body)
  <2>1. Handed(Append(yielded, body), << >>) = Handed(yielded, body)
    BY <1>2, HandedFlush
  <2> QED BY <1>1, <2>1
<1>6. Ready(<< >>, lines, maxBytes, maxDocs)
  BY DEF Ready
<1>7. AllFine(yielded', lines', maxBytes', maxDocs', state' = "ended")
  <2>1. (state' = "ended") = TRUE
    BY <1>1
  <2> QED BY <1>1, <1>4, <2>1
<1>8. InOrderSoFar'
  BY <1>1, <1>5 DEF BatchInv, InOrderSoFar
<1> QED BY <1>1, <1>6, <1>7, <1>8 DEF BatchInv

\* An error drops the body: what was yielded is a prefix of what was handed on.
LEMMA ErrorKeeps == ASSUME BatchInv, InputError PROVE BatchInv'
<1>1. /\ state = "open" /\ state' = "failed" /\ body' = << >> /\ lines' = lines /\ yielded' = yielded
      /\ maxBytes' = maxBytes /\ maxDocs' = maxDocs
  BY DEF InputError, config
<1>2. FlattenSeq(yielded) \in Seq(Nat) /\ body \in Seq(Nat)
  <2>1. Len(lines) \in Nat
    BY LenProperties DEF BatchInv
  <2>2. yielded \in Seq(Seq(1..Len(lines))) /\ body \in Seq(1..Len(lines))
    BY DEF BatchInv, AllFine, Ready
  <2>3. yielded \in Seq(Seq(Nat)) /\ body \in Seq(Nat)
    BY <2>1, <2>2, Positions
  <2> QED BY <2>3, FlattenType
<1>3. Counts(Handed(yielded, << >>))
  <2> DEFINE f == FlattenSeq(yielded)
  <2>1. Counts(FlattenSeq(yielded) \o body)
    BY DEF BatchInv, InOrderSoFar, Handed
  <2> HIDE DEF f
  <2>2. f \in Seq(Nat) /\ Counts(f \o body)
    BY <1>2, <2>1 DEF f
  <2>3. Counts(f) /\ f \o << >> = f
    BY <1>2, <2>2, CountsParts
  <2> QED BY <2>3 DEF Handed, f
<1>4. AllFine(yielded', lines', maxBytes', maxDocs', state' = "ended")
  <2>1. (state' = "ended") = (state = "ended")
    BY <1>1
  <2> QED BY <1>1, <2>1 DEF BatchInv
<1>5. Ready(<< >>, lines, maxBytes, maxDocs)
  BY DEF Ready
<1>6. InOrderSoFar'
  BY <1>1, <1>3 DEF InOrderSoFar
<1> QED BY <1>1, <1>4, <1>5, <1>6 DEF BatchInv

\* A document: the body is flushed if the line would overflow it, the document
\* is added, and the body is flushed again if it is full.
LEMMA DocumentKeeps == ASSUME BatchInv, NEW x \in LineLengths, Document(x) PROVE BatchInv'
<1> DEFINE n == Len(lines)
           longer == Append(lines, x)
           over == WouldOverflow(x)
           y == IF over THEN Append(yielded, body) ELSE yielded
           b == IF over THEN << >> ELSE body
           filled == Append(b, n + 1)
           full == Len(filled) >= maxDocs
<1>1. /\ state = "open" /\ state' = "open" /\ lines' = longer
      /\ maxBytes' = maxBytes /\ maxDocs' = maxDocs
      /\ yielded' = yielded \o (IF over THEN <<body>> ELSE << >>) \o (IF full THEN <<filled>> ELSE << >>)
      /\ body' = IF full THEN << >> ELSE filled
  BY DEF Document, config, NextDocument
<1>2. /\ n \in Nat /\ yielded \in Seq(Seq(Nat)) /\ body \in Seq(Nat) /\ body \in Seq(1..n)
      /\ yielded \in Seq(Seq(1..n)) /\ x \in Nat /\ lines \in Seq(Nat) /\ maxBytes \in Nat /\ maxDocs \in Nat
  <2>1. Len(lines) \in Nat
    BY LenProperties DEF BatchInv
  <2>2. yielded \in Seq(Seq(1..Len(lines))) /\ body \in Seq(1..Len(lines))
    BY DEF BatchInv, AllFine, Ready
  <2>3. yielded \in Seq(Seq(Nat)) /\ body \in Seq(Nat)
    BY <2>1, <2>2, Positions
  <2>4. x \in Nat
    BY BatcherAssumption
  <2> QED BY <2>1, <2>2, <2>3, <2>4 DEF BatchInv
<1>3. AllFine(yielded, longer, maxBytes, maxDocs, FALSE)
  <2>1. AllFine(yielded, lines, maxBytes, maxDocs, FALSE)
    BY <1>1 DEF BatchInv, AllFine, Fine
  <2> QED BY <1>2, <2>1, AllFineLater
<1>4. longer \in Seq(Nat) /\ Len(longer) = n + 1
  BY <1>2, LinesMore
<1>5. Bytes(body, lines) \in Nat
  <2>1. lines \in [1..n -> Nat]
    BY <1>2, LenProperties
  <2> QED BY <1>2, <2>1, BytesType
<1>6. AllFine(y, longer, maxBytes, maxDocs, FALSE)
  <2>1. CASE over
    <3>1. body # << >> /\ Bytes(body, lines) + x > maxBytes
      BY <2>1 DEF WouldOverflow
    <3>2. Last(body) = Len(lines)
      BY <1>1, <3>1, BodyEndsLast
    <3>3. body \in Seq(1..Len(longer)) /\ Fine(body, longer, maxBytes, maxDocs, FALSE)
      BY <1>2, <3>1, <3>2, OverflownFine DEF BatchInv
    <3> HIDE DEF longer
    <3>4. AllFine(Append(yielded, body), longer, maxBytes, maxDocs, FALSE)
      BY <1>3, <1>4, <3>3, AllFineMore
    <3> QED BY <2>1, <3>4
  <2>2. CASE ~over
    BY <1>3, <2>2
  <2> QED BY <2>1, <2>2
<1>7. b \in Seq(1..n) /\ (b # << >> => Len(b) < maxDocs /\ Bytes(b, lines) + x <= maxBytes)
  <2>1. CASE over
    BY <2>1
  <2>2. CASE ~over
    <3>1. b = body
      BY <2>2
    <3>2. body # << >> => Len(body) < maxDocs
      BY DEF BatchInv, Ready
    <3>3. body # << >> => Bytes(body, lines) + x <= maxBytes
      BY <1>2, <1>5, <2>2 DEF WouldOverflow
    <3> QED BY <1>2, <3>1, <3>2, <3>3
  <2> QED BY <2>1, <2>2
<1>8. /\ filled \in Seq(1..Len(longer))
      /\ full => Fine(filled, longer, maxBytes, maxDocs, FALSE)
      /\ Len(filled) < maxDocs => Ready(filled, longer, maxBytes, maxDocs)
  <2> HIDE DEF b
  <2> QED BY <1>2, <1>7, FilledFine
<1>9. y \in Seq(Seq(Nat)) /\ b \in Seq(Nat)
  <2>1. CASE over
    BY <1>2, <2>1
  <2>2. CASE ~over
    BY <1>2, <2>2
  <2> QED BY <2>1, <2>2
<1>10. Handed(y, b) = Handed(yielded, body) /\ Handed(y, b) \in Seq(Nat)
  <2>1. Handed(Append(yielded, body), << >>) = Handed(yielded, body) /\ Handed(yielded, body) \in Seq(Nat)
    BY <1>2, HandedFlush
  <2> QED BY <2>1
<1>11. yielded' = (IF full THEN Append(y, filled) ELSE y)
  <2>1. y = yielded \o (IF over THEN <<body>> ELSE << >>)
    <3>1. yielded \o <<body>> = Append(yielded, body) /\ yielded \o << >> = yielded
      BY <1>2
    <3> QED BY <3>1
  <2>2. yielded' = y \o (IF full THEN <<filled>> ELSE << >>)
    BY <1>1, <2>1
  <2>3. filled \in Seq(Nat)
    <3> HIDE DEF b
    <3> QED BY <1>2, <1>9
  <2> HIDE DEF filled, y
  <2>4. y \o <<filled>> = Append(y, filled) /\ y \o << >> = y
    BY <1>9, <2>3
  <2> QED BY <2>2, <2>4
<1>12. Handed(y, filled) = Append(Handed(y, b), n + 1) /\ filled \in Seq(Nat)
  <2> HIDE DEF y, b, n
  <2> QED BY <1>2, <1>9, HandedAdd
<1> HIDE DEF y, b
<1>13. Handed(yielded', body') = Append(Handed(y, b), n + 1)
  <2>1. Handed(Append(y, filled), << >>) = Handed(y, filled)
    BY <1>9, <1>12, HandedFlush
  <2> QED BY <1>1, <1>11, <1>12, <2>1
<1>14. InOrderSoFar'
  <2> DEFINE s == Handed(y, b)
  <2>1. s \in Seq(Nat) /\ Counts(s) /\ Len(s) = n
    BY <1>1, <1>10 DEF BatchInv, InOrderSoFar
  <2> HIDE DEF s
  <2>2. Counts(Append(s, n + 1)) /\ Len(Append(s, n + 1)) = n + 1
    BY <2>1, CountsNext
  <2> QED BY <1>1, <1>4, <1>13, <2>2 DEF InOrderSoFar, s
<1>15. AllFine(yielded', lines', maxBytes', maxDocs', state' = "ended") /\ Ready(body', lines', maxBytes', maxDocs')
  <2>1. (state' = "ended") = FALSE
    BY <1>1
  <2>2. full => AllFine(Append(y, filled), longer, maxBytes, maxDocs, FALSE)
    <3> HIDE DEF longer, filled
    <3> QED BY <1>4, <1>6, <1>8, AllFineMore
  <2>3. AllFine(yielded', longer, maxBytes, maxDocs, FALSE)
    <3> HIDE DEF longer, filled
    <3> QED BY <1>6, <1>11, <2>2
  <2>4. Ready(<< >>, longer, maxBytes, maxDocs)
    BY DEF Ready
  <2>5. Len(filled) \in Nat
    BY <1>12, LenProperties
  <2>6. Ready(body', longer, maxBytes, maxDocs)
    <3> HIDE DEF longer, filled
    <3> QED BY <1>1, <1>2, <1>8, <2>4, <2>5
  <2> HIDE DEF longer
  <2> QED BY <1>1, <2>1, <2>3, <2>6
<1> QED BY <1>1, <1>2, <1>4, <1>14, <1>15 DEF BatchInv

\* Steps of the readers that hand on nothing.
LEMMA SteadyBatch == ASSUME BatchInv, UNCHANGED vars PROVE BatchInv'
<1>1. /\ state' = state /\ lines' = lines /\ body' = body /\ yielded' = yielded
      /\ maxBytes' = maxBytes /\ maxDocs' = maxDocs
  BY DEF vars, config
<1>2. InOrderSoFar'
  BY <1>1 DEF BatchInv, InOrderSoFar
<1>3. AllFine(yielded', lines', maxBytes', maxDocs', state' = "ended") /\ Ready(body', lines', maxBytes', maxDocs')
  <2>1. (state' = "ended") = (state = "ended")
    BY <1>1
  <2> QED BY <1>1, <2>1 DEF BatchInv
<1> QED BY <1>1, <1>2, <1>3 DEF BatchInv

\* Whatever is read from whatever source, the invariant holds.
LEMMA BatchInvHolds == ReadersSpec => []BatchInv
<1>1. ReadersInit => BatchInv
  BY InitBatch DEF ReadersInit
<1>2. BatchInv /\ [ReadersNext]_ingestVars => BatchInv'
  <2> SUFFICES ASSUME BatchInv, [ReadersNext]_ingestVars PROVE BatchInv'
    OBVIOUS
  <2>1. BatcherStep
    BY ReadersStep
  <2>2. CASE \E length \in LineLengths : Document(length)
    BY <2>2, DocumentKeeps
  <2>3. CASE EndOfInput
    BY <2>3, EndKeeps
  <2>4. CASE InputError
    BY <2>4, ErrorKeeps
  <2>5. CASE UNCHANGED vars
    BY <2>5, SteadyBatch
  <2> QED BY <2>1, <2>2, <2>3, <2>4, <2>5 DEF BatcherStep
<1> QED BY <1>1, <1>2, PTL DEF ReadersSpec

-----------------------------------------------------------------------------
(* The theorems *)

\* Every document read is in exactly one batch or in the body, in input order;
\* into_batches drops none and after an error what it yielded is a prefix.
THEOREM NoDocumentLostCorrect == ReadersSpec => []NoDocumentLost
<1>1. BatchInv => NoDocumentLost
  BY DEF BatchInv, InOrderSoFar, Counts, Handed, NoDocumentLost
<1> QED BY <1>1, BatchInvHolds, PTL

\* No batch of into_batches is empty, and none of more than one document exceeds
\* max_bytes or max_docs.
THEOREM BatchesBoundedCorrect == ReadersSpec => []BatchesBounded
<1>1. ASSUME BatchInv PROVE BatchesBounded
  <2>1. DOMAIN yielded = 1..Len(yielded)
    BY <1>1, LenProperties DEF BatchInv, AllFine
  <2>2. \A i \in 1..Len(yielded) : Fits(yielded[i], lines, maxBytes, maxDocs)
    BY <1>1 DEF BatchInv, AllFine, Fine
  <2> QED BY <2>1, <2>2 DEF Fits, BatchesBounded
<1> QED BY <1>1, BatchInvHolds, PTL

\* A batch ends only where max_docs, max_bytes or the end of the input ends it.
THEOREM BatchesMaximalCorrect == ReadersSpec => []BatchesMaximal
<1>1. ASSUME BatchInv PROVE BatchesMaximal
  <2>1. DOMAIN yielded = 1..Len(yielded)
    BY <1>1, LenProperties DEF BatchInv, AllFine
  <2>2. \A i \in 1..Len(yielded) : Fine(yielded[i], lines, maxBytes, maxDocs, state = "ended")
    BY <1>1 DEF BatchInv, AllFine
  <2> QED BY <2>1, <2>2 DEF Fine, CutByCap, BatchesMaximal
<1> QED BY <1>1, BatchInvHolds, PTL

-----------------------------------------------------------------------------
(* The array scanner, in one piece and in chunks *)

\* g[s] is what the scanner is after the bytes at the positions in s.
FedStep(g, base, bytes, s) == IF s = {} THEN base ELSE FeedByte(g[s \ {Max(s)}], bytes[Max(s)])
Fed(g, base, bytes, D) == g = [s \in SUBSET D |-> FedStep(g, base, bytes, s)]

LEMMA Greatest ==
  ASSUME NEW n \in Nat, NEW s \in SUBSET (1..n), s # {}
  PROVE  Max(s) \in s
<1> DEFINE T == {n - j : j \in s}
<1>1. T \in SUBSET Nat /\ T # {}
  <2>1. \A j \in s : j \in 1..n
    OBVIOUS
  <2>2. \A j \in 1..n : n - j \in Nat
    OBVIOUS
  <2> QED BY <2>1, <2>2
<1>2. PICK k \in T : \A j \in T : k <= j
  BY <1>1, LeastNumber
<1>3. n - k \in s /\ \A j \in s : n - k >= j
  <2>1. PICK j \in s : k = n - j
    BY <1>2
  <2>2. \A i \in s : i \in Int /\ n - j <= n - i
    BY <1>2, <2>1
  <2> QED BY <2>1, <2>2
<1> HIDE DEF T
<1>4. \E m \in s : \A j \in s : m >= j
  BY <1>3
<1> QED BY <1>4 DEF Max

LEMMA FedExists ==
  ASSUME NEW base, NEW bytes, NEW n \in Nat
  PROVE  \E g : Fed(g, base, bytes, 1..n)
<1> DEFINE D == 1..n
           Upto(g, m) == \A s \in SUBSET D : Cardinality(s) <= m => g[s] = FedStep(g, base, bytes, s)
           L == {m \in Nat : \E g : Upto(g, m)}
<1>0. IsFiniteSet(D) /\ Cardinality(D) \in Nat
  BY FS_Interval, FS_CardinalityType
<1>1. \A s \in SUBSET D : IsFiniteSet(s) /\ Cardinality(s) \in Nat
  BY <1>0, FS_Subset, FS_CardinalityType
<1>9. \A s \in SUBSET D : s # {} => Max(s) \in s
  BY Greatest
<1> HIDE DEF D
<1>2. 0 \in L
  <2> DEFINE g == [s \in SUBSET D |-> base]
  <2>2. ASSUME NEW s \in SUBSET D, Cardinality(s) <= 0 PROVE g[s] = FedStep(g, base, bytes, s)
    <3>1. s = {}
      BY <1>1, <2>2, FS_EmptySet
    <3> QED BY <3>1 DEF FedStep
  <2> HIDE DEF g
  <2> QED BY <2>2
<1>3. ASSUME NEW m \in Nat, m \in L PROVE m + 1 \in L
  <2>1. PICK g : Upto(g, m)
    BY <1>3
  <2> DEFINE h == [s \in SUBSET D |-> IF Cardinality(s) = m + 1 THEN FedStep(g, base, bytes, s) ELSE g[s]]
  <2>3. ASSUME NEW s \in SUBSET D, Cardinality(s) <= m + 1 PROVE h[s] = FedStep(h, base, bytes, s)
    <3>1. h[s] = FedStep(g, base, bytes, s)
      BY <1>1, <2>1, <2>3
    <3>2. CASE s = {}
      BY <3>1, <3>2 DEF FedStep
    <3>3. CASE s # {}
      <4> DEFINE r == s \ {Max(s)}
      <4>1. Max(s) \in s
        BY <3>3, <1>9
      <4>2. r \in SUBSET D /\ Cardinality(r) = Cardinality(s) - 1 /\ Cardinality(s) \in Nat
        BY <1>0, <4>1, SmallerSubset
      <4>3. Cardinality(r) # m + 1
        BY <2>3, <4>2
      <4>4. h[r] = g[r]
        BY <4>2, <4>3
      <4> QED BY <3>1, <3>3, <4>4 DEF FedStep
    <3> QED BY <3>2, <3>3
  <2> HIDE DEF h
  <2>4. Upto(h, m + 1)
    BY <2>3
  <2> QED BY <2>4
<1> HIDE DEF L
<1>4. Nat \subseteq L
  BY <1>2, <1>3, NatSetInduction
<1>5. Cardinality(D) \in L
  BY <1>0, <1>4
<1>6. PICK g : Upto(g, Cardinality(D))
  BY <1>5 DEF L
<1>7. \A s \in SUBSET D : Cardinality(s) <= Cardinality(D)
  BY <1>0, FS_Subset
<1>8. \A s \in SUBSET D : g[s] = FedStep(g, base, bytes, s)
  BY <1>6, <1>7
<1> DEFINE h == [s \in SUBSET D |-> g[s]]
<1>10. ASSUME NEW s \in SUBSET D PROVE h[s] = FedStep(h, base, bytes, s)
  BY <1>8 DEF FedStep
<1>11. h = [s \in SUBSET D |-> h[s]]
  OBVIOUS
<1> HIDE DEF h
<1>12. Fed(h, base, bytes, D)
  BY <1>10, <1>11 DEF Fed
<1> QED BY <1>12 DEF D

\* scan[n] is the scanner after the first n bytes.
Scan(scan, base, bytes) ==
  scan[0] = base /\ \A n \in 1..Len(bytes) : scan[n] = FeedByte(scan[n - 1], bytes[n])

LEMMA FoldScans ==
  ASSUME NEW base, NEW bytes, Len(bytes) \in Nat, DOMAIN bytes = 1..Len(bytes)
  PROVE  \E scan : Scan(scan, base, bytes) /\ FoldLeft(FeedByte, base, bytes) = scan[Len(bytes)]
<1> DEFINE D == DOMAIN bytes
           Step(g) == [s \in SUBSET D |-> IF s = {} THEN base ELSE FeedByte(g[s \ {Max(s)}], bytes[Max(s)])]
           iter == CHOOSE g : g = Step(g)
           scan == [n \in 0..Len(bytes) |-> iter[1..n]]
<1>1. \E g : g = Step(g)
  <2>1. PICK g : Fed(g, base, bytes, D)
    BY FedExists
  <2>2. g = Step(g)
    BY <2>1 DEF Fed, FedStep
  <2> QED BY <2>2
<1>2. iter = Step(iter)
  BY <1>1
<1>3. FoldLeft(FeedByte, base, bytes) = iter[D]
  BY DEF FoldLeft, MapThenFoldSet
<1> HIDE DEF iter
<1>4. iter[{}] = base /\ \A s \in SUBSET D : s # {} => iter[s] = FeedByte(iter[s \ {Max(s)}], bytes[Max(s)])
  BY <1>2
<1>5. scan[0] = base
  <2>1. 1..0 = {} /\ 0 \in 0..Len(bytes)
    OBVIOUS
  <2> QED BY <1>4, <2>1
<1>6. ASSUME NEW n \in 1..Len(bytes) PROVE scan[n] = FeedByte(scan[n - 1], bytes[n])
  <2>1. n \in 1..n /\ 1..n \in SUBSET D /\ n \in 0..Len(bytes) /\ n - 1 \in 0..Len(bytes)
    OBVIOUS
  <2>4. (1..n) \ {n} = 1..(n - 1)
    <3>1. \A k : k \in 1..n /\ k # n <=> k \in 1..(n - 1)
      OBVIOUS
    <3> QED BY <3>1
  <2>2. Max(1..n) = n
    BY DEF Max
  <2>3. iter[1..n] = FeedByte(iter[1..(n - 1)], bytes[n])
    BY <1>4, <2>1, <2>2, <2>4
  <2> QED BY <2>1, <2>3
<1>7. scan[Len(bytes)] = iter[D]
  OBVIOUS
<1> HIDE DEF scan
<1> QED BY <1>3, <1>5, <1>6, <1>7 DEF Scan

Scanners(B) ==
  [started : BOOLEAN, finished : BOOLEAN, inElement : BOOLEAN, depth : Int, inString : BOOLEAN,
   escaped : BOOLEAN, current : Seq(B), error : BOOLEAN, out : Seq(Seq(B))]

\* The scanner s with what was yielded before it.
Since(o, s) == [s EXCEPT !.out = o \o @]

\* The steps of the scanner, for any bytes.
LEMMA StepTypes ==
  ASSUME NEW B, NEW s \in Scanners(B), NEW byte \in B
  PROVE  /\ InString(s, byte) \in Scanners(B) /\ OutOfString(s, byte) \in Scanners(B)
         /\ EndElement(s, byte) \in Scanners(B) /\ BeginElement(s) \in Scanners(B)
<1>1. Append(s.current, byte) \in Seq(B) /\ Append(s.out, s.current) \in Seq(Seq(B)) /\ << >> \in Seq(B)
  BY DEF Scanners
<1>2. InString(s, byte) \in Scanners(B)
  BY <1>1 DEF Scanners, InString
<1>3. OutOfString(s, byte) \in Scanners(B)
  <2> DEFINE depth == IF byte \in Opening THEN s.depth + 1 ELSE IF byte \in Closing THEN s.depth - 1 ELSE s.depth
             string == byte = Quote
             current == Append(s.current, byte)
  <2>1. s.depth \in Int
    BY DEF Scanners
  <2>2. depth \in Int /\ string \in BOOLEAN /\ current \in Seq(B)
    BY <1>1, <2>1
  <2>3. OutOfString(s, byte) = [s EXCEPT !.current = current, !.inString = string, !.depth = depth]
    BY DEF OutOfString
  <2> HIDE DEF depth, string, current
  <2> QED BY <2>2, <2>3 DEF Scanners
<1>4. EndElement(s, byte) \in Scanners(B)
  BY <1>1 DEF Scanners, EndElement
<1>5. BeginElement(s) \in Scanners(B)
  <2> DEFINE yes == TRUE
             no == FALSE
             none == 0
             nothing == << >>
  <2>1. BeginElement(s) = [[s EXCEPT !.inElement = yes, !.depth = none, !.inString = no]
                             EXCEPT !.escaped = no, !.current = nothing]
    BY DEF BeginElement
  <2>2. yes \in BOOLEAN /\ no \in BOOLEAN /\ none \in Int /\ nothing \in Seq(B)
    BY <1>1
  <2> HIDE DEF yes, no, none, nothing
  <2>3. [s EXCEPT !.inElement = yes, !.depth = none, !.inString = no] \in Scanners(B)
    BY <2>2 DEF Scanners
  <2>4. ASSUME NEW t \in Scanners(B) PROVE [t EXCEPT !.escaped = no, !.current = nothing] \in Scanners(B)
    BY <2>2 DEF Scanners
  <2> QED BY <2>1, <2>3, <2>4
<1> QED BY <1>2, <1>3, <1>4, <1>5

LEMMA FeedType ==
  ASSUME NEW B, NEW s \in Scanners(B), NEW byte \in B
  PROVE  FeedByte(s, byte) \in Scanners(B)
<1>1. ASSUME NEW t \in Scanners(B) PROVE ConsumeElementByte(t, byte) \in Scanners(B)
  BY StepTypes DEF ConsumeElementByte
<1>2. BeginElement(s) \in Scanners(B)
  BY StepTypes
<1>3. [s EXCEPT !.error = byte # Space] \in Scanners(B)
  BY DEF Scanners
<1>4. [s EXCEPT !.started = byte = ArrayStart, !.error = byte \notin {Space, ArrayStart}] \in Scanners(B)
  BY DEF Scanners
<1>5. [s EXCEPT !.finished = TRUE] \in Scanners(B)
  BY DEF Scanners
<1> QED BY <1>1, <1>2, <1>3, <1>4, <1>5 DEF FeedByte

\* Appending to the end of a concatenation.
AppendsLast(o, a, x) == Append(o \o a, x) = o \o Append(a, x)

LEMMA ConcatAppend ==
  ASSUME NEW S, NEW o \in Seq(S), NEW a \in Seq(S), NEW x \in S
  PROVE  AppendsLast(o, a, x)
BY DEF AppendsLast

\* What was yielded before does not matter to them,
LEMMA StepsSince ==
  ASSUME NEW B, NEW s \in Scanners(B), NEW o \in Seq(Seq(B)), NEW byte \in B
  PROVE  /\ InString(Since(o, s), byte) = Since(o, InString(s, byte))
         /\ OutOfString(Since(o, s), byte) = Since(o, OutOfString(s, byte))
         /\ EndElement(Since(o, s), byte) = Since(o, EndElement(s, byte))
         /\ BeginElement(Since(o, s)) = Since(o, BeginElement(s))
<1>1. InString(Since(o, s), byte) = Since(o, InString(s, byte))
  BY DEF Scanners, Since, InString
<1>2. OutOfString(Since(o, s), byte) = Since(o, OutOfString(s, byte))
  BY DEF Scanners, Since, OutOfString
<1>3. EndElement(Since(o, s), byte) = Since(o, EndElement(s, byte))
  <2>1. s.out \in Seq(Seq(B)) /\ s.current \in Seq(B)
    BY DEF Scanners
  <2>2. AppendsLast(o, s.out, s.current)
    BY <2>1, ConcatAppend
  <2> QED BY <2>2 DEF Scanners, Since, EndElement, AppendsLast
<1>4. BeginElement(Since(o, s)) = Since(o, BeginElement(s))
  BY DEF Scanners, Since, BeginElement
<1> QED BY <1>1, <1>2, <1>3, <1>4

\* nor to any byte fed.
LEMMA FeedSince ==
  ASSUME NEW B, NEW s \in Scanners(B), NEW o \in Seq(Seq(B)), NEW byte \in B
  PROVE  FeedByte(Since(o, s), byte) = Since(o, FeedByte(s, byte))
<1>1. \A t \in Scanners(B) : ConsumeElementByte(Since(o, t), byte) = Since(o, ConsumeElementByte(t, byte))
  <2> TAKE t \in Scanners(B)
  <2>1. Since(o, t).inString = t.inString /\ Since(o, t).depth = t.depth
    BY DEF Since, Scanners
  <2> QED BY <2>1, StepsSince DEF ConsumeElementByte
<1>2. /\ Since(o, s).error = s.error /\ Since(o, s).finished = s.finished
      /\ Since(o, s).started = s.started /\ Since(o, s).inElement = s.inElement
  BY DEF Since, Scanners
<1>3. BeginElement(Since(o, s)) = Since(o, BeginElement(s)) /\ BeginElement(s) \in Scanners(B)
  BY StepsSince, StepTypes
<1>4. [Since(o, s) EXCEPT !.error = byte # Space] = Since(o, [s EXCEPT !.error = byte # Space])
  BY DEF Since, Scanners
<1>5. [Since(o, s) EXCEPT !.started = byte = ArrayStart, !.error = byte \notin {Space, ArrayStart}] =
      Since(o, [s EXCEPT !.started = byte = ArrayStart, !.error = byte \notin {Space, ArrayStart}])
  BY DEF Since, Scanners
<1>6. [Since(o, s) EXCEPT !.finished = TRUE] = Since(o, [s EXCEPT !.finished = TRUE])
  BY DEF Since, Scanners
<1> QED BY <1>1, <1>2, <1>3, <1>4, <1>5, <1>6 DEF FeedByte

\* The scanner s with nothing yielded.
Fresh(s) == [s EXCEPT !.out = << >>]

LEMMA SinceFresh ==
  ASSUME NEW B, NEW s \in Scanners(B)
  PROVE  /\ Fresh(s) \in Scanners(B) /\ s.out \in Seq(Seq(B))
         /\ Since(s.out, Fresh(s)) = s
<1> DEFINE none == << >>
<1>1. s.out \in Seq(Seq(B)) /\ none \in Seq(Seq(B)) /\ s.out \o none = s.out
  BY DEF Scanners
<1>2. Fresh(s) = [s EXCEPT !.out = none]
  BY DEF Fresh
<1> HIDE DEF none
<1>3. Fresh(s) \in Scanners(B) /\ Fresh(s).out = none
  BY <1>1, <1>2 DEF Scanners
<1>4. Since(s.out, Fresh(s)) = s
  BY <1>1, <1>2 DEF Since, Scanners
<1> QED BY <1>1, <1>3, <1>4

\* Later in a scan, what was yielded is still there and an error is one.
Keeps(B, s, t) ==
  /\ s.error => t.error
  /\ \E rest \in Seq(Seq(B)) : t.out = s.out \o rest

\* A byte more: the scanner keeps what it yielded, and stays in error.
LEMMA FeedKeeps ==
  ASSUME NEW B, NEW s \in Scanners(B), NEW byte \in B
  PROVE  Keeps(B, s, FeedByte(s, byte))
<1>1. s.error => FeedByte(s, byte).error
  BY DEF FeedByte
<1> DEFINE t == FeedByte(Fresh(s), byte)
<1>2. t \in Scanners(B) /\ s.out \in Seq(Seq(B)) /\ FeedByte(s, byte) = Since(s.out, t)
  BY SinceFresh, FeedSince, FeedType
<1> HIDE DEF t
<1>3. t.out \in Seq(Seq(B)) /\ FeedByte(s, byte).out = s.out \o t.out
  BY <1>2 DEF Since, Scanners
<1> QED BY <1>1, <1>3 DEF Keeps

\* Every scanner of a scan is one.
LEMMA ScanTypes ==
  ASSUME NEW B, NEW bytes \in Seq(B), NEW base \in Scanners(B), NEW scan, Scan(scan, base, bytes)
  PROVE  \A n \in 0..Len(bytes) : scan[n] \in Scanners(B)
<1> DEFINE S == {n \in Nat : n <= Len(bytes) => scan[n] \in Scanners(B)}
<1>1. Len(bytes) \in Nat /\ \A n \in 1..Len(bytes) : bytes[n] \in B
  BY LenProperties, ElementOfSeq
<1>2. 0 \in S
  BY DEF Scan
<1>3. ASSUME NEW n \in Nat, n \in S PROVE n + 1 \in S
  <2>1. SUFFICES ASSUME n + 1 <= Len(bytes) PROVE scan[n + 1] \in Scanners(B)
    OBVIOUS
  <2>2. n + 1 \in 1..Len(bytes) /\ (n + 1) - 1 = n /\ scan[n] \in Scanners(B)
    BY <1>1, <1>3, <2>1
  <2>3. scan[n + 1] = FeedByte(scan[n], bytes[n + 1])
    BY <2>2 DEF Scan
  <2> QED BY <1>1, <2>2, <2>3, FeedType
<1>4. Nat \subseteq S
  <2> HIDE DEF S
  <2> QED BY <1>2, <1>3, NatSetInduction
<1> QED BY <1>1, <1>4

Associates(o, a, b) == (o \o a) \o b = o \o (a \o b)

LEMMA ConcatAssociates ==
  ASSUME NEW S, NEW o \in Seq(S), NEW a \in Seq(S), NEW b \in Seq(S)
  PROVE  Associates(o, a, b)
<1> DEFINE left == (o \o a) \o b
           right == o \o (a \o b)
<1>1. /\ left \in Seq(S) /\ right \in Seq(S) /\ Len(left) = Len(right)
      /\ \A i \in 1..Len(left) : left[i] = right[i]
  <2>1. o \o a \in Seq(S) /\ a \o b \in Seq(S)
    OBVIOUS
  <2> QED BY <2>1
<1> HIDE DEF left, right
<1>2. left = right
  BY <1>1, SeqEqual
<1> QED BY <1>2 DEF Associates, left, right

LEMMA KeepsOn ==
  ASSUME NEW B, NEW s \in Scanners(B), NEW t \in Scanners(B), NEW u \in Scanners(B), Keeps(B, s, t), Keeps(B, t, u)
  PROVE  Keeps(B, s, u)
<1>1. PICK a \in Seq(Seq(B)) : t.out = s.out \o a
  BY DEF Keeps
<1>2. PICK b \in Seq(Seq(B)) : u.out = t.out \o b
  BY DEF Keeps
<1>3. s.out \in Seq(Seq(B))
  BY DEF Scanners
<1>4. a \o b \in Seq(Seq(B))
  BY <1>1, <1>2
<1>5. Associates(s.out, a, b)
  BY <1>1, <1>2, <1>3, ConcatAssociates
<1> QED BY <1>1, <1>2, <1>4, <1>5 DEF Keeps, Associates

LEMMA ScanKeeps ==
  ASSUME NEW B, NEW bytes \in Seq(B), NEW base \in Scanners(B), NEW scan, Scan(scan, base, bytes),
         NEW p \in 0..Len(bytes), NEW q \in p..Len(bytes)
  PROVE  Keeps(B, scan[p], scan[q])
<1> DEFINE S == {n \in Nat : p + n <= Len(bytes) => Keeps(B, scan[p], scan[p + n])}
<1>1. Len(bytes) \in Nat /\ p \in Nat /\ \A n \in 1..Len(bytes) : bytes[n] \in B
  BY LenProperties, ElementOfSeq
<1>2. \A n \in 0..Len(bytes) : scan[n] \in Scanners(B)
  BY ScanTypes
<1>3. 0 \in S
  <2>1. scan[p].out \o << >> = scan[p].out /\ << >> \in Seq(Seq(B))
    BY <1>2 DEF Scanners
  <2>2. p + 0 = p
    BY <1>1
  <2> QED BY <2>1, <2>2 DEF Keeps
<1>4. ASSUME NEW n \in Nat, n \in S PROVE n + 1 \in S
  <2>1. SUFFICES ASSUME p + (n + 1) <= Len(bytes) PROVE Keeps(B, scan[p], scan[p + (n + 1)])
    OBVIOUS
  <2> DEFINE m == p + (n + 1)
  <2>2. m \in 1..Len(bytes) /\ m - 1 = p + n /\ p + n \in 0..Len(bytes) /\ m \in 0..Len(bytes)
    BY <1>1, <2>1
  <2>3. Keeps(B, scan[p], scan[m - 1])
    BY <1>1, <1>4, <2>1, <2>2
  <2>4. scan[m] = FeedByte(scan[m - 1], bytes[m])
    BY <2>2 DEF Scan
  <2> HIDE DEF m
  <2>5. Keeps(B, scan[m - 1], scan[m])
    <3>1. scan[m - 1] \in Scanners(B) /\ bytes[m] \in B
      BY <1>1, <1>2, <2>2
    <3>2. Keeps(B, scan[m - 1], FeedByte(scan[m - 1], bytes[m]))
      BY <3>1, FeedKeeps
    <3> QED BY <2>4, <3>2
  <2>6. Keeps(B, scan[p], scan[m])
    BY <1>2, <2>2, <2>3, <2>5, KeepsOn
  <2> QED BY <2>6 DEF m
<1>5. Nat \subseteq S
  <2> HIDE DEF S
  <2> QED BY <1>3, <1>4, NatSetInduction
<1>6. q - p \in Nat /\ p + (q - p) = q /\ q <= Len(bytes)
  BY <1>1
<1> QED BY <1>5, <1>6

\* A chunk is scanned as it is in one piece, whatever its bounds.
LEMMA ChunkScanned ==
  ASSUME NEW B, NEW bytes \in Seq(B), NEW base \in Scanners(B), NEW scan, Scan(scan, base, bytes),
         NEW p \in 1..Len(bytes), NEW q \in p..Len(bytes),
         NEW s \in Scanners(B), Fresh(scan[p - 1]) = Fresh(s)
  PROVE  scan[q] = Since(scan[p - 1].out, Feed(s, SubSeq(bytes, p, q))) /\ Feed(s, SubSeq(bytes, p, q)) \in Scanners(B)
<1> DEFINE chunk == SubSeq(bytes, p, q)
           o == scan[p - 1].out
<1>1. Len(bytes) \in Nat /\ p \in Nat /\ q \in Nat /\ p - 1 \in 0..Len(bytes)
  BY LenProperties
<1>2. \A n \in 0..Len(bytes) : scan[n] \in Scanners(B)
  BY ScanTypes
<1>3. chunk \in Seq(B) /\ Len(chunk) = (q - p) + 1 /\ \A n \in 1..Len(chunk) : chunk[n] = bytes[p + n - 1]
  BY <1>1, SubSeqProperties
<1> HIDE DEF chunk
<1>4. /\ Fresh(s) \in Scanners(B) /\ o \in Seq(Seq(B)) /\ scan[p - 1] = Since(o, Fresh(s))
  BY <1>1, <1>2, SinceFresh
<1>5. Feed(s, chunk) = FoldLeft(FeedByte, Fresh(s), chunk)
  BY DEF Feed, Fresh
<1>6. Len(chunk) \in Nat /\ DOMAIN chunk = 1..Len(chunk) /\ \A n \in 1..Len(chunk) : chunk[n] \in B
  BY <1>3, LenProperties, ElementOfSeq
<1>7. PICK part : Scan(part, Fresh(s), chunk) /\ FoldLeft(FeedByte, Fresh(s), chunk) = part[Len(chunk)]
  BY <1>6, FoldScans
<1>8. \A n \in 0..Len(chunk) : part[n] \in Scanners(B)
  BY <1>3, <1>4, <1>7, ScanTypes
<1> DEFINE S == {n \in Nat : n <= Len(chunk) => scan[(p - 1) + n] = Since(o, part[n])}
<1> HIDE DEF o
<1>9. 0 \in S
  BY <1>1, <1>4, <1>7 DEF Scan
<1>10. ASSUME NEW n \in Nat, n \in S PROVE n + 1 \in S
  <2>1. SUFFICES ASSUME n + 1 <= Len(chunk) PROVE scan[(p - 1) + (n + 1)] = Since(o, part[n + 1])
    OBVIOUS
  <2> DEFINE m == (p - 1) + (n + 1)
  <2>2. /\ m \in 1..Len(bytes) /\ m - 1 = (p - 1) + n /\ n + 1 \in 1..Len(chunk) /\ n \in 0..Len(chunk)
        /\ p + (n + 1) - 1 = m /\ (n + 1) - 1 = n
    BY <1>1, <1>3, <2>1
  <2>3. scan[m - 1] = Since(o, part[n]) /\ part[n] \in Scanners(B)
    BY <1>8, <1>10, <2>2
  <2>4. scan[m] = FeedByte(scan[m - 1], bytes[m])
    BY <2>2 DEF Scan
  <2>5. part[n + 1] = FeedByte(part[n], chunk[n + 1])
    BY <1>7, <2>2 DEF Scan
  <2>6. chunk[n + 1] = bytes[m] /\ chunk[n + 1] \in B
    BY <1>3, <1>6, <2>2
  <2> HIDE DEF m
  <2>7. scan[m] = Since(o, part[n + 1])
    BY <1>4, <2>3, <2>4, <2>5, <2>6, FeedSince
  <2> QED BY <2>7 DEF m
<1>11. Nat \subseteq S
  <2> HIDE DEF S
  <2> QED BY <1>9, <1>10, NatSetInduction
<1>12. (p - 1) + Len(chunk) = q
  BY <1>1, <1>3
<1>13. scan[q] = Since(o, part[Len(chunk)])
  BY <1>6, <1>11, <1>12
<1>14. part[Len(chunk)] \in Scanners(B)
  BY <1>6, <1>8
<1> QED BY <1>5, <1>7, <1>13, <1>14 DEF chunk, o

-----------------------------------------------------------------------------
(* What a row and an edge are to the server *)

\* In any row, under any command, an attribute the server wants as a string is one.
LEMMA RowReserved ==
  ASSUME NEW c, NEW row, RowValue(c, row) # Invalid,
         NEW a \in Reserved \cap DOMAIN RowValue(c, row)[2]
  PROVE  RowValue(c, row)[2][a][1] = "str"
<1> DEFINE values == SourceRow(c, row)
           kept == DOMAIN values \ c.removals
           names == {c.header[i] : i \in {i \in DOMAIN c.header : i \in DOMAIN row}}
           field(name) == row[CHOOSE i \in {i \in DOMAIN c.header : i \in DOMAIN row} : c.header[i] = name]
<1>1. RowValue(c, row) = <<"object", Reshaped(c, values)>>
  BY DEF RowValue
<1>2. \A text : Str(text)[1] = "str"
  BY DEF Str
<1>3. values = [name \in names |-> SourceValue(c, name, field(name))]
  BY DEF SourceRow
<1> HIDE DEF field
<1>4. \A name \in DOMAIN values : values[name] = SourceValue(c, name, field(name))
  BY <1>3
<1> HIDE DEF values, names
<1>5. ASSUME NEW name \in DOMAIN values, TargetName(c, name) \in Reserved PROVE values[name][1] = "str"
  BY <1>2, <1>4, <1>5 DEF SourceValue, KeepsText
<1>6. a \in DOMAIN c.merges \cup {TargetName(c, name) : name \in kept}
  BY <1>1 DEF Reshaped
<1>7. Reshaped(c, values)[a] = IF a \in DOMAIN c.merges THEN Str(Merged(values, c.merges[a]))
                               ELSE values[CHOOSE name \in kept : TargetName(c, name) = a]
  BY <1>6 DEF Reshaped
<1>8. CASE a \in DOMAIN c.merges
  BY <1>1, <1>2, <1>7, <1>8
<1>9. CASE a \notin DOMAIN c.merges
  <2>1. \E name \in kept : TargetName(c, name) = a
    BY <1>6, <1>9
  <2> DEFINE chosen == CHOOSE name \in kept : TargetName(c, name) = a
  <2>2. chosen \in kept /\ TargetName(c, chosen) = a
    BY <2>1
  <2> HIDE DEF chosen
  <2>3. values[chosen][1] = "str"
    BY <1>5, <2>2
  <2> QED BY <1>1, <1>7, <1>9, <2>3 DEF chosen
<1> QED BY <1>8, <1>9

\* Whether an end of an edge is there, as its check finds it.
LEMMA EdgeEnds ==
  ASSUME NEW c, NEW value, CheckEdge(c, value) # "bad"
  PROVE  /\ CheckEdge(c, value) = "empty" => \E field \in {"_from", "_to"} : value[2][field] \in {Null, Str("")}
         /\ CheckEdge(c, value) # "empty" => \A field \in {"_from", "_to"} : value[2][field] \notin {Null, Str("")}
<1> DEFINE end(field) == IF field \in DOMAIN value[2] THEN Endpoint(value[2][field], field \in c.prefixed) ELSE "bad"
           ends == {end("_from"), end("_to")}
<1>1. \A x, p : Endpoint(x, p) = "empty" <=> x \in {Null, Str("")}
  BY DEF Endpoint
<1>2. value[1] = "object"
  BY DEF CheckEdge
<1>3. CheckEdge(c, value) = IF "bad" \in ends THEN "bad" ELSE IF "empty" \in ends THEN "empty" ELSE "present"
  BY <1>2 DEF CheckEdge
<1> HIDE DEF end
<1>4. end("_from") # "bad" /\ end("_to") # "bad"
  BY <1>3
<1>5. CheckEdge(c, value) = "empty" <=> (end("_from") = "empty" \/ end("_to") = "empty")
  BY <1>3, <1>4
<1>6. \A field \in {"_from", "_to"} : end(field) = "empty" <=> value[2][field] \in {Null, Str("")}
  BY <1>1, <1>4 DEF end
<1> QED BY <1>5, <1>6

\* One more at the end of a sequence, whatever it is of.
Listed(s) == s \in Seq(Range(s))

LEMMA ListedAppend ==
  ASSUME NEW s, Listed(s), NEW x
  PROVE  /\ Listed(Append(s, x)) /\ Len(s) \in Nat /\ Len(Append(s, x)) = Len(s) + 1
         /\ DOMAIN s = 1..Len(s) /\ DOMAIN Append(s, x) = 1..(Len(s) + 1)
         /\ Append(s, x)[Len(s) + 1] = x
         /\ \A i \in 1..Len(s) : Append(s, x)[i] = s[i]
<1> DEFINE S == Range(s) \cup {x}
           t == Append(s, x)
           n == Len(s)
<1>1. s \in Seq(S) /\ x \in S
  <2>1. s \in Seq(Range(s)) /\ Range(s) \subseteq S
    BY DEF Listed
  <2> HIDE DEF S
  <2>2. s \in Seq(S)
    BY <2>1, SeqWider
  <2> QED BY <2>2 DEF S
<1> HIDE DEF S
<1>2. n \in Nat /\ t \in Seq(S) /\ Len(t) = n + 1 /\ t[n + 1] = x /\ \A i \in 1..n : t[i] = s[i]
  BY <1>1
<1>3. DOMAIN s = 1..n /\ DOMAIN t = 1..Len(t)
  BY <1>1, <1>2, LenProperties
<1> HIDE DEF n, t
<1>4. t \in [1..Len(t) -> Range(t)]
  <2>1. t = [i \in DOMAIN t |-> t[i]]
    BY <1>2, <1>3, LenProperties
  <2> QED BY <1>3, <2>1 DEF Range
<1>5. Listed(t)
  BY <1>2, <1>4, SeqDef DEF Listed
<1> QED BY <1>2, <1>3, <1>5 DEF n, t

-----------------------------------------------------------------------------
(* What was made of the source *)

\* How many of the values of the source were handled, and how many of its records passed.
Handled == Len(documents) + Cardinality(skipped)
Passed == IF source.format = "array" THEN Handled ELSE at - 1

\* The documents handed on are those the lines are of, in the order of the
\* source, and fit for the server.
HandedInv ==
  /\ Listed(documents) /\ Listed(lines) /\ Len(documents) = Len(lines)
  /\ IsFiniteSet(skipped) /\ skipped \subseteq 1..Handled
  /\ \A i \in DOMAIN documents : documents[i].ordinal \in 1..Handled
  /\ \A i, j \in DOMAIN documents : i < j => documents[i].ordinal < documents[j].ordinal
  /\ ServerTakes

\* They are what the source says.
ValuesInv ==
  source.verdict = "good" =>
    /\ \A i \in DOMAIN documents : documents[i].value = source.values[documents[i].ordinal]
    /\ \A k \in skipped : \E field \in {"_from", "_to"} : source.values[k][2][field] \in {Null, Str("")}

LEMMA HandledCounts ==
  ASSUME Listed(documents), IsFiniteSet(skipped)
  PROVE  Len(documents) \in Nat /\ Cardinality(skipped) \in Nat /\ Handled \in Nat /\ Ordinal = Handled + 1
<1>1. Len(documents) \in Nat
  BY LenProperties DEF Listed
<1>2. Cardinality(skipped) \in Nat
  BY FS_CardinalityType
<1> QED BY <1>1, <1>2 DEF Handled, Ordinal

\* What has become of a value: the import failed on it, or it is one more handled.
Refused == state' = "failed" /\ fault' = "parse" /\ UNCHANGED <<documents, skipped>>
OneMore == state' = state /\ fault' = fault /\ Handled' = Handled + 1

\* A value of the source is refused, skipped or handed on as it should be.
LEMMA DeliverKeeps ==
  ASSUME HandedInv, ValuesInv, state = "open", NEW value, Deliver(value),
         source.format = "csv" => \E row : value = RowValue(source.command, row),
         source.verdict = "good" => value = source.values[Ordinal]
  PROVE  /\ HandedInv' /\ ValuesInv' /\ source' = source /\ opened' = opened
         /\ \/ Refused /\ ~Accepted(source.command, value)
            \/ OneMore /\ Accepted(source.command, value)
<1> DEFINE verdict == IF source.command.edge THEN CheckEdge(source.command, value) ELSE "present"
<1>0. /\ Len(documents) \in Nat /\ Cardinality(skipped) \in Nat /\ Handled \in Nat /\ Ordinal = Handled + 1
      /\ Listed(documents) /\ DOMAIN documents = 1..Len(documents)
  BY HandledCounts, LenProperties DEF HandedInv, Listed
<1>00. skipped \subseteq 1..Handled /\ \A i \in DOMAIN documents : documents[i].ordinal \in 1..Handled
  BY DEF HandedInv
<1>1. CASE value = Invalid \/ verdict = "bad"
  <2>0. verdict # "empty"
    <3>1. CASE verdict = "bad"
      BY <3>1
    <3>2. CASE value = Invalid
      <4>1. value[1] # "object"
        BY <3>2 DEF Invalid
      <4>2. CheckEdge(source.command, value) = "bad"
        BY <4>1 DEF CheckEdge
      <4> QED BY <4>2
    <3> QED BY <1>1, <3>1, <3>2
  <2>1. FailWith("parse")
    BY <1>1, <2>0 DEF Deliver
  <2>2. Refused /\ UNCHANGED <<source, opened, documents, skipped, lines>>
    BY <2>1 DEF FailWith, InputError, Refused
  <2>3. ~Accepted(source.command, value)
    BY <1>1 DEF Accepted
  <2>4. HandedInv' /\ ValuesInv'
    BY <2>2 DEF HandedInv, ValuesInv, Handled, ServerTakes
  <2> QED BY <2>2, <2>3, <2>4
<1>2. CASE ~(value = Invalid \/ verdict = "bad") /\ verdict = "empty"
  <2>1. skipped' = skipped \cup {Ordinal} /\ UNCHANGED <<vars, source, opened, documents, fault>>
    BY <1>2 DEF Deliver
  <2>2. source.command.edge /\ CheckEdge(source.command, value) = "empty" /\ value # Invalid
    BY <1>2
  <2>3. \E field \in {"_from", "_to"} : value[2][field] \in {Null, Str("")}
    BY <2>2, EdgeEnds
  <2>4. IsFiniteSet(skipped') /\ Cardinality(skipped') = Cardinality(skipped) + 1
    BY <1>0, <2>1, FS_AddElement DEF HandedInv
  <2>5. Handled' = Handled + 1
    BY <1>0, <2>1, <2>4 DEF Handled
  <2>6. UNCHANGED <<lines, documents, state, source, opened, fault>>
    BY <2>1 DEF vars
  <2>7. HandedInv'
    <3>1. skipped' \subseteq 1..Handled' /\ \A i \in DOMAIN documents : documents[i].ordinal \in 1..Handled'
      BY <1>0, <1>00, <2>1, <2>5
    <3>2. ServerTakes'
      BY <2>6 DEF HandedInv, ServerTakes
    <3> QED BY <2>4, <2>6, <3>1, <3>2 DEF HandedInv
  <2>8. ValuesInv'
    BY <2>1, <2>3, <2>6 DEF ValuesInv
  <2>9. Accepted(source.command, value)
    BY <2>2 DEF Accepted
  <2> QED BY <2>5, <2>6, <2>7, <2>8, <2>9 DEF OneMore
<1>3. CASE ~(value = Invalid \/ verdict = "bad") /\ verdict # "empty"
  <2> DEFINE document == [ordinal |-> Ordinal, value |-> value]
             n == Len(documents)
  <2>1. /\ \E length \in LineLengths : Document(length)
        /\ documents' = Append(documents, document)
        /\ UNCHANGED <<source, opened, skipped, fault>>
    BY <1>3 DEF Deliver
  <2>2. PICK length \in LineLengths : lines' = Append(lines, length) /\ state' = state
    BY <2>1 DEF Document
  <2>3. document.ordinal = Ordinal /\ document.value = value
    OBVIOUS
  <2> HIDE DEF document
  <2>4. /\ Listed(documents') /\ Len(documents') = n + 1 /\ DOMAIN documents' = 1..(n + 1)
        /\ documents'[n + 1] = document /\ \A i \in 1..n : documents'[i] = documents[i]
    BY <1>0, <2>1, ListedAppend
  <2>5. Listed(lines') /\ Len(lines') = Len(lines) + 1
    BY <2>2, ListedAppend DEF HandedInv
  <2>6. Handled' = Handled + 1
    BY <1>0, <2>1, <2>4 DEF Handled
  <2>7. \A i \in 1..(n + 1) : i \in 1..n \/ i = n + 1
    BY <1>0
  <2>8. \A i \in 1..n : documents[i].ordinal \in 1..Handled
    BY <1>0 DEF HandedInv
  <2>9. value # Invalid /\ (source.command.edge => CheckEdge(source.command, value) \notin {"bad", "empty"})
    BY <1>3
  <2>10. /\ source.format = "csv" => \A a \in Reserved \cap DOMAIN value[2] : value[2][a][1] = "str"
         /\ source.command.edge => \A field \in {"_from", "_to"} : value[2][field] \notin {Null, Str("")}
    <3>1. ASSUME source.format = "csv", NEW a \in Reserved \cap DOMAIN value[2] PROVE value[2][a][1] = "str"
      BY <2>9, <3>1, RowReserved
    <3>2. ASSUME source.command.edge, NEW field \in {"_from", "_to"} PROVE value[2][field] \notin {Null, Str("")}
      BY <2>9, <3>2, EdgeEnds
    <3> QED BY <3>1, <3>2
  <2>11. HandedInv'
    <3>1. skipped' \subseteq 1..Handled'
      BY <1>0, <2>1, <2>6 DEF HandedInv
    <3>2. \A i \in 1..(n + 1) : documents'[i].ordinal \in 1..Handled'
      BY <1>0, <2>3, <2>4, <2>6, <2>7, <2>8
    <3>3. \A i, j \in 1..(n + 1) : i < j => documents'[i].ordinal < documents'[j].ordinal
      <4> SUFFICES ASSUME NEW i \in 1..(n + 1), NEW j \in 1..(n + 1), i < j
                   PROVE  documents'[i].ordinal < documents'[j].ordinal
        OBVIOUS
      <4>1. i \in 1..n /\ documents'[i].ordinal = documents[i].ordinal
        BY <1>0, <2>4
      <4>2. CASE j \in 1..n
        BY <1>0, <2>4, <4>1, <4>2 DEF HandedInv
      <4>3. CASE j = n + 1
        BY <1>0, <2>3, <2>4, <2>8, <4>1, <4>3
      <4> QED BY <2>7, <4>2, <4>3
    <3>4. ServerTakes'
      <4> SUFFICES ASSUME NEW i \in DOMAIN documents'
                   PROVE  /\ source.format = "csv" =>
                                \A a \in Reserved \cap DOMAIN documents'[i].value[2] : documents'[i].value[2][a][1] = "str"
                          /\ source.command.edge =>
                                \A field \in {"_from", "_to"} : documents'[i].value[2][field] \notin {Null, Str("")}
        BY <2>1 DEF ServerTakes
      <4>1. CASE i \in 1..n
        <5>1. documents'[i] = documents[i] /\ i \in DOMAIN documents
          BY <1>0, <2>4, <4>1
        <5> QED BY <5>1 DEF HandedInv, ServerTakes
      <4>2. CASE i = n + 1
        <5>1. documents'[i].value = value
          BY <2>3, <2>4, <4>2
        <5> QED BY <2>10, <5>1
      <4> QED BY <2>4, <2>7, <4>1, <4>2
    <3>5. IsFiniteSet(skipped') /\ Len(documents') = Len(lines')
      BY <2>1, <2>4, <2>5 DEF HandedInv
    <3> QED BY <2>4, <2>5, <3>1, <3>2, <3>3, <3>4, <3>5 DEF HandedInv
  <2>12. ValuesInv'
    <3> SUFFICES ASSUME source.verdict = "good" PROVE ValuesInv'
      BY <2>1 DEF ValuesInv
    <3>1. \A i \in 1..(n + 1) : documents'[i].value = source.values[documents'[i].ordinal]
      BY <1>0, <2>3, <2>4, <2>7 DEF ValuesInv
    <3> QED BY <2>1, <2>4, <3>1 DEF ValuesInv
  <2>13. Accepted(source.command, value)
    BY <2>9 DEF Accepted
  <2> QED BY <2>1, <2>2, <2>6, <2>11, <2>12, <2>13 DEF OneMore
<1> QED BY <1>1, <1>2, <1>3

\* The scan of a whole source, and where each of its values is.
Scanning(s) == CHOOSE scan : Scan(scan, NewScanner, s.units) /\ Whole(s) = scan[Len(s.units)]
PlaceOf(s) == CHOOSE place \in [DOMAIN s.values -> DOMAIN Records(s)] : Placed(s, place)
Characters(s) == Range(s.units)

LEMMA WholeScan ==
  ASSUME NEW s \in Sources
  PROVE  /\ s.units \in Seq(Characters(s)) /\ NewScanner \in Scanners(Characters(s))
         /\ Scan(Scanning(s), NewScanner, s.units) /\ Whole(s) = Scanning(s)[Len(s.units)]
         /\ Whole(s) \in Scanners(Characters(s)) /\ Len(s.units) \in Nat
<1> DEFINE B == Characters(s)
           bytes == s.units
<1>1. bytes \in Seq(B)
  BY ReadersAssumption DEF Characters
<1>2. NewScanner \in Scanners(B)
  BY DEF NewScanner, Scanners
<1>3. [NewScanner EXCEPT !.out = << >>] = NewScanner
  BY DEF NewScanner
<1> HIDE DEF B, bytes
<1>4. Len(bytes) \in Nat /\ DOMAIN bytes = 1..Len(bytes)
  BY <1>1, LenProperties
<1>5. \E scan : Scan(scan, NewScanner, bytes) /\ FoldLeft(FeedByte, NewScanner, bytes) = scan[Len(bytes)]
  BY <1>4, FoldScans
<1>6. Whole(s) = FoldLeft(FeedByte, NewScanner, bytes)
  BY <1>3 DEF Whole, Feed, bytes
<1>7. Scan(Scanning(s), NewScanner, bytes) /\ Whole(s) = Scanning(s)[Len(bytes)]
  BY <1>5, <1>6 DEF Scanning, bytes
<1>8. Whole(s) \in Scanners(B)
  BY <1>1, <1>2, <1>4, <1>7, ScanTypes
<1> QED BY <1>1, <1>2, <1>4, <1>7, <1>8 DEF B, bytes

LEMMA RecordsListed ==
  ASSUME NEW s \in Sources
  PROVE  /\ Len(Records(s)) \in Nat /\ DOMAIN Records(s) = 1..Len(Records(s))
         /\ Len(s.values) \in Nat /\ DOMAIN s.values = 1..Len(s.values)
<1>1. CASE s.format = "array"
  <2>1. Records(s) \in Seq(Seq(Characters(s)))
    BY <1>1, WholeScan DEF Records, Scanners
  <2>2. Len(Records(s)) \in Nat /\ DOMAIN Records(s) = 1..Len(Records(s))
    BY <2>1, LenProperties
  <2> QED BY <2>2, ReadersAssumption, LenProperties
<1>2. CASE s.format # "array"
  BY <1>2, ReadersAssumption, LenProperties DEF Records
<1> QED BY <1>1, <1>2

\* While the import is well, the records passed were taken, and the values handled
\* are those in them.
PassedInv ==
  /\ \A k \in Holding(source) : k <= Passed => Accepted(source.command, ValueAt(source, k))
  /\ source.verdict = "good" =>
       /\ Handled <= Len(source.values)
       /\ \A i \in DOMAIN source.values : i <= Handled <=> PlaceOf(source)[i] <= Passed

\* A good source has its values in its records, in order.
LEMMA PlaceFacts ==
  ASSUME NEW s \in Sources, ReadWhole(s), s.verdict = "good"
  PROVE  /\ Sound(s) /\ PlaceOf(s) \in [DOMAIN s.values -> DOMAIN Records(s)] /\ Placed(s, PlaceOf(s))
<1>1. \E place \in [DOMAIN s.values -> DOMAIN Records(s)] : Placed(s, place)
  BY DEF ReadWhole
<1> QED BY <1>1 DEF PlaceOf, ReadWhole

\* The next record with a value holds the next value.
LEMMA NextValue ==
  ASSUME source \in Sources, ReadWhole(source), source.verdict = "good", PassedInv,
         Handled \in Nat, Passed \in Nat, Passed + 1 \in Holding(source)
  PROVE  /\ Handled + 1 \in DOMAIN source.values
         /\ PlaceOf(source)[Handled + 1] = Passed + 1
         /\ source.values[Handled + 1] = ValueAt(source, Passed + 1)
<1> DEFINE place == PlaceOf(source)
           n == Len(source.values)
<1>1. /\ place \in [1..n -> DOMAIN Records(source)] /\ n \in Nat /\ DOMAIN source.values = 1..n
      /\ DOMAIN Records(source) \subseteq Nat
      /\ Placed(source, place)
  BY PlaceFacts, RecordsListed
<1>2. Handled <= n /\ \A i \in 1..n : i <= Handled <=> place[i] <= Passed
  BY <1>1 DEF PassedInv
<1>3. PICK i \in 1..n : place[i] = Passed + 1
  BY <1>1 DEF Placed
<1> HIDE DEF place, n
<1>4. Handled + 1 \in 1..n /\ Handled + 1 <= i
  BY <1>1, <1>2, <1>3
<1>5. ~(Handled + 1 < i)
  <2> SUFFICES ASSUME Handled + 1 < i PROVE FALSE
    OBVIOUS
  <2>1. place[Handled + 1] < place[i] /\ place[Handled + 1] \in Nat
    BY <1>1, <1>4 DEF Placed
  <2>2. place[Handled + 1] <= Passed
    BY <1>3, <2>1
  <2> QED BY <1>2, <1>4, <2>2
<1>6. Handled + 1 = i
  BY <1>4, <1>5
<1> QED BY <1>1, <1>3, <1>4, <1>6 DEF Placed, place

\* A record with a value is passed as the value is handled.
LEMMA ValuePassed ==
  ASSUME source \in Sources, ReadWhole(source), PassedInv,
         Handled \in Nat, Passed \in Nat, Passed + 1 \in Holding(source),
         source' = source, Handled' = Handled + 1, Passed' = Passed + 1,
         Accepted(source.command, ValueAt(source, Passed + 1))
  PROVE  PassedInv'
<1>1. Holding(source) \subseteq Nat
  BY RecordsListed DEF Holding
<1>2. \A k \in Holding(source) : k <= Passed + 1 => Accepted(source.command, ValueAt(source, k))
  <2> SUFFICES ASSUME NEW k \in Holding(source), k <= Passed + 1 PROVE Accepted(source.command, ValueAt(source, k))
    OBVIOUS
  <2>1. k <= Passed \/ k = Passed + 1
    BY <1>1
  <2> QED BY <2>1 DEF PassedInv
<1>3. ASSUME source.verdict = "good"
      PROVE  /\ Handled + 1 <= Len(source.values)
             /\ \A i \in DOMAIN source.values : i <= Handled + 1 <=> PlaceOf(source)[i] <= Passed + 1
  <2> DEFINE place == PlaceOf(source)
             n == Len(source.values)
  <2>1. /\ place \in [1..n -> DOMAIN Records(source)] /\ n \in Nat /\ DOMAIN source.values = 1..n
        /\ DOMAIN Records(source) \subseteq Nat
        /\ Placed(source, place)
    BY <1>3, PlaceFacts, RecordsListed
  <2>2. \A i \in 1..n : i <= Handled <=> place[i] <= Passed
    BY <1>3, <2>1 DEF PassedInv
  <2>3. Handled + 1 \in 1..n /\ place[Handled + 1] = Passed + 1
    BY <1>3, <2>1, NextValue
  <2>4. \A i, j \in 1..n : i < j => place[i] < place[j]
    BY <2>1 DEF Placed
  <2> HIDE DEF place, n
  <2>5. \A i \in 1..n : place[i] \in Nat
    BY <2>1
  <2>6. ASSUME NEW i \in 1..n PROVE i <= Handled + 1 <=> place[i] <= Passed + 1
    <3>1. CASE i <= Handled
      BY <2>2, <2>5, <3>1
    <3>2. CASE i = Handled + 1
      BY <2>3, <3>2
    <3>3. CASE Handled + 1 < i
      <4>1. place[Handled + 1] < place[i]
        BY <2>3, <2>4, <3>3
      <4> QED BY <2>3, <2>5, <3>3, <4>1
    <3> QED BY <3>1, <3>2, <3>3
  <2> QED BY <2>1, <2>3, <2>6 DEF place, n
<1>4. \A k \in Holding(source) : k <= Passed' => Accepted(source.command, ValueAt(source, k))
  BY <1>2
<1>5. source.verdict = "good" =>
        /\ Handled' <= Len(source.values)
        /\ \A i \in DOMAIN source.values : i <= Handled' <=> PlaceOf(source)[i] <= Passed'
  BY <1>3
<1> HIDE DEF Holding
<1> QED BY <1>4, <1>5 DEF PassedInv

\* A record without one is passed with nothing handled.
LEMMA BlankPassed ==
  ASSUME source \in Sources, ReadWhole(source), PassedInv,
         Handled \in Nat, Passed \in Nat, Passed + 1 \notin Holding(source),
         source' = source, Handled' = Handled, Passed' = Passed + 1
  PROVE  PassedInv'
<1>1. Holding(source) \subseteq Nat
  BY RecordsListed DEF Holding
<1>2. \A k \in Holding(source) : k <= Passed + 1 <=> k <= Passed
  BY <1>1
<1>3. ASSUME source.verdict = "good", NEW i \in DOMAIN source.values PROVE PlaceOf(source)[i] \in Holding(source)
  BY <1>3, PlaceFacts DEF Placed
<1>4. \A k \in Holding(source) : k <= Passed' => Accepted(source.command, ValueAt(source, k))
  BY <1>2 DEF PassedInv
<1>5. source.verdict = "good" =>
        /\ Handled' <= Len(source.values)
        /\ \A i \in DOMAIN source.values : i <= Handled' <=> PlaceOf(source)[i] <= Passed'
  BY <1>2, <1>3 DEF PassedInv
<1> QED BY <1>4, <1>5 DEF PassedInv

\* Past the last record of a good source, all its values are handled.
LEMMA AllHandled ==
  ASSUME source \in Sources, ReadWhole(source), source.verdict = "good", PassedInv,
         Handled \in Nat, Passed = Len(Records(source))
  PROVE  Handled = Len(source.values)
<1> DEFINE place == PlaceOf(source)
           n == Len(source.values)
<1>1. /\ place \in [1..n -> 1..Len(Records(source))] /\ n \in Nat /\ DOMAIN source.values = 1..n
      /\ Len(Records(source)) \in Nat
  BY PlaceFacts, RecordsListed
<1>2. Handled <= n /\ \A i \in 1..n : i <= Handled <=> place[i] <= Passed
  BY <1>1 DEF PassedInv
<1> HIDE DEF place, n
<1>3. \A i \in 1..n : i <= Handled
  BY <1>1, <1>2
<1>4. n = 0 \/ n \in 1..n
  BY <1>1
<1>5. Handled = n
  BY <1>1, <1>2, <1>3, <1>4
<1> QED BY <1>5 DEF n

\* Where the import is in its source.
SourceInv ==
  /\ source \in Sources /\ at \in Nat \ {0} /\ at <= Len(source.units) + 1
  /\ opened => Understood(source.command) /\ (Reshapes(source.command) => source.format = "csv")

VerdictInv ==
  /\ state \in {"open", "ended", "failed"}
  /\ fault = "parse" => ~Sound(source)
  /\ state = "ended" => Sound(source) /\ Passed = Len(Records(source))
  /\ state # "failed" => PassedInv

\* The scanner is as it is in one piece, but for what it yielded; what is in
\* hand is what it yielded after the elements handled.
ArrayInv ==
  source.format = "array" /\ state = "open" =>
    LET now == Scanning(source)[at - 1] IN
      /\ scanner \in Scanners(Characters(source)) /\ Fresh(scanner) = Fresh(now) /\ ~now.error
      /\ completed \in Seq(Seq(Characters(source))) /\ Len(now.out) = Handled + Len(completed)
      /\ \A j \in 1..Len(completed) : now.out[Handled + j] = completed[j]

ReadInv == SourceInv /\ HandedInv /\ ValuesInv /\ VerdictInv /\ ArrayInv

LEMMA Counted ==
  ASSUME ReadInv
  PROVE  Handled \in Nat /\ Passed \in Nat /\ Ordinal = Handled + 1 /\ Len(source.units) \in Nat
<1>1. Handled \in Nat /\ Ordinal = Handled + 1
  BY HandledCounts DEF ReadInv, HandedInv
<1>2. at - 1 \in Nat /\ Len(source.units) \in Nat
  BY ReadersAssumption, LenProperties DEF ReadInv, SourceInv
<1> QED BY <1>1, <1>2 DEF Passed

\* An import starts with nothing read.
LEMMA InitRead == ReadersInit /\ (\A s \in Sources : ReadWhole(s)) => ReadInv
<1> SUFFICES ASSUME ReadersInit, \A s \in Sources : ReadWhole(s) PROVE ReadInv
  OBVIOUS
<1>1. /\ source \in Sources /\ opened = FALSE /\ at = 1 /\ scanner = NewScanner /\ completed = << >>
      /\ documents = << >> /\ skipped = {} /\ fault = "none" /\ lines = << >> /\ state = "open"
  BY DEF ReadersInit, Init
<1>2. Listed(<< >>) /\ Len(<< >>) = 0 /\ DOMAIN << >> = {}
  BY DEF Listed
<1>3. IsFiniteSet({}) /\ Cardinality({}) = 0
  BY FS_EmptySet
<1>4. Handled = 0 /\ Passed = 0
  BY <1>1, <1>2, <1>3 DEF Handled, Passed
<1>5. SourceInv
  BY <1>1, WholeScan DEF SourceInv
<1>6. HandedInv
  BY <1>1, <1>2, <1>3 DEF HandedInv, ServerTakes
<1>7. ValuesInv
  BY <1>1, <1>2 DEF ValuesInv
<1>8. PassedInv
  <2>1. \A k \in Holding(source) : ~(k <= 0)
    BY <1>1, RecordsListed DEF Holding
  <2>2. ASSUME source.verdict = "good"
        PROVE  0 <= Len(source.values) /\ \A i \in DOMAIN source.values : i <= 0 <=> PlaceOf(source)[i] <= 0
    <3>1. \A i \in DOMAIN source.values : PlaceOf(source)[i] \in Holding(source) /\ ~(i <= 0)
      BY <1>1, <2>2, PlaceFacts, RecordsListed DEF Placed
    <3> QED BY <1>1, <2>1, <3>1, RecordsListed
  <2> QED BY <1>4, <2>1, <2>2 DEF PassedInv
<1>9. VerdictInv
  BY <1>1, <1>8 DEF VerdictInv
<1>10. ArrayInv
  <2> DEFINE now == Scanning(source)[at - 1]
             none == << >>
  <2>1. now = NewScanner /\ NewScanner \in Scanners(Characters(source))
    <3>1. at - 1 = 0
      BY <1>1
    <3> QED BY <1>1, <3>1, WholeScan DEF Scan
  <2>2. NewScanner.out = none /\ ~NewScanner.error
    BY DEF NewScanner
  <2>3. none \in Seq(Seq(Characters(source))) /\ Len(none) = 0 /\ 1..Len(none) = {}
    OBVIOUS
  <2>4. completed = none
    BY <1>1
  <2> HIDE DEF now, none
  <2>5. Len(now.out) = Handled + Len(completed) /\ \A j \in 1..Len(completed) : now.out[Handled + j] = completed[j]
    BY <1>4, <2>1, <2>2, <2>3, <2>4
  <2>6. ~now.error /\ scanner \in Scanners(Characters(source)) /\ Fresh(scanner) = Fresh(now)
    BY <1>1, <2>1, <2>2
  <2> QED BY <2>3, <2>4, <2>5, <2>6 DEF ArrayInv, now
<1> QED BY <1>5, <1>6, <1>7, <1>9, <1>10 DEF ReadInv

\* A failure keeps what was handed on.
LEMMA FailKeeps ==
  ASSUME ReadInv, NEW why, FailWith(why), why = "parse" => ~Sound(source),
         at' \in Nat \ {0}, at' <= Len(source.units) + 1
  PROVE  ReadInv'
<1>1. state' = "failed" /\ fault' = why /\ UNCHANGED <<lines, source, opened, documents, skipped>>
  BY DEF FailWith, InputError
<1>2. SourceInv'
  BY <1>1 DEF ReadInv, SourceInv
<1>3. HandedInv' /\ ValuesInv'
  BY <1>1 DEF ReadInv, HandedInv, ValuesInv, Handled, ServerTakes
<1>4. VerdictInv' /\ ArrayInv'
  BY <1>1 DEF ReadInv, VerdictInv, ArrayInv
<1> QED BY <1>2, <1>3, <1>4 DEF ReadInv

\* A record with a value is delivered.
LEMMA RecordKeeps ==
  ASSUME ReadInv, ReadWhole(source), state = "open",
         Passed + 1 \in Holding(source), Deliver(ValueAt(source, Passed + 1)), OneMore => Passed' = Passed + 1
  PROVE  /\ HandedInv' /\ ValuesInv' /\ VerdictInv' /\ source' = source /\ opened' = opened
         /\ state' = "failed" \/ OneMore
<1> DEFINE value == ValueAt(source, Passed + 1)
<1>1. Handled \in Nat /\ Passed \in Nat /\ Ordinal = Handled + 1
  BY Counted
<1>2. /\ source \in Sources /\ HandedInv /\ ValuesInv /\ PassedInv
      /\ fault = "parse" => ~Sound(source)
  BY DEF ReadInv, SourceInv, VerdictInv
<1>3. source.format = "csv" => \E row : value = RowValue(source.command, row)
  BY DEF ValueAt
<1>4. source.verdict = "good" => value = source.values[Ordinal]
  BY <1>1, <1>2, NextValue
<1>5. Deliver(value)
  OBVIOUS
<1> HIDE DEF value
<1>6. /\ HandedInv' /\ ValuesInv' /\ source' = source /\ opened' = opened
      /\ \/ Refused /\ ~Accepted(source.command, value)
         \/ OneMore /\ Accepted(source.command, value)
  BY <1>2, <1>3, <1>4, <1>5, DeliverKeeps
<1>7. CASE Refused /\ ~Accepted(source.command, value)
  <2>1. ~Sound(source)
    BY <1>7 DEF Sound, value
  <2> QED BY <1>6, <1>7, <2>1 DEF Refused, VerdictInv
<1>8. CASE OneMore /\ Accepted(source.command, value)
  <2>1. PassedInv'
    BY <1>1, <1>2, <1>6, <1>8, ValuePassed DEF OneMore, value
  <2>2. VerdictInv'
    BY <1>2, <1>6, <1>8, <2>1 DEF OneMore, VerdictInv
  <2> QED BY <1>6, <1>8, <2>2
<1> QED BY <1>6, <1>7, <1>8

\* What stays when nothing is handed on.
LEMMA SameHanded ==
  ASSUME HandedInv, ValuesInv, UNCHANGED <<lines, source, documents, skipped>>
  PROVE  HandedInv' /\ ValuesInv' /\ Handled' = Handled
BY DEF HandedInv, ValuesInv, Handled, ServerTakes

LEMMA OpenKeeps == ASSUME ReadInv, Open PROVE ReadInv'
<1>1. UNCHANGED <<source, at, scanner, completed, documents, skipped>> /\ state = "open"
  BY DEF Open
<1>2. UNCHANGED lines
  BY DEF Open, InputError, vars
<1>3. HandedInv' /\ ValuesInv' /\ Handled' = Handled /\ Passed' = Passed
  <2>1. HandedInv' /\ ValuesInv' /\ Handled' = Handled
    BY <1>1, <1>2, SameHanded DEF ReadInv
  <2> QED BY <1>1, <2>1 DEF Passed
<1>4. CASE ~Understood(source.command) \/ (Reshapes(source.command) /\ source.format # "csv")
  <2>1. state' = "failed" /\ fault' = "config" /\ opened' = opened
    BY <1>4 DEF Open, InputError
  <2> QED BY <1>1, <1>3, <2>1 DEF ReadInv, SourceInv, VerdictInv, ArrayInv
<1>5. CASE ~(~Understood(source.command) \/ (Reshapes(source.command) /\ source.format # "csv"))
  <2>1. opened' = TRUE /\ state' = state /\ fault' = fault
    BY <1>5 DEF Open, vars
  <2>2. SourceInv'
    BY <1>1, <1>5, <2>1 DEF ReadInv, SourceInv
  <2>3. VerdictInv'
    <3>1. PassedInv'
      BY <1>1, <1>3 DEF ReadInv, VerdictInv, PassedInv
    <3> QED BY <1>1, <2>1, <3>1 DEF ReadInv, VerdictInv
  <2>4. ArrayInv'
    BY <1>1, <1>3, <2>1 DEF ReadInv, ArrayInv
  <2> QED BY <1>3, <2>2, <2>3, <2>4 DEF ReadInv
<1> QED BY <1>4, <1>5

\* A unit more is read.
LEMMA UnitRead ==
  ASSUME ReadInv, More, at' = at + 1
  PROVE  at' \in Nat \ {0} /\ at' <= Len(source.units) + 1 /\ at \in 1..Len(source.units)
<1>1. at \in Nat \ {0} /\ Len(source.units) \in Nat /\ at <= Len(source.units)
  BY Counted DEF ReadInv, SourceInv, More
<1> QED BY <1>1

\* A line, blank or not.
LEMMA LineKeeps == ASSUME ReadInv, ReadWhole(source), NextLine PROVE ReadInv'
<1>1. source.format = "lines" /\ state = "open" /\ More /\ at' = at + 1 /\ UNCHANGED <<scanner, completed>>
  BY DEF NextLine, Reading
<1>2. /\ at' \in Nat \ {0} /\ at' <= Len(source.units) + 1 /\ at \in 1..Len(source.units)
      /\ Passed = at - 1 /\ Passed + 1 = at /\ at \in Nat /\ Handled \in Nat /\ Passed \in Nat
  BY <1>1, UnitRead, Counted DEF Passed
<1>3. source' = source => Passed' = Passed + 1
  BY <1>1, <1>2 DEF Passed
<1>4. source \in Sources /\ Records(source) = source.units /\ DOMAIN Records(source) = 1..Len(source.units)
  <2>1. source \in Sources /\ Records(source) = source.units
    BY <1>1 DEF ReadInv, SourceInv, Records
  <2> QED BY <2>1, RecordsListed
<1>5. CASE source.units[at] = << >>
  <2>1. UNCHANGED <<vars, source, opened, documents, skipped, fault>>
    BY <1>5 DEF NextLine
  <2>2. UNCHANGED <<state, lines>>
    BY <2>1 DEF vars
  <2>3. at \notin Holding(source)
    BY <1>1, <1>4, <1>5 DEF Holding
  <2>4. HandedInv' /\ ValuesInv' /\ Handled' = Handled
    BY <2>1, <2>2, SameHanded DEF ReadInv
  <2>5. PassedInv'
    BY <1>1, <1>2, <1>3, <1>4, <2>1, <2>3, <2>4, BlankPassed DEF ReadInv, VerdictInv
  <2>6. SourceInv' /\ VerdictInv' /\ ArrayInv'
    BY <1>1, <1>2, <2>1, <2>2, <2>5 DEF ReadInv, SourceInv, VerdictInv, ArrayInv
  <2> QED BY <2>4, <2>6 DEF ReadInv
<1>6. CASE source.units[at] # << >>
  <2>1. at \in Holding(source) /\ ValueAt(source, at) = JsonOf(source.units[at])
    BY <1>1, <1>2, <1>4, <1>6 DEF Holding, ValueAt
  <2>2. Deliver(ValueAt(source, at))
    BY <1>6, <2>1 DEF NextLine
  <2>3. source' = source
    BY <2>2 DEF Deliver, FailWith
  <2>4. /\ HandedInv' /\ ValuesInv' /\ VerdictInv' /\ source' = source /\ opened' = opened
        /\ state' = "failed" \/ OneMore
    BY <1>1, <1>2, <1>3, <2>1, <2>2, <2>3, RecordKeeps
  <2>5. SourceInv' /\ ArrayInv'
    BY <1>1, <1>2, <2>4 DEF ReadInv, SourceInv, ArrayInv
  <2> QED BY <2>4, <2>5 DEF ReadInv
<1> QED BY <1>5, <1>6

\* A row.
LEMMA RowKeeps == ASSUME ReadInv, ReadWhole(source), NextRow PROVE ReadInv'
<1>1. source.format = "csv" /\ state = "open" /\ More /\ at' = at + 1 /\ UNCHANGED <<scanner, completed>>
  BY DEF NextRow, Reading
<1>2. /\ at' \in Nat \ {0} /\ at' <= Len(source.units) + 1 /\ at \in 1..Len(source.units)
      /\ Passed = at - 1 /\ Passed + 1 = at /\ at \in Nat
  BY <1>1, UnitRead, Counted DEF Passed
<1>3. source' = source => Passed' = Passed + 1
  BY <1>1, <1>2 DEF Passed
<1>4. source \in Sources /\ Records(source) = source.units /\ DOMAIN Records(source) = 1..Len(source.units)
  <2>1. source \in Sources /\ Records(source) = source.units
    BY <1>1 DEF ReadInv, SourceInv, Records
  <2> QED BY <2>1, RecordsListed
<1>5. at \in Holding(source) /\ ValueAt(source, at) = RowValue(source.command, source.units[at])
  BY <1>1, <1>2, <1>4 DEF Holding, ValueAt
<1>6. Deliver(ValueAt(source, at))
  BY <1>5 DEF NextRow
<1>7. source' = source
  BY <1>6 DEF Deliver, FailWith
<1>8. /\ HandedInv' /\ ValuesInv' /\ VerdictInv' /\ source' = source /\ opened' = opened
      /\ state' = "failed" \/ OneMore
  BY <1>1, <1>2, <1>3, <1>5, <1>6, <1>7, RecordKeeps
<1>9. SourceInv' /\ ArrayInv'
  BY <1>1, <1>2, <1>8 DEF ReadInv, SourceInv, ArrayInv
<1> QED BY <1>8, <1>9 DEF ReadInv

\* What a scanner is but for what it yielded.
LEMMA FreshFacts ==
  ASSUME NEW B, NEW s \in Scanners(B), NEW t \in Scanners(B), Fresh(s) = Fresh(t)
  PROVE  s.started = t.started /\ s.finished = t.finished /\ s.error = t.error
<1>1. \A u \in Scanners(B) :
        Fresh(u).started = u.started /\ Fresh(u).finished = u.finished /\ Fresh(u).error = u.error
  BY DEF Fresh, Scanners
<1> QED BY <1>1

\* t is s with o yielded before.
Follows(o, s, t) == t.error = s.error /\ t.out = o \o s.out /\ Fresh(t) = Fresh(s)

LEMMA SinceFollows ==
  ASSUME NEW B, NEW s \in Scanners(B), NEW o \in Seq(Seq(B))
  PROVE  Follows(o, s, Since(o, s))
BY DEF Follows, Fresh, Since, Scanners

\* c is b after a.
Joins(a, b, c) ==
  /\ Len(a) \in Nat /\ Len(b) \in Nat /\ Len(c) = Len(a) + Len(b)
  /\ \A j \in 1..Len(a) : c[j] = a[j]
  /\ \A j \in 1..Len(b) : c[Len(a) + j] = b[j]

LEMMA ConcatJoins ==
  ASSUME NEW S, NEW a \in Seq(S), NEW b \in Seq(S)
  PROVE  Joins(a, b, a \o b)
BY DEF Joins

\* Where the scanner is in the scan of the whole array.
LEMMA ArrayFacts ==
  ASSUME ReadInv, source.format = "array", state = "open"
  PROVE  LET B == Characters(source)
             scan == Scanning(source)
             n == Len(source.units)
         IN /\ source \in Sources /\ source.units \in Seq(B) /\ n \in Nat /\ at \in 1..(n + 1)
            /\ Scan(scan, NewScanner, source.units) /\ NewScanner \in Scanners(B) /\ Whole(source) = scan[n]
            /\ \A k \in 0..n : scan[k] \in Scanners(B) /\ Keeps(B, scan[k], Whole(source))
            /\ Records(source) = Whole(source).out /\ Passed = Handled /\ Handled \in Nat
<1> DEFINE B == Characters(source)
           scan == Scanning(source)
           n == Len(source.units)
<1>1. source \in Sources /\ Records(source) = Whole(source).out /\ Passed = Handled /\ Handled \in Nat
  BY Counted DEF ReadInv, SourceInv, Records, Passed
<1>2. /\ source.units \in Seq(B) /\ n \in Nat /\ Scan(scan, NewScanner, source.units)
      /\ NewScanner \in Scanners(B) /\ Whole(source) = scan[n]
  BY <1>1, WholeScan
<1>3. at \in 1..(n + 1)
  BY <1>2 DEF ReadInv, SourceInv
<1>4. \A k \in 0..n : scan[k] \in Scanners(B)
  BY <1>2, ScanTypes
<1>5. \A k \in 0..n : Keeps(B, scan[k], Whole(source))
  <2> TAKE k \in 0..n
  <2>1. n \in k..n
    BY <1>2
  <2> HIDE DEF B, scan
  <2> QED BY <1>2, <2>1, ScanKeeps DEF n
<1> QED BY <1>1, <1>2, <1>3, <1>4, <1>5

\* A chunk, wherever it ends.
LEMMA ChunkKeeps == ASSUME ReadInv, ReadChunk PROVE ReadInv'
<1> DEFINE B == Characters(source)
           scan == Scanning(source)
           n == Len(source.units)
           now == scan[at - 1]
<1>1. source.format = "array" /\ state = "open" /\ completed = << >>
  BY DEF ReadChunk, Reading
<1>2. PICK last \in at..n :
        LET fed == Feed(scanner, SubSeq(source.units, at, last)) IN
          /\ at' = last + 1 /\ scanner' = fed
          /\ IF fed.error
               THEN FailWith("parse") /\ UNCHANGED completed
               ELSE /\ completed' = fed.out
                    /\ UNCHANGED <<vars, source, opened, documents, skipped, fault>>
  BY DEF ReadChunk
<1> DEFINE fed == Feed(scanner, SubSeq(source.units, at, last))
           whole == Whole(source)
<1>3. /\ source \in Sources /\ source.units \in Seq(B) /\ n \in Nat /\ at \in 1..(n + 1)
      /\ Scan(scan, NewScanner, source.units) /\ NewScanner \in Scanners(B) /\ whole = scan[n]
      /\ \A k \in 0..n : scan[k] \in Scanners(B) /\ Keeps(B, scan[k], whole)
      /\ Handled \in Nat
  BY <1>1, ArrayFacts
<1>4. at \in 1..n /\ last \in at..n /\ at - 1 \in 0..n /\ last \in 0..n /\ (last + 1) - 1 = last
      /\ last + 1 \in Nat \ {0} /\ last + 1 <= n + 1
  BY <1>2, <1>3
<1>5. /\ scanner \in Scanners(B) /\ Fresh(scan[at - 1]) = Fresh(scanner)
      /\ Len(now.out) = Handled + Len(completed)
  BY <1>1 DEF ReadInv, ArrayInv
<1> HIDE DEF B, scan
<1>6. scan[last] = Since(now.out, fed) /\ fed \in Scanners(B)
  BY <1>3, <1>4, <1>5, ChunkScanned
<1>7. now.out \in Seq(Seq(B)) /\ fed.out \in Seq(Seq(B))
  BY <1>3, <1>4, <1>6 DEF Scanners
<1>8. /\ scan[last].error = fed.error /\ scan[last].out = now.out \o fed.out
      /\ Fresh(scan[last]) = Fresh(fed)
  <2>1. Follows(now.out, fed, scan[last])
    BY <1>6, <1>7, SinceFollows
  <2> HIDE DEF now, fed
  <2> QED BY <2>1 DEF Follows
<1>9. at' = last + 1 /\ scanner' = fed
  BY <1>2
<1>10. CASE fed.error
  <2>1. FailWith("parse")
    BY <1>2, <1>10
  <2>2. whole.error
    BY <1>3, <1>4, <1>8, <1>10 DEF Keeps
  <2>3. ~Sound(source)
    BY <1>1, <2>2 DEF Sound
  <2>4. at' \in Nat \ {0} /\ at' <= Len(source.units) + 1
    BY <1>4, <1>9
  <2> QED BY <2>1, <2>3, <2>4, FailKeeps
<1>11. CASE ~fed.error
  <2>1. completed' = fed.out /\ UNCHANGED <<vars, source, opened, documents, skipped, fault>>
    BY <1>2, <1>11
  <2>2. UNCHANGED <<lines, state>>
    BY <2>1 DEF vars
  <2>3. HandedInv' /\ ValuesInv' /\ Handled' = Handled
    BY <2>1, <2>2, SameHanded DEF ReadInv
  <2>4. Passed' = Passed
    BY <1>1, <2>1, <2>3 DEF Passed
  <2>5. SourceInv'
    BY <1>4, <1>9, <2>1 DEF ReadInv, SourceInv
  <2>6. PassedInv'
    BY <1>1, <2>1, <2>3, <2>4 DEF ReadInv, VerdictInv, PassedInv
  <2>7. VerdictInv'
    BY <1>1, <2>1, <2>2, <2>6 DEF ReadInv, VerdictInv
  <2>8. Len(completed) = 0
    BY <1>1
  <2> DEFINE out == fed.out
             earlier == now.out
  <2>9. earlier \in Seq(Seq(B)) /\ out \in Seq(Seq(B)) /\ Len(earlier) = Handled
    BY <1>3, <1>5, <1>7, <2>8
  <2> HIDE DEF out, earlier
  <2>10. Joins(earlier, out, earlier \o out)
    BY <2>9, ConcatJoins
  <2>11. LET after == Scanning(source)[at' - 1] IN
           /\ scanner' \in Scanners(Characters(source)) /\ Fresh(scanner') = Fresh(after) /\ ~after.error
           /\ completed' \in Seq(Seq(Characters(source))) /\ Len(after.out) = Handled' + Len(completed')
           /\ \A j \in 1..Len(completed') : after.out[Handled' + j] = completed'[j]
    <3>1. Scanning(source)[at' - 1] = scan[last] /\ Characters(source) = B
      BY <1>4, <1>9 DEF scan, B
    <3>2. completed' = out /\ Joins(earlier, out, scan[last].out)
      BY <1>8, <2>1, <2>10 DEF out, earlier
    <3>3. ~scan[last].error /\ Fresh(scanner') = Fresh(scan[last]) /\ scanner' \in Scanners(B)
      BY <1>6, <1>8, <1>9, <1>11
    <3> HIDE DEF fed, now
    <3> QED BY <2>3, <2>9, <3>1, <3>2, <3>3 DEF Joins
  <2>12. ArrayInv'
    BY <2>1, <2>11 DEF ArrayInv
  <2> QED BY <2>3, <2>5, <2>7, <2>12 DEF ReadInv
<1> QED BY <1>10, <1>11

\* What was yielded early in the scan is there at its end.
LEMMA YieldedStays ==
  ASSUME ReadInv, source.format = "array", state = "open"
  PROVE  LET now == Scanning(source)[at - 1] IN
           /\ now \in Scanners(Characters(source))
           /\ Len(now.out) \in Nat /\ Len(now.out) <= Len(Records(source))
           /\ \A j \in 1..Len(now.out) : Records(source)[j] = now.out[j]
<1> DEFINE B == Characters(source)
           now == Scanning(source)[at - 1]
           records == Records(source)
<1>1. now \in Scanners(B) /\ Keeps(B, now, Whole(source)) /\ records = Whole(source).out
  <2>1. at - 1 \in 0..Len(source.units)
    BY ArrayFacts
  <2> QED BY <2>1, ArrayFacts
<1> HIDE DEF now, records, B
<1>2. PICK rest \in Seq(Seq(B)) : records = now.out \o rest
  BY <1>1 DEF Keeps
<1>3. now.out \in Seq(Seq(B))
  BY <1>1 DEF Scanners
<1>4. Joins(now.out, rest, records)
  <2>1. Joins(now.out, rest, now.out \o rest)
    BY <1>2, <1>3, ConcatJoins
  <2> QED BY <1>2, <2>1
<1>5. Len(now.out) \in Nat /\ Len(now.out) <= Len(records) /\ \A j \in 1..Len(now.out) : records[j] = now.out[j]
  BY <1>4 DEF Joins
<1> QED BY <1>1, <1>5 DEF now, records, B

\* What is left after the head of a sequence.
LEMMA TailFacts ==
  ASSUME NEW S, NEW s \in Seq(S), s # << >>
  PROVE  /\ Len(s) \in Nat \ {0} /\ Head(s) = s[1] /\ Tail(s) \in Seq(S) /\ Len(Tail(s)) = Len(s) - 1
         /\ \A j \in 1..Len(Tail(s)) : Tail(s)[j] = s[j + 1]
OBVIOUS

\* An element of the chunk in hand.
LEMMA ElementKeeps == ASSUME ReadInv, ReadWhole(source), NextElement PROVE ReadInv'
<1> DEFINE now == Scanning(source)[at - 1]
           S == Seq(Characters(source))
           n == Len(completed)
<1>1. /\ source.format = "array" /\ state = "open" /\ completed # << >> /\ UNCHANGED <<at, scanner>>
      /\ completed' = Tail(completed) /\ Deliver(JsonOf(Head(completed)))
  BY DEF NextElement, Reading
<1>2. /\ scanner \in Scanners(Characters(source)) /\ Fresh(scanner) = Fresh(now) /\ ~now.error
      /\ completed \in Seq(S) /\ Len(now.out) = Handled + n
      /\ \A j \in 1..n : now.out[Handled + j] = completed[j]
  BY <1>1 DEF ReadInv, ArrayInv
<1>3. Passed = Handled /\ Handled \in Nat /\ source \in Sources /\ DOMAIN Records(source) = 1..Len(Records(source))
      /\ Len(Records(source)) \in Nat
  BY <1>1, ArrayFacts, RecordsListed
<1>4. Len(now.out) <= Len(Records(source)) /\ \A j \in 1..Len(now.out) : Records(source)[j] = now.out[j]
  BY <1>1, YieldedStays
<1> HIDE DEF now, S
<1>5. /\ n \in Nat \ {0} /\ Head(completed) = completed[1] /\ completed' \in Seq(S) /\ Len(completed') = n - 1
      /\ \A j \in 1..Len(completed') : completed'[j] = completed[j + 1]
  BY <1>1, <1>2, TailFacts
<1> HIDE DEF n
<1>6. Handled + 1 \in 1..Len(now.out) /\ 1 \in 1..n
  BY <1>2, <1>3, <1>5
<1>7. Handled + 1 \in DOMAIN Records(source) /\ Records(source)[Handled + 1] = Head(completed)
  BY <1>2, <1>3, <1>4, <1>5, <1>6
<1>8. Passed + 1 \in Holding(source) /\ ValueAt(source, Passed + 1) = JsonOf(Head(completed))
  BY <1>1, <1>3, <1>7 DEF Holding, ValueAt
<1>9. source' = source
  BY <1>1 DEF Deliver, FailWith
<1>10. OneMore => Passed' = Passed + 1
  BY <1>1, <1>3, <1>9 DEF OneMore, Passed
<1>11. /\ HandedInv' /\ ValuesInv' /\ VerdictInv' /\ source' = source /\ opened' = opened
       /\ state' = "failed" \/ OneMore
  BY <1>1, <1>8, <1>10, RecordKeeps
<1>12. SourceInv'
  BY <1>1, <1>11 DEF ReadInv, SourceInv
<1>13. ArrayInv'
  <2>1. CASE state' = "failed"
    BY <2>1 DEF ArrayInv
  <2>2. CASE OneMore
    <3>1. Handled' = Handled + 1
      BY <2>2 DEF OneMore
    <3>2. Len(now.out) = Handled' + Len(completed')
      BY <1>2, <1>3, <1>5, <3>1
    <3>3. ASSUME NEW j \in 1..Len(completed') PROVE now.out[Handled' + j] = completed'[j]
      <4>1. j + 1 \in 1..n /\ Handled' + j = Handled + (j + 1)
        BY <1>3, <1>5, <3>1
      <4> QED BY <1>2, <1>5, <4>1
    <3>4. Scanning(source)[at' - 1] = now /\ scanner' = scanner
      BY <1>1 DEF now
    <3>5. LET after == Scanning(source)[at' - 1] IN
            /\ scanner' \in Scanners(Characters(source)) /\ Fresh(scanner') = Fresh(after) /\ ~after.error
            /\ completed' \in Seq(Seq(Characters(source))) /\ Len(after.out) = Handled' + Len(completed')
            /\ \A j \in 1..Len(completed') : after.out[Handled' + j] = completed'[j]
      BY <1>2, <1>5, <3>2, <3>3, <3>4 DEF S
    <3> QED BY <1>9, <3>5 DEF ArrayInv
  <2> QED BY <1>11, <2>1, <2>2
<1> QED BY <1>11, <1>12, <1>13 DEF ReadInv

\* The end of the input, with every record passed.
LEMMA EndKeepsRead ==
  ASSUME ReadInv, state = "open", opened, EndOfInput, UNCHANGED readerVars, Passed = Len(Records(source)),
         source.format = "array" => ~Whole(source).error /\ Whole(source).started /\ Whole(source).finished
  PROVE  ReadInv'
<1>1. state' = "ended" /\ lines' = lines /\ UNCHANGED <<source, opened, at, documents, skipped, fault>>
  BY DEF EndOfInput, readerVars
<1>2. HandedInv' /\ ValuesInv' /\ Handled' = Handled
  BY <1>1, SameHanded DEF ReadInv
<1>3. Passed' = Passed
  BY <1>1, <1>2 DEF Passed
<1>4. SourceInv' /\ ArrayInv'
  BY <1>1 DEF ReadInv, SourceInv, ArrayInv
<1>5. PassedInv
  BY DEF ReadInv, VerdictInv
<1>6. Sound(source)
  <2>1. \A k \in Holding(source) : k <= Passed
    BY RecordsListed DEF ReadInv, SourceInv, Holding
  <2>2. \A k \in Holding(source) : Accepted(source.command, ValueAt(source, k))
    BY <1>5, <2>1 DEF PassedInv
  <2>3. Understood(source.command) /\ (Reshapes(source.command) => source.format = "csv")
    BY DEF ReadInv, SourceInv
  <2> QED BY <2>2, <2>3 DEF Sound
<1>7. PassedInv'
  BY <1>1, <1>2, <1>3, <1>5 DEF PassedInv
<1>8. VerdictInv'
  BY <1>1, <1>3, <1>6, <1>7 DEF ReadInv, VerdictInv
<1> QED BY <1>2, <1>4, <1>8 DEF ReadInv

LEMMA ArrayEndKeeps == ASSUME ReadInv, EndOfArray PROVE ReadInv'
<1> DEFINE now == Scanning(source)[at - 1]
           n == Len(source.units)
<1>1. /\ source.format = "array" /\ state = "open" /\ opened /\ completed = << >> /\ ~More
      /\ UNCHANGED <<at, scanner, completed>>
  BY DEF EndOfArray, Reading
<1>2. /\ n \in Nat /\ at \in 1..(n + 1) /\ Whole(source) = Scanning(source)[n]
      /\ Records(source) = Whole(source).out /\ Passed = Handled /\ Handled \in Nat
  BY <1>1, ArrayFacts
<1>3. at - 1 = n
  BY <1>1, <1>2 DEF More
<1>4. /\ scanner \in Scanners(Characters(source)) /\ Fresh(scanner) = Fresh(now) /\ ~now.error
      /\ Len(now.out) = Handled + Len(completed)
  BY <1>1 DEF ReadInv, ArrayInv
<1>5. now = Whole(source) /\ now \in Scanners(Characters(source))
  BY <1>1, <1>2, <1>3, YieldedStays
<1>6. Len(completed) = 0
  BY <1>1
<1> HIDE DEF now
<1>7. Whole(source).started = scanner.started /\ Whole(source).finished = scanner.finished
  BY <1>4, <1>5, FreshFacts
<1>8. Passed = Len(Records(source))
  BY <1>2, <1>4, <1>5, <1>6
<1>9. CASE scanner.started /\ scanner.finished
  <2>1. EndOfInput /\ UNCHANGED readerVars
    BY <1>1, <1>9 DEF EndOfArray, readerVars
  <2> QED BY <1>1, <1>4, <1>5, <1>7, <1>8, <1>9, <2>1, EndKeepsRead
<1>10. CASE ~(scanner.started /\ scanner.finished)
  <2>1. FailWith("parse") /\ ~Sound(source)
    BY <1>1, <1>7, <1>10 DEF EndOfArray, Sound
  <2> QED BY <1>1, <1>2, <2>1, FailKeeps
<1> QED BY <1>9, <1>10

LEMMA RecordsEndKeeps == ASSUME ReadInv, EndOfRecords PROVE ReadInv'
<1>1. /\ source.format \in {"lines", "csv"} /\ state = "open" /\ opened /\ ~More /\ EndOfInput
      /\ UNCHANGED readerVars
  BY DEF EndOfRecords, Reading
<1>2. Len(source.units) \in Nat /\ at \in Nat \ {0} /\ at <= Len(source.units) + 1
  BY Counted DEF ReadInv, SourceInv
<1>3. Passed = at - 1 /\ Records(source) = source.units
  BY <1>1 DEF Passed, Records
<1>4. Passed = Len(Records(source))
  BY <1>1, <1>2, <1>3 DEF More
<1> QED BY <1>1, <1>4, EndKeepsRead

LEMMA SteadyRead == ASSUME ReadInv, UNCHANGED ingestVars PROVE ReadInv'
<1>1. UNCHANGED <<lines, state, source, opened, at, scanner, completed, documents, skipped, fault>>
  BY DEF ingestVars, readerVars, vars
<1>2. HandedInv' /\ ValuesInv' /\ Handled' = Handled
  BY <1>1, SameHanded DEF ReadInv
<1>3. Passed' = Passed
  BY <1>1, <1>2 DEF Passed
<1>4. PassedInv => PassedInv'
  BY <1>1, <1>2, <1>3 DEF PassedInv
<1> QED BY <1>1, <1>2, <1>3, <1>4 DEF ReadInv, SourceInv, VerdictInv, ArrayInv

LEMMA ReadHolds ==
  ASSUME \A s \in Sources : ReadWhole(s)
  PROVE  ReadersSpec => []ReadInv
<1>1. ReadersInit => ReadInv
  BY InitRead
<1>2. ReadInv /\ [ReadersNext]_ingestVars => ReadInv'
  <2> SUFFICES ASSUME ReadInv, [ReadersNext]_ingestVars PROVE ReadInv'
    OBVIOUS
  <2>1. ReadWhole(source) /\ at \in Nat \ {0} /\ at <= Len(source.units) + 1
    BY DEF ReadInv, SourceInv
  <2>2. CASE Open
    BY <2>2, OpenKeeps
  <2>3. CASE ReadChunk
    BY <2>3, ChunkKeeps
  <2>4. CASE NextElement
    BY <2>1, <2>4, ElementKeeps
  <2>5. CASE EndOfArray
    BY <2>5, ArrayEndKeeps
  <2>6. CASE NextLine
    BY <2>1, <2>6, LineKeeps
  <2>7. CASE NextRow
    BY <2>1, <2>7, RowKeeps
  <2>8. CASE EndOfRecords
    BY <2>8, RecordsEndKeeps
  <2>9. CASE ReadFails
    BY <2>1, <2>9, FailKeeps DEF ReadFails
  <2>10. CASE Finished \/ UNCHANGED ingestVars
    BY <2>10, SteadyRead DEF Finished
  <2> QED BY <2>2, <2>3, <2>4, <2>5, <2>6, <2>7, <2>8, <2>9, <2>10 DEF ReadersNext
<1> QED BY <1>1, <1>2, PTL DEF ReadersSpec

\* However the bytes of an array are cut into chunks, and whatever else the import
\* is given, its documents are what its source says, in order: all of them when it
\* ends well, and it fails to parse only a source that is not sound.
THEOREM InputUnderstoodCorrect ==
  ASSUME \A s \in Sources : ReadWhole(s)
  PROVE  ReadersSpec => []InputUnderstood
<1>1. ReadInv => InputUnderstood
  <2> SUFFICES ASSUME ReadInv PROVE InputUnderstood
    OBVIOUS
  <2>1. source \in Sources /\ ReadWhole(source) /\ Handled \in Nat
    BY Counted DEF ReadInv, SourceInv
  <2>2. InOrder
    <3>1. ASSUME NEW k \in skipped
          PROVE  \E field \in {"_from", "_to"} :
                   source.verdict = "good" => source.values[k][2][field] \in {Null, Str("")}
      BY DEF ReadInv, ValuesInv
    <3>2. state = "ended" /\ source.verdict = "good" => Handled = Len(source.values)
      BY <2>1, AllHandled DEF ReadInv, VerdictInv
    <3> QED BY <3>1, <3>2 DEF ReadInv, HandedInv, ValuesInv, InOrder, Handled
  <2>3. (fault = "parse" => source.verdict # "good") /\ (source.verdict = "bad" => state # "ended")
    BY <2>1 DEF ReadInv, VerdictInv, ReadWhole
  <2> QED BY <2>2, <2>3 DEF ReadInv, HandedInv, InputUnderstood
<1> QED BY <1>1, ReadHolds, PTL

-----------------------------------------------------------------------------
(* The vertices of an RDF import *)

\* A place holds one vertex.
Distinct(docs) == \A v, w \in docs : v.at = w.at => v = w

\* Storing a vertex makes its place known and touches no other.
LEMMA StoredVertex ==
  ASSUME NEW docs, Distinct(docs), NEW place
  PROVE  /\ Places(StoreVertex(docs, place)) = Places(docs) \cup {place}
         /\ Distinct(StoreVertex(docs, place))
         /\ docs \subseteq StoreVertex(docs, place)
         /\ \A v \in StoreVertex(docs, place) : v \in docs \/ v.at = place
<1> DEFINE new == [at |-> place, properties |-> {}]
<1>1. CASE place \in Places(docs)
  <2>1. StoreVertex(docs, place) = docs
    BY <1>1 DEF StoreVertex
  <2> QED BY <1>1, <2>1
<1>2. CASE place \notin Places(docs)
  <2>1. StoreVertex(docs, place) = docs \cup {new} /\ new.at = place
    BY <1>2 DEF StoreVertex
  <2>2. \A v \in docs : v.at # place
    BY <1>2 DEF Places
  <2> HIDE DEF new
  <2>3. Places(docs \cup {new}) = Places(docs) \cup {place}
    BY <2>1 DEF Places
  <2>4. Distinct(docs \cup {new})
    BY <2>1, <2>2 DEF Distinct
  <2> QED BY <2>1, <2>3, <2>4
<1> QED BY <1>1, <1>2

\* Adding a property keeps every place, and every property of another predicate.
LEMMA AddedProperty ==
  ASSUME NEW docs, Distinct(docs), NEW place \in Places(docs), NEW predicate, NEW value
  PROVE  LET new == AddProperty(docs, place, predicate, value) IN
         /\ Places(new) = Places(docs)
         /\ Distinct(new)
         /\ \E v \in new : v.at = place /\ <<predicate, value>> \in v.properties
         /\ \A v \in docs : \A p \in v.properties :
              v.at # place \/ p[1] # predicate => \E w \in new : w.at = v.at /\ p \in w.properties
<1> DEFINE old == CHOOSE v \in docs : v.at = place
           kept == {p \in old.properties : p[1] # predicate}
           vertex == [at |-> place, properties |-> kept \cup {<<predicate, value>>}]
           new == (docs \ {old}) \cup {vertex}
<1>1. old \in docs /\ old.at = place
  BY DEF Places
<1>2. vertex.at = place /\ vertex.properties = kept \cup {<<predicate, value>>}
  OBVIOUS
<1>3. AddProperty(docs, place, predicate, value) = new
  BY DEF AddProperty
<1>4. \A p \in old.properties : p[1] # predicate => p \in vertex.properties
  BY <1>2
<1>5. <<predicate, value>> \in vertex.properties
  BY <1>2
<1> HIDE DEF old, kept, vertex
<1>6. \A v \in docs : v.at = place => v = old
  BY <1>1 DEF Distinct
<1>7. Places(new) = Places(docs)
  BY <1>1, <1>2 DEF Places
<1>8. Distinct(new)
  BY <1>1, <1>2, <1>6 DEF Distinct
<1>9. vertex \in new
  OBVIOUS
<1>10. ASSUME NEW v \in docs, NEW p \in v.properties, v.at # place \/ p[1] # predicate
       PROVE  \E w \in new : w.at = v.at /\ p \in w.properties
  <2>1. CASE v = old
    BY <1>1, <1>2, <1>4, <1>9, <1>10, <2>1
  <2>2. CASE v # old
    BY <2>2
  <2> QED BY <2>1, <2>2
<1> HIDE DEF new
<1> QED BY <1>2, <1>3, <1>5, <1>7, <1>8, <1>9, <1>10

\* Two subjects with one place are one: their keys are hashes of all they are.
LEMMA PlacementInjective ==
  ASSUME NEW s, NEW t, Placement(s) = Placement(t)
  PROVE  s = t
<1>1. TermKey(s) = TermKey(t)
  BY DEF Placement
<1> QED BY <1>1 DEF TermKey

\* A vertex's collection is one of the vertex collections.
Home(place) == \E k \in DOMAIN VertexCollections : place[1] = VertexCollections[k]

LEMMA PlacementHome == ASSUME NEW term PROVE Home(Placement(term))
<1>1. Placement(term)[1] = VertexCollection(term)
  BY DEF Placement
<1>2. CASE options.model = "pgt"
  <2>1. VertexCollections = <<"nodes">> /\ VertexCollection(term) = "nodes"
    BY <1>2 DEF VertexCollections, VertexCollection
  <2>2. 1 \in DOMAIN <<"nodes">> /\ <<"nodes">>[1] = "nodes"
    OBVIOUS
  <2> QED BY <1>1, <2>1, <2>2 DEF Home
<1>3. CASE options.model # "pgt"
  <2>1. VertexCollections = <<"BNode", "Literal", "URIRef">>
    BY <1>3 DEF VertexCollections
  <2>2. VertexCollection(term) \in {"URIRef", "BNode", "Literal"}
    BY <1>3 DEF VertexCollection
  <2>3. 1..3 = DOMAIN <<"BNode", "Literal", "URIRef">>
    OBVIOUS
  <2>4. 1 \in 1..3 /\ 2 \in 1..3 /\ 3 \in 1..3
    OBVIOUS
  <2> QED BY <1>1, <2>1, <2>2, <2>3, <2>4 DEF Home
<1> QED BY <1>2, <1>3

\* What the first statements say of the vertices.
Says(docs, t) ==
  /\ Placement(t.subject) \in Places(docs)
  /\ HasEdge(t) => Placement(t.object) \in Places(docs)

Valued(docs, t) ==
  \E v \in docs, u \in ToSet(Parsed.triples) :
    /\ v.at = Placement(t.subject)
    /\ u.subject = t.subject /\ u.predicate = t.predicate /\ <<u.predicate, u.object[2]>> \in v.properties

Folded(docs, t) ==
  Says(docs, t) /\ (~HasEdge(t) /\ options.literals = "property" => Valued(docs, t))

\* A statement says what it says, and nothing said before is lost.
LEMMA FoldedMore ==
  ASSUME NEW docs, Distinct(docs), NEW t \in ToSet(Parsed.triples)
  PROVE  /\ Distinct(Fold(docs, t))
         /\ Folded(Fold(docs, t), t)
         /\ \A x \in ToSet(Parsed.triples) : Folded(docs, x) => Folded(Fold(docs, t), x)
         /\ \A v \in Fold(docs, t) : v.at \in Places(docs) \/ Home(v.at)
<1> DEFINE place == Placement(t.subject)
           seen == StoreVertex(docs, place)
           new == Fold(docs, t)
<1>1. /\ Places(seen) = Places(docs) \cup {place} /\ Distinct(seen) /\ docs \subseteq seen
      /\ \A v \in seen : v \in docs \/ v.at = place
  BY StoredVertex
<1>2. Home(place)
  BY PlacementHome
<1> HIDE DEF seen
<1>3. CASE HasEdge(t)
  <2>1. new = StoreVertex(seen, Placement(t.object))
    BY <1>3 DEF Fold, seen
  <2>2. /\ Places(new) = Places(seen) \cup {Placement(t.object)} /\ Distinct(new) /\ seen \subseteq new
        /\ \A v \in new : v \in seen \/ v.at = Placement(t.object)
    BY <1>1, <2>1, StoredVertex
  <2>3. Home(Placement(t.object))
    BY PlacementHome
  <2> HIDE DEF new
  <2>4. Folded(new, t)
    BY <1>1, <1>3, <2>2 DEF Folded, Says
  <2>5. \A x \in ToSet(Parsed.triples) : Folded(docs, x) => Folded(new, x)
    BY <1>1, <2>2 DEF Folded, Says, Valued
  <2>6. \A v \in new : v.at \in Places(docs) \/ Home(v.at)
    BY <1>1, <1>2, <2>2, <2>3 DEF Places
  <2> QED BY <2>2, <2>4, <2>5, <2>6 DEF new
<1>4. CASE ~HasEdge(t) /\ options.literals = "property"
  <2> DEFINE value == t.object[2]
  <2>1. new = AddProperty(seen, place, t.predicate, value)
    BY <1>4 DEF Fold, seen
  <2>2. /\ Places(new) = Places(seen) /\ Distinct(new)
        /\ \E v \in new : v.at = place /\ <<t.predicate, value>> \in v.properties
        /\ \A v \in seen : \A p \in v.properties :
              v.at # place \/ p[1] # t.predicate => \E w \in new : w.at = v.at /\ p \in w.properties
    <3>1. place \in Places(seen)
      BY <1>1
    <3> QED BY <1>1, <2>1, <3>1, AddedProperty
  <2> HIDE DEF new, value
  <2>3. Valued(new, t)
    BY <2>2 DEF Valued, value
  <2>4. Folded(new, t)
    BY <1>1, <1>4, <2>2, <2>3 DEF Folded, Says
  <2>5. ASSUME NEW x \in ToSet(Parsed.triples), Folded(docs, x) PROVE Folded(new, x)
    <3>1. Says(new, x)
      BY <1>1, <2>2, <2>5 DEF Folded, Says
    <3>2. ASSUME ~HasEdge(x) /\ options.literals = "property" PROVE Valued(new, x)
      <4>1. PICK v \in docs, u \in ToSet(Parsed.triples) :
               /\ v.at = Placement(x.subject)
               /\ u.subject = x.subject /\ u.predicate = x.predicate /\ <<u.predicate, u.object[2]>> \in v.properties
        BY <2>5, <3>2 DEF Folded, Valued
      <4>2. CASE v.at = place /\ u.predicate = t.predicate
        <5>1. t.subject = x.subject
          BY <4>1, <4>2, PlacementInjective
        <5> QED BY <2>3, <4>1, <4>2, <5>1 DEF Valued
      <4>3. CASE v.at # place \/ u.predicate # t.predicate
        <5> DEFINE p == <<u.predicate, u.object[2]>>
        <5>1. p[1] = u.predicate /\ p \in v.properties /\ v \in seen
          BY <1>1, <4>1
        <5> HIDE DEF p
        <5>2. \E w \in new : w.at = v.at /\ p \in w.properties
          BY <2>2, <4>3, <5>1
        <5> QED BY <4>1, <5>2 DEF Valued, p
      <4> QED BY <4>2, <4>3
    <3> QED BY <3>1, <3>2 DEF Folded
  <2>6. \A v \in new : v.at \in Places(docs) \/ Home(v.at)
    <3>1. \A v \in new : v.at \in Places(seen)
      BY <2>2 DEF Places
    <3> QED BY <1>1, <1>2, <3>1 DEF Places
  <2> QED BY <2>2, <2>4, <2>5, <2>6 DEF new
<1>5. CASE ~HasEdge(t) /\ options.literals # "property"
  <2>1. new = seen
    BY <1>5 DEF Fold, seen
  <2>2. Folded(seen, t)
    BY <1>1, <1>5 DEF Folded, Says
  <2>3. \A x \in ToSet(Parsed.triples) : Folded(docs, x) => Folded(seen, x)
    BY <1>1 DEF Folded, Says, Valued
  <2>4. \A v \in seen : v.at \in Places(docs) \/ Home(v.at)
    BY <1>1, <1>2 DEF Places
  <2> QED BY <1>1, <2>1, <2>2, <2>3, <2>4
<1> QED BY <1>3, <1>4, <1>5

-----------------------------------------------------------------------------
(* Where an RDF import is *)

Working == {"parsing", "vertices", "joining", "done"}

\* The import, its loader and the edges between them.
Flow ==
  /\ run \in 0..MaxRuns /\ position \in Nat \ {0}
  /\ pc \in Running \cup {"idle", "done", "failed"}
  /\ loader \in {"none", "running", "ok", "failed"}
  /\ IsFiniteSet(pending) /\ Cardinality(pending) <= Capacity
  /\ loader # "running" => pending = {}
  /\ pc # "idle" => doc \in DOMAIN Documents
  /\ pc = "ensuring" => loader = "none"
  /\ loader = "ok" => SenderDropped
  /\ pc \in Working => (loader = "none" <=> Routed)
  /\ ~Routed => buffered = {}
  /\ pc = "done" => buffered = {} /\ loader \in {"none", "ok"}

LEMMA InitFlow == RdfInit => Flow
<1> SUFFICES ASSUME RdfInit PROVE Flow
  OBVIOUS
<1>1. IsFiniteSet({}) /\ Cardinality({}) = 0 /\ 0 <= Capacity /\ 0 \in 0..MaxRuns
  BY RdfAssumption, FS_EmptySet
<1> QED BY <1>1 DEF RdfInit, Flow, Working, SenderDropped

\* Only a step of the parser adds an edge, and only when there is room.
LEMMA PendingBounded ==
  ASSUME Flow, NEW p, p \subseteq pending \/ (Room /\ \E e : p = pending \cup {e})
  PROVE  IsFiniteSet(p) /\ Cardinality(p) <= Capacity
<1>1. IsFiniteSet(pending) /\ Cardinality(pending) <= Capacity /\ Capacity \in Nat /\ Cardinality(pending) \in Nat
  BY RdfAssumption, FS_CardinalityType DEF Flow
<1>2. CASE p \subseteq pending
  <2>1. IsFiniteSet(p) /\ Cardinality(p) <= Cardinality(pending) /\ Cardinality(p) \in Nat
    BY <1>1, <1>2, FS_Subset, FS_CardinalityType
  <2> QED BY <1>1, <2>1
<1>3. CASE Room /\ \E e : p = pending \cup {e}
  <2>1. PICK e : p = pending \cup {e}
    BY <1>3
  <2>2. Cardinality(pending) < Capacity
    BY <1>3 DEF Room
  <2>3. IsFiniteSet(pending \cup {e}) /\ (Cardinality(pending \cup {e}) = Cardinality(pending) \/ Cardinality(pending \cup {e}) = Cardinality(pending) + 1)
    BY <1>1, FS_AddElement
  <2> QED BY <1>1, <2>1, <2>2, <2>3
<1> QED BY <1>2, <1>3

LEMMA FlowPreserved == Flow /\ [RdfNext]_rdfVars => Flow'
<1> SUFFICES ASSUME Flow, [RdfNext]_rdfVars PROVE Flow'
  OBVIOUS
<1> USE DEF Flow, Working, SenderDropped, Routed, server, tail, Running
<1>1. ASSUME NEW d \in DOMAIN Documents, Begin(d) PROVE Flow'
  <2>1. run' \in 0..MaxRuns
    BY <1>1, RdfAssumption DEF Begin
  <2>2. IsFiniteSet(pending') /\ Cardinality(pending') <= Capacity
    <3>1. pending' = {}
      BY <1>1 DEF Begin
    <3> QED BY <3>1, FS_EmptySet, RdfAssumption
  <2> QED BY <1>1, <2>1, <2>2 DEF Begin
<1>2. CASE Ensure
  BY <1>2 DEF Ensure
<1>3. CASE Parse
  BY <1>3 DEF Parse
<1>4. CASE Consume
  <2>1. IsFiniteSet(pending') /\ Cardinality(pending') <= Capacity
    <3>1. pending' \subseteq pending \/ (Room /\ \E e : pending' = pending \cup {e})
      BY <1>4 DEF Consume
    <3> HIDE DEF Flow
    <3> QED BY <3>1, PendingBounded
  <2>2. pending' # pending => loader = "running"
    BY <1>4 DEF Consume, Room
  <2>3. buffered' # buffered => Routed
    BY <1>4 DEF Consume
  <2> QED BY <1>4, <2>1, <2>2, <2>3 DEF Consume
<1>5. CASE EndInput
  BY <1>5 DEF EndInput
<1>6. CASE Wind
  BY <1>6 DEF Wind
<1>7. CASE SaveVertex
  BY <1>7 DEF SaveVertex
<1>8. CASE VerticesDone
  BY <1>8 DEF VerticesDone
<1>9. CASE VerticesFail
  <2>1. IsFiniteSet(pending') /\ Cardinality(pending') <= Capacity
    <3>1. pending' \subseteq pending
      BY <1>9 DEF VerticesFail
    <3> HIDE DEF Flow
    <3> QED BY <3>1, PendingBounded
  <2> QED BY <1>9, <2>1 DEF VerticesFail
<1>10. ASSUME NEW e \in pending, SaveEdge(e) PROVE Flow'
  <2>1. IsFiniteSet(pending') /\ Cardinality(pending') <= Capacity
    <3>1. pending' \subseteq pending
      BY <1>10 DEF SaveEdge
    <3> HIDE DEF Flow
    <3> QED BY <3>1, PendingBounded
  <2> QED BY <1>10, <2>1 DEF SaveEdge
<1>11. CASE LoaderEnds
  BY <1>11 DEF LoaderEnds
<1>12. CASE LoaderFails
  <2>1. IsFiniteSet(pending') /\ Cardinality(pending') <= Capacity
    <3>1. pending' \subseteq pending
      BY <1>12 DEF LoaderFails
    <3> HIDE DEF Flow
    <3> QED BY <3>1, PendingBounded
  <2> QED BY <1>12, <2>1 DEF LoaderFails
<1>13. CASE Join
  BY <1>13 DEF Join
<1>14. ASSUME NEW e \in buffered, SaveRouted(e) PROVE Flow'
  BY <1>14 DEF SaveRouted
<1>15. CASE RoutedDone
  BY <1>15 DEF RoutedDone
<1>16. CASE Fail
  BY <1>16 DEF Fail
<1>17. CASE Orphan
  BY <1>17 DEF Orphan
<1>18. CASE UNCHANGED rdfVars
  BY <1>18 DEF rdfVars
<1> QED
  BY <1>1, <1>2, <1>3, <1>4, <1>5, <1>6, <1>7, <1>8, <1>9, <1>10, <1>11, <1>12, <1>13, <1>14, <1>15,
     <1>16, <1>17, <1>18 DEF RdfNext

-----------------------------------------------------------------------------
(* The kinds of the collections *)

\* The collections an import ensures: those of the vertices, and the edges'.
LEMMA WantedFacts ==
  /\ Len(Wanted) \in Nat /\ DOMAIN Wanted = 1..Len(Wanted)
  /\ \A k \in DOMAIN Wanted : Wanted[k] = <<Wanted[k][1], Wanted[k][2]>>
  /\ \A k \in DOMAIN VertexCollections : k \in DOMAIN Wanted /\ Wanted[k] = <<VertexCollections[k], "document">>
  /\ \E k \in DOMAIN Wanted : Wanted[k] = <<"links", "edge">>
<1> DEFINE kinds == [k \in DOMAIN VertexCollections |-> <<VertexCollections[k], "document">>]
           last == <<"links", "edge">>
           pairs == {kinds[k] : k \in DOMAIN kinds} \cup {last}
<1>1. PICK n \in Nat : DOMAIN VertexCollections = 1..n
  <2>1. DOMAIN <<"nodes">> = 1..1 /\ DOMAIN <<"BNode", "Literal", "URIRef">> = 1..3
    OBVIOUS
  <2>2. \/ VertexCollections = <<"nodes">>
        \/ VertexCollections = <<"BNode", "Literal", "URIRef">>
    BY DEF VertexCollections
  <2> QED BY <2>1, <2>2
<1>2. /\ DOMAIN kinds = 1..n
      /\ \A k \in DOMAIN VertexCollections : kinds[k] = <<VertexCollections[k], "document">>
      /\ kinds = [k \in 1..n |-> kinds[k]]
  BY <1>1
<1>3. \A k \in DOMAIN kinds : kinds[k] = <<kinds[k][1], kinds[k][2]>>
  BY <1>1, <1>2
<1>4. last = <<last[1], last[2]>> /\ last = <<"links", "edge">>
  OBVIOUS
<1>5. Wanted = Append(kinds, last)
  BY DEF Wanted
<1> HIDE DEF kinds, last
<1>6. kinds \in Seq(pairs) /\ last \in pairs /\ Len(kinds) = n
  <2>1. kinds \in [1..n -> pairs]
    BY <1>2
  <2> QED BY <2>1
<1> HIDE DEF pairs
<1>7. /\ Wanted \in Seq(pairs) /\ Len(Wanted) = n + 1 /\ Wanted[n + 1] = last
      /\ \A k \in 1..n : Wanted[k] = kinds[k]
  BY <1>5, <1>6, AppendProperties
<1>8. DOMAIN Wanted = 1..(n + 1)
  BY <1>7, LenProperties
<1>9. \A k \in DOMAIN Wanted : k = n + 1 \/ (k \in 1..n /\ k \in DOMAIN kinds)
  BY <1>2, <1>8
<1>10. \A k \in DOMAIN Wanted : Wanted[k] = <<Wanted[k][1], Wanted[k][2]>>
  <2> TAKE k \in DOMAIN Wanted
  <2>1. CASE k = n + 1
    BY <2>1, <1>4, <1>7
  <2>2. CASE k \in 1..n /\ k \in DOMAIN kinds
    BY <2>2, <1>3, <1>7
  <2> QED BY <1>9, <2>1, <2>2
<1>11. \A k \in DOMAIN VertexCollections : k \in DOMAIN Wanted /\ Wanted[k] = <<VertexCollections[k], "document">>
  BY <1>1, <1>2, <1>7, <1>8
<1> QED BY <1>4, <1>7, <1>8, <1>10, <1>11

\* The options are those of all the runs, and so are the names they choose.
LEMMA OptionsFixed == [RdfNext]_rdfVars => options' = options
BY DEF RdfNext, rdfVars, Begin, Ensure, Parse, Consume, EndInput, Wind, SaveVertex, VerticesDone, VerticesFail,
       SaveEdge, LoaderEnds, LoaderFails, Join, SaveRouted, RoutedDone, Fail, Orphan

LEMMA NamesFixed ==
  options' = options =>
    /\ VertexCollections' = VertexCollections /\ Wanted' = Wanted
    /\ \A place : Home(place)' <=> Home(place)
BY DEF VertexCollections, Wanted, Home

\* The collections are there, each of its kind, before anything is put in them.
Ensured == \A k \in DOMAIN Wanted : Wanted[k] \in collections

KindsInv ==
  /\ pc = "ensuring" => vertices = {} /\ \A k \in DOMAIN Wanted : k < position => Wanted[k] \in collections
  /\ pc \in (Running \ {"ensuring"}) \cup {"done"} => Ensured
  /\ \A v \in vertices : Home(v.at)
  /\ \A v \in stored : <<v.at[1], "document">> \in collections
  /\ \A e \in edges \cup pending \cup orphans : <<e.in, "edge">> \in collections

LEMMA InitKinds == RdfInit => KindsInv
BY DEF RdfInit, KindsInv, Running

\* What is left alone keeps its kind, however many collections are created.
LEMMA KindsKept ==
  ASSUME KindsInv, options' = options, collections \subseteq collections',
         vertices' \subseteq vertices, stored' \subseteq stored,
         edges' \cup pending' \cup orphans' \subseteq edges \cup pending \cup orphans,
         pc' = "ensuring" => pc = "ensuring" /\ position' = position,
         pc' \in Running \cup {"done"} /\ pc' # "ensuring" => pc \in Running \ {"ensuring"} \/ pc' = pc
  PROVE  KindsInv'
<1>1. Wanted' = Wanted /\ \A place : Home(place)' <=> Home(place)
  BY NamesFixed
<1> QED BY <1>1 DEF KindsInv, Ensured, Running

\* The vertex to store is one that is due.
LEMMA VertexDue ==
  ASSUME Due # {}
  PROVE  NextVertex \in Unsaved /\ Home(NextVertex.at)
<1>1. Due \subseteq DOMAIN VertexCollections /\ DOMAIN VertexCollections \subseteq Nat
  <2>1. DOMAIN VertexCollections \subseteq DOMAIN Wanted
    BY WantedFacts
  <2> QED BY <2>1, WantedFacts DEF Due
<1>2. Turn \in Due
  <2>1. \E k \in Due : \A l \in Due : k <= l
    BY <1>1, LeastNumber
  <2> QED BY <2>1 DEF Turn
<1>3. \E v \in Unsaved : v.at[1] = VertexCollections[Turn]
  BY <1>2 DEF Due
<1>4. NextVertex \in Unsaved /\ NextVertex.at[1] = VertexCollections[Turn]
  BY <1>3 DEF NextVertex
<1> QED BY <1>1, <1>2, <1>4 DEF Home

\* A document's statements are a sequence.
LEMMA StatementsSeq ==
  ASSUME Flow, pc # "idle"
  PROVE  /\ Len(Parsed.triples) \in Nat /\ DOMAIN Parsed.triples = 1..Len(Parsed.triples)
         /\ ToSet(Parsed.triples) = {Parsed.triples[k] : k \in DOMAIN Parsed.triples}
         /\ Next1 => position \in DOMAIN Parsed.triples /\ Current \in ToSet(Parsed.triples)
<1>1. Parsed.triples \in Seq(Triples) /\ position \in Nat \ {0}
  BY RdfAssumption DEF Flow, Parsed
<1>2. Len(Parsed.triples) \in Nat /\ DOMAIN Parsed.triples = 1..Len(Parsed.triples)
  BY <1>1, LenProperties
<1>3. ToSet(Parsed.triples) = {Parsed.triples[k] : k \in DOMAIN Parsed.triples}
  BY DEF ToSet
<1> QED BY <1>1, <1>2, <1>3 DEF Next1, Current

LEMMA KindsPreserved ==
  ASSUME Flow, KindsInv, Distinct(vertices), [RdfNext]_rdfVars
  PROVE  KindsInv'
<1> USE DEF server, tail
<1>0. options' = options /\ Wanted' = Wanted /\ \A place : Home(place)' <=> Home(place)
  BY OptionsFixed, NamesFixed
<1>1. ASSUME NEW d \in DOMAIN Documents, Begin(d) PROVE KindsInv'
  <2>1. \A k \in DOMAIN Wanted : ~(k < 1)
    BY WantedFacts
  <2> QED BY <1>0, <1>1, <2>1 DEF Begin, KindsInv, Running
<1>2. CASE Ensure
  <2>1. CASE EnsureCollection(Wanted[position][1], Wanted[position][2]) /\ position' = position + 1 /\ UNCHANGED pc
    <3>1. position \in DOMAIN Wanted
      BY <1>2, WantedFacts DEF Flow, Ensure
    <3>2. collections' = collections \cup {Wanted[position]}
      BY <2>1, <3>1, WantedFacts DEF EnsureCollection, Create
    <3>3. \A k \in DOMAIN Wanted : k < position + 1 => k < position \/ k = position
      BY <3>1, WantedFacts
    <3> QED BY <1>0, <1>2, <2>1, <3>2, <3>3 DEF Ensure, KindsInv, Running
  <2>2. CASE pc' = "failed" /\ UNCHANGED <<collections, position>>
    BY <1>0, <1>2, <2>2, KindsKept DEF Ensure, Running
  <2> QED BY <1>2, <2>1, <2>2 DEF Ensure
<1>3. CASE Parse
  <2>1. Ensured
    BY <1>3, WantedFacts DEF Flow, KindsInv, Parse, Ensured
  <2> QED BY <1>0, <1>3, <2>1 DEF Parse, KindsInv, Ensured
<1>4. CASE Consume
  <2>1. pc = "parsing" /\ Ensured
    BY <1>4 DEF Consume, KindsInv, Running
  <2>2. \A v \in vertices' : Home(v.at)
    <3>1. vertices' = Fold(vertices, Current) /\ Current \in ToSet(Parsed.triples)
      BY <1>4, <2>1, StatementsSeq DEF Consume
    <3>2. \A v \in vertices' : v.at \in Places(vertices) \/ Home(v.at)
      BY <3>1, FoldedMore
    <3> QED BY <3>2 DEF KindsInv, Places
  <2>3. \A e \in pending' : e \in pending \/ e.in = "links"
    <3>1. ~Routed => EdgeDocument(Current).in = "links"
      BY DEF Routed, EdgeDocument, EdgeCollection
    <3>2. pending' = pending \/ (~Routed /\ pending' = pending \cup {EdgeDocument(Current)})
      BY <1>4 DEF Consume
    <3> QED BY <3>1, <3>2
  <2>4. PICK k \in DOMAIN Wanted : Wanted[k] = <<"links", "edge">>
    BY WantedFacts
  <2>5. <<"links", "edge">> \in collections
    BY <2>1, <2>4 DEF Ensured
  <2> QED BY <1>0, <1>4, <2>1, <2>2, <2>3, <2>5 DEF Consume, KindsInv, Ensured, Running

<1>5. CASE EndInput
  BY <1>5, KindsKept DEF EndInput, Running
<1>6. CASE Wind
  BY <1>0, <1>6, KindsKept DEF Wind, Running
<1>7. CASE SaveVertex
  <2>1. Ensured /\ NextVertex \in vertices /\ Home(NextVertex.at)
    BY <1>7, VertexDue DEF SaveVertex, KindsInv, Running, Unsaved
  <2>2. <<NextVertex.at[1], "document">> \in collections
    BY <2>1, WantedFacts DEF Home, Ensured
  <2>3. \A v \in stored' : v \in stored \/ v.at = NextVertex.at
    BY <1>7 DEF SaveVertex, OnServer
  <2> QED BY <1>0, <1>7, <2>1, <2>2, <2>3 DEF SaveVertex, KindsInv, Ensured, Running
<1>8. CASE VerticesDone
  BY <1>0, <1>8, KindsKept DEF VerticesDone, Running
<1>9. CASE VerticesFail
  BY <1>0, <1>9, KindsKept DEF VerticesFail, Running
<1>10. ASSUME NEW e \in pending, SaveEdge(e) PROVE KindsInv'
  BY <1>0, <1>10, KindsKept DEF SaveEdge, Running
<1>11. CASE LoaderEnds
  BY <1>0, <1>11, KindsKept DEF LoaderEnds, Running
<1>12. CASE LoaderFails
  BY <1>0, <1>12, KindsKept DEF LoaderFails, Running
<1>13. CASE Join
  BY <1>0, <1>13, KindsKept DEF Join, Running
<1>14. ASSUME NEW e \in buffered, SaveRouted(e) PROVE KindsInv'
  <2>1. collections' = collections \cup {<<e.in, "edge">>} /\ edges' \subseteq edges \cup {e} /\ pc = "joining"
    BY <1>14 DEF SaveRouted, EnsureCollection, Create
  <2> QED BY <1>0, <1>14, <2>1 DEF SaveRouted, KindsInv, Ensured, Running
<1>15. CASE RoutedDone
  BY <1>0, <1>15, KindsKept DEF RoutedDone, Running
<1>16. CASE Fail
  BY <1>0, <1>16, KindsKept DEF Fail, Running
<1>17. CASE Orphan
  BY <1>0, <1>17, KindsKept DEF Orphan, Running
<1>18. CASE UNCHANGED rdfVars
  BY <1>0, <1>18, KindsKept DEF rdfVars, Running
<1> QED
  BY <1>1, <1>2, <1>3, <1>4, <1>5, <1>6, <1>7, <1>8, <1>9, <1>10, <1>11, <1>12, <1>13, <1>14, <1>15,
     <1>16, <1>17, <1>18 DEF RdfNext

-----------------------------------------------------------------------------
(* What an RDF import has done of its document *)

\* A vertex is stored or was refused; an edge also may be on its way.
Settled(place) == place \in Places(stored) \/ <<"vertex", place>> \in refused
Accounted(e) == e \in edges \cup pending \cup buffered \/ <<"edge", e>> \in refused
Recorded(t) == HasEdge(t) => Accounted(EdgeDocument(t))

\* Where an import of the document d places a term.
PlacementIn(d, term) ==
  <<VertexCollection(term), <<IF term[1] = "blank" /\ options.scoped THEN d ELSE "", term>> >>

\* A vertex on the server has a value of every predicate under which its document
\* keeps a literal on it.
Complete(v) ==
  options.literals = "property" =>
    \A t \in ToSet(Statements[v.by].triples) :
      ~HasEdge(t) /\ v.at = PlacementIn(v.by, t.subject) =>
        \E u \in ToSet(Statements[v.by].triples) :
          u.subject = t.subject /\ u.predicate = t.predicate /\ <<u.predicate, u.object[2]>> \in v.properties

\* What the import read so far is in hand, but for the edges a failed loader
\* dropped; all its vertices are stored or refused once they are done; and
\* whatever import stored a vertex, it was complete if its document was.
WorkInv ==
  /\ Distinct(vertices) /\ Distinct(stored)
  /\ \A v \in stored : v.whole => Complete(v)
  /\ pc \in {"joining", "done"} => \A place \in Places(vertices) : Settled(place)
  /\ pc \in Working => \A k \in DOMAIN Parsed.triples :
       k < position => Folded(vertices, Parsed.triples[k]) /\ (loader # "failed" => Recorded(Parsed.triples[k]))
  /\ pc \in {"vertices", "joining", "done"} /\ loader # "failed" => position > Len(Parsed.triples) /\ Parsed.ok

LEMMA InitWork == RdfInit => WorkInv
BY DEF RdfInit, WorkInv, Distinct, Working

\* Within a run, a statement stands for the same documents throughout.
LEMMA MeaningFixed ==
  options' = options /\ doc' = doc =>
    /\ Parsed' = Parsed
    /\ \A t : HasEdge(t)' <=> HasEdge(t)
    /\ \A t : EdgeDocument(t)' = EdgeDocument(t)
    /\ \A t : Folded(vertices, t)' <=> Folded(vertices', t)
BY DEF Parsed, HasEdge, Materialized, EdgeDocument, EdgeCollection, EdgeGraph, Placement, VertexCollection, TermKey,
       Folded, Says, Valued, Places

LEMMA CompleteFixed ==
  ASSUME options' = options
  PROVE  \A v : Complete(v)' <=> Complete(v)
BY DEF Complete, PlacementIn, VertexCollection, HasEdge, Materialized

\* A vertex of a document read to its end is stored complete.
LEMMA StoredWhole ==
  ASSUME Flow, WorkInv, pc = "vertices", NEW v \in vertices, OnServer(v).whole
  PROVE  Complete(OnServer(v))
<1>1. OnServer(v).by = doc /\ OnServer(v).at = v.at /\ OnServer(v).properties = v.properties /\ ~Next1
  BY DEF OnServer
<1> DEFINE w == OnServer(v)
<1> HIDE DEF w
<1>2. \A term : PlacementIn(doc, term) = Placement(term)
  BY DEF PlacementIn, Placement, TermKey
<1>3. ASSUME options.literals = "property", NEW t \in ToSet(Parsed.triples), ~HasEdge(t), v.at = Placement(t.subject)
      PROVE  \E u \in ToSet(Parsed.triples) :
               u.subject = t.subject /\ u.predicate = t.predicate /\ <<u.predicate, u.object[2]>> \in v.properties
  <2>1. PICK k \in DOMAIN Parsed.triples : t = Parsed.triples[k]
    BY StatementsSeq
  <2>2. k < position
    BY <1>1, <2>1, StatementsSeq DEF Next1, Flow
  <2>3. Valued(vertices, t)
    BY <1>3, <2>1, <2>2 DEF WorkInv, Working, Folded
  <2>4. PICK x \in vertices, u \in ToSet(Parsed.triples) :
          /\ x.at = Placement(t.subject)
          /\ u.subject = t.subject /\ u.predicate = t.predicate /\ <<u.predicate, u.object[2]>> \in x.properties
    BY <2>3 DEF Valued
  <2>5. x = v
    BY <1>3, <2>4 DEF WorkInv, Distinct
  <2> QED BY <2>4, <2>5
<1>4. w.by = doc /\ w.at = v.at /\ w.properties = v.properties
  BY <1>1 DEF w
<1>5. Complete(w)
  BY <1>2, <1>3, <1>4 DEF Complete, Parsed
<1> QED BY <1>5 DEF w

\* A step that leaves the vertices alone, or ends the run in failure.
LEMMA WorkKept ==
  ASSUME WorkInv, options' = options, doc' = doc, UNCHANGED <<vertices, stored>>,
         refused \subseteq refused',
         \/ pc' = "failed"
         \/ /\ pc' = pc \/ (pc = "joining" /\ pc' = "done")
            /\ position' = position
            /\ loader' # "failed" => loader # "failed" /\ \A e : Accounted(e) => Accounted(e)'
  PROVE  WorkInv'
<1>1. \A v \in stored' : v.whole => Complete(v)'
  BY CompleteFixed DEF WorkInv
<1>2. \A place : Settled(place) => Settled(place)'
  BY DEF Settled, Places
<1> QED BY <1>1, <1>2, MeaningFixed DEF WorkInv, Recorded, Distinct, Places, Working

LEMMA WorkPreserved ==
  ASSUME Flow, KindsInv, WorkInv, [RdfNext]_rdfVars
  PROVE  WorkInv'
<1> USE DEF server, tail
<1>0. options' = options
  BY OptionsFixed
<1>20. \A v : Complete(v)' <=> Complete(v)
  BY <1>0, CompleteFixed
<1>1. ASSUME NEW d \in DOMAIN Documents, Begin(d) PROVE WorkInv'
  BY <1>1, <1>20 DEF Begin, WorkInv, Distinct, Places, Working
<1>2. CASE Ensure
  BY <1>0, <1>2, <1>20 DEF Ensure, WorkInv, Distinct, Working
<1>3. CASE Parse
  <2>1. \A k \in DOMAIN Parsed.triples : ~(k < 1)
    BY <1>3, StatementsSeq DEF Parse
  <2> QED BY <1>0, <1>3, <1>20, <2>1, MeaningFixed DEF Parse, WorkInv, Distinct, Working
<1>4. CASE Consume
  <2>1. pc = "parsing" /\ position \in DOMAIN Parsed.triples /\ Current \in ToSet(Parsed.triples) /\ vertices' = Fold(vertices, Current)
    BY <1>4, StatementsSeq DEF Consume
  <2>2. /\ Distinct(vertices') /\ Folded(vertices', Current)
        /\ \A x \in ToSet(Parsed.triples) : Folded(vertices, x) => Folded(vertices', x)
    BY <2>1, FoldedMore DEF WorkInv
  <2>3. \A k \in DOMAIN Parsed.triples : k < position' => k < position \/ (k = position /\ Parsed.triples[k] = Current)
    BY <1>4, <2>1, StatementsSeq DEF Consume, Current
  <2>4. \A k \in DOMAIN Parsed.triples : k < position' => Folded(vertices', Parsed.triples[k])
    BY <2>1, <2>2, <2>3, StatementsSeq DEF WorkInv, Working
  <2>5. loader' = loader /\ edges' = edges /\ refused' = refused /\ pending \subseteq pending' /\ buffered \subseteq buffered'
    BY <1>4 DEF Consume, Buffer
  <2>6. loader # "failed" /\ HasEdge(Current) => EdgeDocument(Current) \in pending' \cup buffered'
    BY <1>4 DEF Consume, Buffer
  <2>7. \A k \in DOMAIN Parsed.triples : k < position' /\ loader # "failed" /\ HasEdge(Parsed.triples[k]) =>
          \/ EdgeDocument(Parsed.triples[k]) \in edges' \cup pending' \cup buffered'
          \/ <<"edge", EdgeDocument(Parsed.triples[k])>> \in refused'
    BY <2>1, <2>3, <2>5, <2>6 DEF WorkInv, Working, Recorded, Accounted
  <2>8. pc' = "parsing" \/ (pc' = "vertices" /\ loader' = "failed")
    BY <1>4, <2>5 DEF Consume
  <2>9. doc' = doc /\ stored' = stored
    BY <1>4 DEF Consume
  <2>10. /\ Parsed' = Parsed /\ Distinct(vertices)' /\ Distinct(stored)'
         /\ \A v \in stored' : v.whole => Complete(v)'
    BY <1>0, <1>20, <2>1, <2>2, <2>9, MeaningFixed DEF WorkInv, Distinct
  <2>11. (\A k \in DOMAIN Parsed.triples :
            k < position => Folded(vertices, Parsed.triples[k]) /\ (loader # "failed" => Recorded(Parsed.triples[k])))'
    BY <1>0, <2>4, <2>5, <2>7, <2>9, MeaningFixed DEF Recorded, Accounted
  <2> QED BY <2>8, <2>10, <2>11 DEF WorkInv, Working
<1>5. CASE EndInput
  <2>1. position > Len(Parsed.triples)
    BY <1>5, StatementsSeq DEF EndInput, Next1, Flow
  <2> QED BY <1>0, <1>5, <1>20, <2>1, MeaningFixed DEF EndInput, WorkInv, Recorded, Accounted, Distinct, Working
<1>6. CASE Wind
  BY <1>0, <1>6, WorkKept DEF Wind, Accounted
<1>7. CASE SaveVertex
  <2>1. pc = "vertices" /\ pc' = pc /\ NextVertex \in vertices /\ NextVertex.at \notin Places(stored)
    BY <1>7, VertexDue DEF SaveVertex, Unsaved
  <2>2. CASE stored' = stored \cup {OnServer(NextVertex)} /\ UNCHANGED refused
    <3> DEFINE new == OnServer(NextVertex)
    <3>1. new.at = NextVertex.at /\ (new.whole => Complete(new))
      BY <2>1, StoredWhole DEF OnServer
    <3> HIDE DEF new
    <3>2. stored' = stored \cup {new}
      BY <2>2 DEF new
    <3>3. Distinct(stored')
      BY <2>1, <3>1, <3>2 DEF Distinct, WorkInv, Places
    <3>4. \A v \in stored' : v.whole => Complete(v)'
      BY <1>20, <3>1, <3>2 DEF WorkInv
    <3> QED BY <1>0, <1>7, <2>1, <2>2, <3>3, <3>4, MeaningFixed
            DEF SaveVertex, WorkInv, Recorded, Accounted, Distinct, Working
  <2>3. CASE Refuse("vertex", NextVertex.at) /\ UNCHANGED stored
    BY <1>0, <1>7, <2>3, WorkKept DEF SaveVertex, Refuse, Accounted
  <2> QED BY <1>7, <2>2, <2>3 DEF SaveVertex
<1>8. CASE VerticesDone
  <2>1. \A v \in Unsaved : FALSE
    BY <1>8 DEF VerticesDone, KindsInv, Home, Due, Unsaved
  <2>2. \A place \in Places(vertices) : Settled(place)
    BY <2>1 DEF Unsaved, Places, Settled
  <2> QED BY <1>0, <1>8, <1>20, <2>2, MeaningFixed
          DEF VerticesDone, WorkInv, Recorded, Accounted, Settled, Distinct, Places, Working
<1>9. CASE VerticesFail
  BY <1>0, <1>9, WorkKept DEF VerticesFail, Accounted
<1>10. ASSUME NEW e \in pending, SaveEdge(e) PROVE WorkInv'
  BY <1>0, <1>10, WorkKept DEF SaveEdge, Refuse, Accounted
<1>11. CASE LoaderEnds
  BY <1>0, <1>11, WorkKept DEF LoaderEnds, Accounted
<1>12. CASE LoaderFails
  BY <1>0, <1>12, WorkKept DEF LoaderFails, Accounted
<1>13. CASE Join
  BY <1>0, <1>13, WorkKept DEF Join, Accounted
<1>14. ASSUME NEW e \in buffered, SaveRouted(e) PROVE WorkInv'
  BY <1>0, <1>14, WorkKept DEF SaveRouted, Refuse, Accounted
<1>15. CASE RoutedDone
  BY <1>0, <1>15, WorkKept DEF RoutedDone, Accounted
<1>16. CASE Fail
  BY <1>0, <1>16, WorkKept DEF Fail, Accounted
<1>17. CASE Orphan
  BY <1>0, <1>17, WorkKept DEF Orphan, Accounted
<1>18. CASE UNCHANGED rdfVars
  BY <1>0, <1>18, WorkKept DEF rdfVars, Accounted
<1> QED
  BY <1>1, <1>2, <1>3, <1>4, <1>5, <1>6, <1>7, <1>8, <1>9, <1>10, <1>11, <1>12, <1>13, <1>14, <1>15,
     <1>16, <1>17, <1>18 DEF RdfNext

RdfInv == Flow /\ KindsInv /\ WorkInv

LEMMA RdfInvHolds == RdfSpec => []RdfInv
<1>1. RdfInit => RdfInv
  BY InitFlow, InitKinds, InitWork DEF RdfInv
<1>2. RdfInv /\ [RdfNext]_rdfVars => RdfInv'
  <2> SUFFICES ASSUME RdfInv, [RdfNext]_rdfVars PROVE RdfInv'
    OBVIOUS
  <2>1. Flow'
    BY FlowPreserved DEF RdfInv
  <2>2. KindsInv'
    BY KindsPreserved DEF RdfInv, WorkInv
  <2>3. WorkInv'
    BY WorkPreserved DEF RdfInv
  <2> QED BY <2>1, <2>2, <2>3 DEF RdfInv
<1> QED BY <1>1, <1>2, PTL DEF RdfSpec

\* Whatever the documents, the options and the failures, no more than the
\* channel holds waits between the parser and the edge loader, a place on the
\* server holds one vertex, and every document is in a collection of its kind
\* (EDGE_CHANNEL_CAP and ensure_collection, arangodb-rdf/src/lib.rs).
THEOREM RdfTypeCorrect == RdfSpec => []TypeOK
<1>1. RdfInv => TypeOK
  BY DEF RdfInv, Flow, KindsInv, WorkInv, Distinct, TypeOK
<1> QED BY <1>1, RdfInvHolds, PTL

\* What a finished import read is on the server, or was refused.
LEMMA AllKept ==
  ASSUME RdfInv, pc = "done"
  PROVE  Parsed.ok /\ \A t \in ToSet(Parsed.triples) : Kept(t, ToSet(Parsed.triples))
<1>1. loader # "failed" /\ pending = {} /\ buffered = {}
  BY DEF RdfInv, Flow
<1>2. position > Len(Parsed.triples) /\ Parsed.ok
  BY <1>1 DEF RdfInv, WorkInv
<1>3. \A term : PlacementIn(doc, term) = Placement(term)
  BY DEF PlacementIn, Placement, TermKey
<1> DEFINE places == {p[2] : p \in {q \in refused : q[1] = "vertex"}}
<1>4. \A place : Settled(place) => place \in Places(stored) \cup places
  <2>1. \A place : <<"vertex", place>>[1] = "vertex" /\ <<"vertex", place>>[2] = place
    OBVIOUS
  <2> QED BY <2>1 DEF Settled
<1>5. ASSUME NEW t \in ToSet(Parsed.triples) PROVE Kept(t, ToSet(Parsed.triples))
  <2>1. PICK k \in DOMAIN Parsed.triples : t = Parsed.triples[k]
    BY StatementsSeq DEF RdfInv
  <2>2. k < position
    BY <1>2, StatementsSeq DEF RdfInv, Flow
  <2>3. Folded(vertices, t) /\ Recorded(t) /\ \A place \in Places(vertices) : Settled(place)
    BY <1>1, <2>1, <2>2 DEF RdfInv, WorkInv, Working
  <2>4. HasEdge(t) => EdgeDocument(t) \in edges \/ <<"edge", EdgeDocument(t)>> \in refused
    BY <1>1, <2>3 DEF Recorded, Accounted
  <2>5. ASSUME ~HasEdge(t), options.literals = "property", NEW v \in stored,
               v.at = Placement(t.subject), v.by = doc, v.whole
        PROVE  \E u \in ToSet(Parsed.triples) :
                 u.subject = t.subject /\ u.predicate = t.predicate /\ <<u.predicate, u.object[2]>> \in v.properties
    <3>1. Complete(v)
      BY <2>5 DEF RdfInv, WorkInv
    <3> QED BY <1>3, <2>5, <3>1 DEF Complete, Parsed
  <2>6. /\ Placement(t.subject) \in Places(stored) \cup places
        /\ HasEdge(t) => Placement(t.object) \in Places(stored) \cup places
    BY <1>4, <2>3 DEF Folded, Says
  <2> QED BY <2>4, <2>5, <2>6 DEF Kept
<1> QED BY <1>2, <1>5

\* If the parser takes the documents for what they are, an import that reports
\* success leaves on the server all that its document says, but for what the
\* server refused in its answers, and for the literals of a vertex that another
\* document, or a part of this one, had left there; whatever failed before and
\* whatever the options are (import_rdf, fold_triple and the edge task,
\* arangodb-rdf/src/lib.rs).
THEOREM RdfCompleteCorrect ==
  ASSUME \A d \in DOMAIN Documents : ReadAsMeant(Documents[d], Statements[d])
  PROVE  RdfSpec => []RdfComplete
<1>1. ASSUME RdfInv PROVE RdfComplete
  <2> SUFFICES ASSUME pc = "done" PROVE RdfComplete
    BY DEF RdfComplete
  <2> DEFINE says == Documents[doc].meaning
             read == ToSet(Parsed.triples)
  <2>1. Parsed.ok /\ \A t \in read : Kept(t, read)
    BY <1>1, AllKept
  <2>2. ReadAsMeant(Documents[doc], Parsed)
    BY <1>1 DEF RdfInv, Flow, Parsed
  <2>3. /\ Documents[doc].wellformed \/ Documents[doc].trailing
        /\ \E name \in [Labels(says) -> Labels(read)] :
             IsInjective(name) /\ {Renamed(t, name) : t \in says} = read
    BY <2>1, <2>2 DEF ReadAsMeant
  <2> QED BY <2>1, <2>3 DEF RdfComplete
<1> QED BY <1>1, RdfInvHolds, PTL

=============================================================================
