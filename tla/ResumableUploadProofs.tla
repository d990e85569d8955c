----------------------- MODULE ResumableUploadProofs -----------------------
(***************************************************************************)
(* Proofs about resumable uploads, for a source of any length, any part    *)
(* size and any number of calls, on local directories and object stores    *)
(* with any key prefix and base name.                                      *)
(***************************************************************************)
EXTENDS ResumableUpload, Induction

\* All calls ask for parts of one length, the hypothesis of what follows:
\* upload_resumable trusts a part by its length alone.
OnePartSize == \A a, b \in PartSizes : Larger(a, 1) = Larger(b, 1)

-----------------------------------------------------------------------------
(* Arithmetic of parts *)

LEMMA DivisionBounds ==
  ASSUME NEW a \in Nat, NEW b \in Nat \ {0}
  PROVE  a \div b \in Nat /\ b * (a \div b) <= a /\ a < b * (a \div b) + b
OBVIOUS

LEMMA TimesMonotonic ==
  ASSUME NEW n \in Nat, NEW m \in Nat, NEW p \in Nat, n <= m
  PROVE  n * p <= m * p
OBVIOUS

LEMMA NextMultiple ==
  ASSUME NEW n \in Nat, NEW p \in Nat
  PROVE  (n + 1) * p = n * p + p /\ n * p \in Nat
OBVIOUS

LEMMA CeilingBounds ==
  ASSUME NEW t \in Nat, NEW p \in Nat \ {0}
  PROVE  Ceiling(t, p) \in Nat /\ t <= Ceiling(t, p) * p /\ Ceiling(t, p) * p < t + p
<1> DEFINE q == (t + p - 1) \div p
<1>1. t + p - 1 \in Nat
  OBVIOUS
<1>2. q \in Nat /\ p * q <= t + p - 1 /\ t + p - 1 < p * q + p
  BY <1>1, DivisionBounds
<1>3. p * q = q * p
  BY <1>2
<1> HIDE DEF q
<1>4. q * p \in Int
  BY <1>2
<1>5. q \in Nat /\ t <= q * p /\ q * p < t + p
  BY <1>2, <1>3, <1>4
<1> QED BY <1>5 DEF Ceiling, q

\* The parts are those that begin inside the source.
LEMMA PartBegins ==
  ASSUME NEW t \in Nat, NEW p \in Nat \ {0}, NEW n \in Nat
  PROVE  n < Ceiling(t, p) <=> n * p < t
<1> DEFINE c == Ceiling(t, p)
<1>1. c \in Nat /\ t <= c * p /\ c * p < t + p
  BY CeilingBounds
<1> HIDE DEF c
<1>2. n * p \in Nat /\ c * p \in Nat /\ (n + 1) * p = n * p + p
  BY <1>1, NextMultiple
<1>3. CASE n < c
  <2>1. (n + 1) * p <= c * p
    BY <1>1, <1>3, TimesMonotonic
  <2>2. n * p < t
    BY <1>1, <1>2, <2>1
  <2> QED BY <1>3, <2>2 DEF c
<1>4. CASE ~ (n < c)
  <2>1. c * p <= n * p
    BY <1>1, <1>4, TimesMonotonic
  <2>2. ~ (n * p < t)
    BY <1>1, <1>2, <2>1
  <2> QED BY <1>4, <2>2 DEF c
<1> QED BY <1>3, <1>4

LEMMA CeilingSmall ==
  ASSUME NEW t \in Nat, NEW p \in Nat \ {0}
  PROVE  Ceiling(t, p) <= t
<1>1. t * 1 <= t * p
  OBVIOUS
<1>2. ~ (t * p < t) /\ t * p \in Nat
  BY <1>1
<1> QED BY <1>2, PartBegins, CeilingBounds

-----------------------------------------------------------------------------
(* Keys *)

Segments == {Raw(text) : text \in Roots \cup Names}

\* The key of an object of the upload, and the directory of them all.
Key(name) == Located(<<Upload, name>>)
Home == Directory(Upload)

\* Concatenation is undone by cutting.
LEMMA CutConcat ==
  ASSUME NEW S, NEW s \in Seq(S), NEW t \in Seq(S)
  PROVE  /\ SubSeq(s \o t, 1, Len(s)) = s
         /\ SubSeq(s \o t, Len(s) + 1, Len(s \o t)) = t
<1>1. s \o t \in Seq(S) /\ Len(s \o t) = Len(s) + Len(t)
  OBVIOUS
<1>2. /\ SubSeq(s \o t, Len(s) + 1, Len(s \o t)) \in Seq(S)
      /\ Len(SubSeq(s \o t, Len(s) + 1, Len(s \o t))) = Len(t)
      /\ \A i \in 1..Len(t) : SubSeq(s \o t, Len(s) + 1, Len(s \o t))[i] = t[i]
  BY <1>1
<1>3. SubSeq(s \o t, Len(s) + 1, Len(s \o t)) = t
  BY <1>2, SeqEqual
<1> QED BY <1>1, <1>3

\* The name of an object is the last part of its key: one key per object.
LEMMA KeyName ==
  ASSUME NEW n
  PROVE  Key(n) = <<Home, n>> /\ Last(Key(n)) = n
  BY DEF Key, Located, Home, Last

LEMMA KeysDiffer ==
  ASSUME NEW n \in Nat, NEW m \in Nat, Key(n) = Key(m)
  PROVE  n = m
  BY KeyName

\* A sequence is its own prefix.
LEMMA PrefixOfItself ==
  ASSUME NEW S, NEW s \in Seq(S)
  PROVE  IsPrefix(s, s)
  BY LenProperties DEF IsPrefix

\* A listing of the upload finds the object and, where keys spell the prefix and
\* the base name as they are given, gives its backend-relative path.
LEMMA KeyListed ==
  ASSUME prefix \in Seq(Segments), base \in Segments, Legible, NEW n
  PROVE  IsPrefix(Home, Key(n)[1]) /\ <<Stripped(Key(n)[1]), Key(n)[2]>> = <<Upload, n>>
<1>1. Upload \in Seq(Segments) /\ Home = prefix \o Upload
  BY DEF Upload, Legible, Home
<1>2. Key(n)[1] = Home /\ Key(n)[2] = n
  BY KeyName
<1> DEFINE u == Upload
<1> HIDE DEF u
<1>3. u \in Seq(Segments) /\ Home = prefix \o u
  BY <1>1 DEF u
<1>4. /\ SubSeq(prefix \o u, 1, Len(prefix)) = prefix
      /\ SubSeq(prefix \o u, Len(prefix) + 1, Len(prefix \o u)) = u
  BY <1>3, CutConcat
<1>5. /\ prefix \o u \in Seq(Segments) /\ Len(prefix) <= Len(prefix \o u)
      /\ SubSeq(prefix, 1, Len(prefix)) = prefix
  BY <1>3
<1>6. IsPrefix(Home, Home)
  BY <1>3, <1>5, PrefixOfItself
<1>7. IsPrefix(prefix, Home)
  BY <1>3, <1>4, <1>5 DEF IsPrefix
<1>8. Stripped(Home) = u
  BY <1>3, <1>4, <1>7 DEF Stripped
<1> QED BY <1>2, <1>6, <1>8 DEF u

-----------------------------------------------------------------------------
(* Sorted listings *)

\* The names in a set of paths are natural numbers below m, one path each.
Named(paths, m) ==
  /\ \A p \in paths : Last(p) \in Nat /\ Last(p) < m
  /\ \A p, q \in paths : Last(p) = Last(q) => p = q

InOrder(s, paths) ==
  /\ s \in [1..Cardinality(paths) -> paths]
  /\ \A i, j \in 1..Cardinality(paths) : i < j => Last(s[i]) < Last(s[j])

\* One more path, whose name comes after the others, ends the listing.
LEMMA OrderedNext ==
  ASSUME NEW paths, IsFiniteSet(paths), NEW m \in Nat, Named(paths, m), NEW s, InOrder(s, paths),
         NEW p, Last(p) = m
  PROVE  /\ IsFiniteSet(paths \cup {p})
         /\ \E t : InOrder(t, paths \cup {p})
<1> DEFINE c == Cardinality(paths)
           all == paths \cup {p}
           t == [i \in 1..(c + 1) |-> IF i = c + 1 THEN p ELSE s[i]]
<1>1. c \in Nat
  BY FS_CardinalityType
<1>2. p \notin paths
  BY DEF Named
<1>3. IsFiniteSet(all) /\ Cardinality(all) = c + 1
  BY <1>2, FS_AddElement
<1> HIDE DEF c
<1>4. s \in [1..c -> paths] /\ \A i, j \in 1..c : i < j => Last(s[i]) < Last(s[j])
  BY DEF InOrder, c
<1>5. t \in [1..(c + 1) -> all]
  BY <1>1, <1>4
<1>6. ASSUME NEW i \in 1..(c + 1), NEW j \in 1..(c + 1), i < j
      PROVE  Last(t[i]) < Last(t[j])
  <2>1. i \in 1..c /\ t[i] = s[i] /\ s[i] \in paths
    BY <1>1, <1>4, <1>6
  <2>2. CASE j = c + 1
    BY <1>1, <2>1, <2>2 DEF Named
  <2>3. CASE j # c + 1
    BY <1>1, <1>4, <1>6, <2>1, <2>3
  <2> QED BY <2>2, <2>3
<1> HIDE DEF t
<1>7. InOrder(t, all)
  BY <1>3, <1>5, <1>6 DEF InOrder
<1> QED BY <1>3, <1>7

\* Paths with different names have a sorted listing.
LEMMA OrderedExists ==
  ASSUME NEW n \in Nat, NEW paths, Named(paths, n)
  PROVE  IsFiniteSet(paths) /\ \E s : InOrder(s, paths)
<1> DEFINE L == {m \in Nat : \A P : Named(P, m) => IsFiniteSet(P) /\ \E s : InOrder(s, P)}
<1>1. 0 \in L
  <2>1. SUFFICES ASSUME NEW P, Named(P, 0) PROVE IsFiniteSet(P) /\ \E s : InOrder(s, P)
    OBVIOUS
  <2>2. P = {}
    BY <2>1 DEF Named
  <2>3. IsFiniteSet(P) /\ Cardinality(P) = 0
    BY <2>2, FS_EmptySet
  <2>4. InOrder([i \in 1..0 |-> i], P)
    BY <2>3 DEF InOrder
  <2> QED BY <2>3, <2>4
<1>2. ASSUME NEW m \in Nat, m \in L PROVE m + 1 \in L
  <2>1. SUFFICES ASSUME NEW P, Named(P, m + 1) PROVE IsFiniteSet(P) /\ \E s : InOrder(s, P)
    OBVIOUS
  <2>2. CASE \A p \in P : Last(p) # m
    <3>1. Named(P, m)
      BY <2>1, <2>2 DEF Named
    <3> QED BY <1>2, <3>1
  <2>3. CASE \E p \in P : Last(p) = m
    <3>1. PICK p \in P : Last(p) = m
      BY <2>3
    <3>2. Named(P \ {p}, m)
      BY <2>1, <3>1 DEF Named
    <3>3. IsFiniteSet(P \ {p}) /\ \E s : InOrder(s, P \ {p})
      BY <1>2, <3>2
    <3>4. IsFiniteSet((P \ {p}) \cup {p}) /\ \E t : InOrder(t, (P \ {p}) \cup {p})
      BY <3>1, <3>2, <3>3, OrderedNext
    <3>5. (P \ {p}) \cup {p} = P
      BY <3>1
    <3> QED BY <3>4, <3>5
  <2> QED BY <2>2, <2>3
<1> HIDE DEF L
<1>3. Nat \subseteq L
  BY <1>1, <1>2, NatSetInduction
<1> QED BY <1>3 DEF L

\* The sorted listing of such paths has every one of them.
LEMMA SortedComplete ==
  ASSUME NEW n \in Nat, NEW paths, Named(paths, n)
  PROVE  /\ Sorted(paths) \in Seq(paths)
         /\ \A p \in paths : \E i \in 1..Len(Sorted(paths)) : Sorted(paths)[i] = p
<1> DEFINE c == Cardinality(paths)
           list == Sorted(paths)
<1>1. IsFiniteSet(paths) /\ c \in Nat
  BY OrderedExists, FS_CardinalityType
<1>2. PICK s : InOrder(s, paths)
  BY OrderedExists
<1>3. /\ list \in [1..c -> paths]
      /\ \A i, j \in DOMAIN list : i < j => Last(list[i]) < Last(list[j])
  <2>1. /\ s \in [1..c -> paths]
        /\ \A i, j \in DOMAIN s : i < j => Last(s[i]) < Last(s[j])
    BY <1>2 DEF InOrder
  <2> QED BY <2>1 DEF Sorted
<1> HIDE DEF list, c
<1>4. \A i \in 1..c : list[i] \in paths /\ Last(list[i]) \in Nat
  BY <1>3 DEF Named
<1>5. \A i, j \in 1..c : list[i] = list[j] => i = j
  <2>1. SUFFICES ASSUME NEW i \in 1..c, NEW j \in 1..c, list[i] = list[j], i # j PROVE FALSE
    OBVIOUS
  <2>2. CASE i < j
    BY <1>3, <1>4, <2>1, <2>2
  <2>3. CASE j < i
    BY <1>3, <1>4, <2>1, <2>3
  <2> QED BY <1>1, <2>1, <2>2, <2>3
<1>6. list \in Injection(1..c, paths)
  BY <1>3, <1>5 DEF Injection, IsInjective
<1>7. Cardinality(1..c) = c
  BY <1>1, FS_Interval
<1>8. list \in Surjection(1..c, paths)
  BY <1>1, <1>6, <1>7, FS_Injection DEF c
<1>9. list \in Seq(paths) /\ Len(list) = c
  BY <1>1, <1>3
<1> QED BY <1>8, <1>9 DEF Surjection, list

-----------------------------------------------------------------------------
(* The inductive invariants *)

Keys == {Key(n) : n \in 0..MarkerName}
MarkerKey == Key(MarkerName)
PartNumbers == 0..(Parts - 1)

\* Where the calls are, and the objects they can have written.
CallType ==
  /\ prefix \in Seq(Segments) /\ base \in Segments /\ atomic \in BOOLEAN /\ deleted \in BOOLEAN
  /\ pc \in {"idle", "checking", "writing part", "writing marker", "deleting",
             "uploaded", "removed", "failed"}
  /\ calls \in 0..MaxCalls /\ size \in Nat /\ index \in 0..Parts
  /\ pc = "writing part" => index < Parts
  /\ DOMAIN objects \subseteq Keys

\* The upload's backend-relative paths.
Paths == {<<Upload, n>> : n \in 0..MarkerName}

\* A delete still has every object of the upload before it, and none when done.
DeleteShape ==
  Legible =>
    /\ pc = "deleting" =>
         /\ queue \in Seq(Paths)
         /\ \A key \in DOMAIN objects : \E i \in 1..Len(queue) : key = Located(queue[i])
    /\ pc = "removed" => DOMAIN objects = {}

DeleteInv == CallType /\ DeleteShape

\* The content of an object that stands for whole: a local file may be cut short.
Holds(content, whole) ==
  \E k \in 0..Len(whole) : content = SubSeq(whole, 1, k) /\ (atomic => k = Len(whole))

Whole(n) == Key(n) \in DOMAIN objects /\ objects[Key(n)] = Window(n)
AllWhole == \A n \in PartNumbers : Whole(n)

StoreShape ==
  /\ DOMAIN objects \subseteq {Key(n) : n \in PartNumbers} \cup {MarkerKey}
  /\ \A n \in PartNumbers : Key(n) \in DOMAIN objects => Holds(objects[Key(n)], Window(n))
  /\ MarkerKey \in DOMAIN objects => Holds(objects[MarkerKey], Marker)
  /\ size \in PartSizes \/ DOMAIN objects = {}

\* A call has checked or written every part before the one it is at.
UploadShape ==
  /\ pc \in {"checking", "writing part", "writing marker", "uploaded"} =>
       size \in PartSizes /\ \A n \in 0..(index - 1) : Whole(n)
  /\ pc = "writing part" => Key(index) \in DOMAIN objects
  /\ pc \in {"writing marker", "uploaded"} => index = Parts /\ MarkerKey \in DOMAIN objects
  /\ pc = "uploaded" => objects[MarkerKey] = Marker
  /\ pc \in {"writing part", "writing marker"} => ~atomic
  /\ pc = "deleting" => deleted

\* Until the first delete, a marker, torn or whole, means that the parts are.
MarkerLast == MarkerKey \in DOMAIN objects /\ ~deleted => AllWhole

\* What a reader has returned is the source's beginning, part by part.
Beginning(n) == SubSeq(Source, 1, Smaller(n * PartSize, Total))

ReaderShape ==
  /\ reader \in {"idle", "reading", "ok", "error"} /\ opened \in Nat /\ next \in 0..opened
  /\ reader \in {"reading", "ok"} =>
       /\ size \in PartSizes /\ opened = Parts
       /\ ~deleted => AllWhole
       /\ atomic \/ ~deleted => output = Beginning(next)
  /\ reader = "ok" => next = opened

UploadInv == CallType /\ StoreShape /\ UploadShape /\ MarkerLast /\ ReaderShape

-----------------------------------------------------------------------------
(* Calls and deletes *)

\* A part size asked for, and the number of parts it gives.
LEMMA PartsType ==
  ASSUME NEW asked \in Nat
  PROVE  /\ Larger(asked, 1) \in Nat \ {0}
         /\ Ceiling(Total, Larger(asked, 1)) \in 0..Total
<1> DEFINE p == Larger(asked, 1)
<1>1. p \in Nat \ {0}
  BY DEF Larger
<1> HIDE DEF p
<1>2. Total \in Nat
  BY ResumableUploadAssumption
<1>3. Ceiling(Total, p) \in Nat /\ Ceiling(Total, p) <= Total
  BY <1>1, <1>2, CeilingSmall, CeilingBounds
<1>4. Ceiling(Total, p) \in 0..Total
  BY <1>2, <1>3
<1> QED BY <1>1, <1>4 DEF p

LEMMA CallTypeParts ==
  ASSUME CallType
  PROVE  PartSize \in Nat \ {0} /\ Parts \in 0..Total /\ index \in 0..Total /\ Total \in Nat
<1>1. size \in Nat /\ index \in 0..Parts
  BY DEF CallType
<1>2. PartSize \in Nat \ {0} /\ Parts \in 0..Total
  BY <1>1, PartsType DEF PartSize, Parts
<1>3. Total \in Nat
  BY ResumableUploadAssumption
<1> QED BY <1>1, <1>2, <1>3

\* The keys of a part and of the marker.
LEMMA ObjectKeys ==
  ASSUME NEW n
  PROVE  Located(PartObject(n)) = Key(n) /\ Located(StateObject) = MarkerKey
  BY DEF PartObject, StateObject, MarkerKey, Key

LEMMA KeysOf ==
  /\ MarkerName \in Nat /\ Total < MarkerName /\ MarkerKey \in Keys
  /\ \A n \in 0..Total : Key(n) \in Keys
  BY ResumableUploadAssumption DEF MarkerName, MarkerKey, Keys

\* What writing one object leaves.
LEMMA WrittenFacts ==
  ASSUME NEW path, NEW content
  PROVE  /\ DOMAIN Written(path, content) = DOMAIN objects \cup {Located(path)}
         /\ Written(path, content)[Located(path)] = content
         /\ \A key \in DOMAIN objects : key # Located(path) => Written(path, content)[key] = objects[key]
  BY DEF Written

\* The keys of a write.
LEMMA WrittenKeys ==
  ASSUME CallType, NEW content
  PROVE  /\ DOMAIN Written(StateObject, content) \subseteq Keys
         /\ \A n \in 0..Total : DOMAIN Written(PartObject(n), content) \subseteq Keys
<1>1. DOMAIN objects \subseteq Keys
  BY DEF CallType
<1>2. DOMAIN Written(StateObject, content) = DOMAIN objects \cup {MarkerKey}
  BY WrittenFacts, ObjectKeys
<1>3. \A n : DOMAIN Written(PartObject(n), content) = DOMAIN objects \cup {Key(n)}
  BY WrittenFacts, ObjectKeys
<1> QED BY <1>1, <1>2, <1>3, KeysOf

\* Where a step can lead.
LEMMA CallTypeNext == CallType /\ [Next]_vars => CallType'
<1> SUFFICES ASSUME CallType, [Next]_vars PROVE CallType'
  OBVIOUS
<1>1. Parts \in Nat /\ Parts <= Total /\ index \in 0..Total /\ Total \in Nat
  BY CallTypeParts
<1>2. ASSUME UNCHANGED <<atomic, prefix, base>> PROVE Keys' = Keys
  BY <1>2 DEF Keys, Key, Located, Directory, Upload
<1>3. ASSUME size' = size PROVE Parts' = Parts
  BY <1>3 DEF Parts, PartSize
<1>4. ASSUME NEW asked \in PartSizes, BeginUpload(asked) PROVE CallType'
  <2>1. asked \in Nat
    BY ResumableUploadAssumption
  <2>2. Parts' = Ceiling(Total, Larger(asked, 1))
    BY <1>4 DEF BeginUpload, Parts, PartSize
  <2>3. Parts' \in Nat
    BY <1>1, <2>1, <2>2, PartsType
  <2>4. calls' \in 0..MaxCalls
    <3>1. calls \in 0..MaxCalls /\ calls < MaxCalls /\ calls' = calls + 1 /\ MaxCalls \in Nat
      BY <1>4, ResumableUploadAssumption DEF BeginUpload, CallType
    <3> QED BY <3>1
  <2>5. index' \in 0..Parts' /\ size' \in Nat /\ Keys' = Keys
    BY <1>2, <1>4, <2>1, <2>3 DEF BeginUpload
  <2> QED BY <1>4, <2>4, <2>5 DEF BeginUpload, CallType
<1>5. CASE SkipPart
  <2>1. Parts' = Parts /\ Keys' = Keys /\ index' \in 0..Parts
    BY <1>1, <1>2, <1>3, <1>5 DEF SkipPart
  <2> QED BY <1>5, <2>1 DEF SkipPart, CallType
<1>6. CASE PutPart
  <2>1. DOMAIN objects' \subseteq Keys
    BY <1>1, <1>6, WrittenKeys DEF PutPart
  <2>2. Parts' = Parts /\ Keys' = Keys
    BY <1>2, <1>3, <1>6 DEF PutPart
  <2>3. index \in 0..Parts /\ index < Parts
    BY <1>6 DEF PutPart, CallType
  <2>4. index' \in 0..Parts /\ (pc' = "writing part" => index' < Parts)
    <3>1. index + 1 \in 0..Parts
      BY <1>1, <2>3
    <3>2. \/ index' = index + 1 /\ pc' = "checking"
          \/ index' = index
      BY <1>6 DEF PutPart
    <3> QED BY <2>3, <3>1, <3>2
  <2>5. pc' \in {"checking", "writing part"}
    BY <1>6 DEF PutPart
  <2> QED BY <1>6, <2>1, <2>2, <2>4, <2>5 DEF PutPart, CallType
<1>7. CASE WritePart
  <2>1. DOMAIN objects' \subseteq Keys
    <3>1. CASE WriteByte(PartObject(index), Window(index))
      BY <1>1, <3>1, WrittenKeys DEF WriteByte
    <3>2. CASE UNCHANGED objects
      BY <3>2 DEF CallType
    <3> QED BY <1>7, <3>1, <3>2 DEF WritePart
  <2>2. Parts' = Parts /\ Keys' = Keys
    BY <1>2, <1>3, <1>7 DEF WritePart
  <2>3. index \in 0..Parts /\ index < Parts
    BY <1>7 DEF WritePart, CallType
  <2>4. index' \in 0..Parts /\ (pc' = "writing part" => index' < Parts)
    <3>1. index + 1 \in 0..Parts
      BY <1>1, <2>3
    <3>2. \/ index' = index + 1 /\ pc' = "checking"
          \/ index' = index
      BY <1>7 DEF WritePart
    <3> QED BY <2>3, <3>1, <3>2
  <2>5. pc' \in {"checking", "writing part"}
    BY <1>7 DEF WritePart
  <2> QED BY <1>7, <2>1, <2>2, <2>4, <2>5 DEF WritePart, CallType
<1>8. CASE PutMarker
  <2>1. DOMAIN objects' \subseteq Keys
    BY <1>8, WrittenKeys DEF PutMarker
  <2>2. Parts' = Parts /\ Keys' = Keys
    BY <1>2, <1>3, <1>8 DEF PutMarker
  <2>3. pc' \in {"uploaded", "writing marker"}
    BY <1>8 DEF PutMarker
  <2> QED BY <1>8, <2>1, <2>2, <2>3 DEF PutMarker, CallType
<1>9. CASE WriteMarker
  <2>1. DOMAIN objects' \subseteq Keys
    <3>1. CASE WriteByte(StateObject, Marker)
      BY <3>1, WrittenKeys DEF WriteByte
    <3>2. CASE UNCHANGED objects
      BY <3>2 DEF CallType
    <3> QED BY <1>9, <3>1, <3>2 DEF WriteMarker
  <2>2. Parts' = Parts /\ Keys' = Keys
    BY <1>2, <1>3, <1>9 DEF WriteMarker
  <2>3. pc' \in {"uploaded", "writing marker"}
    BY <1>9 DEF WriteMarker
  <2> QED BY <1>9, <2>1, <2>2, <2>3 DEF WriteMarker, CallType
<1>10. CASE BeginDelete
  <2>1. calls' \in 0..MaxCalls
    <3>1. calls \in 0..MaxCalls /\ calls < MaxCalls /\ calls' = calls + 1 /\ MaxCalls \in Nat
      BY <1>10, ResumableUploadAssumption DEF BeginDelete, CallType
    <3> QED BY <3>1
  <2>2. Parts' = Parts /\ Keys' = Keys
    BY <1>2, <1>3, <1>10 DEF BeginDelete
  <2> QED BY <1>10, <2>1, <2>2 DEF BeginDelete, CallType
<1>11. CASE DeleteNext
  <2>1. DOMAIN objects' \subseteq Keys
    BY <1>11 DEF DeleteNext, Removed, CallType
  <2>2. Parts' = Parts /\ Keys' = Keys
    BY <1>2, <1>3, <1>11 DEF DeleteNext
  <2>3. pc' \in {"deleting", "removed"}
    BY <1>11 DEF DeleteNext
  <2> QED BY <1>11, <2>1, <2>2, <2>3 DEF DeleteNext, CallType
<1>12. CASE Fail
  BY <1>2, <1>3, <1>12 DEF Fail, CallType
<1>13. CASE Open \/ ReadPart \/ EndOfParts
  BY <1>2, <1>3, <1>13 DEF Open, ReadPart, EndOfParts, caller, CallType
<1>14. CASE UNCHANGED vars
  BY <1>2, <1>3, <1>14 DEF vars, caller, CallType
<1> QED BY <1>4, <1>5, <1>6, <1>7, <1>8, <1>9, <1>10, <1>11, <1>12, <1>13, <1>14 DEF Next

LEMMA CallTypeInit == Init => CallType
<1> SUFFICES ASSUME Init PROVE CallType
  OBVIOUS
<1>1. prefix \in Seq(Segments) /\ base \in Segments
  <2>1. << >> \in Seq(Segments) /\ \A text \in Roots : <<Raw(text)>> \in Seq(Segments)
    BY DEF Segments
  <2> QED BY <2>1 DEF Init, Segments
<1>2. Parts = Ceiling(Total, Larger(0, 1))
  BY DEF Init, Parts, PartSize
<1>3. Parts \in 0..Total /\ Total \in Nat
  BY <1>2, PartsType, ResumableUploadAssumption
<1>4. index \in 0..Parts /\ calls \in 0..MaxCalls
  BY <1>3, ResumableUploadAssumption DEF Init
<1>5. DOMAIN objects = {}
  BY DEF Init
<1> QED BY <1>1, <1>4, <1>5 DEF Init, CallType

\* The listing a delete starts from has the path of every object.
LEMMA ListComplete ==
  ASSUME CallType, Legible
  PROVE  /\ Sorted(List(Upload)) \in Seq(Paths)
         /\ \A key \in DOMAIN objects :
              \E i \in 1..Len(Sorted(List(Upload))) : key = Located(Sorted(List(Upload))[i])
<1> DEFINE paths == List(Upload)
<1>1. prefix \in Seq(Segments) /\ base \in Segments /\ DOMAIN objects \subseteq Keys
  BY DEF CallType
<1>2. MarkerName \in Nat
  BY KeysOf
<1>3. ASSUME NEW key \in DOMAIN objects
      PROVE  \E n \in 0..MarkerName :
               key = Key(n) /\ IsPrefix(Home, key[1]) /\ <<Stripped(key[1]), key[2]>> = <<Upload, n>>
  <2>1. PICK n \in 0..MarkerName : key = Key(n)
    BY <1>1 DEF Keys
  <2> QED BY <1>1, <2>1, KeyListed
<1>4. \A key \in DOMAIN objects : \E n \in 0..MarkerName : key = Key(n) /\ <<Upload, n>> \in paths
  BY <1>3 DEF List, Home
<1>5. paths \subseteq Paths
  BY <1>3 DEF List, Paths
<1> HIDE DEF paths
<1>6. Named(paths, MarkerName + 1)
  <2>1. \A n \in 0..MarkerName : Last(<<Upload, n>>) = n /\ n \in Nat /\ n < MarkerName + 1
    BY <1>2 DEF Last
  <2>2. \A p \in paths : \E n \in 0..MarkerName : p = <<Upload, n>> /\ Last(p) = n
    BY <1>5, <2>1 DEF Paths
  <2> QED BY <2>1, <2>2 DEF Named
<1>7. /\ Sorted(paths) \in Seq(paths)
      /\ \A p \in paths : \E i \in 1..Len(Sorted(paths)) : Sorted(paths)[i] = p
  BY <1>2, <1>6, SortedComplete
<1>8. Sorted(paths) \in Seq(Paths)
  BY <1>5, <1>7, SeqMonotonic
<1>9. ASSUME NEW key \in DOMAIN objects
      PROVE  \E i \in 1..Len(Sorted(paths)) : key = Located(Sorted(paths)[i])
  <2>1. PICK n \in 0..MarkerName : key = Key(n) /\ <<Upload, n>> \in paths
    BY <1>4
  <2> QED BY <1>7, <2>1 DEF Key
<1> QED BY <1>8, <1>9 DEF paths

LEMMA DeleteShapeNext == DeleteInv /\ [Next]_vars => DeleteShape'
<1> SUFFICES ASSUME DeleteInv, [Next]_vars PROVE DeleteShape'
  OBVIOUS
<1>1. CallType /\ DeleteShape
  BY DEF DeleteInv
<1>2. ASSUME NEW asked \in PartSizes, BeginUpload(asked) PROVE DeleteShape'
  BY <1>2 DEF BeginUpload, DeleteShape
<1>3. CASE SkipPart \/ PutPart \/ PutMarker
  BY <1>3 DEF SkipPart, PutPart, PutMarker, DeleteShape
<1>4. CASE WritePart \/ WriteMarker
  BY <1>4 DEF WritePart, WriteMarker, DeleteShape
<1>5. ASSUME UNCHANGED <<atomic, prefix, base>>
      PROVE  /\ Legible' <=> Legible
             /\ Paths' = Paths /\ \A path : Located(path)' = Located(path)
  BY <1>5 DEF Legible, Paths, Located, Directory, Upload
<1>6. CASE BeginDelete
  <2>1. /\ UNCHANGED <<atomic, prefix, base>> /\ objects' = objects
        /\ queue' = Sorted(List(Upload)) /\ pc' = "deleting"
    BY <1>6 DEF BeginDelete
  <2>2. ASSUME Legible
        PROVE  /\ queue' \in Seq(Paths)
               /\ \A key \in DOMAIN objects : \E i \in 1..Len(queue') : key = Located(queue'[i])
    BY <1>1, <2>1, <2>2, ListComplete
  <2> QED BY <1>5, <2>1, <2>2 DEF DeleteShape, Located, Directory
<1>7. CASE DeleteNext
  <2>1. pc = "deleting" /\ UNCHANGED <<atomic, prefix, base>>
    BY <1>7 DEF DeleteNext
  <2>2. CASE ~Legible
    BY <1>5, <2>1, <2>2 DEF DeleteShape
  <2>3. CASE Legible /\ queue = << >>
    <3>1. DOMAIN objects = {}
      <4>1. Len(queue) = 0
        BY <2>3
      <4>2. \A key \in DOMAIN objects : \E i \in 1..Len(queue) : key = Located(queue[i])
        BY <1>1, <2>1, <2>3 DEF DeleteShape
      <4> QED BY <4>1, <4>2
    <3> QED BY <1>7, <2>3, <3>1 DEF DeleteNext, DeleteShape
  <2>4. CASE Legible /\ queue # << >>
    <3>1. objects' = Removed(Head(queue)) /\ queue' = Tail(queue) /\ pc' = "deleting"
      BY <1>7, <2>1, <2>4 DEF DeleteNext
    <3>2. queue \in Seq(Paths)
      BY <1>1, <2>1, <2>4 DEF DeleteShape
    <3>3. /\ queue' \in Seq(Paths) /\ Len(queue) \in Nat /\ Len(queue') = Len(queue) - 1
          /\ \A i \in 1..Len(queue') : queue'[i] = queue[i + 1]
          /\ Head(queue) = queue[1]
      BY <2>4, <3>1, <3>2
    <3>4. ASSUME NEW key \in DOMAIN objects'
          PROVE  \E i \in 1..Len(queue') : key = Located(queue'[i])
      <4>1. key \in DOMAIN objects /\ key # Located(Head(queue))
        BY <3>1 DEF Removed
      <4>2. PICK i \in 1..Len(queue) : key = Located(queue[i])
        BY <1>1, <2>1, <2>4, <4>1 DEF DeleteShape
      <4>3. i # 1
        BY <3>3, <4>1, <4>2
      <4>4. i - 1 \in 1..Len(queue') /\ queue'[i - 1] = queue[i]
        BY <3>3, <4>3
      <4> QED BY <4>2, <4>4
    <3> QED BY <1>5, <2>1, <3>1, <3>3, <3>4 DEF DeleteShape, Located, Directory
  <2> QED BY <2>2, <2>3, <2>4
<1>8. CASE Fail
  BY <1>8 DEF Fail, DeleteShape
<1>9. CASE Open \/ ReadPart \/ EndOfParts \/ UNCHANGED vars
  <2>1. UNCHANGED <<atomic, prefix, base, objects, pc, queue>>
    BY <1>9 DEF Open, ReadPart, EndOfParts, vars, caller
  <2> QED BY <1>1, <1>5, <2>1 DEF DeleteShape, Located, Directory
<1> QED BY <1>2, <1>3, <1>4, <1>6, <1>7, <1>8, <1>9 DEF Next

\* A delete that returns Ok leaves no object of the upload, on a local directory
\* and on an object store whose keys spell the prefix and the base name as they
\* are given, for calls of any part sizes (delete_resumable).
THEOREM DeleteLeavesNothingCorrect == Spec => []DeleteLeavesNothing
<1>1. Init => DeleteInv
  BY CallTypeInit DEF DeleteInv, DeleteShape, Init
<1>2. DeleteInv /\ [Next]_vars => DeleteInv'
  BY CallTypeNext, DeleteShapeNext DEF DeleteInv
<1>3. DeleteInv => DeleteLeavesNothing
  BY DEF DeleteInv, DeleteShape, DeleteLeavesNothing
<1> QED BY <1>1, <1>2, <1>3, PTL DEF Spec

-----------------------------------------------------------------------------
(* Contents *)

LEMMA SourceType == Source \in Seq(Nat) /\ Len(Source) = Total /\ \A i \in 1..Total : Source[i] = i
<1>1. Total \in Nat
  BY ResumableUploadAssumption
<1> QED BY <1>1 DEF Source

\* The window of a part lies in the source.
LEMMA WindowType ==
  ASSUME CallType, NEW n \in PartNumbers
  PROVE  /\ n \in Nat /\ n * PartSize \in Nat /\ n * PartSize < Total
         /\ Window(n) \in Seq(Nat) /\ Len(Window(n)) \in Nat /\ Len(Window(n)) <= PartSize
<1> DEFINE p == PartSize
           last == Smaller(n * p + p, Total)
<1>1. p \in Nat \ {0} /\ Parts \in Nat /\ Total \in Nat /\ n \in Nat /\ n < Parts
  BY CallTypeParts DEF PartNumbers
<1>2. n < Ceiling(Total, p)
  BY <1>1 DEF Parts
<1> HIDE DEF p
<1>3. n * p \in Nat /\ n * p < Total
  BY <1>1, <1>2, PartBegins, NextMultiple
<1>4. /\ last \in Nat /\ n * p < last /\ last <= Total /\ last <= n * p + p
  BY <1>1, <1>3 DEF Smaller
<1> HIDE DEF last
<1>5. \A i \in (n * p + 1)..last : Source[i] \in Nat
  BY <1>3, <1>4, SourceType
<1> DEFINE from == n * p + 1
<1>6. from \in Nat /\ from <= last /\ last - from + 1 <= p
  BY <1>1, <1>3, <1>4
<1> HIDE DEF from
<1>7. SubSeq(Source, from, last) \in Seq(Nat) /\ Len(SubSeq(Source, from, last)) = last - from + 1
  BY <1>4, <1>5, <1>6, SubSeqProperties DEF from
<1>8. SubSeq(Source, from, last) = Window(n)
  BY DEF Window, p, last, from
<1> QED BY <1>1, <1>3, <1>4, <1>6, <1>7, <1>8 DEF p

LEMMA MarkerType ==
  ASSUME CallType
  PROVE  Marker \in Seq(Nat) /\ Len(Marker) = 3 /\ Marker[3] = Parts
  BY CallTypeParts DEF Marker

\* Objects at the different stages of a write.
LEMMA HoldsWhole ==
  ASSUME NEW whole \in Seq(Nat) PROVE Holds(whole, whole)
<1>1. Len(whole) \in 0..Len(whole) /\ whole = SubSeq(whole, 1, Len(whole))
  BY LenProperties, SubSeqFull
<1> QED BY <1>1 DEF Holds

LEMMA HoldsNothing ==
  ASSUME NEW whole \in Seq(Nat), ~atomic PROVE Holds(<< >>, whole)
<1>1. 0 \in 0..Len(whole) /\ << >> = SubSeq(whole, 1, 0)
  BY LenProperties, SubSeqEmpty
<1> QED BY <1>1 DEF Holds

\* How long a cut object is.
LEMMA HoldsCut ==
  ASSUME NEW whole \in Seq(Nat), NEW content, Holds(content, whole)
  PROVE  /\ Len(content) \in 0..Len(whole) /\ content = SubSeq(whole, 1, Len(content))
         /\ atomic => content = whole
         /\ Len(content) = Len(whole) => content = whole
         /\ Len(whole) \in Nat
<1>1. PICK k \in 0..Len(whole) : content = SubSeq(whole, 1, k) /\ (atomic => k = Len(whole))
  BY DEF Holds
<1>2. Len(whole) \in Nat /\ k \in Nat /\ k <= Len(whole) /\ SubSeq(whole, 1, Len(whole)) = whole
  BY LenProperties, SubSeqFull
<1>3. \A i \in 1..k : whole[i] \in Nat
  BY <1>2
<1>4. Len(SubSeq(whole, 1, k)) = IF 1 <= k THEN k - 1 + 1 ELSE 0
  BY <1>2, <1>3, SubSeqProperties
<1>5. Len(content) = k
  <2>1. (IF 1 <= k THEN k - 1 + 1 ELSE 0) = k
    BY <1>2
  <2> QED BY <1>1, <1>4, <2>1, Zenon
<1> QED BY <1>1, <1>2, <1>5

LEMMA HoldsMore ==
  ASSUME NEW whole \in Seq(Nat), NEW content, Holds(content, whole), ~atomic,
         Len(content) < Len(whole)
  PROVE  Holds(SubSeq(whole, 1, Len(content) + 1), whole)
<1>1. Len(content) + 1 \in 0..Len(whole)
  BY HoldsCut
<1> QED BY <1>1 DEF Holds

-----------------------------------------------------------------------------
(* Steps of the store *)

\* What the objects' names and meanings depend on.
Frame == UNCHANGED <<atomic, prefix, base>> /\ PartSize' = PartSize

LEMMA FrameFacts ==
  ASSUME Frame
  PROVE  /\ Parts' = Parts /\ PartNumbers' = PartNumbers /\ MarkerKey' = MarkerKey /\ Marker' = Marker
         /\ \A n : Key(n)' = Key(n) /\ Window(n)' = Window(n) /\ Beginning(n)' = Beginning(n)
         /\ \A content, whole : Holds(content, whole)' <=> Holds(content, whole)
<1>1. Parts' = Parts
  BY DEF Frame, Parts
<1>2. PartNumbers' = PartNumbers /\ Marker' = Marker
  BY <1>1 DEF Frame, PartNumbers, Marker
<1>3. MarkerKey' = MarkerKey /\ \A n : Key(n)' = Key(n)
  BY DEF Frame, MarkerKey, Key, Located, Directory, Upload
<1>4. \A n : Window(n)' = Window(n) /\ Beginning(n)' = Beginning(n)
  BY DEF Frame, Window, Beginning
<1>5. \A content, whole : Holds(content, whole)' <=> Holds(content, whole)
  BY DEF Frame, Holds
<1> QED BY <1>1, <1>2, <1>3, <1>4, <1>5

\* A part's key is no other part's and not the marker's.
LEMMA PartKeys ==
  ASSUME CallType, NEW n \in PartNumbers
  PROVE  /\ Key(n) # MarkerKey
         /\ \A m \in PartNumbers : Key(m) = Key(n) => m = n
<1>1. MarkerName \in Nat /\ Total < MarkerName /\ Parts \in 0..Total /\ Total \in Nat
  BY CallTypeParts, KeysOf
<1>2. \A m \in PartNumbers : m \in Nat /\ m # MarkerName
  BY <1>1 DEF PartNumbers
<1> QED BY <1>1, <1>2, KeysDiffer DEF MarkerKey

\* Nothing is written or removed.
LEMMA StoreKept ==
  ASSUME Frame, StoreShape, UNCHANGED objects,
         size \in PartSizes \/ DOMAIN objects = {} => size' \in PartSizes \/ DOMAIN objects = {}
  PROVE  StoreShape' /\ \A n : Whole(n)' <=> Whole(n)
  BY FrameFacts DEF StoreShape, Whole

\* A part is written.
LEMMA PartWritten ==
  ASSUME CallType, Frame, StoreShape, UNCHANGED size, size \in PartSizes, NEW n \in PartNumbers,
         NEW content, Holds(content, Window(n)), objects' = Written(PartObject(n), content)
  PROVE  /\ StoreShape'
         /\ DOMAIN objects' = DOMAIN objects \cup {Key(n)} /\ objects'[Key(n)] = content
         /\ \A m \in PartNumbers : (IF m = n THEN content = Window(n) ELSE Whole(m)) => Whole(m)'
         /\ MarkerKey \in DOMAIN objects' <=> MarkerKey \in DOMAIN objects
         /\ MarkerKey \in DOMAIN objects => objects'[MarkerKey] = objects[MarkerKey]
<1>1. /\ DOMAIN objects' = DOMAIN objects \cup {Key(n)} /\ objects'[Key(n)] = content
      /\ \A key \in DOMAIN objects : key # Key(n) => objects'[key] = objects[key]
  BY ObjectKeys DEF Written
<1>2. Key(n) # MarkerKey /\ \A m \in PartNumbers : Key(m) = Key(n) => m = n
  BY PartKeys
<1>3. ASSUME NEW m \in PartNumbers, Key(m) \in DOMAIN objects' PROVE Holds(objects'[Key(m)], Window(m))
  BY <1>1, <1>2, <1>3 DEF StoreShape
<1>4. MarkerKey \in DOMAIN objects' => Holds(objects'[MarkerKey], Marker)
  BY <1>1, <1>2 DEF StoreShape
<1>5. DOMAIN objects' \subseteq {Key(m) : m \in PartNumbers} \cup {MarkerKey}
  BY <1>1 DEF StoreShape
<1>6. StoreShape'
  BY <1>3, <1>4, <1>5, FrameFacts DEF StoreShape
<1>7. \A m \in PartNumbers : (IF m = n THEN content = Window(n) ELSE Whole(m)) => Whole(m)'
  BY <1>1, <1>2, FrameFacts DEF Whole
<1> QED BY <1>1, <1>2, <1>6, <1>7

\* The marker is written.
LEMMA MarkerWritten ==
  ASSUME CallType, Frame, StoreShape, UNCHANGED size, size \in PartSizes,
         NEW content, Holds(content, Marker), objects' = Written(StateObject, content)
  PROVE  /\ StoreShape'
         /\ MarkerKey \in DOMAIN objects' /\ objects'[MarkerKey] = content
         /\ \A m \in PartNumbers : Whole(m)' <=> Whole(m)
<1>1. /\ DOMAIN objects' = DOMAIN objects \cup {MarkerKey} /\ objects'[MarkerKey] = content
      /\ \A key \in DOMAIN objects : key # MarkerKey => objects'[key] = objects[key]
  BY ObjectKeys DEF Written
<1>2. \A m \in PartNumbers : Key(m) # MarkerKey
  BY PartKeys
<1>3. \A m \in PartNumbers : Key(m) \in DOMAIN objects' => Holds(objects'[Key(m)], Window(m))
  BY <1>1, <1>2 DEF StoreShape
<1>4. DOMAIN objects' \subseteq {Key(m) : m \in PartNumbers} \cup {MarkerKey}
  BY <1>1 DEF StoreShape
<1>5. StoreShape'
  BY <1>1, <1>3, <1>4, FrameFacts DEF StoreShape
<1>6. \A m \in PartNumbers : Whole(m)' <=> Whole(m)
  BY <1>1, <1>2, FrameFacts DEF Whole
<1> QED BY <1>1, <1>5, <1>6

\* An object is removed.
LEMMA ObjectRemoved ==
  ASSUME Frame, StoreShape, UNCHANGED size, NEW path, objects' = Removed(path)
  PROVE  StoreShape'
<1>1. /\ DOMAIN objects' \subseteq DOMAIN objects
      /\ \A key \in DOMAIN objects' : objects'[key] = objects[key]
  BY DEF Removed
<1>2. \A m \in PartNumbers : Key(m) \in DOMAIN objects' => Holds(objects'[Key(m)], Window(m))
  BY <1>1 DEF StoreShape
<1>3. MarkerKey \in DOMAIN objects' => Holds(objects'[MarkerKey], Marker)
  BY <1>1 DEF StoreShape
<1>4. /\ DOMAIN objects' \subseteq {Key(m) : m \in PartNumbers} \cup {MarkerKey}
      /\ size' \in PartSizes \/ DOMAIN objects' = {}
  BY <1>1 DEF StoreShape
<1> QED BY <1>2, <1>3, <1>4, FrameFacts DEF StoreShape

-----------------------------------------------------------------------------
(* Steps of a call *)

\* The reader sees no difference, or whole parts stay whole.
LEMMA ReaderKept ==
  ASSUME Frame, ReaderShape, UNCHANGED reading, deleted => deleted',
         size \in PartSizes => size' \in PartSizes,
         ~deleted /\ AllWhole => AllWhole'
  PROVE  ReaderShape'
<1>1. /\ reader' = reader /\ opened' = opened /\ next' = next /\ output' = output
      /\ atomic' = atomic
  BY DEF reading, Frame
<1>2. Parts' = Parts /\ Beginning(next)' = Beginning(next)
  BY <1>1, FrameFacts DEF Frame, Beginning
<1> QED BY <1>1, <1>2 DEF ReaderShape

\* While a part is missing or short, no reader relies on it and no marker is there.
LEMMA NobodyRelies ==
  ASSUME UploadInv, NEW n \in PartNumbers, ~Whole(n), ~deleted
  PROVE  MarkerKey \notin DOMAIN objects /\ reader \notin {"reading", "ok"} /\ ~AllWhole
  BY DEF UploadInv, MarkerLast, ReaderShape, AllWhole

\* A part of the expected length is the part.
LEMMA PresentWhole ==
  ASSUME UploadInv, NEW n \in PartNumbers
  PROVE  Present(n) <=> Whole(n)
<1>1. CallType /\ StoreShape
  BY DEF UploadInv
<1>2. Window(n) \in Seq(Nat) /\ Len(Window(n)) \in Nat
  BY <1>1, WindowType
<1>3. Size(PartObject(n)) = IF Key(n) \in DOMAIN objects THEN Len(objects[Key(n)]) ELSE -1
  BY ObjectKeys DEF Size, Exists, Content
<1>4. CASE Key(n) \in DOMAIN objects
  <2>1. Holds(objects[Key(n)], Window(n))
    BY <1>1, <1>4 DEF StoreShape
  <2>2. Len(objects[Key(n)]) = Len(Window(n)) => objects[Key(n)] = Window(n)
    BY <1>2, <2>1, HoldsCut
  <2> QED BY <1>3, <1>4, <2>2 DEF Present, Whole
<1>5. CASE Key(n) \notin DOMAIN objects
  BY <1>2, <1>3, <1>5 DEF Present, Whole
<1> QED BY <1>4, <1>5

\* A write to a part that is not whole.
LEMMA PartStep ==
  ASSUME UploadInv, Frame, UNCHANGED <<size, deleted, reading>>, size \in PartSizes,
         NEW n \in PartNumbers, ~Whole(n), NEW content, Holds(content, Window(n)),
         objects' = Written(PartObject(n), content)
  PROVE  StoreShape' /\ MarkerLast' /\ ReaderShape'
<1>1. CallType /\ StoreShape /\ MarkerLast /\ ReaderShape
  BY DEF UploadInv
<1>2. StoreShape' /\ (MarkerKey \in DOMAIN objects' <=> MarkerKey \in DOMAIN objects)
  BY <1>1, PartWritten
<1>3. deleted \/ (MarkerKey \notin DOMAIN objects /\ ~AllWhole)
  BY NobodyRelies
<1>4. MarkerLast'
  BY <1>2, <1>3, FrameFacts DEF MarkerLast
<1>5. ReaderShape'
  BY <1>1, <1>3, ReaderKept
<1> QED BY <1>2, <1>4, <1>5

\* A write of the marker over whole parts.
LEMMA MarkerStep ==
  ASSUME UploadInv, Frame, UNCHANGED <<size, deleted, reading>>, size \in PartSizes,
         AllWhole, NEW content, Holds(content, Marker), objects' = Written(StateObject, content)
  PROVE  StoreShape' /\ MarkerLast' /\ ReaderShape' /\ AllWhole'
<1>1. CallType /\ StoreShape /\ ReaderShape
  BY DEF UploadInv
<1>2. StoreShape' /\ \A m \in PartNumbers : Whole(m)' <=> Whole(m)
  BY <1>1, MarkerWritten
<1>3. AllWhole'
  BY <1>2, FrameFacts DEF AllWhole
<1>4. ReaderShape'
  BY <1>1, <1>3, ReaderKept
<1> QED BY <1>2, <1>3, <1>4 DEF MarkerLast

\* A step that leaves the store and the reader alone.
LEMMA QuietStep ==
  ASSUME UploadInv, Frame, UNCHANGED <<objects, reading>>, deleted => deleted',
         size \in PartSizes => size' \in PartSizes
  PROVE  StoreShape' /\ MarkerLast' /\ ReaderShape' /\ \A n : Whole(n)' <=> Whole(n)
<1>1. StoreShape /\ MarkerLast /\ ReaderShape
  BY DEF UploadInv
<1>2. StoreShape' /\ \A n : Whole(n)' <=> Whole(n)
  BY <1>1, StoreKept
<1>3. AllWhole' <=> AllWhole
  BY <1>2, FrameFacts DEF AllWhole
<1>4. MarkerLast'
  BY <1>1, <1>3, FrameFacts DEF MarkerLast
<1>5. ReaderShape'
  BY <1>1, <1>3, ReaderKept
<1> QED BY <1>2, <1>4, <1>5

LEMMA InvBeginUpload ==
  ASSUME OnePartSize, UploadInv, NEW asked \in PartSizes, BeginUpload(asked)
  PROVE  StoreShape' /\ UploadShape' /\ MarkerLast' /\ ReaderShape'
<1>1. /\ UNCHANGED <<atomic, prefix, base>> /\ objects' = objects /\ deleted' = deleted
      /\ UNCHANGED reading /\ size' = asked /\ index' = 0 /\ pc' = "checking"
  BY DEF BeginUpload
<1>2. UploadShape'
  BY <1>1 DEF UploadShape
<1>3. CASE size \in PartSizes
  <2>1. Larger(asked, 1) = Larger(size, 1)
    BY <1>3 DEF OnePartSize
  <2>2. Frame
    BY <1>1, <2>1 DEF Frame, PartSize
  <2> QED BY <1>1, <1>2, <2>2, QuietStep
<1>4. CASE size \notin PartSizes
  <2>1. DOMAIN objects = {} /\ reader \notin {"reading", "ok"} /\ ReaderShape
    BY <1>4 DEF UploadInv, StoreShape, ReaderShape
  <2>2. StoreShape'
    BY <1>1, <2>1 DEF StoreShape
  <2>3. MarkerLast'
    BY <1>1, <2>1 DEF MarkerLast
  <2>4. ReaderShape'
    BY <1>1, <2>1 DEF ReaderShape, reading
  <2> QED BY <1>2, <2>2, <2>3, <2>4
<1> QED BY <1>3, <1>4

LEMMA InvSkipPart ==
  ASSUME UploadInv, SkipPart
  PROVE  StoreShape' /\ UploadShape' /\ MarkerLast' /\ ReaderShape'
<1>1. /\ UNCHANGED <<atomic, prefix, base>> /\ objects' = objects /\ deleted' = deleted /\ size' = size
      /\ UNCHANGED reading /\ index' = index + 1 /\ pc' = "checking" /\ pc = "checking"
      /\ index < Parts /\ Present(index)
  BY DEF SkipPart
<1>2. /\ index \in PartNumbers /\ index \in Nat
      /\ \A n \in 0..(index - 1) : n \in PartNumbers /\ n # index
  <2>1. index < Parts
    BY <1>1 DEF UploadInv, CallType
  <2>2. Parts \in Nat /\ index \in Nat
    BY CallTypeParts DEF UploadInv
  <2> QED BY <2>1, <2>2 DEF PartNumbers
<1>3. Frame
  BY <1>1 DEF Frame, PartSize
<1>4. StoreShape' /\ MarkerLast' /\ ReaderShape' /\ \A n : Whole(n)' <=> Whole(n)
  BY <1>1, <1>3, QuietStep
<1>5. size \in PartSizes /\ \A n \in 0..index : Whole(n)
  BY <1>1, <1>2, PresentWhole DEF UploadInv, UploadShape
<1>6. \A n \in 0..(index' - 1) : Whole(n)'
  BY <1>1, <1>2, <1>4, <1>5
<1> QED BY <1>1, <1>4, <1>5, <1>6 DEF UploadShape

LEMMA InvPutPart ==
  ASSUME UploadInv, PutPart
  PROVE  StoreShape' /\ UploadShape' /\ MarkerLast' /\ ReaderShape'
<1> DEFINE content == IF atomic THEN Window(index) ELSE << >>
<1>1. /\ UNCHANGED <<atomic, prefix, base>> /\ deleted' = deleted /\ size' = size
      /\ UNCHANGED reading /\ pc = "checking" /\ index < Parts /\ ~Present(index)
      /\ objects' = Written(PartObject(index), content)
  BY DEF PutPart
<1>2. /\ index \in PartNumbers /\ index \in Nat
      /\ \A n \in 0..(index - 1) : n \in PartNumbers /\ n # index
  <2>1. index < Parts
    BY <1>1 DEF UploadInv, CallType
  <2>2. Parts \in Nat /\ index \in Nat
    BY CallTypeParts DEF UploadInv
  <2> QED BY <2>1, <2>2 DEF PartNumbers
<1>3. CallType /\ StoreShape /\ size \in PartSizes /\ \A n \in 0..(index - 1) : Whole(n)
  BY <1>1 DEF UploadInv, UploadShape
<1>4. ~Whole(index) /\ Window(index) \in Seq(Nat)
  BY <1>1, <1>2, <1>3, PresentWhole, WindowType
<1>5. Holds(content, Window(index))
  BY <1>4, HoldsWhole, HoldsNothing
<1>6. Frame
  BY <1>1 DEF Frame, PartSize
<1> HIDE DEF content
<1>7. StoreShape' /\ MarkerLast' /\ ReaderShape'
  BY <1>1, <1>2, <1>3, <1>4, <1>5, <1>6, PartStep
<1>8. /\ DOMAIN objects' = DOMAIN objects \cup {Key(index)}
      /\ \A m \in PartNumbers : (IF m = index THEN content = Window(index) ELSE Whole(m)) => Whole(m)'
  BY <1>1, <1>2, <1>3, <1>5, <1>6, PartWritten
<1>9. \A n \in 0..(index - 1) : Whole(n)'
  BY <1>2, <1>3, <1>8
<1>10. CASE atomic
  <2>1. index' = index + 1 /\ pc' = "checking" /\ content = Window(index)
    BY <1>1, <1>10 DEF PutPart, content
  <2>2. \A n \in 0..(index' - 1) : Whole(n)'
    BY <1>2, <1>8, <1>9, <2>1
  <2> QED BY <1>1, <1>3, <1>7, <2>1, <2>2 DEF UploadShape
<1>11. CASE ~atomic
  <2>1. index' = index /\ pc' = "writing part"
    BY <1>11 DEF PutPart
  <2>2. Key(index)' = Key(index)
    BY <1>1, <2>1 DEF Key, Located, Directory, Upload
  <2>3. Key(index)' \in DOMAIN objects'
    BY <1>8, <2>2
  <2> QED BY <1>1, <1>3, <1>7, <1>9, <1>11, <2>1, <2>3 DEF UploadShape
<1> QED BY <1>10, <1>11

LEMMA InvWritePart ==
  ASSUME UploadInv, WritePart
  PROVE  StoreShape' /\ UploadShape' /\ MarkerLast' /\ ReaderShape'
<1>1. /\ UNCHANGED <<atomic, prefix, base>> /\ deleted' = deleted /\ size' = size
      /\ UNCHANGED reading /\ pc = "writing part"
  BY DEF WritePart
<1>2. /\ index \in PartNumbers /\ index \in Nat
      /\ \A n \in 0..(index - 1) : n \in PartNumbers /\ n # index
  <2>1. index < Parts
    BY <1>1 DEF UploadInv, CallType
  <2>2. Parts \in Nat /\ index \in Nat
    BY CallTypeParts DEF UploadInv
  <2> QED BY <2>1, <2>2 DEF PartNumbers
<1>3. /\ CallType /\ StoreShape /\ size \in PartSizes /\ \A n \in 0..(index - 1) : Whole(n)
      /\ Key(index) \in DOMAIN objects /\ ~atomic
  BY <1>1 DEF UploadInv, UploadShape
<1>4. Window(index) \in Seq(Nat) /\ Holds(objects[Key(index)], Window(index))
  BY <1>2, <1>3, WindowType DEF StoreShape
<1>5. Frame
  BY <1>1 DEF Frame, PartSize
<1>6. Size(PartObject(index)) = Len(objects[Key(index)])
  BY <1>3, ObjectKeys DEF Size, Exists, Content
<1>7. CASE WriteByte(PartObject(index), Window(index)) /\ UNCHANGED <<pc, index>>
  <2> DEFINE content == SubSeq(Window(index), 1, Len(objects[Key(index)]) + 1)
  <2>1. /\ Len(objects[Key(index)]) < Len(Window(index))
        /\ objects' = Written(PartObject(index), content)
    BY <1>6, <1>7 DEF WriteByte
  <2>2. Holds(content, Window(index))
    BY <1>3, <1>4, <2>1, HoldsMore
  <2>3. ~Whole(index)
    BY <1>4, <2>1, HoldsCut DEF Whole
  <2> HIDE DEF content
  <2>4. StoreShape' /\ MarkerLast' /\ ReaderShape'
    BY <1>1, <1>2, <1>3, <1>5, <2>1, <2>2, <2>3, PartStep
  <2>5. /\ DOMAIN objects' = DOMAIN objects \cup {Key(index)}
        /\ \A m \in PartNumbers :
             (IF m = index THEN content = Window(index) ELSE Whole(m)) => Whole(m)'
    BY <1>1, <1>2, <1>3, <1>5, <2>1, <2>2, PartWritten
  <2>6. \A n \in 0..(index - 1) : Whole(n)'
    BY <1>2, <1>3, <2>5
  <2>7. Key(index)' = Key(index)
    BY <1>1, <1>7 DEF Key, Located, Directory, Upload
  <2>8. Key(index)' \in DOMAIN objects'
    BY <2>5, <2>7
  <2> QED BY <1>1, <1>3, <1>7, <2>4, <2>6, <2>8 DEF UploadShape
<1>8. CASE Present(index) /\ pc' = "checking" /\ index' = index + 1 /\ UNCHANGED objects
  <2>1. StoreShape' /\ MarkerLast' /\ ReaderShape' /\ \A n : Whole(n)' <=> Whole(n)
    BY <1>1, <1>5, <1>8, QuietStep
  <2>2. \A n \in 0..index : Whole(n)
    BY <1>2, <1>3, <1>8, PresentWhole
  <2>3. \A n \in 0..(index' - 1) : Whole(n)'
    BY <1>2, <1>8, <2>1, <2>2
  <2> QED BY <1>1, <1>3, <1>8, <2>1, <2>3 DEF UploadShape
<1> QED BY <1>7, <1>8 DEF WritePart

LEMMA InvPutMarker ==
  ASSUME UploadInv, PutMarker
  PROVE  StoreShape' /\ UploadShape' /\ MarkerLast' /\ ReaderShape'
<1> DEFINE content == IF atomic THEN Marker ELSE << >>
<1>1. /\ UNCHANGED <<atomic, prefix, base>> /\ deleted' = deleted /\ size' = size
      /\ UNCHANGED reading /\ pc = "checking" /\ index = Parts /\ index' = index
      /\ objects' = Written(StateObject, content)
      /\ pc' = IF atomic THEN "uploaded" ELSE "writing marker"
  BY DEF PutMarker
<1>2. CallType /\ StoreShape /\ size \in PartSizes /\ \A n \in 0..(index - 1) : Whole(n)
  BY <1>1 DEF UploadInv, UploadShape
<1>3. AllWhole
  BY <1>1, <1>2 DEF AllWhole, PartNumbers
<1>4. Holds(content, Marker)
  BY <1>2, MarkerType, HoldsWhole, HoldsNothing
<1>5. Frame
  BY <1>1 DEF Frame, PartSize
<1>6. content = Marker \/ ~atomic
  OBVIOUS
<1> HIDE DEF content
<1>7. StoreShape' /\ MarkerLast' /\ ReaderShape' /\ AllWhole'
  BY <1>1, <1>2, <1>3, <1>4, <1>5, MarkerStep
<1>8. MarkerKey \in DOMAIN objects' /\ objects'[MarkerKey] = content
  BY <1>1, <1>2, <1>4, <1>5, MarkerWritten
<1>9. Parts' = Parts /\ MarkerKey' = MarkerKey /\ Marker' = Marker /\ PartNumbers' = PartNumbers
  BY <1>5, FrameFacts
<1>10. \A n \in 0..(index' - 1) : Whole(n)'
  BY <1>1, <1>7, <1>9 DEF AllWhole, PartNumbers
<1> QED BY <1>1, <1>2, <1>6, <1>7, <1>8, <1>9, <1>10 DEF UploadShape

LEMMA InvWriteMarker ==
  ASSUME UploadInv, WriteMarker
  PROVE  StoreShape' /\ UploadShape' /\ MarkerLast' /\ ReaderShape'
<1>1. /\ UNCHANGED <<atomic, prefix, base>> /\ deleted' = deleted /\ size' = size
      /\ UNCHANGED reading /\ pc = "writing marker" /\ index' = index
  BY DEF WriteMarker
<1>2. /\ CallType /\ StoreShape /\ size \in PartSizes /\ \A n \in 0..(index - 1) : Whole(n)
      /\ index = Parts /\ MarkerKey \in DOMAIN objects /\ ~atomic
  BY <1>1 DEF UploadInv, UploadShape
<1>3. AllWhole
  BY <1>2 DEF AllWhole, PartNumbers
<1>4. Marker \in Seq(Nat) /\ Holds(objects[MarkerKey], Marker)
  BY <1>2, MarkerType DEF StoreShape
<1>5. Frame
  BY <1>1 DEF Frame, PartSize
<1>6. Parts' = Parts /\ MarkerKey' = MarkerKey /\ Marker' = Marker /\ PartNumbers' = PartNumbers
  BY <1>5, FrameFacts
<1>7. Size(StateObject) = Len(objects[MarkerKey])
  BY <1>2, ObjectKeys DEF Size, Exists, Content
<1>8. CASE WriteByte(StateObject, Marker) /\ UNCHANGED pc
  <2> DEFINE content == SubSeq(Marker, 1, Len(objects[MarkerKey]) + 1)
  <2>1. Len(objects[MarkerKey]) < Len(Marker) /\ objects' = Written(StateObject, content)
    BY <1>7, <1>8 DEF WriteByte
  <2>2. Holds(content, Marker)
    BY <1>2, <1>4, <2>1, HoldsMore
  <2> HIDE DEF content
  <2>3. StoreShape' /\ MarkerLast' /\ ReaderShape' /\ AllWhole'
    BY <1>1, <1>2, <1>3, <1>5, <2>1, <2>2, MarkerStep
  <2>4. MarkerKey \in DOMAIN objects'
    BY <1>1, <1>2, <1>5, <2>1, <2>2, MarkerWritten
  <2>5. \A n \in 0..(index' - 1) : Whole(n)'
    BY <1>1, <1>2, <1>6, <2>3 DEF AllWhole, PartNumbers
  <2> QED BY <1>1, <1>2, <1>6, <1>8, <2>3, <2>4, <2>5 DEF UploadShape
<1>9. CASE Size(StateObject) = Len(Marker) /\ pc' = "uploaded" /\ UNCHANGED objects
  <2>1. StoreShape' /\ MarkerLast' /\ ReaderShape' /\ \A n : Whole(n)' <=> Whole(n)
    BY <1>1, <1>5, <1>9, QuietStep
  <2>2. objects[MarkerKey] = Marker
    BY <1>4, <1>7, <1>9, HoldsCut
  <2>3. \A n \in 0..(index' - 1) : Whole(n)'
    BY <1>1, <1>2, <2>1
  <2> QED BY <1>1, <1>2, <1>6, <1>9, <2>1, <2>2, <2>3 DEF UploadShape
<1> QED BY <1>8, <1>9 DEF WriteMarker

LEMMA InvDelete ==
  ASSUME UploadInv, BeginDelete \/ DeleteNext \/ Fail
  PROVE  StoreShape' /\ UploadShape' /\ MarkerLast' /\ ReaderShape'
<1>1. /\ UNCHANGED <<atomic, prefix, base>> /\ size' = size
      /\ UNCHANGED reading /\ pc' \in {"deleting", "removed", "failed"}
  BY DEF BeginDelete, DeleteNext, Fail
<1>2. Frame
  BY <1>1 DEF Frame, PartSize
<1>3. UploadShape'
  <2>1. pc' = "deleting" => deleted'
    BY DEF BeginDelete, DeleteNext, Fail, UploadInv, UploadShape
  <2> QED BY <1>1, <2>1 DEF UploadShape
<1>4. CASE BeginDelete \/ Fail \/ (DeleteNext /\ UNCHANGED objects)
  <2>1. UNCHANGED <<objects, reading>> /\ (deleted => deleted')
    BY <1>1, <1>4 DEF BeginDelete, DeleteNext, Fail
  <2> QED BY <1>1, <1>2, <1>3, <2>1, QuietStep
<1>5. CASE DeleteNext /\ objects' = Removed(Head(queue))
  <2>1. deleted' = deleted /\ pc = "deleting"
    BY <1>5 DEF DeleteNext
  <2>2. StoreShape'
    BY <1>1, <1>2, <1>5, ObjectRemoved DEF UploadInv
  <2>3. deleted
    BY <2>1 DEF UploadInv, UploadShape
  <2>4. MarkerLast' /\ ReaderShape'
    BY <1>1, <1>2, <2>1, <2>3, ReaderKept DEF UploadInv, MarkerLast
  <2> QED BY <1>3, <2>2, <2>4
<1> QED BY <1>4, <1>5 DEF DeleteNext

-----------------------------------------------------------------------------
(* Steps of the reader *)

\* The beginnings of the source grow by a window at a time, to the source.
LEMMA BeginningGrows ==
  ASSUME CallType
  PROVE  /\ Beginning(0) = << >>
         /\ \A n \in PartNumbers : Beginning(n) \o Window(n) = Beginning(n + 1)
         /\ Beginning(Parts) = Source
<1> DEFINE p == PartSize
<1>1. p \in Nat \ {0} /\ Total \in Nat /\ Source \in Seq(Nat) /\ Len(Source) = Total
  BY CallTypeParts, SourceType
<1>2. Beginning(0) = << >>
  <2>1. Smaller(0 * p, Total) = 0
    BY <1>1 DEF Smaller
  <2>2. Beginning(0) = SubSeq(Source, 1, 0)
    BY <2>1 DEF Beginning
  <2> QED BY <2>2, SubSeqEmpty
<1>3. ASSUME NEW n \in PartNumbers PROVE Beginning(n) \o Window(n) = Beginning(n + 1)
  <2> DEFINE k == n * p
             last == Smaller(k + p, Total)
  <2>1. n \in Nat /\ k \in Nat /\ k < Total
    BY WindowType
  <2>2. (n + 1) * p = k + p
    BY <1>1, <2>1, NextMultiple
  <2>3. Beginning(n + 1) = SubSeq(Source, 1, last)
    BY <2>2 DEF Beginning
  <2>4. Window(n) = SubSeq(Source, k + 1, last)
    BY DEF Window
  <2> HIDE DEF k
  <2>5. Smaller(k, Total) = k /\ last \in k..Total
    BY <1>1, <2>1 DEF Smaller
  <2>6. Beginning(n) = SubSeq(Source, 1, k)
    BY <2>5 DEF Beginning, k
  <2> HIDE DEF last
  <2>7. k \in 0..Len(Source) /\ last \in k..Len(Source) /\ 1 \in 1..(Len(Source) + 1)
    BY <1>1, <2>1, <2>5
  <2>8. SubSeq(Source, 1, k) \o SubSeq(Source, k + 1, last) = SubSeq(Source, 1, last)
    BY <1>1, <2>7, ConcatAdjacentSubSeq
  <2> QED BY <2>3, <2>4, <2>6, <2>8
<1>4. Beginning(Parts) = Source
  <2>1. Parts = Ceiling(Total, p)
    BY DEF Parts
  <2> HIDE DEF p
  <2> DEFINE c == Ceiling(Total, p)
  <2>2. c \in Nat /\ Total <= c * p
    BY <1>1, CeilingBounds
  <2> HIDE DEF c
  <2>3. Parts \in Nat /\ Total <= Parts * p /\ Parts * p \in Nat
    BY <1>1, <2>1, <2>2, NextMultiple DEF c
  <2>4. Smaller(Parts * p, Total) = Total
    BY <1>1, <2>3 DEF Smaller
  <2>5. Beginning(Parts) = SubSeq(Source, 1, Total)
    BY <2>4 DEF Beginning, p
  <2> QED BY <1>1, <2>5, SubSeqFull
<1> QED BY <1>2, <1>3, <1>4

LEMMA InvOpen ==
  ASSUME UploadInv, Open
  PROVE  ReaderShape'
<1>1. /\ UNCHANGED <<atomic, prefix, base>> /\ size' = size /\ objects' = objects /\ deleted' = deleted
      /\ output' = << >> /\ next' = 0
  BY DEF Open, caller
<1>2. Frame
  BY <1>1 DEF Frame, PartSize
<1>3. CASE Exists(StateObject) /\ Parses(Content(StateObject))
  <2>1. /\ reader' = "reading" /\ opened' = objects[MarkerKey][3] /\ MarkerKey \in DOMAIN objects
        /\ Len(objects[MarkerKey]) = 3
    BY <1>3, ObjectKeys DEF Open, Exists, Content, Parses
  <2>2. CallType /\ StoreShape /\ MarkerLast
    BY DEF UploadInv
  <2>3. Holds(objects[MarkerKey], Marker)
    BY <2>1, <2>2 DEF StoreShape
  <2>4. Marker \in Seq(Nat) /\ Len(Marker) = 3 /\ Marker[3] = Parts /\ Parts \in Nat
    BY <2>2, MarkerType, CallTypeParts
  <2>5. objects[MarkerKey] = Marker
    BY <2>1, <2>3, <2>4, HoldsCut
  <2>6. opened' = Parts /\ size \in PartSizes /\ (~deleted => AllWhole)
    BY <2>1, <2>2, <2>4, <2>5 DEF StoreShape, MarkerLast
  <2>7. Parts' = Parts /\ Beginning(0)' = Beginning(0) /\ Beginning(0) = << >>
    BY <1>2, <2>2, FrameFacts, BeginningGrows
  <2>8. Beginning(next)' = << >>
    BY <1>1, <2>7 DEF Beginning
  <2>9. AllWhole' <=> AllWhole
    BY <1>1, <1>2, FrameFacts DEF AllWhole, Whole
  <2> QED BY <1>1, <2>1, <2>4, <2>6, <2>7, <2>8, <2>9 DEF ReaderShape
<1>4. CASE ~(Exists(StateObject) /\ Parses(Content(StateObject)))
  <2>1. reader' = "error" /\ opened' = 0
    BY <1>4 DEF Open
  <2> QED BY <1>1, <2>1 DEF ReaderShape
<1> QED BY <1>3, <1>4

LEMMA InvReadPart ==
  ASSUME UploadInv, ReadPart
  PROVE  ReaderShape'
<1>1. /\ UNCHANGED <<atomic, prefix, base>> /\ size' = size /\ objects' = objects /\ deleted' = deleted
      /\ opened' = opened /\ reader = "reading" /\ next < opened
  BY DEF ReadPart, caller
<1>2. Frame
  BY <1>1 DEF Frame, PartSize
<1>3. CallType /\ StoreShape /\ ReaderShape
  BY DEF UploadInv
<1>4. /\ opened = Parts /\ size \in PartSizes /\ (~deleted => AllWhole) /\ opened \in Nat /\ next \in 0..opened
      /\ (atomic \/ ~deleted => output = Beginning(next))
  BY <1>1, <1>3 DEF ReaderShape
<1>5. next \in PartNumbers /\ next + 1 \in 0..opened
  BY <1>1, <1>4 DEF PartNumbers
<1>6. AllWhole' <=> AllWhole
  BY <1>1, <1>2, FrameFacts DEF AllWhole, Whole
<1>7. Parts' = Parts
  BY <1>2, FrameFacts
<1>8. CASE Exists(PartObject(next))
  <2>1. /\ output' = output \o objects[Key(next)] /\ next' = next + 1 /\ reader' = "reading"
        /\ Key(next) \in DOMAIN objects
    BY <1>1, <1>8, ObjectKeys DEF ReadPart, Exists, Content
  <2>2. ASSUME atomic \/ ~deleted PROVE output' = Beginning(next)'
    <3>1. objects[Key(next)] = Window(next)
      <4>1. CASE ~deleted
        BY <1>4, <1>5, <4>1 DEF AllWhole, Whole
      <4>2. CASE atomic
        <5>1. Holds(objects[Key(next)], Window(next)) /\ Window(next) \in Seq(Nat)
          BY <1>3, <1>5, <2>1, WindowType DEF StoreShape
        <5> QED BY <4>2, <5>1, HoldsCut
      <4> QED BY <2>2, <4>1, <4>2
    <3>2. output' = Beginning(next + 1)
      BY <1>3, <1>4, <1>5, <2>1, <2>2, <3>1, BeginningGrows
    <3>3. Beginning(next)' = Beginning(next + 1)
      BY <1>2, <2>1 DEF Beginning, Frame
    <3> QED BY <3>2, <3>3
  <2> QED BY <1>1, <1>4, <1>5, <1>6, <1>7, <2>1, <2>2 DEF ReaderShape
<1>9. CASE ~Exists(PartObject(next))
  <2>1. reader' = "error" /\ next' = next
    BY <1>9 DEF ReadPart
  <2> QED BY <1>1, <1>4, <2>1 DEF ReaderShape
<1> QED BY <1>8, <1>9

LEMMA InvEndOfParts ==
  ASSUME UploadInv, EndOfParts
  PROVE  ReaderShape'
<1>1. /\ UNCHANGED <<atomic, prefix, base>> /\ size' = size /\ objects' = objects /\ deleted' = deleted
      /\ opened' = opened /\ next' = next /\ output' = output /\ reader = "reading" /\ reader' = "ok"
      /\ next = opened
  BY DEF EndOfParts, caller
<1>2. Frame
  BY <1>1 DEF Frame, PartSize
<1>3. AllWhole' <=> AllWhole
  BY <1>1, <1>2, FrameFacts DEF AllWhole, Whole
<1>4. Parts' = Parts /\ Beginning(next)' = Beginning(next)
  BY <1>1, <1>2, FrameFacts DEF Frame, Beginning
<1> QED BY <1>1, <1>3, <1>4 DEF UploadInv, ReaderShape

LEMMA InvReader ==
  ASSUME UploadInv, Open \/ ReadPart \/ EndOfParts \/ UNCHANGED vars
  PROVE  StoreShape' /\ UploadShape' /\ MarkerLast' /\ ReaderShape'
<1>1. /\ UNCHANGED <<atomic, prefix, base>> /\ size' = size /\ objects' = objects /\ deleted' = deleted
      /\ pc' = pc /\ index' = index
  BY DEF Open, ReadPart, EndOfParts, vars, caller
<1>2. Frame
  BY <1>1 DEF Frame, PartSize
<1>3. StoreShape' /\ \A n : Whole(n)' <=> Whole(n)
  BY <1>1, <1>2, StoreKept DEF UploadInv
<1>4. Parts' = Parts /\ MarkerKey' = MarkerKey /\ Marker' = Marker /\ Key(index)' = Key(index)
  BY <1>1, <1>2, FrameFacts
<1>5. UploadShape'
  BY <1>1, <1>3, <1>4 DEF UploadInv, UploadShape
<1>6. AllWhole' <=> AllWhole
  BY <1>2, <1>3, FrameFacts DEF AllWhole
<1>7. MarkerLast'
  BY <1>1, <1>4, <1>6 DEF UploadInv, MarkerLast
<1>8. ASSUME UNCHANGED vars PROVE ReaderShape'
  <2>1. UNCHANGED reading /\ ReaderShape
    BY <1>8 DEF vars, UploadInv
  <2> QED BY <1>1, <1>2, <1>6, <2>1, ReaderKept
<1> QED BY <1>3, <1>5, <1>7, <1>8, InvOpen, InvReadPart, InvEndOfParts

-----------------------------------------------------------------------------
(* The theorems *)

LEMMA UploadInvInit == Init => UploadInv
<1> SUFFICES ASSUME Init PROVE UploadInv
  OBVIOUS
<1>1. CallType /\ DOMAIN objects = {} /\ pc = "idle" /\ reader = "idle" /\ opened = 0 /\ next = 0
  BY CallTypeInit DEF Init
<1>2. StoreShape /\ UploadShape /\ MarkerLast
  BY <1>1 DEF StoreShape, UploadShape, MarkerLast
<1>3. ReaderShape
  BY <1>1 DEF ReaderShape
<1> QED BY <1>1, <1>2, <1>3 DEF UploadInv

LEMMA UploadInvNext == ASSUME OnePartSize PROVE UploadInv /\ [Next]_vars => UploadInv'
<1> SUFFICES ASSUME UploadInv, [Next]_vars PROVE UploadInv'
  OBVIOUS
<1>1. CallType'
  BY CallTypeNext DEF UploadInv
<1>2. StoreShape' /\ UploadShape' /\ MarkerLast' /\ ReaderShape'
  BY InvBeginUpload, InvSkipPart, InvPutPart, InvWritePart, InvPutMarker, InvWriteMarker, InvDelete,
     InvReader DEF Next
<1> QED BY <1>1, <1>2 DEF UploadInv

\* Types hold, and no object is longer than what it stands for
\* (upload_resumable, put_stream, read_resumable).
THEOREM TypeCorrect == ASSUME OnePartSize PROVE Spec => []TypeOK
<1>1. ASSUME UploadInv PROVE TypeOK
  <2>1. CallType /\ StoreShape /\ ReaderShape
    BY <1>1 DEF UploadInv
  <2>2. ASSUME NEW key \in DOMAIN objects
        PROVE  Len(objects[key]) <= IF Last(key) = MarkerName THEN 3 ELSE PartSize
    <3>1. MarkerName \in Nat /\ Total < MarkerName /\ Total \in Nat /\ Parts \in 0..Total
      BY <2>1, KeysOf, CallTypeParts DEF CallType
    <3>2. CASE key = MarkerKey
      <4>1. Last(key) = MarkerName
        BY <3>1, <3>2, KeyName DEF MarkerKey
      <4>2. Marker \in Seq(Nat) /\ Len(Marker) = 3 /\ Holds(objects[key], Marker)
        BY <2>1, <3>2, MarkerType DEF StoreShape
      <4> DEFINE length == Len(objects[key])
      <4>3. length \in 0..3
        BY <4>2, HoldsCut
      <4> HIDE DEF length
      <4>4. length <= 3
        BY <4>3
      <4> QED BY <4>1, <4>4 DEF length
    <3>3. CASE \E n \in PartNumbers : key = Key(n)
      <4>1. PICK n \in PartNumbers : key = Key(n)
        BY <3>3
      <4>2. n \in Nat /\ n # MarkerName
        BY <3>1 DEF PartNumbers
      <4>3. Last(key) # MarkerName
        BY <3>1, <4>1, <4>2, KeyName
      <4>4. /\ Window(n) \in Seq(Nat) /\ Len(Window(n)) \in Nat /\ Len(Window(n)) <= PartSize
            /\ Holds(objects[key], Window(n)) /\ PartSize \in Nat
        BY <2>1, <4>1, WindowType, CallTypeParts DEF StoreShape
      <4>5. Len(objects[key]) \in 0..Len(Window(n))
        BY <4>4, HoldsCut
      <4>6. Len(objects[key]) <= PartSize
        BY <4>4, <4>5
      <4> QED BY <4>3, <4>6
    <3> QED BY <2>1, <3>2, <3>3 DEF StoreShape
  <2> QED BY <2>1, <2>2 DEF TypeOK, CallType, ReaderShape
<1> QED BY <1>1, UploadInvInit, UploadInvNext, PTL DEF Spec

\* A read that ends without an error returned the whole source, unless a local
\* directory's parts were written again after a delete (read_resumable,
\* "open_resumable never observes a torn upload").
THEOREM ReadExactCorrect == ASSUME OnePartSize PROVE Spec => []ReadExact
<1>1. ASSUME UploadInv PROVE ReadExact
  <2>1. SUFFICES ASSUME reader = "ok", atomic \/ ~deleted PROVE output = Source
    BY DEF ReadExact
  <2>2. output = Beginning(next) /\ next = Parts /\ CallType
    BY <1>1, <2>1 DEF UploadInv, ReaderShape
  <2> QED BY <2>2, BeginningGrows
<1> QED BY <1>1, UploadInvInit, UploadInvNext, PTL DEF Spec

\* Whole parts, one after another, are the source.
LEMMA WholePartsAreSource ==
  ASSUME CallType, AllWhole
  PROVE  Reconstructed = Source
<1> DEFINE ss == [n \in 1..Parts |-> objects[Located(PartObject(n - 1))]]
           g == [n \in 1..Parts |-> Beginning(n)]
<1>1. Parts \in Nat
  BY CallTypeParts
<1>2. \A n \in 1..Parts : n - 1 \in PartNumbers /\ ss[n] = Window(n - 1)
  <2>1. \A n \in 1..Parts : n - 1 \in PartNumbers
    BY <1>1 DEF PartNumbers
  <2>2. \A n \in 1..Parts : ss[n] = objects[Key(n - 1)]
    BY ObjectKeys
  <2> QED BY <2>1, <2>2 DEF AllWhole, Whole
<1>3. Len(ss) = Parts
  BY <1>1
<1>4. Reconstructed = FlattenSeq(ss)
  BY DEF Reconstructed
<1>5. CASE Parts = 0
  <2>1. ss = << >>
    BY <1>1, <1>5
  <2>2. Reconstructed = << >>
    BY <1>4, <2>1, FlattenEmpty
  <2> QED BY <1>5, <2>2, BeginningGrows
<1>6. CASE Parts # 0
  <2>1. \A n \in 1..Parts : Beginning(n - 1) \o Window(n - 1) = Beginning(n)
    <3>1. ASSUME NEW n \in 1..Parts PROVE Beginning(n - 1) \o Window(n - 1) = Beginning(n)
      <4>1. (n - 1) + 1 = n
        BY <1>1
      <4> QED BY <1>2, <4>1, BeginningGrows
    <3> QED BY <3>1
  <2>2. Window(0) \in Seq(Nat) /\ 1 \in 1..Parts /\ 1 - 1 = 0
    <3>1. 0 \in PartNumbers
      BY <1>1, <1>6 DEF PartNumbers
    <3> QED BY <1>1, <1>6, <3>1, WindowType
  <2>3. Beginning(1) = Window(0)
    <3>1. Beginning(0) \o Window(0) = Beginning(1)
      BY <2>1, <2>2
    <3>2. Beginning(0) = << >>
      BY BeginningGrows
    <3> QED BY <2>2, <3>1, <3>2, ConcatEmptySeq
  <2> HIDE DEF ss
  <2>4. g[1] = ss[1]
    BY <1>2, <2>2, <2>3
  <2>5. \A i \in 2..Parts : g[i] = g[i - 1] \o ss[i]
    <3>1. ASSUME NEW i \in 2..Parts PROVE g[i] = g[i - 1] \o ss[i]
      <4>1. i \in 1..Parts /\ i - 1 \in 1..Parts
        BY <1>1
      <4> QED BY <1>2, <2>1, <4>1
    <3> QED BY <3>1
  <2>6. g = [n \in 1..Parts |-> g[n]] /\ g[Parts] = Beginning(Parts)
    BY <1>1, <1>6
  <2> HIDE DEF g
  <2>7. Accumulates(g, ss, Len(ss))
    BY <1>3, <2>4, <2>5, <2>6 DEF Accumulates
  <2>8. FlattenSeq(ss) = g[Len(ss)]
    BY <1>1, <1>3, <1>6, <2>7, FlattenAccumulates
  <2> QED BY <1>3, <1>4, <2>6, <2>8, BeginningGrows
<1> QED BY <1>5, <1>6

\* An upload that returns Ok has stored exactly the source, whatever earlier
\* uploads and deletes left behind (upload_resumable, "Safe to call repeatedly").
THEOREM UploadFaithfulCorrect == ASSUME OnePartSize PROVE Spec => []UploadFaithful
<1>1. ASSUME UploadInv PROVE UploadFaithful
  <2>1. SUFFICES ASSUME pc = "uploaded"
                 PROVE  /\ \A n \in 0..(Parts - 1) : Located(PartObject(n)) \in DOMAIN objects
                        /\ Reconstructed = Source
                        /\ objects[Located(StateObject)] = Marker
    BY DEF UploadFaithful
  <2>2. /\ CallType /\ index = Parts /\ objects[MarkerKey] = Marker
        /\ \A n \in 0..(index - 1) : Whole(n)
    BY <1>1, <2>1 DEF UploadInv, UploadShape
  <2>3. AllWhole
    BY <2>2 DEF AllWhole, PartNumbers
  <2>4. Reconstructed = Source
    BY <2>2, <2>3, WholePartsAreSource
  <2>5. \A n \in 0..(Parts - 1) : Located(PartObject(n)) \in DOMAIN objects
    BY <2>3, ObjectKeys DEF AllWhole, Whole, PartNumbers
  <2> QED BY <2>2, <2>4, <2>5, ObjectKeys
<1> QED BY <1>1, UploadInvInit, UploadInvNext, PTL DEF Spec
=============================================================================
