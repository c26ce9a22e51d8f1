-------------------------- MODULE MvccStream_proofs --------------------------
(***************************************************************************)
(* Proofs about what the stream says of transactions, for any keys,        *)
(* mutations, delete ranges and timestamps, any number of workers and any  *)
(* order of batches and flushes.                                           *)
(*                                                                         *)
(* Neither NoPhantomVersions nor ReadsAgree is inductive: both speak of    *)
(* the target's store, and what gets there is decided by what is on its    *)
(* way.  VInv therefore follows a committed version from the applied       *)
(* command through the stream and a worker's buffer into the write CF:     *)
(*   Faithful  nothing on its way or arrived says more than the source did;*)
(*   Complete  a committed version no delete range covers is on its way,   *)
(*             has arrived or was lost by a flush;                         *)
(*   Versions  commit timestamps are unique, so that an ingested record    *)
(*             hides only an older copy of itself.                         *)
(***************************************************************************)
EXTENDS MvccStream, NaturalsInduction, WellFoundedInduction, TLAPS

-----------------------------------------------------------------------------
(* Members of sequences.  Range(s) is the set of members of a sequence s.       *)

\* Members of a sequence, through its indices.
LEMMA InRange ==
    ASSUME NEW s, NEW x
    PROVE  x \in Range(s) <=> \E n \in DOMAIN s : s[n] = x
BY DEF Range

\* Appending adds one member.
LEMMA RangeOfAppend ==
    ASSUME NEW S, NEW s \in Seq(S), NEW e \in S
    PROVE  Range(Append(s, e)) = Range(s) \cup {e}
<1>1. /\ Len(s) \in Nat /\ DOMAIN s = 1..Len(s)
      /\ DOMAIN Append(s, e) = 1..(Len(s) + 1)
      /\ \A n \in 1..Len(s) : Append(s, e)[n] = s[n]
      /\ Append(s, e)[Len(s) + 1] = e
  OBVIOUS
<1>2. ASSUME NEW x \in Range(Append(s, e)) PROVE x \in Range(s) \cup {e}
  <2>1. PICK n \in 1..(Len(s) + 1) : Append(s, e)[n] = x
    <3>1. \E n \in DOMAIN Append(s, e) : x = Append(s, e)[n]
      BY Zenon, <1>2 DEF Range
    <3> QED
      BY <1>1, <3>1
  <2>2. n \in 1..Len(s) \/ n = Len(s) + 1
    BY <1>1
  <2> QED
    BY <1>1, <2>1, <2>2, InRange
<1>3. ASSUME NEW x \in Range(s) \cup {e} PROVE x \in Range(Append(s, e))
  <2>1. CASE x = e
    <3>1. Len(s) + 1 \in 1..(Len(s) + 1)
      BY <1>1
    <3> QED
      BY Zenon, <1>1, <2>1, <3>1, InRange
  <2>2. CASE x \in Range(s)
    <3>1. PICK n \in 1..Len(s) : s[n] = x
      BY <1>1, <2>2, InRange
    <3>2. n \in 1..(Len(s) + 1)
      BY <1>1
    <3> QED
      BY <1>1, <3>1, <3>2, InRange
  <2> QED
    BY <1>3, <2>1, <2>2
<1> QED
  BY <1>2, <1>3

\* Concatenation joins the members.
LEMMA RangeOfConcat ==
    ASSUME NEW S, NEW s \in Seq(S), NEW t \in Seq(S)
    PROVE  Range(s \o t) = Range(s) \cup Range(t)
<1>1. /\ Len(s) \in Nat /\ Len(t) \in Nat
      /\ DOMAIN s = 1..Len(s) /\ DOMAIN t = 1..Len(t)
      /\ DOMAIN (s \o t) = 1..(Len(s) + Len(t))
      /\ \A n \in 1..(Len(s) + Len(t)) :
             (s \o t)[n] = IF n <= Len(s) THEN s[n] ELSE t[n - Len(s)]
  OBVIOUS
<1>2. ASSUME NEW x \in Range(s \o t) PROVE x \in Range(s) \cup Range(t)
  <2>1. PICK n \in 1..(Len(s) + Len(t)) : (s \o t)[n] = x
    BY <1>1, <1>2, InRange
  <2>2. CASE n <= Len(s)
    <3>1. n \in 1..Len(s) /\ s[n] = x
      BY <1>1, <2>1, <2>2
    <3> QED
      BY <1>1, <3>1, InRange
  <2>3. CASE ~(n <= Len(s))
    <3>1. n - Len(s) \in 1..Len(t) /\ t[n - Len(s)] = x
      BY <1>1, <2>1, <2>3
    <3> QED
      BY <1>1, <3>1, InRange
  <2> QED
    BY <2>2, <2>3
<1>3. ASSUME NEW x \in Range(s) PROVE x \in Range(s \o t)
  <2>1. PICK n \in 1..Len(s) : s[n] = x
    BY <1>1, <1>3, InRange
  <2>2. n \in 1..(Len(s) + Len(t)) /\ (s \o t)[n] = x
    BY <1>1, <2>1
  <2> QED
    BY <1>1, <2>2, InRange
<1>4. ASSUME NEW x \in Range(t) PROVE x \in Range(s \o t)
  <2>1. PICK n \in 1..Len(t) : t[n] = x
    BY <1>1, <1>4, InRange
  <2>2. n + Len(s) \in 1..(Len(s) + Len(t)) /\ (s \o t)[n + Len(s)] = x
    BY <1>1, <2>1
  <2> QED
    BY <1>1, <2>2, InRange
<1> QED
  BY <1>2, <1>3, <1>4

\* The head and the tail hold all members.
LEMMA RangeOfHeadTail ==
    ASSUME NEW S, NEW s \in Seq(S), s # <<>>
    PROVE  Range(s) = {Head(s)} \cup Range(Tail(s))
<1>1. /\ Len(s) \in Nat \ {0} /\ Head(s) = s[1]
      /\ DOMAIN s = 1..Len(s) /\ DOMAIN Tail(s) = 1..(Len(s) - 1)
      /\ \A n \in 1..(Len(s) - 1) : Tail(s)[n] = s[n + 1]
  OBVIOUS
<1>2. ASSUME NEW x \in Range(s) PROVE x \in {Head(s)} \cup Range(Tail(s))
  <2>1. PICK n \in 1..Len(s) : s[n] = x
    BY <1>1, <1>2, InRange
  <2>2. CASE n = 1
    BY <1>1, <2>1, <2>2
  <2>3. CASE n # 1
    <3>1. n - 1 \in 1..(Len(s) - 1) /\ Tail(s)[n - 1] = x
      BY <1>1, <2>1, <2>3
    <3> QED
      BY <1>1, <3>1, InRange
  <2> QED
    BY <2>2, <2>3
<1>3. Head(s) \in Range(s)
  <2>1. 1 \in 1..Len(s)
    BY <1>1
  <2> QED
    BY <1>1, <2>1, InRange
<1>4. ASSUME NEW x \in Range(Tail(s)) PROVE x \in Range(s)
  <2>1. PICK n \in 1..(Len(s) - 1) : Tail(s)[n] = x
    <3>1. \E n \in DOMAIN Tail(s) : x = Tail(s)[n]
      BY Zenon, <1>4 DEF Range
    <3> QED
      BY <1>1, <3>1
  <2>2. n + 1 \in 1..Len(s) /\ s[n + 1] = x
    BY <1>1, <2>1
  <2> QED
    BY <1>1, <2>2, InRange
<1> QED
  BY <1>2, <1>3, <1>4

\* The empty sequence has no member.
LEMMA RangeOfEmpty == Range(<<>>) = {}
<1>1. \A x : x \notin Range(<<>>)
  BY InRange
<1> QED
  BY <1>1

\* A sequence of one member.
LEMMA RangeOfOne ==
    ASSUME NEW S, NEW a \in S
    PROVE  <<a>> \in Seq(S) /\ Range(<<a>>) = {a}
<1>1. <<a>> \in Seq(S) /\ DOMAIN <<a>> = {1} /\ <<a>>[1] = a
  OBVIOUS
<1> QED
  BY <1>1 DEF Range

\* A sequence of two members.
LEMMA RangeOfTwo ==
    ASSUME NEW S, NEW a \in S, NEW b \in S
    PROVE  <<a, b>> \in Seq(S) /\ Range(<<a, b>>) = {a, b}
<1>1. <<a, b>> \in Seq(S) /\ DOMAIN <<a, b>> = {1, 2} /\ <<a, b>>[1] = a /\ <<a, b>>[2] = b
  OBVIOUS
<1> QED
  BY <1>1 DEF Range

\* Cutting a sequence in two loses and invents nothing.
LEMMA SubSeqSplit ==
    ASSUME NEW S, NEW s \in Seq(S), NEW n \in DOMAIN s
    PROVE  /\ SubSeq(s, 1, n) \in Seq(S)
           /\ SubSeq(s, n + 1, Len(s)) \in Seq(S)
           /\ Range(s) = Range(SubSeq(s, 1, n)) \cup Range(SubSeq(s, n + 1, Len(s)))
<1> DEFINE a == SubSeq(s, 1, n)
           b == SubSeq(s, n + 1, Len(s))
<1>1. /\ Len(s) \in Nat /\ DOMAIN s = 1..Len(s) /\ n \in 1..Len(s)
      /\ \A i \in 1..Len(s) : s[i] \in S
  OBVIOUS
<1>2. /\ a \in Seq(S) /\ DOMAIN a = 1..n /\ \A i \in 1..n : a[i] = s[i]
  BY <1>1
<1>3. /\ b \in Seq(S) /\ DOMAIN b = 1..(Len(s) - n)
      /\ \A i \in 1..(Len(s) - n) : b[i] = s[n + i]
  BY <1>1
<1> HIDE DEF a, b
<1>4. ASSUME NEW x \in Range(s) PROVE x \in Range(a) \cup Range(b)
  <2>1. PICK i \in 1..Len(s) : s[i] = x
    BY <1>1, <1>4, InRange
  <2>2. CASE i <= n
    <3>1. i \in 1..n
      BY <1>1, <2>2
    <3> QED
      BY <1>2, <2>1, <3>1, InRange
  <2>3. CASE ~(i <= n)
    <3>1. i - n \in 1..(Len(s) - n) /\ n + (i - n) = i
      BY <1>1, <2>3
    <3> QED
      BY <1>3, <2>1, <3>1, InRange
  <2> QED
    BY <2>2, <2>3
<1>5. ASSUME NEW x \in Range(a) PROVE x \in Range(s)
  <2>1. PICK i \in 1..n : a[i] = x
    BY <1>2, <1>5, InRange
  <2>2. i \in 1..Len(s) /\ s[i] = x
    BY <1>1, <1>2, <2>1
  <2> QED
    BY <1>1, <2>2, InRange
<1>6. ASSUME NEW x \in Range(b) PROVE x \in Range(s)
  <2>1. PICK i \in 1..(Len(s) - n) : b[i] = x
    BY <1>3, <1>6, InRange
  <2>2. n + i \in 1..Len(s) /\ s[n + i] = x
    BY <1>1, <1>3, <2>1
  <2> QED
    BY <1>1, <2>2, InRange
<1>7. Range(s) = Range(a) \cup Range(b)
  BY <1>4, <1>5, <1>6
<1> QED
  BY <1>2, <1>3, <1>7 DEF a, b

-----------------------------------------------------------------------------
(* Flatten is a recursive function.  Its facts are proved by induction in the  *)
(* form the provers can use: a set of natural numbers that is closed under the *)
(* step has no least number outside it.                                        *)

\* Induction on the natural numbers, for the members of a set.
LEMMA SetInduction ==
    ASSUME NEW S, 0 \in S, \A n \in Nat : n \in S => n + 1 \in S
    PROVE  Nat \subseteq S
<1> DEFINE Less == {p \in Nat \X Nat : p[1] < p[2]}
           T == Nat \ S
<1>1. IsWellFoundedOn(Less, Nat)
  BY NatLessThanWellFounded DEF OpToRel
<1>2. \A x, y \in Nat : <<y, x>> \in Less <=> y < x
  OBVIOUS
<1> HIDE DEF Less
<1>3. CASE T # {}
  <2>1. \E x \in T : \A y \in T : ~(<<y, x>> \in Less)
    BY <1>1, <1>3, WFMin
  <2>2. PICK x \in T : \A y \in T : ~(<<y, x>> \in Less)
    BY <2>1
  <2>3. x \in Nat /\ x \notin S /\ x # 0
    BY <2>2
  <2>4. x - 1 \in Nat /\ x - 1 < x /\ (x - 1) + 1 = x
    BY <2>3
  <2>5. x - 1 \in S
    BY <1>2, <2>2, <2>3, <2>4
  <2> QED
    BY <2>3, <2>4, <2>5
<1> QED
  BY <1>3

\* What Flatten computes with: the concatenations of the first parts of s.
Partial(s, n, f) == f = [i \in 0..n |-> IF i = 0 THEN <<>> ELSE f[i - 1] \o s[i]]

\* The partial concatenations exist.
LEMMA PartialExists ==
    ASSUME NEW s, NEW n \in Nat
    PROVE  \E f : Partial(s, n, f)
<1> DEFINE S == {m \in Nat : \E f : Partial(s, m, f)}
<1>1. 0 \in S
  <2> DEFINE g == [i \in 0..0 |-> <<>>]
  <2>1. g = [i \in 0..0 |-> IF i = 0 THEN <<>> ELSE g[i - 1] \o s[i]]
    OBVIOUS
  <2>2. Partial(s, 0, g)
    BY <2>1 DEF Partial
  <2> QED
    BY <2>2
<1>2. ASSUME NEW m \in Nat, m \in S PROVE m + 1 \in S
  <2>1. PICK f : Partial(s, m, f)
    BY <1>2
  <2> DEFINE g == [i \in 0..(m + 1) |-> IF i \in 0..m THEN f[i] ELSE f[i - 1] \o s[i]]
  <2>2. ASSUME NEW i \in 0..(m + 1)
        PROVE  g[i] = IF i = 0 THEN <<>> ELSE g[i - 1] \o s[i]
    <3>1. CASE i \in 0..m
      <4>1. f[i] = IF i = 0 THEN <<>> ELSE f[i - 1] \o s[i]
        BY <2>1, <3>1 DEF Partial
      <4>2. i = 0 \/ (i - 1 \in 0..m /\ i - 1 \in 0..(m + 1))
        BY <3>1
      <4> QED
        BY <3>1, <4>1, <4>2
    <3>2. CASE i \notin 0..m
      <4>1. i = m + 1 /\ i # 0 /\ i - 1 \in 0..m /\ i - 1 \in 0..(m + 1)
        BY <3>2
      <4> QED
        BY <3>2, <4>1
    <3> QED
      BY <3>1, <3>2
  <2>3. g = [i \in 0..(m + 1) |-> g[i]]
    OBVIOUS
  <2> HIDE DEF g
  <2>4. Partial(s, m + 1, g)
    BY <2>2, <2>3 DEF Partial
  <2> QED
    BY <2>4
<1> HIDE DEF S
<1>3. Nat \subseteq S
  BY <1>1, <1>2, SetInduction
<1> QED
  BY <1>3 DEF S

\* The concatenations Flatten computes with.
LEMMA FlattenSteps ==
    ASSUME NEW s, Len(s) \in Nat
    PROVE  \E f : /\ Flatten(s) = f[Len(s)] /\ f[0] = <<>>
                  /\ \A m \in Nat : m + 1 <= Len(s) => f[m + 1] = f[m] \o s[m + 1]
<1> DEFINE f == CHOOSE g : Partial(s, Len(s), g)
<1>1. Flatten(s) = f[Len(s)]
  BY DEF Flatten, Partial
<1>2. Partial(s, Len(s), f)
  BY PartialExists
<1> HIDE DEF f
<1>3. \A i \in 0..Len(s) : f[i] = IF i = 0 THEN <<>> ELSE f[i - 1] \o s[i]
  BY <1>2 DEF Partial
<1>4. f[0] = <<>>
  BY <1>3
<1>5. ASSUME NEW m \in Nat, m + 1 <= Len(s) PROVE f[m + 1] = f[m] \o s[m + 1]
  <2>1. m + 1 \in 0..Len(s) /\ m + 1 # 0 /\ (m + 1) - 1 = m
    BY <1>5
  <2>2. f[m + 1] = f[(m + 1) - 1] \o s[m + 1]
    BY <1>3, <2>1
  <2> QED
    BY <2>1, <2>2
<1> QED
  BY <1>1, <1>4, <1>5

\* Flatten concatenates: a sequence over T, whose members are those of the parts.
LEMMA FlattenFacts ==
    ASSUME NEW T, NEW s \in Seq(Seq(T))
    PROVE  /\ Flatten(s) \in Seq(T)
           /\ \A x : x \in Range(Flatten(s)) <=> \E i \in DOMAIN s : x \in Range(s[i])
<1>1. Len(s) \in Nat /\ DOMAIN s = 1..Len(s) /\ \A i \in DOMAIN s : s[i] \in Seq(T)
  OBVIOUS
<1>2. PICK f : /\ Flatten(s) = f[Len(s)] /\ f[0] = <<>>
               /\ \A m \in Nat : m + 1 <= Len(s) => f[m + 1] = f[m] \o s[m + 1]
  BY <1>1, FlattenSteps
<1> DEFINE Good(m) == /\ f[m] \in Seq(T)
                      /\ \A x : x \in Range(f[m]) <=> \E i \in 1..m : x \in Range(s[i])
           G == {m \in Nat : m <= Len(s) => Good(m)}
<1>3. 0 \in G
  <2>1. \A i : i \notin 1..0
    OBVIOUS
  <2>2. <<>> \in Seq(T) /\ \A x : x \notin Range(<<>>)
    BY RangeOfEmpty
  <2> QED
    BY <1>2, <2>1, <2>2
<1>4. ASSUME NEW m \in Nat, m \in G PROVE m + 1 \in G
  <2> SUFFICES ASSUME m + 1 <= Len(s) PROVE Good(m + 1)
    OBVIOUS
  <2>1. m <= Len(s) /\ m + 1 \in DOMAIN s /\ 1..(m + 1) = 1..m \cup {m + 1}
    BY <1>1
  <2>2. f[m + 1] = f[m] \o s[m + 1] /\ Good(m)
    BY <1>2, <1>4, <2>1
  <2>3. f[m] \in Seq(T) /\ s[m + 1] \in Seq(T)
    BY <1>1, <2>1, <2>2
  <2>4. f[m] \o s[m + 1] \in Seq(T)
    BY <2>3
  <2>5. Range(f[m] \o s[m + 1]) = Range(f[m]) \cup Range(s[m + 1])
    BY <2>3, RangeOfConcat
  <2>6. \A x : (\E i \in 1..(m + 1) : x \in Range(s[i]))
                 <=> (\E i \in 1..m : x \in Range(s[i])) \/ x \in Range(s[m + 1])
    BY <2>1
  <2> QED
    BY <2>2, <2>4, <2>5, <2>6
<1>5. Len(s) \in G
  <2> HIDE DEF G
  <2>1. Nat \subseteq G
    BY <1>3, <1>4, SetInduction
  <2> QED
    BY <1>1, <2>1
<1>6. Good(Len(s))
  BY <1>1, <1>5
<1> QED
  BY <1>1, <1>2, <1>6

-----------------------------------------------------------------------------
(* The inductive invariant *)

DataKeys == {DataKey(k) : k \in Key}
Request == [type : {"put", "delete", "deleteRange"}, cf : Cf \cup {"lock"},
            put : Key \cup SourceEntry \cup SourceRecord \cup KeyRange]
Pair == [cf : Cf, pair : TargetEntry \cup TargetRecord]
PcrEvent == [kvs : Seq(Pair), keys : SUBSET (Key \cup DataKeys)]

\* What is on its way: requests the delegate has not seen, pairs in events, pairs
\* and keys of delete ranges in the hands of the workers.
Pending(req) == \E c \in Range(applied) : req \in Range(c)
Streamed(kv) == \E e \in Range(stream) : kv \in Range(e.kvs)
Buffered(kv) == \E w \in Worker : kv \in Range(kvBuf[w])
RangeKey(x) ==
    \/ \E e \in Range(stream) : x \in e.keys
    \/ \E w \in Worker : \E ks \in Range(rangeBuf[w]) : x \in ks

\* A default-CF entry that holds a value holds that of its own transaction.
OwnValue(e) == e.value.kind = "value" => e.value.ts = e.ts

Copy(q) == [q EXCEPT !.key = DataKey(q.key)]

\* The records of committed writes, among all ever put on the source.
Committed == {q \in everWritten : q.kind # "rollback"}

\* A request as the source's actions apply it.
Proper(req) ==
    \/ req.type = "put" /\ req.cf = "lock"
    \/ req.type = "put" /\ req.cf = "write" /\ req.put \in everWritten
    \/ req.type = "put" /\ req.cf = "default" /\ req.put \in SourceEntry /\ OwnValue(req.put)
    \/ req.type = "delete"
    \/ req.type = "deleteRange" /\ req.put \in KeyRange
       /\ \A k \in req.put.keys : Covered(k)

\* A pair that says no more than the source wrote.
Genuine(kv) ==
    \/ kv.cf = "write" /\ \E q \in Committed : kv.pair = Copy(q)
    \/ kv.cf = "default" /\ kv.pair \in TargetEntry /\ OwnValue(kv.pair)

SourceOK ==
    /\ tso \in Ts
    /\ lock \in [Key -> {NoLock} \cup [start : Ts, kind : Mutation]]
    /\ srcDefault \subseteq SourceEntry
    /\ srcWrite \subseteq everWritten
    /\ everWritten \subseteq SourceRecord
    /\ ranges \in Seq(KeyRange)
    /\ applied \in Seq(Seq(Request))

TargetOK ==
    /\ stream \in Seq(PcrEvent)
    /\ nextIdx \in Worker
    /\ kvBuf \in [Worker -> Seq(Pair)]
    /\ rangeBuf \in [Worker -> Seq(SUBSET (Key \cup DataKeys))]
    /\ \A e \in tgtDefault : e \in TargetEntry /\ OwnValue(e)

\* A committed version has its timestamp to itself, and only a delete range takes a
\* record away.
Versions ==
    /\ \A q \in Committed : q.ts <= tso
    /\ \A p, q \in Committed : p.ts = q.ts => p = q
    /\ \A q \in everWritten : q \in srcWrite \/ Covered(q.key)

\* Nothing on its way or arrived says more than the source did.
Faithful ==
    /\ \A req : Pending(req) => Proper(req)
    /\ \A kv : Streamed(kv) \/ Buffered(kv) => Genuine(kv)
    /\ \A r \in tgtWrite : \E q \in Committed : r = Copy(q)
    /\ \A k \in Key : RangeKey(DataKey(k)) => Covered(k)

\* Every committed version is on its way, has arrived or was lost by a flush.
Arrives(q) ==
    \/ Pending(PutWrite(q))
    \/ Streamed(CopyWrite(q))
    \/ Buffered(CopyWrite(q))
    \/ Copy(q) \in tgtWrite
    \/ Copy(q) \in lost

Complete == \A q \in Committed : ~Covered(q.key) => Arrives(q)

VInv == SourceOK /\ TargetOK /\ Versions /\ Faithful /\ Complete

-----------------------------------------------------------------------------
(* The operators *)

\* What a copied record is.
LEMMA CopyFacts ==
    ASSUME NEW q \in SourceRecord
    PROVE  /\ Copy(q).key = DataKey(q.key) /\ Copy(q).ts = q.ts
           /\ Copy(q).start = q.start /\ Copy(q).kind = q.kind
           /\ q.kind # "rollback" => Copy(q) \in TargetRecord
           /\ CopyWrite(q) = [cf |-> "write", pair |-> Copy(q)]
<1>1. /\ q.key \in Key /\ q.ts \in Ts /\ q.start \in Ts
      /\ q.kind \in Mutation \cup {"rollback"}
      /\ Copy(q) = [key |-> DataKey(q.key), ts |-> q.ts, start |-> q.start, kind |-> q.kind]
  BY DEF SourceRecord, Copy
<1>2. CopyWrite(q) = [cf |-> "write", pair |-> Copy(q)]
  BY Zenon DEF CopyWrite, Kv, Copy
<1> QED
  BY <1>1, <1>2 DEF TargetRecord

\* Data keys are distinct for distinct keys, and are not keys of the source.
LEMMA DataKeyFacts ==
    /\ \A j, k : DataKey(j) = DataKey(k) => j = k
    /\ \A k \in Key : DataKey(k) \notin Key
<1>1. \A j, k : DataKey(j) = DataKey(k) => j = k
  BY DEF DataKey
<1> QED
  BY <1>1, MvccAssumption

\* The timestamp the fallback reads still has two groups.
LEMMA MisreadRange ==
    ASSUME NEW ts \in Ts
    PROVE  Misread(ts) \in 0..(VarintBase * VarintBase - 1)
<1>1. /\ ts \in Nat /\ VarintBase \in Nat /\ VarintBase >= 2
      /\ ts < VarintBase * VarintBase
  <2>1. /\ ts \in Nat /\ MaxTs \in Nat /\ ts <= MaxTs
        /\ VarintBase \in Nat \ {0, 1} /\ MaxTs < VarintBase * VarintBase
    BY MvccAssumption DEF Ts
  <2>2. PICK bb \in Nat : bb = VarintBase * VarintBase
    BY <2>1
  <2> QED
    BY <2>1, <2>2
<1>2. CASE ts < VarintBase
  BY <1>1, <1>2 DEF Misread
<1>3. CASE ~(ts < VarintBase)
  <2> DEFINE q == ts \div VarintBase
             r == ts % VarintBase
  <2>1. /\ q \in Nat /\ r \in Nat /\ r <= VarintBase - 1
        /\ ts = VarintBase * q + r
    BY <1>1
  <2>2. Misread(ts) = r * VarintBase + q
    BY <1>3 DEF Misread
  <2> HIDE DEF q, r
  <2>3. q <= VarintBase - 1
    <3>1. CASE q >= VarintBase
      <4>1. VarintBase * q >= VarintBase * VarintBase
        BY <1>1, <2>1, <3>1
      <4> QED
        BY <1>1, <2>1, <4>1
    <3> QED
      BY <1>1, <2>1, <3>1
  <2>4. r * VarintBase <= (VarintBase - 1) * VarintBase
    BY <1>1, <2>1
  <2>5. (VarintBase - 1) * VarintBase = VarintBase * VarintBase - VarintBase
    BY <1>1
  <2>6. r * VarintBase \in Nat /\ VarintBase * VarintBase \in Nat
    BY <1>1, <2>1
  <2> QED
    BY <1>1, <2>1, <2>2, <2>3, <2>4, <2>5, <2>6
<1> QED
  BY <1>2, <1>3

\* The source never finds a data key, so a long value is sent as an empty one.
LEMMA LongValueIsEmpty ==
    ASSUME SourceOK, NEW r \in SourceRecord
    PROVE  LongValue(r) = Empty
<1>1. r.key \in Key /\ srcWrite \subseteq SourceRecord
  BY DEF SourceRecord, SourceOK
<1>2. DataKey(r.key) \notin Key
  BY <1>1, DataKeyFacts
<1>3. \A q \in srcWrite : q.key # DataKey(r.key)
  BY <1>1, <1>2 DEF SourceRecord
<1>4. NewestAt(srcWrite, DataKey(r.key), r.start) = {}
  BY <1>3 DEF NewestAt
<1>5. OldValue(DataKey(r.key), r.start) = {Absent}
  BY Zenon, <1>4 DEF OldValue, Read
<1> QED
  BY Zenon, <1>5 DEF LongValue

\* A default-CF copy is an entry of the target that holds its own value.
LEMMA CopyDefaultFacts ==
    ASSUME NEW r, r.key \in Key, NEW ts, ts \in 0..(VarintBase * VarintBase - 1),
           NEW value \in Value, value.kind = "value" => value.ts = ts
    PROVE  /\ CopyDefault(r, ts, value) \in Pair
           /\ CopyDefault(r, ts, value).cf = "default"
           /\ Genuine(CopyDefault(r, ts, value))
<1> DEFINE e == Entry(DataKey(r.key), ts, value)
<1>1. e \in TargetEntry /\ OwnValue(e)
  BY DEF Entry, TargetEntry, OwnValue
<1>2. CopyDefault(r, ts, value) = [cf |-> "default", pair |-> e]
  BY Zenon DEF CopyDefault, Kv
<1> HIDE DEF e
<1> QED
  BY <1>1, <1>2 DEF Pair, Cf, Genuine

\* Timestamps of the source fit the target's.
LEMMA TsFits ==
    ASSUME NEW ts \in Ts
    PROVE  ts \in 0..(VarintBase * VarintBase - 1)
<1>1. /\ ts \in Nat /\ MaxTs \in Nat /\ ts <= MaxTs
      /\ VarintBase \in Nat \ {0, 1} /\ MaxTs < VarintBase * VarintBase
  BY MvccAssumption DEF Ts
<1>2. PICK bb \in Nat : bb = VarintBase * VarintBase
  BY <1>1
<1> QED
  BY <1>1, <1>2

-----------------------------------------------------------------------------
(* The delegate *)

\* The pairs of a request are genuine, and a committed record is among them.
LEMMA SinkRequestFacts ==
    ASSUME SourceOK, NEW req \in Request, Proper(req)
    PROVE  /\ SinkRequest(req) \in Seq(Pair)
           /\ \A kv \in Range(SinkRequest(req)) : Genuine(kv)
           /\ req.type = "put" /\ req.cf = "write" /\ req.put \in Committed
              => CopyWrite(req.put) \in Range(SinkRequest(req))
<1>1. <<>> \in Seq(Pair) /\ Range(<<>>) = {}
  BY RangeOfEmpty
<1>2. CASE req.type # "put"
  BY <1>1, <1>2 DEF SinkRequest
<1>3. CASE req.type = "put" /\ req.cf = "lock"
  BY <1>1, <1>3 DEF SinkRequest, SinkPut
<1>4. CASE req.type = "put" /\ req.cf = "default"
  <2> DEFINE e == req.put
  <2>1. e \in SourceEntry /\ OwnValue(e)
    BY <1>4 DEF Proper
  <2>2. e.key \in Key /\ e.ts \in Ts /\ e.value \in Value
    BY <2>1 DEF SourceEntry
  <2>3. e.ts \in 0..(VarintBase * VarintBase - 1)
    BY <2>2, TsFits
  <2>4. CopyDefault(e, e.ts, e.value) \in Pair /\ Genuine(CopyDefault(e, e.ts, e.value))
    BY <2>1, <2>2, <2>3, CopyDefaultFacts DEF OwnValue
  <2>5. SinkRequest(req) = <<CopyDefault(e, e.ts, e.value)>>
    BY <1>4 DEF SinkRequest, SinkPut
  <2> QED
    BY <1>4, <2>4, <2>5, RangeOfOne
<1>5. CASE req.type = "put" /\ req.cf = "write"
  <2>1. PICK r : r = req.put
    OBVIOUS
  <2>2. r \in everWritten /\ r \in SourceRecord
    BY <1>5, <2>1 DEF Proper, SourceOK
  <2>3. SinkRequest(req) = SinkWrite(r)
    BY <1>5, <2>1 DEF SinkRequest, SinkPut
  <2>4. /\ r.key \in Key /\ r.start \in Ts
        /\ r.start \in 0..(VarintBase * VarintBase - 1)
        /\ Misread(r.start) \in 0..(VarintBase * VarintBase - 1)
    BY <2>2, TsFits, MisreadRange DEF SourceRecord
  <2>5. /\ WrittenBy(r.start) \in Value /\ WrittenBy(r.start).ts = r.start
        /\ Empty \in Value /\ Empty.kind # "value"
        /\ RecordBytes \in Value /\ RecordBytes.kind # "value"
    BY <2>4 DEF Value, WrittenBy, Empty, RecordBytes
  <2> DEFINE w == CopyWrite(r)
             short == CopyDefault(r, r.start, WrittenBy(r.start))
             empty == CopyDefault(r, r.start, Empty)
             misread == CopyDefault(r, Misread(r.start), RecordBytes)
  <2>6. short \in Pair /\ Genuine(short)
    BY <2>4, <2>5, CopyDefaultFacts
  <2>7. empty \in Pair /\ Genuine(empty)
    BY <2>4, <2>5, CopyDefaultFacts
  <2>8. misread \in Pair /\ Genuine(misread)
    BY <2>4, <2>5, CopyDefaultFacts
  <2>9. ASSUME r.kind # "rollback" PROVE w \in Pair /\ Genuine(w)
    <3>1. w = [cf |-> "write", pair |-> Copy(r)] /\ Copy(r) \in TargetRecord
      BY <2>2, <2>9, CopyFacts
    <3>2. r \in Committed
      BY <2>2, <2>9 DEF Committed
    <3> HIDE DEF w
    <3> QED
      BY <3>1, <3>2 DEF Pair, Cf, Genuine
  <2>10. LongValue(r) = Empty
    BY <2>2, LongValueIsEmpty
  <2>11. r.kind \in {"short", "long", "delete", "lock", "rollback"}
    BY <2>2, MvccAssumption DEF SourceRecord
  <2>12. /\ r.kind = "short" => SinkWrite(r) = <<short, w>>
         /\ r.kind = "long" => SinkWrite(r) = <<empty, w>>
         /\ r.kind = "delete" => SinkWrite(r) = <<empty, w>>
         /\ r.kind = "rollback" => SinkWrite(r) = <<>>
         /\ r.kind = "lock" => SinkWrite(r) = <<w, misread>>
    BY <2>10 DEF SinkWrite
  <2> HIDE DEF w, short, empty, misread
  <2>13. CASE r.kind = "rollback"
    BY <1>1, <2>1, <2>3, <2>12, <2>13 DEF Committed
  <2>14. CASE r.kind # "rollback"
    <3>1. w \in Pair /\ Genuine(w)
      BY <2>9, <2>14
    <3>2. \A a \in Pair : /\ <<a, w>> \in Seq(Pair) /\ Range(<<a, w>>) = {a, w}
                          /\ <<w, a>> \in Seq(Pair) /\ Range(<<w, a>>) = {w, a}
      BY <3>1, RangeOfTwo
    <3>3. /\ SinkWrite(r) \in Seq(Pair) /\ w \in Range(SinkWrite(r))
          /\ \A kv \in Range(SinkWrite(r)) : Genuine(kv)
      <4> DEFINE Fine(s) == /\ s \in Seq(Pair) /\ w \in Range(s)
                            /\ \A kv \in Range(s) : Genuine(kv)
      <4>1. \A a \in Pair : Genuine(a) => Fine(<<a, w>>) /\ Fine(<<w, a>>)
        BY <3>1, <3>2
      <4> HIDE DEF Fine
      <4>2. Fine(SinkWrite(r))
        BY Zenon, <2>6, <2>7, <2>8, <2>11, <2>12, <2>14, <4>1
      <4> QED
        BY <4>2 DEF Fine
    <3> QED
      BY <2>1, <2>3, <3>3 DEF w
  <2> QED
    BY <2>13, <2>14
<1> QED
  BY <1>2, <1>3, <1>4, <1>5 DEF Proper

\* The ranges of a request, as the two paths of the delegate send them.
LEMMA RangeFacts ==
    ASSUME SourceOK, NEW req \in Request, Proper(req)
    PROVE  /\ SinkRange(req) \in Seq(PcrEvent) /\ CollectRange(req) \in Seq(PcrEvent)
           /\ \A e \in Range(SinkRange(req)) : e.kvs = <<>> /\ e.keys \subseteq Key
           /\ \A e \in Range(CollectRange(req)) :
                  e.kvs = <<>> /\ \A k \in Key : DataKey(k) \in e.keys => Covered(k)
<1>1. <<>> \in Seq(PcrEvent) /\ Range(<<>>) = {}
  BY RangeOfEmpty
<1>2. CASE req.type # "deleteRange"
  BY <1>1, <1>2 DEF SinkRange, CollectRange
<1>3. CASE req.type = "deleteRange"
  <2>1. /\ req.put \in KeyRange /\ req.put.keys \subseteq Key
        /\ \A k \in req.put.keys : Covered(k)
    <3>1. req.put \in KeyRange /\ \A k \in req.put.keys : Covered(k)
      BY <1>3 DEF Proper
    <3> QED
      BY <3>1, MvccAssumption
  <2> DEFINE raw == RangeEvent(req.put.keys)
             mapped == RangeEvent({DataKey(k) : k \in req.put.keys})
  <2>2. raw \in PcrEvent /\ raw.kvs = <<>> /\ raw.keys = req.put.keys
    BY <2>1 DEF RangeEvent, PcrEvent
  <2>3. /\ mapped \in PcrEvent /\ mapped.kvs = <<>>
        /\ mapped.keys = {DataKey(k) : k \in req.put.keys}
    BY <2>1 DEF RangeEvent, PcrEvent, DataKeys
  <2>4. SinkRange(req) = <<raw>> \/ SinkRange(req) = <<>>
    BY DEF SinkRange
  <2>5. CollectRange(req) = <<mapped>>
    BY <1>3 DEF CollectRange
  <2> HIDE DEF raw, mapped
  <2>6. <<raw>> \in Seq(PcrEvent) /\ Range(<<raw>>) = {raw}
    BY <2>2, RangeOfOne
  <2>7. <<mapped>> \in Seq(PcrEvent) /\ Range(<<mapped>>) = {mapped}
    BY <2>3, RangeOfOne
  <2>8. \A k \in Key : DataKey(k) \in mapped.keys => Covered(k)
    BY <2>1, <2>3, DataKeyFacts
  <2>9. SinkRange(req) \in Seq(PcrEvent) /\ \A e \in Range(SinkRange(req)) : e = raw
    BY <1>1, <2>4, <2>6
  <2> QED
    BY <2>1, <2>2, <2>3, <2>5, <2>7, <2>8, <2>9
<1> QED
  BY <1>2, <1>3

\* The events of one command: genuine pairs, ranges of plain keys, and every pair
\* of every request.
LEMMA SinkDataFacts ==
    ASSUME SourceOK, NEW command \in Seq(Request),
           \A req \in Range(command) : Proper(req)
    PROVE  /\ SinkData(command) \in Seq(PcrEvent)
           /\ \A e \in Range(SinkData(command)) :
                  /\ \A kv \in Range(e.kvs) : Genuine(kv)
                  /\ e.keys \subseteq Key
           /\ \A req \in Range(command) : \A kv \in Range(SinkRequest(req)) :
                  \E e \in Range(SinkData(command)) : kv \in Range(e.kvs)
<1> DEFINE parts == [i \in DOMAIN command |-> SinkRequest(command[i])]
           found == [i \in DOMAIN command |-> SinkRange(command[i])]
           kvs == Flatten(parts)
           rest == IF kvs = <<>> THEN <<>> ELSE <<KvBatch(kvs)>>
<1>1. \A i \in DOMAIN command :
          /\ command[i] \in Request /\ command[i] \in Range(command)
          /\ Proper(command[i])
  BY InRange
<1>2. \A i \in DOMAIN command :
          /\ SinkRequest(command[i]) \in Seq(Pair)
          /\ \A kv \in Range(SinkRequest(command[i])) : Genuine(kv)
          /\ SinkRange(command[i]) \in Seq(PcrEvent)
          /\ \A e \in Range(SinkRange(command[i])) : e.kvs = <<>> /\ e.keys \subseteq Key
  BY <1>1, SinkRequestFacts, RangeFacts
<1>3. DOMAIN command = 1..Len(command) /\ Len(command) \in Nat
  OBVIOUS
<1>4. parts \in Seq(Seq(Pair)) /\ found \in Seq(Seq(PcrEvent))
  BY <1>2, <1>3
<1>5. /\ DOMAIN parts = DOMAIN command /\ DOMAIN found = DOMAIN command
      /\ \A i \in DOMAIN command : parts[i] = SinkRequest(command[i])
      /\ \A i \in DOMAIN command : found[i] = SinkRange(command[i])
  OBVIOUS
<1>6. SinkData(command) = Flatten(found) \o rest
  BY Zenon DEF SinkData
<1> HIDE DEF parts, found
<1>7. /\ kvs \in Seq(Pair)
      /\ \A x : x \in Range(kvs) <=> \E i \in DOMAIN parts : x \in Range(parts[i])
  BY <1>4, FlattenFacts
<1>8. /\ Flatten(found) \in Seq(PcrEvent)
      /\ \A x : x \in Range(Flatten(found)) <=> \E i \in DOMAIN found : x \in Range(found[i])
  BY <1>4, FlattenFacts
<1> HIDE DEF kvs
<1>9. /\ rest \in Seq(PcrEvent)
      /\ \A e \in Range(rest) : e.kvs = kvs /\ e.keys = {}
      /\ kvs # <<>> => \E e \in Range(rest) : e.kvs = kvs
  <2>1. CASE kvs = <<>>
    BY <2>1, RangeOfEmpty
  <2>2. CASE kvs # <<>>
    <3>1. KvBatch(kvs) \in PcrEvent /\ KvBatch(kvs).kvs = kvs /\ KvBatch(kvs).keys = {}
      BY <1>7 DEF KvBatch, PcrEvent
    <3>2. <<KvBatch(kvs)>> \in Seq(PcrEvent) /\ Range(<<KvBatch(kvs)>>) = {KvBatch(kvs)}
      BY <3>1, RangeOfOne
    <3> QED
      BY <2>2, <3>1, <3>2
  <2> QED
    BY <2>1, <2>2
<1> HIDE DEF rest
<1>10. /\ SinkData(command) \in Seq(PcrEvent)
       /\ Range(SinkData(command)) = Range(Flatten(found)) \cup Range(rest)
  BY <1>6, <1>8, <1>9, RangeOfConcat
<1>11. ASSUME NEW e \in Range(SinkData(command))
       PROVE  (\A kv \in Range(e.kvs) : Genuine(kv)) /\ e.keys \subseteq Key
  <2>1. CASE e \in Range(Flatten(found))
    BY <1>2, <1>5, <1>8, <2>1, RangeOfEmpty
  <2>2. CASE e \in Range(rest)
    BY <1>2, <1>5, <1>7, <1>9, <2>2
  <2> QED
    BY <1>10, <2>1, <2>2
<1>12. ASSUME NEW req \in Range(command), NEW kv \in Range(SinkRequest(req))
       PROVE  \E e \in Range(SinkData(command)) : kv \in Range(e.kvs)
  <2>1. PICK i \in DOMAIN command : command[i] = req
    BY <1>12, InRange
  <2>2. kv \in Range(kvs)
    BY <1>5, <1>7, <1>12, <2>1
  <2>3. kvs # <<>>
    BY <2>2, RangeOfEmpty
  <2> QED
    BY <1>9, <1>10, <2>2, <2>3
<1> QED
  BY <1>10, <1>11, <1>12

\* The ranges collected over a batch cover only keys that a command covers.
LEMMA DeleteRangesFacts ==
    ASSUME SourceOK, NEW batch \in Seq(Seq(Request)),
           \A c \in Range(batch) : \A req \in Range(c) : Proper(req)
    PROVE  /\ DeleteRanges(batch) \in Seq(PcrEvent)
           /\ \A e \in Range(DeleteRanges(batch)) :
                  e.kvs = <<>> /\ \A k \in Key : DataKey(k) \in e.keys => Covered(k)
<1> DEFINE requests == Flatten(batch)
           parts == [i \in DOMAIN requests |-> CollectRange(requests[i])]
<1>1. /\ requests \in Seq(Request)
      /\ \A x : x \in Range(requests) <=> \E i \in DOMAIN batch : x \in Range(batch[i])
  BY FlattenFacts
<1>2. DeleteRanges(batch) = Flatten(parts)
  BY Zenon DEF DeleteRanges
<1> HIDE DEF requests
<1>3. \A i \in DOMAIN batch : batch[i] \in Range(batch)
  BY InRange
<1>4. \A i \in DOMAIN requests :
          requests[i] \in Request /\ requests[i] \in Range(requests) /\ Proper(requests[i])
  <2>1. \A i \in DOMAIN requests : requests[i] \in Request /\ requests[i] \in Range(requests)
    BY <1>1, InRange
  <2>2. \A req \in Range(requests) : Proper(req)
    BY <1>1, <1>3
  <2> QED
    BY Zenon, <2>1, <2>2
<1>5. \A i \in DOMAIN requests :
          /\ CollectRange(requests[i]) \in Seq(PcrEvent)
          /\ \A e \in Range(CollectRange(requests[i])) :
                 e.kvs = <<>> /\ \A k \in Key : DataKey(k) \in e.keys => Covered(k)
  BY <1>4, RangeFacts
<1>6. /\ parts \in Seq(Seq(PcrEvent)) /\ DOMAIN parts = DOMAIN requests
      /\ \A i \in DOMAIN requests : parts[i] = CollectRange(requests[i])
  <2>1. DOMAIN requests = 1..Len(requests) /\ Len(requests) \in Nat
    BY <1>1
  <2> QED
    BY <1>5, <2>1
<1> HIDE DEF parts
<1>7. /\ Flatten(parts) \in Seq(PcrEvent)
      /\ \A x : x \in Range(Flatten(parts)) <=> \E i \in DOMAIN parts : x \in Range(parts[i])
  BY <1>6, FlattenFacts
<1> QED
  BY <1>2, <1>5, <1>6, <1>7

\* The events a batch adds to the stream.
LEMMA OnBatchFacts ==
    ASSUME SourceOK, NEW batch \in Seq(Seq(Request)),
           \A c \in Range(batch) : \A req \in Range(c) : Proper(req),
           stream \in Seq(PcrEvent),
           stream' = stream \o Flatten([i \in DOMAIN batch |-> SinkData(batch[i])])
                            \o DeleteRanges(batch)
    PROVE  /\ stream' \in Seq(PcrEvent)
           /\ Range(stream) \subseteq Range(stream')
           /\ \A e \in Range(stream') \ Range(stream) :
                  /\ \A kv \in Range(e.kvs) : Genuine(kv)
                  /\ \A k \in Key : DataKey(k) \in e.keys => Covered(k)
           /\ \A c \in Range(batch) : \A req \in Range(c) :
                  \A kv \in Range(SinkRequest(req)) :
                      \E e \in Range(stream') : kv \in Range(e.kvs)
<1> DEFINE parts == [i \in DOMAIN batch |-> SinkData(batch[i])]
           sunk == Flatten(parts)
           collected == DeleteRanges(batch)
<1>1. \A i \in DOMAIN batch : batch[i] \in Seq(Request) /\ batch[i] \in Range(batch)
  BY InRange
<1>2. \A i \in DOMAIN batch :
          /\ SinkData(batch[i]) \in Seq(PcrEvent)
          /\ \A e \in Range(SinkData(batch[i])) :
                 /\ \A kv \in Range(e.kvs) : Genuine(kv)
                 /\ e.keys \subseteq Key
          /\ \A req \in Range(batch[i]) : \A kv \in Range(SinkRequest(req)) :
                 \E e \in Range(SinkData(batch[i])) : kv \in Range(e.kvs)
  BY <1>1, SinkDataFacts
<1>3. /\ parts \in Seq(Seq(PcrEvent)) /\ DOMAIN parts = DOMAIN batch
      /\ \A i \in DOMAIN batch : parts[i] = SinkData(batch[i])
  <2>1. DOMAIN batch = 1..Len(batch) /\ Len(batch) \in Nat
    OBVIOUS
  <2> QED
    BY <1>2, <2>1
<1>4. stream' = (stream \o sunk) \o collected
  OBVIOUS
<1>5. /\ collected \in Seq(PcrEvent)
      /\ \A e \in Range(collected) :
             e.kvs = <<>> /\ \A k \in Key : DataKey(k) \in e.keys => Covered(k)
  BY DeleteRangesFacts
<1> HIDE DEF parts, collected
<1>6. /\ sunk \in Seq(PcrEvent)
      /\ \A x : x \in Range(sunk) <=> \E i \in DOMAIN parts : x \in Range(parts[i])
  BY <1>3, FlattenFacts
<1> HIDE DEF sunk
<1>7. /\ stream \o sunk \in Seq(PcrEvent)
      /\ Range(stream \o sunk) = Range(stream) \cup Range(sunk)
  BY <1>6, RangeOfConcat
<1>8. /\ stream' \in Seq(PcrEvent)
      /\ Range(stream') = Range(stream) \cup Range(sunk) \cup Range(collected)
  <2> DEFINE front == stream \o sunk
  <2>1. front \in Seq(PcrEvent) /\ Range(front) = Range(stream) \cup Range(sunk)
    BY <1>7
  <2>2. stream' = front \o collected
    BY <1>4
  <2> HIDE DEF front
  <2>3. \A s, t \in Seq(PcrEvent) : /\ s \o t \in Seq(PcrEvent)
                                    /\ Range(s \o t) = Range(s) \cup Range(t)
    BY RangeOfConcat
  <2>4. collected \in Seq(PcrEvent)
    BY <1>5
  <2>5. /\ front \o collected \in Seq(PcrEvent)
        /\ Range(front \o collected) = Range(front) \cup Range(collected)
    BY Zenon, <2>1, <2>3, <2>4
  <2> QED
    BY <2>1, <2>2, <2>5
<1>9. ASSUME NEW e \in Range(stream') \ Range(stream)
      PROVE  /\ \A kv \in Range(e.kvs) : Genuine(kv)
             /\ \A k \in Key : DataKey(k) \in e.keys => Covered(k)
  <2>1. CASE e \in Range(sunk)
    <3>1. (\A kv \in Range(e.kvs) : Genuine(kv)) /\ e.keys \subseteq Key
      BY <1>2, <1>3, <1>6, <2>1
    <3> QED
      BY <3>1, DataKeyFacts
  <2>2. CASE e \in Range(collected)
    BY <1>5, <2>2, RangeOfEmpty
  <2> QED
    BY <1>8, <2>1, <2>2
<1>10. ASSUME NEW c \in Range(batch), NEW req \in Range(c), NEW kv \in Range(SinkRequest(req))
       PROVE  \E e \in Range(stream') : kv \in Range(e.kvs)
  <2>1. PICK i \in DOMAIN batch : batch[i] = c
    BY <1>10, InRange
  <2>2. PICK e \in Range(SinkData(batch[i])) : kv \in Range(e.kvs)
    BY <1>2, <1>10, <2>1
  <2>3. e \in Range(sunk)
    BY <1>3, <1>6, <2>2
  <2> QED
    BY <1>8, <2>2, <2>3
<1> QED
  BY <1>8, <1>9, <1>10

-----------------------------------------------------------------------------
(* The source *)

\* A step of the source adds one proper command, takes nothing back from what it
\* wrote, and names every newly committed record in the command.
LEMMA SourceKeeps ==
    ASSUME VInv, NEW command \in Seq(Request), applied' = Append(applied, command),
           SourceOK', Versions',
           everWritten \subseteq everWritten',
           \A k : Covered(k) => Covered(k)',
           \A req \in Range(command) : Proper(req)',
           \A q \in Committed' : q \in Committed \/ PutWrite(q) \in Range(command),
           UNCHANGED <<stream, nextIdx, targetVars>>
    PROVE  VInv'
<1>1. SourceOK /\ TargetOK /\ Versions /\ Faithful /\ Complete
  BY DEF VInv
<1>2. UNCHANGED <<stream, nextIdx, kvBuf, rangeBuf, tgtDefault, tgtWrite, lost>>
  BY DEF targetVars
<1>3. Range(applied') = Range(applied) \cup {command}
  <2>1. \A s \in Seq(Seq(Request)), e \in Seq(Request) :
            Range(Append(s, e)) = Range(s) \cup {e}
    BY RangeOfAppend
  <2> QED
    BY Zenon, <1>1, <2>1 DEF SourceOK
<1>4. Committed \subseteq Committed'
  BY DEF Committed
<1>5. \A req : Proper(req) => Proper(req)'
  BY DEF Proper
<1>6. \A kv : Genuine(kv) => Genuine(kv)'
  BY <1>4 DEF Genuine
<1>7. /\ \A req : Pending(req) => Pending(req)'
      /\ \A req \in Range(command) : Pending(req)'
  BY <1>3 DEF Pending
<1>8. /\ \A kv : Streamed(kv)' <=> Streamed(kv)
      /\ \A kv : Buffered(kv)' <=> Buffered(kv)
      /\ \A x : RangeKey(x)' <=> RangeKey(x)
  BY Zenon, <1>2 DEF Streamed, Buffered, RangeKey
<1>9. TargetOK'
  BY <1>1, <1>2 DEF TargetOK
<1>10. \A req : Pending(req)' => Pending(req) \/ req \in Range(command)
  BY <1>3 DEF Pending
<1>11. Faithful'
  <2>1. \A req : Pending(req)' => Proper(req)'
    BY <1>1, <1>5, <1>10 DEF Faithful
  <2>2. \A kv : Streamed(kv)' \/ Buffered(kv)' => Genuine(kv)'
    BY <1>1, <1>6, <1>8 DEF Faithful
  <2>3. \A r \in tgtWrite' : \E q \in Committed' : r = Copy(q)
    BY <1>1, <1>2, <1>4 DEF Faithful
  <2>4. \A k \in Key : RangeKey(DataKey(k))' => Covered(k)'
    BY <1>1, <1>8 DEF Faithful
  <2> QED
    BY <2>1, <2>2, <2>3, <2>4 DEF Faithful
<1>12. ASSUME NEW q \in Committed', ~Covered(q.key)'
       PROVE  Arrives(q)'
  <2>1. CASE PutWrite(q) \in Range(command)
    BY <1>7, <2>1 DEF Arrives
  <2>2. CASE q \in Committed
    <3>1. Arrives(q)
      BY <1>1, <1>12, <2>2 DEF Complete
    <3> QED
      BY <1>2, <1>7, <1>8, <3>1 DEF Arrives
  <2> QED
    BY <2>1, <2>2
<1>13. Complete'
  BY <1>12 DEF Complete
<1> QED
  BY <1>9, <1>11, <1>13 DEF VInv

\* The requests of the source.
LEMMA RequestTypes ==
    /\ \A e \in SourceEntry : PutDefault(e) \in Request
    /\ \A k \in Key : PutLock(k) \in Request
    /\ \A r \in SourceRecord : PutWrite(r) \in Request
    /\ \A k \in Key : Delete("default", k) \in Request /\ Delete("lock", k) \in Request
    /\ \A r \in KeyRange : DeleteRange(r) \in Request
<1>1. \A r \in KeyRange : r.cf \in Cf
  BY MvccAssumption
<1> QED
  BY <1>1 DEF PutDefault, PutLock, PutWrite, Delete, DeleteRange, Request, Cf

\* The default-CF puts of a transaction hold its own value.
LEMMA ValuesFacts ==
    ASSUME NEW k \in Key, NEW start \in Ts, NEW kind
    PROVE  /\ Range(Values(k, start, kind)) \subseteq SourceEntry
           /\ PutDefaults(Values(k, start, kind)) \in Seq(Request)
           /\ \A req \in Range(PutDefaults(Values(k, start, kind))) :
                  /\ req.type = "put" /\ req.cf = "default"
                  /\ req.put \in SourceEntry /\ OwnValue(req.put)
<1>1. CASE kind # "long"
  <2>1. Values(k, start, kind) = <<>>
    BY <1>1 DEF Values
  <2>2. PutDefaults(<<>>) = <<>>
    BY DEF PutDefaults
  <2>3. Range(<<>>) = {} /\ <<>> \in Seq(Request)
    BY RangeOfEmpty
  <2> QED
    BY Zenon, <2>1, <2>2, <2>3
<1>2. CASE kind = "long"
  <2> DEFINE e == Entry(k, start, WrittenBy(start))
  <2>1. Values(k, start, kind) = <<e>>
    BY <1>2 DEF Values
  <2>2. e \in SourceEntry /\ OwnValue(e)
    BY DEF Entry, WrittenBy, Value, SourceEntry, OwnValue
  <2> HIDE DEF e
  <2>3. PutDefaults(<<e>>) = <<PutDefault(e)>>
    BY DEF PutDefaults
  <2>4. Range(<<e>>) = {e}
    BY <2>2, RangeOfOne
  <2>5. <<PutDefault(e)>> \in Seq(Request) /\ Range(<<PutDefault(e)>>) = {PutDefault(e)}
    BY <2>2, RequestTypes, RangeOfOne
  <2>6. PutDefault(e).type = "put" /\ PutDefault(e).cf = "default" /\ PutDefault(e).put = e
    BY DEF PutDefault
  <2> QED
    BY <2>1, <2>2, <2>3, <2>4, <2>5, <2>6
<1> QED
  BY <1>1, <1>2

\* A commit timestamp is above all earlier ones.
LEMMA NewCommit ==
    ASSUME SourceOK, Versions, NEW record \in SourceRecord, record.kind # "rollback",
           tso < record.ts, tso' = record.ts, tso' \in Ts,
           srcWrite' = srcWrite \cup {record},
           everWritten' = everWritten \cup {record}, ranges' = ranges
    PROVE  Versions' /\ Committed' = Committed \cup {record}
<1>1. Committed' = Committed \cup {record}
  BY DEF Committed
<1>2. /\ tso \in Nat /\ tso' \in Nat
      /\ \A q \in Committed : q.ts \in Nat /\ q.ts <= tso
  BY DEF SourceOK, Versions, Committed, SourceRecord, Ts
<1>3. \A q \in Committed' : q.ts <= tso'
  BY <1>1, <1>2
<1>4. \A p, q \in Committed' : p.ts = q.ts => p = q
  <2>1. \A q \in Committed : q.ts # record.ts
    BY <1>2
  <2> QED
    BY <1>1, <2>1 DEF Versions
<1>5. \A q \in everWritten' : q \in srcWrite' \/ Covered(q.key)'
  <2>1. \A k : Covered(k)' <=> Covered(k)
    BY Zenon DEF Covered
  <2> QED
    BY <2>1 DEF Versions
<1> QED
  BY <1>1, <1>3, <1>4, <1>5 DEF Versions

\* A command goes to the end of what is applied.
LEMMA AppliedType ==
    ASSUME SourceOK, NEW command \in Seq(Request), applied' = Append(applied, command)
    PROVE  applied' \in Seq(Seq(Request))
BY DEF SourceOK

\* A prewrite: the value and the lock in one command.
LEMMA PrewriteKeeps ==
    ASSUME VInv, NEW k \in Key, NEW kind \in Mutation, Prewrite(k, kind)
    PROVE  VInv'
<1> DEFINE values == Values(k, tso + 1, kind)
           puts == PutDefaults(values)
           command == puts \o <<PutLock(k)>>
<1>1. SourceOK /\ Versions
  BY DEF VInv
<1>2. /\ tso < MaxTs /\ tso' = tso + 1 /\ applied' = Append(applied, command)
      /\ lock' = [lock EXCEPT ![k] = [start |-> tso + 1, kind |-> kind]]
      /\ srcDefault' = srcDefault \cup Range(values)
      /\ UNCHANGED <<srcWrite, everWritten, ranges, stream, nextIdx, targetVars>>
  BY DEF Prewrite, Apply
<1>3. tso \in Nat /\ tso + 1 \in Ts
  BY <1>1, <1>2, MvccAssumption DEF SourceOK, Ts
<1>4. /\ Range(values) \subseteq SourceEntry /\ puts \in Seq(Request)
      /\ \A req \in Range(puts) : /\ req.type = "put" /\ req.cf = "default"
                                  /\ req.put \in SourceEntry /\ OwnValue(req.put)
  BY <1>3, ValuesFacts
<1> HIDE DEF values, puts
<1>5. /\ <<PutLock(k)>> \in Seq(Request) /\ Range(<<PutLock(k)>>) = {PutLock(k)}
      /\ PutLock(k).type = "put" /\ PutLock(k).cf = "lock"
  <2>1. PutLock(k) \in Request
    BY RequestTypes
  <2> QED
    BY <2>1, RangeOfOne DEF PutLock
<1>6. /\ command \in Seq(Request)
      /\ Range(command) = Range(puts) \cup {PutLock(k)}
  <2>1. \A s, t \in Seq(Request) :
            s \o t \in Seq(Request) /\ Range(s \o t) = Range(s) \cup Range(t)
    BY RangeOfConcat
  <2> QED
    BY Zenon, <1>4, <1>5, <2>1
<1> HIDE DEF command
<1>7. \A req \in Range(command) : Proper(req)'
  BY <1>4, <1>5, <1>6 DEF Proper
<1>8. SourceOK'
  <2>1. lock' \in [Key -> {NoLock} \cup [start : Ts, kind : Mutation]]
    BY <1>1, <1>2, <1>3 DEF SourceOK
  <2>2. applied' \in Seq(Seq(Request))
    BY <1>1, <1>2, <1>6, AppliedType
  <2> QED
    BY <1>1, <1>2, <1>3, <1>4, <2>1, <2>2 DEF SourceOK
<1>9. /\ Committed' = Committed /\ \A j : Covered(j)' <=> Covered(j)
  BY Zenon, <1>2 DEF Committed, Covered
<1>10. Versions'
  <2>1. \A q \in Committed : q.ts \in Nat /\ q.ts <= tso
    BY <1>1 DEF SourceOK, Versions, Committed, SourceRecord, Ts
  <2>2. \A q \in Committed' : q.ts <= tso'
    BY <1>2, <1>3, <1>9, <2>1
  <2> QED
    BY <1>1, <1>2, <1>9, <2>2 DEF Versions
<1> QED
  BY <1>2, <1>6, <1>7, <1>8, <1>9, <1>10, SourceKeeps

\* A commit: the record gets a timestamp of its own and a request that carries it.
LEMMA CommitKeyKeeps ==
    ASSUME VInv, NEW k \in Key, CommitKey(k)
    PROVE  VInv'
<1>1. PICK record : record = WriteRecord(k, tso + 1, lock[k].start, lock[k].kind)
  OBVIOUS
<1> DEFINE command == <<PutWrite(record), Delete("lock", k)>>
<1>2. SourceOK /\ Versions
  BY DEF VInv
<1>3. /\ tso < MaxTs /\ lock[k] # NoLock /\ tso' = tso + 1
      /\ applied' = Append(applied, command)
      /\ lock' = [lock EXCEPT ![k] = NoLock]
      /\ srcWrite' = srcWrite \cup {record}
      /\ everWritten' = everWritten \cup {record}
      /\ UNCHANGED <<srcDefault, ranges, stream, nextIdx, targetVars>>
  BY <1>1 DEF CommitKey, Apply
<1>4. tso \in Nat /\ tso + 1 \in Ts /\ tso < tso + 1
  BY <1>2, <1>3, MvccAssumption DEF SourceOK, Ts
<1>5. lock[k] \in [start : Ts, kind : Mutation]
  BY <1>2, <1>3 DEF SourceOK
<1>6. /\ record \in SourceRecord /\ record.kind # "rollback" /\ record.ts = tso + 1
  <2>1. lock[k].start \in Ts /\ lock[k].kind \in Mutation /\ lock[k].kind # "rollback"
    BY <1>5, MvccAssumption
  <2> QED
    BY <1>1, <1>4, <2>1 DEF WriteRecord, SourceRecord
<1>7. /\ PutWrite(record) \in Request /\ Delete("lock", k) \in Request
      /\ PutWrite(record).type = "put" /\ PutWrite(record).cf = "write"
      /\ PutWrite(record).put = record /\ Delete("lock", k).type = "delete"
  <2>1. PutWrite(record) \in Request /\ Delete("lock", k) \in Request
    BY <1>6, RequestTypes
  <2> QED
    BY <2>1 DEF PutWrite, Delete
<1>8. command \in Seq(Request) /\ Range(command) = {PutWrite(record), Delete("lock", k)}
  BY <1>7, RangeOfTwo
<1> HIDE DEF command
<1>9. \A req \in Range(command) : Proper(req)'
  BY <1>3, <1>7, <1>8 DEF Proper
<1>10. Versions' /\ Committed' = Committed \cup {record}
  BY <1>2, <1>3, <1>4, <1>6, NewCommit
<1>11. SourceOK'
  <2>1. lock' \in [Key -> {NoLock} \cup [start : Ts, kind : Mutation]]
    BY <1>2, <1>3 DEF SourceOK
  <2>2. applied' \in Seq(Seq(Request))
    BY <1>2, <1>3, <1>8, AppliedType
  <2> QED
    BY <1>2, <1>3, <1>4, <1>6, <2>1, <2>2 DEF SourceOK
<1>12. \A j : Covered(j)' <=> Covered(j)
  BY Zenon, <1>3 DEF Covered
<1>13. \A q \in Committed' : q \in Committed \/ PutWrite(q) \in Range(command)
  BY <1>8, <1>10
<1>14. everWritten \subseteq everWritten'
  BY <1>3
<1> QED
  BY <1>3, <1>8, <1>9, <1>10, <1>11, <1>12, <1>13, <1>14, SourceKeeps

\* A rollback commits nothing.
LEMMA RollbackKeyKeeps ==
    ASSUME VInv, NEW k \in Key, RollbackKey(k)
    PROVE  VInv'
<1>1. PICK start, record, entries :
          /\ start = lock[k].start /\ record = WriteRecord(k, start, start, "rollback")
          /\ entries = {e \in srcDefault : e.key = k /\ e.ts = start}
  OBVIOUS
<1> DEFINE front == IF entries = {} THEN <<>> ELSE <<Delete("default", k)>>
           back == <<PutWrite(record), Delete("lock", k)>>
           command == front \o back
<1>2. SourceOK /\ Versions
  BY DEF VInv
<1>3. /\ lock[k] # NoLock /\ tso' = tso
      /\ applied' = Append(applied, command)
      /\ lock' = [lock EXCEPT ![k] = NoLock]
      /\ srcDefault' = srcDefault \ entries
      /\ srcWrite' = srcWrite \cup {record}
      /\ everWritten' = everWritten \cup {record}
      /\ UNCHANGED <<ranges, stream, nextIdx, targetVars>>
  BY <1>1 DEF RollbackKey, Apply
<1>4. lock[k] \in [start : Ts, kind : Mutation]
  BY <1>2, <1>3 DEF SourceOK
<1>5. record \in SourceRecord /\ record.kind = "rollback"
  BY <1>1, <1>4 DEF WriteRecord, SourceRecord
<1>6. /\ PutWrite(record) \in Request /\ Delete("lock", k) \in Request
      /\ Delete("default", k) \in Request
      /\ PutWrite(record).type = "put" /\ PutWrite(record).cf = "write"
      /\ PutWrite(record).put = record
      /\ Delete("lock", k).type = "delete" /\ Delete("default", k).type = "delete"
  <2>1. /\ PutWrite(record) \in Request /\ Delete("lock", k) \in Request
        /\ Delete("default", k) \in Request
    BY <1>5, RequestTypes
  <2> QED
    BY <2>1 DEF PutWrite, Delete
<1>7. front \in Seq(Request) /\ \A req \in Range(front) : req = Delete("default", k)
  <2>1. <<>> \in Seq(Request) /\ Range(<<>>) = {}
    BY RangeOfEmpty
  <2>2. /\ <<Delete("default", k)>> \in Seq(Request)
        /\ Range(<<Delete("default", k)>>) = {Delete("default", k)}
    BY <1>6, RangeOfOne
  <2> QED
    BY <2>1, <2>2
<1>8. back \in Seq(Request) /\ Range(back) = {PutWrite(record), Delete("lock", k)}
  BY <1>6, RangeOfTwo
<1> HIDE DEF front, back
<1>9. command \in Seq(Request) /\ Range(command) = Range(front) \cup Range(back)
  <2>1. \A s, t \in Seq(Request) :
            s \o t \in Seq(Request) /\ Range(s \o t) = Range(s) \cup Range(t)
    BY RangeOfConcat
  <2> QED
    BY Zenon, <1>7, <1>8, <2>1
<1> HIDE DEF command
<1>10. \A req \in Range(command) : Proper(req)'
  <2>1. Proper(PutWrite(record))' /\ Proper(Delete("lock", k))' /\ Proper(Delete("default", k))'
    BY <1>3, <1>6 DEF Proper
  <2> QED
    BY <1>7, <1>8, <1>9, <2>1
<1>11. Committed' = Committed
  BY <1>3, <1>5 DEF Committed
<1>12. \A j : Covered(j)' <=> Covered(j)
  BY Zenon, <1>3 DEF Covered
<1>13. Versions'
  <2>1. \A q \in everWritten' : q \in srcWrite' \/ Covered(q.key)'
    BY <1>2, <1>3, <1>12 DEF Versions
  <2> QED
    BY <1>2, <1>3, <1>11, <2>1 DEF Versions
<1>14. SourceOK'
  <2>1. lock' \in [Key -> {NoLock} \cup [start : Ts, kind : Mutation]]
    BY <1>2, <1>3 DEF SourceOK
  <2>2. applied' \in Seq(Seq(Request))
    BY <1>2, <1>3, <1>9, AppliedType
  <2> QED
    BY <1>2, <1>3, <1>5, <2>1, <2>2 DEF SourceOK
<1>15. everWritten \subseteq everWritten'
  BY <1>3
<1> QED
  BY <1>3, <1>9, <1>10, <1>11, <1>12, <1>13, <1>14, <1>15, SourceKeeps

\* A one-phase commit: the value and the record in one command.
LEMMA OnePcKeeps ==
    ASSUME VInv, NEW k \in Key, NEW kind \in Mutation, OnePc(k, kind)
    PROVE  VInv'
<1>1. PICK start, record :
          start = tso + 1 /\ record = WriteRecord(k, tso + 2, start, kind)
  OBVIOUS
<1> DEFINE values == Values(k, start, kind)
           puts == PutDefaults(values)
           command == puts \o <<PutWrite(record)>>
<1>2. SourceOK /\ Versions
  BY DEF VInv
<1>3. /\ tso + 2 <= MaxTs /\ tso' = tso + 2
      /\ applied' = Append(applied, command)
      /\ srcDefault' = srcDefault \cup Range(values)
      /\ srcWrite' = srcWrite \cup {record}
      /\ everWritten' = everWritten \cup {record}
      /\ UNCHANGED <<lock, ranges, stream, nextIdx, targetVars>>
  BY <1>1 DEF OnePc, Apply
<1>4. tso \in Nat /\ start \in Ts /\ tso + 2 \in Ts /\ tso < tso + 2
  BY <1>1, <1>2, <1>3, MvccAssumption DEF SourceOK, Ts
<1>5. record \in SourceRecord /\ record.kind # "rollback" /\ record.ts = tso + 2
  <2>1. kind # "rollback"
    BY MvccAssumption
  <2> QED
    BY <1>1, <1>4, <2>1 DEF WriteRecord, SourceRecord
<1>6. /\ Range(values) \subseteq SourceEntry /\ puts \in Seq(Request)
      /\ \A req \in Range(puts) : /\ req.type = "put" /\ req.cf = "default"
                                  /\ req.put \in SourceEntry /\ OwnValue(req.put)
  BY <1>4, ValuesFacts
<1> HIDE DEF values, puts
<1>7. /\ PutWrite(record) \in Request
      /\ PutWrite(record).type = "put" /\ PutWrite(record).cf = "write"
      /\ PutWrite(record).put = record
  <2>1. PutWrite(record) \in Request
    BY <1>5, RequestTypes
  <2> QED
    BY <2>1 DEF PutWrite
<1>8. <<PutWrite(record)>> \in Seq(Request) /\ Range(<<PutWrite(record)>>) = {PutWrite(record)}
  BY <1>7, RangeOfOne
<1>9. command \in Seq(Request) /\ Range(command) = Range(puts) \cup {PutWrite(record)}
  <2>1. \A s, t \in Seq(Request) :
            s \o t \in Seq(Request) /\ Range(s \o t) = Range(s) \cup Range(t)
    BY RangeOfConcat
  <2> QED
    BY Zenon, <1>6, <1>8, <2>1
<1> HIDE DEF command
<1>10. \A req \in Range(command) : Proper(req)'
  <2>1. Proper(PutWrite(record))'
    BY <1>3, <1>7 DEF Proper
  <2>2. \A req \in Range(puts) : Proper(req)'
    BY <1>6 DEF Proper
  <2> QED
    BY <1>9, <2>1, <2>2
<1>11. Versions' /\ Committed' = Committed \cup {record}
  BY <1>2, <1>3, <1>4, <1>5, NewCommit
<1>12. SourceOK'
  <2>1. applied' \in Seq(Seq(Request))
    BY <1>2, <1>3, <1>9, AppliedType
  <2> QED
    BY <1>2, <1>3, <1>4, <1>5, <1>6, <2>1 DEF SourceOK
<1>13. \A j : Covered(j)' <=> Covered(j)
  BY Zenon, <1>3 DEF Covered
<1>14. \A q \in Committed' : q \in Committed \/ PutWrite(q) \in Range(command)
  BY <1>9, <1>11
<1>15. everWritten \subseteq everWritten'
  BY <1>3
<1> QED
  BY <1>3, <1>9, <1>10, <1>11, <1>12, <1>13, <1>14, <1>15, SourceKeeps

\* A delete range: what it takes from the source is covered from then on.
LEMMA DeleteKeysKeeps ==
    ASSUME VInv, NEW r \in KeyRange, DeleteKeys(r)
    PROVE  VInv'
<1> DEFINE command == <<DeleteRange(r)>>
<1>1. SourceOK /\ Versions
  BY DEF VInv
<1>2. /\ ranges' = Append(ranges, r) /\ applied' = Append(applied, command)
      /\ srcDefault' \subseteq srcDefault /\ srcWrite' \subseteq srcWrite
      /\ \A q \in srcWrite : q \in srcWrite' \/ q.key \in r.keys
      /\ UNCHANGED <<tso, lock, everWritten, stream, nextIdx, targetVars>>
  BY DEF DeleteKeys, Apply
<1>3. /\ DeleteRange(r) \in Request /\ DeleteRange(r).type = "deleteRange"
      /\ DeleteRange(r).put = r
  <2>1. DeleteRange(r) \in Request
    BY RequestTypes
  <2> QED
    BY <2>1 DEF DeleteRange
<1>4. command \in Seq(Request) /\ Range(command) = {DeleteRange(r)}
  BY <1>3, RangeOfOne
<1> HIDE DEF command
<1>5. /\ ranges' \in Seq(KeyRange) /\ \A i \in DOMAIN ranges : i \in DOMAIN ranges' /\ ranges'[i] = ranges[i]
      /\ Len(ranges) + 1 \in DOMAIN ranges' /\ ranges'[Len(ranges) + 1] = r
  BY <1>1, <1>2 DEF SourceOK
<1>6. /\ \A j : Covered(j) => Covered(j)'
      /\ \A j \in r.keys : Covered(j)'
  BY <1>5 DEF Covered
<1>7. \A req \in Range(command) : Proper(req)'
  BY <1>3, <1>4, <1>6 DEF Proper
<1>8. Committed' = Committed
  BY <1>2 DEF Committed
<1>9. Versions'
  <2>1. \A q \in everWritten' : q \in srcWrite' \/ Covered(q.key)'
    BY <1>1, <1>2, <1>6 DEF Versions
  <2> QED
    BY <1>1, <1>2, <1>8, <2>1 DEF Versions
<1>10. SourceOK'
  <2>1. applied' \in Seq(Seq(Request))
    BY <1>1, <1>2, <1>4, AppliedType
  <2> QED
    BY <1>1, <1>2, <1>5, <2>1 DEF SourceOK
<1> QED
  BY <1>2, <1>4, <1>6, <1>7, <1>8, <1>9, <1>10, SourceKeeps

-----------------------------------------------------------------------------
(* The delegate and the target *)

\* Neither the delegate nor the target changes the source.
LEMMA SourceSame ==
    ASSUME SourceOK, Versions, UNCHANGED sourceVars, applied' \in Seq(Seq(Request))
    PROVE  /\ SourceOK' /\ Versions' /\ Committed' = Committed
           /\ \A k : Covered(k)' <=> Covered(k)
           /\ \A req : Proper(req)' <=> Proper(req)
           /\ \A kv : Genuine(kv)' <=> Genuine(kv)
<1>1. UNCHANGED <<tso, lock, srcDefault, srcWrite, everWritten, ranges>>
  BY DEF sourceVars
<1>2. Committed' = Committed /\ \A k : Covered(k)' <=> Covered(k)
  BY Zenon, <1>1 DEF Committed, Covered
<1>3. \A req : Proper(req)' <=> Proper(req)
  BY <1>1, <1>2 DEF Proper
<1>4. \A kv : Genuine(kv)' <=> Genuine(kv)
  BY <1>2 DEF Genuine
<1>5. SourceOK'
  BY <1>1 DEF SourceOK
<1>6. Versions'
  BY <1>1, <1>2 DEF Versions
<1> QED
  BY <1>2, <1>3, <1>4, <1>5, <1>6

\* The pairs of a batch of commands go to the stream, and nothing else does.
LEMMA OnBatchKeeps ==
    ASSUME VInv, NEW n \in DOMAIN applied, OnBatch(n)
    PROVE  VInv'
<1>1. PICK batch : batch = SubSeq(applied, 1, n)
  OBVIOUS
<1>2. SourceOK /\ TargetOK /\ Versions /\ Faithful /\ Complete
  BY DEF VInv
<1>3. /\ applied' = SubSeq(applied, n + 1, Len(applied))
      /\ stream' = stream \o Flatten([i \in DOMAIN batch |-> SinkData(batch[i])])
                          \o DeleteRanges(batch)
      /\ UNCHANGED sourceVars
      /\ UNCHANGED <<nextIdx, kvBuf, rangeBuf, tgtDefault, tgtWrite, lost>>
  BY <1>1 DEF OnBatch, targetVars
<1>4. /\ batch \in Seq(Seq(Request)) /\ applied' \in Seq(Seq(Request))
      /\ Range(applied) = Range(batch) \cup Range(applied')
  <2>1. applied \in Seq(Seq(Request))
    BY <1>2 DEF SourceOK
  <2> QED
    BY <1>1, <1>3, <2>1, SubSeqSplit
<1>5. /\ SourceOK' /\ Versions' /\ Committed' = Committed
      /\ \A k : Covered(k)' <=> Covered(k)
      /\ \A req : Proper(req)' <=> Proper(req)
      /\ \A kv : Genuine(kv)' <=> Genuine(kv)
  BY <1>2, <1>3, <1>4, SourceSame
<1>6. \A c \in Range(batch) : \A req \in Range(c) : Pending(req) /\ Proper(req)
  BY <1>2, <1>4 DEF Pending, Faithful
<1>7. /\ stream' \in Seq(PcrEvent)
      /\ Range(stream) \subseteq Range(stream')
      /\ \A e \in Range(stream') \ Range(stream) :
             /\ \A kv \in Range(e.kvs) : Genuine(kv)
             /\ \A k \in Key : DataKey(k) \in e.keys => Covered(k)
      /\ \A c \in Range(batch) : \A req \in Range(c) :
             \A kv \in Range(SinkRequest(req)) :
                 \E e \in Range(stream') : kv \in Range(e.kvs)
  <2>1. stream \in Seq(PcrEvent)
    BY <1>2 DEF TargetOK
  <2> QED
    BY <1>2, <1>3, <1>4, <1>6, <2>1, OnBatchFacts
<1>8. TargetOK'
  BY <1>2, <1>3, <1>7 DEF TargetOK
<1>9. \A req : Pending(req)' => Pending(req)
  BY <1>4 DEF Pending
<1>10. /\ \A kv : Buffered(kv)' <=> Buffered(kv)
       /\ \A kv : Streamed(kv) => Streamed(kv)'
       /\ \A kv : Streamed(kv)' => Streamed(kv) \/ Genuine(kv)
  <2>1. \A kv : Buffered(kv)' <=> Buffered(kv)
    BY Zenon, <1>3 DEF Buffered
  <2> QED
    BY <1>7, <2>1 DEF Streamed
<1>11. \A k \in Key : RangeKey(DataKey(k))' => RangeKey(DataKey(k)) \/ Covered(k)
  BY <1>3, <1>7 DEF RangeKey
<1>12. Faithful'
  <2>1. \A req : Pending(req)' => Proper(req)'
    BY <1>2, <1>5, <1>9 DEF Faithful
  <2>2. \A kv : Streamed(kv)' \/ Buffered(kv)' => Genuine(kv)'
    BY <1>2, <1>5, <1>10 DEF Faithful
  <2>3. \A r \in tgtWrite' : \E q \in Committed' : r = Copy(q)
    BY <1>2, <1>3, <1>5 DEF Faithful
  <2>4. \A k \in Key : RangeKey(DataKey(k))' => Covered(k)'
    BY <1>2, <1>5, <1>11 DEF Faithful
  <2> QED
    BY <2>1, <2>2, <2>3, <2>4 DEF Faithful
<1>13. ASSUME NEW q \in Committed', ~Covered(q.key)'
       PROVE  Arrives(q)'
  <2>1. q \in Committed /\ Arrives(q)
    BY <1>2, <1>5, <1>13 DEF Complete
  <2>2. CASE Pending(PutWrite(q))
    <3>1. PICK c \in Range(applied) : PutWrite(q) \in Range(c)
      BY <2>2 DEF Pending
    <3>2. CASE c \in Range(applied')
      BY <3>1, <3>2 DEF Pending, Arrives
    <3>3. CASE c \in Range(batch)
      <4>1. /\ PutWrite(q) \in Request /\ Proper(PutWrite(q))
            /\ PutWrite(q).type = "put" /\ PutWrite(q).cf = "write" /\ PutWrite(q).put = q
        <5>1. q \in SourceRecord
          BY <1>2, <2>1 DEF SourceOK, Committed
        <5>2. PutWrite(q) \in Request
          BY <5>1, RequestTypes
        <5> QED
          BY <1>6, <3>1, <3>3, <5>2 DEF PutWrite
      <4>2. CopyWrite(q) \in Range(SinkRequest(PutWrite(q)))
        BY <1>2, <2>1, <4>1, SinkRequestFacts
      <4>3. Streamed(CopyWrite(q))'
        BY <1>7, <3>1, <3>3, <4>2 DEF Streamed
      <4> QED
        BY <4>3 DEF Arrives
    <3> QED
      BY <1>4, <3>2, <3>3
  <2>3. CASE ~Pending(PutWrite(q))
    BY <1>3, <1>10, <2>1, <2>3 DEF Arrives
  <2> QED
    BY <2>2, <2>3
<1>14. Complete'
  BY <1>13 DEF Complete
<1> QED
  BY <1>5, <1>8, <1>12, <1>14 DEF VInv

\* A worker takes over the pairs and the keys of the first event.
LEMMA ReceiveKeeps ==
    ASSUME VInv, Receive
    PROVE  VInv'
<1>1. PICK e, u : e = Head(stream) /\ u = nextIdx
  OBVIOUS
<1>2. SourceOK /\ TargetOK /\ Versions /\ Faithful /\ Complete
  BY DEF VInv
<1>3. /\ stream # <<>> /\ stream' = Tail(stream)
      /\ nextIdx' = (nextIdx + 1) % NumWorkers
      /\ kvBuf' = [kvBuf EXCEPT ![u] = @ \o e.kvs]
      /\ rangeBuf' = [rangeBuf EXCEPT ![u] = IF e.keys = {} THEN @ ELSE Append(@, e.keys)]
      /\ UNCHANGED sourceVars
      /\ UNCHANGED <<applied, tgtDefault, tgtWrite, lost>>
  BY <1>1 DEF Receive
<1>4. /\ e \in PcrEvent /\ stream' \in Seq(PcrEvent)
      /\ Range(stream) = {e} \cup Range(stream')
  <2>1. stream \in Seq(PcrEvent)
    BY <1>2 DEF TargetOK
  <2>2. e \in PcrEvent /\ stream' \in Seq(PcrEvent)
    BY <1>1, <1>3, <2>1
  <2>3. \A s \in Seq(PcrEvent) : s # <<>> => Range(s) = {Head(s)} \cup Range(Tail(s))
    BY RangeOfHeadTail
  <2> QED
    BY Zenon, <1>1, <1>3, <2>1, <2>2, <2>3
<1>5. e.kvs \in Seq(Pair) /\ e.keys \in SUBSET (Key \cup DataKeys)
  BY <1>4 DEF PcrEvent
<1>6. u \in Worker /\ nextIdx' \in Worker
  <2>1. NumWorkers \in Nat \ {0} /\ nextIdx \in Nat /\ u \in Worker
    BY <1>1, <1>2, MvccAssumption DEF TargetOK, Worker
  <2> QED
    BY <1>3, <2>1 DEF Worker
<1>7. /\ kvBuf' \in [Worker -> Seq(Pair)]
      /\ kvBuf[u] \in Seq(Pair)
      /\ kvBuf'[u] = kvBuf[u] \o e.kvs
      /\ \A w \in Worker : w # u => kvBuf'[w] = kvBuf[w]
  <2>1. kvBuf \in [Worker -> Seq(Pair)] /\ kvBuf[u] \in Seq(Pair)
    BY <1>2, <1>6 DEF TargetOK
  <2>2. PICK x : x = kvBuf[u] \o e.kvs
    OBVIOUS
  <2>3. x \in Seq(Pair)
    BY <1>5, <2>1, <2>2
  <2>4. kvBuf' = [kvBuf EXCEPT ![u] = x]
    BY <1>3, <2>2
  <2>5. /\ kvBuf' \in [Worker -> Seq(Pair)] /\ kvBuf'[u] = x
        /\ \A w \in Worker : w # u => kvBuf'[w] = kvBuf[w]
    BY Zenon, <1>6, <2>1, <2>3, <2>4
  <2> QED
    BY <2>1, <2>2, <2>5
<1>8. /\ rangeBuf' \in [Worker -> Seq(SUBSET (Key \cup DataKeys))]
      /\ rangeBuf[u] \in Seq(SUBSET (Key \cup DataKeys))
      /\ \/ rangeBuf'[u] = rangeBuf[u]
         \/ rangeBuf'[u] = Append(rangeBuf[u], e.keys)
      /\ \A w \in Worker : w # u => rangeBuf'[w] = rangeBuf[w]
  <2>1. PICK KS : KS = SUBSET (Key \cup DataKeys)
    OBVIOUS
  <2>2. rangeBuf \in [Worker -> Seq(KS)] /\ e.keys \in KS
    BY <1>2, <1>5, <2>1 DEF TargetOK
  <2>3. PICK x : x = IF e.keys = {} THEN rangeBuf[u] ELSE Append(rangeBuf[u], e.keys)
    OBVIOUS
  <2>4. rangeBuf[u] \in Seq(KS) /\ x \in Seq(KS)
    BY <1>6, <2>2, <2>3
  <2>5. rangeBuf' = [rangeBuf EXCEPT ![u] = x]
    BY <1>3, <2>3
  <2>6. /\ rangeBuf' \in [Worker -> Seq(KS)] /\ rangeBuf'[u] = x
        /\ \A w \in Worker : w # u => rangeBuf'[w] = rangeBuf[w]
    BY Zenon, <1>6, <2>2, <2>4, <2>5
  <2> QED
    BY <2>1, <2>3, <2>4, <2>6
<1>9. Range(kvBuf'[u]) = Range(kvBuf[u]) \cup Range(e.kvs)
  <2>1. \A s, t \in Seq(Pair) : Range(s \o t) = Range(s) \cup Range(t)
    BY RangeOfConcat
  <2>2. kvBuf[u] \in Seq(Pair) /\ e.kvs \in Seq(Pair)
    BY <1>5, <1>7
  <2>3. Range(kvBuf[u] \o e.kvs) = Range(kvBuf[u]) \cup Range(e.kvs)
    BY Zenon, <2>1, <2>2
  <2> QED
    BY <1>7, <2>3
<1>10. Range(rangeBuf'[u]) \subseteq Range(rangeBuf[u]) \cup {e.keys}
  <2>1. \A s \in Seq(SUBSET (Key \cup DataKeys)), x \in SUBSET (Key \cup DataKeys) :
            Range(Append(s, x)) = Range(s) \cup {x}
    BY RangeOfAppend
  <2>2. Range(Append(rangeBuf[u], e.keys)) = Range(rangeBuf[u]) \cup {e.keys}
    BY Zenon, <1>5, <1>8, <2>1
  <2> QED
    BY <1>8, <2>2
<1>11. /\ SourceOK' /\ Versions' /\ Committed' = Committed
       /\ \A k : Covered(k)' <=> Covered(k)
       /\ \A req : Proper(req)' <=> Proper(req)
       /\ \A kv : Genuine(kv)' <=> Genuine(kv)
  <2>1. applied' \in Seq(Seq(Request))
    BY <1>2, <1>3 DEF SourceOK
  <2> QED
    BY <1>2, <1>3, <2>1, SourceSame
<1>12. TargetOK'
  BY <1>2, <1>3, <1>4, <1>6, <1>7, <1>8 DEF TargetOK
<1>13. \A req : Pending(req)' <=> Pending(req)
  BY Zenon, <1>3 DEF Pending
<1>14. \A kv : Streamed(kv)' => Streamed(kv)
  BY <1>4 DEF Streamed
<1>15. /\ \A kv : Buffered(kv)' => Buffered(kv) \/ Streamed(kv)
       /\ \A kv : Buffered(kv) => Buffered(kv)'
       /\ \A kv : Streamed(kv) => Streamed(kv)' \/ Buffered(kv)'
  <2>1. ASSUME NEW kv, Buffered(kv)' PROVE Buffered(kv) \/ Streamed(kv)
    <3>1. PICK w \in Worker : kv \in Range(kvBuf'[w])
      BY <2>1 DEF Buffered
    <3> QED
      BY <1>4, <1>7, <1>9, <3>1 DEF Buffered, Streamed
  <2>2. ASSUME NEW kv, Buffered(kv) PROVE Buffered(kv)'
    <3>1. PICK w \in Worker : kv \in Range(kvBuf[w])
      BY <2>2 DEF Buffered
    <3>2. kv \in Range(kvBuf'[w])
      BY <1>7, <1>9, <3>1
    <3> QED
      BY <3>2 DEF Buffered
  <2>3. ASSUME NEW kv, Streamed(kv) PROVE Streamed(kv)' \/ Buffered(kv)'
    <3>1. PICK x \in Range(stream) : kv \in Range(x.kvs)
      BY <2>3 DEF Streamed
    <3>2. CASE x = e
      <4>1. kv \in Range(kvBuf'[u])
        BY <1>9, <3>1, <3>2
      <4> QED
        BY <1>6, <4>1 DEF Buffered
    <3>3. CASE x \in Range(stream')
      BY <3>1, <3>3 DEF Streamed
    <3> QED
      BY <1>4, <3>2, <3>3
  <2> QED
    BY <2>1, <2>2, <2>3
<1>16. \A x : RangeKey(x)' => RangeKey(x)
  <2>1. ASSUME NEW x, RangeKey(x)' PROVE RangeKey(x)
    <3>1. CASE \E y \in Range(stream') : x \in y.keys
      BY <1>4, <3>1 DEF RangeKey
    <3>2. CASE \E w \in Worker : \E ks \in Range(rangeBuf'[w]) : x \in ks
      <4>1. PICK w \in Worker : \E ks \in Range(rangeBuf'[w]) : x \in ks
        BY <3>2
      <4>2. PICK ks \in Range(rangeBuf'[w]) : x \in ks
        BY <4>1
      <4>3. ks \in Range(rangeBuf[w]) \/ ks = e.keys
        BY <1>8, <1>10, <4>2
      <4> QED
        BY <1>4, <4>2, <4>3 DEF RangeKey
    <3> QED
      BY <2>1, <3>1, <3>2 DEF RangeKey
  <2> QED
    BY <2>1
<1>17. Faithful'
  <2>1. \A req : Pending(req)' => Proper(req)'
    BY <1>2, <1>11, <1>13 DEF Faithful
  <2>2. \A kv : Streamed(kv)' \/ Buffered(kv)' => Genuine(kv)'
    BY <1>2, <1>11, <1>14, <1>15 DEF Faithful
  <2>3. \A r \in tgtWrite' : \E q \in Committed' : r = Copy(q)
    BY <1>2, <1>3, <1>11 DEF Faithful
  <2>4. \A k \in Key : RangeKey(DataKey(k))' => Covered(k)'
    BY <1>2, <1>11, <1>16 DEF Faithful
  <2> QED
    BY <2>1, <2>2, <2>3, <2>4 DEF Faithful
<1>18. Complete'
  <2>1. ASSUME NEW q \in Committed', ~Covered(q.key)' PROVE Arrives(q)'
    <3>1. Arrives(q)
      BY <1>2, <1>11, <2>1 DEF Complete
    <3> QED
      BY <1>3, <1>13, <1>15, <3>1 DEF Arrives
  <2> QED
    BY <2>1 DEF Complete
<1> QED
  BY <1>11, <1>12, <1>17, <1>18 DEF VInv

\* A flush: what it ingests is genuine, a version it replaces is the same version,
\* and what it drops is lost.
LEMMA FlushKeeps ==
    ASSUME VInv, NEW u \in Worker, NEW order \in CfOrders, Flush(u, order)
    PROVE  VInv'
<1>1. PICK kvs, done, deleted :
          /\ kvs = kvBuf[u] /\ done = Ingested(kvs, order)
          /\ deleted = IF done = Cf THEN UNION Range(rangeBuf[u]) ELSE {}
  OBVIOUS
<1> DEFINE Written == Pairs({"write"}, kvs)
           Values0 == Pairs({"default"}, kvs)
           dropped == Pairs(Cf \ done, kvs)
<1>2. SourceOK /\ TargetOK /\ Versions /\ Faithful /\ Complete
  BY DEF VInv
<1>3. /\ kvBuf' = [kvBuf EXCEPT ![u] = <<>>]
      /\ rangeBuf' = [rangeBuf EXCEPT ![u] = IF done = Cf THEN <<>> ELSE @]
      /\ tgtDefault' = {e \in (IF "default" \in done THEN Ingest(tgtDefault, Values0)
                               ELSE tgtDefault) : e.key \notin deleted}
      /\ tgtWrite' = {e \in (IF "write" \in done THEN Ingest(tgtWrite, Written)
                             ELSE tgtWrite) : e.key \notin deleted}
      /\ lost' = lost \cup dropped
      /\ UNCHANGED sourceVars
      /\ UNCHANGED <<applied, stream, nextIdx>>
  BY Zenon, <1>1 DEF Flush
<1>4. kvs \in Seq(Pair) /\ \A kv \in Range(kvs) : Buffered(kv) /\ Genuine(kv)
  BY <1>1, <1>2 DEF TargetOK, Buffered, Faithful
<1>5. \A p \in Written : \E q \in Committed : p = Copy(q)
  BY <1>4 DEF Pairs, Genuine
<1>6. \A p \in Values0 : p \in TargetEntry /\ OwnValue(p)
  BY <1>4 DEF Pairs, Genuine
<1>7. \A kv \in Range(kvs) : kv.cf = "write" =>
          kv.pair \in Written /\ ("write" \notin done => kv.pair \in dropped)
  BY DEF Pairs, Cf
<1> HIDE DEF Written, Values0, dropped
<1>8. \A k \in Key : DataKey(k) \in deleted => Covered(k)
  <2>1. \A x \in deleted : RangeKey(x)
    BY <1>1 DEF RangeKey
  <2> QED
    BY <1>2, <2>1 DEF Faithful
<1>9. /\ kvBuf' \in [Worker -> Seq(Pair)]
      /\ kvBuf'[u] = <<>>
      /\ \A w \in Worker : w # u => kvBuf'[w] = kvBuf[w]
  BY <1>2, <1>3 DEF TargetOK
<1>10. /\ rangeBuf' \in [Worker -> Seq(SUBSET (Key \cup DataKeys))]
       /\ rangeBuf'[u] = <<>> \/ rangeBuf'[u] = rangeBuf[u]
       /\ \A w \in Worker : w # u => rangeBuf'[w] = rangeBuf[w]
  BY <1>2, <1>3 DEF TargetOK
<1>11. /\ SourceOK' /\ Versions' /\ Committed' = Committed
       /\ \A k : Covered(k)' <=> Covered(k)
       /\ \A req : Proper(req)' <=> Proper(req)
       /\ \A kv : Genuine(kv)' <=> Genuine(kv)
  <2>1. applied' \in Seq(Seq(Request))
    BY <1>2, <1>3 DEF SourceOK
  <2> QED
    BY <1>2, <1>3, <2>1, SourceSame
<1>12. TargetOK'
  <2>1. \A e \in tgtDefault' : e \in tgtDefault \/ e \in Values0
    BY <1>3 DEF Ingest
  <2>2. \A e \in tgtDefault' : e \in TargetEntry /\ OwnValue(e)
    BY <1>2, <1>6, <2>1 DEF TargetOK
  <2> QED
    BY <1>2, <1>3, <1>9, <1>10, <2>2 DEF TargetOK
<1>13. /\ \A req : Pending(req)' <=> Pending(req)
       /\ \A kv : Streamed(kv)' <=> Streamed(kv)
  BY Zenon, <1>3 DEF Pending, Streamed
<1>14. /\ \A kv : Buffered(kv)' => Buffered(kv)
       /\ \A kv : Buffered(kv) => Buffered(kv)' \/ kv \in Range(kvs)
  <2>1. ASSUME NEW kv, Buffered(kv)' PROVE Buffered(kv)
    <3>1. PICK w \in Worker : kv \in Range(kvBuf'[w])
      BY <2>1 DEF Buffered
    <3>2. w # u
      BY <1>9, <3>1, RangeOfEmpty
    <3> QED
      BY <1>9, <3>1, <3>2 DEF Buffered
  <2>2. ASSUME NEW kv, Buffered(kv) PROVE Buffered(kv)' \/ kv \in Range(kvs)
    <3>1. PICK w \in Worker : kv \in Range(kvBuf[w])
      BY <2>2 DEF Buffered
    <3>2. CASE w = u
      BY <1>1, <3>1, <3>2
    <3>3. CASE w # u
      <4>1. kv \in Range(kvBuf'[w])
        BY <1>9, <3>1, <3>3
      <4> QED
        BY <4>1 DEF Buffered
    <3> QED
      BY <3>2, <3>3
  <2> QED
    BY <2>1, <2>2
<1>15. \A x : RangeKey(x)' => RangeKey(x)
  <2>1. ASSUME NEW x, RangeKey(x)' PROVE RangeKey(x)
    <3>1. CASE \E y \in Range(stream') : x \in y.keys
      BY <1>3, <3>1 DEF RangeKey
    <3>2. CASE \E w \in Worker : \E ks \in Range(rangeBuf'[w]) : x \in ks
      <4>1. PICK w \in Worker : \E ks \in Range(rangeBuf'[w]) : x \in ks
        BY <3>2
      <4>2. rangeBuf'[w] = rangeBuf[w]
        BY <1>10, <4>1, RangeOfEmpty
      <4> QED
        BY <4>1, <4>2 DEF RangeKey
    <3> QED
      BY <2>1, <3>1, <3>2 DEF RangeKey
  <2> QED
    BY <2>1
<1>16. Faithful'
  <2>1. \A req : Pending(req)' => Proper(req)'
    BY <1>2, <1>11, <1>13 DEF Faithful
  <2>2. \A kv : Streamed(kv)' \/ Buffered(kv)' => Genuine(kv)'
    BY <1>2, <1>11, <1>13, <1>14 DEF Faithful
  <2>3. \A r \in tgtWrite' : r \in tgtWrite \/ r \in Written
    BY <1>3 DEF Ingest
  <2>4. \A r \in tgtWrite' : \E q \in Committed' : r = Copy(q)
    BY <1>2, <1>5, <1>11, <2>3 DEF Faithful
  <2>5. \A k \in Key : RangeKey(DataKey(k))' => Covered(k)'
    BY <1>2, <1>11, <1>15 DEF Faithful
  <2> QED
    BY <2>1, <2>2, <2>4, <2>5 DEF Faithful
<1>17. Complete'
  <2>1. ASSUME NEW q \in Committed', ~Covered(q.key)' PROVE Arrives(q)'
    <3>1. /\ q \in Committed /\ ~Covered(q.key) /\ Arrives(q)
      BY <1>2, <1>11, <2>1 DEF Complete
    <3>2. Committed \subseteq SourceRecord
      BY <1>2 DEF SourceOK, Committed
    <3>3. q.key \in Key
      BY <3>1, <3>2 DEF SourceRecord
    <3>4. /\ Copy(q).key = DataKey(q.key) /\ Copy(q).ts = q.ts
          /\ CopyWrite(q) = [cf |-> "write", pair |-> Copy(q)]
      BY <3>1, <3>2, CopyFacts
    <3>5. Copy(q).key \notin deleted
      BY <1>8, <3>1, <3>3, <3>4
    <3>6. "write" \in done /\ Copy(q) \in Written => Copy(q) \in tgtWrite'
      BY <1>3, <3>5 DEF Ingest
    <3>7. CASE Pending(PutWrite(q)) \/ Streamed(CopyWrite(q)) \/ Copy(q) \in lost
      BY <1>3, <1>13, <3>7 DEF Arrives
    <3>8. CASE Buffered(CopyWrite(q))
      <4>1. CASE Buffered(CopyWrite(q))'
        BY <4>1 DEF Arrives
      <4>2. CASE CopyWrite(q) \in Range(kvs)
        <5>1. CopyWrite(q).cf = "write" /\ CopyWrite(q).pair = Copy(q)
          BY <3>4
        <5>2. Copy(q) \in Written /\ ("write" \notin done => Copy(q) \in dropped)
          BY <1>7, <4>2, <5>1
        <5>3. Copy(q) \in tgtWrite' \/ Copy(q) \in lost'
          BY <1>3, <3>6, <5>2
        <5> QED
          BY <5>3 DEF Arrives
      <4> QED
        BY <1>14, <3>8, <4>1, <4>2
    <3>9. CASE Copy(q) \in tgtWrite
      <4>1. CASE "write" \notin done
        <5>1. Copy(q) \in tgtWrite'
          BY <1>3, <3>5, <3>9, <4>1
        <5> QED
          BY <5>1 DEF Arrives
      <4>2. CASE "write" \in done /\ \A p \in Written : ~SameMvccKey(p, Copy(q))
        <5>1. Copy(q) \in tgtWrite'
          BY <1>3, <3>5, <3>9, <4>2 DEF Ingest
        <5> QED
          BY <5>1 DEF Arrives
      <4>3. CASE "write" \in done /\ \E p \in Written : SameMvccKey(p, Copy(q))
        <5>1. PICK p \in Written : SameMvccKey(p, Copy(q))
          BY <4>3
        <5>2. PICK q2 \in Committed : p = Copy(q2)
          BY <1>5
        <5>3. q2.ts = q.ts
          <6>1. p.ts = q2.ts
            BY <3>2, <5>2, CopyFacts
          <6> QED
            BY <3>4, <5>1, <6>1 DEF SameMvccKey
        <5>4. q2 = q
          BY <1>2, <3>1, <5>3 DEF Versions
        <5>5. Copy(q) \in tgtWrite'
          BY <3>6, <4>3, <5>1, <5>2, <5>4
        <5> QED
          BY <5>5 DEF Arrives
      <4> QED
        BY <4>1, <4>2, <4>3
    <3> QED
      BY <3>1, <3>7, <3>8, <3>9 DEF Arrives
  <2> QED
    BY <2>1 DEF Complete
<1> QED
  BY <1>11, <1>12, <1>16, <1>17 DEF VInv

-----------------------------------------------------------------------------
(* Every reachable state satisfies the invariant *)

\* The invariant holds at the start.
LEMMA InitVInv == Init => VInv
<1> SUFFICES ASSUME Init PROVE VInv
  OBVIOUS
<1>1. SourceOK
  <2>1. 0 \in Ts
    BY MvccAssumption DEF Ts
  <2> QED
    BY <2>1 DEF Init, SourceOK
<1>2. TargetOK
  <2>1. 0 \in Worker
    BY MvccAssumption DEF Worker
  <2> QED
    BY <2>1 DEF Init, TargetOK
<1>3. Committed = {} /\ tgtWrite = {} /\ everWritten = {}
  BY DEF Init, Committed
<1>4. Versions
  BY <1>3 DEF Versions
<1>5. /\ Range(applied) = {} /\ Range(stream) = {}
      /\ \A w \in Worker : Range(kvBuf[w]) = {} /\ Range(rangeBuf[w]) = {}
  BY RangeOfEmpty DEF Init
<1>6. Faithful
  BY <1>3, <1>5 DEF Faithful, Pending, Streamed, Buffered, RangeKey
<1>7. Complete
  BY <1>3 DEF Complete
<1> QED
  BY <1>1, <1>2, <1>4, <1>6, <1>7 DEF VInv

\* Every step keeps the invariant, one lemma for each action.
LEMMA NextVInv == VInv /\ [Next]_vars => VInv'
<1> SUFFICES ASSUME VInv, [Next]_vars PROVE VInv'
  OBVIOUS
<1>1. ASSUME NEW k \in Key, NEW kind \in Mutation, Prewrite(k, kind) PROVE VInv'
  BY <1>1, PrewriteKeeps
<1>2. ASSUME NEW k \in Key, NEW kind \in Mutation, OnePc(k, kind) PROVE VInv'
  BY <1>2, OnePcKeeps
<1>3. ASSUME NEW k \in Key, CommitKey(k) PROVE VInv'
  BY <1>3, CommitKeyKeeps
<1>4. ASSUME NEW k \in Key, RollbackKey(k) PROVE VInv'
  BY <1>4, RollbackKeyKeeps
<1>5. ASSUME NEW r \in KeyRange, DeleteKeys(r) PROVE VInv'
  BY <1>5, DeleteKeysKeeps
<1>6. ASSUME NEW n \in DOMAIN applied, OnBatch(n) PROVE VInv'
  BY <1>6, OnBatchKeeps
<1>7. CASE Receive
  BY <1>7, ReceiveKeeps
<1>8. ASSUME NEW w \in Worker, NEW order \in CfOrders, Flush(w, order) PROVE VInv'
  BY <1>8, FlushKeeps
<1>9. CASE UNCHANGED vars
  <2>1. UNCHANGED <<tso, lock, srcDefault, srcWrite, everWritten, ranges, applied, stream,
                    nextIdx, kvBuf, rangeBuf, tgtDefault, tgtWrite, lost>>
    BY <1>9 DEF vars, sourceVars, targetVars
  <2> QED
    BY Zenon, <2>1 DEF VInv, SourceOK, TargetOK, Versions, Faithful, Complete, Arrives,
       Committed, Covered, Pending, Streamed, Buffered, RangeKey, Proper, Genuine
<1> QED
  BY <1>1, <1>2, <1>3, <1>4, <1>5, <1>6, <1>7, <1>8, <1>9
     DEF Next, Source, SomeBatch, FlushWorker

\* Every reachable state satisfies the invariant.
LEMMA VInvHolds == Spec => []VInv
BY InitVInv, NextVInv, PTL DEF Spec

\* The invariant implies the type invariant.
LEMMA VInvTypeOK == VInv => TypeOK
<1> SUFFICES ASSUME VInv PROVE TypeOK
  OBVIOUS
<1>1. SourceOK /\ TargetOK /\ Faithful
  BY DEF VInv
<1>2. \A q \in Committed : Copy(q) \in TargetRecord
  <2>1. \A q \in Committed : q \in SourceRecord /\ q.kind # "rollback"
    BY <1>1 DEF SourceOK, Committed
  <2> QED
    BY <2>1, CopyFacts
<1>3. ASSUME NEW w \in Worker
      PROVE  /\ Pairs({"default"}, kvBuf[w]) \subseteq TargetEntry
             /\ Pairs({"write"}, kvBuf[w]) \subseteq TargetRecord
  <2>1. \A kv \in Range(kvBuf[w]) : Genuine(kv)
    BY <1>1 DEF Faithful, Buffered
  <2> QED
    BY <1>2, <2>1 DEF Genuine, Pairs
<1>4. tgtDefault \subseteq TargetEntry /\ tgtWrite \subseteq TargetRecord
  BY <1>1, <1>2 DEF TargetOK, Faithful
<1> QED
  BY <1>1, <1>3, <1>4 DEF TypeOK, SourceOK, TargetOK

\* Every reachable state has the types TypeOK states, the pairs in the workers'
\* buffers and the target's two column families among them.
THEOREM MvccTypeCorrect == Spec => []TypeOK
BY VInvHolds, VInvTypeOK, PTL

\* For any keys, number of workers and order of flushes: a record in the target's
\* write CF is the copy of one a commit put on the source.
THEOREM NoPhantomVersionsHolds == Spec => []NoPhantomVersions
<1>1. VInv => NoPhantomVersions
  BY DEF VInv, Faithful, Committed, Copy, NoPhantomVersions
<1> QED
  BY VInvHolds, <1>1, PTL

\* Once all is settled, the versions of a key that no delete range covered and no
\* flush lost are the same on both sides.
LEMMA SettledVersions ==
    ASSUME VInv, Settled, NEW k \in Key, NEW ts \in Ts, ~Covered(k), ~LostFor(k)
    PROVE  NewestAt(tgtWrite, DataKey(k), ts) = {Copy(q) : q \in NewestAt(srcWrite, k, ts)}
<1>1. SourceOK /\ Versions /\ Faithful /\ Complete
  BY DEF VInv
<1>2. Committed \subseteq SourceRecord
  BY <1>1 DEF SourceOK, Committed
<1>3. \A q \in Committed :
          /\ Copy(q).key = DataKey(q.key) /\ Copy(q).ts = q.ts /\ Copy(q).kind = q.kind
  BY <1>2, CopyFacts
<1>4. \A q \in Committed : q.key = k => Copy(q) \in tgtWrite
  <2> SUFFICES ASSUME NEW q \in Committed, q.key = k PROVE Copy(q) \in tgtWrite
    OBVIOUS
  <2>1. Arrives(q)
    BY <1>1 DEF Complete
  <2>2. /\ Range(applied) = {} /\ Range(stream) = {}
        /\ \A w \in Worker : Range(kvBuf[w]) = {}
    BY RangeOfEmpty DEF Settled
  <2>3. ~Pending(PutWrite(q)) /\ ~Streamed(CopyWrite(q)) /\ ~Buffered(CopyWrite(q))
    BY <2>2 DEF Pending, Streamed, Buffered
  <2>4. Copy(q) \notin lost
    BY <1>3 DEF LostFor
  <2> QED
    BY <2>1, <2>3, <2>4 DEF Arrives
<1>5. \A r \in tgtWrite : r.key = DataKey(k) =>
          \E q \in srcWrite : q \in Committed /\ q.key = k /\ r = Copy(q)
  <2> SUFFICES ASSUME NEW r \in tgtWrite, r.key = DataKey(k)
               PROVE  \E q \in srcWrite : q \in Committed /\ q.key = k /\ r = Copy(q)
    OBVIOUS
  <2>1. PICK q \in Committed : r = Copy(q)
    BY <1>1 DEF Faithful
  <2>2. q.key = k
    BY <1>3, <2>1, DataKeyFacts
  <2>3. q \in srcWrite
    BY <1>1, <2>2 DEF Versions, Committed
  <2> QED
    BY <2>1, <2>2, <2>3
<1> DEFINE VS == {q \in srcWrite : /\ q.key = k /\ q.ts <= ts
                                   /\ q.kind \notin {"lock", "rollback"}}
           VT == {r \in tgtWrite : /\ r.key = DataKey(k) /\ r.ts <= ts
                                   /\ r.kind \notin {"lock", "rollback"}}
<1>6. \A q \in VS : q \in Committed
  BY <1>1 DEF SourceOK, Committed
<1>7. \A q \in VS : Copy(q) \in VT /\ Copy(q).ts = q.ts
  BY <1>3, <1>4, <1>6
<1>8. \A r \in VT : \E q \in VS : r = Copy(q)
  BY <1>3, <1>5
<1>9. /\ NewestAt(srcWrite, k, ts) = {q \in VS : \A p \in VS : p.ts <= q.ts}
      /\ NewestAt(tgtWrite, DataKey(k), ts) = {r \in VT : \A p \in VT : p.ts <= r.ts}
  BY Zenon DEF NewestAt
<1> HIDE DEF VS, VT
<1>10. ASSUME NEW q \in NewestAt(srcWrite, k, ts)
       PROVE  Copy(q) \in NewestAt(tgtWrite, DataKey(k), ts)
  <2>1. q \in VS /\ \A p \in VS : p.ts <= q.ts
    BY <1>9, <1>10
  <2>2. \A p \in VT : p.ts <= Copy(q).ts
    BY <1>7, <1>8, <2>1
  <2> QED
    BY <1>7, <1>9, <2>1, <2>2
<1>11. ASSUME NEW r \in NewestAt(tgtWrite, DataKey(k), ts)
       PROVE  \E q \in NewestAt(srcWrite, k, ts) : r = Copy(q)
  <2>1. r \in VT /\ \A p \in VT : p.ts <= r.ts
    BY <1>9, <1>11
  <2>2. PICK q \in VS : r = Copy(q)
    BY <1>8, <2>1
  <2>3. \A p \in VS : p.ts <= q.ts
    BY <1>7, <2>1, <2>2
  <2> QED
    BY <1>9, <2>2, <2>3
<1> QED
  BY <1>10, <1>11

\* What the newest versions of a settled key are worth to a reader.
LEMMA SettledReads ==
    ASSUME VInv, Settled, NEW k \in Key, NEW ts \in Ts, ~Covered(k), ~LostFor(k)
    PROVE  LET source == NewestAt(srcWrite, k, ts)
               target == Read(tgtDefault, tgtWrite, DataKey(k), ts)
           IN  IF \E r \in source : r.kind = "long"
               THEN \A v \in target : v.kind = "value" =>
                       \E r \in source : v.ts = r.start
               ELSE target = Read(srcDefault, srcWrite, k, ts)
<1> DEFINE source == NewestAt(srcWrite, k, ts)
           newest == NewestAt(tgtWrite, DataKey(k), ts)
           target == Read(tgtDefault, tgtWrite, DataKey(k), ts)
<1>1. newest = {Copy(q) : q \in source}
  BY SettledVersions
<1>2. \A q \in source : /\ q \in SourceRecord
                        /\ q.kind \in {"short", "long", "delete"}
  <2>1. \A q \in source : q \in srcWrite /\ q.kind \notin {"lock", "rollback"}
    BY DEF NewestAt
  <2>2. srcWrite \subseteq SourceRecord
    BY DEF VInv, SourceOK
  <2>3. \A q \in SourceRecord : q.kind \in Mutation \cup {"rollback"}
    BY DEF SourceRecord
  <2> QED
    BY <2>1, <2>2, <2>3, MvccAssumption
<1>3. \A q \in source : Copy(q).kind = q.kind /\ Copy(q).start = q.start
  BY <1>2, CopyFacts
<1>4. /\ target = IF newest = {} THEN {Absent}
                  ELSE UNION {ValueOf(tgtDefault, r) : r \in newest}
      /\ Read(srcDefault, srcWrite, k, ts) =
             IF source = {} THEN {Absent}
             ELSE UNION {ValueOf(srcDefault, r) : r \in source}
  BY Zenon DEF Read
<1>5. CASE \E r \in source : r.kind = "long"
  <2> SUFFICES ASSUME NEW v \in target, v.kind = "value"
               PROVE  \E r \in source : v.ts = r.start
    BY Zenon, <1>5
  <2> HIDE DEF source, newest, target
  <2>1. newest # {}
    BY <1>1, <1>5
  <2>2. PICK r \in newest : v \in ValueOf(tgtDefault, r)
    BY <1>4, <2>1
  <2>3. PICK q \in source : r = Copy(q)
    BY <1>1
  <2>4. CASE q.kind = "delete"
    <3>1. v = Absent
      BY <1>3, <2>2, <2>3, <2>4 DEF ValueOf
    <3> QED
      BY <3>1 DEF Absent
  <2>5. CASE q.kind = "short"
    <3>1. v = WrittenBy(q.start)
      BY <1>3, <2>2, <2>3, <2>5 DEF ValueOf
    <3> QED
      BY <3>1 DEF WrittenBy
  <2>6. CASE q.kind = "long"
    <3>1. \E e \in tgtDefault : v = e.value /\ e.ts = q.start
      BY <1>3, <2>2, <2>3, <2>6 DEF ValueOf
    <3> QED
      BY <3>1 DEF VInv, TargetOK, OwnValue
  <2> QED
    BY <1>2, <2>4, <2>5, <2>6
<1>6. CASE ~\E r \in source : r.kind = "long"
  <2>1. \A q \in source : ValueOf(tgtDefault, Copy(q)) = ValueOf(srcDefault, q)
    <3> SUFFICES ASSUME NEW q \in source
                 PROVE  ValueOf(tgtDefault, Copy(q)) = ValueOf(srcDefault, q)
      OBVIOUS
    <3> HIDE DEF source
    <3>1. q.kind = "short" \/ q.kind = "delete"
      BY <1>2, <1>6
    <3>2. Copy(q).kind = q.kind /\ Copy(q).start = q.start
      BY <1>3
    <3> QED
      BY <3>1, <3>2 DEF ValueOf
  <2> HIDE DEF source, newest, target
  <2>2. /\ newest = {} <=> source = {}
        /\ UNION {ValueOf(tgtDefault, r) : r \in newest}
             = UNION {ValueOf(srcDefault, r) : r \in source}
    BY <1>1, <2>1
  <2>3. target = Read(srcDefault, srcWrite, k, ts)
    BY <1>4, <2>2
  <2> QED
    BY Zenon, <1>6, <2>3 DEF source, target
<1> QED
  BY <1>5, <1>6

\* For any keys, number of workers and order of flushes: where everything has been
\* flushed, snapshot reads of short values and deletions agree on both sides, and a
\* long value never reads as that of another transaction.
THEOREM ReadsAgreeHolds == Spec => []ReadsAgree
<1>1. VInv => ReadsAgree
  BY Zenon, SettledReads DEF ReadsAgree
<1> QED
  BY VInvHolds, <1>1, PTL

\* The lookup of a value above 255 bytes finds nothing, in whatever state and for
\* whatever record: it asks the source's snapshot for a data key, and from_write_cf
\* gets the empty value.
THEOREM LookupFindsNothing == Spec => [](\A r \in everWritten : LongValue(r) = Empty)
<1>1. VInv => \A r \in everWritten : LongValue(r) = Empty
  BY LongValueIsEmpty DEF VInv, SourceOK
<1> QED
  BY VInvHolds, <1>1, PTL
=============================================================================
