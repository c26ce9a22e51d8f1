-------------------------- MODULE MvccStream_loss ---------------------------
(***************************************************************************)
(* Proof that a flush of the target drops pairs only where a transaction   *)
(* wrote a long value or a lock record.                                    *)
(*                                                                         *)
(* An SST fails where two pairs of a buffer have the same key, column      *)
(* family and timestamp: the same place in the target's store.  LInv       *)
(* follows the places from the applied commands through the stream to the  *)
(* buffers: without long values and lock records no place is taken twice   *)
(* (Unshared), and those of the commits to come are free (Free).           *)
(***************************************************************************)
EXTENDS MvccStream_proofs

-----------------------------------------------------------------------------
(* Sequences whose members share nothing *)

\* What the members of a sequence stand for, where S gives a set for each, and that
\* no two positions share anything.
Together(S, s) == UNION {S[x] : x \in Range(s)}
Apart(S, s) == \A i, j \in DOMAIN s : i # j => S[s[i]] \cap S[s[j]] = {}

\* Two sequences that share nothing can be joined.
LEMMA ApartConcat ==
    ASSUME NEW T, NEW S, NEW a \in Seq(T), NEW b \in Seq(T), Apart(S, a), Apart(S, b),
           Together(S, a) \cap Together(S, b) = {}
    PROVE  /\ a \o b \in Seq(T) /\ Apart(S, a \o b)
           /\ Together(S, a \o b) = Together(S, a) \cup Together(S, b)
<1>1. PICK c : c = a \o b
  OBVIOUS
<1>2. /\ Len(a) \in Nat /\ Len(b) \in Nat
      /\ DOMAIN a = 1..Len(a) /\ DOMAIN b = 1..Len(b)
      /\ c \in Seq(T) /\ DOMAIN c = 1..(Len(a) + Len(b))
      /\ \A i \in 1..Len(a) : c[i] = a[i]
      /\ \A i \in (Len(a) + 1)..(Len(a) + Len(b)) : c[i] = b[i - Len(a)]
  BY <1>1
<1>3. Range(c) = Range(a) \cup Range(b)
  BY <1>1, RangeOfConcat
<1>4. Together(S, c) = Together(S, a) \cup Together(S, b)
  BY <1>3 DEF Together
<1>5. /\ \A i \in DOMAIN a : S[a[i]] \subseteq Together(S, a)
      /\ \A i \in DOMAIN b : S[b[i]] \subseteq Together(S, b)
  <2>1. (\A i \in DOMAIN a : a[i] \in Range(a)) /\ (\A i \in DOMAIN b : b[i] \in Range(b))
    BY InRange
  <2> QED
    BY <2>1 DEF Together
<1>6. \A i \in DOMAIN c : \/ i \in DOMAIN a /\ c[i] = a[i]
                          \/ i - Len(a) \in DOMAIN b /\ c[i] = b[i - Len(a)] /\ i \notin DOMAIN a
  BY <1>2
<1>7. ASSUME NEW i \in DOMAIN c, NEW j \in DOMAIN c, i # j
      PROVE  S[c[i]] \cap S[c[j]] = {}
  <2>1. CASE i \in DOMAIN a /\ j \in DOMAIN a
    BY <1>2, <1>7, <2>1 DEF Apart
  <2>2. CASE i \notin DOMAIN a /\ j \notin DOMAIN a
    <3>1. i - Len(a) # j - Len(a)
      BY <1>2, <1>7
    <3> QED
      BY <1>6, <2>2, <3>1 DEF Apart
  <2>3. CASE i \in DOMAIN a /\ j \notin DOMAIN a
    BY <1>5, <1>6, <2>3
  <2>4. CASE i \notin DOMAIN a /\ j \in DOMAIN a
    BY <1>5, <1>6, <2>4
  <2> QED
    BY <2>1, <2>2, <2>3, <2>4
<1>8. Apart(S, c)
  BY <1>7 DEF Apart
<1> QED
  BY <1>1, <1>2, <1>4, <1>8

\* Parts that share nothing can be flattened.
LEMMA FlattenApart ==
    ASSUME NEW T, NEW S, NEW s \in Seq(Seq(T)), \A i \in DOMAIN s : Apart(S, s[i]),
           \A i, j \in DOMAIN s : i # j => Together(S, s[i]) \cap Together(S, s[j]) = {}
    PROVE  /\ Flatten(s) \in Seq(T) /\ Apart(S, Flatten(s))
           /\ \A x : x \in Together(S, Flatten(s)) <=> \E i \in DOMAIN s : x \in Together(S, s[i])
<1>1. Len(s) \in Nat /\ DOMAIN s = 1..Len(s) /\ \A i \in DOMAIN s : s[i] \in Seq(T)
  OBVIOUS
<1>2. PICK f : /\ Flatten(s) = f[Len(s)] /\ f[0] = <<>>
               /\ \A m \in Nat : m + 1 <= Len(s) => f[m + 1] = f[m] \o s[m + 1]
  BY <1>1, FlattenSteps
<1> DEFINE Good(m) == /\ f[m] \in Seq(T) /\ Apart(S, f[m])
                      /\ \A x : x \in Together(S, f[m]) <=> \E i \in 1..m : x \in Together(S, s[i])
           G == {m \in Nat : m <= Len(s) => Good(m)}
<1>3. 0 \in G
  <2>1. <<>> \in Seq(T) /\ Range(<<>>) = {} /\ DOMAIN <<>> = {}
    BY RangeOfEmpty
  <2>2. Apart(S, <<>>) /\ Together(S, <<>>) = {}
    BY <2>1 DEF Apart, Together
  <2>3. \A i : i \notin 1..0
    OBVIOUS
  <2> QED
    BY <1>2, <2>1, <2>2, <2>3
<1>4. ASSUME NEW m \in Nat, m \in G PROVE m + 1 \in G
  <2> SUFFICES ASSUME m + 1 <= Len(s) PROVE Good(m + 1)
    OBVIOUS
  <2>1. /\ m <= Len(s) /\ m + 1 \in DOMAIN s /\ 1..(m + 1) = 1..m \cup {m + 1}
        /\ 1..m \subseteq DOMAIN s /\ m + 1 \notin 1..m
    BY <1>1
  <2>2. f[m + 1] = f[m] \o s[m + 1] /\ Good(m)
    BY <1>2, <1>4, <2>1
  <2>3. Together(S, f[m]) \cap Together(S, s[m + 1]) = {}
    <3>1. \A i \in 1..m : Together(S, s[i]) \cap Together(S, s[m + 1]) = {}
      BY <2>1
    <3> QED
      BY <2>2, <3>1
  <2>4. PICK a, b : a = f[m] /\ b = s[m + 1]
    OBVIOUS
  <2>5. /\ a \in Seq(T) /\ b \in Seq(T) /\ Apart(S, a) /\ Apart(S, b)
        /\ Together(S, a) \cap Together(S, b) = {}
    BY <1>1, <2>1, <2>2, <2>3, <2>4
  <2>6. /\ a \o b \in Seq(T) /\ Apart(S, a \o b)
        /\ Together(S, a \o b) = Together(S, a) \cup Together(S, b)
    BY <2>5, ApartConcat
  <2>7. \A x : (\E i \in 1..(m + 1) : x \in Together(S, s[i]))
                 <=> (\E i \in 1..m : x \in Together(S, s[i])) \/ x \in Together(S, b)
    BY <2>1, <2>4
  <2> QED
    BY <2>2, <2>4, <2>6, <2>7
<1>5. Len(s) \in G
  <2> HIDE DEF G
  <2>1. Nat \subseteq G
    BY <1>3, <1>4, SetInduction
  <2> QED
    BY <1>1, <2>1
<1>6. Good(Len(s))
  BY <1>1, <1>5
<1> QED
  BY <1>1, <1>2, <1>6

\* Cutting a sequence leaves two that share nothing.
LEMMA ApartCut ==
    ASSUME NEW T, NEW S, NEW s \in Seq(T), NEW n \in DOMAIN s, Apart(S, s)
    PROVE  LET a == SubSeq(s, 1, n)
               b == SubSeq(s, n + 1, Len(s))
           IN  /\ a \in Seq(T) /\ b \in Seq(T) /\ Apart(S, a) /\ Apart(S, b)
               /\ Together(S, a) \cap Together(S, b) = {}
               /\ Together(S, s) = Together(S, a) \cup Together(S, b)
<1> DEFINE a == SubSeq(s, 1, n)
           b == SubSeq(s, n + 1, Len(s))
<1>1. /\ Len(s) \in Nat /\ DOMAIN s = 1..Len(s) /\ n \in 1..Len(s)
  OBVIOUS
<1>2. /\ a \in Seq(T) /\ DOMAIN a = 1..n /\ \A i \in 1..n : a[i] = s[i]
  BY <1>1
<1>3. /\ b \in Seq(T) /\ DOMAIN b = 1..(Len(s) - n)
      /\ \A i \in 1..(Len(s) - n) : b[i] = s[i + n]
  BY <1>1
<1>4. Range(s) = Range(a) \cup Range(b)
  BY SubSeqSplit
<1> HIDE DEF a, b
<1>5. Apart(S, a)
  BY <1>1, <1>2 DEF Apart
<1>6. Apart(S, b)
  <2>1. \A i \in DOMAIN b : i + n \in DOMAIN s /\ b[i] = s[i + n] /\ i \in Nat
    BY <1>1, <1>3
  <2>2. \A i, j \in DOMAIN b : i # j => i + n # j + n
    BY <1>1, <2>1
  <2> QED
    BY <2>1, <2>2 DEF Apart
<1>7. ASSUME NEW x \in Range(a), NEW y \in Range(b) PROVE S[x] \cap S[y] = {}
  <2>1. PICK i \in DOMAIN a : a[i] = x
    BY <1>2, <1>7, InRange
  <2>2. PICK j \in DOMAIN b : b[j] = y
    BY <1>3, <1>7, InRange
  <2>3. i \in DOMAIN s /\ j + n \in DOMAIN s /\ i # j + n /\ s[i] = x /\ s[j + n] = y
    BY <1>1, <1>2, <1>3, <2>1, <2>2
  <2> QED
    BY <2>3 DEF Apart
<1>8. Together(S, a) \cap Together(S, b) = {}
  BY <1>7 DEF Together
<1>9. Together(S, s) = Together(S, a) \cup Together(S, b)
  BY <1>4 DEF Together
<1> QED
  BY <1>2, <1>3, <1>5, <1>6, <1>8, <1>9 DEF a, b

-----------------------------------------------------------------------------
(* The places of pairs, events, requests and commands *)

\* Transactions write short values, delete and roll back.
Plain == \A q \in everWritten : q.kind \notin {"long", "lock"}

\* The place a pair takes in the target's store, and those the pairs of a request take.
Slot(kv) == <<kv.cf, kv.pair.key, kv.pair.ts>>
Slots(req) ==
    {x \in Cf \X DataKeys \X Ts :
        /\ req.type = "put"
        /\ \/ /\ req.cf = "default" /\ x[1] = "default"
              /\ x[2] = DataKey(req.put.key) /\ x[3] = req.put.ts
           \/ /\ req.cf = "write" /\ req.put.kind # "rollback"
              /\ x[2] = DataKey(req.put.key)
              /\ x[3] = IF x[1] = "write" THEN req.put.ts ELSE req.put.start}

OfPair == [kv \in Pair |-> {Slot(kv)}]
OfEvent == [e \in PcrEvent |-> Together(OfPair, e.kvs)]
OfRequest == [req \in Request |-> Slots(req)]
OfCommand == [c \in Seq(Request) |-> Together(OfRequest, c)]

\* The places taken by what is applied, streamed and buffered.
AppliedSlots == Together(OfCommand, applied)
StreamSlots == Together(OfEvent, stream)
BufferSlots(w) == Together(OfPair, kvBuf[w])
InUse(x) == x \in AppliedSlots \/ x \in StreamSlots \/ \E w \in Worker : x \in BufferSlots(w)

\* No place is taken twice by what can still meet in one buffer.
Unshared ==
    /\ Apart(OfCommand, applied) /\ \A c \in Range(applied) : Apart(OfRequest, c)
    /\ Apart(OfEvent, stream) /\ \A e \in Range(stream) : Apart(OfPair, e.kvs)
    /\ \A w \in Worker : Apart(OfPair, kvBuf[w])
    /\ AppliedSlots \cap StreamSlots = {}
    /\ \A w \in Worker : BufferSlots(w) \cap (AppliedSlots \cup StreamSlots) = {}

\* The places that commits still to come will take are free.
Free ==
    /\ \A x : InUse(x) => x[3] \in 0..tso
    /\ \A k \in Key : lock[k].start \in 0..tso
    /\ \A k \in Key : \A x :
           lock[k].kind \in {"short", "delete"} /\ x = <<"default", DataKey(k), lock[k].start>>
           => ~InUse(x)

LInv == Plain => Unshared /\ Free /\ lost = {}

\* A request that puts no value and no committed record takes no place.
LEMMA NoSlots ==
    ASSUME NEW req \in Request,
           \/ req.type # "put" \/ req.cf = "lock"
           \/ req.cf = "write" /\ req.put.kind = "rollback"
    PROVE  OfRequest[req] = {}
BY DEF OfRequest, Slots

\* The place of a value and the two of a record.
LEMMA PutSlots ==
    /\ \A e \in SourceEntry : \A x :
           x \in OfRequest[PutDefault(e)] => x = <<"default", DataKey(e.key), e.ts>>
    /\ \A r \in SourceRecord : \A x :
           x \in OfRequest[PutWrite(r)] =>
               \/ x = <<"default", DataKey(r.key), r.start>>
               \/ x = <<"write", DataKey(r.key), r.ts>>
<1>1. ASSUME NEW e \in SourceEntry, NEW x \in OfRequest[PutDefault(e)]
      PROVE  x = <<"default", DataKey(e.key), e.ts>>
  <2>1. PutDefault(e) \in Request /\ PutDefault(e).cf = "default" /\ PutDefault(e).put = e
    BY RequestTypes DEF PutDefault
  <2>2. x \in Slots(PutDefault(e))
    BY <1>1, <2>1 DEF OfRequest
  <2>3. /\ x \in Cf \X DataKeys \X Ts /\ x[1] = "default" /\ x[2] = DataKey(e.key)
        /\ x[3] = e.ts
    BY <2>1, <2>2 DEF Slots
  <2> QED
    BY <2>3
<1>2. ASSUME NEW r \in SourceRecord, NEW x \in OfRequest[PutWrite(r)]
      PROVE  \/ x = <<"default", DataKey(r.key), r.start>>
             \/ x = <<"write", DataKey(r.key), r.ts>>
  <2>1. PutWrite(r) \in Request /\ PutWrite(r).cf = "write" /\ PutWrite(r).put = r
    BY RequestTypes DEF PutWrite
  <2>2. x \in Slots(PutWrite(r))
    BY <1>2, <2>1 DEF OfRequest
  <2>3. /\ x \in Cf \X DataKeys \X Ts /\ x[2] = DataKey(r.key)
        /\ x[3] = IF x[1] = "write" THEN r.ts ELSE r.start
    BY <2>1, <2>2 DEF Slots
  <2> QED
    BY <2>3 DEF Cf
<1> QED
  BY <1>1, <1>2

\* The pairs of a request take its places, each its own.
LEMMA SinkRequestSlots ==
    ASSUME SourceOK, Plain, NEW req \in Request, Proper(req)
    PROVE  /\ Apart(OfPair, SinkRequest(req))
           /\ Together(OfPair, SinkRequest(req)) \subseteq OfRequest[req]
<1>1. Apart(OfPair, <<>>) /\ Together(OfPair, <<>>) = {}
  BY RangeOfEmpty DEF Apart, Together
<1>2. CASE req.type # "put" \/ req.cf = "lock"
  <2>1. SinkRequest(req) = <<>>
    BY <1>2 DEF SinkRequest, SinkPut
  <2> QED
    BY <1>1, <2>1
<1>3. CASE req.type = "put" /\ req.cf = "default"
  <2>1. PICK e : e = req.put
    OBVIOUS
  <2>2. e \in SourceEntry /\ OwnValue(e)
    BY <1>3, <2>1 DEF Proper
  <2>3. e.key \in Key /\ e.ts \in Ts /\ e.value \in Value
    BY <2>2 DEF SourceEntry
  <2>4. PICK kv : kv = CopyDefault(e, e.ts, e.value)
    OBVIOUS
  <2>5. kv \in Pair
    BY <2>2, <2>3, <2>4, TsFits, CopyDefaultFacts DEF OwnValue
  <2>6. Slot(kv) = <<"default", DataKey(e.key), e.ts>>
    BY <2>4 DEF CopyDefault, Kv, Entry, Slot
  <2>7. Slot(kv) \in OfRequest[req]
    BY <1>3, <2>1, <2>3, <2>6 DEF OfRequest, Slots, Cf, DataKeys
  <2>8. SinkRequest(req) = <<kv>>
    BY <1>3, <2>1, <2>4 DEF SinkRequest, SinkPut
  <2>9. Range(<<kv>>) = {kv} /\ DOMAIN <<kv>> = {1}
    BY <2>5, RangeOfOne
  <2>10. OfPair[kv] = {Slot(kv)}
    BY <2>5 DEF OfPair
  <2>11. Together(OfPair, <<kv>>) = {Slot(kv)}
    BY <2>9, <2>10 DEF Together
  <2>12. Apart(OfPair, <<kv>>)
    BY <2>9 DEF Apart
  <2> QED
    BY <2>7, <2>8, <2>11, <2>12
<1>4. CASE req.type = "put" /\ req.cf = "write"
  <2>1. PICK r : r = req.put
    OBVIOUS
  <2>2. r \in everWritten /\ r \in SourceRecord /\ r.kind \notin {"long", "lock"}
    BY <1>4, <2>1 DEF Proper, SourceOK, Plain
  <2>3. r.kind \in {"short", "delete", "rollback"}
    BY <2>2, MvccAssumption DEF SourceRecord
  <2>4. SinkRequest(req) = SinkWrite(r)
    BY <1>4, <2>1 DEF SinkRequest, SinkPut
  <2>5. CASE r.kind = "rollback"
    <3>1. SinkWrite(r) = <<>>
      BY <2>5 DEF SinkWrite
    <3> QED
      BY <1>1, <2>4, <3>1
  <2>6. CASE r.kind # "rollback"
    <3>1. r.key \in Key /\ r.start \in Ts /\ r.ts \in Ts
      BY <2>2 DEF SourceRecord
    <3>2. /\ WrittenBy(r.start) \in Value /\ WrittenBy(r.start).ts = r.start
          /\ Empty \in Value /\ Empty.kind # "value"
      BY <3>1 DEF Value, WrittenBy, Empty
    <3>3. PICK v \in {WrittenBy(r.start), Empty} :
              SinkWrite(r) = <<CopyDefault(r, r.start, v), CopyWrite(r)>>
      BY <2>3, <2>6 DEF SinkWrite
    <3>4. PICK a, b : a = CopyDefault(r, r.start, v) /\ b = CopyWrite(r)
      OBVIOUS
    <3>5. a \in Pair
      BY <3>1, <3>2, <3>4, TsFits, CopyDefaultFacts
    <3>6. b = [cf |-> "write", pair |-> Copy(r)] /\ Copy(r) \in TargetRecord
      BY <2>2, <2>6, <3>4, CopyFacts
    <3>7. b \in Pair
      BY <3>6 DEF Pair, Cf
    <3>8. Slot(a) = <<"default", DataKey(r.key), r.start>>
      BY <3>4 DEF CopyDefault, Kv, Entry, Slot
    <3>9. Slot(b) = <<"write", DataKey(r.key), r.ts>>
      BY <2>2, <3>6, CopyFacts DEF Slot
    <3>10. Slot(a) \in OfRequest[req] /\ Slot(b) \in OfRequest[req]
      BY <1>4, <2>1, <2>6, <3>1, <3>8, <3>9 DEF OfRequest, Slots, Cf, DataKeys
    <3>11. OfPair[a] = {Slot(a)} /\ OfPair[b] = {Slot(b)} /\ Slot(a) # Slot(b)
      BY <3>5, <3>7, <3>8, <3>9 DEF OfPair
    <3>12. /\ Range(<<a, b>>) = {a, b} /\ DOMAIN <<a, b>> = {1, 2}
           /\ <<a, b>>[1] = a /\ <<a, b>>[2] = b
      BY <3>5, <3>7, RangeOfTwo
    <3>13. Together(OfPair, <<a, b>>) \subseteq OfRequest[req]
      BY <3>10, <3>11, <3>12 DEF Together
    <3>14. Apart(OfPair, <<a, b>>)
      BY <3>11, <3>12 DEF Apart
    <3> QED
      BY <2>4, <3>3, <3>4, <3>13, <3>14
  <2> QED
    BY <2>5, <2>6
<1> QED
  BY <1>2, <1>3, <1>4 DEF Proper

-----------------------------------------------------------------------------
(* The delegate *)

\* Events without pairs take no place.
LEMMA QuietEvents ==
    ASSUME NEW s \in Seq(PcrEvent), \A e \in Range(s) : e.kvs = <<>>
    PROVE  /\ Apart(OfEvent, s) /\ Together(OfEvent, s) = {}
           /\ \A e \in Range(s) : Apart(OfPair, e.kvs)
<1>1. Together(OfPair, <<>>) = {} /\ Apart(OfPair, <<>>)
  BY RangeOfEmpty DEF Together, Apart
<1>2. \A e \in Range(s) : e \in PcrEvent
  BY InRange
<1>3. \A e \in Range(s) : OfEvent[e] = {}
  BY <1>1, <1>2 DEF OfEvent
<1>4. \A i \in DOMAIN s : OfEvent[s[i]] = {}
  BY <1>3, InRange
<1> QED
  BY <1>1, <1>3, <1>4 DEF Apart, Together

\* The events of a command take places of its requests, each its own.
LEMMA SinkDataSlots ==
    ASSUME SourceOK, Plain, NEW command \in Seq(Request), Apart(OfRequest, command),
           \A req \in Range(command) : Proper(req)
    PROVE  /\ SinkData(command) \in Seq(PcrEvent)
           /\ Apart(OfEvent, SinkData(command))
           /\ \A e \in Range(SinkData(command)) : Apart(OfPair, e.kvs)
           /\ Together(OfEvent, SinkData(command)) \subseteq OfCommand[command]
<1> DEFINE parts == [i \in DOMAIN command |-> SinkRequest(command[i])]
           found == [i \in DOMAIN command |-> SinkRange(command[i])]
           kvs == Flatten(parts)
           rest == IF kvs = <<>> THEN <<>> ELSE <<KvBatch(kvs)>>
<1>1. \A i \in DOMAIN command :
          /\ command[i] \in Request /\ command[i] \in Range(command)
          /\ Proper(command[i])
  BY InRange
<1>2. \A i \in DOMAIN command :
          /\ SinkRequest(command[i]) \in Seq(Pair)
          /\ SinkRange(command[i]) \in Seq(PcrEvent)
          /\ \A e \in Range(SinkRange(command[i])) : e.kvs = <<>>
  BY <1>1, SinkRequestFacts, RangeFacts
<1>3. \A i \in DOMAIN command :
          /\ Apart(OfPair, SinkRequest(command[i]))
          /\ Together(OfPair, SinkRequest(command[i])) \subseteq OfRequest[command[i]]
  BY <1>1, SinkRequestSlots
<1>4. /\ parts \in Seq(Seq(Pair)) /\ found \in Seq(Seq(PcrEvent))
      /\ DOMAIN parts = DOMAIN command /\ DOMAIN found = DOMAIN command
      /\ \A i \in DOMAIN command : parts[i] = SinkRequest(command[i])
      /\ \A i \in DOMAIN command : found[i] = SinkRange(command[i])
  <2>1. DOMAIN command = 1..Len(command) /\ Len(command) \in Nat
    OBVIOUS
  <2> QED
    BY <1>2, <2>1
<1>5. SinkData(command) = Flatten(found) \o rest
  BY Zenon DEF SinkData
<1> HIDE DEF parts, found
<1>6. \A i, j \in DOMAIN parts :
          i # j => Together(OfPair, parts[i]) \cap Together(OfPair, parts[j]) = {}
  <2>1. \A i, j \in DOMAIN command :
            i # j => OfRequest[command[i]] \cap OfRequest[command[j]] = {}
    BY DEF Apart
  <2>2. \A i \in DOMAIN parts : Together(OfPair, parts[i]) \subseteq OfRequest[command[i]]
    BY <1>3, <1>4
  <2> QED
    BY <1>4, <2>1, <2>2
<1>7. \A i \in DOMAIN parts : Apart(OfPair, parts[i])
  BY <1>3, <1>4
<1>8. /\ kvs \in Seq(Pair) /\ Apart(OfPair, kvs)
      /\ \A x : x \in Together(OfPair, kvs)
                  <=> \E i \in DOMAIN parts : x \in Together(OfPair, parts[i])
  BY <1>4, <1>6, <1>7, FlattenApart
<1>9. Together(OfPair, kvs) \subseteq OfCommand[command]
  <2>1. \A x \in Together(OfPair, kvs) : \E i \in DOMAIN command : x \in OfRequest[command[i]]
    BY <1>3, <1>4, <1>8
  <2>2. OfCommand[command] = Together(OfRequest, command)
    BY DEF OfCommand
  <2> QED
    BY <1>1, <2>1, <2>2 DEF Together
<1>10. /\ Flatten(found) \in Seq(PcrEvent)
       /\ \A e \in Range(Flatten(found)) : e.kvs = <<>>
  <2>1. /\ Flatten(found) \in Seq(PcrEvent)
        /\ \A x : x \in Range(Flatten(found)) <=> \E i \in DOMAIN found : x \in Range(found[i])
    BY <1>4, FlattenFacts
  <2> QED
    BY <1>2, <1>4, <2>1
<1> HIDE DEF kvs
<1>11. PICK a : a = Flatten(found)
  OBVIOUS
<1>12. /\ a \in Seq(PcrEvent) /\ Apart(OfEvent, a) /\ Together(OfEvent, a) = {}
       /\ \A e \in Range(a) : Apart(OfPair, e.kvs)
  BY <1>10, <1>11, QuietEvents
<1>13. /\ rest \in Seq(PcrEvent) /\ Apart(OfEvent, rest)
       /\ Together(OfEvent, rest) \subseteq Together(OfPair, kvs)
       /\ \A e \in Range(rest) : Apart(OfPair, e.kvs)
  <2>1. CASE kvs = <<>>
    <3>1. rest = <<>> /\ <<>> \in Seq(PcrEvent) /\ Range(<<>>) = {}
      BY <2>1, RangeOfEmpty
    <3>2. Apart(OfEvent, <<>>) /\ Together(OfEvent, <<>>) = {}
      BY <3>1, QuietEvents
    <3> QED
      BY <3>1, <3>2
  <2>2. CASE kvs # <<>>
    <3>1. PICK e : e = KvBatch(kvs)
      OBVIOUS
    <3>2. e \in PcrEvent /\ e.kvs = kvs
      BY <1>8, <3>1 DEF KvBatch, PcrEvent
    <3>3. /\ <<e>> \in Seq(PcrEvent) /\ Range(<<e>>) = {e} /\ DOMAIN <<e>> = {1}
      BY <3>2, RangeOfOne
    <3>4. OfEvent[e] = Together(OfPair, kvs)
      BY <3>2 DEF OfEvent
    <3>5. Together(OfEvent, <<e>>) = Together(OfPair, kvs)
      BY <3>3, <3>4 DEF Together
    <3>6. Apart(OfEvent, <<e>>)
      BY <3>3 DEF Apart
    <3>7. rest = <<e>>
      BY <2>2, <3>1
    <3> QED
      BY <1>8, <3>2, <3>3, <3>5, <3>6, <3>7
  <2> QED
    BY <2>1, <2>2
<1> HIDE DEF rest
<1>14. PICK b : b = rest
  OBVIOUS
<1>15. /\ b \in Seq(PcrEvent) /\ Apart(OfEvent, b)
       /\ Together(OfEvent, a) \cap Together(OfEvent, b) = {}
  BY <1>12, <1>13, <1>14
<1>16. /\ a \o b \in Seq(PcrEvent) /\ Apart(OfEvent, a \o b)
       /\ Together(OfEvent, a \o b) = Together(OfEvent, a) \cup Together(OfEvent, b)
  <2>1. a \in Seq(PcrEvent) /\ Apart(OfEvent, a)
    BY <1>12
  <2> QED
    BY <1>15, <2>1, ApartConcat
<1>17. Range(a \o b) = Range(a) \cup Range(b)
  BY <1>12, <1>13, <1>14, RangeOfConcat
<1>18. SinkData(command) = a \o b
  BY <1>5, <1>11, <1>14
<1> QED
  BY <1>9, <1>12, <1>13, <1>14, <1>16, <1>17, <1>18

\* The events a batch adds take places of its commands, each its own.
LEMMA OnBatchSlots ==
    ASSUME SourceOK, Plain, NEW batch \in Seq(Seq(Request)), Apart(OfCommand, batch),
           \A c \in Range(batch) : Apart(OfRequest, c) /\ \A req \in Range(c) : Proper(req),
           NEW before \in Seq(PcrEvent), Apart(OfEvent, before),
           \A e \in Range(before) : Apart(OfPair, e.kvs),
           Together(OfCommand, batch) \cap Together(OfEvent, before) = {}
    PROVE  LET after == before \o Flatten([i \in DOMAIN batch |-> SinkData(batch[i])])
                               \o DeleteRanges(batch)
           IN  /\ Apart(OfEvent, after)
               /\ \A e \in Range(after) : Apart(OfPair, e.kvs)
               /\ Together(OfEvent, after)
                    \subseteq Together(OfEvent, before) \cup Together(OfCommand, batch)
<1> DEFINE parts == [i \in DOMAIN batch |-> SinkData(batch[i])]
<1>1. \A i \in DOMAIN batch :
          /\ batch[i] \in Seq(Request) /\ batch[i] \in Range(batch)
          /\ Apart(OfRequest, batch[i]) /\ \A req \in Range(batch[i]) : Proper(req)
  BY InRange
<1>2. \A i \in DOMAIN batch :
          /\ SinkData(batch[i]) \in Seq(PcrEvent)
          /\ Apart(OfEvent, SinkData(batch[i]))
          /\ \A e \in Range(SinkData(batch[i])) : Apart(OfPair, e.kvs)
          /\ Together(OfEvent, SinkData(batch[i])) \subseteq OfCommand[batch[i]]
  BY <1>1, SinkDataSlots
<1>3. /\ parts \in Seq(Seq(PcrEvent)) /\ DOMAIN parts = DOMAIN batch
      /\ \A i \in DOMAIN batch : parts[i] = SinkData(batch[i])
  <2>1. DOMAIN batch = 1..Len(batch) /\ Len(batch) \in Nat
    OBVIOUS
  <2> QED
    BY <1>2, <2>1
<1>4. PICK sunk, collected : sunk = Flatten(parts) /\ collected = DeleteRanges(batch)
  OBVIOUS
<1> HIDE DEF parts
<1>5. \A i, j \in DOMAIN parts :
          i # j => Together(OfEvent, parts[i]) \cap Together(OfEvent, parts[j]) = {}
  <2>1. \A i, j \in DOMAIN batch : i # j => OfCommand[batch[i]] \cap OfCommand[batch[j]] = {}
    BY DEF Apart
  <2>2. \A i \in DOMAIN parts : Together(OfEvent, parts[i]) \subseteq OfCommand[batch[i]]
    BY <1>2, <1>3
  <2> QED
    BY <1>3, <2>1, <2>2
<1>6. \A i \in DOMAIN parts : Apart(OfEvent, parts[i])
  BY <1>2, <1>3
<1>7. /\ sunk \in Seq(PcrEvent) /\ Apart(OfEvent, sunk)
      /\ \A x : x \in Together(OfEvent, sunk)
                  <=> \E i \in DOMAIN parts : x \in Together(OfEvent, parts[i])
  BY <1>3, <1>4, <1>5, <1>6, FlattenApart
<1>8. \A e \in Range(sunk) : Apart(OfPair, e.kvs)
  <2>1. \A x : x \in Range(Flatten(parts)) <=> \E i \in DOMAIN parts : x \in Range(parts[i])
    BY <1>3, FlattenFacts
  <2> QED
    BY <1>2, <1>3, <1>4, <2>1
<1>9. Together(OfEvent, sunk) \subseteq Together(OfCommand, batch)
  <2>1. \A x \in Together(OfEvent, sunk) : \E i \in DOMAIN batch : x \in OfCommand[batch[i]]
    BY <1>2, <1>3, <1>7
  <2> QED
    BY <1>1, <2>1 DEF Together
<1>10. /\ collected \in Seq(PcrEvent) /\ \A e \in Range(collected) : e.kvs = <<>>
  BY <1>4, DeleteRangesFacts
<1>11. /\ Apart(OfEvent, collected) /\ Together(OfEvent, collected) = {}
       /\ \A e \in Range(collected) : Apart(OfPair, e.kvs)
  BY <1>10, QuietEvents
<1>12. PICK front : front = before \o sunk
  OBVIOUS
<1>13. /\ front \in Seq(PcrEvent) /\ Apart(OfEvent, front)
       /\ Together(OfEvent, front) = Together(OfEvent, before) \cup Together(OfEvent, sunk)
  <2>1. Together(OfEvent, before) \cap Together(OfEvent, sunk) = {}
    BY <1>9
  <2> QED
    BY <1>7, <1>12, <2>1, ApartConcat
<1>14. Range(front) = Range(before) \cup Range(sunk)
  BY <1>7, <1>12, RangeOfConcat
<1>15. /\ Apart(OfEvent, front \o collected)
       /\ Together(OfEvent, front \o collected)
            = Together(OfEvent, front) \cup Together(OfEvent, collected)
  <2>1. Together(OfEvent, front) \cap Together(OfEvent, collected) = {}
    BY <1>11
  <2> QED
    BY <1>10, <1>11, <1>13, <2>1, ApartConcat
<1>16. Range(front \o collected) = Range(front) \cup Range(collected)
  BY <1>10, <1>13, RangeOfConcat
<1>17. before \o Flatten(parts) \o DeleteRanges(batch) = front \o collected
  BY <1>4, <1>12
<1>18. \A e \in Range(front \o collected) : Apart(OfPair, e.kvs)
  BY <1>8, <1>11, <1>14, <1>16
<1>19. Together(OfEvent, front \o collected)
         \subseteq Together(OfEvent, before) \cup Together(OfCommand, batch)
  BY <1>9, <1>11, <1>13, <1>15
<1> QED
  BY <1>15, <1>17, <1>18, <1>19 DEF parts

-----------------------------------------------------------------------------
(* The source *)

\* A command whose places are free can be applied.
LEMMA CommandKeeps ==
    ASSUME VInv, Unshared, NEW command \in Seq(Request),
           applied' = Append(applied, command), Apart(OfRequest, command),
           \A x \in OfCommand[command] : ~InUse(x),
           UNCHANGED <<stream, nextIdx, targetVars>>
    PROVE  /\ Unshared' /\ lost' = lost
           /\ \A x : InUse(x)' => InUse(x) \/ x \in OfCommand[command]
<1>1. applied \in Seq(Seq(Request)) /\ UNCHANGED <<stream, kvBuf, lost>>
  BY DEF VInv, SourceOK, targetVars
<1>2. PICK one : one = <<command>>
  OBVIOUS
<1>3. /\ one \in Seq(Seq(Request)) /\ Range(one) = {command} /\ DOMAIN one = {1}
  BY <1>2, RangeOfOne
<1>4. Apart(OfCommand, one) /\ Together(OfCommand, one) = OfCommand[command]
  BY <1>3 DEF Apart, Together
<1>5. Together(OfCommand, applied) \cap Together(OfCommand, one) = {}
  BY <1>4 DEF InUse, AppliedSlots
<1>6. applied' = applied \o one
  BY <1>1, <1>2
<1>7. /\ Apart(OfCommand, applied \o one)
      /\ Together(OfCommand, applied \o one)
           = Together(OfCommand, applied) \cup Together(OfCommand, one)
  <2>1. Apart(OfCommand, applied)
    BY DEF Unshared
  <2> QED
    BY <1>1, <1>3, <1>4, <1>5, <2>1, ApartConcat
<1>8. Range(applied \o one) = Range(applied) \cup {command}
  BY <1>1, <1>3, RangeOfConcat
<1>9. AppliedSlots' = AppliedSlots \cup OfCommand[command] /\ StreamSlots' = StreamSlots
  BY <1>1, <1>4, <1>6, <1>7 DEF AppliedSlots, StreamSlots
<1>10. \A w \in Worker : BufferSlots(w)' = BufferSlots(w)
  BY <1>1 DEF BufferSlots
<1>11. Apart(OfCommand, applied') /\ \A c \in Range(applied') : Apart(OfRequest, c)
  BY <1>6, <1>7, <1>8 DEF Unshared
<1>12. /\ Apart(OfEvent, stream') /\ \A e \in Range(stream') : Apart(OfPair, e.kvs)
       /\ \A w \in Worker : Apart(OfPair, kvBuf'[w])
  BY <1>1 DEF Unshared
<1>13. AppliedSlots' \cap StreamSlots' = {}
  BY <1>9 DEF Unshared, InUse
<1>14. \A w \in Worker : BufferSlots(w)' \cap (AppliedSlots' \cup StreamSlots') = {}
  BY <1>9, <1>10 DEF Unshared, InUse
<1>15. Unshared'
  BY <1>11, <1>12, <1>13, <1>14 DEF Unshared
<1>16. \A x : InUse(x)' => InUse(x) \/ x \in OfCommand[command]
  BY <1>9, <1>10 DEF InUse
<1> QED
  BY <1>1, <1>15, <1>16

\* A command whose places are free, and a step that leaves or sets only locks that want
\* none of them.
Fits(command) ==
    /\ command \in Seq(Request) /\ applied' = Append(applied, command)
    /\ Apart(OfRequest, command)
    /\ tso' \in Nat /\ tso <= tso'
    /\ \A j \in Key : lock'[j] = lock[j] \/ lock'[j].start \in 0..tso'
    /\ \A x \in OfCommand[command] : ~InUse(x) /\ x[3] \in 0..tso'
    /\ \A j \in Key : \A x :
           /\ lock'[j].kind \in {"short", "delete"}
           /\ x = <<"default", DataKey(j), lock'[j].start>>
           => x \notin OfCommand[command] /\ (lock'[j] = lock[j] \/ ~InUse(x))
    /\ UNCHANGED <<stream, nextIdx, targetVars>>

\* Such a command keeps what the commits to come need.
LEMMA SourceFree ==
    ASSUME VInv, Unshared, Free, NEW command, Fits(command)
    PROVE  Unshared' /\ Free' /\ lost' = lost
<1>1. /\ Unshared' /\ lost' = lost
      /\ \A x : InUse(x)' => InUse(x) \/ x \in OfCommand[command]
  BY CommandKeeps DEF Fits
<1>2. tso \in Nat
  BY DEF VInv, SourceOK, Ts
<1>3. \A x : InUse(x) => x[3] \in 0..tso'
  BY <1>2 DEF Free, Fits
<1>4. \A x : InUse(x)' => x[3] \in 0..tso'
  BY <1>1, <1>3 DEF Fits
<1>5. ASSUME NEW j \in Key, NEW x, lock'[j].kind \in {"short", "delete"},
             x = <<"default", DataKey(j), lock'[j].start>>
      PROVE  ~InUse(x)'
  <2>1. x \notin OfCommand[command] /\ (lock'[j] = lock[j] \/ ~InUse(x))
    BY Zenon, <1>5 DEF Fits
  <2>2. ~InUse(x)
    BY <1>5, <2>1 DEF Free
  <2> QED
    BY <1>1, <2>1, <2>2
<1>6. \A j \in Key : lock'[j].start \in 0..tso'
  <2>1. \A j \in Key : lock[j].start \in 0..tso'
    BY <1>2 DEF Free, Fits
  <2> QED
    BY Zenon, <2>1 DEF Fits
<1>7. Free'
  BY <1>4, <1>5, <1>6 DEF Free
<1> QED
  BY <1>1, <1>7

\* Where at most one request of a command takes places, they are the command's.
LEMMA OneRequest ==
    ASSUME NEW command \in Seq(Request), NEW p \in DOMAIN command,
           \A i \in DOMAIN command : i # p => OfRequest[command[i]] = {}
    PROVE  Apart(OfRequest, command) /\ OfCommand[command] = OfRequest[command[p]]
<1>1. Apart(OfRequest, command)
  BY DEF Apart
<1>2. OfCommand[command] = Together(OfRequest, command)
  BY DEF OfCommand
<1>3. \A x \in Range(command) : x = command[p] \/ OfRequest[x] = {}
  BY InRange
<1>4. command[p] \in Range(command)
  BY InRange
<1> QED
  BY <1>1, <1>2, <1>3, <1>4 DEF Together

\* A prewrite puts a long value at a new timestamp, and locks a key at one where no
\* other value is.
LEMMA PrewriteFree ==
    ASSUME VInv, Plain, Unshared, Free, NEW k \in Key, NEW kind \in Mutation,
           Prewrite(k, kind)
    PROVE  Unshared' /\ Free' /\ lost' = lost
<1>1. PICK start, puts, command :
          /\ start = tso + 1 /\ puts = PutDefaults(Values(k, start, kind))
          /\ command = puts \o <<PutLock(k)>>
  OBVIOUS
<1>2. /\ tso < MaxTs /\ tso' = start /\ applied' = Append(applied, command)
      /\ lock' = [lock EXCEPT ![k] = [start |-> start, kind |-> kind]]
      /\ UNCHANGED <<stream, nextIdx, targetVars>>
  BY <1>1 DEF Prewrite, Apply
<1>3. tso \in Nat /\ start \in Ts /\ start \in Nat /\ tso < start
      /\ lock \in [Key -> {NoLock} \cup [start : Ts, kind : Mutation]]
  BY <1>1, <1>2, MvccAssumption DEF VInv, SourceOK, Ts
<1>4. /\ PutLock(k) \in Request /\ OfRequest[PutLock(k)] = {}
  <2>1. PutLock(k) \in Request /\ PutLock(k).cf = "lock"
    BY RequestTypes DEF PutLock
  <2> QED
    BY <2>1, NoSlots
<1>5. /\ command \in Seq(Request) /\ Apart(OfRequest, command)
      /\ \A x \in OfCommand[command] : kind = "long" /\ x = <<"default", DataKey(k), start>>
  <2>1. CASE kind # "long"
    <3>1. puts = <<>>
      BY <1>1, <2>1 DEF Values, PutDefaults
    <3>2. PICK b : b = PutLock(k)
      OBVIOUS
    <3>3. command \in Seq(Request) /\ DOMAIN command = {1} /\ command[1] = PutLock(k)
      <4>1. command = <<>> \o <<b>> /\ b \in Request
        BY <1>1, <1>4, <3>1, <3>2
      <4> QED
        BY <3>2, <4>1
    <3>4. Apart(OfRequest, command) /\ OfCommand[command] = {}
      BY <1>4, <3>3, OneRequest
    <3> QED
      BY <3>3, <3>4
  <2>2. CASE kind = "long"
    <3>1. PICK e : e = Entry(k, start, WrittenBy(start))
      OBVIOUS
    <3>2. e \in SourceEntry /\ e.key = k /\ e.ts = start
      BY <1>3, <3>1 DEF Entry, WrittenBy, Value, SourceEntry
    <3>3. Values(k, start, kind) = <<e>>
      BY <2>2, <3>1 DEF Values
    <3>4. PutDefaults(<<e>>) = <<PutDefault(e)>> /\ PutDefault(e) \in Request
      BY <3>2, RequestTypes DEF PutDefaults
    <3>5. PICK a, b : a = PutDefault(e) /\ b = PutLock(k)
      OBVIOUS
    <3>6. command = <<a>> \o <<b>> /\ a \in Request /\ b \in Request
      BY <1>1, <1>4, <3>3, <3>4, <3>5
    <3>7. /\ command \in Seq(Request) /\ DOMAIN command = {1, 2}
          /\ command[1] = a /\ command[2] = b
      BY <3>6
    <3>8. Apart(OfRequest, command) /\ OfCommand[command] = OfRequest[a]
      BY <1>4, <3>5, <3>7, OneRequest
    <3>9. \A x \in OfRequest[a] : x = <<"default", DataKey(k), start>>
      BY <3>2, <3>5, PutSlots
    <3> QED
      BY <2>2, <3>7, <3>8, <3>9
  <2> QED
    BY <2>1, <2>2
<1>6. \A x : InUse(x) => x[3] # start
  BY <1>3 DEF Free
<1>7. \A x \in OfCommand[command] : ~InUse(x)
  BY <1>5, <1>6
<1>8. ASSUME NEW j \in Key, NEW x, lock'[j].kind \in {"short", "delete"},
             x = <<"default", DataKey(j), lock'[j].start>>
      PROVE  x \notin OfCommand[command] /\ (lock'[j] = lock[j] \/ ~InUse(x))
  <2>1. CASE j = k
    <3>1. lock'[j].start = start /\ kind # "long"
      BY <1>2, <1>3, <1>8, <2>1
    <3>2. x[3] = start
      BY <1>8, <3>1
    <3> QED
      BY <1>5, <1>6, <3>1, <3>2
  <2>2. CASE j # k
    <3>1. lock'[j] = lock[j]
      BY <1>2, <1>3, <2>2
    <3>2. DataKey(j) # DataKey(k)
      BY <2>2, DataKeyFacts
    <3> QED
      BY <1>5, <1>8, <3>1, <3>2
  <2> QED
    BY <2>1, <2>2
<1>9. \A x \in OfCommand[command] : ~InUse(x) /\ x[3] \in 0..tso'
  <2>1. start \in 0..tso'
    BY <1>2, <1>3
  <2>2. \A x \in OfCommand[command] : x[3] = start
    BY <1>5
  <2> QED
    BY Zenon, <1>7, <2>1, <2>2
<1>10. /\ tso' \in Nat /\ tso <= tso'
       /\ \A j \in Key : lock'[j] = lock[j] \/ lock'[j].start \in 0..tso'
  BY <1>2, <1>3
<1>11. Fits(command)
  <2>1. \A j \in Key : \A x :
            /\ lock'[j].kind \in {"short", "delete"}
            /\ x = <<"default", DataKey(j), lock'[j].start>>
            => x \notin OfCommand[command] /\ (lock'[j] = lock[j] \/ ~InUse(x))
    BY <1>8
  <2> QED
    BY <1>2, <1>5, <1>9, <1>10, <2>1 DEF Fits
<1> QED
  BY Zenon, <1>11, SourceFree

\* A commit takes the place its lock kept free and one at a new timestamp.
LEMMA CommitKeyFree ==
    ASSUME VInv, Plain', Unshared, Free, NEW k \in Key, CommitKey(k)
    PROVE  Unshared' /\ Free' /\ lost' = lost
<1>1. PICK record, a, b : /\ record = WriteRecord(k, tso + 1, lock[k].start, lock[k].kind)
                          /\ a = PutWrite(record) /\ b = Delete("lock", k)
  OBVIOUS
<1>2. PICK command : command = <<a, b>>
  OBVIOUS
<1>3. /\ tso < MaxTs /\ lock[k] # NoLock /\ tso' = tso + 1
      /\ applied' = Append(applied, command)
      /\ lock' = [lock EXCEPT ![k] = NoLock]
      /\ everWritten' = everWritten \cup {record}
      /\ UNCHANGED <<stream, nextIdx, targetVars>>
  BY <1>1, <1>2 DEF CommitKey, Apply
<1>4. /\ tso \in Nat /\ tso + 1 \in Ts /\ tso + 1 \in Nat
      /\ lock \in [Key -> {NoLock} \cup [start : Ts, kind : Mutation]]
  BY <1>3, MvccAssumption DEF VInv, SourceOK, Ts
<1>5. lock[k].start \in Ts /\ lock[k].kind \in Mutation
  BY <1>3, <1>4
<1>6. /\ record \in SourceRecord /\ record.key = k /\ record.ts = tso + 1
      /\ record.start = lock[k].start /\ record.kind = lock[k].kind
  BY <1>1, <1>4, <1>5 DEF WriteRecord, SourceRecord
<1>7. lock[k].kind \in {"short", "delete"}
  BY <1>3, <1>5, <1>6, MvccAssumption DEF Plain
<1>8. /\ a \in Request /\ b \in Request /\ OfRequest[b] = {}
  <2>1. b \in Request /\ b.type = "delete"
    BY <1>1, RequestTypes DEF Delete
  <2> QED
    BY <1>1, <1>6, <2>1, RequestTypes, NoSlots
<1>9. /\ command \in Seq(Request) /\ DOMAIN command = {1, 2}
      /\ command[1] = a /\ command[2] = b
  BY <1>2, <1>8
<1>10. Apart(OfRequest, command) /\ OfCommand[command] = OfRequest[a]
  BY <1>8, <1>9, OneRequest
<1>11. \A x \in OfCommand[command] : \/ x = <<"default", DataKey(k), lock[k].start>>
                                     \/ x = <<"write", DataKey(k), tso + 1>>
  BY <1>1, <1>6, <1>10, PutSlots
<1>12. ASSUME NEW x \in OfCommand[command] PROVE ~InUse(x) /\ x[3] \in 0..tso'
  <2>1. CASE x = <<"default", DataKey(k), lock[k].start>>
    <3>1. ~InUse(x)
      BY <1>7, <2>1 DEF Free
    <3>2. lock[k].start \in 0..tso
      BY DEF Free
    <3> QED
      BY <1>3, <1>4, <2>1, <3>1, <3>2
  <2>2. CASE x = <<"write", DataKey(k), tso + 1>>
    <3>1. x[3] = tso + 1
      BY <2>2
    <3> QED
      BY <1>3, <1>4, <3>1 DEF Free
  <2> QED
    BY <1>11, <2>1, <2>2
<1>13. ASSUME NEW j \in Key, NEW x, lock'[j].kind \in {"short", "delete"},
              x = <<"default", DataKey(j), lock'[j].start>>
       PROVE  x \notin OfCommand[command] /\ (lock'[j] = lock[j] \/ ~InUse(x))
  <2>1. j # k
    BY <1>3, <1>4, <1>13 DEF NoLock
  <2>2. lock'[j] = lock[j] /\ DataKey(j) # DataKey(k)
    BY <1>3, <1>4, <2>1, DataKeyFacts
  <2> QED
    BY <1>11, <1>13, <2>2
<1>14. /\ tso' \in Nat /\ tso <= tso'
       /\ \A j \in Key : lock'[j] = lock[j] \/ lock'[j].start \in 0..tso'
  BY <1>3, <1>4 DEF NoLock
<1>15. Fits(command)
  <2>1. \A j \in Key : \A x :
            /\ lock'[j].kind \in {"short", "delete"}
            /\ x = <<"default", DataKey(j), lock'[j].start>>
            => x \notin OfCommand[command] /\ (lock'[j] = lock[j] \/ ~InUse(x))
    BY <1>13
  <2> QED
    BY <1>3, <1>9, <1>10, <1>12, <1>14, <2>1 DEF Fits
<1> QED
  BY Zenon, <1>15, SourceFree

\* A rollback takes no place.
LEMMA RollbackKeyFree ==
    ASSUME VInv, Unshared, Free, NEW k \in Key, RollbackKey(k)
    PROVE  Unshared' /\ Free' /\ lost' = lost
<1>1. PICK start, record, entries :
          /\ start = lock[k].start /\ record = WriteRecord(k, start, start, "rollback")
          /\ entries = {e \in srcDefault : e.key = k /\ e.ts = start}
  OBVIOUS
<1>2. PICK front, back, command :
          /\ front = IF entries = {} THEN <<>> ELSE <<Delete("default", k)>>
          /\ back = <<PutWrite(record), Delete("lock", k)>>
          /\ command = front \o back
  OBVIOUS
<1>3. /\ lock[k] # NoLock /\ tso' = tso /\ applied' = Append(applied, command)
      /\ lock' = [lock EXCEPT ![k] = NoLock]
      /\ UNCHANGED <<stream, nextIdx, targetVars>>
  BY <1>1, <1>2 DEF RollbackKey, Apply
<1>4. /\ tso \in Nat /\ lock \in [Key -> {NoLock} \cup [start : Ts, kind : Mutation]]
  BY DEF VInv, SourceOK, Ts
<1>5. record \in SourceRecord /\ record.kind = "rollback"
  BY <1>1, <1>3, <1>4 DEF WriteRecord, SourceRecord
<1>6. /\ PutWrite(record) \in Request /\ OfRequest[PutWrite(record)] = {}
      /\ Delete("lock", k) \in Request /\ OfRequest[Delete("lock", k)] = {}
      /\ Delete("default", k) \in Request /\ OfRequest[Delete("default", k)] = {}
  <2>1. /\ PutWrite(record) \in Request /\ Delete("lock", k) \in Request
        /\ Delete("default", k) \in Request
    BY <1>5, RequestTypes
  <2>2. /\ PutWrite(record).cf = "write" /\ PutWrite(record).put.kind = "rollback"
        /\ Delete("lock", k).type = "delete" /\ Delete("default", k).type = "delete"
    BY <1>5 DEF PutWrite, Delete
  <2> QED
    BY <2>1, <2>2, NoSlots
<1>7. front \in Seq(Request) /\ \A req \in Range(front) : OfRequest[req] = {}
  <2>1. <<>> \in Seq(Request) /\ Range(<<>>) = {}
    BY RangeOfEmpty
  <2>2. /\ <<Delete("default", k)>> \in Seq(Request)
        /\ Range(<<Delete("default", k)>>) = {Delete("default", k)}
    BY <1>6, RangeOfOne
  <2> QED
    BY <1>2, <1>6, <2>1, <2>2
<1>8. back \in Seq(Request) /\ \A req \in Range(back) : OfRequest[req] = {}
  <2>1. back \in Seq(Request) /\ Range(back) = {PutWrite(record), Delete("lock", k)}
    BY <1>2, <1>6, RangeOfTwo
  <2> QED
    BY <1>6, <2>1
<1>9. command \in Seq(Request) /\ \A req \in Range(command) : OfRequest[req] = {}
  <2>1. front \o back \in Seq(Request) /\ Range(front \o back) = Range(front) \cup Range(back)
    BY <1>7, <1>8, RangeOfConcat
  <2> QED
    BY <1>2, <1>7, <1>8, <2>1
<1>10. Apart(OfRequest, command) /\ OfCommand[command] = {}
  <2>1. \A i \in DOMAIN command : command[i] \in Range(command)
    BY <1>9, InRange
  <2>2. OfCommand[command] = Together(OfRequest, command)
    BY <1>9 DEF OfCommand
  <2> QED
    BY <1>9, <2>1, <2>2 DEF Apart, Together
<1>11. ASSUME NEW j \in Key, NEW x, lock'[j].kind \in {"short", "delete"},
              x = <<"default", DataKey(j), lock'[j].start>>
       PROVE  x \notin OfCommand[command] /\ (lock'[j] = lock[j] \/ ~InUse(x))
  <2>1. j # k
    BY <1>3, <1>4, <1>11 DEF NoLock
  <2> QED
    BY <1>3, <1>4, <1>10, <2>1
<1>12. /\ tso' \in Nat /\ tso <= tso'
       /\ \A j \in Key : lock'[j] = lock[j] \/ lock'[j].start \in 0..tso'
  BY <1>3, <1>4 DEF NoLock
<1>13. \A x \in OfCommand[command] : ~InUse(x) /\ x[3] \in 0..tso'
  BY <1>10
<1>14. Fits(command)
  <2>1. \A j \in Key : \A x :
            /\ lock'[j].kind \in {"short", "delete"}
            /\ x = <<"default", DataKey(j), lock'[j].start>>
            => x \notin OfCommand[command] /\ (lock'[j] = lock[j] \/ ~InUse(x))
    BY <1>11
  <2> QED
    BY <1>3, <1>9, <1>10, <1>12, <1>13, <2>1 DEF Fits
<1> QED
  BY Zenon, <1>14, SourceFree

\* A one-phase commit takes places at new timestamps.
LEMMA OnePcFree ==
    ASSUME VInv, Plain', Unshared, Free, NEW k \in Key, NEW kind \in Mutation, OnePc(k, kind)
    PROVE  Unshared' /\ Free' /\ lost' = lost
<1>1. PICK start, record, puts, command :
          /\ start = tso + 1 /\ record = WriteRecord(k, tso + 2, start, kind)
          /\ puts = PutDefaults(Values(k, start, kind))
          /\ command = puts \o <<PutWrite(record)>>
  OBVIOUS
<1>2. /\ tso + 2 <= MaxTs /\ tso' = tso + 2 /\ applied' = Append(applied, command)
      /\ everWritten' = everWritten \cup {record}
      /\ UNCHANGED <<lock, stream, nextIdx, targetVars>>
  BY <1>1 DEF OnePc, Apply
<1>3. /\ tso \in Nat /\ start \in Ts /\ tso + 2 \in Ts
  BY <1>1, <1>2, MvccAssumption DEF VInv, SourceOK, Ts
<1>4. /\ record \in SourceRecord /\ record.key = k /\ record.ts = tso + 2
      /\ record.start = tso + 1 /\ record.kind = kind
  BY <1>1, <1>3 DEF WriteRecord, SourceRecord
<1>5. kind # "long"
  BY <1>2, <1>4 DEF Plain
<1>6. puts = <<>>
  BY <1>1, <1>5 DEF Values, PutDefaults
<1>7. PICK a : a = PutWrite(record)
  OBVIOUS
<1>8. a \in Request
  BY <1>4, <1>7, RequestTypes
<1>9. command \in Seq(Request) /\ DOMAIN command = {1} /\ command[1] = a
  <2>1. command = <<>> \o <<a>>
    BY <1>1, <1>6, <1>7
  <2> QED
    BY <1>8, <2>1
<1>10. Apart(OfRequest, command) /\ OfCommand[command] = OfRequest[a]
  BY <1>9, OneRequest
<1>11. \A x \in OfCommand[command] : \/ x = <<"default", DataKey(k), tso + 1>>
                                     \/ x = <<"write", DataKey(k), tso + 2>>
  BY <1>4, <1>7, <1>10, PutSlots
<1>12. \A x \in OfCommand[command] : x[3] \in {tso + 1, tso + 2}
  BY <1>11
<1>13. \A x \in OfCommand[command] : ~InUse(x) /\ x[3] \in 0..tso'
  BY <1>2, <1>3, <1>12 DEF Free
<1>14. ASSUME NEW j \in Key, NEW x, lock'[j].kind \in {"short", "delete"},
              x = <<"default", DataKey(j), lock'[j].start>>
       PROVE  x \notin OfCommand[command] /\ (lock'[j] = lock[j] \/ ~InUse(x))
  <2>1. lock[j].start \in 0..tso /\ x[3] = lock[j].start
    BY <1>2, <1>14 DEF Free
  <2> QED
    BY <1>2, <1>3, <1>12, <2>1
<1>15. /\ tso' \in Nat /\ tso <= tso'
       /\ \A j \in Key : lock'[j] = lock[j] \/ lock'[j].start \in 0..tso'
  BY <1>2, <1>3
<1>16. Fits(command)
  <2>1. \A j \in Key : \A x :
            /\ lock'[j].kind \in {"short", "delete"}
            /\ x = <<"default", DataKey(j), lock'[j].start>>
            => x \notin OfCommand[command] /\ (lock'[j] = lock[j] \/ ~InUse(x))
    BY <1>14
  <2> QED
    BY <1>2, <1>9, <1>10, <1>13, <1>15, <2>1 DEF Fits
<1> QED
  BY Zenon, <1>16, SourceFree

\* A delete range takes no place.
LEMMA DeleteKeysFree ==
    ASSUME VInv, Unshared, Free, NEW r \in KeyRange, DeleteKeys(r)
    PROVE  Unshared' /\ Free' /\ lost' = lost
<1>1. PICK a, command : a = DeleteRange(r) /\ command = <<a>>
  OBVIOUS
<1>2. applied' = Append(applied, command) /\ UNCHANGED <<tso, lock, stream, nextIdx, targetVars>>
  BY <1>1 DEF DeleteKeys, Apply
<1>3. a \in Request /\ OfRequest[a] = {}
  <2>1. a \in Request /\ a.type = "deleteRange"
    BY <1>1, RequestTypes DEF DeleteRange
  <2> QED
    BY <2>1, NoSlots
<1>4. command \in Seq(Request) /\ DOMAIN command = {1} /\ command[1] = a
  BY <1>1, <1>3
<1>5. Apart(OfRequest, command) /\ OfCommand[command] = {}
  BY <1>3, <1>4, OneRequest
<1>6. tso' \in Nat /\ tso <= tso'
  BY <1>2 DEF VInv, SourceOK, Ts
<1>7. Fits(command)
  BY Zenon, <1>2, <1>4, <1>5, <1>6 DEF Fits
<1> QED
  BY Zenon, <1>7, SourceFree

-----------------------------------------------------------------------------
(* The target *)

\* Where the source stands still and no new place is taken, the places the commits
\* to come need stay free.
LEMMA TargetFree ==
    ASSUME Free, UNCHANGED sourceVars, \A x : InUse(x)' => InUse(x)
    PROVE  Free'
<1>1. UNCHANGED <<tso, lock>>
  BY DEF sourceVars
<1> QED
  BY <1>1 DEF Free

\* The delegate hands the places of a batch from its commands to its events.
LEMMA OnBatchFree ==
    ASSUME VInv, Plain, Unshared, Free, NEW n \in DOMAIN applied, OnBatch(n)
    PROVE  Unshared' /\ Free' /\ lost' = lost
<1>1. PICK batch, rest : /\ batch = SubSeq(applied, 1, n)
                         /\ rest = SubSeq(applied, n + 1, Len(applied))
  OBVIOUS
<1>2. SourceOK /\ TargetOK /\ Faithful
  BY DEF VInv
<1>3. /\ applied' = rest
      /\ stream' = stream \o Flatten([i \in DOMAIN batch |-> SinkData(batch[i])])
                          \o DeleteRanges(batch)
      /\ UNCHANGED sourceVars /\ UNCHANGED <<kvBuf, lost>>
  BY <1>1 DEF OnBatch, targetVars
<1>4. applied \in Seq(Seq(Request)) /\ stream \in Seq(PcrEvent)
  BY <1>2 DEF SourceOK, TargetOK
<1>5. /\ batch \in Seq(Seq(Request)) /\ Apart(OfCommand, batch) /\ Apart(OfCommand, rest)
      /\ Together(OfCommand, batch) \cap Together(OfCommand, rest) = {}
      /\ AppliedSlots = Together(OfCommand, batch) \cup Together(OfCommand, rest)
  <2>1. Apart(OfCommand, applied)
    BY DEF Unshared
  <2>2. \A T, S : \A s \in Seq(T) : Apart(S, s) => \A m \in DOMAIN s :
            LET a == SubSeq(s, 1, m)
                b == SubSeq(s, m + 1, Len(s))
            IN  /\ a \in Seq(T) /\ Apart(S, a) /\ Apart(S, b)
                /\ Together(S, a) \cap Together(S, b) = {}
                /\ Together(S, s) = Together(S, a) \cup Together(S, b)
    BY ApartCut
  <2> QED
    BY <1>1, <1>4, <2>1, <2>2 DEF AppliedSlots
<1>6. Range(applied) = Range(batch) \cup Range(rest)
  BY <1>1, <1>4, SubSeqSplit
<1>7. \A c \in Range(batch) : Apart(OfRequest, c) /\ \A req \in Range(c) : Proper(req)
  BY <1>2, <1>6 DEF Unshared, Faithful, Pending
<1>8. Together(OfCommand, batch) \cap Together(OfEvent, stream) = {}
  BY <1>5 DEF Unshared, StreamSlots
<1>9. /\ Apart(OfEvent, stream') /\ \A e \in Range(stream') : Apart(OfPair, e.kvs)
      /\ Together(OfEvent, stream')
           \subseteq Together(OfEvent, stream) \cup Together(OfCommand, batch)
  <2>1. Apart(OfEvent, stream) /\ \A e \in Range(stream) : Apart(OfPair, e.kvs)
    BY DEF Unshared
  <2> QED
    BY <1>2, <1>3, <1>4, <1>5, <1>7, <1>8, <2>1, OnBatchSlots
<1>10. /\ AppliedSlots' = Together(OfCommand, rest)
       /\ StreamSlots' \subseteq StreamSlots \cup Together(OfCommand, batch)
       /\ \A w \in Worker : BufferSlots(w)' = BufferSlots(w)
  BY <1>3, <1>9 DEF AppliedSlots, StreamSlots, BufferSlots
<1>11. AppliedSlots' \cup StreamSlots' \subseteq AppliedSlots \cup StreamSlots
  BY <1>5, <1>10
<1>12. Unshared'
  <2>1. Apart(OfCommand, applied') /\ \A c \in Range(applied') : Apart(OfRequest, c)
    BY <1>3, <1>5, <1>6 DEF Unshared
  <2>2. \A w \in Worker : Apart(OfPair, kvBuf'[w])
    BY <1>3 DEF Unshared
  <2>3. AppliedSlots' \cap StreamSlots' = {}
    BY <1>5, <1>10 DEF Unshared
  <2>4. \A w \in Worker : BufferSlots(w)' \cap (AppliedSlots' \cup StreamSlots') = {}
    BY <1>10, <1>11 DEF Unshared
  <2> QED
    BY <1>9, <2>1, <2>2, <2>3, <2>4 DEF Unshared
<1>13. \A x : InUse(x)' => InUse(x)
  BY <1>10, <1>11 DEF InUse
<1> QED
  BY <1>3, <1>12, <1>13, TargetFree

\* A worker takes over the places of the first event.
LEMMA ReceiveFree ==
    ASSUME VInv, Unshared, Free, Receive
    PROVE  Unshared' /\ Free' /\ lost' = lost
<1>1. PICK e, u : e = Head(stream) /\ u = nextIdx
  OBVIOUS
<1>2. TargetOK
  BY DEF VInv
<1>3. /\ stream # <<>> /\ stream' = Tail(stream)
      /\ kvBuf' = [kvBuf EXCEPT ![u] = @ \o e.kvs]
      /\ UNCHANGED sourceVars /\ UNCHANGED <<applied, lost>>
  BY <1>1 DEF Receive
<1>4. /\ stream \in Seq(PcrEvent) /\ kvBuf \in [Worker -> Seq(Pair)] /\ u \in Worker
  BY <1>1, <1>2 DEF TargetOK
<1>5. /\ 1 \in DOMAIN stream /\ stream[1] = e /\ e \in PcrEvent
      /\ LET s == SubSeq(stream, 1, 1) IN DOMAIN s = {1} /\ s[1] = e
      /\ stream' = SubSeq(stream, 2, Len(stream))
  <2>1. /\ Len(stream) \in Nat \ {0} /\ DOMAIN stream = 1..Len(stream)
        /\ stream[1] = e /\ e \in PcrEvent
    BY <1>1, <1>3, <1>4
  <2>2. LET s == SubSeq(stream, 1, 1) IN DOMAIN s = {1} /\ s[1] = stream[1]
    BY <1>4, <2>1
  <2>3. Tail(stream) = SubSeq(stream, 2, Len(stream))
    BY <1>4, <2>1
  <2> QED
    BY <1>3, <2>1, <2>2, <2>3
<1>6. PICK first, rest : first = SubSeq(stream, 1, 1) /\ rest = SubSeq(stream, 2, Len(stream))
  OBVIOUS
<1>7. /\ Apart(OfEvent, rest)
      /\ Together(OfEvent, first) \cap Together(OfEvent, rest) = {}
      /\ StreamSlots = Together(OfEvent, first) \cup Together(OfEvent, rest)
  <2>1. Apart(OfEvent, stream) /\ 1 + 1 = 2
    BY DEF Unshared
  <2> QED
    BY <1>4, <1>5, <1>6, <2>1, ApartCut DEF StreamSlots
<1>8. Range(stream) = {e} \cup Range(rest) /\ Range(first) = {e}
  <2>1. Range(stream) = Range(first) \cup Range(rest)
    BY <1>4, <1>5, <1>6, SubSeqSplit
  <2>2. Range(first) = {e}
    BY <1>5, <1>6 DEF Range
  <2> QED
    BY <2>1, <2>2
<1>9. Together(OfEvent, first) = Together(OfPair, e.kvs)
  <2>1. OfEvent[e] = Together(OfPair, e.kvs)
    BY <1>5 DEF OfEvent
  <2>2. Together(OfEvent, first) = OfEvent[e]
    BY <1>8 DEF Together
  <2> QED
    BY <2>1, <2>2
<1>10. PICK buf, kvs : buf = kvBuf[u] /\ kvs = e.kvs
  OBVIOUS
<1>11. /\ buf \in Seq(Pair) /\ kvs \in Seq(Pair) /\ Apart(OfPair, buf) /\ Apart(OfPair, kvs)
       /\ Together(OfPair, buf) \cap Together(OfPair, kvs) = {}
  <2>1. buf \in Seq(Pair) /\ kvs \in Seq(Pair)
    BY <1>4, <1>5, <1>10 DEF PcrEvent
  <2>2. Apart(OfPair, buf) /\ Apart(OfPair, kvs)
    BY <1>4, <1>8, <1>10 DEF Unshared
  <2>3. Together(OfPair, buf) = BufferSlots(u)
    BY <1>10 DEF BufferSlots
  <2>4. Together(OfPair, kvs) \subseteq StreamSlots
    BY <1>7, <1>9, <1>10
  <2> QED
    BY <1>4, <2>1, <2>2, <2>3, <2>4 DEF Unshared
<1>12. /\ buf \o kvs \in Seq(Pair) /\ Apart(OfPair, buf \o kvs)
       /\ Together(OfPair, buf \o kvs) = Together(OfPair, buf) \cup Together(OfPair, kvs)
  BY <1>11, ApartConcat
<1>13. kvBuf'[u] = buf \o kvs /\ \A w \in Worker : w # u => kvBuf'[w] = kvBuf[w]
  BY <1>3, <1>4, <1>10
<1>14. /\ AppliedSlots' = AppliedSlots /\ StreamSlots' = Together(OfEvent, rest)
       /\ StreamSlots' \subseteq StreamSlots
  BY <1>3, <1>5, <1>6, <1>7 DEF AppliedSlots, StreamSlots
<1>15. /\ BufferSlots(u)' = BufferSlots(u) \cup Together(OfPair, kvs)
       /\ \A w \in Worker : w # u => BufferSlots(w)' = BufferSlots(w)
  BY <1>10, <1>12, <1>13 DEF BufferSlots
<1>16. Unshared'
  <2>1. Apart(OfCommand, applied') /\ \A c \in Range(applied') : Apart(OfRequest, c)
    BY <1>3 DEF Unshared
  <2>2. Apart(OfEvent, stream') /\ \A x \in Range(stream') : Apart(OfPair, x.kvs)
    BY <1>5, <1>6, <1>7, <1>8 DEF Unshared
  <2>3. \A w \in Worker : Apart(OfPair, kvBuf'[w])
    BY <1>12, <1>13 DEF Unshared
  <2>4. AppliedSlots' \cap StreamSlots' = {}
    BY <1>14 DEF Unshared
  <2>5. ASSUME NEW w \in Worker
        PROVE  BufferSlots(w)' \cap (AppliedSlots' \cup StreamSlots') = {}
    <3>1. BufferSlots(w) \cap (AppliedSlots' \cup StreamSlots') = {}
      BY <1>14 DEF Unshared
    <3>2. Together(OfPair, kvs) \cap (AppliedSlots' \cup StreamSlots') = {}
      BY <1>7, <1>9, <1>10, <1>14 DEF Unshared
    <3> QED
      BY <1>15, <3>1, <3>2
  <2> QED
    BY <2>1, <2>2, <2>3, <2>4, <2>5 DEF Unshared
<1>17. \A x : InUse(x)' => InUse(x)
  <2>1. Together(OfPair, kvs) \subseteq StreamSlots
    BY <1>7, <1>9, <1>10
  <2> QED
    BY <1>14, <1>15, <2>1 DEF InUse
<1> QED
  BY <1>3, <1>16, <1>17, TargetFree

\* A flush finds every SST in order, and drops nothing.
LEMMA FlushFree ==
    ASSUME VInv, Unshared, Free, NEW u \in Worker, NEW order \in CfOrders, Flush(u, order)
    PROVE  Unshared' /\ Free' /\ lost' = lost
<1>1. PICK kvs, done : kvs = kvBuf[u] /\ done = Ingested(kvs, order)
  OBVIOUS
<1>2. /\ kvBuf' = [kvBuf EXCEPT ![u] = <<>>] /\ lost' = lost \cup Pairs(Cf \ done, kvs)
      /\ UNCHANGED sourceVars /\ UNCHANGED <<applied, stream>>
  BY <1>1 DEF Flush
<1>3. kvBuf \in [Worker -> Seq(Pair)]
  BY DEF VInv, TargetOK
<1>4. \A cf : SstBuilds(cf, kvs)
  <2> SUFFICES ASSUME NEW i \in DOMAIN kvs, NEW j \in DOMAIN kvs, kvs[i].cf = kvs[j].cf,
                      SameMvccKey(kvs[i].pair, kvs[j].pair)
               PROVE  i = j
    BY DEF SstBuilds
  <2>1. kvs[i] \in Pair /\ kvs[j] \in Pair
    BY <1>1, <1>3
  <2>2. Slot(kvs[i]) = Slot(kvs[j])
    BY DEF SameMvccKey, Slot
  <2>3. OfPair[kvs[i]] = {Slot(kvs[i])} /\ OfPair[kvs[j]] = {Slot(kvs[j])}
    BY <2>1 DEF OfPair
  <2>4. Apart(OfPair, kvs)
    BY <1>1 DEF Unshared
  <2> QED
    BY <2>2, <2>3, <2>4 DEF Apart
<1>5. done = Cf
  <2>1. done = {order[i] : i \in DOMAIN order}
    BY <1>1, <1>4 DEF Ingested
  <2>2. order = <<"default", "write">> \/ order = <<"write", "default">>
    BY DEF CfOrders
  <2> QED
    BY <2>1, <2>2 DEF Cf
<1>6. lost' = lost
  BY <1>2, <1>5 DEF Pairs
<1>7. kvBuf'[u] = <<>> /\ \A w \in Worker : w # u => kvBuf'[w] = kvBuf[w]
  BY <1>2, <1>3
<1>8. Apart(OfPair, <<>>) /\ Together(OfPair, <<>>) = {}
  BY RangeOfEmpty DEF Apart, Together
<1>9. /\ AppliedSlots' = AppliedSlots /\ StreamSlots' = StreamSlots
      /\ \A w \in Worker : BufferSlots(w)' \subseteq BufferSlots(w)
  BY <1>2, <1>7, <1>8 DEF AppliedSlots, StreamSlots, BufferSlots
<1>10. Unshared'
  <2>1. /\ Apart(OfCommand, applied') /\ \A c \in Range(applied') : Apart(OfRequest, c)
        /\ Apart(OfEvent, stream') /\ \A e \in Range(stream') : Apart(OfPair, e.kvs)
    BY <1>2 DEF Unshared
  <2>2. \A w \in Worker : Apart(OfPair, kvBuf'[w])
    BY <1>7, <1>8 DEF Unshared
  <2>3. AppliedSlots' \cap StreamSlots' = {}
    BY <1>9 DEF Unshared
  <2>4. \A w \in Worker : BufferSlots(w)' \cap (AppliedSlots' \cup StreamSlots') = {}
    BY <1>9 DEF Unshared
  <2> QED
    BY <2>1, <2>2, <2>3, <2>4 DEF Unshared
<1>11. \A x : InUse(x)' => InUse(x)
  BY <1>9 DEF InUse
<1> QED
  BY <1>2, <1>6, <1>10, <1>11, TargetFree

\* Nothing is taken at the start.
LEMMA InitLInv == Init => LInv
<1> SUFFICES ASSUME Init PROVE Unshared /\ Free /\ lost = {}
  BY DEF LInv
<1>1. /\ applied = <<>> /\ stream = <<>> /\ tso = 0 /\ lost = {}
      /\ \A w \in Worker : kvBuf[w] = <<>>
      /\ \A k \in Key : lock[k].start = 0 /\ lock[k].kind = "none"
  BY DEF Init, NoLock
<1>2. Range(<<>>) = {} /\ DOMAIN <<>> = {}
  BY RangeOfEmpty
<1>3. \A S : Apart(S, <<>>) /\ Together(S, <<>>) = {}
  BY <1>2 DEF Apart, Together
<1>4. AppliedSlots = {} /\ StreamSlots = {} /\ \A w \in Worker : BufferSlots(w) = {}
  BY Zenon, <1>1, <1>3 DEF AppliedSlots, StreamSlots, BufferSlots
<1>5. Unshared
  BY <1>1, <1>2, <1>3, <1>4 DEF Unshared
<1>6. \A x : ~InUse(x)
  BY <1>4 DEF InUse
<1>7. Free
  BY <1>1, <1>6 DEF Free
<1> QED
  BY <1>1, <1>5, <1>7

\* Every step keeps LInv.
LEMMA NextLInv == VInv /\ LInv /\ [Next]_vars => LInv'
<1> SUFFICES ASSUME VInv, LInv, [Next]_vars, Plain' PROVE Unshared' /\ Free' /\ lost' = {}
  BY DEF LInv
<1>1. everWritten \subseteq everWritten'
  <2>1. CASE Next
    BY Zenon, <2>1 DEF Next, Source, SomeBatch, FlushWorker, Prewrite, OnePc, CommitKey, RollbackKey,
       DeleteKeys, OnBatch, Receive, Flush, sourceVars
  <2>2. CASE UNCHANGED vars
    BY <2>2 DEF vars, sourceVars
  <2> QED
    BY <2>1, <2>2
<1>2. Plain
  BY <1>1 DEF Plain
<1>3. Unshared /\ Free /\ lost = {}
  BY <1>2 DEF LInv
<1>4. Unshared' /\ Free' /\ lost' = lost
  <2>1. ASSUME NEW k \in Key, NEW kind \in Mutation, Prewrite(k, kind)
        PROVE  Unshared' /\ Free' /\ lost' = lost
    BY <1>2, <1>3, <2>1, PrewriteFree
  <2>2. ASSUME NEW k \in Key, NEW kind \in Mutation, OnePc(k, kind)
        PROVE  Unshared' /\ Free' /\ lost' = lost
    BY <1>3, <2>2, OnePcFree
  <2>3. ASSUME NEW k \in Key, CommitKey(k) PROVE Unshared' /\ Free' /\ lost' = lost
    BY <1>3, <2>3, CommitKeyFree
  <2>4. ASSUME NEW k \in Key, RollbackKey(k) PROVE Unshared' /\ Free' /\ lost' = lost
    BY <1>3, <2>4, RollbackKeyFree
  <2>5. ASSUME NEW r \in KeyRange, DeleteKeys(r) PROVE Unshared' /\ Free' /\ lost' = lost
    BY <1>3, <2>5, DeleteKeysFree
  <2>6. ASSUME NEW n \in DOMAIN applied, OnBatch(n) PROVE Unshared' /\ Free' /\ lost' = lost
    BY <1>2, <1>3, <2>6, OnBatchFree
  <2>7. CASE Receive
    BY <1>3, <2>7, ReceiveFree
  <2>8. ASSUME NEW w \in Worker, NEW order \in CfOrders, Flush(w, order)
        PROVE  Unshared' /\ Free' /\ lost' = lost
    BY <1>3, <2>8, FlushFree
  <2>9. CASE UNCHANGED vars
    <3>1. UNCHANGED <<tso, lock, applied, stream, kvBuf, lost>>
      BY <2>9 DEF vars, sourceVars, targetVars
    <3> QED
      BY Zenon, <1>3, <3>1 DEF Unshared, Free, InUse, AppliedSlots, StreamSlots, BufferSlots
  <2> QED
    BY <2>1, <2>2, <2>3, <2>4, <2>5, <2>6, <2>7, <2>8, <2>9
       DEF Next, Source, SomeBatch, FlushWorker
<1> QED
  BY <1>3, <1>4

\* For any workload of short values and deletions, any number of workers and any
\* order of batches and flushes: no flush drops a pair.
THEOREM LossNeedsLongOrLockHolds == Spec => []LossNeedsLongOrLock
<1>1. LInv => LossNeedsLongOrLock
  BY DEF LInv, Plain, LossNeedsLongOrLock
<1> QED
  BY InitLInv, NextLInv, VInvHolds, <1>1, PTL DEF Spec
=============================================================================
