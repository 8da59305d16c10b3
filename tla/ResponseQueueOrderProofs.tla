------------------------ MODULE ResponseQueueOrderProofs ------------------------
(***************************************************************************)
(* The order in which answers reach the server, proved of ResponseQueue    *)
(* for any number of answers and overlapping activations, while IndexedDB  *)
(* fails no request.                                                       *)
(***************************************************************************)
EXTENDS ResponseQueueDeliveryProofs, FiniteSetTheorems

(* The requests IndexedDB has not completed, as far as order matters: which *)
(* activations wait, which rows are yet to be written, who is ahead of whom.*)
IsAdd(x) == x \notin Tasks /\ x.op = "add"
Waits(t, s) == \E i \in 1 .. Len(s) : s[i] = t
Added(a, s) == \E i \in 1 .. Len(s) : IsAdd(s[i]) /\ s[i].answer = a
Ahead(t, u, s) ==
  \E i \in 1 .. Len(s) : \E j \in 1 .. Len(s) : i < j /\ s[i] = t /\ s[j] = u
AddBehind(t, a, s) ==
  \E i \in 1 .. Len(s) : \E j \in 1 .. Len(s) :
    i < j /\ s[i] = t /\ IsAdd(s[j]) /\ s[j].answer = a
AddsInOrder(s) ==
  \A i \in 1 .. Len(s) : \A j \in 1 .. Len(s) :
    i < j /\ IsAdd(s[i]) /\ IsAdd(s[j]) => s[i].answer < s[j].answer

LEMMA AppendIndex ==
  ASSUME NEW s \in Requests, NEW x \in WriteType \cup Tasks
  PROVE  LET r == Append(s, x)  n == Len(s) IN
         /\ r \in Requests /\ n \in Nat /\ Len(r) = n + 1 /\ r[n + 1] = x
         /\ \A i \in 1 .. n : i \in 1 .. n + 1 /\ i # n + 1 /\ i < n + 1 /\ r[i] = s[i]
         /\ \A i \in 1 .. n + 1 : i \in 1 .. n \/ i = n + 1
         /\ \A i \in 1 .. n + 1 : ~(n + 1 < i)
<1>1. /\ Append(s, x) \in Requests /\ Len(s) \in Nat
      /\ Len(Append(s, x)) = Len(s) + 1
      /\ \A i \in 1 .. Len(s) : Append(s, x)[i] = s[i]
      /\ Append(s, x)[Len(s) + 1] = x
  BY AppendProperties, LenProperties DEF Requests
<1> QED
  BY <1>1

LEMMA AppendedTask ==
  ASSUME NEW s \in Requests, NEW u \in Tasks
  PROVE  LET r == Append(s, u) IN
         /\ r \in Requests
         /\ \A t \in Tasks : Waits(t, r) <=> Waits(t, s) \/ t = u
         /\ \A t, v \in Tasks : Ahead(t, v, r) <=> Ahead(t, v, s) \/ (v = u /\ Waits(t, s))
         /\ \A t \in Tasks : \A a \in Answers : AddBehind(t, a, r) <=> AddBehind(t, a, s)
         /\ \A a \in Answers : Added(a, r) <=> Added(a, s)
         /\ AddsInOrder(s) => AddsInOrder(r)
<1> DEFINE r == Append(s, u)
           n == Len(s)
<1>1. /\ r \in Requests /\ n \in Nat /\ Len(r) = n + 1 /\ r[n + 1] = u
      /\ \A i \in 1 .. n : i \in 1 .. n + 1 /\ i # n + 1 /\ i < n + 1 /\ r[i] = s[i]
      /\ \A i \in 1 .. n + 1 : i \in 1 .. n \/ i = n + 1
      /\ \A i \in 1 .. n + 1 : ~(n + 1 < i)
  BY AppendIndex
<1>2. ~IsAdd(u) /\ n + 1 \in 1 .. n + 1
  BY <1>1 DEF IsAdd
<1> HIDE DEF r
<1>3. \A t \in Tasks : Waits(t, r) <=> Waits(t, s) \/ t = u
  BY <1>1, <1>2 DEF Waits
<1>4. \A t, v \in Tasks : Ahead(t, v, r) <=> Ahead(t, v, s) \/ (v = u /\ Waits(t, s))
  BY <1>1, <1>2 DEF Ahead, Waits
<1>5. \A t \in Tasks : \A a \in Answers : AddBehind(t, a, r) <=> AddBehind(t, a, s)
  BY <1>1, <1>2 DEF AddBehind
<1>6. \A a \in Answers : Added(a, r) <=> Added(a, s)
  BY <1>1, <1>2 DEF Added
<1>7. AddsInOrder(s) => AddsInOrder(r)
  BY <1>1, <1>2 DEF AddsInOrder
<1> QED
  BY <1>1, <1>3, <1>4, <1>5, <1>6, <1>7 DEF r

(* A write that is not of a row makes no difference.                        *)
Alike(r, s) ==
  /\ r \in Requests
  /\ \A t \in Tasks : Waits(t, r) <=> Waits(t, s)
  /\ \A t, u \in Tasks : Ahead(t, u, r) <=> Ahead(t, u, s)
  /\ \A t \in Tasks : \A a \in Answers : AddBehind(t, a, r) <=> AddBehind(t, a, s)
  /\ \A a \in Answers : Added(a, r) <=> Added(a, s)
  /\ AddsInOrder(s) => AddsInOrder(r)

LEMMA AppendedWrite ==
  ASSUME NEW s \in Requests, NEW x \in WriteType \ Tasks, ~IsAdd(x)
  PROVE  Alike(Append(s, x), s)
<1> DEFINE r == Append(s, x)
           n == Len(s)
<1>1. /\ r \in Requests /\ n \in Nat /\ Len(r) = n + 1 /\ r[n + 1] = x
      /\ \A i \in 1 .. n : i \in 1 .. n + 1 /\ i # n + 1 /\ i < n + 1 /\ r[i] = s[i]
      /\ \A i \in 1 .. n + 1 : i \in 1 .. n \/ i = n + 1
      /\ \A i \in 1 .. n + 1 : ~(n + 1 < i)
  BY AppendIndex
<1> HIDE DEF r
<1>2. \A t \in Tasks : Waits(t, r) <=> Waits(t, s)
  BY <1>1 DEF Waits
<1>3. \A t, u \in Tasks : Ahead(t, u, r) <=> Ahead(t, u, s)
  BY <1>1 DEF Ahead
<1>4. \A t \in Tasks : \A a \in Answers : AddBehind(t, a, r) <=> AddBehind(t, a, s)
  BY <1>1 DEF AddBehind
<1>5. \A a \in Answers : Added(a, r) <=> Added(a, s)
  BY <1>1 DEF Added
<1>6. AddsInOrder(s) => AddsInOrder(r)
  BY <1>1 DEF AddsInOrder
<1> QED
  BY <1>1, <1>2, <1>3, <1>4, <1>5, <1>6 DEF Alike, r

(* The write of a row goes to the end.                                      *)
LEMMA AppendedAdd ==
  ASSUME NEW s \in Requests, NEW x \in WriteType \ Tasks, IsAdd(x),
         AddsInOrder(s), \A b \in Answers : Added(b, s) => b < x.answer
  PROVE  LET r == Append(s, x) IN
         /\ r \in Requests
         /\ \A t \in Tasks : Waits(t, r) <=> Waits(t, s)
         /\ \A t, u \in Tasks : Ahead(t, u, r) <=> Ahead(t, u, s)
         /\ \A t \in Tasks : \A a \in Answers :
              AddBehind(t, a, r) => AddBehind(t, a, s) \/ a = x.answer
         /\ \A a \in Answers : Added(a, r) <=> Added(a, s) \/ a = x.answer
         /\ AddsInOrder(r)
<1> DEFINE r == Append(s, x)
           n == Len(s)
<1>1. /\ r \in Requests /\ n \in Nat /\ Len(r) = n + 1 /\ r[n + 1] = x
      /\ \A i \in 1 .. n : i \in 1 .. n + 1 /\ i # n + 1 /\ i < n + 1 /\ r[i] = s[i]
      /\ \A i \in 1 .. n + 1 : i \in 1 .. n \/ i = n + 1
      /\ \A i \in 1 .. n + 1 : ~(n + 1 < i)
  BY AppendIndex
<1>2. n + 1 \in 1 .. n + 1
  BY <1>1
<1> HIDE DEF r
<1>3. \A t \in Tasks : Waits(t, r) <=> Waits(t, s)
  BY <1>1 DEF Waits
<1>4. \A t, u \in Tasks : Ahead(t, u, r) <=> Ahead(t, u, s)
  BY <1>1 DEF Ahead
<1>5. \A t \in Tasks : \A a \in Answers :
        AddBehind(t, a, r) => AddBehind(t, a, s) \/ a = x.answer
  BY <1>1 DEF AddBehind
<1>6. \A a \in Answers : Added(a, r) <=> Added(a, s) \/ a = x.answer
  BY <1>1, <1>2 DEF Added
<1>7. AddsInOrder(r)
  <2>1. \A i \in 1 .. n : IsAdd(s[i]) => s[i].answer \in Answers
    <3>1. \A i \in 1 .. n : s[i] \in WriteType \cup Tasks
      BY ElementOfSeq DEF Requests
    <3> QED
      BY <3>1 DEF IsAdd, WriteType
  <2>2. \A i \in 1 .. n : IsAdd(s[i]) => s[i].answer < x.answer
    BY <2>1 DEF Added
  <2> QED
    BY <1>1, <2>2 DEF AddsInOrder
<1> QED
  BY <1>1, <1>3, <1>4, <1>5, <1>6, <1>7 DEF r

LEMMA TailIndex ==
  ASSUME NEW s \in Requests, s # <<>>
  PROVE  LET r == Tail(s)  n == Len(r) IN
         /\ r \in Requests /\ n \in Nat /\ Len(s) = n + 1 /\ s[1] = Head(s)
         /\ 1 \in 1 .. n + 1
         /\ \A i \in 1 .. n : i + 1 \in 1 .. n + 1 /\ i + 1 # 1 /\ 1 < i + 1 /\ s[i + 1] = r[i]
         /\ \A i \in 1 .. n : \A j \in 1 .. n : i < j <=> i + 1 < j + 1
         /\ \A k \in 1 .. n + 1 : k = 1 \/ \E i \in 1 .. n : k = i + 1
         /\ \A k \in 1 .. n + 1 : ~(k < 1)
<1>1. /\ Tail(s) \in Requests /\ Len(s) \in Nat \ {0}
      /\ Len(Tail(s)) = Len(s) - 1
      /\ \A i \in 1 .. Len(Tail(s)) : Tail(s)[i] = s[i + 1]
  BY HeadTailProperties, EmptySeq DEF Requests
<1>2. Head(s) = s[1]
  BY <1>1 DEF Requests
<1> DEFINE n == Len(Tail(s))
<1>3. n \in Nat /\ Len(s) = n + 1
  BY <1>1
<1>4. ASSUME NEW k \in 1 .. n + 1
      PROVE  ~(k < 1) /\ (k = 1 \/ \E i \in 1 .. n : k = i + 1)
  <2>1. k # 1 => k - 1 \in 1 .. n /\ k = (k - 1) + 1
    BY <1>3, <1>4
  <2> QED
    BY <1>3, <1>4, <2>1
<1>5. \A i \in 1 .. n : i + 1 \in 1 .. n + 1 /\ i + 1 # 1 /\ 1 < i + 1 /\ s[i + 1] = Tail(s)[i]
  BY <1>1, <1>3
<1>6. \A i \in 1 .. n : \A j \in 1 .. n : i < j <=> i + 1 < j + 1
  BY <1>3
<1>7. 1 \in 1 .. n + 1
  BY <1>3
<1> HIDE DEF n
<1> QED
  BY <1>1, <1>2, <1>3, <1>4, <1>5, <1>6, <1>7 DEF n

(* The requests without those of activation t.                              *)
Without(r, t, s) ==
  /\ r \in Requests /\ ~Waits(t, r)
  /\ \A u \in Tasks : u # t => (Waits(u, r) <=> Waits(u, s))
  /\ \A u, v \in Tasks : u # t /\ v # t => (Ahead(u, v, r) <=> Ahead(u, v, s))
  /\ \A u \in Tasks : u # t => \A a \in Answers : AddBehind(u, a, r) <=> AddBehind(u, a, s)
  /\ \A a \in Answers : Added(a, r) <=> Added(a, s)
  /\ AddsInOrder(s) => AddsInOrder(r)

(* The request at the head is the activation's and its only one.            *)
LEMMA ServedTail ==
  ASSUME NEW s \in Requests, s # <<>>, NEW t \in Tasks, Head(s) = t, ~Ahead(t, t, s)
  PROVE  /\ Without(Tail(s), t, s)
         /\ \A u \in Tasks : u # t /\ Waits(u, s) => Ahead(t, u, s)
         /\ \A u \in Tasks : ~Ahead(u, t, s)
<1> DEFINE r == Tail(s)
           n == Len(r)
<1>1. /\ r \in Requests /\ n \in Nat /\ Len(s) = n + 1 /\ s[1] = t
      /\ 1 \in 1 .. n + 1
      /\ \A i \in 1 .. n : i + 1 \in 1 .. n + 1 /\ i + 1 # 1 /\ 1 < i + 1 /\ s[i + 1] = r[i]
      /\ \A i \in 1 .. n : \A j \in 1 .. n : i < j <=> i + 1 < j + 1
      /\ \A k \in 1 .. n + 1 : k = 1 \/ \E i \in 1 .. n : k = i + 1
      /\ \A k \in 1 .. n + 1 : ~(k < 1)
  BY TailIndex
<1> HIDE DEF r
<1>2. ~IsAdd(t)
  BY DEF IsAdd
<1>3. \A i \in 1 .. n : r[i] # t
  BY <1>1 DEF Ahead
<1>4. \A u \in Tasks : u # t => (Waits(u, r) <=> Waits(u, s))
  BY <1>1 DEF Waits
<1>5. \A u, v \in Tasks : u # t /\ v # t => (Ahead(u, v, r) <=> Ahead(u, v, s))
  <2>1. ASSUME NEW u \in Tasks \ {t}, NEW v \in Tasks, NEW i \in 1 .. n, NEW j \in 1 .. n,
               i < j, r[i] = u, r[j] = v
        PROVE  Ahead(u, v, s)
    <3>1. /\ i + 1 \in 1 .. Len(s) /\ j + 1 \in 1 .. Len(s) /\ i + 1 < j + 1
          /\ s[i + 1] = u /\ s[j + 1] = v
      BY <1>1, <2>1
    <3> QED
      BY <3>1 DEF Ahead
  <2>2. ASSUME NEW u \in Tasks \ {t}, NEW v \in Tasks, NEW k \in 1 .. Len(s),
               NEW l \in 1 .. Len(s), k < l, s[k] = u, s[l] = v
        PROVE  Ahead(u, v, r)
    <3>1. k # 1 /\ l # 1
      BY <1>1, <2>2
    <3>2. PICK i \in 1 .. n, j \in 1 .. n : k = i + 1 /\ l = j + 1
      BY <1>1, <3>1
    <3>3. i < j /\ r[i] = u /\ r[j] = v
      BY <1>1, <2>2, <3>2
    <3> QED
      BY <3>3 DEF Ahead
  <2> QED
    BY <2>1, <2>2 DEF Ahead
<1>6. \A u \in Tasks : u # t =>
        \A a \in Answers : AddBehind(u, a, r) <=> AddBehind(u, a, s)
  <2>1. ASSUME NEW u \in Tasks \ {t}, NEW i \in 1 .. n, NEW j \in 1 .. n,
               i < j, r[i] = u, IsAdd(r[j]), NEW a, r[j].answer = a
        PROVE  AddBehind(u, a, s)
    <3>1. /\ i + 1 \in 1 .. Len(s) /\ j + 1 \in 1 .. Len(s) /\ i + 1 < j + 1
          /\ s[i + 1] = u /\ s[j + 1] = r[j]
      BY <1>1, <2>1
    <3> QED
      BY <2>1, <3>1 DEF AddBehind
  <2>2. ASSUME NEW u \in Tasks \ {t}, NEW k \in 1 .. Len(s), NEW l \in 1 .. Len(s),
               k < l, s[k] = u, IsAdd(s[l]), NEW a, s[l].answer = a
        PROVE  AddBehind(u, a, r)
    <3>1. k # 1 /\ l # 1
      BY <1>1, <2>2
    <3>2. PICK i \in 1 .. n, j \in 1 .. n : k = i + 1 /\ l = j + 1
      BY <1>1, <3>1
    <3>3. i < j /\ r[i] = u /\ r[j] = s[l]
      BY <1>1, <2>2, <3>2
    <3> QED
      BY <2>2, <3>3 DEF AddBehind
  <2> QED
    BY <2>1, <2>2, SMTT(30) DEF AddBehind
<1>7. \A a \in Answers : Added(a, r) <=> Added(a, s)
  BY <1>1, <1>2 DEF Added
<1>8. AddsInOrder(s) => AddsInOrder(r)
  <2> SUFFICES ASSUME AddsInOrder(s), NEW i \in 1 .. n, NEW j \in 1 .. n, i < j,
                      IsAdd(r[i]), IsAdd(r[j])
               PROVE  r[i].answer < r[j].answer
    BY DEF AddsInOrder
  <2>1. /\ i + 1 \in 1 .. Len(s) /\ j + 1 \in 1 .. Len(s) /\ i + 1 < j + 1
        /\ s[i + 1] = r[i] /\ s[j + 1] = r[j]
    BY <1>1
  <2>2. s[i + 1].answer < s[j + 1].answer
    BY <2>1 DEF AddsInOrder
  <2> QED
    BY <2>1, <2>2
<1>9. \A u \in Tasks : u # t /\ Waits(u, s) => Ahead(t, u, s)
  BY <1>1 DEF Waits, Ahead
<1>10. \A u \in Tasks : ~Ahead(u, t, s)
  BY <1>1, <1>3 DEF Ahead
<1> QED
  BY <1>1, <1>3, <1>4, <1>5, <1>6, <1>7, <1>8, <1>9, <1>10 DEF Without, Waits, r

(* The request at the head is a write.                                      *)
LEMMA WrittenTail ==
  ASSUME NEW s \in Requests, s # <<>>, Head(s) \notin Tasks
  PROVE  LET r == Tail(s) IN
         /\ r \in Requests
         /\ \A t \in Tasks : Waits(t, r) <=> Waits(t, s)
         /\ \A t, u \in Tasks : Ahead(t, u, r) <=> Ahead(t, u, s)
         /\ \A t \in Tasks : \A a \in Answers : AddBehind(t, a, r) <=> AddBehind(t, a, s)
         /\ \A a \in Answers : Added(a, r) => Added(a, s)
         /\ \A a \in Answers : Added(a, s) =>
              Added(a, r) \/ (IsAdd(Head(s)) /\ a = Head(s).answer)
         /\ AddsInOrder(s) => AddsInOrder(r)
         /\ AddsInOrder(s) /\ IsAdd(Head(s)) =>
              \A a \in Answers : Added(a, r) => Head(s).answer < a
<1> DEFINE r == Tail(s)
           n == Len(r)
<1>1. /\ r \in Requests /\ n \in Nat /\ Len(s) = n + 1 /\ s[1] = Head(s)
      /\ 1 \in 1 .. n + 1
      /\ \A i \in 1 .. n : i + 1 \in 1 .. n + 1 /\ i + 1 # 1 /\ 1 < i + 1 /\ s[i + 1] = r[i]
      /\ \A i \in 1 .. n : \A j \in 1 .. n : i < j <=> i + 1 < j + 1
      /\ \A k \in 1 .. n + 1 : k = 1 \/ \E i \in 1 .. n : k = i + 1
      /\ \A k \in 1 .. n + 1 : ~(k < 1)
  BY TailIndex
<1> HIDE DEF r
<1>2. \A t \in Tasks : Waits(t, r) <=> Waits(t, s)
  BY <1>1 DEF Waits
<1>3. \A t, u \in Tasks : Ahead(t, u, r) <=> Ahead(t, u, s)
  <2>1. ASSUME NEW u \in Tasks, NEW v \in Tasks, NEW i \in 1 .. n, NEW j \in 1 .. n,
               i < j, r[i] = u, r[j] = v
        PROVE  Ahead(u, v, s)
    <3>1. /\ i + 1 \in 1 .. Len(s) /\ j + 1 \in 1 .. Len(s) /\ i + 1 < j + 1
          /\ s[i + 1] = u /\ s[j + 1] = v
      BY <1>1, <2>1
    <3> QED
      BY <3>1 DEF Ahead
  <2>2. ASSUME NEW u \in Tasks, NEW v \in Tasks, NEW k \in 1 .. Len(s),
               NEW l \in 1 .. Len(s), k < l, s[k] = u, s[l] = v
        PROVE  Ahead(u, v, r)
    <3>1. k # 1 /\ l # 1
      BY <1>1, <2>2
    <3>2. PICK i \in 1 .. n, j \in 1 .. n : k = i + 1 /\ l = j + 1
      BY <1>1, <3>1
    <3>3. i < j /\ r[i] = u /\ r[j] = v
      BY <1>1, <2>2, <3>2
    <3> QED
      BY <3>3 DEF Ahead
  <2> QED
    BY <2>1, <2>2 DEF Ahead
<1>4. \A t \in Tasks : \A a \in Answers : AddBehind(t, a, r) <=> AddBehind(t, a, s)
  <2>1. ASSUME NEW u \in Tasks, NEW i \in 1 .. n, NEW j \in 1 .. n,
               i < j, r[i] = u, IsAdd(r[j]), NEW a, r[j].answer = a
        PROVE  AddBehind(u, a, s)
    <3>1. /\ i + 1 \in 1 .. Len(s) /\ j + 1 \in 1 .. Len(s) /\ i + 1 < j + 1
          /\ s[i + 1] = u /\ s[j + 1] = r[j]
      BY <1>1, <2>1
    <3> QED
      BY <2>1, <3>1 DEF AddBehind
  <2>2. ASSUME NEW u \in Tasks, NEW k \in 1 .. Len(s), NEW l \in 1 .. Len(s),
               k < l, s[k] = u, IsAdd(s[l]), NEW a, s[l].answer = a
        PROVE  AddBehind(u, a, r)
    <3>1. k # 1 /\ l # 1
      BY <1>1, <2>2
    <3>2. PICK i \in 1 .. n, j \in 1 .. n : k = i + 1 /\ l = j + 1
      BY <1>1, <3>1
    <3>3. i < j /\ r[i] = u /\ r[j] = s[l]
      BY <1>1, <2>2, <3>2
    <3> QED
      BY <2>2, <3>3 DEF AddBehind
  <2> QED
    BY <2>1, <2>2, SMTT(30) DEF AddBehind
<1>5. \A a \in Answers : Added(a, r) => Added(a, s)
  BY <1>1 DEF Added
<1>6. \A a \in Answers : Added(a, s) =>
        Added(a, r) \/ (IsAdd(Head(s)) /\ a = Head(s).answer)
  BY <1>1 DEF Added
<1>7. AddsInOrder(s) => AddsInOrder(r)
  <2> SUFFICES ASSUME AddsInOrder(s), NEW i \in 1 .. n, NEW j \in 1 .. n, i < j,
                      IsAdd(r[i]), IsAdd(r[j])
               PROVE  r[i].answer < r[j].answer
    BY DEF AddsInOrder
  <2>1. /\ i + 1 \in 1 .. Len(s) /\ j + 1 \in 1 .. Len(s) /\ i + 1 < j + 1
        /\ s[i + 1] = r[i] /\ s[j + 1] = r[j]
    BY <1>1
  <2>2. s[i + 1].answer < s[j + 1].answer
    BY <2>1 DEF AddsInOrder
  <2> QED
    BY <2>1, <2>2
<1>8. AddsInOrder(s) /\ IsAdd(Head(s)) =>
        \A a \in Answers : Added(a, r) => Head(s).answer < a
  <2> SUFFICES ASSUME AddsInOrder(s), IsAdd(Head(s)), NEW i \in 1 .. n, IsAdd(r[i])
               PROVE  Head(s).answer < r[i].answer
    BY DEF Added
  <2>1. i + 1 \in 1 .. Len(s) /\ 1 \in 1 .. Len(s) /\ 1 < i + 1 /\ s[i + 1] = r[i]
    BY <1>1
  <2> QED
    BY <1>1, <2>1 DEF AddsInOrder
<1> QED
  BY <1>1, <1>2, <1>3, <1>4, <1>5, <1>6, <1>7, <1>8 DEF r

(* An activation that has no request keeps the requests as they are.        *)
LEMMA NoRequest ==
  ASSUME NEW s \in Requests, NEW r, Alike(r, s), NEW t \in Tasks, ~Waits(t, s)
  PROVE  Without(r, t, s)
BY DEF Alike, Without

LEMMA WithoutAlike ==
  ASSUME NEW s \in Requests, NEW r, NEW q, Alike(q, r), NEW t \in Tasks, Without(r, t, s)
  PROVE  Without(q, t, s)
BY DEF Alike, Without

(* The requests r where a step of activation t leaves the requests s.       *)
Placed(t, w, s, r) ==
  /\ r \in Requests
  /\ \A u \in Tasks : u # t => (Waits(u, r) <=> Waits(u, s))
  /\ \A u, v \in Tasks : u # t /\ v # t => (Ahead(u, v, r) <=> Ahead(u, v, s))
  /\ \A u \in Tasks : u # t => \A a \in Answers : AddBehind(u, a, r) <=> AddBehind(u, a, s)
  /\ \A a \in Answers : Added(a, r) <=> Added(a, s)
  /\ AddsInOrder(s) => AddsInOrder(r)
  /\ Waits(t, r) <=> w.pc \in DbWaits
  /\ \A u \in Tasks : ~Ahead(t, u, r)
  /\ \A u \in Tasks : u # t => (Ahead(u, t, r) <=> w.pc \in DbWaits /\ Waits(u, s))
  /\ \A a \in Answers : ~AddBehind(t, a, r)

LEMMA StepPlaced ==
  ASSUME NEW t \in Tasks, NEW w, NEW r, NEW s, Step(t, w, r), Without(r, t, s)
  PROVE  Placed(t, w, s, idb')
<1>1. ~Waits(t, r) /\ r \in Requests
  BY DEF Without
<1>2. /\ \A u \in Tasks : ~Ahead(t, u, r) /\ ~Ahead(u, t, r)
      /\ \A a \in Answers : ~AddBehind(t, a, r)
  BY <1>1 DEF Waits, Ahead, AddBehind
<1>3. CASE w.pc \in DbWaits
  <2>1. idb' = Append(r, t)
    BY <1>3 DEF Step
  <2>2. /\ idb' \in Requests
        /\ \A u \in Tasks : Waits(u, idb') <=> Waits(u, r) \/ u = t
        /\ \A u, v \in Tasks : Ahead(u, v, idb') <=> Ahead(u, v, r) \/ (v = t /\ Waits(u, r))
        /\ \A u \in Tasks : \A a \in Answers : AddBehind(u, a, idb') <=> AddBehind(u, a, r)
        /\ \A a \in Answers : Added(a, idb') <=> Added(a, r)
        /\ AddsInOrder(r) => AddsInOrder(idb')
    BY <1>1, <2>1, AppendedTask
  <2> QED
    BY <1>1, <1>2, <1>3, <2>2 DEF Without, Placed
<1>4. CASE w.pc \notin DbWaits
  <2>1. idb' = r
    BY <1>4 DEF Step
  <2> QED
    BY <1>1, <1>2, <1>4, <2>1 DEF Without, Placed
<1> QED
  BY <1>3, <1>4

-----------------------------------------------------------------------------
(***************************************************************************)
(* Storage that works.  No handled row is left over, so nothing waits for  *)
(* a clean-up; only a sync has handled rows of its own; and without        *)
(* persistence there is no row, no request of IndexedDB and no sync.       *)
(***************************************************************************)
StorageWorks == Faults \cap {"db", "dbAdd"} = {}

PlainTask(w) ==
  /\ w.pc # "cleaning"
  /\ w.gone # {} => w.sync /\ w.pc \in SendPCs
  /\ ~PersistOffline => ~w.sync /\ w.pc \notin DbWaits

Plain ==
  /\ processed = {}
  /\ \A t \in Tasks : PlainTask(task[t])
  /\ ~PersistOffline => idb = <<>> /\ tracked = {} /\ db = {} /\ page = "ready"

LEMMA IdlePlain == PlainTask(IdleTask)
BY DEF PlainTask, IdleTask, DbWaits

LEMMA CleanThenPlain ==
  ASSUME Plain, NEW w \in TaskType, NEW pc
  PROVE  /\ CleanThen(w, pc).pc = pc /\ CleanThen(w, pc).sync = w.sync
         /\ CleanThen(w, pc).gone = w.gone
BY DEF Plain, CleanThen, TaskType

LEMMA StartedPlain ==
  ASSUME Plain, NEW q \in SUBSET Answers, q # {}, NEW from \in {"app", "retry", "effect"},
         NEW id
  PROVE  LET w == Started(q, from, id) IN
         /\ PlainTask(w) /\ ~w.sync /\ w.gone = {}
         /\ IF PersistOffline THEN w.pc = "counting"
            ELSE w.pc = "sending" /\ w.cur = First(q)
<1>1. CASE PersistOffline
  <2> DEFINE v == [IdleTask EXCEPT !.from = from]
  <2>1. v \in TaskType /\ ~v.sync /\ v.gone = {}
    BY DEF IdleTask, TaskType, TaskPCs, DbWaits, Replies, NoAnswer, NoId
  <2>2. Started(q, from, id) = CleanThen(v, "counting")
    BY <1>1 DEF Started
  <2> HIDE DEF v
  <2> QED
    BY <1>1, <2>1, <2>2, CleanThenPlain DEF PlainTask
<1>2. CASE ~PersistOffline
  BY <1>2, StartedParts DEF PlainTask, DbWaits
<1> QED
  BY <1>1, <1>2

(* A sync that ends starts nothing: it still holds its lock.                *)
LEMMA EndSyncIdles ==
  ASSUME LocksOK, NEW t \in Tasks, task[t].sync, NEW q, NEW success, NEW drained, NEW r,
         EndSync(t, q, success, drained, r)
  PROVE  Step(t, IdleTask, Cleared(task[t], success, r))
BY DEF LocksOK, Draining, EndSync, AfterSync, Blocked

(* Deletions succeed.                                                       *)
LEMMA RowRemoved ==
  ASSUME StorageWorks, Plain, NEW a, NEW removed \in BOOLEAN, RemoveRow(a, removed)
  PROVE  removed /\ db' = db \ {a} /\ processed' = {}
BY DEF StorageWorks, Plain, RemoveRow, May

LEMMA PlainMove ==
  ASSUME Shape, Plain, NEW t \in Tasks, NEW w, task' = [task EXCEPT ![t] = w],
         PlainTask(w)
  PROVE  \A u \in Tasks : PlainTask(task'[u])
BY DEF Plain, Shape, TypeOK

LEMMA PlainProcessQueue ==
  ASSUME Shape, Plain, NEW q \in SUBSET Answers, NEW from \in {"app", "retry", "effect"},
         NEW r, ProcessQueue(q, from, r)
  PROVE  /\ \A u \in Tasks : PlainTask(task'[u])
         /\ ~PersistOffline => idb' = r
<1>1. CASE Blocked(q, inFlight)
  BY <1>1 DEF ProcessQueue, Plain
<1>2. CASE ~Blocked(q, inFlight)
  <2>1. PICK t \in Tasks : Step(t, Started(q, from, rid), r)
    BY <1>2 DEF ProcessQueue
  <2>2. PlainTask(Started(q, from, rid))
    BY <1>2, StartedPlain DEF Blocked
  <2> QED
    BY <2>1, <2>2, PlainMove DEF Step, PlainTask
<1> QED
  BY <1>1, <1>2

LEMMA PlainProcessNext ==
  ASSUME Shape, Plain, NEW t \in Tasks, NEW q \in SUBSET Answers, NEW id, NEW r,
         ProcessNext(t, q, id, r)
  PROVE  /\ \A u \in Tasks : PlainTask(task'[u])
         /\ ~PersistOffline => idb' = r
<1>1. PICK w : Step(t, w, r) /\ PlainTask(w)
  <2>1. CASE Blocked(q, FALSE)
    BY <2>1, IdlePlain DEF ProcessNext
  <2>2. CASE ~Blocked(q, FALSE)
    <3>1. PlainTask(Started(q, "app", id))
      BY <2>2, StartedPlain DEF Blocked
    <3> QED
      BY <2>2, <3>1 DEF ProcessNext
  <2> QED
    BY <2>1, <2>2
<1> QED
  BY <1>1, PlainMove DEF Step, PlainTask

LEMMA PlainStartEffect ==
  ASSUME Shape, Plain, NEW r, StartEffect(r)
  PROVE  /\ \A u \in Tasks : PlainTask(task'[u])
         /\ ~PersistOffline => idb' = r
<1>1. CASE ~PersistOffline \/ syncRef
  BY <1>1 DEF StartEffect, Plain
<1>2. CASE ~(~PersistOffline \/ syncRef)
  <2> DEFINE v == [IdleTask EXCEPT !.from = "effect"]
             w == CleanThen(v, "effect")
  <2>1. v \in TaskType /\ ~v.sync /\ v.gone = {}
    BY DEF IdleTask, TaskType, TaskPCs, DbWaits, Replies, NoAnswer, NoId
  <2>2. PICK t \in Tasks : task' = [task EXCEPT ![t] = w]
    BY <1>2 DEF StartEffect, Step
  <2> HIDE DEF v
  <2>3. PlainTask(w)
    BY <1>2, <2>1, CleanThenPlain DEF PlainTask
  <2> HIDE DEF w
  <2> QED
    BY <1>2, <2>2, <2>3, PlainMove
<1> QED
  BY <1>1, <1>2

LEMMA PlainStep ==
  ASSUME Shape, Plain, NEW t \in Tasks, NEW w, NEW r, Step(t, w, r), PlainTask(w),
         ~PersistOffline => r = <<>>
  PROVE  /\ \A u \in Tasks : PlainTask(task'[u])
         /\ ~PersistOffline => idb' = <<>>
BY PlainMove DEF Step, PlainTask

(* Without persistence there is nothing to serve and no row to tell of.     *)
LEMMA PlainMemory ==
  ASSUME Plain, ~PersistOffline
  PROVE  /\ idb = <<>> /\ tracked = {} /\ db = {} /\ page = "ready"
         /\ \A t \in Tasks : ~Served(t) /\ ~task[t].sync
         /\ \A op : ~Writing(op)
BY DEF Plain, PlainTask, Served, Writing

LEMMA SendingPlain ==
  ASSUME StorageWorks, Shape, LocksOK, Plain, NEW t \in Tasks, Sending(t)
  PROVE  /\ \A u \in Tasks : PlainTask(task'[u])
         /\ ~PersistOffline => idb' = <<>>
<1>1. /\ task[t] \in TaskType /\ PlainTask(task[t]) /\ WellFormed(task[t])
      /\ ~PersistOffline => idb = <<>> /\ ~Served(t) /\ tracked = {}
      /\ queue \in SUBSET Answers
  BY ActivationFacts, PlainMemory DEF Plain, Shape, TypeOK
<1>2. ASSUME NEW q \in SUBSET Answers, NEW id, NEW r, Success(t, q, id, r),
             ~PersistOffline => r = <<>>
      PROVE  /\ \A u \in Tasks : PlainTask(task'[u])
             /\ ~PersistOffline => idb' = <<>>
  BY <1>2, PlainProcessNext DEF Success
<1>3. ASSUME NEW card, NEW r, Failure(t, card, r), ~PersistOffline => r = <<>>
      PROVE  /\ \A u \in Tasks : PlainTask(task'[u])
             /\ ~PersistOffline => idb' = <<>>
  BY <1>3, PlainStep, IdlePlain DEF Failure
<1>4. ~PersistOffline => \A w : Patched(w) = <<>>
  BY <1>1 DEF Patched
<1>5. CASE CleanedUp(t)
  BY <1>1, <1>5 DEF CleanedUp, PlainTask
<1>6. CASE Counted(t)
  <2>1. PersistOffline /\ Served(t)
    BY <1>1, <1>6 DEF Counted
  <2>2. PICK w : Step(t, w, Tail(idb)) /\ PlainTask(w)
    <3>1. CASE Step(t, IdleTask, Tail(idb))
      BY <3>1, IdlePlain
    <3>2. CASE Step(t, CleanThen([IdleTask EXCEPT !.sync = TRUE], "reading"), Tail(idb))
      <4> DEFINE v == [IdleTask EXCEPT !.sync = TRUE]
      <4>1. v \in TaskType /\ v.gone = {}
        BY DEF IdleTask, TaskType, TaskPCs, DbWaits, Replies, NoAnswer, NoId
      <4> HIDE DEF v
      <4>2. PlainTask(CleanThen(v, "reading"))
        BY <2>1, <4>1, CleanThenPlain DEF PlainTask
      <4> QED
        BY <3>2, <4>2 DEF v
    <3>3. CASE /\ ~Overtaken
               /\ Step(t, Request([task[t] EXCEPT !.cur = First(queue)], rid), Tail(idb))
      <4> DEFINE v == [task[t] EXCEPT !.cur = First(queue)]
      <4>1. First(queue) \in Answers
        BY <1>1, <3>3, FirstIsLeast DEF Overtaken
      <4>2. v \in TaskType /\ v.gone = task[t].gone /\ v.sync = task[t].sync
        BY <1>1, <4>1 DEF TaskType
      <4>3. task[t].gone = {} /\ ~task[t].sync
        BY <1>1, <1>6 DEF PlainTask, Counted, SendPCs, WellFormed
      <4> HIDE DEF v
      <4>4. PlainTask(Request(v, rid))
        BY <2>1, <4>2, <4>3, RequestParts DEF PlainTask
      <4> QED
        BY <3>3, <4>4 DEF v
    <3> QED
      BY <1>6, <3>1, <3>2, <3>3 DEF Counted
  <2> QED
    BY <2>1, <2>2, PlainStep
<1>7. CASE CountFails(t)
  BY <1>7 DEF CountFails, May, StorageWorks
<1>8. CASE SendAccepted(t)
  <2>1. queue' \in SUBSET Answers
    BY <1>1, <1>8 DEF SendAccepted
  <2>2. CASE task[t].cur \in tracked
    <3> DEFINE w == [task[t] EXCEPT !.pc = "removing"]
    <3>1. w.pc = "removing" /\ w.sync = task[t].sync /\ w.gone = task[t].gone
      BY <1>1 DEF TaskType
    <3>2. PersistOffline /\ Step(t, w, Patched(task[t]))
      BY <1>1, <1>8, <2>2 DEF SendAccepted
    <3> HIDE DEF w
    <3>3. PlainTask(w)
      BY <1>1, <3>1, <3>2 DEF PlainTask, SendPCs
    <3> QED
      BY <3>2, <3>3, PlainStep
  <2>3. CASE task[t].cur \notin tracked
    BY <1>2, <1>4, <1>8, <2>1, <2>3 DEF SendAccepted
  <2> QED
    BY <2>2, <2>3
<1>9. CASE SendDeferred(t)
  BY <1>1, <1>9, PlainStep, IdlePlain DEF SendDeferred
<1>10. CASE SendRejected(t)
  <2>1. CASE task[t].cur \in tracked
    <3> DEFINE w == [task[t] EXCEPT !.pc = "dropping"]
    <3>1. w.pc = "dropping" /\ w.sync = task[t].sync /\ w.gone = task[t].gone
      BY <1>1 DEF TaskType
    <3>2. PersistOffline /\ Step(t, w, idb)
      BY <1>1, <1>10, <2>1 DEF SendRejected
    <3> HIDE DEF w
    <3>3. PlainTask(w)
      BY <1>1, <3>1, <3>2 DEF PlainTask, SendPCs
    <3> QED
      BY <3>2, <3>3, PlainStep
  <2>2. CASE task[t].cur \notin tracked
    BY <1>1, <1>3, <1>10, <2>2 DEF SendRejected
  <2> QED
    BY <2>1, <2>2
<1>11. CASE RecaptchaFailed(t) \/ GiveUp(t)
  BY <1>1, <1>3, <1>11 DEF RecaptchaFailed, GiveUp
<1>12. CASE BackOff(t)
  <2> DEFINE w == [task[t] EXCEPT !.pc = "backoff", !.reply = "none"]
  <2>1. w.pc = "backoff" /\ w.sync = task[t].sync /\ w.gone = task[t].gone
    BY <1>1 DEF TaskType
  <2>2. Step(t, w, idb)
    BY <1>12 DEF BackOff
  <2> HIDE DEF w
  <2>3. PlainTask(w)
    BY <1>1, <2>1 DEF PlainTask, SendPCs, DbWaits
  <2> QED
    BY <1>1, <2>2, <2>3, PlainStep
<1>13. CASE Resend(t)
  <2> DEFINE v == [task[t] EXCEPT !.attempt = @ + 1]
  <2>1. v \in TaskType /\ v.sync = task[t].sync /\ v.gone = task[t].gone
    BY <1>1 DEF TaskType
  <2>2. Step(t, Request(v, rid), idb)
    BY <1>13 DEF Resend
  <2> HIDE DEF v
  <2>3. PlainTask(Request(v, rid))
    BY <1>1, <2>1, RequestParts DEF PlainTask, SendPCs, DbWaits
  <2> QED
    BY <1>1, <2>2, <2>3, PlainStep
<1>14. CASE SentRowRemoved(t)
  BY <1>1, <1>2, <1>3, <1>14 DEF SentRowRemoved
<1> QED
  BY <1>5, <1>6, <1>7, <1>8, <1>9, <1>10, <1>11, <1>12, <1>13, <1>14 DEF Sending

(* A sync only runs over a store; the row it takes next is one that carries  *)
(* what it has handled.                                                      *)
LEMMA SendRowParts ==
  ASSUME NEW t, NEW w \in TaskType, NEW rows \in SUBSET Answers, rows # {}, NEW r,
         SendRow(t, w, rows, r)
  PROVE  \E v : /\ Step(t, v, r) /\ v.pc = "sending" /\ v.sync = w.sync
                /\ v.gone = w.gone /\ v.cur = First(rows)
                /\ v.todo = rows \ {First(rows)}
<1> DEFINE v == [w EXCEPT !.cur = First(rows), !.todo = rows \ {First(rows)}]
           id == IdFor(First(rows))
<1>1. First(rows) \in Answers
  BY FirstIsLeast
<1>2. /\ v \in TaskType /\ v.cur = First(rows) /\ v.todo = rows \ {First(rows)}
      /\ v.gone = w.gone /\ v.sync = w.sync
  BY <1>1 DEF TaskType
<1>3. Step(t, Request(v, id), r)
  BY DEF SendRow
<1> HIDE DEF v, id
<1> QED
  BY <1>2, <1>3, RequestParts

LEMMA SyncingPlain ==
  ASSUME StorageWorks, Shape, LocksOK, Plain, NEW t \in Tasks, Syncing(t)
  PROVE  /\ \A u \in Tasks : PlainTask(task'[u])
         /\ ~PersistOffline => idb' = <<>>
<1>1. /\ task[t] \in TaskType /\ PlainTask(task[t]) /\ WellFormed(task[t])
      /\ db \in SUBSET Answers
  BY ActivationFacts DEF Plain, Shape, TypeOK
<1>2. PersistOffline
  BY PlainMemory DEF Syncing, EffectCounted, RowsRead, ReadFails, RowAccepted, RowRejected,
     Recreate, SyncStopped, SyncedRowRemoved, Has, At
<1> SUFFICES \A u \in Tasks : PlainTask(task'[u])
  BY <1>2
<1>3. ASSUME NEW r, Step(t, IdleTask, r)
      PROVE  \A u \in Tasks : PlainTask(task'[u])
  BY <1>2, <1>3, PlainStep, IdlePlain
<1>4. ASSUME task[t].sync, NEW q, NEW success, NEW drained, NEW r,
             EndSync(t, q, success, drained, r)
      PROVE  \A u \in Tasks : PlainTask(task'[u])
  BY <1>3, <1>4, EndSyncIdles
<1>5. ASSUME NEW w \in TaskType, w.sync, NEW rows \in SUBSET Answers, rows # {}, NEW r,
             SendRow(t, w, rows, r)
      PROVE  \A u \in Tasks : PlainTask(task'[u])
  <2>1. PICK v : Step(t, v, r) /\ v.pc = "sending" /\ v.sync = w.sync
    BY <1>5, SendRowParts
  <2>2. PlainTask(v)
    BY <1>2, <1>5, <2>1 DEF PlainTask, SendPCs
  <2> QED
    BY <1>2, <2>1, <2>2, PlainStep
<1>6. ASSUME task[t].sync, NEW pc \in SendPCs, NEW r, Step(t, [task[t] EXCEPT !.pc = pc], r)
      PROVE  \A u \in Tasks : PlainTask(task'[u])
  <2> DEFINE w == [task[t] EXCEPT !.pc = pc]
  <2>1. w.pc = pc /\ w.sync
    BY <1>1, <1>6 DEF TaskType
  <2>2. Step(t, w, r)
    BY <1>6
  <2> HIDE DEF w
  <2>3. PlainTask(w)
    BY <1>2, <1>6, <2>1 DEF PlainTask, SendPCs
  <2> QED
    BY <1>2, <2>2, <2>3, PlainStep
<1>7. CASE EffectCounted(t)
  <2>1. CASE Step(t, IdleTask, Tail(idb))
    BY <1>3, <2>1
  <2>2. CASE Step(t, CleanThen([task[t] EXCEPT !.sync = TRUE], "reading"), Tail(idb))
    <3> DEFINE v == [task[t] EXCEPT !.sync = TRUE]
    <3>1. v \in TaskType /\ v.gone = task[t].gone
      BY <1>1 DEF TaskType
    <3>2. task[t].gone = {}
      BY <1>1, <1>7 DEF EffectCounted, PlainTask, SendPCs
    <3> HIDE DEF v
    <3>3. PlainTask(CleanThen(v, "reading"))
      BY <1>2, <3>1, <3>2, CleanThenPlain DEF PlainTask
    <3> QED
      BY <1>2, <2>2, <3>3, PlainStep DEF v
  <2> QED
    BY <1>7, <2>1, <2>2 DEF EffectCounted
<1>8. CASE RowsRead(t)
  <2>1. task[t].sync /\ EntriesToSync \in SUBSET Answers
    BY <1>1, <1>8 DEF RowsRead, WellFormed, EntriesToSync
  <2> QED
    BY <1>1, <1>4, <1>5, <1>8, <2>1 DEF RowsRead
<1>9. CASE ReadFails(t)
  BY <1>9 DEF ReadFails, May, StorageWorks
<1>10. CASE RowAccepted(t)
  BY <1>6, <1>10 DEF RowAccepted, Has, At, SendPCs
<1>11. CASE RowRejected(t)
  BY <1>6, <1>11 DEF RowRejected, Has, At, SendPCs
<1>12. CASE Recreate(t)
  <2>1. Request(task[t], NoId).pc = "sending" /\ Request(task[t], NoId).sync
    BY <1>1, <1>12, RequestParts DEF Recreate, Has, At
  <2>2. PlainTask(Request(task[t], NoId))
    BY <1>2, <2>1 DEF PlainTask, SendPCs
  <2> QED
    BY <1>2, <1>12, <2>2, PlainStep DEF Recreate
<1>13. CASE SyncStopped(t)
  BY <1>4, <1>13 DEF SyncStopped, Has, At
<1>14. CASE SyncedRowRemoved(t)
  <2> DEFINE w == [task[t] EXCEPT !.gone = @ \cup {task[t].cur}]
  <2>1. task[t].sync /\ task[t].cur \in Answers /\ task[t].todo \in SUBSET Answers
    BY <1>1, <1>14 DEF SyncedRowRemoved, WellFormed, SendPCs, TaskType
  <2>2. w \in TaskType /\ w.sync /\ w.todo = task[t].todo
    BY <1>1, <2>1 DEF TaskType
  <2>3. PICK removed \in BOOLEAN :
          IF removed /\ w.todo # {} THEN SendRow(t, w, w.todo, Tail(idb))
          ELSE EndSync(t, queue', removed, removed, Tail(idb))
    BY <1>14 DEF SyncedRowRemoved
  <2> HIDE DEF w
  <2> QED
    BY <1>4, <1>5, <2>1, <2>2, <2>3
<1> QED
  BY <1>2, <1>7, <1>8, <1>9, <1>10, <1>11, <1>12, <1>13, <1>14 DEF Syncing

LEMMA NetworkPlain ==
  ASSUME Shape, Plain, NEW t \in Tasks, Network(t)
  PROVE  /\ \A u \in Tasks : PlainTask(task'[u])
         /\ ~PersistOffline => idb' = <<>>
<1>1. PICK reply : Replied(t, reply) /\ task[t].pc = "sending" /\ UNCHANGED idb
  BY DEF Network, ServerHandles, ReplyLost, RequestFails, ServerRefuses, RequestUnchanged
<1> DEFINE w == [task[t] EXCEPT !.pc = "replied", !.reply = reply, !.created = Len(responses')]
<1>2. w.pc = "replied" /\ w.gone = task[t].gone /\ w.sync = task[t].sync
  BY ActivationFacts DEF TaskType
<1>3. task' = [task EXCEPT ![t] = w]
  BY <1>1, ActivationFacts DEF Replied, Shape, TypeOK, TaskType
<1> HIDE DEF w
<1>4. PlainTask(w)
  BY <1>1, <1>2 DEF Plain, PlainTask, DbWaits, SendPCs
<1> QED
  BY <1>1, <1>3, <1>4, PlainMove DEF Plain

LEMMA PagePlain ==
  ASSUME StorageWorks, Shape, Plain, Storage \/ Page \/ Submit \/ Retry \/ GoOnline
  PROVE  /\ \A u \in Tasks : PlainTask(task'[u])
         /\ ~PersistOffline => idb' = <<>>
<1>1. /\ queue \in SUBSET Answers /\ next \in Nat
      /\ \A u \in Tasks : PlainTask(task[u])
      /\ ~PersistOffline => idb = <<>> /\ page = "ready" /\ \A op : ~Writing(op)
  BY PlainMemory DEF Plain, Shape, TypeOK
<1>2. CASE Storage
  <2>1. PersistOffline
    BY <1>1, <1>2 DEF Storage, AnswerStored, AnswerNotStored, ProgressWritten
  <2> QED
    BY <1>1, <1>2, <2>1, PlainProcessQueue
    DEF Storage, AnswerStored, AnswerNotStored, ProgressWritten
<1>3. CASE StartFresh \/ GoOnline
  BY <1>1, <1>3, PlainStartEffect DEF StartFresh, GoOnline
<1>4. CASE Restore
  <2>1. PersistOffline
    BY <1>1, <1>4 DEF Restore
  <2>2. UNCHANGED task \/ \E r : StartEffect(r)
    BY <1>4 DEF Restore
  <2> QED
    BY <1>1, <2>1, <2>2, PlainStartEffect
<1>5. CASE Submit
  <2>1. queue' \in SUBSET Answers
    BY <1>1, <1>5 DEF Submit, CanSubmit
  <2> QED
    BY <1>1, <1>5, <2>1, PlainProcessQueue DEF Submit
<1>6. CASE Retry
  BY <1>1, <1>6, PlainProcessQueue DEF Retry
<1> QED
  BY <1>2, <1>3, <1>4, <1>5, <1>6 DEF Page

LEMMA PlainInductive ==
  ASSUME StorageWorks, Shape, LocksOK, Plain, [Next]_vars
  PROVE  Plain'
<1>1. /\ processed = {} /\ \A u \in Tasks : PlainTask(task[u])
      /\ ~PersistOffline => idb = <<>> /\ tracked = {} /\ db = {} /\ page = "ready"
      /\ ~PersistOffline => \A t \in Tasks : ~Served(t)
      /\ ~PersistOffline => \A op : ~Writing(op)
      /\ ~May("db")
  BY PlainMemory DEF Plain, May, StorageWorks
<1>2. /\ \A u \in Tasks : PlainTask(task'[u])
      /\ ~PersistOffline => idb' = <<>>
  <2>1. CASE \E t \in Tasks : Activation(t)
    BY <2>1, SendingPlain, SyncingPlain, NetworkPlain DEF Activation
  <2>2. CASE Storage \/ Page \/ Submit \/ Retry \/ GoOnline
    BY <2>2, PagePlain
  <2>3. CASE GoOffline \/ Delete \/ UNCHANGED vars
    BY <1>1, <2>3 DEF GoOffline, Delete, vars
  <2>4. CASE Reload
    BY <2>4, IdlePlain DEF Reload
  <2> QED
    BY <2>1, <2>2, <2>3, <2>4 DEF Next
<1>3. processed' = {}
  <2>1. CASE \E t \in Tasks : SentRowRemoved(t) \/ SyncedRowRemoved(t)
    BY <1>1, <2>1 DEF SentRowRemoved, SyncedRowRemoved, RemoveRow
  <2>2. CASE \E t \in Tasks : CleanedUp(t)
    BY <1>1, <2>2 DEF CleanedUp, PlainTask
  <2>3. CASE ~\E t \in Tasks : SentRowRemoved(t) \/ SyncedRowRemoved(t) \/ CleanedUp(t)
    BY <1>1, <2>3, ZenonT(60) DEF Next, Activation, Sending, Syncing, Network, Storage, Page,
       Counted, CountFails, SendAccepted, SendDeferred, SendRejected, RecaptchaFailed,
       BackOff, Resend, GiveUp, EffectCounted, RowsRead, ReadFails, RowAccepted,
       RowRejected, Recreate, SyncStopped, ServerHandles, ReplyLost, RequestFails,
       ServerRefuses, RequestUnchanged, AnswerStored, AnswerNotStored, ProgressWritten,
       Submit, Retry, GoOnline, GoOffline, Reload, StartFresh, Restore, Delete, vars
  <2> QED
    BY <2>1, <2>2, <2>3
<1>4. ~PersistOffline => tracked' = {} /\ db' = {} /\ page' = "ready"
  <2> SUFFICES ASSUME ~PersistOffline
               PROVE  tracked' = {} /\ db' = {} /\ page' = "ready"
    OBVIOUS
  <2>1. /\ \A t \in Tasks : ~CleanedUp(t) /\ ~SentRowRemoved(t) /\ ~SyncedRowRemoved(t)
        /\ ~AnswerStored /\ ~Reload
    BY <1>1 DEF CleanedUp, SentRowRemoved, SyncedRowRemoved, AnswerStored, Reload
  <2> QED
    BY <1>1, <2>1, ZenonT(60) DEF Next, Activation, Sending, Syncing, Network, Storage, Page,
       Counted, CountFails, SendAccepted, SendDeferred, SendRejected, RecaptchaFailed,
       BackOff, Resend, GiveUp, EffectCounted, RowsRead, ReadFails, RowAccepted,
       RowRejected, Recreate, SyncStopped, ForgetProcessed, ServerHandles, ReplyLost,
       RequestFails, ServerRefuses, RequestUnchanged, AnswerNotStored, ProgressWritten,
       Submit, Retry, GoOnline, GoOffline, StartFresh, Restore, Delete, vars, session
<1> QED
  BY <1>2, <1>3, <1>4 DEF Plain

LEMMA PlainInitially == Init => Plain
BY IdlePlain DEF Init, Plain

-----------------------------------------------------------------------------
(***************************************************************************)
(* The order of the answers.  The queue, the rows and the activations only *)
(* agree on which answer is next because IndexedDB serves its requests in  *)
(* order; four facts say how.  They are stated of activations tk, a queue  *)
(* q, rows d, tracked answers k, requests s, a next answer n and responses *)
(* rs, so that a step can be taken in two parts.                           *)
(***************************************************************************)
Busy(w) == w.sync \/ w.pc \in SendPCs
Deletes(w) == ~w.sync /\ Removes(w)
Counts(t, tk, s) == Waits(t, s) /\ tk[t].pc = "counting"

(* A count that is served finds the row of the oldest answer in memory      *)
(* unless that row is yet to be written behind it.                          *)
Fresh(t, q, s) == \E a \in q : (\A b \in q : a <= b) /\ ~AddBehind(t, a, s)

(* Rows are written in the order of their answers and after all stored ones.*)
(* A count is fresh or will find the deletion of a sent row behind it; no   *)
(* deletion is ahead of it, and a sync has yet to read.                     *)
Lined(tk, q, d, s) ==
  /\ AddsInOrder(s)
  /\ \A a \in Answers : Added(a, s) => a \in q /\ \A b \in d : b < a
  /\ \A t \in Tasks : (Waits(t, s) => tk[t].pc \in DbWaits) /\ ~Ahead(t, t, s)
  /\ \A t \in Tasks : Counts(t, tk, s) =>
       /\ Fresh(t, q, s) \/ \E u \in Tasks : Ahead(t, u, s) /\ Deletes(tk[u])
       /\ \A u \in Tasks : tk[u].sync => tk[u].pc = "reading" /\ Ahead(t, u, s)
       /\ \A u \in Tasks : Ahead(u, t, s) => ~Deletes(tk[u])

(* An answer in memory is stored, yet to be stored, or handled by a sync    *)
(* that has not told the queue.                                             *)
Taken(a, tk) == \E u \in Tasks : tk[u].sync /\ a \in tk[u].gone
Backed(tk, q, d, k, s) ==
  PersistOffline =>
    \A a \in q : a \in d \cap k \/ Added(a, s) \/ (a \in k /\ Taken(a, tk))

(* A request carries the oldest row; a sync goes through the rows in order.  *)
Orderly(w, d, k, s) ==
  /\ w.gone \cap d = {}
  /\ \A a \in w.gone : ~Added(a, s)
  /\ ~w.sync /\ Requesting(w) /\ PersistOffline =>
       w.cur \in d \cap k /\ \A b \in d : w.cur <= b
  /\ w.sync /\ w.pc \in SendPCs =>
       /\ \A b \in d : \/ b \in w.todo \cup {w.cur}
                       \/ \A c \in w.todo \cup {w.cur} : c < b
       /\ \A c \in w.todo : w.cur < c

(* No response has an answer newer than one that is still to be sent.       *)
Newest(tk, q, d, n, rs) ==
  \A i \in DOMAIN rs :
    rs[i].last < n /\ \A b \in q \cup d : rs[i].last <= b \/ Taken(b, tk)

LEMMA LinedMove ==
  ASSUME NEW tk \in [Tasks -> TaskType], NEW t \in Tasks, NEW w, NEW s, NEW r,
         Placed(t, w, s, r), NEW q \in SUBSET Answers, NEW q2 \in SUBSET q, NEW d,
         NEW d2 \in SUBSET d, Lined(tk, q, d, s),
         \A a \in q \ q2 : ~Added(a, s),
         w.pc = "counting" =>
           ~w.sync /\ q2 # {} /\ \A u \in Tasks \ {t} : ~Busy(tk[u]),
         \/ \A u \in Tasks \ {t} : ~Counts(u, tk, s)
         \/ /\ w.sync => w.pc = "reading"
            /\ ~Deletes(tk[t])
            /\ q2 = q \/ Deletes(w)
  PROVE  Lined([tk EXCEPT ![t] = w], q2, d2, r)
<1> DEFINE tl == [tk EXCEPT ![t] = w]
<1>1. tl[t] = w /\ \A u \in Tasks \ {t} : tl[u] = tk[u]
  OBVIOUS
<1> HIDE DEF tl
<1>2. AddsInOrder(r) /\ \A a \in Answers : Added(a, r) => a \in q2 /\ \A b \in d2 : b < a
  BY DEF Lined, Placed
<1>3. \A u \in Tasks : (Waits(u, r) => tl[u].pc \in DbWaits) /\ ~Ahead(u, u, r)
  BY <1>1 DEF Lined, Placed
<1>4. Counts(t, tl, r) =>
        /\ Fresh(t, q2, r)
        /\ \A u \in Tasks : ~tl[u].sync
        /\ \A u \in Tasks : Ahead(u, t, r) => ~Deletes(tl[u])
  <2> SUFFICES ASSUME w.pc = "counting"
               PROVE  /\ Fresh(t, q2, r)
                      /\ \A u \in Tasks : ~tl[u].sync /\ ~Deletes(tl[u])
    BY <1>1 DEF Counts
  <2>1. First(q2) \in q2 /\ \A b \in q2 : First(q2) <= b
    BY FirstIsLeast
  <2>2. Fresh(t, q2, r)
    BY <2>1 DEF Fresh, Placed
  <2>3. \A u \in Tasks : ~tl[u].sync /\ ~Deletes(tl[u])
    BY <1>1 DEF Busy, Deletes, Removes, SendPCs
  <2> QED
    BY <2>2, <2>3
<1>5. ASSUME NEW v \in Tasks \ {t}, Counts(v, tl, r)
      PROVE  /\ Fresh(v, q2, r) \/ \E u \in Tasks : Ahead(v, u, r) /\ Deletes(tl[u])
             /\ \A u \in Tasks : tl[u].sync => tl[u].pc = "reading" /\ Ahead(v, u, r)
             /\ \A u \in Tasks : Ahead(u, v, r) => ~Deletes(tl[u])
  <2>1. Counts(v, tk, s) /\ Waits(v, s)
    BY <1>1, <1>5 DEF Counts, Placed
  <2>2. /\ w.sync => w.pc = "reading"
        /\ ~Deletes(tk[t])
        /\ q2 = q \/ Deletes(w)
    BY <2>1
  <2>3. /\ Fresh(v, q, s) \/ \E u \in Tasks : Ahead(v, u, s) /\ Deletes(tk[u])
        /\ \A u \in Tasks : tk[u].sync => tk[u].pc = "reading" /\ Ahead(v, u, s)
        /\ \A u \in Tasks : Ahead(u, v, s) => ~Deletes(tk[u])
    BY <2>1 DEF Lined
  <2>4. w.pc \in DbWaits => Ahead(v, t, r)
    BY <2>1 DEF Placed
  <2>5. Fresh(v, q2, r) \/ \E u \in Tasks : Ahead(v, u, r) /\ Deletes(tl[u])
    <3>1. CASE Deletes(w)
      BY <1>1, <2>4, <3>1 DEF Deletes, Removes, DbWaits
    <3>2. CASE q2 = q /\ Fresh(v, q, s)
      <4>1. \A a \in Answers : AddBehind(v, a, r) <=> AddBehind(v, a, s)
        BY DEF Placed
      <4> QED
        BY <3>2, <4>1 DEF Fresh
    <3>3. CASE \E u \in Tasks : Ahead(v, u, s) /\ Deletes(tk[u])
      <4>1. PICK u \in Tasks : Ahead(v, u, s) /\ Deletes(tk[u])
        BY <3>3
      <4>2. u # t
        BY <2>2, <4>1
      <4> QED
        BY <1>1, <4>1, <4>2 DEF Placed
    <3> QED
      BY <2>2, <2>3, <3>1, <3>2, <3>3
  <2>6. \A u \in Tasks : tl[u].sync => tl[u].pc = "reading" /\ Ahead(v, u, r)
    <3>1. w.sync => w.pc = "reading" /\ Ahead(v, t, r)
      BY <2>2, <2>4 DEF DbWaits
    <3>2. \A u \in Tasks \ {t} : tk[u].sync => tk[u].pc = "reading" /\ Ahead(v, u, r)
      BY <2>3 DEF Placed
    <3> QED
      BY <1>1, <3>1, <3>2
  <2>7. \A u \in Tasks : Ahead(u, v, r) => ~Deletes(tl[u])
    BY <1>1, <2>3 DEF Placed
  <2> QED
    BY <2>5, <2>6, <2>7
<1> QED
  BY <1>2, <1>3, <1>4, <1>5 DEF Lined, tl, Counts

Ordered(tk, q, d, k, s, n, rs) ==
  /\ Lined(tk, q, d, s)
  /\ Backed(tk, q, d, k, s)
  /\ \A t \in Tasks : Orderly(tk[t], d, k, s)
  /\ Newest(tk, q, d, n, rs)

(* An activation moves to w: copies of answers may go, none comes.          *)
LEMMA OrderedMove ==
  ASSUME NEW tk \in [Tasks -> TaskType], NEW t \in Tasks, NEW w \in TaskType, NEW s, NEW r,
         Placed(t, w, s, r), NEW q \in SUBSET Answers, NEW q2 \in SUBSET q,
         NEW d \in SUBSET Answers, NEW d2 \in SUBSET d, NEW k \in SUBSET Answers,
         NEW k2 \in SUBSET k, NEW n, NEW rs, Ordered(tk, q, d, k, s, n, rs),
         \A u \in Tasks : PlainTask(tk[u]),
         \A a \in q \ q2 : ~Added(a, s),
         w.pc = "counting" =>
           ~w.sync /\ q2 # {} /\ \A u \in Tasks \ {t} : ~Busy(tk[u]),
         \/ \A u \in Tasks \ {t} : ~Counts(u, tk, s)
         \/ /\ w.sync => w.pc = "reading"
            /\ ~Deletes(tk[t])
            /\ q2 = q \/ Deletes(w),
         (d2 = d /\ k2 = k) \/ \A u \in Tasks \ {t} : ~Busy(tk[u]),
         Orderly(w, d2, k2, s),
         \A a \in q2 \cap d \cap k : a \in d2 \cap k2 \/ (a \in k2 /\ w.sync /\ a \in w.gone),
         tk[t].sync => \A a \in (q2 \cup d2) \cap tk[t].gone :
                         w.sync /\ a \in w.gone /\ (a \in k => a \in k2)
  PROVE  Ordered([tk EXCEPT ![t] = w], q2, d2, k2, r, n, rs)
<1> DEFINE tl == [tk EXCEPT ![t] = w]
<1>1. tl[t] = w /\ \A u \in Tasks \ {t} : tl[u] = tk[u]
  OBVIOUS
<1> HIDE DEF tl
<1>2. Lined(tl, q2, d2, r)
  BY LinedMove DEF Ordered, tl
<1>3. \A a \in Answers : Added(a, r) <=> Added(a, s)
  BY DEF Placed
<1>4. \A a \in q2 \cup d2 : Taken(a, tk) =>
        Taken(a, tl) /\ (a \in k => a \in k2)
  <2> SUFFICES ASSUME NEW a \in q2 \cup d2, NEW u \in Tasks, tk[u].sync, a \in tk[u].gone
               PROVE  Taken(a, tl) /\ (a \in k => a \in k2)
    BY DEF Taken
  <2>1. CASE u = t
    <3>1. w.sync /\ a \in w.gone /\ (a \in k => a \in k2)
      BY <2>1
    <3> QED
      BY <1>1, <3>1 DEF Taken
  <2>2. CASE u # t
    <3>1. k2 = k
      BY <2>2 DEF Busy
    <3>2. tl[u].sync /\ a \in tl[u].gone
      BY <1>1, <2>2
    <3> QED
      BY <3>1, <3>2 DEF Taken
  <2> QED
    BY <2>1, <2>2
<1>5. Backed(tl, q2, d2, k2, r)
  <2> SUFFICES ASSUME PersistOffline, NEW a \in q2
               PROVE  a \in d2 \cap k2 \/ Added(a, r) \/ (a \in k2 /\ Taken(a, tl))
    BY DEF Backed
  <2>1. a \in Answers /\ (a \in d \cap k \/ Added(a, s) \/ (a \in k /\ Taken(a, tk)))
    BY DEF Ordered, Backed
  <2>2. w.sync /\ a \in w.gone => Taken(a, tl)
    BY <1>1 DEF Taken
  <2> QED
    BY <1>3, <1>4, <2>1, <2>2
<1>6. ASSUME NEW u \in Tasks
      PROVE  Orderly(tl[u], d2, k2, r)
  <2>1. CASE u = t
    <3>1. w.gone \in SUBSET Answers
      BY DEF TaskType
    <3> QED
      BY <1>1, <1>3, <2>1, <3>1 DEF Orderly
  <2>2. CASE u # t /\ d2 = d /\ k2 = k
    <3>1. Orderly(tk[u], d, k, s) /\ tk[u].gone \in SUBSET Answers
      BY DEF Ordered, TaskType
    <3> QED
      BY <1>1, <1>3, <2>2, <3>1 DEF Orderly
  <2>3. CASE u # t /\ ~Busy(tk[u])
    <3>1. tk[u].gone = {} /\ ~tk[u].sync /\ ~Requesting(tk[u])
      BY <2>3 DEF Busy, PlainTask, Requesting, SendPCs
    <3> QED
      BY <1>1, <2>3, <3>1 DEF Orderly
  <2> QED
    BY <2>1, <2>2, <2>3
<1>7. Newest(tl, q2, d2, n, rs)
  BY <1>4 DEF Ordered, Newest
<1> QED
  BY <1>2, <1>5, <1>6, <1>7 DEF Ordered, tl

(* The requests change in a way that makes no difference.                   *)
LEMMA OrderedAlike ==
  ASSUME NEW tk \in [Tasks -> TaskType], NEW s, NEW r, Alike(r, s), NEW q \in SUBSET Answers,
         NEW d, NEW k, NEW n, NEW rs, Ordered(tk, q, d, k, s, n, rs)
  PROVE  Ordered(tk, q, d, k, r, n, rs)
<1>1. \A u \in Tasks : tk[u].gone \in SUBSET Answers
  BY DEF TaskType
<1>2. \A t \in Tasks : Fresh(t, q, s) => Fresh(t, q, r)
  BY DEF Alike, Fresh
<1>3. Lined(tk, q, d, r)
  BY <1>2 DEF Ordered, Alike, Lined, Counts
<1>4. Backed(tk, q, d, k, r)
  BY DEF Ordered, Alike, Backed
<1>5. \A t \in Tasks : Orderly(tk[t], d, k, r)
  BY <1>1 DEF Ordered, Alike, Orderly
<1> QED
  BY <1>3, <1>4, <1>5 DEF Ordered

LEMMA AlikeRefl == ASSUME NEW s \in Requests PROVE Alike(s, s)
BY DEF Alike

InOrder == Ordered(task, queue, db, tracked, idb, next, responses)
Sound == Shape /\ LocksOK /\ Settled /\ Held /\ Plain /\ InOrder

LEMMA SoundTypes ==
  ASSUME Sound
  PROVE  /\ task \in [Tasks -> TaskType] /\ \A u \in Tasks : PlainTask(task[u])
         /\ queue \in SUBSET Answers /\ db \in SUBSET Answers
         /\ tracked \in SUBSET Answers /\ idb \in Requests
         /\ Ordered(task, queue, db, tracked, idb, next, responses)
BY DEF Sound, Shape, TypeOK, ActivationsOK, Plain, InOrder

LEMMA NobodyElse ==
  ASSUME Sound, NEW t \in Tasks
  PROVE  /\ Busy(task[t]) <=> Engaged(t)
         /\ Engaged(t) => \A u \in Tasks \ {t} : ~Busy(task[u])
         /\ ~syncing /\ ~inFlight => \A u \in Tasks : ~Busy(task[u])
BY DEF Sound, LocksOK, SingleFlight, Engaged, Draining, Delivering, Busy

(* What the acting activation may rely on.  A count that waits behind a     *)
(* deletion or beside a sync that sends does not exist.                     *)
LEMMA Serving ==
  ASSUME Sound, NEW t \in Tasks, Served(t)
  PROVE  /\ Tail(idb) \in Requests /\ Without(Tail(idb), t, idb) /\ Waits(t, idb)
         /\ task[t].sync \/ Deletes(task[t]) =>
              \A u \in Tasks \ {t} : ~Counts(u, task, idb)
<1>1. /\ idb \in Requests /\ idb # <<>> /\ Head(idb) = t
      /\ Lined(task, queue, db, idb)
  BY SoundTypes DEF Served, Ordered
<1>2. ~Ahead(t, t, idb)
  BY <1>1 DEF Lined
<1>3. /\ Without(Tail(idb), t, idb)
      /\ \A u \in Tasks : u # t /\ Waits(u, idb) => Ahead(t, u, idb)
      /\ \A u \in Tasks : ~Ahead(u, t, idb)
  BY <1>1, <1>2, ServedTail
<1>4. Waits(t, idb) /\ Tail(idb) \in Requests
  BY <1>1, <1>3, TailIndex DEF Waits, Without
<1> QED
  BY <1>1, <1>3, <1>4 DEF Lined, Counts

LEMMA Unserved ==
  ASSUME Sound, NEW t \in Tasks, task[t].pc \notin DbWaits, NEW r, Alike(r, idb)
  PROVE  /\ Without(r, t, idb)
         /\ task[t].sync => \A u \in Tasks : ~Counts(u, task, idb)
<1>1. idb \in Requests /\ Lined(task, queue, db, idb)
  BY SoundTypes DEF Ordered
<1>2. ~Waits(t, idb)
  BY <1>1 DEF Lined
<1>3. task[t].pc # "reading"
  BY DEF DbWaits
<1> QED
  BY <1>1, <1>2, <1>3, NoRequest DEF Lined

LEMMA RestingOrderly ==
  ASSUME NEW w, w.gone = {}, ~Requesting(w), w.sync => w.pc \notin SendPCs, NEW d, NEW k, NEW s
  PROVE  Orderly(w, d, k, s)
BY DEF Orderly

LEMMA IdleOrderly ==
  /\ IdleTask \in TaskType /\ IdleTask.pc = "idle" /\ ~IdleTask.sync
  /\ \A d, k, s : Orderly(IdleTask, d, k, s)
<1>1. /\ IdleTask \in TaskType /\ IdleTask.pc = "idle" /\ ~IdleTask.sync
      /\ IdleTask.gone = {} /\ ~Requesting(IdleTask)
  BY DEF IdleTask, TaskType, TaskPCs, DbWaits, Replies, NoAnswer, NoId, Requesting
<1> QED
  BY <1>1, RestingOrderly

(* An activation moves and no copy of an answer does.                       *)
LEMMA OrderedQuiet ==
  ASSUME Sound, NEW t \in Tasks, NEW w \in TaskType, NEW r, Step(t, w, r),
         Without(r, t, idb),
         w.pc # "counting",
         \/ \A u \in Tasks \ {t} : ~Counts(u, task, idb)
         \/ (w.sync => w.pc = "reading") /\ ~Deletes(task[t]),
         Orderly(w, db, tracked, idb),
         task[t].gone = {} \/ (w.sync /\ w.gone = task[t].gone)
  PROVE  Ordered(task', queue, db, tracked, idb', next, responses)
<1>1. Placed(t, w, idb, idb') /\ task' = [task EXCEPT ![t] = w]
  BY StepPlaced DEF Step
<1> QED
  BY <1>1, SoundTypes, OrderedMove

(* processQueue starts, for a queue q, rows d, tracked answers k and        *)
(* requests s that the step has brought about.                              *)
LEMMA StartedOrderly ==
  ASSUME Sound, NEW q \in SUBSET Answers, q # {}, NEW from \in {"app", "retry", "effect"},
         NEW id \in Nat
  PROVE  LET w == Started(q, from, id) IN
         /\ w \in TaskType /\ ~w.sync
         /\ \A d, k, s : Orderly(w, d, k, s)
<1> DEFINE w == Started(q, from, id)
<1>1. w \in TaskType /\ ~w.sync /\ w.gone = {}
  BY StartedWellFormed, StartedPlain DEF Sound, Shape, WellFormed
<1>2. PersistOffline => w.pc = "counting"
  BY StartedPlain DEF Sound
<1> HIDE DEF w
<1> QED
  BY <1>1, <1>2 DEF Orderly, Requesting, w

LEMMA ProcessQueueOrdered ==
  ASSUME Sound, NEW q \in SUBSET Answers, NEW d \in SUBSET Answers, NEW k \in SUBSET Answers,
         NEW s \in Requests, NEW n, NEW rs, Ordered(task, q, d, k, s, n, rs),
         NEW from \in {"app", "retry", "effect"}, ProcessQueue(q, from, s)
  PROVE  Ordered(task', q, d, k, idb', n, rs)
<1>1. CASE Blocked(q, inFlight)
  BY <1>1 DEF ProcessQueue
<1>2. CASE ~Blocked(q, inFlight)
  <2>1. PICK t \in Tasks : Free(t) /\ Step(t, Started(q, from, rid), s)
    BY <1>2 DEF ProcessQueue
  <2>2. q # {} /\ ~syncing /\ ~inFlight /\ rid \in Nat
    BY <1>2 DEF Blocked, Sound, Shape, TypeOK
  <2> DEFINE w == Started(q, from, rid)
  <2>3. w \in TaskType /\ ~w.sync /\ Orderly(w, d, k, s)
    BY <2>2, StartedOrderly
  <2> HIDE DEF w
  <2>4. ~Waits(t, s)
    BY <2>1 DEF Free, Ordered, Lined, DbWaits
  <2>5. Placed(t, w, s, idb') /\ task' = [task EXCEPT ![t] = w]
    <3>1. Without(s, t, s)
      BY <2>4, NoRequest, AlikeRefl
    <3> QED
      BY <2>1, <3>1, StepPlaced DEF w, Step
  <2>6. \A u \in Tasks : ~Busy(task[u])
    BY <2>2, NobodyElse
  <2>7. ~task[t].sync /\ ~Deletes(task[t])
    BY <2>6 DEF Busy, Deletes, Removes, SendPCs
  <2> QED
    BY <2>2, <2>3, <2>5, <2>6, <2>7, SoundTypes, OrderedMove
<1> QED
  BY <1>1, <1>2

LEMMA StartEffectOrdered ==
  ASSUME Sound, NEW r, Alike(r, idb), StartEffect(r)
  PROVE  Ordered(task', queue, db, tracked, idb', next, responses)
<1>1. CASE ~PersistOffline \/ syncRef
  BY <1>1, SoundTypes, OrderedAlike DEF StartEffect
<1>2. CASE ~(~PersistOffline \/ syncRef)
  <2> DEFINE v == [IdleTask EXCEPT !.from = "effect"]
             w == CleanThen(v, "effect")
  <2>1. v \in TaskType /\ ~v.sync /\ v.gone = {}
    BY DEF IdleTask, TaskType, TaskPCs, DbWaits, Replies, NoAnswer, NoId
  <2>2. PICK t \in Tasks : Free(t) /\ Step(t, w, r)
    BY <1>2 DEF StartEffect
  <2> HIDE DEF v
  <2>3. w \in TaskType /\ w.pc = "effect" /\ ~w.sync /\ w.gone = {}
    BY <2>1, CleanThenPlain, CleanThenCounts DEF Sound, WellFormed
  <2> HIDE DEF w
  <2>4. Orderly(w, db, tracked, idb)
    BY <2>3, RestingOrderly DEF Requesting
  <2>5. Without(r, t, idb) /\ ~Deletes(task[t]) /\ task[t].gone = {}
    BY <2>2, Unserved, SoundTypes DEF Free, DbWaits, Deletes, Removes, PlainTask, SendPCs
  <2> QED
    BY <2>2, <2>3, <2>4, <2>5, OrderedQuiet
<1> QED
  BY <1>1, <1>2

(* A count that finds no lock held and at most one row finds the row of the *)
(* oldest answer in memory.                                                 *)
LEMMA CountFindsRow ==
  ASSUME Sound, NEW t \in Tasks, Served(t), task[t].pc = "counting", ~Overtaken
  PROVE  /\ PersistOffline /\ First(queue) \in Answers
         /\ First(queue) \in db \cap tracked
         /\ ~DefersToSync => \A b \in db : b = First(queue)
<1>1. /\ queue # {} /\ \A u \in Tasks : ~Busy(task[u])
      /\ queue \in SUBSET Answers /\ db \in SUBSET Answers /\ idb # <<>> /\ Head(idb) = t
      /\ idb \in Requests /\ Lined(task, queue, db, idb)
      /\ Backed(task, queue, db, tracked, idb)
  BY NobodyElse, SoundTypes DEF Overtaken, Served, Ordered
<1>2. PersistOffline /\ processed = {}
  BY <1>1 DEF Sound, Plain
<1>3. First(queue) \in queue /\ \A b \in queue : First(queue) <= b
  BY <1>1, FirstIsLeast
<1>4. Counts(t, task, idb)
  BY Serving DEF Counts
<1>5. Fresh(t, queue, idb)
  BY <1>1, <1>4 DEF Lined, Busy, Deletes, Removes, SendPCs
<1>6. ~AddBehind(t, First(queue), idb)
  <2>1. PICK a \in queue : (\A b \in queue : a <= b) /\ ~AddBehind(t, a, idb)
    BY <1>5 DEF Fresh
  <2> DEFINE f == First(queue)
  <2>2. a <= f /\ f <= a /\ a \in Int /\ f \in Int
    <3>1. a \in Answers /\ f \in Answers /\ a <= f /\ f <= a
      BY <1>1, <1>3, <2>1
    <3> QED
      BY <3>1, ResponseQueueAssumption DEF Answers
  <2> HIDE DEF f
  <2>3. a = f
    BY <2>2
  <2> QED
    BY <2>1, <2>3 DEF f
<1>7. ~Added(First(queue), idb)
  <2> SUFFICES ASSUME NEW i \in 1 .. Len(idb), IsAdd(idb[i]), idb[i].answer = First(queue)
               PROVE  FALSE
    BY DEF Added
  <2>1. 1 \in 1 .. Len(idb) /\ idb[1] = t /\ ~(i < 1)
    BY <1>1, TailIndex
  <2>2. i # 1
    BY <2>1 DEF IsAdd
  <2>3. 1 < i
    BY <2>1, <2>2
  <2> QED
    BY <1>6, <2>1, <2>3 DEF AddBehind
<1>8. First(queue) \in db \cap tracked
  BY <1>1, <1>2, <1>3, <1>7 DEF Backed, Taken, Busy
<1>9. ~DefersToSync => \A b \in db : b = First(queue)
  <2> SUFFICES ASSUME ~DefersToSync, NEW b \in db, b # First(queue)
               PROVE  FALSE
    OBVIOUS
  <2>1. IsFiniteSet(db) /\ Cardinality(db) \in Nat
    <3>1. IsFiniteSet(Answers)
      BY FS_Interval, ResponseQueueAssumption DEF Answers
    <3> QED
      BY <1>1, <3>1, FS_Subset, FS_CardinalityType
  <2>2. Cardinality(processed) = 0
    BY <1>2, FS_EmptySet
  <2>3. Cardinality(db) <= 1
    BY <2>1, <2>2 DEF DefersToSync, PendingCount
  <2>4. Cardinality({First(queue)} \cup {b}) = 2
    <3>1. IsFiniteSet({First(queue)}) /\ Cardinality({First(queue)}) = 1
      BY FS_Singleton
    <3>2. Cardinality({First(queue)} \cup {b}) = Cardinality({First(queue)}) + 1
      BY <3>1, FS_AddElement
    <3> QED
      BY <3>1, <3>2
  <2>5. Cardinality({First(queue)} \cup {b}) <= Cardinality(db)
    BY <1>8, <2>1, FS_Subset
  <2> QED
    BY <2>1, <2>3, <2>4, <2>5
<1> QED
  BY <1>1, <1>2, <1>3, <1>8, <1>9

(* The order, step by step.  Each step is described by where it takes the   *)
(* activations and the requests; what it does to the copies is its own.     *)
LEMMA CountedOrdered ==
  ASSUME StorageWorks, Sound, NEW t \in Tasks, Counted(t)
  PROVE  Ordered(task', queue, db, tracked, idb', next, responses)
<1>1. /\ Served(t) /\ task[t].pc = "counting" /\ task[t] \in TaskType /\ ~task[t].sync
      /\ task[t].gone = {} /\ ~Deletes(task[t])
      /\ Without(Tail(idb), t, idb)
  <2>1. Served(t) /\ task[t].pc = "counting" /\ task[t] \in TaskType /\ WellFormed(task[t])
    BY ActivationFacts DEF Sound, Counted
  <2>2. Without(Tail(idb), t, idb) /\ PlainTask(task[t])
    BY <2>1, Serving, SoundTypes
  <2> QED
    BY <2>1, <2>2 DEF WellFormed, PlainTask, Deletes, Removes
<1>2. CASE Step(t, IdleTask, Tail(idb))
  BY <1>1, <1>2, IdleOrderly, OrderedQuiet
<1>3. CASE Step(t, CleanThen([IdleTask EXCEPT !.sync = TRUE], "reading"), Tail(idb))
  <2> DEFINE v == [IdleTask EXCEPT !.sync = TRUE]
             w == CleanThen(v, "reading")
  <2>1. v \in TaskType /\ v.sync /\ v.gone = {}
    BY DEF IdleTask, TaskType, TaskPCs, DbWaits, Replies, NoAnswer, NoId
  <2>2. Step(t, w, Tail(idb))
    BY <1>3
  <2> HIDE DEF v
  <2>3. w \in TaskType /\ w.sync /\ w.gone = {} /\ w.pc = "reading"
    BY <2>1, CleanThenPlain, CleanThenReads DEF Sound, WellFormed
  <2> HIDE DEF w
  <2>4. Orderly(w, db, tracked, idb)
    BY <2>3, RestingOrderly DEF Requesting, SendPCs
  <2> QED
    BY <1>1, <2>2, <2>3, <2>4, OrderedQuiet
<1>4. CASE /\ ~Overtaken /\ ~DefersToSync
           /\ Step(t, Request([task[t] EXCEPT !.cur = First(queue)], rid), Tail(idb))
  <2> DEFINE v == [task[t] EXCEPT !.cur = First(queue)]
             w == Request(v, rid)
  <2>1. /\ First(queue) \in Answers /\ First(queue) \in db \cap tracked
        /\ \A b \in db : b = First(queue)
    BY <1>1, <1>4, CountFindsRow
  <2>2. v \in TaskType /\ v.cur = First(queue) /\ ~v.sync /\ v.gone = {}
    BY <1>1, <2>1 DEF TaskType
  <2>3. Step(t, w, Tail(idb))
    BY <1>4
  <2>4. rid \in Nat /\ TypeOK
    BY DEF Sound, Shape, TypeOK
  <2> HIDE DEF v
  <2>5. w \in TaskType /\ w.pc = "sending" /\ w.cur = First(queue) /\ ~w.sync /\ w.gone = {}
    BY <2>1, <2>2, <2>4, RequestParts, RequestWellFormed DEF WellFormed
  <2> HIDE DEF w
  <2>6. Orderly(w, db, tracked, idb)
    <3>1. \A b \in db : w.cur <= b
      BY <2>1, <2>5 DEF Answers
    <3> QED
      BY <2>1, <2>5, <3>1 DEF Orderly
  <2> QED
    BY <1>1, <2>3, <2>5, <2>6, OrderedQuiet
<1> QED
  BY <1>2, <1>3, <1>4 DEF Counted

LEMMA EffectCountedOrdered ==
  ASSUME StorageWorks, Sound, NEW t \in Tasks, EffectCounted(t)
  PROVE  Ordered(task', queue, db, tracked, idb', next, responses)
<1>1. /\ task[t] \in TaskType /\ ~task[t].sync /\ task[t].gone = {}
      /\ ~Deletes(task[t]) /\ Without(Tail(idb), t, idb)
  <2>1. Served(t) /\ task[t].pc = "effect" /\ task[t] \in TaskType /\ WellFormed(task[t])
    BY ActivationFacts DEF Sound, EffectCounted
  <2>2. Without(Tail(idb), t, idb) /\ PlainTask(task[t])
    BY <2>1, Serving, SoundTypes
  <2> QED
    BY <2>1, <2>2 DEF WellFormed, PlainTask, Deletes, Removes
<1>2. CASE Step(t, IdleTask, Tail(idb))
  BY <1>1, <1>2, IdleOrderly, OrderedQuiet
<1>3. CASE Step(t, CleanThen([task[t] EXCEPT !.sync = TRUE], "reading"), Tail(idb))
  <2> DEFINE v == [task[t] EXCEPT !.sync = TRUE]
             w == CleanThen(v, "reading")
  <2>1. v \in TaskType /\ v.sync /\ v.gone = {}
    BY <1>1 DEF TaskType
  <2>2. Step(t, w, Tail(idb))
    BY <1>3
  <2> HIDE DEF v
  <2>3. w \in TaskType /\ w.sync /\ w.gone = {} /\ w.pc = "reading"
    BY <2>1, CleanThenPlain, CleanThenReads DEF Sound, WellFormed
  <2> HIDE DEF w
  <2>4. Orderly(w, db, tracked, idb)
    BY <2>3, RestingOrderly DEF Requesting, SendPCs
  <2> QED
    BY <1>1, <2>2, <2>3, <2>4, OrderedQuiet
<1> QED
  BY <1>2, <1>3 DEF EffectCounted

(* A request that ends without an outcome, is retried, or is answered.      *)
LEMMA SendEndedOrdered ==
  ASSUME Sound, NEW t \in Tasks, SendDeferred(t) \/ RecaptchaFailed(t) \/ GiveUp(t)
  PROVE  Ordered(task', queue, db, tracked, idb', next, responses)
<1>1. /\ task[t].pc \in {"replied", "backoff"} /\ ~task[t].sync /\ Step(t, IdleTask, idb)
  BY DEF SendDeferred, RecaptchaFailed, GiveUp, Failure, Has, At
<1>2. task[t].gone = {} /\ idb \in Requests /\ ~Deletes(task[t])
  BY <1>1, SoundTypes DEF PlainTask, Deletes, Removes
<1>3. Without(idb, t, idb)
  BY <1>1, <1>2, Unserved, AlikeRefl DEF DbWaits
<1> QED
  BY <1>1, <1>2, <1>3, IdleOrderly, OrderedQuiet

(* A request under way stays one for the same answer.                       *)
LEMMA OrderlyAgain ==
  ASSUME NEW v, NEW w, NEW d, NEW k, NEW s, Orderly(v, d, k, s), v.pc \in SendPCs,
         w.sync = v.sync, w.gone = v.gone, w.cur = v.cur, w.todo = v.todo,
         w.sync \/ ~Requesting(w) \/ Requesting(v)
  PROVE  Orderly(w, d, k, s)
BY DEF Orderly

LEMMA RequestStays ==
  ASSUME Sound, NEW t \in Tasks, Requesting(task[t]), NEW w \in TaskType,
         w.sync = task[t].sync, w.gone = task[t].gone, w.cur = task[t].cur,
         w.todo = task[t].todo, w.pc \in SendPCs, NEW r, Alike(r, idb), Step(t, w, r),
         w.sync \/ Requesting(w)
  PROVE  Ordered(task', queue, db, tracked, idb', next, responses)
<1>1. task[t].pc \in SendPCs /\ task[t].pc \notin DbWaits /\ ~Deletes(task[t])
  BY DEF Requesting, SendPCs, DbWaits, Deletes, Removes
<1>2. /\ PlainTask(task[t]) /\ Orderly(task[t], db, tracked, idb)
  BY SoundTypes DEF Ordered
<1>3. Orderly(w, db, tracked, idb)
  BY <1>1, <1>2, OrderlyAgain
<1>4. /\ Without(r, t, idb)
      /\ task[t].sync => \A u \in Tasks : ~Counts(u, task, idb)
  BY <1>1, Unserved
<1>5. task[t].gone = {} \/ w.sync
  BY <1>2 DEF PlainTask
<1>6. w.pc # "counting"
  BY DEF SendPCs
<1> QED
  BY <1>1, <1>3, <1>4, <1>5, <1>6, OrderedQuiet

LEMMA SendRetriedOrdered ==
  ASSUME Sound, NEW t \in Tasks, BackOff(t) \/ Resend(t)
  PROVE  Ordered(task', queue, db, tracked, idb', next, responses)
<1>1. /\ task[t] \in TaskType /\ task[t].cur \in Answers /\ Requesting(task[t])
      /\ idb \in Requests /\ Alike(idb, idb) /\ rid \in Nat /\ TypeOK
  <2>1. task[t].pc \in {"replied", "backoff"}
    BY DEF BackOff, Resend, Has, At
  <2> QED
    BY <2>1, ActivationFacts, SoundTypes, AlikeRefl
    DEF Sound, Requesting, WellFormed, SendPCs, Shape, TypeOK
<1>2. CASE BackOff(t)
  <2> DEFINE w == [task[t] EXCEPT !.pc = "backoff", !.reply = "none"]
  <2>1. /\ w \in TaskType /\ w.pc = "backoff" /\ w.sync = task[t].sync
        /\ w.gone = task[t].gone /\ w.cur = task[t].cur /\ w.todo = task[t].todo
    BY <1>1 DEF TaskType, TaskPCs, Replies
  <2>2. Step(t, w, idb)
    BY <1>2 DEF BackOff
  <2> HIDE DEF w
  <2> QED
    BY <1>1, <2>1, <2>2, RequestStays DEF SendPCs, Requesting
<1>3. CASE Resend(t)
  <2> DEFINE v == [task[t] EXCEPT !.attempt = @ + 1]
             w == Request(v, rid)
  <2>1. /\ v \in TaskType /\ v.sync = task[t].sync
        /\ v.gone = task[t].gone /\ v.cur = task[t].cur /\ v.todo = task[t].todo
    BY <1>1 DEF TaskType
  <2>2. Step(t, w, idb)
    BY <1>3 DEF Resend
  <2> HIDE DEF v
  <2>3. /\ w \in TaskType /\ w.pc = "sending" /\ w.sync = task[t].sync
        /\ w.gone = task[t].gone /\ w.cur = task[t].cur /\ w.todo = task[t].todo
    BY <1>1, <2>1, RequestParts, RequestWellFormed DEF WellFormed
  <2> HIDE DEF w
  <2> QED
    BY <1>1, <2>2, <2>3, RequestStays DEF SendPCs, Requesting
<1> QED
  BY <1>2, <1>3

LEMMA RepliedOrdered ==
  ASSUME Sound, NEW t \in Tasks, Network(t)
  PROVE  Ordered(task', queue, db, tracked, idb', next, responses)
<1>1. PICK reply \in Replies : Replied(t, reply) /\ task[t].pc = "sending" /\ UNCHANGED idb
  <2>1. PICK reply : Replied(t, reply) /\ task[t].pc = "sending" /\ UNCHANGED idb
                     /\ reply \in {Verdict(task[t]), "unavailable", "rejected", "recaptcha"}
    BY DEF Network, ServerHandles, ReplyLost, RequestFails, ServerRefuses, RequestUnchanged
  <2> QED
    BY <2>1 DEF Verdict, Replies
<1> DEFINE w == [task[t] EXCEPT !.pc = "replied", !.reply = reply, !.created = Len(responses')]
<1>2. task[t] \in TaskType /\ Requesting(task[t]) /\ idb \in Requests /\ Alike(idb, idb)
  BY <1>1, ActivationFacts, SoundTypes, AlikeRefl DEF Sound, Requesting
<1>3. Len(responses') \in Nat
  BY NetworkShape, LenProperties DEF Sound, Shape, TypeOK
<1>4. /\ w \in TaskType /\ w.pc = "replied" /\ w.sync = task[t].sync
      /\ w.gone = task[t].gone /\ w.cur = task[t].cur /\ w.todo = task[t].todo
  BY <1>2, <1>3 DEF TaskType, TaskPCs
<1>5. task' = [task EXCEPT ![t] = w]
  BY <1>1, <1>2, SoundTypes DEF Replied, TaskType
<1> HIDE DEF w
<1>6. Step(t, w, idb)
  BY <1>1, <1>4, <1>5 DEF Step, DbWaits
<1> QED
  BY <1>2, <1>4, <1>6, RequestStays DEF SendPCs, Requesting

(* The writes a step issues that are not of a row.                          *)
LEMMA OtherWrite ==
  ASSUME NEW s \in Requests, NEW op \in {"save", "patchId", "patchDisplay", "clear"},
         NEW id \in Nat, NEW d \in Nat, NEW data \in SUBSET Answers
  PROVE  Alike(Append(s, Write(op, NoAnswer, id, d, data)), s)
<1> DEFINE x == Write(op, NoAnswer, id, d, data)
<1>1. x \in WriteType /\ x.op = op
  BY DEF Write, WriteType
<1>2. x \notin Tasks
  BY <1>1, TasksAssumption
<1>3. ~IsAdd(x)
  BY <1>1 DEF IsAdd
<1> HIDE DEF x
<1> QED
  BY <1>1, <1>2, <1>3, AppendedWrite DEF x

LEMMA PatchedAlike ==
  ASSUME Sound, NEW w \in TaskType
  PROVE  Alike(Patched(w), idb)
<1>1. idb \in Requests /\ w.created \in Nat /\ NoDisplay \in Nat
  BY SoundTypes DEF TaskType, NoDisplay
<1> QED
  BY <1>1, OtherWrite, AlikeRefl DEF Patched

LEMMA ClearedAlike ==
  ASSUME NEW w, NEW success, NEW r \in Requests
  PROVE  Alike(Cleared(w, success, r), r)
<1>1. NoId \in Nat /\ NoDisplay \in Nat
  BY DEF NoId, NoDisplay
<1> QED
  BY <1>1, OtherWrite, AlikeRefl DEF Cleared

LEMMA ProcessNextMove ==
  ASSUME Sound, NEW t \in Tasks, NEW q \in SUBSET Answers, NEW id \in Nat, NEW r,
         ProcessNext(t, q, id, r)
  PROVE  \E w \in TaskType : /\ Step(t, w, r) /\ ~w.sync
                             /\ w.pc = "counting" => PersistOffline /\ q # {}
                             /\ \A d, k, s : Orderly(w, d, k, s)
<1>1. CASE Blocked(q, FALSE)
  BY <1>1, IdleOrderly DEF ProcessNext
<1>2. CASE ~Blocked(q, FALSE)
  <2> DEFINE w == Started(q, "app", id)
  <2>1. q # {} /\ Step(t, w, r)
    BY <1>2 DEF Blocked, ProcessNext
  <2>2. w \in TaskType /\ ~w.sync /\ \A d, k, s : Orderly(w, d, k, s)
    BY <2>1, StartedOrderly
  <2>3. w.pc = "counting" => PersistOffline
    BY <2>1, StartedPlain DEF Sound
  <2> HIDE DEF w
  <2> QED
    BY <2>1, <2>2, <2>3
<1> QED
  BY <1>1, <1>2

(* The answer of a sender with persistence has a row.                       *)
LEMMA SenderStored ==
  ASSUME Sound, NEW t \in Tasks, ~task[t].sync, Requesting(task[t])
  PROVE  /\ Engaged(t) /\ task[t].cur \in queue /\ First(queue) = task[t].cur
         /\ PersistOffline => task[t].cur \in db \cap tracked
         /\ PersistOffline => \A b \in db : task[t].cur <= b
         /\ ~Added(task[t].cur, idb)
<1>1. Engaged(t) /\ task[t].cur \in queue /\ First(queue) = task[t].cur
  BY SenderHolds DEF Sound
<1>2. PersistOffline => task[t].cur \in db \cap tracked /\ \A b \in db : task[t].cur <= b
  BY SoundTypes DEF Ordered, Orderly
<1>3. ~Added(task[t].cur, idb)
  <2>1. CASE PersistOffline
    <3>1. task[t].cur \in Nat
      BY <1>1, SoundTypes, ResponseQueueAssumption DEF Answers
    <3> QED
      BY <1>1, <1>2, <2>1, <3>1, SoundTypes DEF Ordered, Lined
  <2>2. CASE ~PersistOffline
    <3>1. idb = <<>>
      BY <2>2 DEF Sound, Plain
    <3> QED
      BY <3>1 DEF Added
  <2> QED
    BY <2>1, <2>2
<1> QED
  BY <1>1, <1>2, <1>3

LEMMA AnswerLeaves ==
  ASSUME Sound, NEW t \in Tasks, ~task[t].sync, task[t].pc = "replied",
         queue' = queue \ {First(queue)},
         \/ /\ task[t].cur \in tracked
            /\ \E pc \in {"removing", "dropping"} : \E r :
                 Alike(r, idb) /\ Step(t, [task[t] EXCEPT !.pc = pc], r)
         \/ /\ task[t].cur \notin tracked
            /\ \E w \in TaskType : /\ Step(t, w, idb) /\ ~w.sync /\ w.pc # "counting"
                                   /\ \A d, k, s : Orderly(w, d, k, s)
  PROVE  Ordered(task', queue', db, tracked, idb', next, responses)
<1>1. /\ Requesting(task[t]) /\ ~Deletes(task[t]) /\ task[t].pc \notin DbWaits
      /\ task[t].pc \in SendPCs /\ task[t] \in TaskType
      /\ idb \in Requests /\ Alike(idb, idb)
      /\ Orderly(task[t], db, tracked, idb)
  BY SoundTypes, AlikeRefl
  DEF Requesting, Deletes, Removes, DbWaits, SendPCs, Ordered
<1>2. /\ Engaged(t) /\ queue' = queue \ {task[t].cur} /\ task[t].cur \in queue
      /\ PersistOffline => task[t].cur \in tracked
      /\ ~Added(task[t].cur, idb)
  BY <1>1, SenderStored
<1>3. queue' \in SUBSET queue /\ \A a \in queue \ queue' : ~Added(a, idb)
  BY <1>2
<1>4. \A u \in Tasks \ {t} : ~Busy(task[u])
  BY <1>2, NobodyElse
<1>5. CASE task[t].cur \in tracked
  <2>0. PICK pc \in {"removing", "dropping"} : \E r :
          Alike(r, idb) /\ Step(t, [task[t] EXCEPT !.pc = pc], r)
    BY <1>5
  <2>1. PICK r : /\ pc \in {"removing", "dropping"}
                 /\ Alike(r, idb) /\ Step(t, [task[t] EXCEPT !.pc = pc], r)
    BY <2>0
  <2> DEFINE w == [task[t] EXCEPT !.pc = pc]
  <2>2. /\ w \in TaskType /\ w.pc = pc /\ w.sync = task[t].sync /\ ~w.sync
        /\ w.gone = task[t].gone /\ w.cur = task[t].cur /\ w.todo = task[t].todo
    BY <1>1, <2>1 DEF TaskType, TaskPCs, DbWaits
  <2>3. Step(t, w, r)
    BY <2>1
  <2> HIDE DEF w
  <2>4. Deletes(w) /\ ~Requesting(w) /\ w.pc # "counting"
    BY <2>1, <2>2 DEF Deletes, Removes, Requesting
  <2>5. Orderly(w, db, tracked, idb)
    BY <1>1, <2>2, <2>4, OrderlyAgain
  <2>6. Placed(t, w, idb, idb') /\ task' = [task EXCEPT ![t] = w]
    BY <1>1, <2>1, <2>3, Unserved, StepPlaced DEF Step
  <2> QED
    BY <1>1, <1>3, <1>4, <2>2, <2>4, <2>5, <2>6, SoundTypes, OrderedMove
<1>6. CASE task[t].cur \notin tracked
  <2>1. PICK w \in TaskType : /\ Step(t, w, idb) /\ ~w.sync /\ w.pc # "counting"
                              /\ \A d, k, s : Orderly(w, d, k, s)
    BY <1>6
  <2>2. idb = <<>>
    BY <1>2, <1>6 DEF Sound, Plain
  <2>3. \A u \in Tasks : ~Counts(u, task, idb)
    BY <2>2 DEF Counts, Waits
  <2>4. Placed(t, w, idb, idb') /\ task' = [task EXCEPT ![t] = w]
    BY <1>1, <2>1, Unserved, StepPlaced DEF Step
  <2> QED
    BY <1>1, <1>3, <1>4, <2>1, <2>3, <2>4, SoundTypes, OrderedMove
<1> QED
  BY <1>5, <1>6

LEMMA SendHandledOrdered ==
  ASSUME Sound, Shape', NEW t \in Tasks, SendAccepted(t) \/ SendRejected(t)
  PROVE  Ordered(task', queue', db, tracked, idb', next, responses)
<1>1. /\ task[t].pc = "replied" /\ ~task[t].sync /\ queue' = queue \ {First(queue)}
      /\ task[t] \in TaskType /\ idb \in Requests /\ Alike(idb, idb)
      /\ queue' \in SUBSET Answers /\ rid' \in Nat
  BY SoundTypes, AlikeRefl DEF SendAccepted, SendRejected, Has, At, Shape, TypeOK
<1>2. CASE task[t].cur \in tracked
  <2>1. \E pc \in {"removing", "dropping"} : \E r :
          Alike(r, idb) /\ Step(t, [task[t] EXCEPT !.pc = pc], r)
    BY <1>1, <1>2, PatchedAlike DEF SendAccepted, SendRejected
  <2> QED
    BY <1>1, <1>2, <2>1, AnswerLeaves
<1>3. CASE task[t].cur \notin tracked
  <2>1. ~PersistOffline
    BY <1>1, <1>3, SenderStored DEF Requesting
  <2>2. Patched(task[t]) = idb
    BY <2>1 DEF Patched
  <2>3. ProcessNext(t, queue', rid', idb) \/ Step(t, IdleTask, idb)
    BY <1>3, <2>2 DEF SendAccepted, SendRejected, Success, Failure
  <2>4. \E w \in TaskType : /\ Step(t, w, idb) /\ ~w.sync /\ w.pc # "counting"
                            /\ \A d, k, s : Orderly(w, d, k, s)
    BY <1>1, <2>1, <2>3, ProcessNextMove, IdleOrderly
  <2> QED
    BY <1>1, <1>3, <2>4, AnswerLeaves
<1> QED
  BY <1>2, <1>3

LEMMA SentRowRemovedOrdered ==
  ASSUME StorageWorks, Sound, NEW t \in Tasks, SentRowRemoved(t)
  PROVE  Ordered(task', queue, db', tracked', idb', next, responses)
<1>1. /\ Served(t) /\ ~task[t].sync /\ Removes(task[t]) /\ Deletes(task[t]) /\ Engaged(t)
      /\ task[t] \in TaskType
  BY SoundTypes DEF SentRowRemoved, Removes, Deletes, Engaged, Delivering, SendPCs
<1>2. db' = db \ {task[t].cur} /\ tracked' = tracked \ {task[t].cur}
  <2>1. PICK removed \in BOOLEAN :
          /\ RemoveRow(task[t].cur, removed)
          /\ tracked' = IF removed THEN tracked \ {task[t].cur} ELSE tracked
    BY DEF SentRowRemoved
  <2> QED
    BY <2>1, RowRemoved DEF Sound
<1>3. task[t].cur \notin queue
  BY <1>1 DEF Sound, Held, Carries
<1>4. /\ Without(Tail(idb), t, idb) /\ \A u \in Tasks \ {t} : ~Counts(u, task, idb)
      /\ \A u \in Tasks \ {t} : ~Busy(task[u])
  BY <1>1, Serving, NobodyElse
<1>5. PICK w \in TaskType : /\ Step(t, w, Tail(idb)) /\ ~w.sync
                            /\ w.pc = "counting" => queue # {}
                            /\ \A d, k, s : Orderly(w, d, k, s)
  <2>1. CASE ProcessNext(t, queue, rid, Tail(idb))
    <3>1. queue \in SUBSET Answers /\ rid \in Nat
      BY DEF Sound, Shape, TypeOK
    <3> QED
      BY <2>1, <3>1, ProcessNextMove
  <2>2. CASE Step(t, IdleTask, Tail(idb))
    BY <2>2, IdleOrderly
  <2> QED
    BY <2>1, <2>2 DEF SentRowRemoved, Success, Failure
<1>6. Placed(t, w, idb, idb') /\ task' = [task EXCEPT ![t] = w]
  BY <1>4, <1>5, StepPlaced DEF Step
<1>7. /\ db' \in SUBSET db /\ tracked' \in SUBSET tracked
      /\ \A a \in queue \cap db \cap tracked : a \in db' \cap tracked'
      /\ Orderly(w, db', tracked', idb)
  BY <1>2, <1>3, <1>5
<1>8. queue \in SUBSET queue /\ \A a \in queue \ queue : ~Added(a, idb)
  OBVIOUS
<1> QED
  BY <1>1, <1>4, <1>5, <1>6, <1>7, <1>8, SoundTypes, OrderedMove

(* A sync.                                                                  *)
LEMMA SyncHolds ==
  ASSUME Sound, NEW t \in Tasks, task[t].sync
  PROVE  /\ PersistOffline /\ Engaged(t) /\ \A u \in Tasks \ {t} : ~Busy(task[u])
         /\ task[t].gone \cap db = {} /\ \A a \in task[t].gone : ~Added(a, idb)
         /\ task[t].gone \in SUBSET Answers
         /\ \A a \in queue \cap task[t].gone : a \in tracked
         /\ \A a \in Answers : Taken(a, task) <=> a \in task[t].gone
         /\ task[t].pc \in SendPCs => task[t].cur \in db /\ ~Added(task[t].cur, idb)
<1>1. PersistOffline /\ Engaged(t) /\ Orderly(task[t], db, tracked, idb)
  BY SoundTypes DEF PlainTask, Engaged, Draining, Ordered
<1>2. \A u \in Tasks \ {t} : ~Busy(task[u])
  BY <1>1, NobodyElse
<1>3. \A a \in Answers : Taken(a, task) <=> a \in task[t].gone
  BY <1>2 DEF Taken, Busy
<1>4. task[t].gone \cap db = {} /\ \A a \in task[t].gone : ~Added(a, idb)
  BY <1>1 DEF Orderly
<1>5. \A a \in queue \cap task[t].gone : a \in tracked
  BY <1>1, <1>4, SoundTypes DEF Ordered, Backed
<1>6. task[t].pc \in SendPCs => task[t].cur \in db /\ ~Added(task[t].cur, idb)
  <2> SUFFICES ASSUME task[t].pc \in SendPCs
               PROVE  task[t].cur \in db /\ ~Added(task[t].cur, idb)
    OBVIOUS
  <2>1. task[t].cur \in db
    BY DEF Sound, Held, Carries
  <2>2. task[t].cur \in Answers /\ ~(task[t].cur < task[t].cur)
    BY <2>1, SoundTypes, ResponseQueueAssumption DEF Answers
  <2> QED
    BY <2>1, <2>2, SoundTypes DEF Ordered, Lined
<1>7. task[t].gone \in SUBSET Answers
  BY SoundTypes DEF TaskType
<1> QED
  BY <1>1, <1>2, <1>3, <1>4, <1>5, <1>6, <1>7

(* The next row of a sync, and the rows after it.                           *)
LEMMA NextRow ==
  ASSUME NEW rows \in SUBSET Answers, rows # {}
  PROVE  /\ First(rows) \in rows
         /\ \A b \in rows : b \in (rows \ {First(rows)}) \cup {First(rows)}
         /\ \A c \in rows \ {First(rows)} : First(rows) < c
<1>1. First(rows) \in rows /\ \A b \in rows : First(rows) <= b
  BY FirstIsLeast
<1>2. \A b \in rows : b \in Int
  BY ResponseQueueAssumption DEF Answers
<1> QED
  BY <1>1, <1>2

LEMMA RowsReadOrdered ==
  ASSUME StorageWorks, Sound, Shape', NEW t \in Tasks, RowsRead(t) \/ ReadFails(t)
  PROVE  Ordered(task', queue, db, tracked, idb', next, responses)
<1>1. RowsRead(t)
  BY DEF ReadFails, May, StorageWorks
<1>2. /\ Served(t) /\ task[t].pc = "reading" /\ task[t].sync /\ task[t].gone = {}
      /\ task[t] \in TaskType /\ db \in SUBSET Answers /\ EntriesToSync = db
  BY <1>1, ActivationFacts, SoundTypes
  DEF RowsRead, Sound, WellFormed, PlainTask, SendPCs, EntriesToSync, Plain
<1>3. /\ Tail(idb) \in Requests /\ Without(Tail(idb), t, idb)
      /\ \A u \in Tasks \ {t} : ~Counts(u, task, idb)
  BY <1>2, Serving
<1>4. CASE db = {}
  <2> DEFINE r == Cleared(task[t], TRUE, Tail(idb))
  <2>1. Step(t, IdleTask, r)
    BY <1>1, <1>2, <1>4, EndSyncIdles DEF RowsRead, Sound
  <2>2. Without(r, t, idb)
    <3>1. idb \in Requests
      BY SoundTypes
    <3> QED
      BY <1>3, <3>1, ClearedAlike, WithoutAlike
  <2> HIDE DEF r
  <2> QED
    BY <1>2, <1>3, <2>1, <2>2, IdleOrderly, OrderedQuiet
<1>5. CASE db # {}
  <2>1. PICK v : /\ Step(t, v, Tail(idb)) /\ v.pc = "sending" /\ v.sync = task[t].sync
                 /\ v.gone = task[t].gone /\ v.cur = First(db)
                 /\ v.todo = db \ {First(db)}
    <3>1. SendRow(t, task[t], db, Tail(idb))
      BY <1>1, <1>2, <1>5 DEF RowsRead
    <3>2. db \in SUBSET Answers /\ db # {} /\ task[t] \in TaskType
      BY <1>2, <1>5
    <3> QED
      BY <3>1, <3>2, SendRowParts
  <2>2. v \in TaskType
    <3>1. task'[t] = v
      BY <2>1, SoundTypes DEF Step
    <3> QED
      BY <3>1 DEF Shape, TypeOK
  <2>3. Orderly(v, db, tracked, idb)
    BY <1>2, <1>5, <2>1, NextRow DEF Orderly
  <2> QED
    BY <1>2, <1>3, <2>1, <2>2, <2>3, OrderedQuiet
<1> QED
  BY <1>4, <1>5

LEMMA RowRepliedOrdered ==
  ASSUME Sound, NEW t \in Tasks, RowAccepted(t) \/ RowRejected(t) \/ Recreate(t)
  PROVE  Ordered(task', queue, db, tracked, idb', next, responses)
<1>1. /\ task[t].pc = "replied" /\ task[t].sync /\ task[t] \in TaskType
      /\ task[t].cur \in Answers /\ idb \in Requests /\ Alike(idb, idb) /\ TypeOK
      /\ Requesting(task[t])
  BY ActivationFacts, SoundTypes, AlikeRefl
  DEF RowAccepted, RowRejected, Recreate, Has, At, Sound, Shape, WellFormed, SendPCs,
      Requesting
<1>2. CASE RowAccepted(t) \/ RowRejected(t)
  <2>0. PICK pc \in {"removing", "dropping"} : \E r :
          Alike(r, idb) /\ Step(t, [task[t] EXCEPT !.pc = pc], r)
    BY <1>1, <1>2, PatchedAlike DEF RowAccepted, RowRejected
  <2>1. PICK r : /\ pc \in {"removing", "dropping"}
                 /\ Alike(r, idb) /\ Step(t, [task[t] EXCEPT !.pc = pc], r)
    BY <2>0
  <2> DEFINE w == [task[t] EXCEPT !.pc = pc]
  <2>2. /\ w \in TaskType /\ w.pc = pc /\ w.sync = task[t].sync /\ w.gone = task[t].gone
        /\ w.cur = task[t].cur /\ w.todo = task[t].todo
    BY <1>1, <2>1 DEF TaskType, TaskPCs, DbWaits
  <2>3. Step(t, w, r)
    BY <2>1
  <2> HIDE DEF w
  <2> QED
    BY <1>1, <2>1, <2>2, <2>3, RequestStays DEF SendPCs
<1>3. CASE Recreate(t)
  <2> DEFINE w == Request(task[t], NoId)
  <2>1. NoId \in Nat /\ Step(t, w, idb)
    BY <1>3 DEF Recreate, NoId
  <2>2. /\ w \in TaskType /\ w.pc = "sending" /\ w.sync = task[t].sync
        /\ w.gone = task[t].gone /\ w.cur = task[t].cur /\ w.todo = task[t].todo
    <3>1. w \in TaskType
      BY <1>1, <2>1, RequestWellFormed DEF WellFormed
    <3>2. task[t] \in TaskType
      BY <1>1
    <3>3. /\ w.pc = "sending" /\ w.sync = task[t].sync
          /\ w.gone = task[t].gone /\ w.cur = task[t].cur /\ w.todo = task[t].todo
      BY <3>2, RequestParts, ZenonT(60)
    <3> QED
      BY <3>1, <3>3
  <2> HIDE DEF w
  <2> QED
    BY <1>1, <2>1, <2>2, RequestStays DEF SendPCs
<1> QED
  BY <1>2, <1>3

LEMMA SyncStoppedOrdered ==
  ASSUME Sound, NEW t \in Tasks, SyncStopped(t)
  PROVE  Ordered(task', queue', db, tracked', idb', next, responses)
<1>1. /\ task[t].pc = "replied" /\ task[t].sync /\ idb \in Requests /\ Alike(idb, idb)
      /\ queue' = queue \ (task[t].gone \cap tracked) /\ tracked' = tracked \ task[t].gone
  BY SoundTypes, AlikeRefl DEF SyncStopped, Has, At, ForgetProcessed
<1>2. Step(t, IdleTask, idb)
  <2>1. Step(t, IdleTask, Cleared(task[t], FALSE, idb))
    BY <1>1, EndSyncIdles DEF SyncStopped, Sound
  <2> QED
    BY <2>1 DEF Cleared
<1>3. /\ \A u \in Tasks \ {t} : ~Busy(task[u])
      /\ task[t].gone \cap db = {} /\ \A a \in task[t].gone : ~Added(a, idb)
      /\ \A a \in queue \cap task[t].gone : a \in tracked
  BY <1>1, SyncHolds
<1>4. /\ Without(idb, t, idb) /\ \A u \in Tasks \ {t} : ~Counts(u, task, idb)
  BY <1>1, Unserved DEF DbWaits
<1>5. Placed(t, IdleTask, idb, idb') /\ task' = [task EXCEPT ![t] = IdleTask]
  BY <1>2, <1>4, StepPlaced DEF Step
<1>6. /\ queue' \in SUBSET queue /\ tracked' \in SUBSET tracked
      /\ \A a \in queue \ queue' : ~Added(a, idb)
      /\ \A a \in queue' \cap db \cap tracked : a \in db \cap tracked'
      /\ (queue' \cup db) \cap task[t].gone = {}
  BY <1>1, <1>3
<1>7. db \in SUBSET db /\ IdleTask.pc # "counting"
  BY IdleOrderly
<1>8. Ordered([task EXCEPT ![t] = IdleTask], queue', db, tracked', idb', next, responses)
  BY <1>3, <1>4, <1>5, <1>6, <1>7, SoundTypes, IdleOrderly, OrderedMove, ZenonT(60)
<1> QED
  BY <1>5, <1>8

LEMMA SyncedRowRemovedOrdered ==
  ASSUME StorageWorks, Sound, Shape', NEW t \in Tasks, SyncedRowRemoved(t)
  PROVE  Ordered(task', queue', db', tracked', idb', next, responses)
<1> DEFINE w == [task[t] EXCEPT !.gone = @ \cup {task[t].cur}]
           rest == task[t].todo
           g == task[t].gone \cup {task[t].cur}
<1>1. /\ Served(t) /\ task[t].sync /\ task[t].pc \in SendPCs /\ task[t] \in TaskType
      /\ rest \in SUBSET Answers
  BY SoundTypes DEF SyncedRowRemoved, SendPCs, TaskType
<1>2. /\ PersistOffline /\ \A u \in Tasks \ {t} : ~Busy(task[u])
      /\ task[t].gone \cap db = {} /\ \A a \in task[t].gone : ~Added(a, idb)
      /\ task[t].gone \in SUBSET Answers
      /\ \A a \in queue \cap task[t].gone : a \in tracked
      /\ task[t].cur \in db /\ ~Added(task[t].cur, idb)
  BY <1>1, SyncHolds
<1>3. /\ w \in TaskType /\ w.sync /\ w.gone = g /\ w.cur = task[t].cur /\ w.todo = rest
  BY <1>1, <1>2, SoundTypes DEF TaskType
<1>4. /\ Tail(idb) \in Requests /\ Without(Tail(idb), t, idb)
      /\ \A u \in Tasks \ {t} : ~Counts(u, task, idb)
  BY <1>1, Serving
<1>5. /\ db' = db \ {task[t].cur}
      /\ IF rest # {}
         THEN SendRow(t, w, rest, Tail(idb)) /\ UNCHANGED <<queue, tracked>>
         ELSE ForgetProcessed(g) /\ EndSync(t, queue', TRUE, TRUE, Tail(idb))
  <2>1. PICK removed \in BOOLEAN :
          /\ RemoveRow(w.cur, removed)
          /\ IF removed /\ w.todo # {}
             THEN SendRow(t, w, w.todo, Tail(idb)) /\ UNCHANGED <<queue, tracked>>
             ELSE ForgetProcessed(w.gone) /\ EndSync(t, queue', removed, removed, Tail(idb))
    BY DEF SyncedRowRemoved
  <2> HIDE DEF w, rest, g
  <2>2. removed /\ db' = db \ {task[t].cur}
    BY <1>3, <2>1, RowRemoved DEF Sound
  <2>3. removed = TRUE
    BY <2>2
  <2> QED
    BY <1>3, <2>1, <2>2, <2>3
<1>6. g \cap db' = {} /\ \A a \in g : ~Added(a, idb)
  BY <1>2, <1>5
<1> HIDE DEF w
<1>7. CASE rest # {}
  <2>1. PICK v : /\ Step(t, v, Tail(idb)) /\ v.pc = "sending" /\ v.sync = w.sync
                 /\ v.gone = w.gone /\ v.cur = First(rest)
                 /\ v.todo = rest \ {First(rest)}
    <3>1. SendRow(t, w, rest, Tail(idb))
      BY <1>5, <1>7
    <3>2. w \in TaskType /\ rest \in SUBSET Answers /\ rest # {}
      BY <1>1, <1>3, <1>7
    <3> HIDE DEF rest
    <3> QED
      BY <3>1, <3>2, SendRowParts
  <2>2. v \in TaskType
    <3>1. task'[t] = v
      BY <2>1, SoundTypes DEF Step
    <3> QED
      BY <3>1 DEF Shape, TypeOK
  <2>3. v.todo \cup {v.cur} = rest
    BY <1>1, <1>7, <2>1, NextRow
  <2>4. Orderly(v, db', tracked, idb)
    <3>1. \A c \in v.todo : v.cur < c
      BY <1>1, <1>7, <2>1, NextRow
    <3>2. \A b \in db' : b \in rest \/ \A c \in rest : c < b
      BY <1>1, <1>5, SoundTypes DEF Ordered, Orderly
    <3> QED
      BY <1>3, <1>6, <2>1, <2>3, <3>1, <3>2 DEF Orderly
  <2>5. Placed(t, v, idb, idb') /\ task' = [task EXCEPT ![t] = v]
    BY <1>4, <2>1, StepPlaced DEF Step
  <2>6. /\ v.sync /\ v.gone = g /\ v.pc # "counting"
        /\ db' \in SUBSET db /\ queue' = queue /\ tracked' = tracked
        /\ \A a \in queue \cap db \cap tracked :
             a \in db' \cap tracked \/ (a \in tracked /\ a \in g)
    BY <1>3, <1>5, <1>7, <2>1
  <2>7. /\ queue \in SUBSET queue /\ tracked \in SUBSET tracked
        /\ \A a \in queue \ queue : ~Added(a, idb)
        /\ \A a \in (queue \cup db') \cap task[t].gone : a \in g
    OBVIOUS
  <2> HIDE DEF g
  <2>8. Ordered([task EXCEPT ![t] = v], queue, db', tracked, idb', next, responses)
    BY <1>2, <1>4, <2>2, <2>4, <2>5, <2>6, <2>7, SoundTypes, OrderedMove
  <2> QED
    BY <2>5, <2>6, <2>8
<1>8. CASE rest = {}
  <2> DEFINE r == Cleared(task[t], TRUE, Tail(idb))
  <2>1. /\ queue' = queue \ (g \cap tracked) /\ tracked' = tracked \ g
        /\ Step(t, IdleTask, r)
    BY <1>1, <1>5, <1>8, EndSyncIdles DEF ForgetProcessed, Sound
  <2>2. Without(r, t, idb)
    <3>1. idb \in Requests
      BY SoundTypes
    <3> QED
      BY <1>4, <3>1, ClearedAlike, WithoutAlike
  <2> HIDE DEF r
  <2>3. Placed(t, IdleTask, idb, idb') /\ task' = [task EXCEPT ![t] = IdleTask]
    BY <2>1, <2>2, StepPlaced DEF Step
  <2>4. /\ queue' \in SUBSET queue /\ db' \in SUBSET db /\ tracked' \in SUBSET tracked
        /\ \A a \in queue \ queue' : ~Added(a, idb)
        /\ \A a \in queue' \cap db \cap tracked : a \in db' \cap tracked'
        /\ (queue' \cup db') \cap task[t].gone = {}
    BY <1>2, <1>5, <1>6, <2>1
  <2>5. /\ IdleTask \in TaskType /\ IdleTask.pc # "counting" /\ ~IdleTask.sync
        /\ Orderly(IdleTask, db', tracked', idb)
    BY IdleOrderly
  <2>6. Ordered([task EXCEPT ![t] = IdleTask], queue', db', tracked', idb', next, responses)
    BY <1>2, <1>4, <2>3, <2>4, <2>5, SoundTypes, OrderedMove, ZenonT(60)
  <2> QED
    BY <2>3, <2>6
<1> QED
  BY <1>7, <1>8

(* A row is written: its answer was the next one to be stored.              *)
LEMMA RowStored ==
  ASSUME Sound, idb # <<>>, Head(idb) \notin Tasks, IsAdd(Head(idb)), NEW b \in Answers,
         Head(idb).answer = b
  PROVE  Ordered(task, queue, db \cup {b}, tracked \cup {b}, Tail(idb), next, responses)
<1> DEFINE s == Tail(idb)
           d == db \cup {b}
           k == tracked \cup {b}
<1>1. /\ idb \in Requests /\ Lined(task, queue, db, idb)
      /\ Backed(task, queue, db, tracked, idb)
      /\ \A t \in Tasks : Orderly(task[t], db, tracked, idb)
      /\ Newest(task, queue, db, next, responses)
  BY SoundTypes DEF Ordered
<1>2. Added(b, idb)
  BY <1>1, TailIndex DEF Added
<1>3. b \in queue /\ \A c \in db : c < b
  BY <1>1, <1>2 DEF Lined
<1>4. /\ \A t \in Tasks : Waits(t, s) <=> Waits(t, idb)
      /\ \A t, u \in Tasks : Ahead(t, u, s) <=> Ahead(t, u, idb)
      /\ \A t \in Tasks : \A a \in Answers : AddBehind(t, a, s) <=> AddBehind(t, a, idb)
      /\ \A a \in Answers : Added(a, s) => Added(a, idb) /\ b < a
      /\ \A a \in Answers : Added(a, idb) => Added(a, s) \/ a = b
      /\ AddsInOrder(s)
  BY <1>1, WrittenTail DEF Lined
<1> HIDE DEF s, d, k
<1>5. Lined(task, queue, d, s)
  <2>1. \A a \in Answers : Added(a, s) => a \in queue /\ \A c \in d : c < a
    BY <1>1, <1>4 DEF Lined, d
  <2>2. \A t \in Tasks : Fresh(t, queue, idb) => Fresh(t, queue, s)
    BY <1>4, SoundTypes DEF Fresh
  <2> QED
    BY <1>1, <1>4, <2>1, <2>2 DEF Lined, Counts
<1>6. Backed(task, queue, d, k, s)
  BY <1>1, <1>4, SoundTypes DEF Backed, d, k
<1>7. ASSUME NEW t \in Tasks
      PROVE  Orderly(task[t], d, k, s)
  <2>1. /\ Orderly(task[t], db, tracked, idb) /\ task[t].gone \in SUBSET Answers
        /\ PlainTask(task[t])
    BY <1>1, SoundTypes DEF TaskType
  <2>2. task[t].gone \cap d = {}
    BY <1>2, <2>1 DEF Orderly, d
  <2>3. \A a \in task[t].gone : ~Added(a, s)
    BY <1>4, <2>1 DEF Orderly
  <2>4. ~task[t].sync /\ Requesting(task[t]) /\ PersistOffline =>
          task[t].cur \in d \cap k /\ \A c \in d : task[t].cur <= c
    <3>1. \A c \in db : c < b => c <= b
      BY SoundTypes, ResponseQueueAssumption DEF Answers
    <3> QED
      BY <1>3, <2>1, <3>1 DEF Orderly, d, k
  <2>5. task[t].sync /\ task[t].pc \in SendPCs =>
          \A c \in task[t].todo \cup {task[t].cur} : c < b
    BY <1>3 DEF Sound, Held, Carries
  <2> QED
    BY <2>1, <2>2, <2>3, <2>4, <2>5 DEF Orderly, d
<1>8. Newest(task, queue, d, next, responses)
  BY <1>1, <1>3 DEF Newest, d
<1> QED
  BY <1>5, <1>6, <1>7, <1>8 DEF Ordered, s, d, k

LEMMA StorageOrdered ==
  ASSUME StorageWorks, Sound, Storage
  PROVE  Ordered(task', queue', db', tracked', idb', next', responses')
<1>1. ~AnswerNotStored
  BY DEF AnswerNotStored, May, StorageWorks
<1>2. /\ idb \in Requests /\ idb # <<>> /\ Tail(idb) \in Requests
      /\ Head(idb) \notin Tasks /\ Head(idb) \in WriteType
  <2>1. idb \in Requests /\ idb # <<>> /\ Head(idb) \notin Tasks
    BY <1>1, SoundTypes DEF Storage, AnswerStored, ProgressWritten, Writing
  <2>2. \E t : t \in Tasks
    BY ResponseQueueAssumption
  <2>3. Tail(idb) \in Requests /\ Head(idb) \in WriteType \cup Tasks
    BY <2>1, <2>2, ActivationFacts DEF Sound
  <2> QED
    BY <2>1, <2>3
<1>3. CASE AnswerStored
  <2> DEFINE b == Head(idb).answer
  <2>1. IsAdd(Head(idb)) /\ b \in Answers
    BY <1>2, <1>3 DEF AnswerStored, Writing, IsAdd, WriteType
  <2>2. /\ db' = db \cup {b} /\ tracked' = tracked \cup {b}
        /\ ProcessQueue(queue, "app", Tail(idb)) /\ UNCHANGED <<queue, next, responses>>
    BY <1>3 DEF AnswerStored, session
  <2> HIDE DEF b
  <2>3. Ordered(task, queue, db \cup {b}, tracked \cup {b}, Tail(idb), next, responses)
    BY <1>2, <2>1, RowStored DEF b
  <2>4. /\ db \cup {b} \in SUBSET Answers /\ tracked \cup {b} \in SUBSET Answers
        /\ queue \in SUBSET Answers
    BY <2>1, SoundTypes
  <2>5. Ordered(task', queue, db \cup {b}, tracked \cup {b}, idb', next, responses)
    BY <1>2, <2>2, <2>3, <2>4, ProcessQueueOrdered
  <2> QED
    BY <2>2, <2>5
<1>4. CASE ProgressWritten
  <2>1. ~IsAdd(Head(idb))
    BY <1>4 DEF ProgressWritten, Writing, IsAdd
  <2>2. Alike(Tail(idb), idb)
    BY <1>2, <2>1, WrittenTail DEF Alike
  <2>3. Ordered(task, queue, db, tracked, Tail(idb), next, responses)
    BY <2>2, SoundTypes, OrderedAlike
  <2> QED
    BY <1>4, <2>3 DEF ProgressWritten, session
<1> QED
  BY <1>1, <1>3, <1>4 DEF Storage

(* The two writes of a submission, one after the other.                     *)
LEMMA PairAppended ==
  ASSUME NEW S, NEW r \in Seq(S), NEW x \in S, NEW y \in S
  PROVE  r \o <<x, y>> = Append(Append(r, x), y)
<1> DEFINE f == <<x>> \o <<y>>
           g == <<x, y>>
<1>1. <<x>> \in Seq(S) /\ <<y>> \in Seq(S) /\ g \in Seq(S)
  OBVIOUS
<1>2. f \in Seq(S) /\ Len(f) = 2 /\ f[1] = x /\ f[2] = y
  BY <1>1, ConcatProperties
<1>3. Len(g) = 2 /\ g[1] = x /\ g[2] = y
  OBVIOUS
<1> HIDE DEF f, g
<1>4. Len(f) = Len(g) /\ \A i \in 1 .. Len(f) : f[i] = g[i]
  <2>1. \A i \in 1 .. 2 : i = 1 \/ i = 2
    OBVIOUS
  <2> QED
    BY <1>2, <1>3, <2>1
<1>5. g = f
  BY <1>1, <1>2, <1>4, SeqEqual
<1>6. /\ Append(r, x) \in Seq(S) /\ Append(r, x) = r \o <<x>>
      /\ Append(Append(r, x), y) = Append(r, x) \o <<y>>
  BY AppendIsConcat, AppendProperties
<1>7. (r \o <<x>>) \o <<y>> = r \o f
  BY <1>1, ConcatAssociative DEF f
<1> QED
  BY <1>5, <1>6, <1>7 DEF g

(* An answer is given: it is newer than every other, and its row is the     *)
(* last to be written.                                                      *)
LEMMA AnswerGiven ==
  ASSUME Sound, next \in Answers, NEW s,
         \/ ~PersistOffline /\ s = idb
         \/ \E x \in WriteType \ Tasks : IsAdd(x) /\ x.answer = next /\ s = Append(idb, x)
  PROVE  Ordered(task, queue \cup {next}, db, tracked, s, next + 1, responses)
<1> DEFINE q == queue \cup {next}
<1>1. /\ idb \in Requests /\ Lined(task, queue, db, idb)
      /\ Backed(task, queue, db, tracked, idb)
      /\ \A t \in Tasks : Orderly(task[t], db, tracked, idb)
      /\ Newest(task, queue, db, next, responses)
      /\ queue \in SUBSET Answers /\ db \in SUBSET Answers
  BY SoundTypes DEF Ordered
<1>2. /\ \A a \in queue \cup db : a < next
      /\ \A t \in Tasks : task[t].gone \in SUBSET Answers /\ next \notin task[t].gone
  <2>1. \A a \in queue \cup db \cup Handled : a < next
    BY DEF Sound, Held, Ledger
  <2>2. ~(next < next) /\ next \in Int
    BY ResponseQueueAssumption DEF Answers
  <2>3. \A t \in Tasks : task[t].gone \subseteq Handled
    BY DEF Sound, Held, Carries
  <2> QED
    BY <2>1, <2>2, <2>3, SoundTypes DEF TaskType
<1>3. \A a \in Answers : Added(a, idb) => a < next
  BY <1>1, <1>2 DEF Lined
<1>4. /\ \A t \in Tasks : Waits(t, s) <=> Waits(t, idb)
      /\ \A t, u \in Tasks : Ahead(t, u, s) <=> Ahead(t, u, idb)
      /\ \A t \in Tasks : \A a \in Answers :
           AddBehind(t, a, s) => AddBehind(t, a, idb) \/ a = next
      /\ \A a \in Answers : Added(a, s) => Added(a, idb) \/ a = next
      /\ \A a \in Answers : Added(a, idb) => Added(a, s)
      /\ PersistOffline => Added(next, s)
      /\ AddsInOrder(s)
  <2>1. CASE ~PersistOffline /\ s = idb
    BY <1>1, <2>1 DEF Lined
  <2>2. CASE \E x \in WriteType \ Tasks : IsAdd(x) /\ x.answer = next /\ s = Append(idb, x)
    <3>1. PICK x \in WriteType \ Tasks : IsAdd(x) /\ x.answer = next /\ s = Append(idb, x)
      BY <2>2
    <3>2. AddsInOrder(idb) /\ \A a \in Answers : Added(a, idb) => a < x.answer
      BY <1>1, <1>3, <3>1 DEF Lined
    <3> QED
      BY <1>1, <3>1, <3>2, AppendedAdd
  <2> QED
    BY <2>1, <2>2
<1>5. next \in Int /\ next <= next /\ next < next + 1 /\ \A a \in queue : a < next => a <= next
  <2>1. next \in Int /\ \A a \in queue : a \in Int
    BY <1>1, ResponseQueueAssumption DEF Answers
  <2> QED
    BY <2>1
<1> HIDE DEF q
<1>6. Lined(task, q, db, s)
  <2>1. \A a \in Answers : Added(a, s) => a \in q /\ \A b \in db : b < a
    BY <1>1, <1>2, <1>4 DEF Lined, q
  <2>2. ASSUME NEW t \in Tasks, Fresh(t, queue, idb)
        PROVE  Fresh(t, q, s)
    <3>1. PICK a \in queue : (\A b \in queue : a <= b) /\ ~AddBehind(t, a, idb)
      BY <2>2 DEF Fresh
    <3>2. a \in Answers /\ a # next /\ a <= next
      BY <1>1, <1>2, <1>5
    <3>3. ~AddBehind(t, a, s)
      BY <1>4, <3>1, <3>2
    <3> QED
      BY <3>1, <3>2, <3>3 DEF Fresh, q
  <2> QED
    BY <1>1, <1>4, <2>1, <2>2 DEF Lined, Counts
<1>7. Backed(task, q, db, tracked, s)
  BY <1>1, <1>4 DEF Backed, q
<1>8. \A t \in Tasks : Orderly(task[t], db, tracked, s)
  BY <1>1, <1>2, <1>4 DEF Orderly
<1>9. Newest(task, q, db, next + 1, responses)
  <2>1. ASSUME NEW i \in DOMAIN responses
        PROVE  responses[i].last \in Int
    <3>1. responses[i] \in ResponseType
      BY <2>1 DEF Sound, Shape, TypeOK
    <3> QED
      BY <3>1, ResponseQueueAssumption DEF ResponseType, Answers, NoAnswer
  <2>2. \A i \in DOMAIN responses : responses[i].last < next + 1 /\ responses[i].last <= next
    <3>1. \A i \in DOMAIN responses : responses[i].last < next
      BY <1>1 DEF Newest
    <3> QED
      BY <1>5, <2>1, <3>1
  <2> QED
    BY <1>1, <2>2 DEF Newest, q
<1> QED
  BY <1>6, <1>7, <1>8, <1>9 DEF Ordered, q

LEMMA SubmitOrdered ==
  ASSUME Sound, Submit
  PROVE  Ordered(task', queue', db', tracked', idb', next', responses')
<1>1. /\ next \in Answers /\ next' = next + 1 /\ queue' = queue \cup {next}
      /\ UNCHANGED <<db, tracked, responses>> /\ idb \in Requests
      /\ rid \in Nat /\ display \in Nat /\ acc' \in SUBSET Answers
  BY SoundTypes DEF Submit, CanSubmit, Sound, Shape, TypeOK
<1>2. CASE PersistOffline
  <2> DEFINE x == Write("add", next, rid, display, {})
             y == Write("save", NoAnswer, rid, display, acc')
  <2>1. idb' = idb \o <<x, y>> /\ task' = task
    BY <1>2 DEF Submit
  <2>2. x \in WriteType /\ y \in WriteType /\ x.op = "add" /\ x.answer = next
    BY <1>1 DEF Write, WriteType
  <2>3. x \notin Tasks /\ IsAdd(x)
    BY <2>2, TasksAssumption DEF IsAdd
  <2>4. Append(idb, x) \in Requests /\ Alike(Append(Append(idb, x), y), Append(idb, x))
    <3>1. Append(idb, x) \in Requests
      BY <1>1, <2>2, AppendIndex
    <3> QED
      BY <1>1, <3>1, OtherWrite
  <2> HIDE DEF x, y
  <2>5. idb' = Append(Append(idb, x), y)
    <3>1. idb \in Seq(WriteType \cup Tasks)
      BY <1>1 DEF Requests
    <3> QED
      BY <2>1, <2>2, <3>1, PairAppended
  <2>6. Ordered(task, queue', db, tracked, Append(idb, x), next', responses)
    BY <1>1, <2>2, <2>3, AnswerGiven
  <2>7. Alike(idb', Append(idb, x)) /\ queue' \in SUBSET Answers
    BY <1>1, <2>4, <2>5, SoundTypes
  <2> QED
    BY <1>1, <2>1, <2>4, <2>6, <2>7, SoundTypes, OrderedAlike
<1>3. CASE ~PersistOffline
  <2>1. Ordered(task, queue', db, tracked, idb, next', responses)
    BY <1>1, <1>3, AnswerGiven
  <2>2. ProcessQueue(queue', "app", idb) /\ queue' \in SUBSET Answers
    BY <1>1, <1>3, SoundTypes DEF Submit
  <2> QED
    BY <1>1, <2>1, <2>2, SoundTypes, ProcessQueueOrdered
<1> QED
  BY <1>2, <1>3

(* The page starts something, or nothing changes.                           *)
LEMMA RestoreAlike ==
  ASSUME NEW id \in Nat, NEW d \in Nat, NEW r \in Requests, NEW p, NEW q
  PROVE  Alike(r \o (IF p THEN <<Write("patchId", NoAnswer, id, NoDisplay, {})>> ELSE <<>>)
                 \o (IF q THEN <<Write("patchDisplay", NoAnswer, NoId, d, {})>> ELSE <<>>), r)
<1> DEFINE x == Write("patchId", NoAnswer, id, NoDisplay, {})
           y == Write("patchDisplay", NoAnswer, NoId, d, {})
<1>1. x \in WriteType \cup Tasks /\ y \in WriteType \cup Tasks
  BY DEF Write, WriteType, NoId, NoDisplay
<1>2. \A s \in Requests : Alike(Append(s, x), s) /\ Alike(Append(s, y), s) /\ Alike(s, s)
  BY OtherWrite, AlikeRefl DEF NoId, NoDisplay
<1> HIDE DEF x, y
<1>3. \A s \in Requests : s \o <<x>> = Append(s, x) /\ s \o <<y>> = Append(s, y) /\ s \o <<>> = s
  BY <1>1, AppendIsConcat, ConcatEmptySeq DEF Requests
<1> DEFINE s1 == r \o (IF p THEN <<x>> ELSE <<>>)
           s2 == s1 \o (IF q THEN <<y>> ELSE <<>>)
<1>4. Alike(s1, r)
  <2>1. CASE p
    BY <1>2, <1>3, <2>1
  <2>2. CASE ~p
    BY <1>2, <1>3, <2>2
  <2> QED
    BY <2>1, <2>2
<1> HIDE DEF s1
<1>5. Alike(s2, s1)
  <2>0. s1 \in Requests
    BY <1>4 DEF Alike
  <2>1. CASE q
    BY <1>2, <1>3, <2>0, <2>1
  <2>2. CASE ~q
    BY <1>2, <1>3, <2>0, <2>2
  <2> QED
    BY <2>1, <2>2
<1> HIDE DEF s2
<1>6. Alike(s2, r)
  BY <1>4, <1>5 DEF Alike
<1> QED
  BY <1>6 DEF s2, s1, x, y

LEMMA PageOrdered ==
  ASSUME Sound, Page \/ Retry \/ GoOnline
  PROVE  Ordered(task', queue', db', tracked', idb', next', responses')
<1>1. UNCHANGED <<queue, db, tracked, next, responses>>
  BY DEF Page, StartFresh, Restore, Retry, GoOnline, session
<1>2. /\ idb \in Requests /\ Alike(idb, idb) /\ queue \in SUBSET Answers
      /\ db \in SUBSET Answers /\ tracked \in SUBSET Answers
      /\ InOrder
  BY SoundTypes, AlikeRefl DEF Sound
<1>3. CASE Retry
  BY <1>1, <1>2, <1>3, SoundTypes, ProcessQueueOrdered DEF Retry
<1>4. CASE StartFresh \/ GoOnline
  <2>1. CASE StartEffect(idb)
    BY <1>1, <1>2, <2>1, StartEffectOrdered
  <2>2. CASE UNCHANGED <<task, idb>>
    BY <1>1, <1>2, <2>2 DEF InOrder
  <2> QED
    BY <1>4, <2>1, <2>2 DEF StartFresh, GoOnline
<1>5. CASE Restore
  <2>1. display' \in Nat /\ rid' \in Nat
    BY <1>5, RestoreShape DEF Sound, Shape, TypeOK
  <2>2. \E p, q \in BOOLEAN : \E r :
          /\ r = idb \o (IF p THEN <<Write("patchId", NoAnswer, rid', NoDisplay, {})>> ELSE <<>>)
                     \o (IF q THEN <<Write("patchDisplay", NoAnswer, NoId, display', {})>> ELSE <<>>)
          /\ StartEffect(r) \/ (UNCHANGED task /\ idb' = r)
    BY <1>5 DEF Restore
  <2>3. PICK r : Alike(r, idb) /\ (StartEffect(r) \/ (UNCHANGED task /\ idb' = r))
    BY <1>2, <2>1, <2>2, RestoreAlike
  <2> QED
    BY <1>1, <1>2, <2>3, SoundTypes, StartEffectOrdered, OrderedAlike
<1> QED
  BY <1>3, <1>4, <1>5 DEF Page

-----------------------------------------------------------------------------
(***************************************************************************)
(* The server.  A request carries the oldest answer that no sync has taken *)
(* already, so what it writes is never older than what is there.           *)
(***************************************************************************)
LEMMA OldestIsSent ==
  ASSUME Sound, NEW t \in Tasks, Requesting(task[t])
  PROVE  /\ task[t].cur \in queue \cup db /\ task[t].cur \in Answers
         /\ task[t].cur < next /\ ~Taken(task[t].cur, task)
         /\ \A b \in queue \cup db : task[t].cur <= b \/ Taken(b, task)
<1> DEFINE c == task[t].cur
<1>1. /\ queue \in SUBSET Answers /\ db \in SUBSET Answers
      /\ \A a \in queue \cup db : a < next
      /\ \A a \in Answers : a \in Int /\ a <= a
      /\ \A a \in Answers, b \in Answers : a < b => a <= b
  BY SoundTypes, ResponseQueueAssumption DEF Answers, Sound, Held, Ledger
<1>2. CASE ~task[t].sync
  <2>1. /\ Engaged(t) /\ c \in queue /\ \A b \in queue : c <= b
        /\ PersistOffline => \A b \in db : c <= b
        /\ ~PersistOffline => db = {}
    BY <1>2, SenderStored DEF Sound, Held, Carries, Plain
  <2>2. \A a : ~Taken(a, task)
    BY <1>2, <2>1, NobodyElse DEF Taken, Busy
  <2> QED
    BY <1>1, <2>1, <2>2
<1>3. CASE task[t].sync
  <2>1. /\ PersistOffline /\ c \in db /\ task[t].gone \cap db = {} /\ task[t].pc \in SendPCs
        /\ \A a \in Answers : Taken(a, task) <=> a \in task[t].gone
    BY <1>3, SyncHolds DEF Requesting, SendPCs
  <2>2. /\ Orderly(task[t], db, tracked, idb) /\ Backed(task, queue, db, tracked, idb)
        /\ Lined(task, queue, db, idb)
    BY SoundTypes DEF Ordered
  <2>3. \A b \in db : c = b \/ c < b
    BY <1>3, <2>1, <2>2 DEF Orderly
  <2>4. \A b \in queue : b \in db \/ c < b \/ Taken(b, task)
    BY <1>1, <2>1, <2>2 DEF Backed, Lined
  <2> QED
    BY <1>1, <2>1, <2>3, <2>4
<1> QED
  BY <1>2, <1>3

LEMMA ApplyLast ==
  ASSUME TypeOK, NEW w \in TaskType, w.cur \in Answers, Apply(w)
  PROVE  /\ DOMAIN responses \subseteq DOMAIN responses'
         /\ \A i \in DOMAIN responses' :
              \/ responses'[i].last = w.cur
              \/ i \in DOMAIN responses /\ responses'[i].last = responses[i].last
<1>1. responses \in Seq(ResponseType)
  BY DEF TypeOK
<1>2. CASE Verdict(w) # "ok"
  BY <1>2 DEF Apply
<1>3. CASE Verdict(w) = "ok" /\ w.target = NoId
  <2> DEFINE r == [data |-> w.data, last |-> w.cur, live |-> TRUE, display |-> display]
  <2>1. responses' = Append(responses, r) /\ r \in ResponseType /\ r.last = w.cur
    BY <1>3 DEF Apply, ResponseType, TaskType, TypeOK
  <2> HIDE DEF r
  <2>2. /\ Append(responses, r) \in Seq(ResponseType)
        /\ Len(Append(responses, r)) = Len(responses) + 1
        /\ \A i \in 1 .. Len(responses) : Append(responses, r)[i] = responses[i]
        /\ Append(responses, r)[Len(responses) + 1] = r
    BY <1>1, <2>1, AppendProperties
  <2>3. /\ DOMAIN responses = 1 .. Len(responses) /\ Len(responses) \in Nat
        /\ DOMAIN responses' = 1 .. Len(responses) + 1
    BY <1>1, <2>1, <2>2, LenProperties
  <2>4. /\ \A i \in 1 .. Len(responses) : i \in 1 .. Len(responses) + 1
        /\ \A i \in 1 .. Len(responses) + 1 :
             i \in 1 .. Len(responses) \/ i = Len(responses) + 1
    BY <2>3
  <2> QED
    BY <2>1, <2>2, <2>3, <2>4
<1>4. CASE Verdict(w) = "ok" /\ w.target # NoId
  <2> DEFINE r == [responses[w.target] EXCEPT !.data = @ \cup w.data, !.last = w.cur]
  <2>1. responses' = [responses EXCEPT ![w.target] = r] /\ DOMAIN responses' = DOMAIN responses
    BY <1>4 DEF Apply
  <2>2. \A i \in DOMAIN responses : i # w.target => responses'[i] = responses[i]
    BY <2>1
  <2>3. w.target \in DOMAIN responses =>
          responses'[w.target] = r /\ responses[w.target] \in ResponseType
    <3>1. \A i \in DOMAIN responses : responses[i] \in ResponseType
      BY <1>1
    <3> QED
      BY <2>1, <3>1
  <2>4. w.target \in DOMAIN responses => responses'[w.target].last = w.cur
    BY <2>3 DEF ResponseType
  <2> QED
    BY <2>1, <2>2, <2>4
<1> QED
  BY <1>2, <1>3, <1>4

LEMMA NetworkLast ==
  ASSUME Sound, NEW t \in Tasks, Network(t)
  PROVE  /\ DOMAIN responses \subseteq DOMAIN responses'
         /\ \A i \in DOMAIN responses' :
              \/ responses'[i].last = task[t].cur
              \/ i \in DOMAIN responses /\ responses'[i].last = responses[i].last
<1>1. task[t].pc = "sending" /\ (UNCHANGED responses \/ Apply(task[t]))
  BY DEF Network, ServerHandles, ReplyLost, RequestFails, ServerRefuses
<1>2. TypeOK /\ task[t] \in TaskType /\ task[t].cur \in Answers
  BY <1>1, ActivationFacts DEF WellFormed, SendPCs, Sound, Shape
<1>3. CASE UNCHANGED responses
  BY <1>3
<1>4. CASE Apply(task[t])
  BY <1>2, <1>4, ApplyLast
<1> QED
  BY <1>1, <1>3, <1>4

LEMMA NetworkOrdered ==
  ASSUME Sound, NEW t \in Tasks, Network(t)
  PROVE  /\ Ordered(task', queue', db', tracked', idb', next', responses')
         /\ \A i \in DOMAIN responses : responses[i].last <= responses'[i].last
<1>1. /\ task[t].pc = "sending" /\ Requesting(task[t])
      /\ UNCHANGED <<queue, db, tracked, next>>
      /\ \E reply : Replied(t, reply)
  BY DEF Network, ServerHandles, ReplyLost, RequestFails, ServerRefuses, RequestUnchanged,
     session, Requesting
<1>2. Ordered(task', queue, db, tracked, idb', next, responses)
  BY RepliedOrdered
<1>3. \A b : Taken(b, task) => Taken(b, task')
  BY <1>1, SoundTypes DEF Taken, Replied, TaskType
<1>4. /\ DOMAIN responses \subseteq DOMAIN responses'
      /\ \A i \in DOMAIN responses' :
           \/ responses'[i].last = task[t].cur
           \/ i \in DOMAIN responses /\ responses'[i].last = responses[i].last
  BY NetworkLast
<1>5. /\ task[t].cur \in queue \cup db /\ task[t].cur < next /\ ~Taken(task[t].cur, task)
      /\ \A b \in queue \cup db : task[t].cur <= b \/ Taken(b, task)
  BY <1>1, OldestIsSent
<1>6. Newest(task', queue, db, next, responses')
  BY <1>2, <1>3, <1>4, <1>5 DEF Ordered, Newest
<1>7. ASSUME NEW i \in DOMAIN responses
      PROVE  responses[i].last <= responses'[i].last
  <2>1. responses[i].last <= task[t].cur
    BY <1>5, SoundTypes DEF Ordered, Newest
  <2>2. responses[i].last <= responses[i].last
    <3>1. responses[i] \in ResponseType
      BY DEF Sound, Shape, TypeOK
    <3>2. responses[i].last \in Int
      BY <3>1, ResponseQueueAssumption DEF ResponseType, Answers, NoAnswer
    <3> QED
      BY <3>2
  <2> QED
    BY <1>4, <2>1, <2>2
<1> QED
  BY <1>1, <1>2, <1>6, <1>7 DEF Ordered

-----------------------------------------------------------------------------
(* Every step keeps the order.                                              *)
LEMMA SendingOrdered ==
  ASSUME StorageWorks, Sound, Shape', NEW t \in Tasks, Sending(t)
  PROVE  Ordered(task', queue', db', tracked', idb', next', responses')
<1>1. CASE CleanedUp(t) \/ CountFails(t)
  BY <1>1, SoundTypes DEF CleanedUp, CountFails, PlainTask, May, StorageWorks
<1>2. CASE Counted(t)
  <2>1. UNCHANGED <<queue, db, tracked, next, responses>>
    BY <1>2 DEF Counted, session
  <2> QED
    BY <1>2, <2>1, CountedOrdered
<1>3. CASE SendAccepted(t) \/ SendRejected(t)
  <2>1. UNCHANGED <<db, tracked, next, responses>>
    BY <1>3 DEF SendAccepted, SendRejected, session
  <2> QED
    BY <1>3, <2>1, SendHandledOrdered
<1>4. CASE SendDeferred(t) \/ RecaptchaFailed(t) \/ GiveUp(t)
  <2>1. UNCHANGED <<queue, db, tracked, next, responses>>
    BY <1>4 DEF SendDeferred, RecaptchaFailed, GiveUp, session
  <2> QED
    BY <1>4, <2>1, SendEndedOrdered
<1>5. CASE BackOff(t) \/ Resend(t)
  <2>1. UNCHANGED <<queue, db, tracked, next, responses>>
    BY <1>5 DEF BackOff, Resend, session
  <2> QED
    BY <1>5, <2>1, SendRetriedOrdered
<1>6. CASE SentRowRemoved(t)
  <2>1. UNCHANGED <<queue, next, responses>>
    BY <1>6 DEF SentRowRemoved, session
  <2> QED
    BY <1>6, <2>1, SentRowRemovedOrdered
<1> QED
  BY <1>1, <1>2, <1>3, <1>4, <1>5, <1>6 DEF Sending

LEMMA SyncingOrdered ==
  ASSUME StorageWorks, Sound, Shape', NEW t \in Tasks, Syncing(t)
  PROVE  Ordered(task', queue', db', tracked', idb', next', responses')
<1>1. CASE EffectCounted(t)
  <2>1. UNCHANGED <<queue, db, tracked, next, responses>>
    BY <1>1 DEF EffectCounted, session
  <2> QED
    BY <1>1, <2>1, EffectCountedOrdered
<1>2. CASE RowsRead(t) \/ ReadFails(t)
  <2>1. UNCHANGED <<queue, db, tracked, next, responses>>
    BY <1>2 DEF RowsRead, ReadFails, session
  <2> QED
    BY <1>2, <2>1, RowsReadOrdered
<1>3. CASE RowAccepted(t) \/ RowRejected(t) \/ Recreate(t)
  <2>1. UNCHANGED <<queue, db, tracked, next, responses>>
    BY <1>3 DEF RowAccepted, RowRejected, Recreate, session
  <2> QED
    BY <1>3, <2>1, RowRepliedOrdered
<1>4. CASE SyncStopped(t)
  <2>1. UNCHANGED <<db, next, responses>>
    BY <1>4 DEF SyncStopped, session
  <2> QED
    BY <1>4, <2>1, SyncStoppedOrdered
<1>5. CASE SyncedRowRemoved(t)
  <2>1. UNCHANGED <<next, responses>>
    BY <1>5 DEF SyncedRowRemoved, session
  <2> QED
    BY <1>5, <2>1, SyncedRowRemovedOrdered
<1> QED
  BY <1>1, <1>2, <1>3, <1>4, <1>5 DEF Syncing

(* A response that is deleted keeps its answers.                            *)
LEMMA DeletedKeeps ==
  ASSUME Delete
  PROVE  /\ DOMAIN responses' = DOMAIN responses
         /\ \A i \in DOMAIN responses : responses'[i].last = responses[i].last
<1>1. PICK j \in DOMAIN responses : responses' = [responses EXCEPT ![j].live = FALSE]
  BY DEF Delete
<1> QED
  BY <1>1

(* No activation and no request.                                            *)
LEMMA AtRestOrdered ==
  ASSUME NEW d, NEW n, NEW rs,
         \A i \in DOMAIN rs : rs[i].last < n /\ \A b \in d : rs[i].last <= b
  PROVE  Ordered([t \in Tasks |-> IdleTask], {}, d, {}, <<>>, n, rs)
<1> DEFINE tk == [t \in Tasks |-> IdleTask]
<1>1. \A t \in Tasks : tk[t] = IdleTask
  OBVIOUS
<1> HIDE DEF tk
<1>2. \A i \in 1 .. Len(<<>>) : FALSE
  OBVIOUS
<1>3. Lined(tk, {}, d, <<>>)
  BY <1>2 DEF Lined, AddsInOrder, Added, Waits, Ahead, Counts
<1>4. Backed(tk, {}, d, {}, <<>>)
  BY DEF Backed
<1>5. \A t \in Tasks : Orderly(tk[t], d, {}, <<>>)
  BY <1>1, IdleOrderly
<1>6. Newest(tk, {}, d, n, rs)
  BY DEF Newest
<1> QED
  BY <1>3, <1>4, <1>5, <1>6 DEF Ordered, tk

LEMMA OrderedInductive ==
  ASSUME StorageWorks, Sound, Shape', [Next]_vars
  PROVE  InOrder'
<1> SUFFICES Ordered(task', queue', db', tracked', idb', next', responses')
  BY DEF InOrder
<1>1. CASE \E t \in Tasks : Activation(t)
  BY <1>1, SendingOrdered, SyncingOrdered, NetworkOrdered DEF Activation
<1>2. CASE Storage \/ Submit \/ Page \/ Retry \/ GoOnline
  BY <1>2, StorageOrdered, SubmitOrdered, PageOrdered
<1>3. CASE GoOffline \/ UNCHANGED vars
  <2>1. UNCHANGED <<task, queue, db, tracked, idb, next, responses>>
    BY <1>3 DEF GoOffline, vars, session
  <2> QED
    BY <2>1, SoundTypes
<1>4. CASE Delete
  <2>1. UNCHANGED <<task, queue, db, tracked, idb, next>>
    BY <1>4 DEF Delete, session
  <2>2. Newest(task, queue, db, next, responses')
    BY <1>4, DeletedKeeps, SoundTypes DEF Ordered, Newest
  <2> QED
    BY <2>1, <2>2, SoundTypes DEF Ordered
<1>5. CASE Reload
  <2>1. /\ queue' = {} /\ tracked' = {} /\ task' = [t \in Tasks |-> IdleTask] /\ idb' = <<>>
        /\ UNCHANGED <<db, next, responses>>
    BY <1>5 DEF Reload
  <2>2. \A b \in db : ~Taken(b, task)
    BY SoundTypes DEF Taken, Ordered, Orderly
  <2>3. \A i \in DOMAIN responses :
          responses[i].last < next /\ \A b \in db : responses[i].last <= b
    BY <2>2, SoundTypes DEF Ordered, Newest
  <2> QED
    BY <2>1, <2>3, AtRestOrdered
<1> QED
  BY <1>1, <1>2, <1>3, <1>4, <1>5 DEF Next

LEMMA OrderedInitially == Init => InOrder
<1> SUFFICES ASSUME Init PROVE InOrder
  OBVIOUS
<1>1. /\ queue = {} /\ tracked = {} /\ task = [t \in Tasks |-> IdleTask] /\ idb = <<>>
      /\ responses = <<>>
  BY DEF Init
<1>2. \A i \in DOMAIN responses : FALSE
  BY <1>1
<1> QED
  BY <1>1, <1>2, AtRestOrdered DEF InOrder

LEMMA SoundAlways ==
  ASSUME StorageWorks
  PROVE  Spec => []Sound
<1>1. Init => Sound
  BY ShapeInitially, LocksInitially, SettledInitially, HeldInitially, PlainInitially,
     OrderedInitially DEF Sound
<1>2. Sound /\ [Next]_vars => Sound'
  <2> SUFFICES ASSUME Sound, [Next]_vars PROVE Sound'
    OBVIOUS
  <2>1. Shape /\ LocksOK /\ Settled /\ Held /\ Plain
    BY DEF Sound
  <2>2. Shape' /\ LocksOK' /\ Settled' /\ Held' /\ Plain'
    BY <2>1, ShapeInductive, LocksInductive, SettledInductive, HeldInductive, PlainInductive
  <2> QED
    BY <2>2, OrderedInductive DEF Sound
<1> QED
  BY <1>1, <1>2, PTL DEF Spec

LEMMA LastKept ==
  ASSUME Sound, [Next]_vars
  PROVE  \A i \in DOMAIN responses : responses[i].last <= responses'[i].last
<1>1. \A i \in DOMAIN responses : responses[i].last <= responses[i].last
  <2> SUFFICES ASSUME NEW i \in DOMAIN responses PROVE responses[i].last <= responses[i].last
    OBVIOUS
  <2>1. responses[i] \in ResponseType
    BY DEF Sound, Shape, TypeOK
  <2>2. responses[i].last \in Int
    BY <2>1, ResponseQueueAssumption DEF ResponseType, Answers, NoAnswer
  <2> QED
    BY <2>2
<1>2. ASSUME NEW t \in Tasks, Network(t)
      PROVE  \A i \in DOMAIN responses : responses[i].last <= responses'[i].last
  BY <1>2, NetworkOrdered
<1>3. CASE Delete
  BY <1>1, <1>3, DeletedKeeps
<1>4. CASE ~Delete /\ \A t \in Tasks : ~Network(t)
  <2>1. UNCHANGED responses
    BY <1>4, ZenonT(60) DEF Next, vars, Activation, Sending, Syncing, Storage, Page, CleanedUp,
       Counted, CountFails, SendAccepted, SendDeferred, SendRejected, RecaptchaFailed,
       BackOff, Resend, GiveUp, SentRowRemoved, EffectCounted, RowsRead, ReadFails,
       RowAccepted, RowRejected, Recreate, SyncStopped, SyncedRowRemoved, AnswerStored,
       AnswerNotStored, ProgressWritten, StartFresh, Restore, Submit, Retry, GoOnline,
       GoOffline, Reload
  <2> QED
    BY <1>1, <2>1
<1> QED
  BY <1>2, <1>3, <1>4

(* While IndexedDB fails no request, an older answer never overwrites a     *)
(* newer one on the server, across lost replies, retries,                   *)
(* deleted responses and reloads, whichever of the two senders is at work.  *)
THEOREM OlderNeverOverwrites ==
  ASSUME StorageWorks
  PROVE  Spec => UpdatesInOrder
<1>1. Sound /\ [Next]_vars =>
        [\A i \in DOMAIN responses : responses[i].last <= responses'[i].last]_vars
  BY LastKept
<1> QED
  BY <1>1, SoundAlways, PTL DEF Spec, UpdatesInOrder

(***************************************************************************)
(* ResponseQueue settles every answer once and in the order they are given,*)
(* while the page stays open too: it implements AnswerOutbox.              *)
(***************************************************************************)
(* A copy of a handled answer is on its way out.  In memory it is one of a  *)
(* sync that will tell the queue; in IndexedDB its row is being deleted.    *)
Forgets(w, a) == w.sync /\ (a \in w.gone \/ (Removes(w) /\ a = w.cur))
Erases(w, a) == Removes(w) /\ a = w.cur

Outgoing(tk, q, d, h) ==
  /\ \A a \in q \cap h : \E u \in Tasks : Forgets(tk[u], a)
  /\ \A a \in d \cap h : \E u \in Tasks : Erases(tk[u], a)

Once == acked \cap dropped = {} /\ Outgoing(task, queue, db, Handled)

(* A request is for the oldest answer that is not handled.                  *)
LEMMA EarliestIsSent ==
  ASSUME Sound, Once, AnswersAccountedFor, NEW t \in Tasks, Requesting(task[t])
  PROVE  /\ task[t].cur \in Answers /\ task[t].cur < next /\ task[t].cur \notin Handled
         /\ \A b \in Answers : b < task[t].cur => b \in Handled
<1> DEFINE c == task[t].cur
<1>1. /\ c \in queue \cup db /\ c \in Answers /\ c < next
      /\ \A b \in queue \cup db : c <= b \/ Taken(b, task)
  BY OldestIsSent
<1>2. Engaged(t) /\ \A u \in Tasks \ {t} : ~Busy(task[u])
  BY NobodyElse DEF Requesting, Engaged, Draining, Delivering, SendPCs
<1>3. ~Removes(task[t]) /\ \A u \in Tasks \ {t} : ~Removes(task[u]) /\ ~task[u].sync
  BY <1>2 DEF Requesting, Removes, Busy, SendPCs
<1>4. c \notin Handled
  <2>1. CASE task[t].sync
    <3>1. c \in db
      BY <2>1, SyncHolds DEF Requesting, SendPCs
    <3> QED
      BY <1>3, <3>1 DEF Once, Outgoing, Erases
  <2>2. CASE ~task[t].sync
    <3>1. c \in queue
      BY <2>2, SenderStored
    <3> QED
      BY <1>3, <2>2, <3>1 DEF Once, Outgoing, Forgets
  <2> QED
    BY <2>1, <2>2
<1>5. ASSUME NEW b \in Answers, b < c
      PROVE  b \in Handled
  <2>1. b \in Int /\ c \in Int /\ next \in Int
    BY <1>1, <1>5, ResponseQueueAssumption DEF Answers, Sound, Shape, TypeOK
  <2>2. b < next /\ ~(c <= b)
    BY <1>1, <1>5, <2>1
  <2>3. b \in queue \cup db \cup Handled
    BY <2>2 DEF AnswersAccountedFor, Handled
  <2>4. Taken(b, task) => b \in Handled
    BY DEF Taken, Sound, Held, Carries
  <2> QED
    BY <1>1, <2>2, <2>3, <2>4
<1> QED
  BY <1>1, <1>4, <1>5

-----------------------------------------------------------------------------
(* An activation moves, and it was not deleting a row.                      *)
LEMMA OutgoingMove ==
  ASSUME NEW tk \in [Tasks -> TaskType], NEW t \in Tasks, NEW w, NEW q, NEW d, NEW h,
         Outgoing(tk, q, d, h), ~Removes(tk[t]),
         tk[t].gone = {} \/ (w.sync /\ w.gone = tk[t].gone)
  PROVE  Outgoing([tk EXCEPT ![t] = w], q, d, h)
<1> DEFINE tl == [tk EXCEPT ![t] = w]
<1>1. tl[t] = w /\ \A u \in Tasks \ {t} : tl[u] = tk[u]
  OBVIOUS
<1> HIDE DEF tl
<1>2. ASSUME NEW a, NEW u \in Tasks, Forgets(tk[u], a)
      PROVE  Forgets(tl[u], a)
  BY <1>1, <1>2 DEF Forgets
<1>3. ASSUME NEW a, NEW u \in Tasks, Erases(tk[u], a)
      PROVE  Erases(tl[u], a)
  BY <1>1, <1>3 DEF Erases
<1> QED
  BY <1>2, <1>3 DEF Outgoing, tl

LEMMA OutgoingQuiet ==
  ASSUME Sound, Once, NEW t \in Tasks, NEW w, task' = [task EXCEPT ![t] = w],
         ~Removes(task[t]), task[t].gone = {} \/ (w.sync /\ w.gone = task[t].gone)
  PROVE  Outgoing(task', queue, db, Handled)
BY SoundTypes, OutgoingMove DEF Once

(* The activation that is at work has all the handled copies.               *)
LEMMA OwnCopies ==
  ASSUME Sound, Once, NEW t \in Tasks, Engaged(t)
  PROVE  /\ \A a \in queue \cap Handled : Forgets(task[t], a)
         /\ \A a \in db \cap Handled : Erases(task[t], a)
<1>1. \A u \in Tasks \ {t} : ~Busy(task[u])
  BY NobodyElse
<1>2. \A u \in Tasks \ {t} : \A a : ~Forgets(task[u], a) /\ ~Erases(task[u], a)
  BY <1>1 DEF Busy, Forgets, Erases, Removes, SendPCs
<1> QED
  BY <1>2 DEF Once, Outgoing

LEMMA OutgoingOwn ==
  ASSUME Sound, NEW t \in Tasks, NEW w, task' = [task EXCEPT ![t] = w],
         \A a \in queue' \cap Handled' : Forgets(w, a),
         \A a \in db' \cap Handled' : Erases(w, a)
  PROVE  Outgoing(task', queue', db', Handled')
<1>1. task'[t] = w
  BY SoundTypes
<1> QED
  BY <1>1 DEF Outgoing

(* processQueue and the page's effect start on a free activation.           *)
LEMMA FreeOutgoing ==
  ASSUME Sound, NEW q, NEW d, NEW h, Outgoing(task, q, d, h),
         UNCHANGED task \/ \E t \in Tasks : \E w : Free(t) /\ task' = [task EXCEPT ![t] = w]
  PROVE  Outgoing(task', q, d, h)
<1>1. CASE UNCHANGED task
  BY <1>1
<1>2. CASE \E t \in Tasks : \E w : Free(t) /\ task' = [task EXCEPT ![t] = w]
  <2>0. PICK t \in Tasks : \E w : Free(t) /\ task' = [task EXCEPT ![t] = w]
    BY <1>2
  <2>1. PICK w : Free(t) /\ task' = [task EXCEPT ![t] = w]
    BY <2>0
  <2>2. ~Removes(task[t]) /\ task[t].gone = {}
    BY <2>1, SoundTypes DEF Free, Removes, PlainTask, SendPCs
  <2> QED
    BY <2>1, <2>2, SoundTypes, OutgoingMove
<1> QED
  BY <1>1, <1>2

LEMMA ProcessQueueFree ==
  ASSUME NEW q, NEW from, NEW r, ProcessQueue(q, from, r)
  PROVE  UNCHANGED task \/ \E t \in Tasks : \E w : Free(t) /\ task' = [task EXCEPT ![t] = w]
BY DEF ProcessQueue, Step

LEMMA StartEffectFree ==
  ASSUME NEW r, StartEffect(r)
  PROVE  UNCHANGED task \/ \E t \in Tasks : \E w : Free(t) /\ task' = [task EXCEPT ![t] = w]
BY DEF StartEffect, Step

-----------------------------------------------------------------------------
(* Steps that handle no answer and move no copy.                            *)
LEMMA QuietOutgoing ==
  ASSUME StorageWorks, Sound, Once, NEW t \in Tasks,
         \/ Counted(t) \/ SendDeferred(t) \/ RecaptchaFailed(t) \/ GiveUp(t)
         \/ BackOff(t) \/ Resend(t) \/ EffectCounted(t) \/ RowsRead(t) \/ Recreate(t)
         \/ Network(t)
  PROVE  Outgoing(task', queue', db', Handled') /\ UNCHANGED <<next, acked, dropped>>
<1>1. task[t] \in TaskType /\ PlainTask(task[t]) /\ WellFormed(task[t])
  BY ActivationFacts, SoundTypes DEF Sound
<1>2. ASSUME UNCHANGED <<queue, db, acked, dropped, next>>, ~Removes(task[t]),
             NEW w, task' = [task EXCEPT ![t] = w],
             task[t].gone = {} \/ (w.sync /\ w.gone = task[t].gone)
      PROVE  Outgoing(task', queue', db', Handled') /\ UNCHANGED <<next, acked, dropped>>
  <2>1. Outgoing(task', queue, db, Handled)
    BY <1>2, OutgoingQuiet
  <2> QED
    BY <1>2, <2>1 DEF Handled
<1>3. CASE \/ Counted(t) \/ SendDeferred(t) \/ RecaptchaFailed(t) \/ GiveUp(t)
           \/ BackOff(t) \/ Resend(t) \/ EffectCounted(t)
  <2>1. UNCHANGED <<queue, db, acked, dropped, next>>
    BY <1>3 DEF Counted, SendDeferred, RecaptchaFailed, GiveUp, BackOff, Resend,
       EffectCounted, outcomes, session
  <2>2. /\ task[t].pc \in {"counting", "replied", "backoff", "effect"}
        /\ \E w : task' = [task EXCEPT ![t] = w]
    BY <1>3 DEF Counted, SendDeferred, RecaptchaFailed, GiveUp, BackOff, Resend,
       EffectCounted, Failure, Step, Has, At
  <2>3. task[t].pc \in {"counting", "effect"} \/ ~task[t].sync
    BY <1>3 DEF Counted, SendDeferred, RecaptchaFailed, GiveUp, BackOff, Resend,
       EffectCounted, Has, At
  <2>4. task[t].gone = {} /\ ~Removes(task[t])
    BY <1>1, <2>2, <2>3 DEF PlainTask, WellFormed, Removes, SendPCs
  <2> QED
    BY <1>2, <2>1, <2>2, <2>4
<1>4. CASE RowsRead(t)
  <2>1. UNCHANGED <<queue, db, acked, dropped, next>>
    BY <1>4 DEF RowsRead, outcomes, session
  <2>2. task[t].pc = "reading" /\ \E w : task' = [task EXCEPT ![t] = w]
    BY <1>4 DEF RowsRead, EndSync, SendRow, Step
  <2>3. task[t].gone = {} /\ ~Removes(task[t])
    BY <1>1, <2>2 DEF PlainTask, Removes, SendPCs
  <2> QED
    BY <1>2, <2>1, <2>2, <2>3
<1>5. CASE Recreate(t)
  <2> DEFINE w == Request(task[t], NoId)
  <2>1. UNCHANGED <<queue, db, acked, dropped, next>> /\ task' = [task EXCEPT ![t] = w]
    BY <1>5 DEF Recreate, Step, outcomes
  <2>2. w.sync /\ w.gone = task[t].gone /\ ~Removes(task[t])
    BY <1>1, <1>5, RequestParts DEF Recreate, Has, At, Removes
  <2> HIDE DEF w
  <2> QED
    BY <1>2, <2>1, <2>2
<1>6. CASE Network(t)
  <2>1. PICK reply : Replied(t, reply) /\ task[t].pc = "sending" /\ RequestUnchanged
    BY <1>6 DEF Network, ServerHandles, ReplyLost, RequestFails, ServerRefuses
  <2> DEFINE w == [task[t] EXCEPT !.pc = "replied", !.reply = reply, !.created = Len(responses')]
  <2>2. w.sync = task[t].sync /\ w.gone = task[t].gone /\ ~Removes(task[t])
    BY <1>1, <2>1 DEF TaskType, Removes
  <2>3. task' = [task EXCEPT ![t] = w]
    BY <1>1, <2>1, SoundTypes DEF Replied, TaskType
  <2> HIDE DEF w
  <2>4. UNCHANGED <<queue, db, acked, dropped, next>>
    BY <2>1 DEF RequestUnchanged, outcomes, session
  <2>5. task[t].gone = {} \/ w.sync
    BY <1>1, <2>2 DEF PlainTask
  <2> QED
    BY <1>2, <2>2, <2>3, <2>4, <2>5
<1> QED
  BY <1>3, <1>4, <1>5, <1>6

(* An answer is handled: the activation has the copy that stays.            *)
LEMMA SendHandledOutgoing ==
  ASSUME Sound, Once, NEW t \in Tasks, SendAccepted(t) \/ SendRejected(t)
  PROVE  Outgoing(task', queue', db', Handled')
<1>1. /\ task[t].pc = "replied" /\ ~task[t].sync /\ Requesting(task[t])
      /\ task[t] \in TaskType /\ db' = db
      /\ queue' = queue \ {First(queue)} /\ Handled' = Handled \cup {task[t].cur}
  BY SoundTypes DEF SendAccepted, SendRejected, Adopt, Has, At, Requesting, Handled
<1>2. /\ Engaged(t) /\ queue' = queue \ {task[t].cur}
      /\ PersistOffline => task[t].cur \in tracked
      /\ ~PersistOffline => db = {}
  BY <1>1, SenderStored DEF Sound, Plain
<1>3. queue \cap Handled = {} /\ db \cap Handled = {}
  BY <1>1, <1>2, OwnCopies DEF Forgets, Erases, Removes
<1>4. queue' \cap Handled' = {} /\ db' \cap Handled' \subseteq {task[t].cur}
  BY <1>1, <1>2, <1>3
<1>5. PICK w : /\ task' = [task EXCEPT ![t] = w]
               /\ task[t].cur \in tracked => Erases(w, task[t].cur)
  <2>1. CASE task[t].cur \in tracked
    <3>1. PICK pc \in {"removing", "dropping"} : task' = [task EXCEPT ![t] = [task[t] EXCEPT !.pc = pc]]
      BY <2>1 DEF SendAccepted, SendRejected, Step
    <3> DEFINE w == [task[t] EXCEPT !.pc = pc]
    <3>2. w.pc = pc /\ w.cur = task[t].cur
      BY <1>1 DEF TaskType
    <3>3. task' = [task EXCEPT ![t] = w]
      BY <3>1
    <3> HIDE DEF w
    <3>4. Erases(w, task[t].cur)
      BY <3>1, <3>2 DEF Erases, Removes
    <3> QED
      BY <3>3, <3>4
  <2>2. CASE task[t].cur \notin tracked
    BY <2>2 DEF SendAccepted, SendRejected, Success, ProcessNext, Failure, Step
  <2> QED
    BY <2>1, <2>2
<1>6. \A a \in db' \cap Handled' : Erases(w, a)
  BY <1>1, <1>2, <1>4, <1>5
<1> QED
  BY <1>4, <1>5, <1>6, OutgoingOwn

LEMMA SentRowRemovedOutgoing ==
  ASSUME StorageWorks, Sound, Once, NEW t \in Tasks, SentRowRemoved(t)
  PROVE  Outgoing(task', queue', db', Handled') /\ UNCHANGED <<next, acked, dropped>>
<1>1. /\ ~task[t].sync /\ Removes(task[t]) /\ Engaged(t)
      /\ UNCHANGED <<next, queue, acked, dropped>>
  BY DEF SentRowRemoved, Removes, Engaged, Delivering, SendPCs, session
<1>2. db' = db \ {task[t].cur}
  <2>1. PICK removed \in BOOLEAN : RemoveRow(task[t].cur, removed)
    BY DEF SentRowRemoved
  <2> QED
    BY <2>1, RowRemoved DEF Sound
<1>3. queue \cap Handled = {} /\ db \cap Handled \subseteq {task[t].cur}
  BY <1>1, OwnCopies DEF Forgets, Erases
<1>4. \E w : task' = [task EXCEPT ![t] = w]
  BY DEF SentRowRemoved, Success, ProcessNext, Failure, Step
<1>5. queue' \cap Handled' = {} /\ db' \cap Handled' = {}
  BY <1>1, <1>2, <1>3 DEF Handled
<1> QED
  BY <1>1, <1>4, <1>5, OutgoingOwn

LEMMA RowHandledOutgoing ==
  ASSUME Sound, Once, NEW t \in Tasks, RowAccepted(t) \/ RowRejected(t)
  PROVE  Outgoing(task', queue', db', Handled')
<1>1. /\ task[t].pc = "replied" /\ task[t].sync /\ Engaged(t) /\ task[t] \in TaskType
      /\ UNCHANGED <<queue, db>> /\ Handled' = Handled \cup {task[t].cur}
  BY SoundTypes DEF RowAccepted, RowRejected, Adopt, Has, At, Engaged, Draining, Handled
<1>2. /\ \A a \in queue \cap Handled : a \in task[t].gone
      /\ db \cap Handled = {}
  BY <1>1, OwnCopies DEF Forgets, Erases, Removes
<1>3. PICK pc \in {"removing", "dropping"} : task' = [task EXCEPT ![t] = [task[t] EXCEPT !.pc = pc]]
  BY DEF RowAccepted, RowRejected, Step
<1> DEFINE w == [task[t] EXCEPT !.pc = pc]
<1>4. /\ w.pc = pc /\ w.cur = task[t].cur /\ w.gone = task[t].gone /\ w.sync = task[t].sync
      /\ task' = [task EXCEPT ![t] = w]
  BY <1>1, <1>3 DEF TaskType
<1> HIDE DEF w
<1>5. Removes(w)
  BY <1>3, <1>4 DEF Removes
<1>6. \A a \in queue' \cap Handled' : Forgets(w, a)
  BY <1>1, <1>2, <1>4, <1>5 DEF Forgets
<1>7. \A a \in db' \cap Handled' : Erases(w, a)
  BY <1>1, <1>2, <1>4, <1>5 DEF Erases
<1> QED
  BY <1>4, <1>6, <1>7, OutgoingOwn

LEMMA SyncStoppedOutgoing ==
  ASSUME Sound, Once, NEW t \in Tasks, SyncStopped(t)
  PROVE  Outgoing(task', queue', db', Handled') /\ UNCHANGED <<next, acked, dropped>>
<1>1. /\ task[t].pc = "replied" /\ task[t].sync /\ Engaged(t)
      /\ UNCHANGED <<db, next, acked, dropped>>
      /\ queue' = queue \ (task[t].gone \cap tracked)
  BY DEF SyncStopped, ForgetProcessed, Has, At, Engaged, Draining, outcomes, session
<1>2. /\ \A a \in queue \cap Handled : a \in task[t].gone
      /\ db \cap Handled = {}
  BY <1>1, OwnCopies DEF Forgets, Erases, Removes
<1>3. \A a \in queue \cap task[t].gone : a \in tracked
  BY <1>1, SyncHolds
<1>4. queue' \cap Handled' = {} /\ db' \cap Handled' = {}
  BY <1>1, <1>2, <1>3 DEF Handled
<1>5. \E w : task' = [task EXCEPT ![t] = w]
  BY DEF SyncStopped, EndSync, Step
<1> QED
  BY <1>1, <1>4, <1>5, OutgoingOwn

LEMMA SyncedRowRemovedOutgoing ==
  ASSUME StorageWorks, Sound, Once, NEW t \in Tasks, SyncedRowRemoved(t)
  PROVE  Outgoing(task', queue', db', Handled') /\ UNCHANGED <<next, acked, dropped>>
<1> DEFINE w == [task[t] EXCEPT !.gone = @ \cup {task[t].cur}]
<1>1. /\ task[t].sync /\ Removes(task[t]) /\ Engaged(t) /\ task[t].pc \in SendPCs
      /\ task[t] \in TaskType /\ WellFormed(task[t])
      /\ UNCHANGED <<next, acked, dropped>>
  BY ActivationFacts
  DEF SyncedRowRemoved, Removes, Engaged, Draining, SendPCs, outcomes, session, Sound
<1>2. /\ w \in TaskType /\ w.sync /\ w.cur = task[t].cur /\ w.todo = task[t].todo
      /\ w.gone = task[t].gone \cup {task[t].cur}
  BY <1>1 DEF TaskType, WellFormed
<1>3. PICK removed \in BOOLEAN :
        /\ RemoveRow(w.cur, removed)
        /\ IF removed /\ w.todo # {}
           THEN SendRow(t, w, w.todo, Tail(idb)) /\ UNCHANGED queue
           ELSE /\ ForgetProcessed(w.gone)
                /\ EndSync(t, queue', removed, removed, Tail(idb))
  BY DEF SyncedRowRemoved
<1> HIDE DEF w
<1>4. db' = db \ {task[t].cur}
  BY <1>2, <1>3, RowRemoved DEF Sound
<1>5. /\ \A a \in queue \cap Handled : a \in w.gone
      /\ db \cap Handled \subseteq {task[t].cur}
  BY <1>1, <1>2, OwnCopies DEF Forgets, Erases
<1>6. Handled' = Handled /\ db' \cap Handled' = {}
  BY <1>1, <1>4, <1>5 DEF Handled
<1>7. CASE removed /\ w.todo # {}
  <2>1. SendRow(t, w, w.todo, Tail(idb)) /\ queue' = queue /\ w.todo \in SUBSET Answers
    BY <1>2, <1>3, <1>7 DEF TaskType
  <2>2. PICK v : Step(t, v, Tail(idb)) /\ v.sync = w.sync /\ v.gone = w.gone
    BY <1>2, <1>7, <2>1, SendRowParts
  <2>3. \A a \in queue' \cap Handled' : Forgets(v, a)
    BY <1>2, <1>5, <1>6, <2>1, <2>2 DEF Forgets
  <2>4. task' = [task EXCEPT ![t] = v]
    BY <2>2 DEF Step
  <2> QED
    BY <1>1, <1>6, <2>3, <2>4, OutgoingOwn
<1>8. CASE ~(removed /\ w.todo # {})
  <2>1. queue' = queue \ (w.gone \cap tracked) /\ \E v : task' = [task EXCEPT ![t] = v]
    BY <1>3, <1>8 DEF ForgetProcessed, EndSync, Step
  <2>2. \A a \in queue \cap w.gone : a \in tracked
    <3>1. /\ \A a \in queue \cap task[t].gone : a \in tracked
          /\ task[t].cur \in db
      BY <1>1, SyncHolds
    <3>2. queue \cap db \subseteq tracked
      BY DEF Sound, Held, Ledger
    <3> QED
      BY <1>2, <3>1, <3>2
  <2>3. queue' \cap Handled' = {}
    BY <1>5, <1>6, <2>1, <2>2
  <2> QED
    BY <1>1, <1>6, <2>1, <2>3, OutgoingOwn
<1> QED
  BY <1>7, <1>8

-----------------------------------------------------------------------------
(* The page and its storage.  A row that is stored is of an answer that is  *)
(* not handled.                                                             *)
LEMMA StoredOutgoing ==
  ASSUME Sound, Once, AnswerStored
  PROVE  Outgoing(task', queue', db', Handled') /\ UNCHANGED <<next, acked, dropped>>
<1> DEFINE a == Head(idb).answer
<1>1. /\ Writing("add") /\ db' = db \cup {a} /\ ProcessQueue(queue, "app", Tail(idb))
      /\ UNCHANGED <<next, queue, acked, dropped>>
  BY DEF AnswerStored, outcomes, session
<1>2. Added(a, idb) /\ a \in Answers
  <2>1. idb \in Requests /\ idb # <<>> /\ IsAdd(Head(idb))
    BY <1>1, SoundTypes DEF Writing, IsAdd
  <2>2. 1 \in 1 .. Len(idb) /\ idb[1] = Head(idb)
    BY <2>1, TailIndex
  <2>3. Head(idb) \in WriteType \cup Tasks
    BY <2>1, <2>2, ElementOfSeq DEF Requests
  <2> QED
    BY <2>1, <2>2, <2>3 DEF Added, IsAdd, WriteType
<1> HIDE DEF a
<1>3. a \in queue
  BY <1>2, SoundTypes DEF Ordered, Lined
<1>4. a \notin Handled
  <2> SUFFICES ASSUME NEW u \in Tasks, Forgets(task[u], a)
               PROVE  FALSE
    BY <1>3 DEF Once, Outgoing
  <2>1. task[u].sync /\ (a \in task[u].gone \/ (task[u].pc \in SendPCs /\ a = task[u].cur))
    BY DEF Forgets, Removes, SendPCs
  <2> QED
    BY <1>2, <2>1, SyncHolds
<1>5. Outgoing(task, queue, db', Handled)
  BY <1>1, <1>4 DEF Once, Outgoing
<1>6. Outgoing(task', queue, db', Handled)
  BY <1>1, <1>5, ProcessQueueFree, FreeOutgoing
<1> QED
  BY <1>1, <1>6 DEF Handled

LEMMA SubmitOutgoing ==
  ASSUME Sound, Once, Submit
  PROVE  /\ Outgoing(task', queue', db', Handled') /\ UNCHANGED <<acked, dropped>>
         /\ next \in Answers /\ next' = next + 1
<1>1. /\ next \in Answers /\ next' = next + 1 /\ queue' = queue \cup {next}
      /\ UNCHANGED <<db, acked, dropped>>
      /\ UNCHANGED task \/ ProcessQueue(queue', "app", idb)
  BY DEF Submit, CanSubmit, outcomes
<1>2. next \notin Handled
  <2>1. \A a \in Handled : a < next
    BY DEF Sound, Held, Ledger
  <2>2. ~(next < next)
    BY <1>1, ResponseQueueAssumption DEF Answers
  <2> QED
    BY <2>1, <2>2
<1>3. Outgoing(task, queue', db, Handled)
  BY <1>1, <1>2 DEF Once, Outgoing
<1>4. Outgoing(task', queue', db, Handled)
  BY <1>1, <1>3, ProcessQueueFree, FreeOutgoing
<1> QED
  BY <1>1, <1>4 DEF Handled

LEMMA PageOutgoing ==
  ASSUME StorageWorks, Sound, Once,
         \/ AnswerNotStored \/ ProgressWritten \/ Page \/ Retry \/ GoOnline \/ GoOffline
         \/ Delete \/ UNCHANGED vars
  PROVE  Outgoing(task', queue', db', Handled') /\ UNCHANGED <<next, acked, dropped>>
<1>1. UNCHANGED <<next, queue, db, acked, dropped>>
  BY DEF AnswerNotStored, ProgressWritten, Page, StartFresh, Restore, Retry, GoOnline,
     GoOffline, Delete, vars, outcomes, session
<1>2. UNCHANGED task \/ \E t \in Tasks : \E w : Free(t) /\ task' = [task EXCEPT ![t] = w]
  <2>1. \/ UNCHANGED task \/ \E r : StartEffect(r)
        \/ \E q, from, r : ProcessQueue(q, from, r)
    BY DEF AnswerNotStored, ProgressWritten, Page, StartFresh, Restore, Retry, GoOnline,
       GoOffline, Delete, vars
  <2> QED
    BY <2>1, ProcessQueueFree, StartEffectFree
<1>3. Outgoing(task', queue, db, Handled)
  BY <1>2, FreeOutgoing DEF Once
<1> QED
  BY <1>1, <1>3 DEF Handled

(* What a step does to the answers that were given and handled.             *)
Gives ==
  next \in Answers /\ next' = next + 1 /\ UNCHANGED <<acked, dropped>>
Accepts(t) ==
  /\ Requesting(task[t]) /\ acked' = acked \cup {task[t].cur}
  /\ UNCHANGED <<next, dropped>>
Refuses(t) ==
  /\ Requesting(task[t]) /\ dropped' = dropped \cup {task[t].cur}
  /\ UNCHANGED <<next, acked>>

LEMMA OutgoingInductive ==
  ASSUME StorageWorks, "reload" \notin Faults, Sound, Once, [Next]_vars
  PROVE  /\ Outgoing(task', queue', db', Handled')
         /\ \/ Gives \/ (\E t \in Tasks : Accepts(t) \/ Refuses(t))
            \/ UNCHANGED <<next, acked, dropped>>
<1>1. ASSUME NEW t \in Tasks, CleanedUp(t) \/ CountFails(t) \/ ReadFails(t)
      PROVE  FALSE
  BY <1>1, SoundTypes DEF CleanedUp, CountFails, ReadFails, PlainTask, May, StorageWorks
<1>2. ASSUME NEW t \in Tasks,
             SendAccepted(t) \/ SendRejected(t) \/ RowAccepted(t) \/ RowRejected(t)
      PROVE  Outgoing(task', queue', db', Handled') /\ (Accepts(t) \/ Refuses(t))
  <2>1. Accepts(t) \/ Refuses(t)
    BY <1>2 DEF SendAccepted, SendRejected, RowAccepted, RowRejected, Adopt, Has, At,
       Requesting, session, Accepts, Refuses
  <2> QED
    BY <1>2, <2>1, SendHandledOutgoing, RowHandledOutgoing
<1>3. ASSUME NEW t \in Tasks, Activation(t), ~SendAccepted(t), ~SendRejected(t),
             ~RowAccepted(t), ~RowRejected(t)
      PROVE  Outgoing(task', queue', db', Handled') /\ UNCHANGED <<next, acked, dropped>>
  BY <1>1, <1>3, QuietOutgoing, SentRowRemovedOutgoing, SyncStoppedOutgoing,
     SyncedRowRemovedOutgoing DEF Activation, Sending, Syncing
<1>4. CASE Submit
  BY <1>4, SubmitOutgoing DEF Gives
<1>5. ~Reload
  BY DEF Reload, May
<1> QED
  BY <1>2, <1>3, <1>4, <1>5, StoredOutgoing, PageOutgoing DEF Next, Storage

LEMMA OnceInductive ==
  ASSUME StorageWorks, "reload" \notin Faults, Sound, Once, AnswersAccountedFor,
         [Next]_vars
  PROVE  Once'
<1>1. Outgoing(task', queue', db', Handled')
  BY OutgoingInductive
<1>2. acked' \cap dropped' = {}
  <2>1. \A t \in Tasks : Requesting(task[t]) => task[t].cur \notin acked \cup dropped
    BY EarliestIsSent DEF Handled
  <2> QED
    BY <2>1, OutgoingInductive DEF Once, Gives, Accepts, Refuses
<1> QED
  BY <1>1, <1>2 DEF Once

LEMMA OnceInitially == Init => Once
BY DEF Init, Once, Outgoing

LEMMA OnceAlways ==
  ASSUME StorageWorks, "reload" \notin Faults
  PROVE  Spec => [](Sound /\ Once /\ AnswersAccountedFor)
<1>1. Sound /\ Once /\ AnswersAccountedFor /\ [Next]_vars => Once'
  BY OnceInductive
<1>2. Spec => []Sound
  BY SoundAlways
<1>3. Spec => []AnswersAccountedFor
  BY NoAnswerLost
<1> QED
  BY <1>1, <1>2, <1>3, OnceInitially, PTL DEF Spec

(* While the page is not reloaded and IndexedDB fails no request, an        *)
(* answer whose acceptance was seen is not sent again: neither              *)
(* the copy in the queue nor the row in the store outlives the acceptance   *)
(* long enough to be picked up by the other sender.                         *)
THEOREM NotSentTwice ==
  ASSUME StorageWorks, "reload" \notin Faults
  PROVE  Spec => []AckedNotResent
<1>1. Sound /\ Once /\ AnswersAccountedFor => AckedNotResent
  <2> SUFFICES ASSUME Sound, Once, AnswersAccountedFor, NEW t \in Tasks,
                      task[t].pc = "sending"
               PROVE  task[t].cur \notin acked
    BY DEF AckedNotResent
  <2> QED
    BY EarliestIsSent DEF Requesting, Handled
<1> QED
  BY <1>1, OnceAlways, PTL

-----------------------------------------------------------------------------
(***************************************************************************)
(* The refinement.  An answer is given by Submit and settled by the step   *)
(* that learns of its acceptance or refusal; every other step stutters.    *)
(***************************************************************************)
LEMMA OutboxInitially == Init => Outbox!Init
<1> SUFFICES ASSUME Init PROVE Outbox!Init
  OBVIOUS
<1>1. next = 1 /\ acked = {} /\ dropped = {}
  BY DEF Init
<1>2. \A a \in Answers : ~(a < 1)
  BY ResponseQueueAssumption DEF Answers
<1>3. OutboxStatus = [a \in Answers |-> "ungiven"]
  BY <1>1, <1>2 DEF OutboxStatus
<1> QED
  BY <1>3 DEF Outbox!Init, Outbox!Numbers, Answers

LEMMA StatusOf ==
  ASSUME Sound, Once, NEW a \in Answers
  PROVE  /\ OutboxStatus \in [Answers -> {"accepted", "refused", "pending", "ungiven"}]
         /\ a \in acked => OutboxStatus[a] = "accepted"
         /\ a \in dropped => OutboxStatus[a] = "refused"
         /\ a \in Handled => a < next
         /\ a \notin Handled /\ a < next => OutboxStatus[a] = "pending"
         /\ a \notin Handled /\ ~(a < next) => OutboxStatus[a] = "ungiven"
BY DEF OutboxStatus, Once, Handled, Sound, Held, Ledger

LEMMA GivesOne ==
  ASSUME Sound, Once, Gives
  PROVE  Outbox!Give(next)
<1>1. next \in Answers /\ next \in Nat
  BY ResponseQueueAssumption DEF Gives, Answers
<1>2. \A a \in Answers : a \in Nat
  BY ResponseQueueAssumption DEF Answers
<1>3. next \notin Handled /\ ~(next < next)
  BY <1>1, StatusOf
<1>4. OutboxStatus[next] = "ungiven"
  BY <1>1, <1>3, StatusOf
<1>5. \A b \in Answers : b < next => OutboxStatus[b] # "ungiven"
  BY StatusOf DEF Handled
<1>6. OutboxStatus' = [OutboxStatus EXCEPT ![next] = "pending"]
  <2>1. \A a \in Answers : a < next' <=> (a < next \/ a = next)
    BY <1>1, <1>2 DEF Gives
  <2>2. UNCHANGED <<acked, dropped>>
    BY DEF Gives
  <2> QED
    BY <1>1, <1>3, <2>1, <2>2 DEF OutboxStatus, Handled
<1> QED
  BY <1>4, <1>5, <1>6 DEF Outbox!Give, Outbox!Numbers, Answers

LEMMA SettlesOne ==
  ASSUME Sound, Once, AnswersAccountedFor, NEW t \in Tasks, Accepts(t) \/ Refuses(t)
  PROVE  task[t].cur \in Answers /\ Outbox!Settle(task[t].cur)
<1> DEFINE c == task[t].cur
<1>1. /\ c \in Answers /\ c < next /\ c \notin Handled
      /\ \A b \in Answers : b < c => b \in Handled
  BY EarliestIsSent DEF Accepts, Refuses
<1>2. OutboxStatus[c] = "pending"
  BY <1>1, StatusOf
<1>3. \A b \in Answers : b < c => OutboxStatus[b] \in {"accepted", "refused"}
  BY <1>1, StatusOf DEF Handled
<1>4. \E s \in {"accepted", "refused"} : OutboxStatus' = [OutboxStatus EXCEPT ![c] = s]
  <2>1. CASE Accepts(t)
    <3>1. acked' = acked \cup {c} /\ dropped' = dropped /\ next' = next
      BY <2>1 DEF Accepts
    <3>2. OutboxStatus' = [OutboxStatus EXCEPT ![c] = "accepted"]
      BY <1>1, <3>1 DEF OutboxStatus
    <3> QED
      BY <3>2
  <2>2. CASE Refuses(t)
    <3>1. dropped' = dropped \cup {c} /\ acked' = acked /\ next' = next
      BY <2>2 DEF Refuses
    <3>2. OutboxStatus' = [OutboxStatus EXCEPT ![c] = "refused"]
      BY <1>1, <3>1 DEF OutboxStatus, Handled
    <3> QED
      BY <3>2
  <2> QED
    BY <2>1, <2>2
<1> QED
  BY <1>1, <1>2, <1>3, <1>4
  DEF Outbox!Settle, Outbox!Earliest, Outbox!Settled, Outbox!Numbers, Answers

LEMMA OutboxStep ==
  ASSUME StorageWorks, "reload" \notin Faults, Sound, Once, AnswersAccountedFor,
         [Next]_vars
  PROVE  [Outbox!Next]_OutboxStatus
<1>1. CASE Gives
  BY <1>1, GivesOne DEF Gives, Outbox!Next, Outbox!Numbers, Answers
<1>2. ASSUME NEW t \in Tasks, Accepts(t) \/ Refuses(t)
      PROVE  Outbox!Next
  BY <1>2, SettlesOne DEF Outbox!Next, Outbox!Numbers, Answers
<1>3. CASE UNCHANGED <<next, acked, dropped>>
  BY <1>3 DEF OutboxStatus
<1> QED
  BY <1>1, <1>2, <1>3, OutgoingInductive

(* While the page stays open and its storage works, every answer is settled *)
(* once and in the order the answers are given, with two senders, locks     *)
(* that are checked before they are taken, retries and lost replies.        *)
THEOREM QueueIsOutbox ==
  ASSUME StorageWorks, "reload" \notin Faults
  PROVE  Spec => ImplementsOutbox
<1>1. Sound /\ Once /\ AnswersAccountedFor /\ [Next]_vars => [Outbox!Next]_OutboxStatus
  BY OutboxStep
<1> QED
  BY <1>1, OutboxInitially, OnceAlways, PTL DEF Spec, ImplementsOutbox, Outbox!Spec
=============================================================================
