-------------------------- MODULE GattClientProofs --------------------------
(***************************************************************************)
(* Proofs about GattClient, for any attributes, data and bounds.           *)
(***************************************************************************)
EXTENDS GattClient, FiniteSetTheorems, TLAPS

(* The inductive invariant.  Signals wait until the callback of the main    *)
(* loop is over, so what it selected stays listed and, unless an            *)
(* application thread comes between, selected; and the shared buffers hold  *)
(* the last request asked for, which is the last one in the queue.          *)
Types ==
  /\ overtaken \in BOOLEAN /\ stray \in BOOLEAN /\ crashed \in {"no", "loop", "thread"}
  /\ attrs \subseteq Attrs /\ rk_gatt_data \in Data \cup {None}
  /\ idle \in Seq({"read", "write"})
  /\ {loop, asked} \subseteq Requests \cup {None}

Rooted ==
  /\ \A a \in attrs \ Services : Parent[a] \in attrs
  /\ device = "absent" => attrs = {}

Selected ==
  loop # None =>
    /\ loop.uuid \in attrs
    /\ ~overtaken => default_attr = IF device = "default" THEN loop.uuid ELSE None

BuffersAreLast ==
  IF asked = None THEN idle = << >> /\ loop = None
  ELSE /\ gatt_client_uuid = asked.uuid
       /\ asked.data = IF asked.op = "write" THEN rk_gatt_data ELSE None
       /\ idle # << >> => idle[Len(idle)] = asked.op
       /\ idle = << >> /\ loop # None => loop = asked

IInv ==
  /\ Types /\ Rooted /\ Selected /\ BuffersAreLast
  /\ DefaultAttrLive /\ LastRequestWins /\ LoopSurvives

\* The types IInv does not name, and the writes counted.
CallRecords == [op : Methods, attr : Attrs, data : Data \cup {None}]
DirectCalls == [call : {"notify", "is_notifying"}, attr : Attrs, set : BOOLEAN]

RestTypes ==
  /\ opened \in BOOLEAN /\ device \in {"absent", "known", "default"}
  /\ default_attr \in Attrs \cup {None} /\ gatt_client_uuid \in Uuids \cup {None}
  /\ issued \in Requests \cup {None} /\ thread \in DirectCalls \cup {None}
  /\ calls \in Seq(CallRecords)

CountInv == RestTypes /\ owed \in Nat /\ WritesAnswered
-----------------------------------------------------------------------------
(* A signal that keeps the lists rooted and the selection live keeps the    *)
(* rest: it comes between two callbacks (proxy_added, proxy_removed).       *)
LEMMA SignalStep ==
  ASSUME NEW dev, NEW as \in SUBSET Attrs, NEW attr,
         IInv, crashed = "no", Signal(dev, as, attr),
         \A a \in as \ Services : Parent[a] \in as,
         dev = "absent" => as = {},
         attr # None /\ ~stray => attr \in as
  PROVE  IInv'
<1> USE DEF Signal, ghosts, buffers, IInv
<1>1. Types' BY DEF Types
<1>2. Rooted' BY DEF Rooted
<1>3. Selected' BY DEF Selected
<1>4. BuffersAreLast' BY DEF BuffersAreLast
<1>5. DefaultAttrLive' BY DEF DefaultAttrLive
<1>6. LastRequestWins' BY DEF LastRequestWins
<1>7. LoopSurvives' BY DEF LoopSurvives
<1> QED BY <1>1, <1>2, <1>3, <1>4, <1>5, <1>6, <1>7

(* The attributes and the device come and go.                               *)
LEMMA SignalsStep ==
  ASSUME IInv, crashed = "no",
         \/ device_added \/ device_removed \/ set_default_device
         \/ \E a \in Attrs : gatt_add(a) \/ gatt_remove(a)
  PROVE  IInv'
<1> USE DEF IInv
<1>1. CASE device_added
  BY <1>1, SignalStep DEF device_added, Types, Rooted, DefaultAttrLive
<1>2. CASE device_removed
  BY <1>2, SignalStep DEF device_removed, Types, Rooted
<1>3. CASE set_default_device
  BY <1>3, SignalStep DEF set_default_device, Types, Rooted, DefaultAttrLive
<1>4. ASSUME NEW a \in Attrs, gatt_add(a) PROVE IInv'
  BY <1>4, SignalStep DEF gatt_add, is_child, Types, Rooted, DefaultAttrLive
<1>5. ASSUME NEW a \in Attrs, gatt_remove(a) PROVE IInv'
  BY <1>5, SignalStep DEF gatt_remove, Types, Rooted, DefaultAttrLive
<1> QED BY <1>1, <1>2, <1>3, <1>4, <1>5

(* A request fills the shared buffers and joins the end of the queue        *)
(* (rk_ble_client_read, rk_ble_client_write).                               *)
LEMMA RequestStep ==
  ASSUME NEW u \in Uuids, IInv, crashed = "no",
         rk_ble_client_read(u) \/ \E d \in Data : rk_ble_client_write(u, d)
  PROVE  IInv'
<1> USE DEF IInv, lists, rk_ble_client_read, rk_ble_client_write
<1>1. asked' \in Requests BY DEF Requests
<1>2. Types' BY <1>1 DEF Types
<1>3. Rooted' /\ Selected' /\ DefaultAttrLive' /\ LoopSurvives'
  BY DEF Rooted, Selected, DefaultAttrLive, LoopSurvives
<1>4. idle' # << >> /\ idle'[Len(idle')] = asked'.op BY DEF Types
<1>5. BuffersAreLast' BY <1>1, <1>4, ClientAssumption DEF BuffersAreLast
<1>6. LastRequestWins' BY <1>4 DEF LastRequestWins
<1> QED BY <1>2, <1>3, <1>5, <1>6

(* The main loop takes the oldest request, which is the last one asked for  *)
(* when the queue is then empty (gatt_client_select_attribute).             *)
LEMMA SelectStep ==
  ASSUME IInv, crashed = "no", gatt_client_select_attribute
  PROVE  IInv'
<1> USE DEF IInv, lists, buffers, gatt_client_select_attribute
<1>1. asked \in Requests /\ asked # None BY DEF BuffersAreLast, Types
<1>2. Head(idle) \in {"read", "write"} /\ Tail(idle) \in Seq({"read", "write"})
  BY DEF Types
<1>3. Tail(idle) # << >> => Tail(idle)[Len(Tail(idle))] = asked.op
  BY <1>1 DEF Types, BuffersAreLast
<1>4. Tail(idle) = << >> => Request = asked
  <2>1. Tail(idle) = << >> => Head(idle) = asked.op
    <3> SUFFICES ASSUME Tail(idle) = << >> PROVE Head(idle) = asked.op OBVIOUS
    <3>1. idle \in Seq({"read", "write"}) /\ idle # << >> BY DEF Types
    <3>2. Len(Tail(idle)) = Len(idle) - 1 /\ Len(idle) \in Nat BY <3>1
    <3>3. Len(idle) = 1 BY <3>2
    <3> QED BY <1>1, <3>1, <3>3 DEF BuffersAreLast
  <2>2. asked = [op |-> asked.op, uuid |-> asked.uuid, data |-> asked.data]
    BY <1>1 DEF Requests
  <2> QED BY <1>1, <2>1, <2>2 DEF Request, BuffersAreLast
<1>5. CASE gatt_client_uuid \in attrs
  <2>1. /\ loop' = Request /\ default_attr' = (IF device = "default" THEN gatt_client_uuid ELSE None)
        /\ overtaken' = FALSE /\ UNCHANGED <<issued, owed>>
    BY <1>5 DEF set_default_attribute
  <2>2. Request \in Requests /\ Request.uuid = gatt_client_uuid
    <3>1. gatt_client_uuid \in Uuids BY <1>1 DEF BuffersAreLast, Requests
    <3> QED BY <3>1, <1>2 DEF Request, Requests, Types
  <2>3. loop' # None BY <2>1, <2>2, ClientAssumption
  <2>4. Types' BY <2>1, <2>2, <1>2 DEF Types
  <2>5. Rooted' BY DEF Rooted
  <2>6. Selected' BY <1>5, <2>1, <2>2 DEF Selected
  <2>7. BuffersAreLast' BY <1>1, <1>3, <1>4, <2>1 DEF BuffersAreLast
  <2>8. DefaultAttrLive' BY <1>5, <2>1 DEF DefaultAttrLive
  <2>9. LastRequestWins' BY <2>3 DEF LastRequestWins
  <2>10. LoopSurvives' BY DEF LoopSurvives
  <2> QED BY <2>4, <2>5, <2>6, <2>7, <2>8, <2>9, <2>10
<1>6. CASE gatt_client_uuid \notin attrs
  <2>1. issued' = Request /\ UNCHANGED <<default_attr, loop, overtaken>>
    BY <1>6 DEF Refuse
  <2>2. Types' BY <2>1, <1>2 DEF Types
  <2>3. Rooted' /\ Selected' /\ DefaultAttrLive' /\ LoopSurvives'
    BY <2>1 DEF Rooted, Selected, DefaultAttrLive, LoopSurvives
  <2>4. BuffersAreLast' BY <1>1, <1>3, <1>4, <2>1 DEF BuffersAreLast
  <2>5. LastRequestWins' BY <1>4, <2>1 DEF LastRequestWins
  <2> QED BY <2>2, <2>3, <2>4, <2>5
<1> QED BY <1>5, <1>6
(* The request leaves through the attribute it selected (read_attribute,    *)
(* write_attribute), or without a default device dereferences NULL.         *)
LEMMA LoopCallStep ==
  ASSUME IInv, crashed = "no", LoopCall
  PROVE  IInv'
<1> USE DEF IInv, lists, buffers, LoopCall
<1>1. /\ Types' /\ Rooted' /\ Selected' /\ DefaultAttrLive'
  BY DEF Types, Rooted, Selected, DefaultAttrLive
<1>2. BuffersAreLast' BY DEF BuffersAreLast
<1>3. Usable /\ ~overtaken => default_attr = loop.uuid
  BY ClientAssumption DEF Usable, Selected, Types
<1>4. LoopSurvives' BY DEF LoopSurvives, Selected, Usable
<1>5. LastRequestWins'
  <2> SUFFICES ASSUME idle = << >>, asked # None, ~overtaken, crashed' = "no"
               PROVE  issued' = asked
    BY DEF LastRequestWins
  <2>1. Usable OBVIOUS
  <2>2. issued' = [loop EXCEPT !.uuid = default_attr]
    BY <2>1 DEF Refuse
  <2>3. loop = asked /\ asked \in Requests BY DEF BuffersAreLast, Types
  <2> QED BY <1>3, <2>1, <2>2, <2>3 DEF Requests
<1> QED BY <1>1, <1>2, <1>4, <1>5

(* The direct calls of an application thread (gatt_client_notify,           *)
(* gatt_client_is_notifying).                                               *)
LEMMA DirectStep ==
  ASSUME IInv, crashed = "no",
         \/ \E u \in Uuids : \E f \in {"notify", "is_notifying"} : Direct(f, u)
         \/ DirectSet \/ DirectUse
  PROVE  IInv'
<1> USE DEF IInv, lists, buffers, ghosts
<1>1. ASSUME NEW u \in Uuids, NEW f \in {"notify", "is_notifying"}, Direct(f, u)
      PROVE  IInv'
  BY <1>1 DEF Direct, Types, Rooted, Selected, BuffersAreLast, DefaultAttrLive,
              LastRequestWins, LoopSurvives
<1>2. CASE DirectSet
  <2> USE <1>2 DEF DirectSet
  <2>1. Types' /\ Rooted' /\ BuffersAreLast' /\ LoopSurvives'
    BY DEF Types, Rooted, BuffersAreLast, LoopSurvives
  <2>2. Selected' BY DEF Selected, Types
  <2>3. DefaultAttrLive' BY DEF DefaultAttrLive, set_default_attribute, Types
  <2>4. LastRequestWins' BY DEF LastRequestWins, Types
  <2> QED BY <2>1, <2>2, <2>3, <2>4
<1>3. CASE DirectUse
  <2> USE <1>3 DEF DirectUse
  <2>1. crashed' \in {"no", "thread"} BY DEF Outcome
  <2>2. Types' /\ LoopSurvives' BY <2>1 DEF Types, LoopSurvives
  <2>3. Rooted' /\ Selected' /\ BuffersAreLast' /\ DefaultAttrLive'
    BY DEF Rooted, Selected, BuffersAreLast, DefaultAttrLive
  <2>4. LastRequestWins' BY DEF LastRequestWins
  <2> QED BY <2>2, <2>3, <2>4
<1> QED BY <1>1, <1>2, <1>3

(* Answers, and the session's start and end.                                *)
LEMMA SessionStep ==
  ASSUME IInv, crashed = "no",
         (\E i \in DOMAIN calls : Reply(i)) \/ bluetooth_open \/ bluetooth_close
  PROVE  IInv'
<1> USE DEF IInv, lists, buffers, ghosts
<1>1. ASSUME NEW i \in DOMAIN calls, Reply(i) PROVE IInv'
  <2> USE <1>1 DEF Reply
  <2>1. Types' /\ Rooted' /\ Selected' /\ BuffersAreLast' /\ DefaultAttrLive'
    BY DEF Types, Rooted, Selected, BuffersAreLast, DefaultAttrLive
  <2>2. LastRequestWins' BY DEF LastRequestWins
  <2>3. LoopSurvives' BY DEF LoopSurvives, Usable, DefaultAttrLive
  <2> QED BY <2>1, <2>2, <2>3
<1>2. CASE bluetooth_open
  BY <1>2 DEF bluetooth_open, Types, Rooted, Selected, BuffersAreLast, DefaultAttrLive,
              LastRequestWins, LoopSurvives
<1>3. CASE bluetooth_close
  BY <1>3 DEF bluetooth_close, Types, Rooted, Selected, BuffersAreLast, DefaultAttrLive,
              LastRequestWins, LoopSurvives
<1> QED BY <1>1, <1>2, <1>3

-----------------------------------------------------------------------------
(* Counting.                                                                *)

(* One more place.                                                          *)
LEMMA CountAdd ==
  ASSUME NEW n \in Nat, NEW S \in SUBSET (1 .. n)
  PROVE  /\ IsFiniteSet(S) /\ Cardinality(S) \in Nat
         /\ Cardinality(S \cup {n + 1}) = Cardinality(S) + 1
<1>1. IsFiniteSet(1 .. n) BY FS_Interval
<1>2. IsFiniteSet(S) BY <1>1, FS_Subset
<1>3. n + 1 \notin S OBVIOUS
<1> QED BY <1>2, <1>3, FS_AddElement, FS_CardinalityType

\* The place an element had before the one at place i was removed.
Before(j, i) == IF j < i THEN j ELSE j + 1

\* S are places of n elements, T those of S once the one at place i is removed.
Moved(S, T, n, i) ==
  /\ n \in Nat /\ i \in 1 .. n
  /\ S \in SUBSET (1 .. n) /\ T \in SUBSET (1 .. n - 1)
  /\ \A j \in 1 .. n - 1 : j \in T <=> Before(j, i) \in S

(* One place less: those behind it move down.                               *)
LEMMA CountRemove ==
  ASSUME NEW n, NEW i, NEW S, NEW T, Moved(S, T, n, i)
  PROVE  /\ Cardinality(T) \in Nat
         /\ Cardinality(S) = Cardinality(T) + (IF i \in S THEN 1 ELSE 0)
<1> USE DEF Moved, Before
<1> DEFINE U == S \ {i}
           f == [j \in T |-> IF j < i THEN j ELSE j + 1]
<1>1. IsFiniteSet(S) /\ IsFiniteSet(T)
  <2>1. IsFiniteSet(1 .. n) /\ IsFiniteSet(1 .. n - 1) BY FS_Interval
  <2> QED BY <2>1, FS_Subset
<1>2. \A j \in T : f[j] \in U BY DEF U
<1>3. f \in [T -> U] BY <1>2
<1>4. \A j, h \in T : f[j] = f[h] => j = h OBVIOUS
<1>5. ASSUME NEW x \in U PROVE \E j \in T : f[j] = x
  <2>1. CASE x < i
    <3>1. x \in 1 .. n - 1 /\ x \in T BY <2>1
    <3>2. f[x] = x BY <2>1, <3>1
    <3> QED BY <3>1, <3>2
  <2>2. CASE ~(x < i)
    <3>1. x \in 1 .. n /\ x # i BY DEF U
    <3>2. x - 1 \in 1 .. n - 1 /\ ~(x - 1 < i) /\ (x - 1) + 1 = x BY <2>2, <3>1
    <3>3. x - 1 \in T BY <3>2
    <3>4. f[x - 1] = x BY <3>2, <3>3
    <3> QED BY <3>3, <3>4
  <2> QED BY <2>1, <2>2
<1> HIDE DEF f, U
<1>6. f \in Bijection(T, U)
  BY <1>3, <1>4, <1>5 DEF Bijection, Injection, Surjection, IsInjective
<1>7. Cardinality(U) = Cardinality(T) BY <1>1, <1>6, FS_Bijection DEF ExistsBijection
<1>8. Cardinality(U) = IF i \in S THEN Cardinality(S) - 1 ELSE Cardinality(S)
  BY <1>1, FS_RemoveElement DEF U
<1>9. Cardinality(S) \in Nat /\ Cardinality(T) \in Nat BY <1>1, FS_CardinalityType
<1> QED BY <1>7, <1>8, <1>9

(* What is left when the i-th element is removed.                           *)
LEMMA RemoveAtOf ==
  ASSUME NEW M, NEW s \in Seq(M), NEW i \in 1 .. Len(s)
  PROVE  /\ RemoveAt(s, i) \in Seq(M) /\ Len(RemoveAt(s, i)) = Len(s) - 1
         /\ \A j \in 1 .. Len(s) - 1 :
              RemoveAt(s, i)[j] = IF j < i THEN s[j] ELSE s[j + 1]
<1> DEFINE a == SubSeq(s, 1, i - 1)
           b == SubSeq(s, i + 1, Len(s))
<1>1. /\ a \in Seq(M) /\ Len(a) = i - 1 /\ \A j \in 1 .. i - 1 : a[j] = s[j]
  OBVIOUS
<1>2. /\ b \in Seq(M) /\ Len(b) = Len(s) - i /\ \A j \in 1 .. Len(s) - i : b[j] = s[i + j]
  OBVIOUS
<1>3. RemoveAt(s, i) = a \o b BY DEF RemoveAt
<1> HIDE DEF a, b
<1>4. /\ a \o b \in Seq(M) /\ Len(a \o b) = Len(a) + Len(b)
      /\ \A j \in 1 .. Len(a) + Len(b) :
           (a \o b)[j] = IF j <= Len(a) THEN a[j] ELSE b[j - Len(a)]
  <2>1. a \in Seq(M) /\ b \in Seq(M) BY <1>1, <1>2
  <2> QED BY <2>1
<1>5. ASSUME NEW j \in 1 .. Len(s) - 1
      PROVE  (a \o b)[j] = IF j < i THEN s[j] ELSE s[j + 1]
  <2>1. CASE j < i
    <3>1. j \in 1 .. i - 1 /\ j <= Len(a) /\ j \in 1 .. Len(a) + Len(b) BY <1>1, <1>2, <2>1
    <3> QED BY <1>1, <1>4, <2>1, <3>1
  <2>2. CASE ~(j < i)
    <3>1. /\ ~(j <= Len(a)) /\ j \in 1 .. Len(a) + Len(b) /\ j - Len(a) \in 1 .. Len(s) - i
          /\ i + (j - Len(a)) = j + 1
      BY <1>1, <1>2, <2>2
    <3> QED BY <1>2, <1>4, <2>2, <3>1
  <2> QED BY <2>1, <2>2
<1> QED BY <1>1, <1>2, <1>3, <1>4, <1>5

\* The places of a queue that hold an element of W.
Places(s, W) == {i \in 1 .. Len(s) : s[i] \in W}

(* One more element.                                                        *)
LEMMA PlacesAppend ==
  ASSUME NEW M, NEW W, NEW s \in Seq(M), NEW e \in M
  PROVE  /\ Cardinality(Places(s, W)) \in Nat
         /\ Cardinality(Places(Append(s, e), W)) =
              Cardinality(Places(s, W)) + (IF e \in W THEN 1 ELSE 0)
<1> DEFINE n == Len(s)
           t == Append(s, e)
           S == Places(s, W)
           T == Places(t, W)
<1>1. n \in Nat /\ Len(t) = n + 1 /\ t[n + 1] = e /\ \A i \in 1 .. n : t[i] = s[i] OBVIOUS
<1>2. S \in SUBSET (1 .. n) BY DEF Places
<1>3. T = IF e \in W THEN S \cup {n + 1} ELSE S
  <2> HIDE DEF t, n
  <2>1. \A i \in 1 .. n + 1 : i \in 1 .. n \/ i = n + 1 BY <1>1
  <2>2. n + 1 \in 1 .. n + 1 /\ \A i \in 1 .. n : i \in 1 .. n + 1 BY <1>1
  <2>3. \A i : i \in T <=> i \in 1 .. n + 1 /\ t[i] \in W BY <1>1 DEF Places
  <2>4. \A i : i \in S <=> i \in 1 .. n /\ s[i] \in W BY DEF Places, n
  <2> HIDE DEF S, T
  <2>5. ASSUME e \in W PROVE T = S \cup {n + 1} BY <1>1, <2>1, <2>2, <2>3, <2>4, <2>5
  <2>6. ASSUME e \notin W PROVE T = S BY <1>1, <2>1, <2>2, <2>3, <2>4, <2>6
  <2> QED BY <2>5, <2>6
<1> HIDE DEF S, T, n
<1>4. Cardinality(S) \in Nat /\ Cardinality(S \cup {n + 1}) = Cardinality(S) + 1
  BY <1>1, <1>2, CountAdd
<1>5. Cardinality(T) = Cardinality(S) + (IF e \in W THEN 1 ELSE 0) BY <1>3, <1>4
<1> QED BY <1>4, <1>5 DEF S, T

\* t is s without the element at place i.
Without(t, s, i) ==
  /\ i \in 1 .. Len(s) /\ Len(t) = Len(s) - 1
  /\ \A j \in 1 .. Len(s) - 1 : t[j] = IF j < i THEN s[j] ELSE s[j + 1]

(* One element less.                                                        *)
LEMMA PlacesRemove ==
  ASSUME NEW M, NEW W, NEW s \in Seq(M), NEW t, NEW i, Without(t, s, i)
  PROVE  /\ Cardinality(Places(s, W)) \in Nat /\ Cardinality(Places(t, W)) \in Nat
         /\ Cardinality(Places(s, W)) =
              Cardinality(Places(t, W)) + (IF s[i] \in W THEN 1 ELSE 0)
<1> USE DEF Without
<1> DEFINE n == Len(s)
           S == Places(s, W)
           T == Places(t, W)
<1>1. n \in Nat OBVIOUS
<1>2. S \in SUBSET (1 .. n) /\ T \in SUBSET (1 .. n - 1) BY DEF Places
<1>3. ASSUME NEW j \in 1 .. n - 1 PROVE j \in T <=> Before(j, i) \in S
  <2>1. CASE j < i
    <3>1. j \in 1 .. n /\ t[j] = s[j] BY <1>1, <2>1
    <3> QED BY <2>1, <3>1 DEF Places, Before
  <2>2. CASE ~(j < i)
    <3>1. j + 1 \in 1 .. n /\ t[j] = s[j + 1] BY <1>1, <2>2
    <3> QED BY <2>2, <3>1 DEF Places, Before
  <2> QED BY <2>1, <2>2
<1>4. i \in S <=> s[i] \in W BY DEF Places
<1>a. \A j \in 1 .. n - 1 : j \in T <=> Before(j, i) \in S BY <1>3
<1>b. i \in 1 .. n OBVIOUS
<1> HIDE DEF S, T, n
<1>5. /\ Cardinality(T) \in Nat
      /\ Cardinality(S) = Cardinality(T) + (IF i \in S THEN 1 ELSE 0)
  <2>1. Moved(S, T, n, i) BY <1>1, <1>2, <1>a, <1>b DEF Moved
  <2> QED BY <2>1, CountRemove
<1>6. Cardinality(S) \in Nat BY <1>5
<1>7. Cardinality(S) = Cardinality(T) + (IF s[i] \in W THEN 1 ELSE 0) BY <1>4, <1>5
<1> QED BY <1>5, <1>6, <1>7 DEF S, T

\* The writes among the callbacks and among the calls.
WriteCalls == {c \in CallRecords : c.op = "write"}
AtWork == IF loop # None /\ loop.op = "write" THEN 1 ELSE 0

(* A callback that is queued.                                               *)
LEMMA QueuedAppend ==
  ASSUME idle \in Seq({"read", "write"}), NEW op, op \in {"read", "write"},
         idle' = Append(idle, op)
  PROVE  /\ Cardinality(WritesQueued) \in Nat
         /\ Cardinality(WritesQueued') =
              Cardinality(WritesQueued) + (IF op = "write" THEN 1 ELSE 0)
<1> DEFINE M == {"read", "write"}
<1>1. idle \in Seq(M) /\ op \in M OBVIOUS
<1>2. WritesQueued = Places(idle, {"write"})
  <2>1. DOMAIN idle = 1 .. Len(idle) BY <1>1
  <2> QED BY <2>1, Zenon DEF WritesQueued, Places
<1>3. WritesQueued' = Places(Append(idle, op), {"write"})
  <2>1. DOMAIN Append(idle, op) = 1 .. Len(Append(idle, op)) BY <1>1
  <2> QED BY <2>1, Zenon DEF WritesQueued, Places
<1> HIDE DEF M
<1>4. /\ Cardinality(Places(idle, {"write"})) \in Nat
      /\ Cardinality(Places(Append(idle, op), {"write"})) =
           Cardinality(Places(idle, {"write"})) + (IF op \in {"write"} THEN 1 ELSE 0)
  BY <1>1, PlacesAppend
<1> QED BY <1>2, <1>3, <1>4

(* A callback that is taken.                                                *)
LEMMA QueuedTail ==
  ASSUME idle \in Seq({"read", "write"}), idle # << >>, idle' = Tail(idle)
  PROVE  /\ Cardinality(WritesQueued) \in Nat /\ Cardinality(WritesQueued') \in Nat
         /\ Cardinality(WritesQueued) =
              Cardinality(WritesQueued') + (IF Head(idle) = "write" THEN 1 ELSE 0)
<1> DEFINE M == {"read", "write"}
           t == Tail(idle)
<1>1. idle \in Seq(M) OBVIOUS
<1>2. WritesQueued = Places(idle, {"write"})
  <2>1. DOMAIN idle = 1 .. Len(idle) BY <1>1
  <2> QED BY <2>1, Zenon DEF WritesQueued, Places
<1>3. WritesQueued' = Places(t, {"write"})
  <2>1. DOMAIN t = 1 .. Len(t) BY <1>1
  <2> QED BY <2>1, Zenon DEF WritesQueued, Places
<1> HIDE DEF M
<1>4. /\ 1 \in 1 .. Len(idle) /\ Len(t) = Len(idle) - 1 /\ Head(idle) = idle[1]
      /\ \A j \in 1 .. Len(idle) - 1 : t[j] = IF j < 1 THEN idle[j] ELSE idle[j + 1]
  BY <1>1
<1> HIDE DEF t
<1>5. /\ Cardinality(Places(idle, {"write"})) \in Nat /\ Cardinality(Places(t, {"write"})) \in Nat
      /\ Cardinality(Places(idle, {"write"})) =
           Cardinality(Places(t, {"write"})) + (IF idle[1] \in {"write"} THEN 1 ELSE 0)
  <2>1. Without(t, idle, 1) BY <1>4 DEF Without
  <2> QED BY <1>1, <2>1, PlacesRemove
<1> QED BY <1>2, <1>3, <1>4, <1>5

(* A call that is sent.                                                     *)
LEMMA CalledAppend ==
  ASSUME calls \in Seq(CallRecords), NEW c \in CallRecords, calls' = Append(calls, c)
  PROVE  /\ Cardinality(WritesCalled) \in Nat
         /\ Cardinality(WritesCalled') =
              Cardinality(WritesCalled) + (IF c.op = "write" THEN 1 ELSE 0)
<1>1. WritesCalled = Places(calls, WriteCalls)
  <2>1. DOMAIN calls = 1 .. Len(calls) /\ \A i \in 1 .. Len(calls) : calls[i] \in CallRecords
    OBVIOUS
  <2> QED BY <2>1, Zenon DEF WritesCalled, Places, WriteCalls
<1>2. WritesCalled' = Places(Append(calls, c), WriteCalls)
  <2> DEFINE t == Append(calls, c)
  <2>1. DOMAIN t = 1 .. Len(t) /\ \A i \in 1 .. Len(t) : t[i] \in CallRecords
    OBVIOUS
  <2>2. calls' = t OBVIOUS
  <2> HIDE DEF t
  <2> QED BY <2>1, <2>2, Zenon DEF WritesCalled, Places, WriteCalls, t
<1>3. /\ Cardinality(Places(calls, WriteCalls)) \in Nat
      /\ Cardinality(Places(Append(calls, c), WriteCalls)) =
           Cardinality(Places(calls, WriteCalls)) + (IF c \in WriteCalls THEN 1 ELSE 0)
  BY PlacesAppend
<1>4. c \in WriteCalls <=> c.op = "write" BY DEF WriteCalls
<1> QED BY <1>1, <1>2, <1>3, <1>4

(* A call that is answered.                                                 *)
LEMMA CalledRemove ==
  ASSUME calls \in Seq(CallRecords), NEW i \in 1 .. Len(calls), calls' = RemoveAt(calls, i)
  PROVE  /\ Cardinality(WritesCalled) \in Nat /\ Cardinality(WritesCalled') \in Nat
         /\ Cardinality(WritesCalled) =
              Cardinality(WritesCalled') + (IF calls[i].op = "write" THEN 1 ELSE 0)
<1> DEFINE t == RemoveAt(calls, i)
<1>1. WritesCalled = Places(calls, WriteCalls)
  <2>1. DOMAIN calls = 1 .. Len(calls) /\ \A h \in 1 .. Len(calls) : calls[h] \in CallRecords
    OBVIOUS
  <2> QED BY <2>1, Zenon DEF WritesCalled, Places, WriteCalls
<1>2. /\ t \in Seq(CallRecords) /\ Len(t) = Len(calls) - 1
      /\ \A j \in 1 .. Len(calls) - 1 : t[j] = IF j < i THEN calls[j] ELSE calls[j + 1]
  BY RemoveAtOf
<1>3. calls' = t OBVIOUS
<1> HIDE DEF t
<1>4. WritesCalled' = Places(t, WriteCalls)
  <2>1. DOMAIN t = 1 .. Len(t) /\ \A h \in 1 .. Len(t) : t[h] \in CallRecords
    <3>1. t \in Seq(CallRecords) BY <1>2
    <3> QED BY <3>1
  <2> QED BY <1>3, <2>1, Zenon DEF WritesCalled, Places, WriteCalls
<1>5. /\ Cardinality(Places(calls, WriteCalls)) \in Nat
      /\ Cardinality(Places(t, WriteCalls)) \in Nat
      /\ Cardinality(Places(calls, WriteCalls)) =
           Cardinality(Places(t, WriteCalls)) + (IF calls[i] \in WriteCalls THEN 1 ELSE 0)
  <2>1. Without(t, calls, i) BY <1>2 DEF Without
  <2> QED BY <2>1, PlacesRemove
<1>6. calls[i] \in WriteCalls <=> calls[i].op = "write"
  <2>1. calls[i] \in CallRecords OBVIOUS
  <2> QED BY <2>1 DEF WriteCalls
<1> QED BY <1>1, <1>4, <1>5, <1>6

(* The writes queued and those with bluetoothd are finitely many.           *)
LEMMA QueuedNat ==
  ASSUME idle \in Seq({"read", "write"})
  PROVE  Cardinality(WritesQueued) \in Nat
<1>1. DOMAIN idle = 1 .. Len(idle) /\ Len(idle) \in Nat OBVIOUS
<1>2. WritesQueued \in SUBSET (1 .. Len(idle)) BY <1>1 DEF WritesQueued
<1> QED BY <1>1, <1>2, CountAdd

(* Likewise with bluetoothd.                                                *)
LEMMA CalledNat ==
  ASSUME calls \in Seq(CallRecords)
  PROVE  Cardinality(WritesCalled) \in Nat
<1>1. DOMAIN calls = 1 .. Len(calls) /\ Len(calls) \in Nat OBVIOUS
<1>2. WritesCalled \in SUBSET (1 .. Len(calls)) BY <1>1 DEF WritesCalled
<1> QED BY <1>1, <1>2, CountAdd

(* An action that touches no request leaves the count alone.                *)
LEMMA QuietCount ==
  ASSUME CountInv, UNCHANGED <<idle, loop, calls, owed, crashed>>
  PROVE  owed' \in Nat /\ WritesAnswered'
BY DEF CountInv, WritesAnswered, WritesQueued, WritesCalled

(* The attributes and the device come and go.                               *)
LEMMA SignalsCount ==
  ASSUME IInv, CountInv, crashed = "no",
         \/ device_added \/ device_removed \/ set_default_device
         \/ \E a \in Attrs : gatt_add(a) \/ gatt_remove(a)
         \/ bluetooth_open \/ bluetooth_close
  PROVE  CountInv'
<1>1. UNCHANGED <<idle, loop, calls, owed, crashed>>
  BY DEF device_added, device_removed, set_default_device, gatt_add, gatt_remove,
         bluetooth_open, bluetooth_close, Signal, ghosts
<1>2. owed' \in Nat /\ WritesAnswered' BY <1>1, QuietCount
<1>3. UNCHANGED <<gatt_client_uuid, issued, thread, calls>>
  BY DEF device_added, device_removed, set_default_device, gatt_add, gatt_remove,
         bluetooth_open, bluetooth_close, Signal, ghosts, buffers
<1>4. opened' \in BOOLEAN /\ device' \in {"absent", "known", "default"}
  BY DEF device_added, device_removed, set_default_device, gatt_add, gatt_remove,
         bluetooth_open, bluetooth_close, Signal, CountInv, RestTypes
<1>5. default_attr' \in Attrs \cup {None}
  BY DEF device_added, device_removed, set_default_device, gatt_add, gatt_remove,
         bluetooth_open, bluetooth_close, Signal, CountInv, RestTypes
<1> QED BY <1>2, <1>3, <1>4, <1>5 DEF CountInv, RestTypes

(* A write adds one to the queue and one to what is owed, a read neither.   *)
LEMMA RequestCount ==
  ASSUME NEW u \in Uuids, IInv, CountInv, crashed = "no",
         rk_ble_client_read(u) \/ \E d \in Data : rk_ble_client_write(u, d)
  PROVE  CountInv'
<1>1. /\ UNCHANGED <<opened, device, default_attr, issued, thread, calls, loop, crashed>>
      /\ gatt_client_uuid' = u
  BY DEF rk_ble_client_read, rk_ble_client_write, lists
<1>2. RestTypes' BY <1>1 DEF CountInv, RestTypes
<1>3. idle \in Seq({"read", "write"}) BY DEF IInv, Types
<1>4. UNCHANGED WritesCalled BY <1>1 DEF WritesCalled
<1>5. owed \in Nat /\ owed = Cardinality(WritesQueued) + AtWork + Cardinality(WritesCalled)
  BY DEF CountInv, WritesAnswered, AtWork
<1>6. Cardinality(WritesCalled) \in Nat /\ AtWork \in Nat /\ UNCHANGED AtWork
  <2>1. Cardinality(WritesCalled) \in Nat BY CalledNat DEF CountInv, RestTypes
  <2> QED BY <1>1, <2>1 DEF AtWork
<1>7. CASE rk_ble_client_read(u)
  <2>1. idle' = Append(idle, "read") /\ owed' = owed BY <1>7 DEF rk_ble_client_read
  <2>2. /\ Cardinality(WritesQueued) \in Nat
        /\ Cardinality(WritesQueued') = Cardinality(WritesQueued)
    BY <1>3, <2>1, QueuedAppend
  <2>3. owed' = Cardinality(WritesQueued') + AtWork' + Cardinality(WritesCalled')
    BY <1>4, <1>5, <1>6, <2>1, <2>2
  <2> QED BY <1>2, <1>5, <2>1, <2>3 DEF CountInv, WritesAnswered, AtWork
<1>8. CASE \E d \in Data : rk_ble_client_write(u, d)
  <2>1. idle' = Append(idle, "write") /\ owed' = owed + 1 BY <1>8 DEF rk_ble_client_write
  <2>2. /\ Cardinality(WritesQueued) \in Nat
        /\ Cardinality(WritesQueued') = Cardinality(WritesQueued) + 1
    BY <1>3, <2>1, QueuedAppend
  <2>3. owed' \in Nat /\ owed' = Cardinality(WritesQueued') + AtWork' + Cardinality(WritesCalled')
    BY <1>4, <1>5, <1>6, <2>1, <2>2
  <2> QED BY <1>2, <2>3 DEF CountInv, WritesAnswered, AtWork
<1> QED BY <1>7, <1>8

(* A write taken from the queue is at work, or answered by WRITE_ERR.       *)
LEMMA SelectCount ==
  ASSUME IInv, CountInv, crashed = "no", gatt_client_select_attribute
  PROVE  CountInv'
<1> DEFINE q == Cardinality(WritesQueued)
           r == Cardinality(WritesQueued')
           c == Cardinality(WritesCalled)
           w == IF Head(idle) = "write" THEN 1 ELSE 0
<1>1. /\ UNCHANGED <<opened, device, gatt_client_uuid, thread, calls, crashed>>
      /\ loop = None /\ idle # << >> /\ idle' = Tail(idle)
  BY DEF gatt_client_select_attribute, lists, buffers
<1>2. idle \in Seq({"read", "write"}) BY DEF IInv, Types
<1>3. q \in Nat /\ r \in Nat /\ q = r + w BY <1>1, <1>2, QueuedTail
<1>4. UNCHANGED WritesCalled BY <1>1 DEF WritesCalled
<1>5. c \in Nat BY CalledNat DEF CountInv, RestTypes
<1> HIDE DEF q, r, c, w
<1>6. owed \in Nat /\ owed = q + c
  BY <1>1, <1>3, <1>5 DEF CountInv, WritesAnswered, q, c
<1>7. Request \in Requests /\ Request.op = Head(idle)
  <2>1. asked \in Requests /\ asked # None BY <1>1 DEF IInv, BuffersAreLast, Types
  <2>2. gatt_client_uuid \in Uuids BY <2>1 DEF IInv, BuffersAreLast, Requests
  <2>3. Head(idle) \in {"read", "write"} BY <1>1, <1>2
  <2> QED BY <2>2, <2>3 DEF Request, Requests, IInv, Types
<1>8. CASE gatt_client_uuid \in attrs
  <2>1. /\ loop' = Request /\ UNCHANGED <<issued, owed>>
        /\ default_attr' = IF device = "default" THEN gatt_client_uuid ELSE None
    BY <1>8 DEF gatt_client_select_attribute, set_default_attribute
  <2>2. RestTypes' BY <1>1, <1>8, <2>1 DEF CountInv, RestTypes, IInv, Types
  <2>3. AtWork' = w
    BY <1>7, <2>1, ClientAssumption DEF AtWork, w
  <2>4. owed' = r + AtWork' + c BY <1>3, <1>5, <1>6, <2>1, <2>3
  <2>5. owed' = Cardinality(WritesQueued') + AtWork' + Cardinality(WritesCalled')
    BY <1>4, <2>4 DEF r, c
  <2> QED BY <1>6, <2>1, <2>2, <2>5 DEF CountInv, WritesAnswered, AtWork
<1>9. CASE gatt_client_uuid \notin attrs
  <2>1. /\ issued' = Request /\ UNCHANGED <<default_attr, loop>>
        /\ owed' = IF Request.op = "write" THEN owed - 1 ELSE owed
    BY <1>9 DEF gatt_client_select_attribute, Refuse
  <2>2. RestTypes' BY <1>1, <1>7, <2>1 DEF CountInv, RestTypes
  <2>3. AtWork' = 0 BY <1>1, <2>1 DEF AtWork
  <2>4. owed' \in Nat /\ owed' = r + AtWork' + c BY <1>3, <1>5, <1>6, <1>7, <2>1, <2>3 DEF w
  <2>5. owed' = Cardinality(WritesQueued') + AtWork' + Cardinality(WritesCalled')
    BY <1>4, <2>4 DEF r, c
  <2> QED BY <2>2, <2>4, <2>5 DEF CountInv, WritesAnswered, AtWork
<1> QED BY <1>8, <1>9

(* The write at work goes to bluetoothd, or is answered, or the process     *)
(* ends with it.                                                            *)
LEMMA LoopCount ==
  ASSUME IInv, CountInv, crashed = "no", LoopCall
  PROVE  CountInv'
<1> DEFINE q == Cardinality(WritesQueued)
           c == Cardinality(WritesCalled)
           w == IF loop.op = "write" THEN 1 ELSE 0
<1>1. /\ UNCHANGED <<opened, device, default_attr, gatt_client_uuid, thread, idle>>
      /\ loop # None /\ loop' = None
  BY DEF LoopCall, lists, buffers
<1>2. UNCHANGED WritesQueued /\ AtWork' = 0 /\ AtWork = w BY <1>1 DEF WritesQueued, AtWork
<1>3. q \in Nat /\ c \in Nat
  <2>1. q \in Nat BY QueuedNat DEF IInv, Types
  <2> QED BY <2>1, CalledNat DEF CountInv, RestTypes
<1>4. owed \in Nat /\ owed = q + w + c
  BY <1>2 DEF CountInv, WritesAnswered, AtWork
<1>5. loop \in Requests BY <1>1 DEF IInv, Types
<1> HIDE DEF q, c, w
<1>6. CASE ~Usable
  <2>1. crashed' = "loop" /\ UNCHANGED <<calls, issued, owed>> BY <1>6 DEF LoopCall
  <2> QED BY <1>1, <1>4, <2>1 DEF CountInv, RestTypes, WritesAnswered
<1>7. CASE Usable /\ default_attr \in Services
  <2>1. /\ issued' = [loop EXCEPT !.uuid = default_attr] /\ UNCHANGED <<calls, crashed>>
        /\ owed' = IF loop.op = "write" THEN owed - 1 ELSE owed
    BY <1>5, <1>7 DEF LoopCall, Refuse, Requests
  <2>2. issued' \in Requests BY <1>5, <1>7, <2>1 DEF Requests, Uuids, Attrs
  <2>3. RestTypes' BY <1>1, <2>1, <2>2 DEF CountInv, RestTypes
  <2>4. owed' \in Nat /\ owed' = q + AtWork' + c BY <1>2, <1>3, <1>4, <2>1 DEF w
  <2>5. UNCHANGED WritesCalled BY <2>1 DEF WritesCalled
  <2>6. owed' = Cardinality(WritesQueued') + AtWork' + Cardinality(WritesCalled')
    BY <1>2, <2>4, <2>5 DEF q, c
  <2> QED BY <2>3, <2>4, <2>6 DEF CountInv, WritesAnswered, AtWork
<1>8. CASE Usable /\ default_attr \notin Services
  <2> DEFINE m == [op |-> loop.op, attr |-> default_attr, data |-> loop.data]
  <2>1. /\ issued' = [loop EXCEPT !.uuid = default_attr] /\ UNCHANGED <<owed, crashed>>
        /\ calls' = Append(calls, m)
    BY <1>8 DEF LoopCall, Call
  <2>2. default_attr \in Attrs BY <1>8 DEF Usable, IInv, Types
  <2>3. issued' \in Requests BY <1>5, <2>1, <2>2 DEF Requests, Uuids
  <2>4. m \in CallRecords /\ m.op = loop.op
    BY <1>5, <2>2 DEF Requests, CallRecords, Methods
  <2>5. calls \in Seq(CallRecords) BY DEF CountInv, RestTypes
  <2> HIDE DEF m
  <2>6. calls' \in Seq(CallRecords) BY <2>1, <2>4, <2>5
  <2>7. RestTypes' BY <1>1, <2>3, <2>6 DEF CountInv, RestTypes
  <2>8. Cardinality(WritesCalled') = c + w BY <2>1, <2>4, <2>5, CalledAppend DEF c, w
  <2>9. w \in Nat BY DEF w
  <2>10. owed' = q + AtWork' + Cardinality(WritesCalled')
    BY <1>2, <1>3, <1>4, <2>1, <2>8, <2>9
  <2>11. owed' = Cardinality(WritesQueued') + AtWork' + Cardinality(WritesCalled')
    BY <1>2, <2>10 DEF q
  <2> QED BY <1>4, <2>1, <2>7, <2>11 DEF CountInv, WritesAnswered, AtWork
<1> QED BY <1>6, <1>7, <1>8

(* The direct calls of an application thread send no write.                 *)
LEMMA DirectCount ==
  ASSUME IInv, CountInv, crashed = "no",
         \/ \E u \in Uuids : \E f \in {"notify", "is_notifying"} : Direct(f, u)
         \/ DirectSet \/ DirectUse
  PROVE  CountInv'
<1>1. ASSUME NEW u \in Uuids, NEW f \in {"notify", "is_notifying"}, Direct(f, u)
      PROVE  CountInv'
  <2>1. /\ UNCHANGED <<idle, loop, calls, owed, crashed>>
        /\ UNCHANGED <<opened, device, default_attr, gatt_client_uuid, issued>>
        /\ thread' = [call |-> f, attr |-> u, set |-> FALSE] /\ u \in attrs
    BY <1>1 DEF Direct, lists, buffers, ghosts
  <2>2. thread' \in DirectCalls BY <2>1 DEF DirectCalls, IInv, Types
  <2>3. RestTypes' BY <2>1, <2>2 DEF CountInv, RestTypes
  <2> QED BY <2>1, <2>3, QuietCount DEF CountInv
<1>2. CASE DirectSet
  <2>1. /\ UNCHANGED <<idle, loop, calls, owed, crashed>>
        /\ UNCHANGED <<opened, device, gatt_client_uuid, issued>>
        /\ thread # None /\ thread' = [thread EXCEPT !.set = TRUE]
        /\ default_attr' \in {thread.attr, None}
    BY <1>2 DEF DirectSet, lists, buffers, ghosts, set_default_attribute
  <2>2. thread \in DirectCalls BY <2>1 DEF CountInv, RestTypes
  <2>3. thread' \in DirectCalls /\ thread.attr \in Attrs BY <2>1, <2>2 DEF DirectCalls
  <2>4. RestTypes' BY <2>1, <2>3 DEF CountInv, RestTypes
  <2> QED BY <2>1, <2>4, QuietCount DEF CountInv
<1>3. CASE DirectUse
  <2> DEFINE m == [op |-> "notify", attr |-> default_attr, data |-> None]
  <2>1. /\ UNCHANGED <<idle, loop, owed>> /\ thread' = None
        /\ UNCHANGED <<opened, device, default_attr, gatt_client_uuid, issued>>
        /\ calls' = calls \/ (default_attr \in attrs /\ calls' = Append(calls, m))
    <3>1. UNCHANGED <<idle, loop, owed>> /\ thread' = None BY <1>3 DEF DirectUse, ghosts
    <3>2. UNCHANGED <<opened, device, default_attr, gatt_client_uuid, issued>>
      BY <1>3 DEF DirectUse, lists, buffers, ghosts
    <3>3. \/ UNCHANGED calls
          \/ default_attr \in attrs \cap Characteristics /\ Call("notify", None)
      BY <1>3, Zenon DEF DirectUse
    <3>4. calls' = calls \/ (default_attr \in attrs /\ calls' = Append(calls, m))
      BY <3>3 DEF Call
    <3> QED BY <3>1, <3>2, <3>4
  <2>2. calls \in Seq(CallRecords) BY DEF CountInv, RestTypes
  <2>3. /\ calls' \in Seq(CallRecords)
        /\ Cardinality(WritesCalled') = Cardinality(WritesCalled)
    <3>1. CASE calls' = calls BY <2>2, <3>1 DEF WritesCalled
    <3>2. CASE default_attr \in attrs /\ calls' = Append(calls, m)
      <4>1. m \in CallRecords /\ m.op = "notify"
        BY <3>2 DEF CallRecords, Methods, IInv, Types
      <4> HIDE DEF m
      <4>2. calls' \in Seq(CallRecords) BY <2>2, <3>2, <4>1
      <4>3. /\ Cardinality(WritesCalled) \in Nat
            /\ Cardinality(WritesCalled') =
                 Cardinality(WritesCalled) + (IF m.op = "write" THEN 1 ELSE 0)
        BY <2>2, <3>2, <4>1, CalledAppend
      <4>4. (IF m.op = "write" THEN 1 ELSE 0) = 0 BY <4>1
      <4>5. Cardinality(WritesCalled') = Cardinality(WritesCalled) BY <4>3, <4>4
      <4> QED BY <4>2, <4>5
    <3> QED BY <2>1, <3>1, <3>2
  <2>4. RestTypes' BY <2>1, <2>3 DEF CountInv, RestTypes
  <2>5. UNCHANGED WritesQueued /\ UNCHANGED AtWork BY <2>1 DEF WritesQueued, AtWork
  <2>6. owed' = Cardinality(WritesQueued') + AtWork' + Cardinality(WritesCalled')
    BY <2>1, <2>3, <2>5 DEF CountInv, WritesAnswered, AtWork
  <2> QED BY <2>1, <2>4, <2>6 DEF CountInv, WritesAnswered, AtWork
<1> QED BY <1>1, <1>2, <1>3

(* An answer settles one write, or the answer to a notify call ends the     *)
(* process (read_reply, write_reply, notify_reply).                         *)
LEMMA ReplyCount ==
  ASSUME IInv, CountInv, crashed = "no", NEW i \in DOMAIN calls, Reply(i)
  PROVE  CountInv'
<1> DEFINE q == Cardinality(WritesQueued)
           c == Cardinality(WritesCalled)
           d == Cardinality(WritesCalled')
           w == IF calls[i].op = "write" THEN 1 ELSE 0
<1>1. calls \in Seq(CallRecords) /\ i \in 1 .. Len(calls)
  <2>1. calls \in Seq(CallRecords) BY DEF CountInv, RestTypes
  <2> QED BY <2>1
<1>2. /\ UNCHANGED <<opened, device, default_attr, gatt_client_uuid, thread, idle, issued, loop>>
      /\ calls' = RemoveAt(calls, i) /\ loop = None
      /\ owed' = IF calls[i].op = "write" THEN owed - 1 ELSE owed
  BY DEF Reply, lists, buffers
<1>3. calls' \in Seq(CallRecords) BY <1>1, <1>2, RemoveAtOf
<1>4. RestTypes' BY <1>2, <1>3 DEF CountInv, RestTypes
<1>5. c \in Nat /\ d \in Nat /\ c = d + w BY <1>1, <1>2, CalledRemove
<1>6. q \in Nat BY QueuedNat DEF IInv, Types
<1>7. UNCHANGED WritesQueued /\ AtWork' = 0 BY <1>2 DEF WritesQueued, AtWork
<1> HIDE DEF q, c, d, w
<1>8. owed \in Nat /\ owed = q + c
  BY <1>2, <1>5, <1>6 DEF CountInv, WritesAnswered, q, c
<1>9. owed' \in Nat /\ owed' = q + d BY <1>2, <1>5, <1>6, <1>8 DEF w
<1>10. owed' = Cardinality(WritesQueued') + AtWork' + Cardinality(WritesCalled')
  BY <1>5, <1>6, <1>7, <1>9 DEF q, d
<1> QED BY <1>4, <1>9, <1>10 DEF CountInv, WritesAnswered, AtWork

(* IInv holds in every reachable state.                                     *)
THEOREM Invariance == Spec => []IInv
<1>1. Init => IInv
  <2> SUFFICES ASSUME Init PROVE IInv OBVIOUS
  <2>1. Types
    <3>1. idle \in Seq({"read", "write"}) BY DEF Init
    <3>2. overtaken \in BOOLEAN /\ stray \in BOOLEAN BY DEF Init
    <3>3. crashed \in {"no", "loop", "thread"} BY DEF Init
    <3> QED BY <3>1, <3>2, <3>3 DEF Init, Types
  <2>2. Rooted /\ Selected /\ BuffersAreLast BY DEF Init, Rooted, Selected, BuffersAreLast
  <2>3. DefaultAttrLive /\ LastRequestWins /\ LoopSurvives
    BY DEF Init, DefaultAttrLive, LastRequestWins, LoopSurvives
  <2> QED BY <2>1, <2>2, <2>3 DEF IInv
<1>2. IInv /\ [Next]_vars => IInv'
  <2> SUFFICES ASSUME IInv, [Next]_vars PROVE IInv' OBVIOUS
  <2>1. CASE crashed = "no" /\ Step
    BY <2>1, SignalsStep, RequestStep, SelectStep, LoopCallStep, DirectStep,
       SessionStep DEF Step
  <2>2. CASE UNCHANGED vars
    BY <2>2 DEF vars, lists, buffers, ghosts, IInv, Types, Rooted, Selected,
                BuffersAreLast, DefaultAttrLive, LastRequestWins, LoopSurvives
  <2> QED BY <2>1, <2>2 DEF Next
<1> QED BY <1>1, <1>2, PTL DEF Spec

(* In whatever order attributes come and go, what the application is shown  *)
(* (gatt_client_get_service_info) is exactly what a uuid can select.        *)
THEOREM AttributesRootedHolds == Spec => []AttributesRooted
<1>1. IInv => AttributesRooted
  <2> SUFFICES ASSUME Types, Rooted PROVE AttributesRooted BY DEF IInv
  <2> DEFINE ss == attrs \cap Services
             cs == Below(ss) \cap Characteristics
             ds == Below(cs) \cap Descriptors
  <2>1. \A a \in attrs \cap Characteristics : a \in cs
    BY ClientAssumption DEF Below, Rooted
  <2>2. \A a \in attrs \cap Descriptors : a \in ss \/ a \in ds
    <3> SUFFICES ASSUME NEW a \in attrs \cap Descriptors, a \notin Services
                 PROVE  a \in ds
      OBVIOUS
    <3>1. Parent[a] \in attrs \cap Characteristics BY ClientAssumption DEF Rooted
    <3> QED BY <2>1, <3>1 DEF Below
  <2>3. ss \cup cs \cup ds \subseteq attrs BY DEF Below
  <2>4. attrs \subseteq ss \cup cs \cup ds BY <2>1, <2>2 DEF Types, Attrs
  <2>5. get_list_attributes = attrs BY <2>3, <2>4 DEF get_list_attributes
  <2> QED BY <2>5 DEF AttributesRooted, gatt_client_get_service_info, Rooted
<1> QED BY <1>1, Invariance, PTL

(* default_attr never refers to a freed proxy, unless an application thread *)
(* set it to an attribute it had found before that one went away.           *)
THEOREM DefaultAttrLiveHolds == Spec => []DefaultAttrLive
<1>1. IInv => DefaultAttrLive BY DEF IInv
<1> QED BY <1>1, Invariance, PTL

(* The shared buffers of bt_hal.c never send the last request elsewhere.    *)
THEOREM LastRequestWinsHolds == Spec => []LastRequestWins
<1>1. IInv => LastRequestWins BY DEF IInv
<1> QED BY <1>1, Invariance, PTL

(* With a default device and no thread interfering the main loop survives.  *)
THEOREM LoopSurvivesHolds == Spec => []LoopSurvives
<1>1. IInv => LoopSurvives BY DEF IInv
<1> QED BY <1>1, Invariance, PTL

(* The types and the count hold in every reachable state.                   *)
LEMMA CountInvariance == Spec => []CountInv
<1>1. Init => CountInv
  <2> SUFFICES ASSUME Init PROVE CountInv OBVIOUS
  <2>1. calls = << >> /\ idle = << >> /\ loop = None /\ owed = 0 BY DEF Init
  <2>2. WritesQueued = {} /\ WritesCalled = {} BY <2>1 DEF WritesQueued, WritesCalled
  <2>3. WritesAnswered BY <2>1, <2>2, FS_EmptySet DEF WritesAnswered
  <2>4. calls \in Seq(CallRecords) BY <2>1
  <2>5. device \in {"absent", "known", "default"} BY DEF Init
  <2>6. /\ opened \in BOOLEAN /\ default_attr = None /\ gatt_client_uuid = None
        /\ issued = None /\ thread = None
    BY DEF Init
  <2> QED BY <2>1, <2>3, <2>4, <2>5, <2>6 DEF CountInv, RestTypes
<1>2. IInv /\ CountInv /\ [Next]_vars => CountInv'
  <2> SUFFICES ASSUME IInv, CountInv, [Next]_vars PROVE CountInv' OBVIOUS
  <2>1. CASE crashed = "no" /\ Step
    BY <2>1, SignalsCount, RequestCount, SelectCount, LoopCount, DirectCount, ReplyCount
       DEF Step
  <2>2. CASE UNCHANGED vars
    <3>1. UNCHANGED <<idle, loop, calls, owed, crashed>> BY <2>2 DEF vars, ghosts
    <3>2. RestTypes' BY <2>2 DEF vars, lists, buffers, ghosts, CountInv, RestTypes
    <3> QED BY <3>1, <3>2, QuietCount DEF CountInv
  <2> QED BY <2>1, <2>2 DEF Next
<1> QED BY <1>1, <1>2, Invariance, PTL DEF Spec

(* Every write rk_ble_client_write was asked for is answered exactly once:  *)
(* those the application has no answer for are queued, at work in the main  *)
(* loop, or with bluetoothd.                                                *)
THEOREM WritesAnsweredHolds == Spec => []WritesAnswered
<1>1. CountInv => WritesAnswered BY DEF CountInv
<1> QED BY <1>1, CountInvariance, PTL

(* Every variable of the client keeps its type, and no write is answered    *)
(* more often than it was asked for.                                        *)
THEOREM ClientTypes == Spec => []TypeOK
<1>1. IInv /\ CountInv => TypeOK
  <2> SUFFICES ASSUME IInv, CountInv PROVE TypeOK OBVIOUS
  <2>1. /\ {opened, overtaken, stray} \subseteq BOOLEAN /\ crashed \in {"no", "loop", "thread"}
        /\ device \in {"absent", "known", "default"}
        /\ attrs \subseteq Attrs /\ default_attr \in Attrs \cup {None}
        /\ gatt_client_uuid \in Uuids \cup {None} /\ rk_gatt_data \in Data \cup {None}
    BY DEF IInv, Types, CountInv, RestTypes
  <2>2. /\ {loop, asked, issued} \subseteq Requests \cup {None} /\ owed \in Nat
        /\ idle \in Seq({"read", "write"})
    BY DEF IInv, Types, CountInv, RestTypes
  <2>3. thread \in [call : {"notify", "is_notifying"}, attr : Attrs, set : BOOLEAN] \cup {None}
    BY DEF CountInv, RestTypes, DirectCalls
  <2>4. calls \in Seq([op : Methods, attr : Attrs, data : Data \cup {None}])
    BY DEF CountInv, RestTypes, CallRecords
  <2> QED BY <2>1, <2>2, <2>3, <2>4 DEF TypeOK
<1> QED BY <1>1, Invariance, CountInvariance, PTL
====
