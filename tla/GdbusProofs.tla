----------------------------- MODULE GdbusProofs -----------------------------
(***************************************************************************)
(* The client of the gdbus library mirrors the service, for any set of     *)
(* objects and values and any bound on the messages in flight.             *)
(*                                                                         *)
(* The invariant looks at one object at a time.  The messages in flight,   *)
(* received one after the other, will take its proxy through a course of   *)
(* values: the course ends at the value the service has, unless another    *)
(* GetManagedObjects is still to be answered, and an announcement or a     *)
(* reply meets either no proxy or the value it brings.  The last part is   *)
(* about the news of the service's name.                                   *)
(***************************************************************************)
EXTENDS Gdbus, FiniteSetTheorems, WellFoundedInduction, TLAPS

Val == Values \cup {None}

\* A message that makes a proxy for o, and the value it brings.
Shows(m, o) ==
  \/ m.type = "added" /\ m.obj = o
  \/ m.type = "objects" /\ m.objs[o] # None
Shown(m, o) == IF m.type = "added" THEN m.val ELSE m.objs[o]

\* A message that frees the proxy of o.
Frees(m, o) ==
  \/ m.type = "removed" /\ m.obj = o
  \/ m.type = "owner" /\ ~m.up

\* The proxy of o after the message, if it was p before.
Apply(m, o, p) ==
  IF Shows(m, o) THEN Shown(m, o)
  ELSE IF Frees(m, o) THEN None
  ELSE IF m.type = "changed" /\ m.obj = o /\ p # None THEN m.val
  ELSE p

\* The values the proxy of o, now p, takes as the messages of s are received.
Courses(s, o, p) ==
  {w \in [0 .. Len(s) -> Val] :
     w[0] = p /\ \A i \in 1 .. Len(s) : w[i] = Apply(s[i], o, w[i - 1])}

\* The end c of a course fits the value v of the service: unless the object is
\* left over the proxy is missing or right, and if the object is exported the
\* proxy is right or the client is going to ask for all of them.
Fits(c, v, left, asks) ==
  /\ ~left => c \in {None, v}
  /\ v # None => c = v \/ asks

\* What shows the object finds no proxy or the value it brings.
Repeats(s, o, w) ==
  \A k \in 1 .. Len(s) : Shows(s[k], o) => w[k - 1] \in {None, Shown(s[k], o)}

OnCourse(s, o, p, v, left, asks) ==
  \E w \in Courses(s, o, p) :
    Fits(w[Len(s)], v, left, asks) /\ (~left => Repeats(s, o, w))

\* The client asks, or will ask, for the objects after the last reply in flight.
IsReply(m) == m.type \in {"objects", "error"}
Connecting(m) == m.type \in {"owner", "reply"} /\ m.up
Asks ==
  \/ names \/ request
  \/ \E i \in 1 .. Len(chan) :
       Connecting(chan[i]) /\ \A j \in 1 .. Len(chan) : j > i => ~IsReply(chan[j])

Types ==
  /\ up \in BOOLEAN /\ client \in BOOLEAN /\ connected \in BOOLEAN
  /\ names \in BOOLEAN /\ request \in BOOLEAN /\ get_objects_call \in BOOLEAN
  /\ leftover \subseteq Objects
  /\ objs \in View /\ proxies \in View /\ told \in View
  /\ chan \in Seq(Message)

\* Nothing is exported without the name, and nothing is known without a client.
Bare ==
  /\ ~up => objs = Nothing
  /\ ~client => /\ proxies = Nothing /\ told = Nothing /\ leftover = {}
                /\ ~names /\ ~request /\ ~get_objects_call /\ ~connected
                /\ \A i \in 1 .. Len(chan) : chan[i].type \in Signals \cup {"unheard"}

\* One GetManagedObjects at most is unanswered, asked or answered on the way.
OneCall ==
  /\ \A i, j \in 1 .. Len(chan) : IsReply(chan[i]) /\ IsReply(chan[j]) => i = j
  /\ request => \A i \in 1 .. Len(chan) : ~IsReply(chan[i])
  /\ get_objects_call <=> request \/ \E i \in 1 .. Len(chan) : IsReply(chan[i])

Following ==
  client => \A o \in Objects :
              OnCourse(chan, o, proxies[o], objs[o], o \in leftover, Asks)

IInv == Types /\ Bare /\ OneCall /\ Following /\ ToldAll

-----------------------------------------------------------------------------
(* Messages, and the courses they set.                                     *)

\* What a message of each type carries.
LEMMA Carries ==
  ASSUME NEW m \in Message
  PROVE  /\ m.type \in {"owner", "reply", "added", "changed", "removed",
                        "objects", "error", "unheard"}
         /\ m.type \in {"owner", "reply"} => m.up \in BOOLEAN
         /\ m.type \in {"added", "changed"} => m.obj \in Objects /\ m.val \in Values
         /\ m.type = "removed" => m.obj \in Objects
         /\ m.type = "objects" => m.objs \in View
BY DEF Message

\* A message leaves a proxy with a value, or without one.
LEMMA ApplyType ==
  ASSUME NEW m \in Message, NEW o \in Objects, NEW p \in Val
  PROVE  Apply(m, o, p) \in Val
BY Carries DEF Apply, Shows, Shown, Frees, Val, View

\* A message put at the end makes every course longer by its own effect.
LEMMA CourseAppend ==
  ASSUME NEW s \in Seq(Message), NEW m \in Message, NEW o \in Objects,
         NEW p \in Val, NEW w \in Courses(s, o, p)
  PROVE  \E x \in Courses(Append(s, m), o, p) :
           /\ \A i \in 0 .. Len(s) : x[i] = w[i]
           /\ x[Len(s) + 1] = Apply(m, o, w[Len(s)])
PROOF
  <1> DEFINE n == Len(s)
             a == Apply(m, o, w[n])
             x == [i \in 0 .. n + 1 |-> IF i = n + 1 THEN a ELSE w[i]]
  <1>1. n \in Nat /\ Len(Append(s, m)) = n + 1 /\ Append(s, m)[n + 1] = m
        /\ \A i \in 1 .. n : Append(s, m)[i] = s[i]
    OBVIOUS
  <1>2. w \in [0 .. n -> Val] /\ w[0] = p /\ \A i \in 1 .. n : w[i] = Apply(s[i], o, w[i - 1])
    BY DEF Courses
  <1>3. a \in Val
    BY <1>1, <1>2, ApplyType
  <1> HIDE DEF n, a
  <1>4. x \in [0 .. n + 1 -> Val] /\ x[0] = p /\ x[n + 1] = a
        /\ \A i \in 0 .. n : x[i] = w[i]
    BY <1>1, <1>2, <1>3
  <1> HIDE DEF x
  <1>5. ASSUME NEW i \in 1 .. n + 1
        PROVE  x[i] = Apply(Append(s, m)[i], o, x[i - 1])
    <2>1. CASE i = n + 1
      <3>1. x[n] = w[n] /\ i - 1 = n
        BY <1>1, <1>4, <2>1
      <3> QED BY <1>1, <1>4, <2>1, <3>1 DEF a, n
    <2>2. CASE i # n + 1
      <3>1. i \in 1 .. n /\ i - 1 \in 0 .. n /\ i \in 0 .. n
        BY <1>1, <2>2
      <3> QED BY <1>1, <1>2, <1>4, <3>1
    <2> QED BY <2>1, <2>2
  <1>6. x \in Courses(Append(s, m), o, p)
    BY <1>1, <1>4, <1>5 DEF Courses
  <1> QED BY <1>4, <1>6 DEF a, n

\* The rest of a course is a course of the rest of the messages.
LEMMA CourseTail ==
  ASSUME NEW s \in Seq(Message), s # << >>, NEW o, NEW p,
         NEW w \in Courses(s, o, p)
  PROVE  \E x \in Courses(Tail(s), o, Apply(Head(s), o, p)) :
           /\ Len(Tail(s)) = Len(s) - 1
           /\ \A i \in 0 .. Len(s) - 1 : x[i] = w[i + 1]
PROOF
  <1> DEFINE n == Len(s)
             x == [i \in 0 .. n - 1 |-> w[i + 1]]
  <1>1. n \in Nat \ {0} /\ Len(Tail(s)) = n - 1 /\ Head(s) = s[1]
        /\ \A i \in 1 .. n - 1 : Tail(s)[i] = s[i + 1]
    OBVIOUS
  <1>2. w \in [0 .. n -> Val] /\ w[0] = p /\ \A i \in 1 .. n : w[i] = Apply(s[i], o, w[i - 1])
    BY DEF Courses
  <1> HIDE DEF n
  <1>3. w[1] = Apply(Head(s), o, p)
    <2>1. 1 \in 1 .. n
      BY <1>1
    <2>2. w[1] = Apply(s[1], o, w[1 - 1])
      BY <1>2, <2>1
    <2> QED BY <1>1, <1>2, <2>2
  <1>4. x \in [0 .. n - 1 -> Val] /\ x[0] = w[1] /\ \A i \in 0 .. n - 1 : x[i] = w[i + 1]
    BY <1>1, <1>2
  <1> HIDE DEF x
  <1>5. ASSUME NEW i \in 1 .. n - 1
        PROVE  x[i] = Apply(Tail(s)[i], o, x[i - 1])
    <2>1. i + 1 \in 1 .. n /\ i \in 0 .. n - 1 /\ i - 1 \in 0 .. n - 1
      BY <1>1
    <2>2. w[i + 1] = Apply(s[i + 1], o, w[(i + 1) - 1]) /\ (i + 1) - 1 = i
      BY <1>2, <2>1
    <2>3. x[i - 1] = w[(i - 1) + 1] /\ (i - 1) + 1 = i
      BY <1>4, <2>1
    <2> QED BY <1>1, <1>4, <2>1, <2>2, <2>3
  <1>6. x \in Courses(Tail(s), o, Apply(Head(s), o, p))
    BY <1>1, <1>3, <1>4, <1>5 DEF Courses
  <1> QED BY <1>1, <1>4, <1>6 DEF n

\* Whatever is in flight, a proxy has a course.
LEMMA CourseExists ==
  ASSUME NEW s \in Seq(Message), NEW o \in Objects, NEW p \in Val
  PROVE  Courses(s, o, p) # {}
PROOF
  <1> DEFINE F(n) == {w \in [0 .. n -> Val] :
                       w[0] = p /\ \A i \in 1 .. n : w[i] = Apply(s[i], o, w[i - 1])}
             T == {n \in 0 .. Len(s) : F(n) = {}}
             R == {q \in Nat \X Nat : q[1] < q[2]}
  <1>1. SUFFICES T = {}
    BY DEF Courses
  <1>2. IsWellFoundedOn(R, Nat)
    BY NatLessThanWellFounded DEF OpToRel
  <1>3. SUFFICES ASSUME T # {} PROVE FALSE
    OBVIOUS
  <1>4. T \subseteq Nat
    OBVIOUS
  <1>5. \A m, n \in Nat : m < n => <<m, n>> \in R
    OBVIOUS
  <1> HIDE DEF R, T
  <1>6. PICK n \in T : \A m \in T : ~(<<m, n>> \in R)
    BY <1>2, <1>3, <1>4, WFMin
  <1>7. n \in 0 .. Len(s) /\ F(n) = {}
    BY DEF T
  <1>8. n # 0
    <2>1. [i \in 0 .. 0 |-> p] \in F(0)
      OBVIOUS
    <2> QED BY <1>7, <2>1
  <1>9. PICK w : w \in F(n - 1)
    <2>1. n - 1 \in 0 .. Len(s) /\ n - 1 \in Nat /\ n - 1 < n
      BY <1>7, <1>8
    <2>2. n - 1 \notin T
      BY <1>4, <1>5, <1>6, <2>1
    <2> QED BY <2>1, <2>2 DEF T
  <1> DEFINE a == Apply(s[n], o, w[n - 1])
             x == [i \in 0 .. n |-> IF i = n THEN a ELSE w[i]]
  <1>10. a \in Val
    <2>1. s[n] \in Message /\ w[n - 1] \in Val
      BY <1>7, <1>8, <1>9
    <2> QED BY <2>1, ApplyType
  <1> HIDE DEF a
  <1>11. x \in [0 .. n -> Val] /\ x[0] = p /\ x[n] = a /\ \A i \in 0 .. n - 1 : x[i] = w[i]
    BY <1>7, <1>8, <1>9, <1>10
  <1> HIDE DEF x
  <1>12. ASSUME NEW i \in 1 .. n
         PROVE  x[i] = Apply(s[i], o, x[i - 1])
    <2>1. x[i - 1] = w[i - 1]
      BY <1>7, <1>8, <1>11
    <2>2. CASE i = n
      BY <1>11, <2>1, <2>2 DEF a
    <2>3. CASE i # n
      <3>1. i \in 1 .. n - 1 /\ i \in 0 .. n - 1
        BY <1>7, <2>3
      <3> QED BY <1>9, <1>11, <2>1, <3>1
    <2> QED BY <2>2, <2>3
  <1>13. x \in F(n)
    BY <1>11, <1>12
  <1> QED BY <1>7, <1>13
\* A message put at the end keeps the object on course if, wherever the course
\* ended, the message takes it to an end that fits the new value.
LEMMA OnCourseAppend ==
  ASSUME NEW s \in Seq(Message), NEW m \in Message, NEW o \in Objects,
         NEW p \in Val, NEW v, NEW left, NEW asks,
         OnCourse(s, o, p, v, left, asks),
         NEW v2, NEW asks2,
         \A c \in Val : Fits(c, v, left, asks) => Fits(Apply(m, o, c), v2, left, asks2),
         ~left /\ Shows(m, o) => v \in {None, Shown(m, o)}
  PROVE  OnCourse(Append(s, m), o, p, v2, left, asks2)
PROOF
  <1> DEFINE n == Len(s)
  <1>1. PICK w \in Courses(s, o, p) :
          Fits(w[n], v, left, asks) /\ (~left => Repeats(s, o, w))
    BY DEF OnCourse
  <1>2. PICK x \in Courses(Append(s, m), o, p) :
          /\ \A i \in 0 .. n : x[i] = w[i]
          /\ x[n + 1] = Apply(m, o, w[n])
    BY CourseAppend
  <1>3. n \in Nat /\ Len(Append(s, m)) = n + 1 /\ Append(s, m)[n + 1] = m
        /\ \A i \in 1 .. n : Append(s, m)[i] = s[i]
    OBVIOUS
  <1> HIDE DEF n
  <1>4. w[n] \in Val
    BY <1>3 DEF Courses, n
  <1>5. Fits(x[n + 1], v2, left, asks2)
    BY <1>1, <1>2, <1>4
  <1>6. ASSUME ~left, NEW k \in 1 .. n + 1, Shows(Append(s, m)[k], o)
        PROVE  x[k - 1] \in {None, Shown(Append(s, m)[k], o)}
    <2>1. k - 1 \in 0 .. n /\ x[k - 1] = w[k - 1]
      BY <1>2, <1>3
    <2>2. CASE k = n + 1
      <3>1. k - 1 = n /\ Shows(m, o) /\ w[n] \in {None, v}
        BY <1>1, <1>3, <1>6, <2>2 DEF Fits
      <3> QED BY <1>3, <1>6, <2>1, <2>2, <3>1
    <2>3. CASE k # n + 1
      <3>1. k \in 1 .. n
        BY <1>3, <2>3
      <3> QED BY <1>1, <1>3, <1>6, <2>1, <3>1 DEF Repeats, n
    <2> QED BY <2>2, <2>3
  <1> QED BY <1>2, <1>3, <1>5, <1>6 DEF OnCourse, Repeats

\* Receiving the first message keeps the object on course, and shows it a
\* value it may only repeat.
LEMMA OnCourseTail ==
  ASSUME NEW s \in Seq(Message), s # << >>, NEW o \in Objects, NEW p \in Val,
         NEW v, NEW left, NEW asks, OnCourse(s, o, p, v, left, asks)
  PROVE  /\ OnCourse(Tail(s), o, Apply(Head(s), o, p), v, left, asks)
         /\ ~left /\ Shows(Head(s), o) => p \in {None, Shown(Head(s), o)}
PROOF
  <1> DEFINE n == Len(s)
  <1>1. PICK w \in Courses(s, o, p) :
          Fits(w[n], v, left, asks) /\ (~left => Repeats(s, o, w))
    BY DEF OnCourse
  <1>2. PICK x \in Courses(Tail(s), o, Apply(Head(s), o, p)) :
          Len(Tail(s)) = n - 1 /\ \A i \in 0 .. n - 1 : x[i] = w[i + 1]
    BY CourseTail
  <1>3. n \in Nat \ {0} /\ Head(s) = s[1]
        /\ \A i \in 1 .. n - 1 : Tail(s)[i] = s[i + 1]
    OBVIOUS
  <1> HIDE DEF n
  <1>4. x[n - 1] = w[n]
    BY <1>2, <1>3
  <1>5. ASSUME ~left, NEW k \in 1 .. n - 1, Shows(Tail(s)[k], o)
        PROVE  x[k - 1] \in {None, Shown(Tail(s)[k], o)}
    <2>1. k + 1 \in 1 .. n /\ k - 1 \in 0 .. n - 1 /\ (k - 1) + 1 = k /\ (k + 1) - 1 = k
      BY <1>3
    <2>2. x[k - 1] = w[k]
      BY <1>2, <2>1
    <2>3. Shows(s[k + 1], o) => w[(k + 1) - 1] \in {None, Shown(s[k + 1], o)}
      BY <1>1, <1>5, <2>1 DEF Repeats, n
    <2> QED BY <1>3, <1>5, <2>1, <2>2, <2>3
  <1>6. ASSUME ~left, Shows(Head(s), o)
        PROVE  p \in {None, Shown(Head(s), o)}
    <2>1. 1 \in 1 .. n /\ 1 - 1 = 0 /\ w[0] = p
      BY <1>3 DEF Courses
    <2>2. Shows(s[1], o) => w[1 - 1] \in {None, Shown(s[1], o)}
      BY <1>1, <1>6, <2>1 DEF Repeats, n
    <2> QED BY <1>3, <1>6, <2>1, <2>2
  <1> QED BY <1>1, <1>2, <1>4, <1>5, <1>6 DEF OnCourse, Repeats

\* An object stays on course when the client has more to ask.
LEMMA OnCourseAsks ==
  ASSUME NEW s, NEW o, NEW p, NEW v, NEW left, NEW asks, NEW asks2,
         OnCourse(s, o, p, v, left, asks), asks => asks2
  PROVE  OnCourse(s, o, p, v, left, asks2)
BY DEF OnCourse, Fits
-----------------------------------------------------------------------------
(* The steps of the service and of the bus.                                *)

\* Wherever a course ends, message m takes it to an end that fits the new value.
KeepsCourse(m) ==
  \A o \in Objects :
    /\ Shows(m, o) => objs[o] = None
    /\ \A c \in Val : Fits(c, objs[o], o \in leftover, Asks)
                      => Fits(Apply(m, o, c), objs'[o], o \in leftover, Asks)

\* What the service sends besides a reply reaches a client, if there is one,
\* and keeps the invariant if it keeps every object on course.
LEMMA Emits ==
  ASSUME IInv, NEW m \in Message, ~IsReply(m), Send(m),
         UNCHANGED <<names, request, view, leftover>>,
         up' \in BOOLEAN, objs' \in View, ~up' => objs' = Nothing, KeepsCourse(m)
  PROVE  IInv'
PROOF
  <1>1. chan \in Seq(Message) /\ chan' = IF client THEN Append(chan, m) ELSE chan
    BY DEF IInv, Types, Send, Matched
  <1>2. Types'
    BY <1>1 DEF IInv, Types, view
  <1>3. ToldAll'
    BY DEF IInv, ToldAll, view
  <1>4. CASE ~client
    BY <1>1, <1>2, <1>3, <1>4 DEF IInv, Bare, OneCall, Following, IsReply, view
  <1>5. CASE client
    <2>1. chan' = Append(chan, m)
      BY <1>1, <1>5
    <2>2. /\ Len(chan') = Len(chan) + 1 /\ chan'[Len(chan) + 1] = m
          /\ \A i \in 1 .. Len(chan) : chan'[i] = chan[i]
      BY <1>1, <2>1
    <2>3. Bare'
      BY <1>5 DEF Bare, view
    <2>4. OneCall'
      <3>1. \A i \in 1 .. Len(chan') : IsReply(chan'[i]) =>
              i \in 1 .. Len(chan) /\ IsReply(chan[i])
        BY <1>1, <2>2
      <3>2. \A i \in 1 .. Len(chan) : IsReply(chan[i]) =>
              i \in 1 .. Len(chan') /\ IsReply(chan'[i])
        BY <1>1, <2>2
      <3> QED BY <3>1, <3>2 DEF IInv, OneCall, IsReply, view
    <2>5. Asks => Asks'
      <3>1. ASSUME NEW i \in 1 .. Len(chan), Connecting(chan[i]),
                   \A j \in 1 .. Len(chan) : j > i => ~IsReply(chan[j])
            PROVE  Asks'
        <4>1. i \in 1 .. Len(chan') /\ Connecting(chan'[i])
          BY <1>1, <2>2, <3>1
        <4>2. \A j \in 1 .. Len(chan') : j > i => ~IsReply(chan'[j])
          BY <1>1, <2>2, <3>1
        <4> QED BY <4>1, <4>2 DEF Asks, Connecting, IsReply
      <3> QED BY <3>1 DEF Asks
    <2>6. Following'
      <3> SUFFICES ASSUME NEW o \in Objects
                   PROVE  OnCourse(chan', o, proxies[o], objs'[o], o \in leftover, Asks')
        BY DEF Following, view
      <3> DEFINE l == o \in leftover
      <3>1. OnCourse(chan, o, proxies[o], objs[o], l, Asks)
        BY <1>5 DEF IInv, Following
      <3>2. proxies[o] \in Val
        BY DEF IInv, Types, View, Val
      <3>3. \A c \in Val : Fits(c, objs[o], l, Asks) => Fits(Apply(m, o, c), objs'[o], l, Asks)
        BY DEF KeepsCourse
      <3>4. ~l /\ Shows(m, o) => objs[o] \in {None, Shown(m, o)}
        BY DEF KeepsCourse
      <3> HIDE DEF l
      <3>5. OnCourse(chan', o, proxies[o], objs'[o], l, Asks)
        BY <1>1, <2>1, <3>1, <3>2, <3>3, <3>4, OnCourseAppend
      <3>6. OnCourse(chan', o, proxies[o], objs'[o], l, Asks')
        BY <2>5, <3>5, OnCourseAsks
      <3> QED BY <3>6 DEF l
    <2> QED BY <1>2, <1>3, <2>3, <2>4, <2>6 DEF IInv
  <1> QED BY <1>4, <1>5

LEMMA ServiceStartStep ==
  ASSUME IInv, ServiceStart
  PROVE  IInv'
PROOF
  <1> DEFINE m == NameOwnerChanged(TRUE)
  <1>1. m \in Message /\ m.type = "owner" /\ m.up
    BY DEF NameOwnerChanged, Message
  <1>2. /\ up' = TRUE /\ objs' = objs /\ Send(m)
        /\ UNCHANGED <<names, request, view, leftover>>
    BY DEF ServiceStart
  <1> HIDE DEF m
  <1>3. \A o \in Objects : ~Shows(m, o) /\ \A c \in Val : Apply(m, o, c) = c
    BY <1>1 DEF Shows, Apply, Frees
  <1>4. ~IsReply(m) /\ objs' \in View
    BY <1>1, <1>2 DEF IsReply, IInv, Types
  <1>5. KeepsCourse(m)
    BY <1>2, <1>3 DEF KeepsCourse, Fits
  <1> QED BY <1>1, <1>2, <1>4, <1>5, Emits

LEMMA AddStep ==
  ASSUME IInv, NEW x \in Objects, NEW v \in Values, add_interface(x, v)
  PROVE  IInv'
PROOF
  <1> DEFINE m == InterfacesAdded(x, v)
  <1>1. m \in Message /\ m.type = "added" /\ m.obj = x /\ m.val = v
    BY DEF InterfacesAdded, Message
  <1>2. /\ up' = up /\ up /\ objs[x] = None /\ objs' = [objs EXCEPT ![x] = v] /\ Send(m)
        /\ UNCHANGED <<names, request, view, leftover>>
    BY DEF add_interface
  <1> HIDE DEF m
  <1>3. \A o \in Objects : /\ Shows(m, o) <=> o = x
                          /\ \A c \in Val : Apply(m, o, c) = IF o = x THEN v ELSE c
    BY <1>1 DEF Shows, Shown, Apply, Frees
  <1>4. ~IsReply(m) /\ objs' \in View /\ up \in BOOLEAN /\ objs \in View
    BY <1>1, <1>2 DEF IsReply, IInv, Types, View
  <1>5. \A o \in Objects : objs'[o] = IF o = x THEN v ELSE objs[o]
    BY <1>2, <1>4 DEF View
  <1>7. KeepsCourse(m)
    BY <1>2, <1>3, <1>5 DEF KeepsCourse, Fits
  <1> QED BY <1>1, <1>2, <1>4, <1>7, Emits

LEMMA RemoveStep ==
  ASSUME IInv, NEW x \in Objects, remove_interface(x)
  PROVE  IInv'
PROOF
  <1> DEFINE m == InterfacesRemoved(x)
  <1>1. m \in Message /\ m.type = "removed" /\ m.obj = x
    BY DEF InterfacesRemoved, Message
  <1>2. /\ up' = up /\ objs[x] # None /\ objs' = [objs EXCEPT ![x] = None] /\ Send(m)
        /\ UNCHANGED <<names, request, view, leftover>>
    BY DEF remove_interface
  <1> HIDE DEF m
  <1>3. \A o \in Objects : /\ ~Shows(m, o)
                          /\ \A c \in Val : Apply(m, o, c) = IF o = x THEN None ELSE c
    BY <1>1 DEF Shows, Apply, Frees
  <1>4. ~IsReply(m) /\ objs' \in View /\ up \in BOOLEAN /\ objs \in View
    BY <1>1, <1>2 DEF IsReply, IInv, Types, View
  <1>5. \A o \in Objects : objs'[o] = IF o = x THEN None ELSE objs[o]
    BY <1>2, <1>4 DEF View
  <1>7. up
    BY <1>2 DEF IInv, Bare, Nothing
  <1>8. KeepsCourse(m)
    BY <1>2, <1>3, <1>5 DEF KeepsCourse, Fits
  <1> QED BY <1>1, <1>2, <1>4, <1>7, <1>8, Emits

LEMMA ChangeStep ==
  ASSUME IInv, NEW x \in Objects, NEW v \in Values, emit_property_changed(x, v)
  PROVE  IInv'
PROOF
  <1> DEFINE m == PropertiesChanged(x, v)
  <1>1. m \in Message /\ m.type = "changed" /\ m.obj = x /\ m.val = v
    BY DEF PropertiesChanged, Message
  <1>2. /\ up' = up /\ objs[x] # None /\ objs' = [objs EXCEPT ![x] = v] /\ Send(m)
        /\ UNCHANGED <<names, request, view, leftover>>
    BY DEF emit_property_changed
  <1> HIDE DEF m
  <1>3. \A o \in Objects :
          /\ ~Shows(m, o)
          /\ \A c \in Val : Apply(m, o, c) = IF o = x /\ c # None THEN v ELSE c
    BY <1>1 DEF Shows, Apply, Frees
  <1>4. ~IsReply(m) /\ objs' \in View /\ up \in BOOLEAN /\ objs \in View
    BY <1>1, <1>2 DEF IsReply, IInv, Types, View
  <1>5. \A o \in Objects : objs'[o] = IF o = x THEN v ELSE objs[o]
    BY <1>2, <1>4 DEF View
  <1>7. up
    BY <1>2 DEF IInv, Bare, Nothing
  <1>8. KeepsCourse(m)
    BY <1>2, <1>3, <1>5 DEF KeepsCourse, Fits
  <1> QED BY <1>1, <1>2, <1>4, <1>7, <1>8, Emits
\* A GetManagedObjects left behind by the service is answered after the name.
LEMMA ServiceStopStep ==
  ASSUME IInv, ServiceStop
  PROVE  IInv'
PROOF
  <1> DEFINE m == NameOwnerChanged(FALSE)
  <1>1. m \in Message /\ m.type = "owner" /\ ~m.up
    BY DEF NameOwnerChanged, Message
  <1>2. /\ up' = FALSE /\ objs' = Nothing /\ request' = FALSE
        /\ UNCHANGED <<names, view, leftover>>
        /\ IF request THEN chan' = chan \o <<m, Error>> ELSE Send(m)
    BY DEF ServiceStop
  <1> HIDE DEF m
  <1>3. \A o \in Objects : /\ ~Shows(m, o)
                          /\ \A c \in Val : Apply(m, o, c) = None
    BY <1>1 DEF Shows, Apply, Frees
  <1>4. objs' \in View /\ \A o \in Objects : objs'[o] = None
    BY <1>2 DEF Nothing, View
  <1>5. CASE ~request
    <2>1. UNCHANGED request
      BY <1>2, <1>5 DEF IInv, Types
    <2>2. KeepsCourse(m)
      BY <1>3, <1>4 DEF KeepsCourse, Fits
    <2>3. ~IsReply(m)
      BY <1>1 DEF IsReply
    <2> QED BY <1>1, <1>2, <1>4, <1>5, <2>1, <2>2, <2>3, Emits
  <1>6. CASE request
    <2> DEFINE s == Append(chan, m)
               n == Len(chan)
    <2>1. chan \in Seq(Message) /\ Error \in Message /\ s \in Seq(Message)
      BY <1>1 DEF IInv, Types, Error, Message
    <2>2. /\ n \in Nat /\ chan' = Append(s, Error) /\ Len(chan') = n + 2
          /\ chan'[n + 1] = m /\ chan'[n + 2] = Error
          /\ \A i \in 1 .. n : chan'[i] = chan[i]
      BY <1>1, <1>2, <1>6, <2>1
    <2>3. client
      BY <1>6 DEF IInv, Bare
    <2>4. Types'
      <3> HIDE DEF s
      <3>1. chan' \in Seq(Message)
        BY <2>1, <2>2
      <3> QED BY <1>2, <1>4, <3>1 DEF IInv, Types, view
    <2>5. Bare' /\ ToldAll'
      BY <1>2, <2>3 DEF IInv, Bare, ToldAll, view
    <2>6. OneCall'
      <3>1. \A i \in 1 .. n + 2 : IsReply(chan'[i]) <=> i = n + 2
        BY <1>1, <1>6, <2>2 DEF IInv, OneCall, IsReply, Error
      <3>2. get_objects_call' /\ ~request'
        BY <1>2, <1>6 DEF IInv, OneCall, view
      <3> QED BY <2>2, <3>1, <3>2 DEF OneCall, IsReply
    <2>7. Following'
      <3> SUFFICES ASSUME NEW o \in Objects
                   PROVE  OnCourse(chan', o, proxies[o], objs'[o], o \in leftover, Asks')
        BY <1>2 DEF Following, view
      <3> DEFINE l == o \in leftover
      <3>1. OnCourse(chan, o, proxies[o], objs[o], l, Asks)
        BY <2>3 DEF IInv, Following
      <3>2. proxies[o] \in Val
        BY DEF IInv, Types, View, Val
      <3>3. \A c \in Val : Fits(Apply(m, o, c), None, l, Asks)
        BY <1>3 DEF Fits
      <3>4. ~Shows(Error, o) /\ \A c \in Val : Apply(Error, o, c) = c
        BY DEF Error, Shows, Apply, Frees
      <3>5. \A c \in Val : Fits(c, None, l, Asks) => Fits(Apply(Error, o, c), None, l, Asks')
        BY <3>4 DEF Fits
      <3> HIDE DEF l, s
      <3>6. OnCourse(s, o, proxies[o], None, l, Asks)
        BY <1>1, <1>3, <2>1, <3>1, <3>2, <3>3, OnCourseAppend DEF s
      <3>7. OnCourse(chan', o, proxies[o], None, l, Asks')
        BY <2>1, <2>2, <3>2, <3>4, <3>5, <3>6, OnCourseAppend
      <3> QED BY <1>4, <3>7 DEF l
    <2> QED BY <2>4, <2>5, <2>6, <2>7 DEF IInv
  <1> QED BY <1>5, <1>6

\* Answer m brings the value of the service, or leaves the proxies alone.
AnswersWell(m) ==
  \A o \in Objects :
    /\ Shows(m, o) => objs[o] \in {None, Shown(m, o)}
    /\ \A c \in Val : Fits(c, objs[o], o \in leftover, Asks)
                      => Fits(Apply(m, o, c), objs[o], o \in leftover, Asks')

\* An answer reaches the client, and keeps every object on course.
LEMMA Answers ==
  ASSUME IInv, client, NEW m \in Message, chan' = Append(chan, m),
         UNCHANGED <<service, view, leftover>>,
         names' \in BOOLEAN, request' \in BOOLEAN, OneCall', AnswersWell(m)
  PROVE  IInv'
PROOF
  <1>1. chan \in Seq(Message)
    BY DEF IInv, Types
  <1>2. Types' /\ Bare' /\ ToldAll'
    BY <1>1 DEF IInv, Types, Bare, ToldAll, view, service
  <1>3. ASSUME NEW o \in Objects
        PROVE  OnCourse(chan', o, proxies[o], objs[o], o \in leftover, Asks')
    <2> DEFINE l == o \in leftover
    <2>1. OnCourse(chan, o, proxies[o], objs[o], l, Asks)
      BY DEF IInv, Following
    <2>2. proxies[o] \in Val
      BY DEF IInv, Types, View, Val
    <2>3. \A c \in Val : Fits(c, objs[o], l, Asks) => Fits(Apply(m, o, c), objs[o], l, Asks')
      BY DEF AnswersWell
    <2>4. ~l /\ Shows(m, o) => objs[o] \in {None, Shown(m, o)}
      BY DEF AnswersWell
    <2> HIDE DEF l
    <2>5. OnCourse(chan', o, proxies[o], objs[o], l, Asks')
      BY <1>1, <2>1, <2>2, <2>3, <2>4, OnCourseAppend
    <2> QED BY <2>5 DEF l
  <1>4. Following'
    BY <1>3 DEF Following, view, service
  <1> QED BY <1>2, <1>4 DEF IInv
LEMMA GetObjectsStep ==
  ASSUME IInv, get_objects
  PROVE  IInv'
PROOF
  <1> DEFINE m == IF up THEN [type |-> "objects", objs |-> objs] ELSE Error
  <1>1. /\ request /\ request' = FALSE /\ Send(m)
        /\ UNCHANGED <<service, names, view, leftover>>
    BY DEF get_objects
  <1>2. /\ client /\ get_objects_call /\ names \in BOOLEAN /\ chan \in Seq(Message)
        /\ objs \in View /\ \A i \in 1 .. Len(chan) : ~IsReply(chan[i])
    BY <1>1 DEF IInv, Bare, OneCall, Types
  <1>3. chan' = Append(chan, m)
    BY <1>1, <1>2 DEF Send, Matched
  <1>4. m \in Message /\ IsReply(m)
    <2>1. CASE up
      BY <1>2, <2>1 DEF Message, IsReply
    <2>2. CASE ~up
      BY <2>2 DEF Message, IsReply, Error
    <2> QED BY <2>1, <2>2
  <1>5. ASSUME NEW o \in Objects
        PROVE  /\ Shows(m, o) => objs[o] = Shown(m, o)
               /\ \A c \in Val : Apply(m, o, c) = IF objs[o] # None THEN objs[o] ELSE c
    <2>1. CASE up
      BY <2>1 DEF Shows, Shown, Apply, Frees
    <2>2. CASE ~up
      <3>1. objs[o] = None
        BY <2>2 DEF IInv, Bare, Nothing
      <3> QED BY <2>2, <3>1 DEF Shows, Apply, Frees, Error
    <2> QED BY <2>1, <2>2
  <1> HIDE DEF m
  <1>6. AnswersWell(m)
    BY <1>5 DEF AnswersWell, Fits
  <1>7. OneCall'
    <2>1. Len(chan') = Len(chan) + 1 /\ Len(chan) \in Nat
          /\ \A i \in 1 .. Len(chan') : IsReply(chan'[i]) <=> i = Len(chan')
      BY <1>2, <1>3, <1>4
    <2>2. get_objects_call' /\ ~request'
      BY <1>1, <1>2 DEF view
    <2> QED BY <2>1, <2>2 DEF OneCall, IsReply
  <1> QED BY <1>1, <1>2, <1>3, <1>4, <1>6, <1>7, Answers

LEMMA GetNameOwnerStep ==
  ASSUME IInv, GetNameOwner
  PROVE  IInv'
PROOF
  <1> DEFINE m == [type |-> "reply", up |-> up]
  <1>1. /\ names /\ names' = FALSE /\ Send(m)
        /\ UNCHANGED <<service, request, view, leftover>>
    BY DEF GetNameOwner
  <1>2. client /\ request \in BOOLEAN /\ chan \in Seq(Message) /\ up \in BOOLEAN
    BY <1>1 DEF IInv, Bare, Types
  <1>3. chan' = Append(chan, m)
    BY <1>1, <1>2 DEF Send, Matched
  <1>4. m \in Message /\ ~IsReply(m) /\ (up => Connecting(m))
    BY <1>2 DEF Message, IsReply, Connecting
  <1>5. \A o \in Objects : ~Shows(m, o) /\ \A c \in Val : Apply(m, o, c) = c
    BY DEF Shows, Apply, Frees
  <1> HIDE DEF m
  <1>6. /\ Len(chan') = Len(chan) + 1 /\ chan'[Len(chan')] = m /\ Len(chan) \in Nat
        /\ \A i \in 1 .. Len(chan) : chan'[i] = chan[i]
    BY <1>2, <1>3, <1>4
  <1>7. up => Asks'
    BY <1>4, <1>6 DEF Asks, Connecting
  <1>8. \A o \in Objects : objs[o] # None => up
    BY DEF IInv, Bare, Nothing
  <1>9. AnswersWell(m)
    BY <1>5, <1>7, <1>8 DEF AnswersWell, Fits
  <1>10. OneCall'
    <2>1. \A i \in 1 .. Len(chan') : IsReply(chan'[i]) =>
            i \in 1 .. Len(chan) /\ IsReply(chan[i])
      BY <1>4, <1>6
    <2>2. \A i \in 1 .. Len(chan) : IsReply(chan[i]) =>
            i \in 1 .. Len(chan') /\ IsReply(chan'[i])
      BY <1>4, <1>6
    <2> QED BY <1>1, <2>1, <2>2 DEF IInv, OneCall, IsReply, view
  <1> QED BY <1>1, <1>2, <1>3, <1>4, <1>9, <1>10, Answers
-----------------------------------------------------------------------------
(* The steps of the client.                                                *)

\* A new client asks for the owner of the name.  What is still on the
\* connection sets a course for the proxies it does not have yet.
LEMMA ClientNewStep ==
  ASSUME IInv, g_dbus_client_new
  PROVE  IInv'
PROOF
  <1>1. /\ ~client /\ client' = TRUE /\ names' = TRUE
        /\ leftover' = {m.obj : m \in {x \in Range(chan) : x.type = "added"}}
        /\ UNCHANGED <<service, chan, request, connected, get_objects_call, proxies, told>>
    BY DEF g_dbus_client_new
  <1>2. /\ chan \in Seq(Message) /\ proxies = Nothing /\ told = Nothing
        /\ \A i \in 1 .. Len(chan) : chan[i].type \in Signals \cup {"unheard"}
    BY <1>1 DEF IInv, Bare, Types
  <1>3. leftover' = {chan[i].obj : i \in {j \in 1 .. Len(chan) : chan[j].type = "added"}}
    BY <1>1, <1>2 DEF Range
  <1>4. leftover' \subseteq Objects
    <2>1. \A i \in 1 .. Len(chan) : chan[i] \in Message
      BY <1>2
    <2> QED BY <1>3, <2>1, Carries
  <1>5. Types' /\ Bare' /\ OneCall' /\ ToldAll'
    <2>1. Types'
      BY <1>1, <1>4 DEF IInv, Types, service
    <2>2. Bare' /\ OneCall'
      BY <1>1 DEF IInv, Bare, OneCall, IsReply, service
    <2>3. ToldAll'
      BY <1>1, <1>2 DEF ToldAll
    <2> QED BY <2>1, <2>2, <2>3
  <1>6. ASSUME NEW o \in Objects
        PROVE  OnCourse(chan, o, None, objs[o], o \in leftover', Asks')
    <2>1. Asks'
      BY <1>1 DEF Asks
    <2>2. None \in Val
      BY DEF Val
    <2>3. CASE o \in leftover'
      <3>1. PICK w : w \in Courses(chan, o, None)
        BY <1>2, <2>2, CourseExists
      <3> QED BY <2>1, <2>3, <3>1 DEF OnCourse, Fits
    <2>4. CASE o \notin leftover'
      <3>1. \A i \in 1 .. Len(chan) : ~Shows(chan[i], o)
        BY <1>2, <1>3, <2>4 DEF Shows, Signals
      <3>2. \A i \in 1 .. Len(chan) : Apply(chan[i], o, None) = None
        BY <3>1 DEF Apply
      <3> DEFINE w == [i \in 0 .. Len(chan) |-> None]
      <3>3. Len(chan) \in Nat
        BY <1>2
      <3>4. w \in [0 .. Len(chan) -> Val] /\ w[0] = None /\ w[Len(chan)] = None
            /\ \A i \in 1 .. Len(chan) : w[i] = None /\ w[i - 1] = None
        BY <2>2, <3>3
      <3> HIDE DEF w
      <3>5. w \in Courses(chan, o, None)
        BY <3>2, <3>4 DEF Courses
      <3>6. Repeats(chan, o, w)
        BY <3>1 DEF Repeats
      <3>7. Fits(w[Len(chan)], objs[o], o \in leftover', Asks')
        BY <2>1, <3>4 DEF Fits
      <3> QED BY <3>5, <3>6, <3>7 DEF OnCourse
    <2> QED BY <2>3, <2>4
  <1>7. Following'
    BY <1>1, <1>2, <1>6 DEF Following, Nothing, service
  <1> QED BY <1>5, <1>7 DEF IInv

LEMMA ClientUnrefStep ==
  ASSUME IInv, g_dbus_client_unref
  PROVE  IInv'
PROOF
  <1>1. /\ client' = FALSE /\ connected' = FALSE /\ names' = FALSE
        /\ get_objects_call' = FALSE /\ request' = FALSE /\ leftover' = {}
        /\ UNCHANGED <<up, objs>>
        /\ chan' = [i \in DOMAIN chan |->
                      IF chan[i].type \in Signals THEN chan[i] ELSE Unheard]
    BY DEF g_dbus_client_unref, RemoveWatches, service
  <1>2. proxies' = Nothing /\ told' = Nothing /\ Nothing \in View
    BY DEF g_dbus_client_unref, proxy_remove, Nothing, View
  <1>3. chan \in Seq(Message) /\ Unheard \in Message
    BY DEF IInv, Types, Unheard, Message
  <1>4. chan' \in Seq(Message) /\ Len(chan') = Len(chan)
        /\ \A i \in 1 .. Len(chan) : chan'[i].type \in Signals \cup {"unheard"}
    BY <1>1, <1>3 DEF Unheard
  <1>5. Types'
    BY <1>1, <1>2, <1>4 DEF IInv, Types
  <1>6. Bare' /\ ToldAll' /\ Following'
    BY <1>1, <1>2, <1>4 DEF IInv, Bare, ToldAll, Following
  <1>7. OneCall'
    BY <1>1, <1>4 DEF OneCall, IsReply, Signals
  <1> QED BY <1>5, <1>6, <1>7 DEF IInv

LEMMA DiscardStep ==
  ASSUME IInv, Discard
  PROVE  IInv'
PROOF
  <1>1. /\ ~client /\ chan # << >> /\ chan' = Tail(chan)
        /\ UNCHANGED <<service, names, request, view, leftover>>
    BY DEF Discard
  <1>2. chan \in Seq(Message)
    BY DEF IInv, Types
  <1>3. chan' \in Seq(Message) /\ Len(chan') = Len(chan) - 1 /\ Len(chan) \in Nat
        /\ \A i \in 1 .. Len(chan') : i + 1 \in 1 .. Len(chan) /\ chan'[i] = chan[i + 1]
    BY <1>1, <1>2
  <1>4. \A i \in 1 .. Len(chan') : chan'[i].type \in Signals \cup {"unheard"}
    BY <1>1, <1>3 DEF IInv, Bare
  <1>5. Types' /\ Bare' /\ ToldAll' /\ Following'
    BY <1>1, <1>3, <1>4
       DEF IInv, Types, Bare, ToldAll, Following, service, view
  <1>6. OneCall'
    BY <1>1, <1>4 DEF IInv, Bare, OneCall, IsReply, Signals, view
  <1> QED BY <1>5, <1>6 DEF IInv
\* The client applies the message to every proxy, and tells what it does
\* except for a known proxy that an announcement or a reply repeats.
LEMMA ReceiveApplies ==
  ASSUME Types, Receive
  PROVE  /\ proxies' \in View /\ told' \in View
         /\ \A o \in Objects : proxies'[o] = Apply(Head(chan), o, proxies[o])
         /\ \A o \in Objects :
              (/\ told[o] = proxies[o]
               /\ Shows(Head(chan), o) => proxies[o] \in {None, Shown(Head(chan), o)})
              => told'[o] = proxies'[o]
PROOF
  <1> DEFINE m == Head(chan)
  <1>1. m \in Message /\ proxies \in View /\ told \in View
    BY DEF Types, Receive
  <1>2. \/ service_filter(m) \/ service_reply(m)
        \/ signal_filter(m) \/ get_managed_objects_reply(m) \/ NoPendingCall(m)
    BY DEF Receive
  <1> DEFINE P == /\ proxies' \in View /\ told' \in View
                  /\ \A o \in Objects : proxies'[o] = Apply(m, o, proxies[o])
                  /\ \A o \in Objects :
                       (/\ told[o] = proxies[o]
                        /\ Shows(m, o) => proxies[o] \in {None, Shown(m, o)})
                       => told'[o] = proxies'[o]
  <1> SUFFICES P
    OBVIOUS
  <1> HIDE DEF m
  <1>3. ASSUME UNCHANGED <<proxies, told>>,
               \A o \in Objects : Apply(m, o, proxies[o]) = proxies[o]
        PROVE  P
    BY <1>1, <1>3
  <1>4. CASE service_filter(m)
    <2>1. m.type = "owner"
      BY <1>4 DEF service_filter
    <2>2. CASE m.up
      BY <1>3, <1>4, <2>1, <2>2 DEF service_filter, service_connect, Apply, Shows, Frees
    <2>3. CASE ~m.up
      <3>1. \A o \in Objects : proxies'[o] = None /\ told'[o] = None
        BY <1>4, <2>3 DEF service_filter, service_disconnect, proxy_remove
      <3>2. proxies' \in View /\ told' \in View
        BY <1>4, <2>3 DEF service_filter, service_disconnect, proxy_remove, View
      <3> QED BY <2>1, <2>3, <3>1, <3>2 DEF Apply, Shows, Frees
    <2> QED BY <2>2, <2>3
  <1>5. CASE service_reply(m) \/ NoPendingCall(m)
    <2>1. m.type \in {"reply", "unheard"} /\ UNCHANGED <<proxies, told>>
      BY <1>5 DEF service_reply, NoPendingCall, service_connect
    <2> QED BY <1>3, <2>1 DEF Apply, Shows, Frees
  <1>6. ASSUME NEW new \in View, Parse(new), m.type \in {"added", "objects"},
               \A o \in Objects : /\ Shows(m, o) <=> new[o] # None
                                  /\ new[o] # None => Shown(m, o) = new[o]
        PROVE  P
    <2>1. /\ proxies' = [o \in Objects |-> IF new[o] = None THEN proxies[o] ELSE new[o]]
          /\ told' = [o \in Objects |-> IF proxies[o] # None THEN told[o] ELSE new[o]]
      BY <1>6 DEF Parse, Known
    <2>2. proxies' \in View /\ told' \in View
      BY <1>1, <1>6, <2>1 DEF View
    <2>3. \A o \in Objects : proxies'[o] = Apply(m, o, proxies[o])
      BY <1>6, <2>1 DEF Apply, Frees
    <2>4. ASSUME NEW o \in Objects, told[o] = proxies[o],
                 Shows(m, o) => proxies[o] \in {None, Shown(m, o)}
          PROVE  told'[o] = proxies'[o]
      BY <1>6, <2>1, <2>4
    <2> QED BY <2>2, <2>3, <2>4
  <1>7. CASE get_managed_objects_reply(m)
    <2>1. CASE m.type = "objects"
      <3>1. m.objs \in View /\ Parse(m.objs)
        BY <1>1, <1>7, <2>1, Carries DEF get_managed_objects_reply
      <3> QED BY <1>6, <2>1, <3>1 DEF Shows, Shown
    <2>2. CASE m.type # "objects"
      BY <1>3, <1>7, <2>2 DEF get_managed_objects_reply, Apply, Shows, Frees
    <2> QED BY <2>1, <2>2
  <1>8. CASE signal_filter(m)
    <2>1. CASE ~Watched(m)
      BY <1>3, <1>8, <2>1
         DEF signal_filter, interfaces_added, interfaces_removed, properties_changed,
             Watched, Known, Apply, Shows, Frees
    <2>2. CASE Watched(m) /\ interfaces_added(m)
      <3> DEFINE new == [Nothing EXCEPT ![m.obj] = m.val]
      <3>1. m.type = "added" /\ m.obj \in Objects /\ m.val \in Values /\ Parse(new)
        BY <1>1, <2>2, Carries DEF interfaces_added
      <3>2. new \in View /\ \A o \in Objects : new[o] = IF o = m.obj THEN m.val ELSE None
        BY <3>1 DEF Nothing, View
      <3> HIDE DEF new
      <3>3. \A o \in Objects : /\ Shows(m, o) <=> new[o] # None
                               /\ new[o] # None => Shown(m, o) = new[o]
        BY <3>1, <3>2, GdbusAssumption DEF Shows, Shown
      <3> QED BY <1>6, <3>1, <3>2, <3>3
    <2>3. CASE Watched(m) /\ interfaces_removed(m)
      <3>1. /\ m.type = "removed"
            /\ proxies' = [o \in Objects |-> IF o = m.obj THEN None ELSE proxies[o]]
            /\ told' = [o \in Objects |-> IF o = m.obj THEN None ELSE told[o]]
        BY <2>3 DEF interfaces_removed, proxy_remove
      <3>2. proxies' \in View /\ told' \in View
        BY <1>1, <3>1 DEF View
      <3> QED BY <3>1, <3>2 DEF Apply, Shows, Frees
    <2>4. CASE Watched(m) /\ properties_changed(m)
      <3>1. /\ m.type = "changed" /\ m.obj \in Objects /\ m.val \in Values
            /\ proxies[m.obj] # None
            /\ proxies' = [proxies EXCEPT ![m.obj] = m.val]
            /\ told' = [told EXCEPT ![m.obj] = m.val]
        BY <1>1, <2>4, Carries DEF properties_changed, update_properties, Watched, Known
      <3>2. /\ proxies' \in View /\ told' \in View
            /\ \A o \in Objects : /\ proxies'[o] = IF o = m.obj THEN m.val ELSE proxies[o]
                                  /\ told'[o] = IF o = m.obj THEN m.val ELSE told[o]
        BY <1>1, <3>1 DEF View
      <3> QED BY <3>1, <3>2 DEF Apply, Shows, Frees
    <2> QED BY <1>8, <2>1, <2>2, <2>3, <2>4 DEF signal_filter
  <1> QED BY <1>2, <1>4, <1>5, <1>7, <1>8

\* A message that connects asks for the objects unless they are asked for, and
\* a reply ends the call; nothing else changes either.
LEMMA ReceiveCalls ==
  ASSUME Types, Receive
  PROVE  /\ connected' \in BOOLEAN /\ get_objects_call' \in BOOLEAN /\ request' \in BOOLEAN
         /\ \/ /\ Connecting(Head(chan)) /\ ~IsReply(Head(chan)) /\ get_objects_call'
               /\ request' <=> request \/ ~get_objects_call
            \/ /\ IsReply(Head(chan)) /\ ~Connecting(Head(chan))
               /\ ~get_objects_call' /\ (request' <=> request)
            \/ /\ ~Connecting(Head(chan)) /\ ~IsReply(Head(chan))
               /\ get_objects_call' <=> get_objects_call
               /\ request' <=> request
PROOF
  <1> DEFINE m == Head(chan)
  <1>1. \/ service_filter(m) \/ service_reply(m)
        \/ signal_filter(m) \/ get_managed_objects_reply(m) \/ NoPendingCall(m)
    BY DEF Receive
  <1>2. /\ m \in Message /\ connected \in BOOLEAN
        /\ get_objects_call \in BOOLEAN /\ request \in BOOLEAN
    BY DEF Types, Receive
  <1> HIDE DEF m
  <1>3. CASE service_filter(m) \/ service_reply(m)
    <2>1. m.up \in BOOLEAN /\ m.type \in {"owner", "reply"}
      BY <1>2, <1>3, Carries DEF service_filter, service_reply
    <2>2. CASE m.up
      BY <1>2, <1>3, <2>1, <2>2
         DEF service_filter, service_reply, service_connect, Connecting, IsReply, m
    <2>3. CASE ~m.up
      BY <1>2, <1>3, <2>1, <2>3
         DEF service_filter, service_reply, service_disconnect, Connecting, IsReply, m
    <2> QED BY <2>2, <2>3
  <1>4. CASE signal_filter(m)
    BY <1>2, <1>4 DEF signal_filter, Connecting, IsReply, m
  <1>5. CASE get_managed_objects_reply(m)
    BY <1>2, <1>5 DEF get_managed_objects_reply, Connecting, IsReply, m
  <1>6. CASE NoPendingCall(m)
    BY <1>2, <1>6 DEF NoPendingCall, Connecting, IsReply, m
  <1> QED BY <1>1, <1>3, <1>4, <1>5, <1>6
LEMMA ReceiveStep ==
  ASSUME IInv, Receive
  PROVE  IInv'
PROOF
  <1> DEFINE m == Head(chan)
             n == Len(chan)
  <1>1. /\ client /\ chan # << >> /\ chan' = Tail(chan)
        /\ UNCHANGED <<up, objs, names, client, leftover>>
    BY DEF Receive, service
  <1>2. Types /\ chan \in Seq(Message)
    BY DEF IInv, Types
  <1>3. /\ n \in Nat \ {0} /\ Len(chan') = n - 1 /\ chan' \in Seq(Message) /\ m = chan[1]
        /\ \A i \in 1 .. n - 1 : chan'[i] = chan[i + 1]
        /\ \A i \in 2 .. n : i - 1 \in 1 .. n - 1 /\ chan'[i - 1] = chan[i]
    BY <1>1, <1>2
  <1>4. /\ proxies' \in View /\ told' \in View
        /\ \A o \in Objects : proxies'[o] = Apply(m, o, proxies[o])
        /\ \A o \in Objects :
             (/\ told[o] = proxies[o]
              /\ Shows(m, o) => proxies[o] \in {None, Shown(m, o)})
             => told'[o] = proxies'[o]
    BY <1>2, ReceiveApplies
  <1>5. /\ connected' \in BOOLEAN /\ get_objects_call' \in BOOLEAN /\ request' \in BOOLEAN
        /\ \/ /\ Connecting(m) /\ ~IsReply(m) /\ get_objects_call'
              /\ request' <=> request \/ ~get_objects_call
           \/ /\ IsReply(m) /\ ~Connecting(m)
              /\ ~get_objects_call' /\ (request' <=> request)
           \/ /\ ~Connecting(m) /\ ~IsReply(m)
              /\ get_objects_call' <=> get_objects_call
              /\ request' <=> request
    BY <1>2, ReceiveCalls
  <1> HIDE DEF m, n
  <1>6. Types'
    BY <1>1, <1>2, <1>3, <1>4, <1>5 DEF Types
  <1>7. Bare'
    BY <1>1 DEF IInv, Bare
  <1>8. /\ \A i, j \in 1 .. n : IsReply(chan[i]) /\ IsReply(chan[j]) => i = j
        /\ request => \A i \in 1 .. n : ~IsReply(chan[i])
        /\ get_objects_call <=> request \/ \E i \in 1 .. n : IsReply(chan[i])
    BY DEF IInv, OneCall, n
  <1>9. /\ \A i \in 1 .. n - 1 : IsReply(chan'[i]) => i + 1 \in 2 .. n /\ IsReply(chan[i + 1])
        /\ \A i \in 2 .. n : IsReply(chan[i]) => i - 1 \in 1 .. n - 1 /\ IsReply(chan'[i - 1])
    BY <1>3
  <1>10. OneCall'
    <2>1. ASSUME NEW i \in 1 .. n - 1, NEW j \in 1 .. n - 1,
                 IsReply(chan'[i]), IsReply(chan'[j])
          PROVE  i = j
      <3>1. /\ i + 1 \in 2 .. n /\ IsReply(chan[i + 1])
            /\ j + 1 \in 2 .. n /\ IsReply(chan[j + 1])
        BY <1>9, <2>1
      <3>2. i + 1 \in 1 .. n /\ j + 1 \in 1 .. n
        BY <1>3
      <3>3. i + 1 = j + 1
        BY <1>8, <3>1, <3>2
      <3> QED BY <1>3, <3>3
    <2>2. \A i \in 1 .. n : IsReply(chan[i]) => IsReply(m) \/ i \in 2 .. n
      BY <1>3
    <2>3. 1 \in 1 .. n /\ \A i \in 1 .. n - 1 : i + 1 \in 1 .. n /\ i + 1 # 1
      BY <1>3
    <2> DEFINE r == \E i \in 1 .. n : IsReply(chan[i])
               r2 == \E i \in 1 .. n - 1 : IsReply(chan'[i])
    <2>4. r2 => r /\ ~IsReply(m)
      BY <1>3, <1>8, <1>9, <2>3
    <2>5. r /\ ~IsReply(m) => r2
      BY <1>9, <2>2
    <2>6. IsReply(m) => r
      BY <1>3, <2>3
    <2>7. (request => ~r) /\ (get_objects_call <=> request \/ r)
      BY <1>8
    <2> HIDE DEF r, r2
    <2>8. (request' => ~r2) /\ (get_objects_call' <=> request' \/ r2)
      BY <1>5, <2>4, <2>5, <2>6, <2>7
    <2> QED BY <1>3, <2>1, <2>8 DEF OneCall, r2, IsReply
  <1>11. Asks => Asks'
    <2>1. (names => names') /\ (request => request')
      BY <1>1, <1>5
    <2>2. ASSUME NEW i \in 1 .. n, Connecting(chan[i]),
                 \A j \in 1 .. n : j > i => ~IsReply(chan[j])
          PROVE  Asks'
      <3>1. CASE i = 1
        <4>1. Connecting(m) /\ ~IsReply(m)
          BY <1>3, <1>5, <2>2, <3>1
        <4>2. \A j \in 1 .. n : ~IsReply(chan[j])
          BY <1>3, <2>2, <3>1, <4>1
        <4>3. request'
          BY <1>5, <1>8, <4>1, <4>2
        <4> QED BY <4>3 DEF Asks
      <3>2. CASE i # 1
        <4>1. i - 1 \in 1 .. n - 1 /\ Connecting(chan'[i - 1])
          BY <1>3, <2>2, <3>2
        <4>2. \A j \in 1 .. n - 1 : j > i - 1 => ~IsReply(chan'[j])
          BY <1>3, <2>2
        <4> QED BY <1>3, <4>1, <4>2 DEF Asks, Connecting, IsReply
      <3> QED BY <3>1, <3>2
    <2> QED BY <2>1, <2>2 DEF Asks, n
  <1>12. ASSUME NEW o \in Objects
         PROVE  /\ OnCourse(chan', o, proxies'[o], objs[o], o \in leftover, Asks')
                /\ o \notin leftover =>
                     (Shows(m, o) => proxies[o] \in {None, Shown(m, o)})
    <2> DEFINE l == o \in leftover
    <2>1. OnCourse(chan, o, proxies[o], objs[o], l, Asks)
      BY <1>1 DEF IInv, Following
    <2>2. proxies[o] \in Val
      BY <1>2 DEF Types, View, Val
    <2> HIDE DEF l
    <2>3. /\ OnCourse(Tail(chan), o, Apply(Head(chan), o, proxies[o]), objs[o], l, Asks)
          /\ ~l /\ Shows(Head(chan), o) => proxies[o] \in {None, Shown(Head(chan), o)}
      <3> DEFINE s == chan
                 p == proxies[o]
                 v == objs[o]
                 a == Asks
      <3>1. s \in Seq(Message) /\ s # << >> /\ p \in Val /\ OnCourse(s, o, p, v, l, a)
        BY <1>1, <1>2, <2>1, <2>2
      <3> HIDE DEF s, p, v, a
      <3>2. /\ OnCourse(Tail(s), o, Apply(Head(s), o, p), v, l, a)
            /\ ~l /\ Shows(Head(s), o) => p \in {None, Shown(Head(s), o)}
        BY <3>1, OnCourseTail
      <3> QED BY <3>2 DEF s, p, v, a
    <2>4. OnCourse(chan', o, proxies'[o], objs[o], l, Asks)
      BY <1>1, <1>4, <2>3 DEF m
    <2>5. OnCourse(chan', o, proxies'[o], objs[o], l, Asks')
      BY <1>11, <2>4, OnCourseAsks
    <2> QED BY <2>3, <2>5 DEF l, m
  <1>13. Following'
    BY <1>1, <1>12 DEF Following
  <1>14. ToldAll'
    BY <1>1, <1>4, <1>12 DEF IInv, ToldAll
  <1> QED BY <1>6, <1>7, <1>10, <1>13, <1>14 DEF IInv

-----------------------------------------------------------------------------
\* The invariant holds of every state of the client, the service and the bus.
LEMMA Invariance == Spec => []IInv
PROOF
  <1>1. Init => IInv
    <2> SUFFICES ASSUME Init PROVE IInv
      OBVIOUS
    <2>1. Types
      <3>1. Nothing \in View
        BY DEF Nothing, View
      <3>2. chan \in Seq(Message) /\ leftover \subseteq Objects
        BY DEF Init
      <3>3. /\ up \in BOOLEAN /\ client \in BOOLEAN /\ connected \in BOOLEAN
            /\ names \in BOOLEAN /\ request \in BOOLEAN /\ get_objects_call \in BOOLEAN
        BY DEF Init
      <3>4. objs \in View /\ proxies \in View /\ told \in View
        BY <3>1 DEF Init
      <3> QED BY <3>2, <3>3, <3>4 DEF Types
    <2>2. Bare /\ OneCall /\ Following /\ ToldAll
      BY DEF Init, Bare, OneCall, Following, ToldAll
    <2> QED BY <2>1, <2>2 DEF IInv
  <1>2. IInv /\ [Next]_vars => IInv'
    <2> SUFFICES ASSUME IInv, [Next]_vars PROVE IInv'
      OBVIOUS
    <2>1. CASE Service
      BY <2>1, ServiceStartStep, ServiceStopStep, GetObjectsStep, GetNameOwnerStep,
         AddStep, RemoveStep, ChangeStep DEF Service
    <2>2. CASE UNCHANGED vars
      <3>1. UNCHANGED <<up, objs, chan, names, request, client, connected,
                        get_objects_call, proxies, told, leftover>>
        BY <2>2 DEF vars, service, view
      <3>2. Types' /\ Bare' /\ OneCall' /\ ToldAll'
        BY <3>1 DEF IInv, Types, Bare, OneCall, ToldAll, IsReply
      <3>3. Asks' <=> Asks
        BY <3>1 DEF Asks, Connecting, IsReply
      <3>4. ASSUME client, NEW o \in Objects
            PROVE  OnCourse(chan, o, proxies[o], objs[o], o \in leftover, Asks')
        <4> DEFINE l == o \in leftover
        <4>1. OnCourse(chan, o, proxies[o], objs[o], l, Asks)
          BY <3>4 DEF IInv, Following
        <4> HIDE DEF l
        <4>2. OnCourse(chan, o, proxies[o], objs[o], l, Asks')
          BY <3>3, <4>1, OnCourseAsks
        <4> QED BY <4>2 DEF l
      <3>5. Following'
        BY <3>1, <3>4 DEF Following
      <3> QED BY <3>2, <3>5 DEF IInv
    <2> QED BY <2>1, <2>2, ClientNewStep, ClientUnrefStep, ReceiveStep, DiscardStep
            DEF Next
  <1> QED BY <1>1, <1>2, PTL DEF Spec

\* Once nothing is in flight the proxies are the objects of the service, but
\* for objects announced to a former client (get_managed_objects_reply,
\* interfaces_added, interfaces_removed and properties_changed of client.c).
THEOREM ClientMirrors == Spec => []Mirrors
PROOF
  <1>1. IInv => Mirrors
    <2> SUFFICES ASSUME IInv, client, chan = << >>, ~names, ~request, NEW o \in Objects
                 PROVE  proxies[o] = objs[o] \/ (objs[o] = None /\ o \in leftover)
      BY DEF Mirrors
    <2>1. ~Asks /\ Len(chan) = 0
      BY DEF Asks
    <2>2. PICK w \in Courses(chan, o, proxies[o]) :
            Fits(w[Len(chan)], objs[o], o \in leftover, Asks)
      BY DEF IInv, Following, OnCourse
    <2>3. w[Len(chan)] = proxies[o]
      BY <2>1 DEF Courses
    <2>4. /\ o \notin leftover => proxies[o] \in {None, objs[o]}
          /\ objs[o] # None => proxies[o] = objs[o]
      BY <2>1, <2>2, <2>3 DEF Fits
    <2> QED BY <2>4
  <1> QED BY <1>1, Invariance, PTL

\* The callbacks have told the application what the proxies hold
\* (parse_properties of client.c updates a known proxy in silence).
THEOREM ClientTold == Spec => []ToldAll
PROOF
  <1>1. IInv => ToldAll
    BY DEF IInv
  <1> QED BY <1>1, Invariance, PTL

\* Every variable keeps its type, and the client waits for GetManagedObjects
\* exactly as long as the call or its answer is on the way (get_objects_call
\* of client.c).
THEOREM ClientTypes == Spec => []TypeOK
PROOF
  <1>1. IInv => TypeOK
    <2> SUFFICES ASSUME IInv PROVE TypeOK
      OBVIOUS
    <2> DEFINE R == {i \in DOMAIN chan : chan[i].type \in {"objects", "error"}}
    <2>1. chan \in Seq(Message) /\ DOMAIN chan = 1 .. Len(chan)
      BY DEF IInv, Types
    <2>2. \A i \in 1 .. Len(chan) : i \in R <=> IsReply(chan[i])
      BY <2>1 DEF IsReply
    <2>3. R \subseteq 1 .. Len(chan)
      BY <2>1
    <2> HIDE DEF R
    <2>4. CASE R = {}
      <3>1. Cardinality(R) = 0
        BY <2>4, FS_EmptySet
      <3>2. get_objects_call <=> request
        BY <2>2, <2>4 DEF IInv, OneCall
      <3>3. Cardinality(R) + (IF request THEN 1 ELSE 0) = (IF get_objects_call THEN 1 ELSE 0)
        BY <3>1, <3>2
      <3> QED BY <2>1, <3>3 DEF IInv, Types, TypeOK, R
    <2>5. CASE R # {}
      <3>1. PICK i : i \in R
        BY <2>5
      <3>2. R = {i} /\ get_objects_call /\ ~request
        BY <2>2, <2>3, <3>1 DEF IInv, OneCall
      <3>3. Cardinality(R) = 1
        BY <3>2, FS_Singleton
      <3>4. Cardinality(R) + (IF request THEN 1 ELSE 0) = (IF get_objects_call THEN 1 ELSE 0)
        BY <3>2, <3>3
      <3> QED BY <2>1, <3>4 DEF IInv, Types, TypeOK, R
    <2> QED BY <2>4, <2>5
  <1> QED BY <1>1, Invariance, PTL
-----------------------------------------------------------------------------
(* The safety half of Connects: the news that the service has its name is  *)
(* never lost on the way.                                                  *)

Lost(m) == m.type = "owner" /\ ~m.up

\* Received in order, the messages s leave a client connected that is
\* connected, or not, as c says.
LeaveConnected(s, c) ==
  \/ c /\ \A j \in 1 .. Len(s) : ~Lost(s[j])
  \/ \E i \in 1 .. Len(s) :
       Connecting(s[i]) /\ \A j \in 1 .. Len(s) : j > i => ~Lost(s[j])

\* While the service has its name the bus owes the client the name's owner, or
\* what is in flight leaves it connected.
WillConnect == client /\ up => names \/ LeaveConnected(chan, connected)

\* Once GetNameOwner is answered and nothing is in flight, a client whose
\* service has its name is connected (service_connect of client.c), whatever a
\* former client left unread and however often the service exited and returned.
ConnectedWhenQuiet == client /\ up /\ ~names /\ chan = << >> => connected

\* The elements of a sequence that grew at its end, as chan does in Send.
LEMMA Appended ==
  ASSUME NEW S, NEW s \in Seq(S), NEW m \in S
  PROVE  /\ Len(s) \in Nat /\ Len(Append(s, m)) = Len(s) + 1
         /\ Append(s, m)[Len(s) + 1] = m
         /\ \A i \in 1 .. Len(s) : Append(s, m)[i] = s[i]
PROOF
  OBVIOUS

\* The places of a sequence that is one longer.
LEMMA Places ==
  ASSUME NEW n \in Nat
  PROVE  /\ \A j \in 1 .. n + 1 : j \in 1 .. n \/ j = n + 1
         /\ 1 .. n \subseteq 1 .. n + 1 /\ n + 1 \in 1 .. n + 1
         /\ \A j \in 1 .. n + 1 : ~(j > n + 1)
PROOF
  OBVIOUS

\* One more message.
LEMMA LeaveAppend ==
  ASSUME NEW s \in Seq(Message), NEW m \in Message, NEW c,
         Connecting(m) \/ (LeaveConnected(s, c) /\ ~Lost(m))
  PROVE  LeaveConnected(Append(s, m), c)
PROOF
  <1> DEFINE t == Append(s, m)
  <1> HIDE DEF t
  <1>1. /\ Len(s) \in Nat /\ Len(t) = Len(s) + 1 /\ t[Len(s) + 1] = m
        /\ \A i \in 1 .. Len(s) : t[i] = s[i]
    BY Appended DEF t
  <1>2. \A j \in 1 .. Len(t) : j \in 1 .. Len(s) \/ j = Len(s) + 1
    BY <1>1, Places
  <1>3. 1 .. Len(s) \subseteq 1 .. Len(t) /\ Len(s) + 1 \in 1 .. Len(t)
    BY <1>1, Places
  <1>4. CASE Connecting(m)
    <2>1. \A j \in 1 .. Len(t) : ~(j > Len(s) + 1)
      BY <1>1, Places
    <2> QED BY <1>1, <1>3, <1>4, <2>1 DEF LeaveConnected, t
  <1>5. CASE LeaveConnected(s, c) /\ ~Lost(m)
    <2>1. CASE c /\ \A j \in 1 .. Len(s) : ~Lost(s[j])
      <3>1. \A j \in 1 .. Len(t) : ~Lost(t[j])
        BY <1>1, <1>2, <1>5, <2>1
      <3> QED BY <2>1, <3>1 DEF LeaveConnected, t
    <2>2. ASSUME NEW i \in 1 .. Len(s), Connecting(s[i]),
                 \A j \in 1 .. Len(s) : j > i => ~Lost(s[j])
          PROVE  LeaveConnected(t, c)
      <3>1. i \in 1 .. Len(t) /\ Connecting(t[i])
        BY <1>1, <1>3, <2>2
      <3>2. \A j \in 1 .. Len(t) : j > i => ~Lost(t[j])
        BY <1>1, <1>2, <1>5, <2>2
      <3> QED BY <3>1, <3>2 DEF LeaveConnected
    <2> QED BY <1>5, <2>1, <2>2 DEF LeaveConnected, t
  <1> QED BY <1>4, <1>5

\* One message less, which left the client connected as d says.
LEMMA LeaveTail ==
  ASSUME NEW s \in Seq(Message), s # << >>, NEW c, NEW d, LeaveConnected(s, c),
         Connecting(s[1]) => d, c /\ ~Lost(s[1]) => d
  PROVE  LeaveConnected(Tail(s), d)
PROOF
  <1> DEFINE t == Tail(s)
  <1>1. /\ Len(s) \in Nat /\ Len(s) >= 1 /\ Len(t) = Len(s) - 1
        /\ \A i \in 1 .. Len(t) : t[i] = s[i + 1]
    OBVIOUS
  <1>2. \A j \in 1 .. Len(t) : j + 1 \in 1 .. Len(s) /\ j + 1 > 1
    BY <1>1
  <1>3. 1 \in 1 .. Len(s)
    BY <1>1
  <1> HIDE DEF t
  <1>4. CASE c /\ \A j \in 1 .. Len(s) : ~Lost(s[j])
    BY <1>1, <1>2, <1>3, <1>4 DEF LeaveConnected, t
  <1>5. ASSUME NEW i \in 1 .. Len(s), Connecting(s[i]),
               \A j \in 1 .. Len(s) : j > i => ~Lost(s[j])
        PROVE  LeaveConnected(t, d)
    <2>1. CASE i = 1
      BY <1>1, <1>2, <1>5, <2>1 DEF LeaveConnected
    <2>2. CASE i # 1
      <3>1. i - 1 \in 1 .. Len(t) /\ (i - 1) + 1 = i
        BY <1>1, <2>2
      <3>2. Connecting(t[i - 1])
        BY <1>1, <1>5, <3>1
      <3>3. \A j \in 1 .. Len(t) : j > i - 1 => ~Lost(t[j])
        BY <1>1, <1>2, <1>5
      <3> QED BY <3>1, <3>2, <3>3 DEF LeaveConnected
    <2> QED BY <2>1, <2>2
  <1> QED BY <1>4, <1>5 DEF LeaveConnected, t

\* What the service and the bus send.
LEMMA WillConnectService ==
  ASSUME IInv, WillConnect, Service
  PROVE  WillConnect'
PROOF
  <1>1. chan \in Seq(Message) /\ UNCHANGED <<client, connected>>
    BY DEF IInv, Types, Service, ServiceStart, ServiceStop, add_interface, remove_interface,
       emit_property_changed, get_objects, GetNameOwner, view
  <1>2. ASSUME NEW m \in Message, Send(m), client,
               Connecting(m) \/ (LeaveConnected(chan, connected) /\ ~Lost(m))
        PROVE  WillConnect'
    <2>1. chan' = Append(chan, m)
      BY <1>2 DEF Send, Matched
    <2>2. LeaveConnected(chan', connected)
      BY <1>1, <1>2, <2>1, LeaveAppend
    <2> QED BY <1>1, <2>2 DEF WillConnect, LeaveConnected
  <1>3. CASE ~client
    BY <1>1, <1>3 DEF WillConnect
  <1>4. CASE ServiceStop
    BY <1>4 DEF ServiceStop, WillConnect
  <1>5. CASE client /\ ServiceStart
    <2>1. /\ Send(NameOwnerChanged(TRUE)) /\ NameOwnerChanged(TRUE) \in Message
          /\ Connecting(NameOwnerChanged(TRUE))
      BY <1>5 DEF ServiceStart, NameOwnerChanged, Message, Connecting
    <2> QED BY <1>2, <1>5, <2>1
  <1>6. CASE client /\ GetNameOwner
    <2> DEFINE m == [type |-> "reply", up |-> up]
    <2>1. Send(m) /\ UNCHANGED up /\ m \in Message /\ (up => Connecting(m))
      BY <1>6 DEF GetNameOwner, service, Message, Connecting, IInv, Types
    <2> HIDE DEF m
    <2> QED BY <1>2, <1>6, <2>1 DEF WillConnect
  <1>7. ASSUME client, NEW m \in Message, ~Lost(m), Send(m), UNCHANGED <<names, up>>
        PROVE  WillConnect'
    BY <1>2, <1>7 DEF WillConnect
  <1>8. CASE client /\ get_objects
    <2> DEFINE m == IF up THEN [type |-> "objects", objs |-> objs] ELSE Error
    <2>1. Send(m) /\ UNCHANGED <<names, up>> /\ m \in Message /\ ~Lost(m)
      BY <1>8 DEF get_objects, service, Message, Error, Lost, IInv, Types
    <2> HIDE DEF m
    <2> QED BY <1>7, <1>8, <2>1
  <1>9. ASSUME client, NEW o \in Objects, remove_interface(o)
        PROVE  WillConnect'
    <2>1. /\ Send(InterfacesRemoved(o)) /\ UNCHANGED <<names, up>>
          /\ InterfacesRemoved(o) \in Message /\ ~Lost(InterfacesRemoved(o))
      BY <1>9 DEF remove_interface, InterfacesRemoved, Message, Lost
    <2> QED BY <1>7, <1>9, <2>1
  <1>10. ASSUME client, NEW o \in Objects, NEW v \in Values,
                add_interface(o, v) \/ emit_property_changed(o, v)
         PROVE  WillConnect'
    <2>1. /\ UNCHANGED <<names, up>>
          /\ Send(InterfacesAdded(o, v)) \/ Send(PropertiesChanged(o, v))
      BY <1>10 DEF add_interface, emit_property_changed
    <2>2. /\ InterfacesAdded(o, v) \in Message /\ PropertiesChanged(o, v) \in Message
          /\ ~Lost(InterfacesAdded(o, v)) /\ ~Lost(PropertiesChanged(o, v))
      BY DEF InterfacesAdded, PropertiesChanged, Message, Lost
    <2> QED BY <1>7, <1>10, <2>1, <2>2
  <1> QED BY <1>3, <1>4, <1>5, <1>6, <1>8, <1>9, <1>10 DEF Service

\* What the client takes off its connection.
LEMMA WillConnectReceive ==
  ASSUME IInv, WillConnect, Receive
  PROVE  WillConnect'
PROOF
  <1> DEFINE m == chan[1]
  <1>1. /\ chan \in Seq(Message) /\ chan # << >> /\ chan' = Tail(chan) /\ Head(chan) = m
        /\ UNCHANGED <<names, client, up>>
    BY DEF IInv, Types, Receive, service
  <1>2. connected' \in BOOLEAN /\ connected \in BOOLEAN
    BY DEF Receive, IInv, Types, service_filter, service_reply, signal_filter,
       get_managed_objects_reply, NoPendingCall, service_connect, service_disconnect
  <1>3. (Connecting(m) => connected') /\ (connected /\ ~Lost(m) => connected')
    BY <1>1 DEF Receive, service_filter, service_reply, signal_filter,
       get_managed_objects_reply, NoPendingCall, service_connect, service_disconnect,
       Connecting, Lost
  <1> HIDE DEF m
  <1>4. LeaveConnected(chan, connected) => LeaveConnected(chan', connected')
    BY <1>1, <1>3, LeaveTail DEF m
  <1> QED BY <1>1, <1>4 DEF WillConnect, LeaveConnected

\* A client whose service has its name is connected, or owed the news, however
\* service, bus and client interleave.
THEOREM ConnectedWhenQuietHolds == Spec => []ConnectedWhenQuiet
PROOF
  <1>1. Init => WillConnect
    BY DEF Init, WillConnect
  <1>2. IInv /\ WillConnect /\ [Next]_vars => WillConnect'
    <2> SUFFICES ASSUME IInv, WillConnect, [Next]_vars PROVE WillConnect'
      OBVIOUS
    <2>1. CASE g_dbus_client_new
      BY <2>1 DEF g_dbus_client_new, WillConnect
    <2>2. CASE g_dbus_client_unref
      BY <2>2 DEF g_dbus_client_unref, WillConnect
    <2>3. CASE Discard
      BY <2>3 DEF Discard, WillConnect, view
    <2>4. CASE UNCHANGED vars
      BY <2>4 DEF vars, service, view, WillConnect, LeaveConnected, Connecting, Lost
    <2> QED BY <2>1, <2>2, <2>3, <2>4, WillConnectService, WillConnectReceive DEF Next
  <1>3. WillConnect => ConnectedWhenQuiet
    BY DEF WillConnect, ConnectedWhenQuiet, LeaveConnected
  <1> QED BY <1>1, <1>2, <1>3, Invariance, PTL DEF Spec
=============================================================================
