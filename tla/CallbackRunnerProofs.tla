------------------------ MODULE CallbackRunnerProofs ------------------------
(***************************************************************************)
(* Theorems about CallbackRunner, for every set of callables and objects   *)
(* and every value of the bounds.                                          *)
(***************************************************************************)
EXTENDS CallbackRunner, FiniteSetTheorems, SequenceTheorems, TLAPS

-----------------------------------------------------------------------------
(* Inserting a node into a queue and removing one *)

\* A node inserted at p sits at p, what was before p stays, the rest moves up.
LEMMA InsertAtProperties ==
  ASSUME NEW q \in Seq(Node), NEW e \in Node, NEW p \in 1..(Len(q) + 1)
  PROVE  /\ InsertAt(q, p, e) \in Seq(Node)
         /\ Len(InsertAt(q, p, e)) = Len(q) + 1
         /\ \A i \in 1..(Len(q) + 1) :
              InsertAt(q, p, e)[i] = IF i < p THEN q[i] ELSE IF i = p THEN e ELSE q[i - 1]
<1> DEFINE front == SubSeq(q, 1, p - 1)
           back  == SubSeq(q, p, Len(q))
<1>1. /\ front \in Seq(Node)
      /\ Len(front) = p - 1
      /\ \A i \in 1..(p - 1) : front[i] = q[i]
  <2>1. \A i \in 1..(p - 1) : q[i] \in Node
    OBVIOUS
  <2> QED BY <2>1, SubSeqProperties
<1>2. /\ back \in Seq(Node)
      /\ Len(back) = Len(q) - p + 1
      /\ \A i \in 1..(Len(q) - p + 1) : back[i] = q[p + i - 1]
  <2>1. \A i \in p..Len(q) : q[i] \in Node
    OBVIOUS
  <2> QED BY <2>1, SubSeqProperties
<1>3. <<e>> \in Seq(Node) /\ Len(<<e>>) = 1 /\ <<e>>[1] = e
  OBVIOUS
<1> HIDE DEF front, back
<1>4. /\ front \o <<e>> \in Seq(Node)
      /\ Len(front \o <<e>>) = p
      /\ \A i \in 1..p : (front \o <<e>>)[i] = IF i < p THEN q[i] ELSE e
  BY <1>1, <1>3, ConcatProperties
<1>5. /\ (front \o <<e>>) \o back \in Seq(Node)
      /\ Len((front \o <<e>>) \o back) = Len(q) + 1
      /\ \A i \in 1..(Len(q) + 1) : ((front \o <<e>>) \o back)[i] =
           IF i <= p THEN (front \o <<e>>)[i] ELSE back[i - p]
  <2> DEFINE s == front \o <<e>>
  <2> HIDE DEF s
  <2>1. s \in Seq(Node) /\ Len(s) = p
    BY <1>4 DEF s
  <2>2. Len(s) + Len(back) = Len(q) + 1
    BY <1>2, <2>1
  <2>3. /\ s \o back \in Seq(Node)
        /\ Len(s \o back) = Len(s) + Len(back)
        /\ \A i \in 1..(Len(s) + Len(back)) :
             (s \o back)[i] = IF i <= Len(s) THEN s[i] ELSE back[i - Len(s)]
    BY <1>2, <2>1, ConcatProperties
  <2>4. /\ s \o back \in Seq(Node)
        /\ Len(s \o back) = Len(q) + 1
        /\ \A i \in 1..(Len(q) + 1) : (s \o back)[i] = IF i <= p THEN s[i] ELSE back[i - p]
    BY ONLY <2>1, <2>2, <2>3
  <2> QED BY <2>4 DEF s
<1>6. InsertAt(q, p, e) = (front \o <<e>>) \o back
  BY DEF InsertAt, front, back
<1> DEFINE s == InsertAt(q, p, e)
<1> HIDE DEF s
<1>7. \A i \in 1..(Len(q) + 1) : s[i] = IF i < p THEN q[i] ELSE IF i = p THEN e ELSE q[i - 1]
  <2> SUFFICES ASSUME NEW i \in 1..(Len(q) + 1)
               PROVE  s[i] = IF i < p THEN q[i] ELSE IF i = p THEN e ELSE q[i - 1]
    OBVIOUS
  <2>1. i \in Int /\ p \in Int /\ Len(q) \in Nat
    OBVIOUS
  <2>2. CASE i <= p
    <3>1. i \in 1..p
      BY <2>1, <2>2
    <3>2. s[i] = IF i < p THEN q[i] ELSE e
      BY ONLY <1>4, <1>5, <1>6, <2>2, <3>1, i \in 1..(Len(q) + 1) DEF s
    <3>3. ~(i < p) => i = p
      BY <2>1, <2>2
    <3> QED BY ONLY <3>2, <3>3
  <2>3. CASE i > p
    <3>1. s[i] = back[i - p]
      BY ONLY <1>5, <1>6, <2>1, <2>3, i \in 1..(Len(q) + 1) DEF s
    <3>2. i - p \in 1..(Len(q) - p + 1) /\ p + (i - p) - 1 = i - 1
      BY <2>1, <2>3
    <3>3. back[i - p] = q[i - 1]
      BY <1>2, <3>2
    <3> QED BY ONLY <2>1, <2>3, <3>1, <3>3
  <2> QED BY <2>1, <2>2, <2>3
<1> QED
  BY <1>5, <1>6, <1>7 DEF s

\* Removing at p keeps what was before p and moves the rest down.
LEMMA RemoveAtProperties ==
  ASSUME NEW q \in Seq(Node), NEW p \in 1..Len(q)
  PROVE  /\ RemoveAt(q, p) \in Seq(Node)
         /\ Len(RemoveAt(q, p)) = Len(q) - 1
         /\ \A i \in 1..(Len(q) - 1) :
              RemoveAt(q, p)[i] = IF i < p THEN q[i] ELSE q[i + 1]
<1> DEFINE front == SubSeq(q, 1, p - 1)
           back  == SubSeq(q, p + 1, Len(q))
<1>1. /\ front \in Seq(Node)
      /\ Len(front) = p - 1
      /\ \A i \in 1..(p - 1) : front[i] = q[i]
  <2>1. \A i \in 1..(p - 1) : q[i] \in Node
    OBVIOUS
  <2> QED BY <2>1, SubSeqProperties
<1>2. /\ back \in Seq(Node)
      /\ Len(back) = Len(q) - p
      /\ \A i \in 1..(Len(q) - p) : back[i] = q[p + i]
  <2>1. \A i \in (p + 1)..Len(q) : q[i] \in Node
    OBVIOUS
  <2> QED BY <2>1, SubSeqProperties
<1> HIDE DEF front, back
<1>3. /\ front \o back \in Seq(Node)
      /\ Len(front \o back) = Len(q) - 1
      /\ \A i \in 1..(Len(q) - 1) : (front \o back)[i] =
           IF i <= p - 1 THEN front[i] ELSE back[i - (p - 1)]
  <2>1. Len(front) + Len(back) = Len(q) - 1
    BY <1>1, <1>2
  <2>2. /\ front \o back \in Seq(Node)
        /\ Len(front \o back) = Len(front) + Len(back)
        /\ \A i \in 1..(Len(front) + Len(back)) : (front \o back)[i] =
             IF i <= Len(front) THEN front[i] ELSE back[i - Len(front)]
    BY <1>1, <1>2, ConcatProperties
  <2> QED BY <1>1, <2>1, <2>2
<1>4. RemoveAt(q, p) = front \o back
  BY DEF RemoveAt, front, back
<1> DEFINE s == RemoveAt(q, p)
<1> HIDE DEF s
<1>5. \A i \in 1..(Len(q) - 1) : s[i] = IF i < p THEN q[i] ELSE q[i + 1]
  <2> SUFFICES ASSUME NEW i \in 1..(Len(q) - 1)
               PROVE  s[i] = IF i < p THEN q[i] ELSE q[i + 1]
    OBVIOUS
  <2>1. i \in Int /\ p \in Int /\ Len(q) \in Nat
    OBVIOUS
  <2>2. s[i] = IF i <= p - 1 THEN front[i] ELSE back[i - (p - 1)]
    BY ONLY <1>3, <1>4, i \in 1..(Len(q) - 1) DEF s
  <2>3. CASE i < p
    <3>1. i \in 1..(p - 1) /\ i <= p - 1
      BY <2>1, <2>3
    <3> QED BY ONLY <1>1, <2>2, <2>3, <3>1
  <2>4. CASE ~(i < p)
    <3>1. i - (p - 1) \in 1..(Len(q) - p) /\ ~(i <= p - 1) /\ p + (i - (p - 1)) = i + 1
      BY <2>1, <2>4
    <3> QED BY ONLY <1>2, <2>2, <2>4, <3>1
  <2> QED BY <2>3, <2>4
<1> QED
  BY <1>3, <1>4, <1>5 DEF s

-----------------------------------------------------------------------------
(* Type correctness *)

\* Emplacing, erasing and rekeying nodes yields queues of nodes.
LEMMA QueueType ==
  ASSUME NEW q \in Seq(Node), NEW k \in Nat, NEW o \in Objs, NEW I \in SUBSET DOMAIN q
  PROVE  /\ Emplace(q, k, o) \subseteq Seq(Node)
         /\ Erase(q, I) \subseteq Seq(Node)
         /\ Rekey(q, I, k) \subseteq Seq(Node)
<1>1. [key |-> k, cb |-> o] \in Node
  BY DEF Node, Time
<1>2. \A r \in Seq(Node), n \in Objs : Emplace(r, k, n) \subseteq Seq(Node)
  <2> TAKE r \in Seq(Node), n \in Objs
  <2>1. [key |-> k, cb |-> n] \in Node
    BY DEF Node, Time
  <2> QED BY <2>1, InsertAtProperties DEF Emplace, UpperBound
<1>3. \A i \in I : RemoveAt(q, i) \in Seq(Node) /\ q[i].cb \in Objs
  <2> TAKE i \in I
  <2>1. i \in 1..Len(q)
    OBVIOUS
  <2>2. q[i] \in Node
    BY <2>1, ElementOfSeq
  <2> QED BY <2>1, <2>2, RemoveAtProperties DEF Node
<1>4. Emplace(q, k, o) \subseteq Seq(Node)
  BY <1>2
<1>5. Erase(q, I) \subseteq Seq(Node)
  BY <1>3 DEF Erase
<1>6. Rekey(q, I, k) \subseteq Seq(Node)
  BY <1>2, <1>3 DEF Rekey
<1> QED
  BY <1>4, <1>5, <1>6

\* Where the C++ code is, the callback being run and the frames agree.
ControlOK ==
  /\ pc = "ran" => currentCallback # None
  /\ \A i \in DOMAIN frames :
       /\ frames[i].by = "update" => currentCallback # None
       /\ frames[i].thread => frames[i].cb # None

TypeInv == TypeOK /\ ControlOK

LEMMA TypeInit == Init => TypeInv
<1> SUFFICES ASSUME Init PROVE TypeInv
  OBVIOUS
<1>1. Unused \in CallbackType
  BY TimeAssumption DEF Unused, CallbackType, Status, Time
<1>2. TypeOK
  <2> USE DEF Init, Time
  <2>1. now \in 0..MaxTime /\ calls \in 0..MaxCalls /\ events \in 0..MaxEvents
    BY TimeAssumption, BoundAssumption
  <2>2. cb \in [Objs -> CallbackType]
    BY <1>1
  <2>3. activeCallbacks \in Seq(Node) /\ frames \in Seq(Frame)
    OBVIOUS
  <2>4. pass \in [key : Time, newDeadline : Time, itValid : BOOLEAN]
    OBVIOUS
  <2>5. registry \in [Callables -> Objs \cup {None}] /\ callbackNames \in [Names -> Objs \cup {None}]
    OBVIOUS
  <2> QED BY <2>1, <2>2, <2>3, <2>4, <2>5 DEF TypeOK
<1>3. ControlOK
  BY DEF Init, ControlOK
<1> QED
  BY <1>2, <1>3 DEF TypeInv

\* When a piece of Lua code ends, the frames below it are what they were, and
\* update() goes on only if there is a current callback.
LEMMA LeaveType ==
  ASSUME TypeInv, frames # <<>>, Leave
  PROVE  /\ frames' \in Seq(Frame)
         /\ pc' \in {"wait", "loop", "ran"}
         /\ \A i \in DOMAIN frames' : i \in DOMAIN frames /\ frames'[i] = frames[i]
         /\ pc' = "ran" => currentCallback # None
<1>1. frames \in Seq(Frame) /\ Len(frames) \in Nat \ {0}
  BY EmptySeq DEF TypeInv, TypeOK
<1>2. \A i \in 1..(Len(frames) - 1) : frames[i] \in Frame
  BY <1>1
<1>3. /\ SubSeq(frames, 1, Len(frames) - 1) \in Seq(Frame)
      /\ Len(SubSeq(frames, 1, Len(frames) - 1)) = Len(frames) - 1
      /\ \A i \in 1..(Len(frames) - 1) : SubSeq(frames, 1, Len(frames) - 1)[i] = frames[i]
  <2> DEFINE n == Len(frames) - 1
  <2>1. n \in Nat /\ n - 1 + 1 = n /\ (\A i \in 1..n : frames[i] \in Frame)
    BY <1>1, <1>2
  <2> HIDE DEF n
  <2>2. /\ SubSeq(frames, 1, n) \in Seq(Frame)
        /\ Len(SubSeq(frames, 1, n)) = n
        /\ \A i \in 1..n : SubSeq(frames, 1, n)[i] = frames[i]
    <3>1. /\ SubSeq(frames, 1, n) \in Seq(Frame)
          /\ Len(SubSeq(frames, 1, n)) = IF 1 <= n THEN n - 1 + 1 ELSE 0
          /\ \A i \in 1..(n - 1 + 1) : SubSeq(frames, 1, n)[i] = frames[1 + i - 1]
      BY <2>1, SubSeqProperties
    <3> QED BY <2>1, <3>1
  <2> QED BY <2>2 DEF n
<1>4. frames' = SubSeq(frames, 1, Len(frames) - 1)
  BY DEF Leave, Front
<1>5. \A i \in DOMAIN frames' : i \in DOMAIN frames /\ frames'[i] = frames[i]
  BY <1>1, <1>3, <1>4
<1>6. Len(frames) \in DOMAIN frames
  BY <1>1
<1>7. pc' \in {"wait", "loop", "ran"} /\ (pc' = "ran" => currentCallback # None)
  BY <1>6 DEF Leave, Top, TypeInv, TypeOK, ControlOK
<1> QED
  BY <1>3, <1>4, <1>5, <1>7

\* Whether or not the Lua wrapper yields, the frames stay well formed.
LEMMA YieldIfCallingType ==
  ASSUME TypeInv, frames # <<>>, NEW o, YieldIfCalling(o), UNCHANGED currentCallback
  PROVE  /\ frames' \in Seq(Frame)
         /\ pc' \in {"wait", "loop", "ran"}
         /\ ControlOK'
<1>1. CASE Leave
  BY <1>1, LeaveType DEF ControlOK, TypeInv
<1>2. CASE UNCHANGED <<frames, pc>>
  BY <1>2 DEF ControlOK, TypeInv, TypeOK
<1> QED
  BY <1>1, <1>2 DEF YieldIfCalling

\* A callback found under a key is a Callback object.
LEMMA FindType ==
  ASSUME TypeInv, NEW key \in Callables \cup Names, findCallback(key) # None
  PROVE  findCallback(key) \in Objs
BY CallableAssumption DEF TypeInv, TypeOK, findCallback

\* What the clock plus an argument of the script adds up to is a time.
LEMMA ArithmeticType ==
  ASSUME TypeInv
  PROVE  /\ now \in Nat
         /\ \A d \in Nat : DeadlineAfter(d) \in Nat /\ d % IntervalRange \in Nat
         /\ \A i \in Intervals \cup {None} : validateInputInterval(i) \in Nat \ {0}
<1>1. now \in Nat
  BY TimeAssumption DEF TypeInv, TypeOK
<1>2. \A d \in Nat : d % IntervalRange \in Nat
  BY TimeAssumption
<1>3. \A d \in Nat : DeadlineAfter(d) \in Nat /\ d % IntervalRange \in Nat
  BY <1>1, <1>2, TimeAssumption DEF DeadlineAfter
<1>4. \A i \in Intervals \cup {None} : validateInputInterval(i) \in Nat \ {0}
  <2> SUFFICES ASSUME NEW i \in Intervals \cup {None}
               PROVE  validateInputInterval(i) \in Nat \ {0}
    OBVIOUS
  <2>1. CASE i = None
    BY <2>1, TimeAssumption DEF validateInputInterval
  <2>2. CASE i # None
    <3>1. i % IntervalRange \in Nat
      BY <1>2, <2>2, TimeAssumption
    <3> QED BY <2>2, <3>1, TimeAssumption DEF validateInputInterval
  <2> QED BY <2>1, <2>2
<1> QED
  BY <1>1, <1>3, <1>4

\* A new callback leaves the tables well typed.
LEMMA EnqueueType ==
  ASSUME TypeInv, NEW o \in Objs, NEW c \in Callables, NEW name \in Names \cup {None},
         NEW i \in Intervals \cup {None}, NEW d \in Nat, NEW once \in BOOLEAN,
         Enqueue(o, c, name, i, d, once)
  PROVE  /\ cb' \in [Objs -> CallbackType]
         /\ activeCallbacks' \in Seq(Node)
         /\ registry' \in [Callables -> Objs \cup {None}]
         /\ callbackNames' \in [Names -> Objs \cup {None}]
         /\ lastAdded' \in Objs
         /\ nextUpdate' \in Time
<1>1. DeadlineAfter(d) \in Nat /\ validateInputInterval(i) \in Nat \ {0}
  BY ArithmeticType
<1>2. NewCallback(c, name, i, DeadlineAfter(d), once) \in CallbackType
  BY <1>1 DEF NewCallback, CallbackType, Status, Time
<1>3. cb' \in [Objs -> CallbackType]
  BY <1>2 DEF Enqueue, TypeInv, TypeOK
<1>4. activeCallbacks' \in Seq(Node)
  <2>1. Emplace(activeCallbacks, DeadlineAfter(d), o) \subseteq Seq(Node)
    BY <1>1, QueueType DEF TypeInv, TypeOK
  <2> QED BY <2>1 DEF Enqueue
<1>5. nextUpdate' \in Time
  BY ArithmeticType DEF Enqueue, maybeAwaken, TypeInv, TypeOK, Time
<1>6. /\ registry' \in [Callables -> Objs \cup {None}]
      /\ callbackNames' \in [Names -> Objs \cup {None}]
      /\ lastAdded' \in Objs
  BY DEF Enqueue, TypeInv, TypeOK
<1> QED
  BY <1>3, <1>4, <1>5, <1>6

\* A callback added again stays a callback.
LEMMA AlreadyAddedType ==
  ASSUME TypeInv, NEW o \in Objs, NEW i \in Intervals \cup {None}, NEW d \in Nat
  PROVE  AlreadyAdded(o, i, d % IntervalRange) \in CallbackType
<1>1. /\ d % IntervalRange \in Nat
      /\ DeadlineAfter(d % IntervalRange) \in Nat
      /\ validateInputInterval(i) \in Nat \ {0}
  BY ArithmeticType
<1>2. cb[o] \in CallbackType
  BY DEF TypeInv, TypeOK
<1> QED
  BY <1>1, <1>2 DEF AlreadyAdded, CallbackType, Time

\* Removing a callback leaves the tables well typed.
LEMMA UnregisterType ==
  ASSUME TypeInv, NEW o \in Objs, Unregister(o)
  PROVE  /\ registry' \in [Callables -> Objs \cup {None}]
         /\ callbackNames' \in [Names -> Objs \cup {None}]
BY DEF TypeInv, TypeOK, Unregister

LEMMA ActuallyRemoveType ==
  ASSUME TypeInv, NEW o \in Objs, ActuallyRemove(o) \/ ActuallyRemoveHeld(o)
  PROVE  /\ registry' \in [Callables -> Objs \cup {None}]
         /\ callbackNames' \in [Names -> Objs \cup {None}]
         /\ activeCallbacks' \in Seq(Node)
         /\ pass' \in [key : Time, newDeadline : Time, itValid : BOOLEAN]
         /\ ub' \in BOOLEAN
<1>1. \A I \in SUBSET DOMAIN activeCallbacks : Erase(activeCallbacks, I) \subseteq Seq(Node)
  BY QueueType, ArithmeticType DEF TypeInv, TypeOK
<1>2. \A n : findActiveCallback(n) \in SUBSET DOMAIN activeCallbacks
  BY DEF findActiveCallback
<1>3. HeldNode \in SUBSET DOMAIN activeCallbacks
  BY DEF HeldNode
<1>4. CASE ActuallyRemove(o)
  <2>1. activeCallbacks' \in Seq(Node)
    BY <1>1, <1>2, <1>4 DEF ActuallyRemove
  <2>2. pass' \in [key : Time, newDeadline : Time, itValid : BOOLEAN]
    BY <1>4 DEF ActuallyRemove, HoldsAfterErasing, TypeInv, TypeOK
  <2> QED BY <1>4, <2>1, <2>2, UnregisterType DEF ActuallyRemove, TypeInv, TypeOK
<1>5. CASE ActuallyRemoveHeld(o)
  <2>1. activeCallbacks' \in Seq(Node)
    BY <1>1, <1>3, <1>5 DEF ActuallyRemoveHeld, TypeInv, TypeOK
  <2>2. pass' \in [key : Time, newDeadline : Time, itValid : BOOLEAN]
    BY <1>5 DEF ActuallyRemoveHeld, TypeInv, TypeOK
  <2> QED BY <1>5, <2>1, <2>2, UnregisterType DEF ActuallyRemoveHeld, TypeInv, TypeOK
<1> QED
  BY <1>4, <1>5

\* Every step of the runner keeps the types.
LEMMA TypeNext == TypeInv /\ [Next]_vars => TypeInv'
<1> SUFFICES ASSUME TypeInv, [Next]_vars PROVE TypeInv'
  OBVIOUS
<1> USE DEF TypeInv
<1>0. TypeOK /\ ControlOK
  OBVIOUS
<1>a. /\ activeCallbacks \in Seq(Node)
      /\ DOMAIN activeCallbacks = 1..Len(activeCallbacks)
      /\ Len(activeCallbacks) \in Nat
      /\ \A o : findActiveCallback(o) \in SUBSET DOMAIN activeCallbacks
      /\ HeldNode \in SUBSET DOMAIN activeCallbacks
  BY DEF TypeOK, findActiveCallback, HeldNode
<1>b. /\ frames \in Seq(Frame)
      /\ Len(frames) \in Nat
      /\ frames # <<>> => Len(frames) \in DOMAIN frames /\ Top \in Frame /\ Len(frames) \in 1..Len(frames)
  BY EmptySeq DEF TypeOK, Top
<1>c. Calling => calls' \in 0..MaxCalls /\ frames # <<>> /\ ub = FALSE
  BY BoundAssumption DEF TypeOK, Calling
<1>1. ASSUME NEW c \in Callables, NEW n \in Names \cup {None},
             NEW i \in Intervals \cup {None}, NEW d \in Delays,
             addCallback(c, n, i, d)
      PROVE  TypeInv'
  <2>1. CASE \E o \in Objs : Enqueue(o, c, n, i, d, FALSE)
    <3>1. PICK o \in Objs : Enqueue(o, c, n, i, d, FALSE)
      BY <2>1
    <3>2. /\ Calling
          /\ UNCHANGED <<now, loopVars, pass, frames, pc, events, ub>>
      BY <1>1 DEF addCallback
    <3>3. /\ cb' \in [Objs -> CallbackType]
          /\ activeCallbacks' \in Seq(Node)
          /\ registry' \in [Callables -> Objs \cup {None}]
          /\ callbackNames' \in [Names -> Objs \cup {None}]
          /\ lastAdded' \in Objs
          /\ nextUpdate' \in Time
      BY <3>1, EnqueueType, TimeAssumption
    <3>4. TypeOK'
      BY <1>c, <3>2, <3>3 DEF TypeOK, loopVars
    <3>5. ControlOK'
      BY <3>2 DEF ControlOK, loopVars
    <3> QED BY <3>4, <3>5
  <2>2. CASE /\ registry[c] # None
             /\ cb' = [cb EXCEPT ![registry[c]] = AlreadyAdded(registry[c], i, d % IntervalRange)]
             /\ maybeAwaken(cb', cb'[registry[c]].deadline)
             /\ UNCHANGED <<queueVars, lastAdded>>
    <3>1. registry[c] \in Objs
      BY <2>2 DEF TypeOK
    <3>2. AlreadyAdded(registry[c], i, d % IntervalRange) \in CallbackType
      BY <3>1, AlreadyAddedType, TimeAssumption
    <3>3. cb' \in [Objs -> CallbackType]
      BY <2>2, <3>1, <3>2 DEF TypeOK
    <3>4. nextUpdate' \in Time
      BY <2>2, ArithmeticType DEF maybeAwaken, TypeOK, Time
    <3>5. TypeOK'
      <4>1. Calling /\ UNCHANGED <<now, loopVars, pass, frames, pc, events, ub>>
        BY <1>1 DEF addCallback
      <4> QED BY <1>c, <2>2, <3>3, <3>4, <4>1 DEF TypeOK, loopVars, queueVars
    <3>6. ControlOK'
      BY <1>1 DEF ControlOK, addCallback, loopVars
    <3> QED BY <3>5, <3>6
  <2> QED BY <1>1, <2>1, <2>2 DEF addCallback
<1>2. ASSUME NEW c \in Functions, NEW d \in Delays, callOnce(c, d)
      PROVE  TypeInv'
  <2>0. ControlOK'
    BY <1>2 DEF ControlOK, callOnce, loopVars
  <2>1. CASE \E o \in Objs : Enqueue(o, c, None, None, d, TRUE) /\ UNCHANGED ub
    <3>1. PICK o \in Objs : Enqueue(o, c, None, None, d, TRUE) /\ UNCHANGED ub
      BY <2>1
    <3>2. /\ Calling
          /\ UNCHANGED <<now, loopVars, pass, frames, pc, events>>
      BY <1>2 DEF callOnce
    <3>3. c \in Callables /\ d \in Nat
      BY TimeAssumption DEF Callables
    <3>4. /\ cb' \in [Objs -> CallbackType]
          /\ activeCallbacks' \in Seq(Node)
          /\ registry' \in [Callables -> Objs \cup {None}]
          /\ callbackNames' \in [Names -> Objs \cup {None}]
          /\ lastAdded' \in Objs
          /\ nextUpdate' \in Time
      BY <3>1, <3>3, EnqueueType
    <3>5. TypeOK'
      BY <1>c, <3>1, <3>2, <3>4 DEF TypeOK, loopVars
    <3> QED BY <2>0, <3>5
  <2>2. CASE ~\E o \in Objs : Enqueue(o, c, None, None, d, TRUE) /\ UNCHANGED ub
    <3> DEFINE o    == registry[c]
               next == [cb EXCEPT ![o] = AlreadyAdded(o, None, d % IntervalRange)]
    <3>1. /\ o # None
          /\ ub' = (lastAdded \in FreeObjs)
          /\ cb' = [next EXCEPT ![lastAdded].runOnce = TRUE]
          /\ maybeAwaken(next, next[o].deadline)
          /\ UNCHANGED <<queueVars, lastAdded>>
      BY <1>2, <2>2 DEF callOnce
    <3>2. o \in Objs
      BY <3>1 DEF TypeOK, Callables
    <3>3. AlreadyAdded(o, None, d % IntervalRange) \in CallbackType
      BY <3>2, AlreadyAddedType, TimeAssumption
    <3>4. next \in [Objs -> CallbackType]
      BY <3>3 DEF TypeOK
    <3> HIDE DEF next
    <3>5. cb' \in [Objs -> CallbackType]
      <4>1. \A n \in Objs : [next[n] EXCEPT !.runOnce = TRUE] \in CallbackType
        BY <3>4 DEF CallbackType
      <4> QED BY <3>1, <3>4, <4>1
    <3>6. nextUpdate' \in Time
      BY <3>1, ArithmeticType DEF maybeAwaken, TypeOK, Time
    <3>7. TypeOK'
      <4>1. Calling /\ UNCHANGED <<now, loopVars, pass, frames, pc, events>>
        BY <1>2 DEF callOnce
      <4>2. ub' \in BOOLEAN
        BY <3>1
      <4> QED BY <1>c, <3>1, <3>5, <3>6, <4>1, <4>2 DEF TypeOK, loopVars, queueVars
    <3> QED BY <2>0, <3>7
  <2> QED BY <2>1, <2>2
<1>3. ASSUME NEW c \in Threads, initActionThread(c)
      PROVE  TypeInv'
  <2>1. PICK o \in Objs :
          /\ Enqueue(o, c, None, None, 0, FALSE)
          /\ frames' = Append(frames, [by |-> "init", cb |-> o, thread |-> TRUE])
    BY <1>3 DEF initActionThread
  <2>2. [by |-> "init", cb |-> o, thread |-> TRUE] \in Frame
    BY DEF Frame
  <2>3. /\ frames' \in Seq(Frame)
        /\ DOMAIN frames' = 1..(Len(frames) + 1)
        /\ \A i \in 1..Len(frames) : frames'[i] = frames[i]
        /\ frames'[Len(frames) + 1] = [by |-> "init", cb |-> o, thread |-> TRUE]
    BY <1>b, <2>1, <2>2, AppendProperties
  <2>4. TypeOK'
    <3>1. Calling /\ UNCHANGED <<now, loopVars, pass, pc, events, ub>>
      BY <1>3 DEF initActionThread
    <3>2. c \in Callables /\ 0 \in Nat
      BY DEF Callables
    <3>3. /\ cb' \in [Objs -> CallbackType]
          /\ activeCallbacks' \in Seq(Node)
          /\ registry' \in [Callables -> Objs \cup {None}]
          /\ callbackNames' \in [Names -> Objs \cup {None}]
          /\ lastAdded' \in Objs
          /\ nextUpdate' \in Time
      BY <2>1, <3>2, EnqueueType
    <3> QED BY <1>c, <2>3, <3>1, <3>3 DEF TypeOK, loopVars
  <2>5. ControlOK'
    <3>1. UNCHANGED <<currentCallback, pc>>
      BY <1>3 DEF initActionThread, loopVars
    <3>2. \A i \in DOMAIN frames' : i \in DOMAIN frames \/ i = Len(frames) + 1
      BY <1>b, <2>3
    <3>3. o # None
      BY NoneAssumption
    <3> QED BY <1>b, <2>3, <3>1, <3>2, <3>3 DEF ControlOK
  <2> QED BY <2>4, <2>5
<1>4. ASSUME NEW key \in Callables \cup Names, removeCallback(key)
      PROVE  TypeInv'
  <2> DEFINE o == findCallback(key)
  <2>1. o \in Objs
    BY <1>4, FindType DEF removeCallback
  <2>2. cb' \in [Objs -> CallbackType]
    <3>1. cb[o] \in CallbackType
      BY <2>1 DEF TypeOK
    <3>2. Triggered(cb[o].threadEvent, "removed") \in {"none", "pending", "returned", "removed"}
      BY <3>1 DEF Triggered, CallbackType
    <3>3. [cb[o] EXCEPT !.status = "Removed", !.threadEvent = Triggered(@, "removed")] \in CallbackType
      BY <3>1, <3>2 DEF CallbackType, Status
    <3>4. cb' = [cb EXCEPT ![o] = [cb[o] EXCEPT !.status = "Removed",
                                               !.threadEvent = Triggered(@, "removed")]]
      BY <1>4, <2>1 DEF removeCallback, TypeOK
    <3> QED BY <2>1, <3>3, <3>4 DEF TypeOK
  <2>3. ActuallyRemove(o)
    BY <1>4 DEF removeCallback
  <2> HIDE DEF o
  <2>4. TypeOK'
    <3>1. Calling /\ UNCHANGED <<now, lastAdded, nextUpdate, loopVars, frames, pc, events>>
      BY <1>4 DEF removeCallback
    <3> QED BY <1>c, <2>1, <2>2, <2>3, <3>1, ActuallyRemoveType DEF TypeOK, loopVars
  <2>5. ControlOK'
    BY <1>4 DEF removeCallback, ControlOK, loopVars
  <2> QED BY <2>4, <2>5
<1>5. ASSUME NEW key \in Callables \cup Names, NEW t \in Timeouts, setCallbackTimeout(key, t)
      PROVE  TypeInv'
  <2> DEFINE o == findCallback(key)
  <2>1. o \in Objs
    BY <1>5, FindType DEF setCallbackTimeout
  <2>2. now + t \in Nat
    BY ArithmeticType, TimeAssumption
  <2>3. /\ Calling
        /\ YieldIfCalling(o)
        /\ UNCHANGED <<now, registry, callbackNames, lastAdded, nextUpdate, loopVars, pass,
                       events, ub>>
        /\ cb' = [cb EXCEPT ![o].deadline = now + t, ![o].status = "Suspended"]
        /\ activeCallbacks' \in IF o = currentCallback \/ findActiveCallback(o) = {}
                                THEN {activeCallbacks}
                                ELSE Rekey(activeCallbacks, findActiveCallback(o), now + t)
    BY <1>5 DEF setCallbackTimeout
  <2> HIDE DEF o
  <2>4. cb' \in [Objs -> CallbackType]
    <3>0. cb[o] \in CallbackType
      BY <2>1 DEF TypeOK
    <3>1. [cb[o] EXCEPT !.deadline = now + t, !.status = "Suspended"] \in CallbackType
      BY <2>2, <3>0 DEF CallbackType, Status, Time
    <3>2. cb' = [cb EXCEPT ![o] = [cb[o] EXCEPT !.deadline = now + t, !.status = "Suspended"]]
      BY <2>1, <2>3 DEF TypeOK
    <3> QED BY <2>1, <3>1, <3>2 DEF TypeOK
  <2>5. activeCallbacks' \in Seq(Node)
    BY <1>a, <2>1, <2>2, <2>3, QueueType
  <2>6. frames' \in Seq(Frame) /\ pc' \in {"wait", "loop", "ran"} /\ ControlOK'
    BY <1>c, <2>3, YieldIfCallingType DEF loopVars
  <2>7. TypeOK'
    BY <1>c, <2>3, <2>4, <2>5, <2>6 DEF TypeOK, loopVars
  <2> QED BY <2>6, <2>7
<1>6. ASSUME NEW key \in Callables \cup Names, setCallbackTimeoutIndefinite(key)
      PROVE  TypeInv'
  <2> DEFINE o == findCallback(key)
  <2>1. o \in Objs
    BY <1>6, FindType DEF setCallbackTimeoutIndefinite
  <2>2. /\ Calling
        /\ YieldIfCalling(o)
        /\ UNCHANGED <<now, registry, callbackNames, lastAdded, nextUpdate, loopVars, events, ub>>
        /\ cb' = [cb EXCEPT ![o].deadline = INDEFINITE, ![o].status = "Suspended"]
        /\ activeCallbacks' \in Erase(activeCallbacks, findActiveCallback(o))
        /\ pass' = HoldsAfterErasing(o, findActiveCallback(o))
    BY <1>6 DEF setCallbackTimeoutIndefinite
  <2> HIDE DEF o
  <2>3. cb' \in [Objs -> CallbackType]
    <3>0. cb[o] \in CallbackType
      BY <2>1 DEF TypeOK
    <3>1. [cb[o] EXCEPT !.deadline = INDEFINITE, !.status = "Suspended"] \in CallbackType
      BY <3>0, TimeAssumption DEF CallbackType, Status, Time
    <3>2. cb' = [cb EXCEPT ![o] = [cb[o] EXCEPT !.deadline = INDEFINITE, !.status = "Suspended"]]
      BY <2>1, <2>2 DEF TypeOK
    <3> QED BY <2>1, <3>1, <3>2 DEF TypeOK
  <2>4. activeCallbacks' \in Seq(Node)
    BY <1>a, <2>1, <2>2, ArithmeticType, QueueType
  <2>5. pass' \in [key : Time, newDeadline : Time, itValid : BOOLEAN]
    BY <2>2 DEF TypeOK, HoldsAfterErasing
  <2>6. frames' \in Seq(Frame) /\ pc' \in {"wait", "loop", "ran"} /\ ControlOK'
    BY <1>c, <2>2, YieldIfCallingType DEF loopVars
  <2>7. TypeOK'
    BY <1>c, <2>2, <2>3, <2>4, <2>5, <2>6 DEF TypeOK, loopVars
  <2> QED BY <2>6, <2>7
<1>7. ASSUME NEW key \in Callables \cup Names, cancelCallbackTimeout(key)
      PROVE  TypeInv'
  <2> DEFINE o == findCallback(key)
  <2>1. o \in Objs
    BY <1>7, FindType DEF cancelCallbackTimeout
  <2>2. /\ Calling
        /\ UNCHANGED <<now, registry, callbackNames, lastAdded, loopVars, pass, frames, pc, events>>
        /\ cb' = [cb EXCEPT ![o].deadline = now]
        /\ nextUpdate' = now
    BY <1>7 DEF cancelCallbackTimeout, onCallbackAwake
  <2>3. ub' \in BOOLEAN /\ activeCallbacks' \in Seq(Node)
    <3>1. now \in Nat
      BY ArithmeticType
    <3>2. CASE activeCallbacks' \in Emplace(activeCallbacks, now, o) /\ UNCHANGED ub
      BY <1>a, <2>1, <3>1, <3>2, QueueType DEF TypeOK
    <3>3. CASE /\ ub' = (findActiveCallback(o) = {})
               /\ activeCallbacks' \in IF findActiveCallback(o) = {} THEN {activeCallbacks}
                                       ELSE Rekey(activeCallbacks, findActiveCallback(o), now)
      BY <1>a, <2>1, <3>1, <3>3, QueueType
    <3> QED BY <1>7, <3>2, <3>3 DEF cancelCallbackTimeout
  <2> HIDE DEF o
  <2>4. cb' \in [Objs -> CallbackType]
    <3>1. cb[o] \in CallbackType
      BY <2>1 DEF TypeOK
    <3>2. [cb[o] EXCEPT !.deadline = now] \in CallbackType
      BY <3>1, ArithmeticType DEF CallbackType, Time
    <3>3. cb' = [cb EXCEPT ![o] = [cb[o] EXCEPT !.deadline = now]]
      BY <2>1, <2>2 DEF TypeOK
    <3> QED BY <2>1, <3>2, <3>3 DEF TypeOK
  <2>5. TypeOK'
    BY <1>c, <2>2, <2>3, <2>4, ArithmeticType DEF TypeOK, loopVars, Time
  <2>6. ControlOK'
    BY <2>2 DEF ControlOK, loopVars
  <2> QED BY <2>5, <2>6
<1>8. CASE Return \/ Yield
  <2>1. /\ frames # <<>> /\ Leave
        /\ UNCHANGED <<now, cb, queueVars, lastAdded, nextUpdate, loopVars, pass, calls, events, ub>>
    BY <1>8 DEF Return, Yield
  <2>2. TypeOK'
    BY <2>1, LeaveType DEF TypeOK, queueVars, loopVars
  <2>3. ControlOK'
    BY <2>1, LeaveType DEF ControlOK, loopVars
  <2> QED BY <2>2, <2>3
<1>9. ASSUME NEW payload \in {"returned", "removed"}, Finish(payload)
      PROVE  TypeInv'
  <2> DEFINE o == Top.cb
  <2>1. /\ frames # <<>>
        /\ ActuallyRemove(o) \/ ActuallyRemoveHeld(o)
        /\ cb' = [cb EXCEPT ![o].status = "Removed",
                            ![o].threadEvent = Triggered(@, payload)]
        /\ frames' = [frames EXCEPT ![Len(frames)].thread = FALSE]
        /\ UNCHANGED <<now, lastAdded, nextUpdate, loopVars, pc, calls, events>>
    BY <1>9 DEF Finish
  <2>2. o \in Objs
    BY <1>9, <1>b, <2>1 DEF Finish, Top, ControlOK, Frame
  <2>3. /\ registry' \in [Callables -> Objs \cup {None}]
        /\ callbackNames' \in [Names -> Objs \cup {None}]
        /\ activeCallbacks' \in Seq(Node)
        /\ pass' \in [key : Time, newDeadline : Time, itValid : BOOLEAN]
        /\ ub' \in BOOLEAN
    BY <2>1, <2>2, ActuallyRemoveType
  <2> HIDE DEF o
  <2>4. cb' \in [Objs -> CallbackType]
    <3>1. cb[o] \in CallbackType
      BY <2>2 DEF TypeOK
    <3>2. Triggered(cb[o].threadEvent, payload) \in {"none", "pending", "returned", "removed"}
      BY <1>9, <3>1 DEF Triggered, CallbackType
    <3>3. [cb[o] EXCEPT !.status = "Removed", !.threadEvent = Triggered(@, payload)] \in CallbackType
      BY <3>1, <3>2 DEF CallbackType, Status
    <3>4. cb' = [cb EXCEPT ![o] = [cb[o] EXCEPT !.status = "Removed",
                                               !.threadEvent = Triggered(@, payload)]]
      BY <2>1, <2>2 DEF TypeOK
    <3> QED BY <2>2, <3>3, <3>4 DEF TypeOK
  <2>5. [Top EXCEPT !.thread = FALSE] \in Frame
    BY <1>b, <2>1 DEF Frame
  <2>6. /\ frames' \in Seq(Frame)
        /\ DOMAIN frames' = DOMAIN frames
        /\ \A i \in DOMAIN frames :
             frames'[i] = IF i = Len(frames) THEN [Top EXCEPT !.thread = FALSE] ELSE frames[i]
    BY <1>b, <2>1, <2>5, ExceptSeq DEF Top
  <2>7. TypeOK'
    BY <2>1, <2>3, <2>4, <2>6 DEF TypeOK, loopVars
  <2>8. ControlOK'
    BY <1>b, <2>1, <2>6 DEF ControlOK, loopVars, Top, Frame
  <2> QED BY <2>7, <2>8
<1>10. CASE UpdateBegin
  <2>1. TypeOK'
    BY <1>10 DEF TypeOK, UpdateBegin, queueVars
  <2>2. ControlOK'
    BY <1>10 DEF ControlOK, UpdateBegin
  <2> QED BY <2>1, <2>2
<1>11. CASE RunCallback
  <2> DEFINE node == Head(activeCallbacks)
             o    == node.cb
  <2>1. activeCallbacks # <<>>
    BY <1>11 DEF RunCallback, PassGoesOn
  <2>2. node \in Node
    BY <1>a, <2>1, HeadTailProperties
  <2>3. o \in Objs /\ node.key \in Nat
    BY <2>2 DEF Node, Time
  <2>4. /\ pass' = [key |-> node.key, newDeadline |-> now + cb[o].interval, itValid |-> TRUE]
        /\ currentCallback' = o
        /\ cb' = [cb EXCEPT ![o].status = "Active"]
        /\ frames' = <<[by |-> "update", cb |-> o, thread |-> IsThread(o)]>>
        /\ UNCHANGED <<now, queueVars, lastAdded, nextUpdate, visited, pc, calls, events, ub>>
    BY <1>11 DEF RunCallback
  <2> HIDE DEF o, node
  <2>5. cb[o] \in CallbackType
    BY <2>3 DEF TypeOK
  <2>6. cb' \in [Objs -> CallbackType]
    <3>1. [cb[o] EXCEPT !.status = "Active"] \in CallbackType
      BY <2>5 DEF CallbackType, Status
    <3>2. cb' = [cb EXCEPT ![o] = [cb[o] EXCEPT !.status = "Active"]]
      BY <2>3, <2>4 DEF TypeOK
    <3> QED BY <2>3, <3>1, <3>2 DEF TypeOK
  <2>7. pass' \in [key : Time, newDeadline : Time, itValid : BOOLEAN]
    <3>1. cb[o].interval \in Nat
      BY <2>5 DEF CallbackType
    <3> QED BY <2>3, <2>4, <3>1, ArithmeticType DEF Time
  <2>8. /\ frames' \in Seq(Frame)
        /\ DOMAIN frames' = {1}
        /\ frames'[1].cb = o
    <3>1. [by |-> "update", cb |-> o, thread |-> IsThread(o)] \in Frame
      BY <2>3 DEF Frame, IsThread
    <3> QED BY <2>4, <3>1
  <2>9. TypeOK'
    BY <2>3, <2>4, <2>6, <2>7, <2>8 DEF TypeOK, queueVars
  <2>10. ControlOK'
    BY <2>3, <2>4, <2>8, NoneAssumption DEF ControlOK
  <2> QED BY <2>9, <2>10
<1>12. CASE RemoveRunOnce
  <2> DEFINE o == currentCallback
  <2>1. o \in Objs
    BY <1>12 DEF RemoveRunOnce, ControlOK, TypeOK
  <2>2. /\ ActuallyRemoveHeld(o)
        /\ cb' = [cb EXCEPT ![o].status = "Removed"]
        /\ pc' = "loop"
        /\ UNCHANGED <<now, lastAdded, nextUpdate, loopVars, frames, calls, events>>
    BY <1>12 DEF RemoveRunOnce
  <2>3. /\ registry' \in [Callables -> Objs \cup {None}]
        /\ callbackNames' \in [Names -> Objs \cup {None}]
        /\ activeCallbacks' \in Seq(Node)
        /\ pass' \in [key : Time, newDeadline : Time, itValid : BOOLEAN]
        /\ ub' \in BOOLEAN
    BY <2>1, <2>2, ActuallyRemoveType
  <2>4. cb' \in [Objs -> CallbackType]
    <3>1. cb[o] \in CallbackType
      BY <2>1 DEF TypeOK
    <3>2. [cb[o] EXCEPT !.status = "Removed"] \in CallbackType
      BY <3>1 DEF CallbackType, Status
    <3>3. cb' = [cb EXCEPT ![o] = [cb[o] EXCEPT !.status = "Removed"]]
      BY <2>1, <2>2 DEF TypeOK
    <3> QED BY <2>1, <3>2, <3>3 DEF TypeOK
  <2>5. TypeOK'
    BY <2>2, <2>3, <2>4 DEF TypeOK, loopVars
  <2>6. ControlOK'
    BY <2>2 DEF ControlOK, loopVars
  <2> QED BY <2>5, <2>6
<1>13. CASE ForgetCallback
  <2>1. TypeOK'
    BY <1>13 DEF TypeOK, ForgetCallback, queueVars, loopVars
  <2>2. ControlOK'
    BY <1>13 DEF ControlOK, ForgetCallback, loopVars
  <2> QED BY <2>1, <2>2
<1>14. CASE RequeueCallback
  <2> DEFINE o        == currentCallback
             deadline == IF cb[o].deadline = pass.key THEN pass.newDeadline ELSE cb[o].deadline
  <2>1. o \in Objs
    BY <1>14 DEF RequeueCallback, ControlOK, TypeOK
  <2>2. /\ visited' = visited \cup {o}
        /\ cb' = [cb EXCEPT ![o].deadline = deadline]
        /\ ub' = ~pass.itValid
        /\ activeCallbacks' \in IF pass.itValid THEN Rekey(activeCallbacks, HeldNode, deadline)
                                ELSE {activeCallbacks}
        /\ pc' = "loop"
        /\ UNCHANGED <<now, registry, callbackNames, currentCallback, lastAdded, nextUpdate,
                       pass, frames, calls, events>>
    BY <1>14 DEF RequeueCallback
  <2>3. cb[o] \in CallbackType
    BY <2>1 DEF TypeOK
  <2>4. deadline \in Nat
    BY <2>3 DEF TypeOK, CallbackType, Time
  <2> HIDE DEF o, deadline
  <2>5. cb' \in [Objs -> CallbackType]
    <3>1. [cb[o] EXCEPT !.deadline = deadline] \in CallbackType
      BY <2>3, <2>4 DEF CallbackType, Time
    <3>2. cb' = [cb EXCEPT ![o] = [cb[o] EXCEPT !.deadline = deadline]]
      BY <2>1, <2>2 DEF TypeOK
    <3> QED BY <2>1, <3>1, <3>2 DEF TypeOK
  <2>6. activeCallbacks' \in Seq(Node)
    BY <1>a, <2>1, <2>2, <2>4, QueueType
  <2>7. TypeOK'
    BY <2>1, <2>2, <2>5, <2>6 DEF TypeOK
  <2>8. ControlOK'
    BY <2>2 DEF ControlOK
  <2> QED BY <2>7, <2>8
<1>15. CASE UpdateEnd
  <2>1. /\ frames = <<>> /\ frames' = frames
        /\ currentCallback' = None
        /\ nextUpdate' = IF activeCallbacks = <<>> THEN INDEFINITE ELSE Head(activeCallbacks).key
        /\ pc' = "wait"
        /\ visited' = {}
        /\ UNCHANGED <<now, cb, queueVars, lastAdded, pass, calls, events, ub>>
    BY <1>15 DEF UpdateEnd
  <2>2. nextUpdate' \in Time
    <3>1. CASE activeCallbacks = <<>>
      BY <2>1, <3>1, TimeAssumption DEF Time
    <3>2. CASE activeCallbacks # <<>>
      <4>1. Head(activeCallbacks) \in Node
        BY <1>a, <3>2, HeadTailProperties
      <4> QED BY <2>1, <3>2, <4>1 DEF Node
    <3> QED BY <3>1, <3>2
  <2>3. TypeOK'
    BY <2>1, <2>2 DEF TypeOK, queueVars
  <2>4. ControlOK'
    BY <2>1 DEF ControlOK
  <2> QED BY <2>3, <2>4
<1>16. CASE OnEvent
  <2>1. /\ events < MaxEvents /\ events' = events + 1
        /\ frames' = <<[by |-> "event", cb |-> None, thread |-> FALSE]>>
        /\ UNCHANGED <<now, cb, queueVars, lastAdded, nextUpdate, loopVars, pass, pc, calls, ub>>
    BY <1>16 DEF OnEvent
  <2>2. events' \in 0..MaxEvents
    BY <2>1, BoundAssumption DEF TypeOK
  <2>3. frames' \in Seq(Frame)
    BY <2>1 DEF Frame
  <2>4. TypeOK'
    BY <2>1, <2>2, <2>3 DEF TypeOK, queueVars, loopVars
  <2>5. ControlOK'
    BY <2>1 DEF ControlOK, loopVars
  <2> QED BY <2>4, <2>5
<1>17. CASE Tick
  <2>1. TypeOK'
    BY <1>17, TimeAssumption DEF TypeOK, Tick, queueVars, loopVars
  <2>2. ControlOK'
    BY <1>17 DEF ControlOK, Tick, loopVars
  <2> QED BY <2>1, <2>2
<1>18. CASE UNCHANGED vars
  <2>1. TypeOK'
    BY <1>18 DEF TypeOK, vars, queueVars, loopVars
  <2>2. ControlOK'
    BY <1>18 DEF ControlOK, vars, loopVars
  <2> QED BY <2>1, <2>2
<1> QED
  BY <1>1, <1>2, <1>3, <1>4, <1>5, <1>6, <1>7, <1>8, <1>9, <1>10, <1>11, <1>12, <1>13, <1>14,
     <1>15, <1>16, <1>17, <1>18
  DEF Next, LuaCode, LuaEnds, update, addAnyCallback, callAnyOnce, initAnyActionThread,
      removeAnyCallback, setAnyTimeout, cancelAnyTimeout

\* Whatever Lua code does, the runner's tables hold callbacks and its queue nodes.
THEOREM TypeCorrect == Spec => []TypeOK
<1>1. TypeInv => TypeOK
  BY DEF TypeInv
<1> QED
  BY TypeInit, TypeNext, <1>1, PTL DEF Spec

-----------------------------------------------------------------------------
(* What scripts keep that make none of the hazardous calls                 *)

\* A callback that has been added and not been removed.
Added(o) == cb[o].status # "Removed"

\* One that is not suspended for good.
Scheduled(o) == Added(o) /\ cb[o].deadline # INDEFINITE

\* update() is running the current callback, or has not dealt with what became of it.
InRun == pc = "ran" \/ (pc = "loop" /\ frames # <<>>)

\* The key of the node of o: update() changes it only after the run.
KeyOf(o) == IF o = currentCallback /\ InRun THEN pass.key ELSE cb[o].deadline

CallbackInv(o) ==
  /\ Added(o) => cb[o].callable \in Callables /\ registry[cb[o].callable] = o
  /\ cb[o].threadEvent = "pending" => Added(o) /\ cb[o].callable \in Threads
  /\ cb[o].runOnce => cb[o].callable \in Functions
  /\ cb[o].status = "Suspended" => cb[o].callable \in Threads
  /\ Added(o) /\ cb[o].deadline = INDEFINITE => cb[o].status = "Suspended"
  /\ MaxTime + cb[o].interval < INDEFINITE

\* Exactly the callbacks that have been added are in the tables.
TablesInv ==
  /\ \A o \in Objs : CallbackInv(o)
  /\ \A c \in Callables :
       registry[c] # None => Added(registry[c]) /\ cb[registry[c]].callable = c
  /\ \A o \in Objs, n \in Names : callbackNames[n] = o <=> Added(o) /\ cb[o].name = n

Nodes(q) == {q[i] : i \in DOMAIN q}

Sorted(q) == \A i, j \in DOMAIN q : i <= j => q[i].key <= q[j].key

OneNodeEach(q) == \A i, j \in DOMAIN q : q[i].cb = q[j].cb => i = j

\* The queue holds a node for each callback that is scheduled, and for no other.
QueueInv ==
  /\ Sorted(activeCallbacks)
  /\ OneNodeEach(activeCallbacks)
  /\ \A node \in Nodes(activeCallbacks) : Scheduled(node.cb) /\ node.key = KeyOf(node.cb)
  /\ \A o \in Objs : Scheduled(o) => [key |-> KeyOf(o), cb |-> o] \in Nodes(activeCallbacks)

\* What runs at the bottom is an event of the main loop or update()'s callback, above it
\* new coroutines, none of them twice.  A coroutine that runs has not been suspended.
FrameInv(i) ==
  LET o == frames[i].cb IN
  /\ frames[i].by = "init" <=> i > 1
  /\ frames[i].by = "event" <=> i = 1 /\ pc = "wait"
  /\ i > 1 => o \in Objs
  /\ frames[i].by = "event" => o = None
  /\ frames[i].by = "update" => o = currentCallback
  /\ o # None => \A j \in DOMAIN frames : frames[j].cb = o => j = i
  /\ frames[i].thread =>
       /\ cb[o].callable \in Threads
       /\ cb[o].status = IF i = 1 THEN "Active" ELSE "Idle"
       /\ i > 1 => cb[o].deadline <= now

\* update() may use its iterator if the callback it has run is still scheduled; a
\* callback that is to be called once is.
RunInv ==
  LET o == currentCallback IN
  /\ pass.key < pass.newDeadline
  /\ pass.newDeadline < INDEFINITE
  /\ cb[o].callable \in Callables
  /\ pass.itValid <=> Scheduled(o)
  /\ cb[o].runOnce => Scheduled(o)
  /\ pc = "loop" /\ Added(o) => cb[o].status = "Active" /\ cb[o].deadline = pass.key

ControlInv ==
  /\ pc = "wait" => currentCallback = None
  /\ pc = "ran" => frames = <<>>
  /\ InRun => currentCallback \in Objs /\ RunInv
  /\ \A i \in DOMAIN frames : FrameInv(i)
  /\ ub = FALSE

\* The main loop wakes no later than the earliest node asks for.
InTime ==
  pc = "wait" =>
    nextUpdate <= now \/ \A node \in Nodes(activeCallbacks) : nextUpdate <= node.key

Kept == TablesInv /\ QueueInv /\ ControlInv /\ InTime

IInv == TypeInv /\ Kept

-----------------------------------------------------------------------------
(* What the operations on the queue do to its nodes                        *)

\* The nodes of the other callbacks.
NodesBut(q, o) == {node \in Nodes(q) : node.cb # o}

\* A node is emplaced among the others by its key.
LEMMA EmplaceNodes ==
  ASSUME NEW q \in Seq(Node), Sorted(q), OneNodeEach(q), NEW k \in Nat, NEW o \in Objs,
         \A node \in Nodes(q) : node.cb # o, NEW r \in Emplace(q, k, o)
  PROVE  /\ r \in Seq(Node) /\ Sorted(r) /\ OneNodeEach(r)
         /\ Nodes(r) = Nodes(q) \union {[key |-> k, cb |-> o]}
<1> DEFINE node == [key |-> k, cb |-> o]
<1>1. PICK p \in UpperBound(q, k) : r = InsertAt(q, p, node)
  BY DEF Emplace
<1>2. /\ p \in 1..(Len(q) + 1)
      /\ \A i \in DOMAIN q : q[i].key <= k <=> i < p
  BY DEF UpperBound
<1>3. /\ Len(q) \in Nat /\ DOMAIN q = 1..Len(q)
      /\ \A i \in 1..Len(q) : q[i] \in Node /\ q[i].key \in Nat /\ q[i].cb # o
  <2>1. Len(q) \in Nat /\ DOMAIN q = 1..Len(q) /\ \A i \in 1..Len(q) : q[i] \in Node
    OBVIOUS
  <2>2. \A i \in 1..Len(q) : q[i] \in Nodes(q)
    BY <2>1 DEF Nodes
  <2> QED BY <2>1, <2>2 DEF Node, Time
<1>4. node \in Node
  BY DEF Node, Time
<1> HIDE DEF node
<1>5. /\ r \in Seq(Node)
      /\ Len(r) = Len(q) + 1
      /\ \A i \in 1..(Len(q) + 1) :
           r[i] = IF i < p THEN q[i] ELSE IF i = p THEN node ELSE q[i - 1]
  <2>1. p \in 1..(Len(q) + 1)
    BY <1>2
  <2>2. /\ InsertAt(q, p, node) \in Seq(Node)
        /\ Len(InsertAt(q, p, node)) = Len(q) + 1
    BY <1>4, <2>1, InsertAtProperties
  <2>3. \A i \in 1..(Len(q) + 1) :
          InsertAt(q, p, node)[i] = IF i < p THEN q[i] ELSE IF i = p THEN node ELSE q[i - 1]
    <3> TAKE i \in 1..(Len(q) + 1)
    <3> QED BY ONLY q \in Seq(Node), <1>4, <2>1, i \in 1..(Len(q) + 1), InsertAtProperties
  <2> QED BY <1>1, <2>2, <2>3
<1>6. DOMAIN r = 1..(Len(q) + 1)
  BY <1>5
<1>6a. \A i \in DOMAIN r :
         \/ i < p /\ i \in 1..Len(q) /\ r[i] = q[i]
         \/ i = p /\ r[i] = node
         \/ i > p /\ i - 1 \in 1..Len(q) /\ r[i] = q[i - 1]
  BY <1>2, <1>3, <1>5, <1>6
<1>7. node.key = k /\ node.cb = o
  BY DEF node
<1>8. Sorted(r)
  <2> SUFFICES ASSUME NEW i \in DOMAIN r, NEW j \in DOMAIN r, i <= j
               PROVE  r[i].key <= r[j].key
    BY DEF Sorted
  <2>1. \A x, y \in 1..Len(q) : x <= y => q[x].key <= q[y].key
    BY <1>3 DEF Sorted
  <2>2. i \in Int /\ j \in Int /\ p \in Int
    BY <1>2, <1>6
  <2>3. \A x \in 1..Len(q) : IF x < p THEN q[x].key <= k ELSE k < q[x].key
    BY <1>2, <1>3
  <2>4. CASE i = p /\ j = p
    BY <1>7, <1>6a, <2>2, <2>4
  <2>5. CASE i = p /\ j # p
    BY <1>3, <1>6a, <1>7, <2>2, <2>3, <2>5
  <2>6. CASE i # p /\ j = p
    BY <1>3, <1>6a, <1>7, <2>2, <2>3, <2>6
  <2>7. CASE i # p /\ j # p
    BY <1>3, <1>6a, <2>1, <2>2, <2>7
  <2> QED
    BY <2>4, <2>5, <2>6, <2>7
<1>9. OneNodeEach(r)
  <2> SUFFICES ASSUME NEW i \in DOMAIN r, NEW j \in DOMAIN r, r[i].cb = r[j].cb
               PROVE  i = j
    BY DEF OneNodeEach
  <2>1. \A x, y \in 1..Len(q) : q[x].cb = q[y].cb => x = y
    BY <1>3 DEF OneNodeEach
  <2>2. i \in Int /\ j \in Int /\ p \in Int
    BY <1>2, <1>6
  <2>3. CASE i = p \/ j = p
    BY <1>3, <1>6a, <1>7, <2>2, <2>3
  <2>4. CASE i # p /\ j # p
    BY <1>3, <1>6a, <2>1, <2>2, <2>4
  <2> QED
    BY <2>3, <2>4
<1>10. Nodes(r) = Nodes(q) \union {node}
  <2>1. ASSUME NEW i \in DOMAIN r PROVE r[i] \in Nodes(q) \union {node}
    <3>1. r[i] = node \/ \E x \in DOMAIN q : r[i] = q[x]
      BY <1>3, <1>6a
    <3> QED BY <3>1 DEF Nodes
  <2>2. ASSUME NEW i \in DOMAIN q PROVE q[i] \in Nodes(r)
    <3>1. CASE i < p
      BY <1>2, <1>3, <1>5, <1>6, <3>1 DEF Nodes
    <3>2. CASE i >= p
      <4>1. i + 1 \in DOMAIN r /\ r[i + 1] = q[i]
        BY <1>2, <1>3, <1>5, <1>6, <3>2
      <4> QED BY <4>1 DEF Nodes
    <3> QED BY <1>2, <1>3, <3>1, <3>2
  <2>3. node \in Nodes(r)
    <3>1. p \in DOMAIN r /\ r[p] = node
      BY <1>2, <1>3, <1>5, <1>6
    <3> QED BY <3>1 DEF Nodes
  <2> QED
    BY <2>1, <2>2, <2>3 DEF Nodes
<1> QED
  BY <1>5, <1>8, <1>9, <1>10 DEF node

\* Removing a node leaves those of the other callbacks.
LEMMA RemoveNodes ==
  ASSUME NEW q \in Seq(Node), Sorted(q), OneNodeEach(q), NEW p \in DOMAIN q
  PROVE  LET r == RemoveAt(q, p) IN
         /\ r \in Seq(Node) /\ Sorted(r) /\ OneNodeEach(r)
         /\ Nodes(r) = NodesBut(q, q[p].cb)
<1> DEFINE r == RemoveAt(q, p)
<1>1. /\ Len(q) \in Nat /\ DOMAIN q = 1..Len(q) /\ p \in 1..Len(q)
      /\ \A i \in 1..Len(q) : q[i] \in Node /\ q[i].key \in Nat
  <2>1. Len(q) \in Nat /\ DOMAIN q = 1..Len(q) /\ \A i \in 1..Len(q) : q[i] \in Node
    OBVIOUS
  <2> QED BY <2>1 DEF Node, Time
<1>2. /\ r \in Seq(Node)
      /\ Len(r) = Len(q) - 1
      /\ \A i \in 1..(Len(q) - 1) : r[i] = IF i < p THEN q[i] ELSE q[i + 1]
  BY <1>1, RemoveAtProperties
<1> HIDE DEF r
<1>3. DOMAIN r = 1..(Len(q) - 1)
  BY <1>2
<1>3a. \A i \in DOMAIN r :
         \/ i < p /\ i \in 1..Len(q) /\ r[i] = q[i]
         \/ i >= p /\ i + 1 \in 1..Len(q) /\ r[i] = q[i + 1]
  BY <1>1, <1>2, <1>3
<1>4. Sorted(r)
  <2> SUFFICES ASSUME NEW i \in DOMAIN r, NEW j \in DOMAIN r, i <= j
               PROVE  r[i].key <= r[j].key
    BY DEF Sorted
  <2>1. \A x, y \in 1..Len(q) : x <= y => q[x].key <= q[y].key
    BY <1>1 DEF Sorted
  <2> QED
    BY <1>1, <1>2, <1>3, <2>1
<1>5. \A x, y \in 1..Len(q) : q[x].cb = q[y].cb => x = y
  BY <1>1 DEF OneNodeEach
<1>6. OneNodeEach(r)
  <2> SUFFICES ASSUME NEW i \in DOMAIN r, NEW j \in DOMAIN r, r[i].cb = r[j].cb
               PROVE  i = j
    BY DEF OneNodeEach
  <2>1. i \in Int /\ j \in Int
    BY <1>3
  <2> QED
    BY <1>1, <1>3a, <1>5, <2>1
<1>7. Nodes(r) = NodesBut(q, q[p].cb)
  <2>1. ASSUME NEW i \in DOMAIN r PROVE r[i] \in Nodes(q) /\ r[i].cb # q[p].cb
    <3>1. PICK x \in 1..Len(q) : x # p /\ r[i] = q[x]
      BY <1>1, <1>3, <1>3a
    <3> QED BY <1>1, <1>5, <3>1 DEF Nodes
  <2>2. ASSUME NEW i \in DOMAIN q, q[i].cb # q[p].cb PROVE q[i] \in Nodes(r)
    <3>1. CASE i < p
      <4>1. i \in DOMAIN r /\ r[i] = q[i]
        BY <1>1, <1>2, <1>3, <3>1
      <4> QED BY <4>1 DEF Nodes
    <3>2. CASE i > p
      <4>1. i - 1 \in DOMAIN r /\ r[i - 1] = q[i]
        BY <1>1, <1>2, <1>3, <3>2
      <4> QED BY <4>1 DEF Nodes
    <3>3. i # p
      BY <2>2
    <3> QED BY <1>1, <3>1, <3>2, <3>3
  <2> QED
    BY <2>1, <2>2 DEF Nodes, NodesBut
<1> QED
  BY <1>2, <1>4, <1>6, <1>7 DEF r

\* Erasing what has been found of a callback's nodes, which is the only one or none.
LEMMA EraseNodes ==
  ASSUME NEW q \in Seq(Node), Sorted(q), OneNodeEach(q), NEW o \in Objs,
         NEW I \in SUBSET {i \in DOMAIN q : q[i].cb = o},
         I = {} => \A node \in Nodes(q) : node.cb # o,
         NEW r \in Erase(q, I)
  PROVE  /\ r \in Seq(Node) /\ Sorted(r) /\ OneNodeEach(r)
         /\ Nodes(r) = NodesBut(q, o)
<1>1. CASE I = {}
  BY <1>1 DEF Erase, NodesBut
<1>2. CASE I # {}
  <2>1. PICK i \in I : r = RemoveAt(q, i)
    BY <1>2 DEF Erase
  <2>2. i \in DOMAIN q /\ q[i].cb = o
    OBVIOUS
  <2> QED
    BY <2>1, <2>2, RemoveNodes
<1> QED
  BY <1>1, <1>2

\* A node that is given another key is emplaced again.
LEMMA RekeyNodes ==
  ASSUME NEW q \in Seq(Node), Sorted(q), OneNodeEach(q), NEW o \in Objs,
         NEW I \in SUBSET {i \in DOMAIN q : q[i].cb = o}, NEW k \in Nat,
         NEW r \in Rekey(q, I, k)
  PROVE  /\ r \in Seq(Node) /\ Sorted(r) /\ OneNodeEach(r)
         /\ Nodes(r) = NodesBut(q, o) \union {[key |-> k, cb |-> o]}
<1>1. PICK i \in I : r \in Emplace(RemoveAt(q, i), k, q[i].cb)
  BY DEF Rekey
<1>2. i \in DOMAIN q /\ q[i].cb = o
  OBVIOUS
<1> DEFINE s == RemoveAt(q, i)
<1>3. /\ s \in Seq(Node) /\ Sorted(s) /\ OneNodeEach(s)
      /\ Nodes(s) = NodesBut(q, o)
  BY <1>2, RemoveNodes
<1>4. r \in Emplace(s, k, o)
  BY <1>1, <1>2
<1>5. \A node \in Nodes(s) : node.cb # o
  BY <1>3 DEF NodesBut
<1> HIDE DEF s
<1> QED
  BY <1>3, <1>4, <1>5, EmplaceNodes

\* The first node is the earliest.
LEMMA HeadEarliest ==
  ASSUME NEW q \in Seq(Node), Sorted(q), q # <<>>
  PROVE  /\ Head(q) \in Nodes(q) /\ Head(q) \in Node
         /\ \A node \in Nodes(q) : Head(q).key <= node.key
<1>1. 1 \in DOMAIN q /\ Head(q) = q[1] /\ q[1] \in Node /\ \A i \in DOMAIN q : 1 <= i
  BY EmptySeq, HeadTailProperties
<1> QED
  BY <1>1 DEF Nodes, Sorted

-----------------------------------------------------------------------------
(* Steps that change one callback                                          *)

LEMMA InitKept == Init => IInv
<1> SUFFICES ASSUME Init PROVE IInv
  OBVIOUS
<1> USE DEF Init
<1>1. \A o \in Objs : cb[o] = Unused
  OBVIOUS
<1>2. MaxTime + DEFAULT_INTERVAL < INDEFINITE /\ INDEFINITE # 0
  BY TimeAssumption
<1>3. \A o \in Objs : ~Added(o) /\ CallbackInv(o)
  BY <1>1, <1>2 DEF Unused, Added, CallbackInv
<1>4. TablesInv
  BY <1>3, NoneAssumption DEF TablesInv
<1>5. Nodes(activeCallbacks) = {}
  BY DEF Nodes
<1>6. QueueInv
  BY <1>3, <1>5 DEF QueueInv, Sorted, OneNodeEach, Scheduled
<1>7. ControlInv
  BY DEF ControlInv, InRun
<1>8. InTime
  BY <1>5 DEF InTime
<1> QED
  BY <1>4, <1>6, <1>7, <1>8, TypeInit DEF IInv, Kept

\* The types of the parts.
LEMMA Types ==
  ASSUME TypeInv
  PROVE  /\ activeCallbacks \in Seq(Node)
         /\ now \in 0..MaxTime /\ now \in Nat /\ MaxTime \in Nat /\ INDEFINITE \in Nat
         /\ nextUpdate \in Nat
         /\ cb \in [Objs -> CallbackType]
         /\ \A o \in Objs : /\ cb[o] \in CallbackType
                            /\ cb[o].deadline \in Nat /\ cb[o].interval \in Nat \ {0}
                            /\ cb[o].status \in Status
                            /\ cb[o].callable \in Callables \union {None}
                            /\ cb[o].name \in Names \union {None}
         /\ pass.key \in Nat /\ pass.newDeadline \in Nat /\ pass.itValid \in BOOLEAN
         /\ pass = [key |-> pass.key, newDeadline |-> pass.newDeadline, itValid |-> pass.itValid]
         /\ \A node \in Nodes(activeCallbacks) :
              node \in Node /\ node.key \in Nat /\ node.cb \in Objs
<1>1. activeCallbacks \in Seq(Node)
  BY DEF TypeInv, TypeOK
<1>2. \A node \in Nodes(activeCallbacks) : node \in Node
  BY <1>1 DEF Nodes
<1>3. /\ now \in 0..MaxTime /\ now \in Nat /\ MaxTime \in Nat /\ INDEFINITE \in Nat
      /\ nextUpdate \in Nat
  BY TimeAssumption DEF TypeInv, TypeOK, Time
<1>4. \A o \in Objs : /\ cb[o] \in CallbackType
                      /\ cb[o].deadline \in Nat /\ cb[o].interval \in Nat \ {0}
                      /\ cb[o].status \in Status
                      /\ cb[o].callable \in Callables \union {None}
                      /\ cb[o].name \in Names \union {None}
  BY DEF TypeInv, TypeOK, CallbackType, Time
<1>5. /\ pass.key \in Nat /\ pass.newDeadline \in Nat /\ pass.itValid \in BOOLEAN
      /\ pass = [key |-> pass.key, newDeadline |-> pass.newDeadline, itValid |-> pass.itValid]
  BY DEF TypeInv, TypeOK, Time
<1> QED
  BY <1>1, <1>2, <1>3, <1>4, <1>5 DEF Node, Time, TypeInv, TypeOK

\* The node of a callback, in the terms the code looks it up by.
LEMMA NodeFound ==
  ASSUME IInv, NEW o \in Objs
  PROVE  /\ KeyOf(o) \in Nat
         /\ Scheduled(o) =>
              /\ \E i \in DOMAIN activeCallbacks :
                   activeCallbacks[i].cb = o /\ activeCallbacks[i].key = KeyOf(o)
              /\ \A i \in DOMAIN activeCallbacks :
                   activeCallbacks[i].cb = o => activeCallbacks[i].key = KeyOf(o)
         /\ ~Scheduled(o) => \A node \in Nodes(activeCallbacks) : node.cb # o
         /\ findActiveCallback(o)
              \in SUBSET {i \in DOMAIN activeCallbacks : activeCallbacks[i].cb = o}
         /\ Scheduled(o) /\ KeyOf(o) = cb[o].deadline => findActiveCallback(o) # {}
         /\ ~Scheduled(o) => findActiveCallback(o) = {}
<1>1. KeyOf(o) \in Nat
  BY Types DEF IInv, KeyOf
<1>2. Scheduled(o) => /\ \E i \in DOMAIN activeCallbacks :
                           activeCallbacks[i].cb = o /\ activeCallbacks[i].key = KeyOf(o)
                      /\ \A i \in DOMAIN activeCallbacks :
                           activeCallbacks[i].cb = o => activeCallbacks[i].key = KeyOf(o)
  <2>1. Scheduled(o) => [key |-> KeyOf(o), cb |-> o] \in Nodes(activeCallbacks)
    BY DEF IInv, Kept, QueueInv
  <2>2. \A i \in DOMAIN activeCallbacks :
          activeCallbacks[i] \in Nodes(activeCallbacks)
    BY DEF Nodes
  <2>3. \A i \in DOMAIN activeCallbacks :
          activeCallbacks[i].key = KeyOf(activeCallbacks[i].cb)
    BY <2>2 DEF IInv, Kept, QueueInv
  <2>4. Scheduled(o) => \E i \in DOMAIN activeCallbacks :
                          activeCallbacks[i] = [key |-> KeyOf(o), cb |-> o]
    BY <2>1 DEF Nodes
  <2> QED
    BY <2>3, <2>4
<1>3. ~Scheduled(o) => \A node \in Nodes(activeCallbacks) : node.cb # o
  BY DEF IInv, Kept, QueueInv
<1> QED
  BY <1>1, <1>2, <1>3 DEF findActiveCallback, Nodes

\* A callback found under a key has been added.
LEMMA FoundAdded ==
  ASSUME IInv, NEW key \in Callables \union Names, findCallback(key) # None
  PROVE  findCallback(key) \in Objs /\ Added(findCallback(key))
<1>1. findCallback(key) \in Objs
  BY FindType DEF IInv
<1> QED
  BY <1>1, CallableAssumption DEF IInv, Kept, TablesInv, findCallback

\* The queue agrees with the callbacks after a step that changes one, and its node.
LEMMA QueueKept ==
  ASSUME IInv, TypeInv', NEW o \in Objs,
         Sorted(activeCallbacks)', OneNodeEach(activeCallbacks)',
         \A p \in Objs \ {o} :
           (Scheduled(p)' <=> Scheduled(p)) /\ (Scheduled(p) => KeyOf(p)' = KeyOf(p)),
         \/ /\ Scheduled(o)'
            /\ Nodes(activeCallbacks)' =
                 NodesBut(activeCallbacks, o) \union {[key |-> KeyOf(o)', cb |-> o]}
         \/ /\ ~Scheduled(o)'
            /\ Nodes(activeCallbacks)' = NodesBut(activeCallbacks, o)
  PROVE  QueueInv'
<1> DEFINE N == Nodes(activeCallbacks)
<1>1. /\ \A node \in N : Scheduled(node.cb) /\ node.key = KeyOf(node.cb) /\ node.cb \in Objs
      /\ \A p \in Objs : Scheduled(p) => [key |-> KeyOf(p), cb |-> p] \in N
  BY Types DEF IInv, Kept, QueueInv
<1>2. \A node \in NodesBut(activeCallbacks, o) :
        node.cb \in Objs \ {o} /\ Scheduled(node.cb)' /\ node.key = KeyOf(node.cb)'
  <2> SUFFICES ASSUME NEW node \in NodesBut(activeCallbacks, o)
               PROVE  node.cb \in Objs \ {o} /\ Scheduled(node.cb)' /\ node.key = KeyOf(node.cb)'
    OBVIOUS
  <2> DEFINE p == node.cb
  <2>1. p \in Objs \ {o} /\ Scheduled(p) /\ node.key = KeyOf(p)
    BY <1>1 DEF NodesBut
  <2> HIDE DEF p
  <2>2. Scheduled(p)' /\ KeyOf(p)' = KeyOf(p)
    BY <2>1
  <2> QED
    BY <2>1, <2>2 DEF p
<1>3. \A p \in Objs \ {o} : Scheduled(p)' => [key |-> KeyOf(p)', cb |-> p] \in NodesBut(activeCallbacks, o)
  BY <1>1 DEF NodesBut
<1>4. CASE Scheduled(o)'
  <2>1. Nodes(activeCallbacks)' =
          NodesBut(activeCallbacks, o) \union {[key |-> KeyOf(o)', cb |-> o]}
    BY <1>4
  <2>2. \A node \in Nodes(activeCallbacks)' : Scheduled(node.cb)' /\ node.key = KeyOf(node.cb)'
    <3> SUFFICES ASSUME NEW node \in Nodes(activeCallbacks)'
                 PROVE  Scheduled(node.cb)' /\ node.key = KeyOf(node.cb)'
      OBVIOUS
    <3>1. CASE node \in NodesBut(activeCallbacks, o)
      BY <1>2, <3>1
    <3>2. CASE node = [key |-> KeyOf(o)', cb |-> o]
      BY <1>4, <3>2
    <3> QED BY <2>1, <3>1, <3>2
  <2>3. \A p \in Objs : Scheduled(p)' => [key |-> KeyOf(p)', cb |-> p] \in Nodes(activeCallbacks)'
    BY <1>3, <2>1
  <2> QED
    BY <2>2, <2>3 DEF QueueInv
<1>5. CASE ~Scheduled(o)'
  <2>1. Nodes(activeCallbacks)' = NodesBut(activeCallbacks, o)
    BY <1>5
  <2>2. \A p \in Objs : Scheduled(p)' => [key |-> KeyOf(p)', cb |-> p] \in Nodes(activeCallbacks)'
    BY <1>3, <1>5, <2>1
  <2> QED
    BY <1>2, <2>1, <2>2 DEF QueueInv
<1> QED
  BY <1>4, <1>5

\* It does after a step that changes neither.
LEMMA QueueStays ==
  ASSUME IInv, UNCHANGED activeCallbacks,
         \A p \in Objs :
           (Scheduled(p)' <=> Scheduled(p)) /\ (Scheduled(p) => KeyOf(p)' = KeyOf(p))
  PROVE  QueueInv'
<1>1. /\ \A node \in Nodes(activeCallbacks) :
           Scheduled(node.cb) /\ node.key = KeyOf(node.cb) /\ node.cb \in Objs
      /\ \A p \in Objs : Scheduled(p) => [key |-> KeyOf(p), cb |-> p] \in Nodes(activeCallbacks)
  BY Types DEF IInv, Kept, QueueInv
<1>2. Nodes(activeCallbacks)' = Nodes(activeCallbacks)
  BY DEF Nodes
<1>3. \A node \in Nodes(activeCallbacks) : Scheduled(node.cb)' /\ node.key = KeyOf(node.cb)'
  <2> SUFFICES ASSUME NEW node \in Nodes(activeCallbacks)
               PROVE  Scheduled(node.cb)' /\ node.key = KeyOf(node.cb)'
    OBVIOUS
  <2> DEFINE p == node.cb
  <2>1. p \in Objs /\ Scheduled(p) /\ node.key = KeyOf(p)
    BY <1>1
  <2> HIDE DEF p
  <2>2. Scheduled(p)' /\ KeyOf(p)' = KeyOf(p)
    BY <2>1
  <2> QED
    BY <2>1, <2>2 DEF p
<1>4. \A p \in Objs : Scheduled(p)' => [key |-> KeyOf(p)', cb |-> p] \in Nodes(activeCallbacks)
  BY <1>1
<1>5. Sorted(activeCallbacks)' /\ OneNodeEach(activeCallbacks)'
  BY DEF IInv, Kept, QueueInv, Sorted, OneNodeEach
<1> QED
  BY <1>2, <1>3, <1>4, <1>5 DEF QueueInv

\* The tables agree after a step that changes a callback in what they do not hold.
LEMMA TablesKept ==
  ASSUME IInv, NEW o \in Objs, UNCHANGED <<registry, callbackNames>>,
         \A p \in Objs \ {o} : cb'[p] = cb[p],
         Added(o)' <=> Added(o),
         cb'[o].callable = cb[o].callable, cb'[o].name = cb[o].name,
         CallbackInv(o)'
  PROVE  TablesInv'
<1>1. \A p \in Objs : /\ Added(p)' <=> Added(p)
                      /\ cb'[p].callable = cb[p].callable /\ cb'[p].name = cb[p].name
  <2>1. \A p \in Objs \ {o} : Added(p)' <=> Added(p)
    BY DEF Added
  <2> QED BY <2>1
<1>2. \A p \in Objs : CallbackInv(p)'
  <2>1. ASSUME NEW p \in Objs \ {o} PROVE CallbackInv(p)'
    <3>1. CallbackInv(p) /\ cb'[p] = cb[p]
      BY DEF IInv, Kept, TablesInv
    <3> QED BY <3>1 DEF CallbackInv, Added
  <2> QED BY <2>1
<1>3. \A c \in Callables :
        registry'[c] # None => cb'[registry'[c]].status # "Removed" /\ cb'[registry'[c]].callable = c
  <2> SUFFICES ASSUME NEW c \in Callables, registry[c] # None
               PROVE  cb'[registry[c]].status # "Removed" /\ cb'[registry[c]].callable = c
    OBVIOUS
  <2>1. registry[c] \in Objs /\ Added(registry[c]) /\ cb[registry[c]].callable = c
    BY DEF IInv, Kept, TablesInv, TypeInv, TypeOK
  <2> QED BY <1>1, <2>1 DEF Added
<1>4. \A p \in Objs, n \in Names : callbackNames'[n] = p <=> Added(p)' /\ cb'[p].name = n
  BY <1>1 DEF IInv, Kept, TablesInv
<1>5. (\A c \in Callables :
         registry[c] # None => Added(registry[c]) /\ cb[registry[c]].callable = c)'
  BY <1>3 DEF Added
<1> QED
  BY <1>2, <1>4, <1>5 DEF TablesInv

\* A new callback is in the tables and has its node.
LEMMA EnqueueKept ==
  ASSUME IInv, TypeInv', NEW o \in Objs, NEW c \in Callables, NEW name \in Names \union {None},
         NEW i \in Intervals \union {None}, NEW d \in Nat, NEW once \in BOOLEAN,
         once => c \in Functions,
         Enqueue(o, c, name, i, d, once),
         UNCHANGED <<now, currentCallback, pass, pc>>, InRun' <=> InRun
  PROVE  /\ ~Added(o) /\ o # currentCallback
         /\ \A j \in DOMAIN frames : frames[j].cb # o
         /\ \A p \in Objs \ {o} : cb'[p] = cb[p]
         /\ cb'[o].callable = c /\ cb'[o].status = "Idle" /\ cb'[o].deadline = DeadlineAfter(d)
         /\ TablesInv' /\ QueueInv' /\ InTime'
<1> DEFINE deadline == DeadlineAfter(d)
           new      == NewCallback(c, name, i, deadline, once)
<1>1. /\ registry[c] = None
      /\ name \in Names => callbackNames[name] = None
      /\ o \in FreeObjs
      /\ maybeAwaken(cb, deadline)
      /\ cb' = [cb EXCEPT ![o] = new]
      /\ activeCallbacks' \in Emplace(activeCallbacks, deadline, o)
      /\ registry' = [registry EXCEPT ![c] = o]
      /\ callbackNames' = [n \in Names |-> IF n = name THEN o ELSE callbackNames[n]]
  BY DEF Enqueue
<1>2. /\ ~Added(o) /\ o # currentCallback
      /\ \A j \in DOMAIN frames : frames[j].cb # o
  <2>1. \A k \in Callables : registry[k] # o
    BY <1>1 DEF FreeObjs
  <2>2. Added(o) => cb[o].callable \in Callables /\ registry[cb[o].callable] = o
    BY DEF IInv, Kept, TablesInv, CallbackInv
  <2> QED BY <1>1, <2>1, <2>2 DEF FreeObjs
<1>3. deadline \in Nat /\ deadline # INDEFINITE /\ deadline >= now
  <2>1. d % IntervalRange \in 0..(IntervalRange - 1)
    BY TimeAssumption
  <2>2. MaxTime + IntervalRange < INDEFINITE
    BY TimeAssumption
  <2>3. now \in 0..MaxTime /\ MaxTime \in Nat /\ INDEFINITE \in Nat /\ IntervalRange \in Nat
    BY Types, TimeAssumption DEF IInv
  <2> QED BY <2>1, <2>2, <2>3 DEF DeadlineAfter
<1>4. MaxTime + validateInputInterval(i) < INDEFINITE
  <2>1. CASE i = None
    BY <2>1, TimeAssumption DEF validateInputInterval
  <2>2. CASE i # None
    <3>1. i \in Nat /\ i % IntervalRange \in 0..(IntervalRange - 1)
      BY <2>2, TimeAssumption
    <3>2. MaxTime + IntervalRange < INDEFINITE /\ MaxTime + MIN_INTERVAL < INDEFINITE
      BY TimeAssumption
    <3>3. MaxTime \in Nat /\ INDEFINITE \in Nat /\ IntervalRange \in Nat /\ MIN_INTERVAL \in Nat
      BY TimeAssumption
    <3> QED BY <2>2, <3>1, <3>2, <3>3 DEF validateInputInterval
  <2> QED BY <2>1, <2>2
<1> HIDE DEF deadline
<1>5. /\ new.callable = c /\ new.name = name /\ new.status = "Idle" /\ new.runOnce = once
      /\ new.deadline = deadline /\ new.interval = validateInputInterval(i)
      /\ new.threadEvent = IF c \in Threads THEN "pending" ELSE "none"
  BY DEF NewCallback
<1> HIDE DEF new
<1>6. cb'[o] = new /\ \A p \in Objs \ {o} : cb'[p] = cb[p]
  BY <1>1, Types DEF IInv
<1>7. Added(o)' /\ Scheduled(o)' /\ KeyOf(o)' = deadline
  BY <1>2, <1>3, <1>5, <1>6 DEF Added, Scheduled, KeyOf
<1>8. \A p \in Objs \ {o} : Added(p)' = Added(p) /\ Scheduled(p)' = Scheduled(p) /\ KeyOf(p)' = KeyOf(p)
  BY <1>6 DEF Added, Scheduled, KeyOf
<1>9. TablesInv'
  <2>0. registry' = [k \in Callables |-> IF k = c THEN o ELSE registry[k]]
    BY <1>1 DEF IInv, TypeInv, TypeOK
  <2>1. CallbackInv(o)'
    <3>1. registry'[c] = o
      BY <2>0
    <3> QED BY <1>3, <1>4, <1>5, <1>6, <1>7, <3>1 DEF CallbackInv
  <2>2. ASSUME NEW p \in Objs \ {o} PROVE CallbackInv(p)'
    <3>1. CallbackInv(p) /\ cb'[p] = cb[p] /\ Added(p)' = Added(p)
      BY <1>6, <1>8 DEF IInv, Kept, TablesInv
    <3>2. p # None
      BY NoneAssumption
    <3>3. Added(p) => registry'[cb[p].callable] = p
      BY <1>1, <2>0, <3>1, <3>2 DEF CallbackInv
    <3> QED BY <3>1, <3>3 DEF CallbackInv
  <2>3. \A k \in Callables :
          registry'[k] # None => cb'[registry'[k]].status # "Removed" /\ cb'[registry'[k]].callable = k
    <3> SUFFICES ASSUME NEW k \in Callables, registry'[k] # None
                 PROVE  cb'[registry'[k]].status # "Removed" /\ cb'[registry'[k]].callable = k
      OBVIOUS
    <3>1. CASE k = c
      BY <1>5, <1>6, <2>0, <3>1
    <3>2. CASE k # c
      <4>1. registry'[k] = registry[k] /\ registry[k] \in Objs
        BY <2>0, <3>2 DEF IInv, TypeInv, TypeOK
      <4>2. Added(registry[k]) /\ cb[registry[k]].callable = k
        BY <4>1, NoneAssumption DEF IInv, Kept, TablesInv
      <4>3. registry[k] \in Objs \ {o}
        BY <1>2, <4>1, <4>2
      <4> QED BY <1>6, <4>1, <4>2, <4>3 DEF Added
    <3> QED BY <3>1, <3>2
  <2>4. \A p \in Objs, n \in Names : callbackNames'[n] = p <=> Added(p)' /\ cb'[p].name = n
    <3> SUFFICES ASSUME NEW p \in Objs, NEW n \in Names
                 PROVE  callbackNames'[n] = p <=> Added(p)' /\ cb'[p].name = n
      OBVIOUS
    <3>1. callbackNames'[n] = IF n = name THEN o ELSE callbackNames[n]
      BY <1>1
    <3>2. callbackNames[n] = p <=> Added(p) /\ cb[p].name = n
      BY DEF IInv, Kept, TablesInv
    <3>3. CASE p = o
      BY <1>2, <1>5, <1>6, <1>7, <3>1, <3>2, <3>3
    <3>4. CASE p # o
      <4>1. n = name => callbackNames[n] # p
        BY <1>1, NoneAssumption
      <4> QED BY <1>6, <1>8, <3>1, <3>2, <3>4, <4>1
    <3> QED BY <3>3, <3>4
  <2>5. (\A k \in Callables :
           registry[k] # None => Added(registry[k]) /\ cb[registry[k]].callable = k)'
    BY <2>3 DEF Added
  <2> QED
    BY <2>1, <2>2, <2>4, <2>5 DEF TablesInv
<1>10. /\ Sorted(activeCallbacks)' /\ OneNodeEach(activeCallbacks)'
       /\ Nodes(activeCallbacks)' = Nodes(activeCallbacks) \union {[key |-> deadline, cb |-> o]}
       /\ NodesBut(activeCallbacks, o) = Nodes(activeCallbacks)
  <2>1. \A node \in Nodes(activeCallbacks) : node.cb # o
    BY <1>2, NodeFound DEF Scheduled
  <2>2. \A r \in Emplace(activeCallbacks, deadline, o) :
          /\ r \in Seq(Node) /\ Sorted(r) /\ OneNodeEach(r)
          /\ Nodes(r) = Nodes(activeCallbacks) \union {[key |-> deadline, cb |-> o]}
    BY <1>3, <2>1, EmplaceNodes, Types DEF IInv, Kept, QueueInv
  <2>3. /\ Sorted(activeCallbacks') /\ OneNodeEach(activeCallbacks')
        /\ Nodes(activeCallbacks') = Nodes(activeCallbacks) \union {[key |-> deadline, cb |-> o]}
    BY <1>1, <2>2
  <2> QED BY <2>1, <2>3 DEF Sorted, OneNodeEach, Nodes, NodesBut
<1>11. QueueInv'
  BY <1>7, <1>8, <1>10, QueueKept
<1>12. InTime'
  <2> SUFFICES ASSUME pc = "wait"
               PROVE  nextUpdate' <= now \/ \A node \in Nodes(activeCallbacks)' : nextUpdate' <= node.key
    BY DEF InTime
  <2>1. CASE nextUpdate' = now
    BY <2>1, Types DEF IInv
  <2>2. CASE nextUpdate' # now
    <3> DEFINE q == activeCallbacks
    <3>1. q # <<>> /\ ~(cb[Head(q).cb].deadline > deadline) /\ nextUpdate' = nextUpdate
      BY <1>1, <2>2 DEF maybeAwaken
    <3>2. Head(q) \in Nodes(q) /\ \A node \in Nodes(q) : Head(q).key <= node.key
      BY <3>1, HeadEarliest, Types DEF IInv, Kept, QueueInv
    <3>3. Head(q).key = KeyOf(Head(q).cb) /\ Head(q).cb \in Objs
      BY <3>2, Types DEF IInv, Kept, QueueInv
    <3>4. Head(q).key = cb[Head(q).cb].deadline /\ Head(q).key \in Nat
      BY <3>2, <3>3, Types DEF KeyOf, InRun, IInv
    <3>5. Head(q).key <= deadline
      BY <1>3, <3>1, <3>4
    <3>6. nextUpdate <= now \/ \A node \in Nodes(q) : nextUpdate <= node.key
      BY DEF IInv, Kept, InTime
    <3>7. nextUpdate <= now \/ nextUpdate <= deadline
      BY <1>3, <3>2, <3>4, <3>5, <3>6, Types DEF IInv
    <3> QED BY <1>10, <3>1, <3>6, <3>7
  <2> QED BY <2>1, <2>2
<1> QED
  BY <1>2, <1>5, <1>6, <1>9, <1>11, <1>12 DEF deadline

\* A callback that is removed leaves the tables and has no node.
LEMMA RemovedKept ==
  ASSUME IInv, TypeInv', NEW o \in Objs, Added(o), Unregister(o),
         \A p \in Objs \ {o} : cb'[p] = cb[p],
         cb'[o].status = "Removed", cb'[o].threadEvent # "pending",
         cb'[o].runOnce = cb[o].runOnce, cb'[o].callable = cb[o].callable,
         cb'[o].interval = cb[o].interval,
         Sorted(activeCallbacks)', OneNodeEach(activeCallbacks)',
         Nodes(activeCallbacks)' = NodesBut(activeCallbacks, o),
         UNCHANGED <<now, nextUpdate, currentCallback>>,
         pass'.key = pass.key, o = currentCallback \/ (InRun' <=> InRun),
         pc' = "wait" => pc = "wait"
  PROVE  TablesInv' /\ QueueInv' /\ InTime'
<1>1. cb[o].callable \in Callables /\ registry[cb[o].callable] = o
  BY DEF IInv, Kept, TablesInv, CallbackInv
<1>2. ~Added(o)' /\ ~Scheduled(o)'
  BY DEF Added, Scheduled
<1>3. \A p \in Objs \ {o} : Added(p)' = Added(p) /\ Scheduled(p)' = Scheduled(p) /\ KeyOf(p)' = KeyOf(p)
  BY DEF Added, Scheduled, KeyOf
<1>4. QueueInv'
  BY <1>2, <1>3, QueueKept
<1>5. InTime'
  BY DEF InTime, IInv, Kept, NodesBut
<1>6. TablesInv'
  <2>0. /\ registry' = [k \in Callables |-> IF k = cb[o].callable THEN None ELSE registry[k]]
        /\ callbackNames' = [n \in Names |-> IF n = cb[o].name THEN None ELSE callbackNames[n]]
    BY <1>1 DEF IInv, TypeInv, TypeOK, Unregister
  <2>1. CallbackInv(o)'
    <3>1. CallbackInv(o)
      BY DEF IInv, Kept, TablesInv
    <3> QED BY <1>2, <3>1 DEF CallbackInv, Added
  <2>2. ASSUME NEW p \in Objs \ {o} PROVE CallbackInv(p)'
    <3>1. CallbackInv(p) /\ cb'[p] = cb[p] /\ Added(p)' = Added(p)
      BY <1>3 DEF IInv, Kept, TablesInv
    <3>2. Added(p) => cb[p].callable # cb[o].callable
      BY <1>1, <3>1 DEF CallbackInv
    <3>3. Added(p) => registry'[cb[p].callable] = p
      BY <2>0, <3>1, <3>2 DEF CallbackInv
    <3> QED BY <3>1, <3>3 DEF CallbackInv
  <2>3. \A k \in Callables :
          registry'[k] # None => cb'[registry'[k]].status # "Removed" /\ cb'[registry'[k]].callable = k
    <3> SUFFICES ASSUME NEW k \in Callables, registry'[k] # None
                 PROVE  cb'[registry'[k]].status # "Removed" /\ cb'[registry'[k]].callable = k
      OBVIOUS
    <3>1. k # cb[o].callable /\ registry'[k] = registry[k] /\ registry[k] \in Objs
      BY <2>0 DEF IInv, TypeInv, TypeOK
    <3>2. Added(registry[k]) /\ cb[registry[k]].callable = k
      BY <3>1, NoneAssumption DEF IInv, Kept, TablesInv
    <3>3. registry[k] \in Objs \ {o}
      BY <3>1, <3>2
    <3> QED BY <3>1, <3>2, <3>3 DEF Added
  <2>4. \A p \in Objs, n \in Names : callbackNames'[n] = p <=> Added(p)' /\ cb'[p].name = n
    <3> SUFFICES ASSUME NEW p \in Objs, NEW n \in Names
                 PROVE  callbackNames'[n] = p <=> Added(p)' /\ cb'[p].name = n
      OBVIOUS
    <3>1. callbackNames'[n] = IF n = cb[o].name THEN None ELSE callbackNames[n]
      BY <2>0
    <3>2. /\ callbackNames[n] = p <=> Added(p) /\ cb[p].name = n
          /\ callbackNames[n] = o <=> cb[o].name = n
      BY DEF IInv, Kept, TablesInv
    <3>3. p # None
      BY NoneAssumption
    <3>4. CASE p = o
      BY <1>2, <3>1, <3>2, <3>3, <3>4
    <3>5. CASE p # o
      BY <1>3, <3>1, <3>2, <3>3, <3>5
    <3> QED BY <3>4, <3>5
  <2>5. (\A k \in Callables :
           registry[k] # None => Added(registry[k]) /\ cb[registry[k]].callable = k)'
    BY <2>3 DEF Added
  <2> QED
    BY <2>1, <2>2, <2>4, <2>5 DEF TablesInv
<1> QED
  BY <1>4, <1>5, <1>6

-----------------------------------------------------------------------------
(* Lua code that is running, and that ends                                 *)

\* While Lua code runs, a callback's node is where its deadline says.
LEMMA LuaKey ==
  ASSUME IInv, frames # <<>>, NEW o \in Objs, Added(o)
  PROVE  /\ KeyOf(o) = cb[o].deadline
         /\ o = currentCallback => InRun /\ pc = "loop"
<1>1. pc \in {"wait", "loop", "ran"} /\ o # None
  BY NoneAssumption DEF IInv, TypeInv, TypeOK
<1>2. pc # "ran" /\ (pc = "wait" => currentCallback = None)
  BY DEF IInv, Kept, ControlInv
<1>3. InRun => RunInv
  BY DEF IInv, Kept, ControlInv
<1> QED
  BY <1>1, <1>2, <1>3 DEF KeyOf, InRun, RunInv

\* The innermost frame.
LEMMA TopFrame ==
  ASSUME IInv, frames # <<>>
  PROVE  /\ Len(frames) \in Nat \ {0} /\ Len(frames) \in DOMAIN frames
         /\ DOMAIN frames = 1..Len(frames)
         /\ Top = frames[Len(frames)] /\ Top \in Frame /\ FrameInv(Len(frames))
         /\ frames \in Seq(Frame)
<1>1. frames \in Seq(Frame) /\ Len(frames) \in Nat \ {0}
  BY EmptySeq DEF IInv, TypeInv, TypeOK
<1> QED
  BY <1>1 DEF Top, IInv, Kept, ControlInv

\* A frame that is a coroutine is one of a callback.
LEMMA FrameTypes ==
  ASSUME TypeInv, NEW i \in DOMAIN frames
  PROVE  /\ frames[i] \in Frame /\ frames[i].cb \in Objs \union {None}
         /\ frames[i].thread => frames[i].cb \in Objs
<1>1. frames \in Seq(Frame)
  BY DEF TypeInv, TypeOK
<1>2. frames[i] \in Frame
  BY <1>1
<1> QED
  BY <1>2 DEF Frame, TypeInv, ControlOK

\* The coroutine that makes a call is scheduled, and is not found elsewhere.
LEMMA CallingThread ==
  ASSUME IInv, frames # <<>>, NEW o \in Objs, IsCallingThread(o)
  PROVE  /\ Scheduled(o) /\ cb[o].callable \in Threads /\ ~cb[o].runOnce
         /\ cb[o].status # "Suspended"
         /\ Top.by = "update" <=> Len(frames) = 1
         /\ o = currentCallback <=> Len(frames) = 1
         /\ Len(frames) = 1 => InRun /\ pc = "loop"
         /\ o # currentCallback => cb[o].deadline <= now
         /\ \A i \in DOMAIN frames : frames[i].cb = o => i = Len(frames)
<1> DEFINE n == Len(frames)
<1>1. /\ n \in Nat \ {0} /\ n \in DOMAIN frames /\ DOMAIN frames = 1..n
      /\ Top = frames[n] /\ Top \in Frame /\ FrameInv(n)
  BY TopFrame
<1>2. o # None /\ Top.cb = o /\ Top.thread
  BY NoneAssumption DEF IsCallingThread
<1>3. /\ Top.by = "init" <=> n > 1
      /\ Top.by = "event" <=> n = 1 /\ pc = "wait"
      /\ Top.by # "event"
      /\ Top.by = "update" => o = currentCallback
      /\ \A j \in DOMAIN frames : frames[j].cb = o => j = n
      /\ cb[o].callable \in Threads
      /\ cb[o].status = IF n = 1 THEN "Active" ELSE "Idle"
      /\ n > 1 => cb[o].deadline <= now
  BY <1>1, <1>2 DEF FrameInv
<1>4. Top.by \in {"event", "update", "init"}
  BY <1>1 DEF Frame
<1>5. Top.by = "update" <=> n = 1
  BY <1>1, <1>3, <1>4
<1>6. Scheduled(o) /\ ~cb[o].runOnce /\ cb[o].status # "Suspended"
  <2>1. CallbackInv(o)
    BY DEF IInv, Kept, TablesInv
  <2>2. cb[o].status \in {"Idle", "Active"}
    BY <1>3
  <2> QED BY <1>3, <2>1, <2>2, CallableAssumption DEF Scheduled, Added, CallbackInv
<1>7. Added(o)
  BY <1>6 DEF Scheduled
<1>8. o = currentCallback => InRun /\ pc = "loop"
  BY <1>7, LuaKey
<1>9. o = currentCallback => n = 1
  <2> SUFFICES ASSUME o = currentCallback PROVE n = 1
    OBVIOUS
  <2>1. pc = "loop" /\ 1 \in DOMAIN frames /\ FrameInv(1)
    BY <1>1, <1>8 DEF IInv, Kept, ControlInv
  <2>2. frames[1] \in Frame
    BY <1>1, TopFrame
  <2>3. frames[1].by = "update"
    BY <2>1, <2>2 DEF FrameInv, Frame
  <2>4. frames[1].cb = o
    BY <2>1, <2>3 DEF FrameInv
  <2> QED BY <1>3, <2>1, <2>4
<1>10. o # currentCallback => cb[o].deadline <= now
  <2>1. o # currentCallback => n # 1
    BY <1>3, <1>5
  <2>2. n # 1 => n > 1
    BY ONLY <1>1
  <2> QED BY <1>3, <2>1, <2>2
<1> QED
  BY <1>1, <1>3, <1>5, <1>6, <1>8, <1>9, <1>10

\* The frames that stay are as before.
LEMMA FramesKept ==
  ASSUME IInv, DOMAIN frames' \subseteq DOMAIN frames,
         \A i \in DOMAIN frames' : frames'[i] = frames[i],
         DOMAIN frames' # {} => UNCHANGED pc, UNCHANGED currentCallback,
         now \in Nat, now' \in Nat, now' >= now,
         \A i \in DOMAIN frames' : frames[i].thread =>
           LET o == frames[i].cb IN
           /\ cb'[o].callable = cb[o].callable
           /\ cb'[o].status = cb[o].status
           /\ cb'[o].deadline = cb[o].deadline,
         \A o \in Objs : cb[o].deadline \in Nat
  PROVE  \A i \in DOMAIN frames' : FrameInv(i)'
<1> SUFFICES ASSUME NEW i \in DOMAIN frames' PROVE FrameInv(i)'
  OBVIOUS
<1>1. /\ FrameInv(i) /\ frames'[i] = frames[i] /\ pc' = pc
      /\ currentCallback' = currentCallback
  BY DEF IInv, Kept, ControlInv
<1>2. frames[i].thread => LET o == frames[i].cb IN
        i > 1 => o \in Objs /\ cb[o].deadline <= now
  BY <1>1 DEF FrameInv
<1>3. frames[i].thread => LET o == frames[i].cb IN
        /\ cb'[o].callable \in Threads
        /\ cb'[o].status = IF i = 1 THEN "Active" ELSE "Idle"
        /\ i > 1 => cb'[o].deadline <= now'
  <2> SUFFICES ASSUME frames[i].thread
               PROVE  LET o == frames[i].cb IN
                      /\ cb'[o].callable \in Threads
                      /\ cb'[o].status = IF i = 1 THEN "Active" ELSE "Idle"
                      /\ i > 1 => cb'[o].deadline <= now'
    OBVIOUS
  <2> DEFINE o == frames[i].cb
  <2>1. /\ cb[o].callable \in Threads
        /\ cb[o].status = IF i = 1 THEN "Active" ELSE "Idle"
    BY <1>1 DEF FrameInv
  <2>2. /\ cb'[o].callable = cb[o].callable
        /\ cb'[o].status = cb[o].status
        /\ cb'[o].deadline = cb[o].deadline
    OBVIOUS
  <2>3. i > 1 => cb[o].deadline \in Nat /\ cb[o].deadline <= now
    BY <1>2
  <2> QED BY <2>1, <2>2, <2>3
<1> QED
  BY <1>1, <1>3 DEF FrameInv

\* When Lua code ends, update() goes on with its run, or whoever was interrupted.
LEMMA LeaveKept ==
  ASSUME IInv, frames # <<>>, Leave, UNCHANGED currentCallback
  PROVE  /\ DOMAIN frames' = 1..(Len(frames) - 1)
         /\ \A i \in DOMAIN frames' : i \in DOMAIN frames /\ frames'[i] = frames[i]
         /\ InRun' <=> InRun
         /\ pc' = "wait" <=> pc = "wait"
         /\ pc' = "ran" => frames' = <<>>
         /\ pc' = "loop" => pc = "loop"
         /\ Len(frames) = 1 /\ pc = "loop" => pc' = "ran"
         /\ DOMAIN frames' # {} => pc' = pc
<1> DEFINE n == Len(frames)
<1>1. /\ n \in Nat \ {0} /\ n \in DOMAIN frames /\ DOMAIN frames = 1..n
      /\ Top = frames[n] /\ Top \in Frame /\ FrameInv(n)
  BY TopFrame
<1>2. /\ frames' \in Seq(Frame)
      /\ \A i \in DOMAIN frames' : i \in DOMAIN frames /\ frames'[i] = frames[i]
  BY LeaveType DEF IInv
<1>3. DOMAIN frames' = 1..(n - 1) /\ Len(frames') = n - 1
  <2>1. frames' = SubSeq(frames, 1, n - 1)
    BY DEF Leave, Front
  <2>2. Len(frames') = n - 1
    BY <1>1, <2>1, SubSeqProperties, TopFrame
  <2> QED BY <1>1, <1>2, <2>2
<1>4. frames' = <<>> <=> n = 1
  BY <1>1, <1>2, <1>3
<1>5. pc \in {"wait", "loop"}
  BY DEF IInv, Kept, ControlInv, TypeInv, TypeOK
<1>6. Top.by \in {"event", "update", "init"}
  BY <1>1 DEF Frame
<1>7. /\ Top.by = "init" <=> n > 1
      /\ Top.by = "event" <=> n = 1 /\ pc = "wait"
  BY <1>1 DEF FrameInv
<1>8. Top.by = "update" <=> n = 1 /\ pc = "loop"
  BY <1>1, <1>5, <1>6, <1>7
<1>9. pc' = IF Top.by = "update" THEN "ran" ELSE pc
  BY DEF Leave
<1> QED
  BY <1>1, <1>2, <1>3, <1>4, <1>5, <1>8, <1>9 DEF InRun

\* The run of another callback, and its frame, are as before.
LEMMA RunKept ==
  ASSUME IInv, NEW o, o # currentCallback, \A p \in Objs \ {o} : cb'[p] = cb[p],
         UNCHANGED <<currentCallback, pass>>, InRun, pc' = "loop" => pc = "loop"
  PROVE  currentCallback' \in Objs /\ RunInv'
<1>1. currentCallback \in Objs /\ RunInv
  BY DEF IInv, Kept, ControlInv
<1>2. currentCallback \in Objs \ {o} /\ cb'[currentCallback] = cb[currentCallback]
  BY <1>1
<1> QED
  BY <1>1, <1>2 DEF RunInv, Scheduled, Added

-----------------------------------------------------------------------------
(* The calls of the API                                                    *)

\* What a call that starts or ends no Lua code leaves of control.
LEMMA CallControl ==
  ASSUME IInv, frames # <<>>, UNCHANGED <<now, currentCallback, pc, frames>>, ub' = FALSE,
         NEW o \in Objs, \A p \in Objs \ {o} : cb'[p] = cb[p],
         \A i \in DOMAIN frames : frames[i].thread /\ frames[i].cb = o =>
           /\ cb'[o].callable = cb[o].callable
           /\ cb'[o].status = cb[o].status
           /\ cb'[o].deadline = cb[o].deadline,
         InRun => RunInv'
  PROVE  ControlInv'
<1>1. \A i \in DOMAIN frames : frames[i].thread => frames[i].cb \in Objs
  BY FrameTypes DEF IInv
<1>2. \A i \in DOMAIN frames : FrameInv(i)'
  <2>1. \A i \in DOMAIN frames' : frames[i].thread =>
          LET p == frames[i].cb IN
          /\ cb'[p].callable = cb[p].callable
          /\ cb'[p].status = cb[p].status
          /\ cb'[p].deadline = cb[p].deadline
    BY <1>1
  <2> QED BY <2>1, FramesKept, Types DEF IInv
<1>3. InRun' <=> InRun
  BY DEF InRun
<1> QED
  BY <1>2, <1>3 DEF ControlInv, IInv, Kept

LEMMA AddKept ==
  ASSUME Usage = {}, IInv, TypeInv', NEW c \in Callables, NEW n \in Names \union {None},
         NEW i \in Intervals \union {None}, NEW d \in Delays, addCallback(c, n, i, d)
  PROVE  Kept'
<1>1. /\ frames # <<>>
      /\ UNCHANGED <<now, currentCallback, visited, pass, frames, pc, events, ub>>
  BY DEF addCallback, Calling, loopVars
<1>2. InRun' <=> InRun
  BY <1>1 DEF InRun
<1>3. CASE \E o \in Objs : Enqueue(o, c, n, i, d, FALSE)
  <2>1. PICK o \in Objs : Enqueue(o, c, n, i, d, FALSE)
    BY <1>3
  <2>2. d \in Nat /\ FALSE \in BOOLEAN
    BY TimeAssumption
  <2>3. /\ ~Added(o) /\ o # currentCallback
        /\ \A j \in DOMAIN frames : frames[j].cb # o
        /\ \A p \in Objs \ {o} : cb'[p] = cb[p]
        /\ TablesInv' /\ QueueInv' /\ InTime'
    BY <1>1, <1>2, <2>1, <2>2, EnqueueKept
  <2>4. InRun => RunInv'
    BY <1>1, <2>3, RunKept
  <2>5. ControlInv'
    BY <1>1, <2>3, <2>4, CallControl DEF IInv, Kept, ControlInv
  <2> QED
    BY <2>3, <2>5 DEF Kept
<1>4. CASE ~\E o \in Objs : Enqueue(o, c, n, i, d, FALSE)
  <2>0. PICK o : o = registry[c]
    OBVIOUS
  <2>1. /\ o # None
        /\ d % IntervalRange > 0 => "readdDelay" \in Usage
        /\ cb' = [cb EXCEPT ![o] = AlreadyAdded(o, i, d % IntervalRange)]
        /\ maybeAwaken(cb', cb'[o].deadline)
        /\ UNCHANGED <<queueVars, lastAdded>>
    BY <1>4, <2>0 DEF addCallback
  <2>2. o \in Objs
    BY <2>0, <2>1 DEF IInv, TypeInv, TypeOK
  <2>3. ~(d % IntervalRange > 0)
    BY <2>1
  <2>4. AlreadyAdded(o, i, d % IntervalRange) =
          [cb[o] EXCEPT !.deadline = cb[o].deadline,
                        !.interval = IF i # None THEN validateInputInterval(i) ELSE cb[o].interval]
    BY <2>3 DEF AlreadyAdded
  <2>5. /\ cb'[o].callable = cb[o].callable /\ cb'[o].name = cb[o].name
        /\ cb'[o].status = cb[o].status /\ cb'[o].runOnce = cb[o].runOnce
        /\ cb'[o].threadEvent = cb[o].threadEvent /\ cb'[o].deadline = cb[o].deadline
        /\ cb'[o].interval = IF i # None THEN validateInputInterval(i) ELSE cb[o].interval
        /\ \A p \in Objs \ {o} : cb'[p] = cb[p]
    BY <2>1, <2>2, <2>4, Types DEF CallbackType, IInv
  <2>6. CallbackInv(o)'
    <3>1. CallbackInv(o)
      BY <2>2 DEF IInv, Kept, TablesInv
    <3>2. i # None => MaxTime + validateInputInterval(i) < INDEFINITE
      <4> SUFFICES ASSUME i # None PROVE MaxTime + validateInputInterval(i) < INDEFINITE
        OBVIOUS
      <4>1. i \in Nat /\ i % IntervalRange \in 0..(IntervalRange - 1)
        BY TimeAssumption
      <4>2. MaxTime + IntervalRange < INDEFINITE /\ MaxTime + MIN_INTERVAL < INDEFINITE
        BY TimeAssumption
      <4>3. MaxTime \in Nat /\ INDEFINITE \in Nat /\ IntervalRange \in Nat /\ MIN_INTERVAL \in Nat
        BY TimeAssumption
      <4> QED BY <4>1, <4>2, <4>3 DEF validateInputInterval
    <3>3. registry' = registry
      BY <2>1 DEF queueVars
    <3> QED BY <2>5, <3>1, <3>2, <3>3 DEF CallbackInv, Added
  <2>7. TablesInv'
    <3>1. UNCHANGED <<registry, callbackNames>> /\ (Added(o)' <=> Added(o))
      BY <2>1, <2>5 DEF queueVars, Added
    <3> QED BY <2>2, <2>5, <2>6, <3>1, TablesKept
  <2>8. \A p \in Objs : /\ Added(p)' = Added(p) /\ Scheduled(p)' = Scheduled(p)
                        /\ KeyOf(p)' = KeyOf(p)
    <3>1. \A p \in Objs : cb'[p].status = cb[p].status /\ cb'[p].deadline = cb[p].deadline
      BY <2>5
    <3> QED BY <1>1, <1>2, <3>1 DEF Added, Scheduled, KeyOf
  <2>9. QueueInv'
    BY <2>1, <2>8, QueueStays DEF queueVars
  <2>10. InRun => RunInv'
    <3> SUFFICES ASSUME InRun PROVE RunInv'
      OBVIOUS
    <3>1. currentCallback \in Objs /\ RunInv
      BY DEF IInv, Kept, ControlInv
    <3>2. /\ cb'[currentCallback].runOnce = cb[currentCallback].runOnce
          /\ cb'[currentCallback].callable = cb[currentCallback].callable
          /\ cb'[currentCallback].status = cb[currentCallback].status
          /\ cb'[currentCallback].deadline = cb[currentCallback].deadline
      BY <2>5, <3>1
    <3> QED BY <1>1, <2>8, <3>1, <3>2 DEF RunInv
  <2>11. ControlInv'
    BY <1>1, <2>2, <2>5, <2>10, CallControl DEF IInv, Kept, ControlInv
  <2>12. InTime'
    BY <1>1, <2>1, Types DEF maybeAwaken, InTime, IInv, Kept, queueVars, Nodes
  <2> QED
    BY <2>7, <2>9, <2>11, <2>12 DEF Kept
<1> QED
  BY <1>3, <1>4

LEMMA CallOnceKept ==
  ASSUME Usage = {}, IInv, TypeInv', NEW c \in Functions, NEW d \in Delays, callOnce(c, d)
  PROVE  Kept'
<1>1. /\ frames # <<>>
      /\ UNCHANGED <<now, currentCallback, visited, pass, frames, pc, events>>
  BY DEF callOnce, Calling, loopVars
<1>2. InRun' <=> InRun
  BY <1>1 DEF InRun
<1>3. PICK o \in Objs : Enqueue(o, c, None, None, d, TRUE) /\ UNCHANGED ub
  BY DEF callOnce
<1>4. d \in Nat /\ c \in Callables
  BY TimeAssumption DEF Callables
<1>5. /\ ~Added(o) /\ o # currentCallback
      /\ \A j \in DOMAIN frames : frames[j].cb # o
      /\ \A p \in Objs \ {o} : cb'[p] = cb[p]
      /\ TablesInv' /\ QueueInv' /\ InTime'
  BY <1>1, <1>2, <1>3, <1>4, EnqueueKept
<1>6. InRun => RunInv'
  BY <1>1, <1>5, RunKept
<1>7. ControlInv'
  BY <1>1, <1>3, <1>5, <1>6, CallControl DEF IInv, Kept, ControlInv
<1> QED
  BY <1>5, <1>7 DEF Kept

LEMMA InitThreadKept ==
  ASSUME IInv, TypeInv', NEW c \in Threads, initActionThread(c)
  PROVE  Kept'
<1>1. /\ frames # <<>> /\ UNCHANGED <<now, currentCallback, visited, pass, pc, events, ub>>
  BY DEF initActionThread, Calling, loopVars
<1>2. PICK o \in Objs :
        /\ Enqueue(o, c, None, None, 0, FALSE)
        /\ frames' = Append(frames, [by |-> "init", cb |-> o, thread |-> TRUE])
  BY DEF initActionThread
<1>a. PICK n : n = Len(frames) + 1
  OBVIOUS
<1> DEFINE new == [by |-> "init", cb |-> o, thread |-> TRUE]
<1>3. /\ n \in Nat /\ n > 1 /\ DOMAIN frames = 1..(n - 1)
      /\ DOMAIN frames' = 1..n /\ frames'[n] = new
      /\ \A i \in DOMAIN frames : frames'[i] = frames[i]
  <2>1. frames \in Seq(Frame) /\ Len(frames) \in Nat \ {0} /\ new \in Frame
    BY <1>1, TopFrame DEF Frame
  <2> QED BY <1>a, <1>2, <2>1, AppendProperties
<1>4. InRun' <=> InRun
  <2>1. frames' # <<>>
    BY <1>3
  <2> QED BY <1>1, <2>1 DEF InRun
<1>5. 0 \in Nat /\ c \in Callables /\ FALSE \in BOOLEAN
  BY DEF Callables
<1>6. /\ ~Added(o) /\ o # currentCallback
      /\ \A j \in DOMAIN frames : frames[j].cb # o
      /\ \A p \in Objs \ {o} : cb'[p] = cb[p]
      /\ cb'[o].callable = c /\ cb'[o].status = "Idle" /\ cb'[o].deadline = DeadlineAfter(0)
      /\ TablesInv' /\ QueueInv' /\ InTime'
  BY <1>1, <1>2, <1>4, <1>5, EnqueueKept
<1>7. InRun => currentCallback' \in Objs /\ RunInv'
  BY <1>1, <1>6, RunKept
<1>8. FrameInv(n)'
  <2>1. DeadlineAfter(0) <= now
    <3>1. 0 % IntervalRange = 0
      BY TimeAssumption
    <3> QED BY <3>1, Types DEF IInv, DeadlineAfter
  <2>2. \A j \in DOMAIN frames' : frames'[j].cb = o => j = n
    BY <1>3, <1>6
  <2>3. n # 1 /\ o # None
    BY <1>3, NoneAssumption
  <2>4. frames'[n].by = "init" /\ frames'[n].cb = o /\ frames'[n].thread = TRUE
    BY <1>3
  <2> QED BY <1>1, <1>3, <1>6, <2>1, <2>2, <2>3, <2>4 DEF FrameInv
<1>9. ASSUME NEW i \in DOMAIN frames PROVE FrameInv(i)'
  <2>1. FrameInv(i) /\ frames'[i] = frames[i] /\ frames[i].cb # o /\ frames[i].cb \in Objs \union {None}
    BY <1>3, <1>6, FrameTypes DEF IInv, Kept, ControlInv
  <2>2. frames[i].thread => frames[i].cb \in Objs
    BY FrameTypes DEF IInv
  <2>3. frames[i].thread => cb'[frames[i].cb] = cb[frames[i].cb]
    BY <1>6, <2>1, <2>2
  <2>4. frames[i].cb # None => \A j \in DOMAIN frames' : frames'[j].cb = frames[i].cb => j = i
    BY <1>3, <2>1 DEF FrameInv
  <2> QED BY <1>1, <2>1, <2>3, <2>4 DEF FrameInv
<1>10. ControlInv'
  <2>1. \A i \in DOMAIN frames' : FrameInv(i)'
    <3>1. \A i \in DOMAIN frames' : i = n \/ i \in DOMAIN frames
      BY <1>3
    <3> QED BY <1>8, <1>9, <3>1
  <2>2. pc # "ran"
    BY <1>1 DEF IInv, Kept, ControlInv
  <2> QED BY <1>1, <1>4, <1>7, <2>1, <2>2 DEF ControlInv, IInv, Kept
<1> QED
  BY <1>6, <1>10 DEF Kept

\* Removing a callback while Lua code runs takes its node, if it has one, and if it is
\* the current one, update()'s iterator.
LEMMA ActuallyRemoved ==
  ASSUME IInv, frames # <<>>, NEW o \in Objs, Added(o), ActuallyRemove(o)
  PROVE  /\ Sorted(activeCallbacks)' /\ OneNodeEach(activeCallbacks)'
         /\ Nodes(activeCallbacks)' = NodesBut(activeCallbacks, o)
         /\ pass' = [pass EXCEPT !.itValid = @ /\ ~(o = currentCallback /\ Scheduled(o))]
         /\ Unregister(o) /\ UNCHANGED ub
<1> DEFINE nodes == IF cb[o].deadline = INDEFINITE THEN {} ELSE findActiveCallback(o)
<1>1. /\ nodes \in SUBSET {i \in DOMAIN activeCallbacks : activeCallbacks[i].cb = o}
      /\ nodes = {} <=> ~Scheduled(o)
      /\ ~Scheduled(o) => \A node \in Nodes(activeCallbacks) : node.cb # o
  BY LuaKey, NodeFound DEF Scheduled
<1>2. /\ activeCallbacks' \in Erase(activeCallbacks, nodes)
      /\ pass' = HoldsAfterErasing(o, nodes)
      /\ Unregister(o) /\ UNCHANGED ub
  BY DEF ActuallyRemove
<1> HIDE DEF nodes
<1>3. /\ Sorted(activeCallbacks') /\ OneNodeEach(activeCallbacks')
      /\ Nodes(activeCallbacks') = NodesBut(activeCallbacks, o)
  BY <1>1, <1>2, EraseNodes, Types DEF IInv, Kept, QueueInv
<1> QED
  BY <1>1, <1>2, <1>3 DEF Sorted, OneNodeEach, Nodes, HoldsAfterErasing

\* update()'s own removal of the current callback uses an iterator that is valid.
LEMMA ActuallyRemovedHeld ==
  ASSUME IInv, InRun, Scheduled(currentCallback), ActuallyRemoveHeld(currentCallback)
  PROVE  /\ Sorted(activeCallbacks)' /\ OneNodeEach(activeCallbacks)'
         /\ Nodes(activeCallbacks)' = NodesBut(activeCallbacks, currentCallback)
         /\ pass' = [pass EXCEPT !.itValid = FALSE]
         /\ Unregister(currentCallback) /\ ub' = FALSE
<1> DEFINE o == currentCallback
<1>1. o \in Objs /\ pass.itValid
  BY DEF IInv, Kept, ControlInv, RunInv
<1>2. /\ activeCallbacks' \in Erase(activeCallbacks, HeldNode)
      /\ pass' = [pass EXCEPT !.itValid = FALSE]
      /\ Unregister(o) /\ ub' = FALSE
  BY <1>1 DEF ActuallyRemoveHeld, Scheduled
<1>3. /\ HeldNode \in SUBSET {i \in DOMAIN activeCallbacks : activeCallbacks[i].cb = o}
      /\ HeldNode # {}
  BY <1>1, NodeFound DEF HeldNode
<1>4. /\ Sorted(activeCallbacks') /\ OneNodeEach(activeCallbacks')
      /\ Nodes(activeCallbacks') = NodesBut(activeCallbacks, o)
  BY <1>1, <1>2, <1>3, EraseNodes, Types DEF IInv, Kept, QueueInv
<1> QED
  BY <1>2, <1>4 DEF Sorted, OneNodeEach, Nodes

LEMMA RemoveKept ==
  ASSUME Usage = {}, IInv, TypeInv', NEW key \in Callables \union Names, removeCallback(key)
  PROVE  Kept'
<1>0. PICK o : o = findCallback(key)
  OBVIOUS
<1>1. /\ frames # <<>> /\ o # None
      /\ ~(Running(o) /\ (IsThread(o) \/ cb[o].runOnce))
      /\ ActuallyRemove(o)
      /\ cb' = [cb EXCEPT ![o].status = "Removed",
                          ![o].threadEvent = Triggered(@, "removed")]
      /\ UNCHANGED <<now, lastAdded, nextUpdate, currentCallback, visited, frames, pc, events>>
  BY <1>0 DEF removeCallback, Calling, loopVars
<1>2. o \in Objs /\ Added(o)
  BY <1>0, <1>1, FoundAdded
<1>3. /\ \A p \in Objs \ {o} : cb'[p] = cb[p]
      /\ cb'[o].status = "Removed" /\ cb'[o].threadEvent # "pending"
      /\ cb'[o].runOnce = cb[o].runOnce /\ cb'[o].callable = cb[o].callable
      /\ cb'[o].interval = cb[o].interval
  BY <1>1, <1>2, Types DEF IInv, CallbackType, Triggered
<1>4. /\ Sorted(activeCallbacks)' /\ OneNodeEach(activeCallbacks)'
      /\ Nodes(activeCallbacks)' = NodesBut(activeCallbacks, o)
      /\ pass' = [pass EXCEPT !.itValid = @ /\ ~(o = currentCallback /\ Scheduled(o))]
      /\ Unregister(o) /\ UNCHANGED ub
  BY <1>1, <1>2, ActuallyRemoved
<1>5. /\ InRun' <=> InRun
      /\ pass'.key = pass.key /\ pass'.newDeadline = pass.newDeadline
      /\ pass'.itValid = (pass.itValid /\ ~(o = currentCallback /\ Scheduled(o)))
  BY <1>1, <1>4, Types DEF InRun, IInv
<1>6. TablesInv' /\ QueueInv' /\ InTime'
  BY <1>1, <1>2, <1>3, <1>4, <1>5, RemovedKept
<1>7. \A i \in DOMAIN frames : ~(frames[i].thread /\ frames[i].cb = o)
  <2>1. ASSUME NEW i \in DOMAIN frames, frames[i].thread, frames[i].cb = o PROVE FALSE
    <3>1. IsThread(o) /\ Running(o)
      BY <2>1 DEF IInv, Kept, ControlInv, FrameInv, IsThread, Running
    <3> QED BY <1>1, <3>1
  <2> QED BY <2>1
<1>8. InRun => RunInv'
  <2> SUFFICES ASSUME InRun PROVE RunInv'
    OBVIOUS
  <2>1. RunInv /\ currentCallback \in Objs
    BY DEF IInv, Kept, ControlInv
  <2>2. CASE o # currentCallback
    <3>1. pass' = pass
      BY <1>4, <2>2, Types DEF IInv
    <3> QED BY <1>1, <1>3, <2>2, <3>1, RunKept
  <2>3. CASE o = currentCallback
    <3>1. Running(o)
      <4>0. 1 \in DOMAIN frames
        BY <1>1, TopFrame
      <4>1. pc = "loop" /\ FrameInv(1) /\ frames[1] \in Frame
        BY <1>1, <1>2, <2>3, <4>0, LuaKey, FrameTypes DEF IInv, Kept, ControlInv
      <4>2. frames[1].by = "update"
        BY <4>1 DEF FrameInv, Frame
      <4> QED BY <2>3, <4>0, <4>1, <4>2 DEF FrameInv, Running
    <3>2. ~cb[o].runOnce
      BY <1>1, <3>1
    <3>3. ~Scheduled(o)' /\ ~Added(o)'
      BY <1>3 DEF Scheduled, Added
    <3> QED BY <1>1, <1>3, <1>5, <2>1, <2>3, <3>2, <3>3 DEF RunInv
  <2> QED BY <2>2, <2>3
<1>9. ControlInv'
  BY <1>1, <1>2, <1>3, <1>4, <1>7, <1>8, CallControl DEF IInv, Kept, ControlInv
<1> QED
  BY <1>6, <1>9 DEF Kept

\* A coroutine that makes a call and yields leaves the frames below it as they are.
LEMMA LeavingControl ==
  ASSUME IInv, frames # <<>>, NEW o \in Objs, IsCallingThread(o), Leave,
         UNCHANGED <<now, currentCallback>>, ub' = FALSE,
         \A p \in Objs \ {o} : cb'[p] = cb[p],
         InRun => RunInv'
  PROVE  ControlInv' /\ (InRun' <=> InRun)
<1>1. /\ DOMAIN frames' = 1..(Len(frames) - 1)
      /\ \A i \in DOMAIN frames' : i \in DOMAIN frames /\ frames'[i] = frames[i]
      /\ InRun' <=> InRun
      /\ pc' = "wait" <=> pc = "wait"
      /\ pc' = "ran" => frames' = <<>>
      /\ DOMAIN frames' # {} => pc' = pc
  BY LeaveKept
<1>2. \A i \in DOMAIN frames' : frames[i].cb # o
  <2>1. /\ Len(frames) \in Nat
        /\ \A i \in DOMAIN frames : frames[i].cb = o => i = Len(frames)
    BY CallingThread, TopFrame
  <2> QED BY <1>1, <2>1
<1>3. \A i \in DOMAIN frames' : frames[i].thread => cb'[frames[i].cb] = cb[frames[i].cb]
  BY <1>1, <1>2, FrameTypes DEF IInv
<1>4. \A i \in DOMAIN frames' : FrameInv(i)'
  BY <1>1, <1>3, FramesKept, Types DEF IInv
<1> QED
  BY <1>1, <1>4 DEF ControlInv, IInv, Kept

LEMMA TimeoutKept ==
  ASSUME Usage = {}, IInv, TypeInv', NEW key \in Callables \union Names, NEW t \in Timeouts,
         setCallbackTimeout(key, t)
  PROVE  Kept'
<1>0. PICK o : o = findCallback(key)
  OBVIOUS
<1>1. /\ frames # <<>> /\ o # None /\ IsCallingThread(o)
      /\ activeCallbacks' \in IF o = currentCallback \/ findActiveCallback(o) = {}
                              THEN {activeCallbacks}
                              ELSE Rekey(activeCallbacks, findActiveCallback(o), now + t)
      /\ cb' = [cb EXCEPT ![o].deadline = now + t, ![o].status = "Suspended"]
      /\ Leave
      /\ UNCHANGED <<now, registry, callbackNames, nextUpdate, currentCallback, pass, ub>>
  BY <1>0 DEF setCallbackTimeout, Calling, loopVars, YieldIfCalling
<1>2. o \in Objs
  BY <1>0, <1>1, FoundAdded
<1>3. /\ Scheduled(o) /\ Added(o) /\ cb[o].callable \in Threads /\ ~cb[o].runOnce
      /\ o = currentCallback <=> Len(frames) = 1
      /\ Len(frames) = 1 => InRun /\ pc = "loop"
      /\ o # currentCallback => cb[o].deadline <= now
      /\ Len(frames) \in Nat \ {0}
  BY <1>1, <1>2, CallingThread, TopFrame DEF Scheduled
<1>4. now + t \in Nat /\ now + t # INDEFINITE /\ now \in Nat
  <2>1. MaxTime + t < INDEFINITE /\ t \in Nat
    BY TimeAssumption
  <2>2. now \in 0..MaxTime /\ MaxTime \in Nat /\ INDEFINITE \in Nat
    BY Types DEF IInv
  <2> QED BY <2>1, <2>2
<1>5. /\ \A p \in Objs \ {o} : cb'[p] = cb[p]
      /\ cb'[o].callable = cb[o].callable /\ cb'[o].name = cb[o].name
      /\ cb'[o].status = "Suspended" /\ cb'[o].runOnce = cb[o].runOnce
      /\ cb'[o].threadEvent = cb[o].threadEvent /\ cb'[o].deadline = now + t
      /\ cb'[o].interval = cb[o].interval
  BY <1>1, <1>2, Types DEF CallbackType, IInv
<1>6. Added(o)' /\ Scheduled(o)'
  BY <1>4, <1>5 DEF Added, Scheduled
<1>7. TablesInv'
  <2>1. CallbackInv(o)'
    <3>1. CallbackInv(o)
      BY <1>2 DEF IInv, Kept, TablesInv
    <3> QED BY <1>1, <1>3, <1>4, <1>5, <1>6, <3>1 DEF CallbackInv
  <2> QED BY <1>1, <1>2, <1>3, <1>5, <1>6, <2>1, TablesKept
<1>8. InRun => RunInv'
  <2> SUFFICES ASSUME InRun PROVE RunInv'
    OBVIOUS
  <2>1. /\ pc' = "loop" => pc = "loop"
        /\ Len(frames) = 1 => pc' = "ran"
    BY <1>1, <1>3, LeaveKept
  <2>2. CASE o # currentCallback
    BY <1>1, <1>5, <2>1, <2>2, RunKept
  <2>3. CASE o = currentCallback
    <3>1. pc' # "loop"
      BY <1>3, <2>1, <2>3
    <3>2. RunInv
      BY DEF IInv, Kept, ControlInv
    <3> QED BY <1>1, <1>3, <1>5, <1>6, <2>3, <3>1, <3>2 DEF RunInv
  <2> QED BY <2>2, <2>3
<1>9. ControlInv' /\ (InRun' <=> InRun)
  BY <1>1, <1>2, <1>5, <1>8, LeavingControl DEF IInv, Kept, ControlInv
<1>10. \A p \in Objs \ {o} : Added(p)' = Added(p) /\ Scheduled(p)' = Scheduled(p) /\ KeyOf(p)' = KeyOf(p)
  <2>1. (InRun' <=> InRun) /\ UNCHANGED <<currentCallback, pass>>
    BY <1>1, <1>9
  <2> QED BY <1>5, <2>1 DEF Added, Scheduled, KeyOf
<1>11. CASE o = currentCallback
  <2>1. InRun /\ pc = "loop"
    BY <1>3, <1>11
  <2>2. UNCHANGED activeCallbacks
    BY <1>1, <1>11
  <2>3. KeyOf(o)' = KeyOf(o)
    BY <1>1, <1>9, <1>11, <2>1 DEF KeyOf
  <2>4. QueueInv'
    <3>1. \A p \in Objs : (Scheduled(p)' <=> Scheduled(p)) /\ (Scheduled(p) => KeyOf(p)' = KeyOf(p))
      BY <1>3, <1>6, <1>10, <2>3
    <3> QED BY <2>2, <3>1, QueueStays
  <2>5. InTime'
    <3>1. pc' # "wait"
      BY <1>1, <2>1, LeaveKept
    <3> QED BY <3>1 DEF InTime
  <2> QED
    BY <1>7, <1>9, <2>4, <2>5 DEF Kept
<1>12. CASE o # currentCallback
  <2>1. /\ findActiveCallback(o)
             \in SUBSET {i \in DOMAIN activeCallbacks : activeCallbacks[i].cb = o}
        /\ findActiveCallback(o) # {}
        /\ KeyOf(o) = cb[o].deadline
    BY <1>1, <1>2, <1>3, LuaKey, NodeFound
  <2>2. activeCallbacks' \in Rekey(activeCallbacks, findActiveCallback(o), now + t)
    BY <1>1, <1>12, <2>1
  <2>3. /\ Sorted(activeCallbacks') /\ OneNodeEach(activeCallbacks')
        /\ Nodes(activeCallbacks') =
             NodesBut(activeCallbacks, o) \union {[key |-> now + t, cb |-> o]}
    BY <1>2, <1>4, <2>1, <2>2, RekeyNodes, Types DEF IInv, Kept, QueueInv
  <2>4. KeyOf(o)' = now + t
    BY <1>1, <1>5, <1>12 DEF KeyOf
  <2>5. QueueInv'
    <3>1. /\ Sorted(activeCallbacks)' /\ OneNodeEach(activeCallbacks)'
          /\ Nodes(activeCallbacks)' =
               NodesBut(activeCallbacks, o) \union {[key |-> KeyOf(o)', cb |-> o]}
      BY <2>3, <2>4 DEF Sorted, OneNodeEach, Nodes
    <3> QED BY <1>2, <1>6, <1>10, <3>1, QueueKept
  <2>6. InTime'
    <3> SUFFICES ASSUME pc' = "wait"
                 PROVE  nextUpdate <= now \/ \A node \in Nodes(activeCallbacks') : nextUpdate <= node.key
      BY <1>1 DEF InTime, Nodes
    <3>1. pc = "wait"
      BY <1>1, LeaveKept
    <3>2. nextUpdate <= now \/ \A node \in Nodes(activeCallbacks) : nextUpdate <= node.key
      BY <3>1 DEF IInv, Kept, InTime
    <3>3. [key |-> cb[o].deadline, cb |-> o] \in Nodes(activeCallbacks)
      BY <1>2, <1>3, <2>1 DEF IInv, Kept, QueueInv
    <3>4. cb[o].deadline <= now /\ cb[o].deadline \in Nat /\ nextUpdate \in Nat
      BY <1>2, <1>3, <1>12, Types DEF IInv
    <3>5. nextUpdate <= now
      BY <1>4, <3>2, <3>3, <3>4
    <3> QED BY <3>5
  <2> QED
    BY <1>7, <1>9, <2>5, <2>6 DEF Kept
<1> QED
  BY <1>11, <1>12

LEMMA IndefiniteKept ==
  ASSUME Usage = {}, IInv, TypeInv', NEW key \in Callables \union Names,
         setCallbackTimeoutIndefinite(key)
  PROVE  Kept'
<1>0. PICK o : o = findCallback(key)
  OBVIOUS
<1>1. /\ frames # <<>> /\ o # None /\ IsCallingThread(o)
      /\ activeCallbacks' \in Erase(activeCallbacks, findActiveCallback(o))
      /\ pass' = HoldsAfterErasing(o, findActiveCallback(o))
      /\ cb' = [cb EXCEPT ![o].deadline = INDEFINITE, ![o].status = "Suspended"]
      /\ Leave
      /\ UNCHANGED <<now, registry, callbackNames, nextUpdate, currentCallback, ub>>
  BY <1>0 DEF setCallbackTimeoutIndefinite, Calling, loopVars, YieldIfCalling
<1>2. o \in Objs
  BY <1>0, <1>1, FoundAdded
<1>3. /\ Scheduled(o) /\ Added(o) /\ cb[o].callable \in Threads /\ ~cb[o].runOnce
      /\ o = currentCallback <=> Len(frames) = 1
      /\ Len(frames) = 1 => InRun /\ pc = "loop"
  BY <1>1, <1>2, CallingThread DEF Scheduled
<1>4. /\ \A p \in Objs \ {o} : cb'[p] = cb[p]
      /\ cb'[o].callable = cb[o].callable /\ cb'[o].name = cb[o].name
      /\ cb'[o].status = "Suspended" /\ cb'[o].runOnce = cb[o].runOnce
      /\ cb'[o].threadEvent = cb[o].threadEvent /\ cb'[o].deadline = INDEFINITE
      /\ cb'[o].interval = cb[o].interval
  BY <1>1, <1>2, Types DEF CallbackType, IInv
<1>5. Added(o)' /\ ~Scheduled(o)'
  BY <1>4 DEF Added, Scheduled
<1>6. TablesInv'
  <2>1. CallbackInv(o)'
    <3>1. CallbackInv(o)
      BY <1>2 DEF IInv, Kept, TablesInv
    <3> QED BY <1>1, <1>3, <1>4, <1>5, <3>1 DEF CallbackInv
  <2> QED BY <1>1, <1>2, <1>3, <1>4, <1>5, <2>1, TablesKept
<1>7. /\ findActiveCallback(o)
           \in SUBSET {i \in DOMAIN activeCallbacks : activeCallbacks[i].cb = o}
      /\ findActiveCallback(o) # {}
  BY <1>1, <1>2, <1>3, LuaKey, NodeFound
<1>8. /\ pass'.key = pass.key /\ pass'.newDeadline = pass.newDeadline
      /\ pass'.itValid = (pass.itValid /\ o # currentCallback)
  BY <1>1, <1>7, Types DEF HoldsAfterErasing, IInv
<1>9. InRun => RunInv'
  <2> SUFFICES ASSUME InRun PROVE RunInv'
    OBVIOUS
  <2>1. /\ pc' = "loop" => pc = "loop"
        /\ Len(frames) = 1 /\ pc = "loop" => pc' = "ran"
    BY <1>1, LeaveKept
  <2>2. CASE o # currentCallback
    <3>1. pass' = pass
      BY <1>1, <2>2, Types DEF HoldsAfterErasing, IInv
    <3> QED BY <1>1, <1>4, <2>1, <2>2, <3>1, RunKept
  <2>3. CASE o = currentCallback
    <3>1. pc' # "loop"
      BY <1>3, <2>1, <2>3
    <3>2. RunInv
      BY DEF IInv, Kept, ControlInv
    <3> QED BY <1>1, <1>3, <1>4, <1>5, <1>8, <2>3, <3>1, <3>2 DEF RunInv
  <2> QED BY <2>2, <2>3
<1>10. ControlInv' /\ (InRun' <=> InRun)
  BY <1>1, <1>2, <1>4, <1>9, LeavingControl DEF IInv, Kept, ControlInv
<1>11. \A p \in Objs \ {o} : Added(p)' = Added(p) /\ Scheduled(p)' = Scheduled(p) /\ KeyOf(p)' = KeyOf(p)
  <2>1. (InRun' <=> InRun) /\ UNCHANGED currentCallback /\ pass'.key = pass.key
    BY <1>1, <1>8, <1>10
  <2> QED BY <1>4, <2>1 DEF Added, Scheduled, KeyOf
<1>12. /\ Sorted(activeCallbacks') /\ OneNodeEach(activeCallbacks')
       /\ Nodes(activeCallbacks') = NodesBut(activeCallbacks, o)
  BY <1>1, <1>2, <1>7, EraseNodes, Types DEF IInv, Kept, QueueInv
<1>13. QueueInv'
  <2>1. /\ Sorted(activeCallbacks)' /\ OneNodeEach(activeCallbacks)'
        /\ Nodes(activeCallbacks)' = NodesBut(activeCallbacks, o)
    BY <1>12 DEF Sorted, OneNodeEach, Nodes
  <2> QED BY <1>2, <1>5, <1>11, <2>1, QueueKept
<1>14. InTime'
  <2> SUFFICES ASSUME pc' = "wait"
               PROVE  nextUpdate <= now \/ \A node \in Nodes(activeCallbacks') : nextUpdate <= node.key
    BY <1>1 DEF InTime, Nodes
  <2>1. pc = "wait"
    BY <1>1, LeaveKept
  <2> QED BY <1>12, <2>1 DEF IInv, Kept, InTime, NodesBut
<1> QED
  BY <1>6, <1>10, <1>13, <1>14 DEF Kept

LEMMA CancelKept ==
  ASSUME IInv, TypeInv', NEW key \in Callables \union Names, cancelCallbackTimeout(key)
  PROVE  Kept'
<1>0. PICK o : o = findCallback(key)
  OBVIOUS
<1>1. /\ frames # <<>> /\ o # None
      /\ cb[o].status = "Suspended"
      /\ cb' = [cb EXCEPT ![o].deadline = now]
      /\ \/ /\ cb[o].deadline = INDEFINITE
            /\ activeCallbacks' \in Emplace(activeCallbacks, now, o)
            /\ UNCHANGED ub
         \/ /\ cb[o].deadline # INDEFINITE
            /\ ub' = (findActiveCallback(o) = {})
            /\ activeCallbacks' \in IF findActiveCallback(o) = {} THEN {activeCallbacks}
                                    ELSE Rekey(activeCallbacks, findActiveCallback(o), now)
      /\ nextUpdate' = now
      /\ UNCHANGED <<now, registry, callbackNames, currentCallback, pass, frames, pc>>
  BY <1>0 DEF cancelCallbackTimeout, Calling, loopVars, onCallbackAwake
<1>2. o \in Objs /\ Added(o)
  BY <1>0, <1>1, FoundAdded
<1>3. now \in Nat /\ now # INDEFINITE
  <2>1. now \in 0..MaxTime /\ MaxTime \in Nat /\ INDEFINITE \in Nat
    BY Types DEF IInv
  <2>2. MaxTime + MIN_INTERVAL < INDEFINITE /\ MIN_INTERVAL \in Nat
    BY TimeAssumption
  <2> QED BY <2>1, <2>2
<1>4. /\ \A p \in Objs \ {o} : cb'[p] = cb[p]
      /\ cb'[o].callable = cb[o].callable /\ cb'[o].name = cb[o].name
      /\ cb'[o].status = cb[o].status /\ cb'[o].runOnce = cb[o].runOnce
      /\ cb'[o].threadEvent = cb[o].threadEvent /\ cb'[o].deadline = now
      /\ cb'[o].interval = cb[o].interval
  BY <1>1, <1>2, Types DEF CallbackType, IInv
<1>5. Added(o)' /\ Scheduled(o)'
  BY <1>1, <1>3, <1>4 DEF Added, Scheduled
<1>6. TablesInv'
  <2>1. CallbackInv(o)'
    <3>1. CallbackInv(o)
      BY <1>2 DEF IInv, Kept, TablesInv
    <3> QED BY <1>1, <1>2, <1>3, <1>4, <1>5, <3>1 DEF CallbackInv
  <2> QED BY <1>1, <1>2, <1>4, <1>5, <2>1, TablesKept
<1>7. InRun' <=> InRun
  BY <1>1 DEF InRun
<1>8. o # currentCallback /\ KeyOf(o) = cb[o].deadline
  <2>1. /\ KeyOf(o) = cb[o].deadline
        /\ o = currentCallback => InRun /\ pc = "loop"
    BY <1>1, <1>2, LuaKey
  <2>2. InRun /\ pc = "loop" /\ o = currentCallback => cb[o].status = "Active"
    BY <1>2 DEF IInv, Kept, ControlInv, RunInv
  <2> QED BY <1>1, <2>1, <2>2
<1>9. \A p \in Objs \ {o} : Added(p)' = Added(p) /\ Scheduled(p)' = Scheduled(p) /\ KeyOf(p)' = KeyOf(p)
  BY <1>1, <1>4, <1>7 DEF Added, Scheduled, KeyOf
<1>10. /\ Sorted(activeCallbacks') /\ OneNodeEach(activeCallbacks')
       /\ Nodes(activeCallbacks') =
            NodesBut(activeCallbacks, o) \union {[key |-> now, cb |-> o]}
       /\ ub' = FALSE
  <2>0. ub = FALSE
    BY DEF IInv, Kept, ControlInv
  <2>1. CASE /\ cb[o].deadline = INDEFINITE
             /\ activeCallbacks' \in Emplace(activeCallbacks, now, o)
             /\ UNCHANGED ub
    <3>1. \A node \in Nodes(activeCallbacks) : node.cb # o
      BY <1>2, <2>1, NodeFound DEF Scheduled
    <3>2. /\ Sorted(activeCallbacks') /\ OneNodeEach(activeCallbacks')
          /\ Nodes(activeCallbacks') = Nodes(activeCallbacks) \union {[key |-> now, cb |-> o]}
      BY <1>2, <1>3, <2>1, <3>1, EmplaceNodes, Types DEF IInv, Kept, QueueInv
    <3>3. NodesBut(activeCallbacks, o) = Nodes(activeCallbacks)
      BY <3>1 DEF NodesBut
    <3> QED BY <2>0, <2>1, <3>2, <3>3
  <2>2. CASE /\ cb[o].deadline # INDEFINITE
             /\ ub' = (findActiveCallback(o) = {})
             /\ activeCallbacks' \in IF findActiveCallback(o) = {} THEN {activeCallbacks}
                                     ELSE Rekey(activeCallbacks, findActiveCallback(o), now)
    <3>1. /\ findActiveCallback(o)
               \in SUBSET {i \in DOMAIN activeCallbacks : activeCallbacks[i].cb = o}
          /\ findActiveCallback(o) # {}
      BY <1>2, <1>8, <2>2, NodeFound DEF Scheduled
    <3>2. /\ Sorted(activeCallbacks') /\ OneNodeEach(activeCallbacks')
          /\ Nodes(activeCallbacks') =
               NodesBut(activeCallbacks, o) \union {[key |-> now, cb |-> o]}
      BY <1>2, <1>3, <2>2, <3>1, RekeyNodes, Types DEF IInv, Kept, QueueInv
    <3> QED BY <2>2, <3>1, <3>2
  <2> QED BY <1>1, <2>1, <2>2
<1>11. QueueInv'
  <2>1. KeyOf(o)' = now
    BY <1>1, <1>4, <1>8 DEF KeyOf
  <2>2. /\ Sorted(activeCallbacks)' /\ OneNodeEach(activeCallbacks)'
        /\ Nodes(activeCallbacks)' =
             NodesBut(activeCallbacks, o) \union {[key |-> KeyOf(o)', cb |-> o]}
    BY <1>10, <2>1 DEF Sorted, OneNodeEach, Nodes
  <2> QED BY <1>2, <1>5, <1>9, <2>2, QueueKept
<1>12. ControlInv'
  <2>1. InRun => RunInv'
    BY <1>1, <1>4, <1>8, RunKept
  <2>2. \A i \in DOMAIN frames : ~(frames[i].thread /\ frames[i].cb = o)
    <3>1. \A i \in DOMAIN frames : frames[i].thread =>
            cb[frames[i].cb].status = IF i = 1 THEN "Active" ELSE "Idle"
      BY DEF IInv, Kept, ControlInv, FrameInv
    <3> QED BY <1>1, <3>1
  <2> QED
    BY <1>1, <1>2, <1>4, <1>10, <2>1, <2>2, CallControl
<1>13. InTime'
  BY <1>1, <1>3 DEF InTime
<1> QED
  BY <1>6, <1>11, <1>12, <1>13 DEF Kept

\* A function returns, or a coroutine yields.
LEMMA ReturnKept ==
  ASSUME IInv, TypeInv', Return \/ Yield
  PROVE  Kept'
<1>1. /\ frames # <<>> /\ Leave
      /\ UNCHANGED <<now, cb, activeCallbacks, registry, callbackNames, nextUpdate,
                     currentCallback, pass, ub>>
  BY DEF Return, Yield, queueVars, loopVars
<1>2. /\ DOMAIN frames' = 1..(Len(frames) - 1)
      /\ \A i \in DOMAIN frames' : i \in DOMAIN frames /\ frames'[i] = frames[i]
      /\ InRun' <=> InRun
      /\ pc' = "wait" <=> pc = "wait"
      /\ pc' = "ran" => frames' = <<>>
      /\ pc' = "loop" => pc = "loop"
      /\ DOMAIN frames' # {} => pc' = pc
  BY <1>1, LeaveKept
<1>3. \A p \in Objs : Added(p)' = Added(p) /\ Scheduled(p)' = Scheduled(p) /\ KeyOf(p)' = KeyOf(p)
  BY <1>1, <1>2 DEF Added, Scheduled, KeyOf
<1>4. TablesInv'
  BY <1>1 DEF IInv, Kept, TablesInv, CallbackInv, Added
<1>5. QueueInv'
  BY <1>1, <1>3, QueueStays
<1>6. \A i \in DOMAIN frames' : FrameInv(i)'
  BY <1>1, <1>2, FramesKept, Types DEF IInv
<1>7. InRun => currentCallback \in Objs /\ RunInv'
  BY <1>1, <1>2 DEF IInv, Kept, ControlInv, RunInv, Scheduled, Added
<1>8. ControlInv'
  BY <1>1, <1>2, <1>6, <1>7 DEF ControlInv, IInv, Kept
<1>9. InTime'
  BY <1>1, <1>2 DEF InTime, IInv, Kept, Nodes
<1> QED
  BY <1>4, <1>5, <1>8, <1>9 DEF Kept

LEMMA FinishKept ==
  ASSUME IInv, TypeInv', NEW payload \in {"returned", "removed"}, Finish(payload)
  PROVE  Kept'
<1>0. PICK o : o = Top.cb
  OBVIOUS
<1>a. PICK n : n = Len(frames)
  OBVIOUS
<1>1. /\ frames # <<>> /\ Top.thread
      /\ IF Top.by = "update" THEN ActuallyRemoveHeld(o) ELSE ActuallyRemove(o)
      /\ cb' = [cb EXCEPT ![o].status = "Removed",
                          ![o].threadEvent = Triggered(@, payload)]
      /\ frames' = [frames EXCEPT ![n].thread = FALSE]
      /\ UNCHANGED <<now, lastAdded, nextUpdate, currentCallback, visited, pc, calls, events>>
  BY <1>0, <1>a DEF Finish, loopVars
<1>2. /\ n \in Nat \ {0} /\ n \in DOMAIN frames /\ DOMAIN frames = 1..n
      /\ Top = frames[n] /\ Top \in Frame /\ FrameInv(n)
      /\ frames \in Seq(Frame)
  BY <1>a, <1>1, TopFrame
<1>3. o \in Objs /\ IsCallingThread(o)
  BY <1>0, <1>1, <1>2, FrameTypes DEF IsCallingThread, IInv
<1>4. /\ Scheduled(o) /\ Added(o) /\ cb[o].callable \in Threads /\ ~cb[o].runOnce
      /\ Top.by = "update" <=> n = 1
      /\ o = currentCallback <=> n = 1
      /\ n = 1 => InRun /\ pc = "loop"
      /\ \A i \in DOMAIN frames : frames[i].cb = o => i = n
  BY <1>a, <1>1, <1>3, CallingThread DEF Scheduled
<1>5. /\ \A p \in Objs \ {o} : cb'[p] = cb[p]
      /\ cb'[o].status = "Removed" /\ cb'[o].threadEvent # "pending"
      /\ cb'[o].runOnce = cb[o].runOnce /\ cb'[o].callable = cb[o].callable
      /\ cb'[o].interval = cb[o].interval
  BY <1>1, <1>3, Types DEF IInv, CallbackType, Triggered
<1>6. /\ Sorted(activeCallbacks)' /\ OneNodeEach(activeCallbacks)'
      /\ Nodes(activeCallbacks)' = NodesBut(activeCallbacks, o)
      /\ Unregister(o) /\ ub' = FALSE
      /\ pass' = [pass EXCEPT !.itValid = @ /\ o # currentCallback]
  <2>1. CASE Top.by = "update"
    <3>1. o = currentCallback /\ InRun
      BY <1>4, <2>1
    <3>2. pass' = [pass EXCEPT !.itValid = FALSE]
      BY <1>1, <1>4, <2>1, <3>1, ActuallyRemovedHeld
    <3>3. pass' = [pass EXCEPT !.itValid = @ /\ o # currentCallback]
      BY <3>1, <3>2
    <3> QED BY <1>1, <1>4, <2>1, <3>1, <3>3, ActuallyRemovedHeld
  <2>2. CASE Top.by # "update"
    <3>1. /\ Sorted(activeCallbacks)' /\ OneNodeEach(activeCallbacks)'
          /\ Nodes(activeCallbacks)' = NodesBut(activeCallbacks, o)
          /\ pass' = [pass EXCEPT !.itValid = @ /\ ~(o = currentCallback /\ Scheduled(o))]
          /\ Unregister(o) /\ UNCHANGED ub
      BY <1>1, <1>3, <1>4, <2>2, ActuallyRemoved
    <3>2. o # currentCallback
      BY <1>4, <2>2
    <3>3. pass' = [pass EXCEPT !.itValid = @ /\ o # currentCallback]
      BY <3>1, <3>2
    <3> QED BY <3>1, <3>3 DEF IInv, Kept, ControlInv
  <2> QED BY <2>1, <2>2
<1>7. /\ frames' \in Seq(Frame) /\ DOMAIN frames' = DOMAIN frames
      /\ \A i \in DOMAIN frames : i # n => frames'[i] = frames[i]
      /\ frames'[n].by = Top.by /\ frames'[n].cb = Top.cb /\ frames'[n].thread = FALSE
  <2>1. [Top EXCEPT !.thread = FALSE] \in Frame
    BY <1>2 DEF Frame
  <2> QED BY <1>1, <1>2, <2>1, ExceptSeq DEF Frame
<1>8. InRun' <=> InRun
  BY <1>1, <1>2, <1>7 DEF InRun
<1>9. /\ pass'.key = pass.key /\ pass'.newDeadline = pass.newDeadline
      /\ pass'.itValid = (pass.itValid /\ o # currentCallback)
  BY <1>6, Types DEF IInv
<1>10. TablesInv' /\ QueueInv' /\ InTime'
  BY <1>1, <1>3, <1>4, <1>5, <1>6, <1>8, <1>9, RemovedKept
<1>11. \A i \in DOMAIN frames' : FrameInv(i)'
  <2>1. ASSUME NEW i \in DOMAIN frames, i # n PROVE FrameInv(i)'
    <3>1. FrameInv(i) /\ frames'[i] = frames[i] /\ frames[i].cb # o
      BY <1>4, <1>7, <2>1 DEF IInv, Kept, ControlInv
    <3>2. frames[i].thread => cb'[frames[i].cb] = cb[frames[i].cb]
      BY <1>5, <3>1, FrameTypes DEF IInv
    <3>3. \A j \in DOMAIN frames' : frames'[j].cb = frames[j].cb
      BY <1>2, <1>7
    <3> QED BY <1>1, <1>7, <3>1, <3>2, <3>3 DEF FrameInv
  <2>2. FrameInv(n)'
    <3>1. \A j \in DOMAIN frames' : frames'[j].cb = frames[j].cb
      BY <1>2, <1>7
    <3> QED BY <1>1, <1>2, <1>7, <3>1 DEF FrameInv
  <2> QED BY <1>7, <2>1, <2>2
<1>12. InRun => currentCallback \in Objs /\ RunInv'
  <2> SUFFICES ASSUME InRun PROVE currentCallback \in Objs /\ RunInv'
    OBVIOUS
  <2>1. RunInv /\ currentCallback \in Objs
    BY DEF IInv, Kept, ControlInv
  <2>2. CASE o # currentCallback
    <3>1. pass' = pass
      BY <1>6, <2>2, Types DEF IInv
    <3> QED BY <1>1, <1>5, <2>1, <2>2, <3>1, RunKept
  <2>3. CASE o = currentCallback
    <3>1. ~Scheduled(o)' /\ ~Added(o)'
      BY <1>5 DEF Scheduled, Added
    <3> QED BY <1>1, <1>4, <1>5, <1>9, <2>1, <2>3, <3>1 DEF RunInv, Scheduled, Added
  <2> QED BY <2>2, <2>3
<1>13. ControlInv'
  <2>1. pc # "ran"
    BY <1>1 DEF IInv, Kept, ControlInv
  <2> QED BY <1>1, <1>6, <1>8, <1>11, <1>12, <2>1 DEF ControlInv, IInv, Kept
<1> QED
  BY <1>10, <1>13 DEF Kept

-----------------------------------------------------------------------------
(* update() and the main loop                                              *)

LEMMA UpdateBeginKept ==
  ASSUME IInv, UpdateBegin
  PROVE  Kept'
<1>1. /\ pc = "wait" /\ frames = <<>> /\ pc' = "loop"
      /\ UNCHANGED <<now, cb, activeCallbacks, registry, callbackNames, currentCallback,
                     nextUpdate, pass, frames, ub>>
  BY DEF UpdateBegin, queueVars
<1>2. ~InRun /\ ~InRun'
  BY <1>1 DEF InRun
<1>3. \A p \in Objs : Added(p)' = Added(p) /\ Scheduled(p)' = Scheduled(p) /\ KeyOf(p)' = KeyOf(p)
  BY <1>1, <1>2 DEF Added, Scheduled, KeyOf
<1>4. TablesInv'
  BY <1>1 DEF IInv, Kept, TablesInv, CallbackInv, Added
<1>5. QueueInv'
  BY <1>1, <1>3, QueueStays
<1>6. ControlInv'
  BY <1>1, <1>2 DEF ControlInv, IInv, Kept
<1>7. InTime'
  BY <1>1 DEF InTime
<1> QED
  BY <1>4, <1>5, <1>6, <1>7 DEF Kept

LEMMA RunCallbackKept ==
  ASSUME IInv, TypeInv', RunCallback
  PROVE  Kept'
<1>0. PICK node : node = Head(activeCallbacks)
  OBVIOUS
<1>a. PICK o : o = node.cb
  OBVIOUS
<1>1. /\ pc = "loop" /\ frames = <<>> /\ activeCallbacks # <<>> /\ node.key <= now
      /\ pass' = [key |-> node.key, newDeadline |-> now + cb[o].interval, itValid |-> TRUE]
      /\ currentCallback' = o
      /\ cb' = [cb EXCEPT ![o].status = "Active"]
      /\ frames' = <<[by |-> "update", cb |-> o, thread |-> IsThread(o)]>>
      /\ UNCHANGED <<now, activeCallbacks, registry, callbackNames, nextUpdate, pc, ub>>
  BY <1>0, <1>a DEF RunCallback, PassGoesOn, queueVars
<1>2. /\ node \in Nodes(activeCallbacks) /\ o \in Objs /\ node.key \in Nat
      /\ Scheduled(o) /\ node.key = KeyOf(o) /\ Added(o)
  <2>1. node \in Nodes(activeCallbacks)
    BY <1>0, <1>1, HeadEarliest, Types DEF IInv, Kept, QueueInv
  <2> QED BY <1>a, <2>1, Types DEF IInv, Kept, QueueInv, Scheduled
<1>3. ~InRun /\ InRun'
  BY <1>1 DEF InRun
<1>4. node.key = cb[o].deadline
  BY <1>2, <1>3 DEF KeyOf
<1>5. /\ \A p \in Objs \ {o} : cb'[p] = cb[p]
      /\ cb'[o].callable = cb[o].callable /\ cb'[o].name = cb[o].name
      /\ cb'[o].status = "Active" /\ cb'[o].runOnce = cb[o].runOnce
      /\ cb'[o].threadEvent = cb[o].threadEvent /\ cb'[o].deadline = cb[o].deadline
      /\ cb'[o].interval = cb[o].interval
  BY <1>1, <1>2, Types DEF CallbackType, IInv
<1>6. Added(o)' /\ Scheduled(o)'
  BY <1>2, <1>5 DEF Added, Scheduled
<1>b. CallbackInv(o)
  BY <1>2 DEF IInv, Kept, TablesInv
<1>7. TablesInv'
  <2>1. CallbackInv(o)'
    BY <1>1, <1>2, <1>5, <1>6, <1>b DEF CallbackInv, Scheduled
  <2> QED BY <1>1, <1>2, <1>5, <1>6, <2>1, TablesKept
<1>8. QueueInv'
  <2>1. \A p \in Objs : (Scheduled(p)' <=> Scheduled(p)) /\ KeyOf(p)' = KeyOf(p)
    <3>1. KeyOf(o)' = node.key
      BY <1>1, <1>3 DEF KeyOf
    <3>2. (Scheduled(o)' <=> Scheduled(o)) /\ KeyOf(o)' = KeyOf(o)
      BY <1>2, <1>6, <3>1
    <3>3. \A p \in Objs \ {o} : (Scheduled(p)' <=> Scheduled(p)) /\ KeyOf(p)' = KeyOf(p)
      BY <1>1, <1>3, <1>5 DEF Scheduled, Added, KeyOf
    <3> QED BY <3>2, <3>3
  <2> QED BY <1>1, <2>1, QueueStays
<1>9. RunInv'
  <2>1. MaxTime + cb[o].interval < INDEFINITE /\ cb[o].interval \in Nat \ {0}
    BY <1>2, <1>b, Types DEF CallbackInv, IInv
  <2>2. now \in 0..MaxTime /\ MaxTime \in Nat /\ INDEFINITE \in Nat
    BY Types DEF IInv
  <2>3. /\ node.key < now + cb[o].interval
        /\ now + cb[o].interval < INDEFINITE
    BY <1>1, <1>2, <2>1, <2>2
  <2>4. cb[o].callable \in Callables
    BY <1>2, <1>b DEF CallbackInv
  <2> QED BY <1>1, <1>4, <1>5, <1>6, <2>3, <2>4 DEF RunInv
<1>10. \A i \in DOMAIN frames' : FrameInv(i)'
  <2>1. /\ DOMAIN frames' = {1} /\ frames'[1].by = "update" /\ frames'[1].cb = o
        /\ frames'[1].thread = IsThread(o)
    BY <1>1
  <2>2. FrameInv(1)'
    <3>1. frames'[1].thread => cb'[o].callable \in Threads
      BY <1>5, <2>1 DEF IsThread
    <3> QED BY <1>1, <1>5, <2>1, <3>1 DEF FrameInv
  <2> QED BY <2>1, <2>2
<1>11. ControlInv'
  BY <1>1, <1>2, <1>9, <1>10 DEF ControlInv, IInv, Kept
<1>12. InTime'
  BY <1>1 DEF InTime
<1> QED
  BY <1>7, <1>8, <1>11, <1>12 DEF Kept

\* What was run is no longer being run.
LEMMA Ran ==
  ASSUME IInv, pc = "ran", NEW o, o = currentCallback, pc' = "loop", UNCHANGED frames
  PROVE  /\ InRun /\ ~InRun' /\ frames = <<>> /\ o \in Objs /\ RunInv
         /\ UNCHANGED currentCallback /\ ub' = FALSE => ControlInv'
<1>1. InRun /\ frames = <<>> /\ o \in Objs /\ RunInv
  BY DEF IInv, Kept, ControlInv, InRun
<1>2. ~InRun' /\ DOMAIN frames' = {}
  BY <1>1 DEF InRun
<1> QED
  BY <1>1, <1>2 DEF ControlInv

LEMMA RemoveRunOnceKept ==
  ASSUME IInv, TypeInv', RemoveRunOnce
  PROVE  Kept'
<1>0. PICK o : o = currentCallback
  OBVIOUS
<1>1. /\ pc = "ran" /\ pc' = "loop" /\ cb[o].runOnce
      /\ ActuallyRemoveHeld(o)
      /\ cb' = [cb EXCEPT ![o].status = "Removed"]
      /\ UNCHANGED <<now, nextUpdate, currentCallback, frames>>
  BY <1>0 DEF RemoveRunOnce, loopVars
<1>2. InRun /\ ~InRun' /\ o \in Objs /\ RunInv
  BY <1>0, <1>1, Ran
<1>3. Scheduled(o) /\ Added(o)
  BY <1>0, <1>1, <1>2 DEF RunInv, Scheduled
<1>4. /\ Sorted(activeCallbacks)' /\ OneNodeEach(activeCallbacks)'
      /\ Nodes(activeCallbacks)' = NodesBut(activeCallbacks, o)
      /\ pass' = [pass EXCEPT !.itValid = FALSE]
      /\ Unregister(o) /\ ub' = FALSE
  BY <1>0, <1>1, <1>2, <1>3, ActuallyRemovedHeld
<1>5. /\ \A p \in Objs \ {o} : cb'[p] = cb[p]
      /\ cb'[o].status = "Removed" /\ cb'[o].threadEvent = cb[o].threadEvent
      /\ cb'[o].runOnce = cb[o].runOnce /\ cb'[o].callable = cb[o].callable
      /\ cb'[o].interval = cb[o].interval
  BY <1>1, <1>2, Types DEF IInv, CallbackType
<1>6. cb[o].threadEvent # "pending"
  <2>1. CallbackInv(o)
    BY <1>2 DEF IInv, Kept, TablesInv
  <2> QED BY <1>1, <2>1, CallableAssumption DEF CallbackInv
<1>7. pass'.key = pass.key
  BY <1>4, Types DEF IInv
<1>8. TablesInv' /\ QueueInv' /\ InTime'
  BY <1>0, <1>1, <1>2, <1>3, <1>4, <1>5, <1>6, <1>7, RemovedKept
<1>9. ControlInv'
  BY <1>0, <1>1, <1>4, Ran
<1> QED
  BY <1>8, <1>9 DEF Kept

LEMMA ForgetKept ==
  ASSUME IInv, ForgetCallback
  PROVE  Kept'
<1>0. PICK o : o = currentCallback
  OBVIOUS
<1>1. /\ pc = "ran" /\ pc' = "loop" /\ IsGone(o)
      /\ UNCHANGED <<now, cb, activeCallbacks, registry, callbackNames, currentCallback,
                     nextUpdate, pass, frames, ub>>
  BY <1>0 DEF ForgetCallback, queueVars, loopVars
<1>2. InRun /\ ~InRun' /\ o \in Objs
  BY <1>0, <1>1, Ran
<1>3. ~Scheduled(o)
  BY <1>1 DEF IsGone, Scheduled, Added
<1>4. \A p \in Objs : (Scheduled(p)' <=> Scheduled(p)) /\ (Scheduled(p) => KeyOf(p)' = KeyOf(p))
  BY <1>0, <1>1, <1>3 DEF Added, Scheduled, KeyOf
<1>5. QueueInv'
  BY <1>1, <1>4, QueueStays
<1>6. TablesInv'
  BY <1>1 DEF IInv, Kept, TablesInv, CallbackInv, Added
<1>7. ControlInv'
  BY <1>0, <1>1, Ran DEF IInv, Kept, ControlInv
<1>8. InTime'
  BY <1>1 DEF InTime
<1> QED
  BY <1>5, <1>6, <1>7, <1>8 DEF Kept

LEMMA RequeueKept ==
  ASSUME IInv, TypeInv', RequeueCallback
  PROVE  Kept'
<1>0. PICK o, deadline :
        /\ o = currentCallback
        /\ deadline = IF cb[o].deadline = pass.key THEN pass.newDeadline ELSE cb[o].deadline
  OBVIOUS
<1>1. /\ pc = "ran" /\ pc' = "loop" /\ ~cb[o].runOnce /\ ~IsGone(o)
      /\ cb' = [cb EXCEPT ![o].deadline = deadline]
      /\ ub' = ~pass.itValid
      /\ activeCallbacks' \in IF pass.itValid THEN Rekey(activeCallbacks, HeldNode, deadline)
                              ELSE {activeCallbacks}
      /\ UNCHANGED <<now, registry, callbackNames, currentCallback, nextUpdate, pass, frames>>
  BY <1>0 DEF RequeueCallback
<1>2. InRun /\ ~InRun' /\ o \in Objs /\ RunInv
  BY <1>0, <1>1, Ran
<1>3. Scheduled(o) /\ Added(o)
  BY <1>1 DEF IsGone, Scheduled, Added
<1>4. pass.itValid
  BY <1>0, <1>2, <1>3 DEF RunInv
<1>5. deadline \in Nat /\ deadline # INDEFINITE
  <2>1. pass.newDeadline \in Nat /\ INDEFINITE \in Nat /\ cb[o].deadline \in Nat
    BY <1>2, Types DEF IInv
  <2>2. pass.newDeadline < INDEFINITE
    BY <1>2 DEF RunInv
  <2> QED BY <1>0, <1>3, <2>1, <2>2 DEF Scheduled
<1>6. /\ \A p \in Objs \ {o} : cb'[p] = cb[p]
      /\ cb'[o].callable = cb[o].callable /\ cb'[o].name = cb[o].name
      /\ cb'[o].status = cb[o].status /\ cb'[o].runOnce = cb[o].runOnce
      /\ cb'[o].threadEvent = cb[o].threadEvent /\ cb'[o].deadline = deadline
      /\ cb'[o].interval = cb[o].interval
  BY <1>1, <1>2, Types DEF CallbackType, IInv
<1>7. Added(o)' /\ Scheduled(o)'
  BY <1>3, <1>5, <1>6 DEF Added, Scheduled
<1>8. TablesInv'
  <2>1. CallbackInv(o)'
    <3>1. CallbackInv(o)
      BY <1>2 DEF IInv, Kept, TablesInv
    <3> QED BY <1>1, <1>3, <1>5, <1>6, <1>7, <3>1 DEF CallbackInv
  <2> QED BY <1>1, <1>2, <1>3, <1>6, <1>7, <2>1, TablesKept
<1>9. /\ Sorted(activeCallbacks') /\ OneNodeEach(activeCallbacks')
      /\ Nodes(activeCallbacks') =
           NodesBut(activeCallbacks, o) \union {[key |-> deadline, cb |-> o]}
  <2>1. HeldNode \in SUBSET {i \in DOMAIN activeCallbacks : activeCallbacks[i].cb = o}
    BY <1>0 DEF HeldNode
  <2>2. activeCallbacks' \in Rekey(activeCallbacks, HeldNode, deadline)
    BY <1>1, <1>4
  <2>3. activeCallbacks \in Seq(Node) /\ Sorted(activeCallbacks) /\ OneNodeEach(activeCallbacks)
    BY Types DEF IInv, Kept, QueueInv
  <2> QED BY <1>2, <1>5, <2>1, <2>2, <2>3, RekeyNodes
<1>10. QueueInv'
  <2>1. KeyOf(o)' = deadline
    BY <1>2, <1>6 DEF KeyOf
  <2>2. \A p \in Objs \ {o} : Scheduled(p)' = Scheduled(p) /\ KeyOf(p)' = KeyOf(p)
    BY <1>0, <1>1, <1>6 DEF Added, Scheduled, KeyOf
  <2>3. /\ Sorted(activeCallbacks)' /\ OneNodeEach(activeCallbacks)'
        /\ Nodes(activeCallbacks)' =
             NodesBut(activeCallbacks, o) \union {[key |-> KeyOf(o)', cb |-> o]}
    BY <1>9, <2>1 DEF Sorted, OneNodeEach, Nodes
  <2> QED BY <1>2, <1>7, <2>2, <2>3, QueueKept
<1>11. ControlInv'
  BY <1>0, <1>1, <1>4, Ran
<1>12. InTime'
  BY <1>1 DEF InTime
<1> QED
  BY <1>8, <1>10, <1>11, <1>12 DEF Kept

LEMMA UpdateEndKept ==
  ASSUME IInv, UpdateEnd
  PROVE  Kept'
<1>1. /\ pc = "loop" /\ frames = <<>> /\ pc' = "wait" /\ currentCallback' = None
      /\ nextUpdate' = IF activeCallbacks = <<>> THEN INDEFINITE ELSE Head(activeCallbacks).key
      /\ UNCHANGED <<now, cb, activeCallbacks, registry, callbackNames, pass, frames, ub>>
  BY DEF UpdateEnd, queueVars
<1>2. ~InRun /\ ~InRun'
  BY <1>1 DEF InRun
<1>3. \A p \in Objs : Added(p)' = Added(p) /\ Scheduled(p)' = Scheduled(p) /\ KeyOf(p)' = KeyOf(p)
  BY <1>1, <1>2 DEF Added, Scheduled, KeyOf
<1>4. TablesInv'
  BY <1>1 DEF IInv, Kept, TablesInv, CallbackInv, Added
<1>5. QueueInv'
  BY <1>1, <1>3, QueueStays
<1>6. ControlInv'
  BY <1>1, <1>2 DEF ControlInv, IInv, Kept
<1>7. InTime'
  <2> SUFFICES \A node \in Nodes(activeCallbacks) : nextUpdate' <= node.key
    BY <1>1 DEF InTime, Nodes
  <2>1. CASE activeCallbacks = <<>>
    BY <2>1 DEF Nodes
  <2>2. CASE activeCallbacks # <<>>
    BY <1>1, <2>2, HeadEarliest, Types DEF IInv, Kept, QueueInv
  <2> QED BY <2>1, <2>2
<1> QED
  BY <1>4, <1>5, <1>6, <1>7 DEF Kept

LEMMA OnEventKept ==
  ASSUME IInv, OnEvent
  PROVE  Kept'
<1>1. /\ pc = "wait" /\ frames = <<>>
      /\ frames' = <<[by |-> "event", cb |-> None, thread |-> FALSE]>>
      /\ UNCHANGED <<now, cb, activeCallbacks, registry, callbackNames, currentCallback,
                     nextUpdate, pass, pc, ub>>
  BY DEF OnEvent, queueVars, loopVars
<1>2. ~InRun /\ ~InRun'
  BY <1>1 DEF InRun
<1>3. \A p \in Objs : Added(p)' = Added(p) /\ Scheduled(p)' = Scheduled(p) /\ KeyOf(p)' = KeyOf(p)
  BY <1>1, <1>2 DEF Added, Scheduled, KeyOf
<1>4. TablesInv'
  BY <1>1 DEF IInv, Kept, TablesInv, CallbackInv, Added
<1>5. QueueInv'
  BY <1>1, <1>3, QueueStays
<1>6. \A i \in DOMAIN frames' : FrameInv(i)'
  <2>1. /\ DOMAIN frames' = {1} /\ frames'[1].by = "event" /\ frames'[1].cb = None
        /\ frames'[1].thread = FALSE
    BY <1>1
  <2>2. FrameInv(1)'
    BY <1>1, <2>1 DEF FrameInv
  <2> QED BY <2>1, <2>2
<1>7. ControlInv'
  BY <1>1, <1>2, <1>6 DEF ControlInv, IInv, Kept
<1>8. InTime'
  BY <1>1 DEF InTime, IInv, Kept, Nodes
<1> QED
  BY <1>4, <1>5, <1>7, <1>8 DEF Kept

LEMMA TickKept ==
  ASSUME IInv, Tick
  PROVE  Kept'
<1>1. /\ now' = now + 1
      /\ UNCHANGED <<cb, activeCallbacks, registry, callbackNames, currentCallback,
                     nextUpdate, pass, frames, pc, ub>>
  BY DEF Tick, queueVars, loopVars
<1>2. InRun' <=> InRun
  BY <1>1 DEF InRun
<1>3. \A p \in Objs : Added(p)' = Added(p) /\ Scheduled(p)' = Scheduled(p) /\ KeyOf(p)' = KeyOf(p)
  BY <1>1, <1>2 DEF Added, Scheduled, KeyOf
<1>4. TablesInv'
  BY <1>1 DEF IInv, Kept, TablesInv, CallbackInv, Added
<1>5. QueueInv'
  BY <1>1, <1>3, QueueStays
<1>6. \A i \in DOMAIN frames' : FrameInv(i)'
  <2>1. now \in Nat /\ now' \in Nat /\ now' >= now
    BY <1>1, Types DEF IInv
  <2> QED BY <1>1, <2>1, FramesKept, Types DEF IInv
<1>7. ControlInv'
  BY <1>1, <1>2, <1>6 DEF ControlInv, IInv, Kept, RunInv, Scheduled, Added
<1>8. InTime'
  <2>1. nextUpdate <= now => nextUpdate <= now'
    BY <1>1, Types DEF IInv
  <2> QED BY <1>1, <2>1 DEF InTime, IInv, Kept, Nodes
<1> QED
  BY <1>4, <1>5, <1>7, <1>8 DEF Kept

LEMMA StutterKept ==
  ASSUME IInv, UNCHANGED vars
  PROVE  Kept'
<1>1. UNCHANGED <<now, cb, activeCallbacks, registry, callbackNames, currentCallback,
                  nextUpdate, pass, frames, pc, ub>>
  BY DEF vars, queueVars, loopVars
<1> QED
  BY <1>1 DEF IInv, Kept, TablesInv, CallbackInv, QueueInv, ControlInv, InTime, RunInv,
     FrameInv, InRun, KeyOf, Scheduled, Added, Nodes, Sorted, OneNodeEach

LEMMA NextKept == Usage = {} /\ IInv /\ [Next]_vars => IInv'
<1> SUFFICES ASSUME Usage = {}, IInv, [Next]_vars PROVE IInv'
  OBVIOUS
<1>1. TypeInv'
  BY TypeNext DEF IInv
<1> SUFFICES Kept'
  BY <1>1 DEF IInv
<1>2. CASE LuaCode
  <2>1. CASE addAnyCallback
    BY <1>1, <2>1, AddKept DEF addAnyCallback
  <2>2. CASE callAnyOnce
    BY <1>1, <2>2, CallOnceKept DEF callAnyOnce
  <2>3. CASE initAnyActionThread
    BY <1>1, <2>3, InitThreadKept DEF initAnyActionThread
  <2>4. CASE removeAnyCallback
    BY <1>1, <2>4, RemoveKept DEF removeAnyCallback
  <2>5. CASE setAnyTimeout
    BY <1>1, <2>5, TimeoutKept, IndefiniteKept DEF setAnyTimeout
  <2>6. CASE cancelAnyTimeout
    BY <1>1, <2>6, CancelKept DEF cancelAnyTimeout
  <2> QED
    BY <1>1, <1>2, <2>1, <2>2, <2>3, <2>4, <2>5, <2>6 DEF LuaCode
<1>3. CASE LuaEnds
  BY <1>1, <1>3, ReturnKept, FinishKept DEF LuaEnds
<1>4. CASE update
  BY <1>1, <1>4, UpdateBeginKept, RunCallbackKept, RemoveRunOnceKept, ForgetKept, RequeueKept,
     UpdateEndKept DEF update
<1>5. CASE OnEvent \/ Tick \/ UNCHANGED vars
  BY <1>1, <1>5, OnEventKept, TickKept, StutterKept
<1> QED
  BY <1>2, <1>3, <1>4, <1>5 DEF Next

LEMMA Invariance == Usage = {} => (Spec => []IInv)
<1> SUFFICES ASSUME Usage = {} PROVE Spec => []IInv
  OBVIOUS
<1>1. Init => IInv
  BY InitKept
<1>2. IInv /\ [Next]_vars => IInv'
  BY NextKept
<1> QED
  BY <1>1, <1>2, PTL DEF Spec

\* update() is running a callback exactly when it has a frame.
LEMMA UpdateFrame ==
  ASSUME IInv
  PROVE  (\E i \in DOMAIN frames : frames[i].by = "update") <=> (pc = "loop" /\ frames # <<>>)
<1>1. ASSUME NEW i \in DOMAIN frames, frames[i].by = "update"
      PROVE  pc = "loop" /\ frames # <<>>
  <2>1. FrameInv(i) /\ pc \in {"wait", "loop", "ran"} /\ DOMAIN frames # {}
    BY DEF IInv, Kept, ControlInv, TypeInv, TypeOK
  <2>2. frames # <<>>
    BY <2>1
  <2>3. pc # "ran"
    BY <2>2 DEF IInv, Kept, ControlInv
  <2>4. i = 1
    <3>1. i \in Nat \ {0}
      BY <2>2, TopFrame
    <3>2. ~(i > 1)
      BY <1>1, <2>1 DEF FrameInv
    <3> QED BY <3>1, <3>2
  <2> QED BY <1>1, <2>1, <2>2, <2>3, <2>4 DEF FrameInv
<1>2. ASSUME pc = "loop", frames # <<>>
      PROVE  \E i \in DOMAIN frames : frames[i].by = "update"
  <2>1. 1 \in DOMAIN frames
    BY <1>2, TopFrame
  <2>2. FrameInv(1) /\ frames[1] \in Frame
    BY <2>1, FrameTypes DEF IInv, Kept, ControlInv
  <2> QED BY <1>2, <2>1, <2>2 DEF FrameInv, Frame
<1> QED
  BY <1>1, <1>2

LEMMA BeingRunIsInRun ==
  ASSUME IInv, NEW o
  PROVE  BeingRun(o) <=> o = currentCallback /\ InRun
BY UpdateFrame DEF BeingRun, InRun

LEMMA RegisteredIsAdded ==
  ASSUME IInv, NEW o \in Objs
  PROVE  Registered(o) <=> Added(o)
BY NoneAssumption DEF IInv, Kept, TablesInv, CallbackInv, Registered

-----------------------------------------------------------------------------
(* The properties                                                          *)

\* The code never uses an iterator that has become invalid, if scripts make none of
\* the hazardous calls: neither update() after a run, nor cancelCallbackTimeout.
THEOREM IteratorsValid == Usage = {} => (Spec => []NoInvalidIterator)
<1>1. IInv => NoInvalidIterator
  BY DEF IInv, Kept, ControlInv, NoInvalidIterator
<1> QED
  BY <1>1, Invariance, PTL

\* A callback that has been added has exactly the node it should have.
THEOREM NodesCorrect == Usage = {} => (Spec => []NothingLost)
<1>1. IInv => NothingLost
  <2> SUFFICES ASSUME IInv, NEW c \in Callables, registry[c] # None
               PROVE  LET o == registry[c]
                          nodes == {i \in DOMAIN activeCallbacks : activeCallbacks[i].cb = o}
                      IN IF cb[o].deadline = INDEFINITE THEN nodes = {}
                         ELSE /\ Cardinality(nodes) = 1
                              /\ \A i \in nodes : activeCallbacks[i].key =
                                   IF BeingRun(o) THEN pass.key ELSE cb[o].deadline
    BY DEF NothingLost
  <2> DEFINE o == registry[c]
             nodes == {i \in DOMAIN activeCallbacks : activeCallbacks[i].cb = o}
  <2>1. o \in Objs /\ Added(o)
    BY DEF IInv, Kept, TablesInv, TypeInv, TypeOK
  <2> HIDE DEF o
  <2>2. CASE cb[o].deadline = INDEFINITE
    <3>1. \A node \in Nodes(activeCallbacks) : node.cb # o
      BY <2>1, <2>2, NodeFound DEF Scheduled
    <3>2. nodes = {}
      BY <3>1 DEF Nodes
    <3> QED BY <2>2, <3>2 DEF o
  <2>3. CASE cb[o].deadline # INDEFINITE
    <3>1. /\ \E i \in DOMAIN activeCallbacks : activeCallbacks[i].cb = o
          /\ \A i \in DOMAIN activeCallbacks :
               activeCallbacks[i].cb = o => activeCallbacks[i].key = KeyOf(o)
      BY <2>1, <2>3, NodeFound DEF Scheduled
    <3>2. PICK i \in DOMAIN activeCallbacks : activeCallbacks[i].cb = o
      BY <3>1
    <3>3. nodes = {i}
      BY <3>2 DEF IInv, Kept, QueueInv, OneNodeEach
    <3>4. Cardinality(nodes) = 1
      BY <3>3, FS_Singleton
    <3>5. KeyOf(o) = IF BeingRun(o) THEN pass.key ELSE cb[o].deadline
      BY BeingRunIsInRun DEF KeyOf
    <3> QED BY <2>3, <3>1, <3>4, <3>5 DEF o
  <2> QED BY <2>2, <2>3 DEF o
<1> QED
  BY <1>1, Invariance, PTL

\* A callback that has been removed has neither node nor name.
THEOREM RemovalCorrect == Usage = {} => (Spec => []NoZombies)
<1>1. IInv => NoZombies
  <2> SUFFICES ASSUME IInv PROVE NoZombies
    OBVIOUS
  <2>1. ASSUME NEW i \in DOMAIN activeCallbacks
        PROVE  Registered(activeCallbacks[i].cb) /\ cb[activeCallbacks[i].cb].status # "Removed"
    <3>1. activeCallbacks[i] \in Nodes(activeCallbacks)
      BY DEF Nodes
    <3>2. activeCallbacks[i].cb \in Objs /\ Added(activeCallbacks[i].cb)
      BY <3>1, Types DEF IInv, Kept, QueueInv, Scheduled
    <3> QED BY <3>2, RegisteredIsAdded DEF Added
  <2>2. \A o \in Objs, n \in Names : callbackNames[n] = o <=> Registered(o) /\ cb[o].name = n
    BY RegisteredIsAdded DEF IInv, Kept, TablesInv
  <2> QED BY <2>1, <2>2 DEF NoZombies
<1> QED
  BY <1>1, Invariance, PTL

\* The queue of any scripts that make none of the hazardous calls has exactly the nodes
\* it should, in types and keys, through every update, removal and timeout.
THEOREM QueueCorrect == Usage = {} => (Spec => []QueueExact)
<1>1. TypeOK /\ NothingLost /\ NoZombies => QueueExact
  BY DEF QueueExact
<1> QED
  BY <1>1, TypeCorrect, NodesCorrect, RemovalCorrect, PTL

\* The main loop does not sleep past the first deadline.
THEOREM WakesCorrect == Usage = {} => (Spec => []WakesInTime)
<1>1. IInv => WakesInTime
  BY HeadEarliest, Types DEF IInv, Kept, QueueInv, InTime, WakesInTime
<1> QED
  BY <1>1, Invariance, PTL

\* A coroutine is among the callbacks until its event has been triggered.
THEOREM EventsCorrect == Usage = {} => (Spec => []ThreadEventTriggered)
<1>1. IInv => ThreadEventTriggered
  BY RegisteredIsAdded DEF IInv, Kept, TablesInv, CallbackInv, ThreadEventTriggered
<1> QED
  BY <1>1, Invariance, PTL

-----------------------------------------------------------------------------
(* The runner implements the queue of timers                               *)

\* The abstract state, in terms of the invariant.
LEMMA Mapping ==
  ASSUME IInv
  PROVE  /\ runByUpdate = IF pc = "loop" /\ frames # <<>> THEN cb[currentCallback].callable ELSE None
         /\ \A o \in Objs : Added(o) =>
              cb[o].callable \in Callables /\ deadlineOf[cb[o].callable] = cb[o].deadline
         /\ \A c \in Callables : deadlineOf[c] \in Nat \union {None}
         /\ \A c \in Callables : deadlineOf[c] # None =>
              \E o \in Objs : /\ registry[c] = o /\ Added(o) /\ cb[o].callable = c
                              /\ deadlineOf[c] = cb[o].deadline
<1>1. runByUpdate = IF pc = "loop" /\ frames # <<>> THEN cb[currentCallback].callable ELSE None
  BY UpdateFrame DEF runByUpdate
<1>2. ASSUME NEW o \in Objs, Added(o)
      PROVE  cb[o].callable \in Callables /\ deadlineOf[cb[o].callable] = cb[o].deadline
  <2>1. cb[o].callable \in Callables /\ registry[cb[o].callable] = o /\ o # None
    BY <1>2, NoneAssumption DEF IInv, Kept, TablesInv, CallbackInv
  <2> QED BY <2>1 DEF deadlineOf
<1>3. ASSUME NEW c \in Callables
      PROVE  /\ deadlineOf[c] \in Nat \union {None}
             /\ deadlineOf[c] # None =>
                  \E o \in Objs : /\ registry[c] = o /\ Added(o) /\ cb[o].callable = c
                                  /\ deadlineOf[c] = cb[o].deadline
  <2>1. CASE registry[c] = None
    BY <2>1 DEF deadlineOf
  <2>2. CASE registry[c] # None
    <3>1. registry[c] \in Objs /\ Added(registry[c]) /\ cb[registry[c]].callable = c
      BY <2>2 DEF IInv, Kept, TablesInv, TypeInv, TypeOK
    <3>2. deadlineOf[c] = cb[registry[c]].deadline
      BY <2>2 DEF deadlineOf
    <3> QED BY <3>1, <3>2, Types DEF IInv
  <2> QED BY <2>1, <2>2
<1> QED
  BY <1>1, <1>2, <1>3

\* The step from one callback's deadline to another.
LEMMA DeadlineChanged ==
  ASSUME IInv, NEW o \in Objs, Added(o), UNCHANGED registry,
         \A p \in Objs \ {o} : cb'[p] = cb[p], cb'[o].callable = cb[o].callable
  PROVE  deadlineOf' = [deadlineOf EXCEPT ![cb[o].callable] = cb'[o].deadline]
<1>1. cb[o].callable \in Callables /\ registry[cb[o].callable] = o /\ o # None
  BY NoneAssumption DEF IInv, Kept, TablesInv, CallbackInv
<1>2. \A c \in Callables : c # cb[o].callable /\ registry[c] # None => registry[c] \in Objs \ {o}
  BY DEF IInv, Kept, TablesInv, TypeInv, TypeOK
<1>3. deadlineOf' = [c \in Callables |-> IF registry[c] = None THEN None ELSE cb'[registry[c]].deadline]
  BY DEF deadlineOf
<1>4. ASSUME NEW c \in Callables
      PROVE  (IF registry[c] = None THEN None ELSE cb'[registry[c]].deadline)
               = [deadlineOf EXCEPT ![cb[o].callable] = cb'[o].deadline][c]
  <2>1. CASE c = cb[o].callable
    BY <1>1, <2>1 DEF deadlineOf
  <2>2. CASE c # cb[o].callable
    BY <1>2, <2>2 DEF deadlineOf
  <2> QED BY <2>1, <2>2
<1> QED
  BY <1>3, <1>4 DEF deadlineOf

\* A callback that is removed has none.
LEMMA DeadlineGone ==
  ASSUME IInv, NEW o \in Objs, Added(o), Unregister(o),
         \A p \in Objs \ {o} : cb'[p] = cb[p]
  PROVE  deadlineOf' = [deadlineOf EXCEPT ![cb[o].callable] = None]
<1>1. cb[o].callable \in Callables /\ registry[cb[o].callable] = o
  BY DEF IInv, Kept, TablesInv, CallbackInv
<1>2. \A c \in Callables : c # cb[o].callable /\ registry[c] # None => registry[c] \in Objs \ {o}
  BY DEF IInv, Kept, TablesInv, TypeInv, TypeOK
<1>3. registry' = [c \in Callables |-> IF c = cb[o].callable THEN None ELSE registry[c]]
  BY DEF IInv, TypeInv, TypeOK, Unregister
<1>4. deadlineOf' = [c \in Callables |-> IF registry'[c] = None THEN None ELSE cb'[registry'[c]].deadline]
  BY DEF deadlineOf
<1>5. ASSUME NEW c \in Callables
      PROVE  (IF registry'[c] = None THEN None ELSE cb'[registry'[c]].deadline)
               = [deadlineOf EXCEPT ![cb[o].callable] = None][c]
  <2>1. CASE c = cb[o].callable
    BY <1>3, <2>1 DEF deadlineOf
  <2>2. CASE c # cb[o].callable
    BY <1>2, <1>3, <2>2 DEF deadlineOf
  <2> QED BY <2>1, <2>2
<1> QED
  BY <1>4, <1>5 DEF deadlineOf

\* Who is run, by where control is.
Runner == IF pc = "loop" /\ frames # <<>> THEN cb[currentCallback].callable ELSE None

LEMMA RunnerIs == IInv => runByUpdate = Runner
BY Mapping DEF Runner

\* Who is run is the same while control, and the callable of the current callback, are.
LEMMA RunnerSame ==
  ASSUME IInv, IInv', UNCHANGED <<pc, currentCallback>>, frames' = <<>> <=> frames = <<>>,
         InRun => cb'[currentCallback].callable = cb[currentCallback].callable
  PROVE  runByUpdate' = runByUpdate
<1>1. (runByUpdate = Runner)'
  BY RunnerIs, PTL
<1>2. runByUpdate = Runner
  BY RunnerIs
<1>3. Runner' = Runner
  BY DEF Runner, InRun
<1> QED
  BY <1>1, <1>2, <1>3

\* The steps of the abstract queue.
LEMMA AddStep ==
  ASSUME NEW c \in Callables, deadlineOf[c] = None, NEW d \in Nat, d >= now, d # INDEFINITE,
         deadlineOf' = [deadlineOf EXCEPT ![c] = d], UNCHANGED <<now, runByUpdate>>
  PROVE  Timers!Next
<1>1. deadlineOf'[c] = d
  BY DEF deadlineOf
<1> QED
  BY <1>1 DEF Timers!Next, Timers!Add

LEMMA RemoveStep ==
  ASSUME NEW c \in Callables, deadlineOf[c] # None,
         deadlineOf' = [deadlineOf EXCEPT ![c] = None], UNCHANGED <<now, runByUpdate>>
  PROVE  Timers!Next
BY DEF Timers!Next, Timers!Remove

LEMMA PutOffStep ==
  ASSUME NEW c \in Callables, deadlineOf[c] # None, NEW d \in Nat,
         d >= now \/ d > deadlineOf[c],
         deadlineOf' = [deadlineOf EXCEPT ![c] = d], UNCHANGED now,
         runByUpdate' \in {runByUpdate, IF runByUpdate = c THEN None ELSE runByUpdate}
  PROVE  Timers!Next
<1>1. deadlineOf'[c] = d
  BY DEF deadlineOf
<1> QED
  BY <1>1 DEF Timers!Next, Timers!PutOff

\* Nothing the abstract queue knows of changes.
LEMMA NoStep ==
  ASSUME UNCHANGED <<cb, registry>>
  PROVE  UNCHANGED deadlineOf
BY DEF deadlineOf
\* Nobody is run unless by update().
LEMMA NobodyRun ==
  ASSUME IInv, IInv', pc = "loop" => frames = <<>>, pc' = "loop" => frames' = <<>>
  PROVE  runByUpdate = None /\ UNCHANGED runByUpdate
<1>1. (runByUpdate = Runner)'
  BY RunnerIs, PTL
<1>2. runByUpdate = Runner
  BY RunnerIs
<1> QED
  BY <1>1, <1>2 DEF Runner

\* The end of a piece of Lua code is the end of a run if it is the outermost.
LEMMA LeavingRunner ==
  ASSUME IInv, IInv', frames # <<>>, Leave, UNCHANGED currentCallback,
         \A o \in Objs : cb'[o].callable = cb[o].callable
  PROVE  IF Len(frames) = 1 /\ pc = "loop"
         THEN /\ runByUpdate = cb[currentCallback].callable /\ runByUpdate \in Callables
              /\ runByUpdate' = None
         ELSE UNCHANGED runByUpdate
<1>1. /\ DOMAIN frames' = 1..(Len(frames) - 1)
      /\ pc' = "ran" => frames' = <<>>
      /\ pc' = "loop" => pc = "loop"
      /\ pc' = "wait" <=> pc = "wait"
      /\ Len(frames) = 1 /\ pc = "loop" => pc' = "ran"
      /\ DOMAIN frames' # {} => pc' = pc
      /\ Len(frames) \in Nat \ {0}
  BY LeaveKept, TopFrame
<1>2. InRun => currentCallback \in Objs /\ cb[currentCallback].callable \in Callables
  BY DEF IInv, Kept, ControlInv, RunInv
<1>3. CASE Len(frames) = 1 /\ pc = "loop"
  <2>1. (runByUpdate = Runner)'
    BY RunnerIs, PTL
  <2>2. runByUpdate = Runner
    BY RunnerIs
  <2> QED BY <1>1, <1>2, <1>3, <2>1, <2>2 DEF Runner, InRun
<1>4. CASE pc # "loop"
  <2>1. pc' # "loop"
    BY <1>1, <1>4
  <2> QED BY <1>4, <2>1, NobodyRun
<1>5. CASE Len(frames) # 1 /\ pc = "loop"
  <2>0. PICK n \in Nat \ {0} : n = Len(frames) /\ n # 1
    BY <1>1, <1>5
  <2>1. 1 \in DOMAIN frames'
    <3>1. 1 \in 1..(n - 1)
      BY ONLY <2>0
    <3> QED BY <1>1, <2>0, <3>1
  <2>2. frames' # <<>> /\ pc' = pc
    <3>1. DOMAIN frames' # {}
      BY <2>1
    <3> QED BY <1>1, <2>1, <3>1
  <2>3. InRun => cb'[currentCallback].callable = cb[currentCallback].callable
    BY <1>2
  <2> QED BY <1>5, <2>2, <2>3, RunnerSame
<1> QED
  BY <1>3, <1>4, <1>5

\* A new callback's deadline.
LEMMA EnqueueRefined ==
  ASSUME IInv, IInv', NEW o \in Objs, NEW c \in Callables, NEW name \in Names \union {None},
         NEW i \in Intervals \union {None}, NEW d \in Nat, NEW once \in BOOLEAN,
         once => c \in Functions, Enqueue(o, c, name, i, d, once),
         frames # <<>>, frames' # <<>>, UNCHANGED <<now, currentCallback, pass, pc>>
  PROVE  Timers!Next
<1>1. /\ ~Added(o) /\ o # currentCallback
      /\ \A p \in Objs \ {o} : cb'[p] = cb[p]
      /\ cb'[o].callable = c /\ cb'[o].deadline = DeadlineAfter(d)
  <2>1. InRun' <=> InRun
    BY DEF InRun
  <2> QED BY <2>1, EnqueueKept DEF IInv
<1>2. registry[c] = None /\ registry' = [registry EXCEPT ![c] = o]
  BY DEF Enqueue
<1>3. PICK deadline : deadline = DeadlineAfter(d)
  OBVIOUS
<1>4. deadline \in Nat /\ deadline # INDEFINITE /\ deadline >= now
  <2>1. d % IntervalRange \in 0..(IntervalRange - 1)
    BY TimeAssumption
  <2>2. MaxTime + IntervalRange < INDEFINITE
    BY TimeAssumption
  <2>3. now \in 0..MaxTime /\ MaxTime \in Nat /\ INDEFINITE \in Nat /\ IntervalRange \in Nat
    BY Types, TimeAssumption DEF IInv
  <2> QED BY <1>3, <2>1, <2>2, <2>3 DEF DeadlineAfter
<1>5. deadlineOf' = [deadlineOf EXCEPT ![c] = deadline]
  <2>1. registry' = [k \in Callables |-> IF k = c THEN o ELSE registry[k]]
    BY <1>2 DEF IInv, TypeInv, TypeOK
  <2>2. deadlineOf' = [k \in Callables |-> IF registry'[k] = None THEN None ELSE cb'[registry'[k]].deadline]
    BY DEF deadlineOf
  <2>3. ASSUME NEW k \in Callables
        PROVE  (IF registry'[k] = None THEN None ELSE cb'[registry'[k]].deadline)
                 = [deadlineOf EXCEPT ![c] = deadline][k]
    <3>1. CASE k = c
      <4>1. registry'[k] = o /\ o # None
        BY <2>1, <3>1, NoneAssumption
      <4> QED BY <1>1, <1>3, <3>1, <4>1 DEF deadlineOf
    <3>2. CASE k # c
      <4>1. registry[k] # None => registry[k] \in Objs \ {o}
        BY <1>1 DEF IInv, Kept, TablesInv, TypeInv, TypeOK
      <4> QED BY <1>1, <2>1, <3>2, <4>1 DEF deadlineOf
    <3> QED BY <3>1, <3>2
  <2> QED BY <2>2, <2>3 DEF deadlineOf
<1>6. UNCHANGED runByUpdate
  <2>1. InRun => currentCallback \in Objs \ {o}
    BY <1>1 DEF IInv, Kept, ControlInv
  <2> QED BY <1>1, <2>1, RunnerSame
<1>7. deadlineOf[c] = None
  BY <1>2 DEF deadlineOf
<1> QED
  BY <1>4, <1>5, <1>6, <1>7, AddStep

LEMMA AddRefined ==
  ASSUME Usage = {}, IInv, IInv', addAnyCallback \/ callAnyOnce \/ initAnyActionThread
  PROVE  [Timers!Next]_(Timers!vars)
<1>1. CASE addAnyCallback
  <2>1. PICK c \in Callables, n \in Names \union {None}, i \in Intervals \union {None},
             d \in Delays : addCallback(c, n, i, d)
    BY <1>1 DEF addAnyCallback
  <2>2. frames # <<>> /\ UNCHANGED <<now, currentCallback, pass, frames, pc>> /\ d \in Nat
    BY <2>1, TimeAssumption DEF addCallback, Calling, loopVars
  <2>3. CASE \E o \in Objs : Enqueue(o, c, n, i, d, FALSE)
    BY <2>2, <2>3, EnqueueRefined
  <2>4. CASE ~\E o \in Objs : Enqueue(o, c, n, i, d, FALSE)
    <3>0. PICK o : o = registry[c]
      OBVIOUS
    <3>1. /\ o # None
          /\ d % IntervalRange > 0 => "readdDelay" \in Usage
          /\ cb' = [cb EXCEPT ![o] = AlreadyAdded(o, i, d % IntervalRange)]
          /\ UNCHANGED registry
      BY <2>1, <2>4, <3>0 DEF addCallback, queueVars
    <3>2. o \in Objs
      BY <3>0, <3>1 DEF IInv, TypeInv, TypeOK
    <3>3. \A p \in Objs : cb'[p].deadline = cb[p].deadline /\ cb'[p].callable = cb[p].callable
      <4>1. ~(d % IntervalRange > 0)
        BY <3>1
      <4>2. AlreadyAdded(o, i, d % IntervalRange) =
              [cb[o] EXCEPT !.deadline = cb[o].deadline,
                            !.interval = IF i # None THEN validateInputInterval(i) ELSE cb[o].interval]
        BY <4>1 DEF AlreadyAdded
      <4>3. /\ cb'[o].deadline = cb[o].deadline /\ cb'[o].callable = cb[o].callable
            /\ \A p \in Objs \ {o} : cb'[p] = cb[p]
        BY <3>1, <3>2, <4>2, Types DEF CallbackType, IInv
      <4> QED BY <4>3
    <3>4. UNCHANGED deadlineOf
      <4>1. \A k \in Callables : registry[k] \in Objs \union {None}
        BY DEF IInv, TypeInv, TypeOK
      <4> QED BY <3>1, <3>3, <4>1 DEF deadlineOf
    <3>5. UNCHANGED runByUpdate
      <4>1. InRun => currentCallback \in Objs
        BY DEF IInv, Kept, ControlInv
      <4> QED BY <2>2, <3>3, <4>1, RunnerSame
    <3> QED BY <2>2, <3>4, <3>5 DEF Timers!vars
  <2> QED BY <2>3, <2>4
<1>2. CASE callAnyOnce
  <2>1. PICK c \in Functions, d \in Delays : callOnce(c, d)
    BY <1>2 DEF callAnyOnce
  <2>2. /\ frames # <<>> /\ UNCHANGED <<now, currentCallback, pass, frames, pc>> /\ d \in Nat
        /\ c \in Callables
    BY <2>1, TimeAssumption DEF callOnce, Calling, loopVars, Callables
  <2>3. PICK o \in Objs : Enqueue(o, c, None, None, d, TRUE)
    BY <2>1 DEF callOnce
  <2> QED BY <2>2, <2>3, EnqueueRefined
<1>3. CASE initAnyActionThread
  <2>1. PICK c \in Threads : initActionThread(c)
    BY <1>3 DEF initAnyActionThread
  <2>2. PICK o \in Objs :
          /\ Enqueue(o, c, None, None, 0, FALSE)
          /\ frames' = Append(frames, [by |-> "init", cb |-> o, thread |-> TRUE])
    BY <2>1 DEF initActionThread
  <2>3. frames # <<>> /\ UNCHANGED <<now, currentCallback, pass, pc>> /\ c \in Callables
    BY <2>1 DEF initActionThread, Calling, loopVars, Callables
  <2>4. frames' # <<>>
    <3>1. frames \in Seq(Frame) /\ [by |-> "init", cb |-> o, thread |-> TRUE] \in Frame
      BY DEF IInv, TypeInv, TypeOK, Frame
    <3> QED BY <2>2, <3>1, AppendProperties, EmptySeq
  <2> QED BY <2>2, <2>3, <2>4, EnqueueRefined
<1> QED
  BY <1>1, <1>2, <1>3

\* A callback that goes: the runner is the same, as the object keeps its callable.
LEMMA RemoveRefined ==
  ASSUME IInv, IInv', NEW o \in Objs, Added(o), Unregister(o), UNCHANGED now,
         \A p \in Objs \ {o} : cb'[p] = cb[p],
         UNCHANGED runByUpdate
  PROVE  Timers!Next
<1>1. PICK c \in Callables : c = cb[o].callable /\ deadlineOf[c] = cb[o].deadline
  BY Mapping
<1>2. deadlineOf[c] # None
  BY <1>1, NoneAssumption, Types DEF IInv
<1>3. deadlineOf' = [deadlineOf EXCEPT ![c] = None]
  BY <1>1, DeadlineGone
<1> QED
  BY <1>2, <1>3, RemoveStep

LEMMA RemoveCallbackRefined ==
  ASSUME IInv, IInv', removeAnyCallback
  PROVE  Timers!Next
<1>1. PICK key \in Callables \union Names : removeCallback(key)
  BY DEF removeAnyCallback
<1>2. PICK o : o = findCallback(key)
  OBVIOUS
<1>3. /\ frames # <<>> /\ o # None /\ Unregister(o)
      /\ cb' = [cb EXCEPT ![o].status = "Removed",
                          ![o].threadEvent = Triggered(@, "removed")]
      /\ UNCHANGED <<now, currentCallback, frames, pc>>
  BY <1>1, <1>2 DEF removeCallback, ActuallyRemove, Calling, loopVars
<1>4. o \in Objs /\ Added(o)
  BY <1>2, <1>3, FoundAdded, <1>1
<1>5. /\ \A p \in Objs \ {o} : cb'[p] = cb[p]
      /\ cb'[o].callable = cb[o].callable
  BY <1>3, <1>4, Types DEF IInv, CallbackType
<1>6. UNCHANGED runByUpdate
  <2>1. InRun => currentCallback \in Objs
    BY DEF IInv, Kept, ControlInv
  <2> QED BY <1>3, <1>5, <2>1, RunnerSame
<1> QED
  BY <1>3, <1>4, <1>5, <1>6, RemoveRefined

LEMMA FinishRefined ==
  ASSUME IInv, IInv', NEW payload \in {"returned", "removed"}, Finish(payload)
  PROVE  Timers!Next
<1>1. PICK o, n : o = Top.cb /\ n = Len(frames)
  OBVIOUS
<1>2. /\ frames # <<>> /\ Top.thread /\ Unregister(o)
      /\ cb' = [cb EXCEPT ![o].status = "Removed",
                          ![o].threadEvent = Triggered(@, payload)]
      /\ frames' = [frames EXCEPT ![n].thread = FALSE]
      /\ UNCHANGED <<now, currentCallback, pc>>
  BY <1>1 DEF Finish, ActuallyRemove, ActuallyRemoveHeld, loopVars
<1>3. n \in DOMAIN frames /\ Top = frames[n] /\ DOMAIN frames' = DOMAIN frames
  BY <1>1, <1>2, TopFrame
<1>4. o \in Objs /\ IsCallingThread(o)
  BY <1>1, <1>2, <1>3, FrameTypes DEF IsCallingThread, IInv
<1>5. Added(o)
  BY <1>2, <1>4, CallingThread DEF Scheduled
<1>6. /\ \A p \in Objs \ {o} : cb'[p] = cb[p]
      /\ cb'[o].callable = cb[o].callable
  BY <1>2, <1>4, Types DEF IInv, CallbackType
<1>7. UNCHANGED runByUpdate
  <2>1. InRun => currentCallback \in Objs
    BY DEF IInv, Kept, ControlInv
  <2>2. frames' # <<>>
    BY <1>3
  <2> QED BY <1>2, <1>6, <2>1, <2>2, RunnerSame
<1> QED
  BY <1>2, <1>4, <1>5, <1>6, <1>7, RemoveRefined

LEMMA RunOnceRefined ==
  ASSUME IInv, IInv', RemoveRunOnce
  PROVE  Timers!Next
<1>1. PICK o : o = currentCallback
  OBVIOUS
<1>2. /\ pc = "ran" /\ pc' = "loop" /\ cb[o].runOnce
      /\ Unregister(o)
      /\ cb' = [cb EXCEPT ![o].status = "Removed"]
      /\ UNCHANGED <<now, frames>>
  BY <1>1 DEF RemoveRunOnce, ActuallyRemoveHeld, loopVars
<1>3. frames = <<>> /\ o \in Objs /\ RunInv
  BY <1>1, <1>2, Ran
<1>4. Added(o)
  BY <1>1, <1>2, <1>3 DEF RunInv, Scheduled
<1>5. \A p \in Objs \ {o} : cb'[p] = cb[p]
  BY <1>2, <1>3, Types DEF IInv
<1>6. UNCHANGED runByUpdate
  BY <1>2, <1>3, NobodyRun
<1> QED
  BY <1>2, <1>3, <1>4, <1>5, <1>6, RemoveRefined

\* A callback that waits for another instant.
LEMMA PutOffRefined ==
  ASSUME IInv, IInv', NEW o \in Objs, Added(o), NEW d \in Nat, d >= now \/ d > cb[o].deadline,
         UNCHANGED <<now, registry>>,
         \A p \in Objs \ {o} : cb'[p] = cb[p], cb'[o].callable = cb[o].callable,
         cb'[o].deadline = d,
         runByUpdate' \in {runByUpdate,
                           IF runByUpdate = cb[o].callable THEN None ELSE runByUpdate}
  PROVE  Timers!Next
<1>1. PICK c \in Callables : c = cb[o].callable /\ deadlineOf[c] = cb[o].deadline
  BY Mapping
<1>2. deadlineOf[c] # None
  BY <1>1, NoneAssumption, Types DEF IInv
<1>3. deadlineOf' = [deadlineOf EXCEPT ![c] = d]
  BY <1>1, DeadlineChanged
<1> QED
  BY <1>1, <1>2, <1>3, PutOffStep

\* A coroutine sets its own timeout and yields.
LEMMA TimeoutRefined ==
  ASSUME Usage = {}, IInv, IInv', setAnyTimeout
  PROVE  Timers!Next
<1>1. PICK key \in Callables \union Names :
        \/ \E t \in Timeouts : setCallbackTimeout(key, t)
        \/ setCallbackTimeoutIndefinite(key)
  BY DEF setAnyTimeout
<1>2. PICK o : o = findCallback(key)
  OBVIOUS
<1>3. PICK d :
        /\ frames # <<>> /\ o # None /\ IsCallingThread(o)
        /\ cb' = [cb EXCEPT ![o].deadline = d, ![o].status = "Suspended"]
        /\ Leave
        /\ UNCHANGED <<now, registry, currentCallback>>
        /\ d \in {now + t : t \in Timeouts} \union {INDEFINITE}
  <2>1. CASE \E t \in Timeouts : setCallbackTimeout(key, t)
    <3>1. PICK t \in Timeouts : setCallbackTimeout(key, t)
      BY <2>1
    <3>2. /\ frames # <<>> /\ o # None /\ IsCallingThread(o)
          /\ cb' = [cb EXCEPT ![o].deadline = now + t, ![o].status = "Suspended"]
          /\ Leave
          /\ UNCHANGED <<now, registry, currentCallback>>
      BY <1>2, <3>1 DEF setCallbackTimeout, Calling, loopVars, YieldIfCalling
    <3> QED BY <3>2
  <2>2. CASE setCallbackTimeoutIndefinite(key)
    <3>1. /\ frames # <<>> /\ o # None /\ IsCallingThread(o)
          /\ cb' = [cb EXCEPT ![o].deadline = INDEFINITE, ![o].status = "Suspended"]
          /\ Leave
          /\ UNCHANGED <<now, registry, currentCallback>>
      BY <1>2, <2>2 DEF setCallbackTimeoutIndefinite, Calling, loopVars, YieldIfCalling
    <3> QED BY <3>1
  <2> QED BY <1>1, <2>1, <2>2
<1>4. d \in Nat /\ d >= now
  <2>1. \A t \in Timeouts : t \in Nat
    BY TimeAssumption
  <2>2. MaxTime + MIN_INTERVAL < INDEFINITE /\ MIN_INTERVAL \in Nat
    BY TimeAssumption
  <2>3. now \in 0..MaxTime /\ MaxTime \in Nat /\ INDEFINITE \in Nat
    BY Types DEF IInv
  <2> QED BY <1>3, <2>1, <2>2, <2>3
<1>5. o \in Objs /\ Added(o)
  BY <1>1, <1>2, <1>3, FoundAdded
<1>6. /\ \A p \in Objs \ {o} : cb'[p] = cb[p]
      /\ cb'[o].callable = cb[o].callable /\ cb'[o].deadline = d
  BY <1>3, <1>5, Types DEF CallbackType, IInv
<1>7. runByUpdate' \in {runByUpdate,
                        IF runByUpdate = cb[o].callable THEN None ELSE runByUpdate}
  <2>1. \A p \in Objs : cb'[p].callable = cb[p].callable
    BY <1>6
  <2>2. IF Len(frames) = 1 /\ pc = "loop"
        THEN runByUpdate = cb[currentCallback].callable /\ runByUpdate' = None
        ELSE UNCHANGED runByUpdate
    BY <1>3, <2>1, LeavingRunner
  <2>3. o = currentCallback <=> Len(frames) = 1
    BY <1>3, <1>5, CallingThread
  <2> QED BY <2>2, <2>3
<1> QED
  BY <1>3, <1>4, <1>5, <1>6, <1>7, PutOffRefined

\* A coroutine is woken up.
LEMMA CancelRefined ==
  ASSUME IInv, IInv', cancelAnyTimeout
  PROVE  Timers!Next
<1>1. PICK key \in Callables \union Names : cancelCallbackTimeout(key)
  BY DEF cancelAnyTimeout
<1>2. PICK o : o = findCallback(key)
  OBVIOUS
<1>3. /\ o # None
      /\ cb' = [cb EXCEPT ![o].deadline = now]
      /\ UNCHANGED <<now, registry, currentCallback, frames, pc>>
  BY <1>1, <1>2 DEF cancelCallbackTimeout, loopVars
<1>4. o \in Objs /\ Added(o)
  BY <1>1, <1>2, <1>3, FoundAdded
<1>5. /\ \A p \in Objs \ {o} : cb'[p] = cb[p]
      /\ cb'[o].callable = cb[o].callable /\ cb'[o].deadline = now
  BY <1>3, <1>4, Types DEF CallbackType, IInv
<1>6. UNCHANGED runByUpdate
  <2>1. InRun => currentCallback \in Objs
    BY DEF IInv, Kept, ControlInv
  <2> QED BY <1>3, <1>5, <2>1, RunnerSame
<1>7. now \in Nat /\ now >= now
  BY Types DEF IInv
<1> QED
  BY <1>3, <1>4, <1>5, <1>6, <1>7, PutOffRefined

\* A piece of Lua code ends, and with the outermost the run.
LEMMA ReturnRefined ==
  ASSUME IInv, IInv', Return \/ Yield
  PROVE  [Timers!Next]_(Timers!vars)
<1>1. /\ frames # <<>> /\ Leave
      /\ UNCHANGED <<now, cb, registry, currentCallback>>
  BY DEF Return, Yield, queueVars, loopVars
<1>2. UNCHANGED <<now, deadlineOf>>
  BY <1>1, NoStep
<1>3. IF Len(frames) = 1 /\ pc = "loop"
      THEN /\ runByUpdate = cb[currentCallback].callable /\ runByUpdate \in Callables
           /\ runByUpdate' = None
      ELSE UNCHANGED runByUpdate
  BY <1>1, LeavingRunner
<1>4. CASE Len(frames) = 1 /\ pc = "loop"
  <2>1. runByUpdate # None /\ runByUpdate' = None
    BY <1>3, <1>4, NoneAssumption
  <2> QED BY <1>2, <2>1 DEF Timers!Next, Timers!Return
<1>5. CASE ~(Len(frames) = 1 /\ pc = "loop")
  BY <1>2, <1>3, <1>5 DEF Timers!vars
<1> QED
  BY <1>4, <1>5

\* update() runs the callback with the earliest deadline, which has come.
LEMMA RunRefined ==
  ASSUME IInv, IInv', RunCallback
  PROVE  Timers!Next
<1>0. PICK node, o : node = Head(activeCallbacks) /\ o = node.cb
  OBVIOUS
<1>1. /\ pc = "loop" /\ frames = <<>> /\ activeCallbacks # <<>> /\ node.key <= now
      /\ currentCallback' = o
      /\ cb' = [cb EXCEPT ![o].status = "Active"]
      /\ frames' = <<[by |-> "update", cb |-> o, thread |-> IsThread(o)]>>
      /\ UNCHANGED <<now, registry, pc>>
  BY <1>0 DEF RunCallback, PassGoesOn, queueVars
<1>2. /\ node \in Nodes(activeCallbacks)
      /\ \A other \in Nodes(activeCallbacks) : node.key <= other.key
  BY <1>0, <1>1, HeadEarliest, Types DEF IInv, Kept, QueueInv
<1>3. /\ o \in Objs /\ Added(o) /\ node.key = KeyOf(o)
  BY <1>0, <1>2, Types DEF IInv, Kept, QueueInv, Scheduled
<1>4. \A p \in Objs : KeyOf(p) = cb[p].deadline
  BY <1>1 DEF KeyOf, InRun
<1>5. PICK c \in Callables : c = cb[o].callable /\ deadlineOf[c] = cb[o].deadline
  BY <1>3, Mapping
<1>6. \A p \in Objs : cb'[p].deadline = cb[p].deadline /\ cb'[p].callable = cb[p].callable
  BY <1>1, <1>3, Types DEF CallbackType, IInv
<1>7. UNCHANGED deadlineOf
  <2>1. \A k \in Callables : registry[k] \in Objs \union {None}
    BY DEF IInv, TypeInv, TypeOK
  <2> QED BY <1>1, <1>6, <2>1 DEF deadlineOf
<1>8. deadlineOf[c] = node.key /\ deadlineOf[c] # None /\ deadlineOf[c] <= now
  <2>1. deadlineOf[c] = node.key
    BY <1>3, <1>4, <1>5
  <2>2. node.key \in Nat
    BY <1>2, Types DEF IInv
  <2> QED BY <1>1, <2>1, <2>2, NoneAssumption
<1>9. \A k \in Callables : deadlineOf[k] # None => deadlineOf[c] <= deadlineOf[k]
  <2> SUFFICES ASSUME NEW k \in Callables, deadlineOf[k] # None
               PROVE  node.key <= deadlineOf[k]
    BY <1>8
  <2>1. PICK p \in Objs : Added(p) /\ deadlineOf[k] = cb[p].deadline
    BY Mapping
  <2>2. CASE cb[p].deadline = INDEFINITE
    <3>1. now < INDEFINITE /\ node.key \in Nat
      <4>1. MaxTime + MIN_INTERVAL < INDEFINITE /\ MIN_INTERVAL \in Nat
        BY TimeAssumption
      <4> QED BY <1>2, <4>1, Types DEF IInv
    <3> QED BY <1>1, <2>1, <2>2, <3>1, Types DEF IInv
  <2>3. CASE cb[p].deadline # INDEFINITE
    <3>1. [key |-> KeyOf(p), cb |-> p] \in Nodes(activeCallbacks)
      BY <2>1, <2>3 DEF IInv, Kept, QueueInv, Scheduled
    <3> QED BY <1>2, <1>4, <2>1, <3>1
  <2> QED BY <2>2, <2>3
<1>10. runByUpdate = None /\ runByUpdate' = c
  <2>1. (runByUpdate = Runner)'
    BY RunnerIs, PTL
  <2>2. runByUpdate = Runner
    BY RunnerIs
  <2>3. frames' # <<>>
    BY <1>1
  <2> QED BY <1>1, <1>3, <1>5, <1>6, <2>1, <2>2, <2>3 DEF Runner
<1> QED
  BY <1>1, <1>5, <1>7, <1>8, <1>9, <1>10 DEF Timers!Next, Timers!Run, Timers!Earliest

\* A callback that has been run is queued again, later than before.
LEMMA RequeueRefined ==
  ASSUME IInv, IInv', RequeueCallback
  PROVE  [Timers!Next]_(Timers!vars)
<1>0. PICK o, d :
        /\ o = currentCallback
        /\ d = IF cb[o].deadline = pass.key THEN pass.newDeadline ELSE cb[o].deadline
  OBVIOUS
<1>1. /\ pc = "ran" /\ pc' = "loop" /\ ~IsGone(o)
      /\ cb' = [cb EXCEPT ![o].deadline = d]
      /\ UNCHANGED <<now, registry, frames>>
  BY <1>0 DEF RequeueCallback
<1>2. frames = <<>> /\ o \in Objs /\ RunInv
  BY <1>0, <1>1, Ran
<1>3. Added(o)
  BY <1>1 DEF IsGone, Added
<1>4. UNCHANGED runByUpdate
  BY <1>1, <1>2, NobodyRun
<1>5. /\ \A p \in Objs \ {o} : cb'[p] = cb[p]
      /\ cb'[o].callable = cb[o].callable /\ cb'[o].deadline = d
  BY <1>1, <1>2, Types DEF CallbackType, IInv
<1>6. CASE cb[o].deadline = pass.key
  <2>1. d \in Nat /\ d > cb[o].deadline
    BY <1>0, <1>2, <1>6, Types DEF RunInv, IInv
  <2> QED BY <1>1, <1>2, <1>3, <1>4, <1>5, <2>1, PutOffRefined
<1>7. CASE cb[o].deadline # pass.key
  <2>1. cb'[o].deadline = cb[o].deadline
    BY <1>0, <1>5, <1>7
  <2>2. UNCHANGED deadlineOf
    <3>1. \A k \in Callables : registry[k] \in Objs \union {None}
      BY DEF IInv, TypeInv, TypeOK
    <3> QED BY <1>1, <1>5, <2>1, <3>1 DEF deadlineOf
  <2> QED BY <1>1, <1>4, <2>2 DEF Timers!vars
<1> QED
  BY <1>6, <1>7

\* The rest of update() and of the main loop changes nothing the abstract queue knows.
LEMMA LoopRefined ==
  ASSUME IInv, IInv', UpdateBegin \/ ForgetCallback \/ UpdateEnd \/ OnEvent
  PROVE  UNCHANGED Timers!vars
<1>1. UNCHANGED <<now, cb, registry>>
  BY DEF UpdateBegin, ForgetCallback, UpdateEnd, OnEvent, queueVars
<1>2. /\ pc = "loop" => frames = <<>>
      /\ pc' = "loop" => frames' = <<>>
  BY DEF UpdateBegin, ForgetCallback, UpdateEnd, OnEvent, IInv, Kept, ControlInv
<1>3. UNCHANGED <<deadlineOf, runByUpdate>>
  BY <1>1, <1>2, NoStep, NobodyRun
<1> QED
  BY <1>1, <1>3 DEF Timers!vars

LEMMA TickRefined ==
  ASSUME IInv, IInv', Tick
  PROVE  Timers!Next
<1>1. now < MaxTime /\ now' = now + 1 /\ UNCHANGED <<cb, registry, frames, pc, currentCallback>>
  BY DEF Tick, queueVars, loopVars
<1>2. UNCHANGED <<deadlineOf, runByUpdate>>
  BY <1>1, NoStep, RunnerSame
<1> QED
  BY <1>1, <1>2 DEF Timers!Next, Timers!Tick

LEMMA NextRefined == Usage = {} /\ IInv /\ IInv' /\ [Next]_vars => [Timers!Next]_(Timers!vars)
<1> SUFFICES ASSUME Usage = {}, IInv, IInv', [Next]_vars
             PROVE  [Timers!Next]_(Timers!vars)
  OBVIOUS
<1>1. CASE LuaCode
  BY <1>1, AddRefined, RemoveCallbackRefined, TimeoutRefined, CancelRefined DEF LuaCode
<1>2. CASE LuaEnds
  BY <1>2, ReturnRefined, FinishRefined DEF LuaEnds
<1>3. CASE update
  BY <1>3, LoopRefined, RunRefined, RunOnceRefined, RequeueRefined DEF update
<1>4. CASE OnEvent \/ Tick
  BY <1>4, LoopRefined, TickRefined
<1>5. CASE UNCHANGED vars
  BY <1>5 DEF vars, queueVars, loopVars, Timers!vars, deadlineOf, runByUpdate
<1> QED
  BY <1>1, <1>2, <1>3, <1>4, <1>5 DEF Next

\* With scripts that make none of the hazardous calls the runner, with its multimap, its
\* iterators and its nested Lua code, is a queue of timers: a callback is run when its
\* deadline has come and no other one is earlier, one at a time, and a deadline is never
\* moved to an instant that has passed unless it moves forward.
THEOREM Refinement == Usage = {} => (Spec => ImplementsTimerQueue)
<1> SUFFICES ASSUME Usage = {} PROVE Spec => ImplementsTimerQueue
  OBVIOUS
<1>1. Init => Timers!Init
  BY DEF Init, Timers!Init, deadlineOf, runByUpdate
<1>2. IInv /\ IInv' /\ [Next]_vars => [Timers!Next]_(Timers!vars)
  BY NextRefined
<1> QED
  BY <1>1, <1>2, Invariance, PTL DEF Spec, ImplementsTimerQueue, Timers!Spec
=============================================================================
