------------------------ MODULE ScriptLifecycleProofs ------------------------
(***************************************************************************)
(* Proofs about the list of scripts (ScriptLifecycle.tla): no deleted      *)
(* script is used, none is left that nobody can stop, and stopAllScripts   *)
(* leaves none, whatever other threads do meanwhile.                       *)
(***************************************************************************)
EXTENDS ScriptLifecycle, FiniteSetTheorems, WellFoundedInduction, TLAPS

-----------------------------------------------------------------------------
(* The inductive invariant *)

Op == {"launch", "launcher", "stop", "stopAll", "with", "control", "delete"}

Frame == [
  op : Op,
  at : {"find", "lock", "create", "start", "deleted", "begin", "next", "wait",
        "stop", "join", "joinBackground", "free"},
  key : Paths \union Nat \union {None},
  ref : {None} \union [i : Nat, buffer : Nat]]

Mutex == {Free} \union {[owner |-> t, count |-> 1] : t \in Threads}

ListEntry == [
  path : Paths \union {None}, script : ScriptIDs \union {None},
  scriptID : ScriptIDs \union {None}, mutex : Mutex]

HasRef(c, size) == c.ref \in [i : 1..size, buffer : Nat]

WithOK(c, size) ==
  /\ c.op = "with" /\ c.key \in Paths \union ScriptIDs
  /\ \/ c.at = "find"
     \/ c.at = "lock" /\ HasRef(c, size)

\* The outermost call of a thread, in a list of that size.
OuterOK(c, size) ==
  \/ /\ c.op = "launch" /\ c.key \in Paths
     /\ \/ c.at = "find"
        \/ c.at \in {"lock", "create"} /\ HasRef(c, size)
  \/ c.op = "launcher" /\ c.at = "start" /\ c.key \in ScriptIDs
  \/ /\ c.op = "stop"
     /\ \/ c.at = "find"
        \/ c.at \in {"lock", "deleted"} /\ HasRef(c, size)
  \/ /\ c.op = "stopAll"
     /\ \/ c.at = "begin"
        \/ c.at = "next" /\ c.key \in 1..(size + 1)
        \/ c.at = "deleted" /\ c.key \in 1..size
  \/ WithOK(c, size)
  \/ c.op = "control" /\ c.at = "wait"

DeleteOK(c) ==
  c.op = "delete" /\ c.key \in ScriptIDs /\ c.at \in {"stop", "join", "joinBackground", "free"}

Does(s, op, at) == s # <<>> /\ s[1].op = op /\ s[1].at = at

Waits(s) == Does(s, "launch", "create") \/ Does(s, "stop", "deleted") \/ Does(s, "stopAll", "deleted")

\* The calls that delete a script wait for the deletion, and that for a finaliser's call.
StackOK(s, size) ==
  /\ s \in Seq(Frame) /\ Len(s) <= 3
  /\ Len(s) >= 1 => OuterOK(s[1], size)
  /\ Len(s) >= 2 => Waits(s) /\ DeleteOK(s[2])
  /\ Len(s) = 3 => s[2].at = "free" /\ WithOK(s[3], size)

TypeInv ==
  /\ scripts \in Seq(ListEntry)
  /\ buffer \in Nat
  /\ globalMutex \in Mutex
  /\ plugins \in [ScriptIDs -> Plugin]
  /\ DOMAIN stack = Threads
  /\ \A t \in Threads : StackOK(stack[t], Len(scripts))
  /\ calls \in 0..MaxCalls
  /\ ub \in {"none", "vector", "launcher"}
  /\ usage \in Usages

\* What a stack says of the rest of the state. Between two steps each mutex is held once
\* at most, by a thread that is at one of these places.
HoldsGlobal(s) ==
  Does(s, "launch", "lock") \/ Does(s, "stopAll", "next") \/ Does(s, "stopAll", "deleted")

Launches(s, i) == Does(s, "launch", "create") /\ s[1].ref.i = i

Stops(s, i) ==
  \/ Does(s, "stop", "deleted") /\ s[1].ref.i = i
  \/ Does(s, "stopAll", "deleted") /\ s[1].key = i

HoldsEntry(s, i) == Launches(s, i) \/ Stops(s, i)

Deletes(s, n) == Len(s) >= 2 /\ s[2].key = n

\* The script has been deleted, and is to be forgotten.
Forgets(s, i) == Stops(s, i) /\ Len(s) = 1

GoneTo(s, k) == (Does(s, "stopAll", "next") \/ Does(s, "stopAll", "deleted")) /\ s[1].key = k

IsLaunch(s) == s # <<>> /\ s[1].op = "launch"

\* Two stacks that say the same of the rest of the state.
SameHold(s, r) ==
  /\ HoldsGlobal(s) <=> HoldsGlobal(r)
  /\ \A i \in Nat : /\ Launches(s, i) <=> Launches(r, i)
                    /\ Stops(s, i) <=> Stops(r, i)
                    /\ Forgets(s, i) <=> Forgets(r, i)
                    /\ Deletes(s, i) <=> Deletes(r, i)
                    /\ GoneTo(s, i) <=> GoneTo(r, i)

SameView(s, r) == SameHold(s, r) /\ (IsLaunch(s) <=> IsLaunch(r))

MutexInv ==
  \A t \in Threads :
    /\ HoldsGlobal(stack[t]) <=> globalMutex.owner = t
    /\ \A i \in DOMAIN scripts : HoldsEntry(stack[t], i) <=> scripts[i].mutex.owner = t

\* The script of an entry is the one its path and ID say. It has been deleted exactly
\* when the call that has stopped it is about to forget it.
Forgotten(i) == \E t \in Threads : Forgets(stack[t], i)

EntryInv(i) ==
  LET n == scripts[i].script IN
  n # None =>
    /\ scripts[i].scriptID = n
    /\ scripts[i].path = plugins[n].path
    /\ plugins[n].path # None
    /\ plugins[n].deleted => Forgotten(i)
    /\ Forgotten(i) => plugins[n].deleted

EntriesInv ==
  /\ \A i, j \in DOMAIN scripts :
       scripts[i].script # None /\ scripts[i].script = scripts[j].script => i = j
  /\ \A i \in DOMAIN scripts : EntryInv(i)
  /\ \A t \in Threads, i \in DOMAIN scripts : Launches(stack[t], i) => scripts[i].script = None

\* A thread deletes a script that it alone has: one that no entry has, or that of the
\* entry whose mutex it holds.
DeletionInv ==
  \A t \in Threads, n \in ScriptIDs : Deletes(stack[t], n) =>
    /\ ~plugins[n].deleted
    /\ \/ \E i \in DOMAIN scripts : Stops(stack[t], i) /\ scripts[i].script = n
       \/ \A i \in DOMAIN scripts : scripts[i].script # n /\ ~Stops(stack[t], i)
    /\ \A u \in Threads : Deletes(stack[u], n) => u = t

ExistInv ==
  \A n \in ScriptIDs : ~plugins[n].deleted =>
    /\ plugins[n].path # None
    /\ \/ \E i \in DOMAIN scripts : scripts[i].script = n
       \/ \E t \in Threads : Deletes(stack[t], n)

\* IDs are given in their order, and there is one for each launch that has been called.
Used == {n \in ScriptIDs : plugins[n].path # None}

Launching == {t \in Threads : IsLaunch(stack[t])}

IDsInv ==
  /\ Used = 1..Cardinality(Used)
  /\ Cardinality(Used) + Cardinality(Launching) <= Len(Initial) + calls

\* What stopAllScripts has gone past stays empty: no launch is under way there, and none
\* can begin.
StopAllInv ==
  \A t \in Threads, k \in 1..(Len(scripts) + 1) : GoneTo(stack[t], k) =>
    \A i \in DOMAIN scripts : i < k =>
      scripts[i].script = None /\ \A u \in Threads : ~Launches(stack[u], i)

IInv ==
  /\ TypeInv
  /\ MutexInv
  /\ EntriesInv
  /\ DeletionInv
  /\ ExistInv
  /\ IDsInv
  /\ StopAllInv

-----------------------------------------------------------------------------
(* Lemmas about stacks of calls *)

LEMMA Empty ==
  ASSUME NEW s \in Seq(Frame)
  PROVE  (s = <<>> <=> Len(s) = 0) /\ Len(s) \in Nat
OBVIOUS

LEMMA Popped ==
  ASSUME NEW s \in Seq(Frame), s # <<>>
  PROVE  /\ Front(s) \in Seq(Frame)
         /\ Len(Front(s)) = Len(s) - 1
         /\ \A k \in 1..(Len(s) - 1) : Front(s)[k] = s[k]
         /\ Last(s) = s[Len(s)] /\ Last(s) \in Frame
<1>1. Len(s) \in Nat \ {0} /\ \A k \in 1..Len(s) : s[k] \in Frame
  OBVIOUS
<1>2. Front(s) = [k \in 1..(Len(s) - 1) |-> s[k]]
  BY <1>1 DEF Front
<1> QED
  BY <1>1, <1>2 DEF Last

LEMMA Replaced ==
  ASSUME NEW s \in Seq(Frame), s # <<>>, NEW c \in Frame
  PROVE  LET r == Append(Front(s), c) IN
         /\ r \in Seq(Frame)
         /\ Len(r) = Len(s)
         /\ r[Len(s)] = c
         /\ \A k \in 1..(Len(s) - 1) : r[k] = s[k]
         /\ r \o <<>> = r
<1>1. /\ Front(s) \in Seq(Frame)
      /\ Len(Front(s)) = Len(s) - 1 /\ Len(s) \in Nat \ {0}
      /\ \A k \in 1..(Len(s) - 1) : Front(s)[k] = s[k]
  BY Popped
<1> HIDE DEF Front
<1> QED
  BY <1>1

LEMMA Extended ==
  ASSUME NEW s \in Seq(Frame), s # <<>>, NEW c \in Frame, NEW d \in Frame
  PROVE  LET r == Append(Front(s), c) \o <<d>> IN
         /\ r \in Seq(Frame)
         /\ Len(r) = Len(s) + 1
         /\ r[Len(s)] = c
         /\ r[Len(s) + 1] = d
         /\ \A k \in 1..(Len(s) - 1) : r[k] = s[k]
<1> DEFINE q == Append(Front(s), c)
<1>1. /\ q \in Seq(Frame) /\ Len(q) = Len(s) /\ Len(s) \in Nat \ {0}
      /\ q[Len(s)] = c
      /\ \A k \in 1..(Len(s) - 1) : q[k] = s[k]
  BY Replaced
<1> HIDE DEF q
<1>2. LET r == q \o <<d>> IN
      /\ r \in Seq(Frame)
      /\ Len(r) = Len(s) + 1
      /\ r[Len(s)] = c
      /\ r[Len(s) + 1] = d
      /\ \A k \in 1..(Len(s) - 1) : r[k] = s[k]
  BY <1>1
<1> QED
  BY <1>2 DEF q

LEMMA Single ==
  ASSUME NEW c \in Frame
  PROVE  <<c>> \in Seq(Frame) /\ Len(<<c>>) = 1 /\ <<c>>[1] = c
OBVIOUS

-----------------------------------------------------------------------------
(* What becomes of a stack *)

LEMMA Grown ==
  ASSUME NEW s, NEW m \in Nat, NEW n \in Nat, m <= n, StackOK(s, m)
  PROVE  StackOK(s, n)
BY DEF StackOK, OuterOK, WithOK, HasRef

LEMMA TopCall ==
  ASSUME NEW s, NEW n \in Nat, StackOK(s, n), s # <<>>
  PROVE  /\ Last(s) \in Frame
         /\ Last(s).op \in {"launch", "launcher", "stop", "stopAll", "control"} =>
              Len(s) = 1 /\ s[1] = Last(s) /\ OuterOK(Last(s), n)
         /\ Last(s).op = "delete" =>
              Len(s) = 2 /\ s[2] = Last(s) /\ DeleteOK(Last(s)) /\ Waits(s)
         /\ Last(s).op = "with" =>
              /\ WithOK(Last(s), n)
              /\ \/ Len(s) = 1 /\ s[1] = Last(s)
                 \/ Len(s) = 3 /\ s[3] = Last(s)
<1>a. s \in Seq(Frame) /\ Len(s) <= 3
  BY DEF StackOK
<1>0. Len(s) \in 1..3
  <2>1. Len(s) \in Nat /\ Len(s) <= 3
    BY <1>a
  <2>2. Len(s) # 0
    BY <1>a, Empty
  <2>3. \A k \in Nat : k <= 3 /\ k # 0 => k \in 1..3
    OBVIOUS
  <2> QED
    BY ONLY <2>1, <2>2, <2>3
<1>1. s \in Seq(Frame) /\ Len(s) \in 1..3 /\ Last(s) = s[Len(s)] /\ Last(s) \in Frame
  BY <1>a, <1>0, Popped
<1>2. OuterOK(s[1], n)
  BY <1>1 DEF StackOK
<1>3. CASE Len(s) = 1
  <2>1. Last(s) = s[1]
    BY <1>1, <1>3
  <2> QED
    BY <1>1, <1>2, <1>3, <2>1 DEF OuterOK, WithOK
<1>4. CASE Len(s) = 2
  <2>1. Last(s) = s[2] /\ DeleteOK(s[2]) /\ Waits(s)
    BY <1>1, <1>4 DEF StackOK
  <2> QED
    BY <1>1, <1>4, <2>1 DEF DeleteOK
<1>5. CASE Len(s) = 3
  <2>1. Last(s) = s[3] /\ WithOK(s[3], n)
    BY <1>1, <1>5 DEF StackOK
  <2> QED
    BY <1>1, <1>5, <2>1 DEF WithOK
<1> QED
  BY <1>1, <1>3, <1>4, <1>5

LEMMA OuterGoesOn ==
  ASSUME NEW s, NEW n \in Nat, s \in Seq(Frame), Len(s) = 1, NEW c \in Frame, OuterOK(c, n)
  PROVE  LET r == Append(Front(s), c) IN
         StackOK(r, n) /\ Len(r) = 1 /\ r[1] = c /\ r # <<>> /\ r \o <<>> = r
<1> DEFINE r == Append(Front(s), c)
<1>a. s \in Seq(Frame)
  BY DEF StackOK
<1>0. s \in Seq(Frame) /\ s # <<>>
  <2>1. s = <<>> <=> Len(s) = 0
    BY <1>a, Empty
  <2> QED
    BY <1>a, <2>1
<1>1. r \in Seq(Frame) /\ Len(r) = 1 /\ r[1] = c /\ r \o <<>> = r
  BY <1>0, Replaced
<1> HIDE DEF r
<1>2. StackOK(r, n) /\ r # <<>>
  BY <1>1 DEF StackOK
<1> QED
  BY <1>1, <1>2 DEF r

LEMMA OuterReturns ==
  ASSUME NEW s, NEW n \in Nat, s \in Seq(Frame), Len(s) = 1
  PROVE  Front(s) = <<>> /\ StackOK(<<>>, n) /\ Len(<<>>) = 0
<1>1. s # <<>>
  BY SMTT(30), Empty
<1>2. Front(s) \in Seq(Frame) /\ Len(Front(s)) = 0
  BY <1>1, Popped
<1>3. Front(s) = <<>>
  BY <1>2, Empty
<1> QED
  BY <1>3 DEF StackOK

LEMMA OuterDeletes ==
  ASSUME NEW s, NEW n \in Nat, s \in Seq(Frame), Len(s) = 1, NEW c \in Frame, OuterOK(c, n),
         <<c.op, c.at>> \in {<<"launch", "create">>, <<"stop", "deleted">>, <<"stopAll", "deleted">>},
         NEW d \in Frame, DeleteOK(d)
  PROVE  LET r == Append(Front(s), c) \o <<d>> IN
         StackOK(r, n) /\ Len(r) = 2 /\ r[1] = c /\ r[2] = d /\ r # <<>>
<1> DEFINE r == Append(Front(s), c) \o <<d>>
<1>a. s \in Seq(Frame)
  BY DEF StackOK
<1>0. s \in Seq(Frame) /\ s # <<>>
  <2>1. s = <<>> <=> Len(s) = 0
    BY <1>a, Empty
  <2> QED
    BY <1>a, <2>1
<1>1. r \in Seq(Frame) /\ Len(r) = 2 /\ r[1] = c /\ r[2] = d
  BY <1>0, Extended
<1> HIDE DEF r
<1>2. r # <<>>
  <2>1. r = <<>> <=> Len(r) = 0
    BY <1>1, Empty
  <2> QED
    BY <1>1, <2>1
<1>3. Waits(r)
  BY <1>1, <1>2 DEF Waits, Does
<1>4. StackOK(r, n)
  BY <1>1, <1>3 DEF StackOK
<1> QED
  BY <1>1, <1>2, <1>4 DEF r

LEMMA DeleteGoesOn ==
  ASSUME NEW s, NEW n \in Nat, StackOK(s, n), Len(s) = 2, NEW d \in Frame, DeleteOK(d)
  PROVE  LET r == Append(Front(s), d) IN
         StackOK(r, n) /\ Len(r) = 2 /\ r[1] = s[1] /\ r[2] = d /\ r # <<>>
<1> DEFINE r == Append(Front(s), d)
<1>a. s \in Seq(Frame)
  BY DEF StackOK
<1>0. s \in Seq(Frame) /\ s # <<>>
  <2>1. s = <<>> <=> Len(s) = 0
    BY <1>a, Empty
  <2> QED
    BY <1>a, <2>1
<1>1. r \in Seq(Frame) /\ Len(r) = 2 /\ r[1] = s[1] /\ r[2] = d
  <2>1. /\ r \in Seq(Frame) /\ Len(r) = Len(s) /\ r[Len(s)] = d
        /\ \A k \in 1..(Len(s) - 1) : r[k] = s[k]
    BY <1>0, Replaced
  <2> QED
    BY <2>1
<1> HIDE DEF r
<1>2. r # <<>> /\ s # <<>>
  BY <1>0, <1>1, Empty
<1>3. StackOK(r, n)
  BY <1>1, <1>2 DEF StackOK, Waits, Does
<1> QED
  BY <1>1, <1>2, <1>3 DEF r

LEMMA DeleteCalls ==
  ASSUME NEW s, NEW n \in Nat, StackOK(s, n), Len(s) = 2, NEW d \in Frame, DeleteOK(d),
         d.at = "free", NEW c \in Frame, WithOK(c, n)
  PROVE  LET r == Append(Front(s), d) \o <<c>> IN
         StackOK(r, n) /\ Len(r) = 3 /\ r[1] = s[1] /\ r[2] = d /\ r[3] = c /\ r # <<>>
<1> DEFINE r == Append(Front(s), d) \o <<c>>
<1>a. s \in Seq(Frame)
  BY DEF StackOK
<1>0. s \in Seq(Frame) /\ s # <<>>
  <2>1. s = <<>> <=> Len(s) = 0
    BY <1>a, Empty
  <2> QED
    BY <1>a, <2>1
<1>1. r \in Seq(Frame) /\ Len(r) = 3 /\ r[1] = s[1] /\ r[2] = d /\ r[3] = c
  BY <1>0, Extended
<1> HIDE DEF r
<1>2. r # <<>> /\ s # <<>>
  BY <1>0, <1>1, Empty
<1>3. StackOK(r, n)
  BY <1>1, <1>2 DEF StackOK, Waits, Does
<1> QED
  BY <1>1, <1>2, <1>3 DEF r

LEMMA InnerReturns ==
  ASSUME NEW s, NEW n \in Nat, StackOK(s, n), Len(s) \in 2..3
  PROVE  LET r == Front(s) IN
         StackOK(r, n) /\ Len(r) = Len(s) - 1 /\ r[1] = s[1] /\ (Len(s) = 3 => r[2] = s[2]) /\ r # <<>>
<1> DEFINE r == Front(s)
<1>a. s \in Seq(Frame)
  BY DEF StackOK
<1>0. s \in Seq(Frame) /\ s # <<>>
  <2>1. s = <<>> <=> Len(s) = 0
    BY <1>a, Empty
  <2> QED
    BY <1>a, <2>1
<1>1. r \in Seq(Frame) /\ Len(r) = Len(s) - 1 /\ \A k \in 1..(Len(s) - 1) : r[k] = s[k]
  BY <1>0, Popped
<1> HIDE DEF r
<1>2. r # <<>> /\ s # <<>> /\ r[1] = s[1] /\ (Len(s) = 3 => r[2] = s[2])
  BY <1>0, <1>1, Empty
<1>3. StackOK(r, n)
  BY <1>1, <1>2 DEF StackOK, Waits, Does
<1> QED
  BY <1>1, <1>2, <1>3 DEF r

LEMMA WithGoesOn ==
  ASSUME NEW s, NEW n \in Nat, StackOK(s, n), Len(s) = 3, NEW c \in Frame, WithOK(c, n)
  PROVE  LET r == Append(Front(s), c) IN
         StackOK(r, n) /\ Len(r) = 3 /\ r[1] = s[1] /\ r[2] = s[2] /\ r # <<>>
<1> DEFINE r == Append(Front(s), c)
<1>a. s \in Seq(Frame)
  BY DEF StackOK
<1>0. s \in Seq(Frame) /\ s # <<>>
  <2>1. s = <<>> <=> Len(s) = 0
    BY <1>a, Empty
  <2> QED
    BY <1>a, <2>1
<1>1. r \in Seq(Frame) /\ Len(r) = 3 /\ r[1] = s[1] /\ r[2] = s[2] /\ r[3] = c
  <2>1. /\ r \in Seq(Frame) /\ Len(r) = Len(s) /\ r[Len(s)] = c
        /\ \A k \in 1..(Len(s) - 1) : r[k] = s[k]
    BY <1>0, Replaced
  <2> QED
    BY <2>1
<1> HIDE DEF r
<1>2. r # <<>> /\ s # <<>>
  BY <1>0, <1>1, Empty
<1>3. StackOK(r, n)
  BY <1>1, <1>2 DEF StackOK, Waits, Does
<1> QED
  BY <1>1, <1>2, <1>3 DEF r

-----------------------------------------------------------------------------
(* Lemmas about mutexes *)

LEMMA LockFree ==
  ASSUME NEW m \in Mutex, NEW t \in Threads, CanLock(m, t), m.owner # t
  PROVE  /\ m = Free /\ m.owner = None
         /\ Locked(m, t) \in Mutex /\ Locked(m, t).owner = t
BY ThreadsAssumption DEF Mutex, Free, CanLock, Locked

LEMMA UnlockHeld ==
  ASSUME NEW m \in Mutex, NEW t \in Threads, m.owner = t
  PROVE  /\ Unlocked(m) = Free /\ Free \in Mutex
         /\ Unlocked(m).owner = None
BY ThreadsAssumption DEF Mutex, Free, Unlocked

-----------------------------------------------------------------------------
(* The first entry that matches *)

\* The least of the numbers, by their segments, which are ordered by inclusion.
LEMMA MinOf ==
  ASSUME NEW I, I \subseteq Nat, I # {}
  PROVE  Min(I) \in I
<1> DEFINE T == {1..i : i \in I}
<1>1. IsWellFoundedOn(StrictSubsetOrdering(Nat), FiniteSubsetsOf(Nat))
  BY FS_StrictSubsetOrderingWellFounded
<1>2. T \subseteq FiniteSubsetsOf(Nat) /\ T # {}
  <2>1. \A i \in Nat : IsFiniteSet(1..i) /\ 1..i \subseteq Nat
    BY FS_Interval
  <2> QED
    BY <2>1 DEF FiniteSubsetsOf
<1>3. PICK x \in T : \A y \in T : <<y, x>> \notin StrictSubsetOrdering(Nat)
  BY <1>1, <1>2, WFMin
<1>4. PICK i \in I : x = 1..i
  OBVIOUS
<1>5. \A j \in I : i <= j
  <2> SUFFICES ASSUME NEW j \in I, j < i PROVE FALSE
    OBVIOUS
  <2>1. 1..j \in T /\ 1..j \subseteq 1..i /\ i \in 1..i /\ i \notin 1..j
    OBVIOUS
  <2>2. <<1..j, x>> \in StrictSubsetOrdering(Nat)
    BY <1>4, <2>1 DEF StrictSubsetOrdering
  <2> QED
    BY <1>3, <2>1, <2>2
<1> QED
  BY <1>5 DEF Min

LEMMA FoundEntry ==
  ASSUME scripts \in Seq(ListEntry), NEW key
  PROVE  \/ Find(key) = 0 /\ \A j \in DOMAIN scripts : ~Matches(scripts[j], key)
         \/ Find(key) \in DOMAIN scripts /\ Find(key) # 0 /\ Matches(scripts[Find(key)], key)
<1> DEFINE found == {i \in DOMAIN scripts : Matches(scripts[i], key)}
<1>1. DOMAIN scripts \subseteq Nat \ {0}
  OBVIOUS
<1>2. found # {} => Min(found) \in found
  BY <1>1, MinOf
<1> QED
  BY <1>1, <1>2 DEF Find

-----------------------------------------------------------------------------
(* Steps that change nothing of what the invariant is about *)

\* A call that neither holds a mutex nor deletes anything.
Passive(s) ==
  \/ s = <<>>
  \/ /\ Len(s) = 1
     /\ \/ s[1].op \in {"launcher", "with", "control"}
        \/ s[1].op = "stop" /\ s[1].at \in {"find", "lock"}
        \/ s[1].op = "stopAll" /\ s[1].at = "begin"

LEMMA PassiveSame ==
  ASSUME NEW s, NEW r, Passive(s), Passive(r)
  PROVE  SameView(s, r)
<1>1. Len(<<>>) = 0
  OBVIOUS
<1> QED
  BY <1>1 DEF Passive, SameView, SameHold, HoldsGlobal, Launches, Stops, Forgets, Deletes, GoneTo, IsLaunch, Does

LEMMA InnerSame ==
  ASSUME NEW s, NEW r, s # <<>>, r # <<>>, Len(s) >= 2, Len(r) >= 2, r[1] = s[1],
         r[2].key = s[2].key
  PROVE  SameView(s, r)
BY DEF SameView, SameHold, HoldsGlobal, Launches, Stops, Forgets, Deletes, GoneTo, IsLaunch, Does

LEMMA SameSame ==
  ASSUME NEW s
  PROVE  SameView(s, s)
BY DEF SameView, SameHold

LEMMA IDs == ScriptIDs \subseteq Nat /\ ScriptIDs = 1..(Len(Initial) + MaxCalls) /\ Len(Initial) \in Nat /\ MaxCalls \in Nat
BY PathsAssumption, BoundsAssumption DEF ScriptIDs

LEMMA Counts ==
  /\ IsFiniteSet(Used) /\ Cardinality(Used) \in Nat
  /\ IsFiniteSet(Launching) /\ Cardinality(Launching) \in Nat
<1>1. IsFiniteSet(ScriptIDs)
  BY IDs, FS_Interval
<1>2. IsFiniteSet(Detached \union {UI})
  BY ThreadsAssumption, FS_AddElement
<1>3. IsFiniteSet(Threads)
  BY <1>1, <1>2, FS_Union DEF Threads
<1>4. IsFiniteSet(Used) /\ IsFiniteSet(Launching)
  BY <1>1, <1>3, FS_Subset DEF Used, Launching
<1> QED
  BY <1>4, FS_CardinalityType

LEMMA HoldKept ==
  ASSUME IInv, TypeInv', scripts' = scripts, globalMutex' = globalMutex,
         \A n \in ScriptIDs :
           plugins'[n].path = plugins[n].path /\ plugins'[n].deleted = plugins[n].deleted,
         \A t \in Threads : SameHold(stack[t], stack'[t]),
         IDsInv'
  PROVE  IInv'
<1> USE DEF SameHold
<1>0. DOMAIN scripts \subseteq Nat /\ Len(scripts) \in Nat /\ ScriptIDs \subseteq Nat
  BY IDs DEF IInv, TypeInv
<1>1. MutexInv'
  BY <1>0 DEF IInv, MutexInv, HoldsEntry
<1>2. EntriesInv'
  <2>1. \A i \in DOMAIN scripts : scripts[i].script # None => scripts[i].script \in ScriptIDs
    <3>1. \A i \in DOMAIN scripts : scripts[i] \in ListEntry
      BY DEF IInv, TypeInv
    <3> QED
      BY <3>1 DEF ListEntry
  <2>2. \A i \in DOMAIN scripts : Forgotten(i)' <=> Forgotten(i)
    BY <1>0 DEF Forgotten
  <2>3. \A i \in DOMAIN scripts : EntryInv(i)'
    BY <2>1, <2>2 DEF IInv, EntriesInv, EntryInv
  <2> QED
    BY <1>0, <2>3 DEF IInv, EntriesInv
<1>3. DeletionInv'
  BY <1>0 DEF IInv, DeletionInv
<1>4. ExistInv'
  BY <1>0 DEF IInv, ExistInv
<1>5. StopAllInv'
  BY <1>0 DEF IInv, StopAllInv
<1> QED
  BY <1>1, <1>2, <1>3, <1>4, <1>5 DEF IInv

LEMMA QuietKept ==
  ASSUME IInv, TypeInv', scripts' = scripts, globalMutex' = globalMutex,
         \A n \in ScriptIDs :
           plugins'[n].path = plugins[n].path /\ plugins'[n].deleted = plugins[n].deleted,
         \A t \in Threads : SameView(stack[t], stack'[t]),
         calls' >= calls
  PROVE  IInv'
<1>1. Used' = Used
  BY DEF Used
<1>2. Launching' = Launching
  BY DEF Launching, SameView
<1>3. Cardinality(Used') + Cardinality(Launching') <= Len(Initial) + calls
  BY <1>1, <1>2 DEF IInv, IDsInv
<1>4. calls \in Int /\ calls' \in Int /\ calls' >= calls
  BY IDs DEF IInv, TypeInv
<1>5. Cardinality(Used') + Cardinality(Launching') <= Len(Initial) + calls'
  BY <1>1, <1>2, <1>3, <1>4, IDs, Counts
<1>6. IDsInv'
  BY <1>1, <1>5 DEF IInv, IDsInv
<1> QED
  BY <1>6, HoldKept DEF SameView

LEMMA TypeKept ==
  ASSUME TypeInv, NEW t \in Threads, NEW r, stack' = [stack EXCEPT ![t] = r],
         scripts' \in Seq(ListEntry), Len(scripts') >= Len(scripts), StackOK(r, Len(scripts')),
         buffer' \in Nat, globalMutex' \in Mutex, plugins' \in [ScriptIDs -> Plugin],
         calls' \in 0..MaxCalls, ub' \in {"none", "vector", "launcher"}, usage' = usage
  PROVE  /\ TypeInv'
         /\ stack'[t] = r
         /\ \A u \in Threads : u # t => stack'[u] = stack[u]
<1>1. DOMAIN stack' = Threads /\ stack'[t] = r /\ \A u \in Threads : u # t => stack'[u] = stack[u]
  BY DEF TypeInv
<1>2. \A u \in Threads : StackOK(stack'[u], Len(scripts'))
  <2> SUFFICES ASSUME NEW u \in Threads, u # t PROVE StackOK(stack[u], Len(scripts'))
    BY <1>1
  <2> QED
    BY Grown DEF TypeInv
<1> QED
  BY <1>1, <1>2 DEF TypeInv

\* The quiet step of a thread's call.
LEMMA QuietStep ==
  ASSUME IInv, NEW t \in Threads, NEW r, stack' = [stack EXCEPT ![t] = r],
         StackOK(r, Len(scripts)), SameView(stack[t], r),
         scripts' = scripts, buffer' = buffer, globalMutex' = globalMutex,
         plugins' \in [ScriptIDs -> Plugin],
         \A n \in ScriptIDs :
           plugins'[n].path = plugins[n].path /\ plugins'[n].deleted = plugins[n].deleted,
         calls' \in 0..MaxCalls, calls' >= calls, usage' = usage,
         ub' \in {"none", "vector", "launcher"}
  PROVE  IInv'
<1>1. scripts \in Seq(ListEntry) /\ Len(scripts) >= Len(scripts) /\ TypeInv /\ buffer \in Nat
      /\ globalMutex \in Mutex
  BY DEF IInv, TypeInv
<1>2. /\ TypeInv' /\ stack'[t] = r
      /\ \A u \in Threads : u # t => stack'[u] = stack[u]
  BY <1>1, TypeKept
<1>3. \A u \in Threads : SameView(stack[u], stack'[u])
  BY <1>2, SameSame
<1> QED
  BY <1>2, <1>3, QuietKept

LEMMA WithMoves ==
  ASSUME NEW s, NEW n \in Nat, StackOK(s, n), s # <<>>, Last(s).op = "with", NEW r,
         \/ r = Front(s)
         \/ \E c \in Frame : WithOK(c, n) /\ r = Append(Front(s), c)
  PROVE  StackOK(r, n) /\ SameView(s, r)
<1>0. s \in Seq(Frame)
  BY DEF StackOK
<1>1. CASE Len(s) = 1
  <2>1. s[1].op = "with"
    BY <1>1, TopCall
  <2>2. Passive(s)
    BY <1>1, <2>1 DEF Passive
  <2>3. CASE r = Front(s)
    <3>1. r = <<>> /\ StackOK(r, n)
      BY <1>0, <1>1, <2>3, OuterReturns
    <3> QED
      BY <2>2, <3>1, PassiveSame DEF Passive
  <2>4. ASSUME NEW c \in Frame, WithOK(c, n), r = Append(Front(s), c)
        PROVE  StackOK(r, n) /\ SameView(s, r)
    <3>1. OuterOK(c, n) /\ c.op = "with"
      BY <2>4 DEF OuterOK, WithOK
    <3>2. StackOK(r, n) /\ Len(r) = 1 /\ r[1] = c
      BY <1>0, <1>1, <2>4, <3>1, OuterGoesOn
    <3> QED
      BY <2>2, <3>1, <3>2, PassiveSame DEF Passive
  <2> QED
    BY <2>3, <2>4
<1>2. CASE Len(s) = 3
  <2>1. CASE r = Front(s)
    <3>1. Len(s) \in 2..3
      BY <1>2
    <3>2. StackOK(r, n) /\ Len(r) = Len(s) - 1 /\ r[1] = s[1] /\ r[2] = s[2] /\ r # <<>>
      BY <1>2, <2>1, <3>1, InnerReturns
    <3>3. Len(s) >= 2 /\ Len(r) >= 2 /\ r[2].key = s[2].key
      BY <1>2, <3>2
    <3> QED
      BY <3>2, <3>3, InnerSame
  <2>2. ASSUME NEW c \in Frame, WithOK(c, n), r = Append(Front(s), c)
        PROVE  StackOK(r, n) /\ SameView(s, r)
    <3>1. StackOK(r, n) /\ Len(r) = 3 /\ r[1] = s[1] /\ r[2] = s[2] /\ r # <<>>
      BY <1>2, <2>2, WithGoesOn
    <3> QED
      BY <1>2, <3>1, InnerSame
  <2> QED
    BY <2>1, <2>2
<1> QED
  BY <1>1, <1>2, TopCall

\* A call that goes on to wait for the mutex of an entry it has found.
LEMMA FoundCall ==
  ASSUME TypeInv, NEW c \in Frame, NEW i \in DOMAIN scripts
  PROVE  LET d == [c EXCEPT !.at = "lock", !.ref = Ref(i)] IN
         /\ d \in Frame /\ d.op = c.op /\ d.at = "lock" /\ d.key = c.key
         /\ HasRef(d, Len(scripts)) /\ d.ref.i = i
<1>1. buffer \in Nat /\ DOMAIN scripts = 1..Len(scripts) /\ Len(scripts) \in Nat
  BY DEF TypeInv
<1>2. Ref(i) \in [i : 1..Len(scripts), buffer : Nat] /\ Ref(i).i = i
  BY <1>1 DEF Ref
<1>3. Ref(i) \in [i : Nat, buffer : Nat]
  BY <1>1, <1>2
<1> QED
  BY <1>2, <1>3 DEF Frame, HasRef

Found(c, i) == [c EXCEPT !.at = "lock", !.ref = Ref(i)]

LEMMA FoundIs ==
  ASSUME TypeInv, NEW c \in Frame, NEW i \in DOMAIN scripts
  PROVE  /\ Found(c, i) \in Frame /\ Found(c, i).op = c.op /\ Found(c, i).key = c.key
         /\ Found(c, i).at = "lock" /\ Found(c, i).ref.i = i
<1>1. Ref(i) \in [i : Nat, buffer : Nat] /\ Ref(i).i = i
  BY DEF TypeInv, Ref
<1> QED
  BY <1>1 DEF Frame, Found

\* What a step of a thread's call does not touch.
LEMMA Parts ==
  ASSUME IInv, NEW t \in Threads
  PROVE  /\ TypeInv
         /\ StackOK(stack[t], Len(scripts)) /\ stack[t] \in Seq(Frame)
         /\ scripts \in Seq(ListEntry) /\ Len(scripts) \in Nat
         /\ DOMAIN scripts = 1..Len(scripts) /\ \A i \in DOMAIN scripts : scripts[i] \in ListEntry
         /\ buffer \in Nat /\ globalMutex \in Mutex /\ plugins \in [ScriptIDs -> Plugin]
         /\ calls \in 0..MaxCalls /\ calls >= calls
         /\ ub \in {"none", "vector", "launcher"}
<1>1. TypeInv /\ StackOK(stack[t], Len(scripts))
  BY DEF IInv, TypeInv
<1>2. scripts \in Seq(ListEntry) /\ calls \in 0..MaxCalls /\ stack[t] \in Seq(Frame)
  BY <1>1 DEF TypeInv, StackOK
<1>3. /\ Len(scripts) \in Nat /\ DOMAIN scripts = 1..Len(scripts)
      /\ \A i \in DOMAIN scripts : scripts[i] \in ListEntry
  BY <1>2
<1>4. calls >= calls
  BY <1>2, IDs
<1> QED
  BY <1>1, <1>2, <1>3, <1>4 DEF TypeInv

LEMMA WithFindKept ==
  ASSUME IInv, NEW t \in Threads, WithFind(t)
  PROVE  IInv'
<1> USE Parts
<1> DEFINE s == stack[t]
           i == Find(Top(t).key)
           c == [Top(t) EXCEPT !.at = "lock", !.ref = Ref(i)]
<1>1. s # <<>> /\ Last(s).op = "with" /\ Last(s) = Top(t)
  BY DEF WithFind, At, Top
<1>2. Top(t) \in Frame /\ WithOK(Top(t), Len(scripts))
  BY <1>1, TopCall
<1>3. PICK r : /\ stack' = [stack EXCEPT ![t] = r]
               /\ \/ r = Front(s)
                  \/ i # 0 /\ r = Append(Front(s), c)
  BY DEF WithFind, Return, GoOn
<1>4. i # 0 => c \in Frame /\ WithOK(c, Len(scripts))
  <2> SUFFICES ASSUME i # 0 PROVE c \in Frame /\ WithOK(c, Len(scripts))
    OBVIOUS
  <2>1. i \in DOMAIN scripts
    BY FoundEntry
  <2> QED
    BY ZenonT(60), <1>2, <2>1, FoundCall DEF WithOK
<1> HIDE DEF c, i
<1>5. StackOK(r, Len(scripts)) /\ SameView(s, r)
  BY <1>1, <1>3, <1>4, WithMoves
<1> QED
  BY <1>3, <1>5, QuietStep DEF WithFind, listVars

LEMMA DeletingIs ==
  ASSUME TypeInv, NEW t \in Threads, NEW n
  PROVE  IsDeleting(t, n) <=> Deletes(stack[t], n)
<1> DEFINE s == stack[t]
<1>1. StackOK(s, Len(scripts)) /\ s \in Seq(Frame)
  BY DEF TypeInv, StackOK
<1>2. DOMAIN s = 1..Len(s) /\ Len(s) \in Nat
  BY <1>1
<1>3. Len(s) \in 0..3
  <2>1. Len(s) <= 3
    BY <1>1 DEF StackOK
  <2>2. \A k \in Nat : k <= 3 => k \in 0..3
    OBVIOUS
  <2> QED
    BY ONLY <1>2, <2>1, <2>2
<1>4. Len(s) >= 1 => s[1].op # "delete"
  BY <1>1 DEF StackOK, OuterOK, WithOK
<1>5. Len(s) = 3 => s[3].op # "delete"
  BY <1>1 DEF StackOK, WithOK
<1>6. Len(s) >= 2 => s[2].op = "delete"
  BY <1>1 DEF StackOK, DeleteOK
<1> HIDE DEF s
<1>7. (\E k \in DOMAIN s : s[k].op = "delete" /\ s[k].key = n) <=> Deletes(s, n)
  BY <1>2, <1>3, <1>4, <1>5, <1>6 DEF Deletes
<1> QED
  BY <1>7 DEF IsDeleting, s

\* The mutex of an entry keeps those out who would find its script deleted, and the look
\* at the entry under its mutex those who have looked for another one.
LEMMA WithSafe ==
  ASSUME IInv, NEW t \in Threads, At(t, "with", "lock"), CanLock(Entry(t).mutex, t),
         RunsBlock(Entry(t), Top(t).key)
  PROVE  IsUsable(Entry(t), Top(t).key)
<1> DEFINE s == stack[t]
           i == Top(t).ref.i
           e == scripts[i]
           n == e.script
<1> USE Parts
<1>1. s # <<>> /\ Last(s).op = "with" /\ Last(s).at = "lock" /\ Last(s) = Top(t)
  BY DEF At, Top
<1>2. WithOK(Top(t), Len(scripts)) /\ (Len(s) = 1 => s[1] = Top(t))
  BY <1>1, TopCall
<1>3. i \in DOMAIN scripts /\ Entry(t) = e
  BY <1>1, <1>2 DEF WithOK, HasRef, Entry
<1>4. n # None /\ Matches(e, Top(t).key)
  BY <1>3 DEF RunsBlock
<1>5. e.scriptID = n /\ e.path = plugins[n].path
  BY <1>3, <1>4 DEF IInv, EntriesInv, EntryInv
<1>6. ~plugins[n].deleted
  <2> SUFFICES ASSUME plugins[n].deleted PROVE FALSE
    OBVIOUS
  <2>1. PICK u \in Threads : Forgets(stack[u], i)
    BY <1>3, <1>4 DEF IInv, EntriesInv, EntryInv, Forgotten
  <2>2. e.mutex.owner = u
    BY <1>3, <2>1 DEF IInv, MutexInv, HoldsEntry, Forgets
  <2>3. u = t
    BY <1>3, <2>2, ThreadsAssumption DEF CanLock
  <2>4. Len(s) = 1 /\ s[1].op \in {"stop", "stopAll"}
    BY <2>1, <2>3 DEF Forgets, Stops, Does
  <2> QED
    BY <1>1, <1>2, <2>4
<1> QED
  BY <1>3, <1>4, <1>5, <1>6 DEF IsUsable, Matches

LEMMA WithBlockKept ==
  ASSUME IInv, NEW t \in Threads, WithBlock(t)
  PROVE  IInv'
<1> USE Parts
<1> DEFINE s == stack[t]
<1>1. s # <<>> /\ Last(s).op = "with"
  BY DEF WithBlock, At, Top
<1>2. StackOK(Front(s), Len(scripts)) /\ SameView(s, Front(s))
  BY <1>1, WithMoves
<1>3. ub' = ub
  BY WithSafe DEF WithBlock
<1> QED
  BY <1>2, <1>3, QuietStep DEF WithBlock, Return, listVars

LEMMA UseAfterMoveKept ==
  ASSUME IInv, NEW t \in Threads, UseAfterMove(t)
  PROVE  IInv'
<1> USE Parts
<1>1. stack' = stack
  BY DEF UseAfterMove
<1>2. \A u \in Threads : SameView(stack[u], stack'[u])
  BY <1>1, SameSame
<1>3. TypeInv'
  BY <1>1 DEF UseAfterMove, listVars, TypeInv
<1> QED
  BY <1>2, <1>3, QuietKept DEF UseAfterMove, listVars

LEMMA StopFindKept ==
  ASSUME IInv, NEW t \in Threads, StopFind(t)
  PROVE  IInv'
<1> USE Parts
<1> DEFINE s == stack[t]
           i == Find(Top(t).key)
           c == [Top(t) EXCEPT !.at = "lock", !.ref = Ref(i)]
<1>1. s # <<>> /\ Last(s).op = "stop" /\ Last(s).at = "find" /\ Last(s) = Top(t)
  BY DEF StopFind, At, Top
<1>2. Top(t) \in Frame /\ Len(s) = 1 /\ s[1] = Top(t)
  BY <1>1, TopCall
<1>3. Passive(s)
  BY <1>1, <1>2 DEF Passive
<1>4. CASE i = 0
  <2>1. Front(s) = <<>> /\ StackOK(<<>>, Len(scripts))
    BY <1>2, OuterReturns
  <2>2. SameView(s, <<>>)
    BY <1>3, PassiveSame DEF Passive
  <2>3. stack' = [stack EXCEPT ![t] = <<>>]
    BY <1>4, <2>1 DEF StopFind, Return
  <2> QED
    BY <2>1, <2>2, <2>3, QuietStep DEF StopFind, listVars
<1>5. CASE i # 0
  <2>1. i \in DOMAIN scripts
    BY <1>5, FoundEntry
  <2> HIDE DEF i
  <2>2. c \in Frame /\ c.op = "stop" /\ c.at = "lock" /\ HasRef(c, Len(scripts))
    <3>1. Top(t).op = "stop"
      BY <1>1
    <3> QED
      BY <1>2, <2>1, <3>1, FoundCall
  <2> DEFINE r == Append(Front(s), c)
  <2>3. stack' = [stack EXCEPT ![t] = r]
    BY <1>5 DEF StopFind, GoOn, i
  <2> HIDE DEF c
  <2>4. OuterOK(c, Len(scripts))
    BY <2>2 DEF OuterOK
  <2>5. StackOK(r, Len(scripts)) /\ Len(r) = 1 /\ r[1] = c
    BY <1>2, <2>2, <2>4, OuterGoesOn
  <2> HIDE DEF r
  <2>6. SameView(s, r)
    BY <1>3, <2>2, <2>5, PassiveSame DEF Passive
  <2> QED
    BY <2>3, <2>5, <2>6, QuietStep DEF StopFind, listVars
<1> QED
  BY <1>4, <1>5

LEMMA ControlSentKept ==
  ASSUME IInv, NEW t \in Threads, ControlSent(t)
  PROVE  IInv'
<1> USE Parts
<1> DEFINE s == stack[t]
<1>1. s # <<>> /\ Last(s).op = "control"
  BY DEF ControlSent, At, Top
<1>2. Len(s) = 1 /\ s[1].op = "control"
  BY <1>1, TopCall
<1>3. Front(s) = <<>> /\ StackOK(<<>>, Len(scripts))
  BY <1>2, OuterReturns
<1>4. SameView(s, <<>>)
  BY <1>2, PassiveSame DEF Passive
<1>5. stack' = [stack EXCEPT ![t] = <<>>]
  BY <1>3 DEF ControlSent, Return
<1> QED
  BY <1>3, <1>4, <1>5, QuietStep DEF ControlSent, listVars

\* The steps of the threads of a script.
LEMMA ThreadsKept ==
  ASSUME IInv, NEW n \in ScriptIDs,
         \/ ThreadStarts(n)
         \/ LoopBegins(n)
         \/ ScriptFails(n)
         \/ ThreadEnds(n)
         \/ CallbackEnds(n)
         \/ BackgroundStarts(n)
         \/ BackgroundEnds(n)
  PROVE  IInv'
<1> USE DEF ThreadStarts, LoopBegins, ScriptFails, ThreadEnds, CallbackEnds, BackgroundStarts,
            BackgroundEnds
<1>1. UNCHANGED <<scripts, buffer, globalMutex, stack, calls, ub, usage>>
  BY DEF listVars
<1>2. plugins \in [ScriptIDs -> Plugin]
  BY DEF IInv, TypeInv
<1>3. /\ plugins' \in [ScriptIDs -> Plugin]
      /\ \A m \in ScriptIDs :
           plugins'[m].path = plugins[m].path /\ plugins'[m].deleted = plugins[m].deleted
  BY <1>2 DEF Plugin
<1>4. TypeInv'
  BY <1>1, <1>3 DEF IInv, TypeInv
<1>5. calls' >= calls
  BY <1>1, IDs DEF IInv, TypeInv
<1> QED
  BY <1>1, <1>3, <1>4, <1>5, SameSame, QuietKept

LEMMA LauncherKept ==
  ASSUME IInv, NEW t \in Threads, LauncherStart(t)
  PROVE  IInv'
<1> USE Parts
<1> DEFINE s == stack[t]
<1>1. s # <<>> /\ Last(s).op = "launcher" /\ Last(s) = Top(t)
  BY DEF LauncherStart, At, Top
<1>2. Len(s) = 1 /\ s[1].op = "launcher"
  BY <1>1, TopCall
<1>3. Front(s) = <<>> /\ StackOK(<<>>, Len(scripts))
  BY <1>2, OuterReturns
<1>4. SameView(s, <<>>)
  BY <1>2, PassiveSame DEF Passive
<1>5. stack' = [stack EXCEPT ![t] = <<>>]
  BY <1>3 DEF LauncherStart, Return
<1>6. /\ plugins' \in [ScriptIDs -> Plugin]
      /\ \A m \in ScriptIDs :
           plugins'[m].path = plugins[m].path /\ plugins'[m].deleted = plugins[m].deleted
  <2>1. plugins' = plugins \/ plugins' = [plugins EXCEPT ![Top(t).key].thread = "starting"]
    BY DEF LauncherStart
  <2> QED
    BY SMTT(30), <2>1 DEF Plugin
<1>7. ub' \in {"none", "vector", "launcher"}
  BY DEF LauncherStart
<1> QED
  BY <1>3, <1>4, <1>5, <1>6, <1>7, QuietStep DEF LauncherStart, listVars

\* A deletion, until the object is freed.
LEMMA DeleteMoves ==
  ASSUME IInv, NEW t \in Threads, NEW at, At(t, "delete", at)
  PROVE  /\ StackOK(stack[t], Len(scripts)) /\ Len(stack[t]) = 2 /\ stack[t] # <<>>
         /\ Top(t) \in Frame /\ Top(t) = stack[t][2] /\ DeleteOK(Top(t))
         /\ \A place \in {"join", "joinBackground", "free"} :
              LET d == [Top(t) EXCEPT !.at = place] IN
              d \in Frame /\ DeleteOK(d) /\ d.key = Top(t).key /\ d.at = place
<1> USE Parts
<1> DEFINE s == stack[t]
<1>1. s # <<>> /\ Last(s).op = "delete" /\ Last(s) = Top(t)
  BY DEF At, Top
<1>2. Len(s) = 2 /\ s[2] = Top(t) /\ DeleteOK(Top(t)) /\ Top(t) \in Frame
  BY <1>1, TopCall
<1> QED
  BY <1>1, <1>2 DEF DeleteOK, Frame

LEMMA DeleteGoesOnKept ==
  ASSUME IInv, NEW t \in Threads, NEW at, At(t, "delete", at),
         NEW place \in {"join", "joinBackground", "free"},
         GoOn(t, [Top(t) EXCEPT !.at = place]),
         UNCHANGED <<listVars, globalMutex, calls, ub, usage>>,
         plugins' \in [ScriptIDs -> Plugin],
         \A m \in ScriptIDs :
           plugins'[m].path = plugins[m].path /\ plugins'[m].deleted = plugins[m].deleted
  PROVE  IInv'
<1> USE Parts
<1> DEFINE s == stack[t]
           d == [Top(t) EXCEPT !.at = place]
           r == Append(Front(s), d)
<1>1. /\ StackOK(s, Len(scripts)) /\ Len(s) = 2 /\ s # <<>> /\ Top(t) = s[2]
      /\ d \in Frame /\ DeleteOK(d) /\ d.key = Top(t).key
  BY ZenonT(60), DeleteMoves
<1>2. stack' = [stack EXCEPT ![t] = r]
  BY DEF GoOn
<1> HIDE DEF d
<1>3. StackOK(r, Len(scripts)) /\ Len(r) = 2 /\ r[1] = s[1] /\ r[2] = d /\ r # <<>>
  BY <1>1, DeleteGoesOn
<1> HIDE DEF r
<1>4. Len(s) >= 2 /\ Len(r) >= 2 /\ r[2].key = s[2].key
  BY <1>1, <1>3
<1>5. SameView(s, r)
  BY <1>1, <1>3, <1>4, InnerSame
<1> QED
  BY <1>2, <1>3, <1>5, QuietStep DEF listVars

LEMMA DeletionKept ==
  ASSUME IInv, NEW t \in Threads, DeleteStop(t) \/ DeleteJoin(t) \/ DeleteClose(t)
  PROVE  IInv'
<1> USE Parts
<1>1. CASE DeleteStop(t)
  <2>1. /\ plugins' \in [ScriptIDs -> Plugin]
        /\ \A m \in ScriptIDs :
             plugins'[m].path = plugins[m].path /\ plugins'[m].deleted = plugins[m].deleted
    <3> DEFINE n == Top(t).key
    <3>1. n \in ScriptIDs
      BY <1>1, DeleteMoves DEF DeleteStop, DeleteOK
    <3>2. plugins[n] \in Plugin /\ plugins' = [plugins EXCEPT ![n] = Stopped(plugins[n])]
      BY <1>1, <3>1 DEF DeleteStop
    <3> HIDE DEF n
    <3>3. /\ Stopped(plugins[n]) \in Plugin
          /\ Stopped(plugins[n]).path = plugins[n].path
          /\ Stopped(plugins[n]).deleted = plugins[n].deleted
      BY <3>2 DEF Stopped, Plugin
    <3> QED
      BY <3>1, <3>2, <3>3
  <2> QED
    BY <1>1, <2>1, DeleteGoesOnKept DEF DeleteStop
<1>2. CASE DeleteJoin(t)
  <2>1. /\ plugins' \in [ScriptIDs -> Plugin]
        /\ \A m \in ScriptIDs :
             plugins'[m].path = plugins[m].path /\ plugins'[m].deleted = plugins[m].deleted
    <3> DEFINE n == Top(t).key
               p == [plugins[n] EXCEPT !.backgroundThreadRunning = FALSE]
    <3>1. n \in ScriptIDs
      BY <1>2, DeleteMoves DEF DeleteJoin, DeleteOK
    <3>2. plugins[n] \in Plugin /\ plugins' = [plugins EXCEPT ![n] = p]
      BY <1>2, <3>1 DEF DeleteJoin
    <3> HIDE DEF n
    <3>3. p \in Plugin /\ p.path = plugins[n].path /\ p.deleted = plugins[n].deleted
      BY <3>2 DEF Plugin
    <3> HIDE DEF p
    <3> QED
      BY <3>1, <3>2, <3>3
  <2> QED
    BY <1>2, <2>1, DeleteGoesOnKept DEF DeleteJoin
<1>3. CASE DeleteClose(t) /\ GoOn(t, [Top(t) EXCEPT !.at = "free"])
  BY <1>3, DeleteGoesOnKept DEF DeleteClose
<1>4. CASE DeleteClose(t) /\ ~GoOn(t, [Top(t) EXCEPT !.at = "free"])
  <2> DEFINE s == stack[t]
             d == [Top(t) EXCEPT !.at = "free"]
             c == Call("with", "find", Top(t).key)
             r == Append(Front(s), d) \o <<c>>
  <2>1. /\ StackOK(s, Len(scripts)) /\ Len(s) = 2 /\ s # <<>> /\ Top(t) = s[2]
        /\ d \in Frame /\ DeleteOK(d) /\ d.key = Top(t).key /\ d.at = "free" /\ Top(t).key \in ScriptIDs
    BY <1>4, DeleteMoves DEF DeleteClose, DeleteOK
  <2>2. stack' = [stack EXCEPT ![t] = r]
    BY <1>4 DEF DeleteClose, GoOnAfter
  <2>3. c \in Frame /\ WithOK(c, Len(scripts))
    BY <2>1, IDs DEF Call, Frame, WithOK, Op
  <2> HIDE DEF d, c
  <2>4. StackOK(r, Len(scripts)) /\ Len(r) = 3 /\ r[1] = s[1] /\ r[2] = d /\ r # <<>>
    BY <2>1, <2>3, DeleteCalls
  <2> HIDE DEF r
  <2>5. Len(s) >= 2 /\ Len(r) >= 2 /\ r[2].key = s[2].key
    BY <2>1, <2>4
  <2>6. SameView(s, r)
    BY <2>1, <2>4, <2>5, InnerSame
  <2> QED
    BY <1>4, <2>2, <2>4, <2>6, QuietStep DEF DeleteClose, listVars
<1> QED
  BY <1>1, <1>2, <1>3, <1>4

-----------------------------------------------------------------------------
(* The beginnings of calls *)

LEMMA BeginKept ==
  ASSUME IInv, NEW t \in Threads, NEW use, NEW c \in Frame, Begins(t, use, c),
         OuterOK(c, Len(scripts)), c.op = "launch" => c.at = "find",
         c.op = "stop" => c.at = "find", c.op = "stopAll" => c.at = "begin"
  PROVE  IInv'
<1> USE Parts
<1>1. stack[t] = <<>> /\ stack' = [stack EXCEPT ![t] = <<c>>]
  BY DEF Begins, Idle
<1> DEFINE r == <<c>>
<1>2. r \in Seq(Frame) /\ Len(r) = 1 /\ r[1] = c /\ r # <<>>
  BY Single
<1>3. StackOK(r, Len(scripts))
  BY <1>2 DEF StackOK
<1>4. Passive(<<>>)
  BY DEF Passive
<1>5. calls' \in 0..MaxCalls /\ calls' = calls + 1 /\ calls' >= calls
  BY IDs DEF Begins
<1>6. CASE c.op # "launch"
  <2>1. Passive(r)
    BY <1>2, <1>6 DEF Passive, OuterOK, WithOK
  <2>2. SameView(stack[t], r)
    BY <1>1, <1>4, <2>1, PassiveSame
  <2> QED
    BY <1>1, <1>3, <1>5, <2>2, QuietStep DEF Begins, listVars
<1>7. CASE c.op = "launch"
  <2> HIDE DEF r
  <2>1. SameHold(<<>>, r)
    BY <1>2, <1>7 DEF SameHold, HoldsGlobal, Launches, Stops, Forgets, Deletes, GoneTo, Does
  <2>2. /\ TypeInv' /\ stack'[t] = r
        /\ \A u \in Threads : u # t => stack'[u] = stack[u]
    <3>1. Len(scripts') >= Len(scripts)
      BY DEF Begins, listVars
    <3>2. stack' = [stack EXCEPT ![t] = r]
      BY <1>1 DEF r
    <3> QED
      BY <1>3, <1>5, <3>1, <3>2, TypeKept DEF Begins, listVars
  <2>3. \A u \in Threads : SameHold(stack[u], stack'[u])
    BY <1>1, <2>1, <2>2, SameSame DEF SameView
  <2>4. Used' = Used
    BY DEF Begins, Used
  <2>5. Launching' = Launching \union {t} /\ t \notin Launching
    BY <1>1, <1>2, <1>7, <2>2 DEF Launching, IsLaunch
  <2>6. Cardinality(Launching') = Cardinality(Launching) + 1
    BY <2>5, Counts, FS_AddElement
  <2>7. IDsInv'
    BY SMTT(30), <1>5, <2>4, <2>6, Counts, IDs DEF IInv, IDsInv
  <2> QED
    BY <2>2, <2>3, <2>7, HoldKept DEF Begins, listVars
<1> QED
  BY <1>6, <1>7

LEMMA NextIDIs ==
  ASSUME IInv
  PROVE  NextID = Cardinality(Used) + 1 /\ Used = 1..(NextID - 1) /\ NextID \in Nat
         /\ 1..(NextID - 1) \subseteq ScriptIDs
<1>1. NextID = Cardinality(Used) + 1
  BY DEF NextID, Used
<1>2. Cardinality(Used) \in Nat
  BY Counts
<1>3. NextID \in Nat /\ NextID - 1 = Cardinality(Used)
  BY <1>1, <1>2
<1>4. Used = 1..Cardinality(Used) /\ Used \subseteq ScriptIDs
  BY DEF IInv, IDsInv, Used
<1> QED
  BY <1>1, <1>3, <1>4

LEMMA BeginsKept ==
  ASSUME IInv,
         \/ \E t \in Detached, path \in Paths : MenuBegins(t, path)
         \/ SimulatorBegins
         \/ \E n \in ScriptIDs : ScriptBegins(n)
  PROVE  IInv'
<1>1. ASSUME NEW t \in Threads, NEW path \in Paths, MenuBegins(t, path)
      PROVE  IInv'
  <2>1. /\ Call("launch", "find", path) \in Frame
        /\ OuterOK(Call("launch", "find", path), Len(scripts))
        /\ Call("stop", "find", path) \in Frame
        /\ OuterOK(Call("stop", "find", path), Len(scripts))
    BY DEF Call, Frame, Op, OuterOK
  <2> QED
    BY <1>1, <2>1, BeginKept DEF MenuBegins, Call
<1>2. ASSUME NEW t \in Threads, NEW key \in Paths \union ScriptIDs, NEW use,
             Begins(t, use, Call("with", "find", key))
      PROVE  IInv'
  <2>1. /\ Call("with", "find", key) \in Frame
        /\ OuterOK(Call("with", "find", key), Len(scripts))
    BY IDs DEF Call, Frame, Op, OuterOK, WithOK
  <2> QED
    BY <1>2, <2>1, BeginKept DEF Call
<1>3. CASE SimulatorBegins
  <2>1. UI \in Threads
    BY DEF Threads
  <2>2. CASE Begins(UI, "stopAll", Call("stopAll", "begin", None))
    <3>1. /\ Call("stopAll", "begin", None) \in Frame
          /\ OuterOK(Call("stopAll", "begin", None), Len(scripts))
      BY DEF Call, Frame, Op, OuterOK
    <3> QED
      BY <2>1, <2>2, <3>1, BeginKept DEF Call
  <2> QED
    BY <1>2, <1>3, <2>1, <2>2, NextIDIs DEF SimulatorBegins
<1>4. ASSUME NEW n \in ScriptIDs, ScriptBegins(n)
      PROVE  IInv'
  <2>1. n \in Threads
    BY DEF Threads
  <2>2. CASE Begins(n, "control", Call("control", "wait", None))
    <3>1. /\ Call("control", "wait", None) \in Frame
          /\ OuterOK(Call("control", "wait", None), Len(scripts))
      BY DEF Call, Frame, Op, OuterOK
    <3> QED
      BY <2>1, <2>2, <3>1, BeginKept DEF Call
  <2> QED
    BY <1>1, <1>2, <1>4, <2>1, <2>2 DEF ScriptBegins
<1>5. Detached \subseteq Threads
  BY DEF Threads
<1> QED
  BY <1>1, <1>3, <1>4, <1>5

-----------------------------------------------------------------------------
(* The end of a deletion *)

LEMMA StopsOne ==
  ASSUME NEW s, NEW i, NEW j, Stops(s, i), Stops(s, j)
  PROVE  i = j
BY DEF Stops, Does

LEMMA DeleteFreeKept ==
  ASSUME IInv, NEW t \in Threads, DeleteFree(t)
  PROVE  IInv'
<1> USE Parts
<1> DEFINE s == stack[t]
           r == Front(s)
           n == Top(t).key
<1>1. /\ StackOK(s, Len(scripts)) /\ Len(s) = 2 /\ s # <<>>
      /\ s[2].key = n /\ n \in ScriptIDs
  BY DeleteMoves DEF DeleteFree, DeleteOK
<1>2. StackOK(r, Len(scripts)) /\ Len(r) = 1 /\ r[1] = s[1] /\ r # <<>>
  <2>1. Len(s) \in 2..3
    BY <1>1
  <2>2. StackOK(r, Len(scripts)) /\ Len(r) = Len(s) - 1 /\ r[1] = s[1] /\ r # <<>>
    BY <1>1, <2>1, InnerReturns
  <2> QED
    BY <1>1, <2>2
<1>3. /\ plugins' \in [ScriptIDs -> Plugin]
      /\ plugins'[n].path = plugins[n].path /\ plugins'[n].deleted = TRUE
      /\ \A m \in ScriptIDs : m # n => plugins'[m] = plugins[m]
  <2>1. plugins[n] \in Plugin /\ plugins' = [plugins EXCEPT ![n] = Freed(plugins[n])]
    BY <1>1 DEF DeleteFree
  <2> HIDE DEF n
  <2>2. /\ Freed(plugins[n]) \in Plugin /\ Freed(plugins[n]).path = plugins[n].path
        /\ Freed(plugins[n]).deleted = TRUE
    BY <2>1 DEF Freed, NoPlugin, NewPlugin, Plugin
  <2> QED
    BY <1>1, <2>1, <2>2
<1>4. /\ TypeInv' /\ stack'[t] = r
      /\ \A u \in Threads : u # t => stack'[u] = stack[u]
  <2>1. Len(scripts') >= Len(scripts)
    BY DEF DeleteFree, listVars
  <2>2. stack' = [stack EXCEPT ![t] = r]
    BY DEF DeleteFree, Return
  <2> HIDE DEF r
  <2> QED
    BY <1>2, <1>3, <2>1, <2>2, TypeKept DEF DeleteFree, listVars
<1> HIDE DEF r, n
<1>5. scripts' = scripts /\ globalMutex' = globalMutex /\ calls' = calls
  BY DEF DeleteFree, listVars
<1>6. /\ HoldsGlobal(s) <=> HoldsGlobal(r)
      /\ IsLaunch(s) <=> IsLaunch(r)
      /\ \A i \in Nat :
           /\ Launches(s, i) <=> Launches(r, i)
           /\ Stops(s, i) <=> Stops(r, i)
           /\ ~Forgets(s, i)
           /\ Forgets(r, i) <=> Stops(s, i)
           /\ Deletes(s, i) <=> i = n
           /\ ~Deletes(r, i)
           /\ GoneTo(s, i) <=> GoneTo(r, i)
  BY <1>1, <1>2 DEF HoldsGlobal, Launches, Stops, Forgets, Deletes, GoneTo, IsLaunch, Does
<1>7. DOMAIN scripts \subseteq Nat /\ Len(scripts) \in Nat /\ ScriptIDs \subseteq Nat
  BY IDs
<1>8. MutexInv'
  BY <1>4, <1>5, <1>6, <1>7 DEF IInv, MutexInv, HoldsEntry
<1>9. \A u \in Threads : Deletes(stack[u], n) => u = t
  BY <1>1, <1>6, <1>7 DEF IInv, DeletionInv
<1>10. EntriesInv'
  <2>1. \A i \in DOMAIN scripts : scripts[i].script # None => scripts[i].script \in ScriptIDs
    BY DEF ListEntry
  <2>2. \A i \in DOMAIN scripts : Forgotten(i)' <=> Forgotten(i) \/ Stops(s, i)
    BY <1>4, <1>6, <1>7 DEF Forgotten
  <2>3. ASSUME NEW i \in DOMAIN scripts
        PROVE  scripts[i].script = n <=> Stops(s, i) /\ scripts[i].script # None
    <3>1. CASE \E k \in DOMAIN scripts : Stops(s, k) /\ scripts[k].script = n
      <4>1. PICK k \in DOMAIN scripts : Stops(s, k) /\ scripts[k].script = n
        BY <3>1
      <4>2. n # None
        BY <1>1, ThreadsAssumption DEF Threads
      <4>3. scripts[i].script = n => i = k
        BY <4>1, <4>2 DEF IInv, EntriesInv
      <4>4. Stops(s, i) => i = k
        BY <4>1, StopsOne
      <4> QED
        BY <4>1, <4>2, <4>3, <4>4
    <3>2. CASE \A k \in DOMAIN scripts : scripts[k].script # n /\ ~Stops(s, k)
      BY <3>2
    <3>3. Deletes(s, n)
      BY <1>1, <1>6, <1>7
    <3> QED
      BY <1>1, <3>1, <3>2, <3>3 DEF IInv, DeletionInv
  <2>4. \A i \in DOMAIN scripts : EntryInv(i)'
    <3> SUFFICES ASSUME NEW i \in DOMAIN scripts, scripts[i].script # None PROVE EntryInv(i)'
      BY <1>5 DEF EntryInv
    <3>1. EntryInv(i)
      BY DEF IInv, EntriesInv
    <3>2. CASE scripts[i].script = n
      BY <1>3, <1>5, <2>2, <2>3, <3>1, <3>2 DEF EntryInv
    <3>3. CASE scripts[i].script # n
      BY <1>3, <1>5, <2>1, <2>2, <2>3, <3>1, <3>3 DEF EntryInv
    <3> QED
      BY <3>2, <3>3
  <2> QED
    BY <1>4, <1>5, <1>6, <1>7, <2>4 DEF IInv, EntriesInv
<1>11. DeletionInv'
  BY <1>3, <1>4, <1>5, <1>6, <1>7, <1>9 DEF IInv, DeletionInv
<1>12. ExistInv'
  BY <1>3, <1>4, <1>5, <1>6, <1>7 DEF IInv, ExistInv
<1>13. IDsInv'
  <2>1. Used' = Used
    BY <1>3 DEF Used
  <2>2. Launching' = Launching
    BY <1>4, <1>6 DEF Launching
  <2> QED
    BY <1>5, <2>1, <2>2 DEF IInv, IDsInv
<1>14. StopAllInv'
  BY <1>4, <1>5, <1>6, <1>7 DEF IInv, StopAllInv
<1> QED
  BY <1>4, <1>8, <1>10, <1>11, <1>12, <1>13, <1>14 DEF IInv

-----------------------------------------------------------------------------
(* Entries that are locked, emptied and filled *)

LEMMA EntrySet ==
  ASSUME scripts \in Seq(ListEntry), NEW i \in DOMAIN scripts, NEW e \in ListEntry,
         scripts' = [scripts EXCEPT ![i] = e]
  PROVE  /\ scripts' \in Seq(ListEntry) /\ Len(scripts') = Len(scripts)
         /\ Len(scripts') >= Len(scripts)
         /\ DOMAIN scripts' = DOMAIN scripts
         /\ scripts'[i] = e
         /\ \A j \in DOMAIN scripts : j # i => scripts'[j] = scripts[j]
<1>1. Len(scripts) \in Nat /\ DOMAIN scripts = 1..Len(scripts)
  OBVIOUS
<1>2. scripts' \in Seq(ListEntry) /\ Len(scripts') = Len(scripts)
  OBVIOUS
<1> QED
  BY <1>1, <1>2

\* An entry's script is locked and, if there is one, its deletion begins.
LEMMA LockAndDeleteKept ==
  ASSUME IInv, NEW t \in Threads, NEW i \in DOMAIN scripts, LockAndDelete(t, i),
         stack[t] # <<>>, Len(stack[t]) = 1, stack[t][1] = Top(t),
         \/ Top(t).op = "stop" /\ Top(t).at = "lock" /\ HasRef(Top(t), Len(scripts)) /\ Top(t).ref.i = i
         \/ Top(t).op = "stopAll" /\ Top(t).at = "next" /\ Top(t).key = i
  PROVE  IInv'
<1> USE Parts
<1> DEFINE s == stack[t]
           n == scripts[i].script
           c == [Top(t) EXCEPT !.at = "deleted"]
           e == [scripts[i] EXCEPT !.mutex = Locked(@, t)]
           r == Append(Front(s), c) \o DeleteScript(scripts[i])
<1>1. /\ c \in Frame /\ c.op = Top(t).op /\ c.at = "deleted" /\ c.key = Top(t).key /\ c.ref = Top(t).ref
      /\ OuterOK(c, Len(scripts))
      /\ <<c.op, c.at>> \in {<<"stop", "deleted">>, <<"stopAll", "deleted">>}
  <2>1. Top(t) \in Frame
    BY TopCall DEF Top
  <2>2. c \in Frame /\ c.op = Top(t).op /\ c.at = "deleted" /\ c.key = Top(t).key /\ c.ref = Top(t).ref
    BY <2>1 DEF Frame
  <2> HIDE DEF c
  <2>3. OuterOK(c, Len(scripts))
    BY <2>2 DEF OuterOK, HasRef
  <2> QED
    BY <2>2, <2>3
<1>2. \A j \in Nat : ~Launches(s, j) /\ ~Stops(s, j)
  BY DEF Launches, Stops, Does
<1>3. DOMAIN scripts \subseteq Nat /\ Len(scripts) \in Nat /\ ScriptIDs \subseteq Nat
  BY IDs
<1>4. /\ scripts[i].mutex.owner = None
      /\ Locked(scripts[i].mutex, t) \in Mutex /\ Locked(scripts[i].mutex, t).owner = t
  <2>1. scripts[i].mutex \in Mutex
    BY DEF ListEntry
  <2>2. scripts[i].mutex.owner # t
    BY <1>2, <1>3 DEF IInv, MutexInv, HoldsEntry
  <2> QED
    BY <2>1, <2>2, LockFree DEF LockAndDelete
<1>5. /\ e \in ListEntry /\ e.script = n /\ e.path = scripts[i].path
      /\ e.scriptID = scripts[i].scriptID /\ e.mutex.owner = t
  <2> DEFINE m == Locked(scripts[i].mutex, t)
  <2>1. m \in Mutex /\ m.owner = t /\ e = [scripts[i] EXCEPT !.mutex = m] /\ scripts[i] \in ListEntry
    BY <1>4
  <2> HIDE DEF m, e
  <2> QED
    BY <2>1 DEF ListEntry
<1>6. scripts' = [scripts EXCEPT ![i] = e]
  BY DEF LockAndDelete
<1>7. stack' = [stack EXCEPT ![t] = r]
  BY DEF LockAndDelete, GoOnAfter
<1> HIDE DEF c, e
<1>8. /\ scripts' \in Seq(ListEntry) /\ Len(scripts') = Len(scripts) /\ Len(scripts') >= Len(scripts)
      /\ DOMAIN scripts' = DOMAIN scripts
      /\ \A j \in DOMAIN scripts :
           /\ scripts'[j].script = scripts[j].script /\ scripts'[j].path = scripts[j].path
           /\ scripts'[j].scriptID = scripts[j].scriptID
           /\ scripts'[j].mutex.owner = (IF j = i THEN t ELSE scripts[j].mutex.owner)
  BY <1>5, <1>6, EntrySet
<1>9. n \in ScriptIDs \union {None} /\ None \notin ScriptIDs
  BY ThreadsAssumption DEF ListEntry, Threads
<1>10. /\ StackOK(r, Len(scripts)) /\ r # <<>> /\ r[1] = c
       /\ n = None => Len(r) = 1
       /\ n # None => Len(r) = 2 /\ r[2].key = n
  <2>1. CASE n = None
    <3>1. r = Append(Front(s), c) \o <<>>
      BY <2>1 DEF DeleteScript
    <3> DEFINE q == Append(Front(s), c)
    <3>2. StackOK(q, Len(scripts)) /\ Len(q) = 1 /\ q[1] = c /\ q # <<>> /\ q \o <<>> = q
      BY <1>1, OuterGoesOn
    <3> HIDE DEF q, r
    <3>3. r = q
      BY <3>1, <3>2 DEF q
    <3> QED
      BY <2>1, <3>2, <3>3
  <2>2. CASE n # None
    <3> DEFINE d == Call("delete", "stop", n)
    <3>1. r = Append(Front(s), c) \o <<d>>
      BY <2>2 DEF DeleteScript
    <3>2. d \in Frame /\ DeleteOK(d) /\ d.key = n
      BY <1>3, <1>9, <2>2 DEF Call, Frame, Op, DeleteOK
    <3> HIDE DEF d, r
    <3> QED
      BY <1>1, <2>2, <3>1, <3>2, OuterDeletes
  <2> QED
    BY <2>1, <2>2
<1>11. /\ TypeInv' /\ stack'[t] = r
       /\ \A u \in Threads : u # t => stack'[u] = stack[u]
  <2> HIDE DEF r
  <2>1. StackOK(r, Len(scripts'))
    BY <1>8, <1>10
  <2> QED
    BY ZenonT(60), <1>7, <1>8, <2>1, TypeKept DEF LockAndDelete
<1> HIDE DEF r
<1>12. globalMutex' = globalMutex /\ plugins' = plugins /\ calls' = calls
  BY DEF LockAndDelete
<1>13. /\ HoldsGlobal(s) <=> HoldsGlobal(r)
       /\ ~IsLaunch(s) /\ ~IsLaunch(r)
       /\ \A j \in Nat :
            /\ ~Launches(s, j) /\ ~Launches(r, j)
            /\ ~Stops(s, j)
            /\ Stops(r, j) <=> j = i
            /\ ~Forgets(s, j)
            /\ Forgets(r, j) <=> j = i /\ n = None
            /\ ~Deletes(s, j)
            /\ Deletes(r, j) <=> n # None /\ j = n
            /\ GoneTo(s, j) <=> GoneTo(r, j)
  BY <1>1, <1>10 DEF HoldsGlobal, Launches, Stops, Forgets, Deletes, GoneTo, IsLaunch, Does
<1>14. \A u \in Threads : ~HoldsEntry(stack[u], i)
  BY <1>4, ThreadsAssumption DEF IInv, MutexInv
<1>15. MutexInv'
  <2>1. ASSUME NEW u \in Threads, NEW j \in DOMAIN scripts
        PROVE  HoldsEntry(stack'[u], j) <=> scripts'[j].mutex.owner = u
    <3>1. HoldsEntry(stack[u], j) <=> scripts[j].mutex.owner = u
      BY DEF IInv, MutexInv
    <3>2. HoldsEntry(stack'[u], j) <=> HoldsEntry(stack[u], j) \/ (u = t /\ j = i)
      BY <1>3, <1>11, <1>13 DEF HoldsEntry
    <3> QED
      BY <1>4, <1>8, <1>14, <3>1, <3>2
  <2>2. \A u \in Threads : HoldsGlobal(stack'[u]) <=> globalMutex'.owner = u
    BY <1>11, <1>12, <1>13 DEF IInv, MutexInv
  <2> QED
    BY <1>8, <2>1, <2>2 DEF MutexInv
<1>16. EntriesInv'
  <2>1. \A j \in DOMAIN scripts : Forgotten(j)' <=> Forgotten(j) \/ (j = i /\ n = None)
    BY <1>3, <1>11, <1>13 DEF Forgotten
  <2>2. \A j \in DOMAIN scripts : EntryInv(j)'
    BY <1>8, <1>12, <2>1 DEF IInv, EntriesInv, EntryInv
  <2>3. \A u \in Threads, j \in DOMAIN scripts : Launches(stack'[u], j) => scripts'[j].script = None
    BY <1>3, <1>8, <1>11, <1>13 DEF IInv, EntriesInv
  <2> QED
    BY <1>8, <2>2, <2>3 DEF IInv, EntriesInv
<1>17. n # None => ~plugins[n].deleted /\ \A u \in Threads : ~Deletes(stack[u], n)
  <2> SUFFICES ASSUME n # None
               PROVE  ~plugins[n].deleted /\ \A u \in Threads : ~Deletes(stack[u], n)
    OBVIOUS
  <2>1. ~Forgotten(i)
    BY <1>14 DEF Forgotten, Forgets, HoldsEntry
  <2>2. ~plugins[n].deleted
    BY <2>1 DEF IInv, EntriesInv, EntryInv
  <2>3. ASSUME NEW u \in Threads, Deletes(stack[u], n) PROVE FALSE
    <3>1. PICK j \in DOMAIN scripts : Stops(stack[u], j) /\ scripts[j].script = n
      BY <1>9, <2>3 DEF IInv, DeletionInv
    <3>2. j = i
      BY <3>1 DEF IInv, EntriesInv
    <3> QED
      BY <1>14, <3>1, <3>2 DEF HoldsEntry
  <2> QED
    BY <2>2, <2>3
<1>18. DeletionInv'
  <2>1. ASSUME NEW u \in Threads, NEW m \in ScriptIDs, Deletes(stack'[u], m), u # t
        PROVE  /\ ~plugins[m].deleted
               /\ \/ \E j \in DOMAIN scripts : Stops(stack'[u], j) /\ scripts'[j].script = m
                  \/ \A j \in DOMAIN scripts : scripts'[j].script # m /\ ~Stops(stack'[u], j)
               /\ \A v \in Threads : Deletes(stack'[v], m) => v = u
    <3>1. Deletes(stack[u], m) /\ stack'[u] = stack[u]
      BY <1>11, <2>1
    <3>2. m # n \/ n = None
      BY <1>17, <3>1
    <3>3. \A v \in Threads : Deletes(stack'[v], m) => Deletes(stack[v], m)
      BY <1>3, <1>11, <1>13, <3>2
    <3>4. /\ ~plugins[m].deleted
          /\ \/ \E j \in DOMAIN scripts : Stops(stack[u], j) /\ scripts[j].script = m
             \/ \A j \in DOMAIN scripts : scripts[j].script # m /\ ~Stops(stack[u], j)
          /\ \A v \in Threads : Deletes(stack[v], m) => v = u
      BY <3>1 DEF IInv, DeletionInv
    <3> QED
      BY <1>8, <3>1, <3>3, <3>4
  <2>2. ASSUME NEW m \in ScriptIDs, Deletes(stack'[t], m)
        PROVE  /\ ~plugins[m].deleted
               /\ \E j \in DOMAIN scripts : Stops(stack'[t], j) /\ scripts'[j].script = m
               /\ \A v \in Threads : Deletes(stack'[v], m) => v = t
    <3>1. n # None /\ m = n
      BY <1>3, <1>11, <1>13, <2>2
    <3>2. Stops(stack'[t], i) /\ scripts'[i].script = m
      BY <1>3, <1>8, <1>11, <1>13, <3>1
    <3> QED
      BY <1>11, <1>17, <3>1, <3>2
  <2> QED
    BY <1>8, <1>12, <2>1, <2>2 DEF DeletionInv
<1>19. ExistInv'
  <2>1. \A u \in Threads, m \in ScriptIDs : Deletes(stack[u], m) => Deletes(stack'[u], m)
    BY <1>3, <1>11, <1>13
  <2> QED
    BY <1>8, <1>12, <2>1 DEF IInv, ExistInv
<1>20. IDsInv'
  <2>1. Used' = Used
    BY <1>12 DEF Used
  <2>2. Launching' = Launching
    BY <1>11, <1>13 DEF Launching
  <2> QED
    BY <1>12, <2>1, <2>2 DEF IInv, IDsInv
<1>21. StopAllInv'
  <2>1. ASSUME NEW u \in Threads, NEW k \in 1..(Len(scripts) + 1), GoneTo(stack'[u], k),
               NEW j \in DOMAIN scripts, j < k
        PROVE  scripts'[j].script = None /\ \A v \in Threads : ~Launches(stack'[v], j)
    <3>1. k \in Nat
      BY <1>3
    <3>2. GoneTo(stack[u], k)
      BY <1>11, <1>13, <2>1, <3>1
    <3>3. scripts[j].script = None /\ \A v \in Threads : ~Launches(stack[v], j)
      BY <2>1, <3>2 DEF IInv, StopAllInv
    <3> QED
      BY <1>3, <1>8, <1>11, <1>13, <3>3
  <2> QED
    BY <1>8, <2>1 DEF StopAllInv
<1> QED
  BY <1>11, <1>15, <1>16, <1>18, <1>19, <1>20, <1>21 DEF IInv

\* The script of an entry has been deleted: it is forgotten, and the mutex unlocked.
LEMMA EmptiedKept ==
  ASSUME IInv, NEW t \in Threads, NEW i \in DOMAIN scripts, Forgets(stack[t], i),
         scripts' = [scripts EXCEPT ![i] = Emptied(@)],
         UNCHANGED <<buffer, globalMutex, plugins, calls, ub, usage>>,
         NEW r, stack' = [stack EXCEPT ![t] = r], StackOK(r, Len(scripts)),
         HoldsGlobal(stack[t]) <=> HoldsGlobal(r), ~IsLaunch(r),
         \A j \in Nat : ~HoldsEntry(r, j) /\ ~Deletes(r, j),
         \A k \in Nat : GoneTo(r, k) => k = i + 1 /\ GoneTo(stack[t], i)
  PROVE  IInv'
<1> USE Parts
<1> DEFINE s == stack[t]
           n == scripts[i].script
           e == Emptied(scripts[i])
<1>1. DOMAIN scripts \subseteq Nat /\ Len(scripts) \in Nat /\ ScriptIDs \subseteq Nat
  BY IDs
<1>2. /\ \A j \in Nat : /\ ~Launches(s, j)
                        /\ Stops(s, j) <=> j = i
                        /\ Forgets(s, j) <=> j = i
                        /\ ~Deletes(s, j)
      /\ ~IsLaunch(s)
  <2>1. Stops(s, i) /\ Len(s) = 1
    BY DEF Forgets
  <2>2. \A j \in Nat : ~Launches(s, j) /\ ~Deletes(s, j) /\ (Forgets(s, j) <=> Stops(s, j))
    BY <2>1 DEF Launches, Stops, Does, Deletes, Forgets
  <2>3. ~IsLaunch(s)
    BY <2>1 DEF IsLaunch, Stops, Does
  <2> QED
    BY <2>1, <2>2, <2>3, StopsOne
<1>3. scripts[i].mutex.owner = t
  BY <1>1, <1>2 DEF IInv, MutexInv, HoldsEntry
<1>4. e \in ListEntry /\ e.script = None /\ e.mutex.owner = None
  <2> DEFINE m == Unlocked(scripts[i].mutex)
  <2>1. scripts[i].mutex \in Mutex /\ scripts[i] \in ListEntry
    BY DEF ListEntry
  <2>2. m \in Mutex /\ m.owner = None
    BY <1>3, <2>1, UnlockHeld
  <2>3. e = [scripts[i] EXCEPT !.script = None, !.mutex = m]
    BY DEF Emptied
  <2> HIDE DEF m, e
  <2> QED
    BY <2>1, <2>2, <2>3 DEF ListEntry
<1> HIDE DEF e
<1>5. /\ scripts' \in Seq(ListEntry) /\ Len(scripts') = Len(scripts) /\ Len(scripts') >= Len(scripts)
      /\ DOMAIN scripts' = DOMAIN scripts
      /\ scripts'[i].script = None /\ scripts'[i].mutex.owner = None
      /\ \A j \in DOMAIN scripts : j # i => scripts'[j] = scripts[j]
  <2>1. scripts' = [scripts EXCEPT ![i] = e]
    BY DEF e
  <2> QED
    BY <1>4, <2>1, EntrySet
<1>6. /\ TypeInv' /\ stack'[t] = r
      /\ \A u \in Threads : u # t => stack'[u] = stack[u]
  <2>1. StackOK(r, Len(scripts'))
    BY <1>5
  <2> QED
    BY <1>5, <2>1, TypeKept
<1>7. None \notin Threads /\ None \notin ScriptIDs
  BY ThreadsAssumption DEF Threads
<1>8. \A u \in Threads : u # t => ~HoldsEntry(stack[u], i)
  BY <1>3 DEF IInv, MutexInv
<1>9. MutexInv'
  <2>1. ASSUME NEW u \in Threads, NEW j \in DOMAIN scripts
        PROVE  HoldsEntry(stack'[u], j) <=> scripts'[j].mutex.owner = u
    <3>1. HoldsEntry(stack[u], j) <=> scripts[j].mutex.owner = u
      BY DEF IInv, MutexInv
    <3>2. HoldsEntry(stack'[u], j) <=> HoldsEntry(stack[u], j) /\ ~(u = t /\ j = i)
      BY <1>1, <1>2, <1>6 DEF HoldsEntry
    <3> QED
      BY <1>5, <1>7, <1>8, <3>1, <3>2
  <2>2. \A u \in Threads : HoldsGlobal(stack'[u]) <=> globalMutex'.owner = u
    BY <1>6 DEF IInv, MutexInv
  <2> QED
    BY <1>5, <2>1, <2>2 DEF MutexInv
<1>10. EntriesInv'
  <2>1. \A j \in DOMAIN scripts : j # i => (Forgotten(j)' <=> Forgotten(j))
    <3>1. \A j \in DOMAIN scripts : ~Forgets(r, j)
      BY <1>1 DEF Forgets, HoldsEntry
    <3> QED
      BY <1>1, <1>2, <1>6, <3>1 DEF Forgotten
  <2>2. \A j \in DOMAIN scripts : EntryInv(j)'
    BY <1>5, <2>1 DEF IInv, EntriesInv, EntryInv
  <2>3. \A u \in Threads, j \in DOMAIN scripts : Launches(stack'[u], j) => scripts'[j].script = None
    <3>1. \A j \in DOMAIN scripts : ~Launches(r, j)
      BY <1>1 DEF HoldsEntry
    <3> QED
      BY <1>5, <1>6, <3>1 DEF IInv, EntriesInv
  <2>4. \A j, k \in DOMAIN scripts :
          scripts'[j].script # None /\ scripts'[j].script = scripts'[k].script => j = k
    BY <1>5 DEF IInv, EntriesInv
  <2> QED
    BY <1>5, <2>2, <2>3, <2>4 DEF EntriesInv
<1>11. n # None => plugins[n].deleted
  BY <1>1, <1>2 DEF IInv, EntriesInv, EntryInv, Forgotten
<1>12. \A u \in Threads, m \in ScriptIDs :
         Deletes(stack'[u], m) <=> Deletes(stack[u], m)
  BY <1>1, <1>2, <1>6
<1>13. DeletionInv'
  <2>1. ASSUME NEW u \in Threads, NEW m \in ScriptIDs, Deletes(stack'[u], m)
        PROVE  /\ ~plugins[m].deleted
               /\ \/ \E j \in DOMAIN scripts : Stops(stack'[u], j) /\ scripts'[j].script = m
                  \/ \A j \in DOMAIN scripts : scripts'[j].script # m /\ ~Stops(stack'[u], j)
               /\ \A v \in Threads : Deletes(stack'[v], m) => v = u
    <3>1. Deletes(stack[u], m) /\ u # t /\ stack'[u] = stack[u]
      BY <1>1, <1>2, <1>6, <1>12, <2>1
    <3>2. /\ ~plugins[m].deleted
          /\ \/ \E j \in DOMAIN scripts : Stops(stack[u], j) /\ scripts[j].script = m
             \/ \A j \in DOMAIN scripts : scripts[j].script # m /\ ~Stops(stack[u], j)
          /\ \A v \in Threads : Deletes(stack[v], m) => v = u
      BY <3>1 DEF IInv, DeletionInv
    <3>3. ~Stops(stack[u], i)
      BY <1>8, <3>1 DEF HoldsEntry
    <3>4. m # None
      BY <1>7
    <3> QED
      BY <1>5, <1>12, <3>1, <3>2, <3>3, <3>4
  <2> QED
    BY <1>5, <2>1 DEF DeletionInv
<1>14. ExistInv'
  <2>1. ASSUME NEW m \in ScriptIDs, ~plugins[m].deleted
        PROVE  /\ plugins[m].path # None
               /\ \/ \E j \in DOMAIN scripts : scripts'[j].script = m
                  \/ \E u \in Threads : Deletes(stack'[u], m)
    <3>1. n # m
      BY <1>7, <1>11, <2>1
    <3> QED
      BY <1>5, <1>12, <2>1, <3>1 DEF IInv, ExistInv
  <2> QED
    BY <1>5, <2>1 DEF ExistInv
<1>15. IDsInv'
  <2>1. Used' = Used
    BY DEF Used
  <2>2. Launching' = Launching
    BY <1>2, <1>6 DEF Launching
  <2> QED
    BY <2>1, <2>2 DEF IInv, IDsInv
<1>16. StopAllInv'
  <2>1. ASSUME NEW u \in Threads, NEW k \in 1..(Len(scripts) + 1), GoneTo(stack'[u], k),
               NEW j \in DOMAIN scripts, j < k
        PROVE  scripts'[j].script = None /\ \A v \in Threads : ~Launches(stack'[v], j)
    <3>1. k \in Nat /\ i \in Nat /\ j \in Nat /\ i \in 1..(Len(scripts) + 1)
      BY <1>1
    <3>2. CASE j = i
      <4>1. scripts'[j].script = None
        BY <1>5, <3>2
      <4>2. \A v \in Threads : ~Launches(stack'[v], j)
        BY <1>6, <1>8, <3>1, <3>2 DEF HoldsEntry
      <4> QED
        BY <4>1, <4>2
    <3>3. CASE j # i
      <4>1. scripts[j].script = None /\ \A v \in Threads : ~Launches(stack[v], j)
        <5>1. CASE u = t
          <6>1. GoneTo(stack[t], i) /\ k = i + 1
            BY <1>6, <2>1, <3>1, <5>1
          <6>2. j < i
            BY <2>1, <3>1, <3>3, <6>1
          <6> QED
            BY <3>1, <6>1, <6>2 DEF IInv, StopAllInv
        <5>2. CASE u # t
          <6>1. GoneTo(stack[u], k)
            BY <1>6, <2>1, <5>2
          <6> QED
            BY <2>1, <6>1 DEF IInv, StopAllInv
        <5> QED
          BY <5>1, <5>2
      <4>2. \A v \in Threads : ~Launches(stack'[v], j)
        BY <1>6, <3>1, <4>1 DEF HoldsEntry
      <4> QED
        BY <1>5, <3>3, <4>1, <4>2
    <3> QED
      BY <3>2, <3>3
  <2> QED
    BY <1>5, <2>1 DEF StopAllInv
<1> QED
  BY <1>6, <1>9, <1>10, <1>13, <1>14, <1>15, <1>16 DEF IInv

LEMMA StopLocksKept ==
  ASSUME IInv, NEW t \in Threads, StopLock(t) \/ StopAllNext(t)
  PROVE  IInv'
<1> USE Parts
<1> DEFINE s == stack[t]
<1>1. s # <<>> /\ Last(s).op \in {"stop", "stopAll"} /\ Last(s) = Top(t)
  BY DEF StopLock, StopAllNext, At, Top
<1>2. Len(s) = 1 /\ s[1] = Top(t) /\ OuterOK(Top(t), Len(scripts))
  BY <1>1, TopCall
<1>3. CASE StopLock(t)
  <2>1. HasRef(Top(t), Len(scripts)) /\ Top(t).op = "stop" /\ Top(t).at = "lock"
    BY <1>2, <1>3 DEF StopLock, At, OuterOK, WithOK
  <2>2. Top(t).ref.i \in DOMAIN scripts
    BY <2>1 DEF HasRef
  <2> QED
    BY <1>1, <1>2, <1>3, <2>1, <2>2, LockAndDeleteKept DEF StopLock
<1>4. CASE StopAllNext(t)
  <2>1. Top(t).op = "stopAll" /\ Top(t).at = "next" /\ Top(t).key \in 1..(Len(scripts) + 1)
    BY <1>2, <1>4 DEF StopAllNext, At, OuterOK, WithOK
  <2>2. Top(t).key \in DOMAIN scripts
    BY <1>4, <2>1 DEF StopAllNext
  <2> QED
    BY <1>1, <1>2, <1>4, <2>1, <2>2, LockAndDeleteKept DEF StopAllNext
<1> QED
  BY <1>3, <1>4

LEMMA StopDoneKept ==
  ASSUME IInv, NEW t \in Threads, StopDone(t)
  PROVE  IInv'
<1> USE Parts
<1> DEFINE s == stack[t]
           i == Top(t).ref.i
<1>1. s # <<>> /\ Last(s).op = "stop" /\ Last(s).at = "deleted" /\ Last(s) = Top(t)
  BY DEF StopDone, At, Top
<1>2. Len(s) = 1 /\ s[1] = Top(t) /\ OuterOK(Top(t), Len(scripts))
  BY <1>1, TopCall
<1>3. HasRef(Top(t), Len(scripts))
  BY <1>1, <1>2 DEF OuterOK, WithOK
<1>4. i \in DOMAIN scripts
  BY <1>3 DEF HasRef
<1>5. Forgets(s, i) /\ ~HoldsGlobal(s)
  BY <1>1, <1>2 DEF Forgets, Stops, HoldsGlobal, Does
<1>6. Front(s) = <<>> /\ StackOK(<<>>, Len(scripts)) /\ Len(<<>>) = 0
  BY <1>2, OuterReturns
<1>7. /\ ~HoldsGlobal(<<>>) /\ ~IsLaunch(<<>>)
      /\ \A j \in Nat : ~HoldsEntry(<<>>, j) /\ ~Deletes(<<>>, j) /\ ~GoneTo(<<>>, j)
  BY <1>6 DEF HoldsGlobal, IsLaunch, HoldsEntry, Launches, Stops, Deletes, GoneTo, Does
<1>8. stack' = [stack EXCEPT ![t] = <<>>] /\ scripts' = [scripts EXCEPT ![i] = Emptied(@)]
  BY <1>6 DEF StopDone, Return
<1>9. UNCHANGED <<buffer, globalMutex, plugins, calls, ub, usage>>
  BY DEF StopDone
<1> HIDE DEF i
<1> QED
  BY <1>4, <1>5, <1>6, <1>7, <1>8, <1>9, EmptiedKept

LEMMA StopAllDoneKept ==
  ASSUME IInv, NEW t \in Threads, StopAllDone(t)
  PROVE  IInv'
<1> USE Parts
<1> DEFINE s == stack[t]
           i == Top(t).key
           c == [Top(t) EXCEPT !.at = "next", !.key = i + 1]
           r == Append(Front(s), c)
<1>1. s # <<>> /\ Last(s).op = "stopAll" /\ Last(s).at = "deleted" /\ Last(s) = Top(t)
  BY DEF StopAllDone, At, Top
<1>2. Len(s) = 1 /\ s[1] = Top(t) /\ OuterOK(Top(t), Len(scripts)) /\ Top(t) \in Frame
  BY <1>1, TopCall
<1>3. i \in DOMAIN scripts
  BY <1>1, <1>2 DEF OuterOK, WithOK
<1>4. Forgets(s, i) /\ HoldsGlobal(s) /\ GoneTo(s, i)
  BY <1>1, <1>2 DEF Forgets, Stops, HoldsGlobal, GoneTo, Does
<1>5. c \in Frame /\ c.op = "stopAll" /\ c.at = "next" /\ c.key = i + 1 /\ i + 1 \in 1..(Len(scripts) + 1)
  <2>1. i \in Nat /\ i + 1 \in 1..(Len(scripts) + 1) /\ i + 1 \in Nat
    BY <1>3
  <2> QED
    BY <1>1, <1>2, <2>1 DEF Frame
<1>6. stack' = [stack EXCEPT ![t] = r] /\ scripts' = [scripts EXCEPT ![i] = Emptied(@)]
  BY DEF StopAllDone, GoOn
<1> HIDE DEF c, i
<1>7. OuterOK(c, Len(scripts))
  BY <1>5 DEF OuterOK
<1>8. StackOK(r, Len(scripts)) /\ Len(r) = 1 /\ r[1] = c /\ r # <<>>
  BY <1>2, <1>5, <1>7, OuterGoesOn
<1> HIDE DEF r
<1>9. /\ HoldsGlobal(r) /\ ~IsLaunch(r)
      /\ \A j \in Nat : ~HoldsEntry(r, j) /\ ~Deletes(r, j) /\ (GoneTo(r, j) => j = i + 1)
  BY <1>5, <1>8 DEF HoldsGlobal, IsLaunch, HoldsEntry, Launches, Stops, Deletes, GoneTo, Does
<1>10. UNCHANGED <<buffer, globalMutex, plugins, calls, ub, usage>>
  BY DEF StopAllDone
<1> QED
  BY <1>3, <1>4, <1>6, <1>8, <1>9, <1>10, EmptiedKept

-----------------------------------------------------------------------------
(* The global mutex *)

\* Who holds the global mutex looks at the entries, and may add one.
LEMMA GlobalKept ==
  ASSUME IInv, NEW t \in Threads, NEW r, stack' = [stack EXCEPT ![t] = r],
         globalMutex' \in Mutex, globalMutex.owner \in {None, t}, globalMutex'.owner \in {None, t},
         globalMutex'.owner = t <=> HoldsGlobal(r),
         scripts' \in Seq(ListEntry), Len(scripts') >= Len(scripts),
         \A j \in DOMAIN scripts : scripts'[j] = scripts[j],
         \A j \in DOMAIN scripts' \ DOMAIN scripts :
           scripts'[j].script = None /\ scripts'[j].mutex.owner = None,
         StackOK(r, Len(scripts')), buffer' \in Nat, UNCHANGED <<plugins, calls, ub, usage>>,
         IsLaunch(r) <=> IsLaunch(stack[t]),
         \A j \in Nat : ~HoldsEntry(stack[t], j) /\ ~Deletes(stack[t], j),
         \A j \in Nat : ~HoldsEntry(r, j) /\ ~Deletes(r, j),
         \A k \in Nat : GoneTo(r, k) => k = 1
  PROVE  IInv'
<1> USE Parts
<1>1. /\ TypeInv' /\ stack'[t] = r
      /\ \A u \in Threads : u # t => stack'[u] = stack[u]
  BY TypeKept
<1>2. /\ Len(scripts') \in Nat /\ DOMAIN scripts' = 1..Len(scripts')
      /\ DOMAIN scripts \subseteq DOMAIN scripts' /\ DOMAIN scripts' \subseteq Nat
      /\ ScriptIDs \subseteq Nat /\ None \notin Threads \union ScriptIDs
  BY IDs, ThreadsAssumption DEF Threads
<1>3. \A u \in Threads, j \in DOMAIN scripts' \ DOMAIN scripts : ~HoldsEntry(stack[u], j)
  <2> SUFFICES ASSUME NEW u \in Threads, NEW j \in Nat, HoldsEntry(stack[u], j)
               PROVE  j \in DOMAIN scripts
    BY <1>2
  <2> DEFINE s == stack[u]
  <2>1. StackOK(s, Len(scripts)) /\ s # <<>> /\ s \in Seq(Frame)
    BY DEF TypeInv, HoldsEntry, Launches, Stops, Does, StackOK
  <2>2. Len(s) >= 1
    BY <2>1
  <2>3. OuterOK(s[1], Len(scripts))
    BY <2>1, <2>2 DEF StackOK
  <2>4. CASE Launches(s, j) \/ Does(s, "stop", "deleted")
    <3>1. HasRef(s[1], Len(scripts))
      BY <2>3, <2>4 DEF Launches, Does, OuterOK, WithOK
    <3>2. j = s[1].ref.i
      BY <2>4 DEF HoldsEntry, Launches, Stops, Does
    <3> QED
      BY <3>1, <3>2 DEF HasRef
  <2>5. CASE Does(s, "stopAll", "deleted")
    <3>1. j = s[1].key /\ s[1].key \in 1..Len(scripts)
      BY <2>3, <2>5 DEF HoldsEntry, Launches, Stops, Does, OuterOK, WithOK
    <3> QED
      BY <3>1
  <2> QED
    BY <2>4, <2>5 DEF HoldsEntry, Stops
<1>4. \A u \in Threads, j \in Nat :
        /\ Launches(stack'[u], j) <=> Launches(stack[u], j)
        /\ Stops(stack'[u], j) <=> Stops(stack[u], j)
        /\ Forgets(stack'[u], j) <=> Forgets(stack[u], j)
        /\ Deletes(stack'[u], j) <=> Deletes(stack[u], j)
        /\ HoldsEntry(stack'[u], j) <=> HoldsEntry(stack[u], j)
  BY <1>1 DEF HoldsEntry, Forgets
<1>5. MutexInv'
  <2>1. ASSUME NEW u \in Threads
        PROVE  HoldsGlobal(stack'[u]) <=> globalMutex'.owner = u
    <3>1. u # t => ~HoldsGlobal(stack[u])
      BY <1>2 DEF IInv, MutexInv
    <3> QED
      BY <1>1, <1>2, <3>1
  <2>2. ASSUME NEW u \in Threads, NEW j \in DOMAIN scripts'
        PROVE  HoldsEntry(stack'[u], j) <=> scripts'[j].mutex.owner = u
    <3>1. CASE j \in DOMAIN scripts
      BY <1>2, <1>4, <3>1 DEF IInv, MutexInv
    <3>2. CASE j \notin DOMAIN scripts
      BY <1>2, <1>3, <1>4, <3>2
    <3> QED
      BY <3>1, <3>2
  <2> QED
    BY <2>1, <2>2 DEF MutexInv
<1>6. EntriesInv'
  <2>1. \A j \in DOMAIN scripts : Forgotten(j)' <=> Forgotten(j)
    BY <1>2, <1>4 DEF Forgotten
  <2>2. \A j \in DOMAIN scripts' : EntryInv(j)'
    <3> SUFFICES ASSUME NEW j \in DOMAIN scripts', j \in DOMAIN scripts PROVE EntryInv(j)'
      BY DEF EntryInv
    <3> QED
      BY <2>1 DEF IInv, EntriesInv, EntryInv
  <2>3. \A j, k \in DOMAIN scripts' :
          scripts'[j].script # None /\ scripts'[j].script = scripts'[k].script => j = k
    BY DEF IInv, EntriesInv
  <2>4. \A u \in Threads, j \in DOMAIN scripts' : Launches(stack'[u], j) => scripts'[j].script = None
    BY <1>2, <1>4 DEF IInv, EntriesInv
  <2> QED
    BY <2>2, <2>3, <2>4 DEF EntriesInv
<1>7. DeletionInv'
  <2>1. ASSUME NEW u \in Threads, NEW m \in ScriptIDs, Deletes(stack'[u], m)
        PROVE  /\ ~plugins[m].deleted
               /\ \/ \E j \in DOMAIN scripts' : Stops(stack'[u], j) /\ scripts'[j].script = m
                  \/ \A j \in DOMAIN scripts' : scripts'[j].script # m /\ ~Stops(stack'[u], j)
               /\ \A v \in Threads : Deletes(stack'[v], m) => v = u
    <3>1. Deletes(stack[u], m)
      BY <1>2, <1>4, <2>1
    <3>2. /\ ~plugins[m].deleted
          /\ \/ \E j \in DOMAIN scripts : Stops(stack[u], j) /\ scripts[j].script = m
             \/ \A j \in DOMAIN scripts : scripts[j].script # m /\ ~Stops(stack[u], j)
          /\ \A v \in Threads : Deletes(stack[v], m) => v = u
      BY <3>1 DEF IInv, DeletionInv
    <3>3. \A j \in DOMAIN scripts' \ DOMAIN scripts : scripts'[j].script # m /\ ~Stops(stack'[u], j)
      BY <1>2, <1>3, <1>4 DEF HoldsEntry
    <3>4. \A v \in Threads : Deletes(stack'[v], m) => v = u
      BY <1>2, <1>4, <3>2
    <3>5. CASE \E j \in DOMAIN scripts : Stops(stack[u], j) /\ scripts[j].script = m
      BY <1>2, <1>4, <3>2, <3>4, <3>5
    <3>6. CASE \A j \in DOMAIN scripts : scripts[j].script # m /\ ~Stops(stack[u], j)
      BY <1>2, <1>4, <3>2, <3>3, <3>4, <3>6
    <3> QED
      BY <3>2, <3>5, <3>6
  <2> QED
    BY <2>1 DEF DeletionInv
<1>8. ExistInv'
  BY <1>2, <1>4 DEF IInv, ExistInv
<1>9. IDsInv'
  <2>1. Used' = Used
    BY DEF Used
  <2>2. Launching' = Launching
    BY <1>1 DEF Launching
  <2> QED
    BY <2>1, <2>2 DEF IInv, IDsInv
<1>10. StopAllInv'
  <2>1. ASSUME NEW u \in Threads, NEW k \in 1..(Len(scripts') + 1), GoneTo(stack'[u], k),
               NEW j \in DOMAIN scripts', j < k
        PROVE  FALSE
    <3>1. k \in Nat
      BY <1>2
    <3>2. u # t => ~HoldsGlobal(stack[u])
      BY <1>2 DEF IInv, MutexInv
    <3>3. u = t
      BY <1>1, <2>1, <3>2 DEF GoneTo, HoldsGlobal
    <3>4. k = 1 /\ j \in 1..Len(scripts')
      BY <1>1, <1>2, <2>1, <3>1, <3>3
    <3> QED
      BY <2>1, <3>4
  <2> QED
    BY <2>1 DEF StopAllInv
<1> QED
  BY <1>1, <1>5, <1>6, <1>7, <1>8, <1>9, <1>10 DEF IInv

LEMMA StopAllBeginKept ==
  ASSUME IInv, NEW t \in Threads, StopAllBegin(t)
  PROVE  IInv'
<1> USE Parts
<1> DEFINE s == stack[t]
           c == [Top(t) EXCEPT !.at = "next", !.key = 1]
           r == Append(Front(s), c)
<1>1. s # <<>> /\ Last(s).op = "stopAll" /\ Last(s).at = "begin" /\ Last(s) = Top(t)
  BY DEF StopAllBegin, At, Top
<1>2. Len(s) = 1 /\ s[1] = Top(t) /\ Top(t) \in Frame
  BY <1>1, TopCall
<1>3. /\ ~HoldsGlobal(s) /\ ~IsLaunch(s)
      /\ \A j \in Nat : ~HoldsEntry(s, j) /\ ~Deletes(s, j)
  BY <1>1, <1>2 DEF HoldsGlobal, IsLaunch, HoldsEntry, Launches, Stops, Deletes, Does
<1>4. /\ globalMutex.owner = None
      /\ Locked(globalMutex, t) \in Mutex /\ Locked(globalMutex, t).owner = t
  <2>1. globalMutex.owner # t
    BY <1>3 DEF IInv, MutexInv
  <2> QED
    BY <2>1, LockFree DEF StopAllBegin
<1>5. c \in Frame /\ c.op = "stopAll" /\ c.at = "next" /\ c.key = 1 /\ 1 \in 1..(Len(scripts) + 1)
  <2>1. Top(t).op = "stopAll" /\ 1 \in Nat /\ 1 \in 1..(Len(scripts) + 1)
    BY <1>1
  <2> QED
    BY <1>2, <2>1 DEF Frame
<1>6. stack' = [stack EXCEPT ![t] = r] /\ globalMutex' = Locked(globalMutex, t)
  BY DEF StopAllBegin, GoOn
<1> HIDE DEF c
<1>7. OuterOK(c, Len(scripts))
  BY <1>5 DEF OuterOK
<1>8. StackOK(r, Len(scripts)) /\ Len(r) = 1 /\ r[1] = c /\ r # <<>>
  BY <1>2, <1>5, <1>7, OuterGoesOn
<1> HIDE DEF r
<1>9. /\ HoldsGlobal(r) /\ ~IsLaunch(r)
      /\ \A j \in Nat : ~HoldsEntry(r, j) /\ ~Deletes(r, j) /\ (GoneTo(r, j) => j = 1)
  BY <1>5, <1>8 DEF HoldsGlobal, IsLaunch, HoldsEntry, Launches, Stops, Deletes, GoneTo, Does
<1>10. UNCHANGED <<scripts, buffer, plugins, calls, ub, usage>> /\ Len(scripts) >= Len(scripts)
  BY DEF StopAllBegin, listVars
<1> QED
  BY <1>3, <1>4, <1>6, <1>8, <1>9, <1>10, GlobalKept

LEMMA StopAllEndKept ==
  ASSUME IInv, NEW t \in Threads, StopAllEnd(t)
  PROVE  IInv'
<1> USE Parts
<1> DEFINE s == stack[t]
<1>1. s # <<>> /\ Last(s).op = "stopAll" /\ Last(s).at = "next" /\ Last(s) = Top(t)
  BY DEF StopAllEnd, At, Top
<1>2. Len(s) = 1 /\ s[1] = Top(t)
  BY <1>1, TopCall
<1>3. /\ HoldsGlobal(s) /\ ~IsLaunch(s)
      /\ \A j \in Nat : ~HoldsEntry(s, j) /\ ~Deletes(s, j)
  BY <1>1, <1>2 DEF HoldsGlobal, IsLaunch, HoldsEntry, Launches, Stops, Deletes, Does
<1>4. globalMutex.owner = t
  BY <1>3 DEF IInv, MutexInv
<1>5. globalMutex' \in Mutex /\ globalMutex'.owner = None
  BY <1>4, UnlockHeld DEF StopAllEnd
<1>6. Front(s) = <<>> /\ StackOK(<<>>, Len(scripts)) /\ Len(<<>>) = 0
  BY <1>2, OuterReturns
<1>7. /\ ~HoldsGlobal(<<>>) /\ ~IsLaunch(<<>>)
      /\ \A j \in Nat : ~HoldsEntry(<<>>, j) /\ ~Deletes(<<>>, j) /\ ~GoneTo(<<>>, j)
  BY <1>6 DEF HoldsGlobal, IsLaunch, HoldsEntry, Launches, Stops, Deletes, GoneTo, Does
<1>8. stack' = [stack EXCEPT ![t] = <<>>]
  BY <1>6 DEF StopAllEnd, Return
<1>9. UNCHANGED <<scripts, buffer, plugins, calls, ub, usage>> /\ Len(scripts) >= Len(scripts)
  BY DEF StopAllEnd, listVars
<1>10. None # t
  BY ThreadsAssumption
<1> QED
  BY <1>3, <1>4, <1>5, <1>6, <1>7, <1>8, <1>9, <1>10, GlobalKept

-----------------------------------------------------------------------------
(* The launch of a script *)

LEMMA LaunchFindKept ==
  ASSUME IInv, NEW t \in Threads, LaunchFind(t)
  PROVE  IInv'
<1> USE Parts
<1> DEFINE s == stack[t]
           i == Find(Top(t).key)
<1>1. s # <<>> /\ Last(s).op = "launch" /\ Last(s).at = "find" /\ Last(s) = Top(t)
  BY DEF LaunchFind, At, Top
<1>2. Len(s) = 1 /\ s[1] = Top(t) /\ Top(t) \in Frame /\ Top(t).key \in Paths
  <2>1. Len(s) = 1 /\ s[1] = Top(t) /\ Top(t) \in Frame /\ OuterOK(Top(t), Len(scripts))
    BY <1>1, TopCall
  <2> QED
    BY <1>1, <2>1 DEF OuterOK, WithOK
<1>3. /\ ~HoldsGlobal(s) /\ IsLaunch(s)
      /\ \A j \in Nat : ~HoldsEntry(s, j) /\ ~Deletes(s, j)
  BY <1>1, <1>2 DEF HoldsGlobal, IsLaunch, HoldsEntry, Launches, Stops, Deletes, Does
<1>4. /\ globalMutex.owner = None
      /\ globalMutex' \in Mutex /\ globalMutex'.owner = t
  <2>1. globalMutex.owner # t
    BY <1>3 DEF IInv, MutexInv
  <2> QED
    BY <2>1, LockFree DEF LaunchFind
<1>5. PICK c : /\ stack' = [stack EXCEPT ![t] = Append(Front(s), c)]
               /\ c \in Frame /\ c.op = "launch" /\ c.at = "lock" /\ c.key \in Paths
               /\ HasRef(c, Len(scripts'))
               /\ buffer' \in Nat /\ scripts' \in Seq(ListEntry) /\ Len(scripts') >= Len(scripts)
               /\ \A j \in DOMAIN scripts : scripts'[j] = scripts[j]
               /\ \A j \in DOMAIN scripts' \ DOMAIN scripts :
                    scripts'[j].script = None /\ scripts'[j].mutex.owner = None
  <2>1. CASE i # 0
    <3> DEFINE c == [Top(t) EXCEPT !.at = "lock", !.ref = Ref(i)]
    <3>1. i \in DOMAIN scripts
      BY <2>1, FoundEntry
    <3>2. stack' = [stack EXCEPT ![t] = Append(Front(s), c)] /\ UNCHANGED <<scripts, buffer>>
      BY <2>1 DEF LaunchFind, GoOn, listVars
    <3> HIDE DEF i
    <3>3. c \in Frame /\ c.op = "launch" /\ c.at = "lock" /\ c.key \in Paths /\ HasRef(c, Len(scripts))
      <4>1. Top(t).op = "launch" /\ Top(t).key \in Paths /\ Top(t) \in Frame
        BY <1>1, <1>2
      <4> QED
        BY <3>1, <4>1, FoundCall
    <3> HIDE DEF c
    <3>4. Len(scripts') >= Len(scripts)
      BY <3>2
    <3> QED
      BY <3>2, <3>3, <3>4
  <2>2. CASE i = 0
    <3> DEFINE ref == [i |-> Len(scripts) + 1, buffer |-> buffer']
               c == [Top(t) EXCEPT !.at = "lock", !.ref = ref]
               e == [path |-> Top(t).key, script |-> None, scriptID |-> None, mutex |-> Free]
    <3>1. /\ stack' = [stack EXCEPT ![t] = Append(Front(s), c)]
          /\ scripts' = Append(scripts, e) /\ buffer' \in {buffer, buffer + 1}
      BY <2>2 DEF LaunchFind, GoOn, Emplace
    <3>2. buffer' \in Nat
      BY <3>1
    <3>3. e \in ListEntry /\ e.script = None /\ e.mutex.owner = None
      BY <1>2 DEF ListEntry, Mutex, Free
    <3> HIDE DEF e
    <3>4. /\ scripts' \in Seq(ListEntry) /\ Len(scripts') = Len(scripts) + 1
          /\ \A j \in DOMAIN scripts : scripts'[j] = scripts[j]
          /\ scripts'[Len(scripts) + 1] = e
      BY <3>1, <3>3
    <3>5. DOMAIN scripts' = 1..(Len(scripts) + 1) /\ Len(scripts') >= Len(scripts)
      BY <3>4
    <3>6. \A j \in DOMAIN scripts' \ DOMAIN scripts : j = Len(scripts) + 1
      BY <3>5
    <3>7. /\ ref \in [i : 1..(Len(scripts) + 1), buffer : Nat]
          /\ ref \in [i : Nat, buffer : Nat]
      BY <3>2
    <3> HIDE DEF ref
    <3>8. c \in Frame /\ c.op = "launch" /\ c.at = "lock" /\ c.key \in Paths /\ HasRef(c, Len(scripts'))
      BY <1>1, <1>2, <3>4, <3>7 DEF Frame, HasRef
    <3> HIDE DEF c
    <3> QED
      BY <3>1, <3>2, <3>3, <3>4, <3>5, <3>6, <3>8
  <2> QED
    BY <2>1, <2>2
<1> DEFINE r == Append(Front(s), c)
<1>6. stack' = [stack EXCEPT ![t] = r]
  BY <1>5
<1>7. OuterOK(c, Len(scripts')) /\ Len(scripts') \in Nat
  BY <1>5 DEF OuterOK
<1>8. StackOK(r, Len(scripts')) /\ Len(r) = 1 /\ r[1] = c /\ r # <<>>
  BY <1>2, <1>5, <1>7, OuterGoesOn
<1> HIDE DEF r, i
<1>9. /\ HoldsGlobal(r) /\ IsLaunch(r)
      /\ \A j \in Nat : ~HoldsEntry(r, j) /\ ~Deletes(r, j) /\ ~GoneTo(r, j)
  BY <1>5, <1>8 DEF HoldsGlobal, IsLaunch, HoldsEntry, Launches, Stops, Deletes, GoneTo, Does
<1>10. UNCHANGED <<plugins, calls, ub, usage>>
  BY DEF LaunchFind
<1> QED
  BY <1>3, <1>4, <1>5, <1>6, <1>8, <1>9, <1>10, GlobalKept

\* The entry is locked and hidden, and the deletion of the script it had begins.
LEMMA LaunchLockKept ==
  ASSUME IInv, NEW t \in Threads, LaunchLock(t)
  PROVE  IInv'
<1> USE Parts
<1> DEFINE s == stack[t]
           i == Top(t).ref.i
           n == scripts[i].script
           c == [Top(t) EXCEPT !.at = "create"]
           e == [Hidden(scripts[i]) EXCEPT !.mutex = Locked(scripts[i].mutex, t)]
           r == Append(Front(s), c) \o DeleteScript(scripts[i])
<1>1. s # <<>> /\ Last(s).op = "launch" /\ Last(s).at = "lock" /\ Last(s) = Top(t)
  BY DEF LaunchLock, At, Top
<1>2. Len(s) = 1 /\ s[1] = Top(t) /\ Top(t) \in Frame /\ Top(t).key \in Paths /\ HasRef(Top(t), Len(scripts))
  <2>1. Len(s) = 1 /\ s[1] = Top(t) /\ Top(t) \in Frame /\ OuterOK(Top(t), Len(scripts))
    BY <1>1, TopCall
  <2> QED
    BY <1>1, <2>1 DEF OuterOK, WithOK
<1>3. i \in DOMAIN scripts
  BY <1>2 DEF HasRef
<1>4. /\ c \in Frame /\ c.op = "launch" /\ c.at = "create" /\ c.ref.i = i
      /\ OuterOK(c, Len(scripts))
      /\ <<c.op, c.at>> \in {<<"launch", "create">>}
  <2>1. c \in Frame /\ c.op = "launch" /\ c.at = "create" /\ c.key \in Paths /\ c.ref = Top(t).ref
    BY <1>1, <1>2 DEF Frame
  <2> HIDE DEF c
  <2> QED
    BY <1>2, <2>1 DEF OuterOK, HasRef
<1>5. /\ HoldsGlobal(s) /\ IsLaunch(s)
      /\ \A j \in Nat : ~Launches(s, j) /\ ~Stops(s, j) /\ ~Forgets(s, j) /\ ~Deletes(s, j) /\ ~GoneTo(s, j)
  BY <1>1, <1>2 DEF HoldsGlobal, IsLaunch, Launches, Stops, Forgets, Deletes, GoneTo, Does
<1>6. DOMAIN scripts \subseteq Nat /\ Len(scripts) \in Nat /\ ScriptIDs \subseteq Nat
  BY IDs
<1>7. globalMutex.owner = t /\ globalMutex' \in Mutex /\ globalMutex'.owner = None
  <2>1. globalMutex.owner = t
    BY <1>5 DEF IInv, MutexInv
  <2> QED
    BY <2>1, UnlockHeld DEF LaunchLock
<1>8. /\ scripts[i].mutex.owner = None
      /\ Locked(scripts[i].mutex, t) \in Mutex /\ Locked(scripts[i].mutex, t).owner = t
  <2>1. scripts[i].mutex \in Mutex
    BY <1>3 DEF ListEntry
  <2>2. scripts[i].mutex.owner # t
    BY <1>3, <1>5, <1>6 DEF IInv, MutexInv, HoldsEntry
  <2> QED
    BY <2>1, <2>2, LockFree DEF LaunchLock
<1>9. e \in ListEntry /\ e.script = None /\ e.mutex.owner = t
  <2> DEFINE m == Locked(scripts[i].mutex, t)
  <2>1. m \in Mutex /\ m.owner = t /\ scripts[i] \in ListEntry
    BY <1>3, <1>8
  <2>2. e = [scripts[i] EXCEPT !.script = None, !.scriptID = None, !.path = None, !.mutex = m]
    BY <2>1 DEF Hidden, ListEntry
  <2> HIDE DEF m, e
  <2> QED
    BY <2>1, <2>2 DEF ListEntry
<1>10. scripts' = [scripts EXCEPT ![i] = e]
  BY DEF LaunchLock
<1>a. stack' = [stack EXCEPT ![t] = r]
  BY DEF LaunchLock, GoOnAfter
<1> HIDE DEF c, e
<1>11. /\ scripts' \in Seq(ListEntry) /\ Len(scripts') = Len(scripts) /\ Len(scripts') >= Len(scripts)
       /\ DOMAIN scripts' = DOMAIN scripts
       /\ scripts'[i].script = None /\ scripts'[i].mutex.owner = t
       /\ \A j \in DOMAIN scripts : j # i => scripts'[j] = scripts[j]
  BY <1>3, <1>9, <1>10, EntrySet
<1>12. n \in ScriptIDs \union {None} /\ None \notin ScriptIDs \union Threads
  BY <1>3, ThreadsAssumption DEF ListEntry, Threads
<1>13. /\ StackOK(r, Len(scripts)) /\ r # <<>> /\ r[1] = c
       /\ n = None => Len(r) = 1
       /\ n # None => Len(r) = 2 /\ r[2].key = n
  <2>1. CASE n = None
    <3>1. r = Append(Front(s), c) \o <<>>
      BY <2>1 DEF DeleteScript
    <3> DEFINE q == Append(Front(s), c)
    <3>2. StackOK(q, Len(scripts)) /\ Len(q) = 1 /\ q[1] = c /\ q # <<>> /\ q \o <<>> = q
      BY <1>2, <1>4, OuterGoesOn
    <3> HIDE DEF q, r
    <3>3. r = q
      BY <3>1, <3>2 DEF q
    <3> QED
      BY <2>1, <3>2, <3>3
  <2>2. CASE n # None
    <3> DEFINE d == Call("delete", "stop", n)
    <3>1. r = Append(Front(s), c) \o <<d>>
      BY <2>2 DEF DeleteScript
    <3>2. d \in Frame /\ DeleteOK(d) /\ d.key = n
      BY <1>6, <1>12, <2>2 DEF Call, Frame, Op, DeleteOK
    <3> HIDE DEF d, r
    <3>3. <<c.op, c.at>> \in {<<"launch", "create">>, <<"stop", "deleted">>, <<"stopAll", "deleted">>}
      BY <1>4
    <3> QED
      BY <1>2, <1>4, <2>2, <3>1, <3>2, <3>3, OuterDeletes
  <2> QED
    BY <2>1, <2>2
<1> HIDE DEF r
<1>15. UNCHANGED <<buffer, plugins, calls, ub, usage>>
  BY DEF LaunchLock
<1>14. /\ TypeInv' /\ stack'[t] = r
       /\ \A u \in Threads : u # t => stack'[u] = stack[u]
  <2>1. StackOK(r, Len(scripts'))
    BY <1>11, <1>13
  <2>2. /\ TypeInv /\ buffer' \in Nat /\ plugins' \in [ScriptIDs -> Plugin] /\ calls' \in 0..MaxCalls
        /\ ub' \in {"none", "vector", "launcher"} /\ usage' = usage
    BY <1>15
  <2>3. scripts' \in Seq(ListEntry) /\ Len(scripts') >= Len(scripts) /\ globalMutex' \in Mutex
    BY <1>7, <1>11
  <2> QED
    BY ONLY <1>a, <2>1, <2>2, <2>3, TypeKept, t \in Threads
<1>16. /\ ~HoldsGlobal(r) /\ IsLaunch(r)
       /\ \A j \in Nat :
            /\ Launches(r, j) <=> j = i
            /\ ~Stops(r, j) /\ ~Forgets(r, j) /\ ~GoneTo(r, j)
            /\ Deletes(r, j) <=> n # None /\ j = n
  BY <1>4, <1>13 DEF HoldsGlobal, Launches, Stops, Forgets, Deletes, GoneTo, IsLaunch, Does
<1>17. \A u \in Threads : ~HoldsEntry(stack[u], i) /\ (u # t => ~HoldsGlobal(stack[u]))
  BY <1>3, <1>7, <1>8, <1>12 DEF IInv, MutexInv
<1>18. MutexInv'
  <2>1. ASSUME NEW u \in Threads, NEW j \in DOMAIN scripts
        PROVE  HoldsEntry(stack'[u], j) <=> scripts'[j].mutex.owner = u
    <3>1. HoldsEntry(stack[u], j) <=> scripts[j].mutex.owner = u
      BY DEF IInv, MutexInv
    <3>2. HoldsEntry(stack'[u], j) <=> HoldsEntry(stack[u], j) \/ (u = t /\ j = i)
      BY <1>5, <1>6, <1>14, <1>16 DEF HoldsEntry
    <3> QED
      BY <1>11, <1>17, <3>1, <3>2
  <2>2. \A u \in Threads : HoldsGlobal(stack'[u]) <=> globalMutex'.owner = u
    BY <1>7, <1>12, <1>14, <1>16, <1>17
  <2> QED
    BY <1>11, <2>1, <2>2 DEF MutexInv
<1>19. EntriesInv'
  <2>1. \A j \in DOMAIN scripts : Forgotten(j)' <=> Forgotten(j)
    BY <1>5, <1>6, <1>14, <1>16 DEF Forgotten
  <2>2. \A j \in DOMAIN scripts : EntryInv(j)'
    BY <1>11, <1>15, <2>1 DEF IInv, EntriesInv, EntryInv
  <2>3. \A u \in Threads, j \in DOMAIN scripts : Launches(stack'[u], j) => scripts'[j].script = None
    BY <1>6, <1>11, <1>14, <1>16 DEF IInv, EntriesInv
  <2>4. \A j, k \in DOMAIN scripts :
          scripts'[j].script # None /\ scripts'[j].script = scripts'[k].script => j = k
    BY <1>11 DEF IInv, EntriesInv
  <2> QED
    BY <1>11, <2>2, <2>3, <2>4 DEF EntriesInv
<1>20. n # None => ~plugins[n].deleted /\ \A u \in Threads : ~Deletes(stack[u], n)
  <2> SUFFICES ASSUME n # None
               PROVE  ~plugins[n].deleted /\ \A u \in Threads : ~Deletes(stack[u], n)
    OBVIOUS
  <2>1. ~Forgotten(i)
    BY <1>17 DEF Forgotten, Forgets, HoldsEntry
  <2>2. ~plugins[n].deleted
    BY <1>3, <2>1 DEF IInv, EntriesInv, EntryInv
  <2>3. ASSUME NEW u \in Threads, Deletes(stack[u], n) PROVE FALSE
    <3>1. PICK j \in DOMAIN scripts : Stops(stack[u], j) /\ scripts[j].script = n
      BY <1>3, <1>12, <2>3 DEF IInv, DeletionInv
    <3>2. j = i
      BY <1>3, <3>1 DEF IInv, EntriesInv
    <3> QED
      BY <1>17, <3>1, <3>2 DEF HoldsEntry
  <2> QED
    BY <2>2, <2>3
<1>21. DeletionInv'
  <2>1. ASSUME NEW u \in Threads, NEW m \in ScriptIDs, Deletes(stack'[u], m), u # t
        PROVE  /\ ~plugins[m].deleted
               /\ \/ \E j \in DOMAIN scripts : Stops(stack'[u], j) /\ scripts'[j].script = m
                  \/ \A j \in DOMAIN scripts : scripts'[j].script # m /\ ~Stops(stack'[u], j)
               /\ \A v \in Threads : Deletes(stack'[v], m) => v = u
    <3>1. Deletes(stack[u], m) /\ stack'[u] = stack[u]
      BY <1>14, <2>1
    <3>2. m # n \/ n = None
      BY <1>20, <3>1
    <3>3. \A v \in Threads : Deletes(stack'[v], m) => Deletes(stack[v], m)
      BY <1>6, <1>14, <1>16, <3>2
    <3>4. /\ ~plugins[m].deleted
          /\ \/ \E j \in DOMAIN scripts : Stops(stack[u], j) /\ scripts[j].script = m
             \/ \A j \in DOMAIN scripts : scripts[j].script # m /\ ~Stops(stack[u], j)
          /\ \A v \in Threads : Deletes(stack[v], m) => v = u
      BY <3>1 DEF IInv, DeletionInv
    <3>5. ~Stops(stack[u], i)
      BY <1>17 DEF HoldsEntry
    <3>6. m # None
      BY <1>12
    <3> QED
      BY <1>11, <3>1, <3>3, <3>4, <3>5, <3>6
  <2>2. ASSUME NEW m \in ScriptIDs, Deletes(stack'[t], m)
        PROVE  /\ ~plugins[m].deleted
               /\ \A j \in DOMAIN scripts : scripts'[j].script # m /\ ~Stops(stack'[t], j)
               /\ \A v \in Threads : Deletes(stack'[v], m) => v = t
    <3>1. n # None /\ m = n
      BY <1>6, <1>14, <1>16, <2>2
    <3>2. \A j \in DOMAIN scripts : scripts'[j].script # m
      BY <1>3, <1>11, <3>1 DEF IInv, EntriesInv
    <3> QED
      BY <1>6, <1>14, <1>16, <1>20, <3>1, <3>2
  <2> QED
    BY <1>11, <1>15, <2>1, <2>2 DEF DeletionInv
<1>22. ExistInv'
  <2>1. ASSUME NEW m \in ScriptIDs, ~plugins[m].deleted
        PROVE  /\ plugins[m].path # None
               /\ \/ \E j \in DOMAIN scripts : scripts'[j].script = m
                  \/ \E u \in Threads : Deletes(stack'[u], m)
    <3>1. CASE m = n
      BY <1>6, <1>12, <1>14, <1>16, <2>1, <3>1 DEF IInv, ExistInv
    <3>2. CASE m # n
      <4>1. \A u \in Threads : Deletes(stack[u], m) => Deletes(stack'[u], m)
        BY <1>5, <1>6, <1>14
      <4> QED
        BY <1>11, <2>1, <3>2, <4>1 DEF IInv, ExistInv
    <3> QED
      BY <3>1, <3>2
  <2> QED
    BY <1>11, <1>15, <2>1 DEF ExistInv
<1>23. IDsInv'
  <2>1. Used' = Used
    BY <1>15 DEF Used
  <2>2. Launching' = Launching
    BY <1>5, <1>14, <1>16 DEF Launching
  <2> QED
    BY <1>15, <2>1, <2>2 DEF IInv, IDsInv
<1>24. StopAllInv'
  <2>1. ASSUME NEW u \in Threads, NEW k \in 1..(Len(scripts) + 1), GoneTo(stack'[u], k)
        PROVE  FALSE
    <3>1. k \in Nat
      BY <1>6
    <3>2. u # t
      BY <1>14, <1>16, <2>1, <3>1
    <3> QED
      BY <1>14, <1>17, <2>1, <3>2 DEF GoneTo, HoldsGlobal
  <2> QED
    BY <1>11, <2>1 DEF StopAllInv
<1> QED
  BY <1>14, <1>18, <1>19, <1>21, <1>22, <1>23, <1>24 DEF IInv

\* There is an ID for the new script: this call counts among those under way.
LEMMA NextIDFree ==
  ASSUME IInv, NEW t \in Threads, IsLaunch(stack[t])
  PROVE  /\ NextID \in ScriptIDs /\ plugins[NextID].path = None /\ plugins[NextID].deleted
         /\ \A i \in DOMAIN scripts : scripts[i].script # NextID
         /\ \A u \in Threads : ~Deletes(stack[u], NextID)
<1> DEFINE N == NextID
<1>1. N = Cardinality(Used) + 1 /\ Used = 1..(N - 1) /\ N \in Nat
  BY NextIDIs
<1>2. Cardinality(Used) \in Nat /\ Cardinality(Launching) \in Nat /\ IsFiniteSet(Launching)
  BY Counts
<1>3. Cardinality(Launching) # 0
  <2>1. t \in Launching
    BY DEF Launching
  <2> QED
    BY <1>2, <2>1, FS_EmptySet
<1>4. Cardinality(Used) + Cardinality(Launching) <= Len(Initial) + calls
  BY DEF IInv, IDsInv
<1>5. calls \in Nat /\ calls <= MaxCalls
  BY Parts, IDs
<1> HIDE DEF N
<1>6. N \in 1..(Len(Initial) + MaxCalls)
  BY <1>1, <1>2, <1>3, <1>4, <1>5, IDs
<1>7. N \in ScriptIDs
  BY <1>6, IDs
<1>8. N \notin Used
  <2>1. \A k \in Nat : k \notin 1..(k - 1)
    OBVIOUS
  <2> QED
    BY <1>1, <2>1
<1>9. plugins[N].path = None
  BY <1>7, <1>8 DEF Used
<1>10. plugins[N].deleted
  BY <1>7, <1>9 DEF IInv, ExistInv
<1>11. \A i \in DOMAIN scripts : scripts[i].script # N
  <2>1. N # None
    BY <1>7, ThreadsAssumption DEF Threads
  <2> QED
    BY <1>9, <2>1 DEF IInv, EntriesInv, EntryInv
<1>12. \A u \in Threads : ~Deletes(stack[u], N)
  BY <1>7, <1>10 DEF IInv, DeletionInv
<1> QED
  BY <1>7, <1>9, <1>10, <1>11, <1>12 DEF N

\* The script is made, and the entry can be found again.
LEMMA LaunchCreateKept ==
  ASSUME IInv, NEW t \in Threads, LaunchCreate(t)
  PROVE  IInv'
<1> USE Parts
<1> DEFINE s == stack[t]
           i == Top(t).ref.i
           N == NextID
           e == [path |-> Top(t).key, script |-> N, scriptID |-> N, mutex |-> Unlocked(scripts[i].mutex)]
<1>1. s # <<>> /\ Last(s).op = "launch" /\ Last(s).at = "create" /\ Last(s) = Top(t)
  BY DEF LaunchCreate, At, Top
<1>2. Len(s) = 1 /\ s[1] = Top(t) /\ Top(t) \in Frame /\ Top(t).key \in Paths /\ HasRef(Top(t), Len(scripts))
  <2>1. Len(s) = 1 /\ s[1] = Top(t) /\ Top(t) \in Frame /\ OuterOK(Top(t), Len(scripts))
    BY <1>1, TopCall
  <2> QED
    BY <1>1, <2>1 DEF OuterOK, WithOK
<1>3. i \in DOMAIN scripts
  BY <1>2 DEF HasRef
<1>4. DOMAIN scripts \subseteq Nat /\ Len(scripts) \in Nat /\ ScriptIDs \subseteq Nat
      /\ None \notin Threads \union ScriptIDs /\ None \notin Paths
  BY IDs, ThreadsAssumption DEF Threads
<1>5. /\ ~HoldsGlobal(s) /\ IsLaunch(s)
      /\ \A j \in Nat : /\ Launches(s, j) <=> j = i
                        /\ ~Stops(s, j) /\ ~Forgets(s, j) /\ ~Deletes(s, j) /\ ~GoneTo(s, j)
  BY <1>1, <1>2 DEF HoldsGlobal, IsLaunch, Launches, Stops, Forgets, Deletes, GoneTo, Does
<1>6. scripts[i].script = None /\ scripts[i].mutex.owner = t
  BY <1>3, <1>4, <1>5 DEF IInv, EntriesInv, MutexInv, HoldsEntry
<1>7. /\ N \in ScriptIDs /\ plugins[N].path = None /\ plugins[N].deleted
      /\ \A j \in DOMAIN scripts : scripts[j].script # N
      /\ \A u \in Threads : ~Deletes(stack[u], N)
  BY <1>5, NextIDFree
<1>8. e \in ListEntry /\ e.mutex.owner = None /\ e.script = N /\ e.scriptID = N /\ e.path = Top(t).key
  <2> DEFINE m == Unlocked(scripts[i].mutex)
  <2>1. scripts[i].mutex \in Mutex
    BY <1>3 DEF ListEntry
  <2>2. m \in Mutex /\ m.owner = None
    BY <1>6, <2>1, UnlockHeld
  <2>3. e = [path |-> Top(t).key, script |-> N, scriptID |-> N, mutex |-> m]
    OBVIOUS
  <2> HIDE DEF m, e, N
  <2> QED
    BY <1>2, <1>7, <2>2, <2>3 DEF ListEntry
<1>9. scripts' = [scripts EXCEPT ![i] = e]
  BY DEF LaunchCreate
<1>10. PICK p, r :
         /\ plugins' = [plugins EXCEPT ![N] = p] /\ p \in Plugin /\ p.path = Top(t).key /\ ~p.deleted
         /\ stack' = [stack EXCEPT ![t] = r] /\ StackOK(r, Len(scripts)) /\ Passive(r) /\ ~IsLaunch(r)
  <2> PICK later \in BOOLEAN :
         /\ plugins' = [plugins EXCEPT
              ![NextID] = NewPlugin(Top(t).key, IF later THEN "none" ELSE "starting")]
         /\ IF later THEN GoOn(t, Call("launcher", "start", NextID)) ELSE Return(t)
    BY DEF LaunchCreate
  <2> DEFINE p == NewPlugin(Top(t).key, IF later THEN "none" ELSE "starting")
  <2>1. p \in Plugin /\ p.path = Top(t).key /\ ~p.deleted
    BY <1>2 DEF NewPlugin, Plugin
  <2>2. plugins' = [plugins EXCEPT ![N] = p]
    OBVIOUS
  <2> HIDE DEF p
  <2>3. CASE later
    <3> DEFINE c == Call("launcher", "start", N)
               r == Append(Front(s), c)
    <3>1. stack' = [stack EXCEPT ![t] = r]
      BY <2>3 DEF GoOn
    <3> HIDE DEF N
    <3>2. c \in Frame /\ c.op = "launcher" /\ OuterOK(c, Len(scripts))
      BY <1>4, <1>7 DEF Call, Frame, Op, OuterOK
    <3> HIDE DEF c
    <3>3. StackOK(r, Len(scripts)) /\ Len(r) = 1 /\ r[1] = c
      BY <1>2, <3>2, OuterGoesOn
    <3> HIDE DEF r
    <3>4. Passive(r) /\ ~IsLaunch(r)
      BY <3>2, <3>3 DEF Passive, IsLaunch
    <3> QED
      BY <2>1, <2>2, <3>1, <3>3, <3>4 DEF N
  <2>4. CASE ~later
    <3>1. Front(s) = <<>> /\ StackOK(<<>>, Len(scripts))
      BY <1>2, OuterReturns
    <3>2. stack' = [stack EXCEPT ![t] = <<>>]
      BY <2>4, <3>1 DEF Return
    <3>3. Passive(<<>>) /\ ~IsLaunch(<<>>)
      BY DEF Passive, IsLaunch
    <3> QED
      BY <2>1, <2>2, <3>1, <3>2, <3>3
  <2> QED
    BY <2>3, <2>4
<1>11. NextID = Cardinality(Used) + 1 /\ Used = 1..(NextID - 1) /\ NextID \in Nat
  BY NextIDIs
<1>12. UNCHANGED <<buffer, globalMutex, calls, ub, usage>>
  BY DEF LaunchCreate
<1> HIDE DEF e, N
<1>13. /\ scripts' \in Seq(ListEntry) /\ Len(scripts') = Len(scripts) /\ Len(scripts') >= Len(scripts)
       /\ DOMAIN scripts' = DOMAIN scripts
       /\ scripts'[i].script = N /\ scripts'[i].scriptID = N /\ scripts'[i].path = Top(t).key
       /\ scripts'[i].mutex.owner = None
       /\ \A j \in DOMAIN scripts : j # i => scripts'[j] = scripts[j]
  BY <1>3, <1>8, <1>9, EntrySet
<1>14. /\ plugins' \in [ScriptIDs -> Plugin]
       /\ plugins'[N].path = Top(t).key /\ ~plugins'[N].deleted
       /\ \A m \in ScriptIDs : m # N => plugins'[m] = plugins[m]
  BY <1>7, <1>10
<1>15. /\ TypeInv' /\ stack'[t] = r
       /\ \A u \in Threads : u # t => stack'[u] = stack[u]
  <2>1. StackOK(r, Len(scripts')) /\ stack' = [stack EXCEPT ![t] = r]
    BY <1>10, <1>13
  <2>2. /\ TypeInv /\ buffer' \in Nat /\ plugins' \in [ScriptIDs -> Plugin] /\ calls' \in 0..MaxCalls
        /\ ub' \in {"none", "vector", "launcher"} /\ usage' = usage /\ globalMutex' \in Mutex
    BY <1>12, <1>14
  <2>3. scripts' \in Seq(ListEntry) /\ Len(scripts') >= Len(scripts)
    BY <1>13
  <2> QED
    BY ONLY <2>1, <2>2, <2>3, TypeKept, t \in Threads
<1>16. /\ ~HoldsGlobal(r)
       /\ \A j \in Nat : ~Launches(r, j) /\ ~Stops(r, j) /\ ~Forgets(r, j) /\ ~GoneTo(r, j) /\ ~Deletes(r, j)
  <2>1. Len(<<>>) = 0
    OBVIOUS
  <2> QED
    BY <1>10, <2>1 DEF Passive, HoldsGlobal, Launches, Stops, Forgets, Deletes, GoneTo, Does
<1>17. \A u \in Threads : u # t => ~HoldsEntry(stack[u], i)
  BY <1>3, <1>6 DEF IInv, MutexInv
<1>18. MutexInv'
  <2>1. ASSUME NEW u \in Threads, NEW j \in DOMAIN scripts
        PROVE  HoldsEntry(stack'[u], j) <=> scripts'[j].mutex.owner = u
    <3>1. HoldsEntry(stack[u], j) <=> scripts[j].mutex.owner = u
      BY DEF IInv, MutexInv
    <3>2. HoldsEntry(stack'[u], j) <=> HoldsEntry(stack[u], j) /\ ~(u = t /\ j = i)
      BY <1>4, <1>5, <1>15, <1>16 DEF HoldsEntry
    <3> QED
      BY <1>4, <1>13, <1>17, <3>1, <3>2
  <2>2. \A u \in Threads : HoldsGlobal(stack'[u]) <=> globalMutex'.owner = u
    BY <1>5, <1>12, <1>15, <1>16 DEF IInv, MutexInv
  <2> QED
    BY <1>13, <2>1, <2>2 DEF MutexInv
<1>19. \A u \in Threads, m \in ScriptIDs :
         /\ Deletes(stack'[u], m) <=> Deletes(stack[u], m)
         /\ Deletes(stack[u], m) => m # N /\ u # t
  BY <1>4, <1>5, <1>7, <1>15, <1>16
<1>20. EntriesInv'
  <2>1. \A j \in DOMAIN scripts : Forgotten(j)' <=> Forgotten(j)
    BY <1>4, <1>5, <1>15, <1>16 DEF Forgotten
  <2>2. ~Forgotten(i)
    BY <1>3, <1>4, <1>5, <1>17 DEF Forgotten, Forgets, HoldsEntry
  <2>3. ASSUME NEW j \in DOMAIN scripts, j # i PROVE EntryInv(j)'
    <3>1. EntryInv(j) /\ scripts'[j] = scripts[j]
      BY <1>13, <2>3 DEF IInv, EntriesInv
    <3>2. scripts[j].script # None => scripts[j].script \in ScriptIDs
      BY DEF ListEntry
    <3> QED
      BY <1>7, <1>14, <2>1, <3>1, <3>2 DEF EntryInv
  <2>4. ASSUME NEW j \in DOMAIN scripts, j = i PROVE EntryInv(j)'
    <3>1. scripts'[j].script = N /\ scripts'[j].scriptID = N /\ scripts'[j].path = Top(t).key
      BY <1>13, <2>4
    <3>2. ~Forgotten(j)'
      BY <2>1, <2>2, <2>4
    <3>3. plugins'[N].path = Top(t).key /\ ~plugins'[N].deleted /\ Top(t).key # None
      BY <1>2, <1>4, <1>14
    <3> QED
      BY ONLY <3>1, <3>2, <3>3 DEF EntryInv
  <2>5. \A u \in Threads, j \in DOMAIN scripts : Launches(stack'[u], j) => scripts'[j].script = None
    <3>1. \A u \in Threads : ~Launches(stack'[u], i)
      BY <1>3, <1>4, <1>15, <1>16, <1>17 DEF HoldsEntry
    <3> QED
      BY <1>4, <1>13, <1>15, <1>16, <3>1 DEF IInv, EntriesInv
  <2>6. \A j, k \in DOMAIN scripts :
          scripts'[j].script # None /\ scripts'[j].script = scripts'[k].script => j = k
    BY <1>7, <1>13 DEF IInv, EntriesInv
  <2> QED
    BY <1>13, <2>3, <2>4, <2>5, <2>6 DEF EntriesInv
<1>21. DeletionInv'
  <2>1. ASSUME NEW u \in Threads, NEW m \in ScriptIDs, Deletes(stack'[u], m)
        PROVE  /\ ~plugins'[m].deleted
               /\ \/ \E j \in DOMAIN scripts : Stops(stack'[u], j) /\ scripts'[j].script = m
                  \/ \A j \in DOMAIN scripts : scripts'[j].script # m /\ ~Stops(stack'[u], j)
               /\ \A v \in Threads : Deletes(stack'[v], m) => v = u
    <3>1. Deletes(stack[u], m) /\ m # N /\ u # t /\ stack'[u] = stack[u] /\ plugins'[m] = plugins[m]
      BY <1>14, <1>15, <1>19, <2>1
    <3>2. /\ ~plugins[m].deleted
          /\ \/ \E j \in DOMAIN scripts : Stops(stack[u], j) /\ scripts[j].script = m
             \/ \A j \in DOMAIN scripts : scripts[j].script # m /\ ~Stops(stack[u], j)
          /\ \A v \in Threads : Deletes(stack[v], m) => v = u
      BY <3>1 DEF IInv, DeletionInv
    <3>3. ~Stops(stack[u], i)
      BY <1>17, <3>1 DEF HoldsEntry
    <3> QED
      BY <1>13, <1>19, <3>1, <3>2, <3>3
  <2> QED
    BY <1>13, <2>1 DEF DeletionInv
<1>22. ExistInv'
  <2>1. ASSUME NEW m \in ScriptIDs, ~plugins'[m].deleted
        PROVE  /\ plugins'[m].path # None
               /\ \/ \E j \in DOMAIN scripts : scripts'[j].script = m
                  \/ \E u \in Threads : Deletes(stack'[u], m)
    <3>1. CASE m = N
      BY <1>2, <1>3, <1>4, <1>13, <1>14, <3>1
    <3>2. CASE m # N
      <4>1. plugins'[m] = plugins[m]
        BY <1>14, <3>2
      <4>2. \A j \in DOMAIN scripts : scripts[j].script = m => j # i
        BY <1>4, <1>6
      <4> QED
        BY <1>13, <1>19, <2>1, <4>1, <4>2 DEF IInv, ExistInv
    <3> QED
      BY <3>1, <3>2
  <2> QED
    BY <1>13, <2>1 DEF ExistInv
<1>23. IDsInv'
  <2>1. Used' = Used \union {N}
    BY <1>2, <1>4, <1>7, <1>14 DEF Used
  <2>2. N = Cardinality(Used) + 1 /\ Used = 1..(N - 1) /\ N \in Nat
    BY <1>11 DEF N
  <2>3. N \notin Used
    BY <1>7 DEF Used
  <2>4. Cardinality(Used') = N
    BY <2>1, <2>2, <2>3, Counts, FS_AddElement
  <2>5. 1..(N - 1) \union {N} = 1..N
    <3>1. N \in Nat \ {0}
      BY <2>2, Counts
    <3>2. \A k \in Nat \ {0} : 1..(k - 1) \union {k} = 1..k
      OBVIOUS
    <3> QED
      BY <3>1, <3>2
  <2>6. Used' = 1..Cardinality(Used')
    BY <2>1, <2>2, <2>4, <2>5
  <2>7. Launching' = Launching \ {t} /\ t \in Launching
    BY <1>5, <1>10, <1>15 DEF Launching
  <2>8. Cardinality(Launching') = Cardinality(Launching) - 1
    BY <2>7, Counts, FS_RemoveElement
  <2>9. Cardinality(Used') + Cardinality(Launching') <= Len(Initial) + calls
    <3>1. Cardinality(Used) + Cardinality(Launching) <= Len(Initial) + calls
      BY DEF IInv, IDsInv
    <3>2. calls \in Nat
      BY IDs
    <3>3. \A a, b, c, d \in Nat : a + b <= c + d => (a + 1) + (b - 1) <= c + d
      OBVIOUS
    <3>4. Cardinality(Used') = Cardinality(Used) + 1
      BY <2>2, <2>4
    <3>5. Cardinality(Used) \in Nat /\ Cardinality(Launching) \in Nat /\ Len(Initial) \in Nat
      BY Counts, IDs
    <3> QED
      BY ONLY <2>8, <3>1, <3>2, <3>3, <3>4, <3>5
  <2> QED
    BY <1>12, <2>6, <2>9 DEF IDsInv
<1>24. StopAllInv'
  <2>1. ASSUME NEW u \in Threads, NEW k \in 1..(Len(scripts) + 1), GoneTo(stack'[u], k),
               NEW j \in DOMAIN scripts, j < k
        PROVE  scripts'[j].script = None /\ \A v \in Threads : ~Launches(stack'[v], j)
    <3>1. k \in Nat /\ j \in Nat
      BY <1>4
    <3>2. GoneTo(stack[u], k)
      BY <1>15, <1>16, <2>1, <3>1
    <3>3. scripts[j].script = None /\ \A v \in Threads : ~Launches(stack[v], j)
      BY <2>1, <3>2 DEF IInv, StopAllInv
    <3>4. j # i
      BY <1>3, <1>4, <1>5, <3>3
    <3> QED
      BY <1>13, <1>15, <1>16, <3>1, <3>3, <3>4
  <2> QED
    BY <1>13, <2>1 DEF StopAllInv
<1> QED
  BY <1>15, <1>18, <1>20, <1>21, <1>22, <1>23, <1>24 DEF IInv

-----------------------------------------------------------------------------
(* The invariant *)

LEMMA InitIInv == Init => IInv
<1> SUFFICES ASSUME Init PROVE IInv
  OBVIOUS
<1>1. /\ Initial \in Seq(Paths) /\ Len(Initial) \in Nat /\ DOMAIN Initial = 1..Len(Initial)
      /\ \A i \in 1..Len(Initial) : Initial[i] \in Paths
  BY PathsAssumption
<1>2. 1..Len(Initial) \subseteq ScriptIDs /\ None \notin ScriptIDs \union Paths \union Threads
  BY <1>1, IDs, ThreadsAssumption DEF Threads
<1>3. Free \in Mutex /\ Free.owner = None
  BY DEF Mutex, Free
<1>4. /\ scripts \in Seq(ListEntry) /\ Len(scripts) = Len(Initial) /\ DOMAIN scripts = 1..Len(Initial)
      /\ \A i \in 1..Len(Initial) :
           scripts[i].path = Initial[i] /\ scripts[i].script = i /\ scripts[i].scriptID = i
           /\ scripts[i].mutex.owner = None
  <2> DEFINE e(i) == [path |-> Initial[i], script |-> i, scriptID |-> i, mutex |-> Free]
  <2>1. scripts = [i \in 1..Len(Initial) |-> e(i)]
    BY <1>1 DEF Init
  <2>2. \A i \in 1..Len(Initial) :
          /\ e(i) \in ListEntry /\ e(i).path = Initial[i] /\ e(i).script = i
          /\ e(i).scriptID = i /\ e(i).mutex.owner = None
    BY <1>1, <1>2, <1>3 DEF ListEntry
  <2> HIDE DEF e
  <2>3. scripts \in Seq(ListEntry) /\ Len(scripts) = Len(Initial) /\ DOMAIN scripts = 1..Len(Initial)
    BY <1>1, <2>1, <2>2
  <2> QED
    BY <2>1, <2>2, <2>3
<1>5. /\ plugins \in [ScriptIDs -> Plugin]
      /\ \A n \in ScriptIDs :
           /\ plugins[n].path # None <=> n \in 1..Len(Initial)
           /\ plugins[n].deleted <=> n \notin 1..Len(Initial)
      /\ \A n \in 1..Len(Initial) : plugins[n].path = Initial[n]
  <2>1. \A n \in 1..Len(Initial) :
          /\ NewPlugin(Initial[n], "starting") \in Plugin
          /\ NewPlugin(Initial[n], "starting").path = Initial[n]
          /\ ~NewPlugin(Initial[n], "starting").deleted
    BY <1>1 DEF NewPlugin, Plugin
  <2>2. NoPlugin \in Plugin /\ NoPlugin.path = None /\ NoPlugin.deleted
    BY DEF NoPlugin, NewPlugin, Plugin
  <2>3. plugins = [n \in ScriptIDs |->
          IF n \in 1..Len(Initial) THEN NewPlugin(Initial[n], "starting") ELSE NoPlugin]
    BY <1>1 DEF Init
  <2> QED
    BY <1>1, <1>2, <2>1, <2>2, <2>3
<1>6. DOMAIN stack = Threads /\ \A t \in Threads : stack[t] = <<>>
  BY DEF Init
<1>7. \A n : StackOK(<<>>, n)
  <2>1. <<>> \in Seq(Frame) /\ Len(<<>>) = 0
    OBVIOUS
  <2> QED
    BY <2>1 DEF StackOK
<1>8. \A t \in Threads :
        /\ ~HoldsGlobal(stack[t]) /\ ~IsLaunch(stack[t])
        /\ \A j : /\ ~Launches(stack[t], j) /\ ~Stops(stack[t], j) /\ ~HoldsEntry(stack[t], j)
                  /\ ~Forgets(stack[t], j) /\ ~Deletes(stack[t], j) /\ ~GoneTo(stack[t], j)
  <2>1. Len(<<>>) = 0
    OBVIOUS
  <2> QED
    BY <1>6, <2>1 DEF HoldsGlobal, IsLaunch, Launches, Stops, HoldsEntry, Forgets, Deletes, GoneTo, Does
<1>9. TypeInv
  <2>1. buffer \in Nat /\ calls \in 0..MaxCalls /\ ub \in {"none", "vector", "launcher"}
        /\ usage \in Usages /\ globalMutex \in Mutex
    BY <1>3, IDs DEF Init
  <2> QED
    BY <1>4, <1>5, <1>6, <1>7, <2>1 DEF TypeInv
<1>10. MutexInv
  BY <1>2, <1>3, <1>4, <1>8 DEF MutexInv, Init
<1>11. EntriesInv
  <2>1. \A i, j \in DOMAIN scripts :
          scripts[i].script # None /\ scripts[i].script = scripts[j].script => i = j
    BY <1>4
  <2>2. ASSUME NEW i \in DOMAIN scripts PROVE EntryInv(i)
    <3>1. /\ scripts[i].script = i /\ scripts[i].scriptID = i /\ scripts[i].path = plugins[i].path
          /\ plugins[i].path # None /\ ~plugins[i].deleted
      BY <1>2, <1>4, <1>5
    <3>2. ~Forgotten(i)
      BY <1>8 DEF Forgotten
    <3> QED
      BY <3>1, <3>2 DEF EntryInv
  <2>3. \A t \in Threads, i \in DOMAIN scripts : ~Launches(stack[t], i)
    BY <1>8
  <2> QED
    BY <2>1, <2>2, <2>3 DEF EntriesInv
<1>12. DeletionInv
  BY <1>8 DEF DeletionInv
<1>13. ExistInv
  BY <1>4, <1>5 DEF ExistInv
<1>14. IDsInv
  <2>1. Used = 1..Len(Initial)
    BY <1>2, <1>5 DEF Used
  <2>2. Cardinality(Used) = Len(Initial)
    <3>1. \A k \in Nat : Cardinality(1..k) = k
      BY FS_Interval
    <3> QED
      BY <1>1, <2>1, <3>1
  <2>3. Launching = {}
    BY <1>8 DEF Launching
  <2>4. Cardinality(Launching) = 0
    BY <2>3, FS_EmptySet
  <2>5. calls = 0
    BY DEF Init
  <2> QED
    BY <1>1, <2>1, <2>2, <2>4, <2>5 DEF IDsInv
<1>15. StopAllInv
  BY <1>8 DEF StopAllInv
<1> QED
  BY <1>9, <1>10, <1>11, <1>12, <1>13, <1>14, <1>15 DEF IInv

LEMMA StepKept ==
  ASSUME IInv, NEW t \in Threads, Step(t)
  PROVE  IInv'
<1>1. CASE Launch(t)
  BY <1>1, LaunchFindKept, LaunchLockKept, LaunchCreateKept, UseAfterMoveKept, LauncherKept DEF Launch
<1>2. CASE Stop(t)
  BY <1>2, StopFindKept, StopLocksKept, StopDoneKept, UseAfterMoveKept DEF Stop
<1>3. CASE StopAll(t)
  BY <1>3, StopAllBeginKept, StopLocksKept, StopAllDoneKept, StopAllEndKept DEF StopAll
<1>4. CASE With(t)
  BY <1>4, WithFindKept, WithBlockKept, UseAfterMoveKept DEF With
<1>5. CASE Delete(t)
  BY <1>5, DeletionKept, DeleteFreeKept DEF Delete
<1> QED
  BY <1>1, <1>2, <1>3, <1>4, <1>5 DEF Step

LEMMA NextIInv == IInv /\ [Next]_vars => IInv'
<1> SUFFICES ASSUME IInv, [Next]_vars PROVE IInv'
  OBVIOUS
<1>1. CASE UNCHANGED vars
  <2>1. UNCHANGED <<scripts, buffer, globalMutex, plugins, stack, calls, ub, usage>>
    BY <1>1 DEF vars, listVars
  <2>2. TypeInv'
    BY <2>1 DEF IInv, TypeInv
  <2>3. calls' >= calls
    BY <2>1, IDs DEF IInv, TypeInv
  <2> QED
    BY <2>1, <2>2, <2>3, SameSame, QuietKept
<1>2. ASSUME NEW n \in ScriptIDs, ScriptFails(n) \/ CallbackEnds(n) \/ Runs(n)
      PROVE  IInv'
  <2>1. n \in Threads
    BY DEF Threads
  <2> QED
    BY <1>2, <2>1, ThreadsKept, ControlSentKept DEF Runs
<1>3. CASE \/ \E t \in Detached, path \in Paths : MenuBegins(t, path)
           \/ SimulatorBegins
           \/ \E n \in ScriptIDs : ScriptBegins(n)
  BY <1>3, BeginsKept
<1>4. CASE \E t \in Threads : Step(t)
  BY <1>4, StepKept
<1> QED
  BY <1>1, <1>2, <1>3, <1>4 DEF Next

\* The list, the locks, the stacks of calls and the scripts agree, whatever the threads do.
THEOREM Invariance == Spec => []IInv
BY InitIInv, NextIInv, PTL DEF Spec

-----------------------------------------------------------------------------
(* What follows *)

\* Every script that exists is in the list or is being deleted (LuaPlugin::launchScript and
\* deleteScript), and all is of its type.
THEOREM Orphans == Spec => []NoOrphans
<1>1. IInv => NoOrphans
  <2> SUFFICES ASSUME IInv PROVE NoOrphans
    OBVIOUS
  <2>1. TypeInv /\ \A i \in DOMAIN scripts : scripts[i] \in ListEntry
    BY DEF IInv, TypeInv
  <2>2. \A m \in Mutex : MutexOK(m)
    BY ThreadsAssumption DEF Mutex, MutexOK, Free
  <2>3. \A i \in DOMAIN scripts :
          /\ scripts[i].path \in Paths \union {None}
          /\ {scripts[i].script, scripts[i].scriptID} \subseteq ScriptIDs \union {None}
          /\ MutexOK(scripts[i].mutex)
    BY <2>1, <2>2 DEF ListEntry
  <2>4. \A c \in Frame : DOMAIN c = {"op", "at", "key", "ref"}
    BY DEF Frame
  <2>5. \A t \in Threads : \A k \in DOMAIN stack[t] : stack[t][k] \in Frame
    BY <2>1 DEF TypeInv, StackOK
  <2>6. TypeOK
    BY <2>1, <2>2, <2>3, <2>4, <2>5 DEF TypeOK, TypeInv
  <2> QED
    BY <2>1, <2>6, DeletingIs DEF NoOrphans, IInv, ExistInv
<1> QED
  BY <1>1, Invariance, PTL

\* withScript runs its block on the script that was looked for, while that exists, and no
\* script is deleted by two threads (LuaPlugin::withScript, deleteScript).
THEOREM UseAfterDelete == Spec => []NoUseAfterDelete
<1>1. IInv => NoUseAfterDelete
  <2> SUFFICES ASSUME IInv PROVE NoUseAfterDelete
    OBVIOUS
  <2>1. TypeInv /\ ub # "withScript"
    BY DEF IInv, TypeInv
  <2>2. ASSUME NEW n \in ScriptIDs
        PROVE  Cardinality({t \in Threads : IsDeleting(t, n)}) <= (IF plugins[n].deleted THEN 0 ELSE 1)
    <3> DEFINE D == {t \in Threads : IsDeleting(t, n)}
    <3>1. \A t \in D : Deletes(stack[t], n)
      BY <2>1, DeletingIs
    <3>2. D # {} => ~plugins[n].deleted
      BY <3>1 DEF IInv, DeletionInv
    <3>3. \A t, u \in D : t = u
      BY <3>1 DEF IInv, DeletionInv
    <3> HIDE DEF D
    <3>4. CASE D = {}
      <4>1. Cardinality(D) = 0
        BY <3>4, FS_EmptySet
      <4> QED
        BY <4>1 DEF D
    <3>5. CASE D # {}
      <4>1. PICK t : D = {t}
        BY <3>3, <3>5
      <4>2. Cardinality(D) = 1
        BY <4>1, FS_Singleton
      <4> QED
        BY <3>2, <3>5, <4>2 DEF D
    <3> QED
      BY <3>4, <3>5
  <2> QED
    BY <2>1, <2>2 DEF NoUseAfterDelete
<1> QED
  BY <1>1, Invariance, PTL

\* When stopAllScripts returns no script is left (LuaPlugin::stopAllScripts), whatever other
\* threads launch, stop or restart meanwhile.
THEOREM NoneLeft == Spec => StopAllLeavesNone
<1>1. ASSUME IInv, NEW t \in Threads, StopAllEnd(t), NEW n \in ScriptIDs
      PROVE  plugins[n].deleted
  <2> USE <1>1
  <2> SUFFICES ASSUME ~plugins[n].deleted PROVE FALSE
    OBVIOUS
  <2> DEFINE s == stack[t]
             size == Len(scripts)
  <2>1. s # <<>> /\ Last(s).op = "stopAll" /\ Last(s).at = "next" /\ Last(s) = Top(t)
    BY <1>1 DEF StopAllEnd, At, Top
  <2>2. Len(s) = 1 /\ s[1] = Top(t) /\ OuterOK(Top(t), size)
    BY <1>1, <2>1, Parts, TopCall
  <2>3. Top(t).key \in 1..(size + 1) /\ size \in Nat /\ Top(t).key > size
    BY <1>1, <2>1, <2>2, Parts DEF OuterOK, WithOK, StopAllEnd
  <2>4. Top(t).key = size + 1 /\ size + 1 \in 1..(size + 1)
    BY <2>3
  <2>5. GoneTo(s, size + 1) /\ HoldsGlobal(s) /\ ~Does(s, "stopAll", "deleted")
    BY <2>1, <2>2, <2>4 DEF GoneTo, HoldsGlobal, Does
  <2>6. \A i \in DOMAIN scripts :
          scripts[i].script = None /\ \A u \in Threads : ~Launches(stack[u], i)
    <3>1. \A i \in DOMAIN scripts : i < size + 1
      BY <1>1, Parts
    <3> QED
      BY <1>1, <2>4, <2>5, <3>1 DEF IInv, StopAllInv
  <2>7. None # n
    BY ThreadsAssumption DEF Threads
  <2>8. PICK u \in Threads : Deletes(stack[u], n)
    BY <1>1, <2>6, <2>7 DEF IInv, ExistInv
  <2>9. StackOK(stack[u], size) /\ stack[u] \in Seq(Frame) /\ Len(stack[u]) >= 2
    BY <1>1, <2>8, Parts DEF Deletes
  <2>10. Waits(stack[u]) /\ OuterOK(stack[u][1], size)
    BY <2>9 DEF StackOK
  <2>11. CASE Does(stack[u], "stopAll", "deleted")
    <3>1. HoldsGlobal(stack[u])
      BY <2>11 DEF HoldsGlobal
    <3>2. u = t
      BY <1>1, <2>5, <3>1 DEF IInv, MutexInv
    <3> QED
      BY <2>5, <2>11, <3>2
  <2>12. CASE ~Does(stack[u], "stopAll", "deleted")
    <3>1. Does(stack[u], "launch", "create") \/ Does(stack[u], "stop", "deleted")
      BY <2>10, <2>12 DEF Waits
    <3>2. HasRef(stack[u][1], size)
      BY <2>10, <3>1 DEF OuterOK, WithOK, Does
    <3>3. stack[u][1].ref.i \in DOMAIN scripts
      BY <1>1, <3>2, Parts DEF HasRef
    <3>4. Does(stack[u], "stop", "deleted") /\ Stops(stack[u], stack[u][1].ref.i)
      BY <2>6, <3>1, <3>3 DEF Launches, Stops
    <3> QED
      BY <1>1, <2>6, <2>7, <2>8, <3>3, <3>4 DEF IInv, DeletionInv
  <2> QED
    BY <2>11, <2>12
<1>2. IInv /\ [Next]_vars =>
        [\A t \in Threads : StopAllEnd(t) => \A n \in ScriptIDs : plugins[n].deleted]_vars
  BY <1>1
<1> QED
  BY <1>2, Invariance, PTL DEF StopAllLeavesNone, Spec

-----------------------------------------------------------------------------
(* Who waits for whom *)

\* The combinations of uses in which no threads wait for one another: the scripts' threads
\* call nothing; or nothing is stopped, and no script but those launched first takes
\* mutexes; or no mutex is held at all.
SafeUse(uses) ==
  \/ uses \cap {"close", "collect", "control", "scripted"} = {}
  \/ uses \cap {"stop", "stopAll", "collect", "control"} = {}
  \/ uses \cap {"launch", "stop", "stopAll"} = {}

Stopping == "stop" \in usage \/ "stopAll" \in usage

\* What a thread may be calling.
CallerOK(t, s) == s # <<>> =>
  /\ t = UI => s[1].op \in {"with", "stopAll"}
  /\ t \in ScriptIDs =>
       \/ s[1].op = "with" /\ "collect" \in usage
       \/ s[1].op = "control" /\ "control" \in usage
       \/ /\ s[1].op \in {"launch", "stop"} /\ "scripted" \in usage
          /\ plugins[t].path \in Range(Initial)
          /\ s[1].key \in Paths \ Range(Initial)
  /\ s[1].op = "control" => t \in ScriptIDs
  /\ s[1].op \in {"launch", "stop", "stopAll"} => s[1].op \in usage

CallersInv == \A t \in Threads : CallerOK(t, stack[t])

\* A finaliser looks for the script that is being deleted, and only a stop leaves it in
\* the list meanwhile.
ClosingOK(s) == Len(s) = 3 =>
  /\ "close" \in usage /\ s[3].key = s[2].key
  /\ Stopping \/ s[3].at = "find"

ClosingInv == \A t \in Threads : ClosingOK(stack[t])

\* The entry of a launch is hidden.
HiddenInv ==
  /\ \A t \in Threads, i \in DOMAIN scripts : Launches(stack[t], i) => scripts[i].path = None
  /\ ~Stopping => \A i \in DOMAIN scripts :
       scripts[i].scriptID # None => scripts[i].script = scripts[i].scriptID

\* A launch waits for the entry of its path, and deletes the script of that path.
RestartOK(s) ==
  /\ Does(s, "launch", "lock") => scripts[s[1].ref.i].path = s[1].key
  /\ \A n \in ScriptIDs : IsLaunch(s) /\ Deletes(s, n) => plugins[n].path = s[1].key

RestartInv == \A t \in Threads : RestartOK(stack[t])

WaitInv == CallersInv /\ ClosingInv /\ HiddenInv /\ RestartInv

\* A stack that the call it begins with goes on to.
Continues(s, r) == r # <<>> =>
  /\ s # <<>> /\ r[1].op = s[1].op
  /\ s[1].op \in {"launch", "stop"} => r[1].key = s[1].key

LEMMA CallersKept ==
  ASSUME TypeInv, CallersInv, ClosingInv, NEW t \in Threads, NEW r, stack' = [stack EXCEPT ![t] = r],
         usage' = usage, Continues(stack[t], r), ClosingOK(r),
         \A n \in ScriptIDs : plugins[n].path # None => plugins'[n].path = plugins[n].path
  PROVE  CallersInv' /\ ClosingInv'
<1>1. stack'[t] = r /\ \A u \in Threads : u # t => stack'[u] = stack[u]
  BY DEF TypeInv
<1>2. \A u \in ScriptIDs : plugins[u].path \in Range(Initial) => plugins'[u].path = plugins[u].path
  <2>1. Range(Initial) \subseteq Paths
    BY PathsAssumption DEF Range
  <2> QED
    BY <2>1, ThreadsAssumption
<1>3. ASSUME NEW u \in Threads PROVE CallerOK(u, stack[u])'
  <2>1. CASE u = t
    BY <1>1, <1>2, <2>1 DEF CallersInv, CallerOK, Continues
  <2>2. CASE u # t
    BY <1>1, <1>2, <2>2 DEF CallersInv, CallerOK
  <2> QED
    BY <2>1, <2>2
<1>4. ASSUME NEW u \in Threads PROVE ClosingOK(stack[u])'
  BY <1>1 DEF ClosingInv, ClosingOK, Stopping
<1> QED
  BY <1>3, <1>4 DEF CallersInv, ClosingInv

\* The entry a launch waits for is in the list.
LEMMA LaunchRef ==
  ASSUME IInv, NEW t \in Threads, Does(stack[t], "launch", "lock") \/ Does(stack[t], "launch", "create")
  PROVE  stack[t][1].ref.i \in DOMAIN scripts /\ stack[t][1].key \in Paths
<1> USE Parts
<1> DEFINE s == stack[t]
<1>1. Len(s) >= 1
  BY Empty DEF Does
<1>2. OuterOK(s[1], Len(scripts))
  BY <1>1 DEF StackOK
<1>3. s[1].key \in Paths /\ HasRef(s[1], Len(scripts))
  BY <1>2 DEF Does, OuterOK, WithOK
<1> QED
  BY <1>3 DEF HasRef

\* A step that leaves alone what launches are about.
LEMMA WaitKept ==
  ASSUME IInv, WaitInv, NEW t \in Threads, NEW r, stack' = [stack EXCEPT ![t] = r],
         usage' = usage, Continues(stack[t], r), ClosingOK(r),
         \A n \in ScriptIDs : plugins'[n].path = plugins[n].path,
         DOMAIN scripts' = DOMAIN scripts,
         \A i \in DOMAIN scripts :
           /\ scripts'[i].path = scripts[i].path /\ scripts'[i].scriptID = scripts[i].scriptID
           /\ scripts'[i].script = scripts[i].script \/ Stopping,
         \A i \in Nat : Launches(r, i) => Launches(stack[t], i),
         ~Does(r, "launch", "lock"),
         \A n \in ScriptIDs : IsLaunch(r) /\ Deletes(r, n) => IsLaunch(stack[t]) /\ Deletes(stack[t], n)
  PROVE  WaitInv'
<1> USE Parts
<1>1. stack'[t] = r /\ \A u \in Threads : u # t => stack'[u] = stack[u]
  BY DEF TypeInv
<1>2. CallersInv' /\ ClosingInv'
  BY CallersKept DEF WaitInv
<1>3. DOMAIN scripts \subseteq Nat
  OBVIOUS
<1>4. HiddenInv'
  <2>1. \A u \in Threads, i \in DOMAIN scripts : Launches(stack'[u], i) => scripts'[i].path = None
    BY <1>1, <1>3 DEF WaitInv, HiddenInv
  <2>2. Stopping' <=> Stopping
    BY DEF Stopping
  <2>3. ~Stopping => \A i \in DOMAIN scripts :
          scripts'[i].scriptID # None => scripts'[i].script = scripts'[i].scriptID
    BY DEF WaitInv, HiddenInv
  <2> QED
    BY <2>1, <2>2, <2>3 DEF HiddenInv
<1>5. ASSUME NEW u \in Threads PROVE RestartOK(stack[u])'
  <2>1. CASE u = t
    <3>1. \A n \in ScriptIDs : IsLaunch(r) /\ Deletes(r, n) => plugins'[n].path = r[1].key
      BY DEF WaitInv, RestartInv, RestartOK, Continues, IsLaunch
    <3> QED
      BY <1>1, <2>1, <3>1 DEF RestartOK
  <2>2. CASE u # t
    <3>1. Does(stack[u], "launch", "lock") => stack[u][1].ref.i \in DOMAIN scripts
      BY LaunchRef
    <3> QED
      BY <1>1, <2>2, <3>1 DEF WaitInv, RestartInv, RestartOK
  <2> QED
    BY <2>1, <2>2
<1> QED
  BY <1>2, <1>4, <1>5 DEF WaitInv, RestartInv

\* What becomes of a stack with one call.
LEMMA OuterShape ==
  ASSUME NEW s \in Seq(Frame), Len(s) = 1, NEW c \in Frame
  PROVE  LET r == Append(Front(s), c) IN
         r \in Seq(Frame) /\ Len(r) = 1 /\ r[1] = c /\ r # <<>> /\ r \o <<>> = r
<1> DEFINE r == Append(Front(s), c)
<1>1. s # <<>>
  <2>1. s = <<>> <=> Len(s) = 0
    BY Empty
  <2> QED
    BY <2>1
<1>2. r \in Seq(Frame) /\ Len(r) = 1 /\ r[1] = c /\ r \o <<>> = r
  BY <1>1, Replaced
<1> HIDE DEF r
<1>3. r # <<>>
  BY <1>2
<1> QED
  BY <1>2, <1>3 DEF r

LEMMA DeletesShape ==
  ASSUME NEW s \in Seq(Frame), Len(s) = 1, NEW c \in Frame, NEW e \in ListEntry
  PROVE  LET r == Append(Front(s), c) \o DeleteScript(e) IN
         /\ r # <<>> /\ r[1] = c /\ Len(r) # 3
         /\ \A n : Deletes(r, n) => e.script # None /\ n = e.script
<1> DEFINE r == Append(Front(s), c) \o DeleteScript(e)
<1>1. s # <<>>
  <2>1. s = <<>> <=> Len(s) = 0
    BY Empty
  <2> QED
    BY <2>1
<1>2. CASE e.script = None
  <2>1. r = Append(Front(s), c) \o <<>>
    BY <1>2 DEF DeleteScript
  <2>2. Len(r) = 1 /\ r[1] = c /\ r # <<>>
    BY <2>1, OuterShape
  <2> HIDE DEF r
  <2>3. Len(r) # 3 /\ \A n : ~Deletes(r, n)
    BY <2>2 DEF Deletes
  <2> QED
    BY <2>2, <2>3 DEF r
<1>3. CASE e.script # None
  <2> DEFINE d == Call("delete", "stop", e.script)
  <2>1. r = Append(Front(s), c) \o <<d>>
    BY <1>3 DEF DeleteScript
  <2>2. d \in Frame /\ d.key = e.script
    BY <1>3, IDs DEF Call, Frame, Op, ListEntry
  <2> HIDE DEF d
  <2>3. r \in Seq(Frame) /\ Len(r) = 2 /\ r[1] = c /\ r[2] = d
    BY <1>1, <2>1, <2>2, Extended
  <2> HIDE DEF r
  <2>4. r # <<>> /\ Len(r) # 3
    BY <2>3
  <2>5. \A n : Deletes(r, n) => n = e.script
    BY <2>2, <2>3 DEF Deletes
  <2> QED
    BY <1>3, <2>3, <2>4, <2>5 DEF r
<1> QED
  BY <1>2, <1>3

\* A call that returns to the caller of the API.
LEMMA ReturnWaits ==
  ASSUME IInv, WaitInv, NEW t \in Threads, stack' = [stack EXCEPT ![t] = <<>>],
         usage' = usage,
         \A n \in ScriptIDs : plugins'[n].path = plugins[n].path,
         DOMAIN scripts' = DOMAIN scripts,
         \A i \in DOMAIN scripts :
           /\ scripts'[i].path = scripts[i].path /\ scripts'[i].scriptID = scripts[i].scriptID
           /\ scripts'[i].script = scripts[i].script \/ Stopping
  PROVE  WaitInv'
<1>1. Len(<<>>) = 0
  OBVIOUS
<1>2. /\ Continues(stack[t], <<>>) /\ ClosingOK(<<>>) /\ ~Does(<<>>, "launch", "lock")
      /\ ~IsLaunch(<<>>) /\ \A i \in Nat : ~Launches(<<>>, i)
  BY <1>1 DEF Continues, ClosingOK, Does, IsLaunch, Launches
<1> QED
  BY <1>2, WaitKept

\* A call that is not a launch goes on.
LEMMA OuterWaits ==
  ASSUME IInv, WaitInv, NEW t \in Threads, NEW r, stack' = [stack EXCEPT ![t] = r],
         usage' = usage, stack[t] # <<>>, r # <<>>, Len(r) # 3,
         r[1].op = stack[t][1].op, r[1].op # "launch", r[1].op = "stop" => r[1].key = stack[t][1].key,
         plugins' = plugins, DOMAIN scripts' = DOMAIN scripts,
         \A i \in DOMAIN scripts :
           /\ scripts'[i].path = scripts[i].path /\ scripts'[i].scriptID = scripts[i].scriptID
           /\ scripts'[i].script = scripts[i].script \/ Stopping
  PROVE  WaitInv'
<1>1. /\ Continues(stack[t], r) /\ ClosingOK(r) /\ ~Does(r, "launch", "lock")
      /\ ~IsLaunch(r) /\ \A i \in Nat : ~Launches(r, i)
  BY DEF Continues, ClosingOK, Does, IsLaunch, Launches
<1> QED
  BY <1>1, WaitKept

\* A call inside another one goes on or returns.
LEMMA InnerWaits ==
  ASSUME IInv, WaitInv, NEW t \in Threads, NEW r, stack' = [stack EXCEPT ![t] = r],
         usage' = usage, Len(stack[t]) \in 2..3, r # <<>>, r[1] = stack[t][1], ClosingOK(r),
         Len(r) >= 2 => r[2].key = stack[t][2].key,
         \A n \in ScriptIDs : plugins'[n].path = plugins[n].path,
         scripts' = scripts
  PROVE  WaitInv'
<1>1. stack[t] # <<>> /\ ~Does(stack[t], "launch", "lock")
  <2>1. StackOK(stack[t], Len(scripts)) /\ stack[t] \in Seq(Frame)
    BY Parts
  <2>a. Len(stack[t]) >= 2
    OBVIOUS
  <2>2. Waits(stack[t])
    BY <2>1, <2>a DEF StackOK
  <2> QED
    BY <2>2 DEF Waits, Does
<1>2. /\ Continues(stack[t], r) /\ ~Does(r, "launch", "lock")
      /\ IsLaunch(r) => IsLaunch(stack[t])
      /\ \A i \in Nat : Launches(r, i) => Launches(stack[t], i)
      /\ \A n \in ScriptIDs : Deletes(r, n) => Deletes(stack[t], n)
  BY <1>1 DEF Continues, Does, IsLaunch, Launches, Deletes
<1> QED
  BY <1>2, WaitKept

\* Without stops a finaliser does not find the script that is being deleted.
LEMMA ClosingFinds ==
  ASSUME IInv, WaitInv, NEW t \in Threads, Len(stack[t]) = 3, Find(stack[t][3].key) # 0
  PROVE  Stopping
<1> USE Parts
<1> DEFINE s == stack[t]
           n == s[3].key
           i == Find(n)
<1> SUFFICES ASSUME ~Stopping PROVE FALSE
  OBVIOUS
<1>1. n = s[2].key /\ n \in ScriptIDs /\ s # <<>>
  <2>1. DeleteOK(s[2]) /\ s # <<>>
    <3>1. Len(s) >= 2
      OBVIOUS
    <3>2. s # <<>>
      BY Empty
    <3> QED
      BY <3>1, <3>2 DEF StackOK
  <2> QED
    BY <2>1 DEF WaitInv, ClosingInv, ClosingOK, DeleteOK
<1>2. Deletes(s, n)
  BY <1>1 DEF Deletes
<1>3. i \in DOMAIN scripts /\ Matches(scripts[i], n)
  BY FoundEntry
<1> HIDE DEF i
<1>4. scripts[i].scriptID = n
  <2>1. scripts[i].path \in Paths \union {None}
    BY <1>3 DEF ListEntry
  <2>2. scripts[i].path # n
    BY <1>1, <2>1, ThreadsAssumption DEF Threads
  <2> QED
    BY <1>3, <2>2 DEF Matches
<1>5. scripts[i].script = n
  <2>1. n # None
    BY <1>1, ThreadsAssumption DEF Threads
  <2> QED
    BY <1>3, <1>4, <2>1 DEF WaitInv, HiddenInv
<1>6. \A j : ~Stops(s, j)
  <2>1. s[1].op \notin {"stop", "stopAll"}
    BY <1>1 DEF WaitInv, CallersInv, CallerOK, Stopping
  <2> QED
    BY <2>1 DEF Stops, Does
<1> QED
  BY <1>1, <1>2, <1>3, <1>5, <1>6 DEF IInv, DeletionInv

LEMMA WithWaits ==
  ASSUME IInv, WaitInv, NEW t \in Threads, WithFind(t) \/ WithBlock(t)
  PROVE  WaitInv'
<1> USE Parts
<1> DEFINE s == stack[t]
           i == Find(Top(t).key)
           c == [Top(t) EXCEPT !.at = "lock", !.ref = Ref(i)]
<1>1. s # <<>> /\ Last(s).op = "with" /\ Last(s) = Top(t)
  BY DEF WithFind, WithBlock, At, Top
<1>2. /\ Top(t) \in Frame
      /\ \/ Len(s) = 1 /\ s[1] = Top(t)
         \/ Len(s) = 3 /\ s[3] = Top(t)
  <2>1. Last(s) \in Frame /\ (Last(s).op = "with" =>
                                \/ Len(s) = 1 /\ s[1] = Last(s)
                                \/ Len(s) = 3 /\ s[3] = Last(s))
    BY <1>1, TopCall
  <2> QED
    BY <1>1, <2>1
<1>3. PICK r : /\ stack' = [stack EXCEPT ![t] = r]
               /\ \/ r = Front(s)
                  \/ i # 0 /\ r = Append(Front(s), c)
  BY DEF WithFind, WithBlock, Return, GoOn
<1>4. i # 0 => c \in Frame /\ c.op = "with" /\ c.key = Top(t).key
  <2> SUFFICES ASSUME i # 0 PROVE c \in Frame /\ c.op = "with" /\ c.key = Top(t).key
    OBVIOUS
  <2>1. i \in DOMAIN scripts
    BY FoundEntry
  <2> HIDE DEF i
  <2>2. c = Found(Top(t), i)
    BY DEF Found
  <2> HIDE DEF c
  <2> QED
    BY <1>1, <1>2, <2>1, <2>2, FoundIs
<1>5. UNCHANGED <<scripts, plugins, usage>>
  BY DEF WithFind, WithBlock, listVars
<1>6. CASE Len(s) = 1
  <2>1. s[1].op = "with"
    BY <1>1, <1>2, <1>6
  <2>2. CASE r = Front(s)
    <3>1. r = <<>>
      BY <1>6, <2>2, OuterReturns
    <3> QED
      BY <1>3, <1>5, <3>1, ReturnWaits
  <2>3. CASE i # 0 /\ r = Append(Front(s), c)
    <3> HIDE DEF c
    <3>1. Len(r) = 1 /\ r[1] = c /\ r # <<>>
      BY <1>4, <1>6, <2>3, OuterShape
    <3>2. Len(r) # 3 /\ r[1].op = "with"
      BY <1>4, <2>3, <3>1
    <3> QED
      BY <1>1, <1>3, <1>5, <2>1, <3>1, <3>2, OuterWaits
  <2> QED
    BY <1>3, <2>2, <2>3
<1>7. CASE Len(s) = 3
  <2>1. Len(s) \in 2..3
    BY <1>7
  <2>2. CASE r = Front(s)
    <3>1. Len(r) = Len(s) - 1 /\ r[1] = s[1] /\ r[2] = s[2] /\ r # <<>>
      BY <1>7, <2>1, <2>2, InnerReturns
    <3>2. Len(r) # 3
      BY <1>7, <3>1
    <3>3. ClosingOK(r)
      BY <3>2 DEF ClosingOK
    <3> QED
      BY <1>3, <1>5, <2>1, <3>1, <3>3, InnerWaits
  <2>3. CASE i # 0 /\ r = Append(Front(s), c)
    <3>1. Stopping
      BY <1>1, <1>2, <1>7, <2>3, ClosingFinds
    <3> HIDE DEF c
    <3>2. r \in Seq(Frame) /\ Len(r) = 3 /\ r[1] = s[1] /\ r[2] = s[2] /\ r[3] = c
      <4>1. /\ r \in Seq(Frame) /\ Len(r) = Len(s) /\ r[Len(s)] = c
            /\ \A k \in 1..(Len(s) - 1) : r[k] = s[k]
        BY <1>1, <1>4, <2>3, Replaced
      <4> QED
        BY <1>7, <4>1
    <3>3. r # <<>>
      <4>1. r = <<>> <=> Len(r) = 0
        BY <3>2, Empty
      <4> QED
        BY <3>2, <4>1
    <3>4. ClosingOK(r)
      BY <1>2, <1>4, <1>7, <2>3, <3>1, <3>2 DEF ClosingOK, WaitInv, ClosingInv
    <3> QED
      BY <1>3, <1>5, <2>1, <3>2, <3>3, <3>4, InnerWaits
  <2> QED
    BY <1>3, <2>2, <2>3
<1> QED
  BY <1>2, <1>6, <1>7

LEMMA UseAfterMoveWaits ==
  ASSUME IInv, WaitInv, NEW t \in Threads, UseAfterMove(t)
  PROVE  WaitInv'
<1>1. UNCHANGED <<scripts, plugins, stack, usage>>
  BY DEF UseAfterMove, listVars
<1> QED
  BY <1>1 DEF WaitInv, CallersInv, CallerOK, ClosingInv, ClosingOK, HiddenInv, RestartInv, RestartOK, Stopping

\* The calls that return without having done anything else.
LEMMA ReturnsWaits ==
  ASSUME IInv, WaitInv, NEW t \in Threads,
         ControlSent(t) \/ LauncherStart(t) \/ StopAllEnd(t) \/ StopDone(t)
  PROVE  WaitInv'
<1> USE Parts
<1> DEFINE s == stack[t]
<1>1. s # <<>> /\ Last(s).op \in {"control", "launcher", "stopAll", "stop"} /\ Last(s) = Top(t)
  BY DEF ControlSent, LauncherStart, StopAllEnd, StopDone, At, Top
<1>2. Len(s) = 1 /\ s[1] = Top(t)
  BY <1>1, TopCall
<1>3. stack' = [stack EXCEPT ![t] = <<>>]
  <2>1. Front(s) = <<>>
    BY <1>2, OuterReturns
  <2> QED
    BY <2>1 DEF ControlSent, LauncherStart, StopAllEnd, StopDone, Return
<1>4. usage' = usage
  BY DEF ControlSent, LauncherStart, StopAllEnd, StopDone
<1>5. \A n \in ScriptIDs : plugins'[n].path = plugins[n].path
  <2>1. plugins' = plugins \/ plugins' = [plugins EXCEPT ![Top(t).key].thread = "starting"]
    BY DEF ControlSent, LauncherStart, StopAllEnd, StopDone
  <2> QED
    BY <2>1 DEF Plugin
<1>6. CASE ~StopDone(t)
  <2>1. scripts' = scripts
    BY <1>6 DEF ControlSent, LauncherStart, StopAllEnd, listVars
  <2> QED
    BY <1>3, <1>4, <1>5, <2>1, ReturnWaits
<1>7. CASE StopDone(t)
  <2> DEFINE i == Top(t).ref.i
  <2>1. Stopping
    BY <1>1, <1>2, <1>7 DEF StopDone, At, WaitInv, CallersInv, CallerOK, Stopping
  <2>2. scripts' = [scripts EXCEPT ![i] = Emptied(scripts[i])]
    BY <1>7 DEF StopDone
  <2>3. i \in DOMAIN scripts => /\ Emptied(scripts[i]).path = scripts[i].path
                               /\ Emptied(scripts[i]).scriptID = scripts[i].scriptID
    BY DEF Emptied, ListEntry
  <2> HIDE DEF i
  <2>4. /\ DOMAIN scripts' = DOMAIN scripts
        /\ \A j \in DOMAIN scripts :
             scripts'[j].path = scripts[j].path /\ scripts'[j].scriptID = scripts[j].scriptID
    BY <2>2, <2>3
  <2> QED
    BY <1>3, <1>4, <1>5, <2>1, <2>4, ReturnWaits
<1> QED
  BY <1>6, <1>7

\* stopScript and stopAllScripts look at the list.
LEMMA StopsLook ==
  ASSUME IInv, WaitInv, NEW t \in Threads, StopFind(t) \/ StopAllBegin(t)
  PROVE  WaitInv'
<1> USE Parts
<1> DEFINE s == stack[t]
<1>1. s # <<>> /\ Last(s).op \in {"stop", "stopAll"} /\ Last(s) = Top(t)
  BY DEF StopFind, StopAllBegin, At, Top
<1>2. Len(s) = 1 /\ s[1] = Top(t) /\ Top(t) \in Frame
  BY <1>1, TopCall
<1>3. UNCHANGED <<scripts, plugins, usage>>
  BY DEF StopFind, StopAllBegin, listVars
<1>4. CASE stack' = [stack EXCEPT ![t] = Front(s)]
  <2>1. Front(s) = <<>>
    BY <1>2, OuterReturns
  <2> QED
    BY <1>3, <1>4, <2>1, ReturnWaits
<1>5. ASSUME NEW c \in Frame, c.op = Top(t).op, c.op = "stop" => c.key = Top(t).key,
             stack' = [stack EXCEPT ![t] = Append(Front(s), c)]
      PROVE  WaitInv'
  <2> DEFINE r == Append(Front(s), c)
  <2>1. Len(r) = 1 /\ r[1] = c /\ r # <<>>
    BY <1>2, OuterShape
  <2>2. stack' = [stack EXCEPT ![t] = r]
    BY <1>5
  <2> HIDE DEF r
  <2>3. /\ Len(r) # 3 /\ r[1].op = s[1].op /\ r[1].op # "launch"
        /\ r[1].op = "stop" => r[1].key = s[1].key
    BY <1>1, <1>2, <1>5, <2>1
  <2> QED
    BY <1>1, <1>3, <2>1, <2>2, <2>3, OuterWaits
<1>6. CASE StopFind(t)
  <2> DEFINE i == Find(Top(t).key)
             c == [Top(t) EXCEPT !.at = "lock", !.ref = Ref(i)]
  <2>1. CASE i = 0
    BY <1>4, <1>6, <2>1 DEF StopFind, Return
  <2>2. CASE i # 0
    <3>1. i \in DOMAIN scripts
      BY <2>2, FoundEntry
    <3>2. stack' = [stack EXCEPT ![t] = Append(Front(s), c)]
      BY <1>6, <2>2 DEF StopFind, GoOn
    <3> HIDE DEF i
    <3>3. c \in Frame /\ c.op = Top(t).op /\ c.key = Top(t).key
      <4>1. c = Found(Top(t), i)
        BY DEF Found
      <4> HIDE DEF c
      <4> QED
        BY <1>2, <3>1, <4>1, FoundIs
    <3> HIDE DEF c
    <3> QED
      BY <1>5, <3>2, <3>3
  <2> QED
    BY <2>1, <2>2
<1>7. CASE StopAllBegin(t)
  <2> DEFINE c == [Top(t) EXCEPT !.at = "next", !.key = 1]
  <2>1. Top(t).op = "stopAll"
    BY <1>7 DEF StopAllBegin, At
  <2>2. c \in Frame /\ c.op = "stopAll"
    <3>1. 1 \in Nat
      OBVIOUS
    <3> QED
      BY <1>2, <2>1, <3>1 DEF Frame
  <2>3. stack' = [stack EXCEPT ![t] = Append(Front(s), c)]
    BY <1>7 DEF StopAllBegin, GoOn
  <2> HIDE DEF c
  <2> QED
    BY <1>5, <2>1, <2>2, <2>3
<1> QED
  BY <1>6, <1>7

\* They delete the script of an entry and forget it.
LEMMA StopsDelete ==
  ASSUME IInv, WaitInv, NEW t \in Threads, StopLock(t) \/ StopAllNext(t) \/ StopAllDone(t)
  PROVE  WaitInv'
<1> USE Parts
<1> DEFINE s == stack[t]
<1>1. s # <<>> /\ Last(s).op \in {"stop", "stopAll"} /\ Last(s) = Top(t)
  BY DEF StopLock, StopAllNext, StopAllDone, At, Top
<1>2. Len(s) = 1 /\ s[1] = Top(t) /\ Top(t) \in Frame /\ OuterOK(Top(t), Len(scripts))
  BY <1>1, TopCall
<1>3. plugins' = plugins /\ usage' = usage
  BY DEF StopLock, StopAllNext, StopAllDone, LockAndDelete
<1>4. Stopping
  BY <1>1, <1>2 DEF WaitInv, CallersInv, CallerOK, Stopping
<1>5. ASSUME NEW i \in DOMAIN scripts, LockAndDelete(t, i)
      PROVE  WaitInv'
  <2> DEFINE c == [Top(t) EXCEPT !.at = "deleted"]
             r == Append(Front(s), c) \o DeleteScript(scripts[i])
             m == Locked(scripts[i].mutex, t)
  <2>1. c \in Frame /\ c.op = Top(t).op /\ c.key = Top(t).key
    BY <1>2 DEF Frame
  <2>2. stack' = [stack EXCEPT ![t] = r]
    BY <1>5 DEF LockAndDelete, GoOnAfter
  <2>3. scripts' = [scripts EXCEPT ![i] = [scripts[i] EXCEPT !.mutex = m]]
    BY <1>5 DEF LockAndDelete
  <2> HIDE DEF c, m
  <2>4. scripts[i] \in ListEntry
    OBVIOUS
  <2>5. r # <<>> /\ r[1] = c /\ Len(r) # 3
    BY <1>2, <2>1, <2>4, DeletesShape
  <2> HIDE DEF r
  <2>6. /\ DOMAIN scripts' = DOMAIN scripts
        /\ \A j \in DOMAIN scripts :
             scripts'[j].path = scripts[j].path /\ scripts'[j].scriptID = scripts[j].scriptID
    BY <2>3, <2>4 DEF ListEntry
  <2>7. r[1].op = s[1].op /\ r[1].op # "launch" /\ r[1].key = s[1].key
    BY <1>1, <1>2, <2>1, <2>5
  <2> QED
    BY <1>1, <1>3, <1>4, <2>2, <2>5, <2>6, <2>7, OuterWaits
<1>6. CASE StopLock(t)
  <2>1. HasRef(Top(t), Len(scripts))
    BY <1>2, <1>6 DEF StopLock, At, OuterOK, WithOK
  <2>2. Top(t).ref.i \in DOMAIN scripts
    BY <2>1 DEF HasRef
  <2> QED
    BY <1>5, <1>6, <2>2 DEF StopLock
<1>7. CASE StopAllNext(t)
  <2>1. Top(t).key \in 1..(Len(scripts) + 1)
    BY <1>2, <1>7 DEF StopAllNext, At, OuterOK, WithOK
  <2>2. Top(t).key \in DOMAIN scripts
    BY <1>7, <2>1 DEF StopAllNext
  <2> QED
    BY <1>5, <1>7, <2>2 DEF StopAllNext
<1>8. CASE StopAllDone(t)
  <2> DEFINE i == Top(t).key
             c == [Top(t) EXCEPT !.at = "next", !.key = i + 1]
             r == Append(Front(s), c)
  <2>1. Top(t).op = "stopAll" /\ i \in DOMAIN scripts
    BY <1>2, <1>8 DEF StopAllDone, At, OuterOK, WithOK
  <2>2. c \in Frame /\ c.op = "stopAll"
    <3>1. i + 1 \in Nat
      BY <2>1
    <3> QED
      BY <1>2, <2>1, <3>1 DEF Frame
  <2>3. stack' = [stack EXCEPT ![t] = r] /\ scripts' = [scripts EXCEPT ![i] = Emptied(scripts[i])]
    BY <1>8 DEF StopAllDone, GoOn
  <2> HIDE DEF c, i
  <2>4. Len(r) = 1 /\ r[1] = c /\ r # <<>>
    BY <1>2, <2>2, OuterShape
  <2> HIDE DEF r
  <2>5. Len(r) # 3 /\ r[1].op = s[1].op /\ r[1].op = "stopAll"
    BY <1>1, <1>2, <2>1, <2>2, <2>4
  <2>6. Emptied(scripts[i]).path = scripts[i].path /\ Emptied(scripts[i]).scriptID = scripts[i].scriptID
    BY <2>1 DEF Emptied, ListEntry
  <2>7. /\ DOMAIN scripts' = DOMAIN scripts
        /\ \A j \in DOMAIN scripts :
             scripts'[j].path = scripts[j].path /\ scripts'[j].scriptID = scripts[j].scriptID
    BY <2>3, <2>6
  <2> QED
    BY <1>1, <1>3, <1>4, <2>3, <2>4, <2>5, <2>7, OuterWaits
<1> QED
  BY <1>6, <1>7, <1>8

\* The threads of a script end and begin, and nothing else.
LEMMA ThreadsWaits ==
  ASSUME IInv, WaitInv, NEW n \in ScriptIDs,
         \/ ThreadStarts(n)
         \/ LoopBegins(n)
         \/ ScriptFails(n)
         \/ ThreadEnds(n)
         \/ CallbackEnds(n)
         \/ BackgroundStarts(n)
         \/ BackgroundEnds(n)
  PROVE  WaitInv'
<1> USE DEF ThreadStarts, LoopBegins, ScriptFails, ThreadEnds, CallbackEnds, BackgroundStarts,
            BackgroundEnds
<1>1. UNCHANGED <<scripts, stack, usage>>
  BY DEF listVars
<1>2. plugins \in [ScriptIDs -> Plugin]
  BY DEF IInv, TypeInv
<1>3. \A m \in ScriptIDs : plugins'[m].path = plugins[m].path
  BY <1>2 DEF Plugin
<1> QED
  BY <1>1, <1>3 DEF WaitInv, CallersInv, CallerOK, ClosingInv, ClosingOK, HiddenInv, RestartInv,
                    RestartOK, Stopping

\* A deletion goes on, up to the finalisers' calls and the end.
LEMMA DeleteWaits ==
  ASSUME IInv, WaitInv, NEW t \in Threads, Delete(t)
  PROVE  WaitInv'
<1> USE Parts
<1> DEFINE s == stack[t]
           n == Top(t).key
<1>1. PICK at : At(t, "delete", at)
  BY DEF Delete, DeleteStop, DeleteJoin, DeleteClose, DeleteFree
<1>2. /\ StackOK(s, Len(scripts)) /\ Len(s) = 2 /\ s # <<>>
      /\ Top(t) = s[2] /\ Top(t) \in Frame /\ n \in ScriptIDs
      /\ \A place \in {"join", "joinBackground", "free"} :
           LET d == [Top(t) EXCEPT !.at = place] IN
           d \in Frame /\ d.key = n /\ d.at = place /\ DeleteOK(d)
  BY <1>1, DeleteMoves DEF DeleteOK
<1>3. Len(s) \in 2..3
  BY <1>2
<1>4. UNCHANGED <<scripts, usage>>
  BY DEF Delete, DeleteStop, DeleteJoin, DeleteClose, DeleteFree, listVars
<1>5. \A m \in ScriptIDs : plugins'[m].path = plugins[m].path
  <2>1. \/ plugins' = plugins
        \/ plugins' = [plugins EXCEPT ![n] = Stopped(plugins[n])]
        \/ plugins' = [plugins EXCEPT ![n].backgroundThreadRunning = FALSE]
        \/ plugins' = [plugins EXCEPT ![n] = Freed(plugins[n])]
    BY DEF Delete, DeleteStop, DeleteJoin, DeleteClose, DeleteFree
  <2>2. plugins[n] \in Plugin
    BY <1>2
  <2>3. Stopped(plugins[n]).path = plugins[n].path /\ Freed(plugins[n]).path = plugins[n].path
    BY <2>2 DEF Stopped, Freed, NoPlugin, NewPlugin, Plugin
  <2> HIDE DEF n
  <2> QED
    BY SMTT(30), <1>2, <2>1, <2>2, <2>3 DEF Plugin
<1>6. ASSUME NEW d \in Frame, DeleteOK(d), d.key = n, stack' = [stack EXCEPT ![t] = Append(Front(s), d)]
      PROVE  WaitInv'
  <2> DEFINE r == Append(Front(s), d)
  <2>1. Len(r) = 2 /\ r[1] = s[1] /\ r[2] = d /\ r # <<>>
    BY <1>2, <1>6, DeleteGoesOn
  <2>2. stack' = [stack EXCEPT ![t] = r]
    BY <1>6
  <2> HIDE DEF r
  <2>3. Len(r) # 3
    BY <2>1
  <2>4. ClosingOK(r) /\ r[2].key = s[2].key
    BY <1>2, <1>6, <2>1, <2>3 DEF ClosingOK
  <2> QED
    BY <1>3, <1>4, <1>5, <2>1, <2>2, <2>3, <2>4, InnerWaits
<1>7. CASE DeleteStop(t) \/ DeleteJoin(t) \/ (DeleteClose(t) /\ GoOn(t, [Top(t) EXCEPT !.at = "free"]))
  <2>1. PICK place \in {"join", "joinBackground", "free"} : GoOn(t, [Top(t) EXCEPT !.at = place])
    BY <1>7 DEF DeleteStop, DeleteJoin
  <2> DEFINE d == [Top(t) EXCEPT !.at = place]
  <2>2. d \in Frame /\ DeleteOK(d) /\ d.key = n /\ stack' = [stack EXCEPT ![t] = Append(Front(s), d)]
    BY <1>2, <2>1 DEF GoOn
  <2> HIDE DEF d
  <2> QED
    BY <1>6, <2>2
<1>8. CASE DeleteClose(t) /\ ~GoOn(t, [Top(t) EXCEPT !.at = "free"])
  <2> DEFINE d == [Top(t) EXCEPT !.at = "free"]
             c == Call("with", "find", n)
             r == Append(Front(s), d) \o <<c>>
  <2>1. stack' = [stack EXCEPT ![t] = r] /\ "close" \in usage
    BY <1>8 DEF DeleteClose, GoOnAfter
  <2>2. d \in Frame /\ d.key = n /\ d.at = "free" /\ DeleteOK(d)
    BY <1>2
  <2>3. c \in Frame /\ c.key = n /\ c.at = "find" /\ WithOK(c, Len(scripts))
    BY <1>2, IDs DEF Call, Frame, Op, WithOK
  <2> HIDE DEF d, c
  <2>4. Len(r) = 3 /\ r[1] = s[1] /\ r[2] = d /\ r[3] = c /\ r # <<>>
    BY SMTT(30), <1>2, <2>2, <2>3, DeleteCalls
  <2> HIDE DEF r
  <2>6. ClosingOK(r) /\ r[2].key = s[2].key
    BY <1>2, <2>1, <2>2, <2>3, <2>4 DEF ClosingOK
  <2> QED
    BY <1>3, <1>4, <1>5, <2>1, <2>4, <2>6, InnerWaits
<1>9. CASE DeleteFree(t)
  <2> DEFINE r == Front(s)
  <2>1. stack' = [stack EXCEPT ![t] = r]
    BY <1>9 DEF DeleteFree, Return
  <2>2. Len(r) = Len(s) - 1 /\ r[1] = s[1] /\ r # <<>>
    BY <1>2, <1>3, InnerReturns
  <2> HIDE DEF r
  <2>3. Len(r) = 1
    BY <1>2, <2>2
  <2>4. ClosingOK(r) /\ (Len(r) >= 2 => r[2].key = s[2].key)
    BY <2>3 DEF ClosingOK
  <2> QED
    BY <1>3, <1>4, <1>5, <2>1, <2>2, <2>4, InnerWaits
<1> QED
  BY <1>7, <1>8, <1>9 DEF Delete

\* A launch finds the entry of its path, or makes it.
LEMMA LaunchFindWaits ==
  ASSUME IInv, WaitInv, NEW t \in Threads, LaunchFind(t)
  PROVE  WaitInv'
<1> USE Parts
<1> DEFINE s == stack[t]
           i == Find(Top(t).key)
<1>1. s # <<>> /\ Last(s).op = "launch" /\ Last(s).at = "find" /\ Last(s) = Top(t)
  BY DEF LaunchFind, At, Top
<1>2. Len(s) = 1 /\ s[1] = Top(t) /\ Top(t) \in Frame /\ Top(t).key \in Paths
  <2>1. Len(s) = 1 /\ s[1] = Top(t) /\ Top(t) \in Frame /\ OuterOK(Top(t), Len(scripts))
    BY <1>1, TopCall
  <2> QED
    BY <1>1, <2>1 DEF OuterOK, WithOK
<1>3. UNCHANGED <<plugins, usage>>
  BY DEF LaunchFind
<1>4. PICK c : /\ stack' = [stack EXCEPT ![t] = Append(Front(s), c)]
               /\ c \in Frame /\ c.op = "launch" /\ c.at = "lock" /\ c.key = Top(t).key
               /\ scripts'[c.ref.i].path = c.key
               /\ DOMAIN scripts \subseteq DOMAIN scripts'
               /\ \A j \in DOMAIN scripts : scripts'[j] = scripts[j]
               /\ \A j \in DOMAIN scripts' \ DOMAIN scripts :
                    j = Len(scripts) + 1 /\ scripts'[j].scriptID = None
  <2>1. CASE i # 0
    <3> DEFINE c == [Top(t) EXCEPT !.at = "lock", !.ref = Ref(i)]
    <3>1. i \in DOMAIN scripts /\ Matches(scripts[i], Top(t).key)
      BY <2>1, FoundEntry
    <3>2. stack' = [stack EXCEPT ![t] = Append(Front(s), c)] /\ scripts' = scripts
      BY <2>1 DEF LaunchFind, GoOn, listVars
    <3> HIDE DEF i
    <3>3. c \in Frame /\ c.op = "launch" /\ c.at = "lock" /\ c.key = Top(t).key /\ c.ref.i = i
      <4>1. c = Found(Top(t), i)
        BY DEF Found
      <4> HIDE DEF c
      <4> QED
        BY <1>1, <1>2, <3>1, <4>1, FoundIs
    <3>4. scripts[i].path = Top(t).key
      <4>1. scripts[i].scriptID \in ScriptIDs \union {None}
        BY <3>1 DEF ListEntry
      <4>2. Top(t).key \notin ScriptIDs \union {None}
        BY <1>2, ThreadsAssumption
      <4> QED
        BY <3>1, <4>1, <4>2 DEF Matches
    <3> HIDE DEF c
    <3> QED
      BY <3>2, <3>3, <3>4
  <2>2. CASE i = 0
    <3> DEFINE ref == [i |-> Len(scripts) + 1, buffer |-> buffer']
               c == [Top(t) EXCEPT !.at = "lock", !.ref = ref]
               e == [path |-> Top(t).key, script |-> None, scriptID |-> None, mutex |-> Free]
    <3>1. /\ stack' = [stack EXCEPT ![t] = Append(Front(s), c)]
          /\ scripts' = Append(scripts, e) /\ buffer' \in {buffer, buffer + 1}
      BY <2>2 DEF LaunchFind, GoOn, Emplace
    <3>2. ref \in [i : Nat, buffer : Nat] /\ ref.i = Len(scripts) + 1
      BY <3>1
    <3>3. e \in ListEntry /\ e.path = Top(t).key /\ e.scriptID = None
      BY <1>2 DEF ListEntry, Mutex, Free
    <3> HIDE DEF e, ref
    <3>4. /\ DOMAIN scripts' = 1..(Len(scripts) + 1)
          /\ \A j \in DOMAIN scripts : scripts'[j] = scripts[j]
          /\ scripts'[Len(scripts) + 1] = e
      BY <3>1, <3>3
    <3>5. DOMAIN scripts \subseteq DOMAIN scripts' /\ \A j \in DOMAIN scripts' \ DOMAIN scripts : j = Len(scripts) + 1
      BY <3>4
    <3>6. c \in Frame /\ c.op = "launch" /\ c.at = "lock" /\ c.key = Top(t).key /\ c.ref = ref
      BY <1>1, <1>2, <3>2 DEF Frame
    <3> HIDE DEF c
    <3> QED
      BY <3>1, <3>2, <3>3, <3>4, <3>5, <3>6
  <2> QED
    BY <2>1, <2>2
<1> DEFINE r == Append(Front(s), c)
<1>5. stack' = [stack EXCEPT ![t] = r]
  BY <1>4
<1>6. Len(r) = 1 /\ r[1] = c /\ r # <<>>
  BY <1>2, <1>4, OuterShape
<1> HIDE DEF r, i
<1>7. CallersInv' /\ ClosingInv'
  <2>1. Continues(s, r) /\ ClosingOK(r)
    BY <1>1, <1>2, <1>4, <1>6 DEF Continues, ClosingOK
  <2> QED
    BY <1>3, <1>5, <2>1, CallersKept DEF WaitInv
<1>8. stack'[t] = r /\ \A u \in Threads : u # t => stack'[u] = stack[u]
  BY <1>5 DEF TypeInv
<1>9. \A u \in Threads, j \in DOMAIN scripts' : Launches(stack'[u], j) => Launches(stack[u], j) /\ j \in DOMAIN scripts
  <2> SUFFICES ASSUME NEW u \in Threads, NEW j, Launches(stack'[u], j)
               PROVE  Launches(stack[u], j) /\ j \in DOMAIN scripts
    OBVIOUS
  <2>1. ~Launches(r, j)
    BY <1>4, <1>6 DEF Launches, Does
  <2>2. Launches(stack[u], j)
    BY <1>8, <2>1
  <2> QED
    BY <2>2, LaunchRef DEF Launches
<1>10. HiddenInv'
  <2>1. Stopping' <=> Stopping
    BY <1>3 DEF Stopping
  <2>2. \A u \in Threads, j \in DOMAIN scripts' : Launches(stack'[u], j) => scripts'[j].path = None
    BY <1>4, <1>9 DEF WaitInv, HiddenInv
  <2>3. ~Stopping => \A j \in DOMAIN scripts' :
          scripts'[j].scriptID # None => scripts'[j].script = scripts'[j].scriptID
    BY <1>4 DEF WaitInv, HiddenInv
  <2> QED
    BY <2>1, <2>2, <2>3 DEF HiddenInv
<1>11. ASSUME NEW u \in Threads PROVE RestartOK(stack[u])'
  <2>1. CASE u = t
    <3>1. \A n \in ScriptIDs : ~Deletes(r, n)
      BY <1>6 DEF Deletes
    <3> QED
      BY <1>4, <1>6, <1>8, <2>1, <3>1 DEF RestartOK
  <2>2. CASE u # t
    <3>1. Does(stack[u], "launch", "lock") => stack[u][1].ref.i \in DOMAIN scripts
      BY LaunchRef
    <3> QED
      BY <1>3, <1>4, <1>8, <2>2, <3>1 DEF WaitInv, RestartInv, RestartOK
  <2> QED
    BY <2>1, <2>2
<1> QED
  BY <1>7, <1>10, <1>11 DEF WaitInv, RestartInv

\* It hides the entry, and deletes the script of its path.
LEMMA LaunchLockWaits ==
  ASSUME IInv, WaitInv, NEW t \in Threads, LaunchLock(t)
  PROVE  WaitInv'
<1> USE Parts
<1> DEFINE s == stack[t]
           i == Top(t).ref.i
           n == scripts[i].script
           c == [Top(t) EXCEPT !.at = "create"]
           e == [Hidden(scripts[i]) EXCEPT !.mutex = Locked(scripts[i].mutex, t)]
           r == Append(Front(s), c) \o DeleteScript(scripts[i])
<1>1. s # <<>> /\ Last(s).op = "launch" /\ Last(s).at = "lock" /\ Last(s) = Top(t)
  BY DEF LaunchLock, At, Top
<1>2. Len(s) = 1 /\ s[1] = Top(t) /\ Top(t) \in Frame /\ Top(t).key \in Paths /\ HasRef(Top(t), Len(scripts))
  <2>1. Len(s) = 1 /\ s[1] = Top(t) /\ Top(t) \in Frame /\ OuterOK(Top(t), Len(scripts))
    BY <1>1, TopCall
  <2> QED
    BY <1>1, <2>1 DEF OuterOK, WithOK
<1>3. i \in DOMAIN scripts /\ scripts[i] \in ListEntry
  BY <1>2 DEF HasRef
<1>4. c \in Frame /\ c.op = "launch" /\ c.at = "create" /\ c.key = Top(t).key /\ c.ref = Top(t).ref
  BY <1>1, <1>2 DEF Frame
<1>5. UNCHANGED <<plugins, usage>>
  BY DEF LaunchLock
<1>6. stack' = [stack EXCEPT ![t] = r] /\ scripts' = [scripts EXCEPT ![i] = e]
  BY DEF LaunchLock, GoOnAfter
<1>7. e.path = None /\ e.scriptID = None
  BY <1>3 DEF Hidden, ListEntry
<1> HIDE DEF c, e
<1>8. /\ r # <<>> /\ r[1] = c /\ Len(r) # 3
      /\ \A m : Deletes(r, m) => n # None /\ m = n
  <2>1. s \in Seq(Frame)
    BY DEF StackOK
  <2> HIDE DEF s, i
  <2> QED
    BY <1>2, <1>3, <1>4, <2>1, DeletesShape
<1> HIDE DEF r
<1>9. /\ DOMAIN scripts' = DOMAIN scripts
      /\ scripts'[i].path = None /\ scripts'[i].scriptID = None
      /\ \A j \in DOMAIN scripts : j # i => scripts'[j] = scripts[j]
  BY <1>3, <1>6, <1>7
<1>10. CallersInv' /\ ClosingInv'
  <2>1. Continues(s, r) /\ ClosingOK(r)
    BY <1>1, <1>2, <1>4, <1>8 DEF Continues, ClosingOK
  <2> QED
    BY <1>5, <1>6, <2>1, CallersKept DEF WaitInv
<1>11. stack'[t] = r /\ \A u \in Threads : u # t => stack'[u] = stack[u]
  BY <1>6 DEF TypeInv
<1>12. Does(s, "launch", "lock")
  BY <1>1, <1>2 DEF Does
<1>13. \A u \in Threads : u # t => ~Does(stack[u], "launch", "lock")
  <2>1. globalMutex.owner = t
    BY <1>12 DEF IInv, MutexInv, HoldsGlobal
  <2> QED
    BY <2>1 DEF IInv, MutexInv, HoldsGlobal
<1>14. HiddenInv'
  <2>1. Stopping' <=> Stopping
    BY <1>5 DEF Stopping
  <2>2. ASSUME NEW u \in Threads, NEW j \in DOMAIN scripts, Launches(stack'[u], j)
        PROVE  scripts'[j].path = None
    <3>1. CASE u = t
      <4>1. j = i
        BY <1>4, <1>8, <1>11, <2>2, <3>1 DEF Launches
      <4> QED
        BY <1>9, <4>1
    <3>2. CASE u # t
      <4>1. scripts[j].path = None
        BY <1>11, <2>2, <3>2 DEF WaitInv, HiddenInv
      <4> QED
        BY <1>9, <4>1
    <3> QED
      BY <3>1, <3>2
  <2>3. ~Stopping => \A j \in DOMAIN scripts :
          scripts'[j].scriptID # None => scripts'[j].script = scripts'[j].scriptID
    BY <1>9 DEF WaitInv, HiddenInv
  <2> QED
    BY <1>9, <2>1, <2>2, <2>3 DEF HiddenInv
<1>15. ASSUME NEW u \in Threads PROVE RestartOK(stack[u])'
  <2>1. CASE u = t
    <3>1. ~Does(r, "launch", "lock")
      BY <1>4, <1>8 DEF Does
    <3>2. ASSUME NEW m \in ScriptIDs, Deletes(r, m) PROVE plugins[m].path = r[1].key
      <4>1. n # None /\ m = n
        BY <1>8, <3>2
      <4>2. scripts[i].path = plugins[n].path
        BY <1>3, <4>1 DEF IInv, EntriesInv, EntryInv
      <4>3. scripts[i].path = Top(t).key
        BY <1>2, <1>12 DEF WaitInv, RestartInv, RestartOK
      <4> QED
        BY <1>4, <1>8, <4>1, <4>2, <4>3
    <3> QED
      BY <1>5, <1>11, <2>1, <3>1, <3>2 DEF RestartOK
  <2>2. CASE u # t
    BY <1>5, <1>11, <1>13, <2>2 DEF WaitInv, RestartInv, RestartOK
  <2> QED
    BY <2>1, <2>2
<1> QED
  BY <1>10, <1>14, <1>15 DEF WaitInv, RestartInv

\* It makes the script, in an entry that nobody else is launching.
LEMMA LaunchCreateWaits ==
  ASSUME IInv, WaitInv, NEW t \in Threads, LaunchCreate(t)
  PROVE  WaitInv'
<1> USE Parts
<1> DEFINE s == stack[t]
           i == Top(t).ref.i
           N == NextID
           e == [path |-> Top(t).key, script |-> N, scriptID |-> N, mutex |-> Unlocked(scripts[i].mutex)]
<1>1. s # <<>> /\ Last(s).op = "launch" /\ Last(s).at = "create" /\ Last(s) = Top(t)
  BY DEF LaunchCreate, At, Top
<1>2. Len(s) = 1 /\ s[1] = Top(t) /\ Top(t) \in Frame /\ HasRef(Top(t), Len(scripts))
  <2>1. Len(s) = 1 /\ s[1] = Top(t) /\ Top(t) \in Frame /\ OuterOK(Top(t), Len(scripts))
    BY <1>1, TopCall
  <2> QED
    BY <1>1, <2>1 DEF OuterOK, WithOK
<1>3. i \in DOMAIN scripts
  BY <1>2 DEF HasRef
<1>4. N \in ScriptIDs /\ plugins[N].path = None /\ \A u \in Threads : ~Deletes(stack[u], N)
  <2>1. IsLaunch(s)
    BY <1>1, <1>2 DEF IsLaunch
  <2> QED
    BY <2>1, NextIDFree
<1>5. PICK p, r : /\ plugins' = [plugins EXCEPT ![N] = p]
                  /\ stack' = [stack EXCEPT ![t] = r]
                  /\ r = <<>> \/ (r # <<>> /\ Len(r) = 1 /\ r[1].op = "launcher" /\ t \in Detached)
  <2> PICK later \in BOOLEAN :
         /\ plugins' = [plugins EXCEPT
              ![NextID] = NewPlugin(Top(t).key, IF later THEN "none" ELSE "starting")]
         /\ IF later THEN GoOn(t, Call("launcher", "start", NextID)) ELSE Return(t)
         /\ later => t \in Detached
    BY DEF LaunchCreate
  <2> DEFINE p == NewPlugin(Top(t).key, IF later THEN "none" ELSE "starting")
  <2>1. plugins' = [plugins EXCEPT ![N] = p]
    OBVIOUS
  <2> HIDE DEF p
  <2>2. CASE later
    <3> DEFINE c == Call("launcher", "start", N)
               r == Append(Front(s), c)
    <3>1. stack' = [stack EXCEPT ![t] = r]
      BY <2>2 DEF GoOn
    <3> HIDE DEF N
    <3>2. c \in Frame /\ c.op = "launcher"
      BY <1>4, IDs DEF Call, Frame, Op
    <3> HIDE DEF c
    <3>3. Len(r) = 1 /\ r[1] = c /\ r # <<>>
      BY <1>2, <3>2, OuterShape
    <3> HIDE DEF r
    <3> QED
      BY <2>1, <2>2, <3>1, <3>2, <3>3 DEF N
  <2>3. CASE ~later
    <3>1. Front(s) = <<>>
      BY <1>2, OuterReturns
    <3>2. stack' = [stack EXCEPT ![t] = <<>>]
      BY <2>3, <3>1 DEF Return
    <3> QED
      BY <2>1, <3>2
  <2> QED
    BY <2>2, <2>3
<1>6. usage' = usage /\ scripts' = [scripts EXCEPT ![i] = e]
  BY DEF LaunchCreate
<1> HIDE DEF N
<1>7. e.script = e.scriptID
  OBVIOUS
<1> HIDE DEF e
<1>8. /\ DOMAIN scripts' = DOMAIN scripts
      /\ scripts'[i].script = scripts'[i].scriptID
      /\ \A j \in DOMAIN scripts : j # i => scripts'[j] = scripts[j]
  BY <1>3, <1>6, <1>7
<1>9. stack'[t] = r /\ \A u \in Threads : u # t => stack'[u] = stack[u]
  BY <1>5 DEF TypeInv
<1>10. \A m \in ScriptIDs : m # N => plugins'[m] = plugins[m]
  BY <1>4, <1>5
<1>11. CallersInv' /\ ClosingInv'
  <2>1. ClosingOK(r)
    <3>1. Len(<<>>) = 0
      OBVIOUS
    <3> QED
      BY <1>5, <3>1 DEF ClosingOK
  <2>2. ASSUME NEW u \in Threads PROVE CallerOK(u, stack[u])'
    <3>1. CASE u = t /\ r # <<>>
      <4>1. t # UI /\ t \notin ScriptIDs /\ r[1].op = "launcher"
        BY <1>5, <3>1, ThreadsAssumption
      <4> QED
        BY <1>9, <3>1, <4>1 DEF CallerOK
    <3>2. CASE u = t /\ r = <<>>
      BY <1>9, <3>2 DEF CallerOK
    <3>3. CASE u # t
      <4>1. Range(Initial) \subseteq Paths
        BY PathsAssumption DEF Range
      <4>2. u \in ScriptIDs /\ plugins[u].path \in Range(Initial) => plugins'[u].path = plugins[u].path
        BY <1>4, <1>10, <4>1, ThreadsAssumption
      <4> QED
        BY <1>6, <1>9, <3>3, <4>2 DEF WaitInv, CallersInv, CallerOK
    <3> QED
      BY <3>1, <3>2, <3>3
  <2>3. ASSUME NEW u \in Threads PROVE ClosingOK(stack[u])'
    BY <1>6, <1>9, <2>1 DEF WaitInv, ClosingInv, ClosingOK, Stopping
  <2> QED
    BY <2>2, <2>3 DEF CallersInv, ClosingInv
<1>12. /\ \A j : ~Launches(r, j)
       /\ ~IsLaunch(r) /\ ~Does(r, "launch", "lock")
  BY <1>5 DEF Launches, Does, IsLaunch
<1>13. Launches(s, i)
  BY <1>1, <1>2 DEF Launches, Does
<1>14. \A u \in Threads : u # t => ~Launches(stack[u], i)
  <2>1. scripts[i].mutex.owner = t
    BY <1>3, <1>13 DEF IInv, MutexInv, HoldsEntry
  <2> QED
    BY <1>3, <2>1 DEF IInv, MutexInv, HoldsEntry
<1>15. HiddenInv'
  <2>1. Stopping' <=> Stopping
    BY <1>6 DEF Stopping
  <2>2. \A u \in Threads, j \in DOMAIN scripts : Launches(stack'[u], j) => scripts'[j].path = None
    BY <1>8, <1>9, <1>12, <1>14 DEF WaitInv, HiddenInv
  <2>3. ~Stopping => \A j \in DOMAIN scripts :
          scripts'[j].scriptID # None => scripts'[j].script = scripts'[j].scriptID
    BY <1>8 DEF WaitInv, HiddenInv
  <2> QED
    BY <1>8, <2>1, <2>2, <2>3 DEF HiddenInv
<1>16. ASSUME NEW u \in Threads PROVE RestartOK(stack[u])'
  <2>1. CASE u = t
    BY <1>9, <1>12, <2>1 DEF RestartOK
  <2>2. CASE u # t
    <3>1. Does(stack[u], "launch", "lock") =>
            stack[u][1].ref.i \in DOMAIN scripts /\ stack[u][1].ref.i # i
      <4>1. Does(stack[u], "launch", "lock") =>
              stack[u][1].ref.i \in DOMAIN scripts /\ stack[u][1].key # None
        BY LaunchRef, ThreadsAssumption
      <4>2. scripts[i].path = None
        BY <1>3, <1>13 DEF WaitInv, HiddenInv
      <4> QED
        BY <4>1, <4>2 DEF WaitInv, RestartInv, RestartOK
    <3>2. \A m \in ScriptIDs : Deletes(stack[u], m) => plugins'[m] = plugins[m]
      BY <1>4, <1>10
    <3> QED
      BY <1>8, <1>9, <2>2, <3>1, <3>2 DEF WaitInv, RestartInv, RestartOK
  <2> QED
    BY <2>1, <2>2
<1> QED
  BY <1>11, <1>15, <1>16 DEF WaitInv, RestartInv

\* A call of the API.
LEMMA CallWaits ==
  ASSUME IInv, WaitInv, NEW t \in Threads, NEW use, NEW c \in Frame, Begins(t, use, c),
         c.op = "launch" => c.at = "find", CallerOK(t, <<c>>)
  PROVE  WaitInv'
<1> USE Parts
<1> DEFINE r == <<c>>
<1>1. stack' = [stack EXCEPT ![t] = r] /\ UNCHANGED <<scripts, plugins, usage>>
  BY DEF Begins, listVars
<1>2. Len(r) = 1 /\ r[1] = c /\ r # <<>>
  BY Single
<1>3. CallerOK(t, r)
  OBVIOUS
<1> HIDE DEF r
<1>4. stack'[t] = r /\ \A u \in Threads : u # t => stack'[u] = stack[u]
  BY <1>1 DEF TypeInv
<1>5. /\ ClosingOK(r) /\ ~Does(r, "launch", "lock")
      /\ \A j : ~Launches(r, j) /\ ~Deletes(r, j)
  BY <1>2 DEF ClosingOK, Does, Launches, Deletes
<1>6. CallersInv'
  BY <1>1, <1>3, <1>4 DEF WaitInv, CallersInv, CallerOK
<1>7. ClosingInv'
  BY <1>1, <1>4, <1>5 DEF WaitInv, ClosingInv, ClosingOK, Stopping
<1>8. HiddenInv'
  BY <1>1, <1>4, <1>5 DEF WaitInv, HiddenInv, Stopping
<1>9. RestartInv'
  <2> SUFFICES ASSUME NEW u \in Threads PROVE RestartOK(stack[u])'
    BY DEF RestartInv
  <2>1. CASE u = t
    BY <1>4, <1>5, <2>1 DEF RestartOK
  <2>2. CASE u # t
    BY <1>1, <1>4, <2>2 DEF WaitInv, RestartInv, RestartOK
  <2> QED
    BY <2>1, <2>2
<1> QED
  BY <1>6, <1>7, <1>8, <1>9 DEF WaitInv

LEMMA BeginsWait ==
  ASSUME IInv, WaitInv,
         \/ \E t \in Detached, path \in Paths : MenuBegins(t, path)
         \/ SimulatorBegins
         \/ \E n \in ScriptIDs : ScriptBegins(n)
  PROVE  WaitInv'
<1>a. /\ Detached \subseteq Threads /\ UI \in Threads /\ ScriptIDs \subseteq Threads
      /\ UI \notin Detached \union ScriptIDs /\ Detached \cap ScriptIDs = {}
  BY ThreadsAssumption DEF Threads
<1>b. \A op \in {"launch", "stop", "with", "stopAll", "control"}, at \in {"find", "begin", "wait"},
         key \in Paths \union ScriptIDs \union {None} :
        LET c == Call(op, at, key) IN
        /\ c \in Frame /\ c.op = op /\ c.at = at /\ c.key = key
        /\ <<c>> # <<>> /\ <<c>>[1] = c
  BY IDs DEF Call, Frame, Op
<1>1. ASSUME NEW t \in Detached \union ScriptIDs, NEW path \in Paths, MenuBegins(t, path),
             t \in ScriptIDs =>
               "scripted" \in usage /\ plugins[t].path \in Range(Initial) /\ path \notin Range(Initial)
      PROVE  WaitInv'
  <2>1. PICK op \in {"launch", "stop"} : Begins(t, op, Call(op, "find", path))
    BY <1>1 DEF MenuBegins
  <2> DEFINE c == Call(op, "find", path)
  <2>2. c \in Frame /\ c.op = op /\ c.at = "find" /\ c.key = path /\ <<c>> # <<>> /\ <<c>>[1] = c
    BY <1>b
  <2> HIDE DEF c
  <2>3. op \in usage
    BY <2>1 DEF Begins
  <2>4. CallerOK(t, <<c>>)
    BY <1>a, <1>1, <2>2, <2>3 DEF CallerOK
  <2>5. Begins(t, op, c)
    BY <2>1 DEF c
  <2> QED
    BY <1>a, <2>2, <2>4, <2>5, CallWaits
<1>2. ASSUME NEW t \in {UI} \union ScriptIDs, NEW key \in Paths \union ScriptIDs, NEW use,
             Begins(t, use, Call("with", "find", key)), t \in ScriptIDs => use = "collect"
      PROVE  WaitInv'
  <2> DEFINE c == Call("with", "find", key)
  <2>1. c \in Frame /\ c.op = "with" /\ <<c>> # <<>> /\ <<c>>[1] = c
    BY <1>b
  <2> HIDE DEF c
  <2>2. use \in usage /\ Begins(t, use, c)
    BY <1>2 DEF Begins, c
  <2>3. CallerOK(t, <<c>>)
    BY <1>a, <1>2, <2>1, <2>2 DEF CallerOK
  <2> QED
    BY <1>a, <2>1, <2>2, <2>3, CallWaits
<1>3. CASE SimulatorBegins
  <2>1. CASE Begins(UI, "stopAll", Call("stopAll", "begin", None))
    <3> DEFINE c == Call("stopAll", "begin", None)
    <3>1. c \in Frame /\ c.op = "stopAll" /\ <<c>> # <<>> /\ <<c>>[1] = c
      BY <1>b
    <3> HIDE DEF c
    <3>2. "stopAll" \in usage /\ Begins(UI, "stopAll", c)
      BY <2>1 DEF Begins, c
    <3>3. CallerOK(UI, <<c>>)
      BY <1>a, <3>1, <3>2 DEF CallerOK
    <3> QED
      BY <1>a, <3>1, <3>2, <3>3, CallWaits
  <2> QED
    BY <1>a, <1>2, <1>3, <2>1, NextIDIs DEF SimulatorBegins
<1>4. ASSUME NEW n \in ScriptIDs, ScriptBegins(n) PROVE WaitInv'
  <2>1. CASE Begins(n, "control", Call("control", "wait", None))
    <3> DEFINE c == Call("control", "wait", None)
    <3>1. c \in Frame /\ c.op = "control" /\ <<c>> # <<>> /\ <<c>>[1] = c
      BY <1>b
    <3> HIDE DEF c
    <3>2. "control" \in usage /\ Begins(n, "control", c)
      BY <2>1 DEF Begins, c
    <3>3. CallerOK(n, <<c>>)
      BY <1>a, <3>1, <3>2 DEF CallerOK
    <3> QED
      BY <1>a, <3>1, <3>2, <3>3, CallWaits
  <2> QED
    BY <1>1, <1>2, <1>4, <2>1 DEF ScriptBegins
<1> QED
  BY <1>a, <1>1, <1>3, <1>4

LEMMA InitWait == Init => WaitInv
<1> SUFFICES ASSUME Init PROVE WaitInv
  OBVIOUS
<1>1. \A t \in Threads : stack[t] = <<>> /\ Len(stack[t]) = 0
  BY DEF Init
<1>2. \A t \in Threads : /\ \A i : ~Launches(stack[t], i) /\ ~Deletes(stack[t], i)
                         /\ ~Does(stack[t], "launch", "lock") /\ Len(stack[t]) # 3
  BY <1>1 DEF Launches, Deletes, Does
<1>3. \A i \in DOMAIN scripts : scripts[i].script = scripts[i].scriptID
  BY DEF Init
<1> QED
  BY <1>1, <1>2, <1>3 DEF WaitInv, CallersInv, CallerOK, ClosingInv, ClosingOK, HiddenInv, RestartInv,
                          RestartOK

LEMMA NextWait == IInv /\ WaitInv /\ [Next]_vars => WaitInv'
<1> SUFFICES ASSUME IInv, WaitInv, [Next]_vars PROVE WaitInv'
  OBVIOUS
<1>1. CASE UNCHANGED vars
  <2>1. UNCHANGED <<scripts, plugins, stack, usage>>
    BY <1>1 DEF vars, listVars
  <2> QED
    BY <2>1 DEF WaitInv, CallersInv, CallerOK, ClosingInv, ClosingOK, HiddenInv, RestartInv,
                RestartOK, Stopping
<1>2. ASSUME NEW n \in ScriptIDs, ScriptFails(n) \/ CallbackEnds(n) \/ Runs(n)
      PROVE  WaitInv'
  <2>1. n \in Threads
    BY DEF Threads
  <2> QED
    BY <1>2, <2>1, ThreadsWaits, ReturnsWaits DEF Runs
<1>3. CASE \/ \E t \in Detached, path \in Paths : MenuBegins(t, path)
           \/ SimulatorBegins
           \/ \E n \in ScriptIDs : ScriptBegins(n)
  BY <1>3, BeginsWait
<1>4. ASSUME NEW t \in Threads, Step(t) PROVE WaitInv'
  <2>1. CASE Launch(t)
    BY <2>1, LaunchFindWaits, LaunchLockWaits, LaunchCreateWaits, UseAfterMoveWaits, ReturnsWaits DEF Launch
  <2>2. CASE Stop(t)
    BY <2>2, StopsLook, StopsDelete, ReturnsWaits, UseAfterMoveWaits DEF Stop
  <2>3. CASE StopAll(t)
    BY <2>3, StopsLook, StopsDelete, ReturnsWaits DEF StopAll
  <2>4. CASE With(t)
    BY <2>4, WithWaits, UseAfterMoveWaits DEF With
  <2>5. CASE Delete(t)
    BY <2>5, DeleteWaits
  <2> QED
    BY <1>4, <2>1, <2>2, <2>3, <2>4, <2>5 DEF Step
<1> QED
  BY <1>1, <1>2, <1>3, <1>4 DEF Next

LEMMA WaitInvariance == Spec => [](IInv /\ WaitInv)
<1>1. Init => IInv /\ WaitInv
  BY InitIInv, InitWait
<1>2. IInv /\ WaitInv /\ [Next]_vars => (IInv /\ WaitInv)'
  BY NextIInv, NextWait
<1> QED
  BY <1>1, <1>2, PTL DEF Spec

\* What a thread waits for, by the place it is at.
LEMMA WaitsAt ==
  ASSUME IInv, NEW t \in Threads, WaitsFor(t) # {}
  PROVE  /\ stack[t] # <<>>
         /\ \/ Top(t).at \in {"find", "begin"} /\ globalMutex.owner \in WaitsFor(t) \ {None}
            \/ Top(t).at = "lock" /\ scripts[Top(t).ref.i].mutex.owner \in WaitsFor(t) \ {None}
            \/ /\ Top(t).at = "next" /\ Top(t).key <= Len(scripts)
               /\ scripts[Top(t).key].mutex.owner \in WaitsFor(t) \ {None}
            \/ Top(t).at = "join" /\ Top(t).key \in WaitsFor(t)
            \/ Top(t).at = "wait" /\ UI \in WaitsFor(t)
<1> DEFINE c == Top(t)
           owner(m) == IF CanLock(m, t) THEN {} ELSE {m.owner}
<1>1. \A m : owner(m) # {} => m.owner \in owner(m) \ {None}
  BY DEF CanLock
<1>2. stack[t] # <<>>
  BY DEF WaitsFor, Idle
<1>3. CASE c.at \in {"find", "begin"}
  <2>1. WaitsFor(t) = owner(globalMutex)
    BY <1>2, <1>3 DEF WaitsFor, Idle
  <2> HIDE DEF owner
  <2> QED
    BY <1>1, <1>2, <1>3, <2>1
<1>4. CASE c.at = "lock"
  <2>1. WaitsFor(t) = owner(scripts[c.ref.i].mutex)
    BY <1>2, <1>4 DEF WaitsFor, Idle
  <2> HIDE DEF owner
  <2> QED
    BY <1>1, <1>2, <1>4, <2>1
<1>5. CASE c.at = "next"
  <2>1. c.key <= Len(scripts) /\ WaitsFor(t) = owner(scripts[c.key].mutex)
    BY <1>2, <1>5 DEF WaitsFor, Idle
  <2> HIDE DEF owner
  <2> QED
    BY <1>1, <1>2, <1>5, <2>1
<1>6. CASE c.at = "join"
  <2>1. WaitsFor(t) = {c.key}
    BY <1>2, <1>6 DEF WaitsFor, Idle
  <2> QED
    BY <1>2, <1>6, <2>1
<1>7. CASE c.at = "wait"
  <2>1. WaitsFor(t) = {UI}
    BY <1>2, <1>7 DEF WaitsFor, Idle
  <2> QED
    BY <1>2, <1>7, <2>1
<1>8. CASE c.at \notin {"find", "begin", "lock", "next", "join", "wait"}
  <2>1. WaitsFor(t) = {}
    BY <1>2, <1>8 DEF WaitsFor, Idle
  <2> QED
    BY <2>1
<1> QED
  BY <1>3, <1>4, <1>5, <1>6, <1>7, <1>8

\* A thread in a call of launch, stop or the like waits for a mutex; inside of one it waits
\* for the end of a script's thread or, in a finaliser, for a mutex.
LEMMA OuterPlace ==
  ASSUME IInv, NEW t \in Threads, WaitsFor(t) # {}, Len(stack[t]) = 1
  PROVE  LET c == stack[t][1] IN
         \/ /\ c.op \in {"launch", "stop", "stopAll", "with"}
            /\ globalMutex.owner \in WaitsFor(t) \ {None}
         \/ /\ c.op \in {"launch", "stop", "with"} /\ c.at = "lock" /\ c.ref.i \in DOMAIN scripts
            /\ scripts[c.ref.i].mutex.owner \in WaitsFor(t) \ {None}
         \/ /\ c.op = "stopAll" /\ c.key \in DOMAIN scripts
            /\ scripts[c.key].mutex.owner \in WaitsFor(t) \ {None}
         \/ c.op = "control" /\ UI \in WaitsFor(t)
<1> USE Parts
<1> DEFINE c == stack[t][1]
<1>1. stack[t] # <<>> /\ c = Top(t) /\ OuterOK(c, Len(scripts))
  <2>1. stack[t] # <<>>
    BY WaitsAt
  <2>2. Last(stack[t]) = stack[t][Len(stack[t])]
    BY DEF Last
  <2>3. OuterOK(stack[t][1], Len(scripts))
    <3>1. Len(stack[t]) >= 1
      OBVIOUS
    <3> QED
      BY <3>1 DEF StackOK
  <2> QED
    BY <2>1, <2>2, <2>3 DEF Top
<1>2. c.at = "lock" => c.op \in {"launch", "stop", "with"} /\ HasRef(c, Len(scripts))
  BY <1>1 DEF OuterOK, WithOK
<1>3. c.at = "lock" => c.ref.i \in DOMAIN scripts
  BY <1>2 DEF HasRef
<1>4. c.at = "next" => c.op = "stopAll" /\ c.key \in 1..(Len(scripts) + 1)
  BY <1>1 DEF OuterOK, WithOK
<1>5. c.at \in {"find", "begin"} => c.op \in {"launch", "stop", "stopAll", "with"}
  BY <1>1 DEF OuterOK, WithOK
<1>6. c.at = "wait" => c.op = "control"
  BY <1>1 DEF OuterOK, WithOK
<1>7. c.at # "join"
  BY <1>1 DEF OuterOK, WithOK
<1>8. c.at = "next" /\ c.key <= Len(scripts) => c.key \in DOMAIN scripts
  BY <1>4
<1> HIDE DEF c
<1> QED
  BY <1>1, <1>2, <1>3, <1>4, <1>5, <1>6, <1>7, <1>8, WaitsAt DEF c

LEMMA InnerPlace ==
  ASSUME IInv, NEW t \in Threads, WaitsFor(t) # {}, Len(stack[t]) # 1
  PROVE  /\ stack[t] # <<>> /\ Waits(stack[t])
         /\ \/ /\ Len(stack[t]) = 2 /\ stack[t][2].key \in ScriptIDs
               /\ stack[t][2].key \in WaitsFor(t) /\ Deletes(stack[t], stack[t][2].key)
            \/ /\ Len(stack[t]) = 3 /\ stack[t][3].at = "find"
               /\ globalMutex.owner \in WaitsFor(t) \ {None}
            \/ /\ Len(stack[t]) = 3 /\ stack[t][3].at = "lock"
<1> USE Parts
<1> DEFINE s == stack[t]
<1>1. s # <<>>
  BY WaitsAt
<1>2. Len(s) \in 2..3 /\ Len(s) >= 2
  <2>1. Len(s) \in Nat /\ Len(s) <= 3 /\ Len(s) # 0
    <3>1. s = <<>> <=> Len(s) = 0
      BY Empty
    <3> QED
      BY <1>1, <3>1 DEF StackOK
  <2>2. Len(s) # 1
    OBVIOUS
  <2>3. \A k \in Nat : k <= 3 /\ k # 0 /\ k # 1 => k \in 2..3 /\ k >= 2
    OBVIOUS
  <2> QED
    BY ONLY <2>1, <2>2, <2>3
<1>3. Waits(s) /\ DeleteOK(s[2])
  BY <1>2 DEF StackOK
<1>4. Top(t) = s[Len(s)]
  BY DEF Top, Last
<1>5. CASE Len(s) = 2
  <2>1. Top(t) = s[2] /\ s[2].key \in ScriptIDs /\ s[2].at \in {"stop", "join", "joinBackground", "free"}
    BY <1>3, <1>4, <1>5 DEF DeleteOK
  <2>2. s[2].key \in WaitsFor(t)
    BY <2>1, WaitsAt
  <2>3. Deletes(s, s[2].key)
    BY <1>5 DEF Deletes
  <2> QED
    BY <1>1, <1>3, <1>5, <2>1, <2>2, <2>3
<1>6. CASE Len(s) = 3
  <2>1. Top(t) = s[3] /\ WithOK(s[3], Len(scripts))
    BY <1>4, <1>6 DEF StackOK
  <2>2. s[3].at \in {"find", "lock"}
    BY <2>1 DEF WithOK
  <2> QED
    BY <1>1, <1>3, <1>6, <2>1, <2>2, WaitsAt
<1> QED
  BY <1>2, <1>5, <1>6

\* Who holds an entry's mutex and waits is deleting a script.
LEMMA EntryHolder ==
  ASSUME IInv, NEW t \in Threads, WaitsFor(t) # {}, NEW i \in DOMAIN scripts, scripts[i].mutex.owner = t
  PROVE  HoldsEntry(stack[t], i) /\ Len(stack[t]) # 1
<1> USE Parts
<1>1. HoldsEntry(stack[t], i)
  BY DEF IInv, MutexInv
<1>2. stack[t][1].at \in {"create", "deleted"} /\ stack[t] # <<>>
  BY <1>1 DEF HoldsEntry, Launches, Stops, Does
<1>3. ASSUME Len(stack[t]) = 1 PROVE FALSE
  <2>1. Top(t) = stack[t][1]
    BY <1>3 DEF Top, Last
  <2> QED
    BY <1>2, <2>1, WaitsAt
<1> QED
  BY <1>1, <1>3

\* Who holds the global mutex and waits does so for an entry's, or is deleting a script.
LEMMA GlobalHolder ==
  ASSUME IInv, NEW t \in Threads, WaitsFor(t) # {}, globalMutex.owner = t
  PROVE  /\ Does(stack[t], "launch", "lock") \/ stack[t][1].op = "stopAll"
         /\ \/ Len(stack[t]) # 1
            \/ \E i \in DOMAIN scripts :
                 /\ scripts[i].mutex.owner \in WaitsFor(t) \ {None}
                 /\ Does(stack[t], "launch", "lock") => i = stack[t][1].ref.i
<1> USE Parts
<1> DEFINE s == stack[t]
<1>1. HoldsGlobal(s)
  BY DEF IInv, MutexInv
<1>2. s # <<>> /\ (Does(s, "launch", "lock") \/ s[1].op = "stopAll")
  BY <1>1 DEF HoldsGlobal, Does
<1>3. ASSUME Len(s) = 1
      PROVE  \E i \in DOMAIN scripts :
                 /\ scripts[i].mutex.owner \in WaitsFor(t) \ {None}
                 /\ Does(s, "launch", "lock") => i = s[1].ref.i
  <2>1. Top(t) = s[1]
    BY <1>3 DEF Top, Last
  <2>2. s[1].at \notin {"find", "begin"} /\ (s[1].op = "stopAll" => s[1].at # "lock")
    BY <1>1 DEF HoldsGlobal, Does
  <2>3. CASE s[1].op = "stopAll"
    <3>1. s[1].at = "next"
      BY <1>1, <2>1, <2>3, WaitsAt DEF HoldsGlobal, Does
    <3>2. s[1].key <= Len(scripts) /\ scripts[s[1].key].mutex.owner \in WaitsFor(t) \ {None}
      BY <2>1, <3>1, WaitsAt
    <3>3. s[1].key \in 1..(Len(scripts) + 1)
      <4>1. Len(s) >= 1
        BY <1>3
      <4>2. OuterOK(s[1], Len(scripts))
        BY <4>1 DEF StackOK
      <4> QED
        BY <2>3, <3>1, <4>2 DEF OuterOK, WithOK
    <3>4. s[1].key \in DOMAIN scripts
      BY <3>2, <3>3
    <3> QED
      BY <2>3, <3>2, <3>4 DEF Does
  <2>4. CASE Does(s, "launch", "lock")
    <3>1. s[1].ref.i \in DOMAIN scripts
      BY <2>4, LaunchRef
    <3>2. scripts[s[1].ref.i].mutex.owner \in WaitsFor(t) \ {None}
      BY <2>1, <2>4, WaitsAt DEF Does
    <3> QED
      BY <3>1, <3>2
  <2> QED
    BY <1>2, <2>3, <2>4
<1> QED
  BY <1>2, <1>3

\* Threads that only wait for one another.
Deadlocked(K) ==
  K \subseteq Threads /\ \A t \in K : WaitsFor(t) # {} /\ WaitsFor(t) \subseteq K

\* The scripts' threads call nothing.
LEMMA IdleScripts ==
  ASSUME IInv, WaitInv, usage \cap {"close", "collect", "control", "scripted"} = {},
         NEW K, Deadlocked(K)
  PROVE  K = {}
<1> USE DEF Deadlocked
<1>1. \A t \in K : stack[t] # <<>> /\ t \notin ScriptIDs
  BY WaitsAt DEF WaitInv, CallersInv, CallerOK
<1>2. ASSUME NEW t \in K PROVE Len(stack[t]) = 1
  <2>1. Len(stack[t]) # 3
    BY DEF WaitInv, ClosingInv, ClosingOK
  <2> QED
    BY <1>1, <2>1, InnerPlace
<1>3. \A t \in K : stack[t][1].op # "control"
  BY <1>1 DEF WaitInv, CallersInv, CallerOK
<1>4. \A t \in K, i \in DOMAIN scripts : scripts[i].mutex.owner # t
  BY <1>2, EntryHolder
<1>5. \A t \in K : globalMutex.owner # t
  BY <1>2, <1>4, GlobalHolder
<1>6. ASSUME NEW t \in K PROVE FALSE
  BY SMTT(30), <1>2, <1>3, <1>4, <1>5, OuterPlace
<1> QED
  BY <1>6

\* Nothing is stopped, and of the scripts only those launched first launch others.
LEMMA NothingStopped ==
  ASSUME IInv, WaitInv, usage \cap {"stop", "stopAll", "collect", "control"} = {},
         NEW K, Deadlocked(K)
  PROVE  K = {}
<1> USE DEF Deadlocked
<1>1. /\ ~Stopping
      /\ \A t \in Threads : stack[t] # <<>> =>
           /\ stack[t][1].op \notin {"stop", "stopAll", "control"}
           /\ t \in ScriptIDs => /\ plugins[t].path \in Range(Initial)
                                 /\ stack[t][1].op = "launch" /\ stack[t][1].key \notin Range(Initial)
  BY DEF Stopping, WaitInv, CallersInv, CallerOK
<1>2. \A t \in Threads, i \in DOMAIN scripts : scripts[i].mutex.owner = t => Launches(stack[t], i)
  BY <1>1 DEF IInv, MutexInv, HoldsEntry, Stops, Does
<1>3. ASSUME NEW t \in Threads, Does(stack[t], "launch", "lock")
      PROVE  scripts[stack[t][1].ref.i].mutex.owner \notin Threads
  <2> DEFINE i == stack[t][1].ref.i
  <2>1. i \in DOMAIN scripts /\ stack[t][1].key \in Paths
    BY <1>3, LaunchRef
  <2>2. scripts[i].path = stack[t][1].key
    BY <1>3 DEF WaitInv, RestartInv, RestartOK
  <2>3. scripts[i].path # None
    BY <2>1, <2>2, ThreadsAssumption
  <2> QED
    BY <1>2, <2>1, <2>3 DEF WaitInv, HiddenInv
<1>4. ASSUME NEW t \in K, globalMutex.owner = t PROVE FALSE
  <2>1. stack[t] # <<>>
    BY WaitsAt
  <2>2. Does(stack[t], "launch", "lock")
    BY <1>1, <1>4, <2>1, GlobalHolder
  <2>3. Len(stack[t]) = 1
    BY <2>2, InnerPlace DEF Waits, Does
  <2> QED
    BY <1>3, <1>4, <2>2, <2>3, GlobalHolder
<1>5. ASSUME NEW t \in K, Len(stack[t]) # 1
      PROVE  /\ stack[t][2].key \in K \cap ScriptIDs
             /\ IsLaunch(stack[t]) /\ Deletes(stack[t], stack[t][2].key)
  <2>1. stack[t] # <<>> /\ Waits(stack[t])
    BY <1>5, InnerPlace
  <2>2. IsLaunch(stack[t])
    BY <1>1, <2>1 DEF Waits, Does, IsLaunch
  <2>3. Len(stack[t]) = 3 => stack[t][3].at = "find"
    BY <1>1 DEF WaitInv, ClosingInv, ClosingOK
  <2> QED
    BY <1>4, <1>5, <2>2, <2>3, InnerPlace
<1>6. ASSUME NEW t \in K \cap ScriptIDs PROVE Len(stack[t]) # 1
  <2>1. stack[t] # <<>> /\ stack[t][1].op = "launch"
    BY <1>1, WaitsAt
  <2>2. stack[t][1].at = "lock" => Does(stack[t], "launch", "lock")
    BY <2>1 DEF Does
  <2> QED
    BY <1>3, <1>4, <2>1, <2>2, OuterPlace
<1>7. ASSUME NEW t \in K \cap ScriptIDs PROVE FALSE
  <2> DEFINE n == stack[t][2].key
  <2>1. n \in K \cap ScriptIDs /\ IsLaunch(stack[t]) /\ Deletes(stack[t], n)
    BY <1>5, <1>6
  <2>2. plugins[n].path = stack[t][1].key
    BY <2>1 DEF WaitInv, RestartInv, RestartOK
  <2>3. stack[t] # <<>> /\ stack[n] # <<>>
    BY <2>1, WaitsAt
  <2> QED
    BY <1>1, <2>1, <2>2, <2>3
<1>8. \A t \in K : Len(stack[t]) = 1
  BY <1>5, <1>7
<1>9. \A t \in K, i \in DOMAIN scripts : scripts[i].mutex.owner # t
  BY <1>8, EntryHolder
<1>10. ASSUME NEW t \in K PROVE FALSE
  <2>1. stack[t] # <<>>
    BY WaitsAt
  <2> QED
    BY SMTT(30), <1>1, <1>4, <1>8, <1>9, <2>1, OuterPlace
<1> QED
  BY <1>10

\* No mutex is held.
LEMMA NothingHeld ==
  ASSUME IInv, WaitInv, usage \cap {"launch", "stop", "stopAll"} = {}, NEW K, Deadlocked(K)
  PROVE  K = {}
<1> USE DEF Deadlocked
<1>1. \A t \in Threads : stack[t] # <<>> => stack[t][1].op \notin {"launch", "stop", "stopAll"}
  BY DEF WaitInv, CallersInv, CallerOK
<1>2. \A t \in Threads : globalMutex.owner # t /\ \A i \in DOMAIN scripts : scripts[i].mutex.owner # t
  BY <1>1 DEF IInv, MutexInv, HoldsGlobal, HoldsEntry, Launches, Stops, Does
<1>3. ASSUME NEW t \in K PROVE stack[t] # <<>> /\ stack[t][1].op = "control" /\ UI \in K
  <2>1. stack[t] # <<>>
    BY WaitsAt
  <2>2. Len(stack[t]) = 1
    BY <1>1, InnerPlace DEF Waits, Does
  <2> QED
    BY <1>2, <2>1, <2>2, OuterPlace
<1>4. UI \notin K
  BY <1>3 DEF WaitInv, CallersInv, CallerOK
<1> QED
  BY <1>3, <1>4

\* No threads wait for one another for good in launchScript, stopScript, stopAllScripts and
\* withScript, if the uses of the API are among those of SafeUse. The other ones do so
\* (LuaPlugin::stopThread, called under the mutex of an entry).
THEOREM DeadlockFree == (\A uses \in Usages : SafeUse(uses)) => (Spec => []NoDeadlock)
<1> SUFFICES ASSUME \A uses \in Usages : SafeUse(uses) PROVE Spec => []NoDeadlock
  OBVIOUS
<1>1. IInv /\ WaitInv => NoDeadlock
  <2> SUFFICES ASSUME IInv, WaitInv,
                      NEW K \in SUBSET {t \in Threads : WaitsFor(t) # {}},
                      \A t \in K : WaitsFor(t) \subseteq K
               PROVE  K = {}
    BY DEF NoDeadlock
  <2>1. Deadlocked(K)
    BY DEF Deadlocked
  <2>2. SafeUse(usage)
    BY DEF IInv, TypeInv
  <2> QED
    BY <2>1, <2>2, IdleScripts, NothingStopped, NothingHeld DEF SafeUse
<1> QED
  BY <1>1, WaitInvariance, PTL
=============================================================================
