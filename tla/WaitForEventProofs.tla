------------------------- MODULE WaitForEventProofs --------------------------
(***************************************************************************)
(* Proofs about coroutines that wait for events (WaitForEvent.tla): what a *)
(* wait leaves behind, and what it returns.                                *)
(***************************************************************************)
EXTENDS WaitForEvent, TLAPS

-----------------------------------------------------------------------------
(* The inductive invariant *)

FunctionsInv ==
  /\ DOMAIN wait = Threads
  /\ happened \in [Threads -> Seq(Signals)]

\* What all of it rests on: no wait names an event twice.
Distinct == "repeated" \notin Usage

\* The action of an event that may still be triggered belongs to a wait that goes on, and
\* that has not heard the event.
Awaited(a, e) ==
  /\ wait[a.thread] # None
  /\ a.number = wait[a.thread].number
  /\ e \in ToSet(wait[a.thread].asked.events) \ wait[a.thread].got

LeftInv == \A e \in Signals \ signalled : \A a \in actions[e] : Awaited(a, e)

\* Every wait knows all of its actions.
KnownInv == \A e \in Signals : \A a \in actions[e] : a.known

\* The end of a coroutine is signalled when it ends.
EndsInv == registered \cap signalled = {}

\* What the closures of a wait know is what has happened.
Heard(w, h) ==
  /\ w.got = ToSet(h)
  /\ ToSet(h) \subseteq ToSet(w.asked.events)
  /\ w.first = IF w.asked.all \/ h = <<>> THEN None ELSE Head(h)

HeardInv == \A t \in Threads : wait[t] # None => Heard(wait[t], happened[t])

\* A wait listens to all events that it has not heard.
Mine(t) == [thread |-> t, number |-> wait[t].number, known |-> TRUE]

ListensInv ==
  \A t \in Threads : wait[t] # None =>
    \A e \in ToSet(wait[t].asked.events) \ wait[t].got : Mine(t) \in actions[e]

\* A coroutine is to be resumed only if it has heard enough, or its time has run out.
DueInv ==
  \A t \in Threads :
    deadline[t] = "due" => Enough(wait[t].asked, wait[t].got) \/ t \in elapsed

IInv ==
  /\ TypeOK /\ FunctionsInv
  /\ LeftInv /\ KnownInv /\ EndsInv
  /\ HeardInv /\ ListensInv /\ DueInv

-----------------------------------------------------------------------------
(* Lemmas about sequences and about the operators *)

LEMMA SeqOfType ==
  ASSUME NEW S, NEW n \in Nat, NEW s \in SeqOf(S, n)
  PROVE  s \in Seq(S) /\ ToSet(s) \subseteq S
<1>1. PICK m \in 0..n : s \in [1..m -> S]
  BY DEF SeqOf
<1> QED
  BY <1>1 DEF ToSet

LEMMA AppendSet ==
  ASSUME NEW S, NEW s \in Seq(S), NEW e \in S
  PROVE  /\ ToSet(Append(s, e)) = ToSet(s) \union {e}
         /\ Append(s, e) # <<>>
         /\ Append(s, e) \in Seq(S)
         /\ Head(Append(s, e)) = IF s = <<>> THEN e ELSE Head(s)
<1>1. DOMAIN s = 1..Len(s) /\ Len(s) \in Nat
  OBVIOUS
<1>2. DOMAIN Append(s, e) = 1..(Len(s) + 1) /\ Append(s, e)[Len(s) + 1] = e
  OBVIOUS
<1>3. \A i \in 1..Len(s) : Append(s, e)[i] = s[i]
  OBVIOUS
<1>4. ToSet(Append(s, e)) = ToSet(s) \union {e}
  BY <1>1, <1>2, <1>3 DEF ToSet
<1>5. Head(Append(s, e)) = IF s = <<>> THEN e ELSE Head(s)
  <2>1. CASE s = <<>>
    BY <2>1, <1>2
  <2>2. CASE s # <<>>
    <3>1. 1 \in 1..Len(s) /\ Head(s) = s[1]
      BY <1>1, <2>2
    <3>2. Head(Append(s, e)) = Append(s, e)[1]
      OBVIOUS
    <3> QED
      BY <1>3, <2>2, <3>1, <3>2
  <2> QED
    BY <2>1, <2>2
<1>6. Append(s, e) \in Seq(S)
  OBVIOUS
<1>7. Append(s, e) # <<>>
  BY <1>4, <1>2 DEF ToSet
<1> QED
  BY <1>4, <1>5, <1>6, <1>7

LEMMA HeadInSet ==
  ASSUME NEW S, NEW s \in Seq(S)
  PROVE  /\ s # <<>> => Head(s) \in ToSet(s) /\ Head(s) \in S
         /\ s = <<>> <=> ToSet(s) = {}
         /\ ToSet(s) \subseteq S
BY DEF ToSet

\* The closures of a wait go on with the same wait, and know what has happened when an
\* event has happened that the wait is for.
LEMMA HearsWait ==
  ASSUME NEW t \in Threads, NEW w \in Wait(t), NEW e \in Signals
  PROVE  /\ Hears(w, e) \in Wait(t)
         /\ Hears(w, e).asked = w.asked /\ Hears(w, e).number = w.number
         /\ Hears(w, e).got = w.got \union {e}
         /\ Hears(w, e).first = IF w.asked.all \/ w.first # None THEN w.first ELSE e
BY DEF Hears, Wait

LEMMA HearsHeard ==
  ASSUME NEW t \in Threads, NEW w \in Wait(t), NEW h \in Seq(Signals), Heard(w, h),
         NEW e \in ToSet(w.asked.events), e \in Signals
  PROVE  Heard(Hears(w, e), IF e \in ToSet(h) THEN h ELSE Append(h, e))
<1> DEFINE v == Hears(w, e)
<1>1. None \notin Signals /\ w.asked.all \in BOOLEAN
  BY SignalsAssumption DEF Signals, Wait, Asked
<1>2. /\ v.asked = w.asked /\ v.got = w.got \union {e}
      /\ v.first = IF w.asked.all \/ w.first # None THEN w.first ELSE e
  BY HearsWait
<1>3. /\ w.got = ToSet(h) /\ ToSet(h) \subseteq ToSet(w.asked.events)
      /\ w.first = IF w.asked.all \/ h = <<>> THEN None ELSE Head(h)
  BY DEF Heard
<1>4. h # <<>> => Head(h) \in Signals
  BY HeadInSet
<1> HIDE DEF v
<1>5. CASE e \in ToSet(h)
  <2>1. v.got = ToSet(h)
    BY <1>2, <1>3, <1>5
  <2>2. h # <<>>
    BY <1>5, HeadInSet
  <2>3. v.first = IF w.asked.all \/ h = <<>> THEN None ELSE Head(h)
    BY <1>1, <1>2, <1>3, <1>4, <2>2
  <2>4. Heard(v, h)
    BY <1>2, <1>3, <2>1, <2>3 DEF Heard
  <2> QED
    BY <1>5, <2>4 DEF v
<1>6. CASE e \notin ToSet(h)
  <2> DEFINE g == Append(h, e)
  <2>1. /\ ToSet(g) = ToSet(h) \union {e} /\ g # <<>>
        /\ Head(g) = IF h = <<>> THEN e ELSE Head(h)
    BY AppendSet
  <2> HIDE DEF g
  <2>2. v.first = IF w.asked.all \/ g = <<>> THEN None ELSE Head(g)
    BY <1>1, <1>2, <1>3, <1>4, <2>1
  <2>3. Heard(v, g)
    BY <1>2, <1>3, <2>1, <2>2 DEF Heard
  <2> QED
    BY <1>6, <2>3 DEF v, g
<1> QED
  BY <1>5, <1>6

\* More can only be enough, as long as it is something that was asked for.
LEMMA EnoughStays ==
  ASSUME NEW asked, NEW got, NEW e \in ToSet(asked.events), Enough(asked, got)
  PROVE  Enough(asked, got \union {e})
BY DEF Enough

-----------------------------------------------------------------------------
(* A trigger *)

\* What is left of the actions when those of the thread that ends have been removed; it
\* has none to be removed if the signal is not the end of a thread, or of one that does not
\* wait.
WithoutThread(e, acts) ==
  /\ e \notin signalled
  /\ acts \in [Signals -> SUBSET Action]
  /\ \A s \in Signals :
       /\ acts[s] \subseteq actions[s]
       /\ \A a \in actions[s] : a.thread # e => a \in acts[s]
       /\ s \notin signalled => \A a \in acts[s] : a.thread # e

\* The coroutines that hear a signal are those that wait, and that have their own action
\* on it; the others have got it, or have not asked for it.
LEMMA TriggeredWaits ==
  ASSUME IInv, NEW e \in Signals, NEW acts, WithoutThread(e, acts), Triggered(e, acts),
         NEW t \in Threads
  PROVE  /\ t = e => wait'[t] = None /\ deadline'[t] = None /\ happened'[t] = <<>>
         /\ t # e /\ wait[t] = None =>
              wait'[t] = None /\ deadline'[t] = None /\ happened'[t] = happened[t]
         /\ t # e /\ wait[t] # None /\ Mine(t) \in acts[e] =>
              /\ e \in ToSet(wait[t].asked.events)
              /\ wait'[t] = Hears(wait[t], e)
              /\ deadline'[t] = IF Cancels(wait[t], e) THEN "due" ELSE deadline[t]
              /\ happened'[t] = IF e \in ToSet(happened[t]) THEN happened[t]
                                ELSE Append(happened[t], e)
         /\ t # e /\ wait[t] # None /\ Mine(t) \notin acts[e] =>
              /\ e \notin ToSet(wait[t].asked.events) \ wait[t].got
              /\ wait'[t] = wait[t] /\ deadline'[t] = deadline[t]
              /\ happened'[t] = happened[t]
<1> DEFINE hearers ==
             {u \in Threads \ {e} : \E a \in acts[e] : a.thread = u /\ wait[u] # None}
<1>1. ASSUME NEW a \in acts[e], a.thread = t
      PROVE  t # e /\ wait[t] # None /\ a = Mine(t)
  <2>1. a \in Action /\ a \in actions[e] /\ a.thread # e
    BY DEF WithoutThread
  <2>2. wait[t] # None /\ a.number = wait[t].number /\ a.known = TRUE
    BY <1>1, <2>1 DEF IInv, LeftInv, KnownInv, Awaited, WithoutThread, Action
  <2> QED
    BY <1>1, <2>1, <2>2 DEF Mine, Action
<1>2. /\ t \in hearers <=> t # e /\ wait[t] # None /\ Mine(t) \in acts[e]
      /\ (\E a \in acts[e] : a.thread = t /\ a.number = wait[t].number)
           <=> Mine(t) \in acts[e]
      /\ ~\E a \in acts[e] : a.thread = t /\ a.number # wait[t].number
  <2>1. Mine(t).thread = t /\ Mine(t).number = wait[t].number
    BY DEF Mine
  <2> QED
    BY <1>1, <2>1
<1>0. /\ wait'[t] = CASE t = e -> None
                      [] t # e /\ t \in hearers /\ Mine(t) \in acts[e] -> Hears(wait[t], e)
                      [] OTHER -> wait[t]
      /\ deadline'[t] = IF t \in hearers /\ Cancels(wait[t], e)
                        THEN "due" ELSE IF t = e THEN None ELSE deadline[t]
      /\ happened'[t] = CASE t = e -> <<>>
                          [] /\ t # e /\ wait[t] # None
                             /\ e \in ToSet(wait[t].asked.events) \ ToSet(happened[t]) ->
                               Append(happened[t], e)
                          [] OTHER -> happened[t]
  BY <1>2 DEF Triggered
<1>3. wait[t] # None /\ e \in ToSet(happened[t]) => e \in wait[t].got
  BY DEF IInv, HeardInv, Heard
<1>4. t # e /\ wait[t] # None /\ Mine(t) \in acts[e] =>
        e \in ToSet(wait[t].asked.events)
  <2>1. Mine(t) \in acts[e] => Mine(t) \in actions[e]
    BY DEF WithoutThread
  <2>2. Mine(t).thread = t
    BY DEF Mine
  <2> QED
    BY <2>1, <2>2 DEF IInv, LeftInv, Awaited, WithoutThread
<1>5. t # e /\ wait[t] # None /\ Mine(t) \notin acts[e] =>
        e \notin ToSet(wait[t].asked.events) \ wait[t].got
  <2>1. t # e /\ Mine(t) \notin acts[e] => Mine(t) \notin actions[e]
    BY DEF WithoutThread, Mine
  <2> QED
    BY <2>1 DEF IInv, ListensInv
<1>6. wait[t] = None => deadline[t] = None
  BY DEF IInv, TypeOK
<1>7. wait[t] # None => wait[t].got = ToSet(happened[t])
  BY DEF IInv, HeardInv, Heard
<1> HIDE DEF hearers
<1> QED
  BY <1>0, <1>2, <1>3, <1>4, <1>5, <1>6, <1>7

LEMMA TriggeredTypeOK ==
  ASSUME IInv, NEW e \in Signals, NEW acts, WithoutThread(e, acts), Triggered(e, acts),
         registered' = registered \ {e}
  PROVE  TypeOK' /\ FunctionsInv'
<1>1. ASSUME NEW t \in Threads
      PROVE  /\ wait'[t] = None \/ wait'[t] \in Wait(t)
             /\ deadline'[t] \in {None, "finite", "infinite", "due"}
             /\ deadline'[t] = None <=> wait'[t] = None
             /\ happened'[t] \in Seq(Signals)
  <2>1. /\ wait[t] = None \/ wait[t] \in Wait(t)
        /\ deadline[t] \in {None, "finite", "infinite", "due"}
        /\ deadline[t] = None <=> wait[t] = None
        /\ happened[t] \in Seq(Signals)
    BY DEF IInv, TypeOK, FunctionsInv
  <2>2. None \notin Wait(t) /\ None # "due"
    BY NoneAssumption
  <2>3. CASE t = e
    <3>1. wait'[t] = None /\ deadline'[t] = None /\ happened'[t] = <<>>
      BY <2>3, TriggeredWaits
    <3> QED
      BY <3>1
  <2>4. CASE t # e /\ (wait[t] = None \/ Mine(t) \notin acts[e])
    <3>1. wait'[t] = wait[t] /\ deadline'[t] = deadline[t] /\ happened'[t] = happened[t]
      BY <2>1, <2>4, TriggeredWaits
    <3> QED
      BY <2>1, <3>1
  <2>5. CASE t # e /\ wait[t] # None /\ Mine(t) \in acts[e]
    <3>1. /\ wait'[t] = Hears(wait[t], e)
          /\ deadline'[t] = IF Cancels(wait[t], e) THEN "due" ELSE deadline[t]
          /\ happened'[t] = IF e \in ToSet(happened[t]) THEN happened[t]
                            ELSE Append(happened[t], e)
      BY <2>5, TriggeredWaits
    <3>2. wait'[t] \in Wait(t)
      BY <2>1, <2>5, <3>1, HearsWait
    <3>3. happened'[t] \in Seq(Signals)
      BY <2>1, <3>1, AppendSet
    <3> QED
      BY <2>1, <2>2, <2>5, <3>1, <3>2, <3>3
  <2> QED
    BY <2>3, <2>4, <2>5
<1>2. /\ DOMAIN wait' = Threads /\ deadline' = [t \in Threads |-> deadline'[t]]
      /\ happened' = [t \in Threads |-> happened'[t]]
      /\ actions' = [acts EXCEPT ![e] = {}]
      /\ signalled' = signalled \union ({e} \cap Once) /\ waits' = waits
  BY DEF Triggered
<1>3. actions' \in [Signals -> SUBSET Action]
  BY <1>2 DEF WithoutThread
<1>4. /\ registered' \subseteq Threads /\ signalled' \subseteq Once
      /\ waits' \in [Threads -> 0..MaxWaits]
  BY <1>2 DEF IInv, TypeOK
<1>5. /\ deadline' \in [Threads -> {None, "finite", "infinite", "due"}]
      /\ happened' \in [Threads -> Seq(Signals)]
  BY <1>1, <1>2
<1> QED
  BY <1>1, <1>2, <1>3, <1>4, <1>5 DEF TypeOK, FunctionsInv

\* Actions that are left are those of waits that go on, and that the trigger has not run.
LEMMA TriggeredLeft ==
  ASSUME IInv, NEW e \in Signals, NEW acts, WithoutThread(e, acts), Triggered(e, acts)
  PROVE  LeftInv'
<1> SUFFICES ASSUME NEW s \in Signals \ signalled', NEW a \in actions'[s]
             PROVE  /\ wait'[a.thread] # None
                    /\ a.number = wait'[a.thread].number
                    /\ s \in ToSet(wait'[a.thread].asked.events) \ wait'[a.thread].got
  BY DEF LeftInv, Awaited
<1> DEFINE t == a.thread
<1>1. /\ actions' = [acts EXCEPT ![e] = {}]
      /\ signalled' = signalled \union ({e} \cap Once)
  BY DEF Triggered
<1>2. /\ s # e /\ a \in acts[s] /\ a \in actions[s] /\ t # e /\ t \in Threads
      /\ s \in Signals \ signalled
  BY <1>1 DEF WithoutThread, Action
<1>3. /\ wait[t] # None /\ a.number = wait[t].number
      /\ s \in ToSet(wait[t].asked.events) \ wait[t].got
  BY <1>2 DEF IInv, LeftInv, Awaited
<1>4. wait[t] \in Wait(t) /\ None \notin Wait(t)
  BY <1>2, <1>3, NoneAssumption DEF IInv, TypeOK
<1> HIDE DEF t
<1>5. CASE Mine(t) \in acts[e]
  <2>1. wait'[t] = Hears(wait[t], e)
    BY <1>2, <1>3, <1>5, TriggeredWaits
  <2>2. /\ wait'[t] \in Wait(t) /\ wait'[t].asked = wait[t].asked
        /\ wait'[t].number = wait[t].number /\ wait'[t].got = wait[t].got \union {e}
    BY <1>2, <1>4, <2>1, HearsWait
  <2> QED
    BY <1>1, <1>2, <1>3, <1>4, <2>2 DEF t
<1>6. CASE Mine(t) \notin acts[e]
  <2>1. wait'[t] = wait[t]
    BY <1>2, <1>3, <1>6, TriggeredWaits
  <2> QED
    BY <1>1, <1>3, <2>1 DEF t
<1> QED
  BY <1>5, <1>6

\* The waits that go on know what has happened, listen for the rest, and are due if they
\* have heard enough.
LEMMA TriggeredRest ==
  ASSUME IInv, NEW e \in Signals, NEW acts, WithoutThread(e, acts), Triggered(e, acts)
  PROVE  HeardInv' /\ ListensInv' /\ DueInv'
<1> SUFFICES ASSUME NEW t \in Threads
             PROVE  /\ wait'[t] # None => Heard(wait'[t], happened'[t])
                    /\ wait'[t] # None =>
                         \A s \in ToSet(wait'[t].asked.events) \ wait'[t].got :
                           Mine(t)' \in actions'[s]
                    /\ deadline'[t] = "due" =>
                         Enough(wait'[t].asked, wait'[t].got) \/ t \in elapsed'
  BY DEF HeardInv, ListensInv, DueInv
<1>1. /\ actions' = [acts EXCEPT ![e] = {}] /\ elapsed' = elapsed \ {e}
      /\ Mine(t)' = [thread |-> t, number |-> wait'[t].number, known |-> TRUE]
  BY DEF Triggered, Mine
<1>2. None # "due" /\ (wait[t] = None <=> deadline[t] = None)
  BY NoneAssumption DEF IInv, TypeOK
<1>3. CASE t = e \/ wait[t] = None
  <2>1. wait'[t] = None /\ deadline'[t] = None
    BY <1>3, TriggeredWaits
  <2> QED
    BY <1>2, <2>1
<1>4. CASE t # e /\ wait[t] # None
  <2>1. /\ wait[t] \in Wait(t) /\ happened[t] \in Seq(Signals)
        /\ Heard(wait[t], happened[t])
        /\ \A s \in ToSet(wait[t].asked.events) \ wait[t].got : Mine(t) \in actions[s]
        /\ deadline[t] = "due" => Enough(wait[t].asked, wait[t].got) \/ t \in elapsed
    BY <1>4 DEF IInv, TypeOK, FunctionsInv, HeardInv, ListensInv, DueInv
  <2>2. ToSet(wait[t].asked.events) \subseteq Signals
    BY <2>1, WaitsAssumption, SeqOfType DEF Wait, Asked, Lists
  <2>3. \A s \in ToSet(wait[t].asked.events) \ wait[t].got : Mine(t) \in acts[s]
    <3>1. Mine(t).thread # e
      BY <1>4 DEF Mine
    <3> QED
      BY <2>1, <2>2, <3>1 DEF WithoutThread
  <2>4. CASE Mine(t) \in acts[e]
    <3>1. /\ e \in ToSet(wait[t].asked.events)
          /\ wait'[t] = Hears(wait[t], e)
          /\ deadline'[t] = IF Cancels(wait[t], e) THEN "due" ELSE deadline[t]
          /\ happened'[t] = IF e \in ToSet(happened[t]) THEN happened[t]
                            ELSE Append(happened[t], e)
      BY <1>4, <2>4, TriggeredWaits
    <3>2. /\ wait'[t].asked = wait[t].asked /\ wait'[t].number = wait[t].number
          /\ wait'[t].got = wait[t].got \union {e}
      BY <2>1, <3>1, HearsWait
    <3>3. Heard(wait'[t], happened'[t])
      BY <2>1, <3>1, HearsHeard
    <3>4. \A s \in ToSet(wait'[t].asked.events) \ wait'[t].got : Mine(t)' \in actions'[s]
      <4>1. Mine(t)' = Mine(t)
        BY <1>1, <3>2 DEF Mine
      <4> QED
        BY <1>1, <2>2, <2>3, <3>2, <4>1 DEF WithoutThread
    <3>5. deadline'[t] = "due" => Enough(wait'[t].asked, wait'[t].got) \/ t \in elapsed'
      <4>1. CASE Cancels(wait[t], e)
        BY <3>1, <3>2, <4>1 DEF Cancels
      <4>2. CASE ~Cancels(wait[t], e)
        <5>1. Enough(wait[t].asked, wait[t].got) =>
                Enough(wait[t].asked, wait[t].got \union {e})
          BY <3>1, EnoughStays
        <5> QED
          BY <1>1, <1>4, <2>1, <3>1, <3>2, <4>2, <5>1
      <4> QED
        BY <4>1, <4>2
    <3> QED
      BY <3>3, <3>4, <3>5
  <2>5. CASE Mine(t) \notin acts[e]
    <3>1. /\ e \notin ToSet(wait[t].asked.events) \ wait[t].got
          /\ wait'[t] = wait[t] /\ deadline'[t] = deadline[t] /\ happened'[t] = happened[t]
      BY <1>4, <2>5, TriggeredWaits
    <3>2. \A s \in ToSet(wait[t].asked.events) \ wait[t].got : actions'[s] = acts[s]
      BY <1>1, <2>2, <3>1 DEF WithoutThread
    <3>3. Mine(t)' = Mine(t)
      BY <1>1, <3>1 DEF Mine
    <3> QED
      BY <1>1, <1>4, <2>1, <2>3, <3>1, <3>2, <3>3
  <2> QED
    BY <2>4, <2>5
<1> QED
  BY <1>3, <1>4

LEMMA TriggeredIInv ==
  ASSUME IInv, NEW e \in Signals, NEW acts, WithoutThread(e, acts), Triggered(e, acts),
         registered' = registered \ {e}
  PROVE  IInv'
<1>1. KnownInv'
  BY DEF IInv, KnownInv, Triggered, WithoutThread
<1>2. EndsInv'
  BY DEF IInv, EndsInv, Triggered
<1> QED
  BY <1>1, <1>2, TriggeredTypeOK, TriggeredLeft, TriggeredRest DEF IInv

-----------------------------------------------------------------------------
(* The steps *)

LEMMA InitIInv == Init => IInv
<1> SUFFICES ASSUME Init PROVE IInv
  OBVIOUS
<1> USE DEF Init
<1>1. TypeOK
  BY WaitsAssumption DEF TypeOK
<1>2. FunctionsInv
  BY DEF FunctionsInv
<1>3. LeftInv /\ KnownInv /\ EndsInv /\ HeardInv /\ ListensInv
  BY DEF LeftInv, KnownInv, EndsInv, HeardInv, ListensInv
<1>4. DueInv
  BY NoneAssumption DEF DueInv
<1> QED
  BY <1>1, <1>2, <1>3, <1>4 DEF IInv

LEMMA TriggerIInv ==
  ASSUME IInv, NEW e \in Events, Trigger(e)
  PROVE  IInv'
<1>1. CASE e \in Once \cap signalled
  BY <1>1 DEF Trigger, IInv, TypeOK, FunctionsInv, LeftInv, Awaited, KnownInv, EndsInv,
     HeardInv, ListensInv, Mine, DueInv
<1>2. CASE e \notin Once \cap signalled
  <2>1. Triggered(e, actions) /\ registered' = registered \ {e}
    BY <1>2, SignalsAssumption DEF Trigger, IInv, TypeOK
  <2>2. WithoutThread(e, actions)
    <3>1. \A s \in Signals : \A a \in actions[s] : a.thread \in Threads /\ a.thread # e
      BY SignalsAssumption DEF IInv, TypeOK, Action
    <3>2. e \notin signalled
      BY <1>2 DEF IInv, TypeOK
    <3> QED
      BY <3>1, <3>2 DEF WithoutThread, IInv, TypeOK
  <2> QED
    BY <2>1, <2>2, TriggeredIInv DEF Signals
<1> QED
  BY <1>1, <1>2

LEMMA ThreadEndsIInv ==
  ASSUME IInv, NEW t \in Threads, Finish(t) \/ removeCallback(t)
  PROVE  IInv'
<1>0. t \notin signalled
  BY DEF IInv, EndsInv, Finish, removeCallback
<1>1. CASE Finish(t)
  <2>1. WithoutThread(t, actions)
    <3>1. \A s \in Signals \ signalled : \A a \in actions[s] : a.thread # t
      BY <1>1 DEF Finish, IInv, LeftInv, Awaited
    <3> QED
      BY <1>0, <3>1 DEF WithoutThread, IInv, TypeOK
  <2> QED
    BY <1>1, <2>1, TriggeredIInv DEF Finish, Signals
<1>2. CASE removeCallback(t)
  <2> DEFINE acts == Without(actions, t, 1..MaxWaits)
  <2>1. \A s \in Signals : acts[s] = {a \in actions[s] : a.thread # t}
    <3>1. \A s \in Signals : \A a \in actions[s] : a.number \in 1..MaxWaits /\ a.known
      BY DEF IInv, TypeOK, KnownInv, Action
    <3> QED
      BY <3>1 DEF Without
  <2>2. acts = [s \in Signals |-> acts[s]]
    BY DEF Without
  <2> HIDE DEF acts
  <2>3. acts \in [Signals -> SUBSET Action]
    BY <2>1, <2>2 DEF IInv, TypeOK
  <2>4. WithoutThread(t, acts)
    BY <1>0, <2>1, <2>3 DEF WithoutThread
  <2>5. Triggered(t, acts) /\ registered' = registered \ {t}
    BY <1>2 DEF removeCallback, acts
  <2> QED
    BY <2>4, <2>5, TriggeredIInv DEF Signals
<1> QED
  BY <1>1, <1>2

LEMMA ElapseIInv ==
  ASSUME IInv, NEW t \in Threads, Elapse(t)
  PROVE  IInv'
<1>1. /\ wait[t] # None /\ elapsed' = elapsed \union {t}
      /\ deadline' = [deadline EXCEPT ![t] = "due"]
      /\ UNCHANGED <<registered, wait, actions, signalled, waits, happened>>
  BY DEF Elapse
<1>2. TypeOK' /\ FunctionsInv'
  BY <1>1, NoneAssumption DEF IInv, TypeOK, FunctionsInv
<1>3. LeftInv' /\ KnownInv' /\ EndsInv' /\ HeardInv' /\ ListensInv'
  BY <1>1 DEF IInv, LeftInv, Awaited, KnownInv, EndsInv, HeardInv, ListensInv, Mine
<1>4. DueInv'
  BY <1>1 DEF IInv, TypeOK, DueInv
<1> QED
  BY <1>2, <1>3, <1>4 DEF IInv

LEMMA ResumeIInv ==
  ASSUME IInv, NEW t \in Threads, Resume(t)
  PROVE  IInv'
<1>1. /\ wait' = [wait EXCEPT ![t] = None] /\ deadline' = [deadline EXCEPT ![t] = None]
      /\ actions' = [e \in Signals |->
                       {a \in actions[e] :
                          ~(a.thread = t /\ a.number \in {wait[t].number} /\ a.known)}]
      /\ happened' = [happened EXCEPT ![t] = <<>>] /\ elapsed' = elapsed \ {t}
      /\ UNCHANGED <<registered, signalled, waits>>
  BY DEF Resume, Without
<1>2. TypeOK'
  BY <1>1 DEF IInv, TypeOK, FunctionsInv
<1>3. FunctionsInv'
  BY <1>1 DEF IInv, FunctionsInv
<1>4. LeftInv'
  <2>1. \A e \in Signals \ signalled : \A a \in actions'[e] :
          a \in actions[e] /\ a.thread # t /\ a.thread \in Threads
    BY <1>1 DEF IInv, TypeOK, LeftInv, Awaited, KnownInv, Action
  <2>2. \A u \in Threads \ {t} : wait'[u] = wait[u]
    BY <1>1 DEF IInv, FunctionsInv
  <2> QED
    BY <1>1, <2>1, <2>2 DEF IInv, LeftInv, Awaited
<1>5. ASSUME NEW u \in Threads, wait'[u] # None
      PROVE  /\ u # t /\ wait[u] # None /\ wait'[u] = wait[u] /\ happened'[u] = happened[u]
             /\ deadline'[u] = deadline[u] /\ Mine(u)' = Mine(u) /\ Mine(u).thread = u
  BY <1>1, <1>5 DEF IInv, TypeOK, FunctionsInv, Mine
<1>6. HeardInv'
  BY <1>5 DEF IInv, HeardInv
<1>7. ListensInv'
  <2> SUFFICES ASSUME NEW u \in Threads, wait'[u] # None,
                      NEW e \in ToSet(wait'[u].asked.events) \ wait'[u].got
               PROVE  Mine(u)' \in actions'[e]
    BY DEF ListensInv
  <2>1. wait[u] \in Wait(u) /\ wait'[u] = wait[u] /\ wait[u] # None
    BY <1>5 DEF IInv, TypeOK
  <2>2. e \in Signals
    BY <2>1, WaitsAssumption, SeqOfType DEF Wait, Asked, Lists
  <2>3. Mine(u) \in actions[e]
    BY <2>1 DEF IInv, ListensInv
  <2> QED
    BY <1>1, <1>5, <2>2, <2>3
<1>8. DueInv'
  <2> SUFFICES ASSUME NEW u \in Threads, deadline'[u] = "due"
               PROVE  Enough(wait'[u].asked, wait'[u].got) \/ u \in elapsed'
    BY DEF DueInv
  <2>1. wait'[u] # None
    BY <1>2, NoneAssumption DEF TypeOK
  <2> QED
    BY <1>1, <1>5, <2>1 DEF IInv, DueInv
<1>9. KnownInv' /\ EndsInv'
  BY <1>1 DEF IInv, KnownInv, EndsInv
<1> QED
  BY <1>2, <1>3, <1>4, <1>6, <1>7, <1>8, <1>9 DEF IInv

\* A wait that names no event twice adds one action to each of its events.
LEMMA AddedOne ==
  ASSUME Distinct, NEW t \in Threads, NEW events \in Lists(t), NEW n, NEW e
  PROVE  Added(t, n, events, e) = IF e \in ToSet(events)
                                  THEN {[thread |-> t, number |-> n, known |-> TRUE]} ELSE {}
<1> DEFINE places == {k \in DOMAIN events : events[k] = e}
           last(i) == \A j \in DOMAIN events : j > i => events[j] # e
<1>1. IsInjective(events) /\ events \in Seq(Signals \ {t})
  BY WaitsAssumption, SeqOfType DEF Lists, Distinct
<1>2. \A i \in places : last(i)
  BY <1>1 DEF IsInjective
<1>3. Added(t, n, events, e) = {[thread |-> t, number |-> n, known |-> last(i)] : i \in places}
  BY DEF Added
<1>4. places # {} <=> e \in ToSet(events)
  BY DEF ToSet
<1>5. \A i \in places : last(i) = TRUE
  BY <1>2
<1> HIDE DEF places, last
<1> QED
  BY <1>3, <1>4, <1>5

\* A wait begins with what had been signalled before, and listens to all of its events.
LEMMA BeginIInv ==
  ASSUME Distinct, IInv, NEW t \in Threads, NEW asked \in Asked(t), NEW several \in BOOLEAN,
         Begin(t, asked, several)
  PROVE  IInv'
<1> DEFINE n == waits[t] + 1
           mine == [thread |-> t, number |-> n, known |-> TRUE]
           NewWait(before) ==
             [asked |-> asked, number |-> n, got |-> ToSet(before),
              first |-> IF before = <<>> \/ asked.all THEN None ELSE Head(before)]
           listening ==
             [e \in Signals |-> actions[e] \union Added(t, n, asked.events, e)]
<1>1. PICK before \in Before(asked.events) :
        \/ /\ UNCHANGED <<wait, deadline, happened>>
           /\ \/ /\ Enough(asked, ToSet(before)) /\ Len(asked.events) = 1 /\ ~asked.all
                 /\ actions' = listening
              \/ actions' = Without(listening, t, {n})
        \/ /\ ~Enough(asked, ToSet(before)) /\ asked.timeout # "zero"
           /\ wait' = [wait EXCEPT ![t] = NewWait(before)]
           /\ deadline' = [deadline EXCEPT ![t] = asked.timeout]
           /\ actions' = listening
           /\ happened' = [happened EXCEPT ![t] = before]
  BY DEF Begin
<1>2. /\ wait[t] = None /\ waits[t] < MaxWaits
      /\ waits' = [waits EXCEPT ![t] = @ + 1]
      /\ UNCHANGED <<registered, signalled, elapsed>>
  BY DEF Begin
<1>3. waits' \in [Threads -> 0..MaxWaits] /\ waits[t] + 1 \in 1..MaxWaits
  BY <1>2, WaitsAssumption DEF IInv, TypeOK
<1>4. /\ asked.events \in Lists(t) /\ asked.all \in BOOLEAN
      /\ asked.events \in Seq(Signals) /\ ToSet(asked.events) \subseteq Signals
  <2>1. asked.events \in Lists(t) /\ asked.all \in BOOLEAN
    BY DEF Asked
  <2> QED
    BY <2>1, WaitsAssumption, SeqOfType DEF Lists
<1>5. /\ before \in Seq(Signals) /\ ToSet(before) \subseteq ToSet(asked.events)
      /\ ToSet(before) \subseteq signalled
  <2>1. Len(asked.events) \in Nat
    BY <1>4
  <2>2. /\ before \in SeqOf(ToSet(asked.events) \cap signalled, Len(asked.events))
        /\ ToSet(before) = ToSet(asked.events) \cap signalled
    BY DEF Before
  <2>3. before \in Seq(ToSet(asked.events) \cap signalled)
    BY <2>1, <2>2, SeqOfType
  <2> QED
    BY <1>4, <2>2, <2>3
<1>6. listening = [e \in Signals |-> IF e \in ToSet(asked.events)
                                    THEN actions[e] \union {mine} ELSE actions[e]]
  BY <1>4, AddedOne
<1>7. mine \in Action /\ mine.thread = t /\ mine.number = n /\ mine.known = TRUE
  BY <1>3 DEF Action
<1> HIDE DEF listening, mine
<1>8. listening \in [Signals -> SUBSET Action]
  BY <1>6, <1>7 DEF IInv, TypeOK
<1>9. CASE /\ UNCHANGED <<wait, deadline, happened>>
           /\ \/ /\ Enough(asked, ToSet(before)) /\ Len(asked.events) = 1 /\ ~asked.all
                 /\ actions' = listening
              \/ actions' = Without(listening, t, {n})
  <2>1. /\ actions' \in [Signals -> SUBSET Action]
        /\ \A e \in Signals : \A a \in actions[e] : a.thread # t => a \in actions'[e]
        /\ \A e \in Signals : \A a \in actions'[e] : a \in actions[e] \/ a = mine
        /\ \A e \in Signals \ signalled : \A a \in actions'[e] : a \in actions[e]
    <3>1. CASE /\ Enough(asked, ToSet(before)) /\ Len(asked.events) = 1 /\ ~asked.all
               /\ actions' = listening
      <4>1. PICK i \in DOMAIN asked.events : asked.events[i] \in signalled
        <5>1. ToSet(before) # {}
          BY <3>1 DEF Enough
        <5> QED
          BY <1>5, <5>1 DEF ToSet
      <4>2. ToSet(asked.events) \subseteq signalled
        BY <1>4, <3>1, <4>1 DEF ToSet
      <4> QED
        BY <1>6, <1>8, <3>1, <4>2
    <3>2. CASE actions' = Without(listening, t, {n})
      <4>1. actions' = [e \in Signals |->
                         {a \in listening[e] : ~(a.thread = t /\ a.number \in {n} /\ a.known)}]
        BY <3>2 DEF Without
      <4> QED
        BY <1>6, <1>7, <1>8, <4>1
    <3> QED
      BY <1>9, <3>1, <3>2
  <2>2. TypeOK' /\ FunctionsInv'
    BY <1>2, <1>3, <1>9, <2>1 DEF IInv, TypeOK, FunctionsInv
  <2>3. LeftInv' /\ KnownInv' /\ EndsInv'
    <3>1. LeftInv'
      BY <1>2, <1>9, <2>1 DEF IInv, LeftInv, Awaited
    <3>2. KnownInv'
      BY <1>7, <2>1 DEF IInv, KnownInv
    <3> QED
      BY <1>2, <3>1, <3>2 DEF IInv, EndsInv
  <2>4. ListensInv'
    <3> SUFFICES ASSUME NEW u \in Threads, wait[u] # None,
                        NEW e \in ToSet(wait[u].asked.events) \ wait[u].got
                 PROVE  Mine(u) \in actions'[e]
      BY <1>9 DEF ListensInv, Mine
    <3>1. Mine(u) \in actions[e] /\ Mine(u).thread # t
      BY <1>2 DEF IInv, ListensInv, Mine
    <3>2. wait[u] \in Wait(u)
      BY DEF IInv, TypeOK
    <3>3. e \in Signals
      BY <3>2, WaitsAssumption, SeqOfType DEF Wait, Asked, Lists
    <3> QED
      BY <2>1, <3>1, <3>3
  <2>5. HeardInv' /\ DueInv'
    BY <1>2, <1>9 DEF IInv, HeardInv, DueInv
  <2> QED
    BY <2>2, <2>3, <2>4, <2>5 DEF IInv
<1>10. CASE /\ asked.timeout # "zero"
            /\ wait' = [wait EXCEPT ![t] = NewWait(before)]
            /\ deadline' = [deadline EXCEPT ![t] = asked.timeout]
            /\ actions' = listening
            /\ happened' = [happened EXCEPT ![t] = before]
  <2> DEFINE w == NewWait(before)
  <2>1. asked.timeout \in {"finite", "infinite"}
    BY <1>10 DEF Asked, Timeout
  <2>4. /\ w.asked = asked /\ w.number = waits[t] + 1 /\ w.got = ToSet(before)
        /\ w.first = IF before = <<>> \/ asked.all THEN None ELSE Head(before)
    OBVIOUS
  <2>5. w \in Wait(t) /\ w # None
    <3>1. before # <<>> => Head(before) \in Signals
      BY <1>5, HeadInSet
    <3>2. w.first \in Signals \union {None} /\ w.got \in SUBSET Signals
      BY <1>4, <1>5, <2>4, <3>1
    <3>3. w \in Wait(t)
      BY <1>3, <2>4, <3>2 DEF Wait
    <3> QED
      BY <3>3, NoneAssumption
  <2>6. wait'[t] = w /\ happened'[t] = before /\ deadline'[t] = asked.timeout
    BY <1>10 DEF IInv, TypeOK, FunctionsInv
  <2>7. ASSUME NEW u \in Threads \ {t}
        PROVE  wait'[u] = wait[u] /\ happened'[u] = happened[u] /\ deadline'[u] = deadline[u]
    BY <1>10 DEF IInv, TypeOK, FunctionsInv
  <2> HIDE DEF w
  <2>8. TypeOK'
    <3>1. actions' \in [Signals -> SUBSET Action]
      BY <1>8, <1>10
    <3>2. deadline' \in [Threads -> {None, "finite", "infinite", "due"}]
      BY <1>10, <2>1 DEF IInv, TypeOK
    <3>3. ASSUME NEW u \in Threads
          PROVE  /\ wait'[u] = None \/ wait'[u] \in Wait(u)
                 /\ deadline'[u] = None <=> wait'[u] = None
      <4>1. None \notin {"finite", "infinite"}
        BY NoneAssumption DEF Timeout
      <4>2. CASE u = t
        BY <2>1, <2>5, <2>6, <4>1, <4>2
      <4>3. CASE u # t
        BY <2>7, <4>3 DEF IInv, TypeOK
      <4> QED
        BY <4>2, <4>3
    <3> QED
      BY <1>2, <1>3, <3>1, <3>2, <3>3 DEF IInv, TypeOK
  <2>9. FunctionsInv'
    BY <1>10, <1>5 DEF IInv, FunctionsInv
  <2>10. LeftInv'
    <3> SUFFICES ASSUME NEW e \in Signals \ signalled, NEW a \in actions'[e]
                 PROVE  /\ wait'[a.thread] # None
                        /\ a.number = wait'[a.thread].number
                        /\ e \in ToSet(wait'[a.thread].asked.events) \ wait'[a.thread].got
      BY <1>2 DEF LeftInv, Awaited
    <3>1. CASE a \in actions[e]
      <4>1. /\ wait[a.thread] # None /\ a.number = wait[a.thread].number
            /\ e \in ToSet(wait[a.thread].asked.events) \ wait[a.thread].got
            /\ a.thread \in Threads
        BY <3>1 DEF IInv, TypeOK, LeftInv, Awaited, Action
      <4>2. a.thread # t
        BY <1>2, <4>1
      <4> QED
        BY <2>7, <4>1, <4>2
    <3>2. CASE a \notin actions[e]
      <4>1. a = mine /\ e \in ToSet(asked.events)
        BY <1>6, <1>10, <3>2
      <4> QED
        BY <1>5, <1>7, <2>4, <2>5, <2>6, <4>1
    <3> QED
      BY <3>1, <3>2
  <2>11. HeardInv'
    <3>1. Heard(wait'[t], happened'[t])
      BY <1>5, <2>4, <2>6 DEF Heard
    <3>2. ASSUME NEW u \in Threads \ {t}, wait'[u] # None
          PROVE  Heard(wait'[u], happened'[u])
      BY <2>7, <3>2 DEF IInv, HeardInv
    <3> QED
      BY <3>1, <3>2 DEF HeardInv
  <2>12. ListensInv'
    <3> SUFFICES ASSUME NEW u \in Threads, wait'[u] # None,
                        NEW e \in ToSet(wait'[u].asked.events) \ wait'[u].got
                 PROVE  Mine(u)' \in actions'[e]
      BY DEF ListensInv
    <3>1. CASE u = t
      BY <1>4, <1>6, <1>10, <2>4, <2>6, <3>1 DEF Mine, mine
    <3>2. CASE u # t
      <4>1. /\ wait'[u] = wait[u] /\ wait[u] # None /\ Mine(u)' = Mine(u)
            /\ wait[u] \in Wait(u)
        BY <2>7, <3>2 DEF IInv, TypeOK, Mine
      <4>2. e \in Signals
        BY <4>1, WaitsAssumption, SeqOfType DEF Wait, Asked, Lists
      <4>3. Mine(u) \in actions[e]
        BY <4>1 DEF IInv, ListensInv
      <4> QED
        BY <1>6, <1>10, <4>1, <4>2, <4>3
    <3> QED
      BY <3>1, <3>2
  <2>13. DueInv'
    <3>1. deadline'[t] # "due"
      BY <2>1, <2>6
    <3> QED
      BY <1>2, <2>7, <3>1 DEF IInv, DueInv
  <2>14. KnownInv' /\ EndsInv'
    <3>1. \A e \in Signals : \A a \in actions'[e] : a \in actions[e] \/ a = mine
      BY <1>6, <1>10
    <3> QED
      BY <1>2, <1>7, <3>1 DEF IInv, KnownInv, EndsInv
  <2> QED
    BY <2>8, <2>9, <2>10, <2>11, <2>12, <2>13, <2>14 DEF IInv
<1> QED
  BY <1>1, <1>9, <1>10

LEMMA NextIInv ==
  ASSUME Distinct, IInv, [Next]_vars
  PROVE  IInv'
<1>1. CASE UNCHANGED vars
  <2>1. TypeOK' /\ FunctionsInv'
    BY <1>1 DEF vars, IInv, TypeOK, FunctionsInv
  <2>2. /\ LeftInv' /\ KnownInv' /\ EndsInv'
        /\ HeardInv' /\ ListensInv' /\ DueInv'
    BY <1>1 DEF vars, IInv, LeftInv, Awaited, KnownInv, EndsInv, HeardInv, ListensInv, Mine,
       DueInv
  <2> QED
    BY <2>1, <2>2 DEF IInv
<1> QED
  BY <1>1, BeginIInv, ResumeIInv, ThreadEndsIInv, ElapseIInv, TriggerIInv DEF Next

LEMMA Invariance == Distinct => (Spec => []IInv)
<1> SUFFICES ASSUME Distinct PROVE Spec => []IInv
  OBVIOUS
<1>1. IInv /\ [Next]_vars => IInv'
  BY NextIInv
<1> QED
  BY <1>1, InitIInv, PTL DEF Spec

-----------------------------------------------------------------------------
(* The theorems *)

\* For any coroutines and events, however many events a coroutine waits for, as long as it
\* names none of them twice: the events that may still be triggered hold no action of a wait
\* that has ended, whether it was resumed, timed out, found its event signalled, or its
\* coroutine was removed (Event.lua:302-310, 321-324, 414-418, 451).
THEOREM NothingLeft == Distinct => (Spec => []NoActionLeft)
<1>1. IInv => NoActionLeft
  BY DEF IInv, LeftInv, Awaited, NoActionLeft
<1> QED
  BY <1>1, Invariance, PTL

\* What a wait returns is the first of its events that has happened, or all of them, and
\* otherwise Event.TIMEOUT, which it returns only if its time has run out.
THEOREM WaitCorrect == Distinct => (Spec => []ReturnsWhatHappened)
<1>1. IInv => ReturnsWhatHappened
  <2> SUFFICES ASSUME IInv, NEW t \in Threads, deadline[t] = "due"
               PROVE  Returned(wait[t]) = Promised(t)
    BY DEF ReturnsWhatHappened
  <2>1. wait[t] # None /\ wait[t] \in Wait(t) /\ happened[t] \in Seq(Signals)
    BY NoneAssumption DEF IInv, TypeOK, FunctionsInv
  <2>2. /\ wait[t].got = ToSet(happened[t])
        /\ wait[t].first = IF wait[t].asked.all \/ happened[t] = <<>> THEN None
                           ELSE Head(happened[t])
    BY <2>1 DEF IInv, HeardInv, Heard
  <2>3. (wait[t].got = {}) <=> (happened[t] = <<>>)
    BY <2>1, <2>2, HeadInSet
  <2>4. wait[t].asked.all \in BOOLEAN
    BY <2>1 DEF Wait, Asked
  <2>5. Enough(wait[t].asked, wait[t].got) \/ t \in elapsed
    BY DEF IInv, DueInv
  <2>6. CASE Enough(wait[t].asked, wait[t].got)
    BY <2>2, <2>3, <2>4, <2>6 DEF Enough, Returned, Promised
  <2>7. CASE ~Enough(wait[t].asked, wait[t].got) /\ t \in elapsed
    BY <2>2, <2>3, <2>4, <2>7 DEF Enough, Returned, Promised
  <2> QED
    BY <2>5, <2>6, <2>7
<1> QED
  BY <1>1, Invariance, PTL

=============================================================================
