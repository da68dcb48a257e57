---------------------------- MODULE RubyQueueProofs ----------------------------
(***************************************************************************)
(* Queue and SizedQueue: what holds for every set of threads and every     *)
(* program.                                                                *)
(***************************************************************************)
EXTENDS RubyQueue, SequenceTheorems, FiniteSetTheorems, TLAPS

USE DEF queueVars, threadVars, history

LEMMA InitType == Init => TypeOK
<1> SUFFICES ASSUME Init PROVE TypeOK
  OBVIOUS
<1> USE DEF Init
<1>1. length \in Nat /\ max \in Nat
  BY SizesAssumption
<1>2. waiting \in Seq(Threads) /\ queue_wait \in Seq(Threads)
  OBVIOUS
<1>3. pc \in [Threads -> LockPoints \cup Inside \cup SleepPoints \cup RelockPoints
                            \cup Unlocked \cup {"run", "dead", "set_call"}]
  OBVIOUS
<1>4. /\ next \in [Threads -> Threads \cup {NoThread}]
      /\ extra \in [Threads -> Nat]
      /\ pending \in [Threads -> Exceptions \cup {NoException}]
      /\ ops \in [Threads -> Nat]
  BY BudgetAssumption DEF NoException
<1>5. owner \in Threads \cup {NoThread} /\ asleep \subseteq Threads
  OBVIOUS
<1>6. passed \subseteq Threads /\ dropped \subseteq Threads /\ cut \in BOOLEAN
  OBVIOUS
<1> QED BY <1>1, <1>2, <1>3, <1>4, <1>5, <1>6 DEF TypeOK

\* What is left of a list that is shifted is a list of the same threads.
LEMMA ShiftType ==
    ASSUME NEW q \in Seq(Threads)
    PROVE  Rest(q) \in Seq(Threads) /\ First(q) \in Threads \cup {NoThread}
<1>1. CASE q = <<>>
  BY <1>1 DEF Rest, First
<1>2. CASE q # <<>>
  BY <1>2, HeadTailProperties DEF Rest, First
<1> QED BY <1>1, <1>2

LEMMA ListType ==
    ASSUME NEW q \in Seq(Threads), NEW t \in Threads
    PROVE  Append(q, t) \in Seq(Threads)
OBVIOUS

LEMMA BeginType ==
    ASSUME TypeOK, NEW t \in Threads, NEW op, Begin(t, op)
    PROVE  pc[t] = "run" /\ ops' \in [Threads -> Nat]
BY DEF TypeOK, Begin

\* The steps of push, of pop, of max= and of the calls, and those of the thread.
PushStep(t) ==
    \/ Lock(t) \/ Push(t) \/ PushCheck(t) \/ PushItem(t) \/ PushNotify(t)
    \/ PushWait(t) \/ PushSleep(t) \/ PushWake(t)
PopStep(t) ==
    \/ Pop(t) \/ PopCheck(t) \/ PopShift(t) \/ PopEmpty(t)
    \/ PopWait(t) \/ PopWake(t) \/ PopRoom(t) \/ PopNotify(t)
CallStep(t) ==
    \/ Call(t) \/ Retry(t) \/ RunThread(t) \/ Clear(t) \/ SetMaxBegin(t)
    \/ (\E m \in Sizes : SetMax(t, m))
    \/ SetMaxShift(t) \/ SetMaxRun(t) \/ SetMaxDone(t)
ThreadStep(t) ==
    \/ (\E u \in Threads : Interrupt(t, u))
    \/ Awake(t) \/ Rethrow(t) \/ Unwind(t) \/ Swallow(t) \/ LockRefused(t)
    \/ Finish(t)

LEMMA Steps ==
    ASSUME NEW t \in Threads, Step(t)
    PROVE  PushStep(t) \/ PopStep(t) \/ CallStep(t) \/ ThreadStep(t)
BY DEF Step, PushStep, PopStep, CallStep, ThreadStep

Points == LockPoints \cup Inside \cup SleepPoints \cup RelockPoints
            \cup Unlocked \cup {"run", "dead", "set_call"}

LEMMA GotoType ==
    ASSUME TypeOK, NEW t \in Threads, NEW p \in Points, Goto(t, p)
    PROVE  pc' \in [Threads -> Points]
BY DEF TypeOK, Goto, Points

LEMMA PushType ==
    ASSUME TypeOK, NEW t \in Threads, PushStep(t)
    PROVE  TypeOK'
<1> USE DEF Points, LockPoints, JustLocked, Inside, SleepPoints, RelockPoints, Unlocked
<1>1. CASE Lock(t)
  <2>1. Locked[pc[t]] \in JustLocked
    BY <1>1 DEF Lock, Locked
  <2>2. pc' \in [Threads -> Points]
    BY <1>1, <2>1, GotoType DEF Lock
  <2> QED BY <1>1, <2>2 DEF TypeOK, Lock
<1>2. CASE Push(t)
  BY <1>2, BeginType, GotoType DEF TypeOK, Push
<1>3. CASE PushCheck(t)
  BY <1>3, GotoType DEF TypeOK, PushCheck
<1>4. CASE PushItem(t)
  BY <1>4, GotoType DEF TypeOK, PushItem
<1>5. CASE PushNotify(t)
  <2>1. waiting' \in Seq(Threads) /\ next' \in [Threads -> Threads \cup {NoThread}]
    BY <1>5, ShiftType DEF TypeOK, PushNotify, Shift
  <2>2. pc' \in [Threads -> Points]
    BY <1>5, GotoType DEF PushNotify
  <2> QED BY <1>5, <2>1, <2>2 DEF TypeOK, PushNotify
<1>6. CASE PushWait(t)
  <2>1. queue_wait' \in Seq(Threads)
    BY <1>6, ListType DEF TypeOK, PushWait
  <2>2. pc' \in [Threads -> Points]
    BY <1>6, GotoType DEF PushWait
  <2> QED BY <1>6, <2>1, <2>2 DEF TypeOK, PushWait, Lists
<1>7. CASE PushSleep(t)
  BY <1>7, GotoType DEF TypeOK, PushSleep, MutexSleep
<1>8. CASE PushWake(t)
  BY <1>8, GotoType DEF TypeOK, PushWake
<1> QED BY <1>1, <1>2, <1>3, <1>4, <1>5, <1>6, <1>7, <1>8 DEF PushStep

LEMMA PopType ==
    ASSUME TypeOK, NEW t \in Threads, PopStep(t)
    PROVE  TypeOK'
<1> USE DEF Points, LockPoints, JustLocked, Inside, SleepPoints, RelockPoints, Unlocked
<1>1. CASE Pop(t)
  BY <1>1, BeginType, GotoType DEF TypeOK, Pop
<1>2. CASE PopCheck(t)
  BY <1>2, GotoType DEF TypeOK, PopCheck
<1>3. CASE PopShift(t)
  <2>1. length' \in Nat
    BY <1>3 DEF TypeOK, PopShift
  <2>2. pc' \in [Threads -> Points]
    BY <1>3, GotoType DEF PopShift
  <2> QED BY <1>3, <2>1, <2>2 DEF TypeOK, PopShift
<1>4. CASE PopEmpty(t)
  BY <1>4, GotoType DEF TypeOK, PopEmpty
<1>5. CASE PopWait(t)
  <2>1. waiting' \in Seq(Threads)
    BY <1>5, ListType DEF TypeOK, PopWait
  <2>2. pc' \in [Threads -> Points]
    BY <1>5, GotoType DEF PopWait, MutexSleep
  <2> QED BY <1>5, <2>1, <2>2 DEF TypeOK, PopWait, MutexSleep, Lists
<1>6. CASE PopWake(t)
  BY <1>6, GotoType DEF TypeOK, PopWake
<1>7. CASE PopRoom(t)
  BY <1>7, GotoType DEF TypeOK, PopRoom
<1>8. CASE PopNotify(t)
  <2>1. queue_wait' \in Seq(Threads) /\ next' \in [Threads -> Threads \cup {NoThread}]
    BY <1>8, ShiftType DEF TypeOK, PopNotify, Shift
  <2>2. pc' \in [Threads -> Points]
    BY <1>8, GotoType DEF PopNotify
  <2> QED BY <1>8, <2>1, <2>2 DEF TypeOK, PopNotify
<1> QED BY <1>1, <1>2, <1>3, <1>4, <1>5, <1>6, <1>7, <1>8 DEF PopStep

LEMMA CallType ==
    ASSUME TypeOK, NEW t \in Threads, CallStep(t)
    PROVE  TypeOK'
<1> USE DEF Points, LockPoints, JustLocked, Inside, SleepPoints, RelockPoints, Unlocked
<1>1. CASE Call(t)
  BY <1>1, GotoType DEF TypeOK, Call
<1>2. CASE Retry(t)
  <2>1. pc' \in [Threads -> Points]
    BY <1>2, GotoType DEF Retry
  <2>2. extra' \in [Threads -> Nat]
    BY <1>2 DEF TypeOK, Retry
  <2> QED BY <1>2, <2>1, <2>2 DEF TypeOK, Retry
<1>3. CASE RunThread(t)
  BY <1>3, GotoType DEF TypeOK, RunThread
<1>4. CASE Clear(t)
  BY <1>4, BeginType DEF TypeOK, Clear
<1>5. CASE SetMaxBegin(t)
  BY <1>5, BeginType, GotoType DEF TypeOK, SetMaxBegin
<1>6. ASSUME NEW m \in Sizes, SetMax(t, m) PROVE TypeOK'
  <2>1. m \in Nat /\ (m > max => m - max \in Nat)
    BY SizesAssumption DEF TypeOK
  <2>2. extra' \in [Threads -> Nat]
    BY <1>6, <2>1 DEF TypeOK, SetMax
  <2>3. pc' \in [Threads -> Points]
    BY <1>6, GotoType DEF SetMax
  <2> QED BY <1>6, <2>1, <2>2, <2>3 DEF TypeOK, SetMax
<1>7. CASE SetMaxShift(t)
  <2>1. queue_wait' \in Seq(Threads) /\ next' \in [Threads -> Threads \cup {NoThread}]
    BY <1>7, ShiftType DEF TypeOK, SetMaxShift, Shift
  <2>2. pc' \in [Threads -> Points]
    BY <1>7, GotoType DEF SetMaxShift
  <2>3. extra' \in [Threads -> Nat]
    BY <1>7 DEF TypeOK, SetMaxShift
  <2> QED BY <1>7, <2>1, <2>2, <2>3 DEF TypeOK, SetMaxShift
<1>8. CASE SetMaxRun(t)
  BY <1>8, GotoType DEF TypeOK, SetMaxRun, Listing
<1>9. CASE SetMaxDone(t)
  BY <1>9, GotoType DEF TypeOK, SetMaxDone
<1> QED BY <1>1, <1>2, <1>3, <1>4, <1>5, <1>6, <1>7, <1>8, <1>9 DEF CallStep

LEMMA ThreadType ==
    ASSUME TypeOK, NEW t \in Threads, ThreadStep(t)
    PROVE  TypeOK'
<1> USE DEF Points, LockPoints, JustLocked, Inside, SleepPoints, RelockPoints, Unlocked
<1>1. ASSUME NEW u \in Threads, Interrupt(t, u) PROVE TypeOK'
  BY <1>1, BeginType DEF TypeOK, Interrupt, Exceptions
<1>2. CASE Awake(t)
  BY <1>2, GotoType DEF TypeOK, Awake
<1>3. CASE Rethrow(t)
  BY <1>3, GotoType DEF TypeOK, Rethrow
<1>4. CASE Unwind(t)
  <2>1. pc' \in [Threads -> Points]
    BY <1>4, GotoType DEF Unwind
  <2>2. owner' \in Threads \cup {NoThread}
    BY <1>4 DEF TypeOK, Unwind, GiveBack
  <2>3. dropped' \subseteq Threads
    BY <1>4 DEF TypeOK, Unwind
  <2>4. cut' \in BOOLEAN
    BY <1>4 DEF TypeOK, Unwind
  <2> QED BY <1>4, <2>1, <2>2, <2>3, <2>4 DEF TypeOK, Unwind
<1>5. CASE Swallow(t)
  BY <1>5 DEF TypeOK, Swallow
<1>6. CASE LockRefused(t)
  BY <1>6, GotoType DEF TypeOK, LockRefused
<1>7. CASE Finish(t)
  BY <1>7, GotoType DEF TypeOK, Finish, GiveBack
<1> QED BY <1>1, <1>2, <1>3, <1>4, <1>5, <1>6, <1>7 DEF ThreadStep

LEMMA StepType == TypeOK /\ [Next]_vars => TypeOK'
<1>1. TypeOK /\ UNCHANGED vars => TypeOK'
  BY DEF TypeOK, vars
<1>2. ASSUME TypeOK, NEW t \in Threads, Step(t) PROVE TypeOK'
  BY <1>2, Steps, PushType, PopType, CallType, ThreadType
<1> QED BY <1>1, <1>2 DEF Next

\* Every reachable state is well typed: the lists hold threads only, and max=
\* has a number of threads to run that is not negative.
THEOREM TypeCorrect == Spec => []TypeOK
BY InitType, StepType, PTL DEF Spec

-----------------------------------------------------------------------------
(***************************************************************************)
(* The lock: who is inside a synchronized block holds it, and a step of t  *)
(* touches the queue as its place in the code says.                        *)
(***************************************************************************)
Holds == \A t \in Threads : pc[t] \in Inside => owner = t

\* A push past the test has room.
Room == \A t \in Threads : Sized /\ pc[t] = "push_item" => length < max

\* Only a SizedQueue has a max=.
Setting == {"set_lock", "set_check"}
Resizable == \A t \in Threads : pc[t] \in Setting => Sized

LockStep(t) ==
    \/ owner' = owner /\ (pc'[t] \in Inside => pc[t] \in Inside)
    \/ owner = NoThread /\ owner' = t
    \/ owner = t /\ owner' = NoThread /\ pc'[t] \notin Inside

QueueStep(t) ==
    /\ \/ length' \in {length, 0}
       \/ /\ pc[t] = "pop_shift" /\ pc'[t] # "pop_shift"
          /\ length > 0 /\ length' = length - 1
       \/ /\ pc[t] = "push_item" /\ pc'[t] # "push_item"
          /\ length' = length + 1
    /\ max' = max \/ (max' \in Nat /\ pc[t] = "set_check")
    /\ Sized /\ pc[t] # "push_item" /\ pc'[t] = "push_item" =>
          length < max /\ UNCHANGED <<length, max>>
    /\ pc'[t] \in Setting => Sized \/ pc[t] \in Setting

Effect(t) ==
    /\ \A u \in Threads \ {t} : pc'[u] = pc[u] /\ next'[u] = next[u]
    /\ LockStep(t)
    /\ QueueStep(t)

LEMMA GotoOnly ==
    ASSUME TypeOK, NEW t \in Threads, NEW p, Goto(t, p)
    PROVE  pc'[t] = p /\ \A u \in Threads \ {t} : pc'[u] = pc[u]
BY DEF TypeOK, Goto

LEMMA ShiftNext ==
    ASSUME TypeOK, NEW t \in Threads, NEW q, Shift(t, q)
    PROVE  next'[t] = First(q) /\ \A u \in Threads \ {t} : next'[u] = next[u]
BY DEF TypeOK, Shift

LEMMA LockJust ==
    ASSUME NEW p \in LockPoints
    PROVE  Locked[p] \in JustLocked /\ (p = "pop_lock" <=> Locked[p] = "pop_check")
           /\ (p = "try_lock" <=> Locked[p] = "try_check")
           /\ (p = "push_lock" <=> Locked[p] = "push_enter")
BY DEF LockPoints, Locked, JustLocked

LEMMA PushEffect ==
    ASSUME TypeOK, Holds, NEW t \in Threads, PushStep(t)
    PROVE  Effect(t)
<1> USE DEF Effect, LockStep, QueueStep, Setting, Inside, JustLocked
<1>0. length \in Nat /\ max \in Nat
  BY DEF TypeOK
<1>1. CASE Lock(t)
  <2>1. /\ Locked[pc[t]] # "push_item" /\ Locked[pc[t]] # "set_lock"
        /\ Locked[pc[t]] = "set_check" => pc[t] = "set_lock"
    BY <1>1, LockJust DEF Lock, LockPoints, Locked
  <2> QED BY <1>0, <1>1, <2>1, GotoOnly DEF Lock
<1>2. CASE Push(t)
  BY <1>0, <1>2, GotoOnly DEF Push, Begin
<1>3. CASE PushCheck(t)
  BY <1>0, <1>3, GotoOnly DEF PushCheck, Full
<1>4. CASE PushItem(t)
  BY <1>0, <1>4, GotoOnly DEF PushItem
<1>5. CASE PushNotify(t)
  BY <1>0, <1>5, GotoOnly, ShiftNext DEF PushNotify
<1>6. CASE PushWait(t)
  BY <1>0, <1>6, GotoOnly DEF PushWait
<1>7. CASE PushSleep(t)
  BY <1>0, <1>7, GotoOnly DEF PushSleep, MutexSleep, Holds
<1>8. CASE PushWake(t)
  BY <1>0, <1>8, GotoOnly DEF PushWake
<1> QED BY <1>1, <1>2, <1>3, <1>4, <1>5, <1>6, <1>7, <1>8 DEF PushStep

LEMMA PopEffect ==
    ASSUME TypeOK, Holds, NEW t \in Threads, PopStep(t)
    PROVE  Effect(t)
<1> USE DEF Effect, LockStep, QueueStep, Setting, Inside, JustLocked
<1>0. length \in Nat /\ max \in Nat
  BY DEF TypeOK
<1>1. CASE Pop(t)
  BY <1>0, <1>1, GotoOnly DEF Pop, Begin
<1>2. CASE PopCheck(t)
  BY <1>0, <1>2, GotoOnly DEF PopCheck
<1>3. CASE PopShift(t)
  BY <1>0, <1>3, GotoOnly DEF PopShift, Holds
<1>4. CASE PopEmpty(t)
  BY <1>0, <1>4, GotoOnly DEF PopEmpty, Holds
<1>5. CASE PopWait(t)
  BY <1>0, <1>5, GotoOnly DEF PopWait, MutexSleep, Holds
<1>6. CASE PopWake(t)
  BY <1>0, <1>6, GotoOnly DEF PopWake
<1>7. CASE PopRoom(t)
  BY <1>0, <1>7, GotoOnly DEF PopRoom, Holds
<1>8. CASE PopNotify(t)
  BY <1>0, <1>8, GotoOnly, ShiftNext DEF PopNotify
<1> QED BY <1>1, <1>2, <1>3, <1>4, <1>5, <1>6, <1>7, <1>8 DEF PopStep

LEMMA CallEffect ==
    ASSUME TypeOK, Holds, NEW t \in Threads, CallStep(t)
    PROVE  Effect(t)
<1> USE DEF Effect, LockStep, QueueStep, Setting, Inside, JustLocked
<1>0. length \in Nat /\ max \in Nat
  BY DEF TypeOK
<1>1. CASE Call(t)
  BY <1>0, <1>1, GotoOnly DEF Call, Holds
<1>2. CASE Retry(t)
  BY <1>0, <1>2, GotoOnly DEF Retry
<1>3. CASE RunThread(t)
  BY <1>0, <1>3, GotoOnly DEF RunThread, TypeOK
<1>4. CASE Clear(t)
  BY <1>0, <1>4 DEF Clear, Begin
<1>5. CASE SetMaxBegin(t)
  BY <1>0, <1>5, GotoOnly DEF SetMaxBegin, Begin
<1>6. ASSUME NEW m \in Sizes, SetMax(t, m) PROVE Effect(t)
  BY <1>0, <1>6, GotoOnly, SizesAssumption DEF SetMax, Holds
<1>7. CASE SetMaxShift(t)
  BY <1>0, <1>7, GotoOnly, ShiftNext DEF SetMaxShift
<1>8. CASE SetMaxRun(t)
  BY <1>0, <1>8, GotoOnly DEF SetMaxRun, TypeOK
<1>9. CASE SetMaxDone(t)
  BY <1>0, <1>9, GotoOnly DEF SetMaxDone
<1> QED BY <1>1, <1>2, <1>3, <1>4, <1>5, <1>6, <1>7, <1>8, <1>9 DEF CallStep

LEMMA ThreadEffect ==
    ASSUME TypeOK, Holds, NEW t \in Threads, ThreadStep(t)
    PROVE  Effect(t)
<1> USE DEF Effect, LockStep, QueueStep, Setting, Inside, JustLocked
<1>0. length \in Nat /\ max \in Nat
  BY DEF TypeOK
<1>1. ASSUME NEW u \in Threads, Interrupt(t, u) PROVE Effect(t)
  BY <1>0, <1>1 DEF Interrupt, Begin
<1>2. CASE Awake(t)
  BY <1>0, <1>2, GotoOnly DEF Awake
<1>3. CASE Rethrow(t)
  BY <1>0, <1>3, GotoOnly DEF Rethrow
<1>4. CASE Unwind(t)
  <2>1. pc'[t] \in {"run", "dead"} /\ \A u \in Threads \ {t} : pc'[u] = pc[u]
    BY <1>4, GotoOnly DEF Unwind
  <2>2. \A u \in Threads \ {t} : next'[u] = next[u]
    BY <1>4 DEF Unwind, TypeOK
  <2>3. LockStep(t)
    BY <1>4, <2>1 DEF Unwind, GiveBack, Holds
  <2>4. length' = length /\ max' = max
    BY <1>4 DEF Unwind
  <2> QED BY <1>0, <2>1, <2>2, <2>3, <2>4
<1>5. CASE Swallow(t)
  BY <1>0, <1>5 DEF Swallow
<1>6. CASE LockRefused(t)
  BY <1>0, <1>6, GotoOnly DEF LockRefused
<1>7. CASE Finish(t)
  BY <1>0, <1>7, GotoOnly DEF Finish, GiveBack
<1> QED BY <1>1, <1>2, <1>3, <1>4, <1>5, <1>6, <1>7 DEF ThreadStep

LEMMA StepEffect ==
    ASSUME TypeOK, Holds, NEW t \in Threads, Step(t)
    PROVE  Effect(t)
BY Steps, PushEffect, PopEffect, CallEffect, ThreadEffect

LockInv == TypeOK /\ Holds /\ Room /\ Resizable

LEMMA LockInit == Init => LockInv
BY InitType DEF Init, LockInv, Holds, Room, Resizable, Setting, Inside, JustLocked

LEMMA LockNext == LockInv /\ [Next]_vars => LockInv'
<1> SUFFICES ASSUME LockInv, [Next]_vars PROVE LockInv'
  OBVIOUS
<1>1. TypeOK'
  BY StepType DEF LockInv
<1>2. CASE UNCHANGED vars
  BY <1>1, <1>2 DEF LockInv, Holds, Room, Resizable, vars
<1>3. ASSUME NEW t \in Threads, Step(t) PROVE Holds' /\ Room' /\ Resizable'
  <2>1. Effect(t)
    BY <1>3, StepEffect DEF LockInv
  <2>2. Holds'
    BY <2>1, ThreadsAssumption DEF Effect, LockStep, LockInv, Holds
  <2>3. ASSUME NEW u \in Threads, Sized, pc'[u] = "push_item" PROVE length' < max'
    <3>1. CASE u = t
      <4>1. CASE pc[t] # "push_item"
        BY <2>1, <2>3, <3>1, <4>1 DEF Effect, QueueStep
      <4>2. CASE pc[t] = "push_item"
        <5>1. length < max
          BY <2>3, <4>2 DEF LockInv, Room
        <5> QED BY <2>1, <2>3, <3>1, <4>2, <5>1 DEF Effect, QueueStep, LockInv, TypeOK
      <4> QED BY <4>1, <4>2
    <3>2. CASE u # t
      <4>1. pc[u] = "push_item" /\ owner = u /\ length < max
        BY <2>1, <2>3, <3>2 DEF Effect, LockInv, Room, Holds, Inside
      <4>2. pc[t] \notin Inside
        BY <3>2, <4>1 DEF LockInv, Holds
      <4> QED BY <2>1, <4>1, <4>2
              DEF Effect, QueueStep, Inside, JustLocked, LockInv, TypeOK
    <3> QED BY <3>1, <3>2
  <2>4. Resizable'
    BY <2>1 DEF Effect, QueueStep, LockInv, Resizable, Setting
  <2> QED BY <2>2, <2>3, <2>4 DEF Room
<1> QED BY <1>1, <1>2, <1>3 DEF Next, LockInv

LEMMA LockInvariant == Spec => []LockInv
BY LockInit, LockNext, PTL DEF Spec

\* Two threads are not inside together.
LEMMA Alone ==
    ASSUME Holds, NEW t \in Threads, NEW u \in Threads,
           pc[t] \in Inside, pc[u] \in Inside
    PROVE  t = u
BY DEF Holds

\* What a consumer has seen stays until it takes it, unless the queue is cleared.
THEOREM ItemKept == Spec => SeenItemKept
<1>1. ASSUME LockInv, [Next]_vars, NEW t \in Threads,
             pc[t] = "pop_shift", pc'[t] = "pop_shift"
      PROVE  length' \in {length, 0}
  <2>1. CASE UNCHANGED vars
    BY <2>1 DEF vars
  <2>2. ASSUME NEW u \in Threads, Step(u) PROVE length' \in {length, 0}
    <3>1. Effect(u)
      BY <1>1, <2>2, StepEffect DEF LockInv
    <3>2. CASE u = t
      BY <1>1, <3>1, <3>2 DEF Effect, QueueStep
    <3>3. CASE u # t
      <4>1. pc[u] \notin Inside
        BY <1>1, <3>3 DEF LockInv, Holds, Inside
      <4> QED BY <3>1, <4>1 DEF Effect, QueueStep, Inside, JustLocked
    <3> QED BY <3>2, <3>3
  <2> QED BY <1>1, <2>1, <2>2 DEF Next
<1>2. LockInv /\ [Next]_vars =>
        [\A t \in Threads : pc[t] = "pop_shift" /\ pc'[t] = "pop_shift"
            => length' \in {length, 0}]_vars
  BY <1>1
<1> QED BY <1>2, LockInvariant, PTL DEF Spec, SeenItemKept

\* No push makes a SizedQueue larger than its maximum, even when the producer had
\* to wait, others were quicker, or max= has changed it.
THEOREM BoundKept == Spec => PushKeepsBound
<1>1. ASSUME LockInv, [Next]_vars, Sized, length' > length
      PROVE  length' <= max
  <2>1. length \in Nat /\ max \in Nat
    BY <1>1 DEF LockInv, TypeOK
  <2>2. CASE UNCHANGED vars
    BY <1>1, <2>1, <2>2 DEF vars
  <2>3. ASSUME NEW t \in Threads, Step(t) PROVE length' <= max
    <3>1. Effect(t)
      BY <1>1, <2>3, StepEffect DEF LockInv
    <3>2. pc[t] = "push_item" /\ length' = length + 1
      BY <1>1, <2>1, <3>1 DEF Effect, QueueStep
    <3> QED BY <1>1, <2>1, <3>2 DEF LockInv, Room
  <2> QED BY <1>1, <2>2, <2>3 DEF Next
<1>2. LockInv /\ [Next]_vars =>
        [Sized /\ length' > length => length' <= max]_vars
  BY <1>1
<1> QED BY <1>2, LockInvariant, PTL DEF Spec, PushKeepsBound

-----------------------------------------------------------------------------
(***************************************************************************)
(* The lists.  Most steps leave them alone and put nobody to sleep.        *)
(***************************************************************************)
CallPoints == {"push_call", "pop_call", "set_call"}

Plain(t) ==
    /\ UNCHANGED <<waiting, queue_wait, passed, dropped, cut>>
    /\ asleep' \subseteq asleep
    /\ pc[t] \notin CallPoints
    /\ pc'[t] \notin CallPoints \cup {"push_wait", "push_sleep", "pop_sleep"}

\* The steps that do more.
ListStep(t) ==
    \/ PushNotify(t) \/ PushWait(t) \/ PushSleep(t) \/ PopWait(t) \/ PopNotify(t)
    \/ Call(t) \/ Retry(t) \/ SetMaxShift(t) \/ SetMaxRun(t) \/ Unwind(t)

LEMMA PushPlain ==
    ASSUME TypeOK, NEW t \in Threads, PushStep(t)
    PROVE  Plain(t) \/ ListStep(t)
<1> USE DEF Plain, CallPoints
<1>1. CASE Lock(t)
  <2>1. pc'[t] \in JustLocked
    BY <1>1, LockJust, GotoOnly DEF Lock
  <2> QED BY <1>1, <2>1 DEF Lock, LockPoints, JustLocked
<1>2. CASE Push(t)
  BY <1>2, GotoOnly DEF Push, Begin
<1>3. CASE PushCheck(t) \/ PushItem(t)
  BY <1>3, GotoOnly DEF PushCheck, PushItem
<1>4. CASE PushWake(t)
  BY <1>4, GotoOnly DEF PushWake
<1> QED BY <1>1, <1>2, <1>3, <1>4 DEF PushStep, ListStep

LEMMA PopPlain ==
    ASSUME TypeOK, NEW t \in Threads, PopStep(t)
    PROVE  Plain(t) \/ ListStep(t)
<1> USE DEF Plain, CallPoints
<1>1. CASE Pop(t)
  BY <1>1, GotoOnly DEF Pop, Begin
<1>2. CASE PopCheck(t) \/ PopEmpty(t)
  BY <1>2, GotoOnly DEF PopCheck, PopEmpty
<1>3. CASE PopShift(t)
  BY <1>3, GotoOnly DEF PopShift
<1>4. CASE PopWake(t)
  BY <1>4, GotoOnly DEF PopWake
<1>5. CASE PopRoom(t)
  BY <1>5, GotoOnly DEF PopRoom
<1> QED BY <1>1, <1>2, <1>3, <1>4, <1>5 DEF PopStep, ListStep

LEMMA CallPlain ==
    ASSUME TypeOK, NEW t \in Threads, CallStep(t)
    PROVE  Plain(t) \/ ListStep(t)
<1> USE DEF Plain, CallPoints
<1>1. CASE RunThread(t)
  BY <1>1, GotoOnly DEF RunThread
<1>2. CASE Clear(t)
  BY <1>2 DEF Clear, Begin
<1>3. CASE SetMaxBegin(t)
  BY <1>3, GotoOnly DEF SetMaxBegin, Begin
<1>4. ASSUME NEW m \in Sizes, SetMax(t, m) PROVE Plain(t)
  BY <1>4, GotoOnly DEF SetMax
<1>5. CASE SetMaxDone(t)
  BY <1>5, GotoOnly DEF SetMaxDone
<1> QED BY <1>1, <1>2, <1>3, <1>4, <1>5 DEF CallStep, ListStep

LEMMA ThreadPlain ==
    ASSUME TypeOK, NEW t \in Threads, ThreadStep(t)
    PROVE  Plain(t) \/ ListStep(t)
<1> USE DEF Plain, CallPoints
<1>1. ASSUME NEW u \in Threads, Interrupt(t, u) PROVE Plain(t)
  BY <1>1 DEF Interrupt, Begin
<1>2. CASE Awake(t)
  BY <1>2, GotoOnly DEF Awake, SleepPoints
<1>3. CASE Rethrow(t)
  BY <1>3, GotoOnly DEF Rethrow
<1>4. CASE Swallow(t)
  BY <1>4 DEF Swallow, Unlocked
<1>5. CASE LockRefused(t)
  BY <1>5, GotoOnly DEF LockRefused, LockPoints
<1>6. CASE Finish(t)
  BY <1>6, GotoOnly DEF Finish
<1> QED BY <1>1, <1>2, <1>3, <1>4, <1>5, <1>6 DEF ThreadStep, ListStep

LEMMA StepPlain ==
    ASSUME TypeOK, NEW t \in Threads, Step(t)
    PROVE  Plain(t) \/ ListStep(t)
BY Steps, PushPlain, PopPlain, CallPlain, ThreadPlain

\* A thread on a list is the one that is shifted or one of those left.
LEMMA ShiftKeeps ==
    ASSUME NEW q \in Seq(Threads), NEW t \in ToSet(q)
    PROVE  t = First(q) \/ t \in ToSet(Rest(q))
<1>1. PICK i \in 1..Len(q) : q[i] = t
  BY DEF ToSet
<1>2. q # <<>> /\ Len(q) \in Nat
  BY <1>1
<1>3. /\ Tail(q) \in Seq(Threads) /\ Len(Tail(q)) = Len(q) - 1
      /\ \A j \in 1..Len(Tail(q)) : Tail(q)[j] = q[j + 1]
      /\ Head(q) = q[1]
  BY <1>2, HeadTailProperties
<1>4. CASE i = 1
  BY <1>1, <1>2, <1>3, <1>4 DEF First
<1>5. CASE i # 1
  <2>1. i - 1 \in 1..Len(Tail(q)) /\ Tail(q)[i - 1] = t
    BY <1>1, <1>2, <1>3, <1>5
  <2>2. DOMAIN Tail(q) = 1..Len(Tail(q))
    BY <1>3
  <2>3. t \in ToSet(Tail(q))
    BY <2>1, <2>2 DEF ToSet
  <2> QED BY <1>2, <2>3 DEF Rest
<1> QED BY <1>4, <1>5

LEMMA AppendKeeps ==
    ASSUME NEW q \in Seq(Threads), NEW t \in Threads
    PROVE  ToSet(q) \cup {t} \subseteq ToSet(Append(q, t))
<1>1. /\ DOMAIN Append(q, t) = 1..(Len(q) + 1)
      /\ \A i \in 1..Len(q) : Append(q, t)[i] = q[i]
      /\ Append(q, t)[Len(q) + 1] = t
      /\ DOMAIN q = 1..Len(q) /\ Len(q) \in Nat
  OBVIOUS
<1>2. ToSet(q) \subseteq ToSet(Append(q, t))
  BY <1>1 DEF ToSet
<1>3. t \in ToSet(Append(q, t))
  BY <1>1 DEF ToSet
<1> QED BY <1>2, <1>3

\* What a thread u has shifted and not yet called stays so while u does nothing.
LEMMA ShiftedKeeps ==
    ASSUME NEW P, NEW t \in Threads, pc[t] \notin P,
           \A u \in Threads \ {t} : pc'[u] = pc[u] /\ next'[u] = next[u]
    PROVE  Shifted(P) \subseteq {next'[u] : u \in {v \in Threads : pc'[v] \in P}}
BY DEF Shifted

-----------------------------------------------------------------------------
(***************************************************************************)
(* The list of waiting consumers.                                          *)
(***************************************************************************)
\* It holds a sleeping consumer, or a push has shifted it; or the push that had
\* was cut.
Awaited(t) == t \in ToSet(waiting) \cup Shifted({"push_call"}) \/ (cut /\ t \in dropped)

ConsumersAwaited == \A t \in asleep : pc[t] = "pop_sleep" => Awaited(t)

LEMMA PlainAwaited ==
    ASSUME TypeOK, TypeOK', ConsumersAwaited, NEW t \in Threads, Effect(t),
           waiting' = waiting, pc[t] # "push_call",
           asleep' \subseteq asleep \cup {t}, pc'[t] # "pop_sleep",
           dropped \subseteq dropped' \cup {t}, cut => cut'
    PROVE  ConsumersAwaited'
<1> SUFFICES ASSUME NEW u \in asleep', pc'[u] = "pop_sleep" PROVE Awaited(u)'
  BY DEF ConsumersAwaited
<1>1. u \in Threads /\ u # t /\ u \in asleep /\ pc[u] = "pop_sleep"
  BY DEF Effect, TypeOK
<1>2. Awaited(u)
  BY <1>1 DEF ConsumersAwaited
<1>3. Shifted({"push_call"}) \subseteq Shifted({"push_call"})'
  BY ShiftedKeeps DEF Effect, Shifted
<1> QED BY <1>1, <1>2, <1>3 DEF Awaited

LEMMA StepAwaited ==
    ASSUME TypeOK, TypeOK', Holds, ConsumersAwaited, NEW t \in Threads, Step(t)
    PROVE  ConsumersAwaited'
<1>0. Effect(t)
  BY StepEffect
<1>1. CASE Plain(t)
  BY <1>0, <1>1, PlainAwaited DEF Plain, CallPoints
<1>2. CASE PushNotify(t)
  <2>1. /\ waiting' = Rest(waiting) /\ next'[t] = First(waiting)
        /\ pc[t] = "push_notify" /\ pc'[t] = "push_call"
        /\ asleep' = asleep /\ dropped' = dropped /\ cut' = cut
    BY <1>2, GotoOnly, ShiftNext DEF PushNotify
  <2> SUFFICES ASSUME NEW u \in asleep', pc'[u] = "pop_sleep" PROVE Awaited(u)'
    BY DEF ConsumersAwaited
  <2>2. u \in Threads /\ u # t /\ u \in asleep /\ pc[u] = "pop_sleep"
    BY <1>0, <2>1 DEF Effect, TypeOK
  <2>3. Awaited(u)
    BY <2>2 DEF ConsumersAwaited
  <2>4. Shifted({"push_call"}) \subseteq Shifted({"push_call"})'
    BY <1>0, <2>1, ShiftedKeeps DEF Effect, Shifted
  <2>5. First(waiting) \in Shifted({"push_call"})'
    BY <2>1 DEF Shifted
  <2>6. u \in ToSet(waiting) => u = First(waiting) \/ u \in ToSet(waiting')
    BY <2>1, ShiftKeeps DEF TypeOK
  <2> QED BY <2>1, <2>3, <2>4, <2>5, <2>6 DEF Awaited
<1>3. CASE PopWait(t)
  <2>1. /\ ToSet(waiting) \cup {t} \subseteq ToSet(waiting')
        /\ asleep' \subseteq asleep \cup {t}
        /\ dropped' = dropped \ {t} /\ cut' = cut /\ pc[t] = "pop_check"
    BY <1>3, AppendKeeps DEF PopWait, MutexSleep, Lists, TypeOK
  <2> SUFFICES ASSUME NEW u \in asleep', pc'[u] = "pop_sleep" PROVE Awaited(u)'
    BY DEF ConsumersAwaited
  <2>2. CASE u = t
    BY <2>1, <2>2 DEF Awaited
  <2>3. CASE u # t
    <3>1. u \in Threads /\ u \in asleep /\ pc[u] = "pop_sleep"
      BY <1>0, <2>1, <2>3 DEF Effect, TypeOK
    <3>2. Awaited(u)
      BY <3>1 DEF ConsumersAwaited
    <3>3. Shifted({"push_call"}) \subseteq Shifted({"push_call"})'
      BY <1>0, <2>1, ShiftedKeeps DEF Effect, Shifted
    <3> QED BY <2>1, <2>3, <3>2, <3>3 DEF Awaited
  <2> QED BY <2>2, <2>3
<1>4. CASE PushWait(t) \/ PushSleep(t) \/ PopNotify(t) \/ SetMaxShift(t) \/ SetMaxRun(t)
  <2>1. /\ waiting' = waiting /\ pc[t] # "push_call" /\ pc'[t] # "pop_sleep"
        /\ asleep' \subseteq asleep \cup {t}
        /\ dropped \subseteq dropped' \cup {t} /\ cut' = cut
    <3>1. CASE PushWait(t)
      BY <3>1, GotoOnly DEF PushWait, Lists
    <3>2. CASE PushSleep(t)
      BY <3>2, GotoOnly DEF PushSleep, MutexSleep
    <3>3. CASE PopNotify(t) \/ SetMaxShift(t)
      BY <3>3, GotoOnly DEF PopNotify, SetMaxShift
    <3>4. CASE SetMaxRun(t)
      BY <3>4, GotoOnly DEF SetMaxRun
    <3> QED BY <1>4, <3>1, <3>2, <3>3, <3>4
  <2> QED BY <1>0, <2>1, PlainAwaited
\* A step from push_call: the thread shifted is awake, dead or dropped.
<1>5. CASE Call(t) \/ Retry(t) \/ Unwind(t)
  <2>1. /\ waiting' = waiting /\ asleep' \subseteq asleep
        /\ dropped \subseteq dropped' /\ (cut => cut') /\ pc'[t] # "pop_sleep"
    <3>1. CASE Call(t)
      BY <3>1, GotoOnly DEF Call
    <3>2. CASE Retry(t)
      BY <3>2, GotoOnly DEF Retry
    <3>3. CASE Unwind(t)
      <4>1. waiting' = waiting /\ asleep' = asleep /\ pc'[t] # "pop_sleep"
        BY <3>3, GotoOnly DEF Unwind
      <4>2. dropped \subseteq dropped'
        BY <3>3 DEF Unwind
      <4>3. cut => cut'
        BY <3>3, Zenon DEF Unwind
      <4> QED BY <4>1, <4>2, <4>3
    <3> QED BY <1>5, <3>1, <3>2, <3>3
  <2>2. CASE pc[t] # "push_call"
    BY <1>0, <2>1, <2>2, PlainAwaited
  <2>3. CASE pc[t] = "push_call"
    <3> SUFFICES ASSUME NEW u \in asleep', pc'[u] = "pop_sleep" PROVE Awaited(u)'
      BY DEF ConsumersAwaited
    <3>1. u \in Threads /\ u # t /\ u \in asleep /\ pc[u] = "pop_sleep"
      BY <1>0, <2>1 DEF Effect, TypeOK
    <3>2. Awaited(u)
      BY <3>1 DEF ConsumersAwaited
    <3>3. CASE u \in ToSet(waiting) \/ (cut /\ u \in dropped)
      BY <2>1, <3>3 DEF Awaited
    <3>4. CASE u \in Shifted({"push_call"})
      <4>1. PICK v \in Threads : pc[v] = "push_call" /\ next[v] = u
        BY <3>4 DEF Shifted
      <4>2. v = t
        BY <2>3, <4>1, Alone DEF Inside
      <4>3. u # NoThread /\ u \notin Dead
        BY <3>1, ThreadsAssumption DEF Dead
      <4>4. Unwind(t)
        BY <1>5, <3>1, <4>1, <4>2, <4>3 DEF Call, Retry
      <4>5. cut' /\ u \in dropped'
        BY <2>3, <4>1, <4>2, <4>3, <4>4 DEF Unwind
      <4> QED BY <4>5 DEF Awaited
    <3> QED BY <3>2, <3>3, <3>4 DEF Awaited
  <2> QED BY <2>2, <2>3
<1> QED BY <1>1, <1>2, <1>3, <1>4, <1>5, StepPlain DEF ListStep

AwaitedInv == LockInv /\ ConsumersAwaited

LEMMA AwaitedInvariant == Spec => []AwaitedInv
<1>1. Init => ConsumersAwaited
  BY DEF Init, ConsumersAwaited
<1>2. LockInv /\ LockInv' /\ ConsumersAwaited /\ [Next]_vars => ConsumersAwaited'
  <2>1. CASE UNCHANGED vars
    BY <2>1 DEF vars, ConsumersAwaited, Awaited, Shifted
  <2> QED BY <2>1, StepAwaited DEF Next, LockInv
<1> QED BY <1>1, <1>2, LockInvariant, PTL DEF Spec, AwaitedInv

\* Every thread that sleeps in pop is on @waiting or a push is about to call it,
\* whatever woke it, raised in it or killed others before; only the push that had
\* shifted it can have left it, hit by an exception before its call.
THEOREM ListedCorrect == Spec => []SleeperListed
<1>1. AwaitedInv => SleeperListed
  BY DEF AwaitedInv, ConsumersAwaited, Awaited, SleeperListed
<1> QED BY <1>1, AwaitedInvariant, PTL

-----------------------------------------------------------------------------
(***************************************************************************)
(* The list of producers that wait for room.                               *)
(***************************************************************************)
Called == Shifted({"pop_call", "set_call"})

\* A producer that may miss its call sleeps for room, or is about to.
Wants(t) == pc[t] = "push_wait" \/ (pc[t] = "push_sleep" /\ t \in asleep)

Found(t) == t \in ToSet(queue_wait) \cup Called \cup passed \cup dropped

ProducersFound == \A t \in Threads : Wants(t) => Found(t)

LEMMA PlainFound ==
    ASSUME ProducersFound, NEW t \in Threads, Effect(t), queue_wait' = queue_wait,
           passed' = passed, pc[t] \notin {"pop_call", "set_call"},
           asleep' \subseteq asleep \cup {t}, Wants(t)' => Wants(t),
           dropped' = dropped
    PROVE  ProducersFound'
<1> SUFFICES ASSUME NEW u \in Threads, Wants(u)' PROVE Found(u)'
  BY DEF ProducersFound
<1>1. Wants(u)
  BY DEF Wants, Effect
<1>2. Found(u)
  BY <1>1 DEF ProducersFound
<1>3. Called \subseteq Called'
  BY ShiftedKeeps DEF Effect, Called, Shifted
<1> QED BY <1>2, <1>3 DEF Found

\* Whoever shifts the list has the thread shifted yet to call.
LEMMA ShiftFound ==
    ASSUME TypeOK, ProducersFound, NEW t \in Threads, Effect(t),
           queue_wait' = Rest(queue_wait), next'[t] = First(queue_wait),
           pc[t] \notin {"pop_call", "set_call"}, pc'[t] \in {"pop_call", "set_call"},
           asleep' = asleep, passed' = passed, dropped' = dropped
    PROVE  ProducersFound'
<1> SUFFICES ASSUME NEW u \in Threads, Wants(u)' PROVE Found(u)'
  BY DEF ProducersFound
<1>1. Wants(u)
  BY DEF Wants, Effect
<1>2. Found(u)
  BY <1>1 DEF ProducersFound
<1>3. Called \subseteq Called'
  BY ShiftedKeeps DEF Effect, Called, Shifted
<1>4. First(queue_wait) \in Called'
  BY DEF Called, Shifted
<1>5. u \in ToSet(queue_wait) => u = First(queue_wait) \/ u \in ToSet(queue_wait')
  BY ShiftKeeps DEF TypeOK
<1> QED BY <1>2, <1>3, <1>4, <1>5 DEF Found

\* A thread that calls, retries or is hit by an exception: who it had shifted is
\* awake, dead, noted by max=, or dropped.
LEMMA CallFound ==
    ASSUME TypeOK, Holds, ProducersFound, NEW t \in Threads, Effect(t),
           Call(t) \/ Retry(t) \/ SetMaxRun(t) \/ Unwind(t)
    PROVE  ProducersFound'
<1>1. /\ queue_wait' = queue_wait /\ asleep' \subseteq asleep
      /\ passed \subseteq passed' /\ dropped \subseteq dropped'
      /\ pc'[t] \notin {"push_wait", "push_sleep"}
  <2>1. CASE Call(t)
    BY <2>1, GotoOnly DEF Call
  <2>2. CASE Retry(t)
    BY <2>2, GotoOnly DEF Retry
  <2>3. CASE SetMaxRun(t)
    BY <2>3, GotoOnly DEF SetMaxRun
  <2>4. CASE Unwind(t)
    BY <2>4, GotoOnly DEF Unwind
  <2> QED BY <2>1, <2>2, <2>3, <2>4
<1> SUFFICES ASSUME NEW u \in Threads, Wants(u)' PROVE Found(u)'
  BY DEF ProducersFound
<1>2. Wants(u) /\ u # t
  BY <1>1 DEF Wants, Effect
<1>3. Found(u)
  BY <1>2 DEF ProducersFound
<1>4. CASE u \in ToSet(queue_wait) \cup passed \cup dropped
  BY <1>1, <1>4 DEF Found
<1>5. CASE u \in Called
  <2>1. PICK v \in Threads : pc[v] \in {"pop_call", "set_call"} /\ next[v] = u
    BY <1>5 DEF Called, Shifted
  <2>2. CASE v # t
    <3>1. pc'[v] \in {"pop_call", "set_call"} /\ next'[v] = u
      BY <2>1, <2>2 DEF Effect
    <3>2. u \in Called'
      BY <3>1 DEF Called, Shifted
    <3> QED BY <3>2 DEF Found
  <2>3. CASE v = t
    <3>1. u # NoThread /\ u \notin Dead
      BY <1>2, ThreadsAssumption DEF Dead, Wants
    <3>2. CASE Call(t)
      <4>1. pc[t] = "pop_call" /\ u \notin asleep'
        BY <2>1, <2>3, <3>2 DEF Call
      <4>2. pc[u] = "push_wait"
        BY <1>2, <4>1 DEF Wants, Effect
      <4> QED BY <1>2, <4>1, <4>2, Alone DEF Inside
    <3>3. CASE Retry(t)
      BY <2>1, <2>3, <3>1, <3>3 DEF Retry
    <3>4. CASE SetMaxRun(t)
      <4>1. u \notin asleep'
        BY <2>1, <2>3, <3>4 DEF SetMaxRun
      <4>2. u \in Listing
        BY <1>2, <4>1 DEF Wants, Effect, Listing
      <4>3. u \in passed'
        BY <2>1, <2>3, <3>4, <4>2 DEF SetMaxRun
      <4> QED BY <4>3 DEF Found
    <3>5. CASE Unwind(t)
      <4>1. u \in dropped'
        BY <2>1, <2>3, <3>1, <3>5 DEF Unwind
      <4> QED BY <4>1 DEF Found
    <3> QED BY <3>2, <3>3, <3>4, <3>5
  <2> QED BY <2>2, <2>3
<1> QED BY <1>3, <1>4, <1>5 DEF Found

LEMMA StepFound ==
    ASSUME TypeOK, Holds, ProducersFound, NEW t \in Threads, Step(t)
    PROVE  ProducersFound'
<1>0. Effect(t)
  BY StepEffect
<1>1. CASE Plain(t)
  <2>1. ~ Wants(t)' /\ queue_wait' = queue_wait /\ passed' = passed /\ dropped' = dropped
    BY <1>1 DEF Plain, Wants
  <2> QED BY <1>0, <1>1, <2>1, PlainFound DEF Plain, CallPoints
<1>2. CASE PushNotify(t)
  <2>1. pc[t] = "push_notify" /\ pc'[t] = "push_call"
    BY <1>2, GotoOnly DEF PushNotify
  <2>2. /\ queue_wait' = queue_wait /\ passed' = passed /\ dropped' = dropped
        /\ asleep' = asleep
    BY <1>2 DEF PushNotify
  <2> QED BY <1>0, <2>1, <2>2, PlainFound DEF Wants
<1>3. CASE PushWait(t)
  <2>1. ToSet(queue_wait) \cup {t} \subseteq ToSet(queue_wait')
    BY <1>3, AppendKeeps DEF PushWait, TypeOK
  <2>2. /\ passed' = passed \ {t} /\ dropped' = dropped \ {t}
        /\ asleep' = asleep /\ pc[t] \in {"push_enter", "push_check"}
    BY <1>3 DEF PushWait, Lists
  <2>3. Called \subseteq Called'
    BY <1>0, <2>2, ShiftedKeeps DEF Effect, Called, Shifted
  <2>4. Found(t)' /\ \A u \in Threads \ {t} : Found(u) => Found(u)'
    BY <2>1, <2>2, <2>3 DEF Found
  <2>5. \A u \in Threads \ {t} : Wants(u)' => Wants(u)
    BY <1>0, <2>2 DEF Wants, Effect
  <2> QED BY <2>4, <2>5 DEF ProducersFound
<1>4. CASE PushSleep(t)
  <2>1. pc[t] = "push_wait" /\ asleep' \subseteq asleep \cup {t}
    BY <1>4 DEF PushSleep, MutexSleep
  <2>2. queue_wait' = queue_wait /\ passed' = passed /\ dropped' = dropped
    BY <1>4 DEF PushSleep
  <2> QED BY <1>0, <2>1, <2>2, PlainFound DEF Wants
<1>5. CASE PopWait(t)
  <2>1. /\ pc[t] = "pop_check" /\ pc'[t] = "pop_sleep"
        /\ asleep' \subseteq asleep \cup {t}
    BY <1>5, GotoOnly DEF PopWait, MutexSleep
  <2>2. queue_wait' = queue_wait
    BY <1>5 DEF PopWait
  <2>3. passed' = passed \ {t} /\ dropped' = dropped \ {t}
    BY <1>5 DEF PopWait, Lists
  <2>4. Called \subseteq Called'
    BY <1>0, <2>1, ShiftedKeeps DEF Effect, Called, Shifted
  <2>5. \A u \in Threads \ {t} : Found(u) => Found(u)'
    BY <2>2, <2>3, <2>4 DEF Found
  <2>6. ~ Wants(t)' /\ \A u \in Threads \ {t} : Wants(u)' => Wants(u)
    BY <1>0, <2>1 DEF Wants, Effect
  <2> QED BY <2>5, <2>6 DEF ProducersFound
<1>6. CASE PopNotify(t)
  <2>1. /\ queue_wait' = Rest(queue_wait) /\ next'[t] = First(queue_wait)
        /\ pc[t] = "pop_notify" /\ pc'[t] = "pop_call"
    BY <1>6, GotoOnly, ShiftNext DEF PopNotify
  <2>2. asleep' = asleep /\ passed' = passed /\ dropped' = dropped
    BY <1>6 DEF PopNotify
  <2> QED BY <1>0, <2>1, <2>2, ShiftFound
<1>7. CASE SetMaxShift(t)
  <2>1. /\ queue_wait' = Rest(queue_wait) /\ next'[t] = First(queue_wait)
        /\ pc[t] = "set_max" /\ pc'[t] = "set_call"
    BY <1>7, GotoOnly, ShiftNext DEF SetMaxShift
  <2>2. asleep' = asleep /\ passed' = passed /\ dropped' = dropped
    BY <1>7 DEF SetMaxShift
  <2> QED BY <1>0, <2>1, <2>2, ShiftFound
<1>8. CASE Call(t) \/ Retry(t) \/ SetMaxRun(t) \/ Unwind(t)
  BY <1>0, <1>8, CallFound
<1> QED BY <1>1, <1>2, <1>3, <1>4, <1>5, <1>6, <1>7, <1>8, StepPlain DEF ListStep

\* Every producer that sleeps for room is on @queue_wait or about to be called,
\* whatever woke it or raised in it before, unless max= has run it before it slept
\* or an exception has hit the thread that had shifted it.
THEOREM ProducersListed == Spec => []ProducerListed
<1>1. Init => ProducersFound
  BY DEF Init, ProducersFound, Wants
<1>2. LockInv /\ ProducersFound /\ [Next]_vars => ProducersFound'
  <2>1. CASE UNCHANGED vars
    BY <2>1 DEF vars, ProducersFound, Found, Wants, Called, Shifted
  <2> QED BY <2>1, StepFound DEF Next, LockInv
<1>3. LockInv /\ ProducersFound => ProducerListed
  BY DEF LockInv, TypeOK, ProducersFound, Wants, Found, Called, ProducerListed
<1> QED BY <1>1, <1>2, <1>3, LockInvariant, PTL DEF Spec

-----------------------------------------------------------------------------
(***************************************************************************)
(* Those who sleep.                                                        *)
(***************************************************************************)
\* A thread that sleeps is where threads sleep, and has nothing to wake for.
SoundSleep ==
    \A t \in asleep : pc[t] \in SleepPoints /\ pending[t] = NoException

SleepStep(t) ==
    /\ asleep' \subseteq asleep \cup {t}
    /\ t \in asleep' => /\ pc'[t] \in SleepPoints
                        /\ pending[t] = NoException /\ pending' = pending
    /\ \A u \in Threads : \/ pending'[u] = NoException
                          \/ pending'[u] = pending[u]
                          \/ u \notin asleep'

LEMMA SleeperStill ==
    ASSUME SoundSleep, NEW t \in Threads, Step(t)
    PROVE  t \notin asleep
<1> SUFFICES ASSUME t \in asleep PROVE FALSE
  OBVIOUS
<1>1. pc[t] \in {"push_sleep", "pop_sleep"}
  BY DEF SoundSleep, SleepPoints
<1>2. ~ PushStep(t)
  BY <1>1 DEF PushStep, Lock, LockPoints, Push, PushCheck, PushItem, PushNotify,
              PushWait, PushSleep, PushWake, Begin
<1>3. ~ PopStep(t)
  BY <1>1 DEF PopStep, Pop, PopCheck, PopShift, PopEmpty, PopWait, PopWake, PopRoom,
              PopNotify, Begin
<1>4. ~ CallStep(t)
  BY <1>1 DEF CallStep, Call, Retry, RunThread, Clear, SetMaxBegin, SetMax,
              SetMaxShift, SetMaxRun, SetMaxDone, Begin
<1>5. ~ ThreadStep(t)
  BY <1>1 DEF ThreadStep, Interrupt, Awake, Rethrow, Unwind, Swallow, LockRefused,
              Finish, Begin, SleepPoints, Unlocked, LockPoints
<1> QED BY <1>2, <1>3, <1>4, <1>5, Steps

LEMMA StepSleep ==
    ASSUME TypeOK, NEW t \in Threads, t \notin asleep, Step(t)
    PROVE  SleepStep(t)
<1> USE DEF SleepStep
<1>1. CASE PushStep(t)
  <2>1. CASE PushSleep(t)
    BY <2>1, GotoOnly DEF PushSleep, MutexSleep, SleepPoints
  <2>2. CASE ~ PushSleep(t)
    <3>1. asleep' = asleep /\ pending' = pending
      BY <1>1, <2>2 DEF PushStep, Lock, Push, PushCheck, PushItem, PushNotify,
                        PushWait, PushWake
    <3> QED BY <3>1
  <2> QED BY <2>1, <2>2
<1>2. CASE PopStep(t)
  <2>1. CASE PopWait(t)
    BY <2>1, GotoOnly DEF PopWait, MutexSleep, SleepPoints
  <2>2. CASE ~ PopWait(t)
    <3>1. asleep' = asleep /\ pending' = pending
      BY <1>2, <2>2 DEF PopStep, Pop, PopCheck, PopShift, PopEmpty, PopWake,
                        PopRoom, PopNotify
    <3> QED BY <3>1
  <2> QED BY <2>1, <2>2
<1>3. CASE CallStep(t)
  <2>1. asleep' \subseteq asleep /\ pending' = pending
    BY <1>3 DEF CallStep, Call, Retry, RunThread, Clear, SetMaxBegin, SetMax,
                SetMaxShift, SetMaxRun, SetMaxDone
  <2> QED BY <2>1
<1>4. CASE ThreadStep(t)
  <2>1. ASSUME NEW u \in Threads, Interrupt(t, u) PROVE SleepStep(t)
    BY <2>1 DEF Interrupt, TypeOK
  <2>2. CASE ~ \E u \in Threads : Interrupt(t, u)
    <3>1. asleep' = asleep
      BY <1>4, <2>2 DEF ThreadStep, Awake, Rethrow, Unwind, Swallow, LockRefused, Finish
    <3>2. pending' = pending \/ pending' = [pending EXCEPT ![t] = NoException]
      BY <1>4, <2>2 DEF ThreadStep, Awake, Rethrow, Unwind, Swallow, LockRefused, Finish
    <3> QED BY <3>1, <3>2 DEF TypeOK
  <2> QED BY <2>1, <2>2
<1> QED BY <1>1, <1>2, <1>3, <1>4, Steps

LEMMA SleepKept ==
    ASSUME TypeOK, SoundSleep, NEW t \in Threads, Effect(t), SleepStep(t)
    PROVE  SoundSleep'
<1> SUFFICES ASSUME NEW u \in asleep'
             PROVE  pc'[u] \in SleepPoints /\ pending'[u] = NoException
  BY DEF SoundSleep
<1>1. CASE u = t
  BY <1>1 DEF SleepStep
<1>2. CASE u # t
  <2>1. u \in asleep /\ u \in Threads
    BY <1>2 DEF SleepStep, TypeOK
  <2>2. pc[u] \in SleepPoints /\ pending[u] = NoException
    BY <2>1 DEF SoundSleep
  <2> QED BY <1>2, <2>1, <2>2 DEF Effect, SleepStep
<1> QED BY <1>1, <1>2

SleepInv == AwaitedInv /\ SoundSleep

LEMMA SleepInvariant == Spec => []SleepInv
<1>1. Init => SoundSleep
  BY DEF Init, SoundSleep
<1>2. LockInv /\ SoundSleep /\ [Next]_vars => SoundSleep'
  <2>1. CASE UNCHANGED vars
    BY <2>1 DEF vars, SoundSleep
  <2> QED BY <2>1, StepEffect, SleeperStill, StepSleep, SleepKept DEF Next, LockInv
<1> QED BY <1>1, <1>2, LockInvariant, AwaitedInvariant, PTL DEF Spec, SleepInv

-----------------------------------------------------------------------------
(***************************************************************************)
(* One consumer: any number of producers, of threads that resize, clear    *)
(* and try, and of threads that interrupt all of them.  With two consumers *)
(* the promise fails.                                                      *)
(***************************************************************************)
OneConsumer(c) == \A t \in Threads \ {c} : "pop" \notin Program[t]

Consuming == {"pop_lock", "pop_check", "pop_sleep", "pop_relock"}

Others(c) == \A t \in Threads \ {c} : pc[t] \notin Consuming

OnlyListed(c) == \A i \in 1..Len(waiting) : waiting[i] = c

\* A push that has an item to tell of, and tells the consumer if it waits.
Telling(t, c) == pc[t] = "push_notify" \/ (pc[t] = "push_call" /\ next[t] = c)

Served(c) ==
    c \in asleep /\ pc[c] = "pop_sleep" /\ length > 0 /\ ~ cut
        => \E t \in Threads : Telling(t, c)

Serving(c) == Others(c) /\ OnlyListed(c) /\ Served(c)

LEMMA OthersKept ==
    ASSUME TypeOK, NEW c \in Threads, OneConsumer(c), Others(c),
           NEW t \in Threads, Effect(t), Step(t)
    PROVE  Others(c)'
<1> SUFFICES t # c => pc'[t] \notin Consuming
  BY DEF Others, Effect
<1> SUFFICES ASSUME t # c PROVE pc'[t] \notin Consuming
  OBVIOUS
<1>0. pc[t] \notin Consuming
  BY DEF Others
<1> USE DEF Consuming
<1>1. CASE PushStep(t)
  <2>1. CASE Lock(t)
    BY <1>0, <2>1, LockJust, GotoOnly DEF Lock, JustLocked
  <2>2. CASE ~ Lock(t)
    BY <1>1, <2>2, GotoOnly DEF PushStep, Push, PushCheck, PushItem, PushNotify,
                  PushWait, PushSleep, PushWake, MutexSleep
  <2> QED BY <2>1, <2>2
<1>2. CASE PopStep(t)
  <2>1. CASE Pop(t)
    BY <2>1, GotoOnly DEF Pop, Begin, OneConsumer
  <2>2. CASE PopWait(t) \/ PopWake(t)
    BY <1>0, <2>2 DEF PopWait, PopWake
  <2>3. CASE ~ (Pop(t) \/ PopWait(t) \/ PopWake(t))
    BY <1>2, <2>3, GotoOnly DEF PopStep, PopCheck, PopShift, PopEmpty, PopRoom,
                  PopNotify
  <2> QED BY <2>1, <2>2, <2>3
<1>3. CASE CallStep(t)
  <2>1. CASE Clear(t)
    BY <1>0, <2>1 DEF Clear
  <2>2. CASE ~ Clear(t)
    BY <1>3, <2>2, GotoOnly DEF CallStep, Call, Retry, RunThread, SetMaxBegin, SetMax,
                  SetMaxShift, SetMaxRun, SetMaxDone
  <2> QED BY <2>1, <2>2
<1>4. CASE ThreadStep(t)
  <2>1. CASE Awake(t)
    BY <1>0, <2>1, GotoOnly DEF Awake, SleepPoints
  <2>2. CASE Swallow(t) \/ \E u \in Threads : Interrupt(t, u)
    BY <1>0, <2>2 DEF Swallow, Interrupt
  <2>3. CASE ~ (Awake(t) \/ Swallow(t) \/ \E u \in Threads : Interrupt(t, u))
    BY <1>4, <2>3, GotoOnly DEF ThreadStep, Rethrow, Unwind, LockRefused, Finish
  <2> QED BY <2>1, <2>2, <2>3
<1> QED BY <1>1, <1>2, <1>3, <1>4, Steps

\* What a step does to the list of consumers.
LEMMA WaitingStep ==
    ASSUME TypeOK, NEW t \in Threads, Step(t)
    PROVE  \/ waiting' = waiting
           \/ PopWait(t)
           \/ PushNotify(t)
<1>1. CASE Plain(t)
  BY <1>1 DEF Plain
<1>2. CASE ListStep(t)
  BY <1>2 DEF ListStep, PushWait, PushSleep, PopNotify, Call, Retry, SetMaxShift,
              SetMaxRun, Unwind
<1> QED BY <1>1, <1>2, StepPlain

\* The list holds the consumer only, however it is appended to and shifted.
LEMMA OnlyListedKept ==
    ASSUME TypeOK, NEW c \in Threads, Others(c), OnlyListed(c),
           NEW t \in Threads, Step(t)
    PROVE  OnlyListed(c)'
<1>0. waiting \in Seq(Threads) /\ Len(waiting) \in Nat
  BY DEF TypeOK
<1>1. CASE waiting' = waiting
  BY <1>1 DEF OnlyListed
<1>2. CASE PopWait(t)
  <2>1. waiting' = Append(waiting, c)
    BY <1>2 DEF PopWait, Others, Consuming
  <2>2. /\ Len(waiting') = Len(waiting) + 1
        /\ \A i \in 1..Len(waiting) : waiting'[i] = waiting[i]
        /\ waiting'[Len(waiting) + 1] = c
    BY <1>0, <2>1
  <2> QED BY <1>0, <2>2 DEF OnlyListed
<1>3. CASE PushNotify(t)
  <2>1. waiting' = Rest(waiting)
    BY <1>3 DEF PushNotify
  <2>2. CASE waiting = <<>>
    BY <2>1, <2>2 DEF Rest, OnlyListed
  <2>3. CASE waiting # <<>>
    <3>1. /\ Len(waiting') = Len(waiting) - 1
          /\ \A i \in 1..Len(waiting') : waiting'[i] = waiting[i + 1]
      BY <1>0, <2>1, <2>3, HeadTailProperties DEF Rest
    <3>2. \A i \in 1..Len(waiting') : i + 1 \in 1..Len(waiting)
      BY <1>0, <3>1
    <3> QED BY <3>1, <3>2 DEF OnlyListed
  <2> QED BY <2>2, <2>3
<1> QED BY <1>1, <1>2, <1>3, WaitingStep

\* A push that is not cut tells the sleeping consumer, and none but a push makes
\* the queue longer.
LEMMA ServedKept ==
    ASSUME LockInv, ConsumersAwaited, SoundSleep, NEW c \in Threads, Others(c),
           OnlyListed(c), Served(c), NEW t \in Threads, Step(t)
    PROVE  Served(c)'
<1>0. TypeOK /\ Holds /\ Effect(t) /\ t \notin asleep
  BY SleeperStill, StepEffect DEF LockInv
<1>1. SleepStep(t)
  BY <1>0, StepSleep
<1> SUFFICES ASSUME c \in asleep', pc'[c] = "pop_sleep", length' > 0, ~ cut'
             PROVE  \E u \in Threads : Telling(u, c)'
  BY DEF Served
<1>2. ~ cut
  <2>1. CASE Plain(t)
    BY <2>1 DEF Plain
  <2>2. CASE ListStep(t)
    BY <2>2 DEF ListStep, PushNotify, PushWait, PushSleep, PopWait, PopNotify, Call,
                Retry, SetMaxShift, SetMaxRun, Unwind, Lists
  <2> QED BY <1>0, <2>1, <2>2, StepPlain
<1>3. CASE pc'[t] = "push_notify"
  BY <1>3 DEF Telling
<1>4. CASE c = t
  <2>1. pc'[t] = "pop_sleep" /\ t \in asleep'
    BY <1>4
  <2>2. PopWait(t)
    BY <1>0, <2>1, StepPlain, GotoOnly
       DEF Plain, ListStep, PushNotify, PushWait, PushSleep, PopNotify, Call, Retry,
           SetMaxShift, SetMaxRun, Unwind, MutexSleep
  <2> QED BY <1>0, <2>2 DEF PopWait, TypeOK
<1>5. CASE c # t /\ pc'[t] # "push_notify"
  <2>1. c \in asleep /\ pc[c] = "pop_sleep"
    BY <1>0, <1>1, <1>5 DEF Effect, SleepStep
  <2>2. length > 0
    <3>1. ~ PushItem(t)
      BY <1>0, <1>5, GotoOnly DEF PushItem
    <3>2. length \in Nat /\ length' \in Nat
      BY <1>0, StepType DEF TypeOK, Next
    <3>3. pc[t] # "push_item" \/ length' \in {length, 0}
      <4>1. CASE pc[t] = "push_item"
        BY <3>1, <4>1, Steps
           DEF PushStep, PopStep, CallStep, ThreadStep, Lock, LockPoints, Push,
               PushCheck, PushNotify, PushWait, PushSleep, PushWake, Pop, PopCheck,
               PopShift, PopEmpty, PopWait, PopWake, PopRoom, PopNotify, Call, Retry,
               RunThread, Clear, SetMaxBegin, SetMax, SetMaxShift, SetMaxRun,
               SetMaxDone, Interrupt, Awake, Rethrow, Unwind, Swallow, LockRefused,
               Finish, Begin
      <4> QED BY <4>1
    <3> QED BY <1>0, <3>2, <3>3 DEF Effect, QueueStep
  <2>3. PICK u \in Threads : Telling(u, c)
    BY <1>2, <2>1, <2>2 DEF Served
  <2>4. CASE u # t
    <3>1. Telling(u, c)'
      BY <1>0, <2>3, <2>4 DEF Telling, Effect
    <3> QED BY <3>1
  <2>5. CASE u = t /\ pc[t] = "push_notify"
    <3>1. PushNotify(t)
      <4>1. ~ Unwind(t)
        BY <2>5, ~ cut' DEF Unwind
      <4> QED BY <2>5, <4>1, Steps
         DEF PushStep, PopStep, CallStep, ThreadStep, Lock, LockPoints, Push,
             PushCheck, PushItem, PushWait, PushSleep, PushWake, Pop, PopCheck,
             PopShift, PopEmpty, PopWait, PopWake, PopRoom, PopNotify, Call, Retry,
             RunThread, Clear, SetMaxBegin, SetMax, SetMaxShift, SetMaxRun,
             SetMaxDone, Interrupt, Awake, Rethrow, Swallow, LockRefused,
             Finish, Begin, SleepPoints, Unlocked
    <3>2. c \in ToSet(waiting) \cup Shifted({"push_call"})
      BY <1>2, <2>1 DEF ConsumersAwaited, Awaited
    <3>3. c \notin Shifted({"push_call"})
      <4>1. ASSUME NEW v \in Threads, pc[v] = "push_call" PROVE FALSE
        BY <1>0, <2>5, <4>1, Alone DEF Inside
      <4> QED BY <4>1 DEF Shifted
    <3>4. First(waiting) = c
      <4>1. waiting \in Seq(Threads) /\ waiting # <<>>
        BY <1>0, <3>2, <3>3 DEF TypeOK, ToSet
      <4>2. 1 \in 1..Len(waiting) /\ Head(waiting) = waiting[1]
        BY <4>1
      <4> QED BY <4>1, <4>2 DEF First, OnlyListed
    <3>5. pc'[t] = "push_call" /\ next'[t] = c
      BY <1>0, <3>1, <3>4, GotoOnly, ShiftNext DEF PushNotify
    <3> QED BY <3>5 DEF Telling
  <2>6. CASE u = t /\ pc[t] = "push_call" /\ next[t] = c
    <3>1. c \notin Dead
      BY <2>1 DEF Dead
    <3>2. ~ Call(t)
      BY <1>5, <2>6, c \in asleep' DEF Call
    <3>3. ~ Retry(t)
      BY <2>6, <3>1 DEF Retry
    <3>4. ~ Unwind(t)
      BY <2>6, ~ cut' DEF Unwind
    <3> QED BY <2>6, <3>2, <3>3, <3>4, Steps
       DEF PushStep, PopStep, CallStep, ThreadStep, Lock, LockPoints, Push,
           PushCheck, PushItem, PushNotify, PushWait, PushSleep, PushWake, Pop, PopCheck,
           PopShift, PopEmpty, PopWait, PopWake, PopRoom, PopNotify,
           RunThread, Clear, SetMaxBegin, SetMax, SetMaxShift, SetMaxRun,
           SetMaxDone, Interrupt, Awake, Rethrow, Swallow, LockRefused,
           Finish, Begin, SleepPoints, Unlocked
  <2> QED BY <2>3, <2>4, <2>5, <2>6 DEF Telling
<1> QED BY <1>3, <1>4, <1>5

\* A queue with one consumer, whatever clears, resizes and interrupts whom: until
\* a push is cut between its item and its call, the consumer never sleeps beside an
\* item that nobody has still to call it for.
THEOREM OneConsumerServed ==
    ASSUME NEW c \in Threads, OneConsumer(c)
    PROVE  Spec => []PopServed
<1>1. Init => Serving(c)
  BY DEF Init, Serving, Others, OnlyListed, Served, Consuming
<1>2. SleepInv /\ Serving(c) /\ [Next]_vars => Serving(c)'
  <2>1. CASE UNCHANGED vars
    BY <2>1 DEF vars, Serving, Others, OnlyListed, Served, Telling
  <2>2. ASSUME SleepInv, Serving(c), NEW t \in Threads, Step(t)
        PROVE  Serving(c)'
    BY <2>2, StepEffect, OthersKept, OnlyListedKept, ServedKept
       DEF SleepInv, AwaitedInv, LockInv, Serving
  <2> QED BY <2>1, <2>2 DEF Next
<1>3. SleepInv /\ Serving(c) => PopServed
  <2> SUFFICES ASSUME SleepInv, Serving(c), length > 0, ~ cut,
                      NEW t \in asleep, pc[t] = "pop_sleep"
               PROVE  \E u \in Threads \ asleep : pc[u] \in ServingPoints
    BY DEF PopServed
  <2>1. t = c
    BY DEF SleepInv, AwaitedInv, LockInv, TypeOK, Serving, Others, Consuming
  <2>2. PICK u \in Threads : Telling(u, c)
    BY <2>1 DEF Serving, Served
  <2>3. u \notin asleep
    BY <2>2 DEF SleepInv, SoundSleep, Telling, SleepPoints
  <2> QED BY <2>2, <2>3 DEF Telling, ServingPoints
<1> QED BY <1>1, <1>2, <1>3, SleepInvariant, PTL DEF Spec


-----------------------------------------------------------------------------
(***************************************************************************)
(* Any number of consumers.  PopServed fails in two ways only: somebody    *)
(* other than a push wakes a thread that sleeps in pop (the late run of    *)
(* another call), or an exception takes away a thread that was about to    *)
(* take an item or to call for one.  Where neither happens the threads     *)
(* that serve the queue are at least as many as its items, as long as      *)
(* anybody sleeps.                                                         *)
(***************************************************************************)
PopSleepers == {t \in asleep : pc[t] = "pop_sleep"}

\* A thread that has kept the mutex gets no further than its next lock.
Keeps(t) == owner = t /\ pc[t] \notin Inside

Serves(t) == pc[t] \in ServingPoints /\ t \notin asleep /\ ~ Keeps(t)

Servers == {t \in Threads : Serves(t)}

PushCalls(t) == pc[t] = "push_call" /\ Call(t)

OnlyPushWakes ==
    [][PopSleepers \subseteq asleep' \/ \E t \in Threads : PushCalls(t)]_vars

NoInterrupt ==
    \A t \in Threads : pending[t] # NoException => pc[t] \notin ServingPoints

\* The list holds sleeping consumers and nobody else, each of them once, without
\* the one that a push is about to call.
ListExact ==
    /\ \A i \in 1..Len(waiting) : waiting[i] \in PopSleepers
    /\ \A i, j \in 1..Len(waiting) : waiting[i] = waiting[j] => i = j
    /\ \A t \in Threads : pc[t] = "push_call" =>
          IF next[t] = NoThread
          THEN waiting = <<>>
          ELSE /\ next[t] \in PopSleepers
               /\ \A i \in 1..Len(waiting) : waiting[i] # next[t]

Enough ==
    /\ IsFiniteSet(Servers)
    /\ PopSleepers # {} => length <= Cardinality(Servers)

\* What a step of t other than the call of a consumer does.
Share(t) ==
    \/ length' = 0
    \/ length' <= length /\ (Serves(t) => Serves(t)')
    \/ length' <= length - 1
    \/ length' <= length + 1 /\ ~ Serves(t) /\ Serves(t)'

LEMMA IdleShare ==
    ASSUME TypeOK, NEW t \in Threads, length' \in {length, 0}, ~ Serves(t)
    PROVE  Share(t)
BY DEF Share, TypeOK

LEMMA PushShare ==
    ASSUME TypeOK, Holds, NEW t \in Threads, t \notin asleep, PushStep(t)
    PROVE  Share(t)
<1> USE DEF Inside, JustLocked
<1>0. length \in Nat
  BY DEF TypeOK
<1>1. CASE Lock(t)
  <2>1. /\ pc'[t] = Locked[pc[t]] /\ pc'[t] \in JustLocked /\ pc[t] \in LockPoints
        /\ asleep' = asleep /\ length' = length
    BY <1>1, LockJust, GotoOnly DEF Lock
  <2>2. pc[t] \in {"pop_lock", "try_lock"} => pc'[t] \in {"pop_check", "try_check"}
    BY <2>1, LockJust
  <2>3. pc[t] \in {"pop_lock", "try_lock"} => Serves(t)'
    BY <2>1, <2>2 DEF Serves, Keeps, ServingPoints
  <2>4. pc[t] \notin {"pop_lock", "try_lock"} => ~ Serves(t)
    BY <2>1 DEF Serves, ServingPoints, LockPoints
  <2> QED BY <1>0, <2>1, <2>3, <2>4 DEF Share
<1>2. CASE PushItem(t)
  <2>1. ~ Serves(t) /\ Serves(t)'
    BY <1>2, GotoOnly DEF PushItem, Serves, Keeps, ServingPoints
  <2> QED BY <1>0, <1>2, <2>1 DEF PushItem, Share
<1>3. CASE PushNotify(t)
  <2>1. Serves(t)'
    BY <1>3, GotoOnly DEF PushNotify, Serves, Keeps, ServingPoints
  <2> QED BY <1>0, <1>3, <2>1 DEF PushNotify, Share
<1>4. CASE ~ (Lock(t) \/ PushItem(t) \/ PushNotify(t))
  <2>1. length' = length /\ ~ Serves(t)
    BY <1>4 DEF PushStep, Push, PushCheck, PushWait, PushSleep, PushWake, Begin,
                Serves, ServingPoints
  <2> QED BY <2>1, IdleShare
<1> QED BY <1>1, <1>2, <1>3, <1>4

LEMMA PopShare ==
    ASSUME TypeOK, Holds, NEW t \in Threads, t \notin asleep, PopStep(t)
    PROVE  Share(t)
<1> USE DEF Inside, JustLocked
<1>0. length \in Nat
  BY DEF TypeOK
<1>1. CASE PopCheck(t)
  <2>1. Serves(t)'
    BY <1>1, GotoOnly DEF PopCheck, Serves, Keeps, ServingPoints
  <2> QED BY <1>0, <1>1, <2>1 DEF PopCheck, Share
<1>2. CASE PopShift(t)
  BY <1>0, <1>2 DEF PopShift, Share
<1>3. CASE PopEmpty(t) \/ PopWait(t)
  BY <1>3 DEF PopEmpty, PopWait, Share
<1>4. CASE PopWake(t)
  <2>1. Serves(t)'
    BY <1>4, GotoOnly, ThreadsAssumption DEF PopWake, Serves, Keeps, ServingPoints
  <2> QED BY <1>0, <1>4, <2>1 DEF PopWake, Share
<1>5. CASE Pop(t) \/ PopRoom(t) \/ PopNotify(t)
  <2>1. length' = length /\ ~ Serves(t)
    BY <1>5 DEF Pop, PopRoom, PopNotify, Begin, Serves, ServingPoints
  <2> QED BY <2>1, IdleShare
<1> QED BY <1>1, <1>2, <1>3, <1>4, <1>5 DEF PopStep

LEMMA CallShare ==
    ASSUME TypeOK, Holds, NEW t \in Threads, t \notin asleep, CallStep(t),
           ~ PushCalls(t)
    PROVE  Share(t)
<1>0. length \in Nat
  BY DEF TypeOK
<1>1. CASE Retry(t) /\ pc[t] = "push_call"
  <2>1. pc'[t] = "push_notify" /\ owner' = owner /\ asleep' = asleep /\ length' = length
    BY <1>1, GotoOnly DEF Retry
  <2>2. Serves(t)'
    BY <2>1 DEF Serves, Keeps, ServingPoints, Inside
  <2> QED BY <1>0, <2>1, <2>2 DEF Share
<1>2. CASE ~ (Retry(t) /\ pc[t] = "push_call")
  <2>1. length' \in {length, 0} /\ ~ Serves(t)
    BY <1>2 DEF CallStep, Call, Retry, RunThread, Clear, SetMaxBegin, SetMax,
                SetMaxShift, SetMaxRun, SetMaxDone, Begin, Serves, ServingPoints,
                PushCalls
  <2> QED BY <2>1, IdleShare
<1> QED BY <1>1, <1>2

LEMMA ThreadShare ==
    ASSUME TypeOK, NoInterrupt, NEW t \in Threads, t \notin asleep, ThreadStep(t)
    PROVE  Share(t)
<1>0. length \in Nat
  BY DEF TypeOK
<1>1. CASE Awake(t)
  <2>1. CASE pc[t] = "push_sleep"
    BY <1>1, <2>1, IdleShare DEF Awake, Serves, ServingPoints
  <2>2. CASE pc[t] = "pop_sleep"
    <3>1. pending[t] = NoException
      BY <2>2 DEF NoInterrupt, ServingPoints
    <3>2. pc'[t] = "pop_relock"
      BY <1>1, <2>2, <3>1, GotoOnly DEF Awake, NoException
    <3>3. owner' = owner /\ asleep' = asleep /\ length' = length
      BY <1>1 DEF Awake
    <3>4. Serves(t) => Serves(t)'
      BY <2>2, <3>2, <3>3 DEF Serves, Keeps, ServingPoints, Inside, JustLocked
    <3> QED BY <1>0, <3>3, <3>4 DEF Share
  <2> QED BY <1>1, <2>1, <2>2 DEF Awake, SleepPoints
<1>2. CASE ~ Awake(t)
  <2>1. length' = length
    BY <1>2 DEF ThreadStep, Interrupt, Rethrow, Unwind, Swallow, LockRefused, Finish
  <2>2. ~ Serves(t)
    <3>1. CASE Unwind(t) \/ Swallow(t)
      BY <3>1 DEF Unwind, Swallow, NoInterrupt, Serves, NoException
    <3>2. CASE LockRefused(t)
      BY <3>2 DEF LockRefused, Serves, Keeps, LockPoints, Inside, JustLocked
    <3>3. CASE Rethrow(t) \/ Finish(t) \/ \E u \in Threads : Interrupt(t, u)
      BY <3>3 DEF Rethrow, Finish, Interrupt, Begin, Serves, ServingPoints
    <3> QED BY <1>2, <3>1, <3>2, <3>3 DEF ThreadStep
  <2> QED BY <2>1, <2>2, IdleShare
<1> QED BY <1>1, <1>2

LEMMA StepShare ==
    ASSUME TypeOK, Holds, NoInterrupt, NEW t \in Threads, t \notin asleep, Step(t),
           ~ PushCalls(t)
    PROVE  Share(t)
BY Steps, PushShare, PopShare, CallShare, ThreadShare

\* No push is cut.
LEMMA NeverCut ==
    ASSUME NoInterrupt, TypeOK, ~ cut, NEW t \in Threads, Step(t)
    PROVE  ~ cut'
<1>1. CASE Plain(t)
  BY <1>1 DEF Plain
<1>2. CASE Unwind(t)
  <2>1. pc[t] \notin ServingPoints
    BY <1>2 DEF Unwind, NoInterrupt
  <2> QED BY <1>2, <2>1 DEF Unwind, ServingPoints
<1>3. CASE ListStep(t) /\ ~ Unwind(t)
  BY <1>3 DEF ListStep, PushNotify, PushWait, PushSleep, PopWait, PopNotify, Call,
              Retry, SetMaxShift, SetMaxRun, Lists
<1> QED BY <1>1, <1>2, <1>3, StepPlain

\* Nobody takes an item without being one of those who serve, and nobody of them
\* leaves without an item while there is one.
LEMMA EnoughShare ==
    ASSUME TypeOK, TypeOK', Enough, NEW t \in Threads, Share(t),
           \A u \in Threads \ {t} : u \in Servers' <=> u \in Servers,
           length' = 0 \/ PopSleepers' \subseteq PopSleepers
    PROVE  Enough'
<1>1. /\ t \in Servers <=> Serves(t)
      /\ t \in Servers' <=> Serves(t)'
      /\ Servers \subseteq Threads /\ Servers' \subseteq Threads
  BY DEF Servers
<1>2. length \in Nat /\ length' \in Nat
  BY DEF TypeOK
<1>3. IsFiniteSet(Servers) /\ Cardinality(Servers) \in Nat
  BY FS_CardinalityType DEF Enough
<1>5. length' = 0 \/ \/ length' <= length /\ (t \in Servers => t \in Servers')
                     \/ length' <= length - 1
                     \/ length' <= length + 1 /\ t \notin Servers /\ t \in Servers'
  BY <1>1 DEF Share
<1>6. CASE Servers' = Servers
  <2>1. PopSleepers' # {} => length' <= Cardinality(Servers)
    BY <1>2, <1>3, <1>5, <1>6 DEF Enough
  <2> QED BY <1>3, <1>6, <2>1 DEF Enough
<1>7. CASE t \notin Servers /\ t \in Servers'
  <2>1. Servers' = Servers \cup {t}
    BY <1>1, <1>7
  <2>2. IsFiniteSet(Servers') /\ Cardinality(Servers') = Cardinality(Servers) + 1
    BY <1>3, <1>7, <2>1, FS_AddElement
  <2>3. PopSleepers' # {} => length' <= Cardinality(Servers')
    BY <1>2, <1>3, <1>5, <2>2 DEF Enough
  <2> QED BY <2>2, <2>3 DEF Enough
<1>8. CASE t \in Servers /\ t \notin Servers'
  <2>1. Servers' = Servers \ {t}
    BY <1>1, <1>8
  <2>2. IsFiniteSet(Servers') /\ Cardinality(Servers') = Cardinality(Servers) - 1
    BY <1>3, <1>8, <2>1, FS_RemoveElement
  <2>3. Cardinality(Servers') \in Nat
    BY <2>2, FS_CardinalityType
  <2>4. PopSleepers' # {} => length' <= Cardinality(Servers')
    BY <1>2, <1>3, <1>5, <1>8, <2>2, <2>3 DEF Enough
  <2> QED BY <2>2, <2>4 DEF Enough
<1> QED BY <1>1, <1>6, <1>7, <1>8

\* The list that a step leaves: as it was, longer by the thread that sleeps now, or
\* shorter by the one shifted.
LEMMA ExactKept ==
    ASSUME TypeOK, TypeOK', Holds, NoInterrupt, ListExact,
           NEW t \in Threads, t \notin asleep, Step(t), Effect(t),
           PopSleepers \subseteq PopSleepers'
    PROVE  ListExact'
<1>0. waiting \in Seq(Threads) /\ Len(waiting) \in Nat /\ asleep \subseteq Threads
  BY DEF TypeOK
<1>1. \A u \in Threads \ {t} : pc'[u] = pc[u] /\ next'[u] = next[u]
  BY DEF Effect
<1>2. CASE PushNotify(t)
  <2>1. /\ waiting' = Rest(waiting) /\ next'[t] = First(waiting)
        /\ pc[t] = "push_notify"
    BY <1>2, ShiftNext DEF PushNotify
  <2>2. \A u \in Threads : pc'[u] = "push_call" => u = t
    <3>1. ASSUME NEW u \in Threads, pc[u] = "push_call" PROVE FALSE
      BY <2>1, <3>1, Alone DEF Inside
    <3> QED BY <1>1, <3>1
  <2>3. CASE waiting = <<>>
    <3>1. waiting' = <<>> /\ next'[t] = NoThread
      BY <2>1, <2>3 DEF Rest, First
    <3> QED BY <2>2, <3>1 DEF ListExact
  <2>4. CASE waiting # <<>>
    <3>1. /\ Len(waiting') = Len(waiting) - 1
          /\ \A i \in 1..Len(waiting') : waiting'[i] = waiting[i + 1]
          /\ next'[t] = waiting[1]
      BY <1>0, <2>1, <2>4, HeadTailProperties DEF Rest, First
    <3>2. /\ 1 \in 1..Len(waiting)
          /\ \A i \in 1..Len(waiting') : i + 1 \in 1..Len(waiting) /\ i + 1 # 1
      BY <1>0, <2>4, <3>1
    <3>3. /\ waiting[1] \in PopSleepers'
          /\ \A i \in 1..Len(waiting') :
                waiting'[i] \in PopSleepers' /\ waiting'[i] # waiting[1]
      BY <3>1, <3>2 DEF ListExact
    <3>4. \A i, j \in 1..Len(waiting') : waiting'[i] = waiting'[j] => i = j
      BY <3>1, <3>2 DEF ListExact
    <3>5. waiting[1] # NoThread
      BY <1>0, <3>2, ThreadsAssumption DEF ListExact, PopSleepers
    <3> QED BY <2>2, <3>1, <3>3, <3>4, <3>5 DEF ListExact
  <2> QED BY <2>3, <2>4
<1>3. CASE PopWait(t)
  <2>1. pending[t] = NoException
    BY <1>3 DEF PopWait, NoInterrupt, ServingPoints
  <2>2. /\ waiting' = Append(waiting, t) /\ t \in PopSleepers'
        /\ pc[t] = "pop_check"
    BY <1>3, <2>1, GotoOnly DEF PopWait, MutexSleep, PopSleepers
  <2>3. /\ Len(waiting') = Len(waiting) + 1
        /\ \A i \in 1..Len(waiting) : waiting'[i] = waiting[i]
        /\ waiting'[Len(waiting) + 1] = t
    BY <1>0, <2>2
  <2>4. \A i \in 1..Len(waiting) : waiting[i] # t /\ waiting[i] \in PopSleepers
    BY DEF ListExact, PopSleepers
  <2>5. \A i \in 1..Len(waiting') : i \in 1..Len(waiting) \/ i = Len(waiting) + 1
    BY <1>0, <2>3
  <2>6. \A i \in 1..Len(waiting') : waiting'[i] \in PopSleepers'
    BY <2>2, <2>3, <2>4, <2>5
  <2>7. \A i, j \in 1..Len(waiting') : waiting'[i] = waiting'[j] => i = j
    BY <2>3, <2>4, <2>5 DEF ListExact
  <2>8. ASSUME NEW u \in Threads, pc'[u] = "push_call" PROVE FALSE
    <3>1. u # t
      BY <1>3, <2>8, GotoOnly DEF PopWait, MutexSleep
    <3> QED BY <1>1, <2>2, <2>8, <3>1, Alone DEF Inside, JustLocked
  <2> QED BY <2>6, <2>7, <2>8 DEF ListExact
<1>4. CASE ~ PushNotify(t) /\ ~ PopWait(t)
  <2>1. waiting' = waiting
    BY <1>4, WaitingStep
  <2>2. pc'[t] # "push_call"
    BY <1>4, StepPlain, GotoOnly
       DEF Plain, CallPoints, ListStep, PushWait, PushSleep, PopNotify, Call, Retry,
           SetMaxShift, SetMaxRun, Unwind, MutexSleep
  <2> QED BY <1>1, <2>1, <2>2 DEF ListExact
<1> QED BY <1>2, <1>3, <1>4

ServedInv == SleepInv /\ ~ cut /\ ListExact /\ Enough

LEMMA ShareKeeps ==
    ASSUME ServedInv, TypeOK', NoInterrupt, NEW t \in Threads, Step(t),
           ~ PushCalls(t), PopSleepers \subseteq asleep'
    PROVE  ListExact' /\ Enough'
<1>1. /\ TypeOK /\ Holds /\ SoundSleep /\ ListExact /\ Enough
      /\ t \notin asleep /\ Effect(t) /\ SleepStep(t) /\ Share(t)
  BY SleeperStill, StepEffect, StepSleep, StepShare
     DEF ServedInv, SleepInv, AwaitedInv, LockInv
<1>2. \A u \in Threads \ {t} : pc'[u] = pc[u] /\ (u \in asleep' => u \in asleep)
  BY <1>1 DEF Effect, SleepStep
<1>3. PopSleepers \subseteq PopSleepers'
  BY <1>1, <1>2 DEF PopSleepers, TypeOK
<1>4. length' = 0 \/ PopSleepers' \subseteq PopSleepers
  <2>1. CASE PopWait(t)
    BY <2>1 DEF PopWait
  <2>2. CASE ~ PopWait(t)
    <3>1. t \notin asleep' \/ pc'[t] # "pop_sleep"
      BY <1>1, <2>2, StepPlain, GotoOnly
         DEF Plain, ListStep, PushNotify, PushWait, PushSleep, PopNotify, Call, Retry,
             SetMaxShift, SetMaxRun, Unwind, MutexSleep
    <3> QED BY <1>2, <3>1, TypeOK' DEF PopSleepers, TypeOK
  <2> QED BY <2>1, <2>2
<1>5. \A u \in Threads \ {t} : u \in Servers' <=> u \in Servers
  <2> SUFFICES ASSUME NEW u \in Threads \ {t}, pc[u] \in ServingPoints
               PROVE  Serves(u)' <=> Serves(u)
    BY <1>2 DEF Servers, Serves
  <2>1. u \in asleep' <=> u \in asleep
    BY <1>1, <1>2 DEF SoundSleep, SleepPoints, ServingPoints, PopSleepers
  <2>2. owner' = u <=> owner = u
    BY <1>1, ThreadsAssumption DEF Effect, LockStep
  <2> QED BY <1>2, <2>1, <2>2 DEF Serves, Keeps
<1>6. ListExact'
  BY <1>1, <1>3, ExactKept
<1>7. Enough'
  BY <1>1, <1>4, <1>5, EnoughShare
<1> QED BY <1>6, <1>7

\* A push calls the consumer it has shifted, who serves in its place.
LEMMA CallKeeps ==
    ASSUME ServedInv, TypeOK', NEW t \in Threads, PushCalls(t)
    PROVE  ListExact' /\ Enough'
<1>1. /\ TypeOK /\ Holds /\ SoundSleep /\ ConsumersAwaited /\ ListExact /\ Enough
      /\ ~ cut
  BY DEF ServedInv, SleepInv, AwaitedInv, LockInv
<1>0. PICK u \in Threads \cup {NoThread} : u = next[t]
  BY <1>1 DEF TypeOK
<1>2. /\ pc[t] = "push_call" /\ pc'[t] = "run_thread" /\ owner' = NoThread
      /\ \A v \in Threads \ {t} : pc'[v] = pc[v]
      /\ UNCHANGED <<length, waiting, next>> /\ asleep' = asleep \ {u}
  BY <1>0, <1>1, GotoOnly DEF PushCalls, Call
<1>3. owner = t /\ \A v \in Threads : pc[v] = "push_call" => v = t
  BY <1>1, <1>2, Alone DEF Holds, Inside
<1>4. \A v \in Threads : pc'[v] # "push_call"
  BY <1>2, <1>3
<1>5. t \notin asleep /\ asleep \subseteq Threads
  BY <1>1, <1>2 DEF SoundSleep, SleepPoints, TypeOK
<1>6. t \in Servers /\ ~ Serves(t)'
  BY <1>2, <1>5 DEF Servers, Serves, Keeps, ServingPoints, Inside
<1>7. /\ IsFiniteSet(Servers) /\ Cardinality(Servers) \in Nat
      /\ IsFiniteSet(Servers \ {t})
      /\ Cardinality(Servers \ {t}) = Cardinality(Servers) - 1
  BY <1>1, <1>6, FS_CardinalityType, FS_RemoveElement DEF Enough
<1>8. \A v \in Threads \ {t} : owner' # v /\ owner # v
  BY <1>2, <1>3, ThreadsAssumption
<1>9. CASE u = NoThread
  <2>0. waiting = <<>>
    <3>1. next[t] = NoThread
      BY <1>0, <1>9
    <3> QED BY <1>1, <1>2, <3>1 DEF ListExact
  <2>1. asleep' = asleep
    BY <1>2, <1>5, <1>9, ThreadsAssumption
  <2>2. PopSleepers = {}
    <3> SUFFICES ASSUME NEW v \in asleep, pc[v] = "pop_sleep" PROVE FALSE
      BY DEF PopSleepers
    <3>1. v \in ToSet(waiting) \cup Shifted({"push_call"})
      BY <1>1 DEF ConsumersAwaited, Awaited
    <3>2. v \notin ToSet(waiting)
      BY <2>0 DEF ToSet
    <3>3. PICK w \in Threads : pc[w] = "push_call" /\ v = next[w]
      BY <3>1, <3>2 DEF Shifted
    <3>4. v = NoThread
      BY <1>0, <1>3, <1>9, <3>3
    <3> QED BY <1>5, <3>4, ThreadsAssumption
  <2>3. PopSleepers' = {}
    BY <1>2, <1>5, <2>1, <2>2 DEF PopSleepers
  <2>4. Servers' = Servers \ {t}
    BY <1>2, <1>6, <1>8, <2>1 DEF Servers, Serves, Keeps
  <2>5. ListExact'
    <3>1. Len(waiting') = 0
      BY <1>2, <2>0
    <3> QED BY <1>4, <3>1 DEF ListExact
  <2> QED BY <1>7, <2>3, <2>4, <2>5 DEF Enough
<1>10. CASE u # NoThread
  <2>1. /\ u \in PopSleepers /\ u \in Threads /\ u # t
        /\ \A i \in 1..Len(waiting) : waiting[i] # u
    BY <1>0, <1>1, <1>2, <1>5, <1>10 DEF ListExact, PopSleepers
  <2>2. PopSleepers' = PopSleepers \ {u}
    BY <1>2, <1>5 DEF PopSleepers
  <2>3. ListExact'
    BY <1>1, <1>2, <1>4, <2>1, <2>2 DEF ListExact
  <2>4. Serves(u)'
    BY <1>2, <1>8, <2>1 DEF Serves, Keeps, PopSleepers, ServingPoints
  <2>5. Servers' = (Servers \ {t}) \cup {u}
    <3>1. \A v \in Threads \ {t, u} : Serves(v)' <=> Serves(v)
      BY <1>2, <1>8 DEF Serves, Keeps
    <3> QED BY <1>6, <2>1, <2>4, <3>1 DEF Servers
  <2>6. u \notin Servers \ {t}
    BY <2>1 DEF Servers, Serves, PopSleepers
  <2>7. IsFiniteSet(Servers') /\ Cardinality(Servers') = Cardinality(Servers)
    <3>1. /\ IsFiniteSet((Servers \ {t}) \cup {u})
          /\ Cardinality((Servers \ {t}) \cup {u}) = Cardinality(Servers \ {t}) + 1
      BY <1>7, <2>6, FS_AddElement
    <3> QED BY <1>7, <2>5, <3>1
  <2>8. length <= Cardinality(Servers)
    BY <1>1, <2>1 DEF Enough
  <2> QED BY <1>2, <2>3, <2>7, <2>8 DEF Enough
<1> QED BY <1>9, <1>10

\* In no state does a thread sleep in pop beside an item that nobody is about to
\* take or to call it for, with any number of consumers, as long as consumers are
\* woken by push only and no exception hits a thread inside pop or before its call.
THEOREM ConsumersServed ==
    Spec /\ OnlyPushWakes /\ []NoInterrupt => []PopServed
<1> DEFINE Wakes == PopSleepers \subseteq asleep' \/ \E t \in Threads : PushCalls(t)
<1>1. Init => ~ cut /\ ListExact /\ Enough
  <2> SUFFICES ASSUME Init PROVE ~ cut /\ ListExact /\ Enough
    OBVIOUS
  <2>1. Servers = {} /\ PopSleepers = {}
    BY DEF Init, Servers, Serves, PopSleepers, ServingPoints
  <2>2. ~ cut /\ ListExact
    BY DEF Init, ListExact
  <2> QED BY <2>1, <2>2, FS_EmptySet DEF Enough
<1>2. /\ SleepInv /\ SleepInv' /\ NoInterrupt /\ ~ cut /\ ListExact /\ Enough
      /\ [Next]_vars /\ [Wakes]_vars
      => ~ cut' /\ ListExact' /\ Enough'
  <2>1. CASE UNCHANGED vars
    BY <2>1 DEF vars, ListExact, Enough, PopSleepers, Servers, Serves, Keeps
  <2>2. ASSUME SleepInv, SleepInv', NoInterrupt, ~ cut, ListExact, Enough, Wakes,
               NEW t \in Threads, Step(t)
        PROVE  ~ cut' /\ ListExact' /\ Enough'
    <3>1. ServedInv /\ TypeOK /\ TypeOK' /\ Holds
      BY <2>2 DEF ServedInv, SleepInv, AwaitedInv, LockInv
    <3>2. ~ cut'
      BY <2>2, <3>1, NeverCut
    <3>3. CASE PushCalls(t)
      BY <3>1, <3>2, <3>3, CallKeeps
    <3>4. CASE ~ PushCalls(t)
      <4>1. \A u \in Threads : ~ PushCalls(u)
        BY <2>2, <3>1, <3>4, GotoOnly, StepEffect DEF Effect, PushCalls, Call
      <4> QED BY <2>2, <3>1, <3>2, <3>4, <4>1, ShareKeeps
    <3> QED BY <3>3, <3>4
  <2> QED BY <2>1, <2>2 DEF Next
<1>3. TypeOK /\ Enough => PopServed
  <2> SUFFICES ASSUME TypeOK, Enough, length > 0, PopSleepers # {}
               PROVE  \E u \in Threads \ asleep : pc[u] \in ServingPoints
    BY DEF PopServed, PopSleepers
  <2>1. length \in Nat /\ length <= Cardinality(Servers)
    BY DEF TypeOK, Enough
  <2>2. Servers # {}
    BY <2>1, FS_EmptySet
  <2> QED BY <2>2 DEF Servers, Serves
<1>4. SleepInv => TypeOK
  BY DEF SleepInv, AwaitedInv, LockInv
<1> QED BY <1>1, <1>2, <1>3, <1>4, SleepInvariant, PTL DEF Spec, OnlyPushWakes

-----------------------------------------------------------------------------
(***************************************************************************)
(* The queue implements AtomicQueue: a step of the code is one of its      *)
(* steps or changes nothing that it sees.                                  *)
(***************************************************************************)
Seen == <<length, max, calls, raised>>

AtomicStep == Atomic!Next \/ UNCHANGED Seen

LEMMA CallTable ==
    /\ \A p \in {"push_lock", "push_enter", "push_check", "push_item", "push_wait",
                 "push_sleep", "push_relock"} : CallAt(p) = "push"
    /\ \A p \in {"pop_lock", "pop_check", "pop_sleep", "pop_relock"} :
          CallAt(p) = "pop"
    /\ \A p \in {"try_lock", "try_check"} : CallAt(p) = "try"
    /\ CallAt("pop_shift") = "seen"
    /\ \A p \in {"run", "dead", "run_thread", "push_notify", "push_call", "popped",
                 "pop_enter", "pop_notify", "pop_call", "set_lock", "set_check",
                 "set_max", "set_call", "raise_relock", "kill_relock"} :
          CallAt(p) = "none"
BY DEF CallAt

LEMMA CallChanges ==
    ASSUME TypeOK, NEW t \in Threads, NEW p, Goto(t, p)
    PROVE  Atomic!Becomes(t, CallAt(p))
BY DEF TypeOK, Goto, calls, Atomic!Becomes

LEMMA CallStays ==
    ASSUME TypeOK, NEW t \in Threads, NEW p, Goto(t, p), CallAt(p) = CallAt(pc[t])
    PROVE  calls' = calls
<1>1. \A u \in Threads : CallAt(pc'[u]) = CallAt(pc[u])
  BY GotoOnly
<1> QED BY <1>1 DEF calls

LEMMA CallOf == ASSUME NEW t \in Threads PROVE calls[t] = CallAt(pc[t])
BY DEF calls

\* The threads of raised.
Hindered(t) ==
    pending[t] # NoException \/ pc[t] \in {"raise_relock", "kill_relock"} \/ Keeps(t)

LEMMA RaisedAre == raised = {t \in Threads : Hindered(t)}
BY DEF raised, Hindered, Keeps

\* A step of t does not hinder the others, nor free them.
LEMMA RaisedStep ==
    ASSUME TypeOK, NEW t \in Threads, Effect(t),
           \A u \in Threads \ {t} : pending'[u] = pending[u]
    PROVE  raised' = IF Hindered(t)' THEN raised \cup {t} ELSE raised \ {t}
<1>1. \A u \in Threads \ {t} : Hindered(u)' <=> Hindered(u)
  <2> TAKE u \in Threads \ {t}
  <2>1. owner' = u <=> owner = u
    BY ThreadsAssumption DEF Effect, LockStep
  <2> QED BY <2>1 DEF Effect, Hindered, Keeps
<1>2. raised' = {u \in Threads : Hindered(u)'}
  BY DEF raised, Hindered, Keeps
<1> QED BY <1>1, <1>2, RaisedAre

LEMMA RaisedStays ==
    ASSUME TypeOK, NEW t \in Threads, Effect(t), pending' = pending,
           Hindered(t)' <=> Hindered(t)
    PROVE  raised' = raised
BY RaisedStep, RaisedAre

\* A call that an exception ends.
LEMMA AbortStep ==
    ASSUME TypeOK, NEW t \in Threads, Effect(t), NEW p, Goto(t, p),
           CallAt(p) = "none", Hindered(t), length' = length, max' = max,
           \A u \in Threads \ {t} : pending'[u] = pending[u]
    PROVE  AtomicStep
<1>1. t \in raised
  BY RaisedAre
<1>2. raised' \in {raised, raised \ {t}}
  BY <1>1, RaisedStep
<1>3. Atomic!Becomes(t, "none")
  BY CallChanges
<1>4. Atomic!Abort(t)
  BY <1>1, <1>2, <1>3 DEF Atomic!Abort
<1> QED BY <1>4 DEF AtomicStep, Atomic!Next

\* A step inside a call.
LEMMA InnerStep ==
    ASSUME TypeOK, NEW t \in Threads, Effect(t), NEW p, Goto(t, p),
           CallAt(p) = CallAt(pc[t]), length' = length, max' = max,
           pending' = pending, Hindered(t)' <=> Hindered(t)
    PROVE  AtomicStep
BY CallStays, RaisedStays DEF AtomicStep, Seen

\* A thread that has the lock and has not itself seen an item is there alone: no
\* other has seen one.
LEMMA NobodyElseSees ==
    ASSUME LockInv, NEW t \in Threads, pc[t] \in Inside \ {"pop_shift"}
    PROVE  Atomic!NobodySees
<1>1. ASSUME NEW u \in Threads, CallAt(pc[u]) = "seen" PROVE FALSE
  <2>1. pc[u] = "pop_shift"
    BY <1>1 DEF CallAt
  <2>2. u = t
    BY <2>1, Alone DEF LockInv, Inside
  <2> QED BY <2>1, <2>2
<1> QED BY <1>1 DEF Atomic!NobodySees, calls

LEMMA LockCall ==
    ASSUME NEW p \in LockPoints
    PROVE  CallAt(Locked[p]) = CallAt(p)
BY CallTable DEF LockPoints, Locked

LEMMA PushAtomic ==
    ASSUME LockInv, NEW t \in Threads, PushStep(t), Effect(t)
    PROVE  AtomicStep
<1> USE DEF Hindered, Keeps, Inside, JustLocked
<1>0. TypeOK /\ t # NoThread
  BY ThreadsAssumption DEF LockInv
<1>1. CASE Lock(t)
  <2>1. Goto(t, Locked[pc[t]]) /\ Locked[pc[t]] \in JustLocked /\ pc[t] \in LockPoints
    BY <1>1, LockJust DEF Lock
  <2>2. Hindered(t)' <=> Hindered(t)
    BY <1>0, <1>1, <2>1, GotoOnly DEF Lock, LockPoints
  <2> QED BY <1>0, <1>1, <2>1, <2>2, LockCall, InnerStep DEF Lock
<1>2. CASE Push(t)
  <2>1. calls[t] = "none" /\ Atomic!Becomes(t, "push")
    BY <1>0, <1>2, CallTable, CallOf, CallChanges DEF Push, Begin
  <2>2. raised' = raised
    BY <1>0, <1>2, GotoOnly, RaisedStays DEF Push, Begin
  <2>3. Atomic!Begin(t)
    BY <1>2, <2>1, <2>2 DEF Push, Atomic!Begin
  <2> QED BY <2>3 DEF AtomicStep, Atomic!Next
<1>3. CASE PushCheck(t)
  BY <1>0, <1>3, GotoOnly, CallTable, InnerStep DEF PushCheck
<1>4. CASE PushItem(t)
  <2>1. calls[t] = "push" /\ Atomic!Becomes(t, "none")
    BY <1>0, <1>4, CallTable, CallOf, CallChanges DEF PushItem
  <2>2. Atomic!NobodySees
    BY <1>4, NobodyElseSees DEF PushItem
  <2>3. Sized => length < max
    BY <1>4 DEF PushItem, LockInv, Room
  <2>4. raised' = raised
    BY <1>0, <1>4, GotoOnly, RaisedStays DEF PushItem
  <2>5. Atomic!Put(t)
    BY <1>4, <2>1, <2>2, <2>3, <2>4 DEF PushItem, Atomic!Put
  <2> QED BY <2>5 DEF AtomicStep, Atomic!Next
<1>5. CASE PushNotify(t)
  BY <1>0, <1>5, GotoOnly, CallTable, InnerStep DEF PushNotify
<1>6. CASE PushWait(t)
  BY <1>0, <1>6, GotoOnly, CallTable, InnerStep DEF PushWait
<1>7. CASE PushSleep(t)
  BY <1>0, <1>7, GotoOnly, CallTable, InnerStep DEF PushSleep, MutexSleep
<1>8. CASE PushWake(t)
  BY <1>0, <1>8, GotoOnly, CallTable, InnerStep DEF PushWake
<1> QED BY <1>1, <1>2, <1>3, <1>4, <1>5, <1>6, <1>7, <1>8 DEF PushStep

LEMMA PopAtomic ==
    ASSUME LockInv, NEW t \in Threads, PopStep(t), Effect(t)
    PROVE  AtomicStep
<1> USE DEF Hindered, Keeps, Inside, JustLocked
<1>0. TypeOK /\ Holds /\ t # NoThread
  BY ThreadsAssumption DEF LockInv
<1>1. CASE Pop(t)
  <2>1. PICK p \in {"pop_lock", "try_lock"} : Goto(t, p)
    BY <1>1 DEF Pop
  <2>2. pc[t] = "run" /\ pending' = pending /\ owner' = owner
        /\ length' = length /\ max' = max
    BY <1>1 DEF Pop, Begin
  <2>3. calls[t] = "none" /\ (Atomic!Becomes(t, "pop") \/ Atomic!Becomes(t, "try"))
    BY <1>0, <2>1, <2>2, CallTable, CallOf, CallChanges
  <2>4. raised' = raised
    BY <1>0, <2>1, <2>2, GotoOnly, RaisedStays
  <2>5. Atomic!Begin(t)
    BY <2>2, <2>3, <2>4 DEF Atomic!Begin
  <2> QED BY <2>5 DEF AtomicStep, Atomic!Next
<1>2. CASE PopCheck(t)
  <2>1. calls[t] \in {"pop", "try"} /\ Atomic!Becomes(t, "seen")
    BY <1>0, <1>2, CallTable, CallOf, CallChanges DEF PopCheck
  <2>2. Atomic!NobodySees
    BY <1>2, NobodyElseSees DEF PopCheck
  <2>3. raised' = raised
    BY <1>0, <1>2, GotoOnly, RaisedStays DEF PopCheck
  <2>4. Atomic!See(t)
    BY <1>2, <2>1, <2>2, <2>3 DEF PopCheck, Atomic!See
  <2> QED BY <2>4 DEF AtomicStep, Atomic!Next
<1>3. CASE PopShift(t)
  <2>1. calls[t] = "seen" /\ Atomic!Becomes(t, "none")
    BY <1>0, <1>3, CallTable, CallOf, CallChanges DEF PopShift
  <2>2. raised' = raised
    BY <1>0, <1>3, GotoOnly, RaisedStays DEF PopShift
  <2>3. Atomic!Take(t)
    BY <1>3, <2>1, <2>2 DEF PopShift, Atomic!Take
  <2> QED BY <2>3 DEF AtomicStep, Atomic!Next
<1>4. CASE PopEmpty(t)
  <2>1. calls[t] = "try" /\ Atomic!Becomes(t, "none")
    BY <1>0, <1>4, CallTable, CallOf, CallChanges DEF PopEmpty
  <2>2. raised' = raised
    BY <1>0, <1>4, GotoOnly, RaisedStays DEF PopEmpty
  <2>3. Atomic!Refuse(t)
    BY <1>4, <2>1, <2>2 DEF PopEmpty, Atomic!Refuse
  <2> QED BY <2>3 DEF AtomicStep, Atomic!Next
<1>5. CASE PopWait(t)
  BY <1>0, <1>5, GotoOnly, CallTable, InnerStep DEF PopWait, MutexSleep
<1>6. CASE PopWake(t)
  BY <1>0, <1>6, GotoOnly, CallTable, InnerStep DEF PopWake
<1>7. CASE PopRoom(t)
  BY <1>0, <1>7, GotoOnly, CallTable, InnerStep DEF PopRoom
<1>8. CASE PopNotify(t)
  BY <1>0, <1>8, GotoOnly, CallTable, InnerStep DEF PopNotify
<1> QED BY <1>1, <1>2, <1>3, <1>4, <1>5, <1>6, <1>7, <1>8 DEF PopStep

LEMMA CallAtomic ==
    ASSUME LockInv, NEW t \in Threads, CallStep(t), Effect(t)
    PROVE  AtomicStep
<1> USE DEF Hindered, Keeps, Inside, JustLocked
<1>0. TypeOK /\ t # NoThread
  BY ThreadsAssumption DEF LockInv
<1>1. CASE Call(t)
  BY <1>0, <1>1, GotoOnly, CallTable, InnerStep DEF Call
<1>2. CASE Retry(t)
  <2>1. PICK p \in {"push_notify", "pop_notify", "set_max"} :
           /\ Goto(t, p)
           /\ p \in {"push_notify", "pop_notify"} <=>
                 pc[t] \in {"push_call", "pop_call"}
           /\ pc[t] \in {"push_call", "pop_call", "set_call"}
    BY <1>2 DEF Retry
  <2>2. Hindered(t)' <=> Hindered(t)
    BY <1>0, <1>2, <2>1, GotoOnly DEF Retry
  <2> QED BY <1>0, <1>2, <2>1, <2>2, CallTable, InnerStep DEF Retry
<1>3. CASE RunThread(t)
  BY <1>0, <1>3, GotoOnly, CallTable, InnerStep DEF RunThread
<1>4. CASE Clear(t)
  <2>1. Atomic!Clear
    BY <1>4 DEF Clear, Atomic!Clear, calls, raised
  <2> QED BY <2>1 DEF AtomicStep, Atomic!Next
<1>5. CASE SetMaxBegin(t)
  BY <1>0, <1>5, GotoOnly, CallTable, InnerStep DEF SetMaxBegin, Begin
<1>6. ASSUME NEW m \in Sizes, SetMax(t, m) PROVE AtomicStep
  <2>1. calls' = calls
    BY <1>0, <1>6, CallTable, CallStays DEF SetMax
  <2>2. raised' = raised
    BY <1>0, <1>6, GotoOnly, RaisedStays DEF SetMax
  <2>3. Sized
    BY <1>6 DEF SetMax, LockInv, Resizable, Setting
  <2>4. Atomic!Resize
    BY <1>6, <2>1, <2>2, <2>3 DEF SetMax, Atomic!Resize
  <2> QED BY <2>4 DEF AtomicStep, Atomic!Next
<1>7. CASE SetMaxShift(t)
  BY <1>0, <1>7, GotoOnly, CallTable, InnerStep DEF SetMaxShift
<1>8. CASE SetMaxRun(t)
  BY <1>0, <1>8, GotoOnly, CallTable, InnerStep DEF SetMaxRun
<1>9. CASE SetMaxDone(t)
  BY <1>0, <1>9, GotoOnly, CallTable, InnerStep DEF SetMaxDone
<1> QED BY <1>1, <1>2, <1>3, <1>4, <1>5, <1>6, <1>7, <1>8, <1>9 DEF CallStep

LEMMA ThreadAtomic ==
    ASSUME LockInv, NEW t \in Threads, ThreadStep(t), Effect(t)
    PROVE  AtomicStep
<1>0. /\ TypeOK /\ t # NoThread
      /\ \A p \in {"run", "dead", "raise_relock", "kill_relock"} : CallAt(p) = "none"
  BY ThreadsAssumption, CallTable DEF LockInv
<1>1. ASSUME NEW u \in Threads, Interrupt(t, u) PROVE AtomicStep
  <2>1. calls' = calls /\ length' = length /\ max' = max
    BY <1>1 DEF Interrupt, calls
  <2>2. raised' = raised \cup {u}
    BY <1>0, <1>1 DEF Interrupt, raised, TypeOK, NoException
  <2>3. Atomic!Raise(u)
    BY <2>1, <2>2 DEF Atomic!Raise
  <2> QED BY <2>3 DEF AtomicStep, Atomic!Next
<1>2. CASE Awake(t)
  <2>1. PICK p \in {"raise_relock", "kill_relock", "push_relock", "pop_relock"} :
           /\ Goto(t, p)
           /\ p \in {"raise_relock", "kill_relock"} <=> pending[t] # NoException
           /\ p = "push_relock" => pc[t] = "push_sleep"
           /\ p = "pop_relock" => pc[t] = "pop_sleep"
    <3>1. CASE pending[t] = NoException
      <4>1. CASE pc[t] = "push_sleep"
        <5>1. Goto(t, "push_relock")
          BY <1>2, <3>1, <4>1 DEF Awake, NoException
        <5> QED BY <3>1, <4>1, <5>1
      <4>2. CASE pc[t] = "pop_sleep"
        <5>1. Goto(t, "pop_relock")
          BY <1>2, <3>1, <4>2 DEF Awake, NoException
        <5> QED BY <3>1, <4>2, <5>1
      <4> QED BY <1>2, <4>1, <4>2 DEF Awake, SleepPoints
    <3>2. CASE pending[t] # NoException
      <4>1. pending[t] \in {"raise", "kill"}
        BY <1>0, <3>2 DEF TypeOK, Exceptions
      <4>2. Goto(t, "raise_relock") \/ Goto(t, "kill_relock")
        <5>1. pending[t] = "raise" => Goto(t, "raise_relock")
          BY <1>2 DEF Awake
        <5>2. pending[t] = "kill" => Goto(t, "kill_relock")
          BY <1>2 DEF Awake
        <5> QED BY <4>1, <5>1, <5>2
      <4> QED BY <3>2, <4>2
    <3> QED BY <3>1, <3>2
  <2>2. /\ \A u \in Threads \ {t} : pending'[u] = pending[u]
        /\ pending'[t] = NoException /\ owner' = owner
        /\ length' = length /\ max' = max
    BY <1>0, <1>2 DEF Awake, TypeOK
  <2>3. CASE pending[t] # NoException
    BY <1>0, <2>1, <2>2, <2>3, AbortStep DEF Hindered
  <2>4. CASE pending[t] = NoException
    <3>1. calls' = calls
      BY <1>0, <2>1, <2>4, CallTable, CallStays
    <3>2. Hindered(t)' <=> Hindered(t)
      BY <1>0, <1>2, <2>1, <2>2, <2>4, GotoOnly
         DEF Awake, Hindered, Keeps, SleepPoints, Inside, JustLocked
    <3>3. raised' = raised
      BY <1>0, <2>2, <3>2, RaisedStep, RaisedAre
    <3> QED BY <2>2, <3>1, <3>3 DEF AtomicStep, Seen
  <2> QED BY <2>3, <2>4
<1>3. CASE Rethrow(t)
  <2>1. PICK p \in {"run", "dead"} : Goto(t, p)
    BY <1>3 DEF Rethrow
  <2>2. \A u \in Threads \ {t} : pending'[u] = pending[u]
    BY <1>0, <1>3 DEF Rethrow, TypeOK
  <2> QED BY <1>0, <1>3, <2>1, <2>2, AbortStep DEF Rethrow, Hindered
<1>4. CASE Unwind(t)
  <2>1. PICK p \in {"run", "dead"} : Goto(t, p)
    BY <1>4 DEF Unwind
  <2>2. \A u \in Threads \ {t} : pending'[u] = pending[u]
    BY <1>0, <1>4 DEF Unwind, TypeOK
  <2>3. Hindered(t) /\ length' = length /\ max' = max
    BY <1>4 DEF Unwind, Hindered
  <2> QED BY <1>0, <2>1, <2>2, <2>3, AbortStep
<1>5. CASE Swallow(t)
  <2>1. \A u \in Threads \ {t} : pending'[u] = pending[u]
    BY <1>0, <1>5 DEF Swallow, TypeOK
  <2>2. t \in raised
    BY <1>5, RaisedAre DEF Swallow, Hindered, NoException
  <2>3. raised' \in {raised, raised \ {t}}
    BY <1>0, <2>1, <2>2, RaisedStep
  <2>4. calls' = calls /\ length' = length /\ max' = max
    BY <1>5 DEF Swallow, calls
  <2>5. CASE raised' = raised \ {t}
    <3>1. Atomic!Forget(t)
      BY <2>4, <2>5 DEF Atomic!Forget
    <3> QED BY <3>1 DEF AtomicStep, Atomic!Next
  <2> QED BY <2>3, <2>4, <2>5 DEF AtomicStep, Seen
<1>6. CASE LockRefused(t)
  <2>1. Hindered(t)
    BY <1>6 DEF LockRefused, Hindered, Keeps, LockPoints, Inside, JustLocked
  <2> QED BY <1>0, <1>6, <2>1, AbortStep DEF LockRefused
<1>7. CASE Finish(t)
  <2>1. \A u \in Threads \ {t} : pending'[u] = pending[u]
    BY <1>0, <1>7 DEF Finish, TypeOK
  <2>2. CASE Hindered(t)
    BY <1>0, <1>7, <2>1, <2>2, AbortStep DEF Finish
  <2>3. CASE ~ Hindered(t)
    <3>1. ~ Hindered(t)'
      BY <1>0, <1>7, GotoOnly
         DEF Finish, GiveBack, Hindered, Keeps, TypeOK, NoException
    <3>2. raised' = raised
      BY <1>0, <2>1, <2>3, <3>1, RaisedStep, RaisedAre
    <3>3. calls' = calls
      BY <1>0, <1>7, CallStays DEF Finish
    <3> QED BY <1>7, <3>2, <3>3 DEF Finish, AtomicStep, Seen
  <2> QED BY <2>2, <2>3
<1> QED BY <1>1, <1>2, <1>3, <1>4, <1>5, <1>6, <1>7 DEF ThreadStep

\* Queue and SizedQueue implement AtomicQueue, for any threads and sizes: through
\* every wait, late wake, resize and exception a push puts its item once and within
\* the size, and a pop takes one item that nobody else takes.
THEOREM QueueRefinement == Spec => ImplementsQueue
<1>1. Init => Atomic!Init
  <2> SUFFICES ASSUME Init PROVE Atomic!Init
    OBVIOUS
  <2>1. calls = [t \in Threads |-> "none"]
    BY CallTable DEF Init, calls
  <2>2. raised = {}
    BY ThreadsAssumption DEF Init, raised
  <2> QED BY <2>1, <2>2 DEF Init, Atomic!Init
<1>2. LockInv /\ [Next]_vars => [Atomic!Next]_<<length, max, calls, raised>>
  <2>1. UNCHANGED vars => UNCHANGED Seen
    BY DEF vars, Seen, calls, raised
  <2>2. ASSUME LockInv, NEW t \in Threads, Step(t) PROVE AtomicStep
    <3>1. Effect(t)
      BY <2>2, StepEffect DEF LockInv
    <3> QED BY <2>2, <3>1, Steps, PushAtomic, PopAtomic, CallAtomic, ThreadAtomic
  <2> QED BY <2>1, <2>2 DEF Next, AtomicStep, Seen
<1> QED BY <1>1, <1>2, LockInvariant, PTL DEF Spec, ImplementsQueue, Atomic!Spec
=============================================================================
