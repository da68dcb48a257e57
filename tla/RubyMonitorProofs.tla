--------------------------- MODULE RubyMonitorProofs ---------------------------
(***************************************************************************)
(* What a Monitor promises, for any number of threads and any program that *)
(* enters, waits, signals, wakes, raises and kills.                        *)
(***************************************************************************)
EXTENDS RubyMonitor, SequenceTheorems, TLAPS

USE DEF monVars, condVars, callVars, excVars, history

-----------------------------------------------------------------------------
(***************************************************************************)
(* Types.                                                                  *)
(***************************************************************************)
\* A thread leaves no block that it has not entered.
Blocked == \A t \in Threads : pc[t] \in {"entered", "exit"} => depth[t] > 0
TypeInv == TypeOK /\ Blocked

USE DEF Points, OwnerPoints, WaitPoints, HandoverPoints, Exceptions, NoException

LEMMA InitType == Init => TypeInv
<1> SUFFICES ASSUME Init PROVE TypeInv
    OBVIOUS
<1>1. waiters \in Seq(Threads) /\ called \in [Threads -> Seq(Threads)]
    BY DEF Init
<1>2. ops \in [Threads -> Nat]
    BY BudgetAssumption DEF Init
<1>3. /\ pc \in [Threads -> Points]
      /\ depth \in [Threads -> Nat] /\ count \in [Threads -> Int]
      /\ sent \in [Threads -> Exceptions \cup {NoException}]
      /\ pending \in [Threads -> Exceptions \cup {NoException}]
    BY DEF Init
<1>4. /\ holder \in Threads \cup {NoThread} /\ mon_owner \in Threads \cup {NoThread}
      /\ mon_count \in Int /\ asleep \subseteq Threads
      /\ list_holder \in Threads \cup {NoThread}
    BY DEF Init
<1>7. torn \in BOOLEAN /\ stray \in BOOLEAN
    BY DEF Init
<1>5. TypeOK
    BY <1>1, <1>2, <1>3, <1>4, <1>7, Zenon DEF TypeOK
<1>6. Blocked
    BY DEF Init, Blocked
<1> QED
    BY <1>5, <1>6 DEF TypeInv

\* Only pc and what has its type all the same.
LEMMA GotoType ==
    ASSUME TypeInv, NEW t \in Threads, NEW p \in Points \ {"entered", "exit"},
           Goto(t, p), UNCHANGED <<mon_owner, mon_count, waiters, depth, count, called, ops,
                                   history>>,
           holder' \in Threads \cup {NoThread}, asleep' \subseteq Threads,
           list_holder' \in Threads \cup {NoThread},
           pending' \in [Threads -> Exceptions \cup {NoException}],
           sent' \in [Threads -> Exceptions \cup {NoException}]
    PROVE  TypeInv'
<1>1. pc' \in [Threads -> Points]
    BY DEF Goto, TypeInv, TypeOK
<1>2. TypeOK'
    BY <1>1 DEF TypeInv, TypeOK
<1>3. Blocked'
    BY DEF Goto, TypeInv, TypeOK, Blocked
<1> QED
    BY <1>2, <1>3 DEF TypeInv

LEMMA BeginType ==
    ASSUME TypeOK, NEW t \in Threads, NEW op, Begin(t, op)
    PROVE  ops' \in [Threads -> Nat]
<1>1. ops[t] \in Nat /\ ops[t] > 0
    BY DEF TypeOK, Begin
<1>2. ops[t] - 1 \in Nat
    BY <1>1
<1> QED
    BY <1>2 DEF TypeOK, Begin

LEMMA RefuseType ==
    ASSUME TypeInv, NEW t \in Threads, Refuse(t), ops' \in [Threads -> Nat],
           UNCHANGED <<sent, history>>
    PROVE  TypeInv'
BY DEF Refuse, TypeInv, TypeOK, Blocked

LEMMA EnteredType ==
    ASSUME TypeInv, NEW t \in Threads, Entered(t), ops' \in [Threads -> Nat],
           holder' \in Threads \cup {NoThread}, UNCHANGED <<sent, history>>
    PROVE  TypeInv'
<1>1. depth[t] \in Nat
    BY DEF TypeInv, TypeOK
<1>2. depth' \in [Threads -> Nat] /\ depth'[t] = depth[t] + 1 /\ mon_count' \in Int
    BY <1>1 DEF Entered, TypeInv, TypeOK
<1>3. pc' \in [Threads -> Points]
    BY DEF Entered, Goto, TypeInv, TypeOK
<1>4. TypeOK'
    BY <1>2, <1>3 DEF Entered, TypeInv, TypeOK
<1>5. Blocked'
    BY <1>1, <1>2 DEF Entered, Goto, TypeInv, TypeOK, Blocked
<1> QED
    BY <1>4, <1>5 DEF TypeInv

LEMMA EnterTypes ==
    ASSUME TypeInv, NEW t \in Threads,
           Enter(t) \/ TryEnter(t) \/ EnterLock(t) \/ Own(t)
    PROVE  TypeInv'
<1>0. TypeOK /\ Blocked
    BY DEF TypeInv
<1>1. ops' \in [Threads -> Nat] /\ UNCHANGED <<sent, history>>
    <2>1. CASE Enter(t)
        BY <1>0, <2>1, BeginType DEF Enter
    <2>2. CASE TryEnter(t)
        BY <1>0, <2>2, BeginType DEF TryEnter
    <2>3. CASE EnterLock(t) \/ Own(t)
        BY <1>0, <2>3 DEF EnterLock, Own, TypeOK
    <2> QED
        BY <2>1, <2>2, <2>3
<1>2. \/ Entered(t) /\ holder' = holder
      \/ Locks(t)
      \/ EnterWait(t)
      \/ Refuse(t)
      \/ UNCHANGED <<holder, monVars, condVars, pc, callVars, pending>>
    BY DEF Enter, TryEnter, EnterLock, Own, EnterAgain, EnterFree, EnterRecursive
<1>3. CASE Entered(t) /\ holder' = holder
    BY <1>0, <1>1, <1>3, EnteredType DEF TypeOK
<1>4. CASE Locks(t) \/ EnterWait(t)
    BY <1>0, <1>1, <1>4 DEF Locks, EnterWait, Goto, TypeInv, TypeOK, Blocked
<1>5. CASE Refuse(t)
    BY <1>1, <1>5, RefuseType
<1>6. CASE UNCHANGED <<holder, monVars, condVars, pc, callVars, pending>>
    BY <1>0, <1>1, <1>6 DEF TypeInv, TypeOK, Blocked
<1> QED
    BY <1>2, <1>3, <1>4, <1>5, <1>6

LEMMA ExitTypes ==
    ASSUME TypeInv, NEW t \in Threads, EnterDone(t) \/ Exit(t) \/ ExitDone(t)
    PROVE  TypeInv'
<1>0. TypeOK /\ Blocked
    BY DEF TypeInv
<1>1. CASE EnterDone(t)
    BY <1>0, <1>1, GotoType DEF EnterDone, TypeOK
<1>2. CASE Exit(t)
    <2>1. CASE mon_owner = t
        BY <1>0, <1>2, <2>1 DEF Exit, Goto, TypeInv, TypeOK, Blocked
    <2>2. CASE mon_owner # t
        <3>1. depth[t] \in Nat /\ depth[t] > 0 /\ pc[t] = "run"
            BY <1>0, <1>2 DEF Exit, At, TypeOK
        <3>5. depth[t] - 1 \in Nat
            BY <3>1
        <3>2. depth' \in [Threads -> Nat]
            BY <1>0, <1>2, <2>2, <3>5 DEF Exit, TypeOK
        <3>3. TypeOK'
            BY <1>0, <1>2, <2>2, <3>2 DEF Exit, TypeOK
        <3>4. Blocked'
            BY <1>0, <1>2, <2>2, <3>1 DEF Exit, TypeOK, Blocked
        <3> QED
            BY <3>3, <3>4 DEF TypeInv
    <2> QED
        BY <2>1, <2>2
<1>3. CASE ExitDone(t)
    <2>1. depth[t] \in Nat /\ depth[t] > 0
        BY <1>0, <1>3 DEF ExitDone, At, TypeOK, Blocked
    <2>2. depth' \in [Threads -> Nat]
        BY <1>0, <1>3, <2>1 DEF ExitDone, TypeOK
    <2>3. mon_count' \in Int /\ holder' \in {holder, NoThread} /\ mon_owner' \in {mon_owner, NoThread}
        BY <1>0, <1>3 DEF ExitDone, TypeOK
    <2>4. pending' \in [Threads -> Exceptions \cup {NoException}]
        BY <1>0, <1>3 DEF ExitDone, TypeOK
    <2>5. pc' = [pc EXCEPT ![t] = "run"] /\ UNCHANGED <<condVars, count, called, sent, ops, history>>
        BY <1>3 DEF ExitDone, Goto
    <2>6. TypeOK'
        BY <1>0, <2>2, <2>3, <2>4, <2>5 DEF TypeOK
    <2>7. \A u \in Threads \ {t} : depth'[u] = depth[u] /\ pc'[u] = pc[u]
        BY <1>0, <1>3 DEF ExitDone, Goto, TypeOK
    <2>8. pc'[t] = "run"
        BY <1>0, <2>5 DEF TypeOK
    <2>9. Blocked'
        BY <1>0, <2>7, <2>8 DEF Blocked
    <2> QED
        BY <2>6, <2>9 DEF TypeInv
<1> QED
    BY <1>1, <1>2, <1>3

LEMMA WaitTypes ==
    ASSUME TypeInv, NEW t \in Threads,
           \/ Wait(t) \/ WaitList(t) \/ WaitRefused(t) \/ WaitSleep(t)
           \/ Awake(t) \/ Relock(t) \/ Restore(t)
    PROVE  TypeInv'
<1>0. TypeOK /\ Blocked
    BY DEF TypeInv
<1>1. CASE Wait(t)
    <2>1. ops' \in [Threads -> Nat] /\ UNCHANGED <<sent, history>>
        BY <1>0, <1>1, BeginType DEF Wait
    <2>2. CASE Refuse(t)
        BY <2>1, <2>2, RefuseType
    <2>3. CASE ~ Refuse(t)
        <3>1. /\ count' = [count EXCEPT ![t] = mon_count]
              /\ mon_owner' = NoThread /\ mon_count' = 0
              /\ pc' = [pc EXCEPT ![t] = "wait_saved"]
              /\ UNCHANGED <<holder, condVars, depth, called, pending>>
            BY <1>1, <2>3 DEF Wait, Goto
        <3>2. count' \in [Threads -> Int]
            BY <1>0, <3>1 DEF TypeOK
        <3>5. pc' \in [Threads -> Points]
            BY <1>0, <3>1 DEF TypeOK
        <3>6. /\ mon_owner' \in Threads \cup {NoThread} /\ mon_count' \in Int
              /\ UNCHANGED <<holder, waiters, list_holder, asleep, depth, called, sent,
                             pending, torn, stray>>
            BY <2>1, <3>1
        <3>3. TypeOK'
            BY <1>0, <2>1, <3>2, <3>5, <3>6 DEF TypeOK
        <3>4. Blocked'
            BY <1>0, <3>1 DEF TypeOK, Blocked
        <3> QED
            BY <3>3, <3>4 DEF TypeInv
    <2> QED
        BY <2>2, <2>3
<1>2. CASE WaitList(t)
    <2>1. /\ waiters' = Append(waiters, t)
          /\ pc' = [pc EXCEPT ![t] = "wait_listed"]
          /\ UNCHANGED <<holder, monVars, list_holder, asleep, callVars, excVars, ops,
                         history>>
        BY <1>2 DEF WithList, WaitList, Goto
    <2>2. waiters' \in Seq(Threads)
        BY <1>0, <2>1 DEF TypeOK
    <2>3. pc' \in [Threads -> Points]
        BY <1>0, <2>1 DEF TypeOK
    <2>4. TypeOK'
        BY <1>0, <2>1, <2>2, <2>3 DEF TypeOK
    <2>5. Blocked'
        BY <1>0, <2>1 DEF TypeOK, Blocked
    <2> QED
        BY <2>4, <2>5 DEF TypeInv
<1>3. CASE WaitSleep(t)
    <2>1. /\ Goto(t, "sleep") \/ Goto(t, "restore")
          /\ holder' \in {holder, NoThread} /\ asleep' \subseteq asleep \cup {t}
          /\ UNCHANGED <<monVars, waiters, list_holder, callVars, sent, ops, history>>
        BY <1>3 DEF WaitSleep
    <2>2. pending' \in [Threads -> Exceptions \cup {NoException}]
        BY <1>0, <1>3 DEF WaitSleep, TypeOK
    <2>3. asleep' \subseteq Threads /\ holder' \in Threads \cup {NoThread}
        BY <1>0, <2>1 DEF TypeOK
    <2>4. /\ sent' \in [Threads -> Exceptions \cup {NoException}]
          /\ list_holder' \in Threads \cup {NoThread}
        BY <1>0, <2>1 DEF TypeOK
    <2> QED
        BY <2>1, <2>2, <2>3, <2>4, GotoType
<1>4. CASE Awake(t)
    <2>1. /\ Goto(t, "relock")
          /\ UNCHANGED <<holder, monVars, condVars, callVars, ops, history>>
        BY <1>4 DEF Awake
    <2>2. /\ pending' \in [Threads -> Exceptions \cup {NoException}]
          /\ sent' \in [Threads -> Exceptions \cup {NoException}]
        BY <1>0, <1>4 DEF Awake, TypeOK
    <2> QED
        BY <1>0, <2>1, <2>2, GotoType DEF TypeOK
<1>5. CASE Relock(t)
    BY <1>0, <1>5, GotoType DEF Relock, TypeOK
<1>6. CASE Restore(t)
    <2>1. /\ mon_owner' = t /\ mon_count' = count[t]
          /\ pc' = [pc EXCEPT ![t] = "run"]
          /\ UNCHANGED <<holder, condVars, callVars, excVars, ops, history>>
        BY <1>6 DEF Restore, Goto
    <2>2. pc' \in [Threads -> Points] /\ count[t] \in Int
        BY <1>0, <2>1 DEF TypeOK
    <2>3. TypeOK'
        BY <1>0, <2>1, <2>2 DEF TypeOK
    <2>4. Blocked'
        BY <1>0, <2>1 DEF TypeOK, Blocked
    <2> QED
        BY <2>3, <2>4 DEF TypeInv
<1>7. CASE WaitRefused(t)
    <2>1. /\ Goto(t, "restore")
          /\ pending' = [pending EXCEPT ![t] = "raise"]
          /\ UNCHANGED <<holder, monVars, condVars, callVars, sent, ops, history>>
        BY <1>7 DEF WaitRefused
    <2>2. pending' \in [Threads -> Exceptions \cup {NoException}]
        BY <1>0, <2>1 DEF TypeOK
    <2> QED
        BY <1>0, <2>1, <2>2, GotoType DEF TypeOK
<1> QED
    BY <1>1, <1>2, <1>3, <1>4, <1>5, <1>6, <1>7

\* called and waiters may change, and pc to a point that is not in a block's
\* brackets.
LEMMA CallType ==
    ASSUME TypeInv, NEW t \in Threads, NEW s \in Seq(Threads),
           called' = [called EXCEPT ![t] = s], waiters' \in Seq(Threads),
           asleep' \subseteq asleep, ops' \in [Threads -> Nat],
           \/ UNCHANGED pc
           \/ \E p \in {"signal_lock", "signal", "broadcast_lock", "broadcast"} : Goto(t, p),
           UNCHANGED <<holder, monVars, list_holder, depth, count, excVars, history>>
    PROVE  TypeInv'
<1>0. TypeOK /\ Blocked
    BY DEF TypeInv
<1>1. called' \in [Threads -> Seq(Threads)]
    BY <1>0 DEF TypeOK
<1>2. pc' \in [Threads -> Points]
    BY <1>0 DEF TypeOK, Goto
<1>3. TypeOK'
    BY <1>0, <1>1, <1>2 DEF TypeOK
<1>4. \A u \in Threads : pc'[u] \in {"entered", "exit"} => pc[u] = pc'[u]
    BY <1>0 DEF TypeOK, Goto
<1>5. Blocked'
    BY <1>0, <1>4 DEF Blocked
<1> QED
    BY <1>3, <1>5 DEF TypeInv

LEMMA ShiftType ==
    ASSUME TypeOK, NEW t \in Threads, SignalShift(t)
    PROVE  /\ \E s \in Seq(Threads) : called' = [called EXCEPT ![t] = s]
           /\ waiters' \in Seq(Threads)
<1>1. waiters \in Seq(Threads) /\ called \in [Threads -> Seq(Threads)]
    BY DEF TypeOK
<1>2. CASE waiters # <<>>
    <2>1. Head(waiters) \in Threads /\ Tail(waiters) \in Seq(Threads)
        BY <1>1, <1>2
    <2>2. <<Head(waiters)>> \in Seq(Threads)
        BY <2>1
    <2> QED
        BY <1>2, <2>1, <2>2 DEF SignalShift
<1>3. CASE waiters = <<>>
    <2>1. called[t] \in Seq(Threads) /\ called' = [called EXCEPT ![t] = called[t]]
        BY <1>1, <1>3 DEF SignalShift
    <2> QED
        BY <1>1, <1>3, <2>1 DEF SignalShift
<1> QED
    BY <1>2, <1>3

LEMMA CallTypes ==
    ASSUME TypeInv, NEW t \in Threads,
           \/ Signal(t) \/ Broadcast(t) \/ SignalShift(t) \/ Retry(t)
           \/ BroadcastTake(t) \/ BroadcastRefused(t) \/ Run(t) \/ RunDone(t)
    PROVE  TypeInv'
<1>0. TypeOK /\ Blocked
    BY DEF TypeInv
<1>1. CASE Signal(t) \/ Broadcast(t)
    <2>1. PICK op \in Operations, p \in {"signal_lock", "broadcast_lock"} : Call(t, op, p)
        BY <1>1 DEF Signal, Broadcast, Operations
    <2>2. ops' \in [Threads -> Nat] /\ UNCHANGED <<sent, history>>
        BY <1>0, <2>1, BeginType DEF Call
    <2>3. CASE Refuse(t)
        BY <2>2, <2>3, RefuseType
    <2>4. CASE ~ Refuse(t)
        <3>1. /\ Goto(t, p)
              /\ UNCHANGED <<holder, monVars, condVars, callVars, pending>>
            BY <2>1, <2>4 DEF Call
        <3>2. called' = [called EXCEPT ![t] = called[t]] /\ called[t] \in Seq(Threads)
            BY <1>0, <3>1 DEF TypeOK
        <3>3. waiters' \in Seq(Threads)
            BY <1>0, <3>1 DEF TypeOK
        <3> QED
            BY <2>2, <3>1, <3>2, <3>3, CallType
    <2> QED
        BY <2>3, <2>4
<1>2. CASE SignalShift(t)
    <2>1. /\ Goto(t, "signal")
          /\ UNCHANGED <<holder, monVars, list_holder, asleep, depth, count, excVars, ops,
                         history>>
        BY <1>2 DEF SignalShift
    <2>2. PICK s \in Seq(Threads) : called' = [called EXCEPT ![t] = s]
        BY <1>0, <1>2, ShiftType
    <2>3. waiters' \in Seq(Threads) /\ ops' \in [Threads -> Nat]
        BY <1>0, <1>2, <2>1, ShiftType DEF TypeOK
    <2> QED
        BY <2>1, <2>2, <2>3, CallType
<1>3. CASE Retry(t) \/ BroadcastTake(t) \/ Run(t)
    <2>1. /\ asleep' \subseteq asleep
          /\ UNCHANGED pc \/ \E p \in {"signal_lock", "broadcast"} : Goto(t, p)
          /\ UNCHANGED <<holder, monVars, list_holder, depth, count, excVars, ops, history>>
        BY <1>3 DEF Retry, BroadcastTake, Run
    <2>2. /\ waiters \in Seq(Threads) /\ called[t] \in Seq(Threads)
          /\ <<>> \in Seq(Threads) /\ ops' \in [Threads -> Nat]
        BY <1>0, <2>1 DEF TypeOK
    <2>3. called[t] # <<>> => Tail(called[t]) \in Seq(Threads)
        BY <2>2
    <2>4. waiters' \in Seq(Threads)
        BY <1>3, <2>2 DEF Retry, BroadcastTake, Run
    <2>5. PICK s \in Seq(Threads) : called' = [called EXCEPT ![t] = s]
        BY <1>3, <2>2, <2>3 DEF Retry, BroadcastTake, Run
    <2> QED
        BY <2>1, <2>2, <2>4, <2>5, CallType
<1>4. CASE BroadcastRefused(t)
    <2>1. /\ Goto(t, "run")
          /\ pending' = [pending EXCEPT ![t] = "raise"]
          /\ UNCHANGED <<holder, monVars, condVars, callVars, sent, ops, history>>
        BY <1>4 DEF BroadcastRefused
    <2>2. pending' \in [Threads -> Exceptions \cup {NoException}]
        BY <1>0, <2>1 DEF TypeOK
    <2> QED
        BY <1>0, <2>1, <2>2, GotoType DEF TypeOK
<1>5. CASE RunDone(t)
    BY <1>0, <1>5, GotoType DEF RunDone, TypeOK
<1> QED
    BY <1>1, <1>2, <1>3, <1>4, <1>5

LEMMA OtherTypes ==
    ASSUME TypeInv, NEW t \in Threads,
           \/ \E u \in Threads : Interrupt(t, u) \/ Wakeup(t, u)
           \/ Swallow(t) \/ Rescue(t) \/ Finish(t)
    PROVE  TypeInv'
<1>0. TypeOK /\ Blocked
    BY DEF TypeInv
<1>1. ASSUME NEW u \in Threads, Interrupt(t, u) \/ Wakeup(t, u)
      PROVE  TypeInv'
    <2>1. ops' \in [Threads -> Nat]
        BY <1>0, <1>1, BeginType DEF Interrupt, Wakeup
    <2>2. /\ asleep' \subseteq asleep
          /\ stray' = (stray \/ u \in asleep)
          /\ UNCHANGED <<holder, monVars, waiters, list_holder, pc, callVars, pending, torn>>
        BY <1>1 DEF Interrupt, Wakeup
    <2>3. sent' \in [Threads -> Exceptions \cup {NoException}]
        BY <1>0, <1>1 DEF Interrupt, Wakeup, TypeOK
    <2>4. stray' \in BOOLEAN
        BY <2>2, Zenon
    <2>5. TypeOK'
        BY <1>0, <2>1, <2>2, <2>3, <2>4 DEF TypeOK
    <2>6. Blocked'
        BY <1>0, <2>2 DEF Blocked
    <2> QED
        BY <2>5, <2>6 DEF TypeInv
<1>2. CASE Swallow(t) \/ Rescue(t)
    <2>1. UNCHANGED <<holder, monVars, condVars, pc, callVars, ops, history>>
        BY <1>2 DEF Swallow, Rescue
    <2>2. /\ pending' \in [Threads -> Exceptions \cup {NoException}]
          /\ sent' \in [Threads -> Exceptions \cup {NoException}]
        BY <1>0, <1>2 DEF Swallow, Rescue, TypeOK
    <2>3. TypeOK'
        BY <1>0, <2>1, <2>2 DEF TypeOK
    <2>4. Blocked'
        BY <1>0, <2>1 DEF Blocked
    <2> QED
        BY <2>3, <2>4 DEF TypeInv
<1>3. CASE Finish(t)
    <2>1. holder' \in Threads \cup {NoThread} /\ list_holder' \in Threads \cup {NoThread}
        BY <1>0, <1>3 DEF Finish, TypeOK
    <2>2. /\ Goto(t, "dead")
          /\ UNCHANGED <<monVars, waiters, asleep, callVars, excVars, ops, history>>
        BY <1>3 DEF Finish
    <2> QED
        BY <1>0, <2>1, <2>2, GotoType DEF TypeOK
<1> QED
    BY <1>1, <1>2, <1>3

\* What the ways an exception can take have in common.
LEMMA ThrowEffect ==
    ASSUME NEW t \in Threads, Throw(t)
    PROVE  /\ \E p \in {"restore", "run"} : Goto(t, p)
           /\ list_holder' \in {list_holder, t}
           /\ \/ UNCHANGED depth
              \/ /\ pc[t] \in {"entered", "exit"}
                 /\ depth' = [depth EXCEPT ![t] = @ - 1]
           /\ torn => torn'
<1>1. CASE Caught(t)
    BY <1>1 DEF Caught
<1>2. CASE Left(t)
    BY <1>2 DEF Left
<1>3. CASE LeftLocked(t)
    BY <1>3 DEF LeftLocked
<1> QED
    BY <1>1, <1>2, <1>3 DEF Throw

LEMMA ThrowTypes ==
    ASSUME TypeInv, NEW t \in Threads, Throw(t)
    PROVE  TypeInv'
<1>0. TypeOK /\ Blocked
    BY DEF TypeInv
<1>1. called' \in [Threads -> Seq(Threads)]
    <2>1. <<>> \in Seq(Threads)
        OBVIOUS
    <2> QED
        BY <1>0, <2>1 DEF Throw, TypeOK
<1>2. depth' \in [Threads -> Nat]
    <2>1. CASE UNCHANGED depth
        BY <1>0, <2>1 DEF TypeOK
    <2>2. CASE pc[t] \in {"entered", "exit"} /\ depth' = [depth EXCEPT ![t] = @ - 1]
        <3>1. depth[t] \in Nat /\ depth[t] > 0
            BY <1>0, <2>2 DEF TypeOK, Blocked
        <3>2. depth[t] - 1 \in Nat
            BY <3>1
        <3> QED
            BY <1>0, <2>2, <3>2 DEF TypeOK
    <2> QED
        BY <2>1, <2>2, ThrowEffect
<1>3. /\ pending' \in [Threads -> Exceptions \cup {NoException}]
      /\ sent' \in [Threads -> Exceptions \cup {NoException}]
    BY <1>0 DEF Throw, TypeOK
<1>4. PICK p \in {"restore", "run"} : Goto(t, p)
    BY ThrowEffect
<1>5. pc' \in [Threads -> Points] /\ list_holder' \in Threads \cup {NoThread}
    BY <1>0, <1>4, ThrowEffect DEF Goto, TypeOK
<1>6. torn' \in BOOLEAN /\ stray' \in BOOLEAN
    <2>1. stray' \in BOOLEAN
        BY Zenon DEF Throw
    <2>2. Caught(t) => torn' \in BOOLEAN
        BY Zenon DEF Caught
    <2>3. Left(t) => torn' \in BOOLEAN
        BY Zenon DEF Left
    <2>4. LeftLocked(t) => torn' \in BOOLEAN
        BY DEF LeftLocked
    <2> QED
        BY <2>1, <2>2, <2>3, <2>4 DEF Throw
<1>7. UNCHANGED <<holder, monVars, waiters, asleep, count, ops>>
    BY DEF Throw
<1>8. TypeOK'
    BY <1>0, <1>1, <1>2, <1>3, <1>5, <1>6, <1>7 DEF TypeOK
<1>9. \A u \in Threads \ {t} : pc'[u] = pc[u] /\ depth'[u] = depth[u]
    BY <1>0, <1>4, ThrowEffect DEF Goto, TypeOK
<1>10. pc'[t] \in {"restore", "run"}
    BY <1>0, <1>4 DEF Goto, TypeOK
<1>11. Blocked'
    BY <1>0, <1>9, <1>10 DEF Blocked
<1> QED
    BY <1>8, <1>11 DEF TypeInv

LEMMA NextType == TypeInv /\ [Next]_vars => TypeInv'
<1> SUFFICES ASSUME TypeInv, [Next]_vars PROVE TypeInv'
    OBVIOUS
<1>1. ASSUME NEW t \in Threads, Step(t)
      PROVE  TypeInv'
    BY <1>1, EnterTypes, ExitTypes, WaitTypes, CallTypes, OtherTypes, ThrowTypes
       DEF Step, Progress
<1>2. CASE UNCHANGED vars
    BY <1>2 DEF vars, TypeInv, TypeOK, Blocked
<1> QED
    BY <1>1, <1>2 DEF Next

\* Every reachable state is well typed, and nobody leaves a block that it is
\* not in, whatever exception comes in mon_enter or mon_exit.
THEOREM TypeCorrect == Spec => []TypeOK
<1>1. Spec => []TypeInv
    BY InitType, NextType, PTL DEF Spec
<1>2. TypeInv => TypeOK
    BY DEF TypeInv
<1> QED
    BY <1>1, <1>2, PTL

-----------------------------------------------------------------------------
(***************************************************************************)
(* The monitor.  The mutex is the thread's that is inside or about to give *)
(* the monitor up or to take it back (Exclusive), the owner and the count  *)
(* are those of the thread inside (Counted, Unowned), a wait keeps the     *)
(* count that it restores (Saved), and a thread that takes the mutex to    *)
(* enter or is dead is in no block (Outside).  @waiters_mutex has not been *)
(* left locked (ListFree).                                                 *)
(***************************************************************************)
HasMutex(t) == Inside(t) \/ pc[t] \in HandoverPoints

Exclusive == \A t \in Threads : HasMutex(t) <=> holder = t
Counted ==
    \A t \in Threads :
        Inside(t) => mon_owner = t /\ mon_count = depth[t] /\ depth[t] > 0
Unowned == IF mon_owner = NoThread THEN mon_count = 0 ELSE Inside(mon_owner)
Saved ==
    \A t \in Threads : pc[t] \in WaitPoints => count[t] = depth[t] /\ depth[t] > 0
Outside ==
    \A t \in Threads : pc[t] \in {"enter_lock", "enter_locked", "dead"} => depth[t] = 0

Kept == Exclusive /\ Counted /\ Unowned /\ Saved /\ Outside
ListFree == list_holder = NoThread

LEMMA InitKept == Init => Kept /\ ListFree
BY ThreadsAssumption
   DEF Init, ListFree, Kept, Exclusive, Counted, Unowned, Saved, Outside, HasMutex, Inside

LEMMA SameKept ==
    ASSUME Kept, UNCHANGED <<holder, mon_owner, mon_count, pc, depth, count>>
    PROVE  Kept'
BY DEF Kept, Exclusive, Counted, Unowned, Saved, Outside, HasMutex, Inside

\* Only pc changes, and the thread stays inside, in the hand-over or outside.
LEMMA MoveKept ==
    ASSUME TypeInv, Kept, NEW t \in Threads, NEW p \in Points, Goto(t, p),
           UNCHANGED <<holder, mon_owner, mon_count, depth, count>>,
           (p \in OwnerPoints \/ (p = "run" /\ depth[t] > 0)) <=> Inside(t),
           p \in HandoverPoints <=> pc[t] \in HandoverPoints,
           p \in WaitPoints => pc[t] \in WaitPoints,
           p \in {"enter_lock", "enter_locked", "dead"} => depth[t] = 0
    PROVE  Kept'
<1>1. pc'[t] = p /\ \A u \in Threads \ {t} : pc'[u] = pc[u]
    BY DEF Goto, TypeInv, TypeOK
<1>2. \A u \in Threads : Inside(u)' <=> Inside(u)
    BY <1>1 DEF Inside
<1>3. \A u \in Threads : pc'[u] \in HandoverPoints <=> pc[u] \in HandoverPoints
    BY <1>1
<1>4. \A u \in Threads : HasMutex(u)' <=> HasMutex(u)
    BY <1>2, <1>3 DEF HasMutex
<1>5. Exclusive'
    BY <1>4 DEF Kept, Exclusive
<1>6. Counted'
    BY <1>2 DEF Kept, Counted
<1>7. Unowned'
    BY <1>2 DEF Kept, Unowned, TypeInv, TypeOK
<1>8. Saved'
    BY <1>1 DEF Kept, Saved
<1>9. Outside'
    BY <1>1 DEF Kept, Outside
<1> QED
    BY <1>5, <1>6, <1>7, <1>8, <1>9 DEF Kept

\* At most the owner is inside.
LEMMA OneInside ==
    ASSUME Kept, NEW t \in Threads, holder = t \/ holder = NoThread,
           NEW u \in Threads \ {t}
    PROVE  ~ HasMutex(u) /\ ~ Inside(u) /\ pc[u] \notin HandoverPoints
BY ThreadsAssumption DEF Kept, Exclusive, HasMutex

LEMMA EnteredKept ==
    ASSUME TypeInv, Kept, NEW t \in Threads, Entered(t), holder' = holder,
           (pc[t] = "run" /\ mon_owner = t) \/ pc[t] = "enter_locked"
    PROVE  Kept'
<1>0. TypeOK
    BY DEF TypeInv
<1>1. /\ pc'[t] = "entered" /\ mon_owner' = t /\ mon_count' = mon_count + 1
      /\ \A u \in Threads \ {t} : pc'[u] = pc[u] /\ depth'[u] = depth[u]
      /\ count' = count
    BY <1>0 DEF Entered, Goto, TypeOK
<1>2. depth'[t] = depth[t] + 1 /\ depth[t] \in Nat
    BY <1>0 DEF Entered, TypeOK
<1>3. holder = t /\ mon_count = depth[t]
    <2>1. CASE pc[t] = "run" /\ mon_owner = t
        <3>1. Inside(t)
            BY <2>1, ThreadsAssumption DEF Kept, Unowned
        <3> QED
            BY <3>1 DEF Kept, Counted, Exclusive, HasMutex
    <2>2. CASE pc[t] = "enter_locked"
        <3>1. holder = t /\ ~ Inside(t) /\ depth[t] = 0
            BY <2>2 DEF Kept, Exclusive, HasMutex, Inside, Outside
        <3>2. \A u \in Threads : ~ Inside(u)
            BY <3>1, OneInside
        <3> QED
            BY <1>0, <3>1, <3>2 DEF Kept, Unowned, TypeOK
    <2> QED
        BY <2>1, <2>2
<1>4. \A u \in Threads \ {t} : ~ Inside(u) /\ pc[u] \notin HandoverPoints
    BY <1>3, OneInside
<1>5. \A u \in Threads \ {t} : ~ Inside(u)' /\ pc'[u] \notin HandoverPoints
    BY <1>1, <1>4 DEF Inside
<1>6. Inside(t)' /\ HasMutex(t)'
    BY <1>1 DEF Inside, HasMutex
<1>7. Exclusive'
    BY <1>3, <1>5, <1>6 DEF Exclusive, HasMutex
<1>8. Counted'
    BY <1>1, <1>2, <1>3, <1>5 DEF Counted
<1>9. Unowned'
    BY <1>1, <1>6, ThreadsAssumption DEF Unowned
<1>10. Saved'
    BY <1>1 DEF Kept, Saved
<1>11. Outside'
    BY <1>1 DEF Kept, Outside
<1> QED
    BY <1>7, <1>8, <1>9, <1>10, <1>11 DEF Kept

\* Who locks a free mutex to enter is in no block, and the monitor is nobody's.
LEMMA LocksKept ==
    ASSUME TypeInv, Kept, NEW t \in Threads, Locks(t), pc[t] \in {"run", "enter_lock"}
    PROVE  Kept'
<1>0. TypeOK
    BY DEF TypeInv
<1>1. /\ pc'[t] = "enter_locked" /\ holder = NoThread /\ holder' = t
      /\ \A u \in Threads \ {t} : pc'[u] = pc[u]
      /\ UNCHANGED <<mon_owner, mon_count, depth, count>>
    BY <1>0 DEF Locks, Goto, TypeOK
<1>2. \A u \in Threads : ~ HasMutex(u) /\ ~ Inside(u) /\ pc[u] \notin HandoverPoints
    BY <1>1, ThreadsAssumption DEF Kept, Exclusive, HasMutex
<1>3. \A u \in Threads : ~ Inside(u)'
    BY <1>1, <1>2 DEF Inside
<1>4. mon_owner = NoThread /\ depth[t] = 0
    BY <1>0, <1>2 DEF Kept, Unowned, Outside, Inside, TypeOK
<1>5. Exclusive'
    BY <1>1, <1>2, <1>3 DEF Exclusive, HasMutex
<1>6. Counted'
    BY <1>3 DEF Counted
<1>7. Unowned'
    BY <1>1, <1>4 DEF Kept, Unowned
<1>8. Saved'
    BY <1>1 DEF Kept, Saved
<1>9. Outside'
    BY <1>1, <1>4 DEF Kept, Outside
<1> QED
    BY <1>5, <1>6, <1>7, <1>8, <1>9 DEF Kept

LEMMA ExitKept ==
    ASSUME TypeInv, Kept, NEW t \in Threads, ExitDone(t)
    PROVE  Kept'
<1>0. TypeOK /\ Blocked
    BY DEF TypeInv
<1>1. /\ pc[t] = "exit" /\ pc'[t] = "run" /\ mon_count' = mon_count - 1
      /\ \A u \in Threads \ {t} : pc'[u] = pc[u] /\ depth'[u] = depth[u]
      /\ count' = count
    BY <1>0 DEF ExitDone, At, Goto, TypeOK
<1>2. depth'[t] = depth[t] - 1 /\ depth[t] \in Nat
    BY <1>0 DEF ExitDone, TypeOK
<1>3. Inside(t) /\ HasMutex(t)
    BY <1>1 DEF Inside, HasMutex
<1>4. holder = t /\ mon_owner = t /\ mon_count = depth[t] /\ depth[t] > 0
    BY <1>3 DEF Kept, Exclusive, Counted
<1>5. /\ mon_owner' = IF depth[t] = 1 THEN NoThread ELSE t
      /\ holder' = IF depth[t] = 1 THEN NoThread ELSE t
    BY <1>4 DEF ExitDone
<1>6. \A u \in Threads \ {t} : ~ Inside(u)' /\ pc'[u] \notin HandoverPoints
    BY <1>1, <1>4, OneInside DEF Inside
<1>7. Inside(t)' <=> depth[t] # 1
    BY <1>1, <1>2, <1>4 DEF Inside
<1>8. HasMutex(t)' <=> holder' = t
    BY <1>1, <1>5, <1>7, ThreadsAssumption DEF HasMutex
<1>9. Exclusive'
    BY <1>5, <1>6, <1>8, ThreadsAssumption DEF Exclusive, HasMutex
<1>10. Counted'
    BY <1>1, <1>2, <1>4, <1>5, <1>6, <1>7 DEF Counted
<1>11. Unowned'
    BY <1>1, <1>2, <1>4, <1>5, <1>7, ThreadsAssumption DEF Unowned
<1>12. Saved'
    BY <1>1 DEF Kept, Saved
<1>13. Outside'
    BY <1>1 DEF Kept, Outside
<1> QED
    BY <1>9, <1>10, <1>11, <1>12, <1>13 DEF Kept

LEMMA WaitKept ==
    ASSUME TypeInv, Kept, NEW t \in Threads, Wait(t)
    PROVE  Kept'
<1>0. TypeOK
    BY DEF TypeInv
<1>1. CASE Refuse(t)
    BY <1>1, SameKept DEF Refuse
<1>2. CASE ~ Refuse(t)
    <2>1. /\ mon_owner = t /\ mon_owner' = NoThread /\ mon_count' = 0
          /\ pc'[t] = "wait_saved" /\ count'[t] = mon_count
          /\ \A u \in Threads \ {t} : pc'[u] = pc[u] /\ count'[u] = count[u]
          /\ UNCHANGED <<holder, depth>>
        BY <1>0, <1>2 DEF Wait, Goto, TypeOK
    <2>2. Inside(t)
        BY <2>1, ThreadsAssumption DEF Kept, Unowned
    <2>3. mon_count = depth[t] /\ depth[t] > 0
        BY <2>2 DEF Kept, Counted
    <2>4. holder = t
        BY <2>2 DEF Kept, Exclusive, HasMutex
    <2>5. \A u \in Threads \ {t} : ~ Inside(u)' /\ pc'[u] \notin HandoverPoints
        BY <2>1, <2>4, OneInside DEF Inside
    <2>6. ~ Inside(t)' /\ HasMutex(t)'
        BY <2>1 DEF Inside, HasMutex
    <2>7. Exclusive'
        BY <2>1, <2>4, <2>5, <2>6 DEF Exclusive, HasMutex
    <2>8. Counted'
        BY <2>5, <2>6 DEF Counted
    <2>9. Unowned'
        BY <2>1 DEF Unowned
    <2>10. Saved'
        BY <2>1, <2>3 DEF Kept, Saved
    <2>11. Outside'
        BY <2>1 DEF Kept, Outside
    <2> QED
        BY <2>7, <2>8, <2>9, <2>10, <2>11 DEF Kept
<1> QED
    BY <1>1, <1>2

\* The mutex is given back for the sleep, and taken again after it, with the
\* monitor nobody's.
LEMMA SleepKept ==
    ASSUME TypeInv, Kept, NEW t \in Threads, WaitSleep(t)
    PROVE  Kept'
<1>0. TypeOK
    BY DEF TypeInv
<1>1. pc[t] = "wait_listed"
    BY DEF WaitSleep, At
<1>2. holder = t /\ HasMutex(t)
    BY <1>1 DEF Kept, Exclusive, HasMutex
<1>3. /\ holder' = NoThread /\ pc'[t] = "sleep"
      /\ \A u \in Threads \ {t} : pc'[u] = pc[u]
      /\ UNCHANGED <<mon_owner, mon_count, depth, count>>
    BY <1>0, <1>2 DEF WaitSleep, Goto, TypeOK
<1>4. \A u \in Threads \ {t} : ~ Inside(u)' /\ pc'[u] \notin HandoverPoints
    BY <1>2, <1>3, OneInside DEF Inside
<1>5. ~ Inside(t) /\ ~ Inside(t)' /\ ~ HasMutex(t)'
    BY <1>1, <1>3 DEF Inside, HasMutex
<1>6. mon_owner = NoThread
    BY <1>0, <1>2, <1>5, OneInside DEF Kept, Unowned, TypeOK
<1>7. Exclusive'
    BY <1>3, <1>4, <1>5, ThreadsAssumption DEF Exclusive, HasMutex
<1>8. Counted'
    BY <1>4, <1>5 DEF Counted
<1>9. Unowned'
    BY <1>3, <1>6 DEF Kept, Unowned
<1>10. Saved'
    BY <1>1, <1>3 DEF Kept, Saved
<1>11. Outside'
    BY <1>3 DEF Kept, Outside
<1> QED
    BY <1>7, <1>8, <1>9, <1>10, <1>11 DEF Kept

LEMMA RelockKept ==
    ASSUME TypeInv, Kept, NEW t \in Threads, Relock(t)
    PROVE  Kept'
<1>0. TypeOK
    BY DEF TypeInv
<1>1. /\ pc[t] = "relock" /\ pc'[t] = "restore" /\ holder = NoThread /\ holder' = t
      /\ \A u \in Threads \ {t} : pc'[u] = pc[u]
      /\ UNCHANGED <<mon_owner, mon_count, depth, count>>
    BY <1>0 DEF Relock, Goto, TypeOK
<1>2. \A u \in Threads : ~ HasMutex(u) /\ ~ Inside(u) /\ pc[u] \notin HandoverPoints
    BY <1>1, ThreadsAssumption DEF Kept, Exclusive, HasMutex
<1>3. \A u \in Threads : ~ Inside(u)'
    BY <1>1, <1>2 DEF Inside
<1>4. mon_owner = NoThread
    BY <1>0, <1>2 DEF Kept, Unowned, TypeOK
<1>5. Exclusive'
    BY <1>1, <1>2, <1>3 DEF Exclusive, HasMutex
<1>6. Counted'
    BY <1>3 DEF Counted
<1>7. Unowned'
    BY <1>1, <1>4 DEF Kept, Unowned
<1>8. Saved'
    BY <1>1 DEF Kept, Saved
<1>9. Outside'
    BY <1>1 DEF Kept, Outside
<1> QED
    BY <1>5, <1>6, <1>7, <1>8, <1>9 DEF Kept

LEMMA RestoreKept ==
    ASSUME TypeInv, Kept, NEW t \in Threads, Restore(t)
    PROVE  Kept'
<1>0. TypeOK
    BY DEF TypeInv
<1>1. /\ pc[t] = "restore" /\ pc'[t] = "run" /\ mon_owner' = t /\ mon_count' = count[t]
      /\ \A u \in Threads \ {t} : pc'[u] = pc[u]
      /\ UNCHANGED <<holder, depth, count>>
    BY <1>0 DEF Restore, At, Goto, TypeOK
<1>2. holder = t
    BY <1>1 DEF Kept, Exclusive, HasMutex
<1>3. count[t] = depth[t] /\ depth[t] > 0
    BY <1>1 DEF Kept, Saved
<1>4. \A u \in Threads \ {t} : ~ Inside(u)' /\ pc'[u] \notin HandoverPoints
    BY <1>1, <1>2, OneInside DEF Inside
<1>5. Inside(t)' /\ HasMutex(t)'
    BY <1>1, <1>3 DEF Inside, HasMutex
<1>6. Exclusive'
    BY <1>1, <1>2, <1>4, <1>5 DEF Exclusive, HasMutex
<1>7. Counted'
    BY <1>1, <1>3, <1>4 DEF Counted
<1>8. Unowned'
    BY <1>1, <1>5, ThreadsAssumption DEF Unowned
<1>9. Saved'
    BY <1>1 DEF Kept, Saved
<1>10. Outside'
    BY <1>1 DEF Kept, Outside
<1> QED
    BY <1>6, <1>7, <1>8, <1>9, <1>10 DEF Kept

\* An exception that does not tear.
LEMMA ThrowKept ==
    ASSUME TypeInv, Kept, NEW t \in Threads, Throw(t), ~ torn'
    PROVE  Kept'
<1>0. TypeOK /\ pc[t] \in Points
    BY DEF TypeInv, TypeOK
<1>1. UNCHANGED <<holder, mon_owner, mon_count, count>> /\ pc[t] \notin {"sleep", "dead"}
    BY DEF Throw
<1>2. CASE Caught(t)
    <2>1. /\ Goto(t, "restore") /\ UNCHANGED depth
          /\ pc[t] \in HandoverPoints \cap WaitPoints
        BY <1>1, <1>2 DEF Caught
    <2>2. ~ Inside(t)
        BY <2>1 DEF Inside
    <2> QED
        BY <1>1, <2>1, <2>2, MoveKept
<1>3. CASE Left(t)
    <2>1. /\ pc[t] \in {"run", "enter_lock", "signal_lock", "signal", "broadcast_lock",
                        "broadcast"}
          /\ Goto(t, "run") /\ UNCHANGED depth
        BY <1>0, <1>1, <1>3 DEF Left, Tears
    <2>2. depth[t] > 0 <=> Inside(t)
        <3>1. CASE pc[t] = "run"
            BY <3>1 DEF Inside
        <3>2. CASE pc[t] = "enter_lock"
            BY <3>2 DEF Inside, Kept, Outside
        <3>3. CASE pc[t] \in OwnerPoints
            BY <3>3 DEF Inside, Kept, Counted
        <3> QED
            BY <2>1, <3>1, <3>2, <3>3
    <2> QED
        BY <1>1, <2>1, <2>2, MoveKept
<1> QED
    BY <1>2, <1>3 DEF Throw, LeftLocked

LEMMA EnterKept ==
    ASSUME TypeInv, Kept, NEW t \in Threads,
           Enter(t) \/ TryEnter(t) \/ EnterLock(t) \/ Own(t)
    PROVE  Kept'
<1>1. CASE EnterWait(t) /\ pc[t] = "run"
    <2>1. ~ Inside(t)
        BY <1>1 DEF EnterWait, Kept, Exclusive, HasMutex
    <2>2. depth[t] = 0
        BY <1>1, <2>1 DEF Inside, TypeInv, TypeOK
    <2> QED
        BY <1>1, <2>1, <2>2, MoveKept DEF EnterWait
<1>2. CASE Refuse(t) \/ UNCHANGED <<holder, monVars, pc, callVars>>
    BY <1>2, SameKept DEF Refuse
<1>3. CASE EnterAgain(t) /\ pc[t] = "run"
    BY <1>3, EnteredKept DEF EnterAgain
<1>4. CASE EnterFree(t) /\ pc[t] = "run"
    BY <1>4, LocksKept DEF EnterFree
<1>5. CASE EnterLock(t)
    BY <1>5, LocksKept DEF EnterLock
<1>6. CASE Own(t)
    BY <1>6, EnteredKept DEF Own, At
<1> QED
    BY <1>1, <1>2, <1>3, <1>4, <1>5, <1>6
       DEF Enter, TryEnter, EnterRecursive, Begin, At

\* Steps of a method that stay inside the monitor.
LEMMA InsideKept ==
    ASSUME TypeInv, Kept, ListFree, NEW t \in Threads,
           \/ EnterDone(t) \/ Signal(t) \/ Broadcast(t) \/ SignalShift(t) \/ Retry(t)
           \/ BroadcastTake(t) \/ BroadcastRefused(t) \/ Run(t) \/ RunDone(t)
    PROVE  Kept'
<1>1. CASE Refuse(t)
    BY <1>1, SameKept DEF Refuse
<1>2. CASE Run(t)
    BY <1>2, SameKept DEF Run
<1>3. CASE (Signal(t) \/ Broadcast(t)) /\ ~ Refuse(t)
    <2>1. PICK p \in OwnerPoints : mon_owner = t /\ Goto(t, p)
        BY <1>3 DEF Signal, Broadcast, Call
    <2>2. UNCHANGED <<holder, mon_owner, mon_count, depth, count>>
        BY <1>3 DEF Signal, Broadcast, Call
    <2>3. Inside(t)
        BY <2>1, ThreadsAssumption DEF Kept, Unowned
    <2>4. pc[t] \notin HandoverPoints
        BY <2>3 DEF Inside
    <2> QED
        BY <2>1, <2>2, <2>3, <2>4, MoveKept
<1>4. CASE EnterDone(t) \/ SignalShift(t) \/ Retry(t) \/ BroadcastTake(t) \/ RunDone(t)
    <2>1. /\ pc[t] \in OwnerPoints
          /\ UNCHANGED <<holder, mon_owner, mon_count, depth, count>>
        BY <1>4 DEF EnterDone, WithList, SignalShift, Retry, BroadcastTake, RunDone, At
    <2>2. PICK p \in OwnerPoints \cup {"run"} : Goto(t, p)
        BY <1>4 DEF EnterDone, SignalShift, Retry, BroadcastTake, RunDone
    <2>3. Inside(t) /\ depth[t] > 0
        BY <2>1 DEF Inside, Kept, Counted
    <2> QED
        BY <2>1, <2>2, <2>3, MoveKept
<1>5. ~ BroadcastRefused(t)
    BY ThreadsAssumption DEF BroadcastRefused, ListFree
<1> QED
    BY <1>1, <1>2, <1>3, <1>4, <1>5

LEMMA StepKept ==
    ASSUME TypeInv, Kept, ListFree, NEW t \in Threads, Step(t), ~ torn'
    PROVE  Kept'
<1>1. CASE Enter(t) \/ TryEnter(t) \/ EnterLock(t) \/ Own(t)
    BY <1>1, EnterKept
<1>2. CASE \/ EnterDone(t) \/ Signal(t) \/ Broadcast(t) \/ SignalShift(t) \/ Retry(t)
           \/ BroadcastTake(t) \/ BroadcastRefused(t) \/ Run(t) \/ RunDone(t)
    BY <1>2, InsideKept
<1>3. CASE Exit(t)
    <2>1. Inside(t) /\ pc[t] = "run"
        BY <1>3 DEF Exit, At, Inside
    <2>2. mon_owner = t
        BY <2>1 DEF Kept, Counted
    <2> QED
        BY <1>3, <2>1, <2>2, MoveKept DEF Exit
<1>4. CASE ExitDone(t) \/ Wait(t) \/ WaitSleep(t) \/ Relock(t) \/ Restore(t)
    BY <1>4, ExitKept, WaitKept, SleepKept, RelockKept, RestoreKept
<1>5. CASE WaitList(t) \/ WaitRefused(t)
    <2>1. pc[t] = "wait_saved" /\ ~ Inside(t) /\ WaitList(t)
        BY <1>5, ThreadsAssumption
           DEF WithList, WaitList, WaitRefused, ListFree, At, Inside
    <2> QED
        BY <2>1, MoveKept DEF WaitList
<1>6. CASE Awake(t)
    <2>1. pc[t] = "sleep" /\ ~ Inside(t)
        BY <1>6 DEF Awake, Inside
    <2> QED
        BY <1>6, <2>1, MoveKept DEF Awake
<1>7. CASE Swallow(t) \/ Rescue(t) \/ \E u \in Threads : Interrupt(t, u) \/ Wakeup(t, u)
    BY <1>7, SameKept DEF Swallow, Rescue, Interrupt, Wakeup
<1>8. CASE Finish(t)
    <2>1. pc[t] = "run" /\ depth[t] = 0 /\ ~ Inside(t)
        BY <1>8 DEF Finish, At, Inside
    <2>2. holder # t
        BY <2>1 DEF Kept, Exclusive, HasMutex
    <2> QED
        BY <1>8, <2>1, <2>2, MoveKept DEF Finish
<1>9. CASE Throw(t)
    BY <1>9, ThrowKept
<1> QED
    BY <1>1, <1>2, <1>3, <1>4, <1>5, <1>6, <1>7, <1>8, <1>9 DEF Step, Progress

\* Only an exception that tears leaves @waiters_mutex locked.
LEMMA StepFree ==
    ASSUME ListFree, NEW t \in Threads, Step(t), ~ torn'
    PROVE  ListFree'
<1>1. CASE Throw(t)
    BY <1>1 DEF ListFree, Throw, Caught, Left, LeftLocked
<1>2. CASE ~ Throw(t)
    BY <1>2, ThreadsAssumption
       DEF ListFree, Step, Progress, Enter, TryEnter, EnterLock, Own, EnterAgain, EnterFree,
       EnterWait, EnterRecursive, Entered, Locks, Refuse, EnterDone, Exit, ExitDone, Wait,
       WaitList, WaitRefused, WaitSleep, Awake, Relock, Restore, Signal, Broadcast, Call,
       SignalShift, Retry, BroadcastTake, BroadcastRefused, Run, RunDone, Interrupt,
       Wakeup, Swallow, Rescue, Finish
<1> QED
    BY <1>1, <1>2

\* Nothing mends what an exception has torn.
LEMMA TornStays ==
    ASSUME torn, [Next]_vars
    PROVE  torn'
<1>1. ASSUME NEW t \in Threads, Throw(t)
      PROVE  torn'
    BY <1>1, ThrowEffect
<1>2. ASSUME NEW t \in Threads, Step(t), ~ Throw(t)
      PROVE  torn'
    BY <1>2 DEF Step, Progress, Enter, TryEnter, EnterLock, Own, EnterDone, Exit, ExitDone,
       Wait, WaitList, WaitRefused, WaitSleep, Awake, Relock, Restore, Signal, Broadcast,
       Call, SignalShift, Retry, BroadcastTake, BroadcastRefused, Run, RunDone, Interrupt,
       Wakeup, Swallow, Rescue, Finish
<1>3. CASE UNCHANGED vars
    BY <1>3 DEF vars
<1> QED
    BY <1>1, <1>2, <1>3 DEF Next

MonitorInv == TypeInv /\ (~ torn => Kept /\ ListFree)

LEMMA NextKept == MonitorInv /\ [Next]_vars => MonitorInv'
<1> SUFFICES ASSUME MonitorInv, [Next]_vars PROVE MonitorInv'
    OBVIOUS
<1>1. TypeInv /\ TypeInv'
    BY NextType DEF MonitorInv
<1>2. ASSUME ~ torn' PROVE Kept' /\ ListFree'
    <2>1. ~ torn
        BY <1>2, TornStays
    <2>2. Kept /\ ListFree
        BY <2>1 DEF MonitorInv
    <2>3. CASE UNCHANGED vars
        BY <2>2, <2>3, SameKept DEF vars, ListFree
    <2>4. ASSUME NEW t \in Threads, Step(t) PROVE Kept' /\ ListFree'
        BY <1>1, <1>2, <2>2, <2>4, StepKept, StepFree
    <2> QED
        BY <2>3, <2>4 DEF Next
<1> QED
    BY <1>1, <1>2 DEF MonitorInv

LEMMA MonitorInvariant == Spec => []MonitorInv
<1>1. Init => MonitorInv
    BY InitType, InitKept DEF MonitorInv
<1> QED
    BY <1>1, NextKept, PTL DEF Spec

\* A thread in a synchronize block has the mutex and its own count, whatever
\* exceptions have ended its waits.
THEOREM OwnerIsInside == Spec => []OwnerInside
<1>1. MonitorInv => OwnerInside
    BY DEF MonitorInv, OwnerInside, Kept, Exclusive, Counted, HasMutex
<1> QED
    BY <1>1, MonitorInvariant, PTL

\* No exception makes a thread leave its blocks with the mutex, or leaves an
\* owner or a count behind for the next one.
THEOREM BlocksLeave == Spec => []BlockLeaves
<1>1. ASSUME TypeInv, Kept
      PROVE  /\ \A t \in Threads : holder = t /\ pc[t] # "enter_locked" =>
                                      depth[t] > 0 /\ pc[t] # "dead"
             /\ holder = NoThread => mon_owner = NoThread /\ mon_count = 0
    <2>1. TypeOK
        BY <1>1 DEF TypeInv
    <2>2. ASSUME NEW t \in Threads, holder = t, pc[t] # "enter_locked"
          PROVE  depth[t] > 0 /\ pc[t] # "dead"
        BY <1>1, <2>2 DEF Kept, Exclusive, HasMutex, Inside, Counted, Saved
    <2>3. ASSUME holder = NoThread PROVE mon_owner = NoThread /\ mon_count = 0
        <3>1. \A t \in Threads : ~ Inside(t)
            BY <1>1, <2>3, ThreadsAssumption DEF Kept, Exclusive, HasMutex
        <3> QED
            BY <1>1, <2>1, <3>1 DEF Kept, Unowned, TypeOK
    <2> QED
        BY <2>2, <2>3
<1>2. MonitorInv => BlockLeaves
    BY <1>1 DEF MonitorInv, BlockLeaves
<1> QED
    BY <1>2, MonitorInvariant, PTL

\* As long as nothing has been torn, one thread is inside at a time.
THEOREM OneThreadInside == Spec => [](~ torn => MutualExclusion)
<1>1. MonitorInv => (~ torn => MutualExclusion)
    BY DEF MonitorInv, Kept, Exclusive, HasMutex, MutualExclusion
<1> QED
    BY <1>1, MonitorInvariant, PTL

-----------------------------------------------------------------------------
(***************************************************************************)
(* The list of the condition variable.  Only a thread in signal or         *)
(* broadcast has threads to run (Callers), one in signal a single one      *)
(* (Single), so that a retry forgets nobody but the dead thread, who does  *)
(* not sleep (Sleeping).  Between its entry in the list and its sleep a    *)
(* waiter still has the mutex: nobody inside can take it off (Announced).  *)
(***************************************************************************)
Callers == \A t \in Threads : called[t] # <<>> => pc[t] \in {"signal", "broadcast"}
Single ==
    \A t \in Threads : pc[t] = "signal" /\ called[t] # <<>> => Tail(called[t]) = <<>>
Sleeping == \A t \in asleep : pc[t] = "sleep"
CallInv == Callers /\ Single /\ Sleeping

Found(t) == t \in ToSet(waiters) \/ \E u \in Threads : t \in ToSet(called[u])
Announced == \A t \in Threads : pc[t] = "wait_listed" => t \in ToSet(waiters)
Listed == Announced /\ \A t \in asleep : Found(t)

LEMMA ToSetAppend ==
    ASSUME NEW q \in Seq(Threads), NEW t \in Threads
    PROVE  ToSet(q) \cup {t} \subseteq ToSet(Append(q, t))
<1>1. /\ DOMAIN Append(q, t) = 1..(Len(q) + 1)
      /\ \A i \in 1..Len(q) : Append(q, t)[i] = q[i]
      /\ Append(q, t)[Len(q) + 1] = t
      /\ DOMAIN q = 1..Len(q) /\ Len(q) \in Nat
    OBVIOUS
<1>2. ToSet(q) \subseteq ToSet(Append(q, t))
    BY <1>1 DEF ToSet
<1>3. t \in ToSet(Append(q, t))
    BY <1>1 DEF ToSet
<1> QED
    BY <1>2, <1>3

LEMMA ToSetTail ==
    ASSUME NEW q \in Seq(Threads), q # <<>>
    PROVE  ToSet(q) \subseteq {Head(q)} \cup ToSet(Tail(q))
<1>1. /\ DOMAIN q = 1..Len(q) /\ Len(q) \in Nat \ {0}
      /\ DOMAIN Tail(q) = 1..(Len(q) - 1)
      /\ \A i \in 1..(Len(q) - 1) : Tail(q)[i] = q[i + 1]
      /\ Head(q) = q[1]
    OBVIOUS
<1>2. SUFFICES ASSUME NEW i \in 1..Len(q), q[i] # q[1]
               PROVE  q[i] \in ToSet(Tail(q))
    BY <1>1 DEF ToSet
<1>3. i - 1 \in 1..(Len(q) - 1) /\ Tail(q)[i - 1] = q[i]
    BY <1>1, <1>2
<1> QED
    BY <1>1, <1>3 DEF ToSet

LEMMA ToSetOne == ASSUME NEW t \in Threads PROVE ToSet(<<t>>) = {t}
BY DEF ToSet

\* What most steps do: the thread moves on, and takes nobody off or on.
Quiet(t, p) ==
    /\ pc' = [pc EXCEPT ![t] = p]
    /\ UNCHANGED <<waiters, called>>
    /\ asleep' \subseteq asleep
    /\ p \in {"signal", "wait_listed"} => pc[t] = p
    /\ called[t] # <<>> => p = pc[t]
    /\ t \in asleep' => p = pc[t]

LEMMA QuietCalls ==
    ASSUME TypeInv, CallInv, NEW t \in Threads, NEW p \in Points, Quiet(t, p)
    PROVE  CallInv'
<1>1. pc'[t] = p /\ \A u \in Threads \ {t} : pc'[u] = pc[u]
    BY DEF Quiet, TypeInv, TypeOK
<1>2. asleep' \subseteq Threads
    BY DEF Quiet, TypeInv, TypeOK
<1>3. Callers'
    BY <1>1 DEF Quiet, CallInv, Callers
<1>4. Single'
    BY <1>1 DEF Quiet, CallInv, Single
<1>5. Sleeping'
    BY <1>1, <1>2 DEF Quiet, CallInv, Sleeping
<1> QED
    BY <1>3, <1>4, <1>5 DEF CallInv

LEMMA QuietListed ==
    ASSUME TypeInv, Listed, NEW t \in Threads, NEW p \in Points, Quiet(t, p)
    PROVE  Listed'
<1>1. pc'[t] = p /\ \A u \in Threads \ {t} : pc'[u] = pc[u]
    BY DEF Quiet, TypeInv, TypeOK
<1>2. Announced'
    BY <1>1 DEF Quiet, Listed, Announced
<1>3. \A u \in asleep' : Found(u)'
    BY DEF Quiet, Listed, Found
<1> QED
    BY <1>2, <1>3 DEF Listed

\* The steps that are quiet.
QuietStep(t) ==
    \/ Enter(t) \/ TryEnter(t) \/ EnterLock(t) \/ Own(t) \/ EnterDone(t) \/ Exit(t)
    \/ ExitDone(t) \/ Wait(t) \/ WaitRefused(t) \/ Awake(t) \/ Relock(t) \/ Restore(t)
    \/ Signal(t) \/ Broadcast(t) \/ BroadcastRefused(t) \/ RunDone(t)
    \/ Swallow(t) \/ Rescue(t) \/ Finish(t)
    \/ \E u \in Threads : Interrupt(t, u) \/ Wakeup(t, u)

LEMMA QuietSteps ==
    ASSUME TypeInv, CallInv, NEW t \in Threads, QuietStep(t)
    PROVE  \E p \in Points : Quiet(t, p)
<1>0. pc \in [Threads -> Points] /\ pc[t] \in Points /\ asleep \subseteq Threads
    BY DEF TypeInv, TypeOK
<1>1. /\ called[t] # <<>> => pc[t] \in {"signal", "broadcast"}
      /\ t \in asleep => pc[t] = "sleep"
    BY DEF CallInv, Callers, Sleeping
<1>2. UNCHANGED pc => pc' = [pc EXCEPT ![t] = pc[t]]
    BY <1>0
<1>3. CASE UNCHANGED <<pc, waiters, called>> /\ asleep' \subseteq asleep
    BY <1>0, <1>1, <1>2, <1>3 DEF Quiet
\* Nobody to run, and awake: it may go anywhere but on the list.
<1>4. CASE /\ pc[t] \notin {"signal", "broadcast"}
           /\ pc[t] = "sleep" => t \notin asleep
           /\ \E p \in Points \ {"signal", "wait_listed"} : Goto(t, p)
           /\ UNCHANGED <<waiters, called, asleep>>
    BY <1>1, <1>4 DEF Quiet, Goto
<1>5. CASE EnterLock(t) \/ Own(t) \/ ((Enter(t) \/ TryEnter(t)) /\ ~ UNCHANGED pc)
    <2>1. /\ pc[t] \in {"run", "enter_lock", "enter_locked"}
          /\ \E p \in {"enter_lock", "enter_locked", "entered"} : Goto(t, p)
          /\ UNCHANGED <<waiters, called, asleep>>
        BY <1>5 DEF Enter, TryEnter, EnterLock, Own, EnterAgain, EnterFree, EnterWait,
           EnterRecursive, Locks, Refuse, Entered, Begin, At
    <2> QED
        BY <1>4, <2>1
<1>6. CASE EnterDone(t) \/ ExitDone(t) \/ Restore(t) \/ Finish(t) \/ BroadcastRefused(t)
    <2>1. /\ pc[t] \in {"entered", "exit", "restore", "run", "broadcast_lock"}
          /\ \E p \in {"run", "dead"} : Goto(t, p)
          /\ UNCHANGED <<waiters, called, asleep>>
        BY <1>6 DEF EnterDone, ExitDone, Restore, Finish, BroadcastRefused, At
    <2> QED
        BY <1>4, <2>1
<1>7. CASE (Exit(t) \/ Wait(t) \/ Signal(t) \/ Broadcast(t)) /\ ~ UNCHANGED pc
    <2>1. /\ pc[t] = "run"
          /\ \E p \in {"exit", "wait_saved", "signal_lock", "broadcast_lock"} : Goto(t, p)
          /\ UNCHANGED <<waiters, called, asleep>>
        BY <1>7 DEF Exit, Wait, Signal, Broadcast, Call, Refuse, Begin, At
    <2> QED
        BY <1>4, <2>1
<1>8. CASE Relock(t) \/ WaitRefused(t) \/ Awake(t)
    <2>1. /\ pc[t] \in {"relock", "wait_saved", "sleep"}
          /\ pc[t] = "sleep" => t \notin asleep
          /\ \E p \in {"relock", "restore"} : Goto(t, p)
          /\ UNCHANGED <<waiters, called, asleep>>
        BY <1>8 DEF Relock, WaitRefused, Awake, At
    <2> QED
        BY <1>4, <2>1
<1>9. CASE RunDone(t)
    <2>1. /\ pc[t] \in {"signal", "broadcast"} /\ called[t] = <<>>
          /\ Goto(t, "run")
          /\ UNCHANGED <<waiters, called, asleep>>
        BY <1>9 DEF RunDone, At
    <2> QED
        BY <1>1, <2>1 DEF Quiet, Goto
<1>10. CASE Swallow(t) \/ Rescue(t) \/ \E u \in Threads : Interrupt(t, u) \/ Wakeup(t, u)
    BY <1>3, <1>10 DEF Swallow, Rescue, Interrupt, Wakeup
<1>11. CASE (Enter(t) \/ TryEnter(t)) /\ UNCHANGED pc
    BY <1>3, <1>11 DEF Enter, TryEnter, EnterAgain, EnterFree, EnterWait, EnterRecursive,
       Locks, Refuse, Entered
<1>12. CASE (Exit(t) \/ Wait(t) \/ Signal(t) \/ Broadcast(t)) /\ UNCHANGED pc
    BY <1>3, <1>12 DEF Exit, Wait, Signal, Broadcast, Call, Refuse
<1> QED
    BY <1>5, <1>6, <1>7, <1>8, <1>9, <1>10, <1>11, <1>12 DEF QuietStep

\* A waiter lists itself, with the mutex, and falls asleep.
LEMMA WaitCalls ==
    ASSUME TypeInv, CallInv, NEW t \in Threads, WaitList(t) \/ WaitSleep(t)
    PROVE  CallInv'
<1>0. TypeOK /\ called[t] = <<>> /\ called' = called
    BY DEF TypeInv, CallInv, Callers, WithList, WaitList, WaitSleep, At
<1>1. PICK p \in {"wait_listed", "sleep", "restore"} : pc' = [pc EXCEPT ![t] = p]
    BY DEF WaitList, WaitSleep, Goto
<1>2. pc'[t] = p /\ \A u \in Threads \ {t} : pc'[u] = pc[u]
    BY <1>0, <1>1 DEF TypeOK
<1>3. Callers' /\ Single'
    BY <1>0, <1>2 DEF CallInv, Callers, Single
<1>4. \/ asleep' = asleep /\ pc[t] # "sleep"
      \/ asleep' = asleep \cup {t} /\ p = "sleep"
    BY <1>0, <1>2 DEF WithList, WaitList, WaitSleep, Goto, At, TypeOK
<1>5. Sleeping'
    BY <1>0, <1>2, <1>4 DEF CallInv, Sleeping, TypeOK
<1> QED
    BY <1>3, <1>5 DEF CallInv

LEMMA WaitListed ==
    ASSUME TypeInv, CallInv, Listed, NEW t \in Threads, WaitList(t) \/ WaitSleep(t)
    PROVE  Listed'
<1>0. TypeOK /\ called' = called
    BY DEF TypeInv, WaitList, WaitSleep
<1>1. CASE WaitList(t)
    <2>1. ToSet(waiters) \cup {t} \subseteq ToSet(waiters')
        BY <1>0, <1>1, ToSetAppend DEF WaitList, TypeOK
    <2>2. asleep' = asleep /\ \A u \in Threads \ {t} : pc'[u] = pc[u]
        BY <1>0, <1>1 DEF WaitList, Goto, TypeOK
    <2>3. Announced'
        BY <2>1, <2>2 DEF Listed, Announced
    <2>4. \A u \in asleep' : Found(u)'
        BY <1>0, <2>1, <2>2 DEF Listed, Found
    <2> QED
        BY <2>3, <2>4 DEF Listed
<1>2. CASE WaitSleep(t)
    <2>1. waiters' = waiters /\ asleep' \subseteq asleep \cup {t}
        BY <1>2 DEF WaitSleep
    <2>2. pc'[t] # "wait_listed" /\ \A u \in Threads \ {t} : pc'[u] = pc[u]
        BY <1>0, <1>2 DEF WaitSleep, Goto, TypeOK
    <2>3. t \in ToSet(waiters)
        BY <1>2 DEF WaitSleep, At, Listed, Announced
    <2>4. Announced'
        BY <2>1, <2>2 DEF Listed, Announced
    <2>5. \A u \in asleep' : Found(u)'
        BY <1>0, <2>1, <2>3 DEF Listed, Found
    <2> QED
        BY <2>4, <2>5 DEF Listed
<1> QED
    BY <1>1, <1>2

\* signal takes one thread off the list, broadcast all of them.
Takes(t) ==
    \/ /\ pc'[t] = "signal"
       /\ waiters # <<>> /\ waiters' = Tail(waiters) /\ called'[t] = <<Head(waiters)>>
    \/ /\ pc'[t] = "signal"
       /\ waiters = <<>> /\ waiters' = <<>> /\ called'[t] = <<>>
    \/ /\ pc'[t] = "broadcast"
       /\ waiters' = <<>> /\ called'[t] = waiters

LEMMA TakesEffect ==
    ASSUME TypeInv, CallInv, NEW t \in Threads, SignalShift(t) \/ BroadcastTake(t)
    PROVE  /\ Takes(t) /\ called[t] = <<>> /\ asleep' = asleep
           /\ pc[t] \in {"signal_lock", "broadcast_lock"}
           /\ \A u \in Threads \ {t} : pc'[u] = pc[u] /\ called'[u] = called[u]
<1>0. TypeOK
    BY DEF TypeInv
<1>1. /\ pc[t] \in {"signal_lock", "broadcast_lock"} /\ asleep' = asleep
      /\ \A u \in Threads \ {t} : pc'[u] = pc[u] /\ called'[u] = called[u]
    BY <1>0 DEF SignalShift, BroadcastTake, WithList, At, Goto, TypeOK
<1>2. called[t] = <<>>
    BY <1>1 DEF CallInv, Callers
<1>3. Takes(t)
    BY <1>0, <1>2 DEF Takes, SignalShift, BroadcastTake, Goto, TypeOK
<1> QED
    BY <1>1, <1>2, <1>3

LEMMA TakesCalls ==
    ASSUME TypeInv, CallInv, NEW t \in Threads, SignalShift(t) \/ BroadcastTake(t)
    PROVE  CallInv'
<1>1. /\ Takes(t) /\ asleep' = asleep
      /\ pc[t] \in {"signal_lock", "broadcast_lock"}
      /\ \A u \in Threads \ {t} : pc'[u] = pc[u] /\ called'[u] = called[u]
    BY TakesEffect
<1>2. Callers'
    BY <1>1 DEF Takes, CallInv, Callers
<1>3. \A x : Tail(<<x>>) = <<>>
    OBVIOUS
<1>4. Single'
    BY <1>1, <1>3 DEF Takes, CallInv, Single
<1>5. t \notin asleep
    BY <1>1 DEF CallInv, Sleeping
<1>6. Sleeping'
    BY <1>1, <1>5 DEF CallInv, Sleeping, TypeInv, TypeOK
<1> QED
    BY <1>2, <1>4, <1>6 DEF CallInv

LEMMA TakesListed ==
    ASSUME TypeInv, CallInv, Listed, NEW t \in Threads, SignalShift(t) \/ BroadcastTake(t),
           \A u \in Threads : pc[u] # "wait_listed"
    PROVE  Listed'
<1>0. TypeOK /\ waiters \in Seq(Threads)
    BY DEF TypeInv, TypeOK
<1>1. /\ Takes(t) /\ called[t] = <<>> /\ asleep' = asleep
      /\ \A u \in Threads \ {t} : pc'[u] = pc[u] /\ called'[u] = called[u]
    BY TakesEffect
<1>2. Announced'
    BY <1>1 DEF Takes, Announced
\* What it takes off, it has to run.
<1>3. ToSet(waiters) \subseteq ToSet(waiters') \cup ToSet(called'[t])
    <2>1. CASE waiters = <<>>
        BY <2>1 DEF ToSet
    <2>2. CASE waiters # <<>> /\ waiters' = Tail(waiters) /\ called'[t] = <<Head(waiters)>>
        <3>1. Head(waiters) \in Threads
            BY <1>0, <2>2
        <3> QED
            BY <1>0, <2>2, <3>1, ToSetTail, ToSetOne
    <2>3. CASE called'[t] = waiters
        BY <2>3
    <2> QED
        BY <1>1, <2>1, <2>2, <2>3 DEF Takes
<1>4. ASSUME NEW u \in asleep PROVE Found(u)'
    <2>1. CASE u \in ToSet(waiters)
        BY <1>3, <2>1 DEF Found
    <2>2. CASE \E w \in Threads : u \in ToSet(called[w])
        <3>1. PICK w \in Threads : u \in ToSet(called[w])
            BY <2>2
        <3>2. w # t
            BY <1>1, <3>1 DEF ToSet
        <3>3. called'[w] = called[w]
            BY <1>1, <3>2
        <3> QED
            BY <3>1, <3>3 DEF Found
    <2> QED
        BY <2>1, <2>2 DEF Listed, Found
<1> QED
    BY <1>1, <1>2, <1>4 DEF Listed

\* What a retry forgets is a dead thread.
LEMMA RetryEffect ==
    ASSUME TypeInv, CallInv, NEW t \in Threads, Retry(t)
    PROVE  /\ pc[t] = "signal" /\ pc'[t] = "signal_lock" /\ called'[t] = <<>>
           /\ \A u \in Threads \ {t} : pc'[u] = pc[u] /\ called'[u] = called[u]
           /\ UNCHANGED <<waiters, asleep>>
           /\ ToSet(called[t]) \cap asleep = {}
<1>0. TypeOK /\ called[t] \in Seq(Threads)
    BY DEF TypeInv, TypeOK
<1>1. /\ pc[t] = "signal" /\ pc'[t] = "signal_lock" /\ called'[t] = <<>>
      /\ \A u \in Threads \ {t} : pc'[u] = pc[u] /\ called'[u] = called[u]
      /\ UNCHANGED <<waiters, asleep>>
      /\ called[t] # <<>> /\ Head(called[t]) \in Dead
    BY <1>0 DEF Retry, At, Goto, TypeOK
<1>2. Tail(called[t]) = <<>>
    BY <1>1 DEF CallInv, Single
<1>3. ToSet(Tail(called[t])) = {}
    BY <1>2 DEF ToSet
<1>4. ToSet(called[t]) \subseteq {Head(called[t])}
    BY <1>0, <1>1, <1>3, ToSetTail
<1>5. Head(called[t]) \notin asleep
    BY <1>1 DEF CallInv, Sleeping, Dead
<1> QED
    BY <1>1, <1>4, <1>5

LEMMA RetryCalls ==
    ASSUME TypeInv, CallInv, NEW t \in Threads, Retry(t)
    PROVE  CallInv'
<1>1. /\ pc[t] = "signal" /\ pc'[t] = "signal_lock" /\ called'[t] = <<>>
      /\ \A u \in Threads \ {t} : pc'[u] = pc[u] /\ called'[u] = called[u]
      /\ asleep' = asleep /\ asleep \subseteq Threads
    BY RetryEffect DEF TypeInv, TypeOK
<1> QED
    BY <1>1 DEF CallInv, Callers, Single, Sleeping

LEMMA RetryListed ==
    ASSUME TypeInv, CallInv, Listed, NEW t \in Threads, Retry(t)
    PROVE  Listed'
<1>1. /\ pc'[t] = "signal_lock"
      /\ \A u \in Threads \ {t} : pc'[u] = pc[u] /\ called'[u] = called[u]
      /\ UNCHANGED <<waiters, asleep>>
      /\ ToSet(called[t]) \cap asleep = {}
    BY RetryEffect
<1>2. Announced'
    BY <1>1 DEF Listed, Announced
<1>3. ASSUME NEW u \in asleep PROVE Found(u)'
    <2>1. CASE u \in ToSet(waiters)
        BY <1>1, <2>1 DEF Found
    <2>2. CASE \E w \in Threads : u \in ToSet(called[w])
        <3>1. PICK w \in Threads : u \in ToSet(called[w])
            BY <2>2
        <3>2. called'[w] = called[w]
            BY <1>1, <3>1
        <3> QED
            BY <3>1, <3>2 DEF Found
    <2> QED
        BY <2>1, <2>2 DEF Listed, Found
<1> QED
    BY <1>1, <1>2, <1>3 DEF Listed

\* Thread#run wakes the next one.
LEMMA RunCalls ==
    ASSUME TypeInv, CallInv, NEW t \in Threads, Run(t)
    PROVE  CallInv'
<1>0. TypeOK /\ called[t] \in Seq(Threads) /\ called[t] # <<>>
    BY DEF TypeInv, TypeOK, Run
<1>1. pc' = pc /\ called'[t] = Tail(called[t])
    BY <1>0 DEF Run, TypeOK
<1>2. \A u \in Threads \ {t} : called'[u] = called[u]
    BY <1>0 DEF Run, TypeOK
<1>3. Callers'
    BY <1>0, <1>1, <1>2 DEF CallInv, Callers
<1>4. Single'
    BY <1>0, <1>1, <1>2 DEF CallInv, Single
<1>5. Sleeping'
    BY <1>1 DEF Run, CallInv, Sleeping
<1> QED
    BY <1>3, <1>4, <1>5 DEF CallInv

LEMMA RunListed ==
    ASSUME TypeInv, Listed, NEW t \in Threads, Run(t)
    PROVE  Listed'
<1>0. TypeOK /\ called[t] \in Seq(Threads) /\ called[t] # <<>>
    BY DEF TypeInv, TypeOK, Run
<1>1. pc' = pc /\ waiters' = waiters /\ called'[t] = Tail(called[t])
    BY <1>0 DEF Run, TypeOK
<1>2. \A u \in Threads \ {t} : called'[u] = called[u]
    BY <1>0 DEF Run, TypeOK
<1>3. Announced'
    BY <1>1 DEF Listed, Announced
<1>4. ASSUME NEW u \in asleep' PROVE Found(u)'
    <2>1. u \in asleep /\ u # Head(called[t])
        BY <1>4 DEF Run
    <2>2. CASE u \in ToSet(waiters)
        BY <1>1, <2>2 DEF Found
    <2>3. CASE \E w \in Threads : u \in ToSet(called[w])
        <3>1. PICK w \in Threads : u \in ToSet(called[w])
            BY <2>3
        <3>2. u \in ToSet(called'[w])
            BY <1>0, <1>1, <1>2, <2>1, <3>1, ToSetTail
        <3> QED
            BY <3>2 DEF Found
    <2> QED
        BY <2>1, <2>2, <2>3 DEF Listed, Found
<1> QED
    BY <1>3, <1>4 DEF Listed

\* An exception makes a thread forget whom it has to run.
LEMMA ThrowCalls ==
    ASSUME TypeInv, CallInv, NEW t \in Threads, Throw(t)
    PROVE  CallInv'
<1>0. TypeOK /\ asleep' = asleep /\ t \notin asleep
    BY DEF TypeInv, CallInv, Sleeping, Throw
<1>1. PICK p \in {"run", "restore"} : pc' = [pc EXCEPT ![t] = p]
    BY ThrowEffect DEF Goto
<1>2. pc'[t] = p /\ \A u \in Threads \ {t} : pc'[u] = pc[u]
    BY <1>0, <1>1 DEF TypeOK
<1>3. called'[t] = <<>> /\ \A u \in Threads \ {t} : called'[u] = called[u]
    BY <1>0 DEF Throw, TypeOK
<1>4. Callers' /\ Single'
    BY <1>2, <1>3 DEF CallInv, Callers, Single
<1>5. Sleeping'
    BY <1>0, <1>2 DEF CallInv, Sleeping, TypeOK
<1> QED
    BY <1>4, <1>5 DEF CallInv

LEMMA ThrowListed ==
    ASSUME TypeInv, CallInv, Listed, NEW t \in Threads, Throw(t), ~ torn'
    PROVE  Listed'
<1>0. TypeOK /\ asleep' = asleep /\ waiters' = waiters
    BY DEF TypeInv, Throw
<1>1. called[t] = <<>>
    BY <1>0 DEF Throw, Caught, Left, LeftLocked, Tears, CallInv, Callers
<1>2. called' = called
    BY <1>0, <1>1 DEF Throw, TypeOK
<1>3. pc'[t] # "wait_listed" /\ \A u \in Threads \ {t} : pc'[u] = pc[u]
    BY <1>0, ThrowEffect DEF Goto, TypeOK
<1>4. Announced'
    BY <1>0, <1>3 DEF Listed, Announced
<1>5. \A u \in asleep' : Found(u)'
    BY <1>0, <1>2 DEF Listed, Found
<1> QED
    BY <1>4, <1>5 DEF Listed

LEMMA SameList ==
    ASSUME UNCHANGED <<pc, waiters, called, asleep>>
    PROVE  (CallInv => CallInv') /\ (Listed => Listed')
BY DEF CallInv, Callers, Single, Sleeping, Listed, Announced, Found

LEMMA StepCalls ==
    ASSUME TypeInv, CallInv, NEW t \in Threads, Step(t)
    PROVE  CallInv'
<1>1. CASE QuietStep(t)
    BY <1>1, QuietSteps, QuietCalls
<1>2. CASE WaitList(t) \/ WaitSleep(t)
    BY <1>2, WaitCalls
<1>3. CASE SignalShift(t) \/ BroadcastTake(t) \/ Retry(t)
    BY <1>3, TakesCalls, RetryCalls
<1>4. CASE Run(t)
    BY <1>4, RunCalls
<1>5. CASE Throw(t)
    BY <1>5, ThrowCalls
<1> QED
    BY <1>1, <1>2, <1>3, <1>4, <1>5 DEF Step, Progress, QuietStep

\* Who takes threads off the list is inside, so nobody is about to sleep.
LEMMA TakerInside ==
    ASSUME TypeInv, CallInv, Kept, NEW t \in Threads, SignalShift(t) \/ BroadcastTake(t)
    PROVE  \A u \in Threads : pc[u] # "wait_listed"
<1>1. Inside(t) /\ pc[t] # "wait_listed"
    BY TakesEffect DEF Inside
<1> QED
    BY <1>1 DEF Kept, Exclusive, HasMutex

LEMMA StepListed ==
    ASSUME TypeInv, CallInv, Kept, Listed, NEW t \in Threads, Step(t), ~ torn'
    PROVE  Listed'
<1>1. CASE QuietStep(t)
    BY <1>1, QuietSteps, QuietListed
<1>2. CASE WaitList(t) \/ WaitSleep(t)
    BY <1>2, WaitListed
<1>3. CASE SignalShift(t) \/ BroadcastTake(t) \/ Retry(t)
    BY <1>3, TakerInside, TakesListed, RetryListed
<1>4. CASE Run(t)
    BY <1>4, RunListed
<1>5. CASE Throw(t)
    BY <1>5, ThrowListed
<1> QED
    BY <1>1, <1>2, <1>3, <1>4, <1>5 DEF Step, Progress, QuietStep

ListInv == MonitorInv /\ CallInv /\ (~ torn => Listed)

LEMMA NextListed == ListInv /\ [Next]_vars => ListInv'
<1> SUFFICES ASSUME ListInv, [Next]_vars PROVE ListInv'
    OBVIOUS
<1>1. MonitorInv /\ TypeInv /\ CallInv /\ MonitorInv'
    BY NextKept DEF ListInv, MonitorInv
<1>2. CASE UNCHANGED vars
    BY <1>1, <1>2, SameList DEF ListInv, vars
<1>3. ASSUME NEW t \in Threads, Step(t) PROVE ListInv'
    <2>1. CallInv'
        BY <1>1, <1>3, StepCalls
    <2>2. ASSUME ~ torn' PROVE Listed'
        <3>1. ~ torn
            BY <2>2, TornStays
        <3>2. Kept /\ Listed
            BY <1>1, <3>1 DEF ListInv, MonitorInv
        <3> QED
            BY <1>1, <1>3, <2>2, <3>2, StepListed
    <2> QED
        BY <1>1, <2>1, <2>2 DEF ListInv
<1> QED
    BY <1>2, <1>3 DEF Next

LEMMA InitListed == Init => ListInv
<1>1. Init => MonitorInv
    BY InitType, InitKept DEF MonitorInv
<1>2. Init => CallInv /\ Listed
    BY DEF Init, CallInv, Callers, Single, Sleeping, Listed, Announced
<1> QED
    BY <1>1, <1>2 DEF ListInv

\* A thread that sleeps in wait is on the list, or about to be run: whatever
\* other threads were woken, raised in or killed, signal and broadcast find it.
THEOREM WaitersListed == Spec => []WaiterListed
<1>1. ListInv => WaiterListed
    BY DEF ListInv, Listed, Found, WaiterListed
<1> QED
    BY <1>1, InitListed, NextListed, PTL DEF Spec

-----------------------------------------------------------------------------
(***************************************************************************)
(* The entries.  As long as only signal and broadcast wake waiting         *)
(* threads, the list and what has been taken off it name each sleeping     *)
(* thread once.                                                            *)
(***************************************************************************)
Distinct(q) == \A i, j \in DOMAIN q : q[i] = q[j] => i = j

Entries ==
    /\ Distinct(waiters)
    /\ \A t \in ToSet(waiters) : t \in asleep \/ pc[t] = "wait_listed"
CalledSleep ==
    \A u \in Threads : /\ Distinct(called[u])
                       /\ ToSet(called[u]) \subseteq asleep
                       /\ ToSet(called[u]) \cap ToSet(waiters) = {}
Rows == Entries /\ CalledSleep

LEMMA DistinctAppend ==
    ASSUME NEW q \in Seq(Threads), NEW t \in Threads \ ToSet(q), Distinct(q)
    PROVE  Distinct(Append(q, t)) /\ ToSet(Append(q, t)) = ToSet(q) \cup {t}
<1>1. /\ DOMAIN Append(q, t) = 1..(Len(q) + 1)
      /\ \A i \in 1..Len(q) : Append(q, t)[i] = q[i]
      /\ Append(q, t)[Len(q) + 1] = t
      /\ DOMAIN q = 1..Len(q) /\ Len(q) \in Nat
    OBVIOUS
<1>2. \A i \in 1..Len(q) : q[i] # t
    BY <1>1 DEF ToSet
<1>3. Distinct(Append(q, t))
    BY <1>1, <1>2 DEF Distinct
<1>4. ToSet(Append(q, t)) = ToSet(q) \cup {t}
    BY <1>1 DEF ToSet
<1> QED
    BY <1>3, <1>4

LEMMA DistinctTail ==
    ASSUME NEW q \in Seq(Threads), q # <<>>, Distinct(q)
    PROVE  /\ Distinct(Tail(q))
           /\ Head(q) \in ToSet(q)
           /\ ToSet(Tail(q)) \subseteq ToSet(q) \ {Head(q)}
<1>1. /\ DOMAIN q = 1..Len(q) /\ Len(q) \in Nat \ {0}
      /\ DOMAIN Tail(q) = 1..(Len(q) - 1)
      /\ \A i \in 1..(Len(q) - 1) : Tail(q)[i] = q[i + 1]
      /\ Head(q) = q[1]
    OBVIOUS
<1>2. Distinct(Tail(q))
    BY <1>1 DEF Distinct
<1>3. Head(q) \in ToSet(q)
    BY <1>1 DEF ToSet
<1>4. ASSUME NEW i \in 1..(Len(q) - 1)
      PROVE  Tail(q)[i] \in ToSet(q) /\ Tail(q)[i] # Head(q)
    BY <1>1 DEF ToSet, Distinct
<1>5. ToSet(Tail(q)) \subseteq ToSet(q) \ {Head(q)}
    BY <1>1, <1>4 DEF ToSet
<1> QED
    BY <1>2, <1>3, <1>5

LEMMA DistinctShort ==
    /\ Distinct(<<>>) /\ ToSet(<<>>) = {}
    /\ \A t \in Threads : Distinct(<<t>>) /\ ToSet(<<t>>) = {t}
BY DEF Distinct, ToSet

LEMMA StrayStays ==
    ASSUME stray, [Next]_vars
    PROVE  stray'
<1>1. ASSUME NEW t \in Threads, Step(t)
      PROVE  stray'
    BY <1>1 DEF Step, Progress, Enter, TryEnter, EnterLock, Own, EnterDone, Exit, ExitDone,
       Wait, WaitList, WaitRefused, WaitSleep, Awake, Relock, Restore, Signal, Broadcast,
       Call, SignalShift, Retry, BroadcastTake, BroadcastRefused, Run, RunDone, Interrupt,
       Wakeup, Throw, Swallow, Rescue, Finish
<1>2. CASE UNCHANGED vars
    BY <1>2 DEF vars
<1> QED
    BY <1>1, <1>2 DEF Next

LEMMA QuietRows ==
    ASSUME TypeInv, CallInv, Rows, NEW t \in Threads, QuietStep(t), ~ stray'
    PROVE  Rows'
<1>1. PICK p \in Points : Quiet(t, p)
    BY QuietSteps
<1>2. pc[t] # "wait_listed" \/ pc' = pc
    <2>1. CASE Swallow(t)
        BY <2>1 DEF Swallow
    <2>2. CASE ~ Swallow(t)
        BY <2>2 DEF QuietStep, Enter, TryEnter, EnterLock, Own, EnterDone, Exit, ExitDone,
           Wait, WaitRefused, Awake, Relock, Restore, Signal, Broadcast, Call,
           BroadcastRefused, RunDone, Rescue, Finish, Interrupt, Wakeup, Begin, At
    <2> QED
        BY <2>1, <2>2
<1>3. asleep' = asleep
    <2>1. CASE \E u \in Threads : Interrupt(t, u) \/ Wakeup(t, u)
        BY <2>1 DEF Interrupt, Wakeup
    <2>2. CASE \/ Enter(t) \/ TryEnter(t) \/ EnterLock(t) \/ Own(t) \/ EnterDone(t)
               \/ Exit(t) \/ ExitDone(t) \/ Wait(t) \/ Signal(t) \/ Broadcast(t)
        BY <2>2 DEF Enter, TryEnter, EnterLock, Own, EnterDone, Exit, ExitDone, Wait,
           Signal, Broadcast, Call, EnterAgain, EnterFree, EnterWait, EnterRecursive,
           Locks, Refuse, Entered
    <2>3. CASE \/ WaitRefused(t) \/ BroadcastRefused(t) \/ Awake(t) \/ Relock(t)
               \/ Restore(t) \/ RunDone(t) \/ Swallow(t) \/ Rescue(t) \/ Finish(t)
        BY <2>3 DEF WaitRefused, BroadcastRefused, Awake, Relock, Restore, RunDone,
           Swallow, Rescue, Finish
    <2> QED
        BY <2>1, <2>2, <2>3 DEF QuietStep
<1>4. waiters' = waiters /\ called' = called
    BY <1>1 DEF Quiet
<1>5. \A u \in Threads : pc[u] = "wait_listed" => pc'[u] = "wait_listed"
    BY <1>1, <1>2 DEF Quiet, TypeInv, TypeOK
<1>6. ToSet(waiters) \subseteq Threads
    BY DEF TypeInv, TypeOK, ToSet
<1> QED
    BY <1>3, <1>4, <1>5, <1>6 DEF Rows, Entries, CalledSleep

LEMMA WaitListRows ==
    ASSUME TypeInv, CallInv, Rows, NEW t \in Threads, WaitList(t)
    PROVE  Rows'
<1>0. TypeOK /\ pc[t] = "wait_saved" /\ waiters' = Append(waiters, t)
      /\ UNCHANGED <<asleep, called>>
    BY DEF TypeInv, WithList, WaitList, At
<1>1. pc'[t] = "wait_listed" /\ \A u \in Threads \ {t} : pc'[u] = pc[u]
    BY <1>0 DEF WaitList, Goto, TypeOK
<1>2. t \notin asleep
    BY <1>0 DEF CallInv, Sleeping
<1>3. t \notin ToSet(waiters)
    BY <1>0, <1>2 DEF Rows, Entries
<1>4. Distinct(waiters') /\ ToSet(waiters') = ToSet(waiters) \cup {t}
    BY <1>0, <1>3, DistinctAppend DEF TypeOK, Rows, Entries
<1>5. ToSet(waiters) \subseteq Threads
    BY <1>0 DEF TypeOK, ToSet
<1>6. Entries'
    BY <1>0, <1>1, <1>4, <1>5 DEF Rows, Entries
<1>7. CalledSleep'
    BY <1>0, <1>2, <1>4 DEF Rows, CalledSleep
<1> QED
    BY <1>6, <1>7 DEF Rows

LEMMA WaitSleepRows ==
    ASSUME TypeInv, Kept, Rows, NEW t \in Threads, WaitSleep(t)
    PROVE  Rows'
<1>0. TypeOK /\ pc[t] = "wait_listed" /\ UNCHANGED <<waiters, called>>
    BY DEF TypeInv, WaitSleep, At
<1>1. asleep' = asleep \cup {t} /\ \A u \in Threads \ {t} : pc'[u] = pc[u]
    BY <1>0 DEF WaitSleep, Goto, TypeOK, Kept, Exclusive, HasMutex
<1>2. ToSet(waiters) \subseteq Threads
    BY <1>0 DEF TypeOK, ToSet
<1> QED
    BY <1>0, <1>1, <1>2 DEF Rows, Entries, CalledSleep

LEMMA TakesRows ==
    ASSUME TypeInv, CallInv, Rows, NEW t \in Threads, SignalShift(t) \/ BroadcastTake(t),
           \A u \in Threads : pc[u] # "wait_listed"
    PROVE  Rows'
<1>0. waiters \in Seq(Threads) /\ Distinct(waiters)
    BY DEF TypeInv, TypeOK, Rows, Entries
<1>1. /\ Takes(t) /\ asleep' = asleep
      /\ \A u \in Threads \ {t} : called'[u] = called[u]
    BY TakesEffect
<1>2. ToSet(waiters) \subseteq asleep
    BY <1>0 DEF Rows, Entries, ToSet
<1>3. /\ Distinct(waiters') /\ Distinct(called'[t])
      /\ ToSet(waiters') \subseteq ToSet(waiters)
      /\ ToSet(called'[t]) \subseteq ToSet(waiters)
      /\ ToSet(called'[t]) \cap ToSet(waiters') = {}
    <2>1. CASE waiters' = <<>> /\ called'[t] \in {<<>>, waiters}
        BY <1>0, <2>1, DistinctShort
    <2>2. CASE waiters # <<>> /\ waiters' = Tail(waiters) /\ called'[t] = <<Head(waiters)>>
        <3>1. Head(waiters) \in Threads
            BY <1>0, <2>2
        <3>2. Distinct(called'[t]) /\ ToSet(called'[t]) = {Head(waiters)}
            BY <2>2, <3>1, DistinctShort
        <3>3. /\ Distinct(Tail(waiters)) /\ Head(waiters) \in ToSet(waiters)
              /\ ToSet(Tail(waiters)) \subseteq ToSet(waiters) \ {Head(waiters)}
            BY <1>0, <2>2, DistinctTail
        <3> QED
            BY <2>2, <3>2, <3>3
    <2> QED
        BY <1>1, <2>1, <2>2 DEF Takes
<1>4. Entries'
    BY <1>1, <1>2, <1>3 DEF Entries
<1>5. ASSUME NEW u \in Threads
      PROVE  /\ Distinct(called'[u]) /\ ToSet(called'[u]) \subseteq asleep
             /\ ToSet(called'[u]) \cap ToSet(waiters') = {}
    <2>1. CASE u = t
        BY <1>2, <1>3, <2>1
    <2>2. CASE u # t
        <3>1. called'[u] = called[u]
            BY <1>1, <2>2
        <3> QED
            BY <1>3, <3>1 DEF Rows, CalledSleep
    <2> QED
        BY <2>1, <2>2
<1>6. CalledSleep'
    BY <1>1, <1>5 DEF CalledSleep
<1> QED
    BY <1>4, <1>6 DEF Rows

LEMMA RetryRows ==
    ASSUME TypeInv, CallInv, Rows, NEW t \in Threads, Retry(t)
    PROVE  Rows'
<1>1. /\ pc[t] = "signal" /\ called'[t] = <<>>
      /\ \A u \in Threads \ {t} : pc'[u] = pc[u] /\ called'[u] = called[u]
      /\ UNCHANGED <<waiters, asleep>>
    BY RetryEffect
<1>2. ToSet(waiters) \subseteq Threads
    BY DEF TypeInv, TypeOK, ToSet
<1>3. Entries'
    BY <1>1, <1>2 DEF Rows, Entries
<1>4. CalledSleep'
    BY <1>1, DistinctShort DEF Rows, CalledSleep
<1> QED
    BY <1>3, <1>4 DEF Rows

LEMMA RunRows ==
    ASSUME TypeInv, CallInv, Kept, Rows, NEW t \in Threads, Run(t)
    PROVE  Rows'
<1>0. TypeOK /\ called[t] \in Seq(Threads) /\ called[t] # <<>>
    BY DEF TypeInv, TypeOK, Run
<1>1. /\ UNCHANGED <<pc, waiters>> /\ called'[t] = Tail(called[t])
      /\ asleep' = asleep \ {Head(called[t])}
      /\ \A u \in Threads \ {t} : called'[u] = called[u]
    BY <1>0 DEF Run, TypeOK
<1>2. /\ Distinct(Tail(called[t])) /\ Head(called[t]) \in ToSet(called[t])
      /\ ToSet(Tail(called[t])) \subseteq ToSet(called[t]) \ {Head(called[t])}
    BY <1>0, DistinctTail DEF Rows, CalledSleep
<1>3. Entries'
    BY <1>1, <1>2 DEF Rows, Entries, CalledSleep
\* Only the thread inside the monitor has called anybody.
<1>4. \A u \in Threads \ {t} : called[u] = <<>>
    BY <1>0 DEF CallInv, Callers, Kept, Exclusive, HasMutex, Inside
<1>5. ASSUME NEW u \in Threads
      PROVE  /\ Distinct(called'[u]) /\ ToSet(called'[u]) \subseteq asleep'
             /\ ToSet(called'[u]) \cap ToSet(waiters') = {}
    <2>1. CASE u = t
        BY <1>1, <1>2, <2>1 DEF Rows, CalledSleep
    <2>2. CASE u # t
        <3>1. called'[u] = <<>>
            BY <1>1, <1>4, <2>2
        <3> QED
            BY <3>1, DistinctShort
    <2> QED
        BY <2>1, <2>2
<1>6. CalledSleep'
    BY <1>5 DEF CalledSleep
<1> QED
    BY <1>3, <1>6 DEF Rows

LEMMA ThrowRows ==
    ASSUME TypeInv, Rows, NEW t \in Threads, Throw(t), ~ torn', ~ stray'
    PROVE  Rows'
<1>0. TypeOK /\ UNCHANGED <<asleep, waiters>>
    BY DEF TypeInv, Throw
<1>1. called' = [called EXCEPT ![t] = <<>>] /\ pc[t] # "wait_listed"
    BY DEF Throw
<1>2. \A u \in Threads \ {t} : pc'[u] = pc[u]
    BY <1>0, ThrowEffect DEF Goto, TypeOK
<1>3. ToSet(waiters) \subseteq Threads
    BY <1>0 DEF TypeOK, ToSet
<1>4. Entries'
    BY <1>0, <1>1, <1>2, <1>3 DEF Rows, Entries
<1>5. \A u \in Threads : called'[u] = <<>> \/ called'[u] = called[u]
    BY <1>0, <1>1 DEF TypeOK
<1>6. CalledSleep'
    BY <1>0, <1>5, DistinctShort DEF Rows, CalledSleep
<1> QED
    BY <1>4, <1>6 DEF Rows

LEMMA SameRows ==
    ASSUME Rows, UNCHANGED <<pc, waiters, called, asleep>>
    PROVE  Rows'
BY DEF Rows, Entries, CalledSleep

LEMMA StepRows ==
    ASSUME TypeInv, CallInv, Kept, Rows, NEW t \in Threads, Step(t), ~ torn', ~ stray'
    PROVE  Rows'
<1>1. CASE QuietStep(t)
    BY <1>1, QuietRows
<1>2. CASE WaitList(t) \/ WaitSleep(t)
    BY <1>2, WaitListRows, WaitSleepRows
<1>3. CASE SignalShift(t) \/ BroadcastTake(t) \/ Retry(t)
    BY <1>3, TakerInside, TakesRows, RetryRows
<1>4. CASE Run(t)
    BY <1>4, RunRows
<1>5. CASE Throw(t)
    BY <1>5, ThrowRows
<1> QED
    BY <1>1, <1>2, <1>3, <1>4, <1>5 DEF Step, Progress, QuietStep

RowInv == ListInv /\ (~ torn /\ ~ stray => Rows)

LEMMA NextRows == RowInv /\ [Next]_vars => RowInv'
<1> SUFFICES ASSUME RowInv, [Next]_vars PROVE RowInv'
    OBVIOUS
<1>1. ListInv /\ ListInv' /\ TypeInv /\ CallInv
    BY NextListed DEF RowInv, ListInv, MonitorInv
<1>2. ASSUME ~ torn', ~ stray' PROVE Rows'
    <2>1. ~ torn /\ ~ stray
        BY <1>2, TornStays, StrayStays
    <2>2. Kept /\ Rows
        BY <1>1, <2>1 DEF RowInv, ListInv, MonitorInv
    <2>3. CASE UNCHANGED vars
        BY <2>2, <2>3, SameRows DEF vars
    <2>4. ASSUME NEW t \in Threads, Step(t) PROVE Rows'
        BY <1>1, <1>2, <2>2, <2>4, StepRows
    <2> QED
        BY <2>3, <2>4 DEF Next
<1> QED
    BY <1>1, <1>2 DEF RowInv

\* As long as waiting threads are woken by signal and broadcast only, every
\* entry of the list is a thread that sleeps or is about to, and listed once:
\* no signal goes to a thread that is no longer there.
THEOREM ListExact == Spec => []EntriesSleep
<1>1. Init => RowInv
    <2>1. Init => ListInv
        BY InitListed
    <2>2. Init => Rows
        BY DistinctShort DEF Init, Rows, Entries, CalledSleep
    <2> QED
        BY <2>1, <2>2 DEF RowInv
<1>2. RowInv => EntriesSleep
    <2> SUFFICES ASSUME Rows PROVE EntriesSleep
        BY DEF RowInv, EntriesSleep
    <2> QED
        BY DEF Rows, Entries, Distinct, EntriesSleep, ToSet
<1> QED
    BY <1>1, <1>2, NextRows, PTL DEF Spec

-----------------------------------------------------------------------------
(***************************************************************************)
(* The monitor implements AtomicMonitor: a step of the code that tears     *)
(* nothing is one of its steps or changes no thread's levels.              *)
(***************************************************************************)
AtomicStep == Atomic!Next \/ UNCHANGED <<levels, given>>

LEMMA Level ==
    ASSUME NEW t \in Threads
    PROVE  /\ levels[t] = IF mon_owner = t THEN mon_count ELSE 0
           /\ given[t] = IF pc[t] \in WaitPoints THEN count[t] ELSE 0
BY DEF levels, given

LEMMA SameLevels ==
    ASSUME NEW t \in Threads, UNCHANGED <<mon_owner, mon_count, count>>,
           \A u \in Threads \ {t} : pc'[u] = pc[u],
           pc'[t] \in WaitPoints <=> pc[t] \in WaitPoints
    PROVE  AtomicStep
<1>1. levels' = levels
  BY DEF levels
<1>2. \A u \in Threads :
        (IF pc'[u] \in WaitPoints THEN count'[u] ELSE 0)
            = IF pc[u] \in WaitPoints THEN count[u] ELSE 0
  OBVIOUS
<1>3. given' = given
  BY <1>2 DEF given
<1> QED BY <1>1, <1>3 DEF AtomicStep

LEMMA MoveLevels ==
    ASSUME TypeOK, NEW t \in Threads, NEW p, Goto(t, p),
           UNCHANGED <<mon_owner, mon_count, count>>,
           p \in WaitPoints <=> pc[t] \in WaitPoints
    PROVE  AtomicStep
<1>1. pc'[t] = p /\ \A u \in Threads \ {t} : pc'[u] = pc[u]
  BY DEF Goto, TypeOK
<1> QED BY <1>1, SameLevels

LEMMA StillLevels ==
    ASSUME UNCHANGED <<mon_owner, mon_count, count, pc>>
    PROVE  AtomicStep
BY DEF AtomicStep, levels, given

\* Who is the owner has the mutex and is at a level; there is none when the mutex
\* is free, or while it is handed over.
LEMMA OwnerLevels ==
    ASSUME TypeOK, Kept, NEW t \in Threads
    PROVE  /\ mon_owner = t => Inside(t) /\ mon_count = depth[t] /\ depth[t] > 0
           /\ holder = NoThread \/ pc[t] \in HandoverPoints =>
                 mon_owner = NoThread /\ mon_count = 0
<1>1. mon_owner = t => Inside(t)
  BY ThreadsAssumption DEF Kept, Unowned
<1>2. ASSUME holder = NoThread \/ pc[t] \in HandoverPoints
      PROVE  \A u \in Threads : ~ Inside(u)
  BY <1>2, ThreadsAssumption DEF Kept, Exclusive, HasMutex, Inside
<1> QED BY <1>1, <1>2 DEF Kept, Counted, Unowned, TypeOK

LEMMA EnteredAtomic ==
    ASSUME TypeOK, Kept, NEW t \in Threads, Entered(t),
           (pc[t] = "run" /\ mon_owner = t) \/ pc[t] = "enter_locked"
    PROVE  AtomicStep
<1>1. /\ mon_owner' = t /\ mon_count' = mon_count + 1 /\ count' = count
      /\ pc'[t] = "entered" /\ \A u \in Threads \ {t} : pc'[u] = pc[u]
  BY DEF Entered, Goto, TypeOK
<1>2. mon_owner = t \/ (mon_owner = NoThread /\ mon_count = 0)
  BY OwnerLevels
<1>3. levels' = [levels EXCEPT ![t] = @ + 1]
  BY <1>1, <1>2, ThreadsAssumption DEF levels
<1>4. given' = given /\ given[t] = 0
  BY <1>1 DEF given
<1>5. \A u \in Threads \ {t} : levels[u] = 0
  BY <1>2, ThreadsAssumption DEF levels
<1>6. Atomic!Enter(t)
  BY <1>3, <1>4, <1>5 DEF Atomic!Enter, Atomic!FreeFor
<1> QED BY <1>6 DEF AtomicStep, Atomic!Next

LEMMA ExitAtomic ==
    ASSUME TypeOK, Kept, NEW t \in Threads, ExitDone(t)
    PROVE  AtomicStep
<1>1. /\ pc[t] = "exit" /\ mon_count' = mon_count - 1 /\ count' = count
      /\ mon_owner' = IF mon_count = 1 THEN NoThread ELSE mon_owner
      /\ pc'[t] = "run" /\ \A u \in Threads \ {t} : pc'[u] = pc[u]
  BY DEF ExitDone, At, Goto, TypeOK
<1>2. mon_owner = t /\ mon_count = depth[t] /\ depth[t] > 0 /\ depth[t] \in Nat
  BY <1>1 DEF Kept, Counted, Inside, TypeOK
<1>3. levels' = [levels EXCEPT ![t] = @ - 1]
  <2>1. levels[t] = mon_count /\ \A u \in Threads \ {t} : levels[u] = 0
    BY <1>2, ThreadsAssumption DEF levels
  <2>2. \A u \in Threads : (IF mon_owner' = u THEN mon_count' ELSE 0)
                            = IF u = t THEN mon_count - 1 ELSE 0
    BY <1>1, <1>2, ThreadsAssumption
  <2> QED BY <2>1, <2>2 DEF levels
<1>4. given' = given /\ given[t] = 0 /\ levels[t] > 0
  BY <1>1, <1>2 DEF given, levels
<1>5. Atomic!Leave(t)
  BY <1>3, <1>4 DEF Atomic!Leave
<1> QED BY <1>5 DEF AtomicStep, Atomic!Next

LEMMA WaitAtomic ==
    ASSUME TypeOK, Kept, NEW t \in Threads, Wait(t)
    PROVE  AtomicStep
<1>1. CASE Refuse(t)
  BY <1>1, StillLevels DEF Refuse
<1>2. CASE ~ Refuse(t)
  <2>1. /\ pc[t] = "run" /\ mon_owner = t
        /\ count' = [count EXCEPT ![t] = mon_count]
        /\ mon_owner' = NoThread /\ mon_count' = 0
        /\ pc'[t] = "wait_saved" /\ \A u \in Threads \ {t} : pc'[u] = pc[u]
    BY <1>2 DEF Wait, Begin, At, Goto, TypeOK
  <2>2. mon_count = depth[t] /\ depth[t] > 0
    BY <2>1, OwnerLevels
  <2>3. levels' = [levels EXCEPT ![t] = 0] /\ levels[t] = mon_count
    BY <2>1, ThreadsAssumption DEF levels
  <2>4. count'[t] = mon_count /\ \A u \in Threads \ {t} : count'[u] = count[u]
    BY <2>1 DEF TypeOK
  <2>5. given' = [given EXCEPT ![t] = mon_count] /\ given[t] = 0
    BY <2>1, <2>4 DEF given
  <2>6. Atomic!Wait(t)
    BY <2>2, <2>3, <2>5 DEF Atomic!Wait
  <2> QED BY <2>6 DEF AtomicStep, Atomic!Next
<1> QED BY <1>1, <1>2

LEMMA RestoreAtomic ==
    ASSUME TypeOK, Kept, NEW t \in Threads, Restore(t)
    PROVE  AtomicStep
<1>1. /\ pc[t] = "restore" /\ count' = count
      /\ mon_owner' = t /\ mon_count' = count[t]
      /\ pc'[t] = "run" /\ \A u \in Threads \ {t} : pc'[u] = pc[u]
  BY DEF Restore, At, Goto, TypeOK
<1>2. mon_owner = NoThread /\ count[t] > 0
  BY <1>1, OwnerLevels DEF Kept, Saved
<1>3. \A u \in Threads : levels[u] = 0
  BY <1>2, ThreadsAssumption DEF levels
<1>4. given[t] = count[t] /\ given' = [given EXCEPT ![t] = 0]
  BY <1>1 DEF given
<1>5. levels' = [levels EXCEPT ![t] = given[t]]
  BY <1>1, <1>2, <1>4, ThreadsAssumption DEF levels
<1>6. Atomic!Resume(t)
  BY <1>2, <1>3, <1>4, <1>5 DEF Atomic!Resume, Atomic!FreeFor
<1> QED BY <1>6 DEF AtomicStep, Atomic!Next

LEMMA ThrowAtomic ==
    ASSUME TypeOK, NEW t \in Threads, Throw(t), ~ torn'
    PROVE  AtomicStep
<1>1. UNCHANGED <<mon_owner, mon_count, count>> /\ pc[t] # "sleep"
  BY DEF Throw
<1>2. CASE Caught(t)
  BY <1>1, <1>2, MoveLevels DEF Caught
<1>3. CASE Left(t)
  BY <1>1, <1>3, MoveLevels DEF Left, Tears
<1> QED BY <1>2, <1>3 DEF Throw, LeftLocked

LEMMA EnterAtomic ==
    ASSUME TypeOK, Kept, NEW t \in Threads,
           Enter(t) \/ TryEnter(t) \/ EnterLock(t) \/ Own(t)
    PROVE  AtomicStep
<1>1. CASE (EnterAgain(t) /\ pc[t] = "run") \/ Own(t)
  BY <1>1, EnteredAtomic DEF EnterAgain, Own, At
<1>2. CASE (Locks(t) \/ EnterWait(t)) /\ pc[t] \in {"run", "enter_lock"}
  <2>1. PICK p \in {"enter_lock", "enter_locked"} : Goto(t, p)
    BY <1>2 DEF Locks, EnterWait
  <2> QED BY <1>2, <2>1, MoveLevels DEF Locks, EnterWait
<1>3. CASE Refuse(t) \/ UNCHANGED <<monVars, pc, callVars>>
  BY <1>3, StillLevels DEF Refuse
<1> QED BY <1>1, <1>2, <1>3
        DEF Enter, TryEnter, EnterLock, EnterFree, EnterRecursive, Begin, At

\* Steps that move on, between two points of a wait or two other points.
LEMMA MoveAtomic ==
    ASSUME TypeOK, NEW t \in Threads,
           \/ EnterDone(t) \/ WaitList(t) \/ WaitRefused(t) \/ WaitSleep(t) \/ Awake(t)
           \/ Relock(t) \/ Signal(t) \/ Broadcast(t) \/ SignalShift(t) \/ Retry(t)
           \/ BroadcastTake(t) \/ BroadcastRefused(t) \/ RunDone(t) \/ Finish(t)
    PROVE  AtomicStep
<1>1. CASE EnterDone(t) \/ BroadcastRefused(t) \/ RunDone(t)
  BY <1>1, MoveLevels DEF EnterDone, BroadcastRefused, RunDone, At
<1>2. CASE SignalShift(t) \/ Retry(t) \/ BroadcastTake(t) \/ Finish(t)
  BY <1>2, MoveLevels DEF SignalShift, Retry, BroadcastTake, Finish, WithList, At
<1>3. CASE WaitList(t) \/ WaitRefused(t) \/ Awake(t) \/ Relock(t)
  BY <1>3, MoveLevels DEF WaitList, WaitRefused, Awake, Relock, WithList, At
<1>4. CASE WaitSleep(t)
  <2>1. Goto(t, "sleep") \/ Goto(t, "restore")
    BY <1>4 DEF WaitSleep
  <2> QED BY <1>4, <2>1, MoveLevels DEF WaitSleep, At
<1>5. CASE Signal(t) \/ Broadcast(t)
  <2>1. CASE Refuse(t)
    BY <2>1, StillLevels DEF Refuse
  <2>2. CASE ~ Refuse(t)
    <3>1. /\ pc[t] = "run"
          /\ Goto(t, "signal_lock") \/ Goto(t, "broadcast_lock")
          /\ UNCHANGED <<mon_owner, mon_count, count>>
      BY <1>5, <2>2 DEF Signal, Broadcast, Call, Begin, At
    <3> QED BY <3>1, MoveLevels
  <2> QED BY <2>1, <2>2
<1> QED BY <1>1, <1>2, <1>3, <1>4, <1>5

LEMMA StepAtomic ==
    ASSUME TypeOK, Kept, NEW t \in Threads, Step(t), ~ torn'
    PROVE  AtomicStep
<1>1. CASE Enter(t) \/ TryEnter(t) \/ EnterLock(t) \/ Own(t)
  BY <1>1, EnterAtomic
<1>2. CASE ExitDone(t) \/ Wait(t) \/ Restore(t) \/ Throw(t)
  BY <1>2, ExitAtomic, WaitAtomic, RestoreAtomic, ThrowAtomic
<1>3. CASE \/ EnterDone(t) \/ WaitList(t) \/ WaitRefused(t) \/ WaitSleep(t) \/ Awake(t)
           \/ Relock(t) \/ Signal(t) \/ Broadcast(t) \/ SignalShift(t) \/ Retry(t)
           \/ BroadcastTake(t) \/ BroadcastRefused(t) \/ RunDone(t) \/ Finish(t)
  BY <1>3, MoveAtomic
<1>4. CASE Exit(t)
  <2>1. CASE mon_owner = t
    BY <1>4, <2>1, MoveLevels DEF Exit, At
  <2>2. CASE mon_owner # t
    BY <1>4, <2>2, StillLevels DEF Exit
  <2> QED BY <2>1, <2>2
<1>5. CASE \/ Run(t) \/ Swallow(t) \/ Rescue(t)
           \/ \E u \in Threads : Interrupt(t, u) \/ Wakeup(t, u)
  BY <1>5, StillLevels DEF Run, Swallow, Rescue, Interrupt, Wakeup
<1> QED BY <1>1, <1>2, <1>3, <1>4, <1>5 DEF Step, Progress

\* A Monitor implements AtomicMonitor as long as nothing is torn, for any threads,
\* nesting, wake-ups and exceptions: one thread at a time has it, and a wait gives
\* up all its levels and comes back to as many, alone.
THEOREM MonitorRefinement == Spec => ImplementsMonitor
<1>1. Init => Atomic!Init
  BY ThreadsAssumption DEF Init, Atomic!Init, levels, given
<1>2. MonitorInv /\ MonitorInv' /\ [Next]_vars =>
        [torn' \/ Atomic!Next]_<<levels, given>>
  <2> SUFFICES ASSUME MonitorInv, [Next]_vars, ~ torn'
               PROVE  AtomicStep
    BY DEF AtomicStep
  <2>1. TypeInv /\ TypeOK /\ Kept
    BY TornStays DEF MonitorInv, TypeInv
  <2>2. CASE UNCHANGED vars
    BY <2>2, StillLevels DEF vars
  <2>3. ASSUME NEW t \in Threads, Step(t) PROVE AtomicStep
    BY <2>1, <2>3, StepAtomic
  <2> QED BY <2>2, <2>3 DEF Next
<1> QED BY <1>1, <1>2, MonitorInvariant, PTL DEF Spec, ImplementsMonitor
=============================================================================
