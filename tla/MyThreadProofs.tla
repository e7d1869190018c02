--------------------------- MODULE MyThreadProofs ---------------------------
(***************************************************************************)
(* Proofs about MyThread, for any set of threads.                          *)
(*                                                                         *)
(* Each theorem has an invariant of its own, beside what all of them rest  *)
(* on: a thread is being created by one other, and runs only after that.   *)
(***************************************************************************)
EXTENDS MyThread, TLAPS

Inside == {"increment", "stack", "clone"}

InCreate == Inside \cup {"waitpid", "created"}

InJoin == {"poll", "result", "joined"}

\* The call of mythread_create for a thread is the one of its creator, and
\* the thread is running only once clone has succeeded.
Creation ==
    /\ \A a \in Agents : pc[a] \in InCreate =>
         /\ Thread(a) \in Threads \ known
         /\ creator[Thread(a)] = a
    /\ \A a \in Agents : pc[a] \in Inside => pc[Thread(a)] = "unborn"
    /\ \A a \in Agents : pc[a] \in InJoin => Thread(a) \in Threads
    /\ \A t \in Threads : creator[t] = None => pc[t] = "unborn"
    /\ \A t \in known : creator[t] # None

\* The result of a thread is in its structure before the flag is set, and
\* neither changes afterwards.
Results ==
    /\ \A t \in Threads :
         pc[t] = "finished" => struct[t].retval = t
    /\ \A t \in Threads : struct[t].finished =>
         /\ struct[t].retval = t
         /\ pc[t] \in {"leave", "gone"}
    /\ \A a \in Agents : pc[a] = "result" => struct[Thread(a)].finished
    /\ JoinGetsResult

\* Calls that do not overlap find the counter as they have left it, above
\* the numbers of all stacks.
Numbers ==
    /\ OwnStacks
    /\ ~overlapped =>
         /\ \A a, b \in Agents :
              pc[a] \in Creating /\ pc[b] \in Creating => a = b
         /\ \A a \in Agents :
              pc[a] = "increment" => loc[a].id = mythread_id
         /\ \A t \in Threads : struct[t].stack # None =>
              /\ struct[t].stack <= mythread_id
              /\ \A a \in Agents :
                   pc[a] = "stack" => struct[t].stack < mythread_id

\* What a thread that is not joinable is while mythread_create waits for it.
Waiting(a) ==
    /\ pc[a] \in {"clone", "waitpid", "created"} =>
         struct[Thread(a)].joinable = loc[a].is_joinable
    /\ pc[a] = "waitpid" => ~loc[a].is_joinable
    /\ pc[a] \in {"unborn", "user"} \cup Inside => loc[a].child = None
    /\ pc[a] = "waitpid" =>
         \/ loc[a].child = None /\ pc[Thread(a)] = "unborn"
         \/ /\ loc[a].child = Thread(a)
            /\ pc[Thread(a)] # "unborn"
            /\ group[Thread(a)] = Thread(a)
    /\ pc[a] = "created" /\ ~loc[a].is_joinable =>
         pc[Thread(a)] \in {"unborn", "gone"} /\ Ended(Thread(a))

\* A process has no thread before it has been started, and no new ones once
\* it has ended.
Processes ==
    /\ group[Main] = Main
    /\ \A t \in Threads : pc[t] = "unborn" => Ended(t)
    /\ \A t \in reaped : pc[t] # "unborn" /\ Ended(t)
    /\ \A a \in Agents : Waiting(a)
    /\ RunsBeforeReturn

IInv == TypeOK /\ Creation /\ Results /\ Numbers /\ Processes

-----------------------------------------------------------------------------
\* No call is under way before main runs.
LEMMA InitInvariant == Init => IInv
<1> SUFFICES ASSUME Init PROVE IInv
  OBVIOUS
<1>1. TypeOK
  BY MyThreadAssumption
  DEF Init, TypeOK, Agents, Structs, NoStruct, Locals, NoLocals, Places
<1>2. Creation /\ Results /\ Numbers
  BY MyThreadAssumption
  DEF Init, Creation, Results, Numbers, OwnStacks, JoinGetsResult, Agents,
      NoStruct, Inside, InCreate, InJoin, Creating
<1>3. Processes
  BY MyThreadAssumption
  DEF Init, Processes, Waiting, Ended, RunsBeforeReturn, Agents, NoLocals,
      Inside
<1> QED
  BY <1>1, <1>2, <1>3 DEF IInv

\* Setting a flag keeps the type of the structures.
LEMMA FlagTypes ==
    ASSUME NEW S \in [Threads -> Structs], NEW t \in Threads
    PROVE  /\ [S EXCEPT ![t].finished = TRUE] \in [Threads -> Structs]
           /\ [S EXCEPT ![t].joined = TRUE] \in [Threads -> Structs]
<1>1. /\ [S[t] EXCEPT !.finished = TRUE] \in Structs
      /\ [S[t] EXCEPT !.joined = TRUE] \in Structs
  BY DEF Structs
<1> QED
  BY <1>1

\* Every call keeps to the types.
LEMMA TypesStep == TypeOK /\ Creation /\ [Next]_vars => TypeOK'
<1> SUFFICES ASSUME TypeOK, Creation, [Next]_vars PROVE TypeOK'
  OBVIOUS
<1> USE MyThreadAssumption DEF TypeOK, Agents, At, Goto, Thread, Places
<1>0. NoLocals \in Locals
  BY DEF NoLocals, Locals
<1>1. ASSUME NEW a \in Agents, NEW t \in Threads, NEW joinable \in BOOLEAN,
             Call(a, t, joinable)
      PROVE  TypeOK'
  BY <1>1 DEF Call, Locals
<1>2. ASSUME NEW a \in Agents, Stack(a) PROVE TypeOK'
  BY <1>2 DEF Stack, Structs, NoStruct, Locals
<1>3. ASSUME NEW a \in Agents, Increment(a) \/ NoStack(a) \/ CloneFails(a)
      PROVE  TypeOK'
  <2>1. CASE Increment(a)
    BY <2>1 DEF Increment, Locals
  <2>2. CASE NoStack(a)
    BY <2>2, <1>0 DEF NoStack
  <2>3. CASE CloneFails(a)
    BY <2>3 DEF CloneFails
  <2> QED
    BY <1>3, <2>1, <2>2, <2>3
<1>4. ASSUME NEW a \in Agents, Clone(a) PROVE TypeOK'
  <2>1. Thread(a) \in Threads
    BY <1>4 DEF Clone, CloneInto, Creation, InCreate, Inside
  <2> QED
    BY <1>4, <2>1 DEF Clone, CloneInto, Locals
<1>5. ASSUME NEW a \in Agents, Waitpid(a) PROVE TypeOK'
  BY <1>5 DEF Waitpid, Children
<1>6. ASSUME NEW a \in Agents, Created(a) PROVE TypeOK'
  <2>1. Thread(a) \in Threads
    BY <1>6 DEF Created, Creation, InCreate
  <2> QED
    BY <1>0, <1>6, <2>1 DEF Created
<1>7. ASSUME NEW a \in Agents, mythread_join(a) PROVE TypeOK'
  <2>1. ASSUME NEW t \in Threads, Join(a, t) PROVE TypeOK'
    BY <2>1 DEF Join, Locals
  <2>2. ASSUME Poll(a) PROVE TypeOK'
    BY <2>2 DEF Poll
  <2>3. ASSUME Result(a) PROVE TypeOK'
    <3>1. Thread(a) \in Threads
      BY <2>3 DEF Result, Creation, InJoin
    <3> QED
      BY <2>3, <3>1 DEF Result, Locals, Structs
  <2>4. ASSUME Joined(a) PROVE TypeOK'
    <3>1. Thread(a) \in Threads
      BY <2>4 DEF Joined, Creation, InJoin
    <3>2. struct' \in [Threads -> Structs]
      BY <2>4, <3>1, FlagTypes DEF Joined
    <3>3. /\ loc' = [loc EXCEPT ![a] = NoLocals]
          /\ pc' = [pc EXCEPT ![a] = "user"]
          /\ UNCHANGED <<mythread_id, creator, group, reaped, known, clobbered,
                         overlapped>>
      BY <2>4 DEF Joined
    <3> QED
      BY <1>0, <3>2, <3>3
  <2> QED
    BY <1>7, <2>1, <2>2, <2>3, <2>4 DEF mythread_join
<1>8. ASSUME NEW t \in Threads, thread_startup(t) PROVE TypeOK'
  <2>1. CASE Return(t) \/ Leave(t)
    BY <2>1 DEF Return, Leave
  <2>2. CASE Retval(t)
    <3>1. struct' \in [Threads -> Structs]
      BY <2>2 DEF Retval, Structs
    <3> QED
      BY <2>2, <3>1 DEF Retval
  <2>3. CASE Finished(t)
    BY <2>3, FlagTypes DEF Finished
  <2> QED
    BY <1>8, <2>1, <2>2, <2>3 DEF thread_startup
<1>9. CASE UNCHANGED vars
  BY <1>9 DEF vars
<1> QED
  BY <1>1, <1>2, <1>3, <1>4, <1>5, <1>6, <1>7, <1>8, <1>9
  DEF Next, mythread_create

\* A thread has one creator, which starts it at most once.
LEMMA CreationStep == TypeOK /\ Creation /\ [Next]_vars => Creation'
<1> SUFFICES ASSUME TypeOK, Creation, [Next]_vars PROVE Creation'
  OBVIOUS
<1> USE MyThreadAssumption
    DEF TypeOK, Agents, At, Goto, Thread, Places, Creation, InCreate, Inside,
        InJoin, Locals
<1>1. ASSUME NEW a \in Agents, NEW t \in Threads, NEW joinable \in BOOLEAN,
             Call(a, t, joinable)
      PROVE  Creation'
  BY <1>1 DEF Call
<1>2. ASSUME NEW a \in Agents, Increment(a) \/ Stack(a) \/ CloneFails(a)
      PROVE  Creation'
  <2>1. CASE Increment(a)
    BY <2>1 DEF Increment
  <2>2. CASE Stack(a)
    BY <2>2 DEF Stack
  <2>3. CASE CloneFails(a)
    BY <2>3 DEF CloneFails
  <2> QED
    BY <1>2, <2>1, <2>2, <2>3
<1>3. ASSUME NEW a \in Agents, NoStack(a) PROVE Creation'
  BY <1>3 DEF NoStack, NoLocals
<1>4. ASSUME NEW a \in Agents, Clone(a) PROVE Creation'
  BY <1>4 DEF Clone, CloneInto
<1>5. ASSUME NEW a \in Agents, Waitpid(a) PROVE Creation'
  BY <1>5 DEF Waitpid, Children
<1>6. ASSUME NEW a \in Agents, Created(a) PROVE Creation'
  BY <1>6 DEF Created, NoLocals
<1>7. ASSUME NEW a \in Agents, NEW t \in Threads, Join(a, t) PROVE Creation'
  BY <1>7 DEF Join
<1>8. ASSUME NEW a \in Agents, Poll(a) \/ Result(a) \/ Joined(a)
      PROVE  Creation'
  BY <1>8 DEF Poll, Result, Joined, NoLocals
<1>9. ASSUME NEW t \in Threads, thread_startup(t) PROVE Creation'
  BY <1>9 DEF thread_startup, Return, Retval, Finished, Leave
<1>10. CASE UNCHANGED vars
  BY <1>10 DEF vars
<1> QED
  BY <1>1, <1>2, <1>3, <1>4, <1>5, <1>6, <1>7, <1>8, <1>9, <1>10
  DEF Next, mythread_create, mythread_join

\* mythread_create touches the structure of a thread only before it runs, and
\* the thread sets its flag last.
LEMMA ResultsStep == TypeOK /\ Creation /\ Results /\ [Next]_vars => Results'
<1> SUFFICES ASSUME TypeOK, Creation, Results, [Next]_vars PROVE Results'
  OBVIOUS
<1> USE MyThreadAssumption
    DEF TypeOK, Agents, At, Goto, Thread, Places, Results, JoinGetsResult
<1> USE DEF Locals
<1>1. ASSUME NEW a \in Agents, NEW t \in Threads, NEW joinable \in BOOLEAN,
             Call(a, t, joinable)
      PROVE  Results'
  BY <1>1 DEF Call
<1>2. ASSUME NEW a \in Agents, Increment(a) \/ CloneFails(a) \/ Waitpid(a)
      PROVE  Results'
  <2>1. CASE Increment(a)
    BY <2>1 DEF Increment
  <2>2. CASE CloneFails(a)
    BY <2>2 DEF CloneFails
  <2>3. CASE Waitpid(a)
    BY <2>3 DEF Waitpid
  <2> QED
    BY <1>2, <2>1, <2>2, <2>3
<1>3. ASSUME NEW a \in Agents, Stack(a) PROVE Results'
  <2>1. Thread(a) \in Threads /\ pc[Thread(a)] = "unborn"
    BY <1>3 DEF Stack, Creation, InCreate, Inside
  <2> QED
    BY <1>3, <2>1 DEF Stack, Structs, NoStruct, Creation, InJoin
<1>4. ASSUME NEW a \in Agents, NoStack(a) \/ Created(a) PROVE Results'
  BY <1>4 DEF NoStack, Created, NoLocals
<1>5. ASSUME NEW a \in Agents, Clone(a) PROVE Results'
  <2>1. Thread(a) \in Threads /\ pc[Thread(a)] = "unborn"
    BY <1>5 DEF Clone, CloneInto, Creation, InCreate, Inside
  <2> QED
    BY <1>5, <2>1 DEF Clone, CloneInto
<1>6. ASSUME NEW a \in Agents, mythread_join(a) PROVE Results'
  <2>1. ASSUME NEW t \in Threads, Join(a, t) PROVE Results'
    BY <2>1 DEF Join
  <2>2. CASE Poll(a)
    BY <2>2 DEF Poll
  <2>3. CASE Result(a)
    BY <2>3 DEF Result, Creation, InJoin
  <2>4. CASE Joined(a)
    BY <2>4 DEF Joined, NoLocals, Structs, Creation, InJoin
  <2> QED
    BY <1>6, <2>1, <2>2, <2>3, <2>4 DEF mythread_join
<1>7. ASSUME NEW t \in Threads, thread_startup(t) PROVE Results'
  <2>1. CASE Return(t) \/ Leave(t)
    BY <2>1 DEF Return, Leave
  <2>2. CASE Retval(t)
    BY <2>2 DEF Retval, Structs, Creation, InJoin
  <2>3. CASE Finished(t)
    BY <2>3 DEF Finished, Structs, Creation, InJoin
  <2> QED
    BY <1>7, <2>1, <2>2, <2>3 DEF thread_startup
<1>8. CASE UNCHANGED vars
  BY <1>8 DEF vars
<1> QED
  BY <1>1, <1>2, <1>3, <1>4, <1>5, <1>6, <1>7, <1>8 DEF Next, mythread_create

\* A call alone between its two accesses to the counter makes it larger.
LEMMA NumbersStep == TypeOK /\ Creation /\ Numbers /\ [Next]_vars => Numbers'
<1> SUFFICES ASSUME TypeOK, Creation, Numbers, [Next]_vars PROVE Numbers'
  OBVIOUS
<1> USE MyThreadAssumption
    DEF TypeOK, Agents, At, Goto, Thread, Places, Numbers, OwnStacks, Creating
<1> USE DEF Locals
<1>1. ASSUME NEW a \in Agents, NEW t \in Threads, NEW joinable \in BOOLEAN,
             Call(a, t, joinable)
      PROVE  Numbers'
  <2>1. ASSUME ~overlapped'
        PROVE  ~overlapped /\ \A b \in Agents : pc[b] \notin Creating
    BY <1>1, <2>1 DEF Call
  <2>2. /\ pc' = [pc EXCEPT ![a] = "increment"]
        /\ loc'[a].id = mythread_id
        /\ \A b \in Agents \ {a} : loc'[b] = loc[b]
        /\ overlapped => overlapped'
        /\ UNCHANGED <<mythread_id, struct, clobbered>>
    BY <1>1 DEF Call
  <2> QED
    BY <2>1, <2>2
<1>2. ASSUME NEW a \in Agents, Increment(a) PROVE Numbers'
  BY <1>2 DEF Increment, Structs
<1>3. ASSUME NEW a \in Agents, Stack(a) PROVE Numbers'
  <2>1. Thread(a) \in Threads
    BY <1>3 DEF Stack, Creation, InCreate, Inside
  <2> QED
    BY <1>3, <2>1 DEF Stack, Structs, NoStruct
<1>4. ASSUME NEW a \in Agents, NoStack(a) PROVE Numbers'
  BY <1>4 DEF NoStack, NoLocals
<1>5. ASSUME NEW a \in Agents, Clone(a) PROVE Numbers'
  <2>1. Thread(a) \in Threads
    BY <1>5 DEF Clone, CloneInto, Creation, InCreate, Inside
  <2> QED
    BY <1>5, <2>1 DEF Clone, CloneInto
<1>6. ASSUME NEW a \in Agents, CloneFails(a) \/ Waitpid(a) \/ Created(a)
      PROVE  Numbers'
  BY <1>6 DEF CloneFails, Waitpid, Created
<1>7. ASSUME NEW a \in Agents, mythread_join(a) PROVE Numbers'
  <2>1. ASSUME NEW t \in Threads, Join(a, t) PROVE Numbers'
    BY <2>1 DEF Join
  <2>2. CASE Poll(a) \/ Result(a)
    BY <2>2 DEF Poll, Result
  <2>3. CASE Joined(a)
    BY <2>3 DEF Joined, Structs
  <2> QED
    BY <1>7, <2>1, <2>2, <2>3 DEF mythread_join
<1>8. ASSUME NEW t \in Threads, thread_startup(t) PROVE Numbers'
  <2>1. CASE Return(t) \/ Leave(t)
    BY <2>1 DEF Return, Leave
  <2>2. CASE Retval(t) \/ Finished(t)
    BY <2>2 DEF Retval, Finished, Structs
  <2> QED
    BY <1>8, <2>1, <2>2 DEF thread_startup
<1>9. CASE UNCHANGED vars
  BY <1>9 DEF vars
<1> QED
  BY <1>1, <1>2, <1>3, <1>4, <1>5, <1>6, <1>7, <1>8, <1>9
  DEF Next, mythread_create

\* Nothing new can be started in a process whose threads have all gone.
LEMMA EndedStays ==
    ASSUME TypeOK, Creation, [Next]_vars, group[Main] = Main,
           NEW t \in Threads, Ended(t),
           \A a \in Agents :
               pc[a] = "clone" /\ Thread(a) = t => pc'[t] = "unborn"
    PROVE  Ended(t)'
<1> USE MyThreadAssumption DEF TypeOK, Agents, At, Goto, Thread, Places, Ended
<1>1. ASSUME NEW a \in Agents, Clone(a) PROVE Ended(t)'
  <2>1. Thread(a) \in Threads /\ Thread(a) # t /\ group[a] # t
    BY <1>1 DEF Clone, CloneInto, Creation, InCreate, Inside
  <2> QED
    BY <1>1, <2>1 DEF Clone, CloneInto
<1>2. ASSUME NEW a \in Agents, mythread_create(a), ~Clone(a)
      PROVE  Ended(t)'
  BY <1>2 DEF mythread_create, Call, Increment, Stack, NoStack, CloneFails,
              Waitpid, Created
<1>3. ASSUME NEW a \in Agents, mythread_join(a) PROVE Ended(t)'
  BY <1>3 DEF mythread_join, Join, Poll, Result, Joined
<1>4. ASSUME NEW u \in Threads, thread_startup(u) PROVE Ended(t)'
  BY <1>4 DEF thread_startup, Return, Retval, Finished, Leave
<1>5. CASE UNCHANGED vars
  BY <1>5 DEF vars
<1> QED
  BY <1>1, <1>2, <1>3, <1>4, <1>5 DEF Next

\* Only clone starts a thread and chooses its process.
LEMMA LifeStep ==
    ASSUME TypeOK, Creation, [Next]_vars
    PROVE  /\ group'[Main] = group[Main]
           /\ \A t \in Threads : pc[t] = "gone" => pc'[t] = "gone"
           /\ \A t \in Threads : pc[t] # "unborn" =>
                pc'[t] # "unborn" /\ group'[t] = group[t]
           /\ \A t \in Threads :
                \/ pc[t] # "unborn"
                \/ pc'[t] = "unborn"
                \/ \E a \in Agents : pc[a] = "clone" /\ Thread(a) = t
<1> DEFINE Life ==
             /\ group'[Main] = group[Main]
             /\ \A t \in Threads : pc[t] = "gone" => pc'[t] = "gone"
             /\ \A t \in Threads : pc[t] # "unborn" =>
                  pc'[t] # "unborn" /\ group'[t] = group[t]
             /\ \A t \in Threads :
                  \/ pc[t] # "unborn"
                  \/ pc'[t] = "unborn"
                  \/ \E a \in Agents : pc[a] = "clone" /\ Thread(a) = t
<1> USE MyThreadAssumption DEF TypeOK, Agents, At, Goto, Places
<1>1. ASSUME NEW a \in Agents, Clone(a) PROVE Life
  <2>1. Thread(a) \in Threads /\ pc[Thread(a)] = "unborn"
    BY <1>1 DEF Clone, CloneInto, Creation, InCreate, Inside
  <2> QED
    BY <1>1, <2>1 DEF Clone, CloneInto
<1>2. ASSUME NEW a \in Agents, mythread_create(a), ~Clone(a) PROVE Life
  <2>1. PICK place \in Places \ {"unborn"} :
          /\ pc' = [pc EXCEPT ![a] = place]
          /\ pc[a] \notin {"unborn", "gone"}
          /\ UNCHANGED group
    BY <1>2 DEF mythread_create, Call, Increment, Stack, NoStack, CloneFails,
                Waitpid, Created
  <2> QED
    BY <2>1
<1>3. ASSUME NEW a \in Agents, mythread_join(a) PROVE Life
  BY <1>3 DEF mythread_join, Join, Poll, Result, Joined
<1>4. ASSUME NEW u \in Threads, thread_startup(u) PROVE Life
  BY <1>4 DEF thread_startup, Return, Retval, Finished, Leave
<1>5. CASE UNCHANGED vars
  BY <1>5 DEF vars
<1> QED
  BY <1>1, <1>2, <1>3, <1>4, <1>5 DEF Next

\* The call of one thread is not touched by the steps of another.
LEMMA OthersStep ==
    ASSUME TypeOK, Creation, NEW a \in Agents, NEW b \in Agents \ {a},
           \/ mythread_create(a)
           \/ mythread_join(a)
           \/ a \in Threads /\ thread_startup(a)
    PROVE  /\ loc'[b] = loc[b]
           /\ pc'[b] # pc[b] => pc[b] = "unborn" /\ pc'[b] = "user"
           /\ pc[b] \in InCreate =>
                struct'[Thread(b)].joinable = struct[Thread(b)].joinable
<1> DEFINE Alone ==
             /\ loc'[b] = loc[b]
             /\ pc'[b] # pc[b] => pc[b] = "unborn" /\ pc'[b] = "user"
             /\ pc[b] \in InCreate =>
                  struct'[Thread(b)].joinable = struct[Thread(b)].joinable
<1> USE MyThreadAssumption DEF TypeOK, Agents, At, Goto, Thread, Places
<1>1. ASSUME Clone(a) PROVE Alone
  <2>1. Thread(a) \in Threads /\ pc[Thread(a)] = "unborn"
    BY <1>1 DEF Clone, CloneInto, Creation, InCreate, Inside
  <2> QED
    BY <1>1, <2>1 DEF Clone, CloneInto
<1>2. ASSUME Stack(a) PROVE Alone
  <2>1. pc[b] \in InCreate => Thread(b) # Thread(a)
    BY <1>2 DEF Stack, Creation, InCreate, Inside
  <2>2. struct' = [struct EXCEPT ![Thread(a)] = struct'[Thread(a)]]
    BY <1>2 DEF Stack
  <2>3. pc[b] \in InCreate => struct'[Thread(b)] = struct[Thread(b)]
    BY <2>1, <2>2 DEF Creation
  <2> QED
    BY <1>2, <2>3 DEF Stack
<1>3. ASSUME mythread_create(a), ~Clone(a), ~Stack(a) PROVE Alone
  BY <1>3 DEF mythread_create, Call, Increment, NoStack, CloneFails, Waitpid,
              Created
<1>4. ASSUME mythread_join(a) PROVE Alone
  BY <1>4 DEF mythread_join, Join, Poll, Result, Joined, Structs, Creation,
              InJoin
<1>5. ASSUME a \in Threads, thread_startup(a) PROVE Alone
  BY <1>5 DEF thread_startup, Return, Retval, Finished, Leave, Structs, Creation
<1> QED
  BY <1>1, <1>2, <1>3, <1>4, <1>5

\* What a caller of mythread_create knows stays true while others run.
LEMMA WaitingStays ==
    ASSUME TypeOK, Creation, Processes, [Next]_vars,
           NEW b \in Agents, pc'[b] = pc[b], loc'[b] = loc[b],
           pc[b] \in InCreate =>
               struct'[Thread(b)].joinable = struct[Thread(b)].joinable
    PROVE  Waiting(b)'
<1> DEFINE t == Thread(b)
<1>1. Waiting(b) /\ group[Main] = Main
  BY DEF Processes
<1>2. /\ Thread(b)' = t
      /\ loc'[b].is_joinable = loc[b].is_joinable
      /\ loc'[b].child = loc[b].child
  BY DEF Thread
<1>3. ASSUME pc[b] \in {"waitpid", "created"}
      PROVE  /\ t \in Threads
             /\ \A a \in Agents : pc[a] = "clone" => Thread(a) # t
  BY <1>3 DEF Creation, InCreate, Inside
<1>4. ASSUME pc[b] = "waitpid"
      PROVE  \/ loc[b].child = None /\ pc'[t] = "unborn"
             \/ /\ loc[b].child = t
                /\ pc'[t] # "unborn"
                /\ group'[t] = t
  BY <1>1, <1>3, <1>4, LifeStep DEF Waiting
<1>5. ASSUME pc[b] = "created", ~loc[b].is_joinable
      PROVE  pc'[t] \in {"unborn", "gone"} /\ Ended(t)'
  <2>1. t \in Threads /\ Ended(t) /\ pc[t] \in {"unborn", "gone"}
    BY <1>1, <1>3, <1>5 DEF Waiting
  <2>2. PICK u \in Threads : u = t
    BY <2>1
  <2>3. Ended(u)'
    BY <1>1, <1>3, <1>5, <2>1, <2>2, EndedStays
  <2> QED
    BY <1>2, <1>3, <1>5, <2>1, <2>2, <2>3, LifeStep DEF Ended
<1> QED
  BY <1>1, <1>2, <1>4, <1>5 DEF Waiting, InCreate, Inside

\* A call of mythread_create leads from one stage of Waiting to the next.
LEMMA OwnStep ==
    ASSUME TypeOK, Creation, Processes, NEW a \in Agents,
           \/ mythread_create(a)
           \/ mythread_join(a)
           \/ a \in Threads /\ thread_startup(a)
    PROVE  Waiting(a)'
<1>0. Waiting(a)
  BY DEF Processes
<1> USE <1>0, MyThreadAssumption
    DEF TypeOK, Agents, At, Goto, Thread, Waiting, Inside
<1> USE DEF Locals
<1>1. ASSUME NEW t \in Threads, NEW joinable \in BOOLEAN,
             Call(a, t, joinable)
      PROVE  Waiting(a)'
  BY <1>1 DEF Call
<1>2. CASE Increment(a)
  BY <1>2 DEF Increment
<1>3. CASE Stack(a)
  <2>1. Thread(a) \in Threads
    BY <1>3 DEF Stack, Creation, InCreate
  <2> QED
    BY <1>3, <2>1 DEF Stack, NoStruct
<1>4. CASE NoStack(a) \/ Created(a)
  BY <1>4 DEF NoStack, Created, NoLocals
<1>5. CASE Clone(a)
  <2>1. Thread(a) \in Threads /\ pc[Thread(a)] = "unborn"
    BY <1>5 DEF Clone, CloneInto, Creation, InCreate
  <2>2. CASE loc[a].is_joinable
    BY <1>5, <2>1, <2>2 DEF Clone, CloneInto
  <2>3. CASE ~loc[a].is_joinable
    BY <1>5, <2>1, <2>3 DEF Clone, CloneInto
  <2> QED
    BY <2>2, <2>3
<1>6. CASE CloneFails(a)
  BY <1>6 DEF CloneFails, Creation, InCreate
<1>7. CASE Waitpid(a)
  <2> DEFINE t == Thread(a)
  <2>1. t \in Threads /\ creator[t] = a
    BY <1>7 DEF Waitpid, Creation, InCreate
  <2>2. pc[t] \in {"unborn", "gone"} /\ Ended(t)
    <3>1. CASE pc[t] = "unborn"
      BY <2>1, <3>1 DEF Processes
    <3>2. CASE pc[t] # "unborn"
      <4>1. loc[a].child = t /\ group[t] = t
        BY <1>7, <3>2 DEF Waitpid
      <4>2. t \in reaped => Ended(t)
        BY DEF Processes
      <4>3. t \notin reaped => t \in Children(a)
        BY <2>1, <3>2, <4>1 DEF Children
      <4>4. t \notin reaped => \E u \in Children(a) : u = t /\ Ended(u)
        BY <1>7, <2>1, <4>1, <4>3 DEF Waitpid
      <4>5. Ended(t)
        BY <4>2, <4>4
      <4> QED
        BY <2>1, <3>2, <4>1, <4>5 DEF Ended
    <3> QED
      BY <3>1, <3>2
  <2> QED
    BY <1>7, <2>2 DEF Waitpid, Ended
<1>8. CASE mythread_join(a)
  BY <1>8 DEF mythread_join, Join, Poll, Result, Joined, NoLocals
<1>9. CASE a \in Threads /\ thread_startup(a)
  BY <1>9 DEF thread_startup, Return, Retval, Finished, Leave
<1> QED
  BY <1>1, <1>2, <1>3, <1>4, <1>5, <1>6, <1>7, <1>8, <1>9 DEF mythread_create

\* What is written into the structure of a thread mythread_create has
\* returned for leaves the kind of the thread alone.
LEMMA KindStays ==
    ASSUME TypeOK, Creation, [Next]_vars, NEW t \in known
    PROVE  struct'[t].joinable = struct[t].joinable
<1> USE MyThreadAssumption DEF TypeOK, Agents, At, Thread
<1>1. ASSUME NEW a \in Agents, Stack(a)
      PROVE  struct'[t].joinable = struct[t].joinable
  <2>1. Thread(a) # t
    BY <1>1 DEF Stack, Creation, InCreate, Inside
  <2> QED
    BY <1>1, <2>1 DEF Stack
<1>2. ASSUME NEW a \in Agents, mythread_create(a), ~Stack(a)
      PROVE  struct'[t].joinable = struct[t].joinable
  BY <1>2 DEF mythread_create, Call, Increment, NoStack, Clone, CloneInto,
              CloneFails, Waitpid, Created
<1>3. ASSUME NEW a \in Agents, mythread_join(a)
      PROVE  struct'[t].joinable = struct[t].joinable
  BY <1>3 DEF mythread_join, Join, Poll, Result, Joined, Structs
<1>4. ASSUME NEW u \in Threads, thread_startup(u)
      PROVE  struct'[t].joinable = struct[t].joinable
  BY <1>4 DEF thread_startup, Return, Retval, Finished, Leave, Structs
<1>5. CASE UNCHANGED vars
  BY <1>5 DEF vars
<1> QED
  BY <1>1, <1>2, <1>3, <1>4, <1>5 DEF Next

\* A thread joins known only when mythread_create has finished with it, and
\* a process reaped only when it has ended.
LEMMA Returned ==
    ASSUME TypeOK, Creation, Processes, [Next]_vars
    PROVE  /\ \A t \in known' \ known :
                /\ ~struct'[t].joinable =>
                     pc[t] \in {"unborn", "gone"} /\ Ended(t)
                /\ \A a \in Agents : pc[a] = "clone" => Thread(a) # t
           /\ \A t \in reaped' \ reaped : pc[t] # "unborn" /\ Ended(t)
<1> DEFINE Right ==
             /\ \A t \in known' \ known :
                  /\ ~struct'[t].joinable =>
                       pc[t] \in {"unborn", "gone"} /\ Ended(t)
                  /\ \A a \in Agents : pc[a] = "clone" => Thread(a) # t
             /\ \A t \in reaped' \ reaped : pc[t] # "unborn" /\ Ended(t)
<1>1. ASSUME NEW a \in Agents, Created(a) PROVE Right
  <2>1. /\ Waiting(a) /\ pc[a] = "created"
        /\ Thread(a) \in Threads /\ creator[Thread(a)] = a
        /\ UNCHANGED <<struct, reaped>> /\ known' = known \cup {Thread(a)}
    BY <1>1 DEF Created, At, Processes, Creation, InCreate
  <2>2. \A b \in Agents : pc[b] = "clone" => Thread(b) # Thread(a)
    BY <2>1 DEF Creation, InCreate, Inside
  <2> QED
    BY <2>1, <2>2 DEF Waiting
<1>2. ASSUME NEW a \in Agents, Waitpid(a) PROVE Right
  BY <1>2 DEF Waitpid, Children
<1>3. ASSUME UNCHANGED <<known, reaped>> PROVE Right
  BY <1>3
<1>4. ASSUME NEW a \in Agents, mythread_create(a), ~Created(a), ~Waitpid(a)
      PROVE  Right
  BY <1>3, <1>4 DEF mythread_create, Call, Increment, Stack, NoStack, Clone,
                    CloneInto, CloneFails
<1>5. ASSUME NEW a \in Agents, mythread_join(a) PROVE Right
  BY <1>3, <1>5 DEF mythread_join, Join, Poll, Result, Joined
<1>6. ASSUME NEW t \in Threads, thread_startup(t) PROVE Right
  BY <1>3, <1>6 DEF thread_startup, Return, Retval, Finished, Leave
<1> QED
  BY <1>1, <1>2, <1>3, <1>4, <1>5, <1>6 DEF Next, vars

\* A step leads from processes that are in order to such processes.
LEMMA ProcessesStep ==
    TypeOK /\ Creation /\ Processes /\ [Next]_vars => Processes'
<1> SUFFICES ASSUME TypeOK, Creation, Processes, [Next]_vars PROVE Processes'
  OBVIOUS
<1>1. group'[Main] = Main
  BY LifeStep DEF Processes
<1>2. \A t \in Threads : pc'[t] = "unborn" => Ended(t)'
  <2> SUFFICES ASSUME NEW t \in Threads, pc'[t] = "unborn" PROVE Ended(t)'
    OBVIOUS
  <2>1. Ended(t)
    BY LifeStep DEF Processes
  <2> QED
    BY <2>1, EndedStays DEF Processes
<1>3. ASSUME NEW t \in Threads, t \in reaped'
      PROVE  pc'[t] # "unborn" /\ Ended(t)'
  <2>1. pc[t] # "unborn" /\ Ended(t)
    BY <1>3, Returned DEF Processes
  <2>2. \A a \in Agents : pc[a] = "clone" => Thread(a) # t
    BY <2>1 DEF Creation, Inside
  <2> QED
    BY <2>1, <2>2, LifeStep, EndedStays DEF Processes
<1>4. ASSUME NEW b \in Agents PROVE Waiting(b)'
  <2>1. ASSUME NEW a \in Agents,
               \/ mythread_create(a)
               \/ mythread_join(a)
               \/ a \in Threads /\ thread_startup(a)
        PROVE  Waiting(b)'
    <3>1. CASE a = b
      BY <2>1, <3>1, OwnStep
    <3>2. CASE a # b /\ pc'[b] = pc[b]
      BY <2>1, <3>2, OthersStep, WaitingStays
    <3>3. CASE a # b /\ pc'[b] # pc[b]
      <4>1. pc[b] = "unborn" /\ pc'[b] = "user" /\ loc'[b] = loc[b]
        BY <2>1, <3>3, OthersStep
      <4> QED
        BY <4>1 DEF Processes, Waiting, Inside
    <3> QED
      BY <3>1, <3>2, <3>3
  <2>2. CASE UNCHANGED vars
    BY <2>2, WaitingStays DEF vars
  <2> QED
    BY <2>1, <2>2 DEF Next, Agents
<1>5. ASSUME NEW t \in Threads, t \in known', ~struct'[t].joinable
      PROVE  pc'[t] \in {"unborn", "gone"} /\ Ended(t)'
  <2>1. /\ pc[t] \in {"unborn", "gone"} /\ Ended(t)
        /\ \A a \in Agents : pc[a] = "clone" => Thread(a) # t
    <3>1. CASE t \in known
      BY <1>5, <3>1, KindStays
      DEF Processes, RunsBeforeReturn, Creation, InCreate, Inside
    <3>2. CASE t \notin known
      BY <1>5, <3>2, Returned
    <3> QED
      BY <3>1, <3>2
  <2> QED
    BY <2>1, LifeStep, EndedStays DEF Processes
<1>6. known' \subseteq Threads /\ reaped' \subseteq Threads
  BY TypesStep DEF TypeOK
<1> QED
  BY <1>1, <1>2, <1>3, <1>4, <1>5, <1>6 DEF Processes, RunsBeforeReturn

-----------------------------------------------------------------------------
\* IInv is inductive.
LEMMA Invariant == Spec => []IInv
<1>1. IInv /\ [Next]_vars => IInv'
  BY TypesStep, CreationStep, ResultsStep, NumbersStep, ProcessesStep DEF IInv
<1> QED
  BY <1>1, InitInvariant, PTL DEF Spec

\* Types of the counter, the structures and the calls (mythread.c:21-141).
THEOREM TypeCorrect == Spec => []TypeOK
<1>1. IInv => TypeOK
  BY DEF IInv
<1> QED
  BY <1>1, Invariant, PTL

(***************************************************************************)
(* mythread_join takes what the routine has returned: thread->retval is    *)
(* written before thread->finished, and by nobody else once the thread     *)
(* runs (mythread.c:29-30, 134-139).                                       *)
(***************************************************************************)
THEOREM ResultsArrive == Spec => []JoinGetsResult
<1>1. IInv => JoinGetsResult
  BY DEF IInv, Results
<1> QED
  BY <1>1, Invariant, PTL

(***************************************************************************)
(* Without overlapping calls up to the creation of the stack, no stack is  *)
(* given twice, although mythread_id has no lock and failed calls leave it *)
(* incremented (mythread.c:84-91).                                         *)
(***************************************************************************)
THEOREM StacksAreOwn == Spec => []OwnStacks
<1>1. IInv => OwnStacks
  BY DEF IInv, Numbers
<1> QED
  BY <1>1, Invariant, PTL

(***************************************************************************)
(* A thread that is not joinable has ended, with its process, when its     *)
(* mythread_create has returned, whatever the waitpid(-1) of other calls   *)
(* has waited for (mythread.c:114-118).                                    *)
(***************************************************************************)
THEOREM EndsBeforeReturn == Spec => []RunsBeforeReturn
<1>1. IInv => RunsBeforeReturn
  BY DEF IInv, Processes
<1> QED
  BY <1>1, Invariant, PTL
=============================================================================
