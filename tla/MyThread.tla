------------------------------ MODULE MyThread -------------------------------
(***************************************************************************)
(* lab1/6: threads on clone.  mythread_create starts a thread, either      *)
(* joinable, as a member of the caller's process, or not, as a process of  *)
(* its own for whose end mythread_create waits; mythread_join waits for    *)
(* the routine of a thread and takes its result.  They communicate through *)
(* flags in a structure on the thread's stack, polled with usleep.         *)
(*                                                                         *)
(* The functions the threads run are the library's users: they, and main,  *)
(* create threads, join those they have created, and return.  An action is *)
(* one access to the static counter or to a flag, or one system call.      *)
(*                                                                         *)
(* Left out: memory that is not there for open, ftruncate and mmap makes   *)
(* create_stack fail as a whole; stacks are never unmapped, so a structure *)
(* can be read after its thread has gone; main does not return.            *)
(***************************************************************************)
EXTENDS Naturals

CONSTANTS
    Main,       \* the thread that runs main
    Threads,    \* the threads mythread_create may create
    None        \* no thread, or NULL

ASSUME MyThreadAssumption ==
    /\ Main \notin Threads
    /\ None \notin Threads \cup {Main} \cup Nat

Agents == Threads \cup {Main}

VARIABLES
    mythread_id,    \* the static counter
    struct,         \* the structures of the threads
    pc,             \* control state of everybody
    loc,            \* locals of the calls under way
    creator,        \* who has called mythread_create for a thread
    group,          \* the process a thread belongs to
    reaped,         \* processes somebody has waited for
    known,          \* threads whose mythread_create has returned 0
    clobbered,      \* a stack has been mapped that was in use
    overlapped      \* two calls of mythread_create have overlapped

vars == <<mythread_id, struct, pc, loc, creator, group, reaped, known,
          clobbered, overlapped>>

-----------------------------------------------------------------------------
\* stack: the number in the name of the file in which the structure is.
Structs == [stack : Nat \cup {None}, retval : Threads \cup {None},
            finished : BOOLEAN, joined : BOOLEAN, joinable : BOOLEAN]

NoStruct == [stack |-> None, retval |-> None, finished |-> FALSE,
             joined |-> FALSE, joinable |-> FALSE]

\* thread: the thread being created or joined.  is_joinable: the argument.
\* id: the register in which mythread_id is incremented.  child: the result
\* of clone, None for -1.  retval: where mythread_join stores the result.
Locals == [thread : Threads \cup {None}, is_joinable : BOOLEAN, id : Nat,
           child : Threads \cup {None}, retval : Threads \cup {None}]

NoLocals == [thread |-> None, is_joinable |-> FALSE, id |-> 0,
             child |-> None, retval |-> None]

Init ==
    /\ mythread_id = 0
    /\ struct = [t \in Threads |-> NoStruct]
    /\ pc = [a \in Agents |-> IF a = Main THEN "user" ELSE "unborn"]
    /\ loc = [a \in Agents |-> NoLocals]
    /\ creator = [t \in Threads |-> None]
    /\ group = [a \in Agents |-> a]
    /\ reaped = {}
    /\ known = {}
    /\ clobbered = FALSE
    /\ overlapped = FALSE

At(a, place) == ~clobbered /\ pc[a] = place

Goto(a, place) == pc' = [pc EXCEPT ![a] = place]

Thread(a) == loc[a].thread

-----------------------------------------------------------------------------
(* mythread_create *)

Creating == {"increment", "stack"}

\* The call, with a thread that does not exist yet, and the load of
\* mythread_id++.
Call(a, t, is_joinable) ==
    /\ At(a, "user")
    /\ creator[t] = None
    /\ creator' = [creator EXCEPT ![t] = a]
    /\ loc' = [loc EXCEPT ![a].thread = t, ![a].is_joinable = is_joinable,
                          ![a].id = mythread_id]
    /\ overlapped' = (overlapped \/ \E b \in Agents : pc[b] \in Creating)
    /\ Goto(a, "increment")
    /\ UNCHANGED <<mythread_id, struct, group, reaped, known, clobbered>>

\* Faulty variant: the counter is not incremented.
NotIncremented(a) ==
    /\ At(a, "increment")
    /\ Goto(a, "stack")
    /\ UNCHANGED <<mythread_id, struct, loc, creator, group, reaped, known,
                   clobbered, overlapped>>

\* mythread_id++, the store
Increment(a) ==
    /\ At(a, "increment")
    /\ mythread_id' = loc[a].id + 1
    /\ Goto(a, "stack")
    /\ UNCHANGED <<struct, loc, creator, group, reaped, known, clobbered,
                   overlapped>>

\* create_stack(STACK_SIZE, mythread_id), the counter being read again: the
\* file is emptied and mapped, and the structure is written at its end.  Who
\* has mapped it before loses stack and structure, and anything may follow.
Stack(a) ==
    /\ At(a, "stack")
    /\ struct' = [struct EXCEPT ![Thread(a)] =
                    [NoStruct EXCEPT !.stack = mythread_id,
                                     !.joinable = loc[a].is_joinable]]
    /\ clobbered' = \E t \in Threads : struct[t].stack = mythread_id
    /\ Goto(a, "clone")
    /\ UNCHANGED <<mythread_id, loc, creator, group, reaped, known, overlapped>>

\* create_stack fails: return -1
NoStack(a) ==
    /\ At(a, "stack")
    /\ loc' = [loc EXCEPT ![a] = NoLocals]
    /\ Goto(a, "user")
    /\ UNCHANGED <<mythread_id, struct, creator, group, reaped, known,
                   clobbered, overlapped>>

\* clone succeeds.  With CLONE_THREAD the new thread is one of the caller's
\* process, without it a process of its own.
CloneInto(a, process) ==
    /\ At(a, "clone")
    /\ group' = [group EXCEPT ![Thread(a)] = process]
    /\ pc' = [pc EXCEPT ![a] = IF loc[a].is_joinable
                                 THEN "created" ELSE "waitpid",
                        ![Thread(a)] = "user"]
    /\ loc' = [loc EXCEPT ![a].child = Thread(a)]
    /\ UNCHANGED <<mythread_id, struct, creator, reaped, known, clobbered,
                   overlapped>>

\* Faulty variant: CLONE_THREAD for every thread.
CloneOneProcess(a) == CloneInto(a, group[a])

Clone(a) ==
    CloneInto(a, IF loc[a].is_joinable THEN group[a] ELSE Thread(a))

\* clone fails and returns -1, which nobody looks at.
CloneFails(a) ==
    /\ At(a, "clone")
    /\ Goto(a, IF loc[a].is_joinable THEN "created" ELSE "waitpid")
    /\ UNCHANGED <<mythread_id, struct, loc, creator, group, reaped, known,
                   clobbered, overlapped>>

\* A process has ended when all its threads have.
Ended(t) == \A u \in Threads : group[u] = t => pc[u] \in {"unborn", "gone"}

\* The children of the caller's process nobody has waited for.
Children(a) ==
    {t \in Threads \ reaped :
        /\ group[t] = t /\ pc[t] # "unborn"
        /\ creator[t] # None /\ group[creator[t]] = group[a]}

\* waitpid(child_pid, &status, 0): it waits for the child, for any child if
\* clone has returned -1, and fails when there is nothing to wait for.
Waitpid(a) ==
    /\ At(a, "waitpid")
    /\ LET awaited ==
             {t \in Children(a) : loc[a].child \in {t, None}}
       IN  \/ /\ awaited = {}
              /\ UNCHANGED reaped
           \/ \E t \in awaited : Ended(t) /\ reaped' = reaped \cup {t}
    /\ Goto(a, "created")
    /\ UNCHANGED <<mythread_id, struct, loc, creator, group, known, clobbered,
                   overlapped>>

\* Faulty variant: the result of clone is stored.
CreatedChild(a) ==
    /\ At(a, "created")
    /\ known' = known \cup {loc[a].child}
    /\ loc' = [loc EXCEPT ![a] = NoLocals]
    /\ Goto(a, "user")
    /\ UNCHANGED <<mythread_id, struct, creator, group, reaped, clobbered,
                   overlapped>>

\* *mytid = thread; return 0
Created(a) ==
    /\ At(a, "created")
    /\ known' = known \cup {Thread(a)}
    /\ loc' = [loc EXCEPT ![a] = NoLocals]
    /\ Goto(a, "user")
    /\ UNCHANGED <<mythread_id, struct, creator, group, reaped, clobbered,
                   overlapped>>

mythread_create(a) ==
    \/ \E t \in Threads, is_joinable \in BOOLEAN : Call(a, t, is_joinable)
    \/ Increment(a) \/ Stack(a) \/ NoStack(a) \/ Clone(a) \/ CloneFails(a)
    \/ Waitpid(a) \/ Created(a)

-----------------------------------------------------------------------------
(* mythread_join *)

\* The call, once for each thread, by the one that has created it.
Join(a, t) ==
    /\ At(a, "user")
    /\ t \in known /\ creator[t] = a /\ ~struct[t].joined
    /\ loc' = [loc EXCEPT ![a].thread = t]
    /\ Goto(a, "poll")
    /\ UNCHANGED <<mythread_id, struct, creator, group, reaped, known,
                   clobbered, overlapped>>

\* Faulty variant: mythread_join does not wait.
NotPolled(a) ==
    /\ At(a, "poll")
    /\ Goto(a, "result")
    /\ UNCHANGED <<mythread_id, struct, loc, creator, group, reaped, known,
                   clobbered, overlapped>>

\* while (!thread->finished), which ends
Poll(a) ==
    /\ At(a, "poll")
    /\ struct[Thread(a)].finished
    /\ Goto(a, "result")
    /\ UNCHANGED <<mythread_id, struct, loc, creator, group, reaped, known,
                   clobbered, overlapped>>

\* *retval = thread->retval
Result(a) ==
    /\ At(a, "result")
    /\ loc' = [loc EXCEPT ![a].retval = struct[Thread(a)].retval]
    /\ Goto(a, "joined")
    /\ UNCHANGED <<mythread_id, struct, creator, group, reaped, known,
                   clobbered, overlapped>>

\* thread->joined = 1
Joined(a) ==
    /\ At(a, "joined")
    /\ struct' = [struct EXCEPT ![Thread(a)].joined = TRUE]
    /\ loc' = [loc EXCEPT ![a] = NoLocals]
    /\ Goto(a, "user")
    /\ UNCHANGED <<mythread_id, creator, group, reaped, known, clobbered,
                   overlapped>>

mythread_join(a) ==
    (\E t \in Threads : Join(a, t)) \/ Poll(a) \/ Result(a) \/ Joined(a)

-----------------------------------------------------------------------------
(* thread_startup, from the return of start_routine *)

\* retval = thread->start_routine(thread->arg)
Return(t) ==
    /\ At(t, "user")
    /\ Goto(t, "retval")
    /\ UNCHANGED <<mythread_id, struct, loc, creator, group, reaped, known,
                   clobbered, overlapped>>

\* Faulty variant: finished is set first.
FinishedFirst(t) ==
    /\ At(t, "retval")
    /\ struct' = [struct EXCEPT ![t].finished = TRUE]
    /\ Goto(t, "finished")
    /\ UNCHANGED <<mythread_id, loc, creator, group, reaped, known, clobbered,
                   overlapped>>

\* thread->retval = retval.  The result of a thread is the thread.
Retval(t) ==
    /\ At(t, "retval")
    /\ struct' = [struct EXCEPT ![t].retval = t]
    /\ Goto(t, "finished")
    /\ UNCHANGED <<mythread_id, loc, creator, group, reaped, known, clobbered,
                   overlapped>>

\* thread->finished = 1
Finished(t) ==
    /\ At(t, "finished")
    /\ struct' = [struct EXCEPT ![t].finished = TRUE]
    /\ Goto(t, "leave")
    /\ UNCHANGED <<mythread_id, loc, creator, group, reaped, known, clobbered,
                   overlapped>>

\* Faulty variant: the thread waits to be joined whether joinable or not.
LeaveWhenJoined(t) ==
    /\ At(t, "leave")
    /\ struct[t].joined
    /\ Goto(t, "gone")
    /\ UNCHANGED <<mythread_id, struct, loc, creator, group, reaped, known,
                   clobbered, overlapped>>

\* if (thread->joinable) while (!thread->joined), which ends; return 0
Leave(t) ==
    /\ At(t, "leave")
    /\ struct[t].joinable => struct[t].joined
    /\ Goto(t, "gone")
    /\ UNCHANGED <<mythread_id, struct, loc, creator, group, reaped, known,
                   clobbered, overlapped>>

thread_startup(t) == Return(t) \/ Retval(t) \/ Finished(t) \/ Leave(t)

Next ==
    \/ \E a \in Agents : mythread_create(a) \/ mythread_join(a)
    \/ \E t \in Threads : thread_startup(t)

(***************************************************************************)
(* Everybody is scheduled, so that a call goes on and a flag that stays    *)
(* set is seen, and every start_routine returns.  Nobody is obliged to     *)
(* call the library.                                                       *)
(***************************************************************************)
Continue(a) ==
    \/ Increment(a) \/ Stack(a) \/ NoStack(a) \/ Clone(a) \/ CloneFails(a)
    \/ Waitpid(a) \/ Created(a) \/ Poll(a) \/ Result(a) \/ Joined(a)

Spec ==
    /\ Init /\ [][Next]_vars
    /\ \A a \in Agents : WF_vars(Continue(a))
    /\ \A t \in Threads : WF_vars(thread_startup(t))

-----------------------------------------------------------------------------
Places == {"unborn", "user", "increment", "stack", "clone", "waitpid",
           "created", "poll", "result", "joined", "retval", "finished",
           "leave", "gone"}

\* Types of the counter, the structures and the calls (mythread.c:21-141).
TypeOK ==
    /\ mythread_id \in Nat
    /\ struct \in [Threads -> Structs]
    /\ pc \in [Agents -> Places]
    /\ loc \in [Agents -> Locals]
    /\ creator \in [Threads -> Agents \cup {None}]
    /\ group \in [Agents -> Agents]
    /\ reaped \subseteq Threads
    /\ known \subseteq Threads
    /\ clobbered \in BOOLEAN
    /\ overlapped \in BOOLEAN

(***************************************************************************)
(* mythread_id is incremented and read again without a lock                *)
(* (mythread.c:84-87): two calls at the same time may be given one stack,  *)
(* which destroys both threads.  As long as calls of mythread_create do    *)
(* not overlap up to the creation of the stack, no stack is given twice,   *)
(* whichever calls have failed before.                                     *)
(***************************************************************************)
OwnStacks == clobbered => overlapped

(***************************************************************************)
(* mythread_join takes the value the routine has returned, never the NULL  *)
(* of mythread_create (mythread.c:102, 134-139).                           *)
(***************************************************************************)
JoinGetsResult ==
    \A a \in Agents : pc[a] = "joined" => loc[a].retval = Thread(a)

(***************************************************************************)
(* When mythread_create has returned for a thread that is not joinable,    *)
(* that thread has ended, and so have the joinable threads of its process  *)
(* that it created itself, even if clone has failed in other calls, which  *)
(* then wait for any child (mythread.c:114-118).                           *)
(***************************************************************************)
RunsBeforeReturn ==
    \A t \in known : ~struct[t].joinable =>
        /\ pc[t] \in {"unborn", "gone"}
        /\ Ended(t)

\* A thread nobody will ever join waits for it for ever (mythread.c:32-35).
Abandoned(t) ==
    /\ pc[t] = "leave" /\ struct[t].joinable
    /\ pc[creator[t]] \in {"retval", "finished", "leave", "gone"}

\* A thread that was never started is joined (mythread.c:120, 134).
JoinsNobody(a) == pc[a] = "poll" /\ pc[Thread(a)] = "unborn"

Calling == {"increment", "stack", "clone", "waitpid", "created", "poll",
            "result", "joined"}

(***************************************************************************)
(* Every call of mythread_create and of mythread_join returns, unless      *)
(* somewhere a joinable thread is abandoned, a thread is joined of which   *)
(* the failed clone was not reported (mythread.c:114-125), or a stack has  *)
(* been given twice.                                                       *)
(***************************************************************************)
CallsReturn ==
    \A a \in Agents :
        (pc[a] \in Calling) ~>
            \/ pc[a] \notin Calling
            \/ clobbered
            \/ \E t \in Threads : Abandoned(t)
            \/ \E b \in Agents : JoinsNobody(b)

(***************************************************************************)
(* The two flags are set in opposite order by two threads.  Once           *)
(* mythread_join has returned, the thread goes without depending on        *)
(* anybody any more (mythread.c:29-36, 134-140).                           *)
(***************************************************************************)
JoinedThreadsGo ==
    \A t \in Threads : struct[t].joined ~> (pc[t] = "gone" \/ clobbered)
=============================================================================
