-------------------------------- MODULE Proxy --------------------------------
(***************************************************************************)
(* The HTTP proxy (proxy/main.c).  The accepting thread, main, reads the   *)
(* request of each client and starts a detached thread, client_handler,    *)
(* which sends the request on to the host it names and copies the answer   *)
(* back.  The socket and the request reach the handler in the variable     *)
(* ctx of main, of which every handler gets the address: it is one place   *)
(* on main's stack, written again for each client.                         *)
(*                                                                         *)
(* A connection is named by the client, or by the handler that opened it;  *)
(* a request by the client that wrote it, and an answer by the request it  *)
(* answers.  The handler for a client has the client's name.  Descriptors  *)
(* are numbers, given out from the lowest, and stand for whatever is open  *)
(* under the number when they are used.  A freed block of memory may be    *)
(* scrambled at once and may be allocated again.  Buffers of a handler's   *)
(* own are left out, as are the bytes: a request names a host or not.      *)
(***************************************************************************)
EXTENDS Integers, Sequences, FiniteSets

CONSTANTS
    Clients,
    Descriptors,    \* those that are left for sockets
    Blocks,         \* the memory blocks calloc has for requests
    None,           \* no value; a descriptor that is not open
    Scrambled       \* a text that is no request, as free leaves behind

\* The connection of handler h to the host of its request
Server(h) == <<"server", h>>

Servers == {Server(h) : h \in Clients}

\* Names that mean different things are different.
ASSUME ProxyAssumption ==
    /\ Descriptors \subseteq Nat /\ IsFiniteSet(Descriptors)
    /\ Cardinality(Blocks) >= Cardinality(Clients)
    /\ ({None, Scrambled} \cup Servers) \cap Clients = {}
    /\ None \notin {Scrambled} \cup Blocks \cup Servers

VARIABLES
    arrived,    \* clients that have connected,
    accepted,   \* those of them that have been accepted,
    sent,       \* those that have sent their request,
    hostless,   \* those whose request names no host, or is too long,
    gone,       \* and those that have left
    got,        \* the answers each client has been sent
    fds,        \* the connection under each descriptor
    heap,       \* the contents of the blocks
    allocated,  \* the blocks that are allocated
    ctx,        \* the context the handlers are given
    m,          \* control state and locals of main
    pc, loc,    \* control state and locals of the handlers
    fault,      \* how the process has died, if it has
    overtaken   \* ctx was overwritten before a handler had read it

clientVars == <<arrived, accepted, sent, hostless, gone>>

heapVars == <<heap, allocated>>

handlerVars == <<pc, loc>>

vars == <<clientVars, got, fds, heapVars, ctx, m, handlerVars, fault,
          overtaken>>

Texts == Clients \cup {Scrambled, None}

NoLocals == [fd |-> None, block |-> None, text |-> None, dest |-> None,
             data |-> None, todo |-> <<>>]

Init ==
    /\ arrived = {} /\ accepted = {} /\ sent = {} /\ hostless = {} /\ gone = {}
    /\ got = [c \in Clients |-> {}]
    /\ fds = [d \in Descriptors |-> None]
    /\ heap = [b \in Blocks |-> Scrambled]
    /\ allocated = {}
    /\ ctx = [client_socket |-> None, request |-> None]
    /\ m = [pc |-> "accept", client |-> None, fd |-> None, block |-> None]
    /\ pc = [h \in Clients |-> "absent"]
    /\ loc = [h \in Clients |-> NoLocals]
    /\ fault = "none"
    /\ overtaken = FALSE

-----------------------------------------------------------------------------
(* The clients *)

Arrive(c) ==
    /\ fault = "none"
    /\ c \notin arrived
    /\ arrived' = arrived \cup {c}
    /\ UNCHANGED <<accepted, sent, hostless, gone, got, fds, heapVars, ctx, m,
                   handlerVars, fault, overtaken>>

Request(c) ==
    /\ fault = "none"
    /\ c \in arrived \ (sent \cup gone)
    /\ sent' = sent \cup {c}
    /\ hostless' \in {hostless, hostless \cup {c}}
    /\ UNCHANGED <<arrived, accepted, gone, got, fds, heapVars, ctx, m,
                   handlerVars, fault, overtaken>>

Leave(c) ==
    /\ fault = "none"
    /\ c \in arrived \ gone
    /\ gone' = gone \cup {c}
    /\ UNCHANGED <<arrived, accepted, sent, hostless, got, fds, heapVars, ctx,
                   m, handlerVars, fault, overtaken>>

-----------------------------------------------------------------------------
(* The kernel and the allocator *)

FreeDescriptors == {d \in Descriptors : fds[d] = None}

\* A socket gets the lowest descriptor that is free.
Open(d, connection) ==
    /\ d \in FreeDescriptors
    /\ \A e \in FreeDescriptors : d <= e
    /\ fds' = [fds EXCEPT ![d] = connection]

\* close(d) fails without effect on a descriptor that is not open.
Close(d) == fds' = [fds EXCEPT ![d] = None]

\* free(b), on which the process dies when b is free already
Free(b) ==
    \/ /\ b \in allocated
       /\ allocated' = allocated \ {b}
       /\ heap' \in {heap, [heap EXCEPT ![b] = Scrambled]}
       /\ UNCHANGED fault
    \/ /\ b \notin allocated
       /\ fault' = "double_free"
       /\ UNCHANGED heapVars

\* The other end may have closed the connection: a write to it fails, or
\* the process gets SIGPIPE, for which it has no handler.
Breakable(connection) == connection \in gone \cup Servers

-----------------------------------------------------------------------------
(* main *)

MainAt(place) == fault = "none" /\ m.pc = place

MainGoto(place) == m' = [m EXCEPT !.pc = place]

\* accept; while no descriptor is free it fails and is tried again.
Accept(c) ==
    /\ MainAt("accept")
    /\ c \in arrived \ accepted
    /\ accepted' = accepted \cup {c}
    /\ \E d \in Descriptors :
         /\ Open(d, c)
         /\ m' = [pc |-> "calloc", client |-> c, fd |-> d, block |-> None]
    /\ UNCHANGED <<arrived, sent, hostless, gone, got, heapVars, ctx,
                   handlerVars, fault, overtaken>>

\* char *request = calloc(BUFFER_SIZE, sizeof(char))
Calloc ==
    /\ MainAt("calloc")
    /\ \E b \in Blocks \ allocated :
         /\ allocated' = allocated \cup {b}
         /\ heap' = [heap EXCEPT ![b] = None]
         /\ m' = [m EXCEPT !.pc = "recv", !.block = b]
    /\ UNCHANGED <<clientVars, got, fds, ctx, handlerVars, fault, overtaken>>

\* read_request succeeds.  What a server sends is no request.
Receive ==
    /\ MainAt("recv")
    /\ LET from == fds[m.fd] IN
       \/ /\ from \in sent
          /\ heap' = [heap EXCEPT ![m.block] = from]
       \/ /\ from \in Servers
          /\ heap' = [heap EXCEPT ![m.block] = Scrambled]
    /\ MainGoto("ctx_socket")
    /\ UNCHANGED <<clientVars, got, fds, allocated, ctx, handlerVars, fault,
                   overtaken>>

\* Faulty variant: a client that has left is tried again.
ReceiveRetried ==
    /\ MainAt("recv")
    /\ fds[m.fd] \in gone \cup Servers \cup {None}
    /\ UNCHANGED vars

\* read_request fails: the client has left or the socket is no use.
ReceiveFails ==
    /\ MainAt("recv")
    /\ fds[m.fd] \in gone \cup Servers \cup {None}
    /\ MainGoto("free")
    /\ UNCHANGED <<clientVars, got, fds, heapVars, ctx, handlerVars, fault,
                   overtaken>>

\* context ctx = {client_socket, request}, the first member
WriteSocket ==
    /\ MainAt("ctx_socket")
    /\ ctx' = [ctx EXCEPT !.client_socket = m.fd]
    /\ overtaken' = (overtaken \/ \E h \in Clients : pc[h] = "load_socket")
    /\ MainGoto("ctx_request")
    /\ UNCHANGED <<clientVars, got, fds, heapVars, handlerVars, fault>>

\* .. and the second
WriteRequest ==
    /\ MainAt("ctx_request")
    /\ ctx' = [ctx EXCEPT !.request = m.block]
    /\ overtaken' = (overtaken \/ \E h \in Clients :
                                    pc[h] \in {"load_socket", "load_request"})
    /\ MainGoto("create")
    /\ UNCHANGED <<clientVars, got, fds, heapVars, handlerVars, fault>>

\* pthread_create(.., &client_handler, &ctx) and pthread_detach
Create ==
    /\ MainAt("create")
    /\ pc' = [pc EXCEPT ![m.client] = "load_socket"]
    /\ m' = [pc |-> "accept", client |-> None, fd |-> None, block |-> None]
    /\ UNCHANGED <<clientVars, got, fds, heapVars, ctx, loc, fault, overtaken>>

\* pthread_create fails.
CreateFails ==
    /\ MainAt("create")
    /\ MainGoto("free")
    /\ UNCHANGED <<clientVars, got, fds, heapVars, ctx, handlerVars, fault,
                   overtaken>>

\* free(request), where no handler has been started
FreeRequest ==
    /\ MainAt("free")
    /\ Free(m.block)
    /\ m' = [m EXCEPT !.pc = "close", !.block = None]
    /\ UNCHANGED <<clientVars, got, fds, ctx, handlerVars, overtaken>>

\* close(client_socket); continue
CloseSocket ==
    /\ MainAt("close")
    /\ Close(m.fd)
    /\ m' = [pc |-> "accept", client |-> None, fd |-> None, block |-> None]
    /\ UNCHANGED <<clientVars, got, heapVars, ctx, handlerVars, fault,
                   overtaken>>

Main ==
    \/ \E c \in Clients : Accept(c)
    \/ Calloc \/ Receive \/ ReceiveFails \/ WriteSocket \/ WriteRequest
    \/ Create \/ CreateFails \/ FreeRequest \/ CloseSocket

-----------------------------------------------------------------------------
(* client_handler *)

At(h, place) == fault = "none" /\ pc[h] = place

Goto(h, place) == pc' = [pc EXCEPT ![h] = place]

Set(h, field, value) == loc' = [loc EXCEPT ![h][field] = value]

\* The thread returns, having released in this order what todo lists.
Finish(h, todo) == Goto(h, "cleanup") /\ Set(h, "todo", todo)

\* int client_socket = ctx->client_socket
LoadSocket(h) ==
    /\ At(h, "load_socket")
    /\ Set(h, "fd", ctx.client_socket)
    /\ Goto(h, "load_request")
    /\ UNCHANGED <<clientVars, got, fds, heapVars, ctx, m, fault, overtaken>>

\* char *request_temp = ctx->request
LoadRequest(h) ==
    /\ At(h, "load_request")
    /\ Set(h, "block", ctx.request)
    /\ Goto(h, "copy")
    /\ UNCHANGED <<clientVars, got, fds, heapVars, ctx, m, fault, overtaken>>

\* Faulty variant: the request is looked up in ctx once more.
CopyFromContext(h) ==
    /\ At(h, "copy")
    /\ Set(h, "text", heap[ctx.request])
    /\ Goto(h, "host")
    /\ UNCHANGED <<clientVars, got, fds, heapVars, ctx, m, fault, overtaken>>

\* strcpy(request, request_temp)
Copy(h) ==
    /\ At(h, "copy")
    /\ Set(h, "text", heap[loc[h].block])
    /\ Goto(h, "host")
    /\ UNCHANGED <<clientVars, got, fds, heapVars, ctx, m, fault, overtaken>>

\* get_host succeeds.
HasHost(h) == loc[h].text \in Clients \ hostless

\* "Request is too large", "Host not found in the request": the thread
\* returns and releases nothing.
Refuse(h) ==
    /\ At(h, "host")
    /\ ~HasHost(h)
    /\ Goto(h, "refused")
    /\ UNCHANGED <<clientVars, got, fds, heapVars, ctx, m, loc, fault,
                   overtaken>>

\* getaddrinfo or socket fails in connect_to_remote.
NoSocket(h) ==
    /\ At(h, "host")
    /\ HasHost(h)
    /\ Finish(h, <<"client">>)
    /\ UNCHANGED <<clientVars, got, fds, heapVars, ctx, m, fault, overtaken>>

\* Faulty variant: the result of socket is not tested.
SocketUnchecked(h) ==
    /\ At(h, "host")
    /\ HasHost(h)
    /\ \/ \E d \in Descriptors : Open(d, Server(h)) /\ Set(h, "dest", d)
       \/ FreeDescriptors = {} /\ Set(h, "dest", -1) /\ UNCHANGED fds
    /\ Goto(h, "connect")
    /\ UNCHANGED <<clientVars, got, heapVars, ctx, m, fault, overtaken>>

\* dest_socket = socket(..)
Socket(h) ==
    /\ At(h, "host")
    /\ HasHost(h)
    /\ \E d \in Descriptors : Open(d, Server(h)) /\ Set(h, "dest", d)
    /\ Goto(h, "connect")
    /\ UNCHANGED <<clientVars, got, heapVars, ctx, m, fault, overtaken>>

\* connect(dest_socket, ..)
Connect(h) ==
    /\ At(h, "connect")
    /\ fds[loc[h].dest] \in Servers
    /\ Goto(h, "send")
    /\ UNCHANGED <<clientVars, got, fds, heapVars, ctx, m, loc, fault,
                   overtaken>>

\* Faulty variant: client_handler closes dest_socket a second time.
ClosedTwice(h) ==
    /\ At(h, "connect")
    /\ Finish(h, <<"dest", "client", "dest">>)
    /\ UNCHANGED <<clientVars, got, fds, heapVars, ctx, m, fault, overtaken>>

\* connect fails: close(dest_socket) there, then close(client_socket).
ConnectFails(h) ==
    /\ At(h, "connect")
    /\ Finish(h, <<"dest", "client">>)
    /\ UNCHANGED <<clientVars, got, fds, heapVars, ctx, m, fault, overtaken>>

\* What is written to the connection of a client reaches the client.
Deliver(connection, text) ==
    got' = [c \in Clients |->
              IF c = connection THEN got[c] \cup {text} ELSE got[c]]

\* write(dest_socket, request, strlen(request))
Send(h) ==
    /\ At(h, "send")
    /\ fds[loc[h].dest] # None
    /\ Deliver(fds[loc[h].dest], loc[h].text)
    /\ Goto(h, "read")
    /\ UNCHANGED <<clientVars, fds, heapVars, ctx, m, loc, fault, overtaken>>

\* read(dest_socket, ..) > 0: the answer to what was sent on the connection,
\* or, where the descriptor stands for a client by now, its request.
Read(h) ==
    /\ At(h, "read")
    /\ LET from == fds[loc[h].dest] IN
       \/ from \in sent /\ Set(h, "data", from)
       \/ \E s \in Clients : /\ from = Server(s)
                             /\ loc[s].text # None
                             /\ Set(h, "data", loc[s].text)
    /\ Goto(h, "forward")
    /\ UNCHANGED <<clientVars, got, fds, heapVars, ctx, m, fault, overtaken>>

\* write(client_socket, buffer, bytes_read)
Forward(h) ==
    /\ At(h, "forward")
    /\ fds[loc[h].fd] # None
    /\ Deliver(fds[loc[h].fd], loc[h].data)
    /\ Set(h, "data", None)
    /\ Goto(h, "read")
    /\ UNCHANGED <<clientVars, fds, heapVars, ctx, m, fault, overtaken>>

\* The descriptor the handler is about to write to
Target(h) == IF pc[h] = "send" THEN loc[h].dest ELSE loc[h].fd

\* Faulty variant: only the connection to the host is closed.
ClientKept(h) ==
    /\ At(h, "send") \/ At(h, "forward")
    /\ fds[Target(h)] = None \/ Breakable(fds[Target(h)])
    /\ Finish(h, <<"dest">>)
    /\ UNCHANGED <<clientVars, got, fds, heapVars, ctx, m, fault, overtaken>>

\* One of the two writes returns -1.
WriteFails(h) ==
    /\ At(h, "send") \/ At(h, "forward")
    /\ fds[Target(h)] = None \/ Breakable(fds[Target(h)])
    /\ Finish(h, <<"client", "dest">>)
    /\ UNCHANGED <<clientVars, got, fds, heapVars, ctx, m, fault, overtaken>>

\* Nothing handles or blocks SIGPIPE.
PipeSignal(h) ==
    /\ At(h, "send") \/ At(h, "forward")
    /\ Breakable(fds[Target(h)])
    /\ fault' = "sigpipe"
    /\ UNCHANGED <<clientVars, got, fds, heapVars, ctx, m, handlerVars,
                   overtaken>>

\* read(dest_socket, ..) <= 0
AnswerEnds(h) ==
    /\ At(h, "read")
    /\ fds[loc[h].dest] \in gone \cup Servers \cup {None}
    /\ Finish(h, <<"client", "dest", "request">>)
    /\ UNCHANGED <<clientVars, got, fds, heapVars, ctx, m, fault, overtaken>>

\* close(client_socket), close(dest_socket) or free(request_temp).  Only the
\* path along which everything has gone well frees the request.
Cleanup(h) ==
    /\ At(h, "cleanup")
    /\ LET first == Head(loc[h].todo)
           rest  == Tail(loc[h].todo)
       IN  /\ \/ first = "client" /\ Close(loc[h].fd)
                   /\ UNCHANGED <<heapVars, fault>>
              \/ first = "dest" /\ Close(loc[h].dest)
                   /\ UNCHANGED <<heapVars, fault>>
              \/ first = "request" /\ Free(loc[h].block) /\ UNCHANGED fds
           /\ loc' = [loc EXCEPT ![h] = IF rest = <<>> THEN NoLocals
                                        ELSE [@ EXCEPT !.todo = rest]]
           /\ Goto(h, IF rest # <<>> THEN "cleanup"
                      ELSE IF first = "request" THEN "served" ELSE "failed")
    /\ UNCHANGED <<clientVars, got, ctx, m, overtaken>>

\* Whatever does not depend on what a server sends
Runs(h) ==
    \/ LoadSocket(h) \/ LoadRequest(h) \/ Copy(h) \/ Refuse(h) \/ NoSocket(h)
    \/ Socket(h) \/ Connect(h) \/ ConnectFails(h) \/ Send(h) \/ Forward(h)
    \/ WriteFails(h) \/ PipeSignal(h) \/ Cleanup(h)

client_handler(h) == Runs(h) \/ Read(h) \/ AnswerEnds(h)

Next ==
    \/ \E c \in Clients : Arrive(c) \/ Request(c) \/ Leave(c)
    \/ Main
    \/ \E h \in Clients : client_handler(h)

Spec == Init /\ [][Next]_vars

\* The threads are scheduled; connect ends by itself, at the latest when the
\* kernel gives up.  Clients and servers are promised nothing.
FairSpec ==
    /\ Spec
    /\ WF_vars(Main)
    /\ \A h \in Clients : WF_vars(Runs(h))

-----------------------------------------------------------------------------
Connections == Clients \cup Servers

MainPlaces == {"accept", "calloc", "recv", "ctx_socket", "ctx_request",
               "create", "free", "close"}

\* After the last three the thread has returned.
Places == {"absent", "load_socket", "load_request", "copy", "host", "connect",
           "send", "read", "forward", "cleanup", "refused", "failed", "served"}

\* Types of the sockets, the requests and the threads (proxy/main.c:17-21,
\* 149-215, 217-270).
TypeOK ==
    /\ arrived \subseteq Clients
    /\ \A S \in {accepted, sent, gone} : S \subseteq arrived
    /\ hostless \subseteq sent
    /\ got \in [Clients -> SUBSET Texts]
    /\ fds \in [Descriptors -> Connections \cup {None}]
    /\ heap \in [Blocks -> Texts]
    /\ allocated \subseteq Blocks
    /\ ctx \in [client_socket : Descriptors \cup {None},
                request : Blocks \cup {None}]
    /\ m \in [pc : MainPlaces, client : Clients \cup {None},
              fd : Descriptors \cup {None}, block : Blocks \cup {None}]
    /\ pc \in [Clients -> Places]
    /\ loc \in [Clients ->
                  [fd : Descriptors \cup {None}, block : Blocks \cup {None},
                   text : Texts, dest : Descriptors \cup {None}, data : Texts,
                   todo : Seq({"client", "dest", "request"})]]
    /\ fault \in {"none", "double_free", "sigpipe"}
    /\ overtaken \in BOOLEAN

(***************************************************************************)
(* Clients are confused only through ctx: unless main has overwritten ctx  *)
(* before a handler had read it (main.c:153-154 against 254), no client is *)
(* sent anything but the answer to its own request, however descriptors    *)
(* and memory are reused.                                                  *)
(***************************************************************************)
OwnAnswers == ~overtaken => \A c \in Clients : got[c] \subseteq {c}

\* What handler h has been given, or will read from ctx, and must release.
GivenSocket(h) == IF pc[h] = "load_socket" THEN ctx.client_socket ELSE loc[h].fd

GivenRequest(h) ==
    IF pc[h] \in {"load_socket", "load_request"} THEN ctx.request
    ELSE loc[h].block

Running(h) == pc[h] \notin {"absent", "refused", "failed", "served"}

Pending(h, what) ==
    Running(h) /\ (pc[h] = "cleanup" =>
                     \E i \in DOMAIN loc[h].todo : loc[h].todo[i] = what)

Connected(h) ==
    \/ pc[h] \in {"connect", "send", "read", "forward"}
    \/ pc[h] = "cleanup" /\ Pending(h, "dest")

(***************************************************************************)
(* Nothing is released twice or used after its release, again unless ctx   *)
(* has been overwritten too early: until a thread closes a socket          *)
(* (main.c:99, 183-211, 250, 261) the descriptor still stands for the      *)
(* connection it has been given, and until it frees a request (212, 249,   *)
(* 260) the block is still allocated and holds that request.               *)
(***************************************************************************)
ReleasesItsOwn ==
    ~overtaken =>
        /\ fault # "double_free"
        /\ m.pc # "accept" => fds[m.fd] = m.client
        /\ m.block # None => m.block \in allocated
        /\ \A h \in Clients :
             /\ Pending(h, "client") => fds[GivenSocket(h)] = h
             /\ Connected(h) => fds[loc[h].dest] = Server(h)
             /\ Pending(h, "request") =>
                  GivenRequest(h) \in allocated /\ heap[GivenRequest(h)] = h

\* A thread is going to release the connection, or the block.
Minded(connection) ==
    \/ m.pc # "accept" /\ m.client = connection
    \/ \E h \in Clients :
         \/ connection = h /\ Pending(h, "client")
         \/ connection = Server(h) /\ Connected(h)

MindedBlock(b) ==
    \/ m.block = b
    \/ \E h \in Clients : Pending(h, "request") /\ GivenRequest(h) = b

(***************************************************************************)
(* What is never released, and why: a socket only for a request that       *)
(* names no host or is too long (main.c:158-162, 168-175), a request only  *)
(* when it was refused like that or when connect_to_remote or a write      *)
(* failed (181-193, 200-206).  Sockets to servers never are.               *)
(***************************************************************************)
LeaksAreRefusals ==
    ~overtaken =>
        /\ \A d \in Descriptors :
             fds[d] # None /\ ~Minded(fds[d]) =>
                fds[d] \in hostless /\ pc[fds[d]] = "refused"
        /\ \A b \in allocated :
             ~MindedBlock(b) => pc[heap[b]] \in {"refused", "cleanup", "failed"}

\* main waits in recv for a client that keeps silent.
Silent == m.pc = "recv" /\ fds[m.fd] \in Clients \ (sent \cup gone)

(***************************************************************************)
(* The proxy comes to an answer for every request it can read: unless      *)
(* some client keeps silent for ever, at which main waits (main.c:57), a   *)
(* client that has sent a request is given up or its handler gets as far   *)
(* as the host's answer.  Excepted is what this code does not survive: a   *)
(* signal, an overwritten ctx, and running out of descriptors.             *)
(***************************************************************************)
EveryRequestHandled ==
    []<>(~Silent) =>
        \A c \in Clients :
            c \in sent ~>
                \/ c \in accepted /\ \A d \in Descriptors : fds[d] # c
                \/ pc[c] \in {"read", "forward", "refused"}
                \/ fault # "none" \/ overtaken \/ FreeDescriptors = {}
=============================================================================
