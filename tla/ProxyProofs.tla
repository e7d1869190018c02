----------------------------- MODULE ProxyProofs -----------------------------
(***************************************************************************)
(* Proofs about Proxy, for any number of clients, descriptors and blocks.  *)
(*                                                                         *)
(* Placed holds of every state: what main and the handlers have at their   *)
(* places.  Own holds as long as ctx has not been overwritten before a     *)
(* handler had read it: connections and requests have one owner each, and  *)
(* descriptors and blocks say whose they are by what they hold.            *)
(***************************************************************************)
EXTENDS Proxy, TLAPS

\* The lists of what a returning handler has still to release.
Todos == {<<"client">>, <<"dest">>, <<"request">>, <<"dest", "client">>,
          <<"client", "dest">>, <<"dest", "request">>,
          <<"client", "dest", "request">>}

Has(todo, what) == \E i \in DOMAIN todo : todo[i] = what

\* main has a block, ..
Holding == m.pc \in {"recv", "ctx_socket", "ctx_request", "create", "free"}

\* .. with the request of its client in it.
Received == m.pc \in {"ctx_socket", "ctx_request", "create"}

Texted(h) == pc[h] \in {"host", "connect", "send", "read", "forward"}

Placed ==
    /\ m.pc # "accept" => /\ m.client \in accepted /\ m.fd \in Descriptors
                          /\ pc[m.client] = "absent"
    /\ IF Holding THEN m.block \in Blocks ELSE m.block = None
    /\ m.pc \in {"ctx_request", "create"} => ctx.client_socket = m.fd
    /\ m.pc = "create" => ctx.request = m.block
    /\ \A h \in Clients :
         /\ pc[h] # "absent" => /\ h \in accepted
                                /\ ctx.client_socket \in Descriptors
                                /\ ctx.request \in Blocks
         /\ pc[h] = "copy" => loc[h].block \in Blocks
         /\ pc[h] = "cleanup" => loc[h].todo \in Todos

\* What main holds is its client's.
MainOwns ==
    /\ m.pc # "accept" => fds[m.fd] = m.client
    /\ Holding => m.block \in allocated
    /\ m.pc = "recv" => heap[m.block] = None
    /\ Received => heap[m.block] = m.client
    /\ m.pc = "free" => heap[m.block] \in {None, m.client}

\* What handler h is to release is its own.
HandlerOwns(h) ==
    /\ Pending(h, "client") => /\ GivenSocket(h) \in Descriptors
                               /\ fds[GivenSocket(h)] = h
    /\ Connected(h) => /\ loc[h].dest \in Descriptors
                       /\ fds[loc[h].dest] = Server(h)
    /\ Pending(h, "request") => /\ GivenRequest(h) \in allocated
                                /\ heap[GivenRequest(h)] = h
    /\ Texted(h) => loc[h].text = h
    /\ pc[h] = "forward" => loc[h].data = h

\* Every connection is under one descriptor, and has an owner or was refused.
SocketsOwned ==
    /\ \A d, e \in Descriptors : fds[d] = fds[e] /\ fds[d] # None => d = e
    /\ \A d \in Descriptors, c \in Clients : fds[d] = c =>
         \/ m.pc # "accept" /\ m.client = c
         \/ Pending(c, "client")
         \/ c \in hostless /\ pc[c] = "refused"
    /\ \A d \in Descriptors, h \in Clients : fds[d] = Server(h) => Connected(h)

\* Every request is in one block, which main has or a handler was given.
RequestsOwned ==
    /\ \A a, b \in allocated : heap[a] = heap[b] => a = b
    /\ \A b \in allocated :
         \/ Holding /\ b = m.block
         \/ heap[b] \in Clients /\ pc[heap[b]] \notin {"absent", "served"}

Own ==
    /\ fault # "double_free"
    /\ \A c \in Clients : got[c] \subseteq {c}
    /\ MainOwns
    /\ \A h \in Clients : HandlerOwns(h)
    /\ SocketsOwned
    /\ RequestsOwned

IInv == TypeOK /\ Placed /\ (~overtaken => Own)

-----------------------------------------------------------------------------
\* Clients, connections to servers and None are different.
LEMMA Names ==
  /\ None \notin Clients /\ Scrambled \notin Clients /\ None \notin Blocks
  /\ \A h \in Clients : Server(h) \notin Clients /\ Server(h) # None
  /\ \A g, h : Server(g) = Server(h) => g = h
  BY ProxyAssumption DEF Servers, Server

LEMMA HasNone == \A what : ~Has(<<>>, what)
  BY DEF Has

LEMMA HasOne == \A a, what : Has(<<a>>, what) <=> what \in {a}
<1> SUFFICES ASSUME NEW a, NEW what
             PROVE  Has(<<a>>, what) <=> what \in {a}
  OBVIOUS
<1>1. DOMAIN <<a>> = {1} /\ <<a>>[1] = a
  OBVIOUS
<1> QED
  BY <1>1 DEF Has

LEMMA HasTwo == \A a, b, what : Has(<<a, b>>, what) <=> what \in {a, b}
<1> SUFFICES ASSUME NEW a, NEW b, NEW what
             PROVE  Has(<<a, b>>, what) <=> what \in {a, b}
  OBVIOUS
<1>1. DOMAIN <<a, b>> = {1, 2} /\ <<a, b>>[1] = a /\ <<a, b>>[2] = b
  OBVIOUS
<1> QED
  BY <1>1 DEF Has

LEMMA HasThree ==
  \A a, b, c, what : Has(<<a, b, c>>, what) <=> what \in {a, b, c}
<1> SUFFICES ASSUME NEW a, NEW b, NEW c, NEW what
             PROVE  Has(<<a, b, c>>, what) <=> what \in {a, b, c}
  OBVIOUS
<1>1. /\ DOMAIN <<a, b, c>> = {1, 2, 3}
      /\ <<a, b, c>>[1] = a /\ <<a, b, c>>[2] = b /\ <<a, b, c>>[3] = c
  OBVIOUS
<1> QED
  BY <1>1 DEF Has

\* What is released first is not released again, and a request is released
\* last.
LEMMA TodoFacts ==
  ASSUME NEW todo \in Todos
  PROVE  /\ todo \in Seq({"client", "dest", "request"})
         /\ Head(todo) \in {"client", "dest", "request"}
         /\ Tail(todo) = <<>> \/ Tail(todo) \in Todos
         /\ Tail(todo) # <<>> => Head(todo) # "request"
         /\ \A what : Has(todo, what) <=>
                        what = Head(todo) \/ Has(Tail(todo), what)
         /\ ~Has(Tail(todo), Head(todo))
<1>1. CASE todo = <<"client">>
  <2>1. /\ todo \in Seq({"client", "dest", "request"})
        /\ Head(todo) = "client" /\ Tail(todo) = <<>>
    BY <1>1
  <2>2. \A what : Has(todo, what) <=> what \in {"client"}
    BY <1>1, HasOne
  <2>3. \A what : Has(Tail(todo), what) <=> what \in {}
    BY <2>1, HasNone
  <2>4. Tail(todo) = <<>> \/ Tail(todo) \in Todos
    BY <2>1 DEF Todos
  <2> QED
    BY <2>1, <2>2, <2>3, <2>4
<1>2. CASE todo = <<"dest">>
  <2>1. /\ todo \in Seq({"client", "dest", "request"})
        /\ Head(todo) = "dest" /\ Tail(todo) = <<>>
    BY <1>2
  <2>2. \A what : Has(todo, what) <=> what \in {"dest"}
    BY <1>2, HasOne
  <2>3. \A what : Has(Tail(todo), what) <=> what \in {}
    BY <2>1, HasNone
  <2>4. Tail(todo) = <<>> \/ Tail(todo) \in Todos
    BY <2>1 DEF Todos
  <2> QED
    BY <2>1, <2>2, <2>3, <2>4
<1>3. CASE todo = <<"request">>
  <2>1. /\ todo \in Seq({"client", "dest", "request"})
        /\ Head(todo) = "request" /\ Tail(todo) = <<>>
    BY <1>3
  <2>2. \A what : Has(todo, what) <=> what \in {"request"}
    BY <1>3, HasOne
  <2>3. \A what : Has(Tail(todo), what) <=> what \in {}
    BY <2>1, HasNone
  <2>4. Tail(todo) = <<>> \/ Tail(todo) \in Todos
    BY <2>1 DEF Todos
  <2> QED
    BY <2>1, <2>2, <2>3, <2>4
<1>4. CASE todo = <<"dest", "client">>
  <2>1. /\ todo \in Seq({"client", "dest", "request"})
        /\ Head(todo) = "dest" /\ Tail(todo) = <<"client">>
    BY <1>4
  <2>2. \A what : Has(todo, what) <=> what \in {"dest", "client"}
    BY <1>4, HasTwo
  <2>3. \A what : Has(Tail(todo), what) <=> what \in {"client"}
    BY <2>1, HasOne
  <2>4. Tail(todo) = <<>> \/ Tail(todo) \in Todos
    BY <2>1 DEF Todos
  <2> QED
    BY <2>1, <2>2, <2>3, <2>4
<1>5. CASE todo = <<"client", "dest">>
  <2>1. /\ todo \in Seq({"client", "dest", "request"})
        /\ Head(todo) = "client" /\ Tail(todo) = <<"dest">>
    BY <1>5
  <2>2. \A what : Has(todo, what) <=> what \in {"client", "dest"}
    BY <1>5, HasTwo
  <2>3. \A what : Has(Tail(todo), what) <=> what \in {"dest"}
    BY <2>1, HasOne
  <2>4. Tail(todo) = <<>> \/ Tail(todo) \in Todos
    BY <2>1 DEF Todos
  <2> QED
    BY <2>1, <2>2, <2>3, <2>4
<1>6. CASE todo = <<"dest", "request">>
  <2>1. /\ todo \in Seq({"client", "dest", "request"})
        /\ Head(todo) = "dest" /\ Tail(todo) = <<"request">>
    BY <1>6
  <2>2. \A what : Has(todo, what) <=> what \in {"dest", "request"}
    BY <1>6, HasTwo
  <2>3. \A what : Has(Tail(todo), what) <=> what \in {"request"}
    BY <2>1, HasOne
  <2>4. Tail(todo) = <<>> \/ Tail(todo) \in Todos
    BY <2>1 DEF Todos
  <2> QED
    BY <2>1, <2>2, <2>3, <2>4
<1>7. CASE todo = <<"client", "dest", "request">>
  <2>1. todo \in Seq({"client", "dest", "request"}) /\ Head(todo) = "client"
    BY <1>7
  <2>2. Tail(todo) = <<"dest", "request">>
    BY <1>7
  <2>3. \A what : Has(todo, what) <=> what \in {"client", "dest", "request"}
    BY <1>7, HasThree
  <2>4. \A what : Has(Tail(todo), what) <=> what \in {"dest", "request"}
    <3>1. \A what : Has(<<"dest", "request">>, what) <=>
                      what \in {"dest", "request"}
      BY HasTwo
    <3> HIDE <1>7
    <3> QED
      BY <2>2, <3>1
  <2>5. Tail(todo) \in Todos
    BY <2>2 DEF Todos
  <2> QED
    BY <2>1, <2>3, <2>4, <2>5
<1> QED
  BY <1>1, <1>2, <1>3, <1>4, <1>5, <1>6, <1>7 DEF Todos

-----------------------------------------------------------------------------
(* What assigning to a local of a handler changes *)

HandlerLocals ==
    [fd : Descriptors \cup {None}, block : Blocks \cup {None}, text : Texts,
     dest : Descriptors \cup {None}, data : Texts,
     todo : Seq({"client", "dest", "request"})]

\* A step of handler h alone.
Alone(h) ==
    /\ pc' \in [Clients -> Places] /\ loc' \in [Clients -> HandlerLocals]
    /\ \A u \in Clients \ {h} : pc'[u] = pc[u] /\ loc'[u] = loc[u]

LEMMA Going ==
  ASSUME TypeOK, NEW h \in Clients, NEW place \in Places, Goto(h, place)
  PROVE  /\ pc' \in [Clients -> Places] /\ pc'[h] = place
         /\ \A u \in Clients \ {h} : pc'[u] = pc[u]
  BY DEF TypeOK, Goto

LEMMA SetFd ==
  ASSUME TypeOK, NEW h \in Clients,
         NEW value \in Descriptors \cup {None},
         Set(h, "fd", value)
  PROVE  /\ loc' \in [Clients -> HandlerLocals]
         /\ \A u \in Clients \ {h} : loc'[u] = loc[u]
         /\ loc'[h].fd = value
         /\ loc'[h].block = loc[h].block
         /\ loc'[h].text = loc[h].text
         /\ loc'[h].dest = loc[h].dest
         /\ loc'[h].data = loc[h].data
         /\ loc'[h].todo = loc[h].todo
<1>1. loc \in [Clients -> HandlerLocals]
  BY DEF TypeOK, HandlerLocals
<1>2. loc' = [loc EXCEPT ![h] = [@ EXCEPT !.fd = value]]
  BY DEF Set
<1>3. loc'[h] = [loc[h] EXCEPT !.fd = value]
  BY <1>1, <1>2
<1>4. \A u \in Clients \ {h} : loc'[u] = loc[u]
  BY <1>1, <1>2
<1>5. loc[h] \in HandlerLocals
  BY <1>1
<1>6. [loc[h] EXCEPT !.fd = value] \in HandlerLocals
  BY <1>5 DEF HandlerLocals
<1> QED
  BY <1>1, <1>2, <1>3, <1>4, <1>5, <1>6 DEF HandlerLocals

LEMMA SetBlock ==
  ASSUME TypeOK, NEW h \in Clients,
         NEW value \in Blocks \cup {None},
         Set(h, "block", value)
  PROVE  /\ loc' \in [Clients -> HandlerLocals]
         /\ \A u \in Clients \ {h} : loc'[u] = loc[u]
         /\ loc'[h].block = value
         /\ loc'[h].fd = loc[h].fd
         /\ loc'[h].text = loc[h].text
         /\ loc'[h].dest = loc[h].dest
         /\ loc'[h].data = loc[h].data
         /\ loc'[h].todo = loc[h].todo
<1>1. loc \in [Clients -> HandlerLocals]
  BY DEF TypeOK, HandlerLocals
<1>2. loc' = [loc EXCEPT ![h] = [@ EXCEPT !.block = value]]
  BY DEF Set
<1>3. loc'[h] = [loc[h] EXCEPT !.block = value]
  BY <1>1, <1>2
<1>4. \A u \in Clients \ {h} : loc'[u] = loc[u]
  BY <1>1, <1>2
<1>5. loc[h] \in HandlerLocals
  BY <1>1
<1>6. [loc[h] EXCEPT !.block = value] \in HandlerLocals
  BY <1>5 DEF HandlerLocals
<1> QED
  BY <1>1, <1>2, <1>3, <1>4, <1>5, <1>6 DEF HandlerLocals

LEMMA SetText ==
  ASSUME TypeOK, NEW h \in Clients,
         NEW value \in Texts,
         Set(h, "text", value)
  PROVE  /\ loc' \in [Clients -> HandlerLocals]
         /\ \A u \in Clients \ {h} : loc'[u] = loc[u]
         /\ loc'[h].text = value
         /\ loc'[h].fd = loc[h].fd
         /\ loc'[h].block = loc[h].block
         /\ loc'[h].dest = loc[h].dest
         /\ loc'[h].data = loc[h].data
         /\ loc'[h].todo = loc[h].todo
<1>1. loc \in [Clients -> HandlerLocals]
  BY DEF TypeOK, HandlerLocals
<1>2. loc' = [loc EXCEPT ![h] = [@ EXCEPT !.text = value]]
  BY DEF Set
<1>3. loc'[h] = [loc[h] EXCEPT !.text = value]
  BY <1>1, <1>2
<1>4. \A u \in Clients \ {h} : loc'[u] = loc[u]
  BY <1>1, <1>2
<1>5. loc[h] \in HandlerLocals
  BY <1>1
<1>6. [loc[h] EXCEPT !.text = value] \in HandlerLocals
  BY <1>5 DEF HandlerLocals
<1> QED
  BY <1>1, <1>2, <1>3, <1>4, <1>5, <1>6 DEF HandlerLocals

LEMMA SetDest ==
  ASSUME TypeOK, NEW h \in Clients,
         NEW value \in Descriptors \cup {None},
         Set(h, "dest", value)
  PROVE  /\ loc' \in [Clients -> HandlerLocals]
         /\ \A u \in Clients \ {h} : loc'[u] = loc[u]
         /\ loc'[h].dest = value
         /\ loc'[h].fd = loc[h].fd
         /\ loc'[h].block = loc[h].block
         /\ loc'[h].text = loc[h].text
         /\ loc'[h].data = loc[h].data
         /\ loc'[h].todo = loc[h].todo
<1>1. loc \in [Clients -> HandlerLocals]
  BY DEF TypeOK, HandlerLocals
<1>2. loc' = [loc EXCEPT ![h] = [@ EXCEPT !.dest = value]]
  BY DEF Set
<1>3. loc'[h] = [loc[h] EXCEPT !.dest = value]
  BY <1>1, <1>2
<1>4. \A u \in Clients \ {h} : loc'[u] = loc[u]
  BY <1>1, <1>2
<1>5. loc[h] \in HandlerLocals
  BY <1>1
<1>6. [loc[h] EXCEPT !.dest = value] \in HandlerLocals
  BY <1>5 DEF HandlerLocals
<1> QED
  BY <1>1, <1>2, <1>3, <1>4, <1>5, <1>6 DEF HandlerLocals

LEMMA SetData ==
  ASSUME TypeOK, NEW h \in Clients,
         NEW value \in Texts,
         Set(h, "data", value)
  PROVE  /\ loc' \in [Clients -> HandlerLocals]
         /\ \A u \in Clients \ {h} : loc'[u] = loc[u]
         /\ loc'[h].data = value
         /\ loc'[h].fd = loc[h].fd
         /\ loc'[h].block = loc[h].block
         /\ loc'[h].text = loc[h].text
         /\ loc'[h].dest = loc[h].dest
         /\ loc'[h].todo = loc[h].todo
<1>1. loc \in [Clients -> HandlerLocals]
  BY DEF TypeOK, HandlerLocals
<1>2. loc' = [loc EXCEPT ![h] = [@ EXCEPT !.data = value]]
  BY DEF Set
<1>3. loc'[h] = [loc[h] EXCEPT !.data = value]
  BY <1>1, <1>2
<1>4. \A u \in Clients \ {h} : loc'[u] = loc[u]
  BY <1>1, <1>2
<1>5. loc[h] \in HandlerLocals
  BY <1>1
<1>6. [loc[h] EXCEPT !.data = value] \in HandlerLocals
  BY <1>5 DEF HandlerLocals
<1> QED
  BY <1>1, <1>2, <1>3, <1>4, <1>5, <1>6 DEF HandlerLocals

LEMMA SetTodo ==
  ASSUME TypeOK, NEW h \in Clients,
         NEW value \in Seq({"client", "dest", "request"}),
         Set(h, "todo", value)
  PROVE  /\ loc' \in [Clients -> HandlerLocals]
         /\ \A u \in Clients \ {h} : loc'[u] = loc[u]
         /\ loc'[h].todo = value
         /\ loc'[h].fd = loc[h].fd
         /\ loc'[h].block = loc[h].block
         /\ loc'[h].text = loc[h].text
         /\ loc'[h].dest = loc[h].dest
         /\ loc'[h].data = loc[h].data
<1>1. loc \in [Clients -> HandlerLocals]
  BY DEF TypeOK, HandlerLocals
<1>2. loc' = [loc EXCEPT ![h] = [@ EXCEPT !.todo = value]]
  BY DEF Set
<1>3. loc'[h] = [loc[h] EXCEPT !.todo = value]
  BY <1>1, <1>2
<1>4. \A u \in Clients \ {h} : loc'[u] = loc[u]
  BY <1>1, <1>2
<1>5. loc[h] \in HandlerLocals
  BY <1>1
<1>6. [loc[h] EXCEPT !.todo = value] \in HandlerLocals
  BY <1>5 DEF HandlerLocals
<1> QED
  BY <1>1, <1>2, <1>3, <1>4, <1>5, <1>6 DEF HandlerLocals

-----------------------------------------------------------------------------
(* The steps of the handlers *)

(***************************************************************************)
(* A step of a handler keeps the types and what main and the handlers have *)
(* at their places if it leaves the handler with what its place needs.     *)
(***************************************************************************)
LEMMA HandlerPlaced ==
  ASSUME TypeOK, Placed, NEW h \in Clients, Alone(h),
         pc[h] # "absent", pc'[h] # "absent",
         pc'[h] = "copy" => loc'[h].block \in Blocks,
         pc'[h] = "cleanup" => loc'[h].todo \in Todos,
         UNCHANGED <<clientVars, ctx, m, overtaken>>,
         got' \in [Clients -> SUBSET Texts],
         fds' \in [Descriptors -> Connections \cup {None}],
         heap' \in [Blocks -> Texts], allocated' \subseteq Blocks,
         fault' \in {"none", "double_free", "sigpipe"}
  PROVE  TypeOK' /\ Placed'
<1>1. TypeOK'
  BY DEF TypeOK, Alone, HandlerLocals, clientVars
<1>2. /\ (m.pc # "accept" => /\ m.client \in accepted /\ m.fd \in Descriptors
                             /\ pc[m.client] = "absent")'
      /\ (IF Holding THEN m.block \in Blocks ELSE m.block = None)'
  <2>1. m.pc # "accept" => m.client \in Clients \ {h}
    BY DEF TypeOK, Placed
  <2> QED
    BY <2>1 DEF Placed, Alone, clientVars, Holding
<1>3. ASSUME NEW u \in Clients
      PROVE  (/\ pc[u] # "absent" => /\ u \in accepted
                                     /\ ctx.client_socket \in Descriptors
                                     /\ ctx.request \in Blocks
              /\ pc[u] = "copy" => loc[u].block \in Blocks
              /\ pc[u] = "cleanup" => loc[u].todo \in Todos)'
  BY DEF Placed, Alone, clientVars
<1> QED
  BY <1>1, <1>2, <1>3 DEF Placed

\* What is in the hands of the other handlers
LEMMA OthersHave ==
  ASSUME NEW u \in Clients, pc'[u] = pc[u], loc'[u] = loc[u]
  PROVE  /\ \A what : Pending(u, what)' <=> Pending(u, what)
         /\ Connected(u)' <=> Connected(u)
         /\ Texted(u)' <=> Texted(u)
         /\ ctx' = ctx => /\ GivenSocket(u)' = GivenSocket(u)
                          /\ GivenRequest(u)' = GivenRequest(u)
  BY DEF Pending, Running, Connected, Texted, GivenSocket, GivenRequest

\* .. stays their own if no descriptor and no block of theirs changes.
LEMMA OthersKeep ==
  ASSUME NEW u \in Clients, pc'[u] = pc[u], loc'[u] = loc[u], HandlerOwns(u),
         ctx' = ctx,
         \A d \in Descriptors : fds[d] \in {u, Server(u)} => fds'[d] = fds[d],
         \A b \in allocated : heap[b] = u =>
            b \in allocated' /\ heap'[b] = heap[b]
  PROVE  HandlerOwns(u)'
  BY OthersHave DEF HandlerOwns

(***************************************************************************)
(* A step of a handler that opens, closes, allocates and frees nothing     *)
(* leaves everything with its owner.                                       *)
(***************************************************************************)
LEMMA HandlerKeeps ==
  ASSUME TypeOK, Placed, Own, NEW h \in Clients, Alone(h),
         pc[h] # "absent", pc'[h] \notin {"absent", "served"},
         UNCHANGED <<clientVars, fds, heapVars, ctx, m, fault>>,
         \A c \in Clients : got'[c] \subseteq {c},
         HandlerOwns(h)',
         Pending(h, "client") =>
            Pending(h, "client")' \/ (h \in hostless /\ pc'[h] = "refused"),
         ~(h \in hostless /\ pc[h] = "refused"),
         Connected(h) => Connected(h)'
  PROVE  Own'
<1>1. \A u \in Clients \ {h} : HandlerOwns(u)'
  BY OthersKeep DEF Own, Alone, heapVars
<1>2. \A u \in Clients \ {h} : /\ Pending(u, "client")' <=> Pending(u, "client")
                               /\ Connected(u)' <=> Connected(u)
                               /\ pc'[u] = pc[u]
  BY OthersHave DEF Alone
<1>3. MainOwns'
  BY DEF Own, MainOwns, heapVars, Holding, Received
<1>4. SocketsOwned'
  <2>1. ASSUME NEW d \in Descriptors, NEW c \in Clients, fds[d] = c
        PROVE  \/ m.pc # "accept" /\ m.client = c
               \/ Pending(c, "client")'
               \/ c \in hostless /\ pc'[c] = "refused"
    BY <1>2, <2>1 DEF Own, SocketsOwned
  <2>2. \A d \in Descriptors, u \in Clients :
          fds[d] = Server(u) => Connected(u)'
    BY <1>2 DEF Own, SocketsOwned
  <2> QED
    BY <2>1, <2>2 DEF Own, SocketsOwned, clientVars
<1>5. RequestsOwned'
  BY DEF Own, RequestsOwned, heapVars, Holding, Alone
<1> QED
  BY <1>1, <1>3, <1>4, <1>5 DEF Own

\* Such a step keeps the invariant.
LEMMA HandlerQuiet ==
  ASSUME IInv, NEW h \in Clients, Alone(h),
         pc[h] \notin {"absent", "refused"}, pc'[h] \notin {"absent", "served"},
         UNCHANGED <<clientVars, fds, heapVars, ctx, m, fault, overtaken>>,
         got' \in [Clients -> SUBSET Texts],
         pc'[h] = "copy" => loc'[h].block \in Blocks,
         pc'[h] = "cleanup" => loc'[h].todo \in Todos,
         ~overtaken =>
           /\ \A c \in Clients : got'[c] \subseteq {c}
           /\ HandlerOwns(h)'
           /\ Pending(h, "client") =>
                Pending(h, "client")' \/ (h \in hostless /\ pc'[h] = "refused")
           /\ Connected(h) => Connected(h)'
  PROVE  IInv'
<1>1. TypeOK' /\ Placed'
  <2>1. /\ fds' \in [Descriptors -> Connections \cup {None}]
        /\ heap' \in [Blocks -> Texts] /\ allocated' \subseteq Blocks
        /\ fault' \in {"none", "double_free", "sigpipe"}
    BY DEF IInv, TypeOK, heapVars
  <2> QED
    BY <2>1, HandlerPlaced DEF IInv
<1>2. CASE ~overtaken
  BY <1>1, <1>2, HandlerKeeps DEF IInv
<1> QED
  BY <1>1, <1>2 DEF IInv

\* A handler on its way knows where ctx, its socket and its block are.
LEMMA HandlerHas ==
  ASSUME IInv, NEW h \in Clients, pc[h] # "absent"
  PROVE  /\ ctx.client_socket \in Descriptors /\ ctx.request \in Blocks
         /\ pc[h] = "copy" => loc[h].block \in Blocks
         /\ got \in [Clients -> SUBSET Texts]
         /\ ~overtaken => \A c \in Clients : got[c] \subseteq {c}
         /\ loc[h] \in HandlerLocals
  BY DEF IInv, TypeOK, Placed, Own, HandlerLocals

\* The handler takes the socket and the request (main.c:153-156).
LEMMA HandlerReads ==
  ASSUME IInv, NEW h \in Clients, LoadSocket(h) \/ LoadRequest(h) \/ Copy(h)
  PROVE  IInv'
<1> USE DEF At
<1>0. TypeOK
  BY DEF IInv
<1>1. CASE LoadSocket(h)
  <2>1. pc[h] = "load_socket" /\ Set(h, "fd", ctx.client_socket)
    BY <1>1 DEF LoadSocket
  <2>2. Alone(h) /\ pc'[h] = "load_request"
        /\ loc'[h].fd = ctx.client_socket
    BY <1>0, <1>1, <2>1, HandlerHas, Going, SetFd
    DEF LoadSocket, Alone, Places
  <2>3. ~overtaken =>
          /\ HandlerOwns(h)'
          /\ Pending(h, "client")' /\ ~Connected(h)
    BY <1>1, <2>1, <2>2
    DEF LoadSocket, IInv, Own, HandlerOwns, Pending, Running, Connected,
        GivenSocket, GivenRequest, Texted, heapVars
  <2> QED
    BY <1>1, <2>1, <2>2, <2>3, HandlerHas, HandlerQuiet DEF LoadSocket
<1>2. CASE LoadRequest(h)
  <2>1. pc[h] = "load_request" /\ Set(h, "block", ctx.request)
    BY <1>2 DEF LoadRequest
  <2>2. Alone(h) /\ pc'[h] = "copy"
        /\ loc'[h].block = ctx.request /\ loc'[h].fd = loc[h].fd
    BY <1>0, <1>2, <2>1, HandlerHas, Going, SetBlock
    DEF LoadRequest, Alone, Places
  <2>3. ~overtaken =>
          /\ HandlerOwns(h)'
          /\ Pending(h, "client")' /\ ~Connected(h)
    BY <1>2, <2>1, <2>2
    DEF LoadRequest, IInv, Own, HandlerOwns, Pending, Running, Connected,
        GivenSocket, GivenRequest, Texted, heapVars
  <2> QED
    BY <1>2, <2>1, <2>2, <2>3, HandlerHas, HandlerQuiet DEF LoadRequest
<1>3. CASE Copy(h)
  <2>1. pc[h] = "copy" /\ Set(h, "text", heap[loc[h].block])
    BY <1>3 DEF Copy
  <2>2. heap[loc[h].block] \in Texts
    BY <2>1, HandlerHas DEF IInv, TypeOK
  <2>3. Alone(h) /\ pc'[h] = "host"
        /\ loc'[h].text = heap[loc[h].block]
        /\ loc'[h].fd = loc[h].fd /\ loc'[h].block = loc[h].block
    BY <1>0, <1>3, <2>1, <2>2, Going, SetText DEF Copy, Alone, Places
  <2>4. ~overtaken =>
          /\ HandlerOwns(h)'
          /\ Pending(h, "client")' /\ ~Connected(h)
    BY <1>3, <2>1, <2>3
    DEF Copy, IInv, Own, HandlerOwns, Pending, Running, Connected,
        GivenSocket, GivenRequest, Texted, heapVars
  <2> QED
    BY <1>3, <2>1, <2>3, <2>4, HandlerHas, HandlerQuiet DEF Copy
<1> QED
  BY <1>1, <1>2, <1>3

\* A handler returns, and will close what it has opened (main.c:175-215).
LEMMA HandlerFinishes ==
  ASSUME IInv, NEW h \in Clients, NEW todo \in Todos, Finish(h, todo),
         pc[h] \in {"host", "connect", "send", "read", "forward"},
         Has(todo, "client"), Has(todo, "dest") <=> Connected(h),
         UNCHANGED <<clientVars, got, fds, heapVars, ctx, m, fault, overtaken>>
  PROVE  IInv'
<1>1. TypeOK /\ todo \in Seq({"client", "dest", "request"})
  BY TodoFacts DEF IInv
<1>2. /\ Alone(h) /\ pc'[h] = "cleanup" /\ loc'[h].todo = todo
      /\ loc'[h].fd = loc[h].fd /\ loc'[h].block = loc[h].block
      /\ loc'[h].dest = loc[h].dest
  BY <1>1, Going, SetTodo DEF Finish, Alone, Places
<1>3. /\ \A what : Pending(h, what)' <=> Has(todo, what)
      /\ Connected(h)' <=> Connected(h)
      /\ \A what : Pending(h, what)
  BY <1>2 DEF Pending, Running, Connected, Has
<1>4. ~overtaken => HandlerOwns(h)'
  BY <1>2, <1>3
  DEF IInv, Own, HandlerOwns, GivenSocket, GivenRequest, Texted, heapVars
<1> QED
  BY <1>2, <1>3, <1>4, HandlerHas, HandlerQuiet

LEMMA HandlerReturns ==
  ASSUME IInv, NEW h \in Clients,
         NoSocket(h) \/ ConnectFails(h) \/ WriteFails(h) \/ AnswerEnds(h)
  PROVE  IInv'
<1> USE DEF At
<1>1. CASE NoSocket(h)
  <2>1. pc[h] = "host" /\ ~Connected(h)
    BY <1>1 DEF NoSocket, Connected
  <2>2. <<"client">> \in Todos /\ Has(<<"client">>, "client")
        /\ ~Has(<<"client">>, "dest")
    BY HasOne DEF Todos
  <2> QED
    BY <1>1, <2>1, <2>2, HandlerFinishes DEF NoSocket
<1>2. CASE ConnectFails(h)
  <2>1. pc[h] = "connect" /\ Connected(h)
    BY <1>2 DEF ConnectFails, Connected
  <2>2. <<"dest", "client">> \in Todos /\ Has(<<"dest", "client">>, "client")
        /\ Has(<<"dest", "client">>, "dest")
    BY HasTwo DEF Todos
  <2> QED
    BY <1>2, <2>1, <2>2, HandlerFinishes DEF ConnectFails
<1>3. CASE WriteFails(h)
  <2>1. pc[h] \in {"send", "forward"} /\ Connected(h)
    BY <1>3 DEF WriteFails, Connected
  <2>2. <<"client", "dest">> \in Todos /\ Has(<<"client", "dest">>, "client")
        /\ Has(<<"client", "dest">>, "dest")
    BY HasTwo DEF Todos
  <2> QED
    BY <1>3, <2>1, <2>2, HandlerFinishes DEF WriteFails
<1>4. CASE AnswerEnds(h)
  <2> DEFINE all == <<"client", "dest", "request">>
  <2>1. pc[h] = "read" /\ Connected(h)
    BY <1>4 DEF AnswerEnds, Connected
  <2>2. all \in Todos /\ Has(all, "client") /\ Has(all, "dest")
    BY HasThree DEF Todos
  <2> QED
    BY <1>4, <2>1, <2>2, HandlerFinishes DEF AnswerEnds
<1> QED
  BY <1>1, <1>2, <1>3, <1>4

\* A request that names no host, and connect (main.c:158-175, 93-102)
LEMMA HandlerDecides ==
  ASSUME IInv, NEW h \in Clients, Refuse(h) \/ Connect(h)
  PROVE  IInv'
<1> USE DEF At
<1>0. TypeOK
  BY DEF IInv
<1>1. CASE Refuse(h)
  <2>1. pc[h] = "host" /\ ~HasHost(h) /\ UNCHANGED loc
    BY <1>1 DEF Refuse
  <2>2. Alone(h) /\ pc'[h] = "refused"
    BY <1>0, <1>1, <2>1, Going DEF Refuse, Alone, Places, TypeOK, HandlerLocals
  <2>3. ~overtaken => /\ HandlerOwns(h)'
                      /\ h \in hostless /\ ~Connected(h)
    BY <2>1, <2>2
    DEF IInv, Own, HandlerOwns, Pending, Running, Connected, Texted, HasHost
  <2> QED
    BY <1>1, <2>1, <2>2, <2>3, HandlerHas, HandlerQuiet DEF Refuse
<1>2. CASE Connect(h)
  <2>1. pc[h] = "connect" /\ UNCHANGED loc
    BY <1>2 DEF Connect
  <2>2. Alone(h) /\ pc'[h] = "send"
    BY <1>0, <1>2, <2>1, Going DEF Connect, Alone, Places, TypeOK, HandlerLocals
  <2>3. ~overtaken => /\ HandlerOwns(h)'
                      /\ Pending(h, "client")' /\ Connected(h)'
    BY <1>2, <2>1, <2>2
    DEF Connect, IInv, Own, HandlerOwns, Pending, Running, Connected,
        GivenSocket, GivenRequest, Texted, heapVars
  <2> QED
    BY <1>2, <2>1, <2>2, <2>3, HandlerHas, HandlerQuiet DEF Connect
<1> QED
  BY <1>1, <1>2

\* What is written to a client's own connection reaches this client alone.
LEMMA Delivers ==
  ASSUME TypeOK, NEW connection, NEW text \in Texts, Deliver(connection, text)
  PROVE  /\ got' \in [Clients -> SUBSET Texts]
         /\ \A c \in Clients :
              c # connection \/ text = c => got'[c] \subseteq got[c] \cup {c}
  BY DEF TypeOK, Deliver

\* The request and the answer are passed on (main.c:183-208).
LEMMA HandlerCopies ==
  ASSUME IInv, NEW h \in Clients, Send(h) \/ Read(h) \/ Forward(h)
  PROVE  IInv'
<1> USE DEF At
<1>0. TypeOK
  BY DEF IInv
<1>1. CASE Send(h)
  <2>1. pc[h] = "send" /\ UNCHANGED loc
        /\ Deliver(fds[loc[h].dest], loc[h].text)
    BY <1>1 DEF Send
  <2>2. Alone(h) /\ pc'[h] = "read"
    BY <1>0, <1>1, <2>1, Going DEF Send, Alone, Places, TypeOK, HandlerLocals
  <2>3. ~overtaken => /\ HandlerOwns(h)'
                      /\ Pending(h, "client")' /\ Connected(h)'
    BY <1>1, <2>1, <2>2
    DEF Send, IInv, Own, HandlerOwns, Pending, Running, Connected,
        GivenSocket, GivenRequest, Texted, heapVars
  <2>4. /\ got' \in [Clients -> SUBSET Texts]
        /\ ~overtaken => \A c \in Clients : got'[c] \subseteq {c}
    <3>1. loc[h].text \in Texts
      BY <2>1, HandlerHas DEF HandlerLocals
    <3>2. ~overtaken => fds[loc[h].dest] = Server(h)
      BY <2>1 DEF IInv, Own, HandlerOwns, Connected
    <3>3. ~overtaken => \A c \in Clients : got[c] \subseteq {c}
      BY DEF IInv, Own
    <3> QED
      BY <1>0, <2>1, <3>1, <3>2, <3>3, Delivers, Names
  <2> QED
    BY <1>1, <2>1, <2>2, <2>3, <2>4, HandlerQuiet DEF Send
<1>2. CASE Read(h)
  <2>1. PICK value \in Texts :
          /\ Set(h, "data", value)
          /\ ~overtaken => value = h
    <3> DEFINE from == fds[loc[h].dest]
    <3>1. pc[h] = "read"
      BY <1>2 DEF Read
    <3>2. ~overtaken => from = Server(h) /\ loc[h].text = h
      BY <3>1 DEF IInv, Own, HandlerOwns, Connected, Texted
    <3>3. CASE from \in sent /\ Set(h, "data", from)
      <4>1. from \in Clients
        BY <1>0, <3>3 DEF TypeOK
      <4> QED
        BY <3>2, <3>3, <4>1, Names DEF Texts
    <3>4. ASSUME NEW s \in Clients, from = Server(s),
                 Set(h, "data", loc[s].text)
          PROVE  \E value \in Texts : /\ Set(h, "data", value)
                                      /\ ~overtaken => value = h
      <4>1. loc[s].text \in Texts
        BY <1>0 DEF TypeOK
      <4>2. ~overtaken => s = h
        BY <3>2, <3>4, Names
      <4> QED
        BY <3>2, <3>4, <4>1, <4>2
    <3> QED
      BY <1>2, <3>3, <3>4 DEF Read
  <2>2. /\ pc[h] = "read" /\ Alone(h) /\ pc'[h] = "forward"
        /\ loc'[h].data = value /\ loc'[h].text = loc[h].text
        /\ loc'[h].fd = loc[h].fd /\ loc'[h].block = loc[h].block
        /\ loc'[h].dest = loc[h].dest
    BY <1>0, <1>2, <2>1, Going, SetData DEF Read, Alone, Places
  <2>3. ~overtaken => /\ HandlerOwns(h)'
                      /\ Pending(h, "client")' /\ Connected(h)'
    BY <1>2, <2>1, <2>2
    DEF Read, IInv, Own, HandlerOwns, Pending, Running, Connected,
        GivenSocket, GivenRequest, Texted, heapVars
  <2> QED
    BY <1>2, <2>2, <2>3, HandlerHas, HandlerQuiet DEF Read
<1>3. CASE Forward(h)
  <2>1. /\ pc[h] = "forward" /\ Set(h, "data", None)
        /\ Deliver(fds[loc[h].fd], loc[h].data)
    BY <1>3 DEF Forward
  <2>2. /\ Alone(h) /\ pc'[h] = "read" /\ loc'[h].text = loc[h].text
        /\ loc'[h].fd = loc[h].fd /\ loc'[h].block = loc[h].block
        /\ loc'[h].dest = loc[h].dest
    <3>1. None \in Texts
      BY DEF Texts
    <3> QED
      BY <1>0, <1>3, <2>1, <3>1, Going, SetData DEF Forward, Alone, Places
  <2>3. ~overtaken => /\ HandlerOwns(h)'
                      /\ Pending(h, "client")' /\ Connected(h)'
    BY <1>3, <2>1, <2>2
    DEF Forward, IInv, Own, HandlerOwns, Pending, Running, Connected,
        GivenSocket, GivenRequest, Texted, heapVars
  <2>4. /\ got' \in [Clients -> SUBSET Texts]
        /\ ~overtaken => \A c \in Clients : got'[c] \subseteq {c}
    <3>1. loc[h].data \in Texts
      BY <2>1, HandlerHas DEF HandlerLocals
    <3>2. ~overtaken => fds[loc[h].fd] = h /\ loc[h].data = h
      BY <2>1 DEF IInv, Own, HandlerOwns, Pending, Running, GivenSocket
    <3>3. ~overtaken => \A c \in Clients : got[c] \subseteq {c}
      BY DEF IInv, Own
    <3> QED
      BY <1>0, <2>1, <3>1, <3>2, <3>3, Delivers
  <2> QED
    BY <1>3, <2>1, <2>2, <2>3, <2>4, HandlerQuiet DEF Forward
<1> QED
  BY <1>1, <1>2, <1>3

\* socket (main.c:85): the handler has got a descriptor that nobody had.
LEMMA HandlerOpens ==
  ASSUME IInv, NEW h \in Clients, Socket(h)
  PROVE  IInv'
<1>0. TypeOK
  BY DEF IInv
<1>1. PICK d \in Descriptors : Open(d, Server(h)) /\ Set(h, "dest", d)
  BY DEF Socket
<1>2. /\ pc[h] = "host" /\ Goto(h, "connect")
      /\ UNCHANGED <<clientVars, got, heapVars, ctx, m, fault, overtaken>>
  BY DEF Socket, At
<1>3. /\ Alone(h) /\ pc'[h] = "connect" /\ loc'[h].dest = d
      /\ loc'[h].fd = loc[h].fd /\ loc'[h].block = loc[h].block
      /\ loc'[h].text = loc[h].text
  BY <1>0, <1>1, <1>2, Going, SetDest DEF Alone, Places
<1>4. /\ fds' \in [Descriptors -> Connections \cup {None}]
      /\ fds[d] = None /\ fds'[d] = Server(h)
      /\ \A e \in Descriptors \ {d} : fds'[e] = fds[e]
  BY <1>0, <1>1 DEF TypeOK, Open, FreeDescriptors, Connections, Servers
<1>5. TypeOK' /\ Placed'
  <2>1. /\ got' \in [Clients -> SUBSET Texts]
        /\ heap' \in [Blocks -> Texts] /\ allocated' \subseteq Blocks
        /\ fault' \in {"none", "double_free", "sigpipe"}
    BY <1>0, <1>2 DEF TypeOK, heapVars
  <2> QED
    BY <1>2, <1>3, <1>4, <2>1, HandlerPlaced DEF IInv
<1>6. ASSUME ~overtaken
      PROVE  Own'
  <2>0. Own
    BY <1>6 DEF IInv
  <2>1. \A u \in Clients \ {h} : HandlerOwns(u)'
    BY <1>2, <1>3, <1>4, <2>0, Names, OthersKeep DEF Own, Alone, heapVars
  <2>2. Pending(h, "client") /\ ~Connected(h)
    BY <1>2 DEF Pending, Running, Connected
  <2>3. HandlerOwns(h)' /\ Pending(h, "client")' /\ Connected(h)'
    BY <1>2, <1>3, <1>4, <2>0, Names
    DEF Own, HandlerOwns, Pending, Running, Connected, GivenSocket,
        GivenRequest, Texted, heapVars
  <2>4. MainOwns'
    BY <1>0, <1>2, <1>4, <2>0, Names
    DEF IInv, Placed, TypeOK, Own, MainOwns, heapVars, Holding, Received
  <2>5. \A u \in Clients \ {h} :
          /\ Pending(u, "client")' <=> Pending(u, "client")
          /\ Connected(u)' <=> Connected(u)
          /\ pc'[u] = pc[u]
    BY <1>3, OthersHave DEF Alone
  <2>6. SocketsOwned'
    <3>1. \A e \in Descriptors : fds[e] # Server(h)
      BY <2>0, <2>2 DEF Own, SocketsOwned
    <3>2. \A e, f \in Descriptors :
            fds'[e] = fds'[f] /\ fds'[e] # None => e = f
      BY <1>4, <2>0, <3>1 DEF Own, SocketsOwned
    <3>3. ASSUME NEW e \in Descriptors, NEW c \in Clients, fds'[e] = c
          PROVE  (\/ m.pc # "accept" /\ m.client = c
                  \/ Pending(c, "client")
                  \/ c \in hostless /\ pc[c] = "refused")'
      <4>1. fds[e] = c
        BY <1>4, <3>3, Names
      <4> QED
        BY <1>2, <2>0, <2>3, <2>5, <4>1 DEF Own, SocketsOwned, clientVars
    <3>4. \A e \in Descriptors, u \in Clients :
            fds'[e] = Server(u) => Connected(u)'
      BY <1>4, <2>0, <2>3, <2>5, Names DEF Own, SocketsOwned
    <3> QED
      BY <3>2, <3>3, <3>4 DEF SocketsOwned
  <2>7. RequestsOwned'
    BY <1>2, <1>3, <2>0 DEF Own, RequestsOwned, heapVars, Holding, Alone
  <2> QED
    BY <1>2, <2>0, <2>1, <2>3, <2>4, <2>6, <2>7 DEF Own
<1> QED
  BY <1>2, <1>5, <1>6 DEF IInv

\* A signal ends the process (main.c:183, 200).
LEMMA HandlerKilled ==
  ASSUME IInv, NEW h \in Clients, PipeSignal(h)
  PROVE  IInv'
<1>1. /\ fault' = "sigpipe"
      /\ UNCHANGED <<clientVars, got, fds, heapVars, ctx, m, handlerVars,
                     overtaken>>
  BY DEF PipeSignal
<1>2. TypeOK'
  BY <1>1 DEF IInv, TypeOK, clientVars, heapVars, handlerVars
<1>3. Placed'
  BY <1>1 DEF IInv, Placed, clientVars, handlerVars, Holding
<1>4. ASSUME ~overtaken
      PROVE  Own'
  <2>1. \A u \in Clients : HandlerOwns(u)'
    BY <1>1, <1>4, OthersKeep DEF IInv, Own, heapVars, handlerVars
  <2>2. MainOwns'
    BY <1>1, <1>4 DEF IInv, Own, MainOwns, heapVars, Holding, Received
  <2>3. SocketsOwned'
    BY <1>1, <1>4, OthersHave
    DEF IInv, Own, SocketsOwned, clientVars, handlerVars
  <2>4. RequestsOwned'
    BY <1>1, <1>4
    DEF IInv, Own, RequestsOwned, heapVars, handlerVars, Holding
  <2> QED
    BY <1>1, <1>4, <2>1, <2>2, <2>3, <2>4 DEF IInv, Own
<1> QED
  BY <1>1, <1>2, <1>3, <1>4 DEF IInv

\* What is left to release after a step of Cleanup
LEMMA Released ==
  ASSUME IInv, NEW h \in Clients, Cleanup(h)
  PROVE  LET todo == loc[h].todo
             rest == Tail(todo)
         IN  /\ pc[h] = "cleanup" /\ todo \in Todos /\ Alone(h)
             /\ pc'[h] = IF rest # <<>> THEN "cleanup"
                         ELSE IF Head(todo) = "request" THEN "served"
                         ELSE "failed"
             /\ rest # <<>> =>
                  /\ loc'[h].todo = rest /\ rest \in Todos
                  /\ loc'[h].fd = loc[h].fd /\ loc'[h].block = loc[h].block
                  /\ loc'[h].dest = loc[h].dest
             /\ \A what : /\ Pending(h, what) <=> Has(todo, what)
                          /\ Pending(h, what)' <=> Has(rest, what)
             /\ Connected(h) <=> Has(todo, "dest")
             /\ Connected(h)' <=> Has(rest, "dest")
<1> DEFINE todo == loc[h].todo
           rest == Tail(todo)
<1>0. TypeOK
  BY DEF IInv
<1>1. pc[h] = "cleanup" /\ todo \in Todos
  BY DEF IInv, Placed, Cleanup, At
<1>2. /\ Goto(h, IF rest # <<>> THEN "cleanup"
                 ELSE IF Head(todo) = "request" THEN "served" ELSE "failed")
      /\ loc' = [loc EXCEPT ![h] = IF rest = <<>> THEN NoLocals
                                   ELSE [@ EXCEPT !.todo = rest]]
  BY DEF Cleanup
<1>3. rest = <<>> \/ rest \in Todos
  BY <1>1, TodoFacts
<1>4. loc \in [Clients -> HandlerLocals] /\ loc[h] \in HandlerLocals
  BY <1>0 DEF TypeOK, HandlerLocals
<1>5. /\ loc'[h] \in HandlerLocals
      /\ rest # <<>> =>
           /\ loc'[h].todo = rest /\ loc'[h].fd = loc[h].fd
           /\ loc'[h].block = loc[h].block /\ loc'[h].dest = loc[h].dest
  <2>1. CASE rest = <<>>
    <3>1. loc'[h] = NoLocals
      BY <1>2, <1>4, <2>1
    <3> QED
      BY <2>1, <3>1 DEF NoLocals, HandlerLocals, Texts
  <2>2. CASE rest # <<>>
    <3>1. rest \in Seq({"client", "dest", "request"})
      BY <1>3, <2>2, TodoFacts
    <3>2. loc'[h] = [loc[h] EXCEPT !.todo = rest]
      BY <1>2, <1>4, <2>2
    <3> HIDE DEF rest
    <3> QED
      BY <1>4, <3>1, <3>2 DEF HandlerLocals
  <2> QED
    BY <2>1, <2>2
<1>6. \A u \in Clients \ {h} : loc'[u] = loc[u]
  BY <1>2, <1>4
<1>7. loc' \in [Clients -> HandlerLocals]
  BY <1>2, <1>4, <1>5
<1> DEFINE place == IF rest # <<>> THEN "cleanup"
                    ELSE IF Head(todo) = "request" THEN "served" ELSE "failed"
<1>8. Alone(h) /\ pc'[h] = place
  <2>1. place \in Places
    BY DEF Places
  <2> HIDE DEF place
  <2> QED
    BY <1>0, <1>2, <1>6, <1>7, <2>1, Going DEF Alone, place
<1>9. /\ \A what : Pending(h, what) <=> Has(todo, what)
      /\ Connected(h) <=> Has(todo, "dest")
  BY <1>1 DEF Pending, Running, Connected, Has
<1>10. /\ \A what : Pending(h, what)' <=> Has(rest, what)
       /\ Connected(h)' <=> Has(rest, "dest")
  <2>1. CASE rest = <<>>
    BY <1>8, <2>1, HasNone DEF Pending, Running, Connected
  <2>2. CASE rest # <<>>
    BY <1>5, <1>8, <2>2 DEF Pending, Running, Connected, Has
  <2> QED
    BY <2>1, <2>2
<1> QED
  BY <1>1, <1>3, <1>5, <1>8, <1>9, <1>10

\* close(client_socket) or close(dest_socket) closes the handler's own.
LEMMA HandlerCloses ==
  ASSUME IInv, ~overtaken, NEW h \in Clients, Cleanup(h),
         NEW d \in Descriptors, Close(d),
         UNCHANGED <<heapVars, fault>>,
         \/ Head(loc[h].todo) = "client" /\ d = loc[h].fd
         \/ Head(loc[h].todo) = "dest" /\ d = loc[h].dest
  PROVE  Own'
<1> DEFINE todo == loc[h].todo
           rest == Tail(todo)
           first == Head(todo)
<1>0. TypeOK /\ Own
  BY DEF IInv
<1>1. /\ pc[h] = "cleanup" /\ Alone(h) /\ todo \in Todos
      /\ pc'[h] = IF rest # <<>> THEN "cleanup"
                  ELSE IF first = "request" THEN "served" ELSE "failed"
      /\ rest # <<>> =>
           /\ loc'[h].fd = loc[h].fd /\ loc'[h].block = loc[h].block
           /\ loc'[h].dest = loc[h].dest
      /\ \A what : /\ Pending(h, what) <=> Has(todo, what)
                   /\ Pending(h, what)' <=> Has(rest, what)
      /\ Connected(h) <=> Has(todo, "dest")
      /\ Connected(h)' <=> Has(rest, "dest")
  BY Released
<1>2. /\ UNCHANGED <<clientVars, got, ctx, m, heapVars, fault>>
      /\ first \in {"client", "dest"}
  BY DEF Cleanup
<1>3. /\ first \in {"client", "dest", "request"} /\ ~Has(rest, first)
      /\ \A what : Has(todo, what) <=> what = first \/ Has(rest, what)
  BY <1>1, TodoFacts
<1> HIDE DEF todo, rest, first
<1>4. rest = <<>> => \A what : ~Has(rest, what)
  BY HasNone
<1>5. fds[d] = IF first = "client" THEN h ELSE Server(h)
  BY <1>0, <1>1, <1>3 DEF Own, HandlerOwns, GivenSocket, todo, first
<1>6. /\ fds'[d] = None
      /\ \A e \in Descriptors \ {d} : fds'[e] = fds[e]
  BY <1>0 DEF TypeOK, Close
<1>7. \A u \in Clients \ {h} : HandlerOwns(u)'
  BY <1>0, <1>1, <1>2, <1>5, <1>6, Names, OthersKeep DEF Own, Alone, heapVars
<1>8. HandlerOwns(h)'
  <2>1. GivenSocket(h) = loc[h].fd /\ GivenRequest(h) = loc[h].block
    BY <1>1 DEF GivenSocket, GivenRequest
  <2>2. rest # <<>> => /\ GivenSocket(h)' = loc[h].fd
                       /\ GivenRequest(h)' = loc[h].block
    BY <1>1 DEF GivenSocket, GivenRequest
  <2>3. HandlerOwns(h)
    BY <1>0 DEF Own
  <2>4. ~Texted(h)' /\ pc'[h] # "forward"
    BY <1>1 DEF Texted
  <2>5. Pending(h, "client")' => /\ GivenSocket(h)' \in Descriptors
                                 /\ fds'[GivenSocket(h)'] = h
    BY <1>1, <1>3, <1>4, <1>5, <1>6, <2>1, <2>2, <2>3, Names DEF HandlerOwns
  <2>6. Connected(h)' => /\ loc'[h].dest \in Descriptors
                         /\ fds'[loc'[h].dest] = Server(h)
    BY <1>1, <1>2, <1>3, <1>4, <1>5, <1>6, <2>3, Names DEF HandlerOwns
  <2>7. Pending(h, "request")' => /\ GivenRequest(h)' \in allocated
                                  /\ heap[GivenRequest(h)'] = h
    BY <1>1, <1>3, <1>4, <2>1, <2>2, <2>3 DEF HandlerOwns
  <2> QED
    BY <1>2, <2>4, <2>5, <2>6, <2>7 DEF HandlerOwns, heapVars
<1>9. MainOwns'
  <2>1. m.pc # "accept" => m.client \in Clients \ {h}
    BY <1>1 DEF IInv, TypeOK, Placed
  <2> QED
    BY <1>0, <1>2, <1>5, <1>6, <2>1, Names
    DEF IInv, Placed, Own, MainOwns, heapVars, Holding, Received
<1>10. \A u \in Clients \ {h} :
         /\ Pending(u, "client")' <=> Pending(u, "client")
         /\ Connected(u)' <=> Connected(u)
         /\ pc'[u] = pc[u]
  BY <1>1, OthersHave DEF Alone
<1>11. SocketsOwned'
  <2>1. \A e, f \in Descriptors :
          fds'[e] = fds'[f] /\ fds'[e] # None => e = f
    BY <1>0, <1>6 DEF Own, SocketsOwned
  <2>2. ASSUME NEW e \in Descriptors, NEW c \in Clients, fds'[e] = c
        PROVE  (\/ m.pc # "accept" /\ m.client = c
                \/ Pending(c, "client")
                \/ c \in hostless /\ pc[c] = "refused")'
    <3>1. e # d /\ fds[e] = c
      BY <1>6, <2>2, Names
    <3>2. \/ m.pc # "accept" /\ m.client = c
          \/ Pending(c, "client")
          \/ c \in hostless /\ pc[c] = "refused"
      BY <1>0, <3>1 DEF Own, SocketsOwned
    <3>3. CASE c = h
      <4>1. first = "dest"
        BY <1>0, <1>2, <1>5, <3>1, <3>3, Names DEF Own, SocketsOwned
      <4>2. m.pc # "accept" => m.client # h
        BY <1>1 DEF IInv, Placed
      <4> QED
        BY <1>1, <1>2, <1>3, <3>2, <3>3, <4>1, <4>2
    <3> QED
      BY <1>2, <1>10, <3>2, <3>3 DEF clientVars
  <2>3. ASSUME NEW e \in Descriptors, NEW u \in Clients, fds'[e] = Server(u)
        PROVE  Connected(u)'
    <3>1. e # d /\ fds[e] = Server(u)
      BY <1>6, <2>3, Names
    <3>2. Connected(u)
      BY <1>0, <3>1 DEF Own, SocketsOwned
    <3>3. CASE u = h
      <4>1. first = "client"
        BY <1>0, <1>2, <1>5, <3>1, <3>3, Names DEF Own, SocketsOwned
      <4> QED
        BY <1>1, <1>3, <3>2, <3>3, <4>1
    <3> QED
      BY <1>10, <3>2, <3>3
  <2> QED
    BY <2>1, <2>2, <2>3 DEF SocketsOwned
<1>12. RequestsOwned'
  BY <1>0, <1>1, <1>2 DEF Own, RequestsOwned, heapVars, Holding, Alone
<1> QED
  BY <1>0, <1>2, <1>7, <1>8, <1>9, <1>11, <1>12 DEF Own

\* free(request_temp) frees the handler's own, and ends it (main.c:212).
LEMMA HandlerFrees ==
  ASSUME IInv, ~overtaken, NEW h \in Clients, Cleanup(h), Free(loc[h].block),
         UNCHANGED fds, Head(loc[h].todo) = "request"
  PROVE  Own'
<1> DEFINE todo == loc[h].todo
           rest == Tail(todo)
           block == loc[h].block
<1>0. TypeOK /\ Own
  BY DEF IInv
<1>1. /\ pc[h] = "cleanup" /\ Alone(h) /\ todo \in Todos
      /\ pc'[h] = IF rest # <<>> THEN "cleanup" ELSE "served"
      /\ \A what : /\ Pending(h, what) <=> Has(todo, what)
                   /\ Pending(h, what)' <=> Has(rest, what)
      /\ Connected(h)' <=> Has(rest, "dest")
  BY Released
<1>2. UNCHANGED <<clientVars, got, fds, ctx, m>>
  BY DEF Cleanup
<1>3. /\ rest = <<>> /\ \A what : ~Has(rest, what)
      /\ Has(todo, "request") /\ ~Has(todo, "client") /\ ~Has(todo, "dest")
  BY <1>1, TodoFacts, HasNone
<1> HIDE DEF todo, rest
<1>4. block \in allocated /\ heap[block] = h
  BY <1>0, <1>1, <1>3 DEF Own, HandlerOwns, GivenRequest
<1>5. /\ allocated' = allocated \ {block} /\ UNCHANGED fault
      /\ \A b \in allocated \ {block} : heap'[b] = heap[b]
  BY <1>0, <1>4 DEF Free, TypeOK
<1> HIDE DEF block
<1>6. \A u \in Clients \ {h} : HandlerOwns(u)'
  BY <1>0, <1>1, <1>2, <1>4, <1>5, OthersKeep DEF Own, Alone
<1>7. HandlerOwns(h)'
  BY <1>1, <1>3 DEF HandlerOwns, Texted
<1>8. MainOwns'
  <2>1. m.pc # "accept" => m.client # h
    BY <1>1 DEF IInv, Placed
  <2>2. Holding => m.block \in allocated \ {block} /\ m.pc # "accept"
    BY <1>0, <1>4, <2>1, Names DEF Own, MainOwns, Holding, Received
  <2> QED
    BY <1>0, <1>2, <1>5, <2>2 DEF Own, MainOwns, Holding, Received
<1>9. SocketsOwned'
  <2>1. \A u \in Clients \ {h} :
          /\ Pending(u, "client")' <=> Pending(u, "client")
          /\ Connected(u)' <=> Connected(u)
          /\ pc'[u] = pc[u]
    BY <1>1, OthersHave DEF Alone
  <2>2. \A d \in Descriptors : fds[d] # h /\ fds[d] # Server(h)
    <3>1. ~Pending(h, "client") /\ ~Connected(h) /\ pc[h] # "refused"
      BY <1>1, <1>3 DEF Connected
    <3>2. m.pc # "accept" => m.client # h
      BY <1>1 DEF IInv, Placed
    <3> QED
      BY <1>0, <3>1, <3>2 DEF Own, SocketsOwned
  <2> QED
    BY <1>0, <1>2, <2>1, <2>2 DEF Own, SocketsOwned, clientVars
<1>10. RequestsOwned'
  BY <1>0, <1>1, <1>2, <1>4, <1>5 DEF Own, RequestsOwned, Holding, Alone
<1> QED
  BY <1>0, <1>2, <1>5, <1>6, <1>7, <1>8, <1>9, <1>10 DEF Own

\* The handler closes a socket or frees the request (main.c:175-215).
LEMMA HandlerReleases ==
  ASSUME IInv, NEW h \in Clients, Cleanup(h)
  PROVE  IInv'
<1> DEFINE todo == loc[h].todo
           rest == Tail(todo)
<1>0. TypeOK
  BY DEF IInv
<1>1. UNCHANGED <<clientVars, got, ctx, m, overtaken>>
  BY DEF Cleanup
<1>2. /\ pc[h] = "cleanup" /\ Alone(h)
      /\ pc'[h] \in {"cleanup", "served", "failed"}
      /\ pc'[h] = "cleanup" => loc'[h].todo \in Todos
  BY Released
<1>3. \/ /\ Head(todo) = "client" /\ Close(loc[h].fd)
         /\ UNCHANGED <<heapVars, fault>>
      \/ /\ Head(todo) = "dest" /\ Close(loc[h].dest)
         /\ UNCHANGED <<heapVars, fault>>
      \/ Head(todo) = "request" /\ Free(loc[h].block) /\ UNCHANGED fds
  BY DEF Cleanup
<1>4. TypeOK' /\ Placed'
  <2>1. got' \in [Clients -> SUBSET Texts]
    BY <1>0, <1>1 DEF TypeOK
  <2>2. fds' \in [Descriptors -> Connections \cup {None}]
    BY <1>0, <1>3 DEF TypeOK, Close
  <2>3. heap' \in [Blocks -> Texts] /\ allocated' \subseteq Blocks
        /\ fault' \in {"none", "double_free", "sigpipe"}
    BY <1>0, <1>3 DEF TypeOK, Free, heapVars, Texts
  <2> QED
    BY <1>1, <1>2, <2>1, <2>2, <2>3, HandlerPlaced DEF IInv
<1>5. ASSUME ~overtaken
      PROVE  Own'
  <2>0. HandlerOwns(h) /\ todo \in Todos
    BY <1>2, <1>5 DEF IInv, Own, Placed
  <2>1. CASE Head(todo) = "client"
    <3>1. Pending(h, "client")
      BY <2>0, <2>1, Released, TodoFacts
    <3>2. loc[h].fd \in Descriptors
      BY <1>2, <2>0, <3>1 DEF HandlerOwns, GivenSocket
    <3> QED
      BY <1>3, <1>5, <2>1, <3>2, HandlerCloses
  <2>2. CASE Head(todo) = "dest"
    <3>1. Connected(h)
      BY <2>0, <2>2, Released, TodoFacts
    <3>2. loc[h].dest \in Descriptors
      BY <2>0, <3>1 DEF HandlerOwns
    <3> QED
      BY <1>3, <1>5, <2>2, <3>2, HandlerCloses
  <2>3. CASE Head(todo) = "request"
    BY <1>3, <1>5, <2>3, HandlerFrees
  <2> QED
    BY <1>3, <2>1, <2>2, <2>3
<1> QED
  BY <1>1, <1>4, <1>5 DEF IInv

-----------------------------------------------------------------------------
(* The steps of the clients and of main *)

LEMMA ClientSteps ==
  ASSUME IInv, NEW c \in Clients, Arrive(c) \/ Request(c) \/ Leave(c)
  PROVE  IInv'
<1>1. /\ UNCHANGED <<accepted, got, fds, heapVars, ctx, m, handlerVars, fault,
                     overtaken>>
      /\ hostless \subseteq hostless'
  BY DEF Arrive, Request, Leave
<1>2. TypeOK'
  <2>1. CASE Arrive(c)
    BY <2>1 DEF Arrive, IInv, TypeOK, heapVars, handlerVars
  <2>2. CASE Request(c)
    BY <2>2 DEF Request, IInv, TypeOK, heapVars, handlerVars
  <2>3. CASE Leave(c)
    BY <2>3 DEF Leave, IInv, TypeOK, heapVars, handlerVars
  <2> QED
    BY <2>1, <2>2, <2>3
<1>3. Placed'
  BY <1>1 DEF IInv, Placed, handlerVars, Holding
<1>4. ASSUME ~overtaken
      PROVE  Own'
  <2>1. \A u \in Clients : HandlerOwns(u)'
    BY <1>1, <1>4, OthersKeep DEF IInv, Own, heapVars, handlerVars
  <2>2. MainOwns'
    BY <1>1, <1>4 DEF IInv, Own, MainOwns, heapVars, Holding, Received
  <2>3. SocketsOwned'
    BY <1>1, <1>4, OthersHave DEF IInv, Own, SocketsOwned, handlerVars
  <2>4. RequestsOwned'
    BY <1>1, <1>4
    DEF IInv, Own, RequestsOwned, heapVars, handlerVars, Holding
  <2> QED
    BY <1>1, <1>4, <2>1, <2>2, <2>3, <2>4 DEF IInv, Own
<1> QED
  BY <1>1, <1>2, <1>3, <1>4 DEF IInv

\* The parts of m, and what main has at its places
LEMMA MainHas ==
  ASSUME IInv
  PROVE  /\ m.pc \in MainPlaces /\ m.client \in Clients \cup {None}
         /\ m.fd \in Descriptors \cup {None} /\ m.block \in Blocks \cup {None}
         /\ m.pc # "accept" => /\ m.client \in Clients /\ m.fd \in Descriptors
                               /\ pc[m.client] = "absent"
         /\ Holding => m.block \in Blocks
         /\ ~Holding => m.block = None
  BY DEF IInv, TypeOK, Placed

\* main goes on and changes nothing else of its own.
LEMMA MainGoing ==
  ASSUME IInv, NEW place \in MainPlaces, MainGoto(place)
  PROVE  /\ m'.pc = place /\ m'.client = m.client /\ m'.fd = m.fd
         /\ m'.block = m.block
         /\ m' \in [pc : MainPlaces, client : Clients \cup {None},
                    fd : Descriptors \cup {None}, block : Blocks \cup {None}]
  BY DEF IInv, TypeOK, MainGoto

\* accept (main.c:244): the client has got a descriptor that nobody had.
LEMMA MainAccepts ==
  ASSUME IInv, NEW c \in Clients, Accept(c)
  PROVE  IInv'
<1>1. PICK d \in Descriptors :
        /\ Open(d, c)
        /\ m' = [pc |-> "calloc", client |-> c, fd |-> d, block |-> None]
  BY DEF Accept
<1>2. /\ m.pc = "accept" /\ c \in arrived \ accepted
      /\ accepted' = accepted \cup {c}
      /\ UNCHANGED <<arrived, sent, hostless, gone, got, heapVars, ctx,
                     handlerVars, fault, overtaken>>
  BY DEF Accept, MainAt
<1>3. /\ fds' \in [Descriptors -> Connections \cup {None}]
      /\ fds[d] = None /\ fds'[d] = c
      /\ \A e \in Descriptors \ {d} : fds'[e] = fds[e]
  BY <1>1 DEF IInv, TypeOK, Open, FreeDescriptors, Connections
<1>4. m' \in [pc : MainPlaces, client : Clients \cup {None},
              fd : Descriptors \cup {None}, block : Blocks \cup {None}]
  BY <1>1 DEF MainPlaces
<1>5. TypeOK'
  BY <1>2, <1>3, <1>4 DEF IInv, TypeOK, heapVars, handlerVars
<1>6. pc[c] = "absent"
  BY <1>2 DEF IInv, Placed
<1>7. Placed'
  BY <1>1, <1>2, <1>6 DEF IInv, Placed, handlerVars, Holding
<1>8. ASSUME ~overtaken
      PROVE  Own'
  <2>0. Own /\ ~Holding
    BY <1>2, <1>8 DEF IInv, Holding
  <2>1. \A u \in Clients : HandlerOwns(u)'
    BY <1>2, <1>3, <2>0, Names, OthersKeep DEF Own, heapVars, handlerVars
  <2>2. MainOwns'
    BY <1>1, <1>3 DEF MainOwns, Holding, Received
  <2>3. \A u \in Clients : /\ Pending(u, "client")' <=> Pending(u, "client")
                           /\ Connected(u)' <=> Connected(u)
    BY <1>2, OthersHave DEF handlerVars
  <2>4. SocketsOwned'
    <3>1. \A e \in Descriptors : fds[e] # c
      BY <1>2, <1>6, <2>0 DEF Own, SocketsOwned, Pending, Running
    <3>2. \A e, f \in Descriptors :
            fds'[e] = fds'[f] /\ fds'[e] # None => e = f
      BY <1>3, <2>0, <3>1 DEF Own, SocketsOwned
    <3>3. ASSUME NEW e \in Descriptors, NEW u \in Clients, fds'[e] = u
          PROVE  (\/ m.pc # "accept" /\ m.client = u
                  \/ Pending(u, "client")
                  \/ u \in hostless /\ pc[u] = "refused")'
      BY <1>1, <1>2, <1>3, <2>0, <2>3, <3>3
      DEF Own, SocketsOwned, handlerVars
    <3>4. \A e \in Descriptors, u \in Clients :
            fds'[e] = Server(u) => Connected(u)'
      BY <1>3, <2>0, <2>3, Names DEF Own, SocketsOwned
    <3> QED
      BY <3>2, <3>3, <3>4 DEF SocketsOwned
  <2>5. RequestsOwned'
    BY <1>2, <2>0 DEF Own, RequestsOwned, heapVars, handlerVars
  <2> QED
    BY <1>2, <2>0, <2>1, <2>2, <2>4, <2>5 DEF Own
<1> QED
  BY <1>2, <1>5, <1>7, <1>8 DEF IInv

\* calloc (main.c:247): main has got a block that nobody had.
LEMMA MainAllocates ==
  ASSUME IInv, Calloc
  PROVE  IInv'
<1>1. PICK b \in Blocks \ allocated :
        /\ allocated' = allocated \cup {b}
        /\ heap' = [heap EXCEPT ![b] = None]
        /\ m' = [m EXCEPT !.pc = "recv", !.block = b]
  BY DEF Calloc
<1>2. /\ m.pc = "calloc"
      /\ UNCHANGED <<clientVars, got, fds, ctx, handlerVars, fault, overtaken>>
  BY DEF Calloc, MainAt
<1>3. /\ m'.pc = "recv" /\ m'.client = m.client /\ m'.fd = m.fd
      /\ m'.block = b
      /\ m' \in [pc : MainPlaces, client : Clients \cup {None},
                 fd : Descriptors \cup {None}, block : Blocks \cup {None}]
  BY <1>1 DEF IInv, TypeOK, MainPlaces
<1>4. /\ heap' \in [Blocks -> Texts] /\ heap'[b] = None
      /\ \A a \in Blocks \ {b} : heap'[a] = heap[a]
  BY <1>1 DEF IInv, TypeOK, Texts
<1>5. TypeOK'
  BY <1>1, <1>2, <1>3, <1>4 DEF IInv, TypeOK, clientVars, handlerVars
<1>6. Placed'
  BY <1>2, <1>3 DEF IInv, Placed, clientVars, handlerVars, Holding
<1>7. ASSUME ~overtaken
      PROVE  Own'
  <2>0. Own /\ ~Holding /\ allocated \subseteq Blocks
    BY <1>2, <1>7 DEF IInv, Holding, TypeOK
  <2>1. \A u \in Clients : HandlerOwns(u)'
    BY <1>1, <1>2, <1>4, <2>0, OthersKeep DEF Own, handlerVars
  <2>2. MainOwns'
    BY <1>1, <1>2, <1>3, <1>4, <2>0 DEF Own, MainOwns, Holding, Received
  <2>3. SocketsOwned'
    BY <1>2, <1>3, <2>0, OthersHave
    DEF Own, SocketsOwned, clientVars, handlerVars
  <2>4. RequestsOwned'
    <3>1. \A a \in allocated : heap'[a] = heap[a] /\ heap[a] \in Clients
                               /\ pc[heap[a]] \notin {"absent", "served"}
      BY <1>1, <1>4, <2>0 DEF Own, RequestsOwned
    <3>2. Holding'
      BY <1>3 DEF Holding
    <3> QED
      BY <1>1, <1>2, <1>3, <1>4, <2>0, <3>1, <3>2, Names
      DEF Own, RequestsOwned, handlerVars
  <2> QED
    BY <1>2, <2>0, <2>1, <2>2, <2>3, <2>4 DEF Own
<1> QED
  BY <1>2, <1>5, <1>6, <1>7 DEF IInv

\* A client has the request that main has read for it (main.c:248).
LEMMA MainReceives ==
  ASSUME IInv, Receive
  PROVE  IInv'
<1>1. /\ m.pc = "recv" /\ MainGoto("ctx_socket")
      /\ UNCHANGED <<clientVars, got, fds, allocated, ctx, handlerVars, fault,
                     overtaken>>
  BY DEF Receive, MainAt
<1>2. m.block \in Blocks /\ m.client \in Clients /\ m.fd \in Descriptors
      /\ pc[m.client] = "absent"
  BY <1>1, MainHas DEF Holding
<1>3. /\ m'.pc = "ctx_socket" /\ m'.client = m.client /\ m'.fd = m.fd
      /\ m'.block = m.block
      /\ m' \in [pc : MainPlaces, client : Clients \cup {None},
                 fd : Descriptors \cup {None}, block : Blocks \cup {None}]
  BY <1>1, MainGoing DEF MainPlaces
<1>4. PICK text \in Texts :
        /\ heap' = [heap EXCEPT ![m.block] = text]
        /\ fds[m.fd] \in Clients => text = fds[m.fd]
  BY Names DEF Receive, Servers, Texts, IInv, TypeOK
<1>5. /\ heap' \in [Blocks -> Texts] /\ heap'[m.block] = text
      /\ \A a \in Blocks \ {m.block} : heap'[a] = heap[a]
  BY <1>2, <1>4 DEF IInv, TypeOK
<1>6. TypeOK'
  BY <1>1, <1>3, <1>5 DEF IInv, TypeOK, clientVars, handlerVars
<1>7. Placed'
  BY <1>1, <1>3 DEF IInv, Placed, clientVars, handlerVars, Holding
<1>8. ASSUME ~overtaken
      PROVE  Own'
  <2>0. Own /\ Holding /\ allocated \subseteq Blocks
    BY <1>1, <1>8 DEF IInv, Holding, TypeOK
  <2>1. /\ fds[m.fd] = m.client /\ text = m.client
        /\ m.block \in allocated /\ heap[m.block] = None
    BY <1>1, <1>2, <1>4, <2>0 DEF Own, MainOwns
  <2>2. \A u \in Clients : HandlerOwns(u)'
    BY <1>1, <1>5, <2>0, <2>1, Names, OthersKeep DEF Own, handlerVars
  <2>3. MainOwns'
    BY <1>1, <1>3, <1>5, <2>0, <2>1 DEF Own, MainOwns, Holding, Received
  <2>4. SocketsOwned'
    BY <1>1, <1>3, <2>0, OthersHave
    DEF Own, SocketsOwned, clientVars, handlerVars
  <2>5. RequestsOwned'
    <3>1. \A a \in allocated \ {m.block} :
            /\ heap'[a] = heap[a] /\ heap[a] # m.client
            /\ heap[a] \in Clients /\ pc[heap[a]] \notin {"absent", "served"}
      BY <1>2, <1>5, <2>0 DEF Own, RequestsOwned
    <3>2. Holding'
      BY <1>3 DEF Holding
    <3> QED
      BY <1>1, <1>3, <1>5, <2>0, <2>1, <3>1, <3>2
      DEF Own, RequestsOwned, handlerVars
  <2> QED
    BY <1>1, <2>0, <2>2, <2>3, <2>4, <2>5 DEF Own
<1> QED
  BY <1>1, <1>6, <1>7, <1>8 DEF IInv

\* recv or pthread_create fails (main.c:248, 254).
LEMMA MainFails ==
  ASSUME IInv, ReceiveFails \/ CreateFails
  PROVE  IInv'
<1>1. /\ m.pc \in {"recv", "create"} /\ MainGoto("free")
      /\ UNCHANGED <<clientVars, got, fds, heapVars, ctx, handlerVars, fault,
                     overtaken>>
  BY DEF ReceiveFails, CreateFails, MainAt
<1>2. /\ m'.pc = "free" /\ m'.client = m.client /\ m'.fd = m.fd
      /\ m'.block = m.block
      /\ m' \in [pc : MainPlaces, client : Clients \cup {None},
                 fd : Descriptors \cup {None}, block : Blocks \cup {None}]
  BY <1>1, MainGoing DEF MainPlaces
<1>3. TypeOK'
  BY <1>1, <1>2 DEF IInv, TypeOK, clientVars, heapVars, handlerVars
<1>4. Placed'
  BY <1>1, <1>2 DEF IInv, Placed, clientVars, handlerVars, Holding
<1>5. ASSUME ~overtaken
      PROVE  Own'
  <2>0. Own
    BY <1>5 DEF IInv
  <2>1. \A u \in Clients : HandlerOwns(u)'
    BY <1>1, <2>0, OthersKeep DEF Own, heapVars, handlerVars
  <2>2. MainOwns'
    BY <1>1, <1>2, <2>0 DEF Own, MainOwns, heapVars, Holding, Received
  <2>3. SocketsOwned'
    BY <1>1, <1>2, <2>0, OthersHave
    DEF Own, SocketsOwned, clientVars, handlerVars
  <2>4. RequestsOwned'
    BY <1>1, <1>2, <2>0
    DEF Own, RequestsOwned, heapVars, handlerVars, Holding
  <2> QED
    BY <1>1, <2>0, <2>1, <2>2, <2>3, <2>4 DEF Own
<1> QED
  BY <1>1, <1>3, <1>4, <1>5 DEF IInv

(***************************************************************************)
(* main writes a member of ctx (main.c:253).  No handler has still to read *)
(* what it overwrites, or ctx is overtaken.                                *)
(***************************************************************************)
LEMMA MainWrites ==
  ASSUME IInv, WriteSocket \/ WriteRequest
  PROVE  IInv'
<1> DEFINE place == IF m.pc = "ctx_socket" THEN "ctx_request" ELSE "create"
<1>1. /\ m.pc \in {"ctx_socket", "ctx_request"} /\ MainGoto(place)
      /\ UNCHANGED <<clientVars, got, fds, heapVars, handlerVars, fault>>
      /\ overtaken' \in BOOLEAN /\ (overtaken => overtaken')
  BY DEF WriteSocket, WriteRequest, MainAt, IInv, TypeOK
<1>2. /\ m'.pc = place /\ m'.client = m.client /\ m'.fd = m.fd
      /\ m'.block = m.block
      /\ m' \in [pc : MainPlaces, client : Clients \cup {None},
                 fd : Descriptors \cup {None}, block : Blocks \cup {None}]
  BY <1>1, MainGoing DEF MainPlaces
<1>3. /\ m.pc = "ctx_socket" =>
           ctx'.client_socket = m.fd /\ ctx'.request = ctx.request
      /\ m.pc = "ctx_request" =>
           ctx'.client_socket = ctx.client_socket /\ ctx'.request = m.block
      /\ ctx' \in [client_socket : Descriptors \cup {None},
                   request : Blocks \cup {None}]
  BY MainHas DEF WriteSocket, WriteRequest, MainAt, IInv, TypeOK
<1>4. TypeOK'
  BY <1>1, <1>2, <1>3 DEF IInv, TypeOK, clientVars, heapVars, handlerVars
<1>5. Placed'
  <2>1. m.fd \in Descriptors /\ m.block \in Blocks
    BY <1>1, MainHas DEF Holding
  <2> QED
    BY <1>1, <1>2, <1>3, <2>1
    DEF IInv, Placed, clientVars, handlerVars, Holding
<1>6. ASSUME ~overtaken'
      PROVE  Own'
  <2>0. Own
    BY <1>1, <1>6 DEF IInv
  <2>1. ASSUME NEW u \in Clients
        PROVE  /\ GivenSocket(u)' = GivenSocket(u)
               /\ GivenRequest(u)' = GivenRequest(u)
    <3>1. m.pc = "ctx_socket" => pc[u] # "load_socket"
      BY <1>6 DEF WriteSocket, WriteRequest, MainAt
    <3>2. m.pc = "ctx_request" => pc[u] \notin {"load_socket", "load_request"}
      BY <1>6 DEF WriteSocket, WriteRequest, MainAt
    <3> QED
      BY <1>1, <1>3, <3>1, <3>2 DEF GivenSocket, GivenRequest, handlerVars
  <2>2. \A u \in Clients : HandlerOwns(u)'
    BY <1>1, <2>0, <2>1, OthersHave
    DEF Own, HandlerOwns, heapVars, handlerVars
  <2>3. MainOwns'
    BY <1>1, <1>2, <2>0 DEF Own, MainOwns, heapVars, Holding, Received
  <2>4. SocketsOwned'
    BY <1>1, <1>2, <2>0, OthersHave
    DEF Own, SocketsOwned, clientVars, handlerVars
  <2>5. RequestsOwned'
    BY <1>1, <1>2, <2>0
    DEF Own, RequestsOwned, heapVars, handlerVars, Holding
  <2> QED
    BY <1>1, <2>0, <2>2, <2>3, <2>4, <2>5 DEF Own
<1> QED
  BY <1>4, <1>5, <1>6 DEF IInv

\* main gives its socket and its block to a handler (main.c:254-258).
LEMMA MainCreates ==
  ASSUME IInv, Create
  PROVE  IInv'
<1>0. PICK h \in Clients : h = m.client
  BY MainHas DEF Create, MainAt
<1>1. /\ m.pc = "create" /\ pc' = [pc EXCEPT ![h] = "load_socket"]
      /\ m' = [pc |-> "accept", client |-> None, fd |-> None, block |-> None]
      /\ UNCHANGED <<clientVars, got, fds, heapVars, ctx, loc, fault,
                     overtaken>>
  BY <1>0 DEF Create, MainAt
<1>2. /\ h \in Clients /\ h \in accepted /\ m.fd \in Descriptors
      /\ pc[h] = "absent" /\ m.block \in Blocks /\ Holding
      /\ ctx.client_socket = m.fd /\ ctx.request = m.block
  BY <1>0, <1>1, MainHas DEF Holding, IInv, Placed
<1>3. /\ pc' \in [Clients -> Places] /\ pc'[h] = "load_socket"
      /\ \A u \in Clients \ {h} : pc'[u] = pc[u] /\ loc'[u] = loc[u]
  BY <1>1, <1>2 DEF IInv, TypeOK, Places
<1>4. /\ m'.pc = "accept" /\ m'.block = None
      /\ m' \in [pc : MainPlaces, client : Clients \cup {None},
                 fd : Descriptors \cup {None}, block : Blocks \cup {None}]
  BY <1>1 DEF MainPlaces
<1>5. TypeOK'
  BY <1>1, <1>3, <1>4 DEF IInv, TypeOK, clientVars, heapVars
<1>6. Placed'
  BY <1>1, <1>2, <1>3, <1>4 DEF IInv, Placed, clientVars, Holding
<1>7. ASSUME ~overtaken
      PROVE  Own'
  <2>0. Own
    BY <1>7 DEF IInv
  <2>1. \A u \in Clients \ {h} : HandlerOwns(u)'
    BY <1>1, <1>3, <2>0, OthersKeep DEF Own, heapVars
  <2>2. /\ fds[m.fd] = h /\ m.block \in allocated /\ heap[m.block] = h
    BY <1>0, <1>1, <1>2, <2>0 DEF Own, MainOwns, Received
  <2>3. HandlerOwns(h)' /\ Pending(h, "client")'
    <3>1. Running(h)' /\ pc'[h] # "cleanup" /\ ~Connected(h)' /\ ~Texted(h)'
      BY <1>3 DEF Running, Connected, Texted
    <3>2. GivenSocket(h)' = m.fd /\ GivenRequest(h)' = m.block
      BY <1>1, <1>2, <1>3 DEF GivenSocket, GivenRequest
    <3> QED
      BY <1>1, <1>2, <1>3, <2>2, <3>1, <3>2
      DEF HandlerOwns, Pending, heapVars
  <2>4. MainOwns'
    BY <1>4 DEF MainOwns, Holding, Received
  <2>5. \A u \in Clients \ {h} :
          /\ Pending(u, "client")' <=> Pending(u, "client")
          /\ Connected(u)' <=> Connected(u)
    BY <1>3, OthersHave
  <2>6. SocketsOwned'
    <3>1. ~Connected(h)
      BY <1>2 DEF Connected
    <3>2. ASSUME NEW d \in Descriptors, NEW c \in Clients, fds[d] = c
          PROVE  \/ Pending(c, "client")'
                 \/ c \in hostless /\ pc'[c] = "refused"
      <4>1. CASE c = h
        BY <2>3, <4>1
      <4>2. CASE c # h
        <5>1. Pending(c, "client") \/ (c \in hostless /\ pc[c] = "refused")
          BY <1>0, <2>0, <3>2, <4>2 DEF Own, SocketsOwned
        <5> QED
          BY <1>3, <2>5, <4>2, <5>1
      <4> QED
        BY <4>1, <4>2
    <3> QED
      BY <1>1, <2>0, <2>5, <3>1, <3>2 DEF Own, SocketsOwned, clientVars
  <2>7. RequestsOwned'
    BY <1>0, <1>1, <1>2, <1>3, <1>4, <2>0, <2>2
    DEF Own, RequestsOwned, heapVars, Holding
  <2> QED
    BY <1>1, <1>3, <2>0, <2>1, <2>3, <2>4, <2>6, <2>7 DEF Own
<1> QED
  BY <1>1, <1>5, <1>6, <1>7 DEF IInv

\* main frees the block of a client it gives up (main.c:249, 260).
LEMMA MainFrees ==
  ASSUME IInv, FreeRequest
  PROVE  IInv'
<1>1. /\ m.pc = "free" /\ Free(m.block)
      /\ m' = [m EXCEPT !.pc = "close", !.block = None]
      /\ UNCHANGED <<clientVars, got, fds, ctx, handlerVars, overtaken>>
  BY DEF FreeRequest, MainAt
<1>2. /\ m'.pc = "close" /\ m'.client = m.client /\ m'.fd = m.fd
      /\ m'.block = None
      /\ m' \in [pc : MainPlaces, client : Clients \cup {None},
                 fd : Descriptors \cup {None}, block : Blocks \cup {None}]
  BY <1>1 DEF IInv, TypeOK, MainPlaces
<1>3. /\ heap' \in [Blocks -> Texts] /\ allocated' \subseteq Blocks
      /\ fault' \in {"none", "double_free", "sigpipe"}
  BY <1>1 DEF IInv, TypeOK, Free, heapVars, Texts
<1>4. TypeOK'
  BY <1>1, <1>2, <1>3 DEF IInv, TypeOK, clientVars, handlerVars
<1>5. Placed'
  BY <1>1, <1>2 DEF IInv, Placed, clientVars, handlerVars, Holding
<1>6. ASSUME ~overtaken
      PROVE  Own'
  <2>0. Own /\ Holding
    BY <1>1, <1>6 DEF IInv, Holding
  <2>1. /\ m.block \in allocated /\ heap[m.block] \in {None, m.client}
        /\ m.client \in Clients /\ pc[m.client] = "absent"
    BY <1>1, <2>0, MainHas DEF Own, MainOwns
  <2>2. /\ allocated' = allocated \ {m.block} /\ UNCHANGED fault
        /\ \A b \in allocated \ {m.block} : heap'[b] = heap[b]
    BY <1>1, <2>1 DEF IInv, TypeOK, Free
  <2>3. ASSUME NEW u \in Clients
        PROVE  HandlerOwns(u)'
    <3>1. CASE u = m.client
      BY <1>1, <2>1, <3>1
      DEF HandlerOwns, Pending, Running, Connected, Texted, handlerVars
    <3>2. CASE u # m.client
      BY <1>1, <2>0, <2>1, <2>2, <3>2, Names, OthersKeep
      DEF Own, handlerVars
    <3> QED
      BY <3>1, <3>2
  <2>4. MainOwns'
    BY <1>1, <1>2, <2>0 DEF Own, MainOwns, Holding, Received
  <2>5. SocketsOwned'
    BY <1>1, <1>2, <2>0, OthersHave
    DEF Own, SocketsOwned, clientVars, handlerVars
  <2>6. RequestsOwned'
    BY <1>1, <2>0, <2>1, <2>2 DEF Own, RequestsOwned, handlerVars
  <2> QED
    BY <1>1, <2>0, <2>2, <2>3, <2>4, <2>5, <2>6 DEF Own
<1> QED
  BY <1>1, <1>4, <1>5, <1>6 DEF IInv

\* main closes the socket of a client it gives up (main.c:250, 261).
LEMMA MainCloses ==
  ASSUME IInv, CloseSocket
  PROVE  IInv'
<1>1. /\ m.pc = "close" /\ Close(m.fd)
      /\ m' = [pc |-> "accept", client |-> None, fd |-> None, block |-> None]
      /\ UNCHANGED <<clientVars, got, heapVars, ctx, handlerVars, fault,
                     overtaken>>
  BY DEF CloseSocket, MainAt
<1>2. /\ m'.pc = "accept" /\ m'.block = None
      /\ m' \in [pc : MainPlaces, client : Clients \cup {None},
                 fd : Descriptors \cup {None}, block : Blocks \cup {None}]
  BY <1>1 DEF MainPlaces
<1>3. /\ m.fd \in Descriptors /\ m.client \in Clients
      /\ pc[m.client] = "absent"
  BY <1>1, MainHas
<1>4. /\ fds' \in [Descriptors -> Connections \cup {None}]
      /\ fds'[m.fd] = None
      /\ \A d \in Descriptors \ {m.fd} : fds'[d] = fds[d]
  BY <1>1, <1>3 DEF IInv, TypeOK, Close
<1>5. TypeOK'
  BY <1>1, <1>2, <1>4 DEF IInv, TypeOK, clientVars, heapVars, handlerVars
<1>6. Placed'
  BY <1>1, <1>2 DEF IInv, Placed, clientVars, handlerVars, Holding
<1>7. ASSUME ~overtaken
      PROVE  Own'
  <2>0. Own /\ ~Holding
    BY <1>1, <1>7 DEF IInv, Holding
  <2>1. fds[m.fd] = m.client
    BY <1>1, <2>0 DEF Own, MainOwns
  <2>2. ASSUME NEW u \in Clients
        PROVE  HandlerOwns(u)'
    <3>1. CASE u = m.client
      BY <1>1, <1>3, <3>1
      DEF HandlerOwns, Pending, Running, Connected, Texted, handlerVars
    <3>2. CASE u # m.client
      BY <1>1, <1>3, <1>4, <2>0, <2>1, <3>2, Names, OthersKeep
      DEF Own, heapVars, handlerVars
    <3> QED
      BY <3>1, <3>2
  <2>3. MainOwns'
    BY <1>2 DEF MainOwns, Holding, Received
  <2>4. SocketsOwned'
    <3>1. ASSUME NEW d \in Descriptors, fds'[d] # None
          PROVE  fds'[d] = fds[d] /\ fds[d] # m.client
      BY <1>3, <1>4, <2>0, <2>1, <3>1, Names DEF Own, SocketsOwned
    <3>2. \A u \in Clients : /\ Pending(u, "client")' <=> Pending(u, "client")
                             /\ Connected(u)' <=> Connected(u)
      BY <1>1, OthersHave DEF handlerVars
    <3>3. \A d, e \in Descriptors :
            fds'[d] = fds'[e] /\ fds'[d] # None => d = e
      BY <2>0, <3>1 DEF Own, SocketsOwned
    <3>4. ASSUME NEW d \in Descriptors, NEW c \in Clients, fds'[d] = c
          PROVE  (\/ m.pc # "accept" /\ m.client = c
                  \/ Pending(c, "client")
                  \/ c \in hostless /\ pc[c] = "refused")'
      BY <1>1, <2>0, <3>1, <3>2, <3>4, Names
      DEF Own, SocketsOwned, clientVars, handlerVars
    <3>5. \A d \in Descriptors, u \in Clients :
            fds'[d] = Server(u) => Connected(u)'
      BY <2>0, <3>1, <3>2, Names DEF Own, SocketsOwned
    <3> QED
      BY <3>3, <3>4, <3>5 DEF SocketsOwned
  <2>5. RequestsOwned'
    BY <1>1, <2>0 DEF Own, RequestsOwned, heapVars, handlerVars
  <2> QED
    BY <1>1, <2>0, <2>2, <2>3, <2>4, <2>5 DEF Own
<1> QED
  BY <1>1, <1>5, <1>6, <1>7 DEF IInv

-----------------------------------------------------------------------------
LEMMA InitOK ==
  ASSUME Init
  PROVE  IInv
<1>1. TypeOK
  <2>1. NoLocals \in HandlerLocals
    BY DEF NoLocals, HandlerLocals, Texts
  <2> QED
    BY <2>1
    DEF Init, TypeOK, HandlerLocals, Connections, Texts, MainPlaces, Places
<1>2. Placed
  BY DEF Init, Placed, Holding
<1>3. Own
  <2>1. MainOwns
    BY DEF Init, MainOwns, Holding, Received
  <2>2. \A h \in Clients : HandlerOwns(h)
    BY DEF Init, HandlerOwns, Pending, Running, Connected, Texted
  <2>3. SocketsOwned
    BY Names DEF Init, SocketsOwned
  <2>4. RequestsOwned
    BY DEF Init, RequestsOwned
  <2> QED
    BY <2>1, <2>2, <2>3, <2>4 DEF Init, Own
<1> QED
  BY <1>1, <1>2, <1>3 DEF IInv

LEMMA Stutters ==
  ASSUME IInv, UNCHANGED vars
  PROVE  IInv'
<1> USE DEF vars, clientVars, heapVars, handlerVars
<1>1. TypeOK'
  BY DEF IInv, TypeOK
<1>2. Placed'
  BY DEF IInv, Placed, Holding
<1>3. ASSUME ~overtaken
      PROVE  Own'
  <2>1. Own
    BY <1>3 DEF IInv
  <2>2. MainOwns'
    BY <2>1 DEF Own, MainOwns, Holding, Received
  <2>3. ASSUME NEW h \in Clients
        PROVE  HandlerOwns(h)'
    BY <2>1, OthersKeep DEF Own
  <2>4. SocketsOwned'
    BY <2>1, OthersHave DEF Own, SocketsOwned
  <2>5. RequestsOwned'
    BY <2>1 DEF Own, RequestsOwned, Holding
  <2> QED
    BY <2>1, <2>2, <2>3, <2>4, <2>5 DEF Own
<1> QED
  BY <1>1, <1>2, <1>3 DEF IInv

LEMMA Steps ==
  ASSUME IInv, [Next]_vars
  PROVE  IInv'
<1>1. CASE \E c \in Clients : Arrive(c) \/ Request(c) \/ Leave(c)
  BY <1>1, ClientSteps
<1>2. CASE Main
  <2>1. CASE \E c \in Clients : Accept(c)
    BY <2>1, MainAccepts
  <2>2. CASE Calloc
    BY <2>2, MainAllocates
  <2>3. CASE Receive
    BY <2>3, MainReceives
  <2>4. CASE ReceiveFails \/ CreateFails
    BY <2>4, MainFails
  <2>5. CASE WriteSocket \/ WriteRequest
    BY <2>5, MainWrites
  <2>6. CASE Create
    BY <2>6, MainCreates
  <2>7. CASE FreeRequest
    BY <2>7, MainFrees
  <2>8. CASE CloseSocket
    BY <2>8, MainCloses
  <2> QED
    BY <1>2, <2>1, <2>2, <2>3, <2>4, <2>5, <2>6, <2>7, <2>8 DEF Main
<1>3. ASSUME NEW h \in Clients, client_handler(h)
      PROVE  IInv'
  <2>1. CASE LoadSocket(h) \/ LoadRequest(h) \/ Copy(h)
    BY <2>1, HandlerReads
  <2>2. CASE Refuse(h) \/ Connect(h)
    BY <2>2, HandlerDecides
  <2>3. CASE NoSocket(h) \/ ConnectFails(h) \/ WriteFails(h) \/ AnswerEnds(h)
    BY <2>3, HandlerReturns
  <2>4. CASE Socket(h)
    BY <2>4, HandlerOpens
  <2>5. CASE Send(h) \/ Read(h) \/ Forward(h)
    BY <2>5, HandlerCopies
  <2>6. CASE PipeSignal(h)
    BY <2>6, HandlerKilled
  <2>7. CASE Cleanup(h)
    BY <2>7, HandlerReleases
  <2> QED
    BY <1>3, <2>1, <2>2, <2>3, <2>4, <2>5, <2>6, <2>7
    DEF client_handler, Runs
<1>4. CASE UNCHANGED vars
  BY <1>4, Stutters
<1> QED
  BY <1>1, <1>2, <1>3, <1>4 DEF Next

LEMMA Invariant == Spec => []IInv
<1>1. Init => IInv
  BY InitOK
<1>2. IInv /\ [Next]_vars => IInv'
  BY Steps
<1> QED
  BY <1>1, <1>2, PTL DEF Spec

(***************************************************************************)
(* Sockets, requests and threads keep their types (proxy/main.c:17-21,     *)
(* 149-215, 217-270).                                                      *)
(***************************************************************************)
THEOREM TypeCorrect == Spec => []TypeOK
<1>1. IInv => TypeOK
  BY DEF IInv
<1> QED
  BY <1>1, Invariant, PTL

(***************************************************************************)
(* However many clients there are and however descriptors and memory are   *)
(* used again, a client is sent the answer to its own request only, as     *)
(* long as main has not overwritten ctx (main.c:254) before a handler had  *)
(* read it (153-154).                                                      *)
(***************************************************************************)
THEOREM AnswersOwn == Spec => []OwnAnswers
<1>1. IInv => OwnAnswers
  BY DEF IInv, Own, OwnAnswers
<1> QED
  BY <1>1, Invariant, PTL

(***************************************************************************)
(* As long as that has not happened, a thread closes (main.c:99, 183-211,  *)
(* 250, 261) and frees (212, 249, 260) what is open, or allocated, and its *)
(* own.                                                                    *)
(***************************************************************************)
THEOREM ReleasedOwn == Spec => []ReleasesItsOwn
<1>1. ASSUME IInv, ~overtaken
      PROVE  ReleasesItsOwn
  <2>1. Own /\ Placed
    BY <1>1 DEF IInv
  <2>2. /\ m.pc # "accept" => fds[m.fd] = m.client
        /\ m.block # None => m.block \in allocated
    BY <2>1 DEF Own, MainOwns, Placed
  <2>3. ASSUME NEW h \in Clients
        PROVE  /\ Pending(h, "client") => fds[GivenSocket(h)] = h
               /\ Connected(h) => fds[loc[h].dest] = Server(h)
               /\ Pending(h, "request") => /\ GivenRequest(h) \in allocated
                                           /\ heap[GivenRequest(h)] = h
    BY <2>1 DEF Own, HandlerOwns
  <2> QED
    BY <2>1, <2>2, <2>3 DEF Own, ReleasesItsOwn
<1>2. IInv => ReleasesItsOwn
  BY <1>1 DEF ReleasesItsOwn
<1> QED
  BY <1>2, Invariant, PTL

(***************************************************************************)
(* Then, too, what no thread is going to release is a socket of a client   *)
(* whose request was refused (main.c:158-162, 168-175), or a request that  *)
(* was refused or failed (181-193, 200-206).                               *)
(***************************************************************************)
THEOREM LeaksRefused == Spec => []LeaksAreRefusals
<1>1. ASSUME IInv, ~overtaken
      PROVE  LeaksAreRefusals
  <2>1. /\ MainOwns /\ SocketsOwned /\ RequestsOwned
        /\ \A h \in Clients : HandlerOwns(h)
    BY <1>1 DEF IInv, Own
  <2>2. ASSUME NEW d \in Descriptors, fds[d] # None, ~Minded(fds[d])
        PROVE  fds[d] \in hostless /\ pc[fds[d]] = "refused"
    <3>1. fds[d] \in Clients \cup Servers
      BY <1>1, <2>2 DEF IInv, TypeOK, Connections
    <3>2. CASE fds[d] \in Clients
      BY <2>1, <2>2, <3>2 DEF SocketsOwned, Minded
    <3>3. CASE fds[d] \in Servers
      BY <2>1, <2>2, <3>3 DEF SocketsOwned, Minded, Servers
    <3> QED
      BY <3>1, <3>2, <3>3
  <2>3. ASSUME NEW b \in allocated, ~MindedBlock(b)
        PROVE  pc[heap[b]] \in {"refused", "cleanup", "failed"}
    <3> DEFINE h == heap[b]
    <3>1. h \in Clients /\ pc[h] \notin {"absent", "served"}
      BY <2>1, <2>3 DEF RequestsOwned, MindedBlock
    <3>2. SUFFICES ASSUME pc[h] \notin {"refused", "cleanup", "failed"}
                   PROVE  FALSE
      OBVIOUS
    <3>3. Pending(h, "request")
      BY <3>1, <3>2 DEF Pending, Running
    <3>4. GivenRequest(h) \in allocated /\ heap[GivenRequest(h)] = h
      BY <2>1, <3>1, <3>3 DEF HandlerOwns
    <3>5. GivenRequest(h) = b
      BY <2>1, <3>4 DEF RequestsOwned
    <3> QED
      BY <2>3, <3>1, <3>3, <3>5 DEF MindedBlock
  <2> QED
    BY <2>2, <2>3 DEF LeaksAreRefusals
<1>2. IInv => LeaksAreRefusals
  BY <1>1 DEF LeaksAreRefusals
<1> QED
  BY <1>2, Invariant, PTL
=============================================================================
