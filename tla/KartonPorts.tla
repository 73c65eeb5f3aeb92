---------------------------- MODULE KartonPorts ----------------------------
(***************************************************************************)
(* Karton over Electron message ports (packages/karton/src), as the        *)
(* desktop application uses it: the main process gives every page a port   *)
(* under a connection id; the user interface always gets the same id       *)
(* ("ui-main"), so that a reload or a crashed renderer replaces a          *)
(* connection while calls of the old page may still be running.            *)
(*                                                                         *)
(* A connection is <<id, n>>: the n-th port set under the id, and the page *)
(* at its other end.  Both ends of a connection number their calls from 1, *)
(* so that calls of successive pages under one id have the same numbers.   *)
(***************************************************************************)
EXTENDS Naturals, Sequences, FiniteSets

CONSTANTS Ids,          \* connection ids
          MaxPorts,     \* bound: ports set under an id
          MaxCalls,     \* bound: calls made at one end of a connection
          MaxRevision,  \* bound: changes of the state
          MaxSendFails  \* bound: posts to a port that throw

ASSUME KartonPortsAssumption ==
    /\ IsFiniteSet(Ids)
    /\ MaxPorts \in Nat \ {0}
    /\ {MaxCalls, MaxRevision, MaxSendFails} \subseteq Nat

Conns == Ids \X (1..MaxPorts)
NoConn == <<>>
Numbers == 1..MaxCalls

VARIABLES
    state,       \* number of changes made to the server's state
    ports,       \* per id: ports set so far
    open,        \* connections of the transport that are open
    connections, \* per id: the transport's entry
    clients,     \* per id: the Karton server's entry
    hooked,      \* connections whose close the server's handler is told of
    down, up,    \* per connection: messages under way
    page,        \* per connection: its page: none, waiting, ready or gone
    view,        \* per connection: the page's copy of the state
    called,      \* per end and connection: calls made
    pending,     \* per end and connection: numbers of the calls not settled
    running,     \* per end: <<connection, number>> of the calls it executes
    settled,     \* history: <<end, connection, number, connection and number answered>>
    fails        \* posts that threw so far

serverVars == <<state, ports, open, connections, clients, hooked>>
rpcVars    == <<called, pending, running, settled>>
vars       == <<serverVars, rpcVars, down, up, page, view, fails>>

Ends == {"page", "server"}
FullState(n) == [i \in 1..n |-> i]
\* Mutant: the state the server was built with.
Sync_Initial == [type |-> "sync", rev |-> 0]
Sync == [type |-> "sync", rev |-> state]
Patch(n) == [type |-> "patch", rev |-> n]
CallMessage(n) == [type |-> "call", n |-> n]
\* An answer carries the number of its call; the call is kept for the history.
ReturnMessage(k, n) == [type |-> "return", n |-> n, of |-> <<k, n>>]

Latest(i) == <<i, ports[i]>>

\* Posting to an open port; what goes to a page that is gone is lost.
Posted(wire, k, m) == IF page[k] = "gone" THEN wire ELSE [wire EXCEPT ![k] = Append(@, m)]

-----------------------------------------------------------------------------
Init ==
    /\ state = 0
    /\ ports = [i \in Ids |-> 0]
    /\ open = {}
    /\ connections = [i \in Ids |-> NoConn]
    /\ clients = [i \in Ids |-> NoConn]
    /\ hooked = {}
    /\ down = [k \in Conns |-> <<>>]
    /\ up = [k \in Conns |-> <<>>]
    /\ page = [k \in Conns |-> "none"]
    /\ view = [k \in Conns |-> <<>>]
    /\ called = [e \in Ends |-> [k \in Conns |-> 0]]
    /\ pending = [e \in Ends |-> [k \in Conns |-> {}]]
    /\ running = [e \in Ends |-> {}]
    /\ settled = {}
    /\ fails = 0

\* Entries after the close handlers of the connections in ks ran: the
\* transport's handler compares identities, the server's only looks the id up.
ConnectionsWithout(ks) ==
    [i \in Ids |-> IF connections[i] \in ks THEN NoConn ELSE connections[i]]

ClientsWithout(ks) ==
    [i \in Ids |-> IF \E k \in ks \cap hooked : k[1] = i THEN NoConn ELSE clients[i]]

\* Mutant: the calls are left to their timeouts.
PendingWithout_Timeouts(ks) == pending

\* Server calls rejected with CONNECTION_LOST when the connections in ks close.
PendingWithout(ks) ==
    [pending EXCEPT !["server"] =
        [k \in Conns |-> IF k \in ks \cap hooked /\ clients[k[1]] # NoConn THEN {} ELSE @[k]]]

\* triggerClose on the connections in ks that are open: the listeners go, so
\* that nothing under way to the server arrives.
triggerClose(ks) ==
    LET shut == ks \cap open IN
      /\ open' = open \ shut
      /\ connections' = ConnectionsWithout(shut)
      /\ clients' = ClientsWithout(shut)
      /\ pending' = PendingWithout(shut)
      /\ up' = [k \in Conns |-> IF k \in shut THEN <<>> ELSE up[k]]

\* Mutant: the connection a new port replaces is left to itself.
Replaced_None(i) == {}
\* Connections closed before a new one takes their id.
Replaced(i) == {connections[i]} \cap Conns

\* A page asks for a port: the existing connection of the id is closed, the
\* new one registered, the full state sent, the port started, and last the
\* server's close handler registered.  A post that throws closes the
\* connection before that handler is there, which is then never run.
setPort(i, thrown) ==
    /\ ports[i] < MaxPorts
    /\ thrown => fails < MaxSendFails
    /\ LET k == <<i, ports[i] + 1>>
           shut == Replaced(i) \cap open IN
         /\ ports' = [ports EXCEPT ![i] = @ + 1]
         /\ open' = (open \ shut) \cup (IF thrown THEN {} ELSE {k})
         /\ connections' = [ConnectionsWithout(shut) EXCEPT ![i] = IF thrown THEN NoConn ELSE k]
         /\ clients' = [ClientsWithout(shut) EXCEPT ![i] = k]
         /\ hooked' = IF thrown THEN hooked ELSE hooked \cup {k}
         /\ pending' = PendingWithout(shut)
         /\ up' = [j \in Conns |-> IF j \in shut THEN <<>> ELSE up[j]]
         /\ down' = IF thrown THEN down ELSE [down EXCEPT ![k] = <<Sync>>]
         /\ page' = [page EXCEPT ![k] = "waiting"]
    /\ fails' = IF thrown THEN fails + 1 ELSE fails
    /\ UNCHANGED <<state, called, running, settled, view>>

\* The transport closes the connection of an id (the renderer crashed).
closeConnection(i) ==
    /\ connections[i] # NoConn
    /\ triggerClose({connections[i]})
    /\ UNCHANGED <<state, ports, hooked, called, running, settled, down, page, view, fails>>

\* The page is reloaded or destroyed: its calls and its copy go with it.
pageGone(k) ==
    /\ page[k] \in {"waiting", "ready"}
    /\ page' = [page EXCEPT ![k] = "gone"]
    /\ down' = [down EXCEPT ![k] = <<>>]
    /\ pending' = [pending EXCEPT !["page"][k] = {}]
    /\ running' = [running EXCEPT !["page"] = {r \in @ : r[1] # k}]
    /\ UNCHANGED <<serverVars, called, settled, up, view, fails>>

\* The port's close event reaches the server.
portClosed(k) ==
    /\ page[k] = "gone" /\ k \in open
    /\ triggerClose({k})
    /\ UNCHANGED <<state, ports, hooked, called, running, settled, down, page, view, fails>>

-----------------------------------------------------------------------------
\* A change: the patch is posted to the open connections of the clients; a
\* post that throws closes its connection.
setState(thrown) ==
    LET targets == {k \in Conns : k \in open /\ clients[k[1]] = k} IN
      /\ state < MaxRevision
      /\ thrown \subseteq targets /\ fails + Cardinality(thrown) <= MaxSendFails
      /\ state' = state + 1
      /\ triggerClose(thrown)
      /\ down' = [k \in Conns |-> IF k \in targets \ thrown /\ page[k] # "gone"
                                    THEN Append(down[k], Patch(state + 1)) ELSE down[k]]
      /\ fails' = fails + Cardinality(thrown)
      /\ UNCHANGED <<ports, hooked, called, running, settled, page, view>>

\* A call of a page; before the first message it throws SERVER_UNAVAILABLE.
callServer(k) ==
    /\ page[k] = "ready" /\ called["page"][k] < MaxCalls
    /\ LET n == called["page"][k] + 1 IN
         /\ called' = [called EXCEPT !["page"][k] = n]
         /\ pending' = [pending EXCEPT !["page"][k] = @ \cup {n}]
         /\ up' = IF k \in open THEN [up EXCEPT ![k] = Append(@, CallMessage(n))] ELSE up
    /\ UNCHANGED <<serverVars, running, settled, down, page, view, fails>>

\* A call of the main process to the client of an id; without an entry it
\* throws CLIENT_NOT_FOUND.  A post that throws closes the connection: this
\* action and closeConnection at once, with the message that was never posted
\* still on its way in the model, which lets the page do more, never less.
callClient(i) ==
    LET k == clients[i] IN
      /\ k # NoConn /\ called["server"][k] < MaxCalls
      /\ LET n == called["server"][k] + 1 IN
           /\ called' = [called EXCEPT !["server"][k] = n]
           /\ pending' = [pending EXCEPT !["server"][k] = @ \cup {n}]
           /\ down' = IF k \in open THEN Posted(down, k, CallMessage(n)) ELSE down
      /\ UNCHANGED <<serverVars, running, settled, up, page, view, fails>>

timeout(e, k, n) ==
    /\ n \in pending[e][k]
    /\ pending' = [pending EXCEPT ![e][k] = @ \ {n}]
    /\ UNCHANGED <<serverVars, called, running, settled, down, up, page, view, fails>>

\* What an end does with an RPC message: a call starts its handler, an answer
\* settles the call with its number if that still waits.
handleMessage(e, k, m) ==
    /\ running' = IF m.type = "call" THEN [running EXCEPT ![e] = @ \cup {<<k, m.n>>}] ELSE running
    /\ IF m.type = "return" /\ m.n \in pending[e][k]
         THEN /\ pending' = [pending EXCEPT ![e][k] = @ \ {m.n}]
              /\ settled' = settled \cup {<<e, k, m.n, m.of>>}
         ELSE UNCHANGED <<pending, settled>>

serverReceives(k) ==
    /\ k \in open /\ up[k] # <<>>
    /\ up' = [up EXCEPT ![k] = Tail(@)]
    /\ handleMessage("server", k, Head(up[k]))
    /\ UNCHANGED <<serverVars, called, down, page, view, fails>>

\* The first message makes the page ready; it is the full state.
pageReceives(k) ==
    LET m == Head(down[k]) IN
      /\ page[k] \in {"waiting", "ready"} /\ down[k] # <<>>
      /\ down' = [down EXCEPT ![k] = Tail(@)]
      /\ page' = [page EXCEPT ![k] = "ready"]
      /\ view' = [view EXCEPT ![k] = CASE m.type = "sync"  -> FullState(m.rev)
                                       [] m.type = "patch" -> Append(@, m.rev)
                                       [] OTHER            -> @]
      /\ handleMessage("page", k, m)
      /\ UNCHANGED <<serverVars, called, up, fails>>

\* Mutant: the connection that now has the id of the caller.
ReplyTo_Id(k) == {clients[k[1]]} \cap open
\* Where the answer to a call of connection k goes: the transport that
\* brought it, while it is open.
ReplyTo(k) == {k} \cap open

\* A handler of the main process ends.  A post that throws closes the
\* connection, as in callClient.
serverReplies(k, n) ==
    /\ <<k, n>> \in running["server"]
    /\ running' = [running EXCEPT !["server"] = @ \ {<<k, n>>}]
    /\ down' = [j \in Conns |-> IF j \in ReplyTo(k) /\ page[j] # "gone"
                                  THEN Append(down[j], ReturnMessage(k, n)) ELSE down[j]]
    /\ UNCHANGED <<serverVars, called, pending, settled, up, page, view, fails>>

\* A handler of a page ends.
pageReplies(k, n) ==
    /\ <<k, n>> \in running["page"]
    /\ running' = [running EXCEPT !["page"] = @ \ {<<k, n>>}]
    /\ up' = IF k \in open THEN [up EXCEPT ![k] = Append(@, ReturnMessage(k, n))] ELSE up
    /\ UNCHANGED <<serverVars, called, pending, settled, down, page, view, fails>>

Next ==
    \/ \E i \in Ids : \/ \E thrown \in BOOLEAN : setPort(i, thrown)
                      \/ closeConnection(i)
                      \/ callClient(i)
    \/ \E thrown \in SUBSET Conns : setState(thrown)
    \/ \E k \in Conns : \/ pageGone(k) \/ portClosed(k)
                        \/ callServer(k) \/ serverReceives(k) \/ pageReceives(k)
                        \/ \E n \in Numbers : \/ serverReplies(k, n) \/ pageReplies(k, n)
                                              \/ \E e \in Ends : timeout(e, k, n)

Spec == Init /\ [][Next]_vars
-----------------------------------------------------------------------------
StateMessages == [type : {"sync"}, rev : 0..MaxRevision] \cup [type : {"patch"}, rev : 1..MaxRevision]
RpcMessages == [type : {"call"}, n : Numbers] \cup [type : {"return"}, n : Numbers, of : Conns \X Numbers]

KartonPortsTypeOK ==
    /\ state \in 0..MaxRevision
    /\ ports \in [Ids -> 0..MaxPorts]
    /\ open \subseteq Conns /\ hooked \subseteq Conns
    /\ connections \in [Ids -> Conns \cup {NoConn}]
    /\ clients \in [Ids -> Conns \cup {NoConn}]
    /\ down \in [Conns -> Seq(StateMessages \cup RpcMessages)]
    /\ up \in [Conns -> Seq(RpcMessages)]
    /\ page \in [Conns -> {"none", "waiting", "ready", "gone"}]
    /\ view \in [Conns -> Seq(1..MaxRevision)]
    /\ called \in [Ends -> [Conns -> 0..MaxCalls]]
    /\ pending \in [Ends -> [Conns -> SUBSET Numbers]]
    /\ running \in [Ends -> SUBSET (Conns \X Numbers)]
    /\ settled \subseteq Ends \X Conns \X Numbers \X (Conns \X Numbers)
    /\ fails \in 0..MaxSendFails

(* An answer settles the call it answers, although successive pages under   *)
(* one id number their calls alike and handlers outlive the page that       *)
(* called them.                                                             *)
AnswersReachTheirCall ==
    \A s \in settled : s[4] = <<s[2], s[3]>>

(* The two maps agree: an open connection is the one both have for its id   *)
(* and is the last that was set, so that the close of a replaced connection *)
(* never removes its replacement and no old renderer is heard any more      *)
(* (window-layout/index.ts: "The old renderer must lose reviewer transport"). *)
OpenConnectionsAreCurrent ==
    \A k \in open : /\ k = Latest(k[1])
                    /\ connections[k[1]] = k
                    /\ clients[k[1]] = k

\* g[p] is the revision of the page's copy once p of the messages under way
\* have arrived: every patch is the successor of what it is applied to, and
\* an open connection ends at the server's state.
Arrivals(k, g) ==
    /\ view[k] = FullState(g[0])
    /\ \A p \in 1..Len(down[k]) :
         /\ down[k][p].type = "patch" => down[k][p].rev = g[p - 1] + 1
         /\ g[p] = IF down[k][p].type \in {"sync", "patch"} THEN down[k][p].rev ELSE g[p - 1]
    /\ k \in open => g[Len(down[k])] = state

(* A page with an open connection has the server's state, once what is      *)
(* under way has arrived: each patch finds the revision it was made for.    *)
PagesConverge ==
    \A k \in open : page[k] # "gone" =>
        \E g \in [0..Len(down[k]) -> 0..MaxRevision] : Arrivals(k, g)

(* No call of the main process waits on a connection that closed after it   *)
(* was set up: its close rejects them, and later calls find no client.      *)
(* The exception is the connection that closed while it was being set up:   *)
(* its client stays listed until the id is taken over.                      *)
NothingWaitsOnClosed ==
    \A k \in Conns : pending["server"][k] # {} => k \in open \/ k \notin hooked

-----------------------------------------------------------------------------
(***************************************************************************)
(* The inductive invariant.                                                *)
(***************************************************************************)
\* Ports are numbered as they are set; one that is still to come is untouched.
PortsInOrder ==
    \A k \in Conns :
        /\ k[2] > ports[k[1]] => page[k] = "none" /\ k \notin hooked
        /\ page[k] = "none" => down[k] = <<>> /\ view[k] = <<>> /\ k \notin open

\* What the two maps have for an id is its last port, open and hooked together.
MapsAgree ==
    /\ \A i \in Ids : /\ connections[i] # NoConn => connections[i] = Latest(i) /\ connections[i] \in open
                      /\ clients[i] # NoConn => clients[i] = Latest(i)
                      /\ clients[i] \in hooked => clients[i] \in open
    /\ open \subseteq hooked

\* An answer under way carries the call it answers.
Named(wire, k) ==
    \A p \in 1..Len(wire) : wire[p].type = "return" => wire[p].of = <<k, wire[p].n>>

AnswersNameTheirCall == \A k \in Conns : Named(down[k], k) /\ Named(up[k], k)

\* The same of every page that is there, also behind a connection that closed.
CopiesInStep ==
    \A k \in Conns : page[k] \in {"waiting", "ready"} =>
        \E g \in [0..Len(down[k]) -> 0..MaxRevision] : Arrivals(k, g)

KartonInv ==
    /\ KartonPortsTypeOK /\ PortsInOrder /\ MapsAgree /\ AnswersNameTheirCall /\ CopiesInStep
    /\ AnswersReachTheirCall /\ OpenConnectionsAreCurrent /\ NothingWaitsOnClosed

(* A page that has taken everything under way has exactly the server's state. *)
QuietPagesAreCurrent ==
    \A k \in open : page[k] # "gone" /\ down[k] = <<>> => view[k] = FullState(state)
=============================================================================
