---------------------------- MODULE KartonProofs ----------------------------
(***************************************************************************)
(* Proofs about KartonPorts, for any connection ids and any bounds.        *)
(***************************************************************************)
EXTENDS KartonPorts, FiniteSetTheorems, TLAPS

---------------------------------------------------------------------------
\* Connections and copies of the state.

\* A connection is an id and the number of a port; none of them is NoConn.
LEMMA ConnFacts ==
  /\ NoConn \notin Conns
  /\ \A k \in Conns : k = <<k[1], k[2]>> /\ k[1] \in Ids /\ k[2] \in 1..MaxPorts /\ k[2] \in Nat
  /\ \A i \in Ids, n \in 1..MaxPorts : <<i, n>> \in Conns /\ <<i, n>>[1] = i /\ <<i, n>>[2] = n
<1>1. ASSUME NEW k \in Conns
      PROVE  k = <<k[1], k[2]>> /\ k[1] \in Ids /\ k[2] \in 1..MaxPorts /\ k[2] \in Nat /\ k # NoConn
  <2>1. PICK i \in Ids, n \in 1..MaxPorts : k = <<i, n>>
    BY DEF Conns
  <2>2. <<i, n>> # <<>>
    OBVIOUS
  <2> QED
    BY <2>1, <2>2, KartonPortsAssumption DEF NoConn
<1>2. \A i \in Ids, n \in 1..MaxPorts : <<i, n>> \in Conns /\ <<i, n>>[1] = i /\ <<i, n>>[2] = n
  BY DEF Conns
<1> QED
  BY <1>1, <1>2

\* A full copy of the state, and the same with one more patch.
LEMMA FullStates ==
  ASSUME NEW n \in 0..MaxRevision
  PROVE  /\ FullState(n) \in Seq(1..MaxRevision)
         /\ n + 1 \in 1..MaxRevision => Append(FullState(n), n + 1) = FullState(n + 1)
<1>1. n \in Nat /\ MaxRevision \in Nat
  BY KartonPortsAssumption
<1>2. FullState(n) \in [1..n -> 1..MaxRevision]
  BY <1>1 DEF FullState
<1>3. FullState(n) \in Seq(1..MaxRevision) /\ Len(FullState(n)) = n
  BY <1>1, <1>2
<1>4. ASSUME n + 1 \in 1..MaxRevision
      PROVE  Append(FullState(n), n + 1) = FullState(n + 1)
  <2> DEFINE a == Append(FullState(n), n + 1)
             b == FullState(n + 1)
  <2>1. a \in Seq(1..MaxRevision) /\ Len(a) = n + 1
    BY <1>3, <1>4
  <2>2. b \in [1..(n + 1) -> 1..MaxRevision] /\ \A p \in 1..(n + 1) : b[p] = p
    BY <1>1, <1>4 DEF FullState
  <2>3. b \in Seq(1..MaxRevision) /\ Len(b) = n + 1
    BY <1>1, <2>2
  <2>4. \A p \in 1..(n + 1) : a[p] = p
    BY <1>1, <1>3 DEF FullState
  <2> QED
    BY <1>1, <2>1, <2>2, <2>3, <2>4
<1> QED
  BY <1>3, <1>4

\* Messages and their fields.
LEMMA MessageFacts ==
  /\ \A r \in 0..MaxRevision : [type |-> "sync", rev |-> r] \in StateMessages
  /\ \A r \in 1..MaxRevision : Patch(r) \in StateMessages
  /\ \A n \in Numbers : CallMessage(n) \in RpcMessages
  /\ \A k \in Conns, n \in Numbers : ReturnMessage(k, n) \in RpcMessages
  /\ \A m \in StateMessages : m.type \in {"sync", "patch"} /\ m.rev \in 0..MaxRevision
  /\ \A m \in StateMessages : m.type = "patch" => m.rev \in 1..MaxRevision
  /\ \A m \in RpcMessages : m.type \in {"call", "return"} /\ m.n \in Numbers
  /\ \A m \in RpcMessages : m.type = "return" => m.of \in Conns \X Numbers
<1>1. /\ \A r \in 0..MaxRevision : [type |-> "sync", rev |-> r] \in StateMessages
      /\ \A r \in 1..MaxRevision : Patch(r) \in StateMessages
      /\ \A n \in Numbers : CallMessage(n) \in RpcMessages
      /\ \A k \in Conns, n \in Numbers : ReturnMessage(k, n) \in RpcMessages
  BY DEF StateMessages, RpcMessages, Patch, CallMessage, ReturnMessage
<1>2. \A m \in StateMessages : m.type \in {"sync", "patch"} /\ m.rev \in 0..MaxRevision
  BY KartonPortsAssumption DEF StateMessages
<1>3. \A m \in StateMessages : m.type = "patch" => m.rev \in 1..MaxRevision
  BY DEF StateMessages
<1>4. \A m \in RpcMessages : m.type \in {"call", "return"} /\ m.n \in Numbers
  BY DEF RpcMessages
<1>5. \A m \in RpcMessages : m.type = "return" => m.of \in Conns \X Numbers
  BY DEF RpcMessages
<1> QED
  BY <1>1, <1>2, <1>3, <1>4, <1>5

---------------------------------------------------------------------------
\* What a page will have when the messages under way have arrived.

Copy(k) ==
  page[k] \in {"waiting", "ready"} =>
    \E g \in [0..Len(down[k]) -> 0..MaxRevision] : Arrivals(k, g)

\* Nothing changes for the page, except that its connection may close.
LEMMA CopyKept ==
  ASSUME NEW k \in Conns, Copy(k), page'[k] \in {"waiting", "ready"} => page[k] \in {"waiting", "ready"},
         down'[k] = down[k], view'[k] = view[k], k \in open' => k \in open /\ state' = state
  PROVE  Copy(k)'
  BY DEF Copy, Arrivals

\* One more message is under way: an RPC message, or the patch of a change.
LEMMA CopyExtended ==
  ASSUME KartonPortsTypeOK, state' \in 0..MaxRevision, NEW k \in Conns, Copy(k),
         NEW m \in StateMessages \cup RpcMessages,
         page'[k] = page[k], down'[k] = Append(down[k], m), view'[k] = view[k],
         \/ m \in RpcMessages /\ (k \in open' => k \in open /\ state' = state)
         \/ m = Patch(state + 1) /\ state' = state + 1 /\ k \in open
  PROVE  Copy(k)'
<1> SUFFICES ASSUME page[k] \in {"waiting", "ready"}
             PROVE  \E g \in [0..Len(down'[k]) -> 0..MaxRevision] : Arrivals(k, g)'
  BY DEF Copy
<1>1. PICK g \in [0..Len(down[k]) -> 0..MaxRevision] : Arrivals(k, g)
  BY DEF Copy
<1> DEFINE n == Len(down[k])
           v == IF m \in RpcMessages THEN g[n] ELSE state + 1
           f == [p \in 0..(n + 1) |-> IF p = n + 1 THEN v ELSE g[p]]
<1>2. /\ down[k] \in Seq(StateMessages \cup RpcMessages) /\ n \in Nat
      /\ state \in Nat
  BY KartonPortsAssumption DEF KartonPortsTypeOK
<1>3. /\ Len(down'[k]) = n + 1 /\ down'[k][n + 1] = m
      /\ \A p \in 1..n : down'[k][p] = down[k][p]
  BY <1>2
<1>4. v \in 0..MaxRevision
  BY <1>2
<1>5. PICK h \in [0..(n + 1) -> 0..MaxRevision] : h[n + 1] = v /\ \A p \in 0..n : h[p] = g[p]
  <2>1. f \in [0..(n + 1) -> 0..MaxRevision] /\ f[n + 1] = v /\ \A p \in 0..n : f[p] = g[p]
    BY <1>2, <1>4
  <2> QED
    BY <2>1
<1>6. m.type = "patch" => m \notin RpcMessages
  BY MessageFacts
<1>7. m \in RpcMessages => m.type \notin {"sync", "patch"}
  BY MessageFacts
<1>8. m \notin RpcMessages => m.type = "patch" /\ m.rev = state + 1 /\ v = state + 1 /\ g[n] = state
  BY <1>1 DEF Patch, Arrivals
<1>9. /\ view[k] = FullState(g[0])
      /\ \A p \in 1..n : /\ down[k][p].type = "patch" => down[k][p].rev = g[p - 1] + 1
                         /\ g[p] = IF down[k][p].type \in {"sync", "patch"} THEN down[k][p].rev
                                                                            ELSE g[p - 1]
      /\ k \in open => g[n] = state
  BY <1>1 DEF Arrivals
<1>10. h[0] = g[0]
  BY <1>2, <1>5
<1>11. k \in open' => h[n + 1] = state'
  <2>1. CASE m \in RpcMessages
    BY <1>5, <1>6, <1>9, <2>1 DEF Patch
  <2>2. CASE m \notin RpcMessages
    BY <1>5, <1>8, <2>2
  <2> QED
    BY <2>1, <2>2
<1> HIDE DEF v
<1>12. ASSUME NEW p \in 1..(n + 1)
       PROVE  /\ down'[k][p].type = "patch" => down'[k][p].rev = h[p - 1] + 1
              /\ h[p] = IF down'[k][p].type \in {"sync", "patch"} THEN down'[k][p].rev ELSE h[p - 1]
  <2>1. CASE p = n + 1
    <3>0. p - 1 = n /\ n \in 0..n
      BY <1>2, <2>1
    <3>1. h[p - 1] = g[n] /\ h[p] = v /\ down'[k][p] = m
      BY <1>3, <1>5, <2>1, <3>0
    <3> QED
      BY <1>6, <1>7, <1>8, <3>1 DEF v
  <2>2. CASE p \in 1..n
    <3>1. h[p - 1] = g[p - 1] /\ h[p] = g[p] /\ down'[k][p] = down[k][p]
      BY <1>2, <1>3, <1>5, <2>2
    <3> QED
      BY <1>9, <2>2, <3>1
  <2> QED
    BY <1>2, <2>1, <2>2
<1>13. Arrivals(k, h)'
  BY <1>3, <1>9, <1>10, <1>11, <1>12 DEF Arrivals
<1> QED
  BY <1>3, <1>5, <1>13

\* The page takes the first message.
LEMMA CopyTaken ==
  ASSUME KartonPortsTypeOK, NEW k \in Conns, Copy(k), page[k] \in {"waiting", "ready"},
         down[k] # <<>>, down'[k] = Tail(down[k]), open' = open, state' = state,
         view'[k] = (CASE Head(down[k]).type = "sync"  -> FullState(Head(down[k]).rev)
                       [] Head(down[k]).type = "patch" -> Append(view[k], Head(down[k]).rev)
                       [] OTHER                        -> view[k])
  PROVE  Copy(k)' /\ view'[k] \in Seq(1..MaxRevision)
<1>1. PICK g \in [0..Len(down[k]) -> 0..MaxRevision] : Arrivals(k, g)
  BY DEF Copy
<1> DEFINE n == Len(down[k])
           m == Head(down[k])
           f == [p \in 0..(n - 1) |-> g[p + 1]]
<1>2. /\ down[k] \in Seq(StateMessages \cup RpcMessages) /\ n \in Nat \ {0}
  BY DEF KartonPortsTypeOK
<1>3. /\ Len(down'[k]) = n - 1 /\ m = down[k][1] /\ m \in StateMessages \cup RpcMessages
      /\ \A p \in 1..(n - 1) : down'[k][p] = down[k][p + 1]
  BY <1>2
<1>4. PICK h \in [0..(n - 1) -> 0..MaxRevision] : \A p \in 0..(n - 1) : h[p] = g[p + 1]
  <2>1. f \in [0..(n - 1) -> 0..MaxRevision] /\ \A p \in 0..(n - 1) : f[p] = g[p + 1]
    BY <1>2
  <2> QED
    BY <2>1
<1>5. /\ view[k] = FullState(g[0])
      /\ \A p \in 1..n : /\ down[k][p].type = "patch" => down[k][p].rev = g[p - 1] + 1
                         /\ g[p] = IF down[k][p].type \in {"sync", "patch"} THEN down[k][p].rev
                                                                            ELSE g[p - 1]
      /\ k \in open => g[n] = state
  BY <1>1 DEF Arrivals
<1>6. /\ m.type = "patch" => m.rev = g[0] + 1
      /\ g[1] = IF m.type \in {"sync", "patch"} THEN m.rev ELSE g[0]
      /\ g[0] \in 0..MaxRevision /\ g[1] \in 0..MaxRevision
  <2>1. /\ m.type = "patch" => m.rev = g[1 - 1] + 1
        /\ g[1] = IF m.type \in {"sync", "patch"} THEN m.rev ELSE g[1 - 1]
    <3>1. 1 \in 1..n
      BY <1>2
    <3>2. m = down[k][1]
      BY <1>3
    <3> HIDE DEF n, m
    <3> QED
      BY <1>5, <3>1, <3>2
  <2>2. 1 - 1 = 0 /\ 0 \in 0..n /\ 1 \in 0..n
    BY <1>2
  <2> HIDE DEF m
  <2> QED
    BY <2>1, <2>2
<1> HIDE DEF m
<1>7. view'[k] = FullState(g[1])
  <2>1. CASE m.type = "patch"
    <3>1. m \in StateMessages /\ m.rev \in 1..MaxRevision
      BY <1>3, <2>1, MessageFacts
    <3>2. view'[k] = Append(FullState(g[0]), g[0] + 1)
      BY <1>5, <1>6, <2>1 DEF m
    <3>3. g[0] + 1 \in 1..MaxRevision /\ g[1] = g[0] + 1
      BY <1>6, <2>1, <3>1
    <3> QED
      BY <1>6, <3>2, <3>3, FullStates
  <2>2. CASE m.type = "sync"
    BY <1>6, <2>2 DEF m
  <2>3. CASE m.type \notin {"sync", "patch"}
    BY <1>5, <1>6, <2>3 DEF m
  <2> QED
    BY <2>1, <2>2, <2>3
<1>8. h[0] = g[1] /\ h[n - 1] = g[n]
  <2>1. 0 \in 0..(n - 1) /\ n - 1 \in 0..(n - 1) /\ 0 + 1 = 1 /\ (n - 1) + 1 = n
    BY <1>2
  <2> QED
    BY <1>4, <2>1
<1>9. ASSUME NEW p \in 1..(n - 1)
      PROVE  /\ down'[k][p].type = "patch" => down'[k][p].rev = h[p - 1] + 1
             /\ h[p] = IF down'[k][p].type \in {"sync", "patch"} THEN down'[k][p].rev ELSE h[p - 1]
  <2>1. /\ p - 1 \in 0..(n - 1) /\ p \in 0..(n - 1) /\ p + 1 \in 1..n
        /\ (p - 1) + 1 = p /\ (p + 1) - 1 = p
    BY <1>2
  <2>2. h[p - 1] = g[p] /\ h[p] = g[p + 1] /\ down'[k][p] = down[k][p + 1]
    BY <1>3, <1>4, <2>1
  <2> QED
    BY <1>5, <2>1, <2>2
<1>10. Arrivals(k, h)'
  BY <1>3, <1>5, <1>7, <1>8, <1>9 DEF Arrivals
<1>11. Copy(k)'
  BY <1>3, <1>4, <1>10 DEF Copy
<1> QED
  BY <1>6, <1>7, <1>11, FullStates

---------------------------------------------------------------------------
\* Closing connections.

\* What the close handlers of open connections leave: the maps without them
\* and no call waiting on them.
LEMMA ClosingMaps ==
  ASSUME KartonInv, NEW shut \in SUBSET open
  PROVE  /\ ConnectionsWithout(shut) \in [Ids -> Conns \cup {NoConn}]
         /\ ClientsWithout(shut) \in [Ids -> Conns \cup {NoConn}]
         /\ PendingWithout(shut) \in [Ends -> [Conns -> SUBSET Numbers]]
         /\ \A i \in Ids : LET a == ConnectionsWithout(shut)[i]
                               b == ClientsWithout(shut)[i] IN
              /\ a # NoConn => a = Latest(i) /\ a \in open \ shut
              /\ b # NoConn => b = Latest(i)
              /\ b \in hooked => b \in open \ shut
         /\ \A k \in open \ shut : /\ ConnectionsWithout(shut)[k[1]] = k
                                   /\ ClientsWithout(shut)[k[1]] = k
         /\ \A k \in Conns : PendingWithout(shut)["server"][k] # {} => k \in open \ shut \/ k \notin hooked
         /\ PendingWithout(shut)["page"] = pending["page"]
<1>1. KartonPortsTypeOK /\ MapsAgree /\ OpenConnectionsAreCurrent /\ NothingWaitsOnClosed
  BY DEF KartonInv
<1>2. shut \subseteq open /\ open \subseteq Conns /\ hooked \subseteq Conns /\ open \subseteq hooked
  BY <1>1 DEF KartonPortsTypeOK, MapsAgree
<1>3. /\ connections \in [Ids -> Conns \cup {NoConn}] /\ clients \in [Ids -> Conns \cup {NoConn}]
      /\ pending \in [Ends -> [Conns -> SUBSET Numbers]]
  BY <1>1 DEF KartonPortsTypeOK
<1>4. ASSUME NEW k \in open
      PROVE  k = <<k[1], ports[k[1]]>> /\ k[1] \in Ids /\ connections[k[1]] = k /\ clients[k[1]] = k /\ k # NoConn
  BY <1>1, <1>2, ConnFacts DEF OpenConnectionsAreCurrent, Latest
<1>5. /\ ConnectionsWithout(shut) \in [Ids -> Conns \cup {NoConn}]
      /\ ClientsWithout(shut) \in [Ids -> Conns \cup {NoConn}]
  BY <1>3 DEF ConnectionsWithout, ClientsWithout
<1>6. /\ PendingWithout(shut) \in [Ends -> [Conns -> SUBSET Numbers]]
      /\ PendingWithout(shut)["page"] = pending["page"]
      /\ \A k \in Conns : PendingWithout(shut)["server"][k]
                            = IF k \in shut \cap hooked /\ clients[k[1]] # NoConn THEN {}
                              ELSE pending["server"][k]
  BY <1>3 DEF PendingWithout, Ends
<1>7. \A k \in Conns : PendingWithout(shut)["server"][k] # {} => k \in open \ shut \/ k \notin hooked
  BY <1>1, <1>2, <1>4, <1>6 DEF NothingWaitsOnClosed
<1>8. ASSUME NEW i \in Ids
      PROVE  ConnectionsWithout(shut)[i] # NoConn =>
               ConnectionsWithout(shut)[i] = Latest(i) /\ ConnectionsWithout(shut)[i] \in open \ shut
  BY <1>1 DEF ConnectionsWithout, MapsAgree
<1>9. ASSUME NEW i \in Ids
      PROVE  /\ ClientsWithout(shut)[i] # NoConn => ClientsWithout(shut)[i] = Latest(i)
             /\ ClientsWithout(shut)[i] \in hooked => ClientsWithout(shut)[i] \in open \ shut
  <2>1. CASE \E k \in shut \cap hooked : k[1] = i
    <3>1. ClientsWithout(shut)[i] = NoConn
      BY <2>1 DEF ClientsWithout
    <3> QED
      BY <1>2, <3>1, ConnFacts
  <2>2. CASE ~\E k \in shut \cap hooked : k[1] = i
    <3>1. ClientsWithout(shut)[i] = clients[i]
      BY <2>2 DEF ClientsWithout
    <3>2. clients[i] # NoConn => clients[i] = Latest(i)
      BY <1>1 DEF MapsAgree
    <3>3. clients[i] \in hooked => clients[i] \in open /\ clients[i][1] = i
      BY <1>1, <1>2, <3>2, ConnFacts DEF MapsAgree, Latest
    <3> QED
      BY <1>2, <2>2, <3>1, <3>2, <3>3
  <2> QED
    BY <2>1, <2>2
<1>10. ASSUME NEW k \in open \ shut
       PROVE  ConnectionsWithout(shut)[k[1]] = k /\ ClientsWithout(shut)[k[1]] = k
  <2>1. ConnectionsWithout(shut)[k[1]] = k
    BY <1>4 DEF ConnectionsWithout
  <2>2. ~\E j \in shut \cap hooked : j[1] = k[1]
    BY <1>2, <1>4
  <2> QED
    BY <1>4, <2>1, <2>2 DEF ClientsWithout
<1> QED
  BY <1>5, <1>6, <1>7, <1>8, <1>9, <1>10

\* The same for triggerClose: what it does to the maps, the calls and the wires.
LEMMA TriggerClose ==
  ASSUME KartonInv, NEW ks, triggerClose(ks), UNCHANGED <<ports, hooked>>
  PROVE  /\ open' \subseteq open /\ \A k \in open \ ks : k \in open'
         /\ connections' \in [Ids -> Conns \cup {NoConn}] /\ clients' \in [Ids -> Conns \cup {NoConn}]
         /\ pending' \in [Ends -> [Conns -> SUBSET Numbers]]
         /\ up' \in [Conns -> Seq(RpcMessages)] /\ \A k \in Conns : up'[k] \in {<<>>, up[k]}
         /\ MapsAgree' /\ OpenConnectionsAreCurrent' /\ NothingWaitsOnClosed'
<1> DEFINE shut == ks \cap open
<1>1. /\ open' = open \ shut /\ connections' = ConnectionsWithout(shut)
      /\ clients' = ClientsWithout(shut) /\ pending' = PendingWithout(shut)
      /\ up' = [k \in Conns |-> IF k \in shut THEN <<>> ELSE up[k]]
  BY DEF triggerClose
<1>2. shut \in SUBSET open
  OBVIOUS
<1> HIDE DEF shut
<1>3. KartonPortsTypeOK /\ MapsAgree /\ OpenConnectionsAreCurrent
  BY DEF KartonInv
<1>4. /\ connections' \in [Ids -> Conns \cup {NoConn}] /\ clients' \in [Ids -> Conns \cup {NoConn}]
      /\ pending' \in [Ends -> [Conns -> SUBSET Numbers]]
  BY <1>1, <1>2, ClosingMaps
<1>5. /\ \A i \in Ids : /\ connections'[i] # NoConn => connections'[i] = Latest(i) /\ connections'[i] \in open'
                        /\ clients'[i] # NoConn => clients'[i] = Latest(i)
                        /\ clients'[i] \in hooked => clients'[i] \in open'
      /\ \A k \in open' : connections'[k[1]] = k /\ clients'[k[1]] = k
      /\ \A k \in Conns : pending'["server"][k] # {} => k \in open' \/ k \notin hooked
  BY <1>1, <1>2, ClosingMaps
<1>6. \A i : Latest(i)' = Latest(i)
  BY DEF Latest
<1>7. MapsAgree'
  BY <1>1, <1>3, <1>5, <1>6 DEF MapsAgree
<1>8. OpenConnectionsAreCurrent'
  BY <1>1, <1>3, <1>5, <1>6 DEF OpenConnectionsAreCurrent
<1>9. NothingWaitsOnClosed'
  BY <1>5 DEF NothingWaitsOnClosed
<1>10. up' \in [Conns -> Seq(RpcMessages)] /\ \A k \in Conns : up'[k] \in {<<>>, up[k]}
  <2>1. <<>> \in Seq(RpcMessages)
    OBVIOUS
  <2> QED
    BY <1>1, <1>3, <2>1 DEF KartonPortsTypeOK
<1>11. open' \subseteq open /\ \A k \in open \ ks : k \in open'
  BY <1>1 DEF shut
<1> QED
  BY <1>4, <1>7, <1>8, <1>9, <1>10, <1>11

\* Steps that leave the server's maps alone: a new call of the main process
\* goes to the client the maps have.
LEMMA MapsKept ==
  ASSUME KartonInv, UNCHANGED serverVars,
         \A k \in Conns : pending'["server"][k] \subseteq pending["server"][k] \/ clients[k[1]] = k
  PROVE  MapsAgree' /\ OpenConnectionsAreCurrent' /\ NothingWaitsOnClosed'
<1>1. MapsAgree /\ OpenConnectionsAreCurrent /\ NothingWaitsOnClosed
  BY DEF KartonInv
<1>2. /\ open' = open /\ connections' = connections /\ clients' = clients /\ hooked' = hooked
      /\ ports' = ports
  BY DEF serverVars
<1>3. \A i : Latest(i)' = Latest(i)
  BY <1>2 DEF Latest
<1>4. MapsAgree' /\ OpenConnectionsAreCurrent'
  BY <1>1, <1>2, <1>3 DEF MapsAgree, OpenConnectionsAreCurrent
<1>5. ASSUME NEW k \in Conns, pending'["server"][k] # {} PROVE k \in open' \/ k \notin hooked'
  <2>1. CASE clients[k[1]] = k
    BY <1>1, <1>2, <2>1, ConnFacts DEF MapsAgree
  <2>2. CASE pending'["server"][k] \subseteq pending["server"][k]
    BY <1>1, <1>2, <1>5, <2>2 DEF NothingWaitsOnClosed
  <2> QED
    BY <2>1, <2>2
<1> QED
  BY <1>4, <1>5 DEF NothingWaitsOnClosed

\* Wires whose answers name their call, as messages are added.
LEMMA NamedWires ==
  ASSUME NEW M, NEW wire \in Seq(M), NEW k, Named(wire, k)
  PROVE  /\ Named(<<>>, k)
         /\ \A m \in M : (m.type = "return" => m.of = <<k, m.n>>) => Named(Append(wire, m), k)
<1>1. Named(<<>>, k)
  BY DEF Named
<1>2. ASSUME NEW m \in M, m.type = "return" => m.of = <<k, m.n>> PROVE Named(Append(wire, m), k)
  <2>1. /\ Len(wire) \in Nat /\ Len(Append(wire, m)) = Len(wire) + 1
        /\ \A p \in 1..Len(wire) : Append(wire, m)[p] = wire[p]
        /\ Append(wire, m)[Len(wire) + 1] = m
    OBVIOUS
  <2>2. \A p \in 1..(Len(wire) + 1) : p \in 1..Len(wire) \/ p = Len(wire) + 1
    BY <2>1
  <2> QED
    BY <1>2, <2>1, <2>2 DEF Named
<1> QED
  BY <1>1, <1>2

\* The first message of such a wire, and what stays under way.
LEMMA NamedHead ==
  ASSUME NEW M, NEW wire \in Seq(M), wire # <<>>, NEW k, Named(wire, k)
  PROVE  /\ Head(wire) \in M /\ Named(Tail(wire), k)
         /\ Head(wire).type = "return" => Head(wire).of = <<k, Head(wire).n>>
<1>1. Len(wire) \in Nat \ {0} /\ Head(wire) = wire[1] /\ 1 \in 1..Len(wire) /\ Head(wire) \in M
  OBVIOUS
<1>2. /\ Len(Tail(wire)) = Len(wire) - 1
      /\ \A p \in 1..Len(Tail(wire)) : Tail(wire)[p] = wire[p + 1] /\ p + 1 \in 1..Len(wire)
  OBVIOUS
<1> QED
  BY <1>1, <1>2 DEF Named

\* The invariant from its parts, with the copies of the pages one by one.
LEMMA PartsOfInv ==
  ASSUME KartonPortsTypeOK', PortsInOrder', MapsAgree', OpenConnectionsAreCurrent',
         NothingWaitsOnClosed', AnswersNameTheirCall', AnswersReachTheirCall',
         \A k \in Conns : Copy(k)'
  PROVE  KartonInv'
  BY DEF KartonInv, CopiesInStep, Copy

\* What the invariant says of one connection.
LEMMA OneConn ==
  ASSUME KartonInv, NEW k \in Conns
  PROVE  /\ Copy(k) /\ Named(down[k], k) /\ Named(up[k], k)
         /\ down[k] \in Seq(StateMessages \cup RpcMessages) /\ up[k] \in Seq(RpcMessages)
         /\ k[2] > ports[k[1]] => page[k] = "none" /\ k \notin hooked
         /\ page[k] = "none" => down[k] = <<>> /\ view[k] = <<>> /\ k \notin open
  BY DEF KartonInv, CopiesInStep, Copy, AnswersNameTheirCall, KartonPortsTypeOK, PortsInOrder

---------------------------------------------------------------------------
\* The steps.

\* A connection closes: the crash of a renderer, or the close event of a port.
LEMMA CloseKeeps ==
  ASSUME KartonInv, NEW ks, triggerClose(ks),
         UNCHANGED <<state, ports, hooked, called, running, settled, down, page, view, fails>>
  PROVE  KartonInv'
<1>1. KartonPortsTypeOK
  BY DEF KartonInv
<1>2. /\ open' \subseteq open
      /\ connections' \in [Ids -> Conns \cup {NoConn}] /\ clients' \in [Ids -> Conns \cup {NoConn}]
      /\ pending' \in [Ends -> [Conns -> SUBSET Numbers]]
      /\ up' \in [Conns -> Seq(RpcMessages)] /\ \A k \in Conns : up'[k] \in {<<>>, up[k]}
      /\ MapsAgree' /\ OpenConnectionsAreCurrent' /\ NothingWaitsOnClosed'
  BY TriggerClose
<1>3. KartonPortsTypeOK'
  BY <1>1, <1>2 DEF KartonPortsTypeOK
<1>4. PortsInOrder'
  BY <1>2 DEF KartonInv, PortsInOrder
<1>5. AnswersReachTheirCall'
  BY DEF KartonInv, AnswersReachTheirCall
<1>6. ASSUME NEW k \in Conns PROVE Copy(k)' /\ Named(down[k], k)' /\ Named(up[k], k)'
  <2>1. Copy(k)'
    BY <1>2, OneConn, CopyKept
  <2>2. Named(down[k], k)' /\ Named(up[k], k)'
    BY <1>2, OneConn, NamedWires DEF Named
  <2> QED
    BY <2>1, <2>2
<1>7. AnswersNameTheirCall'
  BY <1>6 DEF AnswersNameTheirCall
<1> QED
  BY <1>2, <1>3, <1>4, <1>5, <1>6, <1>7, PartsOfInv

\* The page of a connection is gone: so are its copy and what was under way to it.
LEMMA PageGoneKeeps ==
  ASSUME KartonInv, NEW k \in Conns, pageGone(k)
  PROVE  KartonInv'
<1>1. KartonPortsTypeOK
  BY DEF KartonInv
<1>2. /\ page[k] # "none" /\ page' = [page EXCEPT ![k] = "gone"] /\ down' = [down EXCEPT ![k] = <<>>]
      /\ pending' = [pending EXCEPT !["page"][k] = {}]
      /\ running' = [running EXCEPT !["page"] = {r \in @ : r[1] # k}]
      /\ UNCHANGED <<serverVars, called, settled, up, view, fails>>
  BY DEF pageGone
<1>3. <<>> \in Seq(StateMessages \cup RpcMessages)
  OBVIOUS
<1>4. pending' \in [Ends -> [Conns -> SUBSET Numbers]] /\ pending'["server"] = pending["server"]
  BY <1>1, <1>2 DEF KartonPortsTypeOK, Ends
<1>5. running' \in [Ends -> SUBSET (Conns \X Numbers)]
  BY <1>1, <1>2 DEF KartonPortsTypeOK, Ends
<1>6. KartonPortsTypeOK'
  BY <1>1, <1>2, <1>3, <1>4, <1>5 DEF KartonPortsTypeOK, serverVars
<1>7. MapsAgree' /\ OpenConnectionsAreCurrent' /\ NothingWaitsOnClosed'
  BY <1>2, <1>4, MapsKept
<1>8. ASSUME NEW j \in Conns
      PROVE  /\ page'[j] = (IF j = k THEN "gone" ELSE page[j])
             /\ down'[j] = (IF j = k THEN <<>> ELSE down[j])
  BY <1>1, <1>2 DEF KartonPortsTypeOK
<1>9. PortsInOrder'
  <2>1. open' = open /\ ports' = ports /\ hooked' = hooked /\ view' = view
    BY <1>2 DEF serverVars
  <2>2. ASSUME NEW j \in Conns
        PROVE  /\ j[2] > ports[j[1]] => page'[j] = "none" /\ j \notin hooked
               /\ page'[j] = "none" => down'[j] = <<>> /\ view[j] = <<>> /\ j \notin open
    BY <1>2, <1>8, OneConn
  <2> QED
    BY <2>1, <2>2 DEF PortsInOrder
<1>10. AnswersReachTheirCall'
  BY <1>2 DEF KartonInv, AnswersReachTheirCall
<1>11. ASSUME NEW j \in Conns PROVE Copy(j)' /\ Named(down[j], j)' /\ Named(up[j], j)'
  <2>1. Named(down[j], j)' /\ Named(up[j], j)'
    BY <1>2, <1>8, OneConn, NamedWires DEF Named
  <2>2. CASE j = k
    BY <1>8, <2>1, <2>2 DEF Copy
  <2>3. CASE j # k
    BY <1>2, <1>8, <2>1, <2>3, OneConn, CopyKept DEF serverVars
  <2> QED
    BY <2>2, <2>3
<1>12. AnswersNameTheirCall'
  BY <1>11 DEF AnswersNameTheirCall
<1> QED
  BY <1>6, <1>7, <1>9, <1>10, <1>11, <1>12, PartsOfInv

\* Calls, answers and timeouts: the server's maps stay, wires and calls move.
LEMMA RpcStep ==
  ASSUME KartonInv, UNCHANGED <<serverVars, fails>>,
         \A k \in Conns : pending'["server"][k] \subseteq pending["server"][k] \/ clients[k[1]] = k,
         down' \in [Conns -> Seq(StateMessages \cup RpcMessages)], up' \in [Conns -> Seq(RpcMessages)],
         page' \in [Conns -> {"none", "waiting", "ready", "gone"}], view' \in [Conns -> Seq(1..MaxRevision)],
         called' \in [Ends -> [Conns -> 0..MaxCalls]], pending' \in [Ends -> [Conns -> SUBSET Numbers]],
         running' \in [Ends -> SUBSET (Conns \X Numbers)],
         settled' \subseteq Ends \X Conns \X Numbers \X (Conns \X Numbers),
         AnswersReachTheirCall',
         \A k \in Conns : /\ page[k] = "none" <=> page'[k] = "none"
                          /\ page[k] = "none" => down'[k] = down[k] /\ view'[k] = view[k]
                          /\ Copy(k)' /\ Named(down'[k], k) /\ Named(up'[k], k)
  PROVE  KartonInv'
<1>1. KartonPortsTypeOK /\ PortsInOrder
  BY DEF KartonInv
<1>2. KartonPortsTypeOK'
  BY <1>1 DEF KartonPortsTypeOK, serverVars
<1>3. PortsInOrder'
  BY <1>1 DEF PortsInOrder, serverVars
<1>4. MapsAgree' /\ OpenConnectionsAreCurrent' /\ NothingWaitsOnClosed'
  BY MapsKept
<1>5. AnswersNameTheirCall'
  BY DEF AnswersNameTheirCall, Named
<1> QED
  BY <1>2, <1>3, <1>4, <1>5, PartsOfInv

\* A call of a page.
LEMMA CallServerKeeps ==
  ASSUME KartonInv, NEW k \in Conns, callServer(k)
  PROVE  KartonInv'
<1> DEFINE n == called["page"][k] + 1
           m == CallMessage(n)
<1>1. KartonPortsTypeOK
  BY DEF KartonInv
<1>2. /\ called["page"][k] < MaxCalls
      /\ called' = [called EXCEPT !["page"][k] = n]
      /\ pending' = [pending EXCEPT !["page"][k] = @ \cup {n}]
      /\ up' = IF k \in open THEN [up EXCEPT ![k] = Append(@, m)] ELSE up
      /\ UNCHANGED <<serverVars, running, settled, down, page, view, fails>>
  BY DEF callServer
<1>3. n \in Numbers /\ n \in 0..MaxCalls
  BY <1>1, <1>2, KartonPortsAssumption DEF KartonPortsTypeOK, Numbers, Ends
<1> HIDE DEF n
<1>4. m \in RpcMessages /\ m.type # "return"
  BY <1>3, MessageFacts DEF CallMessage
<1> HIDE DEF m
<1>5. called' \in [Ends -> [Conns -> 0..MaxCalls]]
  BY <1>1, <1>2, <1>3 DEF KartonPortsTypeOK, Ends
<1>6. pending' \in [Ends -> [Conns -> SUBSET Numbers]] /\ pending'["server"] = pending["server"]
  BY <1>1, <1>2, <1>3 DEF KartonPortsTypeOK, Ends
<1>7. ASSUME NEW j \in Conns
      PROVE  /\ up'[j] \in {up[j], Append(up[j], m)} /\ up'[j] \in Seq(RpcMessages)
             /\ Named(up'[j], j)
  <2>1. up'[j] \in {up[j], Append(up[j], m)}
    BY <1>1, <1>2 DEF KartonPortsTypeOK
  <2>2. up[j] \in Seq(RpcMessages) /\ Named(up[j], j)
    BY OneConn
  <2>3. Append(up[j], m) \in Seq(RpcMessages) /\ Named(Append(up[j], m), j)
    BY <1>4, <2>2, NamedWires
  <2> QED
    BY <2>1, <2>2, <2>3
<1>8. up' \in [Conns -> Seq(RpcMessages)]
  <2>1. up' = [j \in Conns |-> up'[j]]
    BY <1>1, <1>2 DEF KartonPortsTypeOK
  <2> QED
    BY <1>7, <2>1
<1>9. \A j \in Conns : Copy(j)' /\ Named(down'[j], j)
  BY <1>2, OneConn, CopyKept DEF serverVars
<1>10. AnswersReachTheirCall'
  BY <1>2 DEF KartonInv, AnswersReachTheirCall
<1> QED
  BY <1>1, <1>2, <1>5, <1>6, <1>7, <1>8, <1>9, <1>10, RpcStep DEF KartonPortsTypeOK

\* A message is posted to the pages in ks, which are there: their wires grow by it.
LEMMA PostedDown ==
  ASSUME KartonInv, UNCHANGED <<serverVars, page, view>>, NEW ks \in SUBSET open, NEW m \in RpcMessages,
         \A k \in ks : page[k] # "gone" /\ (m.type = "return" => m.of = <<k, m.n>>),
         down' = [k \in Conns |-> IF k \in ks THEN Append(down[k], m) ELSE down[k]]
  PROVE  /\ down' \in [Conns -> Seq(StateMessages \cup RpcMessages)]
         /\ \A k \in Conns : /\ Copy(k)' /\ Named(down'[k], k)
                             /\ page[k] = "none" => down'[k] = down[k] /\ view'[k] = view[k]
<1>1. KartonPortsTypeOK
  BY DEF KartonInv
<1>2. ASSUME NEW k \in Conns
      PROVE  /\ down'[k] \in Seq(StateMessages \cup RpcMessages)
             /\ Copy(k)' /\ Named(down'[k], k)
             /\ page[k] = "none" => down'[k] = down[k]
  <2>1. /\ down[k] \in Seq(StateMessages \cup RpcMessages) /\ Copy(k) /\ Named(down[k], k)
        /\ page[k] = "none" => k \notin open
    BY OneConn
  <2>2. state' = state /\ open' = open /\ page'[k] = page[k] /\ view'[k] = view[k]
    BY DEF serverVars
  <2>3. CASE k \in ks
    <3>1. down'[k] = Append(down[k], m)
      BY <2>3
    <3>2. state' \in 0..MaxRevision
      BY <1>1, <2>2 DEF KartonPortsTypeOK
    <3>3. Copy(k)'
      BY <1>1, <2>1, <2>2, <3>1, <3>2, CopyExtended
    <3>4. Named(Append(down[k], m), k)
      BY <2>1, <2>3, NamedWires
    <3>5. Append(down[k], m) \in Seq(StateMessages \cup RpcMessages)
      BY <2>1
    <3>6. page[k] # "none"
      BY <2>1, <2>3
    <3> QED
      BY <3>1, <3>3, <3>4, <3>5, <3>6
  <2>4. CASE k \notin ks
    <3>1. down'[k] = down[k]
      BY <2>4
    <3>2. Copy(k)'
      BY <2>1, <2>2, <3>1, CopyKept
    <3> QED
      BY <2>1, <3>1, <3>2
  <2> QED
    BY <2>3, <2>4
<1> QED
  BY <1>2

\* A call of the main process to the client the server has for the id.
LEMMA CallClientKeeps ==
  ASSUME KartonInv, NEW i \in Ids, callClient(i)
  PROVE  KartonInv'
<1> DEFINE k == clients[i]
           n == called["server"][k] + 1
           m == CallMessage(n)
           ks == {k} \cap {j \in open : page[j] # "gone"}
<1>1. KartonPortsTypeOK
  BY DEF KartonInv
<1>2. /\ k # NoConn /\ called["server"][k] < MaxCalls
      /\ called' = [called EXCEPT !["server"][k] = n]
      /\ pending' = [pending EXCEPT !["server"][k] = @ \cup {n}]
      /\ down' = IF k \in open THEN Posted(down, k, m) ELSE down
      /\ UNCHANGED <<serverVars, running, settled, up, page, view, fails>>
  BY DEF callClient
<1>3. k \in Conns /\ clients[k[1]] = k
  <2>1. k \in Conns /\ k = Latest(i)
    BY <1>1, <1>2 DEF KartonInv, KartonPortsTypeOK, MapsAgree
  <2> QED
    BY <2>1 DEF Latest
<1> HIDE DEF k
<1>4. n \in Numbers /\ n \in 0..MaxCalls
  <2>1. called["server"][k] \in 0..MaxCalls
    BY <1>1, <1>3 DEF KartonPortsTypeOK, Ends
  <2> QED
    BY <1>2, <2>1, KartonPortsAssumption DEF Numbers
<1> HIDE DEF n
<1>5. m \in RpcMessages /\ m.type # "return"
  BY <1>4, MessageFacts DEF CallMessage
<1> HIDE DEF m
<1>6. called' \in [Ends -> [Conns -> 0..MaxCalls]]
  BY <1>1, <1>2, <1>3, <1>4 DEF KartonPortsTypeOK, Ends
<1>7. /\ pending' \in [Ends -> [Conns -> SUBSET Numbers]]
      /\ \A j \in Conns : j # k => pending'["server"][j] = pending["server"][j]
  BY <1>1, <1>2, <1>3, <1>4 DEF KartonPortsTypeOK, Ends
<1>8. down' = [j \in Conns |-> IF j \in ks THEN Append(down[j], m) ELSE down[j]]
  BY <1>1, <1>2, <1>3 DEF KartonPortsTypeOK, Posted
<1>9. ks \in SUBSET open /\ \A j \in ks : page[j] # "gone"
  OBVIOUS
<1> HIDE DEF ks
<1>10. /\ down' \in [Conns -> Seq(StateMessages \cup RpcMessages)]
       /\ \A j \in Conns : /\ Copy(j)' /\ Named(down'[j], j)
                           /\ page[j] = "none" => down'[j] = down[j] /\ view'[j] = view[j]
  BY <1>2, <1>5, <1>8, <1>9, PostedDown
<1>11. AnswersReachTheirCall'
  BY <1>2 DEF KartonInv, AnswersReachTheirCall
<1>12. \A j \in Conns : Named(up'[j], j)
  BY <1>2, OneConn
<1>13. \A j \in Conns : pending'["server"][j] \subseteq pending["server"][j] \/ clients[j[1]] = j
  BY <1>3, <1>7
<1> QED
  BY <1>1, <1>2, <1>6, <1>7, <1>10, <1>11, <1>12, <1>13, RpcStep DEF KartonPortsTypeOK

\* A call times out.
LEMMA TimeoutKeeps ==
  ASSUME KartonInv, NEW e \in Ends, NEW k \in Conns, NEW n \in Numbers, timeout(e, k, n)
  PROVE  KartonInv'
<1>1. KartonPortsTypeOK
  BY DEF KartonInv
<1>2. /\ pending' = [pending EXCEPT ![e][k] = @ \ {n}]
      /\ UNCHANGED <<serverVars, called, running, settled, down, up, page, view, fails>>
  BY DEF timeout
<1>3. /\ pending' \in [Ends -> [Conns -> SUBSET Numbers]]
      /\ \A j \in Conns : pending'["server"][j] \subseteq pending["server"][j]
  BY <1>1, <1>2 DEF KartonPortsTypeOK, Ends
<1>4. \A j \in Conns : Copy(j)' /\ Named(down'[j], j) /\ Named(up'[j], j)
  BY <1>2, OneConn, CopyKept DEF serverVars
<1>5. AnswersReachTheirCall'
  BY <1>2 DEF KartonInv, AnswersReachTheirCall
<1> QED
  BY <1>1, <1>2, <1>3, <1>4, <1>5, RpcStep DEF KartonPortsTypeOK

\* What an end does with a message: an answer that names its call settles that call.
LEMMA HandleMessage ==
  ASSUME KartonInv, NEW e \in Ends, NEW k \in Conns, NEW m \in StateMessages \cup RpcMessages,
         m.type = "return" => m.of = <<k, m.n>>, handleMessage(e, k, m)
  PROVE  /\ running' \in [Ends -> SUBSET (Conns \X Numbers)]
         /\ pending' \in [Ends -> [Conns -> SUBSET Numbers]]
         /\ \A j \in Conns : pending'["server"][j] \subseteq pending["server"][j]
         /\ settled' \subseteq Ends \X Conns \X Numbers \X (Conns \X Numbers)
         /\ AnswersReachTheirCall'
<1>1. KartonPortsTypeOK /\ AnswersReachTheirCall
  BY DEF KartonInv
<1>2. /\ m.type \in {"call", "return"} => m \in RpcMessages /\ m.n \in Numbers
      /\ m.type = "return" => m.of \in Conns \X Numbers
  BY MessageFacts
<1>3. running' \in [Ends -> SUBSET (Conns \X Numbers)]
  <2>1. CASE m.type = "call"
    BY <1>1, <1>2, <2>1 DEF handleMessage, KartonPortsTypeOK
  <2>2. CASE m.type # "call"
    BY <1>1, <2>2 DEF handleMessage, KartonPortsTypeOK
  <2> QED
    BY <2>1, <2>2
<1>4. CASE m.type = "return" /\ m.n \in pending[e][k]
  <2>1. pending' = [pending EXCEPT ![e][k] = @ \ {m.n}] /\ settled' = settled \cup {<<e, k, m.n, m.of>>}
    BY <1>4 DEF handleMessage
  <2>2. /\ pending' \in [Ends -> [Conns -> SUBSET Numbers]]
        /\ \A j \in Conns : pending'["server"][j] \subseteq pending["server"][j]
    BY <1>1, <2>1 DEF KartonPortsTypeOK, Ends
  <2>3. settled' \subseteq Ends \X Conns \X Numbers \X (Conns \X Numbers)
    BY <1>1, <1>2, <1>4, <2>1 DEF KartonPortsTypeOK
  <2>4. AnswersReachTheirCall'
    BY <1>1, <1>4, <2>1 DEF AnswersReachTheirCall
  <2> QED
    BY <1>3, <2>2, <2>3, <2>4
<1>5. CASE ~(m.type = "return" /\ m.n \in pending[e][k])
  <2>1. pending' = pending /\ settled' = settled
    BY <1>5 DEF handleMessage
  <2> QED
    BY <1>1, <1>3, <2>1 DEF KartonPortsTypeOK, AnswersReachTheirCall
<1> QED
  BY <1>4, <1>5

\* A message reaches the server.
LEMMA ServerReceivesKeeps ==
  ASSUME KartonInv, NEW k \in Conns, serverReceives(k)
  PROVE  KartonInv'
<1> DEFINE m == Head(up[k])
<1>1. KartonPortsTypeOK
  BY DEF KartonInv
<1>2. /\ up[k] # <<>> /\ up' = [up EXCEPT ![k] = Tail(@)] /\ handleMessage("server", k, m)
      /\ UNCHANGED <<serverVars, called, down, page, view, fails>>
  BY DEF serverReceives
<1>3. up[k] \in Seq(RpcMessages) /\ Named(up[k], k)
  BY OneConn
<1>4. m \in RpcMessages /\ (m.type = "return" => m.of = <<k, m.n>>) /\ Named(Tail(up[k]), k)
  BY <1>2, <1>3, NamedHead
<1>5. Tail(up[k]) \in Seq(RpcMessages)
  BY <1>2, <1>3
<1> HIDE DEF m
<1>6. /\ running' \in [Ends -> SUBSET (Conns \X Numbers)]
      /\ pending' \in [Ends -> [Conns -> SUBSET Numbers]]
      /\ \A j \in Conns : pending'["server"][j] \subseteq pending["server"][j]
      /\ settled' \subseteq Ends \X Conns \X Numbers \X (Conns \X Numbers)
      /\ AnswersReachTheirCall'
  <2>1. "server" \in Ends
    BY DEF Ends
  <2> QED
    BY <1>2, <1>4, <2>1, HandleMessage
<1>7. up' \in [Conns -> Seq(RpcMessages)] /\ \A j \in Conns : up'[j] = IF j = k THEN Tail(up[k]) ELSE up[j]
  BY <1>1, <1>2, <1>5 DEF KartonPortsTypeOK
<1>8. \A j \in Conns : Copy(j)' /\ Named(down'[j], j) /\ Named(up'[j], j)
  BY <1>2, <1>4, <1>7, OneConn, CopyKept DEF serverVars
<1> QED
  BY <1>1, <1>2, <1>6, <1>7, <1>8, RpcStep DEF KartonPortsTypeOK

\* A message reaches the page: the state, a patch, a call or an answer.
LEMMA PageReceivesKeeps ==
  ASSUME KartonInv, NEW k \in Conns, pageReceives(k)
  PROVE  KartonInv'
<1> DEFINE m == Head(down[k])
           w == CASE m.type = "sync"  -> FullState(m.rev)
                  [] m.type = "patch" -> Append(view[k], m.rev)
                  [] OTHER            -> view[k]
<1>1. KartonPortsTypeOK
  BY DEF KartonInv
<1>2. /\ page[k] \in {"waiting", "ready"} /\ down[k] # <<>> /\ down' = [down EXCEPT ![k] = Tail(@)]
      /\ page' = [page EXCEPT ![k] = "ready"] /\ handleMessage("page", k, m)
      /\ UNCHANGED <<serverVars, called, up, fails>>
  BY DEF pageReceives
<1>3. view' = [view EXCEPT ![k] = w]
  BY DEF pageReceives
<1>4. down[k] \in Seq(StateMessages \cup RpcMessages) /\ Named(down[k], k) /\ Copy(k)
  BY OneConn
<1>5. /\ m \in StateMessages \cup RpcMessages /\ (m.type = "return" => m.of = <<k, m.n>>)
      /\ Named(Tail(down[k]), k)
  BY <1>2, <1>4, NamedHead
<1>6. Tail(down[k]) \in Seq(StateMessages \cup RpcMessages)
  BY <1>2, <1>4
<1>7. /\ running' \in [Ends -> SUBSET (Conns \X Numbers)]
      /\ pending' \in [Ends -> [Conns -> SUBSET Numbers]]
      /\ \A j \in Conns : pending'["server"][j] \subseteq pending["server"][j]
      /\ settled' \subseteq Ends \X Conns \X Numbers \X (Conns \X Numbers)
      /\ AnswersReachTheirCall'
  <2>1. "page" \in Ends
    BY DEF Ends
  <2> HIDE DEF m
  <2> QED
    BY <1>2, <1>5, <2>1, HandleMessage
<1>8. /\ down' \in [Conns -> Seq(StateMessages \cup RpcMessages)] /\ down'[k] = Tail(down[k])
      /\ \A j \in Conns \ {k} : down'[j] = down[j]
  BY <1>1, <1>2, <1>6 DEF KartonPortsTypeOK
<1>9. /\ page' \in [Conns -> {"none", "waiting", "ready", "gone"}] /\ page'[k] = "ready"
      /\ \A j \in Conns \ {k} : page'[j] = page[j]
  BY <1>1, <1>2 DEF KartonPortsTypeOK
<1>10. view'[k] = w /\ \A j \in Conns \ {k} : view'[j] = view[j]
  <2> HIDE DEF w
  <2> QED
    BY <1>1, <1>3 DEF KartonPortsTypeOK
<1>11. state' = state /\ open' = open
  BY <1>2 DEF serverVars
<1>12. Copy(k)' /\ view'[k] \in Seq(1..MaxRevision)
  BY <1>1, <1>2, <1>4, <1>8, <1>10, <1>11, CopyTaken
<1> HIDE DEF w, m
<1>13. view' \in [Conns -> Seq(1..MaxRevision)]
  BY <1>1, <1>3, <1>10, <1>12 DEF KartonPortsTypeOK
<1>14. ASSUME NEW j \in Conns
       PROVE  /\ page[j] = "none" <=> page'[j] = "none"
              /\ page[j] = "none" => down'[j] = down[j] /\ view'[j] = view[j]
              /\ Copy(j)' /\ Named(down'[j], j) /\ Named(up'[j], j)
  <2>1. Named(down[j], j) /\ Named(up'[j], j) /\ Copy(j)
    BY <1>2, OneConn
  <2>2. CASE j = k
    BY <1>2, <1>5, <1>8, <1>9, <1>12, <2>1, <2>2
  <2>3. CASE j # k
    BY <1>8, <1>9, <1>10, <1>11, <2>1, <2>3, CopyKept
  <2> QED
    BY <2>2, <2>3
<1> QED
  BY <1>1, <1>2, <1>7, <1>8, <1>9, <1>13, <1>14, RpcStep DEF KartonPortsTypeOK

\* A handler of the main process ends: the answer goes to the transport that
\* brought the call, while it is open.
LEMMA ServerRepliesKeeps ==
  ASSUME KartonInv, NEW k \in Conns, NEW n \in Numbers, serverReplies(k, n)
  PROVE  KartonInv'
<1> DEFINE m == ReturnMessage(k, n)
           ks == {j \in {k} \cap open : page[j] # "gone"}
<1>1. KartonPortsTypeOK
  BY DEF KartonInv
<1>2. /\ running' = [running EXCEPT !["server"] = @ \ {<<k, n>>}]
      /\ down' = [j \in Conns |-> IF j \in ReplyTo(k) /\ page[j] # "gone"
                                    THEN Append(down[j], m) ELSE down[j]]
      /\ UNCHANGED <<serverVars, called, pending, settled, up, page, view, fails>>
  BY DEF serverReplies
<1>3. m \in RpcMessages /\ m.of = <<k, m.n>>
  BY MessageFacts DEF ReturnMessage
<1> HIDE DEF m
<1>4. down' = [j \in Conns |-> IF j \in ks THEN Append(down[j], m) ELSE down[j]]
  BY <1>2 DEF ReplyTo
<1>5. ks \in SUBSET open /\ \A j \in ks : page[j] # "gone" /\ m.of = <<j, m.n>>
  BY <1>3
<1> HIDE DEF ks
<1>6. /\ down' \in [Conns -> Seq(StateMessages \cup RpcMessages)]
      /\ \A j \in Conns : /\ Copy(j)' /\ Named(down'[j], j)
                          /\ page[j] = "none" => down'[j] = down[j] /\ view'[j] = view[j]
  BY <1>2, <1>3, <1>4, <1>5, PostedDown
<1>7. running' \in [Ends -> SUBSET (Conns \X Numbers)]
  BY <1>1, <1>2 DEF KartonPortsTypeOK
<1>8. AnswersReachTheirCall' /\ \A j \in Conns : Named(up'[j], j)
  BY <1>2, OneConn DEF KartonInv, AnswersReachTheirCall
<1> QED
  BY <1>1, <1>2, <1>6, <1>7, <1>8, RpcStep DEF KartonPortsTypeOK

\* A handler of a page ends.
LEMMA PageRepliesKeeps ==
  ASSUME KartonInv, NEW k \in Conns, NEW n \in Numbers, pageReplies(k, n)
  PROVE  KartonInv'
<1> DEFINE m == ReturnMessage(k, n)
<1>1. KartonPortsTypeOK
  BY DEF KartonInv
<1>2. /\ running' = [running EXCEPT !["page"] = @ \ {<<k, n>>}]
      /\ up' = IF k \in open THEN [up EXCEPT ![k] = Append(@, m)] ELSE up
      /\ UNCHANGED <<serverVars, called, pending, settled, down, page, view, fails>>
  BY DEF pageReplies
<1>3. m \in RpcMessages /\ m.of = <<k, m.n>>
  BY MessageFacts DEF ReturnMessage
<1> HIDE DEF m
<1>4. up[k] \in Seq(RpcMessages) /\ Named(up[k], k)
  BY OneConn
<1>5. Append(up[k], m) \in Seq(RpcMessages) /\ Named(Append(up[k], m), k)
  BY <1>3, <1>4, NamedWires
<1>6. /\ up' \in [Conns -> Seq(RpcMessages)]
      /\ \A j \in Conns : up'[j] = up[j] \/ (j = k /\ up'[j] = Append(up[k], m))
  BY <1>1, <1>2, <1>5 DEF KartonPortsTypeOK
<1>7. running' \in [Ends -> SUBSET (Conns \X Numbers)]
  BY <1>1, <1>2 DEF KartonPortsTypeOK
<1>8. \A j \in Conns : Copy(j)' /\ Named(down'[j], j) /\ Named(up'[j], j)
  BY <1>2, <1>5, <1>6, OneConn, CopyKept DEF serverVars
<1>9. AnswersReachTheirCall'
  BY <1>2 DEF KartonInv, AnswersReachTheirCall
<1> QED
  BY <1>1, <1>2, <1>6, <1>7, <1>8, <1>9, RpcStep DEF KartonPortsTypeOK

\* A change: the patch is under way to every open page, and posts that throw
\* close their connection.
LEMMA SetStateKeeps ==
  ASSUME KartonInv, NEW thrown \in SUBSET Conns, setState(thrown)
  PROVE  KartonInv'
<1> DEFINE targets == {k \in Conns : k \in open /\ clients[k[1]] = k}
           m == Patch(state + 1)
<1>1. KartonPortsTypeOK /\ OpenConnectionsAreCurrent
  BY DEF KartonInv
<1>2. /\ state < MaxRevision /\ fails + Cardinality(thrown) <= MaxSendFails
      /\ thrown \subseteq targets /\ state' = state + 1 /\ triggerClose(thrown)
      /\ down' = [k \in Conns |-> IF k \in targets \ thrown /\ page[k] # "gone"
                                    THEN Append(down[k], m) ELSE down[k]]
      /\ fails' = fails + Cardinality(thrown)
      /\ UNCHANGED <<ports, hooked, called, running, settled, page, view>>
  BY DEF setState
<1>3. targets = open
  BY <1>1 DEF KartonPortsTypeOK, OpenConnectionsAreCurrent
<1>4. /\ open' \subseteq open /\ open' = open \ thrown
      /\ connections' \in [Ids -> Conns \cup {NoConn}] /\ clients' \in [Ids -> Conns \cup {NoConn}]
      /\ pending' \in [Ends -> [Conns -> SUBSET Numbers]]
      /\ up' \in [Conns -> Seq(RpcMessages)] /\ \A k \in Conns : up'[k] \in {<<>>, up[k]}
      /\ MapsAgree' /\ OpenConnectionsAreCurrent' /\ NothingWaitsOnClosed'
  <2>1. open' = open \ thrown
    BY <1>2 DEF triggerClose
  <2> QED
    BY <1>2, <2>1, TriggerClose
<1> HIDE DEF targets
<1>5. state + 1 \in 1..MaxRevision /\ state' \in 0..MaxRevision
  BY <1>1, <1>2, KartonPortsAssumption DEF KartonPortsTypeOK
<1>6. m \in StateMessages /\ m.type = "patch"
  BY <1>5, MessageFacts DEF Patch
<1>7. fails' \in 0..MaxSendFails
  <2>1. IsFiniteSet(Conns)
    <3>1. IsFiniteSet(1..MaxPorts)
      BY KartonPortsAssumption, FS_Interval
    <3> QED
      BY <3>1, KartonPortsAssumption, FS_Product DEF Conns
  <2>2. Cardinality(thrown) \in Nat
    BY <2>1, FS_Subset, FS_CardinalityType
  <2> QED
    BY <1>1, <1>2, <2>2, KartonPortsAssumption DEF KartonPortsTypeOK
<1>8. ASSUME NEW k \in Conns
      PROVE  /\ down'[k] \in Seq(StateMessages \cup RpcMessages)
             /\ Copy(k)' /\ Named(down'[k], k) /\ Named(up'[k], k)
             /\ page[k] = "none" => down'[k] = down[k]
  <2>1. /\ down[k] \in Seq(StateMessages \cup RpcMessages) /\ Copy(k) /\ Named(down[k], k)
        /\ Named(up[k], k) /\ up[k] \in Seq(RpcMessages)
        /\ page[k] = "none" => k \notin open
    BY OneConn
  <2>2. Named(up'[k], k)
    BY <1>4, <2>1, NamedWires
  <2>3. CASE k \in open \ thrown /\ page[k] # "gone"
    <3>1. down'[k] = Append(down[k], m) /\ page'[k] = page[k] /\ view'[k] = view[k]
      BY <1>2, <1>3, <2>3
    <3>2. Copy(k)'
      BY <1>1, <1>2, <1>5, <1>6, <2>1, <2>3, <3>1, CopyExtended
    <3>3. Named(Append(down[k], m), k)
      BY <1>6, <2>1, NamedWires
    <3>4. Append(down[k], m) \in Seq(StateMessages \cup RpcMessages)
      BY <1>6, <2>1
    <3> QED
      BY <2>1, <2>2, <2>3, <3>1, <3>2, <3>3, <3>4
  <2>4. CASE ~(k \in open \ thrown /\ page[k] # "gone")
    <3>1. down'[k] = down[k] /\ page'[k] = page[k] /\ view'[k] = view[k]
      BY <1>2, <1>3, <2>4
    <3>2. Copy(k)'
      <4>1. CASE page[k] = "gone"
        BY <3>1, <4>1 DEF Copy
      <4>2. CASE page[k] # "gone"
        BY <1>4, <2>1, <2>4, <3>1, <4>2, CopyKept
      <4> QED
        BY <4>1, <4>2
    <3> QED
      BY <2>1, <2>2, <3>1, <3>2
  <2> QED
    BY <2>3, <2>4
<1>9. down' \in [Conns -> Seq(StateMessages \cup RpcMessages)]
  BY <1>2, <1>8
<1>10. KartonPortsTypeOK'
  BY <1>1, <1>2, <1>4, <1>5, <1>7, <1>9 DEF KartonPortsTypeOK
<1>11. PortsInOrder'
  <2>1. ASSUME NEW k \in Conns
        PROVE  /\ k[2] > ports[k[1]] => page[k] = "none" /\ k \notin hooked
               /\ page[k] = "none" => down'[k] = <<>> /\ view[k] = <<>> /\ k \notin open'
    BY <1>4, <1>8, OneConn
  <2> QED
    BY <1>2, <2>1 DEF PortsInOrder
<1>12. AnswersReachTheirCall'
  BY <1>2 DEF KartonInv, AnswersReachTheirCall
<1>13. AnswersNameTheirCall' /\ \A k \in Conns : Copy(k)'
  BY <1>8 DEF AnswersNameTheirCall, Named
<1> QED
  BY <1>4, <1>10, <1>11, <1>12, <1>13, PartsOfInv

\* The copy of a page that has just been given its port.
LEMMA CopyBegins ==
  ASSUME state \in 0..MaxRevision, state' = state, NEW k \in Conns, view'[k] = <<>>,
         \/ down'[k] = <<>> /\ k \notin open'
         \/ down'[k] = <<Sync>>
  PROVE  Copy(k)'
<1>1. FullState(0) = <<>> /\ 0 \in 0..MaxRevision
  <2>1. FullState(0) \in [1..0 -> Nat]
    BY DEF FullState
  <2>2. FullState(0) \in Seq(Nat) /\ Len(FullState(0)) = 0
    BY <2>1
  <2> QED
    BY <2>2, KartonPortsAssumption
<1>2. CASE down'[k] = <<>> /\ k \notin open'
  <2>1. PICK g \in [0..0 -> 0..MaxRevision] : g[0] = 0
    <3>1. [p \in 0..0 |-> 0] \in [0..0 -> 0..MaxRevision] /\ [p \in 0..0 |-> 0][0] = 0
      BY <1>1
    <3> QED
      BY <3>1
  <2>2. Len(down'[k]) = 0
    BY <1>2
  <2>3. Arrivals(k, g)'
    BY <1>1, <1>2, <2>1, <2>2 DEF Arrivals
  <2> QED
    BY <2>1, <2>2, <2>3 DEF Copy
<1>3. CASE down'[k] = <<Sync>>
  <2>1. PICK g \in [0..1 -> 0..MaxRevision] : g[0] = 0 /\ g[1] = state
    <3> DEFINE f == [p \in 0..1 |-> IF p = 0 THEN 0 ELSE state]
    <3>1. f \in [0..1 -> 0..MaxRevision] /\ f[0] = 0 /\ f[1] = state
      BY <1>1
    <3> QED
      BY <3>1
  <2>2. Len(down'[k]) = 1 /\ down'[k][1].type = "sync" /\ down'[k][1].rev = state
    BY <1>3 DEF Sync
  <2>3. \A p \in 1..1 : p = 1 /\ p - 1 = 0
    OBVIOUS
  <2>4. Arrivals(k, g)'
    BY <1>1, <2>1, <2>2, <2>3 DEF Arrivals
  <2> QED
    BY <2>1, <2>2, <2>4 DEF Copy
<1> QED
  BY <1>2, <1>3

\* The maps after a new port: the connection it replaces is out of both, the
\* new one is in both, unless the first post threw.
LEMMA SetPortMaps ==
  ASSUME KartonInv, NEW i \in Ids, NEW thrown \in BOOLEAN, setPort(i, thrown)
  PROVE  /\ MapsAgree' /\ OpenConnectionsAreCurrent' /\ NothingWaitsOnClosed'
         /\ ports' \in [Ids -> 0..MaxPorts] /\ open' \subseteq Conns /\ hooked' \subseteq Conns
         /\ connections' \in [Ids -> Conns \cup {NoConn}] /\ clients' \in [Ids -> Conns \cup {NoConn}]
         /\ pending' \in [Ends -> [Conns -> SUBSET Numbers]]
<1> DEFINE k == <<i, ports[i] + 1>>
           shut == Replaced(i) \cap open
           c == ConnectionsWithout(shut)
           d == ClientsWithout(shut)
<1>1. KartonPortsTypeOK /\ MapsAgree /\ OpenConnectionsAreCurrent
  BY DEF KartonInv
<1>2. /\ ports[i] < MaxPorts /\ ports' = [ports EXCEPT ![i] = ports[i] + 1]
      /\ open' = (open \ shut) \cup (IF thrown THEN {} ELSE {k})
      /\ connections' = [c EXCEPT ![i] = IF thrown THEN NoConn ELSE k]
      /\ clients' = [d EXCEPT ![i] = k]
      /\ hooked' = IF thrown THEN hooked ELSE hooked \cup {k}
      /\ pending' = PendingWithout(shut)
  BY DEF setPort
<1>3. ports[i] + 1 \in 1..MaxPorts /\ ports[i] \in Nat
  BY <1>1, <1>2, KartonPortsAssumption DEF KartonPortsTypeOK
<1>4. k \in Conns /\ k[1] = i /\ k[2] = ports[i] + 1 /\ k # NoConn
  BY <1>3, ConnFacts
<1>5. page[k] = "none" /\ k \notin hooked
  <2>1. k[2] > ports[k[1]]
    BY <1>3, <1>4
  <2> HIDE DEF k
  <2> QED
    BY <1>4, <2>1, OneConn
<1>6. \A j \in open \ shut : j[1] # i /\ j[1] \in Ids /\ j = Latest(j[1])
  BY <1>1, ConnFacts DEF OpenConnectionsAreCurrent, Replaced, KartonPortsTypeOK
<1>7. shut \in SUBSET open
  OBVIOUS
<1>8. /\ c \in [Ids -> Conns \cup {NoConn}] /\ d \in [Ids -> Conns \cup {NoConn}]
      /\ PendingWithout(shut) \in [Ends -> [Conns -> SUBSET Numbers]]
  BY <1>7, ClosingMaps
<1>9. /\ \A j \in Ids : /\ c[j] # NoConn => c[j] = Latest(j) /\ c[j] \in open \ shut
                        /\ d[j] # NoConn => d[j] = Latest(j)
                        /\ d[j] \in hooked => d[j] \in open \ shut
      /\ \A j \in open \ shut : c[j[1]] = j /\ d[j[1]] = j
      /\ \A j \in Conns : PendingWithout(shut)["server"][j] # {} => j \in open \ shut \/ j \notin hooked
  BY <1>7, ClosingMaps
<1>10. /\ Latest(i)' = k /\ \A j \in Ids \ {i} : Latest(j)' = Latest(j)
  BY <1>1, <1>2 DEF Latest, KartonPortsTypeOK
<1> HIDE DEF k, shut, c, d
<1>11. /\ ports' \in [Ids -> 0..MaxPorts]
  BY <1>1, <1>2, <1>3, KartonPortsAssumption DEF KartonPortsTypeOK
<1>12. /\ open' \subseteq Conns /\ hooked' \subseteq Conns
       /\ connections' \in [Ids -> Conns \cup {NoConn}] /\ clients' \in [Ids -> Conns \cup {NoConn}]
       /\ pending' \in [Ends -> [Conns -> SUBSET Numbers]]
  BY <1>1, <1>2, <1>4, <1>8 DEF KartonPortsTypeOK
<1>13. /\ connections'[i] = (IF thrown THEN NoConn ELSE k) /\ clients'[i] = k
       /\ \A j \in Ids \ {i} : connections'[j] = c[j] /\ clients'[j] = d[j]
  BY <1>2, <1>8
<1>14. \A j \in Ids \ {i} : d[j] # k
  <2>1. \A j \in Ids : Latest(j)[1] = j
    BY DEF Latest
  <2> QED
    BY <1>4, <1>9, <2>1
<1>15. ASSUME NEW j \in Ids
       PROVE  /\ connections'[j] # NoConn => connections'[j] = Latest(j)' /\ connections'[j] \in open'
              /\ clients'[j] # NoConn => clients'[j] = Latest(j)'
              /\ clients'[j] \in hooked' => clients'[j] \in open'
  <2>1. CASE j = i
    BY <1>2, <1>5, <1>10, <1>13, <2>1
  <2>2. CASE j # i
    BY <1>2, <1>9, <1>10, <1>13, <1>14, <2>2
  <2> QED
    BY <2>1, <2>2
<1>16. open' \subseteq hooked'
  BY <1>1, <1>2 DEF MapsAgree
<1>17. MapsAgree'
  BY <1>15, <1>16 DEF MapsAgree
<1>18. ASSUME NEW j \in open'
       PROVE  j = Latest(j[1])' /\ connections'[j[1]] = j /\ clients'[j[1]] = j
  <2>1. CASE j \in open \ shut
    BY <1>6, <1>9, <1>10, <1>13, <2>1
  <2>2. CASE j = k /\ ~thrown
    BY <1>4, <1>10, <1>13, <2>2
  <2> QED
    BY <1>2, <2>1, <2>2
<1>19. OpenConnectionsAreCurrent'
  BY <1>18 DEF OpenConnectionsAreCurrent
<1>20. NothingWaitsOnClosed'
  BY <1>2, <1>9 DEF NothingWaitsOnClosed
<1> QED
  BY <1>11, <1>12, <1>17, <1>19, <1>20

\* A page gets its port: the full state is the first message under way to it.
LEMMA SetPortKeeps ==
  ASSUME KartonInv, NEW i \in Ids, NEW thrown \in BOOLEAN, setPort(i, thrown)
  PROVE  KartonInv'
<1> DEFINE k == <<i, ports[i] + 1>>
           shut == Replaced(i) \cap open
<1>1. KartonPortsTypeOK
  BY DEF KartonInv
<1>2. /\ ports[i] < MaxPorts /\ ports' = [ports EXCEPT ![i] = ports[i] + 1]
      /\ open' = (open \ shut) \cup (IF thrown THEN {} ELSE {k})
      /\ hooked' = IF thrown THEN hooked ELSE hooked \cup {k}
      /\ up' = [j \in Conns |-> IF j \in shut THEN <<>> ELSE up[j]]
      /\ down' = IF thrown THEN down ELSE [down EXCEPT ![k] = <<Sync>>]
      /\ page' = [page EXCEPT ![k] = "waiting"]
      /\ thrown => fails < MaxSendFails
      /\ fails' = IF thrown THEN fails + 1 ELSE fails
      /\ UNCHANGED <<state, called, running, settled, view>>
  BY DEF setPort
<1>3. ports[i] + 1 \in 1..MaxPorts /\ ports[i] \in Nat
  BY <1>1, <1>2, KartonPortsAssumption DEF KartonPortsTypeOK
<1>4. k \in Conns /\ k[1] = i /\ k[2] = ports[i] + 1
  BY <1>3, ConnFacts
<1> HIDE DEF k, shut
<1>5. page[k] = "none" /\ k \notin hooked /\ down[k] = <<>> /\ view[k] = <<>> /\ k \notin open
  BY <1>3, <1>4, OneConn
<1>6. /\ MapsAgree' /\ OpenConnectionsAreCurrent' /\ NothingWaitsOnClosed'
      /\ ports' \in [Ids -> 0..MaxPorts] /\ open' \subseteq Conns /\ hooked' \subseteq Conns
      /\ connections' \in [Ids -> Conns \cup {NoConn}] /\ clients' \in [Ids -> Conns \cup {NoConn}]
      /\ pending' \in [Ends -> [Conns -> SUBSET Numbers]]
  BY SetPortMaps
<1>7. Sync \in StateMessages /\ Sync.type = "sync" /\ state \in 0..MaxRevision
  BY <1>1, MessageFacts DEF Sync, KartonPortsTypeOK
<1>8. <<Sync>> \in Seq(StateMessages \cup RpcMessages) /\ Named(<<Sync>>, k)
  <2>1. <<Sync>> \in Seq(StateMessages \cup RpcMessages) /\ Len(<<Sync>>) = 1 /\ <<Sync>>[1] = Sync
    BY <1>7
  <2>2. \A p \in 1..1 : p = 1
    OBVIOUS
  <2> QED
    BY <1>7, <2>1, <2>2 DEF Named
<1>9. /\ down' \in [Conns -> Seq(StateMessages \cup RpcMessages)]
      /\ down'[k] = (IF thrown THEN <<>> ELSE <<Sync>>)
      /\ \A j \in Conns \ {k} : down'[j] = down[j]
  <2> HIDE DEF Sync
  <2> QED
    BY <1>1, <1>2, <1>4, <1>5, <1>8 DEF KartonPortsTypeOK
<1>10. /\ page' \in [Conns -> {"none", "waiting", "ready", "gone"}] /\ page'[k] = "waiting"
       /\ \A j \in Conns \ {k} : page'[j] = page[j]
  BY <1>1, <1>2, <1>4 DEF KartonPortsTypeOK
<1>11. up' \in [Conns -> Seq(RpcMessages)] /\ \A j \in Conns : up'[j] \in {<<>>, up[j]}
  <2>1. <<>> \in Seq(RpcMessages)
    OBVIOUS
  <2> QED
    BY <1>1, <1>2, <2>1 DEF KartonPortsTypeOK
<1>12. fails' \in 0..MaxSendFails
  BY <1>1, <1>2, KartonPortsAssumption DEF KartonPortsTypeOK
<1>13. KartonPortsTypeOK'
  BY <1>1, <1>2, <1>6, <1>9, <1>10, <1>11, <1>12 DEF KartonPortsTypeOK
<1>14. ASSUME NEW j \in Conns PROVE Copy(j)' /\ Named(down'[j], j) /\ Named(up'[j], j)
  <2>1. Copy(j) /\ Named(down[j], j) /\ Named(up[j], j) /\ up[j] \in Seq(RpcMessages)
    BY OneConn
  <2>2. Named(up'[j], j)
    BY <1>11, <2>1, NamedWires
  <2>3. CASE j = k
    <3>1. view'[j] = <<>> /\ (thrown => j \notin open') /\ state' = state
      BY <1>2, <1>5, <2>3
    <3>2. \/ down'[j] = <<>> /\ j \notin open'
          \/ down'[j] = <<Sync>>
      BY <1>9, <2>3, <3>1
    <3>3. Copy(j)'
      BY <1>7, <3>1, <3>2, CopyBegins
    <3>4. Named(down'[j], j)
      BY <1>5, <1>8, <1>9, <2>1, <2>3
    <3> QED
      BY <2>2, <3>3, <3>4
  <2>4. CASE j # k
    <3>1. Copy(j)'
      BY <1>2, <1>9, <1>10, <2>1, <2>4, CopyKept
    <3> QED
      BY <1>9, <2>1, <2>2, <2>4, <3>1
  <2> QED
    BY <2>3, <2>4
<1>15. PortsInOrder'
  <2>1. ASSUME NEW j \in Conns
        PROVE  /\ j[2] > ports'[j[1]] => page'[j] = "none" /\ j \notin hooked'
               /\ page'[j] = "none" => down'[j] = <<>> /\ view'[j] = <<>> /\ j \notin open'
    <3>1. j[2] \in Nat /\ j[1] \in Ids /\ ports[j[1]] \in Nat
      BY <1>1, ConnFacts, KartonPortsAssumption DEF KartonPortsTypeOK
    <3>2. ports'[j[1]] = IF j[1] = i THEN ports[i] + 1 ELSE ports[j[1]]
      BY <1>1, <1>2, <3>1 DEF KartonPortsTypeOK
    <3>3. j[2] > ports'[j[1]] => j # k /\ j[2] > ports[j[1]]
      BY <1>3, <1>4, <3>1, <3>2
    <3> QED
      BY <1>2, <1>9, <1>10, <3>3, OneConn
  <2> QED
    BY <2>1 DEF PortsInOrder
<1>16. AnswersReachTheirCall'
  BY <1>2 DEF KartonInv, AnswersReachTheirCall
<1>17. AnswersNameTheirCall'
  BY <1>14 DEF AnswersNameTheirCall, Named
<1> QED
  BY <1>6, <1>13, <1>14, <1>15, <1>16, <1>17, PartsOfInv

---------------------------------------------------------------------------
\* The invariant of the specification.

\* Nothing is connected, under way or called.
LEMMA KartonInitInv ==
  ASSUME Init
  PROVE  KartonInv
<1>1. <<>> \in Seq(StateMessages \cup RpcMessages) /\ <<>> \in Seq(RpcMessages) /\ <<>> \in Seq(1..MaxRevision)
  OBVIOUS
<1>2. KartonPortsTypeOK
  BY <1>1, KartonPortsAssumption DEF Init, KartonPortsTypeOK
<1>3. PortsInOrder /\ MapsAgree /\ OpenConnectionsAreCurrent
  BY ConnFacts DEF Init, PortsInOrder, MapsAgree, OpenConnectionsAreCurrent
<1>4. AnswersNameTheirCall
  BY DEF Init, AnswersNameTheirCall, Named
<1>5. CopiesInStep
  BY DEF Init, CopiesInStep
<1>6. AnswersReachTheirCall /\ NothingWaitsOnClosed
  BY DEF Init, AnswersReachTheirCall, NothingWaitsOnClosed, Ends
<1> QED
  BY <1>2, <1>3, <1>4, <1>5, <1>6 DEF KartonInv

\* Every step keeps the invariant.
LEMMA KartonNextInv ==
  ASSUME KartonInv, [Next]_vars
  PROVE  KartonInv'
<1>1. ASSUME NEW i \in Ids, closeConnection(i) PROVE KartonInv'
  BY <1>1, CloseKeeps DEF closeConnection
<1>2. ASSUME NEW k \in Conns, portClosed(k) PROVE KartonInv'
  BY <1>2, CloseKeeps DEF portClosed
<1>3. CASE UNCHANGED vars
  <2>1. /\ UNCHANGED <<state, ports, open, connections, clients, hooked, down, up, page, view>>
        /\ UNCHANGED <<called, pending, running, settled, fails>>
    BY <1>3 DEF vars, serverVars, rpcVars
  <2>2. KartonPortsTypeOK' /\ PortsInOrder'
    BY <2>1 DEF KartonInv, KartonPortsTypeOK, PortsInOrder
  <2>3. MapsAgree' /\ OpenConnectionsAreCurrent' /\ NothingWaitsOnClosed'
    BY <2>1, MapsKept DEF serverVars
  <2>4. AnswersNameTheirCall' /\ AnswersReachTheirCall'
    BY <2>1 DEF KartonInv, AnswersNameTheirCall, AnswersReachTheirCall, Named
  <2>5. \A k \in Conns : Copy(k)'
    BY <2>1, OneConn, CopyKept
  <2> QED
    BY <2>2, <2>3, <2>4, <2>5, PartsOfInv
<1> QED
  BY <1>1, <1>2, <1>3, SetPortKeeps, CallClientKeeps, SetStateKeeps, PageGoneKeeps, CallServerKeeps,
     ServerReceivesKeeps, PageReceivesKeeps, ServerRepliesKeeps, PageRepliesKeeps, TimeoutKeeps DEF Next

\* The inductive invariant holds whatever pages, ports and handlers do.
THEOREM KartonInvariant == Spec => []KartonInv
<1>1. Init => KartonInv
  BY KartonInitInv
<1>2. KartonInv /\ [Next]_vars => KartonInv'
  BY KartonNextInv
<1> QED
  BY <1>1, <1>2, PTL DEF Spec

\* Types: the maps, the wires, the copies and the calls stay well formed.
THEOREM KartonTypeCorrect == Spec => []KartonPortsTypeOK
<1>1. KartonInv => KartonPortsTypeOK
  BY DEF KartonInv
<1> QED
  BY <1>1, KartonInvariant, PTL

\* handleMessage: an answer settles the call it answers, although successive
\* pages under one id number their calls alike.
THEOREM AnswersAreTheirs == Spec => []AnswersReachTheirCall
<1>1. KartonInv => AnswersReachTheirCall
  BY DEF KartonInv
<1> QED
  BY <1>1, KartonInvariant, PTL

\* setPort and the close handlers: an open connection is the last one of its
\* id, in both maps.
THEOREM OpenAreCurrent == Spec => []OpenConnectionsAreCurrent
<1>1. KartonInv => OpenConnectionsAreCurrent
  BY DEF KartonInv
<1> QED
  BY <1>1, KartonInvariant, PTL

\* cleanup: no call of the main process waits on a connection that closed
\* after it was set up.
THEOREM NoneWaitsOnClosed == Spec => []NothingWaitsOnClosed
<1>1. KartonInv => NothingWaitsOnClosed
  BY DEF KartonInv
<1> QED
  BY <1>1, KartonInvariant, PTL

\* Patches arrive in order, each on the revision it was made for, and take an
\* open page to the server's state; one with nothing under way has it.
THEOREM PagesAreCurrent == Spec => [](PagesConverge /\ QuietPagesAreCurrent)
<1>1. KartonInv => PagesConverge /\ QuietPagesAreCurrent
  <2> SUFFICES ASSUME KartonInv, NEW k \in open, page[k] # "gone"
               PROVE  /\ \E g \in [0..Len(down[k]) -> 0..MaxRevision] : Arrivals(k, g)
                      /\ down[k] = <<>> => view[k] = FullState(state)
    BY DEF PagesConverge, QuietPagesAreCurrent
  <2>1. k \in Conns /\ page[k] \in {"waiting", "ready"}
    BY OneConn DEF KartonInv, KartonPortsTypeOK, PortsInOrder
  <2>2. PICK g \in [0..Len(down[k]) -> 0..MaxRevision] : Arrivals(k, g)
    BY <2>1 DEF KartonInv, CopiesInStep
  <2>3. ASSUME down[k] = <<>> PROVE view[k] = FullState(state)
    <3>1. Len(down[k]) = 0
      BY <2>3
    <3> QED
      BY <2>2, <3>1 DEF Arrivals
  <2> QED
    BY <2>2, <2>3
<1> QED
  BY <1>1, KartonInvariant, PTL
=============================================================================
