--------------------------- MODULE AgentHostProofs ---------------------------
(***************************************************************************)
(* Proofs about AgentHost, for any finite set of turns and any bounds on   *)
(* calls, restarts, windows, crashes and changes of the summaries.         *)
(***************************************************************************)
EXTENDS AgentHost, FiniteSetTheorems, TLAPS

-----------------------------------------------------------------------------
\* Constants and messages.

LEMMA BoundsAreNumbers ==
  /\ MaxCalls \in Nat /\ MaxRestarts \in Nat /\ MaxWindows \in Nat
  /\ MaxCrashes \in Nat /\ MaxRevision \in Nat
  /\ MaxLaunches \in Nat \ {0}
<1>1. /\ MaxCalls \in Nat /\ MaxRestarts \in Nat /\ MaxWindows \in Nat
      /\ MaxCrashes \in Nat /\ MaxRevision \in Nat
  BY AgentHostAssumption
<1>2. MaxRestarts * (MaxWindows + 1) \in Nat
  BY <1>1
<1> QED
  BY <1>1, <1>2 DEF MaxLaunches

\* What the main process sends.
LEMMA MessagesToWorker ==
  /\ Initialize \in ToWorker /\ Initialize.type = "initialize"
  /\ Shutdown \in ToWorker /\ Shutdown.type = "shutdown"
  /\ \A r \in 0..MaxRevision : /\ SyncState(r) \in ToWorker /\ SyncState(r).rev = r
                               /\ SyncState(r).type = "sync-runtime-state"
  /\ \A t \in Turns : /\ Execute(t) \in ToWorker /\ Execute(t).type = "execute-agent-turn"
                      /\ Execute(t).turn = t
                      /\ Cancel(t) \in ToWorker /\ Cancel(t).type = "cancel-agent-turn"
                      /\ Cancel(t).turn = t
  /\ \A c \in Calls, kind \in {"call-complete", "call-error"} :
        CallAnswer(c, kind) \in ToWorker /\ CallAnswer(c, kind).type = kind
<1>1. /\ Initialize \in ToWorker /\ Shutdown \in ToWorker
      /\ \A r \in 0..MaxRevision : SyncState(r) \in ToWorker
      /\ \A t \in Turns : Execute(t) \in ToWorker /\ Cancel(t) \in ToWorker
  BY DEF ToWorker
<1>2. ASSUME NEW c \in Calls, NEW kind \in {"call-complete", "call-error"}
      PROVE  CallAnswer(c, kind) \in ToWorker /\ CallAnswer(c, kind).type = kind
  <2>1. CallAnswer(c, kind) \in {CallAnswer(d, k) : d \in Calls, k \in {"call-complete", "call-error"}}
    OBVIOUS
  <2> QED
    BY <2>1 DEF ToWorker, CallAnswer
<1> QED
  BY <1>1, <1>2 DEF Initialize, Shutdown, SyncState, Execute, Cancel

\* What a worker receives.
LEMMA ReceivedByWorker ==
  ASSUME NEW m \in ToWorker
  PROVE  /\ m.type \in {"initialize", "shutdown", "sync-runtime-state", "execute-agent-turn",
                        "cancel-agent-turn", "call-complete", "call-error"}
         /\ m.type = "sync-runtime-state" => m.rev \in 0..MaxRevision
         /\ m.type = "execute-agent-turn" => m.turn \in Turns /\ m = Execute(m.turn)
         /\ m.type = "cancel-agent-turn" => m.turn \in Turns
         /\ m.type \in {"call-complete", "call-error"} => m.call \in Calls
  BY DEF ToWorker, Initialize, Shutdown, SyncState, Execute, Cancel, CallAnswer

\* What a worker sends, and what the supervisor receives.
LEMMA MessagesFromWorker ==
  /\ Ready \in FromWorker /\ Ready.type = "ready"
  /\ \A t \in Turns, kind \in {"completed", "failed"} :
        TurnEnd(t, kind) \in FromWorker /\ TurnEnd(t, kind).type = kind
  /\ \A c \in Calls : /\ CallRequest(c) \in FromWorker /\ CallRequest(c).type = "call-request"
                      /\ CallRequest(c).call = c
<1>1. Ready \in FromWorker /\ \A c \in Calls : CallRequest(c) \in FromWorker
  BY DEF FromWorker
<1>2. ASSUME NEW t \in Turns, NEW kind \in {"completed", "failed"}
      PROVE  TurnEnd(t, kind) \in FromWorker /\ TurnEnd(t, kind).type = kind
  <2>1. TurnEnd(t, kind) \in {TurnEnd(u, k) : u \in Turns, k \in {"completed", "failed"}}
    OBVIOUS
  <2> QED
    BY <2>1 DEF FromWorker, TurnEnd
<1> QED
  BY <1>1, <1>2 DEF Ready, CallRequest

LEMMA ReceivedBySupervisor ==
  ASSUME NEW m \in FromWorker
  PROVE  /\ m.type \in {"ready", "completed", "failed", "call-request"}
         /\ m.type \in {"completed", "failed"} => m.turn \in Turns
         /\ m.type = "call-request" => m.call \in Calls /\ m = CallRequest(m.call)
  BY DEF FromWorker, Ready, TurnEnd, CallRequest

-----------------------------------------------------------------------------
\* Queues.

\* Posting messages other than m.
LEMMA QueuePosted ==
  ASSUME NEW S, NEW q \in [Launches -> Seq(S)], NEW l \in Launches, NEW ms \in Seq(S),
         NEW m, \A i \in 1..Len(ms) : ms[i] # m,
         NEW r, r = [q EXCEPT ![l] = @ \o ms]
  PROVE  /\ r \in [Launches -> Seq(S)]
         /\ UnderWay(r, m) => UnderWay(q, m)
         /\ AtMostOnce(q, m) => AtMostOnce(r, m)
<1>1. /\ r \in [Launches -> Seq(S)] /\ r[l] = q[l] \o ms
      /\ \A k \in Launches : k # l => r[k] = q[k]
  OBVIOUS
<1>2. /\ Len(r[l]) = Len(q[l]) + Len(ms) /\ Len(q[l]) \in Nat /\ Len(ms) \in Nat
      /\ \A p \in 1..Len(r[l]) : r[l][p] = IF p <= Len(q[l]) THEN q[l][p] ELSE ms[p - Len(q[l])]
  BY <1>1
<1>3. \A p \in 1..Len(r[l]) : r[l][p] = m => p \in 1..Len(q[l]) /\ q[l][p] = m
  BY <1>2
<1>4. \A k \in Launches : \A p \in 1..Len(r[k]) : r[k][p] = m => p \in 1..Len(q[k]) /\ q[k][p] = m
  BY <1>1, <1>3
<1>5. UnderWay(r, m) => UnderWay(q, m)
  BY <1>4 DEF UnderWay
<1>6. AtMostOnce(q, m) => AtMostOnce(r, m)
  BY <1>4 DEF AtMostOnce
<1> QED
  BY <1>1, <1>5, <1>6

\* One message is appended.
Appended(q, l, x) == [q EXCEPT ![l] = Append(@, x)]

LEMMA QueueAppended ==
  ASSUME NEW S, NEW q \in [Launches -> Seq(S)], NEW l \in Launches, NEW x \in S,
         NEW m, x # m, NEW r, r = Appended(q, l, x)
  PROVE  /\ r \in [Launches -> Seq(S)]
         /\ UnderWay(r, m) => UnderWay(q, m)
         /\ AtMostOnce(q, m) => AtMostOnce(r, m)
<1>1. /\ r \in [Launches -> Seq(S)] /\ r[l] = Append(q[l], x)
      /\ \A k \in Launches : k # l => r[k] = q[k]
  BY DEF Appended
<1>2. /\ Len(r[l]) = Len(q[l]) + 1 /\ Len(q[l]) \in Nat
      /\ \A p \in 1..Len(r[l]) : r[l][p] = IF p <= Len(q[l]) THEN q[l][p] ELSE x
  BY <1>1
<1>3. \A p \in 1..Len(r[l]) : r[l][p] = m => p \in 1..Len(q[l]) /\ q[l][p] = m
  BY <1>2
<1>4. \A k \in Launches : \A p \in 1..Len(r[k]) : r[k][p] = m => p \in 1..Len(q[k]) /\ q[k][p] = m
  BY <1>1, <1>3
<1>5. UnderWay(r, m) => UnderWay(q, m)
  BY <1>4 DEF UnderWay
<1>6. AtMostOnce(q, m) => AtMostOnce(r, m)
  BY <1>4 DEF AtMostOnce
<1> QED
  BY <1>1, <1>5, <1>6

\* Posting m when it is not under way.
LEMMA QueueGains ==
  ASSUME NEW S, NEW q \in [Launches -> Seq(S)], NEW l \in Launches, NEW m \in S,
         ~UnderWay(q, m), NEW r, r = [q EXCEPT ![l] = @ \o <<m>>]
  PROVE  AtMostOnce(r, m)
<1>1. /\ r \in [Launches -> Seq(S)] /\ r[l] = q[l] \o <<m>>
      /\ \A k \in Launches : k # l => r[k] = q[k]
  OBVIOUS
<1>2. /\ Len(r[l]) = Len(q[l]) + 1 /\ Len(q[l]) \in Nat
      /\ \A p \in 1..Len(q[l]) : r[l][p] = q[l][p]
  BY <1>1
<1>3. \A p \in 1..Len(r[l]) : r[l][p] = m => p = Len(r[l])
  BY <1>2 DEF UnderWay
<1>4. \A k \in Launches : k # l => \A p \in 1..Len(r[k]) : r[k][p] # m
  BY <1>1 DEF UnderWay
<1> QED
  BY <1>3, <1>4 DEF AtMostOnce

\* Taking the first message.
Taken(q, l) == [q EXCEPT ![l] = Tail(@)]

LEMMA QueueTaken ==
  ASSUME NEW S, NEW q \in [Launches -> Seq(S)], NEW l \in Launches, q[l] # <<>>,
         NEW m, NEW r, r = Taken(q, l)
  PROVE  /\ r \in [Launches -> Seq(S)]
         /\ Head(q[l]) \in S
         /\ Head(q[l]) = m => UnderWay(q, m)
         /\ UnderWay(r, m) => UnderWay(q, m)
         /\ AtMostOnce(q, m) => AtMostOnce(r, m)
         /\ AtMostOnce(q, m) /\ Head(q[l]) = m => ~UnderWay(r, m)
<1>1. /\ r \in [Launches -> Seq(S)] /\ r[l] = Tail(q[l]) /\ Head(q[l]) = q[l][1] /\ Head(q[l]) \in S
      /\ \A k \in Launches : k # l => r[k] = q[k]
  BY DEF Taken
<1>2. /\ Len(r[l]) = Len(q[l]) - 1 /\ Len(q[l]) \in Nat \ {0} /\ 1 \in 1..Len(q[l])
      /\ \A p \in 1..Len(r[l]) : p + 1 \in 1..Len(q[l]) /\ p + 1 # 1 /\ r[l][p] = q[l][p + 1]
  BY <1>1
<1>3. UnderWay(r, m) => UnderWay(q, m)
  BY <1>1, <1>2 DEF UnderWay, Taken
<1>4. ASSUME AtMostOnce(q, m), NEW j \in Launches, NEW k \in Launches,
             NEW p \in 1..Len(r[j]), NEW n \in 1..Len(r[k]), r[j][p] = m, r[k][n] = m
      PROVE  j = k /\ p = n
  <2>1. CASE j = l /\ k = l
    <3>1. p + 1 = n + 1
      BY <1>2, <1>4, <2>1 DEF AtMostOnce, Taken
    <3> QED
      BY <2>1, <3>1, <1>2
  <2>2. CASE j = l /\ k # l
    BY <1>1, <1>2, <1>4, <2>2 DEF AtMostOnce, Taken
  <2>3. CASE j # l /\ k = l
    BY <1>1, <1>2, <1>4, <2>3 DEF AtMostOnce, Taken
  <2>4. CASE j # l /\ k # l
    BY <1>1, <1>4, <2>4 DEF AtMostOnce
  <2> QED
    BY <2>1, <2>2, <2>3, <2>4
<1>5. AtMostOnce(q, m) => AtMostOnce(r, m)
  BY <1>4 DEF AtMostOnce
<1>6. ASSUME AtMostOnce(q, m), q[l][1] = m, NEW k \in Launches, NEW p \in 1..Len(r[k]), r[k][p] = m
      PROVE  FALSE
  <2>1. CASE k = l
    BY <1>2, <1>6, <2>1 DEF AtMostOnce
  <2>2. CASE k # l
    BY <1>1, <1>2, <1>6, <2>2 DEF AtMostOnce
  <2> QED
    BY <2>1, <2>2
<1>7. AtMostOnce(q, m) /\ Head(q[l]) = m => ~UnderWay(r, m)
  BY <1>1, <1>6 DEF UnderWay
<1>8. Head(q[l]) = m => UnderWay(q, m)
  BY <1>1, <1>2 DEF UnderWay
<1> QED
  BY <1>1, <1>3, <1>5, <1>7, <1>8

\* Losing a queue.
LEMMA QueueCleared ==
  ASSUME NEW S, NEW q \in [Launches -> Seq(S)], NEW l \in Launches,
         NEW m, NEW r, r = [q EXCEPT ![l] = <<>>]
  PROVE  /\ r \in [Launches -> Seq(S)]
         /\ UnderWay(r, m) => UnderWay(q, m)
         /\ AtMostOnce(q, m) => AtMostOnce(r, m)
<1>1. /\ r \in [Launches -> Seq(S)]
      /\ \A k \in Launches : \A p \in 1..Len(r[k]) : k # l /\ r[k] = q[k]
  OBVIOUS
<1> QED
  BY <1>1 DEF UnderWay, AtMostOnce

\* What a queue teaches the ledger: messages that are no snapshots change
\* nothing, a snapshot posted last counts, and one that arrives is kept.
LEMMA LearnsMore ==
  ASSUME NEW q \in Seq(ToWorker), NEW ms \in Seq(ToWorker), NEW known, NEW r,
         \A i \in 1..Len(ms) : ms[i].type # "sync-runtime-state", Learns(q, known, r)
  PROVE  Learns(q \o ms, known, r)
<1> DEFINE z == q \o ms
<1>1. /\ Len(z) = Len(q) + Len(ms) /\ Len(q) \in Nat /\ Len(ms) \in Nat
      /\ \A p \in 1..Len(z) : z[p] = IF p <= Len(q) THEN q[p] ELSE ms[p - Len(q)]
  OBVIOUS
<1> HIDE DEF z
<1>2. {p \in 1..Len(z) : z[p].type = "sync-runtime-state"}
        = {p \in 1..Len(q) : q[p].type = "sync-runtime-state"}
  <2>1. \A p \in 1..Len(z) : z[p].type = "sync-runtime-state"
                                => p \in 1..Len(q) /\ q[p].type = "sync-runtime-state"
    BY <1>1
  <2>2. \A p \in 1..Len(q) : p \in 1..Len(z) /\ z[p] = q[p]
    BY <1>1
  <2> QED
    BY <2>1, <2>2
<1>3. \A p \in 1..Len(q) : z[p] = q[p]
  BY <1>1
<1>4. Learns(z, known, r)
  BY <1>2, <1>3 DEF Learns
<1> QED
  BY <1>4 DEF z

LEMMA LearnsLast ==
  ASSUME NEW q \in Seq(ToWorker), NEW known, NEW r \in 0..MaxRevision
  PROVE  Learns(q \o <<SyncState(r)>>, known, r)
<1> DEFINE z == q \o <<SyncState(r)>>
<1>1. Len(z) = Len(q) + 1 /\ Len(q) \in Nat /\ z[Len(z)] = SyncState(r)
  OBVIOUS
<1> HIDE DEF z
<1>2. /\ Len(z) \in {p \in 1..Len(z) : z[p].type = "sync-runtime-state"}
      /\ z[Len(z)].rev = r
  BY <1>1 DEF SyncState
<1>3. \A p \in 1..Len(z) : p <= Len(z)
  BY <1>1
<1>4. Learns(z, known, r)
  BY <1>2, <1>3 DEF Learns
<1> QED
  BY <1>4 DEF z

LEMMA LearnsHead ==
  ASSUME NEW q \in Seq(ToWorker), q # <<>>, NEW known, NEW r, Learns(q, known, r)
  PROVE  Learns(Tail(q), IF Head(q).type = "sync-runtime-state" THEN Head(q).rev ELSE known, r)
<1> DEFINE z == Tail(q)
           now == IF Head(q).type = "sync-runtime-state" THEN Head(q).rev ELSE known
           Sync(p) == q[p].type = "sync-runtime-state"
<1>1. /\ Len(z) = Len(q) - 1 /\ Len(q) \in Nat \ {0} /\ Head(q) = q[1]
      /\ \A p \in 1..Len(z) : z[p] = q[p + 1]
  OBVIOUS
<1> HIDE DEF z
<1>2. CASE \E p \in 1..Len(z) : z[p].type = "sync-runtime-state"
  <2>1. PICK p \in 1..Len(q) : /\ Sync(p) /\ q[p].rev = r
                               /\ \A n \in 1..Len(q) : Sync(n) => n <= p
    BY <1>1, <1>2 DEF Learns
  <2>2. p - 1 \in 1..Len(z) /\ z[p - 1] = q[p]
    <3>1. PICK n \in 1..Len(z) : z[n].type = "sync-runtime-state"
      BY <1>2
    <3>2. n + 1 \in 1..Len(q) /\ Sync(n + 1)
      BY <1>1, <3>1
    <3>3. n + 1 <= p
      BY <2>1, <3>2
    <3>4. p - 1 \in 1..Len(z) /\ (p - 1) + 1 = p
      BY <1>1, <2>1, <3>3
    <3> QED
      BY <1>1, <3>4
  <2>3. \A n \in 1..Len(z) : z[n].type = "sync-runtime-state" => n <= p - 1
    BY <1>1, <2>1
  <2> QED
    BY <2>1, <2>2, <2>3 DEF Learns, z
<1>3. CASE ~\E p \in 1..Len(z) : z[p].type = "sync-runtime-state"
  <2>1. \A p \in 1..Len(q) : Sync(p) => p = 1
    <3>1. ASSUME NEW p \in 1..Len(q), p # 1 PROVE ~Sync(p)
      <4>1. p - 1 \in 1..Len(z) /\ z[p - 1] = q[p]
        BY <1>1, <3>1
      <4> QED
        BY <1>3, <4>1
    <3> QED
      BY <3>1
  <2>2. now = r
    <3>1. CASE Sync(1)
      BY <1>1, <2>1, <3>1 DEF Learns
    <3>2. CASE ~Sync(1)
      BY <1>1, <2>1, <3>2 DEF Learns
    <3> QED
      BY <3>1, <3>2
  <2> QED
    BY <1>3, <2>2 DEF Learns, z
<1> QED
  BY <1>2, <1>3

-----------------------------------------------------------------------------
\* What the actions have in common.

TurnsStartOnce == \A t \in Turns : TurnStartsOnce(t)
CallsAreMadeOnce == \A c \in Calls : CallIsMadeOnce(c)

\* safeSend of messages that start no turn.
LEMMA SentQuietly ==
  ASSUME AgentHostTypeOK, NEW ms \in Seq(ToWorker), inbox' = Sent(ms),
         \A i \in 1..Len(ms) : ms[i].type # "execute-agent-turn"
  PROVE  /\ inbox' \in [Launches -> Seq(ToWorker)]
         /\ \A t \in Turns : /\ UnderWay(inbox', Execute(t)) => UnderWay(inbox, Execute(t))
                             /\ AtMostOnce(inbox, Execute(t)) => AtMostOnce(inbox', Execute(t))
<1>1. inbox \in [Launches -> Seq(ToWorker)] /\ (child # 0 => child \in Launches)
  BY BoundsAreNumbers DEF AgentHostTypeOK, Launches
<1>2. CASE child = 0
  BY <1>1, <1>2 DEF Sent
<1>3. CASE child # 0
  <2>1. inbox' = [inbox EXCEPT ![child] = @ \o ms] /\ child \in Launches
    BY <1>1, <1>3 DEF Sent
  <2>2. ASSUME NEW t \in Turns
        PROVE  \A i \in 1..Len(ms) : ms[i] # Execute(t)
    BY MessagesToWorker
  <2>3. inbox' \in [Launches -> Seq(ToWorker)]
    BY <1>1, <2>1
  <2>4. ASSUME NEW t \in Turns
        PROVE  /\ UnderWay(inbox', Execute(t)) => UnderWay(inbox, Execute(t))
               /\ AtMostOnce(inbox, Execute(t)) => AtMostOnce(inbox', Execute(t))
    <3> DEFINE n == Execute(t)
    <3>1. \A i \in 1..Len(ms) : ms[i] # n
      BY <2>2
    <3> HIDE DEF n
    <3>2. /\ UnderWay(inbox', n) => UnderWay(inbox, n)
          /\ AtMostOnce(inbox, n) => AtMostOnce(inbox', n)
      BY <1>1, <2>1, <3>1, QueuePosted
    <3> QED
      BY <3>2 DEF n
  <2> QED
    BY <2>3, <2>4
<1> QED
  BY <1>2, <1>3

\* A turn that is not forgotten and not sent again stays started once.
LEMMA TurnsKept ==
  ASSUME TurnsStartOnce, UNCHANGED <<begun, active>>,
         \A t \in Turns : turns'[t] = "none" => turns[t] = "none",
         \A t \in Turns : /\ UnderWay(inbox', Execute(t)) => UnderWay(inbox, Execute(t))
                          /\ AtMostOnce(inbox, Execute(t)) => AtMostOnce(inbox', Execute(t))
  PROVE  TurnsStartOnce'
<1> SUFFICES ASSUME NEW t \in Turns PROVE TurnStartsOnce(t)'
  BY DEF TurnsStartOnce
<1>1. TurnStartsOnce(t)
  BY DEF TurnsStartOnce
<1>2. UnderWay(inbox, Execute(t))' <=> UnderWay(inbox', Execute(t))
  BY DEF UnderWay, Execute
<1>3. AtMostOnce(inbox, Execute(t))' <=> AtMostOnce(inbox', Execute(t))
  BY DEF AtMostOnce, Execute
<1> QED
  BY <1>1, <1>2, <1>3 DEF TurnStartsOnce

LEMMA CallsKept ==
  ASSUME CallsAreMadeOnce, UNCHANGED <<begun, active, served, outbox>>
  PROVE  CallsAreMadeOnce'
  BY DEF CallsAreMadeOnce, CallIsMadeOnce, Made, AtMostOnce, UnderWay, CallRequest

\* Nothing happens to turns, calls and their messages.
LEMMA TurnsUntouched ==
  ASSUME AgentHostInv, UNCHANGED <<turnVars, begun, active, inbox, outbox>>
  PROVE  TurnsStartOnce' /\ CallsAreMadeOnce' /\ SettledTurnsHoldNoCalls'
<1>1. TurnsStartOnce /\ CallsAreMadeOnce /\ SettledTurnsHoldNoCalls
  BY DEF AgentHostInv, TurnsStartOnce, CallsAreMadeOnce
<1>2. TurnsStartOnce'
  BY <1>1, TurnsKept DEF turnVars
<1>3. CallsAreMadeOnce'
  BY <1>1, CallsKept DEF turnVars
<1>4. SettledTurnsHoldNoCalls'
  BY <1>1 DEF SettledTurnsHoldNoCalls, turnVars
<1> QED
  BY <1>2, <1>3, <1>4

\* A ready worker is sent messages that are no snapshots.
LEMMA LedgerKept ==
  ASSUME AgentHostTypeOK, LedgerFollowsStore, NEW ms \in Seq(ToWorker),
         \A i \in 1..Len(ms) : ms[i].type # "sync-runtime-state",
         inbox' = Sent(ms), child' = child, UNCHANGED <<ledger, revision>>,
         status' = "ready" => status = "ready",
         stopping' = "no" => stopping = "no",
         child # 0 /\ worker'[child] = "running" => worker[child] = "running"
  PROVE  LedgerFollowsStore'
<1> SUFFICES ASSUME status' = "ready", child # 0, worker'[child] = "running", stopping' = "no"
             PROVE  Learns(inbox'[child], ledger[child], revision)
  BY DEF LedgerFollowsStore, Learns
<1>1. inbox[child] \in Seq(ToWorker) /\ child \in Launches
  <2>1. child \in Launches
    BY BoundsAreNumbers DEF AgentHostTypeOK, Launches
  <2> QED
    BY <2>1 DEF AgentHostTypeOK
<1>2. inbox'[child] = inbox[child] \o ms
  BY <1>1 DEF AgentHostTypeOK, Sent
<1>3. Learns(inbox[child], ledger[child], revision)
  BY DEF LedgerFollowsStore
<1> QED
  BY <1>1, <1>2, <1>3, LearnsMore

\* Nothing is sent, and the supervisor does not become ready by the step.
LEMMA LedgerUntouched ==
  ASSUME LedgerFollowsStore, UNCHANGED <<inbox, ledger, revision>>,
         status' = "ready" => status = "ready" /\ child' = child,
         stopping' = "no" => stopping = "no",
         child # 0 /\ worker'[child] = "running" => worker[child] = "running"
  PROVE  LedgerFollowsStore'
  BY DEF LedgerFollowsStore, Learns

LEMMA InvFromParts ==
  ASSUME AgentHostTypeOK', LaunchesArePaid', WorkersSpeakLate', TurnsStartOnce',
         CallsAreMadeOnce', SettledTurnsHoldNoCalls', LedgerFollowsStore'
  PROVE  AgentHostInv'
  BY DEF AgentHostInv, TurnsStartOnce, CallsAreMadeOnce

LEMMA PartsOfInv ==
  ASSUME AgentHostInv
  PROVE  /\ AgentHostTypeOK /\ LaunchesArePaid /\ WorkersSpeakLate /\ TurnsStartOnce
         /\ CallsAreMadeOnce /\ SettledTurnsHoldNoCalls /\ LedgerFollowsStore
  BY DEF AgentHostInv, TurnsStartOnce, CallsAreMadeOnce

-----------------------------------------------------------------------------
\* The supervisor's process.

LEMMA Products ==
  ASSUME NEW a \in Nat, NEW w \in Nat, NEW x \in Nat, w <= x
  PROVE  /\ a * w \in Nat /\ a * (w + 1) = a * w + a
         /\ a * (w + 1) <= a * (x + 1)
<1>1. a * w \in Nat /\ a * (w + 1) = a * w + a
  OBVIOUS
<1>2. PICK d \in Nat : x = w + d
  <2>1. x - w \in Nat /\ x = w + (x - w)
    OBVIOUS
  <2> QED
    BY <2>1
<1>3. a * (x + 1) = a * (w + 1) + a * d /\ a * d \in Nat /\ a * (w + 1) \in Nat
  BY <1>2
<1> QED
  BY <1>1, <1>3

\* The restart that is due has a launch left.
LEMMA LaunchIsLeft ==
  ASSUME AgentHostTypeOK, LaunchesArePaid, restartTimer
  PROVE  launches + 1 \in Launches
<1>1. /\ launches \in Nat \ {0} /\ windows \in 0..MaxWindows /\ restarts \in 0..MaxRestarts
      /\ MaxRestarts \in Nat /\ MaxWindows \in Nat
  BY BoundsAreNumbers DEF AgentHostTypeOK, Launches
<1>2. /\ MaxRestarts * windows \in Nat
      /\ MaxRestarts * (windows + 1) = MaxRestarts * windows + MaxRestarts
      /\ MaxRestarts * (windows + 1) <= MaxRestarts * (MaxWindows + 1)
  BY <1>1, Products
<1>3. launches + 1 <= 1 + MaxRestarts * windows + restarts
  BY DEF LaunchesArePaid
<1>4. launches + 1 <= MaxLaunches
  <2>1. MaxRestarts * (MaxWindows + 1) \in Nat
    BY <1>1
  <2> QED
    BY <1>1, <1>2, <1>3, <2>1 DEF MaxLaunches
<1> QED
  BY <1>1, <1>4, BoundsAreNumbers DEF Launches

LEMMA ReadyTimeoutKeeps ==
  ASSUME AgentHostInv, readyTimeout
  PROVE  AgentHostInv'
<1> USE DEF readyTimeout, failInitialStart
<1>1. AgentHostTypeOK /\ LaunchesArePaid /\ WorkersSpeakLate /\ LedgerFollowsStore
  BY PartsOfInv
<1>2. AgentHostTypeOK'
  BY <1>1 DEF AgentHostTypeOK, turnVars
<1>3. LaunchesArePaid'
  BY <1>1 DEF LaunchesArePaid
<1>4. WorkersSpeakLate'
  BY <1>1 DEF AgentHostTypeOK, WorkersSpeakLate, Alive
<1>5. LedgerFollowsStore'
  BY DEF LedgerFollowsStore
<1>6. TurnsStartOnce' /\ CallsAreMadeOnce' /\ SettledTurnsHoldNoCalls'
  BY TurnsUntouched
<1> QED
  BY <1>2, <1>3, <1>4, <1>5, <1>6, InvFromParts

LEMMA HealthKillKeeps ==
  ASSUME AgentHostInv, healthKill
  PROVE  AgentHostInv'
<1> USE DEF healthKill
<1>1. AgentHostTypeOK /\ LaunchesArePaid /\ WorkersSpeakLate /\ LedgerFollowsStore
  BY PartsOfInv
<1>2. AgentHostTypeOK'
  <2>1. crashes' \in 0..MaxCrashes
    BY <1>1, BoundsAreNumbers DEF AgentHostTypeOK
  <2> QED
    BY <1>1, <2>1 DEF AgentHostTypeOK, turnVars
<1>3. LaunchesArePaid'
  BY <1>1 DEF LaunchesArePaid
<1>4. WorkersSpeakLate'
  BY <1>1 DEF AgentHostTypeOK, WorkersSpeakLate
<1>5. LedgerFollowsStore'
  <2>1. child \in Launches
    BY <1>1, BoundsAreNumbers DEF AgentHostTypeOK, Launches
  <2>2. worker'[child] # "running"
    BY <1>1, <2>1 DEF AgentHostTypeOK
  <2> QED
    BY <2>2 DEF LedgerFollowsStore
<1>6. TurnsStartOnce' /\ CallsAreMadeOnce' /\ SettledTurnsHoldNoCalls'
  BY TurnsUntouched
<1> QED
  BY <1>2, <1>3, <1>4, <1>5, <1>6, InvFromParts

LEMMA WindowPassesKeeps ==
  ASSUME AgentHostInv, windowPasses
  PROVE  AgentHostInv'
<1> USE DEF windowPasses
<1>1. AgentHostTypeOK /\ LaunchesArePaid /\ WorkersSpeakLate /\ LedgerFollowsStore
  BY PartsOfInv
<1>2. AgentHostTypeOK'
  BY <1>1, BoundsAreNumbers DEF AgentHostTypeOK, turnVars, workVars
<1>3. LaunchesArePaid'
  <2>1. /\ launches \in Nat /\ windows \in Nat /\ restarts \in 0..MaxRestarts /\ MaxRestarts \in Nat
    BY <1>1, BoundsAreNumbers DEF AgentHostTypeOK, Launches
  <2>2. MaxRestarts * windows \in Nat /\ MaxRestarts * (windows + 1) = MaxRestarts * windows + MaxRestarts
    BY <2>1, Products
  <2> QED
    BY <1>1, <2>1, <2>2 DEF LaunchesArePaid
<1>4. WorkersSpeakLate'
  BY <1>1 DEF WorkersSpeakLate, workVars
<1>5. LedgerFollowsStore'
  BY <1>1, LedgerUntouched DEF workVars
<1>6. TurnsStartOnce' /\ CallsAreMadeOnce' /\ SettledTurnsHoldNoCalls'
  BY TurnsUntouched DEF workVars
<1> QED
  BY <1>2, <1>3, <1>4, <1>5, <1>6, InvFromParts

LEMMA RestartKeeps ==
  ASSUME AgentHostInv, NEW forks \in BOOLEAN, restart(forks)
  PROVE  AgentHostInv'
<1> USE DEF restart, spawnProcess
<1>1. AgentHostTypeOK /\ LaunchesArePaid /\ WorkersSpeakLate /\ LedgerFollowsStore
  BY PartsOfInv
<1>2. launches + 1 \in Launches /\ launches \in Nat
  BY <1>1, LaunchIsLeft, BoundsAreNumbers DEF AgentHostTypeOK, Launches
<1>3. AgentHostTypeOK'
  <2>1. CASE forks
    <3>1. child' \in 0..MaxLaunches /\ launches' \in Launches
      BY <1>2, <2>1 DEF Launches
    <3> QED
      BY <1>1, <2>1, <3>1 DEF AgentHostTypeOK, turnVars
  <2>2. CASE ~forks
    <3>1. crashes' \in 0..MaxCrashes /\ restarts' \in 0..MaxRestarts
      <4>1. /\ crashes < MaxCrashes /\ crashes' = crashes + 1
            /\ restarts' = IF restarts >= MaxRestarts THEN restarts ELSE restarts + 1
        BY <2>2
      <4> HIDE DEF restart
      <4> QED
        BY <1>1, <4>1, BoundsAreNumbers DEF AgentHostTypeOK
    <3> QED
      BY <1>1, <2>2, <3>1 DEF AgentHostTypeOK, turnVars
  <2> QED
    BY <2>1, <2>2
<1>4. LaunchesArePaid'
  <2>1. /\ windows \in Nat /\ restarts \in 0..MaxRestarts /\ MaxRestarts \in Nat
        /\ MaxRestarts * windows \in Nat
    BY <1>1, BoundsAreNumbers, Products DEF AgentHostTypeOK, Launches
  <2>2. launches + 1 <= 1 + MaxRestarts * windows + restarts /\ windows' = windows
    BY <1>1 DEF LaunchesArePaid
  <2>3. CASE forks
    <3>1. launches' = launches + 1 /\ restartTimer' = FALSE /\ restarts' = restarts
      BY <2>3
    <3> QED
      BY <1>2, <2>1, <2>2, <3>1 DEF LaunchesArePaid
  <2>4. CASE ~forks
    <3>1. launches' = launches /\ restarts' = IF restarts >= MaxRestarts THEN restarts ELSE restarts + 1
      BY <2>4
    <3>2. launches' + 1 <= 1 + MaxRestarts * windows' + restarts'
      <4> HIDE DEF restart
      <4> QED
        BY <1>2, <2>1, <2>2, <3>1
    <3>3. launches' \in Nat /\ MaxRestarts * windows' \in Nat /\ restarts' \in Nat
      BY <1>2, <2>1, <2>2, <3>1
    <3> HIDE DEF restart
    <3> QED
      BY <3>2, <3>3 DEF LaunchesArePaid
  <2> QED
    BY <2>3, <2>4
<1>5. WorkersSpeakLate'
  <2>1. CASE forks
    <3>1. worker[launches + 1] = "none" /\ outbox[launches + 1] = <<>>
      BY <1>1, <1>2 DEF WorkersSpeakLate
    <3>2. \A l \in Launches : l > launches + 1 => l > launches /\ l # launches + 1
      BY <1>2, BoundsAreNumbers DEF Launches
    <3> QED
      BY <1>1, <1>2, <2>1, <3>1, <3>2 DEF WorkersSpeakLate, AgentHostTypeOK
  <2>2. CASE ~forks
    BY <1>1, <2>2 DEF WorkersSpeakLate
  <2> QED
    BY <2>1, <2>2
<1>6. LedgerFollowsStore'
  BY DEF LedgerFollowsStore
<1>7. TurnsStartOnce' /\ CallsAreMadeOnce' /\ SettledTurnsHoldNoCalls'
  BY TurnsUntouched
<1> QED
  BY <1>3, <1>4, <1>5, <1>6, <1>7, InvFromParts

LEMMA TeardownEndsKeeps ==
  ASSUME AgentHostInv, teardownEnds
  PROVE  AgentHostInv'
<1> USE DEF teardownEnds, KilledByTeardown
<1>1. AgentHostTypeOK /\ LaunchesArePaid /\ WorkersSpeakLate /\ LedgerFollowsStore
  BY PartsOfInv
<1>2. AgentHostTypeOK'
  <2>1. child' \in 0..MaxLaunches
    BY BoundsAreNumbers
  <2> QED
    BY <1>1, <2>1 DEF AgentHostTypeOK, turnVars, timers
<1>3. LaunchesArePaid'
  BY <1>1 DEF LaunchesArePaid, timers
<1>4. WorkersSpeakLate'
  BY <1>1 DEF AgentHostTypeOK, WorkersSpeakLate, Alive
<1>5. LedgerFollowsStore'
  BY DEF LedgerFollowsStore
<1>6. TurnsStartOnce' /\ CallsAreMadeOnce' /\ SettledTurnsHoldNoCalls'
  BY TurnsUntouched
<1> QED
  BY <1>2, <1>3, <1>4, <1>5, <1>6, InvFromParts

\* The exit event: every pending turn fails and every handler is aborted.
LEMMA HandleExitKeeps ==
  ASSUME AgentHostInv, NEW l \in Launches, handleExit(l)
  PROVE  AgentHostInv'
<1>1. /\ AgentHostTypeOK /\ LaunchesArePaid /\ WorkersSpeakLate /\ TurnsStartOnce
      /\ CallsAreMadeOnce
  BY PartsOfInv
<1>2. /\ turns' = [t \in Turns |-> IF t \in Pending THEN "failed" ELSE turns[t]]
      /\ Abort(Calls) /\ child' = 0
      /\ UNCHANGED <<launches, everReady, stopping, windows, crashes, revision, served,
                     unposted, workVars, inbox, outbox>>
  BY DEF handleExit, RejectedByExit, exitAborts
<1>3. /\ status' \in {"stopped", "failed", "restarting"} /\ readyTimer' = FALSE
      /\ start' \in {start, "rejected"}
      /\ \/ UNCHANGED <<restartTimer, restarts>>
         \/ restarts < MaxRestarts /\ restarts' = restarts + 1 /\ restartTimer' = TRUE
  <2>1. CASE stopping # "no"
    BY <2>1 DEF handleExit
  <2>2. CASE stopping = "no" /\ ~everReady
    BY <2>2 DEF handleExit, failInitialStart
  <2>3. CASE stopping = "no" /\ everReady
    <3>1. restarts \in Nat /\ MaxRestarts \in Nat
      BY <1>1, BoundsAreNumbers DEF AgentHostTypeOK
    <3>2. scheduleRestart /\ readyTimer' = FALSE /\ UNCHANGED start
      BY <2>3 DEF handleExit
    <3> QED
      BY <3>1, <3>2 DEF scheduleRestart
  <2> QED
    BY <1>1, <2>1, <2>2, <2>3 DEF AgentHostTypeOK
<1>4. AgentHostTypeOK'
  <2>1. child' \in 0..MaxLaunches /\ restarts' \in 0..MaxRestarts
    BY <1>1, <1>2, <1>3, BoundsAreNumbers DEF AgentHostTypeOK
  <2>2. hostCalls' \subseteq Calls /\ handlers' \subseteq Calls /\ aborted' \subseteq Calls
    BY <1>1, <1>2 DEF AgentHostTypeOK, Abort
  <2>3. turns' \in [Turns -> {"none", "pending"} \cup Settled]
    BY <1>1, <1>2 DEF AgentHostTypeOK, Settled
  <2> QED
    BY <1>1, <1>2, <1>3, <2>1, <2>2, <2>3 DEF AgentHostTypeOK, workVars
<1>5. LaunchesArePaid'
  <2>1. /\ launches \in Nat /\ windows \in Nat /\ restarts \in Nat /\ MaxRestarts * windows \in Nat
    BY <1>1, BoundsAreNumbers, Products DEF AgentHostTypeOK, Launches
  <2>2. UNCHANGED <<launches, windows>>
    BY <1>2
  <2>3. CASE UNCHANGED <<restartTimer, restarts>>
    BY <1>1, <2>2, <2>3 DEF LaunchesArePaid
  <2>4. CASE restarts' = restarts + 1 /\ restartTimer' = TRUE
    BY <1>1, <2>1, <2>2, <2>4 DEF LaunchesArePaid
  <2> QED
    BY <1>3, <2>3, <2>4
<1>6. WorkersSpeakLate'
  BY <1>1, <1>2, <1>3 DEF WorkersSpeakLate, workVars
<1>7. TurnsStartOnce'
  BY <1>1, <1>2, TurnsKept DEF workVars
<1>8. CallsAreMadeOnce'
  BY <1>1, <1>2, CallsKept DEF workVars
<1>9. SettledTurnsHoldNoCalls'
  BY <1>1, <1>2 DEF SettledTurnsHoldNoCalls, Abort, AgentHostTypeOK
<1>10. LedgerFollowsStore'
  BY <1>2 DEF LedgerFollowsStore
<1> QED
  BY <1>4, <1>5, <1>6, <1>7, <1>8, <1>9, <1>10, InvFromParts

\* A change of the summaries: a ready worker is sent the new revision.
LEMMA PublishKeeps ==
  ASSUME AgentHostInv, publish
  PROVE  AgentHostInv'
<1> USE DEF publish
<1>1. /\ AgentHostTypeOK /\ LaunchesArePaid /\ WorkersSpeakLate /\ TurnsStartOnce
      /\ CallsAreMadeOnce /\ SettledTurnsHoldNoCalls
  BY PartsOfInv
<1>2. revision + 1 \in 0..MaxRevision /\ (child # 0 => child \in Launches)
  BY <1>1, BoundsAreNumbers DEF AgentHostTypeOK, Launches
<1>3. /\ inbox' \in [Launches -> Seq(ToWorker)]
      /\ \A t \in Turns : /\ UnderWay(inbox', Execute(t)) => UnderWay(inbox, Execute(t))
                          /\ AtMostOnce(inbox, Execute(t)) => AtMostOnce(inbox', Execute(t))
  <2>1. CASE status = "ready"
    <3>1. /\ <<SyncState(revision + 1)>> \in Seq(ToWorker)
          /\ \A i \in 1..Len(<<SyncState(revision + 1)>>) :
                <<SyncState(revision + 1)>>[i].type # "execute-agent-turn"
      BY <1>2, MessagesToWorker
    <3> QED
      BY <1>1, <2>1, <3>1, SentQuietly
  <2>2. CASE status # "ready"
    BY <1>1, <2>2 DEF AgentHostTypeOK
  <2> QED
    BY <2>1, <2>2
<1>4. AgentHostTypeOK'
  BY <1>1, <1>2, <1>3 DEF AgentHostTypeOK, timers, turnVars, workVars
<1>5. LaunchesArePaid'
  BY <1>1 DEF LaunchesArePaid, timers
<1>6. WorkersSpeakLate'
  BY <1>1 DEF WorkersSpeakLate, workVars
<1>7. TurnsStartOnce'
  BY <1>1, <1>3, TurnsKept DEF workVars, turnVars
<1>8. CallsAreMadeOnce'
  BY <1>1, CallsKept DEF workVars, turnVars
<1>9. SettledTurnsHoldNoCalls'
  BY <1>1 DEF SettledTurnsHoldNoCalls, turnVars
<1>10. LedgerFollowsStore'
  <2> SUFFICES ASSUME status = "ready", child # 0
               PROVE  Learns(inbox'[child], ledger[child], revision + 1)
    BY DEF LedgerFollowsStore, Learns, workVars
  <2>1. inbox'[child] = inbox[child] \o <<SyncState(revision + 1)>> /\ inbox[child] \in Seq(ToWorker)
    BY <1>1, <1>2 DEF AgentHostTypeOK, Sent
  <2> QED
    BY <1>2, <2>1, LearnsLast
<1> QED
  BY <1>4, <1>5, <1>6, <1>7, <1>8, <1>9, <1>10, InvFromParts

\* SetToSeq of the cancellations sent at teardown.
LEMMA CancelsAreMessages ==
  ASSUME NEW ts \in SUBSET Turns
  PROVE  SetToSeq({Cancel(t) : t \in ts}) \in Seq({Cancel(t) : t \in ts})
<1> DEFINE S == {Cancel(t) : t \in ts}
<1>1. IsFiniteSet(ts)
  BY AgentHostAssumption, FS_Subset
<1>2. IsFiniteSet(S)
  <2> DEFINE f == [t \in ts |-> Cancel(t)]
  <2>1. f \in Surjection(ts, S)
    BY DEF Surjection
  <2> QED
    BY <1>1, <2>1, FS_Surjection
<1> HIDE DEF S
<1>3. Cardinality(S) \in Nat /\ ExistsBijection(1..Cardinality(S), S)
  BY <1>2, FS_CardinalityType
<1>4. \E f \in [1..Cardinality(S) -> S] : IsInjective(f)
  BY <1>3 DEF ExistsBijection, Bijection, Injection
<1>5. SetToSeq(S) \in [1..Cardinality(S) -> S]
  BY <1>4 DEF SetToSeq
<1>6. SetToSeq(S) \in Seq(S)
  BY <1>3, <1>5
<1> QED
  BY <1>6 DEF S

\* Teardown: every pending turn fails, every handler is aborted.
LEMMA TeardownKeeps ==
  ASSUME AgentHostInv, onTeardown
  PROVE  AgentHostInv'
<1> DEFINE cancels == SetToSeq({Cancel(t) : t \in Pending})
           ms == cancels \o <<Shutdown>>
<1>1. /\ AgentHostTypeOK /\ LaunchesArePaid /\ WorkersSpeakLate /\ TurnsStartOnce
      /\ CallsAreMadeOnce
  BY PartsOfInv
<1>2. /\ turns' = [t \in Turns |-> IF t \in Pending THEN "failed" ELSE turns[t]]
      /\ Abort(Calls) /\ inbox' = Sent(ms)
      /\ readyTimer' = FALSE /\ restartTimer' = FALSE
      /\ stopping' \in {"waiting", "done"}
      /\ status' = IF child = 0 THEN "stopped" ELSE status
      /\ UNCHANGED <<child, launches, start, everReady, restarts, windows, crashes, revision,
                     served, unposted, workVars, outbox>>
  BY DEF onTeardown, RestartTimerAfterTeardown
<1>3. cancels \in Seq({Cancel(t) : t \in Pending})
  BY CancelsAreMessages DEF Pending
<1>4. ms \in Seq(ToWorker) /\ \A i \in 1..Len(ms) : ms[i].type # "execute-agent-turn"
  <2> DEFINE S == {Cancel(t) : t \in Pending}
  <2>1. \A m \in S : m \in ToWorker /\ m.type # "execute-agent-turn"
    BY MessagesToWorker DEF Pending
  <2> HIDE DEF cancels
  <2>2. cancels \in Seq(ToWorker) /\ \A i \in 1..Len(cancels) : cancels[i].type # "execute-agent-turn"
    <3>1. cancels \in Seq(S)
      BY <1>3
    <3> HIDE DEF S
    <3> QED
      BY <2>1, <3>1
  <2>3. Shutdown \in ToWorker /\ Shutdown.type # "execute-agent-turn"
    BY MessagesToWorker
  <2> QED
    BY <2>2, <2>3
<1> HIDE DEF ms
<1>5. /\ inbox' \in [Launches -> Seq(ToWorker)]
      /\ \A t \in Turns : /\ UnderWay(inbox', Execute(t)) => UnderWay(inbox, Execute(t))
                          /\ AtMostOnce(inbox, Execute(t)) => AtMostOnce(inbox', Execute(t))
  BY <1>1, <1>2, <1>4, SentQuietly
<1>6. AgentHostTypeOK'
  <2>1. hostCalls' \subseteq Calls /\ handlers' \subseteq Calls /\ aborted' \subseteq Calls
    BY <1>1, <1>2 DEF AgentHostTypeOK, Abort
  <2>2. turns' \in [Turns -> {"none", "pending"} \cup Settled]
    BY <1>1, <1>2 DEF AgentHostTypeOK, Settled
  <2> QED
    BY <1>1, <1>2, <1>5, <2>1, <2>2 DEF AgentHostTypeOK, workVars
<1>7. LaunchesArePaid'
  <2>1. /\ launches \in Nat /\ windows \in Nat /\ restarts \in Nat /\ MaxRestarts * windows \in Nat
    BY <1>1, BoundsAreNumbers, Products DEF AgentHostTypeOK, Launches
  <2>2. UNCHANGED <<launches, windows, restarts>> /\ restartTimer' = FALSE
    BY <1>2
  <2> QED
    BY <1>1, <2>1, <2>2 DEF LaunchesArePaid
<1>8. WorkersSpeakLate'
  BY <1>1, <1>2 DEF WorkersSpeakLate, workVars
<1>9. TurnsStartOnce'
  BY <1>1, <1>2, <1>5, TurnsKept DEF workVars
<1>10. CallsAreMadeOnce'
  BY <1>1, <1>2, CallsKept DEF workVars
<1>11. SettledTurnsHoldNoCalls'
  BY <1>1, <1>2 DEF SettledTurnsHoldNoCalls, Abort, AgentHostTypeOK
<1>12. LedgerFollowsStore'
  BY <1>2 DEF LedgerFollowsStore
<1> QED
  BY <1>6, <1>7, <1>8, <1>9, <1>10, <1>11, <1>12, InvFromParts

-----------------------------------------------------------------------------
\* Turns and calls in the main process.

\* One message that is neither a turn nor a snapshot.
LEMMA OneQuietMessage ==
  ASSUME NEW m \in ToWorker, m.type # "execute-agent-turn", m.type # "sync-runtime-state"
  PROVE  /\ <<m>> \in Seq(ToWorker)
         /\ \A i \in 1..Len(<<m>>) : /\ <<m>>[i].type # "execute-agent-turn"
                                     /\ <<m>>[i].type # "sync-runtime-state"
  OBVIOUS

\* The application asks for a turn: it is sent to the child, and to nobody
\* before.
LEMMA ExecuteKeeps ==
  ASSUME AgentHostInv, NEW t \in Turns, NEW posted \in BOOLEAN, executeAgentTurn(t, posted)
  PROVE  AgentHostInv'
<1> USE DEF executeAgentTurn
<1>1. /\ AgentHostTypeOK /\ LaunchesArePaid /\ WorkersSpeakLate /\ TurnsStartOnce
      /\ CallsAreMadeOnce /\ SettledTurnsHoldNoCalls /\ LedgerFollowsStore
  BY PartsOfInv
<1>2. /\ child \in Launches /\ inbox \in [Launches -> Seq(ToWorker)]
      /\ turns \in [Turns -> {"none", "pending"} \cup Settled]
  BY <1>1, BoundsAreNumbers DEF AgentHostTypeOK, Launches
<1>3. Execute(t) \in ToWorker /\ Execute(t).type = "execute-agent-turn" /\ <<Execute(t)>> \in Seq(ToWorker)
  BY MessagesToWorker
<1>4. posted => inbox' = [inbox EXCEPT ![child] = @ \o <<Execute(t)>>]
  BY DEF Sent
<1>5. turns' = [turns EXCEPT ![t] = IF posted THEN "pending" ELSE "failed"]
  OBVIOUS
<1>6. inbox' \in [Launches -> Seq(ToWorker)]
  <2>1. CASE posted
    <3>1. inbox[child] \o <<Execute(t)>> \in Seq(ToWorker)
      BY <1>2, <1>3
    <3> HIDE DEF executeAgentTurn
    <3> QED
      BY <1>2, <1>4, <2>1, <3>1
  <2>2. CASE ~posted
    BY <1>2, <2>2
  <2> QED
    BY <2>1, <2>2
<1>7. AgentHostTypeOK'
  <2>1. turns' \in [Turns -> {"none", "pending"} \cup Settled]
    BY <1>2, <1>5 DEF Settled
  <2> QED
    BY <1>1, <1>6, <2>1 DEF AgentHostTypeOK, supVars, timers, workVars
<1>8. LaunchesArePaid'
  BY <1>1 DEF LaunchesArePaid, supVars, timers
<1>9. WorkersSpeakLate'
  BY <1>1 DEF WorkersSpeakLate, supVars, workVars
<1>10. TurnsStartOnce'
  <2> SUFFICES ASSUME NEW u \in Turns PROVE TurnStartsOnce(u)'
    BY DEF TurnsStartOnce
  <2>1. TurnStartsOnce(u) /\ TurnStartsOnce(t)
    BY <1>1 DEF TurnsStartOnce
  <2>2. /\ UnderWay(inbox, Execute(u))' <=> UnderWay(inbox', Execute(u))
        /\ AtMostOnce(inbox, Execute(u))' <=> AtMostOnce(inbox', Execute(u))
    BY DEF UnderWay, AtMostOnce, Execute
  <2>3. UNCHANGED <<begun, active>>
    BY DEF workVars
  <2>4. CASE u = t
    <3>1. turns'[t] # "none" /\ begun[t] = {} /\ ~UnderWay(inbox, Execute(t))
      BY <1>2, <1>5, <2>1 DEF TurnStartsOnce
    <3>2. AtMostOnce(inbox', Execute(t))
      <4>1. CASE posted
        <5> HIDE DEF executeAgentTurn
        <5> QED
          BY <1>2, <1>3, <1>4, <3>1, <4>1, QueueGains
      <4>2. CASE ~posted
        BY <2>1, <4>2 DEF TurnStartsOnce
      <4> QED
        BY <4>1, <4>2
    <3> QED
      BY <2>1, <2>2, <2>3, <2>4, <3>1, <3>2 DEF TurnStartsOnce
  <2>5. CASE u # t
    <3>1. turns'[u] = turns[u]
      BY <1>2, <1>5, <2>5
    <3>2. Execute(t) # Execute(u)
      BY <2>5, MessagesToWorker
    <3>3. /\ UnderWay(inbox', Execute(u)) => UnderWay(inbox, Execute(u))
          /\ AtMostOnce(inbox, Execute(u)) => AtMostOnce(inbox', Execute(u))
      <4>1. CASE posted
        <5>1. \A i \in 1..Len(<<Execute(t)>>) : <<Execute(t)>>[i] # Execute(u)
          BY <3>2
        <5> QED
          BY <1>2, <1>3, <1>4, <4>1, <5>1, QueuePosted
      <4>2. CASE ~posted
        BY <4>2
      <4> QED
        BY <4>1, <4>2
    <3> QED
      BY <2>1, <2>2, <2>3, <3>1, <3>3 DEF TurnStartsOnce
  <2> QED
    BY <2>4, <2>5
<1>11. CallsAreMadeOnce'
  BY <1>1, CallsKept DEF workVars
<1>12. SettledTurnsHoldNoCalls'
  BY <1>1, <1>2, <1>5 DEF SettledTurnsHoldNoCalls, AgentHostTypeOK, Calls
<1>13. LedgerFollowsStore'
  <2>1. CASE posted
    <3>1. \A i \in 1..Len(<<Execute(t)>>) : <<Execute(t)>>[i].type # "sync-runtime-state"
      BY <1>3
    <3>2. inbox' = Sent(<<Execute(t)>>)
      BY <2>1
    <3>3. UNCHANGED <<child, status, stopping, ledger, revision, worker>>
      BY DEF supVars, workVars
    <3> QED
      BY <1>1, <1>3, <3>1, <3>2, <3>3, LedgerKept
  <2>2. CASE ~posted
    BY <1>1, <2>2, LedgerUntouched DEF supVars, workVars
  <2> QED
    BY <2>1, <2>2
<1> QED
  BY <1>7, <1>8, <1>9, <1>10, <1>11, <1>12, <1>13, InvFromParts

\* The caller aborts a turn.
LEMMA AbortTurnKeeps ==
  ASSUME AgentHostInv, NEW t \in Turns, abortTurn(t)
  PROVE  AgentHostInv'
<1> USE DEF abortTurn
<1>1. /\ AgentHostTypeOK /\ LaunchesArePaid /\ WorkersSpeakLate /\ TurnsStartOnce
      /\ CallsAreMadeOnce /\ SettledTurnsHoldNoCalls /\ LedgerFollowsStore
  BY PartsOfInv
<1>2. turns' = [turns EXCEPT ![t] = "cancelled"] /\ turns \in [Turns -> {"none", "pending"} \cup Settled]
  BY <1>1 DEF AgentHostTypeOK
<1>3. /\ <<Cancel(t)>> \in Seq(ToWorker)
      /\ \A i \in 1..Len(<<Cancel(t)>>) : /\ <<Cancel(t)>>[i].type # "execute-agent-turn"
                                          /\ <<Cancel(t)>>[i].type # "sync-runtime-state"
  BY MessagesToWorker, OneQuietMessage
<1>4. /\ inbox' \in [Launches -> Seq(ToWorker)]
      /\ \A u \in Turns : /\ UnderWay(inbox', Execute(u)) => UnderWay(inbox, Execute(u))
                          /\ AtMostOnce(inbox, Execute(u)) => AtMostOnce(inbox', Execute(u))
  BY <1>1, <1>3, SentQuietly
<1>5. AgentHostTypeOK'
  <2>1. hostCalls' \subseteq Calls /\ handlers' \subseteq Calls /\ aborted' \subseteq Calls
    BY <1>1 DEF AgentHostTypeOK, Abort
  <2>2. turns' \in [Turns -> {"none", "pending"} \cup Settled]
    BY <1>2 DEF Settled
  <2> QED
    BY <1>1, <1>4, <2>1, <2>2 DEF AgentHostTypeOK, supVars, timers, workVars
<1>6. LaunchesArePaid'
  BY <1>1 DEF LaunchesArePaid, supVars, timers
<1>7. WorkersSpeakLate'
  BY <1>1 DEF WorkersSpeakLate, supVars, workVars
<1>8. TurnsStartOnce'
  <2>1. \A u \in Turns : turns'[u] = "none" => turns[u] = "none"
    BY <1>2
  <2> QED
    BY <1>1, <1>4, <2>1, TurnsKept DEF workVars
<1>9. CallsAreMadeOnce'
  BY <1>1, CallsKept DEF workVars
<1>10. SettledTurnsHoldNoCalls'
  <2> SUFFICES ASSUME NEW c \in handlers' PROVE turns'[c[1]] = "pending"
    BY DEF SettledTurnsHoldNoCalls
  <2>1. c \in handlers /\ c \in Calls /\ c \notin CallsOf({t})
    BY <1>1 DEF Abort, AgentHostTypeOK
  <2>2. c[1] \in Turns /\ c[1] # t
    BY <2>1 DEF CallsOf, Calls
  <2> QED
    BY <1>1, <1>2, <2>1, <2>2 DEF SettledTurnsHoldNoCalls
<1>11. LedgerFollowsStore'
  <2>1. UNCHANGED <<child, status, stopping, ledger, revision, worker>>
    BY DEF supVars, workVars
  <2> QED
    BY <1>1, <1>3, <2>1, LedgerKept
<1> QED
  BY <1>5, <1>6, <1>7, <1>8, <1>9, <1>10, <1>11, InvFromParts

\* A handler ends and may answer.
LEMMA HandlerEndsKeeps ==
  ASSUME AgentHostInv, NEW c \in Calls, NEW kind \in {"call-complete", "call-error"},
         NEW posted \in BOOLEAN, handlerEnds(c, kind, posted)
  PROVE  AgentHostInv'
<1> USE DEF handlerEnds
<1> DEFINE m == CallAnswer(c, kind)
<1>1. /\ AgentHostTypeOK /\ LaunchesArePaid /\ WorkersSpeakLate /\ TurnsStartOnce
      /\ CallsAreMadeOnce /\ SettledTurnsHoldNoCalls /\ LedgerFollowsStore
  BY PartsOfInv
<1>2. inbox' = Sent(<<m>>) \/ inbox' = inbox
  OBVIOUS
<1>3. m \in ToWorker /\ m.type # "execute-agent-turn" /\ m.type # "sync-runtime-state"
  BY MessagesToWorker
<1> HIDE DEF m
<1>4. /\ <<m>> \in Seq(ToWorker)
      /\ \A i \in 1..Len(<<m>>) : /\ <<m>>[i].type # "execute-agent-turn"
                                  /\ <<m>>[i].type # "sync-runtime-state"
  BY <1>3, OneQuietMessage
<1>5. /\ inbox' \in [Launches -> Seq(ToWorker)]
      /\ \A u \in Turns : /\ UnderWay(inbox', Execute(u)) => UnderWay(inbox, Execute(u))
                          /\ AtMostOnce(inbox, Execute(u)) => AtMostOnce(inbox', Execute(u))
  <2>1. CASE inbox' = Sent(<<m>>)
    BY <1>1, <1>4, <2>1, SentQuietly
  <2>2. CASE inbox' = inbox
    BY <1>1, <2>2 DEF AgentHostTypeOK
  <2> QED
    BY <1>2, <2>1, <2>2
<1>6. AgentHostTypeOK'
  BY <1>1, <1>5 DEF AgentHostTypeOK, supVars, timers, workVars
<1>7. LaunchesArePaid'
  BY <1>1 DEF LaunchesArePaid, supVars, timers
<1>8. WorkersSpeakLate'
  BY <1>1 DEF WorkersSpeakLate, supVars, workVars
<1>9. TurnsStartOnce'
  BY <1>1, <1>5, TurnsKept DEF workVars
<1>10. CallsAreMadeOnce'
  BY <1>1, CallsKept DEF workVars
<1>11. SettledTurnsHoldNoCalls'
  BY <1>1 DEF SettledTurnsHoldNoCalls
<1>12. LedgerFollowsStore'
  <2>1. UNCHANGED <<child, status, stopping, ledger, revision, worker>>
    BY DEF supVars, workVars
  <2>2. CASE inbox' = Sent(<<m>>)
    BY <1>1, <1>4, <2>1, <2>2, LedgerKept
  <2>3. CASE inbox' = inbox
    BY <1>1, <2>1, <2>3, LedgerUntouched
  <2> QED
    BY <1>2, <2>2, <2>3
<1> QED
  BY <1>6, <1>7, <1>8, <1>9, <1>10, <1>11, <1>12, InvFromParts

-----------------------------------------------------------------------------
\* The workers.

\* A worker's turns may end, but none starts or makes a call.
TurnsOnlyEnd ==
  /\ begun' = begun
  /\ \A l \in Launches, t \in Turns : active'[l][t] \in {active[l][t], 0}

LEMMA TurnsEnding ==
  ASSUME TurnsStartOnce, TurnsOnlyEnd, turns' = turns,
         \A t \in Turns : /\ UnderWay(inbox', Execute(t)) => UnderWay(inbox, Execute(t))
                          /\ AtMostOnce(inbox, Execute(t)) => AtMostOnce(inbox', Execute(t))
  PROVE  TurnsStartOnce'
<1> SUFFICES ASSUME NEW t \in Turns PROVE TurnStartsOnce(t)'
  BY DEF TurnsStartOnce
<1>1. TurnStartsOnce(t)
  BY DEF TurnsStartOnce
<1>2. /\ UnderWay(inbox, Execute(t))' <=> UnderWay(inbox', Execute(t))
      /\ AtMostOnce(inbox, Execute(t))' <=> AtMostOnce(inbox', Execute(t))
  BY DEF UnderWay, AtMostOnce, Execute
<1>3. \A l \in Launches : active'[l][t] > 0 => l \in begun[t]
  <2> SUFFICES ASSUME NEW l \in Launches, active'[l][t] > 0 PROVE l \in begun[t]
    OBVIOUS
  <2>1. active'[l][t] = active[l][t]
    BY DEF TurnsOnlyEnd
  <2> QED
    BY <1>1, <2>1 DEF TurnStartsOnce
<1> QED
  BY <1>1, <1>2, <1>3 DEF TurnStartsOnce, TurnsOnlyEnd

\* Calls under a step that requests none and serves none.
LEMMA CallsQuiet ==
  ASSUME CallsAreMadeOnce, served' = served, \A c \in Calls : Made(c) => Made(c)',
         \A c \in Calls : /\ UnderWay(outbox', CallRequest(c)) => UnderWay(outbox, CallRequest(c))
                          /\ AtMostOnce(outbox, CallRequest(c)) => AtMostOnce(outbox', CallRequest(c))
  PROVE  CallsAreMadeOnce'
<1> SUFFICES ASSUME NEW c \in Calls PROVE CallIsMadeOnce(c)'
  BY DEF CallsAreMadeOnce
<1>1. CallIsMadeOnce(c)
  BY DEF CallsAreMadeOnce
<1>2. /\ UnderWay(outbox, CallRequest(c))' <=> UnderWay(outbox', CallRequest(c))
      /\ AtMostOnce(outbox, CallRequest(c))' <=> AtMostOnce(outbox', CallRequest(c))
  BY DEF UnderWay, AtMostOnce, CallRequest
<1> QED
  BY <1>1, <1>2 DEF CallIsMadeOnce

LEMMA MadeStays ==
  ASSUME TurnsOnlyEnd
  PROVE  \A c \in Calls : Made(c) => Made(c)'
<1> SUFFICES ASSUME NEW c \in Calls, Made(c) PROVE Made(c)'
  OBVIOUS
<1>1. c[1] \in Turns
  BY DEF Calls
<1>2. ASSUME NEW l \in Launches PROVE active'[l][c[1]] = 0 \/ active'[l][c[1]] > c[2]
  <2>1. active'[l][c[1]] = active[l][c[1]] \/ active'[l][c[1]] = 0
    BY <1>1 DEF TurnsOnlyEnd
  <2> QED
    BY <2>1 DEF Made
<1> QED
  BY <1>2 DEF Made, TurnsOnlyEnd

\* A worker sends something that is no call request.
LEMMA SpeaksQuietly ==
  ASSUME AgentHostTypeOK, NEW l \in Launches, NEW m \in FromWorker, m.type # "call-request",
         outbox' = Appended(outbox, l, m)
  PROVE  /\ outbox' \in [Launches -> Seq(FromWorker)]
         /\ \A c \in Calls : /\ UnderWay(outbox', CallRequest(c)) => UnderWay(outbox, CallRequest(c))
                             /\ AtMostOnce(outbox, CallRequest(c)) => AtMostOnce(outbox', CallRequest(c))
<1>1. outbox \in [Launches -> Seq(FromWorker)]
  BY DEF AgentHostTypeOK
<1>2. outbox' \in [Launches -> Seq(FromWorker)]
  BY <1>1 DEF Appended
<1>3. ASSUME NEW c \in Calls
      PROVE  /\ UnderWay(outbox', CallRequest(c)) => UnderWay(outbox, CallRequest(c))
             /\ AtMostOnce(outbox, CallRequest(c)) => AtMostOnce(outbox', CallRequest(c))
  <2> DEFINE n == CallRequest(c)
  <2>1. m # n
    BY MessagesFromWorker
  <2> HIDE DEF n
  <2>2. /\ UnderWay(outbox', n) => UnderWay(outbox, n)
        /\ AtMostOnce(outbox, n) => AtMostOnce(outbox', n)
    BY <1>1, <2>1, QueueAppended
  <2> QED
    BY <2>2 DEF n
<1> QED
  BY <1>2, <1>3

\* The 'spawn' event.
LEMMA SpawnedKeeps ==
  ASSUME AgentHostInv, NEW l \in Launches, spawned(l)
  PROVE  AgentHostInv'
<1> USE DEF spawned
<1>1. /\ AgentHostTypeOK /\ LaunchesArePaid /\ WorkersSpeakLate /\ TurnsStartOnce
      /\ CallsAreMadeOnce /\ SettledTurnsHoldNoCalls /\ LedgerFollowsStore
  BY PartsOfInv
<1>2. /\ <<Initialize>> \in Seq(ToWorker)
      /\ \A i \in 1..Len(<<Initialize>>) : /\ <<Initialize>>[i].type # "execute-agent-turn"
                                           /\ <<Initialize>>[i].type # "sync-runtime-state"
  BY MessagesToWorker, OneQuietMessage
<1>3. /\ inbox' \in [Launches -> Seq(ToWorker)]
      /\ \A u \in Turns : /\ UnderWay(inbox', Execute(u)) => UnderWay(inbox, Execute(u))
                          /\ AtMostOnce(inbox, Execute(u)) => AtMostOnce(inbox', Execute(u))
  <2>1. CASE child = l
    BY <1>1, <1>2, <2>1, SentQuietly
  <2>2. CASE child # l
    BY <1>1, <2>2 DEF AgentHostTypeOK
  <2> QED
    BY <2>1, <2>2
<1>4. AgentHostTypeOK'
  BY <1>1, <1>3 DEF AgentHostTypeOK, supVars, timers, turnVars
<1>5. LaunchesArePaid'
  BY <1>1 DEF LaunchesArePaid, supVars, timers
<1>6. WorkersSpeakLate'
  BY <1>1 DEF WorkersSpeakLate, AgentHostTypeOK, supVars
<1>7. TurnsStartOnce'
  BY <1>1, <1>3, TurnsKept DEF turnVars
<1>8. CallsAreMadeOnce'
  BY <1>1, CallsKept DEF turnVars
<1>9. SettledTurnsHoldNoCalls'
  BY <1>1 DEF SettledTurnsHoldNoCalls, turnVars
<1>10. LedgerFollowsStore'
  <2>1. UNCHANGED <<child, status, stopping, ledger, revision>>
    BY DEF supVars
  <2>2. CASE child = l
    BY <1>1, <2>1, <2>2 DEF LedgerFollowsStore, WorkersSpeakLate
  <2>3. CASE child # l
    <3>1. worker'[child] = "running" => worker[child] = "running" \/ child = 0
      BY <1>1, <2>3, BoundsAreNumbers DEF AgentHostTypeOK, Launches
    <3> QED
      BY <1>1, <2>1, <2>3, <3>1, LedgerUntouched
  <2> QED
    BY <2>2, <2>3
<1> QED
  BY <1>4, <1>5, <1>6, <1>7, <1>8, <1>9, <1>10, InvFromParts

\* A worker dies: what it had not read is lost.
LEMMA WorkerExitsKeeps ==
  ASSUME AgentHostInv, NEW l \in Launches, workerExits(l)
  PROVE  AgentHostInv'
<1> USE DEF workerExits
<1>1. /\ AgentHostTypeOK /\ LaunchesArePaid /\ WorkersSpeakLate /\ TurnsStartOnce
      /\ CallsAreMadeOnce /\ SettledTurnsHoldNoCalls /\ LedgerFollowsStore
  BY PartsOfInv
<1>2. inbox \in [Launches -> Seq(ToWorker)] /\ inbox' = [inbox EXCEPT ![l] = <<>>]
  BY <1>1 DEF AgentHostTypeOK
<1>3. /\ inbox' \in [Launches -> Seq(ToWorker)]
      /\ \A u \in Turns : /\ UnderWay(inbox', Execute(u)) => UnderWay(inbox, Execute(u))
                          /\ AtMostOnce(inbox, Execute(u)) => AtMostOnce(inbox', Execute(u))
  <2>1. inbox' \in [Launches -> Seq(ToWorker)]
    BY <1>2
  <2> QED
    BY <1>2, <2>1, QueueCleared
<1>4. AgentHostTypeOK'
  <2>1. crashes' \in 0..MaxCrashes
    BY <1>1, BoundsAreNumbers DEF AgentHostTypeOK
  <2> QED
    BY <1>1, <1>3, <2>1 DEF AgentHostTypeOK, turnVars
<1>5. LaunchesArePaid'
  BY <1>1 DEF LaunchesArePaid
<1>6. WorkersSpeakLate'
  BY <1>1 DEF WorkersSpeakLate, AgentHostTypeOK, Alive
<1>7. TurnsStartOnce'
  BY <1>1, <1>3, TurnsKept DEF turnVars
<1>8. CallsAreMadeOnce'
  BY <1>1, CallsKept DEF turnVars
<1>9. SettledTurnsHoldNoCalls'
  BY <1>1 DEF SettledTurnsHoldNoCalls, turnVars
<1>10. LedgerFollowsStore'
  <2>1. CASE child = l
    BY <1>1, <2>1 DEF LedgerFollowsStore, AgentHostTypeOK
  <2>2. CASE child # l
    <3> SUFFICES ASSUME child # 0 PROVE LedgerFollowsStore'
      BY DEF LedgerFollowsStore
    <3>1. child \in Launches
      BY <1>1, BoundsAreNumbers DEF AgentHostTypeOK, Launches
    <3>2. inbox'[child] = inbox[child] /\ worker'[child] = worker[child]
      BY <1>1, <1>2, <2>2, <3>1 DEF AgentHostTypeOK
    <3> QED
      BY <1>1, <3>2 DEF LedgerFollowsStore, Learns
  <2> QED
    BY <2>1, <2>2
<1> QED
  BY <1>4, <1>5, <1>6, <1>7, <1>8, <1>9, <1>10, InvFromParts

\* A turn ends in the worker.
LEMMA WorkerEndsTurnKeeps ==
  ASSUME AgentHostInv, NEW l \in Launches, NEW t \in Turns, NEW kind \in {"completed", "failed"},
         workerEndsTurn(l, t, kind)
  PROVE  AgentHostInv'
<1> USE DEF workerEndsTurn
<1>1. /\ AgentHostTypeOK /\ LaunchesArePaid /\ WorkersSpeakLate /\ TurnsStartOnce
      /\ CallsAreMadeOnce /\ SettledTurnsHoldNoCalls /\ LedgerFollowsStore
  BY PartsOfInv
<1>2. /\ outbox' \in [Launches -> Seq(FromWorker)]
      /\ \A c \in Calls : /\ UnderWay(outbox', CallRequest(c)) => UnderWay(outbox, CallRequest(c))
                          /\ AtMostOnce(outbox, CallRequest(c)) => AtMostOnce(outbox', CallRequest(c))
  <2>1. TurnEnd(t, kind) \in FromWorker /\ TurnEnd(t, kind).type # "call-request"
    BY MessagesFromWorker
  <2>2. outbox' = Appended(outbox, l, TurnEnd(t, kind))
    BY DEF Appended
  <2> HIDE DEF workerEndsTurn
  <2> QED
    BY <1>1, <2>1, <2>2, SpeaksQuietly
<1>3. TurnsOnlyEnd /\ active' \in [Launches -> [Turns -> 0..(MaxCalls + 1)]]
  BY <1>1, BoundsAreNumbers DEF TurnsOnlyEnd, AgentHostTypeOK
<1>4. AgentHostTypeOK'
  BY <1>1, <1>2, <1>3 DEF AgentHostTypeOK, supVars, timers, turnVars
<1>5. LaunchesArePaid'
  BY <1>1 DEF LaunchesArePaid, supVars, timers
<1>6. WorkersSpeakLate'
  BY <1>1 DEF WorkersSpeakLate, AgentHostTypeOK, supVars
<1>7. TurnsStartOnce'
  BY <1>1, <1>3, TurnsEnding DEF turnVars
<1>8. CallsAreMadeOnce'
  BY <1>1, <1>2, <1>3, MadeStays, CallsQuiet DEF turnVars
<1>9. SettledTurnsHoldNoCalls'
  BY <1>1 DEF SettledTurnsHoldNoCalls, turnVars
<1>10. LedgerFollowsStore'
  BY <1>1, LedgerUntouched DEF supVars
<1> QED
  BY <1>4, <1>5, <1>6, <1>7, <1>8, <1>9, <1>10, InvFromParts

\* A call is requested for the first time.
LEMMA AppendedOnce ==
  ASSUME NEW S, NEW q \in [Launches -> Seq(S)], NEW l \in Launches, NEW m \in S,
         ~UnderWay(q, m), NEW r, r = Appended(q, l, m)
  PROVE  AtMostOnce(r, m)
<1>1. r = [q EXCEPT ![l] = @ \o <<m>>]
  <2>1. Append(q[l], m) = q[l] \o <<m>>
    OBVIOUS
  <2> QED
    BY <2>1 DEF Appended
<1> QED
  BY <1>1, QueueGains

\* A turn in the worker makes its next call.
LEMMA WorkerCallsKeeps ==
  ASSUME AgentHostInv, NEW l \in Launches, NEW t \in Turns, workerCalls(l, t)
  PROVE  AgentHostInv'
<1> DEFINE n == active[l][t]
           c == <<t, n>>
<1>1. /\ AgentHostTypeOK /\ LaunchesArePaid /\ WorkersSpeakLate /\ TurnsStartOnce
      /\ CallsAreMadeOnce /\ SettledTurnsHoldNoCalls /\ LedgerFollowsStore
  BY PartsOfInv
<1>2. /\ worker[l] = "running" /\ n \in 1..MaxCalls
      /\ active' = [active EXCEPT ![l][t] = @ + 1]
      /\ waiting' = [waiting EXCEPT ![l] = @ \cup {c}]
      /\ outbox' = Appended(outbox, l, CallRequest(c))
      /\ UNCHANGED <<supVars, turnVars, worker, ledger, begun, inbox>>
  BY DEF workerCalls, Appended
<1>3. /\ c \in Calls /\ CallRequest(c) \in FromWorker
      /\ active \in [Launches -> [Turns -> 0..(MaxCalls + 1)]]
      /\ outbox \in [Launches -> Seq(FromWorker)]
  BY <1>1, <1>2, MessagesFromWorker DEF Calls, AgentHostTypeOK
<1>4. /\ active' \in [Launches -> [Turns -> 0..(MaxCalls + 1)]]
      /\ active'[l][t] = n + 1
      /\ \A j \in Launches, u \in Turns : j # l \/ u # t => active'[j][u] = active[j][u]
  <2>1. n + 1 \in 0..(MaxCalls + 1)
    BY <1>2, BoundsAreNumbers
  <2> QED
    BY <1>2, <1>3, <2>1
<1>5. l \in begun[t] /\ \A j \in begun[t] : j = l
  <2>1. TurnStartsOnce(t)
    BY <1>1 DEF TurnsStartOnce
  <2>2. n > 0
    BY <1>2, BoundsAreNumbers
  <2> QED
    BY <2>1, <2>2 DEF TurnStartsOnce
<1>6. \A j \in Launches : j # l => active[j][t] = 0
  <2> SUFFICES ASSUME NEW j \in Launches, j # l PROVE active[j][t] = 0
    OBVIOUS
  <2>1. active[j][t] > 0 => j \in begun[t]
    BY <1>1 DEF TurnsStartOnce, TurnStartsOnce
  <2>2. active[j][t] \in 0..(MaxCalls + 1)
    BY <1>3
  <2> QED
    BY <1>5, <2>1, <2>2, BoundsAreNumbers
<1>7. ~UnderWay(outbox, CallRequest(c)) /\ served[c] = 0
  <2>1. ~Made(c)
    BY <1>2 DEF Made
  <2>2. CallIsMadeOnce(c)
    BY <1>1, <1>3 DEF CallsAreMadeOnce
  <2> QED
    BY <2>1, <2>2 DEF CallIsMadeOnce
<1>8. outbox' \in [Launches -> Seq(FromWorker)]
  BY <1>2, <1>3 DEF Appended
<1>9. AgentHostTypeOK'
  <2>1. waiting' \in [Launches -> SUBSET Calls]
    BY <1>1, <1>2, <1>3 DEF AgentHostTypeOK
  <2> QED
    BY <1>1, <1>2, <1>4, <1>8, <2>1 DEF AgentHostTypeOK, supVars, timers, turnVars
<1>10. LaunchesArePaid'
  BY <1>1, <1>2 DEF LaunchesArePaid, supVars, timers
<1>11. WorkersSpeakLate'
  <2>1. \A j \in Launches : j # l => outbox'[j] = outbox[j]
    BY <1>2, <1>3 DEF Appended
  <2> QED
    BY <1>1, <1>2, <2>1 DEF WorkersSpeakLate, supVars
<1>12. TurnsStartOnce'
  <2> SUFFICES ASSUME NEW u \in Turns PROVE TurnStartsOnce(u)'
    BY DEF TurnsStartOnce
  <2>1. TurnStartsOnce(u)
    BY <1>1 DEF TurnsStartOnce
  <2>2. /\ UnderWay(inbox, Execute(u))' <=> UnderWay(inbox, Execute(u))
        /\ AtMostOnce(inbox, Execute(u))' <=> AtMostOnce(inbox, Execute(u))
    BY <1>2 DEF UnderWay, AtMostOnce, Execute
  <2>3. \A j \in Launches : active'[j][u] > 0 => j \in begun[u]
    <3>1. CASE u = t
      BY <1>4, <1>5, <1>6, <3>1, <2>1 DEF TurnStartsOnce
    <3>2. CASE u # t
      BY <1>4, <3>2, <2>1 DEF TurnStartsOnce
    <3> QED
      BY <3>1, <3>2
  <2>4. begun' = begun /\ turns' = turns
    BY <1>2 DEF turnVars
  <2> QED
    BY <2>1, <2>2, <2>3, <2>4 DEF TurnStartsOnce
<1>13. CallsAreMadeOnce'
  <2> SUFFICES ASSUME NEW d \in Calls PROVE CallIsMadeOnce(d)'
    BY DEF CallsAreMadeOnce
  <2>1. CallIsMadeOnce(d)
    BY <1>1 DEF CallsAreMadeOnce
  <2>2. /\ UnderWay(outbox, CallRequest(d))' <=> UnderWay(outbox', CallRequest(d))
        /\ AtMostOnce(outbox, CallRequest(d))' <=> AtMostOnce(outbox', CallRequest(d))
    BY DEF UnderWay, AtMostOnce, CallRequest
  <2>3. begun' = begun /\ served' = served
    BY <1>2 DEF turnVars
  <2>4. CASE d = c
    <3>1. AtMostOnce(outbox', CallRequest(c))
      BY <1>2, <1>3, <1>7, AppendedOnce
    <3>2. d[1] = t /\ d[2] = n
      BY <2>4
    <3>3. Made(d)'
      <4>1. \A j \in Launches : active'[j][t] = 0 \/ active'[j][t] > n
        BY <1>2, <1>4, <1>6, BoundsAreNumbers
      <4> QED
        BY <1>5, <2>3, <3>2, <4>1 DEF Made
    <3> QED
      BY <1>7, <2>2, <2>3, <2>4, <3>1, <3>3 DEF CallIsMadeOnce
  <2>5. CASE d # c
    <3>1. d[1] \in Turns /\ d[2] \in Nat
      BY BoundsAreNumbers DEF Calls
    <3>2. Made(d) => Made(d)'
      <4> SUFFICES ASSUME Made(d), NEW j \in Launches
                   PROVE  active'[j][d[1]] = 0 \/ active'[j][d[1]] > d[2]
        BY <2>3 DEF Made
      <4>1. active[j][d[1]] = 0 \/ active[j][d[1]] > d[2]
        BY DEF Made
      <4>2. CASE j = l /\ d[1] = t
        BY <1>2, <1>4, <3>1, <4>1, <4>2, BoundsAreNumbers
      <4>3. CASE j # l \/ d[1] # t
        BY <1>4, <3>1, <4>1, <4>3
      <4> QED
        BY <4>2, <4>3
    <3>3. CallRequest(c) # CallRequest(d)
      BY <1>3, <2>5, MessagesFromWorker
    <3> DEFINE x == CallRequest(c)
               m == CallRequest(d)
    <3>4. x # m /\ x \in FromWorker /\ outbox' = Appended(outbox, l, x)
      BY <1>2, <1>3, <3>3
    <3> HIDE DEF x, m
    <3>5. /\ UnderWay(outbox', m) => UnderWay(outbox, m)
          /\ AtMostOnce(outbox, m) => AtMostOnce(outbox', m)
      BY <1>3, <3>4, QueueAppended
    <3> QED
      BY <2>1, <2>2, <2>3, <3>2, <3>5 DEF CallIsMadeOnce, m
  <2> QED
    BY <2>4, <2>5
<1>14. SettledTurnsHoldNoCalls'
  BY <1>1, <1>2 DEF SettledTurnsHoldNoCalls, turnVars
<1>15. LedgerFollowsStore'
  BY <1>1, <1>2, LedgerUntouched DEF supVars
<1> QED
  BY <1>9, <1>10, <1>11, <1>12, <1>13, <1>14, <1>15, InvFromParts

\* Taking a message away from a worker's inbox.
LEMMA InboxTaken ==
  ASSUME AgentHostTypeOK, NEW l \in Launches, inbox[l] # <<>>, inbox' = Taken(inbox, l)
  PROVE  /\ inbox' \in [Launches -> Seq(ToWorker)] /\ Head(inbox[l]) \in ToWorker
         /\ \A t \in Turns : /\ UnderWay(inbox', Execute(t)) => UnderWay(inbox, Execute(t))
                             /\ AtMostOnce(inbox, Execute(t)) => AtMostOnce(inbox', Execute(t))
                             /\ Head(inbox[l]) = Execute(t) => UnderWay(inbox, Execute(t))
                             /\ AtMostOnce(inbox, Execute(t)) /\ Head(inbox[l]) = Execute(t)
                                  => ~UnderWay(inbox', Execute(t))
<1>1. inbox \in [Launches -> Seq(ToWorker)]
  BY DEF AgentHostTypeOK
<1>2. inbox' \in [Launches -> Seq(ToWorker)] /\ Head(inbox[l]) \in ToWorker
  BY <1>1 DEF Taken
<1>3. ASSUME NEW t \in Turns
      PROVE  /\ UnderWay(inbox', Execute(t)) => UnderWay(inbox, Execute(t))
             /\ AtMostOnce(inbox, Execute(t)) => AtMostOnce(inbox', Execute(t))
             /\ Head(inbox[l]) = Execute(t) => UnderWay(inbox, Execute(t))
             /\ AtMostOnce(inbox, Execute(t)) /\ Head(inbox[l]) = Execute(t)
                  => ~UnderWay(inbox', Execute(t))
  <2> DEFINE n == Execute(t)
  <2> HIDE DEF n
  <2>1. /\ UnderWay(inbox', n) => UnderWay(inbox, n)
        /\ AtMostOnce(inbox, n) => AtMostOnce(inbox', n)
        /\ Head(inbox[l]) = n => UnderWay(inbox, n)
        /\ AtMostOnce(inbox, n) /\ Head(inbox[l]) = n => ~UnderWay(inbox', n)
    BY <1>1, QueueTaken
  <2> QED
    BY <2>1 DEF n
<1> QED
  BY <1>2, <1>3

\* What the worker answers to a message is no call request.
LEMMA WorkerAnswers ==
  ASSUME AgentHostTypeOK, NEW l \in Launches, workerReceives(l)
  PROVE  /\ outbox' \in [Launches -> Seq(FromWorker)]
         /\ \A j \in Launches : j # l => outbox'[j] = outbox[j]
         /\ \A c \in Calls : /\ UnderWay(outbox', CallRequest(c)) => UnderWay(outbox, CallRequest(c))
                             /\ AtMostOnce(outbox, CallRequest(c)) => AtMostOnce(outbox', CallRequest(c))
<1> DEFINE m == Head(inbox[l])
<1>1. m \in ToWorker /\ outbox \in [Launches -> Seq(FromWorker)]
  BY DEF workerReceives, AgentHostTypeOK
<1>2. CASE m.type = "initialize"
  <2>1. outbox' = Appended(outbox, l, Ready)
    BY <1>2 DEF workerReceives, Appended
  <2>2. Ready \in FromWorker /\ Ready.type # "call-request"
    BY MessagesFromWorker
  <2>3. \A j \in Launches : j # l => outbox'[j] = outbox[j]
    BY <1>1, <2>1 DEF Appended
  <2> QED
    BY <2>1, <2>2, <2>3, SpeaksQuietly
<1>3. CASE m.type = "cancel-agent-turn" /\ active[l][m.turn] > 0
  <2>1. outbox' = Appended(outbox, l, TurnEnd(m.turn, "failed"))
    BY <1>3 DEF workerReceives, Appended
  <2>2. m.turn \in Turns
    BY <1>1, <1>3, ReceivedByWorker
  <2>3. TurnEnd(m.turn, "failed") \in FromWorker /\ TurnEnd(m.turn, "failed").type # "call-request"
    BY <2>2, MessagesFromWorker
  <2>4. \A j \in Launches : j # l => outbox'[j] = outbox[j]
    BY <1>1, <2>1 DEF Appended
  <2> QED
    BY <2>1, <2>3, <2>4, SpeaksQuietly
<1>4. CASE m.type # "initialize" /\ ~(m.type = "cancel-agent-turn" /\ active[l][m.turn] > 0)
  <2>1. outbox' = outbox
    BY <1>4 DEF workerReceives
  <2> QED
    BY <1>1, <2>1
<1> QED
  BY <1>2, <1>3, <1>4

\* The worker starts a turn: no worker did before.
LEMMA WorkerStartsTurn ==
  ASSUME AgentHostInv, NEW l \in Launches, workerReceives(l),
         Head(inbox[l]).type = "execute-agent-turn"
  PROVE  TurnsStartOnce' /\ \A c \in Calls : Made(c) => Made(c)'
<1> DEFINE t == Head(inbox[l]).turn
<1>1. AgentHostTypeOK /\ TurnsStartOnce
  BY PartsOfInv
<1>2. inbox[l] # <<>> /\ inbox' = Taken(inbox, l) /\ turns' = turns
  BY DEF workerReceives, Taken, turnVars
<1>3. Head(inbox[l]) \in ToWorker
  BY <1>1, <1>2, InboxTaken
<1>4. t \in Turns /\ Head(inbox[l]) = Execute(t)
  BY <1>3, ReceivedByWorker
<1>5. /\ begun' = [begun EXCEPT ![t] = @ \cup {l}] /\ active' = [active EXCEPT ![l][t] = 1]
      /\ begun \in [Turns -> SUBSET Launches]
      /\ active \in [Launches -> [Turns -> 0..(MaxCalls + 1)]]
  BY <1>1 DEF workerReceives, AgentHostTypeOK
<1> HIDE DEF t
<1>6. \A u \in Turns : /\ UnderWay(inbox', Execute(u)) => UnderWay(inbox, Execute(u))
                       /\ AtMostOnce(inbox, Execute(u)) => AtMostOnce(inbox', Execute(u))
  BY <1>1, <1>2, InboxTaken
<1>7. begun[t] = {} /\ turns[t] # "none" /\ ~UnderWay(inbox', Execute(t))
  <2>1. TurnStartsOnce(t)
    BY <1>1, <1>4 DEF TurnsStartOnce
  <2>2. UnderWay(inbox, Execute(t)) /\ (AtMostOnce(inbox, Execute(t)) => ~UnderWay(inbox', Execute(t)))
    BY <1>1, <1>2, <1>4, InboxTaken
  <2> QED
    BY <2>1, <2>2 DEF TurnStartsOnce
<1>8. /\ begun'[t] = {l}
      /\ \A u \in Turns : u # t => /\ begun'[u] = begun[u]
                                   /\ \A j \in Launches : active'[j][u] = active[j][u]
      /\ \A j \in Launches : j # l => active'[j][t] = active[j][t]
  BY <1>4, <1>5, <1>7
<1>9. TurnsStartOnce'
  <2> SUFFICES ASSUME NEW u \in Turns PROVE TurnStartsOnce(u)'
    BY DEF TurnsStartOnce
  <2>1. TurnStartsOnce(u)
    BY <1>1 DEF TurnsStartOnce
  <2>2. /\ UnderWay(inbox, Execute(u))' <=> UnderWay(inbox', Execute(u))
        /\ AtMostOnce(inbox, Execute(u))' <=> AtMostOnce(inbox', Execute(u))
    BY DEF UnderWay, AtMostOnce, Execute
  <2>3. CASE u = t
    <3>1. \A j \in Launches : active'[j][t] > 0 => j \in begun'[t]
      BY <1>7, <1>8, <2>1, <2>3 DEF TurnStartsOnce
    <3> QED
      BY <1>2, <1>6, <1>7, <1>8, <2>1, <2>2, <2>3, <3>1 DEF TurnStartsOnce
  <2>4. CASE u # t
    BY <1>2, <1>6, <1>8, <2>1, <2>2, <2>4 DEF TurnStartsOnce
  <2> QED
    BY <2>3, <2>4
<1>10. ASSUME NEW c \in Calls, Made(c) PROVE Made(c)'
  <2>1. c[1] \in Turns /\ c[1] # t
    BY <1>7, <1>10 DEF Made, Calls
  <2> QED
    BY <1>8, <1>10, <2>1 DEF Made
<1> QED
  BY <1>9, <1>10

\* The worker takes a message.
LEMMA WorkerReceivesKeeps ==
  ASSUME AgentHostInv, NEW l \in Launches, workerReceives(l)
  PROVE  AgentHostInv'
<1> DEFINE m == Head(inbox[l])
<1>1. /\ AgentHostTypeOK /\ LaunchesArePaid /\ WorkersSpeakLate /\ TurnsStartOnce
      /\ CallsAreMadeOnce /\ SettledTurnsHoldNoCalls /\ LedgerFollowsStore
  BY PartsOfInv
<1>2. /\ worker[l] = "running" /\ inbox[l] # <<>> /\ inbox' = Taken(inbox, l)
      /\ UNCHANGED <<supVars, turnVars>>
      /\ worker' = IF m.type = "shutdown" THEN [worker EXCEPT ![l] = "exited"] ELSE worker
      /\ ledger' = IF m.type = "sync-runtime-state" THEN [ledger EXCEPT ![l] = m.rev] ELSE ledger
  BY DEF workerReceives, Taken
<1>3. /\ m \in ToWorker /\ inbox' \in [Launches -> Seq(ToWorker)]
      /\ \A u \in Turns : /\ UnderWay(inbox', Execute(u)) => UnderWay(inbox, Execute(u))
                          /\ AtMostOnce(inbox, Execute(u)) => AtMostOnce(inbox', Execute(u))
  BY <1>1, <1>2, InboxTaken
<1>4. /\ outbox' \in [Launches -> Seq(FromWorker)]
      /\ \A j \in Launches : j # l => outbox'[j] = outbox[j]
      /\ \A c \in Calls : /\ UnderWay(outbox', CallRequest(c)) => UnderWay(outbox, CallRequest(c))
                          /\ AtMostOnce(outbox, CallRequest(c)) => AtMostOnce(outbox', CallRequest(c))
  BY <1>1, WorkerAnswers
<1>5. AgentHostTypeOK'
  <2>1. begun' \in [Turns -> SUBSET Launches]
    <3>1. begun' = begun \/ \E t \in Turns : begun' = [begun EXCEPT ![t] = @ \cup {l}]
      BY <1>3, ReceivedByWorker DEF workerReceives
    <3>2. begun \in [Turns -> SUBSET Launches]
      BY <1>1 DEF AgentHostTypeOK
    <3> HIDE DEF m
    <3>3. ASSUME NEW t \in Turns, begun' = [begun EXCEPT ![t] = @ \cup {l}]
          PROVE  begun' \in [Turns -> SUBSET Launches]
      BY <3>2, <3>3
    <3> QED
      BY <3>1, <3>2, <3>3
  <2>2. active' \in [Launches -> [Turns -> 0..(MaxCalls + 1)]]
    <3>1. active' = active \/ \E t \in Turns, n \in {0, 1} : active' = [active EXCEPT ![l][t] = n]
      BY <1>3, ReceivedByWorker DEF workerReceives
    <3>2. 0 \in 0..(MaxCalls + 1) /\ 1 \in 0..(MaxCalls + 1)
      BY BoundsAreNumbers
    <3>3. active \in [Launches -> [Turns -> 0..(MaxCalls + 1)]]
      BY <1>1 DEF AgentHostTypeOK
    <3>4. ASSUME NEW t \in Turns, NEW n \in {0, 1}, active' = [active EXCEPT ![l][t] = n]
          PROVE  active' \in [Launches -> [Turns -> 0..(MaxCalls + 1)]]
      BY <3>2, <3>3, <3>4
    <3> QED
      BY <3>1, <3>3, <3>4
  <2>3. waiting' \in [Launches -> SUBSET Calls]
    <3>1. waiting' = waiting \/ \E cs : waiting' = [waiting EXCEPT ![l] = @ \ cs]
      BY <1>3, ReceivedByWorker DEF workerReceives
    <3>2. waiting \in [Launches -> SUBSET Calls]
      BY <1>1 DEF AgentHostTypeOK
    <3>3. ASSUME NEW cs, waiting' = [waiting EXCEPT ![l] = @ \ cs]
          PROVE  waiting' \in [Launches -> SUBSET Calls]
      BY <3>2, <3>3
    <3> QED
      BY <3>1, <3>2, <3>3
  <2>4. ledger' \in [Launches -> 0..MaxRevision]
    BY <1>1, <1>2, <1>3, ReceivedByWorker DEF AgentHostTypeOK
  <2>5. worker' \in [Launches -> {"none", "booting", "running", "killed", "exited"}]
    BY <1>1, <1>2 DEF AgentHostTypeOK
  <2> QED
    BY <1>1, <1>2, <1>3, <1>4, <2>1, <2>2, <2>3, <2>4, <2>5
    DEF AgentHostTypeOK, supVars, timers, turnVars
<1>6. LaunchesArePaid'
  BY <1>1, <1>2 DEF LaunchesArePaid, supVars, timers
<1>7. WorkersSpeakLate'
  <2>1. worker'[l] \in {"running", "exited"} /\ \A j \in Launches : j # l => worker'[j] = worker[j]
    BY <1>1, <1>2 DEF AgentHostTypeOK
  <2>2. child' = child /\ launches' = launches /\ status' = status
    BY <1>2 DEF supVars
  <2>3. \A j \in Launches : j > launches => worker'[j] = "none"
    BY <1>1, <1>2, <2>1 DEF WorkersSpeakLate
  <2>4. \A j \in Launches : worker'[j] \in {"none", "booting"} => outbox'[j] = <<>>
    BY <1>1, <1>4, <2>1 DEF WorkersSpeakLate
  <2>5. status = "ready" => child # 0 /\ worker'[child] \notin {"none", "booting"}
    <3> SUFFICES ASSUME status = "ready" PROVE child # 0 /\ worker'[child] \notin {"none", "booting"}
      OBVIOUS
    <3>1. child # 0 /\ worker[child] \notin {"none", "booting"}
      BY <1>1 DEF WorkersSpeakLate
    <3>2. child \in Launches
      BY <1>1, <3>1, BoundsAreNumbers DEF AgentHostTypeOK, Launches
    <3> QED
      BY <2>1, <3>1, <3>2
  <2> QED
    BY <2>2, <2>3, <2>4, <2>5 DEF WorkersSpeakLate
<1>8. TurnsStartOnce' /\ \A c \in Calls : Made(c) => Made(c)'
  <2>1. CASE m.type = "execute-agent-turn"
    BY <2>1, WorkerStartsTurn
  <2>2. CASE m.type # "execute-agent-turn"
    <3>1. TurnsOnlyEnd
      <4>1. begun' = begun
        BY <2>2 DEF workerReceives
      <4>2. active' = active \/ \E t \in Turns : active' = [active EXCEPT ![l][t] = 0]
        BY <1>3, <2>2, ReceivedByWorker DEF workerReceives
      <4>3. active \in [Launches -> [Turns -> 0..(MaxCalls + 1)]]
        BY <1>1 DEF AgentHostTypeOK
      <4>4. ASSUME NEW t \in Turns, active' = [active EXCEPT ![l][t] = 0],
                   NEW j \in Launches, NEW u \in Turns
            PROVE  active'[j][u] \in {active[j][u], 0}
        BY <4>3, <4>4
      <4> QED
        BY <4>1, <4>2, <4>4 DEF TurnsOnlyEnd
    <3> QED
      BY <1>1, <1>2, <1>3, <3>1, TurnsEnding, MadeStays DEF turnVars
  <2> QED
    BY <2>1, <2>2
<1>9. CallsAreMadeOnce'
  BY <1>1, <1>2, <1>4, <1>8, CallsQuiet DEF turnVars
<1>10. SettledTurnsHoldNoCalls'
  BY <1>1, <1>2 DEF SettledTurnsHoldNoCalls, turnVars
<1>11. LedgerFollowsStore'
  <2>1. UNCHANGED <<child, status, stopping, revision>>
    BY <1>2 DEF supVars
  <2> SUFFICES ASSUME status = "ready", child # 0, worker'[child] = "running", stopping = "no"
               PROVE  Learns(inbox'[child], ledger'[child], revision)
    BY <2>1 DEF LedgerFollowsStore, Learns
  <2>2. child \in Launches
    BY <1>1, BoundsAreNumbers DEF AgentHostTypeOK, Launches
  <2>3. worker[child] = "running"
    BY <1>1, <1>2, <2>2 DEF AgentHostTypeOK
  <2>4. Learns(inbox[child], ledger[child], revision)
    BY <1>1, <2>3 DEF LedgerFollowsStore
  <2>5. CASE child = l
    <3>1. inbox[l] \in Seq(ToWorker) /\ inbox'[l] = Tail(inbox[l])
      BY <1>1, <1>2 DEF AgentHostTypeOK, Taken
    <3>2. ledger'[l] = IF m.type = "sync-runtime-state" THEN m.rev ELSE ledger[l]
      BY <1>1, <1>2 DEF AgentHostTypeOK
    <3> QED
      BY <1>2, <2>4, <2>5, <3>1, <3>2, LearnsHead
  <2>6. CASE child # l
    <3>1. inbox'[child] = inbox[child] /\ ledger'[child] = ledger[child]
      BY <1>1, <1>2, <2>2, <2>6 DEF AgentHostTypeOK, Taken
    <3> QED
      BY <2>4, <3>1
  <2> QED
    BY <2>5, <2>6
<1> QED
  BY <1>5, <1>6, <1>7, <1>8, <1>9, <1>10, <1>11, InvFromParts

-----------------------------------------------------------------------------
\* The supervisor's message handler.

\* What taking a message out of a worker's outbox does to call requests.
OutboxTaken(l) ==
  /\ outbox' \in [Launches -> Seq(FromWorker)]
  /\ \A j \in Launches : outbox[j] = <<>> => outbox'[j] = <<>>
  /\ \A c \in Calls : /\ UnderWay(outbox', CallRequest(c)) => UnderWay(outbox, CallRequest(c))
                      /\ AtMostOnce(outbox, CallRequest(c)) => AtMostOnce(outbox', CallRequest(c))
                      /\ Head(outbox[l]) = CallRequest(c) => UnderWay(outbox, CallRequest(c))
                      /\ AtMostOnce(outbox, CallRequest(c)) /\ Head(outbox[l]) = CallRequest(c)
                           => ~UnderWay(outbox', CallRequest(c))

\* What every branch of the handler leaves behind.
Handled(l) ==
  /\ status' = status \/ (status' = "ready" /\ child = l)
  /\ {everReady', readyTimer'} \subseteq BOOLEAN
  /\ start' \in {"waiting", "resolved", "rejected"}
  /\ inbox' \in [Launches -> Seq(ToWorker)]
  /\ \A t \in Turns : /\ UnderWay(inbox', Execute(t)) => UnderWay(inbox, Execute(t))
                      /\ AtMostOnce(inbox, Execute(t)) => AtMostOnce(inbox', Execute(t))
  /\ turns' \in [Turns -> {"none", "pending"} \cup Settled]
  /\ \A t \in Turns : turns'[t] = "none" => turns[t] = "none"
  /\ hostCalls' \subseteq Calls /\ handlers' \subseteq Calls /\ aborted' \subseteq Calls
  /\ served' \in [Calls -> 0..1] /\ unposted' \subseteq Calls
  /\ SettledTurnsHoldNoCalls' /\ CallsAreMadeOnce' /\ LedgerFollowsStore'

LEMMA OutboxIsTaken ==
  ASSUME AgentHostTypeOK, NEW l \in Launches, outbox[l] # <<>>, outbox' = Taken(outbox, l)
  PROVE  OutboxTaken(l) /\ Head(outbox[l]) \in FromWorker
<1>1. outbox \in [Launches -> Seq(FromWorker)]
  BY DEF AgentHostTypeOK
<1>2. /\ outbox' \in [Launches -> Seq(FromWorker)] /\ Head(outbox[l]) \in FromWorker
      /\ \A j \in Launches : outbox[j] = <<>> => outbox'[j] = <<>>
  BY <1>1 DEF Taken
<1>3. ASSUME NEW c \in Calls
      PROVE  /\ UnderWay(outbox', CallRequest(c)) => UnderWay(outbox, CallRequest(c))
             /\ AtMostOnce(outbox, CallRequest(c)) => AtMostOnce(outbox', CallRequest(c))
             /\ Head(outbox[l]) = CallRequest(c) => UnderWay(outbox, CallRequest(c))
             /\ AtMostOnce(outbox, CallRequest(c)) /\ Head(outbox[l]) = CallRequest(c)
                  => ~UnderWay(outbox', CallRequest(c))
  <2> DEFINE n == CallRequest(c)
  <2> HIDE DEF n
  <2>1. /\ UnderWay(outbox', n) => UnderWay(outbox, n)
        /\ AtMostOnce(outbox, n) => AtMostOnce(outbox', n)
        /\ Head(outbox[l]) = n => UnderWay(outbox, n)
        /\ AtMostOnce(outbox, n) /\ Head(outbox[l]) = n => ~UnderWay(outbox', n)
    BY <1>1, QueueTaken
  <2> QED
    BY <2>1 DEF n
<1> QED
  BY <1>2, <1>3 DEF OutboxTaken

\* Calls when a message that is not served is taken.
LEMMA CallsDropped ==
  ASSUME CallsAreMadeOnce, UNCHANGED <<begun, active, served>>, NEW l \in Launches, OutboxTaken(l)
  PROVE  CallsAreMadeOnce'
<1>1. \A c \in Calls : Made(c) => Made(c)'
  BY DEF Made
<1> QED
  BY <1>1, CallsQuiet DEF OutboxTaken

\* A message of a worker that is not the child.
LEMMA OtherChildHandled ==
  ASSUME AgentHostInv, NEW l \in Launches, OutboxTaken(l), UNCHANGED <<child, stopping, revision, workVars>>,
         UNCHANGED <<status, everReady, readyTimer, start, inbox, turnVars>>
  PROVE  Handled(l)
<1>1. /\ AgentHostTypeOK /\ CallsAreMadeOnce /\ SettledTurnsHoldNoCalls /\ LedgerFollowsStore
  BY PartsOfInv
<1>2. CallsAreMadeOnce'
  BY <1>1, CallsDropped DEF workVars, turnVars
<1>3. SettledTurnsHoldNoCalls'
  BY <1>1 DEF SettledTurnsHoldNoCalls, turnVars
<1>4. LedgerFollowsStore'
  BY <1>1, LedgerUntouched DEF workVars
<1>5. UNCHANGED <<turns, hostCalls, handlers, aborted, served, unposted>>
  BY DEF turnVars
<1> QED
  BY <1>1, <1>2, <1>3, <1>4, <1>5 DEF Handled, AgentHostTypeOK

\* The child reports ready: it is sent the latest snapshot.
LEMMA ReadyHandled ==
  ASSUME AgentHostInv, NEW l \in Launches, OutboxTaken(l), UNCHANGED <<child, stopping, revision, workVars>>,
         child = l, receiveReady(l)
  PROVE  Handled(l)
<1> DEFINE m == SyncState(revision)
<1>1. /\ AgentHostTypeOK /\ CallsAreMadeOnce /\ SettledTurnsHoldNoCalls
  BY PartsOfInv
<1>2. revision \in 0..MaxRevision /\ child \in Launches /\ child # 0
  BY <1>1, BoundsAreNumbers DEF AgentHostTypeOK, Launches
<1>3. m \in ToWorker /\ m.type = "sync-runtime-state"
  BY <1>2, MessagesToWorker
<1>4. inbox' = Sent(<<m>>) /\ UNCHANGED <<turns, hostCalls, handlers, aborted, served, unposted>>
  BY DEF receiveReady, OnReady, turnVars
<1> HIDE DEF m
<1>5. <<m>> \in Seq(ToWorker) /\ \A i \in 1..Len(<<m>>) : <<m>>[i].type # "execute-agent-turn"
  BY <1>3
<1>6. /\ inbox' \in [Launches -> Seq(ToWorker)]
      /\ \A t \in Turns : /\ UnderWay(inbox', Execute(t)) => UnderWay(inbox, Execute(t))
                          /\ AtMostOnce(inbox, Execute(t)) => AtMostOnce(inbox', Execute(t))
  BY <1>1, <1>4, <1>5, SentQuietly
<1>7. CallsAreMadeOnce'
  BY <1>1, <1>4, CallsDropped DEF workVars
<1>8. SettledTurnsHoldNoCalls'
  BY <1>1, <1>4 DEF SettledTurnsHoldNoCalls
<1>9. LedgerFollowsStore'
  <2>1. inbox[child] \in Seq(ToWorker) /\ inbox'[child] = inbox[child] \o <<m>>
    BY <1>1, <1>2, <1>4 DEF AgentHostTypeOK, Sent
  <2>2. Learns(inbox'[child], ledger[child], revision)
    BY <1>2, <2>1, LearnsLast DEF m
  <2>3. ledger' = ledger
    BY DEF workVars
  <2> QED
    BY <2>2, <2>3 DEF LedgerFollowsStore, Learns
<1>10. /\ status' = "ready" /\ {everReady', readyTimer'} \subseteq BOOLEAN
       /\ start' \in {"waiting", "resolved", "rejected"}
  BY <1>1 DEF receiveReady, AgentHostTypeOK
<1> QED
  BY <1>1, <1>4, <1>6, <1>7, <1>8, <1>9, <1>10 DEF Handled, AgentHostTypeOK

\* A turn's result or failure: a pending turn is settled and its calls aborted.
LEMMA TurnEndHandled ==
  ASSUME AgentHostInv, NEW l \in Launches, OutboxTaken(l), UNCHANGED <<child, stopping, revision, workVars>>,
         NEW t \in Turns, NEW kind \in {"completed", "failed"}, receiveTurnEnd(t, kind)
  PROVE  Handled(l)
<1>1. /\ AgentHostTypeOK /\ CallsAreMadeOnce /\ SettledTurnsHoldNoCalls /\ LedgerFollowsStore
  BY PartsOfInv
<1>2. /\ turns' = [turns EXCEPT ![t] = IF @ = "pending" THEN kind ELSE @]
      /\ turns \in [Turns -> {"none", "pending"} \cup Settled]
      /\ UNCHANGED <<status, everReady, readyTimer, start, inbox, served, unposted>>
      /\ IF turns[t] = "pending" THEN Abort(CallsOf({t})) ELSE UNCHANGED <<hostCalls, handlers, aborted>>
  BY <1>1 DEF receiveTurnEnd, AgentHostTypeOK
<1>3. /\ turns' \in [Turns -> {"none", "pending"} \cup Settled]
      /\ \A u \in Turns : turns'[u] = "none" => turns[u] = "none"
  BY <1>2 DEF Settled
<1>4. hostCalls' \subseteq Calls /\ handlers' \subseteq handlers /\ handlers \subseteq Calls /\ aborted' \subseteq Calls
  BY <1>1, <1>2 DEF AgentHostTypeOK, Abort
<1>5. SettledTurnsHoldNoCalls'
  <2> SUFFICES ASSUME NEW c \in handlers' PROVE turns'[c[1]] = "pending"
    BY DEF SettledTurnsHoldNoCalls
  <2>1. c \in handlers /\ c \in Calls /\ turns[c[1]] = "pending"
    BY <1>1, <1>4 DEF SettledTurnsHoldNoCalls
  <2>2. c[1] \in Turns
    BY <2>1 DEF Calls
  <2>3. c[1] # t
    <3> SUFFICES ASSUME c[1] = t PROVE FALSE
      OBVIOUS
    <3>1. c \notin handlers \ CallsOf({t})
      BY <2>1 DEF CallsOf
    <3> QED
      BY <1>2, <2>1, <3>1 DEF Abort
  <2> QED
    BY <1>2, <2>1, <2>2, <2>3
<1>6. CallsAreMadeOnce'
  BY <1>1, <1>2, CallsDropped DEF workVars
<1>7. LedgerFollowsStore'
  BY <1>1, <1>2, LedgerUntouched DEF workVars
<1> QED
  BY <1>1, <1>2, <1>3, <1>4, <1>5, <1>6, <1>7 DEF Handled, AgentHostTypeOK

\* A call request: it was not served before, so serving it once is serving
\* it for the first time.
LEMMA CallHandled ==
  ASSUME AgentHostInv, NEW l \in Launches, OutboxTaken(l), UNCHANGED <<child, stopping, revision, workVars>>,
         NEW c \in Calls, Head(outbox[l]) = CallRequest(c),
         NEW allowed \in BOOLEAN, receiveCall(c, allowed)
  PROVE  Handled(l)
<1>1. /\ AgentHostTypeOK /\ CallsAreMadeOnce /\ SettledTurnsHoldNoCalls /\ LedgerFollowsStore
  BY PartsOfInv
<1>2. /\ UNCHANGED <<status, everReady, readyTimer, start, turns, aborted, unposted>>
      /\ UNCHANGED <<worker, ledger, active, waiting, begun>>
  BY DEF receiveCall, workVars
<1>3. CallIsMadeOnce(c) /\ UnderWay(outbox, CallRequest(c)) /\ ~UnderWay(outbox', CallRequest(c))
  BY <1>1 DEF CallsAreMadeOnce, CallIsMadeOnce, OutboxTaken
<1>4. Made(c) /\ served[c] = 0
  BY <1>3 DEF CallIsMadeOnce
<1>5. CASE MayServe(c) /\ allowed
  <2>1. /\ hostCalls' = hostCalls \cup {c} /\ handlers' = handlers \cup {c}
        /\ served' = [served EXCEPT ![c] = @ + 1] /\ inbox' = inbox
    BY <1>5 DEF receiveCall
  <2>2. served \in [Calls -> 0..1] /\ served'[c] = 1 /\ \A d \in Calls : d # c => served'[d] = served[d]
    BY <1>1, <1>4, <2>1 DEF AgentHostTypeOK
  <2>3. served' \in [Calls -> 0..1]
    BY <1>4, <2>1, <2>2
  <2>4. CallsAreMadeOnce'
    <3> SUFFICES ASSUME NEW d \in Calls PROVE CallIsMadeOnce(d)'
      BY DEF CallsAreMadeOnce
    <3>1. CallIsMadeOnce(d) /\ (Made(d)' <=> Made(d))
      BY <1>1, <1>2 DEF CallsAreMadeOnce, Made
    <3>2. /\ UnderWay(outbox, CallRequest(d))' <=> UnderWay(outbox', CallRequest(d))
          /\ AtMostOnce(outbox, CallRequest(d))' <=> AtMostOnce(outbox', CallRequest(d))
      BY DEF UnderWay, AtMostOnce, CallRequest
    <3>3. /\ UnderWay(outbox', CallRequest(d)) => UnderWay(outbox, CallRequest(d))
          /\ AtMostOnce(outbox, CallRequest(d)) => AtMostOnce(outbox', CallRequest(d))
      BY DEF OutboxTaken
    <3>4. CASE d = c
      BY <1>3, <1>4, <3>1, <3>2, <3>3, <3>4 DEF CallIsMadeOnce
    <3>5. CASE d # c
      BY <2>2, <3>1, <3>2, <3>3, <3>5 DEF CallIsMadeOnce
    <3> QED
      BY <3>4, <3>5
  <2>5. SettledTurnsHoldNoCalls'
    BY <1>1, <1>2, <1>5, <2>1 DEF SettledTurnsHoldNoCalls, MayServe
  <2>6. LedgerFollowsStore'
    BY <1>1, <1>2, <2>1, LedgerUntouched
  <2> QED
    BY <1>1, <1>2, <2>1, <2>3, <2>4, <2>5, <2>6 DEF Handled, AgentHostTypeOK
<1>6. CASE ~(MayServe(c) /\ allowed)
  <2> DEFINE m == CallAnswer(c, "call-error")
  <2>1. inbox' = Sent(<<m>>) /\ UNCHANGED <<hostCalls, handlers, served>>
    BY <1>6 DEF receiveCall
  <2>2. m \in ToWorker /\ m.type # "execute-agent-turn" /\ m.type # "sync-runtime-state"
    BY MessagesToWorker
  <2> HIDE DEF m
  <2>3. /\ <<m>> \in Seq(ToWorker)
        /\ \A i \in 1..Len(<<m>>) : /\ <<m>>[i].type # "execute-agent-turn"
                                    /\ <<m>>[i].type # "sync-runtime-state"
    BY <2>2, OneQuietMessage
  <2>4. /\ inbox' \in [Launches -> Seq(ToWorker)]
        /\ \A t \in Turns : /\ UnderWay(inbox', Execute(t)) => UnderWay(inbox, Execute(t))
                            /\ AtMostOnce(inbox, Execute(t)) => AtMostOnce(inbox', Execute(t))
    BY <1>1, <2>1, <2>3, SentQuietly
  <2>5. CallsAreMadeOnce'
    BY <1>1, <1>2, <2>1, CallsDropped
  <2>6. SettledTurnsHoldNoCalls'
    BY <1>1, <1>2, <2>1 DEF SettledTurnsHoldNoCalls
  <2>7. LedgerFollowsStore'
    BY <1>1, <1>2, <2>1, <2>3, LedgerKept
  <2> QED
    BY <1>1, <1>2, <2>1, <2>4, <2>5, <2>6, <2>7 DEF Handled, AgentHostTypeOK
<1> QED
  BY <1>5, <1>6

LEMMA HandleMessageKeeps ==
  ASSUME AgentHostInv, NEW l \in Launches, handleMessage(l)
  PROVE  AgentHostInv'
<1> DEFINE m == Head(outbox[l])
<1>1. AgentHostTypeOK /\ LaunchesArePaid /\ WorkersSpeakLate /\ TurnsStartOnce
  BY PartsOfInv
<1>2. /\ outbox[l] # <<>> /\ outbox' = Taken(outbox, l)
      /\ UNCHANGED <<child, launches, stopping, restartTimer, restarts, windows, crashes,
                     revision, workVars>>
  BY DEF handleMessage, Taken
<1>3. OutboxTaken(l) /\ m \in FromWorker
  BY <1>1, <1>2, OutboxIsTaken
<1>4. Handled(l)
  <2>1. CASE child # l
    <3>1. UNCHANGED <<status, everReady, readyTimer, start, inbox, turnVars>>
      BY <2>1 DEF handleMessage
    <3> QED
      BY <1>2, <1>3, <3>1, OtherChildHandled
  <2>2. CASE child = l /\ m.type = "ready"
    <3>1. receiveReady(l)
      BY <2>2 DEF handleMessage
    <3> QED
      BY <1>2, <1>3, <2>2, <3>1, ReadyHandled
  <2>3. CASE child = l /\ m.type \in {"completed", "failed"}
    <3>1. receiveTurnEnd(m.turn, m.type) /\ m.turn \in Turns
      BY <1>3, <2>3, ReceivedBySupervisor DEF handleMessage
    <3> QED
      BY <1>2, <1>3, <2>3, <3>1, TurnEndHandled
  <2>4. CASE child = l /\ m.type = "call-request"
    <3>1. PICK allowed \in BOOLEAN :
            receiveCall(m.call, allowed) /\ m.call \in Calls /\ m = CallRequest(m.call)
      BY <1>3, <2>4, ReceivedBySupervisor DEF handleMessage
    <3> QED
      BY <1>2, <1>3, <3>1, CallHandled
  <2> QED
    BY <1>3, <2>1, <2>2, <2>3, <2>4, ReceivedBySupervisor
<1> HIDE DEF m
<1>5. UNCHANGED <<worker, ledger, active, waiting, begun>>
  BY <1>2 DEF workVars
<1>6. AgentHostTypeOK'
  <2>1. outbox' \in [Launches -> Seq(FromWorker)]
    BY <1>3 DEF OutboxTaken
  <2>2. status' \in {"stopped", "starting", "ready", "restarting", "failed"}
    BY <1>1, <1>4 DEF Handled, AgentHostTypeOK
  <2> QED
    BY <1>1, <1>2, <1>4, <1>5, <2>1, <2>2 DEF Handled, AgentHostTypeOK
<1>7. LaunchesArePaid'
  BY <1>1, <1>2 DEF LaunchesArePaid
<1>8. WorkersSpeakLate'
  <2>1. worker[l] \notin {"none", "booting"} /\ l # 0
    BY <1>1, <1>2, BoundsAreNumbers DEF WorkersSpeakLate, Launches
  <2>2. \A j \in Launches : worker[j] \in {"none", "booting"} => outbox'[j] = <<>>
    BY <1>1, <1>3 DEF WorkersSpeakLate, OutboxTaken
  <2>3. status' = "ready" => child # 0 /\ worker[child] \notin {"none", "booting"}
    BY <1>1, <1>4, <2>1 DEF WorkersSpeakLate, Handled
  <2> QED
    BY <1>1, <1>2, <1>5, <2>2, <2>3 DEF WorkersSpeakLate
<1>9. TurnsStartOnce'
  BY <1>1, <1>4, <1>5, TurnsKept DEF Handled
<1> QED
  BY <1>4, <1>6, <1>7, <1>8, <1>9, InvFromParts DEF Handled

-----------------------------------------------------------------------------
\* The specification.

LEMMA InitAgentHostInv ==
  ASSUME Init
  PROVE  AgentHostInv
<1> USE DEF Init
<1>1. /\ 1 \in Launches /\ 0 \in 0..MaxLaunches /\ 1 \in 0..MaxLaunches /\ 0 \in 0..MaxRestarts
      /\ 0 \in 0..MaxWindows /\ 0 \in 0..MaxCrashes /\ 0 \in 0..MaxRevision /\ 0 \in 0..(MaxCalls + 1)
  BY BoundsAreNumbers DEF Launches
<1>2. AgentHostTypeOK
  <2>1. /\ turns \in [Turns -> {"none", "pending"} \cup Settled]
        /\ served \in [Calls -> 0..1]
        /\ worker \in [Launches -> {"none", "booting", "running", "killed", "exited"}]
        /\ ledger \in [Launches -> 0..MaxRevision]
        /\ active \in [Launches -> [Turns -> 0..(MaxCalls + 1)]]
        /\ waiting \in [Launches -> SUBSET Calls] /\ begun \in [Turns -> SUBSET Launches]
    BY <1>1
  <2>2. inbox \in [Launches -> Seq(ToWorker)] /\ outbox \in [Launches -> Seq(FromWorker)]
    OBVIOUS
  <2> QED
    BY <1>1, <2>1, <2>2 DEF AgentHostTypeOK
<1>3. LaunchesArePaid
  BY BoundsAreNumbers DEF LaunchesArePaid
<1>4. WorkersSpeakLate
  BY BoundsAreNumbers DEF WorkersSpeakLate, Launches
<1>5. /\ \A m : ~UnderWay(inbox, m) /\ AtMostOnce(inbox, m)
      /\ \A m : ~UnderWay(outbox, m) /\ AtMostOnce(outbox, m)
  <2>1. \A l \in Launches : 1..Len(inbox[l]) = {} /\ 1..Len(outbox[l]) = {}
    OBVIOUS
  <2> QED
    BY <2>1 DEF UnderWay, AtMostOnce
<1>6. \A t \in Turns : TurnStartsOnce(t)
  <2> SUFFICES ASSUME NEW t \in Turns PROVE TurnStartsOnce(t)
    OBVIOUS
  <2>1. /\ AtMostOnce(inbox, Execute(t)) /\ ~UnderWay(inbox, Execute(t)) /\ begun[t] = {}
        /\ \A l \in Launches : active[l][t] = 0
    BY <1>5
  <2> QED
    BY <2>1 DEF TurnStartsOnce
<1>7. \A c \in Calls : CallIsMadeOnce(c)
  BY <1>5 DEF CallIsMadeOnce
<1>8. SettledTurnsHoldNoCalls /\ LedgerFollowsStore
  BY DEF SettledTurnsHoldNoCalls, LedgerFollowsStore
<1> QED
  BY <1>2, <1>3, <1>4, <1>6, <1>7, <1>8 DEF AgentHostInv

LEMMA StutterKeeps ==
  ASSUME AgentHostInv, UNCHANGED vars
  PROVE  AgentHostInv'
<1>1. /\ AgentHostTypeOK /\ LaunchesArePaid /\ WorkersSpeakLate /\ LedgerFollowsStore
  BY PartsOfInv
<1>2. UNCHANGED <<supVars, turnVars, workVars, inbox, outbox>>
  BY DEF vars
<1>3. AgentHostTypeOK' /\ LaunchesArePaid' /\ WorkersSpeakLate'
  BY <1>1, <1>2 DEF AgentHostTypeOK, LaunchesArePaid, WorkersSpeakLate, supVars, timers, turnVars, workVars
<1>4. LedgerFollowsStore'
  BY <1>1, <1>2, LedgerUntouched DEF supVars, workVars
<1>5. TurnsStartOnce' /\ CallsAreMadeOnce' /\ SettledTurnsHoldNoCalls'
  BY <1>2, TurnsUntouched DEF workVars
<1> QED
  BY <1>3, <1>4, <1>5, InvFromParts

LEMMA NextKeeps ==
  ASSUME AgentHostInv, [Next]_vars
  PROVE  AgentHostInv'
<1>1. CASE readyTimeout
  BY <1>1, ReadyTimeoutKeeps
<1>2. CASE healthKill
  BY <1>2, HealthKillKeeps
<1>3. CASE windowPasses
  BY <1>3, WindowPassesKeeps
<1>4. CASE publish
  BY <1>4, PublishKeeps
<1>5. CASE onTeardown
  BY <1>5, TeardownKeeps
<1>6. CASE teardownEnds
  BY <1>6, TeardownEndsKeeps
<1>7. CASE \E forks \in BOOLEAN : restart(forks)
  BY <1>7, RestartKeeps
<1>8. ASSUME NEW l \in Launches, handleMessage(l) \/ handleExit(l) \/ WorkerSteps(l) \/ workerExits(l)
      PROVE  AgentHostInv'
  <2>1. CASE handleMessage(l)
    BY <2>1, HandleMessageKeeps
  <2>2. CASE handleExit(l)
    BY <2>2, HandleExitKeeps
  <2>3. CASE WorkerSteps(l)
    <3>1. CASE spawned(l)
      BY <3>1, SpawnedKeeps
    <3>2. CASE workerReceives(l)
      BY <3>2, WorkerReceivesKeeps
    <3>3. ASSUME NEW t \in Turns, workerCalls(l, t) PROVE AgentHostInv'
      BY <3>3, WorkerCallsKeeps
    <3>4. ASSUME NEW t \in Turns, NEW kind \in {"completed", "failed"}, workerEndsTurn(l, t, kind)
          PROVE  AgentHostInv'
      BY <3>4, WorkerEndsTurnKeeps
    <3> QED
      BY <2>3, <3>1, <3>2, <3>3, <3>4 DEF WorkerSteps
  <2>4. CASE workerExits(l)
    BY <2>4, WorkerExitsKeeps
  <2> QED
    BY <1>8, <2>1, <2>2, <2>3, <2>4
<1>9. ASSUME NEW t \in Turns, abortTurn(t) PROVE AgentHostInv'
  BY <1>9, AbortTurnKeeps
<1>10. ASSUME NEW t \in Turns, NEW posted \in BOOLEAN, executeAgentTurn(t, posted) PROVE AgentHostInv'
  BY <1>10, ExecuteKeeps
<1>11. ASSUME NEW c \in Calls, NEW kind \in {"call-complete", "call-error"},
             NEW posted \in BOOLEAN, handlerEnds(c, kind, posted)
       PROVE  AgentHostInv'
  BY <1>11, HandlerEndsKeeps
<1>12. CASE UNCHANGED vars
  BY <1>12, StutterKeeps
<1> QED
  BY <1>1, <1>2, <1>3, <1>4, <1>5, <1>6, <1>7, <1>8, <1>9, <1>10, <1>11, <1>12 DEF Next

(* The inductive invariant of the agent host: types, the budget of          *)
(* launches, workers that speak only once they run, turns sent and started  *)
(* once, calls requested and served once, and the two properties of the     *)
(* supervisor's handlers and of the workers' ledgers.                       *)
THEOREM AgentHostInvariant == Spec => []AgentHostInv
<1>1. Init => AgentHostInv
  BY InitAgentHostInv
<1>2. AgentHostInv /\ [Next]_vars => AgentHostInv'
  BY NextKeeps
<1> QED
  BY <1>1, <1>2, PTL DEF Spec

(* Type correctness; also the launch numbers stay within the restart budget *)
(* of the windows, so that a restart that is due can always be made.        *)
THEOREM AgentHostTypeCorrect == Spec => []AgentHostTypeOK
<1>1. AgentHostInv => AgentHostTypeOK
  BY DEF AgentHostInv
<1> QED
  BY <1>1, AgentHostInvariant, PTL

LEMMA StartedOnce ==
  ASSUME AgentHostInv
  PROVE  TurnsAreNotReplayed
<1>1. /\ \A t \in Turns : TurnStartsOnce(t)
      /\ begun \in [Turns -> SUBSET Launches] /\ served \in [Calls -> 0..1]
  BY DEF AgentHostInv, AgentHostTypeOK
<1>2. ASSUME NEW t \in Turns PROVE Cardinality(begun[t]) <= 1
  <2>1. CASE begun[t] = {}
    BY <2>1, FS_EmptySet
  <2>2. CASE begun[t] # {}
    <3>1. PICK l \in begun[t] : TRUE
      BY <2>2
    <3>2. begun[t] = {l}
      BY <1>1, <3>1 DEF TurnStartsOnce
    <3>3. Cardinality({l}) = 1
      BY FS_Singleton
    <3> QED
      BY <3>2, <3>3
  <2> QED
    BY <2>1, <2>2
<1>3. \A c \in Calls : served[c] <= 1
  BY <1>1
<1> QED
  BY <1>2, <1>3 DEF TurnsAreNotReplayed

(* No turn is started by two workers and no call is served twice, however   *)
(* workers crash, are killed and are replaced while their messages arrive.  *)
THEOREM TurnsNeverReplayed == Spec => []TurnsAreNotReplayed
<1>1. AgentHostInv => TurnsAreNotReplayed
  BY StartedOnce
<1> QED
  BY <1>1, AgentHostInvariant, PTL

(* A handler that is not aborted runs for a turn that is pending: every way *)
(* of ending a turn aborts the handlers of its calls.                       *)
THEOREM SettledHoldNoCalls == Spec => []SettledTurnsHoldNoCalls
<1>1. AgentHostInv => SettledTurnsHoldNoCalls
  BY DEF AgentHostInv
<1> QED
  BY <1>1, AgentHostInvariant, PTL

(* The ledger of a ready worker has the latest revision of the summaries    *)
(* once its inbox has arrived, also for a worker started by a restart.      *)
THEOREM LedgersFollow == Spec => []LedgerFollowsStore
<1>1. AgentHostInv => LedgerFollowsStore
  BY DEF AgentHostInv
<1> QED
  BY <1>1, AgentHostInvariant, PTL
=============================================================================
