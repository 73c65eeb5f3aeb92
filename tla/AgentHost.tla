------------------------------ MODULE AgentHost ------------------------------
(***************************************************************************)
(* The agent host (apps/browser/src/backend/agent-host): the main process  *)
(* runs agent turns in a utility process, supervises that process,         *)
(* restarts it within a budget, and serves the model and tool calls that   *)
(* a running turn sends back.                                              *)
(*                                                                         *)
(* Workers are numbered by launch.  The calls of a turn are numbered in    *)
(* the order the turn makes them; model and tool calls take the same path  *)
(* through the supervisor and are not told apart.  Messages of the main    *)
(* process and of a worker are delivered in order; a worker that is killed *)
(* may still have sent messages that arrive before its exit event.         *)
(***************************************************************************)
EXTENDS Naturals, Sequences, FiniteSets, SequencesExt

CONSTANTS Turns,        \* turns the application asks for
          MaxCalls,     \* bound: calls a turn makes
          MaxRestarts,  \* maxRestartsPerWindow
          MaxWindows,   \* bound: restart windows that pass
          MaxCrashes,   \* bound: workers that exit by themselves
          MaxRevision   \* bound: changes of the runtime summaries

ASSUME AgentHostAssumption ==
    /\ IsFiniteSet(Turns)
    /\ {MaxCalls, MaxRestarts, MaxWindows, MaxCrashes, MaxRevision} \subseteq Nat

MaxLaunches == MaxRestarts * (MaxWindows + 1) + 1
Launches == 1..MaxLaunches
Calls == Turns \X (1..MaxCalls)
Settled == {"completed", "failed", "cancelled"}

VARIABLES
    child,     \* launch of the supervisor's child, 0 for none
    launches,  \* workers launched so far
    status,    \* ProcessStatus of the supervisor
    start,     \* the promise of create(): waiting, resolved or rejected
    everReady, \* hasEverBeenReady
    stopping,  \* onTeardown: no, waiting or done
    readyTimer, restartTimer,
    restarts,  \* restarts within the current window
    windows, crashes,
    revision,  \* revision of the latest snapshot
    turns,     \* per turn: the promise of executeAgentTurn
    hostCalls, \* pendingHostCalls
    handlers,  \* calls whose handler runs in the main process and is not aborted
    aborted,   \* calls whose handler runs on although it was aborted
    served,    \* per call: times a handler was started
    unposted,  \* calls whose result could not be posted to the worker
    worker,    \* per launch: none, booting, running, killed or exited
    inbox,     \* per launch: messages to the worker
    outbox,    \* per launch: messages from the worker
    ledger,    \* per launch: revision of the worker's runtime snapshot
    active,    \* per launch: turns the worker executes, with their last call
    waiting,   \* per launch: calls whose answer the worker waits for
    begun      \* per turn: workers that started it

timers  == <<readyTimer, restartTimer, restarts, windows, crashes>>
supVars == <<child, launches, status, start, everReady, stopping, timers, revision>>
turnVars == <<turns, hostCalls, handlers, aborted, served, unposted>>
workVars == <<worker, ledger, active, waiting, begun>>
vars == <<supVars, turnVars, workVars, inbox, outbox>>

Alive(l) == worker[l] \in {"booting", "running"}

\* Messages of the main process.
Initialize == [type |-> "initialize"]
SyncState(r) == [type |-> "sync-runtime-state", rev |-> r]
Execute(t) == [type |-> "execute-agent-turn", turn |-> t]
Cancel(t) == [type |-> "cancel-agent-turn", turn |-> t]
Shutdown == [type |-> "shutdown"]
CallAnswer(c, kind) == [type |-> kind, call |-> c]
\* Messages of a worker.
Ready == [type |-> "ready"]
TurnEnd(t, kind) == [type |-> kind, turn |-> t]
CallRequest(c) == [type |-> "call-request", call |-> c]

ToWorker ==
    {Initialize, Shutdown} \cup {SyncState(r) : r \in 0..MaxRevision}
      \cup {Execute(t) : t \in Turns} \cup {Cancel(t) : t \in Turns}
      \cup {CallAnswer(c, kind) : c \in Calls, kind \in {"call-complete", "call-error"}}
FromWorker ==
    {Ready} \cup {TurnEnd(t, kind) : t \in Turns, kind \in {"completed", "failed"}}
      \cup {CallRequest(c) : c \in Calls}

\* safeSend to the current child.
Sent(ms) == IF child = 0 THEN inbox ELSE [inbox EXCEPT ![child] = @ \o ms]

-----------------------------------------------------------------------------
Init ==
    /\ child = 1 /\ launches = 1 /\ status = "starting" /\ start = "waiting"
    /\ everReady = FALSE /\ stopping = "no"
    /\ readyTimer = TRUE /\ restartTimer = FALSE
    /\ restarts = 0 /\ windows = 0 /\ crashes = 0 /\ revision = 0
    /\ turns = [t \in Turns |-> "none"]
    /\ hostCalls = {} /\ handlers = {} /\ aborted = {}
    /\ served = [c \in Calls |-> 0] /\ unposted = {}
    /\ worker = [l \in Launches |-> IF l = 1 THEN "booting" ELSE "none"]
    /\ inbox = [l \in Launches |-> <<>>]
    /\ outbox = [l \in Launches |-> <<>>]
    /\ ledger = [l \in Launches |-> 0]
    /\ active = [l \in Launches |-> [t \in Turns |-> 0]]
    /\ waiting = [l \in Launches |-> {}]
    /\ begun = [t \in Turns |-> {}]

\* What settling turns does to their host calls.
Abort(cs) ==
    /\ hostCalls' = hostCalls \ cs
    /\ handlers' = handlers \ cs
    /\ aborted' = aborted \cup (handlers \cap cs)

CallsOf(ts) == {c \in Calls : c[1] \in ts}
Pending == {t \in Turns : turns[t] = "pending"}

\* A new utility process; its 'spawn' event sends the handshake.
spawnProcess ==
    /\ launches' = launches + 1
    /\ child' = launches + 1
    /\ worker' = [worker EXCEPT ![launches + 1] = "booting"]
    /\ readyTimer' = TRUE

spawned(l) ==
    /\ worker[l] = "booting"
    /\ worker' = [worker EXCEPT ![l] = "running"]
    /\ inbox' = IF child = l THEN Sent(<<Initialize>>) ELSE inbox
    /\ UNCHANGED <<supVars, turnVars, ledger, active, waiting, begun, outbox>>

failInitialStart ==
    /\ readyTimer' = FALSE
    /\ status' = "failed"
    /\ start' = IF start = "waiting" THEN "rejected" ELSE start

\* Mutant: the worker that was not ready in time is left running.
readyTimeout_NoKill ==
    /\ readyTimer /\ status # "ready" /\ child # 0 /\ stopping = "no"
    /\ failInitialStart
    /\ UNCHANGED <<child, launches, everReady, stopping, restartTimer, restarts, windows,
                   crashes, revision, turnVars, workVars, inbox, outbox>>

\* The worker was not ready in time.
readyTimeout ==
    /\ readyTimer /\ status # "ready" /\ child # 0 /\ stopping = "no"
    /\ worker' = [worker EXCEPT ![child] = IF Alive(child) THEN "killed" ELSE @]
    /\ failInitialStart
    /\ UNCHANGED <<child, launches, everReady, stopping, restartTimer, restarts, windows,
                   crashes, revision, turnVars, ledger, active, waiting, begun, inbox, outbox>>

\* The health monitor finds a ready worker silent for too long.
healthKill ==
    /\ status = "ready" /\ child # 0 /\ stopping = "no"
    /\ worker[child] = "running" /\ crashes < MaxCrashes
    /\ worker' = [worker EXCEPT ![child] = "killed"]
    /\ crashes' = crashes + 1
    /\ UNCHANGED <<child, launches, status, start, everReady, stopping, readyTimer,
                   restartTimer, restarts, windows, revision, turnVars, ledger, active,
                   waiting, begun, inbox, outbox>>

\* A restart, unless the budget of the window is used up.
scheduleRestart ==
    IF restarts >= MaxRestarts
      THEN /\ status' = "failed"
           /\ UNCHANGED <<restartTimer, restarts>>
      ELSE /\ status' = "restarting"
           /\ restartTimer' = TRUE
           /\ restarts' = restarts + 1

\* Mutant: the handlers of the turns run on.
exitAborts_None == UNCHANGED <<hostCalls, handlers, aborted>>
exitAborts == Abort(Calls)

\* Mutant: turns are kept for the next worker.
RejectedByExit_None == {}
\* Turns rejected when the worker exits.
RejectedByExit == Pending

\* The exit event of the child, after the messages it sent.
handleExit(l) ==
    /\ worker[l] = "exited" /\ child = l /\ outbox[l] = <<>>
    /\ turns' = [t \in Turns |-> IF t \in RejectedByExit THEN "failed" ELSE turns[t]]
    /\ exitAborts
    /\ child' = 0
    /\ CASE stopping # "no" -> /\ status' = "stopped" /\ readyTimer' = FALSE
                               /\ UNCHANGED <<start, restartTimer, restarts>>
         [] stopping = "no" /\ ~everReady -> failInitialStart /\ UNCHANGED <<restartTimer, restarts>>
         [] OTHER -> /\ scheduleRestart /\ readyTimer' = FALSE
                     /\ UNCHANGED start
    /\ UNCHANGED <<launches, everReady, stopping, windows, crashes, revision, served,
                   unposted, workVars, inbox, outbox>>

\* The restart timer: a new worker, or a fork that throws.
restart(forks) ==
    /\ restartTimer /\ stopping = "no"
    /\ IF forks THEN /\ spawnProcess /\ status' = "starting" /\ restartTimer' = FALSE
                     /\ UNCHANGED <<restarts, crashes>>
                ELSE /\ crashes < MaxCrashes /\ crashes' = crashes + 1
                     /\ IF restarts >= MaxRestarts
                          THEN status' = "failed" /\ restartTimer' = FALSE /\ UNCHANGED restarts
                          ELSE status' = "restarting" /\ restarts' = restarts + 1
                               /\ UNCHANGED restartTimer
                     /\ UNCHANGED <<child, launches, worker, readyTimer>>
    /\ UNCHANGED <<start, everReady, stopping, windows, revision, turnVars, ledger, active,
                   waiting, begun, inbox, outbox>>

\* Time passes: some of the restarts so far are older than the window.
windowPasses ==
    /\ windows < MaxWindows
    /\ \E kept \in 0..restarts : kept < restarts /\ restarts' = kept
    /\ windows' = windows + 1
    /\ UNCHANGED <<child, launches, status, start, everReady, stopping, readyTimer,
                   restartTimer, crashes, revision, turnVars, workVars, inbox, outbox>>

\* The agent store changed: the summaries get a new revision.
publish ==
    /\ start = "resolved" /\ stopping = "no" /\ revision < MaxRevision
    /\ revision' = revision + 1
    /\ inbox' = IF status = "ready" THEN Sent(<<SyncState(revision + 1)>>) ELSE inbox
    /\ UNCHANGED <<child, launches, status, start, everReady, stopping, timers, turnVars,
                   workVars, outbox>>

-----------------------------------------------------------------------------
\* The application asks for a turn; a message that cannot be posted fails it.
executeAgentTurn(t, posted) ==
    /\ turns[t] = "none" /\ stopping = "no" /\ start = "resolved"
    /\ status = "ready" /\ child # 0
    /\ turns' = [turns EXCEPT ![t] = IF posted THEN "pending" ELSE "failed"]
    /\ inbox' = IF posted THEN Sent(<<Execute(t)>>) ELSE inbox
    /\ UNCHANGED <<supVars, hostCalls, handlers, aborted, served, unposted, workVars, outbox>>

\* The caller aborts a turn.
abortTurn(t) ==
    /\ turns[t] = "pending"
    /\ turns' = [turns EXCEPT ![t] = "cancelled"]
    /\ Abort(CallsOf({t}))
    /\ inbox' = Sent(<<Cancel(t)>>)
    /\ UNCHANGED <<supVars, served, unposted, workVars, outbox>>

\* A call is served for a turn that is still pending, once, if it is within
\* the contract of the turn.
MayServe(c) == turns[c[1]] = "pending" /\ c \notin hostCalls

\* Mutant: the handshake only.
OnReady_NoSnapshot == <<>>
\* Mutant: turns that the last worker did not finish are sent again.
OnReady_Resends ==
    <<SyncState(revision)>> \o SetToSeq({Execute(t) : t \in {u \in Turns : begun[u] # {} /\ turns[u] = "failed"}})
\* What a worker that reports ready is sent: the latest snapshot.
OnReady == <<SyncState(revision)>>

\* The protocol version is a constant compiled into both processes.
receiveReady(l) ==
    /\ status' = "ready"
    /\ everReady' = TRUE
    /\ readyTimer' = FALSE
    /\ start' = IF start = "waiting" THEN "resolved" ELSE start
    /\ inbox' = Sent(OnReady)
    /\ UNCHANGED turnVars

receiveTurnEnd(t, kind) ==
    /\ turns' = [turns EXCEPT ![t] = IF @ = "pending" THEN kind ELSE @]
    /\ IF turns[t] = "pending" THEN Abort(CallsOf({t})) ELSE UNCHANGED <<hostCalls, handlers, aborted>>
    /\ UNCHANGED <<status, everReady, readyTimer, start, inbox, served, unposted>>

receiveCall(c, allowed) ==
    /\ IF MayServe(c) /\ allowed
         THEN /\ hostCalls' = hostCalls \cup {c}
              /\ handlers' = handlers \cup {c}
              /\ served' = [served EXCEPT ![c] = @ + 1]
              /\ UNCHANGED inbox
         ELSE /\ inbox' = Sent(<<CallAnswer(c, "call-error")>>)
              /\ UNCHANGED <<hostCalls, handlers, served>>
    /\ UNCHANGED <<status, everReady, readyTimer, start, turns, aborted, unposted>>

\* The supervisor's message handler; messages of another child are ignored.
handleMessage(l) ==
    /\ outbox[l] # <<>>
    /\ outbox' = [outbox EXCEPT ![l] = Tail(@)]
    /\ LET m == Head(outbox[l]) IN
         CASE child # l           -> UNCHANGED <<status, everReady, readyTimer, start, inbox, turnVars>>
           [] child = l /\ m.type = "ready" -> receiveReady(l)
           [] child = l /\ m.type \in {"completed", "failed"} -> receiveTurnEnd(m.turn, m.type)
           [] child = l /\ m.type = "call-request" ->
                \E allowed \in BOOLEAN : receiveCall(m.call, allowed)
    /\ UNCHANGED <<child, launches, stopping, restartTimer, restarts, windows, crashes,
                   revision, workVars>>

\* A handler in the main process ends; its answer is sent while the call is
\* active (the turn pending and a worker there).  A result that cannot be
\* posted is only logged; the text of an error can always be posted.
handlerEnds(c, kind, posted) ==
    LET answers == c \in hostCalls /\ turns[c[1]] = "pending" IN
      /\ c \in handlers \cup aborted
      /\ posted \/ kind = "call-complete"
      /\ handlers' = handlers \ {c}
      /\ aborted' = aborted \ {c}
      /\ hostCalls' = hostCalls \ {c}
      /\ inbox' = IF answers /\ posted THEN Sent(<<CallAnswer(c, kind)>>) ELSE inbox
      /\ unposted' = IF answers /\ ~posted THEN unposted \cup {c} ELSE unposted
      /\ UNCHANGED <<supVars, turns, served, workVars, outbox>>

-----------------------------------------------------------------------------
RestartTimerAfterTeardown == FALSE

\* Teardown of the service: every turn is rejected, every call aborted, the
\* worker asked to stop.
onTeardown ==
    /\ stopping = "no" /\ start = "resolved"
    /\ readyTimer' = FALSE /\ restartTimer' = RestartTimerAfterTeardown
    /\ turns' = [t \in Turns |-> IF t \in Pending THEN "failed" ELSE turns[t]]
    /\ Abort(Calls)
    /\ stopping' = IF child = 0 THEN "done" ELSE "waiting"
    /\ status' = IF child = 0 THEN "stopped" ELSE status
    /\ inbox' = Sent(SetToSeq({Cancel(t) : t \in Pending}) \o <<Shutdown>>)
    /\ UNCHANGED <<child, launches, start, everReady, restarts, windows, crashes, revision,
                   served, unposted, workVars, outbox>>

KilledByTeardown == IF child # 0 /\ Alive(child) THEN [worker EXCEPT ![child] = "killed"] ELSE worker

\* The worker exited, or 750 ms are over: what is left of it is killed.
teardownEnds ==
    /\ stopping = "waiting"
    /\ worker' = KilledByTeardown
    /\ child' = 0
    /\ status' = "stopped"
    /\ stopping' = "done"
    /\ UNCHANGED <<launches, start, everReady, timers, revision, turnVars, ledger, active,
                   waiting, begun, inbox, outbox>>

-----------------------------------------------------------------------------
\* The worker takes a message (host.ts).
workerReceives(l) ==
    LET m == Head(inbox[l]) IN
      /\ worker[l] = "running" /\ inbox[l] # <<>>
      /\ inbox' = [inbox EXCEPT ![l] = Tail(@)]
      /\ outbox' = CASE m.type = "initialize" -> [outbox EXCEPT ![l] = Append(@, Ready)]
                     [] m.type = "cancel-agent-turn" /\ active[l][m.turn] > 0
                          -> [outbox EXCEPT ![l] = Append(@, TurnEnd(m.turn, "failed"))]
                     [] OTHER -> outbox
      /\ ledger' = IF m.type = "sync-runtime-state" THEN [ledger EXCEPT ![l] = m.rev] ELSE ledger
      /\ begun' = IF m.type = "execute-agent-turn" THEN [begun EXCEPT ![m.turn] = @ \cup {l}] ELSE begun
      /\ active' = CASE m.type = "execute-agent-turn" -> [active EXCEPT ![l][m.turn] = 1]
                     [] m.type = "cancel-agent-turn"  -> [active EXCEPT ![l][m.turn] = 0]
                     [] OTHER -> active
      /\ waiting' = CASE m.type = "cancel-agent-turn" -> [waiting EXCEPT ![l] = @ \ CallsOf({m.turn})]
                      [] m.type \in {"call-complete", "call-error"} -> [waiting EXCEPT ![l] = @ \ {m.call}]
                      [] OTHER -> waiting
      \* After a shutdown request nothing is sent any more: the process exits.
      /\ worker' = IF m.type = "shutdown" THEN [worker EXCEPT ![l] = "exited"] ELSE worker
      /\ UNCHANGED <<supVars, turnVars>>

\* A turn of the worker makes its next call, possibly beside earlier ones:
\* adjacent file edits run together.  active[l][t] is one more than the calls
\* it made.
workerCalls(l, t) ==
    LET c == <<t, active[l][t]>> IN
      /\ worker[l] = "running" /\ active[l][t] \in 1..MaxCalls
      /\ active' = [active EXCEPT ![l][t] = @ + 1]
      /\ waiting' = [waiting EXCEPT ![l] = @ \cup {c}]
      /\ outbox' = [outbox EXCEPT ![l] = Append(@, CallRequest(c))]
      /\ UNCHANGED <<supVars, turnVars, worker, ledger, begun, inbox>>

Answered(l, t) == waiting[l] \cap CallsOf({t}) = {}

\* A turn of the worker ends, with nothing left to wait for, or because one of
\* its calls was answered with an abort: it gives up the others.
workerEndsTurn(l, t, kind) ==
    /\ worker[l] = "running" /\ active[l][t] > 0
    /\ \/ Answered(l, t)
       \/ kind = "failed" /\ \E n \in 1..MaxCalls : n < active[l][t] /\ <<t, n>> \notin waiting[l]
    /\ active' = [active EXCEPT ![l][t] = 0]
    /\ waiting' = [waiting EXCEPT ![l] = @ \ CallsOf({t})]
    /\ outbox' = [outbox EXCEPT ![l] = Append(@, TurnEnd(t, kind))]
    /\ UNCHANGED <<supVars, turnVars, worker, ledger, begun, inbox>>

\* A worker that was killed exits; one that runs may crash.
workerExits(l) ==
    /\ \/ worker[l] = "killed" /\ UNCHANGED crashes
       \/ Alive(l) /\ crashes < MaxCrashes /\ crashes' = crashes + 1
    /\ worker' = [worker EXCEPT ![l] = "exited"]
    /\ inbox' = [inbox EXCEPT ![l] = <<>>]
    /\ UNCHANGED <<child, launches, status, start, everReady, stopping, readyTimer,
                   restartTimer, restarts, windows, revision, turnVars, ledger, active,
                   waiting, begun, outbox>>

WorkerSteps(l) ==
    \/ spawned(l) \/ workerReceives(l)
    \/ \E t \in Turns : workerCalls(l, t) \/ \E kind \in {"completed", "failed"} : workerEndsTurn(l, t, kind)

Next ==
    \/ readyTimeout \/ healthKill \/ windowPasses \/ publish \/ onTeardown \/ teardownEnds
    \/ \E forks \in BOOLEAN : restart(forks)
    \/ \E l \in Launches : handleMessage(l) \/ handleExit(l) \/ WorkerSteps(l) \/ workerExits(l)
    \/ \E t \in Turns : abortTurn(t) \/ \E posted \in BOOLEAN : executeAgentTurn(t, posted)
    \/ \E c \in Calls, kind \in {"call-complete", "call-error"}, posted \in BOOLEAN :
         handlerEnds(c, kind, posted)

Spec == Init /\ [][Next]_vars

\* Events, timers and handlers of the main process run, and a process that
\* was killed exits.  A worker that has reported ready takes its messages and
\* ends a turn once its calls are answered; one that starts may hang.
\* Crashes, forks that throw, aborts and the application are free.
FairSpec ==
    /\ Spec
    /\ WF_vars(readyTimeout) /\ WF_vars(\E forks \in BOOLEAN : restart(forks))
    /\ WF_vars(teardownEnds)
    /\ \A l \in Launches :
         /\ WF_vars(handleMessage(l)) /\ WF_vars(handleExit(l))
         /\ WF_vars(child = l /\ status = "ready" /\ workerReceives(l))
         /\ WF_vars(worker[l] = "killed" /\ workerExits(l))
         /\ \A t \in Turns :
              WF_vars(Answered(l, t) /\ \E kind \in {"completed", "failed"} : workerEndsTurn(l, t, kind))
    /\ \A c \in Calls :
         WF_vars(\E kind \in {"call-complete", "call-error"}, posted \in BOOLEAN :
                   handlerEnds(c, kind, posted))
-----------------------------------------------------------------------------
AgentHostTypeOK ==
    /\ child \in 0..MaxLaunches /\ launches \in Launches
    /\ status \in {"stopped", "starting", "ready", "restarting", "failed"}
    /\ start \in {"waiting", "resolved", "rejected"}
    /\ {everReady, readyTimer, restartTimer} \subseteq BOOLEAN
    /\ stopping \in {"no", "waiting", "done"}
    /\ restarts \in 0..MaxRestarts /\ windows \in 0..MaxWindows
    /\ crashes \in 0..MaxCrashes /\ revision \in 0..MaxRevision
    /\ turns \in [Turns -> {"none", "pending"} \cup Settled]
    /\ hostCalls \subseteq Calls /\ handlers \subseteq Calls /\ aborted \subseteq Calls
    /\ served \in [Calls -> 0..1] /\ unposted \subseteq Calls
    /\ worker \in [Launches -> {"none", "booting", "running", "killed", "exited"}]
    /\ ledger \in [Launches -> 0..MaxRevision]
    /\ active \in [Launches -> [Turns -> 0..(MaxCalls + 1)]]
    /\ waiting \in [Launches -> SUBSET Calls]
    /\ begun \in [Turns -> SUBSET Launches]
    /\ inbox \in [Launches -> Seq(ToWorker)] /\ outbox \in [Launches -> Seq(FromWorker)]

(* "turn was not replayed" (handleExit): a turn is started by at most one   *)
(* worker, and each of its calls is served at most once.                    *)
TurnsAreNotReplayed ==
    /\ \A t \in Turns : Cardinality(begun[t]) <= 1
    /\ \A c \in Calls : served[c] <= 1

(* Whatever ends a turn (its result, its failure, an abort, the exit of the *)
(* worker, teardown) aborts the handlers that run for it in the main        *)
(* process, so that no tool goes on for a turn that is over.                *)
SettledTurnsHoldNoCalls ==
    \A c \in handlers : turns[c[1]] = "pending"

\* A worker whose ledger has revision known has r once queue has arrived.
Learns(queue, known, r) ==
    LET syncs == {p \in 1..Len(queue) : queue[p].type = "sync-runtime-state"} IN
      \/ syncs = {} /\ known = r
      \/ \E p \in syncs : queue[p].rev = r /\ \A q \in syncs : q <= p

(* The content-free ledger of a ready worker follows the agent store: with  *)
(* the messages under way it has the latest revision, also after restarts.  *)
LedgerFollowsStore ==
    status = "ready" /\ child # 0 /\ worker[child] = "running" /\ stopping = "no"
      => Learns(inbox[child], ledger[child], revision)

(* Every turn comes to an end: the worker ends it, or crashes, hangs and is *)
(* killed, or is shut down under it.  The one exception is a turn one of    *)
(* whose results could not be posted: safeSend tells nobody, and the worker *)
(* waits for that answer until the caller aborts the turn.                  *)
TurnsSettle ==
    \A t \in Turns :
        turns[t] = "pending" ~>
            turns[t] \in Settled \/ CallsOf({t}) \cap unposted # {}

Working == child # 0 /\ Alive(child) /\ status = "ready"
GaveUp == child = 0 /\ status = "failed"

(* create() is answered, also when the first worker hangs or dies.  From    *)
(* then on a worker that crashed, was killed or is stuck while it starts is *)
(* replaced by one that reports ready; the supervisor gives up only with    *)
(* the restart budget used up, or stops with its service.                   *)
WorkersRecover ==
    /\ start = "waiting" ~> start # "waiting"
    /\ (everReady /\ ~Working /\ ~GaveUp) ~>
           Working \/ (GaveUp /\ restarts >= MaxRestarts) \/ stopping # "no"

-----------------------------------------------------------------------------
(***************************************************************************)
(* The inductive invariant.                                                *)
(***************************************************************************)
\* Queues of messages, one per launch: what is under way, and under way once.
UnderWay(queues, m) ==
    \E l \in Launches : \E p \in 1..Len(queues[l]) : queues[l][p] = m
AtMostOnce(queues, m) ==
    \A k, l \in Launches : \A p \in 1..Len(queues[k]), q \in 1..Len(queues[l]) :
        queues[k][p] = m /\ queues[l][q] = m => k = l /\ p = q

\* A turn is sent to one worker, once, and only that worker executes it.
TurnStartsOnce(t) ==
    /\ AtMostOnce(inbox, Execute(t))
    /\ UnderWay(inbox, Execute(t)) => turns[t] # "none" /\ begun[t] = {}
    /\ begun[t] # {} => turns[t] # "none"
    /\ \A k, l \in begun[t] : k = l
    /\ \A l \in Launches : active[l][t] > 0 => l \in begun[t]

\* The turn of call c has made it, or is past it.
Made(c) ==
    /\ begun[c[1]] # {}
    /\ \A l \in Launches : active[l][c[1]] = 0 \/ active[l][c[1]] > c[2]

\* A call is requested once, and served only after that.
CallIsMadeOnce(c) ==
    /\ AtMostOnce(outbox, CallRequest(c))
    /\ UnderWay(outbox, CallRequest(c)) => Made(c) /\ served[c] = 0
    /\ served[c] # 0 => Made(c)

\* Every launch but the first was paid for out of the budget of some window.
LaunchesArePaid ==
    launches + (IF restartTimer THEN 1 ELSE 0) <= 1 + MaxRestarts * windows + restarts

\* A worker speaks only once it runs, and a ready supervisor has heard its child.
WorkersSpeakLate ==
    /\ \A l \in Launches : l > launches => worker[l] = "none"
    /\ \A l \in Launches : worker[l] \in {"none", "booting"} => outbox[l] = <<>>
    /\ status = "ready" => child # 0 /\ worker[child] \notin {"none", "booting"}

AgentHostInv ==
    /\ AgentHostTypeOK /\ LaunchesArePaid /\ WorkersSpeakLate
    /\ \A t \in Turns : TurnStartsOnce(t)
    /\ \A c \in Calls : CallIsMadeOnce(c)
    /\ SettledTurnsHoldNoCalls /\ LedgerFollowsStore
=============================================================================
