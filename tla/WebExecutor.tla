----------------------------- MODULE WebExecutor -----------------------------
(***************************************************************************)
(* The client of the web executor and the child process behind it.  The    *)
(* client forks a child when it has none that is connected, sends it       *)
(* requests and settles each with the child's answer; a child that was     *)
(* idle for long enough exits on its own, others crash or are told to      *)
(* stop, and a request may be sent before the client has noticed.  Those   *)
(* that render pages go through the browser pool of the child.             *)
(***************************************************************************)
EXTENDS BrowserPool

CONSTANTS
  Plain,       \* requests that need no browser (magnet searches)
  MaxChildren  \* bound on forks

ASSUME ClientAssumption == MaxChildren \in Nat

Requests == Tasks \cup Plain
Children == 1..MaxChildren

VARIABLES
  child,      \* this.child of the client, 0 for null
  connected,  \* child.connected, as the client sees it
  process,    \* what became of each child
  request,    \* the promise of a request, and the child it was sent to
  inbox,      \* requests on their way to a child
  executing,  \* requests a child has received and not answered
  replies     \* answers on their way to the client

clientVars == <<child, connected, request>>
executorVars == <<poolVars, clientVars, process, inbox, executing, replies>>

ExecutorTypeOK ==
  /\ PoolTypeOK
  /\ child \in 0..MaxChildren
  /\ connected \in [Children -> BOOLEAN]
  /\ process \in [Children -> {"none", "up", "stopping", "dead", "gone"}]
  /\ request \in [Requests -> {"new", "pending", "resolved", "rejected"}]
  /\ inbox \in [Children -> SUBSET Requests] /\ executing \in [Children -> SUBSET Requests]
  /\ replies \subseteq Requests \X {"resolved", "rejected"}

ExecutorInit ==
  /\ PoolInit
  /\ child = 0
  /\ connected = [c \in Children |-> FALSE]
  /\ process = [c \in Children |-> "none"]
  /\ request = [r \in Requests |-> "new"]
  /\ inbox = [c \in Children |-> {}] /\ executing = [c \in Children |-> {}]
  /\ replies = {}

-----------------------------------------------------------------------------
(* The client.                                                             *)

\* ensureChild, and child.send: to a child that has died unnoticed, the message
\* fails or is lost.
SendTo(c, r) ==
  IF process'[c] = "up"
  THEN /\ request' = [request EXCEPT ![r] = "pending"]
       /\ inbox' = [inbox EXCEPT ![c] = @ \cup {r}]
  ELSE /\ request' \in {[request EXCEPT ![r] = "pending"], [request EXCEPT ![r] = "rejected"]}
       /\ UNCHANGED inbox

Usable == child # 0 /\ connected[child]

Send(r) ==
  /\ request[r] = "new"
  /\ Usable
  /\ UNCHANGED process
  /\ SendTo(child, r)
  /\ UNCHANGED <<poolVars, child, connected, executing, replies>>

Fork(r) ==
  /\ request[r] = "new"
  /\ ~Usable
  /\ \E c \in Children :
       /\ process[c] = "none" /\ \A d \in 1..(c - 1) : process[d] # "none"
       /\ process' = [process EXCEPT ![c] = "up"]
       /\ connected' = [connected EXCEPT ![c] = TRUE]
       /\ child' = c
       /\ SendTo(c, r)
  /\ pool' = EmptyPool
  /\ UNCHANGED <<capacity, proxy, trouble, executing, replies>>

\* An answer to a request that was given up before is dropped.
Deliver(r, answer) ==
  /\ <<r, answer>> \in replies
  /\ replies' = replies \ {<<r, answer>>}
  /\ request' = [request EXCEPT ![r] = IF @ = "pending" THEN answer ELSE @]
  /\ UNCHANGED <<poolVars, child, connected, process, inbox, executing>>

SeeDisconnect(c) ==
  /\ process[c] = "dead" /\ connected[c]
  /\ connected' = [connected EXCEPT ![c] = FALSE]
  /\ UNCHANGED <<poolVars, child, request, process, inbox, executing, replies>>

\* The exit of a child rejects whatever is pending, wherever it was sent.
ForgetChild(c) == child' = IF child = c THEN 0 ELSE child

RejectUnlessReplaced(c) ==
  request' = [r \in Requests |-> IF request[r] = "pending" /\ child = c THEN "rejected" ELSE request[r]]
RejectAll(c) ==
  request' = [r \in Requests |-> IF request[r] = "pending" THEN "rejected" ELSE request[r]]

SeeExit(c) ==
  /\ process[c] = "dead"
  /\ process' = [process EXCEPT ![c] = "gone"]
  /\ connected' = [connected EXCEPT ![c] = FALSE]
  /\ ForgetChild(c)
  /\ RejectAll(c)
  /\ UNCHANGED <<poolVars, inbox, executing, replies>>

\* close: the engine shuts down, and its handlers go on.
CloseClient ==
  /\ child # 0 /\ Trouble
  /\ child' = 0
  /\ process' = [process EXCEPT ![child] = IF @ = "up" THEN "stopping" ELSE @]
  /\ UNCHANGED <<pool, capacity, proxy, connected, request, inbox, executing, replies>>

-----------------------------------------------------------------------------
(* The child.                                                              *)

Up(c) == process[c] = "up"
OfChild(c) == Up(c) /\ UNCHANGED <<clientVars, process>>

Receive(c, r) ==
  /\ OfChild(c) /\ r \in inbox[c]
  /\ inbox' = [inbox EXCEPT ![c] = @ \ {r}]
  /\ executing' = [executing EXCEPT ![c] = @ \cup {r}]
  /\ IF r \in Tasks THEN Use(r) ELSE UNCHANGED poolVars
  /\ UNCHANGED replies

Answer(c, r) ==
  /\ OfChild(c) /\ r \in executing[c]
  /\ executing' = [executing EXCEPT ![c] = @ \ {r}]
  /\ IF r \in Plain
     THEN replies' = replies \cup {<<r, "resolved">>} /\ UNCHANGED pool
     ELSE /\ pool.result[r] # "none"
          /\ replies' = replies \cup {<<r, IF pool.result[r] = "ok" THEN "resolved" ELSE "rejected">>}
          /\ pool' = [pool EXCEPT !.result[r] = "none"]
  /\ UNCHANGED <<capacity, proxy, trouble, inbox>>

\* The idle timer of the child: nothing to do, and Chromium closed.
IdleExit(c) ==
  /\ Up(c) /\ executing[c] = {}
  /\ Active(pool) = {} /\ pool.queue = <<>> /\ pool.browser = 0
  /\ process' = [process EXCEPT ![c] = "dead"]
  /\ UNCHANGED <<poolVars, clientVars, inbox, executing, replies>>

\* What a dead child has written may still arrive, or not.
ChildCrashes(c) ==
  /\ Up(c) /\ Trouble
  /\ process' = [process EXCEPT ![c] = "dead"]
  /\ replies' \in {replies, {}}
  /\ UNCHANGED <<pool, capacity, proxy, clientVars, inbox, executing>>

\* SIGTERM: closing the pool fails its tasks, and their answers may go out.
ShutDown(c) ==
  /\ process[c] = "stopping"
  /\ process' = [process EXCEPT ![c] = "dead"]
  /\ \E rs \in {{}, executing[c]} : replies' = replies \cup (rs \X {"rejected"})
  /\ UNCHANGED <<poolVars, clientVars, inbox, executing>>

InPool(step) ==
  /\ step
  /\ \E c \in Children : Up(c)
  /\ UNCHANGED <<clientVars, process, inbox, executing, replies>>

-----------------------------------------------------------------------------
ExecutorNext ==
  \/ \E r \in Requests : Send(r) \/ Fork(r)
  \/ \E r \in Requests, answer \in {"resolved", "rejected"} : Deliver(r, answer)
  \/ \E c \in Children : \/ SeeDisconnect(c) \/ SeeExit(c)
                         \/ IdleExit(c) \/ ChildCrashes(c) \/ ShutDown(c)
  \/ \E c \in Children, r \in Requests : Receive(c, r) \/ Answer(c, r)
  \/ CloseClient
  \/ InPool(PoolNext)
  \/ InPool(ChangeProxy)

ExecutorSpec == ExecutorInit /\ [][ExecutorNext]_executorVars

-----------------------------------------------------------------------------
(* A request that waits is never forgotten: it is on its way, or its child *)
(* works on it - with a page, a launch or a place in the queue that a      *)
(* running task will give it - or its answer is on its way, or a child has *)
(* ended and its exit, once seen, rejects it (web-executor-client.ts:102). *)
(* Every step towards an answer is one of finitely many, so that each      *)
(* request is settled if the processes go on.                              *)
UnderWay(t) ==
  \/ pool.result[t] # "none"
  \/ pool.phase[t] \in Running /\ (pool.phase[t] = "launching" => pool.launching # 0)
  \/ /\ pool.phase[t] = "queued"
     /\ \E s \in Tasks : pool.phase[s] \in Running \cup {"last"}

NoRequestIsForgotten ==
  \A r \in Requests : request[r] = "pending" =>
    \/ \E c \in Children : process[c] \in {"stopping", "dead"}
    \/ \E c \in Children : Up(c) /\ (r \in inbox[c] \/ (r \in executing[c] /\ (r \in Plain \/ UnderWay(r))))
    \/ \E answer \in {"resolved", "rejected"} : <<r, answer>> \in replies
=============================================================================
