------------------------------ MODULE Server ------------------------------
(***************************************************************************)
(* The RESP server of src/src/net/server.rs: the listen loop, which takes  *)
(* a permit of the connection semaphore, accepts with exponential backoff *)
(* and spawns a Handler per connection; the Handlers, which serve frames  *)
(* until the client leaves, an error or the shutdown broadcast; and       *)
(* Server::run, which on the shutdown future (or a failed listen) drops   *)
(* the broadcast sender and its shutdown_complete sender and waits until  *)
(* every Handler has dropped its own.                                     *)
(*                                                                         *)
(* A connection is a model value of Conns; what a frame or a command says *)
(* is left out.  A Handler's Drop (add_permits(1), then the drop of its   *)
(* shutdown_complete sender) happens in the step in which run returns.    *)
(***************************************************************************)
EXTENDS Naturals, FiniteSets

CONSTANTS
    Conns,           \* the connections clients open (model values)
    MaxConnections,  \* MAX_CONNECTIONS
    MaxBackoff       \* MAX_BACKOFF, in seconds

ASSUME MaxConnections \in Nat \ {0} /\ MaxBackoff \in Nat \ {0}

VARIABLES
    permits,   \* available permits of limit_connections
    listener,  \* the listen task: pc, backoff and seconds slept in accept()
    conn,      \* per connection: "new", "reading", "applying" or "done"
    notified,  \* notify_shutdown has been dropped (the broadcast is closed)
    srv        \* Server::run: "running", "draining" or "exited"

vars == <<permits, listener, conn, notified, srv>>

\* A Handler task is alive: it holds a permit and a shutdown_complete sender.
Alive == {c \in Conns : conn[c] \in {"reading", "applying"}}

Init ==
    /\ permits = MaxConnections
    /\ listener = [pc |-> "acquire", backoff |-> 1, slept |-> 0]
    /\ conn = [c \in Conns |-> "new"]
    /\ notified = FALSE
    /\ srv = "running"

-----------------------------------------------------------------------------
(* Context::listen and Context::accept *)

\* Mutant: the listen loop takes a permit without waiting for one.
Acquire_noWait ==
    /\ listener.pc = "acquire"
    /\ permits' = permits - 1
    /\ listener' = [pc |-> "accept", backoff |-> 1, slept |-> 0]
    /\ UNCHANGED <<conn, notified, srv>>

\* limit_connections.acquire().await.unwrap().forget(); accept() starts
\* with backoff = 1.
Acquire ==
    /\ listener.pc = "acquire"
    /\ permits > 0
    /\ permits' = permits - 1
    /\ listener' = [pc |-> "accept", backoff |-> 1, slept |-> 0]
    /\ UNCHANGED <<conn, notified, srv>>

\* listener.accept() returns a socket: the Handler is built (subscribing to
\* the broadcast) and spawned; the loop goes back to the semaphore.
Accept(c) ==
    /\ listener.pc = "accept"
    /\ conn[c] = "new"
    /\ conn' = [conn EXCEPT ![c] = "reading"]
    /\ listener' = [listener EXCEPT !.pc = "acquire"]
    /\ UNCHANGED <<permits, notified, srv>>

\* Mutant: accept() gives up once backoff reaches MAX_BACKOFF.
AcceptError_geq ==
    /\ listener.pc = "accept"
    /\ listener' = [listener EXCEPT !.pc = IF listener.backoff >= MaxBackoff
                                          THEN "failed" ELSE "sleep"]
    /\ UNCHANGED <<permits, conn, notified, srv>>

\* listener.accept() fails: give up once backoff > MAX_BACKOFF, else sleep.
AcceptError ==
    /\ listener.pc = "accept"
    /\ listener' = [listener EXCEPT !.pc = IF listener.backoff > MaxBackoff
                                          THEN "failed" ELSE "sleep"]
    /\ UNCHANGED <<permits, conn, notified, srv>>

\* time::sleep(backoff), then backoff <<= 1 (a u64 that stops at
\* 2 * MAX_BACKOFF, far from overflow).
Backoff ==
    /\ listener.pc = "sleep"
    /\ listener' = [listener EXCEPT !.pc = "accept", !.slept = @ + listener.backoff,
                                    !.backoff = @ * 2]
    /\ UNCHANGED <<permits, conn, notified, srv>>

-----------------------------------------------------------------------------
(* Handler::run and Drop for Handler *)

\* Mutant: the Handler's Drop does not give its permit back.
Exit_noPermit(c) ==
    /\ conn' = [conn EXCEPT ![c] = "done"]
    /\ permits' = permits

\* The task ends: Drop adds the permit back and the shutdown_complete
\* sender is dropped.
Exit(c) ==
    /\ conn' = [conn EXCEPT ![c] = "done"]
    /\ permits' = permits + 1

\* read_frame() yields a frame; the command is parsed and applied.
Frame(c) ==
    /\ conn[c] = "reading"
    /\ conn' = [conn EXCEPT ![c] = "applying"]
    /\ UNCHANGED <<permits, listener, notified, srv>>

\* cmd.apply() returns Ok (the response is written): back to the loop.
Apply(c) ==
    /\ conn[c] = "applying"
    /\ conn' = [conn EXCEPT ![c] = "reading"]
    /\ UNCHANGED <<permits, listener, notified, srv>>

\* cmd.apply() returns an error: run returns it.
ApplyError(c) ==
    /\ conn[c] = "applying"
    /\ Exit(c)
    /\ UNCHANGED <<listener, notified, srv>>

\* read_frame() returns None (the client closed), an error, or a frame
\* Command::try_from rejects: run returns.
ClientGone(c) ==
    /\ conn[c] = "reading"
    /\ Exit(c)
    /\ UNCHANGED <<listener, notified, srv>>

\* Mutant: the Handler's loop has no shutdown branch and waits on read_frame.
HandlerShutdown_noSelect(c) == FALSE

\* The select! takes its shutdown.recv() branch: the broadcast is closed.
HandlerShutdown(c) ==
    /\ conn[c] = "reading"
    /\ notified
    /\ Exit(c)
    /\ UNCHANGED <<listener, notified, srv>>

-----------------------------------------------------------------------------
(* Server::run *)

\* The select! ends: listen() is cancelled where it waits, notify_shutdown
\* and shutdown_complete_tx are dropped.
Drain ==
    /\ srv' = "draining"
    /\ notified' = TRUE
    /\ listener' = [listener EXCEPT !.pc = "stopped"]
    /\ UNCHANGED <<permits, conn>>

\* The shutdown future completes.
ShutdownSignal ==
    /\ srv = "running"
    /\ Drain

\* listen() returned its error.
ListenFailed ==
    /\ srv = "running"
    /\ listener.pc = "failed"
    /\ Drain

\* shutdown_complete_rx.recv() returns None once every sender is dropped.
ServerExit ==
    /\ srv = "draining"
    /\ Alive = {}
    /\ srv' = "exited"
    /\ UNCHANGED <<permits, listener, conn, notified>>

\* run has returned: nothing happens any more.
Exited ==
    /\ srv = "exited"
    /\ UNCHANGED vars

Next ==
    \/ Acquire \/ \E c \in Conns : Accept(c) \/ AcceptError \/ Backoff
    \/ \E c \in Conns : Frame(c) \/ Apply(c) \/ ApplyError(c) \/ ClientGone(c)
                        \/ HandlerShutdown(c)
    \/ ShutdownSignal \/ ListenFailed \/ ServerExit \/ Exited

\* Fairness the runtime gives: tokio runs every ready task, timers fire,
\* a completed listen() ends the select!, and a Handler's select! picks at
\* random among ready branches, so a shutdown branch that is ready again
\* and again is taken (strong fairness).  Clients and the shutdown future
\* get no fairness: they may never act.
ServerFairness ==
    /\ WF_vars(Backoff) /\ WF_vars(ListenFailed) /\ WF_vars(ServerExit)
    /\ \A c \in Conns : SF_vars(HandlerShutdown(c))

\* In addition, every command eventually completes: its client keeps
\* reading responses.
Fairness == ServerFairness /\ \A c \in Conns : WF_vars(Apply(c))

Spec == Init /\ [][Next]_vars /\ Fairness

\* Clients may stop reading their responses, so a write may never finish.
SpecStalledClients == Init /\ [][Next]_vars /\ ServerFairness

-----------------------------------------------------------------------------
(* Properties *)

TypeOK ==
    /\ permits \in 0..MaxConnections
    /\ listener.pc \in {"acquire", "accept", "sleep", "failed", "stopped"}
    /\ listener.backoff \in Nat /\ listener.slept \in Nat
    /\ conn \in [Conns -> {"new", "reading", "applying", "done"}]
    /\ notified \in BOOLEAN
    /\ srv \in {"running", "draining", "exited"}

\* The listen task holds a permit it took and forgot, not yet handed to a
\* Handler (its loss when listen() fails is harmless: the server stops).
Held == IF listener.pc \in {"accept", "sleep", "failed"} THEN 1 ELSE 0

\* At most MAX_CONNECTIONS Handlers are ever alive, and while the server
\* runs every permit is in the semaphore, with the listen task, or with a
\* live Handler: the forget() in listen and the add_permits(1) in Handler's
\* Drop stay paired over every order of connects, errors and shutdowns.
ConnectionLimit ==
    /\ Cardinality(Alive) <= MaxConnections
    /\ srv = "running" => permits + Cardinality(Alive) + Held = MaxConnections

\* Seconds slept by an accept() that retries 1, 2, 4, ... seconds while the
\* wait is at most b_max.
RECURSIVE DoublingSum(_, _)
DoublingSum(b, bmax) == IF b > bmax THEN 0 ELSE b + DoublingSum(2 * b, bmax)

\* accept() gives up only after it has waited 1, 2, 4, ..., MAX_BACKOFF
\* seconds, every one of them: the comparison `backoff > MAX_BACKOFF` and
\* the shift `backoff <<= 1` meet at the boundary.
AcceptRetryBudget ==
    listener.pc = "failed" => listener.slept = DoublingSum(1, MaxBackoff)

\* Once the server stops (the shutdown future fired or listen() gave up),
\* Server::run eventually returns: every Handler leaves its loop.
ServerTerminates == (srv = "draining" \/ listener.pc = "failed") ~> srv = "exited"

=============================================================================
