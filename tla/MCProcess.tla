------------------------------ MODULE MCProcess -----------------------------
(***************************************************************************)
(* Instances of Lifecycle and Conductor for the model checker. Every       *)
(* behaviour is one of the scenarios below, from the start to the end; the *)
(* variables the scenario does not use are None.                           *)
(***************************************************************************)
EXTENDS Naturals

CONSTANT None

VARIABLES
    scenario,
    phase, gen, executor, db, row, recorded, calls, todo, pool, threads, futures,  \* of Lifecycle
    evt, closing, conn, sock, inbox, main, ping, taken, replies, failures          \* of Conductor

Couple == [w \in {"p", "c"} |-> IF w = "p" THEN "c" ELSE None]
Singles == [w \in {"c", "s"} |-> None]

\* One thread for two workflows; DBOS is destroyed and launched again.
Relaunched == INSTANCE Lifecycle WITH
    Workflows <- {"c", "s"}, Child <- Singles, Coroutines <- {}, Loop <- "background",
    Patient <- FALSE, Threads <- 1, MaxLaunches <- 3

\* destroy is called on the event loop that a coroutine runs on, and waits for
\* the workflows.
MainLoop == INSTANCE Lifecycle WITH
    Workflows <- {"c", "s"}, Child <- Singles, Coroutines <- {"c"}, Loop <- "destroying",
    Patient <- TRUE, Threads <- 2, MaxLaunches <- 3

\* A parent and its child, a coroutine.
Family == INSTANCE Lifecycle WITH
    Workflows <- {"p", "c"}, Child <- Couple, Coroutines <- {"c"}, Loop <- "background",
    Patient <- FALSE, Threads <- 2, MaxLaunches <- 3

\* The same, on the main loop of the application.
Hosted == INSTANCE Lifecycle WITH
    Workflows <- {"p", "c"}, Child <- Couple, Coroutines <- {"c"}, Loop <- "main",
    Patient <- FALSE, Threads <- 2, MaxLaunches <- 3

Kinds == [r \in {"r1", "r2"} |-> IF r = "r1" THEN "CANCEL" ELSE "UNKNOWN"]

\* Two requests, one of them of a type that is not known.
Serving == INSTANCE Conductor WITH
    Requests <- {"r1", "r2"}, KindOf <- Kinds, OwnKeepalive <- TRUE, MaxConns <- 2,
    MaxSilent <- 1

\* One request; connections go silent.
Silenced == INSTANCE Conductor WITH
    Requests <- {"r1"}, KindOf <- [r \in {"r1"} |-> "EXECUTOR_INFO"], OwnKeepalive <- TRUE,
    MaxConns <- 3, MaxSilent <- 2

\* The library's keepalive instead of the keepalive thread.
Library == INSTANCE Conductor WITH
    Requests <- {"r1", "r2"}, KindOf <- Kinds, OwnKeepalive <- FALSE,
    MaxConns <- 3, MaxSilent <- 2

ASSUME ScenarioAssumption ==
    /\ Relaunched!LifecycleAssumption /\ MainLoop!LifecycleAssumption
    /\ Family!LifecycleAssumption /\ Hosted!LifecycleAssumption
    /\ Serving!ConductorAssumption /\ Silenced!ConductorAssumption
    /\ Library!ConductorAssumption

lifeVars == <<phase, gen, executor, db, row, recorded, calls, todo, pool, threads, futures>>
conductorVars == <<evt, closing, conn, sock, inbox, main, ping, taken, replies, failures>>
vars == <<scenario, lifeVars, conductorVars>>

NoLife ==
    /\ phase = None /\ gen = None /\ executor = None /\ db = None /\ row = None
    /\ recorded = None /\ calls = None /\ todo = None /\ pool = None /\ threads = None
    /\ futures = None
NoConductor ==
    /\ evt = None /\ closing = None /\ conn = None /\ sock = None /\ inbox = None
    /\ main = None /\ ping = None /\ taken = None /\ replies = None /\ failures = None

Init ==
    \/ /\ NoConductor
       /\ \/ scenario = "relaunched" /\ Relaunched!Init
          \/ scenario = "main_loop" /\ MainLoop!Init
          \/ scenario = "family" /\ Family!Init
          \/ scenario = "hosted" /\ Hosted!Init
    \/ /\ NoLife
       /\ \/ scenario = "serving" /\ Serving!Init
          \/ scenario = "silenced" /\ Silenced!Init
          \/ scenario = "library" /\ Library!Init

Next ==
    /\ UNCHANGED scenario
    /\ \/ /\ \/ scenario = "relaunched" /\ Relaunched!Next
             \/ scenario = "main_loop" /\ MainLoop!Next
             \/ scenario = "family" /\ Family!Next
             \/ scenario = "hosted" /\ Hosted!Next
          /\ UNCHANGED conductorVars
       \/ /\ \/ scenario = "serving" /\ Serving!Next
             \/ scenario = "silenced" /\ Silenced!Next
             \/ scenario = "library" /\ Library!Next
          /\ UNCHANGED lifeVars

\* DBOS is launched again after it was destroyed, and destroyed after it failed
\* to launch; threads run. Nobody has to call destroy while it is up. Handlers
\* of the conductor's requests return, the library notices silence, and the
\* conductor accepts connections.
Fairness ==
    /\ WF_(Relaunched!vars)(scenario = "relaunched" /\ Relaunched!Launch)
    /\ WF_(Relaunched!vars)(scenario = "relaunched" /\ Relaunched!Destroy)
    /\ WF_(Relaunched!vars)(scenario = "relaunched" /\ phase = "failed" /\ Relaunched!Stop)
    /\ WF_(Relaunched!vars)(scenario = "relaunched" /\ \E c \in calls : Relaunched!CallSubmits(c))
    /\ \A w \in {"c", "s"} :
          /\ WF_(Relaunched!vars)(scenario = "relaunched" /\ Relaunched!Recover(w))
          /\ WF_(Relaunched!vars)(scenario = "relaunched" /\ Relaunched!Begin(w))
          /\ WF_(Relaunched!vars)
                (scenario = "relaunched" /\ \E t \in threads : t.wf = w /\ Relaunched!Run(t))
    /\ WF_(MainLoop!vars)(scenario = "main_loop" /\ MainLoop!Launch)
    /\ WF_(MainLoop!vars)(scenario = "main_loop" /\ MainLoop!Destroy)
    /\ WF_(MainLoop!vars)(scenario = "main_loop" /\ phase = "failed" /\ MainLoop!Stop)
    /\ WF_(MainLoop!vars)(scenario = "main_loop" /\ \E c \in calls : MainLoop!CallSubmits(c))
    /\ \A w \in {"c", "s"} :
          /\ WF_(MainLoop!vars)(scenario = "main_loop" /\ MainLoop!Recover(w))
          /\ WF_(MainLoop!vars)(scenario = "main_loop" /\ MainLoop!Begin(w))
          /\ WF_(MainLoop!vars)
                (scenario = "main_loop" /\ \E t \in threads : t.wf = w /\ MainLoop!Run(t))
    /\ WF_(Silenced!vars)(scenario = "silenced" /\ Silenced!MainThread)
    /\ WF_(Silenced!vars)(scenario = "silenced" /\ Silenced!KeepaliveThread)
    /\ WF_(Library!vars)(scenario = "library" /\ Library!MainThread)
    /\ WF_(Library!vars)
          (scenario = "library" /\ \E c \in Library!Conns : Library!LibraryKeepalive(c))

Spec == Init /\ [][Next]_vars /\ Fairness

-----------------------------------------------------------------------------
(* Properties, stated in the modules and here for their scenarios.         *)

\* The type invariants of both modules: no more threads run than the executor
\* has, and a request is served on the connection it came from.
TypeOK ==
    CASE scenario = "relaunched" -> Relaunched!TypeOK
      [] scenario = "main_loop" -> MainLoop!TypeOK
      [] scenario = "family" -> Family!TypeOK
      [] scenario = "hosted" -> Hosted!TypeOK
      [] scenario = "serving" -> Serving!TypeOK
      [] scenario = "silenced" -> Silenced!TypeOK
      [] scenario = "library" -> Library!TypeOK

\* Shutting DBOS down fails no workflow that starts no other: one that destroy
\* interrupts stays PENDING (_destroy, persist).
NoSpuriousError ==
    /\ scenario = "relaunched" => Relaunched!NoSpuriousError
    /\ scenario = "main_loop" => MainLoop!NoSpuriousError

\* The outcome of a workflow is final: a thread of an instance that was
\* destroyed does not overwrite what a later execution recorded (persist).
OutcomeFinal ==
    [][ /\ scenario = "relaunched" => Relaunched!OutcomeFinal
        /\ scenario = "main_loop" => MainLoop!OutcomeFinal
        /\ scenario = "family" => Family!OutcomeFinal
        /\ scenario = "hosted" => Hosted!OutcomeFinal ]_vars

\* A workflow whose row was inserted completes, whichever step of destroy it
\* was overtaken by (_destroy, startup_recovery_thread).
Completes ==
    \A w \in {"c", "s"} :
        LET pending == \/ scenario = "relaunched" /\ Relaunched!Pending(w)
                       \/ scenario = "main_loop" /\ MainLoop!Pending(w)
        IN  pending ~> ~pending

\* destroy ends, even with workflows that cannot go on, and when it is called
\* on the event loop that owns the timeout tasks (_destroy).
DestroyEnds ==
    LET waiting == scenario = "main_loop" /\ phase = "wait"
    IN  waiting ~> scenario = "main_loop" /\ phase = "off"

\* There is never more than one connection to the conductor: what is left
\* behind when the thread reconnects is closed (ConductorWebsocket.run).
OneConnection ==
    /\ scenario = "serving" => Serving!OneConnection
    /\ scenario = "silenced" => Silenced!OneConnection
    /\ scenario = "library" => Library!OneConnection

\* When the thread waits for the next request it has replied to every one that
\* it received on the connection, once (ConductorWebsocket.run).
AllAnswered ==
    /\ scenario = "serving" => Serving!AllAnswered
    /\ scenario = "silenced" => Silenced!AllAnswered
    /\ scenario = "library" => Library!AllAnswered

\* A connection that goes silent, or whose close recv does not notice, is
\* given up (keepalive, ConductorWebsocket.run).
Reconnects ==
    \A k \in 1..3 :
        LET stale == \/ scenario = "silenced" /\ Silenced!Stale(k)
                     \/ scenario = "library" /\ Library!Stale(k)
        IN  stale ~> ~stale

\* Once the event is set the threads end (ConductorWebsocket.run, keepalive).
ShutdownEnds ==
    LET ending == \/ scenario = "silenced" /\ Silenced!Ending
                  \/ scenario = "library" /\ Library!Ending
    IN  ending ~> ~ending
-----------------------------------------------------------------------------
(* What the run checks.                                                    *)

\* Shutting down decides no outcome, and no thread of an earlier instance
\* changes one (_destroy, persist).
OutcomesTrue == [](TypeOK /\ NoSpuriousError) /\ OutcomeFinal

\* Every request is answered once, over the only connection
\* (ConductorWebsocket.run).
RequestsAnswered == OneConnection /\ AllAnswered

\* Workflows overtaken by destroy complete after the next launch, destroy and
\* the shutdown of the conductor end, and lost connections are given up
\* (_destroy, startup_recovery_thread, ConductorWebsocket.run).
ProcessProgresses == Completes /\ DestroyEnds /\ Reconnects /\ ShutdownEnds
=============================================================================
