----------------------------- MODULE Conductor -----------------------------
(***************************************************************************)
(* The connection of an executor to the conductor: a thread connects,      *)
(* receives requests, serves them one by one and reconnects whenever the   *)
(* connection is lost; another thread pings the connection and closes it   *)
(* when no pong comes (older versions of the websocket library; newer ones *)
(* ping by themselves). destroy stops both. The conductor and the network  *)
(* are external: a connection may be closed by the peer or go silent.      *)
(***************************************************************************)
EXTENDS Naturals, Sequences, FiniteSets, TLC

CONSTANTS
    Requests,       \* the requests the conductor sends
    KindOf,         \* the message type of each
    OwnKeepalive,   \* the keepalive thread runs
    MaxConns,       \* bound on the connections
    MaxSilent,      \* bound on the connections that go silent or are closed
    None

Conns == 1..MaxConns

VARIABLES
    evt,            \* the stop event
    closing,        \* destroy: before, or after, it closed the connection
    conn,           \* the state of each connection: "none", "open", "silent"
                    \* (nothing arrives any more), "torn" (closed, but recv
                    \* does not notice) or "closed"
    sock,           \* self.websocket, 0 for None
    inbox,          \* what each connection has not delivered yet
    main,           \* the connecting thread: where it is, its connection,
                    \* the request it serves and how that ended
    ping,           \* the keepalive thread: where it is, the pinged connection
    taken,          \* the requests received on each connection
    replies,        \* what was sent on each
    failures        \* connections that went silent or were closed by the peer

vars == <<evt, closing, conn, sock, inbox, main, ping, taken, replies, failures>>

(***************************************************************************)
(* What the reply to each type of request carries when its handler raises. *)
(***************************************************************************)
Management == [k \in {"RECOVERY", "CANCEL", "DELETE", "RESUME", "RESTART"} |-> "no success"]
Forking == [k \in {"FORK_WORKFLOW", "FORK_FROM_FAILURE"} |-> "nothing"]
Listing == [k \in {"LIST_WORKFLOWS", "LIST_QUEUED_WORKFLOWS"} |-> "empty"] @@
           [k \in {"GET_WORKFLOW"} |-> "nothing"]
Contents == [k \in {"GET_WORKFLOW_EVENTS", "GET_WORKFLOW_NOTIFICATIONS", "GET_WORKFLOW_STREAMS",
                    "LIST_STEPS"} |-> "nothing"] @@
            [k \in {"EXIST_PENDING_WORKFLOWS"} |-> "empty"]
Upkeep == [k \in {"RETENTION", "ALERT", "IMPORT_WORKFLOW"} |-> "no success"] @@
          [k \in {"GET_METRICS"} |-> "empty"] @@ [k \in {"EXPORT_WORKFLOW"} |-> "nothing"]
Schedules == [k \in {"LIST_SCHEDULES", "BACKFILL_SCHEDULE"} |-> "empty"] @@
             [k \in {"GET_SCHEDULE", "TRIGGER_SCHEDULE"} |-> "nothing"] @@
             [k \in {"PAUSE_SCHEDULE", "RESUME_SCHEDULE"} |-> "no success"]
Versions == [k \in {"LIST_APPLICATION_VERSIONS"} |-> "empty"] @@
            [k \in {"SET_LATEST_APPLICATION_VERSION"} |-> "no success"]
Aggregates == [k \in {"GET_WORKFLOW_AGGREGATES", "GET_STEP_AGGREGATES"} |-> "empty"]
Queues == [k \in {"LIST_QUEUES"} |-> "empty"] @@ [k \in {"GET_QUEUE"} |-> "nothing"]

OnFailure == Management @@ Forking @@ Listing @@ Contents @@ Upkeep @@ Schedules
             @@ Versions @@ Aggregates @@ Queues

ConductorAssumption ==
    /\ DOMAIN KindOf = Requests
    /\ \A r \in Requests : KindOf[r] \in DOMAIN OnFailure \cup {"EXECUTOR_INFO", "UNKNOWN"}
    /\ OwnKeepalive \in BOOLEAN /\ MaxConns \in Nat \ {0} /\ MaxSilent \in Nat
    /\ None \notin Requests

Init ==
    /\ evt = FALSE /\ closing = FALSE
    /\ conn = [c \in Conns |-> "none"] /\ sock = 0
    /\ inbox = [c \in Conns |-> <<>>]
    /\ main = [pc |-> "connect", conn |-> 0, req |-> None, failed |-> FALSE]
    /\ ping = [pc |-> "unborn", conn |-> 0]
    /\ taken = [c \in Conns |-> {}] /\ replies = [c \in Conns |-> {}]
    /\ failures = 0

-----------------------------------------------------------------------------
(***************************************************************************)
(* The conductor and the network. What is sent while a connection is open  *)
(* is received; once it is silent nothing arrives in either direction.     *)
(***************************************************************************)
Request(c, r) ==
    /\ conn[c] = "open"
    /\ r \notin taken[c] /\ \A i \in DOMAIN inbox[c] : inbox[c][i] # r
    /\ inbox' = [inbox EXCEPT ![c] = Append(@, r)]
    /\ UNCHANGED <<evt, closing, conn, sock, main, ping, taken, replies, failures>>

Fail(c) ==
    /\ failures < MaxSilent /\ conn[c] = "open"
    /\ failures' = failures + 1
    /\ \E s \in {"silent", "closed"} : conn' = [conn EXCEPT ![c] = s]
    /\ inbox' = [inbox EXCEPT ![c] = <<>>]
    /\ UNCHANGED <<evt, closing, sock, main, ping, taken, replies>>

\* The library's own keepalive closes a silent connection; the close may
\* fail to reach a thread in recv.
LibraryKeepalive(c) ==
    /\ ~OwnKeepalive /\ conn[c] = "silent"
    /\ \E s \in {"torn", "closed"} : conn' = [conn EXCEPT ![c] = s]
    /\ UNCHANGED <<evt, closing, sock, inbox, main, ping, taken, replies, failures>>

-----------------------------------------------------------------------------
(***************************************************************************)
(* The connecting thread.                                                  *)
(***************************************************************************)
\* Mutant: the websocket is not closed when the loop leaves it.
LeaveOpen(pc) ==
    /\ main' = [pc |-> pc, conn |-> 0, req |-> None, failed |-> FALSE]
    /\ UNCHANGED conn

\* Leaving the with statement closes the connection.
LeaveFor(pc) ==
    /\ main' = [pc |-> pc, conn |-> 0, req |-> None, failed |-> FALSE]
    /\ conn' = IF main.conn = 0 THEN conn ELSE [conn EXCEPT ![main.conn] = "closed"]

\* A connection is opened, or it is refused and tried again. The keepalive
\* thread is started with the first one.
Connect ==
    LET c == Cardinality({d \in Conns : conn[d] # "none"}) + 1
    IN  /\ main.pc = "connect" /\ ~evt /\ c \in Conns
        /\ conn' = [conn EXCEPT ![c] = "open"]
        /\ sock' = c
        /\ main' = [main EXCEPT !.pc = "recv", !.conn = c]
        /\ ping' = IF OwnKeepalive /\ ping.pc = "unborn" THEN [ping EXCEPT !.pc = "check"] ELSE ping
        /\ UNCHANGED <<evt, closing, inbox, taken, replies, failures>>

Receive ==
    LET c == main.conn
    IN  /\ main.pc = "recv" /\ ~evt /\ inbox[c] # <<>>
        /\ main' = [main EXCEPT !.pc = "serve", !.req = Head(inbox[c])]
        /\ inbox' = [inbox EXCEPT ![c] = Tail(@)]
        /\ taken' = [taken EXCEPT ![c] = @ \cup {Head(inbox[c])}]
        /\ UNCHANGED <<evt, closing, conn, sock, ping, replies, failures>>

\* recv raises ConnectionClosed, or it times out and finds a close code.
ReceiveRaises ==
    /\ main.pc = "recv" /\ conn[main.conn] = "closed"
    /\ LeaveFor("connect")
    /\ UNCHANGED <<evt, closing, sock, inbox, ping, taken, replies, failures>>

ReceiveTimesOut ==
    /\ main.pc = "recv" /\ inbox[main.conn] = <<>> /\ conn[main.conn] \in {"torn", "closed"}
    /\ LeaveFor("connect")
    /\ UNCHANGED <<evt, closing, sock, inbox, ping, taken, replies, failures>>

\* The handler of the request returns or raises.
Serve ==
    /\ main.pc = "serve"
    /\ \E f \in BOOLEAN :
          /\ f => KindOf[main.req] \in DOMAIN OnFailure
          /\ main' = [main EXCEPT !.pc = "reply", !.failed = f]
    /\ UNCHANGED <<evt, closing, conn, sock, inbox, ping, taken, replies, failures>>

\* The message lacks a field: the error leaves the loop, and the connection.
ServeMalformed ==
    /\ main.pc = "serve"
    /\ LeaveFor("connect")
    /\ UNCHANGED <<evt, closing, sock, inbox, ping, taken, replies, failures>>

ReplyTo(r, failed) ==
    [to |-> r,
     error |-> failed \/ KindOf[r] = "UNKNOWN",
     value |-> IF failed THEN OnFailure[KindOf[r]] ELSE "result"]

\* send raises when the connection is closed.
Reply ==
    LET c == main.conn
    IN  /\ main.pc = "reply"
        /\ IF conn[c] \in {"torn", "closed"}
           THEN LeaveFor("connect") /\ UNCHANGED replies
           ELSE /\ main' = [main EXCEPT !.pc = "recv", !.req = None, !.failed = FALSE]
                /\ replies' = [replies EXCEPT ![c] = @ \cup {ReplyTo(main.req, main.failed)}]
                /\ UNCHANGED conn
        /\ UNCHANGED <<evt, closing, sock, inbox, ping, taken, failures>>

\* Mutant: only the outer loop looks at the event.
StopOuterOnly ==
    /\ evt /\ main.pc = "connect"
    /\ LeaveFor("join")
    /\ ping' = IF ping.pc = "wait" THEN [ping EXCEPT !.pc = "rest"] ELSE ping
    /\ UNCHANGED <<evt, closing, sock, inbox, taken, replies, failures>>

\* The loops end once the event is set. The keepalive thread is woken, if it
\* waits for a pong, and joined.
Stop ==
    /\ evt /\ main.pc \in {"connect", "recv"}
    /\ LeaveFor("join")
    /\ ping' = IF ping.pc = "wait" THEN [ping EXCEPT !.pc = "rest"] ELSE ping
    /\ UNCHANGED <<evt, closing, sock, inbox, taken, replies, failures>>

Join ==
    /\ main.pc = "join" /\ ping.pc \in {"unborn", "ended"}
    /\ main' = [main EXCEPT !.pc = "ended"]
    /\ UNCHANGED <<evt, closing, conn, sock, inbox, ping, taken, replies, failures>>

-----------------------------------------------------------------------------
(***************************************************************************)
(* The keepalive thread, and destroy.                                      *)
(***************************************************************************)

\* While there is no connection that is not closed, it looks again later.
Ping ==
    /\ ping.pc = "check"
    /\ ping' = IF evt THEN [ping EXCEPT !.pc = "ended"]
               ELSE IF sock # 0 /\ conn[sock] \in {"open", "silent"}
               THEN [pc |-> "wait", conn |-> sock] ELSE ping
    /\ UNCHANGED <<evt, closing, conn, sock, inbox, main, taken, replies, failures>>

Pong ==
    /\ ping.pc = "wait" /\ conn[ping.conn] = "open"
    /\ ping' = [ping EXCEPT !.pc = "rest"]
    /\ UNCHANGED <<evt, closing, conn, sock, inbox, main, taken, replies, failures>>

\* No pong in time: what self.websocket is by then is closed.
NoPong ==
    /\ ping.pc = "wait" /\ conn[ping.conn] # "open"
    /\ \E s \in {"torn", "closed"} :
          conn' = IF conn[sock] \in {"open", "silent"} THEN [conn EXCEPT ![sock] = s] ELSE conn
    /\ inbox' = [inbox EXCEPT ![sock] = <<>>]
    /\ ping' = [ping EXCEPT !.pc = "check"]
    /\ UNCHANGED <<evt, closing, sock, main, taken, replies, failures>>

Rest ==
    /\ ping.pc = "rest"
    /\ ping' = [ping EXCEPT !.pc = "check"]
    /\ UNCHANGED <<evt, closing, conn, sock, inbox, main, taken, replies, failures>>

SetStop ==
    /\ ~evt /\ evt' = TRUE
    /\ UNCHANGED <<closing, conn, sock, inbox, main, ping, taken, replies, failures>>

CloseOnDestroy ==
    /\ evt /\ ~closing /\ closing' = TRUE
    /\ conn' = IF sock = 0 THEN conn ELSE [conn EXCEPT ![sock] = "closed"]
    /\ UNCHANGED <<evt, sock, inbox, main, ping, taken, replies, failures>>

Finished ==
    /\ main.pc = "ended" /\ closing
    /\ UNCHANGED vars

-----------------------------------------------------------------------------
MainThread ==
    \/ Connect \/ Receive \/ ReceiveRaises \/ ReceiveTimesOut
    \/ Serve \/ ServeMalformed \/ Reply \/ Stop \/ Join

KeepaliveThread == Ping \/ Pong \/ NoPong \/ Rest

Next ==
    \/ \E c \in Conns, r \in Requests : Request(c, r)
    \/ \E c \in Conns : Fail(c) \/ LibraryKeepalive(c)
    \/ MainThread \/ KeepaliveThread
    \/ SetStop \/ CloseOnDestroy \/ Finished

Spec == Init /\ [][Next]_vars

-----------------------------------------------------------------------------
(***************************************************************************)
(* Properties.                                                             *)
(***************************************************************************)
TypeOK ==
    /\ evt \in BOOLEAN /\ closing \in BOOLEAN
    /\ conn \in [Conns -> {"none", "open", "silent", "torn", "closed"}]
    /\ sock \in 0..MaxConns
    /\ main.pc \in {"connect", "recv", "serve", "reply", "join", "ended"}
    /\ main.conn \in 0..MaxConns /\ main.req \in Requests \cup {None}
    /\ ping.pc \in {"unborn", "check", "wait", "rest", "ended"} /\ ping.conn \in 0..MaxConns
    /\ failures \in 0..MaxSilent

\* There is never more than one connection to the conductor: what is left
\* behind when the thread reconnects is closed.
OneConnection ==
    \A c, d \in Conns : conn[c] \in {"open", "silent"} /\ conn[d] \in {"open", "silent"} => c = d

\* When the thread waits for the next request, it has replied to every one
\* that it received on the connection, of a type it knows or not ("Still
\* need to send a response to the conductor"), once, and the reply to a
\* request whose handler raised says so.
AllAnswered ==
    main.pc = "recv" =>
        \A r \in taken[main.conn] :
            /\ \E a \in replies[main.conn] : a.to = r
            /\ \A a, b \in replies[main.conn] : a.to = b.to => a = b
            /\ \A a \in replies[main.conn] : a.error <=> a.value # "result" \/ KindOf[a.to] = "UNKNOWN"

\* The thread sits on a connection that is silent, or whose close recv does
\* not notice; and the event is set and the thread has not ended.
Stale(c) == main.conn = c /\ conn[c] \in {"silent", "torn"}
Ending == evt /\ main.pc # "ended"
=============================================================================
