---------------------------- MODULE ServiceProtocol ----------------------------
(***************************************************************************)
(* The service port: connections of the worker (service/server/), the      *)
(* password that guards them (auth/auth.cxx), and the client library       *)
(* (dblclient/) at their other end.                                        *)
(*                                                                         *)
(* A request has no length and no end: what one read of the server returns *)
(* is parsed as one request.  An answer ends with a marker.  Neither       *)
(* carries a number: the client takes the first answer that it reads for   *)
(* the answer to what it sent last.  Requests are numbered here, for each  *)
(* connection, to say when that is wrong.                                  *)
(*                                                                         *)
(* The server has one thread, so a handler is one step.  A token belongs   *)
(* to one connection and never leaves it, so the number of the connection  *)
(* stands for it; a password stands for its hash.                          *)
(***************************************************************************)
EXTENDS Naturals, Sequences

CONSTANTS
    Client,         \* users of the library, one Session each
    Password,
    NoPass,         \* nothing in settings
    MaxConn,        \* bound: connections
    MaxSent         \* bound: requests on a connection

ASSUME ProtocolAssumption ==
    /\ NoPass \notin Password
    /\ MaxConn \in Nat
    /\ MaxSent \in Nat \ {0}

VARIABLES
    password,       \* settings.service_password
    srv,            \* the server's end of each connection
    authed,         \* is_authenticated_
    up,             \* requests under way
    down,           \* answers under way
    client,         \* each client's connection and what it waits for
    told,           \* what its last call returned, until the next one
    done,           \* history: requests that changed what they are to change
    unchecked,      \* history: auth let in unfit, the setting not read
    astray          \* history: connections that answer too much or garble it

vars == <<password, srv, authed, up, down, client, told, done, unchecked, astray>>

-----------------------------------------------------------------------------
Conn == 1 .. MaxConn
NoConn == 0
Id == 1 .. MaxSent

\* session.cxx; block stands for unblock and import_domain_list also, get_domains
\* for all that only reads.  get_raw_data sends remove_service_password.
Goal == {"auth", "set_service_password", "remove_service_password", "block", "get_domains"}
Cmd == Goal \cup {"get_token", "reload"}

\* These ask for the token first (session.cxx:49-94).
NeedsToken == {"auth", "set_service_password"}

\* "rest": the beginning was read already.
Request == [id : Id, cmd : Cmd, pw : Password \cup {NoPass}, rest : BOOLEAN]
Answer == [id : Id, ok : BOOLEAN, token : BOOLEAN, end : BOOLEAN]

\* Waits for "no", the "token", or the "result"; or is "dead".
ClientState == [conn : Conn \cup {NoConn}, id : Id \cup {0}, goal : Goal,
                pw : Password \cup {NoPass}, wait : {"no", "token", "result", "dead"}]
Connected(k) == [conn |-> k, id |-> 0, goal |-> "get_domains", pw |-> NoPass, wait |-> "no"]
Apart == Connected(NoConn)
Dead == [Apart EXCEPT !.wait = "dead"]
Waits(c) == client[c].wait \in {"token", "result"}

Told == [conn : Conn \cup {NoConn}, id : Id \cup {0}, goal : Goal,
         answered : Id \cup {0}, ok : BOOLEAN]
Nothing == [conn |-> NoConn, id |-> 0, goal |-> "get_domains", answered |-> 0, ok |-> FALSE]

Live == {"backlog", "open"}
\* Closed, closed by a reload that was signalled, or gone with the worker.
Gone == {"closed", "reloaded", "ended"}

HasClient(k) == \E c \in Client : client[c].conn = k

\* A client that closes with answers unread, or is answered after that, resets
\* the connection.  Of such answers it matters only that there are any.
Reset(k) == ~HasClient(k) /\ down[k] # <<>>
Unread == <<[id |-> 1, ok |-> FALSE, token |-> FALSE, end |-> TRUE]>>

\* Mutant: a read may leave what it handled in the buffer.
Later_KeepsFirst(s) == {SubSeq(s, n, Len(s)) : n \in 1 .. Len(s) + 1}

\* What may be left of s after a read that began with its first element: all
\* that was read after the first request is ignored.
Later(s) == {SubSeq(s, n, Len(s)) : n \in 2 .. Len(s) + 1}

-----------------------------------------------------------------------------
Init ==
    /\ password = NoPass
    /\ srv = [k \in Conn |-> "none"]
    /\ authed = [k \in Conn |-> FALSE]
    /\ up = [k \in Conn |-> <<>>]
    /\ down = [k \in Conn |-> <<>>]
    /\ client = [c \in Client |-> Apart]
    /\ told = [c \in Client |-> Nothing]
    /\ done = {}
    /\ unchecked = {}
    /\ astray = {}

-----------------------------------------------------------------------------
(***************************************************************************)
(* The client library                                                      *)
(***************************************************************************)

\* The kernel completes a connection before the server accepts it.
Open(c) ==
    /\ client[c].conn = NoConn
    /\ client[c].wait = "no"
    /\ \E k \in Conn :
         /\ srv[k] = "none"
         /\ \A j \in Conn : j < k => srv[j] # "none"
         /\ srv' = [srv EXCEPT ![k] = "backlog"]
         /\ client' = [client EXCEPT ![c] = Connected(k)]
    /\ UNCHANGED <<password, authed, up, down, told, done, unchecked, astray>>

\* The socket is closed, and its client is as given then.
Leave(c, left) ==
    /\ client' = [client EXCEPT ![c] = left]
    /\ down' = [down EXCEPT ![client[c].conn] = IF @ = <<>> THEN @ ELSE Unread]
    /\ UNCHANGED <<password, srv, authed, up, told, done, unchecked, astray>>

Close(c) ==
    /\ client[c].conn # NoConn
    /\ client[c].wait = "no"
    /\ Leave(c, Apart)

Send(k, id, cmd, pw) ==
    up' = [up EXCEPT ![k] =
             IF srv[k] \in Live
             THEN Append(@, [id |-> id, cmd |-> cmd, pw |-> pw, rest |-> FALSE])
             ELSE @]

\* ServiceConnection::execute, called by a method of Session.
Execute(c) ==
    /\ client[c].conn # NoConn
    /\ client[c].wait = "no"
    /\ \E goal \in Goal, pw \in Password \cup {NoPass} :
         LET k == client[c].conn
             id == client[c].id + 1
             first == goal \in NeedsToken
         IN /\ id + (IF first THEN 1 ELSE 0) \in Id
            /\ pw = NoPass <=> ~first
            /\ client' = [client EXCEPT ![c] =
                            [conn |-> k, id |-> id, goal |-> goal, pw |-> pw,
                             wait |-> IF first THEN "token" ELSE "result"]]
            /\ Send(k, id, IF first THEN "get_token" ELSE goal, pw)
    /\ told' = [told EXCEPT ![c] = Nothing]
    /\ UNCHANGED <<password, srv, authed, down, done, unchecked, astray>>

\* send_one_way: nobody reads an answer.
SendReload(c) ==
    /\ client[c].conn # NoConn
    /\ client[c].wait = "no"
    /\ client[c].id + 1 \in Id
    /\ client' = [client EXCEPT ![c].id = @ + 1]
    /\ Send(client[c].conn, client[c].id + 1, "reload", NoPass)
    /\ UNCHANGED <<password, srv, authed, down, told, done, unchecked, astray>>

\* async_read_until ends with the first marker; what came after it in the same
\* read goes with the buffer.
Take(k, i) ==
    /\ i \in 1 .. Len(down[k])
    /\ down[k][i].end
    /\ \A j \in 1 .. i - 1 : ~down[k][j].end
    /\ \E n \in i .. Len(down[k]) :
         down' = [down EXCEPT ![k] = SubSeq(@, n + 1, Len(@))]

\* An answer without its end and another one do not parse.
Ok(k, i) == i = 1 /\ down[k][1].ok

\* The token came: the second request of authenticate or set_service_password.
ReceiveToken(c) ==
    /\ client[c].wait = "token"
    /\ LET k == client[c].conn
           id == client[c].id + 1
       IN \E i \in 1 .. Len(down[k]) :
            /\ Take(k, i)
            /\ Ok(k, i) /\ down[k][1].token
            /\ client' = [client EXCEPT ![c].id = id, ![c].wait = "result"]
            /\ Send(k, id, client[c].goal, client[c].pw)
    /\ UNCHANGED <<password, srv, authed, told, done, unchecked, astray>>

\* The call returns.
Receive(c) ==
    /\ Waits(c)
    /\ LET k == client[c].conn
           result == client[c].wait = "result"
       IN \E i \in 1 .. Len(down[k]) :
            /\ Take(k, i)
            /\ result \/ ~(Ok(k, i) /\ down[k][1].token)
            /\ told' = [told EXCEPT ![c] =
                          [conn |-> k, id |-> client[c].id, goal |-> client[c].goal,
                           answered |-> down[k][1].id, ok |-> result /\ Ok(k, i)]]
    /\ client' = [client EXCEPT ![c].wait = "no"]
    /\ UNCHANGED <<password, srv, authed, up, done, unchecked, astray>>

\* Mutant: the deadline ends the read and leaves the socket open.
Timeout_KeepsSocket(c) ==
    /\ Waits(c)
    /\ client' = [client EXCEPT ![c].wait = "no"]
    /\ UNCHANGED <<password, srv, authed, up, down, told, done, unchecked, astray>>

\* Mutant: the deadline closes the socket and the read waits on.
Timeout_KeepsWaiting(c) ==
    /\ Waits(c)
    /\ Leave(c, [client[c] EXCEPT !.conn = NoConn])

\* check_deadline closes the socket.  The read then takes two off a length of
\* zero: what comes of it does not parse and the call fails, or the client dies.
Timeout(c) ==
    /\ Waits(c)
    /\ Leave(c, Apart) \/ Leave(c, Dead)

\* End of file or a reset while it waits: DBLClientError.
PeerClosed(c) ==
    /\ Waits(c)
    /\ srv[client[c].conn] \in Gone
    /\ Leave(c, Apart)

-----------------------------------------------------------------------------
(***************************************************************************)
(* The server                                                              *)
(***************************************************************************)

\* The setting as a connection reads it: a read that fails finds no password.
NoPasswordSeen == {password = NoPass, TRUE}

Accept(k) ==
    /\ srv[k] = "backlog"
    /\ \A j \in Conn : j < k => srv[j] # "backlog"
    /\ srv' = [srv EXCEPT ![k] = "open"]
    /\ \E open \in NoPasswordSeen : authed' = [authed EXCEPT ![k] = open]
    /\ UNCHANGED <<password, up, down, client, told, done, unchecked, astray>>

Write(k, s) == down' = [down EXCEPT ![k] = IF HasClient(k) THEN @ \o s ELSE Unread]

Reply(k, r, ok) ==
    Write(k, <<[id |-> r.id, ok |-> ok, token |-> ok /\ r.cmd = "get_token", end |-> TRUE]>>)

Effect(k, r) == done' = done \cup {<<k, r.id>>}
Acted == done \cup unchecked

GetToken(k, r) ==
    /\ r.cmd = "get_token"
    /\ Reply(k, r, TRUE)
    /\ UNCHANGED <<password, srv, authed, done, unchecked, astray>>

\* Auth::auth.  A hash that does not fit takes nothing away.
Fits(r) == password \in {NoPass, r.pw}

Welcome(k, r) ==
    /\ Reply(k, r, TRUE)
    /\ authed' = [authed EXCEPT ![k] = TRUE]

\* Any hash will do where the setting cannot be read.
Authenticate(k, r) ==
    /\ r.cmd = "auth"
    /\ \/ Fits(r) /\ Welcome(k, r) /\ Effect(k, r) /\ UNCHANGED unchecked
       \/ /\ ~Fits(r)
          /\ Reply(k, r, FALSE)
          /\ UNCHANGED <<authed, done, unchecked>>
       \/ /\ ~Fits(r)
          /\ Welcome(k, r)
          /\ unchecked' = unchecked \cup {<<k, r.id>>}
          /\ UNCHANGED done
    /\ UNCHANGED <<password, srv, astray>>

\* An answer to a reload has nobody who reads it.
Refuse(k, r) ==
    /\ ~authed[k]
    /\ r.cmd \notin {"get_token", "auth"}
    /\ Reply(k, r, FALSE)
    /\ astray' = IF r.cmd = "reload" THEN astray \cup {k} ELSE astray
    /\ UNCHANGED <<password, srv, authed, done, unchecked>>

\* Mutant: the result of the settings is dropped, as that of remove is.
SetPassword_DropsResult(k, r) ==
    /\ authed[k]
    /\ r.cmd = "set_service_password"
    /\ Reply(k, r, TRUE)
    /\ \/ password' = r.pw /\ Effect(k, r)
       \/ UNCHANGED <<password, done>>
    /\ UNCHANGED <<srv, authed, unchecked, astray>>

\* Stored, or a statement raised.
SetPassword(k, r) ==
    /\ authed[k]
    /\ r.cmd = "set_service_password"
    /\ \/ password' = r.pw /\ Effect(k, r) /\ Reply(k, r, TRUE)
       \/ Reply(k, r, FALSE) /\ UNCHANGED <<password, done>>
    /\ UNCHANGED <<srv, authed, unchecked, astray>>

\* The result of the settings is dropped.
RemovePassword(k, r) ==
    /\ authed[k]
    /\ r.cmd = "remove_service_password"
    /\ Reply(k, r, TRUE)
    /\ \/ password' = NoPass /\ Effect(k, r)
       \/ UNCHANGED <<password, done>>
    /\ UNCHANGED <<srv, authed, unchecked, astray>>

\* The result of the manager is dropped.
Manage(k, r) ==
    /\ authed[k]
    /\ r.cmd = "block"
    /\ Reply(k, r, TRUE)
    /\ Effect(k, r) \/ UNCHANGED done
    /\ UNCHANGED <<password, srv, authed, unchecked, astray>>

\* A long answer is written in pieces from a string that is gone: what follows
\* the first piece may lack the marker, or hold one of its own.
Damaged(r) ==
    LET piece(end) == [id |-> r.id, ok |-> FALSE, token |-> FALSE, end |-> end]
    IN {<<piece(FALSE)>>, <<piece(TRUE), piece(TRUE)>>}

Fetch(k, r) ==
    /\ authed[k]
    /\ r.cmd = "get_domains"
    /\ \/ \E ok \in BOOLEAN : Reply(k, r, ok) /\ UNCHANGED astray
       \/ /\ \E s \in Damaged(r) : Write(k, s)
          /\ astray' = astray \cup {k}
    /\ UNCHANGED <<password, srv, authed, done, unchecked>>

\* Mutant: shuts down as if the client were still there.
Reload_PeerMustStay(k, r) ==
    /\ authed[k]
    /\ r.cmd = "reload"
    /\ srv' = [srv EXCEPT ![k] = IF HasClient(k) THEN "reloaded" ELSE "closed"]
    /\ UNCHANGED <<password, authed, down, done, unchecked, astray>>

\* Closes the connection, then signals the stop.  The shutdown of a connection
\* that was reset throws before that, and its answer cannot be written.
Reload(k, r) ==
    /\ authed[k]
    /\ r.cmd = "reload"
    /\ srv' = [srv EXCEPT ![k] = IF Reset(k) THEN "closed" ELSE "reloaded"]
    /\ UNCHANGED <<password, authed, down, done, unchecked, astray>>

Dispatch(k, r) ==
    \/ GetToken(k, r)
    \/ Authenticate(k, r)
    \/ Refuse(k, r)
    \/ SetPassword(k, r)
    \/ RemovePassword(k, r)
    \/ Manage(k, r)
    \/ Fetch(k, r)
    \/ Reload(k, r)

\* A read that begins with a request.
ReadWhole(k) ==
    /\ srv[k] = "open"
    /\ up[k] # <<>>
    /\ ~Head(up[k]).rest
    /\ \E s \in Later(up[k]) : up' = [up EXCEPT ![k] = s]
    /\ Dispatch(k, Head(up[k]))
    /\ UNCHANGED <<client, told>>

\* "Invalid format": many domains come in two reads, neither of which parses.
ReadPart(k) ==
    /\ srv[k] = "open"
    /\ up[k] # <<>>
    /\ LET r == Head(up[k])
       IN /\ r.cmd = "block"
          /\ IF r.rest
             THEN \E s \in Later(up[k]) : up' = [up EXCEPT ![k] = s]
             ELSE up' = [up EXCEPT ![k][1].rest = TRUE]
          /\ Reply(k, r, FALSE)
    /\ astray' = astray \cup {k}
    /\ UNCHANGED <<password, srv, authed, client, told, done, unchecked>>

Read(k) == ReadWhole(k) \/ ReadPart(k)

\* A read fails with end of file or a reset; the connection is deleted.
PeerGone(k) ==
    /\ srv[k] = "open"
    /\ ~HasClient(k)
    /\ up[k] = <<>> \/ Reset(k)
    /\ srv' = [srv EXCEPT ![k] = "closed"]
    /\ up' = [up EXCEPT ![k] = <<>>]
    /\ UNCHANGED <<password, authed, down, client, told, done, unchecked, astray>>

\* The worker ends: it was told to stop, or a handler used a null pointer (a
\* list that could not be read).  The next one has no connections.
End ==
    /\ \E k \in Conn : srv[k] \in Live
    /\ srv' = [k \in Conn |-> IF srv[k] \in Live THEN "ended" ELSE srv[k]]
    /\ up' = [k \in Conn |-> IF srv[k] \in Live THEN <<>> ELSE up[k]]
    /\ UNCHANGED <<password, authed, down, client, told, done, unchecked, astray>>

-----------------------------------------------------------------------------
Next ==
    \/ \E c \in Client :
         \/ Open(c) \/ Close(c) \/ Execute(c) \/ SendReload(c)
         \/ ReceiveToken(c) \/ Receive(c) \/ Timeout(c) \/ PeerClosed(c)
    \/ \E k \in Conn : Accept(k) \/ Read(k) \/ PeerGone(k)
    \/ End

\* The server's thread handles what is ready.
Spec ==
    /\ Init
    /\ [][Next]_vars
    /\ \A k \in Conn : WF_vars(Accept(k)) /\ WF_vars(Read(k))

-----------------------------------------------------------------------------
(***************************************************************************)
(* Properties                                                              *)
(***************************************************************************)

Types ==
    /\ password \in Password \cup {NoPass}
    /\ srv \in [Conn -> {"none"} \cup Live \cup Gone]
    /\ authed \in [Conn -> BOOLEAN]
    /\ up \in [Conn -> Seq(Request)]
    /\ down \in [Conn -> Seq(Answer)]
    /\ client \in [Client -> ClientState]
    /\ told \in [Client -> Told]
    /\ done \subseteq Conn \X Id
    /\ unchecked \subseteq Conn \X Id
    /\ astray \subseteq Conn

\* Every variable holds what the code can put into it, and no client waits for
\* an answer on a socket that is closed
\* (dblclient/net/service_connection.cxx:84-121, 143-153).
TypeOK ==
    /\ Types
    /\ \A c \in Client : client[c].conn = NoConn => ~Waits(c)

\* A call returns the answer to its own request, through timeouts, reloads and
\* new connections, unless a request on the same connection was read in parts,
\* a reload was refused there, or a long answer was damaged
\* (dblclient/net/service_connection.cxx:84-134, connection.cxx:26-52).
AnswerIsOwn ==
    \A c \in Client : told[c].conn \notin astray => told[c].answered = told[c].id

\* A client that is told that its password fits, or that the new one is set,
\* is told so of its own request, and it fits the setting, or the server set
\* it.  Excepted is the auth at which the setting could not be read
\* (service_connection.cxx:85-92, 201-214, auth.cxx:21-35).
ToldOkIsDone ==
    \A c \in Client :
        LET t == told[c]
        IN /\ t.ok
           /\ t.goal \in NeedsToken
           /\ t.conn \notin astray
           => <<t.conn, t.id>> \in Acted /\ authed[t.conn]

\* On a connection that its client keeps, nothing happens but what the client
\* is waiting for: a call that failed is not carried out behind the back of a
\* client that goes on with the same connection.
EffectIsAwaited ==
    [][\A k \in Conn, id \in Id :
          /\ <<k, id>> \in Acted' \ Acted
          /\ HasClient(k)
          /\ k \notin astray
          => \E c \in Client :
               client[c].conn = k /\ client[c].id = id /\ client[c].wait = "result"]_vars

\* Requests of a connection take effect in the order in which they were sent and
\* each once at most, on the connections also that answer too much: what is
\* under way was sent after all that took effect (connection.cxx:26-52).
EffectsInOrder ==
    \A k \in Conn, id \in Id :
        <<k, id>> \in Acted => \A i \in DOMAIN up[k] : id < up[k][i].id

\* A reload that is next on an authenticated connection, with no answer unread,
\* is carried out, whether its client stays or leaves at once, unless the
\* worker ends before (service_connection.cxx:331-339).
ReloadIsHeard ==
    \A k \in Conn :
        /\ srv[k] = "open"
        /\ authed[k]
        /\ down[k] = <<>>
        /\ up[k] # <<>>
        /\ Head(up[k]).cmd = "reload"
        ~> srv[k] \in {"reloaded", "ended"}

=============================================================================
