------------------------- MODULE ServiceProtocolProofs -------------------------
(***************************************************************************)
(* Theorems about ServiceProtocol.                                         *)
(***************************************************************************)
EXTENDS ServiceProtocol, TLAPS

USE DEF NoConn, Acted, Waits

\* A connection has one client, and had none before it was opened.
Owned ==
    /\ \A c, d \in Client : client[c].conn = client[d].conn /\ client[c].conn # NoConn => c = d
    /\ \A c \in Client : client[c].conn = NoConn => ~Waits(c)
    /\ \A c \in Client : client[c].conn # NoConn => srv[client[c].conn] # "none"
    /\ \A k \in Conn : srv[k] = "none" => up[k] = <<>>
    /\ \A c \in Client : client[c].wait = "token" => client[c].id + 1 \in Id

\* Nobody is answered before the server accepted the connection.
Accepted ==
    \A k \in Conn : srv[k] \in {"none", "backlog"} =>
        down[k] = <<>> /\ \A c \in Client : told[c].conn # k

\* r is the request that client c waits for.
Expected(c, r) ==
    /\ Waits(c)
    /\ r.id = client[c].id
    /\ r.cmd = IF client[c].wait = "token" THEN "get_token" ELSE client[c].goal

\* Of what is under way only the last request is waited for; the others are
\* reloads.
UpInStep(c, k) ==
    \A i \in DOMAIN up[k] :
        up[k][i].cmd = "reload" \/ (i = Len(up[k]) /\ Expected(c, up[k][i]))

\* An answer under way is the one its client waits for, and nothing follows it.
DownInStep(c, k) ==
    \/ down[k] = <<>>
    \/ /\ up[k] = <<>>
       /\ Waits(c)
       /\ Len(down[k]) = 1
       /\ down[k][1].id = client[c].id
       /\ down[k][1].ok /\ client[c].wait = "result" /\ client[c].goal \in NeedsToken
            => <<k, client[c].id>> \in Acted /\ authed[k]

InStep ==
    \A c \in Client, k \in Conn \ astray :
        client[c].conn = k => UpInStep(c, k) /\ DownInStep(c, k)

IInv == Types /\ Owned /\ Accepted /\ InStep /\ AnswerIsOwn /\ ToldOkIsDone

-----------------------------------------------------------------------------
(***************************************************************************)
(* Sequences                                                               *)
(***************************************************************************)

\* What is left of a sequence is a proper end of it.
LEMMA LaterFacts ==
    ASSUME NEW S, NEW s \in Seq(S), s # <<>>, NEW t \in Later(s)
    PROVE  /\ t \in Seq(S)
           /\ Len(s) = 1 => t = <<>>
           /\ \A i \in DOMAIN t :
                \E j \in DOMAIN s : t[i] = s[j] /\ (j = Len(s) => i = Len(t))
<1>1. PICK n \in 2 .. Len(s) + 1 : t = SubSeq(s, n, Len(s))
  BY DEF Later
<1>2. Len(s) \in Nat /\ Len(s) >= 1
  OBVIOUS
<1>3. t \in Seq(S) /\ Len(t) = Len(s) - n + 1
  BY <1>1, <1>2
<1>4. \A i \in 1 .. Len(t) : t[i] = s[n + i - 1]
  BY <1>1, <1>2, <1>3
<1>5. ASSUME NEW i \in DOMAIN t
      PROVE  \E j \in DOMAIN s : t[i] = s[j] /\ (j = Len(s) => i = Len(t))
  <2>1. i \in 1 .. Len(t)
    BY <1>3
  <2>2. /\ n + i - 1 \in 1 .. Len(s)
        /\ n + i - 1 = Len(s) => i = Len(t)
    <3>1. /\ n \in Nat /\ i \in Nat /\ Len(s) \in Nat
          /\ 2 <= n /\ n <= Len(s) + 1 /\ 1 <= i /\ i <= Len(s) - n + 1
      BY <1>2, <1>3, <2>1
    <3> QED
      BY <1>3, <3>1
  <2>3. t[i] = s[n + i - 1]
    BY <1>4, <2>1
  <2>4. DOMAIN s = 1 .. Len(s)
    OBVIOUS
  <2> QED
    BY <2>2, <2>3, <2>4
<1>6. Len(s) = 1 => t = <<>>
  BY <1>1, <1>3
<1> QED
  BY <1>3, <1>5, <1>6

\* The last request of a sequence that was extended is the new one.
LEMMA AppendFacts ==
    ASSUME NEW S, NEW s \in Seq(S), NEW r \in S
    PROVE  /\ Append(s, r) \in Seq(S)
           /\ Len(Append(s, r)) = Len(s) + 1
           /\ \A i \in DOMAIN Append(s, r) :
                IF i = Len(s) + 1 THEN Append(s, r)[i] = r
                                  ELSE i \in DOMAIN s /\ Append(s, r)[i] = s[i]
OBVIOUS

\* What Take leaves; of a single answer, nothing.
LEMMA TakeFacts ==
    ASSUME Types, NEW k \in Conn, NEW i \in 1 .. Len(down[k]), Take(k, i)
    PROVE  /\ down' \in [Conn -> Seq(Answer)]
           /\ \A j \in Conn \ {k} : down'[j] = down[j]
           /\ down[k][1] \in Answer
           /\ Len(down[k]) = 1 => i = 1 /\ down'[k] = <<>>
           /\ down[k] # <<>>
<1>1. PICK n \in i .. Len(down[k]) : down' = [down EXCEPT ![k] = SubSeq(@, n + 1, Len(@))]
  BY DEF Take
<1>2. down \in [Conn -> Seq(Answer)] /\ down[k] \in Seq(Answer)
  BY DEF Types
<1>3. SubSeq(down[k], n + 1, Len(down[k])) \in Seq(Answer)
  BY <1>2
<1>4. down[k][1] \in Answer /\ down[k] # <<>>
  BY <1>2
<1>5. Len(down[k]) = 1 => i = 1 /\ n = 1 /\ SubSeq(down[k], n + 1, Len(down[k])) = <<>>
  BY <1>2
<1> QED
  BY <1>1, <1>2, <1>3, <1>4, <1>5

\* A request goes to the end of what is under way on its connection, if at all.
LEMMA SendFacts ==
    ASSUME Types, NEW k \in Conn, NEW id \in Id, NEW cmd \in Cmd,
           NEW pw \in Password \cup {NoPass}, Send(k, id, cmd, pw)
    PROVE  /\ up' \in [Conn -> Seq(Request)]
           /\ \A j \in Conn \ {k} : up'[j] = up[j]
           /\ srv[k] = "none" => up'[k] = up[k]
           /\ \A i \in DOMAIN up'[k] :
                \/ i \in DOMAIN up[k] /\ up'[k][i] = up[k][i] /\ up'[k] = up[k]
                \/ i \in DOMAIN up[k] /\ up'[k][i] = up[k][i] /\ Len(up'[k]) = Len(up[k]) + 1
                \/ i = Len(up'[k]) /\ up'[k][i].id = id /\ up'[k][i].cmd = cmd
<1> DEFINE r == [id |-> id, cmd |-> cmd, pw |-> pw, rest |-> FALSE]
<1>1. r \in Request /\ r.id = id /\ r.cmd = cmd
  BY DEF Request
<1>2. up \in [Conn -> Seq(Request)] /\ up[k] \in Seq(Request)
  BY DEF Types
<1>3. up' = [up EXCEPT ![k] = IF srv[k] \in Live THEN Append(up[k], r) ELSE up[k]]
  BY DEF Send
<1> HIDE DEF r
<1>4. CASE srv[k] \in Live
  <2>1. up'[k] = Append(up[k], r) /\ \A j \in Conn \ {k} : up'[j] = up[j]
    BY <1>2, <1>3, <1>4
  <2>2. /\ up'[k] \in Seq(Request)
        /\ Len(up'[k]) = Len(up[k]) + 1
        /\ \A i \in DOMAIN up'[k] :
             IF i = Len(up[k]) + 1 THEN up'[k][i] = r
                                   ELSE i \in DOMAIN up[k] /\ up'[k][i] = up[k][i]
    BY <1>1, <1>2, <2>1, AppendFacts
  <2>3. up' \in [Conn -> Seq(Request)]
    BY <1>1, <1>2, <1>3, <1>4, <2>1, <2>2
  <2>4. srv[k] # "none"
    BY <1>4 DEF Live
  <2> QED
    BY <1>1, <2>1, <2>2, <2>3, <2>4
<1>5. CASE srv[k] \notin Live
  BY <1>2, <1>3, <1>5
<1> QED
  BY <1>4, <1>5

-----------------------------------------------------------------------------
(***************************************************************************)
(* The steps of the client                                                 *)
(***************************************************************************)

\* Initially nothing is connected.
LEMMA InitIInv == ASSUME ProtocolAssumption, Init PROVE IInv
<1>1. Types
  BY DEF ProtocolAssumption, Init, Types, ClientState, Apart, Connected, Told, Nothing, Goal
<1>2. Owned /\ Accepted /\ InStep /\ AnswerIsOwn /\ ToldOkIsDone
  BY DEF Init, Owned, Accepted, InStep, AnswerIsOwn, ToldOkIsDone, Apart, Connected, Nothing, Conn
<1> QED
  BY <1>1, <1>2 DEF IInv

\* Whoever opens a connection finds nothing under way on it.
LEMMA OpenStep ==
    ASSUME ProtocolAssumption, IInv, NEW c \in Client, Open(c)
    PROVE  IInv'
<1>1. PICK k \in Conn :
        /\ client[c].conn = NoConn
        /\ srv[k] = "none"
        /\ srv' = [srv EXCEPT ![k] = "backlog"]
        /\ client' = [client EXCEPT ![c] = Connected(k)]
        /\ UNCHANGED <<password, authed, up, down, told, done, unchecked, astray>>
  BY DEF Open
<1> DEFINE new == Connected(k)
<1>2. /\ new \in ClientState /\ new.conn = k /\ new.wait = "no" /\ k # NoConn
  BY DEF Connected, ClientState, Goal, Conn
<1>3. client' = [client EXCEPT ![c] = new]
  BY <1>1
<1> HIDE DEF new
<1>4. Types /\ Owned /\ Accepted /\ InStep /\ AnswerIsOwn /\ ToldOkIsDone
  BY DEF IInv
<1>5. client'[c] = new /\ \A d \in Client \ {c} : client'[d] = client[d]
  BY <1>3, <1>4 DEF Types
<1>6. Types'
  BY <1>1, <1>2, <1>3, <1>4 DEF Types, Live
<1>7. Owned'
  BY <1>1, <1>2, <1>4, <1>5 DEF Owned, Types
<1>8. Accepted'
  BY <1>1, <1>4 DEF Accepted, Types
<1>9. InStep'
  <2> SUFFICES ASSUME NEW d \in Client, NEW j \in Conn, j \notin astray', client'[d].conn = j
               PROVE  UpInStep(d, j)' /\ DownInStep(d, j)'
    BY DEF InStep
  <2>1. CASE d = c
    <3>1. up'[k] = <<>> /\ down'[k] = <<>>
      BY <1>1, <1>4 DEF Owned, Accepted
    <3> QED
      BY <1>2, <1>5, <2>1, <3>1 DEF UpInStep, DownInStep
  <2>2. CASE d # c
    BY <1>1, <1>4, <1>5, <2>2 DEF InStep, UpInStep, DownInStep, Expected
  <2> QED
    BY <2>1, <2>2
<1>10. AnswerIsOwn' /\ ToldOkIsDone'
  BY <1>1, <1>4 DEF AnswerIsOwn, ToldOkIsDone
<1> QED
  BY <1>6, <1>7, <1>8, <1>9, <1>10 DEF IInv

\* A step disturbs no connection whose two ends it leaves alone.
LEMMA OthersInStep ==
    ASSUME InStep, NEW d \in Client, NEW j \in Conn, j \notin astray', client[d].conn = j,
           client'[d] = client[d], up'[j] = up[j], down'[j] = down[j],
           Acted \subseteq Acted', astray \subseteq astray', authed[j] => authed'[j]
    PROVE  UpInStep(d, j)' /\ DownInStep(d, j)'
<1>1. UpInStep(d, j) /\ DownInStep(d, j)
  BY DEF InStep
<1>2. UpInStep(d, j)'
  BY <1>1 DEF UpInStep, Expected
<1>3. DownInStep(d, j)'
  BY <1>1 DEF DownInStep
<1> QED
  BY <1>2, <1>3

\* Close, Timeout, PeerClosed: who leaves waits for nothing.
LEMMA LeaveStep ==
    ASSUME ProtocolAssumption, IInv, NEW c \in Client, client[c].conn # NoConn,
           NEW new \in {Apart, Dead}, Leave(c, new)
    PROVE  IInv'
<1> DEFINE k == client[c].conn
           lost == IF down[k] = <<>> THEN down[k] ELSE Unread
<1>1. /\ client' = [client EXCEPT ![c] = new]
      /\ down' = [down EXCEPT ![k] = lost]
      /\ UNCHANGED <<password, srv, authed, up, told, done, unchecked, astray>>
  BY DEF Leave
<1>2. new \in ClientState /\ new.conn = NoConn /\ new.wait \in {"no", "dead"}
  BY DEF Apart, Dead, Connected, ClientState, Goal
<1>3. Types /\ Owned /\ Accepted /\ InStep /\ AnswerIsOwn /\ ToldOkIsDone
  BY DEF IInv
<1>4. k \in Conn
  BY <1>3 DEF Types, ClientState
<1>5. Unread \in Seq(Answer)
  <2>1. 1 \in Id
    BY DEF ProtocolAssumption, Id
  <2>2. [id |-> 1, ok |-> FALSE, token |-> FALSE, end |-> TRUE] \in Answer
    BY <2>1 DEF Answer
  <2> QED
    BY <2>2 DEF Unread
<1>6. lost \in Seq(Answer) /\ (down[k] = <<>> => lost = <<>>)
  BY <1>3, <1>4, <1>5 DEF Types
<1> HIDE DEF k, lost
<1>7. client'[c] = new /\ \A d \in Client \ {c} : client'[d] = client[d]
  BY <1>1, <1>3 DEF Types
<1>8. down'[k] = lost /\ \A j \in Conn \ {k} : down'[j] = down[j]
  BY <1>1, <1>3, <1>4 DEF Types
<1>9. Types'
  BY <1>1, <1>2, <1>3, <1>4, <1>6 DEF Types
<1>10. Owned'
  BY <1>1, <1>2, <1>3, <1>7 DEF Owned, Types
<1>11. Accepted'
  BY <1>1, <1>3, <1>6, <1>8 DEF Accepted
<1>12. InStep'
  <2> SUFFICES ASSUME NEW d \in Client, NEW j \in Conn, j \notin astray', client'[d].conn = j
               PROVE  UpInStep(d, j)' /\ DownInStep(d, j)'
    BY DEF InStep
  <2>1. d # c
    BY <1>2, <1>7 DEF Conn
  <2>2. client'[d] = client[d] /\ j # k
    BY <1>3, <1>4, <1>7, <2>1 DEF Owned, Conn, k
  <2> QED
    BY <1>1, <1>3, <1>8, <2>2, OthersInStep
<1>13. AnswerIsOwn' /\ ToldOkIsDone'
  BY <1>1, <1>3 DEF AnswerIsOwn, ToldOkIsDone
<1> QED
  BY <1>9, <1>10, <1>11, <1>12, <1>13 DEF IInv

\* A client that waits for nothing has sent nothing but reloads that are not
\* answered.
LEMMA QuietFacts ==
    ASSUME InStep, NEW c \in Client, NEW k \in Conn \ astray, client[c].conn = k,
           client[c].wait = "no"
    PROVE  down[k] = <<>> /\ \A i \in DOMAIN up[k] : up[k][i].cmd = "reload"
<1>1. UpInStep(c, k) /\ DownInStep(c, k)
  BY DEF InStep
<1> QED
  BY <1>1 DEF UpInStep, DownInStep, Expected

\* What is sent then is what the client waits for, or one reload more.
LEMMA AskInStep ==
    ASSUME Types, NEW c \in Client, NEW k \in Conn, NEW id \in Id, NEW cmd \in Cmd,
           NEW pw \in Password \cup {NoPass}, Send(k, id, cmd, pw),
           down'[k] = <<>>, \A i \in DOMAIN up[k] : up[k][i].cmd = "reload",
           \/ cmd = "reload"
           \/ /\ Waits(c)'
              /\ client'[c].id = id
              /\ cmd = IF client'[c].wait = "token" THEN "get_token" ELSE client'[c].goal
    PROVE  UpInStep(c, k)' /\ DownInStep(c, k)'
<1>1. ASSUME NEW i \in DOMAIN up'[k]
      PROVE  up'[k][i].cmd = "reload" \/ (i = Len(up'[k]) /\ Expected(c, up[k][i])')
  <2>1. \/ i \in DOMAIN up[k] /\ up'[k][i] = up[k][i]
        \/ i = Len(up'[k]) /\ up'[k][i].id = id /\ up'[k][i].cmd = cmd
    BY SendFacts
  <2> QED
    BY <2>1 DEF Expected
<1>2. UpInStep(c, k)'
  BY <1>1 DEF UpInStep
<1>3. DownInStep(c, k)'
  BY DEF DownInStep
<1> QED
  BY <1>2, <1>3

\* Client c sends one more request, and waits for it or not.
Calls(c, new, cmd, pw) ==
    /\ client[c].conn # NoConn
    /\ client[c].wait = "no"
    /\ client' = [client EXCEPT ![c] = new]
    /\ new.conn = client[c].conn
    /\ new.id \in Id
    /\ new.wait = "token" => new.id + 1 \in Id
    /\ Send(new.conn, new.id, cmd, pw)
    /\ \/ cmd = "reload"
       \/ /\ new.wait \in {"token", "result"}
          /\ cmd = IF new.wait = "token" THEN "get_token" ELSE new.goal
    /\ told' \in [Client -> Told]
    /\ \A d \in Client : told'[d] \in {told[d], Nothing}
    /\ UNCHANGED <<password, srv, authed, down, done, unchecked, astray>>

\* Execute and SendReload do no more than that.
LEMMA CallStep ==
    ASSUME ProtocolAssumption, IInv, NEW c \in Client, NEW new \in ClientState,
           NEW cmd \in Cmd, NEW pw \in Password \cup {NoPass}, Calls(c, new, cmd, pw)
    PROVE  IInv'
<1> USE DEF Calls
<1> DEFINE k == client[c].conn
<1>1. Types /\ Owned /\ Accepted /\ InStep /\ AnswerIsOwn /\ ToldOkIsDone
  BY DEF IInv
<1>2. k \in Conn
  BY <1>1 DEF Types, ClientState
<1>3. client'[c] = new /\ \A d \in Client \ {c} : client'[d] = client[d]
  BY <1>1 DEF Types
<1>4. /\ up' \in [Conn -> Seq(Request)]
      /\ \A j \in Conn \ {k} : up'[j] = up[j]
      /\ srv[k] = "none" => up'[k] = up[k]
  BY <1>1, <1>2, SendFacts
<1>5. Types'
  BY <1>1, <1>4 DEF Types
<1>6. Owned'
  <2>1. \A d, e \in Client : client'[d].conn = client'[e].conn /\ client'[d].conn # NoConn => d = e
    BY <1>1, <1>2, <1>3, <1>4 DEF Owned
  <2>2. \A d \in Client : client'[d].conn = NoConn => ~Waits(d)'
    BY <1>1, <1>2, <1>3, <1>4 DEF Owned
  <2>3. \A d \in Client : client'[d].conn # NoConn => srv'[client'[d].conn] # "none"
    BY <1>1, <1>2, <1>3, <1>4 DEF Owned
  <2>4. \A j \in Conn : srv'[j] = "none" => up'[j] = <<>>
    BY <1>1, <1>2, <1>3, <1>4 DEF Owned
  <2>5. \A d \in Client : client'[d].wait = "token" => client'[d].id + 1 \in Id
    BY <1>1, <1>2, <1>3, <1>4 DEF Owned
  <2> QED
    BY <2>1, <2>2, <2>3, <2>4, <2>5 DEF Owned
<1>7. Accepted'
  BY <1>1 DEF Accepted, Nothing, Conn
<1>8. InStep'
  <2> SUFFICES ASSUME NEW d \in Client, NEW j \in Conn, j \notin astray', client'[d].conn = j
               PROVE  UpInStep(d, j)' /\ DownInStep(d, j)'
    BY DEF InStep
  <2>1. CASE d = c
    <3>1. j = k /\ j \in Conn \ astray
      BY <1>3, <2>1
    <3>2. down[k] = <<>> /\ \A i \in DOMAIN up[k] : up[k][i].cmd = "reload"
      <4>1. InStep /\ k \in Conn \ astray /\ client[c].wait = "no"
        BY <1>1, <3>1
      <4> QED
        BY <4>1, QuietFacts
    <3> QED
      BY <1>1, <1>2, <1>3, <2>1, <3>1, <3>2, AskInStep
  <2>2. CASE d # c
    <3>1. client'[d] = client[d] /\ j # k
      BY <1>1, <1>2, <1>3, <2>2 DEF Owned, Conn
    <3> QED
      BY <1>1, <1>4, <3>1, OthersInStep
  <2> QED
    BY <2>1, <2>2
<1>9. AnswerIsOwn' /\ ToldOkIsDone'
  BY <1>1 DEF AnswerIsOwn, ToldOkIsDone, Nothing
<1> QED
  BY <1>5, <1>6, <1>7, <1>8, <1>9 DEF IInv

LEMMA ExecuteStep ==
    ASSUME ProtocolAssumption, IInv, NEW c \in Client, Execute(c)
    PROVE  IInv'
<1> DEFINE k == client[c].conn
           id == client[c].id + 1
<1>1. /\ k # NoConn /\ client[c].wait = "no"
      /\ UNCHANGED <<password, srv, authed, down, done, unchecked, astray>>
      /\ told' = [told EXCEPT ![c] = Nothing]
  BY DEF Execute
<1>2. PICK goal \in Goal, pw \in Password \cup {NoPass} :
        /\ id + (IF goal \in NeedsToken THEN 1 ELSE 0) \in Id
        /\ client' = [client EXCEPT ![c] =
                        [conn |-> k, id |-> id, goal |-> goal, pw |-> pw,
                         wait |-> IF goal \in NeedsToken THEN "token" ELSE "result"]]
        /\ Send(k, id, IF goal \in NeedsToken THEN "get_token" ELSE goal, pw)
  BY DEF Execute
<1>3. Types
  BY DEF IInv
<1>4. k \in Conn /\ client[c].id \in Nat
  BY <1>1, <1>3 DEF Types, ClientState, Id
<1>5. id \in Id /\ (goal \in NeedsToken => id + 1 \in Id)
  BY <1>2, <1>4 DEF Id
<1> DEFINE new == [conn |-> k, id |-> id, goal |-> goal, pw |-> pw,
                   wait |-> IF goal \in NeedsToken THEN "token" ELSE "result"]
           cmd == IF goal \in NeedsToken THEN "get_token" ELSE goal
<1>6. /\ new \in ClientState /\ new.conn = k /\ new.id = id /\ new.pw = pw /\ new.goal = goal
      /\ new.wait = IF goal \in NeedsToken THEN "token" ELSE "result"
  BY <1>4, <1>5 DEF ClientState
<1>7. cmd \in Cmd
  BY DEF Cmd
<1>8. client' = [client EXCEPT ![c] = new] /\ Send(k, id, cmd, pw)
  BY <1>2
<1> HIDE DEF new
<1>9. told' \in [Client -> Told] /\ \A d \in Client : told'[d] \in {told[d], Nothing}
  BY <1>1, <1>3 DEF Types, Told, Nothing, Goal
<1>10. /\ new.wait = "token" => new.id + 1 \in Id
       /\ new.wait \in {"token", "result"}
       /\ cmd = IF new.wait = "token" THEN "get_token" ELSE new.goal
       /\ Send(new.conn, new.id, cmd, pw)
       /\ new.conn = client[c].conn /\ new.id \in Id
  BY <1>5, <1>6, <1>8
<1>11. Calls(c, new, cmd, pw)
  BY <1>1, <1>8, <1>9, <1>10 DEF Calls
<1> QED
  BY <1>6, <1>7, <1>11, CallStep

LEMMA SendReloadStep ==
    ASSUME ProtocolAssumption, IInv, NEW c \in Client, SendReload(c)
    PROVE  IInv'
<1> DEFINE k == client[c].conn
           id == client[c].id + 1
<1>1. /\ k # NoConn /\ client[c].wait = "no" /\ id \in Id
      /\ client' = [client EXCEPT ![c].id = client[c].id + 1]
      /\ Send(k, id, "reload", NoPass)
      /\ UNCHANGED <<password, srv, authed, down, told, done, unchecked, astray>>
  BY DEF SendReload
<1>2. Types
  BY DEF IInv
<1>3. client[c] \in ClientState /\ "reload" \in Cmd
  BY <1>2 DEF Types, Cmd
<1> DEFINE new == [client[c] EXCEPT !.id = id]
<1>4. client' = [client EXCEPT ![c] = new]
  BY <1>1
<1>5. /\ new \in ClientState /\ new.conn = k /\ new.id = id
      /\ new.wait = "no" /\ new.pw = client[c].pw
  BY <1>1, <1>3 DEF ClientState
<1> HIDE DEF new
<1>6. told' \in [Client -> Told] /\ \A d \in Client : told'[d] \in {told[d], Nothing}
  BY <1>1, <1>2 DEF Types
<1>7. Send(new.conn, new.id, "reload", NoPass)
  BY <1>1, <1>5
<1>8. new.wait = "token" => new.id + 1 \in Id
  BY <1>5
<1>9. Calls(c, new, "reload", NoPass)
  BY <1>1, <1>4, <1>5, <1>6, <1>7, <1>8 DEF Calls
<1> QED
  BY <1>3, <1>5, <1>9, CallStep

\* The token is here: the second request follows on an empty connection.
LEMMA ReceiveTokenStep ==
    ASSUME ProtocolAssumption, IInv, NEW c \in Client, ReceiveToken(c)
    PROVE  IInv'
<1> DEFINE k == client[c].conn
           id == client[c].id + 1
<1>1. Types /\ Owned /\ Accepted /\ InStep /\ AnswerIsOwn /\ ToldOkIsDone
  BY DEF IInv
<1>2. PICK i \in 1 .. Len(down[k]) :
        /\ client[c].wait = "token"
        /\ Take(k, i)
        /\ client' = [client EXCEPT ![c].id = id, ![c].wait = "result"]
        /\ Send(k, id, client[c].goal, client[c].pw)
        /\ UNCHANGED <<password, srv, authed, told, done, unchecked, astray>>
  BY DEF ReceiveToken
<1>3. client[c] \in ClientState
  BY <1>1 DEF Types
<1>4. k \in Conn /\ k # NoConn /\ id \in Id
  BY <1>1, <1>2, <1>3 DEF Owned, ClientState
<1> DEFINE new == [client[c] EXCEPT !.id = id, !.wait = "result"]
<1>5. client' = [client EXCEPT ![c] = new]
  BY <1>2
<1>6. /\ new \in ClientState
      /\ new.conn = k /\ new.id = id /\ new.wait = "result" /\ new.goal = client[c].goal
      /\ client[c].goal \in Goal /\ client[c].pw \in Password \cup {NoPass}
      /\ client[c].goal \in Cmd /\ client[c].goal # "reload"
  BY <1>3, <1>4 DEF ClientState, Goal, Cmd
<1> HIDE DEF new
<1>7. client'[c] = new /\ \A d \in Client \ {c} : client'[d] = client[d]
  BY <1>1, <1>5 DEF Types
<1>8. /\ up' \in [Conn -> Seq(Request)]
      /\ \A j \in Conn \ {k} : up'[j] = up[j]
      /\ srv[k] = "none" => up'[k] = up[k]
  BY <1>1, <1>2, <1>4, <1>6, SendFacts
<1>9. /\ down' \in [Conn -> Seq(Answer)]
      /\ \A j \in Conn \ {k} : down'[j] = down[j]
      /\ Len(down[k]) = 1 => down'[k] = <<>>
      /\ down[k] # <<>>
  BY <1>1, <1>2, <1>4, TakeFacts
<1>10. Types'
  <2>1. client' \in [Client -> ClientState]
    BY <1>1, <1>5, <1>6 DEF Types
  <2> QED
    BY <1>1, <1>2, <1>8, <1>9, <2>1 DEF Types
<1>11. Owned'
  <2>1. \A d, e \in Client : client'[d].conn = client'[e].conn /\ client'[d].conn # NoConn => d = e
    BY <1>1, <1>6, <1>7 DEF Owned
  <2>2. \A d \in Client : client'[d].conn = NoConn => ~Waits(d)'
    BY <1>1, <1>4, <1>6, <1>7 DEF Owned
  <2>3. \A d \in Client : client'[d].conn # NoConn => srv'[client'[d].conn] # "none"
    <3>1. srv' = srv
      BY <1>2
    <3>2. \A d \in Client : client'[d].conn = client[d].conn
      BY <1>4, <1>6, <1>7
    <3> QED
      BY <1>1, <3>1, <3>2 DEF Owned
  <2>4. \A j \in Conn : srv'[j] = "none" => up'[j] = <<>>
    BY <1>1, <1>2, <1>8 DEF Owned
  <2>5. \A d \in Client : client'[d].wait = "token" => client'[d].id + 1 \in Id
    BY <1>1, <1>6, <1>7 DEF Owned
  <2> QED
    BY <2>1, <2>2, <2>3, <2>4, <2>5 DEF Owned
<1>12. Accepted'
  BY <1>1, <1>2, <1>9 DEF Accepted
<1>13. InStep'
  <2> SUFFICES ASSUME NEW d \in Client, NEW j \in Conn, j \notin astray', client'[d].conn = j
               PROVE  UpInStep(d, j)' /\ DownInStep(d, j)'
    BY DEF InStep
  <2>1. CASE d = c
    <3>1. j = k /\ k \notin astray
      BY <1>2, <1>6, <1>7, <2>1
    <3>2. up[k] = <<>> /\ Len(down[k]) = 1
      BY <1>1, <1>4, <1>9, <3>1 DEF InStep, DownInStep
    <3>3. down'[k] = <<>> /\ \A n \in DOMAIN up[k] : up[k][n].cmd = "reload"
      BY <1>9, <3>2
    <3>4. /\ Waits(c)' /\ client'[c].id = id
          /\ client[c].goal = IF client'[c].wait = "token" THEN "get_token" ELSE client'[c].goal
      BY <1>6, <1>7
    <3> QED
      BY <1>1, <1>2, <1>4, <1>6, <2>1, <3>1, <3>3, <3>4, AskInStep
  <2>2. CASE d # c
    <3>1. client'[d] = client[d] /\ j # k
      BY <1>1, <1>4, <1>7, <2>2 DEF Owned, Conn
    <3> QED
      BY <1>1, <1>2, <1>8, <1>9, <3>1, OthersInStep
  <2> QED
    BY <2>1, <2>2
<1>14. AnswerIsOwn' /\ ToldOkIsDone'
  BY <1>1, <1>2 DEF AnswerIsOwn, ToldOkIsDone
<1> QED
  BY <1>10, <1>11, <1>12, <1>13, <1>14 DEF IInv

\* The call returns what is told, and nothing is under way any more.
LEMMA ReceiveStep ==
    ASSUME ProtocolAssumption, IInv, NEW c \in Client, Receive(c)
    PROVE  IInv'
<1> DEFINE k == client[c].conn
           result == client[c].wait = "result"
<1>1. Types /\ Owned /\ Accepted /\ InStep /\ AnswerIsOwn /\ ToldOkIsDone
  BY DEF IInv
<1>2. PICK i \in 1 .. Len(down[k]) :
        /\ Waits(c)
        /\ Take(k, i)
        /\ told' = [told EXCEPT ![c] =
                      [conn |-> k, id |-> client[c].id, goal |-> client[c].goal,
                       answered |-> down[k][1].id, ok |-> result /\ Ok(k, i)]]
        /\ client' = [client EXCEPT ![c].wait = "no"]
        /\ UNCHANGED <<password, srv, authed, up, done, unchecked, astray>>
  BY DEF Receive
<1>3. client[c] \in ClientState
  BY <1>1 DEF Types
<1>4. k \in Conn /\ k # NoConn
  BY <1>1, <1>2, <1>3 DEF Owned, ClientState
<1> DEFINE new == [client[c] EXCEPT !.wait = "no"]
           ok == result /\ Ok(k, i)
           t == [conn |-> k, id |-> client[c].id, goal |-> client[c].goal,
                 answered |-> down[k][1].id, ok |-> ok]
<1>5. client' = [client EXCEPT ![c] = new] /\ told' = [told EXCEPT ![c] = t]
  BY <1>2
<1>6. /\ new \in ClientState
      /\ new.conn = k /\ new.wait = "no"
  BY <1>3 DEF ClientState
<1>7. /\ down' \in [Conn -> Seq(Answer)]
      /\ \A j \in Conn \ {k} : down'[j] = down[j]
      /\ down[k][1] \in Answer
      /\ Len(down[k]) = 1 => i = 1 /\ down'[k] = <<>>
      /\ down[k] # <<>>
  BY <1>1, <1>2, <1>4, TakeFacts
<1>8. ok \in BOOLEAN /\ (ok => result /\ down[k][1].ok)
  BY DEF Ok
<1> HIDE DEF new, ok
<1>9. /\ t \in Told /\ t.conn = k /\ t.id = client[c].id /\ t.goal = client[c].goal
      /\ t.answered = down[k][1].id /\ t.ok = ok
  BY <1>3, <1>7, <1>8 DEF Told, ClientState, Answer
<1> HIDE DEF t
<1>10. client'[c] = new /\ \A d \in Client \ {c} : client'[d] = client[d]
  BY <1>1, <1>5 DEF Types
<1>11. told'[c] = t /\ \A d \in Client \ {c} : told'[d] = told[d]
  BY <1>1, <1>5 DEF Types
<1>12. Types'
  <2>1. UNCHANGED <<password, srv, authed, up, done, unchecked, astray>>
    BY <1>2
  <2>2. client' \in [Client -> ClientState] /\ told' \in [Client -> Told]
    BY <1>1, <1>5, <1>6, <1>9 DEF Types
  <2> QED
    BY <1>1, <1>7, <2>1, <2>2 DEF Types
<1>13. Owned'
  <2>1. \A d, e \in Client : client'[d].conn = client'[e].conn /\ client'[d].conn # NoConn => d = e
    BY <1>1, <1>6, <1>10 DEF Owned
  <2>2. \A d \in Client : client'[d].conn = NoConn => ~Waits(d)'
    BY <1>1, <1>6, <1>10 DEF Owned
  <2>3. \A d \in Client : client'[d].conn # NoConn => srv'[client'[d].conn] # "none"
    BY <1>1, <1>2, <1>6, <1>10 DEF Owned
  <2>4. \A j \in Conn : srv'[j] = "none" => up'[j] = <<>>
    BY <1>1, <1>2 DEF Owned
  <2>5. \A d \in Client : client'[d].wait = "token" => client'[d].id + 1 \in Id
    BY <1>1, <1>6, <1>10 DEF Owned
  <2> QED
    BY <2>1, <2>2, <2>3, <2>4, <2>5 DEF Owned
<1>14. Accepted'
  BY <1>1, <1>2, <1>7, <1>9, <1>11 DEF Accepted
<1>15. k \notin astray => /\ up[k] = <<>> /\ Len(down[k]) = 1
                          /\ down[k][1].id = client[c].id
                          /\ ok /\ client[c].goal \in NeedsToken
                               => <<k, client[c].id>> \in Acted /\ authed[k]
  BY <1>1, <1>4, <1>7, <1>8 DEF InStep, DownInStep
<1>16. InStep'
  <2> SUFFICES ASSUME NEW d \in Client, NEW j \in Conn, j \notin astray', client'[d].conn = j
               PROVE  UpInStep(d, j)' /\ DownInStep(d, j)'
    BY DEF InStep
  <2>1. CASE d = c
    <3>1. up'[j] = <<>> /\ down'[j] = <<>>
      BY <1>2, <1>6, <1>7, <1>10, <1>15, <2>1
    <3> QED
      BY <3>1 DEF UpInStep, DownInStep
  <2>2. CASE d # c
    <3>1. client'[d] = client[d] /\ j # k
      BY <1>1, <1>4, <1>10, <2>2 DEF Owned, Conn
    <3> QED
      BY <1>1, <1>2, <1>7, <3>1, OthersInStep
  <2> QED
    BY <2>1, <2>2
<1>17. AnswerIsOwn'
  BY <1>1, <1>2, <1>9, <1>11, <1>15 DEF AnswerIsOwn
<1>18. ToldOkIsDone'
  BY <1>1, <1>2, <1>9, <1>11, <1>15 DEF ToldOkIsDone
<1> QED
  BY <1>12, <1>13, <1>14, <1>16, <1>17, <1>18 DEF IInv

-----------------------------------------------------------------------------
(***************************************************************************)
(* The steps of the server                                                 *)
(***************************************************************************)

LEMMA UnreadType == ASSUME ProtocolAssumption PROVE Unread \in Seq(Answer)
<1>1. 1 \in Id
  BY DEF ProtocolAssumption, Id
<1>2. [id |-> 1, ok |-> FALSE, token |-> FALSE, end |-> TRUE] \in Answer
  BY <1>1 DEF Answer
<1> QED
  BY <1>2 DEF Unread

\* Answers go to the end of what is under way, while there is a client.
LEMMA WriteFacts ==
    ASSUME ProtocolAssumption, Types, NEW k \in Conn, NEW s \in Seq(Answer), Write(k, s)
    PROVE  /\ down' \in [Conn -> Seq(Answer)]
           /\ \A j \in Conn \ {k} : down'[j] = down[j]
           /\ HasClient(k) => down'[k] = down[k] \o s
<1> DEFINE left == IF HasClient(k) THEN down[k] \o s ELSE Unread
<1>1. down \in [Conn -> Seq(Answer)] /\ down[k] \in Seq(Answer)
  BY DEF Types
<1>2. left \in Seq(Answer) /\ (HasClient(k) => left = down[k] \o s)
  BY <1>1, UnreadType
<1>3. down' = [down EXCEPT ![k] = left]
  BY DEF Write
<1> HIDE DEF left
<1> QED
  BY <1>1, <1>2, <1>3

\* What a handler may do with everything but its own connection, and what it
\* answers there.
HandlerOK(k, r) ==
    /\ password' \in Password \cup {NoPass}
    /\ srv' \in [Conn -> {"none"} \cup Live \cup Gone]
    /\ srv'[k] \in {"open", "closed", "reloaded"}
    /\ \A j \in Conn \ {k} : srv'[j] = srv[j]
    /\ authed' \in [Conn -> BOOLEAN]
    /\ \A j \in Conn : authed[j] => authed'[j]
    /\ done \subseteq done' /\ unchecked \subseteq unchecked'
    /\ Acted' \subseteq Acted \cup {<<k, r.id>>}
    /\ r.cmd \in {"get_token", "reload"} => Acted' = Acted
    /\ astray \subseteq astray'
    /\ astray' \subseteq astray \cup {k}
    /\ down' \in [Conn -> Seq(Answer)]
    /\ \A j \in Conn \ {k} : down'[j] = down[j]
    /\ k \notin astray' /\ r.cmd = "reload" => down' = down
    /\ k \notin astray' /\ r.cmd # "reload" /\ HasClient(k) =>
         \E a \in Answer :
            /\ down'[k] = down[k] \o <<a>>
            /\ a.id = r.id
            /\ a.ok /\ r.cmd \in NeedsToken => <<k, r.id>> \in Acted' /\ authed'[k]

\* A handler that answers ok, and leaves the socket alone.
Replies(k, r, ok) ==
    /\ Reply(k, r, ok)
    /\ srv' = srv
    /\ password' \in Password \cup {NoPass}
    /\ authed' = authed \/ authed' = [authed EXCEPT ![k] = TRUE]
    /\ done' = done \/ (Effect(k, r) /\ r.cmd \notin {"get_token", "reload"})
    /\ \/ unchecked' = unchecked
       \/ unchecked' = unchecked \cup {<<k, r.id>>} /\ r.cmd \notin {"get_token", "reload"}
    /\ astray' = astray \/ astray' = astray \cup {k}
    /\ k \notin astray' => r.cmd # "reload"
    /\ ok /\ r.cmd \in NeedsToken => <<k, r.id>> \in Acted' /\ authed'[k]

LEMMA ReplyHandler ==
    ASSUME ProtocolAssumption, Types, NEW k \in Conn, NEW r \in Request, srv[k] = "open",
           NEW ok \in BOOLEAN, Replies(k, r, ok)
    PROVE  HandlerOK(k, r)
<1> USE DEF Replies
<1>1. /\ srv \in [Conn -> {"none"} \cup Live \cup Gone] /\ authed \in [Conn -> BOOLEAN]
      /\ astray \subseteq Conn
  BY DEF Types
<1>2. /\ srv' \in [Conn -> {"none"} \cup Live \cup Gone]
      /\ srv'[k] \in {"open", "closed", "reloaded"}
      /\ \A j \in Conn \ {k} : srv'[j] = srv[j]
  BY <1>1
<1>3. authed' \in [Conn -> BOOLEAN] /\ \A j \in Conn : authed[j] => authed'[j]
  BY <1>1
<1>4. /\ done \subseteq done' /\ unchecked \subseteq unchecked'
      /\ Acted' \subseteq Acted \cup {<<k, r.id>>}
      /\ r.cmd \in {"get_token", "reload"} => Acted' = Acted
  BY DEF Effect, Acted
<1> DEFINE token == ok /\ r.cmd = "get_token"
           a == [id |-> r.id, ok |-> ok, token |-> token, end |-> TRUE]
<1>5. token \in BOOLEAN
  OBVIOUS
<1>6. Write(k, <<a>>)
  BY DEF Reply
<1> HIDE DEF token
<1>7. a \in Answer /\ a.id = r.id /\ (a.ok => ok)
  BY <1>5 DEF Answer, Request
<1> HIDE DEF a
<1>8. <<a>> \in Seq(Answer)
  BY <1>7
<1>9. /\ down' \in [Conn -> Seq(Answer)]
      /\ \A j \in Conn \ {k} : down'[j] = down[j]
      /\ HasClient(k) => down'[k] = down[k] \o <<a>>
  BY <1>6, <1>8, WriteFacts
<1>10. a.ok /\ r.cmd \in NeedsToken => <<k, r.id>> \in Acted' /\ authed'[k]
  BY <1>7
<1> QED
  BY <1>2, <1>3, <1>4, <1>7, <1>9, <1>10 DEF HandlerOK

LEMMA DispatchFacts ==
    ASSUME ProtocolAssumption, Types, NEW k \in Conn, NEW r \in Request,
           srv[k] = "open", Dispatch(k, r)
    PROVE  HandlerOK(k, r)
<1>1. /\ password \in Password \cup {NoPass} /\ r.pw \in Password \cup {NoPass}
      /\ srv \in [Conn -> {"none"} \cup Live \cup Gone] /\ authed \in [Conn -> BOOLEAN]
      /\ astray \subseteq Conn /\ down \in [Conn -> Seq(Answer)]
  BY DEF Types, Request
<1>2. CASE GetToken(k, r)
  <2>1. Replies(k, r, TRUE)
    BY <1>1, <1>2 DEF GetToken, NeedsToken, Replies
  <2> QED
    BY <2>1, ReplyHandler
<1>3. CASE Authenticate(k, r)
  <2>0. r.cmd = "auth" /\ UNCHANGED <<password, srv, astray>>
    BY <1>3 DEF Authenticate
  <2>1. CASE Welcome(k, r) /\ Effect(k, r) /\ UNCHANGED unchecked
    <3>1. <<k, r.id>> \in Acted' /\ authed'[k]
      BY <1>1, <2>1 DEF Effect, Acted, Welcome
    <3>2. Replies(k, r, TRUE)
      BY <1>1, <2>0, <2>1, <3>1 DEF Replies, Welcome
    <3> QED
      BY <3>2, ReplyHandler
  <2>2. CASE Reply(k, r, FALSE) /\ UNCHANGED <<authed, done, unchecked>>
    <3>1. Replies(k, r, FALSE)
      BY <1>1, <2>0, <2>2 DEF Replies
    <3> QED
      BY <3>1, ReplyHandler
  <2>3. CASE Welcome(k, r) /\ unchecked' = unchecked \cup {<<k, r.id>>} /\ UNCHANGED done
    <3>1. <<k, r.id>> \in Acted' /\ authed'[k]
      BY <1>1, <2>3 DEF Acted, Welcome
    <3>2. Replies(k, r, TRUE)
      BY <1>1, <2>0, <2>3, <3>1 DEF Replies, Welcome
    <3> QED
      BY <3>2, ReplyHandler
  <2> QED
    BY <1>3, <2>1, <2>2, <2>3 DEF Authenticate
<1>4. CASE Refuse(k, r)
  <2>1. astray' = astray \/ astray' = astray \cup {k}
    BY <1>4 DEF Refuse
  <2>2. k \notin astray' => r.cmd # "reload"
    BY <1>4 DEF Refuse
  <2>3. Replies(k, r, FALSE)
    BY <1>1, <1>4, <2>1, <2>2 DEF Refuse, Replies
  <2> QED
    BY <2>3, ReplyHandler
<1>5. CASE SetPassword(k, r)
  <2>0. authed[k] /\ r.cmd = "set_service_password" /\ UNCHANGED <<srv, authed, unchecked, astray>>
    BY <1>5 DEF SetPassword
  <2>1. CASE password' = r.pw /\ Effect(k, r) /\ Reply(k, r, TRUE)
    <3>1. <<k, r.id>> \in Acted' /\ authed'[k]
      BY <2>0, <2>1 DEF Effect, Acted
    <3>2. Replies(k, r, TRUE)
      BY <1>1, <2>0, <2>1, <3>1 DEF Replies
    <3> QED
      BY <3>2, ReplyHandler
  <2>2. CASE Reply(k, r, FALSE) /\ UNCHANGED <<password, done>>
    <3>1. Replies(k, r, FALSE)
      BY <1>1, <2>0, <2>2 DEF Replies
    <3> QED
      BY <3>1, ReplyHandler
  <2> QED
    BY <1>5, <2>1, <2>2 DEF SetPassword
<1>6. CASE RemovePassword(k, r)
  <2>1. Replies(k, r, TRUE)
    BY <1>1, <1>6 DEF RemovePassword, NeedsToken, Replies
  <2> QED
    BY <2>1, ReplyHandler
<1>7. CASE Manage(k, r)
  <2>1. Replies(k, r, TRUE)
    BY <1>1, <1>7 DEF Manage, NeedsToken, Replies
  <2> QED
    BY <2>1, ReplyHandler
<1>8. CASE Fetch(k, r)
  <2>1. CASE \E ok \in BOOLEAN : Reply(k, r, ok) /\ UNCHANGED astray
    <3>1. PICK ok \in BOOLEAN : Reply(k, r, ok) /\ UNCHANGED astray
      BY <2>1
    <3>2. Replies(k, r, ok)
      BY <1>1, <1>8, <3>1 DEF Fetch, NeedsToken, Replies
    <3> QED
      BY <3>2, ReplyHandler
  <2>2. CASE /\ \E s \in Damaged(r) : Write(k, s)
             /\ astray' = astray \cup {k}
    <3>1. PICK s \in Damaged(r) : Write(k, s)
      BY <2>2
    <3>2. s \in Seq(Answer)
      <4> DEFINE whole == [id |-> r.id, ok |-> FALSE, token |-> FALSE, end |-> TRUE]
                 cut == [id |-> r.id, ok |-> FALSE, token |-> FALSE, end |-> FALSE]
      <4>1. whole \in Answer /\ cut \in Answer
        BY DEF Answer, Request
      <4>2. s \in {<<cut>>, <<whole, whole>>}
        BY DEF Damaged
      <4> HIDE DEF whole, cut
      <4>3. <<cut>> \in Seq(Answer) /\ <<whole, whole>> \in Seq(Answer)
        BY <4>1
      <4> QED
        BY <4>2, <4>3
    <3>3. /\ down' \in [Conn -> Seq(Answer)]
          /\ \A j \in Conn \ {k} : down'[j] = down[j]
      BY <3>1, <3>2, WriteFacts
    <3> QED
      BY <1>1, <1>8, <2>2, <3>3 DEF Fetch, HandlerOK, Acted
  <2> QED
    BY <1>8, <2>1, <2>2 DEF Fetch
<1>9. CASE Reload(k, r)
  BY <1>1, <1>9 DEF Reload, HandlerOK, Gone, Acted
<1> QED
  BY <1>2, <1>3, <1>4, <1>5, <1>6, <1>7, <1>8, <1>9 DEF Dispatch

\* Accept, PeerGone, End: nothing is answered, and what is under way stays or is
\* dropped.
LEMMA SilentStep ==
    ASSUME IInv,
           UNCHANGED <<password, down, client, told, done, unchecked, astray>>,
           srv' \in [Conn -> {"none"} \cup Live \cup Gone],
           up' \in [Conn -> Seq(Request)],
           authed' \in [Conn -> BOOLEAN],
           \A k \in Conn : srv'[k] \in {"none", "backlog"} => srv'[k] = srv[k],
           \A k \in Conn : srv'[k] = "none" <=> srv[k] = "none",
           \A k \in Conn : up'[k] \in {up[k], <<>>},
           \A k \in Conn : srv[k] # "backlog" => authed'[k] = authed[k]
    PROVE  IInv'
<1>1. Types /\ Owned /\ Accepted /\ InStep /\ AnswerIsOwn /\ ToldOkIsDone
  BY DEF IInv
<1>2. Types'
  BY <1>1 DEF Types
<1>3. \A c \in Client : client[c].conn # NoConn => client[c].conn \in Conn
  BY <1>1 DEF Types, ClientState
<1>4. Owned'
  <2>1. \A c \in Client : client'[c].conn # NoConn => srv'[client'[c].conn] # "none"
    BY <1>1, <1>3 DEF Owned
  <2>2. \A k \in Conn : srv'[k] = "none" => up'[k] = <<>>
    BY <1>1 DEF Owned
  <2> QED
    BY <1>1, <2>1, <2>2 DEF Owned
<1>5. Accepted'
  BY <1>1 DEF Accepted
<1>6. InStep'
  <2> SUFFICES ASSUME NEW d \in Client, NEW j \in Conn, j \notin astray', client'[d].conn = j
               PROVE  UpInStep(d, j)' /\ DownInStep(d, j)'
    BY DEF InStep
  <2>1. UpInStep(d, j) /\ DownInStep(d, j)
    BY <1>1 DEF InStep
  <2>2. UpInStep(d, j)'
    BY <2>1 DEF UpInStep, Expected
  <2>3. down[j] # <<>> => srv[j] # "backlog"
    BY <1>1 DEF Accepted
  <2>4. DownInStep(d, j)'
    BY <2>1, <2>3 DEF DownInStep
  <2> QED
    BY <2>2, <2>4
<1>7. AnswerIsOwn'
  BY <1>1 DEF AnswerIsOwn
<1>8. ToldOkIsDone'
  <2> SUFFICES ASSUME NEW c \in Client, told[c].conn \notin astray, told[c].ok,
                      told[c].goal \in NeedsToken
               PROVE  <<told[c].conn, told[c].id>> \in Acted' /\ authed'[told[c].conn]
    BY DEF ToldOkIsDone
  <2>1. <<told[c].conn, told[c].id>> \in Acted /\ authed[told[c].conn]
    BY <1>1 DEF ToldOkIsDone
  <2>2. told[c].conn \in Conn
    BY <1>1, <2>1 DEF Types
  <2>3. srv[told[c].conn] # "backlog"
    BY <1>1, <2>2 DEF Accepted
  <2> QED
    BY <2>1, <2>2, <2>3
<1> QED
  BY <1>2, <1>4, <1>5, <1>6, <1>7, <1>8 DEF IInv

LEMMA AcceptStep == ASSUME IInv, NEW k \in Conn, Accept(k) PROVE IInv'
<1>1. PICK open \in NoPasswordSeen : authed' = [authed EXCEPT ![k] = open]
  BY DEF Accept
<1>2. open \in BOOLEAN
  BY DEF NoPasswordSeen
<1>3. /\ srv \in [Conn -> {"none"} \cup Live \cup Gone] /\ up \in [Conn -> Seq(Request)]
      /\ authed \in [Conn -> BOOLEAN]
  BY DEF IInv, Types
<1>4. authed' \in [Conn -> BOOLEAN] /\ \A j \in Conn \ {k} : authed'[j] = authed[j]
  BY <1>1, <1>2, <1>3
<1>5. /\ srv[k] = "backlog"
      /\ srv' = [srv EXCEPT ![k] = "open"]
      /\ UNCHANGED <<password, up, down, client, told, done, unchecked, astray>>
  BY DEF Accept
<1>6. \A j \in Conn : srv[j] # "backlog" => authed'[j] = authed[j]
  BY <1>4, <1>5
<1>7. /\ srv' \in [Conn -> {"none"} \cup Live \cup Gone]
      /\ \A j \in Conn : srv'[j] \in {"none", "backlog"} => srv'[j] = srv[j]
      /\ \A j \in Conn : srv'[j] = "none" <=> srv[j] = "none"
  BY <1>3, <1>5 DEF Live
<1> QED
  BY <1>3, <1>4, <1>5, <1>6, <1>7, SilentStep

LEMMA PeerGoneStep == ASSUME IInv, NEW k \in Conn, PeerGone(k) PROVE IInv'
<1>1. /\ srv \in [Conn -> {"none"} \cup Live \cup Gone] /\ up \in [Conn -> Seq(Request)]
      /\ authed \in [Conn -> BOOLEAN]
  BY DEF IInv, Types
<1>2. /\ srv[k] = "open"
      /\ srv' = [srv EXCEPT ![k] = "closed"]
      /\ up' = [up EXCEPT ![k] = <<>>]
      /\ UNCHANGED <<password, authed, down, client, told, done, unchecked, astray>>
  BY DEF PeerGone
<1>3. up' \in [Conn -> Seq(Request)] /\ \A j \in Conn : up'[j] \in {up[j], <<>>}
  BY <1>1, <1>2
<1>4. /\ srv' \in [Conn -> {"none"} \cup Live \cup Gone]
      /\ \A j \in Conn : srv'[j] \in {"none", "backlog"} => srv'[j] = srv[j]
      /\ \A j \in Conn : srv'[j] = "none" <=> srv[j] = "none"
  BY <1>1, <1>2 DEF Gone
<1> QED
  BY <1>1, <1>2, <1>3, <1>4, SilentStep

LEMMA EndStep == ASSUME IInv, End PROVE IInv'
<1>1. /\ srv \in [Conn -> {"none"} \cup Live \cup Gone] /\ up \in [Conn -> Seq(Request)]
      /\ authed \in [Conn -> BOOLEAN]
  BY DEF IInv, Types
<1>2. /\ srv' = [k \in Conn |-> IF srv[k] \in Live THEN "ended" ELSE srv[k]]
      /\ up' = [k \in Conn |-> IF srv[k] \in Live THEN <<>> ELSE up[k]]
      /\ UNCHANGED <<password, authed, down, client, told, done, unchecked, astray>>
  BY DEF End
<1>3. up' \in [Conn -> Seq(Request)] /\ \A j \in Conn : up'[j] \in {up[j], <<>>}
  BY <1>1, <1>2
<1>4. /\ srv' \in [Conn -> {"none"} \cup Live \cup Gone]
      /\ \A j \in Conn : srv'[j] \in {"none", "backlog"} => srv'[j] = srv[j]
      /\ \A j \in Conn : srv'[j] = "none" <=> srv[j] = "none"
  BY <1>1, <1>2 DEF Live, Gone
<1> QED
  BY <1>1, <1>2, <1>3, <1>4, SilentStep

\* A request that is handled: what its client waits for, or a reload.
LEMMA HeadFacts ==
    ASSUME Types, InStep, NEW k \in Conn, up[k] # <<>>
    PROVE  /\ Head(up[k]) \in Request
           /\ \A c \in Client : client[c].conn = k /\ k \notin astray =>
                /\ down[k] = <<>>
                /\ \/ Head(up[k]).cmd = "reload"
                   \/ Expected(c, Head(up[k])) /\ Len(up[k]) = 1
<1>1. up[k] \in Seq(Request)
  BY DEF Types
<1>2. Head(up[k]) = up[k][1] /\ 1 \in DOMAIN up[k] /\ Head(up[k]) \in Request
  BY <1>1
<1>3. ASSUME NEW c \in Client, client[c].conn = k, k \notin astray
      PROVE  /\ down[k] = <<>>
             /\ \/ Head(up[k]).cmd = "reload"
                \/ Expected(c, Head(up[k])) /\ Len(up[k]) = 1
  <2>1. UpInStep(c, k) /\ DownInStep(c, k)
    BY <1>3 DEF InStep
  <2>2. up[k][1].cmd = "reload" \/ (1 = Len(up[k]) /\ Expected(c, up[k][1]))
    BY <1>2, <2>1 DEF UpInStep
  <2> QED
    BY <1>2, <2>1, <2>2 DEF DownInStep
<1> QED
  BY <1>2, <1>3

\* ReadWhole, ReadPart: the request is answered, and what is left of the others
\* stays.
LEMMA HandlerStep ==
    ASSUME ProtocolAssumption, IInv, NEW k \in Conn, srv[k] = "open", up[k] # <<>>,
           HandlerOK(k, Head(up[k])), UNCHANGED <<client, told>>,
           up' \in [Conn -> Seq(Request)], \A j \in Conn \ {k} : up'[j] = up[j],
           k \notin astray' => up'[k] \in Later(up[k])
    PROVE  IInv'
<1> DEFINE r == Head(up[k])
<1>1. Types /\ Owned /\ Accepted /\ InStep /\ AnswerIsOwn /\ ToldOkIsDone
  BY DEF IInv
<1>2. /\ r \in Request
      /\ \A c \in Client : client[c].conn = k /\ k \notin astray =>
           down[k] = <<>> /\ (r.cmd = "reload" \/ (Expected(c, r) /\ Len(up[k]) = 1))
  BY <1>1, HeadFacts
<1> HIDE DEF r
<1>3. HandlerOK(k, r)
  BY DEF r
<1>4. /\ password' \in Password \cup {NoPass}
      /\ srv' \in [Conn -> {"none"} \cup Live \cup Gone]
      /\ srv'[k] \in {"open", "closed", "reloaded"}
      /\ \A j \in Conn \ {k} : srv'[j] = srv[j]
      /\ authed' \in [Conn -> BOOLEAN]
      /\ \A j \in Conn : authed[j] => authed'[j]
  BY <1>3 DEF HandlerOK
<1>5. /\ done \subseteq done' /\ unchecked \subseteq unchecked'
      /\ Acted \subseteq Acted' /\ Acted' \subseteq Acted \cup {<<k, r.id>>}
      /\ astray \subseteq astray' /\ astray' \subseteq astray \cup {k}
      /\ down' \in [Conn -> Seq(Answer)]
      /\ \A j \in Conn \ {k} : down'[j] = down[j]
  BY <1>3 DEF HandlerOK, Acted
<1>6. Types'
  <2>1. r.id \in Id
    BY <1>2 DEF Request
  <2>2. /\ done' \subseteq Conn \X Id /\ unchecked' \subseteq Conn \X Id
        /\ astray' \subseteq Conn
    BY <1>1, <1>5, <2>1 DEF Types, Acted
  <2> QED
    BY <1>1, <1>4, <1>5, <2>2 DEF Types
<1>7. Owned'
  <2>1. \A c \in Client : client[c].conn # NoConn => client[c].conn \in Conn
    BY <1>1 DEF Types, ClientState
  <2>2. \A c \in Client : client'[c].conn # NoConn => srv'[client'[c].conn] # "none"
    BY <1>1, <1>4, <2>1 DEF Owned
  <2>3. \A j \in Conn : srv'[j] = "none" => up'[j] = <<>>
    BY <1>1, <1>4 DEF Owned
  <2> QED
    BY <1>1, <2>2, <2>3 DEF Owned
<1>8. Accepted'
  BY <1>1, <1>4, <1>5 DEF Accepted
<1>9. InStep'
  <2> SUFFICES ASSUME NEW d \in Client, NEW j \in Conn, j \notin astray', client'[d].conn = j
               PROVE  UpInStep(d, j)' /\ DownInStep(d, j)'
    BY DEF InStep
  <2>1. CASE j # k
    BY <1>1, <1>4, <1>5, <2>1, OthersInStep
  <2>2. CASE j = k
    <3>1. /\ k \notin astray /\ client[d].conn = k /\ client'[d] = client[d]
          /\ down[k] = <<>> /\ HasClient(k) /\ up'[k] \in Later(up[k])
          /\ r.cmd = "reload" \/ (Expected(d, r) /\ Len(up[k]) = 1)
      BY <1>2, <1>5, <2>2 DEF HasClient
    <3>2. up[k] \in Seq(Request)
      BY <1>1 DEF Types
    <3>3. CASE r.cmd = "reload"
      <4>1. down'[k] = <<>>
        BY <1>3, <2>2, <3>1, <3>3 DEF HandlerOK
      <4>2. UpInStep(d, k)
        BY <1>1, <3>1 DEF InStep
      <4>3. \A i \in DOMAIN up'[k] :
              \E n \in DOMAIN up[k] : up'[k][i] = up[k][n] /\ (n = Len(up[k]) => i = Len(up'[k]))
        BY <3>1, <3>2, LaterFacts
      <4>4. UpInStep(d, k)'
        BY <3>1, <4>2, <4>3 DEF UpInStep, Expected
      <4> QED
        BY <2>2, <4>1, <4>4 DEF DownInStep
    <3>4. CASE r.cmd # "reload"
      <4>1. Expected(d, r) /\ up'[k] = <<>>
        BY <3>1, <3>2, <3>4, LaterFacts
      <4>2. PICK a \in Answer :
              /\ down'[k] = down[k] \o <<a>>
              /\ a.id = r.id
              /\ a.ok /\ r.cmd \in NeedsToken => <<k, r.id>> \in Acted' /\ authed'[k]
        BY <1>3, <2>2, <3>1, <3>4 DEF HandlerOK
      <4>3. down'[k] = <<a>>
        BY <3>1, <4>2
      <4>4. Len(down'[k]) = 1 /\ down'[k][1] = a
        BY <4>3
      <4>5. r.id = client[d].id /\ Waits(d)
            /\ (client[d].wait = "result" => r.cmd = client[d].goal)
        BY <4>1 DEF Expected
      <4>6. DownInStep(d, k)'
        BY <3>1, <4>1, <4>2, <4>4, <4>5 DEF DownInStep
      <4>7. UpInStep(d, k)'
        BY <4>1 DEF UpInStep
      <4> QED
        BY <2>2, <4>6, <4>7
    <3> QED
      BY <3>3, <3>4
  <2> QED
    BY <2>1, <2>2
<1>10. AnswerIsOwn'
  BY <1>1, <1>5 DEF AnswerIsOwn
<1>11. ToldOkIsDone'
  <2> SUFFICES ASSUME NEW c \in Client, told[c].conn \notin astray', told[c].ok,
                      told[c].goal \in NeedsToken
               PROVE  <<told[c].conn, told[c].id>> \in Acted' /\ authed'[told[c].conn]
    BY DEF ToldOkIsDone
  <2>1. <<told[c].conn, told[c].id>> \in Acted /\ authed[told[c].conn]
    BY <1>1, <1>5 DEF ToldOkIsDone
  <2>2. told[c].conn \in Conn
    BY <1>1, <2>1 DEF Types
  <2> QED
    BY <1>4, <1>5, <2>1, <2>2
<1> QED
  BY <1>6, <1>7, <1>8, <1>9, <1>10, <1>11 DEF IInv

LEMMA ReadWholeStep ==
    ASSUME ProtocolAssumption, IInv, NEW k \in Conn, ReadWhole(k)
    PROVE  IInv' /\ HandlerOK(k, Head(up[k]))
<1>1. PICK s \in Later(up[k]) : up' = [up EXCEPT ![k] = s]
  BY DEF ReadWhole
<1>2. srv[k] = "open" /\ up[k] # <<>> /\ Dispatch(k, Head(up[k])) /\ UNCHANGED <<client, told>>
  BY DEF ReadWhole
<1>3. Types /\ InStep /\ up \in [Conn -> Seq(Request)] /\ up[k] \in Seq(Request)
  BY DEF IInv, Types
<1>4. Head(up[k]) \in Request
  BY <1>2, <1>3, HeadFacts
<1>5. HandlerOK(k, Head(up[k]))
  BY <1>2, <1>3, <1>4, DispatchFacts
<1>6. s \in Seq(Request)
  BY <1>2, <1>3, LaterFacts
<1>7. up' \in [Conn -> Seq(Request)] /\ up'[k] = s /\ \A j \in Conn \ {k} : up'[j] = up[j]
  BY <1>1, <1>3, <1>6
<1> QED
  BY <1>2, <1>5, <1>7, HandlerStep

LEMMA ReadPartStep ==
    ASSUME ProtocolAssumption, IInv, NEW k \in Conn, ReadPart(k)
    PROVE  IInv'
<1> DEFINE r == Head(up[k])
<1>1. /\ srv[k] = "open" /\ up[k] # <<>> /\ r.cmd = "block"
      /\ Reply(k, r, FALSE)
      /\ astray' = astray \cup {k}
      /\ UNCHANGED <<password, srv, authed, client, told, done, unchecked>>
  BY DEF ReadPart
<1>2. Types /\ InStep /\ up \in [Conn -> Seq(Request)] /\ up[k] \in Seq(Request)
      /\ password \in Password \cup {NoPass} /\ astray \subseteq Conn
  BY DEF IInv, Types
<1>3. r \in Request
  BY <1>1, <1>2, HeadFacts
<1>4. HandlerOK(k, r)
  <2> HIDE DEF r
  <2>1. Replies(k, r, FALSE)
    <3>1. Reply(k, r, FALSE) /\ r.cmd = "block" /\ UNCHANGED <<password, srv, authed, done, unchecked>>
      BY <1>1
    <3>2. astray' = astray \cup {k} /\ k \in astray'
      BY <1>1
    <3> QED
      BY <1>2, <3>1, <3>2 DEF Replies
  <2> QED
    BY <1>1, <1>2, <1>3, <2>1, ReplyHandler
<1>5. up' \in [Conn -> Seq(Request)] /\ \A j \in Conn \ {k} : up'[j] = up[j]
  <2>1. CASE \E s \in Later(up[k]) : up' = [up EXCEPT ![k] = s]
    <3>1. PICK s \in Later(up[k]) : up' = [up EXCEPT ![k] = s]
      BY <2>1
    <3>2. s \in Seq(Request)
      BY <1>1, <1>2, LaterFacts
    <3> QED
      BY <1>2, <3>1, <3>2
  <2>2. CASE up' = [up EXCEPT ![k][1].rest = TRUE]
    <3> DEFINE part == [up[k][1] EXCEPT !.rest = TRUE]
               s == [up[k] EXCEPT ![1] = part]
    <3>1. up' = [up EXCEPT ![k] = s]
      BY <2>2
    <3>2. up[k][1] \in Request /\ 1 \in 1 .. Len(up[k])
      BY <1>1, <1>2
    <3>3. part \in Request
      BY <3>2 DEF Request
    <3> HIDE DEF part
    <3>4. s \in Seq(Request)
      BY <1>2, <3>2, <3>3
    <3> HIDE DEF s
    <3> QED
      BY <1>2, <3>1, <3>4
  <2> QED
    BY <2>1, <2>2 DEF ReadPart
<1>6. k \in astray'
  BY <1>1
<1> QED
  BY <1>1, <1>4, <1>5, <1>6, HandlerStep DEF r

\* Every step keeps the invariant.
LEMMA NextIInv == ASSUME ProtocolAssumption, IInv, [Next]_vars PROVE IInv'
<1>1. ASSUME NEW c \in Client,
             \/ Open(c) \/ Close(c) \/ Execute(c) \/ SendReload(c)
             \/ ReceiveToken(c) \/ Receive(c) \/ Timeout(c) \/ PeerClosed(c)
      PROVE  IInv'
  <2>1. Waits(c) => client[c].conn # NoConn
    BY DEF IInv, Owned
  <2>2. CASE Close(c) \/ Timeout(c) \/ PeerClosed(c)
    <3>1. PICK left \in {Apart, Dead} : Leave(c, left)
      BY <2>2 DEF Close, Timeout, PeerClosed
    <3> QED
      BY <2>1, <2>2, <3>1, LeaveStep DEF Close, Timeout, PeerClosed
  <2> QED
    BY <1>1, <2>2, OpenStep, ExecuteStep, SendReloadStep, ReceiveTokenStep, ReceiveStep
<1>2. ASSUME NEW k \in Conn, Accept(k) \/ Read(k) \/ PeerGone(k)
      PROVE  IInv'
  BY <1>2, AcceptStep, ReadWholeStep, ReadPartStep, PeerGoneStep DEF Read
<1>3. CASE UNCHANGED vars
  BY <1>3 DEF vars, IInv, Types, Owned, Accepted, InStep, UpInStep, DownInStep, Expected,
              AnswerIsOwn, ToldOkIsDone
<1> QED
  BY <1>1, <1>2, <1>3, EndStep DEF Next

\* Only a handler changes what is done, and it does what its client waits for.
LEMMA NextAwaited ==
    ASSUME ProtocolAssumption, IInv, [Next]_vars,
           NEW k \in Conn, NEW id \in Id, <<k, id>> \in Acted' \ Acted, HasClient(k), k \notin astray
    PROVE  \E c \in Client :
             client[c].conn = k /\ client[c].id = id /\ client[c].wait = "result"
<1>1. Types /\ InStep
  BY DEF IInv
<1>2. PICK j \in Conn : ReadWhole(j)
  BY DEF Next, vars, Open, Close, Execute, SendReload, ReceiveToken, Receive, Timeout,
         PeerClosed, Leave, Accept, Read, ReadPart, PeerGone, End
<1>3. HandlerOK(j, Head(up[j])) /\ up[j] # <<>>
  BY <1>2, ReadWholeStep DEF ReadWhole
<1>4. /\ Acted' \subseteq Acted \cup {<<j, Head(up[j]).id>>}
      /\ Head(up[j]).cmd \in {"get_token", "reload"} => Acted' = Acted
  BY <1>3 DEF HandlerOK
<1>5. j = k /\ Head(up[k]).id = id /\ Head(up[k]).cmd \notin {"get_token", "reload"}
  BY <1>4
<1>6. PICK c \in Client : client[c].conn = k
  BY DEF HasClient
<1>7. Expected(c, Head(up[k]))
  BY <1>1, <1>3, <1>5, <1>6, HeadFacts
<1>8. client[c].wait \in {"token", "result"}
  BY <1>7 DEF Expected
<1> QED
  BY <1>5, <1>6, <1>7, <1>8 DEF Expected

-----------------------------------------------------------------------------
\* The invariant holds for every number of clients, connections and requests.
THEOREM ProtocolInvariant == Spec => []IInv
<1>1. Init => IInv
  BY InitIInv, ProtocolAssumption
<1>2. IInv /\ [Next]_vars => IInv'
  BY NextIInv, ProtocolAssumption
<1> QED
  BY <1>1, <1>2, PTL DEF Spec

\* Every variable holds what the code can put into it, and no client waits for
\* an answer on a socket that is closed
\* (dblclient/net/service_connection.cxx:84-121).
THEOREM TypeCorrect == Spec => []TypeOK
<1>1. IInv => TypeOK
  BY DEF IInv, Owned, TypeOK
<1> QED
  BY <1>1, ProtocolInvariant, PTL

\* A call returns the answer to its own request
\* (dblclient/net/service_connection.cxx:84-134).
THEOREM AnswersAreOwn == Spec => []AnswerIsOwn
<1>1. IInv => AnswerIsOwn
  BY DEF IInv
<1> QED
  BY <1>1, ProtocolInvariant, PTL

\* Who is told that its password is set, or fits, is told the truth, unless the
\* setting could not be read when that very auth was to compare it
\* (service_connection.cxx:85-92, 201-214, auth.cxx:21-35).
THEOREM SuccessIsTrue == Spec => []ToldOkIsDone
<1>1. IInv => ToldOkIsDone
  BY DEF IInv
<1> QED
  BY <1>1, ProtocolInvariant, PTL

\* What happens on a connection that its client keeps is what that client waits
\* for (dblclient/net/service_connection.cxx:123-153).
THEOREM EffectsAreAwaited == Spec => EffectIsAwaited
<1> DEFINE Step == \A k \in Conn, id \in Id :
                      /\ <<k, id>> \in Acted' \ Acted
                      /\ HasClient(k)
                      /\ k \notin astray
                      => \E c \in Client :
                           client[c].conn = k /\ client[c].id = id /\ client[c].wait = "result"
<1>1. IInv /\ [Next]_vars => [Step]_vars
  BY NextAwaited, ProtocolAssumption
<1> QED
  BY <1>1, ProtocolInvariant, PTL DEF Spec, EffectIsAwaited

-----------------------------------------------------------------------------
(***************************************************************************)
(* The order of the requests of a connection.                              *)
(***************************************************************************)
Grows(s) == \A i, j \in DOMAIN s : i < j => s[i].id < s[j].id
After(s, n) == \A i \in DOMAIN s : n < s[i].id
UpTo(s, n) == \A i \in DOMAIN s : s[i].id <= n

\* What is under way has growing numbers, above those of what is done and up to
\* that of its client, which starts with a connection that nobody used.
NumberedOn(k) ==
    /\ Grows(up[k])
    /\ \A id \in Id : <<k, id>> \in Acted => After(up[k], id)
    /\ \A c \in Client : client[c].conn = k =>
         /\ UpTo(up[k], client[c].id)
         /\ \A id \in Id : <<k, id>> \in Acted => id <= client[c].id
    /\ srv[k] = "none" => \A id \in Id : <<k, id>> \notin Acted

Numbered == \A k \in Conn : NumberedOn(k)

\* t has requests of s, in their order.
Within(t, s) ==
    /\ Grows(s) => Grows(t)
    /\ \A n \in Nat : (After(s, n) => After(t, n)) /\ (UpTo(s, n) => UpTo(t, n))

LEMMA LaterIsWithin ==
    ASSUME NEW s \in Seq(Request), s # <<>>, NEW t \in Later(s)
    PROVE  Within(t, s) /\ (Grows(s) => After(t, Head(s).id))
<1>1. PICK n \in 2 .. Len(s) + 1 : t = SubSeq(s, n, Len(s))
  BY DEF Later
<1>2. Len(s) \in Nat /\ Len(s) >= 1 /\ Head(s) = s[1] /\ DOMAIN s = 1 .. Len(s)
  OBVIOUS
<1>3. t \in Seq(Request) /\ Len(t) = Len(s) - n + 1 /\ DOMAIN t = 1 .. Len(t)
  BY <1>1, <1>2
<1>4. ASSUME NEW i \in DOMAIN t
      PROVE  /\ i \in Nat /\ n + i - 1 \in DOMAIN s /\ 1 < n + i - 1
             /\ t[i] = s[n + i - 1]
  <2>1. i \in 1 .. Len(t)
    BY <1>3
  <2>2. /\ n \in Nat /\ i \in Nat /\ Len(s) \in Nat
        /\ 2 <= n /\ n <= Len(s) + 1 /\ 1 <= i /\ i <= Len(s) - n + 1
    BY <1>2, <1>3, <2>1
  <2>3. t[i] = s[n + i - 1]
    BY <1>1, <1>2, <2>2
  <2> QED
    BY <1>2, <2>2, <2>3
<1>5. Grows(s) => Grows(t)
  <2> SUFFICES ASSUME Grows(s), NEW i \in DOMAIN t, NEW j \in DOMAIN t, i < j
               PROVE  t[i].id < t[j].id
    BY DEF Grows
  <2>1. n + i - 1 < n + j - 1
    BY <1>4
  <2> QED
    BY <1>4, <2>1 DEF Grows
<1>6. \A m \in Nat : (After(s, m) => After(t, m)) /\ (UpTo(s, m) => UpTo(t, m))
  BY <1>4 DEF After, UpTo
<1>7. Grows(s) => After(t, Head(s).id)
  <2> SUFFICES ASSUME Grows(s), NEW i \in DOMAIN t
               PROVE  s[1].id < t[i].id
    BY <1>2 DEF After
  <2>1. 1 \in DOMAIN s
    BY <1>2
  <2> QED
    BY <1>4, <2>1 DEF Grows
<1> QED
  BY <1>5, <1>6, <1>7 DEF Within

LEMMA IdsAreNumbers ==
    ASSUME ProtocolAssumption
    PROVE  Id \subseteq Nat /\ (Types => \A c \in Client : client[c].id \in Nat)
BY DEF ProtocolAssumption, Id, Types, ClientState

\* A connection on which nothing is sent.
LEMMA KeepsNumbers ==
    ASSUME ProtocolAssumption, Types, NEW k \in Conn, NumberedOn(k),
           Within(up'[k], up[k]),
           \A c \in Client : client'[c].conn = k =>
             client[c].conn = k /\ client'[c].id = client[c].id,
           \A id \in Id : <<k, id>> \in Acted' =>
             \/ <<k, id>> \in Acted
             \/ up[k] # <<>> /\ id = Head(up[k]).id /\ After(up'[k], id) /\ srv'[k] # "none",
           srv'[k] = "none" => srv[k] = "none"
    PROVE  NumberedOn(k)'
<1>1. Id \subseteq Nat /\ \A c \in Client : client[c].id \in Nat
  BY IdsAreNumbers
<1>2. Grows(up'[k])
  BY DEF Within, NumberedOn
<1>3. \A id \in Id : <<k, id>> \in Acted' => After(up'[k], id)
  BY <1>1 DEF Within, NumberedOn
<1>4. ASSUME NEW c \in Client, client'[c].conn = k
      PROVE  /\ UpTo(up'[k], client'[c].id)
             /\ \A id \in Id : <<k, id>> \in Acted' => id <= client'[c].id
  <2>1. client[c].conn = k /\ client'[c].id = client[c].id
    BY <1>4
  <2>2. UpTo(up[k], client[c].id) /\ UpTo(up'[k], client'[c].id)
    BY <1>1, <2>1 DEF Within, NumberedOn
  <2>3. up[k] # <<>> => Head(up[k]).id <= client[c].id
    <3>1. up[k] \in Seq(Request)
      BY DEF Types
    <3>2. up[k] # <<>> => 1 \in DOMAIN up[k] /\ Head(up[k]) = up[k][1]
      BY <3>1
    <3> QED
      BY <2>2, <3>2 DEF UpTo
  <2> QED
    BY <2>1, <2>2, <2>3 DEF NumberedOn
<1>5. srv'[k] = "none" => \A id \in Id : <<k, id>> \notin Acted'
  BY DEF NumberedOn
<1>6. NumberedOn(k)' <=> /\ Grows(up'[k])
                         /\ \A id \in Id : <<k, id>> \in Acted' => After(up'[k], id)
                         /\ \A c \in Client : client'[c].conn = k =>
                              /\ UpTo(up'[k], client'[c].id)
                              /\ \A id \in Id : <<k, id>> \in Acted' => id <= client'[c].id
                         /\ srv'[k] = "none" => \A id \in Id : <<k, id>> \notin Acted'
  BY DEF NumberedOn, Grows, After, UpTo
<1> QED
  BY <1>2, <1>3, <1>4, <1>5, <1>6

LEMMA SameIsWithin == ASSUME NEW s PROVE Within(s, s) /\ Within(<<>>, s)
BY DEF Within, Grows, After, UpTo

\* A client sends: the request has a number above all of its connection.
LEMMA SendsNumber ==
    ASSUME ProtocolAssumption, IInv, Numbered, NEW c \in Client,
           client[c].conn # NoConn,
           client'[c].conn = client[c].conn, client'[c].id = client[c].id + 1,
           \A d \in Client \ {c} : client'[d] = client[d],
           NEW cmd \in Cmd, NEW pw \in Password \cup {NoPass}, client[c].id + 1 \in Id,
           Send(client[c].conn, client[c].id + 1, cmd, pw),
           UNCHANGED <<done, unchecked, srv>>
    PROVE  Numbered'
<1> DEFINE k == client[c].conn
           id == client[c].id + 1
           r == [id |-> id, cmd |-> cmd, pw |-> pw, rest |-> FALSE]
<1>1. Types /\ Owned /\ k \in Conn /\ client[c].id \in Nat
  BY IdsAreNumbers DEF IInv, Types, ClientState
<1>2. up \in [Conn -> Seq(Request)] /\ up[k] \in Seq(Request) /\ r \in Request
  BY <1>1 DEF Types, Request
<1>3. /\ \A j \in Conn \ {k} : up'[j] = up[j]
      /\ up'[k] = up[k] \/ up'[k] = Append(up[k], r)
  BY <1>1, <1>2 DEF Send
<1>4. \A d \in Client \ {c} : client'[d].conn # k
  BY <1>1 DEF Owned
<1>5. NumberedOn(k)
  BY <1>1 DEF Numbered
<1>6. UpTo(up[k], client[c].id) /\ \A n \in Id : <<k, n>> \in Acted => n <= client[c].id
  BY <1>5 DEF NumberedOn
<1>7. r.id = id /\ client[c].id < id /\ Id \subseteq Nat
  BY <1>1, IdsAreNumbers
<1> HIDE DEF r
<1>8. Grows(up'[k]) /\ UpTo(up'[k], id)
  <2>0. \A i \in DOMAIN up[k] : up[k][i].id \in Nat /\ up[k][i].id < id
    <3>1. ASSUME NEW i \in DOMAIN up[k] PROVE up[k][i].id \in Nat /\ up[k][i].id <= client[c].id
      <4>1. up[k][i] \in Request
        BY <1>2
      <4> QED
        BY <1>6, <1>7, <4>1 DEF UpTo, Request
    <3> HIDE DEF k
    <3> QED
      BY <1>1, <1>7, <3>1
  <2>0a. id \in Nat /\ id <= id
    BY <1>1
  <2>0b. \A i \in DOMAIN up[k] : up[k][i].id <= id
    <3> HIDE DEF k, id
    <3> QED
      BY <2>0, <2>0a
  <2>1. CASE up'[k] = up[k]
    BY <1>5, <2>0b, <2>1 DEF NumberedOn, UpTo
  <2>2. CASE up'[k] = Append(up[k], r)
    <3>1. \A i \in DOMAIN up'[k] : IF i = Len(up[k]) + 1 THEN up'[k][i] = r
                                   ELSE i \in DOMAIN up[k] /\ up'[k][i] = up[k][i]
      BY <1>2, <2>2, AppendFacts
    <3>2. UpTo(up'[k], id)
      <4> HIDE DEF k, id
      <4> QED
        BY <1>7, <2>0a, <2>0b, <3>1 DEF UpTo
    <3>3. ASSUME NEW i \in DOMAIN up'[k], NEW j \in DOMAIN up'[k], i < j
          PROVE  up'[k][i].id < up'[k][j].id
      <4>1. DOMAIN up'[k] = 1 .. Len(up[k]) + 1
        BY <1>2, <2>2
      <4>2. i # Len(up[k]) + 1
        BY <1>2, <3>3, <4>1
      <4>3. i \in DOMAIN up[k] /\ up'[k][i] = up[k][i]
        BY <3>1, <4>2
      <4>4. CASE j = Len(up[k]) + 1
        BY <1>7, <2>0, <3>1, <4>3, <4>4
      <4>5. CASE j # Len(up[k]) + 1
        BY <1>5, <3>1, <3>3, <4>3, <4>5 DEF NumberedOn, Grows
      <4> QED
        BY <4>4, <4>5
    <3> QED
      BY <3>2, <3>3 DEF Grows
  <2> QED
    BY <1>3, <2>1, <2>2
<1>9. ASSUME NEW n \in Id, <<k, n>> \in Acted PROVE After(up'[k], n) /\ n <= id
  <2>1. After(up[k], n) /\ n < id /\ n <= id
    BY <1>1, <1>5, <1>6, <1>7, <1>9 DEF NumberedOn
  <2>2. CASE up'[k] = up[k]
    BY <2>1, <2>2
  <2>3. CASE up'[k] = Append(up[k], r)
    BY <1>2, <1>7, <2>1, <2>3, AppendFacts DEF After
  <2> QED
    BY <1>3, <2>1, <2>2, <2>3
<1>10. srv[k] # "none"
  BY <1>1 DEF Owned
<1>11. NumberedOn(k)'
  <2>1. \A d \in Client : client'[d].conn = k => client'[d].id = id
    BY <1>4
  <2> QED
    BY <1>8, <1>9, <1>10, <2>1 DEF NumberedOn, Grows, After, UpTo
<1>12. ASSUME NEW j \in Conn, j # k PROVE NumberedOn(j)'
  <2>1. NumberedOn(j) /\ up'[j] = up[j]
    BY <1>3, <1>12 DEF Numbered
  <2>2. \A d \in Client : client'[d].conn = j => client[d].conn = j /\ client'[d].id = client[d].id
    BY <1>12
  <2> QED
    BY <1>1, <2>1, <2>2, KeepsNumbers, SameIsWithin
<1> QED
  BY <1>11, <1>12 DEF Numbered

LEMMA ClientNumbers ==
    ASSUME ProtocolAssumption, IInv, Numbered, NEW c \in Client,
           \/ Open(c) \/ Close(c) \/ Execute(c) \/ SendReload(c)
           \/ ReceiveToken(c) \/ Receive(c) \/ Timeout(c) \/ PeerClosed(c)
    PROVE  Numbered'
<1>0. Types /\ Owned /\ client \in [Client -> ClientState]
  BY DEF IInv, Types
<1>1. ASSUME UNCHANGED <<up, done, unchecked>>,
             \A d \in Client \ {c} : client'[d] = client[d],
             client'[c].conn \in Conn =>
               client'[c].conn = client[c].conn /\ client'[c].id = client[c].id,
             \A k \in Conn : srv'[k] = "none" => srv[k] = "none"
      PROVE  Numbered'
  <2> SUFFICES ASSUME NEW k \in Conn PROVE NumberedOn(k)'
    BY DEF Numbered
  <2>1. NumberedOn(k) /\ up'[k] = up[k]
    BY <1>1 DEF Numbered
  <2>2. \A d \in Client : client'[d].conn = k => client[d].conn = k /\ client'[d].id = client[d].id
    BY <1>1
  <2> QED
    BY <1>0, <1>1, <2>1, <2>2, KeepsNumbers, SameIsWithin
<1>2. CASE Open(c)
  <2>1. PICK k \in Conn :
          /\ srv[k] = "none"
          /\ srv' = [srv EXCEPT ![k] = "backlog"]
          /\ client' = [client EXCEPT ![c] = Connected(k)]
    BY <1>2 DEF Open
  <2>2. client'[c] = Connected(k) /\ UNCHANGED <<up, done, unchecked>>
    BY <1>0, <1>2, <2>1 DEF Open
  <2>3. \A j \in Conn : srv'[j] = "none" => srv[j] = "none"
    BY <1>0, <2>1 DEF Types
  <2>4. ASSUME NEW j \in Conn PROVE NumberedOn(j)'
    <3>1. NumberedOn(j) /\ up'[j] = up[j]
      BY <2>2 DEF Numbered
    <3>2. CASE j # k
      <4>1. \A d \in Client : client'[d].conn = j =>
              client[d].conn = j /\ client'[d].id = client[d].id
        BY <1>0, <2>1, <2>2, <3>2 DEF Connected
      <4> QED
        BY <1>0, <2>2, <2>3, <3>1, <4>1, KeepsNumbers, SameIsWithin
    <3>3. CASE j = k
      <4>1. up'[j] = <<>> /\ \A id \in Id : <<j, id>> \notin Acted'
        BY <1>0, <2>1, <2>2, <3>1, <3>3 DEF Owned, NumberedOn
      <4> QED
        BY <4>1 DEF NumberedOn, Grows, After, UpTo
    <3> QED
      BY <3>2, <3>3
  <2> QED
    BY <2>4 DEF Numbered
<1>3. CASE Close(c) \/ Timeout(c) \/ PeerClosed(c)
  <2>1. PICK left \in {Apart, Dead} : Leave(c, left)
    BY <1>3 DEF Close, Timeout, PeerClosed
  <2>1a. client' = [client EXCEPT ![c] = left] /\ UNCHANGED <<srv, up, done, unchecked>>
    BY <2>1 DEF Leave
  <2>2. client'[c] = left /\ left.conn \notin Conn
    BY <1>0, <2>1a DEF Apart, Dead, Connected, Conn
  <2>3. \A d \in Client \ {c} : client'[d] = client[d]
    BY <1>0, <2>1a
  <2>4. UNCHANGED <<up, done, unchecked>> /\ \A k \in Conn : srv'[k] = "none" => srv[k] = "none"
    BY <2>1a
  <2> QED
    BY <1>1, <2>2, <2>3, <2>4
<1>4. CASE Receive(c)
  <2>1. client' = [client EXCEPT ![c].wait = "no"] /\ UNCHANGED <<srv, up, done, unchecked>>
    BY <1>4 DEF Receive
  <2>2. client'[c].conn = client[c].conn /\ client'[c].id = client[c].id
    BY <1>0, <2>1 DEF ClientState
  <2> QED
    BY <1>0, <1>1, <2>1, <2>2
<1>5. CASE Execute(c)
  <2>1. PICK goal \in Goal, pw \in Password \cup {NoPass} :
          LET k == client[c].conn
              id == client[c].id + 1
              first == goal \in NeedsToken
          IN /\ id + (IF first THEN 1 ELSE 0) \in Id
             /\ client' = [client EXCEPT ![c] =
                             [conn |-> k, id |-> id, goal |-> goal, pw |-> pw,
                              wait |-> IF first THEN "token" ELSE "result"]]
             /\ Send(k, id, IF first THEN "get_token" ELSE goal, pw)
    BY <1>5 DEF Execute
  <2>2. client[c].conn # NoConn /\ UNCHANGED <<done, unchecked, srv>>
    BY <1>5 DEF Execute
  <2>3. /\ client'[c].conn = client[c].conn /\ client'[c].id = client[c].id + 1
        /\ \A d \in Client \ {c} : client'[d] = client[d]
    BY <1>0, <2>1
  <2>4. client[c].id + 1 \in Id
    BY <1>0, <2>1, IdsAreNumbers DEF Id
  <2> DEFINE cmd == IF goal \in NeedsToken THEN "get_token" ELSE goal
  <2>5. cmd \in Cmd /\ Send(client[c].conn, client[c].id + 1, cmd, pw)
    BY <2>1 DEF Cmd
  <2> HIDE DEF cmd
  <2> QED
    BY <2>2, <2>3, <2>4, <2>5, SendsNumber
<1>6. CASE SendReload(c)
  <2>1. /\ client[c].conn # NoConn /\ client[c].id + 1 \in Id /\ UNCHANGED <<done, unchecked, srv>>
        /\ client' = [client EXCEPT ![c].id = @ + 1]
        /\ Send(client[c].conn, client[c].id + 1, "reload", NoPass)
    BY <1>6 DEF SendReload
  <2>2. /\ client'[c].conn = client[c].conn /\ client'[c].id = client[c].id + 1
        /\ \A d \in Client \ {c} : client'[d] = client[d]
    BY <1>0, <2>1 DEF ClientState
  <2>3. "reload" \in Cmd
    BY DEF Cmd
  <2> QED
    BY <2>1, <2>2, <2>3, SendsNumber
<1>7. CASE ReceiveToken(c)
  <2>1. /\ client[c].wait = "token" /\ UNCHANGED <<done, unchecked, srv>>
        /\ client' = [client EXCEPT ![c].id = client[c].id + 1, ![c].wait = "result"]
        /\ Send(client[c].conn, client[c].id + 1, client[c].goal, client[c].pw)
    BY <1>7 DEF ReceiveToken
  <2>2. client[c].conn # NoConn /\ client[c].id + 1 \in Id
    BY <1>0, <2>1 DEF Owned
  <2>3. /\ client'[c].conn = client[c].conn /\ client'[c].id = client[c].id + 1
        /\ \A d \in Client \ {c} : client'[d] = client[d]
    BY <1>0, <2>1 DEF ClientState
  <2>4. client[c].goal \in Cmd /\ client[c].pw \in Password \cup {NoPass}
    BY <1>0 DEF ClientState, Cmd
  <2> QED
    BY <2>1, <2>2, <2>3, <2>4, SendsNumber
<1> QED
  BY <1>2, <1>3, <1>4, <1>5, <1>6, <1>7

LEMMA ServerNumbers ==
    ASSUME ProtocolAssumption, IInv, Numbered, NEW k \in Conn,
           Accept(k) \/ Read(k) \/ PeerGone(k)
    PROVE  Numbered'
<1>0. Types /\ InStep /\ up \in [Conn -> Seq(Request)] /\ srv \in [Conn -> {"none"} \cup Live \cup Gone]
  BY DEF IInv, Types
<1>1. ASSUME UNCHANGED <<client, done, unchecked>>,
             \A j \in Conn : Within(up'[j], up[j]),
             \A j \in Conn : srv'[j] = "none" => srv[j] = "none"
      PROVE  Numbered'
  <2> SUFFICES ASSUME NEW j \in Conn PROVE NumberedOn(j)'
    BY DEF Numbered
  <2>1. NumberedOn(j) /\ Within(up'[j], up[j])
    BY <1>1 DEF Numbered
  <2> QED
    BY <1>0, <1>1, <2>1, KeepsNumbers
<1>2. CASE Accept(k)
  BY <1>0, <1>1, <1>2, SameIsWithin DEF Accept
<1>3. CASE PeerGone(k)
  <2>1. UNCHANGED <<client, done, unchecked>> /\ \A j \in Conn : srv'[j] = "none" => srv[j] = "none"
    BY <1>0, <1>3 DEF PeerGone
  <2>2. \A j \in Conn : up'[j] = up[j] \/ up'[j] = <<>>
    BY <1>0, <1>3 DEF PeerGone
  <2>3. \A j \in Conn : Within(up'[j], up[j])
    BY <2>2, SameIsWithin
  <2> QED
    BY <1>1, <2>1, <2>3
<1>4. CASE ReadPart(k)
  <2>1. UNCHANGED <<client, done, unchecked, srv>> /\ up[k] # <<>>
    BY <1>4 DEF ReadPart
  <2>2. ASSUME NEW j \in Conn PROVE Within(up'[j], up[j])
    <3>1. CASE j # k
      <4>1. up'[j] = up[j]
        BY <1>0, <1>4, <3>1 DEF ReadPart
      <4> QED
        BY <4>1, SameIsWithin
    <3>2. CASE j = k /\ \E s \in Later(up[k]) : up' = [up EXCEPT ![k] = s]
      <4>1. up'[k] \in Later(up[k]) /\ up[k] \in Seq(Request)
        BY <1>0, <3>2
      <4> QED
        BY <2>1, <3>2, <4>1, LaterIsWithin
    <3>3. CASE j = k /\ up' = [up EXCEPT ![k][1].rest = TRUE]
      <4> DEFINE part == [up[k][1] EXCEPT !.rest = TRUE]
                 s == [up[k] EXCEPT ![1] = part]
      <4>1. up' = [up EXCEPT ![k] = s]
        BY <3>3
      <4>2. up[k][1] \in Request /\ up[k] \in Seq(Request)
        BY <1>0, <2>1
      <4>3. part.id = up[k][1].id
        BY <4>2 DEF Request
      <4> HIDE DEF part
      <4>4. DOMAIN s = DOMAIN up[k] /\ \A i \in DOMAIN s : s[i].id = up[k][i].id
        BY <4>2, <4>3
      <4> HIDE DEF s
      <4>5. Within(s, up[k])
        BY <4>4 DEF Within, Grows, After, UpTo
      <4> QED
        BY <1>0, <3>3, <4>1, <4>5
    <3> QED
      BY <1>4, <3>1, <3>2, <3>3 DEF ReadPart
  <2> QED
    BY <1>1, <2>1, <2>2
<1>5. CASE ReadWhole(k)
  <2>1. PICK s \in Later(up[k]) : up' = [up EXCEPT ![k] = s]
    BY <1>5 DEF ReadWhole
  <2>2. up[k] # <<>> /\ UNCHANGED client
    BY <1>5 DEF ReadWhole
  <2>3. HandlerOK(k, Head(up[k]))
    BY <1>5, ReadWholeStep
  <2>4. /\ Acted' \subseteq Acted \cup {<<k, Head(up[k]).id>>}
        /\ srv'[k] # "none" /\ \A j \in Conn \ {k} : srv'[j] = srv[j]
    BY <2>3 DEF HandlerOK
  <2>5. ASSUME NEW j \in Conn, j # k PROVE NumberedOn(j)'
    <3>1. NumberedOn(j) /\ up'[j] = up[j]
      BY <1>0, <2>1, <2>5 DEF Numbered
    <3>2. Within(up'[j], up[j])
      BY <3>1, SameIsWithin
    <3>3. \A id \in Id : <<j, id>> \in Acted' => <<j, id>> \in Acted
      BY <2>4, <2>5
    <3> QED
      BY <1>0, <2>2, <2>4, <2>5, <3>1, <3>2, <3>3, KeepsNumbers
  <2>6. NumberedOn(k)'
    <3>1. NumberedOn(k) /\ up'[k] = s /\ up[k] \in Seq(Request)
      BY <1>0, <2>1 DEF Numbered
    <3>2. Within(up'[k], up[k]) /\ After(up'[k], Head(up[k]).id)
      BY <2>1, <2>2, <3>1, LaterIsWithin DEF NumberedOn
    <3>3. \A id \in Id : <<k, id>> \in Acted' =>
            \/ <<k, id>> \in Acted
            \/ up[k] # <<>> /\ id = Head(up[k]).id /\ After(up'[k], id) /\ srv'[k] # "none"
      BY <2>2, <2>4, <3>2
    <3> QED
      BY <1>0, <2>2, <2>4, <3>1, <3>2, <3>3, KeepsNumbers
  <2> QED
    BY <2>5, <2>6 DEF Numbered
<1> QED
  BY <1>2, <1>3, <1>4, <1>5 DEF Read

LEMMA NextNumbered ==
    ASSUME ProtocolAssumption, IInv, Numbered, [Next]_vars
    PROVE  Numbered'
<1>0. Types
  BY DEF IInv
<1>1. ASSUME UNCHANGED <<client, done, unchecked>>,
             \A j \in Conn : up'[j] = up[j] \/ up'[j] = <<>>,
             \A j \in Conn : srv'[j] = "none" => srv[j] = "none"
      PROVE  Numbered'
  <2> SUFFICES ASSUME NEW j \in Conn PROVE NumberedOn(j)'
    BY DEF Numbered
  <2>1. NumberedOn(j) /\ Within(up'[j], up[j])
    BY <1>1, SameIsWithin DEF Numbered
  <2> QED
    BY <1>0, <1>1, <2>1, KeepsNumbers
<1>2. CASE End
  <2>1. UNCHANGED <<client, done, unchecked>> /\ \A j \in Conn : up'[j] = up[j] \/ up'[j] = <<>>
    BY <1>2 DEF End
  <2>2. \A j \in Conn : srv'[j] = "none" => srv[j] = "none"
    BY <1>2 DEF End
  <2> QED
    BY <1>1, <2>1, <2>2
<1>3. CASE UNCHANGED vars
  BY <1>1, <1>3 DEF vars
<1> QED
  BY <1>2, <1>3, ClientNumbers, ServerNumbers DEF Next

\* Requests take effect in the order in which they were sent and once at most,
\* whatever part of what is under way a read throws away (connection.cxx:26-52).
THEOREM EffectsKeepOrder == Spec => []EffectsInOrder
<1>1. Init => Numbered
  <2> SUFFICES ASSUME Init, NEW k \in Conn PROVE NumberedOn(k)
    BY DEF Numbered
  <2>1. up[k] = <<>> /\ Acted = {} /\ \A c \in Client : client[c].conn # k
    BY DEF Init, Apart, Connected, Conn
  <2> QED
    BY <2>1 DEF NumberedOn, Grows
<1>2. IInv /\ Numbered /\ [Next]_vars => Numbered'
  BY NextNumbered, ProtocolAssumption
<1>3. Numbered => EffectsInOrder
  BY DEF Numbered, NumberedOn, After, EffectsInOrder
<1> QED
  BY <1>1, <1>2, <1>3, ProtocolInvariant, PTL DEF Spec

=============================================================================
